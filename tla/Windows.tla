------------------------------- MODULE Windows -------------------------------
(***************************************************************************)
(* What a fixed-window limiter promises every key by itself: a window opens *)
(* with the first call, lets MaxHits through, reports one trip and ends     *)
(* when its time is up.  Other keys reach it in one way only: the bucket    *)
(* may forget it, at most one key per call, and only to make room for a key *)
(* that has no window.  RateLimit is shown to implement this.               *)
(***************************************************************************)
EXTENDS Naturals

CONSTANTS Keys, MaxHits, Window

VARIABLES now, window, trips

vars == <<now, window, trips>>

Closed == [count |-> 0, until |-> 0, told |-> FALSE]

Init == now = 0 /\ window = [k \in Keys |-> Closed] /\ trips = [k \in Keys |-> 0]

(* The window a call for k is decided by. *)
Current(k) ==
  IF window[k] = Closed THEN [count |-> 0, until |-> now + Window, told |-> FALSE]
  ELSE window[k]

(* k's window becomes w; g is the key forgotten for it, k itself if none is. *)
Becomes(k, w) ==
  \E g \in Keys :
    /\ window[k] # Closed => g = k
    /\ window' = [m \in Keys |-> IF m = k THEN w
                                 ELSE IF m = g THEN Closed ELSE window[m]]

Consume(k) ==
  /\ Current(k).count < MaxHits
  /\ Becomes(k, [Current(k) EXCEPT !.count = @ + 1])
  /\ UNCHANGED <<now, trips>>

Peek(k) ==
  /\ Current(k).count < MaxHits
  /\ Becomes(k, Current(k))
  /\ UNCHANGED <<now, trips>>

Refuse(k) ==
  /\ Current(k).count >= MaxHits
  /\ Becomes(k, [Current(k) EXCEPT !.told = TRUE])
  /\ trips' = IF Current(k).told THEN trips ELSE [trips EXCEPT ![k] = @ + 1]
  /\ UNCHANGED now

Reset(k) == window' = [window EXCEPT ![k] = Closed] /\ UNCHANGED <<now, trips>>

Tick ==
  /\ now' = now + 1
  /\ window' = [k \in Keys |-> IF window[k].until <= now' THEN Closed ELSE window[k]]
  /\ UNCHANGED trips

Next ==
  \/ \E k \in Keys : Consume(k) \/ Peek(k) \/ Refuse(k) \/ Reset(k)
  \/ Tick

Spec == Init /\ [][Next]_vars
=============================================================================
