----------------------------- MODULE DesktopMC -----------------------------
EXTENDS Desktop, TLC
=============================================================================
