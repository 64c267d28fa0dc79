--------------------------- MODULE StorageSyncMC ---------------------------
EXTENDS StorageSync, TLC
=============================================================================
