---------------------------- MODULE MCSyncQueue ----------------------------
EXTENDS SyncQueue
=============================================================================
