-------------------------- MODULE MCLockFreeQueue ---------------------------
(* TLC instance of LockFreeQueue.  With fewer addresses than items the      *)
(* allocator must recycle nodes.                                            *)
EXTENDS LockFreeQueue

CONSTANTS a1, a2, a3, v1, v2
MCAddr == {a1, a2, a3}
MCValue == {v1, v2}
=============================================================================
