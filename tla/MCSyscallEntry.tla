--------------------------- MODULE MCSyscallEntry ---------------------------
(* Instances of SyscallEntry.  The threads are interchangeable.            *)
EXTENDS SyscallEntry, TLC

Symmetric == Permutations(UserThreads)
=============================================================================
