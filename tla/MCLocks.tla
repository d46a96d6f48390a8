------------------------------ MODULE MCLocks ------------------------------
(***************************************************************************)
(* Instances of Locks for TLC.                                             *)
(***************************************************************************)
EXTENDS Locks, TLC

Lock(type, whence) == [type |-> type, whence |-> whence]

CONSTANTS Writer, Reader

\* One thread reverses its guard, writes and locks a part of the file, another
\* one reads, and locks the whole file; the third only works with the condition.
Kinds == [t \in Thread |-> [type : {"MutexGuard"}] \union
    CASE t = Writer -> [type : {"MutexReverseGuard", "WriteLockGuard"}] \union
             [type : {"FileLockGuard"}, m_lock : {Lock("WRITE_LOCK", "CUR")}]
      [] t = Reader -> [type : {"ReadLockGuard"}] \union
             [type : {"OFDLock"}, m_lock : {Lock("READ_LOCK", "SET")}]
      [] OTHER -> {}]
=============================================================================
