---------------------------- MODULE MCLockGuard ----------------------------
(* Instances of LockGuard for TLC: processes are interchangeable.           *)
EXTENDS LockGuard, TLC

ProcsSymmetry == Permutations(Procs)
=============================================================================
