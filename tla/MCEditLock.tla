----------------------------- MODULE MCEditLock -----------------------------
(***************************************************************************)
(* Instances of EditLock for TLC: two users, two processes, two periods.   *)
(***************************************************************************)
EXTENDS EditLock, TLC

\* Users, processes and periods are interchangeable.
LockSymmetry == Permutations(Users) \cup Permutations(Processes)
=============================================================================
