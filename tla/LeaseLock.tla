----------------------------- MODULE LeaseLock -----------------------------
(***************************************************************************)
(* What services/locks.py promises of its locks: at most one user holds a  *)
(* key, another user's attempt leaves it where it is, and any lease may    *)
(* run out at any time.                                                    *)
(***************************************************************************)
CONSTANTS Users, Keys
VARIABLE holder

NoUser == "no_user"

Init == holder = [k \in Keys |-> NoUser]

\* A key that is held stays with its holder, or is given up, or its lease runs out.
Kept(k) == holder'[k] \in {holder[k], NoUser}

Next ==
    /\ holder' \in [Keys -> Users \cup {NoUser}]
    /\ \A k \in Keys : holder[k] = NoUser \/ Kept(k)

Spec == Init /\ [][Next]_holder
=============================================================================
