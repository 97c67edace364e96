-------------------------------- MODULE SignIn --------------------------------
(***************************************************************************)
(* Being signed in, from the first password to the last logout: the        *)
(* sessions of the browsers and the access tokens at hand.  They share no  *)
(* variable; requests on both interleave.                                  *)
(***************************************************************************)
EXTENDS Sessions, SignOff

SignInInit == SessionsInit /\ SignOffInit

SignInNext ==
    \/ SessionsNext /\ UNCHANGED signOffVars
    \/ SignOffNext /\ UNCHANGED sessionVars

SignInSpec == SignInInit /\ [][SignInNext]_<<sessionVars, signOffVars>>

-----------------------------------------------------------------------------
\* Who has signed out has no access with the token at hand, and who has not keeps
\* the session (token_store.py, auth.py).
AccessKept == SessionsKept /\ LogoutHolds
=============================================================================
