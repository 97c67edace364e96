-------------------------- MODULE MCBackgroundJobs --------------------------
(***************************************************************************)
(* Instances of BackgroundJobs for TLC: one job of each kind.              *)
(***************************************************************************)
EXTENDS BackgroundJobs

CONSTANTS pull, baseline

OneTask     == {pull}
OneBaseline == {baseline}
NoBaseline  == {}
=============================================================================
