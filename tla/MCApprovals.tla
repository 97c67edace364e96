---------------------------- MODULE MCApprovals ----------------------------
(***************************************************************************)
(* Instances of Approvals for TLC, on the seeded two-level workflow        *)
(* (main.py): level 1 admits any role that can review, level 2 publishers. *)
(***************************************************************************)
EXTENDS Approvals, TLC

\* cr, a publisher, created the version; pb is another publisher and rv a
\* reviewer, who cannot decide level 2.
CONSTANTS cr, pb, rv

PublisherPair == {cr, pb}
PublisherGate == <<{cr, pb}, {cr, pb}>>

ReviewTeam == {cr, pb, rv}
ReviewGate == <<{cr, pb, rv}, {cr, pb}>>

\* an, an analyst, created the version and cannot review.
CONSTANT an

AnalystTeam == {an, pb}
AnalystGate == <<{pb}, {pb}>>

\* Processes are interchangeable, and no property names one.
WorkerSymmetry == Permutations(Workers)
=============================================================================
