-------------------------- MODULE ApprovalsProofs --------------------------
(***************************************************************************)
(* Proofs about Approvals for any number of processes, users, levels and   *)
(* submissions; what holds of one process alone comes last.                *)
(***************************************************************************)
EXTENDS Approvals, TLAPS

\* An idle request, and one that advances, is a request.
LEMMA IdleIsRequest == Idle \in Requests
  <1>1. 1 \in Rounds /\ 1 \in Levels
    BY ApprovalsAssumption DEF Rounds, Levels
  <1>2. {} \in SUBSET Slots /\ {} \in SUBSET Levels
    OBVIOUS
  <1> QED BY <1>1, <1>2 DEF Idle, Requests, Statuses

\* Every assignment to req puts a request in one process's place.
LEMMA ServeType ==
  ASSUME TypeOK, NEW w \in Workers, NEW r \in Requests, Serve(w, r)
  PROVE  req' \in [Workers -> Requests]
  BY DEF TypeOK, Serve

\* What a flush leaves in the status column is a status.
LEMMA WrittenType ==
  ASSUME TypeOK, NEW seen, NEW value \in Statuses
  PROVE  Written(seen, value) \in Statuses \cup {"deleted"}
  BY DEF TypeOK, Written

\* The initial state has the declared types.
LEMMA TypeInit == Init => TypeOK
  <1> SUFFICES ASSUME Init PROVE TypeOK OBVIOUS
  <1>1. 0 \in 0 .. MaxRounds
    BY ApprovalsAssumption
  <1> QED BY <1>1, IdleIsRequest DEF Init, TypeOK, Statuses

\* Requests that arrive keep the types.
LEMMA TypeReceive ==
  ASSUME TypeOK, NEW w \in Workers, Receive(w)
  PROVE  TypeOK'
  <1>1. PICK u \in Users :
        \/ SubmitLoad(w, u)
        \/ \E r \in Rounds, l \in Levels, action \in {"approve", "reject"} :
               DecideLoad(w, u, r, l, action)
        \/ ChatSubmit(w, u)
        \/ \E aim \in Statuses : ChatApprove(w, u, aim)
        \/ ChatReject(w, u)
        \/ \E aim \in Statuses : UpdateStatus(w, u, aim)
        \/ DeleteLoad(w, u)
    BY DEF Receive
  <1>2. Rows("pending") \in SUBSET Slots /\ PresentRows \in SUBSET Slots
    BY DEF Rows, PresentRows
  <1>3. ASSUME NEW r \in Requests, Serve(w, r), Untouched PROVE TypeOK'
    <2>1. req' \in [Workers -> Requests] BY <1>3, ServeType
    <2> QED BY <2>1, <1>3 DEF TypeOK, Untouched
  <1>4. CASE SubmitLoad(w, u)
    <2> DEFINE q == [Idle EXCEPT !.op = "submit", !.pc = "loaded", !.user = u,
                                 !.seen = status, !.rows = Rows("pending")]
    <2>1. q \in Requests
      BY <1>2, IdleIsRequest DEF TypeOK, Requests, Idle
    <2> QED BY <2>1, <1>3, <1>4 DEF SubmitLoad
  <1>5. CASE \E r \in Rounds, l \in Levels, action \in {"approve", "reject"} :
               DecideLoad(w, u, r, l, action)
    <2>1. PICK r \in Rounds, l \in Levels, action \in {"approve", "reject"} :
               DecideLoad(w, u, r, l, action)
      BY <1>5
    <2> DEFINE q == [Idle EXCEPT !.op = action, !.pc = "loaded", !.user = u,
                                 !.rnd = r, !.lvl = l, !.seen = status]
    <2>2. q \in Requests
      BY IdleIsRequest DEF TypeOK, Requests, Idle
    <2> QED BY <2>1, <2>2, <1>3 DEF DecideLoad, MayDecide
  <1>6. ASSUME NEW aim \in Statuses, ChatLoad(w, u, aim) PROVE TypeOK'
    <2> DEFINE q == [Idle EXCEPT !.op = "set", !.pc = "loaded", !.user = u,
                                 !.seen = status, !.aim = aim]
    <2>1. q \in Requests
      BY IdleIsRequest DEF TypeOK, Requests, Idle
    <2> QED BY <2>1, <1>3, <1>6 DEF ChatLoad
  <1>7. CASE DeleteLoad(w, u)
    <2> DEFINE q == [Idle EXCEPT !.op = "delete", !.pc = "loaded", !.rows = PresentRows]
    <2>1. q \in Requests
      BY <1>2, IdleIsRequest DEF Requests, Idle
    <2> QED BY <2>1, <1>3, <1>7 DEF DeleteLoad
  <1>8. "in_review" \in Statuses /\ "draft" \in Statuses
    BY DEF Statuses
  <1> QED BY <1>1, <1>4, <1>5, <1>6, <1>7, <1>8
          DEF ChatSubmit, ChatApprove, ChatReject, UpdateStatus

\* Steps of a request in progress keep the types.
LEMMA TypeProceed ==
  ASSUME TypeOK, NEW w \in Workers, Proceed(w)
  PROVE  TypeOK'
  <1> USE ApprovalsAssumption DEF Levels, Rounds
  <1>0. req[w] \in Requests /\ Idle \in Requests
    BY IdleIsRequest DEF TypeOK
  <1>1. /\ req[w].user \in Users \cup {NoUser} /\ req[w].rnd \in Rounds
        /\ req[w].lvl \in Levels /\ req[w].aim \in Statuses
        /\ req[w].tell \in SUBSET Levels
    BY <1>0 DEF Requests
  <1>2. ActionableLevels \in SUBSET Levels
    BY DEF ActionableLevels
  <1>3. CASE SubmitCommit(w)
    <2> DEFINE q == [Idle EXCEPT !.op = "submit", !.pc = "submitted"]
    <2>1. q \in Requests
      BY <1>0 DEF Requests, Idle
    <2>2. CASE status = "deleted"
      <3>1. Finish(w) /\ Untouched BY <2>2, <1>3 DEF SubmitCommit, Superseded
      <3>2. req' \in [Workers -> Requests]
        BY <3>1, <1>0, ServeType DEF Finish
      <3> QED BY <3>1, <3>2 DEF Untouched, TypeOK
    <2>3. CASE status # "deleted"
      <3>1. /\ round < MaxRounds
            /\ step' = [r \in Rounds |-> [l \in Levels |->
                          IF r = round + 1 THEN "pending"
                          ELSE IF Superseded(r, l, req[w].rows) THEN "absent"
                          ELSE step[r][l]]]
            /\ round' = round + 1
            /\ submitter' = [submitter EXCEPT ![round + 1] = req[w].user]
            /\ status' = Written(req[w].seen, "in_review")
            /\ Serve(w, q)
            /\ UNCHANGED <<actor, notified>>
        BY <2>3, <1>3 DEF SubmitCommit, Superseded
      <3>2. req' \in [Workers -> Requests]
        BY <3>1, <2>1, ServeType
      <3>3. status' \in Statuses \cup {"deleted"}
        BY <3>1, WrittenType DEF Statuses
      <3>4. round' \in 0 .. MaxRounds
        BY <3>1 DEF TypeOK
      <3>5. step' \in [Rounds -> [Levels -> {"absent", "pending", "skipped"} \cup Decided]]
        BY <3>1 DEF TypeOK
      <3>6. submitter' \in [Rounds -> Users \cup {NoUser}]
        BY <3>1, <1>1 DEF TypeOK
      <3> QED BY <3>1, <3>2, <3>3, <3>4, <3>5, <3>6 DEF TypeOK
    <2> QED BY <2>2, <2>3
  <1>4. CASE SubmitNotify(w)
    <2>1. req' \in [Workers -> Requests]
      BY <1>4, <1>0, ServeType DEF SubmitNotify, Finish
    <2> QED BY <2>1, <1>4, <1>2 DEF SubmitNotify, TypeOK
  <1>5. ASSUME Untouched, NEW q \in Requests, Serve(w, q) PROVE TypeOK'
    <2>1. req' \in [Workers -> Requests] BY <1>5, ServeType
    <2> QED BY <2>1, <1>5 DEF TypeOK, Untouched
  <1>6. CASE DecideGate(w)
    <2> DEFINE q == [req[w] EXCEPT !.pc = "gated"]
    <2>1. q \in Requests BY <1>0 DEF Requests
    <2> QED BY <2>1, <1>0, <1>5, <1>6 DEF DecideGate, Finish
  <1>7. CASE DecideCount(w)
    <2> DEFINE q == [req[w] EXCEPT !.pc = "counted", !.left = (Rows("pending") # {}),
                                   !.tell = ActionableLevels]
    <2>1. q \in Requests
      <3>1. (Rows("pending") # {}) \in BOOLEAN OBVIOUS
      <3> QED BY <3>1, <1>0, <1>2 DEF Requests
    <2> QED BY <2>1, <1>5, <1>7 DEF DecideCount
  <1>8. CASE DecideLost(w)
    BY <1>0, <1>5, <1>8 DEF DecideLost, Finish
  <1>9. ASSUME DecisionStands(w)
        PROVE  /\ req' \in [Workers -> Requests]
               /\ actor' \in [Rounds -> [Levels -> Users \cup {NoUser}]]
               /\ submitter' = submitter /\ round' = round
    <2>1. req' \in [Workers -> Requests]
      BY <1>9, <1>0, ServeType DEF DecisionStands, Finish
    <2> QED BY <2>1, <1>9, <1>1 DEF DecisionStands, TypeOK
  <1>10. CASE DecideApprove(w)
    <2>1. status' \in Statuses \cup {"deleted"}
      BY <1>10, WrittenType DEF DecideApprove, Statuses, TypeOK
    <2>2. step' \in [Rounds -> [Levels -> {"absent", "pending", "skipped"} \cup Decided]]
      BY <1>10, <1>1 DEF DecideApprove, TypeOK, Decided
    <2>3. notified' \in SUBSET Levels
      BY <1>10, <1>1 DEF DecideApprove, TypeOK
    <2> QED BY <2>1, <2>2, <2>3, <1>9, <1>10 DEF DecideApprove, TypeOK
  <1>11. CASE DecideReject(w)
    <2>1. status' \in Statuses \cup {"deleted"}
      BY <1>11, WrittenType DEF DecideReject, Skipped, Statuses
    <2>2. step' \in [Rounds -> [Levels -> {"absent", "pending", "skipped"} \cup Decided]]
      BY <1>11 DEF DecideReject, Skipped, TypeOK, Decided
    <2> QED BY <2>1, <2>2, <1>9, <1>11 DEF DecideReject, Skipped, TypeOK
  <1>12. CASE ChatCommit(w)
    <2>1. status' \in Statuses \cup {"deleted"}
      BY <1>12, <1>1, WrittenType DEF ChatCommit, TypeOK
    <2>2. req' \in [Workers -> Requests]
      BY <1>12, <1>0, ServeType DEF ChatCommit, Finish
    <2> QED BY <2>1, <2>2, <1>12 DEF ChatCommit, TypeOK
  <1>13. CASE DeleteCommit(w)
    <2>1. req' \in [Workers -> Requests]
      BY <1>13, <1>0, ServeType DEF DeleteCommit, Finish
    <2>2. CASE Untouched
      BY <2>1, <2>2 DEF Untouched, TypeOK
    <2>3. CASE ~Untouched
      <3>1. /\ status' = "deleted"
            /\ step' = [r \in Rounds |-> [l \in Levels |-> "absent"]]
            /\ actor' = [r \in Rounds |-> [l \in Levels |-> NoUser]]
            /\ UNCHANGED <<submitter, round, notified>>
        BY <2>3, <1>13 DEF DeleteCommit
      <3> QED BY <3>1, <2>1 DEF TypeOK
    <2> QED BY <2>2, <2>3
  <1> QED
    BY <1>3, <1>4, <1>6, <1>7, <1>8, <1>10, <1>11, <1>12, <1>13 DEF Proceed

\* Approvals never leaves its types.
THEOREM TypeCorrect == Spec => []TypeOK
  <1>1. TypeOK /\ UNCHANGED vars => TypeOK'
    BY DEF TypeOK, vars
  <1>2. TypeOK /\ Next => TypeOK'
    BY TypeReceive, TypeProceed DEF Next
  <1> QED BY <1>1, <1>2, TypeInit, PTL DEF Spec


-----------------------------------------------------------------------------
(***************************************************************************)
(* The inductive invariant.  LevelsInOrder alone is not inductive: that a  *)
(* decision respects the order rests on what its process learnt at the     *)
(* gate, and on the rows of one submission appearing, closing and being    *)
(* removed from the lowest level up.                                       *)
(***************************************************************************)
Closed == {"skipped"} \cup Decided

RowsNested ==
    \A r \in Rounds, l, k \in Levels : k < l =>
        /\ step[r][l] # "absent" => step[r][k] # "absent"
        /\ step[r][l] \in Closed => step[r][k] \in Closed
        /\ step[r][l] \in Decided => step[r][k] \in Decided

RoundsInOrder == \A r \in Rounds, l \in Levels : round < r => step[r][l] = "absent"

\* What a request in progress may rely on.  A submission about to delete one
\* pending row of an earlier one deletes all of them; a decision past its gate
\* has every lower level of its submission decided.
SoundRequest(q) ==
    /\ q.op = "submit" =>
          \A r \in Rounds, l \in Levels : <<r, l>> \in q.rows =>
              /\ r <= round
              /\ \A k \in Levels : step[r][k] = "pending" => <<r, k>> \in q.rows
    /\ q.op \in {"approve", "reject"} =>
          /\ q.rnd <= round
          /\ q.user \in Reviewers \cap Eligible[q.lvl]
          /\ RequireSoD => q.user # Creator
          /\ q.pc # "loaded" /\ step[q.rnd][q.lvl] # "absent" =>
                \A k \in Levels : k < q.lvl => step[q.rnd][k] \in Decided

OrderInv ==
    /\ TypeOK
    /\ RowsNested
    /\ RoundsInOrder
    /\ \A w \in Workers : SoundRequest(req[w])
    /\ DecidedByEntitled

\* The invariant holds before the first request: there are no rows.
LEMMA OrderInit == Init => OrderInv
  <1> SUFFICES ASSUME Init PROVE OrderInv OBVIOUS
  <1>1. TypeOK BY TypeInit
  <1>2. RowsNested /\ RoundsInOrder /\ DecidedByEntitled
    BY DEF Init, RowsNested, RoundsInOrder, DecidedByEntitled, IsDecided, Closed, Decided
  <1>3. \A w \in Workers : SoundRequest(req[w])
    BY DEF Init, SoundRequest, Idle
  <1> QED BY <1>1, <1>2, <1>3 DEF OrderInv

\* An idle request relies on nothing.
LEMMA IdleSound == SoundRequest(Idle) /\ SoundRequest(Idle)'
  BY DEF SoundRequest, Idle

\* A step that only advances one request keeps the invariant if what the request
\* now relies on is true.
LEMMA QuietStep ==
  ASSUME OrderInv, NEW w \in Workers, NEW q \in Requests, Serve(w, q), Untouched,
         SoundRequest(q)
  PROVE  OrderInv'
  <1>1. req' \in [Workers -> Requests]
    BY ServeType DEF OrderInv
  <1>2. TypeOK'
    BY <1>1 DEF OrderInv, TypeOK, Untouched
  <1>3. RowsNested' /\ RoundsInOrder' /\ DecidedByEntitled'
    BY DEF OrderInv, Untouched, RowsNested, RoundsInOrder, DecidedByEntitled, IsDecided
  <1>4. ASSUME NEW v \in Workers PROVE SoundRequest(req[v])'
    <2>1. SoundRequest(req'[v])
      BY DEF Serve, OrderInv, TypeOK
    <2>2. step' = step /\ round' = round
      BY DEF Untouched
    <2> QED BY <2>1, <2>2 DEF SoundRequest
  <1> QED BY <1>2, <1>3, <1>4 DEF OrderInv

\* What another request relies on stays true while rows only close and rows are
\* added for later submissions.
LEMMA SoundKept ==
  ASSUME OrderInv, NEW v \in Workers, req'[v] = req[v],
         round' \in Nat, round <= round',
         \A r \in Rounds, l \in Levels : r <= round =>
             /\ step'[r][l] = "pending" => step[r][l] = "pending"
             /\ step'[r][l] # "absent" => step[r][l] # "absent"
             /\ step[r][l] \in Decided => step'[r][l] \in Decided
  PROVE  SoundRequest(req[v])'
  <1> DEFINE q == req[v]
  <1>1. q \in Requests /\ round \in Nat /\ SoundRequest(q)
    BY ApprovalsAssumption DEF OrderInv, TypeOK
  <1>2. q.rnd \in Rounds /\ q.lvl \in Levels
    BY <1>1 DEF Requests
  <1>3. Rounds \subseteq Nat /\ Levels \subseteq Nat
    BY ApprovalsAssumption DEF Rounds, Levels
  <1>4. ASSUME q.op = "submit", NEW r \in Rounds, NEW l \in Levels, <<r, l>> \in q.rows
        PROVE  /\ r <= round'
               /\ \A k \in Levels : step'[r][k] = "pending" => <<r, k>> \in q.rows
    <2>1. r <= round /\ \A k \in Levels : step[r][k] = "pending" => <<r, k>> \in q.rows
      BY <1>1, <1>4 DEF SoundRequest
    <2>2. r <= round'
      BY <2>1, <1>1, <1>3
    <2> QED BY <2>1, <2>2
  <1>5. ASSUME q.op \in {"approve", "reject"}
        PROVE  /\ q.rnd <= round'
               /\ q.user \in Reviewers \cap Eligible[q.lvl]
               /\ RequireSoD => q.user # Creator
               /\ q.pc # "loaded" /\ step'[q.rnd][q.lvl] # "absent" =>
                     \A k \in Levels : k < q.lvl => step'[q.rnd][k] \in Decided
    <2>1. /\ q.rnd <= round
          /\ q.user \in Reviewers \cap Eligible[q.lvl]
          /\ RequireSoD => q.user # Creator
          /\ q.pc # "loaded" /\ step[q.rnd][q.lvl] # "absent" =>
                \A k \in Levels : k < q.lvl => step[q.rnd][k] \in Decided
      BY <1>1, <1>5 DEF SoundRequest
    <2>2. q.rnd <= round /\ q.rnd \in Nat /\ round \in Nat
      BY <2>1, <1>1, <1>2, <1>3
    <2>3. q.rnd <= round'
      <3> DEFINE n == q.rnd
      <3>1. n <= round /\ n \in Nat /\ round \in Nat
        BY <2>2
      <3> HIDE DEF n
      <3>2. n <= round'
        BY <3>1
      <3> QED BY <3>2 DEF n
    <2> QED BY <2>1, <2>3, <1>2
  <1>6. req'[v] = q
    OBVIOUS
  <1> HIDE DEF q
  <1> QED BY <1>4, <1>5, <1>6 DEF SoundRequest

\* A request that arrives touches no row, and what it will rely on was just checked.
LEMMA OrderReceive ==
  ASSUME OrderInv, NEW w \in Workers, Receive(w)
  PROVE  OrderInv'
  <1>0. TypeOK /\ Idle \in Requests
    BY IdleIsRequest DEF OrderInv
  <1>1. PICK u \in Users :
        \/ SubmitLoad(w, u)
        \/ \E r \in Rounds, l \in Levels, action \in {"approve", "reject"} :
               DecideLoad(w, u, r, l, action)
        \/ ChatSubmit(w, u)
        \/ \E aim \in Statuses : ChatApprove(w, u, aim)
        \/ ChatReject(w, u)
        \/ \E aim \in Statuses : UpdateStatus(w, u, aim)
        \/ DeleteLoad(w, u)
    BY DEF Receive
  <1>2. Rounds \subseteq Nat /\ round \in Nat
    BY <1>0, ApprovalsAssumption DEF TypeOK, Rounds
  <1>3. CASE SubmitLoad(w, u)
    <2> DEFINE q == [Idle EXCEPT !.op = "submit", !.pc = "loaded", !.user = u,
                                 !.seen = status, !.rows = Rows("pending")]
    <2>1. q \in Requests
      <3>1. Rows("pending") \in SUBSET Slots BY DEF Rows
      <3> QED BY <3>1, <1>0 DEF TypeOK, Requests, Idle
    <2>2. q.op = "submit" /\ q.rows = Rows("pending")
      BY DEF Idle
    <2>3. ASSUME NEW r \in Rounds, NEW l \in Levels, <<r, l>> \in Rows("pending")
          PROVE  /\ r <= round
                 /\ \A k \in Levels : step[r][k] = "pending" => <<r, k>> \in Rows("pending")
      <3>1. step[r][l] = "pending"
        BY <2>3 DEF Rows
      <3>2. r <= round
        BY <3>1, <1>2 DEF OrderInv, RoundsInOrder
      <3> QED BY <3>2 DEF Rows, Slots
    <2> HIDE DEF q
    <2>4. SoundRequest(q)
      BY <2>2, <2>3 DEF SoundRequest
    <2> USE DEF q
    <2> QED BY <2>1, <2>4, <1>3, QuietStep DEF SubmitLoad
  <1>4. CASE \E r \in Rounds, l \in Levels, action \in {"approve", "reject"} :
               DecideLoad(w, u, r, l, action)
    <2>1. PICK r \in Rounds, l \in Levels, action \in {"approve", "reject"} :
               DecideLoad(w, u, r, l, action)
      BY <1>4
    <2> DEFINE q == [Idle EXCEPT !.op = action, !.pc = "loaded", !.user = u,
                                 !.rnd = r, !.lvl = l, !.seen = status]
    <2>2. q \in Requests
      BY <1>0 DEF TypeOK, Requests, Idle
    <2>3. /\ q.op = action /\ q.pc = "loaded" /\ q.user = u
          /\ q.rnd = r /\ q.lvl = l
      BY DEF Idle
    <2>4. r <= round
      BY <2>1, <1>2 DEF DecideLoad, MayDecide, OrderInv, RoundsInOrder
    <2>5. u \in Reviewers /\ u \in Eligible[l] /\ (RequireSoD => u # Creator)
      BY <2>1 DEF DecideLoad, MayDecide
    <2> HIDE DEF q
    <2>6. SoundRequest(q)
      BY <2>3, <2>4, <2>5 DEF SoundRequest
    <2> USE DEF q
    <2> QED BY <2>1, <2>2, <2>6, QuietStep DEF DecideLoad, MayDecide
  <1>5. ASSUME NEW aim \in Statuses, ChatLoad(w, u, aim) PROVE OrderInv'
    <2> DEFINE q == [Idle EXCEPT !.op = "set", !.pc = "loaded", !.user = u,
                                 !.seen = status, !.aim = aim]
    <2>1. q \in Requests
      BY <1>0 DEF TypeOK, Requests, Idle
    <2>2. q.op = "set"
      BY DEF Idle
    <2>3. SoundRequest(q)
      BY <2>2 DEF SoundRequest
    <2> QED BY <2>1, <2>3, <1>5, QuietStep DEF ChatLoad
  <1>6. CASE DeleteLoad(w, u)
    <2> DEFINE q == [Idle EXCEPT !.op = "delete", !.pc = "loaded", !.rows = PresentRows]
    <2>1. q \in Requests
      BY <1>0 DEF Requests, Idle, PresentRows
    <2>2. q.op = "delete"
      BY DEF Idle
    <2>3. SoundRequest(q)
      BY <2>2 DEF SoundRequest
    <2> QED BY <2>1, <2>3, <1>6, QuietStep DEF DeleteLoad
  <1>7. "in_review" \in Statuses /\ "draft" \in Statuses
    BY DEF Statuses
  <1> QED BY <1>1, <1>3, <1>4, <1>5, <1>6, <1>7
          DEF ChatSubmit, ChatApprove, ChatReject, UpdateStatus

\* A step that creates, deletes or decides rows keeps the invariant when the rows
\* do, since the other requests keep what they rely on.
LEMMA RowStep ==
  ASSUME OrderInv, TypeOK', NEW w \in Workers,
         NEW q \in Requests, Serve(w, q), q.op \notin {"approve", "reject"}, q.rows = {},
         round <= round',
         \A r \in Rounds, l \in Levels : r <= round =>
             /\ step'[r][l] = "pending" => step[r][l] = "pending"
             /\ step'[r][l] # "absent" => step[r][l] # "absent"
             /\ step[r][l] \in Decided => step'[r][l] \in Decided,
         RowsNested', RoundsInOrder', DecidedByEntitled'
  PROVE  OrderInv'
  <1>1. ASSUME NEW v \in Workers PROVE SoundRequest(req[v])'
    <2>1. CASE v = w
      <3>1. req'[w] = q
        BY DEF Serve, OrderInv, TypeOK
      <3> QED BY <3>1, <2>1 DEF SoundRequest
    <2>2. CASE v # w
      <3>1. req'[v] = req[v]
        BY <2>2 DEF Serve, OrderInv, TypeOK
      <3>2. round' \in Nat
        BY ApprovalsAssumption DEF TypeOK
      <3> QED BY <3>1, <3>2, SoundKept
    <2> QED BY <2>1, <2>2
  <1> QED BY <1>1 DEF OrderInv

\* A new submission replaces the pending rows it saw.
LEMMA OrderSubmitCommit ==
  ASSUME OrderInv, TypeOK', NEW w \in Workers, SubmitCommit(w)
  PROVE  OrderInv'
  <1> DEFINE q == [Idle EXCEPT !.op = "submit", !.pc = "submitted"]
  <1>0. Idle \in Requests /\ TypeOK /\ req[w].op = "submit"
    BY IdleIsRequest DEF OrderInv, SubmitCommit, Superseded
  <1>1. CASE status = "deleted"
    <2>1. Serve(w, Idle) /\ Untouched
      BY <1>1 DEF SubmitCommit, Superseded, Finish
    <2> QED BY <2>1, <1>0, IdleSound, QuietStep
  <1>2. CASE status # "deleted"
    <2>1. /\ step' = [r \in Rounds |-> [l \in Levels |->
                        IF r = round + 1 THEN "pending"
                        ELSE IF step[r][l] = "pending" /\ <<r, l>> \in req[w].rows
                        THEN "absent" ELSE step[r][l]]]
          /\ round' = round + 1
          /\ Serve(w, q)
          /\ UNCHANGED actor
      BY <1>2 DEF SubmitCommit, Superseded
    <2>2. q \in Requests
      BY <1>0 DEF Requests, Idle
    <2>3. q.op = "submit" /\ q.rows = {}
      BY DEF Idle
    <2>4. round \in Nat /\ Rounds \subseteq Nat /\ Levels \subseteq Nat
      BY <1>0, ApprovalsAssumption DEF TypeOK, Rounds, Levels
    <2>5. \A r \in Rounds, l \in Levels :
            step'[r][l] = IF r = round + 1 THEN "pending"
                          ELSE IF step[r][l] = "pending" /\ <<r, l>> \in req[w].rows
                          THEN "absent" ELSE step[r][l]
      BY <2>1
    <2>6. \A r \in Rounds, l \in Levels : r <= round =>
             /\ step'[r][l] = "pending" => step[r][l] = "pending"
             /\ step'[r][l] # "absent" => step[r][l] # "absent"
             /\ step[r][l] \in Decided => step'[r][l] \in Decided
      <3> SUFFICES ASSUME NEW r \in Rounds, NEW l \in Levels, r <= round
                   PROVE  /\ step'[r][l] = "pending" => step[r][l] = "pending"
                          /\ step'[r][l] # "absent" => step[r][l] # "absent"
                          /\ step[r][l] \in Decided => step'[r][l] \in Decided
        OBVIOUS
      <3>1. r # round + 1
        BY <2>4
      <3>2. step'[r][l] = step[r][l] \/ (step[r][l] = "pending" /\ step'[r][l] = "absent")
        BY <2>5, <3>1
      <3> QED BY <3>2 DEF Decided
    <2>7. RowsNested'
      <3> SUFFICES ASSUME NEW r \in Rounds, NEW l \in Levels, NEW k \in Levels, k < l
                   PROVE  /\ step'[r][l] # "absent" => step'[r][k] # "absent"
                          /\ step'[r][l] \in Closed => step'[r][k] \in Closed
                          /\ step'[r][l] \in Decided => step'[r][k] \in Decided
        BY DEF RowsNested
      <3>1. CASE r = round + 1
        BY <3>1, <2>5 DEF Closed, Decided
      <3>2. CASE r # round + 1
        <4>1. /\ step[r][l] # "absent" => step[r][k] # "absent"
              /\ step[r][l] \in Closed => step[r][k] \in Closed
              /\ step[r][l] \in Decided => step[r][k] \in Decided
          BY DEF OrderInv, RowsNested
        <4>2. <<r, k>> \in req[w].rows /\ step[r][l] = "pending" => <<r, l>> \in req[w].rows
          BY <1>0 DEF OrderInv, SoundRequest
        <4>3. step[r][l] \in {"absent", "pending"} \cup Closed
          BY <1>0 DEF TypeOK, Closed
        <4> QED BY <3>2, <4>1, <4>2, <4>3, <2>5 DEF Closed, Decided
      <3> QED BY <3>1, <3>2
    <2>8. RoundsInOrder'
      BY <2>1, <2>4, <2>5 DEF OrderInv, RoundsInOrder
    <2>9. DecidedByEntitled'
      BY <2>1, <2>5 DEF OrderInv, DecidedByEntitled, IsDecided, Decided
    <2>10. round <= round'
      BY <2>1, <2>4
    <2> HIDE DEF q
    <2>11. q.op \notin {"approve", "reject"}
      BY <2>3
    <2> QED BY <2>1, <2>2, <2>3, <2>6, <2>7, <2>8, <2>9, <2>10, <2>11, RowStep
  <1> QED BY <1>1, <1>2

\* A decision closes its row, after the rows below it.
LEMMA OrderDecide ==
  ASSUME OrderInv, TypeOK', NEW w \in Workers, DecideApprove(w) \/ DecideReject(w)
  PROVE  OrderInv'
  <1> DEFINE R == req[w].rnd
             L == req[w].lvl
  <1>1. /\ TypeOK /\ Idle \in Requests /\ req[w] \in Requests
        /\ R \in Rounds /\ L \in Levels
    BY IdleIsRequest DEF OrderInv, TypeOK, Requests
  <1>2. round \in Nat /\ Rounds \subseteq Nat /\ Levels \subseteq Nat
    BY <1>1, ApprovalsAssumption DEF TypeOK, Rounds, Levels
  <1>3. /\ DecisionStands(w)
        /\ step[R][L] # "absent"
        /\ actor' = [actor EXCEPT ![R][L] = req[w].user]
        /\ Serve(w, Idle) /\ round' = round
    BY DEF DecideApprove, DecideReject, Skipped, DecisionStands, Finish
  <1>4. /\ R <= round
        /\ \A k \in Levels : k < L => step[R][k] \in Decided
        /\ req[w].user \in Reviewers \cap Eligible[L]
        /\ RequireSoD => req[w].user # Creator
    BY <1>3 DEF OrderInv, SoundRequest, DecideApprove, DecideReject, Skipped
  <1>5. /\ step'[R][L] \in Decided
        /\ \A r \in Rounds, l \in Levels : <<r, l>> # <<R, L>> =>
              \/ step'[r][l] = step[r][l]
              \/ step[r][l] = "pending" /\ step'[r][l] = "skipped"
        /\ \/ \A r \in Rounds, l \in Levels : <<r, l>> # <<R, L>> => step'[r][l] = step[r][l]
           \/ \A r \in Rounds, l \in Levels : step'[r][l] # "pending"
    <2>1. CASE DecideApprove(w)
      <3>1. step' = [step EXCEPT ![R][L] = "approved"]
        BY <2>1 DEF DecideApprove
      <3>2. \A r \in Rounds, l \in Levels :
               step'[r][l] = IF r = R /\ l = L THEN "approved" ELSE step[r][l]
        BY <3>1, <1>1 DEF TypeOK
      <3> QED BY <3>2, <1>1 DEF Decided
    <2>2. CASE DecideReject(w)
      <3>1. \A r \in Rounds, l \in Levels :
               step'[r][l] = IF r = R /\ l = L THEN "rejected"
                             ELSE IF step[r][l] = "pending" THEN "skipped" ELSE step[r][l]
        BY <2>2 DEF DecideReject, Skipped
      <3> QED BY <3>1, <1>1 DEF Decided
    <2> QED BY <2>1, <2>2
  <1>6. \A r \in Rounds, l \in Levels : r <= round =>
           /\ step'[r][l] = "pending" => step[r][l] = "pending"
           /\ step'[r][l] # "absent" => step[r][l] # "absent"
           /\ step[r][l] \in Decided => step'[r][l] \in Decided
    BY <1>3, <1>5 DEF Decided
  <1>7. RowsNested'
    <2> SUFFICES ASSUME NEW r \in Rounds, NEW l \in Levels, NEW k \in Levels, k < l
                 PROVE  /\ step'[r][l] # "absent" => step'[r][k] # "absent"
                        /\ step'[r][l] \in Closed => step'[r][k] \in Closed
                        /\ step'[r][l] \in Decided => step'[r][k] \in Decided
      BY DEF RowsNested
    <2>1. /\ step[r][l] # "absent" => step[r][k] # "absent"
          /\ step[r][l] \in Closed => step[r][k] \in Closed
          /\ step[r][l] \in Decided => step[r][k] \in Decided
      BY DEF OrderInv, RowsNested
    <2>2. step[r][k] \in {"absent", "pending"} \cup Closed
      BY <1>1 DEF TypeOK, Closed
    <2>3. CASE <<r, l>> = <<R, L>>
      <3>1. step[r][k] \in Decided
        BY <2>3, <1>4
      <3>2. k # L
        BY <2>3, <1>2
      <3> QED BY <3>1, <3>2, <1>5 DEF Closed, Decided
    <2>4. CASE <<r, k>> = <<R, L>>
      BY <2>4, <1>5 DEF Closed, Decided
    <2>5. CASE <<r, l>> # <<R, L>> /\ <<r, k>> # <<R, L>>
      BY <2>1, <2>2, <2>5, <1>5 DEF Closed, Decided
    <2> QED BY <2>3, <2>4, <2>5
  <1>8. RoundsInOrder'
    BY <1>2, <1>3, <1>4, <1>5 DEF OrderInv, RoundsInOrder
  <1>9. DecidedByEntitled'
    <2> SUFFICES ASSUME NEW r \in Rounds, NEW l \in Levels, step'[r][l] \in Decided
                 PROVE  /\ actor'[r][l] \in Reviewers \cap Eligible[l]
                        /\ RequireSoD => actor'[r][l] # Creator
      BY DEF DecidedByEntitled, IsDecided
    <2>1. actor'[r][l] = IF r = R /\ l = L THEN req[w].user ELSE actor[r][l]
      BY <1>1, <1>3 DEF TypeOK
    <2>2. CASE r = R /\ l = L
      BY <2>1, <2>2, <1>4
    <2>3. CASE ~(r = R /\ l = L)
      <3>1. step[r][l] \in Decided
        BY <2>3, <1>5 DEF Decided
      <3> QED BY <3>1, <2>1, <2>3 DEF OrderInv, DecidedByEntitled, IsDecided
    <2> QED BY <2>2, <2>3
  <1>10. Idle.op \notin {"approve", "reject"} /\ Idle.rows = {}
    BY DEF Idle
  <1>11. round <= round'
    BY <1>2, <1>3
  <1> QED BY <1>1, <1>3, <1>6, <1>7, <1>8, <1>9, <1>10, <1>11, RowStep

\* Each step of a request in progress keeps the invariant.
LEMMA OrderProceed ==
  ASSUME OrderInv, NEW w \in Workers, Proceed(w)
  PROVE  OrderInv'
  <1>0. TypeOK /\ Idle \in Requests /\ req[w] \in Requests
    BY IdleIsRequest DEF OrderInv, TypeOK
  <1>1. TypeOK'
    BY <1>0, TypeProceed
  <1>2. CASE SubmitCommit(w)
    BY <1>1, <1>2, OrderSubmitCommit
  <1>3. CASE DecideApprove(w) \/ DecideReject(w)
    BY <1>1, <1>3, OrderDecide
  <1>4. ASSUME Serve(w, Idle), step' = step, actor' = actor, round' = round
        PROVE  OrderInv'
    <2>1. ASSUME NEW v \in Workers PROVE SoundRequest(req[v])'
      <3>1. SoundRequest(req'[v])
        BY <1>0, <1>4, IdleSound DEF Serve, OrderInv, TypeOK
      <3> QED BY <3>1, <1>4 DEF SoundRequest
    <2>2. RowsNested' /\ RoundsInOrder' /\ DecidedByEntitled'
      BY <1>4 DEF OrderInv, RowsNested, RoundsInOrder, DecidedByEntitled, IsDecided
    <2> QED BY <1>1, <2>1, <2>2 DEF OrderInv
  <1>5. CASE SubmitNotify(w) \/ DecideLost(w) \/ ChatCommit(w)
    BY <1>4, <1>5 DEF SubmitNotify, DecideLost, ChatCommit, Finish, Untouched
  <1>6. CASE DecideGate(w)
    <2>1. CASE LevelOpen(req[w].lvl)
      <3> DEFINE q == [req[w] EXCEPT !.pc = "gated"]
      <3>1. q \in Requests
        BY <1>0 DEF Requests
      <3>2. q.op = req[w].op /\ q.rnd = req[w].rnd /\ q.lvl = req[w].lvl /\ q.user = req[w].user
        BY <1>0 DEF Requests
      <3>3. req[w].op \in {"approve", "reject"}
        BY <1>6 DEF DecideGate, Deciding
      <3>4. req[w].rnd \in Rounds /\ req[w].lvl \in Levels
        BY <1>0 DEF Requests
      <3>5. ASSUME step[req[w].rnd][req[w].lvl] # "absent", NEW k \in Levels, k < req[w].lvl
            PROVE  step[req[w].rnd][k] \in Decided
        <4>1. step[req[w].rnd][k] # "absent"
          BY <3>4, <3>5 DEF OrderInv, RowsNested
        <4>2. step[req[w].rnd][k] \in {"absent", "approved"}
          BY <3>4, <3>5, <2>1 DEF LevelOpen
        <4> QED BY <4>1, <4>2 DEF Decided
      <3> HIDE DEF q
      <3>6. SoundRequest(q)
        <4>1. SoundRequest(req[w])
          BY DEF OrderInv
        <4> QED BY <4>1, <3>2, <3>3, <3>5 DEF SoundRequest
      <3>7. Serve(w, q) /\ Untouched
        BY <1>6, <2>1 DEF DecideGate, q
      <3> QED BY <3>1, <3>6, <3>7, QuietStep
    <2>2. CASE ~LevelOpen(req[w].lvl)
      BY <1>4, <1>6, <2>2 DEF DecideGate, Finish, Untouched
    <2> QED BY <2>1, <2>2
  <1>7. CASE DecideCount(w)
    <2> DEFINE q == [req[w] EXCEPT !.pc = "counted", !.left = (Rows("pending") # {}),
                                   !.tell = ActionableLevels]
    <2>1. q \in Requests
      <3>1. (Rows("pending") # {}) \in BOOLEAN OBVIOUS
      <3>2. ActionableLevels \in SUBSET Levels BY DEF ActionableLevels
      <3> QED BY <3>1, <3>2, <1>0 DEF Requests
    <2>2. /\ q.op = req[w].op /\ q.rnd = req[w].rnd /\ q.lvl = req[w].lvl
          /\ q.user = req[w].user /\ q.rows = req[w].rows
      BY <1>0 DEF Requests
    <2>3. req[w].pc = "gated" /\ SoundRequest(req[w])
      BY <1>7 DEF DecideCount, OrderInv
    <2>4. Serve(w, q) /\ Untouched
      BY <1>7 DEF DecideCount
    <2> HIDE DEF q
    <2>5. SoundRequest(q)
      BY <2>2, <2>3 DEF SoundRequest
    <2> QED BY <2>1, <2>4, <2>5, QuietStep
  <1>8. CASE DeleteCommit(w)
    <2>1. CASE Untouched
      BY <1>4, <1>8, <2>1 DEF DeleteCommit, Finish, Untouched
    <2>2. CASE ~Untouched
      <3>1. /\ step' = [r \in Rounds |-> [l \in Levels |-> "absent"]]
            /\ Serve(w, Idle) /\ round' = round
        BY <1>8, <2>2 DEF DeleteCommit, Finish
      <3>2. \A r \in Rounds, l \in Levels : step'[r][l] = "absent"
        BY <3>1
      <3>3. RowsNested' /\ RoundsInOrder' /\ DecidedByEntitled'
        BY <3>2 DEF RowsNested, RoundsInOrder, DecidedByEntitled, IsDecided, Closed, Decided
      <3>4. ASSUME NEW v \in Workers PROVE SoundRequest(req[v])'
        <4>1. SoundRequest(req'[v]) /\ req'[v] \in Requests
          BY <1>0, <3>1, IdleSound DEF Serve, OrderInv, TypeOK
        <4>2. req'[v].rnd \in Rounds /\ req'[v].lvl \in Levels
          BY <4>1 DEF Requests
        <4> QED BY <4>1, <4>2, <3>1, <3>2 DEF SoundRequest
      <3> QED BY <1>1, <3>3, <3>4 DEF OrderInv
    <2> QED BY <2>1, <2>2
  <1> QED BY <1>2, <1>3, <1>5, <1>6, <1>7, <1>8 DEF Proceed

\* Every step of the system keeps the invariant.
LEMMA OrderNext == OrderInv /\ [Next]_vars => OrderInv'
  <1> SUFFICES ASSUME OrderInv, [Next]_vars PROVE OrderInv' OBVIOUS
  <1>1. CASE Next
    BY <1>1, OrderReceive, OrderProceed DEF Next
  <1>2. CASE UNCHANGED vars
    BY <1>2 DEF vars, OrderInv, TypeOK, RowsNested, RoundsInOrder, SoundRequest,
                DecidedByEntitled, IsDecided
  <1> QED BY <1>1, <1>2

\* The strengthened invariant holds always: rows appear, close and are decided from
\* the lowest level up, and a decision past its gate relies on nothing stale.
THEOREM OrderCorrect == Spec => []OrderInv
  BY OrderInit, OrderNext, PTL DEF Spec

\* Levels are decided from the lowest up, however many processes serve requests.
THEOREM LevelsInOrderHolds == Spec => []LevelsInOrder
  <1>1. OrderInv => LevelsInOrder
    BY DEF OrderInv, RowsNested, LevelsInOrder, IsDecided
  <1> QED BY <1>1, OrderCorrect, PTL

\* Every decision is by someone entitled to it, never the creator under
\* segregation of duties, however many processes serve requests.
THEOREM DecidedByEntitledHolds == Spec => []DecidedByEntitled
  <1>1. OrderInv => DecidedByEntitled
    BY DEF OrderInv
  <1> QED BY <1>1, OrderCorrect, PTL

\* No decision is withdrawn except by deleting the version.
THEOREM DecisionsSurviveHolds == Spec => DecisionsSurvive
  <1> DEFINE A == \A r \in Rounds, l \in Levels :
                    IsDecided(r, l) => step'[r][l] \in Decided \/ status' = "deleted"
  <1>1. ASSUME OrderInv, NEW w \in Workers, Receive(w) PROVE A
    BY <1>1 DEF Receive, SubmitLoad, DecideLoad, MayDecide, ChatSubmit, ChatApprove, ChatReject,
                UpdateStatus, ChatLoad, DeleteLoad, Untouched, IsDecided
  <1>2. ASSUME OrderInv, NEW w \in Workers, Proceed(w) PROVE A
    <2> SUFFICES ASSUME NEW r \in Rounds, NEW l \in Levels, step[r][l] \in Decided
                 PROVE  step'[r][l] \in Decided \/ status' = "deleted"
      BY DEF IsDecided
    <2>0. TypeOK /\ round \in Nat /\ Rounds \subseteq Nat
      BY <1>2, ApprovalsAssumption DEF OrderInv, TypeOK, Rounds
    <2>1. CASE SubmitCommit(w)
      <3>1. CASE status = "deleted"
        BY <3>1, <2>1 DEF SubmitCommit, Superseded, Untouched
      <3>2. CASE status # "deleted"
        <4>1. r # round + 1
          BY <1>2, <2>0 DEF OrderInv, RoundsInOrder, Decided
        <4>2. step'[r][l] = IF step[r][l] = "pending" /\ <<r, l>> \in req[w].rows
                            THEN "absent" ELSE step[r][l]
          BY <3>2, <4>1, <2>1 DEF SubmitCommit, Superseded
        <4> QED BY <4>2 DEF Decided
      <3> QED BY <3>1, <3>2
    <2>2. CASE DecideApprove(w)
      BY <2>0, <2>2 DEF DecideApprove, TypeOK, Decided
    <2>3. CASE DecideReject(w)
      BY <2>0, <2>3 DEF DecideReject, Skipped, Decided
    <2>4. CASE DeleteCommit(w)
      BY <2>4 DEF DeleteCommit, Untouched
    <2>5. CASE SubmitNotify(w) \/ ChatCommit(w) \/ DecideGate(w) \/ DecideCount(w) \/ DecideLost(w)
      BY <2>5 DEF SubmitNotify, ChatCommit, DecideGate, DecideCount, DecideLost, Untouched
    <2> QED BY <1>2, <2>1, <2>2, <2>3, <2>4, <2>5 DEF Proceed
  <1>3. OrderInv /\ [Next]_vars => [A]_vars
    BY <1>1, <1>2 DEF Next
  <1> QED BY <1>3, OrderCorrect, PTL DEF Spec, DecisionsSurvive

-----------------------------------------------------------------------------
(***************************************************************************)
(* One process: what a request read is still true when it writes, so each  *)
(* submission reads as one and a decision is final.                        *)
(***************************************************************************)
OneWorker == \A v, w \in Workers : v = w

\* A submission's row of steps with the first l levels approved.
Reads(row, l) ==
    /\ \A k \in 1 .. l : row[k] = "approved"
    /\ \/ \A k \in (l + 1) .. NLevels : row[k] = "pending"
       \/ \A k \in (l + 1) .. NLevels : row[k] = "absent"
       \/ /\ l < NLevels
          /\ row[l + 1] = "rejected"
          /\ \A k \in (l + 2) .. NLevels : row[k] = "skipped"

Shaped(st) == \A r \in Rounds : \E l \in 0 .. NLevels : Reads(st[r], l)

OpenLast(st, n) == \A r \in Rounds, l \in Levels : st[r][l] = "pending" => r = n

\* What a request in progress read of the steps st.
Knows(q, st) ==
    /\ q.op = "submit" /\ q.pc = "loaded" =>
          \A r \in Rounds, l \in Levels : st[r][l] = "pending" => <<r, l>> \in q.rows
    /\ q.op \in {"approve", "reject"} => st[q.rnd][q.lvl] = "pending"
    /\ q.op \in {"approve", "reject"} /\ q.pc \in {"gated", "counted"} =>
          \A r \in Rounds, k \in Levels : k < q.lvl => st[r][k] \in {"absent", "approved"}

ReadInv == Shaped(step) /\ OpenLast(step, round) /\ \A w \in Workers : Knows(req[w], step)

\* An idle request knows nothing that could be out of date.
LEMMA IdleKnows == \A st : Knows(Idle, st)
  BY DEF Knows, Idle

\* The invariant is the property, and what the one request knows.
LEMMA ReadsAsOne == ReadInv => SubmissionsRead
  BY DEF ReadInv, Shaped, Reads, OpenLast, SubmissionsRead, SubmissionShape, OneOpenSubmission, Rows, Slots

\* Rows with the same levels read the same.
LEMMA ReadsKept ==
  ASSUME NEW row, NEW now, NEW l \in 0 .. NLevels, Reads(row, l), \A k \in Levels : now[k] = row[k]
  PROVE  Reads(now, l)
  BY ApprovalsAssumption DEF Reads, Levels

\* A submission reads with as many approvals when what was pending is superseded.
LEMMA ReadsSuperseded ==
  ASSUME NEW row, NEW now, NEW l \in 0 .. NLevels, Reads(row, l),
         \A k \in Levels : now[k] = IF row[k] = "pending" THEN "absent" ELSE row[k]
  PROVE  Reads(now, l)
  BY ApprovalsAssumption DEF Reads, Levels

\* A pending level with everything below it approved or gone is the next one of its
\* submission: all below are approved, all from it on are pending.
LEMMA NextLevel ==
  ASSUME NEW row, NEW n \in 0 .. NLevels, Reads(row, n),
         NEW l \in Levels, row[l] = "pending",
         \A k \in Levels : k < l => row[k] \in {"absent", "approved"}
  PROVE  /\ \A k \in 1 .. (l - 1) : row[k] = "approved"
         /\ \A k \in l .. NLevels : row[k] = "pending"
  <1> USE ApprovalsAssumption DEF Levels
  <1>1. n < l BY DEF Reads
  <1>2. \A k \in (n + 1) .. NLevels : row[k] = "pending"
    <2>1. ~(\A k \in (n + 1) .. NLevels : row[k] = "absent") BY <1>1
    <2>2. ~(row[n + 1] = "rejected" /\ \A k \in (n + 2) .. NLevels : row[k] = "skipped") BY <1>1
    <2> QED BY <2>1, <2>2 DEF Reads
  <1>3. n = l - 1 BY <1>1, <1>2
  <1> QED BY <1>2, <1>3 DEF Reads

\* With one process, only the one request's knowledge matters after a step.
LEMMA OneServed ==
  ASSUME OneWorker, TypeOK, NEW w \in Workers, NEW q, Serve(w, q), NEW st, Knows(q, st)
  PROVE  \A v \in Workers : Knows(req'[v], st)
  BY DEF OneWorker, TypeOK, Serve

\* A step that leaves the rows alone keeps the invariant.
LEMMA ReadQuiet ==
  ASSUME OneWorker, TypeOK, ReadInv, NEW w \in Workers, NEW q, Serve(w, q), Knows(q, step),
         step' = step, round' = round
  PROVE  ReadInv'
  <1>1. \A v \in Workers : Knows(req'[v], step) BY OneServed
  <1>2. Shaped(step') /\ OpenLast(step', round') /\ \A v \in Workers : Knows(req'[v], step')
    BY <1>1 DEF ReadInv
  <1> QED BY <1>2 DEF ReadInv, Knows, Shaped, OpenLast, Reads

\* A step that moves the rows and ends what the request knew of them.
LEMMA ReadMoved ==
  ASSUME OneWorker, TypeOK, NEW w \in Workers, NEW q, Serve(w, q), \A st : Knows(q, st),
         Shaped(step'), OpenLast(step', round')
  PROVE  ReadInv'
  <1>1. \A v \in Workers : Knows(req'[v], step') BY OneServed
  <1> QED BY <1>1 DEF ReadInv, Knows, Shaped, OpenLast, Reads

\* A request that arrives knows what it has just read.
LEMMA ReadReceive ==
  ASSUME OneWorker, OrderInv, ReadInv, NEW w \in Workers, Receive(w)
  PROVE  ReadInv'
  <1>0. TypeOK /\ Idle \in Requests BY IdleIsRequest DEF OrderInv
  <1>1. PICK u \in Users :
        \/ SubmitLoad(w, u)
        \/ \E r \in Rounds, l \in Levels, action \in {"approve", "reject"} :
               DecideLoad(w, u, r, l, action)
        \/ ChatSubmit(w, u)
        \/ \E aim \in Statuses : ChatApprove(w, u, aim)
        \/ ChatReject(w, u)
        \/ \E aim \in Statuses : UpdateStatus(w, u, aim)
        \/ DeleteLoad(w, u)
    BY DEF Receive
  <1>2. CASE SubmitLoad(w, u)
    <2> DEFINE q == [Idle EXCEPT !.op = "submit", !.pc = "loaded", !.user = u,
                                 !.seen = status, !.rows = Rows("pending")]
    <2>1. Serve(w, q) /\ step' = step /\ round' = round BY <1>2 DEF SubmitLoad, Untouched
    <2>2. q.op = "submit" /\ q.rows = Rows("pending") BY DEF Idle
    <2> HIDE DEF q
    <2>3. Knows(q, step) BY <2>2 DEF Knows, Rows, Slots
    <2> QED BY <1>0, <2>1, <2>3, ReadQuiet
  <1>3. ASSUME NEW r \in Rounds, NEW l \in Levels, NEW action \in {"approve", "reject"},
               DecideLoad(w, u, r, l, action)
        PROVE  ReadInv'
    <2> DEFINE q == [Idle EXCEPT !.op = action, !.pc = "loaded", !.user = u,
                                 !.rnd = r, !.lvl = l, !.seen = status]
    <2>1. Serve(w, q) /\ step' = step /\ round' = round /\ step[r][l] = "pending"
      BY <1>3 DEF DecideLoad, MayDecide, Untouched
    <2>2. q.op = action /\ q.pc = "loaded" /\ q.rnd = r /\ q.lvl = l BY DEF Idle
    <2> HIDE DEF q
    <2>3. Knows(q, step) BY <2>1, <2>2 DEF Knows
    <2> QED BY <1>0, <2>1, <2>3, ReadQuiet
  <1>4. ASSUME NEW aim, ChatLoad(w, u, aim) PROVE ReadInv'
    <2> DEFINE q == [Idle EXCEPT !.op = "set", !.pc = "loaded", !.user = u,
                                 !.seen = status, !.aim = aim]
    <2>1. Serve(w, q) /\ step' = step /\ round' = round BY <1>4 DEF ChatLoad, Untouched
    <2>2. q.op = "set" BY DEF Idle
    <2> HIDE DEF q
    <2>3. Knows(q, step) BY <2>2 DEF Knows
    <2> QED BY <1>0, <2>1, <2>3, ReadQuiet
  <1>5. CASE DeleteLoad(w, u)
    <2> DEFINE q == [Idle EXCEPT !.op = "delete", !.pc = "loaded", !.rows = PresentRows]
    <2>1. Serve(w, q) /\ step' = step /\ round' = round BY <1>5 DEF DeleteLoad, Untouched
    <2>2. q.op = "delete" BY DEF Idle
    <2> HIDE DEF q
    <2>3. Knows(q, step) BY <2>2 DEF Knows
    <2> QED BY <1>0, <2>1, <2>3, ReadQuiet
  <1> QED BY <1>1, <1>2, <1>3, <1>4, <1>5 DEF ChatSubmit, ChatApprove, ChatReject, UpdateStatus

\* A submission opens its own row and closes the one it supersedes.
LEMMA ReadSubmit ==
  ASSUME OneWorker, OrderInv, ReadInv, NEW w \in Workers, SubmitCommit(w)
  PROVE  ReadInv'
  <1> USE ApprovalsAssumption DEF Levels, Rounds
  <1>0. TypeOK /\ round \in Nat BY DEF OrderInv, TypeOK
  <1>1. CASE status = "deleted"
    BY <1>0, <1>1, IdleKnows, ReadQuiet DEF SubmitCommit, Finish, Untouched
  <1>2. CASE status # "deleted"
    <2> DEFINE q == [Idle EXCEPT !.op = "submit", !.pc = "submitted"]
    <2>1. Serve(w, q) /\ round' = round + 1 BY <1>2 DEF SubmitCommit
    <2>2. \A st : Knows(q, st) BY DEF Knows, Idle
    <2>3. \A r \in Rounds, l \in Levels :
             step'[r][l] = IF r = round + 1 THEN "pending"
                           ELSE IF step[r][l] = "pending" THEN "absent" ELSE step[r][l]
      <3>1. \A r \in Rounds, l \in Levels : step[r][l] = "pending" => <<r, l>> \in req[w].rows
        BY DEF SubmitCommit, ReadInv, Knows
      <3>2. step' = [r \in Rounds |-> [l \in Levels |->
                       IF r = round + 1 THEN "pending"
                       ELSE IF Superseded(r, l, req[w].rows) THEN "absent" ELSE step[r][l]]]
        BY <1>2 DEF SubmitCommit
      <3>3. ASSUME NEW r \in Rounds, NEW l \in Levels
            PROVE  Superseded(r, l, req[w].rows) <=> step[r][l] = "pending"
        BY <3>1 DEF Superseded
      <3> QED BY ONLY <3>2, <3>3
    <2>4. OpenLast(step', round') BY <2>1, <2>3 DEF OpenLast
    <2>5. ASSUME NEW r \in Rounds PROVE \E l \in 0 .. NLevels : Reads(step'[r], l)
      <3>1. CASE r = round + 1
        <4>1. Reads(step'[r], 0) BY <2>3, <3>1 DEF Reads
        <4> QED BY <4>1
      <3>2. CASE r # round + 1
        <4>1. PICK l \in 0 .. NLevels : Reads(step[r], l) BY DEF ReadInv, Shaped
        <4>2. \A k \in Levels : step'[r][k] = IF step[r][k] = "pending" THEN "absent" ELSE step[r][k]
          BY <2>3, <3>2
        <4>3. Reads(step'[r], l) BY ONLY <4>1, <4>2, ReadsSuperseded
        <4> QED BY <4>3
      <3> QED BY <3>1, <3>2
    <2>6. Shaped(step') BY <2>5 DEF Shaped
    <2> HIDE DEF q
    <2> QED BY <1>0, <2>1, <2>2, <2>4, <2>6, ReadMoved
  <1> QED BY <1>1, <1>2

\* A decision closes the next level of the open submission; a rejection, the rest too.
LEMMA ReadDecide ==
  ASSUME OneWorker, OrderInv, ReadInv, NEW w \in Workers, DecideApprove(w) \/ DecideReject(w)
  PROVE  ReadInv'
  <1> USE ApprovalsAssumption DEF Levels
  <1> DEFINE d == req[w].rnd
             m == req[w].lvl
  <1>0. TypeOK /\ d \in Rounds /\ m \in Levels BY DEF OrderInv, TypeOK, Requests
  <1>1. /\ step[d][m] = "pending"
        /\ \A r \in Rounds, k \in Levels : k < m => step[r][k] \in {"absent", "approved"}
    BY DEF DecideApprove, DecideReject, ReadInv, Knows
  <1>2. Serve(w, Idle) /\ round' = round
    BY DEF DecideApprove, DecideReject, DecisionStands, Finish
  <1>3. PICK n \in 0 .. NLevels : Reads(step[d], n) BY <1>0 DEF ReadInv, Shaped
  <1> HIDE DEF d, m
  <1>4. /\ \A k \in 1 .. (m - 1) : step[d][k] = "approved"
        /\ \A k \in m .. NLevels : step[d][k] = "pending"
    BY <1>0, <1>1, <1>3, NextLevel
  <1>5. ASSUME NEW r \in Rounds, r # d, NEW l \in Levels PROVE step[r][l] # "pending"
    BY <1>0, <1>1, <1>5 DEF ReadInv, OpenLast
  <1>6. CASE DecideApprove(w)
    <2>1. \A r \in Rounds, l \in Levels :
             step'[r][l] = IF r = d /\ l = m THEN "approved" ELSE step[r][l]
      BY <1>0, <1>6 DEF DecideApprove, TypeOK, d, m
    <2>2. OpenLast(step', round') BY <1>2, <2>1 DEF ReadInv, OpenLast
    <2>3. ASSUME NEW r \in Rounds PROVE \E l \in 0 .. NLevels : Reads(step'[r], l)
      <3>1. CASE r = d
        <4>1. Reads(step'[r], m) BY <1>0, <1>4, <2>1, <3>1 DEF Reads
        <4> QED BY <1>0, <4>1
      <3>2. CASE r # d
        <4>1. PICK l \in 0 .. NLevels : Reads(step[r], l) BY DEF ReadInv, Shaped
        <4>2. \A k \in Levels : step'[r][k] = step[r][k] BY <2>1, <3>2
        <4>3. Reads(step'[r], l) BY ONLY <4>1, <4>2, ReadsKept
        <4> QED BY <4>3
      <3> QED BY <3>1, <3>2
    <2>4. Shaped(step') BY <2>3 DEF Shaped
    <2> QED BY <1>0, <1>2, <2>2, <2>4, IdleKnows, ReadMoved
  <1>7. CASE DecideReject(w)
    <2>1. \A r \in Rounds, l \in Levels :
             step'[r][l] = IF r = d /\ l = m THEN "rejected"
                           ELSE IF step[r][l] = "pending" THEN "skipped" ELSE step[r][l]
      BY <1>7 DEF DecideReject, Skipped, d, m
    <2>2. OpenLast(step', round') BY <2>1 DEF OpenLast
    <2>3. ASSUME NEW r \in Rounds PROVE \E l \in 0 .. NLevels : Reads(step'[r], l)
      <3>1. CASE r = d
        <4>1. Reads(step'[r], m - 1) BY <1>0, <1>4, <2>1, <3>1 DEF Reads
        <4> QED BY <1>0, <4>1
      <3>2. CASE r # d
        <4>1. PICK l \in 0 .. NLevels : Reads(step[r], l) BY DEF ReadInv, Shaped
        <4>2. \A k \in Levels : step'[r][k] = step[r][k] BY <1>5, <2>1, <3>2
        <4>3. Reads(step'[r], l) BY ONLY <4>1, <4>2, ReadsKept
        <4> QED BY <4>3
      <3> QED BY <3>1, <3>2
    <2>4. Shaped(step') BY <2>3 DEF Shaped
    <2> QED BY <1>0, <1>2, <2>2, <2>4, IdleKnows, ReadMoved
  <1> QED BY <1>6, <1>7

\* Every step of the one process keeps the invariant.
LEMMA ReadProceed ==
  ASSUME OneWorker, OrderInv, ReadInv, NEW w \in Workers, Proceed(w)
  PROVE  ReadInv'
  <1>0. TypeOK /\ req[w] \in Requests /\ Knows(req[w], step) BY DEF OrderInv, TypeOK, ReadInv
  <1>1. CASE SubmitNotify(w) \/ DecideLost(w) \/ ChatCommit(w)
    BY <1>0, <1>1, IdleKnows, ReadQuiet DEF SubmitNotify, DecideLost, ChatCommit, Finish, Untouched
  <1>2. CASE DecideGate(w)
    <2>1. CASE LevelOpen(req[w].lvl)
      <3> DEFINE q == [req[w] EXCEPT !.pc = "gated"]
      <3>1. Serve(w, q) /\ step' = step /\ round' = round /\ req[w].op \in {"approve", "reject"}
        BY <1>2, <2>1 DEF DecideGate, Deciding, Untouched
      <3>2. q.op = req[w].op /\ q.rnd = req[w].rnd /\ q.lvl = req[w].lvl BY <1>0 DEF Requests
      <3> HIDE DEF q
      <3>3. Knows(q, step) BY <1>0, <2>1, <3>1, <3>2 DEF Knows, LevelOpen
      <3> QED BY <1>0, <3>1, <3>3, ReadQuiet
    <2>2. CASE ~LevelOpen(req[w].lvl)
      BY <1>0, <1>2, <2>2, IdleKnows, ReadQuiet DEF DecideGate, Finish, Untouched
    <2> QED BY <2>1, <2>2
  <1>3. CASE DecideCount(w)
    <2> DEFINE q == [req[w] EXCEPT !.pc = "counted", !.left = (Rows("pending") # {}),
                                   !.tell = ActionableLevels]
    <2>1. Serve(w, q) /\ step' = step /\ round' = round /\ req[w].op = "approve" /\ req[w].pc = "gated"
      BY <1>3 DEF DecideCount, Untouched
    <2>2. q.op = req[w].op /\ q.rnd = req[w].rnd /\ q.lvl = req[w].lvl BY <1>0 DEF Requests
    <2> HIDE DEF q
    <2>3. Knows(q, step) BY <1>0, <2>1, <2>2 DEF Knows
    <2> QED BY <1>0, <2>1, <2>3, ReadQuiet
  <1>4. CASE DeleteCommit(w)
    <2>1. CASE Untouched
      BY <1>0, <1>4, <2>1, IdleKnows, ReadQuiet DEF DeleteCommit, Finish, Untouched
    <2>2. CASE ~Untouched
      <3>1. Serve(w, Idle) /\ \A r \in Rounds, l \in Levels : step'[r][l] = "absent"
        BY <1>4, <2>2 DEF DeleteCommit, Finish
      <3>2. OpenLast(step', round') BY <3>1 DEF OpenLast
      <3>3. \A r \in Rounds : Reads(step'[r], 0) BY <3>1, ApprovalsAssumption DEF Reads, Levels
      <3>4. Shaped(step') BY <3>3, ApprovalsAssumption DEF Shaped
      <3> QED BY <1>0, <3>1, <3>2, <3>4, IdleKnows, ReadMoved
    <2> QED BY <2>1, <2>2
  <1> QED BY <1>1, <1>2, <1>3, <1>4, ReadSubmit, ReadDecide DEF Proceed

\* With one process the invariant holds always.
THEOREM ReadCorrect == OneWorker => (Spec => []ReadInv)
  <1> SUFFICES ASSUME OneWorker PROVE Spec => []ReadInv OBVIOUS
  <1>1. Init => ReadInv
    <2> SUFFICES ASSUME Init PROVE ReadInv OBVIOUS
    <2>1. \A r \in Rounds, l \in Levels : step[r][l] = "absent" BY DEF Init
    <2>2. \A r \in Rounds : Reads(step[r], 0) BY <2>1, ApprovalsAssumption DEF Reads, Levels
    <2>3. \A w \in Workers : Knows(req[w], step) BY IdleKnows DEF Init
    <2> QED BY <2>1, <2>2, <2>3, ApprovalsAssumption DEF ReadInv, Shaped, OpenLast
  <1>2. OrderInv /\ ReadInv /\ [Next]_vars => ReadInv'
    <2>1. ReadInv /\ UNCHANGED vars => ReadInv'
      BY DEF vars, ReadInv, Shaped, OpenLast, Knows, Reads
    <2> QED BY <2>1, ReadReceive, ReadProceed DEF Next
  <1> QED BY <1>1, <1>2, OrderCorrect, PTL DEF Spec

\* With one process, every submission reads as one and only the last is open, for
\* any number of levels, users and submissions.
THEOREM SubmissionsReadAlways == OneWorker => (Spec => []SubmissionsRead)
  <1> SUFFICES ASSUME OneWorker PROVE Spec => []SubmissionsRead OBVIOUS
  <1> QED BY ReadsAsOne, ReadCorrect, PTL

\* With one process a decision, once committed, keeps its outcome and its actor.
THEOREM DecisionsFinalHolds == OneWorker => (Spec => DecisionsFinal)
  <1> SUFFICES ASSUME OneWorker PROVE Spec => DecisionsFinal OBVIOUS
  <1> DEFINE A == \A r \in Rounds, l \in Levels : IsDecided(r, l) /\ status' # "deleted" =>
                    step'[r][l] = step[r][l] /\ actor'[r][l] = actor[r][l]
  <1>1. ASSUME NEW w \in Workers, Receive(w) PROVE A
    BY ZenonT(60), <1>1 DEF Receive, SubmitLoad, DecideLoad, MayDecide, ChatSubmit, ChatApprove, ChatReject,
                UpdateStatus, ChatLoad, DeleteLoad, Untouched, IsDecided
  <1>2. ASSUME OrderInv, ReadInv, NEW w \in Workers, Proceed(w) PROVE A
    <2> SUFFICES ASSUME NEW r \in Rounds, NEW l \in Levels, step[r][l] \in Decided, status' # "deleted"
                 PROVE  step'[r][l] = step[r][l] /\ actor'[r][l] = actor[r][l]
      BY DEF IsDecided
    <2>0. TypeOK /\ round \in Nat /\ Rounds \subseteq Nat /\ Knows(req[w], step)
      BY <1>2, ApprovalsAssumption DEF OrderInv, TypeOK, Rounds, ReadInv
    <2>1. CASE SubmitCommit(w)
      <3>1. CASE status = "deleted"
        BY <3>1, <2>1 DEF SubmitCommit, Untouched
      <3>2. CASE status # "deleted"
        <4>1. r # round + 1
          BY <1>2, <2>0 DEF OrderInv, RoundsInOrder, Decided
        <4>2. step'[r][l] = IF step[r][l] = "pending" /\ <<r, l>> \in req[w].rows
                            THEN "absent" ELSE step[r][l]
          BY <3>2, <4>1, <2>1 DEF SubmitCommit, Superseded
        <4>3. actor' = actor BY <3>2, <2>1 DEF SubmitCommit
        <4> QED BY <4>2, <4>3 DEF Decided
      <3> QED BY <3>1, <3>2
    <2>2. CASE DecideApprove(w) \/ DecideReject(w)
      <3>1. step[req[w].rnd][req[w].lvl] = "pending"
        BY <2>0, <2>2 DEF DecideApprove, DecideReject, Knows
      <3>2. ~(r = req[w].rnd /\ l = req[w].lvl) BY <3>1 DEF Decided
      <3>3. actor'[r][l] = actor[r][l]
        BY <2>0, <2>2, <3>2 DEF DecideApprove, DecideReject, DecisionStands, TypeOK
      <3>4. step'[r][l] = step[r][l]
        BY <2>0, <2>2, <3>2 DEF DecideApprove, DecideReject, Skipped, TypeOK, Decided
      <3> QED BY <3>3, <3>4
    <2>3. CASE DeleteCommit(w)
      BY <2>3 DEF DeleteCommit, Untouched
    <2>4. CASE SubmitNotify(w) \/ ChatCommit(w) \/ DecideGate(w) \/ DecideCount(w) \/ DecideLost(w)
      BY <2>4 DEF SubmitNotify, ChatCommit, DecideGate, DecideCount, DecideLost, Untouched
    <2> QED BY <1>2, <2>1, <2>2, <2>3, <2>4 DEF Proceed
  <1>3. OrderInv /\ ReadInv /\ [Next]_vars => [A]_vars
    BY <1>1, <1>2 DEF Next
  <1> QED BY <1>3, OrderCorrect, ReadCorrect, PTL DEF Spec, DecisionsFinal

=============================================================================
