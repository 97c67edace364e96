----------------------------- MODULE ReviewUndo -----------------------------
(***************************************************************************)
(* Line reviews of the review dashboard, and their undo.                   *)
(*                                                                         *)
(* Reviewing a line writes verdict, reviewer and time into its rows and    *)
(* leaves a snapshot of what they held, whose token reverses the action    *)
(* once.  A request loads its rows, and commits the columns it changed;    *)
(* requests in two server processes interleave between the two.            *)
(*                                                                         *)
(* The rows of a line stand for one: every write covers all its periods.   *)
(* Comments go with the verdict.  A token that has expired is refused and  *)
(* changes nothing, as if nobody had used it.                              *)
(***************************************************************************)
EXTENDS Integers, Sequences, FiniteSets

CONSTANTS
    Reviewers,       \* users who may review
    NoReviewer,
    ReviewLines,     \* lines of the version
    Servers,         \* server processes
    Batches,         \* bound: item lists of the batch requests
    Advices,         \* bound: recommendations the analysis arrives at
    MaxReviews,      \* bound: reviewing requests
    MaxUndos         \* bound: undo requests

ASSUME ReviewAssumption ==
    /\ NoReviewer \notin Reviewers /\ IsFiniteSet(ReviewLines) /\ Batches \subseteq Seq(ReviewLines)
    /\ Advices \subseteq [ReviewLines -> {"approve", "review"}]
    /\ MaxReviews \in Nat /\ MaxUndos \in Nat

VARIABLES
    review,    \* review[l]: review_status, reviewed_by and reviewed_at of the line
    advice,    \* advice[l]: ai_recommendation
    snapshot,  \* the undo snapshots, by token
    trail,     \* audit rows of the reviews and undos, with the time their rows were loaded
    request,   \* request[p]: what process p is serving
    tick       \* loads and commits so far

reviewVars == <<review, advice, snapshot, trail, request, tick>>

Unreviewed == [status |-> "none", by |-> NoReviewer, at |-> 0]
Idle       == [kind |-> "idle"]
Ticks      == 0 .. 2 * (MaxReviews + MaxUndos)
Reviews    == [status : {"none", "approve", "reject", "approved"},
               by : Reviewers \cup {NoReviewer}, at : Ticks]

Requests(kind) == Cardinality({p \in Servers : request[p].kind = kind})
                    + Cardinality({i \in DOMAIN trail : trail[i].kind = kind})

ReviewTypeOK ==
    /\ review \in [ReviewLines -> Reviews]
    /\ advice \in [ReviewLines -> {"none", "approve", "review"}]
    /\ \A t \in DOMAIN snapshot :
          /\ snapshot[t].by \in Reviewers /\ snapshot[t].consumed \in BOOLEAN
          /\ DOMAIN snapshot[t].prior \subseteq ReviewLines
          /\ \A l \in DOMAIN snapshot[t].prior : snapshot[t].prior[l] \in Reviews
    /\ \A p \in Servers : request[p].kind \in {"idle", "review", "undo"}
    /\ tick \in Ticks

ReviewInit ==
    /\ review = [l \in ReviewLines |-> Unreviewed]
    /\ advice = [l \in ReviewLines |-> "none"]
    /\ snapshot = <<>> /\ trail = <<>> /\ tick = 0
    /\ request = [p \in Servers |-> Idle]

\* The unit of work updates the columns whose value differs from the loaded one.
Updated(stored, loaded, new) ==
    [f \in DOMAIN new |-> IF new[f] # loaded[f] THEN new[f] ELSE stored[f]]

Items(items) == {items[i] : i \in DOMAIN items}

\* get_review_dashboard stores a recommendation with every line.
Analyze(recommended) ==
    /\ advice' = recommended
    /\ UNCHANGED <<review, snapshot, trail, request, tick>>

\* review_item, batch_review: any line, reviewed or not.
ReviewLoad(p, u, items, verdict) ==
    /\ request[p] = Idle /\ Requests("review") < MaxReviews
    /\ request' = [request EXCEPT ![p] =
            [kind |-> "review", by |-> u, items |-> items, verdict |-> verdict,
             loaded |-> review, from |-> tick + 1]]
    /\ tick' = tick + 1
    /\ UNCHANGED <<review, advice, snapshot, trail>>

\* accept_ai_recommendations: the lines it suggests to approve and nobody has
\* reviewed; with none, nothing is written.
AcceptLoad(p, u) ==
    LET accepted == {l \in ReviewLines : advice[l] = "approve" /\ review[l].status = "none"}
    IN  /\ accepted # {}
        /\ \E items \in [1 .. Cardinality(accepted) -> accepted] :
              Items(items) = accepted /\ ReviewLoad(p, u, items, "approved")

Verdict(r, at) == [status |-> r.verdict, by |-> r.by, at |-> at]

\* A line named twice in a batch is snapshot again after it has been changed,
\* and the later entry of the snapshot counts.
Repeated(items, l) == Cardinality({i \in DOMAIN items : items[i] = l}) > 1

\* Mutant: the rows are snapshot after they have been changed.
PriorAfter(r, at) == [l \in Items(r.items) |-> Verdict(r, at)]

Prior(r, at) ==
    [l \in Items(r.items) |-> IF Repeated(r.items, l) THEN Verdict(r, at) ELSE r.loaded[l]]

ReviewCommit(p) ==
    LET r == request[p]
        at == tick + 1
    IN  /\ r.kind = "review"
        /\ review' = [l \in ReviewLines |->
                        IF l \in Items(r.items) THEN Updated(review[l], r.loaded[l], Verdict(r, at))
                        ELSE review[l]]
        /\ snapshot' = Append(snapshot, [by |-> r.by, prior |-> Prior(r, at), consumed |-> FALSE])
        /\ trail' = Append(trail, [kind |-> "review", token |-> Len(snapshot) + 1, items |-> r.items,
                                   wrote |-> Verdict(r, at), from |-> r.from, at |-> at])
        /\ request' = [request EXCEPT ![p] = Idle]
        /\ tick' = at
        /\ UNCHANGED advice

Restored(prior, loaded) == prior

\* undo_review: one's own token, not consumed.
UndoLoad(p, u, t) ==
    /\ request[p] = Idle /\ Requests("undo") < MaxUndos
    /\ t \in DOMAIN snapshot /\ snapshot[t].by = u /\ ~snapshot[t].consumed
    /\ request' = [request EXCEPT ![p] =
            [kind |-> "undo", token |-> t, loaded |-> review, from |-> tick + 1]]
    /\ tick' = tick + 1
    /\ UNCHANGED <<review, advice, snapshot, trail>>

UndoCommit(p) ==
    LET r     == request[p]
        prior == snapshot[r.token].prior
    IN  /\ r.kind = "undo"
        /\ review' = [l \in ReviewLines |->
                        IF l \in DOMAIN prior
                        THEN Updated(review[l], r.loaded[l], Restored(prior[l], r.loaded[l]))
                        ELSE review[l]]
        /\ snapshot' = [snapshot EXCEPT ![r.token].consumed = TRUE]
        /\ trail' = Append(trail, [kind |-> "undo", token |-> r.token, from |-> r.from, at |-> tick + 1])
        /\ request' = [request EXCEPT ![p] = Idle]
        /\ tick' = tick + 1
        /\ UNCHANGED advice

ReviewNext ==
    \/ \E recommended \in Advices : Analyze(recommended)
    \/ \E p \in Servers, u \in Reviewers, items \in Batches, verdict \in {"approve", "reject"} :
            ReviewLoad(p, u, items, verdict)
    \/ \E p \in Servers, u \in Reviewers : AcceptLoad(p, u)
    \/ \E p \in Servers : ReviewCommit(p)
    \/ \E p \in Servers, u \in Reviewers, t \in 1 .. MaxReviews : UndoLoad(p, u, t)
    \/ \E p \in Servers : UndoCommit(p)

ReviewSpec == ReviewInit /\ [][ReviewNext]_reviewVars

-----------------------------------------------------------------------------
(* Properties *)

\* The audit rows about line l, and the reviews among them nobody has undone.
About(l)  == {i \in DOMAIN trail : l \in DOMAIN snapshot[trail[i].token].prior}
Undoes(i, j) == trail[i].kind = "undo" /\ trail[j].kind = "review" /\ trail[i].token = trail[j].token
Kept(l)  == {j \in About(l) : trail[j].kind = "review" /\ ~ \E i \in About(l) : Undoes(i, j)}

\* No two requests on l overlapped, no batch named it twice, and a review was
\* undone only after the reviews of l that followed it.
Stacked(l) ==
    /\ \A i, j \in About(l) : i < j => trail[i].at < trail[j].from
    /\ \A j \in About(l) : trail[j].kind = "review" => ~Repeated(trail[j].items, l)
    /\ \A i, j, k \in About(l) :
          Undoes(i, j) /\ trail[k].kind = "review" /\ j < k /\ k < i =>
              \E m \in About(l) : m < i /\ Undoes(m, k)

\* Undo is exact and one-shot: as long as the actions on a line are undone in
\* the reverse order, one at a time, the line shows the latest review that
\* stands, verdict, author and time, or none; and no token works twice.
UndoIsExact ==
    \A l \in ReviewLines : Stacked(l) =>
        /\ \A i, j, k \in About(l) : Undoes(i, k) /\ Undoes(j, k) => i = j
        /\ review[l] = IF Kept(l) = {} THEN Unreviewed
                       ELSE trail[CHOOSE j \in Kept(l) : \A k \in Kept(l) : k <= j].wrote
=============================================================================
