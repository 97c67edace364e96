------------------------- MODULE BackgroundJobsProofs -------------------------
(***************************************************************************)
(* For any number of jobs, tries, crashes, timeouts and late saves: the    *)
(* record says completed only of work that is in the database, work is     *)
(* repeated only for the causes WorkAccounted names, and a verdict changes *)
(* only for those VerdictStands names.                                     *)
(***************************************************************************)
EXTENDS BackgroundJobs, TLAPS

Count(b)    == IF b THEN 1 ELSE 0
Over(j)     == entry[j] \in {"done", "dropped"}
FellBack(j) == enq[j] = "answered" /\ j \in Baselines /\ ~AsyncOnly

\* The entry is held exactly while a run is under way, and nothing has happened to
\* a job whose request has not pushed it.
Held(j) ==
    /\ entry[j] = "taken" <=> run[j] # "off"
    /\ enq[j] = "idle" => entry[j] = "none" /\ status[j] = "none"
    /\ enq[j] = "inline" => j \in Baselines /\ ~AsyncOnly

\* Work is in the database before the record or the run's later steps say so.
Real(j) ==
    /\ run[j] \in {"committed", "finish", "notify"} => made[j] >= 1
    /\ status[j] = "completed" => made[j] >= 1

\* Each commit is charged to an interrupted run, to the current run, to the run
\* that ended, or to the inline fallback.
Charged(j) == made[j] <= lost[j] + Count(Wasted(j)) + Count(Over(j)) + Count(FellBack(j))

\* Before its run is over a job has a verdict only when an earlier run was lost.
Verdict(j) ==
    status[j] \in Settled =>
        lost[j] > 0 \/ run[j] \in {"notify", "fail", "failing", "return"} \/ Over(j)

JobInv == \A j \in Jobs : Held(j) /\ Real(j) /\ Charged(j) /\ Verdict(j)

IInv == TypeOK /\ JobInv

\* An unqueued, unsaved job satisfies the invariant.
LEMMA InitInv == Init => IInv
BY JobsAssumption DEF Init, IInv, TypeOK, JobInv, Held, Real, Charged, Verdict, Count, Over,
   FellBack, Wasted, Settled, Unsettled

\* The request's steps keep the invariant: a save changes the record only, and an
\* inline run is charged to the fallback.
LEMMA RequestInv ==
    ASSUME IInv, NEW k \in Jobs, Request(k) \/ Enqueue(k)
    PROVE  IInv'
<1> USE DEF IInv, TypeOK, JobInv, Queued
<1>1. CASE Push(k)
  <2>1. TypeOK' BY <1>1 DEF Push
  <2>2. ASSUME NEW j \in Jobs PROVE (Held(j) /\ Real(j) /\ Charged(j) /\ Verdict(j))'
    BY <1>1, <2>2 DEF Push, Held, Real, Charged, Verdict, Count, Over, FellBack, Wasted
  <2> QED BY <2>1, <2>2
<1>2. CASE SaveQueued(k)
  <2>1. TypeOK' BY <1>2 DEF SaveQueued, Save, Unsettled
  <2>2. ASSUME NEW j \in Jobs PROVE (Held(j) /\ Real(j) /\ Charged(j) /\ Verdict(j))'
    BY <1>2, <2>2 DEF SaveQueued, Save, Held, Real, Charged, Verdict, Count, Over, FellBack,
       Wasted, Settled
  <2> QED BY <2>1, <2>2
<1>3. CASE EnqueueFails(k)
  <2>1. TypeOK' BY <1>3 DEF EnqueueFails, Save, Unsettled
  <2>2. ASSUME NEW j \in Jobs PROVE (Held(j) /\ Real(j) /\ Charged(j) /\ Verdict(j))'
    BY <1>3, <2>2 DEF EnqueueFails, Save, Held, Real, Charged, Verdict, Count, Over, FellBack,
       Wasted, Settled
  <2> QED BY <2>1, <2>2
<1>4. CASE RunInline(k)
  <2>1. TypeOK' BY <1>4 DEF RunInline
  <2>2. ASSUME NEW j \in Jobs PROVE (Held(j) /\ Real(j) /\ Charged(j) /\ Verdict(j))'
    BY <1>4, <2>2 DEF RunInline, Held, Real, Charged, Verdict, Count, Over, FellBack, Wasted
  <2> QED BY <2>1, <2>2
<1> QED BY <1>1, <1>2, <1>3, <1>4 DEF Request, Enqueue

\* The steps of arq and of a run keep the invariant.
LEMMA WorkInv ==
    ASSUME IInv, NEW k \in Jobs, Work(k)
    PROVE  IInv'
<1> USE DEF IInv, TypeOK, JobInv, At
<1> DEFINE Goal == \A j \in Jobs : (Held(j) /\ Real(j) /\ Charged(j) /\ Verdict(j))'
<1> USE DEF Held, Real, Charged, Verdict, Count, Over, FellBack, Wasted
<1>1. CASE Take(k)
  <2>1. TypeOK' BY <1>1, JobsAssumption DEF Take, TriesLeft
  <2>2. Goal BY <1>1 DEF Take
  <2> QED BY <2>1, <2>2
<1>2. CASE GiveUp(k)
  <2>1. TypeOK' BY <1>2 DEF GiveUp
  <2>2. Goal BY <1>2 DEF GiveUp
  <2> QED BY <2>1, <2>2
<1>3. CASE ReadToStart(k)
  <2>1. TypeOK' BY <1>3 DEF ReadToStart, Get
  <2>2. Goal BY <1>3 DEF ReadToStart, Get
  <2> QED BY <2>1, <2>2
<1>4. CASE SetRunning(k)
  <2>1. TypeOK' BY <1>4 DEF SetRunning, Put, Unsettled
  <2>2. Goal BY <1>4 DEF SetRunning, Put, Settled
  <2> QED BY <2>1, <2>2
<1>5. CASE Commit(k)
  <2>1. TypeOK' BY <1>5 DEF Commit
  <2>2. Goal BY <1>5 DEF Commit
  <2> QED BY <2>1, <2>2
<1>6. CASE ReadToFinish(k)
  <2>1. TypeOK' BY <1>6 DEF ReadToFinish, Get
  <2>2. Goal BY <1>6 DEF ReadToFinish, Get
  <2> QED BY <2>1, <2>2
<1>7. CASE SetCompleted(k)
  <2>1. TypeOK' BY <1>7 DEF SetCompleted, Finishes, Put, Settled
  <2>2. Goal BY <1>7 DEF SetCompleted, Finishes, Put, Settled
  <2> QED BY <2>1, <2>2
<1>8. CASE Notify(k)
  <2>1. TypeOK' BY <1>8 DEF Notify
  <2>2. Goal BY <1>8 DEF Notify
  <2> QED BY <2>1, <2>2
<1>9. CASE Raise(k)
  <2>1. TypeOK' BY <1>9 DEF Raise
  <2>2. Goal BY <1>9 DEF Raise
  <2> QED BY <2>1, <2>2
<1>10. CASE ReadToFail(k)
  <2>1. TypeOK' BY <1>10 DEF ReadToFail, Get
  <2>2. Goal BY <1>10 DEF ReadToFail, Get
  <2> QED BY <2>1, <2>2
<1>11. CASE SetFailed(k)
  <2>1. TypeOK' BY <1>11 DEF SetFailed, Put, Settled
  <2>2. Goal BY <1>11 DEF SetFailed, Put, Settled
  <2> QED BY <2>1, <2>2
<1>12. CASE Retire(k)
  <2>1. TypeOK' BY <1>12 DEF Retire, AfterRun
  <2>2. Goal BY <1>12 DEF Retire, AfterRun
  <2> QED BY <2>1, <2>2
<1> QED BY <1>1, <1>2, <1>3, <1>4, <1>5, <1>6, <1>7, <1>8, <1>9, <1>10, <1>11, <1>12 DEF Work

\* A crash or a timeout keeps the invariant: a run lost after its commit is counted.
LEMMA InterruptInv ==
    ASSUME IInv, NEW k \in Jobs, Crash(k) \/ TimeOut(k)
    PROVE  IInv'
<1> USE DEF IInv, TypeOK, JobInv, Interrupt, Wasted
<1>1. CASE Crash(k)
  <2>1. TypeOK' BY <1>1, JobsAssumption DEF Crash, Working, Retried
  <2>2. ASSUME NEW j \in Jobs PROVE (Held(j) /\ Real(j) /\ Charged(j) /\ Verdict(j))'
    BY <1>1, <2>2 DEF Crash, Working, Retried, Held, Real, Charged, Verdict, Count, Over, FellBack
  <2> QED BY <2>1, <2>2
<1>2. CASE TimeOut(k)
  <2>1. TypeOK' BY <1>2 DEF TimeOut
  <2>2. ASSUME NEW j \in Jobs PROVE (Held(j) /\ Real(j) /\ Charged(j) /\ Verdict(j))'
    BY <1>2, <2>2 DEF TimeOut, Held, Real, Charged, Verdict, Count, Over, FellBack
  <2> QED BY <2>1, <2>2
<1> QED BY <1>1, <1>2

\* The invariant is inductive.
LEMMA StepInv == IInv /\ [Next]_vars => IInv'
<1> SUFFICES ASSUME IInv, [Next]_vars PROVE IInv' OBVIOUS
<1>1. CASE UNCHANGED vars
  BY <1>1 DEF vars, IInv, TypeOK, JobInv, Held, Real, Charged, Verdict, Count, Over, FellBack, Wasted
<1>2. CASE Next
  BY <1>2, RequestInv, WorkInv, InterruptInv DEF Next
<1> QED BY <1>1, <1>2

\* Every reachable state satisfies the invariant.
THEOREM JobsCorrect == Spec => []IInv
BY InitInv, StepInv, PTL DEF Spec

\* Whatever requests, runs, crashes and timeouts do, every job's entry, run, record
\* and counts are well typed, and arq begins a job at most max_tries times.
THEOREM JobsTypeCorrect == Spec => []TypeOK
<1>1. IInv => TypeOK BY DEF IInv
<1> QED BY <1>1, JobsCorrect, PTL

-----------------------------------------------------------------------------
\* GET /jobs/{id} answers completed only for work that is in the database, however
\* requests, runs, crashes and timeouts interleave.
THEOREM CompletedIsRealAlways == Spec => []CompletedIsReal
<1>1. IInv => CompletedIsReal BY DEF IInv, JobInv, Real, CompletedIsReal
<1> QED BY <1>1, JobsCorrect, PTL

\* However often a worker crashes, a job's work is repeated only for the runs it
\* lost after their commit and, for a baseline, for its inline fallback.
THEOREM WorkAccountedAlways == Spec => []WorkAccounted
<1>1. IInv => WorkAccounted
  BY DEF IInv, TypeOK, JobInv, Held, Charged, Count, Over, FellBack, Wasted, WorkAccounted
<1> QED BY <1>1, JobsCorrect, PTL

\* A verdict that was answered changes only after a lost run, after a notification
\* that could not be written, or by the request's late save.
THEOREM VerdictStandsAlways == Spec => VerdictStands
<1> DEFINE Stands == \A j \in Jobs : status[j] \in Settled /\ status'[j] # status[j] =>
                        lost[j] > 0 \/ run[j] = "failing" \/ enq[j] = "pushed"
<1>1. IInv /\ [Next]_vars => [Stands]_vars
  <2> SUFFICES ASSUME IInv, Next, NEW j \in Jobs, status[j] \in Settled, status'[j] # status[j]
               PROVE  lost[j] > 0 \/ run[j] = "failing" \/ enq[j] = "pushed"
    OBVIOUS
  <2> PICK k \in Jobs : Request(k) \/ Enqueue(k) \/ Work(k) \/ Crash(k) \/ TimeOut(k)
    BY DEF Next
  <2> USE DEF IInv, TypeOK, JobInv
  <2>1. CASE Request(k) \/ Enqueue(k)
    BY <2>1 DEF Request, Enqueue, Push, EnqueueFails, SaveQueued, RunInline, Save, Queued, Held, Settled
  <2>2. CASE SetRunning(k) \/ SetCompleted(k) \/ SetFailed(k)
    BY <2>2 DEF SetRunning, SetCompleted, Finishes, SetFailed, At, Put, Held, Verdict, Over
  <2>3. CASE UNCHANGED status
    BY <2>3
  <2> QED
    BY <2>1, <2>2, <2>3 DEF Work, Take, GiveUp, ReadToStart, Commit, ReadToFinish, Notify, Raise,
       ReadToFail, Retire, Crash, TimeOut
<1> QED BY <1>1, JobsCorrect, PTL DEF Spec, VerdictStands
=============================================================================
