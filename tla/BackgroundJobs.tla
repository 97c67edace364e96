--------------------------- MODULE BackgroundJobs ---------------------------
(***************************************************************************)
(* Jobs handed to arq and the status record that GET /jobs/{id} answers    *)
(* from: the enqueuing request (services/job_queue.py for baselines,       *)
(* services/background_tasks.py for tasks), arq's queue (external), and    *)
(* the worker's run of the job (workers/arq_worker.py, execute_task).      *)
(*                                                                         *)
(* The record lives in Redis beside arq's own entry; the request writes it *)
(* after it has pushed the entry, and the worker rewrites it with a GET    *)
(* followed by a SETEX (update_job), so the three race.                    *)
(***************************************************************************)
EXTENDS Naturals, FiniteSets

CONSTANTS
    Tasks,        \* jobs of background_tasks.enqueue_task
    Baselines,    \* jobs of job_queue.enqueue_generate_baseline
    AsyncOnly,    \* settings.async_jobs_required: no inline fallback
    MaxTries,     \* arq's max_tries
    MaxFaults,    \* bound: worker crashes and shutdowns
    Timeouts,     \* may a run exceed the worker's job_timeout?
    Overtaking    \* may a run end before the request that queued it has
                  \* saved the record?

Jobs == Tasks \cup Baselines

ASSUME JobsAssumption ==
    /\ Tasks \cap Baselines = {}
    /\ MaxTries \in Nat \ {0} /\ MaxFaults \in Nat
    /\ {AsyncOnly, Timeouts, Overtaking} \subseteq BOOLEAN

VARIABLES
    enq,     \* enq[j]: the enqueuing request
    entry,   \* entry[j]: arq's entry of the job
    tries,   \* tries[j]: runs arq has begun
    run,     \* run[j]: where the worker's run is
    status,  \* status[j]: the record's status
    owned,   \* owned[j]: the record names its user
    known,   \* known[j]: the record read by update_job's GET named its user
    made,    \* made[j]: times the job's work was committed to the database
    lost,    \* lost[j]: runs interrupted after their commit
    faults   \* crashes and shutdowns so far

vars == <<enq, entry, tries, run, status, owned, known, made, lost, faults>>

Unsettled == {"none", "queued", "running", "sync_required"}
Settled   == {"completed", "failed"}

TypeOK ==
    /\ enq \in [Jobs -> {"idle", "pushed", "inline", "answered"}]
    /\ entry \in [Jobs -> {"none", "waiting", "taken", "done", "dropped"}]
    /\ tries \in [Jobs -> 0 .. MaxTries]
    /\ run \in [Jobs -> {"off", "start", "starting", "work", "committed", "finish",
                         "notify", "fail", "failing", "return"}]
    /\ status \in [Jobs -> Unsettled \cup Settled]
    /\ owned \in [Jobs -> BOOLEAN] /\ known \in [Jobs -> BOOLEAN]
    /\ made \in [Jobs -> Nat] /\ lost \in [Jobs -> Nat] /\ faults \in 0 .. MaxFaults

Init ==
    /\ enq = [j \in Jobs |-> "idle"]
    /\ entry = [j \in Jobs |-> "none"]
    /\ tries = [j \in Jobs |-> 0]
    /\ run = [j \in Jobs |-> "off"]
    /\ status = [j \in Jobs |-> "none"]
    /\ owned = [j \in Jobs |-> FALSE] /\ known = [j \in Jobs |-> FALSE]
    /\ made = [j \in Jobs |-> 0] /\ lost = [j \in Jobs |-> 0]
    /\ faults = 0

-----------------------------------------------------------------------------
(* The enqueuing request *)

Save(j, st) ==
    /\ status' = [status EXCEPT ![j] = st]
    /\ owned' = [owned EXCEPT ![j] = TRUE]

Queued(j) == UNCHANGED <<tries, run, known, made, lost, faults>>

Push(j) ==
    /\ enq[j] = "idle"
    /\ enq' = [enq EXCEPT ![j] = "pushed"]
    /\ entry' = [entry EXCEPT ![j] = "waiting"]
    /\ UNCHANGED <<status, owned>> /\ Queued(j)

SaveQueued(j) ==
    /\ enq[j] = "pushed"
    /\ Save(j, "queued")
    /\ enq' = [enq EXCEPT ![j] = "answered"]
    /\ UNCHANGED entry /\ Queued(j)

\* The push, or anything after it (closing the pool, the save), raises.  A task's
\* request answers 500.  A baseline's writes sync_required, if it can, and runs
\* inline unless jobs must be asynchronous; its entry, if pushed, stays queued.
EnqueueFails(j) ==
    /\ enq[j] \in {"idle", "pushed"}
    /\ enq' = [enq EXCEPT ![j] =
                  IF j \in Baselines /\ ~AsyncOnly THEN "inline" ELSE "answered"]
    /\ \/ j \in Baselines /\ Save(j, "sync_required")
       \/ UNCHANGED <<status, owned>>
    /\ UNCHANGED entry /\ Queued(j)

\* The inline run commits, or raises before it does.
RunInline(j) ==
    /\ enq[j] = "inline"
    /\ enq' = [enq EXCEPT ![j] = "answered"]
    /\ \/ made' = [made EXCEPT ![j] = @ + 1]
       \/ UNCHANGED made
    /\ UNCHANGED <<entry, tries, run, status, owned, known, lost, faults>>

-----------------------------------------------------------------------------
(* The worker.  update_job is a GET, which learns whether the record names its *)
(* user, and a SETEX, which writes that back with the new status.              *)

At(j, here, next) == run[j] = here /\ run' = [run EXCEPT ![j] = next]
Get(j)            == known' = [known EXCEPT ![j] = owned[j]]
Put(j, st)        == status' = [status EXCEPT ![j] = st] /\ owned' = [owned EXCEPT ![j] = known[j]]

\* Mutant: one run too many.
TriesLeftInclusive(j) == tries[j] <= MaxTries

TriesLeft(j) == tries[j] < MaxTries

\* arq takes an entry whose last run was lost, or that was never run.
Take(j) ==
    /\ entry[j] = "waiting" /\ TriesLeft(j)
    /\ entry' = [entry EXCEPT ![j] = "taken"]
    /\ tries' = [tries EXCEPT ![j] = @ + 1]
    /\ At(j, "off", "start")
    /\ UNCHANGED <<enq, status, owned, known, made, lost, faults>>

\* After max_tries runs it drops the entry without calling the function.
GiveUp(j) ==
    /\ entry[j] = "waiting" /\ ~TriesLeft(j)
    /\ entry' = [entry EXCEPT ![j] = "dropped"]
    /\ UNCHANGED <<enq, tries, run, status, owned, known, made, lost, faults>>

ReadToStart(j) ==
    /\ At(j, "start", "starting") /\ Get(j)
    /\ UNCHANGED <<enq, entry, tries, status, owned, made, lost, faults>>

SetRunning(j) ==
    /\ At(j, "starting", "work") /\ Put(j, "running")
    /\ UNCHANGED <<enq, entry, tries, known, made, lost, faults>>

\* The handler commits its work.
Commit(j) ==
    /\ At(j, "work", "committed")
    /\ made' = [made EXCEPT ![j] = @ + 1]
    /\ UNCHANGED <<enq, entry, tries, status, owned, known, lost, faults>>

ReadToFinish(j) ==
    /\ At(j, "committed", "finish") /\ Get(j)
    /\ UNCHANGED <<enq, entry, tries, status, owned, made, lost, faults>>

\* Mutant: the record is completed as soon as the run begins.
FinishesEarly(j) == run[j] \in {"starting", "finish"}

Finishes(j) == run[j] = "finish"

SetCompleted(j) ==
    /\ Finishes(j)
    /\ Overtaking \/ enq[j] # "pushed"
    /\ run' = [run EXCEPT ![j] = "notify"] /\ Put(j, "completed")
    /\ UNCHANGED <<enq, entry, tries, known, made, lost, faults>>

\* The notification is written and the run is over.
Notify(j) ==
    /\ At(j, "notify", "return")
    /\ UNCHANGED <<enq, entry, tries, status, owned, known, made, lost, faults>>

\* The handler raises, before or after its commit, or writing the notification does.
Raise(j) ==
    /\ \/ At(j, "work", "fail") \/ At(j, "committed", "fail") \/ At(j, "notify", "fail")
    /\ UNCHANGED <<enq, entry, tries, status, owned, known, made, lost, faults>>

ReadToFail(j) ==
    /\ At(j, "fail", "failing") /\ Get(j)
    /\ UNCHANGED <<enq, entry, tries, status, owned, made, lost, faults>>

SetFailed(j) ==
    /\ At(j, "failing", "return")
    /\ Overtaking \/ enq[j] # "pushed"
    /\ Put(j, "failed")
    /\ UNCHANGED <<enq, entry, tries, known, made, lost, faults>>

\* Mutant: a run that raised is tried again.
AfterRunRetried(j) == IF status[j] = "failed" THEN "waiting" ELSE "done"

AfterRun(j) == "done"

\* arq removes the entry of a run that returned or raised.
Retire(j) ==
    /\ At(j, "return", "off")
    /\ entry' = [entry EXCEPT ![j] = AfterRun(j)]
    /\ UNCHANGED <<enq, tries, status, owned, known, made, lost, faults>>

Working(j)   == run[j] # "off"
Wasted(j)    == run[j] \in {"committed", "finish", "notify", "fail", "failing", "return"}
Interrupt(j) ==
    /\ run' = [run EXCEPT ![j] = "off"]
    /\ lost' = [lost EXCEPT ![j] = IF Wasted(j) THEN @ + 1 ELSE @]

\* Mutant: a lost run leaves nothing to run again.
RetriedNever(j) == entry' = [entry EXCEPT ![j] = "done"]

\* arq runs again what was cancelled by a shutdown or lost in a crash.
Retried(j) == entry' = [entry EXCEPT ![j] = "waiting"]

\* The worker dies.  Its in-progress mark expires and the entry is taken again.
Crash(j) ==
    /\ Working(j) /\ faults < MaxFaults
    /\ Interrupt(j) /\ Retried(j)
    /\ faults' = faults + 1
    /\ UNCHANGED <<enq, tries, status, owned, known, made>>

\* A timeout cancels a task where its handler awaits; CancelledError is not an
\* Exception, so nobody writes the record, and arq does not run the job again.
\* A baseline never awaits, so the timeout finds it finished.
TimeOut(j) ==
    /\ Timeouts /\ j \in Tasks
    /\ run[j] \in {"work", "committed"}
    /\ Interrupt(j)
    /\ entry' = [entry EXCEPT ![j] = "dropped"]
    /\ UNCHANGED <<enq, tries, status, owned, known, made, faults>>

-----------------------------------------------------------------------------
Request(j) == Push(j) \/ EnqueueFails(j)
Enqueue(j) == SaveQueued(j) \/ RunInline(j)

Work(j) ==
    \/ Take(j) \/ GiveUp(j) \/ ReadToStart(j) \/ SetRunning(j) \/ Commit(j)
    \/ ReadToFinish(j) \/ SetCompleted(j) \/ Notify(j) \/ Raise(j)
    \/ ReadToFail(j) \/ SetFailed(j) \/ Retire(j)

Next == \E j \in Jobs : Request(j) \/ Enqueue(j) \/ Work(j) \/ Crash(j) \/ TimeOut(j)

\* A request runs to its end once begun, and the worker serves its queue.
Fairness == \A j \in Jobs : WF_vars(Enqueue(j)) /\ WF_vars(Work(j))

Spec == Init /\ [][Next]_vars /\ Fairness

-----------------------------------------------------------------------------
\* GET /jobs/{id} answers completed only for work that is in the database.
CompletedIsReal == \A j \in Jobs : status[j] = "completed" => made[j] >= 1

\* A job's work is done once more only for a run that was interrupted after its
\* commit, and, for a baseline that fell back, for the inline run beside the queue's.
WorkAccounted ==
    \A j \in Jobs :
        made[j] <= lost[j] + (IF j \in Baselines /\ ~AsyncOnly THEN 2 ELSE 1)

\* The answer a poll settled on changes later only if its run was interrupted, or
\* failed to write its notification, or the request's save came late.
VerdictStands ==
    [][\A j \in Jobs : status[j] \in Settled /\ status'[j] # status[j] =>
          lost[j] > 0 \/ run[j] = "failing" \/ enq[j] = "pushed"]_vars

\* A poll of a job whose record was saved while it waited settles, whatever
\* crashes and failures its runs met, unless arq dropped the job: cancelled at the
\* worker's job_timeout, or lost in each of max_tries runs.
Settles ==
    \A j \in Jobs : entry[j] = "waiting" /\ enq[j] # "pushed" ~>
                      [](status[j] \in Settled \/ entry[j] = "dropped")

-----------------------------------------------------------------------------
(* What the client relies on and the code does not do. *)

\* client.ts awaitJob: polling GET /jobs/{id} until it settles.
PollSettles == \A j \in Jobs : enq[j] = "answered" /\ status[j] = "queued" ~> status[j] \in Settled
=============================================================================
