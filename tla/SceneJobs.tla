------------------------------ MODULE SceneJobs ------------------------------
(***************************************************************************)
(* Scene and workflow jobs: the job table in PostgreSQL (agent/jobs.ts)    *)
(* and the workers that run them (agent/scene-worker.ts), with the         *)
(* approvals their gated steps ask for (module Approvals).                 *)
(*                                                                         *)
(* A worker claims a queued job, beats its heart while it runs it, saves   *)
(* how many steps are done after each one and writes the outcome.  A job   *)
(* whose heart stopped is queued again, or cancelled if that was asked     *)
(* for.  The recovery runs when a worker starts and beside the heartbeats  *)
(* of a worker that has jobs: a worker without jobs recovers nothing.      *)
(*                                                                         *)
(* A run is one execution of a claimed job.  One SQL statement is one      *)
(* step.  A tick of the monitor (recover, beat, look for cancellations) is *)
(* one step too: between its statements only statements that commute with  *)
(* them can fall.                                                          *)
(***************************************************************************)
EXTENDS Approvals

CONSTANTS
  Jobs,         \* jobs by age: a set of numbers
  Runs,         \* bound: how many runs there may be at a time
  Steps,        \* steps of a job
  Gated,        \* the steps that ask for an approval
  Concurrency,  \* jobs a worker runs at a time
  MaxRestarts,  \* bound: how often processes end
  Pauses,       \* a process may be paused for longer than STALE_JOB_MS
  LateRestart   \* a process starts again later than STALE_JOB_MS

SceneAssumption ==
  /\ Jobs \subseteq Nat
  /\ Steps \in Nat \ {0} /\ Gated \subseteq 1..Steps
  /\ Concurrency \in Nat \ {0} /\ MaxRestarts \in Nat
  /\ Pauses \in BOOLEAN /\ LateRestart \in BOOLEAN
  /\ Keys = Jobs \X Gated /\ Waiters = Runs
  /\ NoOne \notin Process \union Runs
ASSUME SceneAssumption

VARIABLES
  job,        \* [j] the row: status, claimed_by, heartbeat_at, checkpoint
  cancelling, \* [j] the status a cancellation in flight has read, or "none"
  run,        \* [r] the run, or NoRun
  mode,       \* [p] "up", "stopping" or "down"
  active,     \* [p] the runs in activeJobs, at most one of a job
  restarts,   \* how often a process has ended
  unbeaten,   \* history: jobs whose worker stopped beating while a run went on
  raced       \* history: jobs cancelled over a status nobody had read

scene == <<job, cancelling, run, mode, active, restarts, unbeaten, raced>>
vars == <<approvals, scene>>

Ended == {"completed", "failed", "cancelled"}
Status == Ended \union {"new", "queued", "running", "cancelling", "gone"}

Job == [status : Status, owner : Process \union {NoOne},
        beat : {"none", "fresh", "stale"}, done : 0..Steps, blocked : BOOLEAN]
Run == [of : Jobs, at : Process,
        pc : {"loop", "turn", "asking"},
        outputs : 0..Steps, blocked : BOOLEAN, aborted : BOOLEAN, timedOut : BOOLEAN]
Deciding == [of : Jobs, at : Process, pc : {"write"}, verdict : Ended]
NoRun == [of |-> NoOne, at |-> NoOne, pc |-> "none"]

TypeOK ==
  /\ ApprovalsTypeOK
  /\ job \in [Jobs -> Job]
  /\ cancelling \in [Jobs -> {"none", "queued", "running"}]
  /\ run \in [Runs -> Run \union Deciding \union {NoRun}]
  /\ mode \in [Process -> {"up", "stopping", "down"}]
  /\ active \in [Process -> SUBSET Runs]
  /\ \A p \in Process : \A r \in active[p] : run[r].at = p
  /\ restarts \in 0..MaxRestarts
  /\ unbeaten \in [Jobs -> BOOLEAN]
  /\ raced \in [Jobs -> BOOLEAN]

Init ==
  /\ ApprovalsInit
  /\ job = [j \in Jobs |-> [status |-> "new", owner |-> NoOne, beat |-> "none",
                            done |-> 0, blocked |-> FALSE]]
  /\ cancelling = [j \in Jobs |-> "none"]
  /\ run = [r \in Runs |-> NoRun]
  /\ mode = [p \in Process |-> "down"]
  /\ active = [p \in Process |-> {}]
  /\ restarts = 0
  /\ unbeaten = [j \in Jobs |-> FALSE]
  /\ raced = [j \in Jobs |-> FALSE]

Live(r) == run[r] # NoRun
RunsOf(j) == {r \in Runs : Live(r) /\ run[r].of = j}

\* An UPDATE of a row by its id alone; without a row it changes nothing.
SetStatus(j, s) ==
  job' = [job EXCEPT ![j].status = IF @ = "gone" THEN @ ELSE s]

------------------------------------------------------------------------------
(* The table: createJob, cancelJob, deleteJob, recoverStaleJobs *)

Create(j) ==
  /\ job[j].status = "new"
  /\ job' = [job EXCEPT ![j].status = "queued"]
  /\ UNCHANGED <<approvals, cancelling, run, mode, active, restarts, unbeaten, raced>>

\* cancelJob reads the row ...
ReadToCancel(j) ==
  /\ cancelling[j] = "none"
  /\ job[j].status \in {"queued", "running"}
  /\ cancelling' = [cancelling EXCEPT ![j] = job[j].status]
  /\ UNCHANGED <<approvals, job, run, mode, active, restarts, unbeaten, raced>>

\* ... and writes what follows from the status it read, whatever it is now.
WriteCancel(j) ==
  /\ cancelling[j] # "none"
  /\ SetStatus(j, IF cancelling[j] = "queued" THEN "cancelled" ELSE "cancelling")
  /\ raced' = [raced EXCEPT ![j] = @ \/ job[j].status # cancelling[j]]
  /\ cancelling' = [cancelling EXCEPT ![j] = "none"]
  /\ UNCHANGED <<approvals, run, mode, active, restarts, unbeaten>>

Delete(j) ==
  /\ job[j].status \in Ended
  /\ job' = [job EXCEPT ![j].status = "gone"]
  /\ UNCHANGED <<approvals, cancelling, run, mode, active, restarts, unbeaten, raced>>

\* Mutant: an old heartbeat is enough, whatever the status.
StaleByBeat(j) == job[j].beat = "stale"

Held(j) == job[j].status \in {"running", "cancelling"}

\* The rows recoverStaleJobs picks.
Stale(j) == job[j].beat = "stale" /\ Held(j)

\* Mutant: only what was running is looked at.
RecoveredRunning ==
  [j \in Jobs |->
     IF Stale(j) /\ job[j].status = "running"
     THEN [job[j] EXCEPT !.owner = NoOne, !.beat = "none", !.status = "queued"]
     ELSE job[j]]

\* The rows after it: what ran is queued again, what was being cancelled is.
Recovered ==
  [j \in Jobs |->
     IF Stale(j)
     THEN [job[j] EXCEPT !.owner = NoOne, !.beat = "none",
             !.status = IF @ = "cancelling" THEN "cancelled" ELSE "queued"]
     ELSE job[j]]

------------------------------------------------------------------------------
(* The worker: startSceneJobWorker, pumpQueue, monitorActiveJobs, stop *)

\* Starting recovers once, before the first poll.
Start(p) ==
  /\ mode[p] = "down"
  /\ LateRestart => \A j \in Jobs : RunsOf(j) = {} => job[j].beat # "fresh" \/ ~Held(j)
  /\ mode' = [mode EXCEPT ![p] = "up"]
  /\ job' = Recovered
  /\ UNCHANGED <<approvals, cancelling, run, active, restarts, unbeaten, raced>>

Oldest(j) ==
  /\ job[j].status = "queued"
  /\ \A i \in Jobs : job[i].status = "queued" => j <= i

\* Mutant: the last step that was saved is run again.
RestoredOneLess(j) == IF job[j].done = 0 THEN 0 ELSE job[j].done - 1

\* The steps a run skips: those whose outputs are in the claimed payload.
Restored(j) == job[j].done

NewRun(p, j) == [of |-> j, at |-> p, pc |-> "loop", outputs |-> Restored(j),
                 blocked |-> job[j].blocked, aborted |-> FALSE, timedOut |-> FALSE]

\* Mutant: the run is not entered in activeJobs.
ClaimUntracked(p, r, j) ==
  /\ mode[p] = "up" /\ ~Live(r) /\ Oldest(j)
  /\ Cardinality(active[p]) < Concurrency
  /\ job' = [job EXCEPT ![j].status = "running", ![j].owner = p, ![j].beat = "fresh"]
  /\ run' = [run EXCEPT ![r] = NewRun(p, j)]
  /\ UNCHANGED <<approvals, active, cancelling, mode, restarts, unbeaten, raced>>

\* pumpQueue claims the oldest queued job and enters its run in activeJobs,
\* over an earlier run of the same job that is still there.
Claim(p, r, j) ==
  /\ mode[p] = "up" /\ ~Live(r) /\ Oldest(j)
  /\ Cardinality(active[p]) < Concurrency
  /\ job' = [job EXCEPT ![j].status = "running", ![j].owner = p, ![j].beat = "fresh"]
  /\ run' = [run EXCEPT ![r] = NewRun(p, j)]
  /\ active' = [active EXCEPT ![p] = {q \in @ : run[q].of # j} \union {r}]
  /\ UNCHANGED <<approvals, cancelling, mode, restarts, unbeaten, raced>>

\* Aborting the runs in S: each that waits for an approval is told no, and what
\* has been decided is not changed.
Aborted(S) ==
  [r \in Runs |->
     IF r \in S /\ run[r].pc # "write"
     THEN [run[r] EXCEPT !.aborted = TRUE, !.pc = IF @ = "asking" THEN "turn" ELSE @]
     ELSE run[r]]

\* One tick: recover what is stale, beat for the own running jobs, and abort
\* those that are being cancelled.
Monitor(p) ==
  /\ mode[p] = "up" /\ active[p] # {}
  /\ LET Beats(j) == /\ Recovered[j].status = "running" /\ Recovered[j].owner = p
                     /\ \E r \in active[p] : run[r].of = j
         cancelled == {r \in active[p] : Recovered[run[r].of].status = "cancelling"}
     IN  /\ job' = [j \in Jobs |->
              IF Beats(j) THEN [Recovered[j] EXCEPT !.beat = "fresh"] ELSE Recovered[j]]
         /\ run' = Aborted(cancelled)
         /\ Abandon(cancelled)
  /\ UNCHANGED <<cancelling, mode, active, restarts, unbeaten, raced>>

\* Shutdown: the runs in activeJobs are aborted and waited for, nothing is claimed.
Stop(p) ==
  /\ mode[p] = "up" /\ restarts < MaxRestarts
  /\ mode' = [mode EXCEPT ![p] = "stopping"]
  /\ run' = Aborted(active[p])
  /\ Abandon(active[p])
  /\ unbeaten' = [j \in Jobs |-> unbeaten[j] \/ \E r \in active[p] : run[r].of = j]
  /\ UNCHANGED <<job, cancelling, active, restarts, raced>>

\* The process is gone: so are its runs and what it knew of approvals.
Gone(p) ==
  /\ mode' = [mode EXCEPT ![p] = "down"]
  /\ run' = [r \in Runs |-> IF run[r].at = p THEN NoRun ELSE run[r]]
  /\ active' = [active EXCEPT ![p] = {}]
  /\ restarts' = restarts + 1
  /\ Forget(p)
  /\ UNCHANGED <<job, cancelling, unbeaten, raced>>

Exit(p) == mode[p] = "stopping" /\ active[p] = {} /\ restarts < MaxRestarts /\ Gone(p)

Crash(p) == mode[p] = "up" /\ restarts < MaxRestarts /\ Gone(p)

\* The heart of j is being beaten.
Beaten(j) ==
  /\ job[j].status = "running"
  /\ \E p \in Process : /\ job[j].owner = p /\ mode[p] = "up"
                        /\ \E r \in active[p] : run[r].of = j

\* STALE_JOB_MS pass without a heartbeat: nobody runs the job any more, its worker
\* shuts down, or it winds down a cancelled run, for which no heart is beaten.
Lapse(j) ==
  /\ job[j].beat = "fresh" /\ ~Beaten(j)
  /\ job' = [job EXCEPT ![j].beat = "stale"]
  /\ unbeaten' = [unbeaten EXCEPT
       ![j] = @ \/ (job[j].status = "cancelling" /\ RunsOf(j) # {})]
  /\ UNCHANGED <<approvals, cancelling, run, mode, active, restarts, raced>>

\* The worker itself stands still for that long (bound: once for each job).
Pause(j) ==
  /\ Pauses /\ job[j].beat = "fresh" /\ Beaten(j) /\ ~unbeaten[j]
  /\ job' = [job EXCEPT ![j].beat = "stale"]
  /\ unbeaten' = [unbeaten EXCEPT ![j] = TRUE]
  /\ UNCHANGED <<approvals, cancelling, run, mode, active, restarts, raced>>

------------------------------------------------------------------------------
(* A run: processJob, runWorkflowJob, buildApprovalCallback *)

Moved(r, to) == run' = [run EXCEPT ![r].pc = to]
RunOnly == UNCHANGED <<job, cancelling, mode, active, restarts, unbeaten, raced>>

\* The loop over the steps is left: after the last step, behind a step that was
\* blocked, or because the run was aborted.
Leaves(r) == run[r].aborted \/ run[r].blocked \/ run[r].outputs = Steps

NextStep(r) ==
  /\ run[r].pc = "loop" /\ ~Leaves(r)
  /\ Moved(r, "turn")
  /\ RunOnly /\ UNCHANGED approvals

\* The key of the step's gated call.
KeyOf(r) == <<run[r].of, run[r].outputs + 1>>

\* The step asks.  A grant on disk is used; otherwise a human is asked, and if the
\* run has been aborted already nobody waits for the answer.
Ask(r) ==
  /\ run[r].pc = "turn" /\ run[r].outputs + 1 \in Gated
  /\ LET p == run[r].at
     IN  \/ Cached(p, KeyOf(r)) /\ Consume(p, KeyOf(r)) /\ UNCHANGED run
        \/ /\ ~Cached(p, KeyOf(r))
           /\ Prompt(p, KeyOf(r), IF run[r].aborted THEN NoOne ELSE r)
           /\ Moved(r, IF run[r].aborted THEN "turn" ELSE "asking")
  /\ RunOnly

\* The wait of whoever waits for the approval a is over.
Told(a) == IF a.waiter = NoOne THEN UNCHANGED run ELSE Moved(a.waiter, "turn")

Answer(p, a) == (Grant(p, a) \/ Deny(p, a)) /\ Told(a) /\ RunOnly

TimeOut(p, a) == Deny(p, a) /\ Told(a) /\ RunOnly

\* The turn of the step returns, also when it was aborted, perhaps blocked by a
\* guardrail, and saveWorkflowCheckpoint writes the outputs of this run over
\* those in the row.  Nobody sees a turn that has returned and is not saved yet.
Save(r) ==
  /\ run[r].pc = "turn"
  /\ \E b \in BOOLEAN :
       /\ run' = [run EXCEPT ![r].outputs = @ + 1, ![r].blocked = b,
                            ![r].pc = "loop"]
       /\ job' = [job EXCEPT ![run[r].of].done = run[r].outputs + 1,
                            ![run[r].of].blocked = b]
  /\ UNCHANGED <<approvals, cancelling, mode, active, restarts, unbeaten, raced>>

\* The timer of the run, which is cleared when it ends.
TurnTimeout(r) ==
  /\ run[r].pc \notin {"none", "write"} /\ ~run[r].timedOut
  /\ run' = [Aborted({r}) EXCEPT ![r].timedOut = TRUE]
  /\ Abandon({r})
  /\ RunOnly

\* What the run will write, from the status it reads and its own signal.
AfterReturn(r, status) ==
  IF status = "cancelling" \/ (run[r].aborted /\ ~run[r].timedOut) THEN "cancelled"
  ELSE IF run[r].blocked THEN "failed" ELSE "completed"

AfterThrow(r, status) ==
  IF ~run[r].timedOut /\ (status = "cancelling" \/ run[r].aborted) THEN "cancelled"
  ELSE "failed"

Decide(r, verdict) ==
  /\ run' = [run EXCEPT ![r] = [of |-> @.of, at |-> @.at, pc |-> "write", verdict |-> verdict]]
  /\ RunOnly /\ UNCHANGED approvals

\* The run reads the status of its job when its steps are over ...
Finish(r) == /\ run[r].pc = "loop" /\ Leaves(r)
             /\ Decide(r, AfterReturn(r, job[run[r].of].status))

\* ... or a turn has thrown.
Throw(r) == run[r].pc = "turn" /\ Decide(r, AfterThrow(r, job[run[r].of].status))

\* What leaves activeJobs when r ends: the entry of its job, whichever run that
\* names.  A worker that stops waits for the runs themselves.
Entry(r) ==
  IF mode[run[r].at] = "stopping" THEN {r} ELSE {q \in Runs : run[q].of = run[r].of}

\* completeJob, failJob and markCancelled look at the id only.
Write(r) ==
  /\ run[r].pc = "write"
  /\ SetStatus(run[r].of, run[r].verdict)
  /\ run' = [run EXCEPT ![r] = NoRun]
  /\ active' = [active EXCEPT ![run[r].at] = @ \ Entry(r)]
  /\ Abandon({r})
  /\ UNCHANGED <<cancelling, mode, restarts, unbeaten, raced>>

------------------------------------------------------------------------------
RunStep(r) == NextStep(r) \/ Save(r) \/ Finish(r) \/ Throw(r) \/ Write(r)

Next ==
  \/ \E j \in Jobs : \/ Create(j) \/ ReadToCancel(j) \/ WriteCancel(j) \/ Delete(j)
                     \/ Lapse(j) \/ Pause(j)
  \/ \E p \in Process : \/ Start(p) \/ Monitor(p) \/ Stop(p) \/ Exit(p) \/ Crash(p)
                        \/ \E r \in Runs, j \in Jobs : Claim(p, r, j)
                        \/ \E a \in pending[p] : Answer(p, a) \/ TimeOut(p, a)
  \/ \E r \in Runs : RunStep(r) \/ Ask(r) \/ TurnTimeout(r)
  \/ \E k \in Keys : Expire(k) /\ UNCHANGED scene

Spec == Init /\ [][Next]_vars

\* Awaits end because turns have deadlines, timers fire while the process lives,
\* time passes, and a process that ended is started again.  Nothing forces an
\* answer of a human, a cancellation or the end of a process.
Fairness ==
  /\ \A r \in Runs : WF_vars(RunStep(r)) /\ WF_vars(TurnTimeout(r))
  /\ \A j \in Jobs : WF_vars(WriteCancel(j)) /\ WF_vars(Lapse(j))
  /\ \A p \in Process : /\ WF_vars(Start(p)) /\ WF_vars(Exit(p)) /\ WF_vars(Monitor(p))
                        /\ WF_vars(\E r \in Runs, j \in Jobs : Claim(p, r, j))

FairSpec == Spec /\ Fairness

------------------------------------------------------------------------------
(* Properties *)

\* A job has one run at a time, through crashes, recoveries and cancellations,
\* unless its worker stopped beating under a run: it stood still for two minutes,
\* was shutting down, or wound down a cancelled run.
OneRun == \A j \in Jobs : Cardinality(RunsOf(j)) <= 1 \/ unbeaten[j]

\* Why that is so: a live run is the only one of its job, its worker watches over
\* it, and while the row says running it is the worker's and beaten for.
Attended(r) ==
  LET j == run[r].of
      p == run[r].at
  IN  /\ RunsOf(j) = {r}
      /\ mode[p] = "up" /\ r \in active[p]
      /\ job[j].status \notin {"new", "queued"}
      /\ job[j].status = "running" => job[j].owner = p /\ job[j].beat = "fresh"
      /\ run[r].pc # "write" => run[r].outputs = job[j].done

SceneInv ==
  TypeOK /\ \A r \in Runs : Live(r) => Attended(r) \/ unbeaten[run[r].of]

\* A run never repeats a step whose outputs were saved, and no saved output is
\* lost, however often the job is interrupted and resumed.
SavedStaysDone ==
  [][\A j \in Jobs : unbeaten'[j] \/
       /\ job'[j].done >= job[j].done
       /\ \A r \in RunsOf(j) : run[r].pc = "turn" => run[r].outputs = job[j].done]_vars

\* A grant on disk answers one repeated call and is used up: after any number of
\* restarts later calls ask again.  Files that could not be deleted are left out.
GrantReusedOnce == overspent = {}

\* What has ended stays as it ended: no recovery, late run or cancellation
\* changes the outcome a user has been told.  Left out is a cancellation whose
\* row changed between its read and its write.
OutcomeStands ==
  [][\A j \in Jobs : \/ unbeaten'[j] \/ raced'[j]
                     \/ job[j].status \in Ended
                          => job'[j].status \in {job[j].status, "gone"}]_vars

\* Every job that was created ends, whatever happens to its workers.
EveryJobEnds ==
  <>[](\A j \in Jobs : job[j].status \in Ended \union {"new", "gone"} \/ raced[j])

=============================================================================
