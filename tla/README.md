# StarlingAI: TLA+ models, checks and proofs

StarlingAI is a gateway for LLM agents: a user's turn is answered by an
orchestrator agent that delegates tasks to sub-agents, possibly of other
processes and machines, over Redis. This directory holds TLA+ modules of the
parts that coordinate those agents, TLC configurations that check them on small
instances, and theorems that TLAPS proves for every value of the constants.
Paths below are relative to `src/packages/core/src/` unless they say otherwise.

Contents: 1 the system, 2 the plan, 3 the modules, 4 the runs, 5 the proofs,
6 what the properties are conditional on, 7 findings and known divergences,
8 what is not modelled.

## 1. The system

### Parts and how they interact

    user -> channels / web -> gateway -> agent turn (agent/runtime.ts)
      turn -> tool call "delegate" -> tools/sub-agent.ts (the delegation)
        delegation: task lease      swarm/locks.ts           (one owner per task)
                    mission budget  swarm/mission-budget.ts  (one envelope per mission)
                    capacity permit swarm/capacity-broker.ts (one cap per provider)
                    sub-agent run   agent/sub-agent.ts
                      messages      swarm/memory.ts          (claim, run, acknowledge)
                      slots         swarm/concurrency.ts     (containers per type, in all)
                      model calls   providers/*, runtime/concurrency-gate.ts
                    result          lease checked, task recorded, messages
                                    acknowledged, result published, lease released
                    finally         budget reconciled, permit released
      tool call "run_task_graph" -> tools/sub-agent.ts, one delegation per node
        ledger, markers swarm/task-graph-ledger.ts, swarm/memory.ts
        restart scan    swarm/graph-restart.ts
      turn lifecycle   gateway/rpc.ts                    (supersede, watchdog, status)
        steering       agent/turn-steering.ts            (messages into a running turn)
        questions      agent/user-input-broker.ts        (a tool asks the person)
        session cancel swarm/control.ts, agent/warden.ts (forced stop, over processes)
    scene jobs       agent/jobs.ts, agent/scene-worker.ts (workers over PostgreSQL)
      approvals      approval/store.ts, approval/durable-store.ts

Everything runs on Node's event loop: a synchronous block is atomic, and
anything may happen between an `await` and its continuation. Several gateway
and worker processes share Redis (hashes, streams, Lua scripts), PostgreSQL and
a workspace directory. Nearly every Redis-backed part has a process-local
twin that is used when a call fails, and that is where most of the difficulty
lies: which of two states decides, and what the other one still says.

### The parts with logic of their own

| part | state | operations | hard behaviour | what makes it correct |
|---|---|---|---|---|
| task lease | key `owner:token`, fence counter, durable result; per-process copy; heartbeat | acquire, follow, renew, confirm, publish, release | renewals in flight across a takeover, expiry under a run, lost answers, crashes | the newest owner wins, finished work is dropped only for a real takeover, no lease comes back to life, everything ends |
| agent messages | stream and consumer group, seen-set, dead-letter stream, legacy list; in-process queue | send, claim (drain, reclaim, read), acknowledge | redelivery beside a run, partial drains, outages in mid-claim, crashes | nothing lost, nothing run twice at once, nothing both done and dead |
| concurrency gate | limit, in-flight count, FIFO queue | withSlot, setLimit | hand-off across an await, limits changed under a queue | no slot leaks, none idle beside a queue, FIFO |
| image renders | the gate, the mark of an abandoned render | render | a timed-out engine still works for the next call | a render's clock starts on a free engine |
| swarm slots | count, queue and cap per agent type and in all | acquire two slots, release | holding one while waiting for the other, reloads | ceilings hold, no slot leaks, nobody starves |
| mission budget | spent and reserved per ledger | reserve, reconcile | two processes reserve at once, ledger expiry, lost calls | one envelope, reservations held once |
| capacity broker | permits with expiry per table | acquire (poll), renew, release | renewals lost or late, crashes, fallback tables | tables within the capacity, one cap over processes, freed in one TTL |
| chat turns | live turn of a session, runtimes still unwinding | send, cancel, stop, watchdog, final status | a turn superseded while it starts, runs or returns | one live turn, every turn ends |
| turn steering | queue of the turn that owns the session, leftovers | arm, enqueue, drain, close | messages around a takeover, a timeout, the last drain | every message in one place, in the end folded or handed back once |
| user input | turns that may ask, open requests | openTurn, request, respond, expire, closeTurn, stopRoot | a turn that ends during an await of the request | no question outlives its turn, nobody proceeds on a stop |
| session cancel | marker in Redis, bus, registry of controllers | request, deliver, consume, acknowledge | markers that outlive a turn, a lost event, two turns at once | the newest turn can be reached, no unapplied command is erased |
| approvals | open approvals, grants on disk | request, resolve, time out, lookup | one-shot grants over restarts, failing files | a grant answers one repeated call |
| scene jobs | job rows, claims, heartbeats, checkpoints | create, claim, heartbeat, recover, cancel, complete | recovered job still run by its first worker | one run per job, saved steps stay, outcomes stand, every job ends |
| task graphs | places of a plan's nodes, ledger, definitions, markers | run, record, trim, scan, plan a resume | a death between two store calls, Redis missing, other processes' trims | reused nodes were done, nodes offered for a resume never started, every graph ends |
| mission store | event log and projection | versioned, idempotent append | concurrent appenders | not modelled |

`PROJECT.json` lists every part of the repository under "components", the
unmodelled ones with the reason, and under "hazards" what is hard to test, at
its line, with the properties that watch over it.

## 2. The plan

Ordered by how much of the system's own promise hangs on it.

1. `TaskLease` with its abstraction `TaskOwnership` - done, proved.
2. `AgentMessages` - done, proved.
3. `ConcurrencyGate`, extended by `ImageRenders` - done, proved.
4. `SwarmSlots` - done, proved.
5. `MissionBudget` with its abstraction `MissionEnvelope` - done, proved.
6. `CapacityBroker` - done, proved.
7. `SceneJobs` with `Approvals` - done, proved.
8. `TaskGraph` - done, proved.
9. `ChatTurns`, composing `TurnSteering`, `UserInput` and `SessionCancel` - done,
   proved.
10. `Delegation`: lease, budget, permit and messages in the order of
    `executeDelegationWithFallback` (tools/sub-agent.ts), composing 1, 2, 5 and
    6 by their abstractions (`TaskOwnership`, `MissionEnvelope`, and one each to
    be written for messages and permits). Property: on every path, whatever
    fails, what was taken is given back once.
11. `EvidenceLedger`, `MissionStore`, the plan executor.

Abstract specifications: `TaskOwnership` and `MissionEnvelope` exist; a
`Mailbox` (each message waiting, handled or dead) for `AgentMessages` and a
counting `Semaphore` for the gate and the slots are worth stating next.

Every safety and action property of the runs is a theorem. Worth proving next:
that the gate implements a `Semaphore` and `AgentMessages` a `Mailbox`, and
`Delegation` over the abstractions of its parts.
New modules keep one action per operation and constants with named
assumptions, and have no RECURSIVE operators, so that they can be proved about.

## 3. The modules

Time is treated in two ways. Where only the order of expiry and other events
matters (leases, messages, renders, jobs, turns) a TTL may run out at any moment; where an
amount of time matters (budget, permits) it passes in ticks.

### TaskLease, TaskOwnership (swarm/locks.ts, tools/sub-agent.ts)

One lease key, so one task; a *worker* is one delegation of it and a *process*
a gateway with a Redis connection that comes and goes (`online`). `held`,
`fence` and `result` are the three keys, in Redis and in the process-local
map that a `single_process` deployment falls back to. Each Lua script is one
step. `Acquire`, `Contend`, `Refuse` and `AnswerLost` are the outcomes of
`tryAcquireTaskLease`; `Follow`, `GiveUpFollowing` the wait for another owner's
result; `Tick` and `Renew` the two halves of a heartbeat, between which anything
may happen; `Return`, `Confirm`, `Record`, `Reject`, `Publish` and `Release` the
awaits of a delegation after its run, in the code's order. `ExpireLease`,
`ExpireResult`, `ExpireFence`, `Connection` and `Crash` are the environment. An
owner's UUID is the number of its acquisition. `orphans` is history: the leases
whose owner went away without releasing them.

`TaskOwnership` is what the lease promises: epochs that only grow, held by the
newest, results accepted from the holder. `Ownership` in `TaskLease` maps
`epoch` to the fence, `holder` to the token in the key and `accepted` to the
token of the result.

### AgentMessages (swarm/memory.ts, agent/sub-agent.ts)

One recipient; a *claimer* is a place where runs of it happen one after the
other. A claim in the code is a chain of Redis commands, each of which may be
answered, run without its answer arriving, or fail and divert the claim to the
in-process queue: `Command` says so once, and `Begin`, `ReadHead`, `CopyHead`,
`PopHead`, `Drain`, `Ask`, `Reclaim`, `Bury`, `Read`, `Check`, `Skip` are the
commands in order. `LocalClaim` is the synchronous in-process claim, and
`AckEntries`, `MarkSeen`, `AckLocal` the acknowledgements. `Elapse` is the end
of an entry's visibility window. `done`, `acked` and `forgotten` are history.

### ConcurrencyGate, ImageRenders (runtime/concurrency-gate.ts, multimodal/image-generation.ts)

`Enter`, `Continue`, `Finish` and `SetLimit` are `withSlot` up to its await, behind
it, its `finally`, and `setLimit`; `Drain` is the code's `drain`. Embeddings
(providers/embedding-gate.ts) and images use the same gate, so the module is
both. `ImageRenders` EXTENDS it with `renderInSlot`: a render that timed out
leaves its engine working and a mark `deviceBusyUntil`, which the next render
reads before it starts its clock. The mark is modelled as the render it stands
for: the code's estimate of the remaining time is taken to be exact.

### SwarmSlots (swarm/concurrency.ts, agent/sub-agent.ts)

A run takes the slot of its agent type, then the global one, and gives both back
in one synchronous block. A released slot is handed to the first waiter with the
count unchanged; the waiter continues later. `Configure` is a hot reload.

### MissionBudget, MissionEnvelope (swarm/mission-budget.ts, tools/sub-agent.ts)

A *child* is one delegation of a mission. `ReserveOnRedis`, `ReserveLocally`
(with `stray` the call on Redis was carried out and its answer lost) and
`RunUnreserved` are the ways past the reservation; `End` is the reconciliation in
the delegation's `finally`. `Tick` ages every ledger, which vanishes when its TTL
runs out, and every running child; a run has no bound, and an age counts no
further than the TTL. Everything that can fail may fail at any time. `lost`, `outran`,
`used`, `over` and `whole` are history: whether a reservation lost its holder, the
ledger a child was on when it had run for the ledger's whole time, what has been
used, what the children that ended since the last admission used above their
estimates, and whether the ledger on Redis has been told everything so far.

`MissionEnvelope` is the promise of the header: one envelope for the swarm,
where a child starts only if what was used and what is reserved leave room.

### CapacityBroker (swarm/capacity-broker.ts, tools/sub-agent.ts)

Permits of one endpoint on tables: one in Redis and one per process.
`TryRedis` and `TryLocal` are one round of the polling admission, `Left` what
Redis holds when its call has failed. `Renew`, `End`, `Tick` and `Crash` are the
renewal timer, the delegation's `finally`, the clock and the end of a process. A
permit's expiry is kept as the ticks that are left; `Skew` is how far a process's
clock is ahead. `orderly` and a permit's `gone` are history.

### SceneJobs, Approvals (agent/jobs.ts, agent/scene-worker.ts, approval/*.ts)

`job` is the table: status, owner, age of the heartbeat, saved steps. A *run* is one
execution of a claimed job; `mode` and `active` are a worker and its `activeJobs`.
`Claim`, `Monitor`, `Stop`, `Exit` and `Crash` are the worker, `NextStep`, `Ask`,
`Save`, `Finish`, `Throw`, `Write` and `TurnTimeout` a run, `ReadToCancel` and
`WriteCancel` the two halves of a cancellation. `Lapse` says when two minutes can
pass without a heartbeat: nobody runs the job, its worker shuts down, or it winds
down a cancelled run (the monitor beats for running jobs only); `Pause` is a
worker that stands still for so long. The operators of `Approvals` are parts of
these actions: `Cached` and `Consume` are the durable lookup, `Prompt`, `Grant`,
`Deny`, `Abandon`, `Expire` and `Forget` the rest. A claim and the start of its run
are one step, and so is a tick of the monitor, whose statements commute with what
can fall between them; `Save` is the return of a turn and its checkpoint, since
nobody sees the one without the other. `unbeaten` and `raced` are history.

### TaskGraph (tools/sub-agent.ts, swarm/memory.ts, swarm/task-graph-ledger.ts, swarm/graph-restart.ts)

A *call* of `run_task_graph` has a plan, a process, a `phase` (the await it is in) and
the places of its nodes (`status`). From one await to the next the tool is
synchronous: `GoOn` is that stretch, with `blockFailedDependents`,
`startReadyNodes` and the end of the loop. `NodeCompletes` records a node,
`CountEntries` and `EvictEntries` trim the ledger, `DeleteDefinition` and
`DeleteMarkers` end a graph. Start markers are sent and not awaited (`landing`,
`StoreMarker`). Each store call is answered by Redis or falls back to the process's
own map (`Uses`). `Crash` kills a process and arms the scan of its next start:
`ListInterrupted`, `ReadCompletedIds`, `PlanResume`. A node's completion and the
HSETNX that records it are one step; so are a death and the next start, whose scan
may wait as long as it likes. A record carries the time its process read before the
write (`CompletedAt`, any times that differ), so that records may arrive in another
order than that of their stamps. Both durable-graph flags are on. `outlived`,
`unmarked` and `recorded` are history.

### ChatTurns, TurnSteering, UserInput, SessionCancel, TurnIds (gateway/rpc.ts, agent/runtime.ts, ...)

`ChatTurns` is one chat session. A turn has a side in the gateway (`gw`) and one in
the runtime (`rt`), which unwinds in its own time after an abort. `Send` supersedes
the turn before; `ChatCancel`, `GracefulStop`, `ForcedStop` and `Timeout` are the ways
to stop one; `RuntimeStarts`, `RuntimeDrains`, `RuntimeCloses`, `RuntimeReturns` and
`ReturnsUnheard` are its life in the runtime. It is composed of three modules over
the same turn numbers (`TurnIds`): `TurnSteering` has the queue of the session's
owner, what is folded, handed back and left over; `UserInput` the broker's
open turns and requests, with `Ask` and `Show` the two sides of the await inside
`request`, and `FailToShow` its other end, where the payload cannot be built; `SessionCancel` the marker in Redis, the bus, the registry of
controllers and the acknowledgements. Each of its operators is a part of the
actions of `ChatTurns`. A command is `Remote` if it was issued in another process.
`overtaken`, `lost`, `misled`, `late`, `applied` and `erased` are history.

### MC modules and proof modules

`MCTaskLease`, `MCAgentMessages`, `MCSwarmSlots`, `MCMissionBudget`,
`MCCapacityBroker`, `MCSceneJobs`, `MCTaskGraph` and `MCChatTurns` give the
instances; `ImageRenders` needs none. `TaskLeaseProofs`, `GatesProofs` (gate, renders and slots),
`MissionBudgetProofs`, `CapacityBrokerProofs`, `SceneJobsProofs`,
`TaskGraphProofs`, `ChatTurnsProofs` and `AgentMessagesProofs` hold the
theorems. Definitions
marked "Mutant" in a module are wrong versions of the definition below
them, each a plausible slip in the code; with it in its place the property named
in `PROJECT.json` fails, so the property does depend on that code.

## 4. The runs

| run | instance | checks |
|---|---|---|
| `lease_cluster` | two workers in two processes, two candidates each, two confirmation rounds | LeaseInv, LostMeansTaken, PublishFenced, ImplementsOwnership |
| `lease_single` | two workers in one process with the local fallback, and a fence that may run out | NothingRevived, EveryDelegationEnds |
| `messages_redis` | two messages, two claimers in two processes, Redis always answers, ceiling 2 | AckedNeverDead, EventuallySettled |
| `messages_outage` | one message, also on the legacy list, two claimers in one process whose connection comes and goes | SeenMeansDone, NothingLost, Exclusive |
| `images` | four renders, a limit that changes between 1 and 2 | SlotsAccounted, NoIdleSlot, FirstComeFirstServed, CleanStart, RendersEnd |
| `slots` | four runs of two types, global ceiling 2, caps 1 to 3 reloaded at will | SlotsSafe, RunsRun |
| `budget` | three children in two processes, two budgeted dimensions and one unlimited | ReservationsHeld, UsageRecorded, HardCeiling, OneEnvelope |
| `capacity` | two light delegations and one that takes the whole endpoint, two processes | TableWithinCapacity, OneCap, FreedInTTL |
| `scenes` | one job of two steps, the second gated, two runs, two ends of the process, a pause | SceneInv, GrantReusedOnce, SavedStaysDone, OutcomeStands, EveryJobEnds |
| `graphs` | two plans in two processes that share a node, one with a cycle; one death, one miss of Redis, a ledger of one entry | ReusedWasDone, BlockedForCause, ResumeSafe, NewestKept, EveryGraphEnds |
| `turns` | two turns, one message, one question, a local and a remote forced stop, three events | OneFate, QuestionsClosed, OneLiveTurn, StopReaches, TurnsEnd |

`scenes_stuck` ends in a counterexample; section 7 says what it finds.

### What they show

- Lease: through renewals in flight, expiry, lost answers, crashes and
  reconnections the key names the newest acquisition, no lease comes back to
  life, a worker throws finished work away only if a newer acquisition exists,
  and a durable result is only ever replaced by that of a newer owner. Every
  delegation ends.
- Messages: at every point of a claim a sent message is where a later claim
  looks, or handled, or dead-lettered, or was in the memory of a process that
  died; filtering by a seen-set drops no work; redelivery never hands an entry
  to a second run while the first is inside its window; and with Redis up every
  message is settled though every run may fail.
- Gate, images, slots: counts equal holders through every hand-off; nobody waits
  beside a free slot of a gate; a render's clock never starts on a busy engine
  as long as the device renders one picture at a time; every wait ends.
- Budget: the ledger holds each running child's reservation exactly once, and on
  Redis at most those of children that left without giving theirs back; one is
  missing only where a child outran the ledger's time. While everything is
  recorded, the ledger implements the envelope, and what was used exceeds a limit by
  no more than the children that ended since the last admission used above their
  estimates.
- Scene jobs: through crashes, shutdowns, recoveries and cancellations a live run is
  the only one of its job and its worker beats for it, no saved step is lost or
  repeated, an outcome is never overwritten, a grant answers one repeated call,
  and every job ends if processes start again later than the stale window.
- Task graphs: what is reused was completed, nodes start on completed
  dependencies and are blocked for a cause also when a plan has a cycle; the ledger
  that processes trim side by side keeps its newest entries; what a restart scan
  offers to run was never started in that graph, unless its marker had
  not reached Redis, the graph ended after it was listed, or its definition outlived it
  because a delete was missed; every graph ends.
- Turns: however two turns replace, stop and outlive each other, every accepted
  steering message ends in one place, no question stays open after its turn and no
  aborted tool is told that nobody could be asked unless its question could not be
  built, a session has one live turn, a forced stop
  finds the controller of the newest turn and no acknowledgement erases a command
  nobody applied; every turn ends.
- Capacity: no table ever has more units than the endpoint, a permit without a
  holder is not counted for longer than its lifetime, and the running
  delegations of all processes stay within one cap.

### Bounds and why they are enough

- Two workers or claimers in two processes give every interleaving of an owner
  and a contender; a second candidate lets one worker own the task twice, which is
  how a worker meets its own earlier lease. Two confirmation rounds stand for
  three in `lease_cluster` (unanswered-and-retry and unanswered-and-last both
  occur). `acquired` is bounded by workers times
  candidates and needs no cap.
- `MaxStream` bounds the entries of a stream. Two is one message and its
  duplicate after a lost answer; three lets both messages of `messages_redis`
  in without reaching the bound, and `Calm` leaves out the behaviours that do
  reach it. The two claimers of `messages_outage` are symmetric. Deliveries are counted up to one above `MaxDeliveries`.
- Four renders on limits 1 and 2 (and 0, which the code raises to 1) give two in
  slots and two in the queue, the least for an order to be wrong. Four runs
  with three of one type are two in the queue of that type.
- Estimates of 2 tokens under a limit of 5 let two children run and refuse the
  third; uses of nothing, less than and more than the estimate all occur.
  A TTL of 2 ticks and runs without a bound let the ledger expire in a pause and
  under a run, as the code's 4 hours do for a run that has no deadline.
- A permit lives 3 ticks and is renewed every tick, the code's third of the
  lifetime; the hash lives 12, four lifetimes as in the code. Four ids are more
  than a table of two units, one local permit and one not yet pruned can use;
  TLC treats them as symmetric.
- One job with two runs is the least for a recovered job to meet its first run;
  jobs do not interact but for the order of claims, which two jobs would show and
  no property is about. Two steps make "one less" and "one more" different, the
  second is gated so that a resumed run asks again. A third run would need a second
  pause. `Concurrency` 2 lets a worker hold two runs of the job at once.
- Two plans share node `a`, and the second has a cycle beside a node that depends on
  both; `MaxEntries` 1 makes every second record trim. One death and one miss occur
  at any point; a second miss only repeats the first. The stamps put the one node
  of the second plan that completes between the two of the first, and it is
  recorded before, between or after them.
- Two turns give every order of a takeover and what the first turn still does;
  `MaxEvents` 3 is a steering message, a question and a stop, or two stops and one
  of the others, around it.
- States: from ten thousand to 1.6 million per passing run, each a few minutes
  at most.

### Fairness

- `lease_single`: a delegation's steps and a renewal are driven by promises with
  deadlines (the turn deadline, the follow budget, the client's timeout), and
  Redis deletes a key that nobody extends. Ticks, crashes and connections are
  not forced.
- `messages_redis`: the recipient runs again, a run ends (well or not), windows
  elapse and the client reconnects (ioredis retries for ever). Nothing forces a
  run to succeed. `EventuallySettled` is stated for the time after the last crash
  and for windows that do not elapse just between XPENDING and XAUTOCLAIM.
- `images` and `slots`: the event loop reaches every continuation, and a render
  or container ends, because each has a timeout.
- `scenes`: a run's awaits end because turns have deadlines, timers fire while the
  process lives, time passes, ended processes are started again (`LateRestart`:
  later than two minutes), an up worker claims and ticks. Answers of people,
  cancellations, crashes and shutdowns are not forced.
- `graphs`: a delegation returns, and a store call falls back; starts of calls, deaths
  and scans are not forced. That a delegation returns is its deadline for bounded
  runs; for a run without a time limit it is an assumption on the sub-agent.
- `turns`: the runtime's steps and the broker's timers. The person, the bus, the
  gateway's watchdog and the marker's TTL are not forced.
- `lease_single`, `lease_cluster`, `budget`, `scenes`, `graphs`, `turns`:
  deadlock is not checked, because the system may stop for good there (each
  delegation runs once, both workers are done, the events of an instance are
  spent). It is checked elsewhere.

## 5. The proofs

| theorem | states, for every value of the constants | assumes |
|---|---|---|
| `TypeCorrect` | `TaskLease!TypeOK` | - |
| `NothingEverRevived` | `NothingRevived` | - |
| `LeaseInvariant`, `NewestAlwaysHolds`, `LostAlwaysTaken` | `LeaseInv` and what it is for | `~FenceExpires` |
| `PublishesAreFenced` | `PublishFenced` | `~FenceExpires` |
| `ImplementsFencedOwnership` | `TaskLease` implements `TaskOwnership` | `~FenceExpires` |
| `GateInvariant` | type, `SlotsAccounted`, `QueueIsWaiting`, `NoIdleSlot` of the gate | - |
| `SlotsAlwaysAccounted` | `SlotsAccounted` of the gate | - |
| `CeilingKept`, `InArrivalOrder` | a grant is below the ceiling of its moment; FIFO | - |
| `RendersKeepTheGate` | with renders that time out, the gate keeps what `GateInvariant` says | - |
| `RendersStartClean` | `CleanStart` | - (a premise of the property: `single`) |
| `SlotsAlwaysSafe`, `SlotQueuesHoldTheWaiting` | `SlotsSafe`; each queue is who waits for it, once each | - |
| `Reservations` | type and `ReservationsHeld`, for runs of any length | - |
| `Recorded`, `Enveloped` | `UsageRecorded`; the ledger implements the envelope (`OneEnvelope`) | - |
| `Ceiling` | `HardCeiling`: the limits hold but for what the last children used above their estimates, while all is recorded | - |
| `Capped` | type and `TableWithinCapacity` | - |
| `EveryRunAttended`, `OneRunOfEachJob` | `SceneInv`; one run per job | - |
| `OutcomesStand`, `SavedStepsStay` | `OutcomeStands`, `SavedStaysDone` | - |
| `GrantsReusedOnce` | `GrantReusedOnce` | - |
| `ReusedReallyDone` | `ReusedWasDone` | - |
| `BlockedOnlyForCause` | `BlockedForCause`, at the end of `blockFailedDependents`'s pass over any plan | - |
| `ResumesAreSafe` | `ResumeSafe` | - |
| `NewestAreKept` | `NewestKept` | - (a premise of the property: `misses <= MaxEntries`) |
| `StartedWhenReady` | no node starts before its dependencies are done | - |
| `OneProviderCap` | `OneCap` | clocks agree, no two renewals in a row lost |
| `FreedOnTheFirstClock` | a TTL after its holder went away, a process whose clock no other is ahead of does not count a permit | - |
| `FreedWithinTTL` | `FreedInTTL` | clocks agree |
| `MessagesTypeCorrect` | `AgentMessages!TypeOK` | - |
| `SeenReallyDone`, `ClaimsAreExclusive` | `SeenMeansDone`, `Exclusive` (which holds of `Patient` runs) | - |
| `NothingEverLost` | `NothingLost` | `OneDrains`: at most one legacy entry, or one claimer |
| `AckedAreNeverDead` | `AckedNeverDead` (premises of the property: `Patient`, Redis always answers) | no legacy list |
| `TurnsTypeCorrect` | `ChatTurns!TypeOK` | - |
| `OneTurnIsLive`, `QuestionsCloseWithTurns`, `StopsReachTurns` | `OneLiveTurn`, `QuestionsClosed`, `StopReaches` | - |
| `MessagesHaveOneFate` | `OneFate` | - |

All rest on the named assumptions about constants (`LeaseAssumption`,
`GateAssumption`, `RendersAssumption`, `SlotsAssumption`, `BudgetAssumption`,
`BrokerAssumption`, `SceneAssumption`, `CallsAssumption`, `StampsAssumption`, `MessagesAssumption`,
`MaxTurnsAssumption`), which TLC
evaluates on every run of their module. `MessagesInvariant` and `TurnsInvariant`
are the inductive invariants of the last two groups. The counter bounds of the
models (`MaxStream`, `MaxTurns`, `MaxEvents`) are arbitrary numbers in the proofs.

**Lease.** That the key names the newest token is not inductive: a reclaim sets a
key back when the fence equals the worker's token, which is right only if no
other worker has the same token. So `LeaseInv` adds `TokensIssued` (every
worker's token was handed out by the fence, and the key carries the fence's
value) and `TokenNamesLease` (one token names one lease). `NothingRevived` needs
none of that, only `RenewalsOwned`: a renewal in flight belongs to a worker that
has not released yet, which is what awaiting it in `stop()` is for. So it is
proved beside `LeaseInv` (`LeasesAccounted`), for fences that run out as well. The refinement maps a step
to `Claim`, `Vacate`, `TakeBack`, `Accept`, `Forget` or a stutter, from the
invariant.

**Gate.** `SlotsAccounted` and `NoIdleSlot` need `QueueIsWaiting` (the queue holds
exactly the waiting calls, once each): the lemmas say how many calls `Drain`
releases and that they are the first ones. `ImageRenders` takes every step of a
render at the gate as a step of the gate (`RenderStepIsGateStep`), so the theorems
of the gate hold of it. `CleanStart` adds what one render at a time means while
`single`: at most one call holds the slot, the engine works on nothing but the render
the mark stands for, and whoever waits, waits for all of it.

**Slots.** Each semaphore counts its holders and queues its waiters once each, and
what it counts is within the ceiling; a hand-off leaves the count and changes the
holder. The global one is taken by runs that hold their type's slot, so that what
runs is counted by both.

**Budget.** `Reservations` follows each ledger as a multiple of the estimate: at most
the children it holds plus the strays (`Counted`), at least those children less the
ones that outran it. It needs `Holds`: a running child that has not outrun its ledger
is younger than the TTL, and the ledger, which its reservation touched, lives long
enough for it to grow that old, so that an expiry takes with it only reservations of
children that outran it. `Recorded` carries "`whole` implies spent
equals used" with it, and `Enveloped` needs that no running child is without
a reservation while `whole`. For `Ceiling` every step keeps `Covered`: what was used and
the estimates of the running children stay within the limits plus `over`. An
admission sets `over` to nothing, because it looks at what is spent; an end exchanges
an estimate for a use, whose excess it adds to `over`.

**Capacity.** `Capped` counts units as a set of pairs (permit, unit), so that the
lemmas are about finite sets: losing permits loses units, issuing one adds its
weight, and pruning removes exactly what is not counted. `OneProviderCap` adds
`CoverInv`: each running delegation has a permit of its own on Redis, which
outlives the next renewal (or the one after it, if the last was lost), and the
hash outlives its permits; then `Occupied` injects into the units of the table.
`FreedInTTL` needs that nobody extends a permit whose holder went away: whoever has
a permit's id is its only holder, and is there (`FadingInv`). Then what is left of an
abandoned permit falls by each tick from at most the TTL plus the lead of the
clock that is furthest ahead, which is why a process whose clock is behind counts it
for longer: the theorem with any clocks is about the first one only.

**Scene jobs.** That a live run is attended is kept only together with what becomes
of the row: `Tended` says that the row of an attended run runs or is being
cancelled with a fresh heartbeat unless a cancellation raced, so that no recovery
picks it. `Awaited` (an open approval names a run that waits, and only one
does) keeps an answer from reopening a run that has decided; `Midway` keeps the
outputs within the steps; `SpentOnce` says that a used grant is gone from disk.
The two properties of steps follow from a lemma that lists what can become of a
row in a step (`RowSteps`).

**Task graphs.** The loop of the tool only moves nodes that remain, and only to
where they run or are blocked (`GoOnKeeps`, whatever the recursive pass over
the plan computes), so that what completed stays completed; and every ledger
holds completed keys only (`LedgerDone`). For `BlockedForCause` the pass itself is
followed: by induction over its length, what it has found at a point are remaining
nodes, each depending on one found before it or on one that had failed. For
`ResumeSafe` every node that was begun leaves a trace, in Redis, on its way or given
up (`MarkInv`), which only the end of its own graph takes away; and a graph
without a definition is not listed: one that had ended when it was listed is in
`outlived` (`DefsInv`, `ScanInv`). For `NewestKept`, `KeptInv` calls an entry old when
`MaxEntries` newer ones were given to Redis; a trim names old keys only, because what
it counted beyond the cap on Redis is old. A trim decided on a process's own map is
carried out on Redis only after Redis has failed `MaxEntries` calls and more, and
then may delete a new entry: hence the premise.

**Direct messages.** A step of a claimer is one of eight effects on Redis, carried
out or not, and one of five moves of the claimer and its process's memory
(`ClaimerDoes`); the invariants are proved over effects and moves, not over the
product of commands and failures. `SeenMeansDone` needs that whoever acknowledges
has committed. `Exclusive` needs two invariants: entries a claimer holds are not
idle (`EntriesInv`), and each message of a process is at one place, in the queue, in
one claim, or with one drain, among messages sent from that process (`LocalInv`).
For `NothingLost` a message is *safe* in the stream (not handed out, or pending), in
a process's memory, or settled. Safety is kept by every step (`SafeStays`),
because an entry leaves the pending list only for a committed effect or the
dead-letter stream (`LeavesPending`), and what a drain has on its way leaves it for
the stream or the queue (`KeepMoves`). What is left are the legacy entries: whatever
a claimer is about to pop is safe already (`HeadOf`), which two claimers on a list
of two entries break (section 7); `OneDrains` excludes just that. `AckedNeverDead` is
proved from `SteadyInv`: everything is in the stream, each message once, and an
entry whose message was acknowledged or dead-lettered is *closed*, neither pending nor
in anybody's batch. Without a legacy list it is exactly the copies that are missing;
with one, two claims may copy its head, and TLC finds the message in both places.

**Turns.** The gateway's entry, the broker's open turns and the steering's owner
say the same (`TurnsAgree`); questions and the live turn follow. For the stops the
acknowledgements on their way name commands that were applied. For the messages
`Phases` relates the two sides of a turn (what is carried belongs to a runtime that
is closing; the queue of a turn the gateway has ended is empty), and `Fate` lists, for one
message, the places it can be at, two of which never hold at once.

Only model-checked are the liveness properties (`EveryDelegationEnds`,
`EventuallySettled`, `RendersEnd`, `RunsRun`, `EveryJobEnds`, `EveryGraphEnds`,
`TurnsEnd`), since fairness and ENABLED are beyond the prover. Every other property of
the runs is a theorem, under the assumptions the table names. Induction is available
where the property can be written as a set: `SetInduction` (from the well-founded
order of the naturals) does it for the recursive function of
`blockFailedDependents`. What a definition computes for every input by a scheme that
takes an operator, and RECURSIVE operators, stay out of reach.

## 6. What the properties are conditional on

The code has escape hatches on purpose, and a property that ignored them would
be false. Each condition is a history variable or a constant, so that the model
still takes the hatch and only the property looks away:

- `FenceExpires`: token order holds for fences that outlive their leases. The run
  `lease_single` lets the fence run out and checks what is left.
- `Patient`: no window elapses under a run. The code picks windows longer than
  the run's limit (agent/sub-agent.ts:912), except for unlimited runs.
- `whole`: the ledger on Redis was told everything. It becomes false when a
  mode, a failure or an expiry lets a child past it.
- `outran`: the ledger a child was on when it had run for the ledger's whole time (4 hours).
  From then on that ledger may lack one reservation.
- `over`: what the children that ended since the last admission used above their
  estimates. Nothing stops a child at its estimate, and the next admission counts it.
- `orderly`: Redis decided, refusals were obeyed, renewals were in time. It
  becomes false in shadow mode, on a fallback, and in a pause.
- `single`: the device renders one picture at a time. With two, one mark stands
  for both and one render's success clears the other's.
- `unbeaten`: the worker beats for its run. It becomes false when a worker stands still
  for two minutes, shuts down, or winds down a cancelled run: then another may
  claim the job beside it.
- `raced`: a cancellation wrote over a status it had not read.
- `LateRestart`: a process starts later than the stale window; without it
  `EveryJobEnds` fails (`scenes_stuck`).
- `unmarked`, `landing`: the start marker of a node never reached Redis, or has not yet.
- `scan.open`, `outlived`: the graph had not ended when it was listed and has by now; or
  its definition was still in a store after the call that deletes it. Both have deleted
  their markers, and nodes that ran are given out.
- `misses`: the store calls Redis left unanswered; `NewestKept` allows `MaxEntries` of
  them.
- `late`: an aborted turn registered its controller after a newer turn.
- `misled`, within `question[q].at = "unbuilt"`: the payload of the question failed to
  build, and nobody looked whether the turn had been stopped meanwhile.
- `overtaken`, `lost`: the watchdog fired while the runtime's result was on its way.

## 7. Findings and known divergences

Shown by a run:

- `scenes_stuck` (`EveryJobEnds`). The recovery of stale jobs runs at a worker's start and
  beside the heartbeats of a worker that has jobs. After a crash and a restart within
  two minutes the job is not stale yet, and an idle worker never looks again
  (agent/scene-worker.ts:136): the job stays "running" until somebody queues another.

Met while modelling, without a run of their own:

- Lease: the pre-publish check publishes when the backend does not answer
  (swarm/locks.ts:293, 296); its comment says that no worker can take a task without
  it either, but a partition of this process alone lets another take it. The fenced
  publication still refuses the result; the task is recorded.
- Messages: two claims drain a legacy list of two or more entries at once, both copy
  the head, and the second LPOP removes an entry neither copied (swarm/memory.ts:821,
  849). `NothingLost` is checked with a list of at most one.
- Slots: a raised cap wakes no waiter, and the next caller takes the new slot in front of
  them, where the header says FIFO (swarm/concurrency.ts:14, 90).
- Lease: the fence's TTL is refreshed by acquisitions only (swarm/locks.ts:148), so
  a lease renewed for more than a day outlives it and an earlier owner may take
  back. A contender of a re-run may return an earlier owner's result, which lives
  four hours (434). A single process whose acquisition Redis does not
  answer grants a second lease from its local map (180).
- Messages: one batch may carry a message twice after a lost answer
  (swarm/memory.ts:783 beside the comment at 728); an effect is repeated after a
  crash before its acknowledgement (985; ADR-003 says "exactly-once effect");
  messages of a failed in-process claim are requeued by in-process claims only
  (1007); a seen-set may be overwritten (1062); the ceiling is read before the
  reclaim and may hand out once more (929). Where a message is in the stream twice
  (a lost answer, a legacy head copied by two claims), the ceiling is looked at
  before the seen-set, so the second copy may be dead-lettered although the message
  was acknowledged: `AckedNeverDead` fails with a legacy message, and is checked
  where no copy arises.
- Budget: in shadow mode usage of an unreserved child is recorded nowhere
  (tools/sub-agent.ts:2334); a paused mission starts a full ledger after four hours
  (swarm/mission-budget.ts:22), and so does one whose only run lasts longer, whose
  reconcile then takes another child's reservation off the new ledger (147); a child
  may use more than its estimate (151); a failed reserve is granted from a local
  ledger (183); the reservation of a lost reconcile stays as long as the mission goes
  on (154).
- Capacity: a fallback table counts from zero (swarm/capacity-broker.ts:123); a
  holder whose permit expired is not told (tools/sub-agent.ts:2419); a process whose
  clock is ahead prunes live permits (107); polling keeps no order (136).
- Slots: a run whose signal is aborted in the queue keeps its place
  (agent/sub-agent.ts:3442); a lowered cap takes effect only when the queue runs
  dry (swarm/concurrency.ts:129).
- Scene jobs (agent/scene-worker.ts, agent/jobs.ts): a cancellation reads and then writes
  whatever the row says by then (jobs.ts:814); a run that timed out and whose turn
  still returns is marked completed (scene-worker.ts:232); an aborted step is
  checkpointed as done (399); no heart is beaten for a job that is being cancelled
  or whose worker shuts down; a second claim of a job by the same process
  replaces its entry in `activeJobs` (129).
- Approvals: an approval whose run was aborted stays open, and a later answer still
  leaves a grant; a grant on disk survives a later denial of the same call
  (approval/store.ts:41); in a worker without channels approvals can only time out.
- Task graphs: markers are sent without awaiting them (tools/sub-agent.ts:3727), where
  swarm/memory.ts:425 says that a node without a marker "provably" never ran. The
  definition and the markers hang on two different flags. A graph that ends deletes its definition and then its markers, each call swallowing its
  failure (tools/sub-agent.ts:3836-3837): a first delete that Redis does not answer is
  made on the process's own map, the second then removes the markers from Redis, and
  the next boot gives out the failed and partial nodes of the graph, which ran, as never
  started, where swarm/graph-restart.ts:15 says that such a node "PROVABLY fired no
  effect" and swarm/memory.ts:393 that its graph never completed cleanly (`ResumeSafe`
  without `outlived` has a counterexample of ten states). The graph of a
  live process is listed as interrupted, and one that ends between the listing and the
  reading of its markers is offered with nodes that ran. Today the plan is only logged
  and audited (swarm/graph-restart.ts:22). The ledger is matched by node id across
  graphs, so that a node of the same id and another text counts as completed
  (swarm/graph-restart.ts:60). The node key covers the ids of dependencies, not their
  text, contrary to swarm/task-graph-ledger.ts:16. A trim decided before a key is
  recorded again deletes the new entry; one decided on a process's own map while Redis
  does not answer is carried out on Redis once it answers again
  (swarm/task-graph-ledger.ts:169) and may then delete newer entries than it should. A
  reused node whose entry was evicted looks as if it had never started.
- Turns: a forced stop between a send and the registration of its turn hits the turn
  before, is acknowledged and never reaches the new one; an aborted turn that is
  still starting registers after its successor, and its deregistration leaves the
  successor out of reach (`late`); a marker whose turn ended by itself, or that was
  consumed while its event was delayed, stops a later turn within 30 seconds; after a
  graceful stop a question of the ending turn hears "auto"; a tool whose question
  cannot be built hears "auto" also when its turn was aborted meanwhile
  (agent/user-input-broker.ts:255-259), where line 45 wants "cancelled" for it
  rather than "nobody to ask"; a result that is lost in
  the last await before the runtime returns takes its leftovers with it
  (agent/runtime.ts:1253).

## 8. Not modelled

Inside the modelled parts: order within a batch, malformed payloads, the caps on
stream, queue and seen-set (they drop the oldest by design), a database that
fails under the scene worker, the in-memory job store of a gateway without one, the
legacy blob of the graph ledger and the expiry of graph records, records of the same millisecond, the caps and
expiries of steering and questions, approval prompts inside turns, the statistics
counters, snapshots, test-only resets, connecting to Redis (a connection is up or
down), and texts. A capacity or limit of the budget and broker that changes in
a reload is not modelled; the modes are, as a choice per delegation.

The mission store appends in one database transaction, and what is hard there (the
projection is rebuilt by a read and a later update; the expected version is
looked at before the idempotency key) concerns counts that nothing decides on. The
composition of a whole delegation needs abstractions of messages and permits
first.

Other parts: those of the plan in section 2, and the ones that are not
state machines worth checking - model and tool calls, routing heuristics,
retrieval, serialisation, HTTP routes, observability, the web client, the mail
service and the container images. `PROJECT.json` gives the reason for each.
