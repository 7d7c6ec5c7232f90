--------------------------- MODULE ConcurrencyGate ---------------------------
(***************************************************************************)
(* The FIFO concurrency ceiling of one backend resource                    *)
(* (packages/core/src/runtime/concurrency-gate.ts), as embeddings and image *)
(* generation use it.  A call is identified by its task; a task calls the  *)
(* gate again only after its last call returned.  A waiter that was        *)
(* released runs only when the event loop gets to it, so that other calls  *)
(* may come in between; the counters kept for statistics are left out.     *)
(***************************************************************************)
EXTENDS Integers, Sequences, FiniteSets

CONSTANTS
  Tasks,   \* callers of withSlot
  Default, \* the limit the gate is created with
  Asked    \* what setLimit is called with

ASSUME GateAssumption ==
  /\ IsFiniteSet(Tasks)
  /\ Default \in Int
  /\ Asked \subseteq Int

VARIABLES
  limit,    \* limit
  inFlight, \* inFlight
  queue,    \* queue: the tasks whose resolve it holds
  phase     \* where each task is

vars == <<limit, inFlight, queue, phase>>

Phase == {"out", "waiting", "released", "working"}

\* Math.max(1, n); the numbers asked for are whole here.
AtLeastOne(n) == IF n < 1 THEN 1 ELSE n
Smaller(a, b) == IF a < b THEN a ELSE b

Init ==
  /\ limit = AtLeastOne(Default)
  /\ inFlight = 0
  /\ queue = <<>>
  /\ phase = [t \in Tasks |-> "out"]

-----------------------------------------------------------------------------

\* How many of n waiters drain() releases when free slots are left.
Released(n, free) == IF free < 0 THEN 0 ELSE Smaller(n, free)

\* Mutant: the newest waiters are taken.
DrainNewest(lim, used, ph) ==
  LET k == Released(Len(queue), lim - used)
      taken == {queue[i] : i \in Len(queue) - k + 1 .. Len(queue)}
  IN  /\ inFlight' = used + k
      /\ queue' = SubSeq(queue, 1, Len(queue) - k)
      /\ phase' = [t \in Tasks |-> IF t \in taken THEN "released" ELSE ph[t]]

\* drain(), with the limit and the count of slots in use it starts from.  The
\* phases given are those after the change that made the slots free.
Drain(lim, used, ph) ==
  LET k == Released(Len(queue), lim - used)
      first == {queue[i] : i \in 1 .. k}
  IN  /\ inFlight' = used + k
      /\ queue' = SubSeq(queue, k + 1, Len(queue))
      /\ phase' = [t \in Tasks |-> IF t \in first THEN "released" ELSE ph[t]]

\* withSlot: a free slot is taken at once, otherwise the call waits.
Enter(t) ==
  /\ phase[t] = "out"
  /\ IF inFlight < limit
     THEN /\ inFlight' = inFlight + 1
          /\ phase' = [phase EXCEPT ![t] = "working"]
          /\ UNCHANGED queue
     ELSE /\ queue' = Append(queue, t)
          /\ phase' = [phase EXCEPT ![t] = "waiting"]
          /\ UNCHANGED inFlight
  /\ UNCHANGED limit

\* A released waiter continues behind its await.
Continue(t) ==
  /\ phase[t] = "released"
  /\ phase' = [phase EXCEPT ![t] = "working"]
  /\ UNCHANGED <<limit, inFlight, queue>>

\* Mutant: the slot of a call that threw is not given back.
FinishLeaks(t) ==
  /\ phase[t] = "working"
  /\ phase' = [phase EXCEPT ![t] = "out"]
  /\ UNCHANGED <<limit, inFlight, queue>>

\* The work returned or threw: finally.
Finish(t) ==
  /\ phase[t] = "working"
  /\ Drain(limit, inFlight - 1, [phase EXCEPT ![t] = "out"])
  /\ UNCHANGED limit

\* Mutant: raising the limit waits for the next call to return.
SetLimitOnly(n) ==
  /\ limit' = AtLeastOne(n)
  /\ UNCHANGED <<inFlight, queue, phase>>

SetLimit(n) ==
  /\ limit' = AtLeastOne(n)
  /\ Drain(AtLeastOne(n), inFlight, phase)

Next ==
  \/ \E t \in Tasks : Enter(t) \/ Continue(t) \/ Finish(t)
  \/ \E n \in Asked : SetLimit(n)

Spec == Init /\ [][Next]_vars

-----------------------------------------------------------------------------
(* Properties *)

TypeOK ==
  /\ limit \in Nat \ {0}
  /\ inFlight \in Nat
  /\ queue \in Seq(Tasks)
  /\ phase \in [Tasks -> Phase]

Holders == {t \in Tasks : phase[t] \in {"released", "working"}}

\* No slot leaks and none is given twice: the counter is the number of calls
\* that hold a slot, those released but not running yet included.
SlotsAccounted == inFlight = Cardinality(Holders)

\* The queue holds the waiting calls, each once: no wake-up gets lost.
QueueIsWaiting ==
  /\ \A t \in Tasks : phase[t] = "waiting" <=> \E i \in DOMAIN queue : queue[i] = t
  /\ \A i, j \in DOMAIN queue : queue[i] = queue[j] => i = j

\* Nobody waits while a slot is free, whatever happened to the limit.
NoIdleSlot == queue # <<>> => inFlight >= limit

\* A call gets a slot only below the ceiling as it is then, also while more
\* calls than a lowered ceiling allows are still running.
GrantsUnderCeiling == [][inFlight' > inFlight => inFlight' <= limit']_vars

\* "The queue is FIFO": whoever gets a slot leaves nobody waiting that came
\* before it; a newcomer gets one only if nobody waits.
FirstComeFirstServed ==
  [][\A t \in Tasks :
       /\ phase[t] = "out" /\ phase'[t] = "working" => queue = <<>>
       /\ phase[t] = "waiting" /\ phase'[t] = "released" =>
            \A i, j \in DOMAIN queue : i < j /\ queue[j] = t => phase'[queue[i]] = "released"]_vars

=============================================================================
