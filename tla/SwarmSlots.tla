----------------------------- MODULE SwarmSlots -----------------------------
(***************************************************************************)
(* The two concurrency ceilings a containerized sub-agent run passes       *)
(* (packages/core/src/swarm/concurrency.ts, called from agent/sub-agent.ts): *)
(* one per agent type, then one for the whole process.  A released slot is *)
(* handed to the first waiter with the count unchanged.                    *)
(*                                                                         *)
(* A semaphore is looked up, counted and queued on in one synchronous      *)
(* block; a waiter continues when the event loop gets to it.  The waiting  *)
(* times and the backpressure events are left out.                         *)
(***************************************************************************)
EXTENDS Integers, Sequences, FiniteSets

CONSTANTS
  Runs,      \* sub-agent runs
  Agents,    \* agent types
  AgentOf,   \* the agent type of each run
  Caps,      \* values maxConcurrent may have
  GlobalCap, \* the global ceiling
  Global     \* the name of the global semaphore

ASSUME SlotsAssumption ==
  /\ IsFiniteSet(Runs)
  /\ AgentOf \in [Runs -> Agents]
  /\ Caps \subseteq Nat \ {0} /\ Caps # {}
  /\ GlobalCap \in Nat \ {0}
  /\ Global \notin Agents

Semaphores == Agents \union {Global}

VARIABLES
  config, \* maxConcurrent of each agent type in the configuration
  max,    \* maxConcurrent of each semaphore
  active, \* active
  queues, \* queue
  at      \* where each run is

slotVars == <<config, max, active, queues, at>>

\* Waiting on a semaphore, or woken by its release and not continued yet.
Stage == {"out", "agentQueue", "agentWoken", "globalQueue", "globalWoken", "running"}

SlotsInit ==
  /\ config \in [Agents -> Caps]
  /\ max = [s \in Semaphores |-> IF s = Global THEN GlobalCap ELSE config[s]]
  /\ active = [s \in Semaphores |-> 0]
  /\ queues = [s \in Semaphores |-> <<>>]
  /\ at = [r \in Runs |-> "out"]

-----------------------------------------------------------------------------

\* acquireOn: below the cap the slot is taken, otherwise the run queues.
Acquire(s, r, taken, waiting) ==
  IF active[s] < max'[s]
  THEN /\ active' = [active EXCEPT ![s] = @ + 1]
       /\ at' = [at EXCEPT ![r] = taken]
       /\ UNCHANGED queues
  ELSE /\ queues' = [queues EXCEPT ![s] = Append(@, r)]
       /\ at' = [at EXCEPT ![r] = waiting]
       /\ UNCHANGED active

\* Mutants: the slot is given back although it is handed on; nobody is woken.
CountAlways(s) == IF active[s] = 0 THEN 0 ELSE active[s] - 1
WokenNobody(s) == {}

\* releaseOn, as a change of count, queue and stages; a run is woken from the
\* queue of an agent or from the global one.
Count(s) == IF queues[s] = <<>> THEN (IF active[s] = 0 THEN 0 ELSE active[s] - 1) ELSE active[s]
Rest(s) == IF queues[s] = <<>> THEN <<>> ELSE Tail(queues[s])
Woken(s) == IF queues[s] = <<>> THEN {} ELSE {Head(queues[s])}

\* acquireSlot: the agent's slot first, under the cap configured now; a run
\* that gets it at once asks for the global slot when its await returns.
AskAgent(r) ==
  LET a == AgentOf[r]
  IN  /\ at[r] = "out"
      /\ max' = [max EXCEPT ![a] = config[a]]
      /\ Acquire(a, r, "agentWoken", "agentQueue")
      /\ UNCHANGED config

AskGlobal(r) ==
  /\ at[r] = "agentWoken"
  /\ max' = [max EXCEPT ![Global] = GlobalCap]
  /\ Acquire(Global, r, "globalWoken", "globalQueue")
  /\ UNCHANGED config

Run(r) ==
  /\ at[r] = "globalWoken"
  /\ at' = [at EXCEPT ![r] = "running"]
  /\ UNCHANGED <<config, max, active, queues>>

\* releaseSlot when the container run returned or threw: the global slot, then
\* the agent's.
Release(r) ==
  LET a == AgentOf[r]
  IN  /\ at[r] = "running"
      /\ active' = [active EXCEPT ![Global] = Count(Global), ![a] = Count(a)]
      /\ queues' = [queues EXCEPT ![Global] = Rest(Global), ![a] = Rest(a)]
      /\ at' = [q \in Runs |->
           IF q \in Woken(Global) THEN "globalWoken"
           ELSE IF q \in Woken(a) THEN "agentWoken"
           ELSE IF q = r THEN "out" ELSE at[q]]
      /\ UNCHANGED <<config, max>>

\* A hot reload changes an agent's maxConcurrent; its semaphore learns of it at
\* the next acquisition.
Configure(a, n) ==
  /\ config' = [config EXCEPT ![a] = n]
  /\ UNCHANGED <<max, active, queues, at>>

SlotsNext ==
  \/ \E r \in Runs : AskAgent(r) \/ AskGlobal(r) \/ Run(r) \/ Release(r)
  \/ \E a \in Agents, n \in Caps : Configure(a, n)

SlotsSpec == SlotsInit /\ [][SlotsNext]_slotVars

\* The event loop gets to every continuation; a container ends or is killed.
SlotsFairness == \A r \in Runs : WF_slotVars(AskGlobal(r)) /\ WF_slotVars(Run(r)) /\ WF_slotVars(Release(r))

SlotsFairSpec == SlotsSpec /\ SlotsFairness

-----------------------------------------------------------------------------
(* Properties *)

SlotsTypeOK ==
  /\ config \in [Agents -> Caps]
  /\ max \in [Semaphores -> Nat \ {0}]
  /\ active \in [Semaphores -> Nat]
  /\ queues \in [Semaphores -> Seq(Runs)]
  /\ at \in [Runs -> Stage]

HasAgentSlot == {"agentWoken", "globalQueue", "globalWoken", "running"}
HasGlobalSlot == {"globalWoken", "running"}

Holding(s) ==
  IF s = Global THEN {r \in Runs : at[r] \in HasGlobalSlot}
  ELSE {r \in Runs : AgentOf[r] = s /\ at[r] \in HasAgentSlot}

\* Each count is the number of runs that hold a slot of the semaphore, those
\* woken and those queued on the other semaphore included: hand-offs neither
\* leak a slot nor make one.  And at most the global ceiling runs, also while
\* the agents' caps are reloaded.
SlotsSafe ==
  /\ \A s \in Semaphores : active[s] = Cardinality(Holding(s))
  /\ Cardinality({r \in Runs : at[r] = "running"}) <= GlobalCap

\* Every run that asked for its slots runs, though it may hold the one while it
\* waits for the other.
RunsRun == \A r \in Runs : at[r] \in {"agentQueue", "globalQueue"} ~> at[r] = "running"

=============================================================================
