------------------------------ MODULE TaskGraph ------------------------------
(***************************************************************************)
(* run_task_graph (tools/sub-agent.ts): the nodes of a plan are delegated  *)
(* as their dependencies complete; the definition of a running graph, the  *)
(* start markers of its nodes and the session's ledger of completed nodes  *)
(* are kept in Redis (swarm/memory.ts), so that a later call of the same   *)
(* session reuses what is complete and a booting process tells, from what  *)
(* a dead process left behind, which nodes may be run again                *)
(* (swarm/graph-restart.ts).                                               *)
(*                                                                         *)
(* One session; a call of the tool runs in one process.  A store call that *)
(* Redis does not answer uses the process's own map, which dies with it.   *)
(* Node output, artifacts, events and the swarm state shown to the model   *)
(* are left out, and both durable-graph flags are on.                      *)
(***************************************************************************)
EXTENDS Naturals, FiniteSets, Sequences

CONSTANTS
    Calls,        \* calls of run_task_graph in the session
    Processes,
    Home,         \* [Calls -> Processes]
    Nodes,        \* node ids
    Order,        \* [Calls -> Seq(Nodes)]: the nodes of the plan as listed
    Needs,        \* [Calls -> [Nodes -> SUBSET Nodes]]: dependsOn
    Text,         \* [Calls -> [Nodes -> texts]]: the task text
    MaxEntries,   \* LEDGER_MAX_ENTRIES
    CompletedAt,  \* [Calls -> [Nodes -> Nat]]: the time a node completes, on
                  \* the clock of the call's process
    Faulty,       \* those that die or miss Redis in an instance
    MaxCrashes,   \* bound on process deaths
    MaxMisses     \* bound on store calls Redis does not answer

Redis == "redis"
Stores == {Redis} \cup Processes

\* The nodes of a call's plan.
Plan(c) == {Order[c][i] : i \in DOMAIN Order[c]}

\* What validateTaskGraphNodes lets through: cycles are not looked for.
ValidPlan(c) ==
    /\ \A i, j \in DOMAIN Order[c] : Order[c][i] = Order[c][j] => i = j
    /\ \A n \in Plan(c) : Needs[c][n] \subseteq Plan(c) \ {n}

ASSUME CallsAssumption ==
    /\ Home \in [Calls -> Processes]
    /\ Order \in [Calls -> Seq(Nodes)]
    /\ Needs \in [Calls -> [Nodes -> SUBSET Nodes]]
    /\ DOMAIN Text = Calls
    /\ \A c \in Calls : ValidPlan(c)
ASSUME BoundsAssumption ==
    /\ MaxEntries \in Nat \ {0}
    /\ MaxCrashes \in Nat
    /\ MaxMisses \in Nat
\* Which of two entries of the same millisecond is the older is left out.
ASSUME StampsAssumption ==
    /\ CompletedAt \in [Calls -> [Nodes -> Nat]]
    /\ \A c, d \in Calls : \A n \in Plan(c), m \in Plan(d) :
          CompletedAt[c][n] = CompletedAt[d][m] => c = d /\ n = m
ASSUME ProcessesAssumption == Redis \notin Processes /\ Faulty \subseteq Processes

VARIABLES
    phase,      \* of each call: where run_task_graph waits
    status,     \* of each call and node: its place in the tool's local sets
    victims,    \* of each call: the keys read to be evicted
    ledger,     \* in each store: completed nodes, [key, at]
    defs,       \* in each store: definitions of calls under way
    marks,      \* in each store: start markers, <<call, node>>
    landing,    \* start markers sent and not yet stored
    scan,       \* the restart scan of a process that booted
    crashes, misses,
    outlived,   \* history: calls whose definition outlived its deletion
    unmarked,   \* history: <<call, node>> whose marker Redis was never given
    recorded    \* history: the entries Redis was given, with their stamps

tool == <<phase, status, victims>>
store == <<ledger, defs, marks, landing>>
bounds == <<crashes, misses>>
history == <<outlived, unmarked, recorded>>
vars == <<tool, store, scan, bounds, history>>

Phases == {"idle", "lookup", "working", "count", "evict",
           "undefine", "unmark", "ended", "dead"}
Places == {"remaining", "active", "completed", "partial", "reused", "failed",
           "blocked"}

Idle == [stage |-> "off", by |-> Redis, todo |-> {}, open |-> {},
         call |-> {}, known |-> {}]

\* computeTaskGraphNodeKey: the ids of the dependencies, not their text.
Key(c, n) == [id |-> n, text |-> Text[c][n], deps |-> Needs[c][n]]

Running(c) == phase[c] \notin {"idle", "ended", "dead"}

-----------------------------------------------------------------------------
(* The loop of the tool, from one await to the next: it is synchronous.    *)

At(st, places) == {n \in DOMAIN st : st[n] \in places}

Move(st, moved, place) ==
    [n \in DOMAIN st |-> IF n \in moved THEN place ELSE st[n]]

\* blockFailedDependents: one pass in the order of the plan, which sees the
\* nodes it has itself just blocked.
BlockFailedDependents(c, st) ==
    LET pass[i \in 0..Len(Order[c])] ==
          IF i = 0 THEN At(st, {"failed", "blocked"})
          ELSE IF /\ st[Order[c][i]] = "remaining"
                  /\ Needs[c][Order[c][i]] \cap pass[i - 1] # {}
               THEN pass[i - 1] \cup {Order[c][i]}
               ELSE pass[i - 1]
    IN  Move(st, pass[Len(Order[c])] \cap At(st, {"remaining"}), "blocked")

\* Mutant: one completed dependency is enough.
ReadyOnFirst(c, st) ==
    {n \in At(st, {"remaining"}) :
        \/ Needs[c][n] = {}
        \/ Needs[c][n] \cap At(st, {"completed", "partial", "reused"}) # {}}

Ready(c, st) ==
    {n \in At(st, {"remaining"}) :
        Needs[c][n] \subseteq At(st, {"completed", "partial", "reused"})}

\* startReadyNodes.
StartReadyNodes(c, st) == Move(st, Ready(c, st), "active")

\* What has not started when nothing runs waits for itself, and is blocked.
\* Otherwise the head of the next iteration makes its pass; nothing is ready
\* after startReadyNodes, so that its second call finds nothing.
CloseIteration(c, st) ==
    IF At(st, {"active"}) = {}
    THEN Move(st, At(st, {"remaining"}), "blocked")
    ELSE BlockFailedDependents(c, st)

\* Mutant: the loop goes on while nodes remain, also when none can start.
GoOnWhileNodesRemain(c, st) ==
    \E blocked \in {BlockFailedDependents(c, st)} :
    \E next \in {StartReadyNodes(c, blocked)} :
        /\ status' = [status EXCEPT ![c] = next]
        /\ landing' = landing \cup {<<c, n>> : n \in Ready(c, blocked)}
        /\ phase' = [phase EXCEPT ![c] =
             IF At(next, {"active", "remaining"}) = {} THEN "undefine"
                                                       ELSE "working"]

\* The call goes on with the places st: the rest of the iteration, with the
\* markers of the nodes it starts sent and not awaited.  It leaves the loop
\* when nothing runs.
GoOn(c, st) ==
    \E blocked \in {BlockFailedDependents(c, st)} :
    \E started \in {StartReadyNodes(c, blocked)} :
    \E next \in {CloseIteration(c, started)} :
        /\ status' = [status EXCEPT ![c] = next]
        /\ landing' = landing \cup {<<c, n>> : n \in Ready(c, blocked)}
        /\ phase' = [phase EXCEPT ![c] =
             IF At(next, {"active"}) = {} THEN "undefine" ELSE "working"]

-----------------------------------------------------------------------------
Init ==
    /\ phase = [c \in Calls |-> "idle"]
    /\ status = [c \in Calls |-> [n \in Plan(c) |-> "remaining"]]
    /\ victims = [c \in Calls |-> {}]
    /\ ledger = [s \in Stores |-> {}]
    /\ defs = [s \in Stores |-> {}]
    /\ marks = [s \in Stores |-> {}]
    /\ landing = {}
    /\ scan = Idle
    /\ crashes = 0
    /\ misses = 0
    /\ outlived = {}
    /\ unmarked = {}
    /\ recorded = {}

\* A store call of process p is answered by Redis, or uses p's own map.
Uses(p, s) ==
    \/ s = Redis /\ UNCHANGED misses
    \/ s = p /\ p \in Faulty /\ misses < MaxMisses /\ misses' = misses + 1

\* run_task_graph is called: the definition is written first.
WriteDefinition(c, s) ==
    /\ phase[c] = "idle"
    /\ Uses(Home[c], s)
    /\ defs' = [defs EXCEPT ![s] = @ \cup {c}]
    /\ phase' = [phase EXCEPT ![c] = "lookup"]
    /\ UNCHANGED <<status, victims, ledger, marks, landing, scan, crashes,
                   history>>

\* The ledger is read; the nodes whose key it holds are reused, whatever
\* became of the nodes they depend on.
ReuseCompleted(c, s) ==
    /\ phase[c] = "lookup"
    /\ Uses(Home[c], s)
    /\ LET keys == {e.key : e \in ledger[s]}
           hits == {n \in Plan(c) : Key(c, n) \in keys}
       IN  GoOn(c, Move(status[c], hits, "reused"))
    /\ UNCHANGED <<victims, ledger, defs, marks, scan, crashes, history>>

\* A start marker reaches its store.
StoreMarker(c, n, s) ==
    /\ <<c, n>> \in landing
    /\ Uses(Home[c], s)
    /\ landing' = landing \ {<<c, n>>}
    /\ marks' = [marks EXCEPT ![s] = @ \cup {<<c, n>>}]
    /\ unmarked' = IF s = Redis THEN unmarked ELSE unmarked \cup {<<c, n>>}
    /\ UNCHANGED <<tool, ledger, defs, scan, crashes, outlived, recorded>>

\* writeTaskGraphNode: the first writer of a key wins.  The entry carries the
\* time the process read before the write, so that entries may arrive in
\* another order than that of their stamps.
RecordNode(c, n, s) ==
    /\ LET new == {e \in {[key |-> Key(c, n), at |-> CompletedAt[c][n]]} :
                      \A old \in ledger[s] : old.key # e.key}
       IN  /\ ledger' = [ledger EXCEPT ![s] = @ \cup new]
           /\ recorded' = IF s = Redis THEN recorded \cup new ELSE recorded
    /\ phase' = [phase EXCEPT ![c] = "count"]

\* Mutant: a success is recorded whether complete or partial.
SuccessRecorded(c, n, s) ==
    /\ phase[c] = "working"
    /\ status[c][n] = "active"
    /\ Uses(Home[c], s)
    /\ \E place \in {"completed", "partial"} :
         status' = [status EXCEPT ![c][n] = place]
    /\ RecordNode(c, n, s)
    /\ UNCHANGED <<victims, defs, marks, landing, scan, crashes, outlived,
                   unmarked>>

\* A node's delegation returns complete: it is completed and recorded.
NodeCompletes(c, n, s) ==
    /\ phase[c] = "working"
    /\ status[c][n] = "active"
    /\ Uses(Home[c], s)
    /\ status' = [status EXCEPT ![c][n] = "completed"]
    /\ RecordNode(c, n, s)
    /\ UNCHANGED <<victims, defs, marks, landing, scan, crashes, outlived,
                   unmarked>>

\* It returns a partial or still running result: completed for this call,
\* and not recorded.
NodeReturnsPartial(c, n) ==
    /\ phase[c] = "working"
    /\ status[c][n] = "active"
    /\ GoOn(c, [status[c] EXCEPT ![n] = "partial"])
    /\ UNCHANGED <<victims, ledger, defs, marks, scan, bounds, history>>

\* It returns without success.
NodeFails(c, n) ==
    /\ phase[c] = "working"
    /\ status[c][n] = "active"
    /\ GoOn(c, [status[c] EXCEPT ![n] = "failed"])
    /\ UNCHANGED <<victims, ledger, defs, marks, scan, bounds, history>>

\* Mutant: the youngest entries go.
Youngest(entries) ==
    {e \in entries :
        Cardinality({y \in entries : y.at < e.at}) >= MaxEntries}

\* The entries beyond the cap, oldest first.
Oldest(entries) ==
    {e \in entries :
        Cardinality({y \in entries : y.at > e.at}) >= MaxEntries}

\* The ledger is read back to see whether it is over the cap.
CountEntries(c, s) ==
    /\ phase[c] = "count"
    /\ Uses(Home[c], s)
    /\ LET old == {e.key : e \in Oldest(ledger[s])}
       IN  IF old = {}
           THEN GoOn(c, status[c]) /\ UNCHANGED victims
           ELSE /\ victims' = [victims EXCEPT ![c] = old]
                /\ phase' = [phase EXCEPT ![c] = "evict"]
                /\ UNCHANGED <<status, landing>>
    /\ UNCHANGED <<ledger, defs, marks, scan, crashes, history>>

\* deleteTaskGraphNodes: by key, whatever was recorded under it meanwhile.
EvictEntries(c, s) ==
    /\ phase[c] = "evict"
    /\ Uses(Home[c], s)
    /\ ledger' = [ledger EXCEPT ![s] = {e \in @ : e.key \notin victims[c]}]
    /\ victims' = [victims EXCEPT ![c] = {}]
    /\ GoOn(c, status[c])
    /\ UNCHANGED <<defs, marks, scan, crashes, history>>

\* Mutant: the markers are deleted while the definition is still there.
DeleteMarkersFirst(c, s) ==
    /\ phase[c] = "undefine"
    /\ Uses(Home[c], s)
    /\ marks' = [marks EXCEPT ![s] = {m \in @ : m[1] # c}]
    /\ phase' = [phase EXCEPT ![c] = "unmark"]
    /\ UNCHANGED <<status, victims, ledger, defs, landing, scan, crashes,
                   history>>

\* The graph is over: its definition is deleted, then its markers.
DeleteDefinition(c, s) ==
    /\ phase[c] = "undefine"
    /\ Uses(Home[c], s)
    /\ defs' = [defs EXCEPT ![s] = @ \ {c}]
    /\ outlived' = outlived \cup {d \in {c} : \E t \in Stores : d \in defs'[t]}
    /\ phase' = [phase EXCEPT ![c] = "unmark"]
    /\ UNCHANGED <<status, victims, ledger, marks, landing, scan, crashes,
                   unmarked, recorded>>

DeleteMarkers(c, s) ==
    /\ phase[c] = "unmark"
    /\ Uses(Home[c], s)
    /\ marks' = [marks EXCEPT ![s] = {m \in @ : m[1] # c}]
    /\ phase' = [phase EXCEPT ![c] = "ended"]
    /\ UNCHANGED <<status, victims, ledger, defs, landing, scan, crashes,
                   history>>

-----------------------------------------------------------------------------
(* A process dies with its own maps and boots again with a scan armed;     *)
(* another process's calls may go on before that scan reads anything.      *)

Lost(p) == {c \in Calls : Home[c] = p /\ Running(c)}

Crash(p) ==
    /\ p \in Faulty
    /\ crashes < MaxCrashes
    /\ crashes' = crashes + 1
    /\ phase' = [c \in Calls |-> IF c \in Lost(p) THEN "dead" ELSE phase[c]]
    /\ victims' = [c \in Calls |-> IF c \in Lost(p) THEN {} ELSE victims[c]]
    /\ landing' = {m \in landing : Home[m[1]] # p}
    /\ unmarked' = unmarked \cup {m \in landing : Home[m[1]] = p}
    /\ ledger' = [ledger EXCEPT ![p] = {}]
    /\ defs' = [defs EXCEPT ![p] = {}]
    /\ marks' = [marks EXCEPT ![p] = {}]
    /\ scan.stage = "off" \/ scan.by = p
    /\ scan' = [Idle EXCEPT !.stage = "list", !.by = p]
    /\ UNCHANGED <<status, misses, outlived, recorded>>

\* listInterruptedTaskGraphs: every definition there is, its process dead
\* or not.
ListInterrupted(s) ==
    /\ scan.stage = "list"
    /\ Uses(scan.by, s)
    /\ scan' = IF defs[s] = {} THEN Idle
               ELSE [scan EXCEPT !.stage = "pick", !.todo = defs[s],
                                 !.open = {c \in defs[s] : phase[c] # "ended"}]
    /\ UNCHANGED <<tool, store, crashes, history>>

\* planGraphResume: first the node ids of the session's whole ledger.
ReadCompletedIds(c, s) ==
    /\ scan.stage = "pick"
    /\ c \in scan.todo
    /\ Uses(scan.by, s)
    /\ scan' = [scan EXCEPT !.stage = "marks", !.call = {c}, !.todo = @ \ {c},
                            !.known = {e.key.id : e \in ledger[s]}]
    /\ UNCHANGED <<tool, store, crashes, history>>

\* What is not completed, has no marker and depends on nothing incomplete.
Resumable(c, s) ==
    LET started == {m[2] : m \in {y \in marks[s] : y[1] = c}}
        neverStarted == Plan(c) \ (scan.known \cup started)
    IN  {n \in neverStarted : Needs[c][n] \subseteq scan.known}

\* Then its markers, whereupon Resumable is given out as safe to run.
PlanResume(c, s) ==
    /\ scan.stage = "marks"
    /\ scan.call = {c}
    /\ Uses(scan.by, s)
    /\ scan' = IF scan.todo = {} THEN Idle
               ELSE [scan EXCEPT !.stage = "pick", !.call = {}, !.known = {}]
    /\ UNCHANGED <<tool, store, crashes, history>>

-----------------------------------------------------------------------------
ToolStep(c) ==
    \/ \E s \in Stores :
        \/ ReuseCompleted(c, s)
        \/ \E n \in Plan(c) : NodeCompletes(c, n, s)
        \/ CountEntries(c, s)
        \/ EvictEntries(c, s)
        \/ DeleteDefinition(c, s)
        \/ DeleteMarkers(c, s)
    \/ \E n \in Plan(c) :
        \/ NodeReturnsPartial(c, n)
        \/ NodeFails(c, n)

Next ==
    \/ \E c \in Calls :
        \/ ToolStep(c)
        \/ \E s \in Stores : WriteDefinition(c, s)
        \/ \E n \in Plan(c), s \in Stores : StoreMarker(c, n, s)
        \/ \E s \in Stores : ReadCompletedIds(c, s)
        \/ \E s \in Stores : PlanResume(c, s)
    \/ \E s \in Stores : ListInterrupted(s)
    \/ \E p \in Processes : Crash(p)

\* A delegation always returns: its own deadlines see to that.  So does a
\* store call: what Redis does not answer falls back to the process's map.
Fairness == WF_tool(\E c \in Calls : ToolStep(c))

Spec == Init /\ [][Next]_vars /\ Fairness

-----------------------------------------------------------------------------
Done(c) == At(status[c], {"completed", "partial", "reused"})

\* The keys some call of the session really completed.
Completed == UNION {{Key(c, n) : n \in At(status[c], {"completed"})} : c \in Calls}

(* A node is skipped as reused only if some call of the session really     *)
(* completed a node with the same id, text and dependencies: neither a     *)
(* partial result nor another node's entry satisfies it, whichever store   *)
(* the ledger was read from (the hit test of run_task_graph).              *)
ReusedWasDone ==
    \A c \in Calls : \A n \in At(status[c], {"reused"}) :
        Key(c, n) \in Completed

(* A node runs only on completed dependencies; it is blocked only by a     *)
(* failed or blocked one, in whatever order the plan lists them and also   *)
(* when its dependencies form a cycle; and the loop leaves no node behind. *)
BlockedForCause ==
    \A c \in Calls :
        /\ \A n \in At(status[c], {"active", "completed", "partial", "failed"}) :
             Needs[c][n] \subseteq Done(c)
        /\ \A n \in At(status[c], {"blocked"}) :
             Needs[c][n] \cap At(status[c], {"failed", "blocked"}) # {}
        /\ phase[c] \in {"undefine", "unmark", "ended"} =>
             At(status[c], {"remaining", "active"}) = {}

\* No delegation of the node was started by the call, or its start marker,
\* which is sent and not awaited, is on its way or was never given to Redis.
NeverStarted(c, n) ==
    \/ status[c][n] \in {"remaining", "blocked", "reused"}
    \/ <<c, n>> \in landing \cup unmarked

(* What the restart scan gives out as safe to run was never started in its *)
(* graph, so that none of its effects can be out, unless its start marker  *)
(* had not reached Redis; and for each dependency some call of the session *)
(* completed a node of that id, which is all planGraphResume compares.     *)
(* This is so for graphs of dead processes and of live ones, while nodes   *)
(* are recorded and trimmed and graphs end between the reads of            *)
(* planGraphResume, and wherever a process dies between the two deletes    *)
(* that end a graph.  Only two things make a node that ran look as if it   *)
(* never had: its graph ended after it was listed, or the delete of the    *)
(* definition was missed by the store that has it, and that of the markers *)
(* was not (tools/sub-agent.ts:3836-3837).                                 *)
ResumeSafe ==
    scan.stage = "marks" =>
        \A c \in scan.call : \A n \in Resumable(c, Redis) :
            /\ \/ NeverStarted(c, n)
               \/ phase[c] = "ended" /\ c \in scan.open \cup outlived
            /\ \A d \in Needs[c][n] : \E k \in Completed : k.id = d

(* Processes record and trim the shared ledger in separate calls, on what  *)
(* they read before.  Still the MaxEntries newest completions Redis was    *)
(* given, by their stamps, are in it, until a key that was evicted is recorded a second time *)
(* (a trim decided before that then deletes the new entry by its key), or  *)
(* Redis has left more than MaxEntries store calls unanswered (a trim may  *)
(* then be decided on a process's own map and carried out on Redis).       *)
NewestKept ==
    /\ misses <= MaxEntries
    /\ \A x, y \in recorded : x.key = y.key => x = y
    => \A e \in recorded :
           \/ Cardinality({y \in recorded : y.at > e.at}) >= MaxEntries
           \/ e \in ledger[Redis]

(* A call of run_task_graph returns, also when dependencies form a cycle   *)
(* or nodes fail, unless its process dies.                                 *)
EveryGraphEnds == <>[](\A c \in Calls : ~Running(c))
=============================================================================
