--------------------------- MODULE TaskGraphProofs ---------------------------
(***************************************************************************)
(* Proofs about TaskGraph, for every number of calls and processes, every  *)
(* plan and every bound.                                                   *)
(*                                                                         *)
(* Two facts carry them.  The loop of the tool only ever moves nodes that  *)
(* remain, and only to where they run or are blocked (lemma GoOnKeeps): a  *)
(* node that completed stays completed.  And what any store has in its     *)
(* ledger was completed by some call (LedgerDone).                         *)
(***************************************************************************)
EXTENDS TaskGraph, FiniteSetTheorems, TLAPS

Types ==
    /\ DOMAIN status = Calls
    /\ \A c \in Calls : DOMAIN status[c] = Plan(c)
    /\ DOMAIN ledger = Stores
    /\ DOMAIN phase = Calls

\* Nothing has moved before the ledger is read.
Fresh ==
    \A c \in Calls : phase[c] \in {"idle", "lookup"} =>
        \A n \in Plan(c) : status[c][n] = "remaining"

LedgerDone == \A s \in Stores : \A e \in ledger[s] : e.key \in Completed

\* A node runs, and has run, on completed dependencies only.
NoEarlyStart ==
    \A c \in Calls : \A n \in At(status[c], {"active", "completed", "partial", "failed"}) :
        Needs[c][n] \subseteq Done(c)

GraphInv == Types /\ Fresh /\ LedgerDone /\ ReusedWasDone /\ NoEarlyStart

-----------------------------------------------------------------------------
(* The places of one call.                                                 *)

\* From st to nx only remaining nodes moved, to where they run or are blocked.
Keeps(st, nx) ==
    /\ DOMAIN nx = DOMAIN st
    /\ \A n \in DOMAIN st :
         nx[n] = st[n] \/ (st[n] = "remaining" /\ nx[n] \in {"active", "blocked"})

\* What moves is what remains.
LEMMA MoveKeeps ==
    ASSUME NEW st, NEW moved, NEW place \in {"active", "blocked"},
           moved \subseteq At(st, {"remaining"})
    PROVE  Keeps(st, Move(st, moved, place))
BY DEF Keeps, Move, At

LEMMA KeepsTwice ==
    ASSUME NEW a, NEW b, NEW c, Keeps(a, b), Keeps(b, c)
    PROVE  Keeps(a, c)
BY DEF Keeps

\* The pass over the failed dependencies, whatever it finds.
LEMMA BlockKeeps ==
    ASSUME NEW c, NEW st
    PROVE  Keeps(st, BlockFailedDependents(c, st))
<1> DEFINE pass[i \in 0..Len(Order[c])] ==
          IF i = 0 THEN At(st, {"failed", "blocked"})
          ELSE IF /\ st[Order[c][i]] = "remaining"
                  /\ Needs[c][Order[c][i]] \cap pass[i - 1] # {}
               THEN pass[i - 1] \cup {Order[c][i]}
               ELSE pass[i - 1]
<1> DEFINE found == pass[Len(Order[c])] \cap At(st, {"remaining"})
<1>1. BlockFailedDependents(c, st) = Move(st, found, "blocked")
  BY DEF BlockFailedDependents
<1>2. found \subseteq At(st, {"remaining"})  OBVIOUS
<1> HIDE DEF found
<1> QED  BY <1>1, <1>2, MoveKeeps

LEMMA CloseKeeps ==
    ASSUME NEW c, NEW st
    PROVE  Keeps(st, CloseIteration(c, st))
BY BlockKeeps, MoveKeeps DEF CloseIteration

\* A node is started when all it needs is done.
Founded(c, st) ==
    \A n \in At(st, {"active", "completed", "partial", "failed"}) :
        Needs[c][n] \subseteq At(st, {"completed", "partial", "reused"})

LEMMA BlockingKeepsFounded ==
    ASSUME NEW c, NEW st, NEW nx, Keeps(st, nx), Founded(c, st),
           \A n \in DOMAIN st : nx[n] = "active" => st[n] = "active"
    PROVE  Founded(c, nx)
BY DEF Founded, Keeps, At

\* The rest of an iteration moves only what remains, and starts only what has
\* its dependencies.
LEMMA GoOnKeeps ==
    ASSUME NEW c \in Calls, NEW st, GoOn(c, st)
    PROVE  \E nx : /\ status' = [status EXCEPT ![c] = nx]
                   /\ Keeps(st, nx)
                   /\ Founded(c, st) => Founded(c, nx)
                   /\ \E place \in {"undefine", "working"} :
                        phase' = [phase EXCEPT ![c] = place]
<1> DEFINE blocked == BlockFailedDependents(c, st)
           started == StartReadyNodes(c, blocked)
           next == CloseIteration(c, started)
<1>1. /\ status' = [status EXCEPT ![c] = next]
      /\ \E place \in {"undefine", "working"} :
           phase' = [phase EXCEPT ![c] = place]
  BY DEF GoOn
<1>2. Keeps(st, blocked)  BY BlockKeeps
<1>3. Keeps(blocked, started)
  BY MoveKeeps DEF StartReadyNodes, Ready
<1>4. Keeps(started, next)  BY CloseKeeps
<1>5. Keeps(st, next)  BY <1>2, <1>3, <1>4, KeepsTwice
<1>6. ASSUME Founded(c, st) PROVE Founded(c, next)
  <2>1. \A n \in DOMAIN st : blocked[n] = "active" => st[n] = "active"
    BY DEF BlockFailedDependents, Move
  <2>2. Founded(c, blocked)  BY <1>2, <1>6, <2>1, BlockingKeepsFounded
  <2>3. Founded(c, started)
    BY <2>2 DEF Founded, StartReadyNodes, Ready, Move, At
  <2>4. \A n \in DOMAIN started : next[n] = "active" => started[n] = "active"
    BY DEF CloseIteration, BlockFailedDependents, Move
  <2> QED  BY <1>4, <2>3, <2>4, BlockingKeepsFounded
<1> QED  BY <1>1, <1>5, <1>6

-----------------------------------------------------------------------------
(* One call's places change.                                               *)

\* What a step of call c may do to its places: a node that completed stays
\* completed, one is found reused only by a key some ledger holds, and what
\* runs or has run is founded.
Proper(c, nx) ==
    /\ DOMAIN nx = Plan(c)
    /\ \A n \in Plan(c) : status[c][n] = "completed" => nx[n] = "completed"
    /\ \A n \in Plan(c) : nx[n] = "reused" =>
         \/ status[c][n] = "reused"
         \/ \E s \in Stores : \E e \in ledger[s] : e.key = Key(c, n)
    /\ Founded(c, nx)

LEMMA CompletedStays ==
    ASSUME Types, NEW c \in Calls, NEW nx,
           status' = [status EXCEPT ![c] = nx], Proper(c, nx)
    PROVE  Completed \subseteq Completed'
<1> SUFFICES ASSUME NEW d \in Calls, NEW n \in At(status[d], {"completed"})
             PROVE  Key(d, n) \in Completed'
  BY DEF Completed
<1>1. status'[d][n] = "completed" /\ n \in DOMAIN status'[d]
  BY DEF Types, Proper, At
<1>2. n \in At(status'[d], {"completed"})  BY <1>1 DEF At
<1>3. Key(d, n)' = Key(d, n)  BY DEF Key
<1> QED  BY <1>2, <1>3 DEF Completed

\* Such a step keeps everything, if no ledger gains what nobody completed.
LEMMA ProperKeeps ==
    ASSUME GraphInv, NEW c \in Calls, NEW nx,
           status' = [status EXCEPT ![c] = nx], Proper(c, nx),
           NEW place, place \notin {"idle", "lookup"},
           phase' = [phase EXCEPT ![c] = place],
           DOMAIN ledger' = Stores,
           \A s \in Stores : \A e \in ledger'[s] :
               e \in ledger[s] \/ e.key \in Completed'
    PROVE  GraphInv'
<1> USE DEF GraphInv
<1>1. Completed \subseteq Completed'  BY CompletedStays
<1>2. Types'  BY DEF Types, Proper
<1>3. Fresh'  BY DEF Types, Fresh
<1>4. LedgerDone'  BY <1>1 DEF LedgerDone
<1>5. ReusedWasDone'
  <2> SUFFICES ASSUME NEW d \in Calls, NEW n \in At(status'[d], {"reused"})
               PROVE  Key(d, n) \in Completed'
    BY DEF ReusedWasDone, Key
  <2>1. \/ n \in At(status[d], {"reused"})
        \/ \E s \in Stores : \E e \in ledger[s] : e.key = Key(d, n)
    BY DEF Types, Proper, At
  <2> QED  BY <1>1, <2>1 DEF ReusedWasDone, LedgerDone
<1>6. NoEarlyStart'
  <2> SUFFICES ASSUME NEW d \in Calls
               PROVE  Founded(d, status'[d])
    BY DEF NoEarlyStart, Founded, Done
  <2>1. CASE d = c  BY <2>1 DEF Types, Proper
  <2>2. CASE d # c  BY <2>2 DEF Types, NoEarlyStart, Founded, Done
  <2> QED  BY <2>1, <2>2
<1> QED  BY <1>2, <1>3, <1>4, <1>5, <1>6

\* The call goes on without a result.
LEMMA GoOnFrom ==
    ASSUME GraphInv, NEW c \in Calls, NEW st, Proper(c, st), GoOn(c, st),
           DOMAIN ledger' = Stores,
           \A s \in Stores : ledger'[s] \subseteq ledger[s]
    PROVE  GraphInv'
<1>1. PICK nx : /\ status' = [status EXCEPT ![c] = nx]
                /\ Keeps(st, nx)
                /\ Founded(c, st) => Founded(c, nx)
                /\ \E place \in {"undefine", "working"} :
                     phase' = [phase EXCEPT ![c] = place]
  BY GoOnKeeps
<1>2. Proper(c, nx)  BY <1>1 DEF Proper, Keeps
<1> QED  BY <1>1, <1>2, ProperKeeps

\* A call that leaves its places alone.
LEMMA SamePlacesProper ==
    ASSUME GraphInv, NEW c \in Calls
    PROVE  Proper(c, status[c])
BY DEF GraphInv, Types, Proper, NoEarlyStart, Founded, Done

\* Steps that touch no call's places and fill no ledger.
LEMMA QuietKeeps ==
    ASSUME GraphInv, UNCHANGED status,
           DOMAIN ledger' = Stores, DOMAIN phase' = Calls,
           \A s \in Stores : ledger'[s] \subseteq ledger[s],
           \A c \in Calls : phase'[c] \in {"idle", "lookup"} =>
               phase[c] \in {"idle", "lookup"}
    PROVE  GraphInv'
<1> USE DEF GraphInv
<1>1. Completed' = Completed  BY DEF Completed, Key
<1>2. Types' /\ Fresh'  BY DEF Types, Fresh
<1>3. LedgerDone'  BY <1>1 DEF LedgerDone
<1>4. ReusedWasDone' /\ NoEarlyStart'
  BY <1>1 DEF ReusedWasDone, NoEarlyStart, Done, Key
<1> QED  BY <1>2, <1>3, <1>4

-----------------------------------------------------------------------------
LEMMA InitInv == Init => GraphInv
<1> SUFFICES ASSUME Init PROVE GraphInv
  OBVIOUS
<1>1. \A c \in Calls :
        /\ At(status[c], {"reused"}) = {}
        /\ At(status[c], {"active", "completed", "partial", "failed"}) = {}
  BY DEF Init, At
<1>2. Types /\ Fresh /\ LedgerDone  BY DEF Init, Types, Fresh, LedgerDone
<1>3. ReusedWasDone /\ NoEarlyStart
  BY <1>1 DEF ReusedWasDone, NoEarlyStart
<1> QED  BY <1>2, <1>3 DEF GraphInv

LEMMA ReuseInv ==
    ASSUME GraphInv, NEW c \in Calls, NEW s \in Stores, ReuseCompleted(c, s)
    PROVE  GraphInv'
<1> DEFINE hits == {n \in Plan(c) : Key(c, n) \in {e.key : e \in ledger[s]}}
           st == Move(status[c], hits, "reused")
<1>1. \A n \in Plan(c) : status[c][n] = "remaining"
  BY DEF GraphInv, Fresh, ReuseCompleted
<1>2. /\ DOMAIN st = Plan(c)
      /\ \A n \in Plan(c) : st[n] = IF n \in hits THEN "reused" ELSE "remaining"
  BY <1>1 DEF GraphInv, Types, Move
<1>3. \A n \in hits : \E t \in Stores : \E e \in ledger[t] : e.key = Key(c, n)
  OBVIOUS
<1>4. GoOn(c, st) /\ ledger' = ledger  BY DEF ReuseCompleted
<1> HIDE DEF hits, st
<1>5. Proper(c, st)  BY <1>1, <1>2, <1>3 DEF Proper, Founded, At
<1> QED  BY <1>4, <1>5, GoOnFrom DEF GraphInv, Types

\* The result of node n that runs.
LEMMA ResultProper ==
    ASSUME GraphInv, NEW c \in Calls, NEW n \in Plan(c), status[c][n] = "active",
           NEW place \in {"completed", "partial", "failed"}
    PROVE  Proper(c, [status[c] EXCEPT ![n] = place])
<1> DEFINE nx == [status[c] EXCEPT ![n] = place]
<1>1. /\ DOMAIN nx = Plan(c)
      /\ nx[n] = place
      /\ \A m \in Plan(c) \ {n} : nx[m] = status[c][m]
  BY DEF GraphInv, Types
<1>2. Founded(c, status[c])  BY SamePlacesProper DEF Proper
<1> HIDE DEF nx
<1>3. Founded(c, nx)  BY <1>1, <1>2 DEF GraphInv, Types, Founded, At
<1>4. Proper(c, nx)  BY <1>1, <1>3 DEF Proper
<1> QED  BY <1>4 DEF nx

LEMMA CompletesInv ==
    ASSUME GraphInv, NEW c \in Calls, NEW n \in Plan(c), NEW s \in Stores,
           NodeCompletes(c, n, s)
    PROVE  GraphInv'
<1> DEFINE nx == [status[c] EXCEPT ![n] = "completed"]
           new == {e \in {[key |-> Key(c, n), at |-> CompletedAt[c][n]]} :
                      \A old \in ledger[s] : old.key # e.key}
<1>1. /\ status' = [status EXCEPT ![c] = nx]
      /\ phase' = [phase EXCEPT ![c] = "count"]
      /\ ledger' = [ledger EXCEPT ![s] = @ \cup new]
  BY DEF NodeCompletes, RecordNode, GraphInv, Types
<1>2. Proper(c, nx)  BY ResultProper DEF NodeCompletes
<1>3. Key(c, n) \in Completed'
  <2>1. n \in At(status'[c], {"completed"})
    BY <1>1 DEF GraphInv, Types, At
  <2> QED  BY <2>1 DEF Completed, Key
<1>4. \A e \in new : e.key = Key(c, n)  OBVIOUS
<1>5. \A t \in Stores : \A e \in ledger'[t] : e \in ledger[t] \/ e.key \in Completed'
  <2> HIDE DEF new
  <2> QED  BY <1>1, <1>3, <1>4 DEF GraphInv, Types
<1>6. DOMAIN ledger' = Stores  BY <1>1 DEF GraphInv, Types
<1> HIDE DEF nx
<1> QED  BY <1>1, <1>2, <1>5, <1>6, ProperKeeps

LEMMA ReturnsInv ==
    ASSUME GraphInv, NEW c \in Calls, NEW n \in Plan(c),
           NodeReturnsPartial(c, n) \/ NodeFails(c, n)
    PROVE  GraphInv'
<1>1. PICK place \in {"partial", "failed"} :
        GoOn(c, [status[c] EXCEPT ![n] = place])
  BY DEF NodeReturnsPartial, NodeFails
<1>2. status[c][n] = "active" /\ ledger' = ledger
  BY DEF NodeReturnsPartial, NodeFails
<1>3. Proper(c, [status[c] EXCEPT ![n] = place])  BY <1>2, ResultProper
<1> QED  BY <1>1, <1>2, <1>3, GoOnFrom DEF GraphInv, Types

LEMMA TrimInv ==
    ASSUME GraphInv, NEW c \in Calls, NEW s \in Stores,
           CountEntries(c, s) \/ EvictEntries(c, s)
    PROVE  GraphInv'
<1>1. CASE EvictEntries(c, s)
  <2>1. GoOn(c, status[c])  BY <1>1 DEF EvictEntries
  <2>2. /\ DOMAIN ledger' = Stores
        /\ \A t \in Stores : ledger'[t] \subseteq ledger[t]
    BY <1>1 DEF EvictEntries, GraphInv, Types
  <2> QED  BY <2>1, <2>2, SamePlacesProper, GoOnFrom
<1>2. CASE CountEntries(c, s) /\ GoOn(c, status[c])
  BY <1>2, SamePlacesProper, GoOnFrom DEF CountEntries, GraphInv, Types
<1>3. CASE CountEntries(c, s) /\ ~GoOn(c, status[c])
  <2>1. /\ UNCHANGED <<status, ledger>>
        /\ phase' = [phase EXCEPT ![c] = "evict"]
    BY <1>3 DEF CountEntries
  <2> QED  BY <2>1, QuietKeeps DEF GraphInv, Types
<1> QED  BY <1>1, <1>2, <1>3

LEMMA CrashInv ==
    ASSUME GraphInv, NEW p \in Processes, Crash(p)
    PROVE  GraphInv'
<1>1. DOMAIN ledger' = Stores /\ \A t \in Stores : ledger'[t] \subseteq ledger[t]
  BY DEF Crash, GraphInv, Types
<1>2. DOMAIN phase' = Calls /\ UNCHANGED status  BY DEF Crash
<1>3. \A c \in Calls : phase'[c] \in {"idle", "lookup"} =>
         phase[c] \in {"idle", "lookup"}
  BY DEF Crash
<1> QED  BY <1>1, <1>2, <1>3, QuietKeeps

\* The definition and the markers are written and deleted, the scan reads.
LEMMA OtherInv ==
    ASSUME GraphInv, NEW c \in Calls, NEW s \in Stores, NEW n,
           \/ WriteDefinition(c, s)
           \/ StoreMarker(c, n, s)
           \/ DeleteDefinition(c, s)
           \/ DeleteMarkers(c, s)
           \/ ReadCompletedIds(c, s)
           \/ PlanResume(c, s)
    PROVE  GraphInv'
<1>1. UNCHANGED <<status, ledger>>
  BY DEF WriteDefinition, StoreMarker, DeleteDefinition, DeleteMarkers,
         ReadCompletedIds, PlanResume, tool, store
<1>2. \/ UNCHANGED phase
      \/ phase[c] = "idle" /\ phase' = [phase EXCEPT ![c] = "lookup"]
      \/ phase' = [phase EXCEPT ![c] = "unmark"]
      \/ phase' = [phase EXCEPT ![c] = "ended"]
  BY DEF WriteDefinition, StoreMarker, DeleteDefinition, DeleteMarkers,
         ReadCompletedIds, PlanResume, tool
<1>3. /\ DOMAIN phase' = Calls
      /\ \A d \in Calls : phase'[d] \in {"idle", "lookup"} =>
           phase[d] \in {"idle", "lookup"}
  BY <1>2 DEF GraphInv, Types
<1> QED  BY <1>1, <1>3, QuietKeeps DEF GraphInv, Types

LEMMA StepInv == GraphInv /\ [Next]_vars => GraphInv'
<1> SUFFICES ASSUME GraphInv, [Next]_vars PROVE GraphInv'
  OBVIOUS
<1>1. CASE UNCHANGED vars
  BY <1>1, QuietKeeps DEF vars, tool, store, GraphInv, Types
<1>2. ASSUME NEW c \in Calls, ToolStep(c) PROVE GraphInv'
  BY <1>2, ReuseInv, CompletesInv, ReturnsInv, TrimInv, OtherInv DEF ToolStep
<1>3. ASSUME NEW s \in Stores, ListInterrupted(s) PROVE GraphInv'
  BY <1>3, QuietKeeps DEF ListInterrupted, tool, store, GraphInv, Types
<1> QED  BY <1>1, <1>2, <1>3, OtherInv, CrashInv DEF Next

\* The invariant, for every plan and any number of calls and processes.
THEOREM GraphInvariant == Spec => []GraphInv
BY InitInv, StepInv, PTL DEF Spec

(* What a call reuses from the ledger was really completed by some call of *)
(* the session under the same id, text and dependencies, through misses of *)
(* Redis, trims by other processes and crashes.                            *)
THEOREM ReusedReallyDone == Spec => []ReusedWasDone
<1>1. GraphInv => ReusedWasDone  BY DEF GraphInv
<1> QED  BY <1>1, GraphInvariant, PTL

(* No node is started before every node it depends on is done.             *)
THEOREM StartedWhenReady == Spec => []NoEarlyStart
<1>1. GraphInv => NoEarlyStart  BY DEF GraphInv
<1> QED  BY <1>1, GraphInvariant, PTL

-----------------------------------------------------------------------------
(* Why nodes are blocked.                                                  *)

\* Induction over the natural numbers, for a property given as a set.
LEMMA SetInduction ==
    ASSUME NEW S, 0 \in S, \A n \in Nat : n \in S => n + 1 \in S
    PROVE  Nat \subseteq S
<1> SUFFICES ASSUME Nat \ S # {} PROVE FALSE
  OBVIOUS
<1> DEFINE less == OpToRel(<, Nat)
<1>1. IsWellFoundedOn(less, Nat)  BY NatLessThanWellFounded
<1>2. \A y, x \in Nat : y < x => <<y, x>> \in less  BY DEF OpToRel
<1> HIDE DEF less
<1>3. PICK x \in Nat \ S : \A y \in Nat \ S : ~(<<y, x>> \in less)
  BY <1>1, WFMin
<1>4. x # 0  OBVIOUS
<1>5. x - 1 \in Nat /\ x - 1 < x /\ (x - 1) + 1 = x  BY <1>4
<1>6. x - 1 \in S  BY <1>2, <1>3, <1>5
<1> QED  BY <1>3, <1>5, <1>6

\* One step of the pass over the plan, and what the pass has found: g gives
\* what it had found before.
PassStep(c, st, g, i) ==
    IF i = 0 THEN At(st, {"failed", "blocked"})
    ELSE IF /\ st[Order[c][i]] = "remaining"
            /\ Needs[c][Order[c][i]] \cap g[i - 1] # {}
         THEN g[i - 1] \cup {Order[c][i]}
         ELSE g[i - 1]

\* There is such a pass, of any length.
LEMMA PassExists ==
    ASSUME NEW c, NEW st, NEW len \in Nat
    PROVE  \E g : g = [i \in 0..len |-> PassStep(c, st, g, i)]
<1> DEFINE Upto(n, g) == g = [i \in 0..n |-> PassStep(c, st, g, i)]
           S == {n \in Nat : \E g : Upto(n, g)}
<1>1. 0 \in S
  <2> DEFINE g == [i \in 0..0 |-> At(st, {"failed", "blocked"})]
  <2>1. Upto(0, g)  BY DEF PassStep
  <2> QED  BY <2>1
<1>2. ASSUME NEW n \in Nat, n \in S PROVE n + 1 \in S
  <2>1. PICK g : Upto(n, g)  BY <1>2
  <2> DEFINE new == PassStep(c, st, g, n + 1)
             h == [i \in 0..n + 1 |-> IF i = n + 1 THEN new ELSE g[i]]
  <2>2. \A i \in 0..n : g[i] = PassStep(c, st, g, i)  BY <2>1
  <2>3. \A i \in 0..n : i \in 0..n + 1 /\ i # n + 1 /\ (i # 0 => i - 1 \in 0..n)
    OBVIOUS
  <2>4. \A i \in 0..n : h[i] = g[i]  BY <2>3
  <2>5. \A i \in 0..n : PassStep(c, st, h, i) = PassStep(c, st, g, i)
    BY <2>3, <2>4 DEF PassStep
  <2>6. h[n + 1] = new  OBVIOUS
  <2>7. (n + 1) - 1 = n /\ n \in 0..n /\ n + 1 # 0  OBVIOUS
  <2> HIDE DEF h
  <2>8. PassStep(c, st, h, n + 1) = PassStep(c, st, g, n + 1)
    BY <2>4, <2>7 DEF PassStep
  <2>9. \A i \in 0..n + 1 : i \in 0..n \/ i = n + 1  OBVIOUS
  <2> HIDE DEF new
  <2>10. \A i \in 0..n + 1 : h[i] = PassStep(c, st, h, i)
    BY <2>2, <2>4, <2>5, <2>6, <2>8, <2>9 DEF new
  <2>11. h = [i \in 0..n + 1 |-> h[i]]  BY DEF h
  <2>12. Upto(n + 1, h)  BY <2>10, <2>11
  <2> HIDE DEF Upto
  <2>13. \E f : Upto(n + 1, f)  BY <2>12
  <2> QED  BY <2>13
<1> HIDE DEF S
<1>3. Nat \subseteq S  BY <1>1, <1>2, SetInduction
<1>4. len \in S  BY <1>3
<1> QED  BY <1>4 DEF S

\* blockFailedDependents blocks remaining nodes only, and each for a failed
\* or blocked node it depends on, in whatever order the plan lists them.
LEMMA PassBlocksForCause ==
    ASSUME NEW c \in Calls, NEW st, DOMAIN st = Plan(c)
    PROVE  LET nx == BlockFailedDependents(c, st)
           IN  \A n \in Plan(c) :
                 \/ nx[n] = st[n]
                 \/ /\ st[n] = "remaining"
                    /\ nx[n] = "blocked"
                    /\ Needs[c][n] \cap At(nx, {"failed", "blocked"}) # {}
<1> DEFINE len == Len(Order[c])
           pass[i \in 0..len] ==
             IF i = 0 THEN At(st, {"failed", "blocked"})
             ELSE IF /\ st[Order[c][i]] = "remaining"
                     /\ Needs[c][Order[c][i]] \cap pass[i - 1] # {}
                  THEN pass[i - 1] \cup {Order[c][i]}
                  ELSE pass[i - 1]
           found == pass[len] \cap At(st, {"remaining"})
           nx == BlockFailedDependents(c, st)
           Sound(P) == \A n \in P :
             \/ n \in At(st, {"failed", "blocked"})
             \/ n \in At(st, {"remaining"}) /\ Needs[c][n] \cap P # {}
<1>1. nx = Move(st, found, "blocked")  BY DEF BlockFailedDependents
<1>2. Order[c] \in Seq(Nodes) /\ len \in Nat  BY CallsAssumption
<1>3. \A i \in 0..len : pass[i] = PassStep(c, st, pass, i)
  <2>1. pass = CHOOSE g : g = [i \in 0..len |-> PassStep(c, st, g, i)]
    BY DEF PassStep
  <2> HIDE DEF pass, len
  <2>2. pass = [i \in 0..len |-> PassStep(c, st, pass, i)]
    BY <1>2, <2>1, PassExists
  <2> QED  BY <2>2
<1>4. \A i \in 1..len : Order[c][i] \in Plan(c)  BY <1>2 DEF Plan
<1> HIDE DEF pass, nx
<1>5. \A i \in 0..len : Sound(pass[i])
  <2> DEFINE S == {i \in Nat : i <= len => Sound(pass[i])}
  <2>1. 0 \in S
    <3>1. pass[0] = PassStep(c, st, pass, 0)  BY <1>2, <1>3
    <3>2. pass[0] = At(st, {"failed", "blocked"})  BY <3>1 DEF PassStep
    <3> QED  BY <3>2
  <2>2. ASSUME NEW i \in Nat, i \in S PROVE i + 1 \in S
    <3> SUFFICES ASSUME i + 1 <= len PROVE Sound(pass[i + 1])
      OBVIOUS
    <3>1. i \in 0..len /\ i + 1 \in 1..len /\ i + 1 \in 0..len /\ i + 1 # 0
          /\ (i + 1) - 1 = i
      BY <1>2
    <3>2. Sound(pass[i])  BY <2>2, <3>1
    <3> DEFINE m == Order[c][i + 1]
    <3>3. m \in Plan(c)  BY <1>4, <3>1
    <3>4. pass[i + 1] =
            IF st[m] = "remaining" /\ Needs[c][m] \cap pass[i] # {}
            THEN pass[i] \cup {m} ELSE pass[i]
      BY <1>3, <3>1 DEF PassStep
    <3> HIDE DEF m
    <3> QED  BY <3>2, <3>3, <3>4 DEF At
  <2> HIDE DEF S
  <2>3. Nat \subseteq S  BY <2>1, <2>2, SetInduction
  <2> QED  BY <1>2, <2>3 DEF S
<1>6. Sound(pass[len])  BY <1>2, <1>5
<1>7. pass[len] \subseteq At(nx, {"failed", "blocked"})
  BY <1>1, <1>6 DEF Move, At
<1>8. ASSUME NEW n \in Plan(c), nx[n] # st[n]
      PROVE  /\ st[n] = "remaining"
             /\ nx[n] = "blocked"
             /\ Needs[c][n] \cap At(nx, {"failed", "blocked"}) # {}
  <2>1. n \in found /\ nx[n] = "blocked"  BY <1>1, <1>8 DEF Move
  <2>2. n \in pass[len] /\ st[n] = "remaining"  BY <2>1 DEF At
  <2>3. Needs[c][n] \cap pass[len] # {}  BY <1>6, <2>2 DEF At
  <2> QED  BY <1>7, <2>1, <2>2, <2>3
<1> QED  BY <1>8 DEF nx

\* Every blocked node has a failed or blocked one among those it depends on.
Caused(c, st) ==
    \A n \in At(st, {"blocked"}) :
        Needs[c][n] \cap At(st, {"failed", "blocked"}) # {}

Over == {"undefine", "unmark", "ended"}

CauseInv ==
    /\ \A c \in Calls : status[c] \in [Plan(c) -> Places]
    /\ \A c \in Calls : Caused(c, status[c])
    /\ \A c \in Calls : phase[c] \in Over =>
         At(status[c], {"remaining", "active"}) = {}

LEMMA BlockingIsCaused ==
    ASSUME NEW c \in Calls, NEW st \in [Plan(c) -> Places], Caused(c, st)
    PROVE  LET nx == BlockFailedDependents(c, st)
           IN  /\ nx \in [Plan(c) -> Places]
               /\ Caused(c, nx)
               /\ At(nx, {"active"}) = At(st, {"active"})
<1> DEFINE nx == BlockFailedDependents(c, st)
<1>1. \A n \in Plan(c) :
        \/ nx[n] = st[n]
        \/ /\ st[n] = "remaining"
           /\ nx[n] = "blocked"
           /\ Needs[c][n] \cap At(nx, {"failed", "blocked"}) # {}
  BY PassBlocksForCause
<1>2. DOMAIN nx = Plan(c) /\ nx = [n \in Plan(c) |-> nx[n]]
  BY DEF BlockFailedDependents, Move
<1> HIDE DEF nx
<1>3. At(st, {"failed", "blocked"}) \subseteq At(nx, {"failed", "blocked"})
  BY <1>1, <1>2 DEF At
<1>4. ASSUME NEW n \in At(nx, {"blocked"})
      PROVE  Needs[c][n] \cap At(nx, {"failed", "blocked"}) # {}
  BY <1>1, <1>2, <1>3, <1>4 DEF Caused, At
<1>5. At(nx, {"active"}) = At(st, {"active"})  BY <1>1, <1>2 DEF At
<1>6. nx \in [Plan(c) -> Places]  BY <1>1, <1>2 DEF Places
<1> QED  BY <1>4, <1>5, <1>6 DEF Caused, nx

\* What is neither ready nor running when nothing runs waits for a node that
\* failed, is blocked, or remains as well.
LEMMA StuckIsCaused ==
    ASSUME NEW c \in Calls, NEW st \in [Plan(c) -> Places], Caused(c, st),
           At(st, {"active"}) = {}, Ready(c, st) = {}
    PROVE  LET nx == Move(st, At(st, {"remaining"}), "blocked")
           IN  /\ nx \in [Plan(c) -> Places]
               /\ Caused(c, nx)
               /\ At(nx, {"remaining", "active"}) = {}
<1> DEFINE nx == Move(st, At(st, {"remaining"}), "blocked")
<1>1. /\ nx \in [Plan(c) -> Places]
      /\ \A n \in Plan(c) : nx[n] = IF st[n] = "remaining" THEN "blocked" ELSE st[n]
  BY DEF Move, At, Places
<1> HIDE DEF nx
<1>2. At(nx, {"remaining", "active"}) = {}  BY <1>1 DEF At
<1>3. ASSUME NEW n \in At(nx, {"blocked"})
      PROVE  Needs[c][n] \cap At(nx, {"failed", "blocked"}) # {}
  <2>1. n \in Plan(c) /\ st[n] \in {"remaining", "blocked"}  BY <1>1, <1>3 DEF At
  <2>2. CASE st[n] = "blocked"
    BY <1>1, <2>1, <2>2 DEF Caused, At
  <2>3. CASE st[n] = "remaining"
    <3>1. PICK d \in Needs[c][n] : d \notin At(st, {"completed", "partial", "reused"})
      BY <2>1, <2>3 DEF Ready, At
    <3>2. d \in Plan(c)  BY <2>1, CallsAssumption DEF ValidPlan
    <3>3. st[d] \in {"remaining", "failed", "blocked"}
      BY <3>1, <3>2 DEF At, Places
    <3>4. d \in At(nx, {"failed", "blocked"})  BY <1>1, <3>2, <3>3 DEF At
    <3> QED  BY <3>1, <3>4
  <2> QED  BY <2>1, <2>2, <2>3
<1> QED  BY <1>1, <1>2, <1>3 DEF Caused, nx

\* The rest of an iteration keeps what is blocked for a cause, and leaves the
\* loop only with every node settled.
LEMMA GoOnIsCaused ==
    ASSUME NEW c \in Calls, NEW st \in [Plan(c) -> Places], Caused(c, st), GoOn(c, st)
    PROVE  \E nx \in [Plan(c) -> Places] :
             /\ status' = [status EXCEPT ![c] = nx]
             /\ Caused(c, nx)
             /\ \/ phase' = [phase EXCEPT ![c] = "working"]
                \/ /\ phase' = [phase EXCEPT ![c] = "undefine"]
                   /\ At(nx, {"remaining", "active"}) = {}
<1> DEFINE blocked == BlockFailedDependents(c, st)
           started == StartReadyNodes(c, blocked)
           next == CloseIteration(c, started)
<1>1. /\ status' = [status EXCEPT ![c] = next]
      /\ phase' = [phase EXCEPT ![c] =
           IF At(next, {"active"}) = {} THEN "undefine" ELSE "working"]
  BY DEF GoOn
<1>2. blocked \in [Plan(c) -> Places] /\ Caused(c, blocked)  BY BlockingIsCaused
<1> HIDE DEF blocked
<1>3. /\ started \in [Plan(c) -> Places]
      /\ \A n \in Plan(c) :
           started[n] = IF n \in Ready(c, blocked) THEN "active" ELSE blocked[n]
      /\ \A n \in Ready(c, blocked) : n \in Plan(c) /\ blocked[n] = "remaining"
  BY <1>2 DEF StartReadyNodes, Move, Places, Ready, At
<1>4. Caused(c, started)  BY <1>2, <1>3 DEF Caused, At
<1>5. CASE At(started, {"active"}) = {}
  <2>1. Ready(c, blocked) = {}  BY <1>3, <1>5 DEF At
  <2>2. \A n \in Plan(c) : started[n] = blocked[n]  BY <1>3, <2>1
  <2>3. started = blocked  BY <1>2, <1>3, <2>2
  <2>4. Ready(c, started) = {}  BY <2>1, <2>3
  <2>5. next = Move(started, At(started, {"remaining"}), "blocked")
    BY <1>5 DEF CloseIteration
  <2> HIDE DEF started, next
  <2>6. /\ next \in [Plan(c) -> Places]
        /\ Caused(c, next)
        /\ At(next, {"remaining", "active"}) = {}
    BY <1>3, <1>4, <1>5, <2>4, <2>5, StuckIsCaused
  <2>7. At(next, {"active"}) = {}  BY <2>6 DEF At
  <2> QED  BY <1>1, <2>6, <2>7
<1>6. CASE At(started, {"active"}) # {}
  <2>1. next = BlockFailedDependents(c, started)  BY <1>6 DEF CloseIteration
  <2> HIDE DEF started, next
  <2>2. /\ next \in [Plan(c) -> Places]
        /\ Caused(c, next)
        /\ At(next, {"active"}) # {}
    BY <1>3, <1>4, <1>6, <2>1, BlockingIsCaused
  <2> QED  BY <1>1, <2>2
<1> QED  BY <1>5, <1>6

\* What call c may know when its loop goes on: what it knew, hits in the
\* ledger, or the end of a node that ran.
Result(c, st) ==
    \/ st = status[c]
    \/ /\ phase[c] = "lookup"
       /\ \E hits \in SUBSET Plan(c) : st = Move(status[c], hits, "reused")
    \/ \E n \in Plan(c), place \in {"partial", "failed"} :
         status[c][n] = "active" /\ st = [status[c] EXCEPT ![n] = place]

\* How the places of nodes change in a step.
LEMMA PlacesChange ==
    ASSUME GraphInv, [Next]_vars
    PROVE  \/ /\ UNCHANGED status
              /\ \A c \in Calls : phase'[c] \in Over => phase[c] \in Over
           \/ \E c \in Calls : \E st : Result(c, st) /\ GoOn(c, st)
           \/ \E c \in Calls : \E n \in Plan(c) :
                /\ status[c][n] = "active"
                /\ status' = [status EXCEPT ![c] = [status[c] EXCEPT ![n] = "completed"]]
                /\ phase' = [phase EXCEPT ![c] = "count"]
<1> DEFINE Goal == \/ /\ UNCHANGED status
                      /\ \A c \in Calls : phase'[c] \in Over => phase[c] \in Over
                   \/ \E c \in Calls : \E st : Result(c, st) /\ GoOn(c, st)
                   \/ \E c \in Calls : \E n \in Plan(c) :
                        /\ status[c][n] = "active"
                        /\ status' = [status EXCEPT ![c] = [status[c] EXCEPT ![n] = "completed"]]
                        /\ phase' = [phase EXCEPT ![c] = "count"]
<1> USE DEF Over
<1>0. DOMAIN phase = Calls /\ DOMAIN status = Calls  BY DEF GraphInv, Types
<1>1. ASSUME UNCHANGED vars PROVE Goal  BY <1>1 DEF vars, tool
<1>2. ASSUME NEW c \in Calls, NEW s \in Stores, ReuseCompleted(c, s) PROVE Goal
  <2> DEFINE hits == {n \in Plan(c) : Key(c, n) \in {e.key : e \in ledger[s]}}
             st == Move(status[c], hits, "reused")
  <2>1. phase[c] = "lookup" /\ GoOn(c, st)  BY <1>2 DEF ReuseCompleted
  <2>2. hits \in SUBSET Plan(c)  OBVIOUS
  <2> HIDE DEF hits
  <2>3. Result(c, st)  BY <2>1, <2>2 DEF Result
  <2> QED  BY <2>1, <2>3
<1>3. ASSUME NEW c \in Calls, NEW n \in Plan(c), NEW s \in Stores, NodeCompletes(c, n, s)
      PROVE  Goal
  BY <1>0, <1>3 DEF NodeCompletes, RecordNode
<1>4. ASSUME NEW c \in Calls, NEW n \in Plan(c),
             NodeReturnsPartial(c, n) \/ NodeFails(c, n)
      PROVE  Goal
  <2>1. PICK place \in {"partial", "failed"} :
          GoOn(c, [status[c] EXCEPT ![n] = place])
    BY <1>4 DEF NodeReturnsPartial, NodeFails
  <2>2. status[c][n] = "active"  BY <1>4 DEF NodeReturnsPartial, NodeFails
  <2>3. Result(c, [status[c] EXCEPT ![n] = place])  BY <2>2 DEF Result
  <2> QED  BY <2>1, <2>3
<1>5. ASSUME NEW c \in Calls, NEW s \in Stores,
             CountEntries(c, s) \/ EvictEntries(c, s)
      PROVE  Goal
  <2>1. CASE GoOn(c, status[c])  BY <2>1 DEF Result
  <2>2. CASE ~GoOn(c, status[c])
    <3>1. UNCHANGED status /\ phase' = [phase EXCEPT ![c] = "evict"]
      BY <1>5, <2>2 DEF CountEntries, EvictEntries
    <3> QED  BY <1>0, <3>1
  <2> QED  BY <2>1, <2>2
<1>6. ASSUME NEW c \in Calls, NEW s \in Stores, NEW n,
             \/ WriteDefinition(c, s)
             \/ StoreMarker(c, n, s)
             \/ DeleteDefinition(c, s)
             \/ DeleteMarkers(c, s)
             \/ ReadCompletedIds(c, s)
             \/ PlanResume(c, s)
      PROVE  Goal
  <2>1. UNCHANGED status
    BY <1>6 DEF WriteDefinition, StoreMarker, DeleteDefinition, DeleteMarkers,
                ReadCompletedIds, PlanResume, tool, store
  <2>2. \/ UNCHANGED phase
        \/ phase' = [phase EXCEPT ![c] = "lookup"]
        \/ phase[c] \in Over /\ phase' = [phase EXCEPT ![c] = "unmark"]
        \/ phase[c] \in Over /\ phase' = [phase EXCEPT ![c] = "ended"]
    BY <1>6 DEF WriteDefinition, StoreMarker, DeleteDefinition, DeleteMarkers,
                ReadCompletedIds, PlanResume, tool
  <2> QED  BY <1>0, <2>1, <2>2
<1>7. ASSUME NEW s \in Stores, ListInterrupted(s) PROVE Goal
  BY <1>7 DEF ListInterrupted, tool
<1>8. ASSUME NEW p \in Processes, Crash(p) PROVE Goal
  BY <1>8 DEF Crash
<1> HIDE DEF Goal
<1>9. ASSUME NEW c \in Calls, ToolStep(c) PROVE Goal
  <2> QED  BY <1>2, <1>3, <1>4, <1>5, <1>6, <1>9 DEF ToolStep
<1>10. Goal
  <2>1. CASE Next
    <3>1. ASSUME NEW c \in Calls,
                 \/ \E s \in Stores : WriteDefinition(c, s)
                 \/ \E n \in Plan(c), s \in Stores : StoreMarker(c, n, s)
                 \/ \E s \in Stores : ReadCompletedIds(c, s)
                 \/ \E s \in Stores : PlanResume(c, s)
          PROVE  Goal
      BY <1>6, <3>1
    <3> QED  BY <1>7, <1>8, <1>9, <2>1, <3>1 DEF Next
  <2> QED  BY <1>1, <2>1
<1> QED  BY <1>10 DEF Goal

\* A result has places of its own, and nothing blocked without a cause.
LEMMA ResultIsCaused ==
    ASSUME GraphInv, CauseInv, NEW c \in Calls, NEW st, Result(c, st)
    PROVE  st \in [Plan(c) -> Places] /\ Caused(c, st)
<1>1. status[c] \in [Plan(c) -> Places] /\ Caused(c, status[c])  BY DEF CauseInv
<1>2. ASSUME phase[c] = "lookup", NEW hits \in SUBSET Plan(c),
             st = Move(status[c], hits, "reused")
      PROVE  st \in [Plan(c) -> Places] /\ Caused(c, st)
  <2>1. \A n \in Plan(c) : status[c][n] = "remaining"
    BY <1>2 DEF GraphInv, Fresh
  <2>2. /\ st \in [Plan(c) -> Places]
        /\ \A n \in Plan(c) : st[n] \in {"reused", "remaining"}
    BY <1>1, <1>2, <2>1 DEF Move, Places
  <2> QED  BY <2>2 DEF Caused, At
<1>3. ASSUME NEW n \in Plan(c), NEW place \in {"partial", "failed"},
             status[c][n] = "active", st = [status[c] EXCEPT ![n] = place]
      PROVE  st \in [Plan(c) -> Places] /\ Caused(c, st)
  <2>1. /\ st \in [Plan(c) -> Places]
        /\ st[n] = place /\ \A m \in Plan(c) \ {n} : st[m] = status[c][m]
    BY <1>1, <1>3 DEF Places
  <2>2. At(status[c], {"failed", "blocked"}) \subseteq At(st, {"failed", "blocked"})
        /\ At(st, {"blocked"}) = At(status[c], {"blocked"})
    BY <1>1, <1>3, <2>1 DEF At
  <2> QED  BY <1>1, <2>1, <2>2 DEF Caused
<1> QED  BY <1>1, <1>2, <1>3 DEF Result

LEMMA InitCause == Init => CauseInv
<1> SUFFICES ASSUME Init, NEW c \in Calls
             PROVE  /\ status[c] \in [Plan(c) -> Places]
                    /\ Caused(c, status[c])
                    /\ phase[c] \notin Over
  BY DEF CauseInv
<1>1. /\ status[c] = [n \in Plan(c) |-> "remaining"]
      /\ phase[c] = "idle"
  BY DEF Init
<1> QED  BY <1>1 DEF Caused, At, Places, Over

LEMMA StepCause ==
    ASSUME GraphInv, CauseInv, [Next]_vars
    PROVE  CauseInv'
<1>0. DOMAIN phase = Calls /\ DOMAIN status = Calls  BY DEF GraphInv, Types
<1>1. CASE /\ UNCHANGED status
           /\ \A c \in Calls : phase'[c] \in Over => phase[c] \in Over
  <2>1. \A c \in Calls : Caused(c, status'[c]) <=> Caused(c, status[c])
    BY <1>1
  <2> QED  BY <1>1, <2>1 DEF CauseInv
<1>2. ASSUME NEW c \in Calls, NEW st, Result(c, st), GoOn(c, st) PROVE CauseInv'
  <2>1. PICK nx \in [Plan(c) -> Places] :
          /\ status' = [status EXCEPT ![c] = nx]
          /\ Caused(c, nx)
          /\ \/ phase' = [phase EXCEPT ![c] = "working"]
             \/ /\ phase' = [phase EXCEPT ![c] = "undefine"]
                /\ At(nx, {"remaining", "active"}) = {}
    BY <1>2, ResultIsCaused, GoOnIsCaused
  <2>2. /\ status'[c] = nx
        /\ \A d \in Calls \ {c} : status'[d] = status[d] /\ phase'[d] = phase[d]
        /\ phase'[c] \in Over => At(nx, {"remaining", "active"}) = {}
    BY <1>0, <2>1 DEF Over
  <2>3. \A d \in Calls : /\ status'[d] \in [Plan(d) -> Places]
                         /\ Caused(d, status'[d])
                         /\ phase'[d] \in Over => At(status'[d], {"remaining", "active"}) = {}
    BY <2>1, <2>2 DEF CauseInv
  <2> QED  BY <2>3 DEF CauseInv
<1>3. ASSUME NEW c \in Calls, NEW n \in Plan(c), status[c][n] = "active",
             status' = [status EXCEPT ![c] = [status[c] EXCEPT ![n] = "completed"]],
             phase' = [phase EXCEPT ![c] = "count"]
      PROVE  CauseInv'
  <2> DEFINE nx == [status[c] EXCEPT ![n] = "completed"]
  <2>0. status[c] \in [Plan(c) -> Places]  BY DEF CauseInv
  <2>1. /\ nx \in [Plan(c) -> Places]
        /\ nx[n] = "completed" /\ \A m \in Plan(c) \ {n} : nx[m] = status[c][m]
    BY <2>0 DEF Places
  <2> HIDE DEF nx
  <2>2. /\ At(nx, {"blocked"}) = At(status[c], {"blocked"})
        /\ At(nx, {"failed", "blocked"}) = At(status[c], {"failed", "blocked"})
    BY <1>3, <2>0, <2>1 DEF At
  <2>3. Caused(c, nx)  BY <2>2 DEF CauseInv, Caused
  <2>4. /\ status'[c] = nx /\ phase'[c] \notin Over
        /\ \A d \in Calls \ {c} : status'[d] = status[d] /\ phase'[d] = phase[d]
    BY <1>0, <1>3 DEF Over, nx
  <2>5. \A d \in Calls : /\ status'[d] \in [Plan(d) -> Places]
                         /\ Caused(d, status'[d])
                         /\ phase'[d] \in Over => At(status'[d], {"remaining", "active"}) = {}
    BY <2>1, <2>3, <2>4 DEF CauseInv
  <2> QED  BY <2>5 DEF CauseInv
<1> QED  BY <1>1, <1>2, <1>3, PlacesChange

(* A node runs on completed dependencies, is blocked only by a failed or   *)
(* blocked one, in whatever order the plan lists them and also when they   *)
(* wait for each other, and no loop ends with a node left over.            *)
THEOREM BlockedOnlyForCause == Spec => []BlockedForCause
<1>1. GraphInv /\ CauseInv => BlockedForCause
  BY DEF GraphInv, CauseInv, BlockedForCause, NoEarlyStart, Caused, Over
<1>2. Spec => []CauseInv
  BY InitCause, StepCause, GraphInvariant, PTL DEF Spec
<1> QED  BY <1>1, <1>2, GraphInvariant, PTL

-----------------------------------------------------------------------------
(* What a restart scan gives out.                                          *)

\* Places of nodes whose delegation was started.
Begun == {"active", "completed", "partial", "failed"}

\* A trace of the start: stored in Redis, on its way, or given up.
Marked(c, n) == <<c, n>> \in marks[Redis] \cup landing \cup unmarked

MarkInv ==
    /\ DOMAIN marks = Stores
    /\ \A c \in Calls : phase[c] # "ended" =>
         \A n \in At(status[c], Begun) : Marked(c, n)

\* A call that is over has no definition left, unless its deletion was missed.
Leaving == {"unmark", "ended"}
DefsInv ==
    /\ DOMAIN defs = Stores
    /\ \A s \in Stores : defs[s] \subseteq Calls
    /\ \A c \in Calls : phase[c] \in Leaving =>
         c \in outlived \/ \A s \in Stores : c \notin defs[s]

ScanInv ==
    /\ DOMAIN scan = DOMAIN Idle
    /\ scan.call \subseteq Calls
    /\ scan.stage = "list" => scan.call = {}
    /\ scan.todo \cup scan.call \subseteq scan.open \cup outlived
    /\ \A d \in scan.known : \E k \in Completed : k.id = d

LEMMA GoOnMarks ==
    ASSUME GraphInv, NEW c \in Calls, NEW st, DOMAIN st = Plan(c), GoOn(c, st)
    PROVE  /\ landing \subseteq landing'
           /\ \A n \in At(status'[c], Begun) :
                n \in At(st, Begun) \/ <<c, n>> \in landing'
           /\ \A d \in Calls \ {c} : status'[d] = status[d]
           /\ \E place \in {"undefine", "working"} :
                phase' = [phase EXCEPT ![c] = place]
<1> DEFINE blocked == BlockFailedDependents(c, st)
           started == StartReadyNodes(c, blocked)
           next == CloseIteration(c, started)
<1>1. /\ status' = [status EXCEPT ![c] = next]
      /\ landing' = landing \cup {<<c, n>> : n \in Ready(c, blocked)}
      /\ \E place \in {"undefine", "working"} :
           phase' = [phase EXCEPT ![c] = place]
  BY DEF GoOn
<1>2. /\ DOMAIN blocked = Plan(c)
      /\ \A n \in Plan(c) : blocked[n] \in Begun => blocked[n] = st[n]
  BY DEF BlockFailedDependents, Move, Begun
<1> HIDE DEF blocked
<1>3. /\ DOMAIN started = Plan(c)
      /\ \A n \in Plan(c) : started[n] \in Begun =>
           started[n] = blocked[n] \/ n \in Ready(c, blocked)
  BY <1>2 DEF StartReadyNodes, Move
<1> HIDE DEF started
<1>4. /\ DOMAIN next = Plan(c)
      /\ \A n \in Plan(c) : next[n] \in Begun => next[n] = started[n]
  BY <1>3 DEF CloseIteration, BlockFailedDependents, Move, Begun
<1> HIDE DEF next
<1>5. \A n \in Plan(c) : next[n] \in Begun =>
        st[n] \in Begun \/ n \in Ready(c, blocked)
  BY <1>2, <1>3, <1>4
<1>6. DOMAIN status = Calls  BY DEF GraphInv, Types
<1>7. \A n \in At(status'[c], Begun) :
        n \in At(st, Begun) \/ <<c, n>> \in landing'
  <2>1. status'[c] = next  BY <1>1, <1>6
  <2>2. \A n \in At(next, Begun) : n \in Plan(c) /\ next[n] \in Begun  BY <1>4 DEF At
  <2>3. \A n \in Plan(c) : st[n] \in Begun => n \in At(st, Begun)  BY DEF At
  <2>4. \A n \in Ready(c, blocked) : <<c, n>> \in landing'  BY <1>1
  <2> QED  BY <1>5, <2>1, <2>2, <2>3, <2>4
<1>8. \A d \in Calls \ {c} : status'[d] = status[d]  BY <1>1, <1>6
<1> QED  BY <1>1, <1>7, <1>8

\* A result starts nothing.
LEMMA ResultStartsNothing ==
    ASSUME GraphInv, NEW c \in Calls, NEW st, Result(c, st)
    PROVE  /\ DOMAIN st = Plan(c)
           /\ At(st, Begun) \subseteq At(status[c], Begun)
           /\ \A n \in Plan(c) : status[c][n] = "completed" => st[n] = "completed"
<1>1. DOMAIN status[c] = Plan(c)  BY DEF GraphInv, Types
<1>2. ASSUME phase[c] = "lookup" PROVE \A n \in Plan(c) : status[c][n] = "remaining"
  BY <1>2 DEF GraphInv, Fresh
<1> QED  BY <1>1, <1>2 DEF Result, Move, At, Begun

\* A node is begun by a step only with a marker on its way; what completed
\* stays completed.
LEMMA BegunChange ==
    ASSUME GraphInv, [Next]_vars, NEW c \in Calls
    PROVE  /\ \A n \in At(status'[c], Begun) :
                n \in At(status[c], Begun) \/ <<c, n>> \in landing'
           /\ DOMAIN status'[c] = Plan(c)
           /\ \A n \in Plan(c) : status[c][n] = "completed" => status'[c][n] = "completed"
<1>0. DOMAIN status = Calls /\ DOMAIN status[c] = Plan(c)  BY DEF GraphInv, Types
<1>1. CASE UNCHANGED status  BY <1>0, <1>1
<1>2. ASSUME NEW d \in Calls, NEW st, Result(d, st), GoOn(d, st),
             NEW n \in At(status'[c], Begun)
      PROVE  n \in At(status[c], Begun) \/ <<c, n>> \in landing'
  BY <1>2, ResultStartsNothing, GoOnMarks
<1>3. ASSUME NEW d \in Calls, NEW st, Result(d, st), GoOn(d, st)
      PROVE  /\ DOMAIN status'[c] = Plan(c)
             /\ \A n \in Plan(c) : status[c][n] = "completed" => status'[c][n] = "completed"
  <2>1. PICK nx : status' = [status EXCEPT ![d] = nx] /\ Keeps(st, nx)
    BY <1>3, GoOnKeeps
  <2> QED  BY <1>0, <1>3, <2>1, ResultStartsNothing DEF Keeps
<1>4. ASSUME NEW d \in Calls, NEW m \in Plan(d), status[d][m] = "active",
             status' = [status EXCEPT ![d] = [status[d] EXCEPT ![m] = "completed"]]
      PROVE  /\ At(status'[c], Begun) \subseteq At(status[c], Begun)
             /\ DOMAIN status'[c] = Plan(c)
             /\ \A n \in Plan(c) : status[c][n] = "completed" => status'[c][n] = "completed"
  <2>1. CASE d # c  BY <1>0, <1>4, <2>1
  <2>2. CASE d = c
    <3>1. status'[c] = [status[c] EXCEPT ![m] = "completed"]  BY <1>0, <1>4, <2>2
    <3>2. /\ DOMAIN status'[c] = Plan(c)
          /\ status'[c][m] = "completed"
          /\ \A n \in Plan(c) \ {m} : status'[c][n] = status[c][n]
      BY <1>0, <1>4, <2>2, <3>1
    <3> QED  BY <1>0, <1>4, <2>2, <3>2 DEF At, Begun
  <2> QED  BY <2>1, <2>2
<1> QED  BY <1>1, <1>2, <1>3, <1>4, PlacesChange

LEMMA CompletedGrows ==
    ASSUME GraphInv, [Next]_vars
    PROVE  Completed \subseteq Completed'
<1> SUFFICES ASSUME NEW c \in Calls, NEW n \in At(status[c], {"completed"})
             PROVE  Key(c, n) \in Completed'
  BY DEF Completed
<1>1. n \in Plan(c) /\ status[c][n] = "completed"  BY DEF At, GraphInv, Types
<1>2. n \in At(status'[c], {"completed"})  BY <1>1, BegunChange DEF At
<1> QED  BY <1>2 DEF Completed, Key

\* A call that has ended takes no further step.
LEMMA EndedStays ==
    ASSUME GraphInv, [Next]_vars, NEW c \in Calls, phase[c] = "ended"
    PROVE  phase'[c] = "ended"
<1> DEFINE Goal == phase'[c] = "ended"
<1>0. DOMAIN phase = Calls  BY DEF GraphInv, Types
<1>1. ASSUME UNCHANGED phase PROVE Goal  BY <1>1
<1>2. ASSUME NEW d \in Calls, phase[d] # "ended",
             NEW place, phase' = [phase EXCEPT ![d] = place]
      PROVE  Goal
  BY <1>0, <1>2
<1>3. ASSUME NEW d \in Calls, NEW st, phase[d] # "ended", GoOn(d, st)
      PROVE  Goal
  <2>1. PICK place \in {"undefine", "working"} : phase' = [phase EXCEPT ![d] = place]
    BY <1>3, GoOnKeeps
  <2> QED  BY <1>2, <1>3, <2>1
<1>4. ASSUME NEW p \in Processes, Crash(p) PROVE Goal
  BY <1>0, <1>4 DEF Crash, Lost, Running
<1> HIDE DEF Goal
<1>5. ASSUME NEW d \in Calls, ToolStep(d) PROVE Goal
  <2>1. ASSUME NEW s \in Stores, ReuseCompleted(d, s) \/ EvictEntries(d, s) PROVE Goal
    BY <1>3, <2>1 DEF ReuseCompleted, EvictEntries
  <2>2. ASSUME NEW s \in Stores, NEW n \in Plan(d), NodeCompletes(d, n, s) PROVE Goal
    BY <1>2, <2>2 DEF NodeCompletes, RecordNode
  <2>3. ASSUME NEW s \in Stores, CountEntries(d, s) PROVE Goal
    <3>1. phase[d] = "count"  BY <2>3 DEF CountEntries
    <3>2. GoOn(d, status[d]) \/ phase' = [phase EXCEPT ![d] = "evict"]
      BY <2>3 DEF CountEntries
    <3> QED  BY <1>2, <1>3, <3>1, <3>2
  <2>4. ASSUME NEW s \in Stores, DeleteDefinition(d, s) \/ DeleteMarkers(d, s) PROVE Goal
    BY <1>2, <2>4 DEF DeleteDefinition, DeleteMarkers
  <2>5. ASSUME NEW n \in Plan(d), NodeReturnsPartial(d, n) \/ NodeFails(d, n) PROVE Goal
    BY <1>3, <2>5 DEF NodeReturnsPartial, NodeFails
  <2> QED  BY <1>5, <2>1, <2>2, <2>3, <2>4, <2>5 DEF ToolStep
<1>6. ASSUME NEW d \in Calls, NEW s \in Stores, WriteDefinition(d, s) PROVE Goal
  BY <1>2, <1>6 DEF WriteDefinition
<1>7. ASSUME NEW d \in Calls, NEW s \in Stores, NEW n,
             StoreMarker(d, n, s) \/ ReadCompletedIds(d, s) \/ PlanResume(d, s)
             \/ ListInterrupted(s)
      PROVE  Goal
  BY <1>1, <1>7 DEF StoreMarker, ReadCompletedIds, PlanResume, ListInterrupted, tool
<1>8. ASSUME UNCHANGED vars PROVE Goal  BY <1>1, <1>8 DEF vars, tool
<1>9. ASSUME NEW s \in Stores, ListInterrupted(s) PROVE Goal
  BY <1>1, <1>9 DEF ListInterrupted, tool
<1>10. Goal
  <2>1. ASSUME Next PROVE Goal
    BY <1>4, <1>5, <1>6, <1>7, <1>9, <2>1 DEF Next
  <2> QED  BY <1>8, <2>1
<1> QED  BY <1>10 DEF Goal

\* The trace of a start is lost only when the call deletes its own markers.
LEMMA MarksChange ==
    ASSUME GraphInv, MarkInv, [Next]_vars
    PROVE  /\ DOMAIN marks' = Stores
           /\ \A c \in Calls : \A n :
                Marked(c, n) /\ phase'[c] # "ended" => Marked(c, n)'
<1> DEFINE Goal == /\ DOMAIN marks' = Stores
                   /\ \A c \in Calls : \A n :
                        Marked(c, n) /\ phase'[c] # "ended" => Marked(c, n)'
<1>0. DOMAIN marks = Stores /\ DOMAIN phase = Calls /\ Redis \in Stores
  BY DEF MarkInv, GraphInv, Types, Stores
<1>1. ASSUME UNCHANGED <<marks, landing, unmarked>> PROVE Goal
  BY <1>0, <1>1 DEF Marked
<1>2. ASSUME NEW c \in Calls, NEW st, Result(c, st), GoOn(c, st),
             UNCHANGED <<marks, unmarked>>
      PROVE  Goal
  <2>1. landing \subseteq landing'  BY <1>2, GoOnMarks, ResultStartsNothing
  <2> QED  BY <1>0, <1>2, <2>1 DEF Marked
<1>3. ASSUME NEW c \in Calls, NEW n, NEW s \in Stores, StoreMarker(c, n, s) PROVE Goal
  <2>1. /\ landing' = landing \ {<<c, n>>}
        /\ marks' = [marks EXCEPT ![s] = @ \cup {<<c, n>>}]
        /\ unmarked' = IF s = Redis THEN unmarked ELSE unmarked \cup {<<c, n>>}
    BY <1>3 DEF StoreMarker
  <2>2. marks[Redis] \subseteq marks'[Redis] /\ unmarked \subseteq unmarked'
        /\ DOMAIN marks' = Stores
    BY <1>0, <2>1
  <2>3. <<c, n>> \in marks'[Redis] \/ <<c, n>> \in unmarked'
    BY <1>0, <2>1
  <2> QED  BY <2>1, <2>2, <2>3 DEF Marked
<1>4. ASSUME NEW c \in Calls, NEW s \in Stores, DeleteMarkers(c, s) PROVE Goal
  <2>1. /\ marks' = [marks EXCEPT ![s] = {m \in @ : m[1] # c}]
        /\ phase' = [phase EXCEPT ![c] = "ended"]
        /\ UNCHANGED <<landing, unmarked>>
    BY <1>4 DEF DeleteMarkers, history
  <2>2. DOMAIN marks' = Stores /\ phase'[c] = "ended"  BY <1>0, <2>1
  <2>3. \A d \in Calls \ {c} : \A n : <<d, n>> \in marks[Redis] => <<d, n>> \in marks'[Redis]
    <3> SUFFICES ASSUME NEW d \in Calls \ {c}, NEW n, <<d, n>> \in marks[Redis]
                 PROVE  <<d, n>> \in marks'[Redis]
      OBVIOUS
    <3>1. <<d, n>>[1] = d  OBVIOUS
    <3> QED  BY <1>0, <2>1, <3>1
  <2> QED  BY <2>1, <2>2, <2>3 DEF Marked
<1>5. ASSUME NEW p \in Processes, Crash(p) PROVE Goal
  <2>1. /\ landing' = {m \in landing : Home[m[1]] # p}
        /\ unmarked' = unmarked \cup {m \in landing : Home[m[1]] = p}
        /\ marks' = [marks EXCEPT ![p] = {}]
    BY <1>5 DEF Crash
  <2>2. DOMAIN marks' = Stores /\ marks'[Redis] = marks[Redis]
    BY <1>0, <2>1, ProcessesAssumption DEF Stores
  <2>3. landing \subseteq landing' \cup unmarked' /\ unmarked \subseteq unmarked'
    BY <2>1
  <2> QED  BY <2>2, <2>3 DEF Marked
<1> HIDE DEF Goal
<1>6. ASSUME NEW c \in Calls, ToolStep(c) PROVE Goal
  <2>1. ASSUME NEW s \in Stores, ReuseCompleted(c, s) PROVE Goal
    <3> DEFINE hits == {n \in Plan(c) : Key(c, n) \in {e.key : e \in ledger[s]}}
               st == Move(status[c], hits, "reused")
    <3>1. /\ phase[c] = "lookup" /\ GoOn(c, st)
          /\ UNCHANGED <<marks, unmarked>>
      BY <2>1 DEF ReuseCompleted, history
    <3>2. hits \in SUBSET Plan(c)  OBVIOUS
    <3> HIDE DEF hits
    <3>3. Result(c, st)  BY <3>1, <3>2 DEF Result
    <3> QED  BY <1>2, <3>1, <3>3
  <2>2. ASSUME NEW s \in Stores, NEW n \in Plan(c), NodeCompletes(c, n, s) PROVE Goal
    BY <1>1, <2>2 DEF NodeCompletes
  <2>3. ASSUME NEW s \in Stores, CountEntries(c, s) \/ EvictEntries(c, s) PROVE Goal
    <3>1. UNCHANGED <<marks, unmarked>>  BY <2>3 DEF CountEntries, EvictEntries, history
    <3>2. GoOn(c, status[c]) \/ UNCHANGED landing  BY <2>3 DEF CountEntries, EvictEntries
    <3>3. Result(c, status[c])  BY DEF Result
    <3> QED  BY <1>1, <1>2, <3>1, <3>2, <3>3
  <2>4. ASSUME NEW s \in Stores, DeleteDefinition(c, s) PROVE Goal
    BY <1>1, <2>4 DEF DeleteDefinition, history
  <2>5. ASSUME NEW n \in Plan(c), NodeReturnsPartial(c, n) \/ NodeFails(c, n) PROVE Goal
    <3>1. PICK place \in {"partial", "failed"} :
            GoOn(c, [status[c] EXCEPT ![n] = place])
      BY <2>5 DEF NodeReturnsPartial, NodeFails
    <3>2. status[c][n] = "active" /\ UNCHANGED <<marks, unmarked>>
      BY <2>5 DEF NodeReturnsPartial, NodeFails, history
    <3>3. Result(c, [status[c] EXCEPT ![n] = place])  BY <3>2 DEF Result
    <3> QED  BY <1>2, <3>1, <3>2, <3>3
  <2> QED  BY <1>4, <1>6, <2>1, <2>2, <2>3, <2>4, <2>5 DEF ToolStep
<1>7. ASSUME NEW c \in Calls, NEW s \in Stores,
             WriteDefinition(c, s) \/ ReadCompletedIds(c, s) \/ PlanResume(c, s)
      PROVE  Goal
  BY <1>1, <1>7 DEF WriteDefinition, ReadCompletedIds, PlanResume, store, history
<1>8. ASSUME NEW s \in Stores, ListInterrupted(s) PROVE Goal
  BY <1>1, <1>8 DEF ListInterrupted, store, history
<1>9. ASSUME UNCHANGED vars PROVE Goal  BY <1>1, <1>9 DEF vars, store, history
<1>10. Goal
  <2>1. ASSUME Next PROVE Goal
    BY <1>3, <1>5, <1>6, <1>7, <1>8, <2>1 DEF Next
  <2> QED  BY <1>9, <2>1
<1> QED  BY <1>10 DEF Goal

LEMMA StepMarks ==
    ASSUME GraphInv, MarkInv, [Next]_vars
    PROVE  MarkInv'
<1>1. ASSUME NEW c \in Calls, phase'[c] # "ended", NEW n \in At(status'[c], Begun)
      PROVE  Marked(c, n)'
  <2>1. phase[c] # "ended"  BY <1>1, EndedStays
  <2>2. n \in At(status[c], Begun) \/ <<c, n>> \in landing'  BY BegunChange
  <2>3. CASE n \in At(status[c], Begun)
    BY <1>1, <2>1, <2>3, MarksChange DEF MarkInv
  <2>4. CASE <<c, n>> \in landing'  BY <2>4 DEF Marked
  <2> QED  BY <2>2, <2>3, <2>4
<1>2. DOMAIN marks' = Stores  BY MarksChange
<1> QED  BY <1>1, <1>2 DEF MarkInv

LEMMA StepDefs ==
    ASSUME GraphInv, DefsInv, [Next]_vars
    PROVE  DefsInv' /\ outlived \subseteq outlived'
<1> DEFINE Goal == DefsInv' /\ outlived \subseteq outlived'
<1>0. DOMAIN phase = Calls /\ DOMAIN defs = Stores  BY DEF GraphInv, Types, DefsInv
<1>1. ASSUME UNCHANGED <<phase, defs, outlived>> PROVE Goal
  BY <1>1 DEF DefsInv
<1>2. ASSUME NEW c \in Calls, NEW place, place \notin Leaving,
             phase' = [phase EXCEPT ![c] = place], UNCHANGED <<defs, outlived>>
      PROVE  Goal
  <2>1. \A d \in Calls : phase'[d] \in Leaving => phase[d] \in Leaving  BY <1>0, <1>2
  <2> QED  BY <1>2, <2>1 DEF DefsInv
<1>3. ASSUME NEW c \in Calls, NEW st, GoOn(c, st), UNCHANGED <<defs, outlived>> PROVE Goal
  <2>1. PICK place \in {"undefine", "working"} : phase' = [phase EXCEPT ![c] = place]
    BY <1>3, GoOnKeeps
  <2> QED  BY <1>2, <1>3, <2>1 DEF Leaving
<1>4. ASSUME NEW c \in Calls, NEW s \in Stores, DeleteDefinition(c, s) PROVE Goal
  <2>1. /\ defs' = [defs EXCEPT ![s] = @ \ {c}]
        /\ outlived' = outlived \cup {d \in {c} : \E t \in Stores : d \in defs'[t]}
        /\ phase' = [phase EXCEPT ![c] = "unmark"]
    BY <1>4 DEF DeleteDefinition
  <2>2. DOMAIN defs' = Stores /\ \A t \in Stores : defs'[t] \subseteq defs[t]
    BY <1>0, <2>1
  <2>3. c \in outlived' \/ \A t \in Stores : c \notin defs'[t]  BY <2>1
  <2>4. \A d \in Calls \ {c} : phase'[d] = phase[d]  BY <1>0, <2>1
  <2>5. outlived \subseteq outlived'  BY <2>1
  <2> QED  BY <2>2, <2>3, <2>4, <2>5 DEF DefsInv
<1>5. ASSUME NEW c \in Calls, NEW s \in Stores, DeleteMarkers(c, s) PROVE Goal
  <2>1. /\ phase[c] = "unmark" /\ phase' = [phase EXCEPT ![c] = "ended"]
        /\ UNCHANGED <<defs, outlived>>
    BY <1>5 DEF DeleteMarkers, history
  <2>2. \A d \in Calls : phase'[d] \in Leaving => phase[d] \in Leaving
    BY <1>0, <2>1 DEF Leaving
  <2> QED  BY <2>1, <2>2 DEF DefsInv
<1>6. ASSUME NEW c \in Calls, NEW s \in Stores, WriteDefinition(c, s) PROVE Goal
  <2>1. /\ phase[c] = "idle" /\ phase' = [phase EXCEPT ![c] = "lookup"]
        /\ defs' = [defs EXCEPT ![s] = @ \cup {c}]
        /\ UNCHANGED outlived
    BY <1>6 DEF WriteDefinition, history
  <2>2. /\ DOMAIN defs' = Stores
        /\ \A t \in Stores : defs'[t] \subseteq defs[t] \cup {c}
    BY <1>0, <2>1
  <2>3. \A d \in Calls : phase'[d] \in Leaving => d # c /\ phase[d] \in Leaving
    BY <1>0, <2>1 DEF Leaving
  <2> QED  BY <2>1, <2>2, <2>3 DEF DefsInv
<1>7. ASSUME NEW p \in Processes, Crash(p) PROVE Goal
  <2>1. /\ phase' = [c \in Calls |-> IF c \in Lost(p) THEN "dead" ELSE phase[c]]
        /\ defs' = [defs EXCEPT ![p] = {}]
        /\ UNCHANGED outlived
    BY <1>7 DEF Crash
  <2>2. DOMAIN defs' = Stores /\ \A t \in Stores : defs'[t] \subseteq defs[t]
    BY <1>0, <2>1
  <2>3. \A c \in Calls : phase'[c] \in Leaving => phase[c] \in Leaving
    BY <2>1 DEF Leaving
  <2> QED  BY <2>1, <2>2, <2>3 DEF DefsInv
<1> HIDE DEF Goal
<1>8. ASSUME NEW c \in Calls, ToolStep(c) PROVE Goal
  <2>1. ASSUME NEW s \in Stores, ReuseCompleted(c, s) \/ EvictEntries(c, s) PROVE Goal
    BY <1>3, <2>1 DEF ReuseCompleted, EvictEntries, history
  <2>2. ASSUME NEW s \in Stores, NEW n \in Plan(c), NodeCompletes(c, n, s) PROVE Goal
    BY <1>2, <2>2 DEF NodeCompletes, RecordNode, Leaving
  <2>3. ASSUME NEW s \in Stores, CountEntries(c, s) PROVE Goal
    <3>1. /\ GoOn(c, status[c]) \/ phase' = [phase EXCEPT ![c] = "evict"]
          /\ UNCHANGED <<defs, outlived>>
      BY <2>3 DEF CountEntries, history
    <3> QED  BY <1>2, <1>3, <3>1 DEF Leaving
  <2>4. ASSUME NEW n \in Plan(c), NodeReturnsPartial(c, n) \/ NodeFails(c, n) PROVE Goal
    BY <1>3, <2>4 DEF NodeReturnsPartial, NodeFails, history
  <2> QED  BY <1>4, <1>5, <1>8, <2>1, <2>2, <2>3, <2>4 DEF ToolStep
<1>9. ASSUME NEW c \in Calls, NEW n, NEW s \in Stores,
             StoreMarker(c, n, s) \/ ReadCompletedIds(c, s) \/ PlanResume(c, s)
      PROVE  Goal
  BY <1>1, <1>9 DEF StoreMarker, ReadCompletedIds, PlanResume, tool, store, history
<1>10. ASSUME NEW s \in Stores, ListInterrupted(s) PROVE Goal
  BY <1>1, <1>10 DEF ListInterrupted, tool, store, history
<1>11. ASSUME UNCHANGED vars PROVE Goal  BY <1>1, <1>11 DEF vars, tool, store, history
<1>12. Goal
  <2>1. ASSUME Next PROVE Goal
    BY <1>6, <1>7, <1>8, <1>9, <1>10, <2>1 DEF Next
  <2> QED  BY <1>11, <2>1
<1> QED  BY <1>12 DEF Goal

LEMMA StepScan ==
    ASSUME GraphInv, DefsInv, ScanInv, [Next]_vars
    PROVE  ScanInv'
<1>1. Completed \subseteq Completed' /\ outlived \subseteq outlived'
  BY CompletedGrows, StepDefs
<1>3. ASSUME UNCHANGED scan PROVE ScanInv'
  BY <1>1, <1>3 DEF ScanInv
<1>4. ASSUME NEW s \in Stores, ListInterrupted(s) PROVE ScanInv'
  <2> DEFINE open == {c \in defs[s] : phase[c] # "ended"}
  <2>1. \/ scan' = Idle
        \/ scan' = [scan EXCEPT !.stage = "pick", !.todo = defs[s], !.open = open]
    BY <1>4 DEF ListInterrupted
  <2>2. defs[s] \subseteq open \cup outlived  BY DEF DefsInv, Leaving
  <2>3. scan.stage = "list"  BY <1>4 DEF ListInterrupted
  <2> HIDE DEF open
  <2>4. CASE scan' = Idle
    <3>1. scan'.todo = {} /\ scan'.known = {} /\ scan'.call = {}  BY <2>4 DEF Idle
    <3> QED  BY <2>4, <3>1 DEF ScanInv
  <2>5. CASE scan' # Idle
    <3>1. scan' = [scan EXCEPT !.stage = "pick", !.todo = defs[s], !.open = open]
      BY <2>1, <2>5
    <3>2. DOMAIN scan = {"stage", "by", "todo", "open", "call", "known"}
      BY DEF ScanInv, Idle
    <3>3. /\ DOMAIN scan' = DOMAIN scan
          /\ scan'.todo = defs[s]
          /\ scan'.open = open
          /\ scan'.known = scan.known
          /\ scan'.call = scan.call
      BY <3>1, <3>2
    <3>4. scan.call = {}  BY <2>3 DEF ScanInv
    <3> QED  BY <1>1, <2>2, <3>3, <3>4 DEF ScanInv
  <2> QED  BY <2>4, <2>5
<1>5. ASSUME NEW c \in Calls, NEW s \in Stores, ReadCompletedIds(c, s) PROVE ScanInv'
  <2>1. /\ c \in scan.todo
        /\ scan' = [scan EXCEPT !.stage = "marks", !.call = {c}, !.todo = @ \ {c},
                                !.known = {e.key.id : e \in ledger[s]}]
    BY <1>5 DEF ReadCompletedIds
  <2>2. DOMAIN scan' = DOMAIN Idle
        /\ scan'.stage = "marks"
        /\ scan'.call = {c}
        /\ scan'.todo = scan.todo \ {c} /\ scan'.open = scan.open
        /\ scan'.known = {e.key.id : e \in ledger[s]}
    BY <2>1 DEF ScanInv, Idle
  <2>3. \A d \in scan'.known : \E k \in Completed : k.id = d
    BY <2>2 DEF GraphInv, LedgerDone
  <2> QED  BY <1>1, <2>1, <2>2, <2>3 DEF ScanInv
<1>6. ASSUME NEW c \in Calls, NEW s \in Stores, PlanResume(c, s) PROVE ScanInv'
  <2>1. \/ scan' = Idle
        \/ scan' = [scan EXCEPT !.stage = "pick", !.call = {}, !.known = {}]
    BY <1>6 DEF PlanResume
  <2>2. CASE scan' = Idle
    <3>1. scan'.todo = {} /\ scan'.known = {} /\ scan'.call = {}  BY <2>2 DEF Idle
    <3> QED  BY <2>2, <3>1 DEF ScanInv
  <2>3. CASE scan' # Idle
    <3>1. scan' = [scan EXCEPT !.stage = "pick", !.call = {}, !.known = {}]
      BY <2>1, <2>3
    <3>2. DOMAIN scan = {"stage", "by", "todo", "open", "call", "known"}
      BY DEF ScanInv, Idle
    <3>3. /\ DOMAIN scan' = DOMAIN scan
          /\ scan'.todo = scan.todo /\ scan'.open = scan.open
          /\ scan'.known = {}
          /\ scan'.call = {}
      BY <3>1, <3>2
    <3> QED  BY <1>1, <3>3 DEF ScanInv
  <2> QED  BY <2>2, <2>3
<1>7. ASSUME NEW p \in Processes, Crash(p) PROVE ScanInv'
  <2>1. scan' = [Idle EXCEPT !.stage = "list", !.by = p]  BY <1>7 DEF Crash
  <2>2. /\ DOMAIN scan' = DOMAIN Idle
        /\ scan'.todo = {} /\ scan'.known = {} /\ scan'.call = {}
    BY <2>1 DEF Idle
  <2> QED  BY <2>2 DEF ScanInv
<1>8. ASSUME NEW c \in Calls, ToolStep(c) PROVE UNCHANGED scan
  BY <1>8 DEF ToolStep, ReuseCompleted, NodeCompletes, CountEntries, EvictEntries,
              DeleteDefinition, DeleteMarkers, NodeReturnsPartial, NodeFails
<1>9. ASSUME NEW c \in Calls, NEW s \in Stores, NEW n,
             WriteDefinition(c, s) \/ StoreMarker(c, n, s)
      PROVE  UNCHANGED scan
  BY <1>9 DEF WriteDefinition, StoreMarker
<1>10. ASSUME UNCHANGED vars PROVE UNCHANGED scan  BY <1>10 DEF vars
<1> HIDE DEF ScanInv
<1>11. ASSUME Next PROVE ScanInv'
  BY <1>3, <1>4, <1>5, <1>6, <1>7, <1>8, <1>9, <1>11 DEF Next
<1> QED  BY <1>3, <1>10, <1>11

LEMMA InitMarks == Init => MarkInv /\ DefsInv /\ ScanInv
<1> SUFFICES ASSUME Init PROVE MarkInv /\ DefsInv /\ ScanInv
  OBVIOUS
<1>1. \A c \in Calls : At(status[c], Begun) = {}  BY DEF Init, At, Begun
<1>2. MarkInv  BY <1>1 DEF Init, MarkInv
<1>3. ScanInv  BY DEF Init, ScanInv, Idle
<1>4. DefsInv  BY DEF Init, DefsInv, Leaving
<1> QED  BY <1>2, <1>3, <1>4

(* planGraphResume gives out a node, of the graph of a dead process or of  *)
(* a live one, only if it was never started or its start marker had not    *)
(* reached Redis, or its graph has ended and either had not when it was    *)
(* listed or left its definition behind; and only if completed nodes have  *)
(* the ids it depends on; with every step of recording, trimming and       *)
(* ending between the reads of the scan.                                   *)
THEOREM ResumesAreSafe == Spec => []ResumeSafe
<1>1. GraphInv /\ CauseInv /\ MarkInv /\ ScanInv => ResumeSafe
  <2> DEFINE Safe(c, n) ==
               /\ \/ NeverStarted(c, n)
                  \/ phase[c] = "ended" /\ c \in scan.open \cup outlived
               /\ \A d \in Needs[c][n] : \E k \in Completed : k.id = d
  <2>0. (\A c \in scan.call : \A n \in Resumable(c, Redis) : Safe(c, n))
          => ResumeSafe
    BY Zenon DEF ResumeSafe
  <2> SUFFICES ASSUME GraphInv, CauseInv, MarkInv, ScanInv,
                      NEW c \in scan.call, NEW n \in Resumable(c, Redis)
               PROVE  Safe(c, n)
    BY <2>0
  <2> c \in Calls  BY DEF ScanInv
  <2>1. n \in Plan(c) /\ Needs[c][n] \subseteq scan.known /\ <<c, n>> \notin marks[Redis]
    <3>1. <<c, n>>[1] = c /\ <<c, n>>[2] = n  OBVIOUS
    <3> QED  BY <3>1 DEF Resumable
  <2>2. \A d \in Needs[c][n] : \E k \in Completed : k.id = d
    BY <2>1 DEF ScanInv
  <2>3. ASSUME phase[c] # "ended", n \in At(status[c], Begun) PROVE NeverStarted(c, n)
    BY <2>1, <2>3 DEF MarkInv, Marked, NeverStarted
  <2>4. ASSUME n \notin At(status[c], Begun) PROVE NeverStarted(c, n)
    <3>1. status[c][n] \in Places \ Begun
      BY <2>1, <2>4 DEF CauseInv, At
    <3> QED  BY <3>1 DEF Places, Begun, NeverStarted
  <2>5. c \in scan.open \cup outlived  BY DEF ScanInv
  <2> QED  BY <2>2, <2>3, <2>4, <2>5
<1>2. Spec => []CauseInv
  BY InitCause, StepCause, GraphInvariant, PTL DEF Spec
<1>3. Spec => [](MarkInv /\ DefsInv /\ ScanInv)
  BY InitMarks, StepMarks, StepDefs, StepScan, GraphInvariant, PTL DEF Spec
<1> QED  BY <1>1, <1>2, <1>3, GraphInvariant, PTL

-----------------------------------------------------------------------------
(* The newest completions stay in the ledger.                              *)

\* MaxEntries newer completions were given to Redis.
Old(e) == Cardinality({y \in recorded : y.at > e.at}) >= MaxEntries

\* The key of an entry that is old, in Redis or trimmed from it.
Aged(k) == \E e \in recorded : e.key = k /\ Old(e)

KeptInv ==
    /\ misses \in Nat
    /\ DOMAIN ledger = Stores /\ DOMAIN victims = Calls
    /\ IsFiniteSet(recorded) /\ ledger[Redis] \subseteq recorded
    /\ \A p \in Processes : IsFiniteSet(ledger[p]) /\ Cardinality(ledger[p]) <= misses
    /\ misses <= MaxEntries => \A c \in Calls : \A k \in victims[c] : Aged(k)
    /\ NewestKept

\* What Redis is given only grows, and what was old stays old.
LEMMA OldStaysOld ==
    ASSUME IsFiniteSet(recorded), IsFiniteSet(recorded'), recorded \subseteq recorded'
    PROVE  /\ \A e : Old(e) => Old(e)'
           /\ \A k : Aged(k) => Aged(k)'
<1>1. ASSUME NEW e, Old(e) PROVE Old(e)'
  <2> DEFINE was == {y \in recorded : y.at > e.at}
             is == {y \in recorded' : y.at > e.at}
  <2>1. IsFiniteSet(was) /\ IsFiniteSet(is)  BY FS_Subset
  <2>2. was \in SUBSET is  OBVIOUS
  <2> HIDE DEF was, is
  <2>3. Cardinality(was) \in Nat /\ Cardinality(is) \in Nat  BY <2>1, FS_CardinalityType
  <2>4. Cardinality(was) <= Cardinality(is)  BY <2>1, <2>2, FS_Subset
  <2>5. Cardinality(was) >= MaxEntries  BY <1>1 DEF Old, was
  <2>6. Cardinality(is) >= MaxEntries  BY <2>3, <2>4, <2>5, BoundsAssumption
  <2> QED  BY <2>6 DEF Old, is
<1>2. ASSUME NEW k, Aged(k) PROVE Aged(k)'
  BY <1>1, <1>2 DEF Aged
<1> QED  BY <1>1, <1>2

LEMMA InitKept == Init => KeptInv
<1> SUFFICES ASSUME Init PROVE KeptInv
  OBVIOUS
<1>1. \A p \in Processes : ledger[p] = {}  BY DEF Init, Stores
<1>2. IsFiniteSet({}) /\ Cardinality({}) = 0  BY FS_EmptySet
<1> QED  BY <1>1, <1>2 DEF Init, KeptInv, NewestKept, Stores, Redis

\* A step that gives Redis nothing and trims nothing there.
LEMMA QuietKept ==
    ASSUME KeptInv, UNCHANGED recorded, ledger'[Redis] = ledger[Redis],
           DOMAIN ledger' = Stores, DOMAIN victims' = Calls,
           misses' \in Nat, misses <= misses',
           \A p \in Processes : \/ ledger'[p] \subseteq ledger[p]
                               \/ /\ IsFiniteSet(ledger'[p])
                                  /\ Cardinality(ledger'[p]) <= misses',
           misses' <= MaxEntries =>
              \A c \in Calls : \A k \in victims'[c] : k \in victims[c] \/ Aged(k)
    PROVE  KeptInv'
<1>1. misses' <= MaxEntries => misses <= MaxEntries
  BY BoundsAssumption DEF KeptInv
<1>2. \A k : Aged(k) => Aged(k)'  BY DEF Aged, Old
<1>3. misses' <= MaxEntries => \A c \in Calls : \A k \in victims'[c] : Aged(k)'
  BY <1>1, <1>2 DEF KeptInv
<1>4. NewestKept'
  BY <1>1 DEF KeptInv, NewestKept
<1>5. ASSUME NEW p \in Processes
      PROVE  IsFiniteSet(ledger'[p]) /\ Cardinality(ledger'[p]) <= misses'
  <2>1. CASE ledger'[p] \subseteq ledger[p]
    <3>1. IsFiniteSet(ledger[p]) /\ ledger'[p] \in SUBSET ledger[p]  BY <2>1 DEF KeptInv
    <3>2. IsFiniteSet(ledger'[p]) /\ Cardinality(ledger'[p]) <= Cardinality(ledger[p])
      BY <3>1, FS_Subset
    <3>3. Cardinality(ledger'[p]) \in Nat /\ Cardinality(ledger[p]) \in Nat
      BY <3>1, <3>2, FS_CardinalityType
    <3>4. Cardinality(ledger[p]) <= misses /\ misses \in Nat  BY DEF KeptInv
    <3> QED  BY <3>2, <3>3, <3>4
  <2> QED  BY <2>1
<1> QED  BY <1>3, <1>4, <1>5 DEF KeptInv

LEMMA RecordKept ==
    ASSUME KeptInv, NEW c \in Calls, NEW n, NEW s \in Stores,
           Uses(Home[c], s), RecordNode(c, n, s), UNCHANGED victims
    PROVE  KeptInv'
<1> DEFINE new == {e \in {[key |-> Key(c, n), at |-> CompletedAt[c][n]]} :
                      \A old \in ledger[s] : old.key # e.key}
<1>1. /\ ledger' = [ledger EXCEPT ![s] = @ \cup new]
      /\ recorded' = IF s = Redis THEN recorded \cup new ELSE recorded
  BY DEF RecordNode
<1>2. new = {} \/ \E x : new = {x}  OBVIOUS
<1> DEFINE Grown(S) == /\ IsFiniteSet(S \cup new)
                       /\ Cardinality(S \cup new) <= Cardinality(S) + 1
                       /\ Cardinality(S) \in Nat
<1> HIDE DEF new
<1>3. ASSUME NEW S, IsFiniteSet(S) PROVE Grown(S)
  <2>1. Cardinality(S) \in Nat  BY <1>3, FS_CardinalityType
  <2>2. CASE new = {}
    <3>1. S \cup new = S  BY <2>2
    <3>2. Cardinality(S) <= Cardinality(S) + 1  BY <2>1
    <3> QED  BY <1>3, <2>1, <3>1, <3>2, Zenon
  <2>3. ASSUME NEW x, new = {x} PROVE Grown(S)
    <3>1. /\ IsFiniteSet(S \cup {x})
          /\ Cardinality(S \cup {x}) = IF x \in S THEN Cardinality(S) ELSE Cardinality(S) + 1
      BY <1>3, FS_AddElement
    <3> QED  BY <2>1, <2>3, <3>1
  <2> QED  BY <1>2, <2>2, <2>3
<1>4. CASE s = Redis
  <2>1. misses' = misses  BY <1>4, ProcessesAssumption DEF Uses
  <2>2. /\ ledger'[Redis] = ledger[Redis] \cup new
        /\ recorded' = recorded \cup new
        /\ DOMAIN ledger' = Stores
        /\ \A p \in Processes : ledger'[p] = ledger[p]
    BY <1>1, <1>4, ProcessesAssumption DEF KeptInv, Stores
  <2>3. IsFiniteSet(recorded) /\ IsFiniteSet(recorded')
    BY <1>3, <2>2 DEF KeptInv
  <2>4. /\ \A e : Old(e) => Old(e)'
        /\ \A k : Aged(k) => Aged(k)'
    BY <2>2, <2>3, OldStaysOld
  <2>5. NewestKept'
    <3> SUFFICES ASSUME misses' <= MaxEntries,
                        \A x, y \in recorded' : x.key = y.key => x = y,
                        NEW e \in recorded', e \notin ledger'[Redis]
                 PROVE  Old(e)'
      BY Zenon DEF NewestKept, Old
    <3>1. e \in recorded /\ e \notin ledger[Redis]  BY <2>2
    <3>2. \A x, y \in recorded : x.key = y.key => x = y  BY <2>2
    <3>3. NewestKept  BY DEF KeptInv
    <3>4. Old(e)  BY <2>1, <3>1, <3>2, <3>3 DEF NewestKept, Old
    <3> QED  BY <2>4, <3>4
  <2> QED  BY <2>1, <2>2, <2>3, <2>4, <2>5 DEF KeptInv
<1>5. CASE s # Redis
  <2>1. misses' = misses + 1  BY <1>5 DEF Uses
  <2>2. /\ recorded' = recorded
        /\ DOMAIN ledger' = Stores
        /\ ledger'[Redis] = ledger[Redis]
        /\ \A p \in Processes : ledger'[p] = ledger[p] \/ ledger'[p] = ledger[p] \cup new
    BY <1>1, <1>5 DEF KeptInv, Stores
  <2>3. misses \in Nat  BY DEF KeptInv
  <2>4. ASSUME NEW p \in Processes
        PROVE  IsFiniteSet(ledger'[p]) /\ Cardinality(ledger'[p]) <= misses'
    <3>1. IsFiniteSet(ledger[p]) /\ Cardinality(ledger[p]) <= misses  BY DEF KeptInv
    <3>2. /\ IsFiniteSet(ledger[p] \cup new)
          /\ Cardinality(ledger[p] \cup new) <= Cardinality(ledger[p]) + 1
          /\ Cardinality(ledger[p]) \in Nat
      BY <1>3, <3>1
    <3>3. Cardinality(ledger[p] \cup new) \in Nat  BY <3>2, FS_CardinalityType
    <3>4. CASE ledger'[p] = ledger[p]
      BY <2>1, <2>3, <3>1, <3>2, <3>4
    <3>5. CASE ledger'[p] = ledger[p] \cup new
      <4>1. Cardinality(ledger[p] \cup new) <= misses'
        BY <2>1, <2>3, <3>1, <3>2, <3>3
      <4> QED  BY <3>2, <3>5, <4>1
    <3> QED  BY <2>2, <3>4, <3>5
  <2> QED  BY <2>1, <2>2, <2>3, <2>4, QuietKept DEF KeptInv
<1> QED  BY <1>4, <1>5

\* What a count finds beyond the cap is old, if Redis has answered often enough.
LEMMA CountKept ==
    ASSUME KeptInv, NEW c \in Calls, NEW s \in Stores, CountEntries(c, s)
    PROVE  KeptInv'
<1>1. UNCHANGED <<ledger, recorded>> /\ Uses(Home[c], s)
  BY DEF CountEntries, history
<1>2. misses \in Nat /\ misses' \in Nat /\ misses <= misses'
  BY <1>1 DEF Uses, KeptInv
<1>3. \/ victims' = victims
      \/ victims' = [victims EXCEPT ![c] = {e.key : e \in Oldest(ledger[s])}]
  BY DEF CountEntries
<1>4. ASSUME misses' <= MaxEntries, NEW e \in Oldest(ledger[s])
      PROVE  Aged(e.key)
  <2> DEFINE newer == {y \in ledger[s] : y.at > e.at}
  <2>1. e \in ledger[s] /\ Cardinality(newer) >= MaxEntries  BY DEF Oldest
  <2>2. CASE s = Redis
    <3>1. newer \in SUBSET {y \in recorded : y.at > e.at} /\ e \in recorded
      BY <2>1, <2>2 DEF KeptInv
    <3>2. IsFiniteSet({y \in recorded : y.at > e.at})  BY FS_Subset DEF KeptInv
    <3> HIDE DEF newer
    <3>3. /\ IsFiniteSet(newer)
          /\ Cardinality(newer) <= Cardinality({y \in recorded : y.at > e.at})
      BY <3>1, <3>2, FS_Subset
    <3>4. Cardinality(newer) \in Nat /\ Cardinality({y \in recorded : y.at > e.at}) \in Nat
      BY <3>2, <3>3, FS_CardinalityType
    <3>5. Old(e)  BY <2>1, <3>3, <3>4, BoundsAssumption DEF Old
    <3> QED  BY <3>1, <3>5 DEF Aged
  <2>3. CASE s # Redis
    <3>1. s \in Processes /\ misses' = misses + 1  BY <1>1, <2>3 DEF Uses, Stores
    <3>2. IsFiniteSet(ledger[s]) /\ Cardinality(ledger[s]) <= misses  BY <3>1 DEF KeptInv
    <3>3. newer \in SUBSET ledger[s]  OBVIOUS
    <3> HIDE DEF newer
    <3>4. IsFiniteSet(newer) /\ Cardinality(newer) <= Cardinality(ledger[s])
      BY <3>2, <3>3, FS_Subset
    <3>5. Cardinality(newer) \in Nat /\ Cardinality(ledger[s]) \in Nat
      BY <3>2, <3>4, FS_CardinalityType
    <3> QED  BY <1>2, <1>4, <2>1, <3>1, <3>2, <3>4, <3>5, BoundsAssumption
  <2> QED  BY <2>2, <2>3
<1>5. DOMAIN victims' = Calls  BY <1>3 DEF KeptInv
<1>6. misses' <= MaxEntries =>
         \A d \in Calls : \A k \in victims'[d] : k \in victims[d] \/ Aged(k)
  BY <1>3, <1>4 DEF KeptInv
<1> QED  BY <1>1, <1>2, <1>5, <1>6, QuietKept DEF KeptInv

\* Evicting deletes by key: the entry it meets is the old one, as the key was
\* recorded once.
LEMMA EvictKept ==
    ASSUME KeptInv, NEW c \in Calls, NEW s \in Stores, EvictEntries(c, s)
    PROVE  KeptInv'
<1>1. /\ UNCHANGED recorded /\ Uses(Home[c], s)
      /\ ledger' = [ledger EXCEPT ![s] = {e \in @ : e.key \notin victims[c]}]
      /\ victims' = [victims EXCEPT ![c] = {}]
  BY DEF EvictEntries, history
<1>2. misses \in Nat /\ misses' \in Nat /\ misses <= misses'
  BY <1>1 DEF Uses, KeptInv
<1>3. /\ DOMAIN ledger' = Stores /\ DOMAIN victims' = Calls
      /\ \A t \in Stores : ledger'[t] \subseteq ledger[t]
      /\ \A d \in Calls : victims'[d] \subseteq victims[d]
  BY <1>1 DEF KeptInv
<1>4. CASE s # Redis
  <2>1. ledger'[Redis] = ledger[Redis]  BY <1>1, <1>4 DEF KeptInv, Stores
  <2>2. \A p \in Processes : ledger'[p] \subseteq ledger[p]  BY <1>3 DEF Stores
  <2> QED  BY <1>1, <1>2, <1>3, <2>1, <2>2, QuietKept
<1>5. CASE s = Redis
  <2>1. misses' = misses  BY <1>1, <1>5, ProcessesAssumption DEF Uses
  <2>2. /\ ledger'[Redis] = {e \in ledger[Redis] : e.key \notin victims[c]}
        /\ \A p \in Processes : ledger'[p] = ledger[p]
    BY <1>1, <1>5, ProcessesAssumption DEF KeptInv, Stores
  <2>3. /\ \A e : Old(e) <=> Old(e)'
        /\ \A k : Aged(k) => Aged(k)'
    BY <1>1 DEF Old, Aged
  <2>4. NewestKept'
    <3> SUFFICES ASSUME misses' <= MaxEntries,
                        \A x, y \in recorded' : x.key = y.key => x = y,
                        NEW e \in recorded', e \notin ledger'[Redis]
                 PROVE  Old(e)'
      BY Zenon DEF NewestKept, Old
    <3>1. e \in recorded  BY <1>1
    <3>2. CASE e \in ledger[Redis]
      <4>1. Aged(e.key)  BY <2>1, <2>2, <3>2 DEF KeptInv
      <4>2. PICK x \in recorded : x.key = e.key /\ Old(x)  BY <4>1 DEF Aged
      <4>3. x = e  BY <1>1, <3>1, <4>2
      <4> QED  BY <2>3, <4>2, <4>3
    <3>3. CASE e \notin ledger[Redis]
      <4>1. Old(e)  BY <1>1, <2>1, <3>1, <3>3 DEF KeptInv, NewestKept, Old
      <4> QED  BY <2>3, <4>1
    <3> QED  BY <3>2, <3>3
  <2>5. misses' <= MaxEntries => \A d \in Calls : \A k \in victims'[d] : Aged(k)'
    BY <1>3, <2>1, <2>3 DEF KeptInv
  <2> QED  BY <1>1, <1>3, <2>1, <2>2, <2>4, <2>5 DEF KeptInv
<1> QED  BY <1>4, <1>5

LEMMA StepKept == KeptInv /\ [Next]_vars => KeptInv'
<1> SUFFICES ASSUME KeptInv, [Next]_vars PROVE KeptInv'
  OBVIOUS
<1>1. ASSUME UNCHANGED <<ledger, victims, recorded>>,
             misses' = misses \/ misses' = misses + 1
      PROVE  KeptInv'
  <2>1. misses' \in Nat /\ misses <= misses'  BY <1>1 DEF KeptInv
  <2> QED  BY <1>1, <2>1, QuietKept DEF KeptInv
<1>2. ASSUME NEW c \in Calls, ToolStep(c) PROVE KeptInv'
  <2>1. ASSUME NEW s \in Stores, ReuseCompleted(c, s) PROVE KeptInv'
    BY <1>1, <2>1 DEF ReuseCompleted, Uses, history
  <2>2. ASSUME NEW s \in Stores, NEW n \in Plan(c), NodeCompletes(c, n, s) PROVE KeptInv'
    BY <2>2, RecordKept DEF NodeCompletes
  <2>3. ASSUME NEW s \in Stores, DeleteDefinition(c, s) \/ DeleteMarkers(c, s)
        PROVE  KeptInv'
    BY <1>1, <2>3 DEF DeleteDefinition, DeleteMarkers, Uses, history
  <2>4. ASSUME NEW n \in Plan(c), NodeReturnsPartial(c, n) \/ NodeFails(c, n)
        PROVE  KeptInv'
    BY <1>1, <2>4 DEF NodeReturnsPartial, NodeFails, bounds, history
  <2> QED  BY <1>2, <2>1, <2>2, <2>3, <2>4, CountKept, EvictKept DEF ToolStep
<1>3. ASSUME NEW c \in Calls, NEW s \in Stores,
             WriteDefinition(c, s) \/ ReadCompletedIds(c, s) \/ PlanResume(c, s)
      PROVE  KeptInv'
  BY <1>1, <1>3 DEF WriteDefinition, ReadCompletedIds, PlanResume, Uses, tool, store, history
<1>4. ASSUME NEW c \in Calls, NEW n, NEW s \in Stores, StoreMarker(c, n, s)
      PROVE  KeptInv'
  BY <1>1, <1>4 DEF StoreMarker, Uses, tool
<1>5. ASSUME NEW s \in Stores, ListInterrupted(s) PROVE KeptInv'
  BY <1>1, <1>5 DEF ListInterrupted, Uses, tool, store, history
<1>6. ASSUME NEW p \in Processes, Crash(p) PROVE KeptInv'
  <2>1. /\ UNCHANGED <<misses, recorded>>
        /\ ledger' = [ledger EXCEPT ![p] = {}]
        /\ victims' = [c \in Calls |-> IF c \in Lost(p) THEN {} ELSE victims[c]]
    BY <1>6 DEF Crash
  <2>2. /\ DOMAIN ledger' = Stores /\ DOMAIN victims' = Calls
        /\ \A t \in Stores : ledger'[t] \subseteq ledger[t]
        /\ \A d \in Calls : victims'[d] \subseteq victims[d]
        /\ ledger'[Redis] = ledger[Redis]
    BY <2>1, ProcessesAssumption DEF KeptInv, Stores
  <2>3. \A q \in Processes : ledger'[q] \subseteq ledger[q]  BY <2>2 DEF Stores
  <2>4. misses' \in Nat /\ misses <= misses'  BY <2>1 DEF KeptInv
  <2> QED  BY <2>1, <2>2, <2>3, <2>4, QuietKept
<1>7. ASSUME UNCHANGED vars PROVE KeptInv'
  BY <1>1, <1>7 DEF vars, tool, store, bounds, history
<1>8. ASSUME Next PROVE KeptInv'
  BY <1>2, <1>3, <1>4, <1>5, <1>6, <1>8 DEF Next
<1> QED  BY <1>7, <1>8

(* The MaxEntries newest completions Redis was given are in the ledger,    *)
(* with counts and evictions of several processes interleaved, as long as  *)
(* Redis has left at most MaxEntries store calls unanswered and no evicted *)
(* key was recorded again.                                                 *)
THEOREM NewestAreKept == Spec => []NewestKept
<1>1. KeptInv => NewestKept  BY DEF KeptInv
<1> QED  BY <1>1, InitKept, StepKept, PTL DEF Spec
=============================================================================
