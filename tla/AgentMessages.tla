---------------------------- MODULE AgentMessages ----------------------------
(***************************************************************************)
(* Direct agent messages (packages/core/src/swarm/memory.ts, ADR-003): a   *)
(* Redis stream with a consumer group per recipient, a claim that leaves   *)
(* its entries pending until they are acknowledged, redelivery of what     *)
(* stays unacknowledged, a dead-letter stream, and the in-process queue    *)
(* that stands in while Redis does not answer.                             *)
(*                                                                         *)
(* One session and one recipient; a claimer is a place where runs of that  *)
(* recipient happen one after the other (claim, run, acknowledge).  Every  *)
(* Redis command is a step of its own and may be answered, run without its *)
(* answer arriving, or fail.  Time is left out: a visibility window may    *)
(* elapse whenever Patient allows it.  Order within a batch, malformed     *)
(* payloads, the TTL of a session's keys, and the caps on stream (500),    *)
(* queue (50) and seen-set (1000) are left out.                            *)
(***************************************************************************)
EXTENDS Integers, Sequences, FiniteSets

CONSTANTS
  Messages,      \* message ids
  Claimers,      \* runs of the recipient that claim messages
  Process,       \* gateway processes
  Home,          \* the process of each claimer
  Sender,        \* the process each message is sent from
  Legacy,        \* the lists an earlier version may have left behind
  MaxDeliveries, \* MSG_MAX_DELIVERIES
  Connection,    \* "always", "sometimes" or "never": how Redis is reached
  Patient,       \* no visibility window elapses under a run still going on
  MaxStream,     \* bound of the model: entries the stream may get
  NoOne          \* not a claimer

ASSUME MessagesAssumption ==
  /\ Home \in [Claimers -> Process]
  /\ Sender \in [Messages -> Process]
  /\ Legacy \subseteq Seq(Messages)
  /\ MaxDeliveries \in Nat \ {0}
  /\ Connection \in {"always", "sometimes", "never"}
  /\ Patient \in BOOLEAN
  /\ MaxStream \in Nat
  /\ NoOne \notin Claimers

VARIABLES
  \* Redis
  stream,      \* the entries of the recipient's stream: the message each carries
  last,        \* the last entry handed to the consumer group
  pending,     \* entries claimed and not acknowledged
  idle,        \* those of them whose visibility window has elapsed
  deliveries,  \* how often each entry was handed out
  seen,        \* the set of processed message ids
  dead,        \* the dead-letter stream
  legacy,      \* the pre-upgrade list
  online,      \* whether a process reaches Redis
  \* the processes
  memory,      \* what each process keeps in memory
  run,         \* where each claimer is, and what its claim holds
  \* what happened (read by the properties only)
  sent,        \* messages sent
  done,        \* messages whose effect some run committed
  acked,       \* messages whose acknowledgement returned without an error
  forgotten    \* messages that were in a process's memory when it crashed

group == <<stream, last, pending, idle, deliveries>>
redis == <<group, seen, dead, legacy>>
history == <<sent, done, acked, forgotten>>
vars == <<redis, online, memory, run, history>>

Claiming == {"head", "copy", "pop", "drain", "ask", "reclaim", "bury", "read", "check", "skip"}
Working == {"running", "acking", "marking"}

\* A process's memory: _messages, _pendingClaims, _deliveries, _deadLocal, and
\* _seenLocal: the sets claims created, by claimer, and whose set is stored.
Claim == [by : Claimers, msgs : SUBSET Messages]
Memory == [parked : SUBSET Messages, claims : SUBSET Claim, tries : [Messages -> Nat],
           buried : SUBSET Messages, known : [Claimers -> SUBSET Messages],
           stored : Claimers \union {NoOne}]
Started == [parked |-> {}, claims |-> {}, tries |-> [m \in Messages |-> 0],
            buried |-> {}, known |-> [c \in Claimers |-> {}], stored |-> NoOne]

\* A claim: the legacy message it is moving, the parked messages it is moving,
\* the entries it is to acknowledge unprocessed (at the delivery ceiling, or
\* processed before), those it claimed,
\* the messages its run was given, whether they came from the in-process
\* queue, and the seen-set it captured then.
Run == [at : {"idle"} \union Claiming \union Working,
        head : SUBSET Messages, taken : SUBSET Messages,
        doomed : SUBSET Nat, got : SUBSET Nat, hand : SUBSET Messages,
        local : BOOLEAN, ref : Claimers \union {NoOne}]
NoRun == [at |-> "idle", head |-> {}, taken |-> {}, doomed |-> {}, got |-> {},
          hand |-> {}, local |-> FALSE, ref |-> NoOne]

Elements(s) == {s[i] : i \in DOMAIN s}
Least(a, b) == IF a < b THEN a ELSE b
Handled(n) == Least(n + 1, MaxDeliveries + 1)

Init ==
  /\ stream = <<>> /\ last = 0 /\ pending = {} /\ idle = {} /\ deliveries = <<>>
  /\ seen = {} /\ dead = {} /\ legacy \in Legacy
  /\ online = [p \in Process |-> Connection # "never"]
  /\ memory = [p \in Process |-> Started]
  /\ run = [c \in Claimers |-> NoRun]
  /\ sent = Elements(legacy)
  /\ done = {}
  /\ acked = {} /\ forgotten = {}

-----------------------------------------------------------------------------
(* Redis *)

\* A command: answered, run with its answer lost, or not run.
Command(p, Effect, Answered, Failed) ==
  \/ online[p] /\ Effect /\ Answered /\ UNCHANGED online
  \/ /\ online[p] /\ Connection = "sometimes"
     /\ Effect /\ Failed
     /\ online' = [online EXCEPT ![p] = FALSE]
  \/ ~online[p] /\ Failed /\ UNCHANGED <<redis, online>>

\* XADD to the recipient's stream.
Add(m) ==
  /\ Len(stream) < MaxStream
  /\ stream' = Append(stream, m)
  /\ deliveries' = Append(deliveries, 0)
  /\ UNCHANGED <<last, pending, idle, seen, dead>>

\* XACK
Acknowledge(E) ==
  /\ pending' = pending \ E
  /\ idle' = idle \ E
  /\ UNCHANGED <<stream, last, deliveries>>

HandOut(E) == deliveries' = [e \in DOMAIN deliveries |->
                               IF e \in E THEN Handled(deliveries[e]) ELSE deliveries[e]]

-----------------------------------------------------------------------------
(* Sending: appendAgentMessage *)

\* An error anywhere parks the message in the process, also when its entry is
\* in the stream already.
Send(m) ==
  LET p == Sender[m]
  IN  /\ m \notin sent
      /\ sent' = sent \union {m}
      /\ Command(p, Add(m) /\ UNCHANGED legacy,
                 UNCHANGED memory,
                 memory' = [memory EXCEPT ![p].parked = @ \union {m}])
      /\ UNCHANGED <<run, done, acked, forgotten>>

-----------------------------------------------------------------------------
(* Claiming: claimAgentMessages *)

Set(c, r) == run' = [run EXCEPT ![c] = r]
Go(c, r) == Set(c, r) /\ UNCHANGED memory

\* Mutant: every claim is judged by the caller's window.
LapsedByCaller(p) == memory[p].claims

\* The claims of a process whose visibility window may have elapsed.
Lapsed(p) ==
  {k \in memory[p].claims :
     Patient => ~(run[k.by].at \in Working /\ run[k.by].local /\ run[k.by].hand = k.msgs)}

Tried(p, m) == IF memory[p].tries[m] = 0 THEN 1 ELSE memory[p].tries[m]

\* The seen-set a claim captures: the stored one, or one of its own.
SeenSet(c) == IF memory[Home[c]].stored = NoOne THEN c ELSE memory[Home[c]].stored
Known(c) ==
  IF memory[Home[c]].stored = NoOne THEN {} ELSE memory[Home[c]].known[SeenSet(c)]

\* The messages of expired claims, and those of them at the ceiling.
Back(expired) == UNION {k.msgs : k \in expired}
Over(p, expired) == {m \in Back(expired) : Tried(p, m) >= MaxDeliveries}

Matched(c, expired) ==
  (memory[Home[c]].parked \union (Back(expired) \ Over(Home[c], expired))) \ Known(c)

\* The memory after a claim: what expired is requeued, what reached the ceiling
\* dead-lettered, what is not known to be processed taken, the rest discarded.
Claimed(c, expired) ==
  LET mine == memory[Home[c]]
      matched == Matched(c, expired)
  IN  [mine EXCEPT
         !.parked = {},
         !.claims = (@ \ expired) \union
                      {k \in {[by |-> c, msgs |-> matched]} : matched # {}},
         !.tries = [m \in Messages |-> IF m \in matched THEN Handled(@[m]) ELSE @[m]],
         !.buried = @ \union Over(Home[c], expired),
         !.known[SeenSet(c)] = Known(c)]

\* The in-process queue, in one synchronous block.
LocalClaim(c) ==
  \E expired \in SUBSET Lapsed(Home[c]) :
    LET matched == Matched(c, expired)
    IN  /\ memory' = [memory EXCEPT ![Home[c]] = Claimed(c, expired)]
        /\ Set(c, IF matched = {} THEN NoRun
                  ELSE [NoRun EXCEPT !.at = "running", !.hand = matched,
                                     !.local = TRUE, !.ref = SeenSet(c)])

\* A command of a claim; an error leads to the in-process queue.
ClaimCommand(c, Effect, Answered) ==
  Command(Home[c], Effect, Answered, LocalClaim(c)) /\ UNCHANGED history

\* Redis answers (getRedis, XGROUP CREATE).
Begin(c) ==
  /\ run[c].at = "idle"
  /\ ClaimCommand(c, UNCHANGED redis, Go(c, [run[c] EXCEPT !.at = "head"]))

\* drainLocalFallbackMessages takes the whole queue before its first XADD.
TakeParked(c) ==
  /\ Set(c, [run[c] EXCEPT !.at = "drain", !.head = {}, !.taken = memory[Home[c]].parked])
  /\ memory' = [memory EXCEPT ![Home[c]].parked = {}]

\* drainLegacyMessageList: LINDEX 0, XADD, LPOP, until the list is empty or a
\* command fails.
ReadHeadPops(c) == \* mutant: the head is removed when it is read
  /\ run[c].at = "head"
  /\ Command(Home[c],
             legacy' = SubSeq(legacy, 2, Len(legacy)) /\ UNCHANGED <<group, seen, dead>>,
             IF legacy = <<>> THEN TakeParked(c)
             ELSE Go(c, [run[c] EXCEPT !.at = "copy", !.head = {Head(legacy)}]),
             TakeParked(c))
  /\ UNCHANGED history

ReadHead(c) ==
  /\ run[c].at = "head"
  /\ Command(Home[c], UNCHANGED redis,
             IF legacy = <<>> THEN TakeParked(c)
             ELSE Go(c, [run[c] EXCEPT !.at = "copy", !.head = {Head(legacy)}]),
             TakeParked(c))
  /\ UNCHANGED history

CopyHead(c) ==
  /\ run[c].at = "copy"
  /\ \E m \in run[c].head :
       Command(Home[c], Add(m) /\ UNCHANGED legacy,
               Go(c, [run[c] EXCEPT !.at = "pop"]), TakeParked(c))
  /\ UNCHANGED history

\* LPOP removes whatever heads the list now.
PopHead(c) ==
  /\ run[c].at = "pop"
  /\ Command(Home[c],
             legacy' = SubSeq(legacy, 2, Len(legacy)) /\ UNCHANGED <<group, seen, dead>>,
             Go(c, [run[c] EXCEPT !.at = "head", !.head = {}]), TakeParked(c))
  /\ UNCHANGED history

\* Parked messages move into the stream; an error puts the rest back.
PutBack(c) == memory' = [memory EXCEPT ![Home[c]].parked = @ \union run[c].taken]

Drain(c) ==
  /\ run[c].at = "drain"
  /\ \/ \E m \in run[c].taken :
          Command(Home[c], Add(m) /\ UNCHANGED legacy,
                  Go(c, [run[c] EXCEPT !.taken = @ \ {m}]),
                  /\ PutBack(c)
                  /\ Set(c, [run[c] EXCEPT !.at = "ask", !.taken = {}]))
     \/ /\ run[c].taken = {}
        /\ Go(c, [run[c] EXCEPT !.at = "ask"])
        /\ UNCHANGED <<redis, online>>
  /\ UNCHANGED history

\* XPENDING: which idle entries are at the ceiling.
AtCeiling == {e \in idle : deliveries[e] >= MaxDeliveries}

Ask(c) ==
  /\ run[c].at = "ask"
  /\ ClaimCommand(c, UNCHANGED redis,
                  Go(c, [run[c] EXCEPT !.at = "reclaim", !.doomed = AtCeiling]))

\* Mutant: no entry at the ceiling is reclaimed.
ReclaimableBelow == idle \ AtCeiling

\* XAUTOCLAIM: the idle entries become this consumer's.
Reclaimable == idle

Reclaim(c) ==
  /\ run[c].at = "reclaim"
  /\ ClaimCommand(c,
       /\ idle' = idle \ Reclaimable
       /\ HandOut(Reclaimable)
       /\ UNCHANGED <<stream, last, pending, seen, dead, legacy>>,
       Go(c, [run[c] EXCEPT !.at = "bury", !.got = Reclaimable]))

\* Mutant: what XPENDING listed is dead-lettered, not what XAUTOCLAIM returned.
BuriedAsListed(c) == run[c].doomed

\* Dead-letter the entries at the ceiling: XADD to the dead stream, XACK.
Buried(c) == run[c].got \intersect run[c].doomed

Bury(c) ==
  /\ run[c].at = "bury"
  /\ \/ \E e \in Buried(c) :
          ClaimCommand(c,
            dead' = dead \union {stream[e]} /\ Acknowledge({e}) /\ UNCHANGED <<seen, legacy>>,
            Go(c, [run[c] EXCEPT !.got = @ \ {e}, !.doomed = @ \ {e}]))
     \/ \E e \in Buried(c) : \* the connection breaks between the two
          /\ online[Home[c]] /\ Connection = "sometimes"
          /\ online' = [online EXCEPT ![Home[c]] = FALSE]
          /\ dead' = dead \union {stream[e]}
          /\ LocalClaim(c)
          /\ UNCHANGED <<group, seen, legacy, history>>
     \/ /\ Buried(c) = {}
        /\ Go(c, [run[c] EXCEPT !.at = "read"])
        /\ UNCHANGED <<redis, online, history>>

\* XREADGROUP >: everything not yet handed to the group.
Fresh == last + 1 .. Len(stream)

Read(c) ==
  /\ run[c].at = "read"
  /\ ClaimCommand(c,
       /\ last' = Len(stream)
       /\ pending' = pending \union Fresh
       /\ HandOut(Fresh)
       /\ UNCHANGED <<stream, idle, seen, dead, legacy>>,
       Go(c, [run[c] EXCEPT !.at = "check", !.got = @ \union Fresh]))

\* SMISMEMBER: what was processed before is left out of the batch ...
Processed(c) == {e \in run[c].got : stream[e] \in seen}
Batch(c) == run[c].got \ Processed(c)

\* A claim without messages ends; there is nothing to acknowledge.
Deliver(r) == IF r.hand = {} THEN NoRun ELSE [r EXCEPT !.at = "running"]

Check(c) ==
  LET batch == [NoRun EXCEPT !.at = "skip", !.got = Batch(c), !.doomed = Processed(c),
                             !.hand = {stream[e] : e \in Batch(c)}]
  IN  /\ run[c].at = "check"
      /\ ClaimCommand(c, UNCHANGED redis,
                      Go(c, IF Processed(c) = {} THEN Deliver(batch) ELSE batch))

\* ... and acknowledged, entry by entry (XACK).
Skip(c) ==
  /\ run[c].at = "skip"
  /\ \E e \in run[c].doomed :
       ClaimCommand(c,
         Acknowledge({e}) /\ UNCHANGED <<seen, dead, legacy>>,
         Go(c, IF run[c].doomed = {e} THEN Deliver([run[c] EXCEPT !.doomed = {}])
               ELSE [run[c] EXCEPT !.doomed = @ \ {e}]))

-----------------------------------------------------------------------------
(* The run and its acknowledgement *)

\* The attempt is recorded as completed or partial: the effect is durable.
Commit(c) ==
  /\ run[c].at = "running"
  /\ done' = done \union run[c].hand
  /\ Go(c, [run[c] EXCEPT !.at = "acking"])
  /\ UNCHANGED <<redis, online, sent, acked, forgotten>>

\* Mutant: a failed run's claim is acknowledged.
AbandonAcks(c) ==
  /\ run[c].at = "running"
  /\ Go(c, [run[c] EXCEPT !.at = "acking"])
  /\ UNCHANGED <<redis, online, history>>

\* The run failed: its claim is left for redelivery.
Abandon(c) ==
  /\ run[c].at = "running"
  /\ Go(c, NoRun)
  /\ UNCHANGED <<redis, online, history>>

\* XACK ...
AckEntries(c) ==
  /\ run[c].at = "acking" /\ ~run[c].local
  /\ Command(Home[c], Acknowledge(run[c].got) /\ UNCHANGED <<seen, dead, legacy>>,
             Go(c, [run[c] EXCEPT !.at = "marking"]), Go(c, NoRun))
  /\ UNCHANGED history

\* ... then SADD of the ids.
MarkSeen(c) ==
  /\ run[c].at = "marking"
  /\ Command(Home[c], seen' = seen \union run[c].hand /\ UNCHANGED <<group, dead, legacy>>,
             acked' = acked \union run[c].hand, UNCHANGED acked)
  /\ Go(c, NoRun)
  /\ UNCHANGED <<sent, done, forgotten>>

\* The in-process acknowledgement: the captured seen-set becomes the stored one.
AckLocal(c) ==
  LET p == Home[c]
      hand == run[c].hand
      set == run[c].ref
  IN  /\ run[c].at = "acking" /\ run[c].local
      /\ memory' = [memory EXCEPT
           ![p].claims = @ \ {[by |-> c, msgs |-> hand]},
           ![p].tries = [m \in Messages |-> IF m \in hand THEN 0 ELSE @[m]],
           ![p].known[set] = @ \union hand,
           ![p].stored = set]
      /\ acked' = acked \union hand
      /\ Set(c, NoRun)
      /\ UNCHANGED <<redis, online, sent, done, forgotten>>

-----------------------------------------------------------------------------
(* The environment *)

Disconnect(p) ==
  /\ online[p] /\ Connection = "sometimes"
  /\ online' = [online EXCEPT ![p] = FALSE]
  /\ UNCHANGED <<redis, memory, run, history>>

Reconnect(p) ==
  /\ ~online[p] /\ Connection = "sometimes"
  /\ online' = [online EXCEPT ![p] = TRUE]
  /\ UNCHANGED <<redis, memory, run, history>>

\* An unacknowledged entry's visibility window elapses.
Elapse(e) ==
  /\ e \in pending \ idle
  /\ Patient => \A c \in Claimers : e \notin run[c].got
  /\ idle' = idle \union {e}
  /\ UNCHANGED <<stream, last, pending, deliveries, seen, dead, legacy, online, memory, run,
                 history>>

\* A process dies with its queue, its claims and the runs in it.
Kept(p) ==
  memory[p].parked \union memory[p].buried \union Back(memory[p].claims)
    \union (UNION {run[c].taken : c \in {d \in Claimers : Home[d] = p}})

Crash(p) ==
  /\ run' = [c \in Claimers |-> IF Home[c] = p THEN NoRun ELSE run[c]]
  /\ memory' = [memory EXCEPT ![p] = Started]
  /\ forgotten' = forgotten \union Kept(p)
  /\ UNCHANGED <<redis, online, sent, done, acked>>

-----------------------------------------------------------------------------

ClaimStep(c) ==
  \/ Begin(c)
  \/ ReadHead(c) \/ CopyHead(c) \/ PopHead(c) \/ Drain(c)
  \/ Ask(c) \/ Reclaim(c) \/ Bury(c) \/ Read(c) \/ Check(c) \/ Skip(c)
  \/ AckEntries(c) \/ MarkSeen(c) \/ AckLocal(c)

Work ==
  \/ \E m \in Messages : Send(m)
  \/ \E c \in Claimers : ClaimStep(c) \/ Commit(c) \/ Abandon(c)
  \/ \E e \in 1 .. MaxStream : Elapse(e)
  \/ \E p \in Process : Disconnect(p) \/ Reconnect(p)

Next == Work \/ \E p \in Process : Crash(p)

Spec == Init /\ [][Next]_vars

\* Claimers come back, runs end, windows elapse and a lost connection is tried
\* again; nothing forces a run to succeed.
Fairness ==
  /\ \A c \in Claimers : WF_vars(ClaimStep(c)) /\ WF_vars(Commit(c) \/ Abandon(c))
  /\ \A e \in 1 .. MaxStream : WF_vars(Elapse(e))
  /\ \A p \in Process : WF_vars(Reconnect(p))

FairSpec == Spec /\ Fairness

-----------------------------------------------------------------------------
(* Properties *)

TypeOK ==
  /\ stream \in Seq(Messages)
  /\ last \in 0 .. Len(stream)
  /\ pending \subseteq 1 .. last
  /\ idle \subseteq pending
  /\ deliveries \in Seq(0 .. MaxDeliveries + 1) /\ Len(deliveries) = Len(stream)
  /\ seen \subseteq Messages /\ dead \subseteq Messages
  /\ legacy \in Seq(Messages)
  /\ online \in [Process -> BOOLEAN]
  /\ memory \in [Process -> Memory]
  /\ run \in [Claimers -> Run]
  /\ \A c \in Claimers : run[c].got \subseteq 1 .. last
  /\ sent \subseteq Messages
  /\ done \subseteq Messages
  /\ acked \subseteq Messages /\ forgotten \subseteq Messages

\* Where a message that still has to be handled can be found.
Waiting(m) ==
  \/ \E e \in DOMAIN stream : stream[e] = m /\ (e > last \/ e \in pending)
  \/ m \in Elements(legacy)
  \/ \E p \in Process : m \in memory[p].parked \/ \E k \in memory[p].claims : m \in k.msgs
  \/ \E c \in Claimers : m \in run[c].taken

Settled(m) ==
  \/ m \in done \/ m \in dead \/ m \in forgotten
  \/ \E p \in Process : m \in memory[p].buried

\* No message gets lost: at every moment, through claims, drains, redeliveries,
\* lost answers and crashes, a sent message waits somewhere a later claim looks,
\* or a run committed its effect, or it was dead-lettered (or a process died
\* with it in its memory).
NothingLost == \A m \in sent : Waiting(m) \/ Settled(m)

\* A seen-set, in Redis or in a process, only holds messages whose effect some
\* run committed: filtering by it never drops work.
SeenMeansDone ==
  /\ seen \union acked \subseteq done
  /\ \A p \in Process, c \in Claimers : memory[p].known[c] \subseteq done

\* With Redis steady and runs inside their windows, a message that was
\* acknowledged is not also dead-lettered, however its deliveries were counted.
AckedNeverDead == Patient /\ Connection = "always" => acked \intersect dead = {}

\* While no window elapses under a run, no two claimers hold the same entry of
\* the stream, and no two of a process the same message of its own queue,
\* though claims expire and are requeued by whoever claims next: redelivery
\* never runs a message beside the run that has it.
Exclusive ==
  Patient => \A c, d \in Claimers : c # d =>
               /\ run[c].got \intersect run[d].got = {}
               /\ run[c].local /\ run[d].local => run[c].hand \intersect run[d].hand = {}

\* Once Redis stays reachable, processes stay up, and windows no longer elapse
\* just between a claim's XPENDING and its XAUTOCLAIM, every message sent ends up
\* handled or dead-lettered, also when each of its runs fails.
Undisturbed == Work /\ (idle' \subseteq idle \/ \A c \in Claimers : run[c].at # "reclaim")

Calm ==
  /\ <>[](\A p \in Process : online[p])
  /\ <>[][Undisturbed]_vars
  /\ [](Len(stream) < MaxStream) \* the model's bound is not what stops it

EventuallySettled == Calm => <>[](\A m \in sent : Settled(m))

=============================================================================
