------------------------- MODULE AgentMessagesProofs -------------------------
(***************************************************************************)
(* Proofs about AgentMessages, for any messages, claimers, processes and   *)
(* legacy lists, and however Redis is reached.                             *)
(*                                                                         *)
(* A step of a claimer is one of a few effects on Redis (RedisEffect) and  *)
(* one of five moves of the claimer and its process's memory (Moves): the  *)
(* in-process queue is claimed, is taken, is put back or is acknowledged,  *)
(* or the claimer goes on by itself.  The invariants are proved over       *)
(* effects and moves, whichever command brought them about.                *)
(***************************************************************************)
EXTENDS AgentMessages, SequenceTheorems, TLAPS

-----------------------------------------------------------------------------
(* Types. *)

Counts == 0 .. MaxDeliveries + 1

StoreTypes ==
  /\ stream \in Seq(Messages)
  /\ last \in 0 .. Len(stream)
  /\ pending \subseteq 1 .. last
  /\ idle \subseteq pending
  /\ deliveries \in Seq(Counts) /\ Len(deliveries) = Len(stream)
  /\ seen \subseteq Messages /\ dead \subseteq Messages
  /\ legacy \in Seq(Messages)

LocalTypes ==
  /\ online \in [Process -> BOOLEAN]
  /\ memory \in [Process -> Memory]
  /\ run \in [Claimers -> Run]

HistoryTypes ==
  sent \subseteq Messages /\ done \subseteq Messages /\ acked \subseteq Messages
    /\ forgotten \subseteq Messages

\* Claimed entries were handed out; only a run of messages from the in-process
\* queue is a local one.
RunTypes ==
  \A c \in Claimers :
    /\ run[c].got \subseteq 1 .. last
    /\ run[c].local => run[c].at \in {"running", "acking"}

Types == StoreTypes /\ LocalTypes /\ HistoryTypes /\ RunTypes

-----------------------------------------------------------------------------
(* What a command does to Redis. *)

Reclaimed ==
  /\ idle' = idle \ Reclaimable
  /\ HandOut(Reclaimable)
  /\ UNCHANGED <<stream, last, pending, seen, dead, legacy>>

HandedOut ==
  /\ last' = Len(stream)
  /\ pending' = pending \union Fresh
  /\ HandOut(Fresh)
  /\ UNCHANGED <<stream, idle, seen, dead, legacy>>

Popped == legacy' = SubSeq(legacy, 2, Len(legacy)) /\ UNCHANGED <<group, seen, dead>>

RedisEffect ==
  \/ UNCHANGED redis
  \/ \E m \in Messages : Add(m) /\ UNCHANGED legacy
  \/ Popped
  \/ Reclaimed
  \/ HandedOut
  \/ \E E \in SUBSET Nat : Acknowledge(E) /\ UNCHANGED <<seen, dead, legacy>>
  \/ \E e \in 1 .. last : /\ dead' = dead \union {stream[e]}
                          /\ UNCHANGED <<seen, legacy>>
                          /\ Acknowledge({e}) \/ UNCHANGED group
  \/ \E M \in SUBSET Messages : seen' = seen \union M /\ UNCHANGED <<group, dead, legacy>>

LEMMA HandOutKeeps ==
  ASSUME deliveries \in Seq(Counts), NEW E, HandOut(E)
  PROVE  deliveries' \in Seq(Counts) /\ Len(deliveries') = Len(deliveries)
<1>1. /\ Len(deliveries) \in Nat /\ DOMAIN deliveries = 1 .. Len(deliveries)
      /\ deliveries \in [1 .. Len(deliveries) -> Counts]
  BY LenProperties
<1>2. \A n \in Counts : Handled(n) \in Counts
  BY MessagesAssumption DEF MessagesAssumption, Handled, Least, Counts
<1>3. deliveries' \in [1 .. Len(deliveries) -> Counts]
  BY <1>1, <1>2 DEF HandOut
<1>4. deliveries' \in Seq(Counts)
  BY <1>1, <1>3, SeqDef
<1>5. DOMAIN deliveries' = 1 .. Len(deliveries')
  BY <1>4, LenProperties
<1>6. Len(deliveries') \in Nat
  BY <1>4, LenProperties
<1>7. 1 .. Len(deliveries') = 1 .. Len(deliveries)
  BY <1>3, <1>5
<1> QED  BY <1>1, <1>4, <1>6, <1>7

LEMMA PopKeeps ==
  ASSUME NEW s \in Seq(Messages)
  PROVE  SubSeq(s, 2, Len(s)) \in Seq(Messages)
<1>1. Len(s) \in Nat /\ \A i \in 2 .. Len(s) : s[i] \in Messages
  BY LenProperties, ElementOfSeq
<1> QED  BY <1>1, SubSeqProperties

LEMMA EffectTypes ==
  ASSUME StoreTypes, RedisEffect
  PROVE  /\ StoreTypes'
         /\ last <= last' /\ last' \in Nat
<1> USE DEF StoreTypes
<1>0. Len(stream) \in Nat /\ last \in Nat /\ last <= Len(stream)  BY LenProperties
<1>1. CASE UNCHANGED redis
  BY <1>0, <1>1 DEF redis, group
<1>2. ASSUME NEW m \in Messages, Add(m), UNCHANGED legacy
      PROVE  StoreTypes' /\ last <= last' /\ last' \in Nat
  <2>1. stream' \in Seq(Messages) /\ Len(stream') = Len(stream) + 1
    BY <1>2 DEF Add
  <2>2. deliveries' \in Seq(Counts) /\ Len(deliveries') = Len(stream')
    <3>1. 0 \in Counts  BY MessagesAssumption DEF MessagesAssumption, Counts
    <3> QED  BY <1>2, <2>1, <3>1 DEF Add
  <2> QED  BY <1>0, <1>2, <2>1, <2>2 DEF Add
<1>3. CASE Popped
  BY <1>0, <1>3, PopKeeps DEF Popped, group
<1>4. CASE Reclaimed
  <2>1. HandOut(Reclaimable)  BY <1>4 DEF Reclaimed
  <2>2. deliveries' \in Seq(Counts) /\ Len(deliveries') = Len(deliveries)
    BY <2>1, HandOutKeeps
  <2>3. /\ stream' = stream /\ last' = last /\ pending' = pending /\ seen' = seen
        /\ dead' = dead /\ legacy' = legacy /\ idle' \subseteq idle
    BY <1>4 DEF Reclaimed
  <2> QED  BY <1>0, <2>2, <2>3
<1>5. CASE HandedOut
  <2>1. HandOut(Fresh)  BY <1>5 DEF HandedOut
  <2>2. deliveries' \in Seq(Counts) /\ Len(deliveries') = Len(deliveries)
    BY <2>1, HandOutKeeps
  <2>3. last' = Len(stream) /\ stream' = stream /\ pending' = pending \union Fresh
    BY <1>5 DEF HandedOut
  <2>4. pending' \subseteq 1 .. last'
    <3>1. 1 .. last \subseteq 1 .. Len(stream) /\ Fresh \subseteq 1 .. Len(stream)
      BY <1>0 DEF Fresh
    <3> QED  BY <2>3, <3>1
  <2> QED  BY <1>0, <1>5, <2>2, <2>3, <2>4 DEF HandedOut
<1>6. ASSUME NEW E \in SUBSET Nat, Acknowledge(E), UNCHANGED <<seen, dead, legacy>>
      PROVE  StoreTypes' /\ last <= last' /\ last' \in Nat
  BY <1>0, <1>6 DEF Acknowledge
<1>7. ASSUME NEW e \in 1 .. last, dead' = dead \union {stream[e]}, UNCHANGED <<seen, legacy>>,
             Acknowledge({e}) \/ UNCHANGED group
      PROVE  StoreTypes' /\ last <= last' /\ last' \in Nat
  <2>1. e \in 1 .. Len(stream)  BY <1>0
  <2>2. stream[e] \in Messages  BY <2>1, ElementOfSeq
  <2>3. /\ stream' = stream /\ last' = last /\ pending' \subseteq pending /\ seen' = seen
        /\ legacy' = legacy /\ idle' \subseteq pending' /\ deliveries' = deliveries
    BY <1>7 DEF Acknowledge, group
  <2>4. dead' \subseteq Messages  BY <1>7, <2>2
  <2> QED  BY <1>0, <2>3, <2>4
<1>8. ASSUME NEW M \in SUBSET Messages, seen' = seen \union M, UNCHANGED <<group, dead, legacy>>
      PROVE  StoreTypes' /\ last <= last' /\ last' \in Nat
  BY <1>0, <1>8 DEF group
<1> QED  BY <1>1, <1>2, <1>3, <1>4, <1>5, <1>6, <1>7, <1>8 DEF RedisEffect

-----------------------------------------------------------------------------
(* What becomes of a claimer. *)

\* Where it stands in the legacy list: it has read its head, or copied it.
HeadRead(c, r) ==
  /\ r.at \in {"copy", "pop"} => legacy' = legacy
  /\ r.at = "copy" => r.head = {Head(legacy)}
  /\ r.at = "pop" => run[c].at = "copy" /\ \E m \in run[c].head : Add(m)

\* It goes on as r: it gains no messages, except entries that it took out of
\* idle or that were never handed out; what it had taken and has no longer is in
\* the stream; and what it has done is what it says.
GoesOn(c, r) ==
  /\ r \in Run
  /\ r.taken \subseteq run[c].taken
  /\ run[c].at = "drain" => \A m \in run[c].taken \ r.taken : Add(m)
  /\ r.local => /\ run[c].local /\ r.hand = run[c].hand
                /\ r.at \in {"running", "acking"}
  /\ r.at \in {"acking", "marking"} =>
       r.hand = run[c].hand /\ (run[c].at \in {"acking", "marking"} \/ r.hand \subseteq done')
  /\ \/ r.got \subseteq run[c].got
     \/ r.got \subseteq idle /\ Reclaimed
     \/ r.got \subseteq run[c].got \union Fresh /\ HandedOut
  /\ HeadRead(c, r)

PutsBack(c) == PutBack(c) /\ Set(c, [run[c] EXCEPT !.at = "ask", !.taken = {}])

Moves(c) ==
  \/ \E r \in Run : GoesOn(c, r) /\ Go(c, r)
  \/ run[c].at # "drain" /\ LocalClaim(c)
  \/ run[c].at \in {"head", "copy", "pop"} /\ TakeParked(c)
  \/ run[c].at = "drain" /\ PutsBack(c)
  \/ AckLocal(c)

\* What it leaves on record.
Records(c) ==
  /\ sent' = sent /\ forgotten' = forgotten
  /\ done \subseteq done' /\ done' \subseteq done \union run[c].hand
  /\ seen' \union acked' \subseteq seen \union acked \union
       (IF run[c].at \in {"acking", "marking"} THEN run[c].hand ELSE {})

Does(c) == RedisEffect /\ Moves(c) /\ Records(c)

LEMMA GoesOnSame ==
  ASSUME NEW c \in Claimers, run[c] \in Run, ~run[c].local, NEW a \in Claiming \ {"copy", "pop"}
  PROVE  LET r == [run[c] EXCEPT !.at = a] IN r \in Run /\ GoesOn(c, r)
BY DEF GoesOn, HeadRead, Run, Claiming, Working

LEMMA GoesOnIdle ==
  ASSUME NEW c \in Claimers, run[c] \in Run, run[c].at # "drain"
  PROVE  NoRun \in Run /\ GoesOn(c, NoRun)
BY DEF GoesOn, HeadRead, Run, NoRun

\* A claimer that claims is not working.
LEMMA ClaimingRun ==
  ASSUME Types, NEW c \in Claimers
  PROVE  /\ run[c] \in Run
         /\ run[c].at \notin {"running", "acking"} => ~run[c].local
         /\ run[c].got \subseteq 1 .. last
BY DEF Types, LocalTypes, RunTypes, Run

LEMMA BeginDoes == ASSUME Types, NEW c \in Claimers, Begin(c) PROVE Does(c)
<1> DEFINE r == [run[c] EXCEPT !.at = "head"]
<1>1. r \in Run /\ GoesOn(c, r)
  BY ClaimingRun, GoesOnSame DEF Begin, Claiming
<1>2. Go(c, r) \/ LocalClaim(c)
  BY DEF Begin, ClaimCommand, Command
<1>3. RedisEffect /\ Records(c)
  BY DEF Begin, ClaimCommand, Command, RedisEffect, Records, redis, history
<1> QED  BY <1>1, <1>2, <1>3 DEF Does, Moves, Begin

LEMMA ReadHeadDoes == ASSUME Types, NEW c \in Claimers, ReadHead(c) PROVE Does(c)
<1> DEFINE r == [run[c] EXCEPT !.at = "copy", !.head = {Head(legacy)}]
<1>1. legacy # <<>> /\ legacy' = legacy => r \in Run /\ GoesOn(c, r)
  <2>1. legacy # <<>> => Head(legacy) \in Messages
    BY HeadTailProperties DEF Types, StoreTypes
  <2>2. run[c] \in Run /\ ~run[c].local  BY ClaimingRun DEF ReadHead
  <2> QED  BY <2>1, <2>2 DEF GoesOn, HeadRead, Run, Claiming, Working
<1>2. (legacy # <<>> /\ legacy' = legacy /\ Go(c, r)) \/ TakeParked(c)
  BY DEF ReadHead, Command, redis
<1>3. RedisEffect /\ Records(c)
  BY DEF ReadHead, Command, RedisEffect, Records, redis, history
<1> QED  BY <1>1, <1>2, <1>3 DEF Does, Moves, ReadHead

LEMMA CopyHeadDoes == ASSUME Types, NEW c \in Claimers, CopyHead(c) PROVE Does(c)
<1> DEFINE r == [run[c] EXCEPT !.at = "pop"]
<1>1. ASSUME legacy' = legacy, \E m \in run[c].head : Add(m)
      PROVE  r \in Run /\ GoesOn(c, r)
  <2>1. run[c] \in Run /\ ~run[c].local /\ run[c].at = "copy"  BY ClaimingRun DEF CopyHead
  <2> QED  BY <1>1, <2>1 DEF GoesOn, HeadRead, Run, Claiming, Working
<1>2. \/ Go(c, r) /\ legacy' = legacy /\ \E m \in run[c].head : Add(m)
      \/ TakeParked(c)
  BY DEF CopyHead, Command
<1>3. run[c].head \subseteq Messages  BY ClaimingRun DEF Run
<1>4. RedisEffect /\ Records(c)
  BY <1>3 DEF CopyHead, Command, RedisEffect, Records, redis, history, Add
<1> QED  BY <1>1, <1>2, <1>4 DEF Does, Moves, CopyHead

LEMMA PopHeadDoes == ASSUME Types, NEW c \in Claimers, PopHead(c) PROVE Does(c)
<1> DEFINE r == [run[c] EXCEPT !.at = "head", !.head = {}]
<1>1. r \in Run /\ GoesOn(c, r)
  <2>1. run[c] \in Run /\ ~run[c].local  BY ClaimingRun DEF PopHead
  <2> QED  BY <2>1 DEF GoesOn, HeadRead, Run, Claiming, Working
<1>2. Go(c, r) \/ TakeParked(c)
  BY DEF PopHead, Command
<1>3. RedisEffect /\ Records(c)
  BY DEF PopHead, Command, RedisEffect, Records, redis, history, Popped
<1> QED  BY <1>1, <1>2, <1>3 DEF Does, Moves, PopHead

LEMMA DrainDoes == ASSUME Types, NEW c \in Claimers, Drain(c) PROVE Does(c)
<1>1. run[c] \in Run /\ ~run[c].local /\ run[c].taken \subseteq Messages
  BY ClaimingRun DEF Drain, Run
<1>2. ASSUME NEW m \in run[c].taken, Add(m), Go(c, [run[c] EXCEPT !.taken = @ \ {m}])
      PROVE  Moves(c)
  <2> DEFINE r == [run[c] EXCEPT !.taken = @ \ {m}]
  <2>1. r \in Run /\ GoesOn(c, r)  BY <1>1, <1>2 DEF GoesOn, HeadRead, Run, Claiming, Working, Drain
  <2> QED  BY <1>2, <2>1 DEF Moves
<1>3. ASSUME Go(c, [run[c] EXCEPT !.at = "ask"]) PROVE Moves(c)
  <2> DEFINE r == [run[c] EXCEPT !.at = "ask"]
  <2>1. r \in Run /\ GoesOn(c, r)  BY <1>1, GoesOnSame DEF Claiming
  <2> QED  BY <1>3, <2>1 DEF Moves
<1>4. Moves(c)
  BY <1>2, <1>3 DEF Drain, Command, Moves, PutsBack
<1>5. RedisEffect /\ Records(c)
  BY <1>1 DEF Drain, Command, RedisEffect, Records, redis, history, Add
<1> QED  BY <1>4, <1>5 DEF Does

LEMMA AskDoes == ASSUME Types, NEW c \in Claimers, Ask(c) PROVE Does(c)
<1> DEFINE r == [run[c] EXCEPT !.at = "reclaim", !.doomed = AtCeiling]
<1>1. r \in Run /\ GoesOn(c, r)
  <2>1. run[c] \in Run /\ ~run[c].local  BY ClaimingRun DEF Ask
  <2>2. idle \subseteq Nat  BY DEF Types, StoreTypes
  <2>3. AtCeiling \subseteq Nat  BY <2>2 DEF AtCeiling
  <2> QED  BY <2>1, <2>3 DEF GoesOn, HeadRead, Run, Claiming, Working
<1>2. Go(c, r) \/ LocalClaim(c)
  BY DEF Ask, ClaimCommand, Command
<1>3. RedisEffect /\ Records(c)
  BY DEF Ask, ClaimCommand, Command, RedisEffect, Records, redis, history
<1> QED  BY <1>1, <1>2, <1>3 DEF Does, Moves, Ask

LEMMA ReclaimDoes == ASSUME Types, NEW c \in Claimers, Reclaim(c) PROVE Does(c)
<1> DEFINE r == [run[c] EXCEPT !.at = "bury", !.got = Reclaimable]
<1>1. r \in Run /\ (Reclaimed => GoesOn(c, r))
  <2>1. run[c] \in Run /\ ~run[c].local  BY ClaimingRun DEF Reclaim
  <2>2. Reclaimable \subseteq Nat  BY DEF Reclaimable, Types, StoreTypes
  <2> QED  BY <2>1, <2>2 DEF GoesOn, HeadRead, Run, Claiming, Working, Reclaimable
<1>2. (Reclaimed /\ Go(c, r)) \/ LocalClaim(c)
  BY DEF Reclaim, ClaimCommand, Command, Reclaimed
<1>3. RedisEffect
  BY DEF Reclaim, ClaimCommand, Command, RedisEffect, Reclaimed
<1>4. Records(c)
  BY DEF Reclaim, ClaimCommand, Command, Records, redis, history
<1> QED  BY <1>1, <1>2, <1>3, <1>4 DEF Does, Moves, Reclaim

LEMMA BuryDoes == ASSUME Types, NEW c \in Claimers, Bury(c) PROVE Does(c)
<1>1. /\ run[c] \in Run /\ ~run[c].local /\ run[c].got \subseteq 1 .. last
      /\ run[c].got \subseteq Nat
  BY ClaimingRun DEF Bury, Run
<1>2. ASSUME NEW e \in run[c].got, Go(c, [run[c] EXCEPT !.got = @ \ {e}, !.doomed = @ \ {e}])
      PROVE  Moves(c)
  <2> DEFINE r == [run[c] EXCEPT !.got = @ \ {e}, !.doomed = @ \ {e}]
  <2>1. r \in Run /\ GoesOn(c, r)  BY <1>1 DEF GoesOn, HeadRead, Run, Claiming, Working, Bury
  <2> QED  BY <1>2, <2>1 DEF Moves
<1>3. ASSUME Go(c, [run[c] EXCEPT !.at = "read"]) PROVE Moves(c)
  <2> DEFINE r == [run[c] EXCEPT !.at = "read"]
  <2>1. r \in Run /\ GoesOn(c, r)  BY <1>1, GoesOnSame DEF Claiming
  <2> QED  BY <1>3, <2>1 DEF Moves
<1>4. Moves(c)
  BY <1>2, <1>3 DEF Bury, ClaimCommand, Command, Moves, Buried
<1>5. RedisEffect
  BY <1>1 DEF Bury, ClaimCommand, Command, RedisEffect, redis, Buried
<1>6. Records(c)
  BY DEF Bury, ClaimCommand, Command, Records, redis, history
<1> QED  BY <1>4, <1>5, <1>6 DEF Does

LEMMA ReadDoes == ASSUME Types, NEW c \in Claimers, Read(c) PROVE Does(c)
<1> DEFINE r == [run[c] EXCEPT !.at = "check", !.got = @ \union Fresh]
<1>1. r \in Run /\ (HandedOut => GoesOn(c, r))
  <2>1. run[c] \in Run /\ ~run[c].local  BY ClaimingRun DEF Read
  <2>2. last \in Nat /\ Len(stream) \in Nat  BY LenProperties DEF Types, StoreTypes
  <2>3. Fresh \subseteq Nat  BY <2>2 DEF Fresh
  <2> QED  BY <2>1, <2>3 DEF GoesOn, HeadRead, Run, Claiming, Working
<1>2. (HandedOut /\ Go(c, r)) \/ LocalClaim(c)
  BY DEF Read, ClaimCommand, Command, HandedOut
<1>3. RedisEffect
  BY DEF Read, ClaimCommand, Command, RedisEffect, HandedOut
<1>4. Records(c)
  BY DEF Read, ClaimCommand, Command, Records, redis, history
<1> QED  BY <1>1, <1>2, <1>3, <1>4 DEF Does, Moves, Read

\* A batch that is delivered, or has nothing in it.
LEMMA Delivered ==
  ASSUME NEW c \in Claimers, NEW x \in Run, ~x.local, x.taken \subseteq run[c].taken,
         x.got \subseteq run[c].got, x.at = "skip", run[c].at # "drain"
  PROVE  Deliver(x) \in Run /\ GoesOn(c, Deliver(x))
BY DEF Deliver, GoesOn, HeadRead, Run, NoRun, Claiming, Working

LEMMA CheckDoes == ASSUME Types, NEW c \in Claimers, Check(c) PROVE Does(c)
<1> DEFINE M == {stream[e] : e \in Batch(c)}
           x == [NoRun EXCEPT !.at = "skip", !.got = Batch(c), !.doomed = Processed(c), !.hand = M]
<1>1. run[c] \in Run /\ run[c].got \subseteq 1 .. last /\ run[c].got \subseteq Nat
  BY ClaimingRun DEF Run
<1>2. M \subseteq Messages
  <2>1. last \in Nat /\ last <= Len(stream) /\ Len(stream) \in Nat /\ stream \in Seq(Messages)
    BY LenProperties DEF Types, StoreTypes
  <2>2. \A e \in Batch(c) : e \in 1 .. Len(stream)  BY <1>1, <2>1 DEF Batch
  <2> QED  BY <2>1, <2>2, ElementOfSeq
<1>3. /\ x \in Run /\ ~x.local /\ x.taken = {} /\ x.got \subseteq run[c].got /\ x.at = "skip"
  <2>1. Batch(c) \subseteq run[c].got /\ Processed(c) \subseteq run[c].got
    BY DEF Batch, Processed
  <2> HIDE DEF M
  <2> QED  BY <1>1, <1>2, <2>1 DEF Run, NoRun, Claiming
<1>4. Go(c, Deliver(x)) \/ Go(c, x) \/ LocalClaim(c)
  BY DEF Check, ClaimCommand, Command
<1> HIDE DEF x
<1>5. GoesOn(c, x)  BY <1>1, <1>3 DEF GoesOn, HeadRead, Claiming, Check
<1>6. Deliver(x) \in Run /\ GoesOn(c, Deliver(x))
  BY <1>3, Delivered DEF Claiming, Check
<1>7. RedisEffect /\ Records(c)
  BY DEF Check, ClaimCommand, Command, RedisEffect, Records, redis, history
<1> QED  BY <1>3, <1>4, <1>5, <1>6, <1>7 DEF Does, Moves, Check

LEMMA SkipDoes == ASSUME Types, NEW c \in Claimers, Skip(c) PROVE Does(c)
<1>1. run[c] \in Run /\ ~run[c].local /\ run[c].doomed \subseteq Nat /\ run[c].at = "skip"
  BY ClaimingRun DEF Skip, Run
<1>2. ASSUME NEW D \in SUBSET Nat
      PROVE  LET x == [run[c] EXCEPT !.doomed = D]
             IN  x \in Run /\ GoesOn(c, x) /\ Deliver(x) \in Run /\ GoesOn(c, Deliver(x))
  <2> DEFINE x == [run[c] EXCEPT !.doomed = D]
  <2>1. /\ x \in Run /\ ~x.local /\ x.taken = run[c].taken /\ x.got = run[c].got
        /\ x.at = "skip"
    BY <1>1 DEF Run
  <2> HIDE DEF x
  <2>2. GoesOn(c, x)  BY <2>1 DEF GoesOn, HeadRead
  <2>3. Deliver(x) \in Run /\ GoesOn(c, Deliver(x))  BY <1>1, <2>1, Delivered DEF Claiming
  <2> QED  BY <2>1, <2>2, <2>3 DEF x
<1>3. ASSUME NEW e \in run[c].doomed,
             \/ Go(c, Deliver([run[c] EXCEPT !.doomed = {}]))
             \/ Go(c, [run[c] EXCEPT !.doomed = @ \ {e}])
      PROVE  Moves(c)
  <2>1. [run[c] EXCEPT !.doomed = @ \ {e}] = [run[c] EXCEPT !.doomed = run[c].doomed \ {e}]
    OBVIOUS
  <2>2. run[c].doomed \ {e} \in SUBSET Nat /\ {} \in SUBSET Nat  BY <1>1
  <2> QED  BY <1>2, <1>3, <2>1, <2>2 DEF Moves
<1>4. Moves(c)
  BY <1>3 DEF Skip, ClaimCommand, Command, Moves
<1>5. RedisEffect
  BY <1>1 DEF Skip, ClaimCommand, Command, RedisEffect, redis
<1>6. Records(c)
  BY DEF Skip, ClaimCommand, Command, Records, redis, history, Acknowledge
<1> QED  BY <1>4, <1>5, <1>6 DEF Does

LEMMA CommitDoes == ASSUME Types, NEW c \in Claimers, Commit(c) PROVE Does(c)
<1> DEFINE r == [run[c] EXCEPT !.at = "acking"]
<1>1. r \in Run /\ GoesOn(c, r)
  <2>1. run[c] \in Run  BY ClaimingRun
  <2> QED  BY <2>1 DEF GoesOn, HeadRead, Run, Claiming, Working, Commit
<1>2. Go(c, r) /\ RedisEffect
  BY DEF Commit, RedisEffect
<1>3. Records(c)
  BY DEF Commit, Records, redis
<1> QED  BY <1>1, <1>2, <1>3 DEF Does, Moves

LEMMA AbandonDoes == ASSUME Types, NEW c \in Claimers, Abandon(c) PROVE Does(c)
<1>1. run[c] \in Run  BY ClaimingRun
<1> QED  BY <1>1, GoesOnIdle DEF Abandon, Does, Moves, RedisEffect, Records, redis, history

LEMMA AckDoes ==
  ASSUME Types, NEW c \in Claimers, AckEntries(c) \/ MarkSeen(c) \/ AckLocal(c) PROVE Does(c)
<1>1. run[c] \in Run  BY ClaimingRun
<1>2. CASE AckEntries(c)
  <2> DEFINE r == [run[c] EXCEPT !.at = "marking"]
  <2>1. r \in Run /\ GoesOn(c, r)
    BY <1>1, <1>2 DEF GoesOn, HeadRead, Run, Claiming, Working, AckEntries
  <2>2. Go(c, r) \/ Go(c, NoRun)
    BY <1>2 DEF AckEntries, Command
  <2>3. run[c].got \in SUBSET Nat  BY <1>1 DEF Run
  <2>4. RedisEffect
    BY <1>2, <2>3 DEF AckEntries, Command, RedisEffect, redis
  <2>5. Records(c)
    BY <1>2 DEF AckEntries, Command, Records, redis, history
  <2> QED  BY <1>1, <1>2, <2>1, <2>2, <2>4, <2>5, GoesOnIdle DEF AckEntries, Does, Moves
<1>3. CASE MarkSeen(c)
  <2>1. run[c].hand \in SUBSET Messages  BY <1>1 DEF Run
  <2>2. RedisEffect
    BY <1>3, <2>1 DEF MarkSeen, Command, RedisEffect, redis
  <2>3. Records(c)
    BY <1>3 DEF MarkSeen, Command, Records, redis
  <2> QED  BY <1>1, <1>3, <2>2, <2>3, GoesOnIdle DEF MarkSeen, Does, Moves
<1>4. CASE AckLocal(c)
  BY <1>4 DEF AckLocal, Does, Moves, RedisEffect, Records, redis
<1> QED  BY <1>2, <1>3, <1>4

LEMMA ClaimerDoes ==
  ASSUME Types, NEW c \in Claimers, ClaimStep(c) \/ Commit(c) \/ Abandon(c)
  PROVE  Does(c)
BY BeginDoes, ReadHeadDoes, CopyHeadDoes, PopHeadDoes, DrainDoes, AskDoes, ReclaimDoes, BuryDoes,
   ReadDoes, CheckDoes, SkipDoes, CommitDoes, AbandonDoes, AckDoes DEF ClaimStep

-----------------------------------------------------------------------------
(* What the moves do to the claimer and to its process's memory. *)

Becomes(c, r, M) ==
  /\ r \in Run /\ M \in Memory
  /\ run' = [run EXCEPT ![c] = r]
  /\ memory' = [memory EXCEPT ![Home[c]] = M]

LEMMA Homes ==
  ASSUME Types, NEW c \in Claimers
  PROVE  Home[c] \in Process /\ memory[Home[c]] \in Memory /\ run[c] \in Run
BY MessagesAssumption DEF MessagesAssumption, Types, LocalTypes

LEMMA GoBecomes ==
  ASSUME Types, NEW c \in Claimers, NEW r \in Run, Go(c, r)
  PROVE  Becomes(c, r, memory[Home[c]])
<1>1. memory' = [memory EXCEPT ![Home[c]] = memory[Home[c]]]
  BY Homes DEF Go, Types, LocalTypes
<1> QED  BY <1>1, Homes DEF Becomes, Go, Set

LEMMA TakeBecomes ==
  ASSUME Types, NEW c \in Claimers, TakeParked(c)
  PROVE  \E r \in Run, M \in Memory :
           /\ Becomes(c, r, M)
           /\ r.at = "drain" /\ r.taken = memory[Home[c]].parked
           /\ r.got = run[c].got /\ r.hand = run[c].hand /\ r.local = run[c].local
           /\ M.parked = {} /\ M.claims = memory[Home[c]].claims
           /\ M.known = memory[Home[c]].known /\ M.buried = memory[Home[c]].buried
<1> DEFINE x == run[c]
           y == memory[Home[c]]
           r == [x EXCEPT !.at = "drain", !.head = {}, !.taken = y.parked]
           M == [y EXCEPT !.parked = {}]
<1>1. x \in Run /\ y \in Memory  BY Homes
<1>2. /\ r \in Run /\ r.at = "drain" /\ r.taken = y.parked
      /\ r.got = x.got /\ r.hand = x.hand /\ r.local = x.local
  <2>1. y.parked \subseteq Messages  BY <1>1 DEF Memory
  <2> HIDE DEF x, y
  <2> QED  BY <1>1, <2>1 DEF Run, Claiming
<1>3. M \in Memory /\ M.parked = {} /\ M.claims = y.claims /\ M.known = y.known
      /\ M.buried = y.buried
  <2> HIDE DEF y
  <2> QED  BY <1>1 DEF Memory
<1>4. run' = [run EXCEPT ![c] = r] /\ memory' = [memory EXCEPT ![Home[c]] = M]
  BY DEF TakeParked, Set
<1> HIDE DEF r, M
<1> QED  BY <1>2, <1>3, <1>4 DEF Becomes

LEMMA PutBecomes ==
  ASSUME Types, NEW c \in Claimers, PutsBack(c)
  PROVE  \E r \in Run, M \in Memory :
           /\ Becomes(c, r, M)
           /\ r.at = "ask" /\ r.taken = {}
           /\ r.got = run[c].got /\ r.hand = run[c].hand /\ r.local = run[c].local
           /\ M.parked = memory[Home[c]].parked \union run[c].taken
           /\ M.claims = memory[Home[c]].claims /\ M.known = memory[Home[c]].known
           /\ M.buried = memory[Home[c]].buried
<1> DEFINE x == run[c]
           y == memory[Home[c]]
           r == [x EXCEPT !.at = "ask", !.taken = {}]
           M == [y EXCEPT !.parked = @ \union x.taken]
<1>1. x \in Run /\ y \in Memory  BY Homes
<1>2. /\ r \in Run /\ r.at = "ask" /\ r.taken = {}
      /\ r.got = x.got /\ r.hand = x.hand /\ r.local = x.local
  <2> HIDE DEF x
  <2> QED  BY <1>1 DEF Run, Claiming
<1>3. /\ M \in Memory /\ M.parked = y.parked \union x.taken
      /\ M.claims = y.claims /\ M.known = y.known /\ M.buried = y.buried
  <2>1. x.taken \subseteq Messages  BY <1>1 DEF Run
  <2> HIDE DEF x, y
  <2> QED  BY <1>1, <2>1 DEF Memory
<1>4. run' = [run EXCEPT ![c] = r] /\ memory' = [memory EXCEPT ![Home[c]] = M]
  BY DEF PutsBack, PutBack, Set
<1> HIDE DEF r, M
<1> QED  BY <1>2, <1>3, <1>4 DEF Becomes

LEMMA AckBecomes ==
  ASSUME Types, NEW c \in Claimers, AckLocal(c)
  PROVE  /\ run[c].at = "acking" /\ run[c].local
         /\ \E M \in Memory :
              /\ Becomes(c, NoRun, M)
              /\ M.parked = memory[Home[c]].parked /\ M.buried = memory[Home[c]].buried
              /\ M.claims = memory[Home[c]].claims \ {[by |-> c, msgs |-> run[c].hand]}
              /\ \A d \in Claimers :
                   M.known[d] \subseteq memory[Home[c]].known[d] \union run[c].hand
<1> DEFINE x == run[c]
           y == memory[Home[c]]
           T == [m \in Messages |-> IF m \in x.hand THEN 0 ELSE y.tries[m]]
           K == [y.known EXCEPT ![x.ref] = @ \union x.hand]
           M == [y EXCEPT !.claims = y.claims \ {[by |-> c, msgs |-> x.hand]}, !.tries = T,
                          !.known = K, !.stored = x.ref]
<1>1. x \in Run /\ y \in Memory  BY Homes
<1>2. x.hand \subseteq Messages /\ x.ref \in Claimers \union {NoOne}  BY <1>1 DEF Run
<1>3. T \in [Messages -> Nat]  BY <1>1 DEF Memory
<1>4. /\ K \in [Claimers -> SUBSET Messages]
      /\ \A d \in Claimers : K[d] \subseteq y.known[d] \union x.hand
  <2>1. y.known \in [Claimers -> SUBSET Messages]  BY <1>1 DEF Memory
  <2> HIDE DEF x, y
  <2> QED  BY <1>2, <2>1
<1>5. /\ M \in Memory /\ M.parked = y.parked /\ M.known = K /\ M.buried = y.buried
      /\ M.claims = y.claims \ {[by |-> c, msgs |-> x.hand]}
  <2> HIDE DEF x, y, T, K
  <2> QED  BY <1>1, <1>2, <1>3, <1>4 DEF Memory
<1>6. memory' = [memory EXCEPT ![Home[c]] = M]
  <2> DEFINE Z == [y EXCEPT !.claims = @ \ {[by |-> c, msgs |-> x.hand]},
                            !.tries = [m \in Messages |-> IF m \in x.hand THEN 0 ELSE @[m]],
                            !.known[x.ref] = @ \union x.hand,
                            !.stored = x.ref]
  <2>1. memory' = [memory EXCEPT ![Home[c]] = Z]
    BY Homes DEF AckLocal, Types, LocalTypes
  <2>2. Z = M
    <3> HIDE DEF x, y
    <3> QED  BY <1>1 DEF Memory
  <2> HIDE DEF Z, M
  <2> QED  BY <2>1, <2>2
<1>7. run' = [run EXCEPT ![c] = NoRun] /\ run[c].at = "acking" /\ run[c].local
  BY DEF AckLocal, Set
<1>8. NoRun \in Run  BY <1>1, GoesOnIdle DEF AckLocal
<1> HIDE DEF M, K
<1> QED  BY <1>4, <1>5, <1>6, <1>7, <1>8 DEF Becomes

LEMMA ClaimBecomes ==
  ASSUME Types, NEW c \in Claimers, LocalClaim(c)
  PROVE  \E expired \in SUBSET Lapsed(Home[c]), r \in Run, M \in Memory :
           LET matched == Matched(c, expired)
           IN  /\ Becomes(c, r, M)
               /\ M.parked = {}
               /\ M.buried = memory[Home[c]].buried \union Over(Home[c], expired)
               /\ M.claims = (memory[Home[c]].claims \ expired) \union
                               {k \in {[by |-> c, msgs |-> matched]} : matched # {}}
               /\ \A d \in Claimers :
                    M.known[d] \subseteq memory[Home[c]].known[d]
                                         \union memory[Home[c]].known[SeenSet(c)]
               /\ r.got = {} /\ r.taken = {}
               /\ r.local => matched # {} /\ r.hand = matched /\ r.at = "running"
               /\ ~r.local => r.at = "idle"
<1> DEFINE p == Home[c]
           x == run[c]
           y == memory[p]
<1>1. PICK expired \in SUBSET Lapsed(p) :
        /\ memory' = [memory EXCEPT ![p] = Claimed(c, expired)]
        /\ Set(c, IF Matched(c, expired) = {} THEN NoRun
                  ELSE [NoRun EXCEPT !.at = "running", !.hand = Matched(c, expired),
                                     !.local = TRUE, !.ref = SeenSet(c)])
  BY DEF LocalClaim
<1> DEFINE matched == Matched(c, expired)
           claim == {k \in {[by |-> c, msgs |-> matched]} : matched # {}}
           T == [m \in Messages |-> IF m \in matched THEN Handled(y.tries[m]) ELSE y.tries[m]]
           K == [y.known EXCEPT ![SeenSet(c)] = Known(c)]
           C == (y.claims \ expired) \union claim
           B == y.buried \union Over(p, expired)
           M == [y EXCEPT !.parked = {}, !.claims = C, !.tries = T, !.buried = B, !.known = K]
           r == IF matched = {} THEN NoRun
                ELSE [NoRun EXCEPT !.at = "running", !.hand = matched, !.local = TRUE,
                                   !.ref = SeenSet(c)]
<1>2. x \in Run /\ y \in Memory /\ p \in Process  BY Homes
<1>3. SeenSet(c) \in Claimers  BY <1>2 DEF SeenSet, Memory
<1>4. /\ Known(c) \subseteq Messages
      /\ Known(c) \subseteq y.known[SeenSet(c)]
  BY <1>2, <1>3 DEF Known, Memory
<1>5. expired \subseteq y.claims  BY DEF Lapsed
<1>6. Back(expired) \subseteq Messages  BY <1>2, <1>5 DEF Back, Memory, Claim
<1>7. matched \subseteq Messages  BY <1>2, <1>6 DEF Matched, Memory
<1>8. T \in [Messages -> Nat]
  <2>1. \A n \in Nat : Handled(n) \in Nat
    BY MessagesAssumption DEF MessagesAssumption, Handled, Least
  <2>2. y.tries \in [Messages -> Nat]  BY <1>2 DEF Memory
  <2> HIDE DEF y, matched
  <2> QED  BY <2>1, <2>2
<1>9. /\ K \in [Claimers -> SUBSET Messages]
      /\ \A d \in Claimers : K[d] \subseteq y.known[d] \union y.known[SeenSet(c)]
  <2>1. y.known \in [Claimers -> SUBSET Messages]  BY <1>2 DEF Memory
  <2> HIDE DEF x, y
  <2> QED  BY <1>3, <1>4, <2>1
<1>10. C \subseteq Claim
  <2>1. y.claims \subseteq Claim  BY <1>2 DEF Memory
  <2>2. [by |-> c, msgs |-> matched] \in Claim  BY <1>7 DEF Claim
  <2> HIDE DEF y, matched
  <2> QED  BY <2>1, <2>2
<1>11. B \subseteq Messages
  <2>1. y.buried \subseteq Messages  BY <1>2 DEF Memory
  <2> QED  BY <1>6, <2>1 DEF Over
<1>12. M \in Memory /\ M.parked = {} /\ M.claims = C /\ M.known = K /\ M.buried = B
  <2> HIDE DEF y, C, T, B, K
  <2> QED  BY <1>2, <1>8, <1>9, <1>10, <1>11 DEF Memory
<1>13. /\ r \in Run /\ r.got = {} /\ r.taken = {}
       /\ r.local => matched # {} /\ r.hand = matched /\ r.at = "running"
       /\ ~r.local => r.at = "idle"
  <2> HIDE DEF matched
  <2> QED  BY <1>3, <1>7 DEF Run, NoRun, Working
<1>14. memory' = [memory EXCEPT ![p] = M]
  <2>1. Claimed(c, expired) = [y EXCEPT !.parked = {},
                            !.claims = (@ \ expired) \union claim,
                            !.tries = [m \in Messages |-> IF m \in matched THEN Handled(@[m]) ELSE @[m]],
                            !.buried = @ \union Over(p, expired),
                            !.known[SeenSet(c)] = Known(c)]
    BY Zenon DEF Claimed
  <2>2. Claimed(c, expired) = M
    <3> HIDE DEF y, matched, claim
    <3> QED  BY <1>2, <2>1 DEF Memory
  <2> HIDE DEF M
  <2> QED  BY <1>1, <2>2
<1>15. run' = [run EXCEPT ![c] = r]
  BY <1>1 DEF Set
<1> HIDE DEF r, M
<1>16. Becomes(c, r, M)  BY <1>12, <1>13, <1>14, <1>15 DEF Becomes
<1> HIDE DEF matched, K
<1> QED  BY <1>9, <1>12, <1>13, <1>16 DEF matched

-----------------------------------------------------------------------------
(* Types. *)

\* Where the entries a claimer has come from.
GotFrom(c, r) ==
  \/ r.got \subseteq run[c].got
  \/ r.got \subseteq idle /\ Reclaimed
  \/ r.got \subseteq run[c].got \union Fresh /\ HandedOut

LEMMA MoveShape ==
  ASSUME Types, NEW c \in Claimers, Moves(c)
  PROVE  \E r \in Run, M \in Memory :
           /\ Becomes(c, r, M) /\ GotFrom(c, r)
           /\ r.local => r.at \in {"running", "acking"}
<1>1. ASSUME NEW r \in Run, GoesOn(c, r), Go(c, r)
      PROVE  /\ Becomes(c, r, memory[Home[c]]) /\ GotFrom(c, r)
             /\ r.local => r.at \in {"running", "acking"}
  BY <1>1, GoBecomes DEF GoesOn, GotFrom
<1>2. CASE LocalClaim(c)
  BY <1>2, ClaimBecomes DEF GotFrom
<1>3. CASE run[c].at \in {"head", "copy", "pop"} /\ TakeParked(c)
  BY <1>3, TakeBecomes, ClaimingRun DEF GotFrom
<1>4. CASE run[c].at = "drain" /\ PutsBack(c)
  BY <1>4, PutBecomes, ClaimingRun DEF GotFrom
<1>5. CASE AckLocal(c)
  <2>1. NoRun.got = {} /\ ~NoRun.local  BY DEF NoRun
  <2> QED  BY <1>5, <2>1, AckBecomes DEF GotFrom, Becomes
<1> QED  BY <1>1, <1>2, <1>3, <1>4, <1>5, Homes DEF Moves

LEMMA ClaimerOnline ==
  ASSUME Types, NEW c \in Claimers, ClaimStep(c) \/ Commit(c) \/ Abandon(c)
  PROVE  online' \in [Process -> BOOLEAN]
<1>1. online' = online \/ online' = [online EXCEPT ![Home[c]] = FALSE]
  BY DEF ClaimStep, Begin, ReadHead, CopyHead, PopHead, Drain, Ask, Reclaim, Bury, Read, Check,
         Skip, Commit, Abandon, AckEntries, MarkSeen, AckLocal, ClaimCommand, Command
<1> QED  BY <1>1, Homes DEF Types, LocalTypes

LEMMA ClaimerTypes ==
  ASSUME Types, NEW c \in Claimers, ClaimStep(c) \/ Commit(c) \/ Abandon(c)
  PROVE  Types'
<1>1. RedisEffect /\ Moves(c) /\ Records(c)  BY ClaimerDoes DEF Does
<1>2. StoreTypes' /\ last \in Nat /\ last' \in Nat /\ last <= last'
  BY <1>1, EffectTypes DEF Types, StoreTypes
<1>3. PICK r \in Run, M \in Memory :
        /\ Becomes(c, r, M) /\ GotFrom(c, r)
        /\ r.local => r.at \in {"running", "acking"}
  BY <1>1, MoveShape
<1>4. LocalTypes'
  BY <1>3, ClaimerOnline, Homes DEF Types, LocalTypes, Becomes
<1>5. HistoryTypes'
  <2>1. run[c].hand \subseteq Messages  BY Homes DEF Run
  <2>2. seen \subseteq Messages  BY DEF Types, StoreTypes
  <2> QED  BY <1>1, <2>1, <2>2 DEF Records, Types, HistoryTypes
<1>6. RunTypes'
  <2>1. 1 .. last \subseteq 1 .. last'  BY <1>2
  <2>2. r.got \subseteq 1 .. last'
    <3>1. CASE r.got \subseteq run[c].got  BY <2>1, <3>1, ClaimingRun
    <3>2. CASE r.got \subseteq idle /\ Reclaimed  BY <2>1, <3>2 DEF Types, StoreTypes
    <3>3. CASE r.got \subseteq run[c].got \union Fresh /\ HandedOut
      <4>1. Fresh \subseteq 1 .. last'
        BY <1>2, <3>3 DEF Fresh, HandedOut
      <4> QED  BY <2>1, <3>3, <4>1, ClaimingRun
    <3> QED  BY <1>3, <3>1, <3>2, <3>3 DEF GotFrom
  <2>3. \A d \in Claimers : run'[d] = IF d = c THEN r ELSE run[d]
    BY <1>3 DEF Becomes, Types, LocalTypes
  <2> QED  BY <1>3, <2>1, <2>2, <2>3 DEF Types, RunTypes
<1> QED  BY <1>2, <1>4, <1>5, <1>6 DEF Types

LEMMA SendTypes ==
  ASSUME Types, NEW m \in Messages, Send(m)
  PROVE  Types'
<1>1. Sender[m] \in Process /\ memory[Sender[m]] \in Memory
  BY MessagesAssumption DEF MessagesAssumption, Types, LocalTypes
<1>2. RedisEffect
  BY DEF Send, Command, RedisEffect
<1>3. StoreTypes' /\ last \in Nat /\ last' \in Nat /\ last <= last'
  BY <1>2, EffectTypes DEF Types, StoreTypes
<1>4. online' \in [Process -> BOOLEAN]
  BY <1>1 DEF Send, Command, Types, LocalTypes
<1>5. memory' \in [Process -> Memory]
  <2> DEFINE y == memory[Sender[m]]
             M == [y EXCEPT !.parked = @ \union {m}]
  <2>1. memory' = memory \/ memory' = [memory EXCEPT ![Sender[m]] = M]
    BY DEF Send, Command
  <2>2. M \in Memory
    <3>1. y \in Memory  BY <1>1
    <3> HIDE DEF y
    <3> QED  BY <3>1 DEF Memory
  <2> HIDE DEF M
  <2> QED  BY <1>1, <2>1, <2>2 DEF Types, LocalTypes
<1>6. 1 .. last \subseteq 1 .. last'  BY <1>3
<1> QED  BY <1>3, <1>4, <1>5, <1>6 DEF Send, Types, LocalTypes, HistoryTypes, RunTypes

LEMMA CrashTypes ==
  ASSUME Types, NEW p \in Process, Crash(p)
  PROVE  Types'
<1>1. Started \in Memory
  BY DEF Started, Memory
<1>2. NoRun \in Run /\ NoRun.got = {} /\ ~NoRun.local  BY DEF NoRun, Run
<1>3. memory' \in [Process -> Memory]
  BY <1>1 DEF Crash, Types, LocalTypes
<1>4. run' \in [Claimers -> Run] /\ \A c \in Claimers : run'[c] \in {run[c], NoRun}
  BY <1>2 DEF Crash, Types, LocalTypes
<1>5. Kept(p) \subseteq Messages
  <2>1. /\ memory[p].parked \subseteq Messages /\ memory[p].buried \subseteq Messages
        /\ memory[p].claims \subseteq Claim
    BY DEF Types, LocalTypes, Memory
  <2>2. \A c \in Claimers : run[c].taken \subseteq Messages
    BY DEF Types, LocalTypes, Run
  <2>3. Back(memory[p].claims) \subseteq Messages  BY <2>1 DEF Back, Claim
  <2> QED  BY <2>1, <2>2, <2>3 DEF Kept
<1>6. StoreTypes'
  BY DEF Crash, redis, group, Types, StoreTypes
<1>7. RunTypes'
  BY <1>2, <1>4 DEF Crash, redis, group, Types, RunTypes
<1>8. LocalTypes'
  BY <1>3, <1>4 DEF Crash, Types, LocalTypes
<1>9. HistoryTypes'
  BY <1>5 DEF Crash, Types, HistoryTypes
<1> QED  BY <1>6, <1>7, <1>8, <1>9 DEF Types

LEMMA StepTypes == Types /\ [Next]_vars => Types'
<1> SUFFICES ASSUME Types, [Next]_vars PROVE Types'
  OBVIOUS
<1>1. CASE UNCHANGED vars
  BY <1>1 DEF vars, redis, group, history, Types, StoreTypes, LocalTypes, HistoryTypes, RunTypes
<1>2. ASSUME NEW e \in 1 .. MaxStream, Elapse(e) PROVE Types'
  BY <1>2 DEF Elapse, history, Types, StoreTypes, LocalTypes, HistoryTypes, RunTypes
<1>3. ASSUME NEW p \in Process, Disconnect(p) \/ Reconnect(p) PROVE Types'
  BY <1>3 DEF Disconnect, Reconnect, redis, group, history, Types, StoreTypes, LocalTypes,
              HistoryTypes, RunTypes
<1> QED
  BY <1>1, <1>2, <1>3, SendTypes, ClaimerTypes, CrashTypes DEF Next, Work

-----------------------------------------------------------------------------
(* What counts as processed was done. *)

DoneInv ==
  /\ SeenMeansDone
  /\ \A c \in Claimers : run[c].at \in {"acking", "marking"} => run[c].hand \subseteq done

\* What a move leaves of it: for the claimer and for its process.
DoneMove(c, r, M) ==
  /\ r.at \in {"acking", "marking"} => r.hand \subseteq done'
  /\ \A d \in Claimers : M.known[d] \subseteq done'

LEMMA DoneMoves ==
  ASSUME Types, DoneInv, NEW c \in Claimers, Moves(c), done \subseteq done'
  PROVE  \E r \in Run, M \in Memory : Becomes(c, r, M) /\ DoneMove(c, r, M)
<1> DEFINE y == memory[Home[c]]
<1>1. y \in Memory /\ \A d \in Claimers : y.known[d] \subseteq done
  BY Homes DEF DoneInv, SeenMeansDone
<1>2. ASSUME NEW r \in Run, GoesOn(c, r), Go(c, r)
      PROVE  Becomes(c, r, y) /\ DoneMove(c, r, y)
  BY <1>1, <1>2, GoBecomes DEF GoesOn, DoneMove, DoneInv
<1>3. CASE LocalClaim(c)
  <2>1. SeenSet(c) \in Claimers  BY <1>1 DEF SeenSet, Memory
  <2>2. PICK r \in Run, M \in Memory :
          /\ Becomes(c, r, M) /\ r.at \in {"idle", "running"}
          /\ \A d \in Claimers : M.known[d] \subseteq y.known[d] \union y.known[SeenSet(c)]
    BY <1>3, ClaimBecomes
  <2> QED  BY <1>1, <2>1, <2>2 DEF DoneMove
<1>4. CASE run[c].at \in {"head", "copy", "pop"} /\ TakeParked(c)
  <2>1. PICK r \in Run, M \in Memory : Becomes(c, r, M) /\ r.at = "drain" /\ M.known = y.known
    BY <1>4, TakeBecomes
  <2> QED  BY <1>1, <2>1 DEF DoneMove
<1>5. CASE run[c].at = "drain" /\ PutsBack(c)
  <2>1. PICK r \in Run, M \in Memory : Becomes(c, r, M) /\ r.at = "ask" /\ M.known = y.known
    BY <1>5, PutBecomes
  <2> QED  BY <1>1, <2>1 DEF DoneMove
<1>6. CASE AckLocal(c)
  <2>1. PICK M \in Memory :
          /\ Becomes(c, NoRun, M)
          /\ \A d \in Claimers : M.known[d] \subseteq y.known[d] \union run[c].hand
    BY <1>6, AckBecomes
  <2>2. run[c].hand \subseteq done  BY <1>6, AckBecomes DEF DoneInv
  <2> QED  BY <1>1, <2>1, <2>2 DEF DoneMove, NoRun, Becomes
<1> QED  BY <1>1, <1>2, <1>3, <1>4, <1>5, <1>6 DEF Moves

LEMMA DoneStep == Types /\ DoneInv /\ [Next]_vars => DoneInv'
<1> SUFFICES ASSUME Types, DoneInv, [Next]_vars PROVE DoneInv'
  OBVIOUS
<1>1. ASSUME NEW c \in Claimers, ClaimStep(c) \/ Commit(c) \/ Abandon(c) PROVE DoneInv'
  <2>1. Moves(c) /\ Records(c)  BY <1>1, ClaimerDoes DEF Does
  <2>2. done \subseteq done'  BY <2>1 DEF Records
  <2>3. PICK r \in Run, M \in Memory : Becomes(c, r, M) /\ DoneMove(c, r, M)
    BY <2>1, <2>2, DoneMoves
  <2>4. seen' \union acked' \subseteq done'
    BY <2>1, <2>2 DEF Records, DoneInv, SeenMeansDone
  <2>5. \A d \in Claimers : run'[d] = IF d = c THEN r ELSE run[d]
    BY <2>3 DEF Becomes, Types, LocalTypes
  <2>6. \A p \in Process : memory'[p] = IF p = Home[c] THEN M ELSE memory[p]
    BY <2>3 DEF Becomes, Types, LocalTypes
  <2> QED  BY <2>2, <2>3, <2>4, <2>5, <2>6 DEF DoneInv, SeenMeansDone, DoneMove
<1>2. ASSUME NEW m \in Messages, Send(m) PROVE DoneInv'
  <2> DEFINE q == Sender[m]
             y == memory[q]
             M == [y EXCEPT !.parked = @ \union {m}]
  <2>1. q \in Process /\ y \in Memory
    BY MessagesAssumption DEF MessagesAssumption, Types, LocalTypes
  <2>2. M.known = y.known
    <3> HIDE DEF y
    <3> QED  BY <2>1 DEF Memory
  <2>3. memory' = memory \/ memory' = [memory EXCEPT ![q] = M]
    BY <1>2 DEF Send, Command
  <2> HIDE DEF M
  <2>4. \A p \in Process : memory'[p].known = memory[p].known
    BY <2>1, <2>2, <2>3 DEF Types, LocalTypes
  <2>5. UNCHANGED <<seen, acked, done, run>>
    BY <1>2 DEF Send, Command, Add, redis
  <2> QED  BY <2>4, <2>5 DEF DoneInv, SeenMeansDone
<1>3. ASSUME NEW p \in Process, Crash(p) PROVE DoneInv'
  <2>1. \A c \in Claimers : run'[c] \in {run[c], NoRun}
    BY <1>3 DEF Crash
  <2>2. \A q \in Process : memory'[q] \in {memory[q], Started}
    BY <1>3 DEF Crash, Types, LocalTypes
  <2>3. \A c \in Claimers : Started.known[c] = {}  BY DEF Started
  <2>4. UNCHANGED <<seen, acked, done>>  BY <1>3 DEF Crash, redis
  <2>5. NoRun.at = "idle"  BY DEF NoRun
  <2> QED  BY <2>1, <2>2, <2>3, <2>4, <2>5 DEF DoneInv, SeenMeansDone
<1>4. ASSUME UNCHANGED <<seen, acked, done, run, memory>> PROVE DoneInv'
  BY <1>4 DEF DoneInv, SeenMeansDone
<1>5. ASSUME NEW e \in 1 .. MaxStream, Elapse(e) PROVE DoneInv'
  BY <1>4, <1>5 DEF Elapse, history
<1>6. ASSUME NEW p \in Process, Disconnect(p) \/ Reconnect(p) PROVE DoneInv'
  BY <1>4, <1>6 DEF Disconnect, Reconnect, redis, history
<1>7. CASE UNCHANGED vars
  BY <1>4, <1>7 DEF vars, redis, history
<1> QED  BY <1>1, <1>2, <1>3, <1>5, <1>6, <1>7 DEF Next, Work

-----------------------------------------------------------------------------
(* No two claimers have the same entry, nor the same message of a process. *)

SentFrom(p) == {m \in sent : Sender[m] = p}

\* The messages a process keeps, with those a claimer of it is moving.
Stock(M, taken) == M.parked \union Back(M.claims) \union taken

\* Each message of the stock is at one place.
Tidy(M, taken) ==
  /\ \A k \in M.claims : /\ k.msgs # {}
                         /\ k.msgs \intersect (M.parked \union taken) = {}
                         /\ \A l \in M.claims : l # k => k.msgs \intersect l.msgs = {}
  /\ taken \intersect M.parked = {}

\* A run of messages from the in-process queue holds its claim.
Holds(c, r, M) == r.local => [by |-> c, msgs |-> r.hand] \in M.claims

LocalInv ==
  /\ \A p \in Process : memory[p].parked \union Back(memory[p].claims) \subseteq SentFrom(p)
  /\ \A c \in Claimers : /\ run[c].taken \subseteq SentFrom(Home[c])
                         /\ Tidy(memory[Home[c]], run[c].taken)
                         /\ \A d \in Claimers : d # c => run[c].taken \intersect run[d].taken = {}
  /\ Patient => \A c \in Claimers : Holds(c, run[c], memory[Home[c]])

EntriesInv ==
  Patient => \A c \in Claimers :
    /\ run[c].got \intersect idle = {}
    /\ \A d \in Claimers : d # c => run[c].got \intersect run[d].got = {}

LEMMA BackMember ==
  ASSUME NEW C, NEW k \in C
  PROVE  k.msgs \subseteq Back(C)
BY DEF Back

\* What a move leaves of it.
LocalMove(c, r, M) ==
  /\ Stock(M, r.taken) \subseteq Stock(memory[Home[c]], run[c].taken)
  /\ Tidy(M, r.taken)
  /\ Patient => Holds(c, r, M)
  /\ Patient => \A d \in Claimers :
       d # c /\ Holds(d, run[d], memory[Home[c]]) => Holds(d, run[d], M)

\* Fewer messages, fewer claims and less on the way are as tidy.
LEMMA TidyLess ==
  ASSUME NEW M, NEW N, NEW t, NEW u, Tidy(M, t), u \subseteq t,
         N.parked = M.parked, N.claims \subseteq M.claims
  PROVE  Tidy(N, u) /\ Stock(N, u) \subseteq Stock(M, t)
<1>1. Tidy(N, u)  BY DEF Tidy
<1>2. Back(N.claims) \subseteq Back(M.claims)  BY DEF Back
<1> QED  BY <1>1, <1>2 DEF Stock

LEMMA GoMove ==
  ASSUME Types, LocalInv, NEW c \in Claimers, NEW r \in Run, GoesOn(c, r)
  PROVE  LocalMove(c, r, memory[Home[c]])
<1>1. Tidy(memory[Home[c]], r.taken)
      /\ Stock(memory[Home[c]], r.taken) \subseteq Stock(memory[Home[c]], run[c].taken)
  <2>1. r.taken \subseteq run[c].taken  BY DEF GoesOn
  <2>2. Tidy(memory[Home[c]], run[c].taken)  BY DEF LocalInv
  <2> QED  BY <2>1, <2>2, TidyLess
<1> QED  BY <1>1 DEF GoesOn, LocalInv, LocalMove, Holds

LEMMA TakeMove ==
  ASSUME Types, LocalInv, NEW c \in Claimers, NEW r \in Run, NEW M \in Memory, ~r.local,
         r.taken = memory[Home[c]].parked, M.parked = {}, M.claims = memory[Home[c]].claims
  PROVE  LocalMove(c, r, M)
BY DEF LocalInv, LocalMove, Tidy, Stock, Holds

LEMMA PutMove ==
  ASSUME Types, LocalInv, NEW c \in Claimers, NEW r \in Run, NEW M \in Memory, ~r.local,
         r.taken = {}, M.parked = memory[Home[c]].parked \union run[c].taken,
         M.claims = memory[Home[c]].claims
  PROVE  LocalMove(c, r, M)
BY DEF LocalInv, LocalMove, Tidy, Stock, Holds

LEMMA AckMove ==
  ASSUME Types, LocalInv, NEW c \in Claimers, NEW M \in Memory,
         M.parked = memory[Home[c]].parked,
         M.claims = memory[Home[c]].claims \ {[by |-> c, msgs |-> run[c].hand]}
  PROVE  LocalMove(c, NoRun, M)
<1> DEFINE y == memory[Home[c]]
<1>1. NoRun.taken = {} /\ ~NoRun.local  BY DEF NoRun
<1>2. Tidy(M, {}) /\ Stock(M, {}) \subseteq Stock(y, run[c].taken)
  <2>1. Tidy(y, run[c].taken)  BY DEF LocalInv
  <2>2. M.claims \subseteq y.claims  OBVIOUS
  <2> HIDE DEF y
  <2> QED  BY <2>1, <2>2, TidyLess DEF y
<1> QED  BY <1>1, <1>2 DEF LocalMove, Holds

LEMMA ClaimMove ==
  ASSUME Types, LocalInv, NEW c \in Claimers, NEW r \in Run, NEW M \in Memory,
         NEW expired \in SUBSET Lapsed(Home[c]), NEW matched, matched = Matched(c, expired),
         M.parked = {}, r.taken = {}, r.local => matched # {} /\ r.hand = matched,
         M.claims = (memory[Home[c]].claims \ expired) \union
                      {k \in {[by |-> c, msgs |-> matched]} : matched # {}}
  PROVE  LocalMove(c, r, M)
<1> DEFINE y == memory[Home[c]]
           n == [by |-> c, msgs |-> matched]
<1>1. Tidy(y, run[c].taken) /\ expired \subseteq y.claims  BY DEF LocalInv, Lapsed
<1>2. matched \subseteq y.parked \union Back(expired)  BY DEF Matched
<1>3. Back(expired) \subseteq Back(y.claims)  BY <1>1 DEF Back
<1>4. /\ \A k \in M.claims : k \in y.claims \ expired \/ (k = n /\ matched # {})
      /\ y.claims \ expired \subseteq M.claims
      /\ matched # {} => n \in M.claims
  OBVIOUS
<1>5. ASSUME NEW l \in y.claims \ expired PROVE l.msgs \intersect matched = {}
  <2>1. \A k \in expired : k.msgs \intersect l.msgs = {}
    BY <1>1 DEF Tidy
  <2>2. Back(expired) \intersect l.msgs = {}  BY <2>1 DEF Back
  <2>3. l.msgs \intersect y.parked = {}  BY <1>1 DEF Tidy
  <2> QED  BY <1>2, <2>2, <2>3
<1>6. n.msgs = matched /\ n.by = c  OBVIOUS
<1> HIDE DEF n
<1>7. Tidy(M, {})
  <2>1. ASSUME NEW k \in M.claims, NEW l \in M.claims, l # k
        PROVE  k.msgs # {} /\ k.msgs \intersect l.msgs = {}
    <3>1. CASE k \in y.claims \ expired /\ l \in y.claims \ expired
      BY <1>1, <2>1, <3>1 DEF Tidy
    <3>2. CASE k \in y.claims \ expired /\ l = n
      BY <1>1, <1>5, <1>6, <3>2 DEF Tidy
    <3>3. CASE k = n /\ matched # {} /\ l \in y.claims \ expired
      BY <1>5, <1>6, <3>3
    <3> QED  BY <1>4, <2>1, <3>1, <3>2, <3>3
  <2>2. \A k \in M.claims : k.msgs # {}  BY <1>1, <1>4, <1>6 DEF Tidy
  <2> QED  BY <2>1, <2>2 DEF Tidy
<1>8. Stock(M, {}) \subseteq Stock(y, run[c].taken)
  <2>1. ASSUME NEW k \in M.claims PROVE k.msgs \subseteq y.parked \union Back(y.claims)
    <3>1. CASE k \in y.claims \ expired  BY <3>1, BackMember
    <3>2. CASE k = n  BY <1>2, <1>3, <1>6, <3>2
    <3> QED  BY <1>4, <3>1, <3>2
  <2>2. Back(M.claims) \subseteq y.parked \union Back(y.claims)  BY <2>1 DEF Back
  <2> QED  BY <2>2 DEF Stock
<1>9. Holds(c, r, M)  BY <1>4 DEF Holds, n
<1>10. ASSUME Patient, NEW d \in Claimers, d # c, Holds(d, run[d], y)
       PROVE  Holds(d, run[d], M)
  <2>1. SUFFICES ASSUME run[d].local PROVE [by |-> d, msgs |-> run[d].hand] \in M.claims
    BY DEF Holds
  <2>2. run[d].at \in Working  BY <2>1 DEF Types, RunTypes, Working
  <2>3. [by |-> d, msgs |-> run[d].hand] \notin expired
    BY <1>10, <2>1, <2>2 DEF Lapsed
  <2> QED  BY <1>4, <1>10, <2>1, <2>3 DEF Holds
<1> QED  BY <1>7, <1>8, <1>9, <1>10 DEF LocalMove

LEMMA LocalMoves ==
  ASSUME Types, LocalInv, NEW c \in Claimers, Moves(c)
  PROVE  \E r \in Run, M \in Memory :
           Becomes(c, r, M) /\ GotFrom(c, r) /\ LocalMove(c, r, M)
<1>1. ASSUME NEW r \in Run, GoesOn(c, r), Go(c, r)
      PROVE  Becomes(c, r, memory[Home[c]]) /\ GotFrom(c, r)
               /\ LocalMove(c, r, memory[Home[c]])
  BY <1>1, GoBecomes, GoMove DEF GoesOn, GotFrom
<1>2. CASE LocalClaim(c)
  <2>1. PICK expired \in SUBSET Lapsed(Home[c]), r \in Run, M \in Memory :
          /\ Becomes(c, r, M) /\ M.parked = {} /\ r.got = {} /\ r.taken = {}
          /\ r.local => Matched(c, expired) # {} /\ r.hand = Matched(c, expired)
          /\ M.claims = (memory[Home[c]].claims \ expired) \union
               {k \in {[by |-> c, msgs |-> Matched(c, expired)]} : Matched(c, expired) # {}}
    BY <1>2, ClaimBecomes
  <2>2. LocalMove(c, r, M)  BY <2>1, ClaimMove
  <2> QED  BY <2>1, <2>2 DEF GotFrom
<1>3. CASE run[c].at \in {"head", "copy", "pop"} /\ TakeParked(c)
  <2>1. PICK r \in Run, M \in Memory :
          /\ Becomes(c, r, M) /\ r.taken = memory[Home[c]].parked /\ r.got = run[c].got
          /\ r.local = run[c].local /\ M.parked = {} /\ M.claims = memory[Home[c]].claims
    BY <1>3, TakeBecomes
  <2>2. ~r.local  BY <1>3, <2>1, ClaimingRun
  <2> QED  BY <2>1, <2>2, TakeMove DEF GotFrom
<1>4. CASE run[c].at = "drain" /\ PutsBack(c)
  <2>1. PICK r \in Run, M \in Memory :
          /\ Becomes(c, r, M) /\ r.taken = {} /\ r.got = run[c].got /\ r.local = run[c].local
          /\ M.parked = memory[Home[c]].parked \union run[c].taken
          /\ M.claims = memory[Home[c]].claims
    BY <1>4, PutBecomes
  <2>2. ~r.local  BY <1>4, <2>1, ClaimingRun
  <2> QED  BY <2>1, <2>2, PutMove DEF GotFrom
<1>5. CASE AckLocal(c)
  <2>1. PICK M \in Memory :
          /\ Becomes(c, NoRun, M) /\ M.parked = memory[Home[c]].parked
          /\ M.claims = memory[Home[c]].claims \ {[by |-> c, msgs |-> run[c].hand]}
    BY <1>5, AckBecomes
  <2>2. NoRun \in Run /\ NoRun.got = {}  BY <2>1 DEF Becomes, NoRun
  <2> QED  BY <2>1, <2>2, AckMove DEF GotFrom
<1> QED  BY <1>1, <1>2, <1>3, <1>4, <1>5, Homes DEF Moves

LEMMA ClaimerLocal ==
  ASSUME Types, LocalInv, NEW c \in Claimers, ClaimStep(c) \/ Commit(c) \/ Abandon(c)
  PROVE  LocalInv'
<1>1. Moves(c) /\ sent' = sent  BY ClaimerDoes DEF Does, Records
<1>2. PICK r \in Run, M \in Memory : Becomes(c, r, M) /\ LocalMove(c, r, M)
  BY <1>1, LocalMoves
<1>3. /\ \A d \in Claimers : run'[d] = IF d = c THEN r ELSE run[d]
      /\ \A p \in Process : memory'[p] = IF p = Home[c] THEN M ELSE memory[p]
      /\ \A d \in Claimers : Home[d] \in Process
  BY <1>2, Homes DEF Becomes, Types, LocalTypes
<1> DEFINE y == memory[Home[c]]
           t == run[c].taken
<1>4. /\ Stock(M, r.taken) \subseteq Stock(y, t)
      /\ Stock(y, t) \subseteq SentFrom(Home[c])
  BY <1>2, <1>3 DEF LocalMove, LocalInv, Stock
<1>5. M.parked \union Back(M.claims) \subseteq SentFrom(Home[c]) /\ r.taken \subseteq SentFrom(Home[c])
  BY <1>4 DEF Stock
<1>6. ASSUME NEW d \in Claimers, d # c
      PROVE  run[d].taken \intersect r.taken = {}
             /\ (Home[d] = Home[c] => Tidy(M, run[d].taken))
  <2>1. CASE Home[d] = Home[c]
    <3>1. /\ run[d].taken \intersect t = {}
          /\ Tidy(y, run[d].taken)
      BY <1>6, <2>1 DEF LocalInv
    <3>2. run[d].taken \intersect Back(y.claims) = {}  BY <3>1 DEF Tidy, Back
    <3>3. run[d].taken \intersect Stock(y, t) = {}  BY <3>1, <3>2 DEF Tidy, Stock
    <3>4. run[d].taken \intersect Stock(M, r.taken) = {}  BY <1>4, <3>3
    <3>5. \A k \in M.claims : k.msgs \subseteq Stock(M, r.taken)  BY BackMember DEF Stock
    <3> QED  BY <1>2, <3>4, <3>5 DEF LocalMove, Tidy, Stock
  <2>2. CASE Home[d] # Home[c]
    <3>1. run[d].taken \subseteq SentFrom(Home[d])  BY DEF LocalInv
    <3> QED  BY <1>5, <2>2, <3>1 DEF SentFrom
  <2> QED  BY <2>1, <2>2
<1>7. \A p \in Process : memory'[p].parked \union Back(memory'[p].claims) \subseteq SentFrom(p)
  BY <1>3, <1>5 DEF LocalInv
<1>8. ASSUME NEW d \in Claimers
      PROVE  /\ run'[d].taken \subseteq SentFrom(Home[d])
             /\ Tidy(memory'[Home[d]], run'[d].taken)
             /\ \A e \in Claimers : e # d => run'[d].taken \intersect run'[e].taken = {}
             /\ Patient => Holds(d, run'[d], memory'[Home[d]])
  <2>1. CASE d = c
    BY <1>2, <1>3, <1>5, <1>6, <2>1 DEF LocalMove
  <2>2. CASE d # c
    <3>1. /\ run[d].taken \subseteq SentFrom(Home[d])
          /\ Tidy(memory[Home[d]], run[d].taken)
          /\ \A e \in Claimers : e # d => run[d].taken \intersect run[e].taken = {}
          /\ Patient => Holds(d, run[d], memory[Home[d]])
      BY DEF LocalInv
    <3> QED  BY <1>2, <1>3, <1>6, <2>2, <3>1 DEF LocalMove
  <2> QED  BY <2>1, <2>2
<1>9. \A p : SentFrom(p)' = SentFrom(p)  BY <1>1 DEF SentFrom
<1> QED  BY <1>7, <1>8, <1>9 DEF LocalInv, Holds, Tidy

LEMMA SendLocal ==
  ASSUME Types, LocalInv, NEW m \in Messages, Send(m)
  PROVE  LocalInv'
<1> DEFINE q == Sender[m]
           y == memory[q]
           M == [y EXCEPT !.parked = @ \union {m}]
<1>1. q \in Process /\ y \in Memory /\ \A d \in Claimers : Home[d] \in Process
  BY MessagesAssumption DEF MessagesAssumption, Types, LocalTypes
<1>2. M.parked = y.parked \union {m} /\ M.claims = y.claims
  <2> HIDE DEF y
  <2> QED  BY <1>1 DEF Memory
<1>3. (memory' = memory \/ memory' = [memory EXCEPT ![q] = M]) /\ run' = run
      /\ m \notin sent /\ sent' = sent \union {m}
  BY DEF Send, Command
<1> HIDE DEF M
<1>4. \A p \in Process :
        /\ memory'[p].claims = memory[p].claims
        /\ \/ memory'[p].parked = memory[p].parked
           \/ p = q /\ memory'[p].parked = memory[p].parked \union {m}
  <2>1. memory \in [Process -> Memory]  BY DEF Types, LocalTypes
  <2>2. CASE memory' = memory
    BY <2>2
  <2>3. CASE memory' = [memory EXCEPT ![q] = M]
    <3>1. \A p \in Process : memory'[p] = IF p = q THEN M ELSE memory[p]
      BY <2>1, <2>3
    <3> QED  BY <1>2, <3>1
  <2> QED  BY <1>3, <2>2, <2>3
<1>5. \A p \in Process : SentFrom(p) \subseteq SentFrom(p)' /\ m \notin SentFrom(p)
  BY <1>3 DEF SentFrom
<1>6. m \in SentFrom(q)'  BY <1>3 DEF SentFrom
<1>7. \A p \in Process :
        memory'[p].parked \union Back(memory'[p].claims) \subseteq SentFrom(p)'
  BY <1>4, <1>5, <1>6 DEF LocalInv
<1>8. ASSUME NEW c \in Claimers PROVE Tidy(memory'[Home[c]], run[c].taken)
  <2>1. m \notin run[c].taken  BY <1>1, <1>5 DEF LocalInv
  <2>2. \A k \in memory[Home[c]].claims : m \notin k.msgs
    BY <1>1, <1>5, BackMember DEF LocalInv
  <2>3. Tidy(memory[Home[c]], run[c].taken)  BY DEF LocalInv
  <2> QED  BY <1>1, <1>4, <2>1, <2>2, <2>3 DEF Tidy
<1>9. \A c \in Claimers : run[c].taken \subseteq SentFrom(Home[c])'
  BY <1>1, <1>5 DEF LocalInv
<1>10. Patient => \A c \in Claimers : Holds(c, run[c], memory'[Home[c]])
  BY <1>1, <1>4 DEF LocalInv, Holds
<1> QED  BY <1>3, <1>7, <1>8, <1>9, <1>10 DEF LocalInv, Holds, Tidy

LEMMA CrashLocal ==
  ASSUME Types, LocalInv, NEW p \in Process, Crash(p)
  PROVE  LocalInv'
<1>1. /\ Started.parked = {} /\ Started.claims = {}
      /\ NoRun.taken = {} /\ ~NoRun.local
  BY DEF Started, NoRun
<1>2. Back({}) = {}  BY DEF Back
<1>3. /\ \A q \in Process : memory'[q] = IF q = p THEN Started ELSE memory[q]
      /\ \A c \in Claimers : run'[c] = IF Home[c] = p THEN NoRun ELSE run[c]
      /\ \A c \in Claimers : Home[c] \in Process
  BY Homes DEF Crash, Types, LocalTypes
<1>4. \A q : SentFrom(q)' = SentFrom(q)  BY DEF Crash, SentFrom
<1>5. \A q \in Process : memory'[q].parked \union Back(memory'[q].claims) \subseteq SentFrom(q)
  BY <1>1, <1>2, <1>3 DEF LocalInv
<1>6. ASSUME NEW c \in Claimers
      PROVE  /\ run'[c].taken \subseteq SentFrom(Home[c])
             /\ Tidy(memory'[Home[c]], run'[c].taken)
             /\ \A d \in Claimers : d # c => run'[c].taken \intersect run'[d].taken = {}
             /\ Patient => Holds(c, run'[c], memory'[Home[c]])
  <2>1. CASE Home[c] = p
    BY <1>1, <1>3, <2>1 DEF Tidy, Holds
  <2>2. CASE Home[c] # p
    <3>1. run'[c] = run[c] /\ memory'[Home[c]] = memory[Home[c]]  BY <1>3, <2>2
    <3>2. /\ run[c].taken \subseteq SentFrom(Home[c])
          /\ Tidy(memory[Home[c]], run[c].taken)
          /\ \A d \in Claimers : d # c => run[c].taken \intersect run[d].taken = {}
          /\ Patient => Holds(c, run[c], memory[Home[c]])
      BY DEF LocalInv
    <3> QED  BY <1>1, <1>3, <3>1, <3>2
  <2> QED  BY <2>1, <2>2
<1> QED  BY <1>4, <1>5, <1>6 DEF LocalInv, Holds, Tidy

LEMMA LocalStep == Types /\ LocalInv /\ [Next]_vars => LocalInv'
<1> SUFFICES ASSUME Types, LocalInv, [Next]_vars PROVE LocalInv'
  OBVIOUS
<1>1. ASSUME UNCHANGED <<memory, run, sent>> PROVE LocalInv'
  BY <1>1 DEF LocalInv, Tidy, Holds, SentFrom
<1>2. ASSUME NEW e \in 1 .. MaxStream, Elapse(e) PROVE LocalInv'
  BY <1>1, <1>2 DEF Elapse, history
<1>3. ASSUME NEW p \in Process, Disconnect(p) \/ Reconnect(p) PROVE LocalInv'
  BY <1>1, <1>3 DEF Disconnect, Reconnect, history
<1>4. CASE UNCHANGED vars
  BY <1>1, <1>4 DEF vars, history
<1> QED
  BY <1>2, <1>3, <1>4, ClaimerLocal, SendLocal, CrashLocal DEF Next, Work

-----------------------------------------------------------------------------
(* Entries: what a claimer holds is not idle, and no other claimer holds it. *)

LEMMA EffectIdle == RedisEffect => idle' \subseteq idle
BY DEF RedisEffect, Add, Popped, Reclaimed, HandedOut, Acknowledge, redis, group

LEMMA NotYetHandedOut ==
  ASSUME Types
  PROVE  /\ Fresh \intersect idle = {}
         /\ \A d \in Claimers : Fresh \intersect run[d].got = {}
<1>1. last \in Nat  BY DEF Types, StoreTypes
<1>2. Fresh \intersect (1 .. last) = {}  BY <1>1 DEF Fresh
<1> QED  BY <1>2 DEF Types, StoreTypes, RunTypes

LEMMA ClaimerEntries ==
  ASSUME Types, EntriesInv, NEW c \in Claimers, ClaimStep(c) \/ Commit(c) \/ Abandon(c)
  PROVE  EntriesInv'
<1> SUFFICES ASSUME Patient PROVE EntriesInv'
  BY DEF EntriesInv
<1>1. RedisEffect /\ Moves(c)  BY ClaimerDoes DEF Does
<1>2. PICK r \in Run, M \in Memory : Becomes(c, r, M) /\ GotFrom(c, r)
  BY <1>1, MoveShape
<1>3. idle' \subseteq idle  BY <1>1, EffectIdle
<1>4. \A d \in Claimers : run'[d] = IF d = c THEN r ELSE run[d]
  BY <1>2 DEF Becomes, Types, LocalTypes
<1>5. \A d \in Claimers : /\ run[d].got \intersect idle = {}
                          /\ \A e \in Claimers : e # d => run[d].got \intersect run[e].got = {}
  BY DEF EntriesInv
<1>6. r.got \intersect idle' = {} /\ \A d \in Claimers : d # c => r.got \intersect run[d].got = {}
  <2>1. CASE r.got \subseteq run[c].got
    BY <1>3, <1>5, <2>1
  <2>2. CASE r.got \subseteq idle /\ Reclaimed
    <3>1. idle' = {}  BY <2>2 DEF Reclaimed, Reclaimable
    <3> QED  BY <1>5, <2>2, <3>1
  <2>3. CASE r.got \subseteq run[c].got \union Fresh /\ HandedOut
    BY <1>3, <1>5, <2>3, NotYetHandedOut
  <2> QED  BY <1>2, <2>1, <2>2, <2>3 DEF GotFrom
<1> QED  BY <1>3, <1>4, <1>5, <1>6 DEF EntriesInv

LEMMA EntriesStep == Types /\ EntriesInv /\ [Next]_vars => EntriesInv'
<1> SUFFICES ASSUME Types, EntriesInv, [Next]_vars PROVE EntriesInv'
  OBVIOUS
<1>1. ASSUME UNCHANGED <<idle, run>> PROVE EntriesInv'
  BY <1>1 DEF EntriesInv
<1>2. ASSUME NEW e \in 1 .. MaxStream, Elapse(e) PROVE EntriesInv'
  BY <1>2 DEF Elapse, EntriesInv, history
<1>3. ASSUME NEW p \in Process, Disconnect(p) \/ Reconnect(p) PROVE EntriesInv'
  BY <1>1, <1>3 DEF Disconnect, Reconnect, redis, group
<1>4. ASSUME NEW m \in Messages, Send(m) PROVE EntriesInv'
  BY <1>1, <1>4 DEF Send, Command, Add, redis, group
<1>5. ASSUME NEW p \in Process, Crash(p) PROVE EntriesInv'
  <2>1. NoRun.got = {}  BY DEF NoRun
  <2>2. /\ \A c \in Claimers : run'[c] = IF Home[c] = p THEN NoRun ELSE run[c]
        /\ idle' = idle
    BY <1>5 DEF Crash, redis, group
  <2> QED  BY <2>1, <2>2 DEF EntriesInv
<1>6. CASE UNCHANGED vars
  BY <1>1, <1>6 DEF vars, redis, group
<1> QED
  BY <1>2, <1>3, <1>4, <1>5, <1>6, ClaimerEntries DEF Next, Work

-----------------------------------------------------------------------------
(* Nothing is lost.  A message is safe in the stream, in the memory of a    *)
(* process, or because it is settled; it stays so whatever happens, and the *)
(* head of the legacy list is safe before it is popped.                     *)

InStream(m) == \E e \in 1 .. Len(stream) : stream[e] = m /\ (e > last \/ e \in pending)

Safe(m) ==
  \/ InStream(m)
  \/ \E p \in Process : m \in Kept(p)
  \/ m \in done \union dead \union forgotten

\* Only a drain has messages on the way; a batch has the messages of its entries;
\* what a claim acknowledges unprocessed was processed before.
HandOf(r) ==
  /\ r.taken # {} => r.at = "drain"
  /\ r.at \in {"skip", "running", "acking"} /\ ~r.local =>
       \A e \in r.got : stream[e] \in r.hand
  /\ r.at = "skip" => \A e \in r.doomed : e \in 1 .. last /\ stream[e] \in seen

HandInv == \A c \in Claimers : HandOf(run[c])

LEMMA EffectKeeps ==
  ASSUME Types, RedisEffect
  PROVE  /\ Len(stream) \in Nat /\ Len(stream') \in Nat /\ Len(stream) <= Len(stream')
         /\ \A e \in 1 .. Len(stream) : /\ stream'[e] = stream[e]
                                        /\ e > last => e > last' \/ e \in pending'
         /\ seen \subseteq seen' /\ dead \subseteq dead'
         /\ last \in Nat /\ last <= Len(stream)
<1>1. /\ stream \in Seq(Messages) /\ Len(stream) \in Nat /\ last \in Nat /\ last <= Len(stream)
      /\ deliveries \in Seq(Counts)
  BY LenProperties DEF Types, StoreTypes
<1>2. ASSUME NEW m \in Messages, Add(m), UNCHANGED legacy
      PROVE  /\ Len(stream') = Len(stream) + 1
             /\ \A e \in 1 .. Len(stream) : stream'[e] = stream[e]
             /\ UNCHANGED <<last, seen, dead>>
  BY <1>1, <1>2, AppendProperties DEF Add
<1>3. CASE HandedOut
  BY <1>1, <1>3 DEF HandedOut, Fresh
<1>4. CASE ~HandedOut /\ ~(\E m \in Messages : Add(m) /\ UNCHANGED legacy)
  <2>1. stream' = stream /\ last' = last /\ seen \subseteq seen' /\ dead \subseteq dead'
    BY <1>4 DEF RedisEffect, Popped, Reclaimed, Acknowledge, redis, group
  <2> QED  BY <1>1, <2>1
<1> QED  BY <1>1, <1>2, <1>3, <1>4

LEMMA InStreamStays ==
  ASSUME Types, RedisEffect, \A e \in pending \ pending' : stream[e] \in done' \union dead',
         NEW m, InStream(m)
  PROVE  InStream(m)' \/ m \in done' \union dead'
<1>1. PICK e \in 1 .. Len(stream) : stream[e] = m /\ (e > last \/ e \in pending)
  BY DEF InStream
<1>2. e \in 1 .. Len(stream') /\ stream'[e] = m
  BY <1>1, EffectKeeps
<1>3. e > last' \/ e \in pending' \/ m \in done' \union dead'
  BY <1>1, EffectKeeps
<1> QED  BY <1>2, <1>3 DEF InStream

LEMMA AddedIsThere ==
  ASSUME Types, NEW m \in Messages, Add(m)
  PROVE  InStream(m)'
<1>1. stream \in Seq(Messages) /\ Len(stream) \in Nat /\ last \in Nat /\ last <= Len(stream)
  BY LenProperties DEF Types, StoreTypes
<1>2. /\ Len(stream') = Len(stream) + 1 /\ stream'[Len(stream) + 1] = m
      /\ last' = last
  BY <1>1, AppendProperties DEF Add
<1>3. Len(stream) + 1 \in 1 .. Len(stream') /\ Len(stream) + 1 > last'
  BY <1>1, <1>2
<1> QED  BY <1>2, <1>3 DEF InStream

\* An entry leaves the pending list for a committed effect, or for the dead-letter
\* stream.
LEMMA LeavesPending ==
  ASSUME Types, DoneInv, HandInv, NEW c \in Claimers, ClaimStep(c) \/ Commit(c) \/ Abandon(c)
  PROVE  \A e \in pending \ pending' : stream[e] \in done' \union dead'
<1>1. seen \subseteq done  BY DEF DoneInv, SeenMeansDone
<1>2. CASE AckEntries(c)
  <2>1. run[c].hand \subseteq done /\ \A e \in run[c].got : stream[e] \in run[c].hand
    BY <1>2 DEF AckEntries, DoneInv, HandInv, HandOf
  <2>2. pending \ pending' \subseteq run[c].got /\ done' = done
    BY <1>2 DEF AckEntries, Command, Acknowledge, redis, group, history
  <2> QED  BY <2>1, <2>2
<1>3. CASE Skip(c)
  <2>1. \A e \in run[c].doomed : stream[e] \in done
    BY <1>1, <1>3 DEF Skip, HandInv, HandOf
  <2>2. pending \ pending' \subseteq run[c].doomed /\ done' = done
    BY <1>3 DEF Skip, ClaimCommand, Command, Acknowledge, redis, group, history
  <2> QED  BY <2>1, <2>2
<1>4. CASE Bury(c)
  BY <1>4 DEF Bury, ClaimCommand, Command, Acknowledge, redis, group
<1>5. CASE ~AckEntries(c) /\ ~Skip(c) /\ ~Bury(c)
  <2>1. pending \subseteq pending'
    BY <1>5 DEF ClaimStep, Begin, ReadHead, CopyHead, PopHead, Drain, Ask, Reclaim, Read, Check,
                Commit, Abandon, MarkSeen, AckLocal, ClaimCommand, Command, Add, redis, group
  <2> QED  BY <2>1
<1> QED  BY <1>2, <1>3, <1>4, <1>5

\* What a process has of its own, with what a claimer of it has on the way.
Here(M, taken) == M.parked \union M.buried \union Back(M.claims) \union taken

KeepMove(c, r, M) ==
  \A m \in Here(memory[Home[c]], run[c].taken) : m \in Here(M, r.taken) \/ m \in done \/ Add(m)

LEMMA ClaimKeeps ==
  ASSUME Types, DoneInv, NEW c \in Claimers, LocalClaim(c), run[c].taken = {}
  PROVE  \E r \in Run, M \in Memory : Becomes(c, r, M) /\ KeepMove(c, r, M)
<1> DEFINE y == memory[Home[c]]
<1>1. PICK expired \in SUBSET Lapsed(Home[c]), r \in Run, M \in Memory :
        /\ Becomes(c, r, M) /\ M.parked = {}
        /\ M.buried = y.buried \union Over(Home[c], expired)
        /\ M.claims = (y.claims \ expired) \union
             {k \in {[by |-> c, msgs |-> Matched(c, expired)]} : Matched(c, expired) # {}}
  BY ClaimBecomes
<1>2. y \in Memory /\ \A d \in Claimers : y.known[d] \subseteq done
  BY Homes DEF DoneInv, SeenMeansDone
<1>3. Known(c) \subseteq done
  BY <1>2 DEF Known, SeenSet, Memory
<1>4. (y.parked \union Back(expired)) \ Over(Home[c], expired)
        \subseteq Matched(c, expired) \union done
  BY <1>3 DEF Matched
<1>5. Matched(c, expired) \subseteq Back(M.claims)
  <2> DEFINE k == [by |-> c, msgs |-> Matched(c, expired)]
  <2>1. CASE Matched(c, expired) = {}
    BY <2>1
  <2>2. CASE Matched(c, expired) # {}
    <3>1. k \in M.claims /\ k.msgs = Matched(c, expired)  BY <1>1, <2>2
    <3> HIDE DEF k
    <3> QED  BY <3>1, BackMember
  <2> QED  BY <2>1, <2>2
<1>6. Back(y.claims) \subseteq Back(M.claims) \union Back(expired)
  <2>1. y.claims \ expired \subseteq M.claims  BY <1>1
  <2> QED  BY <2>1 DEF Back
<1>7. KeepMove(c, r, M)
  <2> SUFFICES ASSUME NEW m, m \in y.parked \/ m \in y.buried \/ m \in Back(y.claims)
               PROVE  m \in M.buried \union Back(M.claims) \union done
    BY DEF KeepMove, Here
  <2>1. m \in Over(Home[c], expired) => m \in M.buried  BY <1>1
  <2> QED  BY <1>1, <1>4, <1>5, <1>6, <2>1
<1> QED  BY <1>1, <1>7

LEMMA KeepMoves ==
  ASSUME Types, DoneInv, HandInv, NEW c \in Claimers, Moves(c)
  PROVE  \E r \in Run, M \in Memory : Becomes(c, r, M) /\ KeepMove(c, r, M)
<1> DEFINE y == memory[Home[c]]
<1>0. run[c].at # "drain" => run[c].taken = {}  BY DEF HandInv, HandOf
<1>1. ASSUME NEW r \in Run, GoesOn(c, r), Go(c, r)
      PROVE  Becomes(c, r, y) /\ KeepMove(c, r, y)
  <2>1. \A m \in run[c].taken \ r.taken : Add(m)  BY <1>0, <1>1 DEF GoesOn
  <2> QED  BY <1>1, <2>1, GoBecomes DEF KeepMove, Here
<1>2. CASE run[c].at # "drain" /\ LocalClaim(c)
  BY <1>0, <1>2, ClaimKeeps
<1>3. CASE run[c].at \in {"head", "copy", "pop"} /\ TakeParked(c)
  <2>1. PICK r \in Run, M \in Memory :
          /\ Becomes(c, r, M) /\ r.taken = y.parked /\ M.parked = {}
          /\ M.claims = y.claims /\ M.buried = y.buried
    BY <1>3, TakeBecomes
  <2> QED  BY <1>0, <1>3, <2>1 DEF KeepMove, Here
<1>4. CASE run[c].at = "drain" /\ PutsBack(c)
  <2>1. PICK r \in Run, M \in Memory :
          /\ Becomes(c, r, M) /\ M.parked = y.parked \union run[c].taken
          /\ M.claims = y.claims /\ M.buried = y.buried
    BY <1>4, PutBecomes
  <2> QED  BY <2>1 DEF KeepMove, Here
<1>5. CASE AckLocal(c)
  <2>1. run[c].at = "acking"  BY <1>5, AckBecomes
  <2>2. PICK M \in Memory :
          /\ Becomes(c, NoRun, M) /\ M.parked = y.parked /\ M.buried = y.buried
          /\ M.claims = y.claims \ {[by |-> c, msgs |-> run[c].hand]}
    BY <1>5, AckBecomes
  <2>3. run[c].hand \subseteq done /\ run[c].taken = {}  BY <1>0, <2>1 DEF DoneInv
  <2>4. Back(y.claims) \subseteq Back(M.claims) \union run[c].hand
    BY <2>2 DEF Back
  <2>5. KeepMove(c, NoRun, M)  BY <2>2, <2>3, <2>4 DEF KeepMove, Here
  <2> QED  BY <2>2, <2>5 DEF Becomes
<1> QED  BY <1>1, <1>2, <1>3, <1>4, <1>5, Homes DEF Moves

LEMMA KeptIsHere ==
  ASSUME NEW p \in Process, NEW m
  PROVE  m \in Kept(p) <=> \/ m \in Here(memory[p], {})
                           \/ \E d \in Claimers : Home[d] = p /\ m \in run[d].taken
BY DEF Kept, Here

LEMMA SafeWithClaimer ==
  ASSUME Types, DoneInv, HandInv, NEW c \in Claimers, ClaimStep(c) \/ Commit(c) \/ Abandon(c),
         NEW m \in Messages, Safe(m)
  PROVE  Safe(m)'
<1>1. RedisEffect /\ Moves(c) /\ Records(c)  BY ClaimerDoes DEF Does
<1>2. /\ done \subseteq done' /\ dead \subseteq dead' /\ forgotten' = forgotten
  BY <1>1, EffectKeeps DEF Records
<1>3. CASE InStream(m)
  BY <1>1, <1>3, LeavesPending, InStreamStays DEF Safe
<1>4. ASSUME NEW p \in Process, m \in Kept(p) PROVE Safe(m)'
  <2>1. PICK r \in Run, M \in Memory : Becomes(c, r, M) /\ KeepMove(c, r, M)
    BY <1>1, KeepMoves
  <2>2. /\ \A d \in Claimers : run'[d] = IF d = c THEN r ELSE run[d]
        /\ \A q \in Process : memory'[q] = IF q = Home[c] THEN M ELSE memory[q]
    BY <2>1, Homes DEF Becomes, Types, LocalTypes
  <2>3. CASE \E d \in Claimers : d # c /\ Home[d] = p /\ m \in run[d].taken
    BY <2>2, <2>3 DEF Safe, Kept
  <2>4. CASE p # Home[c] /\ m \in Here(memory[p], {})
    BY <2>2, <2>4 DEF Safe, Kept, Here
  <2>5. CASE p = Home[c] /\ m \in Here(memory[p], run[c].taken)
    <3>1. m \in Here(M, r.taken) \/ m \in done \/ Add(m)
      BY <2>1, <2>5 DEF KeepMove
    <3>2. CASE m \in Here(M, r.taken)
      BY <2>2, <2>5, <3>2 DEF Safe, Kept, Here
    <3>3. CASE m \in done
      BY <1>2, <3>3 DEF Safe
    <3>4. CASE Add(m)
      BY <3>4, AddedIsThere DEF Safe
    <3> QED  BY <3>1, <3>2, <3>3, <3>4
  <2> QED  BY <1>4, <2>3, <2>4, <2>5, KeptIsHere DEF Here
<1>5. CASE m \in done \union dead \union forgotten
  BY <1>2, <1>5 DEF Safe
<1> QED  BY <1>3, <1>4, <1>5 DEF Safe

\* HandInv, from step to step.
LEMMA HandLater ==
  ASSUME Types, RedisEffect, NEW r \in Run, HandOf(r), r.got \subseteq 1 .. Len(stream)
  PROVE  HandOf(r)'
<1>1. 1 .. last \subseteq 1 .. Len(stream)
  BY EffectKeeps
<1>2. last \in Nat /\ last' \in Nat /\ last <= last'
  BY EffectTypes DEF Types, StoreTypes
<1>3. 1 .. last \subseteq 1 .. last'  BY <1>2
<1>4. \A e \in 1 .. Len(stream) : stream'[e] = stream[e]  BY EffectKeeps
<1>5. seen \subseteq seen'  BY EffectKeeps
<1> QED  BY <1>1, <1>3, <1>4, <1>5 DEF HandOf

\* What a claimer goes on as, when it is neither skipping nor working.
LEMMA HandEasy ==
  ASSUME NEW r, r.at \notin {"skip", "running", "acking"}, r.taken = {} \/ r.at = "drain"
  PROVE  HandOf(r)
BY DEF HandOf

LEMMA HandDelivered ==
  ASSUME NEW x, HandOf(x), ~x.local, x.taken = {}, x \in Run, x.at = "skip"
  PROVE  HandOf(Deliver(x))
<1>1. CASE x.hand = {}
  BY <1>1 DEF Deliver, HandOf, NoRun
<1>2. CASE x.hand # {}
  <2> DEFINE r == [x EXCEPT !.at = "running"]
  <2>1. r.at = "running" /\ r.taken = {} /\ r.got = x.got /\ r.hand = x.hand
    BY DEF Run
  <2>2. HandOf(r)
    <3> HIDE DEF r
    <3> QED  BY <2>1 DEF HandOf
  <2> QED  BY <1>2, <2>2 DEF Deliver
<1> QED  BY <1>1, <1>2

LEMMA CheckHand ==
  ASSUME Types, NEW c \in Claimers, Check(c), ~LocalClaim(c)
  PROVE  HandOf(run'[c])
<1> DEFINE M == {stream[e] : e \in Batch(c)}
           x == [NoRun EXCEPT !.at = "skip", !.got = Batch(c), !.doomed = Processed(c), !.hand = M]
<1>1. run[c].got \subseteq 1 .. last /\ run[c].got \subseteq Nat
  BY ClaimingRun DEF Run
<1>2. run' = [run EXCEPT ![c] = x] \/ run' = [run EXCEPT ![c] = Deliver(x)]
  BY DEF Check, ClaimCommand, Command, Go, Set
<1>3. run'[c] \in {x, Deliver(x)}
  <2> HIDE DEF x
  <2> QED  BY <1>2 DEF Types, LocalTypes
<1>4. /\ x.at = "skip" /\ x.taken = {} /\ x.got = Batch(c) /\ x.doomed = Processed(c)
      /\ x.hand = M /\ ~x.local
  <2> HIDE DEF M
  <2> QED  BY DEF NoRun
<1>5. HandOf(x)
  <2>1. \A e \in x.got : stream[e] \in x.hand  BY <1>4
  <2>2. \A e \in x.doomed : e \in 1 .. last /\ stream[e] \in seen
    BY <1>1, <1>4 DEF Processed
  <2> HIDE DEF x
  <2> QED  BY <1>4, <2>1, <2>2 DEF HandOf
<1>6. HandOf(Deliver(x))
  <2>1. CASE x.hand = {}
    BY <2>1 DEF Deliver, HandOf, NoRun
  <2>2. CASE x.hand # {}
    <3> DEFINE r == [x EXCEPT !.at = "running"]
    <3>1. /\ r.at = "running" /\ r.taken = {} /\ r.got = Batch(c) /\ r.hand = M
      <4> HIDE DEF M
      <4> QED  BY DEF NoRun
    <3>2. \A e \in r.got : stream[e] \in r.hand  BY <3>1
    <3>3. HandOf(r)
      <4> HIDE DEF r
      <4> QED  BY <3>1, <3>2 DEF HandOf
    <3> HIDE DEF x
    <3> QED  BY <2>2, <3>3 DEF Deliver
  <2> QED  BY <2>1, <2>2
<1> QED  BY <1>3, <1>5, <1>6

LEMMA SkipHand ==
  ASSUME Types, HandInv, NEW c \in Claimers, Skip(c), ~LocalClaim(c)
  PROVE  HandOf(run'[c])
<1>1. /\ run[c] \in Run /\ ~run[c].local /\ run[c].at = "skip" /\ HandOf(run[c])
      /\ run[c].taken = {}
  BY ClaimingRun DEF Skip, HandInv, HandOf
<1>2. ASSUME NEW D \in SUBSET run[c].doomed
      PROVE  LET x == [run[c] EXCEPT !.doomed = D] IN HandOf(x) /\ HandOf(Deliver(x))
  <2> DEFINE x == [run[c] EXCEPT !.doomed = D]
  <2>1. /\ x.at = "skip" /\ x.taken = {} /\ x.got = run[c].got /\ x.doomed = D
        /\ x.hand = run[c].hand /\ ~x.local /\ x \in Run
    <3>1. run[c].doomed \subseteq Nat  BY <1>1 DEF Run
    <3> QED  BY <1>1, <3>1 DEF Run
  <2> HIDE DEF x
  <2>2. HandOf(x)  BY <1>1, <2>1 DEF HandOf
  <2> QED  BY <2>1, <2>2, HandDelivered DEF x
<1>3. PICK e \in run[c].doomed :
        \/ Go(c, Deliver([run[c] EXCEPT !.doomed = {}]))
        \/ Go(c, [run[c] EXCEPT !.doomed = @ \ {e}])
  BY DEF Skip, ClaimCommand, Command
<1>4. [run[c] EXCEPT !.doomed = @ \ {e}] = [run[c] EXCEPT !.doomed = run[c].doomed \ {e}]
  OBVIOUS
<1>5. ASSUME NEW r, Go(c, r), HandOf(r) PROVE HandOf(run'[c])
  BY <1>5 DEF Go, Set, Types, LocalTypes
<1>6. run[c].doomed \ {e} \in SUBSET run[c].doomed /\ {} \in SUBSET run[c].doomed
  OBVIOUS
<1> QED  BY <1>2, <1>3, <1>4, <1>5, <1>6

\* In every other step the claimer claims, ends, or goes on with the same batch.
LEMMA OtherHand ==
  ASSUME Types, HandInv, NEW c \in Claimers, ~Check(c), ~Skip(c), ~LocalClaim(c),
         ClaimStep(c) \/ Commit(c) \/ Abandon(c)
  PROVE  HandOf(run'[c])
<1> DEFINE x == run[c]
<1>1. x \in Run /\ HandOf(x) /\ run \in [Claimers -> Run]
  BY ClaimingRun DEF HandInv, Types, LocalTypes
<1>2. x.at # "drain" => x.taken = {}  BY <1>1 DEF HandOf
<1>3. ASSUME NEW r, Go(c, r), HandOf(r) PROVE HandOf(run'[c])
  BY <1>1, <1>3 DEF Go, Set
<1>4. ASSUME NEW a \in Claiming \union {"marking"}, a # "skip", x.taken = {},
             Go(c, [x EXCEPT !.at = a])
      PROVE  HandOf(run'[c])
  <2> DEFINE r == [x EXCEPT !.at = a]
  <2>1. r.at = a /\ r.taken = {}
    <3> HIDE DEF x
    <3> QED  BY <1>1, <1>4 DEF Run
  <2>2. HandOf(r)
    <3> HIDE DEF r
    <3> QED  BY <1>4, <2>1, HandEasy DEF Claiming
  <2> HIDE DEF r
  <2> QED  BY <1>3, <1>4, <2>2 DEF r
<1>5. HandOf(NoRun)  BY DEF HandOf, NoRun
<1>6. CASE TakeParked(c)
  <2>1. PICK r \in Run, M \in Memory : Becomes(c, r, M) /\ r.at = "drain"
    BY <1>6, TakeBecomes
  <2> QED  BY <1>1, <2>1, HandEasy DEF Becomes
<1>7. CASE PutsBack(c)
  <2>1. PICK r \in Run, M \in Memory : Becomes(c, r, M) /\ r.at = "ask" /\ r.taken = {}
    BY <1>7, PutBecomes
  <2> QED  BY <1>1, <2>1, HandEasy DEF Becomes
<1>8. CASE Begin(c)
  BY <1>2, <1>4, <1>8 DEF Begin, ClaimCommand, Command, Claiming
<1>9. CASE ReadHead(c)
  <2> DEFINE r == [x EXCEPT !.at = "copy", !.head = {Head(legacy)}]
  <2>1. TakeParked(c) \/ Go(c, r)  BY <1>9 DEF ReadHead, Command
  <2>2. HandOf(r)
    <3>1. r.at = "copy" /\ r.taken = {}  BY <1>1, <1>2, <1>9 DEF ReadHead, Run
    <3> HIDE DEF r
    <3> QED  BY <3>1, HandEasy
  <2> QED  BY <1>3, <1>6, <2>1, <2>2
<1>10. CASE CopyHead(c)
  <2>1. TakeParked(c) \/ Go(c, [x EXCEPT !.at = "pop"])  BY <1>10 DEF CopyHead, Command
  <2> QED  BY <1>2, <1>4, <1>6, <1>10, <2>1 DEF CopyHead, Claiming
<1>11. CASE PopHead(c)
  <2> DEFINE r == [x EXCEPT !.at = "head", !.head = {}]
  <2>1. TakeParked(c) \/ Go(c, r)  BY <1>11 DEF PopHead, Command
  <2>2. HandOf(r)
    <3>1. r.at = "head" /\ r.taken = {}  BY <1>1, <1>2, <1>11 DEF PopHead, Run
    <3> HIDE DEF r
    <3> QED  BY <3>1, HandEasy
  <2> QED  BY <1>3, <1>6, <2>1, <2>2
<1>12. CASE Drain(c)
  <2>1. ASSUME NEW m \in x.taken, Go(c, [x EXCEPT !.taken = @ \ {m}]) PROVE HandOf(run'[c])
    <3> DEFINE r == [x EXCEPT !.taken = @ \ {m}]
    <3>1. r.at = "drain"  BY <1>1, <1>12 DEF Drain, Run
    <3>2. HandOf(r)
      <4> HIDE DEF r
      <4> QED  BY <3>1, HandEasy
    <3> QED  BY <1>3, <2>1, <3>2
  <2>2. ASSUME x.taken = {}, Go(c, [x EXCEPT !.at = "ask"]) PROVE HandOf(run'[c])
    BY <1>4, <2>2 DEF Claiming
  <2> QED  BY <1>7, <1>12, <2>1, <2>2 DEF Drain, Command, PutsBack
<1>13. CASE Ask(c)
  <2> DEFINE r == [x EXCEPT !.at = "reclaim", !.doomed = AtCeiling]
  <2>1. Go(c, r)  BY <1>13 DEF Ask, ClaimCommand, Command
  <2>2. HandOf(r)
    <3>1. r.at = "reclaim" /\ r.taken = {}  BY <1>1, <1>2, <1>13 DEF Ask, Run
    <3> HIDE DEF r
    <3> QED  BY <3>1, HandEasy
  <2> QED  BY <1>3, <2>1, <2>2
<1>14. CASE Reclaim(c)
  <2> DEFINE r == [x EXCEPT !.at = "bury", !.got = Reclaimable]
  <2>1. Go(c, r)  BY <1>14 DEF Reclaim, ClaimCommand, Command
  <2>2. HandOf(r)
    <3>1. r.at = "bury" /\ r.taken = {}  BY <1>1, <1>2, <1>14 DEF Reclaim, Run
    <3> HIDE DEF r
    <3> QED  BY <3>1, HandEasy
  <2> QED  BY <1>3, <2>1, <2>2
<1>15. CASE Bury(c)
  <2>1. x.at = "bury" /\ x.taken = {}  BY <1>2, <1>15 DEF Bury
  <2>2. ASSUME NEW e, Go(c, [x EXCEPT !.got = @ \ {e}, !.doomed = @ \ {e}])
        PROVE  HandOf(run'[c])
    <3> DEFINE r == [x EXCEPT !.got = @ \ {e}, !.doomed = @ \ {e}]
    <3>1. r.at = "bury" /\ r.taken = {}  BY <1>1, <2>1 DEF Run
    <3>2. HandOf(r)
      <4> HIDE DEF r
      <4> QED  BY <3>1, HandEasy
    <3> QED  BY <1>3, <2>2, <3>2
  <2>3. ASSUME Go(c, [x EXCEPT !.at = "read"]) PROVE HandOf(run'[c])
    BY <1>4, <2>1, <2>3 DEF Claiming
  <2> QED  BY <1>15, <2>2, <2>3 DEF Bury, ClaimCommand, Command
<1>16. CASE Read(c)
  <2> DEFINE r == [x EXCEPT !.at = "check", !.got = @ \union Fresh]
  <2>1. Go(c, r)  BY <1>16 DEF Read, ClaimCommand, Command
  <2>2. HandOf(r)
    <3>1. r.at = "check" /\ r.taken = {}  BY <1>1, <1>2, <1>16 DEF Read, Run
    <3> HIDE DEF r
    <3> QED  BY <3>1, HandEasy
  <2> QED  BY <1>3, <2>1, <2>2
<1>17. CASE Commit(c)
  <2> DEFINE r == [x EXCEPT !.at = "acking"]
  <2>1. Go(c, r)  BY <1>17 DEF Commit
  <2>2. HandOf(r)
    <3>1. /\ r.at = "acking" /\ r.taken = x.taken /\ r.got = x.got /\ r.hand = x.hand
          /\ r.local = x.local /\ x.at = "running" /\ x.taken = {}
      BY <1>1, <1>2, <1>17 DEF Commit, Run
    <3> HIDE DEF r
    <3> QED  BY <1>1, <3>1 DEF HandOf
  <2> QED  BY <1>3, <2>1, <2>2
<1>18. CASE AckEntries(c)
  <2>1. Go(c, [x EXCEPT !.at = "marking"]) \/ Go(c, NoRun)
    BY <1>18 DEF AckEntries, Command
  <2> QED  BY <1>2, <1>3, <1>4, <1>5, <1>18, <2>1 DEF AckEntries
<1>19. CASE Abandon(c) \/ MarkSeen(c)
  BY <1>3, <1>5, <1>19 DEF Abandon, MarkSeen
<1>20. CASE AckLocal(c)
  BY <1>1, <1>5, <1>20 DEF AckLocal, Set
<1> QED
  BY <1>8, <1>9, <1>10, <1>11, <1>12, <1>13, <1>14, <1>15, <1>16, <1>17, <1>18, <1>19, <1>20
     DEF ClaimStep

LEMMA ClaimerHand ==
  ASSUME Types, HandInv, NEW c \in Claimers, ClaimStep(c) \/ Commit(c) \/ Abandon(c)
  PROVE  HandInv'
<1>1. RedisEffect /\ Moves(c)  BY ClaimerDoes DEF Does
<1>2. PICK r \in Run, M \in Memory : Becomes(c, r, M) /\ GotFrom(c, r)
  BY <1>1, MoveShape
<1>3. \A d \in Claimers : run'[d] = IF d = c THEN r ELSE run[d]
  BY <1>2 DEF Becomes, Types, LocalTypes
<1>4. /\ \A d \in Claimers : run[d] \in Run /\ run[d].got \subseteq 1 .. Len(stream)
      /\ r.got \subseteq 1 .. Len(stream)
  <2>1. 1 .. last \subseteq 1 .. Len(stream) /\ Fresh \subseteq 1 .. Len(stream)
    BY EffectKeeps, <1>1 DEF Fresh
  <2> QED  BY <1>2, <2>1, ClaimingRun DEF GotFrom, Types, StoreTypes
<1>5. HandOf(r)
  <2>1. CASE LocalClaim(c)
    <3>1. PICK x \in Run, N \in Memory :
            /\ Becomes(c, x, N) /\ x.taken = {}
            /\ x.local => x.at = "running"
            /\ ~x.local => x.at = "idle"
      BY <2>1, ClaimBecomes
    <3>2. x = r  BY <1>3, <3>1 DEF Becomes, Types, LocalTypes
    <3> QED  BY <3>1, <3>2 DEF HandOf
  <2>2. CASE ~LocalClaim(c)
    <3>1. HandOf(run'[c])  BY <2>2, CheckHand, SkipHand, OtherHand
    <3> QED  BY <1>3, <3>1
  <2> QED  BY <2>1, <2>2
<1>6. ASSUME NEW d \in Claimers PROVE HandOf(run[d])'
  <2>1. CASE d = c
    <3>1. HandOf(r)'  BY <1>1, <1>4, <1>5, HandLater
    <3> QED  BY <1>3, <2>1, <3>1 DEF HandOf
  <2>2. CASE d # c
    <3>1. PICK y \in Run : y = run[d]  BY <1>4
    <3>2. HandOf(y)'  BY <1>1, <1>4, <3>1, HandLater DEF HandInv
    <3>3. run'[d] = y  BY <1>3, <2>2, <3>1
    <3> QED  BY <3>2, <3>3 DEF HandOf
  <2> QED  BY <2>1, <2>2
<1> QED  BY <1>6 DEF HandInv

LEMMA HandStep == Types /\ HandInv /\ [Next]_vars => HandInv'
<1> SUFFICES ASSUME Types, HandInv, [Next]_vars PROVE HandInv'
  OBVIOUS
<1>1. ASSUME UNCHANGED <<stream, last, seen, run>> PROVE HandInv'
  BY <1>1 DEF HandInv, HandOf
<1>2. ASSUME NEW e \in 1 .. MaxStream, Elapse(e) PROVE HandInv'
  BY <1>1, <1>2 DEF Elapse
<1>3. ASSUME NEW p \in Process, Disconnect(p) \/ Reconnect(p) PROVE HandInv'
  BY <1>1, <1>3 DEF Disconnect, Reconnect, redis, group
<1>4. ASSUME NEW m \in Messages, Send(m) PROVE HandInv'
  <2>1. RedisEffect /\ run' = run
    BY <1>4 DEF Send, Command, RedisEffect
  <2>2. 1 .. last \subseteq 1 .. Len(stream)  BY <2>1, EffectKeeps
  <2>3. ASSUME NEW d \in Claimers PROVE HandOf(run[d])'
    <3>1. PICK y \in Run : y = run[d]  BY Homes
    <3>2. HandOf(y)'  BY <2>1, <2>2, <3>1, ClaimingRun, HandLater DEF HandInv
    <3> QED  BY <2>1, <3>1, <3>2 DEF HandOf
  <2> QED  BY <2>3 DEF HandInv
<1>5. ASSUME NEW p \in Process, Crash(p) PROVE HandInv'
  <2>1. /\ \A d \in Claimers : run'[d] \in {run[d], NoRun}
        /\ UNCHANGED <<stream, last, seen>>
    BY <1>5 DEF Crash, redis, group
  <2>2. HandOf(NoRun)'  BY DEF HandOf, NoRun
  <2> QED  BY <2>1, <2>2 DEF HandInv, HandOf
<1>6. CASE UNCHANGED vars
  BY <1>1, <1>6 DEF vars, redis, group
<1> QED
  BY <1>2, <1>3, <1>4, <1>5, <1>6, ClaimerHand DEF Next, Work

\* Safe in every step.
LEMMA SafeStays ==
  ASSUME Types, DoneInv, HandInv, [Next]_vars, NEW m \in Messages, Safe(m)
  PROVE  Safe(m)'
<1>1. ASSUME NEW n \in Messages, Send(n) PROVE Safe(m)'
  <2> DEFINE q == Sender[n]
             y == memory[q]
             M == [y EXCEPT !.parked = @ \union {n}]
  <2>1. q \in Process /\ y \in Memory
    BY MessagesAssumption DEF MessagesAssumption, Types, LocalTypes
  <2>2. M.claims = y.claims /\ M.buried = y.buried /\ y.parked \subseteq M.parked
    <3> HIDE DEF y
    <3> QED  BY <2>1 DEF Memory
  <2>3. /\ memory' = memory \/ memory' = [memory EXCEPT ![q] = M]
        /\ UNCHANGED <<run, done, forgotten>> /\ RedisEffect /\ pending' = pending
    BY <1>1 DEF Send, Command, RedisEffect, Add, redis, group
  <2> HIDE DEF M
  <2>4. \A p \in Process : Kept(p) \subseteq Kept(p)'
    <3>1. \A p \in Process : /\ memory'[p].claims = memory[p].claims
                             /\ memory'[p].buried = memory[p].buried
                             /\ memory[p].parked \subseteq memory'[p].parked
      BY <2>1, <2>2, <2>3 DEF Types, LocalTypes
    <3> QED  BY <2>3, <3>1 DEF Kept
  <2>5. dead \subseteq dead'  BY <2>3, EffectKeeps
  <2>6. InStream(m) => InStream(m)' \/ m \in done' \union dead'
    BY <2>3, InStreamStays
  <2> QED  BY <2>3, <2>4, <2>5, <2>6 DEF Safe
<1>2. ASSUME NEW p \in Process, Crash(p) PROVE Safe(m)'
  <2>1. UNCHANGED <<stream, last, pending, done, dead>> /\ forgotten' = forgotten \union Kept(p)
    BY <1>2 DEF Crash, redis, group
  <2>2. ASSUME NEW q \in Process, q # p PROVE Kept(q)' = Kept(q)
    <3>1. memory'[q] = memory[q]  BY <1>2, <2>2 DEF Crash, Types, LocalTypes
    <3>2. \A d \in Claimers : Home[d] = q => run'[d] = run[d]
      BY <1>2, <2>2 DEF Crash
    <3> QED  BY <3>1, <3>2 DEF Kept
  <2> QED  BY <2>1, <2>2 DEF Safe, InStream
<1>3. ASSUME UNCHANGED <<stream, last, pending, dead, memory, run, done, forgotten>>
      PROVE  Safe(m)'
  BY <1>3 DEF Safe, InStream, Kept
<1>4. ASSUME NEW e \in 1 .. MaxStream, Elapse(e) PROVE Safe(m)'
  BY <1>3, <1>4 DEF Elapse, history
<1>5. ASSUME NEW p \in Process, Disconnect(p) \/ Reconnect(p) PROVE Safe(m)'
  BY <1>3, <1>5 DEF Disconnect, Reconnect, redis, group, history
<1>6. CASE UNCHANGED vars
  BY <1>3, <1>6 DEF vars, redis, group, history
<1> QED
  BY <1>1, <1>2, <1>4, <1>5, <1>6, SafeWithClaimer DEF Next, Work

\* Two claims drain a list of two entries into trouble: both copy the first, and
\* each pops one.  So at most one entry was left behind, or one claimer drains.
OneDrains == (\A s \in Legacy : Len(s) <= 1) \/ (\A c, d \in Claimers : c = d)

Drainable == Len(legacy) <= 1 \/ (\A c, d \in Claimers : c = d)

\* What a claimer copies is the head, and what it is to pop is safe.
HeadOf(r) ==
  /\ r.at = "copy" /\ legacy # <<>> => r.head = {Head(legacy)}
  /\ r.at = "pop" /\ legacy # <<>> => Safe(Head(legacy))

KeepInv ==
  /\ Drainable
  /\ \A c \in Claimers : HeadOf(run[c])
  /\ \A m \in sent : m \in Elements(legacy) \/ Safe(m)

LEMMA LegacySteps ==
  ASSUME Types, NEW c \in Claimers, ClaimStep(c) \/ Commit(c) \/ Abandon(c)
  PROVE  \/ legacy' = legacy
         \/ run[c].at = "pop" /\ legacy' = SubSeq(legacy, 2, Len(legacy))
BY DEF ClaimStep, Begin, ReadHead, CopyHead, PopHead, Drain, Ask, Reclaim, Bury, Read, Check,
       Skip, Commit, Abandon, AckEntries, MarkSeen, AckLocal, ClaimCommand, Command, redis

LEMMA HeadMoves ==
  ASSUME Types, NEW c \in Claimers, Moves(c)
  PROVE  \E r \in Run, M \in Memory : Becomes(c, r, M) /\ HeadRead(c, r)
<1>1. ASSUME NEW r \in Run, GoesOn(c, r), Go(c, r)
      PROVE  Becomes(c, r, memory[Home[c]]) /\ HeadRead(c, r)
  BY <1>1, GoBecomes DEF GoesOn
<1>2. CASE LocalClaim(c)
  <2>1. PICK r \in Run, M \in Memory : Becomes(c, r, M) /\ r.at \in {"idle", "running"}
    BY <1>2, ClaimBecomes
  <2>2. HeadRead(c, r)  BY <2>1 DEF HeadRead
  <2> QED  BY <2>1, <2>2
<1>3. CASE TakeParked(c)
  BY <1>3, TakeBecomes DEF HeadRead
<1>4. CASE PutsBack(c)
  BY <1>4, PutBecomes DEF HeadRead
<1>5. CASE AckLocal(c)
  <2>1. PICK M \in Memory : Becomes(c, NoRun, M)  BY <1>5, AckBecomes
  <2>2. NoRun \in Run /\ HeadRead(c, NoRun)  BY <2>1 DEF HeadRead, NoRun, Becomes
  <2> QED  BY <2>1, <2>2
<1> QED  BY <1>1, <1>2, <1>3, <1>4, <1>5, Homes DEF Moves

LEMMA Popping ==
  ASSUME NEW s \in Seq(Messages)
  PROVE  LET t == SubSeq(s, 2, Len(s))
         IN  /\ Len(s) <= 1 => t = <<>>
             /\ Len(t) <= Len(s)
             /\ \A m \in Elements(s) : s # <<>> /\ (m = Head(s) \/ m \in Elements(t))
             /\ s # <<>> => Head(s) \in Messages
<1> DEFINE t == SubSeq(s, 2, Len(s))
<1>1. /\ Len(s) \in Nat /\ DOMAIN s = 1 .. Len(s)
      /\ \A i \in 1 .. Len(s) : s[i] \in Messages
  BY LenProperties, ElementOfSeq
<1>2. /\ t \in Seq(Messages) /\ Len(t) = IF 2 <= Len(s) THEN Len(s) - 1 ELSE 0
      /\ \A i \in 1 .. Len(s) - 1 : t[i] = s[i + 1]
  <2>1. \A i \in 2 .. Len(s) : s[i] \in Messages  BY <1>1
  <2> HIDE DEF t
  <2> QED  BY <1>1, <2>1, SubSeqProperties DEF t
<1>3. DOMAIN t = 1 .. Len(t)  BY <1>2, LenProperties
<1>4. Len(s) <= 1 => t = <<>>
  <2>1. Len(s) <= 1 => Len(t) = 0  BY <1>1, <1>2
  <2> QED  BY <1>2, <2>1, EmptySeq
<1>5. Len(t) <= Len(s)  BY <1>1, <1>2
<1>6. s # <<>> => Head(s) = s[1] /\ Head(s) \in Messages  BY HeadTailProperties
<1>7. ASSUME NEW m \in Elements(s) PROVE s # <<>> /\ (m = Head(s) \/ m \in Elements(t))
  <2>1. PICK i \in 1 .. Len(s) : m = s[i]  BY <1>1 DEF Elements
  <2>2. s # <<>>  BY <1>1, <2>1
  <2>3. CASE i = 1
    BY <1>6, <2>1, <2>2, <2>3
  <2>4. CASE i # 1
    <3>1. i - 1 \in 1 .. Len(s) - 1 /\ i - 1 \in 1 .. Len(t)
      BY <1>1, <1>2, <2>1, <2>4
    <3>2. t[i - 1] = s[i]  BY <1>1, <1>2, <3>1
    <3> QED  BY <1>3, <2>1, <2>2, <3>1, <3>2 DEF Elements
  <2> QED  BY <2>3, <2>4
<1> QED  BY <1>4, <1>5, <1>6, <1>7

LEMMA ClaimerKeeps ==
  ASSUME Types, DoneInv, HandInv, KeepInv, NEW c \in Claimers,
         ClaimStep(c) \/ Commit(c) \/ Abandon(c)
  PROVE  KeepInv'
<1>1. Moves(c) /\ sent' = sent  BY ClaimerDoes DEF Does, Records
<1>2. PICK r \in Run, M \in Memory : Becomes(c, r, M) /\ HeadRead(c, r)
  BY <1>1, HeadMoves
<1>3. \A d \in Claimers : run'[d] = IF d = c THEN r ELSE run[d]
  BY <1>2 DEF Becomes, Types, LocalTypes
<1>4. \A m \in Messages : Safe(m) => Safe(m)'
  BY SafeWithClaimer
<1>5. /\ legacy \in Seq(Messages) /\ legacy' \in Seq(Messages)
      /\ sent \subseteq Messages /\ Len(legacy) \in Nat /\ Len(legacy') \in Nat
  BY ClaimerTypes, LenProperties DEF Types, StoreTypes, HistoryTypes
<1>6. CASE legacy' = legacy
  <2>1. Drainable'  BY <1>6 DEF KeepInv, Drainable
  <2>2. ASSUME NEW d \in Claimers, d # c PROVE HeadOf(run[d])'
    <3>1. HeadOf(run[d]) /\ run'[d] = run[d]  BY <1>3, <2>2 DEF KeepInv
    <3>2. legacy # <<>> => Head(legacy) \in Messages  BY <1>5, Popping
    <3>3. legacy # <<>> /\ Safe(Head(legacy)) => Safe(Head(legacy))'
      <4>1. ASSUME legacy # <<>>, Safe(Head(legacy)) PROVE Safe(Head(legacy))'
        <5>1. PICK h \in Messages : h = Head(legacy)  BY <3>2, <4>1
        <5>2. Safe(h)'  BY <1>4, <4>1, <5>1
        <5>3. Head(legacy)' = h  BY <1>6, <5>1
        <5> QED  BY <5>2, <5>3
      <4> QED  BY <4>1
    <3> QED  BY <1>6, <3>1, <3>3 DEF HeadOf
  <2>3. HeadOf(run[c])'
    <3>1. r.at = "copy" => r.head = {Head(legacy')}
      BY <1>2, <1>6 DEF HeadRead
    <3>2. ASSUME r.at = "pop", legacy' # <<>> PROVE Safe(Head(legacy))'
      <4>1. PICK h \in run[c].head : Add(h)  BY <1>2, <3>2 DEF HeadRead
      <4>2. h = Head(legacy)  BY <1>2, <1>6, <3>2, <4>1 DEF HeadRead, KeepInv, HeadOf
      <4>3. h \in Messages  BY <1>5, <1>6, <3>2, <4>2, Popping
      <4>4. Safe(h)'  BY <4>1, <4>3, AddedIsThere DEF Safe
      <4>5. Head(legacy)' = h  BY <1>6, <4>2
      <4> QED  BY <4>4, <4>5
    <3> QED  BY <1>3, <3>1, <3>2 DEF HeadOf
  <2>4. \A m \in sent : m \in Elements(legacy) \/ Safe(m)'
    BY <1>4, <1>5 DEF KeepInv
  <2> QED  BY <1>1, <1>6, <2>1, <2>2, <2>3, <2>4 DEF KeepInv, Elements
<1>7. CASE run[c].at = "pop" /\ legacy' = SubSeq(legacy, 2, Len(legacy)) /\ legacy' # legacy
  <2>1. r.at \notin {"copy", "pop"}  BY <1>2, <1>7 DEF HeadRead
  <2>2. /\ Len(legacy) <= 1 => legacy' = <<>>
        /\ Len(legacy') <= Len(legacy)
        /\ \A m \in Elements(legacy) :
             legacy # <<>> /\ (m = Head(legacy) \/ m \in Elements(legacy'))
    BY <1>5, <1>7, Popping
  <2>3. Drainable'  BY <1>5, <2>2 DEF KeepInv, Drainable
  <2>4. legacy' = <<>> \/ \A d \in Claimers : d = c
    BY <2>2 DEF KeepInv, Drainable
  <2>5. \A d \in Claimers : HeadOf(run[d])'
    BY <1>3, <2>1, <2>4 DEF HeadOf
  <2>6. legacy # <<>> => Safe(Head(legacy))
    BY <1>7 DEF KeepInv, HeadOf
  <2>7. ASSUME NEW m \in sent PROVE m \in Elements(legacy') \/ Safe(m)'
    <3>1. CASE m \in Elements(legacy)
      BY <1>4, <1>5, <2>2, <2>6, <3>1
    <3>2. CASE Safe(m)
      BY <1>4, <1>5, <3>2
    <3> QED  BY <3>1, <3>2 DEF KeepInv
  <2> QED  BY <1>1, <2>3, <2>5, <2>7 DEF KeepInv, Elements
<1> QED  BY <1>6, <1>7, LegacySteps

LEMMA KeepStep ==
  Types /\ DoneInv /\ HandInv /\ KeepInv /\ [Next]_vars => KeepInv'
<1> SUFFICES ASSUME Types, DoneInv, HandInv, KeepInv, [Next]_vars PROVE KeepInv'
  OBVIOUS
<1>1. \A m \in Messages : Safe(m) => Safe(m)'
  BY SafeStays
<1>2. legacy \in Seq(Messages) /\ sent \subseteq Messages
  BY DEF Types, StoreTypes, HistoryTypes
<1>3. ASSUME legacy' = legacy, \A c \in Claimers : run'[c] \in {run[c], NoRun},
             \A m \in sent' : m \in sent \/ Safe(m)'
      PROVE  KeepInv'
  <2>1. ASSUME NEW c \in Claimers PROVE HeadOf(run[c])'
    <3>1. NoRun.at = "idle"  BY DEF NoRun
    <3>2. ASSUME legacy # <<>>, Safe(Head(legacy)) PROVE Safe(Head(legacy))'
      <4>1. PICK h \in Messages : h = Head(legacy)  BY <1>2, <3>2, Popping
      <4>2. Safe(h)'  BY <1>1, <3>2, <4>1
      <4>3. Head(legacy)' = h  BY <1>3, <4>1
      <4> QED  BY <4>2, <4>3
    <3> QED  BY <1>3, <3>1, <3>2 DEF KeepInv, HeadOf
  <2> QED  BY <1>1, <1>2, <1>3, <2>1 DEF KeepInv, Drainable, Elements
<1>4. ASSUME NEW m \in Messages, Send(m) PROVE KeepInv'
  <2>1. Safe(m)'
    <3>1. CASE Add(m)
      BY <3>1, AddedIsThere DEF Safe
    <3>2. CASE memory' = [memory EXCEPT ![Sender[m]].parked = @ \union {m}]
      <4> DEFINE q == Sender[m]
                 y == memory[q]
                 M == [y EXCEPT !.parked = @ \union {m}]
      <4>1. q \in Process /\ y \in Memory
        BY MessagesAssumption DEF MessagesAssumption, Types, LocalTypes
      <4>2. memory'[q] = M  BY <3>2, <4>1 DEF Types, LocalTypes
      <4>3. m \in M.parked
        <5> HIDE DEF y
        <5> QED  BY <4>1 DEF Memory
      <4> HIDE DEF M
      <4> QED  BY <4>1, <4>2, <4>3 DEF Safe, Kept
    <3> QED  BY <1>4, <3>1, <3>2 DEF Send, Command
  <2>2. legacy' = legacy /\ run' = run /\ sent' = sent \union {m}
    BY <1>4 DEF Send, Command, redis
  <2> QED  BY <1>3, <2>1, <2>2
<1>5. ASSUME NEW p \in Process, Crash(p) PROVE KeepInv'
  BY <1>3, <1>5 DEF Crash, redis
<1>6. ASSUME UNCHANGED <<legacy, run, sent>> PROVE KeepInv'
  BY <1>3, <1>6
<1>7. ASSUME NEW e \in 1 .. MaxStream, Elapse(e) PROVE KeepInv'
  BY <1>6, <1>7 DEF Elapse, history
<1>8. ASSUME NEW p \in Process, Disconnect(p) \/ Reconnect(p) PROVE KeepInv'
  BY <1>6, <1>8 DEF Disconnect, Reconnect, redis, history
<1>9. CASE UNCHANGED vars
  BY <1>6, <1>9 DEF vars, redis, history
<1> QED
  BY <1>4, <1>5, <1>7, <1>8, <1>9, ClaimerKeeps DEF Next, Work

-----------------------------------------------------------------------------
(* Acknowledged or dead-lettered, not both, when Redis always answers and an *)
(* earlier version left nothing behind: everything then is in the stream,    *)
(* once, and an entry whose message is acknowledged or dead-lettered is      *)
(* closed: neither pending nor in anybody's batch.                           *)

SteadyRedis == Connection = "always" /\ Legacy \subseteq {<<>>}

InRedisOnly ==
  /\ \A p \in Process : online[p] /\ memory[p].parked = {}
  /\ legacy = <<>>
  /\ \A c \in Claimers : run[c].taken = {} /\ ~run[c].local /\ run[c].at \notin {"copy", "pop"}

EachOnce ==
  /\ \A e \in 1 .. Len(stream) : stream[e] \in sent
  /\ \A e, f \in 1 .. Len(stream) : stream[e] = stream[f] => e = f

Batched(r) == r.at \in Working \union {"skip"} => r.hand \subseteq {stream[e] : e \in r.got}

Closed(e) == e <= last /\ e \notin pending /\ \A c \in Claimers : e \notin run[c].got

FinalInv ==
  /\ dead \union acked \subseteq sent
  /\ \A e \in 1 .. Len(stream) : stream[e] \in dead \union acked => Closed(e)
  /\ acked \intersect dead = {}
  /\ \A c \in Claimers : Batched(run[c])
  /\ \A c \in Claimers : run[c].at = "marking" => run[c].got \intersect pending = {}

SteadyInv == InRedisOnly /\ EachOnce /\ FinalInv

\* A claimer goes on as r; nothing becomes pending but what is handed out.
Advances(c, r) ==
  /\ r \in Run /\ Set(c, r)
  /\ r.taken = {} /\ ~r.local /\ r.at \notin {"copy", "pop"}
  /\ Batched(r)
  /\ r.at = "marking" => r.got \intersect pending' = {}
  /\ \A p \in Process : memory'[p].parked = {}
  /\ UNCHANGED <<online, stream, legacy, sent>>
  /\ (pending' \subseteq pending /\ last' = last) \/ HandedOut

\* It settles nothing, dead-letters an entry of its batch, or acknowledges the batch.
SettlesNothing == UNCHANGED <<dead, acked>>
DeadLetters(c, r) ==
  \E e \in run[c].got : /\ e \notin r.got /\ e \notin pending'
                        /\ dead' = dead \union {stream[e]} /\ acked' = acked
Concludes(c, r) ==
  /\ run[c].at = "marking" /\ r.got = {} /\ pending' = pending
  /\ acked' = acked \union run[c].hand /\ dead' = dead

Settles(c, r) == SettlesNothing \/ DeadLetters(c, r) \/ Concludes(c, r)

SteadyStep(c) == \E r \in Run : Advances(c, r) /\ Settles(c, r)

LEMMA InRedis ==
  ASSUME Types, InRedisOnly, NEW c \in Claimers
  PROVE  /\ online[Home[c]] /\ run[c] \in Run /\ legacy = <<>>
         /\ run[c].taken = {} /\ ~run[c].local /\ run[c].at \notin {"copy", "pop"}
BY Homes DEF InRedisOnly

\* A step of a claimer that keeps its place in a batch, if it has one.
LEMMA GoAdvances ==
  ASSUME Types, InRedisOnly, NEW c \in Claimers, NEW r \in Run, Go(c, r), r.taken = {}, ~r.local,
         r.at \notin {"copy", "pop"}, Batched(r), r.at = "marking" => r.got \intersect pending' = {},
         UNCHANGED <<online, stream, legacy, sent>>,
         (pending' \subseteq pending /\ last' = last) \/ HandedOut
  PROVE  Advances(c, r)
BY DEF Go, Advances, InRedisOnly

LEMMA SteadyLooks ==
  ASSUME SteadyRedis, Types, InRedisOnly, NEW c \in Claimers,
         Begin(c) \/ ReadHead(c) \/ Drain(c) \/ Ask(c) \/ Abandon(c)
  PROVE  SteadyStep(c)
<1> DEFINE x == run[c]
<1>0. online[Home[c]] /\ x \in Run /\ legacy = <<>> /\ x.taken = {} /\ ~x.local
  BY InRedis
<1>1. ASSUME Begin(c) \/ Drain(c) \/ Ask(c) \/ Abandon(c) PROVE SteadyStep(c)
  <2>1. /\ UNCHANGED <<redis, online, history>>
        /\ \/ Go(c, [x EXCEPT !.at = "head"])
           \/ Go(c, [x EXCEPT !.at = "ask"])
           \/ Go(c, [x EXCEPT !.at = "reclaim", !.doomed = AtCeiling])
           \/ Go(c, NoRun)
    BY <1>0, <1>1 DEF SteadyRedis, Begin, Drain, Ask, Abandon, ClaimCommand, Command
  <2>2. UNCHANGED <<online, stream, legacy, sent, dead, acked, pending, last>>
    BY <2>1 DEF redis, group, history
  <2>3. ASSUME NEW r \in Run, Go(c, r), r.taken = {}, ~r.local,
               r.at \in {"head", "ask", "reclaim", "idle"}
        PROVE  SteadyStep(c)
    <3>1. Batched(r)  BY <2>3 DEF Batched, Working
    <3>2. Advances(c, r)  BY <2>2, <2>3, <3>1, GoAdvances
    <3> QED  BY <2>2, <3>2 DEF SteadyStep, Settles, SettlesNothing
  <2> HIDE DEF x
  <2>4. CASE Go(c, [x EXCEPT !.at = "head"])
    <3>1. [x EXCEPT !.at = "head"] \in Run  BY <1>0 DEF Run, Claiming
    <3> QED  BY <1>0, <2>3, <2>4, <3>1 DEF Run
  <2>5. CASE Go(c, [x EXCEPT !.at = "ask"])
    <3>1. [x EXCEPT !.at = "ask"] \in Run  BY <1>0 DEF Run, Claiming
    <3> QED  BY <1>0, <2>3, <2>5, <3>1 DEF Run
  <2>6. CASE Go(c, [x EXCEPT !.at = "reclaim", !.doomed = AtCeiling])
    <3>1. AtCeiling \subseteq Nat
      <4>1. idle \subseteq Nat  BY DEF Types, StoreTypes
      <4> QED  BY <4>1 DEF AtCeiling
    <3> DEFINE r == [x EXCEPT !.at = "reclaim", !.doomed = AtCeiling]
    <3>2. r \in Run /\ r.taken = {} /\ ~r.local /\ r.at = "reclaim"
      BY <1>0, <3>1 DEF Run, Claiming
    <3> HIDE DEF r
    <3> QED  BY <2>3, <2>6, <3>2 DEF r
  <2>7. CASE Go(c, NoRun)
    <3>1. NoRun \in Run /\ NoRun.taken = {} /\ ~NoRun.local /\ NoRun.at = "idle"
      BY DEF NoRun, Run
    <3> QED  BY <2>3, <2>7, <3>1
  <2> QED  BY <2>1, <2>4, <2>5, <2>6, <2>7
<1>2. CASE ReadHead(c)
  <2>1. /\ UNCHANGED <<redis, online, history>> /\ TakeParked(c)
    BY <1>0, <1>2 DEF SteadyRedis, ReadHead, Command
  <2>2. UNCHANGED <<online, stream, legacy, sent, dead, acked, pending, last>>
    BY <2>1 DEF redis, group, history
  <2>3. PICK r \in Run, M \in Memory :
          /\ Becomes(c, r, M) /\ r.at = "drain" /\ r.taken = memory[Home[c]].parked
          /\ r.local = x.local /\ M.parked = {}
    BY <2>1, TakeBecomes
  <2>4. r.taken = {}  BY <2>3, Homes DEF InRedisOnly
  <2>5. \A p \in Process : memory'[p].parked = {}
    BY <2>3, Homes DEF InRedisOnly, Becomes, Types, LocalTypes
  <2>6. Batched(r)  BY <2>3 DEF Batched, Working
  <2>7. Advances(c, r)
    BY <1>0, <2>2, <2>3, <2>4, <2>5, <2>6 DEF Advances, Becomes, Set
  <2> QED  BY <2>2, <2>7 DEF SteadyStep, Settles, SettlesNothing
<1> QED  BY <1>1, <1>2

LEMMA SteadyGets ==
  ASSUME SteadyRedis, Types, InRedisOnly, NEW c \in Claimers, Reclaim(c) \/ Read(c) \/ Bury(c)
  PROVE  SteadyStep(c)
<1> DEFINE x == run[c]
<1>0. online[Home[c]] /\ x \in Run /\ x.taken = {} /\ ~x.local /\ Home[c] \in Process
  BY InRedis, Homes
<1>0a. idle \subseteq Nat /\ Fresh \subseteq Nat /\ x.got \subseteq Nat /\ x.doomed \subseteq Nat
  <2>1. last \in Nat /\ Len(stream) \in Nat  BY LenProperties DEF Types, StoreTypes
  <2> QED  BY <1>0, <2>1 DEF Types, StoreTypes, Fresh, Run
<1>a. ASSUME NEW r \in Run, Go(c, r), r.taken = {}, ~r.local, r.at \in {"bury", "check", "read"},
             UNCHANGED <<online, stream, legacy, sent>>,
             (pending' \subseteq pending /\ last' = last) \/ HandedOut
      PROVE  Advances(c, r)
  <2>1. Batched(r)  BY <1>a DEF Batched, Working
  <2> QED  BY <1>a, <2>1, GoAdvances
<1>1. CASE Reclaim(c)
  <2> DEFINE r == [x EXCEPT !.at = "bury", !.got = Reclaimable]
  <2>1. Reclaimed /\ UNCHANGED <<online, history>> /\ Go(c, r)
    BY <1>0, <1>1 DEF SteadyRedis, Reclaim, ClaimCommand, Command, Reclaimed
  <2>2. r \in Run /\ r.taken = {} /\ ~r.local /\ r.at = "bury"
    <3> HIDE DEF x
    <3> QED  BY <1>0, <1>0a DEF Run, Claiming, Reclaimable
  <2>3. UNCHANGED <<online, stream, legacy, sent, dead, acked, pending, last>>
    BY <2>1 DEF Reclaimed, history
  <2> HIDE DEF r
  <2>4. Advances(c, r)  BY <1>a, <2>1, <2>2, <2>3
  <2> QED  BY <2>2, <2>3, <2>4 DEF SteadyStep, Settles, SettlesNothing
<1>2. CASE Read(c)
  <2> DEFINE r == [x EXCEPT !.at = "check", !.got = @ \union Fresh]
  <2>1. HandedOut /\ UNCHANGED <<online, history>> /\ Go(c, r)
    BY <1>0, <1>2 DEF SteadyRedis, Read, ClaimCommand, Command, HandedOut
  <2>2. r \in Run /\ r.taken = {} /\ ~r.local /\ r.at = "check"
    <3> HIDE DEF x
    <3> QED  BY <1>0, <1>0a DEF Run, Claiming
  <2>3. UNCHANGED <<online, stream, legacy, sent, dead, acked>>
    BY <2>1 DEF HandedOut, history
  <2> HIDE DEF r
  <2>4. Advances(c, r)  BY <1>a, <2>1, <2>2, <2>3
  <2> QED  BY <2>2, <2>3, <2>4 DEF SteadyStep, Settles, SettlesNothing
<1>3. CASE Bury(c)
  <2>1. ASSUME NEW e \in Buried(c), Acknowledge({e}), dead' = dead \union {stream[e]},
               UNCHANGED <<seen, legacy, online, history>>,
               Go(c, [x EXCEPT !.got = @ \ {e}, !.doomed = @ \ {e}])
        PROVE  SteadyStep(c)
    <3> DEFINE r == [x EXCEPT !.got = @ \ {e}, !.doomed = @ \ {e}]
    <3>1. /\ r \in Run /\ r.taken = {} /\ ~r.local /\ r.at = "bury" /\ e \notin r.got
          /\ e \in x.got
      <4>1. x.at = "bury" /\ e \in x.got  BY <1>3 DEF Bury, Buried
      <4> HIDE DEF x
      <4> QED  BY <1>0, <1>0a, <4>1 DEF Run
    <3>2. UNCHANGED <<online, stream, legacy, sent, last, acked>> /\ pending' = pending \ {e}
      BY <2>1 DEF Acknowledge, history
    <3> HIDE DEF r
    <3>3. Go(c, r)  BY <2>1 DEF r
    <3>4. Advances(c, r)  BY <1>a, <3>1, <3>2, <3>3
    <3> QED  BY <2>1, <3>1, <3>2, <3>4 DEF SteadyStep, Settles, DeadLetters
  <2>2. ASSUME UNCHANGED <<redis, online, history>>, Go(c, [x EXCEPT !.at = "read"])
        PROVE  SteadyStep(c)
    <3> DEFINE r == [x EXCEPT !.at = "read"]
    <3>1. r \in Run /\ r.taken = {} /\ ~r.local /\ r.at = "read"
      <4> HIDE DEF x
      <4> QED  BY <1>0 DEF Run, Claiming
    <3>2. UNCHANGED <<online, stream, legacy, sent, dead, acked, pending, last>>
      BY <2>2 DEF redis, group, history
    <3> HIDE DEF r
    <3>3. Go(c, r)  BY <2>2 DEF r
    <3>4. Advances(c, r)  BY <1>a, <3>1, <3>2, <3>3
    <3> QED  BY <3>1, <3>2, <3>4 DEF SteadyStep, Settles, SettlesNothing
  <2> QED  BY <1>0, <1>3, <2>1, <2>2 DEF SteadyRedis, Bury, ClaimCommand, Command
<1> QED  BY <1>1, <1>2, <1>3

\* A batch, or what is left of the claim when it is empty.
LEMMA SteadyBatch ==
  ASSUME Types, InRedisOnly, NEW c \in Claimers, NEW x \in Run, x.at = "skip", x.taken = {},
         ~x.local, Batched(x), Go(c, x) \/ Go(c, Deliver(x)),
         UNCHANGED <<online, stream, legacy, sent, dead, acked, last>>, pending' \subseteq pending
  PROVE  SteadyStep(c)
<1> DEFINE y == [x EXCEPT !.at = "running"]
<1>1. y \in Run /\ y.at = "running" /\ y.taken = {} /\ ~y.local /\ y.got = x.got /\ y.hand = x.hand
  BY DEF Run, Working
<1>2. NoRun \in Run /\ NoRun.at = "idle" /\ NoRun.taken = {} /\ ~NoRun.local
  BY DEF NoRun, Run
<1> HIDE DEF y
<1>3. Batched(y)  BY <1>1 DEF Batched
<1>4. Batched(NoRun)  BY <1>2 DEF Batched, Working
<1>5. ASSUME NEW r \in {x, y, NoRun}, Go(c, r) PROVE SteadyStep(c)
  <2>1. Advances(c, r)  BY <1>1, <1>2, <1>3, <1>4, <1>5, GoAdvances
  <2> QED  BY <1>1, <1>2, <2>1 DEF SteadyStep, Settles, SettlesNothing
<1>6. Deliver(x) \in {y, NoRun}  BY DEF Deliver, y
<1> QED  BY <1>5, <1>6

LEMMA SteadyChecks ==
  ASSUME SteadyRedis, Types, InRedisOnly, NEW c \in Claimers, Batched(run[c]), Check(c) \/ Skip(c)
  PROVE  SteadyStep(c)
<1>0. /\ online[Home[c]] /\ run[c] \in Run /\ run[c].taken = {} /\ ~run[c].local
      /\ run[c].got \subseteq 1 .. last /\ run[c].got \subseteq Nat
  BY InRedis, ClaimingRun DEF Run
<1>1. CASE Check(c)
  <2> DEFINE M == {stream[e] : e \in Batch(c)}
             x == [NoRun EXCEPT !.at = "skip", !.got = Batch(c), !.doomed = Processed(c), !.hand = M]
  <2>1. UNCHANGED <<redis, online, history>> /\ (Go(c, x) \/ Go(c, Deliver(x)))
    BY <1>0, <1>1 DEF SteadyRedis, Check, ClaimCommand, Command
  <2>2. M \subseteq Messages
    <3>1. 1 .. last \subseteq 1 .. Len(stream)  BY LenProperties DEF Types, StoreTypes
    <3>2. \A e \in 1 .. Len(stream) : stream[e] \in Messages
      BY ElementOfSeq DEF Types, StoreTypes
    <3> QED  BY <1>0, <3>1, <3>2 DEF Batch
  <2>3. Batch(c) \subseteq Nat /\ Processed(c) \subseteq Nat  BY <1>0 DEF Batch, Processed
  <2>4. x \in Run /\ x.at = "skip" /\ x.taken = {} /\ ~x.local /\ x.got = Batch(c) /\ x.hand = M
    <3> HIDE DEF M
    <3> QED  BY <2>2, <2>3 DEF NoRun, Run, Claiming
  <2> HIDE DEF x
  <2>5. Batched(x)  BY <2>4 DEF Batched
  <2>6. UNCHANGED <<online, stream, legacy, sent, dead, acked, last, pending>>
    BY <2>1 DEF redis, group, history
  <2> QED  BY <2>1, <2>4, <2>5, <2>6, SteadyBatch
<1>2. CASE Skip(c)
  <2>1. PICK e \in run[c].doomed :
          /\ Acknowledge({e}) /\ UNCHANGED <<seen, dead, legacy, online, history>>
          /\ Go(c, IF run[c].doomed = {e} THEN Deliver([run[c] EXCEPT !.doomed = {}])
                   ELSE [run[c] EXCEPT !.doomed = @ \ {e}])
    BY <1>0, <1>2 DEF SteadyRedis, Skip, ClaimCommand, Command
  <2> DEFINE x == [run[c] EXCEPT !.doomed = run[c].doomed \ {e}]
  <2>2. Go(c, x) \/ Go(c, Deliver(x))
    <3>1. CASE run[c].doomed = {e}
      <4>1. run[c].doomed \ {e} = {}  BY <3>1
      <4> QED  BY <2>1, <3>1, <4>1
    <3>2. CASE run[c].doomed # {e}  BY <2>1, <3>2
    <3> QED  BY <3>1, <3>2
  <2>3. /\ x \in Run /\ x.at = "skip" /\ x.taken = {} /\ ~x.local
        /\ x.got = run[c].got /\ x.hand = run[c].hand
    <3>1. run[c].doomed \ {e} \subseteq Nat  BY <1>0 DEF Run
    <3> QED  BY <1>0, <1>2, <3>1 DEF Skip, Run
  <2> HIDE DEF x
  <2>4. Batched(x)  BY <1>2, <2>3 DEF Batched, Skip
  <2>5. UNCHANGED <<online, stream, legacy, sent, dead, acked, last>> /\ pending' \subseteq pending
    BY <2>1 DEF Acknowledge, history
  <2> QED  BY <2>2, <2>3, <2>4, <2>5, SteadyBatch
<1> QED  BY <1>1, <1>2

LEMMA SteadyWorks ==
  ASSUME SteadyRedis, Types, InRedisOnly, NEW c \in Claimers, Batched(run[c]),
         Commit(c) \/ AckEntries(c) \/ MarkSeen(c)
  PROVE  SteadyStep(c)
<1> DEFINE x == run[c]
<1>0. online[Home[c]] /\ x \in Run /\ x.taken = {} /\ ~x.local  BY InRedis
<1>a. ASSUME NEW a \in {"acking", "marking"}, x.at \in {"running", "acking"},
             Go(c, [x EXCEPT !.at = a]), a = "marking" => x.got \intersect pending' = {},
             UNCHANGED <<online, stream, legacy, sent, dead, acked, last>>, pending' \subseteq pending
      PROVE  SteadyStep(c)
  <2> DEFINE r == [x EXCEPT !.at = a]
  <2>1. /\ r \in Run /\ r.taken = {} /\ ~r.local /\ r.at = a /\ r.got = x.got /\ r.hand = x.hand
    <3> HIDE DEF x
    <3> QED  BY <1>0, <1>a DEF Run, Working
  <2> HIDE DEF r
  <2>2. Batched(r)  BY <1>a, <2>1 DEF Batched, Working
  <2>3. Go(c, r)  BY <1>a DEF r
  <2>4. Advances(c, r)  BY <1>a, <2>1, <2>2, <2>3, GoAdvances
  <2> QED  BY <1>a, <2>1, <2>4 DEF SteadyStep, Settles, SettlesNothing
<1>1. CASE Commit(c)
  <2>1. UNCHANGED <<online, stream, legacy, sent, dead, acked, last, pending>>
    BY <1>1 DEF Commit, redis, group
  <2> QED  BY <1>a, <1>1, <2>1 DEF Commit
<1>2. CASE AckEntries(c)
  <2>1. /\ Acknowledge(x.got) /\ UNCHANGED <<seen, dead, legacy, online, history>>
        /\ Go(c, [x EXCEPT !.at = "marking"]) /\ x.at = "acking"
    BY <1>0, <1>2 DEF SteadyRedis, AckEntries, Command
  <2>2. UNCHANGED <<online, stream, legacy, sent, dead, acked, last>> /\ pending' = pending \ x.got
    BY <2>1 DEF Acknowledge, history
  <2> QED  BY <1>a, <2>1, <2>2
<1>3. CASE MarkSeen(c)
  <2>1. /\ UNCHANGED <<group, dead, legacy, online, sent>> /\ acked' = acked \union x.hand
        /\ Go(c, NoRun) /\ x.at = "marking"
    BY <1>0, <1>3 DEF SteadyRedis, MarkSeen, Command
  <2>2. /\ NoRun \in Run /\ NoRun.at = "idle" /\ NoRun.taken = {} /\ ~NoRun.local
        /\ NoRun.got = {} /\ Batched(NoRun)
    BY DEF NoRun, Run, Batched, Working
  <2>3. UNCHANGED <<online, stream, legacy, sent, last, pending>>  BY <2>1 DEF group
  <2>4. Advances(c, NoRun)  BY <2>1, <2>2, <2>3, GoAdvances
  <2> QED  BY <2>1, <2>2, <2>3, <2>4 DEF SteadyStep, Settles, Concludes
<1> QED  BY <1>1, <1>2, <1>3

LEMMA ClaimerSteady ==
  ASSUME SteadyRedis, Types, InRedisOnly, FinalInv, NEW c \in Claimers,
         ClaimStep(c) \/ Commit(c) \/ Abandon(c)
  PROVE  SteadyStep(c)
<1>1. ~run[c].local /\ run[c].at \notin {"copy", "pop"}  BY InRedis
<1>2. ~CopyHead(c) /\ ~PopHead(c) /\ ~AckLocal(c)
  BY <1>1 DEF CopyHead, PopHead, AckLocal
<1>3. Batched(run[c])  BY DEF FinalInv
<1> QED
  BY <1>2, <1>3, SteadyLooks, SteadyGets, SteadyChecks, SteadyWorks DEF ClaimStep

\* An entry that is closed stays closed.
LEMMA ClosedStays ==
  ASSUME Types, NEW c \in Claimers, NEW r \in Run, Advances(c, r), GotFrom(c, r),
         NEW e \in 1 .. Len(stream), Closed(e)
  PROVE  Closed(e)'
<1>1. last \in Nat /\ Len(stream) \in Nat /\ last <= Len(stream) /\ idle \subseteq pending
  BY LenProperties DEF Types, StoreTypes
<1>2. e \notin Fresh  BY <1>1 DEF Closed, Fresh
<1>3. last <= last' /\ e \notin pending'
  BY <1>1, <1>2 DEF Advances, HandedOut, Closed
<1>4. \A d \in Claimers : run'[d] = IF d = c THEN r ELSE run[d]
  BY DEF Advances, Set, Types, LocalTypes
<1>5. e \notin r.got  BY <1>1, <1>2 DEF GotFrom, Closed
<1>6. last' \in Nat  BY <1>1 DEF Advances, HandedOut
<1> QED  BY <1>1, <1>3, <1>4, <1>5, <1>6 DEF Closed

\* An entry of a claimer's batch is nobody else's, and is closed once the claimer
\* has given it up acknowledged.
LEMMA GivenUp ==
  ASSUME Types, EntriesInv, Patient, NEW c \in Claimers, NEW r \in Run, Advances(c, r),
         NEW e \in run[c].got, e \notin r.got, e \notin pending'
  PROVE  Closed(e)'
<1>1. e \in 1 .. last /\ last \in Nat  BY ClaimingRun DEF Types, StoreTypes
<1>2. last' \in Nat /\ last <= last'
  BY <1>1, LenProperties DEF Advances, HandedOut, Types, StoreTypes
<1>3. \A d \in Claimers : run'[d] = IF d = c THEN r ELSE run[d]
  BY DEF Advances, Set, Types, LocalTypes
<1>4. \A d \in Claimers : d # c => e \notin run[d].got  BY DEF EntriesInv
<1> QED  BY <1>1, <1>2, <1>3, <1>4 DEF Closed

LEMMA ClaimerFinal ==
  ASSUME SteadyRedis, Patient, Types, EntriesInv, SteadyInv, NEW c \in Claimers,
         ClaimStep(c) \/ Commit(c) \/ Abandon(c)
  PROVE  SteadyInv'
<1>1. PICK r \in Run : Advances(c, r) /\ Settles(c, r)
  BY ClaimerSteady DEF SteadyInv, SteadyStep
<1>2. GotFrom(c, r)
  <2>1. PICK s \in Run, M \in Memory : Becomes(c, s, M) /\ GotFrom(c, s)
    BY ClaimerDoes, MoveShape DEF Does
  <2>2. run'[c] = r /\ run'[c] = s
    BY <1>1, <2>1 DEF Advances, Set, Becomes, Types, LocalTypes
  <2> QED  BY <2>1, <2>2
<1>3. /\ \A d \in Claimers : run'[d] = IF d = c THEN r ELSE run[d]
      /\ UNCHANGED <<online, stream, legacy, sent>> /\ \A p \in Process : memory'[p].parked = {}
      /\ r.taken = {} /\ ~r.local /\ r.at \notin {"copy", "pop"} /\ Batched(r)
      /\ r.at = "marking" => r.got \intersect pending' = {}
      /\ pending' \subseteq pending \/ HandedOut
  BY <1>1 DEF Advances, Set, Types, LocalTypes
<1>4. InRedisOnly'  BY <1>3 DEF SteadyInv, InRedisOnly
<1>5. EachOnce'  BY <1>3 DEF SteadyInv, EachOnce
<1>6. \A d \in Claimers : Batched(run[d])'
  BY <1>3 DEF SteadyInv, FinalInv, Batched
<1>7. \A d \in Claimers : run'[d].at = "marking" => run'[d].got \intersect pending' = {}
  <2>1. CASE pending' \subseteq pending  BY <1>3, <2>1 DEF SteadyInv, FinalInv
  <2>2. CASE HandedOut
    BY <1>3, <2>2, NotYetHandedOut DEF HandedOut, SteadyInv, FinalInv
  <2> QED  BY <1>3, <2>1, <2>2
<1>8. \A e \in 1 .. Len(stream) : Closed(e) => Closed(e)'
  BY <1>1, <1>2, ClosedStays
<1>9. /\ 1 .. last \subseteq 1 .. Len(stream)
      /\ \A e \in run[c].got : e \in 1 .. Len(stream) /\ stream[e] \in sent
                               /\ stream[e] \notin dead \union acked
  <2>1. 1 .. last \subseteq 1 .. Len(stream)  BY LenProperties DEF Types, StoreTypes
  <2> QED  BY <2>1, ClaimingRun DEF SteadyInv, EachOnce, FinalInv, Closed
\* What is settled by this step is an entry of the batch that is closed now.
<1>10. ASSUME NEW m \in (dead' \union acked') \ (dead \union acked)
       PROVE  \E e \in run[c].got : stream[e] = m /\ Closed(e)'
  <2>1. CASE DeadLetters(c, r)  BY <1>1, <1>10, <2>1, GivenUp DEF DeadLetters
  <2>2. CASE Concludes(c, r)
    <3>1. m \in run[c].hand /\ run[c].at = "marking"  BY <1>10, <2>2 DEF Concludes
    <3>2. PICK e \in run[c].got : stream[e] = m
      BY <3>1 DEF SteadyInv, FinalInv, Batched, Working
    <3>3. e \notin pending' /\ e \notin r.got
      BY <2>2, <3>1 DEF Concludes, SteadyInv, FinalInv
    <3> QED  BY <1>1, <3>2, <3>3, GivenUp
  <2> QED  BY <1>1, <1>10, <2>1, <2>2 DEF Settles, SettlesNothing
<1>11. (dead' \union acked') \subseteq sent
  BY <1>9, <1>10 DEF SteadyInv, FinalInv
<1>12. \A e \in 1 .. Len(stream) : stream[e] \in dead' \union acked' => Closed(e)'
  BY <1>8, <1>9, <1>10 DEF SteadyInv, EachOnce, FinalInv
<1>13. acked' \intersect dead' = {}
  <2>1. CASE SettlesNothing  BY <2>1 DEF SettlesNothing, SteadyInv, FinalInv
  <2>2. CASE DeadLetters(c, r)  BY <1>9, <2>2 DEF DeadLetters, SteadyInv, FinalInv
  <2>3. CASE Concludes(c, r)
    <3>1. run[c].hand \subseteq {stream[e] : e \in run[c].got}
      BY <2>3 DEF Concludes, SteadyInv, FinalInv, Batched, Working
    <3> QED  BY <1>9, <2>3, <3>1 DEF Concludes, SteadyInv, FinalInv
  <2> QED  BY <1>1, <2>1, <2>2, <2>3 DEF Settles
<1>14. FinalInv'  BY <1>3, <1>6, <1>7, <1>11, <1>12, <1>13 DEF FinalInv
<1> QED  BY <1>4, <1>5, <1>14 DEF SteadyInv

LEMMA SendFinal ==
  ASSUME SteadyRedis, Types, SteadyInv, NEW m \in Messages, Send(m)
  PROVE  SteadyInv'
<1>1. /\ Add(m) /\ m \notin sent /\ sent' = sent \union {m}
      /\ UNCHANGED <<legacy, memory, online, run, acked>>
  BY MessagesAssumption DEF MessagesAssumption, SteadyRedis, SteadyInv, InRedisOnly, Send, Command
<1>2. stream \in Seq(Messages) /\ Len(stream) \in Nat /\ last \in Nat /\ last <= Len(stream)
  BY LenProperties DEF Types, StoreTypes
<1>3. /\ Len(stream') = Len(stream) + 1 /\ stream'[Len(stream) + 1] = m
      /\ \A e \in 1 .. Len(stream) : stream'[e] = stream[e]
      /\ UNCHANGED <<last, pending, dead>>
  BY <1>1, <1>2, AppendProperties DEF Add
<1>4. \A e \in 1 .. Len(stream') : e \in 1 .. Len(stream) \/ e = Len(stream) + 1
  BY <1>2, <1>3
<1>5. InRedisOnly'  BY <1>1 DEF SteadyInv, InRedisOnly
<1>6. EachOnce'
  BY <1>1, <1>3, <1>4 DEF SteadyInv, EachOnce
<1>7. FinalInv'
  <2>1. (dead \union acked)' \subseteq sent'  BY <1>1, <1>3 DEF SteadyInv, FinalInv
  <2>2. \A e \in 1 .. Len(stream') : stream'[e] \in dead' \union acked' => Closed(e)'
    BY <1>1, <1>3, <1>4 DEF SteadyInv, FinalInv, Closed
  <2>3. ASSUME NEW c \in Claimers PROVE Batched(run[c])'
    <3>1. run[c].got \subseteq 1 .. Len(stream)
      <4>1. 1 .. last \subseteq 1 .. Len(stream)  BY <1>2
      <4> QED  BY <4>1, ClaimingRun
    <3>2. {stream[e] : e \in run[c].got} = {stream'[e] : e \in run[c].got}
      BY <1>3, <3>1
    <3> QED  BY <1>1, <3>2 DEF SteadyInv, FinalInv, Batched
  <2> QED  BY <1>1, <1>3, <2>1, <2>2, <2>3 DEF SteadyInv, FinalInv
<1> QED  BY <1>5, <1>6, <1>7 DEF SteadyInv

LEMMA SteadyInvStep ==
  ASSUME SteadyRedis, Patient, Types, EntriesInv, SteadyInv, [Next]_vars
  PROVE  SteadyInv'
<1>1. ASSUME NEW e \in 1 .. MaxStream, Elapse(e) PROVE SteadyInv'
  BY <1>1 DEF Elapse, history, SteadyInv, InRedisOnly, EachOnce, FinalInv, Closed, Batched
<1>2. ASSUME NEW p \in Process PROVE ~Disconnect(p) /\ ~Reconnect(p)
  BY DEF SteadyRedis, Disconnect, Reconnect
<1>3. ASSUME NEW p \in Process, Crash(p) PROVE SteadyInv'
  <2>1. /\ UNCHANGED <<stream, last, pending, dead, legacy, online, sent, acked>>
        /\ \A c \in Claimers : run'[c] \in {run[c], NoRun}
        /\ \A q \in Process : memory'[q] \in {memory[q], Started}
    BY <1>3 DEF Crash, redis, group, Types, LocalTypes
  <2>2. NoRun.got = {} /\ NoRun.taken = {} /\ ~NoRun.local /\ NoRun.at = "idle"  BY DEF NoRun
  <2>3. Started.parked = {}  BY DEF Started
  <2>4. InRedisOnly'  BY <2>1, <2>2, <2>3 DEF SteadyInv, InRedisOnly
  <2>5. EachOnce'  BY <2>1 DEF SteadyInv, EachOnce
  <2>6. \A e : Closed(e) => Closed(e)'  BY <2>1, <2>2 DEF Closed
  <2>7. \A c \in Claimers : Batched(run[c])'
    BY <2>1, <2>2 DEF SteadyInv, FinalInv, Batched, Working
  <2>8. FinalInv'  BY <2>1, <2>2, <2>6, <2>7 DEF SteadyInv, FinalInv
  <2> QED  BY <2>4, <2>5, <2>8 DEF SteadyInv
<1>4. CASE UNCHANGED vars
  BY <1>4 DEF vars, redis, group, history, SteadyInv, InRedisOnly, EachOnce, FinalInv, Closed, Batched
<1> QED
  BY <1>1, <1>2, <1>3, <1>4, ClaimerFinal, SendFinal DEF Next, Work

-----------------------------------------------------------------------------
(* The theorems. *)

MessagesInv == Types /\ DoneInv /\ LocalInv /\ EntriesInv

LEMMA MessagesInit == Init => MessagesInv
<1> SUFFICES ASSUME Init PROVE MessagesInv
  OBVIOUS
<1>1. Elements(legacy) \subseteq Messages /\ legacy \in Seq(Messages)
  <2>1. legacy \in Seq(Messages)
    BY MessagesAssumption DEF MessagesAssumption, Init
  <2>2. DOMAIN legacy = 1 .. Len(legacy) /\ \A i \in 1 .. Len(legacy) : legacy[i] \in Messages
    BY <2>1, LenProperties, ElementOfSeq
  <2> QED  BY <2>1, <2>2 DEF Elements
<1>2. Started \in Memory
  BY DEF Started, Memory
<1>3. NoRun \in Run
  BY DEF NoRun, Run
<1>4. /\ \A p \in Process : memory[p] = Started
      /\ \A c \in Claimers : run[c] = NoRun /\ Home[c] \in Process
  BY MessagesAssumption DEF MessagesAssumption, Init
<1>5. Types
  <2>1. StoreTypes
    BY <1>1, EmptySeq DEF Init, StoreTypes
  <2>2. LocalTypes
    BY <1>2, <1>3 DEF Init, LocalTypes
  <2>3. HistoryTypes
    BY <1>1 DEF Init, HistoryTypes
  <2>4. RunTypes
    BY <1>4 DEF RunTypes, NoRun
  <2> QED  BY <2>1, <2>2, <2>3, <2>4 DEF Types
<1>6. DoneInv
  BY <1>4 DEF Init, DoneInv, SeenMeansDone, Started, NoRun
<1>7. LocalInv
  <2>1. Back({}) = {}  BY DEF Back
  <2> QED  BY <1>4, <2>1 DEF LocalInv, Tidy, Holds, Started, NoRun
<1>8. EntriesInv
  BY <1>4 DEF EntriesInv, NoRun
<1> QED  BY <1>5, <1>6, <1>7, <1>8 DEF MessagesInv

LEMMA ExclusiveHolds == Types /\ LocalInv /\ EntriesInv => Exclusive
<1> SUFFICES ASSUME Types, LocalInv, EntriesInv, Patient,
                    NEW c \in Claimers, NEW d \in Claimers, c # d
             PROVE  /\ run[c].got \intersect run[d].got = {}
                    /\ run[c].local /\ run[d].local => run[c].hand \intersect run[d].hand = {}
  BY DEF Exclusive
<1>1. run[c].got \intersect run[d].got = {}
  BY DEF EntriesInv
<1>2. ASSUME run[c].local, run[d].local
      PROVE  run[c].hand \intersect run[d].hand = {}
  <2> DEFINE k == [by |-> c, msgs |-> run[c].hand]
             l == [by |-> d, msgs |-> run[d].hand]
  <2>1. k \in memory[Home[c]].claims /\ l \in memory[Home[d]].claims
    BY <1>2 DEF LocalInv, Holds
  <2>2. k.by = c /\ l.by = d /\ k.msgs = run[c].hand /\ l.msgs = run[d].hand
    OBVIOUS
  <2> HIDE DEF k, l
  <2>3. CASE Home[c] = Home[d]
    BY <2>1, <2>2, <2>3 DEF LocalInv, Tidy
  <2>4. CASE Home[c] # Home[d]
    <3>1. k.msgs \subseteq SentFrom(Home[c]) /\ l.msgs \subseteq SentFrom(Home[d])
      BY <2>1, BackMember, Homes DEF LocalInv
    <3> QED  BY <2>2, <2>4, <3>1 DEF SentFrom
  <2> QED  BY <2>3, <2>4
<1> QED  BY <1>1, <1>2

\* The types, that what is recorded was done, where the messages of a process
\* are, and who holds which entry: together an invariant.
THEOREM MessagesInvariant == Spec => []MessagesInv
<1>1. MessagesInv /\ [Next]_vars => MessagesInv'
  BY StepTypes, DoneStep, LocalStep, EntriesStep DEF MessagesInv
<1> QED  BY <1>1, MessagesInit, PTL DEF Spec

\* Every variable keeps its type, and claimers hold only entries that were
\* handed to the group.
THEOREM MessagesTypeCorrect == Spec => []TypeOK
<1>1. MessagesInv => TypeOK
  BY DEF MessagesInv, Types, StoreTypes, LocalTypes, HistoryTypes, RunTypes, Counts, TypeOK
<1> QED  BY <1>1, MessagesInvariant, PTL

\* A message that a claim or an acknowledgement treats as processed had its
\* effect committed by some run, in every order of lost answers, windows that
\* elapse, and crashes: filtering by the seen-sets never drops work.
THEOREM SeenReallyDone == Spec => []SeenMeansDone
<1>1. MessagesInv => SeenMeansDone
  BY DEF MessagesInv, DoneInv
<1> QED  BY <1>1, MessagesInvariant, PTL

\* While no visibility window elapses under a run, no message is given to a run
\* beside the one that has it, from the stream or from a process's own queue.
THEOREM ClaimsAreExclusive == Spec => []Exclusive
<1>1. MessagesInv => Exclusive
  BY ExclusiveHolds DEF MessagesInv
<1> QED  BY <1>1, MessagesInvariant, PTL

\* No message gets lost, for any messages, claimers, processes and commands that
\* fail or are run unanswered, when one entry at most was left behind by an
\* earlier version, or one claimer drains what was.
THEOREM NothingEverLost == OneDrains => (Spec => []NothingLost)
<1> SUFFICES ASSUME OneDrains PROVE Spec => []NothingLost
  OBVIOUS
<1> DEFINE Inv == MessagesInv /\ HandInv /\ KeepInv
<1>1. Init => Inv
  <2> SUFFICES ASSUME Init PROVE Inv
    OBVIOUS
  <2>1. MessagesInv  BY MessagesInit
  <2>2. \A c \in Claimers : run[c] = NoRun  BY DEF Init
  <2>3. HandInv  BY <2>2 DEF HandInv, HandOf, NoRun
  <2>4. KeepInv
    BY <2>2 DEF Init, KeepInv, Drainable, OneDrains, HeadOf, NoRun
  <2> QED  BY <2>1, <2>3, <2>4
<1>2. Inv /\ [Next]_vars => Inv'
  BY StepTypes, DoneStep, LocalStep, EntriesStep, HandStep, KeepStep DEF MessagesInv
<1>3. Inv => NothingLost
  <2> SUFFICES ASSUME Inv, NEW m \in sent PROVE Waiting(m) \/ Settled(m)
    BY DEF NothingLost
  <2>1. stream \in Seq(Messages) /\ DOMAIN stream = 1 .. Len(stream)
    BY LenProperties DEF MessagesInv, Types, StoreTypes
  <2>2. CASE m \in Elements(legacy)
    BY <2>2 DEF Waiting
  <2>3. CASE InStream(m)
    BY <2>1, <2>3 DEF InStream, Waiting
  <2>4. CASE \E p \in Process : m \in Kept(p)
    BY <2>4 DEF Kept, Back, Waiting, Settled
  <2>5. CASE m \in done \union dead \union forgotten
    BY <2>5 DEF Settled
  <2> QED  BY <2>2, <2>3, <2>4, <2>5 DEF KeepInv, Safe
<1> QED  BY <1>1, <1>2, <1>3, PTL DEF Spec

\* A message whose run reported it processed is not handed to the operator as
\* undeliverable too: with Redis always answering, runs inside their windows and
\* no legacy list, for any messages, claimers, processes, crashes and ceiling.
THEOREM AckedAreNeverDead == Legacy \subseteq {<<>>} => (Spec => []AckedNeverDead)
<1> SUFFICES ASSUME Legacy \subseteq {<<>>} PROVE Spec => []AckedNeverDead
  OBVIOUS
<1>1. CASE Patient /\ Connection = "always"
  <2> DEFINE Inv == MessagesInv /\ SteadyInv
  <2>1. SteadyRedis  BY <1>1 DEF SteadyRedis
  <2>2. Init => Inv
    <3> SUFFICES ASSUME Init PROVE Inv
      OBVIOUS
    <3>1. MessagesInv  BY MessagesInit
    <3>2. \A c \in Claimers : run[c] = NoRun  BY DEF Init
    <3>3. NoRun.got = {} /\ NoRun.taken = {} /\ ~NoRun.local /\ NoRun.at = "idle"  BY DEF NoRun
    <3>4. InRedisOnly  BY <1>1, <3>2, <3>3 DEF Init, InRedisOnly, Started
    <3>5. Len(stream) = 0 /\ 1 .. Len(stream) = {}  BY EmptySeq DEF Init
    <3>6. EachOnce  BY <3>5 DEF EachOnce
    <3>7. \A c \in Claimers : Batched(run[c])  BY <3>2, <3>3 DEF Batched, Working
    <3>8. FinalInv  BY <3>2, <3>3, <3>5, <3>7 DEF Init, FinalInv
    <3> QED  BY <3>1, <3>4, <3>6, <3>8 DEF SteadyInv
  <2>3. Inv /\ [Next]_vars => Inv'
    BY <1>1, <2>1, StepTypes, DoneStep, LocalStep, EntriesStep, SteadyInvStep DEF MessagesInv
  <2>4. Inv => AckedNeverDead  BY DEF SteadyInv, FinalInv, AckedNeverDead
  <2> HIDE DEF Inv
  <2> QED  BY <2>2, <2>3, <2>4, PTL DEF Spec
<1>2. CASE ~(Patient /\ Connection = "always")
  <2>1. AckedNeverDead  BY <1>2 DEF AckedNeverDead
  <2> QED  BY <2>1, PTL
<1> QED  BY <1>1, <1>2

=============================================================================
