-------------------------- MODULE SceneJobsProofs --------------------------
(***************************************************************************)
(* Proofs about SceneJobs, for any jobs, workers, runs, steps and bounds.  *)
(*                                                                         *)
(* Everything rests on who watches over a run: while its worker beats, a   *)
(* live run is the only one of its job (SceneInv, here with what becomes   *)
(* of the row: Tended).  To that the invariant adds what makes it          *)
(* inductive: an approval names a run that waits for it (Awaited), a run   *)
(* inside a step has one to go (Midway), and a grant whose file was used   *)
(* up is gone (SpentOnce).                                                 *)
(***************************************************************************)
EXTENDS SceneJobs, FiniteSetTheorems, TLAPS

RunsOK == run \in [Runs -> Run \union Deciding \union {NoRun}]

\* What is kept up for a live run: its worker runs it, its job's row is the
\* worker's and beaten for, and has not ended or gone unless somebody cancelled
\* it on a status he had not read.
Kept(r) ==
  LET j == run[r].of
      p == run[r].at
  IN  /\ mode[p] = "up" /\ r \in active[p]
      /\ job[j].status \notin {"new", "queued"}
      /\ job[j].status = "running" => job[j].owner = p /\ job[j].beat = "fresh"
      /\ run[r].pc # "write" => run[r].outputs = job[j].done
      /\ raced[j] \/ (Held(j) /\ job[j].beat = "fresh")

Tended ==
  \A r \in Runs : Live(r) /\ ~unbeaten[run[r].of] => RunsOf(run[r].of) = {r} /\ Kept(r)

Awaited ==
  \A p \in Process : \A a \in pending[p] : a.waiter # NoOne =>
    /\ run[a.waiter].pc = "asking" /\ run[a.waiter].at = p
    /\ \A b \in pending[p] : b.waiter = a.waiter => b = a

Midway == \A r \in Runs : run[r].pc \in {"turn", "asking"} => run[r].outputs < Steps

SpentOnce == granted \intersect spent = {} /\ GrantReusedOnce

IInv == TypeOK /\ Tended /\ Awaited /\ Midway /\ SpentOnce

USE SceneAssumption DEF SceneAssumption

-----------------------------------------------------------------------------
(* The three kinds of entries of run.                                      *)

LEMMA Kinds ==
  ASSUME NEW x \in Run \union Deciding \union {NoRun}
  PROVE  /\ x \in Run <=> x.pc \in {"loop", "turn", "asking"}
         /\ x \in Deciding <=> x.pc = "write"
         /\ x = NoRun <=> x.pc = "none"
         /\ x # NoRun => x.of \in Jobs /\ x.at \in Process
         /\ x = NoRun => x.at = NoOne
BY DEF Run, Deciding, NoRun

LEMMA MovedRun ==
  ASSUME NEW x \in Run, NEW to \in {"loop", "turn", "asking"}
  PROVE  /\ [x EXCEPT !.pc = to] \in Run
         /\ [x EXCEPT !.pc = to].of = x.of
         /\ [x EXCEPT !.pc = to].at = x.at
         /\ [x EXCEPT !.pc = to].outputs = x.outputs
         /\ [x EXCEPT !.pc = to].pc = to
BY DEF Run

\* How a run may change while its job's row and its worker do not: it stays
\* the same run, it does not reopen, and its outputs stay while it is open.
Follows(x, y) ==
  /\ y # NoRun <=> x # NoRun
  /\ y.of = x.of /\ y.at = x.at
  /\ x.pc = "write" => y.pc = "write"
  /\ y.pc # "write" => y.outputs = x.outputs

LEMMA StoppedRun ==
  ASSUME NEW x \in Run
  PROVE  LET y == [x EXCEPT !.aborted = TRUE,
                            !.pc = IF @ = "asking" THEN "turn" ELSE @]
         IN  /\ y \in Run
             /\ y.of = x.of /\ y.at = x.at /\ y.outputs = x.outputs
             /\ y.pc = IF x.pc = "asking" THEN "turn" ELSE x.pc
BY DEF Run

LEMMA StoppedNoRun ==
  LET y == [NoRun EXCEPT !.aborted = TRUE, !.pc = IF @ = "asking" THEN "turn" ELSE @]
  IN  y = NoRun
BY DEF NoRun

LEMMA AbortedRuns ==
  ASSUME RunsOK, NEW S
  PROVE  /\ Aborted(S) \in [Runs -> Run \union Deciding \union {NoRun}]
         /\ \A r \in Runs :
              /\ Follows(run[r], Aborted(S)[r])
              /\ Aborted(S)[r].pc =
                   IF r \in S /\ run[r].pc = "asking" THEN "turn" ELSE run[r].pc
<1> SUFFICES ASSUME NEW r \in Runs
             PROVE  /\ Aborted(S)[r] \in Run \union Deciding \union {NoRun}
                    /\ Follows(run[r], Aborted(S)[r])
                    /\ Aborted(S)[r].pc =
                         IF r \in S /\ run[r].pc = "asking" THEN "turn" ELSE run[r].pc
  BY DEF Aborted
<1>1. run[r] \in Run \union Deciding \union {NoRun}  BY DEF RunsOK
<1> DEFINE y == [run[r] EXCEPT !.aborted = TRUE,
                               !.pc = IF @ = "asking" THEN "turn" ELSE @]
<1>2. Aborted(S)[r] = IF r \in S /\ run[r].pc # "write" THEN y ELSE run[r]
  BY DEF Aborted
<1>3. CASE r \in S /\ run[r] \in Run
  <2>1. /\ y \in Run
        /\ y.of = run[r].of /\ y.at = run[r].at /\ y.outputs = run[r].outputs
        /\ y.pc = IF run[r].pc = "asking" THEN "turn" ELSE run[r].pc
    BY <1>3, StoppedRun
  <2>2. Aborted(S)[r] = y  BY <1>1, <1>2, <1>3, Kinds
  <2> HIDE DEF y
  <2> QED  BY <1>1, <1>3, <2>1, <2>2, Kinds DEF Follows
<1>4. CASE r \in S /\ run[r] = NoRun
  <2>1. y = NoRun  BY <1>4, StoppedNoRun
  <2> HIDE DEF y
  <2> QED  BY <1>2, <1>4, <2>1 DEF Follows, NoRun
<1>5. CASE r \notin S \/ run[r] \in Deciding
  <2>1. Aborted(S)[r] = run[r]  BY <1>1, <1>2, <1>5, Kinds
  <2> QED  BY <1>1, <1>5, <2>1, Kinds DEF Follows
<1> QED  BY <1>1, <1>3, <1>4, <1>5

-----------------------------------------------------------------------------
(* The operators of Approvals keep the types.                              *)

LEMMA ApprovalTypes ==
  ASSUME ApprovalsTypeOK, NEW p \in Process
  PROVE  /\ \A k \in Keys : Consume(p, k) => ApprovalsTypeOK'
         /\ \A k \in Keys : \A w \in Runs \union {NoOne} : Prompt(p, k, w) => ApprovalsTypeOK'
         /\ \A a \in pending[p] : Grant(p, a) \/ Deny(p, a) => ApprovalsTypeOK'
         /\ \A k : Expire(k) => ApprovalsTypeOK'
         /\ Forget(p) => ApprovalsTypeOK'
<1> USE DEF ApprovalsTypeOK, Approval
<1>1. \A k \in Keys : Consume(p, k) => ApprovalsTypeOK'  BY DEF Consume
<1>2. \A k \in Keys : \A w \in Runs \union {NoOne} : Prompt(p, k, w) => ApprovalsTypeOK'
  BY DEF Prompt
<1>3. \A a \in pending[p] : Grant(p, a) \/ Deny(p, a) => ApprovalsTypeOK'
  BY DEF Grant, Deny, Closed
<1>4. \A k : Expire(k) => ApprovalsTypeOK'  BY DEF Expire
<1>5. Forget(p) => ApprovalsTypeOK'  BY DEF Forget
<1> QED  BY <1>1, <1>2, <1>3, <1>4, <1>5

\* Abandoning empties the waiter of some approvals and nothing else.
LEMMA AbandonPending ==
  ASSUME ApprovalsTypeOK, NEW S, Abandon(S)
  PROVE  /\ ApprovalsTypeOK'
         /\ \A p \in Process : \A b \in pending'[p] : b.waiter # NoOne =>
              b \in pending[p] /\ b.waiter \notin S
<1>1. ASSUME NEW p \in Process, NEW b \in pending'[p]
      PROVE  b \in Approval /\ (b.waiter # NoOne => b \in pending[p] /\ b.waiter \notin S)
  <2>1. PICK a \in pending[p] : b = IF a.waiter \in S THEN [a EXCEPT !.waiter = NoOne] ELSE a
    BY <1>1 DEF Abandon
  <2>2. a \in Approval  BY <1>1 DEF ApprovalsTypeOK
  <2>3. [a EXCEPT !.waiter = NoOne] \in Approval /\ [a EXCEPT !.waiter = NoOne].waiter = NoOne
    BY <2>2 DEF Approval
  <2> QED  BY <2>1, <2>2, <2>3
<1>2. pending' \in [Process -> SUBSET Approval]
  <2>1. \A p \in Process : pending'[p] \subseteq Approval  BY <1>1
  <2> QED  BY <2>1 DEF Abandon
<1> QED  BY <1>1, <1>2 DEF ApprovalsTypeOK, Abandon

\* Who waits still waits after a step that only abandons the runs in S and
\* moves on those of them that were asking.
LEMMA AwaitedAfterAbandon ==
  ASSUME ApprovalsTypeOK, Awaited, NEW S, Abandon(S),
         \A r \in Runs \ S : run[r].pc = "asking" =>
             run'[r].pc = "asking" /\ run'[r].at = run[r].at
  PROVE  Awaited'
<1> SUFFICES ASSUME NEW p \in Process, NEW a \in pending'[p], a.waiter # NoOne
             PROVE  /\ run'[a.waiter].pc = "asking" /\ run'[a.waiter].at = p
                    /\ \A b \in pending'[p] : b.waiter = a.waiter => b = a
  BY DEF Awaited
<1>1. a \in pending[p] /\ a.waiter \notin S  BY AbandonPending
<1>2. a.waiter \in Runs  BY <1>1 DEF ApprovalsTypeOK, Approval
<1>3. run'[a.waiter].pc = "asking" /\ run'[a.waiter].at = p
  BY <1>1, <1>2 DEF Awaited
<1>4. \A b \in pending'[p] : b.waiter = a.waiter => b = a
  BY <1>1, AbandonPending DEF Awaited
<1> QED  BY <1>3, <1>4

\* A grant that was used up is gone, whatever the step does with approvals.
LEMMA SpentStaysOnce ==
  ASSUME SpentOnce, NEW p, NEW k, NEW w, NEW a, NEW S,
         \/ Cached(p, k) /\ Consume(p, k)
         \/ Prompt(p, k, w)
         \/ Grant(p, a)
         \/ Deny(p, a)
         \/ Abandon(S)
         \/ Expire(k)
         \/ Forget(p)
         \/ UNCHANGED approvals
  PROVE  SpentOnce'
BY DEF SpentOnce, GrantReusedOnce, Cached, Consume, Prompt, Grant, Deny, Abandon,
       Expire, Forget, approvals

-----------------------------------------------------------------------------
(* Tended is kept if no run is new and what is kept up for each stays so.  *)

LEMMA TendedKeeps ==
  ASSUME Tended,
         \A r \in Runs : run'[r] # NoRun =>
             run[r] # NoRun /\ run'[r].of = run[r].of /\ run'[r].at = run[r].at,
         \A r \in Runs : run'[r] # NoRun /\ unbeaten[run[r].of] => unbeaten'[run[r].of],
         \A r \in Runs :
             run'[r] # NoRun /\ ~unbeaten'[run[r].of]
             /\ RunsOf(run[r].of) = {r} /\ Kept(r) => Kept(r)'
  PROVE  Tended'
<1> SUFFICES ASSUME NEW r \in Runs, run'[r] # NoRun, ~unbeaten'[run'[r].of]
             PROVE  RunsOf(run[r].of)' = {r} /\ Kept(r)'
  BY DEF Tended, Live, RunsOf, Kept
<1>1. /\ run[r] # NoRun /\ run'[r].of = run[r].of
      /\ ~unbeaten[run[r].of]
  OBVIOUS
<1>2. RunsOf(run[r].of) = {r} /\ Kept(r)  BY <1>1 DEF Tended, Live
<1>3. \A q \in Runs : run'[q] # NoRun /\ run'[q].of = run[r].of => q = r
  BY <1>2 DEF RunsOf, Live
<1>4. RunsOf(run[r].of)' = {r}  BY <1>1, <1>3 DEF RunsOf, Live
<1> QED  BY <1>1, <1>2, <1>4

\* Steps of a run that touch neither its row nor its worker.
LEMMA RunOnlyKeeps ==
  ASSUME TypeOK, Tended, RunOnly, RunsOK', ApprovalsTypeOK',
         \A r \in Runs : Follows(run[r], run'[r])
  PROVE  TypeOK' /\ Tended'
<1>1. \A p \in Process : \A r \in active[p] : r \in Runs  BY DEF TypeOK
<1>2. TypeOK'  BY <1>1 DEF TypeOK, RunOnly, RunsOK, Follows
<1>3. \A r \in Runs : run'[r] # NoRun /\ Kept(r) => Kept(r)'
  BY DEF RunOnly, Follows, Kept, Held
<1>4. Tended'  BY <1>3, TendedKeeps DEF RunOnly, Follows
<1> QED  BY <1>2, <1>4

\* One run moves on.
LEMMA MovedKeeps ==
  ASSUME RunsOK, NEW r \in Runs, run[r].pc \in {"loop", "turn", "asking"},
         NEW to \in {"loop", "turn", "asking"}, Moved(r, to)
  PROVE  /\ RunsOK'
         /\ \A q \in Runs : Follows(run[q], run'[q])
         /\ run'[r].pc = to /\ run'[r].outputs = run[r].outputs /\ run'[r].at = run[r].at
         /\ \A q \in Runs \ {r} : run'[q] = run[q]
<1>1. run[r] \in Run  BY Kinds DEF RunsOK
<1> DEFINE y == [run[r] EXCEPT !.pc = to]
<1>2. run' = [run EXCEPT ![r] = y] /\ run'[r] = y
  BY DEF Moved, RunsOK
<1>3. /\ run'[r] \in Run
      /\ run'[r].of = run[r].of /\ run'[r].at = run[r].at
      /\ run'[r].outputs = run[r].outputs /\ run'[r].pc = to
  <2>1. y \in Run /\ y.of = run[r].of /\ y.at = run[r].at
        /\ y.outputs = run[r].outputs /\ y.pc = to
    BY <1>1 DEF Run
  <2> HIDE DEF y
  <2> QED  BY <1>2, <2>1
<1> HIDE DEF y
<1>4. \A q \in Runs \ {r} : run'[q] = run[q]  BY <1>2 DEF RunsOK
<1>5. RunsOK'  BY <1>2, <1>3, <1>4 DEF RunsOK
<1>6. Follows(run[r], run'[r])  BY <1>1, <1>3, Kinds DEF Follows
<1>7. \A q \in Runs : Follows(run[q], run'[q])  BY <1>4, <1>6 DEF Follows
<1> QED  BY <1>3, <1>4, <1>5, <1>7

LEMMA DecideKeeps ==
  ASSUME RunsOK, NEW r \in Runs, run[r].pc \in {"loop", "turn", "asking"},
         NEW verdict \in Ended, Decide(r, verdict)
  PROVE  /\ RunsOK'
         /\ \A q \in Runs : Follows(run[q], run'[q])
         /\ run'[r].pc = "write"
         /\ \A q \in Runs \ {r} : run'[q] = run[q]
<1>1. run[r] \in Run  BY Kinds DEF RunsOK
<1>2. run'[r] = [of |-> run[r].of, at |-> run[r].at, pc |-> "write", verdict |-> verdict]
  BY DEF Decide, RunsOK
<1>3. run'[r] \in Deciding  BY <1>1, <1>2 DEF Run, Deciding
<1>4. \A q \in Runs \ {r} : run'[q] = run[q]  BY DEF Decide, RunsOK
<1>5. RunsOK'  BY <1>3, <1>4 DEF RunsOK, Decide
<1>6. Follows(run[r], run'[r])  BY <1>1, <1>2, <1>3, Kinds DEF Follows
<1>7. \A q \in Runs : Follows(run[q], run'[q])  BY <1>4, <1>6 DEF Follows
<1> QED  BY <1>2, <1>4, <1>5, <1>7

-----------------------------------------------------------------------------
(* The steps of a run and its approvals.                                   *)

LEMMA NextStepInv == ASSUME IInv, NEW r \in Runs, NextStep(r) PROVE IInv'
<1> USE DEF IInv
<1>1. RunsOK /\ run[r].pc = "loop" /\ Moved(r, "turn") /\ RunOnly /\ UNCHANGED approvals
  BY DEF NextStep, TypeOK, RunsOK
<1>2. /\ RunsOK' /\ run'[r].pc = "turn" /\ run'[r].outputs = run[r].outputs
      /\ \A q \in Runs : Follows(run[q], run'[q])
      /\ \A q \in Runs \ {r} : run'[q] = run[q]
  BY <1>1, MovedKeeps
<1>3. ApprovalsTypeOK'  BY <1>1 DEF TypeOK, ApprovalsTypeOK, approvals
<1>4. TypeOK' /\ Tended'  BY <1>1, <1>2, <1>3, RunOnlyKeeps
<1>5. Awaited'
  BY <1>1, <1>2 DEF Awaited, approvals, TypeOK, ApprovalsTypeOK, Approval
<1>6. run[r].outputs \in 0..Steps /\ run[r].outputs # Steps
  BY <1>1, Kinds DEF NextStep, Leaves, RunsOK, Run
<1>7. Midway'  BY <1>2, <1>6 DEF Midway
<1>8. SpentOnce'  BY <1>1, SpentStaysOnce
<1> QED  BY <1>4, <1>5, <1>7, <1>8

LEMMA DecidesInv == ASSUME IInv, NEW r \in Runs, Finish(r) \/ Throw(r) PROVE IInv'
<1> USE DEF IInv
<1>1. RunsOK /\ run[r].pc \in {"loop", "turn"}  BY DEF Finish, Throw, TypeOK, RunsOK
<1>2. PICK verdict \in Ended : Decide(r, verdict)
  BY DEF Finish, Throw, AfterReturn, AfterThrow, Ended
<1>3. /\ RunsOK' /\ run'[r].pc = "write"
      /\ \A q \in Runs : Follows(run[q], run'[q])
      /\ \A q \in Runs \ {r} : run'[q] = run[q]
  BY <1>1, <1>2, DecideKeeps
<1>4. RunOnly /\ UNCHANGED approvals  BY <1>2 DEF Decide
<1>5. ApprovalsTypeOK'  BY <1>4 DEF TypeOK, ApprovalsTypeOK, approvals
<1>6. TypeOK' /\ Tended'  BY <1>3, <1>4, <1>5, RunOnlyKeeps
<1>7. Awaited'
  BY <1>1, <1>3, <1>4 DEF Awaited, approvals, TypeOK, ApprovalsTypeOK, Approval
<1>8. Midway'  BY <1>3 DEF Midway
<1>9. SpentOnce'  BY <1>4, SpentStaysOnce
<1> QED  BY <1>6, <1>7, <1>8, <1>9

LEMMA TurnTimeoutInv == ASSUME IInv, NEW r \in Runs, TurnTimeout(r) PROVE IInv'
<1> USE DEF IInv
<1>1. RunsOK /\ run[r].pc \notin {"none", "write"} /\ RunOnly /\ Abandon({r})
  BY DEF TurnTimeout, TypeOK, RunsOK
<1>2. run[r] \in Run  BY <1>1, Kinds DEF RunsOK
<1> DEFINE x == Aborted({r})
<1>3. /\ x \in [Runs -> Run \union Deciding \union {NoRun}]
      /\ \A q \in Runs :
           /\ Follows(run[q], x[q])
           /\ x[q].pc = IF q \in {r} /\ run[q].pc = "asking" THEN "turn" ELSE run[q].pc
  BY <1>1, AbortedRuns
<1>4. run' = [x EXCEPT ![r].timedOut = TRUE]  BY DEF TurnTimeout
<1> HIDE DEF x
<1>5. x[r] \in Run  BY <1>1, <1>3, Kinds
<1>6. /\ run'[r] \in Run
      /\ run'[r].of = x[r].of /\ run'[r].at = x[r].at
      /\ run'[r].outputs = x[r].outputs /\ run'[r].pc = x[r].pc
  BY <1>3, <1>4, <1>5 DEF Run
<1>7. \A q \in Runs \ {r} : run'[q] = x[q]  BY <1>3, <1>4
<1>8. RunsOK'  BY <1>3, <1>4, <1>6, <1>7 DEF RunsOK
<1>9. \A q \in Runs : Follows(run[q], run'[q])
  BY <1>2, <1>3, <1>6, <1>7, Kinds DEF Follows
<1>10. ApprovalsTypeOK'  BY <1>1, AbandonPending DEF TypeOK
<1>11. TypeOK' /\ Tended'  BY <1>1, <1>8, <1>9, <1>10, RunOnlyKeeps
<1>12. Awaited'
  <2>1. \A q \in Runs \ {r} : run[q].pc = "asking" =>
          run'[q].pc = "asking" /\ run'[q].at = run[q].at
    BY <1>3, <1>7, <1>9 DEF Follows
  <2> QED  BY <1>1, <2>1, AwaitedAfterAbandon DEF TypeOK
<1>13. Midway'
  BY <1>1, <1>3, <1>6, <1>7, <1>9 DEF Midway, Follows
<1>14. SpentOnce'  BY <1>1, SpentStaysOnce
<1> QED  BY <1>11, <1>12, <1>13, <1>14

LEMMA AskInv == ASSUME IInv, NEW r \in Runs, Ask(r) PROVE IInv'
<1> USE DEF IInv
<1>1. RunsOK /\ run[r].pc = "turn" /\ RunOnly
  BY DEF Ask, TypeOK, RunsOK
<1>2. run[r] \in Run  BY <1>1, Kinds DEF RunsOK
<1>3. run[r].at \in Process /\ KeyOf(r) \in Keys
  BY <1>2 DEF Run, KeyOf, Ask
<1> DEFINE p == run[r].at
           k == KeyOf(r)
<1>4. CASE Cached(p, k) /\ Consume(p, k) /\ UNCHANGED run
  <2>1. ApprovalsTypeOK'  BY <1>3, <1>4, ApprovalTypes DEF TypeOK
  <2>2. RunsOK' /\ \A q \in Runs : Follows(run[q], run'[q])
    BY <1>1, <1>4 DEF RunsOK, Follows
  <2>3. TypeOK' /\ Tended'  BY <1>1, <2>1, <2>2, RunOnlyKeeps
  <2>4. Awaited' /\ Midway'  BY <1>4 DEF Awaited, Midway, Consume
  <2>5. SpentOnce'  BY <1>4, SpentStaysOnce
  <2> QED  BY <2>3, <2>4, <2>5
<1>5. CASE /\ Prompt(p, k, IF run[r].aborted THEN NoOne ELSE r)
           /\ Moved(r, IF run[r].aborted THEN "turn" ELSE "asking")
  <2> DEFINE w == IF run[r].aborted THEN NoOne ELSE r
             to == IF run[r].aborted THEN "turn" ELSE "asking"
  <2>1. /\ w \in Runs \union {NoOne}
        /\ w # NoOne => w = r /\ to = "asking"
        /\ to \in {"loop", "turn", "asking"}
    OBVIOUS
  <2>2. Prompt(p, k, w) /\ Moved(r, to)  BY <1>5
  <2> HIDE DEF w, to
  <2>3. /\ RunsOK' /\ run'[r].pc = to /\ run'[r].outputs = run[r].outputs
        /\ run'[r].at = run[r].at
        /\ \A q \in Runs : Follows(run[q], run'[q])
        /\ \A q \in Runs \ {r} : run'[q] = run[q]
    BY <1>1, <2>1, <2>2, MovedKeeps
  <2>4. ApprovalsTypeOK'
    BY <1>3, <2>1, <2>2 DEF TypeOK, Prompt, ApprovalsTypeOK, Approval
  <2>5. TypeOK' /\ Tended'  BY <1>1, <2>3, <2>4, RunOnlyKeeps
  <2>6. Awaited'
    <3> SUFFICES ASSUME NEW o \in Process, NEW a \in pending'[o], a.waiter # NoOne
                 PROVE  /\ run'[a.waiter].pc = "asking" /\ run'[a.waiter].at = o
                        /\ \A b \in pending'[o] : b.waiter = a.waiter => b = a
      BY DEF Awaited
    <3>1. pending'[o] = IF o = p THEN pending[o] \union {[key |-> k, waiter |-> w]}
                                 ELSE pending[o]
      BY <2>2 DEF Prompt, TypeOK, ApprovalsTypeOK
    <3>2. \A b \in pending[o] : b.waiter \in Runs \union {NoOne} /\ b.waiter # r
      BY <1>1 DEF Awaited, TypeOK, ApprovalsTypeOK, Approval
    <3>3. CASE a \in pending[o]
      BY <3>1, <3>2, <3>3, <2>1, <2>3 DEF Awaited
    <3>4. CASE a \notin pending[o]
      <4>1. o = p /\ a = [key |-> k, waiter |-> w]  BY <3>1, <3>4
      <4>2. a.waiter = w  BY <4>1
      <4>3. a.waiter = r /\ to = "asking"  BY <4>2, <2>1
      <4>4. \A b \in pending'[o] : b.waiter = r => b = a
        BY <3>1, <3>2, <4>1
      <4> QED  BY <2>3, <4>1, <4>3, <4>4
    <3> QED  BY <3>3, <3>4
  <2>7. Midway'  BY <1>1, <2>3 DEF Midway
  <2>8. SpentOnce'  BY <2>2, SpentStaysOnce
  <2> QED  BY <2>5, <2>6, <2>7, <2>8
<1> QED  BY <1>4, <1>5 DEF Ask

\* An approval is answered or times out: who waited for it goes on.
LEMMA AnswerInv ==
  ASSUME IInv, NEW p \in Process, NEW a \in pending[p],
         Answer(p, a) \/ TimeOut(p, a)
  PROVE  IInv'
<1> USE DEF IInv
<1>1. RunsOK /\ (Grant(p, a) \/ Deny(p, a)) /\ Told(a) /\ RunOnly
  BY DEF Answer, TimeOut, TypeOK, RunsOK
<1>2. pending' = [pending EXCEPT ![p] = @ \ {a}]  BY <1>1 DEF Grant, Deny, Closed
<1>3. \A o \in Process : pending'[o] \subseteq pending[o]
  BY <1>2 DEF TypeOK, ApprovalsTypeOK
<1>4. ApprovalsTypeOK'  BY <1>1, ApprovalTypes DEF TypeOK
<1>5. SpentOnce'  BY <1>1, SpentStaysOnce
<1>6. CASE a.waiter = NoOne
  <2>1. UNCHANGED run  BY <1>1, <1>6 DEF Told
  <2>2. RunsOK' /\ \A q \in Runs : Follows(run[q], run'[q])
    BY <1>1, <2>1 DEF RunsOK, Follows
  <2>3. TypeOK' /\ Tended'  BY <1>1, <1>4, <2>2, RunOnlyKeeps
  <2>4. Awaited' /\ Midway'  BY <1>3, <2>1 DEF Awaited, Midway
  <2> QED  BY <1>5, <2>3, <2>4
<1>7. CASE a.waiter # NoOne
  <2> DEFINE r == a.waiter
  <2>1. r \in Runs /\ run[r].pc = "asking" /\ run[r].at = p
    BY <1>7 DEF Awaited, TypeOK, ApprovalsTypeOK, Approval
  <2>2. Moved(r, "turn")  BY <1>1, <1>7 DEF Told
  <2> HIDE DEF r
  <2>3. /\ RunsOK' /\ run'[r].pc = "turn" /\ run'[r].outputs = run[r].outputs
        /\ \A q \in Runs : Follows(run[q], run'[q])
        /\ \A q \in Runs \ {r} : run'[q] = run[q]
    BY <1>1, <2>1, <2>2, MovedKeeps
  <2>4. TypeOK' /\ Tended'  BY <1>1, <1>4, <2>3, RunOnlyKeeps
  <2>5. \A o \in Process : \A b \in pending'[o] : b.waiter # r
    <3> SUFFICES ASSUME NEW o \in Process, NEW b \in pending'[o], b.waiter = r
                 PROVE  FALSE
      OBVIOUS
    <3>1. b \in pending[o] /\ r # NoOne  BY <1>3, <1>7 DEF r
    <3>2. o = p  BY <2>1, <3>1 DEF Awaited
    <3>3. b = a  BY <3>1, <3>2, <1>7 DEF Awaited, r
    <3> QED  BY <1>2, <3>2, <3>3 DEF TypeOK, ApprovalsTypeOK
  <2>6. Awaited'
    BY <1>3, <2>3, <2>5 DEF Awaited, TypeOK, ApprovalsTypeOK, Approval
  <2>7. Midway'  BY <2>1, <2>3 DEF Midway
  <2> QED  BY <1>5, <2>4, <2>6, <2>7
<1> QED  BY <1>6, <1>7

-----------------------------------------------------------------------------
(* Steps that change rows and leave the runs and the workers alone.        *)

LEMMA RowStatus ==
  ASSUME NEW x \in Job, NEW s \in Status
  PROVE  LET y == [x EXCEPT !.status = s]
         IN  /\ y \in Job /\ y.status = s
             /\ y.owner = x.owner /\ y.beat = x.beat /\ y.done = x.done
BY DEF Job

LEMMA RowBeat ==
  ASSUME NEW x \in Job, NEW b \in {"none", "fresh", "stale"}
  PROVE  LET y == [x EXCEPT !.beat = b]
         IN  /\ y \in Job /\ y.status = x.status
             /\ y.owner = x.owner /\ y.beat = b /\ y.done = x.done
BY DEF Job

LEMMA SetStatusRow ==
  ASSUME TypeOK, NEW j \in Jobs, NEW s \in Status, SetStatus(j, s)
  PROVE  /\ job' \in [Jobs -> Job]
         /\ job'[j].status = IF job[j].status = "gone" THEN "gone" ELSE s
         /\ job'[j].owner = job[j].owner /\ job'[j].beat = job[j].beat
         /\ job'[j].done = job[j].done
         /\ \A i \in Jobs \ {j} : job'[i] = job[i]
<1> DEFINE t == IF job[j].status = "gone" THEN "gone" ELSE s
           y == [job[j] EXCEPT !.status = t]
<1>1. t \in Status /\ job[j] \in Job  BY DEF TypeOK, Status
<1>2. job' = [job EXCEPT ![j] = y]  BY DEF SetStatus, TypeOK
<1>3. y \in Job /\ y.status = t /\ y.owner = job[j].owner /\ y.beat = job[j].beat
      /\ y.done = job[j].done
  <2> HIDE DEF t
  <2> QED  BY <1>1, RowStatus
<1> HIDE DEF y
<1> QED  BY <1>2, <1>3 DEF TypeOK

LEMMA RecoveredRow ==
  ASSUME TypeOK, NEW j \in Jobs
  PROVE  /\ Recovered[j] \in Job
         /\ Recovered[j].done = job[j].done
         /\ ~Stale(j) => Recovered[j] = job[j]
         /\ Stale(j) => Recovered[j].status =
                          IF job[j].status = "cancelling" THEN "cancelled" ELSE "queued"
<1>1. job[j] \in Job  BY DEF TypeOK
<1> DEFINE y == [job[j] EXCEPT !.owner = NoOne, !.beat = "none",
                   !.status = IF @ = "cancelling" THEN "cancelled" ELSE "queued"]
<1>2. Recovered[j] = IF Stale(j) THEN y ELSE job[j]  BY DEF Recovered
<1>3. y \in Job /\ y.done = job[j].done
      /\ y.status = IF job[j].status = "cancelling" THEN "cancelled" ELSE "queued"
  BY <1>1 DEF Job, Status, Ended
<1> HIDE DEF y
<1> QED  BY <1>1, <1>2, <1>3

LEMMA RowOnlyKeeps ==
  ASSUME IInv, UNCHANGED <<run, mode, active, approvals>>,
         job' \in [Jobs -> Job], UNCHANGED restarts,
         cancelling' \in [Jobs -> {"none", "queued", "running"}],
         unbeaten' \in [Jobs -> BOOLEAN], raced' \in [Jobs -> BOOLEAN],
         \A j \in Jobs : unbeaten[j] => unbeaten'[j],
         \A r \in Runs :
             Live(r) /\ ~unbeaten'[run[r].of]
             /\ RunsOf(run[r].of) = {r} /\ Kept(r) => Kept(r)'
  PROVE  IInv'
<1> USE DEF IInv
<1>1. TypeOK'  BY DEF TypeOK, ApprovalsTypeOK, approvals
<1>2. \A r \in Runs : Live(r) => run[r].of \in Jobs  BY Kinds DEF TypeOK, Live
<1>3. Tended'  BY <1>2, TendedKeeps DEF Live
<1>4. Awaited' /\ Midway'  BY DEF Awaited, Midway, approvals
<1>5. SpentOnce'  BY SpentStaysOnce
<1> QED  BY <1>1, <1>3, <1>4, <1>5

LEMMA CreateInv == ASSUME IInv, NEW j \in Jobs, Create(j) PROVE IInv'
<1>1. SetStatus(j, "queued") /\ job[j].status = "new"
  BY DEF Create, SetStatus, IInv, TypeOK
<1>2. /\ job' \in [Jobs -> Job]
      /\ \A i \in Jobs \ {j} : job'[i] = job[i]
  BY <1>1, SetStatusRow DEF IInv, Status
<1>3. \A r \in Runs : Live(r) /\ Kept(r) => Kept(r)'
  BY <1>1, <1>2, Kinds DEF IInv, TypeOK, Kept, Held, Create, Live
<1> QED  BY <1>2, <1>3, RowOnlyKeeps DEF Create, IInv, TypeOK

LEMMA ReadToCancelInv == ASSUME IInv, NEW j \in Jobs, ReadToCancel(j) PROVE IInv'
<1>1. \A r \in Runs : Kept(r) => Kept(r)'  BY DEF Kept, Held, ReadToCancel
<1> QED  BY <1>1, RowOnlyKeeps DEF ReadToCancel, IInv, TypeOK

LEMMA WriteCancelInv == ASSUME IInv, NEW j \in Jobs, WriteCancel(j) PROVE IInv'
<1> DEFINE s == IF cancelling[j] = "queued" THEN "cancelled" ELSE "cancelling"
<1>1. SetStatus(j, s) /\ s \in Status /\ s \in {"cancelled", "cancelling"}
  BY DEF WriteCancel, Status, Ended
<1>2. cancelling[j] # "queued" => s = "cancelling" /\ cancelling[j] = "running"
  BY DEF WriteCancel, IInv, TypeOK
<1> HIDE DEF s
<1>3. /\ job' \in [Jobs -> Job]
      /\ job'[j].status = IF job[j].status = "gone" THEN "gone" ELSE s
      /\ job'[j].owner = job[j].owner /\ job'[j].beat = job[j].beat
      /\ job'[j].done = job[j].done
      /\ \A i \in Jobs \ {j} : job'[i] = job[i]
  BY <1>1, SetStatusRow DEF IInv
<1>4. raced' = [raced EXCEPT ![j] = @ \/ job[j].status # cancelling[j]]
  BY DEF WriteCancel
<1>5. \A i \in Jobs : raced[i] => raced'[i]  BY <1>4 DEF IInv, TypeOK
<1>6. ~raced'[j] => job[j].status = cancelling[j]  BY <1>4 DEF IInv, TypeOK
<1>7. \A i \in Jobs \ {j} : raced'[i] = raced[i]  BY <1>4 DEF IInv, TypeOK
<1>8. ASSUME NEW r \in Runs, Live(r), Kept(r) PROVE Kept(r)'
  <2>1. UNCHANGED <<run, mode, active>>  BY DEF WriteCancel
  <2>2. run[r].of \in Jobs  BY <1>8, Kinds DEF Live, IInv, TypeOK
  <2>3. CASE run[r].of # j  BY <1>3, <1>7, <1>8, <2>1, <2>2, <2>3 DEF Kept, Held
  <2>4. CASE run[r].of = j
    <3>1. job'[j].status \notin {"new", "queued", "running"}  BY <1>1, <1>3
    <3>2. raced'[j] \/ (job'[j].status = "cancelling" /\ job'[j].beat = "fresh")
      BY <1>2, <1>3, <1>5, <1>6, <1>8, <2>4 DEF Kept
    <3> QED  BY <1>3, <1>8, <2>1, <2>4, <3>1, <3>2 DEF Kept, Held
  <2> QED  BY <2>3, <2>4
<1>9. raced' \in [Jobs -> BOOLEAN]  BY <1>4 DEF IInv, TypeOK
<1> QED  BY <1>3, <1>8, <1>9, RowOnlyKeeps DEF WriteCancel, IInv, TypeOK

LEMMA DeleteInv == ASSUME IInv, NEW j \in Jobs, Delete(j) PROVE IInv'
<1>1. SetStatus(j, "gone") /\ job[j].status \in Ended
  BY DEF Delete, SetStatus, IInv, TypeOK
<1>2. /\ job' \in [Jobs -> Job]
      /\ job'[j].status = "gone" /\ job'[j].done = job[j].done
      /\ \A i \in Jobs \ {j} : job'[i] = job[i]
  BY <1>1, SetStatusRow DEF IInv, Status
<1>3. ASSUME NEW r \in Runs, Live(r), Kept(r) PROVE Kept(r)'
  <2>1. UNCHANGED <<run, mode, active, raced>>  BY DEF Delete
  <2>2. run[r].of \in Jobs  BY <1>3, Kinds DEF Live, IInv, TypeOK
  <2> QED  BY <1>1, <1>2, <1>3, <2>1, <2>2 DEF Kept, Held, Ended
<1> QED  BY <1>2, <1>3, RowOnlyKeeps DEF Delete, IInv, TypeOK

\* A heart that stops: only of a job nobody runs, or one that is then unbeaten.
LEMMA LapseInv == ASSUME IInv, NEW j \in Jobs, Lapse(j) \/ Pause(j) PROVE IInv'
<1> DEFINE y == [job[j] EXCEPT !.beat = "stale"]
<1>1. job' = [job EXCEPT ![j] = y]  BY DEF Lapse, Pause, IInv, TypeOK
<1>2. y \in Job /\ y.done = job[j].done  BY RowBeat DEF IInv, TypeOK
<1> HIDE DEF y
<1>3. job' \in [Jobs -> Job] /\ \A i \in Jobs \ {j} : job'[i] = job[i]
  BY <1>1, <1>2 DEF IInv, TypeOK
<1>4. /\ unbeaten' \in [Jobs -> BOOLEAN]
      /\ \A i \in Jobs : unbeaten[i] => unbeaten'[i]
      /\ Pause(j) => unbeaten'[j]
      /\ job[j].status = "cancelling" /\ RunsOf(j) # {} => unbeaten'[j]
  BY DEF Lapse, Pause, Beaten, IInv, TypeOK
<1>5. ASSUME NEW r \in Runs, Live(r), ~unbeaten'[run[r].of],
             RunsOf(run[r].of) = {r}, Kept(r)
      PROVE  Kept(r)'
  <2>1. UNCHANGED <<run, mode, active, raced>>  BY DEF Lapse, Pause
  <2>2. run[r].of \in Jobs /\ run[r].at \in Process
    BY <1>5, Kinds DEF Live, IInv, TypeOK
  <2>3. CASE run[r].of # j  BY <1>3, <1>5, <2>1, <2>2, <2>3 DEF Kept, Held
  <2>4. CASE run[r].of = j
    <3>1. Lapse(j) /\ ~Beaten(j) /\ job[j].status # "cancelling"
      BY <1>4, <1>5, <2>4 DEF Lapse
    <3>2. job[j].status # "running"
      BY <3>1, <2>2, <2>4, <1>5 DEF Kept, Beaten
    <3>3. job'[j].status = job[j].status /\ job'[j].done = job[j].done
      <4>1. y.status = job[j].status  BY RowBeat DEF y, IInv, TypeOK
      <4> QED  BY <1>1, <1>2, <4>1 DEF IInv, TypeOK
    <3>4. raced[j]  BY <1>5, <2>4, <3>1, <3>2 DEF Kept, Held
    <3> QED  BY <1>5, <2>1, <2>4, <3>2, <3>3, <3>4 DEF Kept, Held
  <2> QED  BY <2>3, <2>4
<1> QED  BY <1>3, <1>4, <1>5, RowOnlyKeeps DEF Lapse, Pause, IInv, TypeOK

-----------------------------------------------------------------------------
(* The worker.                                                             *)

LEMMA StartInv == ASSUME IInv, NEW p \in Process, Start(p) PROVE IInv'
<1> USE DEF IInv
<1>1. /\ job' = Recovered /\ mode' = [mode EXCEPT ![p] = "up"]
      /\ UNCHANGED <<approvals, cancelling, run, active, restarts, unbeaten, raced>>
  BY DEF Start
<1>2. job' \in [Jobs -> Job]
  <2>1. DOMAIN Recovered = Jobs /\ \A j \in Jobs : Recovered[j] \in Job
    BY RecoveredRow DEF Recovered
  <2>2. Recovered = [j \in Jobs |-> Recovered[j]]  BY DEF Recovered
  <2> QED  BY <1>1, <2>1, <2>2
<1>3. TypeOK'  BY <1>1, <1>2 DEF TypeOK, ApprovalsTypeOK, approvals
<1>4. ASSUME NEW r \in Runs, Live(r), Kept(r) PROVE Kept(r)'
  <2>1. run[r].of \in Jobs /\ run[r].at \in Process
    BY <1>4, Kinds DEF Live, TypeOK
  <2>2. /\ Recovered[run[r].of].done = job[run[r].of].done
        /\ ~Stale(run[r].of) => Recovered[run[r].of] = job[run[r].of]
        /\ Stale(run[r].of) => Recovered[run[r].of].status =
             IF job[run[r].of].status = "cancelling" THEN "cancelled" ELSE "queued"
    BY <2>1, RecoveredRow
  <2>3. Stale(run[r].of) => job[run[r].of].status = "cancelling" /\ raced[run[r].of]
    BY <1>4 DEF Kept, Stale, Held
  <2>4. mode'[run[r].at] = "up"  BY <1>1, <1>4, <2>1 DEF Kept, TypeOK
  <2> QED  BY <1>1, <1>4, <2>2, <2>3, <2>4 DEF Kept, Held
<1>5. Tended'  BY <1>1, <1>4, TendedKeeps DEF Live
<1>6. Awaited' /\ Midway'  BY <1>1 DEF Awaited, Midway, approvals
<1>7. SpentOnce'  BY <1>1, SpentStaysOnce
<1> QED  BY <1>3, <1>5, <1>6, <1>7

LEMMA MonitorInv == ASSUME IInv, NEW p \in Process, Monitor(p) PROVE IInv'
<1> USE DEF IInv
<1> DEFINE Beats(j) == /\ Recovered[j].status = "running" /\ Recovered[j].owner = p
                       /\ \E r \in active[p] : run[r].of = j
           cancelled == {r \in active[p] : Recovered[run[r].of].status = "cancelling"}
<1>1. /\ job' = [j \in Jobs |->
           IF Beats(j) THEN [Recovered[j] EXCEPT !.beat = "fresh"] ELSE Recovered[j]]
      /\ run' = Aborted(cancelled) /\ Abandon(cancelled)
      /\ UNCHANGED <<cancelling, mode, active, restarts, unbeaten, raced>>
  BY DEF Monitor
<1>2. \A j \in Jobs :
        /\ job'[j] \in Job
        /\ job'[j].status = Recovered[j].status /\ job'[j].owner = Recovered[j].owner
        /\ job'[j].done = Recovered[j].done
        /\ job'[j].beat \in {"fresh", Recovered[j].beat}
  <2> SUFFICES ASSUME NEW j \in Jobs
               PROVE  /\ job'[j] \in Job
                      /\ job'[j].status = Recovered[j].status
                      /\ job'[j].owner = Recovered[j].owner
                      /\ job'[j].done = Recovered[j].done
                      /\ job'[j].beat \in {"fresh", Recovered[j].beat}
    OBVIOUS
  <2>1. Recovered[j] \in Job  BY RecoveredRow
  <2> DEFINE y == [Recovered[j] EXCEPT !.beat = "fresh"]
  <2>2. job'[j] = IF Beats(j) THEN y ELSE Recovered[j]  BY <1>1
  <2>3. y \in Job /\ y.status = Recovered[j].status /\ y.owner = Recovered[j].owner
        /\ y.done = Recovered[j].done /\ y.beat = "fresh"
    BY <2>1, RowBeat
  <2> HIDE DEF y, Beats
  <2> QED  BY <2>1, <2>2, <2>3
<1>3. job' \in [Jobs -> Job]  BY <1>1, <1>2
<1> HIDE DEF Beats, cancelled
<1>4. RunsOK  BY DEF TypeOK, RunsOK
<1>5. /\ run' \in [Runs -> Run \union Deciding \union {NoRun}]
      /\ \A r \in Runs :
           /\ Follows(run[r], run'[r])
           /\ run'[r].pc = IF r \in cancelled /\ run[r].pc = "asking" THEN "turn"
                                                                    ELSE run[r].pc
  BY <1>1, <1>4, AbortedRuns
<1>6. ApprovalsTypeOK'  BY <1>1, AbandonPending DEF TypeOK
<1>7. TypeOK'
  <2>1. \A o \in Process : \A r \in active'[o] : run'[r].at = o
    BY <1>1, <1>5 DEF TypeOK, Follows
  <2> QED  BY <1>1, <1>3, <1>5, <1>6, <2>1 DEF TypeOK
<1>8. ASSUME NEW r \in Runs, run'[r] # NoRun, Kept(r) PROVE Kept(r)'
  <2>1. run[r] # NoRun /\ run'[r].of = run[r].of /\ run'[r].at = run[r].at
        /\ (run'[r].pc # "write" => run[r].pc # "write" /\ run'[r].outputs = run[r].outputs)
    BY <1>5, <1>8 DEF Follows
  <2>2. run[r].of \in Jobs  BY <2>1, Kinds DEF TypeOK
  <2>3. /\ Recovered[run[r].of].done = job[run[r].of].done
        /\ ~Stale(run[r].of) => Recovered[run[r].of] = job[run[r].of]
        /\ Stale(run[r].of) => Recovered[run[r].of].status =
             IF job[run[r].of].status = "cancelling" THEN "cancelled" ELSE "queued"
    BY <2>2, RecoveredRow
  <2>4. Stale(run[r].of) => job[run[r].of].status = "cancelling" /\ raced[run[r].of]
    BY <1>8 DEF Kept, Stale, Held
  <2> QED  BY <1>1, <1>2, <1>8, <2>1, <2>2, <2>3, <2>4 DEF Kept, Held
<1>9. Tended'  BY <1>1, <1>5, <1>8, TendedKeeps DEF Follows
<1>10. Awaited'
  <2>1. \A r \in Runs \ cancelled : run[r].pc = "asking" =>
          run'[r].pc = "asking" /\ run'[r].at = run[r].at
    BY <1>5 DEF Follows
  <2> QED  BY <1>1, <2>1, AwaitedAfterAbandon DEF TypeOK
<1>11. Midway'  BY <1>5 DEF Midway, Follows
<1>12. SpentOnce'  BY <1>1, SpentStaysOnce
<1> QED  BY <1>7, <1>9, <1>10, <1>11, <1>12

\* A worker that stops beats for none of its jobs any more.
LEMMA StopInv == ASSUME IInv, NEW p \in Process, Stop(p) PROVE IInv'
<1> USE DEF IInv
<1>1. /\ mode' = [mode EXCEPT ![p] = "stopping"]
      /\ run' = Aborted(active[p]) /\ Abandon(active[p])
      /\ unbeaten' = [j \in Jobs |-> unbeaten[j] \/ \E r \in active[p] : run[r].of = j]
      /\ UNCHANGED <<job, cancelling, active, restarts, raced>>
  BY DEF Stop
<1>2. RunsOK  BY DEF TypeOK, RunsOK
<1>3. /\ run' \in [Runs -> Run \union Deciding \union {NoRun}]
      /\ \A r \in Runs :
           /\ Follows(run[r], run'[r])
           /\ run'[r].pc = IF r \in active[p] /\ run[r].pc = "asking" THEN "turn"
                                                                    ELSE run[r].pc
  BY <1>1, <1>2, AbortedRuns
<1>4. ApprovalsTypeOK'  BY <1>1, AbandonPending DEF TypeOK
<1>5. TypeOK'
  <2>1. \A o \in Process : \A r \in active'[o] : run'[r].at = o
    BY <1>1, <1>3 DEF TypeOK, Follows
  <2>2. mode' \in [Process -> {"up", "stopping", "down"}]  BY <1>1 DEF TypeOK
  <2>3. unbeaten' \in [Jobs -> BOOLEAN]  BY <1>1 DEF TypeOK
  <2> QED  BY <1>1, <1>3, <1>4, <2>1, <2>2, <2>3 DEF TypeOK
<1>6. ASSUME NEW r \in Runs, run'[r] # NoRun, ~unbeaten'[run[r].of], Kept(r)
      PROVE  Kept(r)'
  <2>1. run[r] # NoRun /\ run'[r].of = run[r].of /\ run'[r].at = run[r].at
        /\ (run'[r].pc # "write" => run[r].pc # "write" /\ run'[r].outputs = run[r].outputs)
    BY <1>3, <1>6 DEF Follows
  <2>2. run[r].of \in Jobs /\ run[r].at \in Process  BY <2>1, Kinds DEF TypeOK
  <2>3. run[r].at # p  BY <1>1, <1>6, <2>2 DEF Kept
  <2> QED  BY <1>1, <1>6, <2>1, <2>2, <2>3 DEF Kept, Held, TypeOK
<1>7. \A r \in Runs : run'[r] # NoRun => run[r].of \in Jobs
  BY <1>3, Kinds DEF TypeOK, Follows
<1>8. Tended'  BY <1>1, <1>3, <1>6, <1>7, TendedKeeps DEF Follows
<1>9. Awaited'
  <2>1. \A r \in Runs \ active[p] : run[r].pc = "asking" =>
          run'[r].pc = "asking" /\ run'[r].at = run[r].at
    BY <1>3 DEF Follows
  <2> QED  BY <1>1, <2>1, AwaitedAfterAbandon DEF TypeOK
<1>10. Midway'  BY <1>3 DEF Midway, Follows
<1>11. SpentOnce'  BY <1>1, SpentStaysOnce
<1> QED  BY <1>5, <1>8, <1>9, <1>10, <1>11

\* A process that is gone takes its runs and its approvals with it.
LEMMA GoneInv ==
  ASSUME IInv, NEW p \in Process, Gone(p), restarts < MaxRestarts
  PROVE  IInv'
<1> USE DEF IInv
<1>1. /\ mode' = [mode EXCEPT ![p] = "down"]
      /\ run' = [r \in Runs |-> IF run[r].at = p THEN NoRun ELSE run[r]]
      /\ active' = [active EXCEPT ![p] = {}]
      /\ restarts' = restarts + 1
      /\ Forget(p)
      /\ UNCHANGED <<job, cancelling, unbeaten, raced>>
  BY DEF Gone
<1>2. ApprovalsTypeOK'  BY <1>1, ApprovalTypes DEF TypeOK
<1>3. TypeOK'
  <2>1. \A o \in Process : \A r \in active'[o] : run'[r].at = o
    BY <1>1 DEF TypeOK
  <2>2. active' \in [Process -> SUBSET Runs]  BY <1>1 DEF TypeOK
  <2>3. run' \in [Runs -> Run \union Deciding \union {NoRun}]  BY <1>1 DEF TypeOK
  <2>4. restarts' \in 0..MaxRestarts  BY <1>1 DEF TypeOK
  <2> QED  BY <1>1, <1>2, <2>1, <2>2, <2>3, <2>4 DEF TypeOK
<1>4. ASSUME NEW r \in Runs, run'[r] # NoRun, Kept(r) PROVE Kept(r)'
  <2>1. run'[r] = run[r] /\ run[r].at # p  BY <1>1, <1>4
  <2>2. run[r].at \in Process  BY <1>4, <2>1, Kinds DEF TypeOK
  <2> QED  BY <1>1, <1>4, <2>1, <2>2 DEF Kept, Held, TypeOK
<1>5. Tended'  BY <1>1, <1>4, TendedKeeps
<1>6. Awaited'
  BY <1>1 DEF Forget, Awaited, TypeOK, ApprovalsTypeOK, Approval
<1>7. Midway'  BY <1>1 DEF Midway, NoRun
<1>8. SpentOnce'  BY <1>1, SpentStaysOnce
<1> QED  BY <1>3, <1>5, <1>6, <1>7, <1>8

\* A queued job has no run that anybody beats for, so that the claimed run is
\* the only one.
LEMMA ClaimInv ==
  ASSUME IInv, NEW p \in Process, NEW r \in Runs, NEW j \in Jobs, Claim(p, r, j)
  PROVE  IInv'
<1> USE DEF IInv
<1> DEFINE y == [job[j] EXCEPT !.status = "running", !.owner = p, !.beat = "fresh"]
<1>1. /\ mode[p] = "up" /\ run[r] = NoRun /\ job[j].status = "queued"
      /\ run' = [run EXCEPT ![r] = NewRun(p, j)]
      /\ active' = [active EXCEPT ![p] = {q \in active[p] : run[q].of # j} \union {r}]
      /\ UNCHANGED <<approvals, cancelling, mode, restarts, unbeaten, raced>>
  BY DEF Claim, Live, Oldest, TypeOK
<1>2. job' = [job EXCEPT ![j] = y]  BY DEF Claim, TypeOK
<1>3. y \in Job /\ y.status = "running" /\ y.owner = p /\ y.beat = "fresh"
      /\ y.done = job[j].done
  <2>1. job[j] \in Job  BY DEF TypeOK
  <2> QED  BY <2>1 DEF Job, Status
<1> HIDE DEF y
<1>4. NewRun(p, j) \in Run  BY DEF NewRun, Run, Restored, TypeOK, Job
<1>5. NewRun(p, j).of = j /\ NewRun(p, j).at = p /\ NewRun(p, j).pc = "loop"
      /\ NewRun(p, j).outputs = job[j].done
  BY DEF NewRun, Restored
<1>6. /\ run'[r] = NewRun(p, j) /\ \A q \in Runs \ {r} : run'[q] = run[q]
      /\ job'[j] = y /\ \A i \in Jobs \ {j} : job'[i] = job[i]
  BY <1>1, <1>2 DEF TypeOK
<1>7. r \notin active[p] /\ \A o \in Process \ {p} : active'[o] = active[o] /\ r \notin active[o]
  BY <1>1 DEF TypeOK, NoRun
<1>8. TypeOK'
  <2>1. run' \in [Runs -> Run \union Deciding \union {NoRun}]
    BY <1>1, <1>4 DEF TypeOK
  <2>2. job' \in [Jobs -> Job]  BY <1>2, <1>3 DEF TypeOK
  <2>3. active' \in [Process -> SUBSET Runs]  BY <1>1 DEF TypeOK
  <2>4. \A o \in Process : \A q \in active'[o] : run'[q].at = o
    <3> SUFFICES ASSUME NEW o \in Process, NEW q \in active'[o] PROVE run'[q].at = o
      OBVIOUS
    <3>1. CASE q = r  BY <1>1, <1>5, <1>6, <1>7, <3>1 DEF TypeOK
    <3>2. CASE q # r
      <4>1. q \in active[o]  BY <1>1, <1>7, <3>2 DEF TypeOK
      <4> QED  BY <1>6, <3>2, <4>1 DEF TypeOK
    <3> QED  BY <3>1, <3>2
  <2>5. ApprovalsTypeOK'  BY <1>1 DEF TypeOK, ApprovalsTypeOK, approvals
  <2> QED  BY <1>1, <2>1, <2>2, <2>3, <2>4, <2>5 DEF TypeOK
<1>9. \A q \in Runs : Live(q) /\ ~unbeaten[run[q].of] => run[q].of # j
  BY <1>1 DEF Tended, Kept
<1>10. Tended'
  <2> SUFFICES ASSUME NEW q \in Runs, run'[q] # NoRun, ~unbeaten[run'[q].of]
               PROVE  RunsOf(run[q].of)' = {q} /\ Kept(q)'
    BY <1>1 DEF Tended, Live, RunsOf
  <2>1. CASE q = r
    <3>1. \A o \in Runs : run'[o] # NoRun /\ run'[o].of = j => o = r
      BY <1>5, <1>6, <1>9, <2>1 DEF Live
    <3>2. RunsOf(run[q].of)' = {q}
      BY <1>5, <1>6, <2>1, <3>1 DEF RunsOf, Live
    <3>3. r \in active'[p]  BY <1>1 DEF TypeOK
    <3> QED  BY <1>1, <1>3, <1>5, <1>6, <2>1, <3>2, <3>3 DEF Kept, Held
  <2>2. CASE q # r
    <3>1. run'[q] = run[q] /\ run[q].of # j /\ run[q].of \in Jobs /\ run[q].at \in Process
      BY <1>6, <1>9, <2>2, Kinds DEF Live, TypeOK
    <3>2. RunsOf(run[q].of) = {q} /\ Kept(q)  BY <3>1 DEF Tended, Live
    <3>3. RunsOf(run[q].of)' = {q}
      BY <1>5, <1>6, <3>1, <3>2 DEF RunsOf, Live
    <3>4. q \in active'[run[q].at]  BY <1>1, <3>1, <3>2 DEF Kept, TypeOK
    <3>5. job'[run[q].of] = job[run[q].of]  BY <1>6, <3>1
    <3>6. Kept(q)'  BY <1>1, <3>1, <3>2, <3>4, <3>5 DEF Kept, Held
    <3> QED  BY <3>3, <3>6
  <2> QED  BY <2>1, <2>2
<1>11. Awaited'
  BY <1>1, <1>6 DEF Awaited, approvals, TypeOK, ApprovalsTypeOK, Approval, NoRun
<1>12. Midway'  BY <1>5, <1>6 DEF Midway
<1>13. SpentOnce'  BY <1>1, SpentStaysOnce
<1> QED  BY <1>8, <1>10, <1>11, <1>12, <1>13

\* A turn returns and its outputs are saved.
LEMMA SaveInv == ASSUME IInv, NEW r \in Runs, Save(r) PROVE IInv'
<1> USE DEF IInv
<1>1. run[r].pc = "turn" /\ run[r] \in Run /\ run[r].outputs + 1 \in 0..Steps
  <2>1. run[r].pc = "turn"  BY DEF Save
  <2>2. run[r] \in Run  BY <2>1, Kinds DEF TypeOK
  <2>3. run[r].outputs \in 0..Steps /\ run[r].outputs < Steps
    BY <2>1, <2>2 DEF Midway, Run
  <2> QED  BY <2>1, <2>2, <2>3
<1> DEFINE j == run[r].of
<1>2. PICK b \in BOOLEAN :
        /\ run' = [run EXCEPT ![r].outputs = @ + 1, ![r].blocked = b, ![r].pc = "loop"]
        /\ job' = [job EXCEPT ![j].done = run[r].outputs + 1, ![j].blocked = b]
  BY DEF Save
<1>3. UNCHANGED <<approvals, cancelling, mode, active, restarts, unbeaten, raced>>
  BY DEF Save
<1>4. j \in Jobs /\ run[r].at \in Process  BY <1>1 DEF Run
<1> DEFINE x == [run[r] EXCEPT !.outputs = @ + 1, !.blocked = b, !.pc = "loop"]
           y == [job[j] EXCEPT !.done = run[r].outputs + 1, !.blocked = b]
<1>5. run' = [run EXCEPT ![r] = x]  BY <1>2 DEF TypeOK
<1>6. job' = [job EXCEPT ![j] = y]  BY <1>2, <1>4 DEF TypeOK
<1>7. x \in Run /\ x.of = j /\ x.at = run[r].at /\ x.pc = "loop"
      /\ x.outputs = run[r].outputs + 1
  BY <1>1 DEF Run
<1>8. y \in Job /\ y.status = job[j].status /\ y.owner = job[j].owner
      /\ y.beat = job[j].beat /\ y.done = run[r].outputs + 1
  <2>1. job[j] \in Job  BY <1>4 DEF TypeOK
  <2> QED  BY <1>1, <2>1 DEF Job
<1> HIDE DEF x, y
<1>9. /\ run'[r] = x /\ \A q \in Runs \ {r} : run'[q] = run[q]
      /\ job'[j] = y /\ \A i \in Jobs \ {j} : job'[i] = job[i]
  BY <1>4, <1>5, <1>6 DEF TypeOK
<1>10. TypeOK'
  <2>1. run' \in [Runs -> Run \union Deciding \union {NoRun}]
    BY <1>5, <1>7 DEF TypeOK
  <2>2. job' \in [Jobs -> Job]  BY <1>6, <1>8 DEF TypeOK
  <2>3. \A o \in Process : \A q \in active'[o] : run'[q].at = o
    BY <1>3, <1>7, <1>9 DEF TypeOK
  <2>4. ApprovalsTypeOK'  BY <1>3 DEF TypeOK, ApprovalsTypeOK, approvals
  <2> QED  BY <1>3, <2>1, <2>2, <2>3, <2>4 DEF TypeOK
<1>11. x # NoRun /\ run[r] # NoRun  BY <1>1, <1>7, Kinds
<1>12. ASSUME NEW q \in Runs, run'[q] # NoRun, RunsOf(run[q].of) = {q}, Kept(q)
       PROVE  Kept(q)'
  <2>1. CASE q = r
    BY <1>3, <1>7, <1>8, <1>9, <1>12, <2>1 DEF Kept, Held
  <2>2. CASE q # r
    <3>1. run'[q] = run[q] /\ run[q].of \in Jobs
      BY <1>9, <1>12, <2>2, Kinds DEF TypeOK
    <3>2. run[q].of # j  BY <1>11, <1>12, <2>2 DEF RunsOf, Live
    <3> QED  BY <1>3, <1>9, <1>12, <3>1, <3>2 DEF Kept, Held
  <2> QED  BY <2>1, <2>2
<1>13. Tended'  BY <1>3, <1>7, <1>9, <1>11, <1>12, TendedKeeps
<1>14. Awaited'
  BY <1>1, <1>3, <1>9 DEF Awaited, approvals, TypeOK, ApprovalsTypeOK, Approval
<1>15. Midway'  BY <1>7, <1>9 DEF Midway
<1>16. SpentOnce'  BY <1>3, SpentStaysOnce
<1> QED  BY <1>10, <1>13, <1>14, <1>15, <1>16

\* The outcome is written and the run is over.
LEMMA WriteInv == ASSUME IInv, NEW r \in Runs, Write(r) PROVE IInv'
<1> USE DEF IInv
<1> DEFINE j == run[r].of
           s == run[r].verdict
<1>1. /\ run[r].pc = "write" /\ SetStatus(j, s)
      /\ run' = [run EXCEPT ![r] = NoRun]
      /\ active' = [active EXCEPT ![run[r].at] = @ \ Entry(r)]
      /\ Abandon({r})
      /\ UNCHANGED <<cancelling, mode, restarts, unbeaten, raced>>
  BY DEF Write
<1>2. run[r] \in Deciding  BY <1>1, Kinds DEF TypeOK
<1>3. j \in Jobs /\ run[r].at \in Process /\ s \in Ended /\ s \in Status
  BY <1>2 DEF Deciding, Status
<1>4. /\ job' \in [Jobs -> Job]
      /\ \A i \in Jobs \ {j} : job'[i] = job[i]
  <2>1. ASSUME NEW i \in Jobs, NEW t \in Status, SetStatus(i, t)
        PROVE  job' \in [Jobs -> Job] /\ \A o \in Jobs \ {i} : job'[o] = job[o]
    BY <2>1, SetStatusRow
  <2>2. PICK i \in Jobs, t \in Status : i = j /\ t = s  BY <1>3
  <2>3. SetStatus(i, t)  BY <1>1, <2>2 DEF SetStatus
  <2> QED  BY <2>1, <2>2, <2>3
<1>5. r \in Entry(r)  BY DEF Entry
<1>6. run'[r] = NoRun /\ \A q \in Runs \ {r} : run'[q] = run[q]  BY <1>1 DEF TypeOK
<1>7. \A o \in Process : active'[o] \subseteq active[o] /\ r \notin active'[o]
  BY <1>1, <1>3, <1>5 DEF TypeOK
<1>8. ApprovalsTypeOK'  BY <1>1, AbandonPending DEF TypeOK
<1>9. TypeOK'
  <2>1. active' \in [Process -> SUBSET Runs]  BY <1>1 DEF TypeOK
  <2>2. run' \in [Runs -> Run \union Deciding \union {NoRun}]  BY <1>1 DEF TypeOK
  <2>3. \A o \in Process : \A q \in active'[o] : run'[q].at = o
    BY <1>6, <1>7 DEF TypeOK
  <2> QED  BY <1>1, <1>4, <1>8, <2>1, <2>2, <2>3 DEF TypeOK
<1>10. ASSUME NEW q \in Runs, run'[q] # NoRun, RunsOf(run[q].of) = {q}, Kept(q)
       PROVE  Kept(q)'
  <2>1. q # r /\ run'[q] = run[q] /\ run[q].of \in Jobs /\ run[q].at \in Process
    BY <1>6, <1>10, Kinds DEF TypeOK
  <2>2. run[r] # NoRun  BY <1>2, Kinds
  <2>3. run[q].of # j  BY <1>10, <2>1, <2>2 DEF RunsOf, Live
  <2>4. q \notin Entry(r)  BY <2>1, <2>3 DEF Entry
  <2>5. q \in active'[run[q].at]  BY <1>1, <1>3, <1>10, <2>1, <2>4 DEF TypeOK, Kept
  <2> QED  BY <1>1, <1>4, <1>10, <2>1, <2>3, <2>5 DEF Kept, Held
<1>11. Tended'  BY <1>1, <1>6, <1>10, TendedKeeps
<1>12. Awaited'  BY <1>1, <1>6, AwaitedAfterAbandon DEF TypeOK
<1>13. Midway'  BY <1>6 DEF Midway, NoRun
<1>14. SpentOnce'  BY <1>1, SpentStaysOnce
<1> QED  BY <1>9, <1>11, <1>12, <1>13, <1>14

LEMMA ExpireInv == ASSUME IInv, NEW k, Expire(k), UNCHANGED scene PROVE IInv'
<1> USE DEF IInv
<1>1. ApprovalsTypeOK'  BY DEF Expire, TypeOK, ApprovalsTypeOK
<1>2. TypeOK'  BY <1>1 DEF TypeOK, scene
<1>3. Tended'  BY DEF Tended, Kept, Live, RunsOf, Held, scene
<1>4. Awaited' /\ Midway'  BY DEF Awaited, Midway, Expire, scene
<1>5. SpentOnce'  BY SpentStaysOnce
<1> QED  BY <1>2, <1>3, <1>4, <1>5

-----------------------------------------------------------------------------
LEMMA InitInv == Init => IInv
<1> SUFFICES ASSUME Init PROVE IInv
  OBVIOUS
<1> USE DEF Init, ApprovalsInit
<1>1. ApprovalsTypeOK  BY DEF ApprovalsTypeOK
<1>2. TypeOK  BY <1>1 DEF TypeOK, Job, Status
<1>3. Tended /\ Midway  BY DEF Tended, Live, Midway, NoRun
<1>4. Awaited /\ SpentOnce  BY DEF Awaited, SpentOnce, GrantReusedOnce
<1> QED  BY <1>2, <1>3, <1>4 DEF IInv

LEMMA StepInv == IInv /\ [Next]_vars => IInv'
<1> SUFFICES ASSUME IInv, [Next]_vars PROVE IInv'
  OBVIOUS
<1>1. CASE UNCHANGED vars
  <2>1. UNCHANGED approvals /\ UNCHANGED scene  BY <1>1 DEF vars
  <2>2. TypeOK'  BY <2>1 DEF IInv, TypeOK, ApprovalsTypeOK, approvals, scene
  <2>3. Tended'  BY <2>1 DEF IInv, Tended, Kept, Live, RunsOf, Held, scene
  <2>4. Awaited' /\ Midway'  BY <2>1 DEF IInv, Awaited, Midway, approvals, scene
  <2>5. SpentOnce'  BY <2>1, SpentStaysOnce DEF IInv
  <2> QED  BY <2>2, <2>3, <2>4, <2>5 DEF IInv
<1>2. ASSUME NEW j \in Jobs, \/ Create(j) \/ ReadToCancel(j) \/ WriteCancel(j)
                             \/ Delete(j) \/ Lapse(j) \/ Pause(j)
      PROVE  IInv'
  BY <1>2, CreateInv, ReadToCancelInv, WriteCancelInv, DeleteInv, LapseInv
<1>3. ASSUME NEW p \in Process, \/ Start(p) \/ Monitor(p) \/ Stop(p) \/ Exit(p) \/ Crash(p)
      PROVE  IInv'
  BY <1>3, StartInv, MonitorInv, StopInv, GoneInv DEF Exit, Crash
<1>4. ASSUME NEW p \in Process, NEW r \in Runs, NEW j \in Jobs, Claim(p, r, j)
      PROVE  IInv'
  BY <1>4, ClaimInv
<1>5. ASSUME NEW p \in Process, NEW a \in pending[p], Answer(p, a) \/ TimeOut(p, a)
      PROVE  IInv'
  BY <1>5, AnswerInv
<1>6. ASSUME NEW r \in Runs, RunStep(r) \/ Ask(r) \/ TurnTimeout(r)
      PROVE  IInv'
  BY <1>6, NextStepInv, SaveInv, DecidesInv, WriteInv, AskInv, TurnTimeoutInv DEF RunStep
<1>7. ASSUME NEW k \in Keys, Expire(k), UNCHANGED scene PROVE IInv'
  BY <1>7, ExpireInv
<1> QED  BY <1>1, <1>2, <1>3, <1>4, <1>5, <1>6, <1>7 DEF Next

\* The invariant, for any jobs, workers, runs and steps.
THEOREM SceneInvariant == Spec => []IInv
BY InitInv, StepInv, PTL DEF Spec

(* A live run is the only run of its job and its worker watches over it,   *)
(* unless that worker stopped beating under a run.                         *)
THEOREM EveryRunAttended == Spec => []SceneInv
<1>1. IInv => SceneInv
  BY DEF IInv, SceneInv, Tended, Kept, Attended
<1> QED  BY <1>1, SceneInvariant, PTL

(* A job has one run at a time, unless its worker stopped beating under a  *)
(* run.                                                                    *)
THEOREM OneRunOfEachJob == Spec => []OneRun
<1>1. IInv => OneRun
  <2> SUFFICES ASSUME IInv, NEW j \in Jobs, ~unbeaten[j]
               PROVE  Cardinality(RunsOf(j)) <= 1
    BY DEF OneRun
  <2>1. CASE RunsOf(j) = {}  BY <2>1, FS_EmptySet
  <2>2. CASE RunsOf(j) # {}
    <3>1. PICK r \in Runs : Live(r) /\ run[r].of = j  BY <2>2 DEF RunsOf
    <3>2. RunsOf(j) = {r}  BY <3>1 DEF IInv, Tended
    <3> QED  BY <3>2, FS_Singleton
  <2> QED  BY <2>1, <2>2
<1> QED  BY <1>1, SceneInvariant, PTL

(* A grant answers one repeated call, whatever crashes and starts again.   *)
THEOREM GrantsReusedOnce == Spec => []GrantReusedOnce
<1>1. IInv => GrantReusedOnce  BY DEF IInv, SpentOnce
<1> QED  BY <1>1, SceneInvariant, PTL

-----------------------------------------------------------------------------
(* Two properties of steps.                                                *)

\* What becomes of the rows in a step.
LEMMA RowSteps ==
  ASSUME IInv, [Next]_vars, NEW j \in Jobs
  PROVE  \/ job'[j] = job[j]
         \/ \E s \in Status : SetStatus(j, s) /\ job[j].status = "new"
         \/ WriteCancel(j)
         \/ Delete(j)
         \/ job'[j].done = job[j].done /\ job'[j].status = job[j].status
         \/ job'[j].done = job[j].done /\ job[j].status \notin Ended
         \/ \E r \in RunsOf(j) : Save(r)
         \/ \E r \in RunsOf(j) : Write(r)
<1> USE DEF IInv
<1>1. CASE UNCHANGED job  BY <1>1
<1>2. ASSUME NEW i \in Jobs, \/ Create(i) \/ ReadToCancel(i) \/ WriteCancel(i)
                             \/ Delete(i) \/ Lapse(i) \/ Pause(i),
             job'[j] # job[j]
      PROVE  \/ \E s \in Status : SetStatus(j, s) /\ job[j].status = "new"
             \/ WriteCancel(j) \/ Delete(j)
             \/ job'[j].done = job[j].done /\ job'[j].status = job[j].status
  <2>1. i = j
    BY <1>2 DEF Create, ReadToCancel, WriteCancel, Delete, Lapse, Pause, SetStatus, TypeOK
  <2>2. CASE Create(j)
    BY <2>2 DEF Create, SetStatus, TypeOK, Status
  <2>3. CASE Lapse(j) \/ Pause(j)
    <3>1. job[j] \in Job  BY DEF TypeOK
    <3>2. job'[j] = [job[j] EXCEPT !.beat = "stale"]
      BY <2>3 DEF Lapse, Pause, TypeOK
    <3> QED  BY <3>1, <3>2, RowBeat
  <2> QED  BY <1>2, <2>1, <2>2, <2>3 DEF ReadToCancel
<1>3. ASSUME NEW p \in Process, Start(p) \/ Monitor(p)
      PROVE  \/ job'[j].done = job[j].done /\ job'[j].status = job[j].status
             \/ job'[j].done = job[j].done /\ job[j].status \notin Ended
  <2>1. job'[j].done = Recovered[j].done /\ job'[j].status = Recovered[j].status
    <3>1. Recovered[j] \in Job  BY RecoveredRow
    <3>2. job'[j] \in {Recovered[j], [Recovered[j] EXCEPT !.beat = "fresh"]}
      BY <1>3 DEF Start, Monitor
    <3> QED  BY <3>1, <3>2, RowBeat
  <2>2. Stale(j) => job[j].status \notin Ended  BY DEF Stale, Held, Ended
  <2> QED  BY <2>1, <2>2, RecoveredRow
<1>4. ASSUME NEW p \in Process, Stop(p) \/ Exit(p) \/ Crash(p)
      PROVE  UNCHANGED job
  BY <1>4 DEF Stop, Exit, Crash, Gone
<1>5. ASSUME NEW p \in Process, NEW r \in Runs, NEW i \in Jobs, Claim(p, r, i),
             job'[j] # job[j]
      PROVE  job'[j].done = job[j].done /\ job[j].status \notin Ended
  <2>1. i = j  BY <1>5 DEF Claim, TypeOK
  <2>2. job[j] \in Job  BY DEF TypeOK
  <2>3. job'[j] = [job[j] EXCEPT !.status = "running", !.owner = p, !.beat = "fresh"]
    BY <1>5, <2>1 DEF Claim, TypeOK
  <2>4. job'[j].done = job[j].done  BY <2>2, <2>3 DEF Job
  <2> QED  BY <1>5, <2>1, <2>4 DEF Claim, Oldest, Ended
<1>6. ASSUME NEW p \in Process, NEW a \in pending[p], Answer(p, a) \/ TimeOut(p, a)
      PROVE  UNCHANGED job
  BY <1>6 DEF Answer, TimeOut, RunOnly
<1>7. ASSUME NEW r \in Runs, RunStep(r) \/ Ask(r) \/ TurnTimeout(r), job'[j] # job[j]
      PROVE  r \in RunsOf(j) /\ (Save(r) \/ Write(r))
  <2>1. Save(r) \/ Write(r)
    BY <1>7 DEF RunStep, NextStep, Finish, Throw, Decide, Ask, TurnTimeout, RunOnly
  <2>2. run[r] # NoRun
    <3>1. run[r].pc \in {"turn", "write"}  BY <2>1 DEF Save, Write
    <3> QED  BY <3>1 DEF NoRun
  <2>3. run[r].of = j
    BY <1>7, <2>1 DEF Save, Write, SetStatus, TypeOK
  <2> QED  BY <2>1, <2>2, <2>3 DEF RunsOf, Live
<1>8. ASSUME NEW k, UNCHANGED scene PROVE UNCHANGED job
  BY <1>8 DEF scene
<1>9. CASE UNCHANGED vars  BY <1>9 DEF vars, scene
<1> QED  BY <1>1, <1>2, <1>3, <1>4, <1>5, <1>6, <1>7, <1>8, <1>9 DEF Next

\* What a job has ended as is changed by nobody who looked, unless its worker
\* stopped beating under a run.
LEMMA OutcomeStep ==
  ASSUME IInv, [Next]_vars, NEW j \in Jobs, ~unbeaten'[j], ~raced'[j],
         job[j].status \in Ended
  PROVE  job'[j].status \in {job[j].status, "gone"}
<1> USE DEF IInv
<1>1. CASE WriteCancel(j)
  <2>1. cancelling[j] \in {"queued", "running"}  BY <1>1 DEF WriteCancel, TypeOK
  <2>2. job[j].status # cancelling[j]  BY <2>1 DEF Ended
  <2>3. raced'[j]  BY <1>1, <2>2 DEF WriteCancel, TypeOK
  <2> QED  BY <2>3
<1>2. CASE Delete(j)
  <2>1. SetStatus(j, "gone")  BY <1>2 DEF Delete, SetStatus, Ended, TypeOK
  <2> QED  BY <2>1, SetStatusRow DEF Status
<1>3. ASSUME NEW r \in RunsOf(j), Save(r)
      PROVE  job'[j].status = job[j].status
  <2>1. PICK b \in BOOLEAN :
          job' = [job EXCEPT ![j].done = run[r].outputs + 1, ![j].blocked = b]
    BY <1>3 DEF Save, RunsOf
  <2>2. job[j] \in Job  BY DEF TypeOK
  <2>3. job'[j] = [job[j] EXCEPT !.done = run[r].outputs + 1, !.blocked = b]
    BY <2>1 DEF TypeOK
  <2> QED  BY <2>2, <2>3 DEF Job
<1>4. ASSUME NEW r \in RunsOf(j), Write(r) PROVE FALSE
  <2>1. r \in Runs /\ Live(r) /\ run[r].of = j  BY DEF RunsOf
  <2>2. unbeaten' = unbeaten /\ raced' = raced  BY <1>4 DEF Write
  <2>3. Kept(r)  BY <2>1, <2>2 DEF Tended
  <2> QED  BY <2>1, <2>2, <2>3 DEF Kept, Held, Ended
<1> QED  BY <1>1, <1>2, <1>3, <1>4, RowSteps DEF Ended

\* Saved outputs stay, and a run works on the step behind them.
LEMMA SavedStep ==
  ASSUME IInv, [Next]_vars, NEW j \in Jobs, ~unbeaten'[j]
  PROVE  /\ job'[j].done >= job[j].done
         /\ \A r \in RunsOf(j) : run[r].pc = "turn" => run[r].outputs = job[j].done
<1> USE DEF IInv
<1>1. ~unbeaten[j]
  <2>1. \A i \in Jobs : unbeaten[i] => unbeaten'[i]
    BY DEF Next, Create, ReadToCancel, WriteCancel, Delete, Lapse, Pause, Start, Monitor,
           Stop, Exit, Crash, Gone, Claim, Answer, TimeOut, RunOnly, RunStep, NextStep,
           Save, Finish, Throw, Decide, Write, Ask, TurnTimeout, scene, vars, TypeOK
  <2> QED  BY <2>1
<1>2. \A r \in RunsOf(j) : Kept(r) /\ r \in Runs /\ run[r].of = j
  BY <1>1 DEF Tended, RunsOf
<1>3. \A r \in RunsOf(j) : run[r].pc = "turn" => run[r].outputs = job[j].done
  BY <1>2 DEF Kept
<1>4. job[j].done \in Nat  BY DEF TypeOK, Job
<1>5. job'[j].done >= job[j].done
  <2>1. ASSUME NEW s \in Status, SetStatus(j, s) PROVE job'[j].done = job[j].done
    BY <2>1, SetStatusRow
  <2>2. CASE WriteCancel(j)
    <3>1. PICK s \in Status : SetStatus(j, s)  BY <2>2 DEF WriteCancel, Status, Ended
    <3> QED  BY <1>4, <2>1, <3>1
  <2>3. CASE Delete(j)
    <3>1. SetStatus(j, "gone")  BY <2>3 DEF Delete, SetStatus, Ended, TypeOK
    <3> QED  BY <1>4, <2>1, <3>1 DEF Status
  <2>4. ASSUME NEW r \in RunsOf(j), Save(r) PROVE job'[j].done = job[j].done + 1
    <3>1. PICK b \in BOOLEAN :
            job' = [job EXCEPT ![j].done = run[r].outputs + 1, ![j].blocked = b]
      BY <2>4 DEF Save, RunsOf
    <3>2. job[j] \in Job  BY DEF TypeOK
    <3>3. job'[j] = [job[j] EXCEPT !.done = run[r].outputs + 1, !.blocked = b]
      BY <3>1 DEF TypeOK
    <3>4. run[r].outputs = job[j].done  BY <1>3, <2>4 DEF Save
    <3> QED  BY <3>2, <3>3, <3>4 DEF Job
  <2>5. ASSUME NEW r \in RunsOf(j), Write(r) PROVE job'[j].done = job[j].done
    <3>1. r \in Runs /\ run[r].of = j /\ run[r].pc = "write"
      BY <2>5 DEF RunsOf, Write
    <3>2. run[r] \in Deciding  BY <3>1, Kinds DEF TypeOK
    <3>3. PICK s \in Status : s = run[r].verdict  BY <3>2 DEF Deciding, Status
    <3>4. SetStatus(j, s)  BY <2>5, <3>1, <3>3 DEF Write, SetStatus
    <3> QED  BY <2>1, <3>4
  <2> QED  BY <1>4, <2>1, <2>2, <2>3, <2>4, <2>5, RowSteps
<1> QED  BY <1>3, <1>5

(* No outcome changes, unless the worker stopped beating under a run or a  *)
(* cancellation wrote over a status it had not read.                       *)
THEOREM OutcomesStand == Spec => OutcomeStands
<1>1. IInv /\ [Next]_vars =>
        [\A j \in Jobs : \/ unbeaten'[j] \/ raced'[j]
                         \/ job[j].status \in Ended
                              => job'[j].status \in {job[j].status, "gone"}]_vars
  BY OutcomeStep
<1> QED  BY <1>1, SceneInvariant, PTL DEF Spec, OutcomeStands

(* No saved output is lost and no saved step is run again, unless the      *)
(* worker stopped beating under a run.                                     *)
THEOREM SavedStepsStay == Spec => SavedStaysDone
<1>1. IInv /\ [Next]_vars =>
        [\A j \in Jobs : unbeaten'[j] \/
           /\ job'[j].done >= job[j].done
           /\ \A r \in RunsOf(j) : run[r].pc = "turn" => run[r].outputs = job[j].done]_vars
  BY SavedStep
<1> QED  BY <1>1, SceneInvariant, PTL DEF Spec, SavedStaysDone
=============================================================================
