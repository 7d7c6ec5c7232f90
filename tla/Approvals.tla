------------------------------ MODULE Approvals ------------------------------
(***************************************************************************)
(* Approvals a gated tool call waits for, and the durable cache of grants  *)
(* (packages/core/src/approval/).                                          *)
(*                                                                         *)
(* A pending approval lives in the memory of one process, with a timer     *)
(* that denies it.  A grant is also written to a file, so that a run that  *)
(* is repeated after a restart need not ask again: the file is used once,  *)
(* and only by a process that has not decided the same key itself.         *)
(*                                                                         *)
(* The operators are parts of the actions of the module that EXTENDS this  *)
(* one, each for the process p, the key k (job, step, tool and arguments)  *)
(* and the waiter w (the run whose promise it is).                         *)
(***************************************************************************)
EXTENDS FiniteSets, Naturals

CONSTANTS
  Process,  \* processes with a scene worker
  Keys,     \* idempotency keys of gated calls
  Waiters,  \* runs that may wait for an approval
  NoOne     \* nobody

VARIABLES
  pending,   \* [p] open approvals: which key, and who waits
  resolved,  \* [p] keys decided or reused by this process
  granted,   \* keys whose grant is in a file
  spent,     \* history: keys whose grant has been reused and whose file was deleted
  overspent  \* history: keys whose grant was reused again after that

approvals == <<pending, resolved, granted, spent, overspent>>

Approval == [key : Keys, waiter : Waiters \union {NoOne}]

ApprovalsTypeOK ==
  /\ pending \in [Process -> SUBSET Approval]
  /\ resolved \in [Process -> SUBSET Keys]
  /\ granted \subseteq Keys
  /\ spent \subseteq Keys
  /\ overspent \subseteq Keys

ApprovalsInit ==
  /\ pending = [p \in Process |-> {}]
  /\ resolved = [p \in Process |-> {}]
  /\ granted = {}
  /\ spent = {}
  /\ overspent = {}

------------------------------------------------------------------------------
(* Asking: requestApprovalViaChannel, lookupApprovalDecision *)

\* The lookup finds a grant of an earlier process.
Cached(p, k) == k \notin resolved[p] /\ k \in granted

\* Mutant: the file is not deleted.
ConsumeMarksOnly(p, k) ==
  /\ resolved' = [resolved EXCEPT ![p] = @ \union {k}]
  /\ overspent' = overspent \union ({k} \intersect spent)
  /\ spent' = spent \union {k}
  /\ UNCHANGED <<pending, granted>>

\* The lookup marks the key and deletes the file; a deletion that fails is
\* ignored.  All its file calls are synchronous.
Consume(p, k) ==
  /\ resolved' = [resolved EXCEPT ![p] = @ \union {k}]
  /\ overspent' = overspent \union ({k} \intersect spent)
  /\ \/ granted' = granted \ {k} /\ spent' = spent \union {k}
     \/ UNCHANGED <<granted, spent>>
  /\ UNCHANGED pending

\* A fresh prompt with a timer.
Prompt(p, k, w) ==
  /\ pending' = [pending EXCEPT ![p] = @ \union {[key |-> k, waiter |-> w]}]
  /\ UNCHANGED <<resolved, granted, spent, overspent>>

------------------------------------------------------------------------------
(* Deciding: resolveApproval, the timer, the sweep *)

Closed(p, a) == pending' = [pending EXCEPT ![p] = @ \ {a}]

\* A grant is marked and written; writing may fail, which is ignored.
Grant(p, a) ==
  /\ Closed(p, a)
  /\ resolved' = [resolved EXCEPT ![p] = @ \union {a.key}]
  /\ \/ UNCHANGED <<granted, spent>>
     \/ granted' = granted \union {a.key} /\ spent' = spent \ {a.key}
  /\ UNCHANGED overspent

\* A denial and a timeout leave nothing behind, and no earlier grant is removed.
Deny(p, a) == Closed(p, a) /\ UNCHANGED <<resolved, granted, spent, overspent>>

\* The runs in S stop waiting (their signal is aborted); the approvals stay open.
Abandon(S) ==
  /\ pending' = [p \in Process |->
       {IF a.waiter \in S THEN [a EXCEPT !.waiter = NoOne] ELSE a : a \in pending[p]}]
  /\ UNCHANGED <<resolved, granted, spent, overspent>>

\* A grant is a day old and pruned or ignored.
Expire(k) ==
  /\ k \in granted
  /\ granted' = granted \ {k}
  /\ UNCHANGED <<pending, resolved, spent, overspent>>

\* The process ends and with it everything but the files.
Forget(p) ==
  /\ pending' = [pending EXCEPT ![p] = {}]
  /\ resolved' = [resolved EXCEPT ![p] = {}]
  /\ UNCHANGED <<granted, spent, overspent>>

=============================================================================
