---------------------------- MODULE TaskOwnership ----------------------------
(***************************************************************************)
(* What a fenced task lease promises, with the store, the heartbeats and   *)
(* the workers left out (ADR-002): one task is owned in epochs that only   *)
(* grow; whoever holds it holds the newest epoch; a result is accepted     *)
(* from the holder only.  A task nobody holds may be claimed anew or taken *)
(* back by the newest epoch, never by an older one.                        *)
(* TaskLease implements it: see TaskLease!Ownership and TaskLeaseProofs.   *)
(***************************************************************************)
EXTENDS Naturals

VARIABLES
  epoch,     \* the newest epoch handed out, 0 before the first
  holder,    \* the epoch holding the task, 0 when nobody does
  accepted   \* the epoch of the durable result, 0 when there is none

ownership == <<epoch, holder, accepted>>

OwnershipInit == epoch = 0 /\ holder = 0 /\ accepted = 0

\* A contender takes a task nobody holds: a new epoch begins.
Claim ==
  /\ holder = 0
  /\ epoch' = epoch + 1
  /\ holder' = epoch + 1
  /\ UNCHANGED accepted

\* The holder releases the task, or its lease runs out.
Vacate ==
  /\ holder' = 0
  /\ UNCHANGED <<epoch, accepted>>

\* The last owner takes a task back that nobody claimed since.
TakeBack ==
  /\ holder = 0
  /\ epoch > 0
  /\ holder' = epoch
  /\ UNCHANGED <<epoch, accepted>>

\* The holder's result becomes the durable one.
Accept ==
  /\ holder > 0
  /\ accepted' = holder
  /\ UNCHANGED <<epoch, holder>>

\* The durable result outlives its retention.
Forget ==
  /\ accepted' = 0
  /\ UNCHANGED <<epoch, holder>>

OwnershipNext == Claim \/ Vacate \/ TakeBack \/ Accept \/ Forget

OwnershipSpec == OwnershipInit /\ [][OwnershipNext]_ownership

=============================================================================
