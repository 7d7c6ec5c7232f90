---------------------------- MODULE TurnSteering ----------------------------
(***************************************************************************)
(* agent/turn-steering.ts: what a person adds while a turn is running.     *)
(* One root session.  Messages are queued for the turn that owns the root  *)
(* and drained by it; a turn that loses the root keeps what it had queued  *)
(* until it closes.  Resets and rewinds of the history, the caps of the    *)
(* maps and a message's retries are left out.                              *)
(***************************************************************************)
EXTENDS TurnIds, FiniteSets

CONSTANT Messages

VARIABLES
    owner,      \* the turn that owns the root, or NoTurn
    held,       \* of each turn: its queue, displaced or not
    unread,     \* leftovers kept for the session's next reader
    folded,     \* messages a turn drained into its conversation
    handed      \* how often each message was handed back to a page

steering == <<owner, held, unread, folded, handed>>

SteeringInit ==
    /\ owner = NoTurn
    /\ held = [t \in Turns |-> {}]
    /\ unread = {}
    /\ folded = {}
    /\ handed = [m \in Messages |-> 0]

HandBack(ms) ==
    handed' = [m \in Messages |-> IF m \in ms THEN handed[m] + 1 ELSE handed[m]]

\* Mutant: the queue of the turn that loses the root is dropped.
ArmDrops(t) ==
    /\ owner' = t
    /\ held' = IF owner = NoTurn THEN held ELSE [held EXCEPT ![owner] = {}]
    /\ HandBack(unread)
    /\ unread' = {}
    /\ UNCHANGED folded

\* armTurn, takeRoot: a new turn takes the root.  The queue of the one before
\* is displaced and stays that turn's; what was unread goes to the sender.
Arm(t) ==
    /\ owner' = t
    /\ HandBack(unread)
    /\ unread' = {}
    /\ UNCHANGED <<held, folded>>

\* enqueue: only while a turn owns the root.
Enqueue(m) ==
    /\ owner # NoTurn
    /\ held' = [held EXCEPT ![owner] = @ \cup {m}]
    /\ UNCHANGED <<owner, unread, folded, handed>>

\* drain, by the token of turn t.
Drain(t) ==
    /\ owner = t
    /\ held[t] # {}
    /\ folded' = folded \cup held[t]
    /\ held' = [held EXCEPT ![t] = {}]
    /\ UNCHANGED <<owner, unread, handed>>

\* closeTurn: the turn gives back what it never drained.  A turn that lost
\* the root leaves its successor the owner.
CloseTurn(t) ==
    /\ held' = [held EXCEPT ![t] = {}]
    /\ owner' = IF owner = t THEN NoTurn ELSE owner

\* The final status of a turn takes its leftovers to the page that started
\* it, or, when that page is gone, keepUnread keeps them for the session.
SendLeftovers(ms) ==
    \/ HandBack(ms) /\ UNCHANGED unread
    \/ ms # {} /\ unread' = unread \cup ms /\ UNCHANGED handed
=============================================================================
