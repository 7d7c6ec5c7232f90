------------------------------ MODULE UserInput ------------------------------
(***************************************************************************)
(* agent/user-input-broker.ts: the questions tools of a turn put to the    *)
(* person.  A question is opened after its payload was built; it is        *)
(* answered, runs out, or is closed with its turn.  Who may answer, what a *)
(* valid answer is, session preferences and the holding of a deadline are  *)
(* left out.                                                               *)
(***************************************************************************)
EXTENDS TurnIds, FiniteSets

CONSTANT Questions

VARIABLES
    open,       \* turns that may ask (turns)
    stopped,    \* those of them that a Stop winds down
    remembered, \* turns closed by an abort (abortedTurns)
    question,   \* of each question: where it is, its turn, its tool's signal
    misled      \* history: questions of an aborted turn answered "auto"

broker == <<open, stopped, remembered, question, misled>>

NoQuestion == [at |-> "none", turn |-> NoTurn, signalled |-> FALSE]

BrokerInit ==
    /\ open = {}
    /\ stopped = {}
    /\ remembered = {}
    /\ question = [q \in Questions |-> NoQuestion]
    /\ misled = {}

\* The open questions among qs are settled as cancelled.
Settled(qs) ==
    [q \in Questions |->
        IF q \in qs /\ question[q].at = "open"
        THEN [question[q] EXCEPT !.at = "cancelled"] ELSE question[q]]

Of(ts) == {q \in Questions : question[q].turn \in ts}

\* closeTurn of the turns ts, then openTurn of those opened: what a closed
\* turn has open is settled, no more is accepted, and an abort is remembered
\* if it is the call that closes the turn.
CloseInput(ts, abort, opened) ==
    /\ question' = Settled(Of(ts))
    /\ open' = (open \ ts) \cup opened
    /\ stopped' = stopped \ ts
    /\ remembered' = IF abort THEN remembered \cup (open \cap ts) ELSE remembered
    /\ UNCHANGED misled

\* stopRoot: a Stop of the session.
StopRoot ==
    /\ question' = Settled(Questions)
    /\ stopped' = open
    /\ UNCHANGED <<open, remembered, misled>>

\* The signals of the turns ts are aborted: their questions that listen to
\* it are settled.
SignalAborted(ts) ==
    /\ question' = Settled({q \in Of(ts) : question[q].signalled})
    /\ UNCHANGED <<open, stopped, remembered, misled>>

\* request, up to the building of the payload.  dead: the run's signal is
\* aborted; gone: the gateway ended the turn by an abort.
Ask(q, t, signalled, dead, gone) ==
    /\ question[q].at = "none"
    /\ \E at \in {IF signalled /\ dead THEN "cancelled"
                  ELSE IF t \notin open
                       THEN IF t \in remembered THEN "cancelled" ELSE "auto"
                       ELSE IF t \in stopped THEN "cancelled" ELSE "building"} :
        /\ question' = [question EXCEPT ![q] =
                          [at |-> at, turn |-> t, signalled |-> signalled]]
        /\ misled' = IF at = "auto" /\ gone THEN misled \cup {q} ELSE misled
    /\ UNCHANGED <<open, stopped, remembered>>

\* Mutant: what was true before the payload was built is not checked again.
ShowUnchecked(q, dead) ==
    /\ question[q].at = "building"
    /\ question' = [question EXCEPT ![q].at = "open"]
    /\ UNCHANGED <<open, stopped, remembered, misled>>

\* request, once its payload was built.
Show(q, dead) ==
    /\ question[q].at = "building"
    /\ LET x == question[q]
           closed == x.turn \in stopped \/ x.turn \notin open
       IN  question' = [question EXCEPT ![q].at =
             IF closed \/ (x.signalled /\ dead) THEN "cancelled" ELSE "open"]
    /\ UNCHANGED <<open, stopped, remembered, misled>>

\* request, whose payload failed to build: it is answered "auto", and whether
\* the turn goes on is not looked at again.
FailToShow(q, gone) ==
    /\ question[q].at = "building"
    /\ question' = [question EXCEPT ![q].at = "unbuilt"]
    /\ misled' = IF gone THEN misled \cup {q} ELSE misled
    /\ UNCHANGED <<open, stopped, remembered>>

\* respond, with a valid answer or the person's own skip.
Respond(q) ==
    /\ question[q].at = "open"
    /\ question' = [question EXCEPT ![q].at = "answered"]
    /\ UNCHANGED <<open, stopped, remembered, misled>>

\* expire: nobody answered in time.
Expire(q, gone) ==
    /\ question[q].at = "open"
    /\ question' = [question EXCEPT ![q].at = "auto"]
    /\ misled' = IF gone THEN misled \cup {q} ELSE misled
    /\ UNCHANGED <<open, stopped, remembered>>
=============================================================================
