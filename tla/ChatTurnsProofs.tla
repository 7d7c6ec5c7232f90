--------------------------- MODULE ChatTurnsProofs ---------------------------
(***************************************************************************)
(* Proofs about ChatTurns, for any number of turns, steering messages,     *)
(* questions and stop commands, and any bound on events.                   *)
(*                                                                         *)
(* What the gateway, the broker and the steering know of a turn agrees     *)
(* (TurnsAgree): a turn may ask exactly while it is live and not aborted,  *)
(* every aborted turn is remembered, and only a live turn owns the root.   *)
(* From that follow the questions, and, with the phases of a turn, the     *)
(* fates of messages (Fate), which are told apart place by place.          *)
(***************************************************************************)
EXTENDS ChatTurns, FiniteSetTheorems, TLAPS

QuestionStates == {"none", "building", "open", "cancelled", "answered", "auto", "unbuilt"}

Types ==
    /\ gw \in [Turns -> {"new", "live", "done"}]
    /\ rt \in [Turns -> {"off", "starting", "running", "closing", "ended"}]
    /\ owner \in Turns \cup {NoTurn}
    /\ registered \in Turns \cup {NoTurn}
    /\ newest \in Turns \cup {NoTurn}
    /\ current \in Turns \cup {NoTurn}
    /\ marker \in Commands \cup {NoCommand}
    /\ held \in [Turns -> SUBSET Messages]
    /\ carry \in [Turns -> SUBSET Messages]
    /\ unread \subseteq Messages
    /\ handed \in [Messages -> Nat]
    /\ sent \subseteq Messages
    /\ aborted \subseteq Turns
    /\ question \in [Questions -> [at : QuestionStates, turn : Turns \cup {NoTurn},
                                  signalled : BOOLEAN]]

\* The gateway's live turn is the session's entry; the broker lets exactly it
\* ask, and remembers those that were aborted; the steering's owner is live.
TurnsAgree ==
    /\ \A t \in Turns : gw[t] = "live" /\ t \notin aborted => current = t
    /\ open = {t \in Turns : gw[t] = "live" /\ t \notin aborted}
    /\ aborted \subseteq remembered
    /\ \A t \in aborted : gw[t] # "new"
    /\ owner # NoTurn => gw[owner] = "live"

-----------------------------------------------------------------------------
(* Types. *)

LEMMA InitTypes == Init => Types
BY DEF Init, Types, SteeringInit, BrokerInit, ControlInit, NoTurn, NoQuestion, QuestionStates

\* The parts of the actions.
LEMMA ArmTypes ==
    ASSUME Types, NEW t \in Turns, Arm(t)
    PROVE  /\ owner' \in Turns \cup {NoTurn}
           /\ held' = held
           /\ unread' \subseteq Messages
           /\ handed' \in [Messages -> Nat]
BY DEF Types, Arm, HandBack

LEMMA CloseTypes ==
    ASSUME Types, NEW t \in Turns, CloseTurn(t)
    PROVE  /\ owner' \in Turns \cup {NoTurn}
           /\ held' \in [Turns -> SUBSET Messages]
BY DEF Types, CloseTurn

LEMMA LeftoverTypes ==
    ASSUME Types, NEW ms, ms \subseteq Messages, SendLeftovers(ms)
    PROVE  /\ unread' \subseteq Messages
           /\ handed' \in [Messages -> Nat]
BY DEF Types, SendLeftovers, HandBack

LEMMA CleanupTypes ==
    ASSUME Types, NEW t \in Turns, Cleanup(t)
    PROVE  /\ gw' \in [Turns -> {"new", "live", "done"}]
           /\ current' \in Turns \cup {NoTurn}
BY DEF Types, Cleanup

\* The broker's and the control plane's own steps.
LEMMA SettledTypes ==
    ASSUME Types, NEW qs
    PROVE  /\ Settled(qs) \in [Questions -> [at : QuestionStates, turn : Turns \cup {NoTurn},
                                             signalled : BOOLEAN]]
           /\ \A q \in Questions : Settled(qs)[q].at = "open" =>
                                   q \notin qs /\ Settled(qs)[q] = question[q]
           /\ \A q \in Questions : question[q].at = "unbuilt" => Settled(qs)[q] = question[q]
BY DEF Types, Settled, QuestionStates

LEMMA BrokerTypes ==
    ASSUME Types,
           \/ \E ts, abort, opened : CloseInput(ts, abort, opened)
           \/ StopRoot
           \/ \E ts : SignalAborted(ts)
           \/ \E q \in Questions, t \in Turns, s \in BOOLEAN : \E dead, gone : Ask(q, t, s, dead, gone)
           \/ \E q \in Questions : \E dead : Show(q, dead)
           \/ \E q \in Questions : \E gone : FailToShow(q, gone)
           \/ \E q \in Questions : Respond(q)
           \/ \E q \in Questions : \E gone : Expire(q, gone)
           \/ UNCHANGED broker
    PROVE  question' \in [Questions -> [at : QuestionStates, turn : Turns \cup {NoTurn},
                                        signalled : BOOLEAN]]
<1>1. CASE (\E ts, abort, opened : CloseInput(ts, abort, opened)) \/ StopRoot
           \/ (\E ts : SignalAborted(ts))
  <2>1. PICK qs : question' = Settled(qs)
    BY <1>1 DEF CloseInput, StopRoot, SignalAborted
  <2> QED  BY <2>1, SettledTypes
<1>2. ASSUME NEW q \in Questions, NEW t \in Turns, NEW s \in BOOLEAN, NEW dead, NEW gone,
             Ask(q, t, s, dead, gone)
      PROVE  question' \in [Questions -> [at : QuestionStates, turn : Turns \cup {NoTurn},
                                          signalled : BOOLEAN]]
  <2>1. PICK at \in QuestionStates :
            question' = [question EXCEPT ![q] = [at |-> at, turn |-> t, signalled |-> s]]
    BY <1>2 DEF Ask, QuestionStates
  <2> QED  BY <2>1 DEF Types
<1>3. CASE (\E q \in Questions : \E dead : Show(q, dead)) \/ (\E q \in Questions : Respond(q))
           \/ (\E q \in Questions : \E gone : Expire(q, gone) \/ FailToShow(q, gone))
  <2>1. PICK q \in Questions, at \in QuestionStates : question' = [question EXCEPT ![q].at = at]
    BY <1>3 DEF Show, FailToShow, Respond, Expire, QuestionStates
  <2> QED  BY <2>1 DEF Types
<1>4. CASE UNCHANGED broker
  BY <1>4 DEF broker, Types
<1> QED  BY <1>1, <1>2, <1>3, <1>4

LEMMA ControlTypes ==
    ASSUME Types,
           \/ \E k \in Commands : Request(k) \/ Issue(k) \/ Deliver(k) \/ Lose(k) \/ Acknowledge(k)
           \/ MarkerExpires
           \/ \E t \in Turns : Consume(t) \/ Register(t) \/ Deregister(t)
           \/ UNCHANGED control
    PROVE  /\ registered' \in Turns \cup {NoTurn}
           /\ newest' \in Turns \cup {NoTurn}
           /\ marker' \in Commands \cup {NoCommand}
BY DEF Types, Request, Issue, Deliver, Lose, Acknowledge, MarkerExpires, Consume, Register,
       Deregister, control, registry

\* The messages a turn leaves are messages.
LEMMA CarriedTypes ==
    ASSUME Types, NEW t \in Turns
    PROVE  held[t] \subseteq Messages /\ carry[t] \subseteq Messages
BY DEF Types

LEMMA StepTypes == Types /\ [Next]_vars => Types'
<1> SUFFICES ASSUME Types, [Next]_vars PROVE Types'
  OBVIOUS
<1>1. CASE UNCHANGED vars
  BY <1>1 DEF Types, vars, steering, broker, control, registry, gateway
<1>2. ASSUME NEW t \in Turns, Send(t) PROVE Types'
  <2>1. /\ owner' \in Turns \cup {NoTurn}
        /\ held' = held
        /\ unread' \subseteq Messages
        /\ handed' \in [Messages -> Nat]
    BY <1>2, ArmTypes DEF Send
  <2>2. question' \in [Questions -> [at : QuestionStates, turn : Turns \cup {NoTurn},
                                       signalled : BOOLEAN]]
    BY <1>2, BrokerTypes DEF Send
  <2>3. LiveTurn \subseteq Turns  BY DEF LiveTurn
  <2> QED  BY <1>2, <2>1, <2>2, <2>3 DEF Send, Types, control, registry
<1>3. ASSUME NEW m \in Messages, Steer(m) PROVE Types'
  <2>1. held' \in [Turns -> SUBSET Messages]
    BY <1>3 DEF Steer, Enqueue, Types
  <2> QED  BY <1>3, <2>1 DEF Steer, Enqueue, Types, broker, control, registry
<1>4. ASSUME NEW t \in Turns, ChatCancel(t) PROVE Types'
  <2>1. question' \in [Questions -> [at : QuestionStates, turn : Turns \cup {NoTurn},
                                       signalled : BOOLEAN]]
    BY <1>4, BrokerTypes DEF ChatCancel
  <2> QED  BY <1>4, <2>1 DEF ChatCancel, Types, steering, control, registry
<1>5. CASE GracefulStop
  <2>1. question' \in [Questions -> [at : QuestionStates, turn : Turns \cup {NoTurn},
                                       signalled : BOOLEAN]]
    BY <1>5, BrokerTypes DEF GracefulStop
  <2> QED  BY <1>5, <2>1 DEF GracefulStop, Types, steering, control, registry, gateway
<1>6. ASSUME NEW k \in Commands, ForcedStop(k) PROVE Types'
  <2>1. question' \in [Questions -> [at : QuestionStates, turn : Turns \cup {NoTurn},
                                       signalled : BOOLEAN]]
    BY <1>6, BrokerTypes DEF ForcedStop
  <2>2. /\ registered' \in Turns \cup {NoTurn}
        /\ newest' \in Turns \cup {NoTurn}
        /\ marker' \in Commands \cup {NoCommand}
    BY <1>6, ControlTypes DEF ForcedStop
  <2> QED  BY <1>6, <2>1, <2>2 DEF ForcedStop, Types, steering, gateway
<1>7. CASE Control
  <2>1. question' \in [Questions -> [at : QuestionStates, turn : Turns \cup {NoTurn},
                                       signalled : BOOLEAN]]
    BY <1>7, BrokerTypes DEF Control
  <2>2. /\ registered' \in Turns \cup {NoTurn}
        /\ newest' \in Turns \cup {NoTurn}
        /\ marker' \in Commands \cup {NoCommand}
    BY <1>7, ControlTypes DEF Control
  <2> QED  BY <1>7, <2>1, <2>2 DEF Control, Types, steering, gateway
<1>8. ASSUME NEW q \in Questions,
             \/ \E t \in Turns : ToolAsks(q, t)
             \/ QuestionIsShown(q) \/ QuestionFails(q) \/ QuestionExpires(q) \/ PersonAnswers(q)
      PROVE  Types'
  <2>1. question' \in [Questions -> [at : QuestionStates, turn : Turns \cup {NoTurn},
                                       signalled : BOOLEAN]]
    BY <1>8, BrokerTypes DEF ToolAsks, QuestionIsShown, QuestionFails, QuestionExpires, PersonAnswers
  <2>2. UNCHANGED <<steering, control, gateway>>
    BY <1>8 DEF ToolAsks, QuestionIsShown, QuestionFails, QuestionExpires, PersonAnswers
  <2> QED  BY <2>1, <2>2 DEF Types, steering, control, registry, gateway
<1>9. ASSUME NEW t \in Turns, RuntimeStarts(t) PROVE Types'
  <2>1. /\ registered' \in Turns \cup {NoTurn}
        /\ newest' \in Turns \cup {NoTurn}
        /\ marker' \in Commands \cup {NoCommand}
    BY <1>9, ControlTypes DEF RuntimeStarts
  <2> QED  BY <1>9, <2>1 DEF RuntimeStarts, Types, steering, broker
<1>10. ASSUME NEW t \in Turns, StartFails(t) PROVE Types'
  BY <1>10 DEF StartFails, Types, steering, broker, control, registry
<1>11. ASSUME NEW t \in Turns, RuntimeDrains(t) PROVE Types'
  <2>1. held' \in [Turns -> SUBSET Messages]
    BY <1>11 DEF RuntimeDrains, Drain, Types
  <2> QED  BY <1>11, <2>1 DEF RuntimeDrains, Drain, Types, broker, control, registry, gateway
<1>12. ASSUME NEW t \in Turns, RuntimeCloses(t) PROVE Types'
  <2>1. /\ registered' \in Turns \cup {NoTurn}
        /\ newest' \in Turns \cup {NoTurn}
        /\ marker' \in Commands \cup {NoCommand}
    BY <1>12, ControlTypes DEF RuntimeCloses
  <2>2. /\ owner' \in Turns \cup {NoTurn}
        /\ held' \in [Turns -> SUBSET Messages]
    BY <1>12, CloseTypes DEF RuntimeCloses
  <2>3. carry' \in [Turns -> SUBSET Messages]
    BY <1>12, CarriedTypes DEF RuntimeCloses, Types
  <2>4. rt' \in [Turns -> {"off", "starting", "running", "closing", "ended"}]
    BY <1>12 DEF RuntimeCloses, Types
  <2> QED  BY <1>12, <2>1, <2>2, <2>3, <2>4 DEF RuntimeCloses, Types, broker
<1>13. ASSUME NEW t \in Turns, RuntimeReturns(t) PROVE Types'
  <2>1. question' \in [Questions -> [at : QuestionStates, turn : Turns \cup {NoTurn},
                                       signalled : BOOLEAN]]
    BY <1>13, BrokerTypes DEF RuntimeReturns
  <2>2. /\ owner' \in Turns \cup {NoTurn}
        /\ held' \in [Turns -> SUBSET Messages]
    BY <1>13, CloseTypes DEF RuntimeReturns
  <2>3. /\ gw' \in [Turns -> {"new", "live", "done"}]
        /\ current' \in Turns \cup {NoTurn}
    BY <1>13, CleanupTypes DEF RuntimeReturns
  <2>4. carry[t] \cup held[t] \subseteq Messages
    BY CarriedTypes
  <2>5. /\ unread' \subseteq Messages
        /\ handed' \in [Messages -> Nat]
    BY <1>13, <2>4, LeftoverTypes DEF RuntimeReturns
  <2>6. carry' \in [Turns -> SUBSET Messages]
    BY <1>13 DEF RuntimeReturns, Types
  <2>7. rt' \in [Turns -> {"off", "starting", "running", "closing", "ended"}]
    BY <1>13 DEF RuntimeReturns, Types
  <2> QED  BY <1>13, <2>1, <2>2, <2>3, <2>5, <2>6, <2>7
           DEF RuntimeReturns, Types, control, registry
<1>14. ASSUME NEW t \in Turns, ReturnsUnheard(t) PROVE Types'
  <2>1. carry' \in [Turns -> SUBSET Messages]
    BY <1>14 DEF ReturnsUnheard, Types
  <2>2. rt' \in [Turns -> {"off", "starting", "running", "closing", "ended"}]
    BY <1>14 DEF ReturnsUnheard, Types
  <2> QED  BY <1>14, <2>1, <2>2 DEF ReturnsUnheard, Types, steering, broker, control, registry
<1>15. ASSUME NEW t \in Turns, Timeout(t) PROVE Types'
  <2>1. question' \in [Questions -> [at : QuestionStates, turn : Turns \cup {NoTurn},
                                       signalled : BOOLEAN]]
    BY <1>15, BrokerTypes DEF Timeout
  <2>2. /\ owner' \in Turns \cup {NoTurn}
        /\ held' \in [Turns -> SUBSET Messages]
    BY <1>15, CloseTypes DEF Timeout
  <2>3. /\ gw' \in [Turns -> {"new", "live", "done"}]
        /\ current' \in Turns \cup {NoTurn}
    BY <1>15, CleanupTypes DEF Timeout
  <2>4. held[t] \subseteq Messages
    BY CarriedTypes
  <2>5. /\ unread' \subseteq Messages
        /\ handed' \in [Messages -> Nat]
    BY <1>15, <2>4, LeftoverTypes DEF Timeout
  <2> QED  BY <1>15, <2>1, <2>2, <2>3, <2>5 DEF Timeout, Types, control, registry
<1> QED
  BY <1>1, <1>2, <1>3, <1>4, <1>5, <1>6, <1>7, <1>8, <1>9, <1>10, <1>11, <1>12, <1>13, <1>14,
     <1>15 DEF Next, Event, System, Timers

-----------------------------------------------------------------------------
(* What the gateway, the broker and the steering know of the turns.        *)

\* The steps that touch nothing of it.
Aside ==
    \/ GracefulStop
    \/ \E k \in Commands : ForcedStop(k)
    \/ Control
    \/ \E q \in Questions, t \in Turns : ToolAsks(q, t)
    \/ \E q \in Questions :
        QuestionIsShown(q) \/ QuestionFails(q) \/ QuestionExpires(q) \/ PersonAnswers(q)
    \/ \E t \in Turns : RuntimeStarts(t) \/ StartFails(t) \/ ReturnsUnheard(t)
    \/ \E t \in Turns : RuntimeDrains(t)
    \/ \E m \in Messages : Steer(m)
    \/ UNCHANGED vars

LEMMA AsideLeaves == Aside => UNCHANGED <<gw, aborted, current, open, remembered, owner>>
BY DEF Aside, GracefulStop, ForcedStop, Control, ToolAsks, QuestionIsShown, QuestionFails,
       QuestionExpires, PersonAnswers, RuntimeStarts, StartFails, ReturnsUnheard, RuntimeDrains, Steer, vars,
       StopRoot, SignalAborted, Ask, Show, FailToShow, Respond, Expire, Drain, Enqueue, steering, broker,
       gateway

\* The steps that may touch it.
LEMMA NextSteps ==
    ASSUME [Next]_vars
    PROVE  \/ Aside
           \/ \E t \in Turns : \/ Send(t) \/ ChatCancel(t) \/ Timeout(t)
                               \/ RuntimeCloses(t) \/ RuntimeReturns(t)
BY DEF Next, Event, System, Timers, Aside

LEMMA AgreeStep == Types /\ TurnsAgree /\ [Next]_vars => TurnsAgree'
<1> SUFFICES ASSUME Types, TurnsAgree, [Next]_vars PROVE TurnsAgree'
  OBVIOUS
<1>1. CASE Aside
  BY <1>1, AsideLeaves DEF TurnsAgree
<1>2. ASSUME NEW t \in Turns, Send(t) PROVE TurnsAgree'
  <2>1. /\ gw' = [gw EXCEPT ![t] = "live"]
        /\ gw[t] = "new"
        /\ current' = t
        /\ owner' = t
        /\ aborted' = aborted \cup LiveTurn
        /\ open' = (open \ LiveTurn) \cup {t}
        /\ remembered' = remembered \cup (open \cap LiveTurn)
    BY <1>2 DEF Send, CloseInput, Arm
  <2>2. LiveTurn = {u \in Turns : gw[u] = "live" /\ u \notin aborted}
    BY DEF LiveTurn, TurnsAgree
  <2>3. t \in Turns /\ t # NoTurn  BY DEF Turns, NoTurn
  <2>4. t \notin aborted'
    BY <2>1, <2>2 DEF TurnsAgree
  <2>5. \A u \in Turns : u # t => gw'[u] = gw[u]
    BY <2>1 DEF Types
  <2>6. gw'[t] = "live"  BY <2>1 DEF Types
  <2>7. \A u \in Turns : gw'[u] = "live" /\ u \notin aborted' => u = t
    BY <2>1, <2>2, <2>5
  <2>8. open' = {u \in Turns : gw'[u] = "live" /\ u \notin aborted'}
    <3>1. open \ LiveTurn = {}  BY <2>2 DEF TurnsAgree
    <3> QED  BY <2>1, <2>4, <2>6, <2>7, <3>1
  <2>9. aborted' \subseteq remembered'
    BY <2>1, <2>2 DEF TurnsAgree
  <2>10. \A u \in aborted' : gw'[u] # "new"
    <3>1. aborted' \subseteq Turns  BY <2>1, <2>2 DEF Types
    <3> QED  BY <2>1, <2>2, <2>4, <2>5, <3>1 DEF TurnsAgree
  <2> QED  BY <2>1, <2>6, <2>7, <2>8, <2>9, <2>10 DEF TurnsAgree
<1>3. ASSUME NEW t \in Turns, ChatCancel(t) PROVE TurnsAgree'
  BY <1>3 DEF ChatCancel, CloseInput, steering, TurnsAgree, Types
<1>4. ASSUME NEW t \in Turns, RuntimeReturns(t) \/ Timeout(t) PROVE TurnsAgree'
  <2>1. /\ gw' = [gw EXCEPT ![t] = "done"]
        /\ gw[t] = "live"
        /\ current' = IF current = t THEN NoTurn ELSE current
        /\ owner' = IF owner = t THEN NoTurn ELSE owner
        /\ open' = open \ {t}
    BY <1>4 DEF RuntimeReturns, Timeout, Cleanup, CloseInput, CloseTurn
  <2>2. /\ aborted \subseteq aborted' /\ aborted' \subseteq aborted \cup {t}
        /\ aborted' \subseteq remembered'
    BY <1>4, <2>1 DEF RuntimeReturns, Timeout, CloseInput, TurnsAgree
  <2>3. \A u \in Turns : u # t => gw'[u] = gw[u]
    BY <2>1 DEF Types
  <2>4. gw'[t] = "done"  BY <2>1 DEF Types
  <2>5. \A u \in Turns : gw'[u] = "live" /\ u \notin aborted' => current' = u
    BY <2>1, <2>2, <2>3, <2>4 DEF TurnsAgree
  <2>6. open' = {u \in Turns : gw'[u] = "live" /\ u \notin aborted'}
    BY <2>1, <2>2, <2>3, <2>4 DEF TurnsAgree
  <2>7. \A u \in aborted' : gw'[u] # "new"
    BY <2>2, <2>3, <2>4 DEF TurnsAgree, Types
  <2>8. owner' # NoTurn => gw'[owner'] = "live"
    BY <2>1, <2>3 DEF TurnsAgree, Types
  <2> QED  BY <2>2, <2>5, <2>6, <2>7, <2>8 DEF TurnsAgree
<1>5. ASSUME NEW t \in Turns, RuntimeCloses(t) PROVE TurnsAgree'
  BY <1>5 DEF RuntimeCloses, CloseTurn, broker, TurnsAgree, Types
<1> QED  BY <1>1, <1>2, <1>3, <1>4, <1>5, NextSteps

-----------------------------------------------------------------------------
(* The questions. *)

\* A question that is asked: never open at once, and told "auto" only if its
\* turn was not aborted, or the broker had forgotten that it was.
LEMMA AskCloses ==
    ASSUME Types, TurnsAgree, QuestionsClosed, NEW q \in Questions, NEW t \in Turns,
           ToolAsks(q, t)
    PROVE  QuestionsClosed'
<1>1. PICK s \in BOOLEAN : Ask(q, t, s, Dead(t), t \in aborted)
  BY DEF ToolAsks
<1>2. t \in aborted => t \in remembered /\ t \notin open
  BY DEF TurnsAgree
<1>3. PICK at \in QuestionStates \ {"open"} :
        /\ question' = [question EXCEPT ![q] = [at |-> at, turn |-> t, signalled |-> s]]
        /\ misled' = IF at = "auto" /\ t \in aborted THEN misled \cup {q} ELSE misled
        /\ at = "auto" => t \notin open /\ t \notin remembered
  BY <1>1 DEF Ask, QuestionStates
<1>4. misled' = misled
  BY <1>2, <1>3
<1>5. UNCHANGED <<open, stopped, aborted, killed>>
  BY DEF ToolAsks, Ask, control, gateway
<1>6. \A p \in Questions : question'[p].at = "open" => question'[p] = question[p]
  BY <1>3 DEF Types
<1>7. question[q].at = "none"
  BY <1>1 DEF Ask
<1>8. \A p \in Questions : question[p].at = "unbuilt" => question'[p] = question[p]
  BY <1>3, <1>7 DEF Types
<1> QED  BY <1>4, <1>5, <1>6, <1>8 DEF QuestionsClosed, Dead

\* A question changes from one of its states to another.
LEMMA MovedTo ==
    ASSUME Types, NEW q \in Questions, NEW at \in QuestionStates,
           question' = [question EXCEPT ![q].at = at]
    PROVE  /\ \A p \in Questions : p # q => question'[p] = question[p]
           /\ question'[q].at = at
           /\ question'[q].turn = question[q].turn
           /\ question'[q].signalled = question[q].signalled
<1>1. question'[q] = [question[q] EXCEPT !.at = at]  BY DEF Types
<1>2. question[q] \in [at : QuestionStates, turn : Turns \cup {NoTurn}, signalled : BOOLEAN]
  BY DEF Types
<1>3. \A p \in Questions : p # q => question'[p] = question[p]  BY DEF Types
<1> QED  BY <1>1, <1>2, <1>3

LEMMA ShownCloses ==
    ASSUME Types, TurnsAgree, QuestionsClosed, NEW q \in Questions,
           QuestionIsShown(q) \/ QuestionFails(q) \/ QuestionExpires(q) \/ PersonAnswers(q)
    PROVE  QuestionsClosed'
<1>1. UNCHANGED <<open, stopped, aborted, killed>>
  BY DEF QuestionIsShown, QuestionFails, QuestionExpires, PersonAnswers, Show, FailToShow,
         Expire, Respond, control, gateway
<1>2. PICK at \in QuestionStates :
        /\ question' = [question EXCEPT ![q].at = at]
        /\ at = "open" => /\ question[q].turn \in open \ stopped
                          /\ ~(question[q].signalled /\ Dead(question[q].turn))
  BY DEF QuestionIsShown, QuestionFails, QuestionExpires, PersonAnswers, Show, FailToShow,
         Expire, Respond, QuestionStates
<1>3. misled' = misled \/ (at = "unbuilt" /\ misled' = misled \cup {q})
  <2>1. CASE QuestionIsShown(q) \/ PersonAnswers(q)
    BY <2>1 DEF QuestionIsShown, PersonAnswers, Show, Respond
  <2>2. CASE QuestionExpires(q)
    BY <2>2 DEF QuestionExpires, Expire, QuestionsClosed, TurnsAgree
  <2>3. CASE QuestionFails(q)
    <3>1. question' = [question EXCEPT ![q].at = "unbuilt"]
      BY <2>3 DEF QuestionFails, FailToShow
    <3>2. question'[q].at = "unbuilt"  BY <3>1, MovedTo DEF QuestionStates
    <3>3. question'[q].at = at  BY <1>2, MovedTo
    <3> QED  BY <2>3, <3>2, <3>3 DEF QuestionFails, FailToShow
  <2> QED  BY <2>1, <2>2, <2>3
<1>4. /\ \A p \in Questions : p # q => question'[p] = question[p]
      /\ question'[q].at = at
      /\ question'[q].turn = question[q].turn
      /\ question'[q].signalled = question[q].signalled
  <2>1. question' = [question EXCEPT ![q].at = at]  BY <1>2
  <2> QED  BY <2>1, MovedTo
<1>5. ASSUME NEW p \in Questions, question'[p].at = "open"
      PROVE  /\ question'[p].turn \in open \ stopped
             /\ ~(question'[p].signalled /\ Dead(question'[p].turn))
  <2>1. CASE p = q  BY <1>2, <1>4, <1>5, <2>1
  <2>2. CASE p # q  BY <1>4, <1>5, <2>2 DEF QuestionsClosed
  <2> QED  BY <2>1, <2>2
<1>6. misled' \subseteq {p \in Questions : question'[p].at = "unbuilt"}
  <2>1. question[q].at \in {"building", "open"}
    BY DEF QuestionIsShown, QuestionFails, QuestionExpires, PersonAnswers, Show, FailToShow,
           Expire, Respond
  <2>2. \A p \in misled : p \in Questions /\ p # q /\ question'[p].at = "unbuilt"
    BY <1>4, <2>1 DEF QuestionsClosed
  <2> QED  BY <1>3, <1>4, <2>2
<1> QED  BY <1>1, <1>5, <1>6 DEF QuestionsClosed, Dead

\* Questions closed with their turns: those left open are of other turns.
LEMMA ClosedWithTurns ==
    ASSUME Types, QuestionsClosed, NEW ts \in SUBSET Turns, NEW abort, NEW opened,
           CloseInput(ts, abort, opened),
           aborted' \subseteq aborted \cup ts, killed' = killed
    PROVE  QuestionsClosed'
<1>1. ASSUME NEW q \in Questions, question'[q].at = "open"
      PROVE  /\ question'[q] = question[q] /\ question[q].turn \notin ts
  BY <1>1, SettledTypes DEF CloseInput, Of
<1>2. /\ open \ ts \subseteq open' /\ stopped' \subseteq stopped /\ misled' = misled
  BY DEF CloseInput
<1>3. \A q \in Questions : question[q].at = "unbuilt" => question'[q] = question[q]
  BY SettledTypes DEF CloseInput
<1> QED  BY <1>1, <1>2, <1>3 DEF QuestionsClosed, Dead

LEMMA QuestionsStep == Types /\ TurnsAgree /\ QuestionsClosed /\ [Next]_vars => QuestionsClosed'
<1> SUFFICES ASSUME Types, TurnsAgree, QuestionsClosed, [Next]_vars PROVE QuestionsClosed'
  OBVIOUS
<1>1. ASSUME NEW t \in Turns,
             Send(t) \/ ChatCancel(t) \/ RuntimeReturns(t) \/ Timeout(t)
      PROVE  QuestionsClosed'
  <2>1. LiveTurn \in SUBSET Turns  BY DEF LiveTurn
  <2>2. PICK ts \in SUBSET Turns :
            (\E abort, opened : CloseInput(ts, abort, opened)) /\ aborted' \subseteq aborted \cup ts
    <3>1. CASE Send(t)  BY <2>1, <3>1 DEF Send
    <3>2. CASE ChatCancel(t)  BY <3>2 DEF ChatCancel
    <3>3. CASE RuntimeReturns(t)  BY <3>3 DEF RuntimeReturns
    <3>4. CASE Timeout(t)  BY <3>4 DEF Timeout
    <3> QED  BY <1>1, <3>1, <3>2, <3>3, <3>4
  <2>3. killed' = killed
    BY <1>1 DEF Send, ChatCancel, RuntimeReturns, Timeout, control
  <2> QED  BY <2>2, <2>3, ClosedWithTurns
<1>2. ASSUME StopRoot, UNCHANGED <<aborted>>
      PROVE  QuestionsClosed'
  BY <1>2, SettledTypes DEF StopRoot, QuestionsClosed
<1>3. CASE GracefulStop
  BY <1>2, <1>3 DEF GracefulStop, gateway
<1>4. ASSUME NEW k \in Commands, ForcedStop(k) PROVE QuestionsClosed'
  <2>1. UNCHANGED <<aborted, killed>>
    BY <1>4 DEF ForcedStop, Request, gateway
  <2>2. CASE k \in Remote
    BY <1>4, <2>1, <2>2 DEF ForcedStop, broker, QuestionsClosed, Dead
  <2> QED  BY <1>2, <1>4, <2>1, <2>2 DEF ForcedStop
<1>5. CASE Control
  <2>1. UNCHANGED <<open, stopped, misled, aborted>>
    BY <1>5 DEF Control, SignalAborted, gateway
  <2>2. question' = Settled({q \in Of(killed') : question[q].signalled})
    BY <1>5 DEF Control, SignalAborted
  <2>3. ASSUME NEW q \in Questions, question'[q].at = "open"
        PROVE  /\ question'[q] = question[q]
               /\ ~(question[q].signalled /\ question[q].turn \in killed')
    BY <2>2, <2>3, SettledTypes DEF Of
  <2>4. \A q \in Questions : question[q].at = "unbuilt" => question'[q] = question[q]
    BY <2>2, SettledTypes
  <2> QED  BY <2>1, <2>3, <2>4 DEF QuestionsClosed, Dead
<1>6. ASSUME NEW q \in Questions, NEW t \in Turns, ToolAsks(q, t) PROVE QuestionsClosed'
  BY <1>6, AskCloses
<1>7. ASSUME NEW q \in Questions,
             QuestionIsShown(q) \/ QuestionFails(q) \/ QuestionExpires(q) \/ PersonAnswers(q)
      PROVE  QuestionsClosed'
  BY <1>7, ShownCloses
<1>8. ASSUME UNCHANGED <<open, stopped, question, misled, aborted, killed>> PROVE QuestionsClosed'
  BY <1>8 DEF QuestionsClosed, Dead
<1>9. ASSUME NEW t \in Turns,
             RuntimeStarts(t) \/ StartFails(t) \/ RuntimeDrains(t) \/ RuntimeCloses(t)
               \/ ReturnsUnheard(t)
      PROVE  QuestionsClosed'
  BY <1>8, <1>9 DEF RuntimeStarts, StartFails, RuntimeDrains, RuntimeCloses, ReturnsUnheard,
                    Register, Deregister, broker, control, gateway
<1>10. ASSUME NEW m \in Messages, Steer(m) PROVE QuestionsClosed'
  BY <1>8, <1>10 DEF Steer, broker, control
<1>11. CASE UNCHANGED vars
  BY <1>8, <1>11 DEF vars, broker, control, gateway
<1> QED
  BY <1>1, <1>3, <1>4, <1>5, <1>6, <1>7, <1>9, <1>10, <1>11 DEF Next, Event, System, Timers

-----------------------------------------------------------------------------
(* The stops. *)

\* What an acknowledgement deletes, and will delete, is of commands that
\* aborted a turn.
Stops == StopReaches /\ acking \subseteq applied

LEMMA StopsStep == Types /\ Stops /\ [Next]_vars => Stops'
<1> SUFFICES ASSUME Types, Stops, [Next]_vars PROVE Stops'
  OBVIOUS
<1>1. ASSUME UNCHANGED <<acking, applied, erased, registered, newest, late>>,
             \A t \in Turns : rt'[t] = "running" => rt[t] = "running"
      PROVE  Stops'
  BY <1>1 DEF Stops, StopReaches, Types
<1>2. ASSUME NEW t \in Turns, RuntimeStarts(t) PROVE Stops'
  BY <1>2 DEF RuntimeStarts, Register, Stops, StopReaches, Types, Turns, NoTurn
<1>3. ASSUME NEW t \in Turns, RuntimeCloses(t) PROVE Stops'
  BY <1>3 DEF RuntimeCloses, Deregister, Stops, StopReaches, Types
<1>4. CASE Control
  <2>1. UNCHANGED <<registered, newest, late, rt>>
    BY <1>4 DEF Control, Issue, Deliver, Lose, Acknowledge, MarkerExpires, Consume, registry,
                gateway
  <2>2. acking' \subseteq applied' /\ erased' \subseteq applied'
    BY <1>4 DEF Control, Issue, AbortLocally, Deliver, Lose, Acknowledge, MarkerExpires, Consume,
                Stops, StopReaches
  <2> QED  BY <2>1, <2>2 DEF Stops, StopReaches
<1>5. ASSUME NEW k \in Commands, ForcedStop(k) PROVE Stops'
  BY <1>1, <1>5 DEF ForcedStop, Request, registry, gateway
<1>6. ASSUME NEW t \in Turns,
             \/ Send(t) \/ ChatCancel(t) \/ Timeout(t) \/ StartFails(t) \/ RuntimeDrains(t)
             \/ RuntimeReturns(t) \/ ReturnsUnheard(t)
      PROVE  Stops'
  BY <1>1, <1>6 DEF Send, ChatCancel, Timeout, StartFails, RuntimeDrains, RuntimeReturns,
                    ReturnsUnheard, control, registry, gateway, Types
<1>7. ASSUME UNCHANGED <<control, gateway>> PROVE Stops'
  BY <1>1, <1>7 DEF control, registry, gateway
<1>8. ASSUME NEW m \in Messages, Steer(m) PROVE Stops'
  BY <1>1, <1>8 DEF Steer, control, registry
<1> QED
  BY <1>2, <1>3, <1>4, <1>5, <1>6, <1>7, <1>8
     DEF Next, Event, System, Timers, ToolAsks, QuestionIsShown, QuestionFails,
         QuestionExpires, PersonAnswers, GracefulStop, vars

-----------------------------------------------------------------------------
(* The fates of messages. *)

\* Turns that have not begun, have results to carry, or are over.
Phases ==
    \A t \in Turns :
        /\ gw[t] = "new" => rt[t] = "off"
        /\ carry[t] # {} => rt[t] = "closing"
        /\ gw[t] = "done" => held[t] = {}
        /\ gw[t] = "done" /\ carry[t] # {} => overtaken # {}

Held(m) == \E t \in Turns : m \in held[t]
Carried(m) == \E t \in Turns : m \in carry[t]

\* Message m, once sent, is at exactly one of six places, and at one turn.
Fate(m) ==
    /\ m \in sent <=> \/ Held(m) \/ Carried(m) \/ m \in folded \/ m \in unread
                      \/ handed[m] # 0 \/ m \in lost
    /\ \A t, u \in Turns : m \in held[t] /\ m \in held[u] => t = u
    /\ \A t, u \in Turns : m \in carry[t] /\ m \in carry[u] => t = u
    /\ Held(m) => ~Carried(m)
    /\ Held(m) \/ Carried(m) => m \notin folded \cup unread \cup lost
    /\ m \in folded => m \notin unread \cup lost
    /\ m \in unread => m \notin lost
    /\ handed[m] # 0 => /\ handed[m] = 1
                        /\ ~Held(m) /\ ~Carried(m) /\ m \notin folded \cup unread \cup lost
    /\ m \in lost => overtaken # {}

Fates == Phases /\ \A m \in Messages : Fate(m)

LEMMA PhasesStep == Types /\ TurnsAgree /\ Phases /\ [Next]_vars => Phases'
<1> SUFFICES ASSUME Types, TurnsAgree, Phases, [Next]_vars PROVE Phases'
  OBVIOUS
<1>1. ASSUME UNCHANGED <<gw, rt, carry, held, overtaken>> PROVE Phases'
  BY <1>1 DEF Phases
<1>2. ASSUME NEW t \in Turns, Send(t) PROVE Phases'
  BY <1>2 DEF Send, Arm, Phases, Types
<1>3. ASSUME NEW m \in Messages, Steer(m) PROVE Phases'
  BY <1>3 DEF Steer, Enqueue, Phases, TurnsAgree, Types
<1>4. ASSUME NEW t \in Turns, RuntimeStarts(t) \/ StartFails(t) PROVE Phases'
  BY <1>4 DEF RuntimeStarts, StartFails, steering, Phases, Types
<1>5. ASSUME NEW t \in Turns, RuntimeDrains(t) PROVE Phases'
  BY <1>5 DEF RuntimeDrains, Drain, gateway, Phases, Types
<1>6. ASSUME NEW t \in Turns, RuntimeCloses(t) PROVE Phases'
  BY <1>6 DEF RuntimeCloses, CloseTurn, Phases, Types
<1>7. ASSUME NEW t \in Turns, RuntimeReturns(t) PROVE Phases'
  BY <1>7 DEF RuntimeReturns, Cleanup, CloseTurn, Phases, Types
<1>8. ASSUME NEW t \in Turns, ReturnsUnheard(t) PROVE Phases'
  BY <1>8 DEF ReturnsUnheard, steering, Phases, Types
<1>9. ASSUME NEW t \in Turns, Timeout(t) PROVE Phases'
  BY <1>9 DEF Timeout, Cleanup, CloseTurn, Phases, Types
<1>10. ASSUME NEW t \in Turns, ChatCancel(t) PROVE Phases'
  BY <1>1, <1>10 DEF ChatCancel, steering
<1>11. CASE GracefulStop \/ Control \/ (\E k \in Commands : ForcedStop(k)) \/ UNCHANGED vars
            \/ (\E q \in Questions, t \in Turns : ToolAsks(q, t))
            \/ (\E q \in Questions : QuestionIsShown(q) \/ QuestionFails(q) \/ QuestionExpires(q)
                                      \/ PersonAnswers(q))
  BY <1>1, <1>11 DEF GracefulStop, Control, ForcedStop, vars, ToolAsks, QuestionIsShown,
                     QuestionFails, QuestionExpires, PersonAnswers, steering, gateway
<1> QED
  BY <1>2, <1>3, <1>4, <1>5, <1>6, <1>7, <1>8, <1>9, <1>10, <1>11 DEF Next, Event, System, Timers

\* A message that stays where it is keeps its fate.
LEMMA FateStays ==
    ASSUME NEW m, Fate(m),
           \A t \in Turns : (m \in held'[t] <=> m \in held[t]) /\ (m \in carry'[t] <=> m \in carry[t]),
           m \in sent' <=> m \in sent, m \in folded' <=> m \in folded,
           m \in unread' <=> m \in unread, m \in lost' <=> m \in lost,
           handed'[m] = handed[m], overtaken \subseteq overtaken'
    PROVE  Fate(m)'
BY DEF Fate, Held, Carried

\* Leftovers go to a page or to the session, once each.
LEMMA LeftoversGo ==
    ASSUME Types, NEW ms, ms \subseteq Messages, SendLeftovers(ms), NEW m \in Messages
    PROVE  \/ m \notin ms /\ handed'[m] = handed[m] /\ (m \in unread' <=> m \in unread)
           \/ m \in ms /\ handed'[m] = handed[m] + 1 /\ (m \in unread' <=> m \in unread)
           \/ m \in ms /\ handed'[m] = handed[m] /\ m \in unread'
BY DEF SendLeftovers, HandBack, Types

LEMMA FateStep ==
    ASSUME Types, Phases, [Next]_vars, NEW m \in Messages, Fate(m)
    PROVE  Fate(m)'
<1>1. ASSUME UNCHANGED <<steering, carry, sent, overtaken, lost>> PROVE Fate(m)'
  BY <1>1, FateStays DEF steering
<1>2. ASSUME NEW t \in Turns, Send(t) PROVE Fate(m)'
  <2>1. /\ held' = held /\ carry' = carry /\ sent' = sent /\ folded' = folded /\ lost' = lost
        /\ overtaken' = overtaken /\ unread' = {}
        /\ handed'[m] = IF m \in unread THEN handed[m] + 1 ELSE handed[m]
    BY <1>2 DEF Send, Arm, HandBack
  <2> QED  BY <2>1 DEF Fate, Held, Carried, Types
<1>3. ASSUME NEW n \in Messages, Steer(n) PROVE Fate(m)'
  <2>1. /\ carry' = carry /\ folded' = folded /\ lost' = lost /\ overtaken' = overtaken
        /\ unread' = unread /\ handed' = handed /\ sent' = sent \cup {n} /\ n \notin sent
        /\ owner \in Turns /\ held' = [held EXCEPT ![owner] = @ \cup {n}]
    BY <1>3 DEF Steer, Enqueue, Types
  <2>2. CASE m # n
    BY <2>1, <2>2, FateStays DEF Types
  <2>3. CASE m = n
    <3>1. ~Held(m) /\ ~Carried(m) /\ m \notin folded \cup unread \cup lost /\ handed[m] = 0
      BY <2>1, <2>3 DEF Fate
    <3>2. \A t \in Turns : m \in held'[t] <=> t = owner
      BY <2>1, <2>3, <3>1 DEF Held, Types
    <3> QED  BY <2>1, <2>3, <3>1, <3>2 DEF Fate, Held, Carried
  <2> QED  BY <2>2, <2>3
<1>4. ASSUME NEW t \in Turns, RuntimeDrains(t) PROVE Fate(m)'
  <2>1. /\ carry' = carry /\ lost' = lost /\ overtaken' = overtaken /\ unread' = unread
        /\ handed' = handed /\ sent' = sent /\ folded' = folded \cup held[t]
        /\ held' = [held EXCEPT ![t] = {}]
    BY <1>4 DEF RuntimeDrains, Drain, gateway
  <2>2. CASE m \notin held[t]
    BY <2>1, <2>2, FateStays DEF Types
  <2>3. CASE m \in held[t]
    <3>1. \A u \in Turns : m \notin held'[u]
      BY <2>1, <2>3 DEF Fate, Types
    <3> QED  BY <2>1, <2>3, <3>1 DEF Fate, Held, Carried
  <2> QED  BY <2>2, <2>3
<1>5. ASSUME NEW t \in Turns, RuntimeCloses(t) PROVE Fate(m)'
  <2>1. /\ lost' = lost /\ overtaken' = overtaken /\ unread' = unread /\ handed' = handed
        /\ sent' = sent /\ folded' = folded /\ held' = [held EXCEPT ![t] = {}]
        /\ carry' = [carry EXCEPT ![t] = held[t]] /\ carry[t] = {}
    BY <1>5 DEF RuntimeCloses, CloseTurn, Phases
  <2>2. CASE m \notin held[t]
    BY <2>1, <2>2, FateStays DEF Types
  <2>3. CASE m \in held[t]
    <3>1. \A u \in Turns : m \notin held'[u] /\ (m \in carry'[u] <=> u = t)
      BY <2>1, <2>3 DEF Fate, Held, Carried, Types
    <3> QED  BY <2>1, <2>3, <3>1 DEF Fate, Held, Carried
  <2> QED  BY <2>2, <2>3
<1>6. ASSUME NEW t \in Turns, RuntimeReturns(t) PROVE Fate(m)'
  <2> DEFINE ms == carry[t] \cup held[t]
  <2>1. /\ lost' = lost /\ overtaken' = overtaken /\ sent' = sent /\ folded' = folded
        /\ held' = [held EXCEPT ![t] = {}] /\ carry' = [carry EXCEPT ![t] = {}]
        /\ SendLeftovers(ms)
    BY <1>6 DEF RuntimeReturns, CloseTurn
  <2>2. ms \subseteq Messages  BY CarriedTypes
  <2>3. \/ m \notin ms /\ handed'[m] = handed[m] /\ (m \in unread' <=> m \in unread)
        \/ m \in ms /\ handed'[m] = handed[m] + 1 /\ (m \in unread' <=> m \in unread)
        \/ m \in ms /\ handed'[m] = handed[m] /\ m \in unread'
    BY <2>1, <2>2, LeftoversGo
  <2>4. CASE m \notin ms
    BY <2>1, <2>3, <2>4, FateStays DEF Types
  <2>5. CASE m \in ms
    <3>1. \A u \in Turns : m \notin held'[u] /\ m \notin carry'[u]
      BY <2>1, <2>5 DEF Fate, Held, Carried, Types
    <3>2. m \in sent /\ handed[m] = 0 /\ m \notin folded \cup unread \cup lost
      BY <2>5 DEF Fate, Held, Carried
    <3> QED  BY <2>1, <2>3, <2>5, <3>1, <3>2 DEF Fate, Held, Carried
  <2> QED  BY <2>4, <2>5
<1>7. ASSUME NEW t \in Turns, Timeout(t) PROVE Fate(m)'
  <2>1. /\ lost' = lost /\ overtaken \subseteq overtaken' /\ sent' = sent /\ folded' = folded
        /\ held' = [held EXCEPT ![t] = {}] /\ carry' = carry /\ SendLeftovers(held[t])
    BY <1>7 DEF Timeout, CloseTurn
  <2>2. held[t] \subseteq Messages  BY CarriedTypes
  <2>3. \/ m \notin held[t] /\ handed'[m] = handed[m] /\ (m \in unread' <=> m \in unread)
        \/ m \in held[t] /\ handed'[m] = handed[m] + 1 /\ (m \in unread' <=> m \in unread)
        \/ m \in held[t] /\ handed'[m] = handed[m] /\ m \in unread'
    BY <2>1, <2>2, LeftoversGo
  <2>4. CASE m \notin held[t]
    BY <2>1, <2>3, <2>4, FateStays DEF Types
  <2>5. CASE m \in held[t]
    <3>1. \A u \in Turns : m \notin held'[u] /\ m \notin carry'[u]
      BY <2>1, <2>5 DEF Fate, Held, Carried, Types
    <3>2. m \in sent /\ handed[m] = 0 /\ m \notin folded \cup unread \cup lost
      BY <2>5 DEF Fate, Held, Carried
    <3> QED  BY <2>1, <2>3, <2>5, <3>1, <3>2 DEF Fate, Held, Carried
  <2> QED  BY <2>4, <2>5
<1>8. ASSUME NEW t \in Turns, ReturnsUnheard(t) PROVE Fate(m)'
  <2>1. /\ held' = held /\ overtaken' = overtaken /\ sent' = sent /\ folded' = folded
        /\ unread' = unread /\ handed' = handed /\ lost' = lost \cup carry[t]
        /\ carry' = [carry EXCEPT ![t] = {}]
    BY <1>8 DEF ReturnsUnheard, steering
  <2>2. CASE m \notin carry[t]
    BY <2>1, <2>2, FateStays DEF Types
  <2>3. CASE m \in carry[t]
    <3>1. \A u \in Turns : m \notin carry'[u]
      BY <2>1, <2>3 DEF Fate, Types
    <3>2. overtaken # {}
      BY <1>8, <2>3 DEF ReturnsUnheard, Phases
    <3> QED  BY <2>1, <2>3, <3>1, <3>2 DEF Fate, Held, Carried
  <2> QED  BY <2>2, <2>3
<1>9. CASE GracefulStop \/ Control \/ (\E k \in Commands : ForcedStop(k)) \/ UNCHANGED vars
            \/ (\E q \in Questions, t \in Turns : ToolAsks(q, t))
            \/ (\E q \in Questions : QuestionIsShown(q) \/ QuestionFails(q) \/ QuestionExpires(q)
                                      \/ PersonAnswers(q))
            \/ (\E t \in Turns : ChatCancel(t) \/ RuntimeStarts(t) \/ StartFails(t))
  BY <1>1, <1>9 DEF GracefulStop, Control, ForcedStop, vars, ToolAsks, QuestionIsShown,
                    QuestionFails, QuestionExpires, PersonAnswers, ChatCancel, RuntimeStarts, StartFails, gateway
<1> QED
  BY <1>2, <1>3, <1>4, <1>5, <1>6, <1>7, <1>8, <1>9 DEF Next, Event, System, Timers

\* The turns where something holds of at most one are none or one.
LEMMA AtMostOne ==
    ASSUME NEW S, \A t, u \in S : t = u
    PROVE  Cardinality(S) = IF S = {} THEN 0 ELSE 1
<1>1. CASE S = {}
  BY <1>1, FS_EmptySet
<1>2. ASSUME NEW t \in S PROVE Cardinality(S) = 1
  <2>1. S = {t}  OBVIOUS
  <2> QED  BY <2>1, FS_Singleton
<1> QED  BY <1>1, <1>2

LEMMA FatesCount == Types /\ Fates => OneFate
<1> SUFFICES ASSUME Types, Fates, NEW m \in sent
             PROVE  IF m \in lost THEN Places(m) = 0 /\ overtaken # {} ELSE Places(m) = 1
  BY DEF OneFate
<1> DEFINE H == {t \in Turns : m \in held[t]}
           C == {t \in Turns : m \in carry[t]}
           F == {m} \cap folded
           U == {m} \cap unread
<1>1. m \in Messages /\ Fate(m)  BY DEF Types, Fates
<1>2. Cardinality(H) = IF H = {} THEN 0 ELSE 1
  <2>1. \A t, u \in H : t = u  BY <1>1 DEF Fate
  <2> HIDE DEF H
  <2> QED  BY <2>1, AtMostOne
<1>3. Cardinality(C) = IF C = {} THEN 0 ELSE 1
  <2>1. \A t, u \in C : t = u  BY <1>1 DEF Fate
  <2> HIDE DEF C
  <2> QED  BY <2>1, AtMostOne
<1>4. Cardinality(F) = IF F = {} THEN 0 ELSE 1
  <2>1. \A t, u \in F : t = u  OBVIOUS
  <2> HIDE DEF F
  <2> QED  BY <2>1, AtMostOne
<1>5. Cardinality(U) = IF U = {} THEN 0 ELSE 1
  <2>1. \A t, u \in U : t = u  OBVIOUS
  <2> HIDE DEF U
  <2> QED  BY <2>1, AtMostOne
<1>6. /\ H # {} <=> Held(m)
      /\ C # {} <=> Carried(m)
      /\ F # {} <=> m \in folded
      /\ U # {} <=> m \in unread
  BY DEF Held, Carried
<1>7. Places(m) = Cardinality(H) + Cardinality(C) + Cardinality(F) + handed[m] + Cardinality(U)
  BY DEF Places
<1>8. handed[m] \in {0, 1}  BY <1>1 DEF Fate, Types
<1> HIDE DEF H, C, F, U
<1> QED  BY <1>1, <1>2, <1>3, <1>4, <1>5, <1>6, <1>7, <1>8 DEF Fate

-----------------------------------------------------------------------------
(* The inductive invariant and the theorems. *)

IInv == Types /\ TurnsAgree /\ QuestionsClosed /\ Stops /\ Fates

LEMMA InitInv == Init => IInv
<1> SUFFICES ASSUME Init PROVE IInv
  OBVIOUS
<1>1. Types  BY InitTypes
<1>2. TurnsAgree /\ QuestionsClosed
  BY DEF Init, SteeringInit, BrokerInit, NoQuestion, TurnsAgree, QuestionsClosed
<1>3. Stops  BY DEF Init, ControlInit, Stops, StopReaches
<1>4. Fates
  BY DEF Init, SteeringInit, Fates, Phases, Fate, Held, Carried
<1> QED  BY <1>1, <1>2, <1>3, <1>4 DEF IInv

(* The knowledge of gateway, broker and steering agrees, questions close with *)
(* their turns, stops reach them, and each message is in one place: together *)
(* an invariant.                                                           *)
THEOREM TurnsInvariant == Spec => []IInv
<1>1. IInv /\ [Next]_vars => IInv'
  <2>1. ASSUME IInv, [Next]_vars PROVE Fates'
    BY <2>1, PhasesStep, FateStep DEF IInv, Fates
  <2> QED  BY <2>1, StepTypes, AgreeStep, QuestionsStep, StopsStep DEF IInv
<1> QED  BY <1>1, InitInv, PTL DEF Spec

(* Type correctness. *)
THEOREM TurnsTypeCorrect == Spec => []TypeOK
<1>1. IInv => TypeOK  BY DEF IInv, Types, TypeOK
<1> QED  BY <1>1, TurnsInvariant, PTL

(* A session has one turn that is live and not aborted, and a new chat.send *)
(* finds it.                                                               *)
THEOREM OneTurnIsLive == Spec => []OneLiveTurn
<1>1. IInv => OneLiveTurn  BY DEF IInv, TurnsAgree, OneLiveTurn
<1> QED  BY <1>1, TurnsInvariant, PTL

(* No question outlives its turn's right to ask, and no tool of an aborted *)
(* turn is told to go ahead.                                               *)
THEOREM QuestionsCloseWithTurns == Spec => []QuestionsClosed
<1>1. IInv => QuestionsClosed  BY DEF IInv
<1> QED  BY <1>1, TurnsInvariant, PTL

(* A forced stop finds the newest turn's controller, and an acknowledgement *)
(* deletes only the marker of a command that aborted a turn.               *)
THEOREM StopsReachTurns == Spec => []StopReaches
<1>1. IInv => StopReaches  BY DEF IInv, Stops
<1> QED  BY <1>1, TurnsInvariant, PTL

(* A steering message is folded once or handed back once, and is never in  *)
(* two places or in none, unless a watchdog overtook its turn's result.    *)
THEOREM MessagesHaveOneFate == Spec => []OneFate
<1>1. IInv => OneFate  BY FatesCount DEF IInv
<1> QED  BY <1>1, TurnsInvariant, PTL
=============================================================================
