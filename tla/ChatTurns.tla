------------------------------ MODULE ChatTurns ------------------------------
(***************************************************************************)
(* gateway/rpc.ts with agent/runtime.ts: the turns of one chat session,    *)
(* their steering, their questions and the ways to stop them.  A turn is   *)
(* started by chat.send, which supersedes the one before; the gateway sends *)
(* its final status when the runtime returns or its watchdog fires, and    *)
(* the runtime of an aborted turn unwinds in its own time.  All turns run  *)
(* in one process.  What the watchdog waits for before it fires, approval  *)
(* prompts, the transcript and the turn's content are left out.            *)
(***************************************************************************)
EXTENDS TurnSteering, UserInput, SessionCancel

CONSTANT MaxEvents    \* bound on what happens besides turns that start and end

VARIABLES
    gw,         \* of each turn, for the gateway: "new", "live", "done"
    rt,         \* of each turn, for the runtime
    carry,      \* of each turn: leftovers in what the runtime returns
    current,    \* the session's entry in liveChatTurnBySession
    aborted,    \* turns the gateway aborted
    sent,       \* history: steering messages that were accepted
    events,     \* how much of what MaxEvents bounds has happened
    overtaken,  \* history: turns whose watchdog fired while they carried
    lost        \* history: messages whose carrier's result was dropped

gateway == <<gw, rt, carry, current, aborted, sent, overtaken, lost>>
vars == <<steering, broker, control, gateway, events>>

Init ==
    /\ SteeringInit
    /\ BrokerInit
    /\ ControlInit
    /\ gw = [t \in Turns |-> "new"]
    /\ rt = [t \in Turns |-> "off"]
    /\ carry = [t \in Turns |-> {}]
    /\ current = NoTurn
    /\ aborted = {}
    /\ events = 0
    /\ sent = {}
    /\ overtaken = {}
    /\ lost = {}

\* The signal of turn t's run is aborted.
Dead(t) == t \in aborted \cup killed

\* liveChatTurnOf: a turn already stopped does not count.
LiveTurn == {t \in Turns : t = current /\ gw[t] = "live"} \ aborted

-----------------------------------------------------------------------------
(* Messages from the person's pages. *)

\* chat.send.  A turn still live is aborted, and its questions are closed;
\* the new one may ask at once, like it may be steered.
Send(t) ==
    /\ gw[t] = "new"
    /\ \A u \in Turns : u < t => gw[u] # "new"
    /\ gw' = [gw EXCEPT ![t] = "live"]
    /\ rt' = [rt EXCEPT ![t] = "starting"]
    /\ current' = t
    /\ aborted' = aborted \cup LiveTurn
    /\ CloseInput(LiveTurn, TRUE, {t})
    /\ Arm(t)
    /\ UNCHANGED <<control, carry, sent, overtaken, lost>>

\* steerChatTurn.
Steer(m) ==
    /\ m \notin sent
    /\ Enqueue(m)
    /\ sent' = sent \cup {m}
    /\ UNCHANGED <<broker, control, gw, rt, carry, current, aborted, overtaken, lost>>

\* chat.cancel, which ends in the turn's own abort.
ChatCancel(t) ==
    /\ gw[t] = "live"
    /\ t \notin aborted
    /\ aborted' = aborted \cup {t}
    /\ CloseInput({t}, TRUE, {})
    /\ UNCHANGED <<steering, control, gw, rt, carry, current, sent, overtaken, lost>>

\* POST stop without force.
GracefulStop ==
    /\ open # {}
    /\ StopRoot
    /\ UNCHANGED <<steering, control, gateway>>

\* POST stop with force, in this process or another.
ForcedStop(k) ==
    /\ Request(k)
    /\ IF k \in Remote THEN UNCHANGED broker ELSE StopRoot
    /\ UNCHANGED <<steering, gateway>>

-----------------------------------------------------------------------------
(* The control plane.  A turn it aborts has the signal of its run aborted. *)

Control ==
    /\ \/ \E k \in Commands : Issue(k) \/ Deliver(k) \/ Lose(k) \/ Acknowledge(k)
       \/ MarkerExpires
       \/ \E t \in Turns : Consume(t)
    /\ SignalAborted(killed')
    /\ UNCHANGED <<steering, gateway>>

-----------------------------------------------------------------------------
(* Questions of the turn's tools, some of which outlive it. *)

\* A tool of turn t calls request; it may have been given no signal.
ToolAsks(q, t) ==
    /\ rt[t] \in {"running", "closing", "ended"}
    /\ \E signalled \in BOOLEAN : Ask(q, t, signalled, Dead(t), t \in aborted)
    /\ UNCHANGED <<steering, control, gateway>>

QuestionIsShown(q) ==
    /\ Show(q, Dead(question[q].turn))
    /\ UNCHANGED <<steering, control, gateway>>

QuestionFails(q) ==
    /\ FailToShow(q, question[q].turn \in aborted)
    /\ UNCHANGED <<steering, control, gateway>>

QuestionExpires(q) ==
    /\ Expire(q, question[q].turn \in aborted)
    /\ UNCHANGED <<steering, control, gateway>>

PersonAnswers(q) ==
    /\ Respond(q)
    /\ UNCHANGED <<steering, control, gateway>>

-----------------------------------------------------------------------------
(* The runtime. *)

\* runTurn is through its start-up: the turn can be aborted by the control
\* plane, and looks for a marker.
RuntimeStarts(t) ==
    /\ rt[t] = "starting"
    /\ Register(t)
    /\ rt' = [rt EXCEPT ![t] = "running"]
    /\ UNCHANGED <<steering, broker, gw, carry, current, aborted, sent, overtaken, lost>>

\* It throws before that.
StartFails(t) ==
    /\ rt[t] = "starting"
    /\ rt' = [rt EXCEPT ![t] = "closing"]
    /\ UNCHANGED <<steering, broker, control, gw, carry, current, aborted, sent,
                   overtaken, lost>>

\* Between two iterations of the turn.
RuntimeDrains(t) ==
    /\ rt[t] = "running"
    /\ ~Dead(t)
    /\ Drain(t)
    /\ UNCHANGED <<broker, control, gateway>>

\* The turn is through, or was aborted: it gives its steering back, which its
\* output or its error carries, and leaves the registry.  A live turn waits
\* for its tools.
RuntimeCloses(t) ==
    /\ rt[t] = "running"
    /\ Dead(t) \/ \A q \in Of({t}) : question[q].signalled =>
                                      question[q].at \notin {"building", "open"}
    /\ CloseTurn(t)
    /\ carry' = [carry EXCEPT ![t] = held[t]]
    /\ Deregister(t)
    /\ rt' = [rt EXCEPT ![t] = "closing"]
    /\ UNCHANGED <<unread, folded, handed, broker, gw, current, aborted, sent,
                   overtaken, lost>>

-----------------------------------------------------------------------------
(* The end of a turn at the gateway. *)

\* Mutant: the session's entry goes, whichever turn's it is.
CleanupAny(t) ==
    /\ gw' = [gw EXCEPT ![t] = "done"]
    /\ current' = NoTurn

\* cleanupTurn, but for the questions.
Cleanup(t) ==
    /\ gw' = [gw EXCEPT ![t] = "done"]
    /\ current' = IF current = t THEN NoTurn ELSE current

\* Mutant: a turn that was superseded or cancelled sends no final status.
ReturnUnlessAborted(t) ==
    /\ rt[t] = "closing"
    /\ gw[t] = "live"
    /\ t \notin aborted
    /\ Cleanup(t)
    /\ CloseInput({t}, FALSE, {})
    /\ CloseTurn(t)
    /\ SendLeftovers(carry[t] \cup held[t])
    /\ carry' = [carry EXCEPT ![t] = {}]
    /\ rt' = [rt EXCEPT ![t] = "ended"]
    /\ UNCHANGED <<folded, control, aborted, sent, overtaken, lost>>

\* runTurn returns or throws, and the final status takes its leftovers; a
\* turn that failed to start left them in its queue.
RuntimeReturns(t) ==
    /\ rt[t] = "closing"
    /\ gw[t] = "live"
    /\ Cleanup(t)
    /\ CloseInput({t}, FALSE, {})
    /\ CloseTurn(t)
    /\ SendLeftovers(carry[t] \cup held[t])
    /\ carry' = [carry EXCEPT ![t] = {}]
    /\ rt' = [rt EXCEPT ![t] = "ended"]
    /\ UNCHANGED <<folded, control, aborted, sent, overtaken, lost>>

\* It returns to a gateway that ended the turn by its watchdog.
ReturnsUnheard(t) ==
    /\ rt[t] = "closing"
    /\ gw[t] = "done"
    /\ lost' = lost \cup carry[t]
    /\ carry' = [carry EXCEPT ![t] = {}]
    /\ rt' = [rt EXCEPT ![t] = "ended"]
    /\ UNCHANGED <<steering, broker, control, gw, current, aborted, sent, overtaken>>

\* endTimedOutSession, whatever the runtime is at.
Timeout(t) ==
    /\ gw[t] = "live"
    /\ aborted' = aborted \cup {t}
    /\ Cleanup(t)
    /\ CloseInput({t}, TRUE, {})
    /\ CloseTurn(t)
    /\ SendLeftovers(held[t])
    /\ overtaken' = IF carry[t] = {} THEN overtaken ELSE overtaken \cup {t}
    /\ UNCHANGED <<folded, control, rt, carry, sent, lost>>

-----------------------------------------------------------------------------

\* What the runtime, the gateway and the broker's timers do by themselves.
System(t) ==
    \/ RuntimeStarts(t)
    \/ RuntimeCloses(t)
    \/ RuntimeReturns(t)
    \/ ReturnsUnheard(t)

Timers ==
    \E q \in Questions : QuestionIsShown(q) \/ QuestionFails(q) \/ QuestionExpires(q)

\* What MaxEvents bounds.
Event ==
    /\ events < MaxEvents
    /\ events' = events + 1
    /\ \/ \E t \in Turns : ChatCancel(t) \/ Timeout(t) \/ StartFails(t)
       \/ \E m \in Messages : Steer(m)
       \/ \E k \in Commands : ForcedStop(k)
       \/ \E q \in Questions, t \in Turns : ToolAsks(q, t)
       \/ GracefulStop

Next ==
    \/ Event
    \/ /\ UNCHANGED events
       /\ \/ \E t \in Turns : Send(t) \/ RuntimeDrains(t) \/ System(t)
          \/ \E q \in Questions : PersonAnswers(q)
          \/ Timers
          \/ Control

\* A run that nothing stops ends by its own deadline; a question has one too,
\* and the building of its payload returns.
Progress == UNCHANGED events /\ ((\E t \in Turns : System(t)) \/ Timers)

Spec == Init /\ [][Next]_vars /\ WF_vars(Progress)

-----------------------------------------------------------------------------
(* Properties. *)

\* Type invariant.
TypeOK ==
    /\ gw \in [Turns -> {"new", "live", "done"}]
    /\ rt \in [Turns -> {"off", "starting", "running", "closing", "ended"}]
    /\ owner \in Turns \cup {NoTurn}
    /\ registered \in Turns \cup {NoTurn}
    /\ current \in Turns \cup {NoTurn}
    /\ marker \in Commands \cup {NoCommand}

\* How many places have message m: a queue, the result of a run, the turn's
\* conversation, a page, the session's leftovers.
Places(m) ==
    Cardinality({t \in Turns : m \in held[t]}) + Cardinality({t \in Turns : m \in carry[t]})
      + Cardinality({m} \cap folded) + handed[m] + Cardinality({m} \cap unread)

\* A steering message that was accepted is in one place until it is either
\* folded into a turn or handed back to a page once, however turns replace,
\* abort and outlive each other.  The one message that is lost is lost with
\* the result of a run whose watchdog fired between its return and its status.
OneFate ==
    \A m \in sent : IF m \in lost THEN Places(m) = 0 /\ overtaken # {}
                                  ELSE Places(m) = 1

\* A question is open only while its turn is, and neither stopped nor, when
\* it listens, aborted; and no tool of a turn the gateway aborted is told that
\* nobody could be asked, which lets it go ahead, but for one whose payload
\* fails to build, which is answered before anything is looked at again.
QuestionsClosed ==
    /\ misled \subseteq {q \in Questions : question[q].at = "unbuilt"}
    /\ \A q \in Questions : question[q].at = "open" =>
         LET x == question[q]
         IN  x.turn \in open \ stopped /\ ~(x.signalled /\ Dead(x.turn))

\* A session has at most one turn that is live and not aborted, and it is the
\* one a new chat.send would find and supersede.
OneLiveTurn ==
    \A t \in Turns : gw[t] = "live" /\ t \notin aborted => current = t

\* A forced stop reaches the newest turn: while it runs, its controller is the
\* one in the registry, unless an older turn registered after it; and
\* the marker an acknowledgement deletes is the one of a command that aborted
\* a turn.
StopReaches ==
    /\ newest # NoTurn /\ rt[newest] = "running" => registered = newest \/ late
    /\ erased \subseteq applied

\* Every turn sends its final status and its runtime ends.
TurnsEnd == <>[](\A t \in Turns : gw[t] # "live" /\ rt[t] \in {"off", "ended"})
=============================================================================
