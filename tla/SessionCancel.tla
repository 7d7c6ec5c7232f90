--------------------------- MODULE SessionCancel ---------------------------
(***************************************************************************)
(* swarm/control.ts with the registry of agent/warden.ts: a forced Stop of *)
(* a session, wherever its turn runs.  A command is a marker in Redis,     *)
(* consumed by the next turn that starts, and an event on the swarm bus    *)
(* (at most once); the process that aborts a turn acknowledges, which      *)
(* deletes the marker.  One session, whose turns run in one process; a     *)
(* command is issued there, where its own event is ignored, or in another. *)
(***************************************************************************)
EXTENDS TurnIds, FiniteSets

CONSTANTS Commands, NoCommand,
          Remote    \* commands issued in another process

ASSUME NoCommandAssumption == NoCommand \notin Commands /\ Remote \subseteq Commands

VARIABLES
    command,    \* of each command: "new", "stopping", "sent"
    marker,     \* the marker in Redis
    bus,        \* events on their way to the turns' process
    acking,     \* acknowledgements whose deletion is under way
    registered, \* the turn whose controller is in the registry
    newest,     \* history: the last turn, by chat.send, that registered
    late,       \* history: the last to register was an older turn than that
    pending,    \* turns whose start-up check of the marker is under way
    killed,     \* turns whose registered controller was aborted
    applied,    \* history: commands that aborted a turn
    erased      \* history: commands whose marker an acknowledgement deleted

registry == <<registered, newest, late>>
control == <<command, marker, bus, acking, registry, pending, killed, applied, erased>>

ControlInit ==
    /\ command = [k \in Commands |-> "new"]
    /\ marker = NoCommand
    /\ bus = {}
    /\ acking = {}
    /\ registered = NoTurn
    /\ newest = NoTurn
    /\ late = FALSE
    /\ pending = {}
    /\ killed = {}
    /\ applied = {}
    /\ erased = {}

\* The turn abortSessionTurnLocally would abort.
Target == {t \in Turns : t = registered /\ t \notin killed}

\* It is called for command k; if it aborts a turn, k is acknowledged.
AbortLocally(k) ==
    /\ killed' = killed \cup Target
    /\ applied' = IF Target = {} THEN applied ELSE applied \cup {k}
    /\ acking' = IF Target = {} THEN acking ELSE acking \cup {k}

\* requestDistributedSessionCancel is called: the marker is being written.
Request(k) ==
    /\ command[k] = "new"
    /\ command' = [command EXCEPT ![k] = "stopping"]
    /\ UNCHANGED <<marker, bus, acking, registry, pending, killed, applied, erased>>

\* The write landed, or Redis did not answer; the event is sent and the own
\* process's turn aborted.
Issue(k) ==
    /\ command[k] = "stopping"
    /\ command' = [command EXCEPT ![k] = "sent"]
    /\ marker' \in {k, marker}
    /\ IF k \in Remote
       THEN bus' = bus \cup {k} /\ UNCHANGED <<killed, applied, acking>>
       ELSE AbortLocally(k) /\ UNCHANGED bus
    /\ UNCHANGED <<registry, pending, erased>>

\* The event reaches the subscriber of startDistributedControl.
Deliver(k) ==
    /\ k \in bus
    /\ bus' = bus \ {k}
    /\ AbortLocally(k)
    /\ UNCHANGED <<command, marker, registry, pending, erased>>

\* Pub/Sub loses it.
Lose(k) ==
    /\ k \in bus
    /\ bus' = bus \ {k}
    /\ UNCHANGED <<command, marker, acking, registry, pending, killed, applied, erased>>

\* acknowledgeCancelApplied: the script deletes only its own command, or Redis
\* does not answer.
Acknowledge(k) ==
    /\ k \in acking
    /\ acking' = acking \ {k}
    /\ \E mine \in SUBSET ({marker} \cap {k}) :
         /\ marker' = IF mine = {} THEN marker ELSE NoCommand
         /\ erased' = erased \cup mine
    /\ UNCHANGED <<command, bus, registry, pending, killed, applied>>

\* The marker's 30 seconds are over.
MarkerExpires ==
    /\ marker # NoCommand
    /\ marker' = NoCommand
    /\ UNCHANGED <<command, bus, acking, registry, pending, killed, applied, erased>>

\* registerSessionAbortController, with the check of the marker sent.
Register(t) ==
    /\ registered' = t
    /\ newest' = IF t < newest THEN newest ELSE t
    /\ late' = (t < newest)
    /\ pending' = pending \cup {t}
    /\ UNCHANGED <<command, marker, bus, acking, killed, applied, erased>>

\* consumePendingSessionCancel: GETDEL, if Redis answers, and the turn that
\* asked is aborted.
Consume(t) ==
    /\ t \in pending
    /\ pending' = pending \ {t}
    /\ \E found \in SUBSET ({marker} \ {NoCommand}) :
         /\ marker' = IF found = {} THEN marker ELSE NoCommand
         /\ killed' = IF found = {} THEN killed ELSE killed \cup {t}
         /\ applied' = IF t \in killed THEN applied ELSE applied \cup found
    /\ UNCHANGED <<command, bus, acking, registry, erased>>

\* Mutant: the session's controller is removed, whichever turn's it is.
DeregisterAny(t) ==
    /\ registered' = NoTurn
    /\ UNCHANGED <<command, marker, bus, acking, newest, late, pending, killed,
                   applied, erased>>

\* deregisterSessionAbortController.
Deregister(t) ==
    /\ registered' = IF registered = t THEN NoTurn ELSE registered
    /\ UNCHANGED <<command, marker, bus, acking, newest, late, pending, killed,
                   applied, erased>>
=============================================================================
