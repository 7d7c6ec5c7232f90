---------------------------- MODULE ImageRenders ----------------------------
(***************************************************************************)
(* Image generation on one device (renderInSlot in                         *)
(* packages/core/src/multimodal/image-generation.ts): a render holds a     *)
(* slot of the device's gate; a render that timed out leaves the engine    *)
(* working on it, and the mark deviceBusyUntil makes the next render wait  *)
(* that out before its own clock starts.                                   *)
(*                                                                         *)
(* The mark is the render it was set for, taken to be over when the engine *)
(* is done with that render: the estimate of what is left is exact.        *)
(***************************************************************************)
EXTENDS ConcurrencyGate

CONSTANT NoRender \* no mark

ASSUME RendersAssumption == NoRender \notin Tasks

VARIABLES
  step,   \* of a call that holds a slot: waiting out an abandoned render, or rendering
  waits,  \* the abandoned render such a call waits for
  mark,   \* deviceBusyUntil: the abandoned render it stands for
  engine, \* abandoned renders the engine is still working on
  single  \* since the device was last at rest its limit has been one (history)

render == <<step, waits, mark, engine, single>>
allVars == <<vars, render>>

RInit ==
  /\ Init
  /\ step = [t \in Tasks |-> "none"]
  /\ waits = [t \in Tasks |-> NoRender]
  /\ mark = NoRender
  /\ engine = {}
  /\ single = (limit = 1)

AtRest == engine = {} /\ \A t \in Tasks : phase[t] \in {"out", "waiting"}
Notes == single' = (limit' = 1 /\ (single \/ AtRest'))

Busy == mark \in engine

\* The start of the work inside the slot: busyFor is read here.
Starts(t) ==
  /\ step' = [step EXCEPT ![t] = IF Busy THEN "delay" ELSE "render"]
  /\ waits' = [waits EXCEPT ![t] = IF Busy THEN mark ELSE NoRender]

\* The limit is read afresh for every call; another task's limit may follow.
REnter(t) ==
  /\ t \notin engine
  /\ Enter(t)
  /\ IF phase'[t] = "working" THEN Starts(t) ELSE UNCHANGED <<step, waits>>
  /\ UNCHANGED <<mark, engine>>
  /\ Notes

RContinue(t) ==
  /\ Continue(t)
  /\ Starts(t)
  /\ UNCHANGED <<mark, engine>>
  /\ Notes

\* The delay is over: its time was that of one abandoned render.
Waited(t) ==
  /\ step[t] = "delay"
  /\ waits[t] = NoRender
  /\ step' = [step EXCEPT ![t] = "render"]
  /\ UNCHANGED <<vars, waits, mark, engine>>
  /\ Notes

Ends(t) ==
  /\ step[t] = "render"
  /\ Finish(t)
  /\ step' = [step EXCEPT ![t] = "none"]
  /\ UNCHANGED waits

\* A finished render clears the mark.
Succeed(t) ==
  /\ Ends(t)
  /\ mark' = NoRender
  /\ UNCHANGED engine
  /\ Notes

Fail(t) ==
  /\ Ends(t)
  /\ UNCHANGED <<mark, engine>>
  /\ Notes

\* Mutant: the device is taken for free after a timeout.
TimeOutUnmarked(t) ==
  /\ Ends(t)
  /\ engine' = engine \union {t}
  /\ UNCHANGED mark
  /\ Notes

\* The request timed out, or the server stopped waiting; the engine goes on.
TimeOut(t) ==
  /\ Ends(t)
  /\ engine' = engine \union {t}
  /\ mark' = t
  /\ Notes

EngineDone(t) ==
  /\ t \in engine
  /\ engine' = engine \ {t}
  /\ waits' = [u \in Tasks |-> IF waits[u] = t THEN NoRender ELSE waits[u]]
  /\ UNCHANGED <<vars, step, mark>>
  /\ Notes

RSetLimit(n) ==
  /\ SetLimit(n)
  /\ UNCHANGED <<step, waits, mark, engine>>
  /\ Notes

RNext ==
  \/ \E t \in Tasks :
       \/ REnter(t) \/ RContinue(t) \/ Waited(t)
       \/ Succeed(t) \/ Fail(t) \/ TimeOut(t) \/ EngineDone(t)
  \/ \E n \in Asked : RSetLimit(n)

RSpec == RInit /\ [][RNext]_allVars

RFairness ==
  \A t \in Tasks :
    /\ WF_allVars(RContinue(t)) /\ WF_allVars(Waited(t)) /\ WF_allVars(EngineDone(t))
    /\ WF_allVars(Succeed(t) \/ Fail(t) \/ TimeOut(t))

RFairSpec == RSpec /\ RFairness

-----------------------------------------------------------------------------
(* Properties *)

RTypeOK ==
  /\ TypeOK
  /\ step \in [Tasks -> {"none", "delay", "render"}]
  /\ waits \in [Tasks -> Tasks \union {NoRender}]
  /\ mark \in Tasks \union {NoRender}
  /\ engine \subseteq Tasks
  /\ single \in BOOLEAN
  /\ \A t \in Tasks : phase[t] = "working" <=> step[t] # "none"

\* A render's clock never starts while the engine still works on a render that
\* was abandoned, as long as the device has rendered one picture at a time: the
\* mark, set by one call, read by the next and cleared by a third, always tells.
CleanStart ==
  [][single => \A t \in Tasks :
       step[t] # "render" /\ step'[t] = "render" => engine = {}]_allVars

\* Every picture asked for is rendered, given up or failed: marks keep nobody
\* in its slot for good.
RendersEnd == \A t \in Tasks : phase[t] = "waiting" ~> phase[t] = "out"

=============================================================================
