----------------------------- MODULE TurnDriver -----------------------------
(***************************************************************************)
(* core/src/conversation/TurnDriver.ts with MessageProcessor.ts: the turns *)
(* of one session over its persisted tool calls, and TurnReconciler.ts,    *)
(* which closes at boot the calls a crash left open.                       *)
(*                                                                         *)
(* A turn is a loop: load the transcript and close what is open in it,     *)
(* call the model, record the tool calls it asks for, run them, begin      *)
(* again.  The worker awaits runTurn, which the turn's deadline rejects    *)
(* while runTurnInner goes on, and a stalled stream is given up while its  *)
(* adapter goes on: from then on two turns write to one transcript.        *)
(* A text, a prompt and a result are left out; a step is counted.          *)
(***************************************************************************)
EXTENDS Integers, FiniteSets

CONSTANTS
  MaxTurns,     \* turns the worker begins
  MaxCalls,     \* tool calls the model asks for in all
  LeftOpen,     \* calls an earlier process may have left open, at most
  MaxSteps,     \* deps.maxSteps
  Parallel,     \* toolExecutionMode = "parallel"
  Hazards       \* what may go wrong, of the kinds below

Kinds == {
  "deadline",       \* turns outlive turnDeadlineMs
  "stall",          \* a stream is given up while a call of it is recorded
  "tooLong",        \* the provider rejects a prompt as too long
  "lostWrites",     \* writePart fails
  "reconcile",      \* the boot pass reconciles the channel while it is in use
  "progressNotes"}  \* the agent has the add-progress-note tool

ASSUME TurnAssumption ==
  /\ MaxTurns \in Nat
  /\ MaxCalls \in Nat
  /\ LeftOpen \in 0 .. MaxCalls
  /\ MaxSteps \in Nat \ {0}
  /\ Parallel \in BOOLEAN
  /\ Hazards \subseteq Kinds

Turns      == 1 .. MaxTurns
Calls      == 1 .. MaxCalls    \* in the order the model asks for them
Reconciler == 0
Readers    == Turns \cup {Reconciler}

VARIABLES
  part,         \* the stored state of each call's ToolPart
  notes,        \* the calls that are progress notes
  turn,         \* turns begun so far; the last one is the worker's
  phase,        \* where runTurnInner of each turn is
  step,         \* its step counter
  aborted,      \* turns whose signal is aborted
  returned,     \* turns whose runTurn has settled
  retrying,     \* turns whose step runs again after a prompt too long
  incoming,     \* calls the adapter has read and not passed on entirely
  toolCalls,    \* the processor's map: calls recorded and not answered
  todo,         \* calls of the dispatch that executeOneTool has not taken up
  executing,    \* calls whose executeTool has not returned
  orphans,      \* what synthesizeOrphans has still to close
  seen,         \* open calls in the prompt of the step
  late,         \* calls that other turns have recorded since the step's load
  asked,        \* calls of the model so far, retries apart
  headers,      \* those whose message took the turn's reserved id
  maxStepsReached, stepResetRequested   \* the session's flags

transcript == <<part, notes>>
loopVars   == <<turn, phase, step, retrying, asked, headers>>
signals    == <<aborted, returned>>
toolVars   == <<incoming, toolCalls, todo, executing>>
views      == <<orphans, seen, late>>
flags      == <<maxStepsReached, stepResetRequested>>
vars == <<transcript, loopVars, signals, toolVars, views, flags>>

Phases == {"none", "top", "synthesize", "call", "stream", "dispatch", "ended"}

TurnTypeOK ==
  /\ part \in [Calls -> {"absent", "running", "completed", "error"}]
  /\ notes \in SUBSET Calls
  /\ turn \in 0 .. MaxTurns
  /\ phase \in [Turns -> Phases]
  /\ step \in [Turns -> Nat]
  /\ aborted \in SUBSET Turns
  /\ returned \in SUBSET Turns
  /\ retrying \in SUBSET Turns
  /\ incoming \in [Turns -> SUBSET Calls]
  /\ toolCalls \in [Turns -> SUBSET Calls]
  /\ todo \in [Turns -> SUBSET Calls]
  /\ executing \in [Turns -> SUBSET Calls]
  /\ orphans \in [Readers -> SUBSET Calls]
  /\ seen \in [Turns -> SUBSET Calls]
  /\ late \in [Turns -> SUBSET Calls]
  /\ asked \in [Turns -> Nat]
  /\ headers \in [Turns -> SUBSET Nat]
  /\ maxStepsReached \in BOOLEAN
  /\ stepResetRequested \in BOOLEAN

Init ==
  /\ \E n \in 0 .. LeftOpen :
       part = [c \in Calls |-> IF c <= n THEN "running" ELSE "absent"]
  /\ notes = {}
  /\ turn = 0
  /\ phase = [t \in Turns |-> "none"]
  /\ step = [t \in Turns |-> 0]
  /\ aborted = {}
  /\ returned = {}
  /\ retrying = {}
  /\ incoming = [t \in Turns |-> {}]
  /\ toolCalls = [t \in Turns |-> {}]
  /\ todo = [t \in Turns |-> {}]
  /\ executing = [t \in Turns |-> {}]
  /\ orphans = [r \in Readers |-> {}]
  /\ seen = [t \in Turns |-> {}]
  /\ late = [t \in Turns |-> {}]
  /\ asked = [t \in Turns |-> 0]
  /\ headers = [t \in Turns |-> {}]
  /\ maxStepsReached = FALSE
  /\ stepResetRequested = FALSE

-----------------------------------------------------------------------------
(* Mutant: a completed call is taken for an open one. *)
OpenUnlessError == {c \in Calls : part[c] \notin {"absent", "error"}}

(* What assertInvariantINV1 (PromptBuilder.ts:517) calls a violation, in what *)
(* the store holds now.                                                       *)
OpenCalls == {c \in Calls : part[c] = "running"}

Active(t) == phase[t] \notin {"none", "ended"}

First(s) == CHOOSE c \in s : \A d \in s : c <= d

(* The stored state of the calls cs becomes state. *)
WriteParts(cs, state) == part' = [c \in Calls |-> IF c \in cs THEN state ELSE part[c]]

(* Mutant: the flags are left to the next turn. *)
EndTurnKeepsFlags(t) ==
  /\ phase' = [phase EXCEPT ![t] = "ended"]
  /\ returned' = returned \cup {t}
  /\ UNCHANGED flags

(* runTurnInner leaves through its finally block and runTurn settles. *)
EndTurn(t) ==
  /\ phase' = [phase EXCEPT ![t] = "ended"]
  /\ returned' = returned \cup {t}
  /\ maxStepsReached' = FALSE
  /\ stepResetRequested' = FALSE

-----------------------------------------------------------------------------
(* The worker calls runTurn when the turn before has settled. *)
StartTurn ==
  /\ turn < MaxTurns
  /\ turn > 0 => turn \in returned
  /\ turn' = turn + 1
  /\ phase' = [phase EXCEPT ![turn + 1] = "top"]
  /\ stepResetRequested' = FALSE
  /\ UNCHANGED <<step, retrying, asked, headers, maxStepsReached>>
  /\ UNCHANGED <<transcript, signals, toolVars, views>>

(* The user's Stop aborts the signal of the worker's turn. *)
Stop(t) ==
  /\ Active(t) /\ t \notin returned
  /\ aborted' = aborted \cup {t}
  /\ UNCHANGED <<returned, transcript, loopVars, toolVars, views, flags>>

(* Mutant: the deadline aborts the signal and waits for the turn to notice. *)
DeadlineAborts(t) ==
  /\ "deadline" \in Hazards
  /\ Active(t) /\ t \notin returned \cup aborted
  /\ aborted' = aborted \cup {t}
  /\ UNCHANGED <<returned, transcript, loopVars, toolVars, views, flags>>

(* withOperationTimeout: the deadline aborts the signal and rejects runTurn. *)
Deadline(t) ==
  /\ "deadline" \in Hazards
  /\ Active(t) /\ t \notin returned
  /\ aborted' = aborted \cup {t}
  /\ returned' = returned \cup {t}
  /\ UNCHANGED <<transcript, loopVars, toolVars, views, flags>>

(* A throw anywhere between the tools of one step and those of the next.  A   *)
(* stream that throws passes on no further call, unless it is the watchdog of *)
(* runWithStall that gave it up: the adapter then goes on with its calls.     *)
TurnThrows(t) ==
  /\ phase[t] \in {"top", "synthesize", "call", "stream"}
  /\ orphans[t] = {}
  /\ EndTurn(t)
  /\ \/ incoming' = [incoming EXCEPT ![t] = {}]
     \/ "stall" \in Hazards /\ UNCHANGED incoming
  /\ UNCHANGED <<turn, step, retrying, asked, headers, aborted>>
  /\ UNCHANGED <<toolCalls, todo, executing, transcript, views>>

(* loadProjectedMessages reads the transcript: an open call in it has to be  *)
(* closed first, otherwise the step goes on to its call of the model, or on  *)
(* a retry to the call it is in.                                             *)
Load(t) ==
  /\ orphans' = [orphans EXCEPT ![t] = OpenCalls]
  /\ seen' = [seen EXCEPT ![t] = OpenCalls]
  /\ late' = [late EXCEPT ![t] = {}]

Loaded(t) == IF t \in retrying' THEN "stream" ELSE "call"

(* The top of the loop: the billing gate, the step limit, the transcript. *)
BeginStep(t) ==
  /\ phase[t] = "top"
  /\ maxStepsReached' = (maxStepsReached \/ step[t] >= MaxSteps)
  /\ Load(t)
  /\ UNCHANGED <<turn, step, retrying, asked, headers, stepResetRequested>>
  /\ phase' = [phase EXCEPT ![t] = IF OpenCalls = {} THEN Loaded(t) ELSE "synthesize"]
  /\ UNCHANGED <<transcript, signals, toolVars>>

(* synthesizeOrphans writes one error result, over whatever is stored by now. *)
Synthesize(r) ==
  /\ orphans[r] # {}
  /\ WriteParts({First(orphans[r])}, "error")
  /\ orphans' = [orphans EXCEPT ![r] = @ \ {First(@)}]
  /\ UNCHANGED <<notes, seen, late, loopVars, signals, toolVars, flags>>

(* Mutant: the turn goes on with the calls that could not be closed. *)
SynthesisGivesUp(t) ==
  /\ "lostWrites" \in Hazards
  /\ phase[t] = "synthesize" /\ orphans[t] # {}
  /\ orphans' = [orphans EXCEPT ![t] = {}]
  /\ UNCHANGED <<seen, late, transcript, loopVars, signals, toolVars, flags>>

(* It gives up after three attempts, and the turn fails. *)
SynthesisFails(t) ==
  /\ "lostWrites" \in Hazards
  /\ phase[t] = "synthesize" /\ orphans[t] # {}
  /\ orphans' = [orphans EXCEPT ![t] = {}]
  /\ EndTurn(t)
  /\ UNCHANGED <<turn, step, retrying, asked, headers, aborted, seen, late>>
  /\ UNCHANGED <<transcript, toolVars>>

(* The transcript is loaded again, and not checked again. *)
Reload(t) ==
  /\ phase[t] = "synthesize" /\ orphans[t] = {}
  /\ seen' = [seen EXCEPT ![t] = OpenCalls]
  /\ UNCHANGED <<turn, step, retrying, asked, headers>>
  /\ phase' = [phase EXCEPT ![t] = Loaded(t)]
  /\ UNCHANGED <<transcript, signals, toolVars, orphans, late, flags>>

(* A new processor with its assistant message, and the stream begins. *)
CallModel(t) ==
  /\ phase[t] = "call"
  /\ phase' = [phase EXCEPT ![t] = "stream"]
  /\ asked' = [asked EXCEPT ![t] = @ + 1]
  /\ headers' = IF step[t] = 0
                  THEN [headers EXCEPT ![t] = @ \cup {asked[t] + 1}] ELSE headers
  /\ toolCalls' = [toolCalls EXCEPT ![t] = {}]
  /\ UNCHANGED <<turn, step, retrying, incoming, todo, executing>>
  /\ UNCHANGED <<transcript, signals, views, flags>>

(* The adapter reads another call from the stream, which an abort ends. *)
ModelAsks(t) ==
  LET new == {c \in Calls : part[c] = "absent" /\ \A s \in Turns : c \notin incoming[s]} IN
  /\ phase[t] = "stream" /\ t \notin aborted
  /\ new # {}
  /\ incoming' = [incoming EXCEPT ![t] = @ \cup {First(new)}]
  /\ UNCHANGED <<toolCalls, todo, executing, transcript, loopVars, signals, views, flags>>

(* handleToolCall for the next of them: it is stored as running and recorded. *)
(* Neither it nor the adapter's loop looks at the signal again, so that the   *)
(* turn may have been stopped, have settled or be over by then.               *)
HandleToolCall(t, note) ==
  LET c == First(incoming[t]) IN
  /\ incoming[t] # {}
  /\ note => "progressNotes" \in Hazards
  /\ incoming' = [incoming EXCEPT ![t] = @ \ {c}]
  /\ WriteParts({c}, "running")
  /\ notes' = IF note THEN notes \cup {c} ELSE notes
  /\ toolCalls' = [toolCalls EXCEPT ![t] = @ \cup {c}]
  /\ late' = [s \in Turns |-> IF s = t THEN late[s] ELSE late[s] \cup {c}]
  /\ UNCHANGED <<todo, executing, orphans, seen, loopVars, signals, flags>>

(* retryWithRecoveredContext keeps the processor.  A compaction is followed   *)
(* by another load; when it fails the window is cut instead.                  *)
PromptTooLong(t) ==
  /\ "tooLong" \in Hazards
  /\ phase[t] = "stream" /\ t \notin aborted \cup retrying /\ incoming[t] = {}
  /\ retrying' = retrying \cup {t}
  /\ \/ /\ Load(t)
        /\ phase' = [phase EXCEPT ![t] = IF OpenCalls = {} THEN Loaded(t) ELSE "synthesize"]
     \/ UNCHANGED <<phase, views>>
  /\ UNCHANGED <<turn, step, asked, headers>>
  /\ UNCHANGED <<transcript, signals, toolVars, flags>>

(* The response, every call of it recorded, asks for its calls to be run. *)
ToolCallsAsked(t) ==
  /\ phase[t] = "stream" /\ incoming[t] = {} /\ toolCalls[t] # {}
  /\ phase' = [phase EXCEPT ![t] = "dispatch"]
  /\ step' = [step EXCEPT ![t] = @ + 1]
  /\ retrying' = retrying \ {t}
  /\ todo' = [todo EXCEPT ![t] = toolCalls[t]]
  /\ UNCHANGED <<turn, asked, headers, incoming, toolCalls, executing>>
  /\ UNCHANGED <<transcript, signals, views, flags>>

(* Any other response completes the turn, also when calls were recorded. *)
Complete(t) ==
  /\ phase[t] = "stream" /\ incoming[t] = {}
  /\ EndTurn(t)
  /\ step' = [step EXCEPT ![t] = @ + 1]
  /\ retrying' = retrying \ {t}
  /\ UNCHANGED <<turn, asked, headers, aborted, transcript, toolVars, views>>

-----------------------------------------------------------------------------
(* executeOneTool, for the calls dispatchToolCalls takes up next: one, or all *)
(* of them in parallel mode.  At the step limit only a progress note is let   *)
(* through; once the signal is aborted nothing is.                            *)
TakenUp(t) == IF Parallel \/ todo[t] = {} THEN todo[t] ELSE {First(todo[t])}

Blocked(t)   == IF maxStepsReached THEN TakenUp(t) \ notes ELSE {}
Cancelled(t) == IF t \in aborted THEN TakenUp(t) \ Blocked(t) ELSE {}
Refused(t)   == Blocked(t) \cup Cancelled(t)

TakeUp(t) ==
  /\ phase[t] = "dispatch" /\ todo[t] # {} /\ executing[t] = {}
  /\ todo' = [todo EXCEPT ![t] = @ \ TakenUp(t)]
  /\ executing' = [executing EXCEPT ![t] = TakenUp(t) \ Refused(t)]

(* Mutant: a refused call gets no result. *)
ExecuteToolsSilently(t) ==
  /\ TakeUp(t)
  /\ toolCalls' = [toolCalls EXCEPT ![t] = @ \ Refused(t)]
  /\ UNCHANGED <<incoming, transcript, loopVars, signals, views, flags>>

ExecuteTools(t) ==
  /\ TakeUp(t)
  /\ WriteParts(Refused(t), "error")
  /\ toolCalls' = [toolCalls EXCEPT ![t] = @ \ Refused(t)]
  /\ UNCHANGED <<notes, incoming, loopVars, signals, views, flags>>

(* A refusal that cannot be stored throws out of the dispatch; the tools begun *)
(* beside it go on.                                                            *)
RefusalThrows(t) ==
  /\ "lostWrites" \in Hazards
  /\ TakeUp(t) /\ Refused(t) # {}
  /\ EndTurn(t)
  /\ UNCHANGED <<turn, step, retrying, asked, headers, aborted, incoming, toolCalls>>
  /\ UNCHANGED <<transcript, views>>

(* handleToolResult.  A progress note that succeeds at the limit asks for the *)
(* counter to be reset.                                                       *)
ToolReturns(t, c, result) ==
  /\ c \in executing[t]
  /\ executing' = [executing EXCEPT ![t] = @ \ {c}]
  /\ toolCalls' = [toolCalls EXCEPT ![t] = @ \ {c}]
  /\ WriteParts({c}, result)
  /\ stepResetRequested' =
       (stepResetRequested \/ (result = "completed" /\ maxStepsReached /\ c \in notes))
  /\ UNCHANGED <<notes, incoming, todo, maxStepsReached, loopVars, signals, views>>

(* A result that cannot be stored: the tool's own is lost without a word, for  *)
(* the part no longer says "running" when the error is handled in its place... *)
ResultLost(t, c) ==
  /\ "lostWrites" \in Hazards
  /\ c \in executing[t]
  /\ executing' = [executing EXCEPT ![t] = @ \ {c}]
  /\ UNCHANGED <<incoming, toolCalls, todo, transcript, loopVars, signals, views, flags>>

(* ... that of a tool that threw throws out of the dispatch, as a refusal does. *)
ResultThrows(t, c) ==
  /\ "lostWrites" \in Hazards
  /\ phase[t] = "dispatch" /\ c \in executing[t]
  /\ executing' = [executing EXCEPT ![t] = @ \ {c}]
  /\ EndTurn(t)
  /\ UNCHANGED <<turn, step, retrying, asked, headers, aborted, incoming, toolCalls, todo>>
  /\ UNCHANGED <<transcript, views>>

ToolsSettled(t) == phase[t] = "dispatch" /\ todo[t] = {} /\ executing[t] = {}

(* Mutant: a message in the queue is served although a tool is still at work.   *)
YieldToQueueEarly(t) ==
  /\ phase[t] = "dispatch" /\ todo[t] = {}
  /\ EndTurn(t)
  /\ UNCHANGED <<turn, step, retrying, asked, headers, aborted>>
  /\ UNCHANGED <<transcript, toolVars, views>>

(* step_end: the counter is reset if asked for, and the loop begins again ... *)
ContinueTurn(t) ==
  /\ ToolsSettled(t)
  /\ phase' = [phase EXCEPT ![t] = "top"]
  /\ step' = IF stepResetRequested THEN [step EXCEPT ![t] = 0] ELSE step
  /\ maxStepsReached' = (maxStepsReached /\ ~stepResetRequested)
  /\ stepResetRequested' = FALSE
  /\ UNCHANGED <<turn, retrying, asked, headers>>
  /\ UNCHANGED <<transcript, signals, toolVars, views>>

(* ... or a message waits in the worker's queue and the turn ends here. *)
YieldToQueue(t) ==
  /\ ToolsSettled(t)
  /\ EndTurn(t)
  /\ step' = IF stepResetRequested THEN [step EXCEPT ![t] = 0] ELSE step
  /\ UNCHANGED <<turn, retrying, asked, headers, aborted>>
  /\ UNCHANGED <<transcript, toolVars, views>>

(* reconcileChannel reads the transcript; its verification changes nothing. *)
Reconcile ==
  /\ "reconcile" \in Hazards
  /\ orphans[Reconciler] = {}
  /\ OpenCalls # {}
  /\ orphans' = [orphans EXCEPT ![Reconciler] = OpenCalls]
  /\ UNCHANGED <<seen, late, transcript, loopVars, signals, toolVars, flags>>

-----------------------------------------------------------------------------
TurnStep(t) ==
  \/ BeginStep(t) \/ SynthesisFails(t) \/ Reload(t)
  \/ CallModel(t) \/ ModelAsks(t) \/ PromptTooLong(t) \/ ToolCallsAsked(t) \/ Complete(t)
  \/ \E note \in BOOLEAN : HandleToolCall(t, note)
  \/ ExecuteTools(t) \/ RefusalThrows(t)
  \/ \E c \in Calls :
       \/ ResultLost(t, c) \/ ResultThrows(t, c)
       \/ \E result \in {"completed", "error"} : ToolReturns(t, c, result)
  \/ ContinueTurn(t) \/ YieldToQueue(t)
  \/ TurnThrows(t) \/ Stop(t) \/ Deadline(t)

Next ==
  \/ StartTurn
  \/ Reconcile
  \/ \E r \in Readers : Synthesize(r)
  \/ \E t \in Turns : TurnStep(t)

Spec == Init /\ [][Next]_vars

(* Nothing is assumed of the model, the tools or the store: only that the     *)
(* deadline's timer fires and that the worker goes on.                        *)
FairSpec ==
  /\ Spec
  /\ WF_vars(StartTurn)
  /\ \A t \in Turns : WF_vars(Deadline(t))

-----------------------------------------------------------------------------
(* "INV-1: every persisted tool_use MUST have a matching tool_result (real or  *)
(* synthetic) before the next LLM call": whatever stops, deadlines, stalls,    *)
(* failed writes and other readers did before, a prompt has an open call in it *)
(* only if another turn, given up with its adapter still at work, recorded it  *)
(* between the load of the transcript and the reload, which nothing checks.    *)
PromptClosed ==
  \A t \in Turns : phase[t] = "stream" => seen[t] \subseteq late[t]

(* The deadline exists so that a frozen dependency never hangs the channel:    *)
(* runTurn settles although model, tools and store may never answer.           *)
TurnReturns == \A t \in Turns : (phase[t] # "none") ~> (t \in returned)

(* A result is not written over: closing what is open never replaces the       *)
(* result of a call that has returned by an error.                             *)
ResultKept ==
  [][\A c \in Calls : part[c] = "completed" => part'[c] = "completed"]_vars

(* The tools at work are open in the transcript: none runs of which the model  *)
(* has been told "Tool execution did not complete".                            *)
RunsOpenCalls == \A t \in Turns : executing[t] \subseteq OpenCalls

(* "the next turn never inherits a stale max-steps or reset flag": tools are   *)
(* blocked exactly in the steps past the limit of the turn they belong to.     *)
BlockedPastLimit ==
  \A t \in Turns : phase[t] = "dispatch" => (maxStepsReached <=> step[t] > MaxSteps)

(* A message in the queue is served between steps, "once every tool of the     *)
(* step has settled with its real result": a turn yields, or goes on, with     *)
(* every call of the session answered, also after a Stop in the middle.        *)
StepsEndClosed == \A t \in Turns : ToolsSettled(t) => OpenCalls = {}

-----------------------------------------------------------------------------
(* What the repository says and the code does not keep *)

(* "Pin the caller-reserved assistant id on the first step only": the header   *)
(* of a turn is one message.                                                   *)
HeaderIsFirst == \A t \in Turns : headers[t] \subseteq {1}
=============================================================================
