--------------------------- MODULE PromptRecovery ---------------------------
(***************************************************************************)
(* A user's message from the moment it is stored to the moment its stored  *)
(* queueState says "done", across crashes of the backend:                  *)
(*                                                                         *)
(*   ConversationManager.prompt       stores, enqueues and marks it        *)
(*   ChannelRunningTracker            keeps channels.running               *)
(*   ResumeService                    re-drives, at boot, what was cut off *)
(*                                                                         *)
(* The channel's worker is taken at its word: it is the PromptQueue that   *)
(* ChannelWorker implements.  A crash loses the queue, every timer and     *)
(* every write that Mongo has not applied; it keeps queueState and the     *)
(* running flag.                                                           *)
(***************************************************************************)
EXTENDS Naturals, FiniteSets

CONSTANTS
  Channels,       \* conversations
  NoChannel,      \* the session of a message not stored yet
  BoardChannels,  \* those linked to a board task: Autoplay resumes them
  MaxPrompts,     \* bound: users prompt only while fewer messages are stored
  MaxMessages,    \* bound: messages stored, with the pass's own
  MaxCrashes,     \* bound: crashes of the backend
  Hazards         \* what the environment may do beside prompting and crashing

AllHazards == {"purge", "longOutage", "reconcileFails", "noAgent", "replayThrows",
               "promptDuringPass"}

ASSUME RecoveryAssumption ==
  /\ BoardChannels \subseteq Channels
  /\ NoChannel \notin Channels
  /\ MaxPrompts \in Nat /\ MaxMessages \in Nat /\ MaxCrashes \in Nat
  /\ Hazards \subseteq AllHazards

Messages  == 1 .. MaxMessages   \* ids grow with time.created
NoMessage == 0

VARIABLES
  last,         \* newest message stored so far
  channelOf,    \* the session of each stored message
  copyOf,       \* the message a replay stored this one for (NoMessage: none)
  queueState,   \* info.meta.queueState of each message, in Mongo
  withParts,    \* messages whose parts are stored too
  submitting,   \* prompt() calls between createUserMessage and enqueue
  waiting,      \* the worker's backlog
  turn,         \* the cohort of the worker's turn
  settled,      \* prompts whose awaitCompletion has settled
  marks,        \* queueState updates sent and not applied yet
  debounce,     \* channels whose idle timer (250 ms) is armed
  flagWrite,    \* the latest setRunning update not applied yet
  runningFlag,  \* channels.running, in Mongo
  pass,         \* how far ResumeService is
  todo,         \* channels the present stage of the pass has still to visit
  recoverable,  \* channels that the pass found running and reconciled
  toClear,      \* channels whose flag the pass is about to clear
  backlog,      \* messages the pass has still to replay
  replaying,    \* the copy whose replay a channel's loop awaits
  crashes

storeVars == <<last, channelOf, copyOf, queueState, withParts>>
queueVars == <<waiting, turn, settled>>
flagVars  == <<debounce, flagWrite, runningFlag>>
passVars  == <<pass, todo, recoverable, toClear, backlog, replaying>>
vars == <<storeVars, submitting, queueVars, marks, flagVars, passVars, crashes>>

Worker == INSTANCE PromptQueue WITH
  Queues <- Channels, Prompts <- Messages, running <- turn,
  MayLose <- FALSE, lost <- {}   \* no started listener of these turns throws

Open   == {"pending", "running"}   \* what listPendingQueueMessages looks for
Stages == {"off", "due", "reconcile", "replay", "dispatch"}

(* The messages of a channel. *)
Of(c) == {m \in Messages : channelOf[m] = c}

RecoveryTypeOK ==
  /\ last \in 0 .. MaxMessages
  /\ channelOf \in [Messages -> Channels \cup {NoChannel}]
  /\ copyOf \in [Messages -> Messages \cup {NoMessage}]
  /\ queueState \in [Messages -> {"absent", "done"} \cup Open]
  /\ withParts \in SUBSET Messages
  /\ submitting \in SUBSET Messages
  /\ waiting \in [Channels -> SUBSET Messages]
  /\ turn \in [Channels -> SUBSET Messages]
  /\ settled \in SUBSET Messages
  /\ marks \in SUBSET (Messages \X {"running", "done"})
  /\ debounce \in SUBSET Channels
  /\ flagWrite \in [Channels -> {"none", "set", "clear"}]
  /\ runningFlag \in SUBSET Channels
  /\ pass \in Stages
  /\ todo \in SUBSET Channels
  /\ recoverable \in SUBSET Channels
  /\ toClear \in SUBSET Channels
  /\ backlog \in SUBSET Messages
  /\ replaying \in [Channels -> Messages \cup {NoMessage}]
  /\ crashes \in 0 .. MaxCrashes

Init ==
  /\ last = 0
  /\ channelOf = [m \in Messages |-> NoChannel]
  /\ copyOf = [m \in Messages |-> NoMessage]
  /\ queueState = [m \in Messages |-> "absent"]
  /\ withParts = {}
  /\ submitting = {}
  /\ Worker!Init
  /\ marks = {}
  /\ debounce = {}
  /\ flagWrite = [c \in Channels |-> "none"]
  /\ runningFlag = {}
  /\ pass = "off"
  /\ todo = {} /\ recoverable = {} /\ toClear = {} /\ backlog = {}
  /\ replaying = [c \in Channels |-> NoMessage]
  /\ crashes = 0

-----------------------------------------------------------------------------
(* ConversationManager.prompt and the tracker *)

(* createUserMessage, first write: the message, pending and without parts. *)
StoreMessage(c, original) ==
  LET m == last + 1 IN
  /\ m \in Messages
  /\ last' = m
  /\ channelOf' = [channelOf EXCEPT ![m] = c]
  /\ copyOf' = [copyOf EXCEPT ![m] = original]
  /\ queueState' = [queueState EXCEPT ![m] = "pending"]
  /\ submitting' = submitting \cup {m}
  /\ UNCHANGED <<withParts, queueVars, marks, flagVars, crashes>>

UserPrompts(c) ==
  /\ last < MaxPrompts
  /\ pass = "off" \/ "promptDuringPass" \in Hazards
  /\ StoreMessage(c, NoMessage)
  /\ UNCHANGED passVars

StoreParts(m) ==
  /\ m \in submitting \ withParts
  /\ withParts' = withParts \cup {m}
  /\ UNCHANGED <<last, channelOf, copyOf, queueState, submitting, queueVars, marks,
                 flagVars, passVars, crashes>>

(* Mutant: a running channel is not flagged again. *)
FlagTurnOnce(c) ==
  /\ debounce' = debounce \ {c}
  /\ flagWrite' = IF c \in runningFlag THEN flagWrite ELSE [flagWrite EXCEPT ![c] = "set"]

(* item.started: the flag is set, the debounce cancelled. *)
FlagTurn(c) ==
  /\ debounce' = debounce \ {c}
  /\ flagWrite' = [flagWrite EXCEPT ![c] = "set"]

(* Mutant: a started prompt is marked done at once. *)
SubmitMarksDone(m) ==
  LET c == channelOf[m] IN
  /\ m \in submitting \cap withParts
  /\ submitting' = submitting \ {m}
  /\ \/ /\ turn[c] # {}
        /\ Worker!Accept(c, m)
        /\ UNCHANGED <<marks, debounce, flagWrite>>
     \/ /\ Worker!AcceptAndStart(c, m)
        /\ marks' = marks \cup (turn'[c] \X {"done"})
        /\ FlagTurn(c)
  /\ UNCHANGED <<storeVars, runningFlag, passVars, crashes>>

(* Enqueue joins the backlog or starts the turn; awaitStart of the started *)
(* sends the "running" marks, which nobody awaits.                         *)
Submit(m) ==
  LET c == channelOf[m] IN
  /\ m \in submitting \cap withParts
  /\ submitting' = submitting \ {m}
  /\ \/ /\ turn[c] # {}
        /\ Worker!Accept(c, m)
        /\ UNCHANGED <<marks, debounce, flagWrite>>
     \/ /\ Worker!AcceptAndStart(c, m)
        /\ marks' = marks \cup (turn'[c] \X {"running"})
        /\ FlagTurn(c)
  /\ UNCHANGED <<storeVars, runningFlag, passVars, crashes>>

(* runTurn settles, well or badly: prompt() marks each of the cohort done.  *)
(* Nothing orders that update after the "running" one of the same message,  *)
(* which awaitStart's callback sends by itself: either may be applied last. *)
TurnEnds(c) ==
  LET cohort == turn[c]
      next   == waiting[c]
  IN
  /\ Worker!Finish(c, next)
  /\ marks' = marks \cup (cohort \X {"done"}) \cup (next \X {"running"})
  /\ IF next # {} THEN FlagTurn(c)
     ELSE debounce' = debounce \cup {c} /\ UNCHANGED flagWrite
  /\ UNCHANGED <<storeVars, submitting, runningFlag, passVars, crashes>>

(* A hard stop: awaitStart resolves and awaitCompletion rejects in the same *)
(* step, so both marks of a purged prompt are sent, in no given order.      *)
StopPurges(c) ==
  /\ "purge" \in Hazards
  /\ waiting[c] # {}
  /\ Worker!Drop(c)
  /\ marks' = marks \cup (waiting[c] \X {"running", "done"})
  /\ UNCHANGED <<storeVars, submitting, flagVars, passVars, crashes>>

MarkApplied(m, state) ==
  /\ <<m, state>> \in marks
  /\ marks' = marks \ {<<m, state>>}
  /\ queueState' = [queueState EXCEPT ![m] = state]
  /\ UNCHANGED <<last, channelOf, copyOf, withParts, submitting, queueVars, flagVars,
                 passVars, crashes>>

DebounceFires(c) ==
  /\ c \in debounce
  /\ debounce' = debounce \ {c}
  /\ flagWrite' = [flagWrite EXCEPT ![c] = IF turn[c] = {} THEN "clear" ELSE @]
  /\ UNCHANGED <<storeVars, submitting, queueVars, marks, runningFlag, passVars, crashes>>

FlagApplied(c) ==
  /\ flagWrite[c] # "none"
  /\ flagWrite' = [flagWrite EXCEPT ![c] = "none"]
  /\ runningFlag' = IF flagWrite[c] = "set" THEN runningFlag \cup {c} ELSE runningFlag \ {c}
  /\ UNCHANGED <<storeVars, submitting, queueVars, marks, debounce, passVars, crashes>>

-----------------------------------------------------------------------------
(* Crash, restart, and ResumeService's pass STARTUP_DELAY_MS after it *)

Crash ==
  /\ crashes < MaxCrashes
  /\ crashes' = crashes + 1
  /\ submitting' = {}
  /\ waiting' = [c \in Channels |-> {}]
  /\ turn' = [c \in Channels |-> {}]
  /\ marks' = {}
  /\ debounce' = {}
  /\ flagWrite' = [c \in Channels |-> "none"]
  /\ pass' = "due"
  /\ todo' = {} /\ recoverable' = {} /\ toClear' = {} /\ backlog' = {}
  /\ replaying' = [c \in Channels |-> NoMessage]
  /\ UNCHANGED <<storeVars, settled, runningFlag>>

Enters(stage) == pass' = stage

(* find({running: true}); a channel flagged too long ago is a zombie. *)
FindRunning ==
  /\ pass = "due"
  /\ \E zombies \in IF "longOutage" \in Hazards THEN SUBSET runningFlag ELSE {{}} :
       /\ toClear' = zombies
       /\ todo' = runningFlag \ zombies
  /\ Enters(IF runningFlag = {} THEN "off" ELSE "reconcile")
  /\ UNCHANGED <<storeVars, submitting, queueVars, marks, flagVars, recoverable,
                 backlog, replaying, crashes>>

(* An awaited update of the pass that clears a flag is applied. *)
ClearFlag(c) ==
  /\ c \in toClear
  /\ toClear' = toClear \ {c}
  /\ runningFlag' = runningFlag \ {c}
  /\ UNCHANGED <<storeVars, submitting, queueVars, marks, debounce, flagWrite, pass,
                 todo, recoverable, backlog, replaying, crashes>>

(* reconcileOrphansAcross: a channel whose orphans cannot be closed is left. *)
Reconcile(c) ==
  /\ pass = "reconcile" /\ toClear = {}
  /\ c \in todo
  /\ todo' = todo \ {c}
  /\ \/ recoverable' = recoverable \cup {c} /\ UNCHANGED toClear
     \/ "reconcileFails" \in Hazards /\ toClear' = {c} /\ UNCHANGED recoverable
  /\ UNCHANGED <<storeVars, submitting, queueVars, marks, flagVars, pass, backlog,
                 replaying, crashes>>

(* Mutant: only the prompts that had started are looked for. *)
ListRunning ==
  LET pending == {m \in Messages : channelOf[m] \in recoverable /\ queueState[m] = "running"} IN
  /\ pass = "reconcile" /\ toClear = {} /\ todo = {}
  /\ backlog' = pending
  /\ toClear' = IF pending = {} THEN recoverable ELSE {}
  /\ Enters("replay")
  /\ UNCHANGED <<storeVars, submitting, queueVars, marks, flagVars, todo, recoverable,
                 replaying, crashes>>

(* listPendingQueueMessages, over every recovered channel at once. *)
ListPending ==
  LET pending == {m \in Messages : channelOf[m] \in recoverable /\ queueState[m] \in Open} IN
  /\ pass = "reconcile" /\ toClear = {} /\ todo = {}
  /\ backlog' = pending
  /\ toClear' = IF pending = {} THEN recoverable ELSE {}
  /\ Enters("replay")
  /\ UNCHANGED <<storeVars, submitting, queueVars, marks, flagVars, todo, recoverable,
                 replaying, crashes>>

(* Mutant: a message stays in the list until it can be replayed. *)
NextReplayRetries(c, m) ==
  /\ pass = "replay"
  /\ replaying[c] = NoMessage
  /\ m \in backlog \cap Of(c)
  /\ \A n \in backlog \cap Of(c) : m <= n
  /\ backlog' = IF m \in withParts THEN backlog \ {m} ELSE backlog

(* The next message of a channel, once the replay before it has returned. *)
NextReplay(c, m) ==
  /\ pass = "replay"
  /\ replaying[c] = NoMessage
  /\ m \in backlog \cap Of(c)
  /\ \A n \in backlog \cap Of(c) : m <= n
  /\ backlog' = backlog \ {m}

(* The hook (server-bootstrap.ts:855) hands the text to                   *)
(* processAgentResponse, which prompts afresh:                            *)
(* the copy is a new message, and the original is left as it is.          *)
Replay(c, m) ==
  /\ NextReplay(c, m)
  /\ m \in withParts
  /\ StoreMessage(c, m)
  /\ replaying' = [replaying EXCEPT ![c] = last']
  /\ UNCHANGED <<pass, todo, recoverable, toClear>>

(* Nothing to replay, or a hook that throws: the original is marked done. *)
DropReplay(c, m) ==
  /\ NextReplay(c, m)
  /\ m \notin withParts \/ "replayThrows" \in Hazards
  /\ queueState' = [queueState EXCEPT ![m] = "done"]
  /\ UNCHANGED <<last, channelOf, copyOf, withParts, submitting, queueVars, marks,
                 flagVars, pass, todo, recoverable, toClear, replaying, crashes>>

(* The channel has no agent: the hook returns at once (server-bootstrap.ts:857). *)
SkipReplay(c, m) ==
  /\ "noAgent" \in Hazards
  /\ NextReplay(c, m)
  /\ m \in withParts
  /\ UNCHANGED <<storeVars, submitting, queueVars, marks, flagVars, pass, todo,
                 recoverable, toClear, replaying, crashes>>

(* Mutant: the replay is not awaited. *)
ReplayReturnsEarly(c) ==
  /\ replaying[c] # NoMessage
  /\ replaying' = [replaying EXCEPT ![c] = NoMessage]
  /\ UNCHANGED <<storeVars, submitting, queueVars, marks, flagVars, pass, todo,
                 recoverable, toClear, backlog, crashes>>

(* processAgentResponse returns, whatever became of the turn, after the copy's *)
(* prompt() has marked it done.                                                *)
ReplayReturns(c) ==
  /\ replaying[c] \in settled
  /\ <<replaying[c], "done">> \notin marks
  /\ replaying' = [replaying EXCEPT ![c] = NoMessage]
  /\ UNCHANGED <<storeVars, submitting, queueVars, marks, flagVars, pass, todo,
                 recoverable, toClear, backlog, crashes>>

StartDispatch ==
  /\ pass = "replay" /\ toClear = {}
  /\ backlog = {} /\ \A c \in Channels : replaying[c] = NoMessage
  /\ todo' = recoverable
  /\ Enters("dispatch")
  /\ UNCHANGED <<storeVars, submitting, queueVars, marks, flagVars, recoverable,
                 toClear, backlog, replaying, crashes>>

(* A board task's channel is Autoplay's. *)
LeaveToAutoplay(c) ==
  /\ pass = "dispatch"
  /\ c \in todo \cap BoardChannels
  /\ todo' = todo \ {c}
  /\ UNCHANGED <<storeVars, submitting, queueVars, marks, flagVars, pass, recoverable,
                 toClear, backlog, replaying, crashes>>

(* triggerResumeEvent on a flagged channel: the agent is woken by a prompt. *)
WakeAgent(c) ==
  /\ pass = "dispatch" /\ toClear = {}
  /\ c \in (todo \ BoardChannels) \cap runningFlag
  /\ todo' = todo \ {c}
  /\ StoreMessage(c, NoMessage)
  /\ UNCHANGED <<pass, recoverable, toClear, backlog, replaying>>

(* ... and on one that is not: the flag is cleared once more. *)
FindFinished(c) ==
  /\ pass = "dispatch" /\ toClear = {}
  /\ c \in (todo \ BoardChannels) \ runningFlag
  /\ todo' = todo \ {c}
  /\ toClear' = {c}
  /\ UNCHANGED <<storeVars, submitting, queueVars, marks, flagVars, pass, recoverable,
                 backlog, replaying, crashes>>

PassEnds ==
  /\ pass = "dispatch" /\ todo = {} /\ toClear = {}
  /\ recoverable' = {}
  /\ Enters("off")
  /\ UNCHANGED <<storeVars, submitting, queueVars, marks, flagVars, todo, toClear,
                 backlog, replaying, crashes>>

-----------------------------------------------------------------------------
PassStep ==
  \/ FindRunning \/ ListPending \/ StartDispatch \/ PassEnds
  \/ \E c \in Channels :
       \/ ClearFlag(c) \/ Reconcile(c) \/ ReplayReturns(c)
       \/ \E m \in Messages : Replay(c, m) \/ DropReplay(c, m) \/ SkipReplay(c, m)
       \/ LeaveToAutoplay(c) \/ WakeAgent(c) \/ FindFinished(c)

Next ==
  \/ \E c \in Channels :
       UserPrompts(c) \/ TurnEnds(c) \/ StopPurges(c) \/ DebounceFires(c) \/ FlagApplied(c)
  \/ \E m \in Messages :
       \/ StoreParts(m) \/ Submit(m)
       \/ \E state \in {"running", "done"} : MarkApplied(m, state)
  \/ PassStep
  \/ Crash

Spec == Init /\ [][Next]_vars

(* Microtasks and timers run, Mongo answers, and a turn ends by its deadline. *)
FairSpec ==
  /\ Spec
  /\ WF_vars(PassStep)
  /\ \A c \in Channels :
       WF_vars(TurnEnds(c)) /\ WF_vars(DebounceFires(c)) /\ WF_vars(FlagApplied(c))
  /\ \A m \in Messages :
       /\ WF_vars(StoreParts(m)) /\ WF_vars(Submit(m))
       /\ \A state \in {"running", "done"} : WF_vars(MarkApplied(m, state))

-----------------------------------------------------------------------------
(* A prompt that prompt() or the worker still holds. *)
Live(m) ==
  \/ m \in submitting
  \/ \E c \in Channels : m \in waiting[c] \cup turn[c]
  \/ <<m, "done">> \in marks

(* A replay of m ran to its end. *)
Redriven(m) == \E copy \in settled : copyOf[copy] = m

(* "user messages left pending/running in the worker FIFO at crash time get   *)
(* re-driven": a crash at any moment takes out of a worker only what the pass *)
(* finds, an open message of a channel whose running flag is stored, whatever *)
(* the debounce and the pass itself clear meanwhile; or the write that flags  *)
(* the channel is still under way.                                            *)
HeldIsFound ==
  \A c \in Channels : \A m \in waiting[c] \cup turn[c] :
    /\ queueState[m] \in Open
    /\ flagWrite[c] = "set" \/ (flagWrite[c] = "none" /\ c \in runningFlag)

(* "messages within a channel must be replayed in order": a replay is the     *)
(* only one of its channel, and older than all that are left.                 *)
ReplaysInOrder ==
  \A c \in Channels : \A copy \in Of(c) :
    pass = "replay" /\ Live(copy) /\ copyOf[copy] # NoMessage =>
      /\ replaying[c] = copy
      /\ \A m \in backlog \cap Of(c) : copyOf[copy] < m

(* When the pass goes on to wake agents, no prompt of the channels it         *)
(* recovered that is still open and was never answered has been passed over.  *)
NoneForgotten ==
  pass = "dispatch" =>
    \A m \in Messages :
      channelOf[m] \in recoverable /\ queueState[m] \in Open =>
        m \in settled \/ Live(m) \/ Redriven(m)

(* The pass ends, however often it is itself cut off. *)
RecoveryEnds == (pass # "off") ~> (pass = "off")
=============================================================================
