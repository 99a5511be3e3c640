--------------------------- MODULE WorkerRegistry ---------------------------
(***************************************************************************)
(* core/src/conversation/ChannelWorkerRegistry.ts over the workers of one  *)
(* channel, and backend/src/services/channel-running-tracker.ts, which     *)
(* turns the worker's events into the channel's persisted running flag.    *)
(* The flag is what ResumeService looks for after a crash.                 *)
(***************************************************************************)
EXTENDS ChannelWorker

CONSTANTS
  NoWorker,     \* the registry has no entry for the channel
  WritesInOrder,  \* does Mongo apply two setRunning updates in the order sent?
  OwnerCalls    \* which closing calls the owner ever makes

Closings == {"close", "closeAll", "drainAll", "shutdown"}

ASSUME RegistryAssumption ==
  /\ NoWorker \notin Workers
  /\ WritesInOrder \in BOOLEAN
  /\ OwnerCalls \subseteq Closings

VARIABLES
  entry,        \* this.workers.get(channelId)
  created,      \* workers the registry has materialised
  bound,        \* the tracker's bound.has(channelId)
  wired,        \* workers whose events the tracker listens to
  leaked,       \* history: has the map been cleared without worker.disposed, and none heard since?
  debounce,     \* is the tracker's 250 ms idle timer pending?
  flagWrites,   \* setRunning updates sent to Mongo and not applied yet
  runningFlag   \* channels.running

registryVars == <<entry, created, bound, wired, leaked, debounce, flagWrites, runningFlag>>
allVars == <<vars, registryVars>>

RegistryTypeOK ==
  /\ entry \in Workers \cup {NoWorker}
  /\ created \in SUBSET Workers
  /\ bound \in BOOLEAN
  /\ wired \in SUBSET Workers
  /\ leaked \in BOOLEAN
  /\ debounce \in BOOLEAN
  /\ flagWrites \in SUBSET BOOLEAN
  /\ runningFlag \in BOOLEAN

RegistryInit ==
  /\ Init
  /\ entry = NoWorker
  /\ created = {}
  /\ bound = FALSE
  /\ wired = {}
  /\ leaked = FALSE
  /\ debounce = FALSE
  /\ flagWrites = {}
  /\ runningFlag = FALSE

-----------------------------------------------------------------------------
(* The tracker's item.started listener has heard of a cohort of w; it may be *)
(* the one that throws, after what it does here.                             *)
TurnBegan(w) == batch'[w] \notin {{}, batch[w]} \/ stranded' # stranded

(* setRunning(v), not awaited: an update that cannot be overtaken replaces  *)
(* the one before it, any other joins it.                                   *)
SetRunning(v) == IF WritesInOrder THEN {v} ELSE flagWrites \cup {v}

(* Mutant: a channel stored as running is not marked again. *)
TrackerSeesIfStored(w, listeners, armed) ==
  IF TurnBegan(w) /\ w \in listeners
    THEN /\ debounce' = FALSE
         /\ flagWrites' = IF runningFlag THEN flagWrites ELSE SetRunning(TRUE)
    ELSE /\ debounce' = armed
         /\ UNCHANGED flagWrites

(* What the tracker hears of a step of w: listeners are the workers whose   *)
(* events reach it, armed says if its debounce is still pending by then.    *)
TrackerSees(w, listeners, armed) ==
  IF TurnBegan(w) /\ w \in listeners
    THEN /\ debounce' = FALSE
         /\ flagWrites' = SetRunning(TRUE)
    ELSE /\ debounce' = armed
         /\ UNCHANGED flagWrites

(* prompt(): getOrCreate, then enqueue, without an await between them. *)
PromptExisting ==
  /\ entry # NoWorker
  /\ Enqueue(entry)
  /\ TrackerSees(entry, wired, debounce)
  /\ UNCHANGED <<entry, created, bound, wired, leaked, runningFlag>>

(* Mutant: the map replaces a closed worker without disposing of it. *)
HearsNextNoDisposal == ~bound

(* Does the tracker wire the next worker of the channel?  A closed one that  *)
(* is still in the map is disposed of first, and the tracker forgets it.     *)
HearsNext == entry # NoWorker \/ ~bound

(* No worker, or one that closed but is still in the map. *)
PromptNew(w) ==
  LET stale == entry # NoWorker
      armed == debounce /\ ~stale
  IN
  /\ stale => lifecycle[entry] \in Closed
  /\ w \notin created
  /\ entry' = w
  /\ created' = created \cup {w}
  /\ bound' = TRUE
  /\ wired' = IF HearsNext THEN wired \cup {w} ELSE wired
  /\ leaked' = (leaked /\ ~HearsNext)
  /\ Enqueue(w)
  /\ TrackerSees(w, wired', armed)
  /\ UNCHANGED runningFlag

(* worker.disposed: the tracker forgets the channel. *)
Dispose ==
  /\ entry' = NoWorker
  /\ bound' = FALSE
  /\ debounce' = FALSE
  /\ leaked' = FALSE

(* close(channelId): the entry goes first, then its worker is shut down. *)
CloseEntry(timers) ==
  /\ entry # NoWorker
  /\ Dispose
  /\ IF lifecycle[entry] \in Closed
       THEN /\ idleTimer' = [v \in Workers |-> idleTimer[v] /\ v \notin timers]
            /\ UNCHANGED <<queue, lifecycle>>
            /\ UNCHANGED itemVars
            /\ UNCHANGED loopVars
       ELSE Close(entry, timers \cup {entry})
  /\ UNCHANGED <<created, wired, flagWrites, runningFlag>>

OwnerCloses == "close" \in OwnerCalls /\ CloseEntry({})

(* closeAll: the map is cleared, and no worker.disposed is emitted. *)
OwnerClosesAll ==
  /\ entry # NoWorker
  /\ \/ "closeAll" \in OwnerCalls /\ ShutdownNow(entry)
     \/ "drainAll" \in OwnerCalls /\ ShutdownDrain(entry)
  /\ entry' = NoWorker
  /\ leaked' = TRUE
  /\ UNCHANGED <<created, bound, wired, debounce, flagWrites, runningFlag>>

(* worker.shutdown on a worker got from the registry, which keeps its entry. *)
OwnerShutsWorker ==
  /\ "shutdown" \in OwnerCalls
  /\ entry # NoWorker
  /\ ShutdownNow(entry) \/ ShutdownDrain(entry)
  /\ UNCHANGED registryVars

(* w's idle timer finds w at rest: onIdleTimeout closes the channel's entry, *)
(* whichever worker that is by now, or returns when there is none. The timer *)
(* runs for five minutes, so the tracker's 250 ms debounce, armed by the     *)
(* same event, has fired before.                                             *)
IdleGc(w) ==
  /\ idleTimer[w] /\ AtRest(w)
  /\ ~debounce
  /\ IF entry # NoWorker
       THEN CloseEntry({w})
       ELSE /\ idleTimer' = [idleTimer EXCEPT ![w] = FALSE]
            /\ UNCHANGED <<queue, lifecycle>>
            /\ UNCHANGED itemVars
            /\ UNCHANGED loopVars
            /\ UNCHANGED registryVars

(* The run loop's steps, with what the tracker hears of them. *)
WorkerTurnEnds(w) ==
  /\ \E r \in {"done", "failed"} : TurnSettles(w, r) \/ SettledListenerThrows(w, r)
  /\ TrackerSees(w, wired, debounce)
  /\ UNCHANGED <<entry, created, bound, wired, leaked, runningFlag>>

(* fatal: the registry drops the channel's entry, then the tracker gives up *)
(* on the worker and clears the flag.                                       *)
WorkerFatal(w) ==
  /\ LoopCatch(w)
  /\ Dispose
  /\ flagWrites' = IF w \in wired THEN SetRunning(FALSE) ELSE flagWrites
  /\ UNCHANGED <<created, wired, runningFlag>>

(* idle: the tracker re-arms its debounce. A closed worker, whose listeners *)
(* are removed here, does not emit it.                                      *)
WorkerLoopEnds(w) ==
  /\ LoopFinally(w)
  /\ debounce' = (debounce \/ (w \in wired /\ lifecycle[w] = "running"))
  /\ UNCHANGED <<entry, created, bound, wired, leaked, flagWrites, runningFlag>>

WorkerDrainEnds(w) == DrainEnds(w) /\ UNCHANGED registryVars

(* handleStopMessage (message-handler.ts:1310), on the registry's worker. *)
StopMessage ==
  /\ entry # NoWorker
  /\ \/ \E kind \in {"soft", "hard"} : Abort(entry, kind)
     \/ ClearQueue(entry)
  /\ UNCHANGED registryVars

TimerSpent(w) == IdleTimerSpent(w) /\ UNCHANGED registryVars

(* Mutant: no update is sent when the stored flag already is what it says. *)
DebounceFiresIfStored ==
  /\ debounce
  /\ debounce' = FALSE
  /\ flagWrites' = IF entry # NoWorker /\ lifecycle[entry] = "idle" /\ runningFlag
                     THEN SetRunning(FALSE) ELSE flagWrites
  /\ UNCHANGED vars
  /\ UNCHANGED <<entry, created, bound, wired, leaked, runningFlag>>

(* The tracker's debounce fires: the flag is cleared if the channel's worker *)
(* is idle at that moment.                                                   *)
DebounceFires ==
  /\ debounce
  /\ debounce' = FALSE
  /\ flagWrites' = IF entry # NoWorker /\ lifecycle[entry] = "idle"
                     THEN SetRunning(FALSE) ELSE flagWrites
  /\ UNCHANGED vars
  /\ UNCHANGED <<entry, created, bound, wired, leaked, runningFlag>>

(* Mongo applies an update; two in flight are applied in either order. *)
FlagWriteApplied(v) ==
  /\ v \in flagWrites
  /\ flagWrites' = flagWrites \ {v}
  /\ runningFlag' = v
  /\ UNCHANGED vars
  /\ UNCHANGED <<entry, created, bound, wired, leaked, debounce>>

-----------------------------------------------------------------------------
RegistryStep(w) ==
  \/ WorkerTurnEnds(w)
  \/ WorkerFatal(w)
  \/ WorkerLoopEnds(w)
  \/ WorkerDrainEnds(w)

RegistryNext ==
  \/ PromptExisting
  \/ \E w \in Workers : PromptNew(w)
  \/ OwnerCloses
  \/ OwnerClosesAll
  \/ OwnerShutsWorker
  \/ StopMessage
  \/ DebounceFires
  \/ \E v \in BOOLEAN : FlagWriteApplied(v)
  \/ \E w \in Workers :
       RegistryStep(w) \/ IdleGc(w) \/ TimerSpent(w)

RegistrySpec == RegistryInit /\ [][RegistryNext]_allVars

(* Microtasks run, turns end, an armed timer fires and Mongo answers. *)
RegistryFairSpec ==
  /\ RegistrySpec
  /\ \A w \in Workers : WF_allVars(RegistryStep(w))
  /\ WF_allVars(DebounceFires)
  /\ \A v \in BOOLEAN : WF_allVars(FlagWriteApplied(v))

-----------------------------------------------------------------------------
(* "single-writer async FIFO worker per channel": a turn always runs in the   *)
(* worker the registry knows, so that two turns of the channel never overlap, *)
(* and stop_message and the idle collector look at the one in flight.         *)
LiveTurnIsEntry ==
  \A w \in Workers : loop[w] = "turn" => entry = w

(* The registry's worker is heard by the tracker, whether it is the first or *)
(* replaces one that was closed, drained or shut down behind the registry's  *)
(* back: getOrCreate disposes of a closed worker first, so that no "phantom  *)
(* worker with no tracker" is left.  closeAll and drainAll, meant for the    *)
(* end of the process, do leave one to whoever prompts after them.           *)
EntryIsWired == entry # NoWorker /\ ~leaked => bound /\ entry \in wired

(* channels.running is "the source of truth to detect conversations that were *)
(* interrupted by a restart": once the updates in flight are applied, a       *)
(* channel with a turn in flight is marked.                                   *)
FlagCoversTurn ==
  (\E w \in Workers : loop[w] = "turn") /\ flagWrites = {} => runningFlag

(* ... and a channel at rest is not: the flag does not get stuck, which would *)
(* wake its agent again after the next restart.                               *)
FlagClearedAtRest ==
  (\A w \in Workers : loop[w] = "none") /\ ~debounce /\ flagWrites = {} => ~runningFlag

(* Collecting a worker "after idleTimeoutMs without activity" stops no turn   *)
(* and drops no prompt, its own or those of a worker that replaced it.        *)
GcSparesWork ==
  [][(\E w \in Workers : IdleGc(w)) => UNCHANGED <<status, abortReason>>]_allVars

(* The channel is one queue of prompts, whichever workers serve it in turn.   *)
(* A worker that goes takes nothing with it, except one whose run loop died:  *)
(* its backlog is lost whole, between two turns, as is a cohort whose turn a  *)
(* listener kept from beginning, and the worker never runs or answers a       *)
(* prompt of them later, beside its replacement.                              *)
Backlog  == IF entry = NoWorker THEN {} ELSE queue[entry]
Cohort   == UNION {batch[w] : w \in Workers}
Answers  == {i \in Items : status[i] \in Settled}
Orphaned == {i \in Items : status[i] = "pending"} \ (Backlog \cup Cohort)

Channel == INSTANCE ChannelQueue WITH
  Prompts  <- Items,
  MayLose  <- StartedListenerMayThrow \/ SettledListenerMayThrow,
  waiting  <- Backlog,
  running  <- Cohort,
  answered <- Answers,
  lost     <- Orphaned

RefinesChannelQueue == Channel!Spec
=============================================================================
