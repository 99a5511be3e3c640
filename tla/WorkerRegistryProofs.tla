------------------------ MODULE WorkerRegistryProofs ------------------------
(***************************************************************************)
(* Whatever its owner closes, the registry's worker is heard by the        *)
(* tracker.  The rest is about the registry as deployed, where nobody      *)
(* closes a worker but its own idle timer: for any number of workers and   *)
(* prompts, with enqueues in the exit microtasks and throwing listeners,   *)
(* turns of a channel never overlap, its running flag tells the truth, and *)
(* its workers are one ChannelQueue.                                       *)
(***************************************************************************)
EXTENDS WorkerRegistry, ChannelWorkerProofs

Deployed == OwnerCalls = {}

(* The map's worker takes prompts. *)
EntryIsOpen == entry # NoWorker => entry \in created /\ lifecycle[entry] \notin Closed

(* A worker that lost its entry takes no turn again and is never collected:  *)
(* it is closed, or it crashed, and its current item was never cleared.      *)
DropoutIsOver ==
  \A w \in created : w # entry =>
    /\ loop[w] \in {"none", "exiting"}
    /\ lifecycle[w] \in Closed \/ current[w] # NoItem

UncreatedIsFresh ==
  \A w \in Workers \ created : loop[w] = "none" /\ lifecycle[w] = "idle" /\ ~idleTimer[w]

(* What a worker's own fields say of each other. *)
LoopAndLife ==
  \A w \in Workers :
    /\ lifecycle[w] = "running" => loop[w] # "none"
    /\ loop[w] = "crashed" => current[w] # NoItem

TrackerFollows == ~leaked /\ EntryIsWired /\ (entry = NoWorker => ~bound)

RInv ==
  /\ IInv /\ RegistryTypeOK
  /\ EntryIsOpen /\ DropoutIsOver /\ UncreatedIsFresh /\ LoopAndLife /\ TrackerFollows

-----------------------------------------------------------------------------
(* What a prompt does to the worker it is given to. *)
LEMMA EnqueueFacts ==
  ASSUME IInv, NEW w \in Workers, Enqueue(w)
  PROVE  /\ IInv'
         /\ lifecycle[w] \notin Closed
         /\ idleTimer' = [idleTimer EXCEPT ![w] = FALSE]
         /\ \A v \in Workers \ {w} : current'[v] = current[v] /\ loop'[v] = loop[v]
         /\ \/ /\ loop[w] = "none"
               /\ \/ loop'[w] = "turn"
                  \/ loop'[w] = "crashed" /\ StartedListenerMayThrow
               /\ lifecycle' = [lifecycle EXCEPT ![w] = "running"]
               /\ TurnBegan(w) /\ current'[w] # NoItem
            \/ /\ loop[w] # "none" /\ ~TurnBegan(w)
               /\ UNCHANGED <<loop, lifecycle, batch, current>>
<1>1. IInv'
  BY EnqueueKeeps
<1>2. CASE loop[w] = "none"
  <2>. DEFINE backlog == queue[w] \cup {last + 1}
  <2>1. /\ lifecycle' = [lifecycle EXCEPT ![w] = "running"]
        /\ StartTurn(w, backlog) /\ last + 1 \in Items
    BY <1>2, WorkerAssumption DEF Enqueue, IInv, TypeOK, Items
  <2>2. backlog \in SUBSET Items /\ last + 1 \notin stranded /\ batch[w] = {}
    BY <1>2, <2>1 DEF IInv, TypeOK, TurnOwnsLoop, IdsInOrder, ItemsAccounted, Items
  <2>3. last + 1 \in backlog
    OBVIOUS
  <2>. HIDE DEF backlog
  <2>4. StartShows(w, backlog)
    BY <2>1, <2>2, StartFacts DEF IInv
  <2>5. TurnBegan(w)
    BY <2>2, <2>3, <2>4 DEF StartShows, TurnBegan
  <2>6. current'[w] # NoItem
    BY <2>2, <2>4 DEF StartShows, Items, NoItem
  <2>. QED  BY <1>1, <1>2, <2>1, <2>4, <2>5, <2>6 DEF Enqueue, StartShows
<1>3. CASE loop[w] # "none"
  <2>1. UNCHANGED <<lifecycle, stranded, batch, current, loop>>
    BY <1>3 DEF Enqueue, loopVars
  <2>. QED  BY <1>1, <1>3, <2>1 DEF Enqueue, TurnBegan
<1>. QED  BY <1>2, <1>3

(* What the end of a turn does to its worker. *)
LEMMA TurnEndFacts ==
  ASSUME IInv, NEW w \in Workers, NEW r \in {"done", "failed"},
         TurnSettles(w, r) \/ SettledListenerThrows(w, r)
  PROVE  /\ IInv'
         /\ loop[w] = "turn" /\ UNCHANGED <<lifecycle, idleTimer>>
         /\ \A v \in Workers \ {w} : current'[v] = current[v] /\ loop'[v] = loop[v]
         /\ \/ loop'[w] = "turn" /\ TurnBegan(w)
            \/ loop'[w] = "exiting"
            \/ /\ loop'[w] = "crashed" /\ current'[w] # NoItem
               /\ StartedListenerMayThrow \/ SettledListenerMayThrow
<1>1. IInv'
  BY TurnSettlesKeeps, SettledListenerThrowsKeeps
<1>2. CASE SettledListenerThrows(w, r)
  <2>1. current[w] # NoItem
    BY <1>2 DEF SettledListenerThrows, IInv, TypeOK, TurnOwnsLoop, Items, NoItem
  <2>. QED  BY <1>1, <1>2, <2>1 DEF SettledListenerThrows, IInv, TypeOK
<1>3. CASE TurnSettles(w, r) /\ StartTurn(w, queue[w]) /\ queue[w] # {}
  <2>1. batch[w] \cap queue[w] = {} /\ queue[w] \in SUBSET Items
    BY DEF IInv, ItemsAccounted, TypeOK
  <2>2. StartShows(w, queue[w])
    BY <1>3, <2>1, StartFacts DEF IInv
  <2>3. current'[w] # NoItem /\ (loop'[w] = "turn" => TurnBegan(w))
    BY <1>3, <2>1, <2>2 DEF StartShows, TurnBegan, Items, NoItem
  <2>. QED  BY <1>1, <1>3, <2>2, <2>3 DEF TurnSettles, StartShows
<1>4. CASE TurnSettles(w, r) /\ batch' = [batch EXCEPT ![w] = {}]
           /\ current' = [current EXCEPT ![w] = NoItem] /\ loop' = [loop EXCEPT ![w] = "exiting"]
  BY <1>1, <1>4 DEF TurnSettles, IInv, TypeOK
<1>. QED  BY <1>2, <1>3, <1>4 DEF TurnSettles

(* The worker an idle timer finds at rest is the registry's own. *)
LEMMA CollectedIsEntry ==
  ASSUME RInv, NEW w \in Workers, idleTimer[w], AtRest(w)
  PROVE  entry = w /\ entry # NoWorker
BY RegistryAssumption DEF RInv, DropoutIsOver, UncreatedIsFresh, AtRest, Closed

(* ... so that collecting it purges nothing and aborts nothing. *)
LEMMA CollectFacts ==
  ASSUME RInv, NEW w \in Workers, IdleGc(w)
  PROVE  /\ entry = w /\ entry' = NoWorker /\ bound' = FALSE /\ leaked' = FALSE
         /\ debounce = FALSE /\ debounce' = FALSE
         /\ IInv'
         /\ UNCHANGED <<status, abortReason, loop, current, batch>>
         /\ lifecycle' = [lifecycle EXCEPT ![w] = "shutdown"]
         /\ lifecycle[w] = "idle" /\ loop[w] = "none"
         /\ \A v \in Workers : idleTimer'[v] => idleTimer[v]
         /\ UNCHANGED <<created, wired, flagWrites, runningFlag>>
<1>1. entry = w /\ entry # NoWorker /\ AtRest(w) /\ ~debounce
  BY CollectedIsEntry DEF IdleGc
<1>2. CloseEntry({w}) /\ lifecycle[w] = "idle" /\ loop[w] = "none"
  BY <1>1 DEF IdleGc, AtRest, RInv, IInv, TurnOwnsLoop
<1>3. Close(w, {w} \cup {w}) /\ Dispose /\ UNCHANGED <<created, wired, flagWrites, runningFlag>>
  BY <1>1, <1>2 DEF CloseEntry, Closed
<1>4. IInv'
  BY <1>3, CloseKeeps DEF RInv
<1>5. status' = status
  BY <1>1, <1>3 DEF Close, PurgeQueue, Settle, AtRest, RInv, IInv, TypeOK
<1>6. abortReason' = abortReason
  BY <1>1, <1>3 DEF Close, AbortCurrent, AtRest, RInv, IInv, TypeOK
<1>. QED  BY <1>1, <1>2, <1>3, <1>4, <1>5, <1>6 DEF Close, Dispose, RInv, RegistryTypeOK

-----------------------------------------------------------------------------
LEMMA SetRunningTyped ==
  ASSUME RegistryTypeOK, NEW v \in BOOLEAN
  PROVE  SetRunning(v) \in SUBSET BOOLEAN
BY DEF SetRunning, RegistryTypeOK

LEMMA SeesTyped ==
  ASSUME RegistryTypeOK, NEW w, NEW listeners, NEW armed \in BOOLEAN,
         TrackerSees(w, listeners, armed)
  PROVE  debounce' \in BOOLEAN /\ flagWrites' \in SUBSET BOOLEAN
BY SetRunningTyped DEF TrackerSees, RegistryTypeOK

(* The parts of the invariant the registry's own steps work with. *)
WorkerTypes ==
  /\ loop \in [Workers -> LoopStates] /\ lifecycle \in [Workers -> Lifecycles]
  /\ idleTimer \in [Workers -> BOOLEAN] /\ current \in [Workers -> Items \cup {NoItem}]

Owned == EntryIsOpen /\ DropoutIsOver /\ UncreatedIsFresh /\ LoopAndLife /\ TrackerFollows

LEMMA Parts == RInv <=> IInv /\ RegistryTypeOK /\ Owned
BY DEF RInv, Owned

LEMMA WorkersTyped == IInv => WorkerTypes
BY DEF IInv, TypeOK, WorkerTypes

LEMMA PromptExistingKeeps ==
  ASSUME RInv, PromptExisting
  PROVE  RInv'
<1>1. /\ entry \in Workers /\ Enqueue(entry) /\ TrackerSees(entry, wired, debounce)
      /\ UNCHANGED <<entry, created, bound, wired, leaked, runningFlag>>
  BY DEF PromptExisting, RInv, RegistryTypeOK
<1>2. IInv /\ RegistryTypeOK /\ Owned /\ WorkerTypes
  BY Parts, WorkersTyped
<1>3. RegistryTypeOK'
  BY <1>1, <1>2, SeesTyped DEF RegistryTypeOK
<1>4. /\ IInv' /\ lifecycle[entry] \notin Closed
      /\ idleTimer' = [idleTimer EXCEPT ![entry] = FALSE]
      /\ \A v \in Workers \ {entry} : current'[v] = current[v] /\ loop'[v] = loop[v]
      /\ \/ /\ loop'[entry] \in {"turn", "crashed"} /\ current'[entry] # NoItem
            /\ lifecycle' = [lifecycle EXCEPT ![entry] = "running"]
         \/ UNCHANGED <<loop, lifecycle, current>>
  BY <1>1, <1>2, EnqueueFacts
<1>5. entry \in created
  BY <1>1, <1>2, RegistryAssumption DEF Owned, EntryIsOpen
<1>6. EntryIsOpen' /\ TrackerFollows'
  BY <1>1, <1>2, <1>4, <1>5 DEF Owned, EntryIsOpen, TrackerFollows, EntryIsWired, WorkerTypes,
     Closed
<1>7. LoopAndLife'
  BY <1>1, <1>2, <1>4 DEF Owned, LoopAndLife, WorkerTypes
<1>8. UncreatedIsFresh' /\ DropoutIsOver'
  BY <1>1, <1>2, <1>4, <1>5 DEF Owned, UncreatedIsFresh, DropoutIsOver, WorkerTypes, RegistryTypeOK
<1>. QED  BY <1>3, <1>4, <1>6, <1>7, <1>8 DEF RInv

LEMMA PromptNewFacts ==
  ASSUME RInv, NEW w \in Workers, PromptNew(w)
  PROVE  /\ entry = NoWorker /\ ~bound /\ w \notin created
         /\ entry' = w /\ created' = created \cup {w} /\ bound' = TRUE /\ leaked' = FALSE
         /\ wired' = wired \cup {w} /\ runningFlag' = runningFlag
         /\ Enqueue(w) /\ loop[w] = "none"
         /\ TrackerSees(w, wired', debounce)
<1>1. entry = NoWorker
  BY DEF PromptNew, RInv, EntryIsOpen
<1>. QED  BY <1>1 DEF PromptNew, HearsNext, RInv, TrackerFollows, UncreatedIsFresh, RegistryTypeOK

LEMMA PromptNewKeeps ==
  ASSUME RInv, NEW w \in Workers, PromptNew(w)
  PROVE  RInv'
<1>1. /\ entry = NoWorker /\ ~bound /\ w \notin created
      /\ entry' = w /\ created' = created \cup {w} /\ bound' = TRUE /\ leaked' = FALSE
      /\ wired' = wired \cup {w} /\ runningFlag' = runningFlag
      /\ Enqueue(w) /\ loop[w] = "none" /\ TrackerSees(w, wired', debounce)
  BY PromptNewFacts
<1>2. IInv /\ RegistryTypeOK /\ Owned /\ WorkerTypes
  BY Parts, WorkersTyped
<1>3. RegistryTypeOK'
  BY <1>1, <1>2, SeesTyped DEF RegistryTypeOK
<1>4. /\ IInv' /\ loop'[w] \in {"turn", "crashed"} /\ current'[w] # NoItem
      /\ lifecycle' = [lifecycle EXCEPT ![w] = "running"]
      /\ idleTimer' = [idleTimer EXCEPT ![w] = FALSE]
      /\ \A v \in Workers \ {w} : current'[v] = current[v] /\ loop'[v] = loop[v]
  BY <1>1, <1>2, EnqueueFacts
<1>5. created \subseteq Workers /\ \A v \in created : v # entry /\ v # w
  BY <1>1, <1>2, RegistryAssumption DEF RegistryTypeOK
<1>6. EntryIsOpen' /\ TrackerFollows'
  BY <1>1, <1>2, <1>4, RegistryAssumption DEF Owned, WorkerTypes, EntryIsOpen, TrackerFollows,
     EntryIsWired, Closed
<1>7. UncreatedIsFresh' /\ LoopAndLife'
  BY <1>1, <1>2, <1>4 DEF Owned, WorkerTypes, UncreatedIsFresh, LoopAndLife
<1>8. DropoutIsOver'
  BY <1>1, <1>2, <1>4, <1>5 DEF Owned, WorkerTypes, DropoutIsOver
<1>. QED  BY <1>3, <1>4, <1>6, <1>7, <1>8 DEF RInv

LEMMA TurnEndKeeps ==
  ASSUME RInv, NEW w \in Workers, WorkerTurnEnds(w)
  PROVE  RInv' /\ entry = w /\ loop[w] = "turn"
<1>1. IInv /\ RegistryTypeOK /\ Owned /\ WorkerTypes
  BY Parts, WorkersTyped
<1>2. PICK r \in {"done", "failed"} : TurnSettles(w, r) \/ SettledListenerThrows(w, r)
  BY DEF WorkerTurnEnds
<1>3. UNCHANGED <<entry, created, bound, wired, leaked, runningFlag>> /\ TrackerSees(w, wired, debounce)
  BY DEF WorkerTurnEnds
<1>4. RegistryTypeOK'
  BY <1>1, <1>3, SeesTyped DEF RegistryTypeOK
<1>5. /\ IInv' /\ loop[w] = "turn" /\ UNCHANGED <<lifecycle, idleTimer>>
      /\ \A v \in Workers \ {w} : current'[v] = current[v] /\ loop'[v] = loop[v]
      /\ loop'[w] # "none" /\ (loop'[w] = "crashed" => current'[w] # NoItem)
  BY <1>1, <1>2, TurnEndFacts
<1>6. entry = w
  BY <1>1, <1>5 DEF Owned, DropoutIsOver, UncreatedIsFresh
<1>7. Owned'
  BY <1>1, <1>3, <1>5, <1>6 DEF Owned, EntryIsOpen, DropoutIsOver, UncreatedIsFresh,
     LoopAndLife, TrackerFollows, EntryIsWired, RegistryTypeOK
<1>. QED  BY <1>4, <1>5, <1>6, <1>7 DEF RInv, Owned

LEMMA FatalFacts ==
  ASSUME RInv, NEW w \in Workers, WorkerFatal(w)
  PROVE  /\ entry = w /\ w \in created /\ w \in wired /\ entry' = NoWorker /\ bound' = FALSE
         /\ leaked' = FALSE
         /\ IInv' /\ loop[w] = "crashed" /\ loop' = [loop EXCEPT ![w] = "exiting"]
         /\ current[w] # NoItem
         /\ UNCHANGED <<current, lifecycle, idleTimer, batch, created, wired, runningFlag>>
         /\ debounce' = FALSE /\ flagWrites' = SetRunning(FALSE)
<1>1. loop[w] = "crashed" /\ IInv'
  BY LoopCatchKeeps DEF WorkerFatal, LoopCatch, RInv
<1>2. entry = w /\ w \in created
  BY <1>1 DEF RInv, DropoutIsOver, UncreatedIsFresh
<1>3. w \in wired
  BY <1>2, RegistryAssumption DEF RInv, TrackerFollows, EntryIsWired
<1>. QED  BY <1>1, <1>2, <1>3 DEF WorkerFatal, LoopCatch, Dispose, LoopAndLife, RInv

LEMMA FatalKeeps ==
  ASSUME RInv, NEW w \in Workers, WorkerFatal(w)
  PROVE  RInv'
<1>1. IInv /\ RegistryTypeOK /\ Owned /\ WorkerTypes
  BY Parts, WorkersTyped
<1>2. /\ entry = w /\ w \in created /\ entry' = NoWorker /\ bound' = FALSE /\ leaked' = FALSE
      /\ IInv' /\ loop' = [loop EXCEPT ![w] = "exiting"] /\ current[w] # NoItem
      /\ UNCHANGED <<current, lifecycle, idleTimer, created, wired, runningFlag>>
      /\ debounce' = FALSE /\ flagWrites' = SetRunning(FALSE)
  BY FatalFacts
<1>3. RegistryTypeOK'
  BY <1>1, <1>2, SetRunningTyped DEF RegistryTypeOK
<1>4. EntryIsOpen' /\ TrackerFollows'
  BY <1>2 DEF EntryIsOpen, TrackerFollows, EntryIsWired
<1>5. DropoutIsOver'
  BY <1>1, <1>2 DEF Owned, DropoutIsOver, WorkerTypes, RegistryTypeOK
<1>6. UncreatedIsFresh' /\ LoopAndLife'
  BY <1>1, <1>2 DEF Owned, UncreatedIsFresh, LoopAndLife, WorkerTypes
<1>. QED  BY <1>2, <1>3, <1>4, <1>5, <1>6 DEF RInv

LEMMA CollectKeeps ==
  ASSUME RInv, NEW w \in Workers, IdleGc(w)
  PROVE  RInv'
<1>1. IInv /\ RegistryTypeOK /\ Owned /\ WorkerTypes
  BY Parts, WorkersTyped
<1>2. /\ entry = w /\ entry' = NoWorker /\ bound' = FALSE /\ leaked' = FALSE
      /\ debounce' = FALSE
      /\ IInv' /\ UNCHANGED <<loop, current>> /\ loop[w] = "none"
      /\ lifecycle' = [lifecycle EXCEPT ![w] = "shutdown"]
      /\ \A v \in Workers : idleTimer'[v] => idleTimer[v]
      /\ UNCHANGED <<created, wired, flagWrites, runningFlag>>
  BY CollectFacts
<1>3. w \in created
  BY <1>1, <1>2, RegistryAssumption DEF Owned, EntryIsOpen
<1>4. RegistryTypeOK' /\ EntryIsOpen' /\ TrackerFollows'
  BY <1>1, <1>2 DEF RegistryTypeOK, EntryIsOpen, TrackerFollows, EntryIsWired
<1>5. DropoutIsOver'
  BY <1>1, <1>2 DEF Owned, DropoutIsOver, WorkerTypes, RegistryTypeOK, Closed
<1>6. UncreatedIsFresh' /\ LoopAndLife'
  BY <1>1, <1>2, <1>3 DEF Owned, UncreatedIsFresh, LoopAndLife, WorkerTypes
<1>. QED  BY <1>2, <1>4, <1>5, <1>6 DEF RInv

(* A loop that ends, and what it tells the tracker. *)
LEMMA LoopEndFacts ==
  ASSUME IInv, NEW w \in Workers, WorkerLoopEnds(w)
  PROVE  /\ IInv' /\ loop[w] = "exiting" /\ loop' = [loop EXCEPT ![w] = "none"]
         /\ \/ /\ lifecycle[w] = "running"
               /\ lifecycle' = [lifecycle EXCEPT ![w] = "idle"]
               /\ idleTimer' = [idleTimer EXCEPT ![w] = TRUE]
            \/ lifecycle[w] # "running" /\ UNCHANGED <<lifecycle, idleTimer>>
         /\ UNCHANGED <<batch, current>>
         /\ debounce' = (debounce \/ (w \in wired /\ lifecycle[w] = "running"))
         /\ UNCHANGED <<entry, created, bound, wired, leaked, flagWrites, runningFlag>>
BY LoopFinallyKeeps DEF WorkerLoopEnds, LoopFinally

LEMMA LoopEndKeeps ==
  ASSUME RInv, NEW w \in Workers, WorkerLoopEnds(w)
  PROVE  RInv'
<1>1. IInv /\ RegistryTypeOK /\ Owned /\ WorkerTypes
  BY Parts, WorkersTyped
<1>2. /\ IInv' /\ loop[w] = "exiting" /\ loop' = [loop EXCEPT ![w] = "none"]
      /\ \/ /\ lifecycle[w] = "running"
            /\ lifecycle' = [lifecycle EXCEPT ![w] = "idle"]
            /\ idleTimer' = [idleTimer EXCEPT ![w] = TRUE]
         \/ lifecycle[w] # "running" /\ UNCHANGED <<lifecycle, idleTimer>>
      /\ UNCHANGED current
      /\ debounce' = (debounce \/ (w \in wired /\ lifecycle[w] = "running"))
      /\ UNCHANGED <<entry, created, bound, wired, leaked, flagWrites, runningFlag>>
  BY <1>1, LoopEndFacts
<1>3. RegistryTypeOK'
  BY <1>1, <1>2 DEF RegistryTypeOK
<1>4. EntryIsOpen' /\ TrackerFollows'
  BY <1>1, <1>2 DEF Owned, EntryIsOpen, TrackerFollows, EntryIsWired, WorkerTypes, Closed,
     RegistryTypeOK
<1>5. DropoutIsOver'
  BY <1>1, <1>2 DEF Owned, DropoutIsOver, WorkerTypes, RegistryTypeOK, Closed
<1>6. UncreatedIsFresh' /\ LoopAndLife'
  BY <1>1, <1>2 DEF Owned, UncreatedIsFresh, LoopAndLife, WorkerTypes
<1>. QED  BY <1>2, <1>3, <1>4, <1>5, <1>6 DEF RInv

(* Steps that leave the turns and the registry alone. *)
Bystander ==
  /\ IInv' /\ UNCHANGED <<loop, lifecycle, current, batch>>
  /\ \A v \in Workers : idleTimer'[v] => idleTimer[v]
  /\ UNCHANGED <<entry, created, bound, wired, leaked>>

LEMMA BystanderKeeps ==
  ASSUME RInv, Bystander, RegistryTypeOK'
  PROVE  RInv'
BY DEF RInv, Bystander, EntryIsOpen, DropoutIsOver, UncreatedIsFresh, LoopAndLife,
   TrackerFollows, EntryIsWired, RegistryTypeOK

LEMMA StopKeeps ==
  ASSUME RInv, StopMessage
  PROVE  Bystander /\ RegistryTypeOK' /\ UNCHANGED registryVars
<1>1. entry \in Workers /\ UNCHANGED registryVars
  BY DEF StopMessage, RInv, RegistryTypeOK
<1>2. IInv' /\ UNCHANGED <<loop, lifecycle, current, batch, idleTimer>>
  BY <1>1, AbortKeeps, ClearQueueKeeps DEF StopMessage, RInv, Abort, ClearQueue, loopVars
<1>. QED  BY <1>1, <1>2 DEF Bystander, registryVars, RInv, RegistryTypeOK

LEMMA TimerSpentKeeps ==
  ASSUME RInv, NEW w \in Workers, TimerSpent(w)
  PROVE  Bystander /\ RegistryTypeOK' /\ UNCHANGED registryVars
<1>1. IInv' /\ UNCHANGED <<loop, lifecycle, current, batch>> /\ UNCHANGED registryVars
  BY IdleTimerSpentKeeps DEF TimerSpent, RInv, IdleTimerSpent, loopVars
<1>2. \A v \in Workers : idleTimer'[v] => idleTimer[v]
  BY DEF TimerSpent, IdleTimerSpent, RInv, IInv, TypeOK
<1>. QED  BY <1>1, <1>2 DEF Bystander, registryVars, RInv, RegistryTypeOK

LEMMA SameWorkers == IInv /\ UNCHANGED vars => IInv'
BY NextKeepsIInv

LEMMA DebounceKeeps ==
  ASSUME RInv, DebounceFires
  PROVE  Bystander /\ RegistryTypeOK'
<1>1. IInv' /\ UNCHANGED vars
  BY SameWorkers DEF RInv, DebounceFires
<1>2. flagWrites' \in SUBSET BOOLEAN
  BY SetRunningTyped DEF DebounceFires, RInv, RegistryTypeOK
<1>. QED  BY <1>1, <1>2 DEF Bystander, DebounceFires, vars, RInv, RegistryTypeOK

LEMMA WriteKeeps ==
  ASSUME RInv, NEW v \in BOOLEAN, FlagWriteApplied(v)
  PROVE  Bystander /\ RegistryTypeOK'
<1>1. IInv' /\ UNCHANGED vars
  BY SameWorkers DEF RInv, FlagWriteApplied
<1>. QED  BY <1>1 DEF Bystander, FlagWriteApplied, vars, RInv, RegistryTypeOK

(* No worker ever drains, so that a drain never ends. *)
LEMMA DrainKeeps ==
  ASSUME RInv, NEW w \in Workers, WorkerDrainEnds(w)
  PROVE  RInv' /\ UNCHANGED <<batch, loop>> /\ UNCHANGED registryVars
<1>1. IInv /\ RegistryTypeOK /\ Owned /\ WorkerTypes
  BY Parts, WorkersTyped
<1>2. /\ IInv' /\ lifecycle[w] = "draining" /\ lifecycle' = [lifecycle EXCEPT ![w] = "shutdown"]
      /\ UNCHANGED <<idleTimer, loop, current, batch>> /\ UNCHANGED registryVars
  BY <1>1, DrainEndsKeeps DEF WorkerDrainEnds, DrainEnds, loopVars
<1>3. RegistryTypeOK' /\ TrackerFollows'
  BY <1>1, <1>2 DEF registryVars, RegistryTypeOK, Owned, TrackerFollows, EntryIsWired
<1>4. EntryIsOpen' /\ DropoutIsOver'
  BY <1>1, <1>2 DEF registryVars, Owned, EntryIsOpen, DropoutIsOver, WorkerTypes, Closed,
     RegistryTypeOK
<1>5. UncreatedIsFresh' /\ LoopAndLife'
  BY <1>1, <1>2 DEF registryVars, Owned, UncreatedIsFresh, LoopAndLife, WorkerTypes
<1>. QED  BY <1>2, <1>3, <1>4, <1>5 DEF RInv

LEMMA OwnerIsSilent ==
  ASSUME Deployed
  PROVE  ~OwnerCloses /\ ~OwnerClosesAll /\ ~OwnerShutsWorker
BY DEF Deployed, OwnerCloses, OwnerClosesAll, OwnerShutsWorker

LEMMA StepKeeps ==
  ASSUME Deployed, RInv, [RegistryNext]_allVars
  PROVE  RInv'
<1>1. CASE UNCHANGED allVars
  <2>1. IInv' /\ UNCHANGED vars /\ UNCHANGED registryVars
    BY <1>1, SameWorkers DEF allVars, RInv
  <2>. QED  BY <2>1, BystanderKeeps DEF vars, registryVars, Bystander, RInv, RegistryTypeOK
<1>2. ASSUME NEW w \in Workers, RegistryStep(w) PROVE RInv'
  BY <1>2, TurnEndKeeps, FatalKeeps, LoopEndKeeps, DrainKeeps DEF RegistryStep
<1>3. ASSUME StopMessage \/ DebounceFires \/ (\E v \in BOOLEAN : FlagWriteApplied(v))
               \/ (\E w \in Workers : TimerSpent(w))
      PROVE  RInv'
  BY <1>3, BystanderKeeps, StopKeeps, DebounceKeeps, WriteKeeps, TimerSpentKeeps
<1>. QED
  BY <1>1, <1>2, <1>3, PromptExistingKeeps, PromptNewKeeps, CollectKeeps, OwnerIsSilent
     DEF RegistryNext

LEMMA Begins == RegistryInit => RInv
<1>. SUFFICES ASSUME RegistryInit PROVE RInv
  OBVIOUS
<1>1. IInv
  BY InitIInv DEF RegistryInit
<1>2. Init /\ entry = NoWorker /\ created = {} /\ bound = FALSE /\ leaked = FALSE
  BY DEF RegistryInit
<1>3. RegistryTypeOK
  BY DEF RegistryInit, RegistryTypeOK
<1>. QED
  BY <1>1, <1>2, <1>3 DEF RInv, Init, EntryIsOpen, DropoutIsOver, UncreatedIsFresh, LoopAndLife,
     TrackerFollows, EntryIsWired

LEMMA RegistryInvariance == ASSUME Deployed PROVE RegistrySpec => []RInv
<1>1. RInv /\ [RegistryNext]_allVars => RInv'
  BY StepKeeps
<1>. QED  BY <1>1, Begins, PTL DEF RegistrySpec

(* Turns of the channel never overlap: each runs in the registry's worker.   *)
THEOREM OneTurnPerChannel == ASSUME Deployed PROVE RegistrySpec => []LiveTurnIsEntry
<1>1. RInv => LiveTurnIsEntry
  BY DEF RInv, LiveTurnIsEntry, DropoutIsOver, UncreatedIsFresh
<1>. QED  BY <1>1, RegistryInvariance, PTL

(* Type correctness. *)
THEOREM RegistryTypeCorrect == ASSUME Deployed PROVE RegistrySpec => []RegistryTypeOK
<1>1. RInv => RegistryTypeOK
  BY DEF RInv
<1>. QED  BY <1>1, RegistryInvariance, PTL

(* Idle collection settles no prompt and aborts no turn. *)
THEOREM CollectionIsHarmless == ASSUME Deployed PROVE RegistrySpec => GcSparesWork
<1>1. RInv /\ [RegistryNext]_allVars =>
        [(\E w \in Workers : IdleGc(w)) => UNCHANGED <<status, abortReason>>]_allVars
  BY CollectFacts
<1>. QED  BY <1>1, RegistryInvariance, PTL DEF RegistrySpec, GcSparesWork
-----------------------------------------------------------------------------
(* Whatever its owner closes: the tracker wires the channel's next worker    *)
(* exactly when it has heard that the last one is gone.                      *)
Announced == ~leaked => (entry # NoWorker => bound /\ entry \in wired) /\ (entry = NoWorker => ~bound)

LEMMA AnnouncedStep ==
  ASSUME Announced, [RegistryNext]_allVars
  PROVE  Announced'
<1>1. ASSUME UNCHANGED <<entry, bound, wired, leaked>> PROVE Announced'
  BY <1>1 DEF Announced
<1>2. ASSUME Dispose PROVE Announced'
  BY <1>2 DEF Dispose, Announced
<1>3. ASSUME NEW w \in Workers, PromptNew(w) PROVE Announced'
  BY <1>3, RegistryAssumption DEF PromptNew, HearsNext, Announced
<1>4. CASE OwnerClosesAll
  BY <1>4 DEF OwnerClosesAll, Announced
<1>5. ASSUME NEW w \in Workers, RegistryStep(w) PROVE Announced'
  BY <1>1, <1>2, <1>5 DEF RegistryStep, WorkerTurnEnds, WorkerFatal, WorkerLoopEnds,
     WorkerDrainEnds, registryVars
<1>6. ASSUME NEW w \in Workers, IdleGc(w) \/ TimerSpent(w) PROVE Announced'
  BY <1>1, <1>2, <1>6 DEF IdleGc, CloseEntry, TimerSpent, registryVars
<1>7. CASE \/ PromptExisting \/ OwnerCloses \/ OwnerShutsWorker \/ StopMessage
           \/ DebounceFires \/ \E v \in BOOLEAN : FlagWriteApplied(v)
  BY <1>1, <1>2, <1>7 DEF PromptExisting, OwnerCloses, CloseEntry, OwnerShutsWorker, StopMessage,
     DebounceFires, FlagWriteApplied, registryVars
<1>8. CASE UNCHANGED allVars
  BY <1>1, <1>8 DEF allVars, registryVars
<1>. QED  BY <1>3, <1>4, <1>5, <1>6, <1>7, <1>8 DEF RegistryNext

(* The tracker hears the registry's worker, through closes, drains and       *)
(* shutdowns behind the registry's back and through loops that die; only     *)
(* closeAll and drainAll leave a worker to come unheard.                     *)
THEOREM TrackerHears == RegistrySpec => []EntryIsWired
<1>1. RegistryInit => Announced
  BY DEF RegistryInit, Announced
<1>2. Announced /\ [RegistryNext]_allVars => Announced'
  BY AnnouncedStep
<1>3. Announced => EntryIsWired
  BY DEF Announced, EntryIsWired
<1>. QED  BY <1>1, <1>2, <1>3, PTL DEF RegistrySpec

-----------------------------------------------------------------------------
(* The flag, with two updates of one field applied in the order sent.        *)
Marked == flagWrites = {TRUE} \/ (flagWrites = {} /\ runningFlag = TRUE)
Cleared == flagWrites = {FALSE} \/ (flagWrites = {} /\ runningFlag = FALSE)

(* The last word sent is right for a turn, and a mark has its clearing ahead. *)
FlagInv ==
  /\ Marked \/ Cleared
  /\ \A w \in Workers : loop[w] = "turn" => Marked
  /\ Marked => entry # NoWorker /\ (loop[entry] # "none" \/ debounce)

LEMMA OneWordLast == ~(Marked /\ Cleared)
BY DEF Marked, Cleared

LEMMA EntryInTurn ==
  ASSUME RInv, NEW w \in Workers, loop[w] = "turn"
  PROVE  entry = w
BY DEF RInv, DropoutIsOver, UncreatedIsFresh

(* A turn that begins in the registry's worker marks the channel. *)
LEMMA SeesTurn ==
  ASSUME WritesInOrder, NEW w \in Workers, NEW listeners, NEW armed, w \in listeners,
         TrackerSees(w, listeners, armed)
  PROVE  \/ TurnBegan(w) /\ Marked'
         \/ ~TurnBegan(w) /\ debounce' = armed /\ flagWrites' = flagWrites
BY DEF TrackerSees, SetRunning, Marked

LEMMA PromptMarks ==
  ASSUME WritesInOrder, RInv, FlagInv, PromptExisting
  PROVE  FlagInv'
<1>1. /\ entry \in Workers /\ entry \in wired /\ Enqueue(entry)
      /\ TrackerSees(entry, wired, debounce) /\ UNCHANGED <<entry, runningFlag>>
  BY DEF PromptExisting, RInv, RegistryTypeOK, TrackerFollows, EntryIsWired
<1>2. loop \in [Workers -> LoopStates] /\ IInv
  BY DEF RInv, IInv, TypeOK
<1>3. \/ /\ TurnBegan(entry) /\ loop'[entry] # "none"
         /\ \A v \in Workers \ {entry} : loop'[v] = loop[v]
      \/ ~TurnBegan(entry) /\ loop' = loop
  BY <1>1, <1>2, EnqueueFacts
<1>4. CASE /\ TurnBegan(entry) /\ loop'[entry] # "none"
           /\ \A v \in Workers \ {entry} : loop'[v] = loop[v]
  <2>1. Marked'
    BY <1>1, <1>4, SeesTurn
  <2>2. loop'[entry] # "none" /\ entry' # NoWorker
    BY <1>1, <1>2, <1>4, RegistryAssumption
  <2>. QED  BY <1>1, <2>1, <2>2 DEF FlagInv
<1>5. CASE ~TurnBegan(entry) /\ loop' = loop
  <2>1. debounce' = debounce /\ flagWrites' = flagWrites
    BY <1>1, <1>5, SeesTurn
  <2>. QED  BY <1>1, <1>5, <2>1 DEF FlagInv, Marked, Cleared
<1>. QED  BY <1>3, <1>4, <1>5

LEMMA PromptNewMarks ==
  ASSUME WritesInOrder, RInv, FlagInv, NEW w \in Workers, PromptNew(w)
  PROVE  FlagInv'
<1>1. /\ entry' = w /\ wired' = wired \cup {w} /\ Enqueue(w) /\ loop[w] = "none"
      /\ TrackerSees(w, wired', debounce)
  BY PromptNewFacts
<1>2. IInv /\ loop \in [Workers -> LoopStates]
  BY DEF RInv, IInv, TypeOK
<1>3. TurnBegan(w) /\ loop'[w] # "none" /\ \A v \in Workers \ {w} : loop'[v] = loop[v]
  BY <1>1, <1>2, EnqueueFacts
<1>4. w \in wired'
  BY <1>1
<1>5. Marked'
  BY <1>1, <1>3, <1>4, SeesTurn
<1>6. loop'[w] # "none" /\ entry' # NoWorker
  BY <1>1, <1>2, <1>3, RegistryAssumption
<1>. QED  BY <1>1, <1>5, <1>6 DEF FlagInv

LEMMA TurnEndMarks ==
  ASSUME WritesInOrder, RInv, FlagInv, NEW w \in Workers, WorkerTurnEnds(w)
  PROVE  FlagInv'
<1>1. entry = w /\ loop[w] = "turn" /\ entry # NoWorker
  BY TurnEndKeeps, RegistryAssumption
<1>2. PICK r \in {"done", "failed"} : TurnSettles(w, r) \/ SettledListenerThrows(w, r)
  BY DEF WorkerTurnEnds
<1>3. /\ \A v \in Workers \ {w} : loop'[v] = loop[v]
      /\ loop'[w] # "none"
  BY <1>2, TurnEndFacts DEF RInv
<1>4. UNCHANGED <<entry, runningFlag>> /\ TrackerSees(w, wired, debounce) /\ w \in wired
  BY <1>1 DEF WorkerTurnEnds, RInv, TrackerFollows, EntryIsWired
<1>5. Marked'
  <2>1. CASE ~TurnBegan(w)
    BY <1>1, <1>4, <2>1, SeesTurn DEF FlagInv, Marked
  <2>. QED  BY <1>4, <2>1, SeesTurn
<1>. QED  BY <1>1, <1>3, <1>4, <1>5 DEF FlagInv

LEMMA FatalClears ==
  ASSUME WritesInOrder, RInv, FlagInv, NEW w \in Workers, WorkerFatal(w)
  PROVE  FlagInv'
<1>1. /\ entry = w /\ loop[w] = "crashed" /\ loop' = [loop EXCEPT ![w] = "exiting"]
      /\ flagWrites' = SetRunning(FALSE)
  BY FatalFacts
<1>2. loop \in [Workers -> LoopStates]
  BY DEF RInv, IInv, TypeOK
<1>3. \A v \in Workers : loop'[v] # "turn"
  BY <1>1, <1>2, EntryInTurn
<1>4. Cleared' /\ ~Marked'
  BY <1>1 DEF SetRunning, Cleared, Marked
<1>. QED  BY <1>3, <1>4 DEF FlagInv

LEMMA CollectClears ==
  ASSUME WritesInOrder, RInv, FlagInv, NEW w \in Workers, IdleGc(w)
  PROVE  FlagInv'
<1>1. /\ entry = w /\ debounce = FALSE /\ loop[w] = "none"
      /\ UNCHANGED <<loop, flagWrites, runningFlag>>
  BY CollectFacts
<1>2. ~Marked
  BY <1>1 DEF FlagInv
<1>. QED  BY <1>1, <1>2 DEF FlagInv, Marked, Cleared

LEMMA LoopEndArms ==
  ASSUME WritesInOrder, RInv, FlagInv, NEW w \in Workers, WorkerLoopEnds(w)
  PROVE  FlagInv'
<1>1. /\ loop[w] = "exiting" /\ loop' = [loop EXCEPT ![w] = "none"]
      /\ debounce' = (debounce \/ (w \in wired /\ lifecycle[w] = "running"))
      /\ UNCHANGED <<entry, flagWrites, runningFlag>>
  BY LoopEndFacts DEF RInv
<1>2. loop \in [Workers -> LoopStates] /\ lifecycle \in [Workers -> Lifecycles]
  BY DEF RInv, IInv, TypeOK
<1>3. \A v \in Workers : loop'[v] = "turn" => loop[v] = "turn"
  BY <1>1, <1>2
<1>4. CASE entry = w
  <2>1. w \in wired /\ lifecycle[w] = "running"
    BY <1>1, <1>2, <1>4, RegistryAssumption
       DEF RInv, IInv, TurnOwnsLoop, EntryIsOpen, TrackerFollows, EntryIsWired, Closed, Lifecycles
  <2>2. debounce' = TRUE
    BY <1>1, <2>1
  <2>. QED  BY <1>1, <1>3, <2>2 DEF FlagInv, Marked, Cleared
<1>5. CASE entry # w
  <2>1. entry \in Workers => loop'[entry] = loop[entry]
    BY <1>1, <1>2, <1>5
  <2>2. debounce => debounce'
    BY <1>1
  <2>. QED  BY <1>1, <1>3, <2>1, <2>2 DEF FlagInv, Marked, Cleared, RInv, RegistryTypeOK
<1>. QED  BY <1>4, <1>5

LEMMA DebounceClears ==
  ASSUME WritesInOrder, RInv, FlagInv, DebounceFires
  PROVE  FlagInv'
<1>1. UNCHANGED <<entry, loop, runningFlag>>
  BY DEF DebounceFires, vars
<1>2. CASE entry # NoWorker /\ lifecycle[entry] = "idle"
  <2>1. flagWrites' = {FALSE}
    BY <1>2 DEF DebounceFires, SetRunning
  <2>2. Cleared' /\ ~Marked'
    BY <2>1 DEF Cleared, Marked
  <2>3. \A v \in Workers : loop[v] # "turn"
    BY <1>2, EntryInTurn DEF RInv, IInv, TurnOwnsLoop
  <2>. QED  BY <1>1, <2>2, <2>3 DEF FlagInv
<1>3. CASE ~(entry # NoWorker /\ lifecycle[entry] = "idle")
  <2>1. flagWrites' = flagWrites
    BY <1>3 DEF DebounceFires
  <2>2. entry # NoWorker => loop[entry] # "none"
    BY <1>3 DEF RInv, IInv, TypeOK, RegistryTypeOK, EntryIsOpen, LoopAndLife, Lifecycles, Closed
  <2>. QED  BY <1>1, <2>1, <2>2 DEF FlagInv, Marked, Cleared
<1>. QED  BY <1>2, <1>3

LEMMA WriteApplies ==
  ASSUME FlagInv, NEW v \in BOOLEAN, FlagWriteApplied(v)
  PROVE  FlagInv'
<1>1. UNCHANGED <<entry, loop, debounce>> /\ flagWrites' = flagWrites \ {v} /\ runningFlag' = v
      /\ v \in flagWrites
  BY DEF FlagWriteApplied, vars
<1>2. Marked' <=> Marked
  BY <1>1 DEF FlagInv, Marked, Cleared
<1>3. Cleared' <=> Cleared
  BY <1>1 DEF FlagInv, Marked, Cleared
<1>. QED  BY <1>1, <1>2, <1>3 DEF FlagInv

LEMMA FlagStep ==
  ASSUME Deployed, WritesInOrder, RInv, FlagInv, [RegistryNext]_allVars
  PROVE  FlagInv'
<1>1. ASSUME UNCHANGED <<loop, entry, debounce, flagWrites, runningFlag>> PROVE FlagInv'
  BY <1>1 DEF FlagInv, Marked, Cleared
<1>2. CASE UNCHANGED allVars
  BY <1>1, <1>2 DEF allVars, vars, registryVars
<1>3. ASSUME NEW w \in Workers, RegistryStep(w) PROVE FlagInv'
  <2>1. CASE WorkerDrainEnds(w)
    BY <1>1, <2>1, DrainKeeps DEF registryVars
  <2>. QED  BY <1>3, <2>1, TurnEndMarks, FatalClears, LoopEndArms DEF RegistryStep
<1>4. CASE StopMessage
  BY <1>1, <1>4, StopKeeps DEF Bystander, registryVars
<1>5. ASSUME NEW w \in Workers, TimerSpent(w) PROVE FlagInv'
  BY <1>1, <1>5, TimerSpentKeeps DEF Bystander, registryVars
<1>. QED
  BY <1>2, <1>3, <1>4, <1>5, PromptMarks, PromptNewMarks, CollectClears, DebounceClears,
     WriteApplies, OwnerIsSilent DEF RegistryNext

LEMMA FlagInvariance ==
  ASSUME Deployed, WritesInOrder
  PROVE  RegistrySpec => []FlagInv
<1>1. RegistryInit => FlagInv
  BY DEF RegistryInit, Init, FlagInv, Marked, Cleared
<1>2. RInv /\ FlagInv /\ [RegistryNext]_allVars => FlagInv'
  BY FlagStep
<1>. QED  BY <1>1, <1>2, RegistryInvariance, PTL DEF RegistrySpec

(* A channel with a turn is stored as running, so that a crash is noticed.   *)
THEOREM TurnsAreMarked ==
  ASSUME Deployed, WritesInOrder
  PROVE  RegistrySpec => []FlagCoversTurn
<1>1. RInv /\ FlagInv => FlagCoversTurn
  BY DEF RInv, RegistryTypeOK, FlagInv, Marked, FlagCoversTurn
<1>. QED  BY <1>1, RegistryInvariance, FlagInvariance, PTL

(* A channel at rest is not. *)
THEOREM RestIsCleared ==
  ASSUME Deployed, WritesInOrder
  PROVE  RegistrySpec => []FlagClearedAtRest
<1>1. RInv /\ FlagInv => FlagClearedAtRest
  BY RegistryAssumption DEF RInv, RegistryTypeOK, FlagInv, Marked, Cleared, FlagClearedAtRest
<1>. QED  BY <1>1, RegistryInvariance, FlagInvariance, PTL
-----------------------------------------------------------------------------
(* Refinement: the channel is a ChannelQueue, whichever workers serve it.    *)

(* A worker not made yet holds no prompt; only a listener crashes a loop.    *)
UncreatedIsEmpty == \A w \in Workers \ created : queue[w] = {}
CrashIsThrown ==
  (\E w \in Workers : loop[w] = "crashed") => StartedListenerMayThrow \/ SettledListenerMayThrow

ChannelInv == RInv /\ UncreatedIsEmpty /\ CrashIsThrown

Pending == {i \in Items : status[i] = "pending"}

LEMMA ChannelVars == Channel!vars = <<Backlog, Cohort, Answers, Orphaned>>
BY DEF Channel!vars

(* What the channel shows is what the registry's worker holds. *)
LEMMA ServedShows ==
  ASSUME RInv, entry # NoWorker
  PROVE  /\ entry \in Workers /\ Backlog = queue[entry] /\ Cohort = batch[entry]
         /\ Orphaned = Pending \ (queue[entry] \cup batch[entry])
         /\ queue[entry] \subseteq Pending /\ batch[entry] \subseteq Pending
         /\ queue[entry] \cap batch[entry] = {}
<1>1. entry \in Workers /\ Backlog = queue[entry]
  BY DEF RInv, RegistryTypeOK, Backlog
<1>2. \A w \in Workers : w # entry => batch[w] = {}
  BY DEF RInv, DropoutIsOver, UncreatedIsFresh, IInv, TurnOwnsLoop
<1>3. Cohort = batch[entry]
  BY <1>1, <1>2 DEF Cohort
<1>4. queue[entry] \subseteq Pending /\ batch[entry] \subseteq Pending
  BY <1>1 DEF RInv, IInv, TypeOK, ItemsAccounted, Pending
<1>5. queue[entry] \cap batch[entry] = {}
  BY <1>1 DEF RInv, IInv, ItemsAccounted
<1>. QED  BY <1>1, <1>3, <1>4, <1>5 DEF Orphaned, Pending

LEMMA VacantShows ==
  ASSUME RInv, entry = NoWorker
  PROVE  Backlog = {} /\ Cohort = {} /\ Orphaned = Pending
<1>1. \A w \in Workers : batch[w] = {}
  BY RegistryAssumption DEF RInv, DropoutIsOver, UncreatedIsFresh, IInv, TurnOwnsLoop
<1>2. Backlog = {} /\ Cohort = {}
  BY <1>1 DEF Backlog, Cohort
<1>. QED  BY <1>2 DEF Orphaned, Pending

(* Primed, for the state a step leads to. *)
LEMMA ServedThen ==
  ASSUME RInv', entry' # NoWorker
  PROVE  /\ entry' \in Workers /\ Backlog' = queue'[entry'] /\ Cohort' = batch'[entry']
         /\ Orphaned' = Pending' \ (queue'[entry'] \cup batch'[entry'])
<1>1. entry' \in Workers /\ Backlog' = queue'[entry']
  BY DEF RInv, RegistryTypeOK, Backlog
<1>2. \A w \in Workers : w # entry' => batch'[w] = {}
  BY DEF RInv, DropoutIsOver, UncreatedIsFresh, IInv, TurnOwnsLoop
<1>3. Cohort' = batch'[entry']
  BY <1>1, <1>2 DEF Cohort
<1>. QED  BY <1>1, <1>3 DEF Orphaned, Pending

LEMMA VacantThen ==
  ASSUME RInv', entry' = NoWorker
  PROVE  Backlog' = {} /\ Cohort' = {} /\ Orphaned' = Pending'
<1>1. \A w \in Workers : batch'[w] = {}
  BY RegistryAssumption DEF RInv, DropoutIsOver, UncreatedIsFresh, IInv, TurnOwnsLoop
<1>2. Backlog' = {} /\ Cohort' = {}
  BY <1>1 DEF Backlog, Cohort
<1>. QED  BY <1>2 DEF Orphaned, Pending

(* A step that keeps the entry, the prompts and their promises shows nothing. *)
LEMMA SilentStep ==
  ASSUME UNCHANGED <<entry, queue, batch, status>>
  PROVE  UNCHANGED Channel!vars
BY ChannelVars DEF Channel!vars, Backlog, Cohort, Answers, Orphaned

(* A prompt given to w: it is new, and pending from then on. *)
LEMMA EnqueuePends ==
  ASSUME IInv, NEW w \in Workers, Enqueue(w)
  PROVE  \E item \in Items :
           /\ item \notin Pending \cup Answers
           /\ \A v \in Workers : item \notin queue[v] \cup batch[v]
           /\ Pending' = Pending \cup {item} /\ Answers' = Answers
           /\ \/ /\ loop[w] = "none" /\ batch[w] = {}
                 /\ queue'[w] = {}
                 /\ \/ batch'[w] = queue[w] \cup {item}
                    \/ batch'[w] = {} /\ StartedListenerMayThrow
              \/ queue'[w] = queue[w] \cup {item} /\ batch'[w] = batch[w]
<1>. DEFINE item == last + 1
<1>1. item \in Items /\ status' = [status EXCEPT ![item] = "pending"]
  BY WorkerAssumption DEF Enqueue, IInv, TypeOK, Items
<1>2. status[item] = "new"
  BY <1>1 DEF IInv, TypeOK, IdsInOrder
<1>3. item \notin Pending \cup Answers /\ \A v \in Workers : item \notin queue[v] \cup batch[v]
  BY <1>1, <1>2 DEF IInv, ItemsAccounted, Answers, Pending, Settled
<1>4. Answers' = Answers /\ Pending' = Pending \cup {item}
  BY <1>1, <1>2 DEF Answers, Pending, Settled, IInv, TypeOK
<1>5. CASE loop[w] = "none"
  <2>1. batch[w] = {}
    BY <1>5 DEF IInv, TurnOwnsLoop
  <2>2. /\ queue'[w] = {}
        /\ batch'[w] = queue[w] \cup {item} \/ (batch'[w] = {} /\ StartedListenerMayThrow)
    BY <1>5 DEF Enqueue, StartTurn, CohortRuns, StartedListenerThrows, IInv, TypeOK
  <2>. QED  BY <1>1, <1>3, <1>4, <1>5, <2>1, <2>2
<1>6. CASE loop[w] # "none"
  <2>1. queue'[w] = queue[w] \cup {item} /\ batch'[w] = batch[w]
    BY <1>6 DEF Enqueue, loopVars, IInv, TypeOK
  <2>. QED  BY <1>1, <1>3, <1>4, <2>1
<1>. QED  BY <1>5, <1>6

LEMMA PromptExistingAccepts ==
  ASSUME ChannelInv, PromptExisting, RInv'
  PROVE  Channel!Next
<1>1. entry # NoWorker /\ entry' = entry /\ entry \in Workers /\ Enqueue(entry) /\ RInv
  BY DEF PromptExisting, ChannelInv, RInv, RegistryTypeOK
<1>2. PICK item \in Items :
           /\ item \notin Pending \cup Answers
           /\ \A v \in Workers : item \notin queue[v] \cup batch[v]
           /\ Pending' = Pending \cup {item} /\ Answers' = Answers
           /\ \/ /\ loop[entry] = "none" /\ batch[entry] = {}
                 /\ queue'[entry] = {}
                 /\ \/ batch'[entry] = queue[entry] \cup {item}
                    \/ batch'[entry] = {} /\ StartedListenerMayThrow
              \/ queue'[entry] = queue[entry] \cup {item} /\ batch'[entry] = batch[entry]
  BY <1>1, EnqueuePends DEF RInv
<1>3. /\ Backlog = queue[entry] /\ Cohort = batch[entry]
      /\ Orphaned = Pending \ (queue[entry] \cup batch[entry])
      /\ queue[entry] \subseteq Pending
  BY <1>1, ServedShows
<1>4. /\ Backlog' = queue'[entry] /\ Cohort' = batch'[entry]
      /\ Orphaned' = Pending' \ (queue'[entry] \cup batch'[entry])
  BY <1>1, ServedThen
<1>5. Channel!Fresh(item)
  BY <1>1, <1>2, <1>3 DEF Channel!Fresh
<1>6. Channel!Accept(item) \/ Channel!AcceptAndStart(item)
  BY <1>2, <1>3, <1>4, <1>5 DEF Channel!Accept, Channel!AcceptAndStart, Channel!Begin
<1>. QED  BY <1>6 DEF Channel!Next

LEMMA PromptNewAccepts ==
  ASSUME ChannelInv, NEW w \in Workers, PromptNew(w), RInv'
  PROVE  Channel!Next
<1>1. /\ RInv /\ entry = NoWorker /\ w \notin created /\ entry' = w /\ entry' # NoWorker
      /\ Enqueue(w) /\ loop[w] = "none"
  BY PromptNewFacts, RegistryAssumption DEF ChannelInv
<1>2. queue[w] = {} /\ batch[w] = {}
  BY <1>1 DEF ChannelInv, UncreatedIsEmpty, RInv, IInv, TurnOwnsLoop
<1>3. PICK item \in Items :
           /\ item \notin Pending \cup Answers
           /\ Pending' = Pending \cup {item} /\ Answers' = Answers
           /\ \/ queue'[w] = {} /\ batch'[w] = queue[w] \cup {item}
              \/ queue'[w] = {} /\ batch'[w] = {} /\ StartedListenerMayThrow
              \/ queue'[w] = queue[w] \cup {item} /\ batch'[w] = batch[w]
  BY <1>1, EnqueuePends DEF RInv
<1>4. Backlog = {} /\ Cohort = {} /\ Orphaned = Pending
  BY <1>1, VacantShows
<1>5. /\ Backlog' = queue'[w] /\ Cohort' = batch'[w]
      /\ Orphaned' = Pending' \ (queue'[w] \cup batch'[w])
  BY <1>1, ServedThen
<1>6. Channel!Fresh(item)
  BY <1>2, <1>3, <1>4 DEF Channel!Fresh
<1>7. Channel!Accept(item) \/ Channel!AcceptAndStart(item)
  BY <1>2, <1>3, <1>4, <1>5, <1>6 DEF Channel!Accept, Channel!AcceptAndStart, Channel!Begin
<1>. QED  BY <1>7 DEF Channel!Next

LEMMA TurnEndFinishes ==
  ASSUME ChannelInv, NEW w \in Workers, WorkerTurnEnds(w), RInv'
  PROVE  Channel!Next
<1>1. RInv /\ IInv /\ entry = w /\ entry' = w /\ entry # NoWorker /\ loop[w] = "turn"
  BY TurnEndKeeps, RegistryAssumption DEF ChannelInv, RInv, WorkerTurnEnds
<1>2. PICK r \in {"done", "failed"} : TurnSettles(w, r) \/ SettledListenerThrows(w, r)
  BY DEF WorkerTurnEnds
<1>3. batch[w] # {} /\ batch[w] \in SUBSET Items
  BY <1>1 DEF IInv, TypeOK, TurnOwnsLoop
<1>4. /\ \A i \in batch[w] : status'[i] = r
      /\ \A i \in Items \ batch[w] : status'[i] = status[i]
  BY <1>1, <1>2, <1>3, SettleFacts DEF TurnSettles, SettledListenerThrows, IInv, Settled
<1>5. Answers' = Answers \cup batch[w] /\ Pending' = Pending \ batch[w]
  BY <1>3, <1>4 DEF Answers, Pending, Settled
<1>6. \/ queue'[w] = {} /\ batch'[w] = queue[w]
      \/ queue'[w] = {} /\ batch'[w] = {} /\ StartedListenerMayThrow
      \/ queue'[w] = queue[w] /\ batch'[w] = {}
  BY <1>1, <1>2 DEF TurnSettles, SettledListenerThrows, StartTurn, CohortRuns,
     StartedListenerThrows, IInv, TypeOK
<1>7. /\ Backlog = queue[w] /\ Cohort = batch[w] /\ queue[w] \cap batch[w] = {}
      /\ Orphaned = Pending \ (queue[w] \cup batch[w]) /\ queue[w] \subseteq Pending
  BY <1>1, ServedShows
<1>8. /\ Backlog' = queue'[w] /\ Cohort' = batch'[w]
      /\ Orphaned' = Pending' \ (queue'[w] \cup batch'[w])
  BY <1>1, ServedThen
<1>9. \/ Orphaned' = Orphaned /\ (queue'[w] = {} => batch'[w] = queue[w])
      \/ /\ Orphaned' = Orphaned \cup queue[w] /\ StartedListenerMayThrow
         /\ queue'[w] = {} /\ batch'[w] = {}
  BY <1>5, <1>6, <1>7, <1>8
<1>10. Channel!Finish
  BY <1>3, <1>5, <1>6, <1>7, <1>8, <1>9 DEF Channel!Finish, Channel!Begin
<1>. QED  BY <1>10 DEF Channel!Next

(* The worker whose loop died takes its backlog with it. *)
LEMMA FatalLoses ==
  ASSUME ChannelInv, NEW w \in Workers, WorkerFatal(w), RInv'
  PROVE  Channel!Next
<1>1. /\ RInv /\ entry = w /\ entry # NoWorker /\ entry' = NoWorker
      /\ loop[w] = "crashed" /\ UNCHANGED <<status, queue, batch>>
  BY FatalFacts, RegistryAssumption DEF ChannelInv, WorkerFatal, LoopCatch, itemVars
<1>2. batch[w] = {} /\ (StartedListenerMayThrow \/ SettledListenerMayThrow)
  BY <1>1 DEF ChannelInv, CrashIsThrown, RInv, IInv, TurnOwnsLoop
<1>3. /\ Backlog = queue[w] /\ Cohort = {} /\ queue[w] \subseteq Pending
      /\ Orphaned = Pending \ queue[w]
  BY <1>1, <1>2, ServedShows
<1>4. Backlog' = {} /\ Cohort' = {} /\ Orphaned' = Pending'
  BY <1>1, VacantThen
<1>5. Pending' = Pending /\ Answers' = Answers
  BY <1>1 DEF Pending, Answers
<1>6. Channel!Lose
  BY <1>2, <1>3, <1>4, <1>5 DEF Channel!Lose
<1>. QED  BY <1>6 DEF Channel!Next

LEMMA CollectIsSilent ==
  ASSUME RInv, NEW w \in Workers, IdleGc(w), RInv'
  PROVE  UNCHANGED Channel!vars
<1>1. entry = w /\ entry # NoWorker /\ entry' = NoWorker /\ UNCHANGED <<status, batch>>
  BY CollectFacts, RegistryAssumption
<1>2. queue[w] = {} /\ batch[w] = {}
  BY <1>1, CollectFacts DEF IdleGc, AtRest, RInv, IInv, TurnOwnsLoop
<1>3. Backlog = {} /\ Cohort = {} /\ Orphaned = Pending
  BY <1>1, <1>2, ServedShows
<1>4. Backlog' = {} /\ Cohort' = {} /\ Orphaned' = Pending'
  BY <1>1, VacantThen
<1>5. Pending' = Pending /\ Answers' = Answers
  BY <1>1 DEF Pending, Answers
<1>. QED  BY <1>3, <1>4, <1>5, ChannelVars DEF Channel!vars

(* A stop drops the backlog, or nothing. *)
LEMMA StopDrops ==
  ASSUME RInv, StopMessage, RInv'
  PROVE  Channel!Next \/ UNCHANGED Channel!vars
<1>1. IInv /\ entry # NoWorker /\ entry \in Workers /\ entry' = entry /\ batch' = batch
  BY StopKeeps DEF StopMessage, RInv, RegistryTypeOK, registryVars, Bystander
<1>2. PurgeQueue(entry) \/ UNCHANGED <<queue, status>>
  BY DEF StopMessage, Abort, ClearQueue
<1>3. CASE PurgeQueue(entry)
  <2>1. /\ queue'[entry] = {}
        /\ \A i \in queue[entry] : status'[i] = "cancelled"
        /\ \A i \in Items \ queue[entry] : status'[i] = status[i]
    BY <1>1, <1>3, PurgeFacts DEF IInv, PurgeQueue, TypeOK
  <2>2. Answers' = Answers \cup queue[entry] /\ Pending' = Pending \ queue[entry]
    BY <1>1, <2>1 DEF Answers, Pending, Settled, IInv, TypeOK
  <2>3. /\ Backlog = queue[entry] /\ Cohort = batch[entry]
        /\ Orphaned = Pending \ (queue[entry] \cup batch[entry])
    BY <1>1, ServedShows
  <2>4. /\ Backlog' = {} /\ Cohort' = batch[entry]
        /\ Orphaned' = Pending' \ batch[entry]
    BY <1>1, <2>1, ServedThen
  <2>5. Channel!Drop
    BY <2>2, <2>3, <2>4 DEF Channel!Drop
  <2>. QED  BY <2>5 DEF Channel!Next
<1>4. CASE UNCHANGED <<queue, status>>
  BY <1>1, <1>4, SilentStep
<1>. QED  BY <1>2, <1>3, <1>4

LEMMA ChannelStep ==
  ASSUME Deployed, ChannelInv, [RegistryNext]_allVars
  PROVE  [Channel!Next]_(Channel!vars)
<1>1. RInv /\ RInv'
  BY StepKeeps DEF ChannelInv
<1>2. CASE UNCHANGED allVars \/ DebounceFires \/ \E v \in BOOLEAN : FlagWriteApplied(v)
  BY <1>2, SilentStep DEF allVars, vars, registryVars, DebounceFires, FlagWriteApplied
<1>3. ASSUME NEW w \in Workers, TimerSpent(w) \/ WorkerLoopEnds(w) \/ WorkerDrainEnds(w)
      PROVE  UNCHANGED Channel!vars
  BY <1>3, SilentStep DEF TimerSpent, IdleTimerSpent, WorkerLoopEnds, LoopFinally,
     WorkerDrainEnds, DrainEnds, itemVars, loopVars, registryVars
<1>4. ASSUME NEW w \in Workers, RegistryStep(w)
      PROVE  Channel!Next \/ UNCHANGED Channel!vars
  BY <1>1, <1>3, <1>4, TurnEndFinishes, FatalLoses DEF RegistryStep
<1>. QED
  BY <1>1, <1>2, <1>3, <1>4, PromptExistingAccepts, PromptNewAccepts, CollectIsSilent, StopDrops,
     OwnerIsSilent DEF RegistryNext

(* Only the registry's worker is given prompts, and it has been made. *)
LEMMA ChannelInvKept ==
  ASSUME Deployed, ChannelInv, [RegistryNext]_allVars
  PROVE  ChannelInv'
<1>1. RInv /\ RInv' /\ IInv /\ IInv'
  BY StepKeeps DEF ChannelInv, RInv
<1>2. ASSUME NEW w \in Workers, w \in created', created \subseteq created',
             \A v \in Workers \ {w} : queue'[v] = queue[v]
      PROVE  UncreatedIsEmpty'
  BY <1>2 DEF ChannelInv, UncreatedIsEmpty
<1>3. ASSUME \A v \in Workers :
               loop'[v] = "crashed" =>
                 loop[v] = "crashed" \/ StartedListenerMayThrow \/ SettledListenerMayThrow
      PROVE  CrashIsThrown'
  BY <1>3 DEF ChannelInv, CrashIsThrown
<1>4. CASE UNCHANGED <<queue, loop, created>>
  BY <1>1, <1>4 DEF ChannelInv, UncreatedIsEmpty, CrashIsThrown
<1>5. CASE PromptExisting
  <2>1. entry \in Workers /\ entry \in created /\ created' = created /\ Enqueue(entry)
    BY <1>1, <1>5, RegistryAssumption DEF PromptExisting, RInv, EntryIsOpen, RegistryTypeOK
  <2>2. \A v \in Workers \ {entry} : queue'[v] = queue[v]
    BY <1>1, <2>1 DEF Enqueue, StartTurn, IInv, TypeOK
  <2>3. \A v \in Workers :
          loop'[v] = "crashed" => loop[v] = "crashed" \/ StartedListenerMayThrow
    BY <1>1, <2>1, EnqueueFacts DEF IInv, TypeOK
  <2>. QED  BY <1>1, <1>2, <1>3, <2>1, <2>2, <2>3 DEF ChannelInv
<1>6. ASSUME NEW w \in Workers, PromptNew(w) PROVE ChannelInv'
  <2>1. created' = created \cup {w} /\ Enqueue(w)
    BY <1>1, <1>6, PromptNewFacts
  <2>2. \A v \in Workers \ {w} : queue'[v] = queue[v]
    BY <1>1, <2>1 DEF Enqueue, StartTurn, IInv, TypeOK
  <2>3. \A v \in Workers :
          loop'[v] = "crashed" => loop[v] = "crashed" \/ StartedListenerMayThrow
    BY <1>1, <2>1, EnqueueFacts DEF IInv, TypeOK
  <2>. QED  BY <1>1, <1>2, <1>3, <2>1, <2>2, <2>3 DEF ChannelInv
<1>7. ASSUME NEW w \in Workers, WorkerTurnEnds(w) PROVE ChannelInv'
  <2>1. PICK r \in {"done", "failed"} : TurnSettles(w, r) \/ SettledListenerThrows(w, r)
    BY <1>7 DEF WorkerTurnEnds
  <2>2. w \in created /\ created' = created
    BY <1>1, <1>7, TurnEndKeeps DEF WorkerTurnEnds, RInv, UncreatedIsFresh
  <2>3. \A v \in Workers \ {w} : queue'[v] = queue[v]
    BY <1>1, <2>1 DEF TurnSettles, SettledListenerThrows, StartTurn, IInv, TypeOK
  <2>4. \A v \in Workers :
          loop'[v] = "crashed" =>
            loop[v] = "crashed" \/ StartedListenerMayThrow \/ SettledListenerMayThrow
    BY <1>1, <2>1, TurnEndFacts
  <2>. QED  BY <1>1, <1>2, <1>3, <2>2, <2>3, <2>4 DEF ChannelInv
<1>8. ASSUME NEW w \in Workers, WorkerFatal(w) \/ WorkerLoopEnds(w) PROVE ChannelInv'
  <2>1. queue' = queue /\ created' = created
    BY <1>8 DEF WorkerFatal, LoopCatch, WorkerLoopEnds, LoopFinally
  <2>2. \A v \in Workers : loop'[v] = "crashed" => loop[v] = "crashed"
    BY <1>1, <1>8 DEF WorkerFatal, LoopCatch, WorkerLoopEnds, LoopFinally, IInv, TypeOK
  <2>. QED  BY <1>1, <1>3, <2>1, <2>2 DEF ChannelInv, UncreatedIsEmpty
<1>9. ASSUME NEW w \in Workers, IdleGc(w) PROVE ChannelInv'
  <2>1. entry = w /\ created' = created /\ loop' = loop /\ queue[w] = {}
    BY <1>1, <1>9, CollectFacts DEF IdleGc, AtRest
  <2>2. queue' = queue \/ queue' = [queue EXCEPT ![w] = {}]
    BY <1>9, <2>1 DEF IdleGc, CloseEntry, Close, PurgeQueue
  <2>3. queue' = queue
    BY <1>1, <2>1, <2>2 DEF IInv, TypeOK
  <2>. QED  BY <1>4, <2>1, <2>3
<1>10. CASE StopMessage
  <2>1. entry \in created /\ entry \in Workers /\ UNCHANGED registryVars /\ loop' = loop
    BY <1>1, <1>10, StopKeeps, RegistryAssumption
       DEF StopMessage, RInv, EntryIsOpen, RegistryTypeOK, Bystander
  <2>2. \A v \in Workers \ {entry} : queue'[v] = queue[v]
    BY <1>1, <1>10, <2>1 DEF StopMessage, Abort, ClearQueue, PurgeQueue, IInv, TypeOK
  <2>. QED  BY <1>1, <1>2, <1>3, <2>1, <2>2 DEF ChannelInv, registryVars
<1>11. ASSUME NEW w \in Workers, TimerSpent(w) \/ WorkerDrainEnds(w) PROVE ChannelInv'
  BY <1>4, <1>11 DEF TimerSpent, IdleTimerSpent, WorkerDrainEnds, DrainEnds, loopVars, registryVars
<1>12. CASE UNCHANGED allVars \/ DebounceFires \/ \E v \in BOOLEAN : FlagWriteApplied(v)
  BY <1>4, <1>12 DEF allVars, vars, registryVars, DebounceFires, FlagWriteApplied
<1>. QED
  BY <1>5, <1>6, <1>7, <1>8, <1>9, <1>10, <1>11, <1>12, OwnerIsSilent DEF RegistryNext, RegistryStep

LEMMA ChannelBegins == RegistryInit => ChannelInv /\ Channel!Init
<1>. SUFFICES ASSUME RegistryInit PROVE ChannelInv /\ Channel!Init
  OBVIOUS
<1>1. Init /\ RInv /\ entry = NoWorker
  BY Begins DEF RegistryInit
<1>2. UncreatedIsEmpty /\ CrashIsThrown
  BY <1>1 DEF Init, UncreatedIsEmpty, CrashIsThrown
<1>3. Pending = {} /\ Answers = {}
  BY <1>1 DEF Init, Pending, Answers, Settled
<1>. QED  BY <1>1, <1>2, <1>3, VacantShows DEF ChannelInv, Channel!Init

(* As deployed, the workers that serve a channel one after the other are one *)
(* queue of prompts: cohorts never overlap, each is the whole backlog of its *)
(* moment, a prompt is answered once, and a backlog or a cohort is only lost *)
(* to a throwing listener, never to idle collection.                         *)
THEOREM ChannelRefinement == ASSUME Deployed PROVE RegistrySpec => RefinesChannelQueue
<1>1. ChannelInv /\ [RegistryNext]_allVars => ChannelInv' /\ [Channel!Next]_(Channel!vars)
  BY ChannelInvKept, ChannelStep
<1>. QED
  BY <1>1, ChannelBegins, PTL DEF RegistrySpec, RefinesChannelQueue, Channel!Spec
=============================================================================
