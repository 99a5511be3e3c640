------------------------ MODULE PromptRecoveryProofs ------------------------
(***************************************************************************)
(* What a crash can take out of a worker is always something ResumeService *)
(* finds, an open message of a flagged channel; replays keep the order of  *)
(* their originals, and the pass forgets nothing in the channels it        *)
(* recovers: for any number of channels, messages and crashes.  The        *)
(* environment assumed is stated as hypotheses on Hazards: users wait for  *)
(* the boot pass and, where a result says so, every channel has its agent. *)
(***************************************************************************)
EXTENDS PromptRecovery, TLAPS

Quiet == "promptDuringPass" \notin Hazards

Held(m) == \E c \in Channels : m \in waiting[c] \cup turn[c]

(* Messages not stored yet are nowhere. *)
UnstoredIsNowhere ==
  \A m \in Messages : m > last =>
    /\ queueState[m] = "absent"
    /\ m \notin submitting /\ ~Held(m) /\ m \notin backlog
    /\ \A s \in {"running", "done"} : <<m, s>> \notin marks

(* A prompt on its way to the worker is pending, and nobody else has it. *)
SubmittingIsPending ==
  \A m \in submitting :
    /\ channelOf[m] \in Channels /\ queueState[m] = "pending" /\ ~Held(m)
    /\ \A s \in {"running", "done"} : <<m, s>> \notin marks

(* A held prompt is open, in its own channel, and no done mark is under way. *)
HeldIsHome ==
  \A c \in Channels : \A m \in waiting[c] \cup turn[c] :
    /\ channelOf[m] = c
    /\ queueState[m] \in Open
    /\ <<m, "done">> \notin marks

OneHolder == \A c \in Channels : waiting[c] \cap turn[c] = {}

(* The pass lists only what this process is not working on. *)
BacklogIsDead == \A m \in backlog : m \notin submitting /\ ~Held(m)

(* Until it has listed the open prompts, the process has none of its own. *)
PassBeginsAlone ==
  pass \in {"due", "reconcile"} =>
    submitting = {} /\ \A c \in Channels : waiting[c] = {} /\ turn[c] = {}

(* A running mark under way is that of a prompt that is held or was answered. *)
RunningMarkIsKnown ==
  \A m \in Messages : <<m, "running">> \in marks => Held(m) \/ m \in settled

IInv ==
  /\ RecoveryTypeOK
  /\ UnstoredIsNowhere /\ SubmittingIsPending /\ HeldIsHome /\ OneHolder
  /\ BacklogIsDead /\ PassBeginsAlone /\ RunningMarkIsKnown

-----------------------------------------------------------------------------
LEMMA TypeInit == Init => RecoveryTypeOK
BY RecoveryAssumption DEF Init, RecoveryTypeOK, Worker!Init, Messages, NoMessage, Open, Stages

(* The steps of the pass and of the timers that leave prompts alone. *)
BackgroundStep ==
  \/ FindRunning \/ StartDispatch \/ PassEnds
  \/ \E c \in Channels :
       \/ DebounceFires(c) \/ FlagApplied(c) \/ ClearFlag(c) \/ Reconcile(c)
       \/ ReplayReturns(c) \/ LeaveToAutoplay(c) \/ FindFinished(c)
       \/ \E m \in Messages : SkipReplay(c, m)

LEMMA TypeStore ==
  ASSUME RecoveryTypeOK, NEW c \in Channels, NEW original \in Messages \cup {NoMessage},
         StoreMessage(c, original)
  PROVE  /\ last' \in 0 .. MaxMessages /\ last' \in Messages
         /\ channelOf' \in [Messages -> Channels \cup {NoChannel}]
         /\ copyOf' \in [Messages -> Messages \cup {NoMessage}]
         /\ queueState' \in [Messages -> {"absent", "done"} \cup Open]
         /\ submitting' \in SUBSET Messages
         /\ UNCHANGED <<withParts, waiting, turn, settled, marks, debounce, flagWrite,
                        runningFlag, crashes>>
BY RecoveryAssumption DEF StoreMessage, RecoveryTypeOK, Messages, Open, queueVars, flagVars

LEMMA TypeStep == RecoveryTypeOK /\ [Next]_vars => RecoveryTypeOK'
<1>. SUFFICES ASSUME RecoveryTypeOK, [Next]_vars PROVE RecoveryTypeOK'
  OBVIOUS
<1>. USE DEF RecoveryTypeOK, storeVars, queueVars, flagVars, passVars
<1>1. CASE UNCHANGED vars
  BY <1>1 DEF vars
<1>2. ASSUME NEW c \in Channels, UserPrompts(c) PROVE RecoveryTypeOK'
  BY <1>2, TypeStore DEF UserPrompts
<1>3. ASSUME NEW c \in Channels, TurnEnds(c) PROVE RecoveryTypeOK'
  BY <1>3 DEF TurnEnds, Worker!Finish, Worker!Begin, FlagTurn
<1>4. ASSUME NEW c \in Channels, StopPurges(c) PROVE RecoveryTypeOK'
  BY <1>4 DEF StopPurges, Worker!Drop
<1>5. ASSUME NEW m \in Messages, StoreParts(m) PROVE RecoveryTypeOK'
  BY <1>5 DEF StoreParts
<1>6. ASSUME NEW m \in Messages, Submit(m) PROVE RecoveryTypeOK'
  BY <1>6 DEF Submit, Worker!Accept, Worker!AcceptAndStart, Worker!Begin, FlagTurn
<1>7. ASSUME NEW m \in Messages, NEW state \in {"running", "done"}, MarkApplied(m, state)
      PROVE  RecoveryTypeOK'
  BY <1>7 DEF MarkApplied, Open
<1>8. ASSUME NEW c \in Channels, NEW m \in Messages, Replay(c, m) PROVE RecoveryTypeOK'
  BY <1>8, TypeStore DEF Replay, NextReplay
<1>9. ASSUME NEW c \in Channels, NEW m \in Messages, DropReplay(c, m) PROVE RecoveryTypeOK'
  BY <1>9 DEF DropReplay, NextReplay
<1>10. ASSUME NEW c \in Channels, WakeAgent(c) PROVE RecoveryTypeOK'
  BY <1>10, TypeStore DEF WakeAgent
<1>11. CASE ListPending
  BY <1>11 DEF ListPending, Enters, Stages
<1>12. CASE Crash
  <2>1. crashes + 1 \in 0 .. MaxCrashes
    BY <1>12, RecoveryAssumption DEF Crash
  <2>. QED  BY <1>12, <2>1 DEF Crash, Stages
<1>13. CASE BackgroundStep
  <2>1. CASE FindRunning
    BY <2>1 DEF FindRunning, Enters, Stages
  <2>2. CASE StartDispatch \/ PassEnds
    BY <2>2 DEF StartDispatch, PassEnds, Enters, Stages
  <2>3. ASSUME NEW c \in Channels,
               \/ DebounceFires(c) \/ FlagApplied(c) \/ ClearFlag(c) \/ Reconcile(c)
               \/ ReplayReturns(c) \/ LeaveToAutoplay(c) \/ FindFinished(c)
        PROVE  RecoveryTypeOK'
    BY <2>3 DEF DebounceFires, FlagApplied, ClearFlag, Reconcile, ReplayReturns,
                LeaveToAutoplay, FindFinished
  <2>4. ASSUME NEW c \in Channels, NEW m \in Messages, SkipReplay(c, m) PROVE RecoveryTypeOK'
    BY <2>4 DEF SkipReplay, NextReplay
  <2>. QED  BY <1>13, <2>1, <2>2, <2>3, <2>4 DEF BackgroundStep
<1>. QED
  BY <1>1, <1>2, <1>3, <1>4, <1>5, <1>6, <1>7, <1>8, <1>9, <1>10, <1>11, <1>12, <1>13
  DEF Next, PassStep, BackgroundStep

(* Type correctness. *)
THEOREM TypeCorrect == Spec => []RecoveryTypeOK
BY TypeInit, TypeStep, PTL DEF Spec

-----------------------------------------------------------------------------
(* A prompt stored by a user, a replay or a wake-up joins those on their way *)
(* to the worker, and disturbs no other.                                     *)
LEMMA StoreKeeps ==
  ASSUME IInv, RecoveryTypeOK', NEW c \in Channels, NEW original \in Messages \cup {NoMessage},
         StoreMessage(c, original),
         backlog' \subseteq backlog, pass' = pass, pass \notin {"due", "reconcile"}
  PROVE  IInv'
<1>. USE DEF IInv
<1>. DEFINE new == last + 1
<1>1. /\ new \in Messages /\ last' = new
      /\ submitting' = submitting \cup {new}
      /\ channelOf' = [channelOf EXCEPT ![new] = c]
      /\ queueState' = [queueState EXCEPT ![new] = "pending"]
      /\ UNCHANGED <<waiting, turn, settled, marks>>
  BY DEF StoreMessage, queueVars
<1>2. /\ queueState[new] = "absent" /\ new \notin submitting /\ ~Held(new) /\ new \notin backlog
      /\ \A s \in {"running", "done"} : <<new, s>> \notin marks
  BY <1>1 DEF UnstoredIsNowhere, RecoveryTypeOK, Messages
<1>3. /\ queueState'[new] = "pending" /\ channelOf'[new] = c
      /\ \A m \in Messages \ {new} : queueState'[m] = queueState[m] /\ channelOf'[m] = channelOf[m]
  BY <1>1 DEF RecoveryTypeOK
<1>4. \A m : Held(m)' <=> Held(m)
  BY <1>1 DEF Held
<1>5. last \in Nat
  BY DEF RecoveryTypeOK
<1>. HIDE DEF new
<1>6. \A m \in Messages : m > last' => m > last /\ m # new
  BY <1>1, <1>5 DEF new, Messages
<1>7. UnstoredIsNowhere'
  BY <1>1, <1>3, <1>4, <1>6 DEF UnstoredIsNowhere
<1>8. SubmittingIsPending'
  BY <1>1, <1>2, <1>3, <1>4 DEF SubmittingIsPending, RecoveryTypeOK
<1>9. HeldIsHome'
  <2>1. ASSUME NEW d \in Channels, NEW m \in waiting[d] \cup turn[d]
        PROVE  m \in Messages \ {new}
    BY <1>2 DEF Held, RecoveryTypeOK
  <2>. QED  BY <1>1, <1>3, <2>1 DEF HeldIsHome
<1>10. OneHolder'
  BY <1>1 DEF OneHolder
<1>11. BacklogIsDead'
  BY <1>1, <1>2, <1>4 DEF BacklogIsDead
<1>12. PassBeginsAlone' /\ RunningMarkIsKnown'
  BY <1>1, <1>4 DEF PassBeginsAlone, RunningMarkIsKnown
<1>. QED  BY <1>7, <1>8, <1>9, <1>10, <1>11, <1>12

(* Steps that leave the prompts, their states and their marks alone. *)
LEMMA QuietStepKeeps ==
  ASSUME IInv, RecoveryTypeOK',
         UNCHANGED <<last, channelOf, queueState, submitting, waiting, turn, settled, marks>>,
         backlog' \subseteq backlog,
         pass' \in {"due", "reconcile"} => pass \in {"due", "reconcile"}
  PROVE  IInv'
<1>1. \A m : Held(m)' <=> Held(m)
  BY DEF Held
<1>2. UnstoredIsNowhere' /\ SubmittingIsPending' /\ BacklogIsDead'
  BY <1>1 DEF IInv, UnstoredIsNowhere, SubmittingIsPending, BacklogIsDead
<1>3. HeldIsHome' /\ OneHolder' /\ PassBeginsAlone'
  BY DEF IInv, HeldIsHome, OneHolder, PassBeginsAlone
<1>4. RunningMarkIsKnown'
  BY <1>1 DEF IInv, RunningMarkIsKnown
<1>. QED  BY <1>2, <1>3, <1>4 DEF IInv

LEMMA StorePartsKeeps ==
  ASSUME IInv, RecoveryTypeOK', NEW m \in Messages, StoreParts(m)
  PROVE  IInv'
BY QuietStepKeeps DEF StoreParts, queueVars, passVars

LEMMA BackgroundKeeps ==
  ASSUME IInv, RecoveryTypeOK', BackgroundStep
  PROVE  IInv'
<1>. USE DEF storeVars, queueVars, flagVars, passVars
<1>1. CASE FindRunning \/ StartDispatch \/ PassEnds
  BY <1>1, QuietStepKeeps DEF FindRunning, StartDispatch, PassEnds, Enters
<1>2. ASSUME NEW c \in Channels,
             DebounceFires(c) \/ FlagApplied(c) \/ ClearFlag(c) \/ Reconcile(c)
      PROVE  IInv'
  BY <1>2, QuietStepKeeps DEF DebounceFires, FlagApplied, ClearFlag, Reconcile
<1>3. ASSUME NEW c \in Channels, ReplayReturns(c) \/ LeaveToAutoplay(c) \/ FindFinished(c)
      PROVE  IInv'
  BY <1>3, QuietStepKeeps DEF ReplayReturns, LeaveToAutoplay, FindFinished
<1>4. ASSUME NEW c \in Channels, NEW m \in Messages, SkipReplay(c, m) PROVE IInv'
  BY <1>4, QuietStepKeeps DEF SkipReplay, NextReplay
<1>. QED  BY <1>1, <1>2, <1>3, <1>4 DEF BackgroundStep

(* The worker takes a prompt from its caller. *)
LEMMA SubmitKeeps ==
  ASSUME IInv, RecoveryTypeOK', NEW m \in Messages, Submit(m)
  PROVE  IInv'
<1>. USE DEF IInv
<1>. DEFINE c == channelOf[m]
<1>1. /\ m \in submitting /\ submitting' = submitting \ {m}
      /\ UNCHANGED <<last, channelOf, queueState, backlog, pass>>
  BY DEF Submit, storeVars, passVars
<1>2. /\ c \in Channels /\ queueState[m] = "pending" /\ ~Held(m)
      /\ <<m, "done">> \notin marks
  BY <1>1 DEF SubmittingIsPending
<1>. HIDE DEF c
<1>3. /\ waiting'[c] \cup turn'[c] = waiting[c] \cup turn[c] \cup {m}
      /\ waiting'[c] \cap turn'[c] = {}
      /\ \A d \in Channels \ {c} : waiting'[d] = waiting[d] /\ turn'[d] = turn[d]
  <2>1. CASE turn[c] # {} /\ Worker!Accept(c, m)
    BY <1>2, <2>1 DEF Worker!Accept, RecoveryTypeOK, Held, OneHolder
  <2>2. CASE Worker!AcceptAndStart(c, m)
    BY <1>2, <2>2 DEF Worker!AcceptAndStart, Worker!Begin, RecoveryTypeOK, Held, OneHolder
  <2>. QED  BY <2>1, <2>2 DEF Submit, c
<1>4. \A x, s : <<x, s>> \in marks' =>
        <<x, s>> \in marks \/ (s = "running" /\ x \in turn'[c])
  BY DEF Submit, c
<1>4a. marks \subseteq marks'
  BY DEF Submit
<1>5. \A x : Held(x)' <=> Held(x) \/ x = m
  BY <1>2, <1>3 DEF Held
<1>6. \A x \in turn'[c] : Held(x)'
  BY <1>2 DEF Held
<1>7. UnstoredIsNowhere'
  BY <1>1, <1>4, <1>5, <1>6 DEF UnstoredIsNowhere
<1>8. SubmittingIsPending'
  BY <1>1, <1>4, <1>5, <1>6 DEF SubmittingIsPending
<1>9. HeldIsHome'
  <2>1. ASSUME NEW d \in Channels, NEW x \in (waiting[d] \cup turn[d])'
        PROVE  (x = m /\ d = c) \/ x \in waiting[d] \cup turn[d]
    BY <1>3
  <2>2. \A x : <<x, "done">> \in marks' => <<x, "done">> \in marks
    BY <1>4
  <2>3. ASSUME NEW d \in Channels, NEW x \in (waiting[d] \cup turn[d])'
        PROVE  channelOf[x] = d /\ queueState[x] \in Open /\ <<x, "done">> \notin marks
    <3>1. CASE x = m /\ d = c
      BY <1>2, <3>1 DEF c, Open
    <3>2. CASE x \in waiting[d] \cup turn[d]
      BY <3>2 DEF HeldIsHome
    <3>. QED  BY <2>1, <3>1, <3>2
  <2>. QED  BY <1>1, <2>2, <2>3 DEF HeldIsHome
<1>10. OneHolder'
  BY <1>3 DEF OneHolder
<1>11. BacklogIsDead'
  BY <1>1, <1>5 DEF BacklogIsDead
<1>12. PassBeginsAlone'
  BY <1>1 DEF PassBeginsAlone
<1>13. RunningMarkIsKnown'
  <2>1. settled' = settled
    BY DEF Submit, Worker!Accept, Worker!AcceptAndStart
  <2>. QED  BY <1>4, <1>5, <1>6, <2>1 DEF RunningMarkIsKnown
<1>. QED  BY <1>7, <1>8, <1>9, <1>10, <1>11, <1>12, <1>13

(* A turn ends and the backlog takes over. *)
LEMMA TurnEndsKeeps ==
  ASSUME IInv, RecoveryTypeOK', NEW c \in Channels, TurnEnds(c)
  PROVE  IInv'
<1>. USE DEF IInv
<1>1. UNCHANGED <<last, channelOf, queueState, submitting, backlog, pass>>
  BY DEF TurnEnds, storeVars, passVars
<1>2. /\ turn'[c] = waiting[c] /\ waiting'[c] = {}
      /\ \A d \in Channels \ {c} : waiting'[d] = waiting[d] /\ turn'[d] = turn[d]
  BY DEF TurnEnds, Worker!Finish, Worker!Begin, RecoveryTypeOK
<1>3. /\ marks' = marks \cup (turn[c] \X {"done"}) \cup (waiting[c] \X {"running"})
      /\ settled' = settled \cup turn[c]
  BY DEF TurnEnds, Worker!Finish
<1>4. /\ \A x : <<x, "done">> \in marks' => <<x, "done">> \in marks \/ x \in turn[c]
      /\ \A x : <<x, "running">> \in marks' =>
           <<x, "running">> \in marks \/ x \in waiting[c]
  BY <1>3
<1>5. \A x : Held(x)' <=> Held(x) /\ x \notin turn[c]
  <2>0. \A d \in Channels : \A x : x \in waiting[d] \/ x \in turn[d] => channelOf[x] = d
    BY DEF HeldIsHome
  <2>1. \A d \in Channels : \A x \in waiting[d] \cup turn[d] :
          x \in turn[c] => d = c /\ x \notin waiting[c]
    BY <2>0 DEF OneHolder
  <2>. QED  BY <1>2, <2>1 DEF Held
<1>6. \A x \in turn[c] \cup waiting[c] : Held(x)
  BY DEF Held
<1>7. UnstoredIsNowhere'
  BY <1>1, <1>4, <1>5, <1>6 DEF UnstoredIsNowhere
<1>8. SubmittingIsPending'
  BY <1>1, <1>4, <1>5, <1>6 DEF SubmittingIsPending
<1>9. HeldIsHome'
  <2>1. ASSUME NEW d \in Channels, NEW x \in (waiting[d] \cup turn[d])'
        PROVE  x \in waiting[d] \cup turn[d] /\ x \notin turn[c]
    BY <1>2, <1>5 DEF Held
  <2>. QED  BY <1>1, <1>4, <2>1 DEF HeldIsHome
<1>10. OneHolder'
  BY <1>2 DEF OneHolder
<1>11. BacklogIsDead'
  BY <1>1, <1>5 DEF BacklogIsDead
<1>12. PassBeginsAlone'
  BY <1>1, <1>2 DEF PassBeginsAlone
<1>13. RunningMarkIsKnown'
  <2>1. \A x \in waiting[c] : x \notin turn[c]
    BY DEF OneHolder
  <2>. QED  BY <1>3, <1>4, <1>5, <1>6, <2>1 DEF RunningMarkIsKnown
<1>. QED  BY <1>7, <1>8, <1>9, <1>10, <1>11, <1>12, <1>13

(* A purge; the marks of the purged are sent in no given order. *)
LEMMA StopPurgesKeeps ==
  ASSUME IInv, RecoveryTypeOK', NEW c \in Channels, StopPurges(c)
  PROVE  IInv'
<1>. USE DEF IInv
<1>1. UNCHANGED <<last, channelOf, queueState, submitting, backlog, pass, turn>>
  BY DEF StopPurges, storeVars, passVars, Worker!Drop
<1>2. waiting'[c] = {} /\ \A d \in Channels \ {c} : waiting'[d] = waiting[d]
  BY DEF StopPurges, Worker!Drop, RecoveryTypeOK
<1>3. \A x, s : <<x, s>> \in marks' => <<x, s>> \in marks \/ x \in waiting[c]
  BY DEF StopPurges
<1>4. \A x : Held(x)' => Held(x) /\ x \notin waiting[c]
  <2>0. \A d \in Channels : \A x : x \in waiting[d] \/ x \in turn[d] => channelOf[x] = d
    BY DEF HeldIsHome
  <2>1. \A d \in Channels : \A x \in waiting[d] \cup turn[d] :
          x \in waiting[c] => d = c /\ x \notin turn[c]
    BY <2>0 DEF OneHolder
  <2>. QED  BY <1>1, <1>2, <2>1 DEF Held
<1>5. \A x \in waiting[c] : Held(x)
  BY DEF Held
<1>6. UnstoredIsNowhere'
  BY <1>1, <1>3, <1>4, <1>5 DEF UnstoredIsNowhere
<1>7. SubmittingIsPending'
  BY <1>1, <1>3, <1>4, <1>5 DEF SubmittingIsPending
<1>8. HeldIsHome'
  <2>1. ASSUME NEW d \in Channels, NEW x \in (waiting[d] \cup turn[d])'
        PROVE  x \in waiting[d] \cup turn[d] /\ x \notin waiting[c]
    BY <1>1, <1>2, <1>4 DEF Held
  <2>. QED  BY <1>1, <1>3, <2>1 DEF HeldIsHome
<1>9. OneHolder'
  BY <1>1, <1>2 DEF OneHolder
<1>10. BacklogIsDead'
  BY <1>1, <1>4 DEF BacklogIsDead
<1>11. PassBeginsAlone'
  BY <1>1, <1>2 DEF PassBeginsAlone
<1>12. RunningMarkIsKnown'
  <2>1. settled' = settled \cup waiting[c]
    BY DEF StopPurges, Worker!Drop
  <2>2. \A x : Held(x) => Held(x)' \/ x \in waiting[c]
    BY <1>1, <1>2 DEF Held
  <2>. QED  BY <1>3, <2>1, <2>2 DEF RunningMarkIsKnown
<1>. QED  BY <1>6, <1>7, <1>8, <1>9, <1>10, <1>11, <1>12

LEMMA MarkAppliedKeeps ==
  ASSUME IInv, RecoveryTypeOK', NEW m \in Messages, NEW state \in {"running", "done"},
         MarkApplied(m, state)
  PROVE  IInv'
<1>. USE DEF IInv
<1>1. /\ <<m, state>> \in marks /\ marks' \subseteq marks
      /\ UNCHANGED <<last, channelOf, submitting, backlog, pass, waiting, turn>>
  BY DEF MarkApplied, queueVars, passVars
<1>2. /\ queueState'[m] = state
      /\ \A x \in Messages \ {m} : queueState'[x] = queueState[x]
  BY DEF MarkApplied, RecoveryTypeOK
<1>3. \A x : Held(x)' <=> Held(x)
  BY <1>1 DEF Held
<1>4. UnstoredIsNowhere'
  BY <1>1, <1>2, <1>3 DEF UnstoredIsNowhere
<1>5. SubmittingIsPending'
  BY <1>1, <1>2, <1>3 DEF SubmittingIsPending, RecoveryTypeOK
<1>6. HeldIsHome'
  <2>1. ASSUME NEW d \in Channels, NEW x \in waiting[d] \cup turn[d]
        PROVE  x \in Messages /\ queueState'[x] \in Open
    BY <1>1, <1>2 DEF HeldIsHome, RecoveryTypeOK, Open
  <2>. QED  BY <1>1, <2>1 DEF HeldIsHome
<1>7. OneHolder' /\ BacklogIsDead' /\ PassBeginsAlone'
  BY <1>1, <1>3 DEF OneHolder, BacklogIsDead, PassBeginsAlone
<1>8. RunningMarkIsKnown'
  BY <1>1, <1>3 DEF RunningMarkIsKnown, MarkApplied, queueVars
<1>. QED  BY <1>4, <1>5, <1>6, <1>7, <1>8

LEMMA DropReplayKeeps ==
  ASSUME IInv, RecoveryTypeOK', NEW c \in Channels, NEW m \in Messages, DropReplay(c, m)
  PROVE  IInv'
<1>. USE DEF IInv
<1>1. /\ m \in backlog /\ backlog' \subseteq backlog
      /\ UNCHANGED <<last, channelOf, submitting, pass, waiting, turn, marks>>
  BY DEF DropReplay, NextReplay, queueVars
<1>2. \A x \in Messages \ {m} : queueState'[x] = queueState[x]
  BY DEF DropReplay, RecoveryTypeOK
<1>3. \A x : Held(x)' <=> Held(x)
  BY <1>1 DEF Held
<1>4. m \notin submitting /\ ~Held(m) /\ ~(m > last)
  BY <1>1 DEF BacklogIsDead, UnstoredIsNowhere
<1>5. UnstoredIsNowhere'
  BY <1>1, <1>2, <1>3, <1>4 DEF UnstoredIsNowhere
<1>6. SubmittingIsPending'
  BY <1>1, <1>2, <1>3, <1>4 DEF SubmittingIsPending, RecoveryTypeOK
<1>7. HeldIsHome'
  <2>1. ASSUME NEW d \in Channels, NEW x \in waiting[d] \cup turn[d]
        PROVE  x \in Messages \ {m}
    BY <1>4 DEF Held, RecoveryTypeOK
  <2>. QED  BY <1>1, <1>2, <2>1 DEF HeldIsHome
<1>8. OneHolder' /\ BacklogIsDead' /\ PassBeginsAlone'
  BY <1>1, <1>3 DEF OneHolder, BacklogIsDead, PassBeginsAlone
<1>9. RunningMarkIsKnown'
  BY <1>1, <1>3 DEF RunningMarkIsKnown, DropReplay, queueVars
<1>. QED  BY <1>5, <1>6, <1>7, <1>8, <1>9

LEMMA ListPendingKeeps ==
  ASSUME IInv, RecoveryTypeOK', ListPending
  PROVE  IInv'
<1>. USE DEF IInv
<1>1. /\ pass = "reconcile" /\ pass' = "replay"
      /\ backlog' = {m \in Messages : channelOf[m] \in recoverable /\ queueState[m] \in Open}
      /\ UNCHANGED <<last, channelOf, queueState, submitting, waiting, turn, marks>>
  BY DEF ListPending, Enters, storeVars, queueVars
<1>2. \A x : Held(x)' <=> Held(x)
  BY <1>1 DEF Held
<1>3. submitting = {} /\ \A x : ~Held(x)
  BY <1>1 DEF PassBeginsAlone, Held
<1>4. UnstoredIsNowhere'
  BY <1>1, <1>2 DEF UnstoredIsNowhere, Open
<1>5. SubmittingIsPending' /\ BacklogIsDead'
  BY <1>1, <1>2, <1>3 DEF SubmittingIsPending, BacklogIsDead
<1>6. HeldIsHome' /\ OneHolder' /\ PassBeginsAlone'
  BY <1>1 DEF HeldIsHome, OneHolder, PassBeginsAlone
<1>7. RunningMarkIsKnown'
  BY <1>1, <1>2 DEF RunningMarkIsKnown, ListPending, queueVars
<1>. QED  BY <1>4, <1>5, <1>6, <1>7

(* A crash leaves nothing in the process. *)
LEMMA CrashKeeps ==
  ASSUME IInv, RecoveryTypeOK', Crash
  PROVE  IInv'
<1>. USE DEF IInv
<1>1. /\ submitting' = {} /\ marks' = {} /\ backlog' = {}
      /\ UNCHANGED <<last, channelOf, queueState>>
  BY DEF Crash, storeVars
<1>2. \A c \in Channels : waiting'[c] = {} /\ turn'[c] = {}
  BY DEF Crash
<1>3. \A x : ~Held(x)'
  BY <1>2 DEF Held
<1>4. UnstoredIsNowhere' /\ SubmittingIsPending' /\ BacklogIsDead'
  BY <1>1, <1>3 DEF UnstoredIsNowhere, SubmittingIsPending, BacklogIsDead
<1>5. HeldIsHome' /\ OneHolder' /\ PassBeginsAlone'
  BY <1>1, <1>2 DEF HeldIsHome, OneHolder, PassBeginsAlone
<1>6. RunningMarkIsKnown'
  BY <1>1 DEF RunningMarkIsKnown
<1>. QED  BY <1>4, <1>5, <1>6

-----------------------------------------------------------------------------
LEMMA InitIInv == Init => IInv
<1>. SUFFICES ASSUME Init PROVE IInv
  OBVIOUS
<1>1. RecoveryTypeOK
  BY TypeInit
<1>2. \A m : ~Held(m)
  BY DEF Init, Worker!Init, Held
<1>. QED
  BY <1>1, <1>2 DEF Init, Worker!Init, IInv, UnstoredIsNowhere, SubmittingIsPending,
     HeldIsHome, OneHolder, BacklogIsDead, PassBeginsAlone, RunningMarkIsKnown

LEMMA NextKeepsIInv == ASSUME Quiet PROVE IInv /\ [Next]_vars => IInv'
<1>. SUFFICES ASSUME IInv, [Next]_vars PROVE IInv'
  OBVIOUS
<1>1. RecoveryTypeOK'
  BY TypeStep DEF IInv
<1>2. CASE UNCHANGED vars
  BY <1>1, <1>2, QuietStepKeeps DEF vars, storeVars, queueVars, passVars
<1>3. ASSUME NEW c \in Channels, UserPrompts(c) PROVE IInv'
  BY <1>1, <1>3, StoreKeeps DEF UserPrompts, passVars, Quiet
<1>4. ASSUME NEW c \in Channels, NEW m \in Messages, Replay(c, m) PROVE IInv'
  BY <1>1, <1>4, StoreKeeps DEF Replay, NextReplay
<1>5. ASSUME NEW c \in Channels, WakeAgent(c) PROVE IInv'
  BY <1>1, <1>5, StoreKeeps DEF WakeAgent
<1>. QED
  BY <1>1, <1>2, <1>3, <1>4, <1>5, StorePartsKeeps, BackgroundKeeps, SubmitKeeps,
     TurnEndsKeeps, StopPurgesKeeps, MarkAppliedKeeps, DropReplayKeeps, ListPendingKeeps,
     CrashKeeps
  DEF Next, PassStep, BackgroundStep

LEMMA Invariance == ASSUME Quiet PROVE Spec => []IInv
<1>1. IInv /\ [Next]_vars => IInv'
  BY NextKeepsIInv
<1>. QED  BY <1>1, InitIInv, PTL DEF Spec

-----------------------------------------------------------------------------
(* What the pass knows of the process at each stage. *)
PassState ==
  /\ pass # "replay" => backlog = {} /\ \A c \in Channels : replaying[c] = NoMessage
  /\ pass \in {"due", "reconcile"} => marks = {}
  /\ pass = "off" => toClear = {}

SettledIsOver ==
  \A m \in settled : m <= last /\ m \notin submitting /\ ~Held(m)

(* A replay is of its channel, and older than what the channel has left. *)
ReplayIsNext ==
  \A c \in Channels : replaying[c] # NoMessage =>
    /\ replaying[c] <= last /\ channelOf[replaying[c]] = c
    /\ \A m \in backlog : channelOf[m] = c => copyOf[replaying[c]] < m

(* While messages are replayed the process works on nothing else. *)
WorkIsReplay ==
  pass = "replay" =>
    \A m \in Messages : Live(m) => \E c \in Channels : replaying[c] = m

(* A flag the pass is about to clear is that of a channel without work. *)
ClearIsFree ==
  /\ pass = "replay" /\ toClear # {} =>
       backlog = {} /\ \A c \in Channels : replaying[c] = NoMessage
  /\ pass = "dispatch" =>
       \A m \in Messages : m \in submitting \/ Held(m) =>
         channelOf[m] \notin todo /\ channelOf[m] \notin toClear

(* The last word on the flag of a channel with a turn is that it runs. *)
FlagStands ==
  \A c \in Channels : turn[c] # {} =>
    \/ flagWrite[c] = "set"
    \/ flagWrite[c] = "none" /\ c \in runningFlag

(* A backlog waits behind a turn. *)
BacklogHasTurn == \A c \in Channels : waiting[c] # {} => turn[c] # {}

PInv ==
  /\ PassState /\ SettledIsOver /\ ReplayIsNext /\ WorkIsReplay /\ ClearIsFree /\ FlagStands
  /\ BacklogHasTurn

(* The steps, by what they do to the prompts: the process works on those it    *)
(* has, the pass moves on, one is stored, or all are lost.                     *)
WorkStep ==
  \/ \E m \in Messages :
       \/ StoreParts(m) \/ Submit(m)
       \/ \E state \in {"running", "done"} : MarkApplied(m, state)
  \/ \E c \in Channels : TurnEnds(c) \/ StopPurges(c) \/ DebounceFires(c) \/ FlagApplied(c)
  \/ UNCHANGED vars

PassMoves ==
  \/ FindRunning \/ ListPending \/ StartDispatch \/ PassEnds
  \/ \E c \in Channels :
       \/ ClearFlag(c) \/ Reconcile(c) \/ ReplayReturns(c) \/ LeaveToAutoplay(c) \/ FindFinished(c)
       \/ \E m \in Messages : DropReplay(c, m) \/ SkipReplay(c, m)

Stores(c) == UserPrompts(c) \/ WakeAgent(c) \/ \E m \in Messages : Replay(c, m)

LEMMA StepSplit ==
  ASSUME [Next]_vars
  PROVE  WorkStep \/ PassMoves \/ Crash \/ \E c \in Channels : Stores(c)
BY DEF Next, PassStep, WorkStep, PassMoves, Stores

(* Work never adds to what is live. *)
Shrinks ==
  \A m \in Messages :
    /\ Live(m)' => Live(m)
    /\ m \in submitting' \/ Held(m)' => m \in submitting \/ Held(m)

LEMMA WorkShrinks ==
  ASSUME IInv, WorkStep
  PROVE  /\ UNCHANGED <<last, channelOf, copyOf, pass, todo, recoverable, toClear, backlog, replaying>>
         /\ Shrinks
<1>. USE DEF storeVars, queueVars, flagVars, passVars
<1>1. UNCHANGED <<last, channelOf, copyOf, pass, todo, recoverable, toClear, backlog, replaying>>
  BY DEF WorkStep, StoreParts, Submit, MarkApplied, TurnEnds, StopPurges, DebounceFires, FlagApplied, vars
<1>2. ASSUME submitting' \subseteq submitting,
             \A x \in Messages : Held(x)' => Held(x),
             \A x \in Messages : <<x, "done">> \in marks' => <<x, "done">> \in marks \/ Held(x)
      PROVE  Shrinks
  BY <1>2 DEF Shrinks, Live, Held
<1>3. ASSUME UNCHANGED <<submitting, waiting, turn>>, marks' \subseteq marks PROVE Shrinks
  BY <1>2, <1>3 DEF Held
<1>4. CASE UNCHANGED vars
  BY <1>3, <1>4 DEF vars
<1>5. ASSUME NEW m \in Messages, StoreParts(m) PROVE Shrinks
  BY <1>3, <1>5 DEF StoreParts
<1>6. ASSUME NEW m \in Messages, NEW state \in {"running", "done"}, MarkApplied(m, state) PROVE Shrinks
  BY <1>3, <1>6 DEF MarkApplied
<1>7. ASSUME NEW c \in Channels, DebounceFires(c) \/ FlagApplied(c) PROVE Shrinks
  BY <1>3, <1>7 DEF DebounceFires, FlagApplied
<1>8. ASSUME NEW m \in Messages, Submit(m) PROVE Shrinks
  <2>. DEFINE c == channelOf[m]
  <2>1. m \in submitting /\ submitting' \subseteq submitting
    BY <1>8 DEF Submit
  <2>2. c \in Channels
    BY <2>1 DEF IInv, SubmittingIsPending
  <2>. HIDE DEF c
  <2>3. \A d \in Channels : waiting'[d] \cup turn'[d] \subseteq waiting[d] \cup turn[d] \cup {m}
    <3>1. CASE Worker!Accept(c, m)
      BY <2>2, <3>1 DEF Worker!Accept, IInv, RecoveryTypeOK
    <3>2. CASE Worker!AcceptAndStart(c, m)
      BY <2>2, <3>2 DEF Worker!AcceptAndStart, Worker!Begin, IInv, RecoveryTypeOK
    <3>. QED  BY <1>8, <3>1, <3>2 DEF Submit, c
  <2>4. \A x : <<x, "done">> \in marks' => <<x, "done">> \in marks
    BY <1>8 DEF Submit
  <2>. QED  BY <2>1, <2>3, <2>4 DEF Shrinks, Live, Held
<1>9. ASSUME NEW c \in Channels, TurnEnds(c) PROVE Shrinks
  <2>1. /\ turn'[c] = waiting[c] /\ waiting'[c] = {} /\ submitting' = submitting
        /\ \A d \in Channels \ {c} : waiting'[d] = waiting[d] /\ turn'[d] = turn[d]
    BY <1>9 DEF TurnEnds, Worker!Finish, Worker!Begin, IInv, RecoveryTypeOK
  <2>2. \A x : <<x, "done">> \in marks' => <<x, "done">> \in marks \/ x \in turn[c]
    BY <1>9 DEF TurnEnds
  <2>. QED  BY <1>2, <2>1, <2>2 DEF Held
<1>10. ASSUME NEW c \in Channels, StopPurges(c) PROVE Shrinks
  <2>1. /\ UNCHANGED <<submitting, turn>>
        /\ \A d \in Channels : waiting'[d] \subseteq waiting[d]
    BY <1>10 DEF StopPurges, Worker!Drop, IInv, RecoveryTypeOK
  <2>2. \A x : <<x, "done">> \in marks' => <<x, "done">> \in marks \/ x \in waiting[c]
    BY <1>10 DEF StopPurges
  <2>. QED  BY <1>2, <2>1, <2>2 DEF Held
<1>. QED  BY <1>1, <1>4, <1>5, <1>6, <1>7, <1>8, <1>9, <1>10 DEF WorkStep

(* What a stored prompt adds. *)
LEMMA StoreEffect ==
  ASSUME IInv, NEW c \in Channels, NEW original \in Messages \cup {NoMessage}, StoreMessage(c, original)
  PROVE  /\ last + 1 \in Messages /\ last' = last + 1 /\ last \in Nat
         /\ submitting' = submitting \cup {last + 1}
         /\ channelOf'[last + 1] = c /\ copyOf'[last + 1] = original
         /\ \A m \in Messages \ {last + 1} :
              /\ channelOf'[m] = channelOf[m] /\ copyOf'[m] = copyOf[m] /\ queueState'[m] = queueState[m]
              /\ Live(m)' => Live(m)
              /\ m \in submitting' \/ Held(m)' => m \in submitting \/ Held(m)
         /\ \A m : (Held(m)' <=> Held(m)) /\ (Live(m) => Live(m)')
         /\ last + 1 \notin submitting /\ ~Held(last + 1) /\ last + 1 \notin backlog /\ ~Live(last + 1)
         /\ UNCHANGED <<waiting, turn, settled, marks, debounce, flagWrite, runningFlag>>
<1>1. /\ last + 1 \in Messages /\ last' = last + 1 /\ last \in Nat
      /\ submitting' = submitting \cup {last + 1}
      /\ UNCHANGED <<waiting, turn, settled, marks, debounce, flagWrite, runningFlag>>
  BY DEF StoreMessage, queueVars, flagVars, IInv, RecoveryTypeOK
<1>2. /\ channelOf'[last + 1] = c /\ copyOf'[last + 1] = original
      /\ \A m \in Messages \ {last + 1} :
           channelOf'[m] = channelOf[m] /\ copyOf'[m] = copyOf[m] /\ queueState'[m] = queueState[m]
  BY <1>1 DEF StoreMessage, IInv, RecoveryTypeOK
<1>3. \A m : Held(m)' <=> Held(m)
  BY <1>1 DEF Held
<1>4. \A m : (Live(m) => Live(m)') /\ (Live(m)' => Live(m) \/ m = last + 1)
  BY <1>1 DEF Live
<1>5. /\ last + 1 \notin submitting /\ ~Held(last + 1) /\ last + 1 \notin backlog
      /\ <<last + 1, "done">> \notin marks
  <2>1. last + 1 > last
    BY <1>1
  <2>. QED  BY <1>1, <2>1 DEF IInv, UnstoredIsNowhere
<1>6. ~Live(last + 1)
  BY <1>5 DEF Live, Held
<1>. QED  BY <1>1, <1>2, <1>3, <1>4, <1>5, <1>6

(* Who stores one: a user when there is no pass, the pass when it replays or   *)
(* wakes an agent.                                                             *)
StoreCase(c) ==
  \/ pass = "off" /\ StoreMessage(c, NoMessage)
     /\ UNCHANGED <<pass, todo, recoverable, toClear, backlog, replaying>>
  \/ pass = "dispatch" /\ StoreMessage(c, NoMessage)
     /\ toClear = {} /\ c \in todo /\ todo' = todo \ {c}
     /\ UNCHANGED <<pass, recoverable, toClear, backlog, replaying>>
  \/ \E m \in Messages :
       /\ pass = "replay" /\ StoreMessage(c, m)
       /\ replaying[c] = NoMessage /\ m \in backlog /\ channelOf[m] = c
       /\ \A n \in backlog : channelOf[n] = c => m <= n
       /\ backlog' = backlog \ {m} /\ replaying' = [replaying EXCEPT ![c] = last + 1]
       /\ UNCHANGED <<pass, todo, recoverable, toClear>>

LEMMA StoresAre ==
  ASSUME Quiet, IInv, NEW c \in Channels, Stores(c)
  PROVE  /\ StoreCase(c)
         /\ \E original \in Messages \cup {NoMessage} : StoreMessage(c, original)
<1>1. CASE UserPrompts(c)
  BY <1>1 DEF UserPrompts, Quiet, passVars, StoreCase
<1>2. CASE WakeAgent(c)
  BY <1>2 DEF WakeAgent, StoreCase
<1>3. ASSUME NEW m \in Messages, Replay(c, m)
      PROVE  /\ StoreCase(c)
             /\ \E original \in Messages \cup {NoMessage} : StoreMessage(c, original)
  <2>1. last' = last + 1 /\ StoreMessage(c, m)
    BY <1>3 DEF Replay, StoreMessage
  <2>2. \A n \in backlog : n \in Messages
    BY DEF IInv, RecoveryTypeOK
  <2>. QED  BY <1>3, <2>1, <2>2 DEF Replay, NextReplay, StoreCase, Of
<1>. QED  BY <1>1, <1>2, <1>3 DEF Stores

(* The moves of the pass leave the prompts where they are. *)
LEMMA PassMovesQuietly ==
  ASSUME PassMoves
  PROVE  /\ UNCHANGED <<last, channelOf, copyOf, submitting, waiting, turn, settled, marks, flagWrite>>
         /\ \A m : (Live(m)' <=> Live(m)) /\ (Held(m)' <=> Held(m))
<1>1. UNCHANGED <<last, channelOf, copyOf, submitting, waiting, turn, settled, marks, flagWrite>>
  BY DEF PassMoves, FindRunning, ListPending, StartDispatch, PassEnds, ClearFlag, Reconcile, ReplayReturns,
     LeaveToAutoplay, FindFinished, DropReplay, SkipReplay, storeVars, queueVars, flagVars
<1>. QED  BY <1>1 DEF Live, Held

LEMMA CrashEffect ==
  ASSUME Crash
  PROVE  /\ \A m : ~Live(m)' /\ ~Held(m)' /\ m \notin submitting'
         /\ \A c \in Channels : turn'[c] = {} /\ replaying'[c] = NoMessage
         /\ backlog' = {} /\ marks' = {} /\ toClear' = {} /\ pass' = "due"
         /\ UNCHANGED <<last, settled>>
BY DEF Crash, Live, Held, storeVars

-----------------------------------------------------------------------------
(* Each part is kept. *)
LEMMA PassStateKept ==
  ASSUME Quiet, IInv, PassState, [Next]_vars
  PROVE  PassState'
<1>1. CASE WorkStep
  <2>1. UNCHANGED <<pass, toClear, backlog, replaying>>
    BY <1>1, WorkShrinks
  <2>2. ASSUME pass \in {"due", "reconcile"} PROVE marks' \subseteq marks
    <3>1. submitting = {} /\ \A c \in Channels : waiting[c] = {} /\ turn[c] = {}
      BY <2>2 DEF IInv, PassBeginsAlone
    <3>. QED
      BY <1>1, <3>1 DEF WorkStep, StoreParts, Submit, MarkApplied, TurnEnds, Worker!Finish, Worker!Begin, StopPurges,
         DebounceFires, FlagApplied, vars
  <2>. QED  BY <2>1, <2>2 DEF PassState
<1>2. CASE FindRunning
  BY <1>2 DEF FindRunning, Enters, PassState
<1>3. CASE ListPending
  BY <1>3 DEF ListPending, Enters, PassState
<1>4. CASE StartDispatch \/ PassEnds
  BY <1>4 DEF StartDispatch, PassEnds, Enters, PassState
<1>5. ASSUME NEW c \in Channels,
             ClearFlag(c) \/ Reconcile(c) \/ LeaveToAutoplay(c) \/ FindFinished(c)
      PROVE  PassState'
  BY <1>5 DEF ClearFlag, Reconcile, LeaveToAutoplay, FindFinished, PassState
<1>6. ASSUME NEW c \in Channels, ReplayReturns(c) PROVE PassState'
  BY <1>6 DEF ReplayReturns, PassState, IInv, RecoveryTypeOK
<1>7. ASSUME NEW c \in Channels, NEW m \in Messages, DropReplay(c, m) \/ SkipReplay(c, m)
      PROVE  PassState'
  BY <1>7 DEF DropReplay, SkipReplay, NextReplay, PassState
<1>8. CASE Crash
  BY <1>8, CrashEffect DEF PassState
<1>9. ASSUME NEW c \in Channels, Stores(c) PROVE PassState'
  <2>1. StoreCase(c) /\ marks' = marks
    BY <1>9, StoresAre, StoreEffect
  <2>. QED  BY <2>1 DEF StoreCase, PassState
<1>. QED  BY <1>1, <1>2, <1>3, <1>4, <1>5, <1>6, <1>7, <1>8, <1>9, StepSplit DEF PassMoves

(* A held prompt is stored, no longer on its way, and held by one channel. *)
LEMMA HeldByOne ==
  ASSUME IInv, NEW c \in Channels, NEW m \in waiting[c] \cup turn[c]
  PROVE  /\ m \in Messages /\ m <= last /\ m \notin submitting
         /\ \A d \in Channels \ {c} : m \notin waiting[d] \cup turn[d]
<1>1. Held(m) /\ m \in Messages /\ channelOf[m] = c
  BY DEF Held, IInv, RecoveryTypeOK, HeldIsHome
<1>2. ~(m > last)
  BY <1>1 DEF IInv, UnstoredIsNowhere
<1>3. m \in Nat /\ last \in Nat
  BY <1>1 DEF IInv, RecoveryTypeOK, Messages
<1>4. m \notin submitting
  BY <1>1 DEF IInv, SubmittingIsPending
<1>5. \A d \in Channels \ {c} : m \notin waiting[d] \cup turn[d]
  BY <1>1 DEF IInv, HeldIsHome
<1>. QED  BY <1>1, <1>2, <1>3, <1>4, <1>5

LEMMA SettledIsOverKept ==
  ASSUME Quiet, IInv, SettledIsOver, [Next]_vars
  PROVE  SettledIsOver'
<1>0. settled \subseteq Messages /\ last \in Nat /\ \A m \in Messages : m \in Nat
  BY DEF IInv, RecoveryTypeOK, Messages
<1>1. ASSUME settled' = settled, last' = last, Shrinks PROVE SettledIsOver'
  BY <1>0, <1>1 DEF SettledIsOver, Shrinks
<1>2. ASSUME NEW c \in Channels, TurnEnds(c) PROVE SettledIsOver'
  <2>1. settled' = settled \cup turn[c] /\ last' = last /\ submitting' = submitting
        /\ turn'[c] = waiting[c] /\ waiting'[c] = {}
        /\ \A d \in Channels \ {c} : waiting'[d] = waiting[d] /\ turn'[d] = turn[d]
    BY <1>2 DEF TurnEnds, Worker!Finish, Worker!Begin, storeVars, IInv, RecoveryTypeOK
  <2>2. ASSUME NEW m \in turn[c] PROVE m <= last /\ m \notin submitting /\ ~Held(m)'
    <3>1. m \notin waiting[c]
      BY DEF IInv, OneHolder
    <3>. QED  BY <2>1, <3>1, HeldByOne DEF Held
  <2>3. ASSUME NEW m \in settled PROVE m <= last /\ m \notin submitting /\ ~Held(m)'
    BY <2>1 DEF SettledIsOver, Held
  <2>. QED  BY <2>1, <2>2, <2>3 DEF SettledIsOver
<1>3. ASSUME NEW c \in Channels, StopPurges(c) PROVE SettledIsOver'
  <2>1. settled' = settled \cup waiting[c] /\ last' = last /\ submitting' = submitting
        /\ turn' = turn /\ waiting'[c] = {}
        /\ \A d \in Channels \ {c} : waiting'[d] = waiting[d]
    BY <1>3 DEF StopPurges, Worker!Drop, storeVars, IInv, RecoveryTypeOK
  <2>2. ASSUME NEW m \in waiting[c] PROVE m <= last /\ m \notin submitting /\ ~Held(m)'
    <3>1. m \notin turn[c]
      BY DEF IInv, OneHolder
    <3>. QED  BY <2>1, <3>1, HeldByOne DEF Held
  <2>3. ASSUME NEW m \in settled PROVE m <= last /\ m \notin submitting /\ ~Held(m)'
    BY <2>1 DEF SettledIsOver, Held
  <2>. QED  BY <2>1, <2>2, <2>3 DEF SettledIsOver
<1>4. CASE WorkStep
  <2>1. \/ \E c \in Channels : TurnEnds(c) \/ StopPurges(c)
        \/ settled' = settled
    BY <1>4 DEF WorkStep, StoreParts, Submit, Worker!Accept, Worker!AcceptAndStart, Worker!Begin, MarkApplied,
       DebounceFires, FlagApplied, vars, queueVars
  <2>. QED  BY <1>1, <1>2, <1>3, <1>4, <2>1, WorkShrinks
<1>5. CASE PassMoves
  BY <1>1, <1>5, PassMovesQuietly DEF Shrinks
<1>6. CASE Crash
  BY <1>6, CrashEffect DEF SettledIsOver
<1>7. ASSUME NEW c \in Channels, Stores(c) PROVE SettledIsOver'
  <2>1. /\ last + 1 \in Messages /\ last' = last + 1 /\ settled' = settled
        /\ \A m \in Messages \ {last + 1} : m \in submitting' \/ Held(m)' => m \in submitting \/ Held(m)
    BY <1>7, StoresAre, StoreEffect
  <2>2. \A m \in settled : m <= last' /\ m # last + 1
    <3>1. \A m \in settled : m <= last /\ m \in Nat
      BY <1>0 DEF SettledIsOver
    <3>. QED  BY ONLY <1>0, <2>1, <3>1
  <2>. QED  BY <1>0, <2>1, <2>2 DEF SettledIsOver
<1>. QED  BY <1>4, <1>5, <1>6, <1>7, StepSplit

LEMMA ReplayIsNextKept ==
  ASSUME Quiet, IInv, PassState, ReplayIsNext, [Next]_vars
  PROVE  ReplayIsNext'
<1>0. /\ \A c \in Channels : replaying[c] \in Messages \cup {NoMessage}
      /\ last \in Nat /\ backlog \subseteq Messages /\ \A m \in Messages : m \in Nat
      /\ copyOf \in [Messages -> Messages \cup {NoMessage}]
  BY DEF IInv, RecoveryTypeOK, Messages
<1>1. ASSUME UNCHANGED <<last, channelOf, copyOf>>, backlog' \subseteq backlog,
             \A c \in Channels : replaying'[c] \in {replaying[c], NoMessage}
      PROVE  ReplayIsNext'
  BY <1>1 DEF ReplayIsNext
<1>2. CASE WorkStep
  BY <1>1, <1>2, WorkShrinks
<1>3. CASE ListPending
  <2>1. \A c \in Channels : replaying'[c] = NoMessage
    BY <1>3 DEF ListPending, PassState
  <2>. QED  BY <2>1 DEF ReplayIsNext
<1>4. CASE PassMoves /\ ~ListPending
  <2>1. backlog' \subseteq backlog /\ \A c \in Channels : replaying'[c] \in {replaying[c], NoMessage}
    BY <1>4 DEF PassMoves, FindRunning, StartDispatch, PassEnds, ClearFlag, Reconcile, ReplayReturns,
       LeaveToAutoplay, FindFinished, DropReplay, SkipReplay, NextReplay, IInv, RecoveryTypeOK
  <2>. QED  BY <1>1, <1>4, <2>1, PassMovesQuietly
<1>5. CASE Crash
  BY <1>5, CrashEffect DEF ReplayIsNext
<1>6. ASSUME NEW c \in Channels, Stores(c) PROVE ReplayIsNext'
  <2>1. CASE pass # "replay"
    BY <1>6, <2>1, StoresAre DEF StoreCase, PassState, ReplayIsNext
  <2>2. ASSUME NEW m \in Messages, StoreMessage(c, m), channelOf[m] = c, m \in backlog,
               \A n \in backlog : channelOf[n] = c => m <= n,
               backlog' = backlog \ {m}, replaying' = [replaying EXCEPT ![c] = last + 1]
        PROVE  ReplayIsNext'
    <3>1. /\ last + 1 \in Messages /\ last' = last + 1
          /\ channelOf'[last + 1] = c /\ copyOf'[last + 1] = m /\ last + 1 \notin backlog
          /\ \A n \in Messages \ {last + 1} : channelOf'[n] = channelOf[n] /\ copyOf'[n] = copyOf[n]
      BY <2>2, StoreEffect
    <3>2. replaying'[c] = last + 1 /\ \A d \in Channels \ {c} : replaying'[d] = replaying[d]
      BY <2>2 DEF IInv, RecoveryTypeOK
    <3>3. \A n \in backlog' : n \in backlog /\ n \in Messages \ {last + 1} /\ n # m /\ n \in Nat
      BY <1>0, <2>2, <3>1
    <3>4. \A n \in backlog' : channelOf'[n] = c => m < n
      BY <1>0, <2>2, <3>1, <3>3
    <3>5. ASSUME NEW d \in Channels \ {c}, replaying[d] # NoMessage
          PROVE  /\ replaying[d] <= last' /\ channelOf'[replaying[d]] = d
                 /\ \A n \in backlog' : channelOf'[n] = d => copyOf'[replaying[d]] < n
      <4>1. replaying[d] \in Messages /\ replaying[d] <= last /\ channelOf[replaying[d]] = d
            /\ \A n \in backlog : channelOf[n] = d => copyOf[replaying[d]] < n
        BY <1>0, <3>5 DEF ReplayIsNext
      <4>2. replaying[d] # last + 1 /\ replaying[d] <= last + 1
        <5>. PICK r \in Nat : r = replaying[d]
          BY <1>0, <4>1
        <5>. QED  BY <1>0, <4>1
      <4>. QED  BY <3>1, <3>3, <4>1, <4>2
    <3>. QED  BY <1>0, <3>1, <3>2, <3>4, <3>5 DEF ReplayIsNext
  <2>. QED  BY <1>6, <2>1, <2>2, StoresAre DEF StoreCase
<1>. QED  BY <1>2, <1>3, <1>4, <1>5, <1>6, StepSplit

LEMMA WorkIsReplayKept ==
  ASSUME Quiet, IInv, PassState, SettledIsOver, WorkIsReplay, [Next]_vars
  PROVE  WorkIsReplay'
<1>0. NoMessage \notin Messages
  BY DEF Messages, NoMessage
<1>1. ASSUME UNCHANGED <<pass, replaying>>, \A m \in Messages : Live(m)' => Live(m)
      PROVE  WorkIsReplay'
  BY <1>1 DEF WorkIsReplay
<1>2. CASE WorkStep
  BY <1>1, <1>2, WorkShrinks DEF Shrinks
<1>3. CASE ListPending
  <2>1. \A m : ~Live(m)
    <3>1. submitting = {} /\ marks = {} /\ \A c \in Channels : waiting[c] = {} /\ turn[c] = {}
      BY <1>3 DEF ListPending, IInv, PassBeginsAlone, PassState
    <3>. QED  BY <3>1 DEF Live
  <2>. QED  BY <1>3, <2>1, PassMovesQuietly DEF WorkIsReplay, PassMoves
<1>4. ASSUME NEW c \in Channels, ReplayReturns(c) PROVE WorkIsReplay'
  <2>1. replaying[c] \in settled /\ <<replaying[c], "done">> \notin marks
        /\ pass' = pass /\ \A d \in Channels \ {c} : replaying'[d] = replaying[d]
    BY <1>4 DEF ReplayReturns
  <2>2. ~Live(replaying[c])
    BY <2>1 DEF SettledIsOver, Live, Held
  <2>3. \A m : Live(m)' <=> Live(m)
    BY <1>4, PassMovesQuietly DEF PassMoves
  <2>. QED  BY <2>1, <2>2, <2>3 DEF WorkIsReplay
<1>5. CASE FindRunning \/ StartDispatch \/ PassEnds
  BY <1>5 DEF FindRunning, StartDispatch, PassEnds, Enters, WorkIsReplay
<1>6. ASSUME NEW c \in Channels,
             \/ ClearFlag(c) \/ Reconcile(c) \/ LeaveToAutoplay(c) \/ FindFinished(c)
             \/ \E m \in Messages : DropReplay(c, m) \/ SkipReplay(c, m)
      PROVE  WorkIsReplay'
  <2>1. PassMoves
    BY <1>6 DEF PassMoves
  <2>2. UNCHANGED <<pass, replaying>>
    BY <1>6 DEF ClearFlag, Reconcile, LeaveToAutoplay, FindFinished, DropReplay, SkipReplay
  <2>. QED  BY <1>1, <2>1, <2>2, PassMovesQuietly
<1>7. CASE Crash
  BY <1>7, CrashEffect DEF WorkIsReplay
<1>8. ASSUME NEW c \in Channels, Stores(c) PROVE WorkIsReplay'
  <2>1. CASE pass # "replay"
    BY <1>8, <2>1, StoresAre DEF StoreCase, WorkIsReplay
  <2>2. ASSUME NEW m \in Messages, StoreMessage(c, m), replaying[c] = NoMessage, pass = "replay",
               replaying' = [replaying EXCEPT ![c] = last + 1]
        PROVE  WorkIsReplay'
    <3>1. replaying'[c] = last + 1 /\ \A d \in Channels \ {c} : replaying'[d] = replaying[d]
      BY <2>2 DEF IInv, RecoveryTypeOK
    <3>2. \A n \in Messages \ {last + 1} : Live(n)' => Live(n)
      BY <2>2, StoreEffect
    <3>. QED  BY <1>0, <2>2, <3>1, <3>2 DEF WorkIsReplay
  <2>. QED  BY <1>8, <2>1, <2>2, StoresAre DEF StoreCase
<1>. QED  BY <1>2, <1>3, <1>4, <1>5, <1>6, <1>7, <1>8, StepSplit DEF PassMoves

LEMMA ClearIsFreeKept ==
  ASSUME Quiet, IInv, PassState, WorkIsReplay, ClearIsFree, [Next]_vars
  PROVE  ClearIsFree'
<1>0. NoMessage \notin Messages
  BY DEF Messages, NoMessage
<1>1. CASE WorkStep
  BY <1>1, WorkShrinks DEF ClearIsFree, Shrinks
<1>2. CASE ListPending
  BY <1>2 DEF ListPending, Enters, PassState, ClearIsFree
<1>3. CASE StartDispatch
  <2>1. pass = "replay" /\ pass' = "dispatch" /\ \A c \in Channels : replaying[c] = NoMessage
    BY <1>3 DEF StartDispatch, Enters
  <2>2. \A m \in Messages : ~(m \in submitting \/ Held(m))
    BY <1>0, <2>1 DEF WorkIsReplay, Live, Held
  <2>3. PassMoves
    BY <1>3 DEF PassMoves
  <2>. QED  BY <2>1, <2>2, <2>3, PassMovesQuietly DEF ClearIsFree
<1>4. CASE FindRunning \/ PassEnds
  BY <1>4 DEF FindRunning, PassEnds, Enters, ClearIsFree
<1>5. ASSUME NEW c \in Channels, FindFinished(c) PROVE ClearIsFree'
  <2>1. PassMoves
    BY <1>5 DEF PassMoves
  <2>2. pass = "dispatch" /\ pass' = pass /\ c \in todo /\ todo' \subseteq todo /\ toClear' = {c}
    BY <1>5 DEF FindFinished
  <2>. QED  BY <2>1, <2>2, PassMovesQuietly DEF ClearIsFree
<1>6. ASSUME NEW c \in Channels, Reconcile(c) PROVE ClearIsFree'
  BY <1>6 DEF Reconcile, ClearIsFree
<1>7. ASSUME NEW c \in Channels,
             \/ ClearFlag(c) \/ ReplayReturns(c) \/ LeaveToAutoplay(c)
             \/ \E m \in Messages : DropReplay(c, m) \/ SkipReplay(c, m)
      PROVE  ClearIsFree'
  <2>1. PassMoves
    BY <1>7 DEF PassMoves
  <2>2. /\ pass' = pass /\ toClear' \subseteq toClear /\ todo' \subseteq todo /\ backlog' \subseteq backlog
        /\ \A d \in Channels : replaying'[d] \in {replaying[d], NoMessage}
    BY <1>7 DEF ClearFlag, ReplayReturns, LeaveToAutoplay, DropReplay, SkipReplay, NextReplay, IInv, RecoveryTypeOK
  <2>. QED  BY <2>1, <2>2, PassMovesQuietly DEF ClearIsFree
<1>8. CASE Crash
  BY <1>8, CrashEffect DEF ClearIsFree
<1>9. ASSUME NEW c \in Channels, Stores(c) PROVE ClearIsFree'
  <2>1. /\ channelOf'[last + 1] = c
        /\ \A m \in Messages \ {last + 1} :
             /\ channelOf'[m] = channelOf[m]
             /\ m \in submitting' \/ Held(m)' => m \in submitting \/ Held(m)
    BY <1>9, StoresAre, StoreEffect
  <2>2. CASE pass # "dispatch"
    BY <1>9, <2>2, StoresAre DEF StoreCase, ClearIsFree
  <2>3. CASE pass = "dispatch" /\ pass' = pass /\ toClear' = {} /\ todo' = todo \ {c}
    BY <2>1, <2>3 DEF ClearIsFree
  <2>. QED  BY <1>9, <2>2, <2>3, StoresAre DEF StoreCase
<1>. QED  BY <1>1, <1>2, <1>3, <1>4, <1>5, <1>6, <1>7, <1>8, <1>9, StepSplit DEF PassMoves

(* The pass clears no flag under a turn. *)
LEMMA ClearsNoTurn ==
  ASSUME IInv, PassState, WorkIsReplay, ClearIsFree, NEW c \in Channels, c \in toClear
  PROVE  turn[c] = {}
<1>. SUFFICES ASSUME NEW m \in turn[c] PROVE FALSE
  OBVIOUS
<1>1. m \in Messages /\ Held(m) /\ Live(m) /\ channelOf[m] = c
  BY DEF IInv, RecoveryTypeOK, HeldIsHome, Held, Live
<1>2. NoMessage \notin Messages
  BY DEF Messages, NoMessage
<1>3. pass \in Stages /\ pass # "off"
  BY DEF PassState, IInv, RecoveryTypeOK
<1>4. pass \notin {"due", "reconcile"}
  BY DEF IInv, PassBeginsAlone
<1>5. pass # "replay"
  BY <1>1, <1>2 DEF WorkIsReplay, ClearIsFree
<1>6. pass # "dispatch"
  BY <1>1 DEF ClearIsFree
<1>. QED  BY <1>3, <1>4, <1>5, <1>6 DEF Stages

LEMMA FlagStandsKept ==
  ASSUME Quiet, IInv, PassState, WorkIsReplay, ClearIsFree, FlagStands, [Next]_vars
  PROVE  FlagStands'
<1>0. flagWrite \in [Channels -> {"none", "set", "clear"}] /\ turn \in [Channels -> SUBSET Messages]
  BY DEF IInv, RecoveryTypeOK
<1>1. ASSUME UNCHANGED <<turn, flagWrite, runningFlag>> PROVE FlagStands'
  BY <1>1 DEF FlagStands
<1>2. ASSUME NEW m \in Messages, Submit(m) PROVE FlagStands'
  <2>1. channelOf[m] \in Channels /\ runningFlag' = runningFlag
    BY <1>2 DEF Submit, IInv, SubmittingIsPending
  <2>2. CASE UNCHANGED <<turn, flagWrite>>
    BY <1>1, <2>1, <2>2
  <2>3. CASE Worker!AcceptAndStart(channelOf[m], m) /\ FlagTurn(channelOf[m])
    BY <1>0, <2>1, <2>3 DEF Worker!AcceptAndStart, Worker!Begin, FlagTurn, FlagStands
  <2>. QED  BY <1>2, <2>2, <2>3 DEF Submit, Worker!Accept
<1>3. ASSUME NEW c \in Channels, TurnEnds(c) PROVE FlagStands'
  <2>1. turn'[c] = waiting[c] /\ (\A d \in Channels \ {c} : turn'[d] = turn[d]) /\ runningFlag' = runningFlag
    BY <1>0, <1>3 DEF TurnEnds, Worker!Finish, Worker!Begin
  <2>2. CASE waiting[c] # {} /\ FlagTurn(c)
    BY <1>0, <2>1, <2>2 DEF FlagTurn, FlagStands
  <2>3. CASE waiting[c] = {} /\ flagWrite' = flagWrite
    BY <2>1, <2>3 DEF FlagStands
  <2>. QED  BY <1>3, <2>2, <2>3 DEF TurnEnds, flagVars
<1>4. ASSUME NEW c \in Channels, StopPurges(c) PROVE FlagStands'
  BY <1>1, <1>4 DEF StopPurges, Worker!Drop, flagVars
<1>5. ASSUME NEW c \in Channels, DebounceFires(c) PROVE FlagStands'
  BY <1>0, <1>5 DEF DebounceFires, queueVars, FlagStands
<1>6. ASSUME NEW c \in Channels, FlagApplied(c) PROVE FlagStands'
  BY <1>0, <1>6 DEF FlagApplied, queueVars, FlagStands
<1>7. ASSUME NEW m \in Messages, StoreParts(m) \/ \E state \in {"running", "done"} : MarkApplied(m, state)
      PROVE  FlagStands'
  BY <1>1, <1>7 DEF StoreParts, MarkApplied, queueVars, flagVars
<1>8. ASSUME NEW c \in Channels, ClearFlag(c) PROVE FlagStands'
  <2>1. turn[c] = {} /\ UNCHANGED <<turn, flagWrite>> /\ runningFlag' = runningFlag \ {c}
    BY <1>8, ClearsNoTurn DEF ClearFlag, queueVars
  <2>. QED  BY <2>1 DEF FlagStands
<1>9. CASE PassMoves /\ ~(\E c \in Channels : ClearFlag(c))
  <2>1. runningFlag' = runningFlag
    BY <1>9 DEF PassMoves, FindRunning, ListPending, StartDispatch, PassEnds, Reconcile, ReplayReturns,
       LeaveToAutoplay, FindFinished, DropReplay, SkipReplay, flagVars
  <2>. QED  BY <1>1, <1>9, <2>1, PassMovesQuietly
<1>10. CASE Crash
  BY <1>10, CrashEffect DEF FlagStands
<1>11. ASSUME NEW c \in Channels, Stores(c) PROVE FlagStands'
  BY <1>1, <1>11, StoresAre, StoreEffect
<1>12. CASE UNCHANGED vars
  BY <1>1, <1>12 DEF vars, queueVars, flagVars
<1>. QED
  BY <1>2, <1>3, <1>4, <1>5, <1>6, <1>7, <1>8, <1>9, <1>10, <1>11, <1>12, StepSplit DEF WorkStep

LEMMA BacklogHasTurnKept ==
  ASSUME Quiet, IInv, BacklogHasTurn, [Next]_vars
  PROVE  BacklogHasTurn'
<1>1. ASSUME UNCHANGED <<waiting, turn>> PROVE BacklogHasTurn'
  BY <1>1 DEF BacklogHasTurn
<1>2. ASSUME NEW m \in Messages, Submit(m) PROVE BacklogHasTurn'
  <2>. DEFINE c == channelOf[m]
  <2>1. c \in Channels
    BY <1>2 DEF Submit, IInv, SubmittingIsPending
  <2>. HIDE DEF c
  <2>2. CASE turn[c] # {} /\ Worker!Accept(c, m)
    BY <2>1, <2>2 DEF Worker!Accept, BacklogHasTurn, IInv, RecoveryTypeOK
  <2>3. CASE Worker!AcceptAndStart(c, m)
    BY <2>1, <2>3 DEF Worker!AcceptAndStart, Worker!Begin, BacklogHasTurn, IInv, RecoveryTypeOK
  <2>. QED  BY <1>2, <2>2, <2>3 DEF Submit, c
<1>3. ASSUME NEW c \in Channels, TurnEnds(c) \/ StopPurges(c) PROVE BacklogHasTurn'
  BY <1>3 DEF TurnEnds, Worker!Finish, Worker!Begin, StopPurges, Worker!Drop, BacklogHasTurn, IInv, RecoveryTypeOK
<1>4. CASE WorkStep
  BY <1>1, <1>2, <1>3, <1>4 DEF WorkStep, StoreParts, MarkApplied, DebounceFires, FlagApplied, vars, queueVars
<1>5. CASE PassMoves
  BY <1>1, <1>5, PassMovesQuietly
<1>6. CASE Crash
  BY <1>6 DEF Crash, BacklogHasTurn
<1>7. ASSUME NEW c \in Channels, Stores(c) PROVE BacklogHasTurn'
  BY <1>1, <1>7, StoresAre, StoreEffect
<1>. QED  BY <1>4, <1>5, <1>6, <1>7, StepSplit

LEMMA PInvariance == ASSUME Quiet PROVE Spec => []PInv
<1>1. Init => PInv
  BY DEF Init, Worker!Init, PInv, PassState, SettledIsOver, ReplayIsNext, WorkIsReplay, ClearIsFree, FlagStands,
     BacklogHasTurn
<1>2. IInv /\ PInv /\ [Next]_vars => PInv'
  <2>. SUFFICES ASSUME IInv, PInv, [Next]_vars PROVE PInv'
    OBVIOUS
  <2>. USE DEF PInv
  <2>1. PassState' /\ SettledIsOver' /\ ReplayIsNext'
    BY PassStateKept, SettledIsOverKept, ReplayIsNextKept
  <2>2. WorkIsReplay' /\ ClearIsFree' /\ FlagStands' /\ BacklogHasTurn'
    BY WorkIsReplayKept, ClearIsFreeKept, FlagStandsKept, BacklogHasTurnKept
  <2>. QED  BY <2>1, <2>2
<1>. QED  BY <1>1, <1>2, Invariance, PTL DEF Spec

(* While users wait for the boot pass, whatever a crash takes out of a worker  *)
(* is what the next pass finds: neither an early mark, nor a mark under way,   *)
(* nor the pass itself can have closed it, and neither a debounce nor a clear  *)
(* of the pass can have had the last word on its channel's flag.               *)
THEOREM CrashLosesNoPrompt == ASSUME Quiet PROVE Spec => []HeldIsFound
<1>1. IInv /\ PInv => HeldIsFound
  <2>. SUFFICES ASSUME IInv, PInv, NEW c \in Channels, NEW m \in waiting[c] \cup turn[c]
                PROVE  /\ queueState[m] \in Open
                       /\ flagWrite[c] = "set" \/ (flagWrite[c] = "none" /\ c \in runningFlag)
    BY DEF HeldIsFound
  <2>1. queueState[m] \in Open
    BY DEF IInv, HeldIsHome
  <2>2. turn[c] # {}
    BY DEF PInv, BacklogHasTurn
  <2>. QED  BY <2>1, <2>2 DEF PInv, FlagStands
<1>. QED  BY <1>1, Invariance, PInvariance, PTL

(* Replays of a channel run one at a time and in the order of the originals.   *)
THEOREM ReplaysAreOrdered == ASSUME Quiet PROVE Spec => []ReplaysInOrder
<1>1. IInv /\ PInv => ReplaysInOrder
  <2>. SUFFICES ASSUME IInv, PInv, NEW c \in Channels, NEW copy \in Of(c),
                       pass = "replay", Live(copy), copyOf[copy] # NoMessage
                PROVE  replaying[c] = copy /\ \A m \in backlog \cap Of(c) : copyOf[copy] < m
    BY DEF ReplaysInOrder
  <2>1. copy \in Messages /\ channelOf[copy] = c /\ NoMessage \notin Messages
    BY DEF Of, Messages, NoMessage
  <2>2. PICK d \in Channels : replaying[d] = copy
    BY <2>1 DEF PInv, WorkIsReplay
  <2>3. d = c
    BY <2>1, <2>2 DEF PInv, ReplayIsNext
  <2>4. \A m \in backlog : channelOf[m] = c => copyOf[copy] < m
    BY <2>1, <2>2, <2>3 DEF PInv, ReplayIsNext
  <2>. QED  BY <2>2, <2>3, <2>4 DEF Of
<1>. QED  BY <1>1, Invariance, PInvariance, PTL

-----------------------------------------------------------------------------
(* Why no open message is passed over: it is listed, then replayed, and its    *)
(* copy settles; and a message is done before it ceases to be live.            *)
BeingReplayed(m) == \E c \in Channels : replaying[c] # NoMessage /\ copyOf[replaying[c]] = m

OpenIsSeen ==
  pass \in {"replay", "dispatch"} =>
    \A m \in Messages :
      channelOf[m] \in recoverable /\ queueState[m] \in Open =>
        m \in settled \/ m \in backlog \/ Live(m) \/ Redriven(m) \/ BeingReplayed(m)

Unskipped == "noAgent" \notin Hazards

(* Work closes what it lets go of, and reopens only what it holds or has *)
(* answered.                                                             *)
Closes(x) ==
  queueState'[x] \in Open =>
    /\ Live(x) => Live(x)'
    /\ queueState[x] \in Open \/ Live(x)' \/ x \in settled'

LEMMA WorkCloses ==
  ASSUME IInv, WorkStep, NEW x \in Messages
  PROVE  Closes(x) /\ settled \subseteq settled'
<1>. USE DEF storeVars, queueVars, flagVars, passVars
<1>1. ASSUME UNCHANGED <<queueState, submitting, waiting, turn, marks>> PROVE Closes(x)
  BY <1>1 DEF Closes, Live
<1>2. CASE UNCHANGED vars
  BY <1>1, <1>2 DEF vars
<1>3. ASSUME NEW m \in Messages, StoreParts(m) PROVE Closes(x)
  BY <1>1, <1>3 DEF StoreParts
<1>4. ASSUME NEW c \in Channels, DebounceFires(c) \/ FlagApplied(c) PROVE Closes(x)
  BY <1>1, <1>4 DEF DebounceFires, FlagApplied
<1>5. ASSUME NEW m \in Messages, NEW state \in {"running", "done"}, MarkApplied(m, state) PROVE Closes(x)
  <2>1. /\ <<m, state>> \in marks /\ marks' = marks \ {<<m, state>>}
        /\ UNCHANGED <<submitting, waiting, turn, settled>>
        /\ queueState'[m] = state /\ \A y \in Messages \ {m} : queueState'[y] = queueState[y]
    BY <1>5 DEF MarkApplied, IInv, RecoveryTypeOK
  <2>2. CASE x # m
    BY <2>1, <2>2 DEF Closes, Live
  <2>3. CASE x = m /\ state = "done"
    BY <2>1, <2>3 DEF Closes, Open
  <2>4. CASE x = m /\ state = "running"
    <3>1. Held(m) \/ m \in settled
      BY <2>1, <2>4 DEF IInv, RunningMarkIsKnown
    <3>. QED  BY <2>1, <2>4, <3>1 DEF Closes, Live, Held
  <2>. QED  BY <2>2, <2>3, <2>4
<1>6. ASSUME NEW m \in Messages, Submit(m) PROVE Closes(x)
  <2>. DEFINE c == channelOf[m]
  <2>1. m \in submitting /\ submitting' = submitting \ {m} /\ marks \subseteq marks' /\ queueState' = queueState
    BY <1>6 DEF Submit
  <2>2. c \in Channels
    BY <2>1 DEF IInv, SubmittingIsPending
  <2>. HIDE DEF c
  <2>3. /\ m \in waiting'[c] \cup turn'[c]
        /\ \A d \in Channels : waiting[d] \cup turn[d] \subseteq waiting'[d] \cup turn'[d]
    <3>1. CASE Worker!Accept(c, m)
      BY <2>2, <3>1 DEF Worker!Accept, IInv, RecoveryTypeOK
    <3>2. CASE Worker!AcceptAndStart(c, m)
      BY <2>2, <3>2 DEF Worker!AcceptAndStart, Worker!Begin, IInv, RecoveryTypeOK
    <3>. QED  BY <1>6, <3>1, <3>2 DEF Submit, c
  <2>. QED  BY <2>1, <2>2, <2>3 DEF Closes, Live
<1>7. ASSUME NEW c \in Channels, TurnEnds(c) PROVE Closes(x)
  <2>1. /\ turn'[c] = waiting[c] /\ UNCHANGED <<submitting, queueState>>
        /\ \A d \in Channels \ {c} : waiting'[d] = waiting[d] /\ turn'[d] = turn[d]
    BY <1>7 DEF TurnEnds, Worker!Finish, Worker!Begin, IInv, RecoveryTypeOK
  <2>2. \A y : <<y, "done">> \in marks \/ y \in turn[c] => <<y, "done">> \in marks'
    BY <1>7 DEF TurnEnds
  <2>. QED  BY <2>1, <2>2 DEF Closes, Live
<1>8. ASSUME NEW c \in Channels, StopPurges(c) PROVE Closes(x)
  <2>1. /\ UNCHANGED <<submitting, queueState, turn>>
        /\ \A d \in Channels \ {c} : waiting'[d] = waiting[d]
    BY <1>8 DEF StopPurges, Worker!Drop, IInv, RecoveryTypeOK
  <2>2. \A y : <<y, "done">> \in marks \/ y \in waiting[c] => <<y, "done">> \in marks'
    BY <1>8 DEF StopPurges
  <2>. QED  BY <2>1, <2>2 DEF Closes, Live
<1>9. settled \subseteq settled'
  BY DEF WorkStep, StopPurges, Worker!Drop, StoreParts, Submit, Worker!Accept, Worker!AcceptAndStart, Worker!Begin, MarkApplied,
     TurnEnds, Worker!Finish, Worker!Begin, DebounceFires, FlagApplied, vars
<1>. QED  BY <1>2, <1>3, <1>4, <1>5, <1>6, <1>7, <1>8, <1>9 DEF WorkStep

LEMMA OpenIsSeenKept ==
  ASSUME Quiet, Unskipped, IInv, PInv, OpenIsSeen, [Next]_vars
  PROVE  OpenIsSeen'
<1>. USE DEF Unskipped
<1>0. /\ \A c \in Channels : replaying[c] \in Messages \cup {NoMessage}
      /\ last \in Nat /\ settled \subseteq Messages /\ \A m \in Messages : m \in Nat
  BY DEF IInv, RecoveryTypeOK, Messages
<1>1. CASE WorkStep
  <2>1. UNCHANGED <<channelOf, copyOf, pass, recoverable, backlog, replaying>>
    BY <1>1, WorkShrinks
  <2>2. ASSUME NEW m \in Messages, queueState'[m] \in Open,
               queueState[m] \in Open =>
                 m \in settled \/ m \in backlog \/ Live(m) \/ Redriven(m) \/ BeingReplayed(m)
        PROVE  m \in settled' \/ m \in backlog' \/ Live(m)' \/ Redriven(m)' \/ BeingReplayed(m)'
    <3>1. /\ Live(m) => Live(m)'
          /\ queueState[m] \in Open \/ Live(m)' \/ m \in settled'
          /\ settled \subseteq settled'
      BY <1>1, <2>2, WorkCloses DEF Closes
    <3>2. Redriven(m) => Redriven(m)'
      BY <2>1, <3>1 DEF Redriven
    <3>3. BeingReplayed(m) => BeingReplayed(m)'
      BY <2>1 DEF BeingReplayed
    <3>. QED  BY <2>1, <2>2, <3>1, <3>2, <3>3
  <2>. QED  BY <2>1, <2>2 DEF OpenIsSeen
<1>2. CASE ListPending
  <2>1. /\ backlog' = {m \in Messages : channelOf[m] \in recoverable /\ queueState[m] \in Open}
        /\ UNCHANGED <<channelOf, queueState, recoverable>>
    BY <1>2 DEF ListPending, storeVars
  <2>. QED  BY <2>1 DEF OpenIsSeen
<1>3. ASSUME PassMoves, pass' \in {"replay", "dispatch"} => pass \in {"replay", "dispatch"},
             UNCHANGED <<recoverable, replaying>>,
             \A m \in Messages : queueState'[m] \in Open =>
               queueState[m] \in Open /\ (m \in backlog => m \in backlog')
      PROVE  OpenIsSeen'
  <2>1. /\ UNCHANGED <<channelOf, copyOf, settled>>
        /\ \A m : Live(m)' <=> Live(m)
    BY <1>3, PassMovesQuietly
  <2>. QED  BY <1>3, <2>1 DEF OpenIsSeen, Redriven, BeingReplayed
<1>4. ASSUME NEW c \in Channels, ClearFlag(c) \/ LeaveToAutoplay(c) \/ FindFinished(c) PROVE OpenIsSeen'
  <2>1. PassMoves
    BY <1>4 DEF PassMoves
  <2>. QED  BY <1>3, <1>4, <2>1 DEF ClearFlag, LeaveToAutoplay, FindFinished, storeVars
<1>5. CASE StartDispatch
  <2>1. PassMoves
    BY <1>5 DEF PassMoves
  <2>. QED  BY <1>3, <1>5, <2>1 DEF StartDispatch, Enters, storeVars
<1>6. ASSUME NEW c \in Channels, Reconcile(c) PROVE OpenIsSeen'
  BY <1>6 DEF Reconcile, OpenIsSeen
<1>7. CASE FindRunning \/ PassEnds
  BY <1>7 DEF FindRunning, PassEnds, Enters, OpenIsSeen
<1>8. ASSUME NEW c \in Channels, NEW m \in Messages, DropReplay(c, m) PROVE OpenIsSeen'
  <2>1. PassMoves
    BY <1>8 DEF PassMoves
  <2>2. /\ queueState'[m] = "done" /\ \A n \in Messages \ {m} : queueState'[n] = queueState[n]
        /\ backlog' = backlog \ {m} /\ UNCHANGED <<pass, recoverable, replaying>>
    BY <1>8 DEF DropReplay, NextReplay, IInv, RecoveryTypeOK
  <2>. QED  BY <1>3, <2>1, <2>2 DEF Open
<1>9. \A c \in Channels, m \in Messages : ~SkipReplay(c, m)
  BY DEF SkipReplay
<1>10. ASSUME NEW c \in Channels, ReplayReturns(c) PROVE OpenIsSeen'
  <2>1. /\ replaying[c] \in settled /\ \A d \in Channels \ {c} : replaying'[d] = replaying[d]
        /\ UNCHANGED <<channelOf, copyOf, queueState, settled, pass, recoverable, backlog>>
    BY <1>10 DEF ReplayReturns, storeVars, queueVars
  <2>2. PassMoves
    BY <1>10 DEF PassMoves
  <2>3. ASSUME NEW m \in Messages, BeingReplayed(m) PROVE Redriven(m)' \/ BeingReplayed(m)'
    BY <2>1, <2>3 DEF BeingReplayed, Redriven
  <2>4. \A m : (Live(m)' <=> Live(m)) /\ (Redriven(m)' <=> Redriven(m))
    BY <2>1, <2>2, PassMovesQuietly DEF Redriven
  <2>. QED  BY <2>1, <2>3, <2>4 DEF OpenIsSeen
<1>11. CASE Crash
  BY <1>11, CrashEffect DEF OpenIsSeen
<1>12. ASSUME NEW c \in Channels, Stores(c) PROVE OpenIsSeen'
  <2>1. /\ last + 1 \in Messages /\ settled' = settled /\ last + 1 \in submitting'
        /\ \A m \in Messages \ {last + 1} :
             channelOf'[m] = channelOf[m] /\ copyOf'[m] = copyOf[m] /\ queueState'[m] = queueState[m]
        /\ \A m : Live(m) => Live(m)'
    BY <1>12, StoresAre, StoreEffect
  <2>2. \A m \in settled : m # last + 1
    <3>1. \A m \in settled : m <= last /\ m \in Nat
      BY <1>0 DEF PInv, SettledIsOver
    <3>. QED  BY ONLY <1>0, <3>1
  <2>3. \A m : Redriven(m) => Redriven(m)'
    BY <1>0, <2>1, <2>2 DEF Redriven
  <2>4. \A d \in Channels : replaying[d] # NoMessage => replaying[d] \in Messages \ {last + 1}
    <3>1. \A d \in Channels : replaying[d] # NoMessage => replaying[d] \in Nat /\ replaying[d] <= last
      BY <1>0 DEF PInv, ReplayIsNext
    <3>2. \A d \in Channels : replaying[d] # NoMessage => replaying[d] # last + 1
      BY ONLY <1>0, <3>1
    <3>. QED  BY <1>0, <3>2
  <2>5. \A m : m = last + 1 => Live(m)'
    BY <2>1 DEF Live
  <2>6. recoverable' = recoverable /\ pass' = pass
    BY <1>12, StoresAre DEF StoreCase
  <2>7. CASE UNCHANGED <<backlog, replaying>>
    <3>1. \A m : BeingReplayed(m) => BeingReplayed(m)'
      BY <2>1, <2>4, <2>7 DEF BeingReplayed
    <3>. QED  BY <2>1, <2>3, <2>5, <2>6, <2>7, <3>1 DEF OpenIsSeen
  <2>8. ASSUME NEW m \in Messages, StoreMessage(c, m), replaying[c] = NoMessage,
               backlog' = backlog \ {m}, replaying' = [replaying EXCEPT ![c] = last + 1]
        PROVE  OpenIsSeen'
    <3>1. copyOf'[last + 1] = m /\ replaying'[c] = last + 1 /\ last + 1 # NoMessage
          /\ \A d \in Channels \ {c} : replaying'[d] = replaying[d]
      BY <1>0, <2>8, StoreEffect DEF NoMessage, IInv, RecoveryTypeOK
    <3>2. BeingReplayed(m)'
      BY <3>1 DEF BeingReplayed
    <3>3. \A n : BeingReplayed(n) => BeingReplayed(n)'
      BY <2>1, <2>4, <2>8, <3>1 DEF BeingReplayed
    <3>. QED  BY <2>1, <2>3, <2>5, <2>6, <2>8, <3>2, <3>3 DEF OpenIsSeen
  <2>. QED  BY <1>12, <2>7, <2>8, StoresAre DEF StoreCase
<1>. QED
  BY <1>1, <1>2, <1>4, <1>5, <1>6, <1>7, <1>8, <1>9, <1>10, <1>11, <1>12, StepSplit DEF PassMoves

(* When the pass goes on to wake agents, every prompt of the channels it       *)
(* recovered that is still open and was never answered has been replayed to    *)
(* its end, or belongs to this process.                                        *)
THEOREM NobodyForgotten == ASSUME Quiet, Unskipped PROVE Spec => []NoneForgotten
<1>1. Init => OpenIsSeen
  BY DEF Init, OpenIsSeen
<1>2. IInv /\ PInv /\ OpenIsSeen /\ [Next]_vars => OpenIsSeen'
  BY OpenIsSeenKept
<1>3. PInv /\ OpenIsSeen => NoneForgotten
  BY DEF PInv, PassState, OpenIsSeen, BeingReplayed, NoneForgotten
<1>. QED  BY <1>1, <1>2, <1>3, Invariance, PInvariance, PTL DEF Spec
=============================================================================
