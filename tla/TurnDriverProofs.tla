-------------------------- MODULE TurnDriverProofs --------------------------
(***************************************************************************)
(* What the turns of a session keep for any number of turns, calls and     *)
(* steps: types and closed prompts whatever goes wrong, the step limit     *)
(* while no turn outlives its deadline, and the transcript of the tools    *)
(* at work while turns only meet stops and progress notes.                 *)
(***************************************************************************)
EXTENDS TurnDriver, FiniteSetTheorems, WellFoundedInduction, TLAPS

(* A set of calls has a first one: its prefixes are well founded by inclusion. *)
LEMMA FirstIn ==
  ASSUME NEW s \in SUBSET Calls, s # {}
  PROVE  First(s) \in s /\ \A d \in s : First(s) <= d
<1> DEFINE UpTo(c) == {d \in s : d <= c}
           Prefixes == {UpTo(c) : c \in s}
<1>1. IsFiniteSet(Calls) /\ Calls \subseteq Nat
  BY FS_Interval, TurnAssumption DEF Calls
<1>2. IsWellFoundedOn(StrictSubsetOrdering(Calls), SUBSET Calls)
  BY <1>1, FS_StrictSubsetOrderingWellFounded, FS_FiniteSubsetsOfFinite
<1>3. Prefixes \subseteq SUBSET Calls /\ Prefixes # {}
  OBVIOUS
<1>4. PICK x \in Prefixes : \A y \in Prefixes : <<y, x>> \notin StrictSubsetOrdering(Calls)
  <2> HIDE DEF Prefixes
  <2> QED BY <1>2, <1>3, WFMin
<1>5. PICK c \in s : x = UpTo(c)
  OBVIOUS
<1>6. \A d \in s : c <= d
  <2> SUFFICES ASSUME NEW d \in s, ~(c <= d) PROVE FALSE
    OBVIOUS
  <2>1. d \in Nat /\ c \in Nat /\ d < c
    BY <1>1
  <2>2. UpTo(d) \subseteq UpTo(c)
    <3>1. \A e \in s : e \in Nat
      BY <1>1
    <3>2. \A e \in s : e <= d => e <= c
      BY <2>1, <3>1
    <3> QED BY <3>2
  <2>3. c \in UpTo(c) /\ c \notin UpTo(d)
    BY <2>1
  <2>4. <<UpTo(d), x>> \in StrictSubsetOrdering(Calls)
    BY <1>5, <2>2, <2>3 DEF StrictSubsetOrdering
  <2> QED BY <1>4, <2>4
<1> QED BY <1>6 DEF First

-----------------------------------------------------------------------------
LEMMA TypeInit == Init => TurnTypeOK
<1> SUFFICES ASSUME Init PROVE TurnTypeOK
  OBVIOUS
<1>1. part \in [Calls -> {"absent", "running", "completed", "error"}]
  BY DEF Init
<1>2. turn \in 0 .. MaxTurns
  BY TurnAssumption DEF Init
<1> QED BY <1>1, <1>2 DEF Init, TurnTypeOK, Phases

LEMMA TakenUpIn ==
  ASSUME TurnTypeOK, NEW t \in Turns
  PROVE  TakenUp(t) \subseteq todo[t] /\ Refused(t) \subseteq TakenUp(t)
<1>1. todo[t] \in SUBSET Calls
  BY DEF TurnTypeOK
<1>2. TakenUp(t) \subseteq todo[t]
  BY <1>1, FirstIn DEF TakenUp
<1> QED BY <1>2 DEF Refused, Cancelled, Blocked

LEMMA TypeStep == TurnTypeOK /\ [Next]_vars => TurnTypeOK'
<1> SUFFICES ASSUME TurnTypeOK, [Next]_vars PROVE TurnTypeOK'
  OBVIOUS
<1> USE TurnAssumption DEF TurnTypeOK
<1>o. OpenCalls \in SUBSET Calls
  BY DEF OpenCalls
<1>1. CASE StartTurn
  <2>1. turn' \in 0 .. MaxTurns
    BY <1>1 DEF StartTurn
  <2>2. phase' \in [Turns -> Phases]
    BY <1>1 DEF StartTurn, Phases
  <2> QED BY <1>1, <2>1, <2>2 DEF StartTurn, transcript, signals, toolVars, views
<1>2. CASE Reconcile
  BY <1>2, <1>o DEF Reconcile, transcript, loopVars, signals, toolVars, flags, Readers
<1>3. ASSUME NEW r \in Readers, Synthesize(r) PROVE TurnTypeOK'
  BY <1>3 DEF Synthesize, WriteParts, transcript, loopVars, signals, toolVars, flags
<1>4. ASSUME NEW t \in Turns, TurnStep(t) PROVE TurnTypeOK'
  <2>1. CASE BeginStep(t)
    BY <2>1, <1>o DEF BeginStep, Load, Loaded, transcript, signals, toolVars, Phases, Readers
  <2>2. CASE SynthesisFails(t)
    BY <2>2 DEF SynthesisFails, EndTurn, transcript, toolVars, Phases, Readers
  <2>3. CASE Reload(t)
    BY <2>3, <1>o DEF Reload, Loaded, transcript, signals, toolVars, flags, Phases
  <2>4. CASE CallModel(t)
    BY <2>4 DEF CallModel, transcript, signals, views, flags, Phases
  <2>5. CASE PromptTooLong(t)
    BY <2>5, <1>o DEF PromptTooLong, Load, Loaded, transcript, signals, toolVars, views, flags, Phases, Readers
  <2>6. CASE ToolCallsAsked(t)
    BY <2>6 DEF ToolCallsAsked, transcript, signals, views, flags, Phases
  <2>7. CASE Complete(t)
    <3>1. phase' \in [Turns -> Phases] /\ step' \in [Turns -> Nat]
      BY <2>7 DEF Complete, EndTurn, Phases
    <3> QED BY <2>7, <3>1 DEF Complete, EndTurn, transcript, toolVars, views
  <2>8. CASE ContinueTurn(t)
    BY <2>8 DEF ContinueTurn, transcript, signals, toolVars, views, Phases
  <2>9. CASE YieldToQueue(t)
    BY <2>9 DEF YieldToQueue, EndTurn, transcript, toolVars, views, Phases
  <2>10. CASE TurnThrows(t)
    BY <2>10 DEF TurnThrows, EndTurn, transcript, toolVars, views, Phases
  <2>11. CASE Stop(t)
    BY <2>11 DEF Stop, transcript, loopVars, toolVars, views, flags
  <2>12. CASE Deadline(t)
    BY <2>12 DEF Deadline, transcript, loopVars, toolVars, views, flags
  <2>13. ASSUME NEW note \in BOOLEAN, HandleToolCall(t, note) PROVE TurnTypeOK'
    <3> DEFINE call == First(incoming[t])
    <3>1. call \in Calls
      BY <2>13, FirstIn DEF HandleToolCall
    <3>2. /\ incoming' = [incoming EXCEPT ![t] = @ \ {call}]
          /\ part' = [c \in Calls |-> IF c \in {call} THEN "running" ELSE part[c]]
          /\ notes' \in {notes, notes \cup {call}}
          /\ toolCalls' = [toolCalls EXCEPT ![t] = @ \cup {call}]
          /\ late' = [s \in Turns |-> IF s = t THEN late[s] ELSE late[s] \cup {call}]
          /\ UNCHANGED <<todo, executing, orphans, seen, loopVars, signals, flags>>
      BY <2>13 DEF HandleToolCall, WriteParts
    <3> HIDE DEF call
    <3> QED BY <3>1, <3>2 DEF loopVars, signals, flags
  <2>14. CASE ExecuteTools(t)
    BY <2>14, TakenUpIn DEF ExecuteTools, TakeUp, WriteParts, loopVars, signals, views, flags
  <2>15. CASE RefusalThrows(t)
    BY <2>15, TakenUpIn DEF RefusalThrows, TakeUp, EndTurn, transcript, views, Phases
  <2>16. ASSUME NEW c \in Calls, ResultLost(t, c) PROVE TurnTypeOK'
    BY <2>16 DEF ResultLost, transcript, loopVars, signals, views, flags
  <2>17. ASSUME NEW c \in Calls, NEW result \in {"completed", "error"},
               ToolReturns(t, c, result)
        PROVE TurnTypeOK'
    BY <2>17 DEF ToolReturns, WriteParts, loopVars, signals, views
  <2>18. CASE ModelAsks(t)
    <3> DEFINE new == {c \in Calls : part[c] = "absent" /\ \A s \in Turns : c \notin incoming[s]}
    <3>1. First(new) \in Calls
      BY <2>18, FirstIn DEF ModelAsks
    <3>2. /\ incoming' = [incoming EXCEPT ![t] = @ \cup {First(new)}]
          /\ UNCHANGED <<toolCalls, todo, executing, transcript, loopVars, signals, views, flags>>
      BY <2>18 DEF ModelAsks
    <3> HIDE DEF new
    <3> QED BY <3>1, <3>2 DEF transcript, loopVars, signals, views, flags
  <2>19. ASSUME NEW c \in Calls, ResultThrows(t, c) PROVE TurnTypeOK'
    BY <2>19 DEF ResultThrows, EndTurn, transcript, views, Phases
  <2> QED BY <1>4, <2>1, <2>2, <2>3, <2>4, <2>5, <2>6, <2>7, <2>8, <2>9, <2>10, <2>11, <2>12, <2>13, <2>14, <2>15, <2>16, <2>17, <2>18, <2>19 DEF TurnStep
<1>5. CASE UNCHANGED vars
  BY <1>5 DEF vars, transcript, loopVars, signals, toolVars, views, flags
<1> QED BY <1>1, <1>2, <1>3, <1>4, <1>5 DEF Next

(* Every reachable state of the session's turns is well typed. *)
THEOREM TypeCorrect == Spec => []TurnTypeOK
BY TypeInit, TypeStep, PTL DEF Spec

-----------------------------------------------------------------------------
(* Turns begin one after the other, each when the one before has returned. *)
BegunInOrder ==
  \A t \in Turns :
    /\ phase[t] = "none" <=> t > turn
    /\ t < turn => t \in returned

(* A turn that has returned and goes on does so with an aborted signal. *)
SettledOnce ==
  \A t \in Turns :
    /\ t \in returned => t <= turn
    /\ phase[t] = "ended" => t \in returned
    /\ t \in returned /\ Active(t) => t \in aborted

(* A turn closes all that is open before it calls the model, but for what     *)
(* others recorded since it loaded the transcript: it records none meanwhile. *)
OpenIsOrphan ==
  \A t \in Turns :
    /\ phase[t] = "synthesize" => OpenCalls \subseteq orphans[t] \cup late[t]
    /\ phase[t] \in {"call", "stream"} => seen[t] \subseteq late[t]
    /\ phase[t] \notin {"stream", "ended"} => incoming[t] = {}

IInv == TurnTypeOK /\ BegunInOrder /\ SettledOnce /\ OpenIsOrphan

(* A step of a turn touches the loop and the views of that turn only. *)
LEMMA TurnFrame ==
  ASSUME TurnTypeOK, NEW t \in Turns, TurnStep(t)
  PROVE  /\ turn' = turn
         /\ \A s \in Turns \ {t} :
              /\ phase'[s] = phase[s] /\ seen'[s] = seen[s] /\ orphans'[s] = orphans[s]
              /\ late[s] \subseteq late'[s] /\ incoming'[s] = incoming[s]
              /\ s \in returned' <=> s \in returned
              /\ s \in aborted' <=> s \in aborted
<1> USE DEF TurnTypeOK, Readers
<1>1. CASE BeginStep(t)
  BY <1>1 DEF BeginStep, Load, transcript, signals, toolVars
<1>2. CASE SynthesisFails(t)
  BY <1>2 DEF SynthesisFails, EndTurn, transcript, toolVars
<1>3. CASE Reload(t)
  BY <1>3 DEF Reload, transcript, signals, toolVars, flags
<1>4. CASE CallModel(t)
  BY <1>4 DEF CallModel, transcript, signals, toolVars, views, flags
<1>5. CASE PromptTooLong(t)
  BY <1>5 DEF PromptTooLong, Load, transcript, signals, toolVars, views, flags
<1>6. CASE ToolCallsAsked(t)
  BY <1>6 DEF ToolCallsAsked, transcript, signals, views, flags
<1>7. CASE Complete(t)
  BY <1>7 DEF Complete, EndTurn, transcript, toolVars, views
<1>8. CASE ContinueTurn(t)
  BY <1>8 DEF ContinueTurn, transcript, signals, toolVars, views
<1>9. CASE YieldToQueue(t)
  BY <1>9 DEF YieldToQueue, EndTurn, transcript, toolVars, views
<1>10. CASE TurnThrows(t)
  BY <1>10 DEF TurnThrows, EndTurn, transcript, views
<1>11. CASE Stop(t)
  BY <1>11 DEF Stop, transcript, loopVars, toolVars, views, flags
<1>12. CASE Deadline(t)
  BY <1>12 DEF Deadline, transcript, loopVars, toolVars, views, flags
<1>13. CASE ExecuteTools(t)
  BY <1>13 DEF ExecuteTools, TakeUp, loopVars, signals, views, flags
<1>14. CASE RefusalThrows(t)
  BY <1>14 DEF RefusalThrows, TakeUp, EndTurn, transcript, views
<1>15. CASE \E note \in BOOLEAN : HandleToolCall(t, note)
  BY <1>15 DEF HandleToolCall, loopVars, signals, flags
<1>16. CASE \E c \in Calls : ResultLost(t, c)
  BY <1>16 DEF ResultLost, transcript, loopVars, signals, views, flags
<1>17. CASE \E c \in Calls, result \in {"completed", "error"} : ToolReturns(t, c, result)
  BY <1>17 DEF ToolReturns, loopVars, signals, views
<1>18. CASE ModelAsks(t)
  BY <1>18 DEF ModelAsks, transcript, loopVars, signals, views, flags
<1>19. CASE \E c \in Calls : ResultThrows(t, c)
  BY <1>19 DEF ResultThrows, EndTurn, transcript, views
<1> QED BY <1>1, <1>2, <1>3, <1>4, <1>5, <1>6, <1>7, <1>8, <1>9, <1>10, <1>11, <1>12, <1>13, <1>14, <1>15, <1>16, <1>17, <1>18, <1>19 DEF TurnStep

LEMMA TurnSignals ==
  ASSUME TurnTypeOK, NEW t \in Turns, TurnStep(t)
  PROVE  /\ phase[t] = "none" <=> phase'[t] = "none"
         /\ t \in returned => t \in returned'
         /\ t \in aborted => t \in aborted'
         /\ t \in returned' /\ t \notin returned => Active(t)
         /\ phase'[t] = "ended" => phase[t] = "ended" \/ t \in returned'
         /\ t \in returned' /\ t \notin returned =>
              phase'[t] = "ended" \/ t \in aborted'
         /\ phase[t] = "ended" => phase'[t] = "ended"
<1> USE DEF TurnTypeOK, Active
<1>1. CASE BeginStep(t)
  BY <1>1 DEF BeginStep, Load, transcript, signals, toolVars, Loaded
<1>2. CASE SynthesisFails(t)
  BY <1>2 DEF SynthesisFails, EndTurn, transcript, toolVars
<1>3. CASE Reload(t)
  BY <1>3 DEF Reload, transcript, signals, toolVars, flags, Loaded
<1>4. CASE CallModel(t)
  BY <1>4 DEF CallModel, transcript, signals, views, flags
<1>5. CASE PromptTooLong(t)
  BY <1>5 DEF PromptTooLong, Load, transcript, signals, toolVars, views, flags, Loaded
<1>6. CASE ToolCallsAsked(t)
  BY <1>6 DEF ToolCallsAsked, transcript, signals, views, flags
<1>7. CASE Complete(t)
  BY <1>7 DEF Complete, EndTurn, transcript, toolVars, views
<1>8. CASE ContinueTurn(t)
  BY <1>8 DEF ContinueTurn, transcript, signals, toolVars, views, ToolsSettled
<1>9. CASE YieldToQueue(t)
  BY <1>9 DEF YieldToQueue, EndTurn, transcript, toolVars, views, ToolsSettled
<1>10. CASE TurnThrows(t)
  BY <1>10 DEF TurnThrows, EndTurn, transcript, views
<1>11. CASE Stop(t)
  BY <1>11 DEF Stop, transcript, loopVars, toolVars, views, flags
<1>12. CASE Deadline(t)
  BY <1>12 DEF Deadline, transcript, loopVars, toolVars, views, flags
<1>13. CASE ExecuteTools(t)
  BY <1>13 DEF ExecuteTools, TakeUp, loopVars, signals, views, flags
<1>14. CASE RefusalThrows(t)
  BY <1>14 DEF RefusalThrows, TakeUp, EndTurn, transcript, views
<1>15. CASE \E note \in BOOLEAN : HandleToolCall(t, note)
  BY <1>15 DEF HandleToolCall, loopVars, signals, views, flags
<1>16. CASE \E c \in Calls : ResultLost(t, c)
  BY <1>16 DEF ResultLost, transcript, loopVars, signals, views, flags
<1>17. CASE \E c \in Calls, result \in {"completed", "error"} : ToolReturns(t, c, result)
  BY <1>17 DEF ToolReturns, loopVars, signals, views
<1>18. CASE ModelAsks(t)
  BY <1>18 DEF ModelAsks, transcript, loopVars, signals, views, flags
<1>19. CASE \E c \in Calls : ResultThrows(t, c)
  BY <1>19 DEF ResultThrows, EndTurn, transcript, views
<1> QED BY <1>1, <1>2, <1>3, <1>4, <1>5, <1>6, <1>7, <1>8, <1>9, <1>10, <1>11, <1>12, <1>13, <1>14, <1>15, <1>16, <1>17, <1>18, <1>19 DEF TurnStep

(* A call becomes open only by the turn that was asked for it, and is late for *)
(* every other.                                                                *)
LEMMA OpenCallsStep ==
  ASSUME TurnTypeOK, NEW t \in Turns, TurnStep(t)
  PROVE  \/ OpenCalls' \subseteq OpenCalls
         \/ /\ incoming[t] # {} /\ UNCHANGED <<phase, seen, orphans>>
            /\ late'[t] = late[t]
            /\ \A s \in Turns \ {t} : OpenCalls' \subseteq OpenCalls \cup late'[s]
<1> USE DEF TurnTypeOK, OpenCalls
<1>1. CASE BeginStep(t)
  BY <1>1 DEF BeginStep, Load, transcript, signals, toolVars
<1>2. CASE SynthesisFails(t)
  BY <1>2 DEF SynthesisFails, EndTurn, transcript, toolVars
<1>3. CASE Reload(t)
  BY <1>3 DEF Reload, transcript, signals, toolVars, flags
<1>4. CASE CallModel(t)
  BY <1>4 DEF CallModel, transcript, signals, views, flags
<1>5. CASE PromptTooLong(t)
  BY <1>5 DEF PromptTooLong, Load, transcript, signals, toolVars, views, flags
<1>6. CASE ToolCallsAsked(t)
  BY <1>6 DEF ToolCallsAsked, transcript, signals, views, flags
<1>7. CASE Complete(t)
  BY <1>7 DEF Complete, EndTurn, transcript, toolVars, views
<1>8. CASE ContinueTurn(t)
  BY <1>8 DEF ContinueTurn, transcript, signals, toolVars, views
<1>9. CASE YieldToQueue(t)
  BY <1>9 DEF YieldToQueue, EndTurn, transcript, toolVars, views
<1>10. CASE TurnThrows(t)
  BY <1>10 DEF TurnThrows, EndTurn, transcript, views
<1>11. CASE Stop(t)
  BY <1>11 DEF Stop, transcript, loopVars, toolVars, views, flags
<1>12. CASE Deadline(t)
  BY <1>12 DEF Deadline, transcript, loopVars, toolVars, views, flags
<1>13. CASE ExecuteTools(t)
  BY <1>13 DEF ExecuteTools, TakeUp, loopVars, signals, views, flags, WriteParts
<1>14. CASE RefusalThrows(t)
  BY <1>14 DEF RefusalThrows, TakeUp, EndTurn, transcript, views
<1>15. CASE \E note \in BOOLEAN : HandleToolCall(t, note)
  BY <1>15 DEF HandleToolCall, WriteParts, loopVars, signals, flags
<1>16. CASE \E c \in Calls : ResultLost(t, c)
  BY <1>16 DEF ResultLost, transcript, loopVars, signals, views, flags
<1>17. CASE \E c \in Calls, result \in {"completed", "error"} : ToolReturns(t, c, result)
  BY <1>17 DEF ToolReturns, loopVars, signals, views, WriteParts
<1>18. CASE ModelAsks(t)
  BY <1>18 DEF ModelAsks, transcript, loopVars, signals, views, flags
<1>19. CASE \E c \in Calls : ResultThrows(t, c)
  BY <1>19 DEF ResultThrows, EndTurn, transcript, views
<1> QED BY <1>1, <1>2, <1>3, <1>4, <1>5, <1>6, <1>7, <1>8, <1>9, <1>10, <1>11, <1>12, <1>13, <1>14, <1>15, <1>16, <1>17, <1>18, <1>19 DEF TurnStep

LEMMA BegunStep == IInv /\ [Next]_vars => BegunInOrder' /\ SettledOnce'
<1> SUFFICES ASSUME IInv, [Next]_vars PROVE BegunInOrder' /\ SettledOnce'
  OBVIOUS
<1>t. TurnTypeOK
  BY DEF IInv
<1>1. CASE StartTurn
  <2>1. turn' = turn + 1 /\ turn \in Nat /\ turn + 1 \in Turns
    BY <1>1, <1>t, TurnAssumption DEF StartTurn, TurnTypeOK, Turns
  <2>2. \A t \in Turns : phase'[t] = IF t = turn + 1 THEN "top" ELSE phase[t]
    BY <1>1, <1>t, <2>1 DEF StartTurn, TurnTypeOK
  <2>3. returned' = returned /\ aborted' = aborted /\ (turn > 0 => turn \in returned)
    BY <1>1 DEF StartTurn, signals
  <2>4. \A t \in Turns : t \in Nat /\ t > 0
    BY TurnAssumption DEF Turns
  <2>5. BegunInOrder'
    BY <2>1, <2>2, <2>3, <2>4 DEF IInv, BegunInOrder
  <2>6. SettledOnce'
    BY <2>1, <2>2, <2>3, <2>4 DEF IInv, SettledOnce, Active
  <2> QED BY <2>5, <2>6
<1>2. CASE Reconcile
  BY <1>2 DEF Reconcile, loopVars, signals, IInv, BegunInOrder, SettledOnce, Active
<1>3. CASE \E r \in Readers : Synthesize(r)
  BY <1>3 DEF Synthesize, loopVars, signals, IInv, BegunInOrder, SettledOnce, Active
<1>4. ASSUME NEW t \in Turns, TurnStep(t) PROVE BegunInOrder' /\ SettledOnce'
  <2>1. BegunInOrder'
    BY <1>4, <1>t, TurnFrame, TurnSignals DEF IInv, BegunInOrder
  <2>2. \A s \in Turns \ {t} :
          /\ s \in returned' => s <= turn'
          /\ phase'[s] = "ended" => s \in returned'
          /\ s \in returned' /\ Active(s)' => s \in aborted'
    BY <1>4, <1>t, TurnFrame DEF IInv, SettledOnce, Active
  <2>3. t \in returned' => t <= turn'
    <3>1. Active(t) => t <= turn
      BY <1>t, TurnAssumption DEF IInv, BegunInOrder, Active, Turns, TurnTypeOK
    <3> QED BY <1>4, <1>t, <3>1, TurnFrame, TurnSignals DEF IInv, SettledOnce
  <2>4. phase'[t] = "ended" => t \in returned'
    BY <1>4, <1>t, TurnSignals DEF IInv, SettledOnce
  <2>5. t \in returned' /\ Active(t)' => t \in aborted'
    BY <1>4, <1>t, TurnSignals DEF IInv, SettledOnce, Active
  <2>6. SettledOnce'
    <3>1. SUFFICES ASSUME NEW s \in Turns
                   PROVE  /\ s \in returned' => s <= turn'
                          /\ phase'[s] = "ended" => s \in returned'
                          /\ s \in returned' /\ Active(s)' => s \in aborted'
      BY DEF SettledOnce, Active
    <3>2. CASE s = t
      BY <2>3, <2>4, <2>5, <3>2
    <3>3. CASE s # t
      BY <2>2, <3>3
    <3> QED BY <3>2, <3>3
  <2> QED BY <2>1, <2>6
<1>5. CASE UNCHANGED vars
  BY <1>5 DEF vars, loopVars, signals, IInv, BegunInOrder, SettledOnce, Active
<1> QED BY <1>1, <1>2, <1>3, <1>4, <1>5 DEF Next

LEMMA OrphanStep == IInv /\ [Next]_vars => OpenIsOrphan'
<1> SUFFICES ASSUME IInv, [Next]_vars PROVE OpenIsOrphan'
  OBVIOUS
<1>t. TurnTypeOK
  BY DEF IInv
<1>1. CASE StartTurn
  <2>1. /\ UNCHANGED <<part, seen, orphans, late, incoming>> /\ turn + 1 \in Turns
        /\ \A t \in Turns : phase'[t] = IF t = turn + 1 THEN "top" ELSE phase[t]
    BY <1>1, <1>t, TurnAssumption
    DEF StartTurn, transcript, toolVars, views, TurnTypeOK, Turns
  <2>2. phase[turn + 1] = "none"
    BY <1>t, <2>1 DEF IInv, BegunInOrder, TurnTypeOK
  <2> QED BY <2>1, <2>2 DEF IInv, OpenIsOrphan, OpenCalls
<1>2. CASE Reconcile
  <2>1. /\ UNCHANGED <<part, seen, late, incoming, phase>>
        /\ \A t \in Turns : orphans'[t] = orphans[t]
    BY <1>2, <1>t, TurnAssumption
    DEF Reconcile, transcript, toolVars, loopVars, TurnTypeOK, Readers, Turns, Reconciler
  <2> QED BY <2>1 DEF IInv, OpenIsOrphan, OpenCalls
<1>3. ASSUME NEW r \in Readers, Synthesize(r) PROVE OpenIsOrphan'
  <2> DEFINE written == First(orphans[r])
  <2>1. \A c \in Calls : part'[c] = IF c = written THEN "error" ELSE part[c]
    BY <1>3 DEF Synthesize, WriteParts
  <2>2. \A t \in Turns : orphans[t] \ {written} \subseteq orphans'[t]
    BY <1>3, <1>t DEF Synthesize, TurnTypeOK, Readers
  <2> HIDE DEF written
  <2>3. UNCHANGED <<seen, late, incoming, phase>>
    BY <1>3 DEF Synthesize, loopVars, toolVars
  <2>4. OpenCalls' \subseteq OpenCalls \ {written}
    BY <2>1 DEF OpenCalls
  <2> QED BY <2>2, <2>3, <2>4 DEF IInv, OpenIsOrphan
<1>4. ASSUME NEW t \in Turns, TurnStep(t) PROVE OpenIsOrphan'
  <2>1. SUFFICES ASSUME NEW s \in Turns
                 PROVE  /\ phase'[s] = "synthesize" => OpenCalls' \subseteq orphans'[s] \cup late'[s]
                        /\ phase'[s] \in {"call", "stream"} => seen'[s] \subseteq late'[s]
                        /\ phase'[s] \notin {"stream", "ended"} => incoming'[s] = {}
    BY DEF OpenIsOrphan
  <2>2. /\ phase[s] = "synthesize" => OpenCalls \subseteq orphans[s] \cup late[s]
        /\ phase[s] \in {"call", "stream"} => seen[s] \subseteq late[s]
        /\ phase[s] \notin {"stream", "ended"} => incoming[s] = {}
    BY DEF IInv, OpenIsOrphan
  <2>3. CASE s # t
    <3>1. /\ phase'[s] = phase[s] /\ seen'[s] = seen[s] /\ orphans'[s] = orphans[s]
          /\ late[s] \subseteq late'[s] /\ incoming'[s] = incoming[s]
      BY <1>4, <1>t, <2>3, TurnFrame
    <3>2. OpenCalls' \subseteq OpenCalls \cup late'[s]
      BY <1>4, <1>t, <2>3, OpenCallsStep
    <3> QED BY <2>2, <3>1, <3>2
  <2>4. CASE s = t
    <3> USE <1>t, <2>4 DEF TurnTypeOK, Readers
    <3>1. CASE BeginStep(t)
      BY <2>2, <3>1 DEF BeginStep, Load, Loaded, transcript, toolVars, OpenCalls
    <3>2. CASE Reload(t)
      BY <2>2, <3>2 DEF Reload, Loaded, transcript, toolVars, OpenCalls
    <3>3. CASE CallModel(t)
      BY <2>2, <3>3 DEF CallModel, views
    <3>4. CASE PromptTooLong(t)
      BY <2>2, <3>4 DEF PromptTooLong, Load, Loaded, views, transcript, toolVars, OpenCalls
    <3>5. CASE \/ SynthesisFails(t) \/ Complete(t) \/ RefusalThrows(t)
               \/ YieldToQueue(t) \/ TurnThrows(t)
               \/ \E c \in Calls : ResultThrows(t, c)
      <4>1. phase'[t] = "ended"
        BY <3>5 DEF SynthesisFails, Complete, RefusalThrows, YieldToQueue, TurnThrows,
                    ResultThrows, EndTurn
      <4> QED BY <4>1
    <3>6. CASE ToolCallsAsked(t) \/ ContinueTurn(t)
      BY <2>2, <3>6 DEF ToolCallsAsked, ContinueTurn, ToolsSettled, toolVars
    <3>7. CASE \/ Stop(t) \/ Deadline(t) \/ ExecuteTools(t)
               \/ \E c \in Calls : ResultLost(t, c)
               \/ \E c \in Calls, result \in {"completed", "error"} : ToolReturns(t, c, result)
      <4>1. UNCHANGED <<phase, views, incoming>>
        BY <3>7 DEF Stop, Deadline, ExecuteTools, ResultLost, ToolReturns, loopVars, toolVars
      <4>2. OpenCalls' \subseteq OpenCalls \/ phase[t] # "synthesize"
        BY <1>4, <2>2, OpenCallsStep
      <4> QED BY <2>2, <4>1, <4>2 DEF views
    <3>8. CASE ModelAsks(t)
      BY <2>2, <3>8 DEF ModelAsks, loopVars, views
    <3>9. CASE \E note \in BOOLEAN : HandleToolCall(t, note)
      <4>1. /\ UNCHANGED <<phase, seen>> /\ late'[t] = late[t] /\ incoming[t] # {}
        BY <3>9 DEF HandleToolCall, loopVars
      <4> QED BY <2>2, <4>1
    <3> QED BY <1>4, <3>1, <3>2, <3>3, <3>4, <3>5, <3>6, <3>7, <3>8, <3>9 DEF TurnStep
  <2> QED BY <2>3, <2>4
<1>5. CASE UNCHANGED vars
  BY <1>5 DEF vars, transcript, loopVars, toolVars, views, IInv, OpenIsOrphan, OpenCalls
<1> QED BY <1>1, <1>2, <1>3, <1>4, <1>5 DEF Next

LEMMA IInvInit == Init => IInv
<1> SUFFICES ASSUME Init PROVE IInv
  OBVIOUS
<1>1. BegunInOrder
  BY TurnAssumption DEF Init, BegunInOrder, Turns
<1>2. SettledOnce /\ OpenIsOrphan
  BY DEF Init, SettledOnce, OpenIsOrphan
<1> QED BY <1>1, <1>2, TypeInit DEF IInv

LEMMA IInvStep == IInv /\ [Next]_vars => IInv'
BY TypeStep, BegunStep, OrphanStep DEF IInv

(* The invariant the promises below rest on. *)
THEOREM Inductive == Spec => []IInv
BY IInvInit, IInvStep, PTL DEF Spec

(* Whatever deadlines, stalls, failed writes, rejected prompts and boot       *)
(* passes do, the model is shown an open call only if another turn recorded   *)
(* it after the load that the synthesis answered.                             *)
THEOREM PromptsAreClosed == Spec => []PromptClosed
<1>1. IInv => PromptClosed
  BY DEF IInv, OpenIsOrphan, PromptClosed
<1> QED BY <1>1, Inductive, PTL

-----------------------------------------------------------------------------
(* Without a deadline at most one turn is in flight. *)
NoDeadline == "deadline" \notin Hazards

OneLive == \A t \in Turns : t \in returned => phase[t] = "ended"

(* Where the session's flag is allowed to stand in each part of the loop. *)
LimitOf(t) ==
  /\ phase[t] = "top" /\ maxStepsReached => step[t] >= MaxSteps
  /\ phase[t] \in {"synthesize", "call", "stream"} =>
       (maxStepsReached <=> step[t] >= MaxSteps)
  /\ phase[t] = "dispatch" => (maxStepsReached <=> step[t] > MaxSteps)

LimitFlag ==
  /\ (\A t \in Turns : ~Active(t)) => ~maxStepsReached
  /\ \A t \in Turns : LimitOf(t)

LInv == IInv /\ OneLive /\ LimitFlag

LEMMA OneActive ==
  ASSUME IInv, OneLive, NEW s \in Turns, NEW t \in Turns, Active(s), Active(t)
  PROVE  s = t
<1>1. s \notin returned /\ t \notin returned
  BY DEF OneLive, Active
<1>2. t <= turn /\ ~(t < turn) /\ s <= turn /\ ~(s < turn)
  BY <1>1, TurnAssumption DEF IInv, BegunInOrder, Active, Turns, TurnTypeOK
<1>3. s \in Nat /\ t \in Nat /\ turn \in Nat
  BY TurnAssumption DEF IInv, TurnTypeOK, Turns
<1> QED BY <1>2, <1>3

(* A turn that settles has left its loop, and put the flags back. *)
LEMMA EndsClean ==
  ASSUME NoDeadline, TurnTypeOK, NEW t \in Turns, TurnStep(t)
  PROVE  \/ returned' = returned
         \/ phase'[t] = "ended" /\ ~maxStepsReached'
<1>1. CASE \/ BeginStep(t) \/ Reload(t) \/ CallModel(t) \/ PromptTooLong(t)
           \/ ModelAsks(t) \/ ToolCallsAsked(t) \/ ExecuteTools(t) \/ ContinueTurn(t) \/ Stop(t)
           \/ \E note \in BOOLEAN : HandleToolCall(t, note)
           \/ \E c \in Calls : ResultLost(t, c)
           \/ \E c \in Calls, result \in {"completed", "error"} : ToolReturns(t, c, result)
  BY <1>1 DEF BeginStep, Reload, CallModel, PromptTooLong, ModelAsks, ToolCallsAsked, ExecuteTools,
              ContinueTurn, Stop, HandleToolCall, ResultLost, ToolReturns, signals
<1>2. CASE \/ SynthesisFails(t) \/ Complete(t) \/ RefusalThrows(t)
           \/ YieldToQueue(t) \/ TurnThrows(t) \/ \E c \in Calls : ResultThrows(t, c)
  <2>1. EndTurn(t)
    BY <1>2 DEF SynthesisFails, Complete, RefusalThrows, YieldToQueue, TurnThrows, ResultThrows
  <2> QED BY <2>1 DEF EndTurn, TurnTypeOK
<1>3. CASE Deadline(t)
  BY <1>3 DEF Deadline, NoDeadline
<1> QED BY <1>1, <1>2, <1>3 DEF TurnStep

LEMMA OneLiveStep == NoDeadline /\ IInv /\ OneLive /\ [Next]_vars => OneLive'
<1> SUFFICES ASSUME NoDeadline, IInv, OneLive, [Next]_vars PROVE OneLive'
  OBVIOUS
<1>t. TurnTypeOK
  BY DEF IInv
<1>1. CASE StartTurn
  <2>1. turn \in Nat /\ turn + 1 \in Turns
    BY <1>1, <1>t, TurnAssumption DEF StartTurn, TurnTypeOK, Turns
  <2>2. \A t \in Turns : phase'[t] = IF t = turn + 1 THEN "top" ELSE phase[t]
    BY <1>1, <1>t, <2>1 DEF StartTurn, TurnTypeOK
  <2>3. returned' = returned /\ turn + 1 \notin returned
    BY <1>1, <2>1 DEF StartTurn, signals, IInv, SettledOnce
  <2> QED BY <2>2, <2>3 DEF OneLive
<1>2. CASE Reconcile \/ \E r \in Readers : Synthesize(r)
  BY <1>2 DEF Reconcile, Synthesize, loopVars, signals, OneLive
<1>3. ASSUME NEW t \in Turns, TurnStep(t) PROVE OneLive'
  BY <1>3, <1>t, TurnFrame, TurnSignals, EndsClean DEF OneLive
<1>4. CASE UNCHANGED vars
  BY <1>4 DEF vars, loopVars, signals, OneLive
<1> QED BY <1>1, <1>2, <1>3, <1>4 DEF Next

LEMMA LimitStep == NoDeadline /\ LInv /\ [Next]_vars => LimitFlag'
<1> SUFFICES ASSUME NoDeadline, LInv, [Next]_vars PROVE LimitFlag'
  OBVIOUS
<1>t. IInv /\ OneLive /\ TurnTypeOK
  BY DEF LInv, IInv
<1>l. LimitFlag
  BY DEF LInv
<1>0. CASE UNCHANGED <<phase, step, maxStepsReached>>
  BY <1>0, <1>l DEF LimitFlag, LimitOf, Active
<1>1. CASE StartTurn
  <2>1. turn \in Nat /\ turn + 1 \in Turns
    BY <1>1, <1>t, TurnAssumption DEF StartTurn, TurnTypeOK, Turns
  <2>2. \A t \in Turns : phase'[t] = IF t = turn + 1 THEN "top" ELSE phase[t]
    BY <1>1, <1>t, <2>1 DEF StartTurn, TurnTypeOK
  <2>3. \A t \in Turns : ~Active(t)
    <3>1. SUFFICES ASSUME NEW t \in Turns, Active(t) PROVE FALSE
      OBVIOUS
    <3>2. t <= turn /\ ~(t < turn) /\ t > 0 /\ t \in Nat
      BY <1>t, <3>1, <2>1, TurnAssumption
      DEF IInv, OneLive, BegunInOrder, Active, Turns
    <3>3. t = turn
      BY <3>2, <2>1
    <3> QED BY <1>1, <1>t, <3>1, <3>2, <3>3 DEF StartTurn, OneLive, Active
  <2>4. ~maxStepsReached /\ maxStepsReached' = maxStepsReached
    BY <1>1, <1>l, <2>3 DEF StartTurn, LimitFlag
  <2>5. \A t \in Turns : phase'[t] \in {"none", "ended", "top"}
    BY <2>2, <2>3 DEF Active
  <2> QED BY <2>4, <2>5 DEF LimitFlag, LimitOf
<1>2. CASE Reconcile \/ \E r \in Readers : Synthesize(r)
  BY <1>2, <1>0 DEF Reconcile, Synthesize, loopVars, flags
<1>3. ASSUME NEW t \in Turns, TurnStep(t) PROVE LimitFlag'
  <2>1. CASE ~Active(t)
    <3>1. UNCHANGED <<phase, step, maxStepsReached>>
      BY <1>3, <2>1 DEF TurnStep, Active, BeginStep, SynthesisFails, Reload, CallModel,
         PromptTooLong, ModelAsks, ToolCallsAsked, Complete, HandleToolCall, ExecuteTools,
         RefusalThrows, TakeUp, ResultLost, ResultThrows, ToolReturns, ContinueTurn,
         YieldToQueue, ToolsSettled, TurnThrows, Stop, Deadline, loopVars, flags
    <3> QED BY <1>0, <3>1
  <2>2. CASE Active(t)
    <3>1. \A s \in Turns \ {t} : LimitOf(s)'
      <4>1. \A s \in Turns \ {t} : ~Active(s)
        BY <1>t, <2>2, OneActive
      <4>2. \A s \in Turns \ {t} : phase'[s] \in {"none", "ended"}
        BY <1>3, <1>t, <4>1, TurnFrame DEF Active
      <4> QED BY <4>2 DEF LimitOf
    <3>2. SUFFICES /\ LimitOf(t)'
                   /\ ~Active(t)' => ~maxStepsReached'
      BY <3>1 DEF LimitFlag
    <3>l. LimitOf(t)
      BY <1>l DEF LimitFlag
    <3>s. step[t] \in Nat /\ MaxSteps \in Nat /\ maxStepsReached \in BOOLEAN
      BY <1>t, TurnAssumption DEF TurnTypeOK
    <3>a. step \in [Turns -> Nat] /\ phase \in [Turns -> Phases]
      BY <1>t DEF TurnTypeOK
    <3> USE <3>a
    <3>3. CASE BeginStep(t)
      <4>1. maxStepsReached' = (maxStepsReached \/ step[t] >= MaxSteps) /\ step' = step
        BY <3>3 DEF BeginStep
      <4>2. phase[t] = "top" /\ phase'[t] \in {"call", "stream", "synthesize"}
        BY <3>3 DEF BeginStep, Loaded
      <4> QED BY <4>1, <4>2, <3>l, <3>s DEF LimitOf, Active
    <3>4. CASE Reload(t) \/ CallModel(t) \/ PromptTooLong(t)
      <4>1. UNCHANGED <<step, maxStepsReached>>
        BY <3>4 DEF Reload, CallModel, PromptTooLong, flags
      <4>2. /\ phase[t] \in {"call", "stream", "synthesize"}
            /\ phase'[t] \in {"call", "stream", "synthesize"}
        BY <3>4 DEF Reload, CallModel, PromptTooLong, Loaded
      <4> QED BY <4>1, <4>2, <3>l DEF LimitOf, Active
    <3>5. CASE ToolCallsAsked(t)
      <4>1. maxStepsReached' = maxStepsReached /\ step'[t] = step[t] + 1
        BY <3>5 DEF ToolCallsAsked, flags
      <4>2. phase[t] = "stream" /\ phase'[t] = "dispatch"
        BY <3>5 DEF ToolCallsAsked
      <4> QED BY <4>1, <4>2, <3>l, <3>s DEF LimitOf, Active
    <3>6. CASE ContinueTurn(t)
      <4>1. /\ maxStepsReached' = (maxStepsReached /\ ~stepResetRequested)
            /\ step'[t] = IF stepResetRequested THEN 0 ELSE step[t]
        BY <3>6 DEF ContinueTurn
      <4>2. phase[t] = "dispatch" /\ phase'[t] = "top"
        BY <3>6 DEF ContinueTurn, ToolsSettled
      <4>3. maxStepsReached => step[t] > MaxSteps
        BY <4>2, <3>l DEF LimitOf
      <4>4. maxStepsReached' => maxStepsReached /\ step'[t] = step[t]
        BY <4>1
      <4>5. maxStepsReached' => step'[t] >= MaxSteps
        BY <4>3, <4>4, <3>s
      <4> QED BY <4>2, <4>5 DEF LimitOf, Active
    <3>7. CASE \/ SynthesisFails(t) \/ Complete(t) \/ RefusalThrows(t)
               \/ YieldToQueue(t) \/ TurnThrows(t) \/ \E c \in Calls : ResultThrows(t, c)
      <4>1. EndTurn(t)
        BY <3>7 DEF SynthesisFails, Complete, RefusalThrows, YieldToQueue, TurnThrows, ResultThrows
      <4> QED BY <4>1 DEF EndTurn, LimitOf
    <3>8. CASE \/ Stop(t) \/ Deadline(t) \/ ExecuteTools(t) \/ ModelAsks(t)
               \/ \E note \in BOOLEAN : HandleToolCall(t, note)
               \/ \E c \in Calls : ResultLost(t, c)
               \/ \E c \in Calls, result \in {"completed", "error"} : ToolReturns(t, c, result)
      <4>1. UNCHANGED <<phase, step, maxStepsReached>>
        BY <3>8 DEF Stop, Deadline, ExecuteTools, ModelAsks, HandleToolCall, ResultLost, ToolReturns,
                    loopVars, flags
      <4> QED BY <4>1, <2>2, <3>l DEF LimitOf, Active
    <3> QED BY <1>3, <3>3, <3>4, <3>5, <3>6, <3>7, <3>8 DEF TurnStep
  <2> QED BY <2>1, <2>2
<1>4. CASE UNCHANGED vars
  BY <1>4, <1>0 DEF vars, loopVars, flags
<1> QED BY <1>1, <1>2, <1>3, <1>4 DEF Next

LEMMA LInvInit == Init => LInv
<1> SUFFICES ASSUME Init PROVE LInv
  OBVIOUS
<1>1. \A t \in Turns : phase[t] = "none"
  BY DEF Init
<1> QED BY <1>1, IInvInit DEF Init, LInv, OneLive, LimitFlag, LimitOf

(* While no turn outlives its deadline, tools are blocked exactly in the       *)
(* steps past the limit, whatever resets, retries and failed writes do, and no *)
(* turn inherits the flag of another.                                          *)
THEOREM LimitIsExact == NoDeadline /\ Spec => []BlockedPastLimit
<1>1. NoDeadline /\ LInv /\ [Next]_vars => LInv'
  BY IInvStep, OneLiveStep, LimitStep DEF LInv
<1>2. LInv => BlockedPastLimit
  BY DEF LInv, LimitFlag, LimitOf, BlockedPastLimit
<1> SUFFICES ASSUME NoDeadline PROVE Spec => []BlockedPastLimit
  OBVIOUS
<1>3. LInv /\ [Next]_vars => LInv'
  BY <1>1
<1> QED BY LInvInit, <1>2, <1>3, PTL DEF Spec

-----------------------------------------------------------------------------
(* Without a stall as well, no turn records a call beside another. *)
NoOverlap == {"deadline", "stall"} \cap Hazards = {}

(* INV-1 as the code states it. *)
NothingOpenSeen == \A t \in Turns : phase[t] = "stream" => seen[t] = {}

NoneLate ==
  \A t \in Turns :
    /\ incoming[t] # {} => phase[t] = "stream"
    /\ phase[t] \in {"synthesize", "call", "stream"} => late[t] = {}

LEMMA NoneLateStep ==
  ASSUME NoOverlap, IInv, OneLive, NoneLate, [Next]_vars
  PROVE  NoneLate'
<1>t. TurnTypeOK
  BY DEF IInv
<1>1. CASE StartTurn
  <2>1. UNCHANGED <<late, incoming>> /\ turn + 1 \in Turns
    BY <1>1, <1>t, TurnAssumption DEF StartTurn, toolVars, views, TurnTypeOK, Turns
  <2>2. \A t \in Turns : phase'[t] = IF t = turn + 1 THEN "top" ELSE phase[t]
    BY <1>1, <1>t, <2>1 DEF StartTurn, TurnTypeOK
  <2>3. phase[turn + 1] = "none"
    BY <1>t, <2>1 DEF IInv, BegunInOrder, TurnTypeOK
  <2> QED BY <2>1, <2>2, <2>3 DEF NoneLate
<1>2. CASE Reconcile \/ \E r \in Readers : Synthesize(r)
  BY <1>2 DEF Reconcile, Synthesize, loopVars, toolVars, NoneLate
<1>3. ASSUME NEW t \in Turns, TurnStep(t) PROVE NoneLate'
  <2>1. ASSUME NEW s \in Turns \ {t}
        PROVE  /\ incoming'[s] # {} => phase'[s] = "stream"
               /\ phase'[s] \in {"synthesize", "call", "stream"} => late'[s] = {}
    <3>1. phase'[s] = phase[s] /\ incoming'[s] = incoming[s]
      BY <1>3, <1>t, <2>1, TurnFrame
    <3>2. CASE \E note \in BOOLEAN : HandleToolCall(t, note)
      <4>1. Active(t)
        BY <3>2 DEF HandleToolCall, NoneLate, Active
      <4>2. ~Active(s)
        BY <1>t, <2>1, <4>1, OneActive
      <4> QED BY <3>1, <4>2 DEF NoneLate, Active
    <3>3. CASE ~ \E note \in BOOLEAN : HandleToolCall(t, note)
      <4>1. late'[s] = late[s]
        BY <1>3, <1>t, <2>1, <3>3 DEF TurnTypeOK, TurnStep, BeginStep, SynthesisFails, Reload,
           CallModel, PromptTooLong, Load, ModelAsks, ToolCallsAsked, Complete,
           ExecuteTools, RefusalThrows, ResultLost, ResultThrows, ToolReturns, ContinueTurn,
           YieldToQueue, TurnThrows, Stop, Deadline, views
      <4> QED BY <3>1, <4>1 DEF NoneLate
    <3> QED BY <3>2, <3>3
  <2>2. /\ incoming'[t] # {} => phase'[t] = "stream"
        /\ phase'[t] \in {"synthesize", "call", "stream"} => late'[t] = {}
    <3> USE <1>t DEF TurnTypeOK, NoneLate
    <3>1. CASE BeginStep(t)
      BY <3>1 DEF BeginStep, Load, toolVars
    <3>2. CASE Reload(t) \/ CallModel(t) \/ ToolCallsAsked(t) \/ ContinueTurn(t)
      BY <3>2 DEF Reload, CallModel, ToolCallsAsked, ContinueTurn, ToolsSettled, toolVars, views
    <3>3. CASE PromptTooLong(t)
      BY <3>3 DEF PromptTooLong, Load, toolVars, views
    <3>4. CASE \/ SynthesisFails(t) \/ Complete(t) \/ RefusalThrows(t) \/ YieldToQueue(t)
               \/ TurnThrows(t) \/ \E c \in Calls : ResultThrows(t, c)
      <4>1. phase'[t] = "ended"
        BY <3>4 DEF SynthesisFails, Complete, RefusalThrows, YieldToQueue, TurnThrows,
                    ResultThrows, EndTurn
      <4>2. incoming'[t] = {}
        BY <3>4 DEF SynthesisFails, Complete, RefusalThrows, TakeUp, YieldToQueue, ToolsSettled,
                    TurnThrows, ResultThrows, toolVars, NoOverlap
      <4> QED BY <4>1, <4>2
    <3>5. CASE \/ Stop(t) \/ Deadline(t) \/ ExecuteTools(t)
               \/ \E c \in Calls : ResultLost(t, c)
               \/ \E c \in Calls, result \in {"completed", "error"} : ToolReturns(t, c, result)
      <4>1. UNCHANGED <<phase, late, incoming>>
        BY <3>5 DEF Stop, Deadline, ExecuteTools, ResultLost, ToolReturns, loopVars, views, toolVars
      <4> QED BY <4>1
    <3>6. CASE ModelAsks(t)
      BY <3>6 DEF ModelAsks, loopVars, views
    <3>7. CASE \E note \in BOOLEAN : HandleToolCall(t, note)
      <4>1. UNCHANGED phase /\ late'[t] = late[t] /\ incoming[t] # {}
        BY <3>7 DEF HandleToolCall, loopVars
      <4> QED BY <4>1
    <3> QED BY <1>3, <3>1, <3>2, <3>3, <3>4, <3>5, <3>6, <3>7 DEF TurnStep
  <2> QED BY <2>1, <2>2 DEF NoneLate
<1>4. CASE UNCHANGED vars
  BY <1>4 DEF vars, loopVars, toolVars, views, NoneLate
<1> QED BY <1>1, <1>2, <1>3, <1>4 DEF Next

(* Where no turn is given up with work still under way, the model is never     *)
(* shown an open call, whatever stops, failed writes, rejected prompts and     *)
(* boot passes do.                                                             *)
THEOREM NoOpenCallIsShown == NoOverlap /\ Spec => []NothingOpenSeen
<1> SUFFICES ASSUME NoOverlap PROVE Spec => []NothingOpenSeen
  OBVIOUS
<1> DEFINE OInv == IInv /\ OneLive /\ NoneLate
<1>1. Init => OInv
  BY IInvInit DEF Init, OneLive, NoneLate
<1>2. OInv /\ [Next]_vars => OInv'
  BY IInvStep, OneLiveStep, NoneLateStep DEF NoOverlap, NoDeadline
<1>3. OInv => NothingOpenSeen
  BY DEF IInv, OpenIsOrphan, NoneLate, NothingOpenSeen
<1> QED BY <1>1, <1>2, <1>3, PTL DEF Spec

-----------------------------------------------------------------------------
(* When turns only meet stops and progress notes, what is open in the          *)
(* transcript is known at every point of the loop.                             *)
Quiet == Hazards \subseteq {"progressNotes"}

OrphansAreOpen ==
  /\ orphans[Reconciler] = {}
  /\ \A t \in Turns :
       orphans[t] = IF phase[t] = "synthesize" THEN OpenCalls ELSE {}

(* The processor's map, and the two halves of a dispatch, name the open calls. *)
RecordedOf(t) ==
  /\ phase[t] = "call" => OpenCalls = {}
  /\ phase[t] \in {"stream", "dispatch"} => OpenCalls = toolCalls[t]
  /\ phase[t] = "dispatch" =>
       toolCalls[t] = todo[t] \cup executing[t] /\ todo[t] \cap executing[t] = {}
  /\ phase[t] # "dispatch" => executing[t] = {}
  /\ phase[t] # "stream" => incoming[t] = {}
  /\ \A c \in incoming[t] : part[c] = "absent"

CallsRecorded == \A t \in Turns : RecordedOf(t)

QInv == IInv /\ OneLive /\ retrying = {} /\ OrphansAreOpen /\ CallsRecorded

LEMMA NoRetry ==
  ASSUME Quiet, retrying = {}, [Next]_vars
  PROVE  retrying' = {}
<1>1. ASSUME NEW t \in Turns, TurnStep(t) PROVE retrying' \subseteq retrying
  BY <1>1 DEF Quiet, TurnStep, BeginStep, SynthesisFails, Reload, CallModel, PromptTooLong,
     ModelAsks, ToolCallsAsked, Complete, HandleToolCall, ExecuteTools, RefusalThrows, ResultLost,
     ResultThrows, ToolReturns, ContinueTurn, YieldToQueue, TurnThrows, Stop, Deadline, loopVars
<1> QED BY <1>1 DEF Next, StartTurn, Reconcile, Synthesize, vars, loopVars

(* What a turn does to its own tools it does to no other's. *)
LEMMA ToolFrame ==
  ASSUME TurnTypeOK, NEW t \in Turns, TurnStep(t)
  PROVE  \A s \in Turns \ {t} : executing'[s] = executing[s]
<1> USE DEF TurnTypeOK
<1>1. CASE \/ BeginStep(t) \/ SynthesisFails(t) \/ Reload(t) \/ CallModel(t) \/ PromptTooLong(t)
           \/ ToolCallsAsked(t) \/ Complete(t) \/ ContinueTurn(t) \/ YieldToQueue(t)
           \/ TurnThrows(t) \/ Stop(t) \/ Deadline(t) \/ ModelAsks(t)
           \/ \E note \in BOOLEAN : HandleToolCall(t, note)
  <2>1. executing' = executing
    BY <1>1 DEF BeginStep, SynthesisFails, Reload, CallModel, PromptTooLong, ModelAsks, ToolCallsAsked,
       Complete, ContinueTurn, YieldToQueue, TurnThrows, Stop, Deadline, HandleToolCall, toolVars
  <2> QED BY <2>1
<1>2. CASE \/ ExecuteTools(t) \/ RefusalThrows(t)
           \/ \E c \in Calls : ResultLost(t, c) \/ ResultThrows(t, c)
           \/ \E c \in Calls, result \in {"completed", "error"} : ToolReturns(t, c, result)
  BY <1>2 DEF ExecuteTools, RefusalThrows, TakeUp, ResultLost, ResultThrows, ToolReturns
<1> QED BY <1>1, <1>2 DEF TurnStep

(* Only a turn in its loop takes a step. *)
LEMMA StepsWhileActive ==
  ASSUME QInv, NEW t \in Turns, TurnStep(t)
  PROVE  Active(t)
<1>1. /\ phase[t] # "dispatch" => executing[t] = {}
      /\ phase[t] # "stream" => incoming[t] = {}
  BY DEF QInv, CallsRecorded, RecordedOf
<1> QED BY <1>1 DEF TurnStep, Active, BeginStep, SynthesisFails, Reload, CallModel,
   PromptTooLong, ModelAsks, ToolCallsAsked, Complete, HandleToolCall, ExecuteTools,
   RefusalThrows, TakeUp, ResultLost, ResultThrows, ToolReturns, ContinueTurn, YieldToQueue, ToolsSettled,
   TurnThrows, Stop, Deadline

(* What each step of a turn does to its own calls. *)
LEMMA OwnCalls ==
  ASSUME Quiet, QInv, NEW t \in Turns, TurnStep(t)
  PROVE  /\ RecordedOf(t)'
         /\ orphans'[t] = IF phase'[t] = "synthesize" THEN OpenCalls' ELSE {}
         /\ \A c \in Calls : part[c] = "completed" => part'[c] = "completed"
<1>t. TurnTypeOK /\ retrying = {}
  BY DEF QInv, IInv
<1>r. RecordedOf(t)
  BY DEF QInv, CallsRecorded
<1>o. orphans[t] = IF phase[t] = "synthesize" THEN OpenCalls ELSE {}
  BY DEF QInv, OrphansAreOpen
<1>f. /\ part \in [Calls -> {"absent", "running", "completed", "error"}]
      /\ phase \in [Turns -> Phases] /\ orphans \in [Readers -> SUBSET Calls]
      /\ toolCalls \in [Turns -> SUBSET Calls] /\ todo \in [Turns -> SUBSET Calls]
      /\ executing \in [Turns -> SUBSET Calls] /\ incoming \in [Turns -> SUBSET Calls]
      /\ t \in Readers
  BY <1>t DEF TurnTypeOK, Readers
<1>n. retrying' = {}
  <2>1. [Next]_vars
    BY DEF Next
  <2> QED BY <1>t, <2>1, NoRetry
<1>1. CASE BeginStep(t)
  <2>1. UNCHANGED <<part, toolVars>> /\ orphans'[t] = OpenCalls
    BY <1>1, <1>f DEF BeginStep, Load, transcript
  <2>2. phase[t] = "top" /\ phase'[t] = IF OpenCalls = {} THEN "call" ELSE "synthesize"
    BY <1>1, <1>f, <1>n DEF BeginStep, Loaded
  <2> QED BY <2>1, <2>2, <1>r DEF RecordedOf, OpenCalls, toolVars
<1>2. CASE Reload(t)
  <2>1. UNCHANGED <<part, toolVars>> /\ orphans'[t] = {} /\ OpenCalls = {}
    BY <1>2, <1>o DEF Reload, transcript
  <2>2. phase[t] = "synthesize" /\ phase'[t] = "call"
    BY <1>2, <1>f, <1>n DEF Reload, Loaded
  <2> QED BY <2>1, <2>2, <1>r DEF RecordedOf, OpenCalls, toolVars
<1>3. CASE CallModel(t)
  <2>1. UNCHANGED <<part, executing, incoming, orphans>> /\ toolCalls'[t] = {}
    BY <1>3, <1>f DEF CallModel, transcript, views
  <2>2. phase[t] = "call" /\ phase'[t] = "stream"
    BY <1>3, <1>f DEF CallModel
  <2> QED BY <2>1, <2>2, <1>r, <1>o DEF RecordedOf, OpenCalls
<1>4. CASE ToolCallsAsked(t)
  <2>1. /\ UNCHANGED <<part, executing, toolCalls, incoming, orphans>>
        /\ todo'[t] = toolCalls[t] /\ incoming[t] = {}
    BY <1>4, <1>f DEF ToolCallsAsked, transcript, views
  <2>2. phase[t] = "stream" /\ phase'[t] = "dispatch"
    BY <1>4, <1>f DEF ToolCallsAsked
  <2> QED BY <2>1, <2>2, <1>r, <1>o DEF RecordedOf, OpenCalls
<1>5. CASE \E note \in BOOLEAN : HandleToolCall(t, note)
  <2>1. PICK note \in BOOLEAN : HandleToolCall(t, note)
    BY <1>5
  <2> DEFINE call == First(incoming[t])
  <2>2. call \in incoming[t] /\ call \in Calls /\ part[call] = "absent"
    BY <2>1, <1>f, <1>r, FirstIn DEF HandleToolCall, RecordedOf
  <2>3. \A c \in Calls : part'[c] = IF c = call THEN "running" ELSE part[c]
    BY <2>1 DEF HandleToolCall, WriteParts
  <2>4. toolCalls'[t] = toolCalls[t] \cup {call}
    BY <2>1, <1>f DEF HandleToolCall
  <2>5. /\ phase[t] = "stream" /\ UNCHANGED <<todo, executing, phase, orphans>>
        /\ incoming'[t] = incoming[t] \ {call}
    BY <2>1, <2>2, <1>f, <1>r DEF HandleToolCall, loopVars, RecordedOf
  <2> HIDE DEF call
  <2>6. OpenCalls' = OpenCalls \cup {call}
    BY <2>2, <2>3 DEF OpenCalls
  <2>7. \A c \in incoming'[t] : part'[c] = "absent"
    BY <2>3, <2>5, <1>f, <1>r DEF RecordedOf
  <2>8. OpenCalls' = toolCalls'[t]
    BY <2>4, <2>5, <2>6, <1>r DEF RecordedOf
  <2>9. RecordedOf(t)'
    BY <2>5, <2>7, <2>8, <1>r DEF RecordedOf
  <2> QED BY <2>2, <2>3, <2>5, <2>9, <1>o
<1>6. CASE ExecuteTools(t)
  <2> DEFINE taken == TakenUp(t)
             refused == Refused(t)
  <2>1. taken \subseteq todo[t] /\ refused \subseteq taken
    BY <1>t, TakenUpIn
  <2>2. \A c \in Calls : part'[c] = IF c \in refused THEN "error" ELSE part[c]
    BY <1>6 DEF ExecuteTools, WriteParts
  <2>3. /\ todo'[t] = todo[t] \ taken /\ executing'[t] = taken \ refused
        /\ toolCalls'[t] = toolCalls[t] \ refused
    BY <1>6, <1>f DEF ExecuteTools, TakeUp
  <2>4. /\ phase[t] = "dispatch" /\ executing[t] = {} /\ UNCHANGED <<phase, orphans, incoming>>
    BY <1>6 DEF ExecuteTools, TakeUp, loopVars, views
  <2> HIDE DEF taken, refused
  <2>5. OpenCalls' = OpenCalls \ refused
    BY <2>2 DEF OpenCalls
  <2>6. OpenCalls = toolCalls[t] /\ toolCalls[t] = todo[t]
    BY <2>4, <1>r DEF RecordedOf
  <2>7. RecordedOf(t)'
    BY <1>r, <2>1, <2>3, <2>4, <2>5, <2>6 DEF RecordedOf
  <2>8. \A c \in Calls : part[c] = "completed" => part'[c] = "completed"
    BY <2>1, <2>2, <2>6 DEF OpenCalls
  <2> QED BY <2>4, <2>7, <2>8, <1>o
<1>7. CASE \E c \in Calls, result \in {"completed", "error"} : ToolReturns(t, c, result)
  <2>1. PICK c \in Calls, result \in {"completed", "error"} : ToolReturns(t, c, result)
    BY <1>7
  <2>2. \A d \in Calls : part'[d] = IF d = c THEN result ELSE part[d]
    BY <2>1 DEF ToolReturns, WriteParts
  <2>3. /\ executing'[t] = executing[t] \ {c} /\ toolCalls'[t] = toolCalls[t] \ {c}
        /\ UNCHANGED <<todo, phase, orphans, incoming>>
    BY <2>1, <1>f DEF ToolReturns, loopVars, views
  <2>4. c \in executing[t] /\ phase[t] = "dispatch"
    BY <2>1, <1>r DEF ToolReturns, RecordedOf
  <2>5. /\ OpenCalls = toolCalls[t] /\ toolCalls[t] = todo[t] \cup executing[t]
        /\ todo[t] \cap executing[t] = {}
    BY <2>4, <1>r DEF RecordedOf
  <2>6. OpenCalls' = OpenCalls \ {c}
    BY <2>2 DEF OpenCalls
  <2>7. RecordedOf(t)'
    BY <1>r, <2>3, <2>4, <2>5, <2>6 DEF RecordedOf
  <2>8. \A d \in Calls : part[d] = "completed" => part'[d] = "completed"
    BY <2>2, <2>4, <2>5 DEF OpenCalls
  <2> QED BY <2>3, <2>4, <2>7, <2>8, <1>o
<1>8. CASE ContinueTurn(t)
  <2>1. UNCHANGED <<part, toolVars, orphans>> /\ executing[t] = {}
    BY <1>8 DEF ContinueTurn, ToolsSettled, transcript, views
  <2>2. phase[t] = "dispatch" /\ phase'[t] = "top"
    BY <1>8, <1>f DEF ContinueTurn, ToolsSettled
  <2> QED BY <2>1, <2>2, <1>o, <1>r DEF RecordedOf, toolVars
<1>9. CASE Complete(t) \/ YieldToQueue(t) \/ TurnThrows(t)
  <2>1. UNCHANGED <<part, toolCalls, todo, executing, orphans>> /\ incoming'[t] = {}
    BY <1>9, <1>f, <1>r
    DEF Complete, YieldToQueue, ToolsSettled, TurnThrows, transcript, toolVars, views, Quiet,
        RecordedOf
  <2>2. phase'[t] = "ended"
    BY <1>9, <1>f DEF Complete, YieldToQueue, TurnThrows, EndTurn
  <2>3. orphans[t] = {}
    BY <1>9, <1>o DEF Complete, YieldToQueue, ToolsSettled, TurnThrows
  <2>4. executing[t] = {}
    BY <1>9, <1>r DEF Complete, YieldToQueue, ToolsSettled, TurnThrows, RecordedOf
  <2> QED BY <2>1, <2>2, <2>3, <2>4 DEF RecordedOf
<1>10. CASE Stop(t)
  <2>1. UNCHANGED <<part, toolVars, phase, orphans>>
    BY <1>10 DEF Stop, transcript, loopVars, views
  <2> QED BY <2>1, <1>o, <1>r DEF RecordedOf, OpenCalls, toolVars
<1>11. CASE \/ SynthesisFails(t) \/ PromptTooLong(t) \/ RefusalThrows(t) \/ Deadline(t)
            \/ \E c \in Calls : ResultLost(t, c) \/ ResultThrows(t, c)
  BY <1>11 DEF Quiet, SynthesisFails, PromptTooLong, RefusalThrows, Deadline, ResultLost,
               ResultThrows
<1>12. CASE ModelAsks(t)
  <2> DEFINE new == {c \in Calls : part[c] = "absent" /\ \A s \in Turns : c \notin incoming[s]}
  <2>1. First(new) \in new
    BY <1>12, FirstIn DEF ModelAsks
  <2>2. /\ UNCHANGED <<part, toolCalls, todo, executing, phase, orphans>>
        /\ phase[t] = "stream" /\ incoming'[t] = incoming[t] \cup {First(new)}
    BY <1>12, <1>f DEF ModelAsks, transcript, loopVars, views
  <2>3. part[First(new)] = "absent"
    BY <2>1
  <2> HIDE DEF new
  <2> QED BY <2>2, <2>3, <1>o, <1>r DEF RecordedOf, OpenCalls
<1> QED BY <1>1, <1>2, <1>3, <1>4, <1>5, <1>6, <1>7, <1>8, <1>9, <1>10, <1>11, <1>12 DEF TurnStep

LEMMA CallsStep ==
  ASSUME Quiet, QInv, [Next]_vars
  PROVE  /\ OrphansAreOpen' /\ CallsRecorded'
         /\ \A c \in Calls : part[c] = "completed" => part'[c] = "completed"
<1>t. TurnTypeOK /\ IInv /\ OneLive
  BY DEF QInv, IInv
<1>q. OrphansAreOpen /\ CallsRecorded
  BY DEF QInv
<1>1. CASE StartTurn
  <2>1. turn \in Nat /\ turn + 1 \in Turns
    BY <1>1, <1>t, TurnAssumption DEF StartTurn, TurnTypeOK, Turns
  <2>2. \A t \in Turns : phase'[t] = IF t = turn + 1 THEN "top" ELSE phase[t]
    BY <1>1, <1>t, <2>1 DEF StartTurn, TurnTypeOK
  <2>3. phase[turn + 1] = "none"
    BY <1>t, <2>1 DEF IInv, BegunInOrder
  <2>4. UNCHANGED <<part, toolVars, orphans>>
    BY <1>1 DEF StartTurn, transcript, views
  <2> QED BY <1>q, <2>2, <2>3, <2>4 DEF OrphansAreOpen, CallsRecorded, RecordedOf, OpenCalls, toolVars
<1>2. CASE Reconcile
  BY <1>2 DEF Reconcile, Quiet
<1>3. ASSUME NEW r \in Readers, Synthesize(r)
      PROVE  /\ OrphansAreOpen' /\ CallsRecorded'
             /\ \A c \in Calls : part[c] = "completed" => part'[c] = "completed"
  <2>1. r \in Turns /\ phase[r] = "synthesize" /\ orphans[r] = OpenCalls /\ OpenCalls # {}
    BY <1>3, <1>q DEF Synthesize, OrphansAreOpen, Readers
  <2> DEFINE call == First(OpenCalls)
  <2>2. call \in OpenCalls
    BY <2>1, FirstIn DEF OpenCalls
  <2>3. \A c \in Calls : part'[c] = IF c = call THEN "error" ELSE part[c]
    BY <1>3, <2>1 DEF Synthesize, WriteParts
  <2>4. \A s \in Readers : orphans'[s] = IF s = r THEN OpenCalls \ {call} ELSE orphans[s]
    BY <1>3, <1>t, <2>1 DEF Synthesize, TurnTypeOK
  <2>5. UNCHANGED <<phase, toolVars>>
    BY <1>3 DEF Synthesize, loopVars
  <2> HIDE DEF call
  <2>6. OpenCalls' = OpenCalls \ {call}
    BY <2>3 DEF OpenCalls
  <2>7. \A s \in Turns \ {r} : phase[s] \in {"none", "ended"}
    BY <1>t, <2>1, OneActive DEF Active
  <2>8. Reconciler \in Readers /\ Reconciler # r /\ Turns \subseteq Readers
    BY <2>1, TurnAssumption DEF Reconciler, Readers, Turns
  <2>9. OrphansAreOpen'
    BY <1>q, <2>1, <2>4, <2>5, <2>6, <2>7, <2>8 DEF OrphansAreOpen
  <2>10. CallsRecorded'
    BY <1>q, <2>1, <2>5, <2>7 DEF CallsRecorded, RecordedOf, toolVars
  <2> QED BY <2>2, <2>3, <2>9, <2>10 DEF OpenCalls
<1>4. ASSUME NEW t \in Turns, TurnStep(t)
      PROVE  /\ OrphansAreOpen' /\ CallsRecorded'
             /\ \A c \in Calls : part[c] = "completed" => part'[c] = "completed"
  <2>1. \A s \in Turns \ {t} : phase[s] \in {"none", "ended"}
    BY <1>4, <1>t, StepsWhileActive, OneActive DEF Active
  <2>2. \A s \in Turns \ {t} : /\ phase'[s] = phase[s] /\ orphans'[s] = orphans[s]
                               /\ executing'[s] = executing[s] /\ incoming'[s] = incoming[s]
    BY <1>4, <1>t, TurnFrame, ToolFrame
  <2>3. \A s \in Turns \ {t} : RecordedOf(s)'
    BY <1>q, <2>1, <2>2 DEF CallsRecorded, RecordedOf
  <2>4. CallsRecorded'
    BY <1>4, <2>3, OwnCalls DEF CallsRecorded
  <2>5. orphans'[Reconciler] = orphans[Reconciler]
    <3>1. Reconciler \in Readers /\ Reconciler # t
      BY TurnAssumption DEF Reconciler, Readers, Turns
    <3> QED BY <1>4, <1>t, <3>1 DEF TurnTypeOK, TurnStep, BeginStep, SynthesisFails, Reload,
         CallModel, PromptTooLong, Load, ModelAsks, ToolCallsAsked, Complete, HandleToolCall,
         ExecuteTools, RefusalThrows, ResultLost, ResultThrows, ToolReturns, ContinueTurn, YieldToQueue, TurnThrows,
         Stop, Deadline, views
  <2>6. OrphansAreOpen'
    BY <1>4, <1>q, <2>1, <2>2, <2>5, OwnCalls DEF OrphansAreOpen
  <2> QED BY <1>4, <2>4, <2>6, OwnCalls
<1>5. CASE UNCHANGED vars
  BY <1>5, <1>q DEF vars, transcript, loopVars, toolVars, views, OrphansAreOpen, CallsRecorded,
                    RecordedOf, OpenCalls
<1> QED BY <1>1, <1>2, <1>3, <1>4, <1>5 DEF Next

LEMMA QInvInit == Init => QInv
<1> SUFFICES ASSUME Init PROVE QInv
  OBVIOUS
<1>1. OrphansAreOpen
  BY DEF Init, OrphansAreOpen, Readers
<1>2. OneLive /\ CallsRecorded /\ retrying = {}
  BY DEF Init, OneLive, CallsRecorded, RecordedOf
<1> QED BY <1>1, <1>2, IInvInit DEF QInv

LEMMA QInvStep == Quiet /\ QInv /\ [Next]_vars => QInv'
<1>1. Quiet => NoDeadline
  BY DEF Quiet, NoDeadline
<1> QED BY <1>1, IInvStep, OneLiveStep, NoRetry, CallsStep DEF QInv

(* The invariant of such turns. *)
THEOREM QuietInductive == Quiet /\ Spec => []QInv
<1> SUFFICES ASSUME Quiet PROVE Spec => []QInv
  OBVIOUS
<1>1. QInv /\ [Next]_vars => QInv'
  BY QInvStep
<1> QED BY QInvInit, <1>1, PTL DEF Spec

(* While turns are only stopped, one at a time or all tools together: no tool *)
(* runs of which the transcript says that it did not complete.                *)
THEOREM RunningToolsAreOpen == Quiet /\ Spec => []RunsOpenCalls
<1>1. QInv => RunsOpenCalls
  BY DEF QInv, CallsRecorded, RecordedOf, RunsOpenCalls
<1> QED BY <1>1, QuietInductive, PTL

(* The step of a turn that is over leaves every call of the session answered, *)
(* whenever the Stop came, so that a waiting message can be served there.     *)
THEOREM StepsLeaveNothingOpen == Quiet /\ Spec => []StepsEndClosed
<1>1. QInv => StepsEndClosed
  BY DEF QInv, CallsRecorded, RecordedOf, StepsEndClosed, ToolsSettled
<1> QED BY <1>1, QuietInductive, PTL

(* Closing what is open never writes over a result, in the turn that received *)
(* it or in a later one.                                                      *)
THEOREM ResultsAreKept == Quiet /\ Spec => ResultKept
<1> SUFFICES ASSUME Quiet PROVE Spec => ResultKept
  OBVIOUS
<1>1. QInv /\ [Next]_vars =>
        [\A c \in Calls : part[c] = "completed" => part'[c] = "completed"]_vars
  BY CallsStep
<1>2. Spec => []QInv
  BY QuietInductive
<1> QED BY <1>1, <1>2, PTL DEF Spec, ResultKept
=============================================================================
