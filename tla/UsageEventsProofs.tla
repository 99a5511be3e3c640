------------------------- MODULE UsageEventsProofs -------------------------
(***************************************************************************)
(* For any number of turns, of writers and of faults: the metering counts  *)
(* nothing twice, loses no event it has taken without saying so but in the *)
(* two ways UsageEvents names, loses none by a clean exit, never reopens a *)
(* session, and gives a session whose events kept their order the status   *)
(* they say.                                                               *)
(***************************************************************************)
EXTENDS UsageEvents, SequenceTheorems, TLAPS

(* Sequences as the buffer uses them. *)
LEMMA RangeOfNone == <<>> \in Seq(Events) /\ Range(<<>>) = {}
<1>1. DOMAIN <<>> = {}
  OBVIOUS
<1>. QED  BY <1>1 DEF Range

LEMMA RangeOfOne ==
  ASSUME NEW e \in Events
  PROVE  <<e>> \in Seq(Events) /\ <<e>> # <<>> /\ Range(<<e>>) = {e} /\ Head(<<e>>) = e
<1>1. <<e>> \in Seq(Events) /\ Len(<<e>>) = 1 /\ <<e>>[1] = e
  OBVIOUS
<1>2. DOMAIN <<e>> = {1}
  OBVIOUS
<1>. QED  BY <1>1, <1>2 DEF Range

LEMMA RangeOfJoin ==
  ASSUME NEW q \in Seq(Events), NEW r \in Seq(Events)
  PROVE  q \o r \in Seq(Events) /\ Range(q \o r) = Range(q) \cup Range(r)
BY ConcatProperties, RangeConcatenation

LEMMA RangeOfAppend ==
  ASSUME NEW q \in Seq(Events), NEW e \in Events
  PROVE  /\ Append(q, e) \in Seq(Events) /\ Append(q, e) # <<>>
         /\ Range(Append(q, e)) = Range(q) \cup {e}
<1>1. Append(q, e) \in Seq(Events) /\ Append(q, e) # <<>>
  BY AppendProperties
<1>2. Append(q, e) = q \o <<e>>
  BY AppendIsConcat
<1>. QED  BY <1>1, <1>2, RangeOfJoin, RangeOfOne

(* A batch and what stays queued behind it. *)
LEMMA RangeOfPieces ==
  ASSUME NEW q \in Seq(Events), NEW n \in Nat \ {0}, q # <<>>,
         NEW k, k = IF Len(q) < n THEN Len(q) ELSE n
  PROVE  /\ SubSeq(q, 1, k) \in Seq(Events) /\ SubSeq(q, 1, k) # <<>>
         /\ SubSeq(q, n + 1, Len(q)) \in Seq(Events)
         /\ SubSeq(q, 1, k) \o SubSeq(q, n + 1, Len(q)) = q
         /\ Range(q) = Range(SubSeq(q, 1, k)) \cup Range(SubSeq(q, n + 1, Len(q)))
<1>1. Len(q) \in Nat /\ Len(q) > 0 /\ k \in 1 .. Len(q) /\ k <= n /\ n + 1 \in Int
  OBVIOUS
<1>2. SubSeq(q, 1, k) \in Seq(Events) /\ Len(SubSeq(q, 1, k)) = k
  BY <1>1, SubSeqProperties
<1>3. SubSeq(q, n + 1, Len(q)) \in Seq(Events)
  BY <1>1, SubSeqProperties
<1>4. SubSeq(q, 1, k) # <<>>
  BY <1>1, <1>2
<1>5. q = SubSeq(q, 1, Len(q))
  BY SubSeqFull
<1>6. CASE k = n
  <2>1. SubSeq(q, 1, k) \o SubSeq(q, k + 1, Len(q)) = SubSeq(q, 1, Len(q))
    <3>1. 1 \in 1 .. Len(q) + 1 /\ k \in 1 - 1 .. Len(q) /\ Len(q) \in k .. Len(q)
      BY <1>1
    <3>. QED  BY <3>1, ConcatAdjacentSubSeq
  <2>. QED  BY <1>6, <2>1, <1>2, <1>3, <1>4, <1>5, RangeOfJoin
<1>7. CASE k = Len(q) /\ k < n
  <2>1. SubSeq(q, n + 1, Len(q)) = <<>>
    BY <1>7, <1>1, SubSeqEmpty
  <2>2. SubSeq(q, 1, k) \o <<>> = SubSeq(q, 1, k)
    BY <1>2, ConcatEmptySeq
  <2>. QED  BY <1>7, <2>1, <2>2, <1>2, <1>3, <1>4, <1>5, RangeOfNone
<1>. QED  BY <1>1, <1>6, <1>7

LEMMA EmptyIsLengthZero ==
  ASSUME NEW q \in Seq(Events)
  PROVE  Len(q) \in Nat /\ (Len(q) = 0 <=> q = <<>>)
BY EmptySeq

LEMMA RangeOfCons ==
  ASSUME NEW h \in Events, NEW t \in Seq(Events), NEW q, q = <<h>> \o t
  PROVE  Range(q) = {h} \cup Range(t)
<1>1. <<h>> \in Seq(Events) /\ Range(<<h>>) = {h}
  BY RangeOfOne
<1>2. Range(<<h>> \o t) = Range(<<h>>) \cup Range(t)
  BY <1>1, RangeOfJoin
<1>. QED  BY <1>1, <1>2

LEMMA RangeOfTail ==
  ASSUME NEW q \in Seq(Events), q # <<>>
  PROVE  /\ Head(q) \in Events /\ Tail(q) \in Seq(Events)
         /\ Range(q) = {Head(q)} \cup Range(Tail(q))
         /\ Len(q) > 1 \/ Len(q) = 1
         /\ Len(q) > 1 => Tail(q) # <<>>
         /\ Len(q) = 1 => Range(q) = {Head(q)} /\ Tail(q) = <<>>
<1>. DEFINE h == Head(q)
            t == Tail(q)
<1>1. h \in Events /\ t \in Seq(Events) /\ Len(t) = Len(q) - 1
  BY HeadTailProperties
<1>2. Len(q) \in Nat /\ Len(q) > 0 /\ h = q[1]
  OBVIOUS
<1>3. q = <<h>> \o t
  <2>1. SubSeq(q, 1, Len(q)) = <<q[1]>> \o SubSeq(q, 1 + 1, Len(q))
    BY <1>2, SubSeqRecursiveFirst
  <2>. QED  BY <2>1, <1>2, SubSeqFull, TailIsSubSeq
<1>. HIDE DEF h, t
<1>4. Range(q) = {h} \cup Range(t)
  BY <1>1, <1>3, RangeOfCons
<1>5. Len(q) = 1 => t = <<>>
  BY <1>1, <1>2, EmptyIsLengthZero
<1>6. Len(q) > 1 => t # <<>>
  BY <1>1, <1>2, EmptyIsLengthZero
<1>7. Len(q) = 1 => Range(q) = {h}
  BY <1>4, <1>5, RangeOfNone
<1>8. Len(q) > 1 \/ Len(q) = 1
  BY <1>2
<1>. QED  BY <1>1, <1>4, <1>6, <1>7, <1>8 DEF h, t

LEMMA TailOfJoin ==
  ASSUME NEW q \in Seq(Events), NEW r \in Seq(Events), q # <<>>
  PROVE  Tail(q \o r) = Tail(q) \o r /\ Head(q \o r) = Head(q)
<1>. DEFINE p == q \o r
<1>1. p \in Seq(Events) /\ Len(p) = Len(q) + Len(r) /\ Len(q) \in Nat /\ Len(r) \in Nat /\ Len(q) # 0
      /\ \A i \in 1 .. Len(p) : p[i] = IF i <= Len(q) THEN q[i] ELSE r[i - Len(q)]
  BY ConcatProperties, EmptySeq, LenProperties
<1>2. p # <<>>
  BY <1>1
<1>. HIDE DEF p
<1>3. /\ Tail(q) \in Seq(Events) /\ Len(Tail(q)) = Len(q) - 1
      /\ \A i \in 1 .. Len(q) - 1 : Tail(q)[i] = q[i + 1]
      /\ Tail(p) \in Seq(Events) /\ Len(Tail(p)) = Len(p) - 1
      /\ \A i \in 1 .. Len(p) - 1 : Tail(p)[i] = p[i + 1]
      /\ Head(p) = p[1] /\ Head(q) = q[1]
  BY <1>1, <1>2, HeadTailProperties
<1>. DEFINE t == Tail(q) \o r
<1>4. /\ t \in Seq(Events) /\ Len(t) = Len(Tail(q)) + Len(r)
      /\ \A i \in 1 .. Len(t) : t[i] = IF i <= Len(Tail(q)) THEN Tail(q)[i] ELSE r[i - Len(Tail(q))]
  BY <1>1, <1>3, ConcatProperties
<1>. HIDE DEF t
<1>5. Len(t) = Len(Tail(p))
  BY <1>1, <1>3, <1>4
<1>6. ASSUME NEW i \in 1 .. Len(t) PROVE t[i] = Tail(p)[i]
  <2>1. i \in Nat /\ i >= 1 /\ i <= Len(q) + Len(r) - 1
    BY <1>1, <1>3, <1>4
  <2>2. Tail(p)[i] = p[i + 1] /\ p[i + 1] = IF i + 1 <= Len(q) THEN q[i + 1] ELSE r[i + 1 - Len(q)]
    BY <1>1, <1>3, <2>1
  <2>3. CASE i + 1 <= Len(q)
    BY <1>1, <1>3, <1>4, <2>1, <2>2, <2>3
  <2>4. CASE i + 1 > Len(q)
    <3>1. i - Len(Tail(q)) = i + 1 - Len(q) /\ ~(i <= Len(Tail(q)))
      BY <1>1, <1>3, <2>1, <2>4
    <3>. QED  BY <1>1, <1>4, <2>1, <2>2, <2>4, <3>1
  <2>. QED  BY <1>1, <2>1, <2>3, <2>4
<1>7. t = Tail(p)
  BY <1>3, <1>4, <1>5, <1>6, SeqEqual
<1>8. Head(p) = Head(q)
  BY <1>1, <1>3
<1>. QED  BY <1>7, <1>8 DEF t, p

-----------------------------------------------------------------------------
(* A writer either has nothing or has events to settle. *)
JobsHoldEvents ==
  \A w \in Writers :
    job[w] = Idle \/ (job[w].step # "idle" /\ job[w].events # <<>>)

TInv == UsageTypeOK /\ JobsHoldEvents

LEMMA IdleIsJob == Idle \in Jobs /\ Idle.step = "idle" /\ Idle.events = <<>>
BY DEF Idle, Jobs

LEMMA BatchIsJob ==
  ASSUME NEW q \in Seq(Events), q # <<>>
  PROVE  /\ Batch(q) \in Jobs /\ Batch(q).step = "insert" /\ Batch(q).events # <<>>
         /\ [Batch(q) EXCEPT !.tries = 1] \in Jobs
         /\ [Batch(q) EXCEPT !.tries = 1].step = "insert"
         /\ [Batch(q) EXCEPT !.tries = 1].events = Batch(q).events
         /\ AfterBatch(q) \in Seq(Events)
         /\ Batch(q).events \o AfterBatch(q) = q
         /\ Range(q) = Range(Batch(q).events) \cup Range(AfterBatch(q))
<1>. DEFINE k == IF Len(q) < MaxBatch THEN Len(q) ELSE MaxBatch
<1>1. /\ SubSeq(q, 1, k) \in Seq(Events) /\ SubSeq(q, 1, k) # <<>>
      /\ SubSeq(q, MaxBatch + 1, Len(q)) \in Seq(Events)
      /\ SubSeq(q, 1, k) \o SubSeq(q, MaxBatch + 1, Len(q)) = q
      /\ Range(q) = Range(SubSeq(q, 1, k)) \cup Range(SubSeq(q, MaxBatch + 1, Len(q)))
  BY RangeOfPieces, UsageAssumption
<1>2. Batch(q).events = SubSeq(q, 1, k) /\ Batch(q).step = "insert" /\ Batch(q).tries \in Nat
  BY UsageAssumption DEF Batch
<1>. HIDE DEF k
<1>3. Batch(q) \in Jobs /\ [Batch(q) EXCEPT !.tries = 1] \in Jobs
  BY <1>1, <1>2 DEF Batch, Jobs, k
<1>4. /\ [Batch(q) EXCEPT !.tries = 1].step = "insert"
      /\ [Batch(q) EXCEPT !.tries = 1].events = Batch(q).events
  BY DEF Batch
<1>. QED  BY <1>1, <1>2, <1>3, <1>4 DEF AfterBatch

(* What a writer that has settled its events turns to. *)
Turned(w, j) ==
  /\ j \in Jobs
  /\ job' = [job EXCEPT ![w] = j]
  /\ j = Idle \/ (j.step \in {"insert", "claim", "rename"} /\ j.events # <<>>)
  /\ queue' \in Seq(Events)
  /\ UNCHANGED <<emitted, live, up, accepted>>
  /\ closing' # closing => w = "flush" /\ closing = "flushing" /\ closing' = "flushed"
                           /\ j = Idle /\ queue' = <<>>

LEMMA JobDoneTurns ==
  ASSUME TInv, NEW w \in Writers, job[w].step # "idle", JobDone(w)
  PROVE  \E j \in Jobs :
           /\ Turned(w, j) /\ j.step # "claim"
           /\ w # "replay" => Range(queue) = Range(queue') \cup Range(j.events)
           /\ w # "flush" => queue' = queue /\ Range(j.events) \subseteq Range(job[w].events)
           /\ w = "flush" => j.events \o queue' = queue
<1>. USE DEF TInv, UsageTypeOK
<1>0. UNCHANGED <<emitted, live, up, accepted>>
  BY DEF JobDone
<1>1. CASE w = "flush" /\ queue # <<>>
  <2>1. job' = [job EXCEPT ![w] = Batch(queue)] /\ queue' = AfterBatch(queue) /\ closing' = closing
    BY <1>1, UsageAssumption DEF JobDone
  <2>. QED  BY <1>0, <1>1, <2>1, BatchIsJob DEF Turned
<1>2. CASE w = "flush" /\ queue = <<>>
  <2>1. /\ job' = [job EXCEPT ![w] = Idle] /\ queue' = queue
        /\ closing' = IF closing = "flushing" THEN "flushed" ELSE closing
    BY <1>2, UsageAssumption DEF JobDone
  <2>. QED  BY <1>0, <1>2, <2>1, IdleIsJob, RangeOfNone, ConcatEmptySeq DEF Turned
<1>3. CASE w = "replay"
  <2>. DEFINE j == [job[w] EXCEPT !.step = "rename"]
  <2>1. job' = [job EXCEPT ![w] = j] /\ queue' = queue /\ closing' = closing
    BY <1>3, UsageAssumption DEF JobDone
  <2>2. j \in Jobs /\ j.step = "rename" /\ j.events # <<>> /\ j.events = job[w].events
    BY IdleIsJob DEF Jobs, JobsHoldEvents
  <2>. HIDE DEF j
  <2>. QED  BY <1>0, <1>3, <2>1, <2>2 DEF Turned
<1>4. CASE w \in DirectWriters
  <2>1. job' = [job EXCEPT ![w] = Idle] /\ queue' = queue /\ closing' = closing
    BY <1>4, UsageAssumption DEF JobDone
  <2>2. w # "flush" /\ w # "replay"
    BY <1>4, UsageAssumption
  <2>. QED  BY <1>0, <2>1, <2>2, IdleIsJob, RangeOfNone DEF Turned
<1>. QED  BY <1>1, <1>2, <1>3, <1>4 DEF Writers

LEMMA NextEventTurns ==
  ASSUME TInv, NEW w \in Writers, job[w].step # "idle", NextEvent(w)
  PROVE  \E j \in Jobs :
           /\ Turned(w, j)
           /\ j.step = "claim" => Range(j.events) \subseteq Range(job[w].events)
           /\ w # "replay" => Range(queue) \cup Range(job[w].events)
                                = {Head(job[w].events)} \cup Range(queue') \cup Range(j.events)
           /\ w # "flush" => queue' = queue /\ Range(j.events) \subseteq Range(job[w].events)
           /\ w = "flush" => j.events \o queue' = Tail(job[w].events \o queue)
<1>. DEFINE es == job[w].events
<1>. USE DEF TInv, UsageTypeOK
<1>0. es \in Seq(Events) /\ es # <<>> /\ job[w] \in Jobs
  BY IdleIsJob DEF JobsHoldEvents, Jobs
<1>1. CASE Len(es) > 1
  <2>1. job' = [job EXCEPT ![w].events = Tail(@), ![w].step = "claim"] /\ UNCHANGED bufferVars
    <3>1. Len(es) \in Nat
      BY <1>0, EmptyIsLengthZero
    <3>2. \A n \in Nat : n > 1 => n # 1
      OBVIOUS
    <3>3. Len(es) # 1
      BY ONLY <1>1, <3>1, <3>2, Zenon
    <3>. QED  BY <3>3, Zenon DEF NextEvent
  <2>. DEFINE j == [job[w] EXCEPT !.events = Tail(es), !.step = "claim"]
  <2>2. /\ Tail(es) \in Seq(Events) /\ Tail(es) # <<>>
        /\ Range(es) = {Head(es)} \cup Range(Tail(es))
    BY <1>0, <1>1, RangeOfTail
  <2>3. j \in Jobs /\ j.step = "claim" /\ j.events = Tail(es)
    BY <1>0, <2>2 DEF Jobs
  <2>4. job' = [job EXCEPT ![w] = j]
    BY <2>1
  <2>. HIDE DEF j
  <2>5. Turned(w, j)
    BY <2>1, <2>2, <2>3, <2>4 DEF Turned, bufferVars
  <2>. QED  BY <1>0, <2>1, <2>2, <2>3, <2>5, TailOfJoin DEF bufferVars
<1>2. CASE Len(es) = 1
  <2>1. JobDone(w)
    BY <1>2 DEF NextEvent
  <2>2. PICK j \in Jobs :
           /\ Turned(w, j) /\ j.step # "claim"
           /\ w # "replay" => Range(queue) = Range(queue') \cup Range(j.events)
           /\ w # "flush" => queue' = queue /\ Range(j.events) \subseteq Range(job[w].events)
           /\ w = "flush" => j.events \o queue' = queue
    BY <2>1, JobDoneTurns
  <2>3. Range(es) = {Head(es)} /\ Tail(es) = <<>>
    BY <1>0, <1>2, RangeOfTail
  <2>4. Tail(es \o queue) = <<>> \o queue
    BY <1>0, <2>3, TailOfJoin
  <2>5. Tail(es \o queue) = queue
    BY <2>4, ConcatEmptySeq
  <2>. QED  BY <2>2, <2>3, <2>5
<1>. QED  BY <1>0, <1>1, <1>2, RangeOfTail DEF NextEvent

-----------------------------------------------------------------------------
LEMMA TInit == Init => TInv
BY UsageAssumption, RangeOfNone, IdleIsJob DEF Init, TInv, UsageTypeOK, JobsHoldEvents

LEMMA EvIsEvent == \A s \in Sessions, k \in Types : Ev(s, k) \in Events
BY DEF Ev, Events

LEMMA SessionsOf ==
  ASSUME NEW E, E \subseteq Events
  PROVE  {e.session : e \in E} \subseteq Sessions
BY DEF Events

(* One writer's job replaced by a sound one. *)
LEMMA JobReplaced ==
  ASSUME TInv, NEW w \in Writers, NEW j \in Jobs, job' = [job EXCEPT ![w] = j],
         j = Idle \/ (j.step # "idle" /\ j.events # <<>>)
  PROVE  job' \in [Writers -> Jobs] /\ JobsHoldEvents'
BY DEF TInv, UsageTypeOK, JobsHoldEvents

LEMMA HeldJob ==
  ASSUME TInv, NEW w \in Writers, job[w].step # "idle"
  PROVE  /\ job[w] \in Jobs /\ job[w].events \in Seq(Events) /\ job[w].events # <<>>
         /\ Range(job[w].events) \subseteq Events
         /\ Head(job[w].events) \in Events
         /\ Head(job[w].events).session \in Sessions
<1>1. job[w] \in Jobs /\ job[w].events \in Seq(Events) /\ job[w].events # <<>>
  BY IdleIsJob DEF TInv, UsageTypeOK, JobsHoldEvents, Jobs
<1>2. Range(job[w].events) \subseteq Events
  BY <1>1, RangeOfSeq
<1>3. Head(job[w].events) \in Events
  BY <1>1, RangeOfTail
<1>. QED  BY <1>1, <1>2, <1>3 DEF Events

LEMMA TEmit ==
  ASSUME TInv, NEW s \in Sessions, NEW k \in Types, Emit(s, k), UNCHANGED script
  PROVE  TInv'
<1>. DEFINE e == Ev(s, k)
<1>. USE DEF TInv, UsageTypeOK
<1>0. e \in Events /\ e.session \in Sessions
  BY EvIsEvent DEF Ev
<1>1. /\ emitted' = emitted \cup {e}
      /\ UNCHANGED <<live, up, closing, lost, forgotten, storeVars, projection, faults>>
      /\ EmitAfterShutdown(e) \/ EmitSaturated(e) \/ EmitQueued(e)
  BY DEF Emit
<1>. HIDE DEF e
<1>2. CASE EmitAfterShutdown(e)
  BY <1>0, <1>1, <1>2 DEF EmitAfterShutdown, storeVars, projection, JobsHoldEvents
<1>3. CASE EmitSaturated(e)
  <2>1. accepted' \in SUBSET Events /\ detoured' \in SUBSET Sessions /\ queue' = queue
    BY <1>0, <1>3 DEF EmitSaturated
  <2>2. CASE job' = job
    BY <1>0, <1>1, <2>1, <2>2 DEF storeVars, projection, JobsHoldEvents
  <2>3. CASE job' # job
    <3>1. PICK w \in DirectWriters :
            job' = [job EXCEPT ![w] = [events |-> <<e>>, step |-> "insert", tries |-> 1]]
      BY <1>3, <2>3 DEF EmitSaturated
    <3>. DEFINE j == [events |-> <<e>>, step |-> "insert", tries |-> 1]
    <3>2. j \in Jobs /\ j.step # "idle" /\ j.events # <<>> /\ w \in Writers
      BY <1>0, RangeOfOne DEF Jobs, Writers
    <3>. HIDE DEF j
    <3>3. job' \in [Writers -> Jobs] /\ JobsHoldEvents'
      BY <3>1, <3>2, JobReplaced DEF j
    <3>. QED  BY <1>0, <1>1, <2>1, <3>3 DEF storeVars, projection
  <2>. QED  BY <2>2, <2>3
<1>4. CASE EmitQueued(e)
  <2>. DEFINE q == Append(queue, e)
  <2>1. q \in Seq(Events) /\ q # <<>>
    BY <1>0, RangeOfAppend
  <2>2. accepted' \in SUBSET Events /\ detoured' = detoured
    BY <1>0, <1>4 DEF EmitQueued
  <2>3. CASE job' = [job EXCEPT !["flush"] = Batch(q)] /\ queue' = AfterBatch(q)
    <3>1. queue' \in Seq(Events) /\ job' \in [Writers -> Jobs] /\ JobsHoldEvents'
      BY <2>1, <2>3, BatchIsJob, JobReplaced DEF Writers
    <3>. QED  BY <1>0, <1>1, <2>2, <3>1 DEF storeVars, projection
  <2>4. CASE job' = job /\ queue' = q
    BY <1>0, <1>1, <2>1, <2>2, <2>4 DEF storeVars, projection, JobsHoldEvents
  <2>. QED  BY <1>4, <2>3, <2>4 DEF EmitQueued
<1>. QED  BY <1>1, <1>2, <1>3, <1>4

LEMMA TTurned ==
  ASSUME TInv, NEW w \in Writers, NEW j \in Jobs, Turned(w, j)
  PROVE  /\ job' \in [Writers -> Jobs] /\ JobsHoldEvents'
         /\ queue' \in Seq(Events)
         /\ emitted' \in SUBSET Events /\ accepted' \in SUBSET Events
         /\ live' \in SUBSET Sessions /\ up' \in BOOLEAN
         /\ closing' \in {"open", "flushing", "flushed", "timedOut", "aside", "killed"}
<1>1. job' \in [Writers -> Jobs] /\ JobsHoldEvents'
  BY JobReplaced DEF Turned
<1>. QED  BY <1>1 DEF Turned, TInv, UsageTypeOK

ProjectionType ==
  /\ status \in [Sessions -> {"none", "queued", "running", "ended", "timedOut"}]
  /\ tokens \in [Sessions -> Nat] /\ propagated \in [Sessions -> Nat]
  /\ passedOn \in [Sessions -> Nat] /\ toolErrors \in [Sessions -> Nat]
  /\ tool \in [Sessions -> {"none", "running", "error", "aborted"}]

LEMMA TApplyOne ==
  ASSUME ProjectionType, NEW e \in Events, ApplyOne(e)
  PROVE  ProjectionType'
<1>. USE DEF ProjectionType
<1>0. e.session \in Sessions
  BY DEF Events
<1>1. CASE ApplyStarted(e.session)
  BY <1>0, <1>1 DEF ApplyStarted
<1>2. CASE ApplyRunning(e.session)
  BY <1>0, <1>2 DEF ApplyRunning
<1>3. CASE ApplyDelta(e.session)
  BY <1>0, <1>3 DEF ApplyDelta
<1>4. CASE ApplyToolStarted(e.session)
  BY <1>0, <1>4 DEF ApplyToolStarted
<1>5. CASE ApplyToolEnded(e.session)
  BY <1>0, <1>5 DEF ApplyToolEnded
<1>6. CASE ApplyEnded(e.session)
  BY <1>0, <1>6 DEF ApplyEnded
<1>. QED  BY <1>1, <1>2, <1>3, <1>4, <1>5, <1>6 DEF ApplyOne

LEMMA FollowUps ==
  ASSUME NEW e
  PROVE  /\ FollowUp(e) \in {"none", "count", "propagate"}
         /\ FollowUp(e) = "propagate" => e.type = "ended"
         /\ FollowUp(e) = "count" => e.type = "toolEnded"
BY DEF FollowUp

LEMMA TWriter ==
  ASSUME TInv, NEW w \in Writers, WriterStep(w), UNCHANGED script
  PROVE  TInv'
<1>0. job[w].step # "idle"
  BY DEF WriterStep, Insert, InsertFails, InsertSwallowed, Bury, Claim, ApplyFails, Apply, Count, Propagate
<1>. DEFINE es == job[w].events
            e == Head(es)
<1>1. /\ job[w] \in Jobs /\ es \in Seq(Events) /\ es # <<>> /\ Range(es) \subseteq Events
      /\ e \in Events /\ e.session \in Sessions
  BY <1>0, HeldJob
<1>. USE DEF TInv, UsageTypeOK
<1>2. CASE Insert(w)
  <2>. DEFINE j == [job[w] EXCEPT !.step = "claim"]
  <2>1. j \in Jobs /\ j.step # "idle" /\ j.events # <<>> /\ job' = [job EXCEPT ![w] = j]
    BY <1>1, <1>2 DEF Insert, Jobs
  <2>2. job' \in [Writers -> Jobs] /\ JobsHoldEvents'
    BY <2>1, JobReplaced
  <2>. QED  BY <1>1, <1>2, <2>2 DEF Insert, bufferVars, historyVars, projection
<1>3. CASE InsertFails(w)
  <2>. DEFINE again == [job[w] EXCEPT !.tries = @ - 1]
              buried == [job[w] EXCEPT !.step = "bury"]
  <2>0. job[w].tries \in Nat /\ job[w].step = "insert"
    BY <1>1, <1>3 DEF Jobs, InsertFails
  <2>1. \/ job' = [job EXCEPT ![w] = Idle]
        \/ job[w].tries > 1 /\ job' = [job EXCEPT ![w] = again]
        \/ job' = [job EXCEPT ![w] = buried]
    BY <1>3 DEF InsertFails
  <2>2. buried \in Jobs /\ buried.step # "idle" /\ buried.events # <<>>
    BY <1>1 DEF Jobs
  <2>2a. ASSUME job[w].tries > 1 PROVE again \in Jobs /\ again.step # "idle" /\ again.events # <<>>
    <3>1. job[w].tries - 1 \in Nat
      BY <2>0, <2>2a
    <3>2. again \in Jobs
      BY <1>1, <3>1 DEF Jobs
    <3>. QED  BY <1>1, <2>0, <3>2 DEF Jobs
  <2>. HIDE DEF again, buried
  <2>3. job' \in [Writers -> Jobs] /\ JobsHoldEvents'
    BY <2>1, <2>2, <2>2a, JobReplaced, IdleIsJob
  <2>4. store' \in SUBSET Events /\ faults' \in Nat
    BY <1>1, <1>3 DEF InsertFails, Fault
  <2>. QED  BY <1>3, <2>3, <2>4 DEF InsertFails, bufferVars, historyVars, projection
<1>9. CASE InsertSwallowed(w)
  <2>. DEFINE j == [job[w] EXCEPT !.step = "claim"]
  <2>1. j \in Jobs /\ j.step # "idle" /\ j.events # <<>> /\ job' = [job EXCEPT ![w] = j]
    BY <1>1, <1>9 DEF InsertSwallowed, Jobs
  <2>2. job' \in [Writers -> Jobs] /\ JobsHoldEvents'
    BY <2>1, JobReplaced
  <2>3. store' \in SUBSET Events /\ forgotten' \in SUBSET Events /\ faults' \in Nat
    BY <1>1, <1>9 DEF InsertSwallowed, Fault
  <2>. QED  BY <1>9, <2>2, <2>3 DEF InsertSwallowed, bufferVars, projection
<1>4. CASE Bury(w)
  <2>1. PICK j \in Jobs : Turned(w, j)
    BY <1>4, JobDoneTurns DEF Bury
  <2>2. deadLetter' \in Seq(Events) /\ lost' \in SUBSET Events
    BY <1>1, <1>4, RangeOfJoin DEF Bury
  <2>3. detoured' \in SUBSET Sessions
    BY <1>1, <1>4, SessionsOf DEF Bury
  <2>. QED  BY <1>4, <2>1, <2>2, <2>3, TTurned DEF Bury, projection
<1>5. CASE Claim(w)
  <2>1. CASE e \notin claimed
    <3>. DEFINE j == [job[w] EXCEPT !.step = "apply"]
    <3>1. /\ job' = [job EXCEPT ![w] = j] /\ claimed' \in SUBSET Events
          /\ UNCHANGED bufferVars
      BY <1>1, <1>5, <2>1 DEF Claim
    <3>2. j \in Jobs /\ j.step # "idle" /\ j.events # <<>>
      BY <1>1 DEF Jobs
    <3>3. job' \in [Writers -> Jobs] /\ JobsHoldEvents'
      BY <3>1, <3>2, JobReplaced
    <3>. QED  BY <1>5, <3>1, <3>3 DEF Claim, bufferVars, historyVars, projection
  <2>2. CASE e \in claimed
    <3>1. NextEvent(w) /\ claimed' = claimed
      BY <1>5, <2>2 DEF Claim
    <3>2. PICK j \in Jobs : Turned(w, j)
      BY <1>0, <3>1, NextEventTurns
    <3>. QED  BY <1>5, <3>1, <3>2, TTurned DEF Claim, historyVars, projection
  <2>. QED  BY <2>1, <2>2
<1>6. CASE ApplyFails(w)
  <2>1. NextEvent(w) /\ faults' \in Nat /\ detoured' \in SUBSET Sessions
    BY <1>1, <1>6 DEF ApplyFails, Fault
  <2>2. PICK j \in Jobs : Turned(w, j)
    BY <1>0, <2>1, NextEventTurns
  <2>. QED  BY <1>6, <2>1, <2>2, TTurned DEF ApplyFails, storeVars, projection
<1>7. CASE Apply(w)
  <2>1. ProjectionType'
    <3>1. ApplyOne(e)
      BY <1>7 DEF Apply
    <3>. QED  BY <1>1, <3>1, TApplyOne DEF ProjectionType
  <2>2. CASE FollowUp(e) # "none" /\ job' = [job EXCEPT ![w].step = FollowUp(e)] /\ UNCHANGED bufferVars
    <3>. DEFINE j == [job[w] EXCEPT !.step = FollowUp(e)]
    <3>0. FollowUp(e) \in {"count", "propagate"}
      BY <2>2, FollowUps
    <3>1. j \in Jobs /\ j.step # "idle" /\ j.events # <<>> /\ job' = [job EXCEPT ![w] = j]
      BY <1>1, <2>2, <3>0 DEF Jobs
    <3>2. job' \in [Writers -> Jobs] /\ JobsHoldEvents'
      BY <3>1, JobReplaced
    <3>. QED  BY <1>7, <2>1, <2>2, <3>2 DEF ProjectionType, Apply, bufferVars, historyVars, storeVars
  <2>3. CASE NextEvent(w)
    <3>1. PICK j \in Jobs : Turned(w, j)
      BY <1>0, <2>3, NextEventTurns
    <3>. QED  BY <1>7, <2>1, <3>1, TTurned DEF ProjectionType, Apply, historyVars, storeVars
  <2>. QED  BY <1>7, <2>2, <2>3 DEF Apply
<1>8. CASE Propagate(w)
  <2>1. NextEvent(w)
    BY <1>8 DEF Propagate
  <2>1a. /\ \E n \in Nat : propagated' = [propagated EXCEPT ![e.session] = n]
         /\ \E m \in Nat : passedOn' = [passedOn EXCEPT ![e.session] = m]
    <3>1. /\ propagated[e.session] \in Nat /\ propagated[e.session] + 1 \in Nat
          /\ passedOn[e.session] \in Nat /\ passedOn[e.session] + tokens[e.session] \in Nat
      <4>1. ProjectionType /\ e.session \in Sessions
        BY <1>1 DEF ProjectionType
      <4>. HIDE DEF e
      <4>2. propagated[e.session] \in Nat /\ passedOn[e.session] \in Nat /\ tokens[e.session] \in Nat
        BY ONLY <4>1 DEF ProjectionType
      <4>. QED  BY ONLY <4>2
    <3>. DEFINE found == status[Parent[e.session]] # "none"
    <3>2. /\ propagated' = [propagated EXCEPT ![e.session] =
                              IF found THEN propagated[e.session] + 1 ELSE propagated[e.session]]
          /\ passedOn' = [passedOn EXCEPT ![e.session] =
                              IF found THEN passedOn[e.session] + tokens[e.session] ELSE passedOn[e.session]]
      BY <1>8 DEF Propagate
    <3>. HIDE DEF found, e
    <3>. QED  BY <3>1, <3>2
  <2>1b. propagated' \in [Sessions -> Nat] /\ passedOn' \in [Sessions -> Nat]
    BY <2>1a
  <2>2. PICK j \in Jobs : Turned(w, j)
    BY <1>0, <2>1, NextEventTurns
  <2>. QED  BY <1>8, <2>1b, <2>2, TTurned DEF Propagate, historyVars, storeVars
<1>10. CASE Count(w)
  <2>1. NextEvent(w)
    BY <1>10 DEF Count
  <2>2. PICK j \in Jobs : Turned(w, j)
    BY <1>0, <2>1, NextEventTurns
  <2>3. toolErrors' \in [Sessions -> Nat]
    BY <1>1, <1>10 DEF Count
  <2>. QED  BY <1>10, <2>2, <2>3, TTurned DEF Count, historyVars, storeVars
<1>. QED  BY <1>2, <1>3, <1>4, <1>5, <1>6, <1>7, <1>8, <1>9, <1>10 DEF WriterStep

LEMMA TGone ==
  ASSUME TInv, ProcessGone
  PROVE  /\ emitted' \in SUBSET Events /\ live' \in SUBSET Sessions /\ up' \in BOOLEAN
         /\ detoured' \in SUBSET Sessions /\ queue' \in Seq(Events)
         /\ job' \in [Writers -> Jobs] /\ JobsHoldEvents'
         /\ UNCHANGED <<lost, forgotten, storeVars, projection>>
<1>. USE DEF TInv, UsageTypeOK
<1>1. job' \in [Writers -> Jobs] /\ JobsHoldEvents'
  BY IdleIsJob DEF ProcessGone, JobsHoldEvents
<1>2. {Head(job[w].events) : w \in {v \in Writers \ {"replay"} : job[v] # Idle}} \subseteq Events
  BY HeldJob DEF JobsHoldEvents
<1>3. detoured' \in SUBSET Sessions
  BY <1>2, SessionsOf DEF ProcessGone
<1>. QED  BY <1>1, <1>3, RangeOfNone DEF ProcessGone

LEMMA TStep == TInv /\ [Next]_vars => TInv'
<1>. SUFFICES ASSUME TInv, [Next]_vars PROVE TInv'
  OBVIOUS
<1>. USE DEF TInv, UsageTypeOK
<1>1. CASE UNCHANGED vars
  BY <1>1 DEF vars, bufferVars, historyVars, storeVars, projection, JobsHoldEvents
<1>2. CASE Next
  <2>0. script' = script
    BY <1>2 DEF Next
  <2>1. ASSUME NEW s \in Sessions, NEW k \in Types, Emit(s, k) PROVE TInv'
    BY <2>0, <2>1, TEmit
  <2>2. CASE FlushTimer
    <3>1. job' = [job EXCEPT !["flush"] = Batch(queue)] /\ queue' = AfterBatch(queue) /\ queue # <<>>
      BY <2>2 DEF FlushTimer
    <3>2. queue' \in Seq(Events) /\ job' \in [Writers -> Jobs] /\ JobsHoldEvents'
      BY <3>1, BatchIsJob, JobReplaced DEF Writers
    <3>. QED  BY <2>0, <2>2, <3>2 DEF FlushTimer, historyVars, storeVars, projection
  <2>3. ASSUME NEW w \in Writers, WriterStep(w) PROVE TInv'
    BY <2>0, <2>3, TWriter
  <2>4. CASE ReplayStarts
    <3>. DEFINE j == [events |-> deadLetter, step |-> "insert", tries |-> 1]
    <3>1. j \in Jobs /\ j.step # "idle" /\ j.events # <<>> /\ job' = [job EXCEPT !["replay"] = j]
      BY <2>4 DEF ReplayStarts, Jobs
    <3>2. job' \in [Writers -> Jobs] /\ JobsHoldEvents'
      BY <3>1, JobReplaced DEF Writers
    <3>. QED  BY <2>0, <2>4, <3>2 DEF ReplayStarts, bufferVars, historyVars, storeVars, projection
  <2>5. ASSUME NEW s \in Sessions, ReconcileSession(s) \/ ReconcileTool(s) PROVE TInv'
    BY <2>0, <2>5 DEF ReconcileSession, ReconcileTool, bufferVars, historyVars, storeVars, JobsHoldEvents
  <2>6. CASE BeginShutdown
    <3>1. CASE UNCHANGED <<job, queue>>
      BY <2>0, <2>6, <3>1 DEF BeginShutdown, historyVars, storeVars, projection, JobsHoldEvents
    <3>2. CASE ~UNCHANGED <<job, queue>>
      <4>. DEFINE j == [Batch(queue) EXCEPT !.tries = 1]
      <4>1. job' = [job EXCEPT !["flush"] = j] /\ queue' = AfterBatch(queue) /\ queue # <<>>
        BY <2>6, <3>2 DEF BeginShutdown
      <4>2. j \in Jobs /\ j.step # "idle" /\ j.events # <<>> /\ queue' \in Seq(Events)
        BY <4>1, BatchIsJob
      <4>. HIDE DEF j
      <4>3. job' \in [Writers -> Jobs] /\ JobsHoldEvents'
        BY <4>1, <4>2, JobReplaced DEF Writers
      <4>. QED  BY <2>0, <2>6, <4>2, <4>3 DEF BeginShutdown, historyVars, storeVars, projection
    <3>. QED  BY <3>1, <3>2
  <2>7. CASE ShutdownTimeout
    <3>1. Range(queue) \subseteq Events
      BY RangeOfSeq
    <3>2. deadLetter' \in Seq(Events) /\ lost' \in SUBSET Events /\ detoured' \in SUBSET Sessions
      BY <2>7, <3>1, RangeOfJoin, SessionsOf DEF ShutdownTimeout
    <3>. QED  BY <2>0, <2>7, <3>2, RangeOfNone DEF ShutdownTimeout, projection, JobsHoldEvents
  <2>8. CASE ProcessExit
    BY <2>0, <2>8, TGone DEF ProcessExit, storeVars, projection
  <2>9. CASE Crash
    BY <2>0, <2>9, TGone DEF Crash, Fault, storeVars, projection
  <2>10. CASE Restart
    BY <2>0, <2>10 DEF Restart, historyVars, storeVars, projection, JobsHoldEvents
  <2>11. CASE ReplayStops
    <3>1. job' \in [Writers -> Jobs] /\ JobsHoldEvents'
      BY <2>11, IdleIsJob, JobReplaced DEF ReplayStops, Writers
    <3>. QED  BY <2>0, <2>11, <3>1 DEF ReplayStops, bufferVars, historyVars, storeVars, projection
  <2>12. CASE ReplayRenames
    <3>1. job' \in [Writers -> Jobs] /\ JobsHoldEvents'
      BY <2>12, IdleIsJob, JobReplaced DEF ReplayRenames, Writers
    <3>2. deadLetter' \in Seq(Events) /\ processed' \in SUBSET Events /\ forgotten' \in SUBSET Events
      BY <2>12, RangeOfSeq, RangeOfNone DEF ReplayRenames
    <3>. QED  BY <2>0, <2>12, <3>1, <3>2 DEF ReplayRenames, bufferVars, historyVars, projection
  <2>. QED
    BY <1>2, <2>1, <2>2, <2>3, <2>4, <2>5, <2>6, <2>7, <2>8, <2>9, <2>10, <2>11, <2>12 DEF Next
<1>. QED  BY <1>1, <1>2

(* Type correctness. *)
THEOREM UsageTypeCorrect == Spec => []UsageTypeOK
<1>1. TInv => UsageTypeOK
  BY DEF TInv
<1>. QED  BY <1>1, TInit, TStep, PTL DEF Spec

-----------------------------------------------------------------------------
(* No session returns from a closed status: every update of the status names *)
(* the statuses it starts from.                                              *)
LEMMA StatusStep ==
  ASSUME UsageTypeOK, [Next]_vars, NEW s \in Sessions, status[s] \in {"ended", "timedOut"}
  PROVE  status'[s] = status[s]
<1>1. CASE status' = status
  BY <1>1
<1>2. ASSUME NEW w \in Writers, Apply(w) PROVE status'[s] = status[s]
  <2>1. status \in [Sessions -> {"none", "queued", "running", "ended", "timedOut"}]
    BY DEF UsageTypeOK
  <2>2. PICK e : ApplyOne(e)
    BY <1>2 DEF Apply
  <2>. QED
    BY <2>1, <2>2 DEF ApplyOne, ApplyStarted, ApplyRunning, ApplyDelta, ApplyToolStarted,
                      ApplyToolEnded, ApplyEnded, Matched
<1>3. ASSUME NEW t \in Sessions, ReconcileSession(t) PROVE status'[s] = status[s]
  BY <1>3 DEF ReconcileSession, UsageTypeOK
<1>4. CASE UNCHANGED vars
  BY <1>4, <1>1 DEF vars, projection
<1>5. CASE Next
  <2>1. ASSUME NEW w \in Writers, WriterStep(w) PROVE status'[s] = status[s]
    BY <2>1, <1>2, <1>1 DEF WriterStep, Insert, InsertFails, InsertSwallowed, Bury, Claim, ApplyFails, Count, Propagate, projection
  <2>. QED
    BY <1>1, <1>3, <1>5, <2>1 DEF Next, Emit, FlushTimer, ReplayStarts, ReplayRenames, ReplayStops,
                 ReconcileTool, BeginShutdown, ShutdownTimeout, ProcessExit, Crash, Restart, ProcessGone, projection
<1>. QED  BY <1>4, <1>5

(* A session closed by its turn or by the reconciler is never reopened. *)
THEOREM ClosedStays == Spec => ClosedForGood
<1>1. UsageTypeOK /\ [Next]_vars
        => [\A s \in Sessions : status[s] \in {"ended", "timedOut"} => status'[s] = status[s]]_vars
  BY StatusStep
<1>. QED  BY <1>1, UsageTypeCorrect, PTL DEF Spec, ClosedForGood

-----------------------------------------------------------------------------
(* Counting. An event is in the hands of at most one writer once it is       *)
(* claimed, and what it adds to a counter is added while it is in its hands. *)
Handling(w, e) == job[w].step \in {"apply", "count", "propagate"} /\ Head(job[w].events) = e
Settled(e) == e \in claimed /\ \A w \in Writers : ~Handling(w, e)
Counted(n, e) == n = 0 \/ (n = 1 /\ Settled(e))

OneHandler ==
  /\ \A w \in Writers, e \in Events : Handling(w, e) => e \in claimed
  /\ \A v, w \in Writers, e \in Events : Handling(v, e) /\ Handling(w, e) => v = w
  /\ \A w \in Writers : job[w].step = "propagate" => Head(job[w].events).type = "ended"
  /\ \A w \in Writers : job[w].step = "count" => Head(job[w].events).type = "toolEnded"

DeltaCounted(s) == Counted(tokens[s], Ev(s, "delta"))
ToolCounted(s) == Counted(toolErrors[s], Ev(s, "toolEnded"))
EndCounted(s) ==
  \/ propagated[s] = 0 /\ passedOn[s] = 0
  \/ propagated[s] = 1 /\ passedOn[s] <= tokens[s] /\ Settled(Ev(s, "ended"))

CountInv ==
  /\ TInv
  /\ OneHandler
  /\ \A s \in Sessions : DeltaCounted(s) /\ ToolCounted(s) /\ EndCounted(s)

(* A step that takes no event in hand. *)
HandsOff ==
  /\ claimed' = claimed
  /\ \A v \in Writers, e \in Events : Handling(v, e)' => Handling(v, e)
  /\ \A v \in Writers, k \in {"count", "propagate"} :
       job'[v].step = k => job[v].step = k /\ Head(job'[v].events) = Head(job[v].events)

LEMMA NewJobIsHandsOff ==
  ASSUME TInv, NEW w \in Writers, NEW j, job' = [job EXCEPT ![w] = j],
         j.step \notin {"apply", "count", "propagate"}, claimed' = claimed
  PROVE  HandsOff /\ \A e \in Events : ~Handling(w, e)'
BY DEF TInv, UsageTypeOK, HandsOff, Handling

LEMMA NextEventHands ==
  ASSUME TInv, NEW w \in Writers, job[w].step # "idle", NextEvent(w), claimed' = claimed
  PROVE  HandsOff /\ \A e \in Events : ~Handling(w, e)'
<1>1. PICK j \in Jobs : Turned(w, j)
  BY NextEventTurns
<1>2. job' = [job EXCEPT ![w] = j] /\ j.step \notin {"apply", "count", "propagate"}
  BY <1>1, IdleIsJob DEF Turned
<1>. QED  BY <1>2, NewJobIsHandsOff

LEMMA HandsOffKeeps ==
  ASSUME OneHandler, HandsOff
  PROVE  /\ OneHandler'
         /\ \A e \in Events : Settled(e) => Settled(e)'
<1>1. \A e \in Events : Settled(e) => Settled(e)'
  BY DEF Settled, HandsOff
<1>. QED  BY <1>1 DEF OneHandler, HandsOff

LEMMA SettledKeepsCounts ==
  ASSUME \A e \in Events : Settled(e) => Settled(e)', UNCHANGED projection,
         \A s \in Sessions : DeltaCounted(s) /\ ToolCounted(s) /\ EndCounted(s)
  PROVE  \A s \in Sessions : DeltaCounted(s)' /\ ToolCounted(s)' /\ EndCounted(s)'
BY EvIsEvent DEF DeltaCounted, ToolCounted, EndCounted, Counted, projection, Types

LEMMA HandsOffCounts ==
  ASSUME CountInv, TInv', HandsOff, UNCHANGED projection
  PROVE  CountInv'
BY HandsOffKeeps, SettledKeepsCounts DEF CountInv

LEMMA ClaimCounts ==
  ASSUME CountInv, NEW w \in Writers, Claim(w), UNCHANGED script
  PROVE  CountInv'
<1>. DEFINE e == Head(job[w].events)
<1>0. TInv' /\ UNCHANGED projection
  BY TWriter DEF CountInv, WriterStep, Claim
<1>1. job[w].step # "idle" /\ e \in Events
  BY HeldJob DEF CountInv, Claim
<1>2. CASE e \in claimed
  <2>1. NextEvent(w) /\ claimed' = claimed
    BY <1>2 DEF Claim
  <2>. QED  BY <1>0, <1>1, <2>1, NextEventHands, HandsOffCounts DEF CountInv
<1>3. CASE e \notin claimed
  <2>1. claimed' = claimed \cup {e} /\ job' = [job EXCEPT ![w].step = "apply"]
    BY <1>3 DEF Claim
  <2>2. job \in [Writers -> Jobs]
    BY DEF CountInv, TInv, UsageTypeOK
  <2>3. /\ \A v \in Writers : v # w => job'[v] = job[v]
        /\ job'[w].step = "apply" /\ Head(job'[w].events) = e
    BY <2>1, <2>2 DEF Jobs
  <2>. HIDE DEF e
  <2>4. \A v \in Writers, x \in Events : Handling(v, x)' => Handling(v, x) \/ (v = w /\ x = e)
    BY <2>3 DEF Handling
  <2>5. OneHandler'
    <3>1. \A v \in Writers, x \in Events : Handling(v, x)' => x \in claimed'
      BY <2>1, <2>4 DEF CountInv, OneHandler
    <3>2. ASSUME NEW u \in Writers, NEW v \in Writers, NEW x \in Events, Handling(u, x)', Handling(v, x)'
          PROVE u = v
      BY <1>3, <2>4, <3>2 DEF CountInv, OneHandler
    <3>3. /\ \A v \in Writers : job'[v].step = "propagate" => Head(job'[v].events).type = "ended"
          /\ \A v \in Writers : job'[v].step = "count" => Head(job'[v].events).type = "toolEnded"
      BY <2>3 DEF CountInv, OneHandler
    <3>. QED  BY <3>1, <3>2, <3>3 DEF OneHandler
  <2>6. \A x \in Events : Settled(x) => Settled(x)'
    BY <1>3, <2>1, <2>4 DEF Settled
  <2>. QED  BY <1>0, <2>5, <2>6, SettledKeepsCounts DEF CountInv
<1>. QED  BY <1>2, <1>3

(* The event in hand has not been counted; it has been once it is let go. *)
LEMMA HandledIsUncounted ==
  ASSUME CountInv, NEW w \in Writers, NEW e \in Events, Handling(w, e)
  PROVE  /\ e \in claimed /\ ~Settled(e)
         /\ \A v \in Writers : v # w => ~Handling(v, e)
BY DEF CountInv, OneHandler, Settled

LEMMA LetGo ==
  ASSUME CountInv, NEW w \in Writers, NEW e \in Events, Handling(w, e),
         HandsOff, ~Handling(w, e)'
  PROVE  Settled(e)'
<1>1. \A v \in Writers : ~Handling(v, e)'
  BY HandledIsUncounted DEF HandsOff
<1>. QED  BY <1>1, HandledIsUncounted DEF Settled, HandsOff

LEMMA EvOf ==
  ASSUME NEW e \in Events, NEW s \in Sessions, NEW k \in Types
  PROVE  Ev(s, k) = e <=> (e.session = s /\ e.type = k)
BY DEF Ev, Events

LEMMA ApplyCounts ==
  ASSUME CountInv, NEW w \in Writers, Apply(w), UNCHANGED script
  PROVE  CountInv'
<1>a. PICK e \in Events : e = Head(job[w].events)
  BY HeldJob DEF CountInv, Apply
<1>. DEFINE t == e.session
<1>0. TInv' /\ claimed' = claimed
  BY TWriter DEF CountInv, WriterStep, Apply, storeVars
<1>1. /\ job[w].step # "idle" /\ e \in Events /\ t \in Sessions /\ job \in [Writers -> Jobs]
      /\ Handling(w, e) /\ ApplyOne(e)
  BY <1>a, HeldJob DEF CountInv, Apply, TInv, UsageTypeOK, Handling
<1>2. ProjectionType /\ ProjectionType'
  BY <1>0 DEF CountInv, TInv, UsageTypeOK, ProjectionType
<1>3. CASE FollowUp(e) # "none" /\ job' = [job EXCEPT ![w].step = FollowUp(e)]
  <2>0. /\ FollowUp(e) \in {"count", "propagate"}
        /\ FollowUp(e) = "propagate" => e.type = "ended"
        /\ FollowUp(e) = "count" => e.type = "toolEnded"
    BY <1>3, FollowUps
  <2>1. UNCHANGED <<tokens, propagated, passedOn, toolErrors>>
    BY <1>1, <2>0 DEF ApplyOne, ApplyEnded, ApplyToolEnded
  <2>2. /\ \A v \in Writers : v # w => job'[v] = job[v]
        /\ job'[w].step = FollowUp(e) /\ Head(job'[w].events) = e
    BY <1>a, <1>1, <1>3 DEF Jobs
  <2>3. \A v \in Writers, x \in Events : Handling(v, x)' => Handling(v, x)
    BY <1>1, <2>2 DEF Handling
  <2>4. OneHandler'
    BY <1>0, <1>3, <2>0, <2>2, <2>3 DEF CountInv, OneHandler
  <2>5. \A x \in Events : Settled(x) => Settled(x)'
    BY <1>0, <2>3 DEF Settled
  <2>. QED
    BY <1>0, <2>1, <2>4, <2>5, EvIsEvent
    DEF CountInv, DeltaCounted, ToolCounted, EndCounted, Counted, Types
<1>4. CASE NextEvent(w)
  <2>1. HandsOff /\ ~Handling(w, e)'
    BY <1>0, <1>1, <1>4, NextEventHands DEF CountInv
  <2>2. OneHandler' /\ \A x \in Events : Settled(x) => Settled(x)'
    BY <2>1, HandsOffKeeps DEF CountInv
  <2>3. Settled(e)' /\ ~Settled(e)
    BY <1>1, <2>1, LetGo, HandledIsUncounted
  <2>. HIDE DEF t
  <2>4. UNCHANGED <<propagated, passedOn, toolErrors>>
    BY <1>1 DEF ApplyOne, ApplyStarted, ApplyRunning, ApplyDelta, ApplyToolStarted, ApplyToolEnded, ApplyEnded
  <2>5. \/ tokens' = tokens
        \/ e.type = "delta" /\ (tokens' = [tokens EXCEPT ![t] = @ + 1])
    BY <1>1, <1>2 DEF ApplyOne, ApplyStarted, ApplyRunning, ApplyDelta, ApplyToolStarted, ApplyToolEnded,
                      ApplyEnded, ProjectionType, t
  <2>7. ASSUME NEW s \in Sessions PROVE DeltaCounted(s)' /\ tokens[s] <= tokens'[s]
    <3>1. Ev(s, "delta") \in Events /\ DeltaCounted(s) /\ tokens[s] \in Nat
      BY <1>2, EvIsEvent DEF CountInv, Types, ProjectionType
    <3>2. CASE tokens'[s] = tokens[s]
      BY <2>2, <3>1, <3>2 DEF DeltaCounted, Counted
    <3>3. CASE tokens'[s] # tokens[s]
      <4>1. tokens'[s] = tokens[s] + 1 /\ Ev(s, "delta") = e
        BY <1>1, <1>2, <2>5, <3>3, EvOf DEF ProjectionType, Types, t
      <4>. QED  BY <2>3, <3>1, <4>1 DEF DeltaCounted, Counted
    <3>. QED  BY <3>2, <3>3
  <2>8. ASSUME NEW s \in Sessions PROVE ToolCounted(s)'
    BY <2>2, <2>4, EvIsEvent DEF CountInv, ToolCounted, Counted, Types
  <2>9. ASSUME NEW s \in Sessions PROVE EndCounted(s)'
    <3>1. /\ Ev(s, "ended") \in Events /\ EndCounted(s) /\ tokens[s] <= tokens'[s]
          /\ tokens[s] \in Nat /\ tokens'[s] \in Nat /\ passedOn[s] \in Nat
      BY <1>2, <2>7, EvIsEvent DEF CountInv, Types, ProjectionType
    <3>. QED  BY <2>2, <2>4, <3>1 DEF EndCounted
  <2>. QED  BY <1>0, <2>2, <2>7, <2>8, <2>9 DEF CountInv
<1>. QED  BY <1>a, <1>3, <1>4 DEF Apply

LEMMA PropagateCounts ==
  ASSUME CountInv, NEW w \in Writers, Propagate(w), UNCHANGED script
  PROVE  CountInv'
<1>a. PICK e \in Events : e = Head(job[w].events)
  BY HeldJob DEF CountInv, Propagate
<1>. DEFINE t == e.session
<1>0. TInv' /\ UNCHANGED <<claimed, tokens, toolErrors>>
  BY TWriter DEF CountInv, WriterStep, Propagate, storeVars
<1>1. /\ job[w].step # "idle" /\ e \in Events /\ t \in Sessions
      /\ Handling(w, e) /\ e.type = "ended" /\ NextEvent(w)
  <2>1. job[w].step = "propagate" /\ NextEvent(w)
    BY DEF Propagate
  <2>2. e.type = "ended"
    BY <1>a, <2>1 DEF CountInv, OneHandler
  <2>. QED  BY <1>a, <2>1, <2>2, HeldJob DEF CountInv, Handling
<1>2. ProjectionType
  BY DEF CountInv, TInv, UsageTypeOK, ProjectionType
<1>3. HandsOff /\ ~Handling(w, e)'
  BY <1>0, <1>1, NextEventHands DEF CountInv
<1>4. OneHandler' /\ \A x \in Events : Settled(x) => Settled(x)'
  BY <1>3, HandsOffKeeps DEF CountInv
<1>5. Settled(e)' /\ ~Settled(e)
  BY <1>1, <1>3, LetGo, HandledIsUncounted
<1>6. \/ propagated' = propagated /\ passedOn' = passedOn
      \/ /\ propagated' = [propagated EXCEPT ![t] = @ + 1]
         /\ passedOn' = [passedOn EXCEPT ![t] = @ + tokens[t]]
  BY <1>a, <1>1, <1>2 DEF Propagate, ProjectionType
<1>. HIDE DEF t
<1>7. ASSUME NEW s \in Sessions PROVE DeltaCounted(s)' /\ ToolCounted(s)'
  BY <1>0, <1>4, EvIsEvent DEF CountInv, DeltaCounted, ToolCounted, Counted, Types
<1>8. ASSUME NEW s \in Sessions PROVE EndCounted(s)'
  <2>1. Ev(s, "ended") \in Events /\ EndCounted(s) /\ tokens[s] \in Nat
    BY <1>2, EvIsEvent DEF CountInv, Types, ProjectionType
  <2>2. CASE propagated'[s] = propagated[s] /\ passedOn'[s] = passedOn[s]
    BY <1>0, <1>4, <2>1, <2>2 DEF EndCounted
  <2>3. CASE ~(propagated'[s] = propagated[s] /\ passedOn'[s] = passedOn[s])
    <3>1. /\ Ev(s, "ended") = e
          /\ propagated'[s] = propagated[s] + 1 /\ passedOn'[s] = passedOn[s] + tokens[s]
      BY <1>1, <1>2, <1>6, <2>3, EvOf DEF ProjectionType, Types, t
    <3>2. propagated[s] = 0 /\ passedOn[s] = 0
      BY <1>5, <2>1, <3>1 DEF EndCounted
    <3>. QED  BY <1>0, <1>5, <2>1, <3>1, <3>2 DEF EndCounted
  <2>. QED  BY <2>2, <2>3
<1>. QED  BY <1>0, <1>4, <1>7, <1>8 DEF CountInv

LEMMA CountCounts ==
  ASSUME CountInv, NEW w \in Writers, Count(w), UNCHANGED script
  PROVE  CountInv'
<1>a. PICK e \in Events : e = Head(job[w].events)
  BY HeldJob DEF CountInv, Count
<1>. DEFINE t == e.session
<1>0. TInv' /\ UNCHANGED <<claimed, tokens, propagated, passedOn>>
  BY TWriter DEF CountInv, WriterStep, Count, storeVars
<1>1. /\ job[w].step # "idle" /\ e \in Events /\ t \in Sessions
      /\ Handling(w, e) /\ e.type = "toolEnded" /\ NextEvent(w)
  <2>1. job[w].step = "count" /\ NextEvent(w)
    BY DEF Count
  <2>2. e.type = "toolEnded"
    BY <1>a, <2>1 DEF CountInv, OneHandler
  <2>. QED  BY <1>a, <2>1, <2>2, HeldJob DEF CountInv, Handling
<1>2. ProjectionType
  BY DEF CountInv, TInv, UsageTypeOK, ProjectionType
<1>3. HandsOff /\ ~Handling(w, e)'
  BY <1>0, <1>1, NextEventHands DEF CountInv
<1>4. OneHandler' /\ \A x \in Events : Settled(x) => Settled(x)'
  BY <1>3, HandsOffKeeps DEF CountInv
<1>5. Settled(e)' /\ ~Settled(e)
  BY <1>1, <1>3, LetGo, HandledIsUncounted
<1>6. toolErrors' = toolErrors \/ toolErrors' = [toolErrors EXCEPT ![t] = @ + 1]
  BY <1>a, <1>1, <1>2 DEF Count, ProjectionType
<1>. HIDE DEF t
<1>7. ASSUME NEW s \in Sessions PROVE DeltaCounted(s)' /\ EndCounted(s)'
  BY <1>0, <1>4, EvIsEvent DEF CountInv, DeltaCounted, EndCounted, Counted, Types
<1>8. ASSUME NEW s \in Sessions PROVE ToolCounted(s)'
  <2>1. Ev(s, "toolEnded") \in Events /\ ToolCounted(s) /\ toolErrors[s] \in Nat
    BY <1>2, EvIsEvent DEF CountInv, Types, ProjectionType
  <2>2. CASE toolErrors'[s] = toolErrors[s]
    BY <1>4, <2>1, <2>2 DEF ToolCounted, Counted
  <2>3. CASE toolErrors'[s] # toolErrors[s]
    <3>1. toolErrors'[s] = toolErrors[s] + 1 /\ Ev(s, "toolEnded") = e
      BY <1>1, <1>2, <1>6, <2>3, EvOf DEF ProjectionType, Types, t
    <3>. QED  BY <1>5, <2>1, <3>1 DEF ToolCounted, Counted
  <2>. QED  BY <2>2, <2>3
<1>. QED  BY <1>0, <1>4, <1>7, <1>8 DEF CountInv

(* Any other step of a writer, and what happens around the writers. *)
LEMMA OtherCounts ==
  ASSUME CountInv, [Next]_vars,
         \A w \in Writers : ~Claim(w) /\ ~Apply(w) /\ ~Count(w) /\ ~Propagate(w)
  PROVE  CountInv'
<1>. USE DEF CountInv
<1>0. TInv' /\ TInv
  BY TStep
<1>1. job \in [Writers -> Jobs]
  BY DEF TInv, UsageTypeOK
<1>2. CASE UNCHANGED <<job, claimed, projection>>
  <2>1. HandsOff
    BY <1>2 DEF HandsOff, Handling
  <2>. QED  BY <1>0, <1>2, <2>1, HandsOffCounts
<1>3. ASSUME NEW w \in Writers, NEW j, job' = [job EXCEPT ![w] = j],
             j.step \notin {"apply", "count", "propagate"}, UNCHANGED <<claimed, projection>>
      PROVE  CountInv'
  BY <1>0, <1>3, NewJobIsHandsOff, HandsOffCounts
<1>4. ASSUME NEW t \in Sessions, ReconcileSession(t) \/ ReconcileTool(t) PROVE CountInv'
  <2>1. UNCHANGED <<job, claimed, tokens, propagated, passedOn, toolErrors>>
    BY <1>4 DEF ReconcileSession, ReconcileTool, storeVars
  <2>2. HandsOff
    BY <2>1 DEF HandsOff, Handling
  <2>3. OneHandler' /\ \A x \in Events : Settled(x) => Settled(x)'
    BY <2>2, HandsOffKeeps
  <2>. QED
    BY <1>0, <2>1, <2>3, EvIsEvent DEF DeltaCounted, ToolCounted, EndCounted, Counted, Types
<1>5. CASE ProcessGone
  <2>1. job' = [w \in Writers |-> IF w = "replay" THEN job[w] ELSE Idle]
        /\ UNCHANGED <<claimed, projection>>
    BY <1>5 DEF ProcessGone, storeVars
  <2>2. HandsOff
    BY <2>1, IdleIsJob DEF HandsOff, Handling
  <2>. QED  BY <1>0, <2>1, <2>2, HandsOffCounts
<1>6. ASSUME NEW w \in Writers, WriterStep(w) PROVE CountInv'
  <2>1. job[w] \in Jobs /\ job[w].step # "idle"
    BY <1>1, <1>6 DEF WriterStep, Insert, InsertFails, InsertSwallowed, Bury, Claim, ApplyFails, Apply, Count, Propagate
  <2>2. CASE Insert(w) \/ InsertSwallowed(w)
    <3>. DEFINE j == [job[w] EXCEPT !.step = "claim"]
    <3>1. job' = [job EXCEPT ![w] = j] /\ j.step = "claim" /\ UNCHANGED <<claimed, projection>>
      BY <2>1, <2>2 DEF Insert, InsertSwallowed, Jobs
    <3>. QED  BY <3>1, <1>3
  <2>3. CASE InsertFails(w)
    <3>1. PICK j : job' = [job EXCEPT ![w] = j] /\ j.step \in {"idle", "insert", "bury"}
      <4>. DEFINE again == [job[w] EXCEPT !.tries = @ - 1]
                  buried == [job[w] EXCEPT !.step = "bury"]
      <4>1. again.step = "insert" /\ buried.step = "bury"
        BY <2>1, <2>3 DEF InsertFails, Jobs
      <4>2. job' = [job EXCEPT ![w] = Idle] \/ job' = [job EXCEPT ![w] = again]
              \/ job' = [job EXCEPT ![w] = buried]
        BY <2>3 DEF InsertFails
      <4>. HIDE DEF again, buried
      <4>. QED  BY <4>1, <4>2, IdleIsJob
    <3>2. UNCHANGED <<claimed, projection>>
      BY <2>3 DEF InsertFails
    <3>. QED  BY <3>1, <3>2, <1>3
  <2>4. CASE Bury(w)
    <3>1. PICK j \in Jobs : Turned(w, j)
      BY <1>0, <2>4, JobDoneTurns DEF Bury
    <3>2. job' = [job EXCEPT ![w] = j] /\ j.step \notin {"apply", "count", "propagate"}
      BY <3>1, IdleIsJob DEF Turned
    <3>. QED  BY <2>4, <3>2, <1>3 DEF Bury, projection
  <2>5. CASE ApplyFails(w)
    <3>1. HandsOff /\ UNCHANGED projection
      BY <1>0, <2>1, <2>5, NextEventHands DEF ApplyFails, storeVars
    <3>. QED  BY <1>0, <3>1, HandsOffCounts
  <2>. QED  BY <1>6, <2>2, <2>3, <2>4, <2>5 DEF WriterStep
<1>7. ASSUME NEW s \in Sessions, NEW k \in Types, Emit(s, k) PROVE CountInv'
  <2>1. UNCHANGED <<claimed, projection>>
    BY <1>7 DEF Emit, storeVars
  <2>2. CASE job' = job
    BY <1>2, <2>1, <2>2
  <2>3. CASE job' # job
    <3>1. PICK w \in Writers : \E j : job' = [job EXCEPT ![w] = j] /\ j.step = "insert"
      <4>. DEFINE q == Append(queue, Ev(s, k))
                  direct == [events |-> <<Ev(s, k)>>, step |-> "insert", tries |-> 1]
      <4>1. Batch(q).step = "insert" /\ direct.step = "insert"
        BY DEF Batch
      <4>2. \/ job' = [job EXCEPT !["flush"] = Batch(q)]
            \/ \E w \in DirectWriters : job' = [job EXCEPT ![w] = direct]
        BY <1>7, <2>3 DEF Emit, EmitAfterShutdown, EmitSaturated, EmitQueued
      <4>. HIDE DEF q, direct
      <4>. QED  BY <4>1, <4>2 DEF Writers
    <3>. QED  BY <2>1, <3>1, <1>3
  <2>. QED  BY <2>2, <2>3
<1>8. CASE FlushTimer \/ ReplayStarts \/ BeginShutdown
  <2>1. UNCHANGED <<claimed, projection>>
    BY <1>8 DEF FlushTimer, ReplayStarts, BeginShutdown, storeVars
  <2>2. CASE job' = job
    BY <1>2, <2>1, <2>2
  <2>3. CASE job' # job
    <3>1. PICK w \in Writers : \E j : job' = [job EXCEPT ![w] = j] /\ j.step = "insert"
      <4>. DEFINE last == [Batch(queue) EXCEPT !.tries = 1]
                  replay == [events |-> deadLetter, step |-> "insert", tries |-> 1]
      <4>1. Batch(queue).step = "insert" /\ last.step = "insert" /\ replay.step = "insert"
        BY DEF Batch
      <4>2. \/ job' = [job EXCEPT !["flush"] = Batch(queue)]
            \/ job' = [job EXCEPT !["flush"] = last]
            \/ job' = [job EXCEPT !["replay"] = replay]
        BY <1>8, <2>3 DEF FlushTimer, ReplayStarts, BeginShutdown
      <4>. HIDE DEF last, replay
      <4>. QED  BY <4>1, <4>2 DEF Writers
    <3>. QED  BY <2>1, <3>1, <1>3
  <2>. QED  BY <2>2, <2>3
<1>9. CASE ShutdownTimeout \/ Restart
  BY <1>2, <1>9 DEF ShutdownTimeout, Restart, storeVars
<1>10. CASE UNCHANGED vars
  BY <1>2, <1>10 DEF vars, storeVars
<1>11. CASE ReplayStops \/ ReplayRenames
  BY <1>11, <1>3, IdleIsJob DEF ReplayStops, ReplayRenames, storeVars, Writers
<1>. QED
  BY <1>4, <1>5, <1>6, <1>7, <1>8, <1>9, <1>10, <1>11 DEF Next, ProcessExit, Crash

LEMMA CountStep == CountInv /\ [Next]_vars => CountInv'
<1>. SUFFICES ASSUME CountInv, [Next]_vars PROVE CountInv'
  OBVIOUS
<1>1. ASSUME NEW w \in Writers, Claim(w) \/ Apply(w) \/ Count(w) \/ Propagate(w) PROVE script' = script
  BY <1>1 DEF Next, vars, Claim, Apply, Count, Propagate
<1>. QED  BY <1>1, OtherCounts, ClaimCounts, ApplyCounts, CountCounts, PropagateCounts

LEMMA CountInit == Init => CountInv
BY TInit, IdleIsJob DEF Init, CountInv, OneHandler, Handling, DeltaCounted, ToolCounted, EndCounted, Counted

LEMMA CountInvSuffices == CountInv => CountedOnce
<1>. SUFFICES ASSUME CountInv, NEW s \in Sessions
              PROVE  /\ tokens[s] <= 1 /\ toolErrors[s] <= 1 /\ propagated[s] <= 1
                     /\ passedOn[s] <= tokens[s]
  BY DEF CountedOnce
<1>1. tokens[s] \in Nat /\ toolErrors[s] \in Nat /\ propagated[s] \in Nat /\ passedOn[s] \in Nat
  BY DEF CountInv, TInv, UsageTypeOK
<1>. QED  BY <1>1 DEF CountInv, DeltaCounted, ToolCounted, EndCounted, Counted

(* Exactly once, however often an event is inserted, replayed or cut off. *)
THEOREM EachIsCountedOnce == Spec => []CountedOnce
<1>. QED  BY CountInit, CountStep, CountInvSuffices, PTL DEF Spec

-----------------------------------------------------------------------------
(* Durability. Events past the insertion are on record, or fell with it into *)
(* one of the two holes, whatever happens next.                              *)
StoredInv ==
  \A w \in Writers :
    job[w].step \in {"claim", "apply", "count", "propagate"} =>
      Range(job[w].events) \subseteq Durable \cup lost \cup forgotten

Sinks == InHand \cup Durable \cup lost \cup forgotten
KeepInv == TInv /\ StoredInv /\ NothingVanishes

LEMMA InHandIs ==
  ASSUME NEW e
  PROVE  /\ e \in InHand <=> \/ e \in Range(queue)
                             \/ \E v \in Writers \ {"replay"} : e \in Range(job[v].events)
         /\ e \in InHand' <=> \/ e \in Range(queue')
                              \/ \E v \in Writers \ {"replay"} : e \in Range(job'[v].events)
BY DEF InHand

LEMMA StillStored ==
  ASSUME TInv, StoredInv, NEW w \in Writers, NEW j, job' = [job EXCEPT ![w] = j],
         Durable \cup lost \cup forgotten \subseteq Durable' \cup lost' \cup forgotten',
         j.step \in {"claim", "apply", "count", "propagate"} => Range(j.events) \subseteq Durable' \cup lost' \cup forgotten'
  PROVE  StoredInv'
BY DEF TInv, UsageTypeOK, StoredInv

(* One writer's job is replaced: what it and the queue held has gone somewhere. *)
LEMMA StillHeld ==
  ASSUME TInv, NEW w \in Writers, NEW j, job' = [job EXCEPT ![w] = j],
         Durable \cup lost \cup forgotten \subseteq Durable' \cup lost' \cup forgotten',
         \A e \in Range(queue) \cup (IF w = "replay" THEN {} ELSE Range(job[w].events)) :
            e \in Range(queue') \cup (IF w = "replay" THEN {} ELSE Range(j.events))
                    \cup Durable' \cup lost' \cup forgotten'
  PROVE  Sinks \subseteq Sinks'
<1>. SUFFICES ASSUME NEW e \in InHand PROVE e \in Sinks'
  BY DEF Sinks
<1>0. /\ \A v \in Writers : v # w => job'[v] = job[v]
      /\ job'[w] = j
  BY DEF TInv, UsageTypeOK
<1>1. CASE e \in Range(queue) \cup (IF w = "replay" THEN {} ELSE Range(job[w].events))
  <2>1. CASE e \in Durable' \cup lost' \cup forgotten'
    BY <2>1 DEF Sinks
  <2>2. CASE e \in Range(queue')
    BY <2>2, InHandIs DEF Sinks
  <2>3. CASE w # "replay" /\ e \in Range(j.events)
    BY <1>0, <2>3, InHandIs DEF Sinks
  <2>. QED  BY <1>1, <2>1, <2>2, <2>3
<1>2. ASSUME NEW v \in Writers \ {"replay"}, v # w, e \in Range(job[v].events) PROVE e \in Sinks'
  BY <1>0, <1>2, InHandIs DEF Sinks
<1>. QED  BY <1>1, <1>2, InHandIs

LEMMA SinksKeep ==
  ASSUME KeepInv, TInv', StoredInv', Sinks \subseteq Sinks',
         UNCHANGED accepted, up' => up
  PROVE  KeepInv'
BY DEF KeepInv, NothingVanishes, Sinks

(* The writer has settled its events: they are in Mongo or in the dead letters. *)
LEMMA NextEventKeeps ==
  ASSUME KeepInv, NEW w \in Writers, job[w].step \in {"claim", "apply", "count", "propagate"},
         NextEvent(w), UNCHANGED <<storeVars, lost, forgotten>>, TInv'
  PROVE  KeepInv'
<1>. USE DEF KeepInv
<1>1. PICK j \in Jobs :
        /\ Turned(w, j)
        /\ j.step = "claim" => Range(j.events) \subseteq Range(job[w].events)
        /\ w # "replay" => Range(queue) \cup Range(job[w].events)
                             = {Head(job[w].events)} \cup Range(queue') \cup Range(j.events)
        /\ w # "flush" => queue' = queue
  BY NextEventTurns
<1>2. /\ job' = [job EXCEPT ![w] = j] /\ j.step \notin {"apply", "count", "propagate"}
      /\ UNCHANGED <<accepted, up>>
  BY <1>1, IdleIsJob DEF Turned
<1>3. Range(job[w].events) \subseteq Durable \cup lost \cup forgotten /\ Head(job[w].events) \in Range(job[w].events)
  BY RangeOfTail, HeldJob DEF StoredInv
<1>5. Durable' = Durable /\ UNCHANGED <<lost, forgotten>>
  BY <1>1 DEF Durable, storeVars
<1>4. StoredInv'
  BY <1>1, <1>2, <1>3, <1>5, StillStored
<1>6. \A e \in Range(queue) \cup (IF w = "replay" THEN {} ELSE Range(job[w].events)) :
         e \in Range(queue') \cup (IF w = "replay" THEN {} ELSE Range(j.events))
                 \cup Durable' \cup lost' \cup forgotten'
  <2>1. CASE w = "replay"
    <3>1. queue' = queue
      BY <1>1, <2>1
    <3>. QED  BY <2>1, <3>1
  <2>2. CASE w # "replay"
    BY <1>1, <1>3, <1>5, <2>2
  <2>. QED  BY <2>1, <2>2
<1>7. Sinks \subseteq Sinks'
  BY <1>2, <1>5, <1>6, StillHeld
<1>. QED  BY <1>2, <1>4, <1>7, SinksKeep

LEMMA BuryKeeps ==
  ASSUME KeepInv, NEW w \in Writers, Bury(w), TInv'
  PROVE  KeepInv'
<1>. USE DEF KeepInv
<1>1. PICK j \in Jobs :
        /\ Turned(w, j) /\ j.step # "claim"
        /\ w # "replay" => Range(queue) = Range(queue') \cup Range(j.events)
        /\ w # "flush" => queue' = queue
  BY JobDoneTurns DEF Bury
<1>2. /\ job' = [job EXCEPT ![w] = j] /\ j.step \notin {"claim", "apply", "count", "propagate"}
      /\ UNCHANGED <<accepted, up>>
  BY <1>1, IdleIsJob DEF Turned
<1>4. job[w].events \in Seq(Events) /\ deadLetter \in Seq(Events)
  BY HeldJob DEF Bury, TInv, UsageTypeOK
<1>5. /\ Durable \cup lost \cup forgotten \subseteq Durable' \cup lost' \cup forgotten'
      /\ Range(job[w].events) \subseteq Durable' \cup lost' \cup forgotten'
  <2>1. UNCHANGED <<store, processed, forgotten>>
    BY DEF Bury
  <2>2. CASE deadLetter' = deadLetter \o job[w].events /\ lost' = lost
    <3>1. Range(deadLetter') = Range(deadLetter) \cup Range(job[w].events)
      BY <1>4, <2>2, RangeOfJoin
    <3>. QED  BY <2>1, <2>2, <3>1 DEF Durable
  <2>3. CASE lost' = lost \cup Range(job[w].events) /\ deadLetter' = deadLetter
    BY <2>1, <2>3 DEF Durable
  <2>. QED  BY <2>2, <2>3 DEF Bury
<1>3. StoredInv'
  BY <1>2, <1>5, StillStored
<1>6. \A e \in Range(queue) \cup (IF w = "replay" THEN {} ELSE Range(job[w].events)) :
         e \in Range(queue') \cup (IF w = "replay" THEN {} ELSE Range(j.events))
                 \cup Durable' \cup lost' \cup forgotten'
  <2>1. CASE w = "replay"
    <3>1. queue' = queue
      BY <1>1, <2>1
    <3>. QED  BY <2>1, <3>1
  <2>2. CASE w # "replay"
    BY <1>1, <1>5, <2>2
  <2>. QED  BY <2>1, <2>2
<1>7. Sinks \subseteq Sinks'
  BY <1>2, <1>5, <1>6, StillHeld
<1>. QED  BY <1>2, <1>3, <1>7, SinksKeep

LEMMA InsertKeeps ==
  ASSUME KeepInv, NEW w \in Writers, Insert(w) \/ InsertFails(w) \/ InsertSwallowed(w), TInv'
  PROVE  KeepInv'
<1>. USE DEF KeepInv
<1>0. /\ job[w] \in Jobs /\ job[w].step = "insert"
      /\ UNCHANGED <<bufferVars, deadLetter, processed, lost>> /\ forgotten \subseteq forgotten'
  BY DEF TInv, UsageTypeOK, Insert, InsertFails, InsertSwallowed, historyVars
<1>1. store \subseteq store' /\ Durable \cup lost \cup forgotten \subseteq Durable' \cup lost' \cup forgotten'
  BY <1>0 DEF Insert, InsertFails, InsertSwallowed, Durable
<1>. DEFINE done == [job[w] EXCEPT !.step = "claim"]
            again == [job[w] EXCEPT !.tries = @ - 1]
            buried == [job[w] EXCEPT !.step = "bury"]
<1>2. /\ done.step = "claim" /\ done.events = job[w].events
      /\ again.step = "insert" /\ again.events = job[w].events
      /\ buried.step = "bury" /\ buried.events = job[w].events
  BY <1>0 DEF Jobs
<1>3. PICK j :
        /\ job' = [job EXCEPT ![w] = j]
        /\ \/ j.step \in {"insert", "bury"} /\ j.events = job[w].events
           \/ j.step = "claim" /\ j.events = job[w].events /\ Range(j.events) \subseteq Durable' \cup lost' \cup forgotten'
           \/ j = Idle /\ w = "replay"
  <2>1. \/ job' = [job EXCEPT ![w] = done] /\ Range(job[w].events) \subseteq Durable' \cup lost' \cup forgotten'
        \/ job' = [job EXCEPT ![w] = again]
        \/ job' = [job EXCEPT ![w] = buried]
        \/ job' = [job EXCEPT ![w] = Idle] /\ w = "replay"
    <3>1. CASE Insert(w)
      BY <3>1 DEF Insert, Durable
    <3>2. CASE InsertFails(w)
      BY <3>2 DEF InsertFails
    <3>3. CASE InsertSwallowed(w)
      <4>1. /\ job' = [job EXCEPT ![w] = done] /\ deadLetter' = deadLetter
            /\ Range(job[w].events) \subseteq forgotten' \cup store' \cup Range(deadLetter)
        BY <3>3 DEF InsertSwallowed
      <4>. QED  BY <4>1 DEF Durable
    <3>. QED  BY <3>1, <3>2, <3>3
  <2>. HIDE DEF done, again, buried
  <2>. QED  BY <1>2, <2>1
<1>4. StoredInv'
  BY <1>1, <1>3, IdleIsJob, StillStored
<1>5. Sinks \subseteq Sinks'
  BY <1>0, <1>1, <1>3, StillHeld DEF bufferVars
<1>. QED  BY <1>0, <1>4, <1>5, SinksKeep DEF bufferVars

LEMMA WriterKeeps ==
  ASSUME KeepInv, NEW w \in Writers, WriterStep(w), TInv'
  PROVE  KeepInv'
<1>1. CASE Claim(w)
  <2>1. CASE Head(job[w].events) \in claimed
    BY <1>1, <2>1, NextEventKeeps DEF Claim, historyVars, storeVars
  <2>2. CASE Head(job[w].events) \notin claimed
    <3>. DEFINE j == [job[w] EXCEPT !.step = "apply"]
    <3>1. /\ job' = [job EXCEPT ![w] = j] /\ job[w] \in Jobs /\ job[w].step = "claim"
          /\ UNCHANGED <<bufferVars, historyVars, store, deadLetter, processed>>
      BY <1>1, <2>2 DEF Claim, KeepInv, TInv, UsageTypeOK
    <3>2. j.step = "apply" /\ j.events = job[w].events
      BY <3>1 DEF Jobs
    <3>. HIDE DEF j
    <3>3. StoredInv'
      <4>1. Durable' = Durable /\ UNCHANGED <<lost, forgotten>>
        BY <3>1 DEF Durable, historyVars
      <4>. QED  BY <3>1, <3>2, <4>1, StillStored DEF KeepInv, StoredInv
    <3>4. Sinks \subseteq Sinks'
      BY <3>1, <3>2, StillHeld DEF KeepInv, Durable, bufferVars, historyVars
    <3>. QED  BY <3>1, <3>3, <3>4, SinksKeep DEF bufferVars
  <2>. QED  BY <2>1, <2>2
<1>2. CASE Apply(w)
  <2>1. CASE NextEvent(w)
    BY <1>2, <2>1, NextEventKeeps DEF Apply, historyVars
  <2>2. CASE ~NextEvent(w)
    <3>. DEFINE j == [job[w] EXCEPT !.step = FollowUp(Head(job[w].events))]
    <3>1. /\ job' = [job EXCEPT ![w] = j] /\ job[w] \in Jobs /\ job[w].step = "apply"
          /\ UNCHANGED <<bufferVars, historyVars, store, deadLetter, processed>>
      BY <1>2, <2>2 DEF Apply, KeepInv, TInv, UsageTypeOK, storeVars
    <3>2. j.events = job[w].events
      BY <3>1 DEF Jobs
    <3>. HIDE DEF j
    <3>3. StoredInv'
      <4>1. Durable' = Durable /\ UNCHANGED <<lost, forgotten>>
        BY <3>1 DEF Durable, historyVars
      <4>. QED  BY <3>1, <3>2, <4>1, StillStored DEF KeepInv, StoredInv
    <3>4. Sinks \subseteq Sinks'
      BY <3>1, <3>2, StillHeld DEF KeepInv, Durable, bufferVars, historyVars
    <3>. QED  BY <3>1, <3>3, <3>4, SinksKeep DEF bufferVars
  <2>. QED  BY <2>1, <2>2
<1>3. CASE ApplyFails(w)
  BY <1>3, NextEventKeeps DEF ApplyFails
<1>4. CASE Count(w) \/ Propagate(w)
  BY <1>4, NextEventKeeps DEF Count, Propagate, historyVars
<1>. QED  BY <1>1, <1>2, <1>3, <1>4, InsertKeeps, BuryKeeps DEF WriterStep

(* A step of the buffer: the queue and one job share what the queue held. *)
LEMMA BufferKeeps ==
  ASSUME KeepInv, TInv', NEW w \in Writers, NEW j, job' = [job EXCEPT ![w] = j], j.step = "insert",
         job[w] = Idle, UNCHANGED <<storeVars, lost, forgotten, up>>,
         w # "replay" => Range(queue) \cup (accepted' \ accepted) \subseteq Range(queue') \cup Range(j.events),
         w = "replay" => UNCHANGED <<queue, accepted>>
  PROVE  KeepInv'
<1>. USE DEF KeepInv
<1>2. Range(job[w].events) = {}
  BY IdleIsJob, RangeOfNone
<1>3. Durable' = Durable
  BY DEF Durable, storeVars
<1>1. StoredInv'
  BY <1>3, StillStored
<1>4. Sinks \subseteq Sinks'
  BY <1>2, <1>3, StillHeld
<1>5. accepted' \ accepted \subseteq Sinks'
  <2>1. CASE w = "replay"
    BY <2>1
  <2>2. CASE w # "replay"
    <3>1. job'[w] = j
      BY DEF TInv, UsageTypeOK
    <3>. QED  BY <2>2, <3>1, InHandIs DEF Sinks
  <2>. QED  BY <2>1, <2>2
<1>. QED  BY <1>1, <1>4, <1>5 DEF NothingVanishes, Sinks

LEMMA SameJobsKeep ==
  ASSUME KeepInv, TInv', UNCHANGED <<job, up>>, Range(queue) \subseteq Sinks',
         Durable \cup lost \cup forgotten \subseteq Durable' \cup lost' \cup forgotten', accepted' \ accepted \subseteq Sinks'
  PROVE  KeepInv'
<1>. USE DEF KeepInv
<1>1. StoredInv'
  BY DEF StoredInv
<1>2. Sinks \subseteq Sinks'
  BY InHandIs DEF Sinks
<1>. QED  BY <1>1, <1>2 DEF NothingVanishes, Sinks

LEMMA EmitKeeps ==
  ASSUME KeepInv, TInv', NEW s \in Sessions, NEW k \in Types, Emit(s, k)
  PROVE  KeepInv'
<1>. DEFINE e == Ev(s, k)
            q == Append(queue, e)
            direct == [events |-> <<e>>, step |-> "insert", tries |-> 1]
<1>0. UNCHANGED <<storeVars, lost, forgotten, up>> /\ e \in Events /\ queue \in Seq(Events)
  BY EvIsEvent DEF Emit, KeepInv, TInv, UsageTypeOK
<1>1. Durable' = Durable /\ store' = store
  BY <1>0 DEF Durable, storeVars
<1>2. CASE UNCHANGED <<job, queue, accepted>>
  BY <1>0, <1>1, <1>2, SameJobsKeep, InHandIs DEF Sinks
<1>3. ASSUME NEW w \in DirectWriters, job[w] = Idle, job' = [job EXCEPT ![w] = direct],
             accepted' = accepted \cup {e}, queue' = queue
      PROVE  KeepInv'
  <2>1. direct.step = "insert" /\ Range(direct.events) = {e}
    BY <1>0, RangeOfOne
  <2>2. w \in Writers /\ w # "replay"
    BY UsageAssumption DEF Writers
  <2>. HIDE DEF direct, e
  <2>. QED  BY <1>0, <1>3, <2>1, <2>2, BufferKeeps
<1>4. CASE /\ job["flush"] = Idle /\ job' = [job EXCEPT !["flush"] = Batch(q)] /\ queue' = AfterBatch(q)
           /\ accepted' = accepted \cup {e}
  <2>1. q \in Seq(Events) /\ q # <<>> /\ Range(q) = Range(queue) \cup {e}
    BY <1>0, RangeOfAppend
  <2>. HIDE DEF q, e
  <2>2. Batch(q).step = "insert" /\ Range(q) = Range(Batch(q).events) \cup Range(AfterBatch(q))
    BY <2>1, BatchIsJob
  <2>3. "flush" \in Writers
    BY DEF Writers
  <2>. QED  BY <1>0, <1>4, <2>1, <2>2, <2>3, BufferKeeps
<1>5. CASE job' = job /\ queue' = q /\ accepted' = accepted \cup {e}
  <2>1. Range(queue') = Range(queue) \cup {e}
    BY <1>0, <1>5, RangeOfAppend
  <2>. HIDE DEF q, e
  <2>2. Range(queue') \subseteq Sinks'
    BY InHandIs DEF Sinks
  <2>. QED  BY <1>0, <1>1, <1>5, <2>1, <2>2, SameJobsKeep
<1>. QED
  BY <1>2, <1>3, <1>4, <1>5 DEF Emit, EmitAfterShutdown, EmitSaturated, EmitQueued

LEMMA FlushKeeps ==
  ASSUME KeepInv, TInv', FlushTimer \/ BeginShutdown
  PROVE  KeepInv'
<1>0. UNCHANGED <<storeVars, lost, forgotten, up, accepted>> /\ queue \in Seq(Events) /\ "flush" \in Writers
  BY DEF FlushTimer, BeginShutdown, KeepInv, TInv, UsageTypeOK, historyVars, Writers
<1>1. CASE UNCHANGED <<job, queue>>
  BY <1>0, <1>1, SameJobsKeep, InHandIs DEF Sinks, Durable, storeVars
<1>2. CASE ~UNCHANGED <<job, queue>>
  <2>. DEFINE last == [Batch(queue) EXCEPT !.tries = 1]
  <2>1. /\ queue # <<>> /\ job["flush"] = Idle /\ queue' = AfterBatch(queue)
        /\ job' = [job EXCEPT !["flush"] = Batch(queue)] \/ job' = [job EXCEPT !["flush"] = last]
    BY <1>2 DEF FlushTimer, BeginShutdown
  <2>2. /\ Batch(queue).step = "insert" /\ last.step = "insert" /\ last.events = Batch(queue).events
        /\ Range(queue) = Range(Batch(queue).events) \cup Range(AfterBatch(queue))
    BY <1>0, <2>1, BatchIsJob
  <2>. HIDE DEF last
  <2>3. CASE job' = [job EXCEPT !["flush"] = Batch(queue)]
    BY <1>0, <2>1, <2>2, <2>3, BufferKeeps
  <2>4. CASE job' = [job EXCEPT !["flush"] = last]
    BY <1>0, <2>1, <2>2, <2>4, BufferKeeps
  <2>. QED  BY <2>1, <2>3, <2>4
<1>. QED  BY <1>1, <1>2

(* The lines of a file renamed over are in Mongo, read again, or forgotten. *)
LEMMA RenamingKeeps ==
  ASSUME ReplayRenames
  PROVE  Durable \cup lost \cup forgotten \subseteq Durable' \cup lost' \cup forgotten'
<1>1. store' = store /\ UNCHANGED lost
  BY DEF ReplayRenames
<1>2. CASE processed' = processed \cup Range(deadLetter) /\ UNCHANGED forgotten
  BY <1>1, <1>2 DEF Durable
<1>3. CASE /\ processed' = Range(deadLetter)
           /\ forgotten' = forgotten \cup (processed \ (store \cup Range(deadLetter)))
  BY <1>1, <1>3 DEF Durable
<1>. QED  BY <1>2, <1>3 DEF ReplayRenames

LEMMA KeepStep == KeepInv /\ [Next]_vars => KeepInv'
<1>. SUFFICES ASSUME KeepInv, [Next]_vars PROVE KeepInv'
  OBVIOUS
<1>0. TInv' /\ TInv
  BY TStep DEF KeepInv
<1>1. CASE UNCHANGED <<job, store, deadLetter, processed, lost, forgotten, queue, accepted, up>>
  BY <1>0, <1>1, SameJobsKeep, InHandIs DEF Sinks, Durable
<1>2. CASE ReplayStarts
  <2>. DEFINE j == [events |-> deadLetter, step |-> "insert", tries |-> 1]
  <2>1. j.step = "insert" /\ job' = [job EXCEPT !["replay"] = j] /\ job["replay"] = Idle
        /\ "replay" \in Writers
    BY <1>2 DEF ReplayStarts, Writers
  <2>2. UNCHANGED <<storeVars, lost, forgotten, up, queue, accepted>>
    BY <1>2 DEF ReplayStarts, historyVars, bufferVars
  <2>. HIDE DEF j
  <2>. QED  BY <1>0, <2>1, <2>2, BufferKeeps
<1>3. CASE ShutdownTimeout
  <2>0. deadLetter \in Seq(Events) /\ queue \in Seq(Events)
    BY <1>0 DEF TInv, UsageTypeOK
  <2>1. /\ Durable \cup lost \cup forgotten \subseteq Durable' \cup lost' \cup forgotten'
        /\ Range(queue) \subseteq Durable' \cup lost' \cup forgotten'
    <3>0. UNCHANGED <<store, processed, forgotten>>
      BY <1>3 DEF ShutdownTimeout
    <3>1. CASE deadLetter' = deadLetter \o queue /\ lost' = lost
      <4>1. Range(deadLetter') = Range(deadLetter) \cup Range(queue)
        BY <2>0, <3>1, RangeOfJoin
      <4>. QED  BY <3>0, <3>1, <4>1 DEF Durable
    <3>2. CASE lost' = lost \cup Range(queue) /\ deadLetter' = deadLetter
      BY <3>0, <3>2 DEF Durable
    <3>. QED  BY <1>3, <3>1, <3>2 DEF ShutdownTimeout
  <2>2. UNCHANGED <<job, store, up, accepted>>
    BY <1>3 DEF ShutdownTimeout
  <2>. QED  BY <1>0, <2>1, <2>2, SameJobsKeep DEF Sinks
<1>4. CASE ProcessGone
  <2>1. /\ ~up' /\ Durable' = Durable /\ UNCHANGED <<lost, forgotten>>
        /\ job' = [w \in Writers |-> IF w = "replay" THEN job[w] ELSE Idle]
    BY <1>4 DEF ProcessGone, storeVars, Durable
  <2>2. StoredInv'
    BY <2>1, IdleIsJob DEF StoredInv, KeepInv
  <2>. QED  BY <1>0, <2>1, <2>2 DEF KeepInv, NothingVanishes
<1>5. CASE Restart
  <2>1. accepted' = {} /\ job' = job /\ Durable' = Durable /\ UNCHANGED <<lost, forgotten>>
    BY <1>5 DEF Restart, storeVars, historyVars, Durable
  <2>. QED  BY <1>0, <2>1 DEF KeepInv, NothingVanishes, StoredInv
<1>6. ASSUME NEW s \in Sessions, ReconcileSession(s) \/ ReconcileTool(s) PROVE KeepInv'
  BY <1>1, <1>6 DEF ReconcileSession, ReconcileTool, bufferVars, historyVars, storeVars
<1>7. CASE UNCHANGED vars
  BY <1>1, <1>7 DEF vars, bufferVars, historyVars, storeVars
<1>8. CASE ReplayStops \/ ReplayRenames
  <2>1. /\ job' = [job EXCEPT !["replay"] = Idle] /\ "replay" \in Writers
        /\ UNCHANGED bufferVars
    BY <1>8 DEF ReplayStops, ReplayRenames, historyVars, storeVars, Writers
  <2>2. Durable \cup lost \cup forgotten \subseteq Durable' \cup lost' \cup forgotten'
    BY <1>8, RenamingKeeps DEF ReplayStops, historyVars, storeVars, Durable
  <2>3. StoredInv'
    BY <2>1, <2>2, IdleIsJob, StillStored DEF KeepInv
  <2>4. Sinks \subseteq Sinks'
    BY <2>1, <2>2, StillHeld DEF KeepInv, bufferVars
  <2>. QED  BY <1>0, <2>1, <2>3, <2>4, SinksKeep DEF bufferVars
<1>. QED
  BY <1>0, <1>2, <1>3, <1>4, <1>5, <1>6, <1>7, <1>8, EmitKeeps, FlushKeeps, WriterKeeps
  DEF Next, ProcessExit, Crash

LEMMA KeepInit == Init => KeepInv
BY TInit, IdleIsJob DEF Init, KeepInv, StoredInv, NothingVanishes

(* An event the buffer has taken is in memory, on record or reported lost,   *)
(* unless bulkInsert took its failed insertion for a duplicate (agent-usage- *)
(* event-repository.ts) or its file of dead letters was renamed over         *)
(* (replay-usage-deadletter.ts): whatever else fails, retries, buries,       *)
(* replays or dies, no event disappears without a trace.                     *)
THEOREM NoEventVanishes == Spec => []NothingVanishes
<1>1. KeepInv => NothingVanishes
  BY DEF KeepInv
<1>. QED  BY <1>1, KeepInit, KeepStep, PTL DEF Spec

-----------------------------------------------------------------------------
(* A clean exit. A direct write holds transitions of a saturated queue only, *)
(* and a shutdown that has flushed has left nothing else in memory.          *)
DirectIsCritical ==
  \A w \in DirectWriters : \A e \in Range(job[w].events) :
    e.type \in Critical /\ e.session \in detoured

FlushedIsEmpty == closing = "flushed" => queue = <<>> /\ job["flush"] = Idle

DownIsEmpty == ~up => queue = <<>> /\ \A w \in Writers \ {"replay"} : job[w] = Idle

ExitParts == DirectIsCritical /\ FlushedIsEmpty /\ DownIsEmpty
ExitInv == ExitParts /\ CleanExitKeeps

(* What a writer's step does beside the projection. *)
LEMMA WriterMoves ==
  ASSUME TInv, NEW w \in Writers, WriterStep(w)
  PROVE  /\ job[w] # Idle
         /\ UNCHANGED <<emitted, live, up, accepted>>
         /\ detoured \subseteq detoured'
         /\ Durable \cup lost \cup forgotten \subseteq Durable' \cup lost' \cup forgotten'
         /\ \E j : /\ job' = [job EXCEPT ![w] = j]
                   /\ w # "flush" => queue' = queue /\ Range(j.events) \subseteq Range(job[w].events)
                   /\ closing' # closing =>
                        w = "flush" /\ closing' = "flushed" /\ j = Idle /\ queue' = <<>>
<1>0. job[w].step # "idle"
  BY DEF WriterStep, Insert, InsertFails, InsertSwallowed, Bury, Claim, ApplyFails, Apply, Count, Propagate
<1>1. job[w] # Idle /\ job[w] \in Jobs
  BY <1>0, IdleIsJob, HeldJob
<1>2. CASE Insert(w) \/ InsertFails(w) \/ InsertSwallowed(w)
  <2>1. /\ UNCHANGED <<bufferVars, lost, detoured, deadLetter, processed>>
        /\ store \subseteq store' /\ forgotten \subseteq forgotten'
        /\ \/ job' = [job EXCEPT ![w].step = "claim"]
           \/ job' = [job EXCEPT ![w] = Idle]
           \/ job' = [job EXCEPT ![w].tries = @ - 1]
           \/ job' = [job EXCEPT ![w].step = "bury"]
    BY <1>2 DEF Insert, InsertFails, InsertSwallowed, historyVars
  <2>. DEFINE a == [job[w] EXCEPT !.step = "claim"]
              b == [job[w] EXCEPT !.tries = @ - 1]
              c == [job[w] EXCEPT !.step = "bury"]
  <2>2. a.events = job[w].events /\ b.events = job[w].events /\ c.events = job[w].events
    BY <1>1 DEF Jobs
  <2>3. \E j \in {a, b, c, Idle} : job' = [job EXCEPT ![w] = j]
    BY <2>1
  <2>. HIDE DEF a, b, c
  <2>. QED  BY <1>1, <2>1, <2>2, <2>3, IdleIsJob, RangeOfNone DEF bufferVars, historyVars, Durable
<1>3. CASE Bury(w)
  <2>1. PICK j \in Jobs :
          /\ Turned(w, j)
          /\ w # "flush" => queue' = queue /\ Range(j.events) \subseteq Range(job[w].events)
    BY <1>0, <1>3, JobDoneTurns DEF Bury
  <2>2. /\ UNCHANGED <<store, processed, forgotten>> /\ detoured \subseteq detoured'
        /\ \/ deadLetter' = deadLetter \o job[w].events /\ lost' = lost
           \/ deadLetter' = deadLetter /\ lost \subseteq lost'
    BY <1>3 DEF Bury
  <2>3. Durable \cup lost \cup forgotten \subseteq Durable' \cup lost' \cup forgotten'
    <3>1. deadLetter \in Seq(Events) /\ job[w].events \in Seq(Events)
      BY <1>0, HeldJob DEF TInv, UsageTypeOK
    <3>2. Range(deadLetter) \subseteq Range(deadLetter') /\ lost \subseteq lost'
      BY <2>2, <3>1, RangeOfJoin
    <3>3. UNCHANGED <<store, processed, forgotten>>
      BY <2>2
    <3>. QED  BY <3>2, <3>3 DEF Durable
  <2>4. /\ job' = [job EXCEPT ![w] = j] /\ UNCHANGED <<emitted, live, up, accepted>>
        /\ closing' # closing => w = "flush" /\ closing' = "flushed" /\ j = Idle /\ queue' = <<>>
    BY <2>1 DEF Turned
  <2>. QED  BY <1>1, <2>1, <2>2, <2>3, <2>4
<1>4. ASSUME NextEvent(w), detoured \subseteq detoured', UNCHANGED <<store, deadLetter, processed, lost, forgotten>>
      PROVE  /\ UNCHANGED <<emitted, live, up, accepted>>
             /\ Durable \cup lost \cup forgotten \subseteq Durable' \cup lost' \cup forgotten'
             /\ \E j : /\ job' = [job EXCEPT ![w] = j]
                       /\ w # "flush" => queue' = queue /\ Range(j.events) \subseteq Range(job[w].events)
                       /\ closing' # closing =>
                            w = "flush" /\ closing' = "flushed" /\ j = Idle /\ queue' = <<>>
  <2>1. PICK j \in Jobs :
          /\ Turned(w, j)
          /\ w # "flush" => queue' = queue /\ Range(j.events) \subseteq Range(job[w].events)
    BY <1>0, <1>4, NextEventTurns
  <2>. QED  BY <1>4, <2>1 DEF Turned, Durable
<1>5. ASSUME NEW t, job' = [job EXCEPT ![w].step = t],
             UNCHANGED <<bufferVars, historyVars, store, deadLetter, processed>>
      PROVE  /\ UNCHANGED <<emitted, live, up, accepted>>
             /\ Durable \cup lost \cup forgotten \subseteq Durable' \cup lost' \cup forgotten'
             /\ \E j : /\ job' = [job EXCEPT ![w] = j]
                       /\ w # "flush" => queue' = queue /\ Range(j.events) \subseteq Range(job[w].events)
                       /\ closing' # closing =>
                            w = "flush" /\ closing' = "flushed" /\ j = Idle /\ queue' = <<>>
  <2>. DEFINE j == [job[w] EXCEPT !.step = t]
  <2>1. j.events = job[w].events /\ job' = [job EXCEPT ![w] = j]
    BY <1>1, <1>5 DEF Jobs
  <2>. HIDE DEF j
  <2>. QED  BY <1>5, <2>1 DEF bufferVars, historyVars, Durable
<1>6. CASE Claim(w) \/ ApplyFails(w) \/ Apply(w) \/ Count(w) \/ Propagate(w)
  <2>1. /\ detoured \subseteq detoured' /\ UNCHANGED <<store, deadLetter, processed, lost, forgotten>>
        /\ \/ NextEvent(w)
           \/ UNCHANGED <<bufferVars, historyVars>> /\ \E t : job' = [job EXCEPT ![w].step = t]
    BY <1>6 DEF Claim, ApplyFails, Apply, Count, Propagate, historyVars, storeVars
  <2>. QED  BY <1>1, <1>4, <1>5, <2>1
<1>. QED  BY <1>2, <1>3, <1>6 DEF WriterStep

(* A step that leaves the process alone, but for direct writes taken away. *)
LEMMA ExitPartsKept ==
  ASSUME TInv, ExitParts, UNCHANGED <<up, closing, queue>>, detoured \subseteq detoured',
         \A w \in Writers \ {"replay"} : job[w] = Idle => job'[w] = Idle,
         \A w \in DirectWriters : Range(job'[w].events) \subseteq Range(job[w].events)
  PROVE  ExitParts'
BY DEF ExitParts, DirectIsCritical, FlushedIsEmpty, DownIsEmpty, Writers

LEMMA WriterExits ==
  ASSUME TInv, ExitParts, NEW w \in Writers, WriterStep(w)
  PROVE  ExitParts'
<1>1. PICK j : /\ job' = [job EXCEPT ![w] = j]
               /\ w # "flush" => queue' = queue /\ Range(j.events) \subseteq Range(job[w].events)
               /\ closing' # closing =>
                    w = "flush" /\ closing' = "flushed" /\ j = Idle /\ queue' = <<>>
  BY WriterMoves
<1>2. /\ job[w] # Idle /\ UNCHANGED up /\ detoured \subseteq detoured'
      /\ \A v \in Writers : job'[v] = IF v = w THEN j ELSE job[v]
  BY <1>1, WriterMoves DEF TInv, UsageTypeOK
<1>3. CASE w # "flush"
  <2>1. \A v \in DirectWriters : Range(job'[v].events) \subseteq Range(job[v].events)
    BY <1>1, <1>2, <1>3 DEF Writers
  <2>2. \A v \in Writers : job[v] = Idle => job'[v] = Idle
    BY <1>2
  <2>. QED  BY <1>1, <1>2, <1>3, <2>1, <2>2, ExitPartsKept
<1>4. CASE w = "flush"
  <2>1. DirectIsCritical'
    BY <1>2, <1>4, UsageAssumption DEF ExitParts, DirectIsCritical, Writers
  <2>2. FlushedIsEmpty'
    BY <1>1, <1>2, <1>4 DEF ExitParts, FlushedIsEmpty
  <2>3. DownIsEmpty'
    BY <1>2, <1>4 DEF ExitParts, DownIsEmpty
  <2>. QED  BY <2>1, <2>2, <2>3 DEF ExitParts
<1>. QED  BY <1>3, <1>4

LEMMA EmitExits ==
  ASSUME TInv, ExitParts, NEW s \in Sessions, NEW k \in Types, Emit(s, k)
  PROVE  ExitParts'
<1>. DEFINE e == Ev(s, k)
<1>0. /\ up' = up /\ closing' = closing /\ up = TRUE /\ job \in [Writers -> Jobs]
      /\ e \in Events /\ e.session = s /\ "flush" \in Writers
  BY EvIsEvent DEF Emit, TInv, UsageTypeOK, Writers, Ev
<1>1. CASE EmitAfterShutdown(e)
  BY <1>0, <1>1, ExitPartsKept DEF EmitAfterShutdown
<1>2. CASE EmitSaturated(e)
  <2>1. closing = "open" /\ queue' = queue /\ detoured' = detoured \cup {s}
    BY <1>0, <1>2 DEF EmitSaturated
  <2>2. CASE job' = job
    BY <1>0, <2>1, <2>2, ExitPartsKept
  <2>3. CASE job' # job
    <3>. DEFINE j == [events |-> <<e>>, step |-> "insert", tries |-> 1]
    <3>1. PICK w \in DirectWriters : job' = [job EXCEPT ![w] = j] /\ e.type \in Critical
      BY <1>2, <2>3 DEF EmitSaturated
    <3>2. Range(j.events) = {e}
      BY <1>0, RangeOfOne
    <3>. HIDE DEF j, e
    <3>3. DirectIsCritical'
      BY <1>0, <2>1, <3>1, <3>2 DEF ExitParts, DirectIsCritical, Writers
    <3>. QED  BY <1>0, <2>1, <3>3 DEF ExitParts, FlushedIsEmpty, DownIsEmpty
  <2>. QED  BY <2>2, <2>3
<1>3. CASE EmitQueued(e)
  <2>1. /\ closing = "open" /\ detoured' = detoured
        /\ \A w \in DirectWriters : job'[w] = job[w]
    BY <1>0, <1>3, UsageAssumption DEF EmitQueued, Writers
  <2>. QED  BY <1>0, <2>1 DEF ExitParts, DirectIsCritical, FlushedIsEmpty, DownIsEmpty
<1>. QED  BY <1>1, <1>2, <1>3 DEF Emit

LEMMA FlushExits ==
  ASSUME TInv, ExitParts, FlushTimer \/ BeginShutdown
  PROVE  ExitParts'
<1>1. /\ up' = up /\ up = TRUE /\ detoured' = detoured /\ closing = "open"
      /\ \A w \in DirectWriters : job'[w] = job[w]
  BY UsageAssumption DEF FlushTimer, BeginShutdown, historyVars, TInv, UsageTypeOK, Writers
<1>2. FlushedIsEmpty'
  BY <1>1 DEF FlushTimer, BeginShutdown, FlushedIsEmpty
<1>. QED  BY <1>1, <1>2 DEF ExitParts, DirectIsCritical, DownIsEmpty

LEMMA GoneExits ==
  ASSUME TInv, ExitParts, ProcessGone
  PROVE  ExitParts'
<1>1. /\ ~up' /\ queue' = <<>> /\ \A w \in Writers \ {"replay"} : job'[w] = Idle
  BY DEF ProcessGone
<1>2. \A w \in DirectWriters : Range(job'[w].events) = {}
  BY <1>1, UsageAssumption, IdleIsJob, RangeOfNone DEF Writers
<1>3. "flush" \in Writers \ {"replay"}
  BY DEF Writers
<1>. QED  BY <1>1, <1>2, <1>3 DEF ExitParts, DirectIsCritical, FlushedIsEmpty, DownIsEmpty

LEMMA ExitPartsStep ==
  ASSUME TInv, ExitParts, [Next]_vars
  PROVE  ExitParts'
<1>1. CASE /\ UNCHANGED <<up, closing, queue, detoured>>
           /\ job' = job \/ job' = [job EXCEPT !["replay"] = job'["replay"]]
  <2>1. \A w \in Writers \ {"replay"} : job'[w] = job[w]
    BY <1>1 DEF TInv, UsageTypeOK
  <2>. QED  BY <1>1, <2>1, ExitPartsKept, UsageAssumption DEF Writers
<1>2. CASE UNCHANGED vars
  BY <1>1, <1>2 DEF vars, bufferVars, historyVars
<1>3. CASE ReplayStarts \/ ReplayRenames \/ ReplayStops
  <2>1. "replay" \in Writers /\ job \in [Writers -> Jobs]
    BY DEF Writers, TInv, UsageTypeOK
  <2>2. UNCHANGED <<up, closing, queue, detoured>> /\ \E j : job' = [job EXCEPT !["replay"] = j]
    BY <1>3 DEF ReplayStarts, ReplayRenames, ReplayStops, bufferVars, historyVars
  <2>. QED  BY <1>1, <2>1, <2>2
<1>4. ASSUME NEW s \in Sessions, ReconcileSession(s) \/ ReconcileTool(s) PROVE ExitParts'
  BY <1>1, <1>4 DEF ReconcileSession, ReconcileTool, bufferVars, historyVars
<1>5. CASE ShutdownTimeout
  <2>1. up' = up /\ up = TRUE /\ detoured \subseteq detoured' /\ closing' # "flushed" /\ job' = job
    BY <1>5 DEF ShutdownTimeout
  <2>. QED  BY <2>1 DEF ExitParts, DirectIsCritical, FlushedIsEmpty, DownIsEmpty
<1>6. CASE Restart
  <2>1. up' = TRUE /\ closing' = "open" /\ UNCHANGED <<detoured, job>>
    BY <1>6 DEF Restart, historyVars
  <2>. QED  BY <2>1 DEF ExitParts, DirectIsCritical, FlushedIsEmpty, DownIsEmpty
<1>. QED
  BY <1>2, <1>3, <1>4, <1>5, <1>6, WriterExits, EmitExits, FlushExits, GoneExits
  DEF Next, ProcessExit, Crash

(* What is kept stays kept. *)
LEMMA KeptKept ==
  ASSUME detoured \subseteq detoured', Durable \cup lost \cup forgotten \subseteq Durable' \cup lost' \cup forgotten', NEW e, Kept(e)
  PROVE  Kept(e)'
BY DEF Kept

LEMMA ExitStep ==
  ASSUME KeepInv, KeepInv', ExitInv, [Next]_vars
  PROVE  ExitInv'
<1>0. TInv /\ ExitParts'
  BY ExitPartsStep DEF KeepInv, ExitInv
<1>1. CASE up'
  <2>. SUFFICES ASSUME closing' = "flushed", NEW e \in accepted' PROVE Kept(e)'
    BY <1>0 DEF ExitInv, CleanExitKeeps
  <2>1. e \in InHand' \cup Durable' \cup lost' \cup forgotten'
    BY <1>1 DEF KeepInv, NothingVanishes
  <2>2. queue' = <<>> /\ job'["flush"] = Idle
    BY <1>0 DEF ExitParts, FlushedIsEmpty
  <2>3. CASE e \in InHand'
    <3>1. PICK w \in Writers \ {"replay"} : e \in Range(job'[w].events)
      BY <2>2, <2>3, InHandIs, RangeOfNone
    <3>2. w \in DirectWriters
      BY <2>2, <3>1, IdleIsJob, RangeOfNone DEF Writers
    <3>. QED  BY <1>0, <3>1, <3>2 DEF ExitParts, DirectIsCritical, Kept
  <2>. QED  BY <2>1, <2>3 DEF Kept
<1>2. ASSUME ~up', accepted' = accepted, closing' = "flushed" => closing = "flushed",
             detoured \subseteq detoured', Durable \cup lost \cup forgotten \subseteq Durable' \cup lost' \cup forgotten'
      PROVE  ExitInv'
  BY <1>0, <1>2, KeptKept DEF ExitInv, CleanExitKeeps
<1>3. CASE ProcessExit \/ Crash
  <2>1. /\ ~up' /\ accepted' = accepted /\ (closing' = "flushed" => closing = "flushed")
        /\ detoured \subseteq detoured' /\ UNCHANGED <<lost, forgotten, storeVars>>
    BY <1>3 DEF ProcessExit, Crash, ProcessGone
  <2>. QED  BY <1>2, <2>1 DEF Durable, storeVars
<1>4. ASSUME NEW w \in Writers, WriterStep(w), ~up' PROVE ExitInv'
  <2>1. /\ job[w] # Idle /\ up' = up /\ accepted' = accepted /\ detoured \subseteq detoured'
        /\ Durable \cup lost \cup forgotten \subseteq Durable' \cup lost' \cup forgotten'
    BY <1>0, <1>4, WriterMoves
  <2>2. closing' # closing => w = "flush"
    BY <1>0, <1>4, WriterMoves
  <2>3. w = "replay"
    BY <1>4, <2>1 DEF ExitInv, ExitParts, DownIsEmpty
  <2>. QED  BY <1>2, <1>4, <2>1, <2>2, <2>3
<1>5. CASE UNCHANGED <<accepted, closing, detoured, lost, forgotten, store, processed, deadLetter>> /\ ~up'
  BY <1>2, <1>5 DEF Durable
<1>6. CASE ~up' /\ ReplayRenames
  <2>1. UNCHANGED <<accepted, closing, detoured>>
    BY <1>6 DEF ReplayRenames, bufferVars
  <2>. QED  BY <1>2, <1>6, <2>1, RenamingKeeps
<1>. QED
  BY <1>1, <1>3, <1>4, <1>5, <1>6
  DEF Next, Emit, FlushTimer, ReplayStarts, ReplayStops, ReconcileSession, ReconcileTool,
      BeginShutdown, ShutdownTimeout, Restart, vars, bufferVars, historyVars, storeVars

LEMMA ExitInit == Init => ExitInv
<1>. SUFFICES ASSUME Init PROVE ExitInv
  OBVIOUS
<1>1. \A w \in DirectWriters : Range(job[w].events) = {}
  BY IdleIsJob, RangeOfNone DEF Init, Writers
<1>. QED
  BY <1>1 DEF Init, ExitInv, ExitParts, DirectIsCritical, FlushedIsEmpty, DownIsEmpty, CleanExitKeeps

(* When a shutdown waited for its flush and was in time, every event taken is *)
(* in Mongo or in a dead-letter file, reported lost or fell into one of those *)
(* two holes, up to direct writes it does not await: BeginShutdown, JobDone   *)
(* and ProcessExit leave none of them in the queue or in a batch.             *)
THEOREM CleanExitLosesNothing == Spec => []CleanExitKeeps
<1>1. Init => KeepInv /\ ExitInv
  BY KeepInit, ExitInit
<1>2. KeepInv /\ ExitInv /\ [Next]_vars => KeepInv' /\ ExitInv'
  BY KeepStep, ExitStep
<1>3. ExitInv => CleanExitKeeps
  BY DEF ExitInv
<1>. QED  BY <1>1, <1>2, <1>3, PTL DEF Spec

-----------------------------------------------------------------------------
(* Order. What the flush loop has in hand and what is queued behind it is a  *)
(* pipe of events in the order they were emitted.                            *)
Before == {<<"started", "running">>, <<"started", "ended">>, <<"running", "ended">>}
Precedes(d, e) == d.session = e.session /\ <<d.type, e.type>> \in Before

InOrder(p) == \A i, j \in DOMAIN p : i < j => p[i] # p[j] /\ ~Precedes(p[j], p[i])

LEMMA OrderOfTail ==
  ASSUME NEW p \in Seq(Events), p # <<>>, InOrder(p)
  PROVE  /\ InOrder(Tail(p))
         /\ \A d \in Range(Tail(p)) : d # Head(p) /\ ~Precedes(d, Head(p))
<1>1. /\ Len(p) \in Nat /\ Len(p) > 0 /\ DOMAIN p = 1 .. Len(p)
      /\ Tail(p) \in Seq(Events) /\ Len(Tail(p)) = Len(p) - 1 /\ Head(p) = p[1]
      /\ DOMAIN Tail(p) = 1 .. Len(p) - 1
      /\ \A i \in 1 .. Len(p) - 1 : Tail(p)[i] = p[i + 1]
  BY HeadTailProperties, LenProperties, EmptySeq
<1>2. \A i \in DOMAIN Tail(p) : i \in Nat /\ i + 1 \in DOMAIN p /\ 1 \in DOMAIN p /\ 1 < i + 1
  BY <1>1
<1>3. InOrder(Tail(p))
  <2>. SUFFICES ASSUME NEW i \in DOMAIN Tail(p), NEW j \in DOMAIN Tail(p), i < j
                PROVE  Tail(p)[i] # Tail(p)[j] /\ ~Precedes(Tail(p)[j], Tail(p)[i])
    BY DEF InOrder
  <2>1. i + 1 < j + 1
    BY <1>2
  <2>. QED  BY <1>1, <1>2, <2>1 DEF InOrder
<1>4. ASSUME NEW d \in Range(Tail(p)) PROVE d # Head(p) /\ ~Precedes(d, Head(p))
  <2>1. PICK i \in DOMAIN Tail(p) : d = Tail(p)[i]
    BY DEF Range
  <2>. QED  BY <1>1, <1>2, <2>1 DEF InOrder
<1>. QED  BY <1>3, <1>4

LEMMA OrderOfParts ==
  ASSUME NEW p \in Seq(Events), NEW q \in Seq(Events), InOrder(p \o q)
  PROVE  InOrder(p) /\ InOrder(q)
<1>. DEFINE r == p \o q
<1>1. /\ r \in Seq(Events) /\ Len(p) \in Nat /\ Len(q) \in Nat /\ Len(r) = Len(p) + Len(q)
      /\ \A i \in 1 .. Len(r) : r[i] = IF i <= Len(p) THEN p[i] ELSE q[i - Len(p)]
      /\ DOMAIN p = 1 .. Len(p) /\ DOMAIN q = 1 .. Len(q)
  BY ConcatProperties, LenProperties
<1>2. DOMAIN r = 1 .. Len(r)
  BY <1>1, LenProperties
<1>3. InOrder(r)
  OBVIOUS
<1>. HIDE DEF r
<1>4. \A i \in DOMAIN p : i \in DOMAIN r /\ r[i] = p[i]
  BY <1>1, <1>2
<1>5. \A i \in DOMAIN q : i + Len(p) \in DOMAIN r /\ r[i + Len(p)] = q[i]
  <2>. SUFFICES ASSUME NEW i \in 1 .. Len(q)
                PROVE  i + Len(p) \in 1 .. Len(r) /\ r[i + Len(p)] = q[i]
    BY <1>1, <1>2
  <2>1. i + Len(p) \in 1 .. Len(r) /\ ~(i + Len(p) <= Len(p)) /\ i + Len(p) - Len(p) = i
    BY <1>1
  <2>. QED  BY <1>1, <2>1
<1>6. InOrder(p)
  BY <1>3, <1>4 DEF InOrder
<1>7. InOrder(q)
  <2>. SUFFICES ASSUME NEW i \in DOMAIN q, NEW j \in DOMAIN q, i < j
                PROVE  q[i] # q[j] /\ ~Precedes(q[j], q[i])
    BY DEF InOrder
  <2>1. i + Len(p) < j + Len(p)
    BY <1>1
  <2>. QED  BY <1>3, <1>5, <2>1 DEF InOrder
<1>. QED  BY <1>6, <1>7

LEMMA OrderOfAppend ==
  ASSUME NEW p \in Seq(Events), NEW e \in Events, InOrder(p),
         \A d \in Range(p) : d # e /\ ~Precedes(e, d)
  PROVE  InOrder(Append(p, e))
<1>1. /\ Len(p) \in Nat /\ DOMAIN p = 1 .. Len(p) /\ DOMAIN Append(p, e) = 1 .. Len(p) + 1
      /\ \A i \in 1 .. Len(p) : Append(p, e)[i] = p[i]
      /\ Append(p, e)[Len(p) + 1] = e
  BY AppendProperties, LenProperties
<1>. SUFFICES ASSUME NEW i \in 1 .. Len(p) + 1, NEW j \in 1 .. Len(p) + 1, i < j
              PROVE  Append(p, e)[i] # Append(p, e)[j] /\ ~Precedes(Append(p, e)[j], Append(p, e)[i])
  BY <1>1 DEF InOrder
<1>2. i \in DOMAIN p /\ Append(p, e)[i] = p[i] /\ p[i] \in Range(p)
  BY <1>1 DEF Range
<1>3. CASE j = Len(p) + 1
  BY <1>1, <1>2, <1>3
<1>4. CASE j # Len(p) + 1
  <2>1. j \in DOMAIN p /\ Append(p, e)[j] = p[j]
    BY <1>1, <1>4
  <2>. QED  BY <1>2, <2>1 DEF InOrder
<1>. QED  BY <1>3, <1>4

-----------------------------------------------------------------------------
Pipe == job["flush"].events \o queue
Piped(e) == e \in Range(Pipe)
Reaches(e) == e \in claimed \/ Piped(e)

EmittedInOrder ==
  \A s \in Sessions, k \in Types : Ev(s, k) \in emitted => Ev(s, "started") \in emitted

PipeInOrder ==
  /\ InOrder(Pipe)
  /\ \A e \in Events : Piped(e) => e \in emitted /\ e \in accepted

(* Only the flush loop has events of a session that was not detoured. *)
OthersDetoured ==
  /\ \A w \in Writers \ {"flush"} : \A e \in Range(job[w].events) : e.session \in detoured
  /\ \A e \in Range(deadLetter) : e.session \in detoured

(* Events are claimed in the order of the pipe, and one at a time. *)
ClaimsInOrder ==
  \A e \in claimed : e.session \notin detoured =>
    /\ e \in emitted
    /\ Piped(e) => Handling("flush", e)
    /\ \A d \in Events : Precedes(d, e) => ~Piped(d)

(* The start of a session comes before whatever else it emits. *)
StartFirst ==
  \A s \in Sessions \ detoured, k \in Types : Reaches(Ev(s, k)) => Reaches(Ev(s, "started"))

LiveReach ==
  up /\ closing = "open" =>
    \A s \in live \ detoured, k \in Types : Ev(s, k) \in emitted => Reaches(Ev(s, k))

DownUnstarted == ~up => \A s \in live : Ev(s, "started") \notin emitted

OrderParts ==
  /\ PipeInOrder /\ ClaimsInOrder /\ StartFirst
  /\ EmittedInOrder /\ LiveReach /\ DownUnstarted

LEMMA PipeIs ==
  ASSUME TInv
  PROVE  /\ "flush" \in Writers /\ job["flush"].events \in Seq(Events) /\ queue \in Seq(Events)
         /\ Pipe \in Seq(Events)
         /\ \A e : Piped(e) <=> e \in Range(job["flush"].events) \/ e \in Range(queue)
         /\ \A e : Piped(e) => e \in Events
         /\ job["flush"].step # "idle" =>
              Pipe # <<>> /\ Head(Pipe) = Head(job["flush"].events) /\ Piped(Head(Pipe))
<1>1. "flush" \in Writers
  BY DEF Writers
<1>2. job["flush"].events \in Seq(Events) /\ queue \in Seq(Events)
  BY <1>1 DEF TInv, UsageTypeOK, Jobs
<1>3. Pipe \in Seq(Events) /\ Range(Pipe) = Range(job["flush"].events) \cup Range(queue)
  BY <1>2, RangeOfJoin DEF Pipe
<1>4. ASSUME job["flush"].step # "idle"
      PROVE  Pipe # <<>> /\ Head(Pipe) = Head(job["flush"].events) /\ Piped(Head(Pipe))
  <2>1. job["flush"].events # <<>>
    BY <1>1, <1>4, HeldJob
  <2>2. Head(Pipe) = Head(job["flush"].events)
    BY <1>2, <2>1, TailOfJoin DEF Pipe
  <2>3. Head(job["flush"].events) \in Range(job["flush"].events)
    BY <1>2, <2>1, RangeOfTail
  <2>4. Pipe # <<>>
    BY <1>3, <2>3, RangeOfNone
  <2>. QED  BY <1>3, <2>2, <2>3, <2>4 DEF Piped
<1>5. Range(Pipe) \subseteq Events
  BY <1>3, RangeOfSeq
<1>. QED  BY <1>1, <1>2, <1>3, <1>4, <1>5 DEF Piped

(* The pipe loses events that are claimed or whose sessions leave the order.  *)
LEMMA PipeShrinks ==
  ASSUME TInv, PipeInOrder, ClaimsInOrder, StartFirst,
         detoured \subseteq detoured', emitted \subseteq emitted',
         claimed \subseteq claimed',
         \A e \in claimed' : e \in claimed \/ e.session \in detoured',
         InOrder(Pipe)',
         \A e \in Events : Piped(e)' => Piped(e) /\ e \in accepted',
         \A e \in Events : Piped(e) => Piped(e)' \/ e \in claimed \/ e.session \in detoured',
         \A e \in Events : Piped(e)' /\ Handling("flush", e) =>
                             Handling("flush", e)' \/ e.session \in detoured',
         claimed' \subseteq Events
  PROVE  /\ PipeInOrder' /\ ClaimsInOrder' /\ StartFirst'
         /\ \A e \in Events : e.session \notin detoured' => (Reaches(e)' <=> Reaches(e))
<1>1. PipeInOrder'
  BY DEF PipeInOrder
<1>2. ClaimsInOrder'
  BY DEF ClaimsInOrder
<1>3. \A e \in Events : e.session \notin detoured' => (Reaches(e)' <=> Reaches(e))
  BY DEF Reaches
<1>4. StartFirst'
  <2>. SUFFICES ASSUME NEW s \in Sessions, s \notin detoured', NEW k \in Types, Reaches(Ev(s, k))'
                PROVE  Reaches(Ev(s, "started"))'
    BY DEF StartFirst
  <2>1. /\ Ev(s, k) \in Events /\ Ev(s, k).session = s /\ s \notin detoured
        /\ Ev(s, "started") \in Events /\ Ev(s, "started").session = s
    BY EvIsEvent DEF Ev, Types
  <2>. QED  BY <1>3, <2>1 DEF StartFirst
<1>. QED  BY <1>1, <1>2, <1>3, <1>4

(* What the turns may emit follows what they have. *)
LEMMA MayEmitInOrder ==
  ASSUME emitted \subseteq Events, EmittedInOrder, NEW s \in Sessions, NEW k \in Types, MayEmit(s, k)
  PROVE  /\ s \in live /\ Ev(s, k) \notin emitted
         /\ k # "started" => Ev(s, "started") \in emitted
         /\ \A c \in emitted : c # Ev(s, k) /\ ~Precedes(Ev(s, k), c)
<1>1. s \in live /\ Ev(s, k) \notin emitted
  BY DEF MayEmit
<1>2. k # "started" => Ev(s, "started") \in emitted
  BY DEF MayEmit, EmittedInOrder, Types
<1>3. k = "running" => Ev(s, "ended") \notin emitted
  BY DEF MayEmit
<1>4. ASSUME NEW c \in emitted, Precedes(Ev(s, k), c) PROVE FALSE
  <2>1. c.session = s /\ c = Ev(s, c.type) /\ c.type \in Types /\ <<k, c.type>> \in Before
    BY <1>4 DEF Precedes, Ev, Events
  <2>2. k = "started" \/ (k = "running" /\ c.type = "ended")
    BY <2>1 DEF Before
  <2>. QED  BY <1>1, <1>3, <2>1, <2>2 DEF EmittedInOrder
<1>. QED  BY <1>1, <1>2, <1>4

-----------------------------------------------------------------------------
LEMMA OthersKept ==
  ASSUME TInv, OthersDetoured, detoured \subseteq detoured',
         \A w \in Writers \ {"flush"} : \A e \in Range(job'[w].events) :
            e \in Range(job[w].events) \/ e \in Range(deadLetter) \/ e.session \in detoured',
         \A e \in Range(deadLetter') : e \in Range(deadLetter) \/ e.session \in detoured'
  PROVE  OthersDetoured'
BY DEF OthersDetoured

LEMMA WriterDetours ==
  ASSUME TInv, NEW w \in Writers, WriterStep(w)
  PROVE  \A e \in Range(deadLetter') : e \in Range(deadLetter) \/ e.session \in detoured'
<1>1. CASE Bury(w)
  <2>1. deadLetter \in Seq(Events) /\ job[w].events \in Seq(Events)
    BY <1>1, HeldJob DEF TInv, UsageTypeOK, Bury
  <2>2. \A e \in Range(job[w].events) : e.session \in detoured'
    BY <1>1 DEF Bury
  <2>. QED  BY <1>1, <2>1, <2>2, RangeOfJoin DEF Bury
<1>2. CASE ~Bury(w)
  BY <1>2 DEF WriterStep, Insert, InsertFails, InsertSwallowed, Claim, ApplyFails, Apply, Count, Propagate, storeVars
<1>. QED  BY <1>1, <1>2

LEMMA OthersStep ==
  ASSUME TInv, OthersDetoured, [Next]_vars
  PROVE  OthersDetoured'
<1>0. job \in [Writers -> Jobs] /\ "flush" \in Writers /\ "replay" \in Writers
  BY DEF TInv, UsageTypeOK, Writers
<1>1. CASE UNCHANGED <<job, deadLetter>> /\ detoured \subseteq detoured'
  BY <1>1, OthersKept
<1>2. ASSUME NEW s \in Sessions, NEW k \in Types, Emit(s, k) PROVE OthersDetoured'
  <2>. DEFINE e == Ev(s, k)
  <2>0. e \in Events /\ deadLetter' = deadLetter
    BY <1>2, EvIsEvent DEF Emit, storeVars
  <2>1. CASE EmitAfterShutdown(e)
    BY <1>1, <2>0, <2>1 DEF EmitAfterShutdown
  <2>2. CASE EmitSaturated(e)
    <3>. DEFINE j == [events |-> <<e>>, step |-> "insert", tries |-> 1]
    <3>1. /\ detoured' = detoured \cup {e.session}
          /\ job' = job \/ \E w \in DirectWriters : job' = [job EXCEPT ![w] = j]
      BY <2>2 DEF EmitSaturated
    <3>2. Range(j.events) = {e}
      BY <2>0, RangeOfOne
    <3>. HIDE DEF j, e
    <3>3. \A w \in Writers : \A x \in Range(job'[w].events) : x \in Range(job[w].events) \/ x = e
      BY <1>0, <3>1, <3>2
    <3>. QED  BY <2>0, <3>1, <3>3, OthersKept
  <2>3. CASE EmitQueued(e)
    <3>1. detoured' = detoured /\ \A w \in Writers \ {"flush"} : job'[w] = job[w]
      BY <1>0, <2>3 DEF EmitQueued
    <3>. QED  BY <2>0, <3>1, OthersKept
  <2>. QED  BY <1>2, <2>1, <2>2, <2>3 DEF Emit
<1>3. CASE FlushTimer \/ BeginShutdown
  <2>1. /\ detoured' = detoured /\ deadLetter' = deadLetter
        /\ \A w \in Writers \ {"flush"} : job'[w] = job[w]
    BY <1>0, <1>3 DEF FlushTimer, BeginShutdown, historyVars, storeVars
  <2>. QED  BY <2>1, OthersKept
<1>4. ASSUME NEW w \in Writers, WriterStep(w) PROVE OthersDetoured'
  <2>1. PICK j : /\ job' = [job EXCEPT ![w] = j]
                 /\ w # "flush" => queue' = queue /\ Range(j.events) \subseteq Range(job[w].events)
    BY <1>4, WriterMoves
  <2>2. detoured \subseteq detoured'
    BY <1>4, WriterMoves
  <2>3. \A v \in Writers \ {"flush"} : Range(job'[v].events) \subseteq Range(job[v].events)
    BY <1>0, <2>1
  <2>. QED  BY <1>4, <2>2, <2>3, OthersKept, WriterDetours
<1>5. CASE ReplayStarts \/ ReplayStops \/ ReplayRenames
  <2>1. /\ detoured' = detoured /\ deadLetter' \in {deadLetter, <<>>}
        /\ \E j : job' = [job EXCEPT !["replay"] = j] /\ j.events \in {deadLetter, <<>>}
    BY <1>5, IdleIsJob DEF ReplayStarts, ReplayStops, ReplayRenames, historyVars, storeVars
  <2>. QED  BY <1>0, <2>1, RangeOfNone, OthersKept
<1>6. ASSUME NEW s \in Sessions, ReconcileSession(s) \/ ReconcileTool(s) PROVE OthersDetoured'
  BY <1>1, <1>6 DEF ReconcileSession, ReconcileTool, historyVars, storeVars
<1>7. CASE ShutdownTimeout
  <2>1. deadLetter \in Seq(Events) /\ queue \in Seq(Events) /\ job' = job
    BY <1>7 DEF TInv, UsageTypeOK, ShutdownTimeout
  <2>2. /\ deadLetter' = deadLetter \/ deadLetter' = deadLetter \o queue
        /\ \A e \in Range(queue) : e.session \in detoured'
        /\ detoured \subseteq detoured'
    BY <1>7 DEF ShutdownTimeout
  <2>3. \A e \in Range(deadLetter') : e \in Range(deadLetter) \/ e.session \in detoured'
    BY <2>1, <2>2, RangeOfJoin
  <2>. QED  BY <2>1, <2>2, <2>3, OthersKept
<1>8. CASE ProcessGone
  <2>1. /\ detoured \subseteq detoured' /\ deadLetter' = deadLetter
        /\ \A w \in Writers : job'[w] = job[w] \/ job'[w] = Idle
    BY <1>8 DEF ProcessGone, storeVars
  <2>2. \A w \in Writers : Range(job'[w].events) \subseteq Range(job[w].events)
    BY <2>1, IdleIsJob, RangeOfNone
  <2>. QED  BY <2>1, <2>2, OthersKept
<1>9. CASE Restart
  BY <1>1, <1>9 DEF Restart, historyVars, storeVars
<1>10. CASE UNCHANGED vars
  BY <1>1, <1>10 DEF vars, historyVars, storeVars
<1>. QED
  BY <1>2, <1>3, <1>4, <1>5, <1>6, <1>7, <1>8, <1>9, <1>10 DEF Next, ProcessExit, Crash

-----------------------------------------------------------------------------
(* The pipe stays: events are emitted behind it or claimed by other writers. *)
PipeKept ==
  /\ PipeInOrder' /\ ClaimsInOrder' /\ StartFirst'
  /\ \A e \in Events : e.session \notin detoured' => (Reaches(e)' <=> Reaches(e))

LEMMA PipeStays ==
  ASSUME TInv, TInv', PipeInOrder, ClaimsInOrder, StartFirst, Pipe' = Pipe,
         detoured \subseteq detoured', emitted \subseteq emitted', accepted \subseteq accepted',
         claimed \subseteq claimed', \A e \in claimed' : e \in claimed \/ e.session \in detoured',
         \A e \in Events : Handling("flush", e) => Handling("flush", e)'
  PROVE  PipeKept
<1>1. InOrder(Pipe)' /\ \A e \in Events : Piped(e)' <=> Piped(e)
  BY DEF PipeInOrder, Piped, InOrder
<1>2. claimed' \subseteq Events
  BY DEF TInv, UsageTypeOK
<1>. QED  BY <1>1, <1>2, PipeShrinks DEF PipeInOrder, PipeKept

(* Its first event has been dealt with. *)
LEMMA PipeAdvances ==
  ASSUME TInv, PipeInOrder, ClaimsInOrder, StartFirst, job["flush"].step # "idle",
         Pipe' = Tail(Pipe), job'["flush"].step \notin {"apply", "count", "propagate"},
         detoured \subseteq detoured', UNCHANGED <<emitted, accepted, claimed>>,
         Head(Pipe) \in claimed \/ Head(Pipe).session \in detoured'
  PROVE  PipeKept
<1>1. /\ Pipe \in Seq(Events) /\ Pipe # <<>> /\ Head(Pipe) = Head(job["flush"].events)
      /\ InOrder(Pipe)
  BY PipeIs DEF PipeInOrder
<1>2. /\ InOrder(Tail(Pipe)) /\ Range(Pipe) = {Head(Pipe)} \cup Range(Tail(Pipe))
      /\ \A d \in Range(Tail(Pipe)) : d # Head(Pipe)
  BY <1>1, OrderOfTail, RangeOfTail
<1>3. InOrder(Pipe)' /\ \A e \in Events : Piped(e)' <=> e \in Range(Tail(Pipe))
  BY <1>2 DEF Piped, InOrder
<1>4. \A e \in Events : Piped(e)' => Piped(e) /\ e \in accepted' /\ ~Handling("flush", e)
  BY <1>1, <1>2, <1>3 DEF Piped, PipeInOrder, Handling
<1>5. \A e \in Events : Piped(e) => Piped(e)' \/ e \in claimed \/ e.session \in detoured'
  BY <1>2, <1>3 DEF Piped
<1>6. claimed' \subseteq Events
  BY DEF TInv, UsageTypeOK
<1>. QED  BY <1>3, <1>4, <1>5, <1>6, PipeShrinks DEF PipeKept

(* A part of it goes where it leaves the order, nothing of what is left is in hand. *)
LEMMA PipeCut ==
  ASSUME TInv, PipeInOrder, ClaimsInOrder, StartFirst,
         InOrder(Pipe)', detoured \subseteq detoured', UNCHANGED <<emitted, claimed>>,
         \A e \in Events : Piped(e)' => Piped(e) /\ e \in accepted'
                                     /\ (Handling("flush", e) => Handling("flush", e)'),
         \A e \in Events : Piped(e) => Piped(e)' \/ e \in claimed \/ e.session \in detoured'
  PROVE  PipeKept
<1>1. claimed' \subseteq Events
  BY DEF TInv, UsageTypeOK
<1>. QED  BY <1>1, PipeShrinks DEF PipeKept

(* The first event is claimed. *)
LEMMA PipeClaims ==
  ASSUME TInv, PipeInOrder, ClaimsInOrder, StartFirst, job["flush"].step = "claim",
         Pipe' = Pipe, UNCHANGED <<emitted, accepted, detoured>>,
         claimed' = claimed \cup {Head(Pipe)}, Handling("flush", Head(Pipe))'
  PROVE  PipeKept
<1>1. /\ Pipe \in Seq(Events) /\ Pipe # <<>> /\ Head(Pipe) = Head(job["flush"].events)
      /\ Piped(Head(Pipe)) /\ InOrder(Pipe) /\ Head(Pipe) \in Events
  BY PipeIs DEF PipeInOrder
<1>2. /\ Range(Pipe) = {Head(Pipe)} \cup Range(Tail(Pipe))
      /\ \A d \in Range(Tail(Pipe)) : d # Head(Pipe) /\ ~Precedes(d, Head(Pipe))
  BY <1>1, OrderOfTail, RangeOfTail
<1>3. \A e \in Events : (Piped(e)' <=> Piped(e)) /\ (Reaches(e)' <=> Reaches(e))
  BY <1>1 DEF Piped, Reaches
<1>4. PipeInOrder'
  BY <1>1, <1>3 DEF PipeInOrder, InOrder
<1>5. StartFirst'
  BY <1>3, EvIsEvent DEF StartFirst, Types
<1>6. \A e \in claimed : e.session \notin detoured => ~Piped(e)
  BY DEF ClaimsInOrder, Handling
<1>7. ~Precedes(Head(Pipe), Head(Pipe))
  BY DEF Precedes, Before
<1>8. \A d \in Events : Precedes(d, Head(Pipe)) => ~Piped(d)
  BY <1>2, <1>7 DEF Piped
<1>9. ClaimsInOrder'
  <2>. SUFFICES ASSUME NEW e \in claimed', e.session \notin detoured'
                PROVE  /\ e \in emitted' /\ (Piped(e)' => Handling("flush", e)')
                       /\ \A d \in Events : Precedes(d, e) => ~Piped(d)'
    BY DEF ClaimsInOrder
  <2>1. CASE e = Head(Pipe)
    BY <1>1, <1>3, <1>8, <2>1 DEF PipeInOrder
  <2>2. CASE e # Head(Pipe)
    <3>1. e \in claimed /\ e \in Events
      BY <2>2 DEF TInv, UsageTypeOK
    <3>. QED  BY <1>3, <1>6, <3>1 DEF ClaimsInOrder
  <2>. QED  BY <2>1, <2>2
<1>. QED  BY <1>3, <1>4, <1>5, <1>9 DEF PipeKept

(* What a step of the flush loop does to the pipe. *)
LEMMA FlushAdvances ==
  ASSUME TInv, NextEvent("flush"), job["flush"].step # "idle"
  PROVE  Pipe' = Tail(Pipe) /\ job'["flush"].step \notin {"apply", "count", "propagate"}
         /\ UNCHANGED <<emitted, accepted>>
<1>1. PICK j \in Jobs : Turned("flush", j) /\ j.events \o queue' = Tail(job["flush"].events \o queue)
  BY NextEventTurns, PipeIs
<1>2. job'["flush"] = j /\ UNCHANGED <<emitted, accepted>>
  BY <1>1, PipeIs DEF Turned, TInv, UsageTypeOK
<1>. QED  BY <1>1, <1>2, IdleIsJob DEF Turned, Pipe

LEMMA FlushBuries ==
  ASSUME TInv, PipeInOrder, ClaimsInOrder, StartFirst, Bury("flush")
  PROVE  PipeKept
<1>1. job["flush"].step = "bury" /\ JobDone("flush") /\ claimed' = claimed
  BY DEF Bury
<1>2. PICK j \in Jobs : Turned("flush", j) /\ j.events \o queue' = queue
  BY <1>1, JobDoneTurns, PipeIs
<1>3. /\ job'["flush"] = j /\ UNCHANGED <<emitted, accepted>> /\ Pipe' = queue
  BY <1>2, PipeIs DEF Turned, TInv, UsageTypeOK, Pipe
<1>4. /\ detoured \subseteq detoured'
      /\ \A e \in Range(job["flush"].events) : e.session \in detoured'
  BY DEF Bury
<1>5. InOrder(queue)
  BY PipeIs, OrderOfParts DEF PipeInOrder, Pipe
<1>6. InOrder(Pipe)' /\ \A e \in Events : Piped(e)' <=> e \in Range(queue)
  BY <1>3, <1>5 DEF Piped, InOrder
<1>7. \A e \in Events : ~Handling("flush", e)
  BY <1>1 DEF Handling
<1>. QED  BY <1>1, <1>3, <1>4, <1>6, <1>7, PipeIs, PipeCut DEF PipeInOrder

LEMMA FlushInserts ==
  ASSUME TInv, TInv', PipeInOrder, ClaimsInOrder, StartFirst,
         Insert("flush") \/ InsertFails("flush") \/ InsertSwallowed("flush")
  PROVE  PipeKept
<1>1. /\ UNCHANGED <<bufferVars, detoured, claimed>> /\ job["flush"].step = "insert"
      /\ job["flush"] \in Jobs /\ job \in [Writers -> Jobs] /\ "flush" \in Writers
      /\ \/ job' = [job EXCEPT !["flush"].step = "claim"]
         \/ job' = [job EXCEPT !["flush"].tries = @ - 1]
         \/ job' = [job EXCEPT !["flush"].step = "bury"]
  BY PipeIs DEF Insert, InsertFails, InsertSwallowed, historyVars, TInv, UsageTypeOK
<1>2. job'["flush"].events = job["flush"].events
  BY <1>1 DEF Jobs
<1>3. Pipe' = Pipe /\ \A e \in Events : ~Handling("flush", e)
  BY <1>1, <1>2 DEF Pipe, bufferVars, Handling
<1>. QED  BY <1>1, <1>3, PipeStays DEF bufferVars

LEMMA FlushClaims ==
  ASSUME TInv, TInv', PipeInOrder, ClaimsInOrder, StartFirst, Claim("flush")
  PROVE  PipeKept
<1>1. job["flush"].step = "claim" /\ Head(Pipe) = Head(job["flush"].events) /\ historyVars' = historyVars
  BY PipeIs DEF Claim
<1>2. CASE Head(Pipe) \in claimed
  <2>1. NextEvent("flush") /\ claimed' = claimed
    BY <1>1, <1>2 DEF Claim
  <2>. QED  BY <1>1, <1>2, <2>1, FlushAdvances, PipeAdvances DEF historyVars
<1>3. CASE Head(Pipe) \notin claimed
  <2>. DEFINE j == [job["flush"] EXCEPT !.step = "apply"]
  <2>1. /\ UNCHANGED bufferVars /\ claimed' = claimed \cup {Head(Pipe)}
        /\ job' = [job EXCEPT !["flush"] = j]
    BY <1>1, <1>3 DEF Claim
  <2>2. j.step = "apply" /\ j.events = job["flush"].events
    BY PipeIs DEF Jobs, TInv, UsageTypeOK
  <2>. HIDE DEF j
  <2>3. job'["flush"] = j
    BY <2>1, PipeIs DEF TInv, UsageTypeOK
  <2>4. Pipe' = Pipe /\ Handling("flush", Head(Pipe))'
    BY <1>1, <2>1, <2>2, <2>3 DEF Pipe, bufferVars, Handling
  <2>. QED  BY <1>1, <2>1, <2>4, PipeClaims DEF bufferVars, historyVars
<1>. QED  BY <1>2, <1>3

LEMMA FlushKeepsPipe ==
  ASSUME TInv, TInv', OneHandler, PipeInOrder, ClaimsInOrder, StartFirst, WriterStep("flush")
  PROVE  PipeKept
<1>1. Head(Pipe) = Head(job["flush"].events) \/ job["flush"].step = "idle"
  BY PipeIs
<1>2. job["flush"].step \in {"apply", "count", "propagate"} => Head(Pipe) \in claimed
  BY <1>1, PipeIs DEF OneHandler, Handling
<1>3. CASE ApplyFails("flush")
  <2>1. /\ NextEvent("flush") /\ job["flush"].step # "idle" /\ claimed' = claimed
        /\ detoured \subseteq detoured' /\ Head(Pipe).session \in detoured'
    BY <1>1, <1>3 DEF ApplyFails, storeVars
  <2>. QED  BY <2>1, FlushAdvances, PipeAdvances
<1>4. CASE (Apply("flush") \/ Count("flush") \/ Propagate("flush")) /\ NextEvent("flush")
  <2>1. /\ job["flush"].step \in {"apply", "count", "propagate"} /\ UNCHANGED <<historyVars, storeVars>>
    BY <1>4 DEF Apply, Count, Propagate
  <2>. QED  BY <1>2, <1>4, <2>1, FlushAdvances, PipeAdvances DEF historyVars, storeVars
<1>5. CASE Apply("flush") /\ ~NextEvent("flush")
  <2>. DEFINE j == [job["flush"] EXCEPT !.step = FollowUp(Head(job["flush"].events))]
  <2>1. /\ job["flush"].step = "apply" /\ UNCHANGED <<historyVars, storeVars, bufferVars>>
        /\ job' = [job EXCEPT !["flush"] = j] /\ FollowUp(Head(job["flush"].events)) # "none"
    BY <1>5 DEF Apply
  <2>2. j.step \in {"count", "propagate"} /\ j.events = job["flush"].events
    BY <2>1, PipeIs, FollowUps DEF Jobs, TInv, UsageTypeOK
  <2>. HIDE DEF j
  <2>3. job'["flush"] = j
    BY <2>1, PipeIs DEF TInv, UsageTypeOK
  <2>4. Pipe' = Pipe /\ \A e \in Events : Handling("flush", e) => Handling("flush", e)'
    BY <2>1, <2>2, <2>3 DEF Pipe, bufferVars, Handling
  <2>. QED  BY <2>1, <2>4, PipeStays DEF bufferVars, historyVars, storeVars
<1>6. Count("flush") \/ Propagate("flush") => NextEvent("flush")
  BY DEF Count, Propagate
<1>. QED
  BY <1>3, <1>4, <1>5, <1>6, FlushBuries, FlushInserts, FlushClaims DEF WriterStep

-----------------------------------------------------------------------------
LEMMA OthersKeepPipe ==
  ASSUME TInv, TInv', OneHandler, OthersDetoured, PipeInOrder, ClaimsInOrder, StartFirst,
         NEW w \in Writers, w # "flush", WriterStep(w)
  PROVE  PipeKept
<1>0. job[w].step # "idle"
  BY DEF WriterStep, Insert, InsertFails, InsertSwallowed, Bury, Claim, ApplyFails, Apply, Count, Propagate
<1>1. /\ UNCHANGED <<emitted, accepted, queue>> /\ detoured \subseteq detoured'
      /\ \E j : job' = [job EXCEPT ![w] = j]
  BY WriterMoves
<1>2. job'["flush"] = job["flush"]
  BY <1>1, PipeIs DEF TInv, UsageTypeOK
<1>3. Pipe' = Pipe /\ \A e \in Events : Handling("flush", e)' <=> Handling("flush", e)
  BY <1>1, <1>2 DEF Pipe, Handling
<1>4. Head(job[w].events).session \in detoured
  BY <1>0, HeldJob, RangeOfTail DEF OthersDetoured
<1>5. claimed' = claimed \/ claimed' = claimed \cup {Head(job[w].events)}
  BY DEF WriterStep, Insert, InsertFails, InsertSwallowed, Bury, Claim, ApplyFails, Apply, Count, Propagate, storeVars
<1>. QED  BY <1>1, <1>3, <1>4, <1>5, PipeStays

LEMMA EmptyInOrder == InOrder(<<>>) /\ \A e : e \notin Range(<<>>)
BY RangeOfNone DEF InOrder

LEMMA GoneCutsPipe ==
  ASSUME TInv, OthersDetoured, PipeInOrder, ClaimsInOrder, StartFirst, ProcessGone
  PROVE  PipeKept
<1>1. /\ queue' = <<>> /\ job'["flush"] = Idle /\ UNCHANGED <<emitted, claimed>>
      /\ detoured \subseteq detoured'
      /\ \A e \in accepted \ claimed : e.session \in detoured'
  BY PipeIs DEF ProcessGone, storeVars
<1>2. Pipe' = <<>>
  BY <1>1, IdleIsJob, ConcatEmptySeq, RangeOfNone DEF Pipe
<1>3. InOrder(Pipe)' /\ \A e \in Events : ~Piped(e)'
  BY <1>2, EmptyInOrder DEF Piped, InOrder
<1>. QED  BY <1>1, <1>3, PipeCut DEF PipeInOrder

LEMMA TimeoutCutsPipe ==
  ASSUME TInv, PipeInOrder, ClaimsInOrder, StartFirst, ShutdownTimeout
  PROVE  PipeKept
<1>1. /\ queue' = <<>> /\ job' = job /\ UNCHANGED <<emitted, claimed, accepted>>
      /\ detoured \subseteq detoured'
      /\ \A e \in Range(queue) : e.session \in detoured'
  BY DEF ShutdownTimeout
<1>2. Pipe' = job["flush"].events
  BY <1>1, PipeIs, ConcatEmptySeq DEF Pipe
<1>3. InOrder(job["flush"].events)
  BY PipeIs, OrderOfParts DEF PipeInOrder, Pipe
<1>4. InOrder(Pipe)' /\ \A e \in Events : Piped(e)' <=> e \in Range(job["flush"].events)
  BY <1>2, <1>3 DEF Piped, InOrder
<1>5. \A e \in Events : Handling("flush", e)' <=> Handling("flush", e)
  BY <1>1 DEF Handling
<1>. QED  BY <1>1, <1>4, <1>5, PipeIs, PipeCut DEF PipeInOrder

LEMMA FlushStartsPipe ==
  ASSUME TInv, TInv', PipeInOrder, ClaimsInOrder, StartFirst, FlushTimer \/ BeginShutdown
  PROVE  PipeKept
<1>1. UNCHANGED <<emitted, accepted, historyVars, storeVars>>
  BY DEF FlushTimer, BeginShutdown
<1>2. CASE UNCHANGED <<job, queue>>
  BY <1>1, <1>2, PipeStays DEF Pipe, Handling, historyVars, storeVars
<1>3. CASE ~UNCHANGED <<job, queue>>
  <2>. DEFINE last == [Batch(queue) EXCEPT !.tries = 1]
  <2>1. /\ queue # <<>> /\ job["flush"] = Idle /\ queue' = AfterBatch(queue)
        /\ job' = [job EXCEPT !["flush"] = Batch(queue)] \/ job' = [job EXCEPT !["flush"] = last]
    BY <1>3 DEF FlushTimer, BeginShutdown
  <2>2. last.events = Batch(queue).events /\ Batch(queue).events \o AfterBatch(queue) = queue
    BY <2>1, PipeIs, BatchIsJob
  <2>. HIDE DEF last
  <2>3. job'["flush"].events = Batch(queue).events
    BY <2>1, <2>2, PipeIs DEF TInv, UsageTypeOK
  <2>4. Pipe' = queue
    BY <2>1, <2>2, <2>3 DEF Pipe
  <2>5. Pipe = queue
    BY <2>1, PipeIs, IdleIsJob, ConcatEmptySeq DEF Pipe
  <2>6. \A e \in Events : ~Handling("flush", e)
    BY <2>1, IdleIsJob DEF Handling
  <2>. QED  BY <1>1, <2>4, <2>5, <2>6, PipeStays DEF historyVars, storeVars
<1>. QED  BY <1>2, <1>3

LEMMA JoinAssociative ==
  \A p, q, r \in Seq(Events) : (p \o q) \o r = p \o (q \o r)
BY ConcatAssociative

(* An event joins the end of the pipe. *)
LEMMA PipeGrows ==
  ASSUME TInv, TInv', OrderParts, up, NEW s \in Sessions, NEW k \in Types, MayEmit(s, k),
         emitted' = emitted \cup {Ev(s, k)}, EmitQueued(Ev(s, k)), UNCHANGED claimed
  PROVE  /\ PipeInOrder' /\ ClaimsInOrder' /\ StartFirst'
         /\ \A x \in Events : Reaches(x)' <=> Reaches(x) \/ x = Ev(s, k)
<1>. DEFINE e == Ev(s, k)
<1>. USE DEF OrderParts
<1>1. /\ closing = "open" /\ accepted' = accepted \cup {e} /\ detoured' = detoured
      /\ e \in Events /\ e.session = s /\ queue \in Seq(Events)
      /\ job["flush"] \in Jobs /\ job["flush"].events \in Seq(Events)
  BY EvIsEvent, PipeIs DEF EmitQueued, Ev, TInv, UsageTypeOK
<1>2. /\ Pipe' = Append(Pipe, e)
      /\ \A x \in Events : Handling("flush", x)' <=> Handling("flush", x)
  <2>. DEFINE q == Append(queue, e)
  <2>0. q \in Seq(Events) /\ q # <<>> /\ q = queue \o <<e>> /\ <<e>> \in Seq(Events)
    BY <1>1, RangeOfAppend, RangeOfOne, AppendIsConcat
  <2>1. Append(Pipe, e) = job["flush"].events \o q
    <3>1. Append(Pipe, e) = Pipe \o <<e>>
      BY <1>1, PipeIs, AppendIsConcat
    <3>2. Pipe \o <<e>> = job["flush"].events \o (queue \o <<e>>)
      BY <1>1, <2>0, JoinAssociative DEF Pipe
    <3>. QED  BY <3>1, <3>2, <2>0
  <2>2. CASE job' = job /\ queue' = q
    BY <2>1, <2>2 DEF Pipe, Handling
  <2>3. CASE job["flush"] = Idle /\ job' = [job EXCEPT !["flush"] = Batch(q)] /\ queue' = AfterBatch(q)
    <3>. HIDE DEF q
    <3>1. Batch(q).events \o AfterBatch(q) = q /\ Batch(q).step = "insert"
      BY <2>0, BatchIsJob
    <3>2. job'["flush"] = Batch(q)
      BY <2>3, PipeIs DEF TInv, UsageTypeOK
    <3>3. Pipe' = q
      BY <2>3, <3>1, <3>2 DEF Pipe
    <3>4. job["flush"].events \o q = q
      BY <2>0, <2>3, IdleIsJob, ConcatEmptySeq
    <3>. QED  BY <2>1, <2>3, <3>1, <3>2, <3>3, <3>4, IdleIsJob DEF Handling
  <2>. QED  BY <2>2, <2>3 DEF EmitQueued
<1>3. /\ s \in live /\ e \notin emitted
      /\ k # "started" => Ev(s, "started") \in emitted
      /\ \A c \in emitted : c # e /\ ~Precedes(e, c)
  BY MayEmitInOrder DEF TInv, UsageTypeOK
<1>. HIDE DEF e
<1>4. Pipe \in Seq(Events) /\ InOrder(Pipe) /\ \A x \in Range(Pipe) : x \in emitted
  BY PipeIs DEF PipeInOrder, Piped
<1>5. InOrder(Append(Pipe, e)) /\ Range(Append(Pipe, e)) = Range(Pipe) \cup {e}
  BY <1>1, <1>3, <1>4, OrderOfAppend, RangeOfAppend
<1>6. InOrder(Pipe)' /\ \A x \in Events : Piped(x)' <=> Piped(x) \/ x = e
  BY <1>2, <1>5 DEF InOrder, Piped
<1>7. \A x \in Events : Reaches(x)' <=> Reaches(x) \/ x = e
  BY <1>6 DEF Reaches
<1>8. PipeInOrder'
  BY <1>1, <1>6 DEF PipeInOrder, e
<1>9. ClaimsInOrder'
  <2>. SUFFICES ASSUME NEW c \in claimed, c.session \notin detoured
                PROVE  /\ c \in emitted' /\ (Piped(c)' => Handling("flush", c)')
                       /\ \A d \in Events : Precedes(d, c) => ~Piped(d)'
    BY <1>1 DEF ClaimsInOrder
  <2>1. c \in Events /\ c \in emitted /\ c # e /\ ~Precedes(e, c)
    BY <1>3 DEF ClaimsInOrder, TInv, UsageTypeOK
  <2>. QED  BY <1>2, <1>6, <2>1 DEF ClaimsInOrder
<1>10. StartFirst'
  <2>. SUFFICES ASSUME NEW t \in Sessions, t \notin detoured, NEW l \in Types, Reaches(Ev(t, l))'
                PROVE  Reaches(Ev(t, "started"))'
    BY <1>1 DEF StartFirst
  <2>1. Ev(t, l) \in Events /\ Ev(t, "started") \in Events
    BY EvIsEvent DEF Types
  <2>2. CASE Reaches(Ev(t, l))
    BY <1>7, <2>1, <2>2 DEF StartFirst
  <2>3. CASE Ev(t, l) = e
    <3>1. t = s /\ l = k
      BY <2>3 DEF e, Ev
    <3>2. CASE k = "started"
      BY <1>7, <2>1, <2>3, <3>1, <3>2
    <3>3. CASE k # "started"
      <4>1. Ev(s, "started") \in emitted /\ "started" \in Types
        BY <1>3, <3>3 DEF Types
      <4>2. Reaches(Ev(s, "started"))
        BY <1>1, <1>3, <3>1, <4>1 DEF LiveReach
      <4>. QED  BY <1>7, <2>1, <3>1, <4>2
    <3>. QED  BY <3>2, <3>3
  <2>. QED  BY <1>7, <2>1, <2>2, <2>3
<1>. QED  BY <1>7, <1>8, <1>9, <1>10 DEF e

LEMMA PartsFollow ==
  ASSUME TInv, OrderParts, PipeKept, UNCHANGED <<emitted, live, up>>, detoured \subseteq detoured',
         closing' = "open" => closing = "open"
  PROVE  OrderParts'
<1>1. EmittedInOrder' /\ DownUnstarted'
  BY DEF OrderParts, EmittedInOrder, DownUnstarted
<1>2. LiveReach'
  <2>. SUFFICES ASSUME up, closing = "open", NEW s \in live, s \notin detoured', NEW k \in Types,
                       Ev(s, k) \in emitted
                PROVE  Reaches(Ev(s, k))'
    BY DEF LiveReach
  <2>1. Reaches(Ev(s, k))
    BY DEF OrderParts, LiveReach
  <2>2. Ev(s, k).session = s
    BY DEF Ev
  <2>3. Ev(s, k) \in Events
    BY DEF TInv, UsageTypeOK
  <2>. QED  BY <2>1, <2>2, <2>3 DEF PipeKept
<1>. QED  BY <1>1, <1>2 DEF OrderParts, PipeKept

LEMMA EmitOrders ==
  ASSUME TInv, TInv', OthersDetoured, OrderParts, NEW s \in Sessions, NEW k \in Types, Emit(s, k)
  PROVE  OrderParts'
<1>. DEFINE e == Ev(s, k)
<1>0. /\ up /\ up' /\ MayEmit(s, k) /\ emitted' = emitted \cup {e} /\ claimed' = claimed
      /\ UNCHANGED <<live, closing>> /\ e.session = s /\ e \in Events
  BY EvIsEvent DEF Emit, storeVars, Ev
<1>1. /\ s \in live /\ e \notin emitted
      /\ k # "started" => Ev(s, "started") \in emitted
  BY <1>0, MayEmitInOrder DEF OrderParts, TInv, UsageTypeOK
<1>2. EmittedInOrder'
  <2>. SUFFICES ASSUME NEW t \in Sessions, NEW l \in Types, Ev(t, l) \in emitted'
                PROVE  Ev(t, "started") \in emitted'
    BY DEF EmittedInOrder
  <2>1. CASE Ev(t, l) \in emitted
    BY <1>0, <2>1 DEF OrderParts, EmittedInOrder
  <2>2. CASE Ev(t, l) = e
    <3>1. t = s /\ l = k
      BY <2>2 DEF Ev
    <3>. QED  BY <1>0, <1>1, <3>1
  <2>. QED  BY <1>0, <2>1, <2>2
<1>3. DownUnstarted'
  BY <1>0 DEF DownUnstarted
<1>4. ASSUME Pipe' = Pipe, detoured \subseteq detoured', accepted \subseteq accepted',
             job'["flush"] = job["flush"]
      PROVE  PipeKept
  BY <1>0, <1>4, PipeStays DEF OrderParts, Handling
<1>5. CASE EmitAfterShutdown(e)
  <2>1. PipeKept
    BY <1>4, <1>5 DEF EmitAfterShutdown, Pipe
  <2>2. LiveReach'
    BY <1>0, <1>5 DEF EmitAfterShutdown, LiveReach
  <2>. QED  BY <1>2, <1>3, <2>1, <2>2 DEF OrderParts, PipeKept
<1>6. CASE EmitSaturated(e)
  <2>0. job'["flush"] = job["flush"]
    BY <1>6, UsageAssumption DEF EmitSaturated, TInv, UsageTypeOK, Writers
  <2>1. /\ queue' = queue /\ detoured' = detoured \cup {s} /\ accepted \subseteq accepted'
    BY <1>0, <1>6 DEF EmitSaturated
  <2>2. PipeKept
    BY <1>4, <2>0, <2>1 DEF Pipe
  <2>3. LiveReach'
    <3>. SUFFICES ASSUME closing = "open", NEW t \in live, t \notin detoured', NEW l \in Types,
                         Ev(t, l) \in emitted'
                  PROVE  Reaches(Ev(t, l))'
      BY <1>0 DEF LiveReach
    <3>1. Ev(t, l) # e /\ Ev(t, l).session = t
      BY <2>1 DEF Ev
    <3>2. Ev(t, l) \in emitted /\ Ev(t, l) \in Events
      BY <1>0, <3>1 DEF TInv, UsageTypeOK
    <3>3. Reaches(Ev(t, l))
      BY <1>0, <2>1, <3>2 DEF OrderParts, LiveReach
    <3>. QED  BY <2>2, <3>1, <3>2, <3>3 DEF PipeKept
  <2>. QED  BY <1>2, <1>3, <2>2, <2>3 DEF OrderParts, PipeKept
<1>7. CASE EmitQueued(e)
  <2>1. /\ PipeInOrder' /\ ClaimsInOrder' /\ StartFirst'
        /\ \A x \in Events : Reaches(x)' <=> Reaches(x) \/ x = e
    BY <1>0, <1>7, PipeGrows
  <2>2. LiveReach'
    <3>. SUFFICES ASSUME closing = "open", NEW t \in live, t \notin detoured', NEW l \in Types,
                         Ev(t, l) \in emitted'
                  PROVE  Reaches(Ev(t, l))'
      BY <1>0 DEF LiveReach
    <3>1. detoured' = detoured
      BY <1>7 DEF EmitQueued
    <3>2. Ev(t, l) \in Events
      BY DEF TInv, UsageTypeOK
    <3>3. CASE Ev(t, l) \in emitted
      BY <1>0, <2>1, <3>1, <3>2, <3>3 DEF OrderParts, LiveReach
    <3>4. CASE Ev(t, l) = e
      BY <2>1, <3>2, <3>4
    <3>. QED  BY <1>0, <3>3, <3>4
  <2>. QED  BY <1>2, <1>3, <2>1, <2>2 DEF OrderParts
<1>. QED  BY <1>5, <1>6, <1>7 DEF Emit

LEMMA RestartOrders ==
  ASSUME TInv, DownIsEmpty, OrderParts, Restart
  PROVE  OrderParts'
<1>1. /\ ~up /\ UNCHANGED <<emitted, live, queue, job, detoured, claimed>>
  BY DEF Restart, historyVars, storeVars
<1>2. queue = <<>> /\ job["flush"] = Idle
  BY <1>1, PipeIs DEF DownIsEmpty
<1>3. Pipe = <<>>
  BY <1>2, IdleIsJob, ConcatEmptySeq, RangeOfNone DEF Pipe
<1>4. InOrder(Pipe)' /\ \A e \in Events : ~Piped(e)' /\ ~Piped(e)
  BY <1>1, <1>3, EmptyInOrder DEF Piped, InOrder, Pipe
<1>5. PipeKept
  BY <1>1, <1>4, PipeCut DEF OrderParts
<1>6. EmittedInOrder' /\ DownUnstarted'
  BY <1>1 DEF Restart, OrderParts, EmittedInOrder, DownUnstarted
<1>7. LiveReach'
  <2>. SUFFICES ASSUME NEW s \in live, NEW k \in Types, Ev(s, k) \in emitted
                PROVE  FALSE
    BY <1>1 DEF LiveReach
  <2>. QED  BY <1>1 DEF OrderParts, DownUnstarted, EmittedInOrder, TInv, UsageTypeOK
<1>. QED  BY <1>5, <1>6, <1>7 DEF OrderParts, PipeKept

LEMMA GoneOrders ==
  ASSUME TInv, OthersDetoured, OrderParts, ProcessGone
  PROVE  OrderParts'
<1>1. ~up' /\ emitted' = emitted /\ live' = {s \in live : Ev(s, "started") \notin emitted}
  BY DEF ProcessGone
<1>2. EmittedInOrder' /\ DownUnstarted' /\ LiveReach'
  BY <1>1 DEF OrderParts, EmittedInOrder, DownUnstarted, LiveReach
<1>. QED  BY <1>2, GoneCutsPipe DEF OrderParts, PipeKept

LEMMA OrderStep ==
  ASSUME TInv, TInv', OneHandler, DownIsEmpty, OthersDetoured, OrderParts, [Next]_vars
  PROVE  OrderParts'
<1>1. CASE UNCHANGED <<bufferVars, detoured, claimed>> /\ \E j : job' = [job EXCEPT !["replay"] = j]
  <2>1. Pipe' = Pipe /\ \A e \in Events : Handling("flush", e)' <=> Handling("flush", e)
    <3>1. job'["flush"] = job["flush"]
      BY <1>1, PipeIs DEF TInv, UsageTypeOK
    <3>. QED  BY <1>1, <3>1 DEF Pipe, Handling, bufferVars
  <2>2. PipeKept
    BY <1>1, <2>1, PipeStays DEF OrderParts, bufferVars
  <2>. QED  BY <1>1, <2>2, PartsFollow DEF bufferVars
<1>2. CASE UNCHANGED <<bufferVars, detoured, claimed, job>>
  <2>1. job' = [job EXCEPT !["replay"] = job["replay"]]
    BY <1>2 DEF TInv, UsageTypeOK
  <2>. QED  BY <1>1, <1>2, <2>1
<1>3. ASSUME NEW w \in Writers, WriterStep(w) PROVE OrderParts'
  <2>1. PipeKept
    BY <1>3, FlushKeepsPipe, OthersKeepPipe DEF OrderParts
  <2>2. UNCHANGED <<emitted, live, up>> /\ detoured \subseteq detoured'
        /\ (closing' # closing => closing' = "flushed")
    BY <1>3, WriterMoves
  <2>. QED  BY <2>1, <2>2, PartsFollow
<1>4. CASE FlushTimer \/ BeginShutdown
  <2>1. PipeKept
    BY <1>4, FlushStartsPipe DEF OrderParts
  <2>2. UNCHANGED <<emitted, live, up, detoured>> /\ closing = "open"
    BY <1>4 DEF FlushTimer, BeginShutdown, historyVars
  <2>. QED  BY <2>1, <2>2, PartsFollow
<1>5. CASE ShutdownTimeout
  <2>1. PipeKept
    BY <1>5, TimeoutCutsPipe DEF OrderParts
  <2>2. UNCHANGED <<emitted, live, up>> /\ detoured \subseteq detoured' /\ closing' # "open"
    BY <1>5 DEF ShutdownTimeout
  <2>. QED  BY <2>1, <2>2, PartsFollow
<1>6. CASE ReplayStarts \/ ReplayStops \/ ReplayRenames
  BY <1>1, <1>6 DEF ReplayStarts, ReplayStops, ReplayRenames, historyVars, storeVars
<1>7. ASSUME NEW s \in Sessions, ReconcileSession(s) \/ ReconcileTool(s) PROVE OrderParts'
  BY <1>2, <1>7 DEF ReconcileSession, ReconcileTool, historyVars, storeVars
<1>8. CASE UNCHANGED vars
  BY <1>2, <1>8 DEF vars, historyVars, storeVars
<1>. QED
  BY <1>3, <1>4, <1>5, <1>6, <1>7, <1>8, EmitOrders, RestartOrders, GoneOrders
  DEF Next, ProcessExit, Crash

-----------------------------------------------------------------------------
(* The status of a session in order is how far the flush loop has got.       *)
InApply(e) == job["flush"].step = "apply" /\ Head(job["flush"].events) = e
Done(s, k) == Ev(s, k) \in claimed /\ ~InApply(Ev(s, k))
Progress(s) ==
  IF Done(s, "ended") THEN "ended"
  ELSE IF Done(s, "running") THEN "running"
  ELSE IF Done(s, "started") THEN "queued" ELSE "none"

StatusIsProgress ==
  \A s \in Sessions \ detoured : status[s] # "timedOut" => status[s] = Progress(s)

LEMMA AppliedIsDone ==
  ASSUME TInv, OthersDetoured, NEW s \in Sessions \ detoured, NEW k \in Types
  PROVE  Applied(s, k) <=> Done(s, k)
<1>1. ASSUME NEW w \in Writers, job[w].step = "apply", Head(job[w].events) = Ev(s, k)
      PROVE  w = "flush"
  <2>1. Head(job[w].events) \in Range(job[w].events) /\ Ev(s, k).session = s
    BY <1>1, HeldJob, RangeOfTail DEF Ev
  <2>. QED  BY <1>1, <2>1 DEF OthersDetoured
<1>. QED  BY <1>1, PipeIs DEF Applied, Applying, Done, InApply

LEMMA FollowsIsProgress ==
  TInv /\ OthersDetoured => (StatusFollowsEvents <=> StatusIsProgress)
<1>. SUFFICES ASSUME TInv, OthersDetoured PROVE StatusFollowsEvents <=> StatusIsProgress
  OBVIOUS
<1>1. \A s \in Sessions \ detoured, k \in Types : Applied(s, k) <=> Done(s, k)
  BY AppliedIsDone
<1>2. ASSUME NEW s \in Sessions \ detoured
      PROVE  (CASE Applied(s, "ended")   -> "ended"
                [] Applied(s, "running") /\ ~Applied(s, "ended") -> "running"
                [] Applied(s, "started") /\ ~Applied(s, "running") /\ ~Applied(s, "ended") -> "queued"
                [] OTHER -> "none") = Progress(s)
  <2>1. /\ Applied(s, "ended") <=> Done(s, "ended")
        /\ Applied(s, "running") <=> Done(s, "running")
        /\ Applied(s, "started") <=> Done(s, "started")
    BY <1>1 DEF Types
  <2>. QED  BY <2>1 DEF Progress
<1>. QED  BY <1>2 DEF StatusFollowsEvents, StatusIsProgress

LEMMA FollowsIsProgressNext ==
  TInv' /\ OthersDetoured' => (StatusFollowsEvents' <=> StatusIsProgress')
BY FollowsIsProgress, PTL

LEMMA ProgressKept ==
  ASSUME StatusIsProgress, detoured \subseteq detoured',
         \A s \in Sessions \ detoured' :
           /\ status'[s] = status[s] \/ status'[s] = "timedOut"
           /\ \A k \in {"started", "running", "ended"} : Done(s, k)' <=> Done(s, k)
  PROVE  StatusIsProgress'
<1>. SUFFICES ASSUME NEW s \in Sessions \ detoured', status'[s] # "timedOut"
              PROVE  status'[s] = Progress(s)'
  BY DEF StatusIsProgress
<1>1. status'[s] = status[s] /\ status[s] = Progress(s)
  BY DEF StatusIsProgress
<1>2. /\ Done(s, "started")' <=> Done(s, "started")
      /\ Done(s, "running")' <=> Done(s, "running")
      /\ Done(s, "ended")' <=> Done(s, "ended")
  OBVIOUS
<1>. QED  BY <1>1, <1>2 DEF Progress

(* The event being applied comes after what its session has had applied.     *)
LEMMA InHandIsNext ==
  ASSUME TInv, OneHandler, OrderParts, NEW s \in Sessions \ detoured, NEW k \in Types,
         InApply(Ev(s, k))
  PROVE  /\ Ev(s, k) \in claimed
         /\ k \in {"running", "ended"} => Ev(s, "started") \in claimed
         /\ k \in {"started", "running"} => Ev(s, "ended") \notin claimed
         /\ k = "started" => Ev(s, "running") \notin claimed
<1>. DEFINE e == Ev(s, k)
<1>1. /\ e \in Events /\ e.session = s /\ e.type = k /\ Handling("flush", e)
      /\ Head(Pipe) = e /\ Piped(e) /\ Pipe \in Seq(Events) /\ Pipe # <<>>
  BY EvIsEvent, PipeIs DEF InApply, Handling, Ev
<1>2. e \in claimed
  BY <1>1, PipeIs DEF OneHandler
<1>3. ASSUME NEW l \in Types, <<k, l>> \in Before, Ev(s, l) \in claimed PROVE FALSE
  <2>1. Ev(s, l).session = s /\ Precedes(e, Ev(s, l))
    BY <1>1, <1>3 DEF Precedes, Ev
  <2>. QED  BY <1>1, <1>3, <2>1 DEF OrderParts, ClaimsInOrder
<1>4. ASSUME k \in {"running", "ended"} PROVE Ev(s, "started") \in claimed
  <2>. DEFINE a == Ev(s, "started")
  <2>1. a \in Events /\ a.session = s /\ a.type = "started"
    BY EvIsEvent DEF Types, Ev
  <2>2. Reaches(a)
    BY <1>2 DEF OrderParts, StartFirst, Reaches
  <2>3. Precedes(a, e)
    BY <1>1, <1>4, <2>1 DEF Precedes, Before
  <2>4. ~Piped(a)
    BY <1>1, <1>2, <2>1, <2>3 DEF OrderParts, ClaimsInOrder
  <2>. QED  BY <2>2, <2>4 DEF Reaches
<1>. QED  BY <1>1, <1>2, <1>3, <1>4 DEF Before, Types

LEMMA ApplyProgress ==
  ASSUME TInv, OneHandler, OrderParts, StatusIsProgress, Apply("flush")
  PROVE  StatusIsProgress'
<1>. DEFINE H == Head(job["flush"].events)
<1>1. /\ job["flush"].step = "apply" /\ ApplyOne(H) /\ UNCHANGED <<historyVars, storeVars>>
      /\ H \in Events /\ H.session \in Sessions /\ H.type \in Types /\ H = Ev(H.session, H.type)
  BY HeldJob, PipeIs DEF Apply, Events, Ev
<1>2. job'["flush"].step # "apply"
  <2>1. CASE NextEvent("flush")
    BY <1>1, <2>1, FlushAdvances
  <2>2. CASE ~NextEvent("flush")
    <3>. DEFINE j == [job["flush"] EXCEPT !.step = FollowUp(H)]
    <3>1. job' = [job EXCEPT !["flush"] = j] /\ FollowUp(H) # "none"
      BY <2>2 DEF Apply
    <3>2. j.step \in {"count", "propagate"}
      BY <3>1, PipeIs, FollowUps DEF Jobs, TInv, UsageTypeOK
    <3>. HIDE DEF j
    <3>. QED  BY <3>1, <3>2, PipeIs DEF TInv, UsageTypeOK
  <2>. QED  BY <2>1, <2>2
<1>3. claimed' = claimed /\ detoured' = detoured /\ status \in [Sessions -> {"none", "queued", "running", "ended", "timedOut"}]
  BY <1>1 DEF historyVars, storeVars, TInv, UsageTypeOK
<1>4. \A s \in Sessions, k \in Types :
        /\ Done(s, k)' <=> Ev(s, k) \in claimed
        /\ Done(s, k) <=> Ev(s, k) \in claimed /\ Ev(s, k) # H
  BY <1>1, <1>2, <1>3 DEF Done, InApply
<1>. SUFFICES ASSUME NEW s \in Sessions, s \notin detoured, status'[s] # "timedOut"
              PROVE  status'[s] = Progress(s)'
  BY <1>3 DEF StatusIsProgress
<1>5. ASSUME status'[s] = status[s],
             \A k \in {"started", "running", "ended"} : Done(s, k)' <=> Done(s, k)
      PROVE  status'[s] = Progress(s)'
  <2>1. status[s] = Progress(s)
    BY <1>5 DEF StatusIsProgress
  <2>2. /\ Done(s, "started")' <=> Done(s, "started")
        /\ Done(s, "running")' <=> Done(s, "running")
        /\ Done(s, "ended")' <=> Done(s, "ended")
    BY <1>5
  <2>. QED  BY <1>5, <2>1, <2>2 DEF Progress
<1>6. CASE s # H.session \/ H.type \notin {"started", "running", "ended"}
  <2>1. status'[s] = status[s]
    BY <1>1, <1>3, <1>6 DEF ApplyOne, ApplyStarted, ApplyRunning, ApplyEnded, ApplyDelta,
                            ApplyToolStarted, ApplyToolEnded
  <2>2. \A k \in {"started", "running", "ended"} : Ev(s, k) # H /\ k \in Types
    BY <1>6 DEF Ev, Types
  <2>. QED  BY <1>4, <1>5, <2>1, <2>2
<1>7. CASE s = H.session /\ H.type \in {"started", "running", "ended"}
  <2>0. /\ Ev(s, H.type) = H /\ InApply(Ev(s, H.type)) /\ H.type \in Types
        /\ {"started", "running", "ended"} \subseteq Types
        /\ \A k \in Types : Ev(s, k) = H <=> k = H.type
    BY <1>1, <1>7 DEF InApply, Ev, Types
  <2>1. /\ H \in claimed
        /\ H.type \in {"running", "ended"} => Ev(s, "started") \in claimed
        /\ H.type \in {"started", "running"} => Ev(s, "ended") \notin claimed
        /\ H.type = "started" => Ev(s, "running") \notin claimed
    BY <2>0, InHandIsNext
  <2>2. /\ Done(s, "started")' <=> Ev(s, "started") \in claimed
        /\ Done(s, "running")' <=> Ev(s, "running") \in claimed
        /\ Done(s, "ended")' <=> Ev(s, "ended") \in claimed
        /\ Done(s, "started") <=> Ev(s, "started") \in claimed /\ H.type # "started"
        /\ Done(s, "running") <=> Ev(s, "running") \in claimed /\ H.type # "running"
        /\ Done(s, "ended") <=> Ev(s, "ended") \in claimed /\ H.type # "ended"
    BY <1>4, <2>0
  <2>3. status[s] = "timedOut" \/ status[s] = Progress(s)
    BY DEF StatusIsProgress
  <2>4. CASE H.type = "started"
    <3>1. status' = [status EXCEPT ![s] = IF @ = "none" THEN "queued" ELSE @]
      BY <1>1, <1>7, <2>4 DEF ApplyOne, ApplyStarted
    <3>2. Progress(s) = "none" /\ Progress(s)' = "queued"
      BY <2>0, <2>1, <2>2, <2>4 DEF Progress
    <3>. QED  BY <1>3, <2>3, <3>1, <3>2
  <2>5. CASE H.type = "running"
    <3>1. status' = [status EXCEPT ![s] = IF @ = "queued" THEN "running" ELSE @]
      BY <1>1, <1>7, <2>5 DEF ApplyOne, ApplyRunning
    <3>2. Progress(s) = "queued" /\ Progress(s)' = "running"
      BY <2>0, <2>1, <2>2, <2>5 DEF Progress
    <3>. QED  BY <1>3, <2>3, <3>1, <3>2
  <2>6. CASE H.type = "ended"
    <3>1. status' = [status EXCEPT ![s] = IF Matched(s) THEN "ended" ELSE @]
      BY <1>1, <1>7, <2>6 DEF ApplyOne, ApplyEnded
    <3>2. Progress(s) \in {"queued", "running"} /\ Progress(s)' = "ended"
      BY <2>0, <2>1, <2>2, <2>6 DEF Progress
    <3>. QED  BY <1>3, <2>3, <3>1, <3>2 DEF Matched
  <2>. QED  BY <1>7, <2>4, <2>5, <2>6
<1>. QED  BY <1>6, <1>7

LEMMA FlushProgress ==
  ASSUME TInv, TInv', OneHandler, OrderParts, StatusIsProgress, WriterStep("flush")
  PROVE  StatusIsProgress'
<1>0. "flush" \in Writers /\ job \in [Writers -> Jobs] /\ job["flush"] \in Jobs
  BY PipeIs DEF TInv, UsageTypeOK
<1>1. ASSUME UNCHANGED <<status, claimed>>, detoured \subseteq detoured',
             job'["flush"].step # "apply",
             job["flush"].step = "apply" => Head(job["flush"].events).session \in detoured'
      PROVE  StatusIsProgress'
  <2>1. \A s \in Sessions \ detoured', k \in Types : Done(s, k)' <=> Done(s, k)
    <3>. SUFFICES ASSUME NEW s \in Sessions \ detoured', NEW k \in Types
                  PROVE  ~InApply(Ev(s, k)) /\ ~InApply(Ev(s, k))'
      BY <1>1 DEF Done
    <3>1. Ev(s, k).session = s
      BY DEF Ev
    <3>. QED  BY <1>1, <3>1 DEF InApply
  <2>. QED  BY <1>1, <2>1, ProgressKept DEF Types
<1>2. CASE Insert("flush") \/ InsertFails("flush") \/ InsertSwallowed("flush")
  <2>1. /\ job["flush"].step = "insert" /\ UNCHANGED <<detoured, claimed, projection>>
        /\ \/ job' = [job EXCEPT !["flush"].step = "claim"]
           \/ job' = [job EXCEPT !["flush"].tries = @ - 1]
           \/ job' = [job EXCEPT !["flush"].step = "bury"]
    BY <1>2 DEF Insert, InsertFails, InsertSwallowed, historyVars
  <2>2. job'["flush"].step # "apply"
    BY <1>0, <2>1 DEF Jobs
  <2>. QED  BY <1>1, <2>1, <2>2 DEF projection
<1>3. CASE Bury("flush")
  <2>1. PICK j \in Jobs : Turned("flush", j)
    BY <1>0, <1>3, JobDoneTurns DEF Bury
  <2>2. job'["flush"].step # "apply"
    BY <1>0, <2>1, IdleIsJob DEF Turned
  <2>3. job["flush"].step = "bury" /\ UNCHANGED <<claimed, projection>> /\ detoured \subseteq detoured'
    BY <1>3 DEF Bury
  <2>. QED  BY <1>1, <2>2, <2>3 DEF projection
<1>4. CASE ApplyFails("flush")
  <2>1. /\ NextEvent("flush") /\ job["flush"].step # "idle" /\ UNCHANGED <<storeVars, projection>>
        /\ detoured \subseteq detoured' /\ Head(job["flush"].events).session \in detoured'
    BY <1>4 DEF ApplyFails
  <2>. QED  BY <1>1, <2>1, FlushAdvances DEF storeVars, projection
<1>5. CASE Count("flush") \/ Propagate("flush")
  <2>1. /\ NextEvent("flush") /\ job["flush"].step \in {"count", "propagate"}
        /\ UNCHANGED <<historyVars, storeVars, status>>
    BY <1>5 DEF Count, Propagate
  <2>. QED  BY <1>1, <2>1, FlushAdvances DEF storeVars, historyVars
<1>6. CASE Claim("flush") /\ Head(job["flush"].events) \in claimed
  <2>1. /\ NextEvent("flush") /\ job["flush"].step = "claim"
        /\ UNCHANGED <<historyVars, claimed, projection>>
    BY <1>6 DEF Claim
  <2>. QED  BY <1>1, <2>1, FlushAdvances DEF historyVars, projection
<1>7. CASE Claim("flush") /\ Head(job["flush"].events) \notin claimed
  <2>. DEFINE H == Head(job["flush"].events)
              j == [job["flush"] EXCEPT !.step = "apply"]
  <2>1. /\ job["flush"].step = "claim" /\ job' = [job EXCEPT !["flush"] = j]
        /\ claimed' = claimed \cup {H} /\ UNCHANGED <<historyVars, projection>>
    BY <1>7 DEF Claim
  <2>2. j.step = "apply" /\ j.events = job["flush"].events
    BY <1>0 DEF Jobs
  <2>. HIDE DEF j
  <2>3. job'["flush"] = j
    BY <1>0, <2>1
  <2>4. \A e : (InApply(e)' <=> e = H) /\ ~InApply(e)
    BY <2>1, <2>2, <2>3 DEF InApply
  <2>5. \A s \in Sessions, k \in Types : Done(s, k)' <=> Done(s, k)
    BY <1>7, <2>1, <2>4 DEF Done
  <2>. QED  BY <2>1, <2>5, ProgressKept DEF historyVars, projection, Types
<1>. QED  BY <1>2, <1>3, <1>4, <1>5, <1>6, <1>7, ApplyProgress DEF WriterStep

(* Other writers work for sessions out of order only. *)
LEMMA OthersProgress ==
  ASSUME TInv, OthersDetoured, StatusIsProgress, NEW w \in Writers, w # "flush", WriterStep(w)
  PROVE  StatusIsProgress'
<1>. DEFINE H == Head(job[w].events)
<1>0. job[w].step # "idle"
  BY DEF WriterStep, Insert, InsertFails, InsertSwallowed, Bury, Claim, ApplyFails, Apply, Count, Propagate
<1>1. detoured \subseteq detoured' /\ job'["flush"] = job["flush"]
  <2>1. \E j : job' = [job EXCEPT ![w] = j]
    BY WriterMoves
  <2>. QED  BY <2>1, WriterMoves, PipeIs DEF TInv, UsageTypeOK
<1>2. H.session \in detoured /\ H.session \in Sessions
  BY <1>0, HeldJob, RangeOfTail DEF OthersDetoured
<1>3. claimed' = claimed \/ claimed' = claimed \cup {H}
  BY DEF WriterStep, Insert, InsertFails, InsertSwallowed, Bury, Claim, ApplyFails, Apply, Count, Propagate, storeVars
<1>4. \A s \in Sessions \ detoured : status'[s] = status[s]
  <2>1. CASE Apply(w)
    <3>1. ApplyOne(H) /\ status \in [Sessions -> {"none", "queued", "running", "ended", "timedOut"}]
      BY <2>1 DEF Apply, TInv, UsageTypeOK
    <3>. QED  BY <1>2, <3>1 DEF ApplyOne, ApplyStarted, ApplyRunning, ApplyEnded, ApplyDelta,
                                ApplyToolStarted, ApplyToolEnded
  <2>2. CASE ~Apply(w)
    BY <2>2 DEF WriterStep, Insert, InsertFails, InsertSwallowed, Bury, Claim, ApplyFails, Count, Propagate, projection
  <2>. QED  BY <2>1, <2>2
<1>5. \A s \in Sessions \ detoured, k \in Types : Done(s, k)' <=> Done(s, k)
  <2>. SUFFICES ASSUME NEW s \in Sessions \ detoured, NEW k \in Types
                PROVE  Done(s, k)' <=> Done(s, k)
    OBVIOUS
  <2>1. Ev(s, k) # H
    BY <1>2 DEF Ev
  <2>. QED  BY <1>1, <1>3, <2>1 DEF Done, InApply
<1>. QED  BY <1>1, <1>4, <1>5, ProgressKept DEF Types

LEMMA ProgressStep ==
  ASSUME TInv, TInv', OneHandler, OthersDetoured, OrderParts, StatusIsProgress, [Next]_vars
  PROVE  StatusIsProgress'
<1>1. ASSUME claimed' = claimed, detoured \subseteq detoured',
             \A s \in Sessions : status'[s] = status[s] \/ status'[s] = "timedOut",
             \/ /\ job'["flush"].step = job["flush"].step
                /\ Head(job'["flush"].events) = Head(job["flush"].events)
             \/ job["flush"].step # "apply" /\ job'["flush"].step # "apply"
      PROVE  StatusIsProgress'
  <2>1. \A s \in Sessions, k \in Types : Done(s, k)' <=> Done(s, k)
    BY <1>1 DEF Done, InApply
  <2>. QED  BY <1>1, <2>1, ProgressKept DEF Types
<1>2. ASSUME NEW s \in Sessions, NEW k \in Types, Emit(s, k) PROVE StatusIsProgress'
  <2>. DEFINE e == Ev(s, k)
  <2>1. /\ UNCHANGED <<storeVars, projection>>
        /\ EmitAfterShutdown(e) \/ EmitSaturated(e) \/ EmitQueued(e)
    BY <1>2 DEF Emit
  <2>2. CASE job'["flush"] = job["flush"]
    BY <1>1, <2>1, <2>2 DEF EmitAfterShutdown, EmitSaturated, EmitQueued, storeVars, projection
  <2>3. CASE job'["flush"] # job["flush"]
    <3>1. /\ job["flush"] = Idle /\ detoured' = detoured
          /\ job' = [job EXCEPT !["flush"] = Batch(Append(queue, e))]
      BY <2>1, <2>3, UsageAssumption
      DEF EmitAfterShutdown, EmitSaturated, EmitQueued, TInv, UsageTypeOK, Writers
    <3>2. job'["flush"].step = "insert"
      BY <3>1, PipeIs DEF TInv, UsageTypeOK, Batch
    <3>. QED  BY <1>1, <2>1, <3>1, <3>2, IdleIsJob DEF storeVars, projection
  <2>. QED  BY <2>2, <2>3
<1>3. CASE FlushTimer \/ BeginShutdown
  <2>1. UNCHANGED <<historyVars, storeVars, projection>>
    BY <1>3 DEF FlushTimer, BeginShutdown
  <2>2. CASE job' = job
    BY <1>1, <2>1, <2>2 DEF historyVars, storeVars, projection
  <2>3. CASE job' # job
    <3>1. job["flush"] = Idle /\ job'["flush"].step = "insert"
      BY <1>3, <2>3, PipeIs DEF FlushTimer, BeginShutdown, TInv, UsageTypeOK, Batch
    <3>. QED  BY <1>1, <2>1, <3>1, IdleIsJob DEF historyVars, storeVars, projection
  <2>. QED  BY <2>2, <2>3
<1>4. ASSUME NEW w \in Writers, WriterStep(w) PROVE StatusIsProgress'
  BY <1>4, FlushProgress, OthersProgress
<1>5. CASE ReplayStarts \/ ReplayStops \/ ReplayRenames
  <2>1. job'["flush"] = job["flush"]
    BY <1>5, PipeIs DEF ReplayStarts, ReplayStops, ReplayRenames, TInv, UsageTypeOK
  <2>2. claimed' = claimed /\ detoured' = detoured /\ status' = status
    BY <1>5 DEF ReplayStarts, ReplayStops, ReplayRenames, historyVars, storeVars, projection
  <2>. QED  BY <1>1, <2>1, <2>2
<1>6. ASSUME NEW s \in Sessions, ReconcileSession(s) \/ ReconcileTool(s) PROVE StatusIsProgress'
  <2>1. /\ UNCHANGED <<historyVars, job, storeVars>>
        /\ status' = status \/ status' = [status EXCEPT ![s] = "timedOut"]
    BY <1>6 DEF ReconcileSession, ReconcileTool
  <2>2. \A t \in Sessions : status'[t] = status[t] \/ status'[t] = "timedOut"
    BY <2>1 DEF TInv, UsageTypeOK
  <2>. QED  BY <1>1, <2>1, <2>2 DEF historyVars, storeVars
<1>7. CASE ShutdownTimeout \/ Restart
  BY <1>1, <1>7 DEF ShutdownTimeout, Restart, historyVars, storeVars, projection
<1>8. CASE ProcessGone
  <2>1. /\ job'["flush"] = Idle /\ claimed' = claimed /\ status' = status
        /\ detoured \subseteq detoured'
    BY <1>8, PipeIs DEF ProcessGone, storeVars, projection
  <2>2. job["flush"].step = "apply" => Head(job["flush"].events).session \in detoured'
    <3>. SUFFICES ASSUME job["flush"].step = "apply"
                  PROVE  Head(job["flush"].events).session \in detoured'
      OBVIOUS
    <3>1. "flush" \in {v \in Writers \ {"replay"} : job[v] # Idle}
      BY PipeIs, IdleIsJob
    <3>2. Head(job["flush"].events) \in {Head(job[w].events) :
                                           w \in {v \in Writers \ {"replay"} : job[v] # Idle}}
      BY <3>1
    <3>. QED  BY <1>8, <3>2 DEF ProcessGone
  <2>3. ASSUME NEW s \in Sessions \ detoured', NEW k \in Types PROVE Done(s, k)' <=> Done(s, k)
    <3>1. Ev(s, k).session = s
      BY DEF Ev
    <3>. QED  BY <2>1, <2>2, <3>1, IdleIsJob DEF Done, InApply
  <2>. QED  BY <2>1, <2>3, ProgressKept DEF Types
<1>9. CASE UNCHANGED vars
  BY <1>1, <1>9 DEF vars, historyVars, storeVars, projection
<1>. QED
  BY <1>2, <1>3, <1>4, <1>5, <1>6, <1>7, <1>8, <1>9 DEF Next, ProcessExit, Crash

-----------------------------------------------------------------------------
LEMMA OrderInit == Init => OthersDetoured /\ OrderParts /\ StatusFollowsEvents
<1>. SUFFICES ASSUME Init PROVE OthersDetoured /\ OrderParts /\ StatusFollowsEvents
  OBVIOUS
<1>0. TInv /\ "flush" \in Writers
  BY TInit DEF Writers
<1>1. /\ claimed = {} /\ emitted = {} /\ deadLetter = <<>> /\ queue = <<>> /\ up = TRUE
      /\ job = [w \in Writers |-> Idle] /\ status = [s \in Sessions |-> "none"]
  BY DEF Init
<1>2. OthersDetoured
  BY <1>1, IdleIsJob, RangeOfNone DEF OthersDetoured
<1>3. Pipe = <<>>
  BY <1>0, <1>1, IdleIsJob, ConcatEmptySeq, RangeOfNone DEF Pipe
<1>4. InOrder(Pipe) /\ \A e : ~Piped(e)
  BY <1>3, EmptyInOrder DEF Piped
<1>5. OrderParts
  BY <1>1, <1>4 DEF OrderParts, PipeInOrder, ClaimsInOrder, StartFirst, Reaches,
                    EmittedInOrder, LiveReach, DownUnstarted
<1>6. StatusIsProgress
  BY <1>1 DEF StatusIsProgress, Progress, Done
<1>. QED  BY <1>0, <1>2, <1>5, <1>6, FollowsIsProgress

(* The document of a session whose events kept their order says what the     *)
(* events applied say, or what the reconciler has made of it.                *)
THEOREM StatusesFollow == Spec => []StatusFollowsEvents
<1>. DEFINE Inv == CountInv /\ ExitParts /\ OthersDetoured /\ OrderParts /\ StatusFollowsEvents
<1>1. Init => Inv
  BY CountInit, ExitInit, OrderInit DEF ExitInv
<1>2. Inv /\ [Next]_vars => Inv'
  <2>. SUFFICES ASSUME Inv, [Next]_vars PROVE Inv'
    OBVIOUS
  <2>1. CountInv' /\ TInv /\ TInv' /\ OneHandler
    BY CountStep, TStep DEF CountInv
  <2>2. ExitParts' /\ OthersDetoured'
    BY <2>1, ExitPartsStep, OthersStep
  <2>3. OrderParts'
    BY <2>1, OrderStep DEF ExitParts
  <2>4. StatusIsProgress'
    BY <2>1, FollowsIsProgress, ProgressStep
  <2>. QED  BY <2>1, <2>2, <2>3, <2>4, FollowsIsProgressNext
<1>3. Inv => StatusFollowsEvents
  OBVIOUS
<1>. QED  BY <1>1, <1>2, <1>3, PTL DEF Spec

=============================================================================
