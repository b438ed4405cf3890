------------------------------ MODULE ChainProofs ------------------------------
(***************************************************************************)
(* Any number of tasks may emit through any number of chains and typed      *)
(* emitters at once, while chains are cloned and prolonged, and give emits  *)
(* up: every event that is published went through the steps of its sender,  *)
(* latest first, and the numbers of a step are neither reused, nor lost,    *)
(* nor out of order within a task.                                          *)
(***************************************************************************)
EXTENDS Chain, SequenceTheorems, TLAPS

-----------------------------------------------------------------------------
(* Sequences *)

LEMMA FrontAndLast ==
  ASSUME NEW S, NEW s \in Seq(S), s # << >>
  PROVE  /\ Len(s) \in Nat /\ Len(s) > 0
         /\ Last(s) \in S /\ Last(s) = s[Len(s)]
         /\ Front(s) \in Seq(S) /\ Len(Front(s)) = Len(s) - 1
         /\ \A i \in 1..(Len(s) - 1) : Front(s)[i] = s[i]
<1>1. Len(s) \in Nat /\ Len(s) > 0
  <2>1. Len(s) \in Nat \ {0}
    BY EmptySeq
  <2> QED
    BY <2>1
<1>2. \A i \in 1..Len(s) : s[i] \in S
  BY ElementOfSeq
<1>3. Last(s) \in S /\ Last(s) = s[Len(s)]
  BY <1>1, <1>2 DEF Last
<1>4. Front(s) = SubSeq(s, 1, Len(s) - 1) /\ Len(s) - 1 \in Nat
  BY <1>1 DEF Front
<1>5. \A i \in 1..(Len(s) - 1) : s[i] \in S
  BY <1>1, <1>2
<1>6. /\ Front(s) \in Seq(S)
      /\ Len(Front(s)) = IF 1 <= Len(s) - 1 THEN Len(s) - 1 - 1 + 1 ELSE 0
      /\ \A i \in 1..(Len(s) - 1 - 1 + 1) : Front(s)[i] = s[1 + i - 1]
  BY <1>4, <1>5, SubSeqProperties
<1>7. Len(Front(s)) = Len(s) - 1
  <2> DEFINE n == Len(s)
  <2>1. n \in Nat /\ n > 0 /\ Len(Front(s)) = IF 1 <= n - 1 THEN n - 1 - 1 + 1 ELSE 0
    BY <1>1, <1>6
  <2> HIDE DEF n
  <2>2. Len(Front(s)) = n - 1
    BY <2>1
  <2> QED
    BY <2>2 DEF n
<1>8. ASSUME NEW i \in 1..(Len(s) - 1) PROVE Front(s)[i] = s[i]
  <2>1. i \in 1..(Len(s) - 1 - 1 + 1) /\ 1 + i - 1 = i
    BY <1>4
  <2> QED
    BY <1>6, <2>1
<1> QED
  BY <1>1, <1>3, <1>6, <1>7, <1>8

LEMMA ToSetEmpty == ToSet(<< >>) = {}
BY DEF ToSet

LEMMA ToSetAppend ==
  ASSUME NEW S, NEW s \in Seq(S), NEW e \in S
  PROVE  ToSet(Append(s, e)) = ToSet(s) \cup {e}
<1>1. /\ Append(s, e) \in Seq(S) /\ Len(Append(s, e)) = Len(s) + 1
      /\ \A i \in 1..Len(s) : Append(s, e)[i] = s[i]
      /\ Append(s, e)[Len(s) + 1] = e
  BY AppendProperties
<1>2. /\ Len(s) \in Nat /\ DOMAIN s = 1..Len(s)
      /\ DOMAIN Append(s, e) = 1..(Len(s) + 1)
  BY <1>1, LenProperties
<1>3. 1..(Len(s) + 1) = (1..Len(s)) \cup {Len(s) + 1}
  BY <1>2
<1> QED
  BY <1>1, <1>2, <1>3 DEF ToSet

LEMMA ToSetType ==
  ASSUME NEW S, NEW s \in Seq(S)
  PROVE  ToSet(s) \subseteq S
BY ElementOfSeq, LenProperties DEF ToSet

-----------------------------------------------------------------------------
(* Types, and the steps of an event *)

\* A task that does not emit has nothing in hand.
Resting ==
  \A t \in Tasks : sender[t] = None => todo[t] = << >> /\ marks[t] = << >> /\ asked[t] = << >>

\* The steps still to go and those gone through make up those of the sender.
MadeUp(d, ms, a) ==
  /\ Len(a) = Len(d) + Len(ms)
  /\ \A i \in 1..Len(d) : d[i] = a[i]
  /\ \A j \in 1..Len(ms) : ms[j].step = a[Len(a) - j + 1]

Underway == \A t \in Tasks : MadeUp(todo[t], marks[t], asked[t])

StepInv == TypeOK /\ Resting /\ Underway /\ LatestStepFirst

Published == [task : Tasks, marks : Seq(Mark), asked : Seq(Steps)]

LEMMA NothingMadeUp ==
  ASSUME NEW S, NEW a \in Seq(S)
  PROVE  MadeUp(a, << >>, a) /\ MadeUp(<< >>, << >>, << >>)
BY LenProperties, EmptySeq DEF MadeUp

\* One more step gone through.
LEMMA OneMore ==
  ASSUME NEW d \in Seq(Steps), NEW ms \in Seq(Mark), NEW a \in Seq(Steps), d # << >>,
         NEW m \in Mark, m.step = Last(d), MadeUp(d, ms, a)
  PROVE  MadeUp(Front(d), Append(ms, m), a)
<1>1. /\ Len(d) \in Nat /\ Len(d) > 0 /\ Last(d) = d[Len(d)] /\ Len(Front(d)) = Len(d) - 1
      /\ \A i \in 1..(Len(d) - 1) : Front(d)[i] = d[i]
  BY FrontAndLast
<1>2. /\ Len(Append(ms, m)) = Len(ms) + 1
      /\ \A i \in 1..Len(ms) : Append(ms, m)[i] = ms[i]
      /\ Append(ms, m)[Len(ms) + 1] = m
      /\ Len(ms) \in Nat /\ Len(a) \in Nat
  BY AppendProperties, LenProperties
<1>3. Len(a) = Len(Front(d)) + Len(Append(ms, m))
  BY <1>1, <1>2 DEF MadeUp
<1>4. \A i \in 1..Len(Front(d)) : Front(d)[i] = a[i]
  BY <1>1 DEF MadeUp
<1>5. ASSUME NEW j \in 1..Len(Append(ms, m))
      PROVE  Append(ms, m)[j].step = a[Len(a) - j + 1]
  <2>1. CASE j \in 1..Len(ms)
    BY <1>2, <2>1 DEF MadeUp
  <2>2. CASE j = Len(ms) + 1
    <3>1. Len(a) - j + 1 = Len(d) /\ d[Len(d)] = a[Len(d)]
      BY <1>1, <1>2, <2>2 DEF MadeUp
    <3> QED
      BY <1>1, <1>2, <2>2, <3>1
  <2> QED
    BY <1>2, <2>1, <2>2
<1> QED
  BY <1>3, <1>4, <1>5 DEF MadeUp

\* No step left to go: the marks are the steps, latest first.
LEMMA AllGone ==
  ASSUME NEW ms \in Seq(Mark), NEW a \in Seq(Steps), MadeUp(<< >>, ms, a)
  PROVE  StepsOf(ms) = Reverse(a)
<1>1. Len(ms) \in Nat /\ Len(a) = Len(ms)
  BY LenProperties, EmptySeq DEF MadeUp
<1>2. \A j \in 1..Len(ms) : ms[j].step = a[Len(a) - j + 1]
  BY DEF MadeUp
<1> QED
  BY <1>1, <1>2 DEF StepsOf, Reverse

LEMMA StepInvInit == Init => StepInv
<1> SUFFICES ASSUME Init PROVE StepInv
  OBVIOUS
<1> USE DEF Init
<1>1. TypeOK
  BY ChainConstants, EmptySeq DEF TypeOK, Senders
<1>2. Underway
  BY NothingMadeUp, EmptySeq DEF Underway
<1>3. Resting /\ LatestStepFirst
  BY EmptySeq DEF Resting, LatestStepFirst
<1> QED
  BY <1>1, <1>2, <1>3 DEF StepInv

(* Prepend, Clone and ToEmitter change the steps of a chain, and of no      *)
(* event that is on its way.                                                *)
LEMMA BuildSteps ==
  ASSUME StepInv, NEW c \in Chains,
         \/ \E st \in Steps : Prepend(c, st)
         \/ \E d \in Chains : Clone(c, d)
         \/ \E p \in Emitters : ToEmitter(c, p)
  PROVE  StepInv'
<1>1. UNCHANGED <<next, sender, todo, marks, ring, asked, lost>>
  BY DEF Prepend, Clone, ToEmitter
<1>2. live' \subseteq Senders /\ steps' \in [Senders -> Seq(Steps)]
  <2>1. CASE \E st \in Steps : Prepend(c, st)
    BY <2>1, AppendProperties DEF StepInv, TypeOK, Senders, Prepend
  <2>2. ASSUME NEW d \in Senders, live' = live \cup {d}, steps' = [steps EXCEPT ![d] = steps[c]]
        PROVE  live' \subseteq Senders /\ steps' \in [Senders -> Seq(Steps)]
    BY <2>2 DEF StepInv, TypeOK, Senders
  <2>3. CASE \E d \in Chains : Clone(c, d)
    BY <2>2, <2>3 DEF Senders, Clone
  <2>4. CASE \E p \in Emitters : ToEmitter(c, p)
    BY <2>2, <2>4 DEF Senders, ToEmitter
  <2> QED
    BY <2>1, <2>3, <2>4
<1>3. TypeOK'
  BY <1>1, <1>2 DEF StepInv, TypeOK
<1> QED
  BY <1>1, <1>3 DEF StepInv, Resting, Underway, LatestStepFirst

LEMMA EmitSteps ==
  ASSUME StepInv, NEW t \in Tasks, NEW s \in Senders, Emit(t, s)
  PROVE  StepInv'
<1>1. /\ sender[t] = None /\ sender' = [sender EXCEPT ![t] = s]
      /\ todo' = [todo EXCEPT ![t] = steps[s]]
      /\ asked' = [asked EXCEPT ![t] = steps[s]]
      /\ UNCHANGED <<live, steps, next, marks, ring, lost>>
      /\ steps[s] \in Seq(Steps) /\ marks[t] = << >>
  BY DEF Emit, Emitting, StepInv, TypeOK, Resting
<1>2. TypeOK'
  BY <1>1 DEF StepInv, TypeOK
<1>3. Resting'
  BY <1>1, ChainConstants DEF StepInv, TypeOK, Resting
<1>4. Underway'
  BY <1>1, NothingMadeUp DEF StepInv, TypeOK, Underway
<1> QED
  BY <1>1, <1>2, <1>3, <1>4 DEF StepInv, LatestStepFirst

\* What Process does to its task: the outermost step left gives its number.
LEMMA ProcessIs ==
  ASSUME TypeOK, NEW t \in Tasks, Process(t)
  PROVE  \E st \in Steps : \E m \in Mark :
           /\ m = [step |-> st, id |-> next[st]]
           /\ todo[t] # << >> /\ st = Last(todo[t])
           /\ todo' = [todo EXCEPT ![t] = Front(todo[t])]
           /\ marks' = [marks EXCEPT ![t] = Append(marks[t], m)]
           /\ next' = [next EXCEPT ![st] = next[st] + 1]
           /\ sender[t] # None
           /\ UNCHANGED <<live, steps, sender, ring, asked, lost>>
<1>1. todo[t] \in Seq(Steps) /\ todo[t] # << >>
  BY DEF Process, TypeOK
<1>2. Last(todo[t]) \in Steps
  BY <1>1, FrontAndLast
<1>3. [step |-> Last(todo[t]), id |-> next[Last(todo[t])]] \in Mark
  BY <1>2 DEF TypeOK, Mark
<1> QED
  BY <1>1, <1>2, <1>3 DEF Process, Emitting, TypeOK

LEMMA ProcessSteps ==
  ASSUME StepInv, NEW t \in Tasks, Process(t)
  PROVE  StepInv'
<1>1. PICK st \in Steps, m \in Mark :
        /\ m = [step |-> st, id |-> next[st]]
        /\ todo[t] # << >> /\ st = Last(todo[t])
        /\ todo' = [todo EXCEPT ![t] = Front(todo[t])]
        /\ marks' = [marks EXCEPT ![t] = Append(marks[t], m)]
        /\ next' = [next EXCEPT ![st] = next[st] + 1]
        /\ sender[t] # None
        /\ UNCHANGED <<live, steps, sender, ring, asked, lost>>
  BY ProcessIs DEF StepInv
<1>2. /\ todo[t] \in Seq(Steps) /\ marks[t] \in Seq(Mark) /\ asked[t] \in Seq(Steps)
      /\ next[st] \in Nat
  BY DEF StepInv, TypeOK
<1>3. Front(todo[t]) \in Seq(Steps) /\ Append(marks[t], m) \in Seq(Mark)
  BY <1>1, <1>2, FrontAndLast, AppendProperties
<1>4. TypeOK'
  BY <1>1, <1>2, <1>3 DEF StepInv, TypeOK
<1>5. Resting'
  BY <1>1 DEF StepInv, TypeOK, Resting
<1>6. MadeUp(Front(todo[t]), Append(marks[t], m), asked[t])
  BY <1>1, <1>2, OneMore DEF StepInv, Underway
<1>7. Underway'
  BY <1>1, <1>6 DEF StepInv, TypeOK, Underway
<1> QED
  BY <1>1, <1>4, <1>5, <1>7 DEF StepInv, LatestStepFirst

\* A task that is done has nothing in hand.
LEMMA TaskRests ==
  ASSUME StepInv, NEW t \in Tasks, UNCHANGED <<live, steps, next>>,
         ring' \in Seq(Published), lost' \subseteq Mark,
         sender' = [sender EXCEPT ![t] = None], todo' = [todo EXCEPT ![t] = << >>],
         marks' = [marks EXCEPT ![t] = << >>], asked' = [asked EXCEPT ![t] = << >>]
  PROVE  TypeOK' /\ Resting' /\ Underway'
<1>1. TypeOK'
  BY EmptySeq DEF StepInv, TypeOK, Published
<1>2. Resting'
  BY DEF StepInv, TypeOK, Resting
<1>3. Underway'
  BY NothingMadeUp, EmptySeq DEF StepInv, TypeOK, Underway
<1> QED
  BY <1>1, <1>2, <1>3

\* What Publish does to the ring.
LEMMA PublishIs ==
  ASSUME StepInv, NEW t \in Tasks, Publish(t)
  PROVE  /\ ring \in Seq(Published) /\ Len(ring) \in Nat
         /\ ring' \in Seq(Published) /\ Len(ring') = Len(ring) + 1
         /\ \A i \in 1..Len(ring) : ring'[i] = ring[i]
         /\ ring'[Len(ring) + 1] = [task |-> t, marks |-> marks[t], asked |-> asked[t]]
         /\ todo[t] = << >> /\ sender[t] # None
         /\ sender' = [sender EXCEPT ![t] = None] /\ todo' = [todo EXCEPT ![t] = << >>]
         /\ marks' = [marks EXCEPT ![t] = << >>] /\ asked' = [asked EXCEPT ![t] = << >>]
         /\ UNCHANGED <<live, steps, next, lost>>
<1>1. [task |-> t, marks |-> marks[t], asked |-> asked[t]] \in Published
  BY DEF StepInv, TypeOK, Published
<1>2. ring \in Seq(Published)
  BY DEF StepInv, TypeOK, Published
<1>3. todo' = [todo EXCEPT ![t] = << >>]
  BY DEF Publish, StepInv, TypeOK
<1>4. ring' = Append(ring, [task |-> t, marks |-> marks[t], asked |-> asked[t]])
  BY DEF Publish
<1>5. /\ ring' \in Seq(Published) /\ Len(ring') = Len(ring) + 1
      /\ \A i \in 1..Len(ring) : ring'[i] = ring[i]
      /\ ring'[Len(ring) + 1] = [task |-> t, marks |-> marks[t], asked |-> asked[t]]
  BY <1>1, <1>2, <1>4, AppendProperties
<1>6. Len(ring) \in Nat
  BY <1>2, LenProperties
<1> QED
  BY <1>2, <1>3, <1>5, <1>6 DEF Publish, Emitting

LEMMA PublishSteps ==
  ASSUME StepInv, NEW t \in Tasks, Publish(t)
  PROVE  StepInv'
<1>1. /\ Len(ring) \in Nat /\ Len(ring') = Len(ring) + 1
      /\ \A i \in 1..Len(ring) : ring'[i] = ring[i]
      /\ ring'[Len(ring) + 1] = [task |-> t, marks |-> marks[t], asked |-> asked[t]]
      /\ todo[t] = << >>
  BY PublishIs
<1>2. TypeOK' /\ Resting' /\ Underway'
  <2>1. lost' \subseteq Mark
    BY PublishIs DEF StepInv, TypeOK
  <2> QED
    BY <2>1, PublishIs, TaskRests
<1>3. StepsOf(marks[t]) = Reverse(asked[t])
  <2>1. marks[t] \in Seq(Mark) /\ asked[t] \in Seq(Steps) /\ MadeUp(<< >>, marks[t], asked[t])
    BY <1>1 DEF StepInv, TypeOK, Underway
  <2> QED
    BY <2>1, AllGone
<1>4. ASSUME NEW i \in 1..Len(ring') PROVE StepsOf(ring'[i].marks) = Reverse(ring'[i].asked)
  <2>1. CASE i \in 1..Len(ring)
    BY <1>1, <2>1 DEF StepInv, LatestStepFirst
  <2>2. CASE i = Len(ring) + 1
    <3>1. ring'[i].marks = marks[t] /\ ring'[i].asked = asked[t]
      BY <1>1, <2>2
    <3> QED
      BY <1>3, <3>1
  <2> QED
    BY <1>1, <2>1, <2>2
<1>5. LatestStepFirst'
  BY <1>4 DEF LatestStepFirst, StepsOf, Reverse
<1> QED
  BY <1>2, <1>5 DEF StepInv

LEMMA AbandonSteps ==
  ASSUME StepInv, NEW t \in Tasks, Abandon(t)
  PROVE  StepInv'
<1>1. ToSet(marks[t]) \subseteq Mark
  BY ToSetType DEF StepInv, TypeOK
<1>2. TypeOK' /\ Resting' /\ Underway'
  BY <1>1, TaskRests DEF Abandon, StepInv, TypeOK, Published
<1> QED
  BY <1>2 DEF StepInv, LatestStepFirst, Abandon

LEMMA StepInvNext == StepInv /\ [Next]_vars => StepInv'
<1> SUFFICES ASSUME StepInv, [Next]_vars PROVE StepInv'
  OBVIOUS
<1>1. CASE UNCHANGED vars
  BY <1>1 DEF vars, StepInv, TypeOK, Resting, Underway, LatestStepFirst
<1> QED
  BY <1>1, BuildSteps, EmitSteps, ProcessSteps, PublishSteps, AbandonSteps DEF Next

(* The types, of which the counters say most: they never fall below zero.   *)
THEOREM TypeCorrect == Spec => []TypeOK
<1>1. StepInv => TypeOK
  BY DEF StepInv
<1> QED
  BY <1>1, StepInvInit, StepInvNext, PTL DEF Spec

(* Every event that reaches the bus went through each step its sender had   *)
(* when emit was called, once, latest first (chain/mod.rs:28, 66-70,        *)
(* with_step.rs:36-39).                                                     *)
THEOREM StepsInOrder == Spec => []LatestStepFirst
<1>1. StepInv => LatestStepFirst
  BY DEF StepInv
<1> QED
  BY <1>1, StepInvInit, StepInvNext, PTL DEF Spec

-----------------------------------------------------------------------------
(* Numbers *)

\* The marks on the event of a task, and on the i-th event published.
OfTask(t) == ToSet(marks[t])
OfRing(i) == ToSet(ring[i].marks)

\* A step's counter is above every number it has given out.
Below ==
  /\ \A t \in Tasks : \A m \in OfTask(t) : m.id < next[m.step]
  /\ \A i \in 1..Len(ring) : \A m \in OfRing(i) : m.id < next[m.step]
  /\ \A m \in lost : m.id < next[m.step]

Apart ==
  /\ \A t, u \in Tasks : t # u => OfTask(t) \cap OfTask(u) = {}
  /\ \A i, j \in 1..Len(ring) : i # j => OfRing(i) \cap OfRing(j) = {}
  /\ \A t \in Tasks, i \in 1..Len(ring) : OfTask(t) \cap OfRing(i) = {}
  /\ \A t \in Tasks : OfTask(t) \cap lost = {}
  /\ \A i \in 1..Len(ring) : OfRing(i) \cap lost = {}

Used(m) ==
  \/ m \in lost
  \/ \E t \in Tasks : m \in OfTask(t)
  \/ \E i \in 1..Len(ring) : m \in OfRing(i)

AllUsed == \A st \in Steps : \A n \in 0..next[st] - 1 : Used([step |-> st, id |-> n])

\* The event a task has in hand is behind all it has published.
OwnOrder ==
  \A t \in Tasks, i \in 1..Len(ring) :
    ring[i].task = t =>
      \A m \in OfRing(i), n \in OfTask(t) : m.step = n.step => m.id < n.id

RingOrder ==
  \A i, j \in 1..Len(ring) :
    i < j /\ ring[i].task = ring[j].task =>
      \A m \in OfRing(i), n \in OfRing(j) : m.step = n.step => m.id < n.id

NumberInv == StepInv /\ Below /\ Apart /\ AllUsed /\ OwnOrder /\ RingOrder

numberVars == <<next, marks, ring, lost>>

LEMMA MarkTypes ==
  ASSUME StepInv
  PROVE  /\ \A t \in Tasks : OfTask(t) \subseteq Mark
         /\ \A i \in 1..Len(ring) : OfRing(i) \subseteq Mark /\ ring[i].task \in Tasks
         /\ next \in [Steps -> Nat] /\ lost \subseteq Mark /\ Len(ring) \in Nat
<1> DEFINE Event == [task : Tasks, marks : Seq(Mark), asked : Seq(Steps)]
<1>1. ring \in Seq(Event)
  BY DEF StepInv, TypeOK
<1>2. \A i \in 1..Len(ring) : ring[i] \in Event
  <2> HIDE DEF Event
  <2> QED
    BY <1>1, ElementOfSeq
<1>3. \A i \in 1..Len(ring) : ring[i].marks \in Seq(Mark) /\ ring[i].task \in Tasks
  BY <1>2
<1>4. Len(ring) \in Nat
  <2> HIDE DEF Event
  <2> QED
    BY <1>1, LenProperties
<1> QED
  BY <1>3, <1>4, ToSetType DEF StepInv, TypeOK, OfTask, OfRing

LEMMA NumberInvInit == Init => NumberInv
<1> SUFFICES ASSUME Init PROVE NumberInv
  OBVIOUS
<1>1. /\ \A t \in Tasks : OfTask(t) = {}
      /\ lost = {} /\ ring = << >> /\ Len(ring) = 0 /\ \A st \in Steps : next[st] = 0
  BY ToSetEmpty, EmptySeq DEF Init, OfTask
<1> QED
  BY <1>1, StepInvInit DEF NumberInv, Below, Apart, AllUsed, OwnOrder, RingOrder

LEMMA NumberFrame ==
  ASSUME NumberInv, UNCHANGED numberVars
  PROVE  Below' /\ Apart' /\ AllUsed' /\ OwnOrder' /\ RingOrder'
<1>1. next' = next /\ ring' = ring /\ lost' = lost /\ marks' = marks
  BY DEF numberVars
<1>2. /\ \A t \in Tasks : OfTask(t)' = OfTask(t)
      /\ \A i \in 1..Len(ring) : OfRing(i)' = OfRing(i)
  BY <1>1 DEF OfTask, OfRing
<1>3. Below'
  BY <1>1, <1>2 DEF NumberInv, Below
<1>4. Apart'
  BY <1>1, <1>2 DEF NumberInv, Apart
<1>5. AllUsed'
  <2>1. ASSUME NEW n, Used(n) PROVE Used(n)'
    BY <1>1, <1>2, <2>1 DEF Used
  <2> QED
    BY <1>1, <2>1 DEF NumberInv, AllUsed
<1>6. OwnOrder'
  BY <1>1, <1>2 DEF NumberInv, OwnOrder
<1>7. RingOrder'
  BY <1>1, <1>2 DEF NumberInv, RingOrder
<1> QED
  BY <1>3, <1>4, <1>5, <1>6, <1>7

(* The number given out is not below the counter, so it is new; it is above *)
(* all the numbers of its step.                                             *)
LEMMA ProcessNumbers ==
  ASSUME NumberInv, NEW t \in Tasks, Process(t)
  PROVE  Below' /\ Apart' /\ AllUsed' /\ OwnOrder' /\ RingOrder'
<1>1. PICK st \in Steps, m \in Mark :
        /\ m = [step |-> st, id |-> next[st]]
        /\ marks' = [marks EXCEPT ![t] = Append(marks[t], m)]
        /\ next' = [next EXCEPT ![st] = next[st] + 1]
        /\ UNCHANGED <<ring, lost>>
  BY ProcessIs DEF NumberInv, StepInv
<1>2. marks \in [Tasks -> Seq(Mark)] /\ next \in [Steps -> Nat]
  BY DEF NumberInv, StepInv, TypeOK
<1>3. /\ OfTask(t)' = OfTask(t) \cup {m}
      /\ \A u \in Tasks : u # t => OfTask(u)' = OfTask(u)
      /\ \A i \in 1..Len(ring) : OfRing(i)' = OfRing(i)
  BY <1>1, <1>2, ToSetAppend DEF OfTask, OfRing
<1>4. /\ \A u \in Tasks : OfTask(u) \subseteq Mark
      /\ \A i \in 1..Len(ring) : OfRing(i) \subseteq Mark
      /\ lost \subseteq Mark
  BY MarkTypes DEF NumberInv
<1>5. m.step = st /\ m.id = next[st] /\ next[st] \in Nat
  BY <1>1, <1>2
<1>6. \A n \in Mark : n.id < next[n.step] => n # m /\ n.id < next'[n.step]
  BY <1>1, <1>2, <1>5 DEF Mark
<1>7. \A n \in Mark : n.id < next[n.step] /\ n.step = m.step => n.id < m.id
  BY <1>5
<1>8. m.id < next'[m.step]
  BY <1>1, <1>2, <1>5
<1>9. Below'
  <2>1. ASSUME NEW u \in Tasks, NEW n \in OfTask(u)' PROVE n.id < next'[n.step]
    BY <1>3, <1>4, <1>6, <1>8, <2>1 DEF NumberInv, Below
  <2>2. ASSUME NEW i \in 1..Len(ring), NEW n \in OfRing(i)' PROVE n.id < next'[n.step]
    BY <1>3, <1>4, <1>6, <2>2 DEF NumberInv, Below
  <2>3. \A n \in lost : n.id < next'[n.step]
    BY <1>4, <1>6 DEF NumberInv, Below
  <2> QED
    BY <1>1, <2>1, <2>2, <2>3 DEF Below
<1>10. /\ \A u \in Tasks : m \notin OfTask(u)
       /\ \A i \in 1..Len(ring) : m \notin OfRing(i)
       /\ m \notin lost
  BY <1>4, <1>6 DEF NumberInv, Below
<1>11. Apart'
  BY <1>1, <1>3, <1>10 DEF NumberInv, Apart
<1>12. AllUsed'
  <2>1. ASSUME NEW n, Used(n) PROVE Used(n)'
    BY <1>1, <1>3, <2>1 DEF Used
  <2>2. ASSUME NEW s \in Steps, NEW k \in 0..next'[s] - 1 PROVE Used([step |-> s, id |-> k])'
    <3>1. CASE k \in 0..next[s] - 1
      BY <2>1, <3>1 DEF NumberInv, AllUsed
    <3>2. CASE s = st /\ k = next[st]
      <4>1. m \in OfTask(t)'
        BY <1>3
      <4> QED
        BY <1>1, <3>2, <4>1 DEF Used
    <3> QED
      BY <1>1, <1>2, <3>1, <3>2
  <2> QED
    BY <2>2 DEF AllUsed
<1>13. OwnOrder'
  <2> SUFFICES ASSUME NEW u \in Tasks, NEW i \in 1..Len(ring), ring[i].task = u,
                      NEW a \in OfRing(i), NEW b \in OfTask(u)', a.step = b.step
               PROVE  a.id < b.id
    BY <1>1, <1>3 DEF OwnOrder
  <2>1. CASE b \in OfTask(u)
    BY <2>1 DEF NumberInv, OwnOrder
  <2>2. CASE b = m
    BY <1>4, <1>7, <2>2 DEF NumberInv, Below
  <2> QED
    BY <1>3, <2>1, <2>2
<1>14. RingOrder'
  BY <1>1, <1>3 DEF NumberInv, RingOrder
<1> QED
  BY <1>9, <1>11, <1>12, <1>13, <1>14

(* The marks of a task's event move to the end of the ring.                 *)
LEMMA PublishNumbers ==
  ASSUME NumberInv, NEW t \in Tasks, Publish(t)
  PROVE  Below' /\ Apart' /\ AllUsed' /\ OwnOrder' /\ RingOrder'
<1>1. /\ Len(ring) \in Nat /\ Len(ring') = Len(ring) + 1
      /\ \A i \in 1..Len(ring) : ring'[i] = ring[i]
      /\ ring'[Len(ring) + 1] = [task |-> t, marks |-> marks[t], asked |-> asked[t]]
      /\ marks' = [marks EXCEPT ![t] = << >>]
      /\ UNCHANGED <<next, lost>>
  BY PublishIs DEF NumberInv
<1>0. PICK new \in Nat : new = Len(ring) + 1
  BY <1>1
<1> DEFINE old == 1..Len(ring)
<1>2. 1..Len(ring') = old \cup {new} /\ new \notin old
  BY <1>0, <1>1
<1>3. /\ OfTask(t)' = {}
      /\ \A u \in Tasks : u # t => OfTask(u)' = OfTask(u)
      /\ \A u \in Tasks : OfTask(u)' \subseteq OfTask(u)
  BY <1>1, ToSetEmpty DEF NumberInv, StepInv, TypeOK, OfTask
<1>4. \A i \in old : OfRing(i)' = OfRing(i) /\ ring'[i].task = ring[i].task
  BY <1>1 DEF OfRing
<1>5. OfRing(new)' = OfTask(t) /\ ring'[new].task = t
  <2>1. ring'[new].marks = marks[t] /\ ring'[new].task = t
    BY <1>0, <1>1
  <2> QED
    BY <2>1 DEF OfRing, OfTask
<1>7. \A i \in old \cup {new} : ~(new < i)
  BY <1>0, <1>1
<1> USE DEF NumberInv
<1>8. /\ \A u \in Tasks : \A m \in OfTask(u) : m.id < next[m.step]
      /\ \A i \in old : \A m \in OfRing(i) : m.id < next[m.step]
      /\ \A m \in lost : m.id < next[m.step]
  BY DEF Below
<1>9. /\ \A u, v \in Tasks : u # v => OfTask(u) \cap OfTask(v) = {}
      /\ \A i, j \in old : i # j => OfRing(i) \cap OfRing(j) = {}
      /\ \A u \in Tasks, i \in old : OfTask(u) \cap OfRing(i) = {}
      /\ \A u \in Tasks : OfTask(u) \cap lost = {}
      /\ \A i \in old : OfRing(i) \cap lost = {}
  BY DEF Apart
<1>10. \A u \in Tasks, i \in old :
         ring[i].task = u =>
           \A m \in OfRing(i), n \in OfTask(u) : m.step = n.step => m.id < n.id
  BY DEF OwnOrder
<1>11. \A i, j \in old :
         i < j /\ ring[i].task = ring[j].task =>
           \A m \in OfRing(i), n \in OfRing(j) : m.step = n.step => m.id < n.id
  BY DEF RingOrder
<1>12. \A n : Used(n) <=> \/ n \in lost
                          \/ \E u \in Tasks : n \in OfTask(u)
                          \/ \E i \in old : n \in OfRing(i)
  BY DEF Used
<1>13. \A n : Used(n)' <=> \/ n \in lost
                           \/ \E u \in Tasks : n \in OfTask(u)'
                           \/ \E i \in old \cup {new} : n \in OfRing(i)'
  BY <1>1, <1>2 DEF Used
<1> HIDE DEF old
<1>14. Below'
  <2>1. \A u \in Tasks : \A m \in OfTask(u)' : m.id < next'[m.step]
    BY <1>1, <1>3, <1>8
  <2>2. ASSUME NEW i \in old \cup {new}, NEW m \in OfRing(i)' PROVE m.id < next'[m.step]
    BY <1>1, <1>4, <1>5, <1>8
  <2>3. \A m \in lost' : m.id < next'[m.step]
    BY <1>1, <1>8
  <2> QED
    BY <1>2, <2>1, <2>2, <2>3 DEF Below
<1>15. Apart'
  <2>1. \A u, v \in Tasks : u # v => OfTask(u)' \cap OfTask(v)' = {}
    BY <1>3, <1>9
  <2>2. ASSUME NEW i \in old \cup {new}, NEW j \in old \cup {new}, i # j
        PROVE  OfRing(i)' \cap OfRing(j)' = {}
    BY <1>4, <1>5, <1>9, <2>2
  <2>3. ASSUME NEW u \in Tasks, NEW i \in old \cup {new}
        PROVE  OfTask(u)' \cap OfRing(i)' = {}
    <3>1. CASE i \in old
      BY <1>3, <1>4, <1>9, <3>1
    <3>2. CASE i = new
      BY <1>3, <1>5, <1>9, <3>2
    <3> QED
      BY <3>1, <3>2
  <2>4. \A u \in Tasks : OfTask(u)' \cap lost' = {}
    BY <1>1, <1>3, <1>9
  <2>5. \A i \in old \cup {new} : OfRing(i)' \cap lost' = {}
    BY <1>1, <1>4, <1>5, <1>9
  <2> QED
    BY <1>2, <2>1, <2>2, <2>3, <2>4, <2>5 DEF Apart
<1>16. AllUsed'
  <2>1. ASSUME NEW n, Used(n) PROVE Used(n)'
    <3>1. CASE n \in lost \/ \E i \in old : n \in OfRing(i)
      BY <1>4, <1>13, <3>1
    <3>2. CASE n \in OfTask(t)
      BY <1>5, <1>13, <3>2
    <3>3. CASE \E u \in Tasks : u # t /\ n \in OfTask(u)
      BY <1>3, <1>13, <3>3
    <3> QED
      BY <1>12, <2>1, <3>1, <3>2, <3>3
  <2> QED
    BY <1>1, <2>1 DEF AllUsed
<1>17. OwnOrder'
  <2> SUFFICES ASSUME NEW u \in Tasks, NEW i \in old \cup {new}, ring'[i].task = u,
                      NEW a \in OfRing(i)', NEW b \in OfTask(u)', a.step = b.step
               PROVE  a.id < b.id
    BY <1>2 DEF OwnOrder
  <2>1. i \in old
    BY <1>3, <1>5
  <2> QED
    BY <1>3, <1>4, <1>10, <2>1
<1>18. RingOrder'
  <2> SUFFICES ASSUME NEW i \in old \cup {new}, NEW j \in old \cup {new}, i < j,
                      ring'[i].task = ring'[j].task,
                      NEW a \in OfRing(i)', NEW b \in OfRing(j)', a.step = b.step
               PROVE  a.id < b.id
    BY <1>2 DEF RingOrder
  <2>1. i \in old
    BY <1>7
  <2>2. CASE j \in old
    BY <1>4, <1>11, <2>1, <2>2
  <2>3. CASE j = new
    BY <1>4, <1>5, <1>10, <2>1, <2>3
  <2> QED
    BY <2>2, <2>3
<1> QED
  BY <1>14, <1>15, <1>16, <1>17, <1>18

LEMMA AbandonNumbers ==
  ASSUME NumberInv, NEW t \in Tasks, Abandon(t)
  PROVE  Below' /\ Apart' /\ AllUsed' /\ OwnOrder' /\ RingOrder'
<1>1. /\ lost' = lost \cup OfTask(t) /\ marks' = [marks EXCEPT ![t] = << >>]
      /\ UNCHANGED <<next, ring>>
  BY DEF Abandon, OfTask
<1>2. /\ OfTask(t)' = {}
      /\ \A u \in Tasks : u # t => OfTask(u)' = OfTask(u)
      /\ \A u \in Tasks : OfTask(u)' \subseteq OfTask(u)
      /\ \A i \in 1..Len(ring) : OfRing(i)' = OfRing(i)
  BY <1>1, ToSetEmpty DEF NumberInv, StepInv, TypeOK, OfTask, OfRing
<1>3. Below'
  BY <1>1, <1>2 DEF NumberInv, Below
<1>4. Apart'
  BY <1>1, <1>2 DEF NumberInv, Apart
<1>5. AllUsed'
  <2>1. ASSUME NEW n, Used(n) PROVE Used(n)'
    BY <1>1, <1>2, <2>1 DEF Used
  <2> QED
    BY <1>1, <2>1 DEF NumberInv, AllUsed
<1>6. OwnOrder' /\ RingOrder'
  BY <1>1, <1>2 DEF NumberInv, OwnOrder, RingOrder
<1> QED
  BY <1>3, <1>4, <1>5, <1>6

LEMMA NumberInvNext == NumberInv /\ [Next]_vars => NumberInv'
<1> SUFFICES ASSUME NumberInv, [Next]_vars PROVE NumberInv'
  OBVIOUS
<1>1. StepInv'
  BY StepInvNext DEF NumberInv
<1>2. ASSUME UNCHANGED numberVars PROVE NumberInv'
  BY <1>1, <1>2, NumberFrame DEF NumberInv
<1>3. CASE UNCHANGED vars
  BY <1>2, <1>3 DEF vars, numberVars
<1>4. CASE \E c \in Chains : \/ \E st \in Steps : Prepend(c, st)
                             \/ \E d \in Chains : Clone(c, d)
                             \/ \E p \in Emitters : ToEmitter(c, p)
  BY <1>2, <1>4 DEF Prepend, Clone, ToEmitter, numberVars
<1>5. CASE \E t \in Tasks, s \in Senders : Emit(t, s)
  BY <1>2, <1>5 DEF Emit, numberVars
<1>6. CASE \E t \in Tasks : Process(t) \/ Publish(t) \/ Abandon(t)
  BY <1>1, <1>6, ProcessNumbers, PublishNumbers, AbandonNumbers DEF NumberInv
<1> QED
  BY <1>3, <1>4, <1>5, <1>6 DEF Next

(* The clones of a step share its counter: each number is on one event      *)
(* only, and none is on no event at all (chain/mod.rs:68).                  *)
THEOREM NumbersOnce == Spec => []NumbersUsedOnce
<1>1. NumberInv => NumbersUsedOnce
  <2> SUFFICES ASSUME NumberInv PROVE NumbersUsedOnce
    OBVIOUS
  <2> DEFINE all == RingMarks \cup TaskMarks
  <2>1. \A e : e \in all <=> \/ \E i \in 1..Len(ring) : \E m \in OfRing(i) : e = <<i, m>>
                             \/ \E t \in Tasks : \E m \in OfTask(t) : e = <<t, m>>
    BY DEF RingMarks, TaskMarks, OfRing, OfTask
  <2> HIDE DEF all
  <2>2. \A e, f \in all : e[2] = f[2] => e[1] = f[1]
    <3> SUFFICES ASSUME NEW e \in all, NEW f \in all, e[2] = f[2] PROVE e[1] = f[1]
      OBVIOUS
    <3>1. \/ \E i \in 1..Len(ring) : e[1] = i /\ e[2] \in OfRing(i)
          \/ \E t \in Tasks : e[1] = t /\ e[2] \in OfTask(t)
      BY <2>1
    <3>2. \/ \E i \in 1..Len(ring) : f[1] = i /\ f[2] \in OfRing(i)
          \/ \E t \in Tasks : f[1] = t /\ f[2] \in OfTask(t)
      BY <2>1
    <3> QED
      BY <3>1, <3>2 DEF NumberInv, Apart
  <2>3. \A e \in all : e[2] \notin lost
    BY <2>1 DEF NumberInv, Apart
  <2>4. ASSUME NEW m, Used(m) PROVE m \in lost \cup {e[2] : e \in all}
    <3>1. CASE \E i \in 1..Len(ring) : m \in OfRing(i)
      <4>1. PICK i \in 1..Len(ring) : m \in OfRing(i)
        BY <3>1
      <4>2. <<i, m>> \in all /\ <<i, m>>[2] = m
        BY <2>1, <4>1
      <4> QED
        BY <4>2
    <3>2. CASE \E t \in Tasks : m \in OfTask(t)
      <4>1. PICK t \in Tasks : m \in OfTask(t)
        BY <3>2
      <4>2. <<t, m>> \in all /\ <<t, m>>[2] = m
        BY <2>1, <4>1
      <4> QED
        BY <4>2
    <3> QED
      BY <2>4, <3>1, <3>2 DEF Used
  <2>5. \A st \in Steps : \A n \in 0..next[st] - 1 :
          [step |-> st, id |-> n] \in lost \cup {e[2] : e \in all}
    BY <2>4 DEF NumberInv, AllUsed
  <2> QED
    BY <2>2, <2>3, <2>5 DEF NumbersUsedOnce, all
<1> QED
  BY <1>1, NumberInvInit, NumberInvNext, PTL DEF Spec

(* Whatever chains a task emits through, one after the other, a step        *)
(* numbers its events in the order in which they are published.             *)
THEOREM OrderWithinTask == Spec => []TaskOrder
<1>1. NumberInv => TaskOrder
  BY DEF NumberInv, RingOrder, TaskOrder, OfRing
<1> QED
  BY <1>1, NumberInvInit, NumberInvNext, PTL DEF Spec
===============================================================================
