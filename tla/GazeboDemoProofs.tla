-------------------------- MODULE GazeboDemoProofs --------------------------
(***************************************************************************)
(* Theorems about the demonstration in Gazebo, for any sequence of stages, *)
(* any number of sessions, resets and ends of the adapter, any backlog.    *)
(***************************************************************************)
EXTENDS GazeboDemo, FiniteSetTheorems, FunctionTheorems, SequenceTheorems, TLAPS

-----------------------------------------------------------------------------
(***************************************************************************)
(* Counting.  A set of indices loses its first, and the rest move down by  *)
(* one, when the sequence loses its head.                                  *)
(***************************************************************************)
LEMMA IndicesAreFinite ==
    ASSUME NEW n \in Nat, NEW S \in SUBSET (1 .. n)
    PROVE  IsFiniteSet(S) /\ Cardinality(S) \in Nat
<1>1. IsFiniteSet(1 .. n)
  BY FS_Interval
<1> QED
  BY <1>1, FS_Subset, FS_CardinalityType

LEMMA IndicesShift ==
    ASSUME NEW n \in Nat \ {0}, NEW S \in SUBSET (1 .. n)
    PROVE  Cardinality(S) = Cardinality({i \in 1 .. n - 1 : i + 1 \in S})
                            + (IF 1 \in S THEN 1 ELSE 0)
<1> DEFINE T == {i \in 1 .. n - 1 : i + 1 \in S}
           R == S \ {1}
           f == [i \in T |-> i + 1]
<1>1. IsFiniteSet(S) /\ IsFiniteSet(T) /\ Cardinality(S) \in Nat /\ Cardinality(T) \in Nat
  <2>1. n - 1 \in Nat /\ T \in SUBSET (1 .. n - 1)
    OBVIOUS
  <2> QED
    BY <2>1, IndicesAreFinite
<1>2. IsFiniteSet(R) /\ Cardinality(R) = IF 1 \in S THEN Cardinality(S) - 1 ELSE Cardinality(S)
  BY <1>1, FS_RemoveElement
<1>3. f \in Bijection(T, R)
  <2>1. f \in [T -> R]
    OBVIOUS
  <2>2. \A i, j \in T : f[i] = f[j] => i = j
    OBVIOUS
  <2>3. \A r \in R : \E i \in T : f[i] = r
    <3> TAKE r \in R
    <3>1. r - 1 \in T /\ f[r - 1] = r
      OBVIOUS
    <3> QED
      BY <3>1
  <2> QED
    BY <2>1, <2>2, <2>3, Fun_IsBij
<1>4. Cardinality(R) = Cardinality(T)
  BY <1>1, <1>3, FS_Bijection DEF ExistsBijection
<1> QED
  BY <1>1, <1>2, <1>4

-----------------------------------------------------------------------------
(***************************************************************************)
(* Plans: what a status makes the robot do.                                *)
(***************************************************************************)
ForwardIn(plan) == {i \in DOMAIN plan : plan[i].forward = 1}

LEMMA Segments ==
    /\ Forward \in Segment /\ Halt \in Segment /\ Pause \in Segment
    /\ Left \in Segment /\ Right \in Segment
    /\ \A n \in -4 .. 4 : Turn(n) \in Segment /\ Turn(n).forward = 0 /\ Turn(n).timed
    /\ Forward.forward = 1 /\ Forward.timed
    /\ Halt.forward = 0 /\ ~Halt.timed
BY DEF Forward, Halt, Pause, Left, Right, Turn, Segment

LEMMA GesturesStandStill ==
    ASSUME NEW number
    PROVE  /\ Gesture(number) \in Seq(Segment) /\ Len(Gesture(number)) <= 2
           /\ \A i \in DOMAIN Gesture(number) : Gesture(number)[i].forward = 0
<1> DEFINE g == Gesture(number)
<1>1. CASE number \in {1, 7}
  <2>1. number # 2 /\ number # 3 /\ number # 4
    BY <1>1
  <2>2. g = <<Left, Right>>
    BY <1>1, <2>1, Zenon DEF Gesture
  <2> QED
    BY <2>2, Segments DEF Left, Right
<1>2. CASE number = 2
  <2>1. number \notin {1, 7} /\ number # 3 /\ number # 4
    BY <1>2
  <2>2. g = <<Pause>>
    BY <1>2, <2>1, Zenon DEF Gesture
  <2> QED
    BY <2>2, Segments DEF Pause
<1>3. CASE number = 3
  <2>1. number \notin {1, 7} /\ number # 2 /\ number # 4
    BY <1>3
  <2>2. g = <<Turn(1), Turn(-1)>>
    BY <1>3, <2>1, Zenon DEF Gesture
  <2> QED
    BY <2>2, Segments
<1>4. CASE number = 4
  <2>1. number \notin {1, 7} /\ number # 2 /\ number # 3
    BY <1>4
  <2>2. g = <<Turn(3), Turn(-3)>>
    BY <1>4, <2>1, Zenon DEF Gesture
  <2> QED
    BY <2>2, Segments
<1>5. CASE number \notin {1, 2, 3, 4, 7}
  <2>1. number \notin {1, 7} /\ number # 2 /\ number # 3 /\ number # 4
    BY <1>5
  <2>2. g = <<>>
    BY <1>5, <2>1, Zenon DEF Gesture
  <2> QED
    BY <2>2
<1> QED
  BY <1>1, <1>2, <1>3, <1>4, <1>5

LEMMA AllowedPlanAdvancesOnce ==
    ASSUME NEW number
    PROVE  /\ AllowedPlan(number) \in Seq(Segment) /\ AllowedPlan(number) # <<>> /\ Len(AllowedPlan(number)) <= 3
           /\ \E k : ForwardIn(AllowedPlan(number)) = {k}
<1> DEFINE g == Gesture(number)
           p == AllowedPlan(number)
<1>1. g \in Seq(Segment) /\ Len(g) <= 2 /\ (\A i \in DOMAIN g : g[i].forward = 0)
  BY GesturesStandStill
<1> HIDE DEF g
<1>2. CASE number = 7
  <2>1. p = <<Forward>> \o g
    BY <1>2 DEF AllowedPlan, g
  <2>2. p \in Seq(Segment) /\ Len(p) = Len(g) + 1 /\ p[1] = Forward
        /\ \A i \in DOMAIN p : i # 1 => p[i] = g[i - 1] /\ i - 1 \in DOMAIN g
    BY <1>1, <2>1, Segments
  <2>3. ForwardIn(p) = {1}
    BY <1>1, <2>2, Segments DEF ForwardIn
  <2> HIDE DEF p
  <2>4. p \in Seq(Segment) /\ p # <<>> /\ Len(p) <= 3
    BY <1>1, <2>2
  <2>5. \E k : ForwardIn(p) = {k}
    BY <2>3, Zenon
  <2> QED
    BY <2>4, <2>5 DEF p
<1>3. CASE number # 7
  <2>1. p = g \o <<Forward>>
    BY <1>3 DEF AllowedPlan, g
  <2> HIDE DEF p
  <2>2. p \in Seq(Segment) /\ p # <<>> /\ Len(p) <= 3
    BY <1>1, <2>1, Segments
  <2>3. p[Len(g) + 1] = Forward /\ DOMAIN p = 1 .. Len(g) + 1
        /\ \A i \in DOMAIN p : i # Len(g) + 1 => p[i] = g[i] /\ i \in DOMAIN g
    BY <1>1, <2>1, Segments
  <2>4. ForwardIn(p) = {Len(g) + 1}
    BY <1>1, <2>3, Segments DEF ForwardIn
  <2>5. \E k : ForwardIn(p) = {k}
    BY <2>4, Zenon
  <2> QED
    BY <2>2, <2>5 DEF p
<1> QED
  BY <1>2, <1>3

LEMMA PlanFacts ==
    ASSUME NEW m
    PROVE  /\ PlanFor(m) \in Seq(Segment) /\ PlanFor(m) # <<>> /\ Len(PlanFor(m)) <= 3
           /\ m.status = "executed" => \E k : ForwardIn(PlanFor(m)) = {k}
           /\ m.status # "executed" => ForwardIn(PlanFor(m)) = {}
           /\ m.status \notin {"executed", "fallback"} => PlanFor(m) = <<Halt>>
<1>1. CASE m.status = "executed"
  <2>1. PlanFor(m) = AllowedPlan(Number[m.stage])
    BY <1>1, Zenon DEF PlanFor
  <2> QED
    BY <1>1, <2>1, AllowedPlanAdvancesOnce
<1>2. CASE m.status = "fallback"
  <2>1. PlanFor(m) = <<Left, Right>>
    BY <1>2, Zenon DEF PlanFor, FallbackPlan
  <2>2. Left.forward = 0 /\ Right.forward = 0
    BY Segments DEF Left, Right
  <2> QED
    BY <1>2, <2>1, <2>2, Segments DEF ForwardIn
<1>3. CASE m.status \notin {"executed", "fallback"}
  <2>1. PlanFor(m) = <<Halt>>
    BY <1>3, Zenon DEF PlanFor
  <2> QED
    BY <1>3, <2>1, Segments DEF ForwardIn
<1> QED
  BY <1>1, <1>2, <1>3
-----------------------------------------------------------------------------
(***************************************************************************)
(* The inductive invariant.                                                *)
(***************************************************************************)
\* The current stage is the next one: there is one to advance to.
StageIsNext == current # 0 => current = nextStage + 1

\* What the robot has done and may still do has been allowed, but for what it
\* drove with no adapter; while one runs, nothing but a segment with a deadline
\* moves it.
OnlyAllowed ==
    /\ running /\ deadline = "none" => command = Halt
    /\ position + Underway <= allowance + unattended

\* A process that has ended holds nothing, and nothing waits for it.
NothingHeld == ~running => statuses = <<>> /\ segments = <<>> /\ deadline = "none"

\* While a stage waits, the last word to the adapter is one that stops.
WillStand ==
    running /\ current # 0 =>
        IF statuses = <<>> THEN command = Halt /\ deadline = "none"
                   ELSE statuses[Len(statuses)].status \in {"requested", "started"}

\* Each step of a reset has happened by the time its call has succeeded.
StepsOfReset ==
    /\ cycle.session <= session
    /\ phase = "world" /\ call = "succeeded" => cycle.world
    /\ phase = "consent" => cycle.world
    /\ phase = "consent" /\ call = "succeeded" => session > cycle.session
    /\ controlStatus = "reset_complete" => cycle.world /\ session > cycle.session

GazeboInv ==
    /\ GazeboTypeOK /\ StageIsNext /\ OnlyAllowed /\ NothingHeld /\ WillStand
    /\ StepsOfReset

-----------------------------------------------------------------------------
(***************************************************************************)
(* The adapter: what it does with a status or a tick.                      *)
(***************************************************************************)
ForwardLeft == Cardinality(ForwardIn(segments)) + (IF deadline = "ahead" THEN command.forward ELSE 0)

LEMMA DriveFacts ==
    ASSUME NEW rest \in Seq(Segment), Len(rest) <= 3, Drive(rest)
    PROVE  /\ segments' \in Seq(Segment) /\ Len(segments') <= 2
           /\ deadline' \in {"none", "ahead"} /\ command' \in Segment
           /\ deadline' = "none" => command' = Halt
           /\ ForwardLeft' \in Nat
           /\ ForwardLeft' <= Cardinality(ForwardIn(rest))
<1>1. Cardinality(ForwardIn(rest)) \in Nat /\ Cardinality(ForwardIn(<<>>)) = 0
  <2>1. ForwardIn(rest) \in SUBSET (1 .. Len(rest)) /\ Len(rest) \in Nat
    BY DEF ForwardIn
  <2>2. ForwardIn(<<>>) = {}
    BY DEF ForwardIn
  <2> QED
    BY <2>1, <2>2, IndicesAreFinite, FS_EmptySet
<1>2. CASE Stop
  BY <1>1, <1>2, Segments DEF Stop, ForwardLeft
<1>3. CASE /\ rest # <<>> /\ command' = Head(rest) /\ segments' = Tail(rest)
           /\ deadline' = "ahead"
  <2> DEFINE n == Len(rest)
             S == ForwardIn(rest)
  <2>1. n \in Nat \ {0} /\ S \in SUBSET (1 .. n)
    BY <1>3 DEF ForwardIn
  <2>2. ForwardIn(segments') = {i \in 1 .. n - 1 : i + 1 \in S}
    <3>1. DOMAIN segments' = 1 .. n - 1 /\ \A i \in 1 .. n - 1 : segments'[i] = rest[i + 1]
      BY <1>3
    <3> QED
      BY <2>1, <3>1 DEF ForwardIn
  <2>3. Head(rest) \in Segment /\ (1 \in S <=> Head(rest).forward = 1)
    BY <1>3, <2>1 DEF ForwardIn
  <2>4. command'.forward = IF 1 \in S THEN 1 ELSE 0
    BY <1>3, <2>3 DEF Segment
  <2>5. Cardinality(S) = Cardinality(ForwardIn(segments')) + command'.forward
    BY <2>1, <2>2, <2>4, IndicesShift
  <2>6. ForwardLeft' = Cardinality(S)
    BY <1>3, <2>5 DEF ForwardLeft
  <2> QED
    BY <1>1, <1>3, <2>3, <2>6
<1> QED
  BY <1>2, <1>3 DEF Drive

\* What is under way: outcomes not yet taken, and segments not yet driven.
Accounted ==
    /\ Underway = Cardinality(Outstanding) + ForwardLeft
    /\ Cardinality(Outstanding) \in Nat /\ ForwardLeft \in Nat
    /\ Cardinality(ForwardIn(segments)) \in Nat
    /\ command.forward \in {0, 1}

LEMMA UnderwayIsAccounted == GazeboTypeOK => Accounted
<1> SUFFICES ASSUME GazeboTypeOK
             PROVE  Accounted
  OBVIOUS
<1>1. Outstanding \in SUBSET (1 .. Len(statuses)) /\ Len(statuses) \in Nat
  BY DEF GazeboTypeOK, ChannelTypeOK, Outstanding
<1>2. ForwardIn(segments) \in SUBSET (1 .. Len(segments)) /\ Len(segments) \in Nat
  BY DEF GazeboTypeOK, MotionTypeOK, ForwardIn
<1>3. command.forward \in {0, 1}
  BY DEF GazeboTypeOK, MotionTypeOK, Segment
<1>4. Advances = ForwardIn(segments)
  BY DEF Advances, ForwardIn
<1>5. Cardinality(Outstanding) \in Nat /\ Cardinality(ForwardIn(segments)) \in Nat
  BY <1>1, <1>2, IndicesAreFinite
<1> QED
  BY <1>3, <1>4, <1>5 DEF Accounted, Underway, ForwardLeft

LEMMA LessIsLess ==
    ASSUME NEW p \in Nat, NEW u \in Nat, NEW v \in Nat, NEW a \in Nat, NEW x \in Nat,
           v <= u, p + u <= a + x
    PROVE  p + v <= a + x
OBVIOUS

LEMMA LessIsAllowed ==
    ASSUME GazeboTypeOK, OnlyAllowed, Accounted, Accounted', Underway' <= Underway,
           position' = position, allowance' = allowance, unattended' = unattended,
           running' /\ deadline' = "none" => command' = Halt
    PROVE  OnlyAllowed'
<1>1. Underway \in Nat /\ Underway' \in Nat
  BY DEF Accounted
<1>2. position \in Nat /\ allowance \in Nat /\ unattended \in Nat
  BY DEF GazeboTypeOK, MotionTypeOK
<1>3. position + Underway <= allowance + unattended
  BY DEF OnlyAllowed
<1>4. position + Underway' <= allowance + unattended
  BY <1>1, <1>2, <1>3, LessIsLess
<1>5. position' + Underway' <= allowance' + unattended'
  BY <1>4
<1> QED
  BY <1>5 DEF OnlyAllowed

LEMMA StatusIsDriven ==
    ASSUME NEW m, MotionOnStatus(m)
    PROVE  /\ running /\ running' = running
           /\ segments' \in Seq(Segment) /\ Len(segments') <= 2
           /\ deadline' \in {"none", "ahead"} /\ command' \in Segment
           /\ deadline' = "none" => command' = Halt
           /\ ForwardLeft' \in Nat
           /\ ForwardLeft' <= 1 /\ (~Executed(m) => ForwardLeft' = 0)
           /\ m.status \in {"requested", "started"} => command' = Halt /\ deadline' = "none"
<1>0. running /\ running' = running
  BY DEF MotionOnStatus
<1>1. CASE Stop
  <2>1. segments' = <<>> /\ deadline' = "none" /\ command' = Halt
    BY <1>1 DEF Stop
  <2>2. Cardinality(ForwardIn(segments)') = 0
    BY <2>1, FS_EmptySet DEF ForwardIn
  <2>3. ForwardLeft' = 0
    BY <2>1, <2>2 DEF ForwardLeft
  <2> QED
    BY <1>0, <2>1, <2>3, Segments
<1>2. CASE MotionEnabled /\ Recognised(m) /\ Drive(PlanFor(m))
  <2> DEFINE plan == PlanFor(m)
  <2>1. plan \in Seq(Segment) /\ Len(plan) <= 3
    BY PlanFacts
  <2>2. Cardinality(ForwardIn(plan)) <= 1 /\ (~Executed(m) => Cardinality(ForwardIn(plan)) = 0)
    <3>1. CASE m.status = "executed"
      <4>1. PICK k : ForwardIn(plan) = {k}
        BY <3>1, PlanFacts
      <4>2. Cardinality(ForwardIn(plan)) = 1
        BY <4>1, FS_Singleton
      <4>3. Executed(m)
        BY <1>2, <3>1 DEF Executed
      <4> QED
        BY <4>2, <4>3
    <3>2. CASE m.status # "executed"
      <4>1. Cardinality(ForwardIn(plan)) = 0
        BY <3>2, PlanFacts, FS_EmptySet
      <4> QED
        BY <4>1
    <3> QED
      BY <3>1, <3>2
  <2>3. Cardinality(ForwardIn(plan)) \in Nat
    <3>1. ForwardIn(plan) \in SUBSET (1 .. Len(plan)) /\ Len(plan) \in Nat
      BY <2>1 DEF ForwardIn
    <3> QED
      BY <3>1, IndicesAreFinite
  <2>4. m.status \in {"requested", "started"} => command' = Halt /\ deadline' = "none"
    <3> SUFFICES ASSUME m.status \in {"requested", "started"}
                 PROVE  command' = Halt /\ deadline' = "none"
      OBVIOUS
    <3>1. plan = <<Halt>>
      BY PlanFacts
    <3> QED
      BY <1>2, <3>1, Segments DEF Drive, Stop
  <2> QED
    BY <1>0, <1>2, <2>1, <2>2, <2>3, <2>4, DriveFacts
<1> QED
  BY <1>1, <1>2 DEF MotionOnStatus, StartPlan

LEMMA AdapterTakesStatusKeeps ==
    ASSUME GazeboInv, AdapterSteps(AdapterTakesStatus)
    PROVE  GazeboInv'
<1> DEFINE m == Head(statuses)
           n == Len(statuses)
<1>1. MotionOnStatus(m) /\ statuses # <<>> /\ statuses' = Tail(statuses)
      /\ UNCHANGED <<robot, restarts, adrift, unattended, disturbed, scenVars, controllerVars,
                     session, requests, authorized, blocked, announced, resets, allowance, cycle>>
  BY DEF AdapterSteps, AdapterTakesStatus
<1>2. n \in Nat \ {0} /\ statuses \in Seq(StatusMessage) /\ statuses' \in Seq(StatusMessage)
      /\ Len(statuses') = n - 1 /\ m = statuses[1]
      /\ \A i \in 1 .. n - 1 : statuses'[i] = statuses[i + 1]
  BY <1>1 DEF GazeboInv, GazeboTypeOK, ChannelTypeOK
<1>3. Cardinality(Outstanding) = Cardinality(Outstanding') + (IF Executed(m) THEN 1 ELSE 0)
  <2>1. Outstanding \in SUBSET (1 .. n) /\ (1 \in Outstanding <=> Executed(m))
    BY <1>2 DEF Outstanding
  <2>2. Outstanding' = {i \in 1 .. n - 1 : i + 1 \in Outstanding}
    BY <1>2 DEF Outstanding
  <2> QED
    BY <1>2, <2>1, <2>2, IndicesShift
<1>4. GazeboTypeOK'
  BY <1>1, <1>2, StatusIsDriven, GazeboAssumption
     DEF GazeboInv, GazeboTypeOK, ScenarioTypeOK, MotionTypeOK, ControllerTypeOK, ChannelTypeOK,
         robot, scenVars, controllerVars
<1>5. OnlyAllowed'
  <2>3. Accounted
    BY UnderwayIsAccounted DEF GazeboInv
  <2>4. Accounted'
    BY <1>4, UnderwayIsAccounted, PTL
  <2>5. ForwardLeft' <= 1 /\ (~Executed(m) => ForwardLeft' = 0)
    BY <1>1, StatusIsDriven
  <2>6. deadline' = "none" => command' = Halt
    BY <1>1, StatusIsDriven
  <2>7. Underway' <= Underway
    <3>1. CASE Executed(m)
      BY <1>3, <2>3, <2>4, <2>5, <3>1 DEF Accounted
    <3>2. CASE ~Executed(m)
      BY <1>3, <2>3, <2>4, <2>5, <3>2 DEF Accounted
    <3> QED
      BY <3>1, <3>2
  <2> QED
    BY <1>1, <2>3, <2>4, <2>6, <2>7, LessIsAllowed DEF GazeboInv, robot
<1>6. WillStand'
  <2>0. running
    BY <1>1, StatusIsDriven
  <2> SUFFICES ASSUME current # 0
               PROVE  IF statuses' = <<>> THEN command' = Halt /\ deadline' = "none"
                      ELSE statuses'[Len(statuses')].status \in {"requested", "started"}
    BY <1>1 DEF WillStand, scenVars
  <2>1. statuses[n].status \in {"requested", "started"}
    BY <1>1, <2>0 DEF GazeboInv, WillStand
  <2>2. CASE n = 1
    <3>1. statuses' = <<>> /\ m.status \in {"requested", "started"}
      BY <1>2, <2>1, <2>2
    <3>2. command' = Halt /\ deadline' = "none"
      BY <1>1, <3>1, StatusIsDriven
    <3> QED
      BY <3>1, <3>2
  <2>3. CASE n > 1
    BY <1>2, <2>1, <2>3
  <2> QED
    BY <1>2, <2>2, <2>3
<1>7. StageIsNext' /\ StepsOfReset'
  BY <1>1 DEF GazeboInv, StageIsNext, StepsOfReset, scenVars, controllerVars
<1>8. NothingHeld'
  BY <1>1, StatusIsDriven DEF NothingHeld
<1> QED
  BY <1>4, <1>5, <1>6, <1>7, <1>8 DEF GazeboInv

LEMMA AdapterTicksKeeps ==
    ASSUME GazeboInv, AdapterSteps(AdapterTicks)
    PROVE  GazeboInv'
<1>1. running /\ running' = running /\ deadline = "reached" /\ Drive(segments)
      /\ UNCHANGED <<robot, statuses, restarts, adrift, unattended, disturbed, scenVars,
                     controllerVars, session, requests, authorized, blocked, announced, resets,
                     allowance, cycle>>
  BY DEF AdapterSteps, AdapterTicks, MotionTick
<1>2. segments \in Seq(Segment) /\ Len(segments) <= 3
  BY DEF GazeboInv, GazeboTypeOK, MotionTypeOK
<1>3. GazeboTypeOK'
  <2>1. MotionTypeOK'
    BY <1>1, <1>2, DriveFacts DEF GazeboInv, GazeboTypeOK, MotionTypeOK, robot
  <2>2. ScenarioTypeOK' /\ ControllerTypeOK'
    BY <1>1 DEF GazeboInv, GazeboTypeOK, ScenarioTypeOK, ControllerTypeOK, scenVars, controllerVars
  <2>3. ChannelTypeOK'
    BY <1>1 DEF GazeboInv, GazeboTypeOK, ChannelTypeOK
  <2> QED
    BY <1>1, <2>1, <2>2, <2>3 DEF GazeboInv, GazeboTypeOK
<1>4. OnlyAllowed'
  <2>1. Accounted
    BY UnderwayIsAccounted DEF GazeboInv
  <2>2. Accounted'
    BY <1>3, UnderwayIsAccounted, PTL
  <2>3. ForwardLeft' <= Cardinality(ForwardIn(segments)) /\ (deadline' = "none" => command' = Halt)
    BY <1>1, <1>2, DriveFacts
  <2>4. ForwardLeft = Cardinality(ForwardIn(segments))
    BY <1>1, <2>1 DEF ForwardLeft, Accounted
  <2>5. Outstanding' = Outstanding
    BY <1>1 DEF Outstanding
  <2>6. Underway' <= Underway
    BY <2>1, <2>2, <2>3, <2>4, <2>5 DEF Accounted
  <2>7. /\ position' = position /\ allowance' = allowance /\ unattended' = unattended
        /\ (running' /\ deadline' = "none" => command' = Halt)
    BY <1>1, <2>3 DEF robot
  <2> QED
    BY <2>1, <2>2, <2>6, <2>7, LessIsAllowed DEF GazeboInv
<1>5. WillStand'
  BY <1>1 DEF GazeboInv, WillStand, scenVars
<1>6. StageIsNext' /\ StepsOfReset' /\ NothingHeld'
  BY <1>1 DEF GazeboInv, StageIsNext, StepsOfReset, NothingHeld, scenVars, controllerVars
<1> QED
  BY <1>3, <1>4, <1>5, <1>6 DEF GazeboInv

LEMMA DrivenIsDriven ==
    ASSUME NEW p \in Nat, NEW v \in Nat, NEW a \in Nat, NEW x \in Nat, NEW f \in {0, 1},
           p + (v + f) <= a + x
    PROVE  (p + f) + v <= a + x
OBVIOUS

LEMMA DriftIsCounted ==
    ASSUME NEW p \in Nat, NEW u \in Nat, NEW a \in Nat, NEW x \in Nat, NEW f \in {0, 1},
           p + u <= a + x
    PROVE  (p + f) + u <= a + (x + f)
OBVIOUS

LEMMA RobotMovesKeeps ==
    ASSUME GazeboInv, AdapterSteps(RobotMoves)
    PROVE  GazeboInv'
<1>1. /\ position' = position + command.forward /\ heading' = heading + command.turn
      /\ UNCHANGED <<running, segments, command, statuses, restarts, disturbed, scenVars,
                     controllerVars, session, requests, authorized, blocked, announced, resets,
                     allowance, cycle>>
  BY DEF AdapterSteps, RobotMoves, RobotDrives
<1>2. \/ /\ running /\ deadline = "ahead" /\ deadline' = "reached"
         /\ adrift' = adrift /\ unattended' = unattended
      \/ /\ ~running /\ deadline = "none" /\ deadline' = "none"
         /\ adrift < MaxAdrift /\ adrift' = adrift + 1
         /\ unattended' = unattended + command.forward
  BY DEF GazeboInv, OnlyAllowed, NothingHeld, AdapterSteps, RobotMoves, RobotDrives
<1>3. command.forward \in {0, 1} /\ command.turn \in Int
  BY DEF GazeboInv, GazeboTypeOK, MotionTypeOK, Segment
<1>4. GazeboTypeOK'
  <2>1. MotionTypeOK'
    <3>1. position' \in Nat /\ heading' \in Int
      BY <1>1, <1>3 DEF GazeboInv, GazeboTypeOK, MotionTypeOK
    <3>2. deadline' \in {"none", "ahead", "reached"}
      BY <1>2
    <3>3. /\ running' \in BOOLEAN /\ segments' \in Seq(Segment) /\ Len(segments') <= 2
          /\ command' \in Segment
      BY <1>1 DEF GazeboInv, GazeboTypeOK, MotionTypeOK
    <3> QED
      BY <3>1, <3>2, <3>3 DEF MotionTypeOK
  <2>2. ScenarioTypeOK' /\ ControllerTypeOK'
    BY <1>1 DEF GazeboInv, GazeboTypeOK, ScenarioTypeOK, ControllerTypeOK, scenVars, controllerVars
  <2>3. ChannelTypeOK'
    BY <1>1 DEF GazeboInv, GazeboTypeOK, ChannelTypeOK
  <2>4. adrift' \in 0 .. MaxAdrift /\ unattended' \in Nat
    BY <1>2, <1>3, GazeboAssumption DEF GazeboInv, GazeboTypeOK
  <2> QED
    BY <1>1, <2>1, <2>2, <2>3, <2>4 DEF GazeboInv, GazeboTypeOK
<1>5. OnlyAllowed'
  <2>1. Accounted
    BY UnderwayIsAccounted DEF GazeboInv
  <2>2. Accounted'
    BY <1>4, UnderwayIsAccounted, PTL
  <2>3. ForwardIn(segments)' = ForwardIn(segments) /\ Outstanding' = Outstanding
    BY <1>1 DEF Outstanding, ForwardIn
  <2>4. /\ position \in Nat /\ allowance \in Nat /\ unattended \in Nat
        /\ Underway \in Nat /\ Underway' \in Nat
        /\ position + Underway <= allowance + unattended
    <3>1. position \in Nat /\ allowance \in Nat /\ unattended \in Nat
      BY DEF GazeboInv, GazeboTypeOK, MotionTypeOK
    <3>2. Underway \in Nat /\ Underway' \in Nat
      BY <2>1, <2>2 DEF Accounted
    <3>3. position + Underway <= allowance + unattended
      BY DEF GazeboInv, OnlyAllowed
    <3> QED
      BY <3>1, <3>2, <3>3
  <2>6. CASE /\ running /\ deadline = "ahead" /\ deadline' = "reached"
             /\ unattended' = unattended
    <3>1. ForwardLeft' = Cardinality(ForwardIn(segments))
          /\ ForwardLeft = Cardinality(ForwardIn(segments)) + command.forward
      BY <1>1, <2>1, <2>3, <2>6 DEF ForwardLeft, Accounted
    <3>2. Underway = Underway' + command.forward
      BY <1>3, <2>1, <2>2, <2>3, <3>1 DEF Accounted
    <3>3. (position + command.forward) + Underway' <= allowance + unattended
      BY <1>3, <2>4, <3>2, DrivenIsDriven
    <3>4. position' + Underway' <= allowance' + unattended'
      BY <1>1, <2>6, <3>3
    <3> QED
      BY <2>6, <3>4 DEF OnlyAllowed
  <2>7. CASE /\ ~running /\ deadline = "none" /\ deadline' = "none"
             /\ unattended' = unattended + command.forward
    <3>1. ForwardLeft' = ForwardLeft
      BY <1>1, <2>3, <2>7 DEF ForwardLeft
    <3>2. Underway' = Underway
      BY <2>1, <2>2, <2>3, <3>1 DEF Accounted
    <3>3. (position + command.forward) + Underway <= allowance + (unattended + command.forward)
      BY <1>3, <2>4, DriftIsCounted
    <3>4. position' + Underway' <= allowance' + unattended'
      BY <1>1, <2>7, <3>2, <3>3
    <3> QED
      BY <1>1, <2>7, <3>4 DEF OnlyAllowed
  <2> QED
    BY <1>2, <2>6, <2>7
<1>6. WillStand'
  BY <1>1, <1>2 DEF GazeboInv, WillStand, scenVars
<1>7. StageIsNext' /\ StepsOfReset' /\ NothingHeld'
  BY <1>1, <1>2 DEF GazeboInv, StageIsNext, StepsOfReset, NothingHeld, scenVars, controllerVars
<1> QED
  BY <1>4, <1>5, <1>6, <1>7 DEF GazeboInv

\* What was under way is given up by an adapter that ends.
LEMMA NothingUnderway ==
    ASSUME Accounted', segments' = <<>>, deadline' = "none", statuses' = <<>>
    PROVE  Underway' = 0
<1>1. ForwardIn(segments') = {} /\ Outstanding' = {}
  BY DEF ForwardIn, Outstanding
<1>2. ForwardLeft' = 0
  BY <1>1, FS_EmptySet DEF ForwardLeft
<1> QED
  BY <1>1, <1>2, FS_EmptySet DEF Accounted

LEMMA AdapterEndsKeeps ==
    ASSUME GazeboInv, AdapterSteps(AdapterEnds)
    PROVE  GazeboInv'
<1>1. /\ running' = FALSE /\ segments' = <<>> /\ deadline' = "none" /\ command' \in {Halt, command}
      /\ statuses' = <<>> /\ restarts < MaxRestart /\ restarts' = restarts + 1
      /\ disturbed' = TRUE
      /\ UNCHANGED <<robot, adrift, unattended, scenVars, controllerVars, session, requests,
                     authorized, blocked, announced, resets, allowance, cycle>>
  BY DEF AdapterSteps, AdapterEnds, MotionEnds
<1>2. GazeboTypeOK'
  <2>1. MotionTypeOK'
    <3>1. position' \in Nat /\ heading' \in Int
      BY <1>1 DEF GazeboInv, GazeboTypeOK, MotionTypeOK, robot
    <3>2. command' \in Segment
      <4>1. command \in Segment
        BY DEF GazeboInv, GazeboTypeOK, MotionTypeOK
      <4> QED
        BY <1>1, <4>1, Segments
    <3>3. segments' \in Seq(Segment) /\ Len(segments') <= 2
      BY <1>1
    <3> QED
      BY <1>1, <3>1, <3>2, <3>3 DEF MotionTypeOK
  <2>2. ScenarioTypeOK' /\ ControllerTypeOK'
    BY <1>1 DEF GazeboInv, GazeboTypeOK, ScenarioTypeOK, ControllerTypeOK, scenVars, controllerVars
  <2>3. ChannelTypeOK'
    BY <1>1 DEF GazeboInv, GazeboTypeOK, ChannelTypeOK
  <2>4. restarts' \in 0 .. MaxRestart
    BY <1>1, GazeboAssumption DEF GazeboInv, GazeboTypeOK
  <2> QED
    BY <1>1, <2>1, <2>2, <2>3, <2>4 DEF GazeboInv, GazeboTypeOK
<1>3. OnlyAllowed'
  <2>1. Accounted
    BY UnderwayIsAccounted DEF GazeboInv
  <2>2. Accounted'
    BY <1>2, UnderwayIsAccounted, PTL
  <2>3. Underway' <= Underway
    BY <1>1, <2>1, <2>2, NothingUnderway DEF Accounted
  <2>4. /\ position' = position /\ allowance' = allowance /\ unattended' = unattended
        /\ (running' /\ deadline' = "none" => command' = Halt)
    BY <1>1 DEF robot
  <2> QED
    BY <2>1, <2>2, <2>3, <2>4, LessIsAllowed DEF GazeboInv
<1>4. WillStand' /\ NothingHeld'
  BY <1>1 DEF WillStand, NothingHeld
<1>5. StageIsNext' /\ StepsOfReset'
  BY <1>1 DEF GazeboInv, StageIsNext, StepsOfReset, scenVars, controllerVars
<1> QED
  BY <1>2, <1>3, <1>4, <1>5 DEF GazeboInv

LEMMA AdapterStartsKeeps ==
    ASSUME GazeboInv, AdapterSteps(AdapterStarts)
    PROVE  GazeboInv'
<1>1. /\ ~running /\ running' = TRUE
      /\ segments' = <<>> /\ deadline' = "none" /\ command' = Halt
      /\ UNCHANGED <<robot, statuses, restarts, adrift, unattended, disturbed, scenVars,
                     controllerVars, session, requests, authorized, blocked, announced, resets,
                     allowance, cycle>>
  BY DEF AdapterSteps, AdapterStarts, MotionStarts, Stop
<1>2. statuses = <<>>
  BY <1>1 DEF GazeboInv, NothingHeld
<1>3. GazeboTypeOK'
  <2>1. MotionTypeOK'
    BY <1>1, Segments DEF GazeboInv, GazeboTypeOK, MotionTypeOK, robot
  <2>2. ScenarioTypeOK' /\ ControllerTypeOK'
    BY <1>1 DEF GazeboInv, GazeboTypeOK, ScenarioTypeOK, ControllerTypeOK, scenVars, controllerVars
  <2>3. ChannelTypeOK'
    BY <1>1 DEF GazeboInv, GazeboTypeOK, ChannelTypeOK
  <2> QED
    BY <1>1, <2>1, <2>2, <2>3 DEF GazeboInv, GazeboTypeOK
<1>4. OnlyAllowed'
  <2>1. Accounted
    BY UnderwayIsAccounted DEF GazeboInv
  <2>2. Accounted'
    BY <1>3, UnderwayIsAccounted, PTL
  <2>3. Underway' <= Underway
    BY <1>1, <1>2, <2>1, <2>2, NothingUnderway DEF Accounted
  <2>4. /\ position' = position /\ allowance' = allowance /\ unattended' = unattended
        /\ command' = Halt
    BY <1>1 DEF robot
  <2> QED
    BY <2>1, <2>2, <2>3, <2>4, LessIsAllowed DEF GazeboInv
<1>5. WillStand' /\ NothingHeld'
  BY <1>1, <1>2 DEF WillStand, NothingHeld
<1>6. StageIsNext' /\ StepsOfReset'
  BY <1>1 DEF GazeboInv, StageIsNext, StepsOfReset, scenVars, controllerVars
<1> QED
  BY <1>3, <1>4, <1>5, <1>6 DEF GazeboInv

-----------------------------------------------------------------------------
(***************************************************************************)
(* The gate, the services and the controller leave the robot alone, except *)
(* for the reset of the world.                                             *)
(***************************************************************************)
LEMMA OthersDoNotMove ==
    ASSUME OnlyAllowed, NothingHeld, WillStand, StageIsNext,
           UNCHANGED <<scenVars, motionVars, robot, statuses, allowance, unattended>>
    PROVE  OnlyAllowed' /\ NothingHeld' /\ WillStand' /\ StageIsNext'
<1>1. UNCHANGED <<nextStage, current, running, segments, deadline, command, position, statuses,
                  allowance, unattended>>
  BY DEF scenVars, motionVars, robot
<1>2. Underway' = Underway
  BY <1>1 DEF Underway, Outstanding, Advances
<1> QED
  BY <1>1, <1>2 DEF OnlyAllowed, NothingHeld, WillStand, StageIsNext

LEMMA AnswersKeeps ==
    ASSUME GazeboInv, Answers
    PROVE  GazeboInv'
<1>1. ChannelTypeOK'
  <2>1. Head(requests) \in Capabilities /\ requests' \in Seq(Capabilities)
    BY DEF Answers, GazeboInv, GazeboTypeOK, ChannelTypeOK
  <2>2. Append(authorized, Head(requests)) \in Seq(Capabilities)
        /\ Append(blocked, Head(requests)) \in Seq(Capabilities)
    BY <2>1 DEF GazeboInv, GazeboTypeOK, ChannelTypeOK
  <2>3. authorized' \in Seq(Capabilities) /\ blocked' \in Seq(Capabilities)
    BY <2>2 DEF Answers, GazeboInv, GazeboTypeOK, ChannelTypeOK
  <2> QED
    BY <2>1, <2>3 DEF Answers, GazeboInv, GazeboTypeOK, ChannelTypeOK
<1>2. UNCHANGED <<scenVars, motionVars, robot, controllerVars, session, counters, history, statuses>>
  BY DEF Answers
<1>3. GazeboTypeOK'
  <2>1. ScenarioTypeOK' /\ MotionTypeOK' /\ ControllerTypeOK'
    BY <1>2 DEF GazeboInv, GazeboTypeOK, ScenarioTypeOK, MotionTypeOK, ControllerTypeOK,
                scenVars, motionVars, robot, controllerVars
  <2> QED
    BY <1>1, <1>2, <2>1 DEF GazeboInv, GazeboTypeOK, counters, history
<1>4. OnlyAllowed' /\ NothingHeld' /\ WillStand' /\ StageIsNext'
  BY <1>2, OthersDoNotMove DEF GazeboInv, history
<1>5. StepsOfReset'
  BY <1>2 DEF GazeboInv, StepsOfReset, controllerVars, history
<1> QED
  BY <1>3, <1>4, <1>5 DEF GazeboInv

LEMMA SessionOpens ==
    ASSUME GazeboTypeOK, OpensSession, UNCHANGED <<authorized, blocked, statuses>>
    PROVE  ChannelTypeOK' /\ session' \in 1 .. MaxSession /\ session' = session + 1
           /\ disturbed' \in BOOLEAN
<1>1. session' = session + 1 /\ session' \in 1 .. MaxSession /\ disturbed' \in BOOLEAN
  BY GazeboAssumption DEF OpensSession, GazeboTypeOK
<1>2. announced' \in [Reader -> 0 .. MaxSession]
  BY <1>1 DEF OpensSession
<1>3. requests' \in Seq(Capabilities)
  <2>1. requests \in Seq(Capabilities) /\ <<>> \in Seq(Capabilities)
    BY DEF GazeboTypeOK, ChannelTypeOK
  <2>2. requests' \in {requests, <<>>}
    BY DEF OpensSession
  <2> QED
    BY <2>1, <2>2
<1> QED
  BY <1>1, <1>2, <1>3 DEF GazeboTypeOK, ChannelTypeOK

LEMMA OtherResetKeeps ==
    ASSUME GazeboInv, OtherReset
    PROVE  GazeboInv'
<1>1. UNCHANGED <<scenVars, motionVars, robot, controllerVars, authorized, blocked, statuses,
                  counters, allowance, unattended, cycle>>
  BY DEF OtherReset
<1>2. ChannelTypeOK' /\ session' \in 1 .. MaxSession /\ session' = session + 1
      /\ disturbed' \in BOOLEAN
  BY <1>1, SessionOpens DEF GazeboInv, OtherReset
<1>3. GazeboTypeOK'
  <2>1. ScenarioTypeOK' /\ MotionTypeOK' /\ ControllerTypeOK'
    BY <1>1 DEF GazeboInv, GazeboTypeOK, ScenarioTypeOK, MotionTypeOK, ControllerTypeOK,
                scenVars, motionVars, robot, controllerVars
  <2> QED
    BY <1>1, <1>2, <2>1 DEF GazeboInv, GazeboTypeOK, counters
<1>4. OnlyAllowed' /\ NothingHeld' /\ WillStand' /\ StageIsNext'
  BY <1>1, OthersDoNotMove DEF GazeboInv
<1>5. StepsOfReset'
  BY <1>1, <1>2, GazeboAssumption DEF GazeboInv, GazeboTypeOK, StepsOfReset, controllerVars
<1> QED
  BY <1>3, <1>4, <1>5 DEF GazeboInv

LEMMA ManagerServesKeeps ==
    ASSUME GazeboInv, ManagerServes
    PROVE  GazeboInv'
<1>1. /\ phase = "consent"
      /\ UNCHANGED <<scenVars, motionVars, robot, known, phase, resetOf, controlStatus,
                     authorized, blocked, statuses, counters, allowance, unattended, cycle>>
  BY DEF ManagerServes, Answered
<1>2. \/ call' = "succeeded" /\ OpensSession
      \/ call' = "failed" /\ UNCHANGED <<session, announced, requests, disturbed>>
  BY DEF ManagerServes, Answered
<1>3. ChannelTypeOK' /\ session' \in 1 .. MaxSession /\ disturbed' \in BOOLEAN
      /\ (call' = "succeeded" => session' = session + 1) /\ session' >= session
  <2>1. CASE call' = "succeeded" /\ OpensSession
    <3>1. ChannelTypeOK' /\ session' \in 1 .. MaxSession /\ session' = session + 1
          /\ disturbed' \in BOOLEAN
      BY <1>1, <2>1, SessionOpens DEF GazeboInv
    <3> QED
      BY <3>1, GazeboAssumption DEF GazeboInv, GazeboTypeOK
  <2>2. CASE call' = "failed" /\ UNCHANGED <<session, announced, requests, disturbed>>
    BY <1>1, <2>2, GazeboAssumption DEF GazeboInv, GazeboTypeOK, ChannelTypeOK
  <2> QED
    BY <1>2, <2>1, <2>2
<1>4. GazeboTypeOK'
  <2>1. ScenarioTypeOK' /\ MotionTypeOK' /\ ControllerTypeOK'
    BY <1>1, <1>2 DEF GazeboInv, GazeboTypeOK, ScenarioTypeOK, MotionTypeOK, ControllerTypeOK,
                      scenVars, motionVars, robot
  <2> QED
    BY <1>1, <1>3, <2>1 DEF GazeboInv, GazeboTypeOK, counters
<1>5. OnlyAllowed' /\ NothingHeld' /\ WillStand' /\ StageIsNext'
  BY <1>1, OthersDoNotMove DEF GazeboInv
<1>6. StepsOfReset'
  BY <1>1, <1>3, GazeboAssumption DEF GazeboInv, GazeboTypeOK, StepsOfReset
<1> QED
  BY <1>4, <1>5, <1>6 DEF GazeboInv

\* The world is reset: what is under way is what the robot may still do.
LEMMA WorldServesKeeps ==
    ASSUME GazeboInv, WorldServes
    PROVE  GazeboInv'
<1>1. /\ phase = "world"
      /\ UNCHANGED <<scenVars, running, segments, deadline, session, channels, counters,
                     known, phase, resetOf, controlStatus>>
  BY DEF WorldServes, Answered
<1>2. CASE /\ call' = "failed"
           /\ UNCHANGED <<robot, command, history>>
  <2>1. GazeboTypeOK'
    <3>1. ScenarioTypeOK' /\ MotionTypeOK' /\ ControllerTypeOK'
      BY <1>1, <1>2 DEF GazeboInv, GazeboTypeOK, ScenarioTypeOK, MotionTypeOK, ControllerTypeOK,
                        scenVars, robot
    <3>2. ChannelTypeOK'
      BY <1>1 DEF GazeboInv, GazeboTypeOK, ChannelTypeOK, channels
    <3> QED
      BY <1>1, <1>2, <3>1, <3>2 DEF GazeboInv, GazeboTypeOK, counters, history
  <2>2. OnlyAllowed' /\ NothingHeld' /\ WillStand' /\ StageIsNext'
    BY <1>1, <1>2, OthersDoNotMove DEF GazeboInv, motionVars, channels, history
  <2>3. StepsOfReset'
    BY <1>1, <1>2 DEF GazeboInv, StepsOfReset, history
  <2> QED
    BY <2>1, <2>2, <2>3 DEF GazeboInv
<1>3. CASE /\ call' = "succeeded"
           /\ position' = 0 /\ heading' = 0 /\ command' \in {command, Halt}
           /\ allowance' = Underway /\ unattended' = 0 /\ disturbed' = TRUE
           /\ cycle' = [cycle EXCEPT !.world = TRUE]
  <2>1. Accounted
    BY UnderwayIsAccounted DEF GazeboInv
  <2>2. cycle'.world /\ cycle'.session = cycle.session
        /\ cycle' \in [session : 0 .. MaxSession, world : BOOLEAN]
    BY <1>3 DEF GazeboInv, GazeboTypeOK
  <2>3. GazeboTypeOK'
    <3>1. ScenarioTypeOK' /\ ControllerTypeOK'
      BY <1>1, <1>3 DEF GazeboInv, GazeboTypeOK, ScenarioTypeOK, ControllerTypeOK, scenVars
    <3>2. MotionTypeOK'
      BY <1>1, <1>3, Segments DEF GazeboInv, GazeboTypeOK, MotionTypeOK
    <3>3. ChannelTypeOK'
      BY <1>1 DEF GazeboInv, GazeboTypeOK, ChannelTypeOK, channels
    <3>4. allowance' \in Nat
      BY <1>3, <2>1 DEF Accounted
    <3> QED
      BY <1>1, <1>3, <2>2, <3>1, <3>2, <3>3, <3>4 DEF GazeboInv, GazeboTypeOK, counters
  <2>4. OnlyAllowed'
    <3>1. Accounted'
      BY <2>3, UnderwayIsAccounted, PTL
    <3>2. Outstanding' = Outstanding /\ ForwardIn(segments)' = ForwardIn(segments)
          /\ deadline' = deadline
      BY <1>1 DEF Outstanding, ForwardIn, channels
    <3>3. command'.forward <= command.forward
      BY <1>3, <2>1, Segments DEF Accounted
    <3>4. ForwardLeft' <= ForwardLeft
      BY <2>1, <3>1, <3>2, <3>3 DEF ForwardLeft, Accounted
    <3> DEFINE u == Underway
               v == Underway'
    <3>5. u \in Nat /\ v \in Nat /\ v <= u
      BY <2>1, <3>1, <3>2, <3>4 DEF Accounted
    <3>6. position' = 0 /\ allowance' = u /\ unattended' = 0
      BY <1>3
    <3> HIDE DEF u, v
    <3>7. position' + v <= allowance' + unattended'
      BY <3>5, <3>6
    <3>8. position' + Underway' <= allowance' + unattended'
      BY <3>7 DEF v
    <3>9. running' /\ deadline' = "none" => command' = Halt
      BY <1>1, <1>3 DEF GazeboInv, OnlyAllowed
    <3> QED
      BY <3>8, <3>9 DEF OnlyAllowed
  <2>5. WillStand' /\ StageIsNext' /\ NothingHeld'
    BY <1>1, <1>3 DEF GazeboInv, WillStand, StageIsNext, NothingHeld, scenVars, channels
  <2>6. StepsOfReset'
    BY <1>1, <2>2 DEF GazeboInv, StepsOfReset
  <2> QED
    BY <2>3, <2>4, <2>5, <2>6 DEF GazeboInv
<1> QED
  BY <1>2, <1>3 DEF WorldServes, Answered

LEMMA ControllerKeeps ==
    ASSUME GazeboInv, NEW A, ControllerSteps(A),
           ControllerTakesSession \/ StudyReset \/ ControllerHears
    PROVE  GazeboInv'
<1>1. UNCHANGED <<scenVars, motionVars, robot, session, requests, authorized, blocked, statuses,
                  restarts, adrift, allowance, unattended, disturbed>>
  BY DEF ControllerSteps
<1>2. ControllerTypeOK' /\ announced' \in [Reader -> 0 .. MaxSession] /\ resets' \in 0 .. MaxReset
      /\ cycle' \in [session : 0 .. MaxSession, world : BOOLEAN] /\ StepsOfReset'
  <2>1. CASE ControllerTakesSession
    <3>1. announced["controller"] \in 0 .. MaxSession
      BY DEF GazeboInv, GazeboTypeOK, ChannelTypeOK, Reader
    <3>2. known' = announced["controller"] /\ UNCHANGED <<phase, call, resetOf, controlStatus, resets, cycle>>
      BY <2>1 DEF ControllerTakesSession, ControllerOnSession
    <3>3. announced' \in [Reader -> 0 .. MaxSession]
      <4>1. announced \in [Reader -> 0 .. MaxSession] /\ 0 \in 0 .. MaxSession
        BY GazeboAssumption DEF GazeboInv, GazeboTypeOK, ChannelTypeOK
      <4>2. announced' = [announced EXCEPT !["controller"] = 0]
        BY <2>1 DEF ControllerTakesSession
      <4> QED
        BY <4>1, <4>2
    <3> QED
      BY <1>1, <3>1, <3>2, <3>3 DEF GazeboInv, GazeboTypeOK, ControllerTypeOK, StepsOfReset
  <2>2. CASE StudyReset
    <3>1. /\ phase' = "world" /\ call' = "sent" /\ controlStatus' = "reset_requested"
          /\ cycle' = [session |-> session, world |-> FALSE]
          /\ resets < MaxReset /\ resets' = resets + 1
          /\ UNCHANGED <<known, resetOf, announced>>
      BY <2>2 DEF StudyReset, AcceptsReset
    <3>2. session \in 0 .. MaxSession
      BY DEF GazeboInv, GazeboTypeOK
    <3>3. StepsOfReset'
      BY <1>1, <3>1, <3>2 DEF StepsOfReset
    <3> QED
      BY <3>1, <3>2, <3>3, GazeboAssumption
         DEF GazeboInv, GazeboTypeOK, ControllerTypeOK, ChannelTypeOK
  <2>3. CASE ControllerHears
    <3>1. UNCHANGED <<announced, resets, cycle, known>>
      BY <2>3 DEF ControllerHears, OnWorldReset, OnConsentReset, FailReset
    <3>2. ControllerTypeOK' /\ StepsOfReset'
      <4>1. CASE OnWorldReset
        BY <1>1, <3>1, <4>1
           DEF OnWorldReset, WorldIsReset, FailReset, GazeboInv, GazeboTypeOK, ControllerTypeOK,
               StepsOfReset
      <4>2. CASE OnConsentReset
        BY <1>1, <3>1, <4>2
           DEF OnConsentReset, FailReset, GazeboInv, GazeboTypeOK, ControllerTypeOK, StepsOfReset
      <4> QED
        BY <2>3, <4>1, <4>2 DEF ControllerHears
    <3> QED
      BY <3>1, <3>2 DEF GazeboInv, GazeboTypeOK, ChannelTypeOK
  <2> QED
    BY <2>1, <2>2, <2>3
<1>3. GazeboTypeOK'
  <2>1. ScenarioTypeOK' /\ MotionTypeOK'
    BY <1>1 DEF GazeboInv, GazeboTypeOK, ScenarioTypeOK, MotionTypeOK, scenVars, motionVars, robot
  <2>2. ChannelTypeOK'
    BY <1>1, <1>2 DEF GazeboInv, GazeboTypeOK, ChannelTypeOK
  <2> QED
    BY <1>1, <1>2, <2>1, <2>2 DEF GazeboInv, GazeboTypeOK
<1>4. OnlyAllowed' /\ NothingHeld' /\ WillStand' /\ StageIsNext'
  BY <1>1, OthersDoNotMove DEF GazeboInv
<1> QED
  BY <1>2, <1>3, <1>4 DEF GazeboInv

-----------------------------------------------------------------------------
(***************************************************************************)
(* The scenario: what a step of its node does and says.                    *)
(***************************************************************************)
LEMMA StatusAdded ==
    ASSUME statuses \in Seq(StatusMessage), NEW m, statuses' = Append(statuses, m)
    PROVE  Cardinality(Outstanding') = Cardinality(Outstanding) + (IF Executed(m) THEN 1 ELSE 0)
<1> DEFINE n == Len(statuses)
<1>1. n \in Nat /\ Outstanding \in SUBSET (1 .. n)
  BY DEF Outstanding
<1>2. IsFiniteSet(Outstanding) /\ n + 1 \notin Outstanding
  <2>1. IsFiniteSet(Outstanding)
    BY <1>1, IndicesAreFinite
  <2>2. n + 1 \notin 1 .. n
    BY <1>1
  <2> QED
    BY <1>1, <2>1, <2>2
<1>3. Len(statuses') = n + 1 /\ statuses'[n + 1] = m
      /\ \A i \in 1 .. n : statuses'[i] = statuses[i]
  BY <1>1
<1>4. CASE Executed(m)
  <2>1. Outstanding' = Outstanding \cup {n + 1}
    <3>1. DOMAIN statuses' = 1 .. n + 1 /\ DOMAIN statuses = 1 .. n
      BY <1>1, <1>3
    <3> HIDE DEF n
    <3> QED
      BY <1>1, <1>3, <1>4, <3>1 DEF Outstanding
  <2> QED
    BY <1>2, <1>4, <2>1, FS_AddElement
<1>5. CASE ~Executed(m)
  <2>1. Outstanding' = Outstanding
    <3>1. DOMAIN statuses' = 1 .. n + 1 /\ DOMAIN statuses = 1 .. n
      BY <1>1, <1>3
    <3> HIDE DEF n
    <3> QED
      BY <1>1, <1>3, <1>5, <3>1 DEF Outstanding
  <2>2. Cardinality(Outstanding) \in Nat
    BY <1>1, IndicesAreFinite
  <2> QED
    BY <1>5, <2>1, <2>2
<1> QED
  BY <1>4, <1>5

LEMMA AllowedIsCounted ==
    ASSUME NEW p \in Nat, NEW u \in Nat, NEW v \in Nat, NEW a \in Nat, NEW x \in Nat,
           NEW k \in {0, 1}, p + u <= a + x, v <= u + k
    PROVE  p + v <= (a + k) + x
OBVIOUS

\* A step that leaves a stage waiting has said so last, or nothing.
ScenarioStepOK ==
    /\ ScenarioTypeOK' /\ StageIsNext'
    /\ scenOut'.status = "requested" => scenOut'.stage \in 1 .. Len(Stages)
    /\ current' # 0 => \/ scenOut'.status = "none" /\ current' = current
                       \/ scenOut'.status \in {"requested", "started"}

LEMMA LenStages == Len(Stages) \in Nat /\ DOMAIN Stages = 1 .. Len(Stages)
BY ScenarioAssumption

LEMMA SaysIsTyped ==
    ASSUME NEW status \in ScenarioStatus, NEW stage \in 0 .. Len(Stages), Says(status, stage)
    PROVE  scenOut' \in [status : ScenarioStatus \cup {"none"}, stage : 0 .. Len(Stages)]
BY DEF Says

LEMMA StillIsOK ==
    ASSUME GazeboInv, Still
    PROVE  ScenarioStepOK
BY LenStages DEF GazeboInv, GazeboTypeOK, ScenarioTypeOK, StageIsNext, Still, Silent, NoNews, ScenarioStepOK

LEMMA AdvanceIsOK ==
    ASSUME GazeboInv, current # 0, NEW outcome \in {"executed", "fallback"}, Advance(outcome)
    PROVE  ScenarioStepOK
<1>1. current \in 1 .. Len(Stages) /\ nextStage + 1 = current
  BY LenStages DEF GazeboInv, GazeboTypeOK, ScenarioTypeOK, StageIsNext
<1>2. /\ nextStage' = current /\ current' = 0 /\ executing' = FALSE /\ due' = "ahead"
      /\ scenOut' = [status |-> outcome, stage |-> current]
      /\ UNCHANGED <<scenSession, complete>>
  BY <1>1 DEF Advance, Says
<1>3. ScenarioTypeOK'
  <2>1. scenOut' \in [status : ScenarioStatus \cup {"none"}, stage : 0 .. Len(Stages)]
    <3>1. outcome \in ScenarioStatus /\ current \in 0 .. Len(Stages)
      BY <1>1, LenStages DEF ScenarioStatus
    <3> QED
      BY <3>1, SaysIsTyped DEF Advance
  <2>2. current \in 0 .. Len(Stages) /\ 0 \in 0 .. Len(Stages)
    BY <1>1, LenStages
  <2> QED
    BY <1>2, <2>1, <2>2 DEF GazeboInv, GazeboTypeOK, ScenarioTypeOK
<1> QED
  BY <1>2, <1>3 DEF ScenarioStepOK, StageIsNext

LEMMA AuthorizedIsOK ==
    ASSUME GazeboInv, NEW c, ScenarioOnAuthorized(c)
    PROVE  ScenarioStepOK
<1>1. CASE ~Matches(c) /\ Still
  BY <1>1, StillIsOK
<1>2. CASE /\ Matches(c) /\ executing' = TRUE
           /\ Says("started", current)
           /\ UNCHANGED <<scenSession, nextStage, current, due, complete>>
  BY <1>2, LenStages
     DEF GazeboInv, GazeboTypeOK, ScenarioTypeOK, ScenarioStatus, StageIsNext, Says, ScenarioStepOK
<1>3. CASE Matches(c) /\ Advance("executed")
  BY <1>3, AdvanceIsOK DEF Matches
<1> QED
  BY <1>1, <1>2, <1>3 DEF ScenarioOnAuthorized

LEMMA BlockedIsOK ==
    ASSUME GazeboInv, NEW c, ScenarioOnBlocked(c)
    PROVE  ScenarioStepOK
<1>1. CASE Matches(c) /\ Advance("fallback")
  BY <1>1, AdvanceIsOK DEF Matches
<1> QED
  BY <1>1, StillIsOK DEF ScenarioOnBlocked

LEMMA CompletedIsOK ==
    ASSUME GazeboInv, NEW c, NEW result, OnExecutionCompleted(c, result)
    PROVE  ScenarioStepOK
<1>1. Outcome(result) \in {"executed", "fallback"}
  BY DEF Outcome
<1>2. CASE Awaited(c) /\ Advance(Outcome(result))
  BY <1>1, <1>2, AdvanceIsOK DEF Awaited, Matches
<1> QED
  BY <1>2, StillIsOK DEF OnExecutionCompleted

LEMMA OnSessionIsOK ==
    ASSUME GazeboInv, NEW s \in 0 .. MaxSession, ScenarioOnSession(s)
    PROVE  ScenarioStepOK
<1>1. CASE s = scenSession
  BY <1>1, StillIsOK DEF ScenarioOnSession
<1>2. CASE s # scenSession
  <2>1. /\ scenSession' = s /\ nextStage' = 0 /\ current' = 0 /\ complete' = FALSE
        /\ executing' = FALSE /\ due' = "ahead" /\ scenOut' = [status |-> "ready", stage |-> 0]
    BY <1>2 DEF ScenarioOnSession, Restart, Says
  <2>2. ScenarioTypeOK'
    <3>1. scenOut' \in [status : ScenarioStatus \cup {"none"}, stage : 0 .. Len(Stages)]
      <4>1. "ready" \in ScenarioStatus /\ 0 \in 0 .. Len(Stages)
        BY LenStages DEF ScenarioStatus
      <4>2. Says("ready", 0)
        BY <2>1 DEF Says
      <4> QED
        BY <4>1, <4>2, SaysIsTyped
    <3>2. 0 \in 0 .. Len(Stages)
      BY LenStages
    <3> QED
      BY <2>1, <3>1, <3>2 DEF ScenarioTypeOK
  <2> QED
    BY <2>1, <2>2 DEF ScenarioStepOK, StageIsNext
<1> QED
  BY <1>1, <1>2

LEMMA TickIsOK ==
    ASSUME GazeboInv, ScenarioTick
    PROVE  ScenarioStepOK
<1>1. CASE nextStage = Len(Stages)
  <2>1. /\ due' = "none" /\ complete' = TRUE /\ current' = 0
        /\ scenOut' = [status |-> "complete", stage |-> 0]
        /\ UNCHANGED <<scenSession, nextStage, executing>>
    BY <1>1 DEF ScenarioTick, Says
  <2>2. ScenarioTypeOK'
    BY <2>1, LenStages DEF GazeboInv, GazeboTypeOK, ScenarioTypeOK, ScenarioStatus
  <2> QED
    BY <2>1, <2>2 DEF ScenarioStepOK, StageIsNext
<1>2. CASE nextStage # Len(Stages)
  <2>1. /\ due' = "none" /\ current' = nextStage + 1
        /\ scenOut' = [status |-> "requested", stage |-> nextStage + 1]
        /\ UNCHANGED <<scenSession, nextStage, complete, executing>>
    BY <1>2 DEF ScenarioTick, Says
  <2>2. nextStage + 1 \in 1 .. Len(Stages) /\ nextStage + 1 \in 0 .. Len(Stages)
    <3> DEFINE n == Len(Stages)
    <3>1. n \in Nat /\ nextStage \in 0 .. n /\ nextStage # n
      BY <1>2, LenStages DEF GazeboInv, GazeboTypeOK, ScenarioTypeOK
    <3> HIDE DEF n
    <3>2. nextStage + 1 \in 1 .. n /\ nextStage + 1 \in 0 .. n
      BY <3>1
    <3> QED
      BY <3>2 DEF n
  <2>3. ScenarioTypeOK'
    <3>1. scenOut' \in [status : ScenarioStatus \cup {"none"}, stage : 0 .. Len(Stages)]
      <4>1. "requested" \in ScenarioStatus
        BY DEF ScenarioStatus
      <4>2. Says("requested", nextStage + 1)
        BY <2>1 DEF Says
      <4> QED
        BY <2>2, <4>1, <4>2, SaysIsTyped
    <3> QED
      BY <2>1, <2>2, <3>1 DEF GazeboInv, GazeboTypeOK, ScenarioTypeOK
  <2> QED
    BY <2>1, <2>2, <2>3 DEF ScenarioStepOK, StageIsNext
<1> QED
  BY <1>1, <1>2

LEMMA DelayIsOK ==
    ASSUME GazeboInv, DelayPasses
    PROVE  ScenarioStepOK
BY LenStages DEF GazeboInv, GazeboTypeOK, ScenarioTypeOK, StageIsNext, DelayPasses, Silent, NoNews, ScenarioStepOK

LEMMA ScenarioKeeps ==
    ASSUME GazeboInv, NEW A, ScenarioSteps(A), ScenarioStepOK,
           authorized' \in Seq(Capabilities), blocked' \in Seq(Capabilities),
           announced' \in [Reader -> 0 .. MaxSession], disturbed' \in BOOLEAN
    PROVE  GazeboInv'
<1>1. UNCHANGED <<motionVars, robot, controllerVars, session, counters, unattended, cycle>>
      /\ ScenarioPublishes
  BY DEF ScenarioSteps
<1>2. Status \in [status : ScenarioStatus \cup {"none"}, stage : 0 .. Len(Stages), sensed : BOOLEAN]
      /\ Status.status = scenOut'.status
  <2>1. scenOut' \in [status : ScenarioStatus \cup {"none"}, stage : 0 .. Len(Stages)]
    BY DEF ScenarioStepOK, ScenarioTypeOK
  <2>2. (scenOut'.status = "executed" /\ NeedsSensor(Stages[scenOut'.stage])) \in BOOLEAN
    BY ScenarioAssumption DEF NeedsSensor
  <2> QED
    BY <2>1, <2>2 DEF Status
<1>3. CASE scenOut'.status = "none"
  <2>1. statuses' = statuses /\ allowance' = allowance /\ requests' = requests
    BY <1>1, <1>2, <1>3 DEF ScenarioPublishes, Executed
  <2>2. ScenarioTypeOK' /\ StageIsNext'
    BY DEF ScenarioStepOK
  <2>3. GazeboTypeOK'
    <3>1. MotionTypeOK' /\ ControllerTypeOK'
      BY <1>1 DEF GazeboInv, GazeboTypeOK, MotionTypeOK, ControllerTypeOK, motionVars, robot,
                  controllerVars
    <3>2. ChannelTypeOK'
      BY <2>1 DEF GazeboInv, GazeboTypeOK, ChannelTypeOK
    <3> QED
      BY <1>1, <2>1, <2>2, <3>1, <3>2 DEF GazeboInv, GazeboTypeOK, counters
  <2>4. OnlyAllowed'
    <3>1. Underway' = Underway
      BY <1>1, <2>1 DEF Underway, Outstanding, Advances, motionVars
    <3> QED
      BY <1>1, <2>1, <3>1 DEF GazeboInv, OnlyAllowed, motionVars, robot
  <2>5. WillStand'
    BY <1>1, <1>3, <2>1 DEF GazeboInv, WillStand, ScenarioStepOK, motionVars
  <2>6. StepsOfReset' /\ NothingHeld'
    BY <1>1, <2>1 DEF GazeboInv, StepsOfReset, NothingHeld, controllerVars, motionVars
  <2> QED
    BY <2>2, <2>3, <2>4, <2>5, <2>6 DEF GazeboInv
<1>4. CASE scenOut'.status # "none"
  <2>1. /\ statuses' = (IF running THEN Append(statuses, Status) ELSE statuses)
        /\ Status \in StatusMessage
    BY <1>1, <1>2, <1>4 DEF ScenarioPublishes, StatusMessage
  <2>2. statuses \in Seq(StatusMessage)
    BY DEF GazeboInv, GazeboTypeOK, ChannelTypeOK
  <2>3. /\ statuses' \in Seq(StatusMessage)
        /\ (running => (statuses' # <<>> /\ statuses'[Len(statuses')] = Status))
    <3>1. CASE running
      <4>1. statuses' = Append(statuses, Status)
        BY <2>1, <3>1
      <4> QED
        BY <2>1, <2>2, <4>1
    <3>2. CASE ~running
      <4>1. statuses' = statuses
        BY <2>1, <3>2
      <4> QED
        BY <2>2, <3>2, <4>1
    <3> QED
      BY <3>1, <3>2
  <2>4. requests' \in Seq(Capabilities)
    <3>1. requests \in Seq(Capabilities)
      BY DEF GazeboInv, GazeboTypeOK, ChannelTypeOK
    <3>2. CASE scenOut'.status = "requested"
      <4>1. Stages[scenOut'.stage] \in Capabilities
        BY <3>2, LenStages DEF ScenarioStepOK, Capabilities
      <4>2. requests' = Append(requests, Stages[scenOut'.stage])
        BY <1>1, <3>2 DEF ScenarioPublishes
      <4> QED
        BY <3>1, <4>1, <4>2
    <3>3. CASE scenOut'.status # "requested"
      BY <1>1, <3>1, <3>3 DEF ScenarioPublishes
    <3> QED
      BY <3>2, <3>3
  <2>5. allowance' = allowance + (IF Executed(Status) THEN 1 ELSE 0) /\ allowance \in Nat
    BY <1>1 DEF ScenarioPublishes, GazeboInv, GazeboTypeOK
  <2>6. GazeboTypeOK'
    <3>1. MotionTypeOK' /\ ControllerTypeOK'
      BY <1>1 DEF GazeboInv, GazeboTypeOK, MotionTypeOK, ControllerTypeOK, motionVars, robot,
                  controllerVars
    <3>2. ChannelTypeOK' /\ ScenarioTypeOK'
      BY <2>3, <2>4 DEF ChannelTypeOK, ScenarioStepOK
    <3>3. allowance' \in Nat
      BY <2>5
    <3> QED
      BY <1>1, <3>1, <3>2, <3>3 DEF GazeboInv, GazeboTypeOK, counters
  <2>7. OnlyAllowed'
    <3>1. Accounted
      BY UnderwayIsAccounted DEF GazeboInv
    <3>2. Accounted'
      BY <2>6, UnderwayIsAccounted, PTL
    <3>3. ForwardLeft' = ForwardLeft
      BY <1>1 DEF ForwardLeft, ForwardIn, motionVars
    <3>4. PICK k \in {0, 1} : k = IF Executed(Status) THEN 1 ELSE 0
      OBVIOUS
    <3>5. /\ position \in Nat /\ allowance \in Nat /\ unattended \in Nat
          /\ Underway \in Nat /\ Underway' \in Nat
          /\ position + Underway <= allowance + unattended
      <4>1. position \in Nat /\ allowance \in Nat /\ unattended \in Nat
        BY DEF GazeboInv, GazeboTypeOK, MotionTypeOK
      <4>2. Underway \in Nat /\ Underway' \in Nat
        BY <3>1, <3>2 DEF Accounted
      <4>3. position + Underway <= allowance + unattended
        BY DEF GazeboInv, OnlyAllowed
      <4> QED
        BY <4>1, <4>2, <4>3
    <3>6. Underway' <= Underway + k
      <4>1. CASE running
        <5>1. statuses' = Append(statuses, Status)
          BY <2>1, <4>1
        <5>2. Cardinality(Outstanding') = Cardinality(Outstanding) + k
          BY <2>1, <2>2, <3>4, <5>1, StatusAdded
        <5> QED
          BY <3>1, <3>2, <3>3, <5>2 DEF Accounted
      <4>2. CASE ~running
        <5>1. Outstanding' = Outstanding
          BY <2>1, <4>2 DEF Outstanding
        <5> QED
          BY <3>1, <3>2, <3>3, <5>1 DEF Accounted
      <4> QED
        BY <4>1, <4>2
    <3>7. position + Underway' <= (allowance + k) + unattended
      BY <3>5, <3>6, AllowedIsCounted
    <3>8. position' = position /\ allowance' = allowance + k /\ unattended' = unattended
      BY <1>1, <2>5, <3>4 DEF robot
    <3>9. position' + Underway' <= allowance' + unattended'
      BY <3>7, <3>8
    <3> QED
      BY <1>1, <3>9 DEF GazeboInv, OnlyAllowed, motionVars
  <2>8. WillStand' /\ NothingHeld'
    <3>1. UNCHANGED <<running, segments, deadline>>
      BY <1>1 DEF motionVars
    <3> QED
      BY <1>2, <1>4, <2>1, <2>3, <3>1 DEF GazeboInv, WillStand, NothingHeld, ScenarioStepOK
  <2>9. StageIsNext' /\ StepsOfReset'
    BY <1>1 DEF GazeboInv, ScenarioStepOK, StepsOfReset, controllerVars
  <2> QED
    BY <2>6, <2>7, <2>8, <2>9 DEF GazeboInv
<1> QED
  BY <1>3, <1>4

-----------------------------------------------------------------------------
(***************************************************************************)
(* The theorems.                                                           *)
(***************************************************************************)
LEMMA InitIsGood == Init => GazeboInv
<1> SUFFICES ASSUME Init
             PROVE  GazeboInv
  OBVIOUS
<1>1. ScenarioTypeOK
  <2>1. 0 \in 0 .. MaxSession /\ 0 \in 0 .. Len(Stages)
    BY GazeboAssumption, LenStages
  <2>2. NoNews \in [status : ScenarioStatus \cup {"none"}, stage : 0 .. Len(Stages)]
    BY <2>1 DEF NoNews
  <2> QED
    BY <2>1, <2>2 DEF Init, ScenarioInit, ScenarioTypeOK
<1>2. MotionTypeOK
  BY Segments DEF Init, MotionInit, RobotInit, MotionTypeOK
<1>3. ControllerTypeOK
  BY GazeboAssumption DEF Init, ControllerInit, ControllerTypeOK
<1>4. ChannelTypeOK
  BY GazeboAssumption DEF Init, ChannelTypeOK
<1>5. GazeboTypeOK
  <2>1. 1 \in 1 .. MaxSession /\ 0 \in 0 .. MaxSession /\ 0 \in 0 .. MaxReset
        /\ 0 \in 0 .. MaxRestart /\ 0 \in 0 .. MaxAdrift
    BY GazeboAssumption
  <2>2. [session |-> 0, world |-> FALSE] \in [session : 0 .. MaxSession, world : BOOLEAN]
    BY <2>1
  <2> QED
    BY <1>1, <1>2, <1>3, <1>4, <2>1, <2>2 DEF Init, GazeboTypeOK
<1>6. OnlyAllowed
  <2>1. Accounted
    BY <1>5, UnderwayIsAccounted
  <2>2. Outstanding = {} /\ ForwardIn(segments) = {}
    BY DEF Init, MotionInit, Outstanding, ForwardIn
  <2>3. ForwardLeft = 0 /\ Cardinality(Outstanding) = 0
    <3>1. deadline = "none"
      BY DEF Init, MotionInit
    <3>2. Cardinality(Outstanding) = 0 /\ Cardinality(ForwardIn(segments)) = 0
      BY <2>2, FS_EmptySet, Zenon
    <3> QED
      BY <3>1, <3>2 DEF ForwardLeft
  <2>4. Underway = 0
    BY <2>1, <2>3 DEF Accounted
  <2> QED
    BY <2>4 DEF Init, MotionInit, RobotInit, OnlyAllowed
<1>7. StageIsNext /\ WillStand /\ StepsOfReset /\ NothingHeld
  BY DEF Init, ScenarioInit, MotionInit, ControllerInit, StageIsNext, WillStand, StepsOfReset,
         NothingHeld
<1> QED
  BY <1>5, <1>6, <1>7 DEF GazeboInv

LEMMA ScenarioStepsKeep ==
    ASSUME GazeboInv,
           \/ ScenarioSteps(ScenarioAuthorized) \/ ScenarioSteps(ScenarioBlocked)
           \/ ScenarioSteps(ScenarioSession) \/ ScenarioSteps(ScenarioCompleted)
           \/ ScenarioSteps(ScenarioTimer)
    PROVE  GazeboInv'
<1>1. /\ authorized \in Seq(Capabilities) /\ blocked \in Seq(Capabilities)
      /\ announced \in [Reader -> 0 .. MaxSession] /\ disturbed \in BOOLEAN
  BY DEF GazeboInv, GazeboTypeOK, ChannelTypeOK
<1>2. CASE ScenarioSteps(ScenarioAuthorized)
  <2>1. ScenarioStepOK /\ authorized' = Tail(authorized) /\ authorized # <<>>
        /\ UNCHANGED <<blocked, announced, disturbed>>
    BY <1>2, AuthorizedIsOK DEF ScenarioSteps, ScenarioAuthorized
  <2>2. authorized' \in Seq(Capabilities)
    BY <1>1, <2>1
  <2> QED
    BY <1>1, <1>2, <2>1, <2>2, ScenarioKeeps
<1>3. CASE ScenarioSteps(ScenarioBlocked)
  <2>1. ScenarioStepOK /\ blocked' = Tail(blocked) /\ blocked # <<>>
        /\ UNCHANGED <<authorized, announced, disturbed>>
    BY <1>3, BlockedIsOK DEF ScenarioSteps, ScenarioBlocked
  <2>2. blocked' \in Seq(Capabilities)
    BY <1>1, <2>1
  <2> QED
    BY <1>1, <1>3, <2>1, <2>2, ScenarioKeeps
<1>4. CASE ScenarioSteps(ScenarioSession)
  <2>1. announced["scenario"] \in 0 .. MaxSession /\ 0 \in 0 .. MaxSession
    BY <1>1, GazeboAssumption DEF Reader
  <2>2. ScenarioStepOK /\ announced' = [announced EXCEPT !["scenario"] = 0]
        /\ UNCHANGED <<authorized, blocked, disturbed>>
    BY <1>4, <2>1, OnSessionIsOK DEF ScenarioSteps, ScenarioSession
  <2>3. announced' \in [Reader -> 0 .. MaxSession]
    BY <1>1, <2>1, <2>2
  <2> QED
    BY <1>1, <1>4, <2>2, <2>3, ScenarioKeeps
<1>5. CASE ScenarioSteps(ScenarioCompleted)
  <2>1. ScenarioStepOK /\ UNCHANGED <<authorized, blocked, announced, disturbed>>
    BY <1>5, CompletedIsOK DEF ScenarioSteps, ScenarioCompleted
  <2> QED
    BY <1>1, <1>5, <2>1, ScenarioKeeps
<1>6. CASE ScenarioSteps(ScenarioTimer)
  <2>1. ScenarioStepOK /\ disturbed' \in BOOLEAN /\ UNCHANGED <<authorized, blocked, announced>>
    BY <1>1, <1>6, TickIsOK, DelayIsOK DEF ScenarioSteps, ScenarioTimer
  <2> QED
    BY <1>1, <1>6, <2>1, ScenarioKeeps
<1> QED
  BY <1>2, <1>3, <1>4, <1>5, <1>6

LEMMA StepsKeep == GazeboInv /\ [Next]_vars => GazeboInv'
<1> SUFFICES ASSUME GazeboInv, [Next]_vars
             PROVE  GazeboInv'
  OBVIOUS
<1>1. CASE Answers
  BY <1>1, AnswersKeeps
<1>2. CASE OtherReset
  BY <1>2, OtherResetKeeps
<1>3. CASE WorldServes
  BY <1>3, WorldServesKeeps
<1>4. CASE ManagerServes
  BY <1>4, ManagerServesKeeps
<1>5. CASE ControllerSteps(ControllerTakesSession)
  BY <1>5, ControllerKeeps DEF ControllerSteps
<1>6. CASE ControllerSteps(StudyReset)
  BY <1>6, ControllerKeeps DEF ControllerSteps
<1>7. CASE ControllerSteps(ControllerHears)
  BY <1>7, ControllerKeeps DEF ControllerSteps
<1>8. CASE \/ ScenarioSteps(ScenarioAuthorized) \/ ScenarioSteps(ScenarioBlocked)
           \/ ScenarioSteps(ScenarioSession) \/ ScenarioSteps(ScenarioCompleted)
           \/ ScenarioSteps(ScenarioTimer)
  BY <1>8, ScenarioStepsKeep
<1>9. CASE AdapterSteps(AdapterTakesStatus)
  BY <1>9, AdapterTakesStatusKeeps
<1>10. CASE AdapterSteps(AdapterTicks)
  BY <1>10, AdapterTicksKeeps
<1>11. CASE AdapterSteps(RobotMoves)
  BY <1>11, RobotMovesKeeps
<1>12. CASE AdapterSteps(AdapterEnds)
  BY <1>12, AdapterEndsKeeps
<1>13. CASE AdapterSteps(AdapterStarts)
  BY <1>13, AdapterStartsKeeps
<1>14. CASE UNCHANGED vars
  <2>1. GazeboTypeOK' /\ StageIsNext' /\ WillStand' /\ StepsOfReset' /\ NothingHeld'
    BY <1>14 DEF GazeboInv, GazeboTypeOK, ScenarioTypeOK, MotionTypeOK, ControllerTypeOK,
                 ChannelTypeOK, StageIsNext, WillStand, StepsOfReset, NothingHeld, vars, scenVars, motionVars,
                 robot, controllerVars, channels, counters, history
  <2>2. OnlyAllowed'
    <3>1. Underway' = Underway
      BY <1>14 DEF Underway, Outstanding, Advances, vars, motionVars, channels
    <3> QED
      BY <1>14, <3>1 DEF GazeboInv, OnlyAllowed, vars, motionVars, robot, history
  <2> QED
    BY <2>1, <2>2 DEF GazeboInv
<1> QED
  BY <1>1, <1>2, <1>3, <1>4, <1>5, <1>6, <1>7, <1>8, <1>9, <1>10, <1>11, <1>12, <1>13, <1>14 DEF Next

(***************************************************************************)
(* The inductive invariant: with an adapter the robot has not driven, and  *)
(* will not drive by what it was told already, beyond what was executed;   *)
(* what it has driven beyond that it drove while no adapter ran.           *)
(***************************************************************************)
THEOREM GazeboInvariant == Spec => []GazeboInv
BY InitIsGood, StepsKeep, PTL DEF Spec

(***************************************************************************)
(* Every variable of the demonstration keeps its type.                     *)
(***************************************************************************)
THEOREM GazeboTypeInvariant == Spec => []GazeboTypeOK
<1>1. GazeboInv => GazeboTypeOK
  BY DEF GazeboInv
<1> QED
  BY <1>1, GazeboInvariant, PTL

(***************************************************************************)
(* The robot never stands further than the outcomes announced put it, but  *)
(* for what it drove while no adapter ran.  An adapter that ends need not  *)
(* have stopped it (destroy_node, gazebo_motion_adapter_node.py:132-142),  *)
(* however often one does; the next one does, and drives none of the rest. *)
(***************************************************************************)
THEOREM NeverFurtherThanAllowedAlways == Spec => []NeverFurtherThanAllowed
<1>1. GazeboInv => NeverFurtherThanAllowed
  <2> SUFFICES ASSUME GazeboInv
               PROVE  position <= allowance + unattended
    BY DEF NeverFurtherThanAllowed
  <2> DEFINE u == Underway
  <2>1. u \in Nat
    BY UnderwayIsAccounted DEF GazeboInv, Accounted
  <2>2. /\ position + u <= allowance + unattended
        /\ position \in Nat /\ allowance \in Nat /\ unattended \in Nat
    BY DEF GazeboInv, OnlyAllowed, GazeboTypeOK, MotionTypeOK
  <2> HIDE DEF u
  <2> QED
    BY <2>1, <2>2
<1> QED
  BY <1>1, GazeboInvariant, PTL

(***************************************************************************)
(* While a stage waits for its decision, a robot whose adapter runs and    *)
(* has caught up stands, also one that was found moving when the adapter   *)
(* was started (gazebo_motion_logic.py: every other status is a halt).     *)
(***************************************************************************)
THEOREM WaitsStandingAlways == Spec => []WaitsStanding
<1>1. GazeboInv => WaitsStanding
  BY DEF GazeboInv, WillStand, WaitsStanding
<1> QED
  BY <1>1, GazeboInvariant, PTL

(***************************************************************************)
(* A reset is reported complete only when the world, and then the session, *)
(* were reset since it was accepted (experiment_controller_node.py).       *)
(***************************************************************************)
THEOREM ResetInOrderAlways == Spec => []ResetInOrder
<1>1. GazeboInv => ResetInOrder
  BY DEF GazeboInv, StepsOfReset, ResetInOrder
<1> QED
  BY <1>1, GazeboInvariant, PTL

-----------------------------------------------------------------------------
(***************************************************************************)
(* A run in which nothing is reset, no adapter ends, every delay outlasts  *)
(* the plan before it.  Then an outcome is the last word of its stage: the *)
(* plan it starts is begun by an adapter at rest and is driven to its end. *)
(* What was driven and what is left to drive is what the outcomes allowed, *)
(* and no turn is left without its counterpart.                            *)
(***************************************************************************)
ForwardOf(q) == (IF Len(q) >= 1 THEN q[1].forward ELSE 0)
                + (IF Len(q) >= 2 THEN q[2].forward ELSE 0)
                + (IF Len(q) >= 3 THEN q[3].forward ELSE 0)
TurnOf(q) == (IF Len(q) >= 1 THEN q[1].turn ELSE 0)
             + (IF Len(q) >= 2 THEN q[2].turn ELSE 0)
             + (IF Len(q) >= 3 THEN q[3].turn ELSE 0)

AllTimed(q) == \A i \in DOMAIN q : q[i].timed
IsOutcome(m) == m.status \in {"executed", "fallback"}
OutcomeIsLast(q) == \A i \in DOMAIN q : IsOutcome(q[i]) => i = Len(q)
NoOutcome(q) == \A i \in DOMAIN q : ~IsOutcome(q[i])
Told(q) == IF q # <<>> /\ Executed(q[Len(q)]) THEN 1 ELSE 0
InHand(n) == IF deadline = "ahead" THEN n ELSE 0

OneSession ==
    /\ scenSession \in {0, 1} /\ announced["scenario"] \in {0, 1}
    /\ scenSession = 0 => current = 0 /\ due = "none" /\ statuses = <<>> /\ deadline = "none"
InTurn ==
    /\ current # 0 => due = "none"
    /\ due = "reached" => Quiet
    /\ due # "ahead" => NoOutcome(statuses)
    /\ OutcomeIsLast(statuses)
    /\ deadline # "none" => statuses = <<>> /\ due = "ahead"
AtRest == /\ running
          /\ deadline = "none" => segments = <<>> /\ command = Halt
          /\ AllTimed(segments)
Driven == position + Told(statuses) + InHand(command.forward) + ForwardOf(segments) = allowance
Turned == heading + InHand(command.turn) + TurnOf(segments) = 0

Smooth == OneSession /\ InTurn /\ AtRest /\ Driven /\ Turned

LEMMA SmoothStarts == Init => Smooth
<1> SUFFICES ASSUME Init PROVE Smooth
  OBVIOUS
<1>1. OneSession
  BY DEF Init, ScenarioInit, MotionInit, OneSession, Reader
<1>2. InTurn
  BY DEF Init, ScenarioInit, MotionInit, InTurn, NoOutcome, OutcomeIsLast, Quiet
<1>3. AtRest /\ Driven /\ Turned
  BY DEF Init, MotionInit, RobotInit, AtRest, Driven, Turned, AllTimed, Told, InHand,
     ForwardOf, TurnOf
<1> QED
  BY <1>1, <1>2, <1>3 DEF Smooth

(***************************************************************************)
(* What a plan adds up to.                                                 *)
(***************************************************************************)
AddsUpTo(plan, n) ==
    /\ plan \in Seq(Segment) /\ plan # <<>> /\ Len(plan) <= 3 /\ AllTimed(plan)
    /\ ForwardOf(plan) = n /\ TurnOf(plan) = 0

LEMMA SegmentValues ==
    /\ Forward.forward = 1 /\ Forward.turn = 0 /\ Forward.timed
    /\ \A n \in -4 .. 4 : Turn(n).forward = 0 /\ Turn(n).turn = n /\ Turn(n).timed
    /\ Left = Turn(4) /\ Right = Turn(-4) /\ Pause = Turn(0)
BY DEF Forward, Turn, Left, Right, Pause

\* A gesture turns there and back, or only pauses, and goes nowhere.
IsGesture(g) ==
    /\ g \in Seq(Segment) /\ Len(g) <= 2 /\ AllTimed(g)
    /\ \A i \in DOMAIN g : g[i].forward = 0
    /\ Len(g) = 1 => g[1].turn = 0
    /\ Len(g) = 2 => g[1].turn + g[2].turn = 0

LEMMA ThereAndBack ==
    ASSUME NEW n \in -4 .. 4
    PROVE  IsGesture(<<Turn(n), Turn(-n)>>)
<1> DEFINE g == <<Turn(n), Turn(-n)>>
<1>1. -n \in -4 .. 4
  OBVIOUS
<1>2. /\ Turn(n) \in Segment /\ Turn(n).forward = 0 /\ Turn(n).turn = n /\ Turn(n).timed
      /\ Turn(-n) \in Segment /\ Turn(-n).forward = 0 /\ Turn(-n).turn = -n /\ Turn(-n).timed
  BY <1>1, Segments, SegmentValues
<1>3. g \in Seq(Segment) /\ Len(g) = 2 /\ g[1] = Turn(n) /\ g[2] = Turn(-n)
  BY <1>2
<1> HIDE DEF g
<1>4. DOMAIN g = 1 .. 2
  BY <1>3
<1>5. \A i \in DOMAIN g : g[i].forward = 0 /\ g[i].timed
  BY <1>2, <1>3, <1>4
<1>6. g[1].turn + g[2].turn = 0
  BY <1>2, <1>3
<1> QED
  BY <1>3, <1>5, <1>6 DEF IsGesture, AllTimed, g

LEMMA GesturesReturn == ASSUME NEW number PROVE IsGesture(Gesture(number))
<1>1. Left = Turn(4) /\ Right = Turn(-4)
  BY SegmentValues
<1>2. CASE number \in {1, 7}
  <2>1. number # 2 /\ number # 3 /\ number # 4
    BY <1>2
  <2>2. Gesture(number) = <<Left, Right>>
    BY <1>2, <2>1, Zenon DEF Gesture
  <2> QED
    BY <1>1, <2>2, ThereAndBack
<1>3. CASE number = 2
  <2>1. number \notin {1, 7} /\ number # 3 /\ number # 4
    BY <1>3
  <2>2. Gesture(number) = <<Pause>>
    BY <1>3, <2>1, Zenon DEF Gesture
  <2>3. Pause \in Segment /\ Pause.forward = 0 /\ Pause.turn = 0 /\ Pause.timed
    BY DEF Pause, Turn, Segment
  <2> QED
    BY <2>2, <2>3 DEF IsGesture, AllTimed
<1>4. CASE number = 3
  <2>1. number \notin {1, 7} /\ number # 2 /\ number # 4
    BY <1>4
  <2>2. Gesture(number) = <<Turn(1), Turn(-1)>>
    BY <1>4, <2>1, Zenon DEF Gesture
  <2> QED
    BY <2>2, ThereAndBack
<1>5. CASE number = 4
  <2>1. number \notin {1, 7} /\ number # 2 /\ number # 3
    BY <1>5
  <2>2. Gesture(number) = <<Turn(3), Turn(-3)>>
    BY <1>5, <2>1, Zenon DEF Gesture
  <2> QED
    BY <2>2, ThereAndBack
<1>6. CASE number \notin {1, 2, 3, 4, 7}
  <2>1. number \notin {1, 7} /\ number # 2 /\ number # 3 /\ number # 4
    BY <1>6
  <2>2. Gesture(number) = <<>>
    BY <2>1, Zenon DEF Gesture
  <2> QED
    BY <2>2 DEF IsGesture, AllTimed
<1> QED
  BY <1>2, <1>3, <1>4, <1>5, <1>6

\* Sequences of at most three segments, by their elements.
LEMMA ShortPlan ==
    ASSUME NEW q \in Seq(Segment), Len(q) <= 3
    PROVE  /\ Len(q) \in 0 .. 3 /\ DOMAIN q = 1 .. Len(q) /\ (q # <<>> => Len(q) # 0)
           /\ \A i \in 1 .. Len(q) : q[i] \in Segment /\ q[i].forward \in Int /\ q[i].turn \in Int
<1>1. Len(q) \in Nat /\ DOMAIN q = 1 .. Len(q) /\ (q # <<>> => Len(q) # 0)
  BY LenProperties, EmptySeq
<1>2. \A i \in 1 .. Len(q) : q[i] \in Segment
  BY ElementOfSeq
<1>3. \A s \in Segment : s.forward \in Int /\ s.turn \in Int
  BY DEF Segment
<1> QED
  BY <1>1, <1>2, <1>3

LEMMA AllowedAddsUp == ASSUME NEW number PROVE AddsUpTo(AllowedPlan(number), 1)
<1>1. PICK g : g = Gesture(number)
  OBVIOUS
<1>2. PICK p : p = AllowedPlan(number)
  OBVIOUS
<1>3. IsGesture(g) /\ g \in Seq(Segment)
  BY <1>1, GesturesReturn DEF IsGesture
<1>4. /\ Len(g) \in 0 .. 2 /\ DOMAIN g = 1 .. Len(g)
      /\ \A i \in 1 .. Len(g) : g[i] \in Segment /\ g[i].turn \in Int
  <2>1. Len(g) \in Nat /\ Len(g) <= 2
    BY <1>3, LenProperties DEF IsGesture
  <2>2. Len(g) <= 3 /\ Len(g) \in 0 .. 2
    <3>1. PICK n \in Nat : n = Len(g) /\ n <= 2
      BY <2>1, Zenon
    <3>2. n <= 3 /\ n \in 0 .. 2
      BY <3>1
    <3> QED
      BY <3>1, <3>2, Zenon
  <2>3. /\ DOMAIN g = 1 .. Len(g)
        /\ \A i \in 1 .. Len(g) : g[i] \in Segment /\ g[i].turn \in Int
    BY <1>3, <2>2, ShortPlan, Zenon
  <2> QED
    BY <2>2, <2>3, Zenon
<1>5. /\ \A i \in 1 .. Len(g) : g[i].forward = 0 /\ g[i].timed
      /\ Len(g) = 1 => g[1].turn = 0
      /\ Len(g) = 2 => g[1].turn + g[2].turn = 0
  BY <1>3, <1>4 DEF IsGesture, AllTimed
<1>6. Forward \in Segment /\ Forward.forward = 1 /\ Forward.turn = 0 /\ Forward.timed
  BY Segments, SegmentValues
<1>7. p = IF number = 7 THEN <<Forward>> \o g ELSE g \o <<Forward>>
  BY <1>1, <1>2 DEF AllowedPlan
<1>8. /\ p \in Seq(Segment) /\ Len(p) = Len(g) + 1 /\ p # <<>> /\ DOMAIN p = 1 .. Len(g) + 1
      /\ \/ p[1] = Forward /\ \A i \in 1 .. Len(g) : p[i + 1] = g[i]
         \/ p[Len(g) + 1] = Forward /\ \A i \in 1 .. Len(g) : p[i] = g[i]
  BY <1>3, <1>4, <1>6, <1>7
<1>9. AllTimed(p)
  <2>1. CASE p[1] = Forward /\ \A i \in 1 .. Len(g) : p[i + 1] = g[i]
    <3>1. \A i \in 2 .. Len(g) + 1 : i - 1 \in 1 .. Len(g) /\ p[i] = g[i - 1]
      BY <1>4, <2>1
    <3> QED
      BY <1>4, <1>5, <1>6, <1>8, <2>1, <3>1 DEF AllTimed
  <2>2. CASE p[Len(g) + 1] = Forward /\ \A i \in 1 .. Len(g) : p[i] = g[i]
    <3>1. \A i \in 1 .. Len(g) + 1 : i = Len(g) + 1 \/ i \in 1 .. Len(g)
      BY <1>4
    <3> QED
      BY <1>5, <1>6, <1>8, <2>2, <3>1 DEF AllTimed
  <2> QED
    BY <1>8, <2>1, <2>2
<1>10. ForwardOf(p) = 1 /\ TurnOf(p) = 0
  <2>1. CASE Len(g) = 0
    BY <1>6, <1>8, <2>1 DEF ForwardOf, TurnOf
  <2>2. CASE Len(g) = 1
    <3>1. g[1].forward = 0 /\ g[1].turn = 0 /\ Len(p) = 2
          /\ {p[1], p[2]} = {g[1], Forward}
      BY <1>5, <1>8, <2>2
    <3> QED
      BY <1>5, <1>6, <1>8, <2>2, <3>1 DEF ForwardOf, TurnOf
  <2>3. CASE Len(g) = 2
    <3>1. /\ g[1].forward = 0 /\ g[2].forward = 0 /\ g[1].turn + g[2].turn = 0 /\ Len(p) = 3
          /\ g[1].turn \in Int /\ g[2].turn \in Int
      BY <1>4, <1>5, <1>8, <2>3
    <3>2. \/ p[1] = Forward /\ p[2] = g[1] /\ p[3] = g[2]
          \/ p[1] = g[1] /\ p[2] = g[2] /\ p[3] = Forward
      BY <1>8, <2>3
    <3>3. ForwardOf(p) = p[1].forward + p[2].forward + p[3].forward
      BY <3>1 DEF ForwardOf
    <3>4. TurnOf(p) = p[1].turn + p[2].turn + p[3].turn
      BY <3>1 DEF TurnOf
    <3>5. CASE p[1] = Forward /\ p[2] = g[1] /\ p[3] = g[2]
      BY <1>6, <3>1, <3>3, <3>4, <3>5
    <3>6. CASE p[1] = g[1] /\ p[2] = g[2] /\ p[3] = Forward
      BY <1>6, <3>1, <3>3, <3>4, <3>6
    <3> QED
      BY <3>2, <3>5, <3>6
  <2> QED
    BY <1>4, <2>1, <2>2, <2>3
<1>11. Len(p) <= 3
  BY <1>4, <1>8
<1> QED
  BY <1>2, <1>8, <1>9, <1>10, <1>11 DEF AddsUpTo

LEMMA FallbackAddsUp == ASSUME NEW number PROVE AddsUpTo(FallbackPlan(number), 0)
<1>1. PICK p : p = FallbackPlan(number)
  OBVIOUS
<1>2. p = <<Turn(4), Turn(-4)>>
  BY <1>1, SegmentValues DEF FallbackPlan
<1>3. IsGesture(p) /\ Len(p) = 2 /\ p # <<>>
  BY <1>2, ThereAndBack
<1>4. p \in Seq(Segment) /\ AllTimed(p)
      /\ (\A i \in DOMAIN p : p[i].forward = 0) /\ p[1].turn + p[2].turn = 0
  BY <1>3 DEF IsGesture
<1>5. p[1].turn \in Int /\ p[2].turn \in Int /\ p[1].forward = 0 /\ p[2].forward = 0
  <2>1. Len(p) <= 3 /\ 1 \in 1 .. Len(p) /\ 2 \in 1 .. Len(p)
    BY <1>3
  <2>2. 1 \in DOMAIN p /\ 2 \in DOMAIN p
    BY <1>4, <2>1, ShortPlan
  <2> QED
    BY <1>4, <2>1, <2>2, ShortPlan
<1> QED
  BY <1>1, <1>3, <1>4, <1>5 DEF AddsUpTo, ForwardOf, TurnOf

LEMMA TailOfPlan ==
    ASSUME NEW q \in Seq(Segment), q # <<>>, Len(q) <= 3
    PROVE  /\ ForwardOf(q) = Head(q).forward + ForwardOf(Tail(q))
           /\ TurnOf(q) = Head(q).turn + TurnOf(Tail(q))
           /\ AllTimed(q) => Head(q).timed /\ AllTimed(Tail(q))
           /\ Tail(q) \in Seq(Segment) /\ Len(Tail(q)) <= 2 /\ Head(q) \in Segment
<1>1. PICK t : t = Tail(q)
  OBVIOUS
<1>2. PICK n \in 1 .. 3 : n = Len(q) /\ DOMAIN q = 1 .. n
  BY ShortPlan
<1>3. \A i \in 1 .. n : q[i] \in Segment /\ q[i].forward \in Int /\ q[i].turn \in Int
  BY <1>2, ShortPlan
<1>4. /\ t \in Seq(Segment) /\ Len(t) = n - 1 /\ Head(q) = q[1]
      /\ \A i \in 1 .. n - 1 : t[i] = q[i + 1]
  BY <1>1, <1>2
<1>5. DOMAIN t = 1 .. n - 1
  BY <1>2, <1>4, LenProperties
<1>6. AllTimed(q) => q[1].timed /\ AllTimed(t)
  BY <1>2, <1>4, <1>5 DEF AllTimed
<1>7. ForwardOf(q) = q[1].forward + ForwardOf(t) /\ TurnOf(q) = q[1].turn + TurnOf(t)
  <2>1. CASE n = 1
    BY <1>2, <1>3, <1>4, <2>1 DEF ForwardOf, TurnOf
  <2>2. CASE n = 2
    <3>1. t[1] = q[2]
      BY <1>4, <2>2
    <3> QED
      BY <1>2, <1>3, <1>4, <2>2, <3>1 DEF ForwardOf, TurnOf
  <2>3. CASE n = 3
    <3>1. t[1] = q[2] /\ t[2] = q[3] /\ Len(t) = 2 /\ Len(q) = 3
      BY <1>2, <1>4, <2>3
    <3>2. /\ q[1].forward \in Int /\ q[2].forward \in Int /\ q[3].forward \in Int
          /\ q[1].turn \in Int /\ q[2].turn \in Int /\ q[3].turn \in Int
      BY <1>3, <2>3
    <3>3. ForwardOf(q) = q[1].forward + ForwardOf(t)
      BY <3>1, <3>2 DEF ForwardOf
    <3>4. TurnOf(q) = q[1].turn + TurnOf(t)
      BY <3>1, <3>2 DEF TurnOf
    <3> QED
      BY <3>3, <3>4
  <2> QED
    BY <2>1, <2>2, <2>3
<1>8. q[1] \in Segment
  BY <1>3
<1> QED
  BY <1>1, <1>2, <1>4, <1>6, <1>7, <1>8

-----------------------------------------------------------------------------
(***************************************************************************)
(* The adapter, while the run is smooth.                                   *)
(***************************************************************************)
LEMMA DrivesBalanced ==
    ASSUME NEW plan \in Seq(Segment), plan # <<>>, Len(plan) <= 3, AllTimed(plan), Drive(plan),
           running'
    PROVE  /\ AtRest' /\ deadline' = "ahead"
           /\ command'.forward + ForwardOf(segments)' = ForwardOf(plan)
           /\ command'.turn + TurnOf(segments)' = TurnOf(plan)
<1>1. /\ ForwardOf(plan) = Head(plan).forward + ForwardOf(Tail(plan))
      /\ TurnOf(plan) = Head(plan).turn + TurnOf(Tail(plan))
      /\ Head(plan).timed /\ AllTimed(Tail(plan))
  BY TailOfPlan
<1>2. command' = Head(plan) /\ segments' = Tail(plan) /\ deadline' = "ahead"
  BY <1>1 DEF Drive
<1>3. AllTimed(segments')
  BY <1>1, <1>2
<1> QED
  BY <1>1, <1>2, <1>3 DEF AtRest

LEMMA StopsBalanced ==
    ASSUME Stop, running'
    PROVE  /\ AtRest' /\ deadline' = "none" /\ ForwardOf(segments)' = 0 /\ TurnOf(segments)' = 0
<1>1. segments' = <<>> /\ deadline' = "none" /\ command' = Halt /\ Len(<<>>) = 0
  BY EmptySeq DEF Stop
<1>2. ForwardOf(segments') = 0 /\ TurnOf(segments') = 0
  BY <1>1 DEF ForwardOf, TurnOf
<1>3. AllTimed(segments')
  BY <1>1 DEF AllTimed
<1> QED
  BY <1>1, <1>2, <1>3 DEF AtRest

\* The types that the sums need.
Numbers == /\ position \in Int /\ heading \in Int /\ allowance \in Int
           /\ segments \in Seq(Segment) /\ Len(segments) <= 2
           /\ command.forward \in Int /\ command.turn \in Int
           /\ ForwardOf(segments) \in Int /\ TurnOf(segments) \in Int

LEMMA GazeboNumbers == GazeboInv => Numbers
<1> SUFFICES ASSUME GazeboInv PROVE Numbers
  OBVIOUS
<1>1. /\ position \in Nat /\ heading \in Int /\ allowance \in Nat
      /\ segments \in Seq(Segment) /\ Len(segments) <= 2 /\ command \in Segment
  BY DEF GazeboInv, GazeboTypeOK, MotionTypeOK
<1>2. command.forward \in Int /\ command.turn \in Int
  BY <1>1 DEF Segment
<1>3. PICK n \in Nat : n = Len(segments) /\ n <= 2
  BY <1>1, LenProperties, Zenon
<1>4. Len(segments) <= 3
  BY <1>3
<1>5. \A i \in 1 .. n : segments[i].forward \in Int /\ segments[i].turn \in Int
  BY <1>1, <1>3, <1>4, ShortPlan
<1>6. ForwardOf(segments) \in Int /\ TurnOf(segments) \in Int
  BY <1>3, <1>5 DEF ForwardOf, TurnOf
<1> QED
  BY <1>1, <1>2, <1>6 DEF Numbers

LEMMA TickKeepsSmooth ==
    ASSUME GazeboInv, Smooth, AdapterSteps(AdapterTicks)
    PROVE  Smooth'
<1>1. deadline = "reached" /\ Drive(segments) /\ statuses' = statuses /\ announced' = announced
      /\ UNCHANGED <<position, heading, allowance, scenSession, current, due>> /\ running'
  BY DEF AdapterSteps, AdapterTicks, MotionTick, robot, scenVars
<1>2. statuses = <<>> /\ due = "ahead" /\ current = 0 /\ scenSession # 0
  BY <1>1 DEF Smooth, InTurn, OneSession
<1>3. OneSession' /\ InTurn'
  BY <1>1, <1>2 DEF Smooth, OneSession, InTurn, NoOutcome, OutcomeIsLast
<1>4. Numbers
  BY GazeboNumbers
<1>5. /\ position + ForwardOf(segments) = allowance /\ heading + TurnOf(segments) = 0
  BY <1>1, <1>2, <1>4 DEF Smooth, Driven, Turned, Told, InHand, Numbers
<1>6. Told(statuses') = 0
  BY <1>1, <1>2 DEF Told
<1>7. CASE segments = <<>>
  <2>1. Stop /\ ForwardOf(segments) = 0 /\ TurnOf(segments) = 0
    BY <1>1, <1>7, EmptySeq DEF Drive, ForwardOf, TurnOf
  <2>2. AtRest' /\ deadline' = "none" /\ ForwardOf(segments)' = 0 /\ TurnOf(segments)' = 0
    BY <1>1, <2>1, StopsBalanced
  <2>3. Driven' /\ Turned'
    BY <1>1, <1>4, <1>5, <1>6, <2>1, <2>2 DEF Driven, Turned, InHand, Numbers
  <2> QED
    BY <1>3, <2>2, <2>3 DEF Smooth
<1>8. CASE segments # <<>>
  <2>1. segments \in Seq(Segment) /\ Len(segments) <= 3 /\ AllTimed(segments)
    <3>1. PICK n \in Nat : n = Len(segments) /\ n <= 2
      BY <1>4, LenProperties, Zenon DEF Numbers
    <3> QED
      BY <1>4, <3>1 DEF Numbers, Smooth, AtRest
  <2>2. /\ AtRest' /\ deadline' = "ahead"
        /\ command'.forward + ForwardOf(segments)' = ForwardOf(segments)
        /\ command'.turn + TurnOf(segments)' = TurnOf(segments)
    BY <1>1, <1>8, <2>1, DrivesBalanced
  <2>3. Numbers'
    BY AdapterTicksKeeps, GazeboNumbers, PTL
  <2>4. PICK f \in Int, t \in Int, ff \in Int, tt \in Int :
          /\ f = command'.forward /\ t = command'.turn
          /\ ff = ForwardOf(segments)' /\ tt = TurnOf(segments)'
    BY <2>3 DEF Numbers
  <2>5. position' + 0 + f + ff = allowance' /\ heading' + t + tt = 0
    <3>1. PICK p \in Int, h \in Int, a \in Int : p = position /\ h = heading /\ a = allowance
      BY <1>4 DEF Numbers
    <3>2. p + (f + ff) = a /\ h + (t + tt) = 0
      BY <1>5, <2>2, <2>4, <3>1
    <3>3. p + 0 + f + ff = a /\ h + t + tt = 0
      BY <3>2
    <3> QED
      BY <1>1, <3>1, <3>3
  <2>6. Driven' /\ Turned'
    BY <1>6, <2>2, <2>4, <2>5 DEF Driven, Turned, InHand
  <2> QED
    BY <1>3, <2>2, <2>6 DEF Smooth
<1> QED
  BY <1>7, <1>8

LEMMA RobotKeepsSmooth ==
    ASSUME GazeboInv, Smooth, AdapterSteps(RobotMoves)
    PROVE  Smooth'
<1>1. deadline = "ahead"
  <2>1. running
    BY DEF Smooth, AtRest
  <2> QED
    BY <2>1 DEF GazeboInv, OnlyAllowed, AdapterSteps, RobotMoves, RobotDrives
<1>2. /\ position' = position + command.forward /\ heading' = heading + command.turn
      /\ deadline' = "reached"
      /\ UNCHANGED <<running, segments, command, statuses, announced, allowance, scenSession, current, due>>
  BY <1>1 DEF AdapterSteps, RobotMoves, RobotDrives, scenVars
<1>3. OneSession' /\ InTurn' /\ AtRest'
  BY <1>1, <1>2 DEF Smooth, OneSession, InTurn, NoOutcome, OutcomeIsLast, AtRest, Quiet
<1>4. Numbers
  BY GazeboNumbers
<1>5. statuses = <<>> /\ Told(statuses) = 0
  BY <1>1 DEF Smooth, InTurn, Told
<1>6. /\ position + command.forward + ForwardOf(segments) = allowance
      /\ heading + command.turn + TurnOf(segments) = 0
  BY <1>1, <1>4, <1>5 DEF Smooth, Driven, Turned, InHand, Numbers
<1>7. Driven' /\ Turned'
  BY <1>2, <1>4, <1>5, <1>6 DEF Driven, Turned, InHand, Numbers
<1> QED
  BY <1>3, <1>7 DEF Smooth

LEMMA StatusKeepsSmooth ==
    ASSUME MotionEnabled, GazeboInv, Smooth, AdapterSteps(AdapterTakesStatus)
    PROVE  Smooth'
<1>1. PICK m : m = Head(statuses)
  OBVIOUS
<1>2. /\ MotionOnStatus(m) /\ statuses # <<>> /\ statuses' = Tail(statuses)
      /\ UNCHANGED <<position, heading, allowance, announced, scenSession, current, due>>
      /\ running'
  BY <1>1 DEF AdapterSteps, AdapterTakesStatus, MotionOnStatus, robot, scenVars
<1>3. statuses \in Seq(StatusMessage)
  BY DEF GazeboInv, GazeboTypeOK, ChannelTypeOK
<1>4. PICK n \in Nat \ {0} : n = Len(statuses) /\ DOMAIN statuses = 1 .. n
  BY <1>2, <1>3, LenProperties, EmptySeq
<1>5. /\ Len(statuses') = n - 1 /\ DOMAIN statuses' = 1 .. n - 1 /\ m = statuses[1]
      /\ \A i \in 1 .. n - 1 : statuses'[i] = statuses[i + 1]
  BY <1>1, <1>2, <1>3, <1>4
<1>6. /\ deadline = "none" /\ segments = <<>> /\ command = Halt /\ scenSession # 0
      /\ IsOutcome(m) => n = 1 /\ due = "ahead"
  BY <1>2, <1>4, <1>5 DEF Smooth, InTurn, OneSession, AtRest, OutcomeIsLast, NoOutcome
<1>7. ForwardOf(segments) = 0 /\ TurnOf(segments) = 0
  BY <1>6, EmptySeq DEF ForwardOf, TurnOf
<1>8. Numbers /\ Numbers'
  BY AdapterTakesStatusKeeps, GazeboNumbers, PTL
<1>9. position + Told(statuses) = allowance /\ heading = 0 /\ Told(statuses) \in {0, 1}
  <2>1. Told(statuses) \in {0, 1}
    BY DEF Told
  <2>2. InHand(command.forward) = 0 /\ InHand(command.turn) = 0
    BY <1>6 DEF InHand
  <2> QED
    BY <1>7, <1>8, <2>1, <2>2 DEF Smooth, Driven, Turned, Numbers
<1>10. due # "reached"
  BY <1>2 DEF Smooth, InTurn, Quiet
<1>11. OneSession' /\ (current # 0 => due = "none")
  BY <1>2, <1>6 DEF Smooth, OneSession, InTurn
<1>12. NoOutcome(statuses) => NoOutcome(statuses')
  BY <1>4, <1>5 DEF NoOutcome
<1>13. OutcomeIsLast(statuses')
  BY <1>4, <1>5 DEF Smooth, InTurn, OutcomeIsLast
<1>14. CASE IsOutcome(m) /\ Recognised(m)
  <2>1. n = 1 /\ due = "ahead" /\ statuses' = <<>>
    BY <1>2, <1>3, <1>4, <1>6, <1>14
  <2>2. InTurn'
    BY <1>2, <1>11, <1>13, <2>1 DEF InTurn, NoOutcome
  <2>3. PICK plan : plan = PlanFor(m)
    OBVIOUS
  <2>4. AddsUpTo(plan, IF Executed(m) THEN 1 ELSE 0)
    <3>1. CASE m.status = "executed"
      <4>1. plan = AllowedPlan(Number[m.stage])
        BY <2>3, <3>1, Zenon DEF PlanFor
      <4> QED
        BY <1>14, <3>1, <4>1, AllowedAddsUp DEF Executed
    <3>2. CASE m.status = "fallback"
      <4>1. plan = FallbackPlan(Number[m.stage])
        BY <2>3, <3>2, Zenon DEF PlanFor
      <4> QED
        BY <3>2, <4>1, FallbackAddsUp DEF Executed
    <3> QED
      BY <1>14, <3>1, <3>2 DEF IsOutcome
  <2>5. Drive(plan)
    BY <1>2, <1>14, <2>3 DEF MotionOnStatus, StartPlan
  <2>6. /\ AtRest' /\ deadline' = "ahead"
        /\ command'.forward + ForwardOf(segments)' = (IF Executed(m) THEN 1 ELSE 0)
        /\ command'.turn + TurnOf(segments)' = 0
    BY <1>2, <2>4, <2>5, DrivesBalanced DEF AddsUpTo
  <2>7. Told(statuses) = (IF Executed(m) THEN 1 ELSE 0) /\ Told(statuses') = 0
    BY <1>2, <1>4, <1>5, <2>1 DEF Told
  <2>8. PICK f \in Int, t \in Int, ff \in Int, tt \in Int :
          /\ f = command'.forward /\ t = command'.turn
          /\ ff = ForwardOf(segments)' /\ tt = TurnOf(segments)'
    BY <1>8 DEF Numbers
  <2>9. position' + 0 + f + ff = allowance' /\ heading' + t + tt = 0
    <3>1. PICK p \in Int, h \in Int, a \in Int : p = position /\ h = heading /\ a = allowance
      BY <1>8 DEF Numbers
    <3>2. p + (f + ff) = a /\ h = 0 /\ t + tt = 0
      BY <1>9, <2>6, <2>7, <2>8, <3>1
    <3>3. p + 0 + f + ff = a /\ h + t + tt = 0
      BY <3>2
    <3> QED
      BY <1>2, <3>1, <3>3
  <2>10. Driven' /\ Turned'
    BY <2>6, <2>7, <2>8, <2>9 DEF Driven, Turned, InHand
  <2> QED
    BY <1>11, <2>2, <2>6, <2>10 DEF Smooth
<1>15. CASE ~(IsOutcome(m) /\ Recognised(m))
  <2>1. Stop /\ ~Executed(m)
    <3>1. CASE Recognised(m)
      <4>1. m.status \notin {"executed", "fallback"}
        BY <1>15, <3>1 DEF IsOutcome
      <4>2. PlanFor(m) = <<Halt>>
        BY <4>1, PlanFacts
      <4>3. Drive(<<Halt>>)
        BY <1>2, <3>1, <4>2 DEF MotionOnStatus, StartPlan
      <4> QED
        BY <4>1, <4>3, Segments DEF Drive, Executed
    <3>2. CASE ~Recognised(m)
      BY <1>2, <3>2 DEF MotionOnStatus, Executed
    <3> QED
      BY <3>1, <3>2
  <2>2. AtRest' /\ deadline' = "none" /\ ForwardOf(segments)' = 0 /\ TurnOf(segments)' = 0
    BY <1>2, <2>1, StopsBalanced
  <2>3. InTurn'
    <3>1. due # "ahead" => NoOutcome(statuses')
      BY <1>12 DEF Smooth, InTurn
    <3> QED
      BY <1>2, <1>10, <1>11, <1>13, <2>2, <3>1 DEF InTurn
  <2>4. Told(statuses') = Told(statuses)
    <3>1. CASE n = 1
      BY <1>2, <1>3, <1>4, <1>5, <2>1, <3>1 DEF Told
    <3>2. CASE n > 1
      <4>1. statuses'[n - 1] = statuses[n] /\ statuses' # <<>>
        BY <1>4, <1>5, <3>2
      <4> QED
        BY <1>2, <1>4, <1>5, <4>1 DEF Told
    <3> QED
      BY <1>4, <3>1, <3>2
  <2>5. Driven' /\ Turned'
    BY <1>2, <1>8, <1>9, <2>2, <2>4 DEF Driven, Turned, InHand, Numbers
  <2> QED
    BY <1>11, <2>2, <2>3, <2>5 DEF Smooth
<1> QED
  BY <1>14, <1>15

-----------------------------------------------------------------------------
(***************************************************************************)
(* The scenario's steps.                                                   *)
(***************************************************************************)
LEMMA NothingToldYet == ASSUME NEW q \in Seq(StatusMessage), NoOutcome(q) PROVE Told(q) = 0
<1>1. CASE q = <<>>
  BY <1>1 DEF Told
<1>2. CASE q # <<>>
  <2>1. PICK n \in Nat \ {0} : n = Len(q) /\ DOMAIN q = 1 .. n
    BY <1>2, LenProperties, EmptySeq
  <2>2. n \in DOMAIN q
    BY <2>1
  <2>3. ~IsOutcome(q[n])
    BY <2>2 DEF NoOutcome
  <2> QED
    BY <2>1, <2>3 DEF Told, Executed, IsOutcome
<1> QED
  BY <1>1, <1>2

LEMMA StatusIsLast ==
    ASSUME NEW q \in Seq(StatusMessage), NoOutcome(q), NEW m \in StatusMessage,
           NEW r, r = Append(q, m)
    PROVE  /\ OutcomeIsLast(r)
           /\ ~IsOutcome(m) => NoOutcome(r)
           /\ Told(r) = IF Executed(m) THEN 1 ELSE 0
<1>1. PICK n \in Nat : n = Len(q) /\ DOMAIN q = 1 .. n
  BY LenProperties
<1>2. /\ Len(r) = n + 1 /\ DOMAIN r = 1 .. n + 1 /\ r[n + 1] = m /\ r # <<>>
      /\ \A i \in 1 .. n : r[i] = q[i]
  BY <1>1, AppendProperties
<1>3. \A i \in 1 .. n : ~IsOutcome(r[i])
  BY <1>1, <1>2 DEF NoOutcome
<1>4. \A i \in 1 .. n + 1 : i \in 1 .. n \/ i = n + 1
  BY <1>1
<1>5. OutcomeIsLast(r)
  BY <1>2, <1>3, <1>4 DEF OutcomeIsLast
<1>6. ~IsOutcome(m) => NoOutcome(r)
  BY <1>2, <1>3, <1>4 DEF NoOutcome
<1>7. Told(r) = IF Executed(m) THEN 1 ELSE 0
  BY <1>2 DEF Told
<1> QED
  BY <1>5, <1>6, <1>7

\* What the robot and the adapter add to the balance in such a step.
LEMMA BalanceMoves ==
    ASSUME Numbers, Driven, Turned, AtRest, UNCHANGED <<motionVars, robot>>,
           allowance' - Told(statuses') = allowance - Told(statuses), allowance' \in Int
    PROVE  Driven' /\ Turned' /\ AtRest'
<1>1. UNCHANGED <<running, segments, deadline, command, position, heading>>
  BY DEF motionVars, robot
<1>2. PICK k \in Int : k = Told(statuses)
  BY DEF Told
<1>3. PICK l \in Int : l = Told(statuses')
  BY DEF Told
<1>4. PICK p \in Int, a \in Int, f \in Int :
        p = position /\ a = allowance /\ f = ForwardOf(segments)
  BY DEF Numbers
<1>5. PICK i \in Int : i = InHand(command.forward)
  BY DEF Numbers, InHand
<1>6. p + k + i + f = a
  BY <1>2, <1>4, <1>5 DEF Driven
<1>7. PICK b \in Int : b = allowance'
  OBVIOUS
<1>8. b - l = a - k
  BY <1>2, <1>3, <1>4, <1>7
<1>9. p + l + i + f = b
  BY <1>6, <1>8
<1>10. ForwardOf(segments') = f /\ TurnOf(segments') = TurnOf(segments)
  BY <1>1, <1>4
<1>11. InHand(command.forward)' = i /\ InHand(command.turn)' = InHand(command.turn)
  BY <1>1, <1>5 DEF InHand
<1>12. Driven'
  BY <1>1, <1>3, <1>4, <1>7, <1>9, <1>10, <1>11 DEF Driven
<1>13. Turned'
  BY <1>1, <1>10, <1>11 DEF Turned
<1>14. AtRest'
  BY <1>1 DEF AtRest, AllTimed
<1> QED
  BY <1>12, <1>13, <1>14

LEMMA SilenceKeepsSmooth ==
    ASSUME GazeboInv, Smooth, NEW A, ScenarioSteps(A), Silent,
           scenSession' = scenSession, current' = current, announced'["scenario"] \in {0, 1},
           \/ due' = due
           \/ due = "ahead" /\ due' = "reached" /\ Quiet
    PROVE  Smooth'
<1>1. ScenarioPublishes /\ UNCHANGED <<motionVars, robot>>
  BY DEF ScenarioSteps
<1>2. scenOut'.status = "none" /\ Status.status = "none"
  BY DEF Silent, NoNews, Status
<1>3. statuses' = statuses /\ allowance' = allowance
  BY <1>1, <1>2 DEF ScenarioPublishes, Executed
<1>4. UNCHANGED <<segments, deadline, command>>
  BY <1>1 DEF motionVars
<1>5. OneSession'
  BY <1>3, <1>4 DEF Smooth, OneSession
<1>6. InTurn'
  BY <1>3, <1>4 DEF Smooth, InTurn, Quiet, NoOutcome
<1>7. Driven' /\ Turned' /\ AtRest'
  <2>1. Numbers /\ allowance \in Int
    BY GazeboNumbers DEF Numbers
  <2>2. allowance' - Told(statuses') = allowance - Told(statuses) /\ allowance' \in Int
    BY <1>3, <2>1
  <2> QED
    BY <1>1, <2>1, <2>2, BalanceMoves DEF Smooth
<1> QED
  BY <1>5, <1>6, <1>7 DEF Smooth

LEMMA NewsKeepsSmooth ==
    ASSUME GazeboInv, GazeboInv', Smooth, NEW A, ScenarioSteps(A),
           scenOut'.status \in ScenarioStatus,
           scenSession' = 1, announced'["scenario"] \in {0, 1},
           current' # 0 => due' = "none",
           \/ scenOut'.status \notin {"executed", "fallback"} /\ due # "ahead" /\ due' # "reached"
           \/ due = "none" /\ due' = "ahead"
    PROVE  Smooth'
<1>1. ScenarioPublishes /\ UNCHANGED <<motionVars, robot>>
  BY DEF ScenarioSteps
<1>2. PICK m : m = Status
  OBVIOUS
<1>3. m.status = scenOut'.status
  BY <1>2 DEF Status
<1>4. statuses' = Append(statuses, m)
  <2>1. running /\ scenOut'.status # "none"
    BY DEF Smooth, AtRest, ScenarioStatus
  <2> QED
    BY <1>1, <1>2, <2>1 DEF ScenarioPublishes
<1>5. statuses \in Seq(StatusMessage) /\ m \in StatusMessage
  <2>1. /\ statuses \in Seq(StatusMessage)
        /\ scenOut' \in [status : ScenarioStatus \cup {"none"}, stage : 0 .. Len(Stages)]
    BY DEF GazeboInv, GazeboTypeOK, ChannelTypeOK, ScenarioTypeOK
  <2>2. (scenOut'.status = "executed" /\ NeedsSensor(Stages[scenOut'.stage])) \in BOOLEAN
    BY ScenarioAssumption DEF NeedsSensor
  <2> QED
    BY <1>2, <2>1, <2>2 DEF Status, StatusMessage
<1>6. NoOutcome(statuses) /\ deadline = "none"
  BY DEF Smooth, InTurn
<1>7. /\ OutcomeIsLast(statuses') /\ Told(statuses) = 0
      /\ ~IsOutcome(m) => NoOutcome(statuses')
      /\ Told(statuses') = IF Executed(m) THEN 1 ELSE 0
  BY <1>4, <1>5, <1>6, StatusIsLast, NothingToldYet
<1>8. allowance' = allowance + (IF Executed(m) THEN 1 ELSE 0)
  <2>1. allowance \in Nat
    BY DEF GazeboInv, GazeboTypeOK
  <2> QED
    BY <1>1, <1>2, <2>1 DEF ScenarioPublishes
<1>9. deadline' = "none"
  BY <1>1, <1>6 DEF motionVars
<1>10. OneSession'
  BY DEF OneSession
<1>11. InTurn'
  <2>1. due' # "ahead" => NoOutcome(statuses')
    BY <1>3, <1>7 DEF IsOutcome
  <2> QED
    BY <1>7, <1>9, <2>1 DEF InTurn
<1>12. Driven' /\ Turned' /\ AtRest'
  <2>1. Numbers /\ allowance \in Int
    BY GazeboNumbers DEF Numbers
  <2>2. allowance' - Told(statuses') = allowance - Told(statuses) /\ allowance' \in Int
    BY <1>7, <1>8, <2>1
  <2> QED
    BY <1>1, <2>1, <2>2, BalanceMoves DEF Smooth
<1> QED
  BY <1>10, <1>11, <1>12 DEF Smooth

LEMMA AdvanceKeepsSmooth ==
    ASSUME GazeboInv, GazeboInv', Smooth, NEW A, ScenarioSteps(A), current # 0,
           NEW outcome \in {"executed", "fallback"}, Advance(outcome), announced' = announced
    PROVE  Smooth'
<1>1. scenOut'.status = outcome /\ due' = "ahead" /\ current' = 0 /\ scenSession' = scenSession
  BY DEF Advance, Says
<1>2. due = "none" /\ scenSession = 1 /\ announced["scenario"] \in {0, 1}
  BY DEF Smooth, InTurn, OneSession
<1>3. scenOut'.status \in ScenarioStatus
  BY <1>1 DEF ScenarioStatus
<1> QED
  BY <1>1, <1>2, <1>3, NewsKeepsSmooth

LEMMA ScenarioKeepsSmooth ==
    ASSUME GazeboInv, GazeboInv', Smooth, disturbed' = FALSE,
           \/ ScenarioSteps(ScenarioAuthorized) \/ ScenarioSteps(ScenarioBlocked)
           \/ ScenarioSteps(ScenarioSession) \/ ScenarioSteps(ScenarioCompleted)
           \/ ScenarioSteps(ScenarioTimer)
    PROVE  Smooth'
<1>1. announced["scenario"] \in {0, 1} /\ scenSession \in {0, 1}
  BY DEF Smooth, OneSession
<1>2. ASSUME NEW A, ScenarioSteps(A), Still, announced'["scenario"] \in {0, 1}
      PROVE  Smooth'
  <2>1. Silent /\ UNCHANGED <<scenSession, current, due>>
    BY <1>2 DEF Still
  <2> QED
    BY <1>2, <2>1, SilenceKeepsSmooth
<1>3. CASE ScenarioSteps(ScenarioAuthorized)
  <2>1. announced' = announced /\ ScenarioOnAuthorized(Head(authorized))
    BY <1>3 DEF ScenarioSteps, ScenarioAuthorized
  <2>2. CASE Still
    BY <1>1, <1>2, <1>3, <2>1, <2>2
  <2>3. CASE /\ Matches(Head(authorized)) /\ Says("started", current)
             /\ UNCHANGED <<scenSession, nextStage, current, due, complete>>
    <3>1. current # 0 /\ scenOut'.status = "started"
      BY <2>3 DEF Matches, Says
    <3>2. due = "none" /\ scenSession = 1
      BY <3>1 DEF Smooth, InTurn, OneSession
    <3>3. scenOut'.status \in ScenarioStatus /\ scenOut'.status \notin {"executed", "fallback"}
      BY <3>1 DEF ScenarioStatus
    <3> QED
      BY <1>1, <1>3, <2>1, <2>3, <3>1, <3>2, <3>3, NewsKeepsSmooth
  <2>4. CASE Matches(Head(authorized)) /\ Advance("executed")
    BY <1>3, <2>1, <2>4, AdvanceKeepsSmooth DEF Matches
  <2> QED
    BY <2>1, <2>2, <2>3, <2>4 DEF ScenarioOnAuthorized
<1>4. CASE ScenarioSteps(ScenarioBlocked)
  <2>1. announced' = announced /\ ScenarioOnBlocked(Head(blocked))
    BY <1>4 DEF ScenarioSteps, ScenarioBlocked
  <2>2. CASE Still
    BY <1>1, <1>2, <1>4, <2>1, <2>2
  <2>3. CASE Matches(Head(blocked)) /\ Advance("fallback")
    BY <1>4, <2>1, <2>3, AdvanceKeepsSmooth DEF Matches
  <2> QED
    BY <2>1, <2>2, <2>3 DEF ScenarioOnBlocked
<1>5. CASE ScenarioSteps(ScenarioSession)
  <2>1. /\ announced["scenario"] = 1 /\ announced' = [announced EXCEPT !["scenario"] = 0]
        /\ ScenarioOnSession(1)
    BY <1>1, <1>5 DEF ScenarioSteps, ScenarioSession
  <2>2. announced'["scenario"] = 0
    BY <2>1 DEF GazeboInv, GazeboTypeOK, ChannelTypeOK, Reader
  <2>3. CASE Still
    BY <1>2, <1>5, <2>2, <2>3
  <2>4. CASE scenSession # 1
    <3>1. scenSession' = 1 /\ current' = 0 /\ due' = "ahead" /\ scenOut'.status = "ready"
      BY <2>1, <2>4 DEF ScenarioOnSession, Restart, Says
    <3>2. due = "none"
      BY <1>1, <2>4 DEF Smooth, OneSession
    <3>3. scenOut'.status \in ScenarioStatus
      BY <3>1 DEF ScenarioStatus
    <3> QED
      BY <1>5, <2>2, <3>1, <3>2, <3>3, NewsKeepsSmooth
  <2> QED
    BY <2>1, <2>3, <2>4 DEF ScenarioOnSession
<1>6. CASE ScenarioSteps(ScenarioCompleted)
  <2>1. PICK result \in {"success", "failed"} :
          announced' = announced /\ OnExecutionCompleted(Stages[current], result)
    BY <1>6 DEF ScenarioSteps, ScenarioCompleted
  <2>2. CASE Still
    BY <1>1, <1>2, <1>6, <2>1, <2>2
  <2>3. CASE Awaited(Stages[current]) /\ Advance(Outcome(result))
    <3>1. current # 0 /\ Outcome(result) \in {"executed", "fallback"}
      BY <2>3 DEF Awaited, Matches, Outcome
    <3> QED
      BY <1>6, <2>1, <2>3, <3>1, AdvanceKeepsSmooth
  <2> QED
    BY <2>1, <2>2, <2>3 DEF OnExecutionCompleted
<1>7. CASE ScenarioSteps(ScenarioTimer)
  <2>1. announced' = announced
    BY <1>7 DEF ScenarioSteps, ScenarioTimer
  <2>2. CASE ScenarioTick
    <3>1. scenSession = 1 /\ scenSession' = 1 /\ due = "reached" /\ due' = "none"
      BY <1>1, <2>2 DEF ScenarioTick
    <3>2. scenOut'.status \in {"requested", "complete"}
      BY <2>2 DEF ScenarioTick, Says
    <3>3. scenOut'.status \in ScenarioStatus /\ scenOut'.status \notin {"executed", "fallback"}
      BY <3>2 DEF ScenarioStatus
    <3> QED
      BY <1>1, <1>7, <2>1, <3>1, <3>3, NewsKeepsSmooth
  <2>3. CASE DelayPasses /\ disturbed' = (disturbed \/ ~Quiet)
    <3>1. Quiet
      BY <2>3, Zenon
    <3>2. /\ due = "ahead" /\ due' = "reached" /\ Silent
          /\ UNCHANGED <<scenSession, current>>
      BY <2>3 DEF DelayPasses
    <3> QED
      BY <1>1, <1>7, <2>1, <3>1, <3>2, SilenceKeepsSmooth
  <2> QED
    BY <1>7, <2>2, <2>3 DEF ScenarioSteps, ScenarioTimer
<1> QED
  BY <1>3, <1>4, <1>5, <1>6, <1>7

-----------------------------------------------------------------------------
(***************************************************************************)
(* The others, and the theorem.                                            *)
(***************************************************************************)
LEMMA OthersKeepSmooth ==
    ASSUME GazeboInv, Smooth,
           UNCHANGED <<scenVars, motionVars, robot, statuses, allowance>>,
           announced'["scenario"] = announced["scenario"]
    PROVE  Smooth'
<1>1. UNCHANGED <<scenSession, current, due, segments, deadline, command>>
  BY DEF scenVars, motionVars
<1>2. OneSession' /\ InTurn'
  BY <1>1 DEF Smooth, OneSession, InTurn, Quiet, NoOutcome, OutcomeIsLast
<1>3. Driven' /\ Turned' /\ AtRest'
  <2>1. Numbers /\ allowance \in Int
    BY GazeboNumbers DEF Numbers
  <2>2. allowance' - Told(statuses') = allowance - Told(statuses) /\ allowance' \in Int
    BY <2>1
  <2> QED
    BY <2>1, <2>2, BalanceMoves DEF Smooth
<1> QED
  BY <1>2, <1>3 DEF Smooth

SmoothRun == disturbed = FALSE => Smooth

LEMMA StepsKeepSmooth ==
    ASSUME MotionEnabled, GazeboInv, GazeboInv', SmoothRun, [Next]_vars
    PROVE  SmoothRun'
<1> SUFFICES ASSUME disturbed' = FALSE PROVE Smooth'
  BY DEF SmoothRun
<1>1. CASE Answers
  <2>1. disturbed = FALSE /\ UNCHANGED <<scenVars, motionVars, robot, statuses, allowance, announced>>
    BY <1>1, Zenon DEF Answers, history
  <2> QED
    BY <2>1, OthersKeepSmooth DEF SmoothRun
<1>2. CASE OtherReset
  BY <1>2 DEF OtherReset, OpensSession
<1>3. CASE WorldServes
  <2>1. /\ disturbed = FALSE
        /\ UNCHANGED <<scenVars, running, segments, deadline, command, robot, statuses, allowance,
                       announced>>
    BY <1>3 DEF WorldServes, history, channels
  <2>2. UNCHANGED motionVars
    BY <2>1 DEF motionVars
  <2> QED
    BY <2>1, <2>2, OthersKeepSmooth DEF SmoothRun
<1>4. CASE ManagerServes
  <2>1. disturbed = FALSE /\ UNCHANGED <<scenVars, motionVars, robot, statuses, allowance, announced>>
    BY <1>4 DEF ManagerServes, OpensSession
  <2> QED
    BY <2>1, OthersKeepSmooth DEF SmoothRun
<1>5. CASE \/ ControllerSteps(ControllerTakesSession) \/ ControllerSteps(StudyReset)
           \/ ControllerSteps(ControllerHears)
  <2>1. disturbed = FALSE /\ UNCHANGED <<scenVars, motionVars, robot, statuses, allowance>>
    BY <1>5 DEF ControllerSteps
  <2>2. announced'["scenario"] = announced["scenario"]
    <3>1. announced \in [Reader -> 0 .. MaxSession]
      BY DEF GazeboInv, GazeboTypeOK, ChannelTypeOK
    <3>2. announced' = announced \/ announced' = [announced EXCEPT !["controller"] = 0]
      BY <1>5 DEF ControllerSteps, ControllerTakesSession, StudyReset, ControllerHears
    <3> QED
      BY <3>1, <3>2 DEF Reader
  <2> QED
    BY <2>1, <2>2, OthersKeepSmooth DEF SmoothRun
<1>6. CASE \/ ScenarioSteps(ScenarioAuthorized) \/ ScenarioSteps(ScenarioBlocked)
           \/ ScenarioSteps(ScenarioSession) \/ ScenarioSteps(ScenarioCompleted)
           \/ ScenarioSteps(ScenarioTimer)
  <2>1. disturbed = FALSE
    <3>1. disturbed' = disturbed \/ disturbed' = (disturbed \/ ~Quiet)
      BY <1>6 DEF ScenarioSteps, ScenarioAuthorized, ScenarioBlocked, ScenarioSession,
                  ScenarioCompleted, ScenarioTimer
    <3>2. disturbed \in BOOLEAN
      BY DEF GazeboInv, GazeboTypeOK
    <3> QED
      BY <3>1, <3>2, Zenon
  <2> QED
    BY <1>6, <2>1, ScenarioKeepsSmooth DEF SmoothRun
<1>7. CASE AdapterSteps(AdapterTakesStatus)
  <2>1. disturbed = FALSE
    BY <1>7 DEF AdapterSteps, AdapterTakesStatus
  <2> QED
    BY <1>7, <2>1, StatusKeepsSmooth DEF SmoothRun
<1>8. CASE AdapterSteps(AdapterTicks)
  <2>1. disturbed = FALSE
    BY <1>8 DEF AdapterSteps, AdapterTicks
  <2> QED
    BY <1>8, <2>1, TickKeepsSmooth DEF SmoothRun
<1>9. CASE AdapterSteps(RobotMoves)
  <2>1. disturbed = FALSE
    BY <1>9 DEF AdapterSteps, RobotMoves
  <2> QED
    BY <1>9, <2>1, RobotKeepsSmooth DEF SmoothRun
<1>10. CASE AdapterSteps(AdapterEnds) \/ AdapterSteps(AdapterStarts)
  <2>1. disturbed' # FALSE \/ (disturbed = FALSE /\ ~running)
    BY <1>10 DEF AdapterSteps, AdapterEnds, AdapterStarts, MotionStarts
  <2>2. disturbed = FALSE => running
    BY DEF SmoothRun, Smooth, AtRest
  <2> QED
    BY <2>1, <2>2
<1>11. CASE UNCHANGED vars
  <2>1. disturbed = FALSE /\ UNCHANGED <<scenVars, motionVars, robot, statuses, allowance, announced>>
    BY <1>11 DEF vars, channels, history
  <2> QED
    BY <2>1, OthersKeepSmooth DEF SmoothRun
<1> QED
  BY <1>1, <1>2, <1>3, <1>4, <1>5, <1>6, <1>7, <1>8, <1>9, <1>10, <1>11 DEF Next

(***************************************************************************)
(* docs/phase7: whatever the parameters of the study, an adapter that is   *)
(* enabled leaves the robot where the outcomes put it, with the heading it *)
(* started with, as long as no delay cuts a plan short and nobody resets.  *)
(***************************************************************************)
THEOREM EveryAllowedStageAdvancesAlways ==
    ASSUME MotionEnabled PROVE Spec => []EveryAllowedStageAdvances
<1>1. Init => SmoothRun
  BY SmoothStarts DEF SmoothRun
<1>2. GazeboInv /\ GazeboInv' /\ SmoothRun /\ [Next]_vars => SmoothRun'
  BY StepsKeepSmooth
<1>3. GazeboInv /\ SmoothRun => EveryAllowedStageAdvances
  <2> SUFFICES ASSUME GazeboInv, SmoothRun, ~disturbed, Quiet
               PROVE  position = allowance /\ heading = 0
    BY DEF EveryAllowedStageAdvances
  <2>1. disturbed = FALSE
    BY Zenon DEF GazeboInv, GazeboTypeOK
  <2>2. statuses = <<>> /\ deadline = "none" /\ segments = <<>> /\ Len(segments) = 0
    BY <2>1, EmptySeq DEF SmoothRun, Smooth, AtRest, Quiet
  <2>3. ForwardOf(segments) = 0 /\ TurnOf(segments) = 0 /\ Told(statuses) = 0
    BY <2>2 DEF ForwardOf, TurnOf, Told
  <2>4. InHand(command.forward) = 0 /\ InHand(command.turn) = 0
    BY <2>2 DEF InHand
  <2> QED
    BY <2>1, <2>3, <2>4, GazeboNumbers DEF SmoothRun, Smooth, Driven, Turned, Numbers
<1> QED
  BY <1>1, <1>2, <1>3, GazeboInvariant, PTL DEF Spec
=============================================================================
