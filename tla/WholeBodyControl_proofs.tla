------------------------- MODULE WholeBodyControl_proofs -------------------------
(***************************************************************************)
(* The programs of the whole-body controller say what they should in every *)
(* mode, however many columns the kernels lose.  The rows of an update are *)
(* followed from the tasks through the stack into the programs.            *)
(***************************************************************************)
EXTENDS WholeBodyControl, SequenceTheorems, TLAPS

TaskNames == {"eom", "torque", "friction", "empty", "zeroForce", "noMotion",
              "baseAccel", "swing", "force"}

Row == [task : TaskNames, leg : Legs \cup {"none"}]

RowOf(task, leg) == [task |-> task, leg |-> leg]

---------------------------------------------------------------------------------
(***************************************************************************)
(* Rows.                                                                   *)
(***************************************************************************)
LEMMA ToSetOfConcat ==
  ASSUME NEW S, NEW s \in Seq(S), NEW t \in Seq(S)
  PROVE  ToSet(s \o t) = ToSet(s) \cup ToSet(t)
<1>. DEFINE u == s \o t
<1>1. /\ DOMAIN s = 1..Len(s) /\ DOMAIN t = 1..Len(t) /\ DOMAIN u = 1..(Len(s) + Len(t))
      /\ Len(s) \in Nat /\ Len(t) \in Nat
  BY ConcatProperties, LenProperties
<1>2. \A i \in DOMAIN u : u[i] = IF i <= Len(s) THEN s[i] ELSE t[i - Len(s)]
  BY <1>1, ConcatProperties
<1>3. \A i \in DOMAIN s : i \in DOMAIN u /\ u[i] = s[i]
  BY <1>1, <1>2
<1>4. \A i \in DOMAIN t : i + Len(s) \in DOMAIN u /\ u[i + Len(s)] = t[i]
  BY <1>1, <1>2
<1>5. \A i \in DOMAIN u : i \in DOMAIN s \/ i - Len(s) \in DOMAIN t
  BY <1>1
<1>. HIDE DEF u
<1>6. ToSet(u) \subseteq ToSet(s) \cup ToSet(t)
  BY <1>1, <1>2, <1>5 DEF ToSet
<1>7. ToSet(s) \cup ToSet(t) \subseteq ToSet(u)
  BY <1>3, <1>4 DEF ToSet
<1>. QED  BY <1>6, <1>7 DEF u

LEMMA ToSetOfEmpty == ToSet(<<>>) = {}
  BY DEF ToSet

LEMMA RowsOfLeg ==
  ASSUME NEW n \in Nat \ {0}, NEW task \in TaskNames, NEW leg \in Legs \cup {"none"}
  PROVE  /\ RowsFor(n, task, leg) \in Seq(Row)
         /\ Len(RowsFor(n, task, leg)) = n
         /\ ToSet(RowsFor(n, task, leg)) = {RowOf(task, leg)}
<1>. DEFINE r == RowsFor(n, task, leg)
<1>1. r \in [1..n -> Row]
  BY DEF RowsFor, Row
<1>2. r \in Seq(Row) /\ Len(r) = n /\ DOMAIN r = 1..n
  <2>. HIDE DEF r
  <2>1. DOMAIN r = 1..n /\ \A i \in 1..n : r[i] \in Row
    BY <1>1
  <2>2. r \in Seq(Row)
    BY <1>1
  <2>. QED  BY <2>1, <2>2, LenProperties
<1>3. \A i \in 1..n : r[i] = RowOf(task, leg)
  BY DEF RowsFor, RowOf
<1>4. 1 \in 1..n
  OBVIOUS
<1>. HIDE DEF r
<1>5. ToSet(r) = {RowOf(task, leg)}
  BY <1>2, <1>3, <1>4 DEF ToSet
<1>. QED  BY <1>2, <1>5 DEF r

\* The numbers of rows are needed for the kernels only.
RowCount(n, legs) ==
    (IF "LF" \in legs THEN n ELSE 0) + (IF "RF" \in legs THEN n ELSE 0)
  + (IF "LH" \in legs THEN n ELSE 0) + (IF "RH" \in legs THEN n ELSE 0)

LEMMA RowsOfFeet ==
  ASSUME NEW n \in Nat \ {0}, NEW task \in TaskNames, NEW legs \in SUBSET Legs
  PROVE  /\ FootRows(n, task, legs) \in Seq(Row)
         /\ Len(FootRows(n, task, legs)) = RowCount(n, legs)
         /\ ToSet(FootRows(n, task, legs)) = {RowOf(task, leg) : leg \in legs}
<1>. DEFINE rows(leg) == IF leg \in legs THEN RowsFor(n, task, leg) ELSE <<>>
            count(leg) == IF leg \in legs THEN n ELSE 0
            image(leg) == IF leg \in legs THEN {RowOf(task, leg)} ELSE {}
<1>1. \A leg \in Legs :
        /\ rows(leg) \in Seq(Row)
        /\ Len(rows(leg)) = count(leg)
        /\ ToSet(rows(leg)) = image(leg)
  <2>. TAKE leg \in Legs
  <2>1. CASE leg \in legs
    BY <2>1, RowsOfLeg
  <2>2. CASE leg \notin legs
    BY <2>2, ToSetOfEmpty, EmptySeq
  <2>. QED  BY <2>1, <2>2
<1>2. FootRows(n, task, legs) = rows("LF") \o rows("RF") \o rows("LH") \o rows("RH")
  BY DEF FootRows, Feet
<1>3. "LF" \in Legs /\ "RF" \in Legs /\ "LH" \in Legs /\ "RH" \in Legs
  BY DEF Legs
<1>. HIDE DEF rows, count, image
<1>4. /\ rows("LF") \in Seq(Row) /\ rows("RF") \in Seq(Row)
      /\ rows("LH") \in Seq(Row) /\ rows("RH") \in Seq(Row)
  BY <1>1, <1>3
<1>. DEFINE two == rows("LF") \o rows("RF")
            three == two \o rows("LH")
            all == three \o rows("RH")
<1>5. two \in Seq(Row) /\ three \in Seq(Row) /\ all \in Seq(Row)
  BY <1>4, ConcatProperties
<1>6. Len(all) = Len(rows("LF")) + Len(rows("RF")) + Len(rows("LH")) + Len(rows("RH"))
  BY <1>4, <1>5, ConcatProperties
<1>7. ToSet(all)
        = ToSet(rows("LF")) \cup ToSet(rows("RF")) \cup ToSet(rows("LH")) \cup ToSet(rows("RH"))
  <2>1. ToSet(two) = ToSet(rows("LF")) \cup ToSet(rows("RF"))
    BY <1>4, ToSetOfConcat
  <2>. HIDE DEF two
  <2>2. ToSet(three) = ToSet(two) \cup ToSet(rows("LH"))
    BY <1>4, <1>5, ToSetOfConcat
  <2>. HIDE DEF three
  <2>3. ToSet(all) = ToSet(three) \cup ToSet(rows("RH"))
    BY <1>4, <1>5, ToSetOfConcat
  <2>. QED  BY <2>1, <2>2, <2>3
<1>8. image("LF") \cup image("RF") \cup image("LH") \cup image("RH")
        = {RowOf(task, leg) : leg \in legs}
  BY DEF Legs, image
<1>. QED  BY <1>1, <1>2, <1>3, <1>5, <1>6, <1>7, <1>8 DEF RowCount, count
---------------------------------------------------------------------------------
(***************************************************************************)
(* Tasks.                                                                  *)
(***************************************************************************)

\* A task whose rows meet their own right-hand sides.
IsTask(task) ==
  /\ task.a \in Seq(Row) /\ task.b = task.a
  /\ task.d \in Seq(Row) /\ task.f = task.d

LEMMA EmptyTask == IsTask(NoTask) /\ NoTask.a = <<>> /\ NoTask.d = <<>>
  BY EmptySeq DEF IsTask, NoTask

LEMMA EqualityTask ==
  ASSUME NEW rows \in Seq(Row)
  PROVE  IsTask(Equalities(rows)) /\ Equalities(rows).a = rows /\ Equalities(rows).d = <<>>
BY EmptySeq DEF IsTask, NoTask, Equalities

LEMMA SumOfTasks ==
  ASSUME NEW t1, NEW t2, IsTask(t1), IsTask(t2)
  PROVE  /\ IsTask(Plus(t1, t2))
         /\ Plus(t1, t2).a = t1.a \o t2.a /\ Plus(t1, t2).d = t1.d \o t2.d
         /\ Len(Plus(t1, t2).a) = Len(t1.a) + Len(t2.a)
         /\ ToSet(Plus(t1, t2).a) = ToSet(t1.a) \cup ToSet(t2.a)
         /\ ToSet(Plus(t1, t2).d) = ToSet(t1.d) \cup ToSet(t2.d)
<1>1. t1.a \in Seq(Row) /\ t1.d \in Seq(Row) /\ t2.a \in Seq(Row) /\ t2.d \in Seq(Row)
  BY DEF IsTask
<1>2. t1.b = t1.a /\ t1.f = t1.d /\ t2.b = t2.a /\ t2.f = t2.d
  BY DEF IsTask
<1>3. Plus(t1, t2).a = t1.a \o t2.a /\ Plus(t1, t2).d = t1.d \o t2.d
  BY DEF Plus
<1>4. t1.a \o t2.a \in Seq(Row) /\ t1.d \o t2.d \in Seq(Row)
  BY <1>1, ConcatProperties
<1>5. IsTask(Plus(t1, t2))
  BY <1>2, <1>4 DEF IsTask, Plus
<1>6. Len(t1.a \o t2.a) = Len(t1.a) + Len(t2.a)
  BY <1>1, ConcatProperties
<1>7. /\ ToSet(t1.a \o t2.a) = ToSet(t1.a) \cup ToSet(t2.a)
      /\ ToSet(t1.d \o t2.d) = ToSet(t1.d) \cup ToSet(t2.d)
  BY <1>1, ToSetOfConcat
<1>. QED  BY <1>3, <1>5, <1>6, <1>7

LEMMA TasksOfRobot ==
  /\ IsTask(FloatingBaseEomTask) /\ Len(FloatingBaseEomTask.a) = 18
  /\ ToSet(FloatingBaseEomTask.a) = {RowOf("eom", "none")} /\ FloatingBaseEomTask.d = <<>>
  /\ IsTask(TorqueLimitsTask) /\ TorqueLimitsTask.a = <<>>
  /\ ToSet(TorqueLimitsTask.d) = {RowOf("torque", "none")}
  /\ IsTask(BaseAccelTask)
  /\ ToSet(BaseAccelTask.a) = {RowOf("baseAccel", "none")} /\ BaseAccelTask.d = <<>>
<1>1. /\ "eom" \in TaskNames /\ "torque" \in TaskNames /\ "baseAccel" \in TaskNames
      /\ 18 \in Nat \ {0} /\ 24 \in Nat \ {0} /\ 6 \in Nat \ {0}
  BY DEF TaskNames
<1>2. /\ RowsFor(18, "eom", "none") \in Seq(Row) /\ Len(RowsFor(18, "eom", "none")) = 18
      /\ ToSet(RowsFor(18, "eom", "none")) = {RowOf("eom", "none")}
  <2>1. RowsFor(18, "eom", "none") \in Seq(Row)
    BY <1>1, RowsOfLeg
  <2>2. Len(RowsFor(18, "eom", "none")) = 18
    BY <1>1, RowsOfLeg
  <2>3. ToSet(RowsFor(18, "eom", "none")) = {RowOf("eom", "none")}
    BY <1>1, RowsOfLeg
  <2>. QED  BY <2>1, <2>2, <2>3
<1>3. /\ RowsFor(24, "torque", "none") \in Seq(Row)
      /\ ToSet(RowsFor(24, "torque", "none")) = {RowOf("torque", "none")}
      /\ RowsFor(6, "baseAccel", "none") \in Seq(Row)
      /\ ToSet(RowsFor(6, "baseAccel", "none")) = {RowOf("baseAccel", "none")}
  BY <1>1, RowsOfLeg
<1>4. /\ GeneralizedCoordinatesNum = 18 /\ 2 * ActuatedDofNum = 24
  BY DEF GeneralizedCoordinatesNum, ActuatedDofNum
<1>5. IsTask(TorqueLimitsTask) /\ TorqueLimitsTask.a = <<>>
      /\ TorqueLimitsTask.d = RowsFor(24, "torque", "none")
  BY <1>3, <1>4, EmptySeq DEF TorqueLimitsTask, NoTask, IsTask
<1>. QED  BY <1>2, <1>3, <1>4, <1>5, EqualityTask DEF FloatingBaseEomTask, BaseAccelTask

LEMMA TasksOfFeet ==
  ASSUME contactFlag_ \in SUBSET Legs
  PROVE  /\ IsTask(NoContactMotionTask)
         /\ Len(NoContactMotionTask.a) = RowCount(3, contactFlag_)
         /\ ToSet(NoContactMotionTask.a) = {RowOf("noMotion", leg) : leg \in contactFlag_}
         /\ NoContactMotionTask.d = <<>>
         /\ IsTask(SwingLegTask) /\ SwingLegTask.d = <<>>
         /\ ToSet(SwingLegTask.a) = {RowOf("swing", leg) : leg \in Legs \ contactFlag_}
         /\ IsTask(ContactForceTask) /\ ContactForceTask.d = <<>>
         /\ ToSet(ContactForceTask.a) = {RowOf("force", leg) : leg \in Legs}
<1>1. Legs \ contactFlag_ \in SUBSET Legs /\ Legs \in SUBSET Legs
  OBVIOUS
<1>2. "noMotion" \in TaskNames /\ "swing" \in TaskNames /\ "force" \in TaskNames
  BY DEF TaskNames
<1>3. 3 \in Nat \ {0}
  OBVIOUS
<1>4. /\ FootRows(3, "noMotion", contactFlag_) \in Seq(Row)
      /\ Len(FootRows(3, "noMotion", contactFlag_)) = RowCount(3, contactFlag_)
      /\ ToSet(FootRows(3, "noMotion", contactFlag_))
           = {RowOf("noMotion", leg) : leg \in contactFlag_}
  BY <1>2, <1>3, RowsOfFeet
<1>5. /\ FootRows(3, "swing", Legs \ contactFlag_) \in Seq(Row)
      /\ ToSet(FootRows(3, "swing", Legs \ contactFlag_))
           = {RowOf("swing", leg) : leg \in Legs \ contactFlag_}
  BY <1>1, <1>2, <1>3, RowsOfFeet
<1>6. /\ FootRows(3, "force", Legs) \in Seq(Row)
      /\ ToSet(FootRows(3, "force", Legs)) = {RowOf("force", leg) : leg \in Legs}
  BY <1>1, <1>2, <1>3, RowsOfFeet
<1>. QED  BY <1>4, <1>5, <1>6, EqualityTask
          DEF NoContactMotionTask, SwingLegTask, ContactForceTask

LEMMA FrictionCone ==
  ASSUME contactFlag_ \in SUBSET Legs
  PROVE  /\ IsTask(FrictionConeTask)
         /\ Len(FrictionConeTask.a) = RowCount(3, Legs \ contactFlag_)
         /\ ToSet(FrictionConeTask.a) = {RowOf("zeroForce", leg) : leg \in Legs \ contactFlag_}
         /\ ToSet(FrictionConeTask.d) = {RowOf("friction", leg) : leg \in contactFlag_}
                                        \cup {RowOf("empty", leg) : leg \in Legs \ contactFlag_}
<1>. DEFINE pyramid == FootRows(5, "friction", contactFlag_)
            empty == FootRows(3, "empty", Legs \ contactFlag_)
            zero == FootRows(3, "zeroForce", Legs \ contactFlag_)
<1>1. /\ "friction" \in TaskNames /\ "empty" \in TaskNames /\ "zeroForce" \in TaskNames
      /\ 3 \in Nat \ {0} /\ 5 \in Nat \ {0} /\ Legs \ contactFlag_ \in SUBSET Legs
  BY DEF TaskNames
<1>2. /\ pyramid \in Seq(Row) /\ empty \in Seq(Row) /\ zero \in Seq(Row)
      /\ Len(zero) = RowCount(3, Legs \ contactFlag_)
      /\ ToSet(pyramid) = {RowOf("friction", leg) : leg \in contactFlag_}
      /\ ToSet(empty) = {RowOf("empty", leg) : leg \in Legs \ contactFlag_}
      /\ ToSet(zero) = {RowOf("zeroForce", leg) : leg \in Legs \ contactFlag_}
  BY <1>1, RowsOfFeet
<1>3. FrictionConeTask = [a |-> zero, b |-> zero, d |-> pyramid \o empty, f |-> pyramid \o empty]
  BY DEF FrictionConeTask
<1>. HIDE DEF pyramid, empty, zero
<1>4. pyramid \o empty \in Seq(Row) /\ ToSet(pyramid \o empty) = ToSet(pyramid) \cup ToSet(empty)
  BY <1>2, ConcatProperties, ToSetOfConcat
<1>. QED  BY <1>2, <1>3, <1>4 DEF IsTask

\* The equations of the robot and of its feet are 30, whichever feet are in contact.
LEMMA HardTaskRows ==
  ASSUME contactFlag_ \in SUBSET Legs
  PROVE  /\ IsTask(HardTasks) /\ Len(HardTasks.a) = 30
         /\ ToSet(HardTasks.a)
              = {RowOf("eom", "none")} \cup {RowOf("noMotion", leg) : leg \in contactFlag_}
                \cup {RowOf("zeroForce", leg) : leg \in Legs \ contactFlag_}
         /\ ToSet(HardTasks.d)
              = {RowOf("torque", "none")} \cup {RowOf("friction", leg) : leg \in contactFlag_}
                \cup {RowOf("empty", leg) : leg \in Legs \ contactFlag_}
<1>. DEFINE t2 == Plus(FloatingBaseEomTask, TorqueLimitsTask)
            t3 == Plus(t2, FrictionConeTask)
<1>1. /\ IsTask(t2) /\ Len(t2.a) = 18 /\ ToSet(t2.a) = {RowOf("eom", "none")}
      /\ ToSet(t2.d) = {RowOf("torque", "none")}
  <2>1. /\ IsTask(t2) /\ Len(t2.a) = Len(FloatingBaseEomTask.a) + Len(TorqueLimitsTask.a)
        /\ ToSet(t2.a) = ToSet(FloatingBaseEomTask.a) \cup ToSet(TorqueLimitsTask.a)
        /\ ToSet(t2.d) = ToSet(FloatingBaseEomTask.d) \cup ToSet(TorqueLimitsTask.d)
    BY TasksOfRobot, SumOfTasks
  <2>. HIDE DEF t2
  <2>. QED  BY <2>1, TasksOfRobot, EmptySeq, ToSetOfEmpty
<1>. HIDE DEF t2
<1>2. /\ IsTask(t3) /\ Len(t3.a) = Len(t2.a) + Len(FrictionConeTask.a)
      /\ ToSet(t3.a) = ToSet(t2.a) \cup ToSet(FrictionConeTask.a)
      /\ ToSet(t3.d) = ToSet(t2.d) \cup ToSet(FrictionConeTask.d)
  BY <1>1, FrictionCone, SumOfTasks
<1>3. HardTasks = Plus(t3, NoContactMotionTask)
  BY DEF HardTasks, t2
<1>. HIDE DEF t3
<1>4. /\ IsTask(HardTasks)
      /\ Len(HardTasks.a) = Len(t3.a) + Len(NoContactMotionTask.a)
      /\ ToSet(HardTasks.a) = ToSet(t3.a) \cup ToSet(NoContactMotionTask.a)
      /\ ToSet(HardTasks.d) = ToSet(t3.d) \cup ToSet(NoContactMotionTask.d)
  <2>1. IsTask(t3) /\ IsTask(NoContactMotionTask)
    BY <1>2, TasksOfFeet
  <2>. QED  BY <1>3, <2>1, SumOfTasks
<1>5. RowCount(3, Legs \ contactFlag_) + RowCount(3, contactFlag_) = 12
  BY DEF RowCount, Legs
<1>6. RowCount(3, Legs \ contactFlag_) \in Int /\ RowCount(3, contactFlag_) \in Int
  BY DEF RowCount
<1>7. Len(HardTasks.a) = 30
  <2>1. Len(FrictionConeTask.a) = RowCount(3, Legs \ contactFlag_)
    BY FrictionCone
  <2>2. Len(NoContactMotionTask.a) = RowCount(3, contactFlag_)
    BY TasksOfFeet
  <2>. QED  BY <1>1, <1>2, <1>4, <1>5, <1>6, <2>1, <2>2
<1>. QED  BY <1>1, <1>2, <1>4, <1>7, FrictionCone, TasksOfFeet, ToSetOfEmpty
---------------------------------------------------------------------------------
(***************************************************************************)
(* Programs.                                                               *)
(***************************************************************************)
Constraint == [row : Row, bound : Row, slack : Row \cup {Hard}]

RowsIn(program) == {c.row : c \in ToSet(program)}

WellPosed(program) ==
  /\ program \in Seq(Constraint)
  /\ \A c \in ToSet(program) : c.bound = c.row /\ c.slack \in {c.row, Hard}

RowsOf(task) == ToSet(task.a) \cup ToSet(task.d)

LEMMA BoundedRows ==
  ASSUME NEW rows \in Seq(Row), NEW slacks,
         \A i \in 1..Len(rows) : slacks[i] \in {rows[i], Hard}
  PROVE  WellPosed(Bounded(rows, rows, slacks)) /\ RowsIn(Bounded(rows, rows, slacks)) = ToSet(rows)
<1>. DEFINE p == Bounded(rows, rows, slacks)
<1>1. Len(rows) \in Nat /\ DOMAIN rows = 1..Len(rows) /\ \A i \in 1..Len(rows) : rows[i] \in Row
  BY LenProperties, ElementOfSeq
<1>2. \A i \in 1..Len(rows) : p[i] = [row |-> rows[i], bound |-> rows[i], slack |-> slacks[i]]
  BY DEF Bounded
<1>3. p \in [1..Len(rows) -> Constraint]
  BY <1>1 DEF Bounded, Constraint
<1>. HIDE DEF p
<1>4. p \in Seq(Constraint) /\ DOMAIN p = 1..Len(rows)
  BY <1>1, <1>3
<1>5. \A c \in ToSet(p) : c.bound = c.row /\ c.slack \in {c.row, Hard}
  BY <1>2, <1>4 DEF ToSet
<1>6. RowsIn(p) = ToSet(rows)
  BY <1>1, <1>2, <1>4 DEF ToSet, RowsIn
<1>. QED  BY <1>4, <1>5, <1>6 DEF WellPosed, p

LEMMA JoinedPrograms ==
  ASSUME NEW p, NEW q, WellPosed(p), WellPosed(q)
  PROVE  WellPosed(p \o q) /\ RowsIn(p \o q) = RowsIn(p) \cup RowsIn(q)
<1>1. p \o q \in Seq(Constraint) /\ ToSet(p \o q) = ToSet(p) \cup ToSet(q)
  BY ConcatProperties, ToSetOfConcat DEF WellPosed
<1>. QED  BY <1>1 DEF WellPosed, RowsIn

LEMMA EmptyProgram == WellPosed(<<>>) /\ RowsIn(<<>>) = {}
  BY EmptySeq, ToSetOfEmpty DEF WellPosed, RowsIn

LEMMA CostRows ==
  ASSUME NEW task, IsTask(task)
  PROVE  /\ \A c \in ToSet(CostOf(task)) : c.target = c.row
         /\ RowsIn(CostOf(task)) = ToSet(task.a)
<1>. DEFINE p == CostOf(task)
            rows == task.a
<1>1. /\ DOMAIN rows = 1..Len(rows) /\ DOMAIN p = 1..Len(rows)
      /\ \A i \in 1..Len(rows) : p[i] = [row |-> rows[i], target |-> rows[i]]
  BY LenProperties DEF CostOf, IsTask
<1>. HIDE DEF p, rows
<1>2. \A i \in 1..Len(rows) : p[i].row = rows[i] /\ p[i].target = rows[i]
  BY <1>1
<1>3. \A c \in ToSet(p) : c.target = c.row
  BY <1>1, <1>2 DEF ToSet
<1>4. RowsIn(p) = ToSet(rows)
  BY <1>1, <1>2 DEF ToSet, RowsIn
<1>. QED  BY <1>3, <1>4 DEF p, rows

(***************************************************************************)
(* The invariant.                                                          *)
(***************************************************************************)
Flags ==
  /\ scheme \in {"weighted", "hierarchical"} /\ level \in 0..NumPrograms
  /\ plannedMode \in Modes /\ contactFlag_ = modeNumber2StanceLeg[plannedMode]

\* Slack is stacked from the other end than the inequalities it is for: the two agree
\* because only the first priority has any.
Stack ==
  /\ IsTask(stackedTasks_)
  /\ stackedSlackVars_ = stackedTasks_.d
  /\ stackedZ_.nulls = ToSet(stackedTasks_.a)
  /\ level = 0 \/ scheme = "weighted" => stackedTasks_ = NoTask /\ stackedZ_ = WholeSpace

Programs ==
  /\ WellPosed(constraints)
  /\ \A c \in ToSet(cost) : c.target = c.row
  /\ scheme = "hierarchical" => /\ RowsIn(constraints) = ToSet(stackedTasks_.d)
                                /\ RowsIn(cost) \subseteq ToSet(stackedTasks_.a)

\* What the update has said so far.
Said ==
  /\ scheme = "hierarchical" =>
       RowsOf(stackedTasks_) = UNION {RowsOf(Priorities[i]) : i \in 1..level}
  /\ scheme = "weighted" /\ level = 1 =>
       RowsIn(constraints) \cup RowsIn(cost) = RowsOf(HardTasks) \cup RowsOf(WeightedTasks)

IInv == Flags /\ Stack /\ Programs /\ Said /\ MotorsAreFree
---------------------------------------------------------------------------------
LEMMA FlagsOfMode ==
  ASSUME Flags
  PROVE  contactFlag_ \in SUBSET Legs
<1>1. \A m \in Modes : modeNumber2StanceLeg[m] \in SUBSET Legs
  BY DEF modeNumber2StanceLeg, Modes, Legs
<1>. QED  BY <1>1 DEF Flags

\* What is asked for below the equations of the robot, in one task or in two.
SoftRows ==
  {RowOf("baseAccel", "none")} \cup {RowOf("swing", leg) : leg \in Legs \ contactFlag_}
    \cup {RowOf("force", leg) : leg \in Legs}

LEMMA SoftTasks ==
  ASSUME contactFlag_ \in SUBSET Legs
  PROVE  /\ IsTask(Priorities[2]) /\ Priorities[2].d = <<>>
         /\ IsTask(Priorities[3]) /\ Priorities[3].d = <<>>
         /\ ToSet(Priorities[2].a) \cup ToSet(Priorities[3].a) = SoftRows
         /\ IsTask(WeightedTasks) /\ WeightedTasks.d = <<>>
         /\ ToSet(WeightedTasks.a) = SoftRows
<1>1. Priorities[2] = Plus(BaseAccelTask, SwingLegTask) /\ Priorities[3] = ContactForceTask
  BY DEF Priorities
<1>2. <<>> \o <<>> = <<>>
  BY EmptySeq, ConcatEmptySeq
<1>. DEFINE t2 == Plus(BaseAccelTask, SwingLegTask)
            w2 == Plus(SwingLegTask, BaseAccelTask)
<1>3. /\ IsTask(t2) /\ t2.d = <<>>
      /\ ToSet(t2.a) = ToSet(BaseAccelTask.a) \cup ToSet(SwingLegTask.a)
      /\ IsTask(w2) /\ w2.d = <<>>
      /\ ToSet(w2.a) = ToSet(SwingLegTask.a) \cup ToSet(BaseAccelTask.a)
  <2>1. /\ IsTask(BaseAccelTask) /\ BaseAccelTask.d = <<>>
        /\ IsTask(SwingLegTask) /\ SwingLegTask.d = <<>>
    BY TasksOfRobot, TasksOfFeet
  <2>2. /\ IsTask(t2) /\ t2.d = BaseAccelTask.d \o SwingLegTask.d
        /\ ToSet(t2.a) = ToSet(BaseAccelTask.a) \cup ToSet(SwingLegTask.a)
    BY <2>1, SumOfTasks
  <2>3. /\ IsTask(w2) /\ w2.d = SwingLegTask.d \o BaseAccelTask.d
        /\ ToSet(w2.a) = ToSet(SwingLegTask.a) \cup ToSet(BaseAccelTask.a)
    BY <2>1, SumOfTasks
  <2>. HIDE DEF t2, w2
  <2>. QED  BY <1>2, <2>1, <2>2, <2>3
<1>4. WeightedTasks = Plus(w2, ContactForceTask)
  BY DEF WeightedTasks
<1>. HIDE DEF t2, w2
<1>5. /\ IsTask(WeightedTasks) /\ WeightedTasks.d = <<>>
      /\ ToSet(WeightedTasks.a) = ToSet(w2.a) \cup ToSet(ContactForceTask.a)
  <2>1. IsTask(ContactForceTask) /\ ContactForceTask.d = <<>>
    BY TasksOfFeet
  <2>2. /\ IsTask(WeightedTasks) /\ WeightedTasks.d = w2.d \o ContactForceTask.d
        /\ ToSet(WeightedTasks.a) = ToSet(w2.a) \cup ToSet(ContactForceTask.a)
    BY <1>3, <1>4, <2>1, SumOfTasks
  <2>. QED  BY <1>2, <1>3, <2>1, <2>2
<1>6. Priorities[2] = t2
  BY <1>1 DEF t2
<1>. QED  BY <1>1, <1>3, <1>5, <1>6, TasksOfRobot, TasksOfFeet DEF SoftRows

LEMMA FirstPriority == Priorities[1] = HardTasks /\ Len(Priorities) = 3
  BY DEF Priorities

LEMMA SameFlags ==
  ASSUME contactFlag_' = contactFlag_
  PROVE  Priorities' = Priorities /\ HardTasks' = HardTasks /\ WeightedTasks' = WeightedTasks
BY DEF Priorities, HardTasks, WeightedTasks, FloatingBaseEomTask, TorqueLimitsTask,
       FrictionConeTask, NoContactMotionTask, BaseAccelTask, SwingLegTask, ContactForceTask

LEMMA PriorityTasks ==
  ASSUME Flags, NEW k \in 1..3
  PROVE  IsTask(Priorities[k]) /\ (k # 1 => Priorities[k].d = <<>>)
<1>1. contactFlag_ \in SUBSET Legs
  BY FlagsOfMode
<1>. QED  BY <1>1, SoftTasks, HardTaskRows, FirstPriority

---------------------------------------------------------------------------------
(***************************************************************************)
(* The invariant holds.                                                    *)
(***************************************************************************)
LEMMA InitInvariant == Init => IInv
<1>. SUFFICES ASSUME Init
              PROVE  IInv
  OBVIOUS
<1>1. Flags
  BY FirstPriority DEF Init, Flags, NumPrograms, Modes, FLY
<1>2. Stack
  BY EmptyTask, ToSetOfEmpty DEF Init, Stack, WholeSpace
<1>3. Programs
  BY EmptyProgram, EmptyTask, ToSetOfEmpty DEF Init, Programs
<1>4. Said
  BY EmptyTask, ToSetOfEmpty DEF Init, Said, RowsOf
<1>. QED  BY <1>1, <1>2, <1>3, <1>4 DEF Init, IInv, MotorsAreFree

LEMMA UpdateInvariant ==
  ASSUME IInv, NEW mode \in Modes, Update(mode)
  PROVE  IInv'
<1>1. Flags'
  BY FirstPriority DEF IInv, Flags, Update, NumPrograms, Modes
<1>2. Stack'
  BY EmptyTask, ToSetOfEmpty DEF Update, Stack, WholeSpace
<1>3. Programs'
  BY EmptyProgram, EmptyTask, ToSetOfEmpty DEF Update, Programs
<1>4. Said'
  BY EmptyTask, ToSetOfEmpty DEF Update, Said, RowsOf
<1>. QED  BY <1>1, <1>2, <1>3, <1>4 DEF Update, IInv, MotorsAreFree

LEMMA WeightedInvariant ==
  ASSUME IInv, SolveWeighted
  PROVE  IInv'
<1>1. contactFlag_ \in SUBSET Legs
  BY FlagsOfMode DEF IInv
<1>2. level = 0 /\ level' = 1 /\ scheme = "weighted" /\ UNCHANGED <<scheme, plannedMode, contactFlag_>>
  BY DEF IInv, Flags, SolveWeighted, NumPrograms
<1>3. UNCHANGED <<stackedTasks_, stackedSlackVars_, stackedZ_>>
  BY DEF SolveWeighted, WeightedProgram
<1>. DEFINE rows == HardTasks.a \o HardTasks.d
            slacks == [i \in DOMAIN rows |-> Hard]
<1>4. constraints' = Bounded(rows, rows, slacks) /\ cost' = CostOf(WeightedTasks)
  BY <1>1, HardTaskRows DEF SolveWeighted, WeightedProgram, IsTask
<1>5. rows \in Seq(Row) /\ ToSet(rows) = RowsOf(HardTasks)
  BY <1>1, HardTaskRows, ConcatProperties, ToSetOfConcat DEF IsTask, RowsOf
<1>6. \A i \in 1..Len(rows) : slacks[i] \in {rows[i], Hard}
  BY <1>5, LenProperties
<1>. HIDE DEF rows, slacks
<1>7. WellPosed(constraints') /\ RowsIn(constraints') = RowsOf(HardTasks)
  BY <1>4, <1>5, <1>6, BoundedRows
<1>8. /\ \A c \in ToSet(cost') : c.target = c.row
      /\ RowsIn(cost') = RowsOf(WeightedTasks)
  BY <1>1, <1>4, SoftTasks, CostRows, ToSetOfEmpty DEF RowsOf
<1>9. Flags'
  BY <1>2 DEF IInv, Flags, NumPrograms
<1>10. Stack'
  BY <1>2, <1>3 DEF IInv, Stack
<1>11. Programs'
  BY <1>2, <1>7, <1>8 DEF Programs
<1>12. Said'
  BY <1>2, <1>7, <1>8, SameFlags DEF Said
<1>. QED  BY <1>2, <1>9, <1>10, <1>11, <1>12 DEF IInv, MotorsAreFree

LEMMA PriorityInvariant ==
  ASSUME IInv, SolvePriority
  PROVE  IInv'
<1>. DEFINE task == Priorities[level + 1]
<1>1. /\ level \in 0..2 /\ level + 1 \in 1..3 /\ scheme = "hierarchical" /\ level' = level + 1
      /\ UNCHANGED <<scheme, plannedMode, contactFlag_>>
  BY FirstPriority DEF IInv, Flags, SolvePriority, NumPrograms
<1>2. /\ constraints' = ConstraintsOf(task) /\ cost' = CostOf(task)
      /\ stackedTasks_' = Plus(task, stackedTasks_)
      /\ stackedSlackVars_' = stackedSlackVars_ \o task.d
      /\ stackedZ_' \in ZMatrix(task)
  BY DEF SolvePriority, HoQp
<1>3. IsTask(task) /\ (level # 0 => task.d = <<>>)
  BY <1>1, PriorityTasks DEF IInv
<1>4. level = 0 => task = HardTasks /\ stackedTasks_ = NoTask /\ stackedZ_ = WholeSpace
  BY FirstPriority DEF IInv, Stack
<1>5. IsTask(stackedTasks_) /\ stackedSlackVars_ = stackedTasks_.d
  BY DEF IInv, Stack
<1>. HIDE DEF task
<1>6. /\ IsTask(stackedTasks_')
      /\ stackedTasks_'.d = task.d \o stackedTasks_.d
      /\ ToSet(stackedTasks_'.a) = ToSet(task.a) \cup ToSet(stackedTasks_.a)
      /\ ToSet(stackedTasks_'.d) = ToSet(task.d) \cup ToSet(stackedTasks_.d)
  BY <1>2, <1>3, <1>5, SumOfTasks
<1>7. stackedSlackVars_' = stackedTasks_'.d
  <2>1. task.d \in Seq(Row) /\ stackedTasks_.d \in Seq(Row)
    BY <1>3, <1>5 DEF IsTask
  <2>2. task.d = <<>> \/ stackedTasks_.d = <<>>
    BY <1>3, <1>4, EmptyTask
  <2>3. task.d \o stackedTasks_.d = stackedTasks_.d \o task.d
    BY <2>1, <2>2, ConcatEmptySeq
  <2>. QED  BY <1>2, <1>5, <1>6, <2>3
<1>8. stackedZ_'.nulls = ToSet(stackedTasks_'.a)
  BY <1>2, <1>6, ToSetOfEmpty DEF IInv, Stack, ZMatrix
<1>9. level = 0 => stackedZ_'.cols >= ActuatedDofNum
  <2>. SUFFICES ASSUME level = 0
                PROVE  stackedZ_'.cols >= ActuatedDofNum
    OBVIOUS
  <2>1. contactFlag_ \in SUBSET Legs
    BY FlagsOfMode DEF IInv
  <2>2. task = HardTasks /\ stackedZ_.cols = 42 /\ Len(task.a) = 30
    BY <1>4, <2>1, HardTaskRows
    DEF WholeSpace, NumDecisionVars, GeneralizedCoordinatesNum, ActuatedDofNum, Feet
  <2>3. task.a # <<>>
    <3>1. \A s : s = <<>> => Len(s) = 0
      BY EmptySeq
    <3>2. task.a = <<>> => Len(task.a) = 0
      BY <3>1, Zenon
    <3>. QED  BY <2>2, <3>2
  <2>4. \A n \in KernelColumns(42, 30) : n >= 12
    BY RankAssumption DEF KernelColumns
  <2>. QED  BY <1>2, <2>2, <2>3, <2>4 DEF ZMatrix, ActuatedDofNum
<1>10. WellPosed(constraints') /\ RowsIn(constraints') = ToSet(stackedTasks_'.d)
  <2>. DEFINE old == Bounded(stackedTasks_.d, stackedTasks_.d, stackedTasks_.d)
              new == Bounded(task.d, task.d, task.d)
  <2>1. constraints' = old \o new
    BY <1>2, <1>3, <1>5 DEF ConstraintsOf, IsTask
  <2>2. /\ WellPosed(old) /\ RowsIn(old) = ToSet(stackedTasks_.d)
        /\ WellPosed(new) /\ RowsIn(new) = ToSet(task.d)
    BY <1>3, <1>5, BoundedRows DEF IsTask
  <2>. HIDE DEF old, new
  <2>. QED  BY <1>6, <2>1, <2>2, JoinedPrograms
<1>11. /\ \A c \in ToSet(cost') : c.target = c.row
       /\ RowsIn(cost') = ToSet(task.a)
  BY <1>2, <1>3, CostRows
<1>12. Flags'
  <2>1. NumPrograms = 3 /\ NumPrograms' = 3
    BY <1>1, FirstPriority, SameFlags DEF NumPrograms
  <2>. QED  BY <1>1, <2>1 DEF IInv, Flags
<1>13. Stack'
  BY <1>1, <1>6, <1>7, <1>8 DEF Stack
<1>14. Programs'
  BY <1>1, <1>6, <1>10, <1>11 DEF Programs
<1>15. Said'
  <2>1. Priorities' = Priorities
    BY <1>1, SameFlags
  <2>2. RowsOf(stackedTasks_') = RowsOf(stackedTasks_) \cup RowsOf(task)
    BY <1>6 DEF RowsOf
  <2>3. 1..(level + 1) = (1..level) \cup {level + 1}
    BY <1>1
  <2>4. RowsOf(stackedTasks_) = UNION {RowsOf(Priorities[i]) : i \in 1..level}
    BY <1>1 DEF IInv, Said
  <2>5. RowsOf(stackedTasks_') = UNION {RowsOf(Priorities[i]) : i \in 1..(level + 1)}
    BY <2>2, <2>3, <2>4 DEF task
  <2>. QED  BY <1>1, <2>1, <2>5 DEF Said
<1>16. MotorsAreFree'
  BY <1>1, <1>9 DEF MotorsAreFree
<1>. QED  BY <1>12, <1>13, <1>14, <1>15, <1>16 DEF IInv

THEOREM ProgramsInvariant == Spec => []IInv
<1>1. IInv /\ UNCHANGED vars => IInv'
  <2>. SUFFICES ASSUME IInv, UNCHANGED vars
                PROVE  IInv'
    OBVIOUS
  <2>1. Flags' /\ Stack' /\ Programs' /\ MotorsAreFree'
    BY SameFlags DEF IInv, vars, Flags, Stack, Programs, MotorsAreFree, NumPrograms
  <2>2. Said'
    BY SameFlags DEF IInv, vars, Said
  <2>. QED  BY <2>1, <2>2 DEF IInv
<1>2. IInv /\ [Next]_vars => IInv'
  BY <1>1, UpdateInvariant, WeightedInvariant, PriorityInvariant DEF Next
<1>. QED  BY InitInvariant, <1>2, PTL DEF Spec
---------------------------------------------------------------------------------
(***************************************************************************)
(* What the programs impose.                                               *)
(***************************************************************************)
LEMMA SaidWhenDone ==
  ASSUME IInv, level = NumPrograms
  PROVE  Imposed = RowsOf(HardTasks) \cup SoftRows
<1>1. contactFlag_ \in SUBSET Legs
  BY FlagsOfMode DEF IInv
<1>2. CASE scheme = "weighted"
  <2>1. RowsIn(constraints) \cup RowsIn(cost) = RowsOf(HardTasks) \cup RowsOf(WeightedTasks)
    BY <1>2 DEF IInv, Said, NumPrograms
  <2>2. stackedZ_.nulls = {}
    BY <1>2 DEF IInv, Stack, WholeSpace
  <2>3. RowsOf(WeightedTasks) = SoftRows
    BY <1>1, SoftTasks, ToSetOfEmpty DEF RowsOf
  <2>. QED  BY <2>1, <2>2, <2>3 DEF Imposed, RowsIn
<1>3. CASE scheme = "hierarchical"
  <2>1. level = 3
    BY <1>3, FirstPriority DEF NumPrograms
  <2>2. RowsOf(stackedTasks_) = UNION {RowsOf(Priorities[i]) : i \in 1..3}
    BY <1>3, <2>1 DEF IInv, Said
  <2>3. UNION {RowsOf(Priorities[i]) : i \in 1..3}
          = RowsOf(Priorities[1]) \cup RowsOf(Priorities[2]) \cup RowsOf(Priorities[3])
    OBVIOUS
  <2>4. RowsOf(Priorities[2]) \cup RowsOf(Priorities[3]) = SoftRows
    BY <1>1, SoftTasks, ToSetOfEmpty DEF RowsOf
  <2>5. Imposed = RowsOf(stackedTasks_)
    BY <1>3 DEF IInv, Stack, Programs, Imposed, RowsIn, RowsOf
  <2>. QED  BY <2>2, <2>3, <2>4, <2>5, FirstPriority
<1>. QED  BY <1>2, <1>3 DEF IInv, Flags

\* MPC and whole-body controller constrain every foot alike in every mode: the program of
\* a WeightedWbc, and the three of a HierarchicalWbc.
THEOREM FeetConstrainedAlike == Spec => []FeetAreConstrained
<1>1. IInv => FeetAreConstrained
  <2>. SUFFICES ASSUME IInv, level = NumPrograms, NEW leg \in Legs, NEW c \in DOMAIN Counterpart
                PROVE  RowOf(Counterpart[c], leg) \in Imposed
                         <=> c \in ActiveConstraints(leg, plannedMode)
    BY DEF FeetAreConstrained, RowOf
  <2>1. contactFlag_ \in SUBSET Legs /\ contactFlag_ = modeNumber2StanceLeg[plannedMode]
    BY FlagsOfMode DEF IInv, Flags
  <2>2. leg # "none"
    BY DEF Legs
  <2>. DEFINE said == RowsOf(HardTasks) \cup SoftRows
  <2>3. Imposed = said
    BY SaidWhenDone
  <2>4. said = {RowOf("eom", "none"), RowOf("torque", "none"), RowOf("baseAccel", "none")}
                \cup {RowOf(task, l) : task \in {"noMotion", "friction"}, l \in contactFlag_}
                \cup {RowOf(task, l) : task \in {"zeroForce", "empty", "swing"},
                                       l \in Legs \ contactFlag_}
                \cup {RowOf("force", l) : l \in Legs}
    BY <2>1, HardTaskRows DEF RowsOf, SoftRows
  <2>. HIDE DEF said
  <2>5. \A t1, t2, l1, l2 : RowOf(t1, l1) = RowOf(t2, l2) <=> t1 = t2 /\ l1 = l2
    BY DEF RowOf
  <2>6. RowOf("friction", leg) \in said <=> leg \in contactFlag_
    BY <2>2, <2>4, <2>5
  <2>7. RowOf("noMotion", leg) \in said <=> leg \in contactFlag_
    BY <2>2, <2>4, <2>5
  <2>8. RowOf("zeroForce", leg) \in said <=> leg \notin contactFlag_
    BY <2>2, <2>4, <2>5
  <2>9. RowOf("swing", leg) \in said <=> leg \notin contactFlag_
    BY <2>2, <2>4, <2>5
  <2>10. ActiveConstraints(leg, plannedMode)
           = IF leg \in contactFlag_ THEN {"frictionCone", "zeroVelocity"}
             ELSE {"zeroForce", "normalVelocity"}
    BY <2>1
    DEF ActiveConstraints, FrictionConeIsActive, ZeroVelocityIsActive, ZeroForceIsActive,
        NormalVelocityIsActive
  <2>. QED  BY <2>3, <2>6, <2>7, <2>8, <2>9, <2>10 DEF Counterpart
<1>. QED  BY ProgramsInvariant, <1>1, PTL

\* The rows of a task meet their own right-hand sides wherever the task is stacked.
THEOREM RowsKeepTheirBounds == Spec => []BoundsBelongToRows
<1>1. IInv => BoundsBelongToRows
  BY DEF IInv, Programs, WellPosed, BoundsBelongToRows
<1>. QED  BY ProgramsInvariant, <1>1, PTL

\* A lower priority grants every inequality before it the slack that inequality was given.
THEOREM SlackIsGrantedInOrder == Spec => []SlackRelaxesItsRow
<1>1. IInv => SlackRelaxesItsRow
  BY DEF IInv, Programs, WellPosed, SlackRelaxesItsRow
<1>. QED  BY ProgramsInvariant, <1>1, PTL

\* A lower priority moves in the null space of all the equations before it, and under all
\* their inequalities.
THEOREM PrioritiesHold == Spec => []PrioritiesAreKept
<1>1. IInv => PrioritiesAreKept
  BY DEF IInv, Stack, Programs, RowsIn, PrioritiesAreKept
<1>. QED  BY ProgramsInvariant, <1>1, PTL

\* The equations of the robot and of its feet leave a direction for every motor, in every
\* mode and at every rank.
THEOREM MotorsStayFree == Spec => []MotorsAreFree
<1>1. IInv => MotorsAreFree
  BY DEF IInv
<1>. QED  BY ProgramsInvariant, <1>1, PTL
=================================================================================
