------------------------ MODULE ReferencePlanning_proofs ------------------------
(***************************************************************************)
(* The invariant of the reference planning and the theorems it gives, for  *)
(* every gait, horizon, solver period and time of a command: the planning  *)
(* never fails, feet keep still while they stand, the horizon is planned,  *)
(* commitments are kept, the past is forgotten and the schedule does not   *)
(* grow.  The last sections show that the robot passes through stance from *)
(* one gait to another, and so do the joints from instant to instant.      *)
(***************************************************************************)
EXTENDS ReferencePlanning, GaitSchedule_proofs, FiniteSetTheorems

---------------------------------------------------------------------------------
(***************************************************************************)
(* The swing planner.                                                      *)
(***************************************************************************)

\* A nonempty set of numbers up to n has a largest element.
LEMMA LargestInSet ==
  ASSUME NEW n \in Nat, NEW S \in SUBSET (0..n), S # {}
  PROVE  \E m \in S : \A k \in S : k <= m
<1>. DEFINE D == {n - k : k \in S}
<1>1. D \in SUBSET Nat /\ D # {}
  <2>1. \A k \in S : n - k \in Nat
    OBVIOUS
  <2>. QED  BY <2>1
<1>2. PICK d \in D : \A k \in D : d <= k
  BY <1>1, SmallestInSet
<1>3. PICK m \in S : d = n - m
  BY <1>2
<1>4. ASSUME NEW k \in S
      PROVE  k <= m
  <2>1. n - k \in D /\ k \in Int /\ m \in Int
    OBVIOUS
  <2>2. d <= n - k
    BY <1>2, <2>1
  <2>. HIDE DEF D
  <2>. QED  BY <1>3, <2>1, <2>2
<1>. QED  BY <1>4

\* A schedule that starts and ends in stance gives every swing a take-off and a
\* landing: checkThatIndicesAreValid throws for none.
LEMMA UpdateSucceeds ==
  ASSUME NEW ms, IsSchedule(ms), Head(ms.modeSequence) = STANCE,
         Last(ms.modeSequence) = STANCE
  PROVE  ~ UpdateFails(ms)
<1>. DEFINE N == NumPhases(ms)
<1>1. N \in Nat \ {0} /\ ms.modeSequence[1] = STANCE /\ ms.modeSequence[N] = STANCE
  <2>1. /\ ms.modeSequence \in Seq(Modes) /\ ms.eventTimes \in Seq(Int)
        /\ Len(ms.modeSequence) = Len(ms.eventTimes) + 1
    BY DEF IsSchedule
  <2>2. N \in Nat \ {0} /\ ms.modeSequence # <<>>
    BY <2>1 DEF NumPhases
  <2>. QED  BY <2>1, <2>2, Ends DEF NumPhases
<1>. SUFFICES ASSUME NEW leg \in Legs, NEW p \in (1..N) \ ContactPhases(ms, leg)
              PROVE  IndicesAreValid(ms, leg, p)
  BY DEF UpdateFails
<1>. DEFINE C == ContactPhases(ms, leg)
<1>2. leg \in modeNumber2StanceLeg[STANCE]
  BY DEF modeNumber2StanceLeg, STANCE, Modes, Legs
<1>3. C \in SUBSET (1..N) /\ 1 \in C /\ N \in C /\ p \notin C /\ p \in 1..N
  BY <1>1, <1>2 DEF ContactPhases
<1>. HIDE DEF N, C
<1>4. 1 < p /\ p < N
  BY <1>1, <1>3
<1>5. StartTimesIndex(ms, leg, p) >= 1
  <2>. DEFINE S == {0} \cup {q \in C : q < p}
  <2>0. 0 \in 0..N /\ \A q \in C : q \in 0..N
    BY <1>1, <1>3
  <2>1. S \in SUBSET (0..N) /\ S # {} /\ 1 \in S
    BY <1>3, <1>4, <2>0
  <2>2. PICK m \in S : \A k \in S : k <= m
    BY <1>1, <2>1, LargestInSet
  <2>3. StartTimesIndex(ms, leg, p) = Max(S)
    BY DEF StartTimesIndex, C
  <2>. HIDE DEF S
  <2>4. \A k \in S : m >= k
    BY <1>1, <2>1, <2>2
  <2>5. Max(S) \in S /\ \A k \in S : Max(S) >= k
    BY <2>2, <2>4, Zenon DEF Max
  <2>. QED  BY <1>1, <2>1, <2>3, <2>5
<1>6. FinalTimesIndex(ms, leg, p) < N
  <2>. DEFINE S == {N} \cup {q - 1 : q \in {c \in C : c > p}}
  <2>1. S \in SUBSET Nat /\ S # {} /\ N - 1 \in S
    BY <1>1, <1>3, <1>4
  <2>2. PICK m \in S : \A k \in S : m <= k
    BY <2>1, SmallestInSet
  <2>3. FinalTimesIndex(ms, leg, p) = Min(S)
    BY DEF FinalTimesIndex, C, N
  <2>. HIDE DEF S
  <2>4. Min(S) \in S /\ \A k \in S : Min(S) <= k
    BY <2>2, Zenon DEF Min
  <2>5. Min(S) \in Nat /\ Min(S) <= N - 1
    BY <2>1, <2>4
  <2>. QED  BY <1>1, <2>3, <2>5
<1>. QED  BY <1>5, <1>6 DEF IndicesAreValid, N

---------------------------------------------------------------------------------
(***************************************************************************)
(* The inductive invariant.  That nothing fails follows only because the   *)
(* schedule never runs out of events and always starts in stance, and that *)
(* in turn needs the schedule to be well formed.                           *)
(***************************************************************************)
Templates == Gaits \cup {defaultTemplate}

IInv == TypeOK /\ NeverFails /\ StandsBeforeFirstEvent

\* The robot stands until the first gait command, as the configured schedule has it.
StandsAtFirst ==
  \A i \in 1..Len(initModeSchedule.modeSequence) : initModeSchedule.modeSequence[i] = STANCE

\* The parts of the assumption.
LEMMA Parameters ==
  /\ \A tpl \in Templates : IsModeSequenceTemplate(tpl)
  /\ Gaits \subseteq Templates
  /\ \A ms \in ExternalSchedules \cup {initModeSchedule} : IsSchedule(ms)
  /\ StandsFirst(initModeSchedule)
  /\ timeHorizon \in Nat /\ StartTimes \subseteq Nat /\ ResetTimes \subseteq Nat
  /\ Periods \subseteq Nat \ {0}
  BY PlanningAssumption DEF Templates

\* The configured schedule with the default template satisfies the invariant.
LEMMA InitIInv == Init => IInv
<1>. SUFFICES ASSUME Init
              PROVE  IInv
  OBVIOUS
<1>1. /\ gaitSchedule = [eventTimes   |-> initModeSchedule.eventTimes,
                         modeSequence |-> initModeSchedule.modeSequence,
                         template     |-> defaultTemplate,
                         failed       |-> FALSE]
      /\ modeSchedule = EmptySchedule
      /\ gaitUpdated = FALSE /\ solved = FALSE /\ failed = FALSE
      /\ initTime = 0
  BY DEF Init
<1>2. /\ IsSchedule(initModeSchedule) /\ initModeSchedule.eventTimes # <<>>
      /\ Head(initModeSchedule.modeSequence) = STANCE
  BY Parameters DEF StandsFirst
<1>3. gaitSchedule \in Schedules(Templates)
  BY <1>1, <1>2 DEF Schedules, IsSchedule, Templates
<1>4. IsSchedule(EmptySchedule)
  <2>1. /\ EmptySchedule.eventTimes = <<>> /\ EmptySchedule.modeSequence = <<FLY>>
    BY DEF EmptySchedule
  <2>2. FLY \in Modes
    BY DEF FLY, Modes
  <2>3. Ordered(<<>>)
    BY DEF Ordered
  <2>. QED  BY <2>1, <2>2, <2>3 DEF IsSchedule
<1>5. initTime \in Nat
  BY <1>1, Parameters
<1>. QED
  BY <1>1, <1>2, <1>3, <1>4, <1>5
  DEF IInv, TypeOK, NeverFails, StandsBeforeFirstEvent, Templates

\* A schedule from another node keeps the invariant.
LEMMA SetModeScheduleIInv ==
  ASSUME IInv, OthersStandFirst, NEW ms \in ExternalSchedules
  PROVE  LET r == SetModeSchedule(gaitSchedule, ms)
         IN  /\ r \in Schedules(Templates) /\ r.eventTimes # <<>>
             /\ Head(r.modeSequence) = STANCE /\ ~ r.failed
<1>. DEFINE r == SetModeSchedule(gaitSchedule, ms)
<1>1. gaitSchedule \in Schedules(Templates) /\ ~ gaitSchedule.failed
  BY DEF IInv, TypeOK, StandsBeforeFirstEvent, Templates
<1>2. /\ ms.eventTimes \in Seq(Int) /\ ms.modeSequence \in Seq(Modes)
      /\ Len(ms.modeSequence) = Len(ms.eventTimes) + 1 /\ Ordered(ms.eventTimes)
      /\ ms.eventTimes # <<>> /\ Head(ms.modeSequence) = STANCE
  BY Parameters DEF IsSchedule, OthersStandFirst, StandsFirst
<1>3. r \in Schedules(Templates)
  BY <1>1, <1>2, ScheduleUpdate DEF SetModeSchedule
<1>4. /\ r.eventTimes = ms.eventTimes /\ r.modeSequence = ms.modeSequence
      /\ r.failed = gaitSchedule.failed
  BY <1>1, ScheduleParts DEF SetModeSchedule
<1>. QED  BY <1>1, <1>2, <1>3, <1>4

\* A solver run at any time keeps the invariant.
LEMMA SolverRunIInv ==
  ASSUME IInv, NEW t \in Nat, SolverRun(t)
  PROVE  IInv'
<1>1. /\ gaitSchedule \in Schedules(Templates) /\ gaitSchedule.eventTimes # <<>>
      /\ Head(gaitSchedule.modeSequence) = STANCE /\ ~ gaitSchedule.failed /\ ~ failed
      /\ gaitUpdated => receivedGait \in Gaits
  BY DEF IInv, TypeOK, NeverFails, StandsBeforeFirstEvent, Templates
<1>. DEFINE fetched == FetchModeSchedule(gaitSchedule, t)
            ms      == [eventTimes   |-> fetched.eventTimes,
                        modeSequence |-> fetched.modeSequence]
            next    == ApplyGaitCommand(fetched, t)
<1>2. /\ failed' = (fetched.failed \/ UpdateFails(ms) \/ next.failed)
      /\ modeSchedule' = ms /\ gaitSchedule' = next /\ gaitUpdated' = FALSE
      /\ initTime' = t /\ solved' = TRUE
  BY DEF SolverRun
<1>3. /\ fetched \in Schedules(Templates) /\ fetched.eventTimes # <<>> /\ ~ fetched.failed
      /\ Head(fetched.modeSequence) = STANCE /\ Last(fetched.modeSequence) = STANCE
  <2>1. gaitSchedule.template \in Templates /\ IsModeSequenceTemplate(gaitSchedule.template)
    BY <1>1, ScheduleParts, Parameters
  <2>2. t - timeHorizon \in Int /\ t + timeHorizon + timeHorizon \in Int
    BY Parameters
  <2>. QED  BY <1>1, <2>1, <2>2, GetModeScheduleProperties DEF FetchModeSchedule
<1>. HIDE DEF fetched
<1>4. IsSchedule(ms) /\ ~ UpdateFails(ms)
  <2>1. ms.eventTimes = fetched.eventTimes /\ ms.modeSequence = fetched.modeSequence
    OBVIOUS
  <2>2. IsSchedule(fetched)
    BY <1>3 DEF Schedules
  <2>. HIDE DEF ms
  <2>3. IsSchedule(ms)
    BY <2>1, <2>2 DEF IsSchedule
  <2>. QED  BY <1>3, <2>1, <2>3, UpdateSucceeds
<1>. HIDE DEF ms
<1>5. /\ next \in Schedules(Templates) /\ next.eventTimes # <<>> /\ ~ next.failed
      /\ Head(next.modeSequence) = STANCE
  <2>1. CASE gaitUpdated
    <3>1. receivedGait \in Templates /\ IsModeSequenceTemplate(receivedGait)
      BY <1>1, <2>1, Parameters
    <3>2. InsertStart(t) \in Int /\ InsertFinal(t) \in Int
      BY Parameters DEF InsertStart, InsertFinal
    <3>. QED
      BY <1>3, <2>1, <3>1, <3>2, InsertModeSequenceTemplateProperties DEF ApplyGaitCommand
  <2>2. CASE ~ gaitUpdated
    BY <1>3, <2>2 DEF ApplyGaitCommand
  <2>. QED  BY <2>1, <2>2
<1>. HIDE DEF next
<1>6. ~ failed'
  BY <1>2, <1>3, <1>4, <1>5
<1>. QED
  BY <1>2, <1>4, <1>5, <1>6 DEF IInv, TypeOK, NeverFails, StandsBeforeFirstEvent, Templates

\* The solver runs at natural times only.
LEMMA RunsAtNatural ==
  ASSUME IInv, Advance \/ Restart
  PROVE  \E t \in Nat : SolverRun(t)
<1>1. CASE Advance
  <2>1. initTime \in Nat
    BY DEF IInv, TypeOK
  <2>2. PICK t \in IF solved THEN {initTime + d : d \in Periods} ELSE StartTimes : SolverRun(t)
    BY <1>1 DEF Advance
  <2>3. t \in Nat
    <3>1. CASE solved
      <4>1. PICK d \in Periods : t = initTime + d
        BY <2>2, <3>1
      <4>2. d \in Nat
        BY Parameters
      <4>. QED  BY <2>1, <4>1, <4>2
    <3>2. CASE ~ solved
      BY <2>2, <3>2, Parameters
    <3>. QED  BY <3>1, <3>2
  <2>. QED  BY <2>2, <2>3
<1>2. CASE Restart
  BY <1>2, Parameters DEF Restart
<1>. QED  BY <1>1, <1>2

\* Every step keeps the invariant.
LEMMA NextIInv ==
  ASSUME OthersStandFirst
  PROVE  IInv /\ [Next]_vars => IInv'
<1>. SUFFICES ASSUME IInv, [Next]_vars
              PROVE  IInv'
  OBVIOUS
<1>1. ASSUME NEW tpl \in Gaits, mpcModeSequenceCallback(tpl)
      PROVE  IInv'
  BY <1>1 DEF IInv, TypeOK, NeverFails, StandsBeforeFirstEvent, mpcModeSequenceCallback
<1>2. ASSUME NEW ms \in ExternalSchedules, modeScheduleCallback(ms)
      PROVE  IInv'
  BY <1>2, SetModeScheduleIInv
  DEF IInv, TypeOK, NeverFails, StandsBeforeFirstEvent, modeScheduleCallback, Templates
<1>3. CASE Advance \/ Restart
  BY <1>3, RunsAtNatural, SolverRunIInv
<1>5. CASE UNCHANGED vars
  BY <1>5 DEF IInv, TypeOK, NeverFails, StandsBeforeFirstEvent, vars
<1>. QED  BY <1>1, <1>2, <1>3, <1>5 DEF Next

---------------------------------------------------------------------------------
\* In every behaviour the gait schedule and the mode schedule handed to the solver
\* stay well formed: events in strict order, one mode more than events, so that
\* insertModeSequenceTemplate and tileModeSequenceTemplate index them in range.  Here
\* and below other nodes publish schedules with an event, and with stance before it.
THEOREM TypeCorrect ==
  ASSUME OthersStandFirst
  PROVE  Spec => []TypeOK
<1>1. IInv => TypeOK
  BY DEF IInv
<1>. QED  BY InitIInv, NextIInv, <1>1, PTL DEF Spec

\* No sequence of gait commands, such published schedules, solver runs and clock resets
\* makes GaitSchedule or SwingTrajectoryPlanner throw, for any gaits and horizon.
THEOREM PlanningNeverFails ==
  ASSUME OthersStandFirst
  PROVE  Spec => []NeverFails
<1>1. IInv => NeverFails
  BY DEF IInv
<1>. QED  BY InitIInv, NextIInv, <1>1, PTL DEF Spec

\* getModeSchedule always finds an event to extend from and a stance to start with.
THEOREM AlwaysStandsBeforeFirstEvent ==
  ASSUME OthersStandFirst
  PROVE  Spec => []StandsBeforeFirstEvent
<1>1. IInv => StandsBeforeFirstEvent
  BY DEF IInv
<1>. QED  BY InitIInv, NextIInv, <1>1, PTL DEF Spec

---------------------------------------------------------------------------------
(***************************************************************************)
(* The feet.                                                               *)
(***************************************************************************)

\* The swing that covers a phase starts at an event before it and ends at the event
\* after it or later.
LEMMA SwingBracketsPhase ==
  ASSUME NEW ms, IsSchedule(ms), NEW leg \in Legs, NEW p \in 1..NumPhases(ms)
  PROVE  /\ StartTimesIndex(ms, leg, p) \in 0..(p - 1)
         /\ FinalTimesIndex(ms, leg, p) \in p..NumPhases(ms)
<1>. DEFINE N == NumPhases(ms)
            C == ContactPhases(ms, leg)
<1>1. N \in Nat \ {0}
  BY DEF IsSchedule, NumPhases
<1>2. C \in SUBSET (1..N)
  BY DEF ContactPhases
<1>. HIDE DEF N, C
<1>3. StartTimesIndex(ms, leg, p) \in 0..(p - 1)
  <2>. DEFINE S == {0} \cup {q \in C : q < p}
  <2>0. /\ p \in Nat /\ p - 1 \in Nat /\ 0 \in 0..(p - 1)
        /\ \A q \in C : q < p => q \in 0..(p - 1)
    BY <1>1, <1>2 DEF N
  <2>1. S \in SUBSET (0..(p - 1)) /\ S # {}
    BY <2>0
  <2>2. PICK m \in S : \A k \in S : k <= m
    BY <2>0, <2>1, LargestInSet
  <2>3. StartTimesIndex(ms, leg, p) = Max(S)
    BY DEF StartTimesIndex, C
  <2>. HIDE DEF S
  <2>4. \A k \in S : m >= k
    BY <2>0, <2>1, <2>2
  <2>5. Max(S) \in S
    BY <2>2, <2>4, Zenon DEF Max
  <2>. QED  BY <2>1, <2>3, <2>5
<1>4. FinalTimesIndex(ms, leg, p) \in p..N
  <2>. DEFINE S == {N} \cup {q - 1 : q \in {c \in C : c > p}}
  <2>0. /\ p \in Nat /\ N \in p..N /\ \A k \in p..N : k \in Nat
        /\ \A c \in C : c > p => c - 1 \in p..N
    BY <1>1, <1>2 DEF N
  <2>1. S \in SUBSET (p..N) /\ S # {}
    BY <2>0
  <2>2. PICK m \in S : \A k \in S : m <= k
    <3>1. S \in SUBSET Nat
      BY <2>0, <2>1
    <3>. QED  BY <2>1, <3>1, SmallestInSet
  <2>3. FinalTimesIndex(ms, leg, p) = Min(S)
    BY DEF FinalTimesIndex, C, N
  <2>. HIDE DEF S
  <2>4. Min(S) \in S
    BY <2>2, Zenon DEF Min
  <2>. QED  BY <2>1, <2>3, <2>4
<1>. QED  BY <1>3, <1>4 DEF N

\* A foot looked up at a time is in the air if its leg is not on the ground in the
\* mode of that time, and then its swing brackets the time.
LEMMA FootBracketsTime ==
  ASSUME NEW ms, IsSchedule(ms), ~ UpdateFails(ms), NEW leg \in Legs, NEW t \in Int
  PROVE  LET foot == FootAt(Update(ms), leg, t)
         IN  /\ foot.swing <=> leg \notin modeNumber2StanceLeg[ModeAtTime(ms, t)]
             /\ foot.swing => foot.liftOff < t /\ t <= foot.touchDown
<1>. DEFINE ev   == ms.eventTimes
            L    == LowerBound(ev, t)
            p    == L + 1
            N    == NumPhases(ms)
            foot == FootAt(Update(ms), leg, t)
<1>1. /\ ev \in Seq(Int) /\ Len(ev) \in Nat /\ N = Len(ev) + 1 /\ Ordered(ev)
      /\ \A i \in 1..Len(ev) : ev[i] \in Int
  BY DEF IsSchedule, NumPhases
<1>2. /\ L \in 0..Len(ev)
      /\ \A j \in 1..L : ev[j] < t
      /\ L < Len(ev) => ev[L + 1] >= t
  BY <1>1, LowerBoundProperties
<1>. HIDE DEF L, ev
<1>3. p \in 1..N /\ p \in 1..NumPhases(ms)
  BY <1>1, <1>2
<1>4. foot = Trajectory(ms, leg, p)
  BY <1>3 DEF FootAt, Update, L, ev
<1>5. p \in ContactPhases(ms, leg) <=> leg \in modeNumber2StanceLeg[ModeAtTime(ms, t)]
  BY <1>3 DEF ContactPhases, ModeAtTime, L, ev
<1>. HIDE DEF foot, N
<1>6. CASE p \in ContactPhases(ms, leg)
  <2>1. ~ foot.swing
    BY <1>4, <1>6 DEF Trajectory, StanceFoot
  <2>. QED  BY <1>5, <1>6, <2>1 DEF foot
<1>7. CASE p \notin ContactPhases(ms, leg)
  <2>. DEFINE S == StartTimesIndex(ms, leg, p)
              F == FinalTimesIndex(ms, leg, p)
  <2>1. foot.swing /\ foot.liftOff = ev[S] /\ foot.touchDown = ev[F]
    BY <1>4, <1>7 DEF Trajectory, ev
  <2>2. S >= 1 /\ F < N
    BY <1>3, <1>7 DEF UpdateFails, IndicesAreValid, N
  <2>3. S \in 0..(p - 1) /\ F \in p..N
    BY <1>3, SwingBracketsPhase DEF N
  <2>. HIDE DEF S, F
  <2>4. S \in 1..L
    BY <1>2, <2>2, <2>3
  <2>5. p \in 1..Len(ev) /\ F \in p..Len(ev) /\ F \in 1..Len(ev) /\ L < Len(ev)
    BY <1>1, <1>2, <1>3, <2>2, <2>3
  <2>6. ev[S] < t
    BY <1>2, <2>4
  <2>7. t <= ev[F]
    <3>1. ev[p] <= ev[F]
      BY <1>1, <2>5, LaterEvents
    <3>2. ev[p] >= t
      BY <1>2, <2>5
    <3>3. ev[p] \in Int /\ ev[F] \in Int
      BY <1>1, <2>5
    <3>. QED  BY <3>1, <3>2, <3>3
  <2>. QED  BY <1>5, <1>7, <2>1, <2>6, <2>7 DEF foot
<1>. QED  BY <1>6, <1>7

---------------------------------------------------------------------------------
(***************************************************************************)
(* The planned horizon.                                                    *)
(***************************************************************************)

\* What every solver run leaves behind: feet of the mode schedule it was given, and a
\* mode schedule with events up to the end of the solved interval.
HInv ==
  solved => /\ swings = Update(modeSchedule) /\ ~ UpdateFails(modeSchedule)
            /\ Last(modeSchedule.eventTimes) >= finalTime

\* The schedule fetched for a solver run.
LEMMA FetchedSchedule ==
  ASSUME IInv, NEW t \in Nat
  PROVE  LET fetched == FetchModeSchedule(gaitSchedule, t)
         IN  /\ fetched \in Schedules(Templates) /\ ~ fetched.failed
             /\ fetched.eventTimes # <<>>
             /\ Last(fetched.eventTimes) \in Int
             /\ Last(fetched.eventTimes) >= t + timeHorizon
             /\ \A u \in Int : t - timeHorizon <= u /\ u <= Last(gaitSchedule.eventTimes) =>
                  ModeAtTime(fetched, u) = ModeAtTime(gaitSchedule, u)
<1>. DEFINE fetched == FetchModeSchedule(gaitSchedule, t)
            lower   == t - timeHorizon
            upper   == t + timeHorizon + timeHorizon
<1>1. /\ gaitSchedule \in Schedules(Templates) /\ gaitSchedule.eventTimes # <<>>
      /\ Head(gaitSchedule.modeSequence) = STANCE /\ ~ gaitSchedule.failed
  BY DEF IInv, TypeOK, StandsBeforeFirstEvent, Templates
<1>2. IsModeSequenceTemplate(gaitSchedule.template)
  BY <1>1, ScheduleParts, Parameters
<1>3. lower \in Int /\ upper \in Int /\ timeHorizon \in Nat
  BY Parameters
<1>4. fetched = GetModeSchedule(gaitSchedule, lower, upper)
  BY DEF FetchModeSchedule
<1>. HIDE DEF fetched, lower, upper
<1>5. /\ fetched \in Schedules(Templates) /\ fetched.eventTimes # <<>> /\ ~ fetched.failed
  <2>. DEFINE r == GetModeSchedule(gaitSchedule, lower, upper)
  <2>1. /\ r \in Schedules(Templates) /\ r.eventTimes # <<>>
        /\ r.failed = gaitSchedule.failed
    BY <1>1, <1>2, <1>3, GetModeScheduleProperties
  <2>. QED  BY <1>1, <1>4, <2>1
<1>6. /\ Last(fetched.eventTimes) \in Int /\ Last(fetched.eventTimes) >= upper
      /\ \A u \in Int : lower <= u /\ u <= Last(gaitSchedule.eventTimes) =>
           ModeAtTime(fetched, u) = ModeAtTime(gaitSchedule, u)
  BY <1>1, <1>2, <1>3, <1>4, GetModeScheduleModes
<1>7. Last(fetched.eventTimes) >= t + timeHorizon
  BY <1>3, <1>6 DEF upper
<1>. QED  BY <1>5, <1>6, <1>7 DEF fetched, lower

\* Every step keeps the invariant of the planned horizon.
LEMMA NextHInv ==
  ASSUME OthersStandFirst
  PROVE  IInv /\ IInv' /\ HInv /\ [Next]_vars => HInv'
<1>. SUFFICES ASSUME IInv, IInv', HInv, [Next]_vars
              PROVE  HInv'
  OBVIOUS
<1>1. ASSUME NEW tpl \in Gaits, mpcModeSequenceCallback(tpl)
      PROVE  HInv'
  BY <1>1 DEF HInv, finalTime, mpcModeSequenceCallback
<1>2. ASSUME NEW ms \in ExternalSchedules, modeScheduleCallback(ms)
      PROVE  HInv'
  BY <1>2 DEF HInv, finalTime, modeScheduleCallback
<1>3. ASSUME NEW t \in Nat, SolverRun(t)
      PROVE  HInv'
  <2>. DEFINE fetched == FetchModeSchedule(gaitSchedule, t)
              ms      == [eventTimes   |-> fetched.eventTimes,
                          modeSequence |-> fetched.modeSequence]
  <2>1. /\ UpdateFails(ms) => failed'
        /\ modeSchedule' = ms /\ initTime' = t
        /\ swings' = IF failed' THEN swings ELSE Update(ms)
    BY <1>3 DEF SolverRun
  <2>2. ~ failed'
    BY DEF IInv, NeverFails
  <2>3. Last(fetched.eventTimes) >= t + timeHorizon
    BY FetchedSchedule
  <2>. HIDE DEF fetched
  <2>4. ms.eventTimes = fetched.eventTimes
    OBVIOUS
  <2>. HIDE DEF ms
  <2>. QED  BY <2>1, <2>2, <2>3, <2>4 DEF HInv, finalTime
<1>4. CASE Advance \/ Restart
  BY <1>3, <1>4, RunsAtNatural
<1>5. CASE UNCHANGED vars
  BY <1>5 DEF HInv, finalTime, vars
<1>. QED  BY <1>1, <1>2, <1>4, <1>5 DEF Next

\* Whatever the solver looks up in its horizon is planned, and every foot in the air
\* there has taken off and will land: for every gait, period and horizon.
THEOREM HorizonAlwaysPlanned ==
  ASSUME OthersStandFirst
  PROVE  Spec => []HorizonIsPlanned
<1>1. Init => HInv
  BY DEF Init, HInv
<1>2. IInv /\ HInv => HorizonIsPlanned
  <2>. SUFFICES ASSUME IInv, HInv, solved
                PROVE  HorizonIsPlanned
    BY DEF HorizonIsPlanned
  <2>1. IsSchedule(modeSchedule) /\ initTime \in Nat
    BY DEF IInv, TypeOK
  <2>2. /\ swings = Update(modeSchedule) /\ ~ UpdateFails(modeSchedule)
        /\ Last(modeSchedule.eventTimes) >= finalTime
    BY DEF HInv
  <2>3. ASSUME NEW t \in (initTime + 1)..finalTime, NEW leg \in Legs
        PROVE  LET foot == FootAt(swings, leg, t)
               IN  /\ foot.swing <=> leg \notin modeNumber2StanceLeg[ModeAtTime(modeSchedule, t)]
                   /\ foot.swing => foot.liftOff < t /\ t <= foot.touchDown
    <3>1. t \in Int
      BY <2>1
    <3>. QED  BY <2>1, <2>2, <3>1, FootBracketsTime
  <2>. QED  BY <2>2, <2>3 DEF HorizonIsPlanned
<1>. QED  BY InitIInv, NextIInv, NextHInv, <1>1, <1>2, PTL DEF Spec

---------------------------------------------------------------------------------
(***************************************************************************)
(* The committed horizon.                                                  *)
(***************************************************************************)

\* The gait schedule covers the solved interval and, up to its end, agrees with the
\* mode schedule the solver was given.
CInv ==
  solved => /\ Last(gaitSchedule.eventTimes) \in Int
            /\ Last(gaitSchedule.eventTimes) >= finalTime
            /\ \A t \in Int : t <= finalTime =>
                 ModeAtTime(gaitSchedule, t) = ModeAtTime(modeSchedule, t)

\* A solver run plans again what was planned, and leaves the invariant behind.
LEMMA SolverRunCommits ==
  ASSUME IInv, CInv, NEW t \in Nat, SolverRun(t)
  PROVE  /\ CInv'
         /\ solved => \A u \in (initTime' + 1)..finalTime :
                        ModeAtTime(modeSchedule', u) = ModeAtTime(modeSchedule, u)
<1>. DEFINE fetched == FetchModeSchedule(gaitSchedule, t)
            ms      == [eventTimes   |-> fetched.eventTimes,
                        modeSequence |-> fetched.modeSequence]
            next    == ApplyGaitCommand(fetched, t)
<1>1. /\ modeSchedule' = ms /\ gaitSchedule' = next /\ initTime' = t
  BY DEF SolverRun
<1>2. /\ fetched \in Schedules(Templates)
      /\ Last(fetched.eventTimes) \in Int
      /\ Last(fetched.eventTimes) >= t + timeHorizon
      /\ \A u \in Int : t - timeHorizon <= u /\ u <= Last(gaitSchedule.eventTimes) =>
           ModeAtTime(fetched, u) = ModeAtTime(gaitSchedule, u)
  BY FetchedSchedule
<1>. HIDE DEF fetched
<1>3. \A u \in Int : ModeAtTime(ms, u) = ModeAtTime(fetched, u)
  BY DEF ModeAtTime
<1>. HIDE DEF ms
<1>4. /\ Last(next.eventTimes) \in Int /\ Last(next.eventTimes) >= t + timeHorizon
      /\ \A u \in Int : u <= t + timeHorizon => ModeAtTime(next, u) = ModeAtTime(fetched, u)
  <2>1. CASE gaitUpdated
    <3>1. receivedGait \in Templates /\ IsModeSequenceTemplate(receivedGait)
      BY <2>1, Parameters DEF IInv, TypeOK, Templates
    <3>2. InsertStart(t) = t + timeHorizon /\ InsertStart(t) \in Int /\ InsertFinal(t) \in Int
      BY Parameters DEF InsertStart, InsertFinal
    <3>3. next = InsertModeSequenceTemplate(fetched, receivedGait, InsertStart(t), InsertFinal(t))
      BY <2>1 DEF ApplyGaitCommand
    <3>. HIDE DEF next
    <3>. QED  BY <1>2, <3>1, <3>2, <3>3, InsertModes
  <2>2. CASE ~ gaitUpdated
    <3>1. next = fetched
      BY <2>2 DEF ApplyGaitCommand
    <3>. QED  BY <1>2, <3>1
  <2>. QED  BY <2>1, <2>2
<1>. HIDE DEF next
<1>5. CInv'
  <2>1. finalTime' = t + timeHorizon
    BY <1>1 DEF finalTime
  <2>. QED  BY <1>1, <1>3, <1>4, <2>1 DEF CInv
<1>6. ASSUME solved, NEW u \in (initTime' + 1)..finalTime
      PROVE  ModeAtTime(modeSchedule', u) = ModeAtTime(modeSchedule, u)
  <2>1. u \in Int /\ u <= finalTime /\ t - timeHorizon <= u
        /\ Last(gaitSchedule.eventTimes) \in Int /\ Last(gaitSchedule.eventTimes) >= finalTime
        /\ initTime \in Nat /\ finalTime \in Int
    BY <1>1, <1>6, Parameters DEF CInv, IInv, TypeOK, finalTime
  <2>2. u <= Last(gaitSchedule.eventTimes)
    BY <2>1
  <2>3. ModeAtTime(gaitSchedule, u) = ModeAtTime(modeSchedule, u)
    BY <1>6, <2>1 DEF CInv
  <2>. QED  BY <1>1, <1>2, <1>3, <2>1, <2>2, <2>3
<1>. QED  BY <1>5, <1>6

\* Without other nodes' schedules, no step changes what is planned.
LEMMA NextCommits ==
  ASSUME ExternalSchedules = {}
  PROVE  IInv /\ CInv /\ [Next]_vars =>
           /\ CInv'
           /\ [solved => \A u \in (initTime' + 1)..finalTime :
                           ModeAtTime(modeSchedule', u) = ModeAtTime(modeSchedule, u)]_vars
<1>. DEFINE Kept == solved => \A u \in (initTime' + 1)..finalTime :
                      ModeAtTime(modeSchedule', u) = ModeAtTime(modeSchedule, u)
<1>. SUFFICES ASSUME IInv, CInv, [Next]_vars
              PROVE  CInv' /\ [Kept]_vars
  OBVIOUS
<1>1. ASSUME NEW tpl \in Gaits, mpcModeSequenceCallback(tpl)
      PROVE  CInv' /\ Kept
  BY <1>1 DEF CInv, finalTime, mpcModeSequenceCallback
<1>2. CASE Advance \/ Restart
  BY <1>2, RunsAtNatural, SolverRunCommits
<1>3. CASE UNCHANGED vars
  BY <1>3 DEF CInv, finalTime, vars
<1>. HIDE DEF Kept
<1>. QED  BY <1>1, <1>2, <1>3 DEF Next

\* What a solver run has optimised over stays planned in the next one, whatever gaits
\* the user commands and whenever the solver runs.  Schedules of other nodes replace
\* the plan at once, so there must be none.
THEOREM CommitmentsAreKept ==
  ASSUME ExternalSchedules = {}
  PROVE  Spec => CommittedHorizon
<1>1. OthersStandFirst
  BY DEF OthersStandFirst
<1>2. Init => CInv
  BY DEF Init, CInv
<1>3. IInv /\ [Next]_vars => IInv'
  BY <1>1, NextIInv
<1>4. IInv /\ CInv /\ [Next]_vars => CInv'
  BY NextCommits
<1>5. IInv /\ CInv /\ [Next]_vars =>
        [solved => \A t \in (initTime' + 1)..finalTime :
                     ModeAtTime(modeSchedule', t) = ModeAtTime(modeSchedule, t)]_vars
  BY NextCommits
<1>. QED  BY InitIInv, <1>2, <1>3, <1>4, <1>5, PTL DEF Spec, CommittedHorizon

---------------------------------------------------------------------------------
(***************************************************************************)
(* The past.                                                               *)
(***************************************************************************)

\* A solver run after another forgets the past, if the horizon of the one reaches the
\* interval the other fetches.
LEMMA SolverRunForgets ==
  ASSUME IInv, CInv, solved, NEW t \in Nat, t <= initTime + 2 * timeHorizon, SolverRun(t)
  PROVE  OthersFrom(gaitSchedule'.eventTimes, initTime' - timeHorizon)
<1>. DEFINE fetched == FetchModeSchedule(gaitSchedule, t)
            next    == ApplyGaitCommand(fetched, t)
            lower   == t - timeHorizon
            upper   == t + timeHorizon + timeHorizon
<1>1. gaitSchedule' = next /\ initTime' = t
  BY DEF SolverRun
<1>2. /\ gaitSchedule \in Schedules(Templates) /\ gaitSchedule.eventTimes # <<>>
      /\ Head(gaitSchedule.modeSequence) = STANCE
  BY DEF IInv, TypeOK, StandsBeforeFirstEvent, Templates
<1>3. IsModeSequenceTemplate(gaitSchedule.template)
  BY <1>2, ScheduleParts, Parameters
<1>4. lower \in Int /\ upper \in Int /\ Last(gaitSchedule.eventTimes) >= lower
  BY Parameters DEF CInv, IInv, TypeOK, finalTime
<1>5. fetched \in Schedules(Templates)
  BY FetchedSchedule
<1>6. OthersFrom(fetched.eventTimes, lower)
  <2>1. fetched = GetModeSchedule(gaitSchedule, lower, upper)
    BY DEF FetchModeSchedule
  <2>. HIDE DEF fetched, lower, upper
  <2>. QED  BY <1>2, <1>3, <1>4, <2>1, GetModeScheduleForgets
<1>. HIDE DEF fetched
<1>7. OthersFrom(next.eventTimes, lower)
  <2>1. CASE gaitUpdated
    <3>1. receivedGait \in Templates /\ IsModeSequenceTemplate(receivedGait)
      BY <2>1, Parameters DEF IInv, TypeOK, Templates
    <3>2. /\ InsertStart(t) \in Int /\ InsertFinal(t) \in Int /\ lower <= InsertStart(t)
      BY Parameters DEF InsertStart, InsertFinal
    <3>3. next = InsertModeSequenceTemplate(fetched, receivedGait, InsertStart(t), InsertFinal(t))
      BY <2>1 DEF ApplyGaitCommand
    <3>. HIDE DEF next, lower
    <3>. QED  BY <1>4, <1>5, <1>6, <3>1, <3>2, <3>3, InsertForgets
  <2>2. CASE ~ gaitUpdated
    BY <1>6, <2>2 DEF ApplyGaitCommand
  <2>. QED  BY <2>1, <2>2
<1>. QED  BY <1>1, <1>7

\* However long the robot runs, the schedule holds one event at most from before the
\* interval that was fetched last: its length is bounded by that interval.
THEOREM ScheduleDoesNotGrow ==
  ASSUME ExternalSchedules = {}, \A d \in Periods : d <= 2 * timeHorizon
  PROVE  Spec => PastIsForgotten
<1>. DEFINE Past(s, lower) == {i \in DOMAIN s.eventTimes : s.eventTimes[i] < lower}
            Forgotten == solved /\ initTime' # initTime =>
                           Cardinality(Past(gaitSchedule', initTime' - timeHorizon)) <= 1
<1>1. OthersStandFirst
  BY DEF OthersStandFirst
<1>2. Init => CInv
  BY DEF Init, CInv
<1>3. IInv /\ [Next]_vars => IInv'
  BY <1>1, NextIInv
<1>4. IInv /\ CInv /\ [Next]_vars => CInv'
  BY NextCommits
<1>5. ASSUME NEW s \in Schedules(Templates), NEW lower \in Int, OthersFrom(s.eventTimes, lower)
      PROVE  Cardinality(Past(s, lower)) <= 1
  <2>1. s.eventTimes \in Seq(Int) /\ DOMAIN s.eventTimes = 1..Len(s.eventTimes)
    BY ScheduleParts
  <2>2. Past(s, lower) \subseteq {1}
    <3>. SUFFICES ASSUME NEW i \in 1..Len(s.eventTimes), s.eventTimes[i] < lower
                  PROVE  i = 1
      BY <2>1
    <3>1. s.eventTimes[i] \in Int /\ Len(s.eventTimes) \in Nat
      BY <2>1
    <3>2. i \notin 2..Len(s.eventTimes)
      BY <1>5, <3>1 DEF OthersFrom
    <3>. QED  BY <3>1, <3>2
  <2>. HIDE DEF Past
  <2>3. Past(s, lower) = {} \/ Past(s, lower) = {1}
    BY <2>2
  <2>4. Cardinality({}) = 0 /\ Cardinality({1}) = 1
    BY FS_EmptySet, FS_Singleton
  <2>5. Cardinality(Past(s, lower)) = 0 \/ Cardinality(Past(s, lower)) = 1
    BY <2>3, <2>4
  <2>. QED  BY <2>5
<1>6. IInv /\ IInv' /\ CInv /\ [Next]_vars => [Forgotten]_vars
  <2>. SUFFICES ASSUME IInv, IInv', CInv, Next, solved, initTime' # initTime
                PROVE  Cardinality(Past(gaitSchedule', initTime' - timeHorizon)) <= 1
    OBVIOUS
  <2>1. PICK t \in Nat : SolverRun(t) /\ t <= initTime + 2 * timeHorizon
    <3>0. initTime \in Nat /\ timeHorizon \in Nat
      BY Parameters DEF IInv, TypeOK
    <3>1. CASE Advance
      <4>1. PICK d \in Periods : SolverRun(initTime + d)
        BY <3>1 DEF Advance
      <4>2. d \in Nat /\ d <= 2 * timeHorizon
        BY Parameters
      <4>. QED  BY <3>0, <4>1, <4>2
    <3>2. CASE Restart
      <4>1. PICK t \in ResetTimes : t <= initTime /\ SolverRun(t)
        BY <3>2 DEF Restart
      <4>2. t \in Nat
        BY Parameters
      <4>. QED  BY <3>0, <4>1, <4>2
    <3>3. CASE \E tpl \in Gaits : mpcModeSequenceCallback(tpl)
      BY <3>3 DEF mpcModeSequenceCallback
    <3>. QED  BY <3>1, <3>2, <3>3 DEF Next
  <2>2. OthersFrom(gaitSchedule'.eventTimes, initTime' - timeHorizon)
    BY <2>1, SolverRunForgets
  <2>3. gaitSchedule' \in Schedules(Templates) /\ initTime' - timeHorizon \in Int
    BY Parameters DEF IInv, TypeOK, Templates
  <2>. HIDE DEF Past
  <2>. QED  BY <1>5, <2>2, <2>3
<1>. QED  BY InitIInv, <1>2, <1>3, <1>4, <1>6, PTL DEF Spec, PastIsForgotten

---------------------------------------------------------------------------------
(***************************************************************************)
(* Modes in a row.                                                         *)
(***************************************************************************)

\* Remainders: of a remainder, of the next number, of the last number of a cycle.
LEMMA RemainderSucc ==
  ASSUME NEW n \in Nat \ {0}, NEW j \in Nat
  PROVE  j % n \in 0..(n - 1) /\ (j % n) % n = j % n /\ (j + 1) % n = ((j % n) + 1) % n
<1>1. j % n \in 0..(n - 1)
  BY DivMod
<1>2. \A r \in 0..(n - 1) : r % n = r
  OBVIOUS
<1>3. \/ j % n < n - 1 /\ (j + 1) % n = (j % n) + 1
      \/ j % n = n - 1 /\ (j + 1) % n = 0
  BY DivModSucc
<1>4. n % n = 0
  OBVIOUS
<1>5. CASE j % n < n - 1
  <2>1. (j % n) + 1 \in 0..(n - 1)
    BY <1>1, <1>5
  <2>2. (j + 1) % n = (j % n) + 1
    BY <1>1, <1>3, <1>5
  <2>. QED  BY <1>1, <1>2, <2>1, <2>2
<1>6. CASE j % n = n - 1
  <2>1. (j % n) + 1 = n /\ (j + 1) % n = 0
    BY <1>3, <1>6
  <2>. QED  BY <1>1, <1>2, <1>4, <2>1
<1>. QED  BY <1>1, <1>5, <1>6

LEMMA WholeCycle ==
  ASSUME NEW n \in Nat \ {0}
  PROVE  n % n = 0
  OBVIOUS

LEMMA LastOfCycle ==
  ASSUME NEW n \in Nat \ {0}, NEW q \in Nat \ {0}
  PROVE  q * n - 1 \in Nat /\ (q * n - 1) % n = n - 1 /\ (n - 1) % n = n - 1 /\ n - 1 \in Nat
<1>. DEFINE k == q * n - 1
            d == k \div n
            m == k % n
<1>1. q * n = (q - 1) * n + n /\ (q - 1) * n \in Nat
  OBVIOUS
<1>2. k \in Nat
  BY <1>1
<1>3. d \in Nat /\ m \in 0..(n - 1) /\ k = n * d + m
  BY <1>2, DivMod
<1>4. m = n - 1
  BY <1>1, <1>3
<1>5. (n - 1) % n = n - 1
  OBVIOUS
<1>. QED  BY <1>2, <1>4, <1>5

\* Two modes that may follow each other.
MayFollow(m1, m2) == m1 = STANCE \/ m2 = STANCE \/ Follow(m1, m2)

\* A sequence of modes without an abrupt switch.
Linked(md) == \A i \in 1..(Len(md) - 1) : MayFollow(md[i], md[i + 1])

\* The mode after which tpl can start over.
EndsCycle(m, tpl) == m = STANCE \/ m = TileMode(tpl, Len(tpl.modeSequence) - 1)

\* Consecutive modes of the repetition of a template follow each other, the last of a
\* cycle is followed by the first of the next, and cycles end with the last mode.
LEMMA TileModesFollow ==
  ASSUME NEW tpl \in Templates
  PROVE  LET n == Len(tpl.modeSequence)
         IN  /\ \A j \in Nat : Follow(TileMode(tpl, j), TileMode(tpl, j + 1))
             /\ \A m : EndsCycle(m, tpl) => MayFollow(m, TileMode(tpl, 0))
             /\ \A q \in Nat \ {0} : TileMode(tpl, q * n - 1) = TileMode(tpl, n - 1)
<1>. DEFINE n == Len(tpl.modeSequence)
<1>1. n \in Nat \ {0}
  BY Parameters, TemplateParts
<1>2. \A j \in 0..(n - 1) : Follow(TileMode(tpl, j), TileMode(tpl, j + 1))
  BY DEF Follow, Templates
<1>3. \A j \in Nat : TileMode(tpl, j) = tpl.modeSequence[(j % n) + 1]
  BY DEF TileMode
<1>. HIDE DEF n
<1>4. ASSUME NEW j \in Nat
      PROVE  Follow(TileMode(tpl, j), TileMode(tpl, j + 1))
  <2>1. j % n \in 0..(n - 1) /\ (j % n) % n = j % n /\ (j + 1) % n = ((j % n) + 1) % n
    BY <1>1, RemainderSucc
  <2>2. j % n \in Nat /\ (j % n) + 1 \in Nat /\ j + 1 \in Nat
    BY <1>1, <2>1
  <2>3. TileMode(tpl, j % n) = TileMode(tpl, j) /\ TileMode(tpl, (j % n) + 1) = TileMode(tpl, j + 1)
    BY <1>3, <2>1, <2>2
  <2>. QED  BY <1>2, <2>1, <2>3
<1>5. ASSUME NEW m, EndsCycle(m, tpl)
      PROVE  MayFollow(m, TileMode(tpl, 0))
  <2>1. CASE m = STANCE
    BY <2>1 DEF MayFollow
  <2>2. CASE m = TileMode(tpl, n - 1)
    <3>1. n - 1 \in 0..(n - 1) /\ (n - 1) + 1 = n /\ n \in Nat /\ 0 \in Nat
      BY <1>1
    <3>2. n % n = 0 /\ 0 % n = 0
      BY <1>1, DivModZero, WholeCycle
    <3>3. TileMode(tpl, n) = TileMode(tpl, 0)
      BY <1>3, <3>1, <3>2
    <3>4. Follow(TileMode(tpl, n - 1), TileMode(tpl, n))
      BY <1>2, <3>1
    <3>. QED  BY <2>2, <3>3, <3>4 DEF MayFollow
  <2>. QED  BY <1>5, <2>1, <2>2 DEF EndsCycle, n
<1>6. ASSUME NEW q \in Nat \ {0}
      PROVE  TileMode(tpl, q * n - 1) = TileMode(tpl, n - 1)
  <2>1. q * n - 1 \in Nat /\ (q * n - 1) % n = n - 1 /\ (n - 1) % n = n - 1 /\ n - 1 \in Nat
    BY <1>1, LastOfCycle
  <2>. QED  BY <1>3, <2>1
<1>. QED  BY <1>4, <1>5, <1>6 DEF n
---------------------------------------------------------------------------------
(***************************************************************************)
(* The operations on a schedule.                                           *)
(***************************************************************************)

\* A schedule fit to be extended: no abrupt switch, stance at the end, and before it
\* stance or the end of a cycle of its template.
Extendable(s) ==
  /\ s \in Schedules(Templates)
  /\ Linked(s.modeSequence)
  /\ Last(s.modeSequence) = STANCE
  /\ EndsCycle(s.modeSequence[Len(s.modeSequence) - 1], s.template)

\* Tiling after stance or the end of a cycle gives an extendable schedule.
LEMMA TileExtendable ==
  ASSUME NEW s \in Schedules(Templates), Linked(s.modeSequence),
         EndsCycle(Last(s.modeSequence), s.template),
         NEW start \in Int, NEW final \in Int,
         s.eventTimes # <<>> => Last(s.eventTimes) < start
  PROVE  Extendable(Tile(s, start, final))
<1>. DEFINE tpl == s.template
            n   == Len(tpl.modeSequence)
            R   == Repetitions(tpl, start, final)
            k   == TileCount(tpl, start, final)
            ev  == s.eventTimes
            md  == s.modeSequence
            M   == Len(md)
            te  == TileTimes(tpl, start, final)
            tm  == TileModes(tpl, start, final)
            c   == md \o tm
            e2  == ev \o te
            m2  == Append(c, STANCE)
            r   == Tile(s, start, final)
<1>1. tpl \in Templates /\ IsModeSequenceTemplate(tpl)
  BY ScheduleParts, Parameters
<1>2. md \in Seq(Modes) /\ M \in Nat \ {0} /\ md # <<>> /\ Last(md) = md[M]
  BY ScheduleParts, Ends
<1>3. r.modeSequence = m2 /\ r.template = tpl
  <2>1. r = [s EXCEPT !.eventTimes = e2, !.modeSequence = m2]
    BY <1>1, TileAppends
  <2>. HIDE DEF r, e2, m2
  <2>. QED  BY <2>1, ScheduleParts
<1>4. r \in Schedules(Templates)
  BY <1>1, TileProperties
<1>5. k \in Nat /\ tm \in Seq(Modes) /\ Len(tm) = k /\ \A j \in 1..k : tm[j] = TileMode(tpl, j - 1)
  BY <1>1, TileParts DEF TileModes
<1>6. k = R * n /\ R \in Nat /\ n \in Nat \ {0}
  BY <1>1, RepetitionsType, TemplateParts DEF TileCount
<1>. HIDE DEF r, k, R, n, tm, md, tpl
<1>7. /\ Len(c) = M + k
      /\ \A i \in 1..M : c[i] = md[i]
      /\ \A j \in 1..k : c[M + j] = TileMode(tpl, j - 1)
  <2>1. /\ Len(c) = Len(md) + Len(tm)
        /\ \A i \in 1..(Len(md) + Len(tm)) : c[i] = IF i <= Len(md) THEN md[i] ELSE tm[i - Len(md)]
    BY <1>2, <1>5, ConcatElements
  <2>2. \A j \in 1..k : M + j \in 1..(Len(md) + Len(tm)) /\ ~(M + j <= M) /\ (M + j) - M = j
    BY <1>2, <1>5
  <2>. QED  BY <1>2, <1>5, <2>1, <2>2
<1>8. c \in Seq(Modes)
  BY <1>2, <1>5, ConcatElements
<1>. HIDE DEF c
<1>9. /\ Len(m2) = M + k + 1
      /\ \A i \in 1..(M + k) : m2[i] = c[i]
      /\ m2[M + k + 1] = STANCE
  <2>1. STANCE \in Modes /\ M + k \in Nat
    BY <1>2, <1>5 DEF Modes, STANCE
  <2>. QED  BY <1>7, <1>8, <2>1
<1>. HIDE DEF m2, M
<1>10. Linked(m2)
  <2>. SUFFICES ASSUME NEW i \in 1..(M + k)
                PROVE  MayFollow(m2[i], m2[i + 1])
    BY <1>2, <1>5, <1>9 DEF Linked
  <2>0. M \in Nat \ {0} /\ k \in Nat /\ i \in Nat
    BY <1>2, <1>5
  <2>1. CASE i = M + k
    BY <1>9, <2>1 DEF MayFollow
  <2>2. CASE i < M
    <3>0. /\ i \in 1..M /\ i + 1 \in 1..M /\ i \in 1..(M - 1)
          /\ i \in 1..(M + k) /\ i + 1 \in 1..(M + k)
      BY <2>0, <2>2
    <3>1. m2[i] = md[i] /\ m2[i + 1] = md[i + 1]
      <4>1. m2[i] = c[i] /\ m2[i + 1] = c[i + 1]
        BY <1>9, <3>0
      <4>2. c[i] = md[i] /\ c[i + 1] = md[i + 1]
        BY <1>7, <3>0
      <4>. QED  BY <4>1, <4>2
    <3>2. MayFollow(md[i], md[i + 1])
      BY <3>0 DEF Linked, M, md
    <3>. QED  BY <3>1, <3>2
  <2>3. CASE i = M /\ i # M + k
    <3>1. 1 \in 1..k /\ M + 1 \in 1..(M + k) /\ M \in 1..(M + k) /\ M \in 1..M
      BY <2>0, <2>3
    <3>2. m2[M + 1] = TileMode(tpl, 1 - 1)
      BY <1>7, <1>9, <3>1
    <3>3. m2[M] = md[M]
      BY <1>7, <1>9, <3>1
    <3>4. EndsCycle(md[M], tpl)
      BY <1>2 DEF md, tpl
    <3>5. MayFollow(md[M], TileMode(tpl, 0))
      BY <1>1, <3>4, TileModesFollow
    <3>6. 1 - 1 = 0
      OBVIOUS
    <3>. QED  BY <2>3, <3>2, <3>3, <3>5, <3>6
  <2>4. CASE M < i /\ i < M + k
    <3>. DEFINE j == i - M
    <3>1. j \in 1..k /\ j + 1 \in 1..k /\ i = M + j /\ i + 1 = M + (j + 1)
          /\ i \in 1..(M + k) /\ i + 1 \in 1..(M + k) /\ j - 1 \in Nat /\ (j + 1) - 1 = (j - 1) + 1
      BY <2>0, <2>4
    <3>. HIDE DEF j
    <3>2. m2[i] = TileMode(tpl, j - 1) /\ m2[i + 1] = TileMode(tpl, (j - 1) + 1)
      BY <1>7, <1>9, <3>1
    <3>3. Follow(TileMode(tpl, j - 1), TileMode(tpl, (j - 1) + 1))
      BY <1>1, <3>1, TileModesFollow
    <3>. QED  BY <3>2, <3>3 DEF MayFollow
  <2>. QED  BY <2>0, <2>1, <2>2, <2>3, <2>4
<1>11. Last(m2) = STANCE
  <2>1. Last(m2) = m2[Len(m2)]
    BY DEF Last
  <2>. QED  BY <1>9, <2>1
<1>12. EndsCycle(m2[Len(m2) - 1], tpl)
  <2>0. Len(m2) - 1 = M + k /\ M + k \in 1..(M + k)
    BY <1>2, <1>5, <1>9
  <2>1. CASE k = 0
    <3>1. M + k = M /\ M \in 1..M
      BY <1>2, <2>1
    <3>2. m2[M + k] = md[M]
      BY <1>7, <1>9, <2>0, <3>1
    <3>. QED  BY <1>2, <2>0, <3>2 DEF md, tpl
  <2>2. CASE k # 0
    <3>1. k \in 1..k /\ R \in Nat \ {0}
      BY <1>5, <1>6, <2>2
    <3>2. m2[M + k] = TileMode(tpl, k - 1)
      BY <1>7, <1>9, <2>0, <3>1
    <3>3. TileMode(tpl, R * n - 1) = TileMode(tpl, n - 1)
      BY <1>1, <3>1, TileModesFollow DEF n
    <3>. QED  BY <1>6, <2>0, <3>2, <3>3 DEF EndsCycle, n
  <2>. QED  BY <2>1, <2>2
<1>13. Extendable(r)
  BY <1>3, <1>4, <1>10, <1>11, <1>12 DEF Extendable
<1>. QED  BY <1>13 DEF r
\* What is cut off the end leaves no abrupt switch.
LEMMA PrefixLinked ==
  ASSUME NEW md \in Seq(Modes), Linked(md), NEW m \in 1..Len(md)
  PROVE  LET p == SubSeq(md, 1, m)
         IN  Linked(p) /\ Len(p) = m /\ Last(p) = md[m]
<1>. DEFINE p == SubSeq(md, 1, m)
<1>1. Len(p) = m /\ \A i \in 1..m : p[i] = md[i]
  OBVIOUS
<1>. HIDE DEF p
<1>2. Linked(p)
  <2>. SUFFICES ASSUME NEW i \in 1..(m - 1)
                PROVE  MayFollow(p[i], p[i + 1])
    BY <1>1 DEF Linked
  <2>1. i \in 1..m /\ i + 1 \in 1..m /\ i \in 1..(Len(md) - 1)
    OBVIOUS
  <2>2. MayFollow(md[i], md[i + 1])
    BY <2>1 DEF Linked
  <2>. QED  BY <1>1, <2>1, <2>2
<1>3. Last(p) = md[m]
  <2>1. m \in 1..m
    OBVIOUS
  <2>. QED  BY <1>1, <2>1 DEF Last
<1>. QED  BY <1>1, <1>2, <1>3 DEF p

\* Forgetting the past leaves no abrupt switch and the end as it is.
LEMMA DropPastLinked ==
  ASSUME NEW s, Extendable(s), NEW lower \in Int, s.eventTimes # <<>>,
         Head(s.modeSequence) = STANCE
  PROVE  LET r == DropPast(s, lower)
         IN  /\ Linked(r.modeSequence)
             /\ EndsCycle(r.modeSequence[Len(r.modeSequence) - 1], s.template)
<1>. DEFINE ev == s.eventTimes
            md == s.modeSequence
            ix == LowerBound(ev, lower)
            K  == Len(md) - ix
            e2 == SubSeq(ev, ix, Len(ev))
            t2 == SubSeq(md, ix + 1, Len(md))
            m2 == <<STANCE>> \o t2
            r  == DropPast(s, lower)
<1>0. s \in Schedules(Templates) /\ Linked(md) /\ EndsCycle(md[Len(md) - 1], s.template)
  BY DEF Extendable
<1>1. ev \in Seq(Int) /\ md \in Seq(Modes) /\ Len(ev) \in Nat /\ Len(md) = Len(ev) + 1
  BY <1>0, ScheduleParts
<1>2. ix \in 0..Len(ev)
  BY <1>1, LowerBoundProperties
<1>3. CASE ix = 0
  BY <1>0, <1>3 DEF DropPast
<1>4. CASE ix # 0
  <2>1. r.modeSequence = m2
    <3>1. r = [s EXCEPT !.eventTimes = e2, !.modeSequence = m2]
      BY <1>4 DEF DropPast
    <3>. HIDE DEF r, e2, m2
    <3>. QED  BY <1>0, <3>1, ScheduleParts
  <2>. HIDE DEF r, ix, ev, md
  <2>2. K \in Nat \ {0} /\ ix + K = Len(md)
    BY <1>1, <1>2
  <2>3. t2 \in Seq(Modes) /\ Len(t2) = K /\ \A i \in 1..K : t2[i] = md[ix + i]
    <3>1. ix + 1 \in 1..(Len(md) + 1) /\ Len(md) \in ((ix + 1) - 1)..Len(md)
      BY <1>1, <1>2
    <3>2. /\ t2 \in Seq(Modes) /\ Len(t2) = Len(md) - (ix + 1) + 1
          /\ \A i \in 1..(Len(md) - (ix + 1) + 1) : t2[i] = md[(ix + 1) + i - 1]
      BY <1>1, <3>1, SubSeqElements
    <3>3. Len(md) - (ix + 1) + 1 = K /\ \A i \in 1..K : (ix + 1) + i - 1 = ix + i
      BY <1>1, <1>2
    <3>. QED  BY <3>2, <3>3
  <2>. HIDE DEF t2
  <2>4. Len(m2) = K + 1 /\ m2[1] = STANCE /\ \A i \in 1..K : m2[i + 1] = md[ix + i]
    BY <2>2, <2>3
  <2>. HIDE DEF m2, K
  <2>5. Linked(m2)
    <3>. SUFFICES ASSUME NEW i \in 1..K
                  PROVE  MayFollow(m2[i], m2[i + 1])
      BY <2>2, <2>4 DEF Linked
    <3>1. CASE i = 1
      BY <2>4, <3>1 DEF MayFollow
    <3>2. CASE i # 1
      <4>. DEFINE h == i - 1
      <4>1. h \in 1..K /\ i = h + 1 /\ ix + h \in 1..(Len(md) - 1) /\ (ix + h) + 1 = ix + i
        BY <1>1, <1>2, <2>2, <3>2
      <4>. HIDE DEF h
      <4>2. m2[i] = md[ix + h] /\ m2[i + 1] = md[(ix + h) + 1]
        BY <2>4, <4>1
      <4>. QED  BY <1>0, <4>1, <4>2 DEF Linked
    <3>. QED  BY <3>1, <3>2
  <2>6. EndsCycle(m2[Len(m2) - 1], s.template)
    <3>0. Len(m2) - 1 = K
      BY <2>2, <2>4
    <3>1. CASE K = 1
      BY <2>4, <3>0, <3>1 DEF EndsCycle
    <3>2. CASE K # 1
      <4>. DEFINE h == K - 1
      <4>1. h \in 1..K /\ K = h + 1 /\ ix + h = Len(md) - 1
        BY <1>1, <1>2, <2>2, <3>2
      <4>. HIDE DEF h
      <4>2. m2[K] = md[Len(md) - 1]
        BY <2>4, <4>1
      <4>. QED  BY <1>0, <3>0, <4>2
    <3>. QED  BY <3>1, <3>2
  <2>. QED  BY <2>1, <2>5, <2>6 DEF r
<1>. QED  BY <1>3, <1>4

\* Fetching keeps a schedule extendable.
LEMMA GetModeScheduleExtendable ==
  ASSUME NEW s, Extendable(s), NEW lower \in Int, NEW upper \in Int, s.eventTimes # <<>>,
         Head(s.modeSequence) = STANCE
  PROVE  Extendable(GetModeSchedule(s, lower, upper))
<1>. DEFINE kept == DropPast(s, lower)
            cut  == [kept EXCEPT !.eventTimes = Front(@), !.modeSequence = Front(@)]
            last == Last(kept.eventTimes)
            md   == kept.modeSequence
<1>0. s \in Schedules(Templates)
  BY DEF Extendable
<1>1. kept \in Schedules(Templates) /\ kept.eventTimes # <<>> /\ kept.template = s.template
  BY <1>0, DropPastProperties
<1>2. GetModeSchedule(s, lower, upper) = Tile(cut, last, upper)
  BY <1>1 DEF GetModeSchedule
<1>3. Linked(md) /\ EndsCycle(md[Len(md) - 1], s.template)
  BY DropPastLinked
<1>. HIDE DEF kept
<1>4. /\ cut \in Schedules(Templates) /\ cut.template = s.template
      /\ cut.eventTimes # <<>> => Last(cut.eventTimes) < last
      /\ last \in Int
  BY <1>1, FrontProperties
<1>5. cut.modeSequence = SubSeq(md, 1, Len(md) - 1)
  <2>1. cut.modeSequence = Front(md)
    BY <1>1, ScheduleParts
  <2>. QED  BY <2>1 DEF Front
<1>. HIDE DEF cut, last
<1>6. md \in Seq(Modes) /\ Len(md) - 1 \in 1..Len(md)
  BY <1>1, ScheduleParts, Ends
<1>. HIDE DEF md
<1>7. Linked(cut.modeSequence) /\ Last(cut.modeSequence) = md[Len(md) - 1]
  BY <1>3, <1>5, <1>6, PrefixLinked
<1>8. EndsCycle(Last(cut.modeSequence), cut.template)
  BY <1>3, <1>4, <1>7
<1>. QED  BY <1>2, <1>4, <1>7, <1>8, TileExtendable

\* With a transition that takes time, a new gait keeps a schedule extendable.
LEMMA InsertExtendable ==
  ASSUME phaseTransitionStanceTime > 0,
         NEW s, Extendable(s), NEW tpl \in Templates, NEW start \in Int, NEW final \in Int
  PROVE  Extendable(InsertModeSequenceTemplate(s, tpl, start, final))
<1>. DEFINE kept       == CutAt(s, tpl, start)
            transition == IF Last(kept.modeSequence) = STANCE THEN 0
                          ELSE phaseTransitionStanceTime
            stand      == IF transition = 0 THEN kept ELSE StandFrom(kept, start)
            ev         == s.eventTimes
            md         == s.modeSequence
            c          == LowerBound(ev, start)
            e2         == SubSeq(ev, 1, c)
            m2         == SubSeq(md, 1, c + 1)
<1>0. s \in Schedules(Templates) /\ Linked(md)
  BY DEF Extendable
<1>1. /\ kept \in Schedules(Templates) /\ kept.template = tpl
      /\ kept.eventTimes # <<>> => Last(kept.eventTimes) < start
  BY <1>0, CutProperties
<1>2. InsertModeSequenceTemplate(s, tpl, start, final) = Tile(stand, start + transition, final)
  BY DEF InsertModeSequenceTemplate
<1>3. Linked(kept.modeSequence)
  <2>1. ev \in Seq(Int) /\ md \in Seq(Modes) /\ Len(ev) \in Nat /\ Len(md) = Len(ev) + 1
    BY <1>0, ScheduleParts
  <2>2. c \in 0..Len(ev)
    BY <2>1, LowerBoundProperties
  <2>3. kept.modeSequence = m2
    <3>1. kept = [s EXCEPT !.template = tpl, !.eventTimes = e2, !.modeSequence = m2]
      BY DEF CutAt
    <3>. HIDE DEF kept, e2, m2
    <3>. QED  BY <1>0, <3>1, ScheduleParts
  <2>. HIDE DEF kept, c, ev, md
  <2>4. c + 1 \in 1..Len(md)
    BY <2>1, <2>2
  <2>. QED  BY <1>0, <2>1, <2>3, <2>4, PrefixLinked
<1>. HIDE DEF kept
<1>4. transition \in Nat /\ (transition = 0 => Last(kept.modeSequence) = STANCE)
  BY TransitionAssumption
<1>. HIDE DEF transition
<1>5. /\ stand \in Schedules(Templates) /\ stand.template = tpl
      /\ stand.eventTimes # <<>> => Last(stand.eventTimes) < start + transition
      /\ Linked(stand.modeSequence) /\ Last(stand.modeSequence) = STANCE
  <2>1. CASE transition = 0
    BY <1>1, <1>3, <1>4, <2>1
  <2>2. CASE transition # 0
    <3>. DEFINE km == kept.modeSequence
                ke == kept.eventTimes
                m3 == Append(km, STANCE)
                e3 == Append(ke, start)
    <3>1. stand = StandFrom(kept, start)
      BY <2>2
    <3>2. /\ stand \in Schedules(Templates) /\ stand.template = tpl
          /\ Last(stand.eventTimes) = start
      BY <1>1, <3>1, StandProperties
    <3>3. stand.modeSequence = m3
      <4>1. stand = [kept EXCEPT !.eventTimes = e3, !.modeSequence = m3]
        BY <3>1 DEF StandFrom
      <4>. HIDE DEF stand, e3, m3
      <4>. QED  BY <1>1, <4>1, ScheduleParts
    <3>4. km \in Seq(Modes) /\ Len(km) \in Nat \ {0}
      BY <1>1, ScheduleParts
    <3>. HIDE DEF stand, km
    <3>5. /\ Len(m3) = Len(km) + 1 /\ m3[Len(km) + 1] = STANCE
          /\ \A i \in 1..Len(km) : m3[i] = km[i]
      BY <3>4
    <3>. HIDE DEF m3
    <3>6. Linked(m3)
      <4>. SUFFICES ASSUME NEW i \in 1..Len(km)
                    PROVE  MayFollow(m3[i], m3[i + 1])
        BY <3>4, <3>5 DEF Linked
      <4>1. CASE i = Len(km)
        BY <3>5, <4>1 DEF MayFollow
      <4>2. CASE i # Len(km)
        <5>1. i \in 1..(Len(km) - 1) /\ i + 1 \in 1..Len(km)
          BY <3>4, <4>2
        <5>2. MayFollow(km[i], km[i + 1])
          BY <1>3, <5>1 DEF Linked, km
        <5>. QED  BY <3>5, <5>1, <5>2
      <4>. QED  BY <4>1, <4>2
    <3>7. Last(m3) = STANCE
      BY <3>5 DEF Last
    <3>. QED  BY <1>4, <2>2, <3>2, <3>3, <3>6, <3>7
  <2>. QED  BY <2>1, <2>2
<1>. HIDE DEF stand
<1>6. EndsCycle(Last(stand.modeSequence), stand.template)
  BY <1>5 DEF EndsCycle
<1>7. start + transition \in Int
  BY <1>4
<1>. QED  BY <1>2, <1>5, <1>6, <1>7, TileExtendable

---------------------------------------------------------------------------------
(***************************************************************************)
(* The reachable states.                                                   *)
(***************************************************************************)

\* The configured schedule is extendable.
LEMMA InitExtendable ==
  ASSUME StandsAtFirst
  PROVE  Init => Extendable(gaitSchedule)
<1>. SUFFICES ASSUME Init
              PROVE  Extendable(gaitSchedule)
  OBVIOUS
<1>. DEFINE md == gaitSchedule.modeSequence
<1>1. gaitSchedule \in Schedules(Templates) /\ gaitSchedule.eventTimes # <<>>
  BY InitIInv DEF IInv, TypeOK, StandsBeforeFirstEvent, Templates
<1>2. Len(md) \in Nat /\ Len(md) - 1 \in 1..Len(md) /\ Len(md) \in 1..Len(md)
  BY <1>1, ScheduleParts, Ends
<1>3. \A i \in 1..Len(md) : md[i] = STANCE
  BY DEF Init, StandsAtFirst
<1>. HIDE DEF md
<1>4. Linked(md)
  <2>1. \A i \in 1..(Len(md) - 1) : i \in 1..Len(md)
    BY <1>2
  <2>. QED  BY <1>3, <2>1 DEF Linked, MayFollow
<1>5. Last(md) = STANCE
  BY <1>2, <1>3 DEF Last
<1>6. EndsCycle(md[Len(md) - 1], gaitSchedule.template)
  BY <1>2, <1>3 DEF EndsCycle
<1>. QED  BY <1>1, <1>4, <1>5, <1>6 DEF Extendable, md

\* A solver run keeps the gait schedule extendable.
LEMMA SolverRunExtendable ==
  ASSUME phaseTransitionStanceTime > 0, IInv, Extendable(gaitSchedule),
         NEW t \in Nat, SolverRun(t)
  PROVE  Extendable(gaitSchedule')
<1>. DEFINE fetched == FetchModeSchedule(gaitSchedule, t)
<1>1. gaitSchedule' = ApplyGaitCommand(fetched, t)
  BY DEF SolverRun
<1>2. Extendable(fetched)
  <2>1. gaitSchedule.eventTimes # <<>> /\ Head(gaitSchedule.modeSequence) = STANCE
    BY DEF IInv, StandsBeforeFirstEvent
  <2>2. t - timeHorizon \in Int /\ t + timeHorizon + timeHorizon \in Int
    BY Parameters
  <2>. QED  BY <2>1, <2>2, GetModeScheduleExtendable DEF FetchModeSchedule
<1>. HIDE DEF fetched
<1>3. CASE gaitUpdated
  <2>1. receivedGait \in Templates
    BY <1>3, Parameters DEF IInv, TypeOK
  <2>2. InsertStart(t) \in Int /\ InsertFinal(t) \in Int
    BY Parameters DEF InsertStart, InsertFinal
  <2>. QED  BY <1>1, <1>2, <1>3, <2>1, <2>2, InsertExtendable DEF ApplyGaitCommand
<1>4. CASE ~ gaitUpdated
  BY <1>1, <1>2, <1>4 DEF ApplyGaitCommand
<1>. QED  BY <1>3, <1>4

\* Whenever the user commands which gait, two moving phases in a row belong to one gait:
\* from one gait to another the robot stands.  It needs a transition that takes time, a
\* schedule that stands to begin with, and no other node's schedules.
THEOREM GaitsNeverSwitchAbruptly ==
  ASSUME phaseTransitionStanceTime > 0, StandsAtFirst, ExternalSchedules = {}
  PROVE  Spec => []NoAbruptGaitSwitch
<1>1. OthersStandFirst
  BY DEF OthersStandFirst
<1>2. IInv /\ [Next]_vars => IInv'
  BY <1>1, NextIInv
<1>3. IInv /\ Extendable(gaitSchedule) /\ [Next]_vars => Extendable(gaitSchedule)'
  <2>. SUFFICES ASSUME IInv, Extendable(gaitSchedule), [Next]_vars
                PROVE  Extendable(gaitSchedule')
    OBVIOUS
  <2>1. ASSUME NEW tpl \in Gaits, mpcModeSequenceCallback(tpl)
        PROVE  Extendable(gaitSchedule')
    BY <2>1 DEF mpcModeSequenceCallback
  <2>2. CASE Advance \/ Restart
    BY <2>2, RunsAtNatural, SolverRunExtendable
  <2>3. CASE UNCHANGED vars
    BY <2>3 DEF vars
  <2>. QED  BY <2>1, <2>2, <2>3 DEF Next
<1>4. Extendable(gaitSchedule) => NoAbruptGaitSwitch
  BY DEF Extendable, Linked, MayFollow, NoAbruptGaitSwitch
<1>. QED  BY InitIInv, InitExtendable, <1>2, <1>3, <1>4, PTL DEF Spec
---------------------------------------------------------------------------------
(***************************************************************************)
(* What the joints are asked to do from one instant to the next.           *)
(***************************************************************************)

\* Between a time and the next at most one event happens, so the mode stays or is
\* followed by the next of the sequence.
LEMMA NextInstant ==
  ASSUME NEW ms, IsSchedule(ms), Linked(ms.modeSequence), NEW t \in Int
  PROVE  \/ ModeAtTime(ms, t + 1) = ModeAtTime(ms, t)
         \/ MayFollow(ModeAtTime(ms, t), ModeAtTime(ms, t + 1))
<1>. DEFINE e == ms.eventTimes
            i == LowerBound(e, t)
<1>1. e \in Seq(Int) /\ Ordered(e) /\ Len(ms.modeSequence) = Len(e) + 1
  BY DEF IsSchedule
<1>2. i \in 0..Len(e) /\ (\A k \in 1..i : e[k] < t) /\ (i < Len(e) => e[i + 1] >= t)
  BY <1>1, LowerBoundProperties
<1>3. ModeAtTime(ms, t) = ms.modeSequence[i + 1]
  BY DEF ModeAtTime
<1>4. ModeAtTime(ms, t + 1) = ms.modeSequence[LowerBound(e, t + 1) + 1]
  BY DEF ModeAtTime
<1>. HIDE DEF e, i
<1>5. /\ Len(e) \in Nat /\ \A k \in 1..Len(e) : e[k] \in Int
      /\ \A k \in 1..(Len(e) - 1) : e[k] < e[k + 1]
  <2>1. \A k \in 1..(Len(e) - 1) : e[k] < e[k + 1]
    BY <1>1 DEF Ordered
  <2>. QED  BY <1>1, <2>1
<1>6. CASE i < Len(e) /\ e[i + 1] = t
  <2>1. i + 1 \in 0..Len(e) /\ \A k \in 1..(i + 1) : e[k] < t + 1
    <3>1. i + 1 \in 1..Len(e)
      BY <1>2, <1>5, <1>6
    <3>2. \A k \in 1..(i + 1) : k \in 1..i \/ k = i + 1
      BY <1>2
    <3>3. \A k \in 1..i : e[k] \in Int /\ e[k] < t
      BY <1>2, <1>5
    <3>. QED  BY <1>6, <3>1, <3>2, <3>3
  <2>2. i + 1 < Len(e) => e[(i + 1) + 1] >= t + 1
    <3>. SUFFICES ASSUME i + 1 < Len(e)
                  PROVE  e[(i + 1) + 1] >= t + 1
      OBVIOUS
    <3>1. i + 1 \in 1..(Len(e) - 1) /\ (i + 1) + 1 \in 1..Len(e)
      BY <1>2, <1>5
    <3>2. e[(i + 1) + 1] \in Int /\ t < e[(i + 1) + 1]
      BY <1>5, <1>6, <3>1
    <3>. QED  BY <3>2
  <2>3. LowerBound(e, t + 1) = i + 1
    <3>1. t + 1 \in Int
      OBVIOUS
    <3>. QED  BY <1>1, <2>1, <2>2, <3>1, LowerBoundIs
  <2>4. i + 1 \in 1..(Len(ms.modeSequence) - 1)
    BY <1>1, <1>2, <1>5, <1>6
  <2>. QED  BY <1>3, <1>4, <2>3, <2>4 DEF Linked
<1>7. CASE ~ (i < Len(e) /\ e[i + 1] = t)
  <2>1. \A k \in 1..i : e[k] < t + 1
    BY <1>2, <1>5
  <2>2. i < Len(e) => e[i + 1] >= t + 1
    <3>. SUFFICES ASSUME i < Len(e)
                  PROVE  e[i + 1] >= t + 1
      OBVIOUS
    <3>1. e[i + 1] \in Int
      BY <1>2, <1>5
    <3>. QED  BY <1>2, <1>7, <3>1
  <2>3. LowerBound(e, t + 1) = i
    <3>1. t + 1 \in Int
      OBVIOUS
    <3>. QED  BY <1>1, <1>2, <2>1, <2>2, <3>1, LowerBoundIs
  <2>. QED  BY <1>3, <1>4, <2>3
<1>. QED  BY <1>6, <1>7

\* The mode schedule of the latest solver run has no abrupt switch, up to its last event
\* and into the default stance after it.
PlanLinked == solved => Linked(modeSchedule.modeSequence)

LEMMA SolverRunLinked ==
  ASSUME IInv, Extendable(gaitSchedule), NEW t \in Nat, SolverRun(t)
  PROVE  Linked(modeSchedule'.modeSequence)
<1>. DEFINE fetched == FetchModeSchedule(gaitSchedule, t)
<1>1. modeSchedule'.modeSequence = fetched.modeSequence
  BY DEF SolverRun
<1>2. gaitSchedule.eventTimes # <<>> /\ Head(gaitSchedule.modeSequence) = STANCE
  BY DEF IInv, StandsBeforeFirstEvent
<1>3. t - timeHorizon \in Int /\ t + timeHorizon + timeHorizon \in Int
  BY Parameters
<1>4. Extendable(fetched)
  BY <1>2, <1>3, GetModeScheduleExtendable DEF FetchModeSchedule
<1>. QED  BY <1>1, <1>4 DEF Extendable

\* A solver run that starts inside the horizon of the run before keeps the mode of the
\* present and of the instant before it.
LEMMA SolverRunKeepsPresent ==
  ASSUME IInv, CInv, solved, NEW t \in Nat, t <= finalTime, SolverRun(t), NEW u \in {t - 1, t}
  PROVE  ModeAtTime(modeSchedule', u) = ModeAtTime(modeSchedule, u)
<1>. DEFINE fetched == FetchModeSchedule(gaitSchedule, t)
            ms      == [eventTimes   |-> fetched.eventTimes,
                        modeSequence |-> fetched.modeSequence]
<1>1. modeSchedule' = ms
  BY DEF SolverRun
<1>2. \A v \in Int : t - timeHorizon <= v /\ v <= Last(gaitSchedule.eventTimes) =>
        ModeAtTime(fetched, v) = ModeAtTime(gaitSchedule, v)
  BY FetchedSchedule
<1>. HIDE DEF fetched
<1>3. ModeAtTime(ms, u) = ModeAtTime(fetched, u)
  BY DEF ModeAtTime
<1>. HIDE DEF ms
<1>4. u \in Int /\ u <= t /\ t - 1 <= u
  OBVIOUS
<1>5. timeHorizon \in Nat \ {0} /\ finalTime \in Int
  BY PlanningAssumption DEF IInv, TypeOK, finalTime
<1>6. t - timeHorizon <= u /\ u <= finalTime
  BY <1>4, <1>5
<1>7. Last(gaitSchedule.eventTimes) \in Int /\ Last(gaitSchedule.eventTimes) >= finalTime
  BY DEF CInv
<1>8. ModeAtTime(gaitSchedule, u) = ModeAtTime(modeSchedule, u)
  BY <1>4, <1>6 DEF CInv
<1>. QED  BY <1>1, <1>2, <1>3, <1>4, <1>5, <1>6, <1>7, <1>8

\* In every state: what the planning of one solver run hands on to the next.
LEMMA PlanInvariant ==
  ASSUME phaseTransitionStanceTime > 0, StandsAtFirst, ExternalSchedules = {}
  PROVE  Spec => [](IInv /\ CInv /\ PlanLinked)
<1>1. OthersStandFirst
  BY DEF OthersStandFirst
<1>2. IInv /\ [Next]_vars => IInv'
  BY <1>1, NextIInv
<1>3. IInv /\ CInv /\ [Next]_vars => CInv'
  BY NextCommits
<1>4. /\ IInv /\ Extendable(gaitSchedule) /\ PlanLinked /\ [Next]_vars
      => Extendable(gaitSchedule)' /\ PlanLinked'
  <2>. SUFFICES ASSUME IInv, Extendable(gaitSchedule), PlanLinked, [Next]_vars
                PROVE  Extendable(gaitSchedule') /\ PlanLinked'
    OBVIOUS
  <2>1. ASSUME NEW tpl \in Gaits, mpcModeSequenceCallback(tpl)
        PROVE  Extendable(gaitSchedule') /\ PlanLinked'
    BY <2>1 DEF mpcModeSequenceCallback, PlanLinked
  <2>2. CASE Advance \/ Restart
    BY <2>2, RunsAtNatural, SolverRunExtendable, SolverRunLinked DEF PlanLinked
  <2>3. CASE UNCHANGED vars
    BY <2>3 DEF vars, PlanLinked
  <2>. QED  BY <2>1, <2>2, <2>3 DEF Next
<1>5. Init => CInv /\ PlanLinked
  BY DEF Init, CInv, PlanLinked
<1>. QED  BY InitIInv, InitExtendable, <1>2, <1>3, <1>4, <1>5, PTL DEF Spec
=================================================================================
