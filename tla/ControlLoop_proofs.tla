--------------------------- MODULE ControlLoop_proofs ---------------------------
(***************************************************************************)
(* Lock-step, the age of commands and policies and the stall, for all     *)
(* frequencies and bounds and any number of losses and resets.             *)
(***************************************************************************)
EXTENDS ControlLoop, FiniteSetTheorems, TLAPS

\* What counts a topic: 0 or 1.
LEMMA SlotCardinality ==
  /\ Cardinality({}) = 0
  /\ \A t : Cardinality({t}) = 1
  /\ \A messages : Slot(messages) => Cardinality(messages) \in {0, 1}
<1>1. Cardinality({}) = 0
  BY FS_EmptySet
<1>2. \A t : Cardinality({t}) = 1
  BY FS_Singleton
<1>3. ASSUME NEW messages, Slot(messages)
      PROVE  Cardinality(messages) \in {0, 1}
  <2>1. CASE messages = {}
    BY <1>1, <2>1
  <2>2. CASE messages # {}
    <3>1. PICK t \in messages : TRUE
      BY <2>2
    <3>2. messages = {t}
      BY <1>3, <3>1 DEF Slot
    <3>. QED  BY <1>2, <3>2
  <2>. QED  BY <2>1, <2>2
<1>. QED  BY <1>1, <1>2, <1>3

\* Publishing into an empty or a full topic leaves one message.
LEMMA SlotOf == Slot({}) /\ \A t \in Nat : Slot({t})
  BY DEF Slot

---------------------------------------------------------------------------------
(***************************************************************************)
(* Type correctness.                                                       *)
(***************************************************************************)
LEMMA InitTypeOK == Init => TypeOK
<1>1. Init => 0 \in Nat /\ {} \subseteq {"control", "service"} /\ {} \subseteq {"live", "dead"}
  OBVIOUS
<1>. QED  BY <1>1, SlotOf DEF Init, TypeOK

LEMMA NextTypeOK == TypeOK /\ [Next]_vars => TypeOK'
<1>. SUFFICES ASSUME TypeOK, [Next]_vars
              PROVE  TypeOK'
  OBVIOUS
<1>. USE DEF TypeOK, simulator, controller, service, topics, environment
<1>1. CASE StartSimulator
  BY <1>1 DEF StartSimulator
<1>2. CASE ControlPeriod
  <2>1. time' \in Nat
    BY <1>2 DEF ControlPeriod
  <2>. QED  BY <1>2, <2>1 DEF ControlPeriod
<1>3. CASE FreePeriod
  <2>1. time' \in Nat
    BY <1>3 DEF FreePeriod
  <2>. QED  BY <1>3, <2>1 DEF FreePeriod
<1>4. CASE IdleRound
  BY <1>4 DEF IdleRound
<1>5. CASE control_callback
  <2>1. Slot(simulator_state_data') /\ Slot(simulator_sensor_data') /\ Slot(joint_control_data')
    BY <1>5, SlotOf DEF control_callback
  <2>. QED  BY <1>5, <2>1 DEF control_callback
<1>6. CASE start_control_service
  <2>1. Slot(response')
    BY <1>6, SlotOf DEF start_control_service
  <2>. QED  BY <1>6, <2>1 DEF start_control_service
<1>7. CASE RequestStart
  BY <1>7 DEF RequestStart
<1>8. CASE ServiceNotAvailable
  BY <1>8 DEF ServiceNotAvailable
<1>9. CASE StartControlLoop
  <2>1. PICK t \in response : observation' = t /\ policy' = {t} /\ joint_control_data' = {t}
    BY <1>9 DEF StartControlLoop
  <2>2. t \in Nat
    BY <2>1 DEF Slot
  <2>3. Slot(policy') /\ Slot(joint_control_data') /\ Slot(response')
    BY <1>9, <2>1, <2>2, SlotOf DEF StartControlLoop
  <2>. QED  BY <1>9, <2>1, <2>2, <2>3 DEF StartControlLoop
<1>10. ASSUME NEW t \in Nat, ControlStep(t)
       PROVE  /\ observation' \in Nat /\ MpcCount_' \in Nat
              /\ Slot(policy') /\ Slot(joint_control_data')
              /\ phase' \in {"connecting", "waiting", "running", "unstarted", "failed"}
  BY <1>10, SlotOf DEF ControlStep
<1>11. CASE simulatorStateCallback
  <2>1. PICK t \in simulator_state_data : ControlStep(t)
    BY <1>11 DEF simulatorStateCallback
  <2>2. t \in Nat
    BY <2>1 DEF Slot
  <2>3. Slot(simulator_state_data')
    BY <1>11, SlotOf DEF simulatorStateCallback
  <2>. QED  BY <1>10, <1>11, <2>1, <2>2, <2>3 DEF simulatorStateCallback
<1>12. CASE simulatorSensorCallback
  <2>1. PICK t \in simulator_sensor_data : ControlStep(t)
    BY <1>12 DEF simulatorSensorCallback
  <2>2. t \in Nat
    BY <2>1 DEF Slot
  <2>3. Slot(simulator_sensor_data')
    BY <1>12, SlotOf DEF simulatorSensorCallback
  <2>. QED  BY <1>10, <1>12, <2>1, <2>2, <2>3 DEF simulatorSensorCallback
<1>13. CASE ResetSimulation
  BY <1>13 DEF ResetSimulation
<1>14. CASE LoseMessage
  BY <1>14, SlotOf DEF LoseMessage
<1>15. CASE Relaunch
  <2>1. request' \subseteq {"live", "dead"}
    BY <1>15 DEF Relaunch
  <2>. QED  BY <1>15, <2>1, SlotOf DEF Relaunch
<1>16. CASE UNCHANGED vars
  BY <1>16 DEF vars
<1>. QED
  BY <1>1, <1>2, <1>3, <1>4, <1>5, <1>6, <1>7, <1>8, <1>9, <1>11, <1>12, <1>13, <1>14, <1>15,
     <1>16
  DEF Next, SimulatorNext, ControllerNext

\* The flags, times and phases have their types, and no topic ever holds two messages.
THEOREM TypeCorrect == Spec => []TypeOK
  BY InitTypeOK, NextTypeOK, PTL DEF Spec

---------------------------------------------------------------------------------
(***************************************************************************)
(* Commands.                                                               *)
(***************************************************************************)

\* A command that is waiting to be applied came in during this round.
AppliedBeforeNext == Start_control_ => "control" \in spun

LEMMA AppliedBeforeNextInvariant == Spec => []AppliedBeforeNext
<1>1. Init => AppliedBeforeNext
  BY DEF Init, AppliedBeforeNext
<1>2. AppliedBeforeNext /\ [Next]_vars => AppliedBeforeNext'
  <2>. SUFFICES ASSUME AppliedBeforeNext, [Next]_vars
                PROVE  AppliedBeforeNext'
    OBVIOUS
  <2>1. CASE SimulatorNext
    BY <2>1
    DEF SimulatorNext, AppliedBeforeNext, StartSimulator, ControlPeriod, FreePeriod, IdleRound,
        control_callback, start_control_service
  <2>2. CASE ControllerNext
    BY <2>2
    DEF ControllerNext, AppliedBeforeNext, RequestStart, ServiceNotAvailable, StartControlLoop,
        simulatorStateCallback, simulatorSensorCallback, simulator
  <2>3. CASE ResetSimulation \/ LoseMessage \/ Relaunch
    BY <2>3 DEF AppliedBeforeNext, ResetSimulation, LoseMessage, Relaunch, simulator
  <2>4. CASE UNCHANGED vars
    BY <2>4 DEF AppliedBeforeNext, vars, simulator
  <2>. QED  BY <2>1, <2>2, <2>3, <2>4 DEF Next
<1>. QED  BY <1>1, <1>2, PTL DEF Spec

\* No command is replaced by the next one before it has been applied for a period,
\* however messages, resets and relaunches fall.
THEOREM EveryCommandIsApplied == Spec => NoCommandSkipped
<1>1. AppliedBeforeNext /\ [Next]_vars => [control_callback => ~ Start_control_]_vars
  BY DEF AppliedBeforeNext, control_callback
<1>. QED  BY <1>1, AppliedBeforeNextInvariant, PTL DEF Spec, NoCommandSkipped

---------------------------------------------------------------------------------
(***************************************************************************)
(* Lock-step.  One message circulates: a request turns into a response,    *)
(* that into a command, a command into a measurement and that into the     *)
(* next command.  A controller that has not sent its request yet counts    *)
(* for the message it will send; a relaunch adds one of those, whatever    *)
(* command the old controller has left under way.                          *)
(***************************************************************************)
Live == request \cap {"live"}

Unsent == IF phase = "connecting" THEN 1 ELSE 0

LInv == MessagesInFlight + Unsent <= 1 + relaunches /\ relaunches \in Nat

\* The summands are 0 or 1.
LEMMA Summands ==
  ASSUME TypeOK
  PROVE  /\ Cardinality(Live) \in {0, 1}
         /\ Cardinality(response) \in {0, 1}
         /\ Cardinality(joint_control_data) \in {0, 1}
         /\ Cardinality(simulator_state_data) \in {0, 1}
         /\ Cardinality(simulator_sensor_data) \in {0, 1}
         /\ Unsent \in {0, 1}
<1>1. Live = {} \/ Live = {"live"}
  BY DEF Live
<1>. QED  BY <1>1, SlotCardinality DEF TypeOK, Unsent

LEMMA InitLInv == Init => LInv
<1>. SUFFICES ASSUME Init
              PROVE  LInv
  OBVIOUS
<1>1. Live = {}
  BY DEF Init, Live
<1>. QED  BY <1>1, SlotCardinality DEF Init, LInv, MessagesInFlight, Unsent, Live

LEMMA NextLInv == TypeOK /\ TypeOK' /\ LInv /\ [Next]_vars => LInv'
<1>. SUFFICES ASSUME TypeOK, TypeOK', LInv, [Next]_vars
              PROVE  LInv'
  OBVIOUS
<1>1. PICK q \in 0..1, r \in 0..1, c \in 0..1, m \in 0..1, n \in 0..1, u \in 0..1, k \in Nat :
        /\ q = Cardinality(Live) /\ r = Cardinality(response)
        /\ c = Cardinality(joint_control_data)
        /\ m = Cardinality(simulator_state_data) /\ n = Cardinality(simulator_sensor_data)
        /\ u = Unsent /\ k = relaunches
  BY Summands DEF LInv
<1>2. PICK q1 \in 0..1, r1 \in 0..1, c1 \in 0..1, m1 \in 0..1, n1 \in 0..1, u1 \in 0..1 :
        /\ q1 = Cardinality(Live') /\ r1 = Cardinality(response')
        /\ c1 = Cardinality(joint_control_data')
        /\ m1 = Cardinality(simulator_state_data') /\ n1 = Cardinality(simulator_sensor_data')
        /\ u1 = Unsent'
  <2>1. Live' = {} \/ Live' = {"live"}
    BY DEF Live
  <2>2. Cardinality(Live') = 0 \/ Cardinality(Live') = 1
    BY <2>1, SlotCardinality
  <2>5. Unsent' \in 0..1
    BY DEF Unsent
  <2>3. /\ Slot(response') /\ Slot(joint_control_data')
        /\ Slot(simulator_state_data') /\ Slot(simulator_sensor_data')
    BY DEF TypeOK, Slot
  <2>4. /\ Cardinality(response') \in 0..1 /\ Cardinality(joint_control_data') \in 0..1
        /\ Cardinality(simulator_state_data') \in 0..1
        /\ Cardinality(simulator_sensor_data') \in 0..1
    BY <2>3, SlotCardinality
  <2>. QED  BY <2>2, <2>4, <2>5
<1>3. q + r + c + m + n + u <= 1 + k
  BY <1>1 DEF LInv, MessagesInFlight, Live
<1>4. ASSUME NEW k1 \in Nat, relaunches' = k1, q1 + r1 + c1 + m1 + n1 + u1 <= 1 + k1
      PROVE  LInv'
  BY <1>2, <1>4 DEF LInv, MessagesInFlight, Live
<1>5. ASSUME NEW S, S # {}, Slot(S)
      PROVE  Cardinality(S) = 1
  <2>1. PICK t \in S : TRUE
    BY <1>5
  <2>2. S = {t}
    BY <1>5, <2>1 DEF Slot
  <2>. QED  BY <2>2, SlotCardinality
<1>6. ASSUME UNCHANGED <<request, response, joint_control_data, simulator_state_data,
                         simulator_sensor_data, phase, relaunches>>
      PROVE  LInv'
  <2>1. q1 = q /\ r1 = r /\ c1 = c /\ m1 = m /\ n1 = n /\ u1 = u
    BY <1>1, <1>2, <1>6 DEF Live, Unsent
  <2>. QED  BY <1>1, <1>3, <1>4, <1>6, <2>1
<1>7. CASE StartSimulator \/ ControlPeriod \/ FreePeriod \/ IdleRound \/ ResetSimulation
  BY <1>6, <1>7
  DEF StartSimulator, ControlPeriod, FreePeriod, IdleRound, ResetSimulation, controller, service,
      topics, environment
<1>8. CASE control_callback
  <2>1. q1 = q /\ r1 = r /\ u1 = u /\ relaunches' = relaunches
    BY <1>1, <1>2, <1>8 DEF control_callback, Live, Unsent, service, controller, environment
  <2>2. c = 1 /\ c1 = 0
    BY <1>1, <1>2, <1>5, <1>8, SlotCardinality DEF control_callback, TypeOK
  <2>3. m1 + n1 = 1
    <3>1. \/ simulator_state_data' = {} /\ simulator_sensor_data' = {time}
          \/ simulator_state_data' = {time} /\ simulator_sensor_data' = {}
      BY <1>8 DEF control_callback
    <3>2. (m1 = 0 /\ n1 = 1) \/ (m1 = 1 /\ n1 = 0)
      BY <1>1, <1>2, <3>1, SlotCardinality
    <3>. QED  BY <3>2
  <2>4. q1 + r1 + c1 + m1 + n1 + u1 <= 1 + k
    BY <1>3, <2>1, <2>2, <2>3
  <2>. QED  BY <1>1, <1>4, <2>1, <2>4
<1>9. CASE start_control_service
  <2>1. c1 = c /\ m1 = m /\ n1 = n /\ u1 = u /\ relaunches' = relaunches
    BY <1>1, <1>2, <1>9 DEF start_control_service, Unsent, topics, controller, environment
  <2>2. PICK client \in request :
          /\ request' = request \ {client}
          /\ response' = IF client = "live" THEN {time} ELSE response
    BY <1>9 DEF start_control_service
  <2>3. CASE client = "live"
    <3>1. Live = {"live"} /\ Live' = {}
      BY <2>2, <2>3 DEF Live
    <3>2. q = 1 /\ q1 = 0
      BY <1>1, <1>2, <3>1, SlotCardinality
    <3>3. q1 + r1 + c1 + m1 + n1 + u1 <= 1 + k
      BY <1>3, <2>1, <3>2
    <3>. QED  BY <1>1, <1>4, <2>1, <3>3
  <2>4. CASE client # "live"
    <3>1. Live' = Live /\ response' = response
      BY <2>2, <2>4 DEF Live
    <3>2. q1 = q /\ r1 = r
      BY <1>1, <1>2, <3>1
    <3>. QED  BY <1>1, <1>3, <1>4, <2>1, <3>2
  <2>. QED  BY <2>3, <2>4
<1>10. CASE RequestStart
  <2>1. r1 = r /\ c1 = c /\ m1 = m /\ n1 = n /\ relaunches' = relaunches
    BY <1>1, <1>2, <1>10 DEF RequestStart, topics, environment
  <2>2. u = 1 /\ u1 = 0
    BY <1>1, <1>2, <1>10 DEF RequestStart, Unsent
  <2>4. q1 + r1 + c1 + m1 + n1 + u1 <= 1 + k
    BY <1>3, <2>1, <2>2
  <2>. QED  BY <1>1, <1>4, <2>1, <2>4
<1>11. CASE ServiceNotAvailable
  <2>1. q1 = q /\ r1 = r /\ c1 = c /\ m1 = m /\ n1 = n /\ relaunches' = relaunches
    BY <1>1, <1>2, <1>11 DEF ServiceNotAvailable, Live, service, topics, environment
  <2>2. u = 1 /\ u1 = 0
    BY <1>1, <1>2, <1>11 DEF ServiceNotAvailable, Unsent
  <2>4. q1 + r1 + c1 + m1 + n1 + u1 <= 1 + k
    BY <1>3, <2>1, <2>2
  <2>. QED  BY <1>1, <1>4, <2>1, <2>4
<1>12. CASE StartControlLoop
  <2>1. q1 = q /\ m1 = m /\ n1 = n /\ relaunches' = relaunches /\ u1 = u
    BY <1>1, <1>2, <1>12 DEF StartControlLoop, Live, Unsent, environment
  <2>2. r = 1 /\ r1 = 0
    BY <1>1, <1>2, <1>5, <1>12, SlotCardinality DEF StartControlLoop, TypeOK
  <2>4. q1 + r1 + c1 + m1 + n1 + u1 <= 1 + k
    BY <1>3, <2>1, <2>2
  <2>. QED  BY <1>1, <1>4, <2>1, <2>4
<1>13. ASSUME NEW t, ControlStep(t), phase # "connecting"
       PROVE  u1 = u
  BY <1>1, <1>2, <1>13 DEF ControlStep, Unsent
<1>14. CASE simulatorStateCallback
  <2>1. q1 = q /\ r1 = r /\ n1 = n /\ relaunches' = relaunches
    BY <1>1, <1>2, <1>14 DEF simulatorStateCallback, Live, service, environment
  <2>2. m = 1 /\ m1 = 0
    BY <1>1, <1>2, <1>5, <1>14, SlotCardinality DEF simulatorStateCallback, TypeOK
  <2>3. u1 = u
    BY <1>13, <1>14 DEF simulatorStateCallback, Spinning
  <2>4. q1 + r1 + c1 + m1 + n1 + u1 <= 1 + k
    BY <1>3, <2>1, <2>2, <2>3
  <2>. QED  BY <1>1, <1>4, <2>1, <2>4
<1>15. CASE simulatorSensorCallback
  <2>1. q1 = q /\ r1 = r /\ m1 = m /\ relaunches' = relaunches
    BY <1>1, <1>2, <1>15 DEF simulatorSensorCallback, Live, service, environment
  <2>2. n = 1 /\ n1 = 0
    BY <1>1, <1>2, <1>5, <1>15, SlotCardinality DEF simulatorSensorCallback, TypeOK
  <2>3. u1 = u
    BY <1>13, <1>15 DEF simulatorSensorCallback, Spinning
  <2>4. q1 + r1 + c1 + m1 + n1 + u1 <= 1 + k
    BY <1>3, <2>1, <2>2, <2>3
  <2>. QED  BY <1>1, <1>4, <2>1, <2>4
<1>16. CASE LoseMessage
  <2>1. q1 = q /\ r1 = r /\ u1 = u /\ relaunches' = relaunches
    BY <1>1, <1>2, <1>16 DEF LoseMessage, Live, Unsent, service, controller
  <2>2. (c1 = c \/ c1 = 0) /\ (m1 = m \/ m1 = 0) /\ (n1 = n \/ n1 = 0)
    BY <1>1, <1>2, <1>16, SlotCardinality DEF LoseMessage
  <2>. QED  BY <1>1, <1>3, <1>4, <2>1, <2>2
<1>17. CASE Relaunch
  <2>1. c1 = c /\ relaunches' = k + 1
    BY <1>1, <1>2, <1>17 DEF Relaunch
  <2>2. Live' = {} /\ response' = {} /\ simulator_state_data' = {} /\ simulator_sensor_data' = {}
    BY <1>17 DEF Relaunch, Live
  <2>3. q1 = 0 /\ r1 = 0 /\ m1 = 0 /\ n1 = 0
    BY <1>1, <1>2, <2>2, SlotCardinality
  <2>4. q1 + r1 + c1 + m1 + n1 + u1 <= 1 + (k + 1)
    BY <1>3, <2>1, <2>3
  <2>. QED  BY <1>4, <2>1, <2>4
<1>18. CASE UNCHANGED vars
  BY <1>6, <1>18 DEF vars, controller, service, topics, environment
<1>. QED
  BY <1>7, <1>8, <1>9, <1>10, <1>11, <1>12, <1>14, <1>15, <1>16, <1>17, <1>18
  DEF Next, SimulatorNext, ControllerNext

\* At most one message is under way between controller and simulator, one more for
\* each relaunch of the controller: the topics of depth one lose nothing by being
\* overwritten.
THEOREM LoopIsInLockStep == Spec => []LockStep
<1>1. TypeOK /\ LInv => LockStep
  <2>. SUFFICES ASSUME TypeOK, LInv
                PROVE  LockStep
    OBVIOUS
  <2>1. MessagesInFlight \in Nat /\ Unsent \in Nat
    BY Summands DEF MessagesInFlight, Live
  <2>. QED  BY <2>1 DEF LInv, LockStep
<1>. QED  BY InitLInv, NextLInv, TypeCorrect, <1>1, PTL DEF Spec

---------------------------------------------------------------------------------
(***************************************************************************)
(* The stall.                                                              *)
(***************************************************************************)

\* Counting no message means that every topic is empty.
LEMMA NothingInFlight ==
  ASSUME TypeOK
  PROVE  MessagesInFlight = 0 <=>
           /\ "live" \notin request /\ response = {} /\ joint_control_data = {}
           /\ simulator_state_data = {} /\ simulator_sensor_data = {}
<1>1. ASSUME NEW S, Slot(S)
      PROVE  Cardinality(S) = 0 <=> S = {}
  <2>1. CASE S # {}
    <3>1. PICK t \in S : TRUE
      BY <2>1
    <3>2. S = {t}
      BY <1>1, <3>1 DEF Slot
    <3>3. Cardinality({t}) = 1
      BY SlotCardinality
    <3>. QED  BY <2>1, <3>2, <3>3
  <2>. QED  BY <2>1, SlotCardinality
<1>2. Cardinality(Live) = 0 <=> "live" \notin request
  <2>1. Live = {} \/ Live = {"live"}
    BY DEF Live
  <2>2. Cardinality({}) = 0 /\ Cardinality({"live"}) = 1
    BY SlotCardinality
  <2>3. "live" \in request <=> Live = {"live"}
    BY DEF Live
  <2>. QED  BY <2>1, <2>2, <2>3
<1>3. MessagesInFlight = 0 <=>
        /\ Cardinality(Live) = 0 /\ Cardinality(response) = 0
        /\ Cardinality(joint_control_data) = 0
        /\ Cardinality(simulator_state_data) = 0 /\ Cardinality(simulator_sensor_data) = 0
  BY Summands DEF MessagesInFlight, Live
<1>. QED  BY <1>1, <1>2, <1>3 DEF TypeOK

\* When the last message is lost the robot is left with its last command: nothing but a
\* relaunch of the controller brings a message, and the simulation does not go on.
THEOREM LostMessageStallsTheLoop == Spec => StallIsForEver
<1>1. TypeOK /\ TypeOK' /\ LInv /\ [Next]_vars =>
        [Stalled /\ relaunches' = relaunches => Stalled' /\ time' <= time]_vars
  <2>. SUFFICES ASSUME TypeOK, TypeOK', LInv, Next, Stalled, relaunches' = relaunches
                PROVE  Stalled' /\ time' <= time
    OBVIOUS
  <2>1. /\ "live" \notin request /\ response = {} /\ joint_control_data = {}
        /\ simulator_state_data = {} /\ simulator_sensor_data = {}
        /\ phase = "running" /\ ~ Start_simulate_ /\ ~ Start_control_ /\ time \in Nat
    BY NothingInFlight DEF Stalled, TypeOK
  <2>2. ASSUME "live" \notin request', UNCHANGED <<phase, response, topics>>,
               ~ Start_simulate_', ~ Start_control_', time' <= time
        PROVE  Stalled' /\ time' <= time
    <3>1. MessagesInFlight' = 0
      BY <2>1, <2>2, SlotCardinality DEF MessagesInFlight, topics
    <3>. QED  BY <2>1, <2>2, <3>1 DEF Stalled
  <2>3. CASE StartSimulator \/ IdleRound \/ ResetSimulation
    BY <2>1, <2>2, <2>3
    DEF StartSimulator, IdleRound, ResetSimulation, controller, service, topics
  <2>4. CASE ControlPeriod \/ FreePeriod \/ control_callback
    BY <2>1, <2>4 DEF ControlPeriod, FreePeriod, control_callback
  <2>5. CASE start_control_service
    BY <2>1, <2>2, <2>5 DEF start_control_service, controller, topics
  <2>6. CASE ControllerNext
    BY <2>1, <2>6
    DEF ControllerNext, RequestStart, ServiceNotAvailable, StartControlLoop,
        simulatorStateCallback, simulatorSensorCallback
  <2>7. CASE LoseMessage
    BY <2>1, <2>7 DEF LoseMessage
  <2>8. CASE Relaunch
    BY <2>8 DEF Relaunch, LInv
  <2>. QED  BY <2>3, <2>4, <2>5, <2>6, <2>7, <2>8 DEF Next, SimulatorNext
<1>. QED  BY InitLInv, NextLInv, TypeCorrect, <1>1, PTL DEF Spec, StallIsForEver
---------------------------------------------------------------------------------
(***************************************************************************)
(* How old a command and a policy may be, for all frequencies, any number  *)
(* of lost messages and any number of resets, as long as the controller is *)
(* not launched a second time beside a running simulator.                  *)
(***************************************************************************)
Measurements == simulator_state_data \cup simulator_sensor_data

\* A period that the simulator owes to a command it has received.
Owed == IF Start_control_ THEN 1 ELSE 0

Cycle == Wbc_control_frequency \div Mpc_control_frequency

---------------------------------------------------------------------------------
(***************************************************************************)
(* The start, and where the one message may be.                            *)
(***************************************************************************)
Started ==
  /\ relaunches = 0 /\ phase # "failed"
  /\ phase # "running" => joint_control_data = {} /\ Measurements = {} /\ MpcCount_ = 0
  /\ phase = "running" => policy # {}
  /\ phase # "waiting" => request = {} /\ response = {}
  /\ request \subseteq {"live"} /\ (response # {} => request = {})
  /\ joint_control_data = {} \/ Measurements = {}
  /\ StateEstimate => simulator_state_data = {}
  /\ ~ StateEstimate => simulator_sensor_data = {}

(***************************************************************************)
(* Whatever is under way was measured at most one period ago, counting the *)
(* period that is owed, and the simulator waits for it.                    *)
(***************************************************************************)
Prompt ==
  /\ \A t \in response \cup joint_control_data \cup Measurements :
       ~ Start_simulate_ /\ time + Owed <= t + 1
  /\ Start_control_ => \A t \in command : time <= t + 1

(***************************************************************************)
(* The solver's counter counts the periods since its run; without a reset  *)
(* it is as large as the age of the policy, and it never reaches a cycle.  *)
(***************************************************************************)
Counted ==
  /\ MpcCount_ = 0 \/ MpcCount_ < Cycle
  /\ phase = "running" =>
       /\ joint_control_data \subseteq {observation}
       /\ \A m \in Measurements : m <= observation + 1
       /\ \A since \in policy : observation <= since + MpcCount_

(***************************************************************************)
(* A policy from the future: the clock, and with it every new measurement, *)
(* then trails the solver's counter.                                       *)
(***************************************************************************)
Trailing ==
  /\ \A t \in response \cup Measurements : t <= time \/ time + Owed <= 1
  /\ phase = "running" => \A since \in policy :
       /\ since <= observation \/ observation <= MpcCount_
       /\ \A m \in Measurements : since <= m \/ m <= MpcCount_ + 1
       /\ Measurements # {} => since <= time \/ time + Owed <= MpcCount_ + 2
       /\ joint_control_data # {} => since <= time \/ time + Owed <= MpcCount_ + 1

RunInv == Started /\ Prompt /\ Counted /\ Trailing

LEMMA InitRunInv == Init => RunInv
<1>. SUFFICES ASSUME Init
              PROVE  RunInv
  OBVIOUS
<1>1. Measurements = {}
  BY DEF Init, Measurements
<1>. QED
  BY <1>1 DEF Init, RunInv, Started, Prompt, Counted, Trailing, Measurements

---------------------------------------------------------------------------------
\* Without a second launch: the controller has its policy before its first
\* measurement, and one message is under way.
LEMMA NextStarted ==
  ASSUME MaxRelaunches = 0, TypeOK, Started, [Next]_vars
  PROVE  Started'
<1>. USE DEF Started, Measurements, simulator, controller, service, topics, environment
<1>1. CASE StartSimulator \/ ControlPeriod \/ FreePeriod \/ IdleRound \/ ResetSimulation
  BY <1>1 DEF StartSimulator, ControlPeriod, FreePeriod, IdleRound, ResetSimulation
<1>2. CASE control_callback
  BY <1>2 DEF control_callback
<1>3. CASE start_control_service
  <2>1. phase = "waiting" /\ request # {}
    BY <1>3 DEF start_control_service
  <2>2. PICK client \in request : request' = request \ {client}
    BY <1>3 DEF start_control_service
  <2>3. response' # {} => request' = {}
    <3>1. response = {}
      BY <2>1
    <3>. QED  BY <1>3, <2>1, <2>2, <3>1 DEF start_control_service
  <2>. QED  BY <1>3, <2>1, <2>3 DEF start_control_service
<1>4. CASE RequestStart \/ ServiceNotAvailable
  BY <1>4 DEF RequestStart, ServiceNotAvailable
<1>5. CASE StartControlLoop
  BY <1>5 DEF StartControlLoop
<1>6. CASE simulatorStateCallback
  BY <1>6 DEF simulatorStateCallback, ControlStep
<1>7. CASE simulatorSensorCallback
  BY <1>7 DEF simulatorSensorCallback, ControlStep
<1>8. CASE LoseMessage
  BY <1>8 DEF LoseMessage
<1>9. CASE Relaunch
  BY <1>9 DEF Relaunch
<1>10. CASE UNCHANGED vars
  BY <1>10 DEF vars
<1>. QED
  BY <1>1, <1>2, <1>3, <1>4, <1>5, <1>6, <1>7, <1>8, <1>9, <1>10
  DEF Next, SimulatorNext, ControllerNext

\* What is under way was measured at most a period ago: no message waits for two periods,
\* since a period is only simulated once a command has come in.
LEMMA NextPrompt ==
  ASSUME MaxRelaunches = 0, TypeOK, Started, AppliedBeforeNext, Prompt, [Next]_vars
  PROVE  Prompt'
<1>. USE DEF Prompt, Measurements, Owed, simulator, controller, service, topics, environment
<1>0. time \in Nat /\ \A t \in response \cup joint_control_data \cup Measurements : t \in Nat
  BY DEF TypeOK, Slot
<1>1. CASE StartSimulator \/ IdleRound
  BY <1>1 DEF StartSimulator, IdleRound
<1>2. CASE ControlPeriod
  <2>1. \A t \in response \cup joint_control_data \cup Measurements : time + 1 <= t + 1
    BY <1>2 DEF ControlPeriod
  <2>2. \A t \in response \cup joint_control_data \cup Measurements : time' + 0 <= t + 1
    BY <1>0, <1>2, <2>1 DEF ControlPeriod
  <2>. QED  BY <1>2, <2>2 DEF ControlPeriod
<1>3. CASE FreePeriod
  <2>1. response = {} /\ joint_control_data = {} /\ Measurements = {}
    BY <1>3 DEF FreePeriod
  <2>. QED  BY <1>3, <2>1 DEF FreePeriod
<1>4. CASE control_callback
  <2>1. ~ Start_control_ /\ phase = "running"
    BY <1>4 DEF control_callback, AppliedBeforeNext, Started
  <2>2. response = {}
    BY <2>1 DEF Started
  <2>3. \A t \in command' : time' <= t + 1
    BY <1>0, <1>4, <2>1 DEF control_callback
  <2>4. Measurements' = {time} /\ joint_control_data' = {} /\ response' = {} /\ time' = time
    BY <1>4, <2>2 DEF control_callback
  <2>5. ~ Start_simulate_' /\ Start_control_'
    BY <1>4 DEF control_callback
  <2>. QED  BY <1>0, <2>3, <2>4, <2>5
<1>5. CASE start_control_service
  <2>1. ~ Start_simulate_' /\ time' = time /\ Start_control_' = Start_control_
    BY <1>5 DEF start_control_service
  <2>2. \A t \in response' : t \in response \/ t = time
    BY <1>5 DEF start_control_service
  <2>3. time + Owed <= time + 1
    BY <1>0
  <2>. QED  BY <1>5, <2>1, <2>2, <2>3 DEF start_control_service
<1>6. CASE RequestStart \/ ServiceNotAvailable
  BY <1>6 DEF RequestStart, ServiceNotAvailable
<1>7. CASE StartControlLoop
  BY <1>7 DEF StartControlLoop
<1>8. CASE simulatorStateCallback
  BY <1>8 DEF simulatorStateCallback, ControlStep
<1>9. CASE simulatorSensorCallback
  BY <1>9 DEF simulatorSensorCallback, ControlStep
<1>10. CASE ResetSimulation
  <2>1. \A t \in response \cup joint_control_data \cup Measurements : 0 + Owed <= t + 1
    BY <1>0
  <2>2. \A t \in command : 0 <= t + 1
    BY DEF TypeOK, Slot
  <2>. QED  BY <1>10, <2>1, <2>2 DEF ResetSimulation
<1>11. CASE LoseMessage
  BY <1>11 DEF LoseMessage
<1>12. CASE Relaunch
  BY <1>12 DEF Relaunch, Started
<1>13. CASE UNCHANGED vars
  BY <1>13 DEF vars
<1>. QED
  BY <1>1, <1>2, <1>3, <1>4, <1>5, <1>6, <1>7, <1>8, <1>9, <1>10, <1>11, <1>12, <1>13
  DEF Next, SimulatorNext, ControllerNext

\* The counter: a full cycle of messages resets it.
LEMMA CycleCounts ==
  ASSUME NEW n \in Nat, NEW t, MpcCount_ \in Nat, n = MpcCount_, ControlStep(t)
  PROVE  /\ MpcCount_' = 0 \/ MpcCount_' < Cycle
         /\ \/ policy' = {t} /\ MpcCount_' = 0
            \/ policy' = policy /\ MpcCount_' = n + 1
<1>. DEFINE c == Wbc_control_frequency \div Mpc_control_frequency
<1>1. c \in Nat
  BY ControlAssumption
<1>2. CASE n + 1 >= c
  BY <1>2 DEF ControlStep, MpcIsDue
<1>3. CASE ~ (n + 1 >= c)
  BY <1>1, <1>3 DEF ControlStep, MpcIsDue, Cycle
<1>. QED  BY <1>2, <1>3

\* What a measurement does, whichever topic brings it.
LEMMA MeasurementStep ==
  ASSUME TypeOK, Started, simulatorStateCallback \/ simulatorSensorCallback
  PROVE  /\ phase = "running" /\ joint_control_data = {} /\ Measurements' = {}
         /\ UNCHANGED <<simulator, service, environment>>
         /\ \E t \in Measurements :
              /\ t \in Nat
              /\ phase' = "running" /\ observation' = t /\ joint_control_data' = {t}
              /\ MpcCount_' = 0 \/ MpcCount_' < Cycle
              /\ \/ policy' = {t} /\ MpcCount_' = 0
                 \/ policy' = policy /\ MpcCount_' = MpcCount_ + 1
<1>1. phase = "running" /\ joint_control_data = {} /\ policy # {}
  BY DEF Started, Measurements, simulatorStateCallback, simulatorSensorCallback
<1>2. Measurements' = {} /\ UNCHANGED <<simulator, service, environment>>
  BY DEF Started, Measurements, simulatorStateCallback, simulatorSensorCallback, TypeOK
<1>3. PICK t \in Measurements : ControlStep(t)
  BY DEF Measurements, simulatorStateCallback, simulatorSensorCallback
<1>4. t \in Nat /\ MpcCount_ \in Nat
  BY DEF TypeOK, Slot, Measurements
<1>5. /\ MpcCount_' = 0 \/ MpcCount_' < Cycle
      /\ \/ policy' = {t} /\ MpcCount_' = 0
         \/ policy' = policy /\ MpcCount_' = MpcCount_ + 1
  BY <1>3, <1>4, CycleCounts
<1>6. phase' = "running" /\ observation' = t /\ joint_control_data' = {t}
  BY <1>1, <1>3, <1>5 DEF ControlStep
<1>. QED  BY <1>1, <1>2, <1>4, <1>5, <1>6

\* The age of the policy, in messages and in periods.
LEMMA NextCounted ==
  ASSUME MaxRelaunches = 0, TypeOK, Started, Prompt, Counted, [Next]_vars
  PROVE  Counted'
<1>. USE DEF Counted, Measurements
<1>0. /\ time \in Nat /\ observation \in Nat /\ MpcCount_ \in Nat
      /\ \A t \in response \cup joint_control_data \cup Measurements \cup policy : t \in Nat
  BY DEF TypeOK, Slot
<1>1. CASE StartSimulator \/ ControlPeriod \/ FreePeriod \/ IdleRound \/ ResetSimulation
  BY <1>1
  DEF StartSimulator, ControlPeriod, FreePeriod, IdleRound, ResetSimulation, controller, topics
<1>2. CASE control_callback
  <2>1. PICK c \in joint_control_data : TRUE
    BY <1>2 DEF control_callback
  <2>2. phase = "running" /\ c = observation
    BY <2>1, <1>2 DEF control_callback, Started
  <2>3. time <= observation + 1
    BY <1>0, <2>1, <2>2 DEF Prompt, Owed
  <2>4. Measurements' = {time} /\ joint_control_data' = {} /\ UNCHANGED controller
    BY <1>2 DEF control_callback
  <2>. QED  BY <2>3, <2>4 DEF controller
<1>3. CASE start_control_service
  BY <1>3 DEF start_control_service, controller, topics
<1>4. CASE RequestStart \/ ServiceNotAvailable
  BY <1>4 DEF RequestStart, ServiceNotAvailable, topics
<1>5. CASE StartControlLoop
  <2>1. PICK t \in response : observation' = t /\ policy' = {t} /\ joint_control_data' = {t}
    BY <1>5 DEF StartControlLoop
  <2>2. Measurements' = {} /\ MpcCount_' = MpcCount_
    BY <1>5 DEF StartControlLoop, Started
  <2>. QED  BY <1>0, <2>1, <2>2
<1>6. CASE simulatorStateCallback \/ simulatorSensorCallback
  <2>1. PICK t \in Measurements :
          /\ phase = "running" /\ Measurements' = {} /\ t \in Nat
          /\ observation' = t /\ joint_control_data' = {t}
          /\ MpcCount_' = 0 \/ MpcCount_' < Cycle
          /\ \/ policy' = {t} /\ MpcCount_' = 0
             \/ policy' = policy /\ MpcCount_' = MpcCount_ + 1
    BY <1>6, MeasurementStep
  <2>2. t <= observation + 1
    BY <2>1
  <2>3. \A since \in policy' : observation' <= since + MpcCount_'
    <3>1. CASE policy' = {t} /\ MpcCount_' = 0
      BY <2>1, <3>1
    <3>2. CASE policy' = policy /\ MpcCount_' = MpcCount_ + 1
      BY <1>0, <2>1, <2>2, <3>2
    <3>. QED  BY <2>1, <3>1, <3>2
  <2>4. joint_control_data' \subseteq {observation'} /\ \A m \in Measurements' : m <= observation' + 1
    BY <2>1
  <2>5. MpcCount_' = 0 \/ MpcCount_' < Cycle
    BY <2>1
  <2>. QED  BY <2>3, <2>4, <2>5
<1>7. CASE LoseMessage
  BY <1>7 DEF LoseMessage, controller
<1>8. CASE Relaunch
  BY <1>8 DEF Relaunch, Started
<1>9. CASE UNCHANGED vars
  BY <1>9 DEF vars, controller, topics
<1>. QED
  BY <1>1, <1>2, <1>3, <1>4, <1>5, <1>6, <1>7, <1>8, <1>9
  DEF Next, SimulatorNext, ControllerNext

\* After a reset: the clock, the message under way and the observation trail the counter.
LEMMA NextTrailing ==
  ASSUME MaxRelaunches = 0, TypeOK, Started, AppliedBeforeNext, Prompt, Counted, Trailing,
         [Next]_vars
  PROVE  Trailing'
<1>. USE DEF Trailing, Measurements, Owed
<1>0. /\ time \in Nat /\ observation \in Nat /\ MpcCount_ \in Nat
      /\ \A t \in response \cup joint_control_data \cup Measurements \cup policy : t \in Nat
  BY DEF TypeOK, Slot
<1>1. CASE StartSimulator \/ IdleRound
  BY <1>1 DEF StartSimulator, IdleRound, controller, service, topics
<1>2. CASE ControlPeriod
  <2>1. /\ time' = time + 1 /\ Start_control_ /\ ~ Start_control_'
        /\ UNCHANGED <<controller, service, topics>>
    BY <1>2 DEF ControlPeriod
  <2>2. \A t \in response \cup Measurements : t <= time + 1 \/ time + 1 <= 1
    BY <1>0, <2>1
  <2>3. phase = "running" => \A since \in policy :
          /\ Measurements # {} => since <= time + 1 \/ time + 1 <= MpcCount_ + 2
          /\ joint_control_data # {} => since <= time + 1 \/ time + 1 <= MpcCount_ + 1
    BY <1>0, <2>1
  <2>. QED  BY <1>0, <2>1, <2>2, <2>3 DEF controller, service, topics
<1>3. CASE FreePeriod
  <2>1. response = {} /\ joint_control_data = {} /\ Measurements = {}
    BY <1>3 DEF FreePeriod, Prompt
  <2>. QED  BY <1>3, <2>1 DEF FreePeriod, controller, service, topics
<1>4. CASE control_callback
  <2>1. ~ Start_control_ /\ phase = "running" /\ joint_control_data # {}
    BY <1>4 DEF control_callback, AppliedBeforeNext, Started
  <2>2. /\ Measurements' = {time} /\ joint_control_data' = {} /\ response' = {}
        /\ time' = time /\ Start_control_' /\ UNCHANGED controller
    BY <1>4, <2>1 DEF control_callback, service, Started
  <2>3. \A since \in policy : since <= time \/ time <= MpcCount_ + 1
    BY <1>0, <2>1
  <2>4. \A since \in policy : since <= time \/ time + 1 <= MpcCount_ + 2
    BY <1>0, <2>3
  <2>. QED  BY <1>0, <2>1, <2>2, <2>3, <2>4 DEF controller
<1>5. CASE start_control_service
  <2>1. /\ time' = time /\ Start_control_' = Start_control_ /\ UNCHANGED <<controller, topics>>
        /\ \A t \in response' : t \in response \/ t = time
    BY <1>5 DEF start_control_service
  <2>. QED  BY <1>0, <2>1 DEF controller, topics
<1>6. CASE RequestStart \/ ServiceNotAvailable
  BY <1>6 DEF RequestStart, ServiceNotAvailable, simulator, topics, service
<1>7. CASE StartControlLoop
  <2>1. PICK t \in response : observation' = t /\ policy' = {t} /\ joint_control_data' = {t}
    BY <1>7 DEF StartControlLoop
  <2>2. /\ Measurements' = {} /\ response' = {} /\ MpcCount_' = 0
        /\ time' = time /\ Start_control_' = Start_control_
    BY <1>7 DEF StartControlLoop, Started, simulator
  <2>3. t <= time \/ time + Owed <= 1
    BY <2>1
  <2>. QED  BY <1>0, <2>1, <2>2, <2>3
<1>8. CASE simulatorStateCallback \/ simulatorSensorCallback
  <2>1. PICK t \in Measurements :
          /\ phase = "running" /\ Measurements' = {} /\ t \in Nat
          /\ observation' = t /\ joint_control_data' = {t}
          /\ \/ policy' = {t} /\ MpcCount_' = 0
             \/ policy' = policy /\ MpcCount_' = MpcCount_ + 1
    BY <1>8, MeasurementStep
  <2>2. response' = {} /\ time' = time /\ Start_control_' = Start_control_
    BY <1>8, <2>1, MeasurementStep DEF Started, simulator, service
  <2>3. t <= time \/ time + Owed <= 1
    BY <2>1
  <2>4. \A since \in policy : /\ since <= t \/ t <= MpcCount_ + 1
                              /\ since <= time \/ time + Owed <= MpcCount_ + 2
    BY <2>1
  <2>5. CASE policy' = {t} /\ MpcCount_' = 0
    BY <1>0, <2>1, <2>2, <2>3, <2>5
  <2>6. CASE policy' = policy /\ MpcCount_' = MpcCount_ + 1
    <3>1. \A since \in policy : /\ since <= t \/ t <= MpcCount_'
                                /\ since <= time \/ time + Owed <= MpcCount_' + 1
      BY <1>0, <2>4, <2>6
    <3>. QED  BY <2>1, <2>2, <2>6, <3>1
  <2>. QED  BY <2>1, <2>5, <2>6
<1>9. CASE ResetSimulation
  <2>1. time' = 0 /\ Start_control_' = Start_control_ /\ UNCHANGED <<controller, service, topics>>
    BY <1>9 DEF ResetSimulation
  <2>2. 0 + Owed <= 1 /\ 0 + Owed <= MpcCount_ + 2 /\ 0 + Owed <= MpcCount_ + 1
    BY <1>0
  <2>. QED  BY <2>1, <2>2 DEF controller, service, topics
<1>10. CASE LoseMessage
  BY <1>10 DEF LoseMessage, simulator, controller, service
<1>11. CASE Relaunch
  BY <1>11 DEF Relaunch, Started
<1>12. CASE UNCHANGED vars
  BY <1>12 DEF vars, simulator, controller, service, topics
<1>. QED
  BY <1>1, <1>2, <1>3, <1>4, <1>5, <1>6, <1>7, <1>8, <1>9, <1>10, <1>11, <1>12
  DEF Next, SimulatorNext, ControllerNext

---------------------------------------------------------------------------------
\* The four parts together.
LEMMA RunInvariant ==
  ASSUME MaxRelaunches = 0
  PROVE  Spec => []RunInv
<1>1. TypeOK /\ AppliedBeforeNext /\ RunInv /\ [Next]_vars => RunInv'
  BY NextStarted, NextPrompt, NextCounted, NextTrailing DEF RunInv
<1>. QED  BY InitRunInv, TypeCorrect, AppliedBeforeNextInvariant, <1>1, PTL DEF Spec

\* No measurement meets a controller without a policy, whatever is lost or reset.
THEOREM PolicyComesFirst ==
  ASSUME MaxRelaunches = 0
  PROVE  Spec => []PolicyBeforeCommand
<1>1. RunInv => PolicyBeforeCommand
  BY DEF RunInv, Started, PolicyBeforeCommand
<1>. QED  BY RunInvariant, <1>1, PTL

\* The command the joints follow for a period is at most one period old.
THEOREM CommandsAreFresh ==
  ASSUME MaxRelaunches = 0
  PROVE  Spec => LagAtMostOnePeriod
<1>1. TypeOK /\ RunInv /\ [Next]_vars =>
        [ControlPeriod => \A measured \in command : time - measured <= 1 + relaunches]_vars
  <2>. SUFFICES ASSUME TypeOK, RunInv, ControlPeriod, NEW measured \in command
                PROVE  time - measured <= 1 + relaunches
    OBVIOUS
  <2>1. time \in Nat /\ measured \in Nat /\ relaunches = 0
    BY DEF TypeOK, Slot, RunInv, Started
  <2>2. time <= measured + 1
    BY DEF RunInv, Prompt, ControlPeriod
  <2>. QED  BY <2>1, <2>2
<1>. QED  BY RunInvariant, TypeCorrect, <1>1, PTL DEF Spec, LagAtMostOnePeriod

\* A number of messages below a cycle is a time below the period of the solver.
LEMMA BelowCycle ==
  ASSUME NEW n \in Nat, n = 0 \/ n < Cycle
  PROVE  n * Mpc_control_frequency < Wbc_control_frequency
<1>. DEFINE w == Wbc_control_frequency
            m == Mpc_control_frequency
<1>1. w \in Nat \ {0} /\ m \in Nat \ {0}
  BY ControlAssumption
<1>2. CASE n = 0
  BY <1>1, <1>2
<1>3. CASE n < Cycle
  <2>1. PICK q \in Nat, r \in Nat : q = w \div m /\ r = w % m /\ w = m * q + r
    BY <1>1
  <2>2. n + 1 <= q
    BY <1>3, <2>1 DEF Cycle
  <2>3. (n + 1) * m <= q * m
    BY <1>1, <2>1, <2>2
  <2>4. n * m + m <= w
    BY <1>1, <2>1, <2>3
  <2>. QED  BY <1>1, <2>4
<1>. QED  BY <1>2, <1>3

\* The policy that is evaluated is never older than the period of the solver.
THEOREM SolverKeepsItsRate ==
  ASSUME MaxRelaunches = 0
  PROVE  Spec => []MpcKeepsItsRate
<1>1. TypeOK /\ RunInv => MpcKeepsItsRate
  <2>. SUFFICES ASSUME TypeOK, RunInv, phase = "running", NEW since \in policy
                PROVE  (observation - since) * Mpc_control_frequency < Wbc_control_frequency
    BY DEF MpcKeepsItsRate
  <2>1. PICK o \in Nat, s \in Nat, n \in Nat, m \in Nat :
          o = observation /\ s = since /\ n = MpcCount_ /\ m = Mpc_control_frequency
    BY ControlAssumption DEF TypeOK, Slot
  <2>2. o - s <= n
    BY <2>1 DEF RunInv, Counted
  <2>3. (o - s) * m <= n * m
    BY <2>1, <2>2
  <2>4. n * m < Wbc_control_frequency
    BY <2>1, BelowCycle DEF RunInv, Counted
  <2>5. Wbc_control_frequency \in Nat
    BY ControlAssumption
  <2>. QED  BY <2>1, <2>3, <2>4, <2>5
<1>. QED  BY RunInvariant, TypeCorrect, <1>1, PTL

\* After a reset of the simulation a policy from the future is evaluated for less than a
\* period of the solver, however often the user resets.
THEOREM FuturePolicyEnds ==
  ASSUME MaxRelaunches = 0
  PROVE  Spec => []FuturePolicyIsReplaced
<1>1. TypeOK /\ RunInv => FuturePolicyIsReplaced
  <2>. SUFFICES ASSUME TypeOK, RunInv, phase = "running", NEW since \in policy,
                       since > observation + relaunches
                PROVE  observation * Mpc_control_frequency < Wbc_control_frequency
    BY DEF FuturePolicyIsReplaced
  <2>1. PICK o \in Nat, s \in Nat, n \in Nat, m \in Nat :
          o = observation /\ s = since /\ n = MpcCount_ /\ m = Mpc_control_frequency
    BY ControlAssumption DEF TypeOK, Slot
  <2>2. o <= n
    BY <2>1 DEF RunInv, Trailing, Started
  <2>3. o * m <= n * m
    BY <2>1, <2>2
  <2>4. n * m < Wbc_control_frequency
    BY <2>1, BelowCycle DEF RunInv, Counted
  <2>5. Wbc_control_frequency \in Nat
    BY ControlAssumption
  <2>. QED  BY <2>1, <2>3, <2>4, <2>5
<1>. QED  BY RunInvariant, TypeCorrect, <1>1, PTL

---------------------------------------------------------------------------------
(***************************************************************************)
(* Without resets the delay is exact, and the loop implements the          *)
(* sampled-data loop.  Messages may still be lost.                         *)
(***************************************************************************)
Exact ==
  /\ resets = 0
  /\ Start_simulate_ => /\ command = {} /\ response = {} /\ joint_control_data = {}
                        /\ Measurements = {} /\ ~ Start_control_
  /\ command # {} => phase = "running"
  /\ Start_control_ => command # {} /\ \A t \in joint_control_data \cup Measurements : t = time
  /\ ~ Start_control_ /\ command # {} =>
       \A t \in joint_control_data \cup Measurements : t + 1 = time
  /\ command = {} => \A t \in response \cup joint_control_data \cup Measurements : t = time

LEMMA NextExact ==
  ASSUME MaxRelaunches = 0, MaxResets = 0, TypeOK, Started, AppliedBeforeNext, Exact, [Next]_vars
  PROVE  Exact'
<1>. USE DEF Exact, Measurements
<1>0. time \in Nat
  BY DEF TypeOK
<1>1. CASE StartSimulator \/ IdleRound
  BY <1>1 DEF StartSimulator, IdleRound, controller, service, topics, environment
<1>2. CASE ControlPeriod
  <2>1. \A t \in joint_control_data \cup Measurements : t + 1 = time + 1
    BY <1>2 DEF ControlPeriod
  <2>. QED  BY <1>2, <2>1 DEF ControlPeriod, controller, service, topics, environment
<1>3. CASE FreePeriod
  BY <1>3 DEF FreePeriod, controller, service, topics, environment
<1>4. CASE control_callback
  <2>1. phase = "running" /\ response = {}
    BY <1>4 DEF control_callback, Started
  <2>2. /\ command' # {} /\ Start_control_' /\ ~ Start_simulate_'
        /\ Measurements' = {time} /\ joint_control_data' = {}
        /\ time' = time /\ UNCHANGED <<controller, service, environment>>
    BY <1>4 DEF control_callback
  <2>. QED  BY <2>1, <2>2 DEF controller, service, environment
<1>5. CASE start_control_service
  <2>1. phase = "waiting" /\ command = {}
    BY <1>5 DEF start_control_service, Started
  <2>2. /\ ~ Start_simulate_' /\ time' = time
        /\ UNCHANGED <<Start_control_, command, controller, topics, environment>>
        /\ \A t \in response' : t \in response \/ t = time
    BY <1>5 DEF start_control_service
  <2>. QED  BY <2>1, <2>2 DEF controller, topics, environment
<1>6. CASE RequestStart \/ ServiceNotAvailable
  BY <1>6 DEF RequestStart, ServiceNotAvailable, simulator, topics, service, environment
<1>7. CASE StartControlLoop
  <2>1. command = {} /\ Measurements = {} /\ ~ Start_control_
    BY <1>7 DEF StartControlLoop, Started
  <2>2. PICK t \in response : joint_control_data' = {t}
    BY <1>7 DEF StartControlLoop
  <2>. QED  BY <1>7, <2>1, <2>2 DEF StartControlLoop, simulator, environment
<1>8. CASE simulatorStateCallback \/ simulatorSensorCallback
  <2>1. PICK t \in Measurements :
          /\ phase = "running" /\ phase' = "running"
          /\ Measurements' = {} /\ joint_control_data' = {t}
    BY <1>8, MeasurementStep
  <2>2. UNCHANGED <<simulator, service, environment>>
    BY <1>8, MeasurementStep
  <2>3. response = {}
    BY <2>1 DEF Started
  <2>. QED  BY <2>1, <2>2, <2>3 DEF simulator, service, environment
<1>9. CASE ResetSimulation
  BY <1>9 DEF ResetSimulation
<1>10. CASE LoseMessage
  BY <1>10 DEF LoseMessage, simulator, controller, service
<1>11. CASE Relaunch
  BY <1>11 DEF Relaunch, Started
<1>12. CASE UNCHANGED vars
  BY <1>12 DEF vars, simulator, controller, service, topics, environment
<1>. QED
  BY <1>1, <1>2, <1>3, <1>4, <1>5, <1>6, <1>7, <1>8, <1>9, <1>10, <1>11, <1>12
  DEF Next, SimulatorNext, ControllerNext

\* Where the sample is, put without looking for it in five places.
SampleKnown ==
  /\ Start_simulate_ => NextSample = 0
  /\ Start_control_ => command = {NextSample}
  /\ ~ Start_simulate_ /\ ~ Start_control_ /\ command = {} => NextSample = time
  /\ ~ Start_simulate_ /\ ~ Start_control_ /\ command # {} => NextSample = time - 1

LEMMA SampleIsKnown ==
  ASSUME TypeOK, Started, Exact
  PROVE  SampleKnown
<1>. DEFINE newest(messages) == CHOOSE t \in messages : TRUE
            under == joint_control_data \cup simulator_state_data \cup simulator_sensor_data
<1>0. under = joint_control_data \cup Measurements /\ time \in Nat
  BY DEF Measurements, TypeOK
<1>1. ASSUME NEW messages, NEW c, messages # {}, \A t \in messages : t = c
      PROVE  newest(messages) = c
  BY <1>1
<1>2. CASE Start_simulate_
  BY <1>2 DEF SampleKnown, NextSample, Exact
<1>3. CASE ~ Start_simulate_ /\ Start_control_
  <2>1. PICK c \in command : TRUE
    BY <1>3 DEF Exact
  <2>2. command = {c}
    BY <2>1 DEF TypeOK, Slot
  <2>3. newest(command) = c
    BY <1>1, <2>2
  <2>. QED  BY <1>3, <2>2, <2>3 DEF SampleKnown, NextSample
<1>4. CASE ~ Start_simulate_ /\ ~ Start_control_ /\ command = {}
  <2>1. \A t \in response \cup under : t = time
    BY <1>0, <1>4 DEF Exact
  <2>2. response # {} => newest(response) = time
    BY <1>1, <2>1
  <2>3. under # {} => newest(under) = time
    BY <1>1, <2>1
  <2>. QED  BY <1>4, <2>2, <2>3 DEF SampleKnown, NextSample
<1>5. CASE ~ Start_simulate_ /\ ~ Start_control_ /\ command # {}
  <2>1. response = {}
    BY <1>5 DEF Exact, Started
  <2>2. \A t \in under : t = time - 1
    <3>1. \A t \in under : t \in Nat /\ t + 1 = time
      BY <1>0, <1>5 DEF Exact, TypeOK, Slot
    <3>. QED  BY <1>0, <3>1
  <2>3. under # {} => newest(under) = time - 1
    BY <1>1, <2>2
  <2>. QED  BY <1>5, <2>1, <2>3 DEF SampleKnown, NextSample
<1>. QED  BY <1>2, <1>3, <1>4, <1>5

LEMMA StepImplements ==
  ASSUME MaxRelaunches = 0, MaxResets = 0, TypeOK, TypeOK', Started, Started',
         AppliedBeforeNext, Exact, Exact', SampleKnown, SampleKnown', [Next]_vars
  PROVE  [Sampled!SNext]_Sampled!svars
<1>. USE DEF Sampled!SNext, Sampled!svars, Sampled!FreePeriod, Sampled!Start, Sampled!Period
<1>0. time \in Nat
  BY DEF TypeOK
<1>1. CASE UNCHANGED <<time, Start_simulate_, Start_control_, command>>
  <2>1. NextSample' = NextSample
    BY <1>1 DEF SampleKnown
  <2>. QED  BY <1>1, <2>1
<1>2. CASE ControlPeriod
  <2>1. ~ Start_simulate_ /\ command # {}
    BY <1>2 DEF ControlPeriod, Exact
  <2>2. NextSample' = (time + 1) - 1
    BY <1>2, <2>1 DEF ControlPeriod, SampleKnown
  <2>. QED  BY <1>0, <1>2, <2>1, <2>2 DEF ControlPeriod
<1>3. CASE FreePeriod
  <2>1. NextSample' = 0 /\ NextSample = 0
    BY <1>3 DEF FreePeriod, SampleKnown
  <2>. QED  BY <1>3, <2>1 DEF FreePeriod
<1>4. CASE control_callback
  <2>1. ~ Start_control_ /\ ~ Start_simulate_
    BY <1>4 DEF control_callback, AppliedBeforeNext, Exact
  <2>2. PICK c \in joint_control_data : joint_control_data = {c} /\ c \in Nat
    <3>1. PICK c \in joint_control_data : TRUE
      BY <1>4 DEF control_callback
    <3>2. joint_control_data = {c} /\ c \in Nat
      BY <3>1 DEF TypeOK, Slot
    <3>. QED  BY <3>1, <3>2
  <2>3. NextSample = c
    <3>1. CASE command = {}
      BY <2>1, <2>2, <3>1 DEF Exact, SampleKnown
    <3>2. CASE command # {}
      <4>1. c + 1 = time /\ NextSample = time - 1
        BY <2>1, <2>2, <3>2 DEF Exact, SampleKnown
      <4>. QED  BY <1>0, <2>2, <4>1
    <3>. QED  BY <3>1, <3>2
  <2>4. NextSample' = c
    <3>1. command' = {c} /\ Start_control_'
      BY <1>4, <2>2 DEF control_callback
    <3>. QED  BY <3>1 DEF SampleKnown
  <2>. QED  BY <1>4, <2>1, <2>3, <2>4 DEF control_callback
<1>5. CASE start_control_service
  <2>1. phase = "waiting" /\ command = {} /\ ~ Start_control_
    BY <1>5 DEF start_control_service, Started, Exact
  <2>2. NextSample' = time
    BY <1>5, <2>1 DEF start_control_service, SampleKnown
  <2>3. ~ Start_simulate_ => NextSample = time
    BY <2>1 DEF SampleKnown
  <2>. QED  BY <1>5, <2>2, <2>3 DEF start_control_service
<1>6. CASE ResetSimulation \/ Relaunch
  BY <1>6 DEF ResetSimulation, Relaunch, Exact, Started
<1>7. CASE \/ StartSimulator \/ IdleRound \/ ControllerNext \/ LoseMessage \/ UNCHANGED vars
  BY <1>1, <1>7
  DEF StartSimulator, IdleRound, ControllerNext, RequestStart, ServiceNotAvailable,
      StartControlLoop, simulatorStateCallback, simulatorSensorCallback, LoseMessage, vars,
      simulator
<1>. QED  BY <1>2, <1>3, <1>4, <1>5, <1>6, <1>7 DEF Next, SimulatorNext

\* One service, two topics of depth one and three flags amount to a sampled-data loop with
\* a delay of one period: every step of the two processes is one of its steps or none.
THEOREM LoopImplementsSampledControl ==
  ASSUME MaxRelaunches = 0, MaxResets = 0
  PROVE  Spec => ImplementsSampledControl
<1>1. Init => Exact
  BY DEF Init, Exact, Measurements
<1>2. TypeOK /\ Started /\ AppliedBeforeNext /\ Exact /\ [Next]_vars => Exact'
  BY NextExact
<1>3. Init => Sampled!SInit
  BY DEF Init, Sampled!SInit, NextSample
<1>4. RunInv => Started
  BY DEF RunInv
<1>5. TypeOK /\ Started /\ Exact => SampleKnown
  BY SampleIsKnown
<1>6. /\ TypeOK /\ TypeOK' /\ Started /\ Started' /\ AppliedBeforeNext /\ Exact /\ Exact'
      /\ SampleKnown /\ SampleKnown' /\ [Next]_vars
      => [Sampled!SNext]_Sampled!svars
  BY StepImplements
<1>. QED
  BY RunInvariant, TypeCorrect, AppliedBeforeNextInvariant, <1>1, <1>2, <1>3, <1>4, <1>5, <1>6,
     PTL
  DEF Spec, ImplementsSampledControl, Sampled!SSpec

---------------------------------------------------------------------------------
\* A measurement under way is that of the period after the observation, or, the first
\* time, of the observation itself.
Consecutive ==
  phase = "running" => \A m \in Measurements : m \in {observation, observation + 1}

LEMMA NextConsecutive ==
  ASSUME MaxRelaunches = 0, TypeOK, Started, AppliedBeforeNext, Counted, Exact, Consecutive,
         [Next]_vars
  PROVE  Consecutive'
<1>. USE DEF Consecutive, Measurements
<1>1. CASE control_callback
  <2>1. PICK c \in joint_control_data : TRUE
    BY <1>1 DEF control_callback
  <2>2. ~ Start_control_ /\ c = observation
    BY <1>1, <2>1 DEF control_callback, AppliedBeforeNext, Started, Counted
  <2>3. time = c \/ time = c + 1
    BY <2>1, <2>2 DEF Exact
  <2>4. Measurements' = {time} /\ observation' = observation
    BY <1>1 DEF control_callback, controller
  <2>. QED  BY <2>2, <2>3, <2>4
<1>2. CASE simulatorStateCallback \/ simulatorSensorCallback
  BY <1>2, MeasurementStep
<1>3. CASE StartControlLoop
  BY <1>3 DEF StartControlLoop, Started
<1>4. CASE LoseMessage \/ Relaunch \/ RequestStart \/ ServiceNotAvailable
  BY <1>4 DEF LoseMessage, Relaunch, RequestStart, ServiceNotAvailable, controller, topics, Started
<1>5. CASE \/ StartSimulator \/ ControlPeriod \/ FreePeriod \/ IdleRound \/ ResetSimulation
           \/ start_control_service \/ UNCHANGED vars
  BY <1>5
  DEF StartSimulator, ControlPeriod, FreePeriod, IdleRound, ResetSimulation,
      start_control_service, vars, controller, topics
<1>. QED  BY <1>1, <1>2, <1>3, <1>4, <1>5 DEF Next, SimulatorNext, ControllerNext

\* The state estimator integrates over one period at a time: it sees no gap in the
\* measurements and none twice, except the first.
THEOREM MeasurementsAreConsecutive ==
  ASSUME MaxRelaunches = 0, MaxResets = 0
  PROVE  Spec => NoMeasurementSkipped
<1>1. Init => Exact /\ Consecutive
  BY DEF Init, Exact, Measurements, Consecutive
<1>2. TypeOK /\ Started /\ AppliedBeforeNext /\ Exact /\ [Next]_vars => Exact'
  BY NextExact
<1>3. /\ TypeOK /\ Started /\ AppliedBeforeNext /\ Counted /\ Exact /\ Consecutive /\ [Next]_vars
      => Consecutive'
  BY NextConsecutive
<1>4. TypeOK /\ Started /\ Consecutive /\ [Next]_vars =>
        [phase = "running" /\ observation' # observation => observation' = observation + 1]_vars
  <2>. SUFFICES ASSUME TypeOK, Started, Consecutive, Next, phase = "running",
                       observation' # observation
                PROVE  observation' = observation + 1
    OBVIOUS
  <2>1. CASE simulatorStateCallback \/ simulatorSensorCallback
    BY <2>1, MeasurementStep DEF Consecutive
  <2>2. CASE StartControlLoop \/ Relaunch
    BY <2>2 DEF StartControlLoop, Relaunch, Started
  <2>3. CASE \/ SimulatorNext \/ RequestStart \/ ServiceNotAvailable \/ ResetSimulation
             \/ LoseMessage
    BY <2>3
    DEF SimulatorNext, StartSimulator, ControlPeriod, FreePeriod, IdleRound, control_callback,
        start_control_service, RequestStart, ServiceNotAvailable, ResetSimulation, LoseMessage,
        controller
  <2>. QED  BY <2>1, <2>2, <2>3 DEF Next, ControllerNext
<1>5. RunInv => Started /\ Counted
  BY DEF RunInv
<1>. QED
  BY RunInvariant, TypeCorrect, AppliedBeforeNextInvariant, <1>1, <1>2, <1>3, <1>4, <1>5, PTL
  DEF Spec, NoMeasurementSkipped

---------------------------------------------------------------------------------
(***************************************************************************)
(* When the solver runs.  Without resets its counter is not only at least  *)
(* the age of the policy but that age exactly, or one more in the first    *)
(* cycle, where the measurement that answers the first command is taken at *)
(* the time of the state the first policy was computed from.               *)
(***************************************************************************)
Aged ==
  /\ phase # "running" => policy = {}
  /\ Measurements # {} => command # {}
  /\ command = {} => MpcCount_ = 0
  /\ phase = "running" => \A since \in policy :
       \/ /\ observation = since + MpcCount_
          /\ \A m \in Measurements : m = observation + 1 \/ (m = observation /\ MpcCount_ = 0)
       \/ /\ observation + 1 = since + MpcCount_ /\ MpcCount_ # 0
          /\ \A m \in Measurements : m = observation + 1

LEMMA NextAged ==
  ASSUME MaxRelaunches = 0, TypeOK, Started, AppliedBeforeNext, Counted, Exact, Aged, [Next]_vars
  PROVE  Aged'
<1>. USE DEF Aged, Measurements
<1>0. /\ observation \in Nat /\ MpcCount_ \in Nat
      /\ \A t \in Measurements \cup policy : t \in Nat
  BY DEF TypeOK, Slot
<1>1. CASE StartSimulator \/ ControlPeriod \/ FreePeriod \/ IdleRound \/ ResetSimulation
  BY <1>1
  DEF StartSimulator, ControlPeriod, FreePeriod, IdleRound, ResetSimulation, controller, topics
<1>2. CASE control_callback
  <2>1. PICK c \in joint_control_data : command' = joint_control_data
    BY <1>2 DEF control_callback
  <2>2. /\ ~ Start_control_ /\ phase = "running" /\ c = observation
        /\ UNCHANGED <<phase, observation, MpcCount_, policy>>
    BY <1>2, <2>1 DEF control_callback, AppliedBeforeNext, Started, Counted, controller
  <2>3. (time = observation /\ command = {}) \/ time = observation + 1
    BY <2>1, <2>2 DEF Exact
  <2>4. Measurements' = {time}
    BY <1>2 DEF control_callback
  <2>5. command' # {}
    BY <2>1
  <2>6. Measurements = {}
    BY <2>1 DEF Started
  <2>7. CASE time = observation /\ MpcCount_ = 0
    BY <1>0, <2>2, <2>4, <2>5, <2>6, <2>7
  <2>8. CASE time = observation + 1
    BY <1>0, <2>2, <2>4, <2>5, <2>6, <2>8
  <2>. QED  BY <2>3, <2>7, <2>8
<1>3. CASE start_control_service \/ RequestStart \/ ServiceNotAvailable
  BY <1>3
  DEF start_control_service, RequestStart, ServiceNotAvailable, simulator, controller, topics,
      Started
<1>4. CASE StartControlLoop
  <2>1. PICK t \in response : observation' = t /\ policy' = {t}
    BY <1>4 DEF StartControlLoop
  <2>2. t \in Nat
    BY <2>1 DEF TypeOK, Slot
  <2>3. Measurements' = {} /\ MpcCount_' = 0 /\ command' = command /\ phase' = "running"
    BY <1>4 DEF StartControlLoop, Started, simulator
  <2>. QED  BY <2>1, <2>2, <2>3
<1>5. CASE simulatorStateCallback \/ simulatorSensorCallback
  <2>1. PICK t \in Measurements :
          /\ phase = "running" /\ phase' = "running"
          /\ Measurements' = {} /\ t \in Nat /\ observation' = t
          /\ \/ policy' = {t} /\ MpcCount_' = 0
             \/ policy' = policy /\ MpcCount_' = MpcCount_ + 1
    BY <1>5, MeasurementStep
  <2>2. command' = command
    BY <1>5, MeasurementStep DEF simulator
  <2>3. command # {}
    BY <2>1
  <2>4. CASE policy' = {t} /\ MpcCount_' = 0
    BY <2>1, <2>2, <2>3, <2>4
  <2>5. CASE policy' = policy /\ MpcCount_' = MpcCount_ + 1
    <3>1. ASSUME NEW since \in policy
          PROVE  \/ t = since + (MpcCount_ + 1)
                 \/ t + 1 = since + (MpcCount_ + 1)
      <4>1. PICK o \in Nat, n \in Nat, s \in Nat : o = observation /\ n = MpcCount_ /\ s = since
        BY <1>0
      <4>2. \/ o = s + n /\ (t = o + 1 \/ (t = o /\ n = 0))
            \/ o + 1 = s + n /\ t = o + 1
        BY <2>1, <4>1
      <4>3. t = s + (n + 1) \/ t + 1 = s + (n + 1)
        BY <2>1, <4>2
      <4>. QED  BY <4>1, <4>3
    <3>. QED  BY <1>0, <2>1, <2>2, <2>3, <2>5, <3>1
  <2>. QED  BY <2>1, <2>4, <2>5
<1>6. CASE LoseMessage \/ Relaunch
  BY <1>6 DEF LoseMessage, Relaunch, simulator, controller, Started
<1>7. CASE UNCHANGED vars
  BY <1>7 DEF vars, simulator, controller, topics
<1>. QED
  BY <1>1, <1>2, <1>3, <1>4, <1>5, <1>6, <1>7 DEF Next, SimulatorNext, ControllerNext

\* The age of the policy, without resets, in every state.
LEMMA AgedInvariant ==
  ASSUME MaxRelaunches = 0, MaxResets = 0
  PROVE  Spec => []Aged
<1>1. Init => Exact /\ Aged
  BY DEF Init, Exact, Measurements, Aged
<1>2. TypeOK /\ Started /\ AppliedBeforeNext /\ Exact /\ [Next]_vars => Exact'
  BY NextExact
<1>3. /\ TypeOK /\ Started /\ AppliedBeforeNext /\ Counted /\ Exact /\ Aged /\ [Next]_vars
      => Aged'
  BY NextAged
<1>4. RunInv => Started /\ Counted
  BY DEF RunInv
<1>. QED
  BY RunInvariant, TypeCorrect, AppliedBeforeNextInvariant, <1>1, <1>2, <1>3, <1>4, PTL DEF Spec

\* A new policy is a full cycle of messages younger than the one before, or one less.
LEMMA SolverRunStep ==
  ASSUME MaxRelaunches = 0, Mpc_control_frequency <= Wbc_control_frequency,
         TypeOK, Started, Counted, Aged, Next, policy # {}, policy' # policy,
         NEW old \in policy, NEW new \in policy'
  PROVE  (new - old) - Cycle \in {-1, 0}
<1>0. Cycle \in Nat /\ Cycle >= 1
  <2>1. Wbc_control_frequency \in Nat \ {0} /\ Mpc_control_frequency \in Nat \ {0}
    BY ControlAssumption
  <2>. QED  BY <2>1 DEF Cycle
<1>1. CASE simulatorStateCallback \/ simulatorSensorCallback
  <2>1. /\ observation \in Nat /\ MpcCount_ \in Nat /\ old \in Nat /\ policy = {old}
        /\ \A m \in Measurements : m \in Nat
    BY DEF TypeOK, Slot, Measurements
  <2>2. PICK t \in Measurements : phase = "running" /\ ControlStep(t)
    BY <1>1, MeasurementStep
    DEF simulatorStateCallback, simulatorSensorCallback, Measurements
  <2>3. new = t /\ t # old /\ MpcCount_ + 1 >= Cycle
    BY <2>1, <2>2 DEF ControlStep, MpcIsDue, Cycle
  <2>4. MpcCount_ = 0 \/ MpcCount_ < Cycle
    BY DEF Counted
  <2>5. MpcCount_ + 1 = Cycle
    BY <1>0, <2>1, <2>3, <2>4
  <2>6. t = old + MpcCount_ + 1 \/ t + 1 = old + MpcCount_ + 1
    BY <2>1, <2>2 DEF Aged
  <2>. QED  BY <1>0, <2>1, <2>3, <2>5, <2>6
<1>2. CASE StartControlLoop
  BY <1>2 DEF StartControlLoop, Aged
<1>3. CASE Relaunch
  BY <1>3 DEF Relaunch, Started
<1>4. CASE \/ SimulatorNext \/ RequestStart \/ ServiceNotAvailable \/ ResetSimulation
           \/ LoseMessage
  BY <1>4
  DEF SimulatorNext, StartSimulator, ControlPeriod, FreePeriod, IdleRound, control_callback,
      start_control_service, RequestStart, ServiceNotAvailable, ResetSimulation, LoseMessage,
      controller
<1>. QED  BY <1>1, <1>2, <1>3, <1>4 DEF Next, ControllerNext

\* The solver runs at the rate it is configured for, and at no other: what ReferencePlanning
\* assumes of the times of its runs.
THEOREM SolverRunsOnTime ==
  ASSUME MaxRelaunches = 0, MaxResets = 0, Mpc_control_frequency <= Wbc_control_frequency
  PROVE  Spec => SolverRunsAreSpaced
<1>1. TypeOK /\ Started /\ Counted /\ Aged /\ [Next]_vars =>
        [policy # {} /\ policy' # policy =>
           \A old \in policy : \A new \in policy' :
             (new - old) - Wbc_control_frequency \div Mpc_control_frequency \in {-1, 0}]_vars
  BY SolverRunStep DEF Cycle
<1>2. RunInv => Started /\ Counted
  BY DEF RunInv
<1>. QED
  BY RunInvariant, TypeCorrect, AgedInvariant, <1>1, <1>2, PTL DEF Spec, SolverRunsAreSpaced

---------------------------------------------------------------------------------
(***************************************************************************)
(* When the solver runs, with resets.  A message under way belongs to the  *)
(* age the counter gives the policy, one period more at most, or it was    *)
(* measured after a reset, and then its time trails the counter.           *)
(***************************************************************************)
Timed ==
  phase = "running" => \A since \in policy :
    /\ \A m \in Measurements :
         \/ since + MpcCount_ <= m /\ m <= since + MpcCount_ + 1
         \/ m <= MpcCount_ + 1
    /\ joint_control_data # {} =>
         \/ since + MpcCount_ <= time + Owed /\ time + Owed <= since + MpcCount_ + 1
         \/ time + Owed <= MpcCount_ + 1
    /\ Measurements # {} =>
         \/ since + MpcCount_ + 1 <= time + Owed /\ time + Owed <= since + MpcCount_ + 2
         \/ time + Owed <= MpcCount_ + 2

LEMMA NextTimed ==
  ASSUME MaxRelaunches = 0, TypeOK, Started, AppliedBeforeNext, Prompt, Trailing, Timed,
         [Next]_vars
  PROVE  Timed'
<1>. USE DEF Timed, Measurements, Owed
<1>0. /\ time \in Nat /\ MpcCount_ \in Nat
      /\ \A t \in response \cup joint_control_data \cup Measurements \cup policy : t \in Nat
  BY DEF TypeOK, Slot
<1>1. CASE StartSimulator \/ IdleRound
  BY <1>1 DEF StartSimulator, IdleRound, controller, topics
<1>2. CASE ControlPeriod
  <2>1. /\ time' = time + 1 /\ Start_control_ /\ ~ Start_control_'
        /\ UNCHANGED <<controller, topics>>
    BY <1>2 DEF ControlPeriod
  <2>2. time' + Owed' = time + Owed
    BY <1>0, <2>1
  <2>. HIDE DEF Owed
  <2>. QED  BY <2>1, <2>2 DEF controller, topics
<1>3. CASE FreePeriod
  <2>1. joint_control_data = {} /\ Measurements = {}
    BY <1>3 DEF FreePeriod, Prompt
  <2>. QED  BY <1>3, <2>1 DEF FreePeriod, controller, topics
<1>4. CASE control_callback
  <2>1. ~ Start_control_ /\ phase = "running" /\ joint_control_data # {}
    BY <1>4 DEF control_callback, AppliedBeforeNext, Started
  <2>2. /\ Measurements' = {time} /\ joint_control_data' = {} /\ time' = time
        /\ Start_control_' /\ UNCHANGED controller
    BY <1>4 DEF control_callback
  <2>3. ASSUME NEW since \in policy
        PROVE  \/ since + MpcCount_ <= time /\ time <= since + MpcCount_ + 1
               \/ time <= MpcCount_ + 1
    BY <1>0, <2>1
  <2>4. ASSUME NEW since \in policy
        PROVE  \/ /\ since + MpcCount_ + 1 <= time' + Owed'
                  /\ time' + Owed' <= since + MpcCount_ + 2
               \/ time' + Owed' <= MpcCount_ + 2
    BY <1>0, <2>2, <2>3
  <2>. HIDE DEF Owed
  <2>. QED  BY <2>2, <2>3, <2>4 DEF controller
<1>5. CASE start_control_service
  BY <1>5 DEF start_control_service, controller, topics
<1>6. CASE RequestStart \/ ServiceNotAvailable
  BY <1>6 DEF RequestStart, ServiceNotAvailable
<1>7. CASE StartControlLoop
  <2>1. PICK t \in response : policy' = {t} /\ joint_control_data' = {t}
    BY <1>7 DEF StartControlLoop
  <2>2. /\ Measurements' = {} /\ MpcCount_' = 0
        /\ time' = time /\ Start_control_' = Start_control_
    BY <1>7 DEF StartControlLoop, Started, simulator
  <2>3. t \in Nat /\ time + Owed <= t + 1 /\ (t <= time \/ time + Owed <= 1)
    BY <1>0 DEF Prompt, Trailing
  <2>4. t <= time + Owed \/ time + Owed <= 1
    BY <1>0, <2>3
  <2>. QED  BY <1>0, <2>1, <2>2, <2>3, <2>4
<1>8. CASE simulatorStateCallback \/ simulatorSensorCallback
  <2>1. PICK t \in Measurements :
          /\ phase = "running" /\ Measurements' = {} /\ t \in Nat
          /\ joint_control_data' = {t}
          /\ \/ policy' = {t} /\ MpcCount_' = 0
             \/ policy' = policy /\ MpcCount_' = MpcCount_ + 1
    BY <1>8, MeasurementStep
  <2>2. time' + Owed' = time + Owed /\ time + Owed \in Nat
    BY <1>0, <1>8, MeasurementStep DEF simulator
  <2>3. time + Owed <= t + 1 /\ (t <= time + Owed \/ time + Owed <= 1)
    BY <1>0 DEF Prompt, Trailing
  <2>4. CASE policy' = {t} /\ MpcCount_' = 0
    BY <2>1, <2>2, <2>3, <2>4
  <2>5. CASE policy' = policy /\ MpcCount_' = MpcCount_ + 1
    <3>. HIDE DEF Owed
    <3>1. ASSUME NEW since \in policy
          PROVE  \/ /\ since + MpcCount_' <= time' + Owed'
                    /\ time' + Owed' <= since + MpcCount_' + 1
                 \/ time' + Owed' <= MpcCount_' + 1
      BY <1>0, <2>1, <2>2, <2>5
    <3>. QED  BY <2>1, <2>5, <3>1
  <2>. QED  BY <2>1, <2>4, <2>5
<1>9. CASE ResetSimulation
  <2>1. time' = 0 /\ Start_control_' = Start_control_ /\ UNCHANGED <<controller, topics>>
    BY <1>9 DEF ResetSimulation
  <2>2. time' + Owed' <= MpcCount_ + 1 /\ time' + Owed' <= MpcCount_ + 2
    BY <1>0, <2>1
  <2>. HIDE DEF Owed
  <2>. QED  BY <2>1, <2>2 DEF controller, topics
<1>10. CASE LoseMessage
  BY <1>10 DEF LoseMessage, simulator, controller
<1>11. CASE Relaunch
  BY <1>11 DEF Relaunch, Started
<1>12. CASE UNCHANGED vars
  BY <1>12 DEF vars, simulator, controller, topics
<1>. QED
  BY <1>1, <1>2, <1>3, <1>4, <1>5, <1>6, <1>7, <1>8, <1>9, <1>10, <1>11, <1>12
  DEF Next, SimulatorNext, ControllerNext

\* As long as the user has not reset the simulation, what is under way is not from the
\* future, and times only grow on their way from the policy to the next measurement.
Forward ==
  /\ resets \in Nat
  /\ resets = 0 =>
       /\ \A t \in response \cup joint_control_data \cup Measurements : t <= time
       /\ phase = "running" => /\ \A m \in Measurements : observation <= m
                               /\ \A since \in policy : since <= observation

LEMMA NextForward ==
  ASSUME MaxRelaunches = 0, TypeOK, Started, Counted, Forward, [Next]_vars
  PROVE  Forward'
<1>. USE DEF Forward, Measurements
<1>0. /\ time \in Nat /\ observation \in Nat
      /\ \A t \in response \cup joint_control_data \cup Measurements \cup policy : t \in Nat
  BY DEF TypeOK, Slot
<1>1. CASE StartSimulator \/ IdleRound \/ RequestStart \/ ServiceNotAvailable
  BY <1>1
  DEF StartSimulator, IdleRound, RequestStart, ServiceNotAvailable, simulator, controller, service,
      topics, environment
<1>2. CASE ControlPeriod \/ FreePeriod
  <2>1. time' = time + 1 /\ UNCHANGED <<controller, service, topics, environment>>
    BY <1>2 DEF ControlPeriod, FreePeriod
  <2>2. \A t \in response \cup joint_control_data \cup Measurements :
          t <= time => t <= time + 1
    BY <1>0
  <2>. QED  BY <2>1, <2>2 DEF controller, service, topics, environment
<1>3. CASE control_callback
  <2>1. PICK c \in joint_control_data : phase = "running" /\ c = observation
    BY <1>3 DEF control_callback, Started, Counted
  <2>2. /\ Measurements' = {time} /\ joint_control_data' = {} /\ time' = time
        /\ UNCHANGED <<controller, service, environment>>
    BY <1>3 DEF control_callback
  <2>. QED  BY <1>0, <2>1, <2>2 DEF controller, service, environment
<1>4. CASE start_control_service
  <2>1. /\ \A t \in response' : t \in response \/ t = time
        /\ time' = time /\ UNCHANGED <<controller, topics, environment>>
    BY <1>4 DEF start_control_service
  <2>. QED  BY <1>0, <2>1 DEF controller, topics, environment
<1>5. CASE StartControlLoop
  <2>1. PICK t \in response : observation' = t /\ policy' = {t} /\ joint_control_data' = {t}
    BY <1>5 DEF StartControlLoop
  <2>2. Measurements' = {} /\ response' = {} /\ time' = time /\ resets' = resets
    BY <1>5 DEF StartControlLoop, Started, simulator, environment
  <2>. QED  BY <1>0, <2>1, <2>2
<1>6. CASE simulatorStateCallback \/ simulatorSensorCallback
  <2>1. PICK t \in Measurements :
          /\ phase = "running" /\ Measurements' = {} /\ t \in Nat
          /\ observation' = t /\ joint_control_data' = {t}
          /\ policy' = {t} \/ policy' = policy
    BY <1>6, MeasurementStep
  <2>2. time' = time /\ response' = response /\ resets' = resets
    BY <1>6, MeasurementStep DEF simulator, service, environment
  <2>3. resets = 0 => \A since \in policy : since <= t
    BY <1>0, <2>1
  <2>. QED  BY <2>1, <2>2, <2>3
<1>7. CASE ResetSimulation
  BY <1>7 DEF ResetSimulation
<1>8. CASE LoseMessage
  BY <1>8 DEF LoseMessage, simulator, controller, service
<1>9. CASE Relaunch
  BY <1>9 DEF Relaunch, Started
<1>10. CASE UNCHANGED vars
  BY <1>10 DEF vars, simulator, controller, service, topics, environment
<1>. QED
  BY <1>1, <1>2, <1>3, <1>4, <1>5, <1>6, <1>7, <1>8, <1>9, <1>10
  DEF Next, SimulatorNext, ControllerNext

\* Control starts at a time of the free run, and no message is later than the last period.
WithinBounds ==
  /\ time <= MaxTime
  /\ \A t \in response \cup joint_control_data \cup Measurements : t <= MaxTime
  /\ Start_control_ => phase = "running"
  /\ phase # "running" => time <= MaxFreeRun /\ \A t \in response : t <= MaxFreeRun

LEMMA NextWithinBounds ==
  ASSUME MaxRelaunches = 0, MaxFreeRun <= MaxTime, TypeOK, Started, Prompt, WithinBounds,
         [Next]_vars
  PROVE  WithinBounds'
<1>. USE DEF WithinBounds, Measurements
<1>0. /\ time \in Nat /\ MaxTime \in Nat /\ MaxFreeRun \in Nat
      /\ \A t \in response \cup joint_control_data \cup Measurements : t \in Nat
  BY ControlAssumption DEF TypeOK, Slot
<1>1. CASE StartSimulator \/ IdleRound \/ RequestStart \/ ServiceNotAvailable
  BY <1>1
  DEF StartSimulator, IdleRound, RequestStart, ServiceNotAvailable, simulator, controller, service,
      topics, Started
<1>2. CASE ControlPeriod
  <2>1. phase = "running" /\ time < MaxTime /\ time' = time + 1 /\ ~ Start_control_'
        /\ UNCHANGED <<controller, service, topics>>
    BY <1>2 DEF ControlPeriod
  <2>2. time' <= MaxTime
    BY <1>0, <2>1
  <2>. QED  BY <2>1, <2>2 DEF controller, service, topics
<1>3. CASE FreePeriod
  <2>1. /\ time < MaxFreeRun /\ time' = time + 1 /\ response = {} /\ joint_control_data = {}
        /\ Measurements = {} /\ UNCHANGED <<controller, service, topics, Start_control_>>
    BY <1>3 DEF FreePeriod, Prompt
  <2>2. time' <= MaxFreeRun /\ time' <= MaxTime
    BY <1>0, <2>1
  <2>. QED  BY <2>1, <2>2 DEF controller, service, topics
<1>4. CASE control_callback
  BY <1>4 DEF control_callback, controller, service, Started
<1>5. CASE start_control_service
  BY <1>5 DEF start_control_service, controller, topics
<1>6. CASE StartControlLoop
  <2>1. PICK t \in response : joint_control_data' = {t}
    BY <1>6 DEF StartControlLoop
  <2>. QED  BY <1>6, <2>1 DEF StartControlLoop, simulator
<1>7. CASE simulatorStateCallback \/ simulatorSensorCallback
  <2>1. PICK t \in Measurements :
          phase' = "running" /\ Measurements' = {} /\ joint_control_data' = {t}
    BY <1>7, MeasurementStep
  <2>2. UNCHANGED <<simulator, service>>
    BY <1>7, MeasurementStep
  <2>. QED  BY <2>1, <2>2 DEF simulator, service
<1>8. CASE ResetSimulation
  <2>1. 0 <= MaxTime /\ 0 <= MaxFreeRun
    BY <1>0
  <2>. QED  BY <1>8, <2>1 DEF ResetSimulation, controller, service, topics
<1>9. CASE LoseMessage
  BY <1>9 DEF LoseMessage, simulator, controller, service
<1>10. CASE Relaunch
  BY <1>10 DEF Relaunch, Started
<1>11. CASE UNCHANGED vars
  BY <1>11 DEF vars, simulator, controller, service, topics
<1>. QED
  BY <1>1, <1>2, <1>3, <1>4, <1>5, <1>6, <1>7, <1>8, <1>9, <1>10, <1>11
  DEF Next, SimulatorNext, ControllerNext
\* The times of everything under way, in every state.
LEMMA TimesInvariant ==
  ASSUME MaxRelaunches = 0
  PROVE  Spec => [](Timed /\ Forward)
<1>1. Init => Timed /\ Forward
  BY DEF Init, Timed, Forward, Measurements
<1>2. RunInv => Started /\ Prompt /\ Counted /\ Trailing
  BY DEF RunInv
<1>3. /\ TypeOK /\ Started /\ AppliedBeforeNext /\ Prompt /\ Trailing /\ Timed /\ [Next]_vars
      => Timed'
  BY NextTimed
<1>4. TypeOK /\ Started /\ Counted /\ Forward /\ [Next]_vars => Forward'
  BY NextForward
<1>. QED
  BY RunInvariant, TypeCorrect, AppliedBeforeNextInvariant, <1>1, <1>2, <1>3, <1>4, PTL DEF Spec

LEMMA BoundsInvariant ==
  ASSUME MaxRelaunches = 0, MaxFreeRun <= MaxTime
  PROVE  Spec => []WithinBounds
<1>1. Init => WithinBounds
  BY ControlAssumption DEF Init, WithinBounds, Measurements
<1>2. RunInv => Started /\ Prompt
  BY DEF RunInv
<1>3. TypeOK /\ Started /\ Prompt /\ WithinBounds /\ [Next]_vars => WithinBounds'
  BY NextWithinBounds
<1>. QED  BY RunInvariant, TypeCorrect, <1>1, <1>2, <1>3, PTL DEF Spec

\* The measurement that makes the solver run is a cycle younger than the policy, or one
\* period less; after a reset its time is in the first cycle, or it is one to Cycle younger.
LEMMA DueMeasurement ==
  ASSUME Mpc_control_frequency <= Wbc_control_frequency, TypeOK, Counted, phase = "running",
         MpcIsDue(MpcCount_ + 1), NEW since \in policy, NEW t \in Measurements
  PROVE  /\ Cycle \in Nat \ {0} /\ since \in Nat /\ t \in Nat /\ MpcCount_ + 1 = Cycle
         /\ Aged => t - since \in (Cycle - 1)..Cycle
         /\ Timed => t - since \in (Cycle - 1)..Cycle \/ t <= Cycle
<1>1. Cycle \in Nat /\ Cycle >= 1
  <2>1. Wbc_control_frequency \in Nat \ {0} /\ Mpc_control_frequency \in Nat \ {0}
    BY ControlAssumption
  <2>. QED  BY <2>1 DEF Cycle
<1>2. since \in Nat /\ t \in Nat /\ observation \in Nat /\ MpcCount_ \in Nat
  BY DEF TypeOK, Slot, Measurements
<1>3. MpcCount_ + 1 >= Cycle
  BY DEF MpcIsDue, Cycle
<1>4. MpcCount_ + 1 = Cycle
  BY <1>1, <1>2, <1>3 DEF Counted
<1>5. ASSUME Aged
      PROVE  t - since \in (Cycle - 1)..Cycle
  <2>1. t = since + MpcCount_ + 1 \/ t + 1 = since + MpcCount_ + 1
    BY <1>2, <1>5 DEF Aged
  <2>. QED  BY <1>1, <1>2, <1>4, <2>1
<1>6. ASSUME Timed
      PROVE  t - since \in (Cycle - 1)..Cycle \/ t <= Cycle
  <2>1. \/ since + MpcCount_ <= t /\ t <= since + MpcCount_ + 1
        \/ t <= MpcCount_ + 1
    BY <1>6 DEF Timed
  <2>. QED  BY <1>1, <1>2, <1>4, <2>1
<1>. QED  BY <1>1, <1>2, <1>4, <1>5, <1>6
=================================================================================
