----------------------------- MODULE ControlPeriod -----------------------------
(***************************************************************************)
(* How long a control period is: the inner loop of MujocoSimulation::run,  *)
(*                                                                         *)
(*   while (data_->time - simstart < 1.0 / control_frequency_)             *)
(*     simulateStep();                                                     *)
(*                                                                         *)
(* in the double arithmetic it runs in.  A double of this range is a       *)
(* multiple of 2^-62 and is held as three digits of 21 bits, the highest   *)
(* first, which a sum of two doubles fits in before it is rounded.         *)
(***************************************************************************)
EXTENDS Integers

CONSTANTS
  timestep,        \* controller.timestep, what mj_step adds to the time
  controlPeriod,   \* 1.0 / control_frequency_
  nominalSteps,    \* the simulation steps a control period is meant to have
  MaxPeriods       \* bound on the number of control periods

\* The powers of two up to 2^10, and 2^21.
Power(d) == <<1, 2, 4, 8, 16, 32, 64, 128, 256, 512, 1024>>[d + 1]

Base == 2 * Power(10) * Power(10)

IsDouble(x) == x \in [1..3 -> 0..(Base - 1)]

ASSUME PeriodAssumption ==
  /\ IsDouble(timestep) /\ IsDouble(controlPeriod)
  /\ nominalSteps \in Nat \ {0} /\ MaxPeriods \in Nat

VARIABLES
  now,        \* data_->time
  simstart,   \* data_->time when the period began
  steps,      \* simulation steps of the period so far
  periods     \* control periods begun before this one

vars == <<now, simstart, steps, periods>>

---------------------------------------------------------------------------------
(***************************************************************************)
(* Double arithmetic.                                                      *)
(***************************************************************************)
Zero == <<0, 0, 0>>

\* Digits that may be too large or negative, with the carries resolved.
Carry(d1, d2, d3) ==
  LET m2 == d2 + d3 \div Base
  IN  <<d1 + m2 \div Base, m2 % Base, d3 % Base>>

Less(x, y) ==
  \/ x[1] < y[1]
  \/ x[1] = y[1] /\ x[2] < y[2]
  \/ x[1] = y[1] /\ x[2] = y[2] /\ x[3] < y[3]

\* The bits of x beyond the 53 that a double keeps.
ExcessBits(x) ==
  CHOOSE d \in 0..10 : /\ x[1] < 2 * Power(10) * Power(d)
                       /\ d > 0 => x[1] >= Power(10) * Power(d)

\* Round to nearest, ties to even.
Round(x) ==
  LET unit == Power(ExcessBits(x))
      rest == x[3] % unit
      up   == 2 * rest > unit \/ (2 * rest = unit /\ (x[3] \div unit) % 2 = 1)
  IN  Carry(x[1], x[2], (x[3] - rest) + IF up THEN unit ELSE 0)

\* Slip: the sum keeps the bits a double has no room for.
PlusExact(x, y) == Carry(x[1] + y[1], x[2] + y[2], x[3] + y[3])

Plus(x, y) == Round(Carry(x[1] + y[1], x[2] + y[2], x[3] + y[3]))

\* For y no greater than x.
Minus(x, y) == Round(Carry(x[1] - y[1], x[2] - y[2], x[3] - y[3]))

---------------------------------------------------------------------------------
\* run makes one simulation step before its loop.
Init ==
  /\ now = Plus(Zero, timestep) /\ simstart = now
  /\ steps = 0 /\ periods = 0

\* The condition of the loop.
PeriodGoesOn == Less(Minus(now, simstart), controlPeriod)

\* simulateStep: mj_step advances the time.
SimulateStep ==
  /\ PeriodGoesOn
  /\ now' = Plus(now, timestep)
  /\ steps' = steps + 1
  /\ UNCHANGED <<simstart, periods>>

\* Slip: the start of the period is not taken anew.
NextPeriodSameStart ==
  /\ ~ PeriodGoesOn /\ periods < MaxPeriods
  /\ steps' = 0
  /\ periods' = periods + 1
  /\ UNCHANGED <<now, simstart>>

\* The loop is left; the next command starts the next period.
NextPeriod ==
  /\ ~ PeriodGoesOn /\ periods < MaxPeriods
  /\ simstart' = now
  /\ steps' = 0
  /\ periods' = periods + 1
  /\ UNCHANGED now

Next == SimulateStep \/ NextPeriod

Spec == Init /\ [][Next]_vars

---------------------------------------------------------------------------------
(***************************************************************************)
(* Properties.                                                             *)
(***************************************************************************)
\* The times are doubles: three digits, of which no more than 53 bits are used.
TypeOK ==
  /\ \A x \in {now, simstart} : IsDouble(x) /\ x[3] % Power(ExcessBits(x)) = 0
  /\ steps \in Nat /\ periods \in 0..MaxPeriods

\* "Perform simulation for 1.0 / Control_frequency_ seconds": a command is applied
\* for the nominal number of simulation steps.
PeriodIsNominal == ~ PeriodGoesOn => steps = nominalSteps

\* The rounding of the time never ends a period early and never makes it longer
\* than one step too many.
PeriodIsBounded ==
  /\ steps <= nominalSteps + 1
  /\ ~ PeriodGoesOn => steps >= nominalSteps

\* Which periods are too long, for a timestep of 0.001 and two steps: below one second
\* only such as see the resolution of the time change, which happens at the powers of
\* two; from one second on, where ten bits of a sum are lost, every one.
LongPeriodsFollowResolution ==
  ~ PeriodGoesOn =>
    /\ steps > nominalSteps => ExcessBits(simstart) = 10 \/ ExcessBits(now) # ExcessBits(simstart)
    /\ ExcessBits(simstart) = 10 => steps > nominalSteps
================================================================================
