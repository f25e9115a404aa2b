--------------------------- MODULE GaitTimeline_proofs ---------------------------
(***************************************************************************)
(* The event lists implement the endless timeline of GaitTimeline.  Each   *)
(* operation on a schedule is described by what it does to the mode the    *)
(* schedule promises for each time, be it listed yet or not; from that the *)
(* refinement follows, and that a swing in progress is left alone.         *)
(***************************************************************************)
EXTENDS ReferencePlanning_proofs

---------------------------------------------------------------------------------
(***************************************************************************)
(* A gait that repeats.                                                    *)
(***************************************************************************)

\* The remainder is what is left after whole cycles.
LEMMA RemainderIs ==
  ASSUME NEW D \in Nat \ {0}, NEW q \in Nat, NEW y \in 0..(D - 1)
  PROVE  q * D + y \in Nat /\ (q * D + y) % D = y
<1>. DEFINE k == q * D + y
            d == k \div D
            m == k % D
<1>1. q * D \in Nat /\ k \in Nat
  OBVIOUS
<1>2. d \in Nat /\ m \in 0..(D - 1) /\ k = D * d + m
  BY <1>1, DivMod
<1>. HIDE DEF d, m
<1>3. D * d = d * D /\ d * D \in Nat
  BY <1>2
<1>4. d = q
  <2>1. ~ (d < q)
    <3>. SUFFICES ASSUME d < q
                  PROVE  FALSE
      OBVIOUS
    <3>1. PICK c \in Nat : q = d + 1 + c
      <4>1. q - d - 1 \in Nat /\ q = d + 1 + (q - d - 1)
        BY <1>2
      <4>. QED  BY <4>1
    <3>2. q * D = d * D + D + c * D /\ c * D \in Nat
      BY <1>2, <3>1
    <3>. QED  BY <1>1, <1>2, <1>3, <3>2
  <2>2. ~ (q < d)
    <3>. SUFFICES ASSUME q < d
                  PROVE  FALSE
      OBVIOUS
    <3>1. PICK c \in Nat : d = q + 1 + c
      <4>1. d - q - 1 \in Nat /\ d = q + 1 + (d - q - 1)
        BY <1>2
      <4>. QED  BY <4>1
    <3>2. d * D = q * D + D + c * D /\ c * D \in Nat
      BY <1>2, <3>1
    <3>. QED  BY <1>1, <1>2, <1>3, <3>2
  <2>. QED  BY <1>2, <2>1, <2>2
<1>5. m = y
  BY <1>1, <1>2, <1>3, <1>4
<1>. QED  BY <1>1, <1>5 DEF m

\* Whole cycles more have the same remainder.
LEMMA SameRemainder ==
  ASSUME NEW D \in Nat \ {0}, NEW x \in Nat, NEW k \in Nat
  PROVE  x + k * D \in Nat /\ (x + k * D) % D = x % D
<1>. DEFINE q == x \div D
            y == x % D
<1>1. q \in Nat /\ y \in 0..(D - 1) /\ x = D * q + y
  BY DivMod
<1>. HIDE DEF q, y
<1>2. D * q = q * D /\ q * D \in Nat /\ k * D \in Nat /\ (q + k) * D = q * D + k * D /\ q + k \in Nat
  BY <1>1
<1>3. x + k * D = (q + k) * D + y
  BY <1>1, <1>2
<1>4. ((q + k) * D + y) % D = y
  BY <1>1, <1>2, RemainderIs
<1>. QED  BY <1>2, <1>3, <1>4 DEF y

\* The tick of the cycle in which d ticks after a start fall.
Tick(tpl, d) == ((d - 1) % Duration(tpl)) + 1

\* It is one of the cycle, and it is in a phase of it.
LEMMA TickHasPhase ==
  ASSUME NEW tpl, IsModeSequenceTemplate(tpl), NEW d \in Nat \ {0}
  PROVE  LET n  == Len(tpl.modeSequence)
             st == tpl.switchingTimes
         IN  /\ Tick(tpl, d) \in 1..Duration(tpl)
             /\ \E i \in 1..n : st[i] - st[1] < Tick(tpl, d) /\ Tick(tpl, d) <= st[i + 1] - st[1]
<1>. DEFINE n  == Len(tpl.modeSequence)
            st == tpl.switchingTimes
            D  == Duration(tpl)
            x  == Tick(tpl, d)
            S  == {i \in Nat : i \in 1..n /\ x <= st[i + 1] - st[1]}
<1>1. /\ n \in Nat \ {0} /\ D \in Nat \ {0} /\ D = st[n + 1] - st[1]
      /\ \A i \in 1..(n + 1) : st[i] \in Int
  BY TemplateParts
<1>2. x \in 1..D
  <2>1. d - 1 \in Nat
    OBVIOUS
  <2>2. (d - 1) % D \in 0..(D - 1)
    BY <1>1, <2>1, DivMod
  <2>. HIDE DEF D
  <2>. QED  BY <1>1, <2>2 DEF Tick, D
<1>. HIDE DEF n, st, D, x
<1>3. S \in SUBSET Nat /\ n \in S
  BY <1>1, <1>2
<1>4. PICK m \in S : \A k \in S : m <= k
  BY <1>3, SmallestInSet
<1>5. m \in 1..n /\ x <= st[m + 1] - st[1]
  BY <1>4
<1>6. st[m] - st[1] < x
  <2>1. CASE m = 1
    BY <1>1, <1>2, <2>1
  <2>2. CASE m # 1
    <3>1. m - 1 \in 1..n /\ (m - 1) + 1 = m /\ ~ (m <= m - 1)
      BY <1>1, <1>5, <2>2
    <3>2. m - 1 \notin S
      BY <1>4, <3>1
    <3>3. ~ (x <= st[m] - st[1])
      BY <1>1, <3>1, <3>2
    <3>. QED  BY <1>1, <1>2, <1>5, <3>3
  <2>. QED  BY <2>1, <2>2
<1>. QED  BY <1>2, <1>5, <1>6 DEF n, st, D, x

\* The mode is that of the phase.
LEMMA PhaseGivesMode ==
  ASSUME NEW tpl, IsModeSequenceTemplate(tpl), NEW d \in Nat \ {0},
         NEW i \in 1..Len(tpl.modeSequence),
         tpl.switchingTimes[i] - tpl.switchingTimes[1] < Tick(tpl, d),
         Tick(tpl, d) <= tpl.switchingTimes[i + 1] - tpl.switchingTimes[1]
  PROVE  RepeatedMode(tpl, d) = tpl.modeSequence[i]
<1>. DEFINE n  == Len(tpl.modeSequence)
            st == tpl.switchingTimes
            D  == Duration(tpl)
            x  == Tick(tpl, d)
            e  == Tail(st)
            ms == [eventTimes |-> e, modeSequence |-> tpl.modeSequence]
            u  == st[1] + x
<1>1. /\ n \in Nat \ {0} /\ D \in Nat \ {0}
      /\ \A j \in 1..(n + 1) : st[j] \in Int
      /\ \A j, k \in 1..(n + 1) : j < k => st[j] < st[k]
      /\ Head(st) = st[1]
  BY TemplateParts
<1>2. st \in Seq(Int) /\ Len(st) = n + 1
  BY DEF IsModeSequenceTemplate
<1>3. x \in Int
  BY TickHasPhase
<1>4. RepeatedMode(tpl, d) = ModeAtTime(ms, u)
  <2>1. Head(st) + ((d - 1) % D) + 1 = u
    <3>1. d - 1 \in Nat
      OBVIOUS
    <3>2. (d - 1) % D \in Int
      BY <1>1, <3>1, DivMod
    <3>3. x = ((d - 1) % D) + 1
      BY DEF Tick
    <3>4. 1 \in 1..(n + 1)
      BY <1>1
    <3>5. st[1] \in Int
      BY <1>1, <3>4
    <3>. HIDE DEF x, D, st
    <3>. QED  BY <1>1, <3>2, <3>3, <3>5
  <2>. QED  BY <2>1 DEF RepeatedMode
<1>5. e \in Seq(Int) /\ Len(e) = n /\ \A j \in 1..n : e[j] = st[j + 1]
  <2>. HIDE DEF st, n
  <2>. QED  BY <1>1, <1>2
<1>. HIDE DEF st, n, x, e, D
<1>6. LowerBound(e, u) = i - 1
  <2>0. i \in 1..n /\ st[i] - st[1] < x /\ x <= st[i + 1] - st[1]
    BY DEF st, n, x
  <2>1. u \in Int /\ i - 1 \in 0..Len(e) /\ st[1] \in Int /\ st[i] \in Int /\ st[i + 1] \in Int
    BY <1>1, <1>3, <1>5, <2>0
  <2>2. \A j \in 1..(i - 1) : e[j] < u
    <3>. TAKE j \in 1..(i - 1)
    <3>1. j \in 1..n /\ j + 1 \in 1..(n + 1) /\ i \in 1..(n + 1) /\ (j + 1 = i \/ j + 1 < i)
      BY <1>1, <2>0
    <3>2. st[j + 1] \in Int /\ st[j + 1] <= st[i]
      BY <1>1, <2>1, <3>1
    <3>3. e[j] = st[j + 1]
      BY <1>5, <3>1
    <3>. QED  BY <1>3, <2>0, <2>1, <3>2, <3>3
  <2>3. e[(i - 1) + 1] >= u
    <3>1. (i - 1) + 1 = i /\ e[i] = st[i + 1]
      BY <1>5, <2>0
    <3>. QED  BY <1>3, <2>0, <2>1, <3>1
  <2>. HIDE DEF u
  <2>. QED  BY <1>5, <2>1, <2>2, <2>3, LowerBoundIs
<1>7. ModeAtTime(ms, u) = tpl.modeSequence[(i - 1) + 1]
  <2>1. ms.eventTimes = e /\ ms.modeSequence = tpl.modeSequence
    OBVIOUS
  <2>. HIDE DEF ms, u
  <2>. QED  BY <1>6, <2>1 DEF ModeAtTime
<1>8. (i - 1) + 1 = i
  BY <1>1 DEF n
<1>. QED  BY <1>4, <1>7, <1>8

\* It is a mode, and it is the same a number of cycles later.
LEMMA RepeatedModeProperties ==
  ASSUME NEW tpl, IsModeSequenceTemplate(tpl), NEW d \in Nat \ {0}
  PROVE  /\ RepeatedMode(tpl, d) \in Modes
         /\ \A k \in Nat : RepeatedMode(tpl, d + k * Duration(tpl)) = RepeatedMode(tpl, d)
<1>. DEFINE n  == Len(tpl.modeSequence)
            st == tpl.switchingTimes
            D  == Duration(tpl)
<1>1. D \in Nat \ {0} /\ \A i \in 1..n : tpl.modeSequence[i] \in Modes
  BY TemplateParts
<1>2. PICK i \in 1..n : st[i] - st[1] < Tick(tpl, d) /\ Tick(tpl, d) <= st[i + 1] - st[1]
  BY TickHasPhase
<1>3. RepeatedMode(tpl, d) = tpl.modeSequence[i]
  BY <1>2, PhaseGivesMode
<1>4. ASSUME NEW k \in Nat
      PROVE  RepeatedMode(tpl, d + k * D) = RepeatedMode(tpl, d)
  <2>. DEFINE e == d + k * D
  <2>. HIDE DEF D
  <2>1. d - 1 \in Nat
    OBVIOUS
  <2>2. (d - 1) + k * D \in Nat /\ ((d - 1) + k * D) % D = (d - 1) % D
    BY <1>1, <2>1, SameRemainder
  <2>3. k * D \in Nat
    BY <1>1
  <2>4. e \in Nat \ {0} /\ e - 1 = (d - 1) + k * D
    BY <2>3
  <2>. HIDE DEF e
  <2>5. Tick(tpl, e) = Tick(tpl, d)
    BY <2>2, <2>4 DEF Tick, D
  <2>6. RepeatedMode(tpl, e) = tpl.modeSequence[i]
    BY <1>2, <2>4, <2>5, PhaseGivesMode
  <2>. QED  BY <1>3, <2>6 DEF e
<1>. QED  BY <1>1, <1>3, <1>4 DEF D

\* CycleMode of the abstract specification is the same function.
LEMMA CycleModeIs ==
  ASSUME NEW tpl, IsModeSequenceTemplate(tpl), NEW d \in Nat \ {0}
  PROVE  Timeline!CycleMode(tpl, d) = RepeatedMode(tpl, d)
<1>. DEFINE n  == Len(tpl.modeSequence)
            st == tpl.switchingTimes
            x  == Tick(tpl, d)
            InPhase(i) == st[i] - st[1] < x /\ x <= st[i + 1] - st[1]
<1>1. /\ n \in Nat \ {0} /\ Duration(tpl) = st[n + 1] - st[1]
      /\ \A i \in 1..(n + 1) : st[i] \in Int
      /\ \A i, j \in 1..(n + 1) : i < j => st[i] < st[j]
  BY TemplateParts
<1>2. \E i \in 1..n : InPhase(i)
  BY TickHasPhase
<1>3. Timeline!CycleMode(tpl, d) = tpl.modeSequence[CHOOSE i \in 1..n : InPhase(i)]
  BY <1>1 DEF Timeline!CycleMode, Tick
<1>4. PICK i \in 1..n : i = CHOOSE j \in 1..n : InPhase(j)
  BY <1>2
<1>5. InPhase(i)
  BY <1>2, <1>4
<1>6. RepeatedMode(tpl, d) = tpl.modeSequence[i]
  BY <1>5, PhaseGivesMode
<1>. QED  BY <1>3, <1>4, <1>6

\* Between two events of a repetition the mode is the one tiling writes there.
LEMMA RepeatedModeOfTile ==
  ASSUME NEW tpl, IsModeSequenceTemplate(tpl), NEW start \in Int, NEW j \in Nat, NEW u \in Int,
         TileTime(tpl, start, j) < u, u <= TileTime(tpl, start, j + 1)
  PROVE  u - start \in Nat \ {0} /\ RepeatedMode(tpl, u - start) = TileMode(tpl, j)
<1>. DEFINE n  == Len(tpl.modeSequence)
            st == tpl.switchingTimes
            D  == Duration(tpl)
            q  == j \div n
            r  == j % n
            d  == u - start
<1>1. /\ n \in Nat \ {0}
      /\ \A i \in 1..(n + 1) : st[i] \in Int
      /\ \A i, k \in 1..(n + 1) : i < k => st[i] < st[k]
      /\ D = st[n + 1] - st[1] /\ D \in Nat \ {0}
  BY TemplateParts
<1>2. \A k \in Nat : TileTime(tpl, start, k) =
                       start + (k \div n) * D + (st[(k % n) + 1] - st[1])
  BY TemplateParts DEF TileTime
<1>3. TileMode(tpl, j) = tpl.modeSequence[r + 1]
  BY DEF TileMode
<1>. HIDE DEF n, st, D
<1>4. q \in Nat /\ r \in 0..(n - 1)
  BY <1>1, DivMod
<1>5. TileTime(tpl, start, j) = start + q * D + (st[r + 1] - st[1])
  BY <1>2
<1>6. \/ r < n - 1 /\ TileTime(tpl, start, j + 1) = start + q * D + (st[(r + 1) + 1] - st[1])
      \/ r = n - 1 /\ TileTime(tpl, start, j + 1) = start + (q + 1) * D + (st[0 + 1] - st[1])
  <2>1. TileTime(tpl, start, j + 1) =
          start + ((j + 1) \div n) * D + (st[((j + 1) % n) + 1] - st[1])
    BY <1>2
  <2>. QED  BY <1>1, <2>1, DivModSucc
<1>. HIDE DEF q, r
<1>7. /\ q * D \in Nat /\ (q + 1) * D = q * D + D
      /\ r + 1 \in 1..n /\ r + 1 \in 1..(n + 1) /\ (r + 1) + 1 \in 1..(n + 1) /\ 1 \in 1..(n + 1)
      /\ n + 1 \in 1..(n + 1)
  BY <1>1, <1>4
<1>8. st[r + 1] \in Int /\ st[(r + 1) + 1] \in Int /\ st[1] \in Int /\ st[n + 1] \in Int
  BY <1>1, <1>7
<1>9. TileTime(tpl, start, j + 1) = start + q * D + (st[(r + 1) + 1] - st[1])
  <2>1. CASE r < n - 1
    BY <1>1, <1>4, <1>6, <2>1
  <2>2. CASE r = n - 1
    <3>1. TileTime(tpl, start, j + 1) = start + (q * D + D)
      BY <1>1, <1>6, <1>7, <1>8, <2>2
    <3>2. (r + 1) + 1 = n + 1
      BY <1>1, <2>2
    <3>. QED  BY <1>1, <1>7, <1>8, <3>1, <3>2
  <2>. QED  BY <1>6, <2>1, <2>2
<1>10. st[1] <= st[r + 1] /\ st[(r + 1) + 1] <= st[n + 1]
  <2>1. r + 1 = 1 \/ 1 < r + 1
    BY <1>4, <1>1
  <2>2. (r + 1) + 1 = n + 1 \/ (r + 1) + 1 < n + 1
    BY <1>4, <1>1
  <2>3. st[1] <= st[r + 1]
    BY <1>1, <1>7, <1>8, <2>1
  <2>4. st[(r + 1) + 1] <= st[n + 1]
    BY <1>1, <1>7, <1>8, <2>2
  <2>. QED  BY <2>3, <2>4
<1>11. PICK y \in Int : y = d - 1 - q * D
  BY <1>7
<1>12. /\ st[r + 1] - st[1] < y + 1 /\ y + 1 <= st[(r + 1) + 1] - st[1]
       /\ y \in 0..(D - 1) /\ d \in Nat \ {0} /\ d - 1 = q * D + y
  BY <1>1, <1>5, <1>7, <1>8, <1>9, <1>10, <1>11
<1>13. (d - 1) % D = y
  <2>1. (q * D + y) % D = y
    BY <1>1, <1>4, <1>12, RemainderIs
  <2>. QED  BY <1>12, <2>1
<1>. HIDE DEF d
<1>14. Tick(tpl, d) = y + 1
  BY <1>13 DEF Tick, D
<1>15. RepeatedMode(tpl, d) = tpl.modeSequence[r + 1]
  BY <1>7, <1>12, <1>14, PhaseGivesMode DEF n, st
<1>. QED  BY <1>3, <1>12, <1>15 DEF d

---------------------------------------------------------------------------------
(***************************************************************************)
(* What the operations do to the promised modes.                           *)
(***************************************************************************)

\* The tiled part of a schedule is the repetition of the template, as far as it goes, and
\* it goes for a number of whole cycles.
LEMMA TileRepeats ==
  ASSUME NEW T, NEW s \in Schedules(T), IsModeSequenceTemplate(s.template),
         NEW start \in Int, NEW final \in Int,
         s.eventTimes # <<>> => Last(s.eventTimes) < start
  PROVE  LET r == Tile(s, start, final)
         IN  /\ \E k \in Nat : Last(r.eventTimes) = start + k * Duration(s.template)
             /\ \A u \in Int : start < u /\ u <= Last(r.eventTimes) =>
                  ModeAtTime(r, u) = RepeatedMode(s.template, u - start)
<1>. DEFINE r   == Tile(s, start, final)
            tpl == s.template
            k   == TileCount(tpl, start, final)
            ev  == s.eventTimes
            md  == s.modeSequence
            te  == TileTimes(tpl, start, final)
            e2  == ev \o te
            tm  == TileModes(tpl, start, final)
            m2  == Append(md \o tm, STANCE)
<1>1. /\ ev \in Seq(Int) /\ Len(ev) \in Nat
      /\ md \in Seq(Modes) /\ Len(md) = Len(ev) + 1
  BY ScheduleParts
<1>2. r.eventTimes = e2 /\ r.modeSequence = m2 /\ r \in Schedules(T)
  <2>1. r = [s EXCEPT !.eventTimes = e2, !.modeSequence = m2]
    BY TileAppends
  <2>2. r \in Schedules(T)
    BY TileProperties
  <2>. HIDE DEF r, e2, m2
  <2>. QED  BY <2>1, <2>2, ScheduleParts
<1>3. /\ k \in Nat /\ te \in Seq(Int) /\ Len(te) = k + 1
      /\ \A j \in 1..(k + 1) : te[j] = TileTime(tpl, start, j - 1)
      /\ tm \in Seq(Modes) /\ Len(tm) = k
      /\ \A j \in 1..k : tm[j] = TileMode(tpl, j - 1)
  BY TileParts DEF TileTimes, TileModes
<1>4. \E c \in Nat : TileTime(tpl, start, k) = start + c * Duration(tpl)
  <2>. DEFINE n == Len(tpl.modeSequence)
              R == Repetitions(tpl, start, final)
              D == Duration(tpl)
              st == tpl.switchingTimes
  <2>1. n \in Nat \ {0} /\ D \in Nat /\ Head(st) = st[1] /\ \A i \in 1..(n + 1) : st[i] \in Int
    BY TemplateParts
  <2>2. R \in Nat
    BY RepetitionsType
  <2>3. k = R * n
    BY DEF TileCount
  <2>4. k \div n = R /\ k % n = 0
    BY <2>1, <2>2, <2>3, WholeCycles
  <2>5. TileTime(tpl, start, k) = start + (k \div n) * D + (st[(k % n) + 1] - Head(st))
    BY DEF TileTime
  <2>6. 1 \in 1..(n + 1)
    BY <2>1
  <2>. HIDE DEF n, R, D, k, st
  <2>7. R * D \in Nat /\ st[1] \in Int
    BY <2>1, <2>2, <2>6
  <2>8. TileTime(tpl, start, k) = start + R * D
    BY <2>1, <2>4, <2>5, <2>7
  <2>. QED  BY <2>2, <2>8 DEF D
<1>. HIDE DEF r, k, ev, md, te, tm
<1>5. /\ Len(e2) = Len(ev) + (k + 1)
      /\ \A i \in 1..(k + 1) : e2[Len(ev) + i] = TileTime(tpl, start, i - 1)
  <2>1. /\ Len(e2) = Len(ev) + Len(te)
        /\ \A i \in 1..(Len(ev) + Len(te)) : e2[i] = IF i <= Len(ev) THEN ev[i] ELSE te[i - Len(ev)]
    BY <1>1, <1>3, ConcatElements
  <2>2. ASSUME NEW i \in 1..(k + 1)
        PROVE  e2[Len(ev) + i] = TileTime(tpl, start, i - 1)
    <3>1. /\ Len(ev) + i \in 1..(Len(ev) + Len(te)) /\ ~ (Len(ev) + i <= Len(ev))
          /\ (Len(ev) + i) - Len(ev) = i
      BY <1>1, <1>3
    <3>. QED  BY <1>3, <2>1, <3>1
  <2>. QED  BY <1>3, <2>1, <2>2
<1>6. \A i \in 1..k : m2[Len(ev) + 1 + i] = TileMode(tpl, i - 1)
  <2>. TAKE i \in 1..k
  <2>. DEFINE p == md \o tm
  <2>1. /\ p \in Seq(Modes) /\ Len(p) = Len(md) + Len(tm)
        /\ \A j \in 1..(Len(md) + Len(tm)) : p[j] = IF j <= Len(md) THEN md[j] ELSE tm[j - Len(md)]
    BY <1>1, <1>3, ConcatElements
  <2>2. /\ Len(ev) + 1 + i \in 1..(Len(md) + Len(tm)) /\ ~ (Len(ev) + 1 + i <= Len(md))
        /\ (Len(ev) + 1 + i) - Len(md) = i
    BY <1>1, <1>3
  <2>3. p[Len(ev) + 1 + i] = TileMode(tpl, i - 1)
    BY <1>3, <2>1, <2>2
  <2>. HIDE DEF p
  <2>4. m2[Len(ev) + 1 + i] = p[Len(ev) + 1 + i]
    <3>1. m2 = Append(p, STANCE)
      BY DEF p
    <3>. QED  BY <2>1, <2>2, <3>1
  <2>. QED  BY <2>3, <2>4
<1>. HIDE DEF m2
<1>7. e2 \in Seq(Int) /\ Ordered(e2)
  BY <1>2, ScheduleParts
<1>8. Last(r.eventTimes) = TileTime(tpl, start, k) /\ Last(r.eventTimes) = e2[Len(e2)]
  <2>1. k + 1 \in 1..(k + 1) /\ (k + 1) - 1 = k
    BY <1>3
  <2>. HIDE DEF e2
  <2>. QED  BY <1>2, <1>5, <2>1 DEF Last
<1>9. ASSUME NEW u \in Int, start < u, u <= Last(r.eventTimes)
      PROVE  ModeAtTime(r, u) = RepeatedMode(tpl, u - start)
  <2>. DEFINE i == LowerBound(e2, u)
              j == i - Len(ev) - 1
  <2>. HIDE DEF e2
  <2>1. /\ i \in 0..Len(e2)
        /\ \A c \in 1..i : e2[c] < u
        /\ i < Len(e2) => e2[i + 1] >= u
    BY <1>7, LowerBoundProperties
  <2>. HIDE DEF i
  <2>2. e2[Len(ev) + 1] = start
    <3>1. 1 \in 1..(k + 1) /\ 1 - 1 = 0
      BY <1>3
    <3>2. TileTime(tpl, start, 0) = start
      BY TileTimeProperties
    <3>. QED  BY <1>5, <3>1, <3>2
  <2>3. i < Len(e2)
    <3>1. Len(e2) \in Nat /\ Len(e2) \in 1..Len(e2) /\ e2[Len(e2)] \in Int
      BY <1>1, <1>3, <1>5, <1>7
    <3>2. i # Len(e2)
      BY <1>8, <1>9, <2>1, <3>1
    <3>. QED  BY <2>1, <3>1, <3>2
  <2>4. i >= Len(ev) + 1
    <3>. SUFFICES ASSUME i < Len(ev) + 1
                  PROVE  FALSE
      BY <1>1, <2>1
    <3>1. i + 1 \in 1..Len(e2) /\ Len(ev) + 1 \in (i + 1)..Len(e2)
      BY <1>1, <1>3, <1>5, <2>1
    <3>2. e2[i + 1] <= e2[Len(ev) + 1]
      BY <1>7, <3>1, LaterEvents
    <3>3. e2[i + 1] >= u /\ e2[i + 1] \in Int
      BY <1>7, <2>1, <2>3, <3>1
    <3>. QED  BY <1>9, <2>2, <3>2, <3>3
  <2>5. j \in Nat /\ j + 1 \in 1..k /\ i = Len(ev) + (j + 1) /\ i + 1 = Len(ev) + (j + 2)
        /\ i + 1 = Len(ev) + 1 + (j + 1)
    BY <1>1, <1>3, <1>5, <2>1, <2>3, <2>4
  <2>. HIDE DEF j
  <2>6. TileTime(tpl, start, j) < u
    <3>1. j + 1 \in 1..(k + 1) /\ (j + 1) - 1 = j /\ i \in 1..i
      BY <1>1, <1>3, <2>1, <2>4, <2>5
    <3>2. e2[i] = TileTime(tpl, start, j)
      BY <1>5, <2>5, <3>1
    <3>. QED  BY <2>1, <3>1, <3>2
  <2>7. u <= TileTime(tpl, start, j + 1)
    <3>1. j + 2 \in 1..(k + 1) /\ (j + 2) - 1 = j + 1
      BY <1>3, <2>5
    <3>2. e2[i + 1] = TileTime(tpl, start, j + 1)
      BY <1>5, <2>5, <3>1
    <3>3. TileTime(tpl, start, j + 1) \in Int
      BY <2>5, TileTimeProperties
    <3>. QED  BY <2>1, <2>3, <3>2, <3>3
  <2>8. RepeatedMode(tpl, u - start) = TileMode(tpl, j)
    BY <2>5, <2>6, <2>7, RepeatedModeOfTile
  <2>9. m2[i + 1] = TileMode(tpl, j)
    <3>1. (j + 1) - 1 = j
      BY <2>5
    <3>. QED  BY <1>6, <2>5, <3>1
  <2>. QED  BY <1>2, <2>8, <2>9 DEF ModeAtTime, i
<1>. QED  BY <1>4, <1>8, <1>9 DEF r

\* Past the last event the last mode goes on.
LEMMA ModePastEvents ==
  ASSUME NEW T, NEW s \in Schedules(T), NEW u \in Int,
         s.eventTimes # <<>> => Last(s.eventTimes) < u
  PROVE  ModeAtTime(s, u) = Last(s.modeSequence)
<1>. DEFINE e == s.eventTimes
            m == s.modeSequence
<1>1. /\ e \in Seq(Int) /\ Len(e) \in Nat /\ Ordered(e)
      /\ m \in Seq(Modes) /\ Len(m) = Len(e) + 1
  BY ScheduleParts
<1>. HIDE DEF e, m
<1>2. \A j \in 1..Len(e) : e[j] < u
  <2>. TAKE j \in 1..Len(e)
  <2>1. Len(e) \in j..Len(e) /\ Len(e) \in 1..Len(e) /\ e # <<>>
    BY <1>1
  <2>2. e[j] <= e[Len(e)] /\ e[j] \in Int /\ e[Len(e)] \in Int
    BY <1>1, <2>1, LaterEvents
  <2>3. e[Len(e)] < u
    BY <2>1 DEF Last, e
  <2>. QED  BY <2>2, <2>3
<1>3. LowerBound(e, u) = Len(e)
  <2>1. Len(e) \in 0..Len(e) /\ ~ (Len(e) < Len(e))
    BY <1>1
  <2>. QED  BY <1>1, <1>2, <2>1, LowerBoundIs
<1>4. Last(m) = m[Len(e) + 1]
  BY <1>1 DEF Last
<1>. QED  BY <1>3, <1>4 DEF ModeAtTime, e, m

\* After tiling, the schedule promises what it had up to the start and the repetition of
\* the template from there, for ever.
LEMMA TilePromises ==
  ASSUME NEW T, NEW s \in Schedules(T), IsModeSequenceTemplate(s.template),
         NEW start \in Int, NEW final \in Int,
         s.eventTimes # <<>> => Last(s.eventTimes) < start,
         NEW u \in Int
  PROVE  PromisedMode(Tile(s, start, final), u) =
           IF u <= start THEN ModeAtTime(s, u) ELSE RepeatedMode(s.template, u - start)
<1>. DEFINE r    == Tile(s, start, final)
            tpl  == s.template
            last == Last(r.eventTimes)
            D    == Duration(tpl)
<1>1. r.template = tpl
  BY TileProperties
<1>2. last \in Int /\ last >= start
  BY TileLast
<1>3. PICK k \in Nat : last = start + k * D
  BY TileRepeats
<1>4. start < u /\ u <= last => ModeAtTime(r, u) = RepeatedMode(tpl, u - start)
  BY TileRepeats
<1>5. u <= start => ModeAtTime(r, u) = ModeAtTime(s, u)
  BY TileModesKept
<1>6. D \in Nat \ {0}
  BY TemplateParts
<1>. HIDE DEF r, tpl, last, D
<1>7. CASE u <= last
  <2>1. PromisedMode(r, u) = ModeAtTime(r, u)
    BY <1>7 DEF PromisedMode, last
  <2>. QED  BY <1>4, <1>5, <1>7, <2>1 DEF r, tpl
<1>8. CASE ~ (u <= last)
  <2>1. PromisedMode(r, u) = RepeatedMode(tpl, u - last)
    BY <1>1, <1>8 DEF PromisedMode, last
  <2>2. ~ (u <= start) /\ u - last \in Nat \ {0}
    BY <1>2, <1>8
  <2>3. (u - last) + k * D = u - start
    <3>1. k * D \in Nat
      BY <1>6
    <3>. QED  BY <1>2, <1>3, <3>1
  <2>4. IsModeSequenceTemplate(tpl)
    BY DEF tpl
  <2>5. RepeatedMode(tpl, (u - last) + k * D) = RepeatedMode(tpl, u - last)
    BY <2>2, <2>4, RepeatedModeProperties DEF D
  <2>. QED  BY <2>1, <2>2, <2>3, <2>5 DEF r, tpl
<1>. QED  BY <1>7, <1>8

\* Fetching changes no promise from the beginning of the fetched interval on: not where
\* the list is extended, and not beyond.
LEMMA FetchKeepsPromises ==
  ASSUME NEW T, NEW s \in Schedules(T), NEW lower \in Int, NEW upper \in Int,
         IsModeSequenceTemplate(s.template), s.eventTimes # <<>>,
         Head(s.modeSequence) = STANCE, NEW u \in Int, lower <= u
  PROVE  PromisedMode(GetModeSchedule(s, lower, upper), u) = PromisedMode(s, u)
<1>. DEFINE kept == DropPast(s, lower)
            cut  == [kept EXCEPT !.eventTimes = Front(@), !.modeSequence = Front(@)]
            r    == GetModeSchedule(s, lower, upper)
            last == Last(kept.eventTimes)
<1>1. /\ kept \in Schedules(T) /\ kept.eventTimes # <<>>
      /\ kept.template = s.template
  BY DropPastProperties
<1>2. r = Tile(cut, last, upper)
  BY <1>1 DEF GetModeSchedule
<1>3. last = Last(s.eventTimes) /\ ModeAtTime(kept, u) = ModeAtTime(s, u)
  BY DropPastModes
<1>. HIDE DEF kept, r, last
<1>4. /\ cut \in Schedules(T) /\ cut.template = s.template
      /\ cut.eventTimes # <<>> => Last(cut.eventTimes) < last
      /\ last \in Int
  BY <1>1, FrontProperties DEF last
<1>5. u <= last => ModeAtTime(cut, u) = ModeAtTime(kept, u)
  BY <1>1, FrontModes DEF last
<1>. HIDE DEF cut
<1>6. PromisedMode(r, u) =
        IF u <= last THEN ModeAtTime(cut, u) ELSE RepeatedMode(s.template, u - last)
  BY <1>2, <1>4, TilePromises
<1>7. PromisedMode(r, u) = PromisedMode(s, u)
  BY <1>3, <1>5, <1>6 DEF PromisedMode
<1>. QED  BY <1>7 DEF r

\* A new gait keeps every promise up to where it is inserted; from there the robot stands
\* for the transition, unless it stands already, and then goes on in the new gait for ever.
LEMMA InsertPromises ==
  ASSUME NEW T, NEW s \in Schedules(T), NEW tpl \in T, IsModeSequenceTemplate(tpl),
         NEW start \in Int, NEW final \in Int, NEW u \in Int
  PROVE  LET from == IF ModeAtTime(s, start) = STANCE THEN start
                     ELSE start + phaseTransitionStanceTime
         IN  PromisedMode(InsertModeSequenceTemplate(s, tpl, start, final), u) =
               IF u <= start THEN ModeAtTime(s, u)
               ELSE IF u <= from THEN STANCE
               ELSE RepeatedMode(tpl, u - from)
<1>. DEFINE kept       == CutAt(s, tpl, start)
            transition == IF Last(kept.modeSequence) = STANCE THEN 0
                          ELSE phaseTransitionStanceTime
            stand      == IF transition = 0 THEN kept ELSE StandFrom(kept, start)
            from       == IF ModeAtTime(s, start) = STANCE THEN start
                          ELSE start + phaseTransitionStanceTime
            r          == InsertModeSequenceTemplate(s, tpl, start, final)
<1>1. /\ kept \in Schedules(T) /\ kept.template = tpl
      /\ kept.eventTimes # <<>> => Last(kept.eventTimes) < start
  BY CutProperties
<1>2. r = Tile(stand, start + transition, final)
  BY DEF InsertModeSequenceTemplate
<1>3. \A t \in Int : t <= start => ModeAtTime(kept, t) = ModeAtTime(s, t)
  BY CutModes
<1>4. Last(kept.modeSequence) = ModeAtTime(s, start)
  <2>1. ModeAtTime(kept, start) = Last(kept.modeSequence)
    <3>. HIDE DEF kept
    <3>. QED  BY <1>1, ModePastEvents
  <2>2. ModeAtTime(kept, start) = ModeAtTime(s, start)
    BY <1>3
  <2>. QED  BY <2>1, <2>2
<1>. HIDE DEF kept, r
<1>5. transition \in Nat /\ start + transition = from /\ from \in Int /\ start <= from
  BY <1>4, TransitionAssumption
<1>. HIDE DEF transition, from
<1>6. /\ stand \in Schedules(T) /\ stand.template = tpl
      /\ stand.eventTimes # <<>> => Last(stand.eventTimes) < from
      /\ start < u /\ u <= from => ModeAtTime(stand, u) = STANCE
  <2>1. CASE transition = 0
    BY <1>1, <1>5, <2>1
  <2>2. CASE transition # 0
    <3>1. stand = StandFrom(kept, start)
      BY <2>2
    <3>2. /\ stand \in Schedules(T) /\ stand.template = tpl
          /\ stand.eventTimes # <<>> /\ Last(stand.eventTimes) = start
      BY <1>1, <3>1, StandProperties
    <3>3. Last(stand.modeSequence) = STANCE
      <4>. DEFINE e2 == Append(kept.eventTimes, start)
                  m2 == Append(kept.modeSequence, STANCE)
      <4>1. stand = [kept EXCEPT !.eventTimes = e2, !.modeSequence = m2]
        BY <3>1 DEF StandFrom
      <4>. HIDE DEF e2, m2, stand
      <4>2. stand.modeSequence = m2
        BY <1>1, <4>1, ScheduleParts
      <4>3. kept.modeSequence \in Seq(Modes)
        BY <1>1, ScheduleParts
      <4>. QED  BY <4>2, <4>3 DEF m2, Last
    <3>. HIDE DEF stand
    <3>4. start < u => ModeAtTime(stand, u) = Last(stand.modeSequence)
      BY <3>2, ModePastEvents
    <3>. QED  BY <1>5, <2>2, <3>2, <3>3, <3>4
  <2>. QED  BY <2>1, <2>2
<1>7. u <= start => ModeAtTime(stand, u) = ModeAtTime(s, u)
  <2>1. u <= start => ModeAtTime(StandFrom(kept, start), u) = ModeAtTime(kept, u)
    BY <1>1, StandModes
  <2>. QED  BY <1>3, <2>1
<1>. HIDE DEF stand
<1>8. PromisedMode(r, u) =
        IF u <= from THEN ModeAtTime(stand, u) ELSE RepeatedMode(tpl, u - from)
  BY <1>2, <1>5, <1>6, TilePromises
<1>9. PromisedMode(r, u) = IF u <= start THEN ModeAtTime(s, u)
                           ELSE IF u <= from THEN STANCE
                           ELSE RepeatedMode(tpl, u - from)
  BY <1>5, <1>6, <1>7, <1>8
<1>. QED  BY <1>9 DEF r, from

\* What is promised is a mode.
LEMMA PromiseIsMode ==
  ASSUME NEW T, NEW s \in Schedules(T), IsModeSequenceTemplate(s.template),
         s.eventTimes # <<>>, NEW u \in Int
  PROVE  PromisedMode(s, u) \in Modes
<1>1. /\ s.eventTimes \in Seq(Int) /\ s.modeSequence \in Seq(Modes)
      /\ Len(s.eventTimes) \in Nat /\ Len(s.modeSequence) = Len(s.eventTimes) + 1
  BY ScheduleParts
<1>2. LowerBound(s.eventTimes, u) \in 0..Len(s.eventTimes)
  BY <1>1, LowerBoundProperties
<1>3. ModeAtTime(s, u) \in Modes
  <2>1. LowerBound(s.eventTimes, u) + 1 \in 1..Len(s.modeSequence)
    BY <1>1, <1>2
  <2>. QED  BY <1>1, <2>1 DEF ModeAtTime
<1>4. Last(s.eventTimes) \in Int
  BY <1>1, Ends
<1>5. ~ (u <= Last(s.eventTimes)) => u - Last(s.eventTimes) \in Nat \ {0}
  BY <1>4
<1>. QED  BY <1>3, <1>5, RepeatedModeProperties DEF PromisedMode

---------------------------------------------------------------------------------
(***************************************************************************)
(* The refinement.                                                         *)
(***************************************************************************)

\* The lower bound counts the events before a time.
LEMMA LowerBoundCounts ==
  ASSUME NEW e \in Seq(Int), Ordered(e), NEW u \in Int
  PROVE  Cardinality({i \in DOMAIN e : e[i] < u}) = LowerBound(e, u)
<1>. DEFINE c == LowerBound(e, u)
            S == {i \in DOMAIN e : e[i] < u}
<1>1. /\ c \in 0..Len(e) /\ Len(e) \in Nat
      /\ \A j \in 1..c : e[j] < u
      /\ c < Len(e) => e[c + 1] >= u
  BY LowerBoundProperties
<1>. HIDE DEF c
<1>2. S = 1..c
  <2>1. ASSUME NEW i \in S
        PROVE  i \in 1..c
    <3>1. i \in 1..Len(e) /\ e[i] < u /\ e[i] \in Int
      OBVIOUS
    <3>2. ~ (i > c)
      <4>. SUFFICES ASSUME i > c
                    PROVE  FALSE
        OBVIOUS
      <4>1. c + 1 \in 1..Len(e) /\ i \in (c + 1)..Len(e) /\ c < Len(e)
        BY <1>1, <3>1
      <4>2. e[c + 1] <= e[i] /\ e[c + 1] \in Int
        BY <4>1, LaterEvents
      <4>. QED  BY <1>1, <3>1, <4>1, <4>2
    <3>. QED  BY <1>1, <3>1, <3>2
  <2>2. 1..c \subseteq S
    BY <1>1
  <2>. HIDE DEF S
  <2>. QED  BY <2>1, <2>2
<1>3. Cardinality(1..c) = c
  <2>1. Cardinality(1..c) = IF 1 > c THEN 0 ELSE c - 1 + 1
    BY <1>1, FS_Interval
  <2>. QED  BY <1>1, <2>1
<1>. QED  BY <1>2, <1>3 DEF c

\* The window of the abstract specification is that of the promises.
LEMMA WindowIs ==
  /\ Timeline!Window = FirstTime..LastTime
  /\ DOMAIN promises = FirstTime..LastTime
  BY DEF Timeline!Window, Timeline!WindowOf, FirstTime, promises

\* The times of the window are integers.
LEMMA WindowTimes ==
  ASSUME IInv
  PROVE  FirstTime..LastTime \subseteq Int
<1>1. initTime \in Nat /\ timeHorizon \in Nat /\ MaxTime \in Nat
  BY PlanningAssumption DEF IInv, TypeOK
<1>. QED  BY <1>1 DEF FirstTime, LastTime

\* The schedule the solver runs and the callbacks work on.
LEMMA ScheduleNow ==
  ASSUME IInv
  PROVE  /\ gaitSchedule \in Schedules(Templates) /\ gaitSchedule.eventTimes # <<>>
         /\ Head(gaitSchedule.modeSequence) = STANCE
         /\ IsModeSequenceTemplate(gaitSchedule.template)
<1>1. /\ gaitSchedule \in Schedules(Templates) /\ gaitSchedule.eventTimes # <<>>
      /\ Head(gaitSchedule.modeSequence) = STANCE
  BY DEF IInv, TypeOK, StandsBeforeFirstEvent, Templates
<1>. QED  BY <1>1, ScheduleParts, Parameters

LEMMA InitTimeline == Init => Timeline!TInit
<1>. SUFFICES ASSUME Init
              PROVE  Timeline!TInit
  OBVIOUS
<1>1. IInv
  BY InitIInv
<1>2. \A t \in FirstTime..LastTime : PromisedMode(gaitSchedule, t) \in Modes
  BY <1>1, ScheduleNow, WindowTimes, PromiseIsMode
<1>3. promises \in [Timeline!Window -> Modes]
  BY <1>2, WindowIs DEF promises
<1>4. Timeline!Modes = Modes
  BY DEF Timeline!Modes, Modes
<1>. QED  BY <1>3, <1>4 DEF Timeline!TInit, Init

\* A schedule another node sends replaces all promises.
LEMMA ReplaceTimeline ==
  ASSUME IInv, OthersStandFirst, NEW ms \in ExternalSchedules, modeScheduleCallback(ms)
  PROVE  Timeline!Replace
<1>. DEFINE e   == ms.eventTimes
            s   == SetModeSchedule(gaitSchedule, ms)
            tpl == gaitSchedule.template
            end == e[Len(e)]
            before(t) == {i \in DOMAIN e : e[i] < t}
            mode(t) == IF t <= end THEN ms.modeSequence[Cardinality(before(t)) + 1]
                       ELSE Timeline!CycleMode(tpl, t - end)
<1>1. /\ gaitSchedule' = s
      /\ UNCHANGED <<initTime, solved, receivedGait, gaitUpdated>>
  BY DEF modeScheduleCallback
<1>2. gaitSchedule \in Schedules(Templates) /\ IsModeSequenceTemplate(tpl)
  BY ScheduleNow
<1>3. s.eventTimes = e /\ s.modeSequence = ms.modeSequence /\ s.template = tpl
  BY <1>2, ScheduleParts DEF SetModeSchedule
<1>4. e \in Seq(Int) /\ Ordered(e) /\ e # <<>>
  BY Parameters DEF IsSchedule, OthersStandFirst, StandsFirst
<1>5. end \in Int /\ Last(e) = end
  BY <1>4 DEF Last
<1>. HIDE DEF s, e, tpl
<1>6. ASSUME NEW t \in Int
      PROVE  PromisedMode(s, t) = mode(t)
  <2>1. CASE t <= end
    <3>1. PromisedMode(s, t) = ms.modeSequence[LowerBound(e, t) + 1]
      BY <1>3, <1>5, <2>1 DEF PromisedMode, ModeAtTime
    <3>2. Cardinality(before(t)) = LowerBound(e, t)
      BY <1>4, LowerBoundCounts
    <3>. QED  BY <2>1, <3>1, <3>2
  <2>2. CASE ~ (t <= end)
    <3>1. PromisedMode(s, t) = RepeatedMode(tpl, t - end)
      BY <1>3, <1>5, <2>2 DEF PromisedMode
    <3>2. t - end \in Nat \ {0}
      BY <1>5, <2>2
    <3>. QED  BY <1>2, <2>2, <3>1, <3>2, CycleModeIs
  <2>. QED  BY <2>1, <2>2
<1>7. FirstTime' = FirstTime /\ LastTime' = LastTime
  BY <1>1 DEF FirstTime, LastTime
<1>8. promises' = [t \in Timeline!Window |-> mode(t)]
  <2>1. promises' = [t \in FirstTime..LastTime |-> PromisedMode(s, t)]
    BY <1>1, <1>7 DEF promises
  <2>2. \A t \in FirstTime..LastTime : PromisedMode(s, t) = mode(t)
    BY <1>6, WindowTimes
  <2>. HIDE DEF mode
  <2>. QED  BY <2>1, <2>2, WindowIs
<1>9. gaitSchedule'.template = gaitSchedule.template
  BY <1>1, <1>3 DEF tpl
<1>10. \A S : Timeline!Cardinality(S) = Cardinality(S)
  BY DEF Cardinality, Timeline!Cardinality
<1>. QED  BY <1>1, <1>8, <1>9, <1>10 DEF Timeline!Replace, e, tpl

\* A solver run changes no promise, or inserts the waiting gait at the end of its horizon.
LEMMA RunTimeline ==
  ASSUME IInv, NEW t \in Nat, SolverRun(t)
  PROVE  Timeline!Run
<1>. DEFINE fetched == FetchModeSchedule(gaitSchedule, t)
            next    == ApplyGaitCommand(fetched, t)
            lower   == t - timeHorizon
            upper   == t + timeHorizon + timeHorizon
            f       == t + timeHorizon
<1>1. /\ gaitSchedule' = next /\ gaitUpdated' = FALSE /\ initTime' = t /\ solved' = TRUE
      /\ receivedGait' = receivedGait
  BY DEF SolverRun
<1>2. timeHorizon \in Nat /\ lower \in Int /\ upper \in Int /\ f \in Int /\ lower <= f
  BY Parameters
<1>3. /\ fetched \in Schedules(Templates) /\ Last(fetched.eventTimes) \in Int
      /\ Last(fetched.eventTimes) >= f
  BY FetchedSchedule
<1>4. \A u \in Int : lower <= u => PromisedMode(fetched, u) = PromisedMode(gaitSchedule, u)
  <2>1. fetched = GetModeSchedule(gaitSchedule, lower, upper)
    BY DEF FetchModeSchedule
  <2>. HIDE DEF fetched, lower, upper
  <2>. QED  BY <1>2, <2>1, ScheduleNow, FetchKeepsPromises
<1>5. fetched.template = gaitSchedule.template
  <2>1. fetched = GetModeSchedule(gaitSchedule, lower, upper)
    BY DEF FetchModeSchedule
  <2>. HIDE DEF fetched, lower, upper
  <2>. QED  BY <1>2, <2>1, ScheduleNow, GetModeScheduleProperties
<1>. HIDE DEF fetched
<1>6. FirstTime' = lower /\ LastTime' = LastTime /\ LastTime \in Int
  BY <1>1, PlanningAssumption DEF FirstTime, LastTime
<1>7. /\ promises' = [u \in lower..LastTime |-> PromisedMode(next, u)]
      /\ DOMAIN promises' = lower..LastTime
  <2>1. promises' = [u \in lower..LastTime |-> PromisedMode(next, u)]
    BY <1>1, <1>6 DEF promises
  <2>. QED  BY <2>1
<1>8. DOMAIN promises' = Timeline!Window'
  BY <1>1, <1>6, <1>7 DEF Timeline!Window, Timeline!WindowOf
<1>9. \A u \in DOMAIN promises \cap DOMAIN promises' :
        /\ u \in Int /\ lower <= u /\ u \in FirstTime..LastTime
        /\ promises'[u] = PromisedMode(next, u)
        /\ promises[u] = PromisedMode(fetched, u)
  <2>. TAKE u \in DOMAIN promises \cap DOMAIN promises'
  <2>1. u \in lower..LastTime /\ u \in FirstTime..LastTime
    BY <1>7, WindowIs
  <2>2. u \in Int /\ lower <= u
    BY <1>2, <1>6, <2>1
  <2>3. promises'[u] = PromisedMode(next, u)
    BY <1>7, <2>1
  <2>4. promises[u] = PromisedMode(gaitSchedule, u)
    BY <2>1 DEF promises
  <2>. QED  BY <1>4, <2>1, <2>2, <2>3, <2>4
<1>10. CASE gaitUpdated
  <2>. DEFINE tpl  == receivedGait
              from == IF ModeAtTime(fetched, f) = STANCE THEN f
                      ELSE f + phaseTransitionStanceTime
  <2>1. tpl \in Templates /\ IsModeSequenceTemplate(tpl)
    BY <1>10, Parameters DEF IInv, TypeOK, Templates
  <2>2. next = InsertModeSequenceTemplate(fetched, tpl, f, InsertFinal(t))
    BY <1>10 DEF ApplyGaitCommand, InsertStart
  <2>3. InsertFinal(t) \in Int /\ from \in Int /\ f <= from
    BY <1>2, TransitionAssumption DEF InsertFinal
  <2>4. next.template = tpl
    BY <1>2, <1>3, <2>1, <2>2, <2>3, InsertModeSequenceTemplateProperties
  <2>5. \A u \in Int : PromisedMode(next, u) =
                         IF u <= f THEN ModeAtTime(fetched, u)
                         ELSE IF u <= from THEN STANCE
                         ELSE RepeatedMode(tpl, u - from)
    BY <1>2, <1>3, <2>1, <2>2, <2>3, InsertPromises
  <2>6. from \in Timeline!Starts(promises, f)
    <3>1. CASE f \in DOMAIN promises
      <4>1. promises[f] = PromisedMode(gaitSchedule, f)
        BY <3>1, WindowIs DEF promises
      <4>2. promises[f] = ModeAtTime(fetched, f)
        BY <1>2, <1>3, <1>4, <4>1 DEF PromisedMode
      <4>. QED  BY <3>1, <4>2 DEF Timeline!Starts, Timeline!STANCE, STANCE
    <3>2. CASE f \notin DOMAIN promises
      BY <3>2 DEF Timeline!Starts
    <3>. QED  BY <3>1, <3>2
  <2>. HIDE DEF next, from, tpl, f, lower
  <2>7. ASSUME NEW u \in DOMAIN promises \cap DOMAIN promises'
        PROVE  promises'[u] = Timeline!SwitchAt(promises, f, from, tpl)[u]
    <3>1. /\ u \in Int /\ promises'[u] = PromisedMode(next, u)
          /\ promises[u] = PromisedMode(fetched, u) /\ u \in DOMAIN promises
      BY <1>9
    <3>2. Timeline!SwitchAt(promises, f, from, tpl)[u] =
            IF u <= f THEN promises[u]
            ELSE IF u <= from THEN STANCE
            ELSE Timeline!CycleMode(tpl, u - from)
      BY <3>1 DEF Timeline!SwitchAt, Timeline!STANCE, STANCE
    <3>3. u <= f => promises[u] = ModeAtTime(fetched, u)
      BY <1>2, <1>3, <3>1 DEF PromisedMode
    <3>4. ~ (u <= from) => Timeline!CycleMode(tpl, u - from) = RepeatedMode(tpl, u - from)
      <4>1. ~ (u <= from) => u - from \in Nat \ {0}
        BY <2>3, <3>1
      <4>. QED  BY <2>1, <4>1, CycleModeIs
    <3>. QED  BY <2>5, <3>1, <3>2, <3>3, <3>4
  <2>8. initTime' + timeHorizon = f
    BY <1>1 DEF f
  <2>9. gaitSchedule'.template = receivedGait
    BY <1>1, <2>4 DEF tpl
  <2>. QED  BY <1>1, <1>8, <1>10, <2>6, <2>7, <2>8, <2>9 DEF Timeline!Run, tpl
<1>11. CASE ~ gaitUpdated
  <2>1. next = fetched
    BY <1>11 DEF ApplyGaitCommand
  <2>. HIDE DEF next
  <2>2. \A u \in DOMAIN promises \cap DOMAIN promises' : promises'[u] = promises[u]
    BY <1>9, <2>1
  <2>3. gaitSchedule'.template = gaitSchedule.template
    BY <1>1, <1>5, <2>1
  <2>. QED  BY <1>1, <1>8, <1>11, <2>2, <2>3 DEF Timeline!Run
<1>. QED  BY <1>10, <1>11

\* The lazily tiled and pruned list of events is the endless timeline GaitSchedule.h
\* promises: getModeSchedule changes the mode of no time that can still be asked for, a
\* gait command changes them from the end of the horizon on, and whatever is tiled
\* later is what was promised before; with resets and schedules of other nodes too.
THEOREM PlanningImplementsTimeline ==
  ASSUME OthersStandFirst
  PROVE  Spec => ImplementsTimeline
<1>1. IInv /\ [Next]_vars => [Timeline!TNext]_Timeline!tvars
  <2>. SUFFICES ASSUME IInv, [Next]_vars
                PROVE  Timeline!TNext \/ UNCHANGED Timeline!tvars
    OBVIOUS
  <2>1. ASSUME NEW tpl \in Gaits, mpcModeSequenceCallback(tpl)
        PROVE  Timeline!Command
    <3>1. promises' = promises
      BY <2>1 DEF mpcModeSequenceCallback, promises, FirstTime, LastTime
    <3>. QED  BY <2>1, <3>1 DEF mpcModeSequenceCallback, Timeline!Command
  <2>2. ASSUME NEW ms \in ExternalSchedules, modeScheduleCallback(ms)
        PROVE  Timeline!Replace
    BY <2>2, ReplaceTimeline
  <2>3. CASE Advance \/ Restart
    BY <2>3, RunsAtNatural, RunTimeline DEF Timeline!TNext
  <2>4. CASE UNCHANGED vars
    <3>1. promises' = promises
      BY <2>4 DEF vars, promises, FirstTime, LastTime
    <3>. QED  BY <2>4, <3>1 DEF vars, Timeline!tvars
  <2>. QED  BY <2>1, <2>2, <2>3, <2>4 DEF Next, Timeline!TNext
<1>. QED
  BY InitIInv, NextIInv, InitTimeline, <1>1, PTL DEF Spec, ImplementsTimeline, Timeline!TSpec

---------------------------------------------------------------------------------
(***************************************************************************)
(* A swing in progress.                                                    *)
(***************************************************************************)

\* The leg stands at a time.
Down(ms, leg, u) == leg \in modeNumber2StanceLeg[ModeAtTime(ms, u)]

\* No leg is in the air for more than w ticks: while a gait repeats, in what a gait
\* schedule promises, in a mode schedule.
SwingsRepeated(tpl, w) ==
  \A leg \in Legs : \A a, b \in Nat :
    (\A u \in (a + 1)..b : leg \notin modeNumber2StanceLeg[RepeatedMode(tpl, u)]) => b - a <= w

SwingsPromised(s, w) ==
  \A leg \in Legs : \A a, b \in Int :
    (\A u \in (a + 1)..b : leg \notin modeNumber2StanceLeg[PromisedMode(s, u)]) => b - a <= w

SwingsPlanned(ms, w) ==
  \A leg \in Legs : \A a, b \in Int :
    (\A u \in (a + 1)..b : ~ Down(ms, leg, u)) => b - a <= w

\* A swing that is found has contact before it and after it and none during it.
LEMMA SwingPhases ==
  ASSUME NEW ms, IsSchedule(ms), NEW leg \in Legs, NEW p \in 1..NumPhases(ms),
         p \notin ContactPhases(ms, leg), IndicesAreValid(ms, leg, p)
  PROVE  LET first == StartTimesIndex(ms, leg, p)
             last  == FinalTimesIndex(ms, leg, p)
         IN  /\ first \in ContactPhases(ms, leg) /\ first < p
             /\ last + 1 \in ContactPhases(ms, leg) /\ p <= last
             /\ \A q \in (first + 1)..last : q \notin ContactPhases(ms, leg)
<1>. DEFINE N == NumPhases(ms)
            C == ContactPhases(ms, leg)
            first == StartTimesIndex(ms, leg, p)
            last  == FinalTimesIndex(ms, leg, p)
<1>1. N \in Nat \ {0} /\ p \in 1..N
  BY DEF IsSchedule, NumPhases
<1>2. C \in SUBSET (1..N) /\ p \notin C
  BY DEF ContactPhases
<1>3. first >= 1 /\ last < N
  BY DEF IndicesAreValid
<1>4. first = Max({0} \cup {q \in C : q < p})
  BY DEF StartTimesIndex
<1>5. last = Min({N} \cup {q - 1 : q \in {c \in C : c > p}})
  BY DEF FinalTimesIndex
<1>. HIDE DEF N, C, first, last
<1>6. /\ first \in C /\ first < p
      /\ \A q \in C : q < p => q <= first
  <2>. DEFINE S == {0} \cup {q \in C : q < p}
  <2>0. p \in Nat /\ \A q \in C : q \in Nat
    BY <1>1, <1>2
  <2>1. S \in SUBSET (0..p) /\ S # {}
    BY <2>0
  <2>2. PICK m \in S : \A k \in S : k <= m
    BY <2>0, <2>1, LargestInSet
  <2>3. first = Max(S)
    BY <1>4
  <2>4. \A q \in S : q = 0 \/ (q \in C /\ q < p)
    OBVIOUS
  <2>5. \A q \in C : q < p => q \in S
    OBVIOUS
  <2>. HIDE DEF S
  <2>6. \A k \in S : m >= k
    BY <2>0, <2>1, <2>2
  <2>7. Max(S) \in S /\ \A k \in S : Max(S) >= k
    BY <2>2, <2>6, Zenon DEF Max
  <2>8. first \in S /\ \A k \in S : first >= k
    BY <2>3, <2>7
  <2>. QED  BY <1>3, <2>0, <2>4, <2>5, <2>8
<1>7. /\ last \in Int /\ last + 1 \in C /\ p <= last
      /\ \A c \in C : c > p => last + 1 <= c
  <2>. DEFINE S == {N} \cup {q - 1 : q \in {c \in C : c > p}}
  <2>0. p \in Nat /\ N \in Nat /\ \A q \in C : q \in Nat
    BY <1>1, <1>2
  <2>1. S \in SUBSET Nat /\ S # {}
    BY <2>0
  <2>2. PICK m \in S : \A k \in S : m <= k
    BY <2>1, SmallestInSet
  <2>3. last = Min(S)
    BY <1>5
  <2>4. \A k \in S : k = N \/ \E c \in C : c > p /\ k = c - 1
    OBVIOUS
  <2>5. \A c \in C : c > p => c - 1 \in S
    OBVIOUS
  <2>. HIDE DEF S
  <2>6. Min(S) \in S /\ \A k \in S : Min(S) <= k
    BY <2>2, Zenon DEF Min
  <2>7. last \in S /\ \A k \in S : last <= k
    BY <2>3, <2>6
  <2>8. PICK c \in C : c > p /\ last = c - 1
    BY <1>3, <2>0, <2>4, <2>7
  <2>9. last + 1 = c /\ p <= last
    BY <2>0, <2>8
  <2>10. ASSUME NEW k \in C, k > p
         PROVE  last + 1 <= k
    <3>1. last <= k - 1
      BY <2>5, <2>7, <2>10
    <3>. QED  BY <2>0, <2>8, <3>1
  <2>. QED  BY <2>0, <2>8, <2>9, <2>10
<1>8. ASSUME NEW q \in (first + 1)..last
      PROVE  q \notin C
  <2>1. first \in Nat /\ last \in Nat /\ q \in Nat /\ p \in Nat /\ first < q /\ q <= last
    BY <1>1, <1>2, <1>6, <1>7
  <2>2. CASE q < p
    BY <1>6, <2>1, <2>2
  <2>3. CASE q > p
    BY <1>7, <2>1, <2>3
  <2>. QED  BY <1>2, <2>1, <2>2, <2>3
<1>. QED  BY <1>6, <1>7, <1>8 DEF C, first, last

\* The mode of the times of a phase.
LEMMA PhaseOfTime ==
  ASSUME NEW ms, IsSchedule(ms), NEW q \in 1..NumPhases(ms), NEW u \in Int,
         q > 1 => ms.eventTimes[q - 1] < u,
         q < NumPhases(ms) => u <= ms.eventTimes[q]
  PROVE  ModeAtTime(ms, u) = ms.modeSequence[q]
<1>. DEFINE e == ms.eventTimes
            i == q - 1
<1>1. e \in Seq(Int) /\ Ordered(e) /\ Len(e) \in Nat /\ NumPhases(ms) = Len(e) + 1
      /\ \A k \in 1..Len(e) : e[k] \in Int
  BY DEF IsSchedule, NumPhases
<1>. HIDE DEF e
<1>2. i \in 0..Len(e) /\ i + 1 = q
  BY <1>1
<1>3. \A j \in 1..i : e[j] < u
  <2>. TAKE j \in 1..i
  <2>1. j \in 1..Len(e) /\ i \in j..Len(e) /\ i \in 1..Len(e) /\ q > 1
    BY <1>1, <1>2
  <2>2. e[j] <= e[i] /\ e[i] < u
    BY <1>1, <2>1, LaterEvents DEF e
  <2>. QED  BY <1>1, <2>1, <2>2
<1>4. i < Len(e) => e[i + 1] >= u
  <2>. SUFFICES ASSUME i < Len(e)
                PROVE  e[i + 1] >= u
    OBVIOUS
  <2>1. q < NumPhases(ms) /\ q \in 1..Len(e)
    BY <1>1, <1>2
  <2>2. u <= e[q] /\ e[q] \in Int
    BY <1>1, <2>1 DEF e
  <2>. QED  BY <1>2, <2>2
<1>5. LowerBound(e, u) = i
  BY <1>1, <1>2, <1>3, <1>4, LowerBoundIs
<1>. QED  BY <1>2, <1>5 DEF ModeAtTime, e

\* The leg is off the ground just between take-off and landing.
IsSwing(ms, leg, foot) ==
  /\ foot = [swing |-> TRUE, liftOff |-> foot.liftOff, touchDown |-> foot.touchDown]
  /\ foot.liftOff \in Int /\ foot.touchDown \in Int
  /\ Down(ms, leg, foot.liftOff) /\ Down(ms, leg, foot.touchDown + 1)
  /\ \A u \in (foot.liftOff + 1)..foot.touchDown : ~ Down(ms, leg, u)

\* A foot in the air is in a swing around that time.
LEMMA FootTimes ==
  ASSUME NEW ms, IsSchedule(ms), ~ UpdateFails(ms), NEW leg \in Legs, NEW t \in Int,
         FootAt(Update(ms), leg, t).swing
  PROVE  LET foot == FootAt(Update(ms), leg, t)
         IN  IsSwing(ms, leg, foot) /\ foot.liftOff < t /\ t <= foot.touchDown
<1>. DEFINE e    == ms.eventTimes
            b    == LowerBound(e, t)
            p    == b + 1
            N    == NumPhases(ms)
            C    == ContactPhases(ms, leg)
            foot == FootAt(Update(ms), leg, t)
            S    == StartTimesIndex(ms, leg, p)
            F    == FinalTimesIndex(ms, leg, p)
<1>1. /\ e \in Seq(Int) /\ Len(e) \in Nat /\ N = Len(e) + 1 /\ Ordered(e)
      /\ \A i \in 1..Len(e) : e[i] \in Int
  BY DEF IsSchedule, NumPhases
<1>2. b \in 0..Len(e)
  BY <1>1, LowerBoundProperties
<1>. HIDE DEF b, e
<1>3. p \in 1..N /\ p \in 1..NumPhases(ms)
  BY <1>1, <1>2
<1>4. foot = Trajectory(ms, leg, p)
  BY <1>3 DEF FootAt, Update, b, e
<1>5. p \notin C
  BY <1>4 DEF Trajectory, StanceFoot
<1>6. foot = [swing |-> TRUE, liftOff |-> e[S], touchDown |-> e[F]]
  BY <1>4, <1>5 DEF Trajectory, e
<1>7. IndicesAreValid(ms, leg, p)
  BY <1>3, <1>5 DEF UpdateFails
<1>8. /\ S \in C /\ S < p /\ F + 1 \in C /\ p <= F
      /\ \A q \in (S + 1)..F : q \notin C
  BY <1>3, <1>5, <1>7, SwingPhases
<1>9. S >= 1 /\ F < N /\ S \in 0..(p - 1) /\ F \in p..N
  BY <1>3, <1>7, SwingBracketsPhase DEF IndicesAreValid
<1>10. foot.liftOff < t /\ t <= foot.touchDown
  BY FootBracketsTime
<1>11. \A q \in 1..N : q \in C <=> leg \in modeNumber2StanceLeg[ms.modeSequence[q]]
  BY DEF ContactPhases
<1>. HIDE DEF foot, S, F, p, C, N
<1>12. S \in 1..Len(e) /\ F \in 1..Len(e) /\ S < F
  BY <1>1, <1>3, <1>8, <1>9
<1>13. foot.liftOff = e[S] /\ foot.touchDown = e[F] /\ e[S] \in Int /\ e[F] \in Int
  BY <1>1, <1>6, <1>12
<1>14. Down(ms, leg, e[S])
  <2>1. S \in 1..NumPhases(ms) /\ S \in 1..N
    BY <1>1, <1>12 DEF N
  <2>2. S > 1 => e[S - 1] < e[S]
    BY <1>1, <1>12 DEF Ordered
  <2>3. ModeAtTime(ms, e[S]) = ms.modeSequence[S]
    BY <1>13, <2>1, <2>2, PhaseOfTime DEF e
  <2>. QED  BY <1>8, <1>11, <2>1, <2>3 DEF Down
<1>15. Down(ms, leg, e[F] + 1)
  <2>1. F + 1 \in 1..NumPhases(ms) /\ F + 1 \in 1..N /\ F + 1 > 1 /\ (F + 1) - 1 = F
    BY <1>1, <1>12 DEF N
  <2>2. F + 1 < NumPhases(ms) => e[F] + 1 <= e[F + 1]
    <3>. SUFFICES ASSUME F + 1 < N
                  PROVE  e[F] + 1 <= e[F + 1]
      BY DEF N
    <3>1. F \in 1..(Len(e) - 1) /\ F + 1 \in 1..Len(e)
      BY <1>1, <1>12
    <3>2. e[F] < e[F + 1] /\ e[F + 1] \in Int
      BY <1>1, <3>1 DEF Ordered
    <3>. QED  BY <1>13, <3>2
  <2>3. e[(F + 1) - 1] < e[F] + 1 /\ e[F] + 1 \in Int
    BY <1>13, <2>1
  <2>4. ModeAtTime(ms, e[F] + 1) = ms.modeSequence[F + 1]
    BY <2>1, <2>2, <2>3, PhaseOfTime DEF e
  <2>. QED  BY <1>8, <1>11, <2>1, <2>4 DEF Down
<1>16. ASSUME NEW u \in (e[S] + 1)..e[F]
       PROVE  ~ Down(ms, leg, u)
  <2>. DEFINE q == LowerBound(e, u) + 1
  <2>1. u \in Int /\ e[S] < u /\ u <= e[F]
    BY <1>13
  <2>2. /\ LowerBound(e, u) \in 0..Len(e)
        /\ \A j \in 1..LowerBound(e, u) : e[j] < u
        /\ LowerBound(e, u) < Len(e) => e[LowerBound(e, u) + 1] >= u
    BY <1>1, <2>1, LowerBoundProperties
  <2>3. ModeAtTime(ms, u) = ms.modeSequence[q]
    BY DEF ModeAtTime, e
  <2>. HIDE DEF q
  <2>4. q \in 1..(Len(e) + 1) /\ (\A j \in 1..(q - 1) : e[j] < u) /\ (q <= Len(e) => e[q] >= u)
    BY <1>1, <2>2 DEF q
  <2>5. q > S
    <3>. SUFFICES ASSUME q <= S
                  PROVE  FALSE
      BY <1>12, <2>4
    <3>1. q \in 1..Len(e) /\ S \in q..Len(e)
      BY <1>1, <1>12, <2>4
    <3>2. e[q] <= e[S] /\ e[q] \in Int /\ e[q] >= u
      BY <1>1, <2>4, <3>1, LaterEvents
    <3>. QED  BY <1>13, <2>1, <3>2
  <2>6. q <= F
    <3>. SUFFICES ASSUME q > F
                  PROVE  FALSE
      BY <1>12, <2>4
    <3>1. F \in 1..(q - 1)
      BY <1>12, <2>4
    <3>2. e[F] < u
      BY <2>4, <3>1
    <3>. QED  BY <1>13, <2>1, <3>2
  <2>7. q \in (S + 1)..F /\ q \in 1..N
    BY <1>1, <1>12, <2>4, <2>5, <2>6
  <2>. QED  BY <1>8, <1>11, <2>3, <2>7 DEF Down
<1>17. foot = [swing |-> TRUE, liftOff |-> foot.liftOff, touchDown |-> foot.touchDown]
  BY <1>6
<1>18. IsSwing(ms, leg, foot)
  BY <1>13, <1>14, <1>15, <1>16, <1>17 DEF IsSwing
<1>. QED  BY <1>10, <1>18 DEF foot

\* A swing that two schedules both have, between times at which their modes agree.
LEMMA SameSwing ==
  ASSUME NEW ms1, NEW ms2, IsSchedule(ms1), IsSchedule(ms2),
         ~ UpdateFails(ms1), ~ UpdateFails(ms2), NEW leg \in Legs, NEW t \in Int, NEW w \in Nat,
         \A u \in (t + 1 - w)..(t + w) : ModeAtTime(ms1, u) = ModeAtTime(ms2, u),
         SwingsPlanned(ms1, w), SwingsPlanned(ms2, w),
         FootAt(Update(ms1), leg, t + 1).swing
  PROVE  FootAt(Update(ms1), leg, t + 1) = FootAt(Update(ms2), leg, t + 1)
<1>. DEFINE f1 == FootAt(Update(ms1), leg, t + 1)
            f2 == FootAt(Update(ms2), leg, t + 1)
            Down1(u) == Down(ms1, leg, u)
            Down2(u) == Down(ms2, leg, u)
            L1 == f1.liftOff
            L2 == f2.liftOff
            D1 == f1.touchDown
            D2 == f2.touchDown
<1>0. t + 1 \in Int /\ FootAt(Update(ms1), leg, t + 1).swing
  OBVIOUS
<1>1. /\ f1 = [swing |-> TRUE, liftOff |-> L1, touchDown |-> D1]
      /\ L1 \in Int /\ D1 \in Int /\ L1 < t + 1 /\ t + 1 <= D1
      /\ Down1(L1) /\ Down1(D1 + 1) /\ \A u \in (L1 + 1)..D1 : ~ Down1(u)
  <2>1. IsSwing(ms1, leg, f1) /\ L1 < t + 1 /\ t + 1 <= D1
    BY <1>0, FootTimes
  <2>. HIDE DEF f1
  <2>. QED  BY <2>1 DEF IsSwing
<1>2. D1 - L1 <= w
  BY <1>1 DEF SwingsPlanned, Down
<1>3. t + 1 \in (t + 1 - w)..(t + w)
  BY <1>1, <1>2
<1>4. FootAt(Update(ms2), leg, t + 1).swing
  <2>1. ~ Down1(t + 1)
    BY <1>1
  <2>2. ~ Down2(t + 1)
    BY <1>3, <2>1 DEF Down
  <2>. QED  BY <1>0, <2>2, FootBracketsTime DEF Down
<1>5. /\ f2 = [swing |-> TRUE, liftOff |-> L2, touchDown |-> D2]
      /\ L2 \in Int /\ D2 \in Int /\ L2 < t + 1 /\ t + 1 <= D2
      /\ Down2(L2) /\ Down2(D2 + 1) /\ \A u \in (L2 + 1)..D2 : ~ Down2(u)
  <2>1. IsSwing(ms2, leg, f2) /\ L2 < t + 1 /\ t + 1 <= D2
    BY <1>0, <1>4, FootTimes
  <2>. HIDE DEF f2
  <2>. QED  BY <2>1 DEF IsSwing
<1>6. D2 - L2 <= w
  BY <1>5 DEF SwingsPlanned, Down
<1>7. \A u \in (t + 1 - w)..(t + w) : Down1(u) <=> Down2(u)
  BY DEF Down
<1>. HIDE DEF f1, f2, L1, L2, D1, D2, Down1, Down2
<1>8. L1 = L2
  <2>1. ~ (L1 < L2)
    <3>. SUFFICES ASSUME L1 < L2
                  PROVE  FALSE
      OBVIOUS
    <3>1. L2 \in (L1 + 1)..D1 /\ L2 \in (t + 1 - w)..(t + w)
      BY <1>1, <1>5, <1>6
    <3>. QED  BY <1>1, <1>5, <1>7, <3>1
  <2>2. ~ (L2 < L1)
    <3>. SUFFICES ASSUME L2 < L1
                  PROVE  FALSE
      OBVIOUS
    <3>1. L1 \in (L2 + 1)..D2 /\ L1 \in (t + 1 - w)..(t + w)
      BY <1>1, <1>2, <1>5
    <3>. QED  BY <1>1, <1>5, <1>7, <3>1
  <2>. QED  BY <1>1, <1>5, <2>1, <2>2
<1>9. D1 = D2
  <2>1. ~ (D1 < D2)
    <3>. SUFFICES ASSUME D1 < D2
                  PROVE  FALSE
      OBVIOUS
    <3>1. D1 + 1 \in (L2 + 1)..D2 /\ D1 + 1 \in (t + 1 - w)..(t + w)
      BY <1>1, <1>5, <1>6
    <3>. QED  BY <1>1, <1>5, <1>7, <3>1
  <2>2. ~ (D2 < D1)
    <3>. SUFFICES ASSUME D2 < D1
                  PROVE  FALSE
      OBVIOUS
    <3>1. D2 + 1 \in (L1 + 1)..D1 /\ D2 + 1 \in (t + 1 - w)..(t + w)
      BY <1>1, <1>2, <1>5
    <3>. QED  BY <1>1, <1>5, <1>7, <3>1
  <2>. QED  BY <1>1, <1>5, <2>1, <2>2
<1>. QED  BY <1>1, <1>5, <1>8, <1>9 DEF f1, f2

\* What came before the last event that is forgotten becomes stance, the rest stays.
LEMMA DropPastStands ==
  ASSUME NEW T, NEW s \in Schedules(T), NEW lower \in Int, NEW t \in Int
  PROVE  ModeAtTime(DropPast(s, lower), t) \in {ModeAtTime(s, t), STANCE}
<1>. DEFINE ev == s.eventTimes
            md == s.modeSequence
            ix == LowerBound(ev, lower)
            r  == DropPast(s, lower)
<1>1. /\ ev \in Seq(Int) /\ md \in Seq(Modes) /\ Ordered(ev)
      /\ Len(ev) \in Nat /\ Len(md) = Len(ev) + 1
      /\ \A k \in 1..Len(ev) : ev[k] \in Int
  BY ScheduleParts
<1>2. /\ ix \in 0..Len(ev) /\ \A j \in 1..ix : ev[j] < lower
      /\ ix < Len(ev) => ev[ix + 1] >= lower
  BY <1>1, LowerBoundProperties
<1>3. CASE lower <= t
  BY <1>3, DropPastModes
<1>4. CASE ix = 0
  <2>1. r = s
    BY <1>4 DEF DropPast
  <2>. QED  BY <2>1
<1>5. CASE ix # 0 /\ ev[ix] < t /\ t < lower
  <2>1. \A j \in 1..ix : ev[j] < t
    <3>. TAKE j \in 1..ix
    <3>1. ix \in 1..Len(ev) /\ j \in 1..Len(ev) /\ ix \in j..Len(ev)
      BY <1>1, <1>2, <1>5
    <3>2. ev[j] <= ev[ix]
      BY <1>1, <3>1, LaterEvents
    <3>. QED  BY <1>1, <1>5, <3>1, <3>2
  <2>2. ix < Len(ev) => ev[ix + 1] >= t
    <3>. HIDE DEF ix, ev
    <3>1. ix < Len(ev) => ix + 1 \in 1..Len(ev)
      BY <1>1, <1>2
    <3>. QED  BY <1>1, <1>2, <1>5, <3>1
  <2>3. LowerBound(ev, t) = ix
    BY <1>1, <1>2, <2>1, <2>2, LowerBoundIs
  <2>4. DropPast(s, t) = DropPast(s, lower)
    BY <2>3 DEF DropPast
  <2>5. ModeAtTime(DropPast(s, t), t) = ModeAtTime(s, t)
    BY DropPastModes
  <2>. QED  BY <2>4, <2>5
<1>6. CASE ix # 0 /\ t <= ev[ix]
  <2>. DEFINE e2 == SubSeq(ev, ix, Len(ev))
              t2 == SubSeq(md, ix + 1, Len(md))
              m2 == <<STANCE>> \o t2
  <2>1. r.eventTimes = e2 /\ r.modeSequence = m2
    <3>1. r = [s EXCEPT !.eventTimes = e2, !.modeSequence = m2]
      BY <1>6 DEF DropPast
    <3>. HIDE DEF r, e2, m2
    <3>. QED  BY <3>1, ScheduleParts
  <2>. HIDE DEF ix, ev, md, r
  <2>2. ix \in 1..(Len(ev) + 1) /\ Len(ev) \in (ix - 1)..Len(ev)
    BY <1>1, <1>2, <1>6
  <2>3. /\ e2 \in Seq(Int) /\ Len(e2) = Len(ev) - ix + 1
        /\ \A i \in 1..(Len(ev) - ix + 1) : e2[i] = ev[ix + i - 1]
    BY <1>1, <2>2, SubSeqElements
  <2>4. ix + 1 \in 1..(Len(md) + 1) /\ Len(md) \in ((ix + 1) - 1)..Len(md)
    BY <1>1, <1>2, <1>6
  <2>5. t2 \in Seq(Modes)
    BY <1>1, <2>4, SubSeqElements
  <2>. HIDE DEF e2, t2
  <2>6. m2[1] = STANCE
    BY <2>5
  <2>. HIDE DEF m2
  <2>7. 0 \in 0..Len(e2) /\ (0 < Len(e2) => e2[0 + 1] >= t)
    <3>1. 1 \in 1..(Len(ev) - ix + 1) /\ ix + 1 - 1 = ix
      BY <1>1, <1>2, <1>6
    <3>2. e2[1] = ev[ix]
      BY <2>3, <3>1
    <3>3. ev[ix] \in Int /\ Len(e2) \in Nat
      BY <1>1, <1>2, <1>6, <2>3
    <3>. QED  BY <1>6, <3>2, <3>3
  <2>8. LowerBound(e2, t) = 0
    BY <2>3, <2>7, LowerBoundIs
  <2>9. ModeAtTime(r, t) = STANCE
    BY <2>1, <2>6, <2>8 DEF ModeAtTime
  <2>. QED  BY <2>9 DEF r
<1>7. ix # 0 => ev[ix] \in Int
  BY <1>1, <1>2
<1>. QED  BY <1>3, <1>4, <1>5, <1>6, <1>7

\* A fetched schedule promises, at any time, what was promised before, or stance.
LEMMA FetchPromises ==
  ASSUME NEW T, NEW s \in Schedules(T), NEW lower \in Int, NEW upper \in Int,
         IsModeSequenceTemplate(s.template), s.eventTimes # <<>>,
         Head(s.modeSequence) = STANCE, NEW u \in Int
  PROVE  PromisedMode(GetModeSchedule(s, lower, upper), u) \in {PromisedMode(s, u), STANCE}
<1>. DEFINE kept == DropPast(s, lower)
            cut  == [kept EXCEPT !.eventTimes = Front(@), !.modeSequence = Front(@)]
            r    == GetModeSchedule(s, lower, upper)
            last == Last(kept.eventTimes)
<1>1. /\ kept \in Schedules(T) /\ kept.eventTimes # <<>>
      /\ kept.template = s.template
  BY DropPastProperties
<1>2. r = Tile(cut, last, upper)
  BY <1>1 DEF GetModeSchedule
<1>3. last = Last(s.eventTimes) /\ ModeAtTime(kept, u) \in {ModeAtTime(s, u), STANCE}
  <2>1. last = Last(s.eventTimes)
    <3>1. lower <= lower
      OBVIOUS
    <3>. QED  BY <3>1, DropPastModes
  <2>. QED  BY <2>1, DropPastStands
<1>. HIDE DEF kept, r, last
<1>4. /\ cut \in Schedules(T) /\ cut.template = s.template
      /\ cut.eventTimes # <<>> => Last(cut.eventTimes) < last
      /\ last \in Int
  BY <1>1, FrontProperties DEF last
<1>5. u <= last => ModeAtTime(cut, u) = ModeAtTime(kept, u)
  BY <1>1, FrontModes DEF last
<1>. HIDE DEF cut
<1>6. PromisedMode(r, u) =
        IF u <= last THEN ModeAtTime(cut, u) ELSE RepeatedMode(s.template, u - last)
  BY <1>2, <1>4, TilePromises
<1>7. PromisedMode(r, u) \in {PromisedMode(s, u), STANCE}
  BY <1>3, <1>5, <1>6 DEF PromisedMode
<1>. QED  BY <1>7 DEF r

LEMMA AllLegsStand == STANCE \in Modes /\ modeNumber2StanceLeg[STANCE] = Legs
  BY DEF STANCE, Modes, modeNumber2StanceLeg

\* The configured schedule stands, and then the default gait repeats.
LEMMA InitSwings ==
  ASSUME StandsAtFirst, NEW w \in Nat, SwingsRepeated(defaultTemplate, w)
  PROVE  Init => SwingsPromised(gaitSchedule, w)
<1>. SUFFICES ASSUME Init
              PROVE  SwingsPromised(gaitSchedule, w)
  OBVIOUS
<1>. DEFINE s    == gaitSchedule
            last == Last(s.eventTimes)
<1>1. /\ s \in Schedules(Templates) /\ s.eventTimes # <<>>
      /\ s.template = defaultTemplate /\ s.modeSequence = initModeSchedule.modeSequence
  BY InitIInv, ScheduleNow DEF Init
<1>2. last \in Int
  BY <1>1, ScheduleParts, Ends
<1>3. ASSUME NEW u \in Int, u <= last
      PROVE  PromisedMode(s, u) = STANCE
  <2>1. LowerBound(s.eventTimes, u) \in 0..Len(s.eventTimes)
    BY <1>1, ScheduleParts, LowerBoundProperties
  <2>2. LowerBound(s.eventTimes, u) + 1 \in 1..Len(s.modeSequence)
    BY <1>1, <2>1, ScheduleParts
  <2>. QED  BY <1>1, <1>3, <2>2 DEF PromisedMode, ModeAtTime, StandsAtFirst
<1>. HIDE DEF s, last
<1>4. ASSUME NEW leg \in Legs, NEW a \in Int, NEW b \in Int,
             \A u \in (a + 1)..b : leg \notin modeNumber2StanceLeg[PromisedMode(s, u)]
      PROVE  b - a <= w
  <2>1. CASE b <= a
    BY <2>1
  <2>2. CASE a < b
    <3>1. a + 1 > last
      BY <1>2, <1>3, <1>4, <2>2, AllLegsStand
    <3>2. a - last \in Nat /\ b - last \in Nat
      BY <1>2, <2>2, <3>1
    <3>3. ASSUME NEW d \in ((a - last) + 1)..(b - last)
          PROVE  leg \notin modeNumber2StanceLeg[RepeatedMode(defaultTemplate, d)]
      <4>1. last + d \in (a + 1)..b /\ ~ (last + d <= last) /\ (last + d) - last = d
        BY <1>2, <3>2
      <4>2. PromisedMode(s, last + d) = RepeatedMode(defaultTemplate, d)
        BY <1>1, <4>1 DEF PromisedMode, last
      <4>. QED  BY <1>4, <4>1, <4>2
    <3>4. (b - last) - (a - last) <= w
      BY <3>2, <3>3 DEF SwingsRepeated
    <3>. QED  BY <1>2, <3>4
  <2>. QED  BY <2>1, <2>2
<1>. QED  BY <1>4 DEF SwingsPromised, s

\* Fetching makes no swing longer.
LEMMA FetchedSwings ==
  ASSUME IInv, NEW t \in Nat, NEW w \in Nat, SwingsPromised(gaitSchedule, w)
  PROVE  LET fetched == FetchModeSchedule(gaitSchedule, t)
         IN  SwingsPromised(fetched, w) /\ SwingsPlanned(fetched, w)
<1>. DEFINE fetched == FetchModeSchedule(gaitSchedule, t)
            lower   == t - timeHorizon
            upper   == t + timeHorizon + timeHorizon
<1>1. fetched = GetModeSchedule(gaitSchedule, lower, upper) /\ lower \in Int /\ upper \in Int
  BY Parameters DEF FetchModeSchedule
<1>. HIDE DEF fetched, lower, upper
<1>2. \A u \in Int : PromisedMode(fetched, u) \in {PromisedMode(gaitSchedule, u), STANCE}
  BY <1>1, ScheduleNow, FetchPromises
<1>3. /\ fetched \in Schedules(Templates) /\ fetched.eventTimes # <<>>
      /\ Last(fetched.modeSequence) = STANCE
  BY <1>1, ScheduleNow, GetModeScheduleProperties
<1>4. ASSUME NEW u \in Int
      PROVE  ModeAtTime(fetched, u) \in {PromisedMode(fetched, u), STANCE}
  <2>1. CASE u <= Last(fetched.eventTimes)
    BY <2>1 DEF PromisedMode
  <2>2. CASE ~ (u <= Last(fetched.eventTimes))
    <3>1. Last(fetched.eventTimes) \in Int
      BY <1>3, ScheduleParts, Ends
    <3>2. Last(fetched.eventTimes) < u
      BY <2>2, <3>1
    <3>3. ModeAtTime(fetched, u) = STANCE
      BY <1>3, <3>2, ModePastEvents
    <3>. QED  BY <3>3
  <2>. QED  BY <2>1, <2>2
<1>5. ASSUME NEW leg \in Legs, NEW a \in Int, NEW b \in Int
      PROVE  /\ (\A u \in (a + 1)..b : leg \notin modeNumber2StanceLeg[PromisedMode(fetched, u)])
                  => b - a <= w
             /\ (\A u \in (a + 1)..b : ~ Down(fetched, leg, u)) => b - a <= w
  <2>1. ASSUME NEW u \in (a + 1)..b,
               leg \notin modeNumber2StanceLeg[PromisedMode(fetched, u)]
        PROVE  leg \notin modeNumber2StanceLeg[PromisedMode(gaitSchedule, u)]
    BY <1>2, <2>1, AllLegsStand
  <2>2. ASSUME NEW u \in (a + 1)..b, ~ Down(fetched, leg, u)
        PROVE  leg \notin modeNumber2StanceLeg[PromisedMode(fetched, u)]
    BY <1>4, <2>2, AllLegsStand DEF Down
  <2>. QED  BY <2>1, <2>2 DEF SwingsPromised
<1>. QED  BY <1>5 DEF SwingsPromised, SwingsPlanned, fetched

\* Inserting a gait makes no swing longer: a stance comes between.
LEMMA InsertedSwings ==
  ASSUME phaseTransitionStanceTime > 0,
         NEW s \in Schedules(Templates), s.eventTimes # <<>>, NEW w \in Nat, SwingsPromised(s, w),
         NEW tpl \in Templates, SwingsRepeated(tpl, w),
         NEW start \in Int, NEW final \in Int, start <= Last(s.eventTimes)
  PROVE  SwingsPromised(InsertModeSequenceTemplate(s, tpl, start, final), w)
<1>. DEFINE r    == InsertModeSequenceTemplate(s, tpl, start, final)
            from == IF ModeAtTime(s, start) = STANCE THEN start
                    ELSE start + phaseTransitionStanceTime
<1>1. Last(s.eventTimes) \in Int
  BY ScheduleParts, Ends
<1>2. \A u \in Int : PromisedMode(r, u) =
                       IF u <= start THEN ModeAtTime(s, u)
                       ELSE IF u <= from THEN STANCE
                       ELSE RepeatedMode(tpl, u - from)
  BY Parameters, InsertPromises
<1>3. from \in Int /\ start <= from /\ (ModeAtTime(s, start) # STANCE => start < from)
  BY TransitionAssumption
<1>. HIDE DEF r, from
<1>4. \A u \in Int : u <= start => PromisedMode(r, u) = PromisedMode(s, u)
  <2>. TAKE u \in Int
  <2>1. u <= start => u <= Last(s.eventTimes)
    BY <1>1
  <2>. QED  BY <1>2, <2>1 DEF PromisedMode
<1>5. PromisedMode(r, from) = STANCE
  BY <1>2, <1>3 DEF from
<1>6. ASSUME NEW leg \in Legs, NEW a \in Int, NEW b \in Int,
             \A u \in (a + 1)..b : leg \notin modeNumber2StanceLeg[PromisedMode(r, u)]
      PROVE  b - a <= w
  <2>1. CASE b <= a
    BY <2>1
  <2>2. CASE a < b /\ b < from
    <3>1. b <= start
      <4>. SUFFICES ASSUME b > start
                    PROVE  FALSE
        OBVIOUS
      <4>1. PromisedMode(r, b) = STANCE
        BY <1>2, <1>3, <2>2
      <4>. QED  BY <1>6, <2>2, <4>1, AllLegsStand
    <3>2. \A u \in (a + 1)..b : PromisedMode(r, u) = PromisedMode(s, u)
      BY <1>4, <3>1
    <3>. QED  BY <1>6, <3>2 DEF SwingsPromised
  <2>3. CASE a < b /\ from <= b
    <3>1. from <= a
      <4>. SUFFICES ASSUME a < from
                    PROVE  FALSE
        BY <1>3
      <4>1. from \in (a + 1)..b
        BY <1>3, <2>3
      <4>. QED  BY <1>5, <1>6, <4>1, AllLegsStand
    <3>2. a - from \in Nat /\ b - from \in Nat
      BY <1>3, <2>3, <3>1
    <3>3. ASSUME NEW d \in ((a - from) + 1)..(b - from)
          PROVE  leg \notin modeNumber2StanceLeg[RepeatedMode(tpl, d)]
      <4>1. from + d \in (a + 1)..b /\ ~ (from + d <= from) /\ ~ (from + d <= start)
            /\ (from + d) - from = d
        BY <1>3, <3>2
      <4>2. PromisedMode(r, from + d) = RepeatedMode(tpl, d)
        BY <1>2, <4>1
      <4>. QED  BY <1>6, <4>1, <4>2
    <3>4. (b - from) - (a - from) <= w
      BY <3>2, <3>3 DEF SwingsRepeated
    <3>. QED  BY <1>3, <3>4
  <2>. QED  BY <1>3, <2>1, <2>2, <2>3
<1>. QED  BY <1>6 DEF SwingsPromised, r

\* No swing that is promised or planned is longer than w.
SInv(w) == /\ SwingsPromised(gaitSchedule, w)
           /\ solved => SwingsPlanned(modeSchedule, w)

LEMMA SolverRunSwings ==
  ASSUME phaseTransitionStanceTime > 0, NEW w \in Nat,
         \A tpl \in Templates : SwingsRepeated(tpl, w),
         IInv, SInv(w), NEW t \in Nat, SolverRun(t)
  PROVE  SInv(w)'
<1>. DEFINE fetched == FetchModeSchedule(gaitSchedule, t)
            next    == ApplyGaitCommand(fetched, t)
<1>1. /\ gaitSchedule' = next
      /\ modeSchedule' = [eventTimes   |-> fetched.eventTimes,
                          modeSequence |-> fetched.modeSequence]
  BY DEF SolverRun
<1>2. SwingsPromised(fetched, w) /\ SwingsPlanned(fetched, w)
  BY FetchedSwings DEF SInv
<1>3. /\ fetched \in Schedules(Templates) /\ fetched.eventTimes # <<>>
      /\ Last(fetched.eventTimes) \in Int /\ Last(fetched.eventTimes) >= t + timeHorizon
  BY FetchedSchedule
<1>. HIDE DEF fetched
<1>4. SwingsPlanned(modeSchedule', w)
  <2>1. \A u : ModeAtTime(modeSchedule', u) = ModeAtTime(fetched, u)
    BY <1>1 DEF ModeAtTime
  <2>. QED  BY <1>2, <2>1 DEF SwingsPlanned, Down
<1>5. SwingsPromised(next, w)
  <2>1. CASE gaitUpdated
    <3>1. receivedGait \in Templates /\ SwingsRepeated(receivedGait, w)
      BY <2>1, Parameters DEF IInv, TypeOK, Templates
    <3>2. /\ InsertStart(t) = t + timeHorizon /\ InsertStart(t) \in Int /\ InsertFinal(t) \in Int
          /\ InsertStart(t) <= Last(fetched.eventTimes)
      BY <1>3, Parameters DEF InsertStart, InsertFinal
    <3>3. next = InsertModeSequenceTemplate(fetched, receivedGait, InsertStart(t), InsertFinal(t))
      BY <2>1 DEF ApplyGaitCommand
    <3>. HIDE DEF next
    <3>. QED  BY <1>2, <1>3, <3>1, <3>2, <3>3, InsertedSwings
  <2>2. CASE ~ gaitUpdated
    BY <1>2, <2>2 DEF ApplyGaitCommand
  <2>. QED  BY <2>1, <2>2
<1>. QED  BY <1>1, <1>4, <1>5 DEF SInv

\* The foot of the new plan at the start of a run is that of the old one.
LEMMA SolverRunKeepsSwings ==
  ASSUME NEW w \in Nat, IInv, HInv, CInv, SInv(w), IInv', HInv', SInv(w)', solved,
         NEW t \in Nat, SolverRun(t), w <= timeHorizon, t + w <= finalTime,
         NEW leg \in Legs, FootAt(swings', leg, t + 1).swing
  PROVE  FootAt(swings', leg, t + 1) = FootAt(swings, leg, t + 1)
<1>. DEFINE fetched == FetchModeSchedule(gaitSchedule, t)
<1>1. /\ solved' /\ modeSchedule' = [eventTimes   |-> fetched.eventTimes,
                                     modeSequence |-> fetched.modeSequence]
  BY DEF SolverRun
<1>2. \A u \in Int : t - timeHorizon <= u /\ u <= Last(gaitSchedule.eventTimes) =>
        ModeAtTime(fetched, u) = ModeAtTime(gaitSchedule, u)
  BY FetchedSchedule
<1>. HIDE DEF fetched
<1>3. ASSUME NEW u \in ((t + 1) - w)..(t + w)
      PROVE  ModeAtTime(modeSchedule', u) = ModeAtTime(modeSchedule, u)
  <2>1. timeHorizon \in Nat /\ finalTime \in Int /\ Last(gaitSchedule.eventTimes) \in Int
        /\ Last(gaitSchedule.eventTimes) >= finalTime
    BY Parameters DEF CInv, IInv, TypeOK, finalTime
  <2>2. u \in Int /\ t - timeHorizon <= u /\ u <= finalTime
        /\ u <= Last(gaitSchedule.eventTimes)
    BY <2>1
  <2>3. ModeAtTime(fetched, u) = ModeAtTime(gaitSchedule, u)
    BY <1>2, <2>2
  <2>4. ModeAtTime(gaitSchedule, u) = ModeAtTime(modeSchedule, u)
    BY <2>2 DEF CInv
  <2>5. ModeAtTime(modeSchedule', u) = ModeAtTime(fetched, u)
    BY <1>1 DEF ModeAtTime
  <2>. QED  BY <2>3, <2>4, <2>5
<1>4. /\ swings = Update(modeSchedule) /\ ~ UpdateFails(modeSchedule)
      /\ IsSchedule(modeSchedule) /\ SwingsPlanned(modeSchedule, w)
  BY DEF HInv, IInv, TypeOK, SInv
<1>5. /\ swings' = Update(modeSchedule') /\ ~ UpdateFails(modeSchedule')
      /\ IsSchedule(modeSchedule') /\ SwingsPlanned(modeSchedule', w)
  BY <1>1 DEF HInv, IInv, TypeOK, SInv
<1>6. FootAt(Update(modeSchedule'), leg, t + 1).swing
  BY <1>5
<1>7. FootAt(Update(modeSchedule'), leg, t + 1) = FootAt(Update(modeSchedule), leg, t + 1)
  BY <1>3, <1>4, <1>5, <1>6, SameSwing
<1>. QED  BY <1>4, <1>5, <1>7

\* A foot in the air keeps its take-off and its landing in every later plan, for all gaits,
\* rates and commands, if no swing of a gait is longer than what the horizon leaves beyond
\* the time between two runs, the transition takes time, the configured schedule stands
\* and no other node replaces the plan.
THEOREM SwingsAreKept ==
  ASSUME phaseTransitionStanceTime > 0, StandsAtFirst, ExternalSchedules = {}, NEW w \in Nat,
         \A tpl \in Templates : SwingsRepeated(tpl, w),
         \A d \in Periods : d + w <= timeHorizon
  PROVE  Spec => SwingInProgressIsKept
<1>. DEFINE Kept == solved /\ initTime' > initTime => \A leg \in Legs :
                      LET now == FootAt(swings', leg, initTime' + 1)
                      IN  now.swing => now = FootAt(swings, leg, initTime' + 1)
<1>1. OthersStandFirst
  BY DEF OthersStandFirst
<1>2. Init => HInv /\ CInv /\ SInv(w)
  <2>1. defaultTemplate \in Templates
    BY DEF Templates
  <2>. QED  BY <2>1, InitSwings DEF Init, HInv, CInv, SInv
<1>3. IInv /\ [Next]_vars => IInv'
  BY <1>1, NextIInv
<1>4. IInv /\ IInv' /\ HInv /\ [Next]_vars => HInv'
  BY <1>1, NextHInv
<1>5. IInv /\ CInv /\ [Next]_vars => CInv'
  BY NextCommits
<1>6. IInv /\ SInv(w) /\ [Next]_vars => SInv(w)'
  <2>. SUFFICES ASSUME IInv, SInv(w), [Next]_vars
                PROVE  SInv(w)'
    OBVIOUS
  <2>1. CASE Advance \/ Restart
    BY <2>1, RunsAtNatural, SolverRunSwings
  <2>2. ASSUME NEW tpl \in Gaits, mpcModeSequenceCallback(tpl)
        PROVE  SInv(w)'
    BY <2>2 DEF SInv, mpcModeSequenceCallback
  <2>3. CASE UNCHANGED vars
    BY <2>3 DEF SInv, vars
  <2>. QED  BY <2>1, <2>2, <2>3 DEF Next
<1>7. /\ IInv /\ HInv /\ CInv /\ SInv(w) /\ IInv' /\ HInv' /\ SInv(w)' /\ [Next]_vars
      => [Kept]_vars
  <2>. SUFFICES ASSUME IInv, HInv, CInv, SInv(w), IInv', HInv', SInv(w)', Next,
                       solved, initTime' > initTime
                PROVE  Kept
    OBVIOUS
  <2>1. initTime \in Nat /\ initTime' \in Nat
    BY DEF IInv, TypeOK
  <2>2. CASE Advance
    <3>1. PICK d \in Periods : SolverRun(initTime + d)
      BY <2>2 DEF Advance
    <3>2. initTime' = initTime + d
      BY <3>1 DEF SolverRun
    <3>3. /\ d \in Nat /\ d + w <= timeHorizon /\ timeHorizon \in Nat
      BY Parameters
    <3>4. /\ initTime + d \in Nat /\ w <= timeHorizon /\ (initTime + d) + w <= finalTime
      BY <2>1, <3>3 DEF finalTime
    <3>. QED  BY <3>1, <3>2, <3>4, SolverRunKeepsSwings
  <2>3. CASE Restart
    <3>1. initTime' <= initTime
      BY <2>3 DEF Restart, SolverRun
    <3>. QED  BY <2>1, <3>1
  <2>4. ASSUME NEW tpl \in Gaits, mpcModeSequenceCallback(tpl)
        PROVE  FALSE
    BY <2>1, <2>4 DEF mpcModeSequenceCallback
  <2>. QED  BY <2>2, <2>3, <2>4 DEF Next
<1>. HIDE DEF Kept
<1>8. IInv /\ HInv /\ CInv /\ SInv(w) /\ [Next]_vars => [Kept]_vars
  BY <1>3, <1>4, <1>6, <1>7
<1>. QED  BY InitIInv, <1>2, <1>3, <1>4, <1>5, <1>6, <1>8, PTL DEF Spec, SwingInProgressIsKept, Kept

=================================================================================
