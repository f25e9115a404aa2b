--------------------------- MODULE GaitSchedule_proofs ---------------------------
(***************************************************************************)
(* What the operators of GaitSchedule return, for every schedule, template *)
(* and time: that they succeed, what is left of a schedule, which modes it *)
(* has in a row, and what a lookup in it finds.                            *)
(***************************************************************************)
EXTENDS GaitSchedule, WellFoundedInduction, TLAPS

---------------------------------------------------------------------------------
(***************************************************************************)
(* Arithmetic.                                                             *)
(***************************************************************************)

\* Division with remainder.
LEMMA DivMod ==
  ASSUME NEW n \in Nat \ {0}, NEW j \in Nat
  PROVE  /\ j \div n \in Nat /\ j % n \in 0..(n - 1)
         /\ j = n * (j \div n) + (j % n)
  OBVIOUS

\* The next number has the next remainder, or starts the next multiple.
LEMMA DivModSucc ==
  ASSUME NEW n \in Nat \ {0}, NEW j \in Nat
  PROVE  \/ /\ j % n < n - 1
            /\ (j + 1) % n = (j % n) + 1 /\ (j + 1) \div n = j \div n
         \/ /\ j % n = n - 1
            /\ (j + 1) % n = 0 /\ (j + 1) \div n = (j \div n) + 1
  OBVIOUS

LEMMA DivModZero ==
  ASSUME NEW n \in Nat \ {0}
  PROVE  0 \div n = 0 /\ 0 % n = 0
  OBVIOUS

LEMMA Multiples ==
  ASSUME NEW q \in Int, NEW d \in Int
  PROVE  q * d \in Int /\ (q + 1) * d = q * d + d /\ 0 * d = 0
  OBVIOUS

\* A nonempty set of natural numbers has a least element.
LEMMA SmallestInSet ==
  ASSUME NEW S \in SUBSET Nat, S # {}
  PROVE  \E m \in S : \A k \in S : m <= k
<1>. DEFINE R == {ss \in Nat \X Nat : ss[1] < ss[2]}
<1>1. IsWellFoundedOn(R, Nat)
  BY NatLessThanWellFounded, Zenon DEF OpToRel
<1>2. PICK m \in S : \A k \in S : <<k, m>> \notin R
  BY <1>1, WFMin, Zenon
<1>3. ASSUME NEW k \in S
      PROVE  m <= k
  <2>1. <<k, m>> \notin R
    BY <1>2
  <2>. QED  BY <2>1, SMT
<1>. QED  BY <1>3

---------------------------------------------------------------------------------
(***************************************************************************)
(* Looking up a time.                                                      *)
(***************************************************************************)

\* The choice in LowerBound can always be made, for any list of times: the
\* events up to the index are before t, the next one is not.
LEMMA LowerBoundProperties ==
  ASSUME NEW e \in Seq(Int), NEW t \in Int
  PROVE  /\ LowerBound(e, t) \in 0..Len(e)
         /\ \A j \in 1..LowerBound(e, t) : e[j] < t
         /\ LowerBound(e, t) < Len(e) => e[LowerBound(e, t) + 1] >= t
<1>. DEFINE S == {i \in 0..Len(e) : i < Len(e) => e[i + 1] >= t}
<1>1. S \in SUBSET Nat /\ Len(e) \in S
  OBVIOUS
<1>2. PICK m \in S : \A k \in S : m <= k
  BY <1>1, SmallestInSet
<1>3. ASSUME NEW j \in 1..m
      PROVE  e[j] < t
  <2>1. /\ j \in Int /\ 1 <= j /\ j <= m /\ m \in 0..Len(e)
        /\ e[j] \in Int
    OBVIOUS
  <2>2. CASE e[j] >= t
    <3>1. (j - 1) + 1 = j
      BY <2>1
    <3>2. j - 1 \in S
      BY <2>1, <2>2, <3>1
    <3>. QED  BY <1>2, <2>1, <3>2
  <2>. QED  BY <2>1, <2>2
<1>. QED
  BY <1>2, <1>3 DEF LowerBound

---------------------------------------------------------------------------------
(***************************************************************************)
(* The repetition of a template.                                           *)
(***************************************************************************)

\* The parts of a template.
LEMMA TemplateParts ==
  ASSUME NEW tpl, IsModeSequenceTemplate(tpl)
  PROVE  LET n  == Len(tpl.modeSequence)
             st == tpl.switchingTimes
         IN  /\ n \in Nat \ {0} /\ tpl.modeSequence \in Seq(Modes)
             /\ \A i \in 1..n : tpl.modeSequence[i] \in Modes
             /\ \A i \in 1..(n + 1) : st[i] \in Int
             /\ \A i, j \in 1..(n + 1) : i < j => st[i] < st[j]
             /\ Head(st) = st[1] /\ Last(st) = st[n + 1]
             /\ Duration(tpl) = st[n + 1] - st[1]
             /\ Duration(tpl) \in Nat \ {0}
<1>. DEFINE n  == Len(tpl.modeSequence)
            st == tpl.switchingTimes
<1>1. /\ n \in Nat \ {0} /\ tpl.modeSequence \in Seq(Modes)
      /\ st \in Seq(Int) /\ Len(st) = n + 1
      /\ \A i, j \in 1..(n + 1) : i < j => st[i] < st[j]
  BY DEF IsModeSequenceTemplate
<1>. HIDE DEF n, st
<1>2. /\ \A i \in 1..(n + 1) : st[i] \in Int
      /\ Head(st) = st[1] /\ Last(st) = st[n + 1]
  BY <1>1 DEF Last
<1>3. \A i \in 1..n : tpl.modeSequence[i] \in Modes
  BY <1>1 DEF n
<1>4. Duration(tpl) = st[n + 1] - st[1]
  BY <1>2 DEF Duration, st
<1>5. st[1] < st[n + 1]
  BY <1>1
<1>6. Duration(tpl) \in Nat \ {0}
  BY <1>1, <1>2, <1>4, <1>5
<1>. QED  BY <1>1, <1>2, <1>3, <1>4, <1>6 DEF n, st

\* The events of the repetition are strictly ordered and start with its start;
\* its modes are modes.
LEMMA TileTimeProperties ==
  ASSUME NEW tpl, IsModeSequenceTemplate(tpl), NEW start \in Int, NEW j \in Nat
  PROVE  /\ TileTime(tpl, start, j) \in Int
         /\ TileTime(tpl, start, j) < TileTime(tpl, start, j + 1)
         /\ TileTime(tpl, start, 0) = start
         /\ TileMode(tpl, j) \in Modes
<1>. DEFINE n  == Len(tpl.modeSequence)
            st == tpl.switchingTimes
            D  == Duration(tpl)
            q  == j \div n
            r  == j % n
<1>1. /\ n \in Nat \ {0}
      /\ \A i \in 1..n : tpl.modeSequence[i] \in Modes
      /\ \A i \in 1..(n + 1) : st[i] \in Int
      /\ \A i, k \in 1..(n + 1) : i < k => st[i] < st[k]
      /\ D = st[n + 1] - st[1] /\ D \in Nat \ {0}
  BY TemplateParts
<1>2. \A k \in Nat : TileTime(tpl, start, k) =
                       start + (k \div n) * D + (st[(k % n) + 1] - st[1])
  BY TemplateParts DEF TileTime
<1>3. TileMode(tpl, j) = tpl.modeSequence[r + 1]
  BY DEF TileMode
<1>. HIDE DEF n, st, D
<1>4. q \in Nat /\ r \in 0..(n - 1)
  BY <1>1, DivMod
<1>5. TileTime(tpl, start, j) = start + q * D + (st[r + 1] - st[1])
  BY <1>2
<1>6. \/ r < n - 1 /\ TileTime(tpl, start, j + 1) = start + q * D + (st[(r + 1) + 1] - st[1])
      \/ r = n - 1 /\ TileTime(tpl, start, j + 1) = start + (q + 1) * D + (st[0 + 1] - st[1])
  <2>1. TileTime(tpl, start, j + 1) =
          start + ((j + 1) \div n) * D + (st[((j + 1) % n) + 1] - st[1])
    BY <1>2
  <2>. QED  BY <1>1, <2>1, DivModSucc
<1>. HIDE DEF q, r
<1>7. /\ q * D \in Int /\ (q + 1) * D = q * D + D
      /\ st[r + 1] \in Int /\ st[1] \in Int /\ st[n + 1] \in Int
  BY <1>1, <1>4, Multiples
<1>8. TileTime(tpl, start, j) < TileTime(tpl, start, j + 1)
  <2>1. CASE r < n - 1
    <3>1. st[r + 1] < st[(r + 1) + 1] /\ st[(r + 1) + 1] \in Int
      BY <1>1, <1>4, <2>1
    <3>2. TileTime(tpl, start, j + 1) = start + q * D + (st[(r + 1) + 1] - st[1])
      BY <1>4, <1>6, <2>1
    <3>. QED  BY <1>5, <1>7, <3>1, <3>2
  <2>2. CASE r = n - 1
    <3>1. st[r + 1] < st[n + 1]
      BY <1>1, <1>4, <2>2
    <3>2. TileTime(tpl, start, j + 1) = start + (q * D + D)
      BY <1>1, <1>6, <1>7, <2>2
    <3>. QED  BY <1>1, <1>5, <1>7, <3>1, <3>2
  <2>. QED  BY <1>6, <2>1, <2>2
<1>9. TileTime(tpl, start, 0) = start
  <2>1. TileTime(tpl, start, 0) = start + 0 * D + (st[0 + 1] - st[1])
    BY <1>1, <1>2, DivModZero
  <2>. QED  BY <1>1, <1>7, <2>1, Multiples
<1>. QED  BY <1>1, <1>3, <1>4, <1>5, <1>7, <1>8, <1>9

\* The number of cycles is a natural number.
LEMMA RepetitionsType ==
  ASSUME NEW tpl, IsModeSequenceTemplate(tpl), NEW start \in Int, NEW final \in Int
  PROVE  Repetitions(tpl, start, final) \in Nat
<1>. DEFINE D == Duration(tpl)
<1>1. D \in Nat \ {0}
  BY TemplateParts
<1>2. CASE start < final
  <2>1. (final - start) + D - 1 \in Nat
    BY <1>1, <1>2
  <2>. QED  BY <1>1, <1>2, <2>1, DivMod DEF Repetitions
<1>. QED  BY <1>2 DEF Repetitions

---------------------------------------------------------------------------------
(***************************************************************************)
(* Sequences.                                                              *)
(***************************************************************************)

\* A part of a sequence.
LEMMA SubSeqElements ==
  ASSUME NEW S, NEW s \in Seq(S), NEW m \in 1..(Len(s) + 1), NEW n \in (m - 1)..Len(s)
  PROVE  /\ SubSeq(s, m, n) \in Seq(S)
         /\ Len(SubSeq(s, m, n)) = n - m + 1
         /\ \A i \in 1..(n - m + 1) : SubSeq(s, m, n)[i] = s[m + i - 1]
  OBVIOUS

\* A sequence without its last element.
LEMMA FrontElements ==
  ASSUME NEW S, NEW s \in Seq(S), s # <<>>
  PROVE  /\ SubSeq(s, 1, Len(s) - 1) \in Seq(S)
         /\ Len(SubSeq(s, 1, Len(s) - 1)) = Len(s) - 1
         /\ \A i \in 1..(Len(s) - 1) : SubSeq(s, 1, Len(s) - 1)[i] = s[i]
<1>1. Len(s) \in Nat \ {0}
  OBVIOUS
<1>2. PICK n \in Nat : n = Len(s) - 1
  BY <1>1
<1>3. 1 \in 1..(Len(s) + 1) /\ n \in (1 - 1)..Len(s) /\ n - 1 + 1 = n
  BY <1>1, <1>2
<1>4. /\ SubSeq(s, 1, n) \in Seq(S)
      /\ Len(SubSeq(s, 1, n)) = n - 1 + 1
      /\ \A i \in 1..(n - 1 + 1) : SubSeq(s, 1, n)[i] = s[1 + i - 1]
  BY <1>3, SubSeqElements, Zenon
<1>5. \A i \in 1..n : SubSeq(s, 1, n)[i] = s[i]
  <2>1. \A i \in 1..n : 1 + i - 1 = i
    OBVIOUS
  <2>. QED  BY <1>3, <1>4, <2>1, Zenon
<1>. QED  BY <1>2, <1>3, <1>4, <1>5, Zenon

\* Two sequences in a row.
LEMMA ConcatElements ==
  ASSUME NEW S, NEW s \in Seq(S), NEW t \in Seq(S)
  PROVE  /\ s \o t \in Seq(S)
         /\ Len(s) \in Nat /\ Len(t) \in Nat
         /\ Len(s \o t) = Len(s) + Len(t)
         /\ \A i \in 1..(Len(s) + Len(t)) :
              (s \o t)[i] = IF i <= Len(s) THEN s[i] ELSE t[i - Len(s)]
  OBVIOUS

\* The ends of a sequence.
LEMMA Ends ==
  ASSUME NEW S, NEW s \in Seq(S)
  PROVE  /\ s = <<>> <=> Len(s) = 0
         /\ s # <<>> => Head(s) = s[1] /\ Last(s) = s[Len(s)]
         /\ s # <<>> => Head(s) \in S /\ Last(s) \in S
  BY DEF Last

\* Ordered times followed by later ordered times are ordered.
LEMMA ConcatOrdered ==
  ASSUME NEW s \in Seq(Int), NEW t \in Seq(Int), Ordered(s), Ordered(t),
         t # <<>>, s # <<>> => Last(s) < t[1]
  PROVE  Ordered(s \o t)
<1>. DEFINE u == s \o t
<1>1. /\ Len(u) = Len(s) + Len(t) /\ Len(s) \in Nat /\ Len(t) \in Nat \ {0}
      /\ \A i \in 1..(Len(s) + Len(t)) : u[i] = IF i <= Len(s) THEN s[i] ELSE t[i - Len(s)]
  BY ConcatElements, Ends
<1>2. /\ \A i \in 1..(Len(s) - 1) : s[i] < s[i + 1]
      /\ \A i \in 1..(Len(t) - 1) : t[i] < t[i + 1]
      /\ Len(s) # 0 => s[Len(s)] < t[1]
  BY Ends DEF Ordered
<1>. HIDE DEF u
<1>3. ASSUME NEW i \in 1..(Len(u) - 1)
      PROVE  u[i] < u[i + 1]
  <2>0. i \in Nat /\ 1 <= i /\ i + 1 <= Len(s) + Len(t)
    BY <1>1
  <2>1. CASE i < Len(s)
    <3>1. /\ i \in 1..(Len(s) - 1) /\ i <= Len(s) /\ i + 1 <= Len(s)
          /\ i \in 1..(Len(s) + Len(t)) /\ i + 1 \in 1..(Len(s) + Len(t))
      BY <1>1, <2>0, <2>1
    <3>2. u[i] = s[i] /\ u[i + 1] = s[i + 1]
      BY <1>1, <3>1
    <3>. QED  BY <1>2, <3>1, <3>2
  <2>2. CASE i = Len(s)
    <3>1. u[i] = s[i] /\ u[i + 1] = t[(i + 1) - Len(s)] /\ (i + 1) - Len(s) = 1
      BY <1>1, <2>0, <2>2
    <3>. QED  BY <1>2, <2>0, <2>2, <3>1
  <2>3. CASE i > Len(s)
    <3>1. /\ (i + 1) - Len(s) = (i - Len(s)) + 1
          /\ i - Len(s) \in 1..(Len(t) - 1)
          /\ i \in 1..(Len(s) + Len(t)) /\ i + 1 \in 1..(Len(s) + Len(t))
          /\ ~ (i <= Len(s)) /\ ~ (i + 1 <= Len(s))
      BY <1>1, <2>0, <2>3
    <3>2. u[i] = t[i - Len(s)] /\ u[i + 1] = t[(i + 1) - Len(s)]
      BY <1>1, <3>1
    <3>. QED  BY <1>2, <3>1, <3>2
  <2>. QED  BY <1>1, <2>0, <2>1, <2>2, <2>3
<1>. QED  BY <1>3 DEF Ordered, u

---------------------------------------------------------------------------------
(***************************************************************************)
(* The operations.  Each takes a schedule to a schedule: one more mode     *)
(* than events, events in order.  None fails, and the first mode stays     *)
(* what it was or becomes stance.                                          *)
(***************************************************************************)

\* How many modes tiling appends, the events and the modes.
TileCount(tpl, start, final) == Repetitions(tpl, start, final) * Len(tpl.modeSequence)
TileTimes(tpl, start, final) ==
  [j \in 1..(TileCount(tpl, start, final) + 1) |-> TileTime(tpl, start, j - 1)]
TileModes(tpl, start, final) ==
  [j \in 1..TileCount(tpl, start, final) |-> TileMode(tpl, j - 1)]

\* The events tiling appends begin at the start and are in order.
LEMMA TileParts ==
  ASSUME NEW tpl, IsModeSequenceTemplate(tpl), NEW start \in Int, NEW final \in Int
  PROVE  /\ TileCount(tpl, start, final) \in Nat
         /\ TileTimes(tpl, start, final) \in Seq(Int)
         /\ Len(TileTimes(tpl, start, final)) = TileCount(tpl, start, final) + 1
         /\ TileTimes(tpl, start, final)[1] = start
         /\ TileTimes(tpl, start, final)[TileCount(tpl, start, final) + 1] =
              TileTime(tpl, start, TileCount(tpl, start, final))
         /\ Ordered(TileTimes(tpl, start, final))
         /\ TileModes(tpl, start, final) \in Seq(Modes)
         /\ Len(TileModes(tpl, start, final)) = TileCount(tpl, start, final)
<1>. DEFINE k  == TileCount(tpl, start, final)
            te == [j \in 1..(k + 1) |-> TileTime(tpl, start, j - 1)]
            tm == [j \in 1..k |-> TileMode(tpl, j - 1)]
<1>0. TileTimes(tpl, start, final) = te /\ TileModes(tpl, start, final) = tm
  BY DEF TileTimes, TileModes
<1>2. k \in Nat
  BY TemplateParts, RepetitionsType DEF TileCount
<1>. HIDE DEF k
<1>4. te \in Seq(Int) /\ Len(te) = k + 1 /\ te[1] = start /\ Ordered(te)
  <2>1. \A j \in 1..(k + 1) : TileTime(tpl, start, j - 1) \in Int
    BY <1>2, TileTimeProperties
  <2>2. \A j \in 1..k : TileTime(tpl, start, j - 1) < TileTime(tpl, start, (j - 1) + 1)
    BY <1>2, TileTimeProperties
  <2>3. TileTime(tpl, start, 0) = start
    BY TileTimeProperties
  <2>4. te \in Seq(Int) /\ Len(te) = k + 1 /\ te[1] = start
    BY <1>2, <2>1, <2>3
  <2>5. \A j \in 1..k : te[j] < te[j + 1]
    <3>. TAKE j \in 1..k
    <3>1. te[j] = TileTime(tpl, start, j - 1) /\ te[j + 1] = TileTime(tpl, start, (j + 1) - 1)
      BY <1>2
    <3>2. (j + 1) - 1 = (j - 1) + 1
      BY <1>2
    <3>. QED  BY <2>2, <3>1, <3>2
  <2>. HIDE DEF te
  <2>. QED  BY <1>2, <2>4, <2>5 DEF Ordered
<1>5. tm \in Seq(Modes) /\ Len(tm) = k
  <2>1. \A j \in 1..k : TileMode(tpl, j - 1) \in Modes
    <3>. TAKE j \in 1..k
    <3>1. j - 1 \in Nat
      BY <1>2
    <3>. QED  BY <3>1, TileTimeProperties
  <2>. QED  BY <1>2, <2>1
<1>6. te[k + 1] = TileTime(tpl, start, k)
  BY <1>2
<1>. HIDE DEF te, tm
<1>7. /\ TileTimes(tpl, start, final) \in Seq(Int) /\ Len(TileTimes(tpl, start, final)) = k + 1
      /\ TileTimes(tpl, start, final)[1] = start
      /\ TileTimes(tpl, start, final)[k + 1] = TileTime(tpl, start, k)
      /\ Ordered(TileTimes(tpl, start, final))
  BY <1>0, <1>4, <1>6
<1>8. TileModes(tpl, start, final) \in Seq(Modes) /\ Len(TileModes(tpl, start, final)) = k
  BY <1>0, <1>5
<1>. QED  BY <1>2, <1>7, <1>8 DEF k

\* Tiling appends whole cycles of the template and a stance.
LEMMA TileAppends ==
  ASSUME NEW T, NEW s \in Schedules(T), IsModeSequenceTemplate(s.template),
         NEW start \in Int, NEW final \in Int,
         s.eventTimes # <<>> => Last(s.eventTimes) < start
  PROVE  Tile(s, start, final) =
           [s EXCEPT !.eventTimes   = s.eventTimes \o TileTimes(s.template, start, final),
                     !.modeSequence = Append(s.modeSequence
                                               \o TileModes(s.template, start, final), STANCE)]
<1>1. s.eventTimes \in Seq(Int)
  BY DEF Schedules, IsSchedule
<1>2. s.template.modeSequence # <<>>
  BY TemplateParts
<1>3. ~ (s.eventTimes # <<>> /\ start <= Last(s.eventTimes))
  BY <1>1, Ends
<1>. QED  BY <1>2, <1>3 DEF Tile, TileTimes, TileModes, TileCount

\* Tiling appends to the schedule.
LEMMA TileProperties ==
  ASSUME NEW T, NEW s \in Schedules(T), IsModeSequenceTemplate(s.template),
         NEW start \in Int, NEW final \in Int,
         s.eventTimes # <<>> => Last(s.eventTimes) < start
  PROVE  LET r == Tile(s, start, final)
         IN  /\ r \in Schedules(T) /\ r.eventTimes # <<>>
             /\ r.failed = s.failed /\ r.template = s.template
             /\ Head(r.modeSequence) = Head(s.modeSequence)
             /\ Last(r.modeSequence) = STANCE
<1>. DEFINE k   == TileCount(s.template, start, final)
            ev  == s.eventTimes
            md  == s.modeSequence
            te  == TileTimes(s.template, start, final)
            tm  == TileModes(s.template, start, final)
            e2  == ev \o te
            m2  == Append(md \o tm, STANCE)
            r   == [s EXCEPT !.eventTimes = e2, !.modeSequence = m2]
<1>1. /\ s \in [eventTimes : Seq(Int), modeSequence : Seq(Modes), template : T,
                failed : BOOLEAN]
      /\ ev \in Seq(Int) /\ md \in Seq(Modes) /\ Len(md) = Len(ev) + 1 /\ Ordered(ev)
  BY DEF Schedules, IsSchedule
<1>3. Tile(s, start, final) = r
  BY TileAppends
<1>4. k \in Nat /\ te \in Seq(Int) /\ Len(te) = k + 1 /\ te[1] = start /\ Ordered(te)
  BY TileParts
<1>5. tm \in Seq(Modes) /\ Len(tm) = k
  BY TileParts
<1>. HIDE DEF k, te, tm, ev, md
<1>6. e2 \in Seq(Int) /\ Len(e2) = Len(ev) + k + 1 /\ e2 # <<>>
  <2>1. e2 \in Seq(Int) /\ Len(e2) = Len(ev) + Len(te) /\ Len(ev) \in Nat
    BY <1>1, <1>4, ConcatElements
  <2>. QED  BY <1>4, <2>1, Ends
<1>7. Ordered(e2)
  <2>1. te # <<>> /\ (ev # <<>> => Last(ev) < te[1])
    BY <1>4 DEF ev
  <2>. QED  BY <1>1, <1>4, <2>1, ConcatOrdered
<1>8. /\ m2 \in Seq(Modes) /\ Len(m2) = Len(md) + k + 1
      /\ Head(m2) = Head(md) /\ Last(m2) = STANCE
  <2>. DEFINE c == md \o tm
  <2>0. Len(ev) \in Nat /\ Len(md) \in Nat \ {0}
    BY <1>1
  <2>1. c \in Seq(Modes) /\ Len(c) = Len(md) + k /\ c[1] = md[1]
    <3>1. /\ c \in Seq(Modes) /\ Len(c) = Len(md) + Len(tm)
          /\ \A i \in 1..(Len(md) + Len(tm)) : c[i] = IF i <= Len(md) THEN md[i] ELSE tm[i - Len(md)]
      BY <1>1, <1>5, ConcatElements
    <3>. QED  BY <1>4, <1>5, <2>0, <3>1
  <2>2. STANCE \in Modes
    BY DEF Modes, STANCE
  <2>. HIDE DEF c
  <2>3. /\ Append(c, STANCE) \in Seq(Modes) /\ Len(Append(c, STANCE)) = Len(c) + 1
        /\ Append(c, STANCE)[1] = c[1] /\ Append(c, STANCE)[Len(c) + 1] = STANCE
    <3>1. Len(c) \in Nat \ {0}
      BY <1>4, <2>0, <2>1
    <3>. QED  BY <2>1, <2>2, <3>1
  <2>4. m2 = Append(c, STANCE)
    BY DEF c
  <2>5. md # <<>> /\ Head(md) = md[1]
    BY <1>1, <2>0, Ends
  <2>. HIDE DEF m2
  <2>6. m2 \in Seq(Modes) /\ Len(m2) = Len(md) + k + 1 /\ m2[1] = md[1] /\ m2[Len(m2)] = STANCE
    BY <1>4, <2>0, <2>1, <2>3, <2>4
  <2>7. Len(m2) # 0
    BY <1>4, <2>0, <2>6
  <2>8. Head(m2) = m2[1] /\ Last(m2) = m2[Len(m2)]
    BY <2>6, <2>7, Ends
  <2>. QED  BY <2>5, <2>6, <2>8
<1>. HIDE DEF e2, m2
<1>9. /\ r \in [eventTimes : Seq(Int), modeSequence : Seq(Modes), template : T, failed : BOOLEAN]
      /\ r.eventTimes = e2 /\ r.modeSequence = m2
      /\ r.failed = s.failed /\ r.template = s.template
  BY <1>1, <1>6, <1>8
<1>. HIDE DEF r
<1>10. IsSchedule(r)
  <2>1. Len(m2) = Len(e2) + 1
    BY <1>1, <1>4, <1>6, <1>8
  <2>. QED  BY <1>6, <1>7, <1>8, <1>9, <2>1 DEF IsSchedule
<1>. QED  BY <1>3, <1>6, <1>8, <1>9, <1>10 DEF md, Schedules

\* A part of ordered times is ordered.
LEMMA SubSeqOrdered ==
  ASSUME NEW e \in Seq(Int), Ordered(e), NEW m \in 1..(Len(e) + 1), NEW n \in (m - 1)..Len(e)
  PROVE  Ordered(SubSeq(e, m, n))
<1>. DEFINE u == SubSeq(e, m, n)
<1>1. /\ Len(u) = n - m + 1
      /\ \A i \in 1..(n - m + 1) : u[i] = e[m + i - 1]
  BY SubSeqElements
<1>2. \A i \in 1..(Len(e) - 1) : e[i] < e[i + 1]
  BY DEF Ordered
<1>3. Len(e) \in Nat /\ m \in Nat /\ n \in Int /\ 1 <= m /\ n <= Len(e)
  OBVIOUS
<1>. HIDE DEF u
<1>4. ASSUME NEW i \in 1..(Len(u) - 1)
      PROVE  u[i] < u[i + 1]
  <2>1. /\ u[i] = e[m + i - 1] /\ u[i + 1] = e[m + (i + 1) - 1]
        /\ m + i - 1 \in 1..(Len(e) - 1) /\ m + (i + 1) - 1 = (m + i - 1) + 1
    BY <1>1, <1>3
  <2>. QED  BY <1>2, <2>1
<1>. QED  BY <1>4 DEF Ordered, u

\* The parts of a schedule.
LEMMA ScheduleParts ==
  ASSUME NEW T, NEW s \in Schedules(T)
  PROVE  /\ s \in [eventTimes : Seq(Int), modeSequence : Seq(Modes), template : T,
                   failed : BOOLEAN]
         /\ s.eventTimes \in Seq(Int) /\ s.modeSequence \in Seq(Modes)
         /\ Len(s.eventTimes) \in Nat /\ Len(s.modeSequence) = Len(s.eventTimes) + 1
         /\ Ordered(s.eventTimes)
         /\ s.template \in T /\ s.failed \in BOOLEAN
  BY DEF Schedules, IsSchedule

\* Other events and modes make it another schedule.
LEMMA ScheduleUpdate ==
  ASSUME NEW T, NEW s \in Schedules(T), NEW e \in Seq(Int), NEW m \in Seq(Modes),
         Len(m) = Len(e) + 1, Ordered(e)
  PROVE  [s EXCEPT !.eventTimes = e, !.modeSequence = m] \in Schedules(T)
<1>. DEFINE r == [s EXCEPT !.eventTimes = e, !.modeSequence = m]
<1>0. s \in [eventTimes : Seq(Int), modeSequence : Seq(Modes), template : T, failed : BOOLEAN]
  BY ScheduleParts
<1>1. /\ r \in [eventTimes : Seq(Int), modeSequence : Seq(Modes), template : T, failed : BOOLEAN]
      /\ r.eventTimes = e /\ r.modeSequence = m
  BY <1>0
<1>. HIDE DEF r
<1>2. IsSchedule(r)
  BY <1>1 DEF IsSchedule
<1>. QED  BY <1>1, <1>2 DEF Schedules, r

\* Forgetting the past keeps at least one event, the last one, and a schedule that
\* starts in stance.
LEMMA DropPastProperties ==
  ASSUME NEW T, NEW s \in Schedules(T), NEW lower \in Int, s.eventTimes # <<>>,
         Head(s.modeSequence) = STANCE
  PROVE  LET r == DropPast(s, lower)
         IN  /\ r \in Schedules(T) /\ r.eventTimes # <<>>
             /\ r.failed = s.failed /\ r.template = s.template
             /\ Head(r.modeSequence) = STANCE
<1>. DEFINE ev == s.eventTimes
            md == s.modeSequence
            ix == LowerBound(ev, lower)
            e2 == SubSeq(ev, ix, Len(ev))
            t2 == SubSeq(md, ix + 1, Len(md))
            m2 == <<STANCE>> \o t2
            r  == [s EXCEPT !.eventTimes = e2, !.modeSequence = m2]
<1>1. /\ ev \in Seq(Int) /\ md \in Seq(Modes) /\ Ordered(ev)
      /\ Len(ev) \in Nat /\ Len(md) = Len(ev) + 1
  BY ScheduleParts
<1>2. ix \in 0..Len(ev)
  BY <1>1, LowerBoundProperties
<1>3. DropPast(s, lower) = IF ix = 0 THEN s ELSE r
  BY DEF DropPast
<1>4. CASE ix = 0
  BY <1>3, <1>4
<1>5. CASE ix # 0
  <2>. HIDE DEF ix, ev, md
  <2>1. ix \in 1..(Len(ev) + 1) /\ Len(ev) \in (ix - 1)..Len(ev)
    BY <1>1, <1>2, <1>5
  <2>2. e2 \in Seq(Int) /\ Len(e2) = Len(ev) - ix + 1 /\ Ordered(e2)
    BY <1>1, <2>1, SubSeqElements, SubSeqOrdered
  <2>3. ix + 1 \in 1..(Len(md) + 1) /\ Len(md) \in ((ix + 1) - 1)..Len(md)
    BY <1>1, <1>2, <1>5
  <2>4. t2 \in Seq(Modes) /\ Len(t2) = Len(md) - (ix + 1) + 1
    BY <1>1, <2>3, SubSeqElements
  <2>5. <<STANCE>> \in Seq(Modes) /\ Len(<<STANCE>>) = 1 /\ <<STANCE>>[1] = STANCE
    BY DEF Modes, STANCE
  <2>. HIDE DEF e2, t2
  <2>6. /\ m2 \in Seq(Modes) /\ Len(m2) = 1 + Len(t2) /\ m2[1] = STANCE
    BY <2>4, <2>5, ConcatElements
  <2>. HIDE DEF m2
  <2>7. /\ e2 # <<>> /\ Len(m2) = Len(e2) + 1 /\ Len(m2) # 0
    BY <1>1, <1>2, <2>2, <2>4, <2>6, Ends
  <2>8. Head(m2) = STANCE
    BY <2>6, <2>7, Ends
  <2>9. r \in Schedules(T)
    BY <2>2, <2>6, <2>7, ScheduleUpdate
  <2>10. r.eventTimes = e2 /\ r.modeSequence = m2 /\ r.failed = s.failed /\ r.template = s.template
    BY ScheduleParts
  <2>. QED  BY <1>3, <1>5, <2>7, <2>8, <2>9, <2>10
<1>. QED  BY <1>4, <1>5

\* Without its last event and mode, a schedule is a schedule whose events come
\* before that last event.
LEMMA FrontProperties ==
  ASSUME NEW T, NEW s \in Schedules(T), s.eventTimes # <<>>
  PROVE  LET r == [s EXCEPT !.eventTimes = Front(@), !.modeSequence = Front(@)]
         IN  /\ r \in Schedules(T)
             /\ r.failed = s.failed /\ r.template = s.template
             /\ Head(r.modeSequence) = Head(s.modeSequence)
             /\ r.eventTimes # <<>> => Last(r.eventTimes) < Last(s.eventTimes)
             /\ Last(s.eventTimes) \in Int
<1>. DEFINE ev == s.eventTimes
            md == s.modeSequence
            e2 == SubSeq(ev, 1, Len(ev) - 1)
            m2 == SubSeq(md, 1, Len(md) - 1)
            r  == [s EXCEPT !.eventTimes = e2, !.modeSequence = m2]
<1>1. /\ ev \in Seq(Int) /\ md \in Seq(Modes) /\ Ordered(ev)
      /\ Len(ev) \in Nat \ {0} /\ Len(md) = Len(ev) + 1
  BY ScheduleParts, Ends
<1>2. [s EXCEPT !.eventTimes = Front(@), !.modeSequence = Front(@)] = r
  BY DEF Front
<1>3. r.eventTimes = e2 /\ r.modeSequence = m2 /\ r.failed = s.failed /\ r.template = s.template
  BY ScheduleParts
<1>. HIDE DEF ev, md
<1>4. /\ 1 \in 1..(Len(ev) + 1) /\ Len(ev) - 1 \in (1 - 1)..Len(ev)
      /\ 1 \in 1..(Len(md) + 1) /\ Len(md) - 1 \in (1 - 1)..Len(md)
  BY <1>1
<1>5. /\ e2 \in Seq(Int) /\ Len(e2) = Len(ev) - 1 /\ Ordered(e2)
      /\ \A i \in 1..(Len(ev) - 1) : e2[i] = ev[i]
  <2>1. Ordered(e2)
    BY <1>1, <1>4, SubSeqOrdered
  <2>2. ev # <<>>
    BY <1>1
  <2>. QED  BY <1>1, <2>1, <2>2, FrontElements, Zenon
<1>6. /\ m2 \in Seq(Modes) /\ Len(m2) = Len(md) - 1
      /\ \A i \in 1..(Len(md) - 1) : m2[i] = md[i]
  <2>1. md # <<>>
    BY <1>1
  <2>. QED  BY <1>1, <2>1, FrontElements, Zenon
<1>. HIDE DEF e2, m2
<1>7. Len(e2) = Len(ev) - 1 /\ Len(m2) = Len(ev)
  BY <1>1, <1>5, <1>6
<1>8. Head(m2) = Head(md)
  <2>1. m2[1] = md[1]
    BY <1>1, <1>6
  <2>2. Head(m2) = m2[1] /\ Head(md) = md[1]
    BY <1>1, <1>6, <1>7, Ends
  <2>. QED  BY <2>1, <2>2
<1>9. Last(ev) \in Int /\ Last(ev) = ev[Len(ev)]
  BY <1>1, Ends
<1>10. e2 # <<>> => Last(e2) < Last(ev)
  <2>. SUFFICES ASSUME e2 # <<>>
                PROVE  Last(e2) < Last(ev)
    OBVIOUS
  <2>1. Last(e2) = e2[Len(e2)] /\ Len(e2) # 0
    BY <1>5, Ends
  <2>2. Len(e2) \in 1..(Len(ev) - 1)
    BY <1>1, <1>7, <2>1
  <2>3. e2[Len(e2)] = ev[Len(e2)] /\ Len(e2) + 1 = Len(ev)
    <3>1. /\ Len(e2) \in 1..((Len(ev) - 1) - 1 + 1) /\ 1 + Len(e2) - 1 = Len(e2)
          /\ Len(e2) + 1 = Len(ev)
      BY <1>1, <1>7, <2>2
    <3>2. e2[Len(e2)] = ev[1 + Len(e2) - 1]
      BY <1>5, <3>1
    <3>. QED  BY <3>1, <3>2
  <2>4. ev[Len(e2)] < ev[Len(e2) + 1]
    BY <1>1, <2>2 DEF Ordered
  <2>. QED  BY <1>9, <2>1, <2>3, <2>4
<1>11. r \in Schedules(T)
  <2>1. Len(m2) = Len(e2) + 1
    BY <1>1, <1>7
  <2>. QED  BY <1>5, <1>6, <2>1, ScheduleUpdate
<1>. HIDE DEF r
<1>. QED  BY <1>2, <1>3, <1>8, <1>9, <1>10, <1>11 DEF ev, md

\* Fetching succeeds whatever the interval, as long as there is an event, and
\* returns a schedule that starts and ends in stance.
LEMMA GetModeScheduleProperties ==
  ASSUME NEW T, NEW s \in Schedules(T), NEW lower \in Int, NEW upper \in Int,
         IsModeSequenceTemplate(s.template), s.eventTimes # <<>>,
         Head(s.modeSequence) = STANCE
  PROVE  LET r == GetModeSchedule(s, lower, upper)
         IN  /\ r \in Schedules(T) /\ r.eventTimes # <<>>
             /\ r.failed = s.failed /\ r.template = s.template
             /\ Head(r.modeSequence) = STANCE /\ Last(r.modeSequence) = STANCE
<1>. DEFINE kept == DropPast(s, lower)
            cut  == [kept EXCEPT !.eventTimes = Front(@), !.modeSequence = Front(@)]
<1>1. /\ kept \in Schedules(T) /\ kept.eventTimes # <<>>
      /\ kept.failed = s.failed /\ kept.template = s.template
      /\ Head(kept.modeSequence) = STANCE
  BY DropPastProperties
<1>2. GetModeSchedule(s, lower, upper) = Tile(cut, Last(kept.eventTimes), upper)
  BY <1>1 DEF GetModeSchedule
<1>. HIDE DEF kept
<1>3. /\ cut \in Schedules(T)
      /\ cut.failed = kept.failed /\ cut.template = kept.template
      /\ Head(cut.modeSequence) = Head(kept.modeSequence)
      /\ cut.eventTimes # <<>> => Last(cut.eventTimes) < Last(kept.eventTimes)
      /\ Last(kept.eventTimes) \in Int
  BY <1>1, FrontProperties
<1>. HIDE DEF cut
<1>. QED  BY <1>1, <1>2, <1>3, TileProperties

\* The schedule up to a time, with a new template: all its events are before it.
LEMMA CutProperties ==
  ASSUME NEW T, NEW s \in Schedules(T), NEW tpl \in T, NEW start \in Int
  PROVE  LET r == CutAt(s, tpl, start)
         IN  /\ r \in Schedules(T) /\ r.failed = s.failed /\ r.template = tpl
             /\ Head(r.modeSequence) = Head(s.modeSequence)
             /\ r.eventTimes # <<>> => Last(r.eventTimes) < start
<1>. DEFINE ev == s.eventTimes
            md == s.modeSequence
            ix == LowerBound(ev, start)
            e2 == SubSeq(ev, 1, ix)
            m2 == SubSeq(md, 1, ix + 1)
            r  == CutAt(s, tpl, start)
<1>0. r = [s EXCEPT !.template = tpl, !.eventTimes = e2, !.modeSequence = m2]
  BY DEF CutAt
<1>. HIDE DEF r
<1>1. /\ s \in [eventTimes : Seq(Int), modeSequence : Seq(Modes), template : T, failed : BOOLEAN]
      /\ ev \in Seq(Int) /\ md \in Seq(Modes) /\ Ordered(ev)
      /\ Len(ev) \in Nat /\ Len(md) = Len(ev) + 1
  BY ScheduleParts
<1>2. ix \in 0..Len(ev) /\ \A j \in 1..ix : ev[j] < start
  BY <1>1, LowerBoundProperties
<1>. HIDE DEF ix
<1>3. r.eventTimes = e2 /\ r.modeSequence = m2 /\ r.failed = s.failed /\ r.template = tpl
  BY <1>0, <1>1
<1>. HIDE DEF ev, md
<1>4. 1 \in 1..(Len(ev) + 1) /\ ix \in (1 - 1)..Len(ev)
  BY <1>1, <1>2
<1>5. Ordered(e2)
  BY <1>1, <1>4, SubSeqOrdered
<1>6. e2 \in Seq(Int) /\ Len(e2) = ix
  <2>1. e2 \in Seq(Int) /\ Len(e2) = ix - 1 + 1
    BY <1>1, <1>4, SubSeqElements
  <2>. QED  BY <1>2, <2>1
<1>7. \A i \in 1..ix : e2[i] = ev[i]
  BY <1>1, <1>4
<1>8. 1 \in 1..(Len(md) + 1) /\ ix + 1 \in (1 - 1)..Len(md)
  BY <1>1, <1>2
<1>9. m2 \in Seq(Modes) /\ Len(m2) = ix + 1
  <2>1. m2 \in Seq(Modes) /\ Len(m2) = (ix + 1) - 1 + 1
    BY <1>1, <1>8, SubSeqElements
  <2>. QED  BY <1>2, <2>1
<1>10. m2[1] = md[1]
  BY <1>1, <1>2, <1>8
<1>. HIDE DEF e2, m2
<1>11. Head(m2) = Head(md)
  <2>1. Len(m2) # 0 /\ Len(md) # 0
    BY <1>1, <1>2, <1>9
  <2>2. Head(m2) = m2[1] /\ Head(md) = md[1]
    BY <1>1, <1>9, <2>1, Ends
  <2>. QED  BY <1>10, <2>2
<1>12. e2 # <<>> => Last(e2) < start
  <2>. SUFFICES ASSUME e2 # <<>>
                PROVE  Last(e2) < start
    OBVIOUS
  <2>1. Last(e2) = e2[Len(e2)] /\ Len(e2) # 0
    BY <1>6, Ends
  <2>2. ix \in 1..ix
    BY <1>2, <1>6, <2>1
  <2>. QED  BY <1>2, <1>6, <1>7, <2>1, <2>2
<1>13. r \in [eventTimes : Seq(Int), modeSequence : Seq(Modes), template : T, failed : BOOLEAN]
  BY <1>0, <1>1, <1>6, <1>9
<1>14. IsSchedule(r)
  <2>1. Len(m2) = Len(e2) + 1
    BY <1>6, <1>9
  <2>. QED  BY <1>3, <1>5, <1>6, <1>9, <2>1 DEF IsSchedule
<1>15. r \in Schedules(T)
  BY <1>13, <1>14 DEF Schedules
<1>. QED  BY <1>3, <1>11, <1>12, <1>15 DEF ev, md, r

\* A stance at the end of a schedule, from a time after its last event.
LEMMA StandProperties ==
  ASSUME NEW T, NEW s \in Schedules(T), NEW start \in Int,
         s.eventTimes # <<>> => Last(s.eventTimes) < start
  PROVE  LET r == StandFrom(s, start)
         IN  /\ r \in Schedules(T) /\ r.failed = s.failed /\ r.template = s.template
             /\ Head(r.modeSequence) = Head(s.modeSequence)
             /\ r.eventTimes # <<>> /\ Last(r.eventTimes) = start
<1>. DEFINE ev == s.eventTimes
            md == s.modeSequence
            e2 == Append(ev, start)
            m2 == Append(md, STANCE)
            r  == [s EXCEPT !.eventTimes = e2, !.modeSequence = m2]
<1>1. /\ s \in [eventTimes : Seq(Int), modeSequence : Seq(Modes), template : T, failed : BOOLEAN]
      /\ ev \in Seq(Int) /\ md \in Seq(Modes) /\ Ordered(ev)
      /\ Len(ev) \in Nat /\ Len(md) = Len(ev) + 1
  BY ScheduleParts
<1>2. STANCE \in Modes
  BY DEF Modes, STANCE
<1>3. r.eventTimes = e2 /\ r.modeSequence = m2 /\ r.failed = s.failed /\ r.template = s.template
  BY <1>1
<1>. HIDE DEF md
<1>4. /\ e2 \in Seq(Int) /\ Len(e2) = Len(ev) + 1 /\ e2[Len(ev) + 1] = start
      /\ m2 \in Seq(Modes) /\ Len(m2) = Len(md) + 1 /\ m2[1] = md[1]
      /\ \A i \in 1..Len(ev) : e2[i] = ev[i]
  BY <1>1, <1>2
<1>5. Len(ev) # 0 => ev[Len(ev)] < start
  BY <1>1, Ends
<1>. HIDE DEF e2, m2, ev
<1>6. Ordered(e2)
  <2>1. ASSUME NEW i \in 1..(Len(e2) - 1)
        PROVE  e2[i] < e2[i + 1]
    <3>1. CASE i = Len(ev)
      BY <1>1, <1>4, <1>5, <3>1
    <3>2. CASE i # Len(ev)
      <4>1. i \in 1..(Len(ev) - 1) /\ i \in 1..Len(ev) /\ i + 1 \in 1..Len(ev)
        BY <1>1, <1>4, <3>2
      <4>2. ev[i] < ev[i + 1]
        BY <1>1, <4>1 DEF Ordered
      <4>. QED  BY <1>4, <4>1, <4>2
    <3>. QED  BY <3>1, <3>2
  <2>. QED  BY <2>1 DEF Ordered
<1>7. Len(e2) # 0 /\ Len(m2) # 0 /\ Len(md) # 0 /\ Len(m2) = Len(e2) + 1
  BY <1>1, <1>4
<1>8. /\ e2 # <<>> /\ Last(e2) = start
      /\ Head(m2) = m2[1] /\ Head(md) = md[1]
  BY <1>1, <1>4, <1>7, Ends
<1>9. r \in Schedules(T)
  BY <1>4, <1>6, <1>7, ScheduleUpdate
<1>. HIDE DEF r
<1>. QED  BY <1>3, <1>4, <1>8, <1>9 DEF r, e2, m2, ev, md, StandFrom

\* Inserting a gait succeeds at every time and for every final time.
LEMMA InsertModeSequenceTemplateProperties ==
  ASSUME NEW T, NEW s \in Schedules(T), NEW tpl \in T, IsModeSequenceTemplate(tpl),
         NEW start \in Int, NEW final \in Int
  PROVE  LET r == InsertModeSequenceTemplate(s, tpl, start, final)
         IN  /\ r \in Schedules(T) /\ r.eventTimes # <<>>
             /\ r.failed = s.failed /\ r.template = tpl
             /\ Head(r.modeSequence) = Head(s.modeSequence)
<1>. DEFINE kept  == CutAt(s, tpl, start)
            tr    == IF Last(kept.modeSequence) = STANCE THEN 0
                     ELSE phaseTransitionStanceTime
            stand == IF tr = 0 THEN kept ELSE StandFrom(kept, start)
<1>1. InsertModeSequenceTemplate(s, tpl, start, final) = Tile(stand, start + tr, final)
  BY DEF InsertModeSequenceTemplate
<1>2. /\ kept \in Schedules(T) /\ kept.failed = s.failed /\ kept.template = tpl
      /\ Head(kept.modeSequence) = Head(s.modeSequence)
      /\ kept.eventTimes # <<>> => Last(kept.eventTimes) < start
  BY CutProperties
<1>3. tr \in Nat
  BY TransitionAssumption
<1>. HIDE DEF kept, tr
<1>4. /\ stand \in Schedules(T) /\ stand.failed = s.failed /\ stand.template = tpl
      /\ Head(stand.modeSequence) = Head(s.modeSequence)
      /\ stand.eventTimes # <<>> => Last(stand.eventTimes) < start + tr
  <2>1. CASE tr = 0
    BY <1>2, <2>1
  <2>2. CASE tr # 0
    <3>1. stand = StandFrom(kept, start)
      BY <2>2
    <3>2. /\ stand \in Schedules(T) /\ stand.failed = kept.failed
          /\ stand.template = kept.template
          /\ Head(stand.modeSequence) = Head(kept.modeSequence)
          /\ Last(stand.eventTimes) = start
      BY <1>2, <3>1, StandProperties
    <3>. HIDE DEF stand
    <3>. QED  BY <1>2, <1>3, <2>2, <3>2
  <2>. QED  BY <2>1, <2>2
<1>5. start + tr \in Int
  BY <1>3
<1>. HIDE DEF stand
<1>6. LET r == Tile(stand, start + tr, final)
      IN  /\ r \in Schedules(T) /\ r.eventTimes # <<>>
          /\ r.failed = stand.failed /\ r.template = stand.template
          /\ Head(r.modeSequence) = Head(stand.modeSequence)
  BY <1>4, <1>5, TileProperties
<1>. QED  BY <1>1, <1>4, <1>6

---------------------------------------------------------------------------------
(***************************************************************************)
(* Looking up a time in a schedule.                                        *)
(***************************************************************************)

\* Events in order are in order however far apart.
LEMMA LaterEvents ==
  ASSUME NEW e \in Seq(Int), Ordered(e), NEW i \in 1..Len(e), NEW j \in i..Len(e)
  PROVE  e[i] <= e[j]
<1>. DEFINE S == {d \in Nat : i + d <= Len(e) /\ e[i + d] < e[i]}
<1>1. Len(e) \in Nat /\ \A k \in 1..Len(e) : e[k] \in Int
  OBVIOUS
<1>2. \A k \in 1..(Len(e) - 1) : e[k] < e[k + 1]
  BY DEF Ordered
<1>3. S \in SUBSET Nat /\ \A d \in Nat : d \in S <=> i + d <= Len(e) /\ e[i + d] < e[i]
  OBVIOUS
<1>. HIDE DEF S
<1>4. S = {}
  <2>. SUFFICES ASSUME S # {}
                PROVE  FALSE
    OBVIOUS
  <2>1. PICK m \in S : \A k \in S : m <= k
    BY <1>3, SmallestInSet
  <2>2. m \in Nat /\ i + m <= Len(e) /\ e[i + m] < e[i]
    BY <1>3, <2>1
  <2>3. m # 0
    BY <1>1, <2>2
  <2>4. m - 1 \in Nat /\ i + (m - 1) \in 1..(Len(e) - 1) /\ (i + (m - 1)) + 1 = i + m
    BY <1>1, <2>2, <2>3
  <2>5. e[i + (m - 1)] < e[i + m]
    <3>1. e[i + (m - 1)] < e[(i + (m - 1)) + 1]
      BY <1>2, <2>4
    <3>. QED  BY <2>4, <3>1
  <2>6. e[i + (m - 1)] \in Int /\ e[i + m] \in Int /\ e[i] \in Int
    <3>1. i + m \in 1..Len(e) /\ i + (m - 1) \in 1..Len(e)
      BY <1>1, <2>2, <2>4
    <3>. QED  BY <1>1, <3>1
  <2>7. e[i + (m - 1)] < e[i]
    BY <2>2, <2>5, <2>6
  <2>8. i + (m - 1) <= Len(e)
    BY <1>1, <2>4
  <2>9. m - 1 \in S
    BY <1>3, <2>4, <2>7, <2>8
  <2>. QED  BY <2>1, <2>2, <2>9
<1>5. j - i \in Nat /\ i + (j - i) = j /\ j \in 1..Len(e) /\ j <= Len(e)
  BY <1>1
<1>6. ~ (e[j] < e[i])
  <2>1. j - i \in S <=> i + (j - i) <= Len(e) /\ e[i + (j - i)] < e[i]
    BY <1>3, <1>5
  <2>. QED  BY <1>4, <1>5, <2>1
<1>. QED  BY <1>1, <1>5, <1>6

\* The position of a time among the events is the only one that has the events
\* before it earlier and the next one not.
LEMMA LowerBoundIs ==
  ASSUME NEW e \in Seq(Int), NEW t \in Int, NEW i \in 0..Len(e),
         \A j \in 1..i : e[j] < t,
         i < Len(e) => e[i + 1] >= t
  PROVE  LowerBound(e, t) = i
<1>. DEFINE L == LowerBound(e, t)
<1>1. /\ L \in 0..Len(e) /\ Len(e) \in Nat
      /\ \A j \in 1..L : e[j] < t
      /\ L < Len(e) => e[L + 1] >= t
  BY LowerBoundProperties
<1>. HIDE DEF L
<1>2. \A j \in 1..Len(e) : e[j] \in Int
  OBVIOUS
<1>3. CASE i < L
  <2>1. i + 1 \in 1..L /\ i < Len(e) /\ i + 1 \in 1..Len(e)
    BY <1>1, <1>3
  <2>2. e[i + 1] < t /\ e[i + 1] >= t /\ e[i + 1] \in Int
    BY <1>1, <1>2, <2>1
  <2>. QED  BY <2>2
<1>4. CASE L < i
  <2>1. L + 1 \in 1..i /\ L < Len(e) /\ L + 1 \in 1..Len(e)
    BY <1>1, <1>4
  <2>2. e[L + 1] < t /\ e[L + 1] >= t /\ e[L + 1] \in Int
    BY <1>1, <1>2, <2>1
  <2>. QED  BY <2>2
<1>. QED  BY <1>1, <1>3, <1>4 DEF L

\* Two schedules that begin alike have the same mode at a time neither has an event
\* before after that beginning.
LEMMA SamePrefix ==
  ASSUME NEW a, NEW b, IsSchedule(a), IsSchedule(b), NEW t \in Int,
         NEW c \in Nat, c <= Len(a.eventTimes), c <= Len(b.eventTimes),
         \A j \in 1..c : a.eventTimes[j] = b.eventTimes[j],
         \A j \in 1..(c + 1) : a.modeSequence[j] = b.modeSequence[j],
         c < Len(a.eventTimes) => a.eventTimes[c + 1] >= t,
         c < Len(b.eventTimes) => b.eventTimes[c + 1] >= t
  PROVE  ModeAtTime(a, t) = ModeAtTime(b, t)
<1>. DEFINE e1 == a.eventTimes
            e2 == b.eventTimes
            i  == LowerBound(e1, t)
<1>1. e1 \in Seq(Int) /\ e2 \in Seq(Int)
  BY DEF IsSchedule
<1>2. /\ Len(e1) \in Nat /\ Len(e2) \in Nat
      /\ \A j \in 1..Len(e1) : e1[j] \in Int
  BY <1>1
<1>3. /\ i \in 0..Len(e1)
      /\ \A j \in 1..i : e1[j] < t
      /\ i < Len(e1) => e1[i + 1] >= t
  BY <1>1, LowerBoundProperties
<1>. HIDE DEF i
<1>4. i <= c
  <2>. SUFFICES ASSUME c < i
                PROVE  FALSE
    BY <1>3
  <2>1. c + 1 \in 1..i /\ c < Len(e1) /\ c + 1 \in 1..Len(e1)
    BY <1>2, <1>3
  <2>. QED  BY <1>2, <1>3, <2>1
<1>5. LowerBound(e2, t) = i
  <2>1. i \in 0..Len(e2)
    BY <1>2, <1>3, <1>4
  <2>2. \A j \in 1..i : e2[j] < t
    BY <1>3, <1>4
  <2>3. i < Len(e2) => e2[i + 1] >= t
    <3>1. CASE i = c
      BY <3>1
    <3>2. CASE i < c
      <4>1. i + 1 \in 1..c /\ i < Len(e1)
        BY <1>2, <1>3, <3>2
      <4>. QED  BY <1>3, <4>1
    <3>. QED  BY <1>3, <1>4, <3>1, <3>2
  <2>. HIDE DEF e2
  <2>. QED  BY <1>1, <2>1, <2>2, <2>3, LowerBoundIs
<1>6. a.modeSequence[i + 1] = b.modeSequence[i + 1]
  BY <1>3, <1>4
<1>. QED  BY <1>5, <1>6 DEF ModeAtTime, i
---------------------------------------------------------------------------------
(***************************************************************************)
(* Which modes the operations keep.                                        *)
(***************************************************************************)

\* Forgetting the past changes nothing from lower on.
LEMMA DropPastModes ==
  ASSUME NEW T, NEW s \in Schedules(T), NEW lower \in Int,
         NEW t \in Int, lower <= t
  PROVE  LET r == DropPast(s, lower)
         IN  /\ ModeAtTime(r, t) = ModeAtTime(s, t)
             /\ s.eventTimes # <<>> => Last(r.eventTimes) = Last(s.eventTimes)
<1>. DEFINE ev == s.eventTimes
            md == s.modeSequence
            ix == LowerBound(ev, lower)
            e2 == SubSeq(ev, ix, Len(ev))
            t2 == SubSeq(md, ix + 1, Len(md))
            m2 == <<STANCE>> \o t2
            r  == DropPast(s, lower)
            L  == LowerBound(ev, t)
<1>1. /\ ev \in Seq(Int) /\ md \in Seq(Modes)
      /\ Len(ev) \in Nat /\ Len(md) = Len(ev) + 1
  BY ScheduleParts
<1>2. ix \in 0..Len(ev) /\ \A j \in 1..ix : ev[j] < lower
  BY <1>1, LowerBoundProperties
<1>3. /\ L \in 0..Len(ev)
      /\ \A j \in 1..L : ev[j] < t
      /\ L < Len(ev) => ev[L + 1] >= t
  BY <1>1, LowerBoundProperties
<1>4. CASE ix = 0
  <2>1. r = s
    BY <1>4 DEF DropPast
  <2>. QED  BY <2>1
<1>5. CASE ix # 0
  <2>1. r.eventTimes = e2 /\ r.modeSequence = m2
    <3>1. r = [s EXCEPT !.eventTimes = e2, !.modeSequence = m2]
      BY <1>5 DEF DropPast
    <3>. HIDE DEF r, e2, m2
    <3>. QED  BY <3>1, ScheduleParts
  <2>. HIDE DEF ix, L, ev, md, r
  <2>2. ix \in 1..(Len(ev) + 1) /\ Len(ev) \in (ix - 1)..Len(ev)
    BY <1>1, <1>2, <1>5
  <2>3. /\ e2 \in Seq(Int) /\ Len(e2) = Len(ev) - ix + 1
        /\ \A i \in 1..(Len(ev) - ix + 1) : e2[i] = ev[ix + i - 1]
    BY <1>1, <2>2, SubSeqElements
  <2>4. ix + 1 \in 1..(Len(md) + 1) /\ Len(md) \in ((ix + 1) - 1)..Len(md)
    BY <1>1, <1>2, <1>5
  <2>5. /\ t2 \in Seq(Modes) /\ Len(t2) = Len(md) - (ix + 1) + 1
        /\ \A i \in 1..(Len(md) - (ix + 1) + 1) : t2[i] = md[(ix + 1) + i - 1]
    BY <1>1, <2>4, SubSeqElements
  <2>. HIDE DEF e2, t2
  <2>6. \A i \in 1..Len(t2) : m2[i + 1] = t2[i]
    BY <2>5
  <2>. HIDE DEF m2
  <2>7. ix <= L
    <3>. SUFFICES ASSUME L < ix
                  PROVE  FALSE
      BY <1>2, <1>3
    <3>1. L + 1 \in 1..ix /\ L < Len(ev) /\ L + 1 \in 1..Len(ev)
      BY <1>1, <1>2, <1>3
    <3>2. ev[L + 1] \in Int /\ ev[L + 1] >= t /\ ev[L + 1] < lower
      BY <1>1, <1>2, <1>3, <3>1
    <3>. QED  BY <3>2
  <2>. DEFINE i == L - ix + 1
  <2>8. i \in 0..Len(e2) /\ i \in Nat
    BY <1>1, <1>2, <1>3, <1>5, <2>3, <2>7
  <2>9. \A j \in 1..i : e2[j] < t
    <3>. TAKE j \in 1..i
    <3>1. ix + j - 1 \in 1..L /\ j \in 1..(Len(ev) - ix + 1)
      BY <1>1, <1>2, <1>3, <1>5, <2>7
    <3>. QED  BY <1>3, <2>3, <3>1
  <2>10. i < Len(e2) => e2[i + 1] >= t
    <3>. SUFFICES ASSUME i < Len(e2)
                  PROVE  e2[i + 1] >= t
      OBVIOUS
    <3>0. L \in Nat /\ ix \in Nat /\ Len(ev) \in Nat /\ Len(e2) = Len(ev) - ix + 1 /\ ix # 0
      BY <1>1, <1>2, <1>3, <1>5, <2>3
    <3>1. /\ i + 1 \in 1..(Len(ev) - ix + 1) /\ ix + (i + 1) - 1 = L + 1 /\ L < Len(ev)
      BY <2>8, <3>0
    <3>2. e2[i + 1] = ev[ix + (i + 1) - 1]
      BY <2>3, <3>1
    <3>. QED  BY <1>3, <3>1, <3>2
  <2>. HIDE DEF i
  <2>11. LowerBound(e2, t) = i
    BY <2>3, <2>8, <2>9, <2>10, LowerBoundIs
  <2>12. m2[i + 1] = md[L + 1]
    <3>1. i \in 1..Len(t2) /\ i \in 1..(Len(md) - (ix + 1) + 1) /\ (ix + 1) + i - 1 = L + 1
      BY <1>1, <1>2, <1>3, <1>5, <2>5, <2>7 DEF i
    <3>2. t2[i] = md[(ix + 1) + i - 1]
      BY <2>5, <3>1
    <3>. QED  BY <2>6, <3>1, <3>2
  <2>13. ModeAtTime(r, t) = ModeAtTime(s, t)
    BY <2>1, <2>11, <2>12 DEF ModeAtTime, L, ev, md
  <2>14. Last(e2) = Last(ev)
    <3>1. Len(e2) \in 1..(Len(ev) - ix + 1) /\ ix + Len(e2) - 1 = Len(ev)
      BY <1>1, <1>2, <1>5, <2>3
    <3>2. e2[Len(e2)] = ev[ix + Len(e2) - 1]
      BY <2>3, <3>1
    <3>. QED  BY <3>1, <3>2 DEF Last
  <2>. QED  BY <2>1, <2>13, <2>14 DEF ev, r
<1>. QED  BY <1>4, <1>5

\* Taking off the last event changes nothing up to it.
LEMMA FrontModes ==
  ASSUME NEW T, NEW s \in Schedules(T), s.eventTimes # <<>>,
         NEW t \in Int, t <= Last(s.eventTimes)
  PROVE  LET r == [s EXCEPT !.eventTimes = Front(@), !.modeSequence = Front(@)]
         IN  ModeAtTime(r, t) = ModeAtTime(s, t)
<1>. DEFINE ev == s.eventTimes
            md == s.modeSequence
            r  == [s EXCEPT !.eventTimes = Front(@), !.modeSequence = Front(@)]
            e2 == SubSeq(ev, 1, Len(ev) - 1)
            m2 == SubSeq(md, 1, Len(md) - 1)
<1>1. /\ ev \in Seq(Int) /\ md \in Seq(Modes)
      /\ Len(ev) \in Nat \ {0} /\ Len(md) = Len(ev) + 1 /\ md # <<>>
  BY ScheduleParts, Ends
<1>2. r.eventTimes = e2 /\ r.modeSequence = m2
  BY ScheduleParts DEF Front
<1>3. IsSchedule(r) /\ IsSchedule(s)
  BY FrontProperties DEF Schedules
<1>4. Last(ev) = ev[Len(ev)]
  BY <1>1, Ends
<1>. HIDE DEF r, ev, md
<1>5. Len(e2) = Len(ev) - 1 /\ \A j \in 1..(Len(ev) - 1) : e2[j] = ev[j]
  <2>1. ev # <<>>
    BY <1>1
  <2>. QED  BY <1>1, <2>1, FrontElements, Zenon
<1>6. \A j \in 1..(Len(md) - 1) : m2[j] = md[j]
  BY <1>1, FrontElements, Zenon
<1>. HIDE DEF e2, m2
<1>. DEFINE c == Len(ev) - 1
<1>7. c \in Nat /\ c + 1 = Len(ev) /\ Len(md) - 1 = c + 1 /\ c < Len(ev) /\ ~(c < Len(e2))
  BY <1>1, <1>5
<1>8. ev[c + 1] >= t
  <2>1. ev[Len(ev)] \in Int
    BY <1>1
  <2>. QED  BY <1>4, <1>7, <2>1 DEF ev
<1>9. c <= Len(ev) /\ c <= Len(e2)
  BY <1>1, <1>5
<1>10. /\ \A j \in 1..c : e2[j] = ev[j]
       /\ \A j \in 1..(c + 1) : m2[j] = md[j]
  BY <1>5, <1>6, <1>7
<1>. HIDE DEF c
<1>11. ModeAtTime(r, t) = ModeAtTime(s, t)
  <2>1. s.eventTimes = ev /\ s.modeSequence = md
    BY DEF ev, md
  <2>. QED  BY <1>2, <1>3, <1>7, <1>8, <1>9, <1>10, <2>1, SamePrefix
<1>. QED  BY <1>11 DEF r

\* Tiling changes nothing up to where it starts.
LEMMA TileModesKept ==
  ASSUME NEW T, NEW s \in Schedules(T), IsModeSequenceTemplate(s.template),
         NEW start \in Int, NEW final \in Int,
         s.eventTimes # <<>> => Last(s.eventTimes) < start,
         NEW t \in Int, t <= start
  PROVE  ModeAtTime(Tile(s, start, final), t) = ModeAtTime(s, t)
<1>. DEFINE r  == Tile(s, start, final)
            k  == TileCount(s.template, start, final)
            ev == s.eventTimes
            md == s.modeSequence
            te == TileTimes(s.template, start, final)
            tm == TileModes(s.template, start, final)
            e2 == ev \o te
            m2 == Append(md \o tm, STANCE)
            c  == Len(ev)
<1>1. ev \in Seq(Int) /\ md \in Seq(Modes) /\ Len(ev) \in Nat /\ Len(md) = Len(ev) + 1
  BY ScheduleParts
<1>2. r.eventTimes = e2 /\ r.modeSequence = m2
  <2>1. r = [s EXCEPT !.eventTimes = ev \o te, !.modeSequence = Append(md \o tm, STANCE)]
    BY TileAppends
  <2>. HIDE DEF r, te, tm, ev, md
  <2>. QED  BY <2>1, ScheduleParts
<1>3. IsSchedule(r) /\ IsSchedule(s)
  BY TileProperties DEF Schedules
<1>4. k \in Nat /\ te \in Seq(Int) /\ Len(te) = k + 1 /\ te[1] = start
  BY TileParts
<1>5. tm \in Seq(Modes) /\ Len(tm) = k
  BY TileParts
<1>. HIDE DEF r, k, te, tm, ev, md
<1>6. Len(e2) = c + k + 1 /\ (\A j \in 1..c : e2[j] = ev[j]) /\ e2[c + 1] = start
  <2>1. /\ Len(ev \o te) = Len(ev) + Len(te)
        /\ \A i \in 1..(Len(ev) + Len(te)) :
             (ev \o te)[i] = IF i <= Len(ev) THEN ev[i] ELSE te[i - Len(ev)]
    BY <1>1, <1>4, ConcatElements
  <2>. QED  BY <1>1, <1>4, <2>1
<1>7. \A j \in 1..(c + 1) : m2[j] = md[j]
  BY <1>1, <1>4, <1>5
<1>. HIDE DEF e2, m2
<1>8. c \in Nat /\ c <= Len(ev) /\ c <= Len(e2)
  BY <1>1, <1>4, <1>6
<1>9. ~ (c < Len(ev))
  BY <1>1
<1>10. c < Len(e2) => e2[c + 1] >= t
  BY <1>6
<1>. HIDE DEF c
<1>11. s.eventTimes = ev /\ s.modeSequence = md
  BY DEF ev, md
<1>12. ModeAtTime(r, t) = ModeAtTime(s, t)
  BY <1>2, <1>3, <1>6, <1>7, <1>8, <1>9, <1>10, <1>11, SamePrefix
<1>. QED  BY <1>12 DEF r
\* Cutting at a time changes nothing up to it.
LEMMA CutModes ==
  ASSUME NEW T, NEW s \in Schedules(T), NEW tpl \in T, NEW start \in Int,
         NEW t \in Int, t <= start
  PROVE  ModeAtTime(CutAt(s, tpl, start), t) = ModeAtTime(s, t)
<1>. DEFINE ev == s.eventTimes
            md == s.modeSequence
            c  == LowerBound(ev, start)
            e2 == SubSeq(ev, 1, c)
            m2 == SubSeq(md, 1, c + 1)
            r  == CutAt(s, tpl, start)
<1>1. ev \in Seq(Int) /\ md \in Seq(Modes) /\ Len(ev) \in Nat /\ Len(md) = Len(ev) + 1
  BY ScheduleParts
<1>2. c \in 0..Len(ev) /\ (c < Len(ev) => ev[c + 1] >= start)
  BY <1>1, LowerBoundProperties
<1>3. r.eventTimes = e2 /\ r.modeSequence = m2
  <2>1. r = [s EXCEPT !.template = tpl, !.eventTimes = e2, !.modeSequence = m2]
    BY DEF CutAt
  <2>. HIDE DEF r, e2, m2
  <2>. QED  BY <2>1, ScheduleParts
<1>4. IsSchedule(r) /\ IsSchedule(s)
  BY CutProperties DEF Schedules
<1>. HIDE DEF r, c, ev, md
<1>5. Len(e2) = c /\ \A j \in 1..c : e2[j] = ev[j]
  <2>1. 1 \in 1..(Len(ev) + 1) /\ c \in (1 - 1)..Len(ev)
    BY <1>1, <1>2
  <2>2. Len(e2) = c - 1 + 1 /\ \A i \in 1..(c - 1 + 1) : e2[i] = ev[1 + i - 1]
    BY <1>1, <2>1, SubSeqElements
  <2>3. c - 1 + 1 = c /\ \A i \in 1..c : 1 + i - 1 = i
    BY <1>2
  <2>. QED  BY <2>2, <2>3
<1>6. \A j \in 1..(c + 1) : m2[j] = md[j]
  <2>1. 1 \in 1..(Len(md) + 1) /\ c + 1 \in (1 - 1)..Len(md)
    BY <1>1, <1>2
  <2>. QED  BY <1>1, <1>2, <2>1
<1>. HIDE DEF e2, m2
<1>7. c \in Nat /\ c <= Len(ev) /\ c <= Len(e2) /\ ~ (c < Len(e2))
  BY <1>1, <1>2, <1>5
<1>8. c < Len(ev) => ev[c + 1] >= t
  <2>. SUFFICES ASSUME c < Len(ev)
                PROVE  ev[c + 1] >= t
    OBVIOUS
  <2>1. ev[c + 1] \in Int
    BY <1>1, <1>2
  <2>. QED  BY <1>2, <2>1
<1>9. s.eventTimes = ev /\ s.modeSequence = md
  BY DEF ev, md
<1>10. ModeAtTime(r, t) = ModeAtTime(s, t)
  BY <1>3, <1>4, <1>5, <1>6, <1>7, <1>8, <1>9, SamePrefix
<1>. QED  BY <1>10 DEF r

\* A stance from a time on changes nothing up to it.
LEMMA StandModes ==
  ASSUME NEW T, NEW s \in Schedules(T), NEW start \in Int,
         s.eventTimes # <<>> => Last(s.eventTimes) < start,
         NEW t \in Int, t <= start
  PROVE  ModeAtTime(StandFrom(s, start), t) = ModeAtTime(s, t)
<1>. DEFINE ev == s.eventTimes
            md == s.modeSequence
            c  == Len(ev)
            e2 == Append(ev, start)
            m2 == Append(md, STANCE)
            r  == StandFrom(s, start)
<1>1. ev \in Seq(Int) /\ md \in Seq(Modes) /\ Len(ev) \in Nat /\ Len(md) = Len(ev) + 1
  BY ScheduleParts
<1>3. r.eventTimes = e2 /\ r.modeSequence = m2
  <2>1. r = [s EXCEPT !.eventTimes = e2, !.modeSequence = m2]
    BY DEF StandFrom
  <2>. HIDE DEF r, e2, m2
  <2>. QED  BY <2>1, ScheduleParts
<1>4. IsSchedule(r) /\ IsSchedule(s)
  BY StandProperties DEF Schedules
<1>. HIDE DEF r, ev, md
<1>5. Len(e2) = c + 1 /\ e2[c + 1] = start /\ \A j \in 1..c : e2[j] = ev[j]
  BY <1>1
<1>6. \A j \in 1..(c + 1) : m2[j] = md[j]
  BY <1>1
<1>. HIDE DEF e2, m2
<1>7. c \in Nat /\ c <= Len(ev) /\ c <= Len(e2) /\ ~ (c < Len(ev))
  BY <1>1, <1>5
<1>8. c < Len(e2) => e2[c + 1] >= t
  BY <1>5
<1>. HIDE DEF c
<1>9. s.eventTimes = ev /\ s.modeSequence = md
  BY DEF ev, md
<1>10. ModeAtTime(r, t) = ModeAtTime(s, t)
  BY <1>3, <1>4, <1>5, <1>6, <1>7, <1>8, <1>9, SamePrefix
<1>. QED  BY <1>10 DEF r

\* Whole cycles of n modes.
LEMMA WholeCycles ==
  ASSUME NEW n \in Nat \ {0}, NEW q \in Nat
  PROVE  (q * n) \div n = q /\ (q * n) % n = 0
<1>. DEFINE k == q * n
            d == k \div n
            m == k % n
<1>1. k \in Nat
  OBVIOUS
<1>2. d \in Nat /\ m \in 0..(n - 1) /\ k = n * d + m
  BY <1>1, DivMod
<1>3. d = q
  BY <1>2
<1>4. m = 0
  BY <1>2, <1>3
<1>. QED  BY <1>3, <1>4

\* The cycles tiling appends reach the final time.
LEMMA TileReaches ==
  ASSUME NEW tpl, IsModeSequenceTemplate(tpl), NEW start \in Int, NEW final \in Int
  PROVE  LET last == TileTime(tpl, start, TileCount(tpl, start, final))
         IN  last \in Int /\ last >= start /\ last >= final
<1>. DEFINE n == Len(tpl.modeSequence)
            D == Duration(tpl)
            R == Repetitions(tpl, start, final)
            k == TileCount(tpl, start, final)
<1>1. n \in Nat \ {0} /\ D \in Nat \ {0} /\ tpl.switchingTimes[1] \in Int
  BY TemplateParts
<1>2. R \in Nat
  BY RepetitionsType
<1>3. Head(tpl.switchingTimes) = tpl.switchingTimes[1]
  BY DEF IsModeSequenceTemplate
<1>4. k = R * n
  BY DEF TileCount
<1>5. k \div n = R /\ k % n = 0
  BY <1>1, <1>2, <1>4, WholeCycles
<1>6. TileTime(tpl, start, k) = start + R * D
  <2>1. TileTime(tpl, start, k) =
          start + (k \div n) * D
                + (tpl.switchingTimes[(k % n) + 1] - Head(tpl.switchingTimes))
    BY DEF TileTime
  <2>. HIDE DEF k, n, D, R
  <2>2. R * D \in Nat
    BY <1>1, <1>2
  <2>. QED  BY <1>1, <1>3, <1>5, <2>1, <2>2
<1>7. R * D \in Nat
  BY <1>1, <1>2
<1>8. start < final => R * D >= final - start
  <2>. SUFFICES ASSUME start < final
                PROVE  R * D >= final - start
    OBVIOUS
  <2>1. R = ((final - start) + D - 1) \div D
    BY DEF Repetitions
  <2>. HIDE DEF D, R
  <2>2. (final - start) + D - 1 \in Nat
    BY <1>1
  <2>3. /\ ((final - start) + D - 1) % D \in 0..(D - 1)
        /\ (final - start) + D - 1 = D * R + (((final - start) + D - 1) % D)
    BY <1>1, <2>1, <2>2, DivMod
  <2>4. D * R = R * D
    BY <1>1, <1>2
  <2>. QED  BY <1>1, <1>7, <2>3, <2>4
<1>. HIDE DEF D, R, k
<1>. QED  BY <1>6, <1>7, <1>8 DEF k

\* The last event of a tiled schedule is past its start and its final time.
LEMMA TileLast ==
  ASSUME NEW T, NEW s \in Schedules(T), IsModeSequenceTemplate(s.template),
         NEW start \in Int, NEW final \in Int,
         s.eventTimes # <<>> => Last(s.eventTimes) < start
  PROVE  LET last == Last(Tile(s, start, final).eventTimes)
         IN  last \in Int /\ last >= start /\ last >= final
<1>. DEFINE r  == Tile(s, start, final)
            k  == TileCount(s.template, start, final)
            ev == s.eventTimes
            te == TileTimes(s.template, start, final)
            e2 == ev \o te
            tm == TileModes(s.template, start, final)
            m2 == Append(s.modeSequence \o tm, STANCE)
<1>1. ev \in Seq(Int) /\ Len(ev) \in Nat
  BY ScheduleParts
<1>2. r.eventTimes = e2
  <2>1. r = [s EXCEPT !.eventTimes = e2, !.modeSequence = m2]
    BY TileAppends
  <2>. HIDE DEF r, e2, m2
  <2>. QED  BY <2>1, ScheduleParts
<1>3. k \in Nat /\ te \in Seq(Int) /\ Len(te) = k + 1 /\ te[k + 1] = TileTime(s.template, start, k)
  BY TileParts
<1>4. te[k + 1] \in Int /\ te[k + 1] >= start /\ te[k + 1] >= final
  BY <1>3, TileReaches
<1>. HIDE DEF r, k, ev, te
<1>5. Len(e2) = Len(ev) + (k + 1) /\ e2[Len(ev) + (k + 1)] = te[k + 1]
  <2>1. /\ Len(e2) = Len(ev) + Len(te)
        /\ \A i \in 1..(Len(ev) + Len(te)) : e2[i] = IF i <= Len(ev) THEN ev[i] ELSE te[i - Len(ev)]
    BY <1>1, <1>3, ConcatElements
  <2>2. /\ Len(ev) + (k + 1) \in 1..(Len(ev) + Len(te)) /\ ~ (Len(ev) + (k + 1) <= Len(ev))
        /\ (Len(ev) + (k + 1)) - Len(ev) = k + 1
    BY <1>1, <1>3
  <2>. QED  BY <1>3, <2>1, <2>2
<1>. HIDE DEF e2
<1>6. Last(r.eventTimes) = te[k + 1]
  BY <1>2, <1>5 DEF Last
<1>. QED  BY <1>4, <1>6 DEF r

\* Fetching extends the schedule to upper, at least, and changes nothing between
\* lower and the last event.
LEMMA GetModeScheduleModes ==
  ASSUME NEW T, NEW s \in Schedules(T), NEW lower \in Int, NEW upper \in Int,
         IsModeSequenceTemplate(s.template), s.eventTimes # <<>>,
         Head(s.modeSequence) = STANCE
  PROVE  LET r == GetModeSchedule(s, lower, upper)
         IN  /\ Last(r.eventTimes) \in Int /\ Last(r.eventTimes) >= upper
             /\ \A t \in Int : lower <= t /\ t <= Last(s.eventTimes) =>
                  ModeAtTime(r, t) = ModeAtTime(s, t)
<1>. DEFINE kept == DropPast(s, lower)
            cut  == [kept EXCEPT !.eventTimes = Front(@), !.modeSequence = Front(@)]
            r    == GetModeSchedule(s, lower, upper)
            last == Last(kept.eventTimes)
<1>1. /\ kept \in Schedules(T) /\ kept.eventTimes # <<>>
      /\ kept.template = s.template
  BY DropPastProperties
<1>2. r = Tile(cut, last, upper)
  BY <1>1 DEF GetModeSchedule
<1>3. last = Last(s.eventTimes)
  <2>1. lower <= lower
    OBVIOUS
  <2>. QED  BY <2>1, DropPastModes
<1>. HIDE DEF kept, r, last
<1>4. /\ cut \in Schedules(T) /\ cut.template = s.template
      /\ cut.eventTimes # <<>> => Last(cut.eventTimes) < last
      /\ last \in Int
  BY <1>1, FrontProperties DEF last
<1>. HIDE DEF cut
<1>5. Last(r.eventTimes) \in Int /\ Last(r.eventTimes) >= upper
  BY <1>2, <1>4, TileLast
<1>6. ASSUME NEW t \in Int, lower <= t, t <= last
      PROVE  ModeAtTime(r, t) = ModeAtTime(s, t)
  <2>1. ModeAtTime(kept, t) = ModeAtTime(s, t)
    BY <1>6, DropPastModes DEF kept
  <2>2. ModeAtTime(cut, t) = ModeAtTime(kept, t)
    BY <1>1, <1>6, FrontModes DEF cut, last
  <2>3. ModeAtTime(r, t) = ModeAtTime(cut, t)
    BY <1>2, <1>4, <1>6, TileModesKept
  <2>. QED  BY <2>1, <2>2, <2>3
<1>. QED  BY <1>3, <1>5, <1>6 DEF r

\* A new gait changes nothing up to where it starts, and leaves events after that.
LEMMA InsertModes ==
  ASSUME NEW T, NEW s \in Schedules(T), NEW tpl \in T, IsModeSequenceTemplate(tpl),
         NEW start \in Int, NEW final \in Int
  PROVE  LET r == InsertModeSequenceTemplate(s, tpl, start, final)
         IN  /\ Last(r.eventTimes) \in Int /\ Last(r.eventTimes) >= start
             /\ \A t \in Int : t <= start => ModeAtTime(r, t) = ModeAtTime(s, t)
<1>. DEFINE kept       == CutAt(s, tpl, start)
            transition == IF Last(kept.modeSequence) = STANCE THEN 0
                          ELSE phaseTransitionStanceTime
            stand      == IF transition = 0 THEN kept ELSE StandFrom(kept, start)
            r          == InsertModeSequenceTemplate(s, tpl, start, final)
<1>1. /\ kept \in Schedules(T) /\ kept.template = tpl
      /\ kept.eventTimes # <<>> => Last(kept.eventTimes) < start
  BY CutProperties
<1>2. r = Tile(stand, start + transition, final)
  BY DEF InsertModeSequenceTemplate
<1>3. \A t \in Int : t <= start => ModeAtTime(kept, t) = ModeAtTime(s, t)
  BY CutModes
<1>. HIDE DEF kept, r
<1>4. transition \in Nat
  BY TransitionAssumption
<1>. HIDE DEF transition
<1>5. /\ stand \in Schedules(T) /\ stand.template = tpl
      /\ stand.eventTimes # <<>> => Last(stand.eventTimes) < start + transition
  <2>1. CASE transition = 0
    BY <1>1, <2>1
  <2>2. CASE transition # 0
    <3>1. stand = StandFrom(kept, start)
      BY <2>2
    <3>2. /\ stand \in Schedules(T) /\ stand.template = tpl
          /\ Last(stand.eventTimes) = start
      BY <1>1, <3>1, StandProperties
    <3>. QED  BY <1>4, <2>2, <3>2
  <2>. QED  BY <2>1, <2>2
<1>6. \A t \in Int : t <= start => ModeAtTime(stand, t) = ModeAtTime(kept, t)
  BY <1>1, StandModes
<1>. HIDE DEF stand
<1>7. start + transition \in Int /\ start <= start + transition
  BY <1>4
<1>8. Last(r.eventTimes) \in Int /\ Last(r.eventTimes) >= start + transition
  BY <1>2, <1>5, <1>7, TileLast
<1>9. ASSUME NEW t \in Int, t <= start
      PROVE  ModeAtTime(r, t) = ModeAtTime(stand, t)
  <2>1. t <= start + transition
    BY <1>4, <1>9
  <2>. QED  BY <1>2, <1>5, <1>7, <2>1, TileModesKept
<1>10. Last(r.eventTimes) >= start
  BY <1>7, <1>8
<1>. QED  BY <1>3, <1>6, <1>8, <1>9, <1>10 DEF r

---------------------------------------------------------------------------------
(***************************************************************************)
(* The past.  Forgetting leaves one event before the fetched interval, and *)
(* nothing that is done to the schedule afterwards adds another.           *)
(***************************************************************************)
OthersFrom(e, lower) == \A i \in 2..Len(e) : e[i] >= lower

\* getModeSchedule's erase.
LEMMA DropPastForgets ==
  ASSUME NEW T, NEW s \in Schedules(T), NEW lower \in Int
  PROVE  OthersFrom(DropPast(s, lower).eventTimes, lower)
<1>. DEFINE ev == s.eventTimes
            ix == LowerBound(ev, lower)
            e2 == SubSeq(ev, ix, Len(ev))
            m2 == <<STANCE>> \o SubSeq(s.modeSequence, ix + 1, Len(s.modeSequence))
            r  == DropPast(s, lower)
<1>1. ev \in Seq(Int) /\ Len(ev) \in Nat /\ Ordered(ev) /\ \A i \in 1..Len(ev) : ev[i] \in Int
  BY ScheduleParts
<1>2. ix \in 0..Len(ev) /\ (ix < Len(ev) => ev[ix + 1] >= lower)
  BY <1>1, LowerBoundProperties
<1>3. IF ix = 0 THEN r = s ELSE r = [s EXCEPT !.eventTimes = e2, !.modeSequence = m2]
  BY DEF DropPast
<1>4. r.eventTimes = IF ix = 0 THEN ev ELSE e2
  <2>1. CASE ix = 0
    BY <1>3, <2>1
  <2>2. CASE ix # 0
    <3>1. r = [s EXCEPT !.eventTimes = e2, !.modeSequence = m2]
      BY <1>3, <2>2
    <3>. HIDE DEF r, e2, m2
    <3>2. r.eventTimes = e2
      BY <3>1, ScheduleParts
    <3>. QED  BY <2>2, <3>2
  <2>. QED  BY <2>1, <2>2
<1>. HIDE DEF ix, r, ev
<1>5. ASSUME NEW i \in (ix + 1)..Len(ev)
      PROVE  ev[i] >= lower
  <2>1. ix + 1 \in 1..Len(ev) /\ i \in (ix + 1)..Len(ev) /\ i \in 1..Len(ev) /\ ix < Len(ev)
    BY <1>1, <1>2
  <2>2. ev[ix + 1] <= ev[i]
    BY <1>1, <2>1, LaterEvents
  <2>3. ev[ix + 1] >= lower /\ ev[ix + 1] \in Int /\ ev[i] \in Int
    BY <1>1, <1>2, <2>1
  <2>. QED  BY <2>2, <2>3
<1>6. OthersFrom(r.eventTimes, lower)
  <2>1. CASE ix = 0
    <3>1. \A i \in 2..Len(ev) : i \in (ix + 1)..Len(ev)
      BY <1>1, <2>1
    <3>. QED  BY <1>4, <1>5, <2>1, <3>1 DEF OthersFrom
  <2>2. CASE ix # 0
    <3>1. ix \in 1..(Len(ev) + 1) /\ Len(ev) \in (ix - 1)..Len(ev)
      BY <1>1, <1>2, <2>2
    <3>2. /\ Len(e2) = Len(ev) - ix + 1
          /\ \A i \in 1..(Len(ev) - ix + 1) : e2[i] = ev[ix + i - 1]
      BY <1>1, <3>1, SubSeqElements
    <3>. HIDE DEF e2
    <3>3. ASSUME NEW i \in 2..Len(e2)
          PROVE  e2[i] >= lower
      <4>1. i \in 1..(Len(ev) - ix + 1) /\ ix + i - 1 \in (ix + 1)..Len(ev)
        BY <1>1, <1>2, <3>2
      <4>. QED  BY <1>5, <3>2, <4>1
    <3>. QED  BY <1>4, <2>2, <3>3 DEF OthersFrom
  <2>. QED  BY <2>1, <2>2
<1>. QED  BY <1>6 DEF r

\* A part of the list that starts where it starts.
LEMMA PrefixForgets ==
  ASSUME NEW e \in Seq(Int), NEW lower \in Int, OthersFrom(e, lower),
         NEW d \in Seq(Int), Len(d) <= Len(e), \A i \in 1..Len(d) : d[i] = e[i]
  PROVE  OthersFrom(d, lower)
<1>1. Len(d) \in Nat /\ Len(e) \in Nat
  OBVIOUS
<1>2. ASSUME NEW i \in 2..Len(d)
      PROVE  d[i] >= lower
  <2>1. i \in 1..Len(d) /\ i \in 2..Len(e)
    BY <1>1
  <2>. QED  BY <2>1 DEF OthersFrom
<1>. QED  BY <1>2 DEF OthersFrom

\* Tiling from a time on adds events from that time on.
LEMMA TileForgets ==
  ASSUME NEW T, NEW s \in Schedules(T), IsModeSequenceTemplate(s.template),
         NEW start \in Int, NEW final \in Int, NEW lower \in Int, lower <= start,
         s.eventTimes # <<>> => Last(s.eventTimes) < start,
         OthersFrom(s.eventTimes, lower)
  PROVE  OthersFrom(Tile(s, start, final).eventTimes, lower)
<1>. DEFINE r  == Tile(s, start, final)
            k  == TileCount(s.template, start, final)
            ev == s.eventTimes
            te == TileTimes(s.template, start, final)
            e2 == ev \o te
            tm == TileModes(s.template, start, final)
            m2 == Append(s.modeSequence \o tm, STANCE)
<1>1. ev \in Seq(Int) /\ Len(ev) \in Nat
  BY ScheduleParts
<1>2. r.eventTimes = e2
  <2>1. r = [s EXCEPT !.eventTimes = e2, !.modeSequence = m2]
    BY TileAppends
  <2>. HIDE DEF r, e2, m2
  <2>. QED  BY <2>1, ScheduleParts
<1>3. k \in Nat /\ te \in Seq(Int) /\ Len(te) = k + 1 /\ te[1] = start /\ Ordered(te)
  BY TileParts
<1>. HIDE DEF r, k, te, ev
<1>4. ASSUME NEW i \in 1..Len(te)
      PROVE  te[i] >= lower
  <2>1. 1 \in 1..Len(te) /\ i \in 1..Len(te) /\ te[i] \in Int
    BY <1>3
  <2>2. te[1] <= te[i]
    BY <1>3, <2>1, LaterEvents
  <2>. QED  BY <1>3, <2>1, <2>2
<1>5. /\ Len(e2) = Len(ev) + Len(te)
      /\ \A i \in 1..(Len(ev) + Len(te)) : e2[i] = IF i <= Len(ev) THEN ev[i] ELSE te[i - Len(ev)]
  BY <1>1, <1>3, ConcatElements
<1>. HIDE DEF e2
<1>6. ASSUME NEW i \in 2..Len(e2)
      PROVE  e2[i] >= lower
  <2>0. i \in 1..(Len(ev) + Len(te)) /\ Len(te) \in Nat
    BY <1>1, <1>3, <1>5
  <2>1. CASE i <= Len(ev)
    <3>1. i \in 2..Len(ev)
      BY <1>1, <2>0, <2>1
    <3>2. ev[i] >= lower
      BY <3>1 DEF OthersFrom, ev
    <3>. QED  BY <1>5, <2>0, <2>1, <3>2
  <2>2. CASE ~ (i <= Len(ev))
    <3>1. i - Len(ev) \in 1..Len(te)
      BY <1>1, <2>0, <2>2
    <3>. QED  BY <1>4, <1>5, <2>0, <2>2, <3>1
  <2>. QED  BY <2>1, <2>2
<1>. QED  BY <1>2, <1>6 DEF OthersFrom, r

\* Fetching forgets, as long as the schedule reaches the fetched interval.
LEMMA GetModeScheduleForgets ==
  ASSUME NEW T, NEW s \in Schedules(T), NEW lower \in Int, NEW upper \in Int,
         IsModeSequenceTemplate(s.template), s.eventTimes # <<>>,
         Head(s.modeSequence) = STANCE, Last(s.eventTimes) >= lower
  PROVE  OthersFrom(GetModeSchedule(s, lower, upper).eventTimes, lower)
<1>. DEFINE kept == DropPast(s, lower)
            cut  == [kept EXCEPT !.eventTimes = Front(@), !.modeSequence = Front(@)]
            r    == GetModeSchedule(s, lower, upper)
            last == Last(kept.eventTimes)
<1>1. /\ kept \in Schedules(T) /\ kept.eventTimes # <<>>
      /\ kept.template = s.template
  BY DropPastProperties
<1>2. r = Tile(cut, last, upper)
  BY <1>1 DEF GetModeSchedule
<1>3. last = Last(s.eventTimes)
  <2>1. lower <= lower
    OBVIOUS
  <2>. QED  BY <2>1, DropPastModes
<1>4. OthersFrom(kept.eventTimes, lower)
  BY DropPastForgets
<1>. HIDE DEF kept, r, last
<1>5. /\ cut \in Schedules(T) /\ cut.template = s.template
      /\ cut.eventTimes # <<>> => Last(cut.eventTimes) < last
      /\ last \in Int
  BY <1>1, FrontProperties DEF last
<1>6. cut.eventTimes = SubSeq(kept.eventTimes, 1, Len(kept.eventTimes) - 1)
  BY <1>1, ScheduleParts DEF Front
<1>7. /\ kept.eventTimes \in Seq(Int) /\ cut.eventTimes \in Seq(Int)
      /\ Len(kept.eventTimes) \in Nat
  BY <1>1, <1>5, ScheduleParts
<1>. HIDE DEF cut
<1>8. OthersFrom(cut.eventTimes, lower)
  <2>. DEFINE e == kept.eventTimes
              d == cut.eventTimes
  <2>. HIDE DEF e, d
  <2>1. e \in Seq(Int) /\ e # <<>> /\ d = SubSeq(e, 1, Len(e) - 1) /\ Len(e) \in Nat
        /\ d \in Seq(Int) /\ OthersFrom(e, lower)
    BY <1>1, <1>4, <1>6, <1>7 DEF e, d
  <2>2. Len(d) = Len(e) - 1 /\ \A i \in 1..(Len(e) - 1) : d[i] = e[i]
    BY <2>1, FrontElements, Zenon
  <2>3. Len(d) <= Len(e) /\ \A i \in 1..Len(d) : d[i] = e[i]
    BY <2>1, <2>2
  <2>4. OthersFrom(d, lower)
    BY <2>1, <2>3, PrefixForgets
  <2>. QED  BY <2>4 DEF d
<1>9. OthersFrom(Tile(cut, last, upper).eventTimes, lower)
  BY <1>3, <1>5, <1>8, TileForgets
<1>. QED  BY <1>2, <1>9 DEF r

\* A new gait adds no past event.
LEMMA InsertForgets ==
  ASSUME NEW T, NEW s \in Schedules(T), NEW tpl \in T, IsModeSequenceTemplate(tpl),
         NEW start \in Int, NEW final \in Int, NEW lower \in Int, lower <= start,
         OthersFrom(s.eventTimes, lower)
  PROVE  OthersFrom(InsertModeSequenceTemplate(s, tpl, start, final).eventTimes, lower)
<1>. DEFINE kept       == CutAt(s, tpl, start)
            transition == IF Last(kept.modeSequence) = STANCE THEN 0
                          ELSE phaseTransitionStanceTime
            stand      == IF transition = 0 THEN kept ELSE StandFrom(kept, start)
            r          == InsertModeSequenceTemplate(s, tpl, start, final)
            ev         == s.eventTimes
            c          == LowerBound(ev, start)
            e2         == SubSeq(ev, 1, c)
            m2         == SubSeq(s.modeSequence, 1, c + 1)
<1>1. /\ kept \in Schedules(T) /\ kept.template = tpl
      /\ kept.eventTimes # <<>> => Last(kept.eventTimes) < start
  BY CutProperties
<1>2. r = Tile(stand, start + transition, final)
  BY DEF InsertModeSequenceTemplate
<1>3. ev \in Seq(Int) /\ Len(ev) \in Nat /\ c \in 0..Len(ev)
  BY ScheduleParts, LowerBoundProperties
<1>4. kept.eventTimes = e2
  <2>1. kept = [s EXCEPT !.template = tpl, !.eventTimes = e2, !.modeSequence = m2]
    BY DEF CutAt
  <2>. HIDE DEF kept, e2, m2
  <2>. QED  BY <2>1, ScheduleParts
<1>. HIDE DEF kept, r, ev, c
<1>5. e2 \in Seq(Int) /\ Len(e2) = c /\ \A j \in 1..c : e2[j] = ev[j]
  <2>1. 1 \in 1..(Len(ev) + 1) /\ c \in (1 - 1)..Len(ev)
    BY <1>3
  <2>2. /\ e2 \in Seq(Int) /\ Len(e2) = c - 1 + 1
        /\ \A i \in 1..(c - 1 + 1) : e2[i] = ev[1 + i - 1]
    BY <1>3, <2>1, SubSeqElements
  <2>3. c - 1 + 1 = c /\ \A i \in 1..c : 1 + i - 1 = i
    BY <1>3
  <2>. QED  BY <2>2, <2>3
<1>. HIDE DEF e2
<1>6. OthersFrom(kept.eventTimes, lower)
  <2>1. OthersFrom(ev, lower)
    BY DEF ev
  <2>2. Len(e2) <= Len(ev) /\ \A i \in 1..Len(e2) : e2[i] = ev[i]
    BY <1>3, <1>5
  <2>3. OthersFrom(e2, lower)
    BY <1>3, <1>5, <2>1, <2>2, PrefixForgets
  <2>. QED  BY <1>4, <2>3
<1>7. transition \in Nat
  BY TransitionAssumption
<1>. HIDE DEF transition
<1>8. /\ stand \in Schedules(T) /\ stand.template = tpl
      /\ stand.eventTimes # <<>> => Last(stand.eventTimes) < start + transition
      /\ OthersFrom(stand.eventTimes, lower)
  <2>1. CASE transition = 0
    BY <1>1, <1>6, <2>1
  <2>2. CASE transition # 0
    <3>1. stand = StandFrom(kept, start)
      BY <2>2
    <3>2. /\ stand \in Schedules(T) /\ stand.template = tpl
          /\ Last(stand.eventTimes) = start
      BY <1>1, <3>1, StandProperties
    <3>. DEFINE e == kept.eventTimes
                m == Append(kept.modeSequence, STANCE)
                d == Append(e, start)
    <3>3. StandFrom(kept, start).eventTimes = d
      <4>1. StandFrom(kept, start) = [kept EXCEPT !.eventTimes = d, !.modeSequence = m]
        BY DEF StandFrom
      <4>. HIDE DEF d, m
      <4>. QED  BY <1>1, <4>1, ScheduleParts
    <3>4. e \in Seq(Int) /\ Len(e) \in Nat
      BY <1>1, ScheduleParts
    <3>. HIDE DEF e
    <3>5. Len(d) = Len(e) + 1 /\ d[Len(e) + 1] = start /\ \A i \in 1..Len(e) : d[i] = e[i]
      BY <3>4
    <3>. HIDE DEF d
    <3>6. ASSUME NEW i \in 2..Len(d)
          PROVE  d[i] >= lower
      <4>1. i = Len(e) + 1 \/ (i \in 1..Len(e) /\ i \in 2..Len(e))
        BY <3>4, <3>5
      <4>2. CASE i = Len(e) + 1
        BY <3>5, <4>2
      <4>3. CASE i \in 1..Len(e) /\ i \in 2..Len(e)
        BY <1>6, <3>5, <4>3 DEF OthersFrom, e
      <4>. QED  BY <4>1, <4>2, <4>3
    <3>7. OthersFrom(stand.eventTimes, lower)
      BY <3>1, <3>3, <3>6 DEF OthersFrom
    <3>. QED  BY <1>7, <2>2, <3>2, <3>7
  <2>. QED  BY <2>1, <2>2
<1>. HIDE DEF stand
<1>9. start + transition \in Int /\ lower <= start + transition
  BY <1>7
<1>10. OthersFrom(Tile(stand, start + transition, final).eventTimes, lower)
  BY <1>8, <1>9, TileForgets
<1>. QED  BY <1>2, <1>10 DEF r
================================================================================
