---------------------------- MODULE JobTimeProofs ----------------------------
(***************************************************************************)
(* Proofs about the time that jobs use and the delays they get for it: the *)
(* microseconds of the HAL's timer, by which Job::exec measures, and the   *)
(* scaling of the delays by what was measured.  Neither module knows the   *)
(* other: a job's time is any of JobScaling's Shares.                      *)
(***************************************************************************)
EXTENDS JobScaling, MicroClock, FiniteSetTheorems, WellFoundedInduction, TLAPS

(***************************************************************************)
(* Arithmetic on its own                                                   *)
(***************************************************************************)
LEMMA TimesMonotone ==
  ASSUME NEW a \in Nat, NEW b \in Nat, NEW c \in Nat, b <= c
  PROVE  a * b <= a * c /\ a * b \in Nat
<1>1. PICK d \in Nat : c = b + d
  OBVIOUS
<1>2. a * c = a * b + a * d /\ a * d \in Nat /\ a * b \in Nat
  BY <1>1
<1> QED
  BY <1>2

LEMMA QuotientAtLeast ==
  ASSUME NEW x \in Nat, NEW y \in Nat, NEW d \in Nat \ {0}, y * d <= x
  PROVE  x \div d >= y
<1>1. x \div d \in Nat /\ x < d * (x \div d) + d
  OBVIOUS
<1>2. SUFFICES ASSUME x \div d < y PROVE FALSE
  BY <1>1
<1>3. d * ((x \div d) + 1) <= d * y
  BY <1>1, <1>2, TimesMonotone
<1>4. d * ((x \div d) + 1) = d * (x \div d) + d /\ d * y = y * d
  BY <1>1
<1> QED
  BY <1>1, <1>3, <1>4

LEMMA Product ==
  ASSUME NEW a \in Nat, NEW b \in Nat PROVE a * b \in Nat /\ a * b = b * a
OBVIOUS

LEMMA ProductPositive ==
  ASSUME NEW a \in Nat, NEW b \in Nat, a * b > 0 PROVE a > 0 /\ b > 0
OBVIOUS

LEMMA Division ==
  ASSUME NEW x \in Nat, NEW d \in Nat \ {0}
  PROVE  /\ x \div d \in Nat /\ x % d \in 0 .. d - 1
         /\ x = d * (x \div d) + (x % d)
OBVIOUS

LEMMA QuotientType ==
  ASSUME NEW x \in Nat, NEW d \in Nat \ {0}
  PROVE  x \div d \in Nat /\ x % d \in Nat
OBVIOUS

\* Quotient and remainder are unique.
LEMMA QuotientOf ==
  ASSUME NEW x \in Nat, NEW q \in Nat, NEW d \in Nat \ {0}, NEW r \in 0 .. d - 1, x = d * q + r
  PROVE  x \div d = q /\ x % d = r
<1> DEFINE y == x \div d
<1>1. /\ y \in Nat /\ x % d \in 0 .. d - 1
      /\ x = d * y + (x % d)
  BY Division
<1> HIDE DEF y
<1>2. d * q \in Nat /\ d * y \in Nat
  BY <1>1
<1>3. y <= q
  <2> SUFFICES ASSUME q + 1 <= y PROVE FALSE
    BY <1>1
  <2>1. d * (q + 1) <= d * y
    BY <1>1, TimesMonotone
  <2>2. d * (q + 1) = d * q + d
    OBVIOUS
  <2> QED
    BY <1>1, <1>2, <2>1, <2>2
<1>4. q <= y
  <2> SUFFICES ASSUME y + 1 <= q PROVE FALSE
    BY <1>1
  <2>1. d * (y + 1) <= d * q
    BY <1>1, TimesMonotone
  <2>2. d * (y + 1) = d * y + d
    BY <1>1
  <2> QED
    BY <1>1, <1>2, <2>1, <2>2
<1>5. y = q
  BY <1>1, <1>3, <1>4
<1> QED
  BY <1>1, <1>2, <1>5 DEF y

\* A number is its own remainder, unless it is too large.
LEMMA SmallRemainder ==
  ASSUME NEW d \in Nat \ {0}, NEW x \in 0 .. d - 1
  PROVE  x % d = x /\ x \div d = 0
<1>1. x = d * 0 + x
  OBVIOUS
<1> QED
  BY <1>1, QuotientOf

\* A set of numbers has a least one.
LEMMA LeastNumber ==
  ASSUME NEW S \in SUBSET Nat, S # {}
  PROVE  Min(S) \in S /\ \A n \in S : Min(S) <= n
<1>1. PICK e \in S : \A f \in S : <<f, e>> \notin OpToRel(<, Nat)
  BY WFMin, NatLessThanWellFounded
<1>2. ASSUME NEW n \in S PROVE e <= n
  <2>1. n \in Nat /\ e \in Nat
    OBVIOUS
  <2>2. ~(n < e)
    BY <1>1, <2>1 DEF OpToRel
  <2> QED
    BY <2>1, <2>2
<1> QED
  BY <1>2 DEF Min

\* A set of numbers with a bound has a greatest one.
LEMMA GreatestNumber ==
  ASSUME NEW n \in Nat, NEW S \in SUBSET (0 .. n), S # {}
  PROVE  Max(S) \in S /\ \A m \in S : Max(S) >= m
<1> DEFINE T == {n - m : m \in S}
<1>1. T \in SUBSET Nat /\ T # {}
  <2>1. \A m \in S : n - m \in Nat
    OBVIOUS
  <2> QED
    BY <2>1
<1>2. PICK t \in T : \A u \in T : t <= u
  BY <1>1, LeastNumber
<1>3. PICK e \in S : t = n - e
  BY <1>2
<1>4. \A m \in S : e >= m
  <2> SUFFICES ASSUME NEW m \in S PROVE e >= m
    OBVIOUS
  <2>1. n - e <= n - m
    BY <1>2, <1>3
  <2> QED
    BY <2>1
<1> QED
  BY <1>3, <1>4 DEF Max

-----------------------------------------------------------------------------
(***************************************************************************)
(* JobScaling: scales and delays                                           *)
(***************************************************************************)
\* What add_task leaves of a priority.
LEMMA PrioRange == \A j \in Jobs : Prio(j) \in 0..PRIO_MAX
BY ScalingAssumption DEF Prio, INTERNAL, PRIO_MAX

LEMMA CappedRange == \A x : Capped(x) \in 0..SCALE_MAX
BY ScalingAssumption DEF Capped

LEMMA NewScaleRange == \A j \in Jobs : NewScale(j) \in 0..SCALE_MAX
BY ScalingAssumption, CappedRange DEF NewScale

LEMMA NewJobsScaleRange ==
  ASSUME TypeOK
  PROVE  NewJobsScale \in 0..SCALE_MAX
<1>1. Smoothed(jobsScale) \in 0..SCALE_MAX
  BY ScalingAssumption DEF TypeOK, Smoothed
<1> QED
  BY <1>1, ScalingAssumption, CappedRange DEF NewJobsScale

\* A scaled delay is one, and is no shorter than the period for a priority of 100 and
\* more when its product fits the word.
LEMMA StretchedType ==
  ASSUME NEW j \in Jobs, NEW s \in Nat
  PROVE  Stretched(j, s) \in Nat
<1> DEFINE period == IF Period[j] = 0 THEN 1 ELSE Period[j]
<1>1. period \in Nat /\ Prio(j) \in Nat /\ FIX \in Nat
  BY ScalingAssumption, PrioRange DEF PRIO_MAX
<1>2. Prio(j) * FIX + s \in Nat
  BY <1>1
<1>3. period * (Prio(j) * FIX + s) \in Nat
  BY <1>1, <1>2
<1> QED
  BY <1>3 DEF Stretched

LEMMA ScaledType ==
  ASSUME NEW j \in Jobs, NEW s \in Nat
  PROVE  Scaled(j, s) \in Nat
<1>1. Stretched(j, s) % Word \in Nat
  BY StretchedType, ScalingAssumption, QuotientType
<1>2. (Stretched(j, s) % Word) \div LOAD_SCALE \in Nat
  BY <1>1, ScalingAssumption, QuotientType
<1> QED
  BY <1>2 DEF Scaled

\* A smaller scale makes a smaller product.
LEMMA StretchedMonotone ==
  ASSUME NEW j \in Jobs, NEW s \in Nat, NEW t \in Nat, s <= t
  PROVE  Stretched(j, s) <= Stretched(j, t)
<1> DEFINE period == IF Period[j] = 0 THEN 1 ELSE Period[j]
<1>1. period \in Nat /\ Prio(j) \in Nat /\ FIX \in Nat
  BY ScalingAssumption, PrioRange DEF PRIO_MAX
<1>2. Prio(j) * FIX + s \in Nat /\ Prio(j) * FIX + t \in Nat /\ Prio(j) * FIX + s <= Prio(j) * FIX + t
  BY <1>1
<1> HIDE DEF period
<1>3. period * (Prio(j) * FIX + s) <= period * (Prio(j) * FIX + t)
  BY <1>1, <1>2, TimesMonotone
<1> QED
  BY <1>3 DEF Stretched, period

\* A product that fits its word is divided as it is.
LEMMA ScaledUnwrapped ==
  ASSUME NEW j \in Jobs, NEW s \in Nat, Stretched(j, s) < Word
  PROVE  Scaled(j, s) = Stretched(j, s) \div LOAD_SCALE
<1>1. Stretched(j, s) \in 0 .. Word - 1
  BY StretchedType, ScalingAssumption
<1>2. Stretched(j, s) % Word = Stretched(j, s)
  BY <1>1, ScalingAssumption, SmallRemainder
<1> QED
  BY <1>2 DEF Scaled

LEMMA ScaledNotSooner ==
  ASSUME NEW j \in Jobs, NEW s \in Nat, Stretched(j, s) < Word, Prio(j) * FIX >= LOAD_SCALE
  PROVE  Scaled(j, s) >= Period[j]
<1> DEFINE period == IF Period[j] = 0 THEN 1 ELSE Period[j]
           factor == Prio(j) * FIX + s
<1>1. /\ period \in Nat /\ Period[j] \in Nat /\ Period[j] <= period
      /\ Prio(j) \in Nat /\ FIX \in Nat /\ LOAD_SCALE \in Nat \ {0}
  BY ScalingAssumption, PrioRange DEF PRIO_MAX
<1>2. factor \in Nat /\ LOAD_SCALE <= factor
  BY <1>1
<1> HIDE DEF period, factor
<1>3. period * LOAD_SCALE <= period * factor /\ period * factor \in Nat
  BY <1>1, <1>2, TimesMonotone
<1>4. (period * factor) \div LOAD_SCALE >= period
  BY <1>1, <1>3, QuotientAtLeast
<1>5. (period * factor) \div LOAD_SCALE \in Nat
  BY <1>1, <1>3, QuotientType
<1>6. Stretched(j, s) = period * factor
  BY DEF Stretched, period, factor
<1> QED
  BY <1>1, <1>4, <1>5, <1>6, ScaledUnwrapped
-----------------------------------------------------------------------------
(***************************************************************************)
(* The type invariant                                                      *)
(***************************************************************************)
LEMMA NewDelayType ==
  ASSUME TypeOK, NEW j \in Jobs
  PROVE  NewDelay(j) \in Nat
<1>1. NewScale(j) \in Nat /\ NewJobsScale \in Nat /\ NewJobsScale + NewScale(j) \in Nat
  BY NewScaleRange, NewJobsScaleRange, ScalingAssumption
<1>2. Scaled(j, NewScale(j)) \in Nat /\ Scaled(j, NewJobsScale + NewScale(j)) \in Nat
  BY <1>1, ScaledType
<1>3. Period[j] \in Nat
  BY ScalingAssumption
<1> QED
  BY <1>2, <1>3 DEF NewDelay

LEMMA TypeInit == Init => TypeOK
BY ScalingAssumption DEF Init, TypeOK

LEMMA TypeNext == TypeOK /\ [Next]_vars => TypeOK'
<1> SUFFICES ASSUME TypeOK, [Next]_vars PROVE TypeOK'
  OBVIOUS
<1>1. CASE Recompute
  <2>1. scale' \in [Jobs -> 0..SCALE_MAX]
    BY <1>1, NewScaleRange DEF Recompute
  <2>2. jobsScale' \in 0..SCALE_MAX
    BY <1>1, NewJobsScaleRange DEF Recompute
  <2>3. delay' \in [Jobs -> Nat]
    BY <1>1, NewDelayType DEF Recompute
  <2> QED
    BY <1>1, <2>1, <2>2, <2>3 DEF Recompute, TypeOK
<1>2. ASSUME NEW j \in Jobs, Measured(j) PROVE TypeOK'
  BY <1>2, ScalingAssumption DEF Measured, TypeOK
<1>3. ASSUME NEW j \in Jobs, Idles(j) PROVE TypeOK'
  <2>1. time[j] * 90 \in Nat
    BY DEF TypeOK
  <2>2. (time[j] * 90) % Word \in Nat
    BY <2>1, ScalingAssumption, QuotientType
  <2>3. ((time[j] * 90) % Word) \div 100 \in Nat
    BY <2>2, QuotientType
  <2> QED
    BY <1>3, <2>3 DEF Idles, TypeOK
<1>4. CASE UNCHANGED vars
  BY <1>4 DEF vars, TypeOK
<1> QED
  BY <1>1, <1>2, <1>3, <1>4 DEF Next

\* Loads, scales and delays keep their types whatever the jobs use.
THEOREM ScalingTypeOK == Spec => []TypeOK
<1>1. Init => TypeOK
  BY TypeInit
<1>2. TypeOK /\ [Next]_vars => TypeOK'
  BY TypeNext
<1> QED
  BY <1>1, <1>2, PTL DEF Spec
-----------------------------------------------------------------------------
(***************************************************************************)
(* No job of the default priority or more is launched sooner               *)
(***************************************************************************)
LEMMA NewDelayNotSooner ==
  ASSUME TypeOK, NEW j \in Jobs, Prio(j) * FIX >= LOAD_SCALE,
         Stretched(j, NewJobsScale + NewScale(j)) < Word
  PROVE  NewDelay(j) >= Period[j]
<1>1. Period[j] \in Nat /\ Word \in Nat
  BY ScalingAssumption
<1>2. /\ NewScale(j) \in Nat /\ NewJobsScale + NewScale(j) \in Nat
      /\ NewScale(j) <= NewJobsScale + NewScale(j)
  BY NewScaleRange, NewJobsScaleRange, ScalingAssumption
<1>3. /\ Stretched(j, NewScale(j)) \in Nat /\ Stretched(j, NewJobsScale + NewScale(j)) \in Nat
      /\ Stretched(j, NewScale(j)) <= Stretched(j, NewJobsScale + NewScale(j))
  BY <1>2, StretchedType, StretchedMonotone
<1>4. Stretched(j, NewScale(j)) < Word
  BY <1>1, <1>3
<1>5. Scaled(j, NewScale(j)) >= Period[j]
  BY <1>2, <1>4, ScaledNotSooner
<1>6. Scaled(j, NewJobsScale + NewScale(j)) >= Period[j]
  BY <1>2, ScaledNotSooner
<1> QED
  BY <1>1, <1>5, <1>6 DEF NewDelay

\* recompute_scaling never makes a delay of a job of priority 100 or more shorter than
\* the one that the job was registered with, unless the product of period and scales
\* leaves its word - for every table of jobs, every period and every load.
THEOREM ScalingNeverSooner == Spec => []NeverSooner
<1>1. Init => NeverSooner
  BY ScalingAssumption DEF Init, NeverSooner
<1>2. TypeOK /\ NeverSooner /\ [Next]_vars => NeverSooner'
  <2> SUFFICES ASSUME TypeOK, NeverSooner, [Next]_vars PROVE NeverSooner'
    OBVIOUS
  <2>1. CASE Recompute
    <3> SUFFICES ASSUME NEW j \in Jobs, Prio(j) * FIX >= LOAD_SCALE,
                        Stretched(j, scale'[j] + jobsScale') < Word
                 PROVE  delay'[j] >= Period[j]
      BY DEF NeverSooner, Fits, Stretched, Prio
    <3>1. delay'[j] = NewDelay(j) /\ scale'[j] = NewScale(j) /\ jobsScale' = NewJobsScale
      BY <2>1 DEF Recompute
    <3>2. NewScale(j) + NewJobsScale = NewJobsScale + NewScale(j)
      BY NewScaleRange, NewJobsScaleRange, ScalingAssumption
    <3> QED
      BY <3>1, <3>2, NewDelayNotSooner
  <2>2. CASE UNCHANGED <<delay, scale, jobsScale>>
    BY <2>2 DEF NeverSooner, Fits, Stretched, Prio
  <2> QED
    BY <2>1, <2>2 DEF Next, Measured, Idles, vars
<1> QED
  BY <1>1, <1>2, ScalingTypeOK, PTL DEF Spec
-----------------------------------------------------------------------------
(***************************************************************************)
(* The sum of the loads                                                    *)
(***************************************************************************)
\* One round of the loop that sums the loads of the jobs in s
AddLoad(sum, s) == LET j == CHOOSE j \in s : TRUE IN Load(j) + sum[s \ {j}]

Sums(sum, n) ==
  /\ sum \in [SUBSET Jobs -> Nat]
  /\ \A s \in SUBSET Jobs : Cardinality(s) <= n => sum[s] = IF s = {} THEN 0 ELSE AddLoad(sum, s)

LEMMA LoadType == TypeOK => \A j \in Jobs : Load(j) \in Nat
<1> SUFFICES ASSUME TypeOK, NEW j \in Jobs PROVE Load(j) \in Nat
  OBVIOUS
<1>1. time[j] \in Nat /\ LOAD_SCALE \in Nat /\ SECOND \in Nat \ {0}
  BY ScalingAssumption DEF TypeOK
<1>2. time[j] * LOAD_SCALE \in Nat
  BY <1>1
<1> QED
  BY <1>1, <1>2, Division DEF Load

\* A subset of the jobs loses one when one is taken out.
LEMMA TakeOne ==
  ASSUME NEW s \in SUBSET Jobs, s # {}
  PROVE  LET j == CHOOSE j \in s : TRUE IN
         /\ j \in s /\ s \ {j} \in SUBSET Jobs
         /\ Cardinality(s) \in Nat /\ Cardinality(s) > 0 /\ Cardinality(s \ {j}) = Cardinality(s) - 1
<1> DEFINE j == CHOOSE j \in s : TRUE
<1>1. j \in s
  OBVIOUS
<1>2. IsFiniteSet(s)
  BY ScalingAssumption, FS_Subset
<1>3. Cardinality(s) \in Nat /\ Cardinality(s \ {j}) = Cardinality(s) - 1 /\ Cardinality(s \ {j}) \in Nat
  BY <1>1, <1>2, FS_RemoveElement, FS_CardinalityType, FS_Subset
<1> QED
  BY <1>1, <1>3

\* For every number of jobs there is a function that sums up to so many.
LEMMA SumsExist ==
  ASSUME TypeOK, NEW n \in Nat
  PROVE  \E sum : Sums(sum, n)
<1> DEFINE Bad == {m \in Nat : ~\E sum : Sums(sum, m)}
<1>1. SUFFICES ASSUME Bad # {} PROVE FALSE
  OBVIOUS
<1>2. PICK m \in Bad : \A k \in Bad : m <= k
  BY <1>1, LeastNumber
<1>3. PICK sum : /\ sum \in [SUBSET Jobs -> Nat]
                 /\ \A s \in SUBSET Jobs :
                      Cardinality(s) < m => sum[s] = IF s = {} THEN 0 ELSE AddLoad(sum, s)
  <2>1. CASE m = 0
    <3>1. \A s \in SUBSET Jobs : ~(Cardinality(s) < 0)
      BY ScalingAssumption, FS_Subset, FS_CardinalityType
    <3>2. [s \in SUBSET Jobs |-> 0] \in [SUBSET Jobs -> Nat]
      OBVIOUS
    <3> QED
      BY <2>1, <3>1, <3>2
  <2>2. CASE m # 0
    <3>1. m - 1 \in Nat /\ m - 1 \notin Bad
      BY <1>2, <2>2
    <3>2. PICK sum : Sums(sum, m - 1)
      BY <3>1
    <3>3. \A s \in SUBSET Jobs : Cardinality(s) < m => Cardinality(s) <= m - 1
      BY <1>2, ScalingAssumption, FS_Subset, FS_CardinalityType
    <3> QED
      BY <3>2, <3>3 DEF Sums
  <2> QED
    BY <2>1, <2>2
<1> DEFINE next == [s \in SUBSET Jobs |-> IF s = {} THEN 0 ELSE IF Cardinality(s) <= m THEN AddLoad(sum, s) ELSE 0]
<1>4. ASSUME NEW s \in SUBSET Jobs, s # {} PROVE AddLoad(sum, s) \in Nat
  <2> DEFINE j == CHOOSE j \in s : TRUE
  <2>1. j \in Jobs /\ s \ {j} \in SUBSET Jobs
    BY <1>4, TakeOne
  <2>2. Load(j) \in Nat /\ sum[s \ {j}] \in Nat
    BY <1>3, <2>1, LoadType
  <2> QED
    BY <2>2 DEF AddLoad
<1>5. next \in [SUBSET Jobs -> Nat]
  BY <1>4
<1>6. ASSUME NEW s \in SUBSET Jobs, Cardinality(s) <= m
      PROVE  next[s] = IF s = {} THEN 0 ELSE AddLoad(next, s)
  <2> SUFFICES ASSUME s # {} PROVE next[s] = AddLoad(next, s)
    OBVIOUS
  <2> DEFINE j == CHOOSE j \in s : TRUE
             t == s \ {j}
  <2>1. t \in SUBSET Jobs /\ Cardinality(t) < m /\ Cardinality(t) <= m
    BY <1>2, <1>6, TakeOne
  <2>2. next[t] = sum[t]
    BY <1>3, <2>1
  <2>3. AddLoad(next, s) = AddLoad(sum, s)
    BY <2>2 DEF AddLoad
  <2> QED
    BY <1>6, <2>3
<1> HIDE DEF next
<1>7. Sums(next, m)
  BY <1>5, <1>6 DEF Sums
<1> QED
  BY <1>2, <1>7

\* recompute_scaling's sum of the loads is a number.
LEMMA TotalLoadType == TypeOK => TotalLoad \in Nat
<1> SUFFICES ASSUME TypeOK PROVE TotalLoad \in Nat
  OBVIOUS
<1> DEFINE Is(sum) == sum = [s \in SUBSET Jobs |-> IF s = {} THEN 0 ELSE AddLoad(sum, s)]
           loop == CHOOSE sum : Is(sum)
<1>1. Cardinality(Jobs) \in Nat
  BY ScalingAssumption, FS_CardinalityType
<1>2. PICK sum : Sums(sum, Cardinality(Jobs))
  BY <1>1, SumsExist
<1>3. \A s \in SUBSET Jobs : Cardinality(s) <= Cardinality(Jobs)
  BY ScalingAssumption, FS_Subset
<1>4. Is(sum)
  BY <1>2, <1>3 DEF Sums
<1>5. Is(loop)
  BY <1>4
<1>6. TotalLoad = loop[Jobs]
  BY DEF TotalLoad, MapThenSumSet, MapThenFoldSet, AddLoad
<1> HIDE DEF loop
<1> DEFINE Bad == {n \in Nat : \E s \in SUBSET Jobs : Cardinality(s) = n /\ loop[s] \notin Nat}
<1>7. Bad = {}
  <2> SUFFICES ASSUME Bad # {} PROVE FALSE
    OBVIOUS
  <2>1. PICK n \in Bad : \A m \in Bad : n <= m
    BY LeastNumber
  <2>2. PICK s \in SUBSET Jobs : Cardinality(s) = n /\ loop[s] \notin Nat
    BY <2>1
  <2>3. loop[s] = IF s = {} THEN 0 ELSE AddLoad(loop, s)
    BY <1>5
  <2>4. s # {}
    BY <2>2, <2>3
  <2> DEFINE j == CHOOSE j \in s : TRUE
             t == s \ {j}
  <2>5. j \in Jobs /\ t \in SUBSET Jobs /\ Cardinality(t) \in Nat /\ Cardinality(t) < n
    BY <2>1, <2>2, <2>4, TakeOne
  <2>6. loop[t] \in Nat
    BY <2>1, <2>5
  <2>7. AddLoad(loop, s) \in Nat
    BY <2>5, <2>6, LoadType DEF AddLoad
  <2> QED
    BY <2>2, <2>3, <2>4, <2>7
<1>8. loop[Jobs] \in Nat
  BY <1>1, <1>7
<1> QED
  BY <1>6, <1>8
-----------------------------------------------------------------------------
(***************************************************************************)
(* An overload slows every job                                             *)
(***************************************************************************)
\* Above the limit the scale of all jobs is 100 % or more.
LEMMA OverloadScale ==
  ASSUME TypeOK, Overloaded, TotalFits
  PROVE  NewJobsScale >= LOAD_SCALE /\ NewJobsScale > 0
<1> DEFINE T == TotalLoad
<1>1. /\ T \in Nat /\ T > TARGET /\ TARGET \in Nat \ {0} /\ LOAD_SCALE \in Nat \ {0} /\ Word \in Nat \ {0}
      /\ SCALE_MAX \in Nat /\ SCALE_MAX >= LOAD_SCALE
  BY TotalLoadType, ScalingAssumption DEF Overloaded
<1>2. PICK q : q = (T * (LOAD_SCALE + (T - TARGET))) \div TARGET
  OBVIOUS
<1>3. q < Word
  BY <1>2 DEF TotalFits, Quotient, T
<1> HIDE DEF T
<1>4. q \in Nat /\ q >= LOAD_SCALE
  <2>1. PICK x \in Nat : x = T * (LOAD_SCALE + (T - TARGET))
    BY <1>1
  <2>2. LOAD_SCALE * TARGET <= x
    <3>1. LOAD_SCALE * TARGET <= LOAD_SCALE * T
      BY <1>1, TimesMonotone
    <3>2. T * LOAD_SCALE <= T * (LOAD_SCALE + (T - TARGET)) /\ T * LOAD_SCALE = LOAD_SCALE * T
      BY <1>1, TimesMonotone, Product
    <3> QED
      BY <1>1, <2>1, <3>1, <3>2
  <2>3. x \div TARGET >= LOAD_SCALE /\ x \div TARGET \in Nat
    BY <1>1, <2>2, QuotientAtLeast, QuotientType
  <2> QED
    BY <1>2, <2>1, <2>3
<1>5. q % Word = q
  BY <1>1, <1>3, <1>4, SmallRemainder
<1>6. NewJobsScale = Capped(q)
  BY <1>2, <1>5 DEF NewJobsScale, Excess, Quotient, Overloaded, T
<1> QED
  BY <1>1, <1>4, <1>6 DEF Capped

\* With the scale of an overload a period of 2 ms or more is exceeded, for a priority of
\* 50 or more, and add_task leaves no lower one to an application.
LEMMA OverloadDelay ==
  ASSUME NEW j \in Jobs, Period[j] > 1, 2 * (Prio(j) * FIX) >= LOAD_SCALE,
         NEW s \in Nat, s >= LOAD_SCALE, Stretched(j, s) < Word
  PROVE  Scaled(j, s) > Period[j]
<1> DEFINE period == Period[j]
           factor == Prio(j) * FIX + s
<1>1. /\ period \in Nat /\ period > 1 /\ Prio(j) \in Nat /\ FIX \in Nat
      /\ LOAD_SCALE \in Nat \ {0}
  BY ScalingAssumption, PrioRange DEF PRIO_MAX
<1>2. factor \in Nat /\ 2 * factor >= 3 * LOAD_SCALE
  BY <1>1
<1>3. Stretched(j, s) = period * factor
  BY <1>1 DEF Stretched
<1> HIDE DEF period, factor
<1>4. PICK x \in Nat : x = period * factor
  BY <1>1, <1>2
<1>5. Scaled(j, s) = x \div LOAD_SCALE
  BY <1>3, <1>4, ScaledUnwrapped
<1>6. (period + 1) * LOAD_SCALE <= x
  <2>1. period * (3 * LOAD_SCALE) <= period * (2 * factor)
    BY <1>1, <1>2, TimesMonotone
  <2>2. period * (3 * LOAD_SCALE) = 2 * (period * LOAD_SCALE) + period * LOAD_SCALE /\ period * (2 * factor) = 2 * x
    BY <1>1, <1>2, <1>4
  <2>3. LOAD_SCALE * 2 <= LOAD_SCALE * period /\ LOAD_SCALE * period = period * LOAD_SCALE
    BY <1>1, TimesMonotone
  <2>4. (period + 1) * LOAD_SCALE = period * LOAD_SCALE + LOAD_SCALE /\ period * LOAD_SCALE \in Nat
    BY <1>1
  <2> QED
    BY <1>1, <2>1, <2>2, <2>3, <2>4
<1>7. x \div LOAD_SCALE >= period + 1 /\ x \div LOAD_SCALE \in Nat
  <2>1. PICK y \in Nat : y = period + 1
    BY <1>1
  <2>2. y * LOAD_SCALE <= x
    BY <1>6, <2>1
  <2>3. x \div LOAD_SCALE >= y
    BY <1>1, <2>2, QuotientAtLeast
  <2> QED
    BY <1>1, <2>1, <2>3, QuotientType
<1> QED
  BY <1>1, <1>5, <1>7 DEF period

\* add_task leaves no job a priority below 50, unless the system registers it with one.
LEMMA PrioAtLeast ==
  ASSUME NEW j \in Jobs
  PROVE  2 * (Prio(j) * FIX) >= LOAD_SCALE
<1>1. Prio(j) \in Nat /\ Prio(j) >= 50
  BY ScalingAssumption DEF Prio, INTERNAL, PRIO_MAX
<1>2. FIX \in Nat /\ LOAD_SCALE = 100 * FIX
  BY ScalingAssumption
<1>3. FIX * 50 <= FIX * Prio(j) /\ FIX * Prio(j) = Prio(j) * FIX
  BY <1>1, <1>2, TimesMonotone
<1>4. FIX * 50 = 50 * FIX
  BY <1>2
<1> QED
  BY <1>1, <1>2, <1>3, <1>4

\* An overload makes recompute_scaling slow every job that may be slowed and whose product
\* fits its word, whatever the jobs' number, periods, priorities and own loads
\* (g_proc.cpp:469-486).
THEOREM ScalingOverloadSlows == Spec => OverloadSlows
<1>1. ASSUME TypeOK, TotalFits, Recompute, Overloaded, NEW j \in Jobs \ Realtime, Period[j] > 1,
             Stretched(j, scale'[j] + jobsScale') < Word
      PROVE  delay'[j] > Period[j]
  <2>1. delay'[j] = Scaled(j, NewJobsScale + NewScale(j))
    BY <1>1, OverloadScale DEF Recompute, NewDelay
  <2>2. /\ NewJobsScale + NewScale(j) \in Nat /\ NewJobsScale + NewScale(j) >= LOAD_SCALE
        /\ NewScale(j) + NewJobsScale = NewJobsScale + NewScale(j)
    BY <1>1, OverloadScale, NewScaleRange, NewJobsScaleRange, ScalingAssumption
  <2>3. scale'[j] = NewScale(j) /\ jobsScale' = NewJobsScale
    BY <1>1 DEF Recompute
  <2>4. Stretched(j, NewJobsScale + NewScale(j)) < Word
    BY <1>1, <2>2, <2>3
  <2> QED
    BY <1>1, <2>1, <2>2, <2>4, OverloadDelay, PrioAtLeast
<1>2. TypeOK =>
        (Recompute /\ Overloaded /\ TotalFits =>
           \A j \in Jobs \ Realtime : Period[j] > 1 /\ Fits(j)' => delay'[j] > Period[j])
  BY <1>1 DEF Fits, Stretched, Prio
<1> QED
  BY <1>2, ScalingTypeOK, PTL DEF OverloadSlows
-----------------------------------------------------------------------------
(***************************************************************************)
(* MicroClock: prescaler and period                                        *)
(***************************************************************************)
LEMMA FirstCountType ==
  ASSUME NEW f \in Freqs
  PROVE  FirstCount(f) \in 1 .. Milli /\ f % FirstCount(f) = 0
<1> DEFINE S == {c \in 1 .. Milli : f % c = 0}
<1>1. f \in Nat /\ Milli \in Nat /\ Milli >= 1
  BY MicroAssumption
<1>2. f % 1 = 0
  BY <1>1
<1>3. S \in SUBSET (0 .. Milli) /\ 1 \in S
  BY <1>1, <1>2
<1>4. Max(S) \in S
  BY <1>1, <1>3, GreatestNumber
<1> QED
  BY <1>4 DEF FirstCount

\* Above 65.536 MHz prescaler and period last a millisecond together.
LEMMA Factors ==
  ASSUME NEW f \in Freqs
  PROVE  /\ Presc(f) \in Nat /\ Count(f) \in 0 .. Width
         /\ Presc(f) # 0 => Count(f) >= 1
         /\ ~Short(f) => PerMilli(f) \in Nat \ {0}
         /\ ~Short(f) /\ Presc(f) # 0 =>
              /\ PerMilli(f) = Presc(f) * Count(f)
              /\ Presc(f) \in Prescalers(f)
              /\ \A p \in Prescalers(f) : Presc(f) <= p
<1>1. f \in Nat \ {0} /\ Milli \in Nat \ {0} /\ Width \in Nat \ {0} /\ Milli <= Width
  BY MicroAssumption
<1>2. FirstCount(f) \in 1 .. Milli /\ f % FirstCount(f) = 0
  BY FirstCountType
<1>3. f \div FirstCount(f) \in Nat
  <2>1. FirstCount(f) \in Nat \ {0}
    BY <1>1, <1>2
  <2> QED
    BY <1>1, <2>1, Division
<1>4. PerMilli(f) \in Nat
  BY <1>1, Division DEF PerMilli
<1>5. CASE Short(f)
  <2>1. Presc(f) = f \div FirstCount(f) /\ Count(f) = FirstCount(f)
    BY <1>5 DEF Presc, Count
  <2> QED
    BY <1>1, <1>2, <1>3, <1>5, <2>1
<1>6. CASE ~Short(f)
  <2>1. PerMilli(f) # 0
    <3> SUFFICES ASSUME PerMilli(f) = 0 PROVE FALSE
      OBVIOUS
    <3>1. f < Milli
      BY <1>1, Division DEF PerMilli
    <3>2. f % f = 0 /\ f \div f = 1
      <4>1. f = f * 1 + 0 /\ 0 \in 0 .. f - 1
        BY <1>1
      <4> QED
        BY <1>1, <4>1, QuotientOf
    <3>3. f \in {c \in 1 .. Milli : f % c = 0}
      BY <1>1, <3>1, <3>2
    <3>4. {c \in 1 .. Milli : f % c = 0} \in SUBSET (0 .. Milli)
      BY <1>1
    <3>5. FirstCount(f) >= f
      BY <1>1, <3>3, <3>4, GreatestNumber DEF FirstCount
    <3>6. FirstCount(f) = f
      <4> SUFFICES ASSUME FirstCount(f) > f PROVE FALSE
        BY <1>1, <1>2, <3>5
      <4>1. f \in 0 .. FirstCount(f) - 1 /\ FirstCount(f) \in Nat \ {0}
        BY <1>1, <1>2
      <4>2. f % FirstCount(f) = f
        BY <4>1, SmallRemainder
      <4> QED
        BY <1>1, <1>2, <4>2
    <3>7. f \div FirstCount(f) - 1 < Width
      BY <1>1, <3>2, <3>6
    <3> QED
      BY <1>6, <3>7 DEF Short
  <2>2. CASE Prescalers(f) = {}
    BY <1>1, <1>4, <1>6, <2>1, <2>2 DEF Presc, Count
  <2>3. CASE Prescalers(f) # {}
    <3>1. Prescalers(f) \in SUBSET Nat
      BY <1>1 DEF Prescalers
    <3>2. Presc(f) = Min(Prescalers(f)) /\ Count(f) = PerMilli(f) \div Presc(f)
      BY <1>6, <2>3 DEF Presc, Count
    <3>3. Presc(f) \in Prescalers(f) /\ \A p \in Prescalers(f) : Presc(f) <= p
      BY <2>3, <3>1, <3>2, LeastNumber
    <3>4. /\ Presc(f) \in 1 .. Width /\ PerMilli(f) % Presc(f) = 0
          /\ PerMilli(f) \div Presc(f) <= Width
      BY <3>3 DEF Prescalers
    <3>5. /\ PerMilli(f) \div Presc(f) \in Nat
          /\ PerMilli(f) = Presc(f) * (PerMilli(f) \div Presc(f)) + (PerMilli(f) % Presc(f))
      <4>1. Presc(f) \in Nat \ {0}
        BY <1>1, <3>4
      <4> QED
        BY <1>4, <4>1, Division
    <3>6. PerMilli(f) = Presc(f) * Count(f) /\ Count(f) \in Nat
      BY <1>1, <1>4, <3>2, <3>4, <3>5, Product
    <3>7. Count(f) >= 1
      BY <1>1, <1>4, <2>1, <3>4, <3>6, ProductPositive
    <3> QED
      BY <1>1, <1>4, <1>6, <2>1, <3>2, <3>3, <3>4, <3>6, <3>7
  <2> QED
    BY <2>2, <2>3
<1> QED
  BY <1>5, <1>6


\* What ReadingAssumption asks of the constants holds of the code's, 1000 = 20 * 50
\* and 65536, for a bus whose frequency is a multiple of a kilohertz: no period
\* is as long as a short one, and 256 steps or more leave time for the reading.
LEMMA CodeFactors ==
  ASSUME NEW d \in Nat, NEW e \in Nat, Milli = d * e, Milli * d <= Width, Milli * e <= Width,
         NEW f \in Freqs, f % Milli = 0, ~Short(f), Presc(f) # 0
  PROVE  Count(f) * Count(f) > Width /\ Count(f) # Milli
<1> DEFINE p == Presc(f)
           c == Count(f)
           t == PerMilli(f)
<1>1. /\ f \in Nat \ {0} /\ Milli \in Nat \ {0} /\ Width \in Nat \ {0} /\ t \in Nat
      /\ p \in Nat \ {0} /\ c \in Nat \ {0} /\ c <= Width
      /\ t = p * c
  BY Factors, MicroAssumption
<1>2. \A q \in 1 .. Width : t % q = 0 /\ t \div q <= Width => p <= q
  BY Factors DEF Prescalers
<1>3. p \in 1 .. Width
  BY Factors DEF Prescalers
<1>4. t > Width
  <2>1. FirstCount(f) = Milli
    <3>1. /\ {n \in 1 .. Milli : f % n = 0} \in SUBSET (0 .. Milli)
          /\ Milli \in {n \in 1 .. Milli : f % n = 0}
      BY <1>1
    <3>2. FirstCount(f) >= Milli
      BY <1>1, <3>1, GreatestNumber DEF FirstCount
    <3> QED
      BY <1>1, <3>2, FirstCountType
  <2>2. t - 1 >= Width
    BY <1>1, <2>1 DEF Short, PerMilli
  <2> QED
    BY <1>1, <2>2
<1> HIDE DEF p, c, t
<1>5. p <= c
  <2> SUFFICES ASSUME c < p PROVE FALSE
    BY <1>1
  <2>1. t = c * p + 0 /\ 0 \in 0 .. c - 1
    BY <1>1, Product
  <2>2. t \div c = p /\ t % c = 0
    BY <1>1, <2>1, QuotientOf
  <2>3. c \in 1 .. Width /\ t % c = 0 /\ t \div c <= Width
    BY <1>1, <1>3, <2>2
  <2>4. p <= c
    BY <1>2, <2>3
  <2> QED
    BY <1>1, <2>4
<1>6. c * c > Width
  <2>1. c * p <= c * c /\ c * p = p * c /\ c * c \in Nat
    BY <1>1, <1>5, TimesMonotone, Product
  <2> QED
    BY <1>1, <1>4, <2>1
<1>7. c # Milli
  <2> SUFFICES ASSUME c = Milli PROVE FALSE
    OBVIOUS
  <2>1. d > 0 /\ e > 0
    BY <1>1, ProductPositive
  <2>2. t = d * (e * p) + 0 /\ e * p \in Nat
    <3>1. p * (d * e) = d * (e * p)
      BY <1>1
    <3> QED
      BY <1>1, <3>1
  <2>3. t \div d = e * p /\ t % d = 0
    BY <1>1, <2>1, <2>2, QuotientOf
  <2>4. e * p <= Width
    <3>1. e * p <= e * Milli /\ e * Milli = Milli * e
      BY <1>1, <1>5, TimesMonotone, Product
    <3> QED
      BY <1>1, <2>2, <3>1
  <2>5. d \in 1 .. Width
    <3>1. d * 1 <= d * Milli /\ d * Milli = Milli * d /\ d * Milli \in Nat
      BY <1>1, TimesMonotone, Product
    <3> QED
      BY <1>1, <2>1, <3>1
  <2>6. p <= d
    BY <1>2, <2>3, <2>4, <2>5
  <2>7. Milli * p <= Milli * d /\ Milli * p = p * c
    BY <1>1, <2>6, TimesMonotone, Product
  <2> QED
    BY <1>1, <1>4, <2>7
<1> QED
  BY <1>6, <1>7 DEF c

-----------------------------------------------------------------------------
(***************************************************************************)
(* The inductive invariant of the microsecond clock                        *)
(***************************************************************************)
\* The milliseconds when an interrupt is pending or not
Later(m, pending) == IF pending THEN (m + 1) % Wrap ELSE m

\* The counter and sys_time_ms tell the true time at every step.
TimeKept ==
  /\ now = Later(ms, uif) * (Arr + 1) + cnt
  /\ uif => cnt = 0 \/ cnt < Arr \div 2
  /\ running => Presc(freq) # 0 /\ cnt \in 0 .. Arr
  /\ ~running => now = 0 /\ cnt = 0 /\ ~uif /\ ms = 0 /\ step = "idle"

\* No interrupt is served under the mask.
Masked == step \in MaskedSteps => read.ms = ms

\* The counter has run on since it was read, or it has overflowed, which it
\* cannot do twice.
CounterRead ==
  step = "uif" =>
    \/ /\ read.cnt \in 0 .. cnt /\ cnt <= read.cnt + slip
       /\ truth = Later(ms, uif) * (Arr + 1) + read.cnt
    \/ /\ uif /\ read.cnt \in 0 .. Arr /\ read.cnt + slip >= Arr + 1 + cnt
       /\ truth = ms * (Arr + 1) + read.cnt

\* What has been read says when the counter was read.
ReadingTrue ==
  step \in {"unmask", "answer"} =>
    /\ read.cnt \in 0 .. Arr
    /\ ~Short(freq) => truth = ReadMillis * (Arr + 1) + read.cnt

ReadingInv == MicroTypeOK /\ TimeKept /\ Masked /\ CounterRead /\ ReadingTrue /\ MicrosTrue

LEMMA LaterType ==
  ASSUME NEW m \in 0 .. Wrap - 1, NEW pending \in BOOLEAN
  PROVE  Later(m, pending) \in 0 .. Wrap - 1
BY MicroAssumption DEF Later

ReadType == [ms : 0 .. Wrap - 1, cnt : 0 .. Width - 1, pending : BOOLEAN]

LEMMA NothingType ==
  /\ Nothing \in ReadType
  /\ \A m \in 0 .. Wrap - 1 : [Nothing EXCEPT !.ms = m] \in ReadType /\ [Nothing EXCEPT !.ms = m].ms = m
<1>1. 0 \in 0 .. Wrap - 1 /\ 0 \in 0 .. Width - 1
  BY MicroAssumption
<1> QED
  BY <1>1 DEF Nothing, ReadType

LEMMA InitReading == MicroInit => ReadingInv
<1> SUFFICES ASSUME MicroInit PROVE ReadingInv
  OBVIOUS
<1> USE DEF MicroInit
<1>1. MicroTypeOK
  <2>1. Wrap * 1 <= Wrap * Milli /\ Wrap * Milli \in Nat /\ Wrap \in Nat \ {0}
    BY MicroAssumption, TimesMonotone
  <2>2. 0 \in 0 .. Wrap * Milli - 1
    BY <2>1
  <2> QED
    <3>1. read \in [ms : 0 .. Wrap - 1, cnt : 0 .. Width - 1, pending : BOOLEAN]
      BY NothingType DEF ReadType
    <3>2. answer \in 0 .. Wrap * Milli - 1
      BY <2>2
    <3>3. slip \in 0 .. MaxSlip /\ cnt \in 0 .. Width - 1 /\ ms \in 0 .. Wrap - 1
      BY MicroAssumption
    <3>4. freq \in Freqs /\ now \in Nat /\ truth \in Nat /\ step \in {"idle", "cnt", "uif", "unmask", "answer"}
      OBVIOUS
    <3>5. running \in BOOLEAN /\ uif \in BOOLEAN
      OBVIOUS
    <3> QED
      BY <3>1, <3>2, <3>3, <3>4, <3>5, Zenon DEF MicroTypeOK
<1>2. Arr \in Int
  BY Factors DEF Arr
<1>3. TimeKept
  BY <1>2 DEF TimeKept, Later
<1>4. MicrosTrue
  <2> SUFFICES ASSUME ~Short(freq) PROVE 0 = Micros(0)
    BY DEF MicrosTrue
  <2>1. PerMilli(freq) \in Nat \ {0} /\ Presc(freq) \in Nat
    BY Factors
  <2>2. 0 * Presc(freq) * Milli = 0
    BY <2>1, MicroAssumption
  <2>3. 0 \in 0 .. PerMilli(freq) - 1
    BY <2>1
  <2>4. 0 \div PerMilli(freq) = 0
    BY <2>1, <2>3, SmallRemainder
  <2> QED
    BY <2>2, <2>4 DEF Micros
<1> QED
  BY <1>1, <1>3, <1>4 DEF ReadingInv, Masked, CounterRead, ReadingTrue, MaskedSteps

LEMMA ArrType ==
  ASSUME MicroTypeOK, TimeKept, running
  PROVE  Arr \in Nat /\ Arr < Width /\ Arr + 1 = Count(freq)
BY Factors, MicroAssumption DEF MicroTypeOK, TimeKept, Arr

\* Only counting changes the time.
LEMMA StartStep == ReadingInv /\ Start => ReadingInv'
<1> SUFFICES ASSUME ReadingInv, Start PROVE ReadingInv'
  OBVIOUS
<1> USE DEF ReadingInv, Start, readVars
<1>1. MicroTypeOK'
  BY DEF MicroTypeOK
<1>2. Arr' = Arr
  BY DEF Arr
<1>3. Arr \in Nat
  BY Factors, MicroAssumption DEF Arr, MicroTypeOK
<1>4. TimeKept'
  BY <1>2, <1>3 DEF TimeKept, Later, MicroTypeOK
<1>5. Masked' /\ CounterRead' /\ ReadingTrue'
  BY DEF TimeKept, Masked, CounterRead, ReadingTrue, MaskedSteps
<1>6. MicrosTrue'
  BY DEF MicrosTrue, Micros
<1> QED
  BY <1>1, <1>4, <1>5, <1>6

LEMMA TickTime ==
  ASSUME ReadingInv, Tick
  PROVE  /\ now' = Later(ms, uif') * (Arr + 1) + cnt'
         /\ cnt' \in 0 .. Arr
         /\ uif' => cnt' = 0 \/ cnt' < Arr \div 2
         /\ cnt = Arr => ~uif
<1> USE DEF ReadingInv, Tick
<1> DEFINE N == Arr + 1
           m == Later(ms, uif)
<1>1. Arr \in Nat /\ cnt \in 0 .. Arr /\ N \in Nat \ {0}
  BY ArrType DEF TimeKept
<1>2. m \in 0 .. Wrap - 1 /\ Wrap \in Nat \ {0} /\ ms \in 0 .. Wrap - 1
  BY LaterType, MicroAssumption DEF MicroTypeOK
<1>3. Arr \div 2 \in Nat /\ Arr \div 2 <= Arr
  BY <1>1
<1>4. cnt = Arr => ~uif
  BY <1>1, <1>3
<1>5. now = N * m + cnt
  BY <1>1, <1>2 DEF TimeKept
<1> HIDE DEF m, N
<1>6. CASE cnt < Arr
  <2>1. cnt + 1 \in 0 .. N - 1
    BY <1>1, <1>6 DEF N
  <2>2. (cnt + 1) % N = cnt + 1
    BY <1>1, <2>1, SmallRemainder
  <2>3. cnt' = cnt + 1 /\ uif' = uif
    BY <1>1, <1>6, <2>2 DEF N, MicroTypeOK
  <2>4. N * m + N <= Wrap * N /\ Wrap * N \in Nat \ {0} /\ N * m \in Nat
    <3>1. N * (m + 1) <= N * Wrap
      BY <1>1, <1>2, TimesMonotone
    <3>2. N * (m + 1) = N * m + N /\ N * Wrap = Wrap * N /\ N * m \in Nat
      BY <1>1, <1>2
    <3> QED
      BY <1>1, <1>2, <3>1, <3>2
  <2>5. now + 1 \in 0 .. Wrap * N - 1
    BY <1>1, <1>5, <1>6, <2>4 DEF N
  <2>6. (now + 1) % (Wrap * N) = now + 1
    BY <2>4, <2>5, SmallRemainder
  <2>7. now' = N * m + cnt'
    BY <1>1, <1>2, <1>5, <2>3, <2>4, <2>6 DEF N
  <2>8. now' = Later(ms, uif') * (Arr + 1) + cnt'
    BY <1>1, <1>2, <2>3, <2>7 DEF m, N
  <2> QED
    BY <1>1, <1>4, <1>6, <2>3, <2>8
<1>7. CASE cnt = Arr
  <2>1. cnt + 1 = N * 1 + 0 /\ 0 \in 0 .. N - 1
    BY <1>1, <1>7 DEF N
  <2>2. (cnt + 1) % N = 0
    BY <1>1, <2>1, QuotientOf
  <2>3. cnt' = 0 /\ uif' = TRUE /\ ~uif /\ m = ms
    BY <1>4, <1>7, <2>2 DEF N, m, Later
  <2>4. now + 1 = N * (ms + 1)
    BY <1>1, <1>2, <1>5, <1>7, <2>3 DEF N
  <2>5. now' = ((ms + 1) % Wrap) * N
    <3>1. CASE ms + 1 < Wrap
      <4>1. ms + 1 \in 0 .. Wrap - 1
        BY <1>2, <3>1
      <4>2. (ms + 1) % Wrap = ms + 1
        BY <1>2, <4>1, SmallRemainder
      <4>3. N * (ms + 2) <= N * Wrap
        BY <1>1, <1>2, <3>1, TimesMonotone
      <4>4. N * (ms + 2) = N * (ms + 1) + N /\ N * Wrap = Wrap * N /\ N * (ms + 1) \in Nat /\ Wrap * N \in Nat
        BY <1>1, <1>2
      <4>5. N * (ms + 1) \in 0 .. Wrap * N - 1
        BY <1>1, <4>3, <4>4
      <4>6. Wrap * N \in Nat \ {0}
        BY <1>1, <4>4, <4>5
      <4>7. (now + 1) % (Wrap * N) = N * (ms + 1)
        BY <2>4, <4>5, <4>6, SmallRemainder
      <4> QED
        BY <1>1, <1>2, <4>2, <4>7 DEF N
    <3>2. CASE ms + 1 = Wrap
      <4>1. Wrap = Wrap * 1 + 0 /\ 0 \in 0 .. Wrap - 1
        BY <1>2
      <4>2. (ms + 1) % Wrap = 0
        BY <1>2, <3>2, <4>1, QuotientOf
      <4>3. Wrap * N \in Nat \ {0}
        <5>1. N * 1 <= N * Wrap /\ N * Wrap = Wrap * N /\ Wrap * N \in Nat
          BY <1>1, <1>2, TimesMonotone
        <5> QED
          BY <1>1, <5>1
      <4>4. now + 1 = (Wrap * N) * 1 + 0 /\ 0 \in 0 .. Wrap * N - 1
        BY <1>1, <1>2, <2>4, <3>2, <4>3
      <4>5. (now + 1) % (Wrap * N) = 0
        BY <4>3, <4>4, QuotientOf
      <4> QED
        BY <1>1, <4>2, <4>5 DEF N
    <3> QED
      BY <1>2, <3>1, <3>2
  <2>6. now' = Later(ms, uif') * (Arr + 1) + cnt'
    <3>1. Later(ms, uif') = (ms + 1) % Wrap
      BY <2>3 DEF Later
    <3>2. ((ms + 1) % Wrap) * N \in Nat
      BY <1>1, <1>2, Division
    <3> QED
      BY <2>3, <2>5, <3>1, <3>2 DEF N
  <2> QED
    BY <1>1, <1>4, <2>3, <2>6
<1> QED
  BY <1>1, <1>6, <1>7


LEMMA TickStep == ReadingInv /\ Tick => ReadingInv'
<1> SUFFICES ASSUME ReadingInv, Tick PROVE ReadingInv'
  OBVIOUS
<1> USE DEF ReadingInv
<1>1. /\ now' = Later(ms, uif') * (Arr + 1) + cnt' /\ cnt' \in 0 .. Arr
      /\ uif' => cnt' = 0 \/ cnt' < Arr \div 2
      /\ cnt = Arr => ~uif
  BY TickTime
<1>2. Arr \in Nat /\ Arr < Width /\ cnt \in 0 .. Arr
  BY ArrType DEF Tick, TimeKept
<1>3. UNCHANGED <<freq, running, ms, step, read, answer, truth>> /\ Arr' = Arr /\ running
  BY DEF Tick, Arr
<1>4. uif' \in BOOLEAN /\ (uif' = (uif \/ cnt = Arr))
  BY DEF Tick, MicroTypeOK
<1>5. slip' \in 0 .. MaxSlip /\ slip' = IF step \in MaskedSteps THEN slip + 1 ELSE slip
  BY MicroAssumption DEF Tick, MicroTypeOK
<1>6. MicroTypeOK'
  <2>1. Wrap * (Arr + 1) \in Nat \ {0} /\ now + 1 \in Nat
    <3>1. (Arr + 1) * 1 <= (Arr + 1) * Wrap /\ (Arr + 1) * Wrap = Wrap * (Arr + 1) /\ Wrap * (Arr + 1) \in Nat
      BY <1>2, MicroAssumption, TimesMonotone
    <3> QED
      BY <1>2, <3>1 DEF MicroTypeOK
  <2>2. now' \in Nat
    BY <2>1, Division DEF Tick
  <2>3. cnt' \in 0 .. Width - 1
    BY <1>1, <1>2, MicroAssumption
  <2> QED
    BY <1>3, <1>4, <1>5, <2>2, <2>3 DEF MicroTypeOK
<1>7. TimeKept'
  BY <1>1, <1>3 DEF TimeKept, Later
<1>8. Masked' /\ MicrosTrue'
  BY <1>3 DEF Masked, MicrosTrue, Micros
<1>9. ReadingTrue'
  BY <1>3 DEF ReadingTrue, ReadMillis
<1>10. CounterRead'
  <2> SUFFICES ASSUME step = "uif" PROVE CounterRead'
    BY <1>3 DEF CounterRead
  <2>1. slip' = slip + 1 /\ slip \in Nat /\ read.cnt \in Nat
    BY <1>5, MicroAssumption DEF MaskedSteps, MicroTypeOK
  <2>2. cnt < Arr => cnt' = cnt + 1 /\ uif' = uif
    <3> SUFFICES ASSUME cnt < Arr PROVE cnt' = cnt + 1 /\ uif' = uif
      OBVIOUS
    <3>1. cnt + 1 \in 0 .. (Arr + 1) - 1 /\ Arr + 1 \in Nat \ {0}
      BY <1>2
    <3>2. (cnt + 1) % (Arr + 1) = cnt + 1
      BY <3>1, SmallRemainder
    <3> QED
      BY <1>2, <1>4, <3>2 DEF Tick, MicroTypeOK
  <2>3. cnt = Arr => cnt' = 0 /\ uif' /\ ~uif
    <3> SUFFICES ASSUME cnt = Arr PROVE cnt' = 0
      BY <1>1, <1>4
    <3>1. cnt + 1 = (Arr + 1) * 1 + 0 /\ 0 \in 0 .. (Arr + 1) - 1 /\ Arr + 1 \in Nat \ {0} /\ cnt + 1 \in Nat
      BY <1>2
    <3>2. (cnt + 1) % (Arr + 1) = 0
      BY <3>1, QuotientOf
    <3> QED
      BY <3>2 DEF Tick
  <2>4. CASE /\ read.cnt \in 0 .. cnt /\ cnt <= read.cnt + slip
             /\ truth = Later(ms, uif) * (Arr + 1) + read.cnt
    <3>1. CASE cnt < Arr
      <4>1. read.cnt \in 0 .. cnt' /\ cnt' <= read.cnt + slip' /\ uif' = uif
        BY <1>2, <2>1, <2>2, <2>4, <3>1
      <4> QED
        BY <1>3, <2>4, <4>1 DEF CounterRead
    <3>2. CASE cnt = Arr
      <4>1. uif' /\ read.cnt \in 0 .. Arr /\ read.cnt + slip' >= Arr + 1 + cnt'
        BY <1>2, <2>1, <2>3, <2>4, <3>2
      <4>2. truth = ms * (Arr + 1) + read.cnt
        BY <2>3, <2>4, <3>2 DEF Later
      <4> QED
        BY <1>3, <4>1, <4>2 DEF CounterRead
    <3> QED
      BY <1>2, <3>1, <3>2
  <2>5. CASE /\ uif /\ read.cnt \in 0 .. Arr /\ read.cnt + slip >= Arr + 1 + cnt
             /\ truth = ms * (Arr + 1) + read.cnt
    <3>1. cnt < Arr
      BY <1>1, <1>2, <2>5
    <3>2. cnt' = cnt + 1 /\ uif'
      BY <2>2, <2>5, <3>1
    <3>3. read.cnt + slip' >= Arr + 1 + cnt'
      BY <1>2, <2>1, <2>5, <3>2
    <3> QED
      BY <1>3, <2>5, <3>2, <3>3 DEF CounterRead
  <2> QED
    BY <2>4, <2>5 DEF CounterRead
<1> QED
  BY <1>6, <1>7, <1>8, <1>9, <1>10

LEMMA InterruptStep == ReadingInv /\ Interrupt => ReadingInv'
<1> SUFFICES ASSUME ReadingInv, Interrupt PROVE ReadingInv'
  OBVIOUS
<1> USE DEF ReadingInv, Interrupt, readVars
<1>1. running
  BY DEF TimeKept
<1>2. Later(ms', uif') = Later(ms, uif) /\ ms' \in 0 .. Wrap - 1
  BY LaterType DEF Later, MicroTypeOK
<1>3. MicroTypeOK'
  BY <1>2 DEF MicroTypeOK
<1>4. Arr' = Arr
  BY DEF Arr
<1>5. TimeKept'
  BY <1>1, <1>2, <1>4 DEF TimeKept
<1>6. Masked' /\ CounterRead' /\ MicrosTrue'
  BY DEF Masked, CounterRead, MaskedSteps, MicrosTrue, Micros
<1>7. ReadingTrue'
  BY <1>4 DEF ReadingTrue, ReadMillis
<1> QED
  BY <1>3, <1>5, <1>6, <1>7

LEMMA ReadMsStep == ReadingInv /\ ReadMs => ReadingInv'
<1> SUFFICES ASSUME ReadingInv, ReadMs PROVE ReadingInv'
  OBVIOUS
<1> USE DEF ReadingInv, ReadMs, timerVars
<1>1. read' \in ReadType /\ read'.ms = ms
  BY NothingType DEF MicroTypeOK
<1>6. MicroTypeOK'
  BY <1>1, MicroAssumption DEF MicroTypeOK, ReadType
<1>2. Arr' = Arr
  BY DEF Arr
<1>3. TimeKept'
  BY <1>2 DEF TimeKept, Later
<1>4. Masked'
  BY <1>1 DEF Masked
<1> QED
  BY <1>3, <1>4, <1>6 DEF CounterRead, ReadingTrue, MicrosTrue

LEMMA ReadCntStep == ReadingInv /\ ReadCnt => ReadingInv'
<1> SUFFICES ASSUME ReadingInv, ReadCnt PROVE ReadingInv'
  OBVIOUS
<1> USE DEF ReadingInv, ReadCnt, timerVars
<1>1. read'.ms = read.ms /\ read'.cnt = cnt /\ read' \in [ms : 0 .. Wrap - 1, cnt : 0 .. Width - 1, pending : BOOLEAN]
  BY DEF MicroTypeOK
<1>2. MicroTypeOK'
  BY <1>1 DEF MicroTypeOK
<1>3. Arr' = Arr
  BY DEF Arr
<1>4. TimeKept'
  BY <1>3 DEF TimeKept, Later
<1>5. Masked'
  BY <1>1 DEF Masked, MaskedSteps
<1>6. CounterRead'
  BY <1>1, <1>3, MicroAssumption DEF CounterRead, TimeKept, Later, MicroTypeOK
<1> QED
  BY <1>2, <1>4, <1>5, <1>6 DEF ReadingTrue, MicrosTrue

LEMMA ReadFlagStep == ReadingInv /\ ReadFlag => ReadingInv'
<1> SUFFICES ASSUME ReadingInv, ReadFlag PROVE ReadingInv'
  OBVIOUS
<1> USE DEF ReadingInv, ReadFlag, timerVars
<1>1. /\ read'.ms = read.ms /\ read'.cnt = read.cnt /\ read'.pending = uif
      /\ read' \in [ms : 0 .. Wrap - 1, cnt : 0 .. Width - 1, pending : BOOLEAN]
  BY DEF MicroTypeOK
<1>2. MicroTypeOK'
  BY <1>1 DEF MicroTypeOK
<1>3. Arr' = Arr
  BY DEF Arr
<1>4. TimeKept'
  BY <1>3 DEF TimeKept, Later
<1>5. Masked'
  BY <1>1 DEF Masked, MaskedSteps
<1>6. running
  BY DEF TimeKept
<1>7. Arr \in Nat /\ cnt \in 0 .. Arr /\ read.cnt \in 0 .. Arr /\ read.ms = ms
  <2>1. Arr \in Nat /\ cnt \in 0 .. Arr
    BY <1>6, ArrType DEF TimeKept
  <2> QED
    BY <2>1 DEF CounterRead, Masked, MaskedSteps
<1>8. ASSUME ~Short(freq) PROVE truth = ReadMillis' * (Arr + 1) + read.cnt
  <2>1. Count(freq) = Arr + 1 /\ Arr >= 2 /\ 2 * MaxSlip <= Arr + 1
    BY <1>6, <1>8, ArrType, ReadingAssumption DEF TimeKept, MicroTypeOK
  <2>2. Arr \div 2 \in Nat /\ 2 * (Arr \div 2) <= Arr /\ Arr \div 2 >= 1
    BY <1>7, <2>1
  <2>3. slip \in Nat /\ slip <= MaxSlip /\ MaxSlip \in Nat
    BY MicroAssumption DEF MicroTypeOK
  <2>4. ReadMillis' = IF uif /\ read.cnt < Arr \div 2 THEN (ms + 1) % Wrap ELSE ms
    BY <1>1, <1>3, <1>7 DEF ReadMillis
  <2>5. CASE /\ read.cnt \in 0 .. cnt /\ cnt <= read.cnt + slip
             /\ truth = Later(ms, uif) * (Arr + 1) + read.cnt
    <3>1. uif => read.cnt < Arr \div 2
      BY <1>7, <2>2, <2>5 DEF TimeKept
    <3>2. ReadMillis' = Later(ms, uif)
      BY <2>4, <3>1 DEF Later
    <3> QED
      BY <2>5, <3>2
  <2>6. CASE /\ uif /\ read.cnt \in 0 .. Arr /\ read.cnt + slip >= Arr + 1 + cnt
             /\ truth = ms * (Arr + 1) + read.cnt
    <3>1. ~(read.cnt < Arr \div 2)
      BY <1>7, <2>1, <2>2, <2>3, <2>6
    <3> QED
      BY <2>4, <2>6, <3>1
  <2> QED
    BY <2>5, <2>6 DEF CounterRead
<1>9. ReadingTrue'
  BY <1>1, <1>3, <1>7, <1>8 DEF ReadingTrue
<1> QED
  BY <1>2, <1>4, <1>5, <1>9 DEF CounterRead, MicrosTrue

LEMMA UnmaskStep == ReadingInv /\ Unmask => ReadingInv'
<1> SUFFICES ASSUME ReadingInv, Unmask PROVE ReadingInv'
  OBVIOUS
<1> USE DEF ReadingInv, Unmask, timerVars
<1>1. MicroTypeOK'
  BY DEF MicroTypeOK
<1>2. Arr' = Arr
  BY DEF Arr
<1>3. TimeKept'
  BY <1>2 DEF TimeKept, Later
<1>4. ReadingTrue'
  BY <1>2 DEF ReadingTrue, ReadMillis
<1> QED
  BY <1>1, <1>3, <1>4 DEF Masked, MaskedSteps, CounterRead, MicrosTrue

\* The microseconds of a moment are those of its millisecond and of the steps since.
MicrosRule(m, n, c, p, k) ==
  ((m * n + c) * p * k) \div (p * n) = m * k + (c * k) \div n

LEMMA MicrosOf ==
  ASSUME NEW m \in Nat, NEW n \in Nat \ {0}, NEW c \in 0 .. n - 1, NEW p \in Nat \ {0},
         NEW k \in Nat
  PROVE  MicrosRule(m, n, c, p, k)
<1> DEFINE x == m * n + c
           y == p * n
<1>0. x = m * n + c /\ y = p * n
  OBVIOUS
<1> HIDE DEF x, y
<1>1. PICK z \in Nat : z = c * k
  OBVIOUS
<1>2. PICK q \in Nat, r \in 0 .. n - 1 : z \div n = q /\ z = n * q + r
  BY Division
<1>3. y \in Nat \ {0}
  <2>1. p * 1 <= p * n /\ p * n \in Nat
    BY TimesMonotone
  <2> QED
    BY <1>0, <2>1
<1>4. PICK s \in Nat : s = p * r
  BY <1>2
<1>5. s \in 0 .. y - 1
  <2>1. p * (r + 1) <= p * n /\ p * (r + 1) = p * r + p
    BY <1>2, TimesMonotone
  <2> QED
    BY <1>0, <1>3, <1>4, <2>1
<1>6. PICK w \in Nat : w = m * k + q
  BY <1>2
<1>7. x * p * k = y * w + s
  <2>1. x * p * k = p * ((m * n) * k + z)
    BY <1>0, <1>1
  <2>2. (m * n) * k + z = n * w + r
    BY <1>2, <1>6
  <2>3. p * (n * w + r) = (p * n) * w + p * r
    BY <1>2, <1>6
  <2> QED
    BY <1>0, <1>4, <2>1, <2>2, <2>3
<1>8. PICK v \in Nat : v = x * p * k
  BY <1>3, <1>5, <1>6, <1>7
<1>9. v \div y = w
  BY <1>3, <1>5, <1>6, <1>7, <1>8, QuotientOf
<1> QED
  BY <1>1, <1>2, <1>6, <1>8, <1>9 DEF MicrosRule, x, y

\* The steps of a period are less than its microseconds.
LEMMA PartOf ==
  ASSUME NEW n \in Nat \ {0}, NEW c \in 0 .. n - 1, NEW k \in Nat \ {0}
  PROVE  (c * k) \div n \in 0 .. k - 1
<1>1. PICK z \in Nat : z = c * k
  OBVIOUS
<1>2. PICK q \in Nat, r \in 0 .. n - 1 : z \div n = q /\ z = n * q + r
  BY Division
<1>3. q < k
  <2> SUFFICES ASSUME k <= q PROVE FALSE
    BY <1>2
  <2>1. n * k <= n * q /\ n * q \in Nat /\ n * k \in Nat
    BY <1>2, TimesMonotone
  <2>2. k * (c + 1) <= k * n /\ k * (c + 1) = c * k + k /\ k * n = n * k
    BY TimesMonotone
  <2> QED
    BY <1>1, <1>2, <2>1, <2>2
<1> QED
  BY <1>1, <1>2, <1>3

LEMMA AnswerStep == ReadingInv /\ Answer => ReadingInv'
<1> SUFFICES ASSUME ReadingInv, Answer PROVE ReadingInv'
  OBVIOUS
<1> USE DEF ReadingInv, Answer, timerVars
<1>1. running /\ Arr' = Arr
  BY DEF TimeKept, Arr
<1>2. /\ Arr \in Nat /\ Arr + 1 = Count(freq) /\ read.cnt \in 0 .. Arr /\ read.ms \in 0 .. Wrap - 1
      /\ Milli \in Nat \ {0} /\ Wrap \in Nat \ {0} /\ ms \in 0 .. Wrap - 1
  BY <1>1, ArrType, MicroAssumption DEF ReadingTrue, MicroTypeOK
<1>3. ReadMillis \in 0 .. Wrap - 1
  BY <1>2, LaterType DEF ReadMillis, Later, MicroTypeOK
<1> DEFINE part == (read.cnt * Milli) \div (Arr + 1)
<1>4. part \in 0 .. Milli - 1
  <2>1. Arr + 1 \in Nat \ {0} /\ read.cnt \in 0 .. (Arr + 1) - 1
    BY <1>2
  <2> QED
    BY <1>2, <2>1, PartOf
<1>5. ASSUME NEW m \in 0 .. Wrap - 1, NEW u \in 0 .. Milli - 1
      PROVE  m * Milli + u \in 0 .. Wrap * Milli - 1
  <2>1. Milli * (m + 1) <= Milli * Wrap
    BY <1>2, TimesMonotone
  <2>2. /\ Milli * (m + 1) = m * Milli + Milli /\ Milli * Wrap = Wrap * Milli
        /\ m * Milli \in Nat /\ Wrap * Milli \in Nat
    BY <1>2
  <2> QED
    BY <1>2, <2>1, <2>2
<1>6. answer' \in 0 .. Wrap * Milli - 1
  <2>1. CASE Arr = Milli - 1
    BY <1>2, <1>5, <2>1
  <2>2. CASE Arr # Milli - 1
    <3>1. answer' = ReadMillis * Milli + part
      BY <2>2
    <3> HIDE DEF part
    <3> QED
      BY <1>3, <1>4, <1>5, <3>1
  <2> QED
    BY <2>1, <2>2
<1>7. MicroTypeOK'
  BY <1>2, <1>6, MicroAssumption DEF MicroTypeOK, Nothing
<1>8. TimeKept'
  BY <1>1 DEF TimeKept, Later
<1>9. MicrosTrue'
  <2> SUFFICES ASSUME ~Short(freq) PROVE answer' = Micros(truth)
    BY DEF MicrosTrue, Micros
  <2>1. Presc(freq) # 0 /\ freq \in Freqs
    BY <1>1 DEF TimeKept, MicroTypeOK
  <2>2. Arr # Milli - 1
    BY <1>2, <2>1, ReadingAssumption
  <2>3. answer' = ReadMillis * Milli + part
    BY <2>2
  <2>4. PerMilli(freq) = Presc(freq) * (Arr + 1) /\ Presc(freq) \in Nat \ {0}
    BY <1>2, <2>1, Factors
  <2>5. truth = ReadMillis * (Arr + 1) + read.cnt
    BY DEF ReadingTrue
  <2>6. ReadMillis \in Nat /\ Arr + 1 \in Nat \ {0} /\ read.cnt \in 0 .. (Arr + 1) - 1 /\ Milli \in Nat
    BY <1>2, <1>3
  <2>7. (truth * Presc(freq) * Milli) \div PerMilli(freq) = ReadMillis * Milli + part
    <3>1. MicrosRule(ReadMillis, Arr + 1, read.cnt, Presc(freq), Milli)
      BY <2>4, <2>6, MicrosOf
    <3> QED
      BY <2>4, <2>5, <3>1 DEF MicrosRule
  <2> HIDE DEF part
  <2> QED
    BY <2>3, <2>7 DEF Micros
<1> QED
  BY <1>7, <1>8, <1>9 DEF Masked, MaskedSteps, CounterRead, ReadingTrue

LEMMA ReadingNext == ReadingInv /\ [MicroNext]_microVars => ReadingInv'
<1> SUFFICES ASSUME ReadingInv, [MicroNext]_microVars PROVE ReadingInv'
  OBVIOUS
<1>1. CASE UNCHANGED microVars
  BY <1>1 DEF ReadingInv, microVars, timerVars, readVars, MicroTypeOK, TimeKept, Later, Masked, CounterRead,
              ReadingTrue, ReadMillis, MicrosTrue, Micros, Arr
<1> QED
  BY <1>1, StartStep, TickStep, InterruptStep, ReadMsStep, ReadCntStep, ReadFlagStep, UnmaskStep,
     AnswerStep DEF MicroNext

\* The counter, the count of milliseconds and what is read of them keep their
\* widths, for every frequency of the bus.
THEOREM MicrosTypeOK == MicroSpec => []MicroTypeOK
<1>1. ReadingInv => MicroTypeOK
  BY DEF ReadingInv
<1> QED
  BY <1>1, InitReading, ReadingNext, PTL DEF MicroSpec

\* Above 65.536 MHz g_get_micros tells the time at which it read the counter, for
\* all widths and frequencies and however the interrupt falls, as long as the
\* masked section takes at most half a period.
THEOREM MicrosAreTrue == MicroSpec => []MicrosTrue
<1>1. ReadingInv => MicrosTrue
  BY DEF ReadingInv
<1> QED
  BY <1>1, InitReading, ReadingNext, PTL DEF MicroSpec
=============================================================================
