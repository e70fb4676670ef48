------------------------ MODULE ReportSchedulerProofs ------------------------
(***************************************************************************)
(* Proofs about ReportScheduler, for any schedules, plans and limits, and  *)
(* any length of days, weeks, retries and passes.                          *)
(***************************************************************************)
EXTENDS ReportScheduler, TLAPS

-----------------------------------------------------------------------------
\* Division with remainder.

\* What the provers know of it.
LEMMA DivMod == ASSUME NEW a \in Int, NEW b \in Nat \ {0}
  PROVE a = b * (a \div b) + (a % b) /\ a % b \in 0..(b-1) /\ a \div b \in Int
OBVIOUS

\* Products are no smaller than their factors.
LEMMA MulGe == \A b \in Nat \ {0} : \A k \in Int : k >= 1 => b * k >= b
OBVIOUS

LEMMA MulGe0 == \A b \in Nat : \A k \in Nat : b * k \in Nat
OBVIOUS

\* The only multiple of b closer to zero than b is zero.
LEMMA Small == ASSUME NEW b \in Nat \ {0}, NEW k \in Int, b * k < b, b * (-k) < b
  PROVE k = 0
<1>1. ~(k >= 1)
  BY MulGe
<1>2. ~(-k >= 1)
  BY MulGe
<1> QED BY <1>1, <1>2

LEMMA Dist == ASSUME NEW b \in Int, NEW k \in Int, NEW l \in Int
  PROVE b * (k - l) = b * k - b * l /\  b * (k + l) = b * k + b * l /\ b*k \in Int
OBVIOUS

\* There is one way to divide.
LEMMA Unique == ASSUME NEW a \in Int, NEW b \in Nat \ {0}, NEW q \in Int, NEW r \in 0..(b-1), a = b * q + r
  PROVE a % b = r /\ a \div b = q
<1> DEFINE k == q - (a \div b)
<1>1. k \in Int /\ b * k = (a % b) - r /\ -k \in Int
  BY DivMod, Dist
<1>2. b * (-k) = r - (a % b)
  BY <1>1, DivMod, Dist
<1>3. a % b \in 0..(b-1)
  BY DivMod
<1> HIDE DEF k
<1>4. b * k < b /\ b * (-k) < b
  BY <1>1, <1>2, <1>3
<1>5. k = 0
  BY <1>1, <1>4, Small
<1> QED BY <1>1, <1>5, DivMod DEF k

\* A remainder may be taken before an addition.
LEMMA ModMod == ASSUME NEW a \in Int, NEW c \in Int, NEW b \in Nat \ {0}
  PROVE ((a % b) + c) % b = (a + c) % b
<1> DEFINE q == a \div b
      r == a % b
      q2 == (r + c) \div b
      r2 == (r + c) % b
<1>1. a = b * q + r /\ q \in Int /\ r \in Int
  BY DivMod
<1> HIDE DEF q, r
<1>2. r + c = b * q2 + r2 /\ r2 \in 0..(b-1) /\ q2 \in Int
  <2>1. r + c \in Int
    BY <1>1
  <2> QED BY <2>1, DivMod
<1>3. a + c = b * (q + q2) + r2 /\ q + q2 \in Int
  <2> HIDE DEF r2, q2
  <2> QED BY <1>1, <1>2, Dist
<1>4. (a + c) % b = r2
  <2> HIDE DEF r2, q2
  <2> QED BY <1>2, <1>3, Unique
<1> QED BY <1>4 DEF r

\* Once more the divisor.
LEMMA AddMult == ASSUME NEW a \in Int, NEW b \in Nat \ {0}
  PROVE (a + b) % b = a % b /\ (a + b) \div b = (a \div b) + 1
<1> DEFINE q == a \div b
           r == a % b
<1>1. a = b * q + r /\ q \in Int /\ r \in 0..(b-1)
  BY DivMod
<1> HIDE DEF q, r
<1>2. a + b \in Int /\ a + b = b * (q + 1) + r /\ q + 1 \in Int
  BY <1>1, Dist
<1>3. (a + b) % b = r /\ (a + b) \div b = q + 1
  BY <1>1, <1>2, Unique
<1> QED BY <1>3 DEF q, r

\* Numbers below the divisor are their own remainders.
LEMMA Below == ASSUME NEW b \in Nat \ {0}, NEW r \in 0..(b-1)
  PROVE r % b = r
<1>1. r \in Int /\ 0 \in Int /\ b * 0 = 0
  OBVIOUS
<1> QED BY <1>1, Unique

\* The remainder by a product keeps both parts: unit of the day, and day of the week.
LEMMA Folded == ASSUME NEW D \in Nat \ {0}, NEW W \in Nat \ {0}, NEW a \in Int
  PROVE /\ (a % (D * W)) % D = a % D
        /\ ((a % (D * W)) \div D) % W = (a \div D) % W
<1> DEFINE P == D * W
           q == a \div P
           r == a % P
           x == r \div D
           m == r % D
<1>1. P \in Nat \ {0}
  BY MulGe
<1>2. a = P * q + r /\ r \in Int /\ q \in Int
  <2> HIDE DEF P
  <2> QED BY <1>1, DivMod
<1>3. P * q = D * (W * q) /\ W * q \in Int
  <2> HIDE DEF q
  <2> QED BY <1>2
<1> HIDE DEF P, q, r
<1>4. r = D * x + m /\ m \in 0..(D-1) /\ x \in Int
  BY <1>2, DivMod
<1> HIDE DEF x, m
<1>5. a = D * (W * q + x) + m /\ W * q + x \in Int
  BY <1>2, <1>3, <1>4, Dist
<1>6. a % D = m /\ a \div D = W * q + x
  BY <1>4, <1>5, Unique
<1>7. x = W * (x \div W) + (x % W) /\ x % W \in 0..(W-1) /\ x \div W \in Int
  BY <1>4, DivMod
<1>8. W * q + x = W * (q + (x \div W)) + (x % W) /\ q + (x \div W) \in Int
  BY <1>2, <1>7, Dist
<1>9. (W * q + x) % W = x % W
  <2> DEFINE y == x % W
             z == q + (x \div W)
  <2>1. W * q + x = W * z + y /\ y \in 0..(W-1) /\ z \in Int /\ W * q + x \in Int
    BY <1>5, <1>7, <1>8
  <2> HIDE DEF y, z
  <2>2. (W * q + x) % W = y
    BY <2>1, Unique
  <2> QED BY <2>2 DEF y
<1> QED BY <1>6, <1>9 DEF P, r, x, m

\* Whether x falls on the slot h of the day w, in weeks of W days of D units.
OnSlot(D, W, x, h, w) == x % D = h /\ (x \div D) % W = w

\* From t to that slot, on the next such day and, if that is not later than t, a week after it.
FirstGap(D, W, t, h, w) == h - (t % D) + D * ((w - (t \div D)) % W)
Gap(D, W, t, h, w) ==
  IF FirstGap(D, W, t, h, w) > 0 THEN FirstGap(D, W, t, h, w) ELSE FirstGap(D, W, t, h, w) + D * W

\* It is the first one after t.
LEMMA NextSlot ==
  ASSUME NEW D \in Nat \ {0}, NEW W \in Nat \ {0}, NEW t \in Int, NEW h \in 0..(D-1), NEW w \in 0..(W-1)
  PROVE  /\ Gap(D, W, t, h, w) \in Nat \ {0}
         /\ OnSlot(D, W, t + Gap(D, W, t, h, w), h, w)
         /\ \A e \in 1..(Gap(D, W, t, h, w) - 1) : ~OnSlot(D, W, t + e, h, w)
<1> DEFINE c == FirstGap(D, W, t, h, w)
           d == Gap(D, W, t, h, w)
<1>0. c = h - (t % D) + D * ((w - (t \div D)) % W) /\ d = IF c > 0 THEN c ELSE c + D * W
  BY DEF FirstGap, Gap
<1> HIDE DEF c, d
<1> DEFINE q == t \div D
           r == t % D
           k == (w - q) % W
<1>1. t = D * q + r /\ r \in 0..(D-1) /\ q \in Int
  BY DivMod
<1> HIDE DEF q, r
<1>2. k \in 0..(W-1)
  <2>1. w - q \in Int
    BY <1>1
  <2> QED BY <2>1, DivMod
<1>3. c = h - r + D * k /\ D * k \in Int /\ c \in Int
  <2>1. c = h - r + D * k
    BY <1>0 DEF q, r
  <2> HIDE DEF k
  <2> QED BY <1>1, <1>2, <2>1
<1>4. (q + k) % W = w
  <2>1. (k + q) % W = ((w - q) + q) % W
    <3> DEFINE y == w - q
    <3>1. y \in Int
      BY <1>1
    <3> HIDE DEF y
    <3>2. ((y % W) + q) % W = (y + q) % W
      BY <1>1, <3>1, ModMod
    <3> QED BY <3>2 DEF y
  <2>2. (w - q) + q = w /\ k + q = q + k
    BY <1>1, <1>2
  <2> QED BY <2>1, <2>2, Below
\* the only day of that name within a week of q
<1>5. ASSUME NEW x \in Int, x % W = w, q <= x, x < q + W
      PROVE  x - q = k
  <2>1. (x + (-q)) % W = (w + (-q)) % W
    <3> DEFINE y == -q
    <3>1. y \in Int /\ w \in Int
      BY <1>1
    <3> HIDE DEF y
    <3>3. w % W = w
      BY Below
    <3>4. x % W = w % W
      BY <1>5, <3>3
    <3>2. (x + y) % W = (w + y) % W
      <4>1. ((x % W) + y) % W = (x + y) % W
        BY <3>1, ModMod
      <4>2. ((w % W) + y) % W = (w + y) % W
        BY <3>1, ModMod
      <4> QED BY <3>4, <4>1, <4>2
    <3> QED BY <3>2 DEF y
  <2>2. x + (-q) = x - q /\ w + (-q) = w - q /\ x - q \in 0..(W-1)
    BY <1>1, <1>5
  <2> QED BY <2>1, <2>2, Below
<1> HIDE DEF k
<1>6. c <= 0 => k = 0 /\ h <= r
  <2> SUFFICES ASSUME c <= 0 PROVE k = 0 /\ h <= r
    OBVIOUS
  <2>1. k = 0
    <3>1. ~(k >= 1)
      <4> SUFFICES ASSUME k >= 1 PROVE FALSE
        OBVIOUS
      <4>1. D * k >= D
        BY <1>2, MulGe
      <4> QED BY <1>1, <1>3, <4>1
    <3> QED BY <1>2, <3>1
  <2> QED BY <1>1, <1>3, <2>1
<1> DEFINE n == IF c > 0 THEN q + k ELSE q + W
<1>7. n \in Int /\ t + d = D * n + h /\ d \in Int /\ n % W = w /\ n <= q + W
  <2>1. CASE c > 0
    <3>1. D * (q + k) = D * q + D * k
      BY <1>1, <1>2, Dist
    <3> QED BY <1>0, <1>1, <1>2, <1>3, <1>4, <2>1, <3>1
  <2>2. CASE ~(c > 0)
    <3>1. D * (q + W) = D * q + D * W /\ D * W \in Int
      BY <1>1, Dist
    <3>2. D * k = 0 /\ q + k = q
      BY <1>1, <1>3, <1>6, <2>2
    <3>3. (q + W) % W = q % W
      BY <1>1, AddMult
    <3>4. n = q + W /\ d = c + D * W
      BY <1>0, <2>2, <1>3
    <3>5. (q + W) % W = w
      BY <1>4, <3>2, <3>3
    <3> HIDE DEF n
    <3>6. n \in Int /\ n % W = w /\ n <= q + W
      BY <1>1, <3>4, <3>5
    <3>7. d \in Int /\ t + d = D * n + h
      <4> DEFINE dq == D * q
                 dw == D * W
                 dn == D * n
      <4>1. dn = dq + dw /\ dq \in Int /\ dw \in Int /\ t = dq + r /\ d = h - r + dw
            /\ h \in Int /\ r \in Int
        <5>1. D * q \in Int
          BY <1>1, Dist
        <5>2. c = h - r
          BY <1>1, <1>3, <3>2
        <5>3. D * n = D * q + D * W
          BY <3>1, <3>4
        <5> QED BY <1>1, <3>1, <3>4, <5>1, <5>2, <5>3
      <4> HIDE DEF dq, dw, dn
      <4>2. d \in Int /\ t + d = dn + h
        BY <4>1
      <4> QED BY <4>2 DEF dn
    <3> QED BY <3>6, <3>7
  <2> QED BY <2>1, <2>2
<1>8. d > 0
  <2>1. CASE c > 0
    BY <1>0, <2>1
  <2>2. CASE ~(c > 0)
    <3>1. D * W >= D /\ D * W \in Int /\ D * k = 0
      BY MulGe, <1>6, <2>2, <1>3
    <3> QED BY <1>0, <1>1, <1>3, <2>2, <3>1
  <2> QED BY <2>1, <2>2
<1>9. (t + d) % D = h /\ (t + d) \div D = n
  <2> DEFINE a == t + d
  <2>1. a \in Int /\ a = D * n + h
    BY <1>7
  <2> HIDE DEF a, n
  <2>2. a % D = h /\ a \div D = n
    BY <1>7, <2>1, Unique
  <2> QED BY <2>2 DEF a
<1>10. ASSUME NEW e \in 1..(d-1), (t + e) % D = h, ((t + e) \div D) % W = w
       PROVE  FALSE
  <2> DEFINE x == (t + e) \div D
  <2>1. t + e = D * x + h /\ x \in Int /\ e \in Int
    <3>1. t + e \in Int /\ e \in Int
      BY <1>7
    <3> QED BY <3>1, <1>10, DivMod
  <2>2. x % W = w
    BY <1>10
  <2> HIDE DEF x
  <2>3. q <= x
    <3> SUFFICES ASSUME q - x >= 1 PROVE FALSE
      BY <1>1, <2>1
    <3>1. q - x \in Int /\ D * (q - x) = D * q - D * x /\ D * (q - x) >= D
      BY <1>1, <2>1, Dist, MulGe
    <3> QED BY <1>1, <2>1, <1>7, <3>1
  <2>4. x < n
    <3> SUFFICES ASSUME x - n >= 0 PROVE FALSE
      BY <1>7, <2>1
    <3>1. x - n \in Nat /\ D * (x - n) = D * x - D * n /\ D * (x - n) \in Nat
      <4> HIDE DEF n
      <4>1. x - n \in Nat
        BY <1>7, <2>1
      <4> QED BY <1>7, <2>1, <4>1, Dist, MulGe0
    <3> HIDE DEF n
    <3> QED BY <1>7, <2>1, <3>1
  <2>5. x - q = k
    <3> HIDE DEF n
    <3>1. x < q + W
      BY <1>1, <1>7, <2>1, <2>4
    <3> QED BY <1>5, <2>1, <2>2, <2>3, <3>1
  <2>6. CASE c > 0
    BY <1>1, <1>2, <2>1, <2>4, <2>5, <2>6
  <2>7. CASE ~(c > 0)
    <3>1. x = q /\ h <= r
      BY <1>1, <1>3, <1>6, <2>1, <2>5, <2>7
    <3> QED BY <1>1, <2>1, <3>1, <1>7
  <2> QED BY <2>6, <2>7
<1> HIDE DEF n
<1>12. ((t + d) \div D) % W = w
  BY <1>7, <1>9
<1> QED BY <1>7, <1>8, <1>9, <1>10, <1>12 DEF OnSlot, d

-----------------------------------------------------------------------------
\* Delivery times.

\* No delivery time in the n units that end at t.
Clear(t, n, pl) == \A d \in 0..n-1 : ~DeliveryTime((t - d) % Period, pl)

\* The next delivery time after t comes n units later.
NextAt(t, n, pl) ==
  /\ DeliveryTime((t + n) % Period, pl)
  /\ \A d \in 1..n-1 : ~DeliveryTime((t + d) % Period, pl)

\* The period is a positive number of units.
LEMMA PeriodType == Period \in Nat \ {0}
BY ConstantsAssumption, MulGe DEF Period

\* Delivery times are the same in every period.
LEMMA SameInPeriod ==
  ASSUME NEW a \in Int, NEW pl \in Plans
  PROVE  DeliveryTime(a % Period, pl) <=> DeliveryTime(a, pl)
<1>1. Day \in Nat \ {0} /\ Week \in Nat \ {0}
  BY ConstantsAssumption
<1>2. (a % Period) % Day = a % Day /\ ((a % Period) \div Day) % Week = (a \div Day) % Week
  BY <1>1, Folded DEF Period
<1> QED BY <1>2 DEF DeliveryTime

\* An instant may be put within the period before time is added.
LEMMA Shift ==
  ASSUME NEW a \in Int, NEW x \in Int
  PROVE  ((a % Period) + x) % Period = (a + x) % Period
BY ModMod, PeriodType

\* NextDelay is the time until the next delivery time.
LEMMA NextDelayIsNext ==
  ASSUME NEW t \in Int, NEW pl \in Plans
  PROVE  NextDelay(t, pl) \in Nat \ {0} /\ NextAt(t, NextDelay(t, pl), pl)
<1> DEFINE W == IF pl.weekly THEN Week ELSE 1
           w == IF pl.weekly THEN pl.day ELSE 0
           c == Candidate(t, pl)
           d == NextDelay(t, pl)
<1>1. W \in Nat \ {0} /\ w \in 0..(W-1) /\ pl.hour \in 0..(Day-1) /\ Day \in Nat \ {0}
  BY ConstantsAssumption
<1>2. c = pl.hour - (t % Day) + Day * ((w - (t \div Day)) % W) /\ c \in Int
  <2>1. t % Day \in Int /\ t \div Day \in Int
    BY <1>1, DivMod
  <2>2. CASE pl.weekly
    <3>1. (pl.day - (t \div Day)) % Week \in Int
      BY <1>1, <2>1, <2>2, DivMod
    <3>2. Day * ((pl.day - (t \div Day)) % Week) \in Int
      BY <1>1, <3>1, Dist
    <3> QED BY <1>1, <2>1, <2>2, <3>2 DEF Candidate, HourDelay
  <2>3. CASE ~pl.weekly
    <3>1. (w - (t \div Day)) % W \in 0..(W-1) /\ W = 1
      BY <1>1, <2>1, <2>3, DivMod
    <3>2. (w - (t \div Day)) % W = 0 /\ Day * 0 = 0
      BY <1>1, <3>1
    <3> QED BY <1>1, <2>1, <2>3, <3>2 DEF Candidate, HourDelay
  <2> QED BY <2>2, <2>3
<1>3. d = (IF c > 0 THEN c ELSE c + Day * W) /\ d \in Int
  <2>1. Day * W \in Int /\ Day * W = IF pl.weekly THEN Period ELSE Day
    BY <1>1, Dist DEF Period
  <2> QED BY <1>2, <2>1 DEF NextDelay
<1> HIDE DEF c, d
<1>4. d = Gap(Day, W, t, pl.hour, w)
  BY <1>2, <1>3 DEF FirstGap, Gap
<1>5. ASSUME NEW x \in Int
      PROVE  DeliveryTime(x % Period, pl) <=> OnSlot(Day, W, x, pl.hour, w)
  <2>1. x \div Day \in Int
    BY <1>1, DivMod
  <2>2. (x \div Day) % 1 = 0
    BY <2>1, DivMod
  <2> QED BY <2>2, SameInPeriod DEF DeliveryTime, OnSlot
<1> HIDE DEF W, w
<1>6. /\ d \in Nat \ {0} /\ OnSlot(Day, W, t + d, pl.hour, w)
      /\ \A e \in 1..(d-1) : ~OnSlot(Day, W, t + e, pl.hour, w)
  BY <1>1, <1>4, NextSlot
<1>7. NextAt(t, d, pl)
  BY <1>5, <1>6 DEF NextAt
<1> QED BY <1>6, <1>7 DEF d

\* The same from a while ago: if it is not to come any more, it has come since.
LEMMA NextFromBefore ==
  ASSUME NEW t \in Int, NEW past \in Nat, NEW pl \in Plans,
         NEW n, n = NextDelay((t - past) % Period, pl) - past
  PROVE  n \in Int /\ NextAt(t, n, pl) /\ (n <= 0 => ~Clear(t, past, pl))
<1> DEFINE b == (t - past) % Period
           m == NextDelay(b, pl)
<1>1. b \in Int
  BY PeriodType, DivMod
<1>2. m \in Nat \ {0} /\ NextAt(b, m, pl) /\ n = m - past
  BY <1>1, NextDelayIsNext
<1>3. \A x \in Int : (b + x) % Period = (t + (x - past)) % Period
  <2> TAKE x \in Int
  <2>1. (b + x) % Period = ((t - past) + x) % Period
    BY Shift
  <2> QED BY <2>1
<1> HIDE DEF b, m
<1>4. (t + n) % Period = (b + m) % Period
  BY <1>2, <1>3
<1>5. \A d \in 1..n-1 : d + past \in 1..m-1 /\ (t + d) % Period = (b + (d + past)) % Period
  BY <1>2, <1>3
<1>6. NextAt(t, n, pl)
  BY <1>2, <1>4, <1>5 DEF NextAt
<1>7. ASSUME n <= 0 PROVE ~Clear(t, past, pl)
  <2>1. -n \in 0..past-1 /\ t - (-n) = t + n
    BY <1>2, <1>7
  <2> QED BY <1>2, <1>4, <2>1 DEF Clear, NextAt
<1> QED BY <1>2, <1>6, <1>7

\* A unit later.
LEMMA Later ==
  ASSUME NEW t \in Int, NEW pl \in Plans
  PROVE  /\ \A n \in Nat : NextAt(t, n, pl) => NextAt((t + 1) % Period, n - 1, pl)
         /\ NextAt(t, 1, pl) => DeliveryTime((t + 1) % Period, pl)
         /\ \A n \in Nat : Clear(t, n, pl) /\ ~DeliveryTime((t + 1) % Period, pl) =>
                             Clear((t + 1) % Period, n + 1, pl)
         /\ \A n \in Nat : Clear((t + 1) % Period, n + 1, pl) =>
                             Clear(t, n, pl) /\ ~DeliveryTime((t + 1) % Period, pl)
<1> DEFINE u == (t + 1) % Period
<1>1. \A x \in Int : (u + x) % Period = (t + (x + 1)) % Period
  <2> TAKE x \in Int
  <2>1. (u + x) % Period = ((t + 1) + x) % Period
    BY Shift
  <2> QED BY <2>1
<1>2. u \in Int /\ u % Period = u
  <2>1. u \in 0..(Period-1)
    BY PeriodType, DivMod
  <2> QED BY <2>1, PeriodType, Below
<1> HIDE DEF u
<1>3. ASSUME NEW n \in Nat, NextAt(t, n, pl) PROVE NextAt(u, n - 1, pl)
  <2>1. (u + (n - 1)) % Period = (t + n) % Period
    BY <1>1
  <2>2. \A d \in 1..(n-1)-1 : d + 1 \in 1..n-1 /\ (u + d) % Period = (t + (d + 1)) % Period
    BY <1>1
  <2> QED BY <1>3, <2>1, <2>2 DEF NextAt
<1>4. ASSUME NEW n \in Nat, Clear(t, n, pl), ~DeliveryTime(u, pl) PROVE Clear(u, n + 1, pl)
  <2> SUFFICES ASSUME NEW d \in 0..(n+1)-1 PROVE ~DeliveryTime((u - d) % Period, pl)
    BY DEF Clear
  <2>1. CASE d = 0
    BY <1>2, <1>4, <2>1
  <2>2. CASE d # 0
    <3>1. d - 1 \in 0..n-1 /\ u - d = u + (-d) /\ -d \in Int /\ t - (d - 1) = t + ((-d) + 1)
      BY <1>2, <2>2
    <3>2. (u - d) % Period = (t - (d - 1)) % Period
      BY <1>1, <3>1
    <3> QED BY <1>4, <3>1, <3>2 DEF Clear
  <2> QED BY <2>1, <2>2
<1>5. ASSUME NEW n \in Nat, Clear(u, n + 1, pl) PROVE Clear(t, n, pl) /\ ~DeliveryTime(u, pl)
  <2>1. 0 \in 0..(n+1)-1 /\ u - 0 = u
    BY <1>2
  <2>2. ASSUME NEW d \in 0..n-1 PROVE ~DeliveryTime((t - d) % Period, pl)
    <3>1. d + 1 \in 0..(n+1)-1 /\ u - (d + 1) = u + (-(d + 1)) /\ -(d + 1) \in Int
          /\ t - d = t + (-(d + 1) + 1)
      BY <1>2
    <3>2. (u - (d + 1)) % Period = (t - d) % Period
      BY <1>1, <3>1
    <3> QED BY <1>5, <3>1, <3>2 DEF Clear
  <2> QED BY <1>2, <1>5, <2>1, <2>2 DEF Clear
<1> QED BY <1>3, <1>4, <1>5 DEF NextAt, u

\* No time is clear.
LEMMA NowIsClear == \A t, pl : Clear(t, 0, pl)
BY DEF Clear

-----------------------------------------------------------------------------
\* The inductive invariant.

\* One thread runs passes, and users leave the plans as they are: of passes that overlap, and of
\* plans that change during a retry, what is claimed below is not true.
OnePass == \A p, q \in Pass : p = q
PlansStay == "update" \notin Requests

Statuses == {"absent", "new", "processing", "sent", "failed", "deleted"}
Items == [retry : BOOLEAN, plan : Plans]

Types ==
  /\ phase \in Int /\ creating \subseteq Schedule
  /\ status \in [Schedule -> Statuses] /\ plan \in [Schedule -> Plans] /\ due \in [Schedule -> Int]
  /\ attempts \in [Schedule -> Nat] /\ tries \in [Schedule -> Nat] /\ sends \in [Schedule -> Nat]
  /\ pc \in [Pass -> {"idle", "claiming", "sending", "recording"}] /\ passAge \in [Pass -> Nat]
  /\ todo \in [Pass -> SUBSET Schedule] /\ doing \in [Pass -> SUBSET Schedule]
  /\ ok \in [Pass -> BOOLEAN] /\ item \in [Pass -> [Schedule -> Items]]

\* What a pass has in hand, by where it is.
Hands ==
  \A p \in Pass :
    /\ pc[p] = "idle" => passAge[p] = 0
    /\ pc[p] \in {"idle", "claiming"} => todo[p] = {}
    /\ pc[p] # "recording" => doing[p] = {}
    /\ \A s, u \in doing[p] : s = u /\ s \notin todo[p]
    /\ \A s \in Holds(p) : status[s] \in {"processing", "deleted"} /\ item[p][s].plan = plan[s]

\* A row that is to be created has no history.
Unborn ==
  /\ \A s \in creating : status[s] = "absent"
  /\ \A s \in Schedule : status[s] = "absent" => tries[s] = 0 /\ sends[s] = 0

\* The row waits for a retry, or a pass retries it.
Waits(s) == status[s] = "failed" /\ CanRetry(attempts[s])
Retrying(s) == \E p \in Pass : s \in Holds(p) /\ item[p][s].retry

\* A row that does not wait for a retry is due at its next delivery time.
DueIsNext == \A s \in Rows : due[s] > 0 /\ ~Waits(s) => NextAt(phase, due[s], plan[s])

\* When a row is due, and no retry of it is waiting or under way, history has begun anew.
DueIsFresh ==
  \A s \in Rows : due[s] <= 0 /\ ~Waits(s) /\ ~Retrying(s) => tries[s] = 0 /\ sends[s] = 0

\* So it has when a delivery time has come since the pass began.
PassedIsFresh ==
  \A p \in Pass, s \in Schedule : ~Clear(phase, passAge[p], plan[s]) => tries[s] = 0 /\ sends[s] = 0

\* Claims are on record as attempts.
TriesAreAttempts ==
  \A s \in Schedule :
    /\ attempts[s] <= MaxAttempts /\ tries[s] <= MaxAttempts
    /\ status[s] = "failed" => attempts[s] > 0 /\ tries[s] <= attempts[s]
    /\ status[s] = "processing" => attempts[s] < MaxAttempts /\ tries[s] <= attempts[s] + 1

\* A report that is known to be sent is on record, or about to be.
SendsAreOnRecord ==
  \A s \in Schedule :
    /\ sends[s] <= 1
    /\ sends[s] # 0 =>
         /\ \A p \in Pass : s \notin todo[p]
         /\ \/ status[s] = "deleted"
            \/ status[s] = "sent" /\ due[s] > 0
            \/ status[s] = "processing" /\ \E p \in Pass : s \in doing[p] /\ ok[p]

\* What a pass has in hand it has counted, until a delivery time comes.
HeldIsCounted ==
  \A p \in Pass : \A s \in Holds(p) : Clear(phase, passAge[p], plan[s]) => tries[s] > 0

SlotInv ==
  /\ Types /\ Hands /\ Unborn /\ DueIsNext /\ DueIsFresh /\ PassedIsFresh /\ TriesAreAttempts
  /\ SendsAreOnRecord /\ HeldIsCounted

\* It is what the run checks.
LEMMA SlotsFollow == SlotInv => SlotsAreKept
<1> SUFFICES ASSUME SlotInv PROVE SlotsAreKept
  OBVIOUS
<1>1. NextIsDeliveryTime
  BY DEF SlotInv, DueIsNext, Waits, NextAt, NextIsDeliveryTime
<1>2. AttemptsWithinLimit /\ SlotTriesBounded /\ OneReportPerSlot
  BY DEF SlotInv, TriesAreAttempts, SendsAreOnRecord, AttemptsWithinLimit, SlotTriesBounded, OneReportPerSlot
<1> QED BY <1>1, <1>2 DEF SlotsAreKept

\* It holds before any schedule.
LEMMA InitialStates == Init => SlotInv
<1> SUFFICES ASSUME Init PROVE SlotInv
  OBVIOUS
<1>1. AnyPlan \in Plans
  BY ConstantsAssumption DEF AnyPlan
<1>2. Types /\ Hands /\ Rows = {}
  BY <1>1, PeriodType DEF Init, Types, Hands, Holds, Rows, Statuses, Items, NoItem
<1>3. PassedIsFresh
  BY NowIsClear DEF Init, PassedIsFresh
<1>4. Unborn /\ DueIsNext /\ DueIsFresh /\ TriesAreAttempts /\ SendsAreOnRecord
  BY <1>2, ConstantsAssumption DEF Init, Unborn, DueIsNext, DueIsFresh, TriesAreAttempts, SendsAreOnRecord
<1>5. HeldIsCounted
  BY DEF Init, HeldIsCounted, Holds
<1> QED BY <1>2, <1>3, <1>4, <1>5 DEF SlotInv

-----------------------------------------------------------------------------
\* Every action keeps it.

\* A unit of time: what comes is one closer, what came is one further.
LEMMA TickKeeps == SlotInv /\ Tick => SlotInv'
<1> SUFFICES ASSUME SlotInv, Tick PROVE SlotInv'
  OBVIOUS
<1> USE DEF SlotInv
<1> DEFINE Comes(s) == DeliveryTime(phase', plan[s])
<1>1. /\ phase' = (phase + 1) % Period /\ phase' \in Int
      /\ UNCHANGED <<status, plan, attempts, creating, pc, todo, item, doing, ok>>
      /\ tries' = [s \in Schedule |-> IF Comes(s) THEN 0 ELSE tries[s]]
      /\ sends' = [s \in Schedule |-> IF Comes(s) THEN 0 ELSE sends[s]]
      /\ passAge' = [p \in Pass |-> IF pc[p] = "idle" THEN 0 ELSE passAge[p] + 1]
      /\ Rows' = Rows
  BY PeriodType, DivMod DEF Tick, Types, Rows
<1> HIDE DEF Comes
<1>2. /\ due' \in [Schedule -> Int]
      /\ \A s \in Rows : due[s] > 0 => due'[s] = due[s] - 1
      /\ \A s \in Rows : due[s] <= 0 => due'[s] <= 0
  BY ConstantsAssumption DEF Tick, Types, Floor, Rows
<1>3. Types' /\ Hands' /\ Unborn'
  BY <1>1, <1>2 DEF Types, Hands, Unborn, Holds
<1>4. \A s \in Rows : due[s] > 0 /\ ~Waits(s) =>
        NextAt(phase', due'[s], plan[s]) /\ (due'[s] <= 0 => Comes(s))
  <2> SUFFICES ASSUME NEW s \in Rows, due[s] > 0, ~Waits(s)
               PROVE  NextAt(phase', due'[s], plan[s]) /\ (due'[s] <= 0 => Comes(s))
    OBVIOUS
  <2>1. NextAt(phase, due[s], plan[s]) /\ due[s] \in Nat /\ phase \in Int /\ plan[s] \in Plans
    BY DEF DueIsNext, Types, Rows
  <2> QED BY <1>1, <1>2, <2>1, Later DEF Comes
<1>5. DueIsNext'
  BY <1>1, <1>2, <1>4 DEF DueIsNext, Waits, Rows, Types
<1>6. DueIsFresh'
  <2> SUFFICES ASSUME NEW s \in Rows, due'[s] <= 0, ~Waits(s), ~Retrying(s), ~Comes(s)
               PROVE  tries[s] = 0 /\ sends[s] = 0
    BY <1>1 DEF DueIsFresh, Waits, Retrying, Holds, Rows, Types
  <2>1. due[s] <= 0
    BY <1>4 DEF Types, Rows
  <2> QED BY <2>1 DEF DueIsFresh
<1>7. PassedIsFresh'
  <2> SUFFICES ASSUME NEW p \in Pass, NEW s \in Schedule, ~Clear(phase', passAge'[p], plan[s]), ~Comes(s)
               PROVE  tries[s] = 0 /\ sends[s] = 0
    BY <1>1 DEF PassedIsFresh, Types
  <2>1. pc[p] # "idle" /\ passAge'[p] = passAge[p] + 1
    BY <1>1, NowIsClear
  <2>2. ~Clear(phase, passAge[p], plan[s])
    BY <1>1, <2>1, Later DEF Comes, Types
  <2> QED BY <2>2 DEF PassedIsFresh
<1>8. TriesAreAttempts'
  BY <1>1, ConstantsAssumption DEF TriesAreAttempts, Types
<1>9. SendsAreOnRecord'
  BY <1>1, <1>2, <1>4 DEF SendsAreOnRecord, Types, Rows, Waits
<1>10. HeldIsCounted'
  <2> SUFFICES ASSUME NEW p \in Pass, NEW s \in Holds(p), Clear(phase', passAge'[p], plan[s])
               PROVE  tries'[s] > 0
    BY <1>1 DEF HeldIsCounted, Holds
  <2>1. s \in Schedule /\ plan[s] \in Plans /\ pc[p] # "idle"
    BY DEF Holds, Types, Hands
  <2>2. passAge'[p] = passAge[p] + 1
    BY <1>1, <2>1
  <2>3. Clear(phase, passAge[p], plan[s]) /\ ~Comes(s)
    BY <1>1, <2>1, <2>2, Later DEF Comes, Types
  <2> QED BY <1>1, <2>1, <2>3 DEF HeldIsCounted
<1> QED BY <1>3, <1>5, <1>6, <1>7, <1>8, <1>9, <1>10

\* Nothing that it is about changes.
LEMMA OthersKeep ==
  SlotInv /\ UNCHANGED <<phase, status, plan, due, attempts, creating, passes, history>> => SlotInv'
BY DEF SlotInv, Types, Hands, Unborn, DueIsNext, DueIsFresh, PassedIsFresh, TriesAreAttempts,
       SendsAreOnRecord, HeldIsCounted, Rows, Holds, Waits, Retrying, passes, history

\* A row that comes is due next, and has no history.
LEMMA CreateKeeps ==
  SlotInv /\ (\E s \in Schedule : CreateChecked(s) \/ \E pl \in Plans : CreateInserted(s, pl)) => SlotInv'
<1> SUFFICES ASSUME SlotInv, NEW s \in Schedule,
                    CreateChecked(s) \/ \E pl \in Plans : CreateInserted(s, pl)
             PROVE  SlotInv'
  OBVIOUS
<1> USE DEF SlotInv
<1>1. CASE CreateChecked(s)
  BY <1>1 DEF CreateChecked, Types, Hands, Unborn, DueIsNext, DueIsFresh, PassedIsFresh,
              TriesAreAttempts, SendsAreOnRecord, HeldIsCounted, Rows, Holds, Waits, Retrying, rows, passes,
              history
<1>2. ASSUME NEW pl \in Plans, CreateInserted(s, pl) PROVE SlotInv'
  <2> DEFINE n == NextDelay(phase, pl)
  <2>1. n \in Nat \ {0} /\ NextAt(phase, n, pl)
    BY NextDelayIsNext DEF Types
  <2> HIDE DEF n
  <2>2. /\ status' = [status EXCEPT ![s] = "new"] /\ plan' = [plan EXCEPT ![s] = pl]
        /\ due' = [due EXCEPT ![s] = n] /\ creating' = creating \ {s}
        /\ UNCHANGED <<phase, attempts, pc, passAge, todo, item, doing, ok, tries, sends>>
        /\ status[s] = "absent" /\ tries[s] = 0 /\ sends[s] = 0 /\ Rows' = Rows \cup {s}
        /\ \A p \in Pass : s \notin Holds(p) /\ Holds(p)' = Holds(p)
    <3>1. status[s] = "absent" /\ tries[s] = 0 /\ sends[s] = 0
      BY <1>2 DEF CreateInserted, Unborn
    <3>2. \A p \in Pass : s \notin Holds(p)
      BY <3>1 DEF Hands
    <3> QED BY <1>2, <3>1, <3>2 DEF CreateInserted, Types, Rows, Holds, passes, history, n
  <2>3. Types' /\ Hands' /\ Unborn'
    BY <2>1, <2>2 DEF Types, Hands, Unborn, Statuses, Holds
  <2>4. DueIsNext' /\ DueIsFresh' /\ PassedIsFresh'
    BY <2>1, <2>2 DEF Types, DueIsNext, DueIsFresh, PassedIsFresh, Waits, Retrying, Rows
  <2>5. TriesAreAttempts' /\ SendsAreOnRecord' /\ HeldIsCounted'
    BY <2>1, <2>2 DEF Types, TriesAreAttempts, SendsAreOnRecord, HeldIsCounted
  <2> QED BY <2>3, <2>4, <2>5
<1> QED BY <1>1, <1>2

\* A row that is resumed is due next, whatever it was waiting for.
LEMMA ActivateKeeps == SlotInv /\ (\E s \in Schedule : Activate(s)) => SlotInv'
<1> SUFFICES ASSUME SlotInv, NEW s \in Schedule, Activate(s) PROVE SlotInv'
  OBVIOUS
<1> USE DEF SlotInv
<1> DEFINE n == NextDelay(phase, plan[s])
<1>1. n \in Nat \ {0} /\ NextAt(phase, n, plan[s])
  BY NextDelayIsNext DEF Types
<1> HIDE DEF n
<1>2. /\ due' = [due EXCEPT ![s] = n] /\ Rows' = Rows
      /\ UNCHANGED <<phase, status, plan, attempts, creating, pc, passAge, todo, item, doing, ok, tries, sends>>
      /\ \A p \in Pass : Holds(p)' = Holds(p)
  BY DEF Activate, Rows, Holds, passes, history, n
<1>3. Types' /\ Hands' /\ Unborn'
  BY <1>1, <1>2 DEF Types, Hands, Unborn
<1>4. DueIsNext' /\ DueIsFresh' /\ PassedIsFresh'
  BY <1>1, <1>2 DEF Types, DueIsNext, DueIsFresh, PassedIsFresh, Waits, Retrying, Rows
<1>5. TriesAreAttempts' /\ SendsAreOnRecord' /\ HeldIsCounted'
  BY <1>1, <1>2 DEF Types, TriesAreAttempts, SendsAreOnRecord, HeldIsCounted
<1> QED BY <1>3, <1>4, <1>5

\* A row that goes may still be in the hands of a pass.
LEMMA DeleteKeeps == SlotInv /\ (\E s \in Schedule : Delete(s)) => SlotInv'
<1> SUFFICES ASSUME SlotInv, NEW s \in Schedule, Delete(s) PROVE SlotInv'
  OBVIOUS
<1> USE DEF SlotInv
<1>1. /\ status' = [status EXCEPT ![s] = "deleted"] /\ due' = [due EXCEPT ![s] = 0]
      /\ attempts' = [attempts EXCEPT ![s] = 0] /\ Rows' = Rows \ {s} /\ s \in Rows
      /\ UNCHANGED <<phase, plan, creating, pc, passAge, todo, item, doing, ok, tries, sends>>
      /\ \A p \in Pass : Holds(p)' = Holds(p)
  BY DEF Delete, Types, Rows, Holds, passes, history
<1>2. Types' /\ Hands' /\ Unborn'
  BY <1>1 DEF Types, Hands, Unborn, Statuses, Rows, Holds
<1>3. DueIsNext' /\ DueIsFresh' /\ PassedIsFresh'
  BY <1>1 DEF Types, DueIsNext, DueIsFresh, PassedIsFresh, Waits, Retrying, Rows
<1>4. TriesAreAttempts' /\ SendsAreOnRecord' /\ HeldIsCounted'
  BY <1>1, ConstantsAssumption DEF Types, TriesAreAttempts, SendsAreOnRecord, HeldIsCounted
<1> QED BY <1>2, <1>3, <1>4

\* A pass begins, and what is in progress is in nobody's hands.
LEMMA BeginKeeps == OnePass /\ SlotInv /\ (\E p \in Pass : Begin(p)) => SlotInv'
<1> SUFFICES ASSUME OnePass, SlotInv, NEW p \in Pass, Begin(p) PROVE SlotInv'
  OBVIOUS
<1> USE DEF SlotInv
<1>1. /\ pc[p] = "idle" /\ pc' = [pc EXCEPT ![p] = "claiming"] /\ passAge[p] = 0
      /\ status' = [s \in Schedule |-> IF s \in StuckRows THEN "failed" ELSE status[s]]
      /\ attempts' = [s \in Schedule |-> IF s \in StuckRows THEN attempts[s] + 1 ELSE attempts[s]]
      /\ due' = [s \in Schedule |->
           IF s \in StuckRows /\ CanRetry(attempts[s] + 1) THEN Retry ELSE due[s]]
      /\ UNCHANGED <<phase, plan, creating, passAge, todo, item, doing, ok, tries, sends>>
  BY DEF Begin, Hands, history
<1>2. /\ \A q \in Pass : q = p /\ todo[q] = {} /\ doing[q] = {} /\ Holds(q) = {} /\ Holds(q)' = {}
      /\ Rows' = Rows /\ StuckRows \subseteq Rows
      /\ \A s \in StuckRows : status[s] = "processing"
  BY <1>1 DEF OnePass, Hands, Holds, Rows, StuckRows
<1>3. Types' /\ Hands' /\ Unborn'
  BY <1>1, <1>2, ConstantsAssumption DEF Types, Hands, Unborn, Statuses
<1>4. \A s \in Schedule : ~Waits(s)' => ~Waits(s) /\ due'[s] = due[s]
  BY <1>1, <1>2 DEF Waits, CanRetry
<1>5. DueIsNext' /\ DueIsFresh' /\ PassedIsFresh'
  BY <1>1, <1>2, <1>4 DEF Types, DueIsNext, DueIsFresh, PassedIsFresh, Retrying, Rows
<1>6. TriesAreAttempts'
  BY <1>1, <1>2, ConstantsAssumption DEF Types, TriesAreAttempts
<1>7. SendsAreOnRecord' /\ HeldIsCounted'
  BY <1>1, <1>2 DEF Types, SendsAreOnRecord, HeldIsCounted
<1> QED BY <1>3, <1>5, <1>6, <1>7

\* The end of a pass, whatever has become of its rows.
LEMMA EndType ==
  ASSUME Types, NEW p \in Pass, End(p)
  PROVE  /\ pc' \in [Pass -> {"idle", "claiming", "sending", "recording"}] /\ passAge' \in [Pass -> Nat]
         /\ todo' \in [Pass -> SUBSET Schedule] /\ doing' \in [Pass -> SUBSET Schedule]
         /\ ok' \in [Pass -> BOOLEAN] /\ item' \in [Pass -> [Schedule -> Items]]
         /\ pc'[p] = "idle" /\ passAge'[p] = 0 /\ todo'[p] = {} /\ doing'[p] = {} /\ Holds(p)' = {}
<1>1. NoItem \in Items
  BY ConstantsAssumption DEF NoItem, Items, AnyPlan
<1> QED BY <1>1 DEF Types, End, Holds

\* A pass that is cut short forgets what it had.
LEMMA CutShortKeeps ==
  OnePass /\ SlotInv /\ (\E p \in Pass : PassRaises(p) \/ Crash(p)) => SlotInv'
<1> SUFFICES ASSUME OnePass, SlotInv, NEW p \in Pass, PassRaises(p) \/ Crash(p) PROVE SlotInv'
  OBVIOUS
<1> USE DEF SlotInv
<1>1. /\ End(p) /\ UNCHANGED <<phase, status, plan, due, attempts, creating>>
      /\ tries' = [s \in Schedule |-> IF s \in Holds(p) THEN 0 ELSE tries[s]]
      /\ sends' = [s \in Schedule |-> IF s \in Holds(p) THEN 0 ELSE sends[s]]
      /\ \A q \in Pass : q = p
  BY DEF PassRaises, Crash, ForgetHeld, rows, OnePass
<1>2. /\ Types' /\ pc'[p] = "idle" /\ passAge'[p] = 0 /\ todo'[p] = {} /\ doing'[p] = {}
      /\ Holds(p)' = {} /\ Rows' = Rows
  BY <1>1, EndType DEF Types, Rows
<1>3. Hands' /\ Unborn'
  BY <1>1, <1>2 DEF Types, Hands, Unborn
<1>4. DueIsNext'
  BY <1>1, <1>2 DEF DueIsNext, Waits
<1>5. DueIsFresh'
  BY <1>1, <1>2 DEF Types, DueIsFresh, Waits, Retrying, Rows
<1>6. PassedIsFresh'
  BY <1>1, <1>2, NowIsClear DEF PassedIsFresh
<1>7. TriesAreAttempts'
  BY <1>1, ConstantsAssumption DEF Types, TriesAreAttempts
<1>8. SendsAreOnRecord' /\ HeldIsCounted'
  BY <1>1, <1>2 DEF Types, SendsAreOnRecord, HeldIsCounted, Holds
<1> QED BY <1>2, <1>3, <1>4, <1>5, <1>6, <1>7, <1>8

\* What a pass computes as the next time of a row is the next one, or has come since it began.
LEMMA NextOfIsNext ==
  ASSUME Types, NEW p \in Pass, NEW pl \in Plans
  PROVE  /\ NextOf(p, pl) \in Int
         /\ NextOf(p, pl) > 0 => NextAt(phase, NextOf(p, pl), pl)
         /\ NextOf(p, pl) <= 0 => ~Clear(phase, passAge[p], pl)
<1> DEFINE n == NextDelay((phase - passAge[p]) % Period, pl) - passAge[p]
<1>1. n \in Int /\ NextAt(phase, n, pl) /\ (n <= 0 => ~Clear(phase, passAge[p], pl))
  BY NextFromBefore DEF Types
<1>2. NextOf(p, pl) = Floor(n)
  BY DEF NextOf, Began
<1> HIDE DEF n
<1> QED BY <1>1, <1>2, ConstantsAssumption DEF Floor

\* A claim of a row that waits for no retry is the first since its delivery time.
LEMMA ClaimKeeps ==
  OnePass /\ SlotInv /\ (\E p \in Pass : \E S \in Claimable(p) : Claim(p, S)) => SlotInv'
<1> SUFFICES ASSUME OnePass, SlotInv, NEW p \in Pass, NEW S \in Claimable(p), Claim(p, S)
             PROVE  SlotInv'
  OBVIOUS
<1> USE DEF SlotInv
<1>1. /\ S \subseteq Rows /\ \A s \in S : due[s] <= 0
      /\ \A q \in Pass : q = p /\ todo[q] = {} /\ doing[q] = {}
  BY DEF Claimable, DueRows, Rows, Types, Claim, Hands, OnePass
<1> DEFINE Counts(s) == s \in S /\ Clear(phase, passAge[p], plan[s])
<1>2. /\ status' = [s \in Schedule |-> IF s \in S THEN "processing" ELSE status[s]]
      /\ attempts' = [s \in Schedule |-> IF s \in S /\ ~IsRetry(s) THEN 0 ELSE attempts[s]]
      /\ due' = [s \in Schedule |->
           IF s \in S THEN IF IsRetry(s) THEN due[s] ELSE NextOf(p, plan[s]) ELSE due[s]]
      /\ tries' = [s \in Schedule |-> IF Counts(s) /\ tries[s] < TriesCap THEN tries[s] + 1 ELSE tries[s]]
      /\ UNCHANGED <<phase, plan, creating, sends>>
  BY DEF Claim, DueAfterClaim, SameSlot, Clear
<1>3. /\ todo'[p] = S /\ doing'[p] = {} /\ Holds(p)' = S
      /\ \A s \in S : item'[p][s] = [retry |-> IsRetry(s), plan |-> plan[s]]
      /\ pc'[p] \in {"idle", "sending"} /\ (pc'[p] = "idle" => S = {} /\ passAge'[p] = 0)
      /\ (passAge'[p] = passAge[p] \/ passAge'[p] = 0) /\ (S # {} => passAge'[p] = passAge[p])
      /\ pc' \in [Pass -> {"idle", "claiming", "sending", "recording"}] /\ passAge' \in [Pass -> Nat]
      /\ todo' \in [Pass -> SUBSET Schedule] /\ doing' \in [Pass -> SUBSET Schedule]
      /\ ok' \in [Pass -> BOOLEAN] /\ item' \in [Pass -> [Schedule -> Items]]
  <2>1. CASE S = {} /\ End(p)
    BY <2>1, EndType
  <2>2. CASE S # {}
    <3>1. NoItem \in Items /\ \A s \in S : [retry |-> IsRetry(s), plan |-> plan[s]] \in Items
      BY ConstantsAssumption, <1>1 DEF NoItem, Items, AnyPlan, IsRetry, Types, Rows
    <3> DEFINE copies == [s \in Schedule |-> IF s \in S THEN [retry |-> IsRetry(s), plan |-> plan[s]] ELSE NoItem]
    <3>2. /\ pc' = [pc EXCEPT ![p] = "sending"] /\ todo' = [todo EXCEPT ![p] = S]
          /\ item' = [item EXCEPT ![p] = copies] /\ UNCHANGED <<passAge, doing, ok>>
      BY <2>2, Zenon DEF Claim
    <3>3. copies \in [Schedule -> Items] /\ S \subseteq Schedule
      BY <1>1, <3>1 DEF Rows
    <3>4. \A s \in S : copies[s] = [retry |-> IsRetry(s), plan |-> plan[s]]
      BY <3>3
    <3> HIDE DEF copies
    <3> QED BY <1>1, <2>2, <3>2, <3>3, <3>4 DEF Types, Holds
  <2> QED BY <2>1, <2>2 DEF Claim
<1> HIDE DEF Counts
<1>4. \A s \in S : ~Waits(s) => ~IsRetry(s) /\ tries[s] = 0 /\ sends[s] = 0
  BY <1>1 DEF DueIsFresh, Waits, IsRetry, Retrying, Holds
<1>5. \A s \in S : IsRetry(s) <=> Waits(s)
  BY <1>1 DEF TriesAreAttempts, Waits, IsRetry, Rows, Types
<1>6. \A s \in S : NextOf(p, plan[s]) \in Int
         /\ (NextOf(p, plan[s]) > 0 => NextAt(phase, NextOf(p, plan[s]), plan[s]))
         /\ (NextOf(p, plan[s]) <= 0 => ~Counts(s))
  BY <1>1, NextOfIsNext DEF Types, Rows, Counts
<1>7. Rows' = Rows /\ Types' /\ Hands' /\ Unborn'
  <2>1. Rows' = Rows
    BY <1>1, <1>2 DEF Rows
  <2>2. Types'
    BY <1>1, <1>2, <1>3, <1>6 DEF Types, Statuses, Rows
  <2>3. Hands'
    <3>1. \A s \in S : status'[s] = "processing" /\ item'[p][s].plan = plan'[s]
      <4> TAKE s \in S
      <4>1. item'[p][s] = [retry |-> IsRetry(s), plan |-> plan[s]] /\ plan' = plan
        BY <1>2, <1>3
      <4>2. status'[s] = "processing"
        BY <1>1, <1>2 DEF Rows
      <4> QED BY <4>1, <4>2
    <3>2. \A q \in Pass : q = p
      BY <1>1
    <3> SUFFICES /\ pc'[p] = "idle" => passAge'[p] = 0
                 /\ pc'[p] \in {"idle", "claiming"} => todo'[p] = {}
                 /\ pc'[p] # "recording" => doing'[p] = {}
                 /\ \A s, u \in doing'[p] : s = u /\ s \notin todo'[p]
                 /\ \A s \in todo'[p] \cup doing'[p] :
                       status'[s] \in {"processing", "deleted"} /\ item'[p][s].plan = plan'[s]
      BY <3>2, Zenon DEF Hands, Holds
    <3> QED BY <1>1, <1>3, <3>1 DEF Rows
  <2>4. Unborn'
    BY <1>1, <1>2 DEF Unborn, Rows, Types, Counts
  <2> QED BY <2>1, <2>2, <2>3, <2>4
<1>8. DueIsNext'
  BY <1>1, <1>2, <1>6, <1>7 DEF DueIsNext, Waits, Types, Rows
<1>9. DueIsFresh'
  <2> SUFFICES ASSUME NEW s \in Rows, due'[s] <= 0, ~Waits(s)', ~Retrying(s)'
               PROVE  tries'[s] = 0 /\ sends[s] = 0
    BY <1>2, <1>7 DEF DueIsFresh
  <2>1. CASE s \in S
    <3>1. ~IsRetry(s)
      <4>1. s \in Holds(p)'
        BY <1>3, <2>1
      <4>2. ~item'[p][s].retry
        BY <4>1, Zenon DEF Retrying
      <4>3. item'[p][s] = [retry |-> IsRetry(s), plan |-> plan[s]]
        BY <1>3, <2>1
      <4> QED BY <4>2, <4>3
    <3>2. due'[s] = NextOf(p, plan[s])
      BY <1>2, <2>1, <3>1 DEF Rows
    <3> QED BY <1>2, <1>4, <1>5, <1>6, <2>1, <3>1, <3>2 DEF Rows
  <2>2. CASE s \notin S
    <3>1. ~Waits(s) /\ ~Retrying(s) /\ due[s] <= 0 /\ tries'[s] = tries[s]
      BY <1>1, <1>2, <2>2 DEF Waits, Retrying, Holds, Rows, Counts
    <3> QED BY <3>1 DEF DueIsFresh
  <2> QED BY <2>1, <2>2
<1>10. PassedIsFresh'
  BY <1>1, <1>2, <1>3, NowIsClear DEF PassedIsFresh, Types, Counts
<1>11. TriesAreAttempts'
  <2> SUFFICES ASSUME NEW s \in Schedule
               PROVE  /\ attempts'[s] <= MaxAttempts /\ tries'[s] <= MaxAttempts
                      /\ status'[s] = "failed" => attempts'[s] > 0 /\ tries'[s] <= attempts'[s]
                      /\ status'[s] = "processing" => attempts'[s] < MaxAttempts /\ tries'[s] <= attempts'[s] + 1
    BY DEF TriesAreAttempts
  <2>1. CASE s \notin S
    BY <1>2, <2>1 DEF TriesAreAttempts, Types, Counts
  <2>2. CASE s \in S /\ IsRetry(s)
    <3>1. /\ status'[s] = "processing" /\ attempts'[s] = attempts[s] /\ status[s] = "failed"
          /\ tries'[s] = tries[s] \/ tries'[s] = tries[s] + 1
      BY <1>2, <2>2 DEF IsRetry
    <3>2. attempts[s] < MaxAttempts
      BY <2>2 DEF IsRetry, CanRetry
    <3> QED BY <3>1, <3>2, ConstantsAssumption DEF TriesAreAttempts, Types
  <2>3. CASE s \in S /\ ~IsRetry(s)
    BY <1>2, <1>4, <1>5, <2>3, ConstantsAssumption DEF Types
  <2> QED BY <2>1, <2>2, <2>3
<1>12. SendsAreOnRecord'
  BY <1>1, <1>2, <1>3, <1>4, <1>5 DEF SendsAreOnRecord, Types, Rows, Waits
<1>13. HeldIsCounted'
  <2> SUFFICES ASSUME NEW s \in S, Clear(phase, passAge'[p], plan[s]) PROVE tries'[s] > 0
    BY <1>1, <1>2, <1>3 DEF HeldIsCounted
  <2>1. Counts(s)
    <3>1. passAge'[p] = passAge[p]
      BY <1>3
    <3> QED BY <3>1 DEF Counts
  <2>2. s \in Schedule /\ tries[s] < TriesCap /\ tries[s] \in Nat
    BY <1>1, ConstantsAssumption DEF Rows, TriesAreAttempts, TriesCap, Types
  <2> QED BY <1>2, <2>1, <2>2
<1> QED BY <1>7, <1>8, <1>9, <1>10, <1>11, <1>12, <1>13

\* A report is sent, and known to be, once after a delivery time.
LEMMA SendKeeps ==
  OnePass /\ SlotInv
    /\ (\E p \in Pass, s \in Schedule : \E sent, arrived \in BOOLEAN : Send(p, s, sent, arrived))
  => SlotInv'
<1> SUFFICES ASSUME OnePass, SlotInv, NEW p \in Pass, NEW s \in Schedule,
                    NEW sent \in BOOLEAN, NEW arrived \in BOOLEAN, Send(p, s, sent, arrived)
             PROVE  SlotInv'
  OBVIOUS
<1> USE DEF SlotInv
<1> DEFINE Counts == sent /\ Clear(phase, passAge[p], plan[s])
<1>1. /\ pc[p] = "sending" /\ s \in todo[p] /\ doing[p] = {} /\ sends[s] = 0
      /\ pc' = [pc EXCEPT ![p] = "recording"] /\ todo' = [todo EXCEPT ![p] = todo[p] \ {s}]
      /\ doing' = [doing EXCEPT ![p] = {s}] /\ ok' = [ok EXCEPT ![p] = sent]
      /\ UNCHANGED <<phase, status, plan, due, attempts, creating, passAge, item, tries>>
      /\ \A q \in Pass : q = p
  BY DEF Send, SendsAreOnRecord, Hands, rows, OnePass
<1>2. sends' = [sends EXCEPT ![s] = IF Counts THEN 1 ELSE 0]
  <2>1. sends' = [sends EXCEPT ![s] = IF Counts /\ sends[s] < SendsCap THEN sends[s] + 1 ELSE sends[s]]
    BY DEF Send, SameSlot, Clear
  <2> QED BY <1>1, <2>1 DEF SendsCap
<1>3. Holds(p)' = Holds(p) /\ s \in Holds(p) /\ Rows' = Rows
  BY <1>1 DEF Holds, Rows, Types
<1>4. Counts => tries[s] > 0
  BY <1>3 DEF HeldIsCounted
<1>5. Clear(phase, passAge[p], plan[s]) \/ ~Counts
  OBVIOUS
<1> HIDE DEF Counts
<1>6. Types' /\ Hands' /\ Unborn'
  <2>1. Types'
    BY <1>1, <1>2 DEF Types
  <2>2. Hands'
    BY <1>1, <1>3 DEF Hands, Types
  <2>3. Unborn'
    BY <1>1, <1>2, <1>3 DEF Hands, Unborn, Types
  <2> QED BY <2>1, <2>2, <2>3
<1>7. DueIsNext' /\ TriesAreAttempts' /\ HeldIsCounted'
  BY <1>1, <1>3 DEF DueIsNext, TriesAreAttempts, HeldIsCounted, Waits
<1>8. DueIsFresh'
  <2> SUFFICES ASSUME NEW u \in Rows, due[u] <= 0, ~Waits(u), ~Retrying(u)
               PROVE  tries[u] = 0 /\ sends'[u] = 0
    BY <1>1, <1>3 DEF DueIsFresh, Waits, Retrying
  <2>1. tries[u] = 0 /\ sends[u] = 0
    BY DEF DueIsFresh
  <2> QED BY <1>2, <1>4, <2>1 DEF Types, Rows
<1>9. PassedIsFresh'
  BY <1>1, <1>2, <1>5 DEF PassedIsFresh, Types
<1>10. SendsAreOnRecord'
  <2> SUFFICES ASSUME NEW u \in Schedule
               PROVE  /\ sends'[u] <= 1
                      /\ sends'[u] # 0 =>
                           /\ u \notin todo'[p]
                           /\ \/ status[u] = "deleted"
                              \/ status[u] = "sent" /\ due[u] > 0
                              \/ status[u] = "processing" /\ u \in doing'[p] /\ ok'[p]
    BY <1>1 DEF SendsAreOnRecord
  <2>1. CASE u = s
    BY <1>1, <1>2, <1>3, <2>1 DEF Types, Hands, Counts
  <2>2. CASE u # s
    BY <1>1, <1>2, <2>2 DEF SendsAreOnRecord, Types
  <2> QED BY <2>1, <2>2
<1> QED BY <1>6, <1>7, <1>8, <1>9, <1>10

\* What is recorded is due next, or again when the retry is.
LEMMA RecordKeeps ==
  OnePass /\ SlotInv /\ (\E p \in Pass, s \in Schedule : Record(p, s)) => SlotInv'
<1> SUFFICES ASSUME OnePass, SlotInv, NEW p \in Pass, NEW s \in Schedule, Record(p, s)
             PROVE  SlotInv'
  OBVIOUS
<1> USE DEF SlotInv
<1>1. /\ pc[p] = "recording" /\ doing[p] = {s} /\ s \notin todo[p] /\ plan[s] \in Plans
      /\ item[p][s].plan = plan[s] /\ status[s] \in {"processing", "deleted"}
      /\ UNCHANGED <<phase, plan, creating, tries, sends>> /\ \A q \in Pass : q = p
  BY DEF Record, Hands, Holds, Types, history, OnePass
<1>2. /\ pc' \in [Pass -> {"idle", "claiming", "sending", "recording"}] /\ passAge' \in [Pass -> Nat]
      /\ todo' \in [Pass -> SUBSET Schedule] /\ doing' \in [Pass -> SUBSET Schedule]
      /\ ok' \in [Pass -> BOOLEAN] /\ item' \in [Pass -> [Schedule -> Items]]
      /\ todo'[p] = todo[p] /\ doing'[p] = {} /\ Holds(p)' = todo[p] /\ pc'[p] \in {"idle", "sending"}
      /\ (pc'[p] = "idle" => todo[p] = {} /\ passAge'[p] = 0)
      /\ (passAge'[p] = passAge[p] \/ passAge'[p] = 0) /\ (todo[p] # {} => passAge'[p] = passAge[p])
      /\ \A u \in todo[p] : item'[p][u] = item[p][u]
  <2>1. CASE todo[p] = {} /\ End(p)
    BY <2>1, EndType
  <2>2. CASE /\ todo[p] # {}
             /\ pc' = [pc EXCEPT ![p] = "sending"] /\ doing' = [doing EXCEPT ![p] = {}]
             /\ ok' = [ok EXCEPT ![p] = FALSE] /\ item' = [item EXCEPT ![p][s] = NoItem]
             /\ UNCHANGED <<passAge, todo, current>>
    <3>1. NoItem \in Items
      BY ConstantsAssumption DEF NoItem, Items, AnyPlan
    <3> QED BY <1>1, <2>2, <3>1 DEF Types, Holds
  <2> QED BY <2>1, <2>2, Zenon DEF Record
\* what the row is due at next, if it does not wait
<1> DEFINE n == IF item[p][s].retry THEN NextOf(p, plan[s]) ELSE due[s]
<1>3. /\ n \in Int
      /\ s \in Rows /\ n > 0 => NextAt(phase, n, plan[s])
      /\ s \in Rows /\ n <= 0 => tries[s] = 0 /\ sends[s] = 0
  <2>1. CASE item[p][s].retry
    BY <1>1, <2>1, NextOfIsNext DEF PassedIsFresh
  <2>2. CASE ~item[p][s].retry
    <3>1. ~Retrying(s) /\ (s \in Rows => ~Waits(s))
      BY <1>1, <2>2 DEF Retrying, Waits, Rows
    <3> QED BY <2>2, <3>1 DEF DueIsNext, DueIsFresh, Types
  <2> QED BY <2>1, <2>2
<1> HIDE DEF n
<1>4. Rows' = Rows /\ (s \in Rows <=> status[s] = "processing")
  BY <1>1 DEF Record, Recorded, Result, Rows, Types
<1>5. \A u \in Schedule : u # s => status'[u] = status[u] /\ attempts'[u] = attempts[u] /\ due'[u] = due[u]
  BY DEF Record, Recorded, Types
<1>6. /\ status' \in [Schedule -> Statuses] /\ attempts' \in [Schedule -> Nat] /\ due' \in [Schedule -> Int]
      /\ s \notin Rows => status'[s] = "deleted" /\ attempts'[s] = attempts[s]
      /\ s \in Rows /\ ok[p] => status'[s] = "sent" /\ attempts'[s] = 0 /\ due'[s] = n
      /\ s \in Rows /\ ~ok[p] =>
           /\ status'[s] = "failed" /\ attempts'[s] = attempts[s] + 1
           /\ ~CanRetry(attempts[s] + 1) => due'[s] = n
  <2>1. CASE s \notin Rows
    BY <1>1, <1>4, <2>1 DEF Record, Types
  <2>2. CASE s \in Rows
    <3>1. RetryOf(p) \in Int
      BY ConstantsAssumption DEF RetryOf, Floor, Types
    <3>2. DueAfterSuccess(p, s) = n
          /\ DueAfterFailure(p, s, attempts[s] + 1) = IF CanRetry(attempts[s] + 1) THEN RetryOf(p) ELSE n
      BY <1>1 DEF DueAfterSuccess, DueAfterFailure, n
    <3>3. /\ status' = [status EXCEPT ![s] = Result(p)]
          /\ attempts' = [attempts EXCEPT ![s] = IF ok[p] THEN 0 ELSE attempts[s] + 1]
          /\ due' = [due EXCEPT ![s] =
               IF ok[p] THEN n ELSE IF CanRetry(attempts[s] + 1) THEN RetryOf(p) ELSE n]
      BY <2>2, <3>2 DEF Record, Recorded
    <3> QED BY <1>3, <2>2, <3>1, <3>3 DEF Types, Statuses, Result
  <2> QED BY <2>1, <2>2
<1>7. Types' /\ Hands' /\ Unborn'
  <2>1. Types'
    BY <1>1, <1>2, <1>6 DEF Types
  <2>2. Hands'
    <3>1. ASSUME NEW u \in todo[p]
          PROVE  status'[u] \in {"processing", "deleted"} /\ item'[p][u].plan = plan'[u]
      <4>1. u # s /\ u \in Holds(p) /\ u \in Schedule
        BY <1>1 DEF Holds, Types
      <4> QED BY <1>1, <1>2, <1>5, <4>1 DEF Hands
    <3> SUFFICES /\ pc'[p] = "idle" => passAge'[p] = 0
                 /\ pc'[p] \in {"idle", "claiming"} => todo'[p] = {}
                 /\ pc'[p] # "recording" => doing'[p] = {}
                 /\ \A a, b \in doing'[p] : a = b /\ a \notin todo'[p]
                 /\ \A u \in todo'[p] \cup doing'[p] :
                       status'[u] \in {"processing", "deleted"} /\ item'[p][u].plan = plan'[u]
      BY <1>1, Zenon DEF Hands, Holds
    <3> QED BY <1>2, <3>1
  <2>3. Unborn'
    BY <1>1, <1>4, <1>5, <1>6 DEF Unborn, Types, Rows
  <2> QED BY <2>1, <2>2, <2>3
<1>8. DueIsNext'
  <2> SUFFICES ASSUME NEW u \in Rows, due'[u] > 0, ~Waits(u)' PROVE NextAt(phase, due'[u], plan[u])
    BY <1>1, <1>4 DEF DueIsNext
  <2>1. CASE u = s
    BY <1>3, <1>6, <2>1 DEF Waits
  <2>2. CASE u # s
    BY <1>5, <2>2 DEF DueIsNext, Waits, Rows
  <2> QED BY <2>1, <2>2
<1>9. DueIsFresh'
  <2> SUFFICES ASSUME NEW u \in Rows, due'[u] <= 0, ~Waits(u)', ~Retrying(u)'
               PROVE  tries[u] = 0 /\ sends[u] = 0
    BY <1>1, <1>4 DEF DueIsFresh
  <2>1. CASE u = s
    BY <1>3, <1>6, <2>1 DEF Waits
  <2>2. CASE u # s
    <3>1. ~Waits(u) /\ due[u] <= 0
      BY <1>5, <2>2 DEF Waits, Rows
    <3>2. ~Retrying(u)
      BY <1>1, <1>2, <2>2 DEF Retrying, Holds
    <3> QED BY <3>1, <3>2 DEF DueIsFresh
  <2> QED BY <2>1, <2>2
<1>10. PassedIsFresh'
  BY <1>1, <1>2, NowIsClear DEF PassedIsFresh
<1>11. TriesAreAttempts'
  <2> SUFFICES ASSUME NEW u \in Schedule
               PROVE  /\ attempts'[u] <= MaxAttempts /\ tries[u] <= MaxAttempts
                      /\ status'[u] = "failed" => attempts'[u] > 0 /\ tries[u] <= attempts'[u]
                      /\ status'[u] = "processing" => attempts'[u] < MaxAttempts /\ tries[u] <= attempts'[u] + 1
    BY <1>1 DEF TriesAreAttempts
  <2>1. CASE u # s
    BY <1>5, <2>1 DEF TriesAreAttempts
  <2>2. CASE u = s /\ s \in Rows
    <3>1. attempts[s] < MaxAttempts /\ tries[s] <= attempts[s] + 1 /\ tries[s] <= MaxAttempts
      BY <1>4, <2>2 DEF TriesAreAttempts
    <3> QED BY <1>6, <2>2, <3>1, ConstantsAssumption DEF Types
  <2>3. CASE u = s /\ s \notin Rows
    BY <1>6, <2>3 DEF TriesAreAttempts
  <2> QED BY <2>1, <2>2, <2>3
<1>12. SendsAreOnRecord'
  <2> SUFFICES ASSUME NEW u \in Schedule, sends[u] # 0
               PROVE  /\ u \notin todo[p]
                      /\ \/ status'[u] = "deleted"
                         \/ status'[u] = "sent" /\ due'[u] > 0
    BY <1>1, <1>2 DEF SendsAreOnRecord
  <2>1. CASE u = s
    BY <1>1, <1>3, <1>4, <1>6, <2>1 DEF SendsAreOnRecord
  <2>2. CASE u # s
    BY <1>1, <1>5, <2>2 DEF SendsAreOnRecord
  <2> QED BY <2>1, <2>2
<1>13. HeldIsCounted'
  BY <1>1, <1>2 DEF HeldIsCounted, Holds
<1> QED BY <1>7, <1>8, <1>9, <1>10, <1>11, <1>12, <1>13

-----------------------------------------------------------------------------
\* The theorem.

\* So does every step.
LEMMA StepsKeep == OnePass /\ PlansStay /\ SlotInv /\ [Next]_vars => SlotInv'
<1> SUFFICES ASSUME OnePass, PlansStay, SlotInv, [Next]_vars PROVE SlotInv'
  OBVIOUS
<1>1. CASE Tick
  BY <1>1, TickKeeps
<1>2. CASE Request
  <2>1. ~(\E s \in Schedule, pl \in Plans : Update(s, pl))
    BY DEF Update, PlansStay
  <2>2. ASSUME NEW s \in Schedule, Deactivate(s) PROVE SlotInv'
    BY <2>2, OthersKeep DEF Deactivate, passes, history
  <2> QED BY <1>2, <2>1, <2>2, CreateKeeps, ActivateKeeps, DeleteKeeps DEF Request
<1>3. CASE Fault
  <2>1. CASE Handover
    BY <2>1, OthersKeep DEF Handover, rows
  <2> QED BY <1>3, <2>1, CutShortKeeps DEF Fault
<1>4. CASE \E p \in Pass : Begin(p)
  BY <1>4, BeginKeeps
<1>5. CASE \E p \in Pass : Run(p)
  BY <1>5, ClaimKeeps, SendKeeps, RecordKeeps DEF Run
<1>6. CASE UNCHANGED vars
  BY <1>6, OthersKeep DEF vars, passes, history
<1> QED BY <1>1, <1>2, <1>3, <1>4, <1>5, <1>6 DEF Next

\* With one pass at a time, and as long as no user changes the plan of a schedule
\* (update_schedule), whatever crashes, fails, is paused, resumed or deleted: a row that waits
\* for no retry is due at the very next delivery time of its plan, no more than the limit of
\* attempts fall between two delivery times, and a report that is known to be sent is the last
\* one until the next (run_due_report_schedules_once), for any number of schedules, any plans,
\* any length of passes and any limits.
THEOREM SlotsAreKeptAlways ==
  ASSUME OnePass, PlansStay
  PROVE  Spec => []SlotsAreKept
<1>1. SlotInv /\ [Next]_vars => SlotInv'
  BY StepsKeep
<1> QED BY <1>1, InitialStates, SlotsFollow, PTL DEF Spec
-----------------------------------------------------------------------------
(***************************************************************************)
(* Passes that overlap, when a row gets one attempt: the claim of a row    *)
(* moves it past the instant at which the pass began, so that the next     *)
(* pass to claim it began at a delivery time after that.                   *)
(***************************************************************************)
OneAttempt == MaxAttempts = 1

\* What a pass has in hand, by where it is, and how long it has taken; no row is retried.
HandsByPlace ==
  \A p \in Pass :
    /\ \A s \in Schedule : ~item[p][s].retry
    /\ passAge[p] <= PassLimit
    /\ pc[p] = "idle" => passAge[p] = 0
    /\ pc[p] \in {"idle", "claiming"} => todo[p] = {}
    /\ pc[p] # "recording" => doing[p] = {}
    /\ \A s, u \in doing[p] : s = u /\ s \notin todo[p]

\* A row that a pass has in hand is due after the instant at which the pass began.
MovedOn == \A p \in Pass : \A s \in Holds(p) \cap Rows : due[s] > -passAge[p]

\* A row is due at a delivery time of its plan, as far as overdue rows are told apart.
DueAtSlots == \A s \in Rows : due[s] > -Late => DeliveryTime((phase + due[s]) % Period, plan[s])

\* It is in progress for no longer than any pass that has it, because the pass that
\* claimed it last began last.
AgesWithin ==
  \A p \in Pass : \A s \in Holds(p) : status[s] = "processing" => age[s] <= passAge[p]

OverlapInv ==
  /\ Types /\ age \in [Schedule -> Nat]
  /\ HandsByPlace /\ MovedOn /\ DueAtSlots /\ AgesWithin /\ SharedOnlyOverSlot

\* A delivery time that has come while a pass was at work.
LEMMA CameSince ==
  ASSUME NEW t \in Int, NEW n \in Int, NEW past \in Nat, NEW pl,
         n <= 0, n > -past, DeliveryTime((t + n) % Period, pl)
  PROVE  ~Clear(t, past, pl)
<1>1. -n \in 0..past-1 /\ t - (-n) = t + n
  OBVIOUS
<1> QED BY <1>1 DEF Clear

\* What a pass computes as the next time of a row is a delivery time after it began.
LEMMA NextOfIsSlot ==
  ASSUME Types, NEW p \in Pass, NEW pl \in Plans, passAge[p] <= PassLimit
  PROVE  /\ NextOf(p, pl) \in Int /\ NextOf(p, pl) > -passAge[p]
         /\ DeliveryTime((phase + NextOf(p, pl)) % Period, pl)
<1> DEFINE b == (phase - passAge[p]) % Period
           n == NextDelay(b, pl) - passAge[p]
<1>1. n \in Int /\ NextAt(phase, n, pl)
  BY NextFromBefore DEF Types
<1>2. b \in Int
  BY PeriodType, DivMod DEF Types
<1>3. n > -passAge[p]
  <2>1. NextDelay(b, pl) \in Nat \ {0}
    BY <1>2, NextDelayIsNext
  <2> HIDE DEF b
  <2> QED BY <2>1 DEF Types
<1>4. NextOf(p, pl) = Floor(n)
  BY DEF NextOf, Began
<1> HIDE DEF n
<1>5. Floor(n) = n
  BY <1>1, <1>3, ConstantsAssumption DEF Floor, Types
<1> QED BY <1>1, <1>3, <1>4, <1>5 DEF NextAt

\* Nothing waits for a retry.
LEMMA NoRetries ==
  ASSUME OneAttempt, Types, NEW s \in Schedule
  PROVE  ~IsRetry(s) /\ ~CanRetry(attempts[s] + 1)
BY DEF OneAttempt, IsRetry, CanRetry, Types

\* Passes that do not take more rows in hand, and rows that change only by being put
\* off to a delivery time to come, stay apart.
LEMMA LessInHand ==
  ASSUME OverlapInv, Types', age' \in [Schedule -> Nat], HandsByPlace', phase' = phase,
         \A p \in Pass : /\ Holds(p)' \subseteq Holds(p)
                         /\ Holds(p)' # {} => passAge'[p] = passAge[p]
                         /\ \A s \in Holds(p)' : item'[p][s] = item[p][s],
         \A s \in Rows' : \/ s \in Rows /\ due'[s] = due[s] /\ plan'[s] = plan[s]
                          \/ due'[s] > 0 /\ DeliveryTime((phase + due'[s]) % Period, plan'[s]),
         \A s \in Schedule : status'[s] = "processing" => status[s] = "processing" /\ age'[s] = age[s]
  PROVE  OverlapInv'
<1>1. MovedOn'
  <2> SUFFICES ASSUME NEW p \in Pass, NEW s \in Holds(p)', s \in Rows' PROVE due'[s] > -passAge'[p]
    BY DEF MovedOn
  <2>1. s \in Holds(p) /\ passAge'[p] = passAge[p] /\ passAge[p] \in Nat
    BY DEF OverlapInv, Types
  <2>2. CASE s \in Rows /\ due'[s] = due[s]
    BY <2>1, <2>2 DEF OverlapInv, MovedOn
  <2>3. CASE due'[s] > 0
    <3>1. due'[s] \in Int
      BY DEF Types, Rows
    <3> QED BY <2>1, <2>3, <3>1
  <2> QED BY <2>2, <2>3
<1>2. DueAtSlots'
  <2> SUFFICES ASSUME NEW s \in Rows', due'[s] > -Late
               PROVE  DeliveryTime((phase' + due'[s]) % Period, plan'[s])
    BY DEF DueAtSlots
  <2> QED BY DEF OverlapInv, DueAtSlots
<1>3. AgesWithin'
  <2> SUFFICES ASSUME NEW p \in Pass, NEW s \in Holds(p)', status'[s] = "processing"
               PROVE  age'[s] <= passAge'[p]
    BY DEF AgesWithin
  <2>1. s \in Holds(p) /\ s \in Schedule /\ passAge'[p] = passAge[p]
    BY DEF OverlapInv, Types, Holds
  <2> QED BY <2>1 DEF OverlapInv, AgesWithin
<1>4. SharedOnlyOverSlot'
  <2> SUFFICES ASSUME NEW p \in Pass, NEW q \in Pass, p # q, NEW s \in Holds(p)', s \in Holds(q)'
               PROVE  \E r \in {p, q} : ~SameSlot(p, item[r][s].plan)' \/ ~SameSlot(q, item[r][s].plan)'
    BY DEF SharedOnlyOverSlot
  <2>1. s \in Holds(p) \cap Holds(q) /\ \A r \in {p, q} : item'[r][s] = item[r][s] /\ passAge'[r] = passAge[r]
    OBVIOUS
  <2>2. PICK r \in {p, q} : ~SameSlot(p, item[r][s].plan) \/ ~SameSlot(q, item[r][s].plan)
    BY <2>1 DEF OverlapInv, SharedOnlyOverSlot
  <2>3. ~SameSlot(p, item[r][s].plan)' \/ ~SameSlot(q, item[r][s].plan)'
    BY <2>1, <2>2 DEF SameSlot
  <2> QED BY <2>3
<1> QED BY <1>1, <1>2, <1>3, <1>4 DEF OverlapInv

\* Time: what comes is one closer, and what came while a pass was at work has come.
LEMMA TickKeepsApart == OverlapInv /\ Tick => OverlapInv'
<1> SUFFICES ASSUME OverlapInv, Tick PROVE OverlapInv'
  OBVIOUS
<1> USE DEF OverlapInv
<1>1. /\ phase' = (phase + 1) % Period /\ phase' \in Int
      /\ UNCHANGED <<status, plan, attempts, creating, pc, todo, item, doing, ok>>
      /\ Rows' = Rows /\ \A p \in Pass : Holds(p)' = Holds(p)
  BY PeriodType, DivMod DEF Tick, Types, Rows, Holds
<1>2. \A p \in Pass : /\ pc[p] = "idle" => passAge'[p] = 0 /\ Holds(p) = {}
                      /\ pc[p] # "idle" => passAge'[p] = passAge[p] + 1 /\ passAge[p] < PassLimit
  BY DEF Tick, Types, HandsByPlace, Holds
<1>3. \A s \in Rows : due'[s] = Floor(due[s] - 1) /\ due[s] \in Int /\ s \in Schedule
  BY DEF Tick, Types, Rows
<1>4. Types' /\ age' \in [Schedule -> Nat] /\ HandsByPlace'
  <2>1. due' \in [Schedule -> Int]
    BY ConstantsAssumption DEF Tick, Types, Floor
  <2>2. tries' \in [Schedule -> Nat] /\ sends' \in [Schedule -> Nat] /\ age' \in [Schedule -> Nat]
    BY DEF Tick, Types
  <2>3. passAge' \in [Pass -> Nat]
    BY DEF Tick, Types
  <2>4. HandsByPlace'
    BY <1>1, <1>2, ConstantsAssumption DEF HandsByPlace, Types
  <2> QED BY <1>1, <2>1, <2>2, <2>3, <2>4 DEF Types
<1>5. MovedOn'
  <2> SUFFICES ASSUME NEW p \in Pass, NEW s \in Holds(p), s \in Rows PROVE due'[s] > -passAge'[p]
    BY <1>1 DEF MovedOn
  <2>1. due[s] > -passAge[p] /\ passAge'[p] = passAge[p] + 1 /\ passAge[p] < PassLimit /\ passAge[p] \in Nat
    BY <1>2 DEF MovedOn, Types
  <2> QED BY <1>3, <2>1, ConstantsAssumption DEF Floor
<1>6. DueAtSlots'
  <2> SUFFICES ASSUME NEW s \in Rows, due'[s] > -Late
               PROVE  DeliveryTime((phase' + due'[s]) % Period, plan[s])
    BY <1>1 DEF DueAtSlots
  <2>1. due'[s] = due[s] - 1 /\ due[s] > -Late /\ due[s] \in Int /\ phase \in Int
    BY <1>3, ConstantsAssumption DEF Floor, Types
  <2>2. (((phase + 1) % Period) + (due[s] - 1)) % Period = ((phase + 1) + (due[s] - 1)) % Period
    <3>1. phase + 1 \in Int /\ due[s] - 1 \in Int
      BY <2>1
    <3> QED BY <3>1, Shift
  <2>3. (phase + 1) + (due[s] - 1) = phase + due[s]
    BY <2>1
  <2> QED BY <1>1, <2>1, <2>2, <2>3 DEF DueAtSlots
<1>7. AgesWithin'
  <2> SUFFICES ASSUME NEW p \in Pass, NEW s \in Holds(p), status[s] = "processing"
               PROVE  age'[s] <= passAge'[p]
    BY <1>1 DEF AgesWithin
  <2>1. age[s] <= passAge[p] /\ passAge'[p] = passAge[p] + 1 /\ s \in Schedule
    BY <1>2 DEF AgesWithin, Types, Holds
  <2>2. age'[s] = age[s] \/ age'[s] = age[s] + 1
    BY <2>1 DEF Tick
  <2> QED BY <2>1, <2>2 DEF Types
<1>8. SharedOnlyOverSlot'
  <2> SUFFICES ASSUME NEW p \in Pass, NEW q \in Pass, p # q, NEW s \in Holds(p), s \in Holds(q)
               PROVE  \E r \in {p, q} : ~SameSlot(p, item[r][s].plan)' \/ ~SameSlot(q, item[r][s].plan)'
    BY <1>1 DEF SharedOnlyOverSlot
  <2>1. PICK r \in {p, q} : ~SameSlot(p, item[r][s].plan) \/ ~SameSlot(q, item[r][s].plan)
    BY DEF SharedOnlyOverSlot
  <2>2. ASSUME NEW o \in {p, q}, ~SameSlot(o, item[r][s].plan) PROVE ~SameSlot(o, item[r][s].plan)'
    <3>1. item[r][s].plan \in Plans /\ phase \in Int /\ passAge[o] \in Nat
      BY DEF Types, Items, Holds
    <3>2. ~Clear(phase, passAge[o], item[r][s].plan)
      BY <2>2 DEF SameSlot, Clear
    <3>3. passAge'[o] = passAge[o] + 1
      BY <1>2
    <3>4. ~Clear(phase', passAge'[o], item[r][s].plan)
      BY <1>1, <3>1, <3>2, <3>3, Later
    <3> QED BY <1>1, <3>4 DEF SameSlot, Clear
  <2> QED BY <2>1, <2>2
<1> QED BY <1>4, <1>5, <1>6, <1>7, <1>8

\* A claim: another pass that has the row began before the time at which it was due, and
\* the one that claims it did not.
LEMMA ClaimKeepsApart ==
  OneAttempt /\ OverlapInv /\ (\E p \in Pass : \E S \in Claimable(p) : Claim(p, S)) => OverlapInv'
<1> SUFFICES ASSUME OneAttempt, OverlapInv, NEW p \in Pass, NEW S \in Claimable(p), Claim(p, S)
             PROVE  OverlapInv'
  OBVIOUS
<1> USE DEF OverlapInv
<1>1. /\ S \subseteq Rows /\ \A s \in S : due[s] <= -passAge[p] /\ s \in Schedule
      /\ pc[p] = "claiming" /\ todo[p] = {} /\ doing[p] = {} /\ Holds(p) = {}
  BY DEF Claimable, DueRows, Rows, Claim, HandsByPlace, Holds
<1>2. /\ status' = [s \in Schedule |-> IF s \in S THEN "processing" ELSE status[s]]
      /\ attempts' = [s \in Schedule |-> IF s \in S THEN 0 ELSE attempts[s]]
      /\ due' = [s \in Schedule |-> IF s \in S THEN NextOf(p, plan[s]) ELSE due[s]]
      /\ UNCHANGED <<phase, plan, creating, sends>>
      /\ Rows' = Rows
  <2>1. \A s \in Schedule : ~IsRetry(s)
    BY NoRetries
  <2> QED BY <1>1, <2>1 DEF Claim, DueAfterClaim, Rows, Types
<1>3. /\ age' \in [Schedule -> Nat] /\ tries' \in [Schedule -> Nat]
      /\ \A s \in S : age'[s] <= passAge[p]
      /\ \A s \in Schedule \ S : age'[s] = age[s]
  <2>1. age' = [s \in Schedule |->
          IF s \in S THEN IF passAge[p] > Stuck THEN Stuck + 1 ELSE passAge[p] ELSE age[s]]
    BY DEF Claim
  <2>2. tries' \in [Schedule -> Nat]
    BY DEF Claim, Types
  <2> QED BY <1>1, <2>1, <2>2, ConstantsAssumption DEF Types
<1>4. /\ pc' \in [Pass -> {"idle", "claiming", "sending", "recording"}] /\ passAge' \in [Pass -> Nat]
      /\ todo' \in [Pass -> SUBSET Schedule] /\ doing' \in [Pass -> SUBSET Schedule]
      /\ ok' \in [Pass -> BOOLEAN] /\ item' \in [Pass -> [Schedule -> Items]]
      /\ Holds(p)' = S /\ doing'[p] = {} /\ pc'[p] \in {"idle", "sending"}
      /\ pc'[p] = "idle" => S = {} /\ passAge'[p] = 0
      /\ S # {} => passAge'[p] = passAge[p]
      /\ S = {} => passAge'[p] = 0
      /\ \A s \in S : item'[p][s].plan = plan[s]
      /\ \A s \in Schedule : ~item'[p][s].retry
      /\ \A q \in Pass \ {p} : /\ Holds(q)' = Holds(q) /\ passAge'[q] = passAge[q] /\ item'[q] = item[q]
                               /\ pc'[q] = pc[q] /\ todo'[q] = todo[q] /\ doing'[q] = doing[q]
  <2>1. CASE S = {} /\ End(p)
    <3>1. \A q \in Pass \ {p} : /\ Holds(q)' = Holds(q) /\ passAge'[q] = passAge[q] /\ item'[q] = item[q]
                                /\ pc'[q] = pc[q] /\ todo'[q] = todo[q] /\ doing'[q] = doing[q]
      BY <2>1 DEF End, Types, Holds
    <3>2. \A s \in Schedule : ~item'[p][s].retry
      BY <2>1 DEF End, NoItem, Types
    <3> QED BY <2>1, <3>1, <3>2, EndType
  <2>2. CASE S # {}
    <3> DEFINE copies == [s \in Schedule |-> IF s \in S THEN [retry |-> IsRetry(s), plan |-> plan[s]] ELSE NoItem]
    <3>1. /\ pc' = [pc EXCEPT ![p] = "sending"] /\ todo' = [todo EXCEPT ![p] = S]
          /\ item' = [item EXCEPT ![p] = copies] /\ UNCHANGED <<passAge, doing, ok>>
      BY <2>2, Zenon DEF Claim
    <3>2. NoItem \in Items /\ \A s \in S : [retry |-> IsRetry(s), plan |-> plan[s]] \in Items
      BY ConstantsAssumption, <1>1 DEF NoItem, Items, AnyPlan, IsRetry, Types
    <3>3. copies \in [Schedule -> Items] /\ S \subseteq Schedule /\ \A s \in S : copies[s].plan = plan[s]
      BY <1>1, <3>2
    <3>4. \A s \in Schedule : ~copies[s].retry
      <4>1. \A s \in Schedule : ~IsRetry(s)
        BY NoRetries
      <4> QED BY <4>1 DEF NoItem
    <3> HIDE DEF copies
    <3> QED BY <1>1, <2>2, <3>1, <3>3, <3>4 DEF Types, Holds
  <2> QED BY <2>1, <2>2 DEF Claim
<1>5. \A s \in S : /\ NextOf(p, plan[s]) \in Int /\ NextOf(p, plan[s]) > -passAge[p]
                   /\ DeliveryTime((phase + NextOf(p, plan[s])) % Period, plan[s])
  BY <1>1, NextOfIsSlot DEF HandsByPlace, Types
\* what another pass that has the row knows of it
<1>6. ASSUME NEW q \in Pass \ {p}, NEW s \in Holds(q), s \in S
      PROVE  passAge[p] < passAge[q] /\ ~Clear(phase, passAge[q], plan[s])
  <2>1. /\ due[s] > -passAge[q] /\ due[s] <= -passAge[p] /\ due[s] \in Int /\ phase \in Int
        /\ passAge[p] \in Nat /\ passAge[q] \in Nat /\ passAge[q] <= PassLimit /\ s \in Rows
    BY <1>1, <1>6 DEF MovedOn, Types, HandsByPlace
  <2>2. due[s] > -Late
    BY <2>1, ConstantsAssumption
  <2>3. DeliveryTime((phase + due[s]) % Period, plan[s])
    BY <2>1, <2>2 DEF DueAtSlots
  <2>4. due[s] <= 0
    BY <2>1
  <2>5. passAge[p] < passAge[q]
    BY <2>1
  <2>6. ASSUME NEW n \in Int, n = due[s] PROVE ~Clear(phase, passAge[q], plan[s])
    <3>1. n <= 0 /\ n > -passAge[q] /\ phase \in Int /\ passAge[q] \in Nat
      BY <2>1, <2>4, <2>6
    <3>2. DeliveryTime((phase + n) % Period, plan[s])
      BY <2>3, <2>6, Zenon
    <3> QED BY <3>1, <3>2, CameSince, ZenonT(30)
  <2> QED BY <2>1, <2>5, <2>6
<1>7. Types' /\ HandsByPlace'
  <2>1. due' \in [Schedule -> Int] /\ attempts' \in [Schedule -> Nat] /\ status' \in [Schedule -> Statuses]
    BY <1>2, <1>5 DEF Types, Statuses
  <2>2. HandsByPlace'
    <3> SUFFICES ASSUME NEW q \in Pass
                 PROVE  /\ \A s \in Schedule : ~item'[q][s].retry
                        /\ passAge'[q] <= PassLimit
                        /\ pc'[q] = "idle" => passAge'[q] = 0
                        /\ pc'[q] \in {"idle", "claiming"} => todo'[q] = {}
                        /\ pc'[q] # "recording" => doing'[q] = {}
                        /\ \A s, u \in doing'[q] : s = u /\ s \notin todo'[q]
      BY DEF HandsByPlace
    <3>1. CASE q = p
      <4>1. pc'[p] = "idle" => todo'[p] = {}
        BY <1>4 DEF Holds
      <4> QED BY <1>4, <3>1, <4>1, ConstantsAssumption DEF HandsByPlace
    <3>2. CASE q # p
      BY <1>4, <3>2 DEF HandsByPlace
    <3> QED BY <3>1, <3>2
  <2> QED BY <1>2, <1>3, <1>4, <2>1, <2>2 DEF Types
<1>8. MovedOn'
  <2> SUFFICES ASSUME NEW q \in Pass, NEW s \in Holds(q)', s \in Rows PROVE due'[s] > -passAge'[q]
    BY <1>2 DEF MovedOn
  <2>1. s \in Schedule /\ due[s] \in Int
    BY DEF Rows, Types
  <2>2. CASE q = p
    BY <1>2, <1>4, <1>5, <2>1, <2>2
  <2>3. CASE q # p /\ s \in S
    <3>1. passAge[p] < passAge[q] /\ passAge'[q] = passAge[q]
      BY <1>4, <1>6, <2>3
    <3>2. due'[s] \in Int /\ due'[s] > -passAge[p] /\ passAge[p] \in Nat /\ passAge[q] \in Nat
      BY <1>2, <1>5, <2>1, <2>3 DEF Types
    <3> QED BY <3>1, <3>2
  <2>4. CASE q # p /\ s \notin S
    BY <1>2, <1>4, <2>1, <2>4 DEF MovedOn
  <2> QED BY <2>2, <2>3, <2>4
<1>9. DueAtSlots'
  BY <1>2, <1>5 DEF DueAtSlots, Rows
<1>10. AgesWithin'
  <2> SUFFICES ASSUME NEW q \in Pass, NEW s \in Holds(q)', status'[s] = "processing"
               PROVE  age'[s] <= passAge'[q]
    BY DEF AgesWithin
  <2>1. CASE q = p
    BY <1>3, <1>4, <2>1
  <2>2. CASE q # p /\ s \in S
    <3>1. passAge[p] < passAge[q] /\ passAge'[q] = passAge[q] /\ age'[s] <= passAge[p]
      BY <1>3, <1>4, <1>6, <2>2
    <3>2. age'[s] \in Nat /\ passAge[p] \in Nat /\ passAge[q] \in Nat
      BY <1>1, <1>3, <2>2 DEF Types
    <3> QED BY <3>1, <3>2
  <2>3. CASE q # p /\ s \notin S
    <3>1. s \in Holds(q) /\ s \in Schedule /\ passAge'[q] = passAge[q]
      BY <1>4, <2>3 DEF Types, Holds
    <3> QED BY <1>2, <1>3, <2>3, <3>1 DEF AgesWithin
  <2> QED BY <2>1, <2>2, <2>3
<1>11. ASSUME NEW q \in Pass, NEW pl PROVE q # p => (SameSlot(q, pl)' <=> SameSlot(q, pl))
  BY <1>2, <1>4 DEF SameSlot
<1>12. ASSUME NEW q \in Pass \ {p}, NEW s \in S, s \in Holds(q)
       PROVE  ~SameSlot(q, item[p][s].plan)'
  <2>1. item'[p][s].plan = plan[s] /\ phase' = phase /\ passAge'[q] = passAge[q]
    BY <1>2, <1>4, <1>12
  <2>2. ~Clear(phase, passAge[q], plan[s])
    BY <1>6, <1>12
  <2> QED BY <2>1, <2>2 DEF SameSlot, Clear
<1>13. SharedOnlyOverSlot'
  <2> SUFFICES ASSUME NEW o \in Pass, NEW q \in Pass, o # q, NEW s \in Holds(o)', s \in Holds(q)'
               PROVE  \E r \in {o, q} : ~SameSlot(o, item[r][s].plan)' \/ ~SameSlot(q, item[r][s].plan)'
    BY DEF SharedOnlyOverSlot
  <2>1. CASE o = p
    BY <1>4, <1>12, <2>1
  <2>2. CASE q = p
    BY <1>4, <1>12, <2>2
  <2>3. CASE o # p /\ q # p
    <3>1. s \in Holds(o) \cap Holds(q) /\ item'[o] = item[o] /\ item'[q] = item[q]
      BY <1>4, <2>3
    <3>2. PICK r \in {o, q} : ~SameSlot(o, item[r][s].plan) \/ ~SameSlot(q, item[r][s].plan)
      BY <3>1 DEF SharedOnlyOverSlot
    <3>3. item'[r] = item[r]
      BY <3>1
    <3>4. ~SameSlot(o, item[r][s].plan)' \/ ~SameSlot(q, item[r][s].plan)'
      BY <1>2, <1>4, <2>3, <3>2, <3>3 DEF SameSlot
    <3> QED BY <3>4
  <2> QED BY <2>1, <2>2, <2>3
<1> QED BY <1>3, <1>7, <1>8, <1>9, <1>10, <1>13

\* A report is sent: the row stays in hand.
LEMMA SendKeepsApart ==
  OverlapInv /\ (\E p \in Pass, s \in Schedule : \E sent, arrived \in BOOLEAN : Send(p, s, sent, arrived))
  => OverlapInv'
<1> SUFFICES ASSUME OverlapInv, NEW p \in Pass, NEW s \in Schedule,
                    NEW sent \in BOOLEAN, NEW arrived \in BOOLEAN, Send(p, s, sent, arrived)
             PROVE  OverlapInv'
  OBVIOUS
<1> USE DEF OverlapInv
<1>1. /\ pc[p] = "sending" /\ s \in todo[p] /\ doing[p] = {}
      /\ pc' = [pc EXCEPT ![p] = "recording"] /\ todo' = [todo EXCEPT ![p] = todo[p] \ {s}]
      /\ doing' = [doing EXCEPT ![p] = {s}] /\ ok' = [ok EXCEPT ![p] = sent]
      /\ UNCHANGED <<phase, status, active, plan, due, age, attempts, creating, passAge, item, tries>>
  BY DEF Send, HandsByPlace, rows
<1>2. sends' \in [Schedule -> Nat]
  BY DEF Send, Types
<1>3. Types' /\ HandsByPlace'
  BY <1>1, <1>2 DEF Types, HandsByPlace
<1>4. \A q \in Pass : Holds(q)' \subseteq Holds(q)
  BY <1>1 DEF Holds, Types
<1>5. Rows' = Rows
  BY <1>1 DEF Rows
<1> QED BY <1>1, <1>3, <1>4, <1>5, LessInHand

\* The end of a pass takes its rows out of its hands.
LEMMA EndsApart ==
  ASSUME OverlapInv, NEW p \in Pass, End(p)
  PROVE  /\ \A q \in Pass : /\ Holds(q)' \subseteq Holds(q)
                            /\ Holds(q)' # {} => passAge'[q] = passAge[q]
                            /\ \A s \in Holds(q)' : item'[q][s] = item[q][s]
         /\ HandsByPlace'
<1> USE DEF OverlapInv
<1>1. /\ pc'[p] = "idle" /\ passAge'[p] = 0 /\ todo'[p] = {} /\ doing'[p] = {} /\ Holds(p)' = {}
      /\ \A s \in Schedule : ~item'[p][s].retry
  BY DEF End, Types, NoItem, Holds
<1>2. \A q \in Pass \ {p} : /\ Holds(q)' = Holds(q) /\ passAge'[q] = passAge[q] /\ item'[q] = item[q]
                            /\ pc'[q] = pc[q] /\ todo'[q] = todo[q] /\ doing'[q] = doing[q]
  BY DEF End, Types, Holds
<1>3. HandsByPlace'
  <2> SUFFICES ASSUME NEW q \in Pass
               PROVE  /\ \A s \in Schedule : ~item'[q][s].retry
                      /\ passAge'[q] <= PassLimit
                      /\ pc'[q] = "idle" => passAge'[q] = 0
                      /\ pc'[q] \in {"idle", "claiming"} => todo'[q] = {}
                      /\ pc'[q] # "recording" => doing'[q] = {}
                      /\ \A s, u \in doing'[q] : s = u /\ s \notin todo'[q]
    BY DEF HandsByPlace
  <2>1. CASE q = p
    BY <1>1, <2>1, ConstantsAssumption
  <2>2. CASE q # p
    BY <1>2, <2>2 DEF HandsByPlace
  <2> QED BY <2>1, <2>2
<1> QED BY <1>1, <1>2, <1>3

\* A result is recorded: the row is not put off, and out of hand.
LEMMA RecordKeepsApart ==
  OneAttempt /\ OverlapInv /\ (\E p \in Pass, s \in Schedule : Record(p, s)) => OverlapInv'
<1> SUFFICES ASSUME OneAttempt, OverlapInv, NEW p \in Pass, NEW s \in Schedule, Record(p, s)
             PROVE  OverlapInv'
  OBVIOUS
<1> USE DEF OverlapInv
<1>1. /\ pc[p] = "recording" /\ doing[p] = {s} /\ s \notin todo[p]
      /\ UNCHANGED <<phase, active, plan, age, creating, tries, sends>>
  BY DEF Record, HandsByPlace, Types, history
<1>2. /\ status' \in [Schedule -> Statuses] /\ attempts' \in [Schedule -> Nat] /\ due' = due
      /\ Rows' = Rows
      /\ \A u \in Schedule : status'[u] = "processing" => status[u] = "processing"
  <2>1. CASE s \notin Rows
    BY <2>1 DEF Record, Types, Rows
  <2>2. CASE s \in Rows
    <3>1. Recorded(p, s)
      BY <2>2 DEF Record
    <3>2. ~CanRetry(attempts[s] + 1) /\ ~item[p][s].retry
      BY NoRetries DEF HandsByPlace
    <3>3. due' = due
      BY <3>1, <3>2 DEF Recorded, DueAfterSuccess, DueAfterFailure, Types
    <3>4. /\ status' = [status EXCEPT ![s] = Result(p)] /\ Result(p) \in {"sent", "failed"}
          /\ attempts' \in [Schedule -> Nat]
      BY <3>1 DEF Recorded, Result, Types
    <3> QED BY <2>2, <3>3, <3>4 DEF Types, Statuses, Rows
  <2> QED BY <2>1, <2>2
<1>3. CASE End(p)
  <2>1. Types'
    BY <1>1, <1>2, <1>3, EndType DEF Types
  <2> QED BY <1>1, <1>2, <1>3, <2>1, EndsApart, LessInHand
<1>4. CASE /\ todo[p] # {}
           /\ pc' = [pc EXCEPT ![p] = "sending"] /\ doing' = [doing EXCEPT ![p] = {}]
           /\ ok' = [ok EXCEPT ![p] = FALSE] /\ item' = [item EXCEPT ![p][s] = NoItem]
           /\ UNCHANGED <<passAge, todo, current>>
  <2>1. NoItem \in Items /\ ~NoItem.retry
    BY ConstantsAssumption DEF NoItem, Items, AnyPlan
  <2>2. item' \in [Pass -> [Schedule -> Items]] /\ \A q \in Pass, u \in Schedule : ~item'[q][u].retry
    BY <1>4, <2>1 DEF Types, HandsByPlace
  <2>3. Types' /\ HandsByPlace'
    BY <1>1, <1>2, <1>4, <2>2 DEF Types, HandsByPlace
  <2>4. \A q \in Pass : /\ Holds(q)' \subseteq Holds(q) /\ passAge'[q] = passAge[q]
                        /\ \A u \in Holds(q)' : item'[q][u] = item[q][u]
    BY <1>1, <1>4 DEF Holds, Types
  <2> QED BY <1>1, <1>2, <2>3, <2>4, LessInHand
<1> QED BY <1>3, <1>4, Zenon DEF Record

\* A pass begins, or ends early: rows that it declares stuck are not put off.
LEMMA BeginKeepsApart ==
  OneAttempt /\ OverlapInv /\ (\E p \in Pass : Begin(p)) => OverlapInv'
<1> SUFFICES ASSUME OneAttempt, OverlapInv, NEW p \in Pass, Begin(p) PROVE OverlapInv'
  OBVIOUS
<1> USE DEF OverlapInv
<1>1. /\ pc[p] = "idle" /\ pc' = [pc EXCEPT ![p] = "claiming"]
      /\ status' = [s \in Schedule |-> IF s \in StuckRows THEN "failed" ELSE status[s]]
      /\ attempts' = [s \in Schedule |-> IF s \in StuckRows THEN attempts[s] + 1 ELSE attempts[s]]
      /\ due' = [s \in Schedule |->
           IF s \in StuckRows /\ CanRetry(attempts[s] + 1) THEN Retry ELSE due[s]]
      /\ UNCHANGED <<phase, active, plan, age, creating, passAge, todo, item, doing, ok, tries, sends>>
  BY DEF Begin, history
<1>2. due' = due
  BY <1>1, NoRetries DEF Types
<1>3. Rows' = Rows
  BY <1>1 DEF Rows, StuckRows
<1>4. Types' /\ HandsByPlace'
  BY <1>1, <1>2 DEF Types, HandsByPlace, Statuses
<1>5. \A q \in Pass : Holds(q)' = Holds(q)
  BY <1>1 DEF Holds
<1>6. \A s \in Schedule : status'[s] = "processing" => status[s] = "processing"
  BY <1>1
<1> QED BY <1>1, <1>2, <1>3, <1>4, <1>5, <1>6, LessInHand

LEMMA CutShortKeepsApart ==
  OverlapInv /\ (\E p \in Pass : PassRaises(p) \/ Crash(p)) => OverlapInv'
<1> SUFFICES ASSUME OverlapInv, NEW p \in Pass, PassRaises(p) \/ Crash(p) PROVE OverlapInv'
  OBVIOUS
<1> USE DEF OverlapInv
<1>1. /\ End(p) /\ UNCHANGED <<phase, status, active, plan, due, age, attempts, creating>>
      /\ ForgetHeld(p)
  BY DEF PassRaises, Crash, rows
<1>2. tries' \in [Schedule -> Nat] /\ sends' \in [Schedule -> Nat]
  BY <1>1 DEF ForgetHeld, Types
<1>3. Types' /\ Rows' = Rows
  BY <1>1, <1>2, EndType DEF Types, Rows
<1> QED BY <1>1, <1>3, EndsApart, LessInHand

\* Requests: a row that comes, goes, is resumed or gets another plan.
LEMMA RequestKeepsApart == OverlapInv /\ Request => OverlapInv'
<1> SUFFICES ASSUME OverlapInv, Request PROVE OverlapInv'
  OBVIOUS
<1> USE DEF OverlapInv
<1>0. Request => phase' = phase /\ UNCHANGED passes
  BY DEF Request, CreateChecked, CreateInserted, Update, Activate, Deactivate, Delete
<1>1. \A q \in Pass : Holds(q)' = Holds(q) /\ passAge'[q] = passAge[q] /\ item'[q] = item[q]
  BY <1>0 DEF passes, Holds
<1>2. HandsByPlace'
  BY <1>0 DEF HandsByPlace, passes
<1>3. ASSUME NEW s \in Schedule, NEW pl \in Plans
      PROVE  NextDelay(phase, pl) > 0 /\ NextDelay(phase, pl) \in Int
             /\ DeliveryTime((phase + NextDelay(phase, pl)) % Period, pl)
  BY NextDelayIsNext DEF NextAt, Types
<1>4. ASSUME NEW s \in Schedule, NEW pl \in Plans, CreateInserted(s, pl) PROVE OverlapInv'
  <2>1. /\ status' = [status EXCEPT ![s] = "new"] /\ plan' = [plan EXCEPT ![s] = pl]
        /\ due' = [due EXCEPT ![s] = NextDelay(phase, pl)] /\ creating' \subseteq creating
        /\ UNCHANGED <<age, attempts, tries, sends>>
    BY <1>4 DEF CreateInserted, history
  <2>2. Types'
    BY <1>0, <1>3, <2>1 DEF Types, Statuses, passes
  <2>3. \A u \in Rows' : u = s \/ (u \in Rows /\ due'[u] = due[u] /\ plan'[u] = plan[u])
    BY <2>1 DEF Rows, Types
  <2>4. due'[s] > 0 /\ DeliveryTime((phase + due'[s]) % Period, plan'[s])
    BY <1>3, <2>1 DEF Types
  <2>5. \A u \in Schedule : status'[u] = "processing" => status[u] = "processing"
    BY <2>1 DEF Types
  <2> QED BY <1>0, <1>1, <1>2, <2>1, <2>2, <2>3, <2>4, <2>5, LessInHand
<1>5. ASSUME NEW s \in Schedule, NEW pl \in Plans, Update(s, pl) PROVE OverlapInv'
  <2>1. /\ plan' = [plan EXCEPT ![s] = pl] /\ due' = [due EXCEPT ![s] = NextDelay(phase, pl)]
        /\ tries' \in [Schedule -> Nat] /\ sends' \in [Schedule -> Nat]
        /\ UNCHANGED <<status, age, attempts, creating>> /\ Rows' = Rows
    BY <1>5 DEF Update, Types, Rows
  <2>2. Types'
    BY <1>0, <1>3, <2>1 DEF Types, passes
  <2>3. \A u \in Rows' : u = s \/ (u \in Rows /\ due'[u] = due[u] /\ plan'[u] = plan[u])
    BY <2>1 DEF Rows, Types
  <2>4. due'[s] > 0 /\ DeliveryTime((phase + due'[s]) % Period, plan'[s])
    BY <1>3, <2>1 DEF Types
  <2> QED BY <1>0, <1>1, <1>2, <2>1, <2>2, <2>3, <2>4, LessInHand
<1>6. ASSUME NEW s \in Schedule, Activate(s) PROVE OverlapInv'
  <2>1. /\ due' = [due EXCEPT ![s] = NextDelay(phase, plan[s])] /\ plan[s] \in Plans
        /\ UNCHANGED <<status, plan, age, attempts, creating, tries, sends>> /\ Rows' = Rows
    BY <1>6 DEF Activate, Types, Rows, history
  <2>2. Types'
    BY <1>0, <1>3, <2>1 DEF Types, passes
  <2>3. \A u \in Rows' : u = s \/ (u \in Rows /\ due'[u] = due[u] /\ plan'[u] = plan[u])
    BY <2>1 DEF Rows, Types
  <2>4. due'[s] > 0 /\ DeliveryTime((phase + due'[s]) % Period, plan'[s])
    BY <1>3, <2>1 DEF Types
  <2> QED BY <1>0, <1>1, <1>2, <2>1, <2>2, <2>3, <2>4, LessInHand
<1>7. ASSUME NEW s \in Schedule, Delete(s) PROVE OverlapInv'
  <2>1. /\ status' = [status EXCEPT ![s] = "deleted"] /\ due' = [due EXCEPT ![s] = 0]
        /\ age' = [age EXCEPT ![s] = 0] /\ attempts' = [attempts EXCEPT ![s] = 0]
        /\ UNCHANGED <<plan, creating, tries, sends>>
    BY <1>7 DEF Delete, history
  <2>2. Types' /\ age' \in [Schedule -> Nat]
    BY <1>0, <2>1 DEF Types, Statuses, passes
  <2>3. \A u \in Rows' : u \in Rows /\ due'[u] = due[u] /\ plan'[u] = plan[u]
    BY <2>1 DEF Rows, Types
  <2>4. \A u \in Schedule : status'[u] = "processing" => status[u] = "processing" /\ age'[u] = age[u]
    BY <2>1 DEF Types
  <2> QED BY <1>0, <1>1, <1>2, <2>2, <2>3, <2>4, LessInHand
<1>8. ASSUME NEW s \in Schedule, CreateChecked(s) \/ Deactivate(s) PROVE OverlapInv'
  <2>1. UNCHANGED <<status, plan, due, age, attempts, tries, sends>> /\ creating' \subseteq Schedule
    BY <1>8 DEF CreateChecked, Deactivate, rows, history, Types
  <2>2. Types' /\ Rows' = Rows
    BY <1>0, <2>1 DEF Types, passes, Rows
  <2> QED BY <1>0, <1>1, <1>2, <2>1, <2>2, LessInHand
<1> QED BY <1>4, <1>5, <1>6, <1>7, <1>8 DEF Request

LEMMA OthersKeepApart ==
  OverlapInv /\ UNCHANGED <<phase, rows, creating, passes, history>> => OverlapInv'
BY DEF OverlapInv, Types, HandsByPlace, MovedOn, DueAtSlots, AgesWithin, SharedOnlyOverSlot, SameSlot,
       Rows, Holds, rows, passes, history

LEMMA StepsKeepApart == OneAttempt /\ OverlapInv /\ [Next]_vars => OverlapInv'
<1> SUFFICES ASSUME OneAttempt, OverlapInv, [Next]_vars PROVE OverlapInv'
  OBVIOUS
<1>1. CASE Fault
  <2>1. CASE Handover
    BY <2>1, OthersKeepApart DEF Handover
  <2> QED BY <1>1, <2>1, CutShortKeepsApart DEF Fault
<1>2. CASE \E p \in Pass : Run(p)
  BY <1>2, ClaimKeepsApart, SendKeepsApart, RecordKeepsApart DEF Run
<1>3. CASE UNCHANGED vars
  BY <1>3, OthersKeepApart DEF vars, rows, passes, history
<1> QED BY <1>1, <1>2, <1>3, TickKeepsApart, RequestKeepsApart, BeginKeepsApart DEF Next

LEMMA StartsApart == Init => OverlapInv
<1> SUFFICES ASSUME Init PROVE OverlapInv
  OBVIOUS
<1>1. Types /\ Rows = {}
  BY InitialStates DEF SlotInv, Init, Rows
<1>2. \A p \in Pass : Holds(p) = {}
  BY DEF Init, Holds
<1>3. age \in [Schedule -> Nat] /\ HandsByPlace
  BY ConstantsAssumption DEF Init, HandsByPlace, NoItem
<1> QED BY <1>1, <1>2, <1>3 DEF OverlapInv, MovedOn, DueAtSlots, AgesWithin, SharedOnlyOverSlot

\* Rows that get one attempt are shared by two passes only over a delivery time, for any number
\* of passes that overlap, whatever crashes, fails and is edited meanwhile; and as long as no
\* pass takes longer than it takes a row to get stuck, no pass fails a row that another has in
\* hand (run_due_report_schedules_once).
THEOREM OverlapsAreAlwaysApart ==
  ASSUME OneAttempt, PassLimit <= Stuck
  PROVE  Spec => OverlapsAreApart
<1>1. OverlapInv /\ [Next]_vars => OverlapInv'
  BY StepsKeepApart
<1>2. OverlapInv => SharedOnlyOverSlot
  BY DEF OverlapInv
<1>3. ASSUME OverlapInv, [Next]_vars
      PROVE  [\A p \in Pass : Begin(p) => \A s \in StuckRows, q \in Pass : s \notin Holds(q)]_vars
  <2> SUFFICES ASSUME NEW s \in StuckRows, NEW q \in Pass, s \in Holds(q) PROVE FALSE
    OBVIOUS
  <2>1. status[s] = "processing" /\ age[s] > Stuck /\ age[s] \in Nat /\ passAge[q] \in Nat
    BY <1>3 DEF StuckRows, OverlapInv, Types, Rows
  <2>2. age[s] <= passAge[q] /\ passAge[q] <= PassLimit
    BY <1>3, <2>1 DEF OverlapInv, AgesWithin, HandsByPlace
  <2> QED BY <2>1, <2>2, ConstantsAssumption
<1> QED BY <1>1, <1>2, <1>3, StartsApart, PTL DEF Spec, OverlapsAreApart, StuckIsAbandoned
=============================================================================
