--------------------------- MODULE TimerWheelProofs ---------------------------
(***************************************************************************)
(* For every base, every set of nodes and every set of delays: the nodes   *)
(* are where g_timer_poll will find them, and every timer fires at exactly *)
(* its tick (the wheel implements TimerService).                           *)
(*                                                                         *)
(* Placed is not inductive.  What it lacks is that a node on a level above *)
(* the first is there until its slot is handed down, and not after: the    *)
(* time at which that happens, expire without its lower digits, is still   *)
(* ahead (OnLevel).  At the tick at which it comes, what is left of the    *)
(* delay are these lower digits (DueTest, TimeComes), which is less than   *)
(* the reach of the level below.                                           *)
(***************************************************************************)
EXTENDS TimerWheel, FiniteSetTheorems, TLAPS

Ticks == 0 .. Span - 1

(* At time now, a timer that expires at e may stand in slot s.             *)
OnLevel(e, s, now) ==
  /\ s \in Slot
  /\ s[2] = Digit(e, s[1])
  /\ s[1] > 1 => /\ (e - now) % Span < Reach(s[1])
                 /\ (e - now) % Span > e % Reach(s[1] - 1)

LevelInv == \A h \in Handles : Pending(h) => OnLevel(expire[h], where[h], last)

PendingSet == {h \in Handles : Pending(h)}
CountInv == IsFiniteSet(PendingSet) /\ count = Cardinality(PendingSet)

IInv == TypeOK /\ CountInv /\ LevelInv

-----------------------------------------------------------------------------
(* Quotients and remainders *)

(* A number is made of its quotient and its remainder,                     *)
LEMMA Quotient ==
  ASSUME NEW x \in Int, NEW b \in Nat \ {0}
  PROVE  x \div b \in Int /\ x % b \in 0 .. b - 1 /\ x = b * (x \div b) + (x % b)
OBVIOUS

(* ... in one way only,                                                    *)
LEMMA OneWay ==
  ASSUME NEW b \in Nat \ {0}, NEW q \in Int, NEW p \in Int,
         NEW r \in 0 .. b - 1, NEW s \in 0 .. b - 1, b * q + r = b * p + s
  PROVE  q = p /\ r = s
<1>1. b * (q - p) = s - r
  OBVIOUS
<1>2. ~(q - p >= 1)
  BY <1>1
<1>3. ~(q - p <= -1)
  BY <1>1
<1> QED
  BY <1>2, <1>3

(* ... so what is put together like that comes apart like that.            *)
LEMMA Apart ==
  ASSUME NEW b \in Nat \ {0}, NEW q \in Int, NEW r \in 0 .. b - 1
  PROVE  (b * q + r) \div b = q /\ (b * q + r) % b = r
<1> DEFINE x == b * q + r
<1>1. x \in Int
  OBVIOUS
<1>2. x = b * (x \div b) + (x % b) /\ x \div b \in Int /\ x % b \in 0 .. b - 1
  BY <1>1, Quotient
<1> QED
  BY <1>2, OneWay

-----------------------------------------------------------------------------
(* Levels and digits *)

USE BaseAssumption

LEMMA ReachFacts ==
  /\ Span \in Nat \ {0}
  /\ Reach(0) = 1 /\ Reach(1) = Base /\ Reach(4) = Span
  /\ \A k \in 0 .. 4 : Reach(k) \in Nat \ {0}
  /\ \A k \in 1 .. 4 : Reach(k) = Reach(k - 1) * Base
  /\ \A k \in 0 .. 4 : \E M \in Nat \ {0} : Span = Reach(k) * M
  /\ \A j, k \in 0 .. 4 : j <= k => Reach(j) <= Reach(k)
<1> DEFINE A == Base  B == Base * Base  C == Base * Base * Base
<1>1. /\ Reach(0) = 1 /\ Reach(1) = A /\ Reach(2) = B /\ Reach(3) = C /\ Reach(4) = Span
  BY DEF Reach
<1>2. /\ A \in Nat /\ A > 1 /\ B = A * A /\ C = B * A /\ Span = C * A
  BY DEF Span
<1> HIDE DEF A, B, C
<1>3. B \in Nat /\ B > A
  BY <1>2
<1>4. C \in Nat /\ C > B
  BY <1>2, <1>3
<1>5. Span \in Nat /\ Span > C
  BY <1>2, <1>4
<1>6. \A k \in 0 .. 4 : k = 0 \/ k = 1 \/ k = 2 \/ k = 3 \/ k = 4
  OBVIOUS
<1>7. \A k \in 0 .. 4 : Reach(k) \in Nat \ {0}
  BY <1>1, <1>2, <1>3, <1>4, <1>5, <1>6
<1>8. \A k \in 1 .. 4 : Reach(k) = Reach(k - 1) * Base
  <2>1. A = Base
    BY DEF A
  <2>2. /\ Reach(1) = Reach(0) * Base /\ Reach(2) = Reach(1) * Base
        /\ Reach(3) = Reach(2) * Base /\ Reach(4) = Reach(3) * Base
    BY <1>1, <1>2, <2>1
  <2>3. \A k \in 1 .. 4 : k = 1 \/ k = 2 \/ k = 3 \/ k = 4
    OBVIOUS
  <2> QED
    BY <2>2, <2>3
<1>9. \A k \in 0 .. 4 : \E M \in Nat \ {0} : Span = Reach(k) * M
  <2>1. Span = 1 * Span /\ Span = A * C /\ Span = B * B /\ Span = C * A /\ Span = Span * 1
    BY <1>2, <1>3, <1>4, <1>5
  <2>2. Span \in Nat \ {0} /\ C \in Nat \ {0} /\ B \in Nat \ {0} /\ A \in Nat \ {0} /\ 1 \in Nat \ {0}
    BY <1>2, <1>3, <1>4, <1>5
  <2> QED
    BY <1>1, <1>6, <2>1, <2>2
<1>10. \A j, k \in 0 .. 4 : j <= k => Reach(j) <= Reach(k)
  BY <1>1, <1>2, <1>3, <1>4, <1>5, <1>6
<1> QED
  BY <1>1, <1>5, <1>7, <1>8, <1>9, <1>10, <1>2 DEF A

LEMMA TicksFacts == \A d \in Ticks : d \in Nat /\ d \in Int /\ d < Span
BY ReachFacts DEF Ticks

LEMMA DigitFacts ==
  ASSUME NEW x \in Int
  PROVE  /\ \A k \in Levels : Digit(x, k) \in 0 .. Base - 1
         /\ Digit(x, 1) = x % Base
<1>1. ASSUME NEW k \in Levels PROVE Digit(x, k) \in 0 .. Base - 1
  <2>1. Reach(k - 1) \in Nat \ {0}
    <3>1. k - 1 \in 0 .. 4
      BY DEF Levels
    <3> QED
      BY <3>1, ReachFacts
  <2>2. x \div Reach(k - 1) \in Int /\ Base \in Nat \ {0}
    BY <2>1, Quotient
  <2> QED
    BY <2>2, Quotient DEF Digit
<1>2. x \div 1 = x
  BY Quotient
<1> QED
  BY <1>1, <1>2, ReachFacts DEF Digit

(* schedule() finds a level for every delay, the lowest that reaches it.   *)
LEMMA LevelFacts ==
  ASSUME NEW d \in Ticks
  PROVE  /\ LevelFor(d) \in Levels
         /\ d < Reach(LevelFor(d))
         /\ LevelFor(d) > 1 => d >= Reach(LevelFor(d) - 1)
         /\ \A k \in Levels : d < Reach(k) => LevelFor(d) <= k
<1>1. \E k \in Levels : d < Reach(k) /\ (k > 1 => d >= Reach(k - 1))
  <2>1. d \in Nat /\ d < Reach(4) /\ {1, 2, 3, 4} \subseteq Levels
    BY ReachFacts DEF Ticks, Levels
  <2>2. /\ Reach(1) \in Nat /\ Reach(2) \in Nat /\ Reach(3) \in Nat
    BY ReachFacts
  <2>3. /\ 2 - 1 = 1 /\ 3 - 1 = 2 /\ 4 - 1 = 3
    OBVIOUS
  <2>4. CASE d < Reach(1)
    BY <2>1, <2>4
  <2>5. CASE d >= Reach(1) /\ d < Reach(2)
    BY <2>1, <2>3, <2>5
  <2>6. CASE d >= Reach(2) /\ d < Reach(3)
    BY <2>1, <2>3, <2>6
  <2>7. CASE d >= Reach(3)
    BY <2>1, <2>3, <2>7
  <2> QED
    BY <2>1, <2>2, <2>4, <2>5, <2>6, <2>7
<1>2. /\ LevelFor(d) \in Levels /\ d < Reach(LevelFor(d))
      /\ LevelFor(d) > 1 => d >= Reach(LevelFor(d) - 1)
  BY <1>1 DEF LevelFor
<1>3. ASSUME NEW k \in Levels, d < Reach(k), ~(LevelFor(d) <= k) PROVE FALSE
  <2>1. k \in 0 .. 4 /\ LevelFor(d) - 1 \in 0 .. 4 /\ k <= LevelFor(d) - 1 /\ LevelFor(d) > 1
    BY <1>2, <1>3 DEF Levels
  <2>2. Reach(k) <= Reach(LevelFor(d) - 1) /\ Reach(k) \in Nat /\ Reach(LevelFor(d) - 1) \in Nat
    BY <2>1, ReachFacts
  <2> QED
    BY <1>2, <1>3, <2>1, <2>2 DEF Ticks
<1> QED
  BY <1>2, <1>3

-----------------------------------------------------------------------------
(* Time *)

(* The clock and an expiry time, as far apart as their difference says.    *)
LEMMA Difference ==
  ASSUME NEW e \in Ticks, NEW now \in Ticks
  PROVE  /\ (e - now) % Span \in Ticks
         /\ e = now + ((e - now) % Span) \/ e = now + ((e - now) % Span) - Span
         /\ \A a \in Ticks : e = now + a \/ e = now + a - Span => (e - now) % Span = a
<1>1. Span \in Nat \ {0} /\ e - now \in Int /\ e - now < Span /\ e - now > -Span
  BY ReachFacts DEF Ticks
<1>2. CASE e - now >= 0
  <2>1. e - now \in 0 .. Span - 1 /\ e - now = Span * 0 + (e - now)
    BY <1>1, <1>2
  <2>2. (e - now) % Span = e - now
    BY <1>1, <2>1, Apart
  <2> QED
    BY <1>1, <1>2, <2>2 DEF Ticks
<1>3. CASE e - now < 0
  <2>1. e - now + Span \in 0 .. Span - 1 /\ -1 \in Int /\ Span * (-1) + (e - now + Span) = e - now
    BY <1>1, <1>3
  <2>3. (Span * (-1) + (e - now + Span)) % Span = e - now + Span
    BY <1>1, <2>1, Apart
  <2>2. (e - now) % Span = e - now + Span
    BY <2>1, <2>3
  <2> QED
    BY <1>1, <1>3, <2>2 DEF Ticks
<1> QED
  BY <1>1, <1>2, <1>3

(* A tick: what was ahead is one closer.                                   *)
LEMMA Closer ==
  ASSUME NEW e \in Ticks, NEW t \in Ticks, NEW now, now = (t + 1) % Span
  PROVE  /\ now \in Ticks
         /\ now = t + 1 \/ now = t + 1 - Span
         /\ (e - t) % Span > 0 => (e - now) % Span = ((e - t) % Span) - 1
<1>1. Span \in Nat \ {0} /\ t + 1 \in Int
  BY ReachFacts DEF Ticks
<1>2. /\ now \in Ticks
      /\ now = t + 1 \/ now = t + 1 - Span
  <2>1. CASE t + 1 < Span
    <3>1. t + 1 \in 0 .. Span - 1 /\ t + 1 = Span * 0 + (t + 1)
      BY <1>1, <2>1 DEF Ticks
    <3> QED
      BY <1>1, <3>1, Apart DEF Ticks
  <2>2. CASE t + 1 = Span
    <3>1. 0 \in 0 .. Span - 1 /\ t + 1 = Span * 1 + 0
      BY <1>1, <2>2
    <3>2. (t + 1) % Span = 0
      BY <1>1, <3>1, Apart
    <3> QED
      BY <1>1, <2>2, <3>2 DEF Ticks
  <2> QED
    BY <1>1, <2>1, <2>2 DEF Ticks
<1>3. ASSUME (e - t) % Span > 0 PROVE (e - now) % Span = ((e - t) % Span) - 1
  <2> DEFINE a == (e - t) % Span
  <2>1. a \in Ticks /\ (e = t + a \/ e = t + a - Span)
    BY Difference
  <2> HIDE DEF a
  <2>2. a > 0
    BY <1>3 DEF a
  <2>3. a - 1 \in Ticks /\ (e = now + (a - 1) \/ e = now + (a - 1) - Span)
    BY <1>1, <1>2, <2>1, <2>2 DEF Ticks
  <2>5. \A b \in Ticks : e = now + b \/ e = now + b - Span => (e - now) % Span = b
    BY <1>2, Difference
  <2>4. (e - now) % Span = a - 1
    BY <2>3, <2>5
  <2> QED
    BY <2>4 DEF a
<1> QED
  BY <1>2, <1>3

(* When level k is looked at, and e has the digit of the slot that is      *)
(* looked at, only the digits below are left of the delay.                 *)
LEMMA DueTest ==
  ASSUME NEW e \in Ticks, NEW now \in Ticks, NEW k \in 2 .. 4,
         (e - now) % Span < Reach(k), now % Reach(k - 1) = 0, Digit(now, k) = Digit(e, k)
  PROVE  (e - now) % Span = e % Reach(k - 1)
<1> DEFINE R == Reach(k - 1)
           a == (e - now) % Span
<1>1. R \in Nat \ {0} /\ Reach(k) = R * Base /\ Reach(k) \in Nat
  <2>1. k - 1 \in 0 .. 4 /\ k \in 1 .. 4 /\ k \in 0 .. 4
    OBVIOUS
  <2> QED
    BY <2>1, ReachFacts
<1>2. PICK M \in Nat \ {0} : Span = Reach(k) * M
  <2>1. k \in 0 .. 4
    OBVIOUS
  <2> QED
    BY <2>1, ReachFacts
<1>3. /\ a \in Nat /\ a < R * Base
      /\ e = now + a \/ e = now + a - Span
      /\ e \in Int /\ now \in Int
  BY <1>1, Difference, ReachFacts DEF Ticks
<1>d. (now \div R) % Base = (e \div R) % Base /\ now % R = 0
  BY DEF Digit
<1> HIDE DEF R, a
<1> DEFINE n == now \div R  m == e \div R  r == e % R  t == a \div R  s == a % R
<1>4. n \in Int /\ now = R * n
  <2>1. n \in Int /\ now = R * n + (now % R)
    BY <1>1, <1>3, Quotient
  <2> QED
    BY <1>1, <1>d, <2>1
<1>5. m \in Int /\ r \in 0 .. R - 1 /\ e = R * m + r
  BY <1>1, <1>3, Quotient
<1>6. t \in Int /\ s \in 0 .. R - 1 /\ a = R * t + s
  <2>1. a \in Int /\ R \in Nat \ {0}
    BY <1>1, <1>3
  <2> QED
    BY <2>1, Quotient
<1>e. m % Base = n % Base
  BY <1>d
<1>f. r = e % R
  OBVIOUS
<1> HIDE DEF n, m, r, t, s
<1>7. t \in 0 .. Base - 1
  <2>1. ~(t < 0)
    BY <1>1, <1>3, <1>6
  <2>2. ~(t >= Base)
    <3> SUFFICES ASSUME t >= Base PROVE FALSE
      OBVIOUS
    <3>1. R * t >= R * Base
      <4>1. t - Base \in Nat /\ R \in Nat
        BY <1>1, <1>6
      <4>2. R * (t - Base) \in Nat /\ R * t = R * (t - Base) + R * Base
        BY <4>1, <1>6
      <4> QED
        BY <1>1, <1>6, <4>2
    <3> QED
      BY <1>1, <1>3, <1>6, <3>1
  <2> QED
    BY <1>6, <2>1, <2>2
<1>8. \E c \in Int : R * m + r = R * n + (R * t + s) - c * (R * Base * M)
  <2>1. Span = R * Base * M /\ 0 \in Int /\ 1 \in Int
    BY <1>1, <1>2
  <2>2. CASE e = now + a
    <3>1. R * m + r = R * n + (R * t + s) - 0 * (R * Base * M)
      BY <1>1, <1>2, <1>4, <1>5, <1>6, <2>1, <2>2
    <3> QED
      BY <2>1, <3>1
  <2>3. CASE e = now + a - Span
    <3>1. e = now + a - 1 * Span
      BY <1>1, <1>2, <2>3
    <3>2. R * m + r = R * n + (R * t + s) - 1 * (R * Base * M)
      BY <1>4, <1>5, <1>6, <2>1, <3>1
    <3> QED
      BY <2>1, <3>2
  <2> QED
    BY <1>3, <2>2, <2>3
<1>9. t = 0 /\ s = r
  <2>1. Base \in Nat \ {0} /\ M \in Int /\ R \in Nat \ {0}
    BY <1>1
  <2>2. PICK c \in Int : R * m + r = R * n + (R * t + s) - c * (R * Base * M)
    BY <1>8
  <2>3. R * m + r = R * (n + t - c * (Base * M)) + s
    BY <1>4, <1>5, <1>6, <2>1, <2>2
  <2>4. n + t - c * (Base * M) \in Int
    BY <1>4, <1>6, <2>1
  <2>5. m = n + t - c * (Base * M) /\ r = s
    BY <1>5, <1>6, <2>1, <2>3, <2>4, OneWay
  <2> DEFINE u == m \div Base  v == n \div Base  w == m % Base
  <2>6. /\ u \in Int /\ v \in Int /\ w \in Int
        /\ m = Base * u + w /\ n = Base * v + w
    <3>1. u \in Int /\ w \in 0 .. Base - 1 /\ m = Base * u + w
      BY <1>5, <2>1, Quotient
    <3>2. v \in Int /\ n = Base * v + (n % Base)
      BY <1>4, <2>1, Quotient
    <3> QED
      BY <1>e, <3>1, <3>2
  <2> HIDE DEF u, v, w
  <2>7. Base * u = Base * v + t - Base * (c * M)
    <3>1. c * (Base * M) = Base * (c * M)
      BY <2>1
    <3> QED
      BY <1>6, <2>1, <2>5, <2>6, <3>1
  <2>8. Base * (u - v + c * M) + 0 = Base * 0 + t
    BY <1>7, <2>1, <2>6, <2>7
  <2>9. u - v + c * M \in Int /\ 0 \in Int /\ 0 \in 0 .. Base - 1
    BY <2>1, <2>6
  <2> QED
    BY <1>7, <2>1, <2>5, <2>8, <2>9, OneWay
<1>10. a = e % R
  BY <1>1, <1>5, <1>6, <1>9, <1>f
<1> QED
  BY <1>10 DEF R, a

(* And when only they are left, level k is looked at, at the slot of e.    *)
LEMMA TimeComes ==
  ASSUME NEW e \in Ticks, NEW now \in Ticks, NEW k \in 2 .. 4,
         (e - now) % Span = e % Reach(k - 1)
  PROVE  now % Reach(k - 1) = 0 /\ Digit(now, k) = Digit(e, k)
<1> DEFINE R == Reach(k - 1)
<1>1. R \in Nat \ {0} /\ Span \in Nat /\ e \in Nat /\ e < Span /\ now \in Nat /\ now < Span
  <2>1. k - 1 \in 0 .. 4
    OBVIOUS
  <2>2. R \in Nat \ {0}
    BY <2>1, ReachFacts
  <2>3. Span \in Nat \ {0}
    BY ReachFacts
  <2> QED
    BY <2>2, <2>3 DEF Ticks
<1> HIDE DEF R
<1>2. e % R \in 0 .. R - 1 /\ e = R * (e \div R) + (e % R) /\ e \div R \in Int
  BY <1>1, Quotient
<1>3. e = now + (e % R) \/ e = now + (e % R) - Span
  BY Difference DEF R
<1>4. e \div R >= 0
  BY <1>1, <1>2
<1>5. R * (e \div R) >= 0
  BY <1>1, <1>2, <1>4
<1>6. now = R * (e \div R) + 0
  BY <1>1, <1>2, <1>3, <1>5
<1>7. now % R = 0 /\ now \div R = e \div R
  <2>1. 0 \in 0 .. R - 1 /\ e \div R \in Int
    BY <1>1, <1>2
  <2>2. (R * (e \div R) + 0) % R = 0 /\ (R * (e \div R) + 0) \div R = e \div R
    BY <1>1, <2>1, Apart
  <2> QED
    BY <1>6, <2>2
<1> QED
  BY <1>7 DEF Digit, R

-----------------------------------------------------------------------------
(* Slots *)

LEMMA SlotFacts ==
  /\ Unlinked \notin Slot
  /\ \A v \in Slot : v = <<v[1], v[2]>> /\ v[1] \in 1 .. 4 /\ v[2] \in 0 .. Base - 1
BY DEF Slot, Levels, Unlinked

(* Where schedule() puts a node, it may stand.                             *)
LEMMA Scheduled ==
  ASSUME NEW e \in Ticks, NEW now \in Ticks
  PROVE  /\ OnLevel(e, SlotFor(e, (e - now) % Span), now)
         /\ SlotFor(e, (e - now) % Span)[1] = LevelFor((e - now) % Span)
<1> DEFINE a == (e - now) % Span  k == LevelFor(a)
<1>1. a \in Ticks
  BY Difference
<1>2. k \in Levels /\ a < Reach(k) /\ (k > 1 => a >= Reach(k - 1))
  BY <1>1, LevelFacts
<1>3. SlotFor(e, a) = <<k, Digit(e, k)>>
  BY DEF SlotFor
<1>4. Digit(e, k) \in 0 .. Base - 1
  BY <1>2, DigitFacts DEF Ticks
<1>5. k > 1 => a > e % Reach(k - 1)
  <2> SUFFICES ASSUME k > 1 PROVE a > e % Reach(k - 1)
    OBVIOUS
  <2>1. k - 1 \in 0 .. 4
    BY <1>2 DEF Levels
  <2>2. Reach(k - 1) \in Nat \ {0} /\ e \in Int
    <3>1. Reach(k - 1) \in Nat \ {0}
      BY <2>1, ReachFacts
    <3>2. e \in Int
      BY TicksFacts
    <3> QED
      BY <3>1, <3>2
  <2> HIDE DEF a, k
  <2>3. e % Reach(k - 1) \in 0 .. Reach(k - 1) - 1
    BY <2>2, Quotient
  <2> QED
    BY <1>1, <1>2, <2>2, <2>3 DEF Ticks
<1> HIDE DEF a, k
<1>6. OnLevel(e, <<k, Digit(e, k)>>, now)
  BY <1>2, <1>4, <1>5 DEF OnLevel, Slot, a
<1> QED
  BY <1>3, <1>6 DEF a, k

(* A node that may stand where it does is not in the slot handed down,     *)
LEMMA NotDue ==
  ASSUME NEW e \in Ticks, NEW now \in Ticks, NEW k \in 2 .. 4, NEW v,
         OnLevel(e, v, now), now % Reach(k - 1) = 0
  PROVE  v # <<k, Digit(now, k)>>
<1> SUFFICES ASSUME v = <<k, Digit(now, k)>> PROVE FALSE
  OBVIOUS
<1>1. /\ (e - now) % Span < Reach(k) /\ (e - now) % Span > e % Reach(k - 1)
      /\ Digit(now, k) = Digit(e, k)
  BY DEF OnLevel
<1>2. (e - now) % Span = e % Reach(k - 1)
  BY <1>1, DueTest
<1>3. (e - now) % Span \in Int
  BY Difference DEF Ticks
<1> QED
  BY <1>1, <1>2, <1>3

(* ... and at the next tick it may stand there still, or is due to move to *)
(* a level below.                                                          *)
LEMMA NextTick ==
  ASSUME NEW e \in Ticks, NEW t \in Ticks, NEW now, now = (t + 1) % Span,
         NEW v, OnLevel(e, v, t)
  PROVE  \/ OnLevel(e, v, now)
         \/ /\ v[1] \in 2 .. 4
            /\ now % Reach(v[1] - 1) = 0
            /\ v = <<v[1], Digit(now, v[1])>>
            /\ (e - now) % Span < Reach(v[1] - 1)
<1> DEFINE k == v[1]  a == (e - now) % Span
<1>1. now \in Ticks
  BY Closer
<1>2. v \in Slot /\ v = <<k, v[2]>> /\ k \in 1 .. 4 /\ v[2] = Digit(e, k)
  BY SlotFacts DEF OnLevel
<1>3. CASE k = 1
  BY <1>2, <1>3 DEF OnLevel
<1>4. CASE k > 1
  <2>1. k \in 2 .. 4 /\ k - 1 \in 0 .. 4 /\ k \in 0 .. 4
    BY <1>2, <1>4
  <2>2. Reach(k - 1) \in Nat \ {0} /\ Reach(k) \in Nat
    BY <2>1, ReachFacts
  <2>3. e % Reach(k - 1) \in 0 .. Reach(k - 1) - 1
    <3>1. e \in Int
      BY TicksFacts
    <3> QED
      BY <2>2, <3>1, Quotient
  <2>4. (e - t) % Span < Reach(k) /\ (e - t) % Span > e % Reach(k - 1)
    BY <1>4 DEF OnLevel
  <2>5. (e - t) % Span \in Nat /\ a \in Nat
    BY <1>1, Difference, TicksFacts
  <2>6. (e - t) % Span > 0
    BY <2>3, <2>4, <2>5
  <2>7. a = ((e - t) % Span) - 1
    BY <2>6, Closer
  <2> HIDE DEF a
  <2>8. a < Reach(k) /\ a >= e % Reach(k - 1)
    BY <2>2, <2>3, <2>4, <2>5, <2>7
  <2>9. CASE a > e % Reach(k - 1)
    BY <1>2, <2>8, <2>9 DEF OnLevel, a
  <2>10. CASE a = e % Reach(k - 1)
    <3>1. now % Reach(k - 1) = 0 /\ Digit(now, k) = Digit(e, k)
      BY <1>1, <2>1, <2>10, TimeComes DEF a
    <3>2. a < Reach(k - 1)
      BY <2>2, <2>3, <2>10
    <3> QED
      BY <1>2, <2>1, <3>1, <3>2 DEF a
  <2> QED
    BY <2>3, <2>5, <2>8, <2>9, <2>10
<1> QED
  BY <1>2, <1>3, <1>4

(* What g_timer_start schedules is d ticks ahead.                          *)
LEMMA Later ==
  ASSUME NEW t \in Ticks, NEW d \in Ticks
  PROVE  (t + d) % Span \in Ticks /\ (((t + d) % Span) - t) % Span = d
<1>1. Span \in Nat \ {0} /\ t \in Nat /\ d \in Nat /\ t < Span /\ d < Span
  BY ReachFacts DEF Ticks
<1>2. CASE t + d < Span
  <2>1. t + d \in 0 .. Span - 1 /\ 0 \in Int /\ Span * 0 + (t + d) = t + d
    BY <1>1, <1>2
  <2>2. (Span * 0 + (t + d)) % Span = t + d
    BY <1>1, <2>1, Apart
  <2>3. (t + d) % Span = t + d /\ (t + d) % Span \in Ticks
    BY <2>1, <2>2 DEF Ticks
  <2>4. \A e \in Ticks : e = t + d \/ e = t + d - Span => (e - t) % Span = d
    BY Difference
  <2> QED
    BY <2>3, <2>4
<1>3. CASE t + d >= Span
  <2>1. t + d - Span \in 0 .. Span - 1 /\ 1 \in Int /\ Span * 1 + (t + d - Span) = t + d
    BY <1>1, <1>3
  <2>2. (Span * 1 + (t + d - Span)) % Span = t + d - Span
    BY <1>1, <2>1, Apart
  <2>3. (t + d) % Span = t + d - Span /\ (t + d) % Span \in Ticks
    BY <2>1, <2>2 DEF Ticks
  <2>4. \A e \in Ticks : e = t + d \/ e = t + d - Span => (e - t) % Span = d
    BY Difference
  <2> QED
    BY <2>3, <2>4
<1> QED
  BY <1>1, <1>2, <1>3

-----------------------------------------------------------------------------
(* Handing down *)

(* What g_timer_poll does with level k, and the whole of it.               *)
Down(w, now, k) == IF now % Reach(k - 1) # 0 THEN w
                   ELSE Rescheduled(w, <<k, Digit(now, k)>>, now)

LEMMA CascadedIsDown ==
  ASSUME NEW w, NEW now
  PROVE  Cascaded(w, now) = Down(Down(Down(w, now, 4), now, 3), now, 2)
BY DEF Cascaded, Down

(* With the levels from k on handed down, a node stands in slot v: where   *)
(* it stood, or, from a level above the first, where it was scheduled.     *)
Stays(h, v, k, now) == v = where[h] /\ (v[1] >= k => OnLevel(expire[h], v, now))
Moves(h, v, now) == /\ where[h][1] > 1
                    /\ v = SlotFor(expire[h], (expire[h] - now) % Span)
PassedNode(h, v, k, now) ==
  IF Pending(h) THEN Stays(h, v, k, now) \/ Moves(h, v, now) ELSE v = Unlinked

Passed(w, k, now) ==
  /\ w \in [Handles -> Slot \cup {Unlinked}]
  /\ \A h \in Handles : PassedNode(h, w[h], k, now)

LEMMA DownNode ==
  ASSUME TypeOK, LevelInv, NEW now, now = (last + 1) % Span, NEW k \in 2 .. 4,
         NEW w, Passed(w, k + 1, now), NEW h \in Handles
  PROVE  PassedNode(h, Down(w, now, k)[h], k, now)
<1> DEFINE e == expire[h]  v == w[h]  x == <<k, Digit(now, k)>>
           y == SlotFor(e, (e - now) % Span)
<1>1. e \in Ticks /\ last \in Ticks
  BY DEF TypeOK, Ticks
<1>2. now \in Ticks
  BY <1>1, Closer
<1>3. k \in 2 .. 4 /\ x[1] = k /\ k > 1 /\ x \in Slot
  <2>1. k \in Levels /\ now \in Int
    BY <1>2, TicksFacts DEF Levels
  <2>2. Digit(now, k) \in 0 .. Base - 1
    BY <2>1, DigitFacts
  <2> QED
    BY <2>1, <2>2 DEF Slot
<1>4. PassedNode(h, v, k + 1, now)
  BY DEF Passed
<1>5. OnLevel(e, y, now) /\ y[1] = LevelFor((e - now) % Span)
  BY <1>1, <1>2, Scheduled
<1>6. Down(w, now, k)[h] = IF now % Reach(k - 1) # 0 \/ v # x THEN v
                          ELSE IF y = x THEN Unlinked ELSE y
  BY DEF Down, Rescheduled
<1> HIDE DEF e, v, x, y
<1>7. CASE ~Pending(h)
  <2>1. v = Unlinked /\ v # x
    BY <1>3, <1>4, <1>7, SlotFacts DEF PassedNode
  <2> QED
    BY <1>6, <1>7, <2>1 DEF PassedNode
<1>8. CASE Pending(h) /\ Moves(h, v, now)
  <2>1. v = y
    BY <1>8 DEF Moves, e, y
  <2>2. now % Reach(k - 1) = 0 => v # x
    BY <1>1, <1>2, <1>3, <1>5, <2>1, NotDue DEF x
  <2> QED
    BY <1>6, <1>8, <2>2 DEF PassedNode
<1>9. CASE Pending(h) /\ Stays(h, v, k + 1, now)
  <2>1. v = where[h] /\ (v[1] >= k + 1 => OnLevel(e, v, now))
    BY <1>9 DEF Stays, e
  <2>2. OnLevel(e, v, last) /\ v \in Slot /\ v[1] \in 1 .. 4
    BY <1>9, <2>1, SlotFacts DEF LevelInv, OnLevel, e
  <2>3. CASE v[1] # k
    <3>1. v # x
      BY <1>3, <2>3
    <3>2. Stays(h, v, k, now)
      BY <1>3, <2>1, <2>2, <2>3 DEF Stays, e
    <3> QED
      BY <1>6, <1>9, <3>1, <3>2 DEF PassedNode
  <2>4. CASE v[1] = k /\ OnLevel(e, v, now)
    <3>1. now % Reach(k - 1) = 0 => v # x
      BY <1>1, <1>2, <1>3, <2>4, NotDue DEF x
    <3>2. Stays(h, v, k, now)
      BY <2>1, <2>4 DEF Stays, e
    <3> QED
      BY <1>6, <1>9, <3>1, <3>2 DEF PassedNode
  <2>5. CASE v[1] = k /\ ~OnLevel(e, v, now)
    <3>1. /\ now % Reach(k - 1) = 0 /\ v = <<k, Digit(now, k)>>
          /\ (e - now) % Span < Reach(k - 1)
      BY <1>1, <2>2, <2>5, NextTick
    <3>2. v = x
      BY <3>1 DEF x
    <3>3. y[1] <= k - 1
      <4>1. k - 1 \in Levels /\ (e - now) % Span \in Ticks
        BY <1>1, <1>2, Difference DEF Levels
      <4> QED
        BY <1>5, <3>1, <4>1, LevelFacts
    <3>4. y # x
      <4>1. y[1] \in 1 .. 4
        BY <1>5, SlotFacts DEF OnLevel
      <4> QED
        BY <1>3, <3>3, <4>1
    <3>5. Moves(h, y, now)
      BY <1>3, <2>1, <2>5 DEF Moves, e, y
    <3> QED
      BY <1>6, <1>9, <3>1, <3>2, <3>4, <3>5 DEF PassedNode
  <2> QED
    BY <2>3, <2>4, <2>5
<1> QED
  BY <1>4, <1>7, <1>8, <1>9 DEF PassedNode

LEMMA DownPasses ==
  ASSUME TypeOK, LevelInv, NEW now, now = (last + 1) % Span, NEW k \in 2 .. 4,
         NEW w, Passed(w, k + 1, now)
  PROVE  Passed(Down(w, now, k), k, now)
<1>1. \A h \in Handles : PassedNode(h, Down(w, now, k)[h], k, now)
  BY DownNode
<1>2. Down(w, now, k) \in [Handles -> Slot \cup {Unlinked}]
  <2>1. w \in [Handles -> Slot \cup {Unlinked}]
    BY DEF Passed
  <2>2. \A h \in Handles : SlotFor(expire[h], (expire[h] - now) % Span) \in Slot
    <3>1. last \in Ticks /\ \A h \in Handles : expire[h] \in Ticks
      BY DEF TypeOK, Ticks
    <3>2. now \in Ticks
      BY <3>1, Closer
    <3> QED
      BY <3>1, <3>2, Scheduled DEF OnLevel
  <2> QED
    BY <2>1, <2>2 DEF Down, Rescheduled
<1> QED
  BY <1>1, <1>2 DEF Passed

(* So after a tick no node is lost, and each may stand where it does.      *)
LEMMA TickPasses ==
  ASSUME TypeOK, LevelInv, Tick
  PROVE  /\ Passed(where', 2, last')
         /\ last \in Ticks /\ last' \in Ticks /\ last' = (last + 1) % Span
         /\ \A h \in Handles : expire[h] \in Ticks
<1>1. /\ last' = (last + 1) % Span /\ where' = Cascaded(where, last')
      /\ \A h \in Handles : expire[h] \in Ticks
      /\ last \in Ticks
  BY DEF Tick, TypeOK, Ticks
<1>2. last' \in Ticks
  BY <1>1, Closer
<1> DEFINE now == last'
<1>3. Passed(where, 5, now)
  <2>1. \A h \in Handles : Pending(h) => where[h] \in Slot /\ ~(where[h][1] >= 5)
    BY SlotFacts DEF TypeOK, Pending
  <2> QED
    BY <2>1 DEF Passed, PassedNode, Stays, TypeOK, Pending
<1> DEFINE w4 == Down(where, now, 4)  w3 == Down(w4, now, 3)  w2 == Down(w3, now, 2)
<1>4. where' = w2
  BY <1>1, CascadedIsDown
<1> HIDE DEF now, w4, w3, w2
<1>n. now = (last + 1) % Span
  BY <1>1 DEF now
<1>5. Passed(w4, 4, now)
  <2>1. 4 \in 2 .. 4 /\ 4 + 1 = 5
    OBVIOUS
  <2> QED
    BY <1>n, <1>3, <2>1, DownPasses DEF w4
<1>6. Passed(w3, 3, now)
  <2>1. 3 \in 2 .. 4 /\ 3 + 1 = 4
    OBVIOUS
  <2> QED
    BY <1>n, <1>5, <2>1, DownPasses DEF w3
<1>7. Passed(w2, 2, now)
  <2>1. 2 \in 2 .. 4 /\ 2 + 1 = 3
    OBVIOUS
  <2> QED
    BY <1>n, <1>6, <2>1, DownPasses DEF w2
<1> QED
  BY <1>1, <1>2, <1>4, <1>7 DEF now

-----------------------------------------------------------------------------
(* The invariant *)

LEMMA InitIInv == Init => IInv
<1> SUFFICES ASSUME Init PROVE IInv
  OBVIOUS
<1>1. TypeOK
  <2>1. 0 \in 0 .. Span - 1
    BY ReachFacts
  <2> QED
    BY <2>1 DEF Init, TypeOK
<1>2. PendingSet = {} /\ LevelInv
  BY DEF Init, PendingSet, LevelInv, Pending
<1>3. CountInv
  BY <1>2, FS_EmptySet DEF CountInv, Init
<1> QED
  BY <1>1, <1>2, <1>3 DEF IInv

LEMMA StartIInv ==
  ASSUME IInv, NEW h \in Handles, NEW d \in Delays, Start(h, d)
  PROVE  IInv'
<1> DEFINE e == (last + d) % Span
<1>1. last \in Ticks /\ d \in Ticks
  BY DelaysAssumption DEF IInv, TypeOK, Ticks
<1>2. e \in Ticks /\ (e - last) % Span = d
  BY <1>1, Later
<1>3. OnLevel(e, SlotFor(e, d), last)
  BY <1>1, <1>2, Scheduled
<1> HIDE DEF e
<1>4. /\ where[h] = Unlinked
      /\ expire' = [expire EXCEPT ![h] = e]
      /\ where' = [where EXCEPT ![h] = SlotFor(e, d)]
      /\ count' = count + 1
      /\ UNCHANGED <<last, polling, busy>>
  BY DEF Start, e
<1>5. SlotFor(e, d) \in Slot /\ SlotFor(e, d) # Unlinked
  BY <1>3, SlotFacts DEF OnLevel
<1>6. PendingSet' = PendingSet \cup {h} /\ h \notin PendingSet
  BY <1>4, <1>5 DEF PendingSet, Pending, IInv, TypeOK
<1>7. CountInv'
  BY <1>4, <1>6, FS_AddElement DEF IInv, CountInv
<1>8. LevelInv'
  BY <1>3, <1>4 DEF IInv, TypeOK, LevelInv, Pending
<1>9. TypeOK'
  BY <1>2, <1>4, <1>5 DEF IInv, TypeOK, Ticks
<1> QED
  BY <1>7, <1>8, <1>9 DEF IInv

(* A node that is unlinked, by g_timer_cancel or by fire().                *)
LEMMA UnlinkIInv ==
  ASSUME IInv, NEW h \in Handles, Pending(h),
         where' = [where EXCEPT ![h] = Unlinked],
         expire' = [expire EXCEPT ![h] = 0],
         count' = count - 1, UNCHANGED <<last, polling>>,
         busy' \in Handles \cup {NoTimer}
  PROVE  IInv'
<1>1. PendingSet' = PendingSet \ {h} /\ h \in PendingSet
  BY DEF PendingSet, Pending, IInv, TypeOK
<1>2. CountInv'
  BY <1>1, FS_RemoveElement DEF IInv, CountInv
<1>3. count' \in Nat
  BY <1>2, FS_CardinalityType DEF CountInv
<1>4. 0 \in 0 .. Span - 1
  BY ReachFacts
<1>5. TypeOK'
  BY <1>3, <1>4 DEF IInv, TypeOK
<1>6. LevelInv'
  BY DEF IInv, TypeOK, LevelInv, Pending
<1> QED
  BY <1>2, <1>5, <1>6 DEF IInv

LEMMA TickIInv ==
  ASSUME IInv, Tick
  PROVE  IInv'
<1>1. /\ Passed(where', 2, last')
      /\ last \in Ticks /\ last' \in Ticks /\ last' = (last + 1) % Span
      /\ \A h \in Handles : expire[h] \in Ticks
  BY TickPasses DEF IInv
<1>2. polling' = TRUE /\ UNCHANGED <<expire, count, busy>>
  BY DEF Tick
<1>3. ASSUME NEW h \in Handles
      PROVE  /\ Pending(h)' <=> Pending(h)
             /\ Pending(h) => OnLevel(expire[h], where'[h], last')
  <2>1. PassedNode(h, where'[h], 2, last')
    BY <1>1 DEF Passed
  <2>2. CASE ~Pending(h)
    BY <2>1, <2>2 DEF PassedNode, Pending
  <2>3. CASE Pending(h) /\ Stays(h, where'[h], 2, last')
    <3>1. where'[h] = where[h] /\ OnLevel(expire[h], where[h], last)
          /\ (where[h][1] >= 2 => OnLevel(expire[h], where[h], last'))
      BY <2>3 DEF IInv, LevelInv, Stays
    <3>2. where[h][1] \in 1 .. 4
      BY <3>1, SlotFacts DEF OnLevel
    <3>3. where[h][1] < 2 => OnLevel(expire[h], where[h], last')
      BY <3>1, <3>2 DEF OnLevel
    <3> QED
      BY <2>3, <3>1, <3>2, <3>3 DEF Pending
  <2>4. CASE Pending(h) /\ Moves(h, where'[h], last')
    <3>1. OnLevel(expire[h], where'[h], last')
      BY <1>1, <2>4, Scheduled DEF Moves
    <3>2. where'[h] # Unlinked
      BY <3>1, SlotFacts DEF OnLevel
    <3> QED
      BY <2>4, <3>1, <3>2 DEF Pending
  <2> QED
    BY <2>1, <2>2, <2>3, <2>4 DEF PassedNode
<1>4. LevelInv'
  BY <1>2, <1>3 DEF LevelInv
<1>5. CountInv'
  <2>1. PendingSet' = PendingSet
    BY <1>3 DEF PendingSet
  <2> QED
    BY <1>2, <2>1 DEF IInv, CountInv
<1>6. TypeOK'
  BY <1>1, <1>2 DEF IInv, TypeOK, Passed, Ticks
<1> QED
  BY <1>4, <1>5, <1>6 DEF IInv

LEMMA NextIInv == IInv /\ [Next]_vars => IInv'
<1> SUFFICES ASSUME IInv, [Next]_vars PROVE IInv'
  OBVIOUS
<1>1. ASSUME NEW h \in Handles, NEW d \in Delays, Start(h, d) PROVE IInv'
  BY <1>1, StartIInv
<1>2. ASSUME NEW h \in Handles, Cancel(h) PROVE IInv'
  BY <1>2, UnlinkIInv DEF Cancel, Pending, IInv, TypeOK
<1>3. CASE Tick
  BY <1>3, TickIInv
<1>4. ASSUME NEW h \in Handles, Fire(h) PROVE IInv'
  <2>1. Pending(h)
    BY <1>4 DEF Fire, DueSlot, Pending, Unlinked
  <2> QED
    BY <1>4, <2>1, UnlinkIInv DEF Fire
<1>5. CASE Return \/ EndTick \/ UNCHANGED vars
  <2>1. UNCHANGED <<where, expire, last, count>>
    BY <1>5 DEF Return, EndTick, vars
  <2>2. polling' \in BOOLEAN /\ busy' \in Handles \cup {NoTimer}
    BY <1>5 DEF Return, EndTick, vars, IInv, TypeOK
  <2>3. TypeOK'
    BY <2>1, <2>2 DEF IInv, TypeOK
  <2>4. CountInv' /\ LevelInv'
    BY <2>1 DEF IInv, CountInv, PendingSet, LevelInv, Pending
  <2> QED
    BY <2>3, <2>4 DEF IInv
<1> QED
  BY <1>1, <1>2, <1>3, <1>4, <1>5 DEF Next, Poll

(* g_timer's state has its type.                                           *)
THEOREM TypeCorrect == Spec => []TypeOK
<1>1. IInv => TypeOK
  BY DEF IInv
<1> QED
  BY InitIInv, NextIInv, <1>1, PTL DEF Spec

(* Every node that is linked is in the slot of its expiry time, on a level *)
(* that reaches it and has not passed the slot, and g_timer_count counts   *)
(* the nodes that are linked.                                              *)
THEOREM TimersPlaced == Spec => []Placed
<1>1. IInv => Placed
  <2> SUFFICES ASSUME IInv PROVE Placed
    OBVIOUS
  <2>1. TypeOK /\ count = Cardinality({h \in Handles : Pending(h)})
    BY DEF IInv, CountInv, PendingSet
  <2>2. ASSUME NEW h \in Handles, Pending(h)
        PROVE  LET k == where[h][1] IN
               /\ where[h][2] = Digit(expire[h], k)
               /\ k = 1 \/ (Ahead(h) < Reach(k) /\ Ahead(h) > 0)
    <3> DEFINE k == where[h][1]
    <3>1. OnLevel(expire[h], where[h], last) /\ k \in 1 .. 4
      BY <2>2, SlotFacts DEF IInv, LevelInv, OnLevel
    <3>2. expire[h] \in Ticks /\ last \in Ticks
      BY DEF IInv, TypeOK, Ticks
    <3>3. CASE k > 1
      <4>1. k - 1 \in 0 .. 4
        BY <3>1, <3>3
      <4>2. Reach(k - 1) \in Nat \ {0}
        BY <4>1, ReachFacts
      <4>3. expire[h] \in Int
        BY <3>2 DEF Ticks
      <4>4. expire[h] % Reach(k - 1) \in 0 .. Reach(k - 1) - 1
        BY <4>2, <4>3, Quotient
      <4>5. Ahead(h) \in Nat
        BY <3>2, Difference, TicksFacts DEF Ahead
      <4>6. /\ Ahead(h) < Reach(k) /\ Ahead(h) > expire[h] % Reach(k - 1)
        BY <3>1, <3>3 DEF OnLevel, Ahead
      <4>7. Ahead(h) > 0
        <5> DEFINE m == expire[h] % Reach(k - 1)
        <5>1. m \in 0 .. Reach(k - 1) - 1 /\ Ahead(h) > m
          BY <4>4, <4>6
        <5> HIDE DEF m
        <5> QED
          BY <4>2, <4>5, <5>1
      <4> QED
        BY <3>1, <4>6, <4>7 DEF OnLevel
    <3> QED
      BY <3>1, <3>3 DEF OnLevel
  <2> QED
    BY <2>1, <2>2 DEF Placed
<1> QED
  BY InitIInv, NextIInv, <1>1, PTL DEF Spec

-----------------------------------------------------------------------------
(* The timer service *)

(* The ticks until slot s of the first level comes up.                     *)
Round(s, t) == ((s - t - 1) % Base) + 1

(* From a slot's position, its round.                                      *)
LEMMA RoundIs ==
  ASSUME NEW s \in Int, NEW t \in Int, NEW j \in 1 .. Base, NEW q \in Int,
         s = t + j + Base * q
  PROVE  Round(s, t) = j
<1>1. j - 1 \in 0 .. Base - 1 /\ Base \in Nat \ {0} /\ Base * q + (j - 1) = s - t - 1
  OBVIOUS
<1>2. (Base * q + (j - 1)) % Base = j - 1
  BY <1>1, Apart
<1>3. (s - t - 1) % Base = j - 1
  BY <1>1, <1>2
<1> QED
  BY <1>3 DEF Round

LEMMA RoundFacts ==
  ASSUME NEW s \in Int, NEW t \in Int
  PROVE  Round(s, t) \in 1 .. Base /\ \E q \in Int : s = t + Round(s, t) + Base * q
<1> DEFINE x == s - t - 1  m == x % Base  q == x \div Base
<1>1. x \in Int /\ Base \in Nat \ {0}
  OBVIOUS
<1> HIDE DEF x
<1>2. q \in Int /\ m \in 0 .. Base - 1 /\ x = Base * q + m
  BY <1>1, Quotient
<1>3. Round(s, t) = m + 1
  BY DEF Round, x
<1> HIDE DEF m, q
<1>4. s = t + (m + 1) + Base * q
  BY <1>2 DEF x
<1> QED
  BY <1>2, <1>3, <1>4

(* The clock wraps round at a whole number of laps.                        *)
LEMMA Laps == \E C \in Nat \ {0} : Span = Base * C
<1>1. 1 \in 0 .. 4
  OBVIOUS
<1> QED
  BY <1>1, ReachFacts

(* A delay of less than a lap is the round of the slot it is put into; a   *)
(* delay of 0 is put into the slot of now, a whole lap ahead.              *)
LEMMA RoundOfDelay ==
  ASSUME NEW e \in Ticks, NEW t \in Ticks, (e - t) % Span < Base
  PROVE  /\ e % Base = t % Base <=> (e - t) % Span = 0
         /\ Round(e % Base, t) = IF (e - t) % Span = 0 THEN Base ELSE (e - t) % Span
<1> DEFINE a == (e - t) % Span  m == e \div Base  r == e % Base
           n == t \div Base  u == t % Base
<1>1. /\ a \in Nat /\ e \in Int /\ t \in Int
      /\ e = t + a \/ e = t + a - Span
  BY Difference, TicksFacts
<1>b. a < Base
  OBVIOUS
<1> HIDE DEF a
<1>2. PICK C \in Nat \ {0} : Span = Base * C
  BY Laps
<1>3. m \in Int /\ r \in 0 .. Base - 1 /\ e = Base * m + r
  BY <1>1, Quotient
<1>4. n \in Int /\ u \in 0 .. Base - 1 /\ t = Base * n + u
  BY <1>1, Quotient
<1> HIDE DEF m, n, r, u
<1>5. \E c \in Int : e = t + a - Base * c
  <2>1. e = t + a - Base * 0 \/ e = t + a - Base * C
    BY <1>1, <1>2
  <2>2. 0 \in Int /\ C \in Int
    OBVIOUS
  <2> QED
    BY <2>1, <2>2, Zenon
<1>6. PICK c \in Int : e = t + a - Base * c
  BY <1>5
<1>7. r = u <=> a = 0
  <2>1. ASSUME r = u PROVE a = 0
    <3>1. Base * (m - n + c) + 0 = Base * 0 + a
      BY <1>1, <1>3, <1>4, <1>6, <2>1
    <3>2. m - n + c \in Int /\ 0 \in Int /\ a \in 0 .. Base - 1 /\ 0 \in 0 .. Base - 1
      BY <1>1, <1>b, <1>3, <1>4
    <3> QED
      BY <3>1, <3>2, OneWay
  <2>2. ASSUME a = 0 PROVE r = u
    <3> DEFINE p == n - c
    <3>1. Base * m + r = Base * p + u
      BY <1>1, <1>3, <1>4, <1>6, <2>2
    <3>2. /\ p \in Int /\ m \in Int /\ Base \in Nat \ {0}
          /\ r \in 0 .. Base - 1 /\ u \in 0 .. Base - 1
      BY <1>3, <1>4
    <3> HIDE DEF p
    <3> QED
      BY <3>1, <3>2, OneWay
  <2> QED
    BY <2>1, <2>2
<1>8. CASE a = 0
  <2>1. r = t + Base + Base * (-c - m - 1) /\ -c - m - 1 \in Int /\ Base \in 1 .. Base
    BY <1>1, <1>3, <1>6, <1>8
  <2>3. r \in Int /\ t \in Int
    BY <1>1, <1>3
  <2>2. Round(r, t) = Base
    BY <2>1, <2>3, RoundIs
  <2> QED
    BY <1>7, <1>8, <2>2 DEF a, r, u
<1>9. CASE a # 0
  <2>1. r = t + a + Base * (-c - m) /\ -c - m \in Int /\ a \in 1 .. Base
    BY <1>1, <1>b, <1>3, <1>6, <1>9
  <2>3. r \in Int /\ t \in Int
    BY <1>1, <1>3
  <2>2. Round(r, t) = a
    BY <2>1, <2>3, RoundIs
  <2> QED
    BY <1>7, <1>9, <2>2 DEF a, r, u
<1> QED
  BY <1>8, <1>9

(* A tick: the slot one round ahead comes up, the others come closer.      *)
LEMMA NextRound ==
  ASSUME NEW s \in 0 .. Base - 1, NEW t \in Ticks, NEW now, now = (t + 1) % Span
  PROVE  /\ s = now % Base <=> Round(s, t) = 1
         /\ s # now % Base => Round(s, now) = Round(s, t) - 1
<1>1. now \in Int /\ t \in Int /\ s \in Int /\ (now = t + 1 \/ now = t + 1 - Span)
  BY Closer, TicksFacts
<1>2. PICK C \in Nat \ {0} : Span = Base * C
  BY Laps
<1>3. \E c \in Int : now = t + 1 - Base * c
  <2>1. now = t + 1 - Base * 0 \/ now = t + 1 - Base * C
    BY <1>1, <1>2
  <2>2. 0 \in Int /\ C \in Int
    OBVIOUS
  <2> QED
    BY <2>1, <2>2, Zenon
<1>4. PICK c \in Int : now = t + 1 - Base * c
  BY <1>3
<1> DEFINE j == Round(s, t)
<1>5. j \in 1 .. Base /\ \E q \in Int : s = t + j + Base * q
  BY <1>1, RoundFacts
<1> HIDE DEF j
<1>6. PICK q \in Int : s = t + j + Base * q
  BY <1>5
<1>7. ASSUME j = 1 PROVE now % Base = s
  <2>1. now = Base * (-c - q) + s /\ -c - q \in Int
    BY <1>1, <1>4, <1>6, <1>7
  <2>2. (Base * (-c - q) + s) % Base = s /\ Base \in Nat \ {0}
    BY <2>1, Apart
  <2> QED
    BY <2>1, <2>2
<1>8. ASSUME now % Base = s PROVE j = 1
  <2> DEFINE p == now \div Base
  <2>1. p \in Int /\ now = Base * p + s
    <3>1. now \in Int /\ Base \in Nat \ {0}
      BY <1>1
    <3>2. p \in Int /\ now = Base * p + (now % Base)
      BY <3>1, Quotient
    <3> QED
      BY <1>8, <3>2
  <2> HIDE DEF p
  <2>2. s = t + 1 + Base * (-p - c) /\ -p - c \in Int /\ 1 \in 1 .. Base
    BY <1>1, <1>4, <2>1
  <2> QED
    BY <1>1, <2>2, RoundIs DEF j
<1>9. ASSUME j # 1 PROVE Round(s, now) = j - 1
  <2>1. s = now + (j - 1) + Base * (q + c) /\ q + c \in Int /\ j - 1 \in 1 .. Base
    BY <1>1, <1>4, <1>5, <1>6, <1>9
  <2> QED
    BY <1>1, <2>1, RoundIs
<1> QED
  BY <1>7, <1>8, <1>9 DEF j

(* What is left of a pending timer: 0 once its slot has come up in a tick. *)
LEMMA LeftFacts ==
  ASSUME TypeOK, LevelInv, NEW h \in Handles
  PROVE  /\ TicksLeft(h) \in Int
         /\ ~Pending(h) => TicksLeft(h) = -1
         /\ Pending(h) => /\ TicksLeft(h) >= 0
                          /\ TicksLeft(h) = 0 <=> polling /\ where[h] = DueSlot
<1>1. CASE ~Pending(h)
  BY <1>1 DEF TicksLeft
<1>2. CASE Pending(h)
  <2> DEFINE e == expire[h]  v == where[h]  k == v[1]
  <2>1. /\ OnLevel(e, v, last) /\ v \in Slot /\ k \in 1 .. 4 /\ v[2] \in 0 .. Base - 1
    BY <1>2, SlotFacts DEF LevelInv, OnLevel
  <2>2. e \in Ticks /\ last \in Ticks
    BY DEF TypeOK, Ticks
  <2>3. Pending(h) /\ polling \in BOOLEAN
    BY <1>2 DEF TypeOK
  <2>4. DueSlot[1] = 1
    BY DEF DueSlot
  <2>5. CASE k > 1
    <3>1. TicksLeft(h) = (e - last) % Span
      BY <1>2, <2>5 DEF TicksLeft, Ahead
    <3>2. (e - last) % Span \in Nat /\ (e - last) % Span > e % Reach(k - 1)
      BY <2>1, <2>2, <2>5, Difference, TicksFacts DEF OnLevel
    <3>3. k - 1 \in 0 .. 4 /\ e \in Int
      BY <2>1, <2>2, <2>5, TicksFacts
    <3>4. Reach(k - 1) \in Nat \ {0}
      BY <3>3, ReachFacts
    <3>5. e % Reach(k - 1) \in 0 .. Reach(k - 1) - 1
      BY <3>3, <3>4, Quotient
    <3> DEFINE m == e % Reach(k - 1)  a == (e - last) % Span
    <3>6. m \in Nat /\ a \in Nat /\ a > m
      BY <3>2, <3>4, <3>5
    <3> HIDE DEF m, a
    <3>7. a > 0
      BY <3>6
    <3>8. v # DueSlot
      BY <2>4, <2>5
    <3> QED
      BY <2>3, <3>1, <3>6, <3>7, <3>8 DEF a
  <2>6. CASE k = 1 /\ polling /\ v = DueSlot
    <3>1. TicksLeft(h) = 0
      BY <1>2, <2>6 DEF TicksLeft
    <3> QED
      BY <2>3, <2>6, <3>1
  <2>7. CASE k = 1 /\ ~(polling /\ v = DueSlot)
    <3>1. TicksLeft(h) = Round(v[2], last)
      BY <1>2, <2>7 DEF TicksLeft, Round
    <3>2. v[2] \in Int /\ last \in Int
      BY <2>1, <2>2, TicksFacts
    <3>3. Round(v[2], last) \in 1 .. Base
      BY <3>2, RoundFacts
    <3> QED
      BY <2>3, <2>7, <3>1, <3>3
  <2> QED
    BY <2>1, <2>5, <2>6, <2>7
<1> QED
  BY <1>1, <1>2

(* Where schedule() puts a timer, its delay is what is left of it: unless  *)
(* it is 0 and the tick of now over.                                       *)
LEMMA LeftScheduled ==
  ASSUME NEW e \in Ticks, NEW t \in Ticks, NEW p \in BOOLEAN
  PROVE  LET a == (e - t) % Span
             v == SlotFor(e, a)
         IN /\ v[1] > 1 => a # 0
            /\ v[1] = 1 => (IF p /\ v = <<1, Digit(t, 1)>> THEN 0 ELSE Round(v[2], t))
                             = IF a = 0 /\ ~p THEN Base ELSE a
<1> DEFINE a == (e - t) % Span  v == SlotFor(e, a)
<1>1. a \in Ticks /\ a \in Nat
  BY Difference, TicksFacts
<1>2. v[1] = LevelFor(a) /\ OnLevel(e, v, t) /\ v \in Slot
  BY Scheduled DEF OnLevel
<1>3. e \in Int /\ t \in Int
  BY TicksFacts
<1>4. a < Base => v[1] = 1
  <2>1. 1 \in Levels /\ Reach(1) = Base
    BY ReachFacts DEF Levels
  <2> HIDE DEF a, v
  <2>2. a < Base => LevelFor(a) <= 1
    BY <1>1, <2>1, LevelFacts
  <2> QED
    BY <1>2, <2>2, SlotFacts
<1>5. ASSUME v[1] > 1 PROVE a # 0
  BY <1>1, <1>4, <1>5
<1>6. ASSUME v[1] = 1
      PROVE  (IF p /\ v = <<1, Digit(t, 1)>> THEN 0 ELSE Round(v[2], t))
               = IF a = 0 /\ ~p THEN Base ELSE a
  <2>1. a < Base
    BY <1>1, <1>2, <1>6, LevelFacts, ReachFacts
  <2>2. v = <<1, e % Base>> /\ v[2] = e % Base
    BY <1>2, <1>3, <1>6, SlotFacts, DigitFacts DEF OnLevel
  <2>3. /\ e % Base = t % Base <=> a = 0
        /\ Round(e % Base, t) = IF a = 0 THEN Base ELSE a
    BY <2>1, RoundOfDelay
  <2>4. Digit(t, 1) = t % Base
    BY <1>3, DigitFacts
  <2> HIDE DEF a, v
  <2>5. v = <<1, Digit(t, 1)>> <=> a = 0
    BY <2>2, <2>3, <2>4
  <2> QED
    BY <2>2, <2>3, <2>5
<1> QED
  BY <1>5, <1>6

(* A tick takes one off what is left of every timer.                       *)
LEMMA TickTakesOne ==
  ASSUME TypeOK, LevelInv, Tick, NEW h \in Handles
  PROVE  /\ Pending(h)' <=> Pending(h)
         /\ Pending(h) => TicksLeft(h)' = TicksLeft(h) - 1
<1> DEFINE e == expire[h]  v == where[h]  w == where'[h]  now == last'
<1>1. /\ PassedNode(h, w, 2, now)
      /\ last \in Ticks /\ now \in Ticks /\ now = (last + 1) % Span
      /\ e \in Ticks
  BY TickPasses DEF Passed
<1>c. (e - last) % Span > 0 => (e - now) % Span = ((e - last) % Span) - 1
  <2> HIDE DEF e, now
  <2> QED
    BY <1>1, Closer
<1>2. ~polling /\ polling' = TRUE /\ expire' = expire
  BY DEF Tick
<1>3. DueSlot' = <<1, Digit(now, 1)>> /\ Digit(now, 1) = now % Base
  <2>1. now \in Int
    BY <1>1, TicksFacts
  <2> HIDE DEF now
  <2>2. Digit(now, 1) = now % Base
    BY <2>1, DigitFacts
  <2> QED
    BY <2>2 DEF DueSlot, now
<1>4. CASE ~Pending(h)
  BY <1>1, <1>4 DEF PassedNode, Pending
<1>5. CASE Pending(h) /\ Stays(h, w, 2, now)
  <2>1. w = v /\ OnLevel(e, v, last) /\ (v[1] >= 2 => OnLevel(e, v, now))
    BY <1>5 DEF Stays, LevelInv
  <2>2. v \in Slot /\ v[1] \in 1 .. 4 /\ v[2] \in 0 .. Base - 1 /\ v = <<v[1], v[2]>>
    BY <2>1, SlotFacts DEF OnLevel
  <2>3. Pending(h)'
    BY <1>5, <2>1 DEF Pending
  <2>4. CASE v[1] > 1
    <3>1. TicksLeft(h) = (e - last) % Span /\ TicksLeft(h)' = (e - now) % Span
      BY <1>2, <1>5, <2>1, <2>3, <2>4 DEF TicksLeft, Ahead
    <3>2. TicksLeft(h) > 0
      <4>1. v # DueSlot
        BY <2>4 DEF DueSlot
      <4> QED
        BY <1>5, <4>1, LeftFacts
    <3> QED
      BY <1>5, <1>c, <2>3, <3>1, <3>2
  <2>5. CASE v[1] = 1
    <3>1. TicksLeft(h) = Round(v[2], last)
      BY <1>2, <1>5, <2>5 DEF TicksLeft, Round
    <3>2. TicksLeft(h)' = IF v = DueSlot' THEN 0 ELSE Round(v[2], now)
      BY <1>2, <2>1, <2>3, <2>5 DEF TicksLeft, Round
    <3>3. v = DueSlot' <=> v[2] = now % Base
      BY <1>3, <2>2, <2>5
    <3>4. /\ v[2] = now % Base <=> Round(v[2], last) = 1
          /\ v[2] # now % Base => Round(v[2], now) = Round(v[2], last) - 1
      BY <1>1, <2>2, NextRound
    <3> QED
      BY <1>5, <2>3, <3>1, <3>2, <3>3, <3>4
  <2> QED
    BY <2>2, <2>4, <2>5
<1>6. CASE Pending(h) /\ Moves(h, w, now)
  <2>1. v[1] > 1 /\ w = SlotFor(e, (e - now) % Span)
    BY <1>6 DEF Moves
  <2>2. /\ OnLevel(e, w, now) /\ w \in Slot /\ w # Unlinked /\ w[1] \in 1 .. 4
    BY <1>1, <2>1, Scheduled, SlotFacts DEF OnLevel
  <2>3. Pending(h)'
    BY <2>2 DEF Pending
  <2>4. TicksLeft(h) = (e - last) % Span /\ TicksLeft(h) > 0
    <3>1. v # DueSlot
      BY <2>1 DEF DueSlot
    <3> QED
      BY <1>6, <2>1, <3>1, LeftFacts DEF TicksLeft, Ahead
  <2>5. (e - now) % Span = TicksLeft(h) - 1
    <3>1. (e - last) % Span > 0
      BY <2>4
    <3> QED
      BY <1>c, <2>4, <3>1
  <2>6. CASE w[1] > 1
    <3>1. TicksLeft(h)' = (e - now) % Span
      BY <1>2, <2>3, <2>6 DEF TicksLeft, Ahead
    <3> QED
      BY <1>6, <2>3, <2>5, <3>1
  <2>7. CASE w[1] = 1
    <3>1. TicksLeft(h)' = IF TRUE /\ w = <<1, Digit(now, 1)>> THEN 0 ELSE Round(w[2], now)
      BY <1>2, <1>3, <2>3, <2>7 DEF TicksLeft, Round
    <3> DEFINE a == (e - now) % Span
    <3>2. (IF TRUE /\ w = <<1, Digit(now, 1)>> THEN 0 ELSE Round(w[2], now))
            = IF a = 0 /\ ~TRUE THEN Base ELSE a
      BY <1>1, <2>1, <2>7, LeftScheduled
    <3> QED
      BY <1>6, <2>3, <2>5, <3>1, <3>2
  <2> QED
    BY <2>2, <2>6, <2>7
<1> QED
  BY <1>1, <1>4, <1>5, <1>6 DEF PassedNode

LeftMap == [h \in Handles |-> TicksLeft(h)]

(* A step that leaves a node and the clock alone leaves what is left.      *)
LEMMA LeftSame ==
  ASSUME NEW h \in Handles, where'[h] = where[h], expire'[h] = expire[h],
         UNCHANGED <<last, polling>>
  PROVE  TicksLeft(h)' = TicksLeft(h) /\ (Pending(h)' <=> Pending(h))
BY DEF TicksLeft, Pending, Ahead, DueSlot

(* g_timer_start                                                           *)
LEMMA StartImplements ==
  ASSUME IInv, NEW h \in Handles, NEW d \in Delays, Start(h, d)
  PROVE  Service!Start(h, d)
<1> DEFINE e == (last + d) % Span  v == SlotFor(e, d)
           l == IF d = 0 /\ ~polling THEN Base ELSE d
<1>1. last \in Ticks /\ d \in Ticks /\ polling \in BOOLEAN
  BY DelaysAssumption DEF IInv, TypeOK, Ticks
<1>2. e \in Ticks /\ (e - last) % Span = d
  BY <1>1, Later
<1>3. /\ v \in Slot /\ v # Unlinked /\ v[1] \in 1 .. 4
      /\ v[1] > 1 => d # 0
      /\ v[1] = 1 => (IF polling /\ v = DueSlot THEN 0 ELSE Round(v[2], last)) = l
  <2>1. OnLevel(e, v, last)
    BY <1>1, <1>2, Scheduled
  <2>2. v \in Slot /\ v # Unlinked /\ v[1] \in 1 .. 4
    BY <2>1, SlotFacts DEF OnLevel
  <2> HIDE DEF e
  <2>3. LET a == (e - last) % Span
            u == SlotFor(e, a)
        IN /\ u[1] > 1 => a # 0
           /\ u[1] = 1 => (IF polling /\ u = <<1, Digit(last, 1)>>
                           THEN 0 ELSE Round(u[2], last))
                            = IF a = 0 /\ ~polling THEN Base ELSE a
    BY <1>1, <1>2, LeftScheduled
  <2> QED
    BY <1>2, <2>2, <2>3 DEF DueSlot
<1>4. /\ ClientRuns /\ where[h] = Unlinked /\ h # busy
      /\ expire' = [expire EXCEPT ![h] = e]
      /\ where' = [where EXCEPT ![h] = v]
      /\ UNCHANGED <<last, polling, busy>>
  BY DEF Start
<1>5. where \in [Handles -> Slot \cup {Unlinked}] /\ expire \in [Handles -> Ticks]
  BY DEF IInv, TypeOK, Ticks
<1> HIDE DEF v
<1>6. expire'[h] = e /\ where'[h] = v
  BY <1>4, <1>5
<1> HIDE DEF e
<1>7. TicksLeft(h)' = l
  <2>1. Pending(h)'
    BY <1>3, <1>6 DEF Pending
  <2>2. CASE v[1] > 1
    <3>1. TicksLeft(h)' = (e - last) % Span
      BY <1>4, <1>6, <2>1, <2>2 DEF TicksLeft, Ahead
    <3> QED
      BY <1>2, <1>3, <2>2, <3>1
  <2>3. CASE v[1] = 1
    <3>1. TicksLeft(h)' = IF polling /\ v = DueSlot THEN 0 ELSE Round(v[2], last)
      <4>1. DueSlot' = DueSlot /\ polling' = polling /\ last' = last
        BY <1>4 DEF DueSlot
      <4>2. TicksLeft(h)' = IF polling /\ v = DueSlot THEN 0
                           ELSE ((v[2] - last - 1) % Base) + 1
        BY <1>6, <2>1, <2>3, <4>1 DEF TicksLeft
      <4> QED
        BY <4>2 DEF Round
    <3> QED
      BY <1>3, <2>3, <3>1
  <2> QED
    BY <1>3, <2>2, <2>3
<1>8. ASSUME NEW g \in Handles, g # h PROVE TicksLeft(g)' = TicksLeft(g)
  <2>1. where'[g] = where[g] /\ expire'[g] = expire[g]
    BY <1>4, <1>5, <1>8
  <2> QED
    BY <1>4, <2>1, LeftSame
<1>9. LeftMap' = [LeftMap EXCEPT ![h] = l]
  BY <1>7, <1>8 DEF LeftMap
<1>10. LeftMap[h] = -1
  BY <1>4 DEF LeftMap, TicksLeft, Pending
<1>11. UNCHANGED <<polling, busy>> /\ h # busy /\ (polling => busy # NoTimer)
  BY <1>4 DEF ClientRuns
<1> QED
  BY <1>9, <1>10, <1>11 DEF Service!Start, Service!ClientRuns, Service!Off, LeftMap

(* A node that is unlinked is off, and no other timer is disturbed.        *)
LEMMA UnlinkImplements ==
  ASSUME IInv, NEW h \in Handles,
         where' = [where EXCEPT ![h] = Unlinked],
         expire' = [expire EXCEPT ![h] = 0], UNCHANGED <<last, polling>>
  PROVE  LeftMap' = [LeftMap EXCEPT ![h] = -1]
<1>1. where \in [Handles -> Slot \cup {Unlinked}] /\ expire \in [Handles -> Ticks]
  BY DEF IInv, TypeOK, Ticks
<1>2. TicksLeft(h)' = -1
  BY <1>1 DEF TicksLeft, Pending
<1>3. ASSUME NEW g \in Handles, g # h PROVE TicksLeft(g)' = TicksLeft(g)
  <2>1. where'[g] = where[g] /\ expire'[g] = expire[g]
    BY <1>1, <1>3
  <2> QED
    BY <2>1, LeftSame
<1> QED
  BY <1>2, <1>3 DEF LeftMap

(* g_timer_cancel                                                          *)
LEMMA CancelImplements ==
  ASSUME IInv, NEW h \in Handles, Cancel(h)
  PROVE  Service!Cancel(h)
<1>1. LeftMap' = [LeftMap EXCEPT ![h] = -1]
  BY UnlinkImplements DEF Cancel
<1>2. LeftMap[h] # -1
  <2>1. Pending(h)
    BY DEF Cancel, Pending
  <2>2. TicksLeft(h) \in Int /\ TicksLeft(h) >= 0
    BY <2>1, LeftFacts DEF IInv
  <2> QED
    BY <2>2 DEF LeftMap
<1>3. UNCHANGED <<polling, busy>> /\ (polling => busy # NoTimer)
  BY DEF Cancel, ClientRuns
<1> QED
  BY <1>1, <1>2, <1>3 DEF Service!Cancel, Service!ClientRuns, Service!Off, LeftMap

(* g_timer_poll up to fire()                                               *)
LEMMA TickImplements ==
  ASSUME IInv, Tick
  PROVE  Service!Tick
<1>1. ASSUME NEW h \in Handles
      PROVE  TicksLeft(h)' = IF TicksLeft(h) = -1 THEN -1 ELSE TicksLeft(h) - 1
  <2>1. /\ Pending(h)' <=> Pending(h)
        /\ Pending(h) => TicksLeft(h)' = TicksLeft(h) - 1
    BY TickTakesOne DEF IInv
  <2>2. /\ TicksLeft(h) \in Int
        /\ ~Pending(h) => TicksLeft(h) = -1
        /\ Pending(h) => TicksLeft(h) >= 0
    BY LeftFacts DEF IInv
  <2>3. CASE ~Pending(h)
    <3>1. TicksLeft(h)' = -1
      BY <2>1, <2>3 DEF TicksLeft
    <3> QED
      BY <2>2, <2>3, <3>1
  <2>4. CASE Pending(h)
    BY <2>1, <2>2, <2>4
  <2> QED
    BY <2>3, <2>4
<1>2. ~polling /\ polling' = TRUE /\ UNCHANGED busy
  BY DEF Tick
<1>3. LeftMap' = [h \in Handles |-> IF LeftMap[h] = -1 THEN -1 ELSE LeftMap[h] - 1]
  BY <1>1 DEF LeftMap
<1> QED
  BY <1>2, <1>3 DEF Service!Tick, Service!Off, LeftMap

(* fire()                                                                  *)
LEMMA FireImplements ==
  ASSUME IInv, NEW h \in Handles, Fire(h)
  PROVE  Service!Fire(h)
<1>1. LeftMap' = [LeftMap EXCEPT ![h] = -1]
  BY UnlinkImplements DEF Fire
<1>2. LeftMap[h] = 0
  <2>1. Pending(h) /\ polling /\ where[h] = DueSlot
    BY DEF Fire, Pending, DueSlot, Unlinked
  <2>2. TicksLeft(h) = 0
    BY <2>1, LeftFacts DEF IInv
  <2> QED
    BY <2>2 DEF LeftMap
<1>3. polling /\ busy = NoTimer /\ busy' = h /\ UNCHANGED polling
  BY DEF Fire
<1> QED
  BY <1>1, <1>2, <1>3 DEF Service!Fire, Service!Off, LeftMap

(* The end of fire(): the list is empty, so nothing is due.                *)
LEMMA EndTickImplements ==
  ASSUME IInv, EndTick
  PROVE  Service!EndTick
<1>1. /\ polling /\ busy = NoTimer /\ polling' = FALSE
      /\ UNCHANGED <<where, expire, last, busy>>
      /\ \A h \in Handles : where[h] # DueSlot
  BY DEF EndTick
<1>2. ASSUME NEW h \in Handles PROVE TicksLeft(h)' = TicksLeft(h) /\ TicksLeft(h) # 0
  <2>1. where[h] # DueSlot /\ DueSlot' = DueSlot /\ (Pending(h)' <=> Pending(h))
    BY <1>1 DEF DueSlot, Pending
  <2>2. TicksLeft(h)' = TicksLeft(h)
    BY <1>1, <2>1 DEF TicksLeft, Ahead
  <2>3. TicksLeft(h) # 0
    <3>1. /\ TicksLeft(h) \in Int
          /\ ~Pending(h) => TicksLeft(h) = -1
          /\ Pending(h) => (TicksLeft(h) = 0 <=> polling /\ where[h] = DueSlot)
      BY LeftFacts DEF IInv
    <3> QED
      BY <2>1, <3>1
  <2> QED
    BY <2>2, <2>3
<1>3. LeftMap' = LeftMap /\ \A h \in Handles : LeftMap[h] # 0
  BY <1>2 DEF LeftMap
<1> QED
  BY <1>1, <1>3 DEF Service!EndTick, LeftMap

LEMMA StepImplements ==
  IInv /\ [Next]_vars => [Service!ServiceNext]_(Service!serviceVars)
<1> SUFFICES ASSUME IInv, [Next]_vars
             PROVE  Service!ServiceNext \/ UNCHANGED (Service!serviceVars)
  OBVIOUS
<1>1. ASSUME NEW h \in Handles, NEW d \in Delays, Start(h, d) PROVE Service!ServiceNext
  BY <1>1, StartImplements DEF Service!ServiceNext
<1>2. ASSUME NEW h \in Handles, Cancel(h) PROVE Service!ServiceNext
  BY <1>2, CancelImplements DEF Service!ServiceNext
<1>3. CASE Tick
  BY <1>3, TickImplements DEF Service!ServiceNext
<1>4. ASSUME NEW h \in Handles, Fire(h) PROVE Service!ServiceNext
  BY <1>4, FireImplements DEF Service!ServiceNext
<1>5. CASE Return
  <2>1. \A h \in Handles : TicksLeft(h)' = TicksLeft(h)
    BY <1>5, LeftSame DEF Return
  <2>2. LeftMap' = LeftMap
    BY <2>1 DEF LeftMap
  <2>3. busy # NoTimer /\ busy' = NoTimer /\ UNCHANGED polling
    BY <1>5 DEF Return
  <2> QED
    BY <2>2, <2>3 DEF Service!ServiceNext, Service!Return, LeftMap
<1>6. CASE EndTick
  BY <1>6, EndTickImplements DEF Service!ServiceNext
<1>7. CASE UNCHANGED vars
  <2>1. \A h \in Handles : TicksLeft(h)' = TicksLeft(h)
    BY <1>7, LeftSame DEF vars
  <2>2. LeftMap' = LeftMap
    BY <2>1 DEF LeftMap
  <2>3. UNCHANGED <<polling, busy>>
    BY <1>7 DEF vars
  <2> QED
    BY <2>2, <2>3 DEF Service!serviceVars, LeftMap
<1> QED
  BY <1>1, <1>2, <1>3, <1>4, <1>5, <1>6, <1>7 DEF Next, Poll

(* The wheel is a timer service: a timer that is started with a delay of d *)
(* ticks fires at the d-th tick, neither earlier nor later, unless it is   *)
(* cancelled first, whichever level it starts from and however often it is *)
(* handed down, also across the wrap of the clock.                         *)
THEOREM WheelIsService == Spec => ImplementsService
<1>1. Init => Service!ServiceInit
  <2> SUFFICES ASSUME Init PROVE Service!ServiceInit
    OBVIOUS
  <2>1. \A h \in Handles : TicksLeft(h) = -1
    BY DEF Init, TicksLeft, Pending
  <2>2. LeftMap = [h \in Handles |-> -1] /\ polling = FALSE /\ busy = NoTimer
    BY <2>1 DEF LeftMap, Init
  <2> QED
    BY <2>2 DEF Service!ServiceInit, Service!Off, LeftMap
<1> QED
  BY <1>1, InitIInv, NextIInv, StepImplements, PTL
     DEF Spec, ImplementsService, Service!ServiceSpec
=============================================================================
