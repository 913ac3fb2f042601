------------------------- MODULE UnixTimestampProofs -------------------------
(***************************************************************************)
(* Proofs about unixts2time and time2unixts, for any number of ns in a     *)
(* second, timestamps of any size, and all arguments, units and templates: *)
(* types, the timespec of a timestamp, that both programs convert without  *)
(* loss, and that each reads what the other one prints, and undoes it.     *)
(***************************************************************************)
EXTENDS UnixTimestamp, TLAPS, SequenceTheorems, WellFoundedInduction

\* Products of integers are integers, with the sign of their factors.
LEMMA Product ==
    ASSUME NEW a \in Int, NEW b \in Int
    PROVE  a * b \in Int /\ a * (-b) = -(a * b)
OBVIOUS

\* The product of positive numbers is positive.
LEMMA PositiveProduct ==
    ASSUME NEW a \in Nat \ {0}, NEW b \in Nat \ {0}
    PROVE  a * b \in Nat \ {0}
OBVIOUS

\* Multiplication keeps the order.
LEMMA Monotone ==
    ASSUME NEW a \in Int, NEW b \in Int, NEW c \in Nat, a <= b
    PROVE  /\ a * c \in Int /\ b * c \in Int /\ a * c <= b * c
           /\ c * a = a * c /\ c * b = b * c
<1>1. (b - a) * c = b * c - a * c /\ a * c \in Int /\ b * c \in Int
  OBVIOUS
<1>2. (b - a) * c \in Nat
  <2>1. b - a \in Nat
    OBVIOUS
  <2> QED BY <2>1
<1> QED BY <1>1, <1>2

\* Division leaves a remainder that is less than the divisor.
LEMMA DivMod ==
    ASSUME NEW a \in Nat, NEW b \in Nat \ {0}
    PROVE  /\ a \div b \in Nat
           /\ a - b * (a \div b) \in 0 .. b - 1
OBVIOUS

\* In C the quotient is rounded towards 0, and the remainder has the sign of
\* the dividend.
LEMMA QuotientRemainder ==
    ASSUME NEW a \in Int, NEW b \in Nat \ {0}
    PROVE  /\ Quotient(a, b) \in Int /\ Remainder(a, b) \in Int
           /\ a = b * Quotient(a, b) + Remainder(a, b)
           /\ a >= 0 => Remainder(a, b) \in 0 .. b - 1
           /\ a < 0 => Remainder(a, b) \in -(b - 1) .. 0
<1>1. CASE a >= 0
  <2>1. PICK q \in Nat : q = a \div b /\ a - b * q \in 0 .. b - 1
    BY <1>1, DivMod
  <2>2. Quotient(a, b) = q
    BY <1>1, <2>1 DEF Quotient
  <2>3. b * q \in Int
    BY Product
  <2> QED BY <1>1, <2>1, <2>2, <2>3 DEF Remainder
<1>2. CASE a < 0
  <2>0. -a \in Nat
    BY <1>2
  <2>1. PICK q \in Nat : q = (-a) \div b /\ (-a) - b * q \in 0 .. b - 1
    BY <2>0, DivMod
  <2>2. Quotient(a, b) = -q
    BY <1>2, <2>1 DEF Quotient
  <2>3. b * q \in Int /\ b * (-q) = -(b * q)
    BY Product
  <2>4. Remainder(a, b) = a + b * q
    BY <2>2, <2>3 DEF Remainder
  <2> QED BY <1>2, <2>1, <2>2, <2>3, <2>4
<1> QED BY <1>1, <1>2

\* A second has at least one ns.
LEMMA SecondPositive == Second \in Nat \ {0}
<1>1. Step \in Nat \ {0}
  BY UnixTimestampAssumption
<1>2. Step * Step \in Nat \ {0}
  BY <1>1, PositiveProduct
<1>3. Step * Step * Step \in Nat \ {0}
  BY <1>1, <1>2, PositiveProduct
<1> QED BY <1>3 DEF Second, Factor

\* The timespec unixts2time makes of a timestamp in ns is that very time, with a
\* fraction of a second that is not negative: for every integer, before and
\* after 1970, and whatever the division of C leaves as a remainder.
THEOREM TimespecExact ==
    ASSUME NEW x \in Int
    PROVE  /\ Timespec(x).sec \in Int
           /\ Timespec(x).nsec \in 0 .. Second - 1
           /\ Timespec(x).sec * Second + Timespec(x).nsec = x
<1> DEFINE S == Second
           q == Quotient(x, S)
           r == Remainder(x, S)
<1>1. S \in Nat \ {0}
  BY SecondPositive
<1>2. /\ q \in Int /\ r \in Int /\ x = S * q + r
      /\ x >= 0 => r \in 0 .. S - 1
      /\ x < 0 => r \in -(S - 1) .. 0
  BY <1>1, QuotientRemainder
<1>3. Timespec(x) = IF r < 0 THEN [sec |-> q - 1, nsec |-> S + r]
                             ELSE [sec |-> q, nsec |-> r]
  BY DEF Timespec
<1> HIDE DEF S, q, r
<1>4. S * q \in Int /\ q * S = S * q /\ (q - 1) * S = S * q - S
  BY <1>1, <1>2
<1>5. CASE r < 0
  <2>1. Timespec(x).sec = q - 1 /\ Timespec(x).nsec = S + r
    BY <1>3, <1>5
  <2>2. r \in -(S - 1) .. 0 /\ S + r \in 0 .. S - 1
    BY <1>1, <1>2, <1>5
  <2> QED BY <1>1, <1>2, <1>4, <2>1, <2>2 DEF S
<1>6. CASE r >= 0
  <2>1. Timespec(x).sec = q /\ Timespec(x).nsec = r
    BY <1>2, <1>3, <1>6
  <2>2. r \in 0 .. S - 1
    BY <1>1, <1>2, <1>6
  <2> QED BY <1>1, <1>2, <1>4, <2>1, <2>2 DEF S
<1> QED BY <1>2, <1>5, <1>6

-----------------------------------------------------------------------------
(* Recursion *)

\* A non-empty set of natural numbers has a smallest element.
LEMMA FirstPosition ==
    ASSUME NEW S, S \subseteq Nat, S # {}
    PROVE  \E p \in S : \A q \in S : p <= q
<1>1. PICK p \in S : \A q \in S : <<q, p>> \notin OpToRel(<, Nat)
  BY NatLessThanWellFounded, WFMin
<1>2. \A q \in S : ~(q < p)
  BY <1>1 DEF OpToRel
<1> QED BY <1>2

\* A set has every element, if it has those all of whose smaller ones it has.
LEMMA BySize ==
    ASSUME NEW D, NEW size \in [D -> Nat], NEW Good,
           \A i \in D : (\A j \in D : size[j] < size[i] => j \in Good) => i \in Good
    PROVE  \A i \in D : i \in Good
<1> DEFINE Sizes == {size[i] : i \in D \ Good}
<1> SUFFICES ASSUME NEW i \in D, i \notin Good  PROVE FALSE
  OBVIOUS
<1>1. Sizes \subseteq Nat /\ Sizes # {}
  OBVIOUS
<1>2. PICK p \in Sizes : \A q \in Sizes : p <= q
  <2> HIDE DEF Sizes
  <2> QED BY <1>1, FirstPosition
<1>3. PICK j \in D \ Good : p = size[j]
  BY <1>2
<1>4. \A k \in D : size[k] < size[j] => k \in Good
  BY <1>2, <1>3
<1> QED BY <1>3, <1>4

\* A set of positions with the first one, and the next of each, has them all.
LEMMA EveryPosition ==
    ASSUME NEW n \in Nat, NEW S, 0 \in S, \A k \in 1 .. n : k - 1 \in S => k \in S
    PROVE  \A k \in 0 .. n : k \in S
<1> DEFINE Bad == {k \in 0 .. n : k \notin S}
<1> SUFFICES ASSUME Bad # {}  PROVE FALSE
  OBVIOUS
<1>1. PICK k \in Bad : \A j \in Bad : k <= j
  <2>1. Bad \subseteq Nat
    OBVIOUS
  <2> HIDE DEF Bad
  <2> QED BY <2>1, FirstPosition
<1>2. k \in 1 .. n /\ k - 1 \in S
  BY <1>1
<1> QED BY <1>1, <1>2

\* A function can be defined by what its values make of those of smaller arguments.
Descending(D, V, size, limit, Ends, start, prev, step) ==
    /\ size \in [D -> Nat] /\ limit \in Nat /\ \A i \in D : size[i] < limit
    /\ start \in [D -> V] /\ prev \in [D -> D] /\ step \in [D -> [V -> V]]
    /\ \A i \in D \ Ends : size[prev[i]] < size[i]

LEMMA Recursion ==
    ASSUME NEW D, NEW V, NEW size, NEW limit, NEW Ends, NEW start, NEW prev, NEW step,
           Descending(D, V, size, limit, Ends, start, prev, step)
    PROVE  \E f \in [D -> V] : \A i \in D :
              f[i] = IF i \in Ends THEN start[i] ELSE step[i][f[prev[i]]]
<1> USE DEF Descending
<1> DEFINE Next1(f, i) == IF i \in Ends THEN start[i] ELSE step[i][f[prev[i]]]
           Upto(k) == \E f \in [D -> V] : \A i \in D : size[i] < k => f[i] = Next1(f, i)
           Good == {k \in 0 .. limit : Upto(k)}
<1>1. Upto(0)
  BY DEF Upto
<1>2. ASSUME NEW k \in Nat, Upto(k)  PROVE Upto(k + 1)
  <2>1. PICK f \in [D -> V] : \A i \in D : size[i] < k => f[i] = Next1(f, i)
    BY <1>2
  <2>2. \A i \in D : Next1(f, i) \in V
    OBVIOUS
  <2> DEFINE g == [i \in D |-> Next1(f, i)]
  <2>3. g \in [D -> V]
    BY <2>2
  <2>4. ASSUME NEW i \in D, size[i] < k + 1  PROVE g[i] = Next1(g, i)
    <3>1. CASE i \in Ends
      BY <3>1
    <3>2. CASE i \notin Ends
      <4>1. prev[i] \in D /\ size[prev[i]] < k
        BY <2>4, <3>2
      <4>2. g[prev[i]] = f[prev[i]]
        BY <2>1, <4>1
      <4> QED BY <3>2, <4>2
    <3> QED BY <3>1, <3>2
  <2> HIDE DEF g
  <2> QED BY <2>3, <2>4
<1>3. /\ 0 \in Good
      /\ \A k \in 1 .. limit : k - 1 \in Good => k \in Good
  <2>1. 0 \in Good
    BY <1>1
  <2>2. ASSUME NEW k \in 1 .. limit, k - 1 \in Good  PROVE k \in Good
    <3>1. k - 1 \in Nat /\ (k - 1) + 1 = k /\ k \in 0 .. limit
      OBVIOUS
    <3> HIDE DEF Upto
    <3>2. Upto(k)
      BY <1>2, <2>2, <3>1
    <3> QED BY <3>1, <3>2
  <2> QED BY <2>1, <2>2
<1>4. limit \in Good
  <2>1. limit \in Nat /\ limit \in 0 .. limit
    OBVIOUS
  <2>2. \A k \in 0 .. limit : k \in Good
    <3> HIDE DEF Good, Descending
    <3> QED BY <1>3, <2>1, EveryPosition
  <2> QED BY <2>1, <2>2
<1>5. Upto(limit)
  BY <1>4
<1> QED BY <1>5

-----------------------------------------------------------------------------
(* Powers and values *)

\* The powers of Step, one after the other.
LEMMA ScaleSteps ==
    ASSUME NEW n \in Nat
    PROVE  \E power \in [0 .. n -> Nat \ {0}] :
              /\ Scale(n) = power[n] /\ power[0] = 1
              /\ \A k \in 1 .. n : power[k] = Step * power[k - 1]
<1> DEFINE D == 0 .. n
           V == Nat \ {0}
           size == [k \in D |-> k]
           start == [k \in D |-> 1]
           prev == [k \in D |-> IF k = 0 THEN k ELSE k - 1]
           step == [k \in D |-> [v \in V |-> Step * v]]
           Table(g) == g = [k \in D |-> IF k = 0 THEN 1 ELSE Step * g[k - 1]]
           table == CHOOSE g : Table(g)
<1>1. \A v \in V : Step * v \in V
  BY UnixTimestampAssumption, PositiveProduct
<1>2. /\ size \in [D -> Nat] /\ start \in [D -> V] /\ prev \in [D -> D]
      /\ \A i \in D : size[i] < n + 1
      /\ \A i \in D \ {0} : size[prev[i]] < size[i]
      /\ n + 1 \in Nat
  OBVIOUS
<1>3. step \in [D -> [V -> V]]
  BY <1>1
<1>4. PICK f \in [D -> V] : \A k \in D :
        f[k] = IF k \in {0} THEN start[k] ELSE step[k][f[prev[k]]]
  <2>1. Descending(D, V, size, n + 1, {0}, start, prev, step)
    <3> HIDE DEF D, V, size, start, prev, step
    <3> QED BY <1>2, <1>3 DEF Descending
  <2> HIDE DEF D, V, size, start, prev, step
  <2> QED BY <2>1, Recursion
<1>5. \A k \in D : f[k] = IF k = 0 THEN 1 ELSE Step * f[k - 1]
  <2> SUFFICES ASSUME NEW k \in D, k # 0  PROVE f[k] = Step * f[k - 1]
    BY <1>4
  <2>1. k - 1 \in D /\ f[k - 1] \in V /\ prev[k] = k - 1
    OBVIOUS
  <2> QED BY <1>4, <2>1
<1>6. Table(f)
  BY <1>5
<1>7. Table(table)
  BY <1>6
<1>8. Scale(n) = table[n]
  BY DEF Scale
<1> HIDE DEF table
<1>9. \A k \in D : table[k] \in V
  <2> DEFINE Good == {k \in D : table[k] = f[k]}
  <2>1. 0 \in Good
    BY <1>5, <1>7
  <2>2. ASSUME NEW k \in 1 .. n, k - 1 \in Good  PROVE k \in Good
    BY <1>5, <1>7, <2>2
  <2>3. \A k \in D : k \in Good
    <3> HIDE DEF Good
    <3> QED BY <2>1, <2>2, EveryPosition
  <2> QED BY <2>3
<1>10. table \in [D -> V]
  BY <1>7, <1>9
<1>11. table[0] = 1
  BY <1>7
<1>12. ASSUME NEW k \in 1 .. n  PROVE table[k] = Step * table[k - 1]
  <2>1. k \in D /\ k # 0
    OBVIOUS
  <2> QED BY <1>7, <2>1
<1> QED BY <1>8, <1>10, <1>11, <1>12

LEMMA ScaleType == ASSUME NEW n \in Nat  PROVE Scale(n) \in Nat \ {0}
<1>1. n \in 0 .. n
  OBVIOUS
<1> QED BY <1>1, ScaleSteps

\* The value of a sequence of digits, one digit after the other.
LEMMA ValueSteps ==
    ASSUME NEW s \in Seq(Nat), NEW base \in Nat
    PROVE  \E v \in [0 .. Len(s) -> Nat] :
              /\ ValueOf(s, base) = v[Len(s)] /\ v[0] = 0
              /\ \A k \in 1 .. Len(s) : v[k] = v[k - 1] * base + s[k]
<1> DEFINE n == Len(s)
           D == 0 .. n
           size == [k \in D |-> k]
           start == [k \in D |-> 0]
           prev == [k \in D |-> IF k = 0 THEN k ELSE k - 1]
           step == [k \in D |-> [v \in Nat |-> IF k = 0 THEN v ELSE v * base + s[k]]]
           Table(g) == g = [k \in D |-> IF k = 0 THEN 0 ELSE g[k - 1] * base + s[k]]
           table == CHOOSE g : Table(g)
<1>0. n \in Nat /\ n + 1 \in Nat /\ \A k \in 1 .. n : s[k] \in Nat
  BY LenProperties, ElementOfSeq
<1>8. ValueOf(s, base) = table[n]
  BY DEF ValueOf
<1> HIDE DEF n
<1>1. ASSUME NEW k \in D, NEW v \in Nat
      PROVE  (IF k = 0 THEN v ELSE v * base + s[k]) \in Nat
  <2>1. v * base \in Nat
    OBVIOUS
  <2> QED BY <1>0, <2>1
<1>2. /\ size \in [D -> Nat] /\ start \in [D -> Nat] /\ prev \in [D -> D]
      /\ \A i \in D : size[i] < n + 1
      /\ \A i \in D \ {0} : size[prev[i]] < size[i]
  BY <1>0
<1>3. step \in [D -> [Nat -> Nat]]
  BY <1>1
<1>4. PICK f \in [D -> Nat] : \A k \in D :
        f[k] = IF k \in {0} THEN start[k] ELSE step[k][f[prev[k]]]
  <2>1. Descending(D, Nat, size, n + 1, {0}, start, prev, step)
    <3> HIDE DEF D, size, start, prev, step
    <3> QED BY <1>0, <1>2, <1>3 DEF Descending
  <2> HIDE DEF D, size, start, prev, step
  <2> QED BY <2>1, Recursion
<1>5. \A k \in D : f[k] = IF k = 0 THEN 0 ELSE f[k - 1] * base + s[k]
  <2> SUFFICES ASSUME NEW k \in D, k # 0  PROVE f[k] = f[k - 1] * base + s[k]
    BY <1>4
  <2>1. k - 1 \in D /\ f[k - 1] \in Nat /\ prev[k] = k - 1
    BY <1>0
  <2> QED BY <1>4, <2>1
<1>6. Table(f)
  BY <1>5
<1>7. Table(table)
  BY <1>6
<1> HIDE DEF table
<1>9. \A k \in D : table[k] \in Nat
  <2> DEFINE Good == {k \in D : table[k] = f[k]}
  <2>1. 0 \in Good
    BY <1>0, <1>5, <1>7
  <2>2. ASSUME NEW k \in 1 .. n, k - 1 \in Good  PROVE k \in Good
    <3>1. k \in D /\ k - 1 \in D /\ k # 0
      BY <1>0
    <3> QED BY <1>5, <1>7, <2>2, <3>1
  <2>3. \A k \in D : k \in Good
    <3> HIDE DEF Good
    <3> QED BY <1>0, <2>1, <2>2, EveryPosition
  <2> QED BY <2>3
<1>10. table \in [D -> Nat]
  BY <1>7, <1>9
<1>11. table[0] = 0
  BY <1>0, <1>7
<1>12. ASSUME NEW k \in 1 .. n  PROVE table[k] = table[k - 1] * base + s[k]
  <2>1. k \in D /\ k # 0
    BY <1>0
  <2> QED BY <1>7, <2>1
<1> QED BY <1>8, <1>10, <1>11, <1>12 DEF n

LEMMA ValueType ==
    ASSUME NEW s \in Seq(Nat), NEW base \in Nat
    PROVE  ValueOf(s, base) \in Nat
<1>1. Len(s) \in Nat /\ Len(s) \in 0 .. Len(s)
  BY LenProperties
<1>2. PICK v \in [0 .. Len(s) -> Nat] : ValueOf(s, base) = v[Len(s)]
  BY ValueSteps
<1> QED BY <1>1, <1>2

\* Digits less than Step have a value less than the power of their number.
LEMMA ValueBelowScale ==
    ASSUME NEW s \in Seq(Digits)
    PROVE  /\ s \in Seq(Nat)
           /\ ValueOf(s, Step) \in 0 .. Scale(Len(s)) - 1
<1> DEFINE n == Len(s)
<1>1. n \in Nat /\ \A k \in 1 .. n : s[k] \in Digits
  BY LenProperties, ElementOfSeq
<1>2. Step \in Nat \ {0} /\ \A d \in Digits : d \in Nat /\ d <= Step - 1
  BY UnixTimestampAssumption DEF Digits
<1>3. s \in Seq(Nat)
  <2>1. s \in [1 .. n -> Nat]
    BY <1>1, <1>2, LenProperties
  <2> QED BY <1>1, <2>1
<1>4. PICK v \in [0 .. n -> Nat] :
        /\ ValueOf(s, Step) = v[n] /\ v[0] = 0
        /\ \A k \in 1 .. n : v[k] = v[k - 1] * Step + s[k]
  BY <1>2, <1>3, ValueSteps
<1>5. PICK p \in [0 .. n -> Nat \ {0}] :
        /\ Scale(n) = p[n] /\ p[0] = 1
        /\ \A k \in 1 .. n : p[k] = Step * p[k - 1]
  BY <1>1, ScaleSteps
<1> HIDE DEF n
<1> DEFINE Good == {k \in 0 .. n : v[k] <= p[k] - 1}
<1>6. 0 \in Good
  BY <1>1, <1>4, <1>5
<1>7. ASSUME NEW k \in 1 .. n, k - 1 \in Good  PROVE k \in Good
  <2> DEFINE a == v[k - 1]
             b == p[k - 1]
             d == s[k]
  <2>1. k \in 0 .. n /\ k - 1 \in 0 .. n
    BY <1>1
  <2>2. /\ a \in Nat /\ b \in Nat /\ a <= b - 1 /\ d \in Nat /\ d <= Step - 1
        /\ v[k] = a * Step + d /\ p[k] = Step * b
    BY <1>1, <1>2, <1>4, <1>5, <1>7, <2>1
  <2> HIDE DEF a, b, d
  <2>3. a * Step <= (b - 1) * Step
    <3> DEFINE c == b - 1
    <3>1. a \in Int /\ c \in Int /\ Step \in Nat /\ a <= c
      BY <1>2, <2>2
    <3> HIDE DEF c
    <3>2. a * Step <= c * Step
      BY <3>1, Monotone
    <3> QED BY <3>2 DEF c
  <2>5. (b - 1) * Step = (Step * b) - Step
        /\ a * Step \in Nat /\ Step * b \in Nat
    BY <1>2, <2>2
  <2>4. v[k] <= p[k] - 1
    <3> DEFINE x == a * Step
               y == Step * b
               z == (b - 1) * Step
    <3>1. x \in Nat /\ y \in Nat /\ x <= z /\ z = y - Step
      BY <2>3, <2>5
    <3>2. v[k] = x + d /\ p[k] = y
      BY <2>2
    <3> HIDE DEF x, y, z
    <3>3. x + d <= y - 1
      BY <1>2, <2>2, <3>1
    <3> QED BY <3>2, <3>3
  <2> QED BY <2>1, <2>4, Zenon
<1>8. n \in Good
  <2>1. \A k \in 0 .. n : k \in Good
    <3> HIDE DEF Good
    <3> QED BY <1>1, <1>6, <1>7, EveryPosition
  <2> QED BY <1>1, <2>1
<1>9. v[n] \in Nat /\ p[n] \in Nat /\ v[n] <= p[n] - 1
  BY <1>1, <1>4, <1>5, <1>8
<1> QED BY <1>3, <1>4, <1>5, <1>9 DEF n

-----------------------------------------------------------------------------
(* Digits printed *)

\* A quotient that is not 0 is nearer to 0 than the dividend.
LEMMA QuotientShrinks ==
    ASSUME NEW a \in Int, NEW b \in Nat \ {0}, b > 1, Quotient(a, b) # 0
    PROVE  IF a < 0 THEN Quotient(a, b) \in a + 1 .. 0 ELSE Quotient(a, b) \in 0 .. a - 1
<1> DEFINE q == Quotient(a, b)
           r == Remainder(a, b)
<1>1. /\ q \in Int /\ r \in Int /\ a = b * q + r
      /\ a >= 0 => r \in 0 .. b - 1
      /\ a < 0 => r \in -(b - 1) .. 0
  BY QuotientRemainder
<1>2. q # 0
  OBVIOUS
<1>3. (a >= 0 => q >= 0) /\ (a < 0 => q <= 0)
  BY DivMod DEF Quotient
<1> HIDE DEF q, r
<1>4. CASE a >= 0
  <2>1. b * q >= 2 * q
    BY <1>1, <1>3, <1>4, Monotone
  <2> QED BY <1>1, <1>2, <1>3, <1>4, <2>1 DEF q
<1>5. CASE a < 0
  <2> DEFINE p == -q
  <2>1. p \in Nat /\ q = -p
    BY <1>1, <1>3, <1>5
  <2> HIDE DEF p
  <2>2. b * p >= 2 * p
    BY <2>1, Monotone
  <2>3. b * q = -(b * p) /\ b * p \in Int
    BY <2>1, Product
  <2> QED BY <1>1, <1>2, <1>5, <2>1, <2>2, <2>3 DEF q
<1> QED BY <1>4, <1>5

Abs(i) == IF i < 0 THEN -i ELSE i

\* What printBigInteger() prints are digits of the base: those of the quotient and
\* the remainder without its sign.
LEMMA PrintedSteps ==
    ASSUME NEW value \in Int, NEW base \in Nat, base > 1
    PROVE  \E digits \in [-Abs(value) .. Abs(value) -> Seq(0 .. base - 1)] :
              /\ Printed(value, base) = digits[value]
              /\ \A i \in -Abs(value) .. Abs(value) :
                   digits[i] = (IF Quotient(i, base) # 0 THEN digits[Quotient(i, base)]
                                                        ELSE <<>>)
                               \o <<Abs(Remainder(i, base))>>
<1> DEFINE m == Abs(value)
           D == -m .. m
           V == Seq(0 .. base - 1)
           Q(i) == Quotient(i, base)
           d(i) == Abs(Remainder(i, base))
           size == [i \in D |-> Abs(i)]
           Ends == {i \in D : Q(i) = 0}
           start == [i \in D |-> <<d(i)>>]
           prev == [i \in D |-> IF Q(i) # 0 THEN Q(i) ELSE i]
           step == [i \in D |-> [v \in V |-> v \o <<d(i)>>]]
           Table(g) == g = [i \in D |->
                              (IF Q(i) # 0 THEN g[Q(i)] ELSE <<>>) \o <<d(i)>>]
           table == CHOOSE g : Table(g)
<1>1. m \in Nat /\ value \in D /\ m + 1 \in Nat
  BY DEF Abs
<1>2. Printed(value, base) = table[value]
  BY Zenon DEF Printed, Abs
<1> HIDE DEF m
<1>3. ASSUME NEW i \in D
      PROVE  /\ i \in Int /\ d(i) \in 0 .. base - 1 /\ Abs(i) \in Nat /\ Abs(i) < m + 1
             /\ Q(i) # 0 => Q(i) \in D /\ Abs(Q(i)) < Abs(i)
  <2>1. i \in Int /\ base \in Nat \ {0}
    OBVIOUS
  <2>2. d(i) \in 0 .. base - 1
    <3> DEFINE r == Remainder(i, base)
    <3>1. r \in Int /\ (r \in 0 .. base - 1 \/ r \in -(base - 1) .. 0)
      BY <2>1, QuotientRemainder
    <3> HIDE DEF r
    <3>2. Abs(r) \in 0 .. base - 1
      BY <3>1 DEF Abs
    <3> QED BY <3>2 DEF r
  <2>3. Abs(i) \in Nat /\ Abs(i) < m + 1
    BY <1>1 DEF Abs
  <2>4. ASSUME Q(i) # 0  PROVE Q(i) \in D /\ Abs(Q(i)) < Abs(i)
    <3> DEFINE q == Q(i)
    <3>1. IF i < 0 THEN q \in i + 1 .. 0 ELSE q \in 0 .. i - 1
      BY <2>1, <2>4, QuotientShrinks
    <3> HIDE DEF q
    <3>2. q \in D /\ Abs(q) < Abs(i)
      BY <1>1, <2>1, <3>1 DEF Abs
    <3> QED BY <3>2 DEF q
  <2> QED BY <2>1, <2>2, <2>3, <2>4
<1> HIDE DEF Q, d
<1>4. \A i \in D : <<d(i)>> \in V
  BY <1>3
<1>5. Descending(D, V, size, m + 1, Ends, start, prev, step)
  <2>1. /\ size \in [D -> Nat] /\ \A i \in D : size[i] < m + 1
        /\ prev \in [D -> D]
        /\ \A i \in D \ Ends : size[prev[i]] < size[i]
    <3> HIDE DEF D
    <3> QED BY <1>3
  <2>2. start \in [D -> V] /\ step \in [D -> [V -> V]]
    <3>1. \A i \in D, v \in V : v \o <<d(i)>> \in V
      BY <1>4, ConcatProperties
    <3> HIDE DEF V, D
    <3> QED BY <1>4, <3>1
  <2> HIDE DEF D, V, size, Ends, start, prev, step
  <2> QED BY <1>1, <2>1, <2>2 DEF Descending
<1>6. PICK f \in [D -> V] : \A i \in D :
        f[i] = IF i \in Ends THEN start[i] ELSE step[i][f[prev[i]]]
  <2> HIDE DEF D, V, size, Ends, start, prev, step
  <2> QED BY <1>5, Recursion
<1>7. \A i \in D : f[i] = (IF Q(i) # 0 THEN f[Q(i)] ELSE <<>>) \o <<d(i)>>
  <2> SUFFICES ASSUME NEW i \in D
               PROVE f[i] = (IF Q(i) # 0 THEN f[Q(i)] ELSE <<>>) \o <<d(i)>>
    OBVIOUS
  <2>1. CASE Q(i) = 0
    <3>1. f[i] = <<d(i)>>
      BY <1>6, <2>1
    <3>2. <<>> \o <<d(i)>> = <<d(i)>>
      BY <1>4, ConcatEmptySeq
    <3> QED BY <2>1, <3>1, <3>2
  <2>2. CASE Q(i) # 0
    <3>1. Q(i) \in D /\ f[Q(i)] \in V
      BY <1>3, <2>2
    <3> HIDE DEF D, V
    <3>2. f[i] = step[i][f[prev[i]]] /\ prev[i] = Q(i)
      BY <1>6, <2>2
    <3> QED BY <2>2, <3>1, <3>2
  <2> QED BY <2>1, <2>2
<1>8. Table(f)
  <2> HIDE DEF D, V
  <2> QED BY <1>7
<1>9. Table(table)
  <2> HIDE DEF Table
  <2> QED BY <1>8
<1> HIDE DEF table
<1>10. \A i \in D : table[i] = f[i]
  <2> DEFINE Good == {i \in D : table[i] = f[i]}
  <2>1. ASSUME NEW i \in D, \A j \in D : size[j] < size[i] => j \in Good
        PROVE  i \in Good
    <3>1. table[i] = (IF Q(i) # 0 THEN table[Q(i)] ELSE <<>>) \o <<d(i)>>
      <4> HIDE DEF D, V
      <4> QED BY <1>9
    <3>2. Q(i) # 0 => table[Q(i)] = f[Q(i)]
      <4> HIDE DEF D, V
      <4> QED BY <1>3, <2>1
    <3> QED BY <1>7, <3>1, <3>2
  <2>2. size \in [D -> Nat]
    BY <1>5 DEF Descending
  <2>3. \A i \in D : i \in Good
    <3> HIDE DEF Good, size, D
    <3> QED BY <2>1, <2>2, BySize
  <2> QED BY <2>3
<1>11. table \in [D -> V]
  <2>1. DOMAIN table = D
    BY <1>9
  <2>2. table = [i \in D |-> table[i]]
    <3> HIDE DEF D, V
    <3> QED BY <1>9
  <2> HIDE DEF D, V
  <2> QED BY <1>10, <2>2
<1>12. ASSUME NEW i \in D
       PROVE  table[i] = (IF Q(i) # 0 THEN table[Q(i)] ELSE <<>>) \o <<d(i)>>
  <2> HIDE DEF D, V
  <2> QED BY <1>9
<1> QED BY <1>2, <1>11, <1>12 DEF m, Q, d

LEMMA PrintedType ==
    ASSUME NEW value \in Int, NEW base \in Nat, base > 1
    PROVE  Printed(value, base) \in Seq(0 .. base - 1)
<1>1. value \in -Abs(value) .. Abs(value)
  BY DEF Abs
<1>2. PICK digits \in [-Abs(value) .. Abs(value) -> Seq(0 .. base - 1)] :
        Printed(value, base) = digits[value]
  BY PrintedSteps
<1> QED BY <1>1, <1>2

\* Digits of a base are natural numbers.
LEMMA DigitsNat ==
    ASSUME NEW base \in Nat, NEW s \in Seq(0 .. base - 1)
    PROVE  s \in Seq(Nat)
<1>1. Len(s) \in Nat /\ \A k \in 1 .. Len(s) : s[k] \in 0 .. base - 1
  BY LenProperties, ElementOfSeq
<1>2. s \in [1 .. Len(s) -> Nat]
  BY <1>1, LenProperties
<1> QED BY <1>1, <1>2

\* The value with one more digit, as both strtoll() and a reader compute it.
LEMMA ValueAppend ==
    ASSUME NEW s \in Seq(Nat), NEW d \in Nat, NEW base \in Nat
    PROVE  ValueOf(s \o <<d>>, base) = ValueOf(s, base) * base + d
<1> DEFINE n == Len(s)
           t == s \o <<d>>
<1>1. n \in Nat /\ <<d>> \in Seq(Nat) /\ Len(<<d>>) = 1 /\ <<d>>[1] = d
  BY LenProperties
<1>2. t \in Seq(Nat) /\ Len(t) = n + 1
      /\ (\A k \in 1 .. n : t[k] = s[k]) /\ t[n + 1] = d
  <2>1. t \in Seq(Nat) /\ Len(t) = n + Len(<<d>>)
        /\ \A k \in 1 .. n + Len(<<d>>) : t[k] = IF k <= n THEN s[k] ELSE <<d>>[k - n]
    BY <1>1, ConcatProperties
  <2> HIDE DEF t, n
  <2>2. \A k \in 1 .. n + 1 : t[k] = IF k <= n THEN s[k] ELSE <<d>>[k - n]
    BY <1>1, <2>1
  <2>3. \A k \in 1 .. n : t[k] = s[k]
    BY <1>1, <2>2
  <2>4. t[n + 1] = <<d>>[(n + 1) - n]
    <3>1. n + 1 \in 1 .. n + 1 /\ ~(n + 1 <= n)
      BY <1>1
    <3> QED BY <2>2, <3>1
  <2>5. (n + 1) - n = 1
    BY <1>1
  <2> QED BY <1>1, <2>1, <2>3, <2>4, <2>5
<1>3. PICK v \in [0 .. n -> Nat] :
        /\ ValueOf(s, base) = v[n] /\ v[0] = 0
        /\ \A k \in 1 .. n : v[k] = v[k - 1] * base + s[k]
  BY ValueSteps
<1>4. PICK w \in [0 .. n + 1 -> Nat] :
        /\ ValueOf(t, base) = w[n + 1] /\ w[0] = 0
        /\ \A k \in 1 .. n + 1 : w[k] = w[k - 1] * base + t[k]
  <2>1. PICK w \in [0 .. Len(t) -> Nat] :
          /\ ValueOf(t, base) = w[Len(t)] /\ w[0] = 0
          /\ \A k \in 1 .. Len(t) : w[k] = w[k - 1] * base + t[k]
    BY <1>2, ValueSteps
  <2> HIDE DEF t, n
  <2> QED BY <1>2, <2>1
<1> HIDE DEF n, t
<1> DEFINE Good == {k \in 0 .. n : w[k] = v[k]}
<1>5. 0 \in Good
  BY <1>1, <1>3, <1>4
<1>6. ASSUME NEW k \in 1 .. n, k - 1 \in Good  PROVE k \in Good
  <2>1. k \in 0 .. n /\ k \in 1 .. n + 1 /\ w[k - 1] = v[k - 1]
    BY <1>1, <1>6
  <2>2. w[k] = w[k - 1] * base + t[k] /\ v[k] = v[k - 1] * base + s[k] /\ t[k] = s[k]
    BY <1>2, <1>3, <1>4, <2>1
  <2> QED BY <2>1, <2>2
<1>7. n \in Good
  <2>1. \A k \in 0 .. n : k \in Good
    <3> HIDE DEF Good
    <3> QED BY <1>1, <1>5, <1>6, EveryPosition
  <2> QED BY <1>1, <2>1
<1>8. w[n] = v[n] /\ n + 1 \in 1 .. n + 1 /\ (n + 1) - 1 = n
  BY <1>1, <1>7
<1>9. w[n + 1] = w[n] * base + d
  <2>1. w[n + 1] = w[(n + 1) - 1] * base + t[n + 1]
    BY <1>4, <1>8
  <2> QED BY <1>2, <1>8, <2>1
<1> QED BY <1>3, <1>4, <1>8, <1>9 DEF n, t

\* No digits are worth nothing.
LEMMA ValueEmpty == ASSUME NEW base \in Nat  PROVE ValueOf(<<>>, base) = 0
<1>1. <<>> \in Seq(Nat) /\ Len(<<>>) = 0
  BY EmptySeq
<1>2. PICK v \in [0 .. Len(<<>>) -> Nat] : ValueOf(<<>>, base) = v[Len(<<>>)] /\ v[0] = 0
  BY <1>1, ValueSteps
<1> QED BY <1>1, <1>2

\* The division of C without the signs.
LEMMA AbsQuotient ==
    ASSUME NEW i \in Int, NEW base \in Nat, base > 1
    PROVE  /\ Quotient(i, base) \in Int /\ Abs(Quotient(i, base)) \in Nat
           /\ Abs(Remainder(i, base)) \in 0 .. base - 1
           /\ Abs(Quotient(i, base)) * base + Abs(Remainder(i, base)) = Abs(i)
           /\ Quotient(i, base) # 0 => Abs(Quotient(i, base)) < Abs(i)
<1> DEFINE q == Quotient(i, base)
           r == Remainder(i, base)
<1>1. /\ q \in Int /\ r \in Int /\ i = base * q + r
      /\ i >= 0 => r \in 0 .. base - 1
      /\ i < 0 => r \in -(base - 1) .. 0
  BY QuotientRemainder
<1>2. q # 0 => IF i < 0 THEN q \in i + 1 .. 0 ELSE q \in 0 .. i - 1
  BY QuotientShrinks
<1> HIDE DEF q, r
<1>3. Abs(q) \in Nat /\ Abs(r) \in 0 .. base - 1 /\ (q # 0 => Abs(q) < Abs(i))
  BY <1>1, <1>2 DEF Abs
<1>4. Abs(q) * base + Abs(r) = Abs(i)
  <2>1. base * q \in Int /\ q * base = base * q /\ (-q) * base = -(base * q)
    BY <1>1
  <2>2. CASE i >= 0
    <3>1. q >= 0 /\ r >= 0 /\ Abs(q) = q /\ Abs(r) = r /\ Abs(i) = i
      BY <1>1, <1>2, <2>2 DEF Abs
    <3> QED BY <1>1, <2>1, <3>1
  <2>3. CASE i < 0
    <3>1. q <= 0 /\ r <= 0 /\ Abs(q) = -q /\ Abs(r) = -r /\ Abs(i) = -i
      BY <1>1, <1>2, <2>3 DEF Abs
    <3>2. (-q) * base + (-r) = -i
      BY <1>1, <2>1
    <3> QED BY <3>1, <3>2
  <2> QED BY <2>2, <2>3
<1> QED BY <1>1, <1>3, <1>4 DEF q, r

\* What printBigInteger() prints is the value without its sign: for every integer,
\* the least one among them, to every base.
LEMMA PrintedValue ==
    ASSUME NEW value \in Int, NEW base \in Nat, base > 1
    PROVE  ValueOf(Printed(value, base), base) = Abs(value)
<1> DEFINE m == Abs(value)
           D == -m .. m
           V == Seq(0 .. base - 1)
           size == [i \in D |-> Abs(i)]
<1>1. m \in Nat /\ value \in D
  BY DEF Abs
<1>2. PICK digits \in [D -> V] :
        /\ Printed(value, base) = digits[value]
        /\ \A i \in D : digits[i] = (IF Quotient(i, base) # 0 THEN digits[Quotient(i, base)]
                                                              ELSE <<>>)
                                    \o <<Abs(Remainder(i, base))>>
  BY PrintedSteps
<1> HIDE DEF m
<1> DEFINE Good == {i \in D : ValueOf(digits[i], base) = Abs(i)}
<1>3. ASSUME NEW i \in D, \A j \in D : size[j] < size[i] => j \in Good
      PROVE  i \in Good
  <2> DEFINE q == Quotient(i, base)
             d == Abs(Remainder(i, base))
  <2>1. /\ i \in Int /\ q \in Int /\ Abs(q) \in Nat /\ d \in 0 .. base - 1
        /\ Abs(q) * base + d = Abs(i) /\ (q # 0 => Abs(q) < Abs(i))
    BY AbsQuotient
  <2>2. digits[i] = (IF q # 0 THEN digits[q] ELSE <<>>) \o <<d>>
    BY <1>2
  <2> HIDE DEF q, d
  <2>3. CASE q # 0
    <3>1. q \in D
      BY <1>1, <2>1, <2>3 DEF Abs
    <3>2. size[q] < size[i]
      BY <2>1, <2>3, <3>1
    <3>3. ValueOf(digits[q], base) = Abs(q)
      BY <1>3, <3>1, <3>2
    <3>4. digits[q] \in Seq(Nat)
      <4>1. digits[q] \in V
        BY <3>1
      <4> QED BY <4>1, DigitsNat
    <3>5. d \in Nat
      BY <2>1
    <3>6. ValueOf(digits[q] \o <<d>>, base) = ValueOf(digits[q], base) * base + d
      BY <3>4, <3>5, ValueAppend
    <3> QED BY <2>1, <2>2, <2>3, <3>3, <3>6
  <2>4. CASE q = 0
    <3>1. <<>> \in Seq(Nat) /\ d \in Nat /\ ValueOf(<<>>, base) = 0
      BY <2>1, EmptySeq, ValueEmpty
    <3>2. ValueOf(<<>> \o <<d>>, base) = ValueOf(<<>>, base) * base + d
      BY <3>1, ValueAppend
    <3>3. Abs(q) = 0
      BY <2>4 DEF Abs
    <3>4. ValueOf(digits[i], base) = ValueOf(<<>> \o <<d>>, base)
      BY <2>2, <2>4
    <3>5. 0 * base + d = Abs(i)
      BY <2>1, <3>3
    <3> QED BY <3>1, <3>2, <3>4, <3>5
  <2> QED BY <2>3, <2>4
<1>4. size \in [D -> Nat]
  BY DEF Abs
<1>5. \A i \in D : i \in Good
  <2> HIDE DEF Good, size, D
  <2> QED BY <1>3, <1>4, BySize
<1> QED BY <1>1, <1>2, <1>5 DEF m

\* Zeros are digits, as many as there may be.
LEMMA ZerosType == ASSUME NEW m \in Int  PROVE [k \in 1 .. m |-> 0] \in Seq(Digits)
<1> DEFINE z == [k \in 1 .. m |-> 0]
<1>1. 0 \in Digits
  BY UnixTimestampAssumption DEF Digits
<1>2. CASE m >= 0
  <2>1. m \in Nat /\ z \in [1 .. m -> Digits]
    BY <1>1, <1>2
  <2> QED BY <2>1
<1>3. CASE m < 0
  <2>1. 1 .. m = 1 .. 0
    BY <1>3
  <2>2. z \in [1 .. 0 -> Digits] /\ 0 \in Nat
    BY <1>1, <2>1
  <2> HIDE DEF z
  <2>3. z \in Seq(Digits)
    BY <2>2, SeqDef
  <2> QED BY <2>3 DEF z
<1> QED BY <1>2, <1>3

LEMMA PaddedType ==
    ASSUME NEW n \in Int, NEW width \in Int
    PROVE  Padded(n, width) \in Seq(Digits)
<1> DEFINE digits == Printed(n, Step)
           m == width - Len(digits)
<1>1. Step \in Nat /\ Step > 1
  BY UnixTimestampAssumption
<1>2. digits \in Seq(Digits) /\ m \in Int
  BY <1>1, PrintedType, LenProperties DEF Digits
<1>3. Padded(n, width) = [k \in 1 .. m |-> 0] \o digits
  BY DEF Padded
<1> HIDE DEF digits, m
<1>4. [k \in 1 .. m |-> 0] \in Seq(Digits)
  BY <1>2, ZerosType
<1> QED BY <1>2, <1>3, <1>4, ConcatProperties

\* Zeros before a number do not change it.
LEMMA LeadingZeros ==
    ASSUME NEW z \in Seq(Nat), \A k \in 1 .. Len(z) : z[k] = 0,
           NEW s \in Seq(Nat), NEW base \in Nat
    PROVE  ValueOf(z \o s, base) = ValueOf(s, base)
<1> DEFINE m == Len(z)
           n == Len(s)
           t == z \o s
<1>1. m \in Nat /\ n \in Nat /\ \A k \in 1 .. n : s[k] \in Nat
  BY LenProperties, ElementOfSeq
<1>2. t \in Seq(Nat) /\ Len(t) = m + n
      /\ \A k \in 1 .. m + n : t[k] = IF k <= m THEN z[k] ELSE s[k - m]
  BY ConcatProperties
<1>3. PICK v \in [0 .. n -> Nat] :
        /\ ValueOf(s, base) = v[n] /\ v[0] = 0
        /\ \A k \in 1 .. n : v[k] = v[k - 1] * base + s[k]
  BY ValueSteps
<1>4. PICK w \in [0 .. m + n -> Nat] :
        /\ ValueOf(t, base) = w[m + n] /\ w[0] = 0
        /\ \A k \in 1 .. m + n : w[k] = w[k - 1] * base + t[k]
  <2>1. PICK w \in [0 .. Len(t) -> Nat] :
          /\ ValueOf(t, base) = w[Len(t)] /\ w[0] = 0
          /\ \A k \in 1 .. Len(t) : w[k] = w[k - 1] * base + t[k]
    BY <1>2, ValueSteps
  <2> HIDE DEF t, m, n
  <2> QED BY <1>2, <2>1
<1>5. \A k \in 1 .. m : z[k] = 0
  OBVIOUS
<1> HIDE DEF m, n, t
<1>6. w[m] = 0
  <2> DEFINE Good == {k \in 0 .. m : w[k] = 0}
  <2>1. 0 \in Good
    BY <1>1, <1>4
  <2>2. ASSUME NEW k \in 1 .. m, k - 1 \in Good  PROVE k \in Good
    <3>1. k \in 0 .. m /\ k \in 1 .. m + n /\ k <= m /\ w[k - 1] = 0
      BY <1>1, <2>2
    <3>2. w[k] = w[k - 1] * base + t[k] /\ t[k] = 0
      BY <1>2, <1>4, <1>5, <3>1
    <3>3. 0 * base + 0 = 0
      OBVIOUS
    <3> QED BY <3>1, <3>2, <3>3
  <2>3. \A k \in 0 .. m : k \in Good
    <3> HIDE DEF Good
    <3> QED BY <1>1, <2>1, <2>2, EveryPosition
  <2> QED BY <1>1, <2>3
<1>7. w[m + n] = v[n]
  <2> DEFINE Good == {k \in 0 .. n : w[m + k] = v[k]}
  <2>1. 0 \in Good
    BY <1>1, <1>3, <1>6
  <2>2. ASSUME NEW k \in 1 .. n, k - 1 \in Good  PROVE k \in Good
    <3>1. /\ k \in 0 .. n /\ m + k \in 1 .. m + n /\ ~(m + k <= m)
          /\ (m + k) - 1 = m + (k - 1) /\ (m + k) - m = k
          /\ w[m + (k - 1)] = v[k - 1]
      BY <1>1, <2>2
    <3>2. w[m + k] = w[(m + k) - 1] * base + t[m + k] /\ t[m + k] = s[(m + k) - m]
      BY <1>2, <1>4, <3>1
    <3>3. v[k] = v[k - 1] * base + s[k]
      BY <1>3
    <3>4. w[m + k] = v[k]
      BY <3>1, <3>2, <3>3
    <3> QED BY <3>1, <3>4
  <2>3. \A k \in 0 .. n : k \in Good
    <3> HIDE DEF Good
    <3> QED BY <1>1, <2>1, <2>2, EveryPosition
  <2> QED BY <1>1, <2>3
<1> QED BY <1>3, <1>4, <1>7 DEF t

\* A fraction printed with leading zeros is the number it has been printed from.
LEMMA PaddedValue ==
    ASSUME NEW n \in Nat, NEW width \in Int
    PROVE  ValueOf(Padded(n, width), Step) = n
<1> DEFINE digits == Printed(n, Step)
           m == width - Len(digits)
           z == [k \in 1 .. m |-> 0]
<1>1. Step \in Nat /\ Step > 1
  BY UnixTimestampAssumption
<1>2. digits \in Seq(Digits) /\ m \in Int
  BY <1>1, PrintedType, LenProperties DEF Digits
<1>3. Padded(n, width) = z \o digits
  BY DEF Padded
<1>4. ValueOf(digits, Step) = n
  BY <1>1, PrintedValue DEF Abs
<1> HIDE DEF digits, m
<1>5. z \in Seq(Digits)
  BY <1>2, ZerosType
<1>6. \A k \in 1 .. Len(z) : z[k] = 0
  <2>1. DOMAIN z = 1 .. Len(z)
    <3> HIDE DEF z
    <3> QED BY <1>5, LenProperties
  <2>2. DOMAIN z = 1 .. m
    OBVIOUS
  <2> QED BY <2>1, <2>2
<1> HIDE DEF z
<1>7. z \in Seq(Nat) /\ digits \in Seq(Nat)
  BY <1>1, <1>2, <1>5, DigitsNat DEF Digits
<1> QED BY <1>1, <1>3, <1>4, <1>6, <1>7, LeadingZeros

-----------------------------------------------------------------------------
(* Templates *)

\* A placeholder of the seconds has two characters.
LEMMA PlaceholderType ==
    ASSUME NEW template \in Seq(STRING)
    PROVE  /\ SecondsPlaceholder(template) \in 0 .. Len(template)
           /\ SecondsPlaceholder(template) # 0
                => SecondsPlaceholder(template) < Len(template)
<1> DEFINE n == Len(template)
           D == 1 .. n + 1
           V == {i \in 0 .. n : i # 0 => i < n}
           Plain(i) == template[i] # "%" \/ i = n
           Found(i) == template[i + 1] = "S"
           size == [i \in D |-> (n + 1) - i]
           Ends == {i \in D : i > n \/ (~Plain(i) /\ Found(i))}
           start == [i \in D |-> IF i > n THEN 0 ELSE IF Plain(i) THEN 0 ELSE i]
           prev == [i \in D |-> IF i > n THEN i ELSE IF Plain(i) THEN i + 1 ELSE i + 2]
           step == [i \in D |-> [v \in V |-> v]]
           Table(g) == g = [i \in D |-> IF i > n THEN 0
                                        ELSE IF Plain(i) THEN g[i + 1]
                                        ELSE IF Found(i) THEN i ELSE g[i + 2]]
           table == CHOOSE g : Table(g)
<1>1. n \in Nat /\ n + 2 \in Nat /\ 1 \in D
  BY LenProperties
<1>2. SecondsPlaceholder(template) = table[1]
  BY Zenon DEF SecondsPlaceholder
<1>a. Plain(n)
  OBVIOUS
<1> HIDE DEF n, Plain, Found
<1>3. ASSUME NEW i \in D
      PROVE  /\ i \in Int /\ (n + 1) - i \in Nat /\ (n + 1) - i < n + 2
             /\ ~(i > n) => i + 1 \in D /\ (n + 1) - (i + 1) < (n + 1) - i
             /\ ~(i > n) /\ ~Plain(i) =>
                  i \in V /\ i + 2 \in D /\ (n + 1) - (i + 2) < (n + 1) - i
  <2>1. i \in Int /\ 1 <= i /\ i <= n + 1
    BY <1>1
  <2>2. ~Plain(i) => i # n
    BY <1>a
  <2> HIDE DEF D
  <2>3. ~(i > n) => i + 1 \in D
    BY <1>1, <2>1 DEF D
  <2>4. ~(i > n) /\ i # n => i \in V /\ i + 2 \in D
    BY <1>1, <2>1 DEF D
  <2>5. (n + 1) - i \in Nat /\ (n + 1) - i < n + 2
    BY <1>1, <2>1
  <2>6. (n + 1) - (i + 1) < (n + 1) - i /\ (n + 1) - (i + 2) < (n + 1) - i
    BY <1>1, <2>1
  <2> QED BY <2>1, <2>2, <2>3, <2>4, <2>5, <2>6
<1>4. Descending(D, V, size, n + 2, Ends, start, prev, step)
  <2>1. 0 \in V
    BY <1>1
  <2>2. /\ size \in [D -> Nat] /\ \A i \in D : size[i] < n + 2
        /\ prev \in [D -> D]
        /\ \A i \in D \ Ends : size[prev[i]] < size[i]
    <3> HIDE DEF D, V
    <3> QED BY <1>3
  <2>3. start \in [D -> V] /\ step \in [D -> [V -> V]]
    <3> HIDE DEF D, V
    <3> QED BY <1>3, <2>1
  <2> HIDE DEF D, V, size, Ends, start, prev, step
  <2> QED BY <1>1, <2>2, <2>3 DEF Descending
<1>5. PICK f \in [D -> V] : \A i \in D :
        f[i] = IF i \in Ends THEN start[i] ELSE step[i][f[prev[i]]]
  <2> HIDE DEF D, V, size, Ends, start, prev, step
  <2> QED BY <1>4, Recursion
<1>6. ASSUME NEW i \in D
      PROVE  f[i] = IF i > n THEN 0 ELSE IF Plain(i) THEN f[i + 1]
                    ELSE IF Found(i) THEN i ELSE f[i + 2]
  <2> HIDE DEF D, V
  <2>1. CASE i > n \/ (~Plain(i) /\ Found(i))
    <3>1. f[i] = start[i]
      BY <1>5, <2>1
    <3> QED BY <2>1, <3>1
  <2>2. CASE ~(i > n) /\ (Plain(i) \/ ~Found(i))
    <3>1. prev[i] \in D /\ f[prev[i]] \in V
      <4>1. prev \in [D -> D]
        BY <1>4 DEF Descending
      <4> HIDE DEF prev
      <4> QED BY <4>1
    <3>2. f[i] = step[i][f[prev[i]]]
      BY <1>5, <2>2
    <3>3. f[i] = f[prev[i]]
      <4> HIDE DEF prev
      <4> QED BY <3>1, <3>2
    <3> QED BY <2>2, <3>3
  <2> QED BY <2>1, <2>2
<1>7. Table(table)
  <2>1. Table(f)
    <3> HIDE DEF D, V
    <3> QED BY <1>6
  <2> HIDE DEF Table
  <2> QED BY <2>1
<1> HIDE DEF table
<1>8. \A i \in D : table[i] = f[i]
  <2> DEFINE Good == {i \in D : table[i] = f[i]}
  <2>1. ASSUME NEW i \in D, \A j \in D : size[j] < size[i] => j \in Good
        PROVE  i \in Good
    <3> HIDE DEF D, V
    <3>1. table[i] = IF i > n THEN 0 ELSE IF Plain(i) THEN table[i + 1]
                     ELSE IF Found(i) THEN i ELSE table[i + 2]
      BY <1>7
    <3>2. ~(i > n) => table[i + 1] = f[i + 1]
      BY <1>3, <2>1
    <3>3. ~(i > n) /\ ~Plain(i) => table[i + 2] = f[i + 2]
      BY <1>3, <2>1
    <3> QED BY <1>6, <3>1, <3>2, <3>3
  <2>2. size \in [D -> Nat]
    BY <1>4 DEF Descending
  <2>3. \A i \in D : i \in Good
    <3> HIDE DEF Good, size, D
    <3> QED BY <2>1, <2>2, BySize
  <2> QED BY <2>3
<1>9. table[1] \in V
  <2> HIDE DEF D, V
  <2> QED BY <1>1, <1>8
<1> QED BY <1>2, <1>9 DEF n

\* What is before and behind it are templates.
LEMMA FrontBackType ==
    ASSUME NEW template \in Seq(STRING)
    PROVE  FrontOf(template) \in Seq(STRING) /\ BackOf(template) \in Seq(STRING)
<1> DEFINE p == SecondsPlaceholder(template)
           n == Len(template)
<1>1. p \in 0 .. n /\ (p # 0 => p < n)
  BY PlaceholderType
<1>2. n \in Nat /\ \A k \in 1 .. n : template[k] \in STRING
  BY LenProperties, ElementOfSeq
<1>3. CASE p = 0
  BY <1>3, EmptySeq DEF FrontOf, BackOf
<1>4. CASE p # 0
  <2>1. FrontOf(template) = SubSeq(template, 1, p - 1)
        /\ BackOf(template) = SubSeq(template, p + 2, n)
    BY <1>4 DEF FrontOf, BackOf
  <2> HIDE DEF p, n
  <2>2. SubSeq(template, 1, p - 1) \in Seq(STRING)
    <3>1. p - 1 \in 0 .. n /\ p - 1 \in Int
      BY <1>1, <1>2, <1>4
    <3>2. \A k \in 1 .. p - 1 : template[k] \in STRING
      BY <1>2, <3>1
    <3> QED BY <3>1, <3>2, SubSeqProperties
  <2>3. SubSeq(template, p + 2, n) \in Seq(STRING)
    <3>1. p + 2 \in 1 .. n + 1 /\ p + 2 \in Int
      BY <1>1, <1>2, <1>4
    <3>2. \A k \in p + 2 .. n : template[k] \in STRING
      BY <1>2, <3>1
    <3> QED BY <1>2, <3>1, <3>2, SubSeqProperties
  <2> QED BY <2>1, <2>2, <2>3
<1> QED BY <1>3, <1>4

\* What a template stands for are fields of times, none of them a fraction.
TemplateFields == [is : {"M", "S"}, value : Int] \cup [is : {"literal"}, value : STRING]

LEMMA FieldsType ==
    ASSUME NEW template \in Seq(STRING)
    PROVE  Fields(template) \in Seq(TemplateFields)
<1> DEFINE n == Len(template)
           D == 1 .. n + 1
           V == Seq(TemplateFields)
           Plain(i) == template[i] # "%" \/ i = n
           Char(i) == <<Literal(template[i])>>
           Pair(i) == CASE template[i + 1] = "T" -> <<Conversion("M"), Conversion("S")>>
                        [] template[i + 1] \in {"M", "S"} -> <<Conversion(template[i + 1])>>
                        [] OTHER -> <<Literal(template[i + 1])>>
           size == [i \in D |-> (n + 1) - i]
           Ends == {i \in D : i > n}
           start == [i \in D |-> <<>>]
           prev == [i \in D |-> IF i > n THEN i ELSE IF Plain(i) THEN i + 1 ELSE i + 2]
           step == [i \in D |-> [v \in V |->
                      IF i > n THEN v ELSE (IF Plain(i) THEN Char(i) ELSE Pair(i)) \o v]]
           Table(g) == g = [i \in D |-> IF i > n THEN <<>>
                                        ELSE IF Plain(i) THEN Char(i) \o g[i + 1]
                                        ELSE Pair(i) \o g[i + 2]]
           table == CHOOSE g : Table(g)
<1>1. n \in Nat /\ n + 2 \in Nat /\ 1 \in D /\ \A k \in 1 .. n : template[k] \in STRING
  BY LenProperties, ElementOfSeq
<1>2. Fields(template) = table[1]
  BY Zenon DEF Fields
<1>a. Plain(n)
  OBVIOUS
<1>b. /\ \A c \in STRING : Literal(c) \in TemplateFields
      /\ Conversion("M") \in TemplateFields /\ Conversion("S") \in TemplateFields
  BY DEF Literal, Conversion, TemplateFields
<1>c. ASSUME NEW i \in 1 .. n, ~Plain(i)  PROVE Pair(i) \in V
  <2>1. i + 1 \in 1 .. n
    BY <1>1, <1>c
  <2> DEFINE c == template[i + 1]
  <2>2. c \in STRING
    BY <1>1, <2>1
  <2>3. Conversion("M") \in TemplateFields /\ Conversion("S") \in TemplateFields
        /\ Literal(c) \in TemplateFields
    BY <1>b, <2>2
  <2> HIDE DEF c
  <2>4. (CASE c = "T" -> <<Conversion("M"), Conversion("S")>>
           [] c \in {"M", "S"} -> <<Conversion(c)>>
           [] OTHER -> <<Literal(c)>>) \in V
    <3>1. CASE c = "T"
      BY <2>3, <3>1
    <3>2. CASE c \in {"M", "S"}
      <4>1. Conversion(c) \in TemplateFields
        BY <2>3, <3>2
      <4> QED BY <3>2, <4>1
    <3>3. CASE c \notin {"T", "M", "S"}
      BY <2>3, <3>3
    <3> QED BY <3>1, <3>2, <3>3
  <2> QED BY <2>4 DEF c
<1>d. ASSUME NEW i \in 1 .. n  PROVE Char(i) \in V
  <2>1. Literal(template[i]) \in TemplateFields
    BY <1>1, <1>b
  <2> QED BY <2>1
<1> HIDE DEF n, Plain, Char, Pair
<1>3. ASSUME NEW i \in D
      PROVE  /\ i \in Int /\ (n + 1) - i \in Nat /\ (n + 1) - i < n + 2
             /\ ~(i > n) => i \in 1 .. n /\ i + 1 \in D
                            /\ (n + 1) - (i + 1) < (n + 1) - i
             /\ ~(i > n) /\ ~Plain(i) =>
                  i + 2 \in D /\ (n + 1) - (i + 2) < (n + 1) - i
  <2>1. i \in Int /\ 1 <= i /\ i <= n + 1
    BY <1>1
  <2>2. ~Plain(i) => i # n
    BY <1>a
  <2> HIDE DEF D
  <2>3. ~(i > n) => i \in 1 .. n /\ i + 1 \in D
    BY <1>1, <2>1 DEF D
  <2>4. ~(i > n) /\ i # n => i + 2 \in D
    BY <1>1, <2>1 DEF D
  <2>5. (n + 1) - i \in Nat /\ (n + 1) - i < n + 2
    BY <1>1, <2>1
  <2>6. (n + 1) - (i + 1) < (n + 1) - i /\ (n + 1) - (i + 2) < (n + 1) - i
    BY <1>1, <2>1
  <2> QED BY <2>1, <2>2, <2>3, <2>4, <2>5, <2>6
<1>4. Descending(D, V, size, n + 2, Ends, start, prev, step)
  <2>2. /\ size \in [D -> Nat] /\ \A i \in D : size[i] < n + 2
        /\ prev \in [D -> D]
        /\ \A i \in D \ Ends : size[prev[i]] < size[i]
    <3> HIDE DEF D, V
    <3> QED BY <1>3
  <2>3. start \in [D -> V]
    BY EmptySeq
  <2>4. ASSUME NEW i \in D, NEW v \in V
        PROVE  (IF i > n THEN v ELSE (IF Plain(i) THEN Char(i) ELSE Pair(i)) \o v) \in V
    <3>1. CASE i > n
      BY <3>1
    <3>2. CASE ~(i > n)
      <4>1. (IF Plain(i) THEN Char(i) ELSE Pair(i)) \in V
        <5> HIDE DEF V
        <5> QED BY <1>3, <1>c, <1>d, <3>2
      <4>2. (IF Plain(i) THEN Char(i) ELSE Pair(i)) \o v \in V
        BY <4>1, ConcatProperties
      <4> QED BY <3>2, <4>2
    <3> QED BY <3>1, <3>2
  <2>5. step \in [D -> [V -> V]]
    <3> HIDE DEF D, V
    <3> QED BY <2>4
  <2> HIDE DEF D, V, size, Ends, start, prev, step
  <2> QED BY <1>1, <2>2, <2>3, <2>5 DEF Descending
<1>5. PICK f \in [D -> V] : \A i \in D :
        f[i] = IF i \in Ends THEN start[i] ELSE step[i][f[prev[i]]]
  <2> HIDE DEF D, V, size, Ends, start, prev, step
  <2> QED BY <1>4, Recursion
<1>6. ASSUME NEW i \in D
      PROVE  f[i] = IF i > n THEN <<>> ELSE IF Plain(i) THEN Char(i) \o f[i + 1]
                    ELSE Pair(i) \o f[i + 2]
  <2>1. CASE i > n
    BY <1>5, <2>1
  <2>2. CASE ~(i > n)
    <3> DEFINE p == prev[i]
               w == f[p]
    <3>1. p \in D /\ w \in V
      <4>1. prev \in [D -> D]
        BY <1>4 DEF Descending
      <4> HIDE DEF prev, D, V
      <4> QED BY <4>1
    <3>2. f[i] = step[i][w]
      <4> HIDE DEF step, prev, D, V
      <4> QED BY <1>5, <2>2
    <3>3. p = IF Plain(i) THEN i + 1 ELSE i + 2
      BY <2>2
    <3> HIDE DEF p, D, V
    <3>4. step[i][w] = (IF Plain(i) THEN Char(i) ELSE Pair(i)) \o w
      <4> HIDE DEF w
      <4> QED BY <2>2, <3>1
    <3> HIDE DEF step
    <3>5. CASE Plain(i)
      BY <2>2, <3>2, <3>3, <3>4, <3>5
    <3>6. CASE ~Plain(i)
      BY <2>2, <3>2, <3>3, <3>4, <3>6
    <3> QED BY <3>5, <3>6
  <2> QED BY <2>1, <2>2
<1>7. Table(table)
  <2>1. Table(f)
    <3> HIDE DEF D, V
    <3> QED BY <1>6
  <2> HIDE DEF Table
  <2> QED BY <2>1
<1> HIDE DEF table
<1>8. \A i \in D : table[i] = f[i]
  <2> DEFINE Good == {i \in D : table[i] = f[i]}
  <2>1. ASSUME NEW i \in D, \A j \in D : size[j] < size[i] => j \in Good
        PROVE  i \in Good
    <3> HIDE DEF D, V
    <3>1. table[i] = IF i > n THEN <<>> ELSE IF Plain(i) THEN Char(i) \o table[i + 1]
                     ELSE Pair(i) \o table[i + 2]
      BY <1>7
    <3>2. ~(i > n) => table[i + 1] = f[i + 1]
      BY <1>3, <2>1
    <3>3. ~(i > n) /\ ~Plain(i) => table[i + 2] = f[i + 2]
      BY <1>3, <2>1
    <3>4. table[i] = f[i]
      BY <1>6, <3>1, <3>2, <3>3
    <3> QED BY <3>4
  <2>2. size \in [D -> Nat]
    BY <1>4 DEF Descending
  <2>3. \A i \in D : i \in Good
    <3> HIDE DEF Good, size, D
    <3> QED BY <2>1, <2>2, BySize
  <2> QED BY <2>3
<1>9. table[1] \in V
  <2> HIDE DEF D, V
  <2> QED BY <1>1, <1>8
<1> QED BY <1>2, <1>9

\* strftime() turns a template into fields of a time.
LEMMA StrftimeType ==
    ASSUME NEW template \in Seq(STRING), NEW seconds \in Int
    PROVE  Strftime(template, seconds) \in Seq(TimeFields)
<1> DEFINE fields == Fields(template)
           Filled(field) ==
             CASE field.is = "M" -> [is |-> "M", value |-> seconds \div Minute]
               [] field.is = "S" -> [is |-> "S", value |-> seconds % Minute]
               [] OTHER -> field
<1>1. fields \in Seq(TimeFields)
  <2>1. TemplateFields \subseteq TimeFields
    BY DEF TemplateFields, TimeFields
  <2> QED BY <2>1, FieldsType, SeqMonotonic
<1>2. seconds \div Minute \in Int /\ seconds % Minute \in Int
  BY UnixTimestampAssumption
<1>3. \A field \in TimeFields : Filled(field) \in TimeFields
  BY <1>2 DEF TimeFields
<1>4. Strftime(template, seconds) = [k \in DOMAIN fields |-> Filled(fields[k])]
  BY Zenon DEF Strftime
<1> HIDE DEF fields, Filled
<1>5. DOMAIN fields = 1 .. Len(fields) /\ Len(fields) \in Nat
      /\ \A k \in 1 .. Len(fields) : fields[k] \in TimeFields
  BY <1>1, LenProperties, ElementOfSeq
<1>6. [k \in 1 .. Len(fields) |-> Filled(fields[k])] \in [1 .. Len(fields) -> TimeFields]
  BY <1>3, <1>5
<1>7. [k \in 1 .. Len(fields) |-> Filled(fields[k])] \in Seq(TimeFields)
  BY <1>5, <1>6
<1> QED BY <1>4, <1>5, <1>7

-----------------------------------------------------------------------------
(* Numbers *)

\* A number by its form: what time2unixts prints is one, whatever its digits are.
AnyNumbers == [neg : BOOLEAN, prefix : BOOLEAN, digits : Seq(Nat), tail : Tails]

LEMMA NumbersAny == Seq(Numbers) \subseteq Seq(AnyNumbers)
<1>1. Numbers \subseteq AnyNumbers
  <2> SUFFICES ASSUME NEW n \in Numbers  PROVE n \in AnyNumbers
    OBVIOUS
  <2> DEFINE H == 0 .. 15
  <2>1. /\ n = [neg |-> n.neg, prefix |-> n.prefix, digits |-> n.digits, tail |-> n.tail]
        /\ n.neg \in BOOLEAN /\ n.prefix \in BOOLEAN /\ n.digits \in Seq(H) /\ n.tail \in Tails
    BY DEF Numbers
  <2>2. H \subseteq Nat
    OBVIOUS
  <2> HIDE DEF H
  <2>3. n.digits \in Seq(Nat)
    BY <2>1, <2>2, SeqMonotonic
  <2> QED BY <2>1, <2>3 DEF AnyNumbers
<1> QED BY <1>1, SeqMonotonic

LEMMA FactorType == \A u \in Units : Factor[u] \in Nat \ {0}
<1>1. Step \in Nat \ {0}
  BY UnixTimestampAssumption
<1>2. Step * Step \in Nat \ {0}
  BY <1>1, PositiveProduct
<1>3. Step * Step * Step \in Nat \ {0}
  BY <1>1, <1>2, PositiveProduct
<1>4. /\ Factor["ns"] = 1 /\ Factor["us"] = Step /\ Factor["ms"] = Step * Step
      /\ Factor["s"] = Step * Step * Step
  BY DEF Factor
<1> QED BY <1>1, <1>2, <1>3, <1>4 DEF Units

\* A remainder by a positive number.
LEMMA ModRange ==
    ASSUME NEW a \in Int, NEW b \in Nat \ {0}
    PROVE  a % b \in 0 .. b - 1 /\ a \div b \in Int
OBVIOUS

\* A wrapped number fits a long long.
LEMMA StoredType ==
    ASSUME NEW x \in Int, NEW wide \in BOOLEAN
    PROVE  Stored(x, wide) \in Int /\ (wide \/ Fits(Stored(x, wide)))
<1>1. Limit \in Nat \ {0} /\ 2 * Limit \in Nat \ {0} /\ x + Limit \in Int
  BY UnixTimestampAssumption
<1> DEFINE m == (x + Limit) % (2 * Limit)
<1>2. m \in 0 .. (2 * Limit) - 1
  BY <1>1, ModRange
<1>3. Stored(x, wide) = IF wide THEN x ELSE m - Limit
  BY DEF Stored
<1> HIDE DEF m
<1> QED BY <1>1, <1>2, <1>3 DEF Fits

\* What strtoll() takes are digits of its argument, and what it leaves are digits.
LEMMA TakenType ==
    ASSUME NEW n \in AnyNumbers
    PROVE  /\ IntegerDigits(n) \in Seq(Nat) /\ Base(n) \in Nat
           /\ Rest(n).kind \in {"end", "point", "number", "junk"}
           /\ Rest(n).value \in Nat /\ Rest(n).places \in Nat
           /\ Len(IntegerDigits(n)) \in 0 .. Len(n.digits)
           /\ IntegerDigits(n) = SubSeq(n.digits, 1, Len(IntegerDigits(n)))
<1> DEFINE s == n.digits
           len == Len(s)
           Taken(k) == \A i \in 1 .. k : s[i] < Base(n)
           Most(k) == Taken(k) /\ \A j \in k + 1 .. len : ~Taken(j)
           most == CHOOSE k \in 0 .. len : Most(k)
<1>1. s \in Seq(Nat) /\ n.tail.digits \in Seq(Nat)
      /\ n.tail.kind \in {"end", "point", "number", "junk"}
  <2>1. s \in Seq(Nat) /\ n.tail \in Tails
    BY DEF AnyNumbers
  <2> DEFINE tail == n.tail
  <2> HIDE DEF s, tail
  <2>2. CASE tail \in [kind : {"end", "junk"}, digits : {<<>>}]
    <3>1. tail.digits = <<>> /\ tail.kind \in {"end", "junk"}
      BY <2>2
    <3> QED BY <2>1, <3>1, EmptySeq DEF tail
  <2>3. CASE \/ tail \in [kind : {"point"}, digits : Seq(Digits)]
             \/ tail \in [kind : {"number"}, digits : Seq(Digits) \ {<<>>}]
    <3>1. tail.digits \in Seq(Digits) /\ tail.kind \in {"point", "number"}
      BY <2>3
    <3>2. tail.digits \in Seq(Nat)
      BY <3>1, DigitsNat, UnixTimestampAssumption DEF Digits
    <3> QED BY <2>1, <3>1, <3>2 DEF tail
  <2> QED BY <2>1, <2>2, <2>3 DEF Tails, tail
<1>2. len \in Nat /\ \A k \in 1 .. len : s[k] \in Nat
  BY <1>1, LenProperties, ElementOfSeq
<1>3. Base(n) \in Nat
  BY DEF Base
<1>4. IntegerDigits(n) = SubSeq(s, 1, most)
  BY Zenon DEF IntegerDigits
<1> HIDE DEF s, len
<1>5. \E k \in 0 .. len : Most(k)
  <2> DEFINE Refused == {i \in 1 .. len : ~(s[i] < Base(n))}
  <2>1. CASE Refused = {}
    <3>1. len \in 0 .. len /\ Taken(len) /\ len + 1 .. len = {}
      BY <1>2, <2>1
    <3> QED BY <3>1
  <2>2. CASE Refused # {}
    <3>1. PICK p \in Refused : \A q \in Refused : p <= q
      <4>1. Refused \subseteq Nat
        BY <1>2
      <4> HIDE DEF Refused
      <4> QED BY <2>2, <4>1, FirstPosition
    <3>2. p \in 1 .. len /\ p - 1 \in 0 .. len /\ (p - 1) + 1 = p
      BY <1>2
    <3>3. Taken(p - 1)
      <4> SUFFICES ASSUME NEW i \in 1 .. p - 1, ~(s[i] < Base(n))  PROVE FALSE
        OBVIOUS
      <4>1. i \in Refused /\ ~(p <= i)
        BY <1>2, <3>2
      <4> QED BY <3>1, <4>1
    <3>4. ASSUME NEW j \in p .. len  PROVE ~Taken(j)
      <4>1. p \in 1 .. j /\ ~(s[p] < Base(n))
        BY <1>2, <3>2
      <4> QED BY <4>1
    <3> QED BY <3>2, <3>3, <3>4
  <2> QED BY <2>1, <2>2
<1>6. most \in 0 .. len
  BY <1>5
<1> HIDE DEF most
<1>7. /\ IntegerDigits(n) \in Seq(Nat) /\ Len(IntegerDigits(n)) \in 0 .. len
      /\ IntegerDigits(n) = SubSeq(s, 1, Len(IntegerDigits(n)))
  <2>1. \A k \in 1 .. most : s[k] \in Nat
    BY <1>2, <1>6
  <2>2. most \in Int /\ most >= 0
    BY <1>2, <1>6
  <2>3. SubSeq(s, 1, most) \in Seq(Nat)
    BY <2>1, <2>2, SubSeqProperties
  <2>4. Len(SubSeq(s, 1, most)) = IF 1 <= most THEN (most - 1) + 1 ELSE 0
    BY <2>1, <2>2, SubSeqProperties
  <2>5. Len(SubSeq(s, 1, most)) = most
    BY <2>2, <2>4
  <2> QED BY <1>4, <1>6, <2>3, <2>5
<1> DEFINE left == SubSeq(s, Len(IntegerDigits(n)) + 1, len)
<1>8. left \in Seq(Nat)
  <2> DEFINE at == Len(IntegerDigits(n)) + 1
  <2>1. at \in Int /\ at >= 1
    BY <1>2, <1>7
  <2> HIDE DEF at
  <2>2. \A k \in at .. len : s[k] \in Nat
    BY <1>2, <2>1
  <2>3. SubSeq(s, at, len) \in Seq(Nat)
    BY <1>2, <2>1, <2>2, SubSeqProperties
  <2> QED BY <2>3 DEF at
<1> DEFINE fraction == ValueOf(n.tail.digits, Step)
           places == IF n.tail.kind = "number" THEN 0 ELSE Len(n.tail.digits)
           number == ValueOf(left, 10) * Scale(places) + fraction
<1>9. \/ Rest(n) = [kind |-> n.tail.kind, value |-> fraction, places |-> places]
      \/ Rest(n) = [kind |-> "number", places |-> places, value |-> number]
      \/ Rest(n) = [kind |-> "junk", value |-> 0, places |-> 0]
  BY Zenon DEF Rest, left, s, len
<1>10. fraction \in Nat /\ places \in Nat
  BY <1>1, LenProperties, ValueType, UnixTimestampAssumption
<1>11. number \in Nat
  <2>1. ValueOf(left, 10) \in Nat
    BY <1>8, ValueType
  <2>2. Scale(places) \in Nat
    BY <1>10, ScaleType
  <2> DEFINE a == ValueOf(left, 10)
             b == Scale(places)
  <2>3. a * b \in Nat
    <3> HIDE DEF a, b
    <3> QED BY <2>1, <2>2 DEF a, b
  <2> HIDE DEF a, b, fraction
  <2>4. a * b + fraction \in Nat
    BY <1>10, <2>3
  <2> QED BY <2>4 DEF a, b
<1> HIDE DEF left, fraction, places, number
<1>12. Rest(n).value \in Nat /\ Rest(n).places \in Nat
       /\ Rest(n).kind \in {"end", "point", "number", "junk"}
  <2> DEFINE rest == Rest(n)
  <2> HIDE DEF rest
  <2>1. \/ rest = [kind |-> n.tail.kind, value |-> fraction, places |-> places]
        \/ rest = [kind |-> "number", places |-> places, value |-> number]
        \/ rest = [kind |-> "junk", value |-> 0, places |-> 0]
    BY <1>9 DEF rest
  <2>2. rest.value \in {fraction, number, 0} /\ rest.places \in {places, 0}
        /\ rest.kind \in {n.tail.kind, "number", "junk"}
    BY <2>1
  <2> QED BY <1>1, <1>10, <1>11, <2>2 DEF rest
<1> QED BY <1>3, <1>7, <1>12 DEF s, len

\* strtoll() returns an integer.
LEMMA StrtollType ==
    ASSUME NEW n \in AnyNumbers
    PROVE  Strtoll(n) \in Int
<1> DEFINE v == ValueOf(IntegerDigits(n), Base(n))
<1>1. v \in Nat
  BY TakenType, ValueType
<1>2. Strtoll(n) = IF Fits(Signed(n.neg, v)) THEN Signed(n.neg, v)
                   ELSE IF n.neg THEN -Limit ELSE Limit - 1
  BY DEF Strtoll
<1> HIDE DEF v
<1>3. Signed(n.neg, v) \in Int
  BY <1>1 DEF Signed
<1> QED BY <1>2, <1>3, UnixTimestampAssumption

LEMMA DetectedUnitType == ASSUME NEW x  PROVE DetectedUnit(x) \in Units
BY Zenon DEF DetectedUnit, Units

\* What is added for the rest of a number: the integer part of the product, or
\* an integer next to it, as far as an unsigned int holds it.
LEMMA AdditionalForm ==
    ASSUME NEW rest
    PROVE  LET exact == (rest.value * Factor[unit]) \div Scale(rest.places)
           IN  \E read \in SUBSET {exact - 1, exact, exact + 1} :
                 /\ AdditionalNS(rest) = {ns \in read : ns < UnsignedLimit} \cup
                      UNION {{ns % UnsignedLimit, UnsignedLimit - 1} :
                               ns \in {x \in read : x >= UnsignedLimit}}
                 /\ exact \in read
                 /\ exact - 1 \in read =>
                      \/ exact - 1 \in {exact, exact + 1}
                      \/ /\ exact > 0
                         /\ \/ rest.value >= Scale(DoubleDigits)
                            \/ /\ (rest.value * Factor[unit]) % Scale(rest.places) = 0
                               /\ rest.kind = "point" =>
                                    unit \in {"ms", "s"} /\ rest.places > 1
                 /\ exact + 1 \in read =>
                      \/ exact + 1 \in {exact, exact - 1}
                      \/ rest.value >= Scale(DoubleDigits)
<1> DEFINE product == rest.value * Factor[unit]
           exact == product \div Scale(rest.places)
           long == rest.value >= Scale(DoubleDigits)
           below == /\ product % Scale(rest.places) = 0
                    /\ \/ rest.kind = "point" /\ unit \in {"ms", "s"} /\ rest.places > 1
                       \/ rest.kind = "number" /\ unit # "ns" /\ rest.places > 0
           read == {exact} \cup
                   (IF exact > 0 /\ (below \/ long) THEN {exact - 1} ELSE {}) \cup
                   (IF long THEN {exact + 1} ELSE {})
<1>1. AdditionalNS(rest) = {ns \in read : ns < UnsignedLimit} \cup
        UNION {{ns % UnsignedLimit, UnsignedLimit - 1} :
                 ns \in {x \in read : x >= UnsignedLimit}}
  BY Zenon DEF AdditionalNS
<1> HIDE DEF product, long
<1>2. below => /\ product % Scale(rest.places) = 0
               /\ rest.kind = "point" => unit \in {"ms", "s"} /\ rest.places > 1
  OBVIOUS
<1> HIDE DEF exact, below
<1>3. read \in SUBSET {exact - 1, exact, exact + 1} /\ exact \in read
  OBVIOUS
<1>4. exact - 1 \in read =>
        exact - 1 \in {exact, exact + 1} \/ (exact > 0 /\ (below \/ long))
  OBVIOUS
<1>5. exact + 1 \in read => exact + 1 \in {exact, exact - 1} \/ long
  OBVIOUS
<1> HIDE DEF read
<1> QED BY <1>1, <1>2, <1>3, <1>4, <1>5, Zenon DEF product, exact, long

\* What is added for the rest of a number is an integer.
LEMMA AdditionalType ==
    ASSUME NEW n \in AnyNumbers, unit \in Units, Rest(n).kind \in {"point", "number"}
    PROVE  AdditionalNS(Rest(n)) \subseteq Int
<1> DEFINE rest == Rest(n)
           exact == (rest.value * Factor[unit]) \div Scale(rest.places)
<1>1. rest.value \in Nat /\ rest.places \in Nat
  BY TakenType
<1> HIDE DEF rest
<1>2. exact \in Int
  <2> DEFINE f == Factor[unit]
             s == Scale(rest.places)
  <2>1. f \in Nat /\ s \in Nat \ {0}
    BY <1>1, FactorType, ScaleType
  <2> HIDE DEF f, s
  <2>2. rest.value * f \in Int
    BY <1>1, <2>1
  <2>3. (rest.value * f) \div s \in Int
    BY <2>1, <2>2, ModRange
  <2> QED BY <2>3 DEF f, s
<1>3. PICK read \in SUBSET {exact - 1, exact, exact + 1} :
        AdditionalNS(rest) = {ns \in read : ns < UnsignedLimit} \cup
          UNION {{ns % UnsignedLimit, UnsignedLimit - 1} :
                   ns \in {x \in read : x >= UnsignedLimit}}
  BY AdditionalForm
<1>4. read \subseteq Int /\ UnsignedLimit \in Nat \ {0}
  <2>1. Step * Step * Step \in Nat \ {0}
    BY SecondPositive DEF Second, Factor
  <2> HIDE DEF exact
  <2>2. read \subseteq Int
    BY <1>2
  <2> QED BY <2>1, <2>2, UnixTimestampAssumption
<1>5. \A ns \in Int : ns % UnsignedLimit \in Int
  BY <1>4, ModRange
<1> HIDE DEF exact
<1>6. AdditionalNS(rest) \subseteq Int
  <2> SUFFICES ASSUME NEW ns \in AdditionalNS(rest) PROVE ns \in Int
    OBVIOUS
  <2>1. \/ ns \in read
        \/ \E x \in read : ns \in {x % UnsignedLimit, UnsignedLimit - 1}
    BY <1>3
  <2>2. \A x \in Int : x % UnsignedLimit \in Int /\ UnsignedLimit - 1 \in Int
    BY <1>4, <1>5
  <2>3. \A x \in read : x \in Int
    BY <1>4
  <2> HIDE DEF rest
  <2> QED BY <2>1, <2>2, <2>3, Zenon
<1> QED BY <1>6 DEF rest

-----------------------------------------------------------------------------
(* Fractions *)

\* A fraction of a second has at most as many ns as a second, which is where
\* it rounds up to.
LEMMA NanosecondsType ==
    ASSUME NEW digits \in Seq(Digits), NEW n \in Nanoseconds(digits)
    PROVE  n \in 0 .. Second
<1> DEFINE v == ValueOf(digits, Step)
           s == Scale(Len(digits))
           S == Second
           t == 2 * v * S
           d == 2 * s
<1>1. s \in Nat \ {0} /\ v \in 0 .. s - 1 /\ v \in Nat
  BY ValueBelowScale, LenProperties, ScaleType
<1>2. S \in Nat \ {0}
  BY SecondPositive
<1>3. n = (t + s) \div d \/ n = t \div d
  BY DEF Nanoseconds
<1> HIDE DEF v, s, S
<1>4. t \in Nat /\ d \in Nat \ {0} /\ t + s \in Nat
  BY <1>1, <1>2
<1>5. t <= 2 * (s * S) - 2 * S
  <2>1. v * S <= (s - 1) * S
    <3> DEFINE w == s - 1
    <3>1. w \in Int /\ v \in Int /\ S \in Nat /\ v <= w
      BY <1>1, <1>2
    <3> HIDE DEF w
    <3>2. v * S <= w * S
      BY <3>1, Monotone
    <3> QED BY <3>2 DEF w
  <2>2. (s - 1) * S = (s * S) - S /\ v * S \in Int /\ s * S \in Int
        /\ t = 2 * (v * S)
    BY <1>1, <1>2
  <2> DEFINE x == v * S
             y == s * S
             z == (s - 1) * S
  <2>3. x \in Int /\ y \in Int /\ x <= z /\ z = y - S /\ t = 2 * x
    BY <2>1, <2>2
  <2> HIDE DEF x, y, z, t
  <2>4. t <= (2 * y) - (2 * S)
    BY <1>2, <2>3
  <2> QED BY <2>4 DEF y
<1> HIDE DEF t
<1>6. n \in Nat /\ d * n <= t + s
  <2>1. ASSUME NEW a \in Nat, a <= t + s, n = a \div d  PROVE n \in Nat /\ d * n <= t + s
    <3>1. PICK q \in Nat : q = a \div d /\ a - d * q \in 0 .. d - 1
      BY <1>4, DivMod
    <3>2. d * q \in Int
      BY <1>4
    <3> HIDE DEF d
    <3>3. d * q <= a
      BY <1>4, <3>1, <3>2
    <3>4. n = q
      BY <2>1, <3>1
    <3>5. d * q <= t + s
      <4> DEFINE x == d * q
      <4>1. x \in Int /\ x <= a
        BY <3>2, <3>3
      <4> DEFINE y == t + s
      <4>2. y \in Nat /\ a \in Nat /\ a <= y
        BY <1>4, <2>1
      <4> HIDE DEF x, y
      <4>3. x <= y
        BY <4>1, <4>2
      <4> QED BY <4>3 DEF x, y
    <3> QED BY <3>4, <3>5
  <2>2. t <= t + s /\ t + s <= t + s
    BY <1>1, <1>4
  <2>3. CASE n = (t + s) \div d
    BY <1>4, <2>1, <2>2, <2>3, Zenon
  <2>4. CASE n = t \div d
    BY <1>4, <2>1, <2>2, <2>4, Zenon
  <2> QED BY <1>3, <2>3, <2>4, Zenon
<1>7. n <= S
  <2> SUFFICES ASSUME n >= S + 1  PROVE FALSE
    BY <1>2, <1>6
  <2>1. d * (S + 1) <= d * n
    <3> DEFINE u == S + 1
    <3>1. u \in Int /\ n \in Int /\ d \in Nat /\ u <= n
      BY <1>2, <1>4, <1>6
    <3> HIDE DEF u, d
    <3>2. d * u <= d * n
      BY <3>1, Monotone
    <3> QED BY <3>2 DEF u
  <2>2. d * (S + 1) = 2 * (s * S) + 2 * s /\ s * S \in Int /\ d * n \in Int
    BY <1>1, <1>2, <1>6
  <2> DEFINE y == s * S
             x == d * n
             z == d * (S + 1)
  <2>3. y \in Int /\ x \in Int /\ z <= x /\ z = (2 * y) + (2 * s) /\ x <= t + s
        /\ t <= (2 * y) - (2 * S)
    BY <1>5, <1>6, <2>1, <2>2
  <2> HIDE DEF x, y, z, d
  <2> QED BY <1>1, <1>2, <1>4, <2>3
<1> QED BY <1>2, <1>6, <1>7 DEF S

\* The fields of a time.
LEMMA FieldType ==
    ASSUME NEW text \in Seq(TimeFields)
    PROVE  /\ Field(text, "M") \in Int /\ Field(text, "S") \in Int
           /\ Fraction(text) \in Seq(Digits)
<1>1. \A k \in DOMAIN text : text[k] \in TimeFields
  BY LenProperties, ElementOfSeq
<1>2. \A k \in DOMAIN text : /\ text[k].is \in {"M", "S"} => text[k].value \in Int
                             /\ text[k].is = "F" => text[k].value \in Seq(Digits)
  BY <1>1 DEF TimeFields
<1>3. ASSUME NEW kind, \E k \in DOMAIN text : text[k].is = kind
      PROVE  \E k \in DOMAIN text : text[k].is = kind /\ Field(text, kind) = text[k].value
  <2> DEFINE place == CHOOSE k \in DOMAIN text : text[k].is = kind
  <2>1. place \in DOMAIN text /\ text[place].is = kind
    BY <1>3
  <2>2. Field(text, kind) = text[place].value
    BY <1>3 DEF Field
  <2> HIDE DEF place
  <2> QED BY <2>1, <2>2
<1>4. \A kind : ~(\E k \in DOMAIN text : text[k].is = kind) => Field(text, kind) = 0
  BY DEF Field
<1>5. Field(text, "M") \in Int
  <2>1. CASE \E k \in DOMAIN text : text[k].is = "M"
    <3>1. PICK k \in DOMAIN text : text[k].is = "M" /\ Field(text, "M") = text[k].value
      BY <1>3, <2>1
    <3> QED BY <1>2, <3>1
  <2>2. CASE ~(\E k \in DOMAIN text : text[k].is = "M")
    BY <1>4, <2>2
  <2> QED BY <2>1, <2>2
<1>6. Field(text, "S") \in Int
  <2>1. CASE \E k \in DOMAIN text : text[k].is = "S"
    <3>1. PICK k \in DOMAIN text : text[k].is = "S" /\ Field(text, "S") = text[k].value
      BY <1>3, <2>1
    <3> QED BY <1>2, <3>1
  <2>2. CASE ~(\E k \in DOMAIN text : text[k].is = "S")
    BY <1>4, <2>2
  <2> QED BY <2>1, <2>2
<1>7. Fraction(text) \in Seq(Digits)
  <2>1. CASE \E k \in DOMAIN text : text[k].is = "F"
    <3>1. PICK k \in DOMAIN text : text[k].is = "F" /\ Field(text, "F") = text[k].value
      BY <1>3, <2>1
    <3>2. Fraction(text) = Field(text, "F")
      BY <2>1 DEF Fraction
    <3> QED BY <1>2, <3>1, <3>2
  <2>2. CASE ~(\E k \in DOMAIN text : text[k].is = "F")
    <3>1. Fraction(text) = <<>>
      BY <2>2 DEF Fraction
    <3> QED BY <3>1, EmptySeq
  <2> QED BY <2>1, <2>2
<1> QED BY <1>5, <1>6, <1>7

\* The fraction unixts2time prints has up to three digits.
LEMMA PrecisionType ==
    ASSUME unit \in Units, fractionDigits \in Nat
    PROVE  Precision \in 0 .. 3
<1> DEFINE more == CASE unit = "ns" -> 3 [] unit = "us" -> 2
                     [] unit = "ms" -> 1 [] unit = "s" -> 0
<1>1. more \in 0 .. 3
  BY DEF Units
<1>2. Precision = IF fractionDigits + more > 3 THEN 3 ELSE fractionDigits + more
  BY DEF Precision
<1> HIDE DEF more
<1> QED BY <1>1, <1>2

LEMMA FractionalType ==
    ASSUME unit \in Units, fractionDigits \in Nat, ts.nsec \in Nat,
           NEW f \in FractionalSeconds
    PROVE  f \in Seq(TimeFields)
<1> DEFINE scale == Scale(3 - Precision)
           half == 2 * (ts.nsec % scale) - scale
           rounded == (IF half <= 0 THEN {ts.nsec \div scale} ELSE {}) \cup
                      (IF half >= 0 THEN {ts.nsec \div scale + 1} ELSE {})
<1>1. Precision \in 0 .. 3 /\ 3 - Precision \in Nat /\ Precision \in Nat
  BY PrecisionType
<1>2. scale \in Nat \ {0} /\ Scale(Precision) \in Nat \ {0}
  BY <1>1, ScaleType
<1>3. FractionalSeconds =
        IF Precision = 0 THEN {<<>>}
        ELSE {<<[is |-> "F", value |-> Padded(n % Scale(Precision), Precision)]>> :
                n \in rounded}
  BY Zenon DEF FractionalSeconds
<1> HIDE DEF scale, half
<1>4. rounded \subseteq Int
  <2> DEFINE ns == ts.nsec
  <2>a. ns \in Int
    OBVIOUS
  <2> HIDE DEF ns
  <2>b. ns \div scale \in Int
    BY <1>2, <2>a, ModRange
  <2>1. ts.nsec \div scale \in Int
    BY <2>b DEF ns
  <2> QED BY <2>1
<1> HIDE DEF rounded
<1>5. CASE Precision = 0
  <2>1. f = <<>>
    BY <1>3, <1>5
  <2> QED BY <2>1, EmptySeq
<1>6. CASE Precision # 0
  <2>1. PICK n \in rounded :
          f = <<[is |-> "F", value |-> Padded(n % Scale(Precision), Precision)]>>
    BY <1>3, <1>6
  <2> DEFINE digits == Padded(n % Scale(Precision), Precision)
  <2>2. digits \in Seq(Digits)
    <3>1. n % Scale(Precision) \in Int
      BY <1>2, <1>4, ModRange
    <3> QED BY <1>1, <3>1, PaddedType
  <2> HIDE DEF digits
  <2>3. [is |-> "F", value |-> digits] \in TimeFields
    BY <2>2 DEF TimeFields
  <2>4. <<[is |-> "F", value |-> digits]>> \in Seq(TimeFields)
    BY <2>3
  <2> QED BY <2>1, <2>4 DEF digits
<1> QED BY <1>5, <1>6

-----------------------------------------------------------------------------
(* The invariant *)

Lines == [text : Seq(TimeFields), number : Seq(Int), unit : Units]

\* The arguments are those of the program that runs, and so is what it prints:
\* each program gets what the other one has printed.
DataInv ==
    /\ unixTS \in Int
    /\ program = "unixts2time" => args \in Seq(AnyNumbers) /\ out \in Seq(Lines)
    /\ program = "time2unixts" => args \in Seq(Seq(TimeFields)) /\ out \in Seq(AnyNumbers)

\* There is an argument to work on, or there has never been one; and there is a
\* line for each argument before it.
PlaceInv ==
    /\ Len(out) = arg - 1
    /\ pc # "done" => arg \in 1 .. Len(args) \/ (args = <<>> /\ arg = 1)
    /\ pc = "rest" => args # <<>>

IInv == TypeOK /\ DataInv /\ PlaceInv

\* The types of what does not change while a program runs.
LEMMA ConfigurationType ==
    ASSUME TypeOK
    PROVE  /\ build.unixts2time \in BOOLEAN /\ build.time2unixts \in BOOLEAN
           /\ clock \in Nat
           /\ opts.unit \in Units \cup {"auto"} /\ opts.template \in Seq(STRING)
           /\ opts.human \in BOOLEAN /\ opts.base \in {"dec", "hex", "0x", "float"}
           /\ program \in {"unixts2time", "time2unixts"}
           /\ build["unixts2time"] = build.unixts2time
           /\ build["time2unixts"] = build.time2unixts
<1>1. /\ build \in [unixts2time : BOOLEAN, time2unixts : BOOLEAN] /\ clock \in Nat
      /\ opts \in [unit : {"ns", "us", "ms", "s", "auto"}, template : Seq(STRING),
                   human : BOOLEAN, base : {"dec", "hex", "0x", "float"}]
  BY UnixTimestampAssumption DEF TypeOK
<1> QED BY <1>1 DEF TypeOK, Units

LEMMA InitInv == Init => IInv
<1> SUFFICES ASSUME Init  PROVE IInv
  OBVIOUS
<1>1. Limit \in Nat \ {0} /\ Second \in Nat \ {0}
  BY UnixTimestampAssumption, SecondPositive
<1>2. \/ program = "unixts2time" /\ args \in Seq(AnyNumbers)
      \/ program = "time2unixts" /\ args \in Seq(Seq(TimeFields))
  <2>1. Timestamps \subseteq Seq(AnyNumbers) /\ Times \subseteq Seq(Seq(TimeFields))
    BY UnixTimestampAssumption, NumbersAny
  <2>2. \/ program = "unixts2time" /\ args \in Timestamps
        \/ program = "time2unixts" /\ args \in Times
    BY DEF Init
  <2> QED BY <2>1, <2>2
<1>3. args = <<>> \/ 1 \in 1 .. Len(args)
  <2>1. CASE program = "unixts2time" /\ args \in Seq(AnyNumbers)
    BY <2>1, EmptySeq
  <2>2. CASE program = "time2unixts" /\ args \in Seq(Seq(TimeFields))
    BY <2>2, EmptySeq
  <2> QED BY <1>2, <2>1, <2>2
<1>4. Len(args) \in Nat
  BY <1>2, LenProperties
<1>5. /\ unixTS = 0 /\ ts.sec = 0 /\ ts.nsec = 0 /\ out = <<>> /\ arg = 1
      /\ pc = "argument" /\ unit = "ns" /\ fractionDigits = 0 /\ status = 0 /\ first = <<>>
  BY DEF Init
<1>6. Len(out) = 0 /\ Len(first) = 0 /\ out \in Seq(Lines) /\ out \in Seq(AnyNumbers)
  BY <1>5, EmptySeq
<1>7. Fits(0)
  BY <1>1 DEF Fits
<1>8. TypeOK
  <2>1. build \in Builds /\ clock \in Clocks /\ opts \in Options
    BY DEF Init
  <2>2. arg \in 1 .. Len(args) + 2 /\ Len(out) <= Len(args) + 1
    BY <1>4, <1>5, <1>6
  <2>3. ts.sec \in Int /\ ts.nsec \in 0 .. Second - 1
    BY <1>1, <1>5
  <2> QED BY <1>2, <1>5, <1>6, <1>7, <2>1, <2>2, <2>3 DEF TypeOK, Units
<1>9. DataInv
  BY <1>2, <1>5, <1>6 DEF DataInv
<1>10. PlaceInv
  BY <1>3, <1>5, <1>6 DEF PlaceInv
<1> QED BY <1>8, <1>9, <1>10 DEF IInv

\* Numbers of the arguments and of the lines printed.
LEMMA Lengths ==
    ASSUME IInv
    PROVE  Len(args) \in Nat /\ Len(out) \in Nat /\ arg \in Nat \ {0}
<1>1. \/ args \in Seq(AnyNumbers) /\ out \in Seq(Lines)
      \/ args \in Seq(Seq(TimeFields)) /\ out \in Seq(AnyNumbers)
  BY ConfigurationType DEF IInv, DataInv
<1>2. Len(args) \in Nat /\ Len(out) \in Nat
  BY <1>1, LenProperties
<1> QED BY <1>2 DEF IInv, TypeOK

\* The argument the program works on.
LEMMA ArgumentType ==
    ASSUME IInv, pc # "done", args # <<>>
    PROVE  /\ program = "unixts2time" => args[arg] \in AnyNumbers
           /\ program = "time2unixts" => args[arg] \in Seq(TimeFields)
<1>1. arg \in 1 .. Len(args)
  BY DEF IInv, PlaceInv
<1> QED BY <1>1, ElementOfSeq DEF IInv, DataInv

\* A program that fails leaves all but its state and status.
LEMMA FailInv ==
    ASSUME IInv, Fail, UNCHANGED configuration
    PROVE  IInv'
<1>1. TypeOK'
  BY DEF IInv, TypeOK, Fail, configuration
<1>2. DataInv'
  BY DEF IInv, DataInv, Fail, configuration
<1>3. PlaceInv'
  BY DEF IInv, PlaceInv, Fail, configuration
<1> QED BY <1>1, <1>2, <1>3 DEF IInv

\* A step that reads or converts an argument: what it changes has the types.
LEMMA ConversionInv ==
    ASSUME IInv, UNCHANGED <<configuration, arg, out>>,
           pc # "done",
           pc' \in {"argument", "rest", "convert", "print", "done"},
           pc' = "rest" => args # <<>>,
           unit' \in Units, fractionDigits' \in Nat,
           unixTS' \in Int, build[program] \/ Fits(unixTS'),
           ts'.sec \in Int, ts'.nsec \in 0 .. Second - 1,
           status' \in {0, 1}
    PROVE  IInv'
<1>1. TypeOK'
  BY DEF IInv, TypeOK, configuration
<1>2. DataInv'
  BY DEF IInv, DataInv, configuration
<1>3. PlaceInv'
  BY DEF IInv, PlaceInv, configuration
<1> QED BY <1>1, <1>2, <1>3 DEF IInv

\* A line more and the next argument, or the end.
LEMMA PrintInv ==
    ASSUME IInv, UNCHANGED <<configuration, fractionDigits, ts, status>>, NEW line,
           PrintLine(line),
           program = "unixts2time" => line \in Lines,
           program = "time2unixts" => line \in AnyNumbers,
           unit' \in Units, unixTS' \in Int, build[program] \/ Fits(unixTS')
    PROVE  IInv'
<1>1. /\ out' = Append(out, line) /\ arg' = arg + 1 /\ pc = "print"
      /\ pc' = IF arg < Len(args) THEN "argument" ELSE "done"
  BY DEF PrintLine, Goto
<1>2. Len(args) \in Nat /\ Len(out) \in Nat /\ arg \in Nat \ {0} /\ Len(out) = arg - 1
  BY Lengths DEF IInv, PlaceInv
<1>3. /\ program' = program /\ args' = args
      /\ UNCHANGED <<build, clock, opts, first, fractionDigits, ts, status>>
  BY DEF configuration
<1>4. arg \in 1 .. Len(args) \/ (args = <<>> /\ arg = 1)
  BY <1>1 DEF IInv, PlaceInv
<1>5. /\ program = "unixts2time" => out' \in Seq(Lines)
      /\ program = "time2unixts" => out' \in Seq(AnyNumbers)
      /\ Len(out') = arg
  <2>1. program \in {"unixts2time", "time2unixts"}
    BY DEF IInv, TypeOK
  <2>2. CASE program = "unixts2time"
    <3>1. out \in Seq(Lines) /\ line \in Lines
      BY <2>2 DEF IInv, DataInv
    <3>2. out' \in Seq(Lines) /\ Len(out') = Len(out) + 1
      BY <1>1, <3>1, AppendProperties
    <3> QED BY <1>2, <2>2, <3>2
  <2>3. CASE program = "time2unixts"
    <3>1. out \in Seq(AnyNumbers) /\ line \in AnyNumbers
      BY <2>3 DEF IInv, DataInv
    <3>2. out' \in Seq(AnyNumbers) /\ Len(out') = Len(out) + 1
      BY <1>1, <3>1, AppendProperties
    <3> QED BY <1>2, <2>3, <3>2
  <2> QED BY <2>1, <2>2, <2>3
<1>6. /\ arg' \in 1 .. Len(args) + 2 /\ Len(out') <= Len(args) + 1 /\ Len(out') = arg' - 1
      /\ pc' # "done" => arg' \in 1 .. Len(args)
      /\ pc' \in {"argument", "done"}
  <2>1. Len(args) = 0 \/ arg <= Len(args)
    BY <1>4, EmptySeq
  <2> QED BY <1>1, <1>2, <1>4, <1>5, <2>1
<1>7. TypeOK'
  BY <1>3, <1>6 DEF IInv, TypeOK
<1>8. DataInv'
  BY <1>3, <1>5 DEF IInv, DataInv
<1>9. PlaceInv'
  BY <1>3, <1>6 DEF PlaceInv
<1> QED BY <1>7, <1>8, <1>9 DEF IInv

\* The other program starts with what the one has printed.
LEMMA PipeInv == IInv /\ Pipe => IInv'
<1> SUFFICES ASSUME IInv, Pipe  PROVE IInv'
  OBVIOUS
<1>1. Limit \in Nat \ {0} /\ Second \in Nat \ {0}
  BY UnixTimestampAssumption, SecondPositive
<1>2. /\ pc' = "argument" /\ arg' = 1 /\ out' = <<>> /\ unit' = "ns"
      /\ fractionDigits' = 0 /\ unixTS' = 0 /\ ts'.sec = 0 /\ ts'.nsec = 0
      /\ UNCHANGED <<build, clock, status>> /\ opts' \in Options
      /\ program' = IF program = "unixts2time" THEN "time2unixts" ELSE "unixts2time"
      /\ args' = IF program = "time2unixts" THEN out ELSE [k \in DOMAIN out |-> out[k].text]
  BY DEF Pipe
<1>3. Len(first') = 1
  BY DEF Pipe
<1>4. Len(out') = 0 /\ out' \in Seq(Lines) /\ out' \in Seq(AnyNumbers)
  BY <1>2, EmptySeq
<1>5. \/ program' = "unixts2time" /\ args' \in Seq(AnyNumbers)
      \/ program' = "time2unixts" /\ args' \in Seq(Seq(TimeFields))
  <2>1. CASE program = "time2unixts"
    BY <1>2, <2>1 DEF IInv, DataInv
  <2>2. CASE program = "unixts2time"
    <3>1. out \in Seq(Lines)
      BY <2>2 DEF IInv, DataInv
    <3>2. /\ DOMAIN out = 1 .. Len(out) /\ Len(out) \in Nat
          /\ \A k \in 1 .. Len(out) : out[k] \in Lines
      BY <3>1, LenProperties, ElementOfSeq
    <3>3. \A k \in 1 .. Len(out) : out[k].text \in Seq(TimeFields)
      BY <3>2 DEF Lines
    <3>4. [k \in 1 .. Len(out) |-> out[k].text] \in [1 .. Len(out) -> Seq(TimeFields)]
      BY <3>3
    <3>5. [k \in 1 .. Len(out) |-> out[k].text] \in Seq(Seq(TimeFields))
      BY <3>2, <3>4
    <3> QED BY <1>2, <2>2, <3>2, <3>5
  <2>3. program \in {"unixts2time", "time2unixts"}
    BY DEF IInv, TypeOK
  <2> QED BY <2>1, <2>2, <2>3
<1>6. Len(args') \in Nat /\ (args' = <<>> \/ 1 \in 1 .. Len(args'))
  <2>1. CASE args' \in Seq(AnyNumbers)
    BY <2>1, EmptySeq, LenProperties
  <2>2. CASE args' \in Seq(Seq(TimeFields))
    BY <2>2, EmptySeq, LenProperties
  <2> QED BY <1>5, <2>1, <2>2
<1>7. Fits(0)
  BY <1>1 DEF Fits
<1>8. TypeOK'
  <2>1. build' \in Builds /\ clock' \in Clocks /\ opts' \in Options /\ status' \in {0, 1}
    BY <1>2 DEF IInv, TypeOK
  <2>2. arg' \in 1 .. Len(args') + 2 /\ Len(out') <= Len(args') + 1
    BY <1>2, <1>4, <1>6
  <2>3. ts'.sec \in Int /\ ts'.nsec \in 0 .. Second - 1
    BY <1>1, <1>2
  <2>4. Fits(unixTS')
    BY <1>2, <1>7
  <2> QED BY <1>2, <1>3, <1>5, <2>1, <2>2, <2>3, <2>4 DEF TypeOK, Units
<1>9. DataInv'
  BY <1>2, <1>4, <1>5 DEF DataInv
<1>10. PlaceInv'
  BY <1>2, <1>4, <1>6 DEF PlaceInv
<1> QED BY <1>8, <1>9, <1>10 DEF IInv

\* Each step of a program keeps the invariant.
LEMMA ReadInv == IInv /\ (ReadInteger \/ TakeCurrentTime \/ ReadRest) => IInv'
<1> SUFFICES ASSUME IInv, ReadInteger \/ TakeCurrentTime \/ ReadRest  PROVE IInv'
  OBVIOUS
<1>0. /\ build.unixts2time \in BOOLEAN /\ clock \in Nat
      /\ build["unixts2time"] = build.unixts2time
      /\ opts.unit \in Units \cup {"auto"} /\ unit \in Units /\ fractionDigits \in Nat
      /\ unixTS \in Int /\ (build[program] \/ Fits(unixTS))
      /\ ts.sec \in Int /\ ts.nsec \in 0 .. Second - 1 /\ status \in {0, 1}
  BY ConfigurationType DEF IInv, TypeOK, DataInv
<1>1. CASE ReadInteger
  <2> DEFINE x == Strtoll(args[arg])
             u == IF opts.unit = "auto" THEN DetectedUnit(x) ELSE opts.unit
  <2>1. /\ program = "unixts2time" /\ pc = "argument" /\ args # <<>> /\ pc' = "rest"
        /\ UNCHANGED <<configuration, arg, ts, out, status>> /\ fractionDigits' = 0
        /\ unit' = u /\ unixTS' = Stored(x * Factor[unit'], build.unixts2time)
    BY <1>1 DEF ReadInteger, AtArgument
  <2>2. x \in Int
    BY <2>1, ArgumentType, StrtollType
  <2>3. u \in Units
    BY <1>0, DetectedUnitType
  <2> HIDE DEF x, u
  <2>4. x * Factor[u] \in Int
    BY <2>2, <2>3, FactorType
  <2>5. unixTS' \in Int /\ (build[program] \/ Fits(unixTS'))
    BY <1>0, <2>1, <2>4, StoredType
  <2>6. UNCHANGED <<configuration, arg, out>> /\ ts' = ts /\ status' = status
    BY <2>1
  <2> QED BY <1>0, <2>1, <2>3, <2>5, <2>6, ConversionInv
<1>2. CASE TakeCurrentTime
  <2>1. /\ program = "unixts2time" /\ pc = "argument" /\ pc' = "convert"
        /\ UNCHANGED <<configuration, arg, out>> /\ UNCHANGED <<fractionDigits, ts, status>>
        /\ unit' = (IF opts.unit = "auto" THEN "ns" ELSE opts.unit)
        /\ unixTS' = Stored(clock, build.unixts2time)
    BY <1>2 DEF TakeCurrentTime, AtArgument
  <2>2. unixTS' \in Int /\ (build[program] \/ Fits(unixTS'))
    <3>1. clock \in Int
      BY <1>0
    <3> QED BY <1>0, <2>1, <3>1, StoredType
  <2>3. unit' \in Units
    BY <1>0, <2>1 DEF Units
  <2> QED BY <1>0, <2>1, <2>2, <2>3, ConversionInv
<1>3. CASE ReadRest
  <2>1. /\ program = "unixts2time" /\ pc = "rest" /\ pc' = "convert"
        /\ UNCHANGED <<configuration, arg, out>> /\ UNCHANGED <<unit, ts, status>>
    BY <1>3 DEF ReadRest, Goto
  <2>2. args # <<>>
    BY <2>1 DEF IInv, PlaceInv
  <2>3. args[arg] \in AnyNumbers
    BY <2>1, <2>2, ArgumentType
  <2>4. CASE UNCHANGED <<fractionDigits, unixTS>>
    BY <1>0, <2>1, <2>4, ConversionInv
  <2>5. CASE ~(UNCHANGED <<fractionDigits, unixTS>>)
    <3> DEFINE rest == Rest(args[arg])
    <3>1. /\ rest.kind \in {"point", "number"}
          /\ fractionDigits' = (IF rest.kind = "point" THEN rest.places ELSE 0)
          /\ \E ns \in AdditionalNS(rest) :
               unixTS' = Stored(IF unixTS >= 0 THEN unixTS + ns ELSE unixTS - ns,
                                build.unixts2time)
      BY <1>3, <2>5 DEF ReadRest
    <3>2. PICK ns \in AdditionalNS(rest) :
               unixTS' = Stored(IF unixTS >= 0 THEN unixTS + ns ELSE unixTS - ns,
                                build.unixts2time)
      BY <3>1
    <3>3. ns \in Int
      BY <1>0, <2>3, <3>1, AdditionalType
    <3>4. fractionDigits' \in Nat
      <4>1. rest.places \in Nat
        BY <2>3, TakenType
      <4> QED BY <3>1, <4>1
    <3>5. (IF unixTS >= 0 THEN unixTS + ns ELSE unixTS - ns) \in Int
      BY <1>0, <3>3
    <3>6. unixTS' \in Int /\ (build[program] \/ Fits(unixTS'))
      BY <1>0, <2>1, <3>2, <3>5, StoredType
    <3> QED BY <1>0, <2>1, <3>4, <3>6, ConversionInv
  <2> QED BY <2>4, <2>5
<1> QED BY <1>1, <1>2, <1>3

LEMMA ConvertInv == IInv /\ ConvertToTime => IInv'
<1> SUFFICES ASSUME IInv, ConvertToTime  PROVE IInv'
  OBVIOUS
<1>1. /\ pc = "convert" /\ ts' = Timespec(unixTS)
      /\ pc' \in {"print", "done"} /\ status' \in {status, 1}
      /\ UNCHANGED <<configuration, arg, out>> /\ UNCHANGED <<unit, fractionDigits, unixTS>>
  BY DEF ConvertToTime
<1>2. /\ unixTS \in Int /\ (build[program] \/ Fits(unixTS)) /\ status \in {0, 1}
      /\ unit \in Units /\ fractionDigits \in Nat
  BY DEF IInv, TypeOK, DataInv
<1>3. ts'.sec \in Int /\ ts'.nsec \in 0 .. Second - 1
  BY <1>1, <1>2, TimespecExact
<1>4. build[program] \/ Fits(unixTS')
  BY <1>1, <1>2
<1> QED BY <1>1, <1>2, <1>3, <1>4, ConversionInv

LEMMA ParseInv == IInv /\ (ParseTime \/ ReadClock) => IInv'
<1> SUFFICES ASSUME IInv, ParseTime \/ ReadClock  PROVE IInv'
  OBVIOUS
<1>0. /\ unixTS \in Int /\ (build[program] \/ Fits(unixTS)) /\ status \in {0, 1}
      /\ unit \in Units /\ fractionDigits \in Nat /\ clock \in Nat
  BY ConfigurationType DEF IInv, TypeOK, DataInv
<1>1. Second \in Nat \ {0} /\ Minute \in Nat
  BY SecondPositive, UnixTimestampAssumption
<1>2. CASE ParseTime
  <2>1. /\ program = "time2unixts" /\ pc = "argument" /\ args # <<>> /\ pc' = "print"
        /\ UNCHANGED <<configuration, arg, out>>
        /\ UNCHANGED <<unit, fractionDigits, unixTS, status>>
    BY <1>2 DEF ParseTime, AtArgument
  <2>2. PICK ns \in Nanoseconds(Fraction(args[arg])) :
          LET sec == Minute * Field(args[arg], "M") + Field(args[arg], "S")
          IN  ts' = IF ns >= Second THEN [sec |-> sec + 1, nsec |-> ns - Second]
                                    ELSE [sec |-> sec, nsec |-> ns]
    BY <1>2 DEF ParseTime
  <2> DEFINE sec == Minute * Field(args[arg], "M") + Field(args[arg], "S")
  <2>3. args[arg] \in Seq(TimeFields)
    BY <2>1, ArgumentType
  <2>4. ns \in 0 .. Second
    BY <2>3, FieldType, NanosecondsType
  <2>5. sec \in Int
    BY <1>1, <2>3, FieldType
  <2>6. ts' = IF ns >= Second THEN [sec |-> sec + 1, nsec |-> ns - Second]
                              ELSE [sec |-> sec, nsec |-> ns]
    BY <2>2
  <2> HIDE DEF sec
  <2>7. /\ ts'.sec = IF ns >= Second THEN sec + 1 ELSE sec
        /\ ts'.nsec = IF ns >= Second THEN ns - Second ELSE ns
    BY <2>6
  <2>8. ts'.sec \in Int /\ ts'.nsec \in 0 .. Second - 1
    BY <1>1, <2>4, <2>5, <2>7
  <2>9. build[program] \/ Fits(unixTS')
    BY <1>0, <2>1
  <2> QED BY <1>0, <2>1, <2>8, <2>9, ConversionInv
<1>3. CASE ReadClock
  <2>1. /\ pc = "argument" /\ pc' = "print"
        /\ UNCHANGED <<configuration, arg, out>>
        /\ UNCHANGED <<unit, fractionDigits, unixTS, status>>
        /\ ts' = [sec |-> clock \div Second, nsec |-> clock % Second]
    BY <1>3 DEF ReadClock, AtArgument
  <2>2. clock % Second \in 0 .. Second - 1 /\ clock \div Second \in Int
    BY <1>0, <1>1, ModRange
  <2>3. ts'.sec \in Int /\ ts'.nsec \in 0 .. Second - 1
    BY <2>1, <2>2
  <2>4. build[program] \/ Fits(unixTS')
    BY <1>0, <2>1
  <2> QED BY <1>0, <2>1, <2>3, <2>4, ConversionInv
<1> QED BY <1>2, <1>3

\* What stands for %S.
Middles ==
    IF SecondsPlaceholder(opts.template) = 0 THEN {<<>>}
    ELSE {<<[is |-> "S", value |-> ts.sec % Minute]>> \o f : f \in FractionalSeconds}

LEMMA SecondsField ==
    ASSUME ts.sec \in Int
    PROVE  [is |-> "S", value |-> ts.sec % Minute] \in TimeFields
<1>1. Minute \in Nat \ {0}
  BY UnixTimestampAssumption
<1> DEFINE seconds == ts.sec
<1>2. seconds \in Int
  OBVIOUS
<1> HIDE DEF seconds
<1>3. seconds % Minute \in 0 .. Minute - 1
  BY <1>1, <1>2, ModRange
<1>4. ts.sec % Minute \in Int
  BY <1>1, <1>3 DEF seconds
<1> QED BY <1>4 DEF TimeFields

LEMMA MiddleType ==
    ASSUME unit \in Units, fractionDigits \in Nat, ts.nsec \in Nat, ts.sec \in Int,
           NEW middle \in Middles
    PROVE  middle \in Seq(TimeFields)
<1>1. CASE SecondsPlaceholder(opts.template) = 0
  <2>1. middle = <<>>
    BY <1>1 DEF Middles
  <2> QED BY <2>1, EmptySeq
<1>2. CASE SecondsPlaceholder(opts.template) # 0
  <2> DEFINE field == [is |-> "S", value |-> ts.sec % Minute]
  <2>1. PICK f \in FractionalSeconds : middle = <<field>> \o f
    BY <1>2, Zenon DEF Middles
  <2>2. f \in Seq(TimeFields)
    BY FractionalType
  <2>3. field \in TimeFields
    BY SecondsField
  <2> HIDE DEF field
  <2>4. <<field>> \in Seq(TimeFields)
    BY <2>3
  <2>5. <<field>> \o f \in Seq(TimeFields)
    BY <2>2, <2>4, ConcatProperties
  <2> QED BY <2>1, <2>5
<1> QED BY <1>1, <1>2

LEMMA PrintTimeInv == IInv /\ PrintTime => IInv'
<1> SUFFICES ASSUME IInv, PrintTime  PROVE IInv'
  OBVIOUS
<1> DEFINE front == FrontOf(opts.template)
           back == BackOf(opts.template)
           Line(middle) ==
             [text |-> Strftime(front, ts.sec) \o middle \o Strftime(back, ts.sec),
              number |-> IF ~opts.human THEN <<>>
                         ELSE <<Stored(Quotient(unixTS, Factor[unit]), FALSE)>>,
              unit |-> unit]
<1>1. /\ program = "unixts2time"
      /\ UNCHANGED <<configuration, fractionDigits, ts, status>>
      /\ unit' = unit /\ unixTS' = unixTS
      /\ \E middle \in Middles : PrintLine(Line(middle))
  BY DEF PrintTime, Middles
<1>2. /\ unixTS \in Int /\ (build[program] \/ Fits(unixTS)) /\ unit \in Units
      /\ fractionDigits \in Nat /\ ts.sec \in Int /\ ts.nsec \in 0 .. Second - 1
      /\ opts.template \in Seq(STRING)
  BY ConfigurationType DEF IInv, TypeOK, DataInv
<1>3. PICK middle \in Middles : PrintLine(Line(middle))
  BY <1>1
<1>4. Strftime(front, ts.sec) \in Seq(TimeFields) /\ Strftime(back, ts.sec) \in Seq(TimeFields)
  BY <1>2, FrontBackType, StrftimeType
<1>5. middle \in Seq(TimeFields)
  <2>1. ts.nsec \in Nat
    BY <1>2, SecondPositive
  <2> QED BY <1>2, <1>3, <2>1, MiddleType
<1>6. Line(middle) \in Lines
  <2> DEFINE a == Strftime(front, ts.sec)
             c == Strftime(back, ts.sec)
             whole == (a \o middle) \o c
             number == IF ~opts.human THEN <<>>
                       ELSE <<Stored(Quotient(unixTS, Factor[unit]), FALSE)>>
  <2>1. whole \in Seq(TimeFields)
    <3>1. a \in Seq(TimeFields) /\ c \in Seq(TimeFields)
      BY <1>4
    <3> HIDE DEF a, c
    <3>2. a \o middle \in Seq(TimeFields)
      BY <1>5, <3>1, ConcatProperties
    <3> QED BY <3>1, <3>2, ConcatProperties
  <2>2. number \in Seq(Int)
    <3> DEFINE x == Stored(Quotient(unixTS, Factor[unit]), FALSE)
    <3>1. x \in Int
      BY <1>2, FactorType, QuotientRemainder, StoredType
    <3> HIDE DEF x
    <3>2. <<x>> \in Seq(Int) /\ <<>> \in Seq(Int)
      BY <3>1
    <3> QED BY <3>2 DEF x
  <2>3. Line(middle) = [text |-> whole, number |-> number, unit |-> unit]
    OBVIOUS
  <2> HIDE DEF whole, number, Line
  <2> QED BY <1>2, <2>1, <2>2, <2>3 DEF Lines
<1>7. build[program] \/ Fits(unixTS')
  BY <1>1, <1>2
<1> HIDE DEF Line
<1> QED BY <1>1, <1>2, <1>3, <1>6, <1>7, PrintInv

LEMMA PrintTimestampInv == IInv /\ PrintTimestamp => IInv'
<1> SUFFICES ASSUME IInv, PrintTimestamp  PROVE IInv'
  OBVIOUS
<1> DEFINE u == IF opts.unit = "auto" THEN "ns" ELSE opts.unit
           value == Quotient(unixTS', Factor[u])
           base == IF opts.base \in {"hex", "0x"} THEN 16 ELSE 10
           Endings == IF opts.base # "float" THEN {[kind |-> "end", digits |-> <<>>]}
                      ELSE {[kind |-> "point", digits |-> Padded(n, FractionWidth(u))] :
                              n \in FractionalUnixTS(Remainder(unixTS', Factor[u]))}
           Line(tail) == [neg |-> value < 0, prefix |-> opts.base = "0x",
                          digits |-> Printed(value, base), tail |-> tail]
<1>1. /\ program = "time2unixts"
      /\ UNCHANGED <<configuration, fractionDigits, ts, status>>
      /\ unixTS' = Stored(Second * ts.sec + ts.nsec, build.time2unixts)
      /\ unit' = u
      /\ \E tail \in Endings : PrintLine(Line(tail))
  BY Zenon DEF PrintTimestamp
<1>2. /\ build.time2unixts \in BOOLEAN /\ build["time2unixts"] = build.time2unixts
      /\ opts.unit \in Units \cup {"auto"} /\ opts.base \in {"dec", "hex", "0x", "float"}
      /\ ts.sec \in Int /\ ts.nsec \in 0 .. Second - 1
  BY ConfigurationType DEF IInv, TypeOK
<1>3. PICK tail \in Endings : PrintLine(Line(tail))
  BY <1>1, Zenon
<1>4. u \in Units
  BY <1>2 DEF Units
<1>5. unixTS' \in Int /\ (build[program] \/ Fits(unixTS'))
  <2>1. Second * ts.sec + ts.nsec \in Int
    BY <1>2, SecondPositive
  <2> QED BY <1>1, <1>2, <2>1, StoredType
<1>6. value \in Int /\ Remainder(unixTS', Factor[u]) \in Int
  BY <1>4, <1>5, FactorType, QuotientRemainder
<1>7. Printed(value, base) \in Seq(Nat)
  <2>1. base \in Nat /\ base > 1
    OBVIOUS
  <2> HIDE DEF value, base
  <2>2. Printed(value, base) \in Seq(0 .. base - 1)
    BY <1>6, <2>1, PrintedType
  <2> DEFINE B == 0 .. base - 1
  <2>3. B \subseteq Nat
    BY <2>1
  <2> HIDE DEF B
  <2>4. Printed(value, base) \in Seq(Nat)
    BY <2>2, <2>3, SeqMonotonic DEF B
  <2> QED BY <2>4
<1>8. tail \in Tails
  <2>1. CASE opts.base # "float"
    <3>1. tail = [kind |-> "end", digits |-> <<>>]
      BY <1>3, <2>1
    <3> QED BY <3>1 DEF Tails
  <2>2. CASE opts.base = "float"
    <3> DEFINE rest == Remainder(unixTS', Factor[u])
    <3>1. PICK n \in FractionalUnixTS(rest) :
            tail = [kind |-> "point", digits |-> Padded(n, FractionWidth(u))]
      BY <1>3, <2>2
    <3> HIDE DEF rest
    <3>2. n \in Int
      BY <1>6, UnixTimestampAssumption DEF FractionalUnixTS, rest
    <3>3. FractionWidth(u) \in Int
      BY <1>4 DEF FractionWidth, Units
    <3> HIDE DEF u
    <3>4. Padded(n, FractionWidth(u)) \in Seq(Digits)
      BY <3>2, <3>3, PaddedType
    <3> QED BY <3>1, <3>4 DEF Tails
  <2> QED BY <2>1, <2>2
<1>9. Line(tail) \in AnyNumbers
  <2>1. (value < 0) \in BOOLEAN /\ (opts.base = "0x") \in BOOLEAN
    <3> HIDE DEF value
    <3> QED BY <1>6
  <2> DEFINE neg == value < 0
             prefix == opts.base = "0x"
             digits == Printed(value, base)
  <2>2. Line(tail) = [neg |-> neg, prefix |-> prefix, digits |-> digits, tail |-> tail]
    OBVIOUS
  <2>3. neg \in BOOLEAN /\ prefix \in BOOLEAN /\ digits \in Seq(Nat)
    BY <1>7, <2>1
  <2> HIDE DEF neg, prefix, digits, Line
  <2> QED BY <1>8, <2>2, <2>3 DEF AnyNumbers
<1> HIDE DEF Line, u
<1> QED BY <1>1, <1>3, <1>4, <1>5, <1>9, PrintInv

\* The types of both programs are kept, whatever their arguments are.
LEMMA StepInv == IInv /\ [Next]_vars => IInv'
<1> SUFFICES ASSUME IInv, [Next]_vars  PROVE IInv'
  OBVIOUS
<1>1. CASE ReadInteger \/ TakeCurrentTime \/ ReadRest
  BY <1>1, ReadInv
<1>2. CASE RefuseTimestamp \/ RefuseTemplate \/ RefuseTime
  BY <1>2, FailInv DEF RefuseTimestamp, RefuseTemplate, RefuseTime
<1>3. CASE ConvertToTime
  BY <1>3, ConvertInv
<1>4. CASE PrintTime
  BY <1>4, PrintTimeInv
<1>5. CASE ParseTime \/ ReadClock
  BY <1>5, ParseInv
<1>6. CASE PrintTimestamp
  BY <1>6, PrintTimestampInv
<1>7. CASE Pipe
  BY <1>7, PipeInv
<1>8. CASE UNCHANGED vars
  <2>1. TypeOK'
    BY <1>8 DEF IInv, TypeOK, vars, configuration
  <2>2. DataInv'
    BY <1>8 DEF IInv, DataInv, vars, configuration
  <2>3. PlaceInv'
    BY <1>8 DEF IInv, PlaceInv, vars, configuration
  <2> QED BY <2>1, <2>2, <2>3 DEF IInv
<1> QED BY <1>1, <1>2, <1>3, <1>4, <1>5, <1>6, <1>7, <1>8 DEF Next

\* TypeOK, for every size of a long long, all arguments and all templates: the
\* fraction of a timespec is in 0 .. Second - 1 whatever is converted, also if
\* it has been rounded up; and where there are no numbers of 128 bits the
\* timestamp fits a long long, at each step of each of the programs.
THEOREM TypeCorrect == Spec => []TypeOK
<1>1. IInv => TypeOK
  BY DEF IInv
<1> QED BY <1>1, InitInv, StepInv, PTL DEF Spec

-----------------------------------------------------------------------------
(* The numbers of time2unixts *)

\* The times an argument of time2unixts tells: one, or two where a tie may fall to
\* either side.
ToldTimes(k) ==
    IF args = <<>> THEN {clock}
    ELSE {Second * (Minute * Field(args[k], "M") + Field(args[k], "S")) + ns :
            ns \in Nanoseconds(Fraction(args[k]))}

\* The unit of the numbers printed.
UnitAsked == IF opts.unit = "auto" THEN "ns" ELSE opts.unit

\* A line shows one of the times, if these fit the numbers of the build.
Shows(line, times) ==
    (build.time2unixts \/ \A t \in times : Fits(t)) =>
      \E t \in times :
        /\ NumberIn(line) = Quotient(t, Factor[UnitAsked])
        /\ t >= 0 /\ opts.base = "float" =>
             ValueOf(line.tail.digits, Step) = t % Factor[UnitAsked]

\* The timespec that is going to be printed is the time of the argument.
StampInv ==
    program = "time2unixts" /\ pc = "print" => Second * ts.sec + ts.nsec \in ToldTimes(arg)

NInv == IInv /\ StampInv /\ NumberIsTime

LEMMA NumberIsTimeForm ==
    NumberIsTime <=> (program = "time2unixts" =>
                        \A k \in DOMAIN out : Shows(out[k], ToldTimes(k)))
BY DEF NumberIsTime, Shows, ToldTimes, UnitAsked

LEMMA ModSmall ==
    ASSUME NEW a \in Nat, NEW b \in Nat \ {0}, a < b
    PROVE  a % b = a
OBVIOUS

LEMMA DivModSum ==
    ASSUME NEW a \in Nat, NEW b \in Nat \ {0}
    PROVE  /\ a % b = a - b * (a \div b)
           /\ b * (a \div b) + (a % b) = a
OBVIOUS

\* A number that fits is not changed.
LEMMA StoredFits ==
    ASSUME NEW x \in Int, NEW wide \in BOOLEAN, wide \/ Fits(x)
    PROVE  Stored(x, wide) = x
<1>1. Limit \in Nat \ {0} /\ 2 * Limit \in Nat \ {0}
  BY UnixTimestampAssumption
<1>2. CASE wide
  BY <1>2 DEF Stored
<1>3. CASE ~wide /\ Fits(x)
  <2> DEFINE a == x + Limit
             b == 2 * Limit
  <2>1. a \in Nat /\ b \in Nat \ {0} /\ a < b
    BY <1>1, <1>3 DEF Fits
  <2>2. Stored(x, wide) = (a % b) - Limit
    BY <1>3 DEF Stored
  <2>3. a - Limit = x
    BY <1>1
  <2> HIDE DEF a, b
  <2>4. a % b = a
    BY <2>1, ModSmall
  <2> QED BY <2>2, <2>3, <2>4
<1> QED BY <1>2, <1>3

\* A number is printed with its sign and its digits.
LEMMA SignedAbs ==
    ASSUME NEW value \in Int
    PROVE  Signed(value < 0, Abs(value)) = value
BY DEF Signed, Abs

\* The line printed for a time shows that time.
LEMMA LineShows ==
    ASSUME IInv, NEW times, NEW t \in times, t \in Int,
           NEW x, x = Stored(t, build.time2unixts),
           NEW line,
           line.neg = (Quotient(x, Factor[UnitAsked]) < 0),
           line.digits = Printed(Quotient(x, Factor[UnitAsked]),
                                 IF opts.base \in {"hex", "0x"} THEN 16 ELSE 10),
           opts.base = "float" =>
             \E n \in FractionalUnixTS(Remainder(x, Factor[UnitAsked])) :
               line.tail.digits = Padded(n, FractionWidth(UnitAsked))
    PROVE  Shows(line, times)
<1> DEFINE F == Factor[UnitAsked]
           base == IF opts.base \in {"hex", "0x"} THEN 16 ELSE 10
           value == Quotient(t, F)
<1> SUFFICES ASSUME build.time2unixts \/ \A s \in times : Fits(s)
             PROVE  /\ NumberIn(line) = value
                    /\ t >= 0 /\ opts.base = "float" =>
                         ValueOf(line.tail.digits, Step) = t % F
  BY DEF Shows
<1>1. build.time2unixts \in BOOLEAN /\ UnitAsked \in Units
  BY ConfigurationType DEF IInv, UnitAsked, Units
<1>2. x = t
  BY <1>1, StoredFits
<1>3. F \in Nat \ {0}
  BY <1>1, FactorType
<1>4. value \in Int
  BY <1>3, QuotientRemainder
<1>5. base \in Nat /\ base > 1
  OBVIOUS
<1>6. line.neg = (value < 0) /\ line.digits = Printed(value, base)
  BY <1>2
<1>7. NumberIn(line) = Signed(line.neg, ValueOf(line.digits, base))
  BY DEF NumberIn
<1>8. ASSUME t >= 0, opts.base = "float"
      PROVE  ValueOf(line.tail.digits, Step) = t % F
  <2> DEFINE rest == Remainder(t, F)
  <2>1. PICK n \in FractionalUnixTS(rest) :
          line.tail.digits = Padded(n, FractionWidth(UnitAsked))
    BY <1>2, <1>8
  <2>2. rest = t % F /\ rest \in Nat
    <3>1. Quotient(t, F) = t \div F
      BY <1>8 DEF Quotient
    <3>2. rest = t - F * (t \div F)
      BY <3>1 DEF Remainder
    <3>3. rest \in 0 .. F - 1
      BY <1>3, <1>8, QuotientRemainder
    <3> HIDE DEF rest, F
    <3>4. t % F = t - F * (t \div F)
      BY <1>3, <1>8, DivModSum
    <3> QED BY <1>3, <3>2, <3>3, <3>4
  <2> HIDE DEF rest
  <2>3. n = rest
    BY <2>2 DEF FractionalUnixTS
  <2>4. FractionWidth(UnitAsked) \in Int
    BY <1>1 DEF FractionWidth, Units
  <2>5. ValueOf(Padded(n, FractionWidth(UnitAsked)), Step) = n
    BY <2>2, <2>3, <2>4, PaddedValue
  <2> QED BY <2>1, <2>2, <2>3, <2>5
<1> HIDE DEF value, base, F
<1>9. ValueOf(line.digits, base) = Abs(value)
  BY <1>4, <1>5, <1>6, PrintedValue
<1>10. NumberIn(line) = value
  BY <1>4, <1>6, <1>7, <1>9, SignedAbs
<1> QED BY <1>8, <1>10

\* The timespec of a text is the time it tells, also if its fraction makes a second.
LEMMA ParseStamp ==
    ASSUME IInv, ParseTime \/ ReadClock
    PROVE  (Second * ts.sec + ts.nsec \in ToldTimes(arg))'
<1>1. Second \in Nat \ {0} /\ Minute \in Nat
  BY SecondPositive, UnixTimestampAssumption
<1>2. CASE ParseTime
  <2>1. /\ program = "time2unixts" /\ pc = "argument" /\ args # <<>>
        /\ args' = args /\ arg' = arg /\ clock' = clock
    BY <1>2 DEF ParseTime, AtArgument, configuration
  <2>2. PICK ns \in Nanoseconds(Fraction(args[arg])) :
          LET sec == Minute * Field(args[arg], "M") + Field(args[arg], "S")
          IN  ts' = IF ns >= Second THEN [sec |-> sec + 1, nsec |-> ns - Second]
                                    ELSE [sec |-> sec, nsec |-> ns]
    BY <1>2 DEF ParseTime
  <2> DEFINE sec == Minute * Field(args[arg], "M") + Field(args[arg], "S")
  <2>3. args[arg] \in Seq(TimeFields)
    BY <2>1, ArgumentType
  <2>4. ns \in 0 .. Second
    BY <2>3, FieldType, NanosecondsType
  <2>5. sec \in Int
    BY <1>1, <2>3, FieldType
  <2>6. ts' = IF ns >= Second THEN [sec |-> sec + 1, nsec |-> ns - Second]
                              ELSE [sec |-> sec, nsec |-> ns]
    BY <2>2
  <2>7. Second * sec + ns \in ToldTimes(arg)'
    BY <2>1 DEF ToldTimes
  <2> HIDE DEF sec
  <2>8. /\ ts'.sec = IF ns >= Second THEN sec + 1 ELSE sec
        /\ ts'.nsec = IF ns >= Second THEN ns - Second ELSE ns
    BY <2>6
  <2>9. Second * (sec + 1) = (Second * sec) + Second /\ Second * sec \in Int
    BY <1>1, <2>5
  <2>10. Second * ts'.sec + ts'.nsec = Second * sec + ns
    <3> DEFINE y == Second * sec
               z == Second * (sec + 1)
    <3>1. y \in Int /\ z = y + Second
      BY <2>9
    <3> HIDE DEF y, z
    <3>2. CASE ns >= Second
      <4>1. Second * ts'.sec = z /\ ts'.nsec = ns - Second
        BY <2>8, <3>2 DEF z
      <4>2. z + (ns - Second) = y + ns
        BY <1>1, <2>4, <3>1
      <4> QED BY <4>1, <4>2 DEF y
    <3>3. CASE ~(ns >= Second)
      BY <2>8, <3>3
    <3> QED BY <3>2, <3>3
  <2> QED BY <2>7, <2>10
<1>3. CASE ReadClock
  <2>1. /\ args = <<>> /\ args' = args /\ clock' = clock
        /\ ts' = [sec |-> clock \div Second, nsec |-> clock % Second]
    BY <1>3 DEF ReadClock, AtArgument, configuration
  <2>2. clock \in Nat
    BY ConfigurationType DEF IInv
  <2>3. Second * (clock \div Second) + (clock % Second) = clock
    BY <1>1, <2>2, DivModSum
  <2>4. Second * ts'.sec + ts'.nsec = clock
    BY <2>1, <2>3
  <2>5. clock \in ToldTimes(arg)'
    BY <2>1 DEF ToldTimes
  <2> QED BY <2>4, <2>5
<1> QED BY <1>2, <1>3

\* What PrintTimestamp prints is the time of its argument.
LEMMA PrintTimestampExact ==
    ASSUME NInv, PrintTimestamp
    PROVE  NumberIsTime'
<1> DEFINE x == unixTS'
           F == Factor[UnitAsked]
           value == Quotient(x, F)
           base == IF opts.base \in {"hex", "0x"} THEN 16 ELSE 10
           Endings == IF opts.base # "float" THEN {[kind |-> "end", digits |-> <<>>]}
                      ELSE {[kind |-> "point",
                             digits |-> Padded(n, FractionWidth(UnitAsked))] :
                              n \in FractionalUnixTS(Remainder(x, F))}
           Line(tail) == [neg |-> value < 0, prefix |-> opts.base = "0x",
                          digits |-> Printed(value, base), tail |-> tail]
<1>1. /\ program = "time2unixts" /\ pc = "print"
      /\ UNCHANGED configuration
      /\ x = Stored(Second * ts.sec + ts.nsec, build.time2unixts)
      /\ \E tail \in Endings : PrintLine(Line(tail))
  BY Zenon DEF PrintTimestamp, UnitAsked
<1>2. PICK tail \in Endings : PrintLine(Line(tail))
  BY <1>1, Zenon
<1> DEFINE line == Line(tail)
           t == Second * ts.sec + ts.nsec
<1>3. /\ line.neg = (value < 0) /\ line.digits = Printed(value, base)
      /\ line.tail = tail
  BY Zenon
<1>4. opts.base = "float" => \E n \in FractionalUnixTS(Remainder(x, F)) :
                               line.tail.digits = Padded(n, FractionWidth(UnitAsked))
  <2> SUFFICES ASSUME opts.base = "float"
               PROVE  \E n \in FractionalUnixTS(Remainder(x, F)) :
                        line.tail.digits = Padded(n, FractionWidth(UnitAsked))
    OBVIOUS
  <2>1. PICK n \in FractionalUnixTS(Remainder(x, F)) :
          tail = [kind |-> "point", digits |-> Padded(n, FractionWidth(UnitAsked))]
    BY <1>2, Zenon
  <2>2. tail.digits = Padded(n, FractionWidth(UnitAsked))
    BY <2>1
  <2> HIDE DEF x, F, line
  <2> QED BY <1>3, <2>2
<1>5. t \in ToldTimes(arg) /\ t \in Int
  <2>1. ts.sec \in Int /\ ts.nsec \in 0 .. Second - 1
    BY DEF NInv, IInv, TypeOK
  <2>2. t \in Int
    BY <2>1, SecondPositive
  <2> QED BY <1>1, <2>2 DEF NInv, StampInv
<1>6. out' = Append(out, line)
  BY <1>2 DEF PrintLine
<1> HIDE DEF x, line, t, Endings, Line
<1>7. Shows(line, ToldTimes(arg))
  BY <1>1, <1>3, <1>4, <1>5, LineShows DEF NInv, t
<1>8. out \in Seq(AnyNumbers) /\ Len(out) \in Nat /\ Len(out) + 1 = arg
  <2>1. out \in Seq(AnyNumbers) /\ Len(out) = arg - 1
    BY <1>1 DEF NInv, IInv, DataInv, PlaceInv
  <2>2. Len(out) \in Nat /\ arg \in Nat \ {0}
    BY Lengths DEF NInv
  <2> QED BY <2>1, <2>2
<1>9. ASSUME NEW k \in DOMAIN out'
      PROVE  Shows(out'[k], ToldTimes(k))
  <2>1. DOMAIN out' = 1 .. arg /\ (\A j \in 1 .. Len(out) : out'[j] = out[j])
        /\ out'[arg] = line
    BY <1>6, <1>8
  <2>2. CASE k = arg
    BY <1>7, <2>1, <2>2
  <2>3. CASE k # arg
    <3>1. k \in 1 .. Len(out) /\ DOMAIN out = 1 .. Len(out)
      BY <1>8, <2>1, <2>3
    <3>2. Shows(out[k], ToldTimes(k))
      BY <1>1, <3>1, NumberIsTimeForm DEF NInv
    <3> QED BY <2>1, <3>1, <3>2
  <2> QED BY <2>2, <2>3
<1>10. ASSUME NEW k \in DOMAIN out'
       PROVE  Shows(out[k], ToldTimes(k))'
  BY <1>1, <1>9 DEF Shows, ToldTimes, UnitAsked, NumberIn, configuration
<1> QED BY <1>10 DEF NumberIsTime, Shows, ToldTimes, UnitAsked

\* Steps that print nothing leave the lines as they are.
LEMMA LinesKept ==
    ASSUME NInv, UNCHANGED <<configuration, out>>, IInv',
           (program = "time2unixts" /\ pc = "print"
              => Second * ts.sec + ts.nsec \in ToldTimes(arg))'
    PROVE  NInv'
<1>1. NumberIsTime'
  BY NumberIsTimeForm DEF NInv, NumberIsTime, NumberIn, configuration
<1> QED BY <1>1 DEF NInv, StampInv

LEMMA NumbersStep == NInv /\ [Next]_vars => NInv'
<1> SUFFICES ASSUME NInv, [Next]_vars  PROVE NInv'
  OBVIOUS
<1>0. IInv'
  BY StepInv DEF NInv
<1>1. CASE ReadInteger \/ TakeCurrentTime \/ ReadRest \/ RefuseTimestamp
           \/ ConvertToTime \/ RefuseTemplate
  <2>1. program = "unixts2time" /\ UNCHANGED <<configuration, out>>
    BY <1>1 DEF ReadInteger, TakeCurrentTime, ReadRest, RefuseTimestamp, ConvertToTime,
                RefuseTemplate, AtArgument, Fail
  <2>2. program' # "time2unixts"
    BY <2>1 DEF configuration
  <2> QED BY <1>0, <2>1, <2>2, LinesKept
<1>2. CASE PrintTime
  <2>1. program' # "time2unixts"
    BY <1>2 DEF PrintTime, configuration
  <2> QED BY <1>0, <2>1 DEF NInv, StampInv, NumberIsTime
<1>3. CASE ParseTime \/ ReadClock
  <2>1. UNCHANGED <<configuration, out>>
    BY <1>3 DEF ParseTime, ReadClock
  <2>2. (Second * ts.sec + ts.nsec \in ToldTimes(arg))'
    BY <1>3, ParseStamp DEF NInv
  <2> QED BY <1>0, <2>1, <2>2, LinesKept
<1>4. CASE RefuseTime
  <2>1. UNCHANGED <<configuration, out>> /\ pc' = "done"
    BY <1>4 DEF RefuseTime, Fail
  <2> QED BY <1>0, <2>1, LinesKept
<1>5. CASE PrintTimestamp
  <2>1. pc' # "print"
    BY <1>5 DEF PrintTimestamp, PrintLine, Goto
  <2> QED BY <1>0, <1>5, <2>1, PrintTimestampExact DEF NInv, StampInv
<1>6. CASE Pipe
  <2>1. out' = <<>> /\ pc' = "argument"
    BY <1>6 DEF Pipe
  <2>2. DOMAIN out' = {}
    BY <2>1
  <2> QED BY <1>0, <2>1, <2>2 DEF NInv, StampInv, NumberIsTime
<1>7. CASE UNCHANGED vars
  <2>1. UNCHANGED <<configuration, out>> /\ UNCHANGED <<pc, ts, arg>>
    BY <1>7 DEF vars
  <2>2. (program = "time2unixts" /\ pc = "print"
           => Second * ts.sec + ts.nsec \in ToldTimes(arg))'
    BY <2>1 DEF NInv, StampInv, ToldTimes, configuration
  <2> QED BY <1>0, <2>1, <2>2, LinesKept
<1> QED BY <1>1, <1>2, <1>3, <1>4, <1>5, <1>6, <1>7 DEF Next

\* Every number time2unixts prints is the time of its argument, rounded to 0 in the
\* unit asked for, to any base, and with --float from 1970 on its rest: for all
\* arguments, units and bases, whatever Step, Minute and Limit are.
THEOREM NumbersExact == Spec => []NumberIsTime
<1>1. Init => NInv
  <2> SUFFICES ASSUME Init  PROVE NInv
    OBVIOUS
  <2>1. out = <<>> /\ pc = "argument"
    BY DEF Init
  <2>2. DOMAIN out = {}
    BY <2>1
  <2> QED BY <2>1, <2>2, InitInv DEF NInv, StampInv, NumberIsTime
<1>2. NInv => NumberIsTime
  BY DEF NInv
<1> QED BY <1>1, <1>2, NumbersStep, PTL DEF Spec

-----------------------------------------------------------------------------
(* The digits of a fraction *)

\* The digits of a number are those of its quotient and one more.
LEMMA PrintedUnfold ==
    ASSUME NEW value \in Int, NEW base \in Nat, base > 1
    PROVE  Printed(value, base) =
             (IF Quotient(value, base) # 0 THEN Printed(Quotient(value, base), base)
                                           ELSE <<>>)
             \o <<Abs(Remainder(value, base))>>
<1> DEFINE Q(i) == Quotient(i, base)
           R(i) == <<Abs(Remainder(i, base))>>
           D == -Abs(value) .. Abs(value)
           q == Q(value)
           E == -Abs(q) .. Abs(q)
           V == Seq(0 .. base - 1)
           size == [i \in E |-> Abs(i)]
<1>1. \A i \in Int : Q(i) \in Int /\ (Q(i) # 0 => Abs(Q(i)) < Abs(i))
  BY AbsQuotient
<1>2. PICK d \in [D -> V] :
        /\ Printed(value, base) = d[value]
        /\ \A i \in D : d[i] = (IF Q(i) # 0 THEN d[Q(i)] ELSE <<>>) \o R(i)
  BY PrintedSteps
<1>3. PICK e \in [E -> V] :
        /\ Printed(q, base) = e[q]
        /\ \A i \in E : e[i] = (IF Q(i) # 0 THEN e[Q(i)] ELSE <<>>) \o R(i)
  BY <1>1, PrintedSteps
<1>4. q \in Int /\ (q # 0 => Abs(q) < Abs(value))
  BY <1>1
<1> HIDE DEF q, Q, R
<1>5. value \in D /\ q \in E
  BY <1>4 DEF Abs
<1>6. CASE q = 0
  <2>1. Printed(value, base) = (IF Q(value) # 0 THEN d[Q(value)] ELSE <<>>) \o R(value)
    BY <1>2, <1>5
  <2>2. ~(Q(value) # 0)
    BY <1>6 DEF q
  <2>3. Printed(value, base) = <<>> \o R(value)
    BY <2>1, <2>2
  <2> QED BY <2>2, <2>3, Zenon DEF Q, R
<1>7. CASE q # 0
  <2>1. \A i \in E : i \in D
    BY <1>4, <1>7 DEF Abs
  <2> DEFINE Good == {i \in E : d[i] = e[i]}
  <2>2. ASSUME NEW i \in E, \A j \in E : size[j] < size[i] => j \in Good
        PROVE  i \in Good
    <3>1. d[i] = (IF Q(i) # 0 THEN d[Q(i)] ELSE <<>>) \o R(i)
          /\ e[i] = (IF Q(i) # 0 THEN e[Q(i)] ELSE <<>>) \o R(i)
      BY <1>2, <1>3, <2>1
    <3>2. ASSUME Q(i) # 0  PROVE d[Q(i)] = e[Q(i)]
      <4>1. Q(i) \in Int /\ Abs(Q(i)) < Abs(i)
        BY <1>1, <3>2
      <4> DEFINE r == Q(i)
      <4>2. r \in Int /\ Abs(r) < Abs(i)
        BY <4>1
      <4> HIDE DEF r
      <4>3. r \in E
        BY <1>4, <4>2 DEF Abs
      <4>4. size[r] < size[i]
        BY <4>2, <4>3
      <4> QED BY <2>2, <4>3, <4>4 DEF r
    <3> QED BY <3>1, <3>2
  <2>3. size \in [E -> Nat]
    BY <1>4 DEF Abs
  <2>4. \A i \in E : i \in Good
    <3> HIDE DEF Good, size, E
    <3> QED BY <2>2, <2>3, BySize
  <2>5. d[q] = e[q]
    BY <1>5, <2>4
  <2>6. d[value] = d[q] \o R(value)
    BY <1>2, <1>5, <1>7 DEF q
  <2>7. Printed(value, base) = Printed(q, base) \o R(value)
    BY <1>2, <1>3, <2>5, <2>6
  <2> QED BY <1>7, <2>7 DEF q, Q, R
<1> QED BY <1>6, <1>7

\* The length of what is printed is one more for each power of the base.
LEMMA PrintedLength ==
    ASSUME NEW k \in Nat \ {0}, NEW value \in Nat, value < Scale(k)
    PROVE  Len(Printed(value, Step)) \in 1 .. k
<1> DEFINE P(v) == Printed(v, Step)
           Q(v) == Quotient(v, Step)
           R(v) == <<Abs(Remainder(v, Step))>>
<1>1. Step \in Nat \ {0} /\ Step > 1
  BY UnixTimestampAssumption
<1>2. ASSUME NEW v \in Nat
      PROVE  /\ Q(v) \in Nat /\ Step * Q(v) <= v
             /\ Len(P(v)) \in Nat
             /\ Len(P(v)) = (IF Q(v) # 0 THEN Len(P(Q(v))) ELSE 0) + 1
  <2>1. Q(v) = v \div Step
    BY DEF Quotient
  <2>2. v \div Step \in Nat /\ v - (Step * (v \div Step)) \in 0 .. Step - 1
    BY <1>1, DivMod
  <2>3. Q(v) \in Nat /\ Step * Q(v) <= v
    <3> DEFINE q == Q(v)
    <3>1. q \in Nat /\ v - (Step * q) \in 0 .. Step - 1
      BY <2>1, <2>2
    <3> HIDE DEF q
    <3>2. Step * q \in Nat
      BY <1>1, <3>1
    <3>3. Step * q <= v
      BY <1>1, <3>1, <3>2
    <3> QED BY <3>1, <3>3 DEF q
  <2>4. P(v) = (IF Q(v) # 0 THEN P(Q(v)) ELSE <<>>) \o R(v)
    BY <1>1, PrintedUnfold
  <2>5. P(v) \in Seq(0 .. Step - 1) /\ P(Q(v)) \in Seq(0 .. Step - 1)
    BY <1>1, <2>3, PrintedType
  <2>6. R(v) \in Seq(0 .. Step - 1) /\ Len(R(v)) = 1
    BY <1>1, AbsQuotient
  <2> HIDE DEF P, Q, R
  <2>7. CASE Q(v) # 0
    <3>1. P(v) = P(Q(v)) \o R(v)
      BY <2>4, <2>7
    <3>2. Len(P(v)) = Len(P(Q(v))) + 1
      <4> DEFINE B == 0 .. Step - 1
                 a == P(Q(v))
                 b == R(v)
      <4>1. a \in Seq(B) /\ b \in Seq(B) /\ Len(b) = 1 /\ P(v) = a \o b
        BY <2>5, <2>6, <3>1
      <4> HIDE DEF B, a, b
      <4>2. Len(a \o b) = Len(a) + Len(b)
        BY <4>1, ConcatProperties
      <4> QED BY <4>1, <4>2 DEF a
    <3>3. Len(P(v)) \in Nat
      BY <2>5, LenProperties
    <3> QED BY <2>3, <2>7, <3>2, <3>3
  <2>8. CASE Q(v) = 0
    <3>1. <<>> \in Seq(0 .. Step - 1) /\ Len(<<>>) = 0
      BY EmptySeq
    <3>2. P(v) = <<>> \o R(v)
      BY <2>4, <2>8
    <3>3. Len(P(v)) = 0 + 1
      BY <2>6, <3>1, <3>2, ConcatProperties
    <3> QED BY <2>3, <2>8, <3>3
  <2> QED BY <2>7, <2>8
<1> HIDE DEF P, Q, R
<1>3. PICK power \in [0 .. k -> Nat \ {0}] :
        /\ Scale(k) = power[k] /\ power[0] = 1
        /\ \A j \in 1 .. k : power[j] = Step * power[j - 1]
  BY ScaleSteps
<1> DEFINE Short(j) == \A v \in Nat : v # 0 /\ v < power[j] => Len(P(v)) <= j
           Good == {j \in 0 .. k : Short(j)}
<1>4. 0 \in Good
  <2>1. \A v \in Nat : ~(v # 0 /\ v < power[0])
    BY <1>3
  <2> QED BY <2>1
<1>5. ASSUME NEW j \in 1 .. k, j - 1 \in Good  PROVE j \in Good
  <2>1. j - 1 \in 0 .. k /\ j \in 0 .. k
    OBVIOUS
  <2>2. ASSUME NEW v \in Nat, v # 0, v < power[j]  PROVE Len(P(v)) <= j
    <3>1. Q(v) \in Nat /\ Step * Q(v) <= v
          /\ Len(P(v)) = (IF Q(v) # 0 THEN Len(P(Q(v))) ELSE 0) + 1
      BY <1>2
    <3>2. CASE Q(v) = 0
      BY <3>1, <3>2
    <3>3. CASE Q(v) # 0
      <4> DEFINE q == Q(v)
                 b == power[j - 1]
      <4>1. q \in Nat /\ q # 0 /\ Step * q <= v /\ b \in Nat \ {0} /\ v < Step * b
        BY <1>3, <2>1, <2>2, <3>1, <3>3
      <4> HIDE DEF q, b
      <4>2. q < b
        <5> SUFFICES ASSUME b <= q  PROVE FALSE
          BY <4>1
        <5>1. b \in Int /\ q \in Int /\ Step \in Nat
          BY <1>1, <4>1
        <5>2. Step * b <= Step * q /\ Step * b \in Int /\ Step * q \in Int
          BY <5>1, Monotone
        <5> QED BY <4>1, <5>2
      <4>3. Len(P(q)) <= j - 1
        BY <1>5, <2>1, <4>1, <4>2 DEF b
      <4>4. Len(P(q)) \in Nat
        BY <1>2, <4>1
      <4>5. Len(P(v)) = Len(P(q)) + 1
        BY <3>1, <3>3 DEF q
      <4> QED BY <4>3, <4>4, <4>5
    <3> QED BY <3>2, <3>3
  <2> QED BY <2>1, <2>2
<1>6. Short(k)
  <2>1. \A j \in 0 .. k : j \in Good
    <3> HIDE DEF Good
    <3> QED BY <1>4, <1>5, EveryPosition
  <2>2. k \in 0 .. k
    OBVIOUS
  <2> QED BY <2>1, <2>2
<1>7. Len(P(value)) >= 1
  <2>1. Q(value) \in Nat /\ Len(P(Q(value))) \in Nat
    BY <1>2
  <2>2. Len(P(value)) = (IF Q(value) # 0 THEN Len(P(Q(value))) ELSE 0) + 1
    BY <1>2
  <2> DEFINE more == IF Q(value) # 0 THEN Len(P(Q(value))) ELSE 0
  <2>3. more \in Nat /\ Len(P(value)) = more + 1
    BY <2>1, <2>2
  <2> HIDE DEF more
  <2> QED BY <2>3
<1>8. CASE value # 0
  BY <1>2, <1>3, <1>6, <1>7, <1>8 DEF P
<1>9. CASE value = 0
  <2>1. Q(0) = 0
    BY <1>1, DivMod DEF Q, Quotient
  <2>2. Len(P(0)) = 1
    BY <1>2, <2>1
  <2> QED BY <1>9, <2>2 DEF P
<1> QED BY <1>8, <1>9

\* A number is printed with as many digits as asked for, if it has not more.
LEMMA PaddedLength ==
    ASSUME NEW width \in Nat \ {0}, NEW n \in Nat, n < Scale(width)
    PROVE  Len(Padded(n, width)) = width
<1> DEFINE digits == Printed(n, Step)
           m == width - Len(digits)
           z == [k \in 1 .. m |-> 0]
<1>1. digits \in Seq(Digits)
  BY PrintedType, UnixTimestampAssumption DEF Digits
<1>2. Len(digits) \in 1 .. width
  BY PrintedLength
<1>3. Padded(n, width) = z \o digits
  BY DEF Padded
<1> HIDE DEF digits
<1>4. m \in Nat /\ m + Len(digits) = width
  BY <1>2
<1> HIDE DEF m
<1>5. z \in Seq(Digits)
  BY <1>4, ZerosType
<1>6. Len(z) = m
  BY <1>4
<1> HIDE DEF z
<1> QED BY <1>1, <1>3, <1>4, <1>5, <1>6, ConcatProperties

\* The powers in use.
LEMMA Scales ==
    /\ Scale(0) = 1 /\ Scale(1) = Step /\ Scale(2) = Step * Step /\ Scale(3) = Second
<1>1. Step \in Nat
  BY UnixTimestampAssumption
<1>2. PICK p \in [0 .. 0 -> Nat \ {0}] : Scale(0) = p[0] /\ p[0] = 1
  BY ScaleSteps
<1>3. PICK r \in [0 .. 1 -> Nat \ {0}] :
        Scale(1) = r[1] /\ r[0] = 1 /\ \A k \in 1 .. 1 : r[k] = Step * r[k - 1]
  BY ScaleSteps
<1>4. r[1] = Step * r[0]
  BY <1>3
<1>5. PICK s \in [0 .. 2 -> Nat \ {0}] :
        Scale(2) = s[2] /\ s[0] = 1 /\ \A k \in 1 .. 2 : s[k] = Step * s[k - 1]
  BY ScaleSteps
<1>6. s[1] = Step * s[0] /\ s[2] = Step * s[1]
  BY <1>5
<1>7. PICK t \in [0 .. 3 -> Nat \ {0}] :
        Scale(3) = t[3] /\ t[0] = 1 /\ \A k \in 1 .. 3 : t[k] = Step * t[k - 1]
  BY ScaleSteps
<1>8. t[1] = Step * t[0] /\ t[2] = Step * t[1] /\ t[3] = Step * t[2]
  BY <1>7
<1>9. Step * 1 = Step
  BY <1>1
<1>10. Scale(1) = Step /\ Scale(2) = Step * Step /\ Scale(3) = Step * (Step * Step)
  BY <1>3, <1>4, <1>5, <1>6, <1>7, <1>8, <1>9
<1>11. Second = Step * (Step * Step)
  BY <1>1 DEF Second, Factor
<1> QED BY <1>2, <1>10, <1>11

-----------------------------------------------------------------------------
(* The fields of the texts unixts2time prints *)

HasField(text, kind) == \E k \in DOMAIN text : text[k].is = kind

\* All fields of a kind have the same value.
Consistent(text, minutes, seconds, fraction) ==
    \A k \in DOMAIN text : /\ text[k].is = "M" => text[k].value = minutes
                           /\ text[k].is = "S" => text[k].value = seconds
                           /\ text[k].is = "F" => text[k].value = fraction

\* The fields strftime() makes are those of the template, filled in.
LEMMA StrftimeFields ==
    ASSUME NEW template \in Seq(STRING), NEW sec \in Int, NEW fraction
    PROVE  /\ Consistent(Strftime(template, sec), sec \div Minute, sec % Minute, fraction)
           /\ \A kind \in {"M", "S"} :
                HasField(Strftime(template, sec), kind) <=> HasField(Fields(template), kind)
           /\ ~HasField(Strftime(template, sec), "F")
<1> DEFINE fields == Fields(template)
           text == Strftime(template, sec)
           Filled(field) ==
             CASE field.is = "M" -> [is |-> "M", value |-> sec \div Minute]
               [] field.is = "S" -> [is |-> "S", value |-> sec % Minute]
               [] OTHER -> field
<1>1. text = [k \in DOMAIN fields |-> Filled(fields[k])]
  BY Zenon DEF Strftime
<1>2. \A k \in DOMAIN fields : fields[k] \in TemplateFields
  BY FieldsType, LenProperties, ElementOfSeq
<1>3. ASSUME NEW field \in TemplateFields
      PROVE  /\ Filled(field).is = field.is /\ field.is # "F"
             /\ field.is = "M" => Filled(field).value = sec \div Minute
             /\ field.is = "S" => Filled(field).value = sec % Minute
  <2>1. field.is \in {"M", "S", "literal"}
    BY DEF TemplateFields
  <2>2. CASE field.is = "M"
    <3>1. Filled(field) = [is |-> "M", value |-> sec \div Minute]
      BY <2>2
    <3> HIDE DEF Filled
    <3> QED BY <2>2, <3>1
  <2>3. CASE field.is = "S"
    <3>1. Filled(field) = [is |-> "S", value |-> sec % Minute]
      BY <2>3
    <3> HIDE DEF Filled
    <3> QED BY <2>3, <3>1
  <2>4. CASE field.is = "literal"
    <3>1. Filled(field) = field
      BY <2>4
    <3> HIDE DEF Filled
    <3> QED BY <2>4, <3>1
  <2> QED BY <2>1, <2>2, <2>3, <2>4
<1> HIDE DEF text, fields, Filled
<1>4. DOMAIN text = DOMAIN fields
      /\ \A k \in DOMAIN fields : text[k] = Filled(fields[k])
  BY <1>1
<1>5. \A k \in DOMAIN text :
        /\ text[k].is = fields[k].is /\ text[k].is # "F"
        /\ text[k].is = "M" => text[k].value = sec \div Minute
        /\ text[k].is = "S" => text[k].value = sec % Minute
  BY <1>2, <1>3, <1>4
<1> QED BY <1>4, <1>5 DEF Consistent, HasField, text, fields

\* Two texts put together have the fields of both.
LEMMA FieldsConcat ==
    ASSUME NEW T, NEW a \in Seq(T), NEW b \in Seq(T),
           NEW minutes, NEW seconds, NEW fraction
    PROVE  /\ Consistent(a, minutes, seconds, fraction)
              /\ Consistent(b, minutes, seconds, fraction)
                => Consistent(a \o b, minutes, seconds, fraction)
           /\ \A kind : HasField(a \o b, kind) <=> HasField(a, kind) \/ HasField(b, kind)
<1> DEFINE m == Len(a)
           n == Len(b)
           t == a \o b
<1>1. /\ m \in Nat /\ n \in Nat /\ DOMAIN a = 1 .. m /\ DOMAIN b = 1 .. n
      /\ DOMAIN t = 1 .. m + n
      /\ \A k \in 1 .. m + n : t[k] = IF k <= m THEN a[k] ELSE b[k - m]
  <2>1. m \in Nat /\ n \in Nat /\ DOMAIN a = 1 .. m /\ DOMAIN b = 1 .. n
    BY LenProperties
  <2>2. t \in Seq(T) /\ Len(t) = m + n
        /\ \A k \in 1 .. m + n : t[k] = IF k <= m THEN a[k] ELSE b[k - m]
    BY ConcatProperties
  <2>3. DOMAIN t = 1 .. Len(t)
    BY <2>2, LenProperties
  <2> QED BY <2>1, <2>2, <2>3
<1> HIDE DEF m, n, t
<1>2. \A k \in DOMAIN t : \/ k \in DOMAIN a /\ t[k] = a[k]
                          \/ k - m \in DOMAIN b /\ t[k] = b[k - m]
  BY <1>1
<1>3. \A k \in DOMAIN a : k \in DOMAIN t /\ t[k] = a[k]
  BY <1>1
<1>4. \A k \in DOMAIN b : m + k \in DOMAIN t /\ t[m + k] = b[k]
  <2> SUFFICES ASSUME NEW k \in DOMAIN b  PROVE m + k \in DOMAIN t /\ t[m + k] = b[k]
    OBVIOUS
  <2>1. m + k \in 1 .. m + n /\ ~(m + k <= m) /\ (m + k) - m = k
    BY <1>1
  <2>2. t[m + k] = b[(m + k) - m]
    BY <1>1, <2>1
  <2> QED BY <1>1, <2>1, <2>2
<1>5. Consistent(a, minutes, seconds, fraction) /\ Consistent(b, minutes, seconds, fraction)
        => Consistent(t, minutes, seconds, fraction)
  <2> SUFFICES ASSUME Consistent(a, minutes, seconds, fraction),
                      Consistent(b, minutes, seconds, fraction), NEW k \in DOMAIN t
               PROVE  /\ t[k].is = "M" => t[k].value = minutes
                      /\ t[k].is = "S" => t[k].value = seconds
                      /\ t[k].is = "F" => t[k].value = fraction
    BY Zenon DEF Consistent
  <2>1. CASE k \in DOMAIN a /\ t[k] = a[k]
    BY <2>1 DEF Consistent
  <2>2. CASE k - m \in DOMAIN b /\ t[k] = b[k - m]
    <3> DEFINE j == k - m
    <3>1. j \in DOMAIN b /\ t[k] = b[j]
      BY <2>2
    <3> HIDE DEF j
    <3> QED BY <3>1 DEF Consistent
  <2> QED BY <1>2, <2>1, <2>2
<1>6. ASSUME NEW kind
      PROVE  HasField(t, kind) <=> HasField(a, kind) \/ HasField(b, kind)
  <2>1. HasField(t, kind) => HasField(a, kind) \/ HasField(b, kind)
    <3> SUFFICES ASSUME NEW k \in DOMAIN t, t[k].is = kind
                 PROVE  HasField(a, kind) \/ HasField(b, kind)
      BY DEF HasField
    <3> QED BY <1>2 DEF HasField
  <2>2. HasField(a, kind) => HasField(t, kind)
    BY <1>3 DEF HasField
  <2>3. HasField(b, kind) => HasField(t, kind)
    BY <1>4 DEF HasField
  <2> QED BY <2>1, <2>2, <2>3
<1> QED BY <1>5, <1>6 DEF t

\* The time a text tells is that of its fields.
LEMMA TimeOfFields ==
    ASSUME NEW text, NEW sec \in Int, NEW fraction \in Seq(Digits),
           Consistent(text, sec \div Minute, sec % Minute, fraction),
           HasField(text, "M"), HasField(text, "S"),
           HasField(text, "F") \/ fraction = <<>>
    PROVE  /\ Fraction(text) = fraction
           /\ TimeIn(text) = Second * sec
                             + (ValueOf(fraction, Step) * Scale(3 - Len(fraction)))
<1>1. ASSUME NEW kind, HasField(text, kind)
      PROVE  \E k \in DOMAIN text : text[k].is = kind /\ Field(text, kind) = text[k].value
  <2> DEFINE place == CHOOSE k \in DOMAIN text : text[k].is = kind
  <2>1. \E k \in DOMAIN text : text[k].is = kind
    BY <1>1 DEF HasField
  <2>2. place \in DOMAIN text /\ text[place].is = kind
    BY <2>1
  <2>3. Field(text, kind) = text[place].value
    BY <2>1 DEF Field
  <2> HIDE DEF place
  <2> QED BY <2>2, <2>3
<1>2. Field(text, "M") = sec \div Minute
  <2>1. PICK k \in DOMAIN text : text[k].is = "M" /\ Field(text, "M") = text[k].value
    BY <1>1
  <2> QED BY <2>1, Zenon DEF Consistent
<1>3. Field(text, "S") = sec % Minute
  <2>1. PICK k \in DOMAIN text : text[k].is = "S" /\ Field(text, "S") = text[k].value
    BY <1>1
  <2> QED BY <2>1, Zenon DEF Consistent
<1>4. Fraction(text) = fraction
  <2>1. CASE HasField(text, "F")
    <3>1. PICK k \in DOMAIN text : text[k].is = "F" /\ Field(text, "F") = text[k].value
      BY <1>1, <2>1
    <3>2. Field(text, "F") = fraction
      BY <3>1, Zenon DEF Consistent
    <3> QED BY <2>1, <3>2 DEF Fraction, HasField
  <2>2. CASE ~HasField(text, "F")
    BY <2>2 DEF Fraction, HasField
  <2> QED BY <2>1, <2>2
<1>5. Minute * (sec \div Minute) + (sec % Minute) = sec
  <2>1. Minute \in Nat \ {0}
    BY UnixTimestampAssumption
  <2> QED BY <2>1
<1>6. TimeIn(text) = (Second * (Minute * Field(text, "M") + Field(text, "S")))
                     + (ValueOf(Fraction(text), Step) * Scale(3 - Len(Fraction(text))))
  BY DEF TimeIn
<1> QED BY <1>2, <1>3, <1>4, <1>5, <1>6

-----------------------------------------------------------------------------
(* Whole units and their parts *)

\* What division leaves is the remainder, also for negative numbers.
LEMMA DivModInt ==
    ASSUME NEW a \in Int, NEW b \in Nat \ {0}
    PROVE  b * (a \div b) + (a % b) = a
OBVIOUS

\* Division is what multiplication with the rest undoes.
LEMMA DivUnique ==
    ASSUME NEW q \in Int, NEW b \in Nat \ {0}, NEW r \in 0 .. b - 1,
           NEW x \in Int, x = b * q + r
    PROVE  x \div b = q /\ x % b = r
<1> DEFINE p == x \div b
           s == x % b
<1>1. p \in Int /\ s \in 0 .. b - 1 /\ x = b * p + s
  <2>1. p \in Int /\ s \in 0 .. b - 1
    BY ModRange
  <2>2. x = b * p + s
    BY DivModInt
  <2> QED BY <2>1, <2>2
<1> HIDE DEF p, s
<1>2. b * q \in Int /\ b * p \in Int
  BY <1>1, Product
<1>3. ~(p > q)
  <2> SUFFICES ASSUME q + 1 <= p  PROVE FALSE
    BY <1>1
  <2> DEFINE a == q + 1
  <2>1. a \in Int /\ a <= p /\ b \in Nat
    OBVIOUS
  <2>2. b * a = (b * q) + b
    OBVIOUS
  <2> HIDE DEF a
  <2>3. b * a <= b * p
    BY <1>1, <2>1, Monotone
  <2> QED BY <1>1, <1>2, <2>2, <2>3
<1>4. ~(p < q)
  <2> SUFFICES ASSUME p + 1 <= q  PROVE FALSE
    BY <1>1
  <2> DEFINE a == p + 1
  <2>1. a \in Int /\ a <= q /\ b \in Nat
    BY <1>1
  <2>2. b * a = (b * p) + b
    BY <1>1
  <2> HIDE DEF a
  <2>3. b * a <= b * q
    BY <2>1, Monotone
  <2> QED BY <1>1, <1>2, <2>2, <2>3
<1>5. p = q
  BY <1>1, <1>3, <1>4
<1>6. s = r
  BY <1>1, <1>2, <1>5
<1> QED BY <1>5, <1>6 DEF p, s

\* A number that is less than a multiple is a multiple of less.
LEMMA LessFactor ==
    ASSUME NEW a \in Int, NEW b \in Int, NEW c \in Nat \ {0}, a * c < b * c
    PROVE  a < b
<1> SUFFICES ASSUME b <= a  PROVE FALSE
  OBVIOUS
<1>1. b * c <= a * c /\ a * c \in Int /\ b * c \in Int
  <2>1. c \in Nat
    OBVIOUS
  <2> QED BY <2>1, Monotone
<1> QED BY <1>1

\* The last digit of a fraction, rounded: half of it may go up or down.
Rounded(nsec, scale) ==
    (IF 2 * (nsec % scale) - scale <= 0 THEN {nsec \div scale} ELSE {}) \cup
    (IF 2 * (nsec % scale) - scale >= 0 THEN {nsec \div scale + 1} ELSE {})

\* Next to a whole number of digits it is this number that is printed.
LEMMA RoundedExact ==
    ASSUME NEW a \in Int, NEW scale \in Nat \ {0}, NEW e \in {-1, 0, 1},
           e # 0 => scale > 2, NEW nsec \in Int, nsec = scale * a + e,
           NEW r \in Rounded(nsec, scale)
    PROVE  r = a
<1> DEFINE d == nsec \div scale
           m == nsec % scale
<1>1. \/ r = d /\ 2 * m - scale <= 0
      \/ r = d + 1 /\ 2 * m - scale >= 0
  BY DEF Rounded
<1>2. CASE e = 0
  <2>1. nsec = scale * a + e /\ e \in 0 .. scale - 1
    BY <1>2
  <2>2. d = a /\ m = e
    BY <2>1, DivUnique
  <2> HIDE DEF d, m
  <2> QED BY <1>1, <2>2
<1>3. CASE e = 1
  <2>1. nsec = scale * a + e /\ e \in 0 .. scale - 1
    BY <1>3
  <2>2. d = a /\ m = e
    BY <2>1, DivUnique
  <2> HIDE DEF d, m
  <2> QED BY <1>1, <1>3, <2>2
<1>4. CASE e = -1
  <2> DEFINE b == a - 1
             k == scale - 1
  <2>1. scale * (a - 1) = (scale * a) - scale /\ scale * a \in Int
    OBVIOUS
  <2>2. nsec = scale * b + k
    <3> DEFINE x == scale * a
               y == scale * (a - 1)
    <3>1. x \in Int /\ y = x - scale /\ nsec = x + (-1)
      BY <1>4, <2>1
    <3> HIDE DEF x, y
    <3>2. nsec = y + (scale - 1)
      BY <3>1
    <3> QED BY <3>2 DEF y
  <2>3. b \in Int /\ k \in 0 .. scale - 1
    BY <1>4
  <2> HIDE DEF b, k
  <2>4. d = b /\ m = k
    BY <2>2, <2>3, DivUnique
  <2> HIDE DEF d, m
  <2>5. d = a - 1 /\ m = scale - 1
    BY <2>4 DEF b, k
  <2> QED BY <1>1, <1>4, <2>5
<1> QED BY <1>2, <1>3, <1>4

\* The digits of a unit behind the point.
More(u) == CASE u = "ns" -> 3 [] u = "us" -> 2 [] u = "ms" -> 1 [] u = "s" -> 0

\* A unit is as many digits of a fraction as are used, and the rest.
LEMMA FactorScales ==
    ASSUME NEW u \in Units, NEW d \in Nat, More(u) + d <= 3
    PROVE  /\ More(u) \in 0 .. 3
           /\ Factor[u] = Scale(3 - (More(u) + d)) * Scale(d)
<1>1. Step \in Nat
  BY UnixTimestampAssumption
<1>2. /\ Scale(0) = 1 /\ Scale(1) = Step /\ Scale(2) = Step * Step
      /\ Scale(3) = Step * (Step * Step)
  BY Scales, <1>1 DEF Second, Factor
<1>3. /\ Factor["ns"] = 1 /\ Factor["us"] = Step /\ Factor["ms"] = Step * Step
      /\ Factor["s"] = Step * (Step * Step)
  BY <1>1 DEF Factor
<1>4. More("ns") = 3 /\ More("us") = 2 /\ More("ms") = 1 /\ More("s") = 0
  BY DEF More
<1>5. 1 * 1 = 1 /\ Step * 1 = Step /\ 1 * Step = Step /\ (Step * Step) * 1 = Step * Step
      /\ 1 * (Step * Step) = Step * Step /\ (Step * Step) * Step = Step * (Step * Step)
      /\ 1 * (Step * (Step * Step)) = Step * (Step * Step)
      /\ (Step * (Step * Step)) * 1 = Step * (Step * Step)
  BY <1>1
<1>6. u \in {"ns", "us", "ms", "s"}
  BY DEF Units
<1>7. CASE u = "ns"
  <2>1. d = 0 /\ 3 - (More(u) + d) = 0
    BY <1>4, <1>7
  <2> QED BY <1>2, <1>3, <1>4, <1>5, <1>7, <2>1
<1>8. CASE u = "us"
  <2>1. d \in {0, 1} /\ More(u) = 2
    BY <1>4, <1>8
  <2>2. CASE d = 0
    <3>1. 3 - (More(u) + d) = 1
      BY <2>1, <2>2
    <3> QED BY <1>2, <1>3, <1>5, <1>8, <2>1, <2>2, <3>1
  <2>3. CASE d = 1
    <3>1. 3 - (More(u) + d) = 0
      BY <2>1, <2>3
    <3> QED BY <1>2, <1>3, <1>5, <1>8, <2>1, <2>3, <3>1
  <2> QED BY <2>1, <2>2, <2>3
<1>9. CASE u = "ms"
  <2>1. d \in {0, 1, 2} /\ More(u) = 1
    BY <1>4, <1>9
  <2>2. CASE d = 0
    <3>1. 3 - (More(u) + d) = 2
      BY <2>1, <2>2
    <3> QED BY <1>2, <1>3, <1>5, <1>9, <2>1, <2>2, <3>1
  <2>3. CASE d = 1
    <3>1. 3 - (More(u) + d) = 1
      BY <2>1, <2>3
    <3> QED BY <1>2, <1>3, <1>5, <1>9, <2>1, <2>3, <3>1
  <2>4. CASE d = 2
    <3>1. 3 - (More(u) + d) = 0
      BY <2>1, <2>4
    <3> QED BY <1>2, <1>3, <1>5, <1>9, <2>1, <2>4, <3>1
  <2> QED BY <2>1, <2>2, <2>3, <2>4
<1>10. CASE u = "s"
  <2>1. d \in {0, 1, 2, 3} /\ More(u) = 0
    BY <1>4, <1>10
  <2>2. CASE d = 0
    <3>1. 3 - (More(u) + d) = 3
      BY <2>1, <2>2
    <3> QED BY <1>2, <1>3, <1>5, <1>10, <2>1, <2>2, <3>1
  <2>3. CASE d = 1
    <3>1. 3 - (More(u) + d) = 2
      BY <2>1, <2>3
    <3> QED BY <1>2, <1>3, <1>5, <1>10, <2>1, <2>3, <3>1
  <2>4. CASE d = 2
    <3>1. 3 - (More(u) + d) = 1
      BY <2>1, <2>4
    <3> QED BY <1>2, <1>3, <1>5, <1>10, <2>1, <2>4, <3>1
  <2>5. CASE d = 3
    <3>1. 3 - (More(u) + d) = 0
      BY <2>1, <2>5
    <3> QED BY <1>2, <1>3, <1>5, <1>10, <2>1, <2>5, <3>1
  <2> QED BY <2>1, <2>2, <2>3, <2>4, <2>5
<1> QED BY <1>6, <1>7, <1>8, <1>9, <1>10

\* A second has all three digits.
LEMMA SecondScales ==
    ASSUME NEW d \in 0 .. 3
    PROVE  Second = Scale(3 - d) * Scale(d)
<1>1. "s" \in Units /\ More("s") = 0 /\ Factor["s"] = Second
  BY DEF Units, More, Second
<1>2. 0 + d = d /\ d \in Nat /\ 0 + d <= 3
  OBVIOUS
<1> QED BY <1>1, <1>2, FactorScales

-----------------------------------------------------------------------------
(* The fraction unixts2time prints *)

\* The digits of a fraction that is printed are as many as Precision says, and
\* those of the ns, rounded.
ShownDigits(d) ==
    /\ d \in Seq(Digits) /\ Len(d) = Precision
    /\ ValueOf(d, Step) \in 0 .. Scale(Precision) - 1
    /\ Precision # 0 => \E r \in Rounded(ts.nsec, Scale(3 - Precision)) :
                          ValueOf(d, Step) = r % Scale(Precision)

LEMMA FractionShown ==
    ASSUME unit \in Units, fractionDigits \in Nat, ts.nsec \in Nat,
           NEW f \in FractionalSeconds
    PROVE  \E d : /\ ShownDigits(d)
                  /\ f = IF Precision = 0 THEN <<>> ELSE <<[is |-> "F", value |-> d]>>
<1> DEFINE scale == Scale(3 - Precision)
           rounded == Rounded(ts.nsec, scale)
<1>1. Precision \in 0 .. 3 /\ 3 - Precision \in Nat /\ Precision \in Nat
  BY PrecisionType
<1>2. scale \in Nat \ {0} /\ Scale(Precision) \in Nat \ {0}
  BY <1>1, ScaleType
<1>3. FractionalSeconds =
        IF Precision = 0 THEN {<<>>}
        ELSE {<<[is |-> "F", value |-> Padded(n % Scale(Precision), Precision)]>> :
                n \in rounded}
  BY Zenon DEF FractionalSeconds, Rounded
<1> HIDE DEF scale
<1>4. rounded \subseteq Int
  <2> DEFINE ns == ts.nsec
  <2>1. ns \in Int
    OBVIOUS
  <2> HIDE DEF ns
  <2>2. ns \div scale \in Int
    BY <1>2, <2>1, ModRange
  <2>3. ts.nsec \div scale \in Int
    BY <2>2 DEF ns
  <2> QED BY <2>3 DEF Rounded
<1> HIDE DEF rounded
<1>5. CASE Precision = 0
  <2>1. f = <<>>
    BY <1>3, <1>5
  <2>2. <<>> \in Seq(Digits) /\ Len(<<>>) = 0
    BY EmptySeq
  <2>3. ValueOf(<<>>, Step) = 0 /\ Scale(Precision) = 1
    BY <1>5, ValueEmpty, Scales, UnixTimestampAssumption
  <2>4. ShownDigits(<<>>)
    BY <1>5, <2>2, <2>3 DEF ShownDigits
  <2> QED BY <1>5, <2>1, <2>4
<1>6. CASE Precision # 0
  <2>1. PICK n \in rounded :
          f = <<[is |-> "F", value |-> Padded(n % Scale(Precision), Precision)]>>
    BY <1>3, <1>6
  <2> DEFINE m == n % Scale(Precision)
             d == Padded(m, Precision)
  <2>2. m \in 0 .. Scale(Precision) - 1
    BY <1>2, <1>4, ModRange
  <2>3. m \in Nat /\ m < Scale(Precision)
    BY <1>2, <2>2
  <2>4. Precision \in Nat \ {0} /\ Precision \in Int
    BY <1>1, <1>6
  <2> HIDE DEF m
  <2>5. d \in Seq(Digits) /\ Len(d) = Precision /\ ValueOf(d, Step) = m
    BY <2>3, <2>4, PaddedType, PaddedLength, PaddedValue
  <2>6. f = <<[is |-> "F", value |-> d]>>
    BY <2>1 DEF m
  <2> HIDE DEF d
  <2>7. \E r \in Rounded(ts.nsec, Scale(3 - Precision)) :
          ValueOf(d, Step) = r % Scale(Precision)
    BY <2>1, <2>5 DEF m, rounded, scale
  <2>8. ShownDigits(d)
    BY <2>2, <2>5, <2>7 DEF ShownDigits
  <2> QED BY <1>6, <2>6, <2>8
<1> QED BY <1>5, <1>6

\* Next to a whole number of the last digit it is this number that is shown.
LEMMA ShownExact ==
    ASSUME unit \in Units, fractionDigits \in Nat, ts.nsec \in Nat,
           NEW d, ShownDigits(d),
           NEW a \in 0 .. Scale(Precision) - 1, NEW e \in {-1, 0, 1},
           e # 0 => Scale(3 - Precision) > 2,
           ts.nsec = Scale(3 - Precision) * a + e
    PROVE  ValueOf(d, Step) = a
<1> DEFINE scale == Scale(3 - Precision)
           all == Scale(Precision)
           nsec == ts.nsec
<1>1. Precision \in 0 .. 3 /\ 3 - Precision \in Nat /\ Precision \in Nat
  BY PrecisionType
<1>2. scale \in Nat \ {0} /\ all \in Nat \ {0}
  BY <1>1, ScaleType
<1>3. CASE Precision = 0
  <2>1. Scale(Precision) = 1
    BY <1>3, Scales
  <2> QED BY <2>1 DEF ShownDigits
<1>4. CASE Precision # 0
  <2>1. PICK r \in Rounded(nsec, scale) : ValueOf(d, Step) = r % all
    BY <1>4 DEF ShownDigits
  <2>2. nsec \in Int /\ nsec = scale * a + e /\ (e # 0 => scale > 2) /\ a \in 0 .. all - 1
    OBVIOUS
  <2> HIDE DEF scale, all, nsec
  <2>3. a \in Int /\ a \in Nat /\ a < all
    BY <1>2, <2>2
  <2>4. r = a
    BY <1>2, <2>1, <2>2, <2>3, RoundedExact
  <2>5. a % all = a
    BY <1>2, <2>3, ModSmall
  <2> QED BY <2>1, <2>4, <2>5
<1> QED BY <1>3, <1>4

-----------------------------------------------------------------------------
(* The time of an argument of unixts2time *)

\* The ns a fraction may add: those it is worth, or in double precision 1 less.
NearFractions(digits, u) ==
    LET product == ValueOf(digits, Step) * Factor[u]
        scale == Scale(Len(digits))
    IN  {product \div scale} \cup
        (IF u \in {"ms", "s"} /\ Len(digits) > 1 /\ product > 0 /\ product % scale = 0
           THEN {(product \div scale) - 1} ELSE {})

Size(n) == ValueOf(n.digits, Base(n))

\* The times unixts2time may take a number for.
ExactTimes(n, u) ==
    {Signed(n.neg, Size(n) * Factor[u] + g) : g \in NearFractions(n.tail.digits, u)}

\* A fraction of a unit is less than it.
LEMMA NearRange ==
    ASSUME NEW digits \in Seq(Digits), NEW u \in Units, NEW g \in NearFractions(digits, u),
           NEW f, f = (ValueOf(digits, Step) * Factor[u]) \div Scale(Len(digits))
    PROVE  /\ f \in 0 .. Factor[u] - 1 /\ g \in 0 .. Factor[u] - 1
           /\ g = f \/ (g = f - 1 /\ u \in {"ms", "s"} /\ Len(digits) > 1)
<1> DEFINE F == Factor[u]
           v == ValueOf(digits, Step)
           sc == Scale(Len(digits))
           product == v * F
<1>1. F \in Nat \ {0}
  BY FactorType
<1>2. sc \in Nat \ {0} /\ v \in 0 .. sc - 1
  BY ValueBelowScale, LenProperties, ScaleType
<1>3. v \in Nat /\ v <= sc - 1
  BY <1>2
<1>4. \/ g = f
      \/ /\ g = f - 1 /\ u \in {"ms", "s"} /\ Len(digits) > 1
         /\ product > 0 /\ product % sc = 0
  BY Zenon DEF NearFractions
<1>5. f = product \div sc
  OBVIOUS
<1> HIDE DEF F, v, sc
<1>6. product \in Nat
  BY <1>1, <1>3, Product
<1>7. product <= (sc * F) - F /\ sc * F \in Int
  <2> DEFINE w == sc - 1
  <2>1. w \in Int /\ v \in Int /\ F \in Nat /\ v <= w /\ w * F = (sc * F) - F
    BY <1>1, <1>2, <1>3
  <2> HIDE DEF w
  <2>2. v * F <= w * F
    BY <2>1, Monotone
  <2>3. sc * F \in Int
    BY <1>1, <1>2, Product
  <2> QED BY <2>1, <2>2, <2>3
<1> HIDE DEF product
<1>8. f \in Nat /\ product - (sc * f) \in 0 .. sc - 1
  BY <1>2, <1>5, <1>6, DivMod
<1>9. sc * f \in Int
  BY <1>2, <1>8, Product
<1>10. f < F
  <2>1. sc * f <= product
    BY <1>2, <1>6, <1>8, <1>9
  <2>2. f * sc = sc * f /\ F * sc = sc * F
    BY <1>1, <1>2, <1>8
  <2>3. f * sc < F * sc
    BY <1>1, <1>6, <1>7, <1>9, <2>1, <2>2
  <2>4. f \in Int /\ F \in Int /\ sc \in Nat \ {0}
    BY <1>1, <1>2, <1>8
  <2> QED BY <2>3, <2>4, LessFactor
<1>11. f \in 0 .. F - 1
  BY <1>1, <1>8, <1>10
<1>12. CASE g = f
  BY <1>11, <1>12 DEF F
<1>13. CASE g # f
  <2>1. g = f - 1 /\ product > 0 /\ product % sc = 0
    BY <1>4, <1>13
  <2>2. product = sc * f
    <3>1. sc * (product \div sc) + (product % sc) = product
      BY <1>2, <1>6, DivModSum
    <3> QED BY <1>5, <1>9, <2>1, <3>1
  <2>3. f # 0
    <3> SUFFICES ASSUME f = 0  PROVE FALSE
      OBVIOUS
    <3>1. sc * 0 = 0
      BY <1>2
    <3> QED BY <2>1, <2>2, <3>1
  <2>4. g \in 0 .. F - 1
    BY <1>1, <1>11, <2>1, <2>3
  <2> QED BY <1>4, <1>11, <1>13, <2>4 DEF F
<1> QED BY <1>12, <1>13

\* A fraction with no more digits than are printed is a whole number of the last one.
LEMMA WholeDigits ==
    ASSUME NEW digits \in Seq(Digits), NEW u \in Units, More(u) + Len(digits) <= 3
    PROVE  (ValueOf(digits, Step) * Factor[u]) \div Scale(Len(digits))
             = ValueOf(digits, Step) * Scale(3 - (More(u) + Len(digits)))
<1> DEFINE v == ValueOf(digits, Step)
           len == Len(digits)
           sc == Scale(len)
           scale == Scale(3 - (More(u) + len))
<1>1. len \in Nat
  BY LenProperties
<1>2. More(u) \in 0 .. 3 /\ Factor[u] = scale * sc
  BY <1>1, FactorScales
<1>3. sc \in Nat \ {0} /\ scale \in Nat \ {0}
  <2>1. 3 - (More(u) + len) \in Nat
    BY <1>1, <1>2
  <2> QED BY <1>1, <2>1, ScaleType
<1>4. v \in Nat
  BY ValueBelowScale
<1> HIDE DEF v, sc, scale, len
<1> DEFINE q == v * scale
           x == v * (scale * sc)
<1>5. q \in Int /\ x \in Int /\ x = sc * q + 0 /\ 0 \in 0 .. sc - 1
  BY <1>3, <1>4
<1> HIDE DEF q, x
<1>6. x \div sc = q
  BY <1>3, <1>5, DivUnique
<1> QED BY <1>2, <1>6 DEF x, q, v, sc, scale, len

\* The sign and the digits of a number.
LEMMA NumberParts ==
    ASSUME NEW n \in AnyNumbers
    PROVE  /\ n.neg \in BOOLEAN /\ n.digits \in Seq(Nat) /\ n.tail \in Tails
           /\ n.tail.digits \in Seq(Digits) /\ Len(n.tail.digits) \in Nat
           /\ n.tail.kind = "end" => n.tail.digits = <<>>
           /\ Base(n) \in Nat /\ Size(n) \in Nat
<1>1. n.neg \in BOOLEAN /\ n.digits \in Seq(Nat) /\ n.tail \in Tails
  BY DEF AnyNumbers
<1>2. <<>> \in Seq(Digits)
  BY EmptySeq
<1>3. n.tail.digits \in Seq(Digits) /\ (n.tail.kind = "end" => n.tail.digits = <<>>)
  BY <1>1, <1>2 DEF Tails
<1>4. Base(n) \in Nat
  BY TakenType
<1>5. Size(n) \in Nat
  BY <1>1, <1>4, ValueType DEF Size
<1>6. Len(n.tail.digits) \in Nat
  BY <1>3, LenProperties
<1> QED BY <1>1, <1>3, <1>4, <1>5, <1>6

\* A second is so many of a unit.
LEMMA UnitScale ==
    ASSUME NEW u \in Units
    PROVE  /\ More(u) \in 0 .. 3 /\ Scale(More(u)) \in Nat \ {0}
           /\ Second = Factor[u] * Scale(More(u))
<1>1. More(u) \in 0 .. 3
  BY DEF Units, More
<1>2. /\ 0 \in Nat /\ More(u) + 0 <= 3 /\ 3 - (More(u) + 0) = 3 - More(u)
      /\ More(u) \in Nat /\ 3 - More(u) \in Nat
  BY <1>1
<1>3. Factor[u] = Scale(3 - More(u)) * Scale(0)
  BY <1>2, FactorScales
<1>4. Scale(3 - More(u)) \in Nat \ {0} /\ Scale(More(u)) \in Nat \ {0} /\ Scale(0) = 1
  BY <1>2, ScaleType, Scales
<1>5. Factor[u] = Scale(3 - More(u))
  BY <1>3, <1>4
<1>6. Second = Scale(3 - More(u)) * Scale(More(u))
  BY <1>1, SecondScales
<1> QED BY <1>1, <1>4, <1>5, <1>6

\* nsec is what is left of a number next to b of the last digit, behind sec.
NextTo(scale, all, b, e, sec, nsec, a) ==
    /\ scale \in Nat \ {0} /\ all \in Nat \ {0} /\ b \in Int /\ sec \in Int
    /\ e \in {-1, 0, 1} /\ (e # 0 => scale > 2) /\ (e = -1 => a < all)
    /\ nsec \in 0 .. (scale * all) - 1
    /\ (scale * b) + e = (sec * (scale * all)) + nsec
    /\ a = b - (sec * all)

\* What is next to a whole number of the last digit shown is in the second of
\* this number, and so is shown as it is.
LEMMA WholeShown ==
    ASSUME NEW scale, NEW all, NEW b, NEW e, NEW sec, NEW nsec, NEW a,
           NextTo(scale, all, b, e, sec, nsec, a)
    PROVE  /\ a \in 0 .. all - 1 /\ nsec = (scale * a) + e
           /\ ((scale * all) * sec) + (a * scale) = scale * b
<1> USE DEF NextTo
<1>1. /\ sec * all \in Int /\ scale * all \in Nat /\ scale * b \in Int
      /\ sec * (scale * all) \in Int
  <2>1. scale * all \in Nat \ {0}
    BY PositiveProduct
  <2>2. sec * (scale * all) \in Int
    BY <2>1, Product
  <2> QED BY <2>1, <2>2, Product
<1>2. a \in Int
  BY <1>1
<1>3. /\ scale * a = (scale * b) - (sec * (scale * all))
      /\ (scale * all) * sec = sec * (scale * all)
  <2>1. scale * (b - (sec * all)) = (scale * b) - (sec * (scale * all))
    OBVIOUS
  <2> QED BY <2>1
<1>4. scale * a \in Int /\ a * scale = scale * a /\ all * scale = scale * all
  BY <1>2
<1> DEFINE x == scale * a
           y == scale * all
           w == scale * b
           z == sec * (scale * all)
<1>5. /\ x \in Int /\ y \in Nat /\ w \in Int /\ z \in Int
      /\ x = w - z /\ w + e = z + nsec /\ nsec \in 0 .. y - 1 /\ nsec \in Int
  BY <1>1, <1>3, <1>4
<1> HIDE DEF x, y, w, z
<1>6. nsec = x + e
  BY <1>5
<1>7. a > -1
  <2> DEFINE m == -1
  <2>1. m * scale = -scale /\ m \in Int
    OBVIOUS
  <2>2. -scale < x
    <3>1. x >= -e
      BY <1>5, <1>6
    <3> QED BY <3>1, <1>5
  <2>3. m * scale < a * scale
    BY <2>1, <2>2, <1>4 DEF x
  <2> HIDE DEF m
  <2>4. m < a
    BY <1>2, <2>1, <2>3, LessFactor
  <2> QED BY <2>4 DEF m
<1>8. a < all
  <2>1. CASE e = -1
    BY <2>1
  <2>2. CASE e # -1
    <3>1. x < y
      BY <1>5, <1>6, <2>2
    <3>2. a * scale < all * scale
      BY <1>4, <3>1 DEF x, y
    <3> QED BY <1>2, <3>2, LessFactor
  <2> QED BY <2>1, <2>2
<1>9. a \in 0 .. all - 1
  BY <1>2, <1>7, <1>8
<1>10. nsec = (scale * a) + e
  BY <1>6 DEF x
<1>11. ((scale * all) * sec) + (a * scale) = scale * b
  BY <1>3, <1>4, <1>5 DEF x, w, z
<1> QED BY <1>9, <1>10, <1>11

\* The fraction of a unit the digits behind the point are, in whole ns.
PartOf(digits, u) == (ValueOf(digits, Step) * Factor[u]) \div Scale(Len(digits))

\* x is the time of a number with the fraction g of its unit.
TimeWith(n, u, g, x) ==
    /\ x = Signed(n.neg, Size(n) * Factor[u] + g)
    /\ g \in 0 .. Factor[u] - 1
    /\ \/ g = PartOf(n.tail.digits, u)
       \/ /\ g = PartOf(n.tail.digits, u) - 1
          /\ u \in {"ms", "s"} /\ Len(n.tail.digits) > 1

Near(n, u) == IF n.tail.digits = <<>> THEN {ManualTime(n, u)}
              ELSE {ManualTime(n, u), ManualTime(n, u) - Signed(n.neg, 1)}

\* The time a number is taken for is the one of the manual page, or next to it.
LEMMA ExactNear ==
    ASSUME NEW n \in AnyNumbers, NEW u \in Units, NEW x \in ExactTimes(n, u)
    PROVE  /\ PartOf(n.tail.digits, u) \in 0 .. Factor[u] - 1
           /\ ManualTime(n, u) = Signed(n.neg, Size(n) * Factor[u] + PartOf(n.tail.digits, u))
           /\ ManualTime(n, u) \in Int /\ x \in Int /\ x \in Near(n, u)
           /\ \E g : TimeWith(n, u, g, x)
<1> DEFINE f == PartOf(n.tail.digits, u)
           digits == n.tail.digits
           F == Factor[u]
           T == ManualTime(n, u)
<1>1. PICK g \in NearFractions(digits, u) : x = Signed(n.neg, Size(n) * Factor[u] + g)
  BY DEF ExactTimes
<1>2. n.neg \in BOOLEAN /\ digits \in Seq(Digits) /\ Size(n) \in Nat
  BY NumberParts
<1>3. F \in Nat \ {0}
  BY FactorType
<1>4. /\ f \in 0 .. F - 1 /\ g \in 0 .. F - 1
      /\ g = f \/ (g = f - 1 /\ u \in {"ms", "s"} /\ Len(digits) > 1)
  <2>1. f = (ValueOf(digits, Step) * Factor[u]) \div Scale(Len(digits))
    BY DEF PartOf
  <2> HIDE DEF f, digits
  <2>2. /\ f \in 0 .. Factor[u] - 1 /\ g \in 0 .. Factor[u] - 1
        /\ g = f \/ (g = f - 1 /\ u \in {"ms", "s"} /\ Len(digits) > 1)
    BY <1>2, <2>1, NearRange
  <2> QED BY <2>2
<1>5. T = Signed(n.neg, Size(n) * F + f)
  BY Zenon DEF ManualTime, PartOf, Size
<1>6. Size(n) * F \in Nat
  BY <1>2, <1>3, Product
<1>7. TimeWith(n, u, g, x)
  BY <1>1, <1>4 DEF TimeWith
<1>8. digits = <<>> => g = f
  BY <1>4
<1> HIDE DEF f, F, T
<1>9. T \in Int /\ x \in Int
  <2> DEFINE p == Size(n) * F
  <2>1. p \in Nat /\ T = Signed(n.neg, p + f) /\ x = Signed(n.neg, p + g)
    BY <1>1, <1>5, <1>6 DEF F
  <2> HIDE DEF p
  <2> QED BY <1>2, <1>3, <1>4, <2>1 DEF Signed
<1>10. x \in {T, T - Signed(n.neg, 1)} /\ (g = f => x = T)
  <2> DEFINE p == Size(n) * F
  <2>1. p \in Nat /\ T = Signed(n.neg, p + f) /\ x = Signed(n.neg, p + g)
    BY <1>1, <1>5, <1>6 DEF F
  <2> HIDE DEF p
  <2> QED BY <1>2, <1>3, <1>4, <2>1 DEF Signed
<1>11. x \in Near(n, u)
  BY <1>8, <1>10 DEF Near, T
<1> QED BY <1>4, <1>5, <1>7, <1>9, <1>11 DEF f, F, T

\* The precision is the digits given, and those of the unit.
LEMMA PrecisionIs ==
    ASSUME unit \in Units, NEW len \in Nat, fractionDigits = len
    PROVE  Precision = IF len + More(unit) > 3 THEN 3 ELSE len + More(unit)
<1>1. Precision = IF fractionDigits + More(unit) > 3 THEN 3 ELSE fractionDigits + More(unit)
  BY Zenon DEF Precision, More
<1> QED BY Zenon, <1>1

\* If not all digits are in use, those that are shown are the ones of the
\* number, also where the last ns is missing.
LEMMA ShortShown ==
    ASSUME unit \in Units, fractionDigits \in Nat,
           NEW n \in AnyNumbers, fractionDigits = Len(n.tail.digits),
           NEW x \in ExactTimes(n, unit), Precision < 3,
           NEW sec \in Int, ts.nsec \in 0 .. Second - 1, x = (sec * Second) + ts.nsec,
           NEW d, ShownDigits(d)
    PROVE  (Second * sec) + (ValueOf(d, Step) * Scale(3 - Precision))
             = ManualTime(n, unit)
<1> DEFINE digits == n.tail.digits
           len == Len(digits)
           F == Factor[unit]
           P == Precision
           scale == Scale(3 - P)
           all == Scale(P)
           sc == Scale(len)
           v == ValueOf(digits, Step)
           f == PartOf(digits, unit)
           T == ManualTime(n, unit)
           size == Size(n)
           nsec == ts.nsec
<1>1. PICK g : TimeWith(n, unit, g, x)
  BY ExactNear
<1>2. /\ f \in 0 .. F - 1 /\ T = Signed(n.neg, size * F + f)
      /\ T \in Int /\ x \in Int
  BY ExactNear
<1>3. /\ x = Signed(n.neg, size * F + g) /\ g \in 0 .. F - 1
      /\ g = f \/ (g = f - 1 /\ unit \in {"ms", "s"} /\ len > 1)
  BY <1>1 DEF TimeWith
<1>4. n.neg \in BOOLEAN /\ digits \in Seq(Digits) /\ size \in Nat /\ len \in Nat
  BY NumberParts
<1>5. More(unit) \in 0 .. 3 /\ P = More(unit) + len /\ P \in 0 .. 2
  <2>1. More(unit) \in 0 .. 3
    BY UnitScale
  <2>2. P = IF len + More(unit) > 3 THEN 3 ELSE len + More(unit)
    <3> HIDE DEF P
    <3>1. len \in Nat /\ fractionDigits = len
      BY <1>4
    <3> HIDE DEF len
    <3> QED BY <3>1, PrecisionIs DEF P
  <2>3. P < 3
    OBVIOUS
  <2> DEFINE m == More(unit)
  <2> HIDE DEF P, len, m
  <2>4. m \in 0 .. 3 /\ P = IF len + m > 3 THEN 3 ELSE len + m
    BY <2>1, <2>2 DEF m
  <2>5. m \in 0 .. 3 /\ P = m + len /\ P \in 0 .. 2
    BY <1>4, <2>3, <2>4
  <2> QED BY <2>5 DEF m
<1>6. F = scale * sc /\ Second = scale * all
  <2>1. More(unit) + len <= 3 /\ P \in 0 .. 3
    BY <1>5
  <2>2. F = Scale(3 - (More(unit) + len)) * Scale(len)
    BY <1>4, <2>1, FactorScales
  <2>3. Second = Scale(3 - P) * Scale(P)
    <3> HIDE DEF P
    <3> QED BY <2>1, SecondScales
  <2> QED BY <1>5, <2>2, <2>3
<1>7. f = v * scale
  <2>1. More(unit) + len <= 3
    BY <1>5
  <2>2. f = v * Scale(3 - (More(unit) + len))
    BY <1>4, <2>1, WholeDigits DEF PartOf
  <2> QED BY <1>5, <2>2
<1>8. scale \in Nat \ {0} /\ all \in Nat \ {0} /\ sc \in Nat \ {0}
  <2>1. 3 - P \in Nat /\ P \in Nat
    <3>1. P \in 0 .. 2
      BY <1>5
    <3> HIDE DEF P
    <3> QED BY <3>1
  <2> QED BY <1>4, <2>1, ScaleType
<1>9. v \in 0 .. sc - 1
  BY <1>4, ValueBelowScale
<1>10. nsec \in 0 .. Second - 1 /\ x = (sec * Second) + nsec
  OBVIOUS
<1>11. g # f => unit = "s" /\ len = 2 /\ P = 2 /\ scale > 2
  <2> SUFFICES ASSUME g # f  PROVE unit = "s" /\ len = 2 /\ P = 2 /\ scale > 2
    OBVIOUS
  <2>1. unit \in {"ms", "s"} /\ len > 1
    BY <1>3
  <2>2. More("ms") = 1 /\ More("s") = 0
    BY DEF More
  <2>3. unit = "s" /\ len = 2 /\ P = 2
    <3>1. /\ len \in Nat /\ len > 1 /\ P = More(unit) + len /\ P \in 0 .. 2
          /\ unit \in {"ms", "s"}
      BY <1>4, <1>5, <2>1
    <3> HIDE DEF len, P
    <3> QED BY <2>2, <3>1
  <2>4. 3 - P = 1
    BY <2>3
  <2>5. scale = Step
    BY <2>4, Scales
  <2>6. Step > 2
    BY UnixTimestampAssumption
  <2> QED BY <2>3, <2>5, <2>6
<1>12. unit = "s" => F = Second
  BY DEF Second
<1>13. P = 2 /\ len = 2 => sc = all
  OBVIOUS
<1>14. ASSUME NEW a \in 0 .. all - 1, NEW e \in {-1, 0, 1}, e # 0 => scale > 2,
             nsec = (scale * a) + e
       PROVE  ValueOf(d, Step) = a
  <2>1. ts.nsec \in Nat
    <3> HIDE DEF nsec
    <3>1. nsec \in Nat
      BY <1>10, SecondPositive
    <3> QED BY <3>1 DEF nsec
  <2>2. ts.nsec = Scale(3 - Precision) * a + e
    BY <1>14
  <2> QED BY <1>14, <2>1, <2>2, ShownExact
<1> HIDE DEF digits, len, F, P, scale, all, sc, v, f, T, size, nsec
<1> DEFINE A == (size * sc) + v
           b == Signed(n.neg, A)
           e == x - T
           a == b - (sec * all)
<1>15. A \in Nat /\ scale * A = (size * F) + f
  <2>1. size * sc \in Nat /\ v \in Nat
    BY <1>4, <1>8, <1>9, Product
  <2>2. scale * ((size * sc) + v) = (size * (scale * sc)) + (v * scale)
    BY <1>4, <1>8, <2>1
  <2> QED BY <1>6, <1>7, <2>1, <2>2
<1>16. b \in Int /\ T = scale * b
  <2> HIDE DEF A
  <2>1. scale * A \in Int /\ scale * (-A) = -(scale * A)
    BY <1>8, <1>15, Product
  <2> QED BY <1>2, <1>4, <1>15, <2>1 DEF Signed
<1>17. /\ e \in {-1, 0, 1} /\ (e # 0 => g # f) /\ x = T + e
       /\ e = -1 => ~n.neg
  <2> DEFINE p == size * F
  <2>1. p \in Nat
    <3>1. F \in Nat
      BY <1>6, <1>8, Product
    <3> QED BY <1>4, <3>1, Product
  <2>2. T = Signed(n.neg, p + f) /\ x = Signed(n.neg, p + g)
    BY <1>2, <1>3
  <2>3. f \in Int /\ g \in Int /\ (g = f \/ g = f - 1)
    BY <1>2, <1>3
  <2> HIDE DEF p
  <2> QED BY <1>2, <1>4, <2>1, <2>2, <2>3 DEF Signed
<1>18. a \in Int
  <2> HIDE DEF b
  <2>1. sec * all \in Int
    BY <1>8, Product
  <2> QED BY <1>16, <2>1
<1>19. ASSUME e = -1  PROVE a < all
  <2>1. unit = "s" /\ len = 2 /\ P = 2
    BY <1>11, <1>17, <1>19
  <2>2. F = Second /\ sc = all
    BY <1>12, <1>13, <2>1
  <2>3. ~n.neg
    BY <1>17, <1>19
  <2>4. x = Second * size + g
    <3>1. size * Second = Second * size
      BY <1>4, SecondPositive
    <3> QED BY <1>3, <2>2, <2>3, <3>1 DEF Signed
  <2>5. x \div Second = size
    <3>1. g \in 0 .. Second - 1
      BY <1>3, <2>2
    <3>2. size \in Int
      BY <1>4
    <3> QED BY <1>2, <2>4, <3>1, <3>2, SecondPositive, DivUnique
  <2>6. x \div Second = sec
    <3>1. x = (Second * sec) + nsec
      BY <1>10, SecondPositive
    <3> QED BY <1>2, <1>10, <3>1, SecondPositive, DivUnique
  <2>7. b = (size * all) + v
    BY <2>2, <2>3 DEF Signed
  <2>8. size = sec
    BY <2>5, <2>6
  <2>9. size * all \in Int
    BY <1>4, <1>8, Product
  <2> HIDE DEF b
  <2>10. a = v
    <3> DEFINE w == size * all
    <3>1. b = w + v /\ a = b - w /\ w \in Int /\ v \in Int
      BY <1>9, <2>7, <2>8, <2>9
    <3> HIDE DEF w, a
    <3> QED BY <3>1
  <2>11. v \in 0 .. all - 1
    BY <1>9, <2>2
  <2> HIDE DEF a
  <2> QED BY <1>8, <2>10, <2>11
<1>20. e # 0 => scale > 2
  BY <1>11, <1>17
<1> HIDE DEF A, b, e
<1>21. (scale * b) + e = (sec * (scale * all)) + nsec
  BY <1>6, <1>10, <1>16, <1>17
<1>22. nsec \in 0 .. (scale * all) - 1
  BY <1>6, <1>10
<1>23. a = b - (sec * all)
  OBVIOUS
<1> HIDE DEF a
<1>24. /\ a \in 0 .. all - 1 /\ nsec = (scale * a) + e
       /\ ((scale * all) * sec) + (a * scale) = scale * b
  <2>1. NextTo(scale, all, b, e, sec, nsec, a)
    BY <1>8, <1>16, <1>17, <1>19, <1>20, <1>21, <1>22, <1>23 DEF NextTo
  <2> QED BY <2>1, WholeShown
<1>25. ValueOf(d, Step) = a
  BY <1>14, <1>17, <1>20, <1>24
<1> QED BY <1>6, <1>16, <1>24, <1>25 DEF scale, P, T

-----------------------------------------------------------------------------
(* The text of a time *)

Has(template, kind) == \/ HasField(Fields(FrontOf(template)), kind)
                       \/ HasField(Fields(BackOf(template)), kind)

LEMMA WholeTimeForm ==
    ASSUME NEW template, WholeTime(template)
    PROVE  /\ Has(template, "M")
           /\ SecondsPlaceholder(template) # 0 \/ Has(template, "S")
<1> DEFINE There(kind) == \E part \in {FrontOf(template), BackOf(template)} :
                            \E k \in DOMAIN Fields(part) : Fields(part)[k].is = kind
<1>1. There("M") /\ (SecondsPlaceholder(template) # 0 \/ There("S"))
  BY Zenon DEF WholeTime
<1>2. \A kind : There(kind) => Has(template, kind)
  BY DEF Has, HasField
<1> HIDE DEF There
<1> QED BY <1>1, <1>2

\* What stands for %S has the seconds, and the digits that are shown, if any.
MiddleOf(middle, d) ==
    /\ d \in Seq(Digits)
    /\ IF SecondsPlaceholder(opts.template) = 0 THEN d = <<>> /\ middle = <<>>
                                                ELSE ShownDigits(d)
    /\ Consistent(middle, ts.sec \div Minute, ts.sec % Minute, d)
    /\ SecondsPlaceholder(opts.template) # 0 => HasField(middle, "S")
    /\ HasField(middle, "F") \/ d = <<>>

LEMMA MiddleParts ==
    ASSUME unit \in Units, fractionDigits \in Nat, ts.nsec \in Nat, ts.sec \in Int,
           NEW middle \in Middles
    PROVE  \E d : MiddleOf(middle, d)
<1>1. CASE SecondsPlaceholder(opts.template) = 0
  <2>1. middle = <<>>
    BY <1>1 DEF Middles
  <2>2. <<>> \in Seq(Digits) /\ DOMAIN middle = {}
    BY <2>1, EmptySeq
  <2>3. MiddleOf(middle, <<>>)
    BY <1>1, <2>1, <2>2 DEF MiddleOf, Consistent
  <2> QED BY <2>3
<1>2. CASE SecondsPlaceholder(opts.template) # 0
  <2> DEFINE field == [is |-> "S", value |-> ts.sec % Minute]
             Seconds == <<field>>
  <2>1. PICK f \in FractionalSeconds : middle = Seconds \o f
    BY <1>2, Zenon DEF Middles
  <2>2. PICK d : /\ ShownDigits(d)
                 /\ f = IF Precision = 0 THEN <<>> ELSE <<[is |-> "F", value |-> d]>>
    BY FractionShown
  <2>3. d \in Seq(Digits) /\ Len(d) = Precision
    BY <2>2 DEF ShownDigits
  <2>4. Precision = 0 => d = <<>>
    BY <2>3, EmptySeq
  <2>5. f \in Seq(TimeFields) /\ Seconds \in Seq(TimeFields)
    <3>1. f \in Seq(TimeFields)
      BY FractionalType
    <3>2. field \in TimeFields
      <4> HIDE DEF field
      <4> QED BY SecondsField DEF field
    <3> HIDE DEF field
    <3>3. Seconds \in Seq(TimeFields)
      BY <3>2
    <3> QED BY <3>1, <3>3
  <2>6. field.is = "S" /\ field.value = ts.sec % Minute
    BY Zenon
  <2> HIDE DEF field
  <2>7. DOMAIN Seconds = {1} /\ Seconds[1] = field
    OBVIOUS
  <2> HIDE DEF Seconds
  <2>8. Consistent(Seconds, ts.sec \div Minute, ts.sec % Minute, d) /\ HasField(Seconds, "S")
    BY <2>6, <2>7 DEF Consistent, HasField
  <2>9. /\ Consistent(f, ts.sec \div Minute, ts.sec % Minute, d)
        /\ HasField(f, "F") \/ d = <<>>
    <3>1. CASE Precision = 0
      <4>1. f = <<>> /\ DOMAIN <<>> = {}
        BY <2>2, <3>1
      <4> QED BY <2>4, <3>1, <4>1 DEF Consistent
    <3>2. CASE Precision # 0
      <4> DEFINE digits == [is |-> "F", value |-> d]
      <4>1. f = <<digits>> /\ digits.is = "F" /\ digits.value = d
        BY <2>2, <3>2
      <4> HIDE DEF digits
      <4>2. DOMAIN f = {1} /\ f[1] = digits
        BY <4>1
      <4> QED BY <4>1, <4>2 DEF Consistent, HasField
    <3> QED BY <3>1, <3>2
  <2>10. Consistent(middle, ts.sec \div Minute, ts.sec % Minute, d)
    BY <2>1, <2>5, <2>8, <2>9, FieldsConcat
  <2>11. HasField(middle, "S") /\ (HasField(middle, "F") \/ d = <<>>)
    BY <2>1, <2>5, <2>8, <2>9, FieldsConcat
  <2> QED BY <1>2, <2>2, <2>3, <2>10, <2>11 DEF MiddleOf
<1> QED BY <1>1, <1>2

\* The text of a template for the whole time tells the seconds, and the fraction
\* that is shown.
LEMMA TextTime ==
    ASSUME unit \in Units, fractionDigits \in Nat, ts.nsec \in Nat, ts.sec \in Int,
           opts.template \in Seq(STRING), WholeTime(opts.template),
           NEW middle \in Middles,
           NEW text, text = (Strftime(FrontOf(opts.template), ts.sec) \o middle)
                            \o Strftime(BackOf(opts.template), ts.sec)
    PROVE  \E d : /\ MiddleOf(middle, d) /\ Fraction(text) = d
                  /\ TimeIn(text) = (Second * ts.sec)
                                    + (ValueOf(d, Step) * Scale(3 - Len(d)))
<1> DEFINE sec == ts.sec
           a == Strftime(FrontOf(opts.template), sec)
           b == Strftime(BackOf(opts.template), sec)
           ab == a \o middle
           m == sec \div Minute
           s == sec % Minute
<1>1. PICK d : MiddleOf(middle, d)
  BY MiddleParts
<1>2. a \in Seq(TimeFields) /\ b \in Seq(TimeFields) /\ middle \in Seq(TimeFields)
  BY FrontBackType, StrftimeType, MiddleType
<1>3. /\ Consistent(a, m, s, d) /\ Consistent(b, m, s, d)
      /\ \A kind \in {"M", "S"} : Has(opts.template, kind)
                                    <=> HasField(a, kind) \/ HasField(b, kind)
  <2> DEFINE front == FrontOf(opts.template)
             back == BackOf(opts.template)
  <2>1. front \in Seq(STRING) /\ back \in Seq(STRING) /\ sec \in Int
    BY FrontBackType
  <2> HIDE DEF front, back, sec
  <2>2. /\ Consistent(Strftime(front, sec), m, s, d)
        /\ \A kind \in {"M", "S"} :
             HasField(Strftime(front, sec), kind) <=> HasField(Fields(front), kind)
    BY <2>1, StrftimeFields
  <2>3. /\ Consistent(Strftime(back, sec), m, s, d)
        /\ \A kind \in {"M", "S"} :
             HasField(Strftime(back, sec), kind) <=> HasField(Fields(back), kind)
    BY <2>1, StrftimeFields
  <2> QED BY <2>2, <2>3 DEF Has, front, back
<1>4. Consistent(middle, m, s, d)
  BY <1>1 DEF MiddleOf
<1>5. text = ab \o b
  OBVIOUS
<1> HIDE DEF a, b, m, s
<1>6. ab \in Seq(TimeFields) /\ Consistent(ab, m, s, d)
      /\ \A kind : HasField(ab, kind) <=> HasField(a, kind) \/ HasField(middle, kind)
  <2>1. ab \in Seq(TimeFields)
    BY <1>2, ConcatProperties
  <2> QED BY <1>2, <1>3, <1>4, <2>1, FieldsConcat
<1> HIDE DEF ab
<1>7. Consistent(text, m, s, d)
      /\ \A kind : HasField(text, kind) <=> HasField(ab, kind) \/ HasField(b, kind)
  BY <1>2, <1>3, <1>5, <1>6, FieldsConcat
<1>8. HasField(text, "M")
  BY <1>3, <1>6, <1>7, WholeTimeForm
<1>9. HasField(text, "S")
  BY <1>1, <1>3, <1>6, <1>7, WholeTimeForm DEF MiddleOf
<1>10. (HasField(text, "F") \/ d = <<>>) /\ d \in Seq(Digits)
  BY <1>1, <1>6, <1>7 DEF MiddleOf
<1>11. sec \in Int
  OBVIOUS
<1> HIDE DEF sec
<1>12. /\ Fraction(text) = d
       /\ TimeIn(text) = Second * sec + (ValueOf(d, Step) * Scale(3 - Len(d)))
  <2>1. Consistent(text, sec \div Minute, sec % Minute, d)
    BY <1>7 DEF m, s
  <2> QED BY <1>8, <1>9, <1>10, <1>11, <2>1, TimeOfFields
<1> QED BY <1>1, <1>12 DEF sec

\* A text that tells the time, or the one next to it where it may.
LEMMA TellsForm ==
    ASSUME NEW n, NEW u, NEW text,
           IF SecondsPlaceholder(opts.template) = 0
             THEN \E t \in Near(n, u) : TimeIn(text) = Second * (t \div Second)
           ELSE IF Len(Fraction(text)) = 3 THEN TimeIn(text) \in Near(n, u)
           ELSE TimeIn(text) = ManualTime(n, u)
    PROVE  Tells(text, ManualTime(n, u), n)
BY Zenon DEF Tells, Near

\* With all digits in use all ns are shown.
LEMMA FullShown ==
    ASSUME unit \in Units, fractionDigits \in Nat, ts.nsec \in 0 .. Second - 1,
           Precision = 3, NEW d, ShownDigits(d)
    PROVE  ValueOf(d, Step) = ts.nsec
<1> DEFINE nsec == ts.nsec
<1>1. Scale(3 - Precision) = 1 /\ Scale(Precision) = Second
  <2>1. 3 - Precision = 0
    OBVIOUS
  <2> QED BY <2>1, Scales
<1>2. nsec \in 0 .. Second - 1
  OBVIOUS
<1> HIDE DEF nsec
<1>3. nsec \in Nat /\ nsec = 1 * nsec + 0
  BY <1>2, SecondPositive
<1>4. ts.nsec \in Nat /\ ts.nsec = Scale(3 - Precision) * nsec + 0
      /\ nsec \in 0 .. Scale(Precision) - 1
  BY <1>1, <1>2, <1>3 DEF nsec
<1> DEFINE e == 0
<1>5. e \in {-1, 0, 1} /\ (e # 0 => Scale(3 - Precision) > 2)
      /\ ts.nsec = Scale(3 - Precision) * nsec + e
  BY <1>4
<1> HIDE DEF e
<1>6. ValueOf(d, Step) = nsec
  BY <1>4, <1>5, ShownExact
<1> QED BY <1>6 DEF nsec

\* What unixts2time prints of a number tells its time.
LEMMA TextTells ==
    ASSUME unit \in Units, fractionDigits \in Nat, ts.nsec \in 0 .. Second - 1,
           ts.sec \in Int, opts.template \in Seq(STRING), WholeTime(opts.template),
           NEW n \in AnyNumbers, fractionDigits = Len(n.tail.digits),
           NEW x \in ExactTimes(n, unit), x = (ts.sec * Second) + ts.nsec,
           NEW middle \in Middles,
           NEW text, text = (Strftime(FrontOf(opts.template), ts.sec) \o middle)
                            \o Strftime(BackOf(opts.template), ts.sec)
    PROVE  Tells(text, ManualTime(n, unit), n)
<1> DEFINE sec == ts.sec
           nsec == ts.nsec
<1>1. nsec \in Nat /\ nsec \in 0 .. Second - 1 /\ sec \in Int /\ x = (sec * Second) + nsec
  <2>1. nsec \in 0 .. Second - 1 /\ sec \in Int /\ x = (sec * Second) + nsec
    OBVIOUS
  <2> HIDE DEF nsec
  <2> QED BY <2>1, SecondPositive
<1>2. PICK d : /\ MiddleOf(middle, d) /\ Fraction(text) = d
               /\ TimeIn(text) = (Second * sec) + (ValueOf(d, Step) * Scale(3 - Len(d)))
  <2>1. ts.nsec \in Nat
    BY <1>1
  <2> QED BY <2>1, TextTime
<1>3. x \in Int /\ x \in Near(n, unit)
  BY ExactNear
<1>4. (Second * sec) + nsec = x /\ Second * sec \in Int
  <2> HIDE DEF sec, nsec
  <2>1. Second * sec = sec * Second /\ Second * sec \in Int
    BY <1>1, SecondPositive
  <2> QED BY <1>1, <2>1
<1>5. CASE SecondsPlaceholder(opts.template) = 0
  <2>1. d = <<>>
    BY <1>2, <1>5 DEF MiddleOf
  <2>2. ValueOf(d, Step) = 0
    BY <2>1, ValueEmpty, UnixTimestampAssumption
  <2>3. Scale(3 - Len(d)) \in Nat
    <3>1. Len(d) = 0 /\ 3 - 0 = 3
      BY <2>1
    <3>2. Scale(3) \in Nat
      BY Scales, SecondPositive
    <3> QED BY <3>1, <3>2
  <2>4. TimeIn(text) = Second * sec
    <3> HIDE DEF sec
    <3> QED BY <1>2, <1>4, <2>2, <2>3
  <2>5. x \div Second = sec
    <3> HIDE DEF sec, nsec
    <3>1. x = Second * sec + nsec
      BY <1>4
    <3> QED BY <1>1, <1>3, <3>1, SecondPositive, DivUnique
  <2>6. \E t \in Near(n, unit) : TimeIn(text) = Second * (t \div Second)
    BY <1>3, <2>4, <2>5
  <2> QED BY <1>5, <2>6, TellsForm
<1>6. CASE SecondsPlaceholder(opts.template) # 0
  <2>1. ShownDigits(d) /\ Len(d) = Precision
    BY <1>2, <1>6 DEF MiddleOf, ShownDigits
  <2>2. CASE Precision = 3
    <3>1. ValueOf(d, Step) = nsec
      BY <2>1, <2>2, FullShown
    <3>2. Scale(3 - Len(d)) = 1
      <4>1. 3 - Len(d) = 0
        BY <2>1, <2>2
      <4> QED BY <4>1, Scales
    <3>3. TimeIn(text) = x
      <4> HIDE DEF sec, nsec
      <4>1. nsec * 1 = nsec
        BY <1>1
      <4> QED BY <1>2, <1>4, <3>1, <3>2, <4>1
    <3>4. TimeIn(text) \in Near(n, unit) /\ Len(Fraction(text)) = 3
      BY <1>2, <1>3, <2>1, <2>2, <3>3
    <3> QED BY <1>6, <3>4, TellsForm
  <2>3. CASE Precision # 3
    <3>1. Precision < 3
      BY <2>3, PrecisionType
    <3>2. (Second * sec) + (ValueOf(d, Step) * Scale(3 - Precision)) = ManualTime(n, unit)
      BY <2>1, <3>1, ShortShown
    <3>3. TimeIn(text) = ManualTime(n, unit) /\ Len(Fraction(text)) # 3
      BY <1>2, <2>1, <2>3, <3>2
    <3> QED BY <1>6, <3>3, TellsForm
  <2> QED BY <2>2, <2>3
<1> QED BY <1>5, <1>6

\* A fraction that is shown is less than a second.
LEMMA ShownSmall ==
    ASSUME NEW d \in Seq(Digits), Len(d) \in 0 .. 3
    PROVE  ValueOf(d, Step) * Scale(3 - Len(d)) \in 0 .. Second - 1
<1> DEFINE v == ValueOf(d, Step)
           scale == Scale(3 - Len(d))
           all == Scale(Len(d))
           w == all - 1
<1>1. v \in 0 .. all - 1
  BY ValueBelowScale
<1>2. Second = scale * all
  BY SecondScales
<1>3. scale \in Nat \ {0} /\ all \in Nat \ {0}
  <2> DEFINE len == Len(d)
  <2>1. len \in 0 .. 3
    OBVIOUS
  <2> HIDE DEF len
  <2>2. len \in Nat /\ 3 - len \in Nat
    BY <2>1
  <2> QED BY <2>2, ScaleType DEF len
<1> HIDE DEF v, scale, all
<1>4. w * scale = (scale * all) - scale /\ v \in Nat /\ v \in Int /\ w \in Int /\ v <= w
  BY <1>1, <1>3
<1> HIDE DEF w
<1>5. v * scale <= w * scale /\ v * scale \in Nat
  <2>1. scale \in Nat
    BY <1>3
  <2> QED BY <1>4, <2>1, Monotone
<1>6. scale * all \in Nat
  BY <1>3, Product
<1> DEFINE y == v * scale
           z == scale * all
<1>7. y <= z - scale /\ y \in Nat /\ z \in Nat
  BY <1>4, <1>5, <1>6
<1> HIDE DEF y, z
<1>8. y \in 0 .. z - 1
  BY <1>3, <1>7
<1> QED BY <1>2, <1>8 DEF y, z, v, scale

\* What unixts2time prints without an argument tells the current time.
LEMMA TextTellsClock ==
    ASSUME unit \in Units, fractionDigits = 0, ts.nsec \in 0 .. Second - 1,
           ts.sec \in Int, opts.template \in Seq(STRING), WholeTime(opts.template),
           unit = UnitAsked, clock \in Nat,
           build.unixts2time \/ Fits(clock) => clock = (ts.sec * Second) + ts.nsec,
           NEW middle \in Middles,
           NEW text, text = (Strftime(FrontOf(opts.template), ts.sec) \o middle)
                            \o Strftime(BackOf(opts.template), ts.sec)
    PROVE  TellsClock(text)
<1> DEFINE sec == ts.sec
           nsec == ts.nsec
           time == TimeIn(text)
<1> SUFFICES ASSUME build.unixts2time \/ Fits(clock)
             PROVE  /\ time \div Second = clock \div Second
                    /\ opts.unit \in {"auto", "ns"} /\ SecondsPlaceholder(opts.template) # 0
                         => time = clock
  BY DEF TellsClock
<1>1. nsec \in Nat /\ nsec \in 0 .. Second - 1 /\ sec \in Int
      /\ clock = (sec * Second) + nsec
  <2>1. nsec \in 0 .. Second - 1 /\ sec \in Int /\ clock = (sec * Second) + nsec
    OBVIOUS
  <2> HIDE DEF nsec
  <2> QED BY <2>1, SecondPositive
<1>2. PICK d : /\ MiddleOf(middle, d)
               /\ time = (Second * sec) + (ValueOf(d, Step) * Scale(3 - Len(d)))
  <2>1. ts.nsec \in Nat /\ fractionDigits \in Nat
    BY <1>1
  <2> QED BY <2>1, TextTime
<1>3. (Second * sec) + nsec = clock /\ Second * sec \in Int
  <2> HIDE DEF sec, nsec
  <2>1. Second * sec = sec * Second /\ Second * sec \in Int
    BY <1>1, SecondPositive
  <2> QED BY <1>1, <2>1
<1>4. d \in Seq(Digits) /\ Len(d) \in 0 .. 3
  <2>1. CASE SecondsPlaceholder(opts.template) = 0
    <3>1. d \in Seq(Digits) /\ d = <<>>
      BY <1>2, <2>1 DEF MiddleOf
    <3> QED BY <3>1
  <2>2. CASE SecondsPlaceholder(opts.template) # 0
    <3>1. d \in Seq(Digits) /\ Len(d) = Precision
      BY <1>2, <2>2 DEF MiddleOf, ShownDigits
    <3>2. fractionDigits \in Nat
      OBVIOUS
    <3> QED BY <3>1, <3>2, PrecisionType
  <2> QED BY <2>1, <2>2
<1>5. ValueOf(d, Step) * Scale(3 - Len(d)) \in 0 .. Second - 1
  BY <1>4, ShownSmall
<1>6. time \div Second = clock \div Second
  <2> DEFINE r == ValueOf(d, Step) * Scale(3 - Len(d))
  <2>1. time = Second * sec + r /\ r \in 0 .. Second - 1
    BY <1>2, <1>5
  <2> HIDE DEF r, time, sec, nsec
  <2>2. time \in Int
    <3>1. r \in Int
      BY <2>1, SecondPositive
    <3> QED BY <1>3, <2>1, <3>1
  <2>3. time \div Second = sec
    BY <1>1, <2>1, <2>2, SecondPositive, DivUnique
  <2>4. clock = Second * sec + nsec /\ clock \in Int
    BY <1>3
  <2>5. clock \div Second = sec
    BY <1>1, <2>4, SecondPositive, DivUnique
  <2> QED BY <2>3, <2>5
<1>7. ASSUME opts.unit \in {"auto", "ns"}, SecondsPlaceholder(opts.template) # 0
      PROVE  time = clock
  <2>1. ShownDigits(d) /\ Len(d) = Precision
    BY <1>2, <1>7 DEF MiddleOf, ShownDigits
  <2>2. Precision = 3
    <3>1. unit = "ns"
      BY <1>7 DEF UnitAsked
    <3> DEFINE len == 0
    <3>2. len \in Nat /\ fractionDigits = len /\ len + More(unit) = 3
      BY <3>1 DEF More
    <3> HIDE DEF len
    <3> QED BY <3>2, PrecisionIs
  <2>3. ValueOf(d, Step) = nsec
    <3>1. fractionDigits \in Nat
      OBVIOUS
    <3> QED BY <2>1, <2>2, <3>1, FullShown
  <2>4. Scale(3 - Len(d)) = 1
    <3>1. 3 - Len(d) = 0
      BY <2>1, <2>2
    <3> QED BY <3>1, Scales
  <2> HIDE DEF sec, nsec, time
  <2>5. nsec * 1 = nsec
    BY <1>1
  <2> QED BY <1>2, <1>3, <2>3, <2>4, <2>5
<1> QED BY <1>6, <1>7

-----------------------------------------------------------------------------
(* Regular numbers *)

\* A number with nothing but a fraction behind its digits is taken as a whole.
LEMMA TakenAll ==
    ASSUME NEW n \in AnyNumbers, Rest(n).kind \in {"end", "point"}
    PROVE  /\ IntegerDigits(n) = n.digits
           /\ Rest(n) = [kind |-> n.tail.kind, value |-> ValueOf(n.tail.digits, Step),
                         places |-> Len(n.tail.digits)]
           /\ n.tail.kind = "point" => n.tail.digits # <<>>
<1> DEFINE taken == IntegerDigits(n)
           s == n.digits
           len == Len(s)
           k == Len(taken)
           left == SubSeq(s, k + 1, len)
<1>1. s \in Seq(Nat) /\ len \in Nat /\ k \in 0 .. len /\ taken = SubSeq(s, 1, k)
  BY NumberParts, TakenType, LenProperties
<1> DEFINE fraction == ValueOf(n.tail.digits, Step)
           places == IF n.tail.kind = "number" THEN 0 ELSE Len(n.tail.digits)
           All == left = <<>> /\ n.tail # [kind |-> "point", digits |-> <<>>]
<1>2. left = <<>> /\ n.tail # [kind |-> "point", digits |-> <<>>]
      /\ Rest(n) = [kind |-> n.tail.kind, value |-> fraction, places |-> Len(n.tail.digits)]
  <2>1. \/ All /\ Rest(n) = [kind |-> n.tail.kind, value |-> fraction, places |-> places]
        \/ Rest(n).kind = "number"
        \/ Rest(n).kind = "junk"
    <3> DEFINE number == ValueOf(left, 10) * Scale(places) + fraction
    <3>1. \/ All /\ Rest(n) = [kind |-> n.tail.kind, value |-> fraction, places |-> places]
          \/ Rest(n) = [kind |-> "number", places |-> places, value |-> number]
          \/ Rest(n) = [kind |-> "junk", value |-> 0, places |-> 0]
      BY Zenon DEF Rest
    <3> HIDE DEF All, fraction, places, number
    <3> QED BY <3>1
  <2> HIDE DEF left, fraction
  <2>2. All /\ Rest(n) = [kind |-> n.tail.kind, value |-> fraction, places |-> places]
    BY <2>1
  <2>3. n.tail.kind \in {"end", "point"}
    BY <2>2
  <2>4. places = Len(n.tail.digits)
    BY <2>3
  <2> QED BY <2>2, <2>4
<1>3. k = len
  <2> SUFFICES ASSUME k + 1 <= len  PROVE FALSE
    <3> HIDE DEF k, len
    <3> QED BY <1>1
  <2> DEFINE at == k + 1
  <2>1. at \in Int /\ at >= 1 /\ at <= len /\ len \in Int
    <3> HIDE DEF k, len
    <3> QED BY <1>1
  <2>2. \A i \in at .. len : s[i] \in Nat
    <3>1. \A i \in 1 .. len : s[i] \in Nat
      BY <1>1, ElementOfSeq
    <3> HIDE DEF at, len, s
    <3> QED BY <2>1, <3>1
  <2> HIDE DEF at, len, s, k
  <2>3. Len(SubSeq(s, at, len)) = (len - at) + 1
    <3>1. Len(SubSeq(s, at, len)) = IF at <= len THEN (len - at) + 1 ELSE 0
      BY <2>1, <2>2, SubSeqProperties
    <3> QED BY <2>1, <3>1
  <2>4. Len(SubSeq(s, at, len)) = 0
    <3>1. SubSeq(s, at, len) = <<>>
      BY <1>2 DEF at
    <3> QED BY <3>1
  <2> QED BY <2>1, <2>3, <2>4
<1>4. taken = s
  <2>1. \A i \in 1 .. len : s[i] \in Nat
    BY <1>1, ElementOfSeq
  <2>2. taken = SubSeq(s, 1, len)
    BY <1>1, <1>3
  <2>3. Len(s) = len /\ DOMAIN s = 1 .. len /\ s \in [1 .. len -> Nat]
    BY <1>1, LenProperties
  <2> HIDE DEF taken, s, len
  <2>4. SubSeq(s, 1, len) = [i \in 1 .. len |-> s[i]]
    <3>1. SubSeq(s, 1, len) = [i \in 1 .. ((1 + len) - 1) |-> s[(i + 1) - 1]]
      BY <1>1
    <3> QED BY <1>1, <3>1
  <2>5. s = [i \in 1 .. len |-> s[i]]
    BY <2>3
  <2> QED BY <2>2, <2>4, <2>5
<1>5. n.tail.kind = "point" => n.tail.digits # <<>>
  <2> SUFFICES ASSUME n.tail.kind = "point", n.tail.digits = <<>>  PROVE FALSE
    OBVIOUS
  <2> DEFINE tail == n.tail
  <2>1. tail \in [kind : {"point"}, digits : Seq(Digits)]
    BY NumberParts DEF Tails
  <2>2. tail = [kind |-> "point", digits |-> <<>>]
    <3> HIDE DEF tail
    <3>1. tail.kind = "point" /\ tail.digits = <<>>
      BY DEF tail
    <3> QED BY <2>1, <3>1
  <2> QED BY <1>2, <2>2
<1> QED BY <1>2, <1>4, <1>5

\* strtoll() returns the number, if it fits a long long.
LEMMA StrtollRegular ==
    ASSUME NEW n \in AnyNumbers, Rest(n).kind \in {"end", "point"}, Fits(Signed(n.neg, Size(n)))
    PROVE  Strtoll(n) = Signed(n.neg, Size(n))
BY TakenAll DEF Strtoll, Size

\* What auto-detection takes for the unit is what the manual page says.
LEMMA DetectedManual ==
    ASSUME NEW n \in AnyNumbers
    PROVE  DetectedUnit(Signed(n.neg, Size(n))) = ManualUnit(n)
<1> DEFINE size == Size(n)
           x == Signed(n.neg, size)
           a == AutoLimit
           b == Step * AutoLimit
           c == Step * Step * AutoLimit
           Is(u) == CASE u = "s"  -> size \in 0 .. a - 1
                      [] u = "ms" -> size \in a .. b - 1
                      [] u = "us" -> size \in b .. c - 1
                      [] u = "ns" -> size >= c
           Below(limit) == -limit < x /\ x < limit
           detected == DetectedUnit(x)
<1>1. n.neg \in BOOLEAN /\ size \in Nat
  BY NumberParts
<1>2. a \in Nat \ {0} /\ b \in Nat \ {0} /\ c \in Nat \ {0} /\ a <= b /\ b <= c
  <2>1. Step \in Nat \ {0} /\ Step > 2 /\ a \in Nat \ {0}
    BY UnixTimestampAssumption
  <2>2. b \in Nat \ {0} /\ a <= b
    <3>1. b = a + ((Step - 1) * a) /\ (Step - 1) * a \in Nat
      <4> DEFINE k == Step - 1
      <4>1. k \in Nat \ {0} /\ Step * a = (k * a) + a
        BY <2>1
      <4> HIDE DEF k
      <4>2. k * a \in Nat
        BY <2>1, <4>1, Product
      <4> QED BY <2>1, <4>1, <4>2 DEF k
    <3>2. b \in Nat \ {0}
      BY <2>1, PositiveProduct
    <3> DEFINE y == (Step - 1) * a
    <3>3. b = a + y /\ y \in Nat
      BY <3>1
    <3> HIDE DEF y, b
    <3> QED BY <2>1, <3>2, <3>3
  <2>3. c = Step * b
    BY <2>1
  <2> HIDE DEF a, b, c
  <2>4. c \in Nat \ {0}
    BY <2>1, <2>2, <2>3, PositiveProduct
  <2>5. b <= c
    <3> DEFINE k == Step - 1
    <3>1. k \in Nat \ {0} /\ Step * b = (k * b) + b
      BY <2>1, <2>2
    <3> HIDE DEF k
    <3>2. k * b \in Nat
      BY <2>2, <3>1, Product
    <3> DEFINE y == k * b
    <3>3. c = y + b /\ y \in Nat
      BY <2>3, <3>1, <3>2
    <3> HIDE DEF y
    <3> QED BY <2>2, <3>3
  <2> QED BY <2>1, <2>2, <2>4, <2>5
<1>3. ManualUnit(n) = CHOOSE u \in Units : Is(u)
  BY Zenon DEF ManualUnit, Size
<1>4. detected = CASE Below(a) -> "s"
                   [] ~Below(a) /\ Below(b) -> "ms"
                   [] ~Below(b) /\ Below(c) -> "us"
                   [] OTHER -> "ns"
  BY Zenon DEF DetectedUnit
<1>5. /\ Is("s") <=> size \in 0 .. a - 1
      /\ Is("ms") <=> size \in a .. b - 1
      /\ Is("us") <=> size \in b .. c - 1
      /\ Is("ns") <=> size >= c
  OBVIOUS
<1>6. \A limit \in Nat \ {0} : Below(limit) <=> size < limit
  <2> HIDE DEF size
  <2> QED BY <1>1 DEF Signed
<1> HIDE DEF size, x, a, b, c, Is, Below, detected
<1>7. /\ Below(a) <=> size < a
      /\ Below(b) <=> size < b
      /\ Below(c) <=> size < c
  BY <1>2, <1>6
<1>8. detected \in Units /\ Is(detected) /\ \A u \in Units : Is(u) => u = detected
  <2>1. \A u \in Units : u = "s" \/ u = "ms" \/ u = "us" \/ u = "ns"
    BY DEF Units
  <2>2. CASE size < a
    <3>0. Below(a) /\ Below(b)
      BY <1>1, <1>2, <1>7, <2>2
    <3>1. detected = "s"
      BY <1>4, <3>0
    <3>2. Is("s") /\ ~Is("ms") /\ ~Is("us") /\ ~Is("ns")
      BY <1>1, <1>2, <1>5, <2>2
    <3> QED BY <2>1, <3>1, <3>2 DEF Units
  <2>3. CASE ~(size < a) /\ size < b
    <3>1. detected = "ms"
      BY <1>4, <1>7, <2>3
    <3>2. Is("ms") /\ ~Is("s") /\ ~Is("us") /\ ~Is("ns")
      BY <1>1, <1>2, <1>5, <2>3
    <3> QED BY <2>1, <3>1, <3>2 DEF Units
  <2>4. CASE ~(size < a) /\ ~(size < b) /\ size < c
    <3>1. detected = "us"
      BY <1>4, <1>7, <2>4
    <3>2. Is("us") /\ ~Is("s") /\ ~Is("ms") /\ ~Is("ns")
      BY <1>1, <1>2, <1>5, <2>4
    <3> QED BY <2>1, <3>1, <3>2 DEF Units
  <2>5. CASE ~(size < a) /\ ~(size < b) /\ ~(size < c)
    <3>1. detected = "ns"
      BY <1>4, <1>7, <2>5
    <3>2. Is("ns") /\ ~Is("s") /\ ~Is("ms") /\ ~Is("us")
      BY <1>1, <1>2, <1>5, <2>5
    <3> QED BY <2>1, <3>1, <3>2 DEF Units
  <2> QED BY <2>2, <2>3, <2>4, <2>5
<1> DEFINE chosen == CHOOSE u \in Units : Is(u)
<1>9. chosen \in Units /\ Is(chosen)
  BY <1>8
<1> HIDE DEF chosen
<1>10. chosen = detected
  BY <1>8, <1>9
<1> QED BY <1>3, <1>10 DEF chosen, detected, x, size

\* A number nearer to 0 fits if another one of the same sign does.
LEMMA FitsSmaller ==
    ASSUME NEW neg \in BOOLEAN, NEW a \in Nat, NEW b \in Nat, a <= b, Fits(Signed(neg, b))
    PROVE  Fits(Signed(neg, a))
BY UnixTimestampAssumption DEF Fits, Signed

\* Without its fraction the time of a number is the number again.
LEMMA NumberShown ==
    ASSUME NEW neg \in BOOLEAN, NEW size \in Nat, NEW factor \in Nat \ {0},
           NEW g \in 0 .. factor - 1, NEW x, x = Signed(neg, size * factor + g)
    PROVE  Quotient(x, factor) = Signed(neg, size)
<1> DEFINE y == size * factor + g
<1>1. y \in Nat /\ y = factor * size + g /\ size * factor \in Nat
  <2>1. size * factor \in Nat /\ size * factor = factor * size /\ g \in Nat
    BY Product
  <2> DEFINE z == size * factor
  <2>2. z \in Nat /\ y = z + g /\ z = factor * size
    BY <2>1
  <2> HIDE DEF y, z
  <2> QED BY <2>1, <2>2 DEF z
<1>2. y \div factor = size
  <2> HIDE DEF y
  <2>1. size \in Int /\ y \in Int
    BY <1>1
  <2> QED BY <1>1, <2>1, DivUnique
<1>3. x = Signed(neg, y)
  OBVIOUS
<1> HIDE DEF y
<1>4. CASE ~neg
  BY <1>1, <1>2, <1>3, <1>4 DEF Quotient, Signed
<1>5. CASE neg /\ y # 0
  <2>1. x = -y /\ ~(x >= 0) /\ -x = y
    BY <1>1, <1>3, <1>5 DEF Signed
  <2> QED BY <1>2, <1>5, <2>1 DEF Quotient, Signed
<1>6. CASE neg /\ y = 0
  <2>1. x = 0 /\ size = 0
    <3>1. x = 0
      BY <1>3, <1>6 DEF Signed
    <3>2. 0 \div factor = 0
      <4>1. 0 = factor * 0 + 0 /\ 0 \in 0 .. factor - 1 /\ 0 \in Int
        OBVIOUS
      <4> QED BY <4>1, DivUnique
    <3> QED BY <1>2, <1>6, <3>1, <3>2
  <2>2. 0 \div factor = 0
    BY <1>2, <1>6, <2>1
  <2> QED BY <1>6, <2>1, <2>2 DEF Quotient, Signed
<1> QED BY <1>4, <1>5, <1>6

-----------------------------------------------------------------------------
(* The texts of unixts2time *)

\* A number is read as an integer in its unit.
HasInteger(n) ==
    /\ unit = UnitOf(n) /\ fractionDigits = 0
    /\ unixTS = Signed(n.neg, Size(n) * Factor[UnitOf(n)])

\* It is read with its fraction.
HasTime(n) ==
    /\ unit = UnitOf(n) /\ fractionDigits = Len(n.tail.digits)
    /\ unixTS \in ExactTimes(n, UnitOf(n))

\* It is the current time.
HasClock == unit = UnitAsked /\ (build.unixts2time \/ Fits(clock) => unixTS = clock)

\* What is known of a timestamp is that of its argument alone, whatever has come before.
StateInv ==
    program = "unixts2time" =>
      /\ args = <<>> => fractionDigits = 0 /\ (pc \in {"convert", "print"} => HasClock)
      /\ args # <<>> /\ Regular(args[arg], UnitOf(args[arg])) =>
           /\ pc = "rest" => HasInteger(args[arg])
           /\ pc \in {"convert", "print"} => HasTime(args[arg])
      /\ pc = "print" => (ts.sec * Second) + ts.nsec = unixTS

\* The line of the argument k.
TellsInput(line, k) ==
    IF args = <<>> THEN WholeTime(opts.template) => TellsClock(line.text)
    ELSE Regular(args[k], UnitOf(args[k])) =>
           /\ WholeTime(opts.template) =>
                Tells(line.text, ManualTime(args[k], UnitOf(args[k])), args[k])
           /\ line.unit = UnitOf(args[k])
           /\ opts.human => line.number = <<Signed(args[k].neg, Size(args[k]))>>

LEMMA TimeIsInputForm ==
    TimeIsInput <=> (program = "unixts2time" =>
                       \A k \in DOMAIN out : TellsInput(out[k], k))
BY Zenon DEF TimeIsInput, TellsInput, Size

TInv == IInv /\ StateInv /\ TimeIsInput

\* The time of a regular number fits wherever it is kept.
LEMMA RegularParts ==
    ASSUME IInv, NEW n \in AnyNumbers, NEW u \in Units, Regular(n, u)
    PROVE  /\ Rest(n).kind \in {"end", "point"} /\ Fits(Signed(n.neg, Size(n)))
           /\ n.neg /\ n.tail.digits # <<>> => Size(n) # 0
           /\ n.tail.kind = "point" => ValueOf(n.tail.digits, Step) < Scale(DoubleDigits)
           /\ build.unixts2time \in BOOLEAN
           /\ \A g \in 0 .. PartOf(n.tail.digits, u) :
                /\ Signed(n.neg, Size(n) * Factor[u] + g) \in Int
                /\ \/ build.unixts2time
                   \/ Fits(Signed(n.neg, Size(n) * Factor[u] + g))
           /\ PartOf(n.tail.digits, u) \in 0 .. Factor[u] - 1
<1> DEFINE F == Factor[u]
           f == PartOf(n.tail.digits, u)
           T == ManualTime(n, u)
           p == Size(n) * F
<1>1. /\ Rest(n).kind \in {"end", "point"} /\ Fits(Signed(n.neg, Size(n)))
      /\ n.neg /\ n.tail.digits # <<>> => Size(n) # 0
      /\ n.tail.kind = "point" => ValueOf(n.tail.digits, Step) < Scale(DoubleDigits)
      /\ build.unixts2time \/ Fits(T)
  BY Zenon DEF Regular, Size
<1>2. build.unixts2time \in BOOLEAN
  BY ConfigurationType DEF IInv
<1>3. n.neg \in BOOLEAN /\ n.tail.digits \in Seq(Digits) /\ Size(n) \in Nat
  BY NumberParts
<1>4. F \in Nat \ {0}
  BY FactorType
<1>5. f \in 0 .. F - 1 /\ T = Signed(n.neg, p + f)
  <2> DEFINE g == (ValueOf(n.tail.digits, Step) * Factor[u]) \div Scale(Len(n.tail.digits))
  <2>1. g \in NearFractions(n.tail.digits, u)
    BY Zenon DEF NearFractions
  <2>2. f = g
    BY DEF PartOf
  <2> HIDE DEF g
  <2>3. f \in NearFractions(n.tail.digits, u)
    BY <2>1, <2>2
  <2>4. f \in 0 .. F - 1
    <3> DEFINE digits == n.tail.digits
    <3>1. digits \in Seq(Digits) /\ f \in NearFractions(digits, u)
          /\ f = (ValueOf(digits, Step) * Factor[u]) \div Scale(Len(digits))
      BY <1>3, <2>3 DEF PartOf
    <3> HIDE DEF digits, f
    <3> QED BY <3>1, NearRange
  <2>5. T = Signed(n.neg, p + f)
    BY Zenon DEF ManualTime, PartOf, Size
  <2> QED BY <2>4, <2>5
<1>6. p \in Nat
  BY <1>3, <1>4, Product
<1> HIDE DEF F, f, T, p
<1>7. ASSUME NEW g \in 0 .. f
      PROVE  /\ Signed(n.neg, p + g) \in Int
             /\ build.unixts2time \/ Fits(Signed(n.neg, p + g))
  <2>1. p + g \in Nat /\ p + f \in Nat /\ p + g <= p + f
    BY <1>4, <1>5, <1>6
  <2>2. Signed(n.neg, p + g) \in Int
    BY <1>3, <2>1 DEF Signed
  <2> DEFINE a == p + g
             b == p + f
  <2>3. Fits(Signed(n.neg, b)) => Fits(Signed(n.neg, a))
    <3>1. a \in Nat /\ b \in Nat /\ a <= b
      BY <2>1
    <3> HIDE DEF a, b
    <3> QED BY <1>3, <3>1, FitsSmaller
  <2> QED BY <1>1, <1>5, <2>2, <2>3
<1> QED BY <1>1, <1>2, <1>5, <1>7 DEF f, F, p

\* The fractions next to the one of the digits are not larger.
LEMMA NearSmaller ==
    ASSUME NEW n \in AnyNumbers, NEW u \in Units, NEW g \in NearFractions(n.tail.digits, u)
    PROVE  g \in 0 .. PartOf(n.tail.digits, u)
<1> DEFINE f == PartOf(n.tail.digits, u)
           digits == n.tail.digits
           F == Factor[u]
<1>1. digits \in Seq(Digits) /\ f = (ValueOf(digits, Step) * Factor[u]) \div Scale(Len(digits))
  BY NumberParts DEF PartOf
<1>2. /\ f \in 0 .. F - 1 /\ g \in 0 .. F - 1
      /\ g = f \/ g = f - 1
  <2> HIDE DEF f, digits
  <2>1. g \in NearFractions(digits, u)
    BY DEF digits
  <2> QED BY <1>1, <2>1, NearRange
<1>3. F \in Nat \ {0}
  BY FactorType
<1> HIDE DEF f, F
<1>4. g \in 0 .. f
  BY <1>2, <1>3
<1> QED BY <1>4 DEF f

\* ReadInteger reads a regular number.
LEMMA ReadIntegerTime ==
    ASSUME IInv, ReadInteger, Regular(args[arg], UnitOf(args[arg]))
    PROVE  HasInteger(args[arg])'
<1>n. PICK n : n = args[arg]
  OBVIOUS
<1>u. PICK u : u = UnitOf(n)
  OBVIOUS
<1> DEFINE x == Strtoll(n)
<1>1. /\ program = "unixts2time" /\ pc = "argument" /\ args # <<>> /\ fractionDigits' = 0
      /\ unit' = (IF opts.unit = "auto" THEN DetectedUnit(x) ELSE opts.unit)
      /\ unixTS' = Stored(x * Factor[unit'], build.unixts2time)
      /\ args' = args /\ arg' = arg /\ opts' = opts
  BY <1>n DEF ReadInteger, AtArgument, configuration
<1>2. n \in AnyNumbers
  BY <1>n, <1>1, ArgumentType
<1>3. Regular(n, u)
  BY <1>n, <1>u
<1>4. Rest(n).kind \in {"end", "point"} /\ Fits(Signed(n.neg, Size(n)))
  BY Zenon, <1>3 DEF Regular, Size
<1>5. x = Signed(n.neg, Size(n))
  BY <1>2, <1>4, StrtollRegular
<1>6. unit' = u /\ u \in Units
  <2>1. opts.unit \in Units \cup {"auto"}
    BY ConfigurationType DEF IInv
  <2>2. DetectedUnit(x) = ManualUnit(n)
    BY <1>2, <1>5, DetectedManual
  <2>3. DetectedUnit(x) \in Units
    BY DetectedUnitType
  <2> QED BY <1>u, <1>1, <2>1, <2>2, <2>3 DEF UnitOf
<1> DEFINE F == Factor[u]
           p == Size(n) * F
<1>7. n.neg \in BOOLEAN /\ Size(n) \in Nat /\ F \in Nat \ {0}
  BY <1>2, <1>6, NumberParts, FactorType
<1>8. p \in Nat /\ x * F = Signed(n.neg, p)
  <2> DEFINE s == Size(n)
  <2> HIDE DEF F
  <2>1. s * F \in Nat /\ (-s) * F = -(s * F)
    BY <1>7
  <2> QED BY <1>5, <2>1 DEF Signed
<1>9. Signed(n.neg, p) \in Int /\ (build.unixts2time \/ Fits(Signed(n.neg, p)))
      /\ build.unixts2time \in BOOLEAN
  <2>1. /\ build.unixts2time \in BOOLEAN
        /\ PartOf(n.tail.digits, u) \in 0 .. F - 1
        /\ \A g \in 0 .. PartOf(n.tail.digits, u) :
             /\ Signed(n.neg, Size(n) * Factor[u] + g) \in Int
             /\ \/ build.unixts2time
                \/ Fits(Signed(n.neg, Size(n) * Factor[u] + g))
    BY <1>2, <1>3, <1>6, RegularParts
  <2> DEFINE f == PartOf(n.tail.digits, u)
  <2> HIDE DEF F, p
  <2>2. 0 \in 0 .. f
    <3> HIDE DEF f
    <3>1. f \in 0 .. F - 1
      BY <2>1 DEF f
    <3> QED BY <1>7, <3>1
  <2>3. p + 0 = p
    BY <1>8
  <2>4. /\ Signed(n.neg, p + 0) \in Int
        /\ build.unixts2time \/ Fits(Signed(n.neg, p + 0))
    BY <2>1, <2>2 DEF p, F
  <2> QED BY <2>1, <2>3, <2>4
<1>10. unixTS' = Signed(n.neg, p)
  <2> HIDE DEF p, F, x
  <2>1. unixTS' = Stored(Signed(n.neg, p), build.unixts2time)
    BY <1>1, <1>6, <1>8 DEF F
  <2> QED BY <1>9, <2>1, StoredFits
<1>11. args'[arg'] = n /\ UnitOf(n)' = u
  BY <1>n, <1>u, <1>1 DEF UnitOf
<1> QED BY <1>1, <1>6, <1>10, <1>11 DEF HasInteger

\* For a fraction of few digits an unsigned int holds what is added, and that is
\* its integer part of ns or one less.
LEMMA AdditionalNear ==
    ASSUME NEW digits \in Seq(Digits), unit \in Units, NEW rest, rest.kind = "point",
           rest.value = ValueOf(digits, Step), rest.places = Len(digits),
           rest.value < Scale(DoubleDigits)
    PROVE  AdditionalNS(rest) \subseteq NearFractions(digits, unit)
<1> DEFINE product == ValueOf(digits, Step) * Factor[unit]
           scale == Scale(Len(digits))
           exact == product \div scale
           F == Factor[unit]
<1>1. PICK read \in SUBSET {exact - 1, exact, exact + 1} :
        /\ AdditionalNS(rest) = {ns \in read : ns < UnsignedLimit} \cup
             UNION {{ns % UnsignedLimit, UnsignedLimit - 1} :
                      ns \in {x \in read : x >= UnsignedLimit}}
        /\ exact - 1 \in read =>
             \/ exact - 1 \in {exact, exact + 1}
             \/ /\ exact > 0
                /\ \/ rest.value >= Scale(DoubleDigits)
                   \/ /\ product % scale = 0
                      /\ unit \in {"ms", "s"} /\ Len(digits) > 1
        /\ exact + 1 \in read =>
             \/ exact + 1 \in {exact, exact - 1}
             \/ rest.value >= Scale(DoubleDigits)
  BY AdditionalForm, Zenon
<1>2. NearFractions(digits, unit) =
        {exact} \cup (IF unit \in {"ms", "s"} /\ Len(digits) > 1 /\ product > 0 /\ product % scale = 0
                       THEN {exact - 1} ELSE {})
  BY Zenon DEF NearFractions
<1>3. exact \in 0 .. F - 1
  <2>1. exact \in NearFractions(digits, unit)
    BY <1>2
  <2> QED BY <2>1, NearRange
<1>4. F \in Nat \ {0} /\ F < UnsignedLimit /\ UnsignedLimit \in Nat
  <2>1. Scale(More(unit)) \in Nat \ {0} /\ Second = F * Scale(More(unit))
    BY UnitScale
  <2>2. F \in Nat \ {0}
    BY FactorType
  <2>3. UnsignedLimit \in Nat /\ UnsignedLimit > Second
    BY UnixTimestampAssumption DEF Second, Factor
  <2> DEFINE k == Scale(More(unit))
             a == 1
  <2> HIDE DEF k, F, a
  <2>4. F <= F * k
    <3>1. k \in Nat \ {0}
      BY <2>1 DEF k
    <3> QED BY <2>2, <3>1
  <2>5. Second = F * k
    BY <2>1 DEF k
  <2> QED BY <2>2, <2>3, <2>4, <2>5
<1>5. scale \in Nat \ {0} /\ product \in Nat
  <2>1. Len(digits) \in Nat
    BY LenProperties
  <2>2. digits \in Seq(Nat)
    BY DigitsNat, UnixTimestampAssumption DEF Digits
  <2>3. ValueOf(digits, Step) \in Nat /\ F \in Nat
    BY <1>4, <2>2, ValueType, UnixTimestampAssumption
  <2> DEFINE v == ValueOf(digits, Step)
  <2> HIDE DEF v, F
  <2>4. v * F \in Nat
    BY <2>3 DEF v
  <2> QED BY <2>1, <2>4, ScaleType DEF v, F
<1>6. exact > 0 => product > 0
  <2> HIDE DEF product, scale
  <2>1. 0 \div scale = 0
    BY <1>5
  <2> QED BY <1>5, <2>1
<1>7. Scale(DoubleDigits) \in Nat
  BY ScaleType, UnixTimestampAssumption
<1>8. rest.value \in Nat
  <2>1. digits \in Seq(Nat)
    BY DigitsNat, UnixTimestampAssumption DEF Digits
  <2> QED BY <2>1, ValueType, UnixTimestampAssumption
<1> HIDE DEF product, scale, exact, F
<1>9. ~(rest.value >= Scale(DoubleDigits))
  BY <1>7, <1>8
<1>10. exact + 1 \notin read
  BY <1>1, <1>3, <1>4, <1>9
<1>11. exact - 1 \in read => exact - 1 \in NearFractions(digits, unit)
  BY <1>1, <1>2, <1>3, <1>4, <1>6, <1>9
<1>12. read \subseteq NearFractions(digits, unit)
  BY <1>1, <1>2, <1>10, <1>11
<1>13. \A ns \in read : ns < UnsignedLimit /\ ~(ns >= UnsignedLimit)
  BY <1>1, <1>3, <1>4, <1>10
<1>14. AdditionalNS(rest) \subseteq read
  BY <1>1, <1>13
<1> QED BY <1>12, <1>14

\* ReadRest adds the fraction of a regular number, whatever its sign.
LEMMA ReadRestTime ==
    ASSUME IInv, ReadRest, Regular(args[arg], UnitOf(args[arg])), HasInteger(args[arg])
    PROVE  HasTime(args[arg])'
<1>n. PICK n : n = args[arg]
  OBVIOUS
<1>u. PICK u : u = UnitOf(n)
  OBVIOUS
<1> DEFINE rest == Rest(n)
           F == Factor[u]
           p == Size(n) * F
<1>1. /\ program = "unixts2time" /\ pc = "rest" /\ unit' = unit
      /\ args' = args /\ arg' = arg /\ opts' = opts
      /\ \/ rest.kind = "end" /\ UNCHANGED <<fractionDigits, unixTS>>
         \/ /\ rest.kind \in {"point", "number"}
            /\ fractionDigits' = IF rest.kind = "point" THEN rest.places ELSE 0
            /\ \E ns \in AdditionalNS(rest) :
                 unixTS' = Stored(IF unixTS >= 0 THEN unixTS + ns ELSE unixTS - ns,
                                  build.unixts2time)
  BY <1>n DEF ReadRest, Goto, configuration
<1>2. n \in AnyNumbers
  BY <1>n, <1>1, ArgumentType DEF IInv, PlaceInv
<1>3. Regular(n, u) /\ HasInteger(n)
  BY <1>n, <1>u
<1>4. unit = u /\ fractionDigits = 0 /\ unixTS = Signed(n.neg, p)
  BY <1>u, <1>3 DEF HasInteger
<1>5. u \in Units
  BY <1>4 DEF IInv, TypeOK
<1>6. Rest(n).kind \in {"end", "point"}
  BY <1>2, <1>3, <1>5, RegularParts
<1>7. /\ rest = [kind |-> n.tail.kind, value |-> ValueOf(n.tail.digits, Step),
                  places |-> Len(n.tail.digits)]
      /\ rest.kind = n.tail.kind /\ rest.places = Len(n.tail.digits)
      /\ n.tail.kind = "point" => n.tail.digits # <<>>
  BY <1>2, <1>6, TakenAll
<1>8. n.neg \in BOOLEAN /\ Size(n) \in Nat /\ F \in Nat \ {0}
  BY <1>2, <1>5, NumberParts, FactorType
<1> HIDE DEF rest, F
<1>9. p \in Nat
  BY <1>8, Product
<1>10. fractionDigits' = Len(n.tail.digits) /\ unixTS' \in ExactTimes(n, u)
  <2>1. CASE n.tail.kind = "end"
    <3>1. n.tail.digits = <<>>
      BY <1>2, <2>1, NumberParts
    <3>2. fractionDigits' = 0 /\ unixTS' = unixTS
      BY <1>1, <1>4, <1>7, <2>1
    <3>3. 0 \in NearFractions(<<>>, u)
      <4>1. ValueOf(<<>>, Step) = 0
        BY ValueEmpty, UnixTimestampAssumption
      <4>2. Scale(Len(<<>>)) = 1 /\ 0 * Factor[u] = 0
        <5>1. Len(<<>>) = 0
          OBVIOUS
        <5> QED BY <1>8, <5>1, Scales DEF F
      <4>3. 0 \div 1 = 0
        OBVIOUS
      <4>4. (ValueOf(<<>>, Step) * Factor[u]) \div Scale(Len(<<>>)) = 0
        BY <4>1, <4>2, <4>3
      <4>5. (ValueOf(<<>>, Step) * Factor[u]) \div Scale(Len(<<>>)) \in NearFractions(<<>>, u)
        BY Zenon DEF NearFractions
      <4> QED BY <4>4, <4>5
    <3>4. unixTS' = Signed(n.neg, Size(n) * Factor[u] + 0)
      <4>1. p + 0 = p
        BY <1>9
      <4> QED BY <1>4, <3>2, <4>1 DEF F
    <3> DEFINE g == 0
    <3>5. /\ g \in NearFractions(n.tail.digits, u)
          /\ unixTS' = Signed(n.neg, Size(n) * Factor[u] + g)
      BY <3>1, <3>3, <3>4
    <3> HIDE DEF g
    <3>6. unixTS' \in ExactTimes(n, u)
      BY <3>5 DEF ExactTimes
    <3>7. Len(n.tail.digits) = 0
      BY <3>1
    <3> QED BY <3>2, <3>6, <3>7
  <2>2. CASE n.tail.kind = "point"
    <3>1. PICK g \in AdditionalNS(rest) :
            unixTS' = Stored(IF unixTS >= 0 THEN unixTS + g ELSE unixTS - g,
                             build.unixts2time)
      BY <1>1, <1>7, <2>2
    <3>2. fractionDigits' = Len(n.tail.digits)
      BY <1>1, <1>7, <2>2
    <3>3. g \in NearFractions(n.tail.digits, u)
      <4>1. AdditionalNS(rest) \subseteq NearFractions(n.tail.digits, u)
        <5>1. rest.value < Scale(DoubleDigits)
          BY <1>2, <1>3, <1>5, <1>7, <2>2, RegularParts
        <5>2. n.tail.digits \in Seq(Digits)
          BY <1>2, NumberParts
        <5> DEFINE digits == n.tail.digits
        <5>3. digits \in Seq(Digits) /\ rest.kind = "point" /\ rest.value = ValueOf(digits, Step)
              /\ rest.places = Len(digits)
          BY <1>7, <2>2, <5>2
        <5> HIDE DEF digits
        <5>4. AdditionalNS(rest) \subseteq NearFractions(digits, unit)
          BY <1>4, <1>5, <5>1, <5>3, AdditionalNear
        <5> QED BY <1>4, <5>4 DEF digits
      <4> QED BY <3>1, <4>1
    <3>4. g \in 0 .. PartOf(n.tail.digits, u)
      BY <1>2, <1>5, <3>3, NearSmaller
    <3>5. /\ Signed(n.neg, p + g) \in Int /\ build.unixts2time \in BOOLEAN
          /\ build.unixts2time \/ Fits(Signed(n.neg, p + g))
          /\ n.neg /\ n.tail.digits # <<>> => Size(n) # 0
          /\ PartOf(n.tail.digits, u) \in 0 .. F - 1
      BY <1>2, <1>3, <1>5, <3>4, RegularParts DEF F
    <3>6. g \in Nat
      <4> DEFINE f == PartOf(n.tail.digits, u)
      <4>1. g \in 0 .. f /\ f \in 0 .. F - 1
        BY <3>4, <3>5
      <4> HIDE DEF f
      <4> QED BY <1>8, <4>1
    <3>7. n.neg => p # 0
      <4> SUFFICES ASSUME n.neg  PROVE p # 0
        OBVIOUS
      <4>1. Size(n) \in Nat \ {0}
        BY <1>7, <1>8, <2>2, <3>5
      <4>2. p \in Nat \ {0}
        BY <1>8, <4>1, PositiveProduct
      <4> QED BY <4>2
    <3>8. (IF unixTS >= 0 THEN unixTS + g ELSE unixTS - g) = Signed(n.neg, p + g)
      <4> HIDE DEF p
      <4>1. CASE n.neg
        <5>1. unixTS = -p /\ p > 0
          BY <1>4, <1>9, <3>7, <4>1 DEF Signed
        <5> QED BY <1>9, <3>6, <4>1, <5>1 DEF Signed
      <4>2. CASE ~n.neg
        BY <1>4, <1>9, <3>6, <4>2 DEF Signed
      <4> QED BY <4>1, <4>2
    <3>9. unixTS' = Signed(n.neg, p + g)
      <4> HIDE DEF p
      <4> QED BY <3>1, <3>5, <3>8, StoredFits
    <3>10. unixTS' \in ExactTimes(n, u)
      <4>1. unixTS' = Signed(n.neg, Size(n) * Factor[u] + g)
        BY <3>9 DEF F
      <4> QED BY <3>3, <4>1 DEF ExactTimes
    <3> QED BY <3>2, <3>10
  <2> QED BY <1>6, <1>7, <2>1, <2>2 DEF rest
<1>11. args'[arg'] = n /\ UnitOf(n)' = u
  BY <1>n, <1>u, <1>1 DEF UnitOf
<1>12. unit' = u
  BY <1>1, <1>4
<1> QED BY <1>10, <1>11, <1>12 DEF HasTime

\* With the new line all lines tell their arguments.
LEMMA PrintedLine ==
    ASSUME IInv, TimeIsInput, program = "unixts2time", UNCHANGED configuration,
           NEW line, out' = Append(out, line), TellsInput(line, arg)
    PROVE  TimeIsInput'
<1>1. out \in Seq(Lines) /\ Len(out) \in Nat /\ Len(out) + 1 = arg
  <2>1. out \in Seq(Lines) /\ Len(out) = arg - 1
    BY DEF IInv, DataInv, PlaceInv
  <2>2. Len(out) \in Nat /\ arg \in Nat \ {0}
    BY Lengths
  <2> QED BY <2>1, <2>2
<1>2. ASSUME NEW k \in DOMAIN out'
      PROVE  TellsInput(out'[k], k)
  <2>1. DOMAIN out' = 1 .. arg /\ (\A j \in 1 .. Len(out) : out'[j] = out[j])
        /\ out'[arg] = line
    BY <1>1
  <2>2. CASE k = arg
    BY <2>1, <2>2
  <2>3. CASE k # arg
    <3>1. k \in 1 .. Len(out) /\ DOMAIN out = 1 .. Len(out)
      BY <1>1, <2>1, <2>3
    <3>2. TellsInput(out[k], k)
      BY <3>1, TimeIsInputForm
    <3> QED BY <2>1, <3>1, <3>2
  <2> QED BY <2>2, <2>3
<1>3. ASSUME NEW k \in DOMAIN out'
      PROVE  TellsInput(out[k], k)'
  <2>1. TellsInput(out'[k], k)
    BY <1>2
  <2>2. build' = build /\ clock' = clock /\ opts' = opts /\ args' = args
    BY DEF configuration
  <2> QED BY <2>1, <2>2, Zenon
          DEF TellsInput, TellsClock, Tells, Regular, UnitOf
<1> QED BY <1>3 DEF TimeIsInput, TellsInput, Size

\* What PrintTime prints is the time of its argument.
LEMMA PrintTimeExact ==
    ASSUME TInv, PrintTime
    PROVE  TimeIsInput'
<1> DEFINE front == FrontOf(opts.template)
           back == BackOf(opts.template)
           Line(middle) ==
             [text |-> Strftime(front, ts.sec) \o middle \o Strftime(back, ts.sec),
              number |-> IF ~opts.human THEN <<>>
                         ELSE <<Stored(Quotient(unixTS, Factor[unit]), FALSE)>>,
              unit |-> unit]
<1>1. /\ program = "unixts2time" /\ UNCHANGED configuration
      /\ \E middle \in Middles : PrintLine(Line(middle))
  BY DEF PrintTime, Middles
<1>2. PICK middle \in Middles : PrintLine(Line(middle))
  BY <1>1
<1> DEFINE line == Line(middle)
           text == (Strftime(front, ts.sec) \o middle) \o Strftime(back, ts.sec)
<1>3. /\ line.text = text /\ line.unit = unit
      /\ opts.human => line.number = <<Stored(Quotient(unixTS, Factor[unit]), FALSE)>>
  BY Zenon
<1>4. pc = "print" /\ out' = Append(out, line)
  BY <1>2 DEF PrintLine, Goto
<1> HIDE DEF line, Line
<1>5. /\ unit \in Units /\ fractionDigits \in Nat /\ ts.nsec \in 0 .. Second - 1
      /\ ts.sec \in Int /\ opts.template \in Seq(STRING) /\ unixTS \in Int
      /\ clock \in Nat /\ IInv
  BY ConfigurationType DEF TInv, IInv, TypeOK, DataInv
<1>6. (ts.sec * Second) + ts.nsec = unixTS
  BY <1>1, <1>4 DEF TInv, StateInv
<1>7. CASE args = <<>>
  <2>1. fractionDigits = 0 /\ unit = UnitAsked
        /\ (build.unixts2time \/ Fits(clock) => unixTS = clock)
    BY <1>1, <1>4, <1>7 DEF TInv, StateInv, HasClock
  <2>2. build.unixts2time \/ Fits(clock) => clock = (ts.sec * Second) + ts.nsec
    BY <1>6, <2>1
  <2>3. WholeTime(opts.template) => TellsClock(text)
    BY <1>2, <1>5, <2>1, <2>2, TextTellsClock
  <2> QED BY <1>1, <1>3, <1>4, <1>7, <2>3, PrintedLine DEF TInv, TellsInput
<1>8. CASE args # <<>>
  <2>1. PICK n : n = args[arg]
    OBVIOUS
  <2>2. PICK u : u = UnitOf(n)
    OBVIOUS
  <2>3. n \in AnyNumbers
    BY <1>1, <1>4, <1>5, <1>8, <2>1, ArgumentType
  <2>4. ASSUME Regular(n, u)
        PROVE  /\ WholeTime(opts.template) => Tells(text, ManualTime(n, u), n)
               /\ line.unit = u
               /\ opts.human => line.number = <<Signed(n.neg, Size(n))>>
    <3>1. unit = u /\ fractionDigits = Len(n.tail.digits) /\ unixTS \in ExactTimes(n, u)
      BY <1>1, <1>4, <1>8, <2>1, <2>2, <2>4 DEF TInv, StateInv, HasTime
    <3>2. WholeTime(opts.template) => Tells(text, ManualTime(n, u), n)
      <4> SUFFICES ASSUME WholeTime(opts.template)
                   PROVE  Tells(text, ManualTime(n, unit), n)
        BY <3>1
      <4>1. unixTS \in ExactTimes(n, unit) /\ unixTS = (ts.sec * Second) + ts.nsec
        BY <1>6, <3>1
      <4> QED BY <1>2, <1>5, <2>3, <3>1, <4>1, TextTells
    <3>3. Quotient(unixTS, Factor[unit]) = Signed(n.neg, Size(n))
      <4> DEFINE F == Factor[unit]
      <4>1. PICK g : TimeWith(n, unit, g, unixTS)
        BY <1>5, <2>3, <3>1, ExactNear
      <4>2. unixTS = Signed(n.neg, Size(n) * F + g) /\ g \in 0 .. F - 1
        BY <4>1 DEF TimeWith
      <4>3. n.neg \in BOOLEAN /\ Size(n) \in Nat /\ F \in Nat \ {0}
        BY <1>5, <2>3, NumberParts, FactorType
      <4> HIDE DEF F
      <4>4. Quotient(unixTS, F) = Signed(n.neg, Size(n))
        BY <4>2, <4>3, NumberShown
      <4> QED BY <4>4 DEF F
    <3>4. Stored(Signed(n.neg, Size(n)), FALSE) = Signed(n.neg, Size(n))
      <4>1. Fits(Signed(n.neg, Size(n)))
        BY <2>4, Zenon DEF Regular, Size
      <4>2. Signed(n.neg, Size(n)) \in Int
        BY <2>3, NumberParts DEF Signed
      <4> QED BY <4>1, <4>2, StoredFits
    <3> QED BY <1>3, <3>1, <3>2, <3>3, <3>4
  <2>5. TellsInput(line, arg)
    BY <1>3, <1>8, <2>1, <2>2, <2>4 DEF TellsInput
  <2> QED BY <1>1, <1>4, <2>5, PrintedLine DEF TInv
<1> QED BY <1>7, <1>8

\* Steps that print nothing leave the lines as they are.
LEMMA TextsKept ==
    ASSUME TimeIsInput, UNCHANGED <<configuration, out>>
    PROVE  TimeIsInput'
<1>1. /\ build' = build /\ clock' = clock /\ opts' = opts /\ args' = args
      /\ program' = program /\ out' = out
  BY DEF configuration
<1>2. ASSUME program = "unixts2time", NEW k \in DOMAIN out
      PROVE  TellsInput(out[k], k)'
  <2>1. TellsInput(out[k], k)
    BY <1>2, TimeIsInputForm
  <2> QED BY <1>1, <2>1, Zenon DEF TellsInput, TellsClock, Tells, Regular, UnitOf
<1> QED BY <1>1, <1>2 DEF TimeIsInput, TellsInput, Size

\* Each step keeps what is known of the timestamp.
LEMMA ReadingStep ==
    ASSUME TInv, ReadInteger \/ TakeCurrentTime \/ ReadRest \/ ConvertToTime
    PROVE  StateInv' /\ UNCHANGED <<configuration, out>>
<1>1. IInv /\ StateInv /\ clock \in Nat /\ build.unixts2time \in BOOLEAN /\ unixTS \in Int
  BY ConfigurationType DEF TInv, IInv, DataInv
<1>2. CASE ReadInteger
  <2>1. /\ program = "unixts2time" /\ args # <<>> /\ pc' = "rest"
        /\ UNCHANGED <<configuration, arg, out>>
    BY <1>2 DEF ReadInteger, AtArgument
  <2>2. ASSUME (Regular(args[arg], UnitOf(args[arg])))'
        PROVE  HasInteger(args[arg])'
    <3>1. Regular(args[arg], UnitOf(args[arg]))
      <4>1. build' = build /\ clock' = clock /\ opts' = opts /\ args' = args /\ arg' = arg
        BY <2>1 DEF configuration
      <4> QED BY <2>2, <4>1, Zenon DEF Regular, UnitOf
    <3> QED BY <1>1, <1>2, <3>1, ReadIntegerTime
  <2>3. args' # <<>>
    BY <2>1 DEF configuration
  <2> QED BY <2>1, <2>2, <2>3 DEF StateInv
<1>3. CASE TakeCurrentTime
  <2>1. /\ program = "unixts2time" /\ args = <<>> /\ pc' = "convert"
        /\ UNCHANGED <<configuration, out>> /\ fractionDigits' = fractionDigits
        /\ unixTS' = Stored(clock, build.unixts2time) /\ unit' = UnitAsked
    BY <1>3 DEF TakeCurrentTime, AtArgument, UnitAsked
  <2>2. fractionDigits = 0
    BY <1>1, <2>1 DEF StateInv
  <2>3. build.unixts2time \/ Fits(clock) => unixTS' = clock
    BY <1>1, <2>1, StoredFits
  <2>4. HasClock' /\ args' = <<>>
    BY <2>1, <2>3 DEF HasClock, UnitAsked, configuration
  <2> QED BY <2>1, <2>2, <2>4 DEF StateInv
<1>4. CASE ReadRest
  <2>1. /\ program = "unixts2time" /\ pc = "rest" /\ pc' = "convert"
        /\ UNCHANGED <<configuration, arg, out>>
    BY <1>4 DEF ReadRest, Goto
  <2>2. args # <<>>
    BY <1>1, <2>1 DEF IInv, PlaceInv
  <2>3. ASSUME (Regular(args[arg], UnitOf(args[arg])))'
        PROVE  HasTime(args[arg])'
    <3>1. Regular(args[arg], UnitOf(args[arg]))
      <4>1. build' = build /\ clock' = clock /\ opts' = opts /\ args' = args /\ arg' = arg
        BY <2>1 DEF configuration
      <4> QED BY <2>3, <4>1, Zenon DEF Regular, UnitOf
    <3>2. HasInteger(args[arg])
      BY <1>1, <2>1, <2>2, <3>1 DEF StateInv
    <3> QED BY <1>1, <1>4, <3>1, <3>2, ReadRestTime
  <2>4. args' # <<>>
    BY <2>1, <2>2 DEF configuration
  <2> QED BY <2>1, <2>3, <2>4 DEF StateInv
<1>5. CASE ConvertToTime
  <2>1. /\ program = "unixts2time" /\ pc = "convert" /\ ts' = Timespec(unixTS)
        /\ pc' \in {"print", "done"}
        /\ UNCHANGED <<configuration, arg, out>> /\ UNCHANGED <<unit, fractionDigits, unixTS>>
    BY <1>5 DEF ConvertToTime
  <2>2. /\ build' = build /\ clock' = clock /\ opts' = opts /\ args' = args /\ arg' = arg
        /\ unit' = unit /\ fractionDigits' = fractionDigits /\ unixTS' = unixTS
    BY <2>1 DEF configuration
  <2>3. (ts'.sec * Second) + ts'.nsec = unixTS'
    BY <1>1, <2>1, <2>2, TimespecExact
  <2>4. args = <<>> => fractionDigits = 0 /\ HasClock
    BY <1>1, <2>1 DEF StateInv
  <2>5. args # <<>> /\ Regular(args[arg], UnitOf(args[arg])) => HasTime(args[arg])
    BY <1>1, <2>1 DEF StateInv
  <2>6. (args = <<>> => fractionDigits = 0 /\ HasClock)'
    BY <2>2, <2>4, Zenon DEF HasClock, UnitAsked
  <2>7. (args # <<>> /\ Regular(args[arg], UnitOf(args[arg])) => HasTime(args[arg]))'
    BY <2>2, <2>5, Zenon DEF HasTime, Regular, UnitOf
  <2>8. pc' # "rest"
    BY <2>1
  <2> QED BY <2>1, <2>3, <2>6, <2>7, <2>8 DEF StateInv
<1> QED BY <1>2, <1>3, <1>4, <1>5

LEMMA TimesStep == TInv /\ [Next]_vars => TInv'
<1> SUFFICES ASSUME TInv, [Next]_vars  PROVE TInv'
  OBVIOUS
<1>0. IInv'
  BY StepInv DEF TInv
<1>1. CASE ReadInteger \/ TakeCurrentTime \/ ReadRest \/ ConvertToTime
  BY <1>0, <1>1, ReadingStep, TextsKept DEF TInv
<1>2. CASE RefuseTimestamp \/ RefuseTemplate
  <2>1. UNCHANGED <<configuration, out>> /\ pc' = "done" /\ fractionDigits' = fractionDigits
    BY <1>2 DEF RefuseTimestamp, RefuseTemplate, Fail
  <2>2. StateInv'
    BY <2>1 DEF TInv, StateInv, configuration
  <2> QED BY <1>0, <2>1, <2>2, TextsKept DEF TInv
<1>3. CASE PrintTime
  <2>1. pc' \in {"argument", "done"} /\ fractionDigits' = fractionDigits
        /\ UNCHANGED configuration
    BY <1>3 DEF PrintTime, PrintLine, Goto
  <2>2. StateInv'
    BY <2>1 DEF TInv, StateInv, configuration
  <2> QED BY <1>0, <1>3, <2>2, PrintTimeExact DEF TInv
<1>4. CASE ParseTime \/ ReadClock \/ RefuseTime \/ PrintTimestamp
  <2>1. program' # "unixts2time"
    BY <1>4 DEF ParseTime, ReadClock, RefuseTime, PrintTimestamp, AtArgument, configuration
  <2> QED BY <1>0, <2>1 DEF TInv, StateInv, TimeIsInput
<1>5. CASE Pipe
  <2>1. out' = <<>> /\ pc' = "argument" /\ fractionDigits' = 0
    BY <1>5 DEF Pipe
  <2>2. DOMAIN out' = {}
    BY <2>1
  <2> QED BY <1>0, <2>1, <2>2 DEF TInv, StateInv, TimeIsInput
<1>6. CASE UNCHANGED vars
  <2>1. /\ build' = build /\ clock' = clock /\ opts' = opts /\ args' = args /\ arg' = arg
        /\ program' = program /\ pc' = pc /\ ts' = ts
        /\ unit' = unit /\ fractionDigits' = fractionDigits /\ unixTS' = unixTS
        /\ UNCHANGED <<configuration, out>>
    BY <1>6 DEF vars, configuration
  <2>2. StateInv'
    BY <2>1, Zenon DEF TInv, StateInv, HasClock, HasTime, HasInteger, Regular, UnitOf, UnitAsked
  <2> QED BY <1>0, <2>1, <2>2, TextsKept DEF TInv
<1> QED BY <1>1, <1>2, <1>3, <1>4, <1>5, <1>6 DEF Next

\* Each date and time unixts2time prints is the one of its argument, in the unit
\* given or in the one of the manual page's table, before and after 1970, whatever
\* has come before it, and with each digit of the fraction; and the integer that
\* time2unixts prints is the time of its argument in its unit, to which --float adds
\* the rest from 1970 on: whatever Step, Minute, Limit and AutoLimit are, for all
\* arguments but those Regular leaves out: a fraction behind a prefix or behind -0,
\* one of more than DoubleDigits digits, and what a long long cannot hold.  What
\* --float adds before 1970 is not told (FloatsExact does not hold).
THEOREM ConversionsAreExact == Spec => []ConversionsExact
<1>1. Init => TInv
  <2> SUFFICES ASSUME Init  PROVE TInv
    OBVIOUS
  <2>1. out = <<>> /\ pc = "argument" /\ fractionDigits = 0
    BY DEF Init
  <2>2. DOMAIN out = {}
    BY <2>1
  <2> QED BY <2>1, <2>2, InitInv DEF TInv, StateInv, TimeIsInput
<1>2. Spec => []TimeIsInput
  <2>1. TInv => TimeIsInput
    BY DEF TInv
  <2> QED BY <1>1, <2>1, TimesStep, PTL DEF Spec
<1> QED BY <1>2, NumbersExact, PTL DEF ConversionsExact

-----------------------------------------------------------------------------
(* What one program prints and the other one reads *)

\* Up to three digits of a fraction are so many ns, without a choice.
LEMMA NanosecondsExact ==
    ASSUME NEW digits \in Seq(Digits), Len(digits) <= 3
    PROVE  Nanoseconds(digits) = {ValueOf(digits, Step) * Scale(3 - Len(digits))}
<1> DEFINE d == 3 - Len(digits)
           S == Scale(Len(digits))
           R == Scale(d)
           v == ValueOf(digits, Step)
           twice == 2 * v * Second
           q == v * R
<1>1. d \in 0 .. 3 /\ 3 - d = Len(digits) /\ Len(digits) \in Nat
  <2> DEFINE n == Len(digits)
  <2>1. n \in Nat /\ n <= 3
    BY LenProperties
  <2> HIDE DEF n
  <2>2. 3 - n \in 0 .. 3 /\ 3 - (3 - n) = n
    BY <2>1
  <2> QED BY <2>1, <2>2 DEF n
<1>2. Second = S * R /\ S \in Nat \ {0} /\ R \in Nat \ {0} /\ v \in Nat
  <2>1. Second = Scale(3 - d) * Scale(d)
    <3> HIDE DEF d
    <3> QED BY <1>1, SecondScales
  <2>2. S \in Nat \ {0} /\ R \in Nat \ {0}
    <3> HIDE DEF d
    <3>1. d \in Nat
      BY <1>1
    <3> QED BY <1>1, <3>1, ScaleType
  <2>3. digits \in Seq(Nat) /\ Step \in Nat
    BY ValueBelowScale, UnixTimestampAssumption
  <2> QED BY <1>1, <2>1, <2>2, <2>3, ValueType
<1>3. Nanoseconds(digits) = {n \in {(twice + S) \div (2 * S), twice \div (2 * S)} :
                               2 * n * S - twice \in -S .. S}
  BY Zenon DEF Nanoseconds
<1> HIDE DEF S, R, v, d
<1>4. q \in Nat
  BY <1>2, Product
<1>5. twice = (2 * S) * q /\ 2 * q * S = twice
  <2>1. v * (S * R) = S * (v * R) /\ (2 * v) * (S * R) = 2 * (v * (S * R))
    BY <1>2
  <2>2. (2 * S) * q = 2 * (S * q) /\ (2 * q) * S = 2 * (S * q)
    <3> HIDE DEF q
    <3> QED BY <1>2, <1>4
  <2> QED BY <1>2, <2>1, <2>2 DEF q
<1> DEFINE b == 2 * S
<1>6. b \in Nat \ {0} /\ S \in 0 .. b - 1 /\ 0 \in 0 .. b - 1
  BY <1>2
<1> HIDE DEF q, twice
<1>7. twice \in Int /\ twice = b * q + 0 /\ twice + S = b * q + S
  <2>1. b * q \in Int
    BY <1>4, <1>6, Product
  <2> QED BY <1>2, <1>5, <2>1
<1>8. twice \div b = q
  <2> HIDE DEF b
  <2>1. q \in Int
    BY <1>4
  <2> QED BY <1>6, <1>7, <2>1, DivUnique
<1>9. (twice + S) \div b = q
  <2> DEFINE x == twice + S
  <2>1. x \in Int /\ x = b * q + S /\ q \in Int
    BY <1>2, <1>4, <1>7
  <2> HIDE DEF b, x
  <2>2. x \div b = q
    BY <1>6, <2>1, DivUnique
  <2> QED BY <2>2 DEF x
<1>10. 2 * q * S - twice \in -S .. S
  BY <1>2, <1>5, <1>7
<1> QED BY <1>3, <1>8, <1>9, <1>10 DEF q, v, R, d

\* The first digit of a number is 0 only if it is the only one.
LEMMA PrintedFirst ==
    ASSUME NEW value \in Int, NEW base \in Nat, base > 1
    PROVE  Printed(value, base)[1] = 0 => Len(Printed(value, base)) = 1
<1> DEFINE m == Abs(value)
           D == -m .. m
           size == [i \in D |-> Abs(i)]
           Good == {i \in D : i # 0 => Printed(i, base)[1] # 0}
<1>1. m \in Nat /\ value \in D
  BY DEF Abs
<1> HIDE DEF m
<1>2. ASSUME NEW i \in D
      PROVE  LET q == Quotient(i, base)
                 d == Abs(Remainder(i, base))
             IN  /\ i \in Int /\ q \in Int /\ d \in 0 .. base - 1
                 /\ q = 0 => Printed(i, base) = <<d>> /\ d = Abs(i)
                 /\ q # 0 => /\ Printed(i, base) = Printed(q, base) \o <<d>>
                             /\ Abs(q) < Abs(i) /\ q \in D
                             /\ Printed(q, base) \in Seq(0 .. base - 1)
                             /\ Len(Printed(q, base)) \in Nat \ {0}
  <2> DEFINE q == Quotient(i, base)
             d == Abs(Remainder(i, base))
  <2>1. i \in Int
    BY <1>1
  <2>2. q \in Int /\ Abs(q) \in Nat /\ d \in 0 .. base - 1
        /\ Abs(q) * base + d = Abs(i) /\ (q # 0 => Abs(q) < Abs(i))
    BY <2>1, AbsQuotient
  <2>3. Printed(i, base) = (IF q # 0 THEN Printed(q, base) ELSE <<>>) \o <<d>>
    BY <2>1, PrintedUnfold
  <2>4. Printed(q, base) \in Seq(0 .. base - 1)
    <3> HIDE DEF q
    <3> QED BY <2>2, PrintedType
  <2>5. Len(Printed(q, base)) \in Nat \ {0}
    <3> DEFINE a == IF Quotient(q, base) # 0 THEN Printed(Quotient(q, base), base) ELSE <<>>
               c == Abs(Remainder(q, base))
    <3> HIDE DEF q
    <3>1. Printed(q, base) = a \o <<c>>
      BY <2>2, PrintedUnfold
    <3>2. Quotient(q, base) \in Int /\ c \in 0 .. base - 1
      BY <2>2, AbsQuotient
    <3>3. Printed(Quotient(q, base), base) \in Seq(0 .. base - 1)
      BY <3>2, PrintedType
    <3>4. a \in Seq(0 .. base - 1)
      BY <3>3, EmptySeq
    <3> HIDE DEF a, c
    <3>5. Len(a) \in Nat /\ Len(a \o <<c>>) = Len(a) + 1
      BY <3>2, <3>4
    <3> QED BY <3>1, <3>5
  <2> HIDE DEF q, d
  <2>6. q = 0 => Printed(i, base) = <<d>> /\ d = Abs(i)
    <3> SUFFICES ASSUME q = 0  PROVE Printed(i, base) = <<d>> /\ d = Abs(i)
      OBVIOUS
    <3>1. Abs(q) = 0
      BY DEF Abs
    <3>2. <<>> \o <<d>> = <<d>>
      BY <2>2
    <3> QED BY <2>2, <2>3, <3>1, <3>2
  <2>7. q # 0 => q \in D
    <3> SUFFICES ASSUME q # 0  PROVE q \in D
      OBVIOUS
    <3>1. Abs(i) <= m
      BY <1>1, <2>1 DEF Abs
    <3>2. Abs(q) <= m /\ q \in Int /\ m \in Nat
      BY <1>1, <2>1, <2>2, <3>1 DEF Abs
    <3> QED BY <3>2 DEF Abs
  <2> QED BY <2>1, <2>2, <2>3, <2>4, <2>5, <2>6, <2>7 DEF q, d
<1>3. ASSUME NEW i \in D, \A j \in D : size[j] < size[i] => j \in Good
      PROVE  i \in Good
  <2> DEFINE q == Quotient(i, base)
             d == Abs(Remainder(i, base))
  <2>1. i \in Int /\ q \in Int /\ d \in 0 .. base - 1
        /\ (q = 0 => Printed(i, base) = <<d>> /\ d = Abs(i))
        /\ (q # 0 => /\ Printed(i, base) = Printed(q, base) \o <<d>>
                     /\ Abs(q) < Abs(i) /\ q \in D
                     /\ Printed(q, base) \in Seq(0 .. base - 1)
                     /\ Len(Printed(q, base)) \in Nat \ {0})
    BY <1>2
  <2> HIDE DEF q, d
  <2> SUFFICES ASSUME i # 0  PROVE Printed(i, base)[1] # 0
    OBVIOUS
  <2>2. CASE q = 0
    <3>1. d # 0
      BY <2>1, <2>2 DEF Abs
    <3> QED BY <2>1, <2>2, <3>1
  <2>3. CASE q # 0
    <3>1. size[q] < size[i]
      BY <2>1, <2>3
    <3>2. Printed(q, base)[1] # 0
      BY <1>3, <2>1, <2>3, <3>1
    <3> DEFINE a == Printed(q, base)
    <3>3. a \in Seq(0 .. base - 1) /\ Len(a) \in Nat \ {0} /\ a[1] # 0
      BY <2>1, <2>3, <3>2
    <3> HIDE DEF a
    <3>4. (a \o <<d>>)[1] = a[1]
      BY <2>1, <3>3
    <3> QED BY <2>1, <2>3, <3>3, <3>4 DEF a
  <2> QED BY <2>2, <2>3
<1>4. size \in [D -> Nat]
  BY <1>1 DEF Abs
<1>5. \A i \in D : i \in Good
  <2> HIDE DEF Good, size, D
  <2> QED BY <1>3, <1>4, BySize
<1>6. CASE value = 0
  <2>1. Quotient(value, base) = 0
    <3>1. value \in Int /\ Quotient(value, base) \in Int /\ Abs(Quotient(value, base)) \in Nat
          /\ Abs(Remainder(value, base)) \in 0 .. base - 1
          /\ Abs(Quotient(value, base)) * base + Abs(Remainder(value, base)) = Abs(value)
          /\ (Quotient(value, base) # 0 => Abs(Quotient(value, base)) < Abs(value))
      BY AbsQuotient
    <3> QED BY <1>6, <3>1 DEF Abs
  <2>2. Printed(value, base) = <<Abs(Remainder(value, base))>>
    BY <1>1, <1>2, <2>1
  <2> QED BY <2>2
<1>7. CASE value # 0
  <2>1. Printed(value, base)[1] # 0
    BY <1>1, <1>5, <1>7
  <2> QED BY <2>1
<1> QED BY <1>6, <1>7

\* An empty template has no fields.
LEMMA FieldsEmpty == Fields(<<>>) = <<>>
<1> DEFINE Rest1(g, i) == <<Literal(<<>>[i])>> \o g[i + 1]
           Rest2(g, i) == (CASE <<>>[i + 1] = "T" -> <<Conversion("M"), Conversion("S")>>
                             [] <<>>[i + 1] \in {"M", "S"} -> <<Conversion(<<>>[i + 1])>>
                             [] OTHER -> <<Literal(<<>>[i + 1])>>)
                          \o g[i + 2]
           D == 1 .. Len(<<>>) + 1
           Table(g) == g = [i \in D |-> IF i > Len(<<>>) THEN <<>>
                                        ELSE IF <<>>[i] # "%" \/ i = Len(<<>>) THEN Rest1(g, i)
                                        ELSE Rest2(g, i)]
           table == CHOOSE g : Table(g)
           start == [i \in D |-> <<>>]
<1>1. Fields(<<>>) = table[1]
  BY Zenon DEF Fields
<1>2. D = {1} /\ \A i \in D : i > Len(<<>>)
  BY EmptySeq
<1> HIDE DEF Rest1, Rest2, D
<1>3. Table(start)
  BY <1>2
<1>4. Table(table)
  <2> HIDE DEF start, Table
  <2> QED BY <1>3
<1>5. table[1] = <<>>
  <2> HIDE DEF table
  <2> QED BY <1>2, <1>4
<1> QED BY <1>1, <1>5

\* Where the parts of a text are.
LEMMA ThreeParts ==
    ASSUME NEW T, NEW a \in Seq(T), NEW b \in Seq(T), NEW c \in Seq(T),
           NEW text, text = (a \o b) \o c
    PROVE  /\ text \in Seq(T) /\ Len(a) \in Nat /\ Len(b) \in Nat /\ Len(c) \in Nat
           /\ Len(text) = (Len(a) + Len(b)) + Len(c)
           /\ \A k \in 1 .. Len(a) : text[k] = a[k]
           /\ \A k \in 1 .. Len(b) : text[Len(a) + k] = b[k]
           /\ \A k \in 1 .. Len(c) : text[(Len(a) + Len(b)) + k] = c[k]
<1> DEFINE ab == a \o b
<1>1. /\ ab \in Seq(T) /\ Len(ab) = Len(a) + Len(b)
      /\ \A k \in 1 .. Len(a) + Len(b) : ab[k] = IF k <= Len(a) THEN a[k] ELSE b[k - Len(a)]
  BY ConcatProperties
<1>2. Len(a) \in Nat /\ Len(b) \in Nat /\ Len(c) \in Nat
  BY LenProperties
<1> HIDE DEF ab
<1>3. /\ text \in Seq(T) /\ Len(text) = Len(ab) + Len(c)
      /\ \A k \in 1 .. Len(ab) + Len(c) : text[k] = IF k <= Len(ab) THEN ab[k] ELSE c[k - Len(ab)]
  BY <1>1, ConcatProperties DEF ab
<1> DEFINE m == Len(a)
           n == Len(b)
           l == Len(c)
<1>4. /\ m \in Nat /\ n \in Nat /\ l \in Nat
      /\ \A k \in 1 .. m + n : ab[k] = IF k <= m THEN a[k] ELSE b[k - m]
      /\ \A k \in 1 .. (m + n) + l : text[k] = IF k <= m + n THEN ab[k] ELSE c[k - (m + n)]
  BY <1>1, <1>2, <1>3
<1>5. text \in Seq(T) /\ Len(text) = (m + n) + l
  BY <1>1, <1>3
<1> HIDE DEF m, n, l
<1>6. ASSUME NEW k \in 1 .. m  PROVE text[k] = a[k]
  <2>1. k \in 1 .. m + n /\ k \in 1 .. (m + n) + l /\ k <= m /\ k <= m + n
    BY <1>4
  <2>2. text[k] = ab[k]
    BY <1>4, <2>1
  <2>3. ab[k] = a[k]
    BY <1>4, <2>1
  <2> QED BY <2>2, <2>3
<1>7. ASSUME NEW k \in 1 .. n  PROVE text[m + k] = b[k]
  <2>1. m + k \in 1 .. m + n /\ ~(m + k <= m) /\ (m + k) - m = k
        /\ m + k \in 1 .. (m + n) + l /\ m + k <= m + n
    BY <1>4
  <2>2. text[m + k] = ab[m + k]
    BY <1>4, <2>1
  <2>3. ab[m + k] = b[(m + k) - m]
    BY <1>4, <2>1
  <2> QED BY <2>1, <2>2, <2>3
<1>8. ASSUME NEW k \in 1 .. l  PROVE text[(m + n) + k] = c[k]
  <2>1. (m + n) + k \in 1 .. (m + n) + l /\ ~((m + n) + k <= m + n)
        /\ ((m + n) + k) - (m + n) = k
    BY <1>4
  <2>2. text[(m + n) + k] = c[((m + n) + k) - (m + n)]
    BY <1>4, <2>1
  <2> QED BY <2>1, <2>2
<1> QED BY <1>2, <1>5, <1>6, <1>7, <1>8 DEF m, n, l

\* As many fields as the template has.
LEMMA StrftimeLength ==
    ASSUME NEW template \in Seq(STRING), NEW sec \in Int
    PROVE  /\ Len(Strftime(template, sec)) = Len(Fields(template))
           /\ Len(Fields(template)) \in Nat
           /\ DOMAIN Strftime(template, sec) = 1 .. Len(Fields(template))
<1> DEFINE fields == Fields(template)
           made == Strftime(template, sec)
<1>1. fields \in Seq(TemplateFields) /\ made \in Seq(TimeFields)
  BY FieldsType, StrftimeType
<1>2. DOMAIN made = DOMAIN fields
  BY DEF Strftime
<1> HIDE DEF fields, made
<1>3. DOMAIN fields = 1 .. Len(fields) /\ Len(fields) \in Nat
      /\ DOMAIN made = 1 .. Len(made) /\ Len(made) \in Nat
  BY <1>1, LenProperties
<1>4. Len(made) = Len(fields)
  BY <1>2, <1>3
<1> QED BY <1>2, <1>3, <1>4 DEF made, fields

\* strptime() reads what strftime() makes of the same template.
LEMMA ReadBack ==
    ASSUME NEW template \in Seq(STRING), NEW sec \in Int, NEW text, NEW skip \in Nat,
           Len(text) \in Nat, Len(text) >= skip + Len(Strftime(template, sec)),
           \A k \in 1 .. Len(Strftime(template, sec)) :
             text[skip + k] = Strftime(template, sec)[k]
    PROVE  Strptime(text, skip, template)
<1> DEFINE fields == Fields(template)
           made == Strftime(template, sec)
           Filled(field) ==
             CASE field.is = "M" -> [is |-> "M", value |-> sec \div Minute]
               [] field.is = "S" -> [is |-> "S", value |-> sec % Minute]
               [] OTHER -> field
<1>1. made = [k \in DOMAIN fields |-> Filled(fields[k])]
  BY Zenon DEF Strftime
<1>2. fields \in Seq(TemplateFields) /\ made \in Seq(TimeFields)
  BY FieldsType, StrftimeType
<1>3. /\ DOMAIN fields = 1 .. Len(fields) /\ Len(fields) \in Nat
      /\ DOMAIN made = 1 .. Len(made) /\ Len(made) \in Nat
      /\ \A k \in DOMAIN fields : fields[k] \in TemplateFields
  <2> HIDE DEF fields, made
  <2> QED BY <1>2, LenProperties, ElementOfSeq
<1>4. sec % Minute \in 0 .. Minute
  <2>1. Minute \in Nat \ {0}
    BY UnixTimestampAssumption
  <2>2. sec % Minute \in 0 .. Minute - 1
    BY <2>1, ModRange
  <2> QED BY <2>1, <2>2
<1>5. ASSUME NEW field \in TemplateFields
      PROVE  /\ Filled(field).is = field.is
             /\ Filled(field).is = "S" => Filled(field).value \in 0 .. Minute
             /\ Filled(field).is = "literal" => Filled(field) = field
  <2>1. field.is \in {"M", "S", "literal"}
    BY DEF TemplateFields
  <2>2. CASE field.is = "M"
    <3>1. Filled(field) = [is |-> "M", value |-> sec \div Minute]
      BY <2>2
    <3> HIDE DEF Filled
    <3> QED BY <2>2, <3>1
  <2>3. CASE field.is = "S"
    <3>1. Filled(field) = [is |-> "S", value |-> sec % Minute]
      BY <2>3
    <3> HIDE DEF Filled
    <3> QED BY <1>4, <2>3, <3>1
  <2>4. CASE field.is = "literal"
    <3>1. Filled(field) = field
      BY <2>4
    <3> HIDE DEF Filled
    <3> QED BY <2>4, <3>1
  <2> QED BY <2>1, <2>2, <2>3, <2>4
<1> HIDE DEF Filled, fields, made
<1>6. DOMAIN made = DOMAIN fields /\ \A k \in DOMAIN fields : made[k] = Filled(fields[k])
  BY <1>1
<1>7. Len(made) = Len(fields)
  BY StrftimeLength DEF made, fields
<1>8. ASSUME NEW k \in DOMAIN fields  PROVE text[skip + k] = Filled(fields[k])
  <2>1. \A j \in 1 .. Len(made) : text[skip + j] = made[j]
    BY DEF made
  <2>2. k \in 1 .. Len(made)
    BY <1>3, <1>7
  <2>3. text[skip + k] = made[k]
    BY <2>1, <2>2
  <2> QED BY <1>6, <2>3
<1>9. ASSUME NEW k \in DOMAIN fields
      PROVE  /\ text[skip + k].is = fields[k].is
             /\ text[skip + k].is = "S" => text[skip + k].value \in 0 .. Minute
             /\ text[skip + k].is = "literal" => text[skip + k] = fields[k]
  <2>1. fields[k] \in TemplateFields
    BY <1>3
  <2> DEFINE field == fields[k]
             there == text[skip + k]
  <2>2. there = Filled(field) /\ field \in TemplateFields
    BY <1>8, <2>1
  <2> HIDE DEF field, there
  <2>3. /\ there.is = field.is
        /\ there.is = "S" => there.value \in 0 .. Minute
        /\ there.is = "literal" => there = field
    BY <1>5, <2>2
  <2> QED BY <2>3 DEF field, there
<1>10. Len(text) >= skip + Len(fields)
  BY <1>7 DEF made
<1> QED BY <1>9, <1>10, Zenon DEF Strptime, fields

\* The seconds, and behind them their fraction, if it is shown.
LEMMA MiddleForm ==
    ASSUME unit \in Units, fractionDigits \in Nat, ts.nsec \in Nat, ts.sec \in Int,
           NEW middle \in Middles
    PROVE  /\ SecondsPlaceholder(opts.template) = 0 => middle = <<>>
           /\ SecondsPlaceholder(opts.template) # 0 =>
                /\ Len(middle) \in {1, 2} /\ middle[1].is = "S" /\ middle[1].value \in Nat
                /\ Len(middle) = 2 => middle[2].is = "F"
<1>1. CASE SecondsPlaceholder(opts.template) = 0
  BY <1>1 DEF Middles
<1>2. CASE SecondsPlaceholder(opts.template) # 0
  <2> DEFINE field == [is |-> "S", value |-> ts.sec % Minute]
             Seconds == <<field>>
  <2>1. PICK f \in FractionalSeconds : middle = Seconds \o f
    BY <1>2, Zenon DEF Middles
  <2>2. PICK d : /\ ShownDigits(d)
                 /\ f = IF Precision = 0 THEN <<>> ELSE <<[is |-> "F", value |-> d]>>
    BY FractionShown
  <2>3. field.is = "S" /\ field.value \in Nat
    <3> DEFINE sec == ts.sec
    <3>1. Minute \in Nat \ {0} /\ sec \in Int
      BY UnixTimestampAssumption
    <3> HIDE DEF sec
    <3>2. sec % Minute \in 0 .. Minute - 1
      BY <3>1, ModRange
    <3>3. sec % Minute \in Nat
      BY <3>1, <3>2
    <3> QED BY <3>3 DEF sec
  <2> HIDE DEF field
  <2>4. CASE Precision = 0
    <3>1. middle = <<field>> \o <<>>
      BY <2>1, <2>2, <2>4
    <3>2. middle = <<field>>
      BY <3>1
    <3> QED BY <1>2, <2>3, <3>2
  <2>5. CASE Precision # 0
    <3> DEFINE digits == [is |-> "F", value |-> d]
    <3>1. middle = <<field>> \o <<digits>> /\ digits.is = "F"
      BY <2>1, <2>2, <2>5
    <3> HIDE DEF digits
    <3>2. <<field>> \in Seq({field, digits}) /\ <<digits>> \in Seq({field, digits})
      OBVIOUS
    <3>3. Len(middle) = 2 /\ middle[1] = field /\ middle[2] = digits
      <4> DEFINE x == <<field>>
                 y == <<digits>>
      <4>1. Len(x) = 1 /\ x[1] = field /\ Len(y) = 1 /\ y[1] = digits
        OBVIOUS
      <4> HIDE DEF x, y
      <4>2. /\ Len(x \o y) = Len(x) + Len(y)
            /\ \A k \in 1 .. Len(x) + Len(y) :
                 (x \o y)[k] = IF k <= Len(x) THEN x[k] ELSE y[k - Len(x)]
        BY <3>2, ConcatProperties DEF x, y
      <4>3. Len(x \o y) = 2 /\ (x \o y)[1] = field /\ (x \o y)[2] = digits
        BY <4>1, <4>2
      <4> QED BY <3>1, <4>3 DEF x, y
    <3> QED BY <1>2, <2>3, <3>1, <3>3
  <2> QED BY <2>4, <2>5
<1> QED BY <1>1, <1>2

\* A text time2unixts takes, if its seconds end where the template says, with
\* digits it can hold.
Readable(text) ==
    (Separate(opts.template) => Parsed(text)) /\ Len(Fraction(text)) <= 3

\* What strftime() makes of the text behind the seconds begins with nothing that
\* strtod() reads.
LEMMA SeparateBack ==
    ASSUME NEW sec \in Int, BackOf(opts.template) \in Seq(STRING), Separate(opts.template),
           Len(Strftime(BackOf(opts.template), sec)) > 0
    PROVE  LET b == Strftime(BackOf(opts.template), sec)
           IN  ~Numeric(b[1]) /\ b[1].value \notin {".", "e", "E"}
<1> DEFINE back == BackOf(opts.template)
           fields == Fields(back)
           b == Strftime(back, sec)
           Filled(field) ==
             CASE field.is = "M" -> [is |-> "M", value |-> sec \div Minute]
               [] field.is = "S" -> [is |-> "S", value |-> sec % Minute]
               [] OTHER -> field
<1>1. b = [k \in DOMAIN fields |-> Filled(fields[k])]
  BY Zenon DEF Strftime
<1>2. Len(b) = Len(fields) /\ fields \in Seq(TemplateFields)
  BY StrftimeLength, FieldsType
<1>3. fields # <<>> => ~Numeric(fields[1]) /\ fields[1].value \notin {".", "e", "E"}
  BY Zenon DEF Separate
<1>4. Len(b) > 0
  OBVIOUS
<1> HIDE DEF fields, b, Filled
<1>5. fields # <<>> /\ 1 \in DOMAIN fields
  BY <1>2, <1>4, LenProperties
<1>6. b[1] = Filled(fields[1])
  BY <1>1, <1>5
<1>7. fields[1].is = "literal"
  BY <1>3, <1>5 DEF Numeric
<1>8. Filled(fields[1]) = fields[1]
  BY <1>7 DEF Filled
<1>9. ~Numeric(b[1]) /\ b[1].value \notin {".", "e", "E"}
  BY <1>3, <1>5, <1>6, <1>8
<1> QED BY <1>9 DEF b

\* What unixts2time prints for a template can be read with it.
LEMMA TextReadable ==
    ASSUME unit \in Units, fractionDigits \in Nat, ts.nsec \in Nat, ts.sec \in Int,
           opts.template \in Seq(STRING), NEW middle \in Middles,
           NEW text, text = (Strftime(FrontOf(opts.template), ts.sec) \o middle)
                            \o Strftime(BackOf(opts.template), ts.sec)
    PROVE  Readable(text)
<1> DEFINE sec == ts.sec
           front == FrontOf(opts.template)
           back == BackOf(opts.template)
           a == Strftime(front, sec)
           b == Strftime(back, sec)
           n == Len(a)
           m == Len(middle)
           l == Len(b)
<1>1. front \in Seq(STRING) /\ back \in Seq(STRING) /\ sec \in Int
  BY FrontBackType
<1>2. a \in Seq(TimeFields) /\ b \in Seq(TimeFields) /\ middle \in Seq(TimeFields)
  <2> HIDE DEF front, back, sec
  <2> QED BY <1>1, StrftimeType, MiddleType
<1>3. text = (a \o middle) \o b
  OBVIOUS
<1>4. n = Len(Fields(front)) /\ l = Len(Fields(back))
  <2> HIDE DEF front, back, sec
  <2> QED BY <1>1, StrftimeLength
<1> HIDE DEF a, b
<1>5. /\ n \in Nat /\ m \in Nat /\ l \in Nat /\ Len(text) = (n + m) + l
      /\ \A k \in 1 .. n : text[k] = a[k]
      /\ \A k \in 1 .. m : text[n + k] = middle[k]
      /\ \A k \in 1 .. l : text[(n + m) + k] = b[k]
  BY <1>2, <1>3, ThreeParts
<1>6. Strptime(text, 0, front)
  <2>1. Len(text) >= 0 + n /\ Len(text) \in Nat
    <3> HIDE DEF n, m, l
    <3> QED BY <1>5
  <2>2. \A k \in 1 .. n : text[0 + k] = a[k]
    <3> HIDE DEF n
    <3> QED BY <1>5
  <2> HIDE DEF front, sec
  <2> QED BY <1>1, <2>1, <2>2, ReadBack DEF a
<1>7. Strptime(text, n + m, back)
  <2> DEFINE skip == n + m
  <2>1. Len(text) >= skip + l /\ Len(text) \in Nat /\ skip \in Nat
    <3> HIDE DEF n, m, l
    <3> QED BY <1>5
  <2>2. \A k \in 1 .. l : text[skip + k] = b[k]
    BY <1>5
  <2> HIDE DEF back, sec, skip
  <2>3. Strptime(text, skip, back)
    BY <1>1, <2>1, <2>2, ReadBack DEF b
  <2> QED BY <2>3 DEF skip
<1>8. ASSUME Separate(opts.template)  PROVE Parsed(text)
  <2>1. CASE SecondsPlaceholder(opts.template) = 0
    <3>1. m = 0
      BY <2>1, MiddleForm
    <3>2. front = opts.template /\ back = <<>>
      BY <2>1 DEF FrontOf, BackOf
    <3>3. l = 0
      BY <1>4, <3>2, FieldsEmpty
    <3>4. Len(text) = Len(Fields(opts.template))
      <4> HIDE DEF n, m, l
      <4>1. Len(text) = n
        BY <1>5, <3>1, <3>3
      <4> QED BY <1>4, <3>2, <4>1
    <3> QED BY <1>6, <2>1, <3>2, <3>4 DEF Parsed
  <2>2. CASE SecondsPlaceholder(opts.template) # 0
    <3>1. /\ m \in {1, 2} /\ middle[1].is = "S" /\ middle[1].value \in Nat
          /\ m = 2 => middle[2].is = "F"
      BY <2>2, MiddleForm
    <3>2. ASSUME l > 0  PROVE b[1].is # "F"
      <4>1. ~HasField(b, "F")
        <5> HIDE DEF back, sec
        <5> QED BY <1>1, StrftimeFields DEF b
      <4>2. 1 \in DOMAIN b
        <5>1. DOMAIN b = 1 .. Len(b) /\ Len(b) \in Nat
          BY <1>2, LenProperties
        <5> QED BY <3>2, <5>1
      <4> QED BY <4>1, <4>2 DEF HasField
    <3> HIDE DEF n, m, l
    <3>3. text[n + 1] = middle[1]
      BY <1>5, <3>1
    <3>4. HasFraction(text, n + 2) <=> m = 2
      <4>1. CASE m = 2
        <5>1. 2 \in 1 .. m
          BY <4>1
        <5>2. text[n + 2] = middle[2] /\ n + 2 <= Len(text)
          BY <1>5, <4>1, <5>1
        <5> QED BY <3>1, <4>1, <5>2 DEF HasFraction
      <4>2. CASE m = 1
        <5>1. CASE l = 0
          BY <1>5, <4>2, <5>1 DEF HasFraction
        <5>2. CASE l > 0
          <6>1. 1 \in 1 .. l /\ (n + m) + 1 = n + 2
            BY <1>5, <4>2, <5>2
          <6>2. text[n + 2] = b[1]
            BY <1>5, <6>1
          <6> QED BY <3>2, <4>2, <5>2, <6>2 DEF HasFraction
        <5> QED BY <1>5, <5>1, <5>2
      <4> QED BY <3>1, <4>1, <4>2
    <3>5. n + (IF HasFraction(text, n + 2) THEN 2 ELSE 1) = n + m
      BY <3>1, <3>4
    <3>6. Len(text) > n /\ text[n + 1].is = "S" /\ text[n + 1].value >= 0
      BY <1>5, <3>1, <3>3
    <3>r. ~ReadsOn(text, (n + m) + 1)
      <4>1. CASE l = 0
        <5>1. ~((n + m) + 1 <= Len(text))
          BY <1>5, <4>1
        <5> QED BY <5>1 DEF ReadsOn
      <4>2. CASE l > 0
        <5>1. text[(n + m) + 1] = b[1]
          BY <1>5, <4>2
        <5>2. ~Numeric(b[1]) /\ b[1].value \notin {".", "e", "E"}
          <6>1. Len(Strftime(back, sec)) > 0
            BY <4>2 DEF l, b
          <6> HIDE DEF back, sec
          <6> QED BY <1>1, <1>8, <6>1, SeparateBack DEF b, back
        <5> QED BY <5>1, <5>2, Zenon DEF ReadsOn
      <4> QED BY <1>5, <4>1, <4>2
    <3> DEFINE place == Len(Fields(FrontOf(opts.template)))
               used == place + (IF HasFraction(text, place + 2) THEN 2 ELSE 1)
    <3>7. place = n /\ used = n + m
      BY <1>4, <3>5
    <3>8. Len(text) = used + Len(Fields(BackOf(opts.template)))
      BY <1>4, <1>5, <3>7
    <3>9. Strptime(text, used, BackOf(opts.template)) /\ Strptime(text, 0, FrontOf(opts.template))
      BY <1>6, <1>7, <3>7
    <3>10. Len(text) > place /\ text[place + 1].is = "S" /\ text[place + 1].value >= 0
      BY <3>6, <3>7
    <3>11. ParsedWithFraction(text) <=>
             /\ Strptime(text, 0, FrontOf(opts.template))
             /\ Len(text) > place /\ text[place + 1].is = "S" /\ text[place + 1].value >= 0
             /\ ~ReadsOn(text, used + 1)
             /\ Strptime(text, used, BackOf(opts.template))
             /\ Len(text) = used + Len(Fields(BackOf(opts.template)))
      BY Zenon DEF ParsedWithFraction
    <3> HIDE DEF place, used
    <3>12. ParsedWithFraction(text)
      BY <3>r, <3>7, <3>8, <3>9, <3>10, <3>11
    <3> QED BY <2>2, <3>12 DEF Parsed
  <2> QED BY <2>1, <2>2
<1>9. Len(Fraction(text)) <= 3
  <2> DEFINE M == sec \div Minute
             S == sec % Minute
             am == a \o middle
  <2>1. PICK d : MiddleOf(middle, d)
    BY MiddleParts
  <2>2. Len(d) <= 3
    <3>1. Precision \in 0 .. 3
      BY PrecisionType
    <3> QED BY <2>1, <3>1 DEF MiddleOf, ShownDigits
  <2>3. Consistent(a, M, S, d) /\ Consistent(b, M, S, d) /\ Consistent(middle, M, S, d)
    <3>1. Consistent(middle, M, S, d)
      BY <2>1 DEF MiddleOf
    <3> HIDE DEF front, back, sec
    <3> QED BY <1>1, <3>1, StrftimeFields DEF a, b
  <2> HIDE DEF M, S
  <2>4. am \in Seq(TimeFields) /\ Consistent(am, M, S, d)
    BY <1>2, <2>3, ConcatProperties, FieldsConcat
  <2>5. text = am \o b
    BY <1>3
  <2> HIDE DEF am
  <2>6. Consistent(text, M, S, d)
    BY <1>2, <2>3, <2>4, <2>5, FieldsConcat
  <2>7. Fraction(text) \in {d, <<>>}
    <3>1. CASE HasField(text, "F")
      <4> DEFINE place == CHOOSE k \in DOMAIN text : text[k].is = "F"
      <4>1. \E k \in DOMAIN text : text[k].is = "F"
        BY <3>1 DEF HasField
      <4>2. place \in DOMAIN text /\ text[place].is = "F"
        BY <4>1
      <4>3. Fraction(text) = text[place].value
        BY <4>1 DEF Fraction, Field
      <4> HIDE DEF place
      <4>4. text[place].value = d
        BY <2>6, <4>2, Zenon DEF Consistent
      <4> QED BY <4>3, <4>4
    <3>2. CASE ~HasField(text, "F")
      BY <3>2 DEF Fraction, HasField
    <3> QED BY <3>1, <3>2
  <2>8. Len(<<>>) = 0
    OBVIOUS
  <2> QED BY <2>2, <2>7, <2>8
<1> QED BY <1>8, <1>9 DEF Readable

\* The base of the numbers time2unixts prints.
ShownBase == IF opts.base \in {"hex", "0x"} THEN 16 ELSE 10

EndTail == [kind |-> "end", digits |-> <<>>]

\* A number as time2unixts prints it.
IsWritten(line) ==
    /\ line.prefix = (opts.base = "0x")
    /\ opts.base # "float" => line.tail = EndTail
    /\ \E value \in Int : line.digits = Printed(value, ShownBase)

\* strtoll() takes all digits, if they are digits of its base, and nothing is left.
LEMMA AllTaken ==
    ASSUME NEW n \in AnyNumbers, n.tail = EndTail,
           \A i \in 1 .. Len(n.digits) : n.digits[i] < Base(n)
    PROVE  Rest(n).kind = "end"
<1> DEFINE s == n.digits
           len == Len(s)
           Taken(k) == \A i \in 1 .. k : s[i] < Base(n)
           Most(k) == Taken(k) /\ \A j \in k + 1 .. len : ~Taken(j)
           most == CHOOSE k \in 0 .. len : Most(k)
           left == SubSeq(s, Len(IntegerDigits(n)) + 1, len)
<1>1. s \in Seq(Nat) /\ len \in Nat /\ IntegerDigits(n) = SubSeq(s, 1, most)
      /\ \A k \in 1 .. len : s[k] \in Nat
  <2>1. s \in Seq(Nat)
    BY NumberParts
  <2>2. IntegerDigits(n) = SubSeq(s, 1, most)
    BY Zenon DEF IntegerDigits
  <2> HIDE DEF s, most
  <2>3. len \in Nat /\ \A k \in 1 .. len : s[k] \in Nat
    BY <2>1, LenProperties, ElementOfSeq
  <2> QED BY <2>1, <2>2, <2>3
<1>2. Taken(len)
  OBVIOUS
<1> HIDE DEF s, len
<1>3. len \in 0 .. len /\ Most(len)
  <2>1. len + 1 .. len = {}
    BY <1>1
  <2> QED BY <1>1, <1>2, <2>1
<1>4. most = len
  <2>1. most \in 0 .. len /\ Most(most)
    BY <1>3
  <2> HIDE DEF most
  <2>2. most # len => len \in most + 1 .. len
    BY <1>1, <2>1
  <2> QED BY <1>2, <2>1, <2>2
<1> HIDE DEF most
<1>5. Len(IntegerDigits(n)) = len
  <2>1. Len(SubSeq(s, 1, len)) = IF 1 <= len THEN (len - 1) + 1 ELSE 0
    BY <1>1, SubSeqProperties
  <2> QED BY <1>1, <1>4, <2>1
<1>6. left = <<>>
  <2> DEFINE at == len + 1
  <2>1. at \in Int /\ at >= 1 /\ ~(at <= len)
    BY <1>1
  <2>2. \A k \in at .. len : s[k] \in Nat
    BY <1>1
  <2> HIDE DEF at
  <2>3. SubSeq(s, at, len) \in Seq(Nat) /\ Len(SubSeq(s, at, len)) = 0
    BY <1>1, <2>1, <2>2, SubSeqProperties
  <2>4. SubSeq(s, at, len) = <<>>
    BY <2>3, EmptySeq
  <2> QED BY <1>5, <2>4 DEF at
<1>7. n.tail # [kind |-> "point", digits |-> <<>>] /\ n.tail.kind = "end"
  BY DEF EndTail
<1> DEFINE fraction == ValueOf(n.tail.digits, Step)
           places == IF n.tail.kind = "number" THEN 0 ELSE Len(n.tail.digits)
<1>8. left = <<>> /\ n.tail # [kind |-> "point", digits |-> <<>>] =>
        Rest(n) = [kind |-> n.tail.kind, value |-> fraction, places |-> places]
  BY Zenon DEF Rest, s, len
<1> HIDE DEF left, fraction, places
<1>9. Rest(n) = [kind |-> n.tail.kind, value |-> fraction, places |-> places]
  BY <1>6, <1>7, <1>8
<1> QED BY <1>7, <1>9

\* unixts2time reads a number of time2unixts to the base it has been printed in.
LEMMA WrittenRead ==
    ASSUME NEW line \in AnyNumbers, IsWritten(line), opts.base \in {"dec", "0x"}
    PROVE  /\ Rest(line).kind = "end" /\ line.tail = EndTail
           /\ NumberIn(line) = Signed(line.neg, Size(line))
<1> DEFINE s == line.digits
           B == ShownBase
<1>1. PICK value \in Int : s = Printed(value, B)
  BY DEF IsWritten
<1>2. B \in {10, 16} /\ (opts.base = "0x" <=> B = 16)
  BY DEF ShownBase
<1> HIDE DEF B
<1>3. B \in Nat /\ B > 1
  BY <1>2
<1>4. s \in Seq(0 .. B - 1)
  BY <1>1, <1>3, PrintedType
<1>5. Len(s) \in Nat /\ \A i \in 1 .. Len(s) : s[i] < B
  <2> HIDE DEF s
  <2>1. Len(s) \in Nat /\ \A i \in 1 .. Len(s) : s[i] \in 0 .. B - 1
    BY <1>4, LenProperties, ElementOfSeq
  <2> QED BY <1>3, <2>1
<1>6. s[1] = 0 => Len(s) = 1
  BY <1>1, <1>3, PrintedFirst
<1>7. Base(line) = B
  <2>1. CASE opts.base = "0x"
    BY <1>2, <2>1 DEF Base, IsWritten
  <2>2. CASE opts.base = "dec"
    <3>1. line.prefix = FALSE /\ B = 10
      BY <1>2, <2>2 DEF IsWritten
    <3>2. ~(Len(s) > 1 /\ s[1] = 0)
      <4> HIDE DEF s
      <4> QED BY <1>6
    <3> QED BY <3>1, <3>2 DEF Base
  <2> QED BY <2>1, <2>2
<1>8. line.tail = EndTail
  BY DEF IsWritten
<1>9. Rest(line).kind = "end"
  BY <1>5, <1>7, <1>8, AllTaken
<1>10. NumberIn(line) = Signed(line.neg, Size(line))
  <2>1. (IF opts.base \in {"hex", "0x"} THEN 16 ELSE 10) = B
    BY <1>2
  <2> QED BY <1>7, <2>1, Zenon DEF NumberIn, Size
<1> QED BY <1>8, <1>9, <1>10

\* What strtoll() returns fits.
LEMMA StrtollFits ==
    ASSUME NEW n \in AnyNumbers
    PROVE  Strtoll(n) \in Int /\ Fits(Strtoll(n))
<1> DEFINE x == Signed(n.neg, ValueOf(IntegerDigits(n), Base(n)))
<1>1. Strtoll(n) = IF Fits(x) THEN x ELSE IF n.neg THEN -Limit ELSE Limit - 1
  BY DEF Strtoll
<1> HIDE DEF x
<1>2. Fits(-Limit) /\ Fits(Limit - 1)
  BY UnixTimestampAssumption DEF Fits
<1> QED BY <1>1, <1>2, StrtollType

\* gmtime() converts each time that fits a long long.
LEMMA SecondsInRange ==
    ASSUME NEW x \in Int, Fits(x)
    PROVE  Timespec(x).sec \in -LastSecond .. LastSecond
<1> DEFINE sec == Timespec(x).sec
           nsec == Timespec(x).nsec
           p == LastSecond * Second
<1>1. sec \in Int /\ nsec \in 0 .. Second - 1 /\ sec * Second + nsec = x
  BY TimespecExact
<1>2. LastSecond \in Nat /\ Limit \in Nat \ {0} /\ Second \in Nat \ {0}
  BY UnixTimestampAssumption, SecondPositive
<1>3. p \in Nat /\ p >= Limit /\ (-LastSecond) * Second = -p
  <2>1. p \in Nat /\ (-LastSecond) * Second = -p
    BY <1>2
  <2> QED BY <2>1, LastSecondAssumption
<1>4. -Limit <= x /\ x < Limit
  BY DEF Fits
<1> HIDE DEF sec, nsec, p
<1>5. ~(sec > LastSecond)
  <2> SUFFICES ASSUME LastSecond <= sec - 1  PROVE FALSE
    BY <1>1, <1>2
  <2> DEFINE a == sec - 1
  <2>1. a \in Int /\ LastSecond <= a /\ a * Second = sec * Second - Second
    BY <1>1, <1>2
  <2> HIDE DEF a
  <2>2. LastSecond * Second <= a * Second
    BY <1>2, <2>1, Monotone
  <2>3. sec * Second \in Int
    BY <1>1, <1>2, Product
  <2> QED BY <1>1, <1>2, <1>3, <1>4, <2>1, <2>2, <2>3 DEF p
<1>6. ~(sec < -LastSecond)
  <2> SUFFICES ASSUME sec + 1 <= -LastSecond  PROVE FALSE
    BY <1>1, <1>2
  <2> DEFINE a == sec + 1
             e == -LastSecond
  <2>1. a \in Int /\ e \in Int /\ a <= e /\ a * Second = sec * Second + Second
        /\ e * Second = -p
    BY <1>1, <1>2, <1>3
  <2> HIDE DEF a, e
  <2>2. a * Second <= e * Second
    BY <1>2, <2>1, Monotone
  <2>3. sec * Second \in Int
    BY <1>1, <1>2, Product
  <2> QED BY <1>1, <1>2, <1>3, <1>4, <2>1, <2>2, <2>3
<1> QED BY <1>1, <1>2, <1>5, <1>6 DEF sec

-----------------------------------------------------------------------------
(* The lines of a run, for the other program *)

\* What a program prints has the form the other one reads.
FormInv ==
    /\ program = "unixts2time" => \A k \in DOMAIN out : Readable(out[k].text)
    /\ program = "time2unixts" => \A k \in DOMAIN out : IsWritten(out[k])

\* A number strtoll() can hold, and nothing but a fraction behind it.
IsPlain(n) == Rest(n).kind \in {"end", "point"} /\ Fits(Signed(n.neg, Size(n)))

\* The unit of such a number, while it is read and in its line, is the one of the
\* manual page.
UnitInv ==
    program = "unixts2time" /\ args # <<>> =>
      /\ pc \in {"rest", "convert", "print"} /\ IsPlain(args[arg]) => unit = UnitOf(args[arg])
      /\ \A k \in DOMAIN out : IsPlain(args[k]) => out[k].unit = UnitOf(args[k])

\* A run that ends well has printed a line for each argument.
DoneInv ==
    pc = "done" /\ status = 0 => Len(out) = IF args = <<>> THEN 1 ELSE Len(args)

LInv == IInv /\ FormInv /\ UnitInv /\ DoneInv

\* The lines with a new one.
LEMMA NewLine ==
    ASSUME IInv, NEW line, out' = Append(out, line)
    PROVE  /\ Len(out') = arg /\ arg \in DOMAIN out' /\ out'[arg] = line
           /\ \A k \in DOMAIN out' : k = arg \/ (k \in DOMAIN out /\ out'[k] = out[k])
<1>1. Len(out) = arg - 1 /\ Len(out) \in Nat /\ arg \in Nat \ {0}
  BY Lengths DEF IInv, PlaceInv
<1>2. out \in Seq(Lines) \/ out \in Seq(AnyNumbers)
  BY ConfigurationType DEF IInv, DataInv
<1>3. /\ Len(out') = Len(out) + 1 /\ DOMAIN out' = 1 .. Len(out) + 1
      /\ out'[Len(out) + 1] = line /\ DOMAIN out = 1 .. Len(out)
      /\ \A k \in 1 .. Len(out) : out'[k] = out[k]
  <2>1. CASE out \in Seq(Lines)
    BY <1>1, <2>1
  <2>2. CASE out \in Seq(AnyNumbers)
    BY <1>1, <2>2
  <2> QED BY <1>2, <2>1, <2>2
<1> QED BY <1>1, <1>3

\* Steps that print nothing keep the form of the lines.
LEMMA FormKept ==
    ASSUME FormInv, UNCHANGED <<configuration, out>>
    PROVE  FormInv'
<1>1. program' = program /\ opts' = opts /\ out' = out
  BY DEF configuration
<1>2. ASSUME NEW text, Readable(text)
      PROVE  Readable(text)'
  BY <1>1, <1>2, Zenon DEF Readable, Separate, Parsed, ParsedWithFraction
<1>3. ASSUME NEW line, IsWritten(line)
      PROVE  IsWritten(line)'
  BY <1>1, <1>3, Zenon DEF IsWritten, ShownBase
<1>4. program' = "unixts2time" => \A k \in DOMAIN out' : Readable(out[k].text)'
  BY <1>1, <1>2 DEF FormInv
<1>5. program' = "time2unixts" => \A k \in DOMAIN out' : IsWritten(out[k])'
  BY <1>1, <1>3 DEF FormInv
<1> QED BY <1>4, <1>5, Zenon DEF FormInv

\* A line of unixts2time has the form of the template.
LEMMA PrintTimeForm ==
    ASSUME LInv, PrintTime
    PROVE  FormInv'
<1> DEFINE front == FrontOf(opts.template)
           back == BackOf(opts.template)
           Line(middle) ==
             [text |-> Strftime(front, ts.sec) \o middle \o Strftime(back, ts.sec),
              number |-> IF ~opts.human THEN <<>>
                         ELSE <<Stored(Quotient(unixTS, Factor[unit]), FALSE)>>,
              unit |-> unit]
<1>1. program = "unixts2time" /\ UNCHANGED configuration
  BY DEF PrintTime
<1>2. PICK middle \in Middles : PrintLine(Line(middle))
  BY DEF PrintTime, Middles
<1> DEFINE line == Line(middle)
           text == (Strftime(front, ts.sec) \o middle) \o Strftime(back, ts.sec)
<1>3. line.text = text
  BY Zenon
<1>4. out' = Append(out, line)
  BY <1>2 DEF PrintLine
<1> HIDE DEF line
<1>5. /\ unit \in Units /\ fractionDigits \in Nat /\ ts.nsec \in Nat
      /\ ts.sec \in Int /\ opts.template \in Seq(STRING) /\ IInv
  <2>1. ts.nsec \in 0 .. Second - 1 /\ Second \in Nat
    BY SecondPositive DEF LInv, IInv, TypeOK
  <2> QED BY <2>1, ConfigurationType DEF LInv, IInv, TypeOK
<1>6. Readable(text)
  BY <1>2, <1>5, TextReadable
<1>7. \A k \in DOMAIN out' : Readable(out'[k].text)
  BY <1>1, <1>3, <1>4, <1>5, <1>6, NewLine DEF LInv, FormInv
<1>8. \A k \in DOMAIN out' : (Readable(out[k].text))'
  <2>1. opts' = opts
    BY <1>1 DEF configuration
  <2> QED BY <1>7, <2>1, Zenon DEF Readable, Separate, Parsed, ParsedWithFraction
<1>9. program' = "unixts2time"
  BY <1>1 DEF configuration
<1> QED BY <1>8, <1>9 DEF FormInv

\* A line of time2unixts has the form of its options.
LEMMA PrintTimestampForm ==
    ASSUME LInv, PrintTimestamp
    PROVE  FormInv'
<1> DEFINE u == IF opts.unit = "auto" THEN "ns" ELSE opts.unit
           value == Quotient(unixTS', Factor[u])
           base == IF opts.base \in {"hex", "0x"} THEN 16 ELSE 10
           Endings == IF opts.base # "float" THEN {[kind |-> "end", digits |-> <<>>]}
                      ELSE {[kind |-> "point", digits |-> Padded(n, FractionWidth(u))] :
                              n \in FractionalUnixTS(Remainder(unixTS', Factor[u]))}
           Line(tail) == [neg |-> value < 0, prefix |-> opts.base = "0x",
                          digits |-> Printed(value, base), tail |-> tail]
<1>1. /\ program = "time2unixts" /\ UNCHANGED configuration
      /\ unixTS' = Stored(Second * ts.sec + ts.nsec, build.time2unixts)
      /\ \E tail \in Endings : PrintLine(Line(tail))
  BY Zenon DEF PrintTimestamp
<1>2. /\ build.time2unixts \in BOOLEAN /\ opts.unit \in Units \cup {"auto"}
      /\ ts.sec \in Int /\ ts.nsec \in 0 .. Second - 1 /\ IInv
  BY ConfigurationType DEF LInv, IInv, TypeOK
<1>3. value \in Int
  <2>1. Second * ts.sec + ts.nsec \in Int
    BY <1>2, SecondPositive
  <2>2. unixTS' \in Int
    BY <1>1, <1>2, <2>1, StoredType
  <2>3. u \in Units
    BY <1>2 DEF Units
  <2> QED BY <2>2, <2>3, FactorType, QuotientRemainder
<1> HIDE DEF value
<1>4. PICK tail \in Endings : PrintLine(Line(tail))
  BY <1>1, Zenon
<1> DEFINE line == Line(tail)
<1>5. out' = Append(out, line)
  BY <1>4 DEF PrintLine
<1>6. line.prefix = (opts.base = "0x") /\ line.tail = tail
      /\ line.digits = Printed(value, base)
  BY Zenon
<1>7. opts.base # "float" => tail = EndTail
  BY <1>4 DEF EndTail
<1>8. base = ShownBase
  BY Zenon DEF ShownBase
<1> HIDE DEF line
<1>9. IsWritten(line)
  BY <1>3, <1>6, <1>7, <1>8, Zenon DEF IsWritten
<1>10. \A k \in DOMAIN out' : IsWritten(out'[k])
  BY <1>1, <1>2, <1>5, <1>9, NewLine DEF LInv, FormInv
<1>11. \A k \in DOMAIN out' : (IsWritten(out[k]))'
  <2>1. opts' = opts
    BY <1>1 DEF configuration
  <2> QED BY <1>10, <2>1, Zenon DEF IsWritten, ShownBase
<1>12. program' = "time2unixts"
  BY <1>1 DEF configuration
<1> QED BY <1>11, <1>12 DEF FormInv

\* ReadInteger finds the unit of the manual page.
LEMMA ReadUnit ==
    ASSUME IInv, ReadInteger, IsPlain(args[arg])
    PROVE  unit' = UnitOf(args[arg])
<1>n. PICK n : n = args[arg]
  OBVIOUS
<1> DEFINE x == Strtoll(n)
<1>1. /\ program = "unixts2time" /\ pc = "argument" /\ args # <<>>
      /\ unit' = (IF opts.unit = "auto" THEN DetectedUnit(x) ELSE opts.unit)
  BY <1>n DEF ReadInteger, AtArgument
<1>2. n \in AnyNumbers
  BY <1>n, <1>1, ArgumentType
<1>3. x = Signed(n.neg, Size(n))
  BY <1>n, <1>2, StrtollRegular DEF IsPlain
<1>4. DetectedUnit(x) = ManualUnit(n)
  BY <1>2, <1>3, DetectedManual
<1> QED BY <1>n, <1>1, <1>4 DEF UnitOf

\* Each step keeps the units.
LEMMA UnitStep == LInv /\ [Next]_vars => UnitInv'
<1> SUFFICES ASSUME LInv, [Next]_vars  PROVE UnitInv'
  OBVIOUS
<1>0. IInv /\ UnitInv
  BY DEF LInv
<1>1. CASE ReadInteger
  <2>1. /\ program = "unixts2time" /\ args # <<>> /\ out' = out /\ arg' = arg
        /\ opts' = opts /\ args' = args
    BY <1>1 DEF ReadInteger, AtArgument, configuration
  <2>2. IsPlain(args[arg]) => unit' = UnitOf(args[arg])
    BY <1>0, <1>1, ReadUnit
  <2>3. \A k \in DOMAIN out : IsPlain(args[k]) => out[k].unit = UnitOf(args[k])
    BY <1>0, <2>1 DEF UnitInv
  <2> QED BY <2>1, <2>2, <2>3, Zenon DEF UnitInv, UnitOf
<1>2. CASE ReadRest \/ ConvertToTime \/ UNCHANGED vars
  <2>1. /\ out' = out /\ arg' = arg /\ unit' = unit /\ program' = program
        /\ opts' = opts /\ args' = args
    BY <1>2 DEF ReadRest, ConvertToTime, configuration, vars
  <2>2. pc' \in {"rest", "convert", "print"} => pc \in {"rest", "convert", "print"}
    BY <1>2 DEF ReadRest, ConvertToTime, Goto, vars
  <2> QED BY <1>0, <2>1, <2>2, Zenon DEF UnitInv, UnitOf
<1>3. CASE RefuseTimestamp \/ RefuseTemplate
  <2>1. /\ out' = out /\ program' = program /\ opts' = opts /\ args' = args /\ pc' = "done"
    BY <1>3 DEF RefuseTimestamp, RefuseTemplate, Fail, configuration
  <2>2. pc' \notin {"rest", "convert", "print"}
    BY <2>1
  <2> QED BY <1>0, <2>1, <2>2, Zenon DEF UnitInv, UnitOf
<1>4. CASE TakeCurrentTime
  <2>1. args' = <<>>
    BY <1>4 DEF TakeCurrentTime, configuration
  <2> QED BY <2>1 DEF UnitInv
<1>5. CASE PrintTime
  <2> DEFINE Line(middle) ==
               [text |-> Strftime(FrontOf(opts.template), ts.sec) \o middle
                         \o Strftime(BackOf(opts.template), ts.sec),
                number |-> IF ~opts.human THEN <<>>
                           ELSE <<Stored(Quotient(unixTS, Factor[unit]), FALSE)>>,
                unit |-> unit]
  <2>1. program = "unixts2time" /\ opts' = opts /\ args' = args
    BY <1>5 DEF PrintTime, configuration
  <2>2. PICK middle \in Middles : PrintLine(Line(middle))
    BY <1>5 DEF PrintTime, Middles
  <2> DEFINE line == Line(middle)
  <2>3. line.unit = unit
    BY Zenon
  <2>4. out' = Append(out, line) /\ pc = "print" /\ pc' \in {"argument", "done"}
    BY <2>2 DEF PrintLine, Goto
  <2> HIDE DEF line
  <2>5. ASSUME args # <<>>
        PROVE  \A k \in DOMAIN out' : IsPlain(args[k]) => out'[k].unit = UnitOf(args[k])
    <3>1. IsPlain(args[arg]) => unit = UnitOf(args[arg])
      BY <1>0, <2>1, <2>4, <2>5 DEF UnitInv
    <3>2. \A k \in DOMAIN out : IsPlain(args[k]) => out[k].unit = UnitOf(args[k])
      BY <1>0, <2>1, <2>5 DEF UnitInv
    <3>3. \A k \in DOMAIN out' : k = arg \/ (k \in DOMAIN out /\ out'[k] = out[k])
      BY <1>0, <2>4, NewLine
    <3>4. out'[arg] = line
      BY <1>0, <2>4, NewLine
    <3> QED BY <2>3, <3>1, <3>2, <3>3, <3>4
  <2>6. pc' \notin {"rest", "convert", "print"}
    BY <2>4
  <2> QED BY <2>1, <2>5, <2>6, Zenon DEF UnitInv, UnitOf
<1>6. CASE ParseTime \/ ReadClock \/ RefuseTime \/ PrintTimestamp
  <2>1. program' # "unixts2time"
    BY <1>6 DEF ParseTime, ReadClock, RefuseTime, PrintTimestamp, AtArgument, configuration
  <2> QED BY <2>1 DEF UnitInv
<1>7. CASE Pipe
  <2>1. out' = <<>> /\ pc' = "argument"
    BY <1>7 DEF Pipe
  <2>2. DOMAIN out' = {}
    BY <2>1
  <2> QED BY <2>1, <2>2 DEF UnitInv
<1> QED BY <1>1, <1>2, <1>3, <1>4, <1>5, <1>6, <1>7 DEF Next

\* ... the form of the lines,
LEMMA FormStep == LInv /\ [Next]_vars => FormInv'
<1> SUFFICES ASSUME LInv, [Next]_vars  PROVE FormInv'
  OBVIOUS
<1>1. CASE PrintTime
  BY <1>1, PrintTimeForm
<1>2. CASE PrintTimestamp
  BY <1>2, PrintTimestampForm
<1>3. CASE Pipe
  <2>1. out' = <<>>
    BY <1>3 DEF Pipe
  <2>2. DOMAIN out' = {}
    BY <2>1
  <2> QED BY <2>2 DEF FormInv
<1>4. CASE UNCHANGED <<configuration, out>>
  BY <1>4, FormKept DEF LInv
<1>5. PrintTime \/ PrintTimestamp \/ Pipe \/ UNCHANGED <<configuration, out>>
  BY DEF Next, ReadInteger, TakeCurrentTime, ReadRest, RefuseTimestamp, ConvertToTime,
         RefuseTemplate, ParseTime, ReadClock, RefuseTime, Fail, vars
<1> QED BY <1>1, <1>2, <1>3, <1>4, <1>5

\* ... and their number.
LEMMA DoneStep == LInv /\ [Next]_vars => DoneInv'
<1> SUFFICES ASSUME LInv, [Next]_vars, pc' = "done", status' = 0
             PROVE  Len(out') = IF args' = <<>> THEN 1 ELSE Len(args')
  BY DEF DoneInv
<1>0. IInv /\ DoneInv
  BY DEF LInv
<1>1. ASSUME NEW line, PrintLine(line), UNCHANGED configuration
      PROVE  Len(out') = IF args' = <<>> THEN 1 ELSE Len(args')
  <2>1. out' = Append(out, line) /\ pc = "print" /\ ~(arg < Len(args)) /\ args' = args
    BY <1>1 DEF PrintLine, Goto, configuration
  <2>2. Len(out') = arg
    BY <1>0, <2>1, NewLine
  <2>3. arg \in 1 .. Len(args) \/ (args = <<>> /\ arg = 1)
    BY <1>0, <2>1 DEF IInv, PlaceInv
  <2>4. Len(args) \in Nat /\ (args = <<>> => Len(args) = 0)
    BY <1>0, Lengths
  <2> QED BY <2>1, <2>2, <2>3, <2>4
<1>2. CASE PrintTime
  <2>1. UNCHANGED configuration /\ \E line : PrintLine(line)
    BY <1>2 DEF PrintTime
  <2> QED BY <1>1, <2>1
<1>3. CASE PrintTimestamp
  <2>1. UNCHANGED configuration /\ \E line : PrintLine(line)
    BY <1>3 DEF PrintTimestamp
  <2> QED BY <1>1, <2>1
<1>4. CASE UNCHANGED vars
  BY <1>0, <1>4 DEF vars, configuration, DoneInv
<1>5. CASE ReadInteger \/ TakeCurrentTime \/ ReadRest \/ ParseTime \/ ReadClock \/ Pipe
  <2>1. pc' # "done"
    BY <1>5 DEF ReadInteger, TakeCurrentTime, ReadRest, ParseTime, ReadClock, Pipe, Goto
  <2> QED BY <2>1
<1>6. CASE RefuseTimestamp \/ RefuseTemplate \/ RefuseTime
  BY <1>6 DEF RefuseTimestamp, RefuseTemplate, RefuseTime, Fail
<1>7. CASE ConvertToTime
  BY <1>7 DEF ConvertToTime
<1> QED BY <1>2, <1>3, <1>4, <1>5, <1>6, <1>7 DEF Next

\* All of them together.
LEMMA LinesStep == LInv /\ [Next]_vars => LInv'
BY StepInv, FormStep, UnitStep, DoneStep DEF LInv

-----------------------------------------------------------------------------
(* The run before *)

\* A text for which an integer n has been read in the unit u tells its time.
NumberTold(n, u, text) ==
    /\ n \in AnyNumbers /\ u \in Units
    /\ WholeTime(opts.template) /\ Regular(n, u) /\ n.tail.kind = "end"
       /\ (u = "s" \/ SecondsPlaceholder(opts.template) # 0)
       => TimeIn(text) = Signed(n.neg, Size(n) * Factor[u])

\* A number printed in ns for a text, if that fits, is its time.
TimeTold(text, n) ==
    Len(Fraction(text)) <= 3 /\ Fits(TimeIn(text)) => Signed(n.neg, Size(n)) = TimeIn(text)

\* The options with which a time has to come back.
Exact == /\ first[1].opts.base \in {"dec", "0x"}
         /\ first[1].opts.unit \in {"auto", "ns"} /\ opts.unit = "ns"
         /\ WholeTime(opts.template) /\ SecondsPlaceholder(opts.template) > 1

\* What time2unixts has got from unixts2time, and the other way around.
TextsTold ==
    /\ \A k \in DOMAIN args : Readable(args[k])
    /\ \A k \in DOMAIN first[1].args :
         NumberTold(first[1].args[k], first[1].out[k].unit, args[k])
NumbersTold ==
    Exact => /\ \A k \in DOMAIN args : Rest(args[k]).kind = "end" /\ args[k].tail = EndTail
             /\ \A k \in DOMAIN first[1].args : TimeTold(first[1].args[k], args[k])

\* The second run refuses nothing of it, unless strtod() reads on.
HistoryInv ==
    first # <<>> =>
      /\ DOMAIN first[1].args \subseteq DOMAIN args
      /\ program = "time2unixts" => TextsTold /\ (Separate(opts.template) => status = 0)
      /\ program = "unixts2time" =>
           /\ NumbersTold
           /\ Exact /\ args # <<>> =>
                status = 0 /\ (pc \in {"rest", "convert"} => Fits(unixTS))

RInv == TInv /\ NInv /\ LInv /\ HistoryInv

\* The time of an integer.
LEMMA WholeManual ==
    ASSUME NEW n \in AnyNumbers, n.tail.digits = <<>>, NEW u \in Units
    PROVE  ManualTime(n, u) = Signed(n.neg, Size(n) * Factor[u]) /\ ManualTime(n, u) \in Int
<1>1. n.neg \in BOOLEAN /\ Size(n) \in Nat /\ Factor[u] \in Nat \ {0}
  BY NumberParts, FactorType
<1>2. ValueOf(n.tail.digits, Step) = 0 /\ Scale(Len(n.tail.digits)) = 1
  <2>1. Step \in Nat /\ Len(n.tail.digits) = 0
    BY UnixTimestampAssumption
  <2> QED BY <2>1, ValueEmpty, Scales
<1>3. (ValueOf(n.tail.digits, Step) * Factor[u]) \div Scale(Len(n.tail.digits)) = 0
  <2> DEFINE F == Factor[u]
  <2>1. F \in Nat
    BY <1>1
  <2> HIDE DEF F
  <2>2. (0 * F) \div 1 = 0
    BY <2>1
  <2> QED BY <1>2, <2>2 DEF F
<1> DEFINE p == Size(n) * Factor[u]
<1>4. p \in Nat
  BY <1>1, Product
<1>5. ManualTime(n, u)
        = Signed(n.neg, p + ((ValueOf(n.tail.digits, Step) * Factor[u])
                               \div Scale(Len(n.tail.digits))))
  BY Zenon DEF ManualTime, Size
<1> HIDE DEF p
<1>6. ManualTime(n, u) = Signed(n.neg, p)
  BY <1>3, <1>4, <1>5
<1>7. Signed(n.neg, p) \in Int
  BY <1>4 DEF Signed
<1> QED BY <1>6, <1>7 DEF p

\* A line of unixts2time tells the time of an integer.
LEMMA NumberHandedOver ==
    ASSUME TInv, LInv, program = "unixts2time", NEW k \in DOMAIN args, k \in DOMAIN out
    PROVE  NumberTold(args[k], out[k].unit, out[k].text)
<1> DEFINE n == args[k]
           u == out[k].unit
           text == out[k].text
<1>1. n \in AnyNumbers /\ out[k] \in Lines
  <2>1. args \in Seq(AnyNumbers) /\ out \in Seq(Lines)
    BY DEF TInv, IInv, DataInv
  <2> QED BY <2>1, ElementOfSeq, LenProperties
<1>2. u \in Units
  BY <1>1 DEF Lines
<1>3. args # <<>>
  OBVIOUS
<1>4. IsPlain(n) => u = UnitOf(n)
  BY <1>3 DEF LInv, UnitInv
<1>5. TellsInput(out[k], k)
  BY TimeIsInputForm DEF TInv
<1> SUFFICES ASSUME WholeTime(opts.template), Regular(n, u), n.tail.kind = "end",
                    u = "s" \/ SecondsPlaceholder(opts.template) # 0
             PROVE  TimeIn(text) = Signed(n.neg, Size(n) * Factor[u])
  BY <1>1, <1>2, Zenon DEF NumberTold
<1>6. IsPlain(n)
  BY Zenon DEF Regular, IsPlain, Size
<1>7. n.tail.digits = <<>>
  BY <1>1, NumberParts
<1>8. Tells(text, ManualTime(n, u), n)
  <2>1. Regular(args[k], UnitOf(args[k]))
    BY <1>4, <1>6
  <2>2. WholeTime(opts.template)
          => Tells(out[k].text, ManualTime(args[k], UnitOf(args[k])), args[k])
    BY <1>3, <1>5, <2>1, Zenon DEF TellsInput
  <2> QED BY <1>4, <1>6, <2>2
<1> DEFINE T == ManualTime(n, u)
<1>9. T = Signed(n.neg, Size(n) * Factor[u]) /\ T \in Int
  BY <1>1, <1>2, <1>7, WholeManual
<1> HIDE DEF T, n, u, text
<1>10. CASE SecondsPlaceholder(opts.template) # 0
  <2>1. TimeIn(text) \in {T} \/ TimeIn(text) = T
    BY <1>7, <1>8, <1>10, Zenon DEF Tells, T
  <2> QED BY <1>9, <2>1
<1>11. CASE SecondsPlaceholder(opts.template) = 0
  <2>1. \E t \in {T} : TimeIn(text) = Second * (t \div Second)
    BY <1>7, <1>8, <1>11, Zenon DEF Tells, T
  <2>2. u = "s" /\ Factor[u] = Second
    BY <1>11 DEF Second
  <2>3. Second \in Nat \ {0} /\ Size(n) \in Nat
    BY <1>1, SecondPositive, NumberParts DEF n
  <2> DEFINE q == Signed(n.neg, Size(n))
  <2>4. q \in Int /\ T = Second * q + 0
    BY <1>9, <2>2, <2>3, Product DEF Signed
  <2> HIDE DEF q
  <2>5. 0 \in 0 .. Second - 1
    BY <2>3
  <2>6. T \div Second = q
    BY <1>9, <2>3, <2>4, <2>5, DivUnique
  <2>7. Second * q \in Int
    BY <2>3, <2>4, Product
  <2> QED BY <1>9, <2>1, <2>4, <2>6, <2>7
<1> QED BY <1>10, <1>11 DEF text, n, u

\* A text with up to three digits of a fraction tells one time.
LEMMA ToldOne ==
    ASSUME IInv, program = "time2unixts", NEW k \in DOMAIN args, Len(Fraction(args[k])) <= 3
    PROVE  TimeIn(args[k]) \in Int /\ ToldTimes(k) = {TimeIn(args[k])}
<1> DEFINE text == args[k]
           digits == Fraction(text)
           s == Second * (Minute * Field(text, "M") + Field(text, "S"))
           v == ValueOf(digits, Step) * Scale(3 - Len(digits))
<1>1. text \in Seq(TimeFields) /\ args # <<>>
  <2>1. args \in Seq(Seq(TimeFields))
    BY DEF IInv, DataInv
  <2> QED BY <2>1, ElementOfSeq, LenProperties
<1>2. digits \in Seq(Digits) /\ Field(text, "M") \in Int /\ Field(text, "S") \in Int
  BY <1>1, FieldType
<1>3. Nanoseconds(digits) = {v}
  <2> HIDE DEF digits
  <2>1. Len(digits) <= 3
    BY DEF digits
  <2> QED BY <1>2, <2>1, NanosecondsExact
<1>4. ToldTimes(k) = {s + ns : ns \in Nanoseconds(digits)}
  BY <1>1, Zenon DEF ToldTimes
<1>5. TimeIn(text) = s + v
  BY Zenon DEF TimeIn
<1>6. s \in Int
  <2> DEFINE m == Field(text, "M")
             x == Field(text, "S")
  <2>1. m \in Int /\ x \in Int
    BY <1>2
  <2> HIDE DEF m, x
  <2>2. Minute * m \in Int /\ Second \in Nat
    BY <2>1, Product, UnixTimestampAssumption, SecondPositive
  <2>3. Minute * m + x \in Int
    BY <2>1, <2>2
  <2>4. Second * (Minute * m + x) \in Int
    BY <2>2, <2>3, Product
  <2> QED BY <2>4 DEF m, x
<1>7. v \in Int
  <2> HIDE DEF digits
  <2>1. Len(digits) \in Nat /\ Len(digits) <= 3
    BY <1>2, LenProperties DEF digits
  <2>2. Scale(3 - Len(digits)) \in Nat
    <3>1. 3 - Len(digits) \in Nat
      BY <2>1
    <3> QED BY <3>1, ScaleType
  <2>3. ValueOf(digits, Step) \in Nat
    BY <1>2, ValueBelowScale, ValueType, UnixTimestampAssumption
  <2> QED BY <2>2, <2>3, Product
<1> HIDE DEF s, v, digits
<1> QED BY <1>3, <1>4, <1>5, <1>6, <1>7

\* A line of time2unixts in ns is the time of a text.
LEMMA TimeHandedOver ==
    ASSUME NInv, LInv, program = "time2unixts", opts.base \in {"dec", "0x"},
           opts.unit \in {"auto", "ns"}, NEW k \in DOMAIN args, k \in DOMAIN out
    PROVE  TimeTold(args[k], out[k])
<1> DEFINE text == args[k]
           line == out[k]
           T == TimeIn(text)
<1> SUFFICES ASSUME Len(Fraction(text)) <= 3, Fits(T)
             PROVE  Signed(line.neg, Size(line)) = T
  BY Zenon DEF TimeTold
<1>1. line \in AnyNumbers
  <2>1. out \in Seq(AnyNumbers)
    BY DEF NInv, IInv, DataInv
  <2> QED BY <2>1, ElementOfSeq, LenProperties
<1>2. Shows(line, ToldTimes(k))
  BY NumberIsTimeForm DEF NInv
<1>3. IsWritten(line)
  BY DEF LInv, FormInv
<1>4. T \in Int /\ ToldTimes(k) = {T}
  BY ToldOne DEF NInv
<1> HIDE DEF T, text, line
<1>5. UnitAsked = "ns" /\ Factor[UnitAsked] = 1
  BY DEF UnitAsked, Factor
<1>6. NumberIn(line) = Quotient(T, 1)
  <2>1. \A t \in ToldTimes(k) : Fits(t)
    BY <1>4
  <2> QED BY <1>2, <1>4, <1>5, <2>1 DEF Shows
<1>7. Quotient(T, 1) = T
  BY <1>4 DEF Quotient
<1>8. NumberIn(line) = Signed(line.neg, Size(line))
  BY <1>1, <1>3, WrittenRead DEF line
<1> QED BY <1>6, <1>7, <1>8

\* What unixts2time has printed is handed over.
LEMMA PipeTexts ==
    ASSUME RInv, Pipe, program = "unixts2time"
    PROVE  HistoryInv'
<1>1. /\ pc = "done" /\ status = 0 /\ status' = 0 /\ program' = "time2unixts"
      /\ first' = <<[args |-> args, opts |-> opts, out |-> out]>>
      /\ args' = [k \in DOMAIN out |-> out[k].text]
      /\ opts'.template = opts.template /\ build' = build
  BY DEF Pipe
<1> DEFINE before == [args |-> args, opts |-> opts, out |-> out]
<1>2. first'[1] = before /\ before.args = args /\ before.out = out
  BY <1>1
<1> HIDE DEF before
<1>3. DOMAIN args \subseteq DOMAIN out
  <2>1. args # <<>> => Len(out) = Len(args)
    BY <1>1 DEF RInv, LInv, DoneInv
  <2>2. args \in Seq(AnyNumbers) /\ out \in Seq(Lines)
    BY DEF RInv, TInv, IInv, DataInv
  <2>3. DOMAIN args = 1 .. Len(args) /\ DOMAIN out = 1 .. Len(out)
    BY <2>2
  <2>4. args = <<>> => DOMAIN args = {}
    OBVIOUS
  <2> QED BY <2>1, <2>3, <2>4
<1>4. ASSUME NEW k \in DOMAIN args'  PROVE Readable(args[k])'
  <2>1. k \in DOMAIN out /\ args'[k] = out[k].text
    BY <1>1
  <2>2. Readable(args'[k])
    BY <2>1 DEF RInv, LInv, FormInv
  <2> QED BY <1>1, <2>2, Zenon DEF Readable, Separate, Parsed, ParsedWithFraction
<1>5. ASSUME NEW k \in DOMAIN args
      PROVE  NumberTold(first[1].args[k], first[1].out[k].unit, args[k])'
  <2>1. k \in DOMAIN out /\ args'[k] = out[k].text
    BY <1>1, <1>3
  <2>2. NumberTold(args[k], out[k].unit, out[k].text)
    BY <2>1, NumberHandedOver DEF RInv
  <2>3. first[1]'.args = args /\ first[1]'.out = out
    BY <1>2
  <2> QED BY <1>1, <2>1, <2>2, <2>3, Zenon DEF NumberTold, Regular
<1>6. TextsTold'
  <2>1. DOMAIN first[1]'.args = DOMAIN args
    BY <1>2
  <2> QED BY <1>4, <1>5, <2>1, Zenon DEF TextsTold
<1>7. DOMAIN first'[1].args \subseteq DOMAIN args'
  <2>1. DOMAIN args' = DOMAIN out
    BY <1>1
  <2> QED BY <1>2, <1>3, <2>1
<1> QED BY <1>1, <1>6, <1>7, Zenon DEF HistoryInv

\* What time2unixts has printed is handed over.
LEMMA PipeNumbers ==
    ASSUME RInv, Pipe, program = "time2unixts"
    PROVE  HistoryInv'
<1>1. /\ pc = "done" /\ status = 0 /\ status' = 0 /\ program' = "unixts2time"
      /\ pc' = "argument"
      /\ first' = <<[args |-> args, opts |-> opts, out |-> out]>>
      /\ args' = out /\ opts'.template = opts.template
  BY DEF Pipe
<1> DEFINE before == [args |-> args, opts |-> opts, out |-> out]
<1>2. first'[1] = before /\ before.args = args /\ before.opts = opts
  BY <1>1
<1> HIDE DEF before
<1>3. out \in Seq(AnyNumbers) /\ args \in Seq(Seq(TimeFields))
  BY DEF RInv, TInv, IInv, DataInv
<1>4. DOMAIN args \subseteq DOMAIN out
  <2>1. args # <<>> => Len(out) = Len(args)
    BY <1>1 DEF RInv, LInv, DoneInv
  <2>2. DOMAIN args = 1 .. Len(args) /\ DOMAIN out = 1 .. Len(out)
    BY <1>3
  <2>3. args = <<>> => DOMAIN args = {}
    OBVIOUS
  <2> QED BY <2>1, <2>2, <2>3
<1>5. ASSUME Exact'
      PROVE  opts.base \in {"dec", "0x"} /\ opts.unit \in {"auto", "ns"}
  BY <1>2, <1>5 DEF Exact
<1>6. ASSUME Exact', NEW k \in DOMAIN args'
      PROVE  (Rest(args[k]).kind = "end" /\ args[k].tail = EndTail)'
  <2>1. k \in DOMAIN out /\ args'[k] = out[k]
    BY <1>1, <1>6
  <2>2. out[k] \in AnyNumbers
    BY <1>3, <2>1, LenProperties, ElementOfSeq
  <2>3. IsWritten(out[k])
    BY <2>1 DEF RInv, LInv, FormInv
  <2>4. Rest(out[k]).kind = "end" /\ out[k].tail = EndTail
    BY <1>5, <1>6, <2>2, <2>3, WrittenRead
  <2> QED BY <2>1, <2>4
<1>7. ASSUME Exact', NEW k \in DOMAIN args
      PROVE  TimeTold(first[1].args[k], args[k])'
  <2>1. k \in DOMAIN out /\ args'[k] = out[k]
    BY <1>1, <1>4
  <2>2. TimeTold(args[k], out[k])
    BY <1>5, <1>7, <2>1, TimeHandedOver DEF RInv
  <2>3. first[1]'.args = args
    BY <1>2
  <2> QED BY <2>1, <2>2, <2>3, Zenon DEF TimeTold
<1>8. NumbersTold'
  <2>1. DOMAIN first[1]'.args = DOMAIN args
    BY <1>2
  <2> QED BY <1>6, <1>7, <2>1, Zenon DEF NumbersTold
<1>9. DOMAIN first'[1].args \subseteq DOMAIN args'
  BY <1>1, <1>2, <1>4
<1>10. pc' \notin {"rest", "convert"} /\ program' # "time2unixts"
  BY <1>1
<1> QED BY <1>1, <1>8, <1>9, <1>10, Zenon DEF HistoryInv

\* While a program runs, its arguments and the run before are the same.
LEMMA HistoryKept ==
    ASSUME HistoryInv, UNCHANGED configuration,
           first # <<>> /\ program = "time2unixts" /\ Separate(opts.template) => status' = 0,
           first # <<>> /\ program = "unixts2time" /\ Exact /\ args # <<>> =>
             status' = 0 /\ (pc' \in {"rest", "convert"} => Fits(unixTS'))
    PROVE  HistoryInv'
<1>1. build' = build /\ opts' = opts /\ args' = args /\ program' = program /\ first' = first
  BY DEF configuration
<1>2. TextsTold => TextsTold'
  BY <1>1, Zenon DEF TextsTold, Readable, Separate, Parsed, ParsedWithFraction, NumberTold, Regular
<1>3. NumbersTold => NumbersTold'
  BY <1>1, Zenon DEF NumbersTold, Exact
<1>4. Exact' => Exact
  BY <1>1, Zenon DEF Exact
<1> QED BY <1>1, <1>2, <1>3, <1>4, Zenon DEF HistoryInv

\* The second run of unixts2time, of numbers in ns: what is kept fits, and nothing
\* is refused.
LEMMA NumbersRead ==
    ASSUME RInv, first # <<>>, program = "unixts2time", Exact, args # <<>>,
           \/ ReadInteger \/ TakeCurrentTime \/ ReadRest \/ RefuseTimestamp
           \/ ConvertToTime \/ PrintTime \/ RefuseTemplate
    PROVE  status' = 0 /\ (pc' \in {"rest", "convert"} => Fits(unixTS'))
<1>1. IInv /\ status = 0 /\ (pc \in {"rest", "convert"} => Fits(unixTS)) /\ unixTS \in Int
  BY DEF RInv, TInv, HistoryInv, IInv, DataInv
<1>2. ASSUME pc # "done"
      PROVE  args[arg] \in AnyNumbers /\ Rest(args[arg]).kind = "end"
  <2>1. arg \in 1 .. Len(args) /\ args \in Seq(AnyNumbers)
    BY <1>1, <1>2 DEF IInv, PlaceInv, DataInv
  <2>2. arg \in DOMAIN args
    BY <2>1
  <2>3. args[arg] \in AnyNumbers
    BY <2>1, ElementOfSeq
  <2>4. Rest(args[arg]).kind = "end"
    BY <2>2 DEF RInv, HistoryInv, NumbersTold
  <2> QED BY <2>3, <2>4
<1>3. EndTail.kind = "end"
  BY DEF EndTail
<1>4. CASE ReadInteger
  <2> DEFINE n == args[arg]
             x == Strtoll(n)
  <2>1. /\ pc = "argument" /\ status' = status
        /\ unit' = IF opts.unit = "auto" THEN DetectedUnit(x) ELSE opts.unit
        /\ unixTS' = Stored(x * Factor[unit'], build.unixts2time)
    BY <1>4, Zenon DEF ReadInteger, AtArgument
  <2>2. x \in Int /\ Fits(x)
    BY <1>2, <2>1, StrtollFits
  <2>3. unit' = "ns" /\ Factor[unit'] = 1
    BY <2>1 DEF Exact, Factor
  <2> HIDE DEF x
  <2>4. x * Factor[unit'] = x
    BY <2>2, <2>3
  <2>5. build.unixts2time \in BOOLEAN
    BY <1>1, ConfigurationType DEF IInv
  <2>6. unixTS' = x
    BY <2>1, <2>2, <2>4, <2>5, StoredFits
  <2> QED BY <1>1, <2>1, <2>2, <2>6
<1>5. CASE TakeCurrentTime
  BY <1>5 DEF TakeCurrentTime
<1>6. CASE ReadRest
  <2>1. pc = "rest" /\ status' = status
    BY <1>6 DEF ReadRest, Goto
  <2>2. Rest(args[arg]).kind = "end"
    BY <1>2, <1>3, <2>1
  <2>3. unixTS' = unixTS
    BY <1>6, <2>2 DEF ReadRest
  <2> QED BY <1>1, <2>1, <2>3
<1>7. CASE RefuseTimestamp
  <2>1. pc = "rest" /\ Rest(args[arg]).kind = "junk"
    BY <1>7 DEF RefuseTimestamp
  <2> QED BY <1>2, <1>3, <2>1
<1>8. CASE ConvertToTime
  <2>1. /\ pc = "convert" /\ ts' = Timespec(unixTS)
        /\ ts'.sec \in -LastSecond .. LastSecond => pc' = "print" /\ status' = status
    BY <1>8 DEF ConvertToTime
  <2>2. Timespec(unixTS).sec \in -LastSecond .. LastSecond
    BY <1>1, <2>1, SecondsInRange
  <2> QED BY <1>1, <2>1, <2>2
<1>9. CASE PrintTime
  <2>1. status' = status /\ pc' \in {"argument", "done"}
    BY <1>9 DEF PrintTime, PrintLine, Goto
  <2> QED BY <1>1, <2>1
<1>10. CASE RefuseTemplate
  <2> DEFINE template == opts.template
             place == SecondsPlaceholder(template)
             b == place - 1
  <2>1. FrontOf(template) = <<>> /\ place > 1
    BY <1>10 DEF RefuseTemplate, Exact
  <2>2. template \in Seq(STRING)
    BY <1>1, ConfigurationType DEF IInv
  <2>3. place \in 0 .. Len(template) /\ Len(template) \in Nat
    <3> HIDE DEF template
    <3> QED BY <2>2, PlaceholderType, LenProperties
  <2>4. FrontOf(template) = SubSeq(template, 1, b)
    BY <2>1, <2>3 DEF FrontOf
  <2>5. b \in Nat \ {0} /\ b <= Len(template)
    BY <2>1, <2>3
  <2> HIDE DEF b, place, template
  <2>6. \A i \in 1 .. b : template[i] \in STRING
    <3>1. \A i \in 1 .. b : i \in 1 .. Len(template)
      BY <2>3, <2>5
    <3> QED BY <2>2, <3>1, ElementOfSeq
  <2>7. Len(SubSeq(template, 1, b)) = b
    <3>1. Len(SubSeq(template, 1, b)) = IF 1 <= b THEN b - 1 + 1 ELSE 0
      BY <2>5, <2>6, SubSeqProperties
    <3> QED BY <2>5, <3>1
  <2>8. Len(<<>>) = 0
    OBVIOUS
  <2> QED BY <2>1, <2>4, <2>5, <2>7, <2>8
<1> QED BY <1>4, <1>5, <1>6, <1>7, <1>8, <1>9, <1>10

\* Each step keeps what the run before has handed over.
LEMMA HistoryStep == RInv /\ [Next]_vars => HistoryInv'
<1> SUFFICES ASSUME RInv, [Next]_vars  PROVE HistoryInv'
  OBVIOUS
<1>0. HistoryInv /\ IInv
  BY DEF RInv, TInv
<1>1. CASE \/ ReadInteger \/ TakeCurrentTime \/ ReadRest \/ RefuseTimestamp
           \/ ConvertToTime \/ PrintTime \/ RefuseTemplate
  <2>1. program = "unixts2time" /\ UNCHANGED configuration
    BY <1>1 DEF ReadInteger, TakeCurrentTime, ReadRest, RefuseTimestamp, ConvertToTime,
                PrintTime, RefuseTemplate, AtArgument
  <2>2. first # <<>> /\ program = "unixts2time" /\ Exact /\ args # <<>> =>
          status' = 0 /\ (pc' \in {"rest", "convert"} => Fits(unixTS'))
    BY <1>1, NumbersRead
  <2> QED BY <1>0, <2>1, <2>2, HistoryKept
<1>2. CASE ParseTime \/ ReadClock \/ PrintTimestamp
  <2>1. program = "time2unixts" /\ UNCHANGED configuration /\ status' = status
    BY <1>2 DEF ParseTime, ReadClock, PrintTimestamp, AtArgument
  <2>2. first # <<>> /\ Separate(opts.template) => status = 0
    BY <1>0, <2>1 DEF HistoryInv
  <2> QED BY <1>0, <2>1, <2>2, HistoryKept
<1>3. CASE RefuseTime
  <2>1. /\ program = "time2unixts" /\ UNCHANGED configuration /\ pc = "argument"
        /\ args # <<>> /\ ~Parsed(args[arg])
    BY <1>3 DEF RefuseTime, AtArgument
  <2>2. arg \in 1 .. Len(args) /\ args \in Seq(Seq(TimeFields))
    BY <1>0, <2>1 DEF IInv, PlaceInv, DataInv
  <2>3. arg \in DOMAIN args
    BY <2>2
  <2>4. first = <<>> \/ ~Separate(opts.template)
    BY <1>0, <2>1, <2>3 DEF HistoryInv, TextsTold, Readable
  <2> QED BY <1>0, <2>1, <2>4, HistoryKept
<1>4. CASE Pipe
  <2>1. program \in {"unixts2time", "time2unixts"}
    BY <1>0 DEF IInv, TypeOK
  <2> QED BY <1>4, <2>1, PipeTexts, PipeNumbers
<1>5. CASE UNCHANGED vars
  <2>1. UNCHANGED configuration /\ UNCHANGED <<pc, status, unixTS>>
    BY <1>5 DEF vars
  <2>2. program = "time2unixts" \/ program = "unixts2time"
    BY <1>0 DEF IInv, TypeOK
  <2> QED BY <1>0, <2>1, <2>2, HistoryKept DEF HistoryInv
<1> QED BY <1>1, <1>2, <1>3, <1>4, <1>5 DEF Next

\* A run that has ended well has a line for each argument.
LEMMA LineForEach ==
    ASSUME IInv, DoneInv, pc = "done", status = 0, NEW k \in DOMAIN args
    PROVE  k \in DOMAIN out
<1>1. \/ args \in Seq(AnyNumbers) /\ out \in Seq(Lines)
      \/ args \in Seq(Seq(TimeFields)) /\ out \in Seq(AnyNumbers)
  BY ConfigurationType DEF IInv, DataInv
<1>2. DOMAIN args = 1 .. Len(args) /\ DOMAIN out = 1 .. Len(out) /\ Len(args) \in Nat
  BY <1>1, LenProperties
<1>3. args # <<>>
  OBVIOUS
<1>4. Len(out) = Len(args)
  BY <1>3 DEF DoneInv
<1> QED BY <1>2, <1>4

\* What has been a number is one again.
LEMMA NumberAgain ==
    ASSUME RInv, first # <<>>, pc = "done", program = "time2unixts",
           Separate(opts.template)
    PROVE  status = 0 /\ NumberCameBack
<1>1. /\ status = 0 /\ TextsTold /\ DOMAIN first[1].args \subseteq DOMAIN args
      /\ IInv /\ DoneInv
  BY DEF RInv, TInv, LInv, HistoryInv
<1>2. ASSUME NEW k \in DOMAIN first[1].args,
             WholeTime(opts.template),
             Regular(first[1].args[k], first[1].out[k].unit),
             Fits(ManualTime(first[1].args[k], first[1].out[k].unit)),
             first[1].args[k].tail.kind = "end",
             first[1].out[k].unit = (IF opts.unit = "auto" THEN "ns" ELSE opts.unit),
             first[1].out[k].unit = "s" \/ SecondsPlaceholder(opts.template) # 0
      PROVE  NumberIn(out[k])
               = Signed(first[1].args[k].neg,
                        ValueOf(first[1].args[k].digits, Base(first[1].args[k])))
  <2> DEFINE n == first[1].args[k]
             u == first[1].out[k].unit
             T == ManualTime(n, u)
             text == args[k]
  <2>1. k \in DOMAIN args /\ k \in DOMAIN out
    BY <1>1, LineForEach
  <2>2. NumberTold(n, u, text)
    BY <1>1, <1>2 DEF TextsTold
  <2>3. n \in AnyNumbers /\ u \in Units /\ TimeIn(text) = Signed(n.neg, Size(n) * Factor[u])
    BY <1>2, <2>2, Zenon DEF NumberTold
  <2>4. Len(Fraction(text)) <= 3
    BY <1>1, <2>1 DEF TextsTold, Readable
  <2>5. ToldTimes(k) = {TimeIn(text)} /\ TimeIn(text) \in Int
    BY <1>1, <2>1, <2>4, ToldOne
  <2>6. T = Signed(n.neg, Size(n) * Factor[u])
    BY <1>2, <2>3, NumberParts, WholeManual
  <2>7. Shows(out[k], ToldTimes(k))
    BY <2>1, NumberIsTimeForm DEF RInv, NInv
  <2>8. u = UnitAsked /\ Fits(T)
    BY <1>2 DEF UnitAsked
  <2>9. n.neg \in BOOLEAN /\ Size(n) \in Nat /\ Factor[u] \in Nat \ {0}
    BY <2>3, NumberParts, FactorType
  <2> HIDE DEF n, u, T, text
  <2>10. NumberIn(out[k]) = Quotient(T, Factor[u])
    <3>1. \A t \in ToldTimes(k) : t = T /\ Fits(t)
      BY <2>3, <2>5, <2>6, <2>8
    <3> QED BY <2>7, <2>8, <3>1 DEF Shows
  <2>11. Quotient(T, Factor[u]) = Signed(n.neg, Size(n))
    <3> DEFINE F == Factor[u]
               s == Size(n)
    <3>1. F \in Nat \ {0} /\ s \in Nat /\ T = Signed(n.neg, s * F)
      BY <2>6, <2>9
    <3> HIDE DEF F, s
    <3> DEFINE g == 0
    <3>2. s * F + g = s * F
      <4>1. s * F \in Int
        BY <3>1, Product
      <4> QED BY <4>1
    <3>3. g \in 0 .. F - 1
      BY <3>1
    <3> HIDE DEF g
    <3>4. T = Signed(n.neg, s * F + g)
      BY <3>1, <3>2, Zenon
    <3>5. n.neg \in BOOLEAN /\ F \in Nat \ {0} /\ s \in Nat
      BY <2>9, <3>1
    <3>6. Quotient(T, F) = Signed(n.neg, s)
      BY <3>3, <3>4, <3>5, NumberShown
    <3> QED BY <3>6 DEF F, s
  <2> QED BY <2>10, <2>11 DEF Size, n
<1> QED BY <1>1, <1>2, Zenon DEF NumberCameBack

\* What has been a time is one again.
LEMMA TimeAgain ==
    ASSUME RInv, first # <<>>, pc = "done", program = "unixts2time"
    PROVE  TimeCameBack
<1>1. IInv /\ DoneInv /\ NumbersTold /\ DOMAIN first[1].args \subseteq DOMAIN args
  BY DEF RInv, TInv, LInv, HistoryInv
<1>2. ASSUME NEW k \in DOMAIN first[1].args, Exact,
             Len(Fraction(first[1].args[k])) <= 3, Fits(TimeIn(first[1].args[k]))
      PROVE  k \in DOMAIN out /\ TimeIn(out[k].text) = TimeIn(first[1].args[k])
  <2> DEFINE n == args[k]
             T == TimeIn(first[1].args[k])
             text == out[k].text
  <2>1. k \in DOMAIN args /\ args # <<>>
    BY <1>1
  <2>2. status = 0
    BY <1>2, <2>1 DEF RInv, HistoryInv
  <2>3. k \in DOMAIN out
    BY <1>1, <2>1, <2>2, LineForEach
  <2>4. n \in AnyNumbers
    <3>1. args \in Seq(AnyNumbers)
      BY <1>1 DEF IInv, DataInv
    <3> QED BY <2>1, <3>1, ElementOfSeq, LenProperties
  <2>5. Rest(n).kind = "end" /\ n.tail = EndTail /\ Signed(n.neg, Size(n)) = T
    BY <1>1, <1>2, <2>1 DEF NumbersTold, TimeTold
  <2>6. n.tail.digits = <<>> /\ n.tail.kind # "point"
    BY <2>5 DEF EndTail
  <2>7. UnitOf(n) = "ns" /\ "ns" \in Units /\ Factor["ns"] = 1
    BY <1>2 DEF Exact, UnitOf, Units, Factor
  <2>8. ManualTime(n, "ns") = T
    <3>1. ManualTime(n, "ns") = Signed(n.neg, Size(n) * Factor["ns"])
      BY <2>4, <2>6, <2>7, WholeManual
    <3>2. Size(n) \in Nat
      BY <2>4, NumberParts
    <3> DEFINE s == Size(n)
    <3> HIDE DEF s
    <3>3. s * Factor["ns"] = s
      BY <2>7, <3>2 DEF s
    <3> QED BY <2>5, <3>1, <3>3 DEF s
  <2>9. Fits(T)
    BY <1>2
  <2>10. TellsInput(out[k], k)
    BY <2>3, TimeIsInputForm DEF RInv, TInv
  <2> HIDE DEF T
  <2>11. Regular(n, "ns")
    <3>1. ValueOf(n.digits, Base(n)) = Size(n)
      BY Zenon DEF Size
    <3> QED BY <2>5, <2>6, <2>8, <2>9, <3>1 DEF Regular
  <2>12. WholeTime(opts.template) /\ SecondsPlaceholder(opts.template) # 0
    BY <1>2 DEF Exact
  <2>13. Tells(text, T, n)
    BY <2>1, <2>7, <2>8, <2>10, <2>11, <2>12, Zenon DEF TellsInput
  <2>14. TimeIn(text) \in {T} \/ TimeIn(text) = T
    BY <2>6, <2>12, <2>13, Zenon DEF Tells
  <2> QED BY <2>3, <2>14 DEF T
<1> QED BY <1>2, Zenon DEF TimeCameBack, Exact

\* The programs undo each other: an integer timestamp turned into a time comes back
\* as the same number in the same unit, to any base; a time turned into ns comes back
\* as the same time; and time2unixts refuses nothing that unixts2time has printed, if
\* no digit, point or exponent follows %S in the template (time2unixts.c:291): for
\* all arguments, units and builds and all other templates, whatever Step, Minute,
\* Limit and AutoLimit are.
THEOREM ProgramsUndoEachOther == Spec => []RoundTrip
<1>1. Init => RInv
  <2> SUFFICES ASSUME Init  PROVE RInv
    OBVIOUS
  <2>1. /\ out = <<>> /\ pc = "argument" /\ fractionDigits = 0 /\ first = <<>>
    BY DEF Init
  <2>2. DOMAIN out = {} /\ IInv
    BY <2>1, InitInv
  <2>3. TInv /\ NInv
    BY <2>1, <2>2 DEF TInv, StateInv, TimeIsInput, NInv, StampInv, NumberIsTime
  <2>4. LInv
    BY <2>1, <2>2 DEF LInv, FormInv, UnitInv, DoneInv
  <2> QED BY <2>1, <2>3, <2>4 DEF RInv, HistoryInv
<1>2. RInv /\ [Next]_vars => RInv'
  BY TimesStep, NumbersStep, LinesStep, HistoryStep DEF RInv
<1>3. RInv => RoundTrip
  <2> SUFFICES ASSUME RInv, first # <<>>, pc = "done"
               PROVE  IF program = "time2unixts"
                        THEN Separate(opts.template) => status = 0 /\ NumberCameBack
                        ELSE TimeCameBack
    BY DEF RoundTrip
  <2>1. program \in {"unixts2time", "time2unixts"}
    BY DEF RInv, TInv, IInv, TypeOK
  <2> QED BY <2>1, NumberAgain, TimeAgain
<1> QED BY <1>1, <1>2, <1>3, PTL DEF Spec
=============================================================================
