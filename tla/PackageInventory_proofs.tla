---------------------- MODULE PackageInventory_proofs ----------------------
(***************************************************************************)
(* Facts about the comparison of versions, for dotted numbers of any       *)
(* lengths and digits: version_ge compares what they are worth as numbers, *)
(* and that is an order.                                                   *)
(***************************************************************************)
EXTENDS PackageInventory, TLAPS, WellFoundedInduction

-----------------------------------------------------------------------------
(* Induction over the naturals, as a fact about sets of them. *)
LEMMA Induction ==
  ASSUME NEW S, 0 \in S, \A k \in Nat : k \in S => k + 1 \in S
  PROVE  \A k \in Nat : k \in S
<1> DEFINE T == Nat \ S
<1> SUFFICES ASSUME T # {} PROVE FALSE
  OBVIOUS
<1>1. PICK k \in T : \A j \in T : <<j, k>> \notin OpToRel(<, Nat)
  BY WFMin, NatLessThanWellFounded
<1>2. k # 0 /\ k - 1 \in Nat /\ k - 1 < k
  OBVIOUS
<1>3. k - 1 \notin T
  BY <1>1, <1>2 DEF OpToRel
<1>4. (k - 1) + 1 \in S
  BY <1>2, <1>3
<1> QED
  BY <1>2, <1>4

(* A set of naturals with an element has a least one. *)
LEMMA LeastOf ==
  ASSUME NEW T \in SUBSET Nat, T # {}
  PROVE  \E k \in T : \A j \in T : k <= j
<1>1. PICK k \in T : \A j \in T : <<j, k>> \notin OpToRel(<, Nat)
  BY WFMin, NatLessThanWellFounded
<1>2. \A j \in T : ~(j < k)
  BY <1>1 DEF OpToRel
<1> QED
  BY <1>2

-----------------------------------------------------------------------------
(* What a dotted number is worth. *)

IsWorth(w, n, base, len) ==
  w = [k \in 0..len |-> IF k = 0 THEN 0 ELSE base * w[k - 1] + Component(n, k)]

WorthFcn(n, base, len) == CHOOSE w : IsWorth(w, n, base, len)

LEMMA WorthIs ==
  ASSUME NEW n, NEW base, NEW len
  PROVE  Worth(n, base, len) = WorthFcn(n, base, len)[len]
BY DEF Worth, WorthFcn, IsWorth

LEMMA WorthFcnExists ==
  ASSUME NEW n, NEW base, NEW len \in Nat
  PROVE  \E w : IsWorth(w, n, base, len)
<1> DEFINE Next(v, k) == base * v + Component(n, k)
           Good(w, l) == w = [k \in 0..l |-> IF k = 0 THEN 0 ELSE Next(w[k - 1], k)]
           S == {l \in Nat : \E w : Good(w, l)}
<1> HIDE DEF Next
<1>1. 0 \in S
  <2> DEFINE w == [k \in 0..0 |-> 0]
  <2>1. Good(w, 0)
    OBVIOUS
  <2> QED
    BY <2>1
<1>2. ASSUME NEW l \in Nat, l \in S PROVE l + 1 \in S
  <2>1. PICK w : Good(w, l)
    BY <1>2
  <2> DEFINE v == [k \in 0..(l + 1) |-> IF k = l + 1 THEN Next(w[l], k) ELSE w[k]]
  <2>2. ASSUME NEW k \in 0..(l + 1) PROVE v[k] = IF k = 0 THEN 0 ELSE Next(v[k - 1], k)
    <3>1. CASE k = l + 1
      BY <3>1
    <3>2. CASE k # l + 1
      <4>1. k \in 0..l /\ v[k] = w[k]
        BY <3>2
      <4>2. w[k] = IF k = 0 THEN 0 ELSE Next(w[k - 1], k)
        BY <2>1, <4>1
      <4>3. k # 0 => v[k - 1] = w[k - 1]
        BY <4>1
      <4> QED
        BY <4>1, <4>2, <4>3
    <3> QED
      BY <3>1, <3>2
  <2>3. Good(v, l + 1)
    <3> HIDE DEF Next
    <3>1. v = [k \in 0..(l + 1) |-> v[k]]
      OBVIOUS
    <3> HIDE DEF v
    <3> QED
      BY <2>2, <3>1
  <2> HIDE DEF Good
  <2> QED
    BY <2>3
<1>3. len \in S
  <2> HIDE DEF S
  <2> QED
    BY <1>1, <1>2, Induction
<1> QED
  BY <1>3 DEF Next, IsWorth

LEMMA WorthFcnDef ==
  ASSUME NEW n \in DottedNumber, NEW base \in Nat, NEW len \in Nat
  PROVE  LET w == WorthFcn(n, base, len)
         IN  /\ w[0] = 0
             /\ \A k \in 1..len : w[k] = base * w[k - 1] + Component(n, k)
             /\ \A k \in 0..len : w[k] \in Nat
<1> DEFINE w == WorthFcn(n, base, len)
<1>1. w = [k \in 0..len |-> IF k = 0 THEN 0 ELSE base * w[k - 1] + Component(n, k)]
  <2>1. IsWorth(w, n, base, len)
    BY WorthFcnExists DEF WorthFcn
  <2> HIDE DEF w
  <2> QED
    BY <2>1 DEF IsWorth
<1> HIDE DEF w
<1>2. w[0] = 0 /\ \A k \in 1..len : w[k] = base * w[k - 1] + Component(n, k)
  BY <1>1
<1>3. \A k \in 1..len : Component(n, k) \in Nat
  BY DEF Component, DottedNumber
<1> DEFINE S == {k \in Nat : k <= len => w[k] \in Nat}
<1>4. 0 \in S
  BY <1>2
<1>5. ASSUME NEW k \in Nat, k \in S PROVE k + 1 \in S
  <2>1. CASE k + 1 <= len
    <3>1. w[k + 1] = base * w[k] + Component(n, k + 1)
      BY <1>2, <2>1
    <3>2. w[k] \in Nat /\ Component(n, k + 1) \in Nat
      BY <1>3, <1>5, <2>1
    <3>3. base * w[k] \in Nat
      BY <3>2
    <3> QED
      BY <3>1, <3>2, <3>3
  <2> QED
    BY <2>1
<1>6. \A k \in Nat : k \in S
  BY <1>4, <1>5, Induction
<1> QED
  BY <1>2, <1>6 DEF w

-----------------------------------------------------------------------------
(* Which of two numbers is larger is decided by the first digit in which   *)
(* they differ.                                                            *)

LEMMA Carry ==
  ASSUME NEW b \in Nat, NEW x \in Nat, NEW y \in Nat, x > y
  PROVE  b * x >= b * y + b
<1>1. PICK d \in Nat : x = y + 1 + d
  <2>1. x - y - 1 \in Nat /\ x = y + 1 + (x - y - 1)
    OBVIOUS
  <2> QED
    BY <2>1
<1>2. b * x = b * y + b + b * d
  BY <1>1
<1>3. b * d \in Nat /\ b * y \in Nat
  OBVIOUS
<1> QED
  BY <1>2, <1>3

(* The digits c and d of two numbers, whose values so far are v and w. *)
Digits(c, b, len)   == \A k \in 1..len : c[k] \in Nat /\ c[k] < b
Values(v, c, b, len) ==
  /\ v[0] = 0
  /\ \A k \in 1..len : v[k] = b * v[k - 1] + c[k]
  /\ \A k \in 0..len : v[k] \in Nat

Same(c, d, k)   == \A j \in 1..k : c[j] = d[j]
Larger(c, d, k) == \E i \in 1..k : c[i] > d[i] /\ Same(c, d, i - 1)

LEMMA SameDigits ==
  ASSUME NEW b \in Nat, NEW len \in Nat, NEW c, NEW d, NEW v, NEW w,
         Values(v, c, b, len), Values(w, d, b, len)
  PROVE  \A k \in 0..len : Same(c, d, k) => v[k] = w[k]
<1> DEFINE S == {k \in Nat : k <= len /\ Same(c, d, k) => v[k] = w[k]}
<1>1. 0 \in S
  BY DEF Values
<1>2. ASSUME NEW k \in Nat, k \in S PROVE k + 1 \in S
  <2>1. SUFFICES ASSUME k + 1 <= len, Same(c, d, k + 1) PROVE v[k + 1] = w[k + 1]
    OBVIOUS
  <2>2. Same(c, d, k) /\ c[k + 1] = d[k + 1]
    BY <2>1 DEF Same
  <2>3. v[k] = w[k]
    BY <1>2, <2>1, <2>2
  <2>4. v[k + 1] = b * v[k] + c[k + 1] /\ w[k + 1] = b * w[k] + d[k + 1]
    BY <2>1 DEF Values
  <2> QED
    BY <2>2, <2>3, <2>4
<1>3. \A k \in Nat : k \in S
  <2> HIDE DEF S
  <2> QED
    BY <1>1, <1>2, Induction
<1> QED
  BY <1>3

LEMMA LargerDigits ==
  ASSUME NEW b \in Nat, NEW len \in Nat, NEW c, NEW d, NEW v, NEW w,
         Digits(c, b, len), Digits(d, b, len),
         Values(v, c, b, len), Values(w, d, b, len)
  PROVE  \A k \in 0..len : Larger(c, d, k) => v[k] > w[k]
<1> DEFINE S == {k \in Nat : k <= len /\ Larger(c, d, k) => v[k] > w[k]}
<1>1. 0 \in S
  BY DEF Larger
<1>2. ASSUME NEW k \in Nat, k \in S PROVE k + 1 \in S
  <2>1. SUFFICES ASSUME k + 1 <= len, Larger(c, d, k + 1) PROVE v[k + 1] > w[k + 1]
    OBVIOUS
  <2>2. /\ v[k + 1] = b * v[k] + c[k + 1] /\ w[k + 1] = b * w[k] + d[k + 1]
        /\ v[k] \in Nat /\ w[k] \in Nat
    BY <2>1 DEF Values
  <2>3. /\ c[k + 1] \in Nat /\ c[k + 1] < b
        /\ d[k + 1] \in Nat /\ d[k + 1] < b
    BY <2>1 DEF Digits
  <2>4. PICK i \in 1..(k + 1) : c[i] > d[i] /\ Same(c, d, i - 1)
    BY <2>1 DEF Larger
  <2>5. CASE i = k + 1
    <3>1. v[k] = w[k]
      <4>1. Same(c, d, k)
        BY <2>4, <2>5
      <4> QED
        BY <2>1, <4>1, SameDigits
    <3> QED
      BY <2>2, <2>3, <2>4, <2>5, <3>1
  <2>6. CASE i # k + 1
    <3>1. Larger(c, d, k)
      <4>1. i \in 1..k
        BY <2>6
      <4> QED
        BY <2>4, <4>1 DEF Larger
    <3>2. v[k] > w[k]
      BY <1>2, <2>1, <3>1
    <3>3. b * v[k] >= b * w[k] + b
      BY <2>2, <3>2, Carry
    <3>4. b * v[k] \in Nat /\ b * w[k] \in Nat
      BY <2>2
    <3> HIDE DEF S
    <3> QED
      BY <2>2, <2>3, <3>3, <3>4
  <2> QED
    BY <2>5, <2>6
<1>3. \A k \in Nat : k \in S
  <2> HIDE DEF S
  <2> QED
    BY <1>1, <1>2, Induction
<1> QED
  BY <1>3

LEMMA FirstDifference ==
  ASSUME NEW b \in Nat, NEW len \in Nat, NEW c, NEW d,
         Digits(c, b, len), Digits(d, b, len)
  PROVE  Same(c, d, len) \/ Larger(c, d, len) \/ Larger(d, c, len)
<1> DEFINE T == {k \in 1..len : c[k] # d[k]}
<1>1. CASE T = {}
  BY <1>1 DEF Same
<1>2. CASE T # {}
  <2>1. PICK i \in T : \A j \in T : i <= j
    <3> T \in SUBSET Nat
      OBVIOUS
    <3> HIDE DEF T
    <3> QED
      BY <1>2, LeastOf
  <2>2. \A j \in 1..(i - 1) : c[j] = d[j]
    BY <2>1
  <2>3. Same(c, d, i - 1) /\ Same(d, c, i - 1)
    BY <2>2 DEF Same
  <2>4. c[i] > d[i] \/ d[i] > c[i]
    BY <2>1 DEF Digits
  <2> QED
    BY <2>1, <2>3, <2>4 DEF Larger
<1> QED
  BY <1>1, <1>2


-----------------------------------------------------------------------------
(* A base above all components of some numbers: there always is one. *)

Above(b, n) == \A k \in Nat : Component(n, k) \in Nat /\ Component(n, k) < b

LEMMA NumberFacts ==
  ASSUME NEW n \in DottedNumber
  PROVE  /\ Len(n) \in Nat /\ DOMAIN n = 1..Len(n)
         /\ \A k \in Nat : Component(n, k) \in Nat
         /\ \A k \in Nat : k > Len(n) => Component(n, k) = 0
BY DEF DottedNumber, Component

LEMMA SomeBase ==
  ASSUME NEW n \in DottedNumber
  PROVE  \E b \in Nat : Above(b, n)
<1> DEFINE Bound(b, l) == \A k \in 1..l : Component(n, k) < b
           S == {l \in Nat : \E b \in Nat : Bound(b, l)}
<1>1. 0 \in S
  OBVIOUS
<1>2. ASSUME NEW l \in Nat, l \in S PROVE l + 1 \in S
  <2>1. PICK b \in Nat : Bound(b, l)
    BY <1>2
  <2>2. Component(n, l + 1) \in Nat
    BY NumberFacts
  <2> DEFINE a == b + Component(n, l + 1) + 1
  <2>3. Bound(a, l + 1)
    <3> SUFFICES ASSUME NEW k \in 1..(l + 1) PROVE Component(n, k) < a
      OBVIOUS
    <3>1. Component(n, k) \in Nat
      BY NumberFacts
    <3>2. CASE k = l + 1
      BY <2>2, <3>2
    <3>3. CASE k # l + 1
      <4>1. Component(n, k) < b
        BY <2>1, <3>3
      <4> QED
        BY <2>2, <3>1, <4>1
    <3> QED
      BY <3>2, <3>3
  <2>4. a \in Nat
    BY <2>2
  <2> HIDE DEF Bound, a
  <2> QED
    BY <2>3, <2>4
<1>3. Len(n) \in S
  <2>1. \A l \in Nat : l \in S
    <3> HIDE DEF S
    <3> QED
      BY <1>1, <1>2, Induction
  <2>2. Len(n) \in Nat
    BY NumberFacts
  <2> QED
    BY <2>1, <2>2
<1>4. PICK b \in Nat : Bound(b, Len(n))
  BY <1>3
<1>5. ASSUME NEW k \in Nat PROVE Component(n, k) \in Nat /\ Component(n, k) < b + 1
  <2>1. Component(n, k) \in Nat /\ (k > Len(n) => Component(n, k) = 0)
    BY NumberFacts
  <2>2. Component(n, 0) = 0
    BY NumberFacts DEF Component
  <2>3. k \in 1..Len(n) => Component(n, k) < b
    BY <1>4
  <2>4. Len(n) \in Nat
    BY NumberFacts
  <2> QED
    BY <2>1, <2>2, <2>3, <2>4
<1>6. b + 1 \in Nat
  OBVIOUS
<1> QED
  BY <1>5, <1>6 DEF Above

(* A bounded set of naturals with an element has a greatest one. *)
LEMMA GreatestOf ==
  ASSUME NEW T \in SUBSET Nat, T # {}, NEW b \in Nat, \A j \in T : j <= b
  PROVE  \E k \in T : \A j \in T : j <= k
<1> DEFINE U == {k \in Nat : \A j \in T : j <= k}
<1>1. PICK k \in U : \A l \in U : k <= l
  <2> U \in SUBSET Nat /\ U # {}
    OBVIOUS
  <2> HIDE DEF U
  <2> QED
    BY LeastOf
<1>2. CASE k \in T
  BY <1>1, <1>2
<1>3. CASE k \notin T
  <2>1. PICK j \in T : TRUE
    OBVIOUS
  <2>2. k \in Nat /\ \A i \in T : i \in Nat /\ i <= k /\ i # k
    BY <1>1, <1>3
  <2>3. k - 1 \in Nat /\ \A i \in T : i <= k - 1
    BY <2>1, <2>2
  <2>4. k - 1 \in U
    BY <2>3
  <2> QED
    BY <1>1, <2>2, <2>4
<1> QED
  BY <1>2, <1>3

LEMMA BaseForIsAbove ==
  ASSUME NEW m \in DottedNumber, NEW n \in DottedNumber
  PROVE  BaseFor(m, n) \in Nat /\ Above(BaseFor(m, n), m) /\ Above(BaseFor(m, n), n)
<1> DEFINE cs == Components(m) \cup Components(n)
           Most(c) == \A d \in cs : d <= c
           c == CHOOSE c \in cs : Most(c)
<1>1. PICK a \in Nat, b \in Nat : Above(a, m) /\ Above(b, n)
  BY SomeBase
<1>2. \A k \in Nat : Component(m, k) \in cs /\ Component(n, k) \in cs
  BY DEF Component, Components
<1>3. \A d \in cs : d \in Nat /\ d <= a + b
  <2> SUFFICES ASSUME NEW d \in cs PROVE d \in Nat /\ d <= a + b
    OBVIOUS
  <2>1. d = 0 \/ (\E k \in DOMAIN m : d = m[k]) \/ (\E k \in DOMAIN n : d = n[k])
    BY DEF Components
  <2>2. CASE d = 0
    BY <2>2
  <2>3. ASSUME NEW k \in DOMAIN m, d = m[k] PROVE d \in Nat /\ d < a
    BY <1>1, <2>3, NumberFacts DEF Above, Component
  <2>4. ASSUME NEW k \in DOMAIN n, d = n[k] PROVE d \in Nat /\ d < b
    BY <1>1, <2>4, NumberFacts DEF Above, Component
  <2> QED
    BY <2>1, <2>2, <2>3, <2>4
<1>4. \E e \in cs : Most(e)
  <2>1. 0 \in cs /\ a + b \in Nat
    BY DEF Components
  <2> HIDE DEF cs
  <2> QED
    BY <1>3, <2>1, GreatestOf
<1>5. c \in cs /\ Most(c)
  <2> HIDE DEF Most, cs
  <2> QED
    BY <1>4
<1>6. BaseFor(m, n) = 1 + c
  BY DEF BaseFor
<1>7. c \in Nat /\ \A d \in cs : d \in Nat /\ d < 1 + c
  <2> HIDE DEF c, cs
  <2> QED
    BY <1>3, <1>5
<1> HIDE DEF c, cs
<1> QED
  BY <1>2, <1>6, <1>7 DEF Above

-----------------------------------------------------------------------------
(* version_ge compares what the numbers are worth. *)

LEMMA LongerIsLonger ==
  ASSUME NEW m \in DottedNumber, NEW n \in DottedNumber
  PROVE  /\ Longer(m, n) \in Nat /\ Longer(n, m) = Longer(m, n)
         /\ Longer(m, n) >= Len(m) /\ Longer(m, n) >= Len(n)
<1>1. Len(m) \in Nat /\ Len(n) \in Nat
  BY NumberFacts
<1> QED
  BY <1>1 DEF Longer

DigitsOf(n, len) == [k \in 1..len |-> Component(n, k)]

LEMMA DigitsOfAreDigits ==
  ASSUME NEW n \in DottedNumber, NEW b \in Nat, NEW len \in Nat, Above(b, n)
  PROVE  /\ Digits(DigitsOf(n, len), b, len)
         /\ Values(WorthFcn(n, b, len), DigitsOf(n, len), b, len)
<1>1. Digits(DigitsOf(n, len), b, len)
  BY DEF Digits, DigitsOf, Above
<1>2. Values(WorthFcn(n, b, len), DigitsOf(n, len), b, len)
  BY WorthFcnDef DEF Values, DigitsOf
<1> QED
  BY <1>1, <1>2

(* The code looks at the components up to the longer of the two lengths;   *)
(* any further ones are zero in both.                                      *)
LEMMA AtLeastByDigits ==
  ASSUME NEW m \in DottedNumber, NEW n \in DottedNumber,
         NEW len \in Nat, len >= Longer(m, n)
  PROVE  AtLeast(m, n) <=> \/ Same(DigitsOf(m, len), DigitsOf(n, len), len)
                           \/ Larger(DigitsOf(m, len), DigitsOf(n, len), len)
<1> DEFINE c == DigitsOf(m, len)
           d == DigitsOf(n, len)
           L == Longer(m, n)
<1>1. L \in Nat /\ L >= Len(m) /\ L >= Len(n)
  BY LongerIsLonger
<1>2. \A k \in 1..len : c[k] = Component(m, k) /\ d[k] = Component(n, k)
  BY DEF DigitsOf
<1>3. \A k \in 1..len : k > L => c[k] = 0 /\ d[k] = 0
  <2>1. /\ Len(m) \in Nat /\ \A k \in Nat : k > Len(m) => Component(m, k) = 0
        /\ Len(n) \in Nat /\ \A k \in Nat : k > Len(n) => Component(n, k) = 0
    BY NumberFacts
  <2> HIDE DEF c, d, L
  <2> QED
    BY <1>1, <1>2, <2>1
<1> HIDE DEF c, d
<1>4. AtLeast(m, n) <=> Same(c, d, L) \/ Larger(c, d, L)
  <2>1. \A k \in 1..L : c[k] = Component(m, k) /\ d[k] = Component(n, k)
    BY <1>1, <1>2
  <2>2. Same(c, d, L) <=> \A k \in 1..L : Component(m, k) = Component(n, k)
    BY <2>1 DEF Same
  <2>3. \A i \in 1..L : Same(c, d, i - 1) <=>
                         \A j \in 1..(i - 1) : Component(m, j) = Component(n, j)
    <3> SUFFICES ASSUME NEW i \in 1..L
                 PROVE  Same(c, d, i - 1) <=>
                          \A j \in 1..(i - 1) : Component(m, j) = Component(n, j)
      OBVIOUS
    <3>1. \A j \in 1..(i - 1) : j \in 1..L
      BY <1>1
    <3> QED
      BY <2>1, <3>1 DEF Same
  <2>4. Larger(c, d, L) <=> \E i \in 1..L :
          /\ Component(m, i) > Component(n, i)
          /\ \A j \in 1..(i - 1) : Component(m, j) = Component(n, j)
    BY <2>1, <2>3 DEF Larger
  <2> HIDE DEF L
  <2> QED
    BY <2>2, <2>4 DEF AtLeast, L
<1>5. Same(c, d, L) <=> Same(c, d, len)
  BY <1>1, <1>3 DEF Same
<1>6. Larger(c, d, L) <=> Larger(c, d, len)
  <2>1. \A i \in 1..len : c[i] > d[i] => i \in 1..L
    BY <1>1, <1>3
  <2>2. \A i \in 1..L : i \in 1..len
    BY <1>1
  <2> HIDE DEF L
  <2> QED
    BY <2>1, <2>2 DEF Larger
<1> QED
  BY <1>4, <1>5, <1>6 DEF c, d

(* version_ge's comparison is that of the two numbers, whatever their      *)
(* lengths and digits: read in any base above all of their components,     *)
(* with zeros up to any common length, `have` is worth at least `minimum`. *)
THEOREM AtLeastIsNumeric ==
  ASSUME NEW m \in DottedNumber, NEW n \in DottedNumber,
         NEW base \in Nat, Above(base, m), Above(base, n),
         NEW len \in Nat, len >= Longer(m, n)
  PROVE  AtLeast(m, n) <=> Worth(m, base, len) >= Worth(n, base, len)
<1> DEFINE c == DigitsOf(m, len)
           d == DigitsOf(n, len)
           v == WorthFcn(m, base, len)
           w == WorthFcn(n, base, len)
<1>1. /\ Digits(c, base, len) /\ Values(v, c, base, len)
      /\ Digits(d, base, len) /\ Values(w, d, base, len)
  BY DigitsOfAreDigits
<1>2. AtLeast(m, n) <=> Same(c, d, len) \/ Larger(c, d, len)
  BY AtLeastByDigits
<1>3. Worth(m, base, len) = v[len] /\ Worth(n, base, len) = w[len]
  BY WorthIs
<1> HIDE DEF c, d, v, w
<1>4. v[len] \in Nat /\ w[len] \in Nat
  BY <1>1 DEF Values
<1>5. Same(c, d, len) => v[len] = w[len]
  BY <1>1, SameDigits
<1>6. /\ Larger(c, d, len) => v[len] > w[len]
      /\ Larger(d, c, len) => w[len] > v[len]
  BY <1>1, LargerDigits
<1>7. Same(c, d, len) \/ Larger(c, d, len) \/ Larger(d, c, len)
  BY <1>1, FirstDifference
<1> QED
  BY <1>2, <1>3, <1>4, <1>5, <1>6, <1>7

(* In particular in the base and over the length the definition takes, so  *)
(* AtLeast (version_ge) is its reference definition WorthAsMuch.           *)
COROLLARY AtLeastIsWorth ==
  ASSUME NEW m \in DottedNumber, NEW n \in DottedNumber
  PROVE  AtLeast(m, n) <=> WorthAsMuch(m, n)
<1>1. Longer(m, n) \in Nat /\ Longer(m, n) >= Longer(m, n)
  BY LongerIsLonger
<1> QED
  BY <1>1, BaseForIsAbove, AtLeastIsNumeric DEF WorthAsMuch

(* The comparison is an order of the numbers: of any two, one is at least  *)
(* the other; both are only if they differ in trailing zeros at most; and  *)
(* what is at least a version is at least whatever that is at least.       *)
SameNumber(m, n) == \A k \in Nat : Component(m, k) = Component(n, k)

LEMMA CommonMeasure ==
  ASSUME NEW l \in DottedNumber, NEW m \in DottedNumber, NEW n \in DottedNumber
  PROVE  \E base, len \in Nat :
           /\ Above(base, l) /\ Above(base, m) /\ Above(base, n)
           /\ len >= Longer(l, m) /\ len >= Longer(m, n) /\ len >= Longer(l, n)
<1>1. PICK a \in Nat, b \in Nat, c \in Nat : Above(a, l) /\ Above(b, m) /\ Above(c, n)
  BY SomeBase
<1>2. a + b + c \in Nat
  OBVIOUS
<1>3. Above(a + b + c, l) /\ Above(a + b + c, m) /\ Above(a + b + c, n)
  BY <1>1 DEF Above
<1> DEFINE len == Longer(l, m) + Longer(m, n) + Longer(l, n)
<1>4. /\ len \in Nat
      /\ len >= Longer(l, m) /\ len >= Longer(m, n) /\ len >= Longer(l, n)
  BY LongerIsLonger
<1> QED
  BY <1>2, <1>3, <1>4

LEMMA WorthIsNat ==
  ASSUME NEW n \in DottedNumber, NEW base \in Nat, NEW len \in Nat
  PROVE  Worth(n, base, len) \in Nat
<1>1. WorthFcn(n, base, len)[len] \in Nat
  BY WorthFcnDef
<1> QED
  BY <1>1, WorthIs

(* version_ge orders all versions: two are always comparable, they meet    *)
(* each other just if they differ in trailing zeros alone, and what meets  *)
(* a minimum meets every lower one.                                        *)
THEOREM VersionsAreOrdered ==
  ASSUME NEW l \in DottedNumber, NEW m \in DottedNumber, NEW n \in DottedNumber
  PROVE  /\ AtLeast(m, n) \/ AtLeast(n, m)
         /\ AtLeast(m, n) /\ AtLeast(n, m) <=> SameNumber(m, n)
         /\ AtLeast(l, m) /\ AtLeast(m, n) => AtLeast(l, n)
<1>1. PICK base \in Nat, len \in Nat :
        /\ Above(base, l) /\ Above(base, m) /\ Above(base, n)
        /\ len >= Longer(l, m) /\ len >= Longer(m, n) /\ len >= Longer(l, n)
  BY CommonMeasure
<1>2. /\ AtLeast(m, n) <=> Worth(m, base, len) >= Worth(n, base, len)
      /\ AtLeast(l, m) <=> Worth(l, base, len) >= Worth(m, base, len)
      /\ AtLeast(l, n) <=> Worth(l, base, len) >= Worth(n, base, len)
  BY <1>1, AtLeastIsNumeric
<1>3. AtLeast(n, m) <=> Worth(n, base, len) >= Worth(m, base, len)
  BY <1>1, LongerIsLonger, AtLeastIsNumeric
<1>4. /\ Worth(l, base, len) \in Nat
      /\ Worth(m, base, len) \in Nat
      /\ Worth(n, base, len) \in Nat
  BY WorthIsNat
<1>5. AtLeast(m, n) /\ AtLeast(n, m) <=> SameNumber(m, n)
  <2> DEFINE c == DigitsOf(m, len)
             d == DigitsOf(n, len)
  <2>1. /\ AtLeast(m, n) <=> Same(c, d, len) \/ Larger(c, d, len)
        /\ AtLeast(n, m) <=> Same(d, c, len) \/ Larger(d, c, len)
    BY <1>1, AtLeastByDigits, LongerIsLonger
  <2>2. Same(c, d, len) <=> SameNumber(m, n)
    <3>1. len >= Len(m) /\ len >= Len(n)
      <4>1. /\ Longer(m, n) \in Nat /\ Len(m) \in Nat /\ Len(n) \in Nat
            /\ Longer(m, n) >= Len(m) /\ Longer(m, n) >= Len(n)
        BY LongerIsLonger, NumberFacts
      <4> QED
        BY <1>1, <4>1
    <3>2. \A k \in Nat : k \notin 1..len => Component(m, k) = Component(n, k)
      BY <3>1, NumberFacts DEF Component
    <3> QED
      BY <3>2 DEF Same, SameNumber, DigitsOf
  <2>3. Same(c, d, len) <=> Same(d, c, len)
    BY DEF Same
  <2>4. ~(Larger(c, d, len) /\ Larger(d, c, len)) /\ ~(Larger(c, d, len) /\ Same(c, d, len))
    <3>1. /\ Digits(c, base, len) /\ Values(WorthFcn(m, base, len), c, base, len)
          /\ Digits(d, base, len) /\ Values(WorthFcn(n, base, len), d, base, len)
      BY <1>1, DigitsOfAreDigits
    <3> DEFINE v == WorthFcn(m, base, len)
               w == WorthFcn(n, base, len)
    <3> HIDE DEF c, d, v, w
    <3>2. v[len] \in Nat /\ w[len] \in Nat
      BY <3>1 DEF Values, v, w
    <3>3. /\ Larger(c, d, len) => v[len] > w[len]
          /\ Larger(d, c, len) => w[len] > v[len]
          /\ Same(c, d, len) => v[len] = w[len]
      BY <3>1, LargerDigits, SameDigits DEF v, w
    <3> QED
      BY <3>2, <3>3
  <2> HIDE DEF c, d
  <2> QED
    BY <2>1, <2>2, <2>3, <2>4
<1> QED
  BY <1>2, <1>3, <1>4, <1>5

=============================================================================
