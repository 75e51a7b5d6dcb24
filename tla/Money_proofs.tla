---------------------------- MODULE Money_proofs ----------------------------
(***************************************************************************)
(* What the helpers of internal/platform/money guarantee for amounts of    *)
(* any size.                                                               *)
(***************************************************************************)
EXTENDS Decimals, FiniteSetTheorems, WellFoundedInduction, TLAPS

\* The quotient q of x by d is the multiple of d next below x.
LEMMA Quotient ==
  ASSUME NEW x \in Nat, NEW d \in Nat, d > 0
  PROVE  /\ x \div d \in Nat
         /\ d * (x \div d) <= x
         /\ x < d * (x \div d) + d
  OBVIOUS

\* HalfUp, the rounding rule of every helper: the result is no further than half
\* a unit from num / den, and halves go up.
THEOREM HalfUpNearest ==
  ASSUME NEW num \in Nat, NEW den \in Nat, den > 0
  PROVE  /\ HalfUp(num, den) \in Nat
         /\ 2 * (den * HalfUp(num, den)) <= 2 * num + den
         /\ 2 * num < 2 * (den * HalfUp(num, den)) + den
<1> DEFINE q == HalfUp(num, den)
<1>1. /\ q \in Nat
      /\ (2 * den) * q <= 2 * num + den
      /\ 2 * num + den < (2 * den) * q + 2 * den
  <2>1. 2 * num + den \in Nat /\ 2 * den \in Nat /\ 2 * den > 0
    OBVIOUS
  <2> QED  BY <2>1, Quotient DEF HalfUp
<1>2. (2 * den) * q = 2 * (den * q)
  BY <1>1
<1> HIDE DEF q
<1>3. den * q \in Nat
  BY <1>1
<1>4. /\ 2 * (den * q) <= 2 * num + den
      /\ 2 * num < 2 * (den * q) + den
  BY <1>1, <1>2, <1>3
<1> QED  BY <1>1, <1>4 DEF q

LEMMA TimesMonotone ==
  ASSUME NEW k \in Nat, NEW a \in Nat, NEW b \in Nat, a <= b
  PROVE  k * a \in Nat /\ k * b \in Nat /\ k * a <= k * b
  OBVIOUS

LEMMA HalfUpMonotone ==
  ASSUME NEW a \in Nat, NEW b \in Nat, NEW den \in Nat, den > 0, a <= b
  PROVE  HalfUp(a, den) <= HalfUp(b, den)
<1> DEFINE p == HalfUp(a, den)
           q == HalfUp(b, den)
<1>1. /\ p \in Nat /\ q \in Nat
      /\ 2 * (den * p) <= 2 * a + den
      /\ 2 * b < 2 * (den * q) + den
  BY HalfUpNearest
<1> HIDE DEF p, q
<1>2. SUFFICES ASSUME q + 1 <= p PROVE FALSE
  BY <1>1 DEF p, q
<1>3. den * (q + 1) <= den * p /\ den * p \in Nat
  BY <1>1, <1>2, TimesMonotone, q + 1 \in Nat
<1>4. den * (q + 1) = den * q + den /\ den * q \in Nat
  BY <1>1
<1> QED  BY <1>1, <1>3, <1>4

LEMMA HalfUpExact ==
  ASSUME NEW k \in Nat, NEW den \in Nat, den > 0
  PROVE  den * k \in Nat /\ HalfUp(den * k, den) = k
<1> DEFINE n == den * k
           q == HalfUp(n, den)
<1>1. n \in Nat
  OBVIOUS
<1> HIDE DEF n
<1>2. /\ q \in Nat
      /\ 2 * (den * q) <= 2 * n + den
      /\ 2 * n < 2 * (den * q) + den
  BY <1>1, HalfUpNearest
<1> HIDE DEF q
<1>3. ~(k + 1 <= q)
  <2>1. SUFFICES ASSUME k + 1 <= q PROVE FALSE
    OBVIOUS
  <2>2. den * (k + 1) <= den * q /\ den * q \in Nat
    BY <1>2, <2>1, TimesMonotone, k + 1 \in Nat
  <2>3. den * (k + 1) = n + den
    BY DEF n
  <2> QED  BY <1>1, <1>2, <2>2, <2>3
<1>4. ~(q + 1 <= k)
  <2>1. SUFFICES ASSUME q + 1 <= k PROVE FALSE
    OBVIOUS
  <2>2. den * (q + 1) <= n
    BY <1>2, <2>1, TimesMonotone, q + 1 \in Nat DEF n
  <2>3. den * (q + 1) = den * q + den /\ den * q \in Nat
    BY <1>2
  <2> QED  BY <1>1, <1>2, <2>2, <2>3
<1> QED  BY <1>1, <1>2, <1>3, <1>4 DEF n, q

-----------------------------------------------------------------------------
(* The code behaviour: ShareBps as used for the dashboard's breakdowns.  The *)
(* share of a part of a whole lies between 0 and 100 %.                      *)
THEOREM ShareBpsRange ==
  ASSUME NEW whole \in Nat, NEW part \in 0..whole
  PROVE  ShareBps(part, whole) \in 0..Whole
<1>1. CASE whole = 0
  BY <1>1 DEF ShareBps, Whole
<1>2. CASE whole > 0
  <2>1. part * Whole \in Nat /\ whole * Whole \in Nat /\ part * Whole <= whole * Whole
    BY DEF Whole
  <2>2. HalfUp(part * Whole, whole) <= HalfUp(whole * Whole, whole)
    BY <1>2, <2>1, HalfUpMonotone
  <2>3. HalfUp(whole * Whole, whole) = Whole
    BY <1>2, HalfUpExact, Whole \in Nat DEF Whole
  <2>4. HalfUp(part * Whole, whole) \in Nat
    BY <1>2, <2>1, HalfUpNearest
  <2>5. ShareBps(part, whole) = HalfUp(part * Whole, whole)
    BY <1>2 DEF ShareBps
  <2>6. Whole \in Nat
    BY DEF Whole
  <2> QED  BY <2>2, <2>3, <2>4, <2>5, <2>6
<1> QED  BY <1>1, <1>2

(* The code behaviour: ApplyBps, which turns a share back into centavos, never *)
(* makes more than there is.                                                   *)
THEOREM ApplyBpsRange ==
  ASSUME NEW amount \in Nat, NEW bps \in 0..Whole
  PROVE  ApplyBps(amount, bps) \in 0..amount
<1>1. CASE amount = 0 \/ bps = 0
  BY <1>1 DEF ApplyBps, Whole
<1>2. CASE amount > 0 /\ bps > 0
  <2>1. bps \in Nat /\ Whole \in Nat /\ Whole > 0 /\ bps <= Whole
    BY DEF Whole
  <2>2. /\ amount * bps \in Nat /\ amount * Whole \in Nat
        /\ amount * bps <= amount * Whole
    BY <2>1, TimesMonotone
  <2>3. HalfUp(amount * bps, Whole) <= HalfUp(amount * Whole, Whole)
    BY <2>1, <2>2, HalfUpMonotone
  <2>4. HalfUp(amount * Whole, Whole) = amount
    BY <2>1, HalfUpExact, amount * Whole = Whole * amount
  <2>5. HalfUp(amount * bps, Whole) \in Nat
    BY <2>1, <2>2, HalfUpNearest
  <2>6. ApplyBps(amount, bps) = HalfUp(amount * bps, Whole)
    BY <1>2, <2>1 DEF ApplyBps
  <2> QED  BY <2>3, <2>4, <2>5, <2>6
<1>3. bps = 0 \/ bps > 0
  BY Whole \in Nat DEF Whole
<1>4. amount = 0 \/ amount > 0
  OBVIOUS
<1> QED  BY <1>1, <1>2, <1>3, <1>4

(* The code behaviour: ApplyBps in the net-worth loop.  A larger value at a    *)
(* larger yield earns no less, which keeps the scenarios in order month by     *)
(* month.                                                                      *)
THEOREM ApplyBpsMonotone ==
  ASSUME NEW a \in Nat, NEW b \in Nat, NEW r \in Nat, NEW t \in Nat,
         a <= b, r <= t
  PROVE  /\ ApplyBps(a, r) \in Nat /\ ApplyBps(b, t) \in Nat
         /\ ApplyBps(a, r) <= ApplyBps(b, t)
<1>1. Whole \in Nat /\ Whole > 0
  BY DEF Whole
<1>2. /\ a * r \in Nat /\ b * t \in Nat /\ a * r <= b * t
  <2>1. a * r \in Nat /\ a * t \in Nat /\ a * r <= a * t
    BY TimesMonotone
  <2>2. t * a \in Nat /\ t * b \in Nat /\ t * a <= t * b
    BY TimesMonotone
  <2>3. t * a = a * t /\ t * b = b * t
    OBVIOUS
  <2> QED  BY <2>1, <2>2, <2>3
<1>3. /\ HalfUp(a * r, Whole) \in Nat /\ HalfUp(b * t, Whole) \in Nat
      /\ HalfUp(a * r, Whole) <= HalfUp(b * t, Whole)
  BY <1>1, <1>2, HalfUpNearest, HalfUpMonotone
<1> QED  BY <1>3 DEF ApplyBps

(* The code behaviour: allocation, the dashboard's breakdown into two classes. *)
(* Each share is rounded on its own, and together they are off 100 % by at     *)
(* most one basis point.                                                       *)
THEOREM ClassSharesAddUp ==
  ASSUME NEW a \in Nat, NEW b \in Nat, a + b > 0
  PROVE  ShareBps(a, a + b) + ShareBps(b, a + b) \in Whole - 1 .. Whole + 1
<1> DEFINE w == a + b
           s == ShareBps(a, w)
           t == ShareBps(b, w)
<1>1. w \in Nat /\ w > 0 /\ Whole \in Nat
  BY DEF Whole
<1>2. /\ a * Whole \in Nat /\ b * Whole \in Nat
      /\ a * Whole + b * Whole = w * Whole
  BY DEF Whole
<1>3. s = HalfUp(a * Whole, w) /\ t = HalfUp(b * Whole, w)
  BY <1>1 DEF ShareBps
<1> HIDE DEF w, s, t
<1>4. /\ s \in Nat /\ 2 * (w * s) <= 2 * (a * Whole) + w
      /\ 2 * (a * Whole) < 2 * (w * s) + w
  BY <1>1, <1>2, <1>3, HalfUpNearest
<1>5. /\ t \in Nat /\ 2 * (w * t) <= 2 * (b * Whole) + w
      /\ 2 * (b * Whole) < 2 * (w * t) + w
  BY <1>1, <1>2, <1>3, HalfUpNearest
<1>6. /\ w * s \in Nat /\ w * t \in Nat
      /\ w * (s + t) = w * s + w * t
      /\ w * (Whole + 2) = w * Whole + 2 * w /\ w * Whole \in Nat
      /\ w * (s + t + 2) = w * s + w * t + 2 * w
  BY <1>1, <1>4, <1>5
<1>7. ~(Whole + 2 <= s + t)
  <2>1. SUFFICES ASSUME Whole + 2 <= s + t PROVE FALSE
    OBVIOUS
  <2>2. w * (Whole + 2) <= w * (s + t)
    BY <1>1, <1>4, <1>5, <2>1, TimesMonotone, Whole + 2 \in Nat, s + t \in Nat
  <2> QED  BY <1>1, <1>2, <1>4, <1>5, <1>6, <2>2
<1>8. ~(s + t + 2 <= Whole)
  <2>1. SUFFICES ASSUME s + t + 2 <= Whole PROVE FALSE
    OBVIOUS
  <2>2. w * (s + t + 2) <= w * Whole
    BY <1>1, <1>4, <1>5, <2>1, TimesMonotone, s + t + 2 \in Nat
  <2> QED  BY <1>1, <1>2, <1>4, <1>5, <1>6, <2>2
<1> QED  BY <1>1, <1>4, <1>5, <1>7, <1>8 DEF w, s, t

-----------------------------------------------------------------------------
(* Sums *)

LEMMA LeastNumber ==
  ASSUME NEW T \in SUBSET Nat, T # {}
  PROVE  \E x \in T : \A y \in T : x <= y
<1>1. PICK x \in T : \A y \in T : <<y, x>> \notin OpToRel(<, Nat)
  BY NatLessThanWellFounded, WFMin, Zenon
<1>2. \A y \in T : ~ (y < x)
  BY <1>1 DEF OpToRel
<1> QED
  BY <1>2

LEMMA Smallest ==
  ASSUME NEW D, IsFiniteSet(D), NEW B \in SUBSET SUBSET D, B # {}
  PROVE  \E s \in B : /\ IsFiniteSet(s)
                      /\ \A x \in s : s \ {x} \notin B
<1> DEFINE Sizes == {Cardinality(s) : s \in B}
<1>1. \A s \in B : IsFiniteSet(s) /\ Cardinality(s) \in Nat
  BY FS_Subset, FS_CardinalityType
<1>2. Sizes \in SUBSET Nat /\ Sizes # {}
  BY <1>1
<1>3. PICK n \in Sizes : \A k \in Sizes : n <= k
  BY <1>2, LeastNumber
<1>4. PICK s \in B : n = Cardinality(s)
  BY <1>3
<1>5. ASSUME NEW x \in s, s \ {x} \in B PROVE FALSE
  <2>1. Cardinality(s \ {x}) = Cardinality(s) - 1
    BY <1>1, FS_RemoveElement
  <2>2. n <= Cardinality(s \ {x})
    BY <1>3, <1>5
  <2> QED
    BY <1>1, <1>4, <2>1, <2>2
<1> QED
  BY <1>1, <1>5

Taken(s) == CHOOSE x \in s : TRUE

\* The partial sums of f by the sets they are over, in the order of SumFunction.
SumsOf(f, it) ==
  [s \in SUBSET DOMAIN f |->
     IF s = {} THEN 0 ELSE f[Taken(s)] + it[s \ {Taken(s)}]]
PartialSums(f) == CHOOSE it : it = SumsOf(f, it)

LEMMA SumIsPartial == ASSUME NEW f PROVE SumFunction(f) = PartialSums(f)[DOMAIN f]
BY Zenon DEF SumsOf, Taken, PartialSums, SumFunction, SumFunctionOnSet,
             FoldFunctionOnSet, MapThenFoldSet

\* SumFunction's recursion has a solution: up to any number of elements it has.
LEMMA PartialSumsExist ==
  ASSUME NEW D, IsFiniteSet(D), NEW f \in [D -> Int]
  PROVE  \E it \in [SUBSET D -> Int] : it = SumsOf(f, it)
<1> DEFINE Upto(n) == {s \in SUBSET D : Cardinality(s) <= n}
           Step(it, s) == IF s = {} THEN 0 ELSE f[Taken(s)] + it[s \ {Taken(s)}]
           Good(n) == \E it \in [Upto(n) -> Int] : \A s \in Upto(n) : it[s] = Step(it, s)
           Bad == {n \in Nat : ~Good(n)}
<1>1. \A s \in SUBSET D : /\ IsFiniteSet(s) /\ Cardinality(s) \in Nat
                          /\ Cardinality(s) = 0 <=> s = {}
                          /\ s # {} => /\ Taken(s) \in s
                                       /\ Cardinality(s \ {Taken(s)}) = Cardinality(s) - 1
  BY FS_Subset, FS_CardinalityType, FS_EmptySet, FS_RemoveElement DEF Taken
<1>2. Good(0)
  <2>1. Upto(0) = {{}}
    <3>1. \A s \in SUBSET D : Cardinality(s) <= 0 <=> s = {}
      <4> SUFFICES ASSUME NEW s \in SUBSET D PROVE Cardinality(s) <= 0 <=> s = {}
        OBVIOUS
      <4>1. Cardinality(s) \in Nat /\ (Cardinality(s) = 0 <=> s = {})
        BY <1>1
      <4> QED
        BY <4>1
    <3> QED
      BY <3>1
  <2> HIDE DEF Upto
  <2> DEFINE it == [s \in Upto(0) |-> 0]
  <2>2. it \in [Upto(0) -> Int] /\ \A s \in Upto(0) : it[s] = Step(it, s)
    BY <2>1
  <2> QED
    BY <2>2
<1>3. ASSUME NEW n \in Nat, Good(n) PROVE Good(n + 1)
  <2>1. PICK it \in [Upto(n) -> Int] : \A s \in Upto(n) : it[s] = Step(it, s)
    BY <1>3
  <2> DEFINE next == [s \in Upto(n + 1) |-> Step(it, s)]
  <2>2. \A s \in Upto(n + 1) : s # {} => s \ {Taken(s)} \in Upto(n) /\ Taken(s) \in D
    BY <1>1
  <2>3. Upto(n) \subseteq Upto(n + 1)
    <3> SUFFICES ASSUME NEW s \in SUBSET D, Cardinality(s) <= n
                 PROVE  Cardinality(s) <= n + 1
      OBVIOUS
    <3>1. Cardinality(s) \in Nat
      BY <1>1
    <3> QED
      BY <3>1
  <2> HIDE DEF Upto
  <2>4. next \in [Upto(n + 1) -> Int]
    BY <2>1, <2>2
  <2>5. \A s \in Upto(n) : next[s] = it[s]
    BY <2>1, <2>3
  <2>6. \A s \in Upto(n + 1) : next[s] = Step(next, s)
    BY <2>2, <2>5
  <2> QED
    BY <2>4, <2>6
<1> HIDE DEF Good
<1>4. Bad = {}
  <2> SUFFICES ASSUME Bad # {} PROVE FALSE
    OBVIOUS
  <2>1. PICK n \in Bad : \A k \in Bad : n <= k
    <3>1. Bad \in SUBSET Nat
      OBVIOUS
    <3> QED
      BY <3>1, LeastNumber
  <2>2. n # 0
    BY <1>2, <2>1
  <2>3. n - 1 \in Nat /\ Good(n - 1)
    BY <2>1, <2>2
  <2> QED
    BY <1>3, <2>1, <2>3
<1>5. Good(Cardinality(D)) /\ Upto(Cardinality(D)) = SUBSET D
  <2>1. Cardinality(D) \in Nat
    BY <1>1
  <2>2. \A s \in SUBSET D : Cardinality(s) <= Cardinality(D)
    BY FS_Subset
  <2> QED
    BY <1>4, <2>1, <2>2
<1>6. PICK it \in [SUBSET D -> Int] : \A s \in SUBSET D : it[s] = Step(it, s)
  BY <1>5 DEF Good
<1>7. it = SumsOf(f, it)
  BY <1>6 DEF SumsOf
<1> QED
  BY <1>7

AreSums(D, f, it) ==
  /\ it \in [SUBSET D -> Int]
  /\ it[{}] = 0
  /\ \A s \in SUBSET D : s # {} =>
       Taken(s) \in s /\ it[s] = f[Taken(s)] + it[s \ {Taken(s)}]

LEMMA PartialSumsType ==
  ASSUME NEW D, IsFiniteSet(D), NEW f \in [D -> Int]
  PROVE  AreSums(D, f, PartialSums(f))
<1> DEFINE sums == PartialSums(f)
<1>1. sums = SumsOf(f, sums)
  BY PartialSumsExist DEF PartialSums
<1> HIDE DEF sums
<1>2. DOMAIN sums = SUBSET D
      /\ \A s \in SUBSET D :
           sums[s] = IF s = {} THEN 0 ELSE f[Taken(s)] + sums[s \ {Taken(s)}]
  BY <1>1 DEF SumsOf
<1>3. \A s \in SUBSET D : s # {} => Taken(s) \in s
  BY DEF Taken
<1> DEFINE Bad == {s \in SUBSET D : sums[s] \notin Int}
<1>4. ASSUME Bad # {} PROVE FALSE
  <2>1. PICK s \in Bad : \A x \in s : s \ {x} \notin Bad
    <3>1. Bad \in SUBSET SUBSET D
      OBVIOUS
    <3> QED
      BY <1>4, <3>1, Smallest
  <2>2. CASE s = {}
    <3>1. sums[s] = 0
      BY <1>2, <2>1, <2>2
    <3> QED
      BY <2>1, <3>1
  <2>3. CASE s # {}
    <3>1. Taken(s) \in D /\ s \ {Taken(s)} \in SUBSET D /\ sums[s \ {Taken(s)}] \in Int
      BY <1>3, <2>1, <2>3
    <3> QED
      BY <1>2, <2>1, <2>3, <3>1
  <2> QED
    BY <2>2, <2>3
<1>5. sums \in [SUBSET D -> Int]
  <2>1. sums = [s \in SUBSET D |-> sums[s]]
    BY <1>1, <1>2 DEF SumsOf
  <2> QED
    BY <1>4, <2>1
<1> QED
  BY <1>2, <1>3, <1>5 DEF sums, AreSums

\* The sum does not depend on the order in which the elements are taken.
LEMMA PartialSumsRemove ==
  ASSUME NEW D, IsFiniteSet(D), NEW f \in [D -> Int],
         NEW s \in SUBSET D, NEW x \in s
  PROVE  PartialSums(f)[s] = f[x] + PartialSums(f)[s \ {x}]
<1> DEFINE sums == PartialSums(f)
           Bad == {t \in SUBSET D : \E y \in t : sums[t] # f[y] + sums[t \ {y}]}
<1>0. AreSums(D, f, sums)
  BY PartialSumsType
<1> HIDE DEF sums
<1>1. /\ sums \in [SUBSET D -> Int]
      /\ \A t \in SUBSET D : t # {} =>
              Taken(t) \in t /\ sums[t] = f[Taken(t)] + sums[t \ {Taken(t)}]
  BY <1>0 DEF AreSums
<1>2. ASSUME Bad # {} PROVE FALSE
  <2>1. PICK t \in Bad : \A y \in t : t \ {y} \notin Bad
    <3>1. Bad \in SUBSET SUBSET D
      OBVIOUS
    <3> QED
      BY <1>2, <3>1, Smallest
  <2>2. PICK y \in t : sums[t] # f[y] + sums[t \ {y}]
    BY <2>1
  <2> DEFINE a == Taken(t)
  <2>3. a \in t /\ sums[t] = f[a] + sums[t \ {a}] /\ a # y
    BY <1>1, <2>1, <2>2
  <2> HIDE DEF a
  <2>4. sums[t \ {a}] = f[y] + sums[(t \ {a}) \ {y}]
    BY <2>1, <2>2, <2>3
  <2>5. sums[t \ {y}] = f[a] + sums[(t \ {y}) \ {a}]
    BY <2>1, <2>2, <2>3
  <2>6. sums[(t \ {a}) \ {y}] = sums[(t \ {y}) \ {a}]
    <3>1. (t \ {a}) \ {y} = (t \ {y}) \ {a}
      OBVIOUS
    <3> QED
      BY <3>1
  <2>7. f[a] \in Int /\ f[y] \in Int /\ sums[(t \ {y}) \ {a}] \in Int
    BY <1>1, <2>1, <2>2, <2>3
  <2> QED
    BY <2>2, <2>3, <2>4, <2>5, <2>6, <2>7
<1> QED
  BY <1>2 DEF sums

LEMMA PartialSumsAgree ==
  ASSUME NEW D, IsFiniteSet(D), NEW f \in [D -> Int],
         NEW C \in SUBSET D, NEW g \in [C -> Int], \A x \in C : g[x] = f[x]
  PROVE  \A s \in SUBSET C : PartialSums(g)[s] = PartialSums(f)[s]
<1> DEFINE sf == PartialSums(f)
           sg == PartialSums(g)
           Bad == {s \in SUBSET C : sg[s] # sf[s]}
<1>1. IsFiniteSet(C)
  BY FS_Subset
<1>2. AreSums(D, f, sf)
  BY PartialSumsType
<1>3. AreSums(C, g, sg)
  BY <1>1, PartialSumsType
<1> HIDE DEF sf, sg
<1>4. ASSUME Bad # {} PROVE FALSE
  <2>1. PICK s \in Bad : \A y \in s : s \ {y} \notin Bad
    <3>1. Bad \in SUBSET SUBSET C
      OBVIOUS
    <3> QED
      BY <1>1, <1>4, <3>1, Smallest
  <2>2. s # {}
    BY <1>2, <1>3, <2>1 DEF AreSums
  <2> QED
    BY <1>2, <1>3, <2>1, <2>2 DEF AreSums
<1> QED
  BY <1>4 DEF sf, sg

\* What is used of SumFunction: over a part of the elements it is a number, over
\* none it is 0, and any element can be taken out.
Part(f, s) == [x \in s |-> f[x]]
SumOn(f, s) == SumFunction(Part(f, s))

LEMMA SumRemove ==
  ASSUME NEW D, IsFiniteSet(D), NEW f \in [D -> Int]
  PROVE  /\ SumFunction(f) = SumOn(f, D)
         /\ SumOn(f, {}) = 0
         /\ \A s \in SUBSET D : SumOn(f, s) \in Int
         /\ \A s \in SUBSET D : \A x \in s : SumOn(f, s) = f[x] + SumOn(f, s \ {x})
<1> DEFINE sums == PartialSums(f)
<1>1. sums \in [SUBSET D -> Int] /\ sums[{}] = 0
  BY PartialSumsType DEF AreSums
<1>2. ASSUME NEW s \in SUBSET D PROVE SumOn(f, s) = sums[s]
  <2>1. Part(f, s) \in [s -> Int] /\ \A x \in s : Part(f, s)[x] = f[x]
    BY DEF Part
  <2>2. PartialSums(Part(f, s))[s] = sums[s]
    BY <2>1, PartialSumsAgree
  <2>3. SumOn(f, s) = PartialSums(Part(f, s))[DOMAIN Part(f, s)]
    BY SumIsPartial DEF SumOn
  <2> QED
    BY <2>1, <2>2, <2>3
<1>3. \A s \in SUBSET D : \A x \in s : sums[s] = f[x] + sums[s \ {x}]
  <2> TAKE s \in SUBSET D
  <2> TAKE x \in s
  <2> QED
    BY PartialSumsRemove
<1>4. SumFunction(f) = SumOn(f, D)
  BY DEF SumOn, Part
<1> HIDE DEF sums
<1>5. \A s \in SUBSET D : \A x \in s : SumOn(f, s) = f[x] + SumOn(f, s \ {x})
  <2> TAKE s \in SUBSET D
  <2> TAKE x \in s
  <2>1. SumOn(f, s) = sums[s] /\ SumOn(f, s \ {x}) = sums[s \ {x}]
    BY <1>2
  <2> QED
    BY <1>3, <2>1
<1>6. \A s \in SUBSET D : SumOn(f, s) \in Int
  BY <1>1, <1>2
<1>7. SumOn(f, {}) = 0
  BY <1>1, <1>2
<1> QED
  BY <1>4, <1>5, <1>6, <1>7

LEMMA TakeOut ==
  ASSUME NEW D, IsFiniteSet(D), NEW f \in [D -> Int], NEW s \in SUBSET D, NEW x \in s
  PROVE  SumOn(f, s) = f[x] + SumOn(f, s \ {x})
  BY SumRemove

\* Amounts that are not negative make a sum that is not.
LEMMA SumOfNaturals ==
  ASSUME NEW D, IsFiniteSet(D), NEW f \in [D -> Nat]
  PROVE  SumFunction(f) \in Nat
<1> DEFINE Bad == {s \in SUBSET D : SumOn(f, s) \notin Nat}
<1>1. f \in [D -> Int]
  OBVIOUS
<1>2. ASSUME Bad # {} PROVE FALSE
  <2>1. PICK s \in Bad : \A x \in s : s \ {x} \notin Bad
    <3>1. Bad \in SUBSET SUBSET D
      OBVIOUS
    <3> QED
      BY <1>2, <3>1, Smallest
  <2>2. PICK x \in s : TRUE
    BY <1>1, <2>1, SumRemove
  <2>3. SumOn(f, s) = f[x] + SumOn(f, s \ {x})
    BY <1>1, <2>1, <2>2, SumRemove
  <2> QED
    BY <2>1, <2>2, <2>3
<1>3. SumFunction(f) = SumOn(f, D)
  BY <1>1, SumRemove
<1> QED
  BY <1>2, <1>3

LEMMA SumOfZeros ==
  ASSUME NEW D, IsFiniteSet(D), NEW f \in [D -> {0}]
  PROVE  SumFunction(f) = 0
<1> DEFINE Bad == {s \in SUBSET D : SumOn(f, s) # 0}
<1>1. f \in [D -> Int]
  OBVIOUS
<1>2. ASSUME Bad # {} PROVE FALSE
  <2>1. PICK s \in Bad : \A x \in s : s \ {x} \notin Bad
    <3>1. Bad \in SUBSET SUBSET D
      OBVIOUS
    <3> QED
      BY <1>2, <3>1, Smallest
  <2>2. PICK x \in s : TRUE
    BY <1>1, <2>1, SumRemove
  <2>3. SumOn(f, s) = f[x] + SumOn(f, s \ {x})
    BY <1>1, <2>1, <2>2, SumRemove
  <2> QED
    BY <2>1, <2>2, <2>3
<1>3. SumFunction(f) = SumOn(f, D)
  BY <1>1, SumRemove
<1> QED
  BY <1>2, <1>3

\* Amounts added up group by group make the sum of them all.
KeysOf(key, s) == {key[x] : x \in s}
GroupOf(key, s, k) == {x \in s : key[x] = k}
Groups(amount, key, s) == [k \in KeysOf(key, s) |-> SumOn(amount, GroupOf(key, s, k))]

LEMMA FiniteKeys ==
  ASSUME NEW s, IsFiniteSet(s), NEW key
  PROVE  IsFiniteSet(KeysOf(key, s))
<1> DEFINE f == [x \in s |-> key[x]]
<1>1. f \in Surjection(s, KeysOf(key, s))
  BY DEF Surjection, KeysOf
<1> QED
  BY <1>1, FS_Surjection, Zenon

LEMMA GroupsType ==
  ASSUME NEW D, IsFiniteSet(D), NEW amount \in [D -> Int], NEW key, NEW s \in SUBSET D
  PROVE  /\ IsFiniteSet(KeysOf(key, s))
         /\ Groups(amount, key, s) \in [KeysOf(key, s) -> Int]
<1>1. IsFiniteSet(s)
  BY FS_Subset
<1>2. IsFiniteSet(KeysOf(key, s))
  BY <1>1, FiniteKeys
<1>3. \A k : SumOn(amount, GroupOf(key, s, k)) \in Int
  <2> TAKE k
  <2>1. GroupOf(key, s, k) \in SUBSET D
    BY DEF GroupOf
  <2> QED
    BY <2>1, SumRemove
<1> QED
  BY <1>2, <1>3 DEF Groups

LEMMA GroupsRemove ==
  ASSUME NEW D, IsFiniteSet(D), NEW amount \in [D -> Int], NEW key,
         NEW s \in SUBSET D, NEW x \in s
  PROVE  SumFunction(Groups(amount, key, s))
           = amount[x] + SumFunction(Groups(amount, key, s \ {x}))
<1> DEFINE r == s \ {x}
           k == key[x]
           before == Groups(amount, key, r)
           after == Groups(amount, key, s)
           rest == KeysOf(key, s) \ {k}
           others == SumOn(before, rest)
           left == SumOn(amount, GroupOf(key, r, k))
<1>1. /\ IsFiniteSet(KeysOf(key, s)) /\ after \in [KeysOf(key, s) -> Int]
      /\ IsFiniteSet(KeysOf(key, r)) /\ before \in [KeysOf(key, r) -> Int]
  <2>1. r \in SUBSET D
    OBVIOUS
  <2> QED
    BY <2>1, GroupsType
<1>2. /\ \A j \in KeysOf(key, s) : after[j] = SumOn(amount, GroupOf(key, s, j))
      /\ \A j \in KeysOf(key, r) : before[j] = SumOn(amount, GroupOf(key, r, j))
  BY DEF Groups
<1>3. k \in KeysOf(key, s)
  BY DEF KeysOf
<1>4. after[k] = amount[x] + left /\ left \in Int /\ amount[x] \in Int
  <2>1. x \in GroupOf(key, s, k) /\ GroupOf(key, s, k) \ {x} = GroupOf(key, r, k)
        /\ GroupOf(key, s, k) \in SUBSET D /\ GroupOf(key, r, k) \in SUBSET D
    BY DEF GroupOf
  <2>2. SumOn(amount, GroupOf(key, s, k)) = amount[x] + SumOn(amount, GroupOf(key, s, k) \ {x})
    BY <2>1, SumRemove
  <2>3. left \in Int
    BY <2>1, SumRemove
  <2> QED
    BY <1>2, <1>3, <2>1, <2>2, <2>3
<1>5. SumOn(after, rest) = others
  <2>1. ASSUME NEW j \in rest PROVE after[j] = before[j]
    <3>1. GroupOf(key, s, j) = GroupOf(key, r, j) /\ j \in KeysOf(key, r)
      BY DEF GroupOf, KeysOf
    <3> QED
      BY <1>2, <3>1
  <2> QED
    BY <2>1 DEF SumOn, Part
<1> HIDE DEF after, before, k, others, left
<1>6. SumFunction(after) = after[k] + SumOn(after, rest)
  <2>1. SumFunction(after) = SumOn(after, KeysOf(key, s))
    BY <1>1, SumRemove
  <2>2. KeysOf(key, s) \in SUBSET KeysOf(key, s)
    OBVIOUS
  <2>3. SumOn(after, KeysOf(key, s)) = after[k] + SumOn(after, KeysOf(key, s) \ {k})
    BY <1>1, <1>3, <2>2, SumRemove
  <2> QED
    BY <2>1, <2>3
<1>7. SumFunction(before) = SumOn(before, KeysOf(key, r))
  BY <1>1, SumRemove
<1>8. CASE k \in KeysOf(key, r)
  <2>1. KeysOf(key, s) = KeysOf(key, r)
    BY <1>8 DEF KeysOf, k
  <2>2. rest \in SUBSET KeysOf(key, r)
    BY <2>1
  <2>3. SumOn(before, KeysOf(key, r)) = before[k] + SumOn(before, KeysOf(key, r) \ {k})
    <3> DEFINE all == KeysOf(key, r)
    <3>1. all \in SUBSET all /\ k \in all /\ IsFiniteSet(all) /\ before \in [all -> Int]
      BY <1>1, <1>8
    <3> HIDE DEF all
    <3>2. \A y \in all : SumOn(before, all) = before[y] + SumOn(before, all \ {y})
      BY <3>1, SumRemove
    <3> QED
      BY <3>1, <3>2 DEF all
  <2>4. SumOn(before, rest) \in Int
    BY <1>1, <2>2, SumRemove
  <2>5. SumFunction(before) = before[k] + others /\ others \in Int
    BY <1>7, <2>1, <2>3, <2>4 DEF others
  <2>6. before[k] = left
    BY <1>2, <1>8 DEF left
  <2>7. SumFunction(after) = amount[x] + SumFunction(before)
    BY <1>4, <1>5, <1>6, <2>5, <2>6
  <2> QED
    BY <2>7 DEF after, before
<1>9. CASE k \notin KeysOf(key, r)
  <2>1. rest = KeysOf(key, r) /\ GroupOf(key, r, k) = {}
    BY <1>9 DEF KeysOf, GroupOf, k
  <2>2. KeysOf(key, r) \in SUBSET KeysOf(key, r)
    OBVIOUS
  <2>3. SumOn(before, KeysOf(key, r)) \in Int
    BY <1>1, <2>2, SumRemove
  <2>4. SumFunction(before) = others /\ others \in Int
    BY <1>7, <2>1, <2>3 DEF others
  <2>5. left = 0
    BY <2>1, SumRemove DEF left
  <2>6. SumFunction(after) = amount[x] + SumFunction(before)
    BY <1>4, <1>5, <1>6, <2>4, <2>5
  <2> QED
    BY <2>6 DEF after, before
<1> QED
  BY <1>8, <1>9

LEMMA SumByGroups ==
  ASSUME NEW D, IsFiniteSet(D), NEW amount \in [D -> Int], NEW key
  PROVE  SumFunction(Groups(amount, key, D)) = SumFunction(amount)
<1> DEFINE Sum(s) == SumFunction(Groups(amount, key, s))
           Bad == {s \in SUBSET D : Sum(s) # SumOn(amount, s)}
<1>1. ASSUME NEW s \in SUBSET D, NEW x \in s
      PROVE  Sum(s) = amount[x] + Sum(s \ {x})
  BY GroupsRemove
<1>2. Sum({}) = 0
  <2>1. Groups(amount, key, {}) \in [{} -> Int] /\ IsFiniteSet({})
    BY FS_EmptySet DEF Groups, KeysOf
  <2>2. SumFunction(Groups(amount, key, {})) = SumOn(Groups(amount, key, {}), {})
    BY <2>1, SumRemove
  <2> QED
    BY <2>1, <2>2, SumRemove
<1> HIDE DEF Sum
<1>3. ASSUME Bad # {} PROVE FALSE
  <2>1. PICK s \in Bad : \A x \in s : s \ {x} \notin Bad
    <3>1. Bad \in SUBSET SUBSET D
      OBVIOUS
    <3> QED
      BY <1>3, <3>1, Smallest
  <2>2. PICK x \in s : TRUE
    BY <1>2, <2>1, SumRemove
  <2>3. SumOn(amount, s) = amount[x] + SumOn(amount, s \ {x})
    BY <2>1, <2>2, SumRemove
  <2> QED
    BY <1>1, <2>1, <2>2, <2>3
<1>4. SumFunction(amount) = SumOn(amount, D)
  BY SumRemove
<1> QED
  BY <1>3, <1>4 DEF Sum

LEMMA Distributes ==
  ASSUME NEW a \in Int, NEW b \in Int, NEW c \in Int
  PROVE  a * b \in Int /\ a * c \in Int /\ a * (b + c) = a * b + a * c
OBVIOUS

LEMMA SharesNearly ==
  ASSUME NEW D, IsFiniteSet(D), NEW v \in [D -> Nat], NEW t \in Nat, t > 0
  PROVE  LET share == SumFunction([x \in D |-> ShareBps(v[x], t)])
             n     == Cardinality(D)
         IN  /\ 2 * (t * share) <= 2 * Whole * SumFunction(v) + t * n
             /\ 2 * Whole * SumFunction(v) <= 2 * (t * share) + t * n
             /\ share \in Int /\ n \in Nat
<1> DEFINE w == [x \in D |-> ShareBps(v[x], t)]
           Off(s) == \/ 2 * (t * SumOn(w, s)) > 2 * Whole * SumOn(v, s) + t * Cardinality(s)
                     \/ 2 * Whole * SumOn(v, s) > 2 * (t * SumOn(w, s)) + t * Cardinality(s)
           Bad == {s \in SUBSET D : Off(s)}
<1>1. ASSUME NEW x \in D
      PROVE  /\ w[x] \in Nat
             /\ 2 * (t * w[x]) <= 2 * Whole * v[x] + t
             /\ 2 * Whole * v[x] <= 2 * (t * w[x]) + t
  <2>1. v[x] \in Nat /\ v[x] * Whole \in Nat
    BY DEF Whole
  <2>2. w[x] = HalfUp(v[x] * Whole, t)
    BY <2>1 DEF ShareBps
  <2>3. /\ HalfUp(v[x] * Whole, t) \in Nat
        /\ 2 * (t * HalfUp(v[x] * Whole, t)) <= 2 * (v[x] * Whole) + t
        /\ 2 * (v[x] * Whole) < 2 * (t * HalfUp(v[x] * Whole, t)) + t
    BY <2>1, HalfUpNearest
  <2>4. t * HalfUp(v[x] * Whole, t) \in Nat
    BY <2>3
  <2> HIDE DEF w
  <2> QED
    BY <2>1, <2>2, <2>3, <2>4 DEF Whole
<1>2. v \in [D -> Int] /\ w \in [D -> Int]
  BY <1>1
<1> HIDE DEF w
<1>3. \A s \in SUBSET D : /\ IsFiniteSet(s) /\ Cardinality(s) \in Nat
                          /\ \A x \in s : Cardinality(s \ {x}) = Cardinality(s) - 1
  BY FS_Subset, FS_CardinalityType, FS_RemoveElement
<1>4. ASSUME NEW s \in SUBSET D, NEW x \in s, ~Off(s \ {x}) PROVE ~Off(s)
  <2> DEFINE a == SumOn(w, s \ {x})
             b == SumOn(v, s \ {x})
             n == Cardinality(s \ {x})
  <2>1. /\ SumOn(w, s) = w[x] + a /\ a \in Int /\ SumOn(v, s) = v[x] + b /\ b \in Int
    BY <1>2, SumRemove
  <2>2. Cardinality(s) = n + 1 /\ n \in Nat
    BY <1>3
  <2>3. /\ 2 * (t * a) <= 2 * Whole * b + t * n
        /\ 2 * Whole * b <= 2 * (t * a) + t * n
    <3>1. t * a \in Int /\ t * n \in Int /\ Whole * b \in Int
      BY <2>1, <2>2 DEF Whole
    <3> QED
      BY <1>4, <2>1, <2>2, <3>1 DEF Whole
  <2> HIDE DEF a, b, n
  <2>4. t * (w[x] + a) = t * w[x] + t * a /\ t * (n + 1) = t * n + t
        /\ t * w[x] \in Int /\ t * a \in Int /\ t * n \in Int
    BY <1>1, <2>1, <2>2, Distributes
  <2>5. /\ 2 * (t * w[x]) <= 2 * Whole * v[x] + t
        /\ 2 * Whole * v[x] <= 2 * (t * w[x]) + t
        /\ v[x] \in Nat
    BY <1>1
  <2> DEFINE tw == t * w[x]
             ta == t * a
             tn == t * n
  <2>6. /\ 2 * (tw + ta) <= 2 * Whole * (v[x] + b) + (tn + t)
        /\ 2 * Whole * (v[x] + b) <= 2 * (tw + ta) + (tn + t)
    <3> tw \in Int /\ ta \in Int /\ tn \in Int
      BY <2>4
    <3>1. /\ 2 * ta <= 2 * Whole * b + tn
          /\ 2 * Whole * b <= 2 * ta + tn
          /\ 2 * tw <= 2 * Whole * v[x] + t
          /\ 2 * Whole * v[x] <= 2 * tw + t
      BY <2>3, <2>5
    <3> HIDE DEF tw, ta, tn
    <3> QED
      BY <2>1, <2>5, <3>1 DEF Whole
  <2>7. /\ 2 * (t * SumOn(w, s)) <= 2 * Whole * SumOn(v, s) + t * Cardinality(s)
        /\ 2 * Whole * SumOn(v, s) <= 2 * (t * SumOn(w, s)) + t * Cardinality(s)
    BY <2>1, <2>2, <2>4, <2>6
  <2>8. t * SumOn(w, s) \in Int /\ t * Cardinality(s) \in Int /\ Whole * SumOn(v, s) \in Int
    BY <2>1, <2>2, <2>5, <1>1 DEF Whole
  <2> QED
    BY <2>1, <2>5, <2>7, <2>8 DEF Whole
<1>5. ~Off({})
  <2>1. SumOn(w, {}) = 0 /\ SumOn(v, {}) = 0 /\ Cardinality({}) = 0
    BY <1>2, SumRemove, FS_EmptySet
  <2> QED
    BY <2>1 DEF Whole
<1> HIDE DEF Off
<1>6. ASSUME Bad # {} PROVE FALSE
  <2>1. PICK s \in Bad : \A x \in s : s \ {x} \notin Bad
    <3>1. Bad \in SUBSET SUBSET D
      OBVIOUS
    <3> QED
      BY <1>6, <3>1, Smallest
  <2>2. PICK x \in s : TRUE
    BY <1>5, <2>1
  <2> QED
    BY <1>4, <2>1, <2>2
<1>7. D \in SUBSET D /\ ~Off(D)
  BY <1>6
<1>8. /\ SumFunction(w) = SumOn(w, D) /\ SumOn(w, D) \in Int
      /\ SumFunction(v) = SumOn(v, D) /\ SumOn(v, D) \in Int /\ Cardinality(D) \in Nat
  BY <1>2, <1>3, <1>7, SumRemove
<1>9. t * SumOn(w, D) \in Int /\ t * Cardinality(D) \in Int /\ Whole * SumOn(v, D) \in Int
  BY <1>8 DEF Whole
<1>10. /\ 2 * (t * SumOn(w, D)) <= 2 * Whole * SumOn(v, D) + t * Cardinality(D)
       /\ 2 * Whole * SumOn(v, D) <= 2 * (t * SumOn(w, D)) + t * Cardinality(D)
  BY <1>7, <1>8, <1>9 DEF Off, Whole
<1> QED
  BY <1>8, <1>10 DEF w

(* The code behaviour: the breakdowns of dashboard.Compute.  Shares of any       *)
(* number of parts, each rounded on its own, are together off 100 % by less than *)
(* one basis point a part.                                                       *)
THEOREM SharesAddUp ==
  ASSUME NEW D, IsFiniteSet(D), NEW v \in [D -> Nat], SumFunction(v) > 0
  PROVE  SumFunction([x \in D |-> ShareBps(v[x], SumFunction(v))])
           \in Whole - Cardinality(D) .. Whole + Cardinality(D)
<1> DEFINE t == SumFunction(v)
           share == SumFunction([x \in D |-> ShareBps(v[x], t)])
           n == Cardinality(D)
<1>1. t \in Nat /\ t > 0
  BY SumOfNaturals
<1> HIDE DEF t
<1>2. /\ 2 * (t * share) <= 2 * Whole * t + t * n
      /\ 2 * Whole * t <= 2 * (t * share) + t * n
      /\ share \in Int /\ n \in Nat
  <2>1. t = SumFunction(v)
    BY DEF t
  <2> QED
    BY <1>1, <2>1, SharesNearly
<1> HIDE DEF share, n
<1>3. /\ t * (2 * share) <= t * (2 * Whole + n)
      /\ t * (2 * Whole - n) <= t * (2 * share)
  BY <1>1, <1>2 DEF Whole
<1>4. 2 * share <= 2 * Whole + n
  <2> SUFFICES ASSUME 2 * share >= 2 * Whole + n + 1 PROVE FALSE
    BY <1>2 DEF Whole
  <2>1. t * (2 * share) >= t * (2 * Whole + n + 1)
    BY <1>1, <1>2 DEF Whole
  <2>2. t * (2 * Whole + n + 1) = t * (2 * Whole + n) + t
    BY <1>1, <1>2 DEF Whole
  <2> QED
    BY <1>1, <1>2, <1>3, <2>1, <2>2 DEF Whole
<1>5. 2 * Whole - n <= 2 * share
  <2> SUFFICES ASSUME 2 * share <= 2 * Whole - n - 1 PROVE FALSE
    BY <1>2 DEF Whole
  <2>1. t * (2 * share) <= t * (2 * Whole - n - 1)
    BY <1>1, <1>2 DEF Whole
  <2>2. t * (2 * Whole - n - 1) = t * (2 * Whole - n) - t
    BY <1>1, <1>2 DEF Whole
  <2> QED
    BY <1>1, <1>2, <1>3, <2>1, <2>2 DEF Whole
<1>6. share \in Whole - n .. Whole + n
  BY <1>2, <1>4, <1>5 DEF Whole
<1> QED
  BY <1>6 DEF share, n, t

-----------------------------------------------------------------------------
(* Sums of parts, and the weighted mean *)

\* A part of the amounts makes a part of their sum.
LEMMA SumOfPart ==
  ASSUME NEW D, IsFiniteSet(D), NEW f \in [D -> Nat], NEW S \in SUBSET D
  PROVE  SumOn(f, S) \in Nat /\ SumFunction(f) \in Nat /\ SumOn(f, S) <= SumFunction(f)
<1> DEFINE Bad == {s \in SUBSET D : S \subseteq s /\ ~(SumOn(f, S) <= SumOn(f, s))}
<1>1. f \in [D -> Int]
  OBVIOUS
<1>2. ASSUME Bad # {} PROVE FALSE
  <2>1. PICK s \in Bad : \A x \in s : s \ {x} \notin Bad
    <3>1. Bad \in SUBSET SUBSET D
      OBVIOUS
    <3> HIDE DEF Bad
    <3> QED
      BY <1>2, <3>1, Smallest
  <2>2. SumOn(f, S) \in Int
    BY <1>1, SumRemove
  <2>3. PICK x \in s : x \notin S
    BY <2>1, <2>2
  <2>4. SumOn(f, s) = f[x] + SumOn(f, s \ {x}) /\ SumOn(f, s \ {x}) \in Int
    BY <1>1, <2>1, <2>3, SumRemove
  <2>5. SumOn(f, S) <= SumOn(f, s \ {x})
    BY <2>1, <2>3
  <2> QED
    BY <2>1, <2>2, <2>3, <2>4, <2>5
<1>3. SumFunction(f) = SumOn(f, D)
  BY <1>1, SumRemove
<1>4. SumOn(f, S) \in Nat
  <2>1. IsFiniteSet(S) /\ Part(f, S) \in [S -> Nat]
    BY FS_Subset DEF Part
  <2> QED
    BY <2>1, SumOfNaturals DEF SumOn
<1>5. SumFunction(f) \in Nat
  BY SumOfNaturals
<1> QED
  BY <1>2, <1>3, <1>4, <1>5

\* The sum of amounts numbered from 1, one by one.
ByOne(f, D) == \A k \in D : SumOn(f, 1..k) = f[k] + SumOn(f, 1..(k - 1))

LEMMA SumOneByOne ==
  ASSUME NEW D, IsFiniteSet(D), NEW f \in [D -> Int],
         \A k \in D : 1..k \in SUBSET D /\ k \in 1..k /\ 1..(k - 1) = (1..k) \ {k}
  PROVE  ByOne(f, D)
<1> SUFFICES ASSUME NEW k \in D PROVE SumOn(f, 1..k) = f[k] + SumOn(f, 1..(k - 1))
  BY DEF ByOne
<1> DEFINE s == 1..k
<1>1. s \in SUBSET D /\ k \in s /\ 1..(k - 1) = s \ {k}
  OBVIOUS
<1> HIDE DEF s
<1>2. SumOn(f, s) = f[k] + SumOn(f, s \ {k})
  BY <1>1, TakeOut
<1> QED
  BY <1>1, <1>2 DEF s

LEMMA SumUpTo ==
  ASSUME NEW n \in Nat, NEW D, D = 1..n, NEW f \in [D -> Int]
  PROVE  /\ SumFunction(f) = SumOn(f, D) /\ SumOn(f, 1..0) = 0
         /\ ByOne(f, D)
<1>1. IsFiniteSet(D)
  BY FS_Interval
<1>2. ASSUME NEW k \in D
      PROVE  1..k \in SUBSET D /\ k \in 1..k /\ 1..(k - 1) = (1..k) \ {k}
  <2>1. 1..k \in SUBSET D /\ k \in 1..k
    OBVIOUS
  <2>2. 1..(k - 1) = (1..k) \ {k}
    OBVIOUS
  <2> QED
    BY <2>1, <2>2
<1>3. 1..0 = {}
  OBVIOUS
<1>4. SumFunction(f) = SumOn(f, D) /\ SumOn(f, {}) = 0
  BY <1>1, SumRemove
<1>5. ByOne(f, D)
  BY <1>1, <1>2, SumOneByOne
<1> QED
  BY <1>3, <1>4, <1>5

LEMMA SumOfTwo ==
  ASSUME NEW D, D = 1..2, NEW f \in [D -> Int] PROVE SumFunction(f) = f[1] + f[2]
<1>1. SumFunction(f) = SumOn(f, 1..2) /\ SumOn(f, 1..0) = 0
  BY SumUpTo
<1>2. ByOne(f, D)
  BY SumUpTo
<1>3. SumOn(f, 1..2) = f[2] + SumOn(f, 1..1) /\ SumOn(f, 1..1) = f[1] + SumOn(f, 1..0)
  BY <1>2 DEF ByOne
<1> QED
  BY <1>1, <1>3

LEMMA SumOfThree ==
  ASSUME NEW D, D = 1..3, NEW f \in [D -> Int] PROVE SumFunction(f) = f[1] + f[2] + f[3]
<1>1. SumFunction(f) = SumOn(f, 1..3) /\ SumOn(f, 1..0) = 0
  BY SumUpTo
<1>2. ByOne(f, D)
  BY SumUpTo
<1>3. SumOn(f, 1..3) = f[3] + SumOn(f, 1..2) /\ SumOn(f, 1..2) = f[2] + SumOn(f, 1..1)
      /\ SumOn(f, 1..1) = f[1] + SumOn(f, 1..0)
  BY <1>2 DEF ByOne
<1> QED
  BY <1>1, <1>3

LEMMA SumOfFive ==
  ASSUME NEW D, D = 1..5, NEW f \in [D -> Int]
  PROVE  SumFunction(f) = f[1] + f[2] + f[3] + f[4] + f[5]
<1>1. SumFunction(f) = SumOn(f, 1..5) /\ SumOn(f, 1..0) = 0
  BY SumUpTo
<1>2. ByOne(f, D)
  BY SumUpTo
<1>3. SumOn(f, 1..5) = f[5] + SumOn(f, 1..4) /\ SumOn(f, 1..4) = f[4] + SumOn(f, 1..3)
      /\ SumOn(f, 1..3) = f[3] + SumOn(f, 1..2) /\ SumOn(f, 1..2) = f[2] + SumOn(f, 1..1)
      /\ SumOn(f, 1..1) = f[1] + SumOn(f, 1..0)
  BY <1>2 DEF ByOne
<1> QED
  BY <1>1, <1>3

\* A sum of values by their weights is between the smallest and the largest value
\* times the sum of the weights.
LEMMA WeightedSumBetween ==
  ASSUME NEW D, IsFiniteSet(D), NEW v \in [D -> Nat], NEW w \in [D -> Nat],
         NEW lo \in Nat, NEW hi \in Nat, \A x \in D : lo <= v[x] /\ v[x] <= hi
  PROVE  /\ SumFunction([x \in D |-> v[x] * w[x]]) \in Nat
         /\ lo * SumFunction(w) <= SumFunction([x \in D |-> v[x] * w[x]])
         /\ SumFunction([x \in D |-> v[x] * w[x]]) <= hi * SumFunction(w)
<1> DEFINE f == [x \in D |-> v[x] * w[x]]
           Within(s) == lo * SumOn(w, s) <= SumOn(f, s) /\ SumOn(f, s) <= hi * SumOn(w, s)
           Bad == {s \in SUBSET D : ~Within(s)}
<1>1. f \in [D -> Nat] /\ f \in [D -> Int] /\ w \in [D -> Int]
  OBVIOUS
<1>2. ASSUME NEW x \in D PROVE lo * w[x] <= f[x] /\ f[x] <= hi * w[x]
  <2>1. /\ lo \in Nat /\ hi \in Nat /\ v[x] \in Nat /\ w[x] \in Nat
        /\ lo <= v[x] /\ v[x] <= hi
    OBVIOUS
  <2>2. w[x] * lo <= w[x] * v[x] /\ w[x] * v[x] <= w[x] * hi
    BY <2>1, TimesMonotone
  <2>3. f[x] = w[x] * v[x] /\ lo * w[x] = w[x] * lo /\ hi * w[x] = w[x] * hi
    BY <2>1
  <2> QED
    BY <2>2, <2>3
<1> HIDE DEF f
<1>3. ASSUME Bad # {} PROVE FALSE
  <2>1. PICK s \in Bad : \A x \in s : s \ {x} \notin Bad
    <3>1. Bad \in SUBSET SUBSET D
      OBVIOUS
    <3> QED
      BY <1>3, <3>1, Smallest
  <2>2. s # {}
    <3>1. SumOn(w, {}) = 0 /\ SumOn(f, {}) = 0
      BY <1>1, SumRemove
    <3> QED
      BY <2>1, <3>1
  <2>3. PICK x \in s : TRUE
    BY <2>2
  <2> DEFINE W == SumOn(w, s \ {x})
             F == SumOn(f, s \ {x})
  <2>4. SumOn(w, s) = w[x] + W /\ SumOn(f, s) = f[x] + F /\ W \in Int /\ F \in Int
    BY <1>1, <2>1, SumRemove
  <2>5. lo * W <= F /\ F <= hi * W
    BY <2>1
  <2>6. lo * w[x] <= f[x] /\ f[x] <= hi * w[x] /\ f[x] \in Int /\ w[x] \in Int
    BY <1>1, <1>2, <2>1
  <2> HIDE DEF W, F
  <2>7. lo * (w[x] + W) = lo * w[x] + lo * W /\ hi * (w[x] + W) = hi * w[x] + hi * W
    BY <2>4, <2>6, Distributes
  <2>8. lo * w[x] \in Int /\ lo * W \in Int /\ hi * w[x] \in Int /\ hi * W \in Int
    BY <2>4, <2>6, Distributes
  <2>9. Within(s)
    BY <2>4, <2>5, <2>6, <2>7, <2>8
  <2> QED
    BY <2>1, <2>9
<1>4. Within(D)
  BY <1>3
<1>5. SumFunction(f) = SumOn(f, D) /\ SumFunction(w) = SumOn(w, D)
  BY <1>1, SumRemove
<1>6. SumFunction(f) \in Nat /\ SumFunction(w) \in Nat
  BY <1>1, SumOfNaturals
<1>7. lo * SumFunction(w) <= SumFunction(f) /\ SumFunction(f) <= hi * SumFunction(w)
  BY <1>4, <1>5
<1> QED
  BY <1>6, <1>7 DEF f

\* The code behaviour: WeightedMeanBps, of which a score is made.  The mean of any
\* values under weights that make up 100 % is none below the smallest of them and
\* none above the largest.
THEOREM MeanBetween ==
  ASSUME NEW D, IsFiniteSet(D), NEW v \in [D -> Nat], NEW w \in [D -> Nat],
         SumFunction(w) = Whole,
         NEW lo \in Nat, NEW hi \in Nat, \A x \in D : lo <= v[x] /\ v[x] <= hi
  PROVE  WeightedMeanBps(v, w) \in lo..hi
<1> DEFINE sum == SumFunction([x \in D |-> v[x] * w[x]])
<1>1. sum \in Nat /\ lo * Whole <= sum /\ sum <= hi * Whole
  BY WeightedSumBetween
<1>2. WeightedMeanBps(v, w) = IF sum <= 0 THEN 0 ELSE HalfUp(sum, Whole)
  <2>1. DOMAIN v \cap DOMAIN w = D
    OBVIOUS
  <2> QED
    BY <2>1 DEF WeightedMeanBps
<1> HIDE DEF sum
<1>3. CASE sum = 0
  BY <1>1, <1>2, <1>3 DEF Whole
<1>4. CASE sum > 0
  <2>1. Whole \in Nat /\ Whole > 0
    BY DEF Whole
  <2>2. sum \in Nat
    BY <1>1
  <2>3. /\ HalfUp(sum, Whole) \in Nat
        /\ 2 * (Whole * HalfUp(sum, Whole)) <= 2 * sum + Whole
        /\ 2 * sum < 2 * (Whole * HalfUp(sum, Whole)) + Whole
    BY <2>2, <2>1, HalfUpNearest
  <2>4. HalfUp(sum, Whole) \in lo..hi
    <3>1. Whole = 10000
      BY DEF Whole
    <3> QED
      BY <1>1, <2>3, <3>1
  <2>5. WeightedMeanBps(v, w) = HalfUp(sum, Whole)
    BY <1>1, <1>2, <1>4
  <2> QED
    BY <2>4, <2>5
<1> QED
  BY <1>1, <1>3, <1>4

\* Largest is defined for every finite set of numbers.
LEMMA LargestExists ==
  ASSUME NEW S \in SUBSET Int, IsFiniteSet(S), S # {}
  PROVE  \E x \in S : \A y \in S : x >= y
<1> DEFINE Has(s) == \E x \in s : \A y \in s : x >= y
           Bad == {s \in SUBSET S : s # {} /\ ~Has(s)}
<1>1. ASSUME Bad # {} PROVE FALSE
  <2>1. PICK s \in Bad : \A x \in s : s \ {x} \notin Bad
    <3>1. Bad \in SUBSET SUBSET S
      OBVIOUS
    <3> HIDE DEF Bad
    <3> QED
      BY <1>1, <3>1, Smallest
  <2>2. PICK x \in s : TRUE
    BY <2>1
  <2>3. CASE s \ {x} = {}
    BY <2>1, <2>2, <2>3
  <2>4. CASE s \ {x} # {}
    <3>1. PICK m \in s \ {x} : \A y \in s \ {x} : m >= y
      BY <2>1, <2>2, <2>4
    <3>2. CASE m >= x
      BY <2>1, <2>2, <3>1, <3>2
    <3>3. CASE x >= m
      <4>1. \A y \in s : y \in Int /\ x >= y
        BY <2>1, <2>2, <3>1, <3>3
      <4> QED
        BY <2>1, <2>2, <4>1
    <3> QED
      BY <2>1, <2>2, <3>1, <3>2, <3>3
  <2> QED
    BY <2>3, <2>4
<1> QED
  BY <1>1

-----------------------------------------------------------------------------
(* The shares of two weights *)

LEMMA TimesNat == ASSUME NEW a \in Nat, NEW b \in Nat PROVE a * b \in Nat
BY TimesMonotone

\* AllocateBps in terms of its parts, for weights that are not negative.
ShareDown(w, i) == (w[i] * Whole) \div SumFunction(w)
LeftOf(w, i) == (w[i] * Whole) % SumFunction(w)
Leftover(w) == Whole - SumFunction([i \in DOMAIN w |-> ShareDown(w, i)])
AheadOf(w, i) == {j \in DOMAIN w : \/ LeftOf(w, j) > LeftOf(w, i)
                                   \/ LeftOf(w, j) = LeftOf(w, i) /\ j < i}

LEMMA AllocateIs ==
  ASSUME NEW D, NEW w \in [D -> Nat], SumFunction(w) # 0
  PROVE  AllocateBps(w) = [i \in D |-> ShareDown(w, i)
                             + (IF Cardinality(AheadOf(w, i)) < Leftover(w) THEN 1 ELSE 0)]
<1> DEFINE weight == [i \in D |-> IF w[i] > 0 THEN w[i] ELSE 0]
           total == SumFunction(weight)
           share == [i \in D |-> (weight[i] * Whole) \div total]
           remainder == [i \in D |-> (weight[i] * Whole) % total]
           leftover == Whole - SumFunction(share)
           Before(i) == {j \in D : \/ remainder[j] > remainder[i]
                                   \/ remainder[j] = remainder[i] /\ j < i}
<1>1. weight = w
  OBVIOUS
<1>2. DOMAIN w = D
  OBVIOUS
<1>3. AllocateBps(w) = [i \in D |-> IF total = 0 THEN 0
                          ELSE share[i] + (IF Cardinality(Before(i)) < leftover THEN 1 ELSE 0)]
  BY <1>2, ZenonT(60) DEF AllocateBps
<1> HIDE DEF weight
<1>4. total # 0
  BY <1>1
<1>5. share = [i \in D |-> ShareDown(w, i)]
  BY <1>1 DEF ShareDown
<1>6. leftover = Leftover(w)
  BY <1>2, <1>5 DEF Leftover
<1>7. ASSUME NEW i \in D PROVE Before(i) = AheadOf(w, i)
  <2>1. \A j \in D : remainder[j] = LeftOf(w, j)
    BY <1>1 DEF LeftOf
  <2> HIDE DEF remainder
  <2> QED
    BY <1>2, <1>7, <2>1 DEF AheadOf
<1> HIDE DEF total, share, leftover, Before
<1>8. ASSUME NEW i \in D
      PROVE  (IF total = 0 THEN 0
              ELSE share[i] + (IF Cardinality(Before(i)) < leftover THEN 1 ELSE 0))
               = ShareDown(w, i) + (IF Cardinality(AheadOf(w, i)) < Leftover(w) THEN 1 ELSE 0)
  BY <1>4, <1>5, <1>6, <1>7
<1> QED
  BY <1>3, <1>8

\* Whole shared out by the weights of two, no share more than one above its part
\* and none where there is no weight.
SharedOut(s, w, D) ==
  /\ s \in [D -> Nat] /\ s[1] + s[2] = Whole
  /\ \A i \in D : (w[1] + w[2]) * s[i] <= w[i] * Whole + (w[1] + w[2])
  /\ \A i \in D : w[i] = 0 => s[i] = 0

(* The code behaviour: AllocateBps, the largest-remainder method, for the two    *)
(* classes a contribution is split into.  The shares make up 100 % exactly, none  *)
(* is more than a basis point above its part, and no weight means no share.       *)
THEOREM AllocateTwo ==
  ASSUME NEW D, D = 1..2, NEW w \in [D -> Nat], w[1] + w[2] > 0
  PROVE  SharedOut(AllocateBps(w), w, D)
<1> DEFINE t == w[1] + w[2]
           a == w[1] * Whole
           b == w[2] * Whole
           p == a \div t
           q == b \div t
           l == Whole - (p + q)
           s == AllocateBps(w)
<1>1. Whole = 10000 /\ 1 \in D /\ 2 \in D /\ w[1] \in Nat /\ w[2] \in Nat
  BY DEF Whole
<1>2. SumFunction(w) = t /\ t \in Nat /\ t > 0
  BY <1>1, SumOfTwo
<1>3. a \in Nat /\ b \in Nat
  BY <1>1
<1>4. a + b = t * Whole
  BY <1>1
<1>5. /\ p \in Nat /\ t * p <= a /\ a < t * p + t /\ a % t = a - t * p
      /\ q \in Nat /\ t * q <= b /\ b < t * q + t /\ b % t = b - t * q
  <2> HIDE DEF a, b, t
  <2> QED
    BY <1>2, <1>3
<1>6. ShareDown(w, 1) = p /\ ShareDown(w, 2) = q /\ LeftOf(w, 1) = a % t /\ LeftOf(w, 2) = b % t
  BY <1>2 DEF ShareDown, LeftOf
<1> HIDE DEF p, q, a, b
<1>7. Leftover(w) = l
  <2> DEFINE f == [i \in D |-> ShareDown(w, i)]
  <2>1. f \in [D -> Int] /\ f[1] = p /\ f[2] = q
    BY <1>1, <1>5, <1>6
  <2> HIDE DEF f
  <2>2. SumFunction(f) = p + q
    BY <2>1, SumOfTwo
  <2>3. DOMAIN w = D
    OBVIOUS
  <2> QED
    BY <2>2, <2>3 DEF Leftover, f
<1> HIDE DEF t
<1>8. l \in 0..1 /\ (a % t) + (b % t) = t * l
  <2>1. t * (p + q) = t * p + t * q /\ t * p \in Int /\ t * q \in Int
    BY <1>2, <1>5, Distributes
  <2>2. t * l = t * Whole - t * (p + q) /\ t * l \in Int
    BY <1>1, <1>2, <1>5
  <2>3. 0 <= t * l /\ t * l < 2 * t
    BY <1>2, <1>3, <1>4, <1>5, <2>1, <2>2
  <2>4. l \in Int
    BY <1>1, <1>5
  <2> HIDE DEF l
  <2>5. l >= 0
    <3> SUFFICES ASSUME l <= -1 PROVE FALSE
      BY <2>4
    <3>1. t * (-l) \in Nat /\ t * 1 <= t * (-l) /\ t * (-l) = -(t * l)
      BY <1>2, <2>4
    <3> QED
      BY <1>2, <2>2, <2>3, <3>1
  <2>6. l < 2
    <3> SUFFICES ASSUME l >= 2 PROVE FALSE
      BY <2>4
    <3>1. t * 2 <= t * l
      BY <1>2, <2>4, TimesMonotone
    <3> QED
      BY <1>2, <2>2, <2>3, <3>1
  <2>7. (a % t) + (b % t) = t * l
    BY <1>3, <1>4, <1>5, <2>1, <2>2
  <2> QED
    BY <2>4, <2>5, <2>6, <2>7
<1>9. s = [i \in D |-> ShareDown(w, i)
             + (IF Cardinality(AheadOf(w, i)) < l THEN 1 ELSE 0)]
  BY <1>2, <1>7, AllocateIs
<1> HIDE DEF s, l
<1>10. /\ s[1] = p + (IF Cardinality(AheadOf(w, 1)) < l THEN 1 ELSE 0)
       /\ s[2] = q + (IF Cardinality(AheadOf(w, 2)) < l THEN 1 ELSE 0)
  BY <1>1, <1>6, <1>9
<1> DEFINE Good == /\ s \in [D -> Nat] /\ s[1] + s[2] = Whole
                   /\ \A i \in D : t * s[i] <= w[i] * Whole + t
                   /\ \A i \in D : w[i] = 0 => s[i] = 0
<1>11. ASSUME NEW k \in 0..1, NEW m \in 0..1, s[1] = p + k, s[2] = q + m, k + m = l,
              k = 1 => a % t > 0, m = 1 => b % t > 0
       PROVE  Good
  <2>1. p \in Nat /\ q \in Nat /\ s[1] \in Nat /\ s[2] \in Nat
    BY <1>5, <1>11
  <2>2. s \in [D -> Nat]
    <3>1. \A i \in D : s[i] \in Nat
      BY <2>1
    <3> QED
      BY <1>9, <3>1
  <2>3. s[1] + s[2] = Whole
    BY <1>1, <1>11, <2>1 DEF l
  <2>4. t * s[1] = t * p + t * k /\ t * s[2] = t * q + t * m
    BY <1>2, <1>11, <2>1, Distributes
  <2>5. t * k <= t /\ t * m <= t
    <3>1. k \in {0, 1} /\ m \in {0, 1}
      OBVIOUS
    <3> QED
      BY <1>2, <3>1
  <2>6. t * p \in Int /\ t * q \in Int /\ t * k \in Int /\ t * m \in Int
    BY <1>2, <2>1, Distributes
  <2>7. t * s[1] <= a + t /\ t * s[2] <= b + t
    BY <1>2, <1>3, <1>5, <2>4, <2>5, <2>6
  <2>8. ASSUME w[1] = 0 PROVE s[1] = 0
    <3>1. a = 0
      BY <1>1, <2>8 DEF a
    <3>2. t * p = 0 /\ a % t = 0
      BY <1>2, <1>3, <1>5, <2>1, <2>6, <3>1, TimesNat
    <3>3. p = 0
      <4> SUFFICES ASSUME p >= 1 PROVE FALSE
        BY <2>1
      <4>1. t * 1 <= t * p
        BY <1>2, <2>1, TimesMonotone
      <4> QED
        BY <1>2, <3>2, <4>1
    <3> QED
      BY <1>11, <3>2, <3>3
  <2>9. ASSUME w[2] = 0 PROVE s[2] = 0
    <3>1. b = 0
      BY <1>1, <2>9 DEF b
    <3>2. t * q = 0 /\ b % t = 0
      BY <1>2, <1>3, <1>5, <2>1, <2>6, <3>1, TimesNat
    <3>3. q = 0
      <4> SUFFICES ASSUME q >= 1 PROVE FALSE
        BY <2>1
      <4>1. t * 1 <= t * q
        BY <1>2, <2>1, TimesMonotone
      <4> QED
        BY <1>2, <3>2, <4>1
    <3> QED
      BY <1>11, <3>2, <3>3
  <2>10. \A i \in D : i = 1 \/ i = 2
    OBVIOUS
  <2>11. \A i \in D : t * s[i] <= w[i] * Whole + t
    BY <2>7, <2>10 DEF a, b
  <2> QED
    BY <2>2, <2>3, <2>8, <2>9, <2>10, <2>11
<1> HIDE DEF Good
<1>12. /\ AheadOf(w, 1) = {j \in D : \/ LeftOf(w, j) > LeftOf(w, 1)
                                     \/ LeftOf(w, j) = LeftOf(w, 1) /\ j < 1}
       /\ AheadOf(w, 2) = {j \in D : \/ LeftOf(w, j) > LeftOf(w, 2)
                                     \/ LeftOf(w, j) = LeftOf(w, 2) /\ j < 2}
  BY DEF AheadOf
<1>13. a % t \in Int /\ b % t \in Int /\ a % t >= 0 /\ b % t >= 0
  BY <1>2, <1>3, <1>5, TimesNat
<1>14. ASSUME l = 0 PROVE Good
  <2>1. Cardinality(AheadOf(w, 1)) \in Nat /\ Cardinality(AheadOf(w, 2)) \in Nat
    <3>1. IsFiniteSet({1} \cup {2})
      BY FS_Singleton, FS_AddElement, Zenon
    <3>2. AheadOf(w, 1) \subseteq {1} \cup {2} /\ AheadOf(w, 2) \subseteq {1} \cup {2}
      BY DEF AheadOf
    <3>3. IsFiniteSet(AheadOf(w, 1)) /\ IsFiniteSet(AheadOf(w, 2))
      BY <3>1, <3>2, FS_Subset, Zenon
    <3> QED
      BY <3>3, FS_CardinalityType
  <2>2. s[1] = p + 0 /\ s[2] = q + 0 /\ 0 + 0 = l
    BY <1>10, <1>14, <2>1
  <2> QED
    BY <1>11, <2>2
<1>15. ASSUME l = 1 PROVE Good
  <2>1. (a % t) + (b % t) = t
    BY <1>2, <1>8, <1>15
  <2>2. Cardinality({}) = 0 /\ Cardinality({1}) = 1 /\ Cardinality({2}) = 1
    BY FS_EmptySet, FS_Singleton
  <2>3. CASE a % t >= b % t
    <3>1. AheadOf(w, 1) = {}
      BY <1>6, <1>12, <1>13, <2>3
    <3>2. AheadOf(w, 2) = {1}
      BY <1>6, <1>12, <1>13, <2>3
    <3>3. s[1] = p + 1 /\ s[2] = q + 0
      BY <1>10, <1>15, <2>2, <3>1, <3>2
    <3>4. a % t > 0
      BY <1>2, <1>13, <2>1, <2>3
    <3>5. 0 \in 0..1 /\ 1 \in 0..1 /\ 1 + 0 = l /\ 0 # 1
      BY <1>15
    <3> QED
      BY <1>11, <3>3, <3>4, <3>5
  <2>4. CASE b % t > a % t
    <3>1. AheadOf(w, 1) = {2}
      BY <1>6, <1>12, <1>13, <2>4
    <3>2. AheadOf(w, 2) = {}
      BY <1>6, <1>12, <1>13, <2>4
    <3>3. s[1] = p + 0 /\ s[2] = q + 1
      BY <1>10, <1>15, <2>2, <3>1, <3>2
    <3>4. b % t > 0
      BY <1>2, <1>13, <2>1, <2>4
    <3>5. 0 \in 0..1 /\ 1 \in 0..1 /\ 0 + 1 = l /\ 0 # 1
      BY <1>15
    <3> QED
      BY <1>11, <3>3, <3>4, <3>5
  <2> QED
    BY <1>13, <2>3, <2>4
<1>16. Good
  <2>1. l = 0 \/ l = 1
    BY <1>8
  <2> QED
    BY <1>14, <1>15, <2>1
<1> QED
  BY <1>16 DEF Good, SharedOut, s, t

-----------------------------------------------------------------------------
(***************************************************************************)
(* Decimals.  DecimalToMinor reads a text from left to right; Denoted goes *)
(* by the places of its digits.  Between the two is ReadOff, which tallies *)
(* a text character by character: what it counts is what the places say    *)
(* (ReadsIs, NumberIs), and what the code computes (ValueIs, MinorIs).     *)
(***************************************************************************)

\* What is used of the digits.
LEMMA DigitsAre ==
  /\ \A c \in ToSet(Digits) : DigitValue(c) \in 0..9
  /\ "0" \in ToSet(Digits) /\ DigitValue("0") = 0
<1>1. /\ DOMAIN Digits = 1..10
      /\ Digits[1] = "0" /\ Digits[2] = "1" /\ Digits[3] = "2" /\ Digits[4] = "3"
      /\ Digits[5] = "4" /\ Digits[6] = "5" /\ Digits[7] = "6" /\ Digits[8] = "7"
      /\ Digits[9] = "8" /\ Digits[10] = "9"
  BY DEF Digits
<1>2. \A n \in DOMAIN Digits : n = 1 \/ n = 2 \/ n = 3 \/ n = 4 \/ n = 5 \/ n = 6
                                     \/ n = 7 \/ n = 8 \/ n = 9 \/ n = 10
  BY <1>1
<1>3. ASSUME NEW c \in ToSet(Digits) PROVE DigitValue(c) \in 0..9
  <2>1. PICK n \in DOMAIN Digits : Digits[n] = c
    BY DEF ToSet
  <2> QED
    BY <1>1, <2>1 DEF DigitValue
<1>4. ASSUME NEW n \in DOMAIN Digits, Digits[n] = "0" PROVE n = 1
  BY <1>1, <1>2, <1>4
<1>5. "0" \in ToSet(Digits) /\ DigitValue("0") = 0
  BY <1>1, <1>4 DEF ToSet, DigitValue
<1> QED
  BY <1>3, <1>5

\* Marks and signs are no digits, and differ.
LEMMA MarksAre ==
  /\ Dot \notin ToSet(Digits) /\ Comma \notin ToSet(Digits)
  /\ Signs \cap ToSet(Digits) = {} /\ Dot \notin Signs /\ Comma \notin Signs
  /\ Dot # Comma /\ Minus \in Signs
<1>1. /\ DOMAIN Digits = 1..10
      /\ Digits[1] = "0" /\ Digits[2] = "1" /\ Digits[3] = "2" /\ Digits[4] = "3"
      /\ Digits[5] = "4" /\ Digits[6] = "5" /\ Digits[7] = "6" /\ Digits[8] = "7"
      /\ Digits[9] = "8" /\ Digits[10] = "9"
  BY DEF Digits
<1>2. \A n \in DOMAIN Digits : n = 1 \/ n = 2 \/ n = 3 \/ n = 4 \/ n = 5 \/ n = 6
                                     \/ n = 7 \/ n = 8 \/ n = 9 \/ n = 10
  BY <1>1
<1>3. ASSUME NEW c \in ToSet(Digits) PROVE c # Dot /\ c # Comma /\ c \notin Signs
  <2>1. PICK n \in DOMAIN Digits : Digits[n] = c
    BY DEF ToSet
  <2> HIDE DEF Digits
  <2>2. c \in {"0", "1", "2", "3", "4", "5", "6", "7", "8", "9"}
    BY <1>1, <1>2, <2>1
  <2> QED
    BY <2>2, Zenon DEF Dot, Comma, Minus, Signs
<1>4. Dot \notin Signs /\ Comma \notin Signs /\ Dot # Comma /\ Minus \in Signs
  BY Zenon DEF Dot, Comma, Minus, Signs
<1> QED
  BY <1>3, <1>4, Zenon

\* What holds of 0, and of a number's successor with it, holds of all up to m.
LEMMA UpTo ==
  ASSUME NEW m \in Nat, NEW T, 0 \in T,
         \A i \in 0..m : i \in T /\ i + 1 \in 0..m => i + 1 \in T
  PROVE  \A i \in 0..m : i \in T
<1> DEFINE Bad == {i \in 0..m : i \notin T}
<1>1. ASSUME Bad # {} PROVE FALSE
  <2>1. PICK k \in Bad : \A j \in Bad : k <= j
    <3>1. Bad \in SUBSET Nat
      OBVIOUS
    <3> HIDE DEF Bad
    <3> QED
      BY <1>1, <3>1, LeastNumber
  <2>2. k \in 0..m /\ k # 0 /\ k \notin T
    BY <2>1
  <2>3. k - 1 \in 0..m /\ (k - 1) + 1 = k /\ ~(k <= k - 1)
    BY <2>2
  <2>4. k - 1 \in T
    BY <2>1, <2>3
  <2> QED
    BY <2>2, <2>3, <2>4
<1> QED
  BY <1>1

\* A recursion over the first numbers has a solution: up to any number it has.
Solves(r, m, base, step) ==
  r = [n \in 0..m |-> IF n = 0 THEN base ELSE step[<<r[n - 1], n>>]]

\* It solves what CHOOSE takes of it, with values where they belong.
LEMMA Recursion ==
  ASSUME NEW S, NEW base \in S, NEW m \in Nat, NEW step \in [S \X (1..m) -> S]
  PROVE  \E r \in [0..m -> S] : Solves(r, m, base, step)
<1> DEFINE Good(k) == \E r \in [0..k -> S] : Solves(r, k, base, step)
           T == {k \in 0..m : Good(k)}
<1>1. Good(0)
  <2> DEFINE r == [n \in 0..0 |-> base]
  <2>1. r \in [0..0 -> S] /\ Solves(r, 0, base, step)
    BY DEF Solves
  <2> QED
    BY <2>1
<1>2. ASSUME NEW k \in 0..m, k + 1 \in 0..m, Good(k) PROVE Good(k + 1)
  <2>1. PICK r \in [0..k -> S] : Solves(r, k, base, step)
    BY <1>2
  <2>2. \A n \in 0..k : r[n] = IF n = 0 THEN base ELSE step[<<r[n - 1], n>>]
    BY <2>1 DEF Solves
  <2> DEFINE more == [n \in 0..k + 1 |-> IF n \in 0..k THEN r[n] ELSE step[<<r[k], k + 1>>]]
  <2>3. k \in Nat /\ k \in 0..k /\ k + 1 \notin 0..k /\ k + 1 \in 1..m
    BY <1>2
  <2>4. step[<<r[k], k + 1>>] \in S
    <3>1. <<r[k], k + 1>> \in S \X (1..m)
      BY <2>3
    <3> QED
      BY <3>1
  <2>5. more \in [0..k + 1 -> S]
    BY <2>4
  <2>6. \A n \in 0..k : more[n] = r[n]
    <3>1. 0..k \subseteq 0..k + 1
      BY <2>3
    <3> QED
      BY <3>1
  <2>10. more[k + 1] = step[<<r[k], k + 1>>]
    <3>1. k + 1 \in 0..k + 1
      BY <2>3
    <3> QED
      BY <2>3, <3>1
  <2> HIDE DEF more
  <2>7. ASSUME NEW n \in 0..k + 1
        PROVE  more[n] = IF n = 0 THEN base ELSE step[<<more[n - 1], n>>]
    <3>1. CASE n \in 0..k
      <4>1. n # 0 => n - 1 \in 0..k
        BY <2>3, <3>1
      <4> QED
        BY <2>2, <2>6, <3>1, <4>1
    <3>2. CASE n = k + 1
      <4>1. n - 1 = k /\ n # 0
        BY <2>3, <3>2
      <4> QED
        BY <2>3, <2>6, <2>10, <3>2, <4>1
    <3>3. n \in 0..k \/ n = k + 1
      BY <2>3
    <3> QED
      BY <3>1, <3>2, <3>3
  <2>8. more = [n \in 0..k + 1 |-> more[n]]
    BY <2>5
  <2>9. Solves(more, k + 1, base, step)
    BY <2>7, <2>8 DEF Solves
  <2> QED
    BY <2>5, <2>9
<1> HIDE DEF Good
<1>3. \A k \in 0..m : k \in T
  <2>1. 0 \in T /\ \A k \in 0..m : k \in T /\ k + 1 \in 0..m => k + 1 \in T
    BY <1>1, <1>2
  <2> HIDE DEF T
  <2> QED
    BY <2>1, UpTo
<1>4. Good(m)
  BY <1>3
<1> QED
  BY <1>4 DEF Good

\* Two sequences of values agree that begin alike and go on alike.
Alike(m, f, g) ==
  /\ f[0] = g[0]
  /\ \A i \in 0..m : i + 1 \in 0..m /\ f[i] = g[i] => f[i + 1] = g[i + 1]

LEMMA Agree ==
  ASSUME NEW m \in Nat, NEW f, NEW g, Alike(m, f, g)
  PROVE  \A i \in 0..m : f[i] = g[i]
<1> DEFINE T == {i \in 0..m : f[i] = g[i]}
<1>1. 0 \in T /\ \A i \in 0..m : i \in T /\ i + 1 \in 0..m => i + 1 \in T
  BY DEF Alike
<1> HIDE DEF T
<1>2. \A i \in 0..m : i \in T
  BY <1>1, UpTo
<1> QED
  BY <1>2 DEF T

\* The solution of a recursion, by its steps.
Stepwise(r, m, base, step) ==
  /\ r[0] = base
  /\ \A i \in 1..m : r[i] = step[<<r[i - 1], i>>]
  /\ \A i \in 0..m : i + 1 \in 0..m => r[i + 1] = step[<<r[i], i + 1>>]

LEMMA Steps ==
  ASSUME NEW m \in Nat, NEW base, NEW step, NEW r, Solves(r, m, base, step)
  PROVE  Stepwise(r, m, base, step)
<1>1. \A n \in 0..m : r[n] = IF n = 0 THEN base ELSE step[<<r[n - 1], n>>]
  BY DEF Solves
<1>2. r[0] = base
  <2>1. 0 \in 0..m
    OBVIOUS
  <2> QED
    BY <1>1, <2>1
<1>3. ASSUME NEW i \in 1..m PROVE r[i] = step[<<r[i - 1], i>>]
  <2>1. i \in 0..m /\ i # 0
    OBVIOUS
  <2> QED
    BY <1>1, <2>1
<1>4. ASSUME NEW i \in 0..m, i + 1 \in 0..m PROVE r[i + 1] = step[<<r[i], i + 1>>]
  <2>1. i + 1 # 0 /\ (i + 1) - 1 = i
    OBVIOUS
  <2> QED
    BY <1>1, <1>4, <2>1
<1> QED
  BY <1>2, <1>3, <1>4 DEF Stepwise

\* Powers of ten.
PowersBy(n, p) == [i \in 0..n |-> IF i = 0 THEN 1 ELSE 10 * p[i - 1]]
Powers(n) == CHOOSE p : p = PowersBy(n, p)

\* Ten is a power of ten.
LEMMA PowersAre ==
  ASSUME NEW n \in Nat
  PROVE  /\ Powers(n) \in [0..n -> Nat \ {0}] /\ Powers(n)[0] = 1
         /\ \A i \in 0..n : i + 1 \in 0..n => Powers(n)[i + 1] = 10 * Powers(n)[i]
         /\ Ten(n) = Powers(n)[n]
<1> DEFINE S == Nat \ {0}
           step == [x \in S \X (1..n) |-> 10 * x[1]]
<1>1. step \in [S \X (1..n) -> S] /\ 1 \in S
  OBVIOUS
<1>2. PICK r \in [0..n -> S] : Solves(r, n, 1, step)
  <2> HIDE DEF step, S
  <2> QED
    BY <1>1, Recursion
<1>3. ASSUME NEW i \in 1..n PROVE step[<<r[i - 1], i>>] = 10 * r[i - 1]
  <2>1. <<r[i - 1], i>> \in S \X (1..n)
    OBVIOUS
  <2> QED
    BY <2>1
<1>4. r = PowersBy(n, r)
  <2>1. \A i \in 0..n : r[i] = IF i = 0 THEN 1 ELSE 10 * r[i - 1]
    <3> HIDE DEF step, S
    <3>1. r[0] = 1 /\ \A i \in 1..n : r[i] = step[<<r[i - 1], i>>]
      BY <1>2, Steps DEF Stepwise
    <3>2. \A i \in 1..n : r[i] = 10 * r[i - 1]
      BY <1>3, <3>1
    <3> QED
      BY <3>1, <3>2
  <2>2. r = [i \in 0..n |-> r[i]]
    OBVIOUS
  <2> QED
    BY <2>1, <2>2 DEF PowersBy
<1>5. Powers(n) = PowersBy(n, Powers(n))
  BY <1>4 DEF Powers
<1> DEFINE p == Powers(n)
<1>6. \A i \in 0..n : p[i] = IF i = 0 THEN 1 ELSE 10 * p[i - 1]
  <2> HIDE DEF p
  <2> QED
    BY <1>5 DEF PowersBy, p
<1>7. \A i \in 0..n : r[i] = IF i = 0 THEN 1 ELSE 10 * r[i - 1]
  BY <1>4 DEF PowersBy
<1> HIDE DEF p
<1>8. \A i \in 0..n : p[i] = r[i]
  <2>1. p[0] = r[0]
    BY <1>6, <1>7
  <2>2. \A i \in 0..n : i + 1 \in 0..n /\ p[i] = r[i] => p[i + 1] = r[i + 1]
    BY <1>6, <1>7
  <2>3. Alike(n, p, r)
    BY <2>1, <2>2 DEF Alike
  <2> QED
    BY <2>3, Agree
<1>9. p = [i \in 0..n |-> p[i]]
  BY <1>5 DEF PowersBy, p
<1>10. p \in [0..n -> S]
  BY <1>8, <1>9
<1>11. Ten(n) = p[n]
  BY Zenon DEF Ten, Powers, PowersBy, p
<1>12. \A i \in 0..n : i + 1 \in 0..n => p[i + 1] = 10 * p[i]
  BY <1>6
<1>13. p[0] = 1
  BY <1>6
<1> QED
  BY <1>10, <1>11, <1>12, <1>13 DEF p

LEMMA TenIs ==
  /\ Ten(0) = 1
  /\ \A n \in Nat : Ten(n) \in Nat \ {0} /\ Ten(n + 1) = 10 * Ten(n)
<1>1. Ten(0) = 1
  BY PowersAre
<1>2. ASSUME NEW n \in Nat PROVE Ten(n) \in Nat \ {0} /\ Ten(n + 1) = 10 * Ten(n)
  <2>1. n + 1 \in Nat /\ n \in 0..n /\ n \in 0..n + 1 /\ n + 1 \in 0..n + 1
    OBVIOUS
  <2> DEFINE p == Powers(n)
             q == Powers(n + 1)
  <2>2. /\ p \in [0..n -> Nat \ {0}] /\ p[0] = 1 /\ Ten(n) = p[n]
        /\ \A i \in 0..n : i + 1 \in 0..n => p[i + 1] = 10 * p[i]
    BY PowersAre
  <2>3. /\ q[0] = 1 /\ Ten(n + 1) = q[n + 1]
        /\ \A i \in 0..n + 1 : i + 1 \in 0..n + 1 => q[i + 1] = 10 * q[i]
    BY <2>1, PowersAre
  <2> HIDE DEF p, q
  <2>4. \A i \in 0..n : p[i] = q[i]
    <3>1. \A i \in 0..n : i \in 0..n + 1
      OBVIOUS
    <3>2. \A i \in 0..n : i + 1 \in 0..n /\ p[i] = q[i] => p[i + 1] = q[i + 1]
      BY <2>2, <2>3, <3>1
    <3>3. Alike(n, p, q)
      BY <2>2, <2>3, <3>2 DEF Alike
    <3> QED
      BY <3>3, Agree
  <2>5. q[n + 1] = 10 * q[n] /\ q[n] = p[n]
    BY <2>1, <2>3, <2>4
  <2> QED
    BY <2>1, <2>2, <2>3, <2>5
<1> QED
  BY <1>1, <1>2

LEMMA TenTimes ==
  ASSUME NEW a \in Nat, NEW b \in Nat
  PROVE  10 * (a * b) = a * (10 * b) /\ a * b \in Nat
OBVIOUS

\* The product of powers of ten.
LEMMA TenSum ==
  ASSUME NEW a \in Nat, NEW b \in Nat
  PROVE  Ten(a + b) = Ten(a) * Ten(b)
<1> DEFINE T == {i \in 0..b : Ten(a + i) = Ten(a) * Ten(i)}
<1>1. Ten(a) \in Nat
  BY TenIs
<1>2. 0 \in T
  BY <1>1, TenIs
<1>3. ASSUME NEW i \in 0..b, Ten(a + i) = Ten(a) * Ten(i)
      PROVE  Ten(a + (i + 1)) = Ten(a) * Ten(i + 1)
  <2>1. i \in Nat /\ a + i \in Nat /\ a + (i + 1) = (a + i) + 1
    OBVIOUS
  <2>2. Ten(i) \in Nat /\ Ten(i + 1) = 10 * Ten(i) /\ Ten((a + i) + 1) = 10 * Ten(a + i)
    BY <2>1, TenIs
  <2>3. 10 * (Ten(a) * Ten(i)) = Ten(a) * (10 * Ten(i))
    BY <1>1, <2>2, TenTimes
  <2> QED
    BY <1>3, <2>1, <2>2, <2>3
<1>4. \A i \in 0..b : i \in T /\ i + 1 \in 0..b => i + 1 \in T
  BY <1>3
<1> HIDE DEF T
<1>5. \A i \in 0..b : i \in T
  BY <1>2, <1>4, UpTo
<1> QED
  BY <1>5 DEF T

\* ParseInt of a text of digits, digit by digit.
ReadBy(s, r) == [i \in 0..Len(s) |-> IF i = 0 THEN 0 ELSE 10 * r[i - 1] + DigitValue(s[i])]
ReadTo(s) == CHOOSE r : r = ReadBy(s, r)

\* ParseInt reads a text digit by digit.
LEMMA ParseIntIs ==
  ASSUME NEW S, NEW s \in Seq(S), IsDigits(s)
  PROVE  /\ ReadTo(s) \in [0..Len(s) -> Nat] /\ ReadTo(s)[0] = 0
         /\ \A i \in 0..Len(s) : i + 1 \in 0..Len(s) =>
               ReadTo(s)[i + 1] = 10 * ReadTo(s)[i] + DigitValue(s[i + 1])
         /\ ParseInt(s) = ReadTo(s)[Len(s)]
<1> DEFINE n == Len(s)
           v == [i \in 1..n |-> DigitValue(s[i])]
           step == [x \in Nat \X (1..n) |-> 10 * x[1] + v[x[2]]]
<1>0. n \in Nat /\ DOMAIN s = 1..n
  OBVIOUS
<1>1. v \in [1..n -> Nat]
  <2>1. ASSUME NEW i \in 1..n PROVE DigitValue(s[i]) \in Nat
    <3>1. s[i] \in ToSet(s)
      BY <1>0 DEF ToSet
    <3>2. s[i] \in ToSet(Digits)
      BY <3>1, Zenon DEF IsDigits
    <3> QED
      BY <3>2, DigitsAre
  <2> QED
    BY <2>1
<1> HIDE DEF n
<1>2. step \in [Nat \X (1..n) -> Nat] /\ 0 \in Nat
  <2> HIDE DEF v
  <2> QED
    BY <1>1
<1>3. PICK r \in [0..n -> Nat] : Solves(r, n, 0, step)
  <2> HIDE DEF step
  <2> QED
    BY <1>0, <1>2, Recursion
<1>4. ASSUME NEW i \in 1..n PROVE step[<<r[i - 1], i>>] = 10 * r[i - 1] + DigitValue(s[i])
  <2>1. <<r[i - 1], i>> \in Nat \X (1..n)
    BY <1>0
  <2> QED
    BY <2>1
<1>5. r = ReadBy(s, r)
  <2> HIDE DEF step
  <2>1. r[0] = 0 /\ \A i \in 1..n : r[i] = step[<<r[i - 1], i>>]
    BY <1>0, <1>3, Steps DEF Stepwise
  <2>2. \A i \in 1..n : r[i] = 10 * r[i - 1] + DigitValue(s[i])
    BY <1>4, <2>1
  <2>3. \A i \in 0..n : r[i] = IF i = 0 THEN 0 ELSE 10 * r[i - 1] + DigitValue(s[i])
    BY <1>0, <2>1, <2>2
  <2>4. r = [i \in 0..n |-> r[i]]
    OBVIOUS
  <2> QED
    BY <2>3, <2>4 DEF ReadBy, n
<1>6. ReadTo(s) = ReadBy(s, ReadTo(s))
  BY <1>5 DEF ReadTo
<1> DEFINE p == ReadTo(s)
<1>7. \A i \in 0..n : p[i] = IF i = 0 THEN 0 ELSE 10 * p[i - 1] + DigitValue(s[i])
  <2> HIDE DEF p
  <2> QED
    BY <1>6 DEF ReadBy, p, n
<1>8. p = [i \in 0..n |-> p[i]]
  <2> HIDE DEF p
  <2> QED
    BY <1>6 DEF ReadBy, p, n
<1>9. \A i \in 0..n : r[i] = IF i = 0 THEN 0 ELSE 10 * r[i - 1] + DigitValue(s[i])
  BY <1>5 DEF ReadBy, n
<1> HIDE DEF p
<1>10. \A i \in 0..n : p[i] = r[i]
  <2>1. p[0] = r[0]
    BY <1>0, <1>7, <1>9
  <2>2. \A i \in 0..n : i + 1 \in 0..n /\ p[i] = r[i] => p[i + 1] = r[i + 1]
    BY <1>0, <1>7, <1>9
  <2>3. Alike(n, p, r)
    BY <2>1, <2>2 DEF Alike
  <2> QED
    BY <1>0, <2>3, Agree
<1>11. p \in [0..n -> Nat]
  BY <1>8, <1>10
<1>12. ParseInt(s) = p[n]
  BY Zenon DEF ParseInt, ReadTo, ReadBy, p, n
<1>13. \A i \in 0..n : i + 1 \in 0..n => p[i + 1] = 10 * p[i] + DigitValue(s[i + 1])
  BY <1>0, <1>7
<1>14. p[0] = 0
  BY <1>0, <1>7
<1> QED
  BY <1>11, <1>12, <1>13, <1>14 DEF p, n

\* A text read from left to right, mark being the decimal mark and free what may
\* stand anywhere: the number its digits make, how many there are and how many
\* since the mark, the marks and the odd characters.
Tally == [num : Nat, digits : Nat, places : Nat, marks : Nat, odds : Nat]
NoTally == [num |-> 0, digits |-> 0, places |-> 0, marks |-> 0, odds |-> 0]

Tallied(t, c, mark, free) ==
  IF c \in ToSet(Digits)
  THEN [num |-> 10 * t.num + DigitValue(c), digits |-> t.digits + 1,
        places |-> IF t.marks > 0 THEN t.places + 1 ELSE 0,
        marks |-> t.marks, odds |-> t.odds]
  ELSE IF c = mark
  THEN [num |-> t.num, digits |-> t.digits, places |-> 0,
        marks |-> t.marks + 1, odds |-> t.odds]
  ELSE IF c \in free THEN t
  ELSE [num |-> t.num, digits |-> t.digits, places |-> t.places,
        marks |-> t.marks, odds |-> t.odds + 1]

LEMMA TalliedType ==
  ASSUME NEW t \in Tally, NEW c, NEW mark, NEW free
  PROVE  Tallied(t, c, mark, free) \in Tally
<1>1. CASE c \in ToSet(Digits)
  <2>1. DigitValue(c) \in Nat
    BY <1>1, DigitsAre
  <2> DEFINE v == DigitValue(c)
  <2> HIDE DEF v
  <2>2. v \in Nat
    BY <2>1 DEF v
  <2> QED
    BY <1>1, <2>2 DEF Tallied, Tally, v
<1>2. CASE c \notin ToSet(Digits)
  <2>1. CASE c = mark
    BY <1>2, <2>1 DEF Tallied, Tally
  <2>2. CASE c # mark /\ c \in free
    BY <1>2, <2>2 DEF Tallied
  <2>3. CASE c # mark /\ c \notin free
    BY <1>2, <2>3 DEF Tallied, Tally
  <2> QED
    BY <2>1, <2>2, <2>3
<1> QED
  BY <1>1, <1>2

Tallying(s, mark, free) ==
  [x \in Tally \X (1..Len(s)) |-> Tallied(x[1], s[x[2]], mark, free)]
Scan(s, mark, free) ==
  CHOOSE r \in [0..Len(s) -> Tally] : Solves(r, Len(s), NoTally, Tallying(s, mark, free))

\* r reads the first characters of s, up to the m-th.
Scans(r, m, s, mark, free) ==
  /\ r[0] = NoTally /\ \A i \in 0..m : r[i] \in Tally
  /\ \A i \in 0..m : i + 1 \in 0..m => r[i + 1] = Tallied(r[i], s[i + 1], mark, free)

LEMMA ScanIs ==
  ASSUME NEW S, NEW s \in Seq(S), NEW mark, NEW free
  PROVE  Scans(Scan(s, mark, free), Len(s), s, mark, free)
<1> DEFINE n == Len(s)
           step == Tallying(s, mark, free)
           r == Scan(s, mark, free)
<1>0. n \in Nat
  OBVIOUS
<1>1. NoTally \in Tally
  BY DEF Tally, NoTally
<1>2. step \in [Tally \X (1..n) -> Tally]
  <2>1. ASSUME NEW x \in Tally \X (1..n)
        PROVE  Tallied(x[1], s[x[2]], mark, free) \in Tally
    <3>1. x[1] \in Tally
      OBVIOUS
    <3> QED
      BY <3>1, TalliedType
  <2> QED
    BY <2>1 DEF Tallying
<1>3. r \in [0..n -> Tally] /\ Solves(r, n, NoTally, step)
  <2>1. \E x \in [0..n -> Tally] : Solves(x, n, NoTally, step)
    <3> HIDE DEF step, n
    <3> QED
      BY <1>0, <1>1, <1>2, Recursion
  <2> QED
    BY <2>1 DEF Scan
<1>4. ASSUME NEW i \in 0..n, i + 1 \in 0..n
      PROVE  step[<<r[i], i + 1>>] = Tallied(r[i], s[i + 1], mark, free)
  <2>1. <<r[i], i + 1>> \in Tally \X (1..n)
    BY <1>0, <1>3, <1>4
  <2> HIDE DEF r
  <2> QED
    BY <2>1 DEF Tallying
<1> HIDE DEF step, r, n
<1>5. r[0] = NoTally /\ \A i \in 0..n : i + 1 \in 0..n => r[i + 1] = step[<<r[i], i + 1>>]
  BY <1>0, <1>3, Steps DEF Stepwise
<1>6. Scans(r, n, s, mark, free)
  BY <1>3, <1>4, <1>5 DEF Scans
<1> QED
  BY <1>6 DEF r, n

ReadOff(s, mark, free) == Scan(s, mark, free)[Len(s)]

\* What two texts begin with is read alike.
LEMMA ReadAlike ==
  ASSUME NEW m \in Nat, NEW s, NEW t, NEW mark, NEW free, NEW f, NEW g,
         Scans(f, m, s, mark, free), Scans(g, m, t, mark, free),
         \A i \in 0..m : i + 1 \in 0..m => s[i + 1] = t[i + 1]
  PROVE  \A i \in 0..m : f[i] = g[i]
<1>1. Alike(m, f, g)
  BY DEF Scans, Alike
<1> QED
  BY <1>1, Agree

\* A character more is tallied on top of what the text is read as.
LEMMA ReadAppend ==
  ASSUME NEW S, NEW s \in Seq(S), NEW c \in S, NEW mark, NEW free
  PROVE  /\ ReadOff(s, mark, free) \in Tally
         /\ ReadOff(Append(s, c), mark, free) = Tallied(ReadOff(s, mark, free), c, mark, free)
<1> DEFINE n == Len(s)
           t == Append(s, c)
           f == Scan(s, mark, free)
           g == Scan(t, mark, free)
<1>1. n \in Nat /\ t \in Seq(S) /\ Len(t) = n + 1 /\ t[n + 1] = c
  OBVIOUS
<1>2. \A i \in 1..n : t[i] = s[i]
  OBVIOUS
<1>3. Scans(f, n, s, mark, free)
  BY ScanIs
<1>4. Scans(g, n + 1, t, mark, free)
  BY <1>1, ScanIs
<1> HIDE DEF f, g, t, n
<1>5. Scans(g, n, t, mark, free)
  <2>1. \A i \in 0..n : i \in 0..n + 1
    BY <1>1
  <2> QED
    BY <1>1, <1>4, <2>1 DEF Scans
<1>6. \A i \in 0..n : i + 1 \in 0..n => s[i + 1] = t[i + 1]
  BY <1>1, <1>2
<1>7. f[n] = g[n]
  BY <1>1, <1>3, <1>5, <1>6, ReadAlike
<1>8. n \in 0..n + 1 /\ n + 1 \in 0..n + 1 /\ n \in 0..n
  BY <1>1
<1>9. g[n + 1] = Tallied(g[n], c, mark, free) /\ f[n] \in Tally
  BY <1>1, <1>3, <1>4, <1>8 DEF Scans
<1> QED
  BY <1>1, <1>7, <1>9 DEF ReadOff, f, g, t, n

LEMMA ReadNothing ==
  ASSUME NEW mark, NEW free
  PROVE  ReadOff(<< >>, mark, free) = NoTally
<1>1. << >> \in Seq({}) /\ Len(<< >>) = 0
  OBVIOUS
<1>2. Scans(Scan(<< >>, mark, free), 0, << >>, mark, free)
  BY <1>1, ScanIs
<1> QED
  BY <1>1, <1>2 DEF Scans, ReadOff

\* Normalized, character by character.
TextBy(s, r) ==
  [i \in 0..Len(s) |->
     IF i = 0 THEN << >>
     ELSE IF s[i] = Dot THEN r[i - 1]
     ELSE Append(r[i - 1], IF s[i] = Comma THEN Dot ELSE s[i])]
TextTo(s) == CHOOSE r : r = TextBy(s, r)
TextNext(text, c) ==
  IF c = Dot THEN text ELSE Append(text, IF c = Comma THEN Dot ELSE c)

\* Normalized writes a text with a comma anew, character by character.
LEMMA NormalizedIs ==
  ASSUME NEW S, Dot \in S, NEW s \in Seq(S), Comma \in ToSet(s)
  PROVE  /\ TextTo(s) \in [0..Len(s) -> Seq(S)] /\ TextTo(s)[0] = << >>
         /\ \A i \in 0..Len(s) : i + 1 \in 0..Len(s) =>
               TextTo(s)[i + 1] = TextNext(TextTo(s)[i], s[i + 1])
         /\ Normalized(s) = TextTo(s)[Len(s)]
<1> DEFINE n == Len(s)
           step == [x \in Seq(S) \X (1..n) |-> TextNext(x[1], s[x[2]])]
           nothing == << >>
<1>0. n \in Nat /\ nothing \in Seq(S) /\ \A i \in 1..n : s[i] \in S
  OBVIOUS
<1> HIDE DEF n, nothing
<1>2. step \in [Seq(S) \X (1..n) -> Seq(S)]
  <2>1. ASSUME NEW x \in Seq(S) \X (1..n) PROVE TextNext(x[1], s[x[2]]) \in Seq(S)
    <3>1. x[1] \in Seq(S) /\ s[x[2]] \in S
      BY <1>0
    <3> QED
      BY <3>1 DEF TextNext
  <2> QED
    BY <2>1
<1>3. PICK r \in [0..n -> Seq(S)] : Solves(r, n, nothing, step)
  <2> HIDE DEF step
  <2> QED
    BY <1>0, <1>2, Recursion
<1>4. ASSUME NEW i \in 1..n PROVE step[<<r[i - 1], i>>] = TextNext(r[i - 1], s[i])
  <2>1. <<r[i - 1], i>> \in Seq(S) \X (1..n)
    BY <1>0
  <2> QED
    BY <2>1
<1>5. r = TextBy(s, r)
  <2> HIDE DEF step
  <2>0. n \in Nat /\ Solves(r, n, nothing, step)
    BY <1>0, <1>3, Zenon
  <2>1. r[0] = nothing /\ \A i \in 1..n : r[i] = step[<<r[i - 1], i>>]
    <3>1. Stepwise(r, n, nothing, step)
      BY <2>0, Steps, Zenon
    <3> QED
      BY <3>1, Zenon DEF Stepwise
  <2>2. \A i \in 1..n : r[i] = TextNext(r[i - 1], s[i])
    BY <1>4, <2>1
  <2>3. \A i \in 0..n : r[i] = IF i = 0 THEN nothing ELSE TextNext(r[i - 1], s[i])
    BY <1>0, <2>1, <2>2
  <2>4. r = [i \in 0..n |-> r[i]]
    OBVIOUS
  <2>5. r = [i \in 0..n |-> IF i = 0 THEN nothing ELSE TextNext(r[i - 1], s[i])]
    BY <2>3, <2>4
  <2> QED
    BY <2>5 DEF TextBy, TextNext, n, nothing
<1>6. TextTo(s) = TextBy(s, TextTo(s))
  BY <1>5 DEF TextTo
<1> DEFINE p == TextTo(s)
<1>7. p = [i \in 0..n |-> IF i = 0 THEN << >> ELSE TextNext(p[i - 1], s[i])]
  <2> HIDE DEF p
  <2> QED
    BY <1>6 DEF TextBy, TextNext, p, n
<1>8. \A i \in 0..n : p[i] = IF i = 0 THEN << >> ELSE TextNext(p[i - 1], s[i])
  <2> HIDE DEF p
  <2> QED
    BY <1>7
<1>9. \A i \in 0..n : r[i] = IF i = 0 THEN << >> ELSE TextNext(r[i - 1], s[i])
  BY <1>5 DEF TextBy, TextNext, n
<1> HIDE DEF p
<1>10. \A i \in 0..n : p[i] = r[i]
  <2>1. p[0] = r[0]
    BY <1>0, <1>8, <1>9
  <2>2. \A i \in 0..n : i + 1 \in 0..n /\ p[i] = r[i] => p[i + 1] = r[i + 1]
    BY <1>0, <1>8, <1>9
  <2>3. Alike(n, p, r)
    BY <2>1, <2>2 DEF Alike
  <2> QED
    BY <1>0, <2>3, Agree
<1>11. p \in [0..n -> Seq(S)]
  BY <1>7, <1>10
<1>12. Normalized(s) = p[n]
  BY Zenon DEF Normalized, TextTo, TextBy, p, n
<1>13. \A i \in 0..n : i + 1 \in 0..n => p[i + 1] = TextNext(p[i], s[i + 1])
  BY <1>0, <1>8
<1>14. p[0] = << >>
  BY <1>0, <1>8
<1> QED
  BY <1>11, <1>12, <1>13, <1>14 DEF p, n

\* Whatever is read with a comma for a mark and dots anywhere is read with a dot
\* for a mark once it is normalized.
LEMMA ReadNormalized ==
  ASSUME NEW S, Dot \in S, NEW s \in Seq(S), Comma \in ToSet(s)
  PROVE  /\ Normalized(s) \in Seq(S)
         /\ ReadOff(Normalized(s), Dot, {}) = ReadOff(s, Comma, {Dot})
<1> DEFINE n == Len(s)
           text == TextTo(s)
           r == Scan(s, Comma, {Dot})
           T == {i \in 0..n : ReadOff(text[i], Dot, {}) = r[i]}
<1>1. /\ n \in Nat /\ \A i \in 1..n : s[i] \in S
      /\ \A i \in 0..n : i + 1 \in 0..n => i + 1 \in 1..n
  OBVIOUS
<1>2. /\ text \in [0..n -> Seq(S)] /\ text[0] = << >> /\ Normalized(s) = text[n]
      /\ \A i \in 0..n : i + 1 \in 0..n => text[i + 1] = TextNext(text[i], s[i + 1])
  BY NormalizedIs
<1>3. Scans(r, n, s, Comma, {Dot})
  BY ScanIs
<1> HIDE DEF n, text, r
<1>4. 0 \in T
  BY <1>1, <1>2, <1>3, ReadNothing DEF Scans
<1>5. ASSUME NEW i \in 0..n, i + 1 \in 0..n, ReadOff(text[i], Dot, {}) = r[i]
      PROVE  ReadOff(text[i + 1], Dot, {}) = r[i + 1]
  <2> DEFINE c == s[i + 1]
  <2>1. text[i] \in Seq(S) /\ c \in S /\ text[i + 1] = TextNext(text[i], c)
    BY <1>1, <1>2, <1>5
  <2>2. r[i + 1] = Tallied(r[i], c, Comma, {Dot})
    BY <1>3, <1>5 DEF Scans
  <2> HIDE DEF c
  <2>3. CASE c = Dot
    <3>1. text[i + 1] = text[i]
      BY <2>1, <2>3 DEF TextNext
    <3>2. Tallied(r[i], c, Comma, {Dot}) = r[i]
      BY <2>3, MarksAre DEF Tallied
    <3> QED
      BY <1>5, <2>2, <3>1, <3>2
  <2>4. CASE c = Comma
    <3>1. text[i + 1] = Append(text[i], Dot)
      BY <2>1, <2>4, MarksAre DEF TextNext
    <3>2. ReadOff(text[i + 1], Dot, {}) = Tallied(r[i], Dot, Dot, {})
      BY <1>5, <2>1, <3>1, ReadAppend
    <3>3. Tallied(r[i], Dot, Dot, {}) = Tallied(r[i], c, Comma, {Dot})
      BY <2>4, MarksAre DEF Tallied
    <3> QED
      BY <2>2, <3>2, <3>3
  <2>5. CASE c # Dot /\ c # Comma
    <3>1. text[i + 1] = Append(text[i], c)
      BY <2>1, <2>5 DEF TextNext
    <3>2. ReadOff(text[i + 1], Dot, {}) = Tallied(r[i], c, Dot, {})
      BY <1>5, <2>1, <3>1, ReadAppend
    <3>3. Tallied(r[i], c, Dot, {}) = Tallied(r[i], c, Comma, {Dot})
      BY <2>5 DEF Tallied
    <3> QED
      BY <2>2, <3>2, <3>3
  <2> QED
    BY <2>3, <2>4, <2>5
<1>6. \A i \in 0..n : i \in T /\ i + 1 \in 0..n => i + 1 \in T
  BY <1>5
<1> HIDE DEF T
<1>7. \A i \in 0..n : i \in T
  BY <1>1, <1>4, <1>6, UpTo
<1>8. n \in 0..n
  BY <1>1
<1> QED
  BY <1>2, <1>7, <1>8 DEF T, r, n, ReadOff

\* Where some characters are in a text that goes on with another one.
LEMMA AtAppend ==
  ASSUME NEW S, NEW u \in Seq(S), NEW c \in S, NEW chars
  PROVE  /\ Len(u) \in Nat /\ DOMAIN u = 1..Len(u) /\ IsFiniteSet(At(u, chars))
         /\ At(u, chars) \subseteq 1..Len(u) /\ Len(u) + 1 \notin At(u, chars)
         /\ At(Append(u, c), chars)
              = IF c \in chars THEN At(u, chars) \cup {Len(u) + 1} ELSE At(u, chars)
<1> DEFINE n == Len(u)
           t == Append(u, c)
<1>1. /\ n \in Nat /\ DOMAIN u = 1..n /\ DOMAIN t = 1..(n + 1) /\ t[n + 1] = c
      /\ \A i \in 1..n : t[i] = u[i]
  OBVIOUS
<1> HIDE DEF n, t
<1>2. At(u, chars) \subseteq 1..n /\ n + 1 \notin At(u, chars)
  BY <1>1 DEF At
<1>3. IsFiniteSet(At(u, chars))
  <2>1. IsFiniteSet(1..n)
    BY <1>1, FS_Interval
  <2> QED
    BY <1>2, <2>1, FS_Subset
<1>4. ASSUME NEW i
      PROVE  i \in At(t, chars)
               <=> i \in IF c \in chars THEN At(u, chars) \cup {n + 1} ELSE At(u, chars)
  BY <1>1 DEF At
<1>5. At(t, chars) = IF c \in chars THEN At(u, chars) \cup {n + 1} ELSE At(u, chars)
  BY <1>4
<1> QED
  BY <1>1, <1>2, <1>3, <1>5 DEF n, t

\* The digits after a place, in a text that goes on with another character.
LEMMA AfterAppend ==
  ASSUME NEW S, NEW u \in Seq(S), NEW c \in S, NEW i \in Nat
  PROVE  /\ DigitsAfter(u, i) \in Nat
         /\ i <= Len(u) => DigitsAfter(Append(u, c), i)
              = DigitsAfter(u, i) + (IF c \in ToSet(Digits) THEN 1 ELSE 0)
         /\ DigitsAfter(Append(u, c), Len(u) + 1) = 0
<1> DEFINE n == Len(u)
           t == Append(u, c)
           D == ToSet(Digits)
           A == At(u, D)
           B == At(t, D)
           After(s, k) == {j \in s : j > k}
<1>1. /\ n \in Nat /\ IsFiniteSet(A) /\ A \subseteq 1..n /\ n + 1 \notin A
      /\ B = IF c \in D THEN A \cup {n + 1} ELSE A
  BY AtAppend
<1>2. /\ DigitsAfter(u, i) = Cardinality(After(A, i))
      /\ DigitsAfter(t, i) = Cardinality(After(B, i))
      /\ DigitsAfter(t, n + 1) = Cardinality(After(B, n + 1))
  BY DEF DigitsAfter, DigitsAt
<1> HIDE DEF n, t, D, A, B
<1>3. IsFiniteSet(After(A, i)) /\ n + 1 \notin After(A, i)
  BY <1>1, FS_Subset
<1>4. Cardinality(After(A, i)) \in Nat
  BY <1>3, FS_CardinalityType
<1>5. After(B, n + 1) = {}
  <2>1. \A j \in B : j \in 1..(n + 1)
    BY <1>1
  <2>2. \A j \in 1..(n + 1) : ~(j > n + 1)
    BY <1>1
  <2> QED
    BY <2>1, <2>2
<1>6. ASSUME i <= n
      PROVE  After(B, i) = IF c \in D THEN After(A, i) \cup {n + 1} ELSE After(A, i)
  BY <1>1, <1>6
<1>7. Cardinality({}) = 0
  BY FS_EmptySet
<1>8. Cardinality(After(A, i) \cup {n + 1}) = Cardinality(After(A, i)) + 1
  <2> HIDE DEF After
  <2> QED
    BY <1>3, FS_AddElement
<1> HIDE DEF After
<1>9. ASSUME i <= n
      PROVE  DigitsAfter(t, i) = DigitsAfter(u, i) + (IF c \in D THEN 1 ELSE 0)
  <2>1. CASE c \in D
    <3>1. After(B, i) = After(A, i) \cup {n + 1}
      BY <1>6, <1>9, <2>1
    <3> QED
      BY <1>2, <1>8, <2>1, <3>1
  <2>2. CASE c \notin D
    <3>1. After(B, i) = After(A, i)
      BY <1>6, <1>9, <2>2
    <3> QED
      BY <1>2, <1>4, <2>2, <3>1
  <2> QED
    BY <2>1, <2>2
<1>10. DigitsAfter(u, i) \in Nat /\ DigitsAfter(t, n + 1) = 0
  BY <1>2, <1>4, <1>5, <1>7
<1> QED
  BY <1>9, <1>10 DEF n, t, D

\* Amounts ten times as high make a sum ten times as high.
Tenfold(f, g, C) == \A x \in C : f[x] = 10 * g[x]

LEMMA SumTenfold ==
  ASSUME NEW D, IsFiniteSet(D), NEW C \in SUBSET D,
         NEW f \in [D -> Int], NEW g \in [C -> Int], Tenfold(f, g, C)
  PROVE  SumOn(f, C) = 10 * SumFunction(g)
<1> DEFINE Bad == {s \in SUBSET C : SumOn(f, s) # 10 * SumOn(g, s)}
<1>1. IsFiniteSet(C)
  BY FS_Subset
<1>2. /\ SumOn(f, {}) = 0 /\ \A s \in SUBSET D : SumOn(f, s) \in Int
      /\ \A s \in SUBSET D : \A x \in s : SumOn(f, s) = f[x] + SumOn(f, s \ {x})
  BY SumRemove
<1>3. /\ SumFunction(g) = SumOn(g, C)
      /\ SumOn(g, {}) = 0 /\ \A s \in SUBSET C : SumOn(g, s) \in Int
      /\ \A s \in SUBSET C : \A x \in s : SumOn(g, s) = g[x] + SumOn(g, s \ {x})
  BY <1>1, SumRemove
<1>4. ASSUME Bad # {} PROVE FALSE
  <2>1. PICK s \in Bad : \A x \in s : s \ {x} \notin Bad
    <3>1. Bad \in SUBSET SUBSET C
      OBVIOUS
    <3> HIDE DEF Bad
    <3> QED
      BY <1>1, <1>4, <3>1, Smallest
  <2>2. s \in SUBSET C /\ s \in SUBSET D /\ SumOn(f, s) # 10 * SumOn(g, s)
    BY <2>1
  <2>3. PICK x \in s : TRUE
    <3>1. SumOn(f, {}) = 0 /\ SumOn(g, {}) = 0
      BY <1>2, <1>3, Zenon
    <3>2. s # {}
      BY <2>2, <3>1
    <3> QED
      BY <3>2
  <2> DEFINE r == s \ {x}
             a == SumOn(f, r)
             b == SumOn(g, r)
  <2>4. SumOn(f, s) = f[x] + a /\ SumOn(g, s) = g[x] + b
    BY <1>2, <1>3, <2>2, <2>3
  <2>5. a = 10 * b
    BY <2>1, <2>2, <2>3
  <2>6. a \in Int /\ b \in Int /\ x \in C /\ f[x] = 10 * g[x] /\ g[x] \in Int
    <3>1. r \in SUBSET C /\ r \in SUBSET D /\ x \in C
      BY <2>2, <2>3
    <3>2. f[x] = 10 * g[x]
      BY <3>1 DEF Tenfold
    <3> HIDE DEF r
    <3> QED
      BY <1>2, <1>3, <3>1, <3>2
  <2> HIDE DEF a, b
  <2>7. f[x] + a = 10 * (g[x] + b)
    BY <2>5, <2>6
  <2> QED
    BY <2>2, <2>4, <2>7
<1>5. SumOn(f, C) = 10 * SumOn(g, C)
  BY <1>4
<1> QED
  BY <1>3, <1>5

\* What a digit is worth at its place.
PlaceValue(u, i) == DigitValue(u[i]) * Ten(DigitsAfter(u, i))
Worths(u) == [i \in DigitsAt(u) |-> PlaceValue(u, i)]

LEMMA WorthsType ==
  ASSUME NEW S, NEW u \in Seq(S)
  PROVE  /\ IsFiniteSet(DigitsAt(u)) /\ Worths(u) \in [DigitsAt(u) -> Nat]
         /\ Numerator(u) = SumFunction(Worths(u)) /\ Numerator(u) \in Nat
<1>1. IsFiniteSet(DigitsAt(u)) /\ \A i \in DigitsAt(u) : i \in Nat /\ u[i] \in ToSet(Digits)
  <2>1. IsFiniteSet(1..Len(u))
    BY FS_Interval
  <2>2. DigitsAt(u) \subseteq 1..Len(u) /\ \A i \in DigitsAt(u) : u[i] \in ToSet(Digits)
    BY DEF DigitsAt, At
  <2>3. \A i \in DigitsAt(u) : i \in Nat
    BY <2>2
  <2> QED
    BY <2>1, <2>2, <2>3, FS_Subset
<1>2. ASSUME NEW i \in DigitsAt(u) PROVE PlaceValue(u, i) \in Nat
  <2>1. DigitValue(u[i]) \in Nat
    BY <1>1, DigitsAre
  <2>2. DigitsAfter(u, i) \in Nat
    <3>1. {j \in DigitsAt(u) : j > i} \subseteq DigitsAt(u)
      OBVIOUS
    <3>2. IsFiniteSet({j \in DigitsAt(u) : j > i})
      BY <1>1, <3>1, FS_Subset
    <3> QED
      BY <3>2, FS_CardinalityType DEF DigitsAfter
  <2>3. Ten(DigitsAfter(u, i)) \in Nat
    BY <2>2, TenIs
  <2> QED
    BY <2>1, <2>3, TimesNat DEF PlaceValue
<1>3. Worths(u) \in [DigitsAt(u) -> Nat]
  BY <1>2 DEF Worths
<1>4. Numerator(u) = SumFunction(Worths(u))
  BY Zenon DEF Numerator, Worths, PlaceValue
<1> QED
  BY <1>1, <1>3, <1>4, SumOfNaturals

\* Another digit makes what stands before it ten times as much.
LEMMA NumeratorAppend ==
  ASSUME NEW S, NEW u \in Seq(S), NEW c \in S
  PROVE  Numerator(Append(u, c))
           = IF c \in ToSet(Digits) THEN 10 * Numerator(u) + DigitValue(c) ELSE Numerator(u)
<1> DEFINE n == Len(u)
           t == Append(u, c)
           D == ToSet(Digits)
           A == DigitsAt(u)
           B == DigitsAt(t)
           f == Worths(t)
           g == Worths(u)
<1>1. /\ n \in Nat /\ t \in Seq(S) /\ t[n + 1] = c
      /\ \A i \in 1..n : t[i] = u[i]
  OBVIOUS
<1>2. /\ A \subseteq 1..n /\ n + 1 \notin A
      /\ B = IF c \in D THEN A \cup {n + 1} ELSE A
  BY AtAppend DEF DigitsAt
<1>3. ASSUME NEW i \in A
      PROVE  /\ DigitsAfter(u, i) \in Nat
             /\ DigitsAfter(t, i) = DigitsAfter(u, i) + (IF c \in D THEN 1 ELSE 0)
  <2>1. i \in Nat /\ i <= n
    BY <1>1, <1>2
  <2> QED
    BY <2>1, AfterAppend
<1>4. DigitsAfter(t, n + 1) = 0
  BY AfterAppend
<1>5. /\ IsFiniteSet(A) /\ g \in [A -> Nat] /\ Numerator(u) = SumFunction(g)
      /\ IsFiniteSet(B) /\ f \in [B -> Nat] /\ Numerator(t) = SumFunction(f)
      /\ Numerator(u) \in Nat
  BY <1>1, WorthsType
<1>6. (\A i \in A : g[i] = PlaceValue(u, i)) /\ \A i \in B : f[i] = PlaceValue(t, i)
  BY Zenon DEF Worths
<1> HIDE DEF n, t, D, A, B, f, g
<1>7. CASE c \notin D
  <2>1. A = B /\ \A i \in A : f[i] = g[i]
    BY <1>1, <1>2, <1>3, <1>6, <1>7 DEF PlaceValue
  <2>2. f = g
    BY <1>5, <2>1
  <2> QED
    BY <1>5, <1>7, <2>2 DEF D, t
<1>8. CASE c \in D
  <2>1. n + 1 \in B /\ A \in SUBSET B /\ B \ {n + 1} = A
    BY <1>2, <1>8
  <2>2. ASSUME NEW i \in A PROVE f[i] = 10 * g[i]
    <3> DEFINE v == DigitValue(u[i])
               k == DigitsAfter(u, i)
    <3>1. u[i] \in D /\ i \in 1..n /\ t[i] = u[i]
      BY <1>1, <1>2 DEF A, DigitsAt, At, D
    <3>2. v \in Nat /\ k \in Nat /\ DigitsAfter(t, i) = k + 1
      <4>1. v \in 0..9
        BY <3>1, DigitsAre DEF D
      <4> QED
        BY <1>3, <1>8, <4>1
    <3>3. f[i] = v * Ten(k + 1) /\ g[i] = v * Ten(k)
      BY <1>6, <2>1, <3>1, <3>2 DEF PlaceValue
    <3>4. Ten(k) \in Nat /\ Ten(k + 1) = 10 * Ten(k)
      BY <3>2, TenIs
    <3> HIDE DEF v, k
    <3> QED
      BY <3>2, <3>3, <3>4, TenTimes
  <2>3. f[n + 1] = DigitValue(c) /\ DigitValue(c) \in Nat
    <3>1. DigitValue(c) \in 0..9
      BY <1>8, DigitsAre DEF D
    <3>2. f[n + 1] = PlaceValue(t, n + 1)
      BY <1>6, <2>1
    <3>3. PlaceValue(t, n + 1) = DigitValue(c) * 1
      BY <1>1, <1>4, TenIs, Zenon DEF PlaceValue
    <3> DEFINE v == DigitValue(c)
    <3> HIDE DEF v
    <3>4. v \in 0..9 => v * 1 = v /\ v \in Nat
      OBVIOUS
    <3> QED
      BY <3>1, <3>2, <3>3, <3>4 DEF v
  <2>4. f \in [B -> Int] /\ g \in [A -> Int]
    <3>1. f \in [B -> Nat] /\ g \in [A -> Nat]
      BY <1>5
    <3> QED
      BY <3>1
  <2>5. SumOn(f, A) = 10 * SumFunction(g)
    <3>1. IsFiniteSet(B)
      BY <1>5
    <3>2. Tenfold(f, g, A)
      BY <2>2 DEF Tenfold
    <3> QED
      BY <2>1, <2>4, <3>1, <3>2, SumTenfold
  <2>6. SumFunction(f) = f[n + 1] + SumOn(f, A)
    <3>1. SumFunction(f) = SumOn(f, B)
      BY <1>5, <2>4, SumRemove
    <3>2. SumOn(f, B) = f[n + 1] + SumOn(f, B \ {n + 1})
      BY <1>5, <2>1, <2>4, TakeOut
    <3> QED
      BY <2>1, <3>1, <3>2
  <2>7. Numerator(t) = 10 * Numerator(u) + DigitValue(c)
    BY <1>5, <2>3, <2>5, <2>6
  <2> QED
    BY <1>8, <2>7 DEF D, t
<1> QED
  BY <1>7, <1>8

\* What a tally says of the text u, by the places of its characters.
PlacesSince(u, marks) == IF marks = {} THEN 0 ELSE DigitsAfter(u, Max(marks))
Clean(u, allowed) == \A i \in DOMAIN u : u[i] \in allowed
Reads(R, u, mark, free) ==
  /\ R.num = Numerator(u)
  /\ R.digits = Cardinality(DigitsAt(u)) /\ R.marks = Cardinality(At(u, {mark}))
  /\ R.places = PlacesSince(u, At(u, {mark}))
  /\ R.odds = 0 <=> Clean(u, ToSet(Digits) \cup {mark} \cup free)

LEMMA MaxIs ==
  ASSUME NEW A \in SUBSET Int, NEW m \in A, \A i \in A : i <= m
  PROVE  Max(A) = m
<1>1. m \in Int /\ \A i \in A : i \in Int
  OBVIOUS
<1>2. m \in A /\ \A y \in A : m >= y
  BY <1>1
<1>3. \A x \in A : (\A y \in A : x >= y) => x = m
  BY <1>1
<1> QED
  BY <1>2, <1>3 DEF Max

\* The greatest of finitely many integers.
LEMMA MaxOf ==
  ASSUME NEW A \in SUBSET Int, IsFiniteSet(A), A # {}
  PROVE  Max(A) \in A
<1>1. PICK m \in A : \A y \in A : m >= y
  BY LargestExists
<1>2. \A i \in A : i <= m
  BY <1>1
<1> QED
  BY <1>2, MaxIs

\* What a character more changes of the places of a text.
LEMMA CleanAppend ==
  ASSUME NEW S, NEW u \in Seq(S), NEW c \in S, NEW allowed
  PROVE  Clean(Append(u, c), allowed) <=> Clean(u, allowed) /\ c \in allowed
<1> DEFINE n == Len(u)
           t == Append(u, c)
<1>1. /\ n \in Nat /\ DOMAIN u = 1..n /\ DOMAIN t = 1..(n + 1) /\ t[n + 1] = c
      /\ \A i \in 1..n : t[i] = u[i]
  OBVIOUS
<1> HIDE DEF n, t
<1>2. (\A i \in 1..(n + 1) : i \in 1..n \/ i = n + 1) /\ n + 1 \in 1..(n + 1)
      /\ \A i \in 1..n : i \in 1..(n + 1)
  BY <1>1
<1>3. Clean(t, allowed) => Clean(u, allowed) /\ c \in allowed
  BY <1>1, <1>2 DEF Clean
<1>4. Clean(u, allowed) /\ c \in allowed => Clean(t, allowed)
  BY <1>1, <1>2 DEF Clean
<1> QED
  BY <1>3, <1>4 DEF t

\* The places since the last mark, in a text that goes on.
Sole(single, mark) == single = {mark}

LEMMA PlacesAppend ==
  ASSUME NEW S, NEW u \in Seq(S), NEW c \in S, NEW mark, mark \notin ToSet(Digits),
         NEW single, Sole(single, mark)
  PROVE  PlacesSince(Append(u, c), At(Append(u, c), single))
           = IF c = mark THEN 0
             ELSE IF c \in ToSet(Digits) /\ At(u, single) # {}
                  THEN PlacesSince(u, At(u, single)) + 1
                  ELSE PlacesSince(u, At(u, single))
<1> DEFINE n == Len(u)
           t == Append(u, c)
           A == At(u, single)
           B == At(t, single)
<1>1. /\ n \in Nat /\ IsFiniteSet(A) /\ A \subseteq 1..n /\ n + 1 \notin A
      /\ B = IF c \in single THEN A \cup {n + 1} ELSE A
  BY AtAppend
<1>6. c \in single <=> c = mark
  BY DEF Sole
<1>2. DigitsAfter(t, n + 1) = 0
  BY AfterAppend
<1>3. ASSUME NEW i \in Nat, i <= n
      PROVE  /\ DigitsAfter(u, i) \in Nat
             /\ DigitsAfter(t, i) = DigitsAfter(u, i) + (IF c \in ToSet(Digits) THEN 1 ELSE 0)
  BY <1>3, AfterAppend
<1> HIDE DEF n, t, A, B
<1>4. CASE c = mark
  <2>1. B \in SUBSET Int /\ n + 1 \in B /\ \A i \in B : i <= n + 1
    BY <1>1, <1>4, <1>6
  <2>2. Max(B) = n + 1
    BY <2>1, MaxIs
  <2>3. PlacesSince(t, B) = 0
    BY <1>2, <2>1, <2>2 DEF PlacesSince
  <2> QED
    BY <1>4, <2>3 DEF t, B
<1>5. CASE c # mark
  <2>1. B = A
    BY <1>1, <1>5, <1>6
  <2>2. CASE A = {}
    <3>1. PlacesSince(t, B) = 0 /\ PlacesSince(u, A) = 0
      BY <2>1, <2>2 DEF PlacesSince
    <3> QED
      BY <1>5, <2>2, <3>1 DEF t, A, B
  <2>3. CASE A # {}
    <3>1. Max(A) \in A
      <4>1. A \in SUBSET Int
        BY <1>1
      <4> QED
        BY <1>1, <2>3, <4>1, MaxOf
    <3>2. Max(A) \in Nat /\ Max(A) <= n
      <4>1. \A i \in 1..n : i \in Nat /\ i <= n
        BY <1>1
      <4> QED
        BY <1>1, <3>1, <4>1, Zenon
    <3>3. /\ PlacesSince(t, B) = DigitsAfter(t, Max(A))
          /\ PlacesSince(u, A) = DigitsAfter(u, Max(A))
      BY <2>1, <2>3 DEF PlacesSince
    <3>4. /\ DigitsAfter(u, Max(A)) \in Nat
          /\ c \in ToSet(Digits) => DigitsAfter(t, Max(A)) = DigitsAfter(u, Max(A)) + 1
          /\ c \notin ToSet(Digits) => DigitsAfter(t, Max(A)) = DigitsAfter(u, Max(A))
      BY <1>3, <3>2
    <3>5. PlacesSince(t, B) = IF c \in ToSet(Digits) THEN PlacesSince(u, A) + 1
                              ELSE PlacesSince(u, A)
      BY <3>3, <3>4
    <3>6. PlacesSince(t, B) = IF c = mark THEN 0
                              ELSE IF c \in ToSet(Digits) /\ A # {}
                                   THEN PlacesSince(u, A) + 1 ELSE PlacesSince(u, A)
      BY <1>5, <2>3, <3>5
    <3> QED
      BY <3>6, Zenon DEF t, A, B
  <2> QED
    BY <2>2, <2>3
<1> QED
  BY <1>4, <1>5

LEMMA CountAppend ==
  ASSUME NEW S, NEW u \in Seq(S), NEW c \in S, NEW chars
  PROVE  /\ Cardinality(At(u, chars)) \in Nat
         /\ Cardinality(At(u, chars)) = 0 <=> At(u, chars) = {}
         /\ Cardinality(At(Append(u, c), chars))
              = IF c \in chars THEN Cardinality(At(u, chars)) + 1
                ELSE Cardinality(At(u, chars))
<1> DEFINE A == At(u, chars)
           n == Len(u)
<1>1. /\ IsFiniteSet(A) /\ n + 1 \notin A
      /\ At(Append(u, c), chars) = IF c \in chars THEN A \cup {n + 1} ELSE A
  BY AtAppend
<1> HIDE DEF A, n
<1>2. /\ Cardinality(A) \in Nat
      /\ Cardinality(A) = 0 <=> A = {}
      /\ Cardinality(A \cup {n + 1}) = Cardinality(A) + 1
  BY <1>1, FS_AddElement, FS_CardinalityType, FS_EmptySet
<1>3. Cardinality(At(Append(u, c), chars))
        = IF c \in chars THEN Cardinality(A) + 1 ELSE Cardinality(A)
  BY <1>1, <1>2
<1> QED
  BY <1>2, <1>3 DEF A

LEMMA Prefix ==
  ASSUME NEW S, NEW u \in Seq(S), NEW k \in Nat, k + 1 <= Len(u)
  PROVE  /\ SubSeq(u, 1, k) \in Seq(S) /\ u[k + 1] \in S
         /\ SubSeq(u, 1, k + 1) = Append(SubSeq(u, 1, k), u[k + 1])
<1> DEFINE a == SubSeq(u, 1, k + 1)
           b == SubSeq(u, 1, k)
           c == Append(b, u[k + 1])
<1>1. /\ u[k + 1] \in S /\ b \in Seq(S) /\ Len(b) = k /\ \A i \in 1..k : b[i] = u[i]
      /\ a \in Seq(S) /\ Len(a) = k + 1 /\ \A i \in 1..(k + 1) : a[i] = u[i]
  OBVIOUS
<1> HIDE DEF a, b
<1>2. /\ c \in Seq(S) /\ Len(c) = k + 1 /\ c[k + 1] = u[k + 1]
      /\ \A i \in 1..k : c[i] = b[i]
  BY <1>1
<1> HIDE DEF c
<1>3. \A i \in 1..(k + 1) : a[i] = c[i]
  BY <1>1, <1>2
<1>4. a = [i \in 1..(k + 1) |-> a[i]] /\ c = [i \in 1..(k + 1) |-> c[i]]
  BY <1>1, <1>2
<1>5. a = c
  BY <1>3, <1>4
<1> QED
  BY <1>1, <1>5 DEF a, b, c

\* A text that is read by its places stays so with a character more.
LEMMA ReadsAppend ==
  ASSUME NEW S, NEW u \in Seq(S), NEW c \in S, NEW mark, NEW free,
         mark \notin ToSet(Digits), NEW R \in Tally, Reads(R, u, mark, free)
  PROVE  Reads(Tallied(R, c, mark, free), Append(u, c), mark, free)
<1> DEFINE t == Append(u, c)
           Q == Tallied(R, c, mark, free)
           D == ToSet(Digits)
           fine == D \cup {mark} \cup free
           single == {mark}
           marks == At(u, single)
           marksOn == At(t, single)
           places == PlacesSince(u, marks)
           placesOn == PlacesSince(t, marksOn)
<1>1. /\ R.num \in Nat /\ R.digits \in Nat /\ R.places \in Nat /\ R.marks \in Nat
      /\ R.odds \in Nat
  BY DEF Tally
<1>2. Numerator(t) = IF c \in D THEN 10 * Numerator(u) + DigitValue(c) ELSE Numerator(u)
  BY NumeratorAppend
<1>3. Cardinality(DigitsAt(t)) = IF c \in D THEN Cardinality(DigitsAt(u)) + 1
                                 ELSE Cardinality(DigitsAt(u))
  BY CountAppend DEF DigitsAt
<1>4. /\ Cardinality(marksOn) = IF c = mark THEN Cardinality(marks) + 1
                                ELSE Cardinality(marks)
      /\ Cardinality(marks) = 0 <=> marks = {}
  <2>1. c \in single <=> c = mark
    OBVIOUS
  <2> HIDE DEF single
  <2>2. /\ Cardinality(marksOn) = IF c \in single THEN Cardinality(marks) + 1
                                  ELSE Cardinality(marks)
        /\ Cardinality(marks) = 0 <=> marks = {}
    BY CountAppend
  <2> HIDE DEF marks, marksOn
  <2> QED
    BY <2>1, <2>2
<1>5. placesOn = IF c = mark THEN 0
                 ELSE IF c \in D /\ marks # {} THEN places + 1 ELSE places
  <2>1. Sole(single, mark)
    BY DEF Sole
  <2> HIDE DEF single
  <2> QED
    BY <2>1, PlacesAppend
<1>6. Clean(t, fine) <=> Clean(u, fine) /\ c \in fine
  BY CleanAppend
<1>7. marks = {} => places = 0
  BY DEF PlacesSince
<1>8. /\ R.num = Numerator(u) /\ R.digits = Cardinality(DigitsAt(u))
      /\ R.marks = Cardinality(marks) /\ R.places = places
      /\ R.odds = 0 <=> Clean(u, fine)
  BY DEF Reads
<1> SUFFICES /\ Q.num = Numerator(t) /\ Q.digits = Cardinality(DigitsAt(t))
             /\ Q.marks = Cardinality(marksOn) /\ Q.places = placesOn
             /\ Q.odds = 0 <=> Clean(t, fine)
  BY DEF Reads
<1> HIDE DEF t, D, fine, single, places, placesOn, marks, marksOn
<1>9. CASE c \in D
  <2>1. c # mark /\ c \in fine
    BY <1>9 DEF D, fine
  <2>2. Q = [num |-> 10 * R.num + DigitValue(c), digits |-> R.digits + 1,
             places |-> IF R.marks > 0 THEN R.places + 1 ELSE 0,
             marks |-> R.marks, odds |-> R.odds]
    BY <1>9 DEF Tallied, D
  <2>3. Q.places = placesOn
    <3>1. CASE marks = {}
      <4>1. R.marks = 0
        BY <1>4, <1>8, <3>1
      <4> QED
        BY <1>5, <1>7, <2>1, <2>2, <3>1, <4>1
    <3>2. CASE marks # {}
      <4>1. R.marks > 0
        BY <1>1, <1>4, <1>8, <3>2
      <4> QED
        BY <1>5, <1>8, <1>9, <2>1, <2>2, <3>2, <4>1
    <3> QED
      BY <3>1, <3>2
  <2>4. Q.odds = 0 <=> Clean(t, fine)
    BY <1>6, <1>8, <2>1, <2>2
  <2>5. Q.num = Numerator(t) /\ Q.digits = Cardinality(DigitsAt(t))
    BY <1>2, <1>3, <1>8, <1>9, <2>2
  <2>6. Q.marks = Cardinality(marksOn)
    BY <1>4, <1>8, <2>1, <2>2
  <2> QED
    BY <2>3, <2>4, <2>5, <2>6
<1>10. CASE c = mark
  <2>1. c \notin D /\ c \in fine
    BY <1>10 DEF D, fine
  <2>2. Q = [num |-> R.num, digits |-> R.digits, places |-> 0,
             marks |-> R.marks + 1, odds |-> R.odds]
    BY <1>10, <2>1 DEF Tallied, D
  <2>3. Q.places = placesOn
    BY <1>5, <1>10, <2>2
  <2>4. Q.odds = 0 <=> Clean(t, fine)
    BY <1>6, <1>8, <2>1, <2>2
  <2>5. Q.num = Numerator(t) /\ Q.digits = Cardinality(DigitsAt(t))
    BY <1>2, <1>3, <1>8, <2>1, <2>2
  <2>6. Q.marks = Cardinality(marksOn)
    BY <1>4, <1>8, <1>10, <2>2
  <2> QED
    BY <2>3, <2>4, <2>5, <2>6
<1>11. CASE c \notin D /\ c # mark
  <2>1. c \in fine <=> c \in free
    BY <1>11 DEF D, fine
  <2>2. /\ Q.num = R.num /\ Q.digits = R.digits /\ Q.places = R.places
        /\ Q.marks = R.marks /\ Q.odds = IF c \in free THEN R.odds ELSE R.odds + 1
    BY <1>11 DEF Tallied, D
  <2>3. Q.places = placesOn
    BY <1>5, <1>8, <1>11, <2>2
  <2>4. Q.odds = 0 <=> Clean(t, fine)
    BY <1>1, <1>6, <1>8, <2>1, <2>2
  <2>5. Q.num = Numerator(t) /\ Q.digits = Cardinality(DigitsAt(t))
    BY <1>2, <1>3, <1>8, <1>11, <2>2
  <2>6. Q.marks = Cardinality(marksOn)
    BY <1>4, <1>8, <1>11, <2>2
  <2> QED
    BY <2>3, <2>4, <2>5, <2>6
<1> QED
  BY <1>9, <1>10, <1>11

LEMMA ReadsNothing ==
  ASSUME NEW mark, NEW free
  PROVE  Reads(NoTally, << >>, mark, free)
<1>1. \A chars : At(<< >>, chars) = {}
  BY DEF At
<1>2. DigitsAt(<< >>) = {}
  BY <1>1 DEF DigitsAt
<1>3. Numerator(<< >>) = 0
  <2>1. << >> \in Seq({})
    OBVIOUS
  <2>2. /\ Worths(<< >>) \in [DigitsAt(<< >>) -> Nat]
        /\ Numerator(<< >>) = SumFunction(Worths(<< >>))
    BY <2>1, WorthsType
  <2>3. Worths(<< >>) \in [{} -> {0}] /\ IsFiniteSet({})
    BY <1>2, <2>2, FS_EmptySet
  <2> QED
    BY <2>2, <2>3, SumOfZeros
<1>4. Clean(<< >>, ToSet(Digits) \cup {mark} \cup free)
  BY DEF Clean
<1>5. PlacesSince(<< >>, {}) = 0 /\ Cardinality({}) = 0
  BY FS_EmptySet DEF PlacesSince
<1> QED
  BY <1>1, <1>2, <1>3, <1>4, <1>5 DEF Reads, NoTally

\* What a text is read as, by the places of its characters.
LEMMA ReadsIs ==
  ASSUME NEW S, NEW u \in Seq(S), NEW mark, NEW free, mark \notin ToSet(Digits)
  PROVE  Reads(ReadOff(u, mark, free), u, mark, free) /\ ReadOff(u, mark, free) \in Tally
<1> DEFINE n == Len(u)
           r == Scan(u, mark, free)
           to == [k \in 0..n |-> SubSeq(u, 1, k)]
           T == {k \in 0..n : Reads(r[k], to[k], mark, free)}
<1>1. /\ n \in Nat /\ to[0] = << >> /\ to[n] = u
      /\ \A k \in 0..n : to[k] \in Seq(S)
      /\ \A k \in 0..n : k + 1 \in 0..n =>
           to[k + 1] = Append(to[k], u[k + 1]) /\ u[k + 1] \in S
  <2>1. n \in Nat /\ 0 \in 0..n /\ n \in 0..n
    OBVIOUS
  <2>2. \A k \in 0..n : to[k] = SubSeq(u, 1, k) /\ SubSeq(u, 1, k) \in Seq(S)
    BY <2>1
  <2>3. ASSUME NEW k \in 0..n, k + 1 \in 0..n
        PROVE  SubSeq(u, 1, k + 1) = Append(SubSeq(u, 1, k), u[k + 1]) /\ u[k + 1] \in S
    <3>1. k \in Nat /\ k + 1 <= Len(u)
      BY <2>3
    <3> QED
      BY <3>1, Prefix
  <2>4. SubSeq(u, 1, 0) = << >> /\ SubSeq(u, 1, n) = u
    OBVIOUS
  <2> HIDE DEF to, n
  <2> QED
    BY <2>1, <2>2, <2>3, <2>4
<1>2. Scans(r, n, u, mark, free)
  BY ScanIs
<1> HIDE DEF n, r, to
<1>3. 0 \in T
  BY <1>1, <1>2, ReadsNothing DEF Scans
<1>4. ASSUME NEW k \in 0..n, k + 1 \in 0..n, Reads(r[k], to[k], mark, free)
      PROVE  Reads(r[k + 1], to[k + 1], mark, free)
  <2>1. r[k] \in Tally /\ r[k + 1] = Tallied(r[k], u[k + 1], mark, free)
    BY <1>2, <1>4 DEF Scans
  <2>2. to[k] \in Seq(S) /\ u[k + 1] \in S /\ to[k + 1] = Append(to[k], u[k + 1])
    BY <1>1, <1>4
  <2> QED
    BY <1>4, <2>1, <2>2, ReadsAppend
<1>5. \A k \in 0..n : k \in T /\ k + 1 \in 0..n => k + 1 \in T
  BY <1>4
<1> HIDE DEF T
<1>6. \A k \in 0..n : k \in T
  BY <1>1, <1>3, <1>5, UpTo
<1>7. n \in 0..n
  BY <1>1
<1>8. Reads(r[n], u, mark, free) /\ r[n] \in Tally
  BY <1>1, <1>2, <1>6, <1>7 DEF T, Scans
<1> QED
  BY <1>8 DEF ReadOff, r, n

\* A sign before a text is one more odd character.
OneOdd(R) == [R EXCEPT !.odds = @ + 1]

LEMMA TailIs ==
  ASSUME NEW S, NEW s \in Seq(S), s # << >>
  PROVE  /\ Len(Tail(s)) \in Nat /\ Len(s) = Len(Tail(s)) + 1 /\ Tail(s) \in Seq(S)
         /\ \A i \in 1..Len(Tail(s)) : Tail(s)[i] = s[i + 1]
OBVIOUS

LEMMA TalliedOdd ==
  ASSUME NEW R \in Tally, NEW c, NEW mark, NEW free
  PROVE  Tallied(OneOdd(R), c, mark, free) = OneOdd(Tallied(R, c, mark, free))
<1> DEFINE Q == OneOdd(R)
<1>1. /\ Q = [num |-> R.num, digits |-> R.digits, places |-> R.places,
              marks |-> R.marks, odds |-> R.odds + 1]
      /\ R.odds \in Nat
  BY DEF OneOdd, Tally
<1>2. /\ Q.num = R.num /\ Q.digits = R.digits /\ Q.places = R.places
      /\ Q.marks = R.marks /\ Q.odds = R.odds + 1
  BY <1>1
<1> HIDE DEF Q
<1> DEFINE v == DigitValue(c)
<1> HIDE DEF v
<1>3. CASE c \in ToSet(Digits)
  <2>1. Tallied(R, c, mark, free)
          = [num |-> 10 * R.num + v, digits |-> R.digits + 1,
             places |-> IF R.marks > 0 THEN R.places + 1 ELSE 0,
             marks |-> R.marks, odds |-> R.odds]
    BY <1>3 DEF Tallied, v
  <2>2. Tallied(Q, c, mark, free)
          = [num |-> 10 * R.num + v, digits |-> R.digits + 1,
             places |-> IF R.marks > 0 THEN R.places + 1 ELSE 0,
             marks |-> R.marks, odds |-> R.odds + 1]
    BY <1>2, <1>3 DEF Tallied, v
  <2> QED
    BY <2>1, <2>2 DEF OneOdd, Q
<1>4. CASE c \notin ToSet(Digits) /\ c = mark
  <2>1. Tallied(R, c, mark, free)
          = [num |-> R.num, digits |-> R.digits, places |-> 0,
             marks |-> R.marks + 1, odds |-> R.odds]
    BY <1>4 DEF Tallied
  <2>2. Tallied(Q, c, mark, free)
          = [num |-> R.num, digits |-> R.digits, places |-> 0,
             marks |-> R.marks + 1, odds |-> R.odds + 1]
    BY <1>2, <1>4 DEF Tallied
  <2> QED
    BY <2>1, <2>2 DEF OneOdd, Q
<1>5. CASE c \notin ToSet(Digits) /\ c # mark /\ c \in free
  <2>1. Tallied(R, c, mark, free) = R /\ Tallied(Q, c, mark, free) = Q
    BY <1>5 DEF Tallied
  <2> QED
    BY <2>1 DEF Q
<1>6. CASE c \notin ToSet(Digits) /\ c # mark /\ c \notin free
  <2>1. Tallied(R, c, mark, free)
          = [num |-> R.num, digits |-> R.digits, places |-> R.places,
             marks |-> R.marks, odds |-> R.odds + 1]
    BY <1>6 DEF Tallied
  <2>2. Tallied(Q, c, mark, free)
          = [num |-> R.num, digits |-> R.digits, places |-> R.places,
             marks |-> R.marks, odds |-> (R.odds + 1) + 1]
    BY <1>2, <1>6 DEF Tallied
  <2> QED
    BY <2>1, <2>2 DEF OneOdd, Q
<1> QED
  BY <1>3, <1>4, <1>5, <1>6

\* A sign at the front changes nothing but the odd characters.
LEMMA ReadSigned ==
  ASSUME NEW S, NEW s \in Seq(S), s # << >>, NEW mark, NEW free,
         s[1] \notin ToSet(Digits), s[1] # mark, s[1] \notin free
  PROVE  ReadOff(s, mark, free) = OneOdd(ReadOff(Tail(s), mark, free))
<1> DEFINE u == Tail(s)
           n == Len(u)
           f == Scan(u, mark, free)
           g == Scan(s, mark, free)
           T == {i \in 0..n : g[i + 1] = OneOdd(f[i])}
<1>1. n \in Nat /\ Len(s) = n + 1 /\ u \in Seq(S) /\ \A i \in 1..n : u[i] = s[i + 1]
  BY TailIs
<1>2. Scans(f, n, u, mark, free)
  BY <1>1, ScanIs
<1>3. Scans(g, n + 1, s, mark, free)
  BY <1>1, ScanIs
<1> HIDE DEF n, u, f, g
<1>4. \A i \in 0..(n + 1) : i + 1 \in 0..(n + 1) => g[i + 1] = Tallied(g[i], s[i + 1], mark, free)
  BY <1>3 DEF Scans
<1>5. g[1] = OneOdd(f[0])
  <2>1. f[0] = NoTally /\ g[0] = NoTally
    BY <1>2, <1>3 DEF Scans
  <2>2. g[1] = Tallied(g[0], s[1], mark, free)
    <3>1. 0 \in 0..(n + 1) /\ 0 + 1 \in 0..(n + 1) /\ 0 + 1 = 1
      BY <1>1
    <3> QED
      BY <1>4, <3>1
  <2>3. Tallied(NoTally, s[1], mark, free) = OneOdd(NoTally)
    BY DEF Tallied, OneOdd, NoTally
  <2> QED
    BY <2>1, <2>2, <2>3
<1>6. ASSUME NEW i \in 0..n, i + 1 \in 0..n, g[i + 1] = OneOdd(f[i])
      PROVE  g[(i + 1) + 1] = OneOdd(f[i + 1])
  <2>1. /\ i + 1 \in 0..(n + 1) /\ (i + 1) + 1 \in 0..(n + 1) /\ i + 1 \in 1..n
    BY <1>1, <1>6
  <2>2. g[(i + 1) + 1] = Tallied(g[i + 1], s[(i + 1) + 1], mark, free)
    BY <1>4, <2>1
  <2>3. f[i + 1] = Tallied(f[i], u[i + 1], mark, free) /\ f[i] \in Tally
    BY <1>2, <1>6 DEF Scans
  <2>4. u[i + 1] = s[(i + 1) + 1]
    BY <1>1, <2>1
  <2> QED
    BY <1>6, <2>2, <2>3, <2>4, TalliedOdd
<1>7. 0 \in T /\ \A i \in 0..n : i \in T /\ i + 1 \in 0..n => i + 1 \in T
  BY <1>1, <1>5, <1>6
<1> HIDE DEF T
<1>8. \A i \in 0..n : i \in T
  BY <1>1, <1>7, UpTo
<1>9. g[n + 1] = OneOdd(f[n])
  BY <1>1, <1>8 DEF T
<1> QED
  BY <1>1, <1>9 DEF ReadOff, f, g, n, u

Signed(s) == s # << >> /\ s[1] \in Signs

\* Where a text is odd is where it is without its sign.
LEMMA CleanSigned ==
  ASSUME NEW S, NEW s \in Seq(S), Signed(s), NEW allowed
  PROVE  Clean(Tail(s), allowed) <=> \A i \in DOMAIN s : i = 1 \/ s[i] \in allowed
<1> DEFINE u == Tail(s)
           n == Len(u)
<1>1. /\ n \in Nat /\ Len(s) = n + 1 /\ u \in Seq(S) /\ \A i \in 1..n : u[i] = s[i + 1]
      /\ DOMAIN u = 1..n /\ DOMAIN s = 1..(n + 1)
  <2>1. s # << >>
    BY DEF Signed
  <2>2. n \in Nat /\ Len(s) = n + 1 /\ u \in Seq(S) /\ \A i \in 1..n : u[i] = s[i + 1]
    BY <2>1, TailIs
  <2> HIDE DEF u
  <2> QED
    BY <2>2
<1> HIDE DEF n, u
<1>2. ASSUME Clean(u, allowed), NEW i \in DOMAIN s, i # 1 PROVE s[i] \in allowed
  <2>1. i - 1 \in 1..n /\ (i - 1) + 1 = i
    BY <1>1, <1>2
  <2> QED
    BY <1>1, <1>2, <2>1 DEF Clean
<1>3. ASSUME \A i \in DOMAIN s : i = 1 \/ s[i] \in allowed, NEW i \in DOMAIN u
      PROVE  u[i] \in allowed
  <2>1. i \in 1..n /\ i + 1 \in 1..(n + 1) /\ i + 1 # 1
    BY <1>1, <1>3
  <2> QED
    BY <1>1, <1>3, <2>1
<1>4. Clean(u, allowed) <=> \A i \in DOMAIN s : i = 1 \/ s[i] \in allowed
  BY <1>2, <1>3 DEF Clean
<1> QED
  BY <1>4 DEF u

\* The decimal mark of a text, and what may stand anywhere in it.
MarkOf(s) == IF At(s, {Comma}) # {} THEN Comma ELSE Dot
FreeIn(s) == IF At(s, {Comma}) # {} THEN {Dot} ELSE {}

LEMMA MarkIs ==
  ASSUME NEW s
  PROVE  /\ MarkOf(s) \notin ToSet(Digits) /\ MarkOf(s) \notin Signs
         /\ FreeIn(s) \cap Signs = {} /\ Marks(s) = At(s, {MarkOf(s)})
  BY MarksAre DEF MarkOf, FreeIn, Marks

\* The sign is no mark.
LEMMA CommaUnsigned ==
  ASSUME NEW S, NEW s \in Seq(S)
  PROVE  /\ Unsigned(s) \in Seq(S)
         /\ Comma \in ToSet(Unsigned(s)) <=> At(s, {Comma}) # {}
<1>1. CASE ~Signed(s)
  <2>1. Unsigned(s) = s
    BY <1>1 DEF Unsigned, Signed
  <2>2. Comma \in ToSet(s) <=> At(s, {Comma}) # {}
    BY DEF ToSet, At
  <2> QED
    BY <2>1, <2>2
<1>2. CASE Signed(s)
  <2> DEFINE u == Tail(s)
             n == Len(u)
  <2>1. s # << >> /\ s[1] \in Signs /\ Unsigned(s) = u
    BY <1>2 DEF Signed, Unsigned
  <2>2. /\ n \in Nat /\ Len(s) = n + 1 /\ u \in Seq(S) /\ \A i \in 1..n : u[i] = s[i + 1]
    BY <2>1, TailIs
  <2>3. DOMAIN u = 1..n /\ DOMAIN s = 1..(n + 1)
    <3> HIDE DEF u
    <3> QED
      BY <2>2
  <2> HIDE DEF n, u
  <2>4. ASSUME Comma \in ToSet(u) PROVE At(s, {Comma}) # {}
    <3>1. PICK i \in 1..n : u[i] = Comma
      BY <2>3, <2>4 DEF ToSet
    <3>2. i + 1 \in DOMAIN s /\ s[i + 1] = Comma
      BY <2>2, <2>3, <3>1
    <3> QED
      BY <3>2 DEF At
  <2>5. ASSUME At(s, {Comma}) # {} PROVE Comma \in ToSet(u)
    <3>1. PICK i \in DOMAIN s : s[i] = Comma
      BY <2>5 DEF At
    <3>2. i # 1
      BY <2>1, <3>1, MarksAre
    <3>3. i - 1 \in 1..n /\ (i - 1) + 1 = i
      BY <2>2, <2>3, <3>1, <3>2
    <3>4. i - 1 \in DOMAIN u /\ u[i - 1] = Comma
      BY <2>2, <2>3, <3>1, <3>3
    <3> QED
      BY <3>4 DEF ToSet
  <2> QED
    BY <2>1, <2>2, <2>4, <2>5
<1> QED
  BY <1>1, <1>2

\* What a text is read as when its comma, or without one its dot, is the mark.
LEMMA ReadText ==
  ASSUME NEW S, Dot \in S, NEW s \in Seq(S)
  PROVE  /\ Normalized(Unsigned(s)) \in Seq(S)
         /\ ReadOff(Normalized(Unsigned(s)), Dot, {}) = ReadOff(Unsigned(s), MarkOf(s), FreeIn(s))
<1> DEFINE u == Unsigned(s)
<1>1. u \in Seq(S) /\ (Comma \in ToSet(u) <=> At(s, {Comma}) # {})
  BY CommaUnsigned
<1> HIDE DEF u
<1>2. CASE Comma \in ToSet(u)
  <2>1. MarkOf(s) = Comma /\ FreeIn(s) = {Dot}
    BY <1>1, <1>2 DEF MarkOf, FreeIn
  <2> QED
    BY <1>1, <1>2, <2>1, ReadNormalized DEF u
<1>3. CASE Comma \notin ToSet(u)
  <2>1. MarkOf(s) = Dot /\ FreeIn(s) = {}
    BY <1>1, <1>3 DEF MarkOf, FreeIn
  <2>2. Normalized(u) = u
    BY <1>3, Zenon DEF Normalized
  <2> QED
    BY <1>1, <2>1, <2>2 DEF u
<1> QED
  BY <1>2, <1>3

\* The characters a number may have besides its sign.
Allowed(s) == ToSet(Digits) \cup {MarkOf(s)} \cup FreeIn(s)

LEMMA AllowedIs ==
  ASSUME NEW s, NEW i \in DOMAIN s
  PROVE  s[i] \in Allowed(s) <=> i \in DigitsAt(s) \cup At(s, {Comma, Dot})
<1>1. i \in DigitsAt(s) \cup At(s, {Comma, Dot})
        <=> s[i] \in ToSet(Digits) \/ s[i] = Comma \/ s[i] = Dot
  BY DEF DigitsAt, At
<1>2. CASE At(s, {Comma}) # {}
  <2>1. s[i] \in Allowed(s) <=> s[i] \in ToSet(Digits) \/ s[i] = Comma \/ s[i] = Dot
    BY <1>2 DEF Allowed, MarkOf, FreeIn
  <2> QED
    BY <1>1, <2>1
<1>3. CASE At(s, {Comma}) = {}
  <2>1. s[i] # Comma
    BY <1>3 DEF At
  <2>2. s[i] \in Allowed(s) <=> s[i] \in ToSet(Digits) \/ s[i] = Dot
    BY <1>3 DEF Allowed, MarkOf, FreeIn
  <2> QED
    BY <1>1, <2>1, <2>2
<1> QED
  BY <1>2, <1>3

\* Nothing but the first sign is odd in a number.
LEMMA OnlySignOdd ==
  ASSUME NEW S, NEW s \in Seq(S)
  PROVE  Clean(Unsigned(s), Allowed(s))
           <=> DOMAIN s \subseteq DigitsAt(s) \cup At(s, {Comma, Dot}) \cup (At(s, Signs) \cap {1})
<1> DEFINE fine == DigitsAt(s) \cup At(s, {Comma, Dot})
           sign == At(s, Signs) \cap {1}
<1>1. \A i \in DOMAIN s : s[i] \in Allowed(s) <=> i \in fine
  BY AllowedIs
<1>2. CASE Signed(s)
  <2>1. Unsigned(s) = Tail(s)
    BY <1>2 DEF Signed, Unsigned
  <2>2. Clean(Tail(s), Allowed(s)) <=> \A i \in DOMAIN s : i = 1 \/ s[i] \in Allowed(s)
    BY <1>2, CleanSigned
  <2>3. sign = {1}
    <3>1. 1 \in DOMAIN s /\ s[1] \in Signs
      BY <1>2 DEF Signed
    <3> QED
      BY <3>1 DEF At
  <2> HIDE DEF fine, sign
  <2>4. DOMAIN s \subseteq fine \cup sign <=> \A i \in DOMAIN s : i = 1 \/ i \in fine
    BY <2>3
  <2>5. DOMAIN s \subseteq fine \cup sign <=> Clean(Unsigned(s), Allowed(s))
    BY <1>1, <2>1, <2>2, <2>4
  <2> QED
    BY <2>5 DEF fine, sign
<1>3. CASE ~Signed(s)
  <2>1. Unsigned(s) = s
    BY <1>3 DEF Signed, Unsigned
  <2>2. sign = {}
    <3>1. 1 \in DOMAIN s => s # << >>
      OBVIOUS
    <3>2. 1 \in DOMAIN s => s[1] \notin Signs
      BY <1>3, <3>1 DEF Signed
    <3> QED
      BY <3>2 DEF At
  <2> HIDE DEF fine, sign
  <2>3. DOMAIN s \subseteq fine \cup sign <=> \A i \in DOMAIN s : i \in fine
    BY <2>2
  <2>4. DOMAIN s \subseteq fine \cup sign <=> Clean(Unsigned(s), Allowed(s))
    BY <1>1, <2>1, <2>3 DEF Clean
  <2> QED
    BY <2>4 DEF fine, sign
<1> QED
  BY <1>2, <1>3

\* Signed or not, a text is read as the same number.
LEMMA SameNumber ==
  ASSUME NEW S, NEW s \in Seq(S)
  PROVE  LET R == ReadOff(Unsigned(s), MarkOf(s), FreeIn(s))
             Q == ReadOff(s, MarkOf(s), FreeIn(s))
         IN  /\ R \in Tally
             /\ Q.num = R.num /\ Q.digits = R.digits /\ Q.places = R.places /\ Q.marks = R.marks
<1> DEFINE m == MarkOf(s)
           fr == FreeIn(s)
           u == Unsigned(s)
           R == ReadOff(u, m, fr)
           Q == ReadOff(s, m, fr)
<1>1. m \notin ToSet(Digits) /\ m \notin Signs /\ fr \cap Signs = {}
  BY MarkIs
<1>2. u \in Seq(S)
  BY CommaUnsigned
<1>3. R \in Tally
  BY <1>1, <1>2, ReadsIs
<1>4. CASE Signed(s)
  <2>1. s # << >> /\ s[1] \in Signs /\ u = Tail(s)
    BY <1>4 DEF Signed, Unsigned
  <2>2. s[1] \notin ToSet(Digits) /\ s[1] # m /\ s[1] \notin fr
    BY <1>1, <2>1, MarksAre
  <2> HIDE DEF m, fr
  <2>3. Q = OneOdd(R)
    BY <2>1, <2>2, ReadSigned
  <2> HIDE DEF Q, R
  <2>4. Q.num = R.num /\ Q.digits = R.digits /\ Q.places = R.places /\ Q.marks = R.marks
    BY <1>3, <2>3 DEF OneOdd, Tally
  <2> QED
    BY <1>3, <2>4 DEF Q, R, m, fr
<1>5. CASE ~Signed(s)
  <2>1. u = s
    BY <1>5 DEF Signed, Unsigned
  <2> QED
    BY <1>3, <2>1
<1> QED
  BY <1>4, <1>5

\* The number a text denotes is what its normal form is read as.
LEMMA NumberIs ==
  ASSUME NEW S, Dot \in S, NEW s \in Seq(S),
         NEW R, R = ReadOff(Normalized(Unsigned(s)), Dot, {})
  PROVE  /\ R \in Tally /\ Numerator(s) = R.num /\ Places(s) = R.places
         /\ IsNumber(s) <=> R.digits # 0 /\ R.marks <= 1 /\ R.odds = 0
<1> DEFINE m == MarkOf(s)
           fr == FreeIn(s)
           u == Unsigned(s)
           Q == ReadOff(s, m, fr)
<1>1. m \notin ToSet(Digits) /\ Marks(s) = At(s, {m})
  BY MarkIs
<1>2. R = ReadOff(u, m, fr) /\ u \in Seq(S)
  BY ReadText, CommaUnsigned
<1>3. /\ R \in Tally
      /\ Q.num = R.num /\ Q.digits = R.digits /\ Q.places = R.places /\ Q.marks = R.marks
  BY <1>2, SameNumber
<1>4. Reads(R, u, m, fr) /\ Reads(Q, s, m, fr)
  BY <1>1, <1>2, ReadsIs
<1> HIDE DEF m, fr, u, Q
<1>5. /\ R.num = Numerator(s) /\ R.digits = Cardinality(DigitsAt(s))
      /\ R.marks = Cardinality(Marks(s)) /\ R.places = PlacesSince(s, Marks(s))
  BY <1>1, <1>3, <1>4 DEF Reads
<1>6. R.odds = 0 <=> Clean(u, Allowed(s))
  BY <1>4 DEF Reads, Allowed, m, fr
<1>7. Places(s) = PlacesSince(s, Marks(s))
  BY DEF Places, PlacesSince
<1>8. R.digits # 0 <=> DigitsAt(s) # {}
  <2>1. IsFiniteSet(DigitsAt(s))
    BY WorthsType
  <2> QED
    BY <1>5, <2>1, FS_EmptySet
<1>9. Clean(u, Allowed(s))
        <=> DOMAIN s \subseteq DigitsAt(s) \cup At(s, {Comma, Dot}) \cup (At(s, Signs) \cap {1})
  BY OnlySignOdd DEF u
<1>10. IsNumber(s) <=> R.digits # 0 /\ R.marks <= 1 /\ R.odds = 0
  BY <1>5, <1>6, <1>8, <1>9 DEF IsNumber
<1> QED
  BY <1>3, <1>5, <1>7, <1>10

LEMMA MinOf ==
  ASSUME NEW A \in SUBSET Nat, A # {}
  PROVE  Min(A) \in A /\ \A i \in A : Min(A) <= i
<1>1. PICK m \in A : \A i \in A : m <= i
  BY LeastNumber
<1> QED
  BY <1>1 DEF Min

\* Where a text is cut, and what it is cut into.
WholePart(t) == SubSeq(t, 1, Point(t) - 1)
FracPart(t) == SubSeq(t, Point(t) + 1, Len(t))
Uncut(t) == WholePart(t) \o FracPart(t)

\* The point is the first dot, or the end.
LEMMA PointIs ==
  ASSUME NEW S, NEW t \in Seq(S)
  PROVE  /\ Len(t) \in Nat /\ DOMAIN t = 1..Len(t) /\ Point(t) \in 1..(Len(t) + 1)
         /\ Point(t) <= Len(t) => t[Point(t)] = Dot
         /\ \A i \in 1..Len(t) : i < Point(t) => t[i] # Dot
<1> DEFINE n == Len(t)
           A == {i \in DOMAIN t : t[i] = Dot} \cup {n + 1}
           p == Point(t)
<1>1. n \in Nat /\ DOMAIN t = 1..n
  OBVIOUS
<1>2. p \in A /\ \A i \in A : p <= i
  <2>1. A \in SUBSET Nat /\ A # {}
    BY <1>1
  <2>2. p = Min(A)
    BY DEF Point
  <2> HIDE DEF A, p
  <2> QED
    BY <2>1, <2>2, MinOf
<1> HIDE DEF n, p
<1>3. p \in 1..(n + 1) /\ (p <= n => t[p] = Dot)
  BY <1>1, <1>2
<1>4. \A i \in 1..n : i < p => t[i] # Dot
  BY <1>1, <1>2, <1>3
<1> QED
  BY <1>1, <1>3, <1>4 DEF n, p

LEMMA CutIs ==
  ASSUME NEW S, NEW t \in Seq(S)
  PROVE  /\ WholePart(t) \in Seq(S) /\ Len(WholePart(t)) = Point(t) - 1
         /\ \A i \in 1..(Point(t) - 1) : WholePart(t)[i] = t[i]
         /\ FracPart(t) \in Seq(S)
         /\ Len(FracPart(t)) = IF Point(t) <= Len(t) THEN Len(t) - Point(t) ELSE 0
         /\ \A i \in 1..Len(FracPart(t)) : FracPart(t)[i] = t[Point(t) + i]
<1> DEFINE p == Point(t)
<1>1. Len(t) \in Nat /\ p \in 1..(Len(t) + 1)
  BY PointIs
<1>2. /\ SubSeq(t, 1, p - 1) \in Seq(S) /\ Len(SubSeq(t, 1, p - 1)) = p - 1
      /\ \A i \in 1..(p - 1) : SubSeq(t, 1, p - 1)[i] = t[i]
  BY <1>1
<1>3. CASE p <= Len(t)
  <2>1. /\ SubSeq(t, p + 1, Len(t)) \in Seq(S)
        /\ Len(SubSeq(t, p + 1, Len(t))) = Len(t) - p
        /\ \A i \in 1..(Len(t) - p) : SubSeq(t, p + 1, Len(t))[i] = t[p + i]
    BY <1>1, <1>3
  <2> QED
    BY <1>2, <1>3, <2>1 DEF WholePart, FracPart
<1>4. CASE p = Len(t) + 1
  <2>1. SubSeq(t, p + 1, Len(t)) = << >>
    BY <1>1, <1>4
  <2>2. FracPart(t) = << >> /\ ~(p <= Len(t))
    BY <1>1, <1>4, <2>1 DEF FracPart
  <2> QED
    BY <1>2, <2>2 DEF WholePart
<1> QED
  BY <1>1, <1>3, <1>4

LEMMA JoinIs ==
  ASSUME NEW S, NEW w \in Seq(S), NEW f \in Seq(S)
  PROVE  /\ w \o f \in Seq(S) /\ Len(w) \in Nat /\ Len(f) \in Nat
         /\ Len(w \o f) = Len(w) + Len(f) /\ DOMAIN (w \o f) = 1..(Len(w) + Len(f))
         /\ \A i \in 1..Len(w) : (w \o f)[i] = w[i]
         /\ \A i \in 1..Len(f) : (w \o f)[Len(w) + i] = f[i]
<1>1. /\ w \o f \in Seq(S) /\ Len(w) \in Nat /\ Len(f) \in Nat
      /\ Len(w \o f) = Len(w) + Len(f) /\ DOMAIN (w \o f) = 1..(Len(w) + Len(f))
  OBVIOUS
<1>2. ASSUME NEW i \in 1..Len(w) PROVE (w \o f)[i] = w[i]
  OBVIOUS
<1>3. ASSUME NEW i \in 1..Len(f) PROVE (w \o f)[Len(w) + i] = f[i]
  OBVIOUS
<1> QED
  BY <1>1, <1>2, <1>3

\* The digits of a text, without the mark they are cut at.
LEMMA UncutIs ==
  ASSUME NEW S, NEW t \in Seq(S)
  PROVE  /\ Uncut(t) \in Seq(S) /\ DOMAIN Uncut(t) = 1..Len(Uncut(t))
         /\ Len(Uncut(t)) = IF Point(t) <= Len(t) THEN Len(t) - 1 ELSE Len(t)
         /\ \A i \in 1..Len(Uncut(t)) :
              Uncut(t)[i] = IF i < Point(t) THEN t[i] ELSE t[i + 1]
<1> DEFINE p == Point(t)
           w == WholePart(t)
           f == FracPart(t)
           n == Len(t)
           d == Uncut(t)
<1>1. /\ w \in Seq(S) /\ Len(w) = p - 1 /\ \A i \in 1..(p - 1) : w[i] = t[i]
      /\ f \in Seq(S) /\ Len(f) = IF p <= n THEN n - p ELSE 0
      /\ \A i \in 1..Len(f) : f[i] = t[p + i]
      /\ n \in Nat /\ p \in 1..(n + 1)
  <2>1. n \in Nat /\ p \in 1..(n + 1)
    BY PointIs
  <2>2. /\ w \in Seq(S) /\ Len(w) = p - 1 /\ \A i \in 1..(p - 1) : w[i] = t[i]
        /\ f \in Seq(S) /\ Len(f) = IF p <= n THEN n - p ELSE 0
        /\ \A i \in 1..Len(f) : f[i] = t[p + i]
    BY CutIs, Zenon
  <2> QED
    BY <2>1, <2>2, Zenon
<1>2. d = w \o f
  BY DEF Uncut
<1> HIDE DEF w, f, n, p, d
<1>3. w \in Seq(S) /\ f \in Seq(S)
  BY <1>1
<1>4. /\ w \o f \in Seq(S) /\ Len(w) \in Nat /\ Len(f) \in Nat
      /\ Len(w \o f) = Len(w) + Len(f) /\ DOMAIN (w \o f) = 1..(Len(w) + Len(f))
      /\ \A i \in 1..Len(w) : (w \o f)[i] = w[i]
      /\ \A i \in 1..Len(f) : (w \o f)[Len(w) + i] = f[i]
  BY <1>3, JoinIs
<1>5. d \in Seq(S) /\ Len(d) = Len(w) + Len(f) /\ DOMAIN d = 1..Len(d)
  BY <1>2, <1>4
<1>6. Len(d) = IF p <= n THEN n - 1 ELSE n
  <2>1. n \in Nat /\ p \in 1..(n + 1) /\ Len(w) = p - 1 /\ Len(f) = IF p <= n THEN n - p ELSE 0
    BY <1>1
  <2>2. Len(d) = Len(w) + Len(f)
    BY <1>5
  <2> QED
    BY <2>1, <2>2
<1>7. ASSUME NEW i \in 1..Len(d), i < p PROVE d[i] = t[i]
  <2>1. i \in 1..(p - 1) /\ i \in 1..Len(w)
    BY <1>1, <1>5, <1>7
  <2> QED
    BY <1>1, <1>2, <1>4, <2>1
<1>8. ASSUME NEW i \in 1..Len(d), ~(i < p) PROVE d[i] = t[i + 1]
  <2> DEFINE j == i - Len(w)
  <2>0. Len(w) = p - 1 /\ Len(f) \in Nat /\ p \in Nat /\ Len(d) = Len(w) + Len(f)
    BY <1>1, <1>4, <1>5
  <2>1. j \in 1..Len(f) /\ Len(w) + j = i /\ p + j = i + 1
    BY <1>8, <2>0
  <2> HIDE DEF j
  <2>2. d[Len(w) + j] = f[j] /\ f[j] = t[p + j]
    BY <1>1, <1>2, <1>4, <2>1
  <2> QED
    BY <2>1, <2>2
<1> QED
  BY <1>5, <1>6, <1>7, <1>8 DEF n, p, d

LEMMA AtMostOne ==
  ASSUME NEW A, IsFiniteSet(A), Cardinality(A) <= 1, NEW x \in A, NEW y \in A
  PROVE  x = y
<1>1. Cardinality(A) \in Nat /\ IsFiniteSet(A \ {x}) /\ Cardinality(A \ {x}) = Cardinality(A) - 1
  BY FS_RemoveElement, FS_CardinalityType
<1>2. Cardinality(A \ {x}) \in Nat
  BY <1>1, FS_CardinalityType
<1>3. Cardinality(A \ {x}) = 0
  BY <1>1, <1>2
<1>4. A \ {x} = {}
  BY <1>1, <1>3, FS_EmptySet
<1> QED
  BY <1>4

LEMMA WithinOne ==
  ASSUME NEW A, NEW x, A \subseteq {x}
  PROVE  IsFiniteSet(A) /\ Cardinality(A) \in Nat /\ Cardinality(A) <= 1
<1>1. A = {} \/ A = {x}
  OBVIOUS
<1>2. IsFiniteSet({}) /\ Cardinality({}) = 0 /\ IsFiniteSet({x}) /\ Cardinality({x}) = 1
  BY FS_EmptySet, FS_Singleton
<1> QED
  BY <1>1, <1>2

\* The code's test of a text is that it is a number.
LEMMA DigitsIff ==
  ASSUME NEW S, NEW t \in Seq(S), NEW R \in Tally, Reads(R, t, Dot, {})
  PROVE  Uncut(t) # << >> /\ IsDigits(Uncut(t)) <=> R.digits # 0 /\ R.marks <= 1 /\ R.odds = 0
<1> DEFINE n == Len(t)
           p == Point(t)
           d == Uncut(t)
           D == ToSet(Digits)
           A == At(t, {Dot})
<1>1. /\ n \in Nat /\ DOMAIN t = 1..n /\ p \in 1..(n + 1) /\ (p <= n => t[p] = Dot)
      /\ \A i \in 1..n : i < p => t[i] # Dot
  BY PointIs
<1>2. /\ DOMAIN d = 1..Len(d) /\ Len(d) = IF p <= n THEN n - 1 ELSE n
      /\ \A i \in 1..Len(d) : d[i] = IF i < p THEN t[i] ELSE t[i + 1]
      /\ d # << >> <=> Len(d) # 0
  <2>1. d \in Seq(S)
    BY UncutIs
  <2>2. d # << >> <=> Len(d) # 0
    <3> HIDE DEF d
    <3> QED
      BY <2>1
  <2> QED
    BY <2>2, UncutIs
<1>3. /\ R.digits = Cardinality(DigitsAt(t)) /\ R.marks = Cardinality(A)
      /\ R.odds = 0 <=> Clean(t, D \cup {Dot} \cup {})
  BY DEF Reads
<1>4. IsFiniteSet(DigitsAt(t)) /\ (Cardinality(DigitsAt(t)) = 0 <=> DigitsAt(t) = {})
  BY WorthsType, FS_EmptySet
<1>5. Clean(t, D \cup {Dot} \cup {}) <=> \A i \in 1..n : t[i] \in D \/ t[i] = Dot
  BY <1>1 DEF Clean
<1>6. IsDigits(d) <=> \A i \in 1..Len(d) : d[i] \in D
  <2> HIDE DEF D
  <2>1. IsDigits(d) <=> ToSet(d) \subseteq D
    BY Zenon DEF IsDigits, D
  <2> HIDE DEF d
  <2> QED
    BY <1>2, <2>1 DEF ToSet
<1>7. \A i \in 1..n : i \in DigitsAt(t) <=> t[i] \in D
  BY <1>1 DEF DigitsAt, At
<1>8. A \subseteq 1..n /\ (\A i \in 1..n : i \in A <=> t[i] = Dot)
  BY <1>1 DEF At
<1>9. IsFiniteSet(A)
  <2>1. IsFiniteSet(1..n)
    BY <1>1, FS_Interval
  <2> QED
    BY <1>8, <2>1, FS_Subset
<1>10. Dot \notin D
  BY MarksAre
<1> HIDE DEF n, p, d, D, A
<1>11. ASSUME d # << >>, IsDigits(d) PROVE R.digits # 0 /\ R.marks <= 1 /\ R.odds = 0
  <2>0. \A i \in 1..Len(d) : d[i] \in D
    BY <1>6, <1>11
  <2>1. ASSUME NEW i \in 1..n, i # p PROVE t[i] \in D
    <3>1. CASE i < p
      <4>1. i \in 1..Len(d)
        BY <1>1, <1>2, <3>1
      <4> QED
        BY <1>2, <2>0, <3>1, <4>1
    <3>2. CASE i > p
      <4>1. i - 1 \in 1..Len(d) /\ ~(i - 1 < p) /\ (i - 1) + 1 = i
        BY <1>1, <1>2, <3>2
      <4>2. d[i - 1] = t[(i - 1) + 1]
        BY <1>2, <4>1
      <4>3. d[i - 1] \in D
        BY <2>0, <4>1
      <4> QED
        BY <4>1, <4>2, <4>3
    <3>3. i < p \/ i > p
      BY <1>1, <2>1
    <3> QED
      BY <3>1, <3>2, <3>3
  <2>2. \A i \in 1..n : t[i] \in D \/ t[i] = Dot
    BY <1>1, <2>1
  <2>3. A \subseteq {p}
    BY <1>8, <1>10, <2>1
  <2>4. DigitsAt(t) # {}
    <3>1. 1 \in 1..Len(d) /\ Len(d) \in Nat
      BY <1>1, <1>2, <1>11
    <3>2. d[1] \in D /\ d[1] = IF 1 < p THEN t[1] ELSE t[2]
      BY <1>2, <2>0, <3>1
    <3>3. CASE 1 < p
      <4>1. 1 \in 1..n
        BY <1>1, <1>2, <3>1
      <4> QED
        BY <1>7, <3>2, <3>3, <4>1
    <3>4. CASE ~(1 < p)
      <4>1. 2 \in 1..n
        BY <1>1, <1>2, <3>1, <3>4
      <4> QED
        BY <1>7, <3>2, <3>4, <4>1
    <3> QED
      BY <3>3, <3>4
  <2>5. R.marks <= 1
    BY <1>3, <2>3, WithinOne
  <2> QED
    BY <1>3, <1>4, <1>5, <2>2, <2>4, <2>5
<1>12. ASSUME R.digits # 0, R.marks <= 1, R.odds = 0 PROVE d # << >> /\ IsDigits(d)
  <2>1. \A i \in 1..n : t[i] \in D \/ t[i] = Dot
    BY <1>3, <1>5, <1>12
  <2>2. ASSUME NEW i \in 1..n, i # p PROVE t[i] \in D
    <3>1. CASE i < p
      BY <1>1, <2>1, <3>1
    <3>2. CASE i > p
      <4>1. p \in 1..n
        BY <1>1, <3>2
      <4>2. p \in A
        BY <1>1, <1>8, <4>1
      <4>3. Cardinality(A) <= 1
        BY <1>3, <1>12
      <4>4. i \notin A
        BY <1>9, <2>2, <4>2, <4>3, AtMostOne
      <4> QED
        BY <1>8, <2>1, <4>4
    <3>3. i < p \/ i > p
      BY <1>1, <2>2
    <3> QED
      BY <3>1, <3>2, <3>3
  <2>3. ASSUME NEW i \in 1..Len(d) PROVE d[i] \in D
    <3>1. CASE i < p
      <4>1. i \in 1..n /\ i # p
        BY <1>1, <1>2, <3>1
      <4> QED
        BY <1>2, <2>2, <3>1, <4>1
    <3>2. CASE ~(i < p)
      <4>1. i + 1 \in 1..n /\ i + 1 # p
        BY <1>1, <1>2, <3>2
      <4>2. d[i] = t[i + 1]
        BY <1>2, <3>2
      <4> QED
        BY <2>2, <4>1, <4>2
    <3> QED
      BY <3>1, <3>2
  <2>4. Len(d) # 0
    <3>1. PICK i \in 1..n : t[i] \in D
      <4>1. DigitsAt(t) # {}
        BY <1>3, <1>4, <1>12
      <4>2. DigitsAt(t) \subseteq 1..n
        BY <1>1 DEF DigitsAt, At
      <4> QED
        BY <1>7, <4>1, <4>2
    <3>2. ASSUME Len(d) = 0 PROVE i = p /\ p <= n
      BY <1>1, <1>2, <3>1, <3>2
    <3> QED
      BY <1>1, <1>10, <3>1, <3>2
  <2> QED
    BY <1>2, <1>6, <2>3, <2>4
<1> QED
  BY <1>11, <1>12 DEF d

\* How far a text cut at p is read after i characters, its digits being read by r.
ReadUpTo(R, r, p, i) ==
  IF i < p THEN R.num = r[i] /\ R.marks = 0 /\ R.places = 0
  ELSE R.num = r[i - 1] /\ R.marks = 1 /\ R.places = i - p

\* The code's two parts make the number that is read, and its places.
LEMMA ValueIs ==
  ASSUME NEW S, NEW t \in Seq(S), IsDigits(Uncut(t))
  PROVE  /\ ReadOff(t, Dot, {}).num = ParseInt(Uncut(t))
         /\ ReadOff(t, Dot, {}).places = Len(FracPart(t))
<1> DEFINE n == Len(t)
           p == Point(t)
           d == Uncut(t)
           D == ToSet(Digits)
           r == ReadTo(d)
           f == Scan(t, Dot, {})
           T == {i \in 0..n : ReadUpTo(f[i], r, p, i)}
<1>1. n \in Nat /\ p \in 1..(n + 1) /\ (p <= n => t[p] = Dot)
  BY PointIs
<1>2. /\ DOMAIN d = 1..Len(d) /\ Len(d) = IF p <= n THEN n - 1 ELSE n
      /\ \A i \in 1..Len(d) : d[i] = IF i < p THEN t[i] ELSE t[i + 1]
  BY UncutIs
<1>3. /\ r[0] = 0 /\ ParseInt(d) = r[Len(d)]
      /\ \A i \in 0..Len(d) : i + 1 \in 0..Len(d) =>
            r[i + 1] = 10 * r[i] + DigitValue(d[i + 1])
  BY UncutIs, ParseIntIs
<1>4. Scans(f, n, t, Dot, {})
  BY ScanIs
<1>5. \A i \in 1..Len(d) : d[i] \in D
  <2>1. ToSet(d) \subseteq D
    BY Zenon DEF IsDigits
  <2> HIDE DEF D, d
  <2> QED
    BY <1>2, <2>1 DEF ToSet
<1>6. Len(FracPart(t)) = IF p <= n THEN n - p ELSE 0
  BY CutIs
<1>7. Dot \notin D
  BY MarksAre
<1> HIDE DEF n, p, d, D, r, f
<1>8. 0 \in T
  <2>1. f[0] = NoTally /\ 0 \in 0..n /\ 0 < p
    BY <1>1, <1>4 DEF Scans
  <2> QED
    BY <1>3, <2>1 DEF ReadUpTo, NoTally
<1>9. ASSUME NEW i \in 0..n, i + 1 \in 0..n, ReadUpTo(f[i], r, p, i)
      PROVE  ReadUpTo(f[i + 1], r, p, i + 1)
  <2> DEFINE R == f[i]
             Q == f[i + 1]
             c == t[i + 1]
  <2>1. Q = Tallied(R, c, Dot, {})
    BY <1>4, <1>9 DEF Scans
  <2> HIDE DEF R, Q, c
  <2>2. i \in Nat /\ p \in Nat
    BY <1>1
  <2>3. CASE i + 1 < p
    <3>1. i < p /\ i + 1 \in 1..Len(d) /\ i \in 0..Len(d) /\ i + 1 \in 0..Len(d)
      BY <1>1, <1>2, <1>9, <2>3
    <3>2. c \in D /\ r[i + 1] = 10 * r[i] + DigitValue(c)
      BY <1>2, <1>3, <1>5, <2>3, <3>1 DEF c
    <3>3. R.num = r[i] /\ R.marks = 0 /\ R.places = 0
      BY <1>9, <3>1 DEF ReadUpTo, R
    <3>4. Q.num = 10 * R.num + DigitValue(c) /\ Q.marks = R.marks /\ Q.places = 0
      BY <2>1, <3>2, <3>3 DEF Tallied, D
    <3>5. Q.num = r[i + 1] /\ Q.marks = 0 /\ Q.places = 0
      BY <3>2, <3>3, <3>4
    <3> QED
      BY <2>3, <3>5 DEF ReadUpTo, Q
  <2>4. CASE i + 1 = p
    <3>1. i < p /\ p <= n /\ c = Dot
      BY <1>1, <1>9, <2>2, <2>4 DEF c
    <3>2. R.num = r[i] /\ R.marks = 0 /\ R.places = 0
      BY <1>9, <3>1 DEF ReadUpTo, R
    <3>3. Q.num = R.num /\ Q.marks = R.marks + 1 /\ Q.places = 0
      BY <1>7, <2>1, <3>1 DEF Tallied, D
    <3>4. Q.num = r[(i + 1) - 1] /\ Q.marks = 1 /\ Q.places = (i + 1) - p
      BY <2>2, <2>4, <3>2, <3>3
    <3>5. ~(i + 1 < p)
      BY <2>2, <2>4
    <3> QED
      BY <3>4, <3>5 DEF ReadUpTo, Q
  <2>5. CASE i + 1 > p
    <3>1. /\ ~(i < p) /\ i \in 1..Len(d) /\ i - 1 \in 0..Len(d) /\ (i - 1) + 1 = i
          /\ i \in 0..Len(d)
      BY <1>1, <1>2, <1>9, <2>5
    <3>2. c \in D /\ d[i] = c
      BY <1>2, <1>5, <3>1 DEF c
    <3>3. r[i] = 10 * r[i - 1] + DigitValue(c)
      BY <1>3, <3>1, <3>2
    <3>4. R.num = r[i - 1] /\ R.marks = 1 /\ R.places = i - p
      BY <1>9, <3>1 DEF ReadUpTo, R
    <3>5. /\ Q.num = 10 * R.num + DigitValue(c) /\ Q.marks = R.marks
          /\ R.marks > 0 => Q.places = R.places + 1
      BY <2>1, <3>2 DEF Tallied, D
    <3>6. Q.num = r[(i + 1) - 1] /\ Q.marks = 1 /\ Q.places = (i + 1) - p
      BY <2>2, <3>3, <3>4, <3>5
    <3>7. ~(i + 1 < p)
      BY <2>2, <2>5
    <3> QED
      BY <3>6, <3>7 DEF ReadUpTo, Q
  <2> QED
    BY <2>2, <2>3, <2>4, <2>5
<1>10. \A i \in 0..n : i \in T /\ i + 1 \in 0..n => i + 1 \in T
  BY <1>9
<1> HIDE DEF T
<1>11. \A i \in 0..n : i \in T
  BY <1>1, <1>8, <1>10, UpTo
<1>12. ReadUpTo(f[n], r, p, n)
  <2>1. n \in 0..n
    BY <1>1
  <2> QED
    BY <1>11, <2>1 DEF T
<1>13. f[n].num = r[Len(d)] /\ f[n].places = IF p <= n THEN n - p ELSE 0
  BY <1>1, <1>2, <1>12 DEF ReadUpTo
<1> QED
  BY <1>3, <1>6, <1>13 DEF ReadOff, f, n, d

\* r reads the digits of s one by one.
ReadsDigits(r, s, m) ==
  /\ r[0] = 0 /\ \A i \in 0..m : r[i] \in Nat
  /\ \A i \in 0..m : i + 1 \in 0..m => r[i + 1] = 10 * r[i] + DigitValue(s[i + 1])

LEMMA ReadToIs ==
  ASSUME NEW S, NEW s \in Seq(S), IsDigits(s)
  PROVE  /\ ReadsDigits(ReadTo(s), s, Len(s)) /\ ParseInt(s) = ReadTo(s)[Len(s)]
         /\ \A i \in 1..Len(s) : DigitValue(s[i]) \in 0..9
<1>1. /\ ReadTo(s) \in [0..Len(s) -> Nat] /\ ReadTo(s)[0] = 0
      /\ \A i \in 0..Len(s) : i + 1 \in 0..Len(s) =>
            ReadTo(s)[i + 1] = 10 * ReadTo(s)[i] + DigitValue(s[i + 1])
      /\ ParseInt(s) = ReadTo(s)[Len(s)]
  BY ParseIntIs
<1>2. ReadsDigits(ReadTo(s), s, Len(s))
  BY <1>1 DEF ReadsDigits
<1>3. ASSUME NEW i \in 1..Len(s) PROVE DigitValue(s[i]) \in 0..9
  <2>1. i \in DOMAIN s
    OBVIOUS
  <2>2. s[i] \in ToSet(s)
    BY <2>1 DEF ToSet
  <2>3. s[i] \in ToSet(Digits)
    BY <2>2, Zenon DEF IsDigits
  <2> QED
    BY <2>3, DigitsAre
<1> QED
  BY <1>1, <1>2, <1>3

\* Texts that begin with the same digits.
LEMMA Lead ==
  ASSUME NEW m \in Nat, NEW s, NEW t, NEW f, NEW g,
         ReadsDigits(f, s, m), ReadsDigits(g, t, m), \A i \in 1..m : s[i] = t[i]
  PROVE  f[m] = g[m]
<1>1. \A i \in 0..m : i + 1 \in 0..m => s[i + 1] = t[i + 1]
  OBVIOUS
<1>2. Alike(m, f, g)
  BY <1>1 DEF ReadsDigits, Alike
<1>3. \A i \in 0..m : f[i] = g[i]
  BY <1>2, Agree
<1> QED
  BY <1>3

\* What j more digits add to the first a of them, and which half that is of all
\* they could add.
Remains(f, s, a, j, r) ==
  /\ r \in Nat /\ r < Ten(j) /\ f[a + j] = f[a] * Ten(j) + r
  /\ j > 0 => (DigitValue(s[a + 1]) >= 5 <=> 2 * r >= Ten(j))
  /\ j > 0 => \E h \in Nat : Ten(j) = 10 * h

LEMMA Rest ==
  ASSUME NEW s, NEW f, NEW a \in Nat, NEW m \in Nat, ReadsDigits(f, s, a + m),
         \A i \in 1..(a + m) : DigitValue(s[i]) \in 0..9
  PROVE  \E r \in Nat : Remains(f, s, a, m, r)
<1> DEFINE T == {j \in 0..m : \E r \in Nat : Remains(f, s, a, j, r)}
<1>1. 0 \in T
  <2>1. f[a] \in Nat
    <3>1. a \in 0..(a + m)
      OBVIOUS
    <3> QED
      BY <3>1 DEF ReadsDigits
  <2>2. Remains(f, s, a, 0, 0)
    <3>1. a + 0 = a /\ f[a] * 1 + 0 = f[a]
      BY <2>1
    <3> QED
      BY <3>1, TenIs DEF Remains
  <2> QED
    BY <2>2
<1>2. ASSUME NEW j \in 0..m, j + 1 \in 0..m, NEW r \in Nat, Remains(f, s, a, j, r)
      PROVE  \E x \in Nat : Remains(f, s, a, j + 1, x)
  <2> DEFINE v == DigitValue(s[(a + j) + 1])
             b == f[a]
             c == Ten(j)
  <2>1. j \in Nat /\ a + j \in 0..(a + m) /\ (a + j) + 1 \in 0..(a + m)
        /\ (a + j) + 1 \in 1..(a + m) /\ a + (j + 1) = (a + j) + 1 /\ a \in 0..(a + m)
    BY <1>2
  <2>2. f[(a + j) + 1] = 10 * f[a + j] + v /\ v \in 0..9 /\ b \in Nat
    BY <2>1 DEF ReadsDigits
  <2>3. /\ f[a + j] = b * c + r /\ r < c
        /\ j > 0 => (DigitValue(s[a + 1]) >= 5 <=> 2 * r >= c)
        /\ j > 0 => \E h \in Nat : c = 10 * h
    BY <1>2 DEF Remains
  <2>4. c \in Nat \ {0} /\ Ten(j + 1) = 10 * c
    BY <2>1, TenIs
  <2>5. b * (10 * c) = 10 * (b * c) /\ b * c \in Nat
    <3> HIDE DEF b, c
    <3> QED
      BY <2>2, <2>4, TenTimes
  <2> DEFINE x == 10 * r + v
  <2>6. f[a + (j + 1)] = b * Ten(j + 1) + x
    <3> DEFINE k == b * c
    <3> HIDE DEF v, b, c, k
    <3>1. b * (10 * c) = 10 * k /\ f[a + (j + 1)] = 10 * (k + r) + v /\ k \in Nat
      BY <2>1, <2>2, <2>3, <2>5 DEF k
    <3> QED
      BY <2>2, <2>4, <3>1
  <2>7. x \in Nat /\ x < Ten(j + 1)
    <3> HIDE DEF v, c
    <3> QED
      BY <2>2, <2>3, <2>4
  <2>8. DigitValue(s[a + 1]) >= 5 <=> 2 * x >= Ten(j + 1)
    <3>1. CASE j = 0
      <4>1. c = 1 /\ r = 0 /\ v = DigitValue(s[a + 1])
        <5>1. c = 1 /\ a + j = a
          BY <3>1, TenIs
        <5>2. r = 0
          BY <2>3, <5>1
        <5> QED
          BY <5>1, <5>2
      <4> HIDE DEF v, c
      <4> QED
        BY <2>2, <2>4, <4>1
    <3>2. CASE j > 0
      <4>1. PICK h \in Nat : c = 10 * h
        BY <2>3, <3>2
      <4>2. 2 * r >= c <=> 2 * x >= 10 * c
        <5> HIDE DEF v, c
        <5> QED
          BY <2>2, <2>4, <4>1
      <4> QED
        BY <2>3, <2>4, <3>2, <4>2
    <3> QED
      BY <2>1, <3>1, <3>2
  <2>9. Remains(f, s, a, j + 1, x)
    BY <2>4, <2>6, <2>7, <2>8 DEF Remains
  <2> QED
    BY <2>7, <2>9
<1>3. \A j \in 0..m : j \in T /\ j + 1 \in 0..m => j + 1 \in T
  BY <1>2
<1> HIDE DEF T
<1>4. \A j \in 0..m : j \in T
  BY <1>1, <1>3, UpTo
<1> QED
  BY <1>4 DEF T

\* Zeros after the first a digits.
ZerosAfter(s, a, n) == \A i \in 1..n : i > a => s[i] = "0"

\* Appending m zeros multiplies by a power of ten.
Shifted(f, a, m) == f[a + m] = f[a] * Ten(m)

LEMMA Zeros ==
  ASSUME NEW s, NEW f, NEW a \in Nat, NEW m \in Nat, ReadsDigits(f, s, a + m),
         ZerosAfter(s, a, a + m)
  PROVE  Shifted(f, a, m)
<1> DEFINE T == {j \in 0..m : f[a + j] = f[a] * Ten(j)}
<1>0. f[a] \in Nat
  <2>1. a \in 0..(a + m)
    OBVIOUS
  <2> QED
    BY <2>1 DEF ReadsDigits
<1>1. 0 \in T
  <2>1. a + 0 = a /\ f[a] * 1 = f[a]
    BY <1>0
  <2> QED
    BY <2>1, TenIs
<1>2. ASSUME NEW j \in 0..m, j + 1 \in 0..m, f[a + j] = f[a] * Ten(j)
      PROVE  f[a + (j + 1)] = f[a] * Ten(j + 1)
  <2>1. j \in Nat /\ a + j \in 0..(a + m) /\ (a + j) + 1 \in 0..(a + m)
        /\ (a + j) + 1 \in 1..(a + m) /\ (a + j) + 1 > a /\ a + (j + 1) = (a + j) + 1
    BY <1>2
  <2>2. f[(a + j) + 1] = 10 * f[a + j] + DigitValue(s[(a + j) + 1]) /\ f[a + j] \in Nat
    BY <2>1 DEF ReadsDigits
  <2>3. DigitValue(s[(a + j) + 1]) = 0
    BY <2>1, DigitsAre DEF ZerosAfter
  <2>4. Ten(j) \in Nat /\ Ten(j + 1) = 10 * Ten(j)
    BY <2>1, TenIs
  <2>5. f[a] * (10 * Ten(j)) = 10 * (f[a] * Ten(j))
    BY <1>0, <2>4, TenTimes
  <2> QED
    BY <1>2, <2>1, <2>2, <2>3, <2>4, <2>5
<1>3. \A j \in 0..m : j \in T /\ j + 1 \in 0..m => j + 1 \in T
  BY <1>2
<1> HIDE DEF T
<1>4. \A j \in 0..m : j \in T
  BY <1>1, <1>3, UpTo
<1> QED
  BY <1>4 DEF T, Shifted

LEMMA HalfUpIs ==
  ASSUME NEW num \in Nat, NEW den \in Nat, den > 0, NEW k \in Nat,
         2 * (den * k) <= 2 * num + den, 2 * num < 2 * (den * k) + den
  PROVE  HalfUp(num, den) = k
<1> DEFINE q == HalfUp(num, den)
<1>1. /\ q \in Nat
      /\ 2 * (den * q) <= 2 * num + den
      /\ 2 * num < 2 * (den * q) + den
  BY HalfUpNearest
<1> HIDE DEF q
<1>2. ~(k + 1 <= q)
  <2>1. SUFFICES ASSUME k + 1 <= q PROVE FALSE
    OBVIOUS
  <2>2. den * (k + 1) <= den * q /\ den * q \in Nat
    BY <1>1, <2>1, TimesMonotone, k + 1 \in Nat
  <2>3. den * (k + 1) = den * k + den /\ den * k \in Nat
    OBVIOUS
  <2> QED
    BY <1>1, <2>2, <2>3
<1>3. ~(q + 1 <= k)
  <2>1. SUFFICES ASSUME q + 1 <= k PROVE FALSE
    OBVIOUS
  <2>2. den * (q + 1) <= den * k /\ den * k \in Nat
    BY <1>1, <2>1, TimesMonotone, q + 1 \in Nat
  <2>3. den * (q + 1) = den * q + den /\ den * q \in Nat
    BY <1>1
  <2> QED
    BY <1>1, <2>2, <2>3
<1> QED
  BY <1>1, <1>2, <1>3 DEF q

LEMMA Associates ==
  ASSUME NEW a \in Nat, NEW b \in Nat, NEW c \in Nat
  PROVE  a * (b * c) = (a * b) * c /\ a * b = b * a /\ a * b \in Nat
OBVIOUS

LEMMA TimesLess ==
  ASSUME NEW k \in Nat, k > 0, NEW a \in Nat, NEW b \in Nat, a < b
  PROVE  k * a < k * b /\ k * a \in Nat /\ k * b \in Nat
<1>1. k * (a + 1) <= k * b /\ k * b \in Nat
  BY TimesMonotone, a + 1 \in Nat, a + 1 <= b
<1>2. k * (a + 1) = k * a + k /\ k * a \in Nat
  OBVIOUS
<1> QED
  BY <1>1, <1>2

\* A quotient of products is rounded as the quotient of the factors they share not.
LEMMA HalfUpTimes ==
  ASSUME NEW a \in Nat, NEW b \in Nat, b > 0, NEW c \in Nat, c > 0
  PROVE  HalfUp(c * a, c * b) = HalfUp(a, b)
<1> DEFINE k == HalfUp(a, b)
           x == b * k
<1>1. k \in Nat /\ 2 * x <= 2 * a + b /\ 2 * a < 2 * x + b
  BY HalfUpNearest
<1> HIDE DEF k
<1>2. x \in Nat
  BY <1>1, TimesNat
<1>3. c * (b * k) = (c * b) * k
  BY <1>1, Associates
<1> HIDE DEF x
<1>4. c * a \in Nat /\ c * b \in Nat /\ c * x \in Nat /\ c * b > 0
  BY <1>2, TimesNat, TimesLess, 0 \in Nat, c * 0 = 0
<1>5. c * (2 * x) <= c * (2 * a + b)
  BY <1>1, <1>2, TimesMonotone, 2 * x \in Nat, 2 * a + b \in Nat
<1>6. c * (2 * a) < c * (2 * x + b)
  BY <1>1, <1>2, TimesLess, 2 * a \in Nat, 2 * x + b \in Nat
<1>7. c * (2 * x) = 2 * (c * x) /\ c * (2 * a) = 2 * (c * a)
  BY <1>2
<1>8. c * (2 * a + b) = 2 * (c * a) + c * b /\ c * (2 * x + b) = 2 * (c * x) + c * b
  <2>1. c * (2 * a + b) = c * (2 * a) + c * b /\ c * (2 * x + b) = c * (2 * x) + c * b
    BY <1>2, Distributes, c \in Int, b \in Int, 2 * a \in Int, 2 * x \in Int
  <2> QED
    BY <1>7, <2>1
<1> DEFINE d == c * b
           n == c * a
           y == c * x
<1>9. d * k = y
  BY <1>3 DEF x
<1> HIDE DEF d, n, y
<1>10. 2 * y <= 2 * n + d /\ 2 * n < 2 * y + d /\ d \in Nat /\ n \in Nat /\ d > 0
  BY <1>4, <1>5, <1>6, <1>7, <1>8 DEF d, n, y
<1>11. HalfUp(n, d) = k
  BY <1>1, <1>9, <1>10, HalfUpIs
<1> QED
  BY <1>11 DEF d, n, k

\* A quotient and what remains, rounded by the half that the remainder is in.
LEMMA HalfUpRemainder ==
  ASSUME NEW q \in Nat, NEW u \in Nat, u > 0, NEW r \in Nat, r < u
  PROVE  HalfUp(q * u + r, u) = q + (IF 2 * r >= u THEN 1 ELSE 0)
<1> DEFINE x == u * q
           n == q * u + r
<1>1. x \in Nat /\ q * u = x
  BY Associates
<1>2. u * (q + 1) = x + u
  OBVIOUS
<1> HIDE DEF x
<1>3. n = x + r /\ n \in Nat
  BY <1>1
<1> HIDE DEF n
<1>4. CASE 2 * r >= u
  <2>1. 2 * (u * (q + 1)) <= 2 * n + u /\ 2 * n < 2 * (u * (q + 1)) + u
    BY <1>1, <1>2, <1>3, <1>4
  <2>2. HalfUp(n, u) = q + 1
    BY <1>3, <2>1, HalfUpIs, q + 1 \in Nat
  <2> QED
    BY <1>4, <2>2 DEF n
<1>5. CASE ~(2 * r >= u)
  <2>1. 2 * (u * q) <= 2 * n + u /\ 2 * n < 2 * (u * q) + u
    BY <1>1, <1>3, <1>5 DEF x
  <2>2. HalfUp(n, u) = q
    BY <1>3, <2>1, HalfUpIs
  <2> QED
    BY <1>5, <2>2 DEF n
<1> QED
  BY <1>4, <1>5

Padded(frac, scale) == [i \in 1..scale |-> IF i <= Len(frac) THEN frac[i] ELSE "0"]
Scaled(t, scale) == WholePart(t) \o Padded(FracPart(t), scale)

LEMMA DigitsBy ==
  ASSUME NEW S, NEW s \in Seq(S)
  PROVE  IsDigits(s) <=> \A i \in 1..Len(s) : s[i] \in ToSet(Digits)
<1> DEFINE D == ToSet(Digits)
<1>1. DOMAIN s = 1..Len(s)
  OBVIOUS
<1>2. IsDigits(s) <=> ToSet(s) \subseteq D
  BY Zenon DEF IsDigits
<1> HIDE DEF D
<1>3. ToSet(s) \subseteq D <=> \A i \in 1..Len(s) : s[i] \in D
  BY <1>1 DEF ToSet
<1> QED
  BY <1>2, <1>3 DEF D

\* What the code reads the digits of: those of the text, cut or filled up to scale.
LEMMA ScaledIs ==
  ASSUME NEW S, "0" \in S, NEW t \in Seq(S), IsDigits(Uncut(t)), NEW scale \in Nat
  PROVE  LET W == Len(WholePart(t))
             L == Len(FracPart(t))
         IN  /\ W \in Nat /\ L \in Nat /\ Len(Uncut(t)) = W + L
             /\ Scaled(t, scale) \in Seq(S) /\ Len(Scaled(t, scale)) = W + scale
             /\ IsDigits(Scaled(t, scale))
             /\ \A i \in 1..(W + scale) :
                  Scaled(t, scale)[i] = IF i <= W + L THEN Uncut(t)[i] ELSE "0"
             /\ \A i \in 1..L : FracPart(t)[i] = Uncut(t)[W + i]
<1> DEFINE w == WholePart(t)
           f == FracPart(t)
           k == Padded(f, scale)
           d == Uncut(t)
           x == Scaled(t, scale)
           W == Len(w)
           L == Len(f)
           D == ToSet(Digits)
<1>1. w \in Seq(S) /\ f \in Seq(S)
  BY CutIs
<1>2. d = w \o f /\ x = w \o k
  BY DEF Uncut, Scaled
<1>3. \A i \in 1..Len(d) : d[i] \in D
  BY UncutIs, DigitsBy
<1> HIDE DEF w, f, d, x, D
<1>4. L \in Nat /\ W \in Nat /\ \A i \in 1..L : f[i] \in S
  BY <1>1
<1>5. k \in Seq(S) /\ Len(k) = scale /\ \A i \in 1..scale : k[i] = IF i <= L THEN f[i] ELSE "0"
  <2> HIDE DEF L
  <2>1. \A i \in 1..scale : i <= L => i \in 1..L
    BY <1>4
  <2>2. k \in [1..scale -> S]
    BY <1>4, <2>1 DEF Padded, L
  <2>3. \A i \in 1..scale : k[i] = IF i <= L THEN f[i] ELSE "0"
    BY DEF Padded, L
  <2> HIDE DEF k
  <2>4. k \in Seq(S) /\ Len(k) = scale
    BY <2>2
  <2> QED
    BY <2>3, <2>4
<1> HIDE DEF k
<1>6. /\ w \o f \in Seq(S) /\ Len(w \o f) = W + L
      /\ \A i \in 1..W : (w \o f)[i] = w[i]
      /\ \A i \in 1..L : (w \o f)[W + i] = f[i]
  BY <1>1, JoinIs
<1>7. /\ w \o k \in Seq(S) /\ Len(w \o k) = W + scale
      /\ \A i \in 1..W : (w \o k)[i] = w[i]
      /\ \A i \in 1..scale : (w \o k)[W + i] = k[i]
  <2>1. k \in Seq(S)
    BY <1>5
  <2>2. /\ w \o k \in Seq(S) /\ Len(w \o k) = W + Len(k)
        /\ \A i \in 1..W : (w \o k)[i] = w[i]
        /\ \A i \in 1..Len(k) : (w \o k)[W + i] = k[i]
    BY <1>1, <2>1, JoinIs
  <2> QED
    BY <1>5, <2>2
<1> HIDE DEF W, L
<1>8. ASSUME NEW i \in 1..(W + scale)
      PROVE  x[i] = IF i <= W + L THEN d[i] ELSE "0"
  <2>1. CASE i <= W
    <3>1. i \in 1..W /\ i <= W + L
      BY <1>4, <2>1
    <3> QED
      BY <1>2, <1>6, <1>7, <3>1
  <2>2. CASE i > W
    <3> DEFINE j == i - W
    <3>1. j \in 1..scale /\ W + j = i /\ (j <= L <=> i <= W + L) /\ (j <= L => j \in 1..L)
      BY <1>4, <2>2
    <3> HIDE DEF j
    <3>2. x[i] = IF j <= L THEN f[j] ELSE "0"
      BY <1>2, <1>5, <1>7, <3>1
    <3>3. j <= L => d[i] = f[j]
      BY <1>2, <1>6, <3>1
    <3> QED
      BY <3>1, <3>2, <3>3
  <2> QED
    BY <1>4, <2>1, <2>2
<1>9. Len(d) = W + L /\ x \in Seq(S) /\ Len(x) = W + scale
  BY <1>2, <1>6, <1>7
<1>10. \A i \in 1..L : f[i] = d[W + i]
  BY <1>2, <1>6
<1>11. IsDigits(x)
  <2>1. ASSUME NEW i \in 1..(W + scale) PROVE x[i] \in D
    <3>1. CASE i <= W + L
      <4>1. i \in 1..Len(d)
        BY <1>9, <3>1
      <4> QED
        BY <1>3, <1>8, <3>1, <4>1
    <3>2. CASE ~(i <= W + L)
      BY <1>8, <3>2, DigitsAre DEF D
    <3> QED
      BY <3>1, <3>2
  <2>2. \A i \in 1..Len(x) : x[i] \in D
    BY <1>9, <2>1
  <2> QED
    BY <1>9, <2>2, DigitsBy DEF D
<1> QED
  BY <1>4, <1>8, <1>9, <1>10, <1>11 DEF W, L, w, f, d, x

\* The code rounds by one digit what the rule rounds by all of them.
LEMMA MinorIs ==
  ASSUME NEW S, "0" \in S, NEW t \in Seq(S), IsDigits(Uncut(t)), NEW scale \in Nat
  PROVE  ParseInt(Scaled(t, scale)) + (IF RoundUp(FracPart(t), scale) THEN 1 ELSE 0)
           = HalfUp(ParseInt(Uncut(t)) * Ten(scale), Ten(Len(FracPart(t))))
<1> DEFINE d == Uncut(t)
           x == Scaled(t, scale)
           W == Len(WholePart(t))
           L == Len(FracPart(t))
           f == ReadTo(d)
           g == ReadTo(x)
           n == ParseInt(d)
           one == IF RoundUp(FracPart(t), scale) THEN 1 ELSE 0
<1>1. /\ W \in Nat /\ L \in Nat /\ Len(d) = W + L
      /\ x \in Seq(S) /\ Len(x) = W + scale /\ IsDigits(x)
      /\ \A i \in 1..(W + scale) : x[i] = IF i <= W + L THEN d[i] ELSE "0"
      /\ \A i \in 1..L : FracPart(t)[i] = d[W + i]
  BY ScaledIs
<1>2. d \in Seq(S)
  BY UncutIs
<1>3. /\ ReadsDigits(f, d, W + L) /\ n = f[W + L]
      /\ \A i \in 1..(W + L) : DigitValue(d[i]) \in 0..9
  BY <1>1, <1>2, ReadToIs
<1>4. ReadsDigits(g, x, W + scale) /\ ParseInt(x) = g[W + scale]
  BY <1>1, ReadToIs
<1>5. RoundUp(FracPart(t), scale) <=> L > scale /\ DigitValue(d[W + (scale + 1)]) >= 5
  <2>1. ASSUME L > scale PROVE FracPart(t)[scale + 1] = d[W + (scale + 1)]
    <3>1. scale + 1 \in 1..L
      BY <1>1, <2>1
    <3> QED
      BY <1>1, <3>1
  <2> QED
    BY <2>1 DEF RoundUp
<1> HIDE DEF d, x, W, L, f, g, n
<1>6. CASE L > scale
  <2> DEFINE a == W + scale
             m == L - scale
             q == f[a]
             u == Ten(m)
             c == Ten(scale)
  <2>1. a \in Nat /\ m \in Nat /\ m > 0 /\ a + m = W + L /\ a + 1 = W + (scale + 1)
    BY <1>1, <1>6
  <2>2. PICK r \in Nat : Remains(f, d, a, m, r)
    <3> HIDE DEF a, m
    <3> QED
      BY <1>3, <2>1, Rest
  <2>3. n = q * u + r /\ r < u /\ (DigitValue(d[a + 1]) >= 5 <=> 2 * r >= u)
    BY <1>3, <2>1, <2>2 DEF Remains
  <2>4. RoundUp(FracPart(t), scale) <=> 2 * r >= u
    BY <1>5, <1>6, <2>1, <2>3
  <2>5. q \in Nat
    <3>1. a \in 0..(W + L)
      BY <1>1, <2>1
    <3> QED
      BY <1>3, <3>1 DEF ReadsDigits
  <2>6. g[a] = q
    <3>1. \A i \in 1..a : d[i] = x[i]
      BY <1>1, <1>6
    <3>2. ReadsDigits(f, d, a)
      <4>1. \A i \in 0..a : i \in 0..(W + L)
        BY <1>1, <1>6
      <4> QED
        BY <1>3, <4>1 DEF ReadsDigits
    <3> HIDE DEF a
    <3>3. f[a] = g[a]
      BY <1>4, <2>1, <3>1, <3>2, Lead DEF a
    <3> QED
      BY <3>3
  <2>7. u \in Nat /\ u > 0 /\ c \in Nat /\ c > 0 /\ Ten(L) = c * u
    <3>1. L = scale + m
      BY <1>1
    <3> HIDE DEF m
    <3>2. Ten(scale + m) = c * u
      BY <2>1, TenSum
    <3>3. u \in Nat \ {0} /\ c \in Nat \ {0}
      BY <2>1, TenIs
    <3> HIDE DEF u, c
    <3> QED
      BY <3>1, <3>2, <3>3
  <2> HIDE DEF a, m, q, u, c
  <2>8. n \in Nat
    BY <2>3, <2>5, <2>7, TimesNat
  <2>9. n * c = c * n
    BY <2>7, <2>8, Associates
  <2>10. HalfUp(c * n, c * u) = HalfUp(n, u)
    BY <2>7, <2>8, HalfUpTimes
  <2>11. HalfUp(n, u) = q + (IF 2 * r >= u THEN 1 ELSE 0)
    BY <2>2, <2>3, <2>5, <2>7, HalfUpRemainder
  <2>12. ParseInt(x) = q
    BY <1>4, <2>6 DEF a
  <2>13. ParseInt(x) + one = HalfUp(n * c, Ten(L))
    BY <2>4, <2>7, <2>9, <2>10, <2>11, <2>12
  <2> QED
    BY <2>13 DEF c, n, L, x, d
<1>7. CASE ~(L > scale)
  <2> DEFINE a == W + L
             m == scale - L
             v == Ten(m)
             c == Ten(L)
  <2>1. a \in Nat /\ m \in Nat /\ a + m = W + scale /\ scale = L + m
    BY <1>1, <1>7
  <2>2. one = 0
    BY <1>5, <1>7
  <2>3. g[a + m] = g[a] * v
    <3>1. ZerosAfter(x, a, a + m)
      BY <1>1, <2>1 DEF ZerosAfter
    <3>2. ReadsDigits(g, x, a + m)
      BY <1>4, <2>1
    <3>3. a \in Nat /\ m \in Nat
      BY <2>1
    <3> HIDE DEF a, m, v
    <3>4. Shifted(g, a, m)
      BY <3>1, <3>2, <3>3, Zeros
    <3> QED
      BY <3>4 DEF Shifted, v
  <2>4. f[a] = g[a]
    <3>1. \A i \in 1..a : d[i] = x[i]
      BY <1>1, <2>1
    <3>2. ReadsDigits(g, x, a)
      <4>1. \A i \in 0..a : i \in 0..(W + scale)
        BY <1>1, <2>1
      <4> QED
        BY <1>4, <4>1 DEF ReadsDigits
    <3>3. ReadsDigits(f, d, a)
      BY <1>3
    <3> HIDE DEF a
    <3> QED
      BY <2>1, <3>1, <3>2, <3>3, Lead
  <2>5. n \in Nat
    <3>1. a \in 0..(W + L)
      BY <2>1
    <3> QED
      BY <1>3, <3>1 DEF ReadsDigits
  <2>6. v \in Nat /\ c \in Nat /\ c > 0 /\ Ten(scale) = c * v
    <3> HIDE DEF m
    <3>1. Ten(L + m) = c * v
      BY <1>1, <2>1, TenSum
    <3>2. v \in Nat \ {0} /\ c \in Nat \ {0}
      BY <1>1, <2>1, TenIs
    <3> HIDE DEF v, c
    <3> QED
      BY <2>1, <3>1, <3>2
  <2>7. ParseInt(x) = n * v
    BY <1>3, <1>4, <2>1, <2>3, <2>4
  <2> HIDE DEF a, m, v, c
  <2>8. n * (c * v) = c * (n * v) /\ n * v \in Nat
    <3>1. n * (c * v) = (n * c) * v /\ n * c = c * n /\ c * (n * v) = (c * n) * v
      BY <2>5, <2>6, Associates
    <3> QED
      BY <2>5, <2>6, <3>1, TimesNat
  <2>9. HalfUp(c * (n * v), c) = n * v
    BY <2>6, <2>8, HalfUpExact
  <2>10. ParseInt(x) + one = HalfUp(n * Ten(scale), c)
    BY <2>2, <2>6, <2>7, <2>8, <2>9
  <2> QED
    BY <2>10 DEF c, n, L, x, d
<1> QED
  BY <1>6, <1>7

LEMMA NormalizedType ==
  ASSUME NEW S, Dot \in S, NEW s \in Seq(S)
  PROVE  Normalized(s) \in Seq(S)
<1>1. CASE Comma \in ToSet(s)
  <2>1. /\ TextTo(s) \in [0..Len(s) -> Seq(S)] /\ Normalized(s) = TextTo(s)[Len(s)]
    BY <1>1, NormalizedIs
  <2>2. Len(s) \in 0..Len(s)
    OBVIOUS
  <2> QED
    BY <2>1, <2>2
<1>2. CASE Comma \notin ToSet(s)
  BY <1>2 DEF Normalized
<1> QED
  BY <1>1, <1>2

\* What DecimalToMinor makes of a text in its normal form.
LEMMA DecimalToMinorIs ==
  ASSUME NEW s, NEW scale
  PROVE  LET t == Normalized(Unsigned(s))
             minor == ParseInt(Scaled(t, scale)) + (IF RoundUp(FracPart(t), scale) THEN 1 ELSE 0)
         IN  DecimalToMinor(s, scale)
               = IF Uncut(t) = << >> \/ ~IsDigits(Uncut(t)) \/ minor > MaxInt THEN Invalid
                 ELSE IF s[1] = Minus THEN -minor ELSE minor
<1> DEFINE t == Normalized(Unsigned(s))
           minor == ParseInt(Scaled(t, scale)) + (IF RoundUp(FracPart(t), scale) THEN 1 ELSE 0)
<1>1. DecimalToMinor(s, scale)
        = CASE Uncut(t) = << >> -> Invalid
            [] ~IsDigits(Uncut(t)) -> Invalid
            [] OTHER -> IF minor > MaxInt THEN Invalid
                        ELSE IF s[1] = Minus THEN -minor ELSE minor
  BY Zenon DEF DecimalToMinor, Uncut, WholePart, FracPart, Scaled, Padded
<1> HIDE DEF t, minor
<1>2. DecimalToMinor(s, scale)
        = IF Uncut(t) = << >> \/ ~IsDigits(Uncut(t)) \/ minor > MaxInt THEN Invalid
          ELSE IF s[1] = Minus THEN -minor ELSE minor
  BY <1>1
<1> QED
  BY <1>2 DEF t, minor

\* The code behaviour: DecimalToMinor.  Any text becomes the number it denotes by the
\* places of its digits, rounded once to the scale asked for, halves away from zero, and
\* no text that denotes no number, or one too large, becomes one.
THEOREM DecimalToMinorDenotes ==
  ASSUME NEW S, NEW s \in Seq(S), NEW scale \in Nat
  PROVE  DecimalToMinor(s, scale) = Denoted(s, scale)
<1> DEFINE C == S \cup {Dot, "0"}
           t == Normalized(Unsigned(s))
           R == ReadOff(t, Dot, {})
           d == Uncut(t)
           minor == ParseInt(Scaled(t, scale)) + (IF RoundUp(FracPart(t), scale) THEN 1 ELSE 0)
           amount == HalfUp(Numerator(s) * Ten(scale), Ten(Places(s)))
<1>1. s \in Seq(C) /\ Dot \in C /\ "0" \in C
  OBVIOUS
<1> HIDE DEF C
<1>2. t \in Seq(C)
  BY <1>1, CommaUnsigned, NormalizedType
<1>3. /\ R \in Tally /\ Numerator(s) = R.num /\ Places(s) = R.places
      /\ IsNumber(s) <=> R.digits # 0 /\ R.marks <= 1 /\ R.odds = 0
  BY <1>1, NumberIs
<1>4. Reads(R, t, Dot, {})
  BY <1>2, MarksAre, ReadsIs
<1> HIDE DEF t, R
<1>5. IsNumber(s) <=> d # << >> /\ IsDigits(d)
  BY <1>2, <1>3, <1>4, DigitsIff
<1>6. DecimalToMinor(s, scale)
        = IF d = << >> \/ ~IsDigits(d) \/ minor > MaxInt THEN Invalid
          ELSE IF s[1] = Minus THEN -minor ELSE minor
  BY DecimalToMinorIs DEF t
<1>7. ASSUME IsDigits(d) PROVE minor = amount
  <2>1. Numerator(s) = ParseInt(d) /\ Places(s) = Len(FracPart(t))
    BY <1>2, <1>3, <1>7, ValueIs DEF R
  <2>2. minor = HalfUp(ParseInt(d) * Ten(scale), Ten(Len(FracPart(t))))
    BY <1>1, <1>2, <1>7, MinorIs
  <2> QED
    BY <2>1, <2>2
<1>8. Denoted(s, scale)
        = IF ~IsNumber(s) \/ amount > MaxInt THEN Invalid
          ELSE IF s[1] = Minus THEN -amount ELSE amount
  BY DEF Denoted
<1> HIDE DEF d, minor, amount
<1> QED
  BY <1>5, <1>6, <1>7, <1>8
=============================================================================
