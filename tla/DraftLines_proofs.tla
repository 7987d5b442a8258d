--------------------------- MODULE DraftLines_proofs ---------------------------
(***************************************************************************)
(* Proofs about the lines of a draft, for every value of the constants.    *)
(*                                                                         *)
(* The checks compare a sum over the lines of a product with the stock the *)
(* seller was shown.  The library sums by folding over a set: that such a  *)
(* fold exists and is a whole number is proved from a least counterexample *)
(* (WFMin), which needs no induction rule with an operator as parameter.   *)
(***************************************************************************)
EXTENDS DraftLines, FiniteSetTheorems, WellFoundedInduction, TLAPS

----------------------------------------------------------------------------
(* Of numbers, and of sums over a set.                                     *)

\* Of some natural numbers, one is the least.
LEMMA Least ==
    ASSUME NEW A \in SUBSET Nat, A # {}
    PROVE  \E m \in A : \A k \in A : m <= k
  <1>0. \A k \in A : k \in Nat
    OBVIOUS
  <1>1. PICK n \in A : TRUE
    OBVIOUS
  <1>2. \A m, k \in Nat : (m <= k => 0..m \subseteq 0..k) /\ (k < m => m \in 0..m /\ m \notin 0..k)
    OBVIOUS
  <1>3. PICK S : S = 0..n
    OBVIOUS
  <1>4. PICK T : T = {0..m : m \in {k \in A : k <= n}}
    OBVIOUS
  <1>5. IsWellFoundedOn(StrictSubsetOrdering(S), SUBSET S)
    <2>1. IsFiniteSet(S)
      BY <1>0, <1>3, FS_Interval
    <2> QED  BY <2>1, FS_StrictSubsetOrderingWellFounded, FS_FiniteSubsetsOfFinite
  <1>6. T \subseteq SUBSET S
    <2>1. ASSUME NEW m \in A, m <= n  PROVE 0..m \subseteq S
      BY <1>0, <1>2, <1>3, <2>1, Zenon
    <2> QED  BY <1>4, <2>1, Zenon
  <1>7. T # {}
    <2>1. n <= n
      BY <1>0
    <2> QED  BY <1>4, <2>1, Zenon
  <1>8. PICK x \in T : \A y \in T : <<y, x>> \notin StrictSubsetOrdering(S)
    BY <1>5, <1>6, <1>7, WFMin
  <1>9. PICK m \in A : m <= n /\ x = 0..m
    BY <1>4, <1>8, Zenon
  <1>10. ASSUME NEW k \in A, k < m  PROVE FALSE
    <2>1. k <= n /\ k <= m
      BY <1>0, <1>9, <1>10
    <2>2. 0..k \in T
      BY <1>4, <2>1, Zenon
    <2>3. 0..k \subseteq x /\ 0..k # x
      BY <1>0, <1>2, <1>9, <1>10, <2>1, Zenon
    <2>4. <<0..k, x>> \in StrictSubsetOrdering(S)
      <3>1. 0..k \in SUBSET S /\ x \in SUBSET S
        BY <1>6, <1>8, <2>2, Zenon
      <3> QED  BY <2>3, <3>1, Zenon DEF StrictSubsetOrdering
    <2> QED  BY <1>8, <2>2, <2>4, Zenon
  <1>11. \A k \in A : m <= k
    BY <1>0, <1>9, <1>10
  <1> QED  BY <1>9, <1>11

\* What adds up over a set, one element after the other.
Adds(iter, S) ==
    iter = [s \in SUBSET S |->
              IF s = {} THEN 0
              ELSE Quantity(CHOOSE x \in s : TRUE) + iter[s \ {CHOOSE x \in s : TRUE}]]

\* The sum over a set is such an iteration, read at the whole of it.
LEMMA SumIs ==
    ASSUME NEW S
    PROVE  MapThenSumSet(Quantity, S) = (CHOOSE iter : Adds(iter, S))[S]
  BY DEF MapThenSumSet, MapThenFoldSet, Adds

\* What an iteration adds for one set.
Added(iter, s) ==
    IF s = {} THEN 0
    ELSE Quantity(CHOOSE x \in s : TRUE) + iter[s \ {CHOOSE x \in s : TRUE}]

\* Removing the element that is chosen leaves one less.
LEMMA OneLess ==
    ASSUME NEW S, IsFiniteSet(S), NEW s \in SUBSET S, s # {}
    PROVE  LET c == CHOOSE x \in s : TRUE
           IN  /\ c \in s /\ s \ {c} \in SUBSET S /\ Cardinality(s) \in Nat \ {0}
               /\ Cardinality(s \ {c}) = Cardinality(s) - 1
  <1>1. (CHOOSE x \in s : TRUE) \in s
    OBVIOUS
  <1>2. IsFiniteSet(s)
    BY FS_Subset
  <1>3. Cardinality(s) \in Nat /\ Cardinality(s) # 0
    BY <1>2, FS_CardinalityType, FS_EmptySet
  <1> QED  BY <1>1, <1>2, <1>3, FS_RemoveElement

\* An iteration exists, one element after the other.
LEMMA IterationExists ==
    ASSUME NEW S, IsFiniteSet(S), \A i \in S : Quantity(i) \in Int
    PROVE  \E iter : Adds(iter, S)
  <1> DEFINE Upto(n) == \E g \in [SUBSET S -> Int] :
                           \A s \in SUBSET S : Cardinality(s) <= n => g[s] = Added(g, s)
             A == {n \in Nat : ~Upto(n)}
  <1>1. \A s \in SUBSET S : IsFiniteSet(s) /\ Cardinality(s) \in Nat /\ Cardinality(s) <= Cardinality(S)
    BY FS_Subset, FS_CardinalityType
  <1>2. Upto(0)
    <2>1. PICK g : g = [s \in SUBSET S |-> 0]
      OBVIOUS
    <2>2. \A s \in SUBSET S : Cardinality(s) <= 0 => s = {}
      BY <1>1, FS_EmptySet
    <2> QED  BY <2>1, <2>2 DEF Added
  <1>3. ASSUME NEW n \in Nat, Upto(n)  PROVE Upto(n + 1)
    <2>1. PICK g \in [SUBSET S -> Int] :
             \A s \in SUBSET S : Cardinality(s) <= n => g[s] = Added(g, s)
      BY <1>3
    <2>2. PICK h : h = [s \in SUBSET S |-> Added(g, s)]
      OBVIOUS
    <2>3. ASSUME NEW s \in SUBSET S  PROVE Added(g, s) \in Int
      <3>1. CASE s = {}
        BY <3>1 DEF Added
      <3>2. CASE s # {}
        <4>1. PICK c : c = CHOOSE x \in s : TRUE
          OBVIOUS
        <4>2. c \in S /\ g[s \ {c}] \in Int
          BY <2>1, <3>2, <4>1, OneLess
        <4>3. Added(g, s) = Quantity(c) + g[s \ {c}]
          BY <3>2, <4>1 DEF Added
        <4> QED  BY <4>2, <4>3
      <3> QED  BY <3>1, <3>2
    <2>4. ASSUME NEW s \in SUBSET S, Cardinality(s) <= n + 1, s # {}
          PROVE  h[s] = Added(h, s)
      <3>1. PICK c : c = CHOOSE x \in s : TRUE
        OBVIOUS
      <3>2. s \ {c} \in SUBSET S /\ Cardinality(s \ {c}) = Cardinality(s) - 1
            /\ Cardinality(s) \in Nat
        BY <3>1, <2>4, OneLess
      <3>3. g[s \ {c}] = h[s \ {c}]
        BY <2>1, <2>2, <2>4, <3>2
      <3> QED  BY <2>2, <2>4, <3>1, <3>3 DEF Added
    <2>5. \A s \in SUBSET S : Cardinality(s) <= n + 1 => h[s] = Added(h, s)
      BY <2>2, <2>4 DEF Added
    <2> QED  BY <2>2, <2>3, <2>5
  <1> HIDE DEF Upto
  <1>4. A = {}
    <2> SUFFICES ASSUME A # {} PROVE FALSE
      OBVIOUS
    <2>1. PICK m \in A : \A k \in A : m <= k
      BY Least
    <2>2. m # 0
      BY <1>2
    <2>3. m - 1 \in Nat /\ m - 1 \notin A
      BY <2>1, <2>2
    <2> QED  BY <1>3, <2>1, <2>3
  <1>5. Upto(Cardinality(S))
    BY <1>4, FS_CardinalityType
  <1>6. PICK g \in [SUBSET S -> Int] : \A s \in SUBSET S : g[s] = Added(g, s)
    BY <1>1, <1>5 DEF Upto
  <1>7. g = [s \in SUBSET S |-> Added(g, s)]
    BY <1>6
  <1> QED  BY <1>7 DEF Adds, Added

\* The sum of whole numbers over a finite set is one.
LEMMA SumIsInt ==
    ASSUME NEW S, IsFiniteSet(S), \A i \in S : Quantity(i) \in Int
    PROVE  MapThenSumSet(Quantity, S) \in Int
  <1>1. PICK g : g = CHOOSE iter : Adds(iter, S)
    OBVIOUS
  <1>2. Adds(g, S)
    BY <1>1, IterationExists
  <1>3. \A s \in SUBSET S : g[s] = Added(g, s)
    BY <1>2 DEF Adds, Added
  <1> DEFINE A == {n \in Nat : \E s \in SUBSET S : Cardinality(s) = n /\ g[s] \notin Int}
  <1>4. A = {}
    <2> SUFFICES ASSUME A # {} PROVE FALSE
      OBVIOUS
    <2>1. PICK m \in A : \A k \in A : m <= k
      BY Least
    <2>2. PICK s \in SUBSET S : Cardinality(s) = m /\ g[s] \notin Int
      BY <2>1
    <2>3. s # {}
      <3>1. Added(g, {}) = 0
        BY DEF Added
      <3>2. g[{}] = 0
        BY <1>3, <3>1
      <3> QED  BY <2>2, <3>2
    <2>4. PICK c : c = CHOOSE x \in s : TRUE
      OBVIOUS
    <2>5. c \in s /\ s \ {c} \in SUBSET S /\ m \in Nat \ {0} /\ Cardinality(s \ {c}) = m - 1
      BY <2>2, <2>3, <2>4, OneLess
    <2>6. g[s \ {c}] \in Int
      BY <2>1, <2>5
    <2>7. g[s] = Quantity(c) + g[s \ {c}]
      BY <1>3, <2>3, <2>4 DEF Added
    <2> QED  BY <2>2, <2>5, <2>6, <2>7
  <1>5. g[S] \in Int
    BY <1>4, FS_CardinalityType
  <1> QED  BY <1>1, <1>5, SumIs

----------------------------------------------------------------------------
(* The lines of a draft.                                                   *)

\* A price that is rounded is explained by its discount.
LEMMA RoundedIs ==
    ASSUME NEW r \in Nat, NEW d \in 0..100
    PROVE  /\ Rounded(r, d) \in Nat
           /\ 2 * (100 * Rounded(r, d) - r * (100 - d)) \in -99..100
  <1> DEFINE x == 2 * r * (100 - d) + 100
  <1>1. x \in Nat
    BY SMT
  <1>2. PICK q \in Nat : q = x \div 200
    BY <1>1
  <1>3. 200 * q <= x /\ x < 200 * q + 200
    BY <1>1, <1>2
  <1> QED  BY <1>2, <1>3 DEF Rounded

\* A line whose discount explains its price.
Explained(l) ==
    /\ l \in Line
    /\ l.discount \in 0..100 =>
          2 * (100 * l.price - l.reference * (100 - l.discount)) \in -99..100

\* Such a line is a line.
LEMMA ExplainedIs == \A l : Explained(l) => l \in Line
  BY DEF Explained

\* A draft of such lines.
Sound(t) ==
    t \in Seq(Line) /\ Len(t) <= MaxLines /\ \A j \in DOMAIN t : Explained(t[j])

\* It stays one when a line is added, removed or replaced.
LEMMA SoundIs ==
    ASSUME MaxLines \in Nat, NEW s, Sound(s)
    PROVE  /\ \A l : Explained(l) /\ Len(s) < MaxLines => Sound(Append(s, l))
           /\ \A i \in DOMAIN s : Sound(RemoveAt(s, i))
           /\ \A l : \A i \in DOMAIN s : Explained(l) => Sound([s EXCEPT ![i] = l])
  <1>0. /\ s \in Seq(Line) /\ Len(s) <= MaxLines
        /\ DOMAIN s = 1..Len(s) /\ Len(s) \in Nat /\ \A j \in 1..Len(s) : Explained(s[j])
    BY DEF Sound
  <1>1. ASSUME NEW l, Explained(l), Len(s) < MaxLines  PROVE Sound(Append(s, l))
    BY <1>0, <1>1, ExplainedIs DEF Sound
  <1>2. ASSUME NEW i \in DOMAIN s  PROVE Sound(RemoveAt(s, i))
    <2>0. i \in 1..Len(s)
      BY <1>0
    <2>1. PICK a : a = SubSeq(s, 1, i - 1)
      OBVIOUS
    <2>2. PICK b : b = SubSeq(s, i + 1, Len(s))
      OBVIOUS
    <2>3. /\ a \in Seq(Line) /\ Len(a) = i - 1
          /\ \A j \in 1..(i - 1) : a[j] = s[j]
      BY <1>0, <2>0, <2>1
    <2>4. /\ b \in Seq(Line) /\ Len(b) = Len(s) - i
          /\ \A j \in 1..(Len(s) - i) : b[j] = s[i + j]
      BY <1>0, <2>0, <2>2
    <2>5. PICK t : t = RemoveAt(s, i)
      OBVIOUS
    <2>6. t = a \o b
      BY <2>1, <2>2, <2>5 DEF RemoveAt
    <2>9. i \in Nat /\ Len(s) \in Nat /\ 1 <= i /\ i <= Len(s)
      BY <1>0, <2>0
    <2>7. /\ t \in Seq(Line) /\ Len(t) = Len(s) - 1 /\ DOMAIN t = 1..Len(t)
          /\ \A j \in 1..Len(t) : t[j] = IF j <= i - 1 THEN a[j] ELSE b[j - (i - 1)]
      <3>0. a \in Seq(Line) /\ b \in Seq(Line)
        BY <2>3, <2>4
      <3>1. t \in Seq(Line) /\ Len(t) = Len(a) + Len(b)
        BY <2>6, <3>0
      <3>2. \A j \in 1..Len(t) : t[j] = IF j <= Len(a) THEN a[j] ELSE b[j - Len(a)]
        BY <2>3, <2>4, <2>6
      <3> QED  BY <2>3, <2>4, <2>9, <3>1, <3>2
    <2>8. ASSUME NEW j \in 1..Len(t)  PROVE Explained(t[j])
      <3>1. CASE j <= i - 1
        <4>1. j \in 1..(i - 1) /\ j \in 1..Len(s)
          BY <1>0, <2>0, <2>7, <3>1
        <4> QED  BY <1>0, <2>3, <2>7, <3>1, <4>1
      <3>2. CASE ~(j <= i - 1)
        <4>1. /\ j - (i - 1) \in 1..(Len(s) - i) /\ i + (j - (i - 1)) = j + 1
              /\ j + 1 \in 1..Len(s)
          BY <1>0, <2>0, <2>7, <3>2
        <4> QED  BY <1>0, <2>4, <2>7, <3>2, <4>1
      <3> QED  BY <3>1, <3>2
    <2> QED  BY <1>0, <2>5, <2>7, <2>8 DEF Sound
  <1>3. ASSUME NEW i \in DOMAIN s, NEW l, Explained(l)  PROVE Sound([s EXCEPT ![i] = l])
    BY <1>0, <1>3, ExplainedIs DEF Sound
  <1> QED  BY <1>1, <1>2, <1>3

\* What may be typed, as numbers.
LEMMA TypedIs ==
    LinesAssumption =>
        /\ 1 \in -1..MaxQuantity /\ -2 \notin 0..100
        /\ \A p \in Prices \cup {-1} : p \in Nat \cup {-1}
  BY DEF LinesAssumption

\* A line that is edited is explained, whichever of its fields was typed.
LEMMA EditedIs ==
    ASSUME LinesAssumption, NEW l, Explained(l), NEW m,
           \/ \E q \in Text..MaxQuantity : m = [l EXCEPT !.quantity = q]
           \/ \E p \in Prices \cup {Text} :
                 m = [l EXCEPT !.price = p, !.discount = NoDiscount]
           \/ \E d \in Discounts : m = [l EXCEPT !.discount = d,
                 !.price = WebDiscountedPrice(l.reference, d)]
           \/ \E d \in Discounts : m = [l EXCEPT !.discount = d,
                 !.price = MobileDiscountedPrice(l, d)]
           \/ m = [l EXCEPT !.quantity = 1, !.discount = NoDiscount]
    PROVE  Explained(m)
  <1> USE DEF Text, NoDiscount
  <1>0. l \in Line
    BY ExplainedIs
  <1>1. PICK p \in Products, a \in 0..MaxAvailable, q \in -1..MaxQuantity, r \in References,
             c \in Nat \cup {-1}, d \in Discounts \cup {-2} :
           l = [product |-> p, available |-> a, quantity |-> q, reference |-> r,
                price |-> c, discount |-> d]
    BY <1>0 DEF Line
  <1>14. d \in 0..100 => 2 * (100 * c - r * (100 - d)) \in -99..100
    <2>1. l.price = c /\ l.discount = d /\ l.reference = r
      BY <1>1
    <2> QED  BY <2>1 DEF Explained
  <1>2. r \in Nat /\ Discounts \subseteq Nat /\ Prices \subseteq Nat /\ MaxQuantity \in Nat \ {0}
    BY <1>1 DEF LinesAssumption
  <1> DEFINE Is(q2, c2, d2) == m = [product |-> p, available |-> a, quantity |-> q2, reference |-> r,
                   price |-> c2, discount |-> d2]
  <1>3. ASSUME NEW q2 \in -1..MaxQuantity, NEW c2 \in Nat \cup {-1}, NEW d2 \in Discounts \cup {-2},
               Is(q2, c2, d2), d2 \in 0..100 => 2 * (100 * c2 - r * (100 - d2)) \in -99..100
        PROVE  Explained(m)
    <2>1. m \in Line
      BY <1>1, <1>3 DEF Line
    <2>2. m.price = c2 /\ m.discount = d2 /\ m.reference = r
      BY <1>3
    <2> HIDE DEF Is
    <2> QED  BY <1>3, <2>1, <2>2 DEF Explained
  <1>4. ASSUME NEW q2 \in -1..MaxQuantity, m = [l EXCEPT !.quantity = q2]
        PROVE  Is(q2, c, d)
    BY <1>1, <1>4
  <1>5. ASSUME NEW c2 \in Prices \cup {-1}, m = [l EXCEPT !.price = c2, !.discount = -2]
        PROVE  Is(q, c2, -2)
    BY <1>1, <1>5
  <1>6. ASSUME NEW c2, NEW d2, m = [l EXCEPT !.discount = d2, !.price = c2]
        PROVE  Is(q, c2, d2)
    BY <1>1, <1>6
  <1>7. ASSUME m = [l EXCEPT !.quantity = 1, !.discount = -2]
        PROVE  Is(1, c, -2)
    BY <1>1, <1>7
  <1>8. ASSUME NEW d2 \in Discounts, NEW c2, Is(q, c2, d2),
               c2 = WebDiscountedPrice(r, d2) \/ c2 = MobileDiscountedPrice(l, d2)
        PROVE  Explained(m)
    <2>1. l.reference = r /\ l.price = c
      BY <1>1
    <2>2. CASE d2 \in 0..100
      <3>1. c2 = Rounded(r, d2)
        BY <1>8, <2>1, <2>2 DEF WebDiscountedPrice, MobileDiscountedPrice
      <3>2. c2 \in Nat /\ 2 * (100 * c2 - r * (100 - d2)) \in -99..100
        BY <1>2, <2>2, <3>1, RoundedIs
      <3> HIDE DEF Is
      <3> QED  BY <1>1, <1>3, <1>8, <3>2
    <2>3. CASE d2 \notin 0..100
      <3>1. c2 \in {r, c}
        BY <1>8, <2>1, <2>3 DEF WebDiscountedPrice, MobileDiscountedPrice
      <3> HIDE DEF Is
      <3> QED  BY <1>1, <1>2, <1>3, <1>8, <2>3, <3>1
    <2> QED  BY <2>2, <2>3
  <1> HIDE DEF Is
  <1>9. l.reference = r
    BY <1>1
  <1>10. CASE \E q2 \in Text..MaxQuantity : m = [l EXCEPT !.quantity = q2]
    BY <1>3, <1>4, <1>10, <1>14
  <1>11. CASE \E p2 \in Prices \cup {Text} :
                 m = [l EXCEPT !.price = p2, !.discount = NoDiscount]
    <2>1. PICK p2 \in Prices \cup {-1} : m = [l EXCEPT !.price = p2, !.discount = -2]
      BY <1>11
    <2>2. Is(q, p2, -2)
      BY <1>5, <2>1
    <2>3. p2 \in Nat \cup {-1} /\ -2 \notin 0..100
      BY <2>1, TypedIs, Zenon
    <2> QED  BY <1>3, <2>2, <2>3
  <1>12. CASE \E d2 \in Discounts :
                 \/ m = [l EXCEPT !.discount = d2,
                                  !.price = WebDiscountedPrice(l.reference, d2)]
                 \/ m = [l EXCEPT !.discount = d2,
                                  !.price = MobileDiscountedPrice(l, d2)]
    <2>1. PICK d2 \in Discounts :
             \E c2 \in {WebDiscountedPrice(r, d2), MobileDiscountedPrice(l, d2)} :
                m = [l EXCEPT !.discount = d2, !.price = c2]
      BY <1>9, <1>12
    <2>2. PICK c2 \in {WebDiscountedPrice(r, d2), MobileDiscountedPrice(l, d2)} :
             m = [l EXCEPT !.discount = d2, !.price = c2]
      BY <2>1
    <2> QED  BY <1>6, <1>8, <2>2
  <1>13. CASE m = [l EXCEPT !.quantity = 1, !.discount = NoDiscount]
    <2>1. Is(1, c, -2)
      BY <1>7, <1>13
    <2>2. 1 \in -1..MaxQuantity /\ -2 \notin 0..100
      BY TypedIs, Zenon
    <2> QED  BY <1>3, <2>1, <2>2
  <1> QED  BY <1>10, <1>11, <1>12, <1>13

\* Every line of the draft is explained.
LinesInv == TypeOK /\ Sound(lines)

\* It holds at first, when there is no line.
LEMMA LinesInit == LinesAssumption /\ Init => LinesInv
  BY DEF LinesInv, Sound, Init, TypeOK, LinesAssumption

\* A line that is new is explained: nothing stands beside its price.
LEMMA NewIs ==
    ASSUME LinesAssumption, TypeOK, NEW p \in Products, NEW r \in References
    PROVE  Explained(NewLine(p, r)) /\ Explained(MobileNewLine(p, r))
  <1> USE DEF Text, NoDiscount
  <1>1. NewLine(p, r) = MobileNewLine(p, r)
    BY DEF NewLine, MobileNewLine
  <1>2. PICK l : l = NewLine(p, r)
    OBVIOUS
  <1>3. atShop[p] \in 0..MaxAvailable /\ r \in Nat
    BY DEF TypeOK, LinesAssumption
  <1>4. 1 \in -1..MaxQuantity /\ -2 \notin 0..100
    BY TypedIs, Zenon
  <1>5. l \in Line /\ l.discount = -2
    BY <1>2, <1>3, <1>4 DEF NewLine, Line
  <1>6. Explained(l)
    BY <1>4, <1>5 DEF Explained
  <1> QED  BY <1>1, <1>2, <1>6

\* Every step keeps the invariant.
LEMMA LinesNext ==
    LinesAssumption /\ LinesInv /\ [Next]_(vars) => LinesInv'
  <1> SUFFICES ASSUME LinesAssumption, LinesInv, [Next]_(vars)
               PROVE  LinesInv'
    OBVIOUS
  <1> USE DEF LinesInv
  <1>1. MaxLines \in Nat /\ Sound(lines) /\ \A i \in DOMAIN lines : Explained(lines[i])
    BY DEF Sound, LinesAssumption
  <1>2. ASSUME NEW l, Explained(l), UNCHANGED <<client, atShop>>,
               \/ lines' = Append(lines, l) /\ Len(lines) < MaxLines
               \/ \E i \in DOMAIN lines : lines' = [lines EXCEPT ![i] = l]
        PROVE  LinesInv'
    <2>0. Sound(lines)
      BY <1>1
    <2>1. Sound(lines')
      <3>1. CASE lines' = Append(lines, l) /\ Len(lines) < MaxLines
        BY <1>1, <1>2, <3>1, SoundIs
      <3>2. ASSUME NEW i \in DOMAIN lines, lines' = [lines EXCEPT ![i] = l]
            PROVE  Sound(lines')
        BY <1>1, <1>2, <3>2, SoundIs
      <3> QED  BY <1>2, <3>1, <3>2
    <2> QED  BY <1>2, <2>1 DEF TypeOK, Sound, Explained
  <1>3. ASSUME NEW p \in Products, NEW r \in References,
               AddLineWeb(p, r) \/ AddLineMobile(p, r)
        PROVE  LinesInv'
    BY <1>2, <1>3, NewIs DEF AddLineWeb, AddLineMobile
  <1>4. ASSUME NEW i \in DOMAIN lines, DuplicateLine(i)
        PROVE  LinesInv'
    <2>1. PICK m : m = [lines[i] EXCEPT !.quantity = 1, !.discount = NoDiscount]
      OBVIOUS
    <2>2. Explained(m)
      BY <1>1, <2>1, EditedIs
    <2> QED  BY <1>2, <1>4, <2>1, <2>2 DEF DuplicateLine
  <1>5. ASSUME NEW i \in DOMAIN lines, RemoveLine(i)
        PROVE  LinesInv'
    <2>1. Sound(lines') /\ UNCHANGED <<client, atShop>>
      BY <1>1, <1>5, SoundIs DEF RemoveLine
    <2> QED  BY <2>1 DEF TypeOK, Sound, Explained
  <1>6. ASSUME NEW i \in DOMAIN lines, NEW q \in Text..MaxQuantity, EditQuantity(i, q)
        PROVE  LinesInv'
    <2>1. PICK m : m = [lines[i] EXCEPT !.quantity = q]
      OBVIOUS
    <2>2. Explained(m)
      BY <1>1, <2>1, EditedIs
    <2>3. lines' = [lines EXCEPT ![i] = m] /\ UNCHANGED <<client, atShop>>
      BY <1>6, <2>1 DEF EditQuantity
    <2> QED  BY <1>2, <2>2, <2>3
  <1>7. ASSUME NEW i \in DOMAIN lines, NEW p \in Prices \cup {Text}, EditPrice(i, p)
        PROVE  LinesInv'
    <2>1. PICK m : m = [lines[i] EXCEPT !.price = p, !.discount = NoDiscount]
      OBVIOUS
    <2>2. Explained(m)
      BY <1>1, <2>1, EditedIs
    <2>3. lines' = [lines EXCEPT ![i] = m] /\ UNCHANGED <<client, atShop>>
      BY <1>1, <1>7, <2>1 DEF EditPrice
    <2> QED  BY <1>2, <2>2, <2>3
  <1>8. ASSUME NEW i \in DOMAIN lines, NEW d \in Discounts, EditDiscountWeb(i, d)
        PROVE  LinesInv'
    <2>1. PICK m : m = [lines[i] EXCEPT !.discount = d,
                          !.price = WebDiscountedPrice(lines[i].reference, d)]
      OBVIOUS
    <2>2. Explained(m)
      BY <1>1, <2>1, EditedIs
    <2>3. lines' = [lines EXCEPT ![i] = m] /\ UNCHANGED <<client, atShop>>
      BY <1>1, <1>8, <2>1 DEF EditDiscountWeb
    <2> QED  BY <1>2, <2>2, <2>3
  <1>9. ASSUME NEW i \in DOMAIN lines, NEW d \in Discounts, EditDiscountMobile(i, d)
        PROVE  LinesInv'
    <2>1. PICK m : m = [lines[i] EXCEPT !.discount = d,
                          !.price = MobileDiscountedPrice(lines[i], d)]
      OBVIOUS
    <2>2. Explained(m)
      BY <1>1, <2>1, EditedIs
    <2>3. lines' = [lines EXCEPT ![i] = m] /\ UNCHANGED <<client, atShop>>
      BY <1>1, <1>9, <2>1 DEF EditDiscountMobile
    <2> QED  BY <1>2, <2>2, <2>3
  <1>10. ASSUME NEW p \in Products, NEW n \in 0..MaxAvailable, StockMoves(p, n)
         PROVE  LinesInv'
    <2>1. UNCHANGED <<client, lines>> /\ atShop' \in [Products -> 0..MaxAvailable]
      BY <1>10 DEF StockMoves, TypeOK
    <2> QED  BY <1>1, <2>1 DEF TypeOK, Sound, Explained
  <1>11. CASE UNCHANGED vars
    BY <1>1, <1>11 DEF vars, TypeOK, Explained
  <1> QED  BY <1>3, <1>4, <1>5, <1>6, <1>7, <1>8, <1>9, <1>10, <1>11 DEF Next

\* What the invariant says of the lines.
LEMMA LinesTyped ==
    ASSUME LinesAssumption, LinesInv
    PROVE  /\ DOMAIN lines = 1..Len(lines) /\ Len(lines) \in Nat
           /\ \A i \in DOMAIN lines : Quantity(i) \in Int /\ lines[i].available \in Nat
  <1>1. lines \in Seq(Line)
    BY DEF LinesInv, TypeOK
  <1>2. \A l \in Line : l.quantity \in Int /\ l.available \in Nat
    BY DEF Line, LinesAssumption, Text
  <1> QED  BY <1>1, <1>2 DEF Quantity

\* Of the lines of a product, the sum is a number, and one shows the least stock.
LEMMA LinesSum ==
    ASSUME LinesAssumption, LinesInv, NEW p
    PROVE  /\ MapThenSumSet(Quantity, LinesOf(p)) \in Int
           /\ \A i \in LinesOf(p) : lines[i].available \in Nat
           /\ LinesOf(p) # {} =>
                 LET m == Min({lines[i].available : i \in LinesOf(p)}) IN
                 /\ \A i \in LinesOf(p) : m <= lines[i].available
                 /\ \E i \in LinesOf(p) : m = lines[i].available
  <1>1. LinesOf(p) \subseteq DOMAIN lines
    BY DEF LinesOf
  <1>2. IsFiniteSet(LinesOf(p))
    <2>1. IsFiniteSet(DOMAIN lines)
      BY LinesTyped, FS_Interval
    <2> QED  BY <1>1, <2>1, FS_Subset
  <1>3. MapThenSumSet(Quantity, LinesOf(p)) \in Int
    BY <1>1, <1>2, LinesTyped, SumIsInt
  <1> DEFINE A == {lines[i].available : i \in LinesOf(p)}
  <1>4. A \in SUBSET Nat
    BY <1>1, LinesTyped
  <1>5. A # {} => \E m \in A : \A k \in A : m <= k
    BY <1>4, Least
  <1>6. A # {} => Min(A) \in A /\ \A k \in A : Min(A) <= k
    BY <1>5 DEF Min
  <1> QED  BY <1>1, <1>3, <1>6, LinesTyped

\* The two checks of a product agree when every line asks for some units.
LEMMA ChecksAgree ==
    ASSUME LinesAssumption, LinesInv, NEW p,
           \A i \in DOMAIN lines : ~LineError(lines[i])
    PROVE  WebProductError(p) <=> MobileProductError(p)
  <1>1. \A i \in LinesOf(p) : Quantity(i) > 0
    BY LinesTyped DEF LinesOf, LineError, Quantity
  <1>2. {i \in LinesOf(p) : Quantity(i) > 0} = LinesOf(p)
    BY <1>1
  <1>3. PICK sum : sum = MapThenSumSet(Quantity, LinesOf(p))
    OBVIOUS
  <1>4. PICK m : m = Min({lines[i].available : i \in LinesOf(p)})
    OBVIOUS
  <1>5. MobileProductError(p) <=> LinesOf(p) # {} /\ sum > m
    BY <1>2, <1>3, <1>4, Zenon DEF MobileProductError
  <1>6. WebProductError(p) <=> \E i \in LinesOf(p) : sum > lines[i].available
    BY <1>3 DEF WebProductError
  <1>7. /\ sum \in Int
        /\ \A i \in LinesOf(p) : lines[i].available \in Nat
        /\ LinesOf(p) # {} =>
              /\ \A i \in LinesOf(p) : m <= lines[i].available
              /\ \E i \in LinesOf(p) : m = lines[i].available
    BY <1>3, <1>4, LinesSum
  <1> QED  BY <1>5, <1>6, <1>7

\* The invariant says what a draft that may go on asks for.
LEMMA LinesGives ==
    LinesAssumption /\ LinesInv =>
        ValidFitsStock /\ ValidatorsAgree /\ DiscountExplainsPrice
  <1> SUFFICES ASSUME LinesAssumption, LinesInv
               PROVE  ValidFitsStock /\ ValidatorsAgree /\ DiscountExplainsPrice
    OBVIOUS
  <1>1. ValidFitsStock
    <2>1. ASSUME NEW p \in Products, ~WebProductError(p), NEW i \in LinesOf(p)
          PROVE  MapThenSumSet(Quantity, LinesOf(p)) <= lines[i].available
      <3>1. PICK sum : sum = MapThenSumSet(Quantity, LinesOf(p))
        OBVIOUS
      <3>2. sum \in Int /\ lines[i].available \in Nat
        BY <3>1, LinesSum
      <3>3. ~(sum > lines[i].available)
        BY <2>1, <3>1 DEF WebProductError
      <3> QED  BY <3>1, <3>2, <3>3
    <2> QED  BY <2>1 DEF ValidFitsStock, WebValid
  <1>2. ValidatorsAgree
    BY ChecksAgree DEF ValidatorsAgree, WebValid, MobileValid
  <1>3. DiscountExplainsPrice
    BY DEF LinesInv, Sound, Explained, DiscountExplainsPrice
  <1> QED  BY <1>1, <1>2, <1>3

\* A draft that may go on fits the stock its seller was shown, both applications
\* agree on which may, and a discount explains the price beside it.
THEOREM LinesAreSafe ==
    ASSUME LinesAssumption
    PROVE  Spec =>
              [](ValidFitsStock /\ ValidatorsAgree /\ DiscountExplainsPrice)
  BY LinesInit, LinesNext, LinesGives, PTL DEF Spec

\* The lines keep their types.
THEOREM LinesAreTyped ==
    ASSUME LinesAssumption
    PROVE  Spec => []TypeOK
  <1>1. LinesInv => TypeOK
    BY DEF LinesInv
  <1> QED  BY <1>1, LinesInit, LinesNext, PTL DEF Spec
================================================================================
