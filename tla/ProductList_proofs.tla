-------------------------- MODULE ProductList_proofs --------------------------
(***************************************************************************)
(* Proofs about the list of the inventory, for every value of the          *)
(* constants.                                                              *)
(*                                                                         *)
(* The rows of a filter have a strict total order, so that how many come   *)
(* before a row numbers them without a gap, and a page is an interval of   *)
(* that order.  The invariant says of the pages that were read that each   *)
(* covers what comes before its end and lists nothing that an earlier one  *)
(* does, products that changed meanwhile left aside.                       *)
(***************************************************************************)
EXTENDS ProductList, FiniteSetTheorems, TLAPS

----------------------------------------------------------------------------
(* The order of the rows.                                                  *)

\* The cursor of a product, and the order of cursors: a product is read after a
\* cursor when its own cursor comes after it.
Key(i) == [value |-> value[i], id |-> i]
Less(c, d) ==
    IF c.value = None THEN d.value = None /\ d.id > c.id
    ELSE \/ Beyond(d.value, c.value)
         \/ d.value = c.value /\ d.id > c.id
         \/ d.value = None

\* It is a strict order, total on products that differ.
LEMMA LessIsOrder ==
    ASSUME ListAssumption
    PROVE  /\ \A c, d, e \in Cursor : Less(c, d) /\ Less(d, e) => Less(c, e)
           /\ \A c \in Cursor : ~Less(c, c)
           /\ \A c, d \in Cursor : c.id # d.id => Less(c, d) \/ Less(d, c)
  <1>1. \A c \in Cursor : c.id \in Nat /\ (c.value # None => c.value \in Nat)
    <2>1. \A c \in Cursor : c.id \in Products /\ c.value \in (0..MaxValue) \cup {None}
      BY DEF Cursor, Value
    <2>2. Products \subseteq Nat /\ \A v \in 0..MaxValue : v \in Nat
      BY DEF ListAssumption
    <2> QED  BY <2>1, <2>2, Zenon
  <1> QED  BY <1>1 DEF Less, Beyond

\* What the server compares are cursors.
LEMMA KeyIs ==
    ASSUME ListAssumption, value \in [Products -> Value]
    PROVE  /\ \A i \in Products : Key(i) \in Cursor /\ Key(i).id = i
           /\ \A i, j \in Products : InOrder(i, j) <=> Less(Key(i), Key(j))
           /\ \A i \in Products, c \in Cursor : KeysetFilter(i, c) <=> Less(c, Key(i))
  <1>1. ASSUME NEW i \in Products
        PROVE  Key(i) \in Cursor /\ Key(i).id = i /\ Key(i).value = value[i]
    BY DEF Key, Cursor
  <1>2. ASSUME NEW i \in Products, NEW j \in Products
        PROVE  InOrder(i, j) <=> Less(Key(i), Key(j))
    <2>1. i \in Nat /\ j \in Nat
      BY DEF ListAssumption
    <2>2. value[i] = None => ~Beyond(value[j], value[i])
      BY DEF Beyond
    <2> QED  BY <1>1, <2>1, <2>2 DEF InOrder, Less
  <1>3. ASSUME NEW i \in Products, NEW c \in Cursor
        PROVE  KeysetFilter(i, c) <=> Less(c, Key(i))
    BY <1>1 DEF KeysetFilter, Less
  <1> QED  BY <1>1, <1>2, <1>3

\* How many of the rows come before one of them.
Before(rows, i) == {j \in rows : InOrder(j, i)}

\* The order of the rows, as the order of their places.
LEMMA RankIs ==
    ASSUME ListAssumption, value \in [Products -> Value], NEW rows \in SUBSET Products
    PROVE  /\ IsFiniteSet(rows) /\ Cardinality(rows) \in Nat
           /\ \A i \in rows : Cardinality(Before(rows, i)) \in 0..(Cardinality(rows) - 1)
           /\ \A i, j \in rows : InOrder(i, j) =>
                 Cardinality(Before(rows, i)) < Cardinality(Before(rows, j))
           /\ \A i, j \in rows : i # j => InOrder(i, j) \/ InOrder(j, i)
  <1>1. IsFiniteSet(rows) /\ Cardinality(rows) \in Nat
    BY FS_Subset, FS_CardinalityType DEF ListAssumption
  <1>2. \A i, j, k \in rows : /\ InOrder(i, j) /\ InOrder(j, k) => InOrder(i, k)
                              /\ ~InOrder(i, i)
                              /\ i # j => InOrder(i, j) \/ InOrder(j, i)
    BY KeyIs, LessIsOrder
  <1>3. ASSUME NEW i \in rows
        PROVE  /\ IsFiniteSet(Before(rows, i)) /\ Cardinality(Before(rows, i)) \in Nat
               /\ Cardinality(Before(rows, i)) < Cardinality(rows)
    <2>1. Before(rows, i) \in SUBSET rows /\ i \notin Before(rows, i)
      BY <1>2 DEF Before
    <2> QED  BY <1>1, <2>1, FS_Subset, FS_CardinalityType
  <1>4. ASSUME NEW i \in rows, NEW j \in rows, InOrder(i, j)
        PROVE  Cardinality(Before(rows, i)) < Cardinality(Before(rows, j))
    <2>1. Before(rows, i) \in SUBSET Before(rows, j)
      BY <1>2, <1>4 DEF Before
    <2>2. i \in Before(rows, j) /\ i \notin Before(rows, i)
      BY <1>2, <1>4 DEF Before
    <2> QED  BY <1>3, <2>1, <2>2, FS_Subset
  <1> QED  BY <1>1, <1>2, <1>3, <1>4

\* The rows in order: each of them once, and none before its turn.
LEMMA OrderedIs ==
    ASSUME ListAssumption, value \in [Products -> Value], NEW rows \in SUBSET Products
    PROVE  /\ Cardinality(rows) \in Nat
           /\ Ordered(rows) \in [1..Cardinality(rows) -> rows]
           /\ \A i \in rows : \E n \in 1..Cardinality(rows) : Ordered(rows)[n] = i
           /\ \A m, n \in 1..Cardinality(rows) :
                 m < n => InOrder(Ordered(rows)[m], Ordered(rows)[n])
  <1>1. PICK N : N = Cardinality(rows)
    OBVIOUS
  <1>2. PICK r : r = [i \in rows |-> Cardinality(Before(rows, i)) + 1]
    OBVIOUS
  <1>3. /\ N \in Nat /\ IsFiniteSet(rows) /\ r \in [rows -> 1..N]
        /\ \A i, j \in rows : InOrder(i, j) => r[i] < r[j]
        /\ \A i, j \in rows : i # j => InOrder(i, j) \/ InOrder(j, i)
    <2>1. \A i \in rows : r[i] = Cardinality(Before(rows, i)) + 1
      BY <1>2
    <2>2. N \in Nat /\ \A i \in rows : Cardinality(Before(rows, i)) \in 0..(N - 1)
      BY <1>1, RankIs
    <2>3. r \in [rows -> 1..N]
      BY <1>2, <2>2
    <2>4. ASSUME NEW i \in rows, NEW j \in rows, InOrder(i, j)  PROVE r[i] < r[j]
      <3>1. Cardinality(Before(rows, i)) < Cardinality(Before(rows, j))
        BY <2>4, RankIs
      <3> QED  BY <2>1, <2>2, <3>1
    <2> QED  BY <2>2, <2>3, <2>4, RankIs
  <1>4. r \in Injection(rows, 1..N)
    <2>1. \A i, j \in rows : r[i] = r[j] => i = j
      BY <1>3
    <2> QED  BY <1>3, <2>1 DEF Injection, IsInjective
  <1>5. r \in Surjection(rows, 1..N)
    <2>1. IsFiniteSet(1..N) /\ Cardinality(1..N) = N
      BY <1>3, FS_Interval
    <2> QED  BY <1>1, <1>4, <2>1, FS_Injection
  <1>6. \A n \in 1..N : \E i \in rows : r[i] = n
    BY <1>5 DEF Surjection
  <1>7. ASSUME NEW n \in 1..N  PROVE Nth(rows, n) \in rows /\ r[Nth(rows, n)] = n
    <2>1. \A i \in rows : r[i] = n <=> Cardinality({j \in rows : InOrder(j, i)}) = n - 1
      BY <1>2, RankIs DEF Before
    <2>2. PICK i \in rows : Cardinality({j \in rows : InOrder(j, i)}) = n - 1
      BY <1>6, <2>1
    <2>3. Nth(rows, n) \in rows /\ Cardinality({j \in rows : InOrder(j, Nth(rows, n))}) = n - 1
      BY <2>2, Zenon DEF Nth
    <2> QED  BY <2>1, <2>3
  <1>8. \A n \in 1..N : Ordered(rows)[n] = Nth(rows, n)
    BY <1>1 DEF Ordered
  <1>9. Ordered(rows) \in [1..N -> rows]
    BY <1>1, <1>7 DEF Ordered
  <1>10. ASSUME NEW i \in rows  PROVE \E n \in 1..N : Ordered(rows)[n] = i
    <2>1. r[i] \in 1..N /\ r[Nth(rows, r[i])] = r[i] /\ Nth(rows, r[i]) \in rows
      BY <1>3, <1>7
    <2>2. Nth(rows, r[i]) = i
      BY <1>3, <2>1
    <2> QED  BY <1>8, <2>1, <2>2
  <1>11. ASSUME NEW m \in 1..N, NEW n \in 1..N, m < n
         PROVE  InOrder(Ordered(rows)[m], Ordered(rows)[n])
    <2>1. PICK i, j \in rows : i = Ordered(rows)[m] /\ j = Ordered(rows)[n] /\ r[i] = m /\ r[j] = n
      BY <1>7, <1>8
    <2> QED  BY <1>3, <1>11, <2>1
  <1> QED  BY <1>1, <1>3, <1>9, <1>10, <1>11

----------------------------------------------------------------------------
(* A page.                                                                 *)

\* A product comes after a cursor, or there is no cursor.
After(c, i) == c = None \/ Less(c, Key(i))

\* What a page that is read after a cursor has: some products from there on, none
\* of them after its end, and all that there are up to its end.
Reads(p, f, after) ==
    /\ p \in Page /\ p.after = after
    /\ p.more => p.end # None
    /\ p.end # None => after = None \/ Less(after, p.end)
    /\ \A i \in Products : Contains(p.ids, i) =>
          i \in Matches(f) /\ After(after, i) /\ p.end # None /\ ~Less(p.end, Key(i))
    /\ \A i \in Matches(f) : After(after, i) =>
          Contains(p.ids, i) \/ (p.more /\ Less(p.end, Key(i)))

\* A page that the server returns is one: it lists the rows after its cursor up
\* to its end, and says there are more when there are.
LEMMA PaginateReads ==
    ASSUME ListAssumption, value \in [Products -> Value], present \subseteq Products,
           NEW f, NEW after \in Cursor \cup {None}
    PROVE  Reads(Paginate(f, after), f, after)
  <1>1. PICK rows : rows = {i \in Matches(f) : after = None \/ KeysetFilter(i, after)}
    OBVIOUS
  <1>2. Matches(f) \subseteq Products /\ rows \in SUBSET Products
    BY <1>1 DEF Matches, ListAssumption
  <1>3. \A i \in Matches(f) : i \in rows <=> After(after, i)
    BY <1>1, <1>2, KeyIs DEF After
  <1>4. PICK N, w : N = Cardinality(rows) /\ w = Ordered(rows)
    OBVIOUS
  <1>5. /\ N \in Nat /\ w \in [1..N -> rows]
        /\ \A i \in rows : \E n \in 1..N : w[n] = i
        /\ \A m, n \in 1..N : m < n => Less(Key(w[m]), Key(w[n]))
    <2>1. /\ N \in Nat /\ w \in [1..N -> rows]
          /\ \A i \in rows : \E n \in 1..N : w[n] = i
          /\ \A m, n \in 1..N : m < n => InOrder(w[m], w[n])
      BY <1>2, <1>4, OrderedIs, Zenon
    <2>2. \A n \in 1..N : w[n] \in Products
      BY <1>2, <2>1
    <2> QED  BY <2>1, <2>2, KeyIs
  <1>6. w \in Seq(rows) /\ Len(w) = N
    BY <1>5
  <1>7. PICK k : k = Min({Len(w), PageSize})
    OBVIOUS
  <1>8. k = IF N <= PageSize THEN N ELSE PageSize
    <2>1. PageSize \in Nat \ {0}
      BY DEF ListAssumption
    <2> DEFINE m == IF N <= PageSize THEN N ELSE PageSize
    <2>2. m \in {N, PageSize} /\ \A x \in {N, PageSize} : m <= x
      BY <1>5, <2>1
    <2>3. \A y \in {N, PageSize} : (\A x \in {N, PageSize} : y <= x) => y = m
      BY <1>5, <2>1
    <2>4. k = CHOOSE y \in {N, PageSize} : \A x \in {N, PageSize} : y <= x
      BY <1>6, <1>7 DEF Min
    <2> HIDE DEF m
    <2>5. k = m
      BY <2>2, <2>3, <2>4, Zenon
    <2> QED  BY <2>5 DEF m
  <1>9. k \in Nat /\ k <= N /\ k <= PageSize /\ PageSize \in Nat \ {0}
    BY <1>5, <1>8 DEF ListAssumption
  <1>10. PICK ids : ids = Upto(w, PageSize)
    OBVIOUS
  <1>11. /\ ids \in Seq(rows) /\ Len(ids) = k /\ ids \in [1..k -> rows]
         /\ \A n \in 1..k : ids[n] = w[n]
    <2>1. ids = SubSeq(w, 1, k)
      BY <1>7, <1>10 DEF Upto
    <2>2. ids \in Seq(rows) /\ Len(ids) = k /\ \A n \in 1..k : ids[n] = w[n]
      BY <1>5, <1>6, <1>9, <2>1
    <2> QED  BY <2>2
  <1>12. PICK end :
             end = IF ids = <<>> THEN None ELSE [value |-> value[Last(ids)], id |-> Last(ids)]
    OBVIOUS
  <1>13. PICK p : p = Paginate(f, after)
    OBVIOUS
  <1>14. p = [after |-> after, ids |-> ids, more |-> N > PageSize, end |-> end]
    BY <1>1, <1>4, <1>6, <1>10, <1>12, <1>13 DEF Paginate
  <1>15. p.after = after /\ p.ids = ids /\ p.more = (N > PageSize) /\ p.end = end
    BY <1>14
  <1>16. ids = <<>> <=> k = 0
    BY <1>9, <1>11
  <1>17. k = 0 => end = None
    BY <1>12, <1>16
  <1>18. k # 0 => w[k] \in rows /\ end = Key(w[k]) /\ end \in Cursor /\ end # None
    <2> SUFFICES ASSUME k # 0 PROVE w[k] \in rows /\ end = Key(w[k]) /\ end \in Cursor /\ end # None
      OBVIOUS
    <2>1. k \in 1..k /\ k \in 1..N
      BY <1>5, <1>9
    <2>2. Last(ids) = w[k] /\ w[k] \in rows
      BY <1>5, <1>11, <2>1 DEF Last
    <2>3. end = Key(w[k])
      BY <1>12, <1>16, <2>2 DEF Key
    <2> QED  BY <1>2, <2>2, <2>3, KeyIs DEF ListAssumption
  <1>19. p \in Page
    <2>1. ids \in BoundedSeq(Products, PageSize)
      <3>1. ids \in [1..k -> Products] /\ k \in 0..PageSize
        BY <1>2, <1>9, <1>11
      <3> QED  BY <3>1 DEF BoundedSeq, SeqOf
    <2>2. end \in Cursor \cup {None}
      BY <1>17, <1>18
    <2> QED  BY <1>14, <2>1, <2>2 DEF Page
  <1>20. p.more => p.end # None
    <2>1. N > PageSize => k # 0
      BY <1>8, <1>9
    <2> QED  BY <1>15, <1>18, <2>1
  <1>21. \A i \in rows : i \in Products /\ i \in Matches(f) /\ After(after, i)
    BY <1>1, <1>2, <1>3
  <1>22. p.end # None => after = None \/ Less(after, p.end)
    BY <1>15, <1>17, <1>18, <1>21 DEF After
  <1>23. ASSUME NEW i \in Products, Contains(p.ids, i)
         PROVE  i \in Matches(f) /\ After(after, i) /\ p.end # None /\ ~Less(p.end, Key(i))
    <2>1. PICK n \in 1..k : w[n] = i
      BY <1>11, <1>15, <1>23 DEF Contains
    <2>2. k # 0 /\ k \in 1..N /\ n \in 1..N /\ i \in rows
      BY <1>5, <1>9, <2>1
    <2>3. n = k \/ Less(Key(i), Key(w[k]))
      BY <1>5, <1>9, <2>1, <2>2
    <2>4. Key(i) \in Cursor /\ Key(w[k]) \in Cursor
      BY <1>5, <1>21, <2>2, KeyIs
    <2>5. ~Less(Key(w[k]), Key(i))
      BY <2>1, <2>3, <2>4, LessIsOrder
    <2> QED  BY <1>15, <1>18, <1>21, <2>2, <2>5
  <1>24. ASSUME NEW i \in Matches(f), After(after, i)
         PROVE  Contains(p.ids, i) \/ (p.more /\ Less(p.end, Key(i)))
    <2>1. PICK n \in 1..N : w[n] = i
      BY <1>3, <1>5, <1>24
    <2>2. CASE n <= k
      BY <1>9, <1>11, <1>15, <2>1, <2>2 DEF Contains
    <2>3. CASE ~(n <= k)
      <3>1. N > PageSize /\ k = PageSize /\ k # 0 /\ k \in 1..N /\ k < n
        BY <1>5, <1>8, <1>9, <2>3
      <3>2. Less(Key(w[k]), Key(i))
        BY <1>5, <2>1, <3>1
      <3> QED  BY <1>15, <1>18, <3>1, <3>2
    <2> QED  BY <2>2, <2>3
  <1> QED  BY <1>13, <1>15, <1>19, <1>20, <1>22, <1>23, <1>24 DEF Reads

----------------------------------------------------------------------------
(* Pages that were read one after the other.                               *)

\* What the k-th page adds to those before it, as far as the products outside M
\* tell: what they do not list is still to come, and nothing is listed again.
Fits(s, k, f, M) ==
    /\ s[k].after = IF k = 1 THEN None ELSE s[k - 1].end
    /\ s[k].more => s[k].end # None
    /\ \A i \in Matches(f) \ M :
          (\E m \in 1..k : Contains(s[m].ids, i)) \/ (s[k].more /\ Less(s[k].end, Key(i)))
    /\ s[k].more => \A i \in Products \ M, m \in 1..k :
                      Contains(s[m].ids, i) => ~Less(s[k].end, Key(i))
    /\ \A i \in Products \ M, m \in 1..(k - 1) :
          Contains(s[m].ids, i) => ~Contains(s[k].ids, i)

Chain(s, f, M) ==
    /\ s \in Seq(Page)
    /\ \A k \in 1..Len(s) : Fits(s, k, f, M) /\ (k < Len(s) => s[k].more)

\* Whether a page fits depends on the pages up to it.
LEMMA FitsUpto ==
    ASSUME NEW s, NEW t, NEW f, NEW M, NEW k \in Nat \ {0}, \A m \in 1..k : t[m] = s[m],
           Fits(s, k, f, M)
    PROVE  Fits(t, k, f, M)
  <1>1. k \in 1..k /\ (k # 1 => k - 1 \in 1..k) /\ \A m \in 1..(k - 1) : m \in 1..k
    OBVIOUS
  <1> QED  BY <1>1 DEF Fits

\* The first pages are such pages too.
LEMMA ChainUpto ==
    ASSUME NEW s, NEW f, NEW M, Chain(s, f, M), NEW n \in 0..Len(s)
    PROVE  /\ Chain(SubSeq(s, 1, n), f, M) /\ Len(SubSeq(s, 1, n)) = n
           /\ \A k \in 1..n : SubSeq(s, 1, n)[k] = s[k]
  <1>1. s \in Seq(Page) /\ Len(s) \in Nat
    BY DEF Chain
  <1>2. PICK t : t = SubSeq(s, 1, n)
    OBVIOUS
  <1>3. t \in Seq(Page) /\ Len(t) = n /\ \A k \in 1..n : t[k] = s[k]
    BY <1>1, <1>2
  <1>4. ASSUME NEW k \in 1..n  PROVE Fits(t, k, f, M) /\ (k < n => t[k].more)
    <2>1. k \in 1..Len(s) /\ k \in Nat \ {0} /\ (k < n => k < Len(s)) /\ \A m \in 1..k : m \in 1..n
      BY <1>1
    <2>2. Fits(s, k, f, M) /\ (k < n => s[k].more)
      BY <2>1 DEF Chain
    <2>3. Fits(t, k, f, M)
      BY <1>3, <2>1, <2>2, FitsUpto
    <2> QED  BY <1>3, <2>2, <2>3
  <1> QED  BY <1>2, <1>3, <1>4 DEF Chain

\* Where the page that comes next is read from.
NextAfter(s) == IF s = <<>> THEN None ELSE Last(s).end

\* The pages but the last, which the last was read after.
LEMMA ChainFront ==
    ASSUME NEW s, NEW f, NEW M, Chain(s, f, M), s # <<>>
    PROVE  /\ Chain(Front(s), f, M) /\ Last(s).after = NextAfter(Front(s))
           /\ Front(s) # <<>> => Last(Front(s)).more
  <1>1. s \in Seq(Page) /\ Len(s) \in Nat \ {0}
    BY DEF Chain
  <1>2. Len(s) - 1 \in 0..Len(s)
    BY <1>1
  <1>3. PICK n, t : n = Len(s) - 1 /\ t = Front(s)
    OBVIOUS
  <1>4. Chain(t, f, M) /\ Len(t) = n /\ \A k \in 1..n : t[k] = s[k]
    BY <1>2, <1>3, ChainUpto DEF Front
  <1>5. t \in Seq(Page) /\ (t = <<>> <=> n = 0)
    BY <1>1, <1>3, <1>4 DEF Chain
  <1>6. Fits(s, Len(s), f, M)
    BY <1>1 DEF Chain
  <1>7. Last(s).after = IF n = 0 THEN None ELSE s[n].end
    BY <1>1, <1>3, <1>6 DEF Fits, Last
  <1>8. n # 0 => n \in 1..n /\ n \in 1..Len(s) /\ n < Len(s)
    BY <1>1, <1>3
  <1>9. n # 0 => Last(t) = s[n] /\ s[n].more
    BY <1>4, <1>8 DEF Last, Chain
  <1> QED  BY <1>3, <1>4, <1>5, <1>7, <1>9 DEF NextAfter

\* A page that is read after the last of them goes on with them.
LEMMA ChainAppend ==
    ASSUME ListAssumption, value \in [Products -> Value], present \subseteq Products,
           NEW s, NEW f, NEW M, Chain(s, f, M), s # <<>> => Last(s).more,
           NEW p, Reads(p, f, NextAfter(s))
    PROVE  Chain(Append(s, p), f, M)
  <1>1. s \in Seq(Page) /\ Len(s) \in Nat /\ p \in Page
    BY DEF Chain, Reads
  <1>2. PICK n, t, after : n = Len(s) + 1 /\ t = Append(s, p) /\ after = NextAfter(s)
    OBVIOUS
  <1>3. t \in Seq(Page) /\ Len(t) = n /\ t[n] = p /\ \A k \in 1..Len(s) : t[k] = s[k]
    BY <1>1, <1>2
  <1>4. s = <<>> <=> Len(s) = 0
    BY <1>1
  <1>5. ASSUME NEW k \in 1..Len(s)  PROVE Fits(t, k, f, M) /\ t[k].more
    <2>1. k \in Nat \ {0} /\ \A m \in 1..k : m \in 1..Len(s)
      BY <1>1
    <2>2. Fits(s, k, f, M)
      BY DEF Chain
    <2>3. s[k].more
      BY <1>1, <1>4 DEF Chain, Last
    <2> QED  BY <1>3, <2>1, <2>2, <2>3, FitsUpto
  <1>6. /\ p.after = after /\ (p.more => p.end # None)
        /\ p.end # None => after = None \/ Less(after, p.end)
        /\ \A i \in Products : Contains(p.ids, i) => /\ i \in Matches(f) /\ After(after, i)
                                                   /\ ~Less(p.end, Key(i))
        /\ \A i \in Matches(f) : After(after, i) =>
              Contains(p.ids, i) \/ (p.more /\ Less(p.end, Key(i)))
    BY <1>2 DEF Reads
  <1>7. p.end \in Cursor \cup {None} /\ Matches(f) \subseteq Products
    BY <1>1 DEF Page, Matches, ListAssumption
  <1>8. CASE s = <<>>
    <2>1. n = 1 /\ after = None /\ \A m \in 1..n : t[m] = p
      BY <1>2, <1>3, <1>4, <1>8 DEF NextAfter
    <2>2. \A i : After(after, i)
      BY <2>1 DEF After
    <2>3. n \in 1..n
      BY <2>1
    <2>4. Fits(t, n, f, M)
      <3>1. t[n].after = IF n = 1 THEN None ELSE t[n - 1].end
        BY <1>6, <2>1, <2>3
      <3>2. t[n].more => t[n].end # None
        BY <1>3, <1>6
      <3>3. \A i \in Matches(f) \ M :
              (\E m \in 1..n : Contains(t[m].ids, i)) \/ (t[n].more /\ Less(t[n].end, Key(i)))
        BY <1>3, <1>6, <2>2, <2>3
      <3>4. \A i \in Products \ M, m \in 1..n : Contains(t[m].ids, i) => ~Less(t[n].end, Key(i))
        BY <1>3, <1>6, <2>1
      <3>5. 1..(n - 1) = {}
        BY <2>1
      <3> QED  BY <3>1, <3>2, <3>3, <3>4, <3>5 DEF Fits
    <2>5. \A k \in 1..n : k = n
      BY <2>1
    <2> QED  BY <1>2, <1>3, <2>4, <2>5 DEF Chain
  <1>9. CASE s # <<>>
    <2>1. PICK l : l = s[Len(s)]
      OBVIOUS
    <2>2. Len(s) \in 1..Len(s) /\ Fits(s, Len(s), f, M) /\ l.more /\ after = l.end
      BY <1>1, <1>2, <1>4, <1>9, <2>1 DEF Chain, Last, NextAfter
    <2>3. /\ after # None
          /\ \A i \in Matches(f) \ M :
                (\E m \in 1..Len(s) : Contains(s[m].ids, i)) \/ Less(after, Key(i))
          /\ \A i \in Products \ M, m \in 1..Len(s) :
                Contains(s[m].ids, i) => ~Less(after, Key(i))
      BY <2>1, <2>2 DEF Fits
    <2>4. after \in Cursor
      <3>1. l \in Page
        BY <1>1, <2>1, <2>2
      <3>2. l.end \in Cursor \cup {None}
        BY <3>1 DEF Page
      <3> QED  BY <2>2, <2>3, <3>2
    <2>5. \A i : After(after, i) <=> Less(after, Key(i))
      BY <2>3 DEF After
    <2>6. /\ n \in 1..n /\ n # 1 /\ n - 1 = Len(s) /\ t[n - 1] = l
          /\ \A m \in 1..n : m = n \/ m \in 1..Len(s)
          /\ \A m \in 1..Len(s) : m \in 1..n
      BY <1>1, <1>2, <1>3, <2>1, <2>2
    <2>7. Fits(t, n, f, M)
      <3>1. t[n].after = IF n = 1 THEN None ELSE t[n - 1].end
        BY <1>3, <1>6, <2>2, <2>6
      <3>2. t[n].more => t[n].end # None
        BY <1>3, <1>6
      <3>3. ASSUME NEW i \in Matches(f) \ M
            PROVE  (\E m \in 1..n : Contains(t[m].ids, i)) \/ (t[n].more /\ Less(t[n].end, Key(i)))
        <4>1. CASE \E m \in 1..Len(s) : Contains(s[m].ids, i)
          BY <1>3, <2>6, <4>1
        <4>2. CASE Less(after, Key(i))
          BY <1>3, <1>6, <2>5, <2>6, <4>2
        <4> QED  BY <2>3, <4>1, <4>2
      <3>4. ASSUME t[n].more, NEW i \in Products \ M, NEW m \in 1..n, Contains(t[m].ids, i)
            PROVE  ~Less(t[n].end, Key(i))
        <4>1. CASE m = n
          BY <1>3, <1>6, <3>4, <4>1
        <4>2. CASE m \in 1..Len(s)
          <5>1. ~Less(after, Key(i))
            BY <1>3, <2>3, <3>4, <4>2
          <5>2. Less(after, p.end) /\ p.end \in Cursor /\ Key(i) \in Cursor
            BY <1>3, <1>6, <1>7, <2>3, <3>4, KeyIs
          <5> QED  BY <1>3, <2>4, <5>1, <5>2, LessIsOrder
        <4> QED  BY <2>6, <4>1, <4>2
      <3>5. ASSUME NEW i \in Products \ M, NEW m \in 1..(n - 1), Contains(t[m].ids, i)
            PROVE  ~Contains(t[n].ids, i)
        BY <1>3, <1>6, <2>3, <2>5, <2>6, <3>5
      <3> QED  BY <3>1, <3>2, <3>3, <3>4, <3>5 DEF Fits
    <2>8. \A k \in 1..n : Fits(t, k, f, M) /\ (k < n => t[k].more)
      BY <1>5, <2>6, <2>7
    <2> QED  BY <1>2, <1>3, <2>8 DEF Chain
  <1> QED  BY <1>8, <1>9

\* Pages stay as they are when products in X change, outside M and X.
LEMMA ChainLater ==
    ASSUME NEW s, NEW f, NEW M, Chain(s, f, M), NEW X, UNCHANGED descending,
           \A i \in Products \ X : value'[i] = value[i] /\ (i \in present' <=> i \in present),
           Matches(f) \subseteq Products, Matches(f)' \subseteq Products
    PROVE  Chain(s, f, M \cup X)'
  <1>1. \A c, d : Less(c, d)' <=> Less(c, d)
    BY DEF Less, Beyond
  <1>2. \A i \in Products \ X : Key(i)' = Key(i) /\ (i \in Matches(f)' <=> i \in Matches(f))
    BY DEF Key, Matches
  <1>3. ASSUME NEW k \in 1..Len(s)  PROVE Fits(s, k, f, M \cup X)' /\ (k < Len(s) => s[k].more)
    <2>1. Fits(s, k, f, M) /\ (k < Len(s) => s[k].more)
      BY DEF Chain
    <2>2. \A i \in Products \ (M \cup X) : i \in Products \ M /\ i \in Products \ X
      OBVIOUS
    <2>3. \A i \in Matches(f)' \ (M \cup X) : i \in Matches(f) \ M /\ i \in Products \ X
      BY <1>2
    <2> QED  BY <1>1, <1>2, <2>1, <2>2, <2>3 DEF Fits
  <1> QED  BY <1>3 DEF Chain

----------------------------------------------------------------------------
(* The list.                                                               *)

\* What a request that is under way was sent for.
Pending(f) ==
    /\ fetch[f].kind = "next" =>
          pages[f] # <<>> /\ Last(pages[f]).more /\ fetch[f].after = Last(pages[f]).end
    /\ fetch[f].kind = "again" /\ client = "web" =>
          pages[f] # <<>> /\ fetch[f].after = Last(pages[f]).after
    /\ fetch[f].kind = "again" /\ client = "mobile" =>
          /\ Chain(fetch[f].built, f, fetch[f].moved)
          /\ fetch[f].after = NextAfter(fetch[f].built)
          /\ fetch[f].built # <<>> => Last(fetch[f].built).more

\* The strengthening of the properties of the list: what is read was read one page
\* after the other, and so is what a request brings.
ListInv ==
    /\ TypeOK
    /\ \A f \in Filters : Chain(pages[f], f, moved[f]) /\ (fetch[f] # None => Pending(f))

\* It holds at first.
LEMMA ListInit == ListAssumption /\ Init => ListInv
  <1> SUFFICES ASSUME ListAssumption, Init PROVE ListInv
    OBVIOUS
  <1>1. ASSUME NEW f \in Filters  PROVE Chain(pages[f], f, moved[f]) /\ fetch[f] = None
    BY <1>1 DEF Init, Chain
  <1> QED  BY <1>1 DEF ListInv, TypeOK, Init, ListAssumption

\* What the type of the list says of one filter.
LEMMA ListTyped ==
    ASSUME ListAssumption, ListInv
    PROVE  /\ value \in [Products -> Value] /\ present \subseteq Products
           /\ filter \in Filters /\ client \in {"web", "mobile"}
           /\ \A f \in Filters :
                 /\ Matches(f) \subseteq Products
                 /\ pages[f] \in Seq(Page) /\ moved[f] \subseteq Products
                 /\ fetch[f] = None \/ fetch[f] \in Request
                 /\ pages[f] # <<>> => Last(pages[f]) \in Page
  <1>1. TypeOK
    BY DEF ListInv
  <1>2. ASSUME NEW f \in Filters, pages[f] # <<>>  PROVE Last(pages[f]) \in Page
    BY <1>1, <1>2 DEF TypeOK, Last
  <1> QED  BY <1>1, <1>2 DEF TypeOK, ListAssumption, Matches

\* While the server stays as it is, so do pages.
LEMMA ServerStays ==
    ASSUME ListAssumption, ListInv, UNCHANGED <<descending, server>>, NEW f, NEW s, NEW M
    PROVE  Chain(s, f, M)' <=> Chain(s, f, M)
  <1>1. /\ \A c, d : Less(c, d)' <=> Less(c, d)
        /\ \A i : Key(i)' = Key(i)
        /\ Matches(f)' = Matches(f)
    BY DEF Less, Beyond, Key, Matches, server
  <1>2. ASSUME NEW k \in Nat  PROVE Fits(s, k, f, M)' <=> Fits(s, k, f, M)
    BY <1>1 DEF Fits
  <1> QED  BY <1>2 DEF Chain

\* A step that leaves the server alone and changes what one filter has.
LEMMA OneFilter ==
    ASSUME ListAssumption, ListInv, UNCHANGED <<client, descending, server>>,
           NEW f \in Filters, typed' \in Filters, filter' \in Filters,
           NEW ps \in Seq(Page), NEW ms \in SUBSET Products, NEW r \in Request \cup {None},
           NEW e \in BOOLEAN,
           pages' = [pages EXCEPT ![f] = ps], moved' = [moved EXCEPT ![f] = ms],
           fetch' = [fetch EXCEPT ![f] = r], error' = [error EXCEPT ![f] = e],
           Chain(ps, f, ms), r # None => Pending(f)'
    PROVE  ListInv'
  <1>1. TypeOK
    BY DEF ListInv
  <1>2. /\ pages' \in [Filters -> Seq(Page)] /\ moved' \in [Filters -> SUBSET Products]
        /\ fetch' \in [Filters -> Request \cup {None}] /\ error' \in [Filters -> BOOLEAN]
        /\ pages'[f] = ps /\ moved'[f] = ms /\ fetch'[f] = r
        /\ \A g \in Filters \ {f} : /\ pages'[g] = pages[g] /\ moved'[g] = moved[g]
                                   /\ fetch'[g] = fetch[g]
    BY <1>1 DEF TypeOK
  <1>3. ASSUME NEW g \in Filters
        PROVE  /\ Chain(pages[g], g, moved[g])' /\ (fetch'[g] # None => Pending(g)')
               /\ \A n \in 1..(Len(pages'[g]) - 1) : pages'[g][n].more
    <2>1. CASE g = f
      <3>1. Chain(pages[g], g, moved[g])'
        BY <1>2, <2>1, ServerStays
      <3>2. \A n \in 1..(Len(ps) - 1) : n \in 1..Len(ps) /\ n < Len(ps)
        OBVIOUS
      <3>3. \A n \in 1..(Len(ps) - 1) : ps[n].more
        BY <3>2 DEF Chain
      <3> QED  BY <1>2, <2>1, <3>1, <3>3
    <2>2. CASE g # f
      <3>1. Chain(pages[g], g, moved[g]) /\ (fetch[g] # None => Pending(g))
        BY DEF ListInv
      <3>2. PICK ps2, ms2, r2 : ps2 = pages[g] /\ ms2 = moved[g] /\ r2 = fetch[g]
        OBVIOUS
      <3>3. pages'[g] = ps2 /\ moved'[g] = ms2 /\ fetch'[g] = r2
        BY <1>2, <2>2, <3>2
      <3>4. Chain(pages[g], g, moved[g])'
        BY <3>1, <3>2, <3>3, ServerStays
      <3>5. r2 # None => Pending(g)'
        <4>1. Chain(r2.built, g, r2.moved)' <=> Chain(r2.built, g, r2.moved)
          BY ServerStays
        <4> QED  BY <3>1, <3>2, <3>3, <4>1 DEF Pending
      <3> QED  BY <1>1, <3>2, <3>3, <3>4, <3>5 DEF TypeOK
    <2> QED  BY <2>1, <2>2
  <1> QED  BY <1>1, <1>2, <1>3 DEF ListInv, TypeOK, server

\* Steps that only type or choose a filter, or forget an error.
LEMMA QuietKeeps ==
    ASSUME ListAssumption, ListInv, UNCHANGED <<client, descending, server, pages, moved, fetch>>,
           typed' \in Filters, filter' \in Filters, error' \in [Filters -> BOOLEAN]
    PROVE  ListInv'
  <1>1. ASSUME NEW f \in Filters
        PROVE  Chain(pages[f], f, moved[f])' /\ (fetch'[f] # None => Pending(f)')
    <2>1. Chain(pages[f], f, moved[f]) /\ (fetch[f] # None => Pending(f))
      BY DEF ListInv
    <2>2. PICK ps, ms, r : ps = pages[f] /\ ms = moved[f] /\ r = fetch[f]
      OBVIOUS
    <2>3. Chain(ps, f, ms)' /\ (Chain(r.built, f, r.moved)' <=> Chain(r.built, f, r.moved))
      BY <2>1, <2>2, ServerStays
    <2> QED  BY <2>1, <2>2, <2>3 DEF Pending
  <1> QED  BY <1>1 DEF ListInv, TypeOK, server

\* A change of the catalogue touches one product, which is noted as moved.
LEMMA ChangeKeeps ==
    ASSUME ListAssumption, ListInv, NEW i \in Products,
           (\E v \in Value : ChangeValue(i, v)) \/ ChangePresence(i)
    PROVE  ListInv'
  <1>1. /\ UNCHANGED <<client, descending, typed, filter, pages, error>>
        /\ changes < MaxChanges /\ changes' = changes + 1
        /\ moved' = [f \in Filters |-> moved[f] \cup {i}]
        /\ fetch' = [f \in Filters |-> IF fetch[f] = None THEN None
                                       ELSE [fetch[f] EXCEPT !.moved = @ \cup {i}]]
    BY DEF ChangeValue, ChangePresence, Change
  <1>2. /\ value' \in [Products -> Value] /\ present' \subseteq Products
        /\ \A j \in Products \ {i} : value'[j] = value[j] /\ (j \in present' <=> j \in present)
    BY ListTyped DEF ChangeValue, ChangePresence
  <1>3. TypeOK
    BY DEF ListInv
  <1>4. changes' \in 0..MaxChanges
    BY <1>1, <1>3 DEF TypeOK, ListAssumption
  <1>5. ASSUME NEW f \in Filters
        PROVE  /\ moved'[f] \in SUBSET Products /\ fetch'[f] \in Request \cup {None}
               /\ Chain(pages[f], f, moved[f])' /\ (fetch'[f] # None => Pending(f)')
    <2>1. Chain(pages[f], f, moved[f]) /\ (fetch[f] # None => Pending(f))
      BY DEF ListInv
    <2>2. PICK ps, ms, r : ps = pages[f] /\ ms = moved[f] /\ r = fetch[f]
      OBVIOUS
    <2>3. /\ pages'[f] = ps /\ moved'[f] = ms \cup {i} /\ ms \in SUBSET Products
          /\ fetch'[f] = IF r = None THEN None ELSE [r EXCEPT !.moved = @ \cup {i}]
      BY <1>1, <2>2, ListTyped
    <2>4. Matches(f) \subseteq Products /\ Matches(f)' \subseteq Products
      BY <1>2, ListTyped DEF Matches, ListAssumption
    <2>5. Chain(ps, f, ms \cup {i})'
      BY <1>1, <1>2, <2>1, <2>2, <2>4, ChainLater
    <2>6. CASE r = None
      BY <2>3, <2>5, <2>6
    <2>7. CASE r # None
      <3>1. PICK b, mr, a, k : b = r.built /\ mr = r.moved /\ a = r.after /\ k = r.kind
        OBVIOUS
      <3>2. /\ k \in {"first", "next", "again"} /\ a \in Cursor \cup {None} /\ b \in Seq(Page)
            /\ mr \in SUBSET Products /\ r = [kind |-> k, after |-> a, built |-> b, moved |-> mr]
        BY <2>2, <2>7, <3>1, ListTyped DEF Request
      <3>3. PICK q : q = fetch'[f]
        OBVIOUS
      <3>4. q = [kind |-> k, after |-> a, built |-> b, moved |-> mr \cup {i}]
        BY <2>3, <2>7, <3>2, <3>3
      <3>5. q \in Request
        BY <3>2, <3>4 DEF Request
      <3>6. q.kind = k /\ q.after = a /\ q.built = b /\ q.moved = mr \cup {i}
        BY <3>4
      <3>7. Chain(b, f, mr) => Chain(b, f, mr \cup {i})'
        BY <1>1, <1>2, <2>4, ChainLater
      <3>8. Pending(f)'
        BY <1>1, <2>1, <2>2, <2>3, <2>7, <3>1, <3>3, <3>6, <3>7 DEF Pending
      <3> QED  BY <2>3, <2>5, <3>3, <3>5, <3>8
    <2> QED  BY <2>6, <2>7
  <1>6. moved' \in [Filters -> SUBSET Products] /\ fetch' \in [Filters -> Request \cup {None}]
    BY <1>1, <1>5
  <1> QED  BY <1>1, <1>2, <1>3, <1>4, <1>5, <1>6 DEF ListInv, TypeOK

\* Steps on the page or the screen.
ScreenStep ==
    \/ Debounce \/ PhoneClearFilters \/ WebClearFilters \/ Start \/ WebTryAgain \/ PhoneTryAgain
    \/ WebNextPage \/ WebBack \/ PhoneEndReached \/ Refresh
    \/ \E f \in Filters : WebFilter(f) \/ PhoneType(f) \/ PhoneToggle(f) \/ Fail(f)

LEMMA ScreenKeeps ==
    ASSUME ListAssumption, ListInv, ScreenStep
    PROVE  ListInv'
  <1>1. /\ TypeOK /\ First \in Filters /\ filter \in Filters
        /\ pages = [pages EXCEPT ![filter] = pages[filter]]
        /\ \A f \in Filters : Chain(pages[f], f, moved[f]) /\ (fetch[f] # None => Pending(f))
    BY DEF ListInv, TypeOK, ListAssumption
  <1>2. CASE \/ Debounce \/ PhoneClearFilters \/ WebTryAgain \/ PhoneTryAgain
             \/ \E f \in Filters : PhoneType(f) \/ PhoneToggle(f)
    <2>1. /\ UNCHANGED <<client, descending, server, pages, moved, fetch>>
          /\ typed' \in Filters /\ filter' \in Filters /\ error' \in [Filters -> BOOLEAN]
      BY <1>1, <1>2 DEF Debounce, PhoneClearFilters, WebTryAgain, PhoneTryAgain, TryAgain,
         PhoneType, PhoneToggle, TypeOK
    <2> QED  BY <2>1, QuietKeeps
  <1>3. ASSUME NEW f \in Filters, UpdateParams(f)  PROVE ListInv'
    <2>1. PICK ps, r : /\ ps = Upto(pages[f], 1)
                       /\ r = IF pages[f] = <<>> THEN fetch[f] ELSE None
      OBVIOUS
    <2>2. pages[f] \in Seq(Page) /\ Len(pages[f]) \in Nat /\ (Len(pages[f]) = 0 <=> pages[f] = <<>>)
      BY ListTyped
    <2>3. PICK n : n = Min({Len(pages[f]), 1})
      OBVIOUS
    <2>4. n \in 0..Len(pages[f]) /\ (pages[f] = <<>> => n = 0)
      <3>1. \E x \in {Len(pages[f]), 1} : \A y \in {Len(pages[f]), 1} : x <= y
        BY <2>2
      <3>2. n \in {Len(pages[f]), 1} /\ \A y \in {Len(pages[f]), 1} : n <= y
        BY <2>3, <3>1 DEF Min
      <3> QED  BY <2>2, <3>2
    <2>5. ps = SubSeq(pages[f], 1, n)
      BY <2>1, <2>3 DEF Upto
    <2>6. Chain(ps, f, moved[f]) /\ Len(ps) = n
      BY <1>1, <2>4, <2>5, ChainUpto
    <2>7. ps \in Seq(Page) /\ (pages[f] = <<>> => ps = <<>>)
      BY <2>4, <2>6 DEF Chain
    <2>8. /\ pages' = [pages EXCEPT ![f] = ps] /\ moved' = [moved EXCEPT ![f] = moved[f]]
          /\ fetch' = [fetch EXCEPT ![f] = r] /\ error' = [error EXCEPT ![f] = error[f]]
          /\ typed' \in Filters /\ filter' \in Filters /\ UNCHANGED <<client, descending, server>>
      BY <1>1, <1>3, <2>1 DEF UpdateParams, TypeOK
    <2>9. /\ moved[f] \in SUBSET Products /\ error[f] \in BOOLEAN /\ r \in Request \cup {None}
          /\ pages'[f] = ps /\ fetch'[f] = r
      BY <1>1, <2>1, <2>8 DEF TypeOK
    <2>10. r # None => Pending(f)'
      <3> SUFFICES ASSUME r # None PROVE Pending(f)'
        OBVIOUS
      <3>1. pages[f] = <<>> /\ ps = <<>> /\ r = fetch[f] /\ Pending(f)
        BY <1>1, <2>1, <2>7
      <3>2. Chain(r.built, f, r.moved)' <=> Chain(r.built, f, r.moved)
        BY <2>8, ServerStays
      <3> QED  BY <2>8, <2>9, <3>1, <3>2 DEF Pending
    <2> QED  BY <2>6, <2>7, <2>8, <2>9, <2>10, OneFilter
  <1>4. CASE WebClearFilters \/ \E f \in Filters : WebFilter(f)
    BY <1>1, <1>3, <1>4 DEF WebClearFilters, WebFilter
  <1>5. ASSUME NEW f \in Filters, Fail(f)  PROVE ListInv'
    <2>1. /\ pages' = [pages EXCEPT ![f] = pages[f]] /\ moved' = [moved EXCEPT ![f] = moved[f]]
          /\ fetch' = [fetch EXCEPT ![f] = None] /\ error' = [error EXCEPT ![f] = TRUE]
          /\ typed' \in Filters /\ filter' \in Filters /\ UNCHANGED <<client, descending, server>>
          /\ pages[f] \in Seq(Page) /\ moved[f] \in SUBSET Products
      BY <1>1, <1>5 DEF Fail, TypeOK
    <2> QED  BY <1>1, <2>1, OneFilter
  <1>6. ASSUME NEW kind \in {"first", "next", "again"}, NEW after \in Cursor \cup {None},
               Ask(kind, after),
               UNCHANGED <<client, descending, server, typed, filter, pages, moved, error>>,
               kind = "next" => /\ pages[filter] # <<>> /\ Last(pages[filter]).more
                                /\ after = Last(pages[filter]).end,
               kind = "again" => /\ pages[filter] # <<>>
                                 /\ client = "web" => after = Last(pages[filter]).after
                                 /\ client = "mobile" => after = None
        PROVE  ListInv'
    <2>1. PICK r : r = [kind |-> kind, after |-> after, built |-> <<>>, moved |-> {}]
      OBVIOUS
    <2>2. /\ r \in Request /\ r.kind = kind /\ r.after = after
          /\ r.built = <<>> /\ r.moved = {}
      BY <2>1 DEF Request
    <2>3. /\ pages' = [pages EXCEPT ![filter] = pages[filter]]
          /\ moved' = [moved EXCEPT ![filter] = moved[filter]]
          /\ fetch' = [fetch EXCEPT ![filter] = r]
          /\ error' = [error EXCEPT ![filter] = error[filter]]
          /\ pages[filter] \in Seq(Page) /\ moved[filter] \in SUBSET Products
          /\ error[filter] \in BOOLEAN /\ fetch'[filter] = r
          /\ typed' \in Filters /\ filter' \in Filters
      BY <1>1, <1>6, <2>1 DEF Ask, TypeOK
    <2>4. PICK f : f = filter
      OBVIOUS
    <2>5. Chain(<<>>, f, {})'
      BY DEF Chain
    <2>6. NextAfter(<<>>) = None
      BY DEF NextAfter
    <2>7. Pending(f)'
      BY <1>6, <2>2, <2>3, <2>4, <2>5, <2>6 DEF Pending
    <2>8. /\ pages' = [pages EXCEPT ![f] = pages[f]] /\ moved' = [moved EXCEPT ![f] = moved[f]]
          /\ fetch' = [fetch EXCEPT ![f] = r] /\ error' = [error EXCEPT ![f] = error[f]]
          /\ pages[f] \in Seq(Page) /\ moved[f] \in SUBSET Products /\ error[f] \in BOOLEAN
          /\ typed' \in Filters /\ filter' \in Filters /\ UNCHANGED <<client, descending, server>>
      BY <1>6, <2>3, <2>4
    <2>9. f \in Filters /\ Chain(pages[f], f, moved[f])
      BY <1>1, <2>4
    <2> QED  BY <2>2, <2>7, <2>8, <2>9, OneFilter
  <1>7. pages[filter] # <<>> =>
           /\ Last(pages[filter]) \in Page
           /\ Last(pages[filter]).end \in Cursor \cup {None}
           /\ Last(pages[filter]).after \in Cursor \cup {None}
    BY <1>1, ListTyped DEF Page
  <1>8. CASE Start
    BY <1>6, <1>8 DEF Start
  <1>9. CASE WebNextPage \/ PhoneEndReached
    BY <1>6, <1>7, <1>9 DEF WebNextPage, PhoneEndReached, HasNextPage
  <1>10. CASE Refresh
    <2>1. client \in {"web", "mobile"}
      BY ListTyped
    <2> QED  BY <1>6, <1>7, <1>10, <2>1 DEF Refresh
  <1>11. CASE WebBack
    <2>1. PICK f : f = filter
      OBVIOUS
    <2>2. /\ pages' = [pages EXCEPT ![f] = Front(pages[f])]
          /\ moved' = [moved EXCEPT ![f] = moved[f]]
          /\ fetch' = [fetch EXCEPT ![f] = None] /\ error' = [error EXCEPT ![f] = error[f]]
          /\ typed' \in Filters /\ filter' \in Filters /\ UNCHANGED <<client, descending, server>>
          /\ pages[f] # <<>> /\ moved[f] \in SUBSET Products /\ error[f] \in BOOLEAN
      BY <1>1, <1>11, <2>1 DEF WebBack, TypeOK
    <2>3. Chain(Front(pages[f]), f, moved[f]) /\ Front(pages[f]) \in Seq(Page)
      BY <1>1, <2>1, <2>2, ChainFront DEF Chain
    <2> QED  BY <1>1, <2>1, <2>2, <2>3, OneFilter
  <1> QED  BY <1>2, <1>4, <1>5, <1>8, <1>9, <1>10, <1>11 DEF ScreenStep

\* Answers.
AnswerStep ==
    \E f \in Filters : FirstPage(f) \/ NextPage(f) \/ WebPageAgain(f) \/ PhonePageAgain(f)

LEMMA AnswerKeeps ==
    ASSUME ListAssumption, ListInv, AnswerStep
    PROVE  ListInv'
  <1>1. /\ TypeOK
        /\ \A f \in Filters : Chain(pages[f], f, moved[f]) /\ (fetch[f] # None => Pending(f))
    BY DEF ListInv
  <1>2. PICK f \in Filters : FirstPage(f) \/ NextPage(f) \/ WebPageAgain(f) \/ PhonePageAgain(f)
    BY DEF AnswerStep
  <1>3. PICK r, ps, ms : r = fetch[f] /\ ps = pages[f] /\ ms = moved[f]
    OBVIOUS
  <1>4. /\ r \in Request /\ r # None /\ ps \in Seq(Page) /\ ms \in SUBSET Products
        /\ r.after \in Cursor \cup {None} /\ r.built \in Seq(Page) /\ r.moved \in SUBSET Products
        /\ r.kind \in {"first", "next", "again"} /\ Chain(ps, f, ms) /\ Pending(f)
    <2>1. r # None
      BY <1>2, <1>3 DEF FirstPage, NextPage, WebPageAgain, PhonePageAgain, Asked
    <2>2. r \in Request
      BY <1>3, <2>1, ListTyped
    <2> QED  BY <1>1, <1>3, <2>1, <2>2, ListTyped DEF Request
  <1>5. \A after \in Cursor \cup {None} : Reads(Paginate(f, after), f, after)
    BY ListTyped, PaginateReads
  <1>6. ASSUME NEW rows, NEW since \in SUBSET Products,
               Settle(f, rows, since), Chain(rows, f, since)
        PROVE  ListInv'
    <2>1. /\ pages' = [pages EXCEPT ![f] = rows] /\ moved' = [moved EXCEPT ![f] = since]
          /\ fetch' = [fetch EXCEPT ![f] = None] /\ error' = [error EXCEPT ![f] = FALSE]
          /\ typed' \in Filters /\ filter' \in Filters /\ UNCHANGED <<client, descending, server>>
      BY <1>1, <1>6 DEF Settle, TypeOK
    <2>2. rows \in Seq(Page)
      BY <1>6 DEF Chain
    <2> QED  BY <1>6, <2>1, <2>2, OneFilter
  <1>7. ASSUME NEW s, NEW M, Chain(s, f, M), s # <<>> => Last(s).more,
               NEW after \in Cursor \cup {None}, after = NextAfter(s)
        PROVE  Chain(Append(s, Paginate(f, after)), f, M)
    BY <1>5, <1>7, ListTyped, ChainAppend
  <1>8. CASE FirstPage(f)
    <2>1. PICK p : p = Paginate(f, None)
      OBVIOUS
    <2>2. Chain(<<>>, f, {}) /\ None = NextAfter(<<>>)
      BY DEF Chain, NextAfter
    <2>3. Chain(Append(<<>>, p), f, {})
      BY <1>7, <2>1, <2>2
    <2>4. Append(<<>>, p) = <<p>>
      OBVIOUS
    <2> QED  BY <1>6, <1>8, <2>1, <2>3, <2>4 DEF FirstPage
  <1>9. CASE NextPage(f)
    <2>1. r.kind = "next" /\ Settle(f, Append(ps, Paginate(f, r.after)), ms)
      BY <1>3, <1>9 DEF NextPage, Asked
    <2>2. ps # <<>> /\ Last(ps).more /\ r.after = NextAfter(ps)
      BY <1>3, <1>4, <2>1 DEF Pending, NextAfter
    <2> QED  BY <1>4, <1>6, <1>7, <2>1, <2>2
  <1>10. CASE WebPageAgain(f)
    <2>1. /\ r.kind = "again" /\ client = "web"
          /\ Settle(f, Append(Front(ps), Paginate(f, r.after)), ms)
      BY <1>3, <1>10 DEF WebPageAgain, Asked
    <2>2. ps # <<>> /\ r.after = Last(ps).after
      BY <1>3, <1>4, <2>1 DEF Pending
    <2>3. /\ Chain(Front(ps), f, ms) /\ r.after = NextAfter(Front(ps))
          /\ Front(ps) # <<>> => Last(Front(ps)).more
      BY <1>4, <2>2, ChainFront
    <2> QED  BY <1>4, <1>6, <1>7, <2>1, <2>3
  <1>11. CASE PhonePageAgain(f)
    <2>1. PICK page, built : page = Paginate(f, r.after) /\ built = Append(r.built, page)
      OBVIOUS
    <2>2. r.kind = "again" /\ client = "mobile"
      BY <1>3, <1>11 DEF PhonePageAgain, Asked
    <2>3. /\ Chain(r.built, f, r.moved) /\ r.after = NextAfter(r.built)
          /\ r.built # <<>> => Last(r.built).more
      BY <1>3, <1>4, <2>2 DEF Pending
    <2>4. Chain(built, f, r.moved) /\ page \in Page
      BY <1>4, <1>5, <1>7, <2>1, <2>3 DEF Reads
    <2>5. CASE Settle(f, built, r.moved)
      BY <1>4, <1>6, <2>4, <2>5
    <2>6. CASE ~Settle(f, built, r.moved)
      <3>1. /\ page.more /\ fetch' = [fetch EXCEPT ![f].built = built, ![f].after = page.end]
            /\ UNCHANGED <<client, descending, server, typed, filter, pages, moved, error>>
        BY <1>3, <1>11, <2>1, <2>6 DEF PhonePageAgain
      <3>2. PICK q : q = [kind |-> r.kind, after |-> page.end, built |-> built, moved |-> r.moved]
        OBVIOUS
      <3>3. page.end \in Cursor \cup {None} /\ built \in Seq(Page)
        BY <2>4 DEF Page, Chain
      <3>4. q \in Request
        BY <1>4, <3>2, <3>3 DEF Request
      <3>5. q.kind = "again" /\ q.after = page.end /\ q.built = built /\ q.moved = r.moved
        BY <2>2, <3>2
      <3>6. PICK k, a, b, m : r = [kind |-> k, after |-> a, built |-> b, moved |-> m]
        BY <1>4 DEF Request
      <3>7. [[r EXCEPT !.built = built] EXCEPT !.after = page.end] = q
        <4>1. r.kind = k /\ r.moved = m
          BY <3>6
        <4>2. q = [kind |-> k, after |-> page.end, built |-> built, moved |-> m]
          BY <3>2, <4>1
        <4>3. PICK r1 : r1 = [r EXCEPT !.built = built]
          OBVIOUS
        <4>4. PICK e : e = page.end
          OBVIOUS
        <4>5. r1 = [kind |-> k, after |-> a, built |-> built, moved |-> m]
          BY <3>6, <4>3
        <4>6. [r1 EXCEPT !.after = e] = [kind |-> k, after |-> e, built |-> built, moved |-> m]
          BY <4>5
        <4> QED  BY <4>2, <4>3, <4>4, <4>6, Zenon
      <3>8. fetch' = [fetch EXCEPT ![f] = q]
        BY <1>1, <1>3, <3>1, <3>7 DEF TypeOK
      <3>9. /\ pages' = [pages EXCEPT ![f] = ps] /\ moved' = [moved EXCEPT ![f] = ms]
            /\ error' = [error EXCEPT ![f] = error[f]] /\ error[f] \in BOOLEAN
            /\ typed' \in Filters /\ filter' \in Filters /\ fetch'[f] = q
            /\ UNCHANGED <<client, descending, server>>
        BY <1>1, <1>3, <3>1, <3>8 DEF TypeOK
      <3>10. Last(built) = page /\ built # <<>>
        BY <1>4, <2>1 DEF Last
      <3>11. Chain(q.built, f, q.moved)'
        BY <2>4, <3>5, <3>9, ServerStays
      <3>12. Pending(f)'
        BY <2>2, <3>1, <3>5, <3>9, <3>10, <3>11 DEF Pending, NextAfter
      <3> QED  BY <1>4, <3>4, <3>8, <3>9, <3>12, OneFilter
    <2> QED  BY <2>5, <2>6
  <1> QED  BY <1>2, <1>8, <1>9, <1>10, <1>11

\* Every step keeps the invariant.
LEMMA ListNext == ListAssumption /\ ListInv /\ [Next]_vars => ListInv'
  <1> SUFFICES ASSUME ListAssumption, ListInv, [Next]_vars PROVE ListInv'
    OBVIOUS
  <1>1. CASE ScreenStep
    BY <1>1, ScreenKeeps
  <1>2. CASE AnswerStep
    BY <1>2, AnswerKeeps
  <1>3. CASE \E i \in Products : ChangePresence(i) \/ \E v \in Value : ChangeValue(i, v)
    BY <1>3, ChangeKeeps
  <1>4. CASE UNCHANGED vars
    <2>1. TypeOK
      BY DEF ListInv
    <2> QED  BY <1>4, <2>1, QuietKeeps DEF vars, server, TypeOK
  <1> QED  BY <1>1, <1>2, <1>3, <1>4 DEF Next, ScreenStep, AnswerStep

\* What the invariant says of the rows.
LEMMA ListGives == ListAssumption /\ ListInv => NoRowIsSkipped /\ NoRowIsRepeated
  <1> SUFFICES ASSUME ListAssumption, ListInv PROVE NoRowIsSkipped /\ NoRowIsRepeated
    OBVIOUS
  <1>1. ASSUME NEW f \in Filters
        PROVE  /\ pages[f] \in Seq(Page) /\ Len(pages[f]) \in Nat
               /\ DOMAIN pages[f] = 1..Len(pages[f]) /\ Matches(f) \subseteq Products
               /\ \A k \in 1..Len(pages[f]) : Fits(pages[f], k, f, moved[f])
    BY ListTyped DEF ListInv, Chain
  <1>2. ASSUME NEW f \in Filters, pages[f] # <<>>, ~Last(pages[f]).more
        PROVE  Matches(f) \ moved[f] \subseteq Listed(f)
    <2>1. Len(pages[f]) \in 1..Len(pages[f])
      BY <1>1, <1>2
    <2>2. Fits(pages[f], Len(pages[f]), f, moved[f]) /\ ~pages[f][Len(pages[f])].more
      BY <1>1, <1>2, <2>1 DEF Last
    <2>3. \A i \in Matches(f) \ moved[f] : \E m \in 1..Len(pages[f]) : Contains(pages[f][m].ids, i)
      BY <2>2 DEF Fits
    <2> QED  BY <1>1, <2>3 DEF Listed
  <1>3. ASSUME NEW f \in Filters, NEW i \in Products \ moved[f],
               NEW m \in DOMAIN pages[f], NEW n \in DOMAIN pages[f], m # n,
               Contains(pages[f][m].ids, i)
        PROVE  ~Contains(pages[f][n].ids, i)
    <2>1. m \in 1..Len(pages[f]) /\ n \in 1..Len(pages[f])
      BY <1>1
    <2>2. CASE m < n
      <3>1. m \in 1..(n - 1) /\ Fits(pages[f], n, f, moved[f])
        BY <1>1, <2>1, <2>2
      <3> QED  BY <1>3, <3>1 DEF Fits
    <2>3. CASE n < m
      <3>1. n \in 1..(m - 1) /\ Fits(pages[f], m, f, moved[f])
        BY <1>1, <2>1, <2>3
      <3> QED  BY <1>3, <3>1 DEF Fits
    <2> QED  BY <1>1, <1>3, <2>1, <2>2, <2>3
  <1> QED  BY <1>2, <1>3 DEF NoRowIsSkipped, NoRowIsRepeated

\* A list read to its end, page after page, has every product of the catalogue that
\* did not change meanwhile, and has it once: whatever the order, the values that
\* are missing, the filter, the size of a page, and the pages read again.
THEOREM EachRowIsOnce ==
    ASSUME ListAssumption
    PROVE  Init /\ [][Next]_vars => [](NoRowIsSkipped /\ NoRowIsRepeated)
  BY ListInit, ListNext, ListGives, PTL

\* The list keeps its types: every page that is not the last has more after it.
THEOREM ListIsTyped ==
    ASSUME ListAssumption
    PROVE  Init /\ [][Next]_vars => []TypeOK
  <1>1. ListInv => TypeOK
    BY DEF ListInv
  <1> QED  BY <1>1, ListInit, ListNext, PTL
=============================================================================
