-------------------------- MODULE LogQueriesProofs --------------------------
(***************************************************************************)
(* What a row costs, and what a walk through the pages of the details may  *)
(* miss, for any rows, forms and page sizes and however much is logged     *)
(* meanwhile.                                                              *)
(***************************************************************************)
EXTENDS LogQueries, FiniteSetTheorems, WellFoundedInduction, TLAPS

-----------------------------------------------------------------------------
(* The order of the details.                                               *)

(* A database, a form and a number of rows that there have been.           *)
Sane(n) ==
  /\ logs \in Seq(Shapes) /\ options \in Options /\ form \in Forms
  /\ n \in 0 .. Len(logs)

(* The page size of a form.                                                *)
LEMMA SizeType ==
  ASSUME form \in Forms
  PROVE  form.page_size \in Nat \ {0}
BY FormsAssumption

(* The numbers that the costs of a row are made of.                        *)
LEMMA FieldTypes ==
  ASSUME NEW row \in Shapes
  PROVE  /\ row.created_at \in Int /\ row.quota \in Int /\ row.completion \in Int
         /\ CacheRead(row) \in Int /\ PurePrompt(row) \in Int /\ GroupRatio(row) \in Int
         /\ Number(row.model_ratio) \in Int /\ Number(row.completion_ratio) \in Int
         /\ Number(row.cache_ratio) \in Int /\ One \in Int
<1>1. \A v \in Int \union {Absent} : Number(v) \in Int
  BY DEF Number, OrDefault
<1>. DEFINE Lacking == Int \union {Absent}
<1>0. \A v \in Lacking : Number(v) \in Int
  BY <1>1
<1>2. /\ row.created_at \in Int /\ row.quota \in Int
      /\ row.prompt \in Int /\ row.completion \in Int
      /\ row.cache_tokens \in Lacking /\ row.creation \in Lacking
      /\ row.creation_5m \in Lacking /\ row.creation_1h \in Lacking
      /\ row.model_ratio \in Lacking /\ row.completion_ratio \in Lacking
      /\ row.cache_ratio \in Lacking /\ row.model_price \in Lacking
      /\ row.user_group_ratio \in Lacking /\ row.group_ratio \in Lacking
  <2>1. /\ {row.created_at, row.quota} \subseteq Nat
        /\ {row.prompt, row.completion} \subseteq Int
    BY ShapesAssumption, Zenon
  <2>2. {row.cache_tokens, row.creation, row.creation_5m, row.creation_1h, row.model_ratio,
         row.completion_ratio, row.cache_ratio, row.model_price, row.user_group_ratio,
         row.group_ratio} \subseteq Lacking
    BY ShapesAssumption, Zenon
  <2>. QED
    BY <2>1, <2>2
<1>3. CacheRead(row) \in Int
  BY <1>0, <1>2 DEF CacheRead
<1>4. Timed(row) \in Int
  <2>1. Number(row.creation_5m) \in Int /\ Number(row.creation_1h) \in Int
    BY <1>0, <1>2
  <2>. QED
    BY <2>1 DEF Timed
<1>5. CacheWrite(row) \in Int
  BY <1>0, <1>2, <1>4 DEF CacheWrite
<1>6. PurePrompt(row) \in Int
  BY <1>2, <1>3, <1>5 DEF PurePrompt, AtLeast0
<1>7. One \in Int
  BY OneAssumption
<1>8. GroupRatio(row) \in Int
  BY <1>2, <1>7 DEF GroupRatio, OrDefault
<1>. QED
  BY <1>1, <1>2, <1>3, <1>6, <1>7, <1>8

(* The price of a token is in proportion to the rate.                      *)
LEMMA PriceScales ==
  ASSUME NEW row \in Shapes, NEW rate \in Int, NEW ratio \in Int
  PROVE  /\ TokenPrice(row, 1, ratio) \in Int
         /\ TokenPrice(row, rate, ratio) = TokenPrice(row, 1, ratio) * rate
<1>1. PICK m \in Int, g \in Int : m = Number(row.model_ratio) /\ g = GroupRatio(row)
  BY FieldTypes
<1>2. CASE FixedPrice(row)
  BY <1>2 DEF TokenPrice
<1>3. CASE ~FixedPrice(row)
  <2>1. /\ TokenPrice(row, 1, ratio) = m * ratio * g * 1
        /\ TokenPrice(row, rate, ratio) = m * ratio * g * rate
    BY <1>1, <1>3 DEF TokenPrice
  <2>. QED
    BY <2>1
<1>. QED
  BY <1>2, <1>3

(* So are the costs that the details are ordered by.                       *)
LEMMA CostScales ==
  ASSUME NEW row \in Shapes, NEW rate \in Int, NEW by \in DOMAIN CostOrders
  PROVE  LET c == CostOrders[by]
         IN  /\ Column(row, 1, c) \in Int
             /\ Column(row, rate, c) = Column(row, 1, c) * rate
<1>1. \A x, y \in Int : x * y \in Int /\ x * (y * rate) = (x * y) * rate
  OBVIOUS
<1>2. CASE by = "cost_total"
  <2>1. PICK q \in Int, u \in Int : q = row.quota /\ u = One
    BY FieldTypes
  <2>2. \A x \in Int : q * x * u * u * u = (q * u * u * u) * x /\ q * u * u * u \in Int
    BY <1>1
  <2>3. q * 1 * u * u * u = q * u * u * u
    OBVIOUS
  <2>. QED
    BY <1>2, <2>1, <2>2, <2>3 DEF CostOrders, Column, CostTotal
<1>3. CASE by = "cost_input"
  BY <1>1, <1>3, FieldTypes, PriceScales DEF CostOrders, Column, CostInput
<1>4. CASE by = "cost_output"
  BY <1>1, <1>4, FieldTypes, PriceScales DEF CostOrders, Column, CostOutput
<1>5. CASE by = "cost_cache_read"
  BY <1>1, <1>5, FieldTypes, PriceScales DEF CostOrders, Column, CostCacheRead
<1>. QED
  BY <1>2, <1>3, <1>4, <1>5 DEF CostOrders

(* What a row is ordered by, from its number, itself, the form and a rate. *)
Key(i, row, f, rate) ==
  CASE f.order_by = "id"    -> i
    [] f.order_by = "quota" -> row.quota
    [] f.order_by \in DOMAIN CostOrders -> Column(row, rate, CostOrders[f.order_by])
    [] OTHER                -> row.created_at

(* It is a number.                                                         *)
LEMMA KeyNumber ==
  ASSUME NEW i \in Int, NEW row \in Shapes, NEW f, NEW rate \in Int
  PROVE  Key(i, row, f, rate) \in Int
<1>1. \A by \in DOMAIN CostOrders : Column(row, rate, CostOrders[by]) \in Int
  BY CostScales
<1>. QED
  BY <1>1, FieldTypes DEF Key

(* Every positive rate makes the same order.                               *)
LEMMA SameOrder ==
  ASSUME NEW i \in Int, NEW j \in Int, NEW row1 \in Shapes, NEW row2 \in Shapes,
         NEW f \in Forms, NEW o \in Options
  PROVE  /\ Key(i, row1, f, Rate(o)) < Key(j, row2, f, Rate(o))
              <=> Key(i, row1, f, 1) < Key(j, row2, f, 1)
         /\ Key(i, row1, f, Rate(o)) = Key(j, row2, f, Rate(o))
              <=> Key(i, row1, f, 1) = Key(j, row2, f, 1)
<1>. DEFINE r == Rate(o)
<1>1. CASE f.order_by \in DOMAIN CostOrders
  <2>. DEFINE c == CostOrders[f.order_by]
  <2>1. r > 0 /\ r \in Int
    BY <1>1, CostOrderAssumption, OptionsAssumption DEF Rate, OrDefault
  <2>2. PICK a \in Int, b \in Int : a = Column(row1, 1, c) /\ b = Column(row2, 1, c)
    BY <1>1, CostScales
  <2>3. Column(row1, r, c) = a * r /\ Column(row2, r, c) = b * r
    BY <1>1, <2>1, <2>2, CostScales
  <2>4. (a * r < b * r <=> a < b) /\ (a * r = b * r <=> a = b)
    <3>. HIDE DEF r
    <3>1. ASSUME NEW x \in Int, NEW y \in Int, x < y
          PROVE  x * r < y * r
      BY <2>1, <3>1
    <3>2. a * r \in Int /\ b * r \in Int
      BY <2>1
    <3>. QED
      BY <3>1, <3>2
  <2>5. f.order_by # "id" /\ f.order_by # "quota"
    BY <1>1 DEF CostOrders
  <2>. QED
    BY <1>1, <2>2, <2>3, <2>4, <2>5 DEF Key
<1>2. CASE f.order_by \notin DOMAIN CostOrders
  BY <1>2 DEF Key
<1>. QED
  BY <1>1, <1>2

(* What the details are ordered by is a number.                            *)
LEMMA KeyType ==
  ASSUME logs \in Seq(Shapes), options \in Options, NEW i \in 1 .. Len(logs)
  PROVE  OrderKey(i) \in Int
<1>1. logs[i] \in Shapes /\ Rate(options) \in Int
  BY OptionsAssumption DEF Rate, OrDefault
<1>2. OrderKey(i) = Key(i, logs[i], form, Rate(options))
  BY DEF OrderKey, OrderKeyAt, Key
<1> QED
  BY <1>1, <1>2, KeyNumber

(* Before is a strict total order of the rows.                             *)
LEMMA BeforeOrders ==
  ASSUME logs \in Seq(Shapes), options \in Options,
         NEW i \in 1 .. Len(logs), NEW j \in 1 .. Len(logs), NEW k \in 1 .. Len(logs)
  PROVE  /\ ~Before(i, i)
         /\ Before(i, j) /\ Before(j, k) => Before(i, k)
         /\ i # j => Before(i, j) \/ Before(j, i)
<1>1. OrderKey(i) \in Int /\ OrderKey(j) \in Int /\ OrderKey(k) \in Int
  BY KeyType
<1> QED
  BY <1>1 DEF Before

(* The rows that pass are finitely many of those there are.                *)
LEMMA MatchingFinite ==
  ASSUME NEW n \in Nat
  PROVE  /\ Matching(n) \subseteq 1 .. n
         /\ IsFiniteSet(Matching(n))
         /\ Cardinality(Matching(n)) \in 0 .. n
<1>1. Matching(n) \subseteq 1 .. n
  BY DEF Matching
<1>2. IsFiniteSet(1 .. n) /\ Cardinality(1 .. n) = n
  BY FS_Interval
<1>3. IsFiniteSet(Matching(n)) /\ Cardinality(Matching(n)) =< n
  BY <1>1, <1>2, FS_Subset
<1>4. Cardinality(Matching(n)) \in Nat
  BY <1>3, FS_CardinalityType
<1> QED
  BY <1>1, <1>3, <1>4

(* A row that passes goes on passing as rows are added.                    *)
LEMMA MatchingGrows ==
  ASSUME NEW m \in Nat, NEW n \in Nat, m =< n
  PROVE  Matching(m) \subseteq Matching(n)
BY DEF Matching

(* The rows before row i.                                                  *)
Earlier(n, i) == {j \in Matching(n) : Before(j, i)}

(* A row's rank is the number of rows before it.                           *)
LEMMA EarlierFinite ==
  ASSUME NEW n \in Nat, NEW i
  PROVE  /\ IsFiniteSet(Earlier(n, i))
         /\ Rank(n, i) = Cardinality(Earlier(n, i))
         /\ Rank(n, i) \in Nat
<1>1. IsFiniteSet(Earlier(n, i))
  BY MatchingFinite, FS_Subset DEF Earlier
<1>2. Rank(n, i) = Cardinality(Earlier(n, i))
  BY DEF Rank, Earlier
<1> QED
  BY <1>1, <1>2, FS_CardinalityType

(* Ranks follow the order, and the last is less than the number of rows.   *)
LEMMA RankFollows ==
  ASSUME NEW n, Sane(n), NEW i \in Matching(n), NEW j \in Matching(n), Before(i, j)
  PROVE  Rank(n, i) < Rank(n, j)
<1>1. n \in Nat /\ Matching(n) \subseteq 1 .. Len(logs)
  BY MatchingFinite DEF Sane
<1>2. Earlier(n, i) \subseteq Earlier(n, j)
  BY <1>1, BeforeOrders DEF Earlier, Sane
<1>3. i \in Earlier(n, j) /\ i \notin Earlier(n, i)
  BY <1>1, BeforeOrders DEF Earlier, Sane
<1>4. /\ Cardinality(Earlier(n, i)) =< Cardinality(Earlier(n, j))
      /\ Cardinality(Earlier(n, i)) # Cardinality(Earlier(n, j))
  BY <1>1, <1>2, <1>3, EarlierFinite, FS_Subset
<1> QED
  BY <1>1, <1>4, EarlierFinite

(* A rank is less than the number of rows that pass.                       *)
LEMMA RankBelow ==
  ASSUME NEW n, Sane(n), NEW i \in Matching(n)
  PROVE  Rank(n, i) \in 0 .. Cardinality(Matching(n)) - 1
<1>1. n \in Nat /\ Matching(n) \subseteq 1 .. Len(logs)
  BY MatchingFinite DEF Sane
<1>2. Earlier(n, i) \subseteq Matching(n) /\ i \notin Earlier(n, i)
  BY <1>1, BeforeOrders DEF Earlier, Sane
<1>3. /\ Cardinality(Earlier(n, i)) =< Cardinality(Matching(n))
      /\ Cardinality(Earlier(n, i)) # Cardinality(Matching(n))
  BY <1>1, <1>2, MatchingFinite, FS_Subset
<1> QED
  BY <1>1, <1>3, EarlierFinite, MatchingFinite

(* A row's rank grows with the rows there are.                             *)
LEMMA RankGrows ==
  ASSUME NEW m \in Nat, NEW n \in Nat, Matching(m) \subseteq Matching(n), NEW i
  PROVE  Rank(m, i) =< Rank(n, i)
<1>1. Earlier(m, i) \subseteq Earlier(n, i)
  BY DEF Earlier
<1> QED
  BY <1>1, EarlierFinite, FS_Subset

-----------------------------------------------------------------------------
(* Counting rows by their ranks.                                           *)

(* Numbers that are all different and less than their number are all the   *)
(* numbers there are: so many of them are in an interval.                  *)
ValuedIn(M, r, a, b) == {x \in M : r[x] \in a .. b}

(* So ValuedIn is as large as the part of the interval that there are      *)
(* numbers for.                                                            *)
LEMMA CountInInterval ==
  ASSUME NEW M, IsFiniteSet(M), NEW r \in [M -> 0 .. Cardinality(M) - 1],
         \A x, y \in M : r[x] = r[y] => x = y,
         NEW a \in Int, NEW b \in Int
  PROVE  /\ IsFiniteSet(ValuedIn(M, r, a, b))
         /\ Cardinality(ValuedIn(M, r, a, b))
              = Cardinality((a .. b) \intersect (0 .. Cardinality(M) - 1))
<1> DEFINE N == Cardinality(M)
           P == {x \in M : r[x] \in a .. b}
           I == (a .. b) \intersect (0 .. N - 1)
           f == [x \in P |-> r[x]]
<1>1. N \in Nat
  BY FS_CardinalityType
<1>2. IsFiniteSet(0 .. N - 1) /\ Cardinality(0 .. N - 1) = N
  <2> HIDE DEF N
  <2>1. N - 1 \in Int
    BY <1>1
  <2>2. /\ IsFiniteSet(0 .. N - 1)
        /\ Cardinality(0 .. N - 1) = IF 0 > N - 1 THEN 0 ELSE (N - 1) - 0 + 1
    BY <2>1, FS_Interval
  <2> QED
    BY <1>1, <2>2
<1>3. r \in Injection(M, 0 .. N - 1)
  BY DEF Injection, IsInjective
<1>4. r \in Surjection(M, 0 .. N - 1)
  BY <1>2, <1>3, FS_Injection
<1>5. f \in Injection(P, I)
  BY DEF Injection, IsInjective
<1>6. f \in Surjection(P, I)
  <2>1. ASSUME NEW y \in I
        PROVE  \E x \in P : f[x] = y
    <3>1. PICK x \in M : r[x] = y
      BY <1>4 DEF Surjection
    <3> QED
      BY <3>1
  <2> QED
    BY <1>5, <2>1 DEF Surjection, Injection
<1>7. IsFiniteSet(P)
  BY FS_Subset
<1>8. ExistsBijection(P, I)
  BY <1>5, <1>6 DEF ExistsBijection, Bijection
<1> QED
  BY <1>7, <1>8, FS_Bijection DEF ValuedIn

(* Rows whose rank is in an interval.                                      *)
RankIn(n, a, b) == {i \in Matching(n) : Rank(n, i) \in a .. b}

(* How many rows have a rank in an interval.                               *)
LEMMA CountRanks ==
  ASSUME NEW n, Sane(n), NEW a \in Nat, NEW b \in Int
  PROVE  LET N == Cardinality(Matching(n))
             last == IF b < N THEN b ELSE N - 1
         IN  /\ IsFiniteSet(RankIn(n, a, b))
             /\ Cardinality(RankIn(n, a, b)) = IF a > last THEN 0 ELSE last - a + 1
<1> DEFINE N == Cardinality(Matching(n))
           last == IF b < N THEN b ELSE N - 1
           r == [i \in Matching(n) |-> Rank(n, i)]
<1>1. n \in Nat /\ Matching(n) \subseteq 1 .. Len(logs) /\ N \in Nat /\ IsFiniteSet(Matching(n))
  BY MatchingFinite DEF Sane
<1>2. r \in [Matching(n) -> 0 .. N - 1]
  BY RankBelow
<1>3. ASSUME NEW x \in Matching(n), NEW y \in Matching(n), r[x] = r[y]
      PROVE  x = y
  <2>1. SUFFICES ASSUME Before(x, y) \/ Before(y, x)
                 PROVE  FALSE
    BY <1>1, BeforeOrders DEF Sane
  <2>2. Rank(n, x) \in Nat /\ Rank(n, y) \in Nat
    BY <1>1, EarlierFinite
  <2> QED
    BY <1>3, <2>1, <2>2, RankFollows
<1>4. /\ IsFiniteSet(ValuedIn(Matching(n), r, a, b))
      /\ Cardinality(ValuedIn(Matching(n), r, a, b))
           = Cardinality((a .. b) \intersect (0 .. N - 1))
  <2>1. ASSUME NEW M, M = Matching(n), NEW f, f = r
        PROVE  /\ IsFiniteSet(ValuedIn(M, f, a, b))
               /\ Cardinality(ValuedIn(M, f, a, b))
                    = Cardinality((a .. b) \intersect (0 .. Cardinality(M) - 1))
    <3>1. IsFiniteSet(M) /\ f \in [M -> 0 .. Cardinality(M) - 1]
      BY <1>1, <1>2, <2>1
    <3>2. \A x, y \in M : f[x] = f[y] => x = y
      BY <1>3, <2>1
    <3> QED
      BY <3>1, <3>2, CountInInterval
  <2> QED
    BY <2>1
<1>5. ValuedIn(Matching(n), r, a, b) = RankIn(n, a, b)
  BY DEF RankIn, ValuedIn
<1>6. (a .. b) \intersect (0 .. N - 1) = a .. last /\ last \in Int
  BY <1>1
<1>7. Cardinality(a .. last) = IF a > last THEN 0 ELSE last - a + 1
  <2> HIDE DEF last
  <2> QED
    BY <1>6, FS_Interval
<1> QED
  BY <1>4, <1>5, <1>6, <1>7

(* The rows of a page, and how many they are.                              *)
LEMMA PageType ==
  ASSUME form \in Forms, NEW p \in Nat \ {0}
  PROVE  /\ Offset(p) \in Nat
         /\ Offset(p + 1) = p * form.page_size
         /\ Offset(p + 1) = Offset(p) + form.page_size
BY SizeType DEF Offset

(* A page has as many rows as any count of no more rows than it is read    *)
(* from promises.                                                          *)
LEMMA PageKeepsPromise ==
  ASSUME NEW n, Sane(n), NEW p \in Nat \ {0},
         NEW total \in Nat, total =< Cardinality(Matching(n))
  PROVE  Cardinality(PageRows(n, p)) >= Promised(p, total)
<1> DEFINE N == Cardinality(Matching(n))
           a == Offset(p)
           b == a + form.page_size - 1
<1>1. a \in Nat /\ form.page_size \in Nat \ {0} /\ N \in Nat /\ n \in Nat
  <2>1. form \in Forms /\ n \in Nat
    BY DEF Sane
  <2> QED
    BY <2>1, PageType, SizeType, MatchingFinite
<1>2. PageRows(n, p) = RankIn(n, a, b)
  BY DEF PageRows, RankIn
<1>3. Cardinality(RankIn(n, a, b)) =
        IF a > (IF b < N THEN b ELSE N - 1) THEN 0 ELSE (IF b < N THEN b ELSE N - 1) - a + 1
  <2>1. b \in Int
    BY <1>1
  <2> HIDE DEF a, b
  <2> QED
    BY <1>1, <2>1, CountRanks
<1>4. Promised(p, total) = IF total - a > form.page_size THEN form.page_size ELSE total - a
  BY DEF Promised
<1> HIDE DEF a
<1> QED
  BY <1>1, <1>2, <1>3, <1>4

-----------------------------------------------------------------------------
(* What a step of the walk may lose.                                       *)

(* The first o rows in the order of the details.                           *)
First(n, o) == {i \in Matching(n) : Rank(n, i) < o}

(* They are o, or all rows if there are fewer.                             *)
LEMMA FirstCount ==
  ASSUME NEW n, Sane(n), NEW o \in Nat
  PROVE  LET N == Cardinality(Matching(n))
         IN  /\ IsFiniteSet(First(n, o)) /\ N \in Nat
             /\ Cardinality(First(n, o)) = IF o < N THEN o ELSE N
<1>1. n \in Nat /\ Cardinality(Matching(n)) \in Nat
  BY MatchingFinite DEF Sane
<1>2. First(n, o) = RankIn(n, 0, o - 1)
  BY <1>1, EarlierFinite DEF First, RankIn
<1> QED
  BY <1>1, <1>2, CountRanks

(* Fewer rows than before: those that have gone, and those that were not   *)
(* among the first o and are now, are together no more than have gone.     *)
LEMMA PushedOn ==
  ASSUME NEW r, Sane(r), NEW s, Sane(s), s =< r, NEW o \in Nat
  PROVE  LET D == Matching(r) \ Matching(s)
             X == (D \union First(s, o)) \ First(r, o)
         IN  IsFiniteSet(X) /\ IsFiniteSet(D) /\ Cardinality(X) =< Cardinality(D)
<1> DEFINE D == Matching(r) \ Matching(s)
           A == First(r, o)
           B == First(s, o)
<1>1. /\ r \in Nat /\ s \in Nat /\ Matching(s) \subseteq Matching(r)
      /\ IsFiniteSet(Matching(r))
  BY MatchingFinite, MatchingGrows DEF Sane
<1>2. IsFiniteSet(D) /\ Cardinality(D) \in Nat
  BY <1>1, FS_Difference, FS_CardinalityType
<1>3. IsFiniteSet(A) /\ IsFiniteSet(B) /\ Cardinality(A) \in Nat /\ Cardinality(B) \in Nat
  BY FirstCount, FS_CardinalityType
<1>4. A \subseteq D \union B
  <2>1. ASSUME NEW i \in A, i \in Matching(s)
        PROVE  i \in B
    <3>1. Rank(s, i) =< Rank(r, i) /\ Rank(r, i) < o
      BY <1>1, <2>1, RankGrows DEF First
    <3>2. Rank(s, i) \in Nat /\ Rank(r, i) \in Nat
      BY <1>1, EarlierFinite
    <3> QED
      BY <2>1, <3>1, <3>2 DEF First
  <2> QED
    BY <2>1 DEF First
<1>5. D \intersect B = {}
  BY DEF First
<1>6. IsFiniteSet(D \union B) /\ Cardinality(D \union B) = Cardinality(D) + Cardinality(B)
  <2> HIDE DEF D, B
  <2>1. IsFiniteSet(D \union B) /\ Cardinality(D \union B) = Cardinality(D) + Cardinality(B) - Cardinality(D \intersect B)
    BY <1>2, <1>3, FS_Union
  <2>2. Cardinality(D \intersect B) = 0
    BY <1>5, FS_EmptySet
  <2> QED
    BY <1>2, <1>3, <2>1, <2>2
<1>7. /\ IsFiniteSet((D \union B) \ A)
      /\ Cardinality((D \union B) \ A) = Cardinality(D) + Cardinality(B) - Cardinality(A)
  <2>1. (D \union B) \intersect A = A
    BY <1>4
  <2> DEFINE U == D \union B
  <2> SUFFICES IsFiniteSet(U \ A) /\ Cardinality(U \ A) = Cardinality(U) - Cardinality(A)
    <3> HIDE DEF A, B, D
    <3> QED
      BY <1>2, <1>3, <1>6
  <2>2. U \intersect A = A
    BY <2>1
  <2>3. IsFiniteSet(U)
    BY <1>6
  <2> HIDE DEF A, U
  <2> QED
    BY <2>2, <2>3, FS_Difference
<1>8. CASE Cardinality(Matching(r)) =< o
  <2>1. A = Matching(r)
    <3>1. Cardinality(Matching(r)) \in Nat
      BY <1>1, FS_CardinalityType
    <3>2. \A i \in Matching(r) : Rank(r, i) < o
      <4>1. TAKE i \in Matching(r)
      <4>2. Rank(r, i) \in 0 .. Cardinality(Matching(r)) - 1
        BY RankBelow
      <4> QED
        BY <1>8, <3>1, <4>2
    <3> QED
      BY <3>2 DEF First
  <2>2. (D \union B) \ A = {}
    BY <1>1, <2>1 DEF First
  <2> QED
    BY <1>2, <2>2, FS_EmptySet
<1>9. CASE ~(Cardinality(Matching(r)) =< o)
  <2>1. Cardinality(A) = o /\ Cardinality(B) =< o
    <3>1. Cardinality(A) = o
      BY <1>9, FirstCount
    <3>2. Cardinality(B) =< o
      BY FirstCount
    <3> QED
      BY <3>1, <3>2
  <2> HIDE DEF A, B, D
  <2>2. Cardinality((D \union B) \ A) =< Cardinality(D)
    BY <1>2, <1>3, <1>7, <2>1
  <2> QED
    BY <1>2, <1>7, <2>2 DEF A, B, D
<1> QED
  BY <1>8, <1>9

(* Rows of a walk that began with the first from rows, that it has not     *)
(* shown and that are not to come after the first o of n rows either.      *)
Lost(from, shown, n, o) ==
  {i \in Matching(from) \ shown : i \in Matching(n) => Rank(n, i) < o}

(* What is lost is finite: a part of what there was at the start.          *)
LEMMA LostFinite ==
  ASSUME NEW from \in Nat, NEW shown, NEW n, NEW o
  PROVE  /\ IsFiniteSet(Lost(from, shown, n, o))
         /\ Cardinality(Lost(from, shown, n, o)) \in Nat
<1>1. IsFiniteSet(Lost(from, shown, n, o))
  BY MatchingFinite, FS_Subset DEF Lost
<1> QED
  BY <1>1, FS_CardinalityType

(* The first page loses nothing.                                           *)
LEMMA FirstPageLosesNothing ==
  ASSUME NEW n, Sane(n)
  PROVE  Lost(n, PageRows(n, 1), n, form.page_size) = {}
<1>1. n \in Nat /\ form.page_size \in Nat \ {0} /\ Offset(1) = 0
  <2>1. n \in Nat /\ form \in Forms
    BY DEF Sane
  <2>2. form.page_size \in Nat \ {0}
    BY <2>1, SizeType
  <2> QED
    BY <2>1, <2>2 DEF Offset
<1>2. \A i : Rank(n, i) \in Nat
  BY <1>1, EarlierFinite
<1>3. ASSUME NEW i \in Matching(n), Rank(n, i) < form.page_size
      PROVE  i \in PageRows(n, 1)
  BY <1>1, <1>2, <1>3 DEF PageRows
<1> QED
  BY <1>3 DEF Lost

(* A step to page p + 1 loses no more than have gone since page p was      *)
(* read.                                                                   *)
LEMMA StepLosesFew ==
  ASSUME NEW r, Sane(r), NEW s, Sane(s), NEW p \in Nat \ {0},
         NEW from \in Nat, NEW shown
  PROVE  LET L == Lost(from, shown, r, p * form.page_size)
             rows == PageRows(s, p + 1)
         IN  Cardinality(Lost(from, shown \union rows, s, (p + 1) * form.page_size))
               =< Cardinality(L) + Arrived(s, r)
<1> DEFINE size == form.page_size
           o == Offset(p + 1)
           D == Matching(r) \ Matching(s)
           X == (D \union First(s, o)) \ First(r, o)
           L == Lost(from, shown, r, o)
           K == Lost(from, shown \union PageRows(s, p + 1), s, o + size)
<1>1. /\ form \in Forms /\ r \in Nat /\ s \in Nat
      /\ o \in Nat /\ o = p * size
  <2>1. form \in Forms /\ r \in Nat /\ s \in Nat
    BY DEF Sane
  <2> QED
    BY <2>1, PageType
<1>2. size \in Nat \ {0}
  BY <1>1, SizeType
<1>3. (p + 1) * size = o + size
  BY <1>1, <1>2
<1> HIDE DEF o, size
<1>4. \A i : Rank(r, i) \in Nat /\ Rank(s, i) \in Nat
  BY <1>1, EarlierFinite
<1>5. ASSUME NEW i \in K
      PROVE  /\ i \in Matching(from) \ shown
             /\ i \in Matching(s) => Rank(s, i) < o
  <2>1. ASSUME i \in Matching(s), ~(Rank(s, i) < o)
        PROVE  FALSE
    <3>1. Rank(s, i) < o + size
      BY <1>5, <2>1 DEF Lost
    <3>2. Rank(s, i) \in o .. o + size - 1
      BY <1>1, <1>2, <1>4, <2>1, <3>1
    <3>3. i \in PageRows(s, p + 1)
      BY <2>1, <3>2 DEF PageRows, o, size
    <3> QED
      BY <1>5, <3>3 DEF Lost
  <2> QED
    BY <1>5, <2>1 DEF Lost
<1>6. IsFiniteSet(L) /\ Cardinality(L) \in Nat /\ IsFiniteSet(K) /\ Cardinality(K) \in Nat
  BY LostFinite
<1>7. CASE s < r
  <2>1. IsFiniteSet(X) /\ IsFiniteSet(D) /\ Cardinality(X) =< Cardinality(D)
    BY <1>1, <1>7, PushedOn
  <2>2. K \subseteq L \union X
    BY <1>1, <1>4, <1>5 DEF Lost, First
  <2>3. Arrived(s, r) = Cardinality(D)
    BY <1>7 DEF Arrived
  <2> HIDE DEF K, L, X, D
  <2>4. /\ IsFiniteSet(L \union X)
        /\ Cardinality(L \union X) = Cardinality(L) + Cardinality(X) - Cardinality(L \intersect X)
    BY <1>6, <2>1, FS_Union
  <2>5. Cardinality(K) =< Cardinality(L \union X)
    BY <2>2, <2>4, FS_Subset
  <2>6. /\ Cardinality(X) \in Nat /\ Cardinality(D) \in Nat
        /\ Cardinality(L \intersect X) \in Nat
    BY <1>6, <2>1, FS_Intersection, FS_CardinalityType
  <2>7. Cardinality(K) =< Cardinality(L) + Arrived(s, r)
    BY <1>6, <2>1, <2>3, <2>4, <2>5, <2>6
  <2> QED
    BY <1>1, <1>3, <2>7 DEF K, L, size
<1>8. CASE ~(s < r)
  <2>1. Matching(r) \subseteq Matching(s)
    BY <1>1, <1>8, MatchingGrows
  <2>2. \A i : Rank(r, i) =< Rank(s, i)
    BY <1>1, <2>1, RankGrows
  <2>3. K \subseteq L
    BY <1>1, <1>4, <1>5, <2>1, <2>2 DEF Lost
  <2>4. Arrived(s, r) = 0
    BY <1>8 DEF Arrived
  <2> HIDE DEF K, L
  <2>5. Cardinality(K) =< Cardinality(L) + Arrived(s, r)
    BY <1>6, <2>3, <2>4, FS_Subset
  <2> QED
    BY <1>1, <1>3, <2>5 DEF K, L, size
<1> QED
  BY <1>7, <1>8

(* At the end of a walk, what is missed is lost, or came after the total   *)
(* was counted.                                                            *)
LEMMA EndMissesFew ==
  ASSUME NEW n, Sane(n), NEW o \in Nat, NEW from \in Nat, NEW shown,
         NEW total \in Nat, total =< Cardinality(Matching(n)), total =< o
  PROVE  Cardinality(Matching(from) \ shown)
           =< Cardinality(Lost(from, shown, n, o)) + Cardinality(Matching(n)) - total
<1> DEFINE L == Lost(from, shown, n, o)
           T == Matching(n) \ First(n, o)
           M == Matching(from) \ shown
<1>1. n \in Nat /\ IsFiniteSet(Matching(n)) /\ Cardinality(Matching(n)) \in Nat
  BY MatchingFinite DEF Sane
<1>2. IsFiniteSet(L) /\ Cardinality(L) \in Nat
  BY LostFinite
<1>3. /\ IsFiniteSet(T)
      /\ Cardinality(T) = Cardinality(Matching(n)) - Cardinality(First(n, o))
  <2>1. Matching(n) \intersect First(n, o) = First(n, o)
    BY DEF First
  <2> QED
    BY <1>1, <2>1, FS_Difference
<1>4. Cardinality(First(n, o)) >= total /\ Cardinality(First(n, o)) \in Nat
  BY <1>1, FirstCount
<1>5. M \subseteq L \union T
  BY DEF Lost, First
<1> HIDE DEF L, T, M
<1>6. /\ IsFiniteSet(L \union T)
      /\ Cardinality(L \union T) = Cardinality(L) + Cardinality(T) - Cardinality(L \intersect T)
  BY <1>2, <1>3, FS_Union
<1>7. Cardinality(M) =< Cardinality(L \union T) /\ Cardinality(M) \in Nat
  BY <1>5, <1>6, FS_Subset, FS_CardinalityType
<1>8. Cardinality(L \intersect T) \in Nat
  BY <1>2, FS_Intersection, FS_CardinalityType
<1>9. Cardinality(M) =< Cardinality(L) + Cardinality(Matching(n)) - total
  BY <1>1, <1>2, <1>3, <1>4, <1>6, <1>7, <1>8
<1> QED
  BY <1>9 DEF M, L

-----------------------------------------------------------------------------
(* Rows are only added: what is true of the first n stays true.            *)

Stand ==
  /\ logs \in Seq(Shapes) /\ logs' \in Seq(Shapes)
  /\ Len(logs) =< Len(logs')
  /\ \A i \in 1 .. Len(logs) : logs'[i] = logs[i]
  /\ form \in Forms /\ form' = form
  /\ options \in Options /\ options' \in Options

(* The same of the first n rows pass.                                      *)
LEMMA MatchingStands ==
  ASSUME Stand, NEW n \in 0 .. Len(logs)
  PROVE  Matching(n)' = Matching(n)
BY DEF Stand, Matching

(* They are ordered as they were.                                          *)
LEMMA BeforeStands ==
  ASSUME Stand, NEW i \in 1 .. Len(logs), NEW j \in 1 .. Len(logs)
  PROVE  Before(i, j)' <=> Before(i, j)
<1>1. /\ logs'[i] = logs[i] /\ logs'[j] = logs[j] /\ form' = form /\ form \in Forms
      /\ logs[i] \in Shapes /\ logs[j] \in Shapes
      /\ Rate(options) \in Int /\ Rate(options)' = Rate(options') /\ Rate(options') \in Int
  BY OptionsAssumption DEF Stand, Rate, OrDefault
<1>. DEFINE K(k, rate) == Key(k, logs[k], form, rate)
<1>2. /\ OrderKey(i) = K(i, Rate(options)) /\ OrderKey(j) = K(j, Rate(options))
      /\ OrderKey(i)' = K(i, Rate(options')) /\ OrderKey(j)' = K(j, Rate(options'))
  BY <1>1 DEF OrderKey, OrderKeyAt, Key
<1>3. \A o \in Options :
        /\ K(i, Rate(o)) < K(j, Rate(o)) <=> K(i, 1) < K(j, 1)
        /\ K(j, Rate(o)) < K(i, Rate(o)) <=> K(j, 1) < K(i, 1)
        /\ K(i, Rate(o)) = K(j, Rate(o)) <=> K(i, 1) = K(j, 1)
  <2>. TAKE o \in Options
  <2>1. i \in Int /\ j \in Int
    OBVIOUS
  <2>2. /\ K(i, Rate(o)) < K(j, Rate(o)) <=> K(i, 1) < K(j, 1)
        /\ K(i, Rate(o)) = K(j, Rate(o)) <=> K(i, 1) = K(j, 1)
    BY <1>1, <2>1, SameOrder
  <2>3. K(j, Rate(o)) < K(i, Rate(o)) <=> K(j, 1) < K(i, 1)
    BY <1>1, <2>1, SameOrder
  <2>. QED
    BY <2>2, <2>3
<1>4. \A rate \in Int : K(i, rate) \in Int /\ K(j, rate) \in Int
  <2>. TAKE rate \in Int
  <2>1. i \in Int /\ j \in Int /\ logs[i] \in Shapes /\ logs[j] \in Shapes
    BY <1>1
  <2>. QED
    BY <2>1, KeyNumber
<1>. HIDE DEF K
<1>5. /\ OrderKey(i)' < OrderKey(j)' <=> OrderKey(i) < OrderKey(j)
      /\ OrderKey(i)' > OrderKey(j)' <=> OrderKey(i) > OrderKey(j)
      /\ OrderKey(i)' = OrderKey(j)' <=> OrderKey(i) = OrderKey(j)
  BY <1>1, <1>2, <1>3, <1>4 DEF Stand
<1> QED
  BY <1>1, <1>5 DEF Before

(* They have the ranks they had.                                           *)
LEMMA RankStands ==
  ASSUME Stand, NEW n \in 0 .. Len(logs), NEW i \in Matching(n)
  PROVE  Rank(n, i)' = Rank(n, i)
<1>1. Len(logs) \in Nat /\ n \in Nat
  BY DEF Stand
<1>2. Matching(n)' = Matching(n) /\ Matching(n) \subseteq 1 .. Len(logs)
  BY <1>1, MatchingStands, MatchingFinite
<1>3. {j \in Matching(n)' : Before(j, i)'} = {j \in Matching(n) : Before(j, i)}
  BY <1>2, BeforeStands
<1> QED
  BY <1>3 DEF Rank

(* A page of them has the rows it had.                                     *)
LEMMA PageStands ==
  ASSUME Stand, NEW n \in 0 .. Len(logs), NEW p
  PROVE  PageRows(n, p)' = PageRows(n, p)
<1>1. Matching(n)' = Matching(n)
  BY MatchingStands
<1>2. \A i \in Matching(n) : Rank(n, i)' = Rank(n, i)
  BY RankStands
<1>3. form' = form
  BY DEF Stand
<1> QED
  BY <1>1, <1>2, <1>3 DEF PageRows, Offset

(* What a walk has lost of them is what it had lost.                       *)
LEMMA LostStands ==
  ASSUME Stand, NEW n \in 0 .. Len(logs), NEW from \in 0 .. Len(logs), NEW shown, NEW o
  PROVE  Lost(from, shown, n, o)' = Lost(from, shown, n, o)
<1>1. Matching(n)' = Matching(n) /\ Matching(from)' = Matching(from)
  BY MatchingStands
<1>2. \A i \in Matching(n) : Rank(n, i)' = Rank(n, i)
  BY RankStands
<1> QED
  BY <1>1, <1>2 DEF Lost

-----------------------------------------------------------------------------
(* The inductive invariant.  What a statement has returned, what is kept   *)
(* and what was shown last is true of the rows there were when it was      *)
(* read, the total never of more rows than the page; and what a walk has   *)
(* lost so far is at most what was logged where it looked back.            *)

TrueTotal(total, n) == n \in 0 .. Len(logs) /\ total = Cardinality(Matching(n))
TrueRows(rows, n, p) == n \in 0 .. Len(logs) /\ rows = PageRows(n, p)
TruePage(page, p) ==
  /\ TrueTotal(page.total, page.totalOf)
  /\ TrueRows(page.rows, page.rowsOf, p)
  /\ page.totalOf =< page.rowsOf
FewLost(w) ==
  Cardinality(Lost(w.from, w.shown, w.last.rowsOf, w.page * form.page_size)) =< w.missable
TrueWalk(w) ==
  w.page > 0 => w.from \in 0 .. Len(logs) /\ TruePage(w.last, w.page) /\ FewLost(w)

ResultsAligned == results = [k \in 1 .. Len(seenBy) |-> results[k]]
ResultsTrue ==
  request.kind = "details" =>
    /\ Len(results) > 0 => TrueTotal(results[1], seenBy[1].rows)
    /\ Len(results) > 1 => /\ TrueRows(results[2], seenBy[2].rows, request.page)
                           /\ seenBy[1].rows =< seenBy[2].rows
KeptTrue == \A p \in DOMAIN kept : TruePage(kept[p], p)
InReach  == request.kind = "details" => request.page \in Reachable
IInv ==
  /\ TypeOK /\ ResultsAligned /\ ResultsTrue /\ KeptTrue /\ InReach /\ TrueWalk(walk)

(* A page that is true stays true.                                         *)
LEMMA PageStaysTrue ==
  ASSUME Stand, NEW page, NEW p, TruePage(page, p)
  PROVE  TruePage(page, p)'
<1>1. page.rowsOf \in 0 .. Len(logs) /\ page.totalOf \in 0 .. Len(logs)
  BY DEF TruePage, TrueTotal, TrueRows
<1>2. /\ PageRows(page.rowsOf, p)' = PageRows(page.rowsOf, p)
      /\ Matching(page.totalOf)' = Matching(page.totalOf)
  BY <1>1, PageStands, MatchingStands
<1> QED
  BY <1>1, <1>2 DEF TruePage, TrueTotal, TrueRows, Stand

(* So does a walk.                                                         *)
LEMMA WalkStaysTrue ==
  ASSUME Stand, NEW w, TrueWalk(w)
  PROVE  TrueWalk(w)'
<1> SUFFICES ASSUME w.page > 0
             PROVE  w.from \in 0 .. Len(logs') /\ TruePage(w.last, w.page)' /\ FewLost(w)'
  BY DEF TrueWalk
<1>1. w.from \in 0 .. Len(logs) /\ TruePage(w.last, w.page) /\ FewLost(w)
  BY DEF TrueWalk
<1>2. TruePage(w.last, w.page)'
  BY <1>1, PageStaysTrue
<1>3. w.last.rowsOf \in 0 .. Len(logs)
  BY <1>1 DEF TruePage, TrueRows
<1> DEFINE o == w.page * form.page_size
<1>4. PICK k : k = o
  OBVIOUS
<1>5. Lost(w.from, w.shown, w.last.rowsOf, k)' = Lost(w.from, w.shown, w.last.rowsOf, k)
  BY <1>1, <1>3, LostStands
<1>6. o' = k
  BY <1>4 DEF Stand
<1>7. FewLost(w)'
  BY <1>1, <1>4, <1>5, <1>6 DEF FewLost
<1> QED
  BY <1>1, <1>2, <1>7 DEF Stand

(* How many rows arrived between two reads.                                *)
LEMMA ArrivedType ==
  ASSUME NEW m \in Nat, NEW n \in Nat
  PROVE  Arrived(m, n) \in Nat
<1>1. Cardinality(Matching(n) \ Matching(m)) \in Nat
  BY MatchingFinite, FS_Difference, FS_CardinalityType
<1> QED
  BY <1>1 DEF Arrived

(* A walk that goes on to a true page is true: it loses what was logged    *)
(* since the page before was read, if that was read after this one.        *)
LEMMA ShownTrue ==
  ASSUME logs \in Seq(Shapes), options \in Options, form \in Forms, TrueWalk(walk),
         walk.page \in Nat,
         walk.missable \in Nat, NEW p \in Reachable, NEW page, TruePage(page, p)
  PROVE  TrueWalk(Shown(p, page))
<1> DEFINE s == page.rowsOf
<1>1. /\ Len(logs) \in Nat /\ s \in 0 .. Len(logs) /\ page.rows = PageRows(s, p)
      /\ form.page_size \in Nat \ {0} /\ Sane(s)
  BY SizeType DEF TruePage, TrueRows, Sane
<1>2. CASE p = 1
  <2>1. /\ Shown(p, page).page = 1 /\ Shown(p, page).from = s /\ Shown(p, page).last = page
        /\ Shown(p, page).shown = page.rows /\ Shown(p, page).missable = 0
    BY <1>2 DEF Shown
  <2>2. Lost(s, page.rows, s, 1 * form.page_size) = {}
    <3>1. 1 * form.page_size = form.page_size
      BY <1>1
    <3> QED
      BY <1>1, <1>2, <3>1, FirstPageLosesNothing
  <2>3. FewLost(Shown(p, page))
    <3> DEFINE w == Shown(p, page)
    <3> HIDE DEF w
    <3>1. Lost(w.from, w.shown, w.last.rowsOf, w.page * form.page_size) = {}
      BY <2>1, <2>2 DEF w
    <3>2. Cardinality(Lost(w.from, w.shown, w.last.rowsOf, w.page * form.page_size)) = 0
      BY <3>1, FS_EmptySet
    <3>3. w.missable = 0
      BY <2>1 DEF w
    <3> QED
      BY <3>2, <3>3 DEF FewLost, w
  <2> QED
    BY <1>1, <1>2, <2>1, <2>3 DEF TrueWalk
<1>3. CASE p # 1
  <2> DEFINE r == walk.last.rowsOf
             q == walk.page
  <2>1. p = q + 1 /\ q \in Nat \ {0}
    BY <1>3 DEF Reachable
  <2>2. /\ walk.from \in 0 .. Len(logs) /\ r \in 0 .. Len(logs) /\ Sane(r)
        /\ FewLost(walk)
    BY <2>1 DEF TrueWalk, TruePage, TrueRows, Sane
  <2>3. /\ Shown(p, page).page = q + 1 /\ Shown(p, page).from = walk.from
        /\ Shown(p, page).last = page /\ Shown(p, page).shown = walk.shown \union page.rows
        /\ Shown(p, page).missable = walk.missable + Arrived(s, r)
    BY <1>3, <2>1 DEF Shown
  <2> DEFINE L == Lost(walk.from, walk.shown, r, q * form.page_size)
             K == Lost(walk.from, walk.shown \union PageRows(s, q + 1), s, (q + 1) * form.page_size)
  <2>4. Cardinality(K) =< Cardinality(L) + Arrived(s, r)
    <3>1. ASSUME NEW a, Sane(a), NEW b, Sane(b), NEW k \in Nat \ {0}, NEW f \in Nat, NEW h
          PROVE  Cardinality(Lost(f, h \union PageRows(b, k + 1), b, (k + 1) * form.page_size))
                   =< Cardinality(Lost(f, h, a, k * form.page_size)) + Arrived(b, a)
      BY <3>1, StepLosesFew
    <3>2. walk.from \in Nat
      BY <1>1, <2>2
    <3> QED
      BY <1>1, <2>1, <2>2, <3>1, <3>2
  <2>5. Cardinality(L) =< walk.missable
    BY <2>2 DEF FewLost
  <2>6. Cardinality(L) \in Nat /\ Cardinality(K) \in Nat
    BY <2>2, LostFinite
  <2>7. Arrived(s, r) \in Nat
    BY <1>1, <2>2, ArrivedType
  <2>8. Cardinality(K) =< walk.missable + Arrived(s, r)
    <3> HIDE DEF K, L
    <3> QED
      BY <2>4, <2>5, <2>6, <2>7
  <2>9. FewLost(Shown(p, page))
    BY <1>1, <2>1, <2>3, <2>8 DEF FewLost
  <2> QED
    BY <2>1, <2>2, <2>3, <2>9 DEF TrueWalk
<1> QED
  BY <1>2, <1>3

-----------------------------------------------------------------------------
(* Types that the steps rest on.                                           *)

(* A request has finitely many statements, and no request none.            *)
LEMMA StatementsType ==
  ASSUME NEW kind \in Kinds \union {"none"}
  PROVE  Len(Statements(kind)) \in Nat /\ Len(Statements("none")) = 0
BY DEF Statements, Kinds, Dimensions

(* The statements of the details, in their order.                          *)
LEMMA DetailsStatements ==
  /\ Len(Statements("details")) = 2
  /\ Statements("details")[1] = "total" /\ Statements("details")[2] = "rows"
BY DEF Statements

(* A statement adds a result and what it has seen.                         *)
LEMMA AppendResult ==
  ASSUME results = [k \in 1 .. Len(seenBy) |-> results[k]], NEW S, seenBy \in Seq(S),
         NEW r, NEW s \in S
  PROVE  /\ Len(results) = Len(seenBy) /\ Len(seenBy) \in Nat
         /\ Append(seenBy, s) \in Seq(S) /\ Len(Append(seenBy, s)) = Len(seenBy) + 1
         /\ \A k \in 1 .. Len(seenBy) : /\ Append(results, r)[k] = results[k]
                                        /\ Append(seenBy, s)[k] = seenBy[k]
         /\ Append(results, r)[Len(seenBy) + 1] = r
         /\ Append(seenBy, s)[Len(seenBy) + 1] = s
         /\ Append(results, r)
              = [k \in 1 .. Len(Append(seenBy, s)) |-> Append(results, r)[k]]
         /\ Len(Append(results, r)) = Len(seenBy) + 1
<1> DEFINE n == Len(seenBy)
           R == {results[k] : k \in 1 .. n} \union {r}
<1>1. n \in Nat
  OBVIOUS
<1>2. results \in [1 .. n -> R]
  OBVIOUS
<1>3. results \in Seq(R) /\ Len(results) = n
  BY <1>1, <1>2
<1>4. Append(results, r) \in Seq(R) /\ Len(Append(results, r)) = n + 1
  BY <1>3
<1> QED
  BY <1>1, <1>3, <1>4

-----------------------------------------------------------------------------
(* What a step leaves alone stays true.                                    *)

(* The results so far.                                                     *)
LEMMA ResultsStayTrue ==
  ASSUME Stand, ResultsTrue, UNCHANGED <<request, results, seenBy>>
  PROVE  ResultsTrue'
<1> SUFFICES ASSUME request.kind = "details"
             PROVE  /\ Len(results) > 0 => TrueTotal(results[1], seenBy[1].rows)'
                    /\ Len(results) > 1 =>
                         /\ TrueRows(results[2], seenBy[2].rows, request.page)'
                         /\ seenBy[1].rows =< seenBy[2].rows
  BY DEF ResultsTrue
<1>1. CASE Len(results) > 0
  <2>1. TrueTotal(results[1], seenBy[1].rows)
    BY <1>1 DEF ResultsTrue
  <2>2. Matching(seenBy[1].rows)' = Matching(seenBy[1].rows)
    BY <2>1, MatchingStands DEF TrueTotal
  <2>3. TrueTotal(results[1], seenBy[1].rows)'
    BY <2>1, <2>2 DEF TrueTotal, Stand
  <2>4. ASSUME Len(results) > 1
        PROVE  /\ TrueRows(results[2], seenBy[2].rows, request.page)'
               /\ seenBy[1].rows =< seenBy[2].rows
    <3>1. /\ TrueRows(results[2], seenBy[2].rows, request.page)
          /\ seenBy[1].rows =< seenBy[2].rows
      BY <2>4 DEF ResultsTrue
    <3>2. PageRows(seenBy[2].rows, request.page)' = PageRows(seenBy[2].rows, request.page)
      BY <3>1, PageStands DEF TrueRows
    <3> QED
      BY <3>1, <3>2 DEF TrueRows, Stand
  <2> QED
    BY <2>3, <2>4
<1>2. CASE ~(Len(results) > 0)
  <2>1. ~(Len(results) > 1)
    BY <1>2
  <2> QED
    BY <1>2, <2>1
<1> QED
  BY <1>1, <1>2

(* The pages in the cache.                                                 *)
LEMMA KeptStaysTrue ==
  ASSUME Stand, KeptTrue, UNCHANGED kept
  PROVE  KeptTrue'
<1> SUFFICES ASSUME NEW p \in DOMAIN kept
             PROVE  TruePage(kept[p], p)'
  BY DEF KeptTrue
<1>1. TruePage(kept[p], p)
  BY DEF KeptTrue
<1>2. ASSUME NEW page, page = kept[p]
      PROVE  TruePage(page, p)'
  BY <1>1, <1>2, PageStaysTrue
<1> QED
  BY <1>2

(* The walk.                                                               *)
LEMMA WalkKeepsTrue ==
  ASSUME Stand, TrueWalk(walk), UNCHANGED walk
  PROVE  TrueWalk(walk)'
<1>1. ASSUME NEW w, w = walk
      PROVE  TrueWalk(w)'
  BY <1>1, WalkStaysTrue
<1> QED
  BY <1>1

(* The page being asked for can be reached from the one shown.             *)
LEMMA ReachStays ==
  ASSUME InReach, UNCHANGED <<walk, form, request>>
  PROVE  InReach'
BY DEF InReach, Reachable, LastPage

(* A page that is read, and the walk that it is shown in, have their types *)
LEMMA PageHasType ==
  ASSUME Len(logs) \in 0 .. MaxLogs, MaxLogs \in Nat, NEW page, NEW p, TruePage(page, p),
         page = [total |-> page.total, rows |-> page.rows, totalOf |-> page.totalOf,
                 rowsOf |-> page.rowsOf]
  PROVE  page \in PageAnswers
<1>1. page.totalOf \in 0 .. MaxLogs /\ page.rowsOf \in 0 .. MaxLogs
  BY DEF TruePage, TrueTotal, TrueRows
<1>2. page.total \in 0 .. MaxLogs
  BY <1>1, MatchingFinite DEF TruePage, TrueTotal
<1>3. page.rows \subseteq 1 .. MaxLogs
  <2>1. page.rows \subseteq Matching(page.rowsOf)
    BY DEF TruePage, TrueRows, PageRows
  <2> QED
    BY <1>1, <2>1, MatchingFinite
<1> QED
  BY <1>1, <1>2, <1>3 DEF PageAnswers, Counts, Pages

(* A page beyond the first is asked for only if rows are left for it.      *)
LEMMA ReachHasType ==
  ASSUME TypeOK, TrueWalk(walk), NEW p \in Reachable
  PROVE  p \in Pages
<1>1. MaxLogs \in Nat \ {0} /\ form.page_size \in Nat \ {0} /\ walk.page \in Nat
  BY LengthsAssumption, SizeType DEF TypeOK, Pages
<1>2. CASE p = 1
  BY <1>1, <1>2 DEF Pages
<1>3. CASE p # 1
  <2>1. p = walk.page + 1 /\ walk.page > 0 /\ ~(walk.page * form.page_size >= walk.last.total)
    BY <1>3 DEF Reachable, LastPage
  <2>2. walk.last.total \in 0 .. MaxLogs
    BY DEF TypeOK, PageAnswers, Counts
  <2>3. walk.page * form.page_size >= walk.page
    BY <1>1
  <2>4. walk.page * form.page_size \in Nat
    BY <1>1
  <2>5. walk.page < MaxLogs
    BY <1>1, <2>1, <2>2, <2>3, <2>4
  <2> QED
    BY <1>1, <2>1, <2>5 DEF Pages
<1> QED
  BY <1>2, <1>3

(* What the reader has seen keeps its type.                                *)
LEMMA ShownHasType ==
  ASSUME TypeOK, TrueWalk(walk), NEW p \in Reachable, NEW page \in PageAnswers
  PROVE  Shown(p, page) \in [page : {0} \union Pages, from : Counts, shown : SUBSET Pages,
                             last : PageAnswers, missable : Nat]
<1>1. p \in Pages
  BY ReachHasType
<1>2. page.rowsOf \in Nat /\ walk.last.rowsOf \in Nat /\ walk.missable \in Nat
  BY LengthsAssumption DEF TypeOK, PageAnswers, Counts
<1>3. Arrived(page.rowsOf, walk.last.rowsOf) \in Nat
  BY <1>2, ArrivedType
<1>4. page.rowsOf \in Counts /\ page.rows \in SUBSET Pages
  BY DEF PageAnswers
<1>5. walk.from \in Counts /\ walk.shown \in SUBSET Pages
  BY DEF TypeOK
<1> QED
  BY <1>1, <1>2, <1>3, <1>4, <1>5 DEF Shown

-----------------------------------------------------------------------------
(* The invariant is inductive.                                             *)

(* The invariant holds before the first request.                           *)
LEMMA InitTrue ==
  ASSUME Init
  PROVE  IInv
<1>1. MaxLogs \in Nat \ {0}
  BY LengthsAssumption
<1>2. logs \in Seq(Shapes) /\ Len(logs) \in 0 .. MaxLogs
  <2>1. PICK n \in 0 .. MaxLogs : logs \in [1 .. n -> Shapes]
    BY DEF Init
  <2> QED
    BY <1>1, <2>1
<1>3. walk \in [page : {0} \union Pages, from : Counts, shown : SUBSET Pages,
                last : PageAnswers, missable : Nat]
  BY <1>1 DEF Init, NoWalk, NoPage, PageAnswers, Counts
<1>4. Len(results) = 0 /\ Len(seenBy) = 0 /\ seenBy \in Seq([rows : Counts, options : Options])
  BY DEF Init
<1>5. request.kind = "none" /\ request = NoRequest
  BY DEF Init, NoRequest
<1>6. TypeOK
  BY <1>1, <1>2, <1>3, <1>4, <1>5, StatementsType DEF Init, TypeOK
<1>7. ResultsAligned
  BY <1>4 DEF ResultsAligned, Init
<1>8. ResultsTrue /\ InReach
  BY <1>5 DEF ResultsTrue, InReach
<1>9. KeptTrue
  BY DEF KeptTrue, Init
<1>10. TrueWalk(walk)
  BY DEF TrueWalk, Init, NoWalk
<1> QED
  BY <1>6, <1>7, <1>8, <1>9, <1>10 DEF IInv

(* Every step only adds rows and keeps the form.                           *)
LEMMA StepStands ==
  ASSUME TypeOK, [Next]_vars
  PROVE  Stand
<1>1. /\ logs \in Seq(Shapes) /\ Len(logs) \in Nat
      /\ form \in Forms /\ options \in Options
  BY DEF TypeOK
<1>2. CASE \E row \in Shapes : AddLog(row)
  <2>1. PICK row \in Shapes : AddLog(row)
    BY <1>2
  <2> QED
    BY <1>1, <2>1 DEF AddLog, Stand
<1>3. CASE logs' = logs /\ form' = form /\ options' \in Options
  BY <1>1, <1>3 DEF Stand
<1> QED
  BY <1>1, <1>2, <1>3 DEF Next, vars, ChangeOptions, Ask, AskPage, Begin, ShowKept, Execute,
                    Answer, Fail, Expire

(* Nothing is being answered: there are no results.                        *)
LEMMA Idle ==
  ASSUME TypeOK, ResultsAligned, request = NoRequest
  PROVE  Len(results) = 0 /\ Len(seenBy) = 0 /\ request.kind = "none"
<1>1. request.kind = "none"
  BY DEF NoRequest
<1> QED
  BY <1>1, StatementsType DEF TypeOK

(* The end of a request leaves no results.                                 *)
LEMMA EndTrue ==
  ASSUME End
  PROVE  /\ ResultsTrue' /\ ResultsAligned' /\ InReach'
         /\ request' = NoRequest /\ Len(results') = 0 /\ Len(seenBy') = 0
         /\ Len(results') =< Len(Statements(request'.kind))
         /\ seenBy' \in Seq([rows : Counts, options : Options])
<1>1. request' = NoRequest /\ request'.kind = "none" /\ results' = <<>> /\ seenBy' = <<>>
  BY DEF End, NoRequest
<1>2. Len(results') = 0 /\ Len(seenBy') = 0 /\ seenBy' \in Seq([rows : Counts, options : Options])
  BY <1>1
<1>3. ResultsTrue' /\ InReach'
  BY <1>1 DEF ResultsTrue, InReach
<1>4. ResultsAligned'
  BY <1>1, <1>2 DEF ResultsAligned
<1> QED
  BY <1>1, <1>2, <1>3, <1>4, StatementsType

(* A row is logged.                                                        *)
LEMMA AddLogTrue ==
  ASSUME IInv, Stand, NEW row \in Shapes, AddLog(row)
  PROVE  IInv'
<1>1. MaxLogs \in Nat
  BY LengthsAssumption
<1>2. TypeOK'
  <2>1. logs' \in Seq(Shapes) /\ Len(logs') =< MaxLogs
    BY <1>1 DEF IInv, TypeOK, AddLog
  <2> QED
    BY <2>1 DEF IInv, TypeOK, AddLog
<1>3. ResultsTrue' /\ KeptTrue' /\ TrueWalk(walk)' /\ InReach'
  BY ResultsStayTrue, KeptStaysTrue, WalkKeepsTrue, ReachStays DEF IInv, AddLog
<1>4. ResultsAligned'
  BY DEF IInv, ResultsAligned, AddLog
<1> QED
  BY <1>2, <1>3, <1>4 DEF IInv

(* The options change, or nothing does.                                    *)
LEMMA ChangeTrue ==
  ASSUME IInv, Stand, ChangeOptions \/ UNCHANGED vars
  PROVE  IInv'
<1>1. TypeOK'
  BY DEF IInv, TypeOK, ChangeOptions, vars
<1>2. ResultsTrue' /\ KeptTrue' /\ TrueWalk(walk)' /\ InReach'
  BY ResultsStayTrue, KeptStaysTrue, WalkKeepsTrue, ReachStays DEF IInv, ChangeOptions, vars
<1>3. ResultsAligned'
  BY DEF IInv, ResultsAligned, ChangeOptions, vars
<1> QED
  BY <1>1, <1>2, <1>3 DEF IInv

(* A request begins.                                                       *)
LEMMA BeginTrue ==
  ASSUME IInv, Stand, NEW kind \in Kinds, NEW page, Begin(kind, page),
         IF kind = "details" THEN page \in Reachable ELSE page = 0
  PROVE  IInv'
<1>1. Len(results) = 0 /\ Len(seenBy) = 0
  BY Idle DEF IInv, Begin
<1>2. request' = [kind |-> kind, page |-> page] /\ UNCHANGED <<logs, options, form, results, kept, walk, seenBy>>
  BY DEF Begin
<1>3. request' \in {NoRequest} \union [kind : Kinds \ {"details"}, page : {0}]
                   \union [kind : {"details"}, page : Pages]
  BY <1>2, ReachHasType DEF IInv
<1>4. Len(Statements(request'.kind)) \in Nat
  BY <1>2, StatementsType
<1>5. TypeOK'
  BY <1>1, <1>2, <1>3, <1>4 DEF IInv, TypeOK
<1>6. KeptTrue' /\ TrueWalk(walk)'
  BY <1>2, KeptStaysTrue, WalkKeepsTrue DEF IInv
<1>7. InReach'
  BY <1>2 DEF InReach, Reachable, LastPage
<1>8. ResultsTrue' /\ ResultsAligned'
  BY <1>1, <1>2 DEF IInv, ResultsTrue, ResultsAligned
<1> QED
  BY <1>5, <1>6, <1>7, <1>8 DEF IInv

(* A statement is run: its result is true of the rows there are now.       *)
LEMMA ExecuteTrue ==
  ASSUME IInv, Stand, Execute
  PROVE  IInv'
<1> DEFINE now == [rows |-> Len(logs), options |-> options]
           k == Len(results) + 1
<1>1. UNCHANGED <<logs, options, form, request, kept, walk>>
  BY DEF Execute
<1>2. PICK r \in Answers(Statements(request.kind)[k]) : results' = Append(results, r)
  BY DEF Execute
<1>3. seenBy' = Append(seenBy, now)
  BY DEF Execute
<1>4. now \in [rows : Counts, options : Options]
  BY LengthsAssumption DEF IInv, TypeOK, Counts
<1>5. seenBy \in Seq([rows : Counts, options : Options])
  BY DEF IInv, TypeOK
<1>6. results = [i \in 1 .. Len(seenBy) |-> results[i]]
  BY DEF IInv, ResultsAligned
<1> HIDE DEF now
<1>7. /\ Len(results) = Len(seenBy) /\ Len(seenBy) \in Nat
      /\ seenBy' \in Seq([rows : Counts, options : Options]) /\ Len(seenBy') = Len(seenBy) + 1
      /\ \A i \in 1 .. Len(seenBy) : results'[i] = results[i] /\ seenBy'[i] = seenBy[i]
      /\ results'[Len(seenBy) + 1] = r /\ seenBy'[Len(seenBy) + 1] = now
      /\ results' = [i \in 1 .. Len(seenBy') |-> results'[i]]
      /\ Len(results') = Len(seenBy) + 1
  BY <1>2, <1>3, <1>4, <1>5, <1>6, AppendResult
<1>8. ResultsAligned'
  BY <1>7 DEF ResultsAligned
<1>9. TypeOK'
  <2>1. request.kind \in Kinds \union {"none"}
    BY DEF IInv, TypeOK, NoRequest, Kinds
  <2>2. Len(Statements(request.kind)) \in Nat
    BY <2>1, StatementsType
  <2>3. Len(results') =< Len(Statements(request.kind))
    BY <1>7, <2>2 DEF Execute, Running
  <2> QED
    BY <1>1, <1>7, <2>3 DEF IInv, TypeOK
<1>10. KeptTrue' /\ TrueWalk(walk)' /\ InReach'
  BY <1>1, KeptStaysTrue, WalkKeepsTrue, ReachStays DEF IInv
<1>11. ResultsTrue'
  <2> SUFFICES ASSUME request.kind = "details"
               PROVE  ResultsTrue'
    BY <1>1 DEF ResultsTrue
  <2>1. Len(results) = 0 \/ Len(results) = 1
    BY <1>7, DetailsStatements DEF Execute, Running
  <2>2. Len(logs) \in Nat /\ now.rows = Len(logs)
    BY DEF IInv, TypeOK, now
  <2>3. CASE Len(results) = 0
    <3>1. r = Cardinality(Matching(Len(logs)))
      BY <1>2, <2>3, DetailsStatements DEF Answers
    <3>2. results'[1] = r /\ seenBy'[1].rows = Len(logs) /\ Len(results') = 1
      BY <1>7, <2>2, <2>3
    <3>3. Matching(Len(logs))' = Matching(Len(logs))
      BY <2>2, MatchingStands, <1>1
    <3>4. TrueTotal(results[1], seenBy[1].rows)'
      BY <1>1, <2>2, <3>1, <3>2, <3>3 DEF TrueTotal
    <3> QED
      BY <3>2, <3>4 DEF ResultsTrue
  <2>4. CASE Len(results) = 1
    <3>1. r = PageRows(Len(logs), request.page)
      BY <1>2, <2>4, DetailsStatements DEF Answers
    <3>2. /\ results'[2] = r /\ seenBy'[2].rows = Len(logs)
          /\ results'[1] = results[1] /\ seenBy'[1] = seenBy[1]
      BY <1>7, <2>2, <2>4
    <3>3. TrueTotal(results[1], seenBy[1].rows)
      BY <2>4 DEF IInv, ResultsTrue
    <3>4. ASSUME NEW t, NEW n, TrueTotal(t, n)
          PROVE  TrueTotal(t, n)'
      BY <1>1, <3>4, MatchingStands DEF TrueTotal
    <3>5. TrueTotal(results[1], seenBy[1].rows)'
      BY <3>2, <3>3, <3>4 DEF TrueTotal
    <3>6. TrueRows(results[2], seenBy[2].rows, request.page)'
      BY <1>1, <2>2, <3>1, <3>2, PageStands DEF TrueRows
    <3>7. seenBy'[1].rows =< seenBy'[2].rows
      BY <2>2, <3>2, <3>3 DEF TrueTotal
    <3> QED
      BY <3>5, <3>6, <3>7 DEF ResultsTrue
  <2> QED
    BY <2>1, <2>3, <2>4
<1> QED
  BY <1>8, <1>9, <1>10, <1>11 DEF IInv

(* A request fails, and leaves the cache and the walk alone.               *)
LEMMA FailTrue ==
  ASSUME IInv, Stand, Fail
  PROVE  IInv'
<1>1. UNCHANGED <<logs, options, form, kept, walk>> /\ End
  BY DEF Fail
<1>2. TypeOK'
  BY <1>1, EndTrue DEF IInv, TypeOK
<1>3. KeptTrue' /\ TrueWalk(walk)'
  BY <1>1, KeptStaysTrue, WalkKeepsTrue DEF IInv
<1> QED
  BY <1>1, <1>2, <1>3, EndTrue DEF IInv

(* The reader is shown a page that is true.                                *)
LEMMA ShowTrue ==
  ASSUME IInv, Stand, NEW p \in Reachable, NEW page \in PageAnswers, TruePage(page, p),
         walk' = Shown(p, page)
  PROVE  /\ TrueWalk(walk)'
         /\ walk' \in [page : {0} \union Pages, from : Counts, shown : SUBSET Pages,
                       last : PageAnswers, missable : Nat]
<1>1. TrueWalk(Shown(p, page))
  <2>1. walk.page \in Nat
    BY DEF IInv, TypeOK, Pages
  <2> QED
    BY <2>1, ShownTrue DEF IInv, TypeOK
<1>2. ASSUME NEW w, w = Shown(p, page)
      PROVE  TrueWalk(w)'
  BY <1>1, <1>2, WalkStaysTrue
<1>3. TrueWalk(walk)'
  BY <1>2
<1>4. Shown(p, page) \in [page : {0} \union Pages, from : Counts, shown : SUBSET Pages,
                           last : PageAnswers, missable : Nat]
  BY ShownHasType DEF IInv
<1> QED
  BY <1>3, <1>4

(* A page is shown from the cache.                                         *)
LEMMA ShowKeptTrue ==
  ASSUME IInv, Stand, NEW p \in Reachable, ShowKept(p)
  PROVE  IInv'
<1>1. /\ UNCHANGED <<logs, options, form, request, results, kept, seenBy>>
      /\ request = NoRequest /\ p \in DOMAIN kept
      /\ walk' = Shown(p, kept[p])
  BY DEF ShowKept
<1>2. kept[p] \in PageAnswers /\ TruePage(kept[p], p)
  BY <1>1 DEF IInv, TypeOK, KeptTrue
<1>3. /\ TrueWalk(walk)'
      /\ walk' \in [page : {0} \union Pages, from : Counts, shown : SUBSET Pages,
                    last : PageAnswers, missable : Nat]
  BY <1>1, <1>2, ShowTrue
<1>4. TypeOK'
  BY <1>1, <1>3 DEF IInv, TypeOK
<1>5. KeptTrue' /\ ResultsTrue' /\ ResultsAligned'
  BY <1>1, KeptStaysTrue, ResultsStayTrue DEF IInv, ResultsAligned
<1>6. InReach'
  BY <1>1 DEF InReach, NoRequest
<1> QED
  BY <1>3, <1>4, <1>5, <1>6 DEF IInv

(* A page leaves the cache.                                                *)
LEMMA ExpireTrue ==
  ASSUME IInv, Stand, NEW p \in DOMAIN kept, Expire(p)
  PROVE  IInv'
<1>1. /\ UNCHANGED <<logs, options, form, request, results, walk, seenBy>>
      /\ kept' = [q \in DOMAIN kept \ {p} |-> kept[q]]
  BY DEF Expire
<1>2. TypeOK'
  BY <1>1 DEF IInv, TypeOK
<1>3. KeptTrue'
  <2> SUFFICES ASSUME NEW q \in DOMAIN kept'
               PROVE  TruePage(kept[q], q)'
    BY DEF KeptTrue
  <2>1. kept'[q] = kept[q] /\ q \in DOMAIN kept
    BY <1>1
  <2>2. TruePage(kept[q], q)
    BY <2>1 DEF IInv, KeptTrue
  <2>3. ASSUME NEW page, page = kept[q]
        PROVE  TruePage(page, q)'
    BY <2>2, <2>3, PageStaysTrue
  <2> QED
    BY <2>1, <2>3
<1>4. ResultsTrue' /\ ResultsAligned' /\ InReach' /\ TrueWalk(walk)'
  BY <1>1, ResultsStayTrue, ReachStays, WalkKeepsTrue DEF IInv, ResultsAligned
<1> QED
  BY <1>2, <1>3, <1>4 DEF IInv

(* The first result of the details is the total, the second the rows.      *)
LEMMA DetailsPlaces ==
  ASSUME request.kind = "details", Len(results) = 2
  PROVE  /\ Result("total") = results[1] /\ Seen("total") = seenBy[1].rows
         /\ Result("rows") = results[2] /\ Seen("rows") = seenBy[2].rows
<1>1. Place("total") = 1 /\ Place("rows") = 2
  BY DetailsStatements DEF Place
<1> QED
  BY <1>1 DEF Result, Seen

(* The details are complete when both have been read.                      *)
LEMMA CompleteDetails ==
  ASSUME TypeOK, Complete, request.kind = "details"
  PROVE  Len(results) = 2
<1>1. Len(results) \in Nat
  BY DEF TypeOK
<1>2. Len(results) =< Len(Statements("details"))
  BY DEF TypeOK
<1>3. ~(Len(results) < Len(Statements("details")))
  BY DEF Complete, Running
<1> QED
  BY <1>1, <1>2, <1>3, DetailsStatements

(* A request is answered: the details are kept and shown.                  *)
LEMMA AnswerTrue ==
  ASSUME IInv, Stand, Answer
  PROVE  IInv'
<1>1. UNCHANGED <<logs, options, form>> /\ End /\ Complete
  BY DEF Answer
<1>2. /\ KeptTrue' /\ TrueWalk(walk)'
      /\ DOMAIN kept' \subseteq Pages /\ \A p \in DOMAIN kept' : kept'[p] \in PageAnswers
      /\ walk' \in [page : {0} \union Pages, from : Counts, shown : SUBSET Pages,
                    last : PageAnswers, missable : Nat]
  <2>1. CASE request.kind # "details"
    <3>1. UNCHANGED <<kept, walk>>
      BY <2>1 DEF Answer
    <3>2. KeptTrue' /\ TrueWalk(walk)'
      BY <3>1, KeptStaysTrue, WalkKeepsTrue DEF IInv
    <3> QED
      BY <3>1, <3>2 DEF IInv, TypeOK
  <2>2. CASE request.kind = "details"
    <3> DEFINE a == request.page
               page == [total |-> Result("total"), rows |-> Result("rows"),
                        totalOf |-> Seen("total"), rowsOf |-> Seen("rows")]
    <3>1. /\ kept' = [p \in DOMAIN kept \union {a} |-> IF p = a THEN page ELSE kept[p]]
          /\ walk' = Shown(a, page)
      BY <2>2 DEF Answer
    <3>2. Len(results) = 2
      BY <1>1, <2>2, CompleteDetails DEF IInv
    <3>3. TruePage(page, a)
      <4>1. /\ TrueTotal(results[1], seenBy[1].rows)
            /\ TrueRows(results[2], seenBy[2].rows, a)
            /\ seenBy[1].rows =< seenBy[2].rows
        BY <2>2, <3>2 DEF IInv, ResultsTrue
      <4>2. /\ page.total = results[1] /\ page.totalOf = seenBy[1].rows
            /\ page.rows = results[2] /\ page.rowsOf = seenBy[2].rows
        BY <2>2, <3>2, DetailsPlaces
      <4> QED
        BY <4>1, <4>2 DEF TruePage, TrueTotal, TrueRows
    <3>4. page \in PageAnswers
      <4>1. Len(logs) \in 0 .. MaxLogs /\ MaxLogs \in Nat
        BY LengthsAssumption DEF IInv, TypeOK
      <4>2. page = [total |-> page.total, rows |-> page.rows, totalOf |-> page.totalOf,
                    rowsOf |-> page.rowsOf]
        OBVIOUS
      <4> HIDE DEF page, a
      <4> QED
        BY <3>3, <4>1, <4>2, PageHasType
    <3>5. a \in Reachable /\ a \in Pages
      BY <2>2, ReachHasType DEF IInv, InReach
    <3> HIDE DEF page, a
    <3>6. ASSUME NEW b, b = a, NEW q, q = page
          PROVE  TruePage(q, b)'
      BY <3>3, <3>6, PageStaysTrue
    <3>7. /\ TrueWalk(walk)'
          /\ walk' \in [page : {0} \union Pages, from : Counts, shown : SUBSET Pages,
                        last : PageAnswers, missable : Nat]
      <4>1. ASSUME NEW b, b = a, NEW q, q = page
            PROVE  /\ TrueWalk(walk)'
                   /\ walk' \in [page : {0} \union Pages, from : Counts, shown : SUBSET Pages,
                                 last : PageAnswers, missable : Nat]
        BY <3>1, <3>3, <3>4, <3>5, <4>1, ShowTrue
      <4> QED
        BY <4>1
    <3>8. /\ DOMAIN kept' \subseteq Pages
          /\ \A p \in DOMAIN kept' : kept'[p] \in PageAnswers
      BY <3>1, <3>4, <3>5 DEF IInv, TypeOK
    <3>9. KeptTrue'
      <4> SUFFICES ASSUME NEW p \in DOMAIN kept'
                   PROVE  TruePage(kept[p], p)'
        BY DEF KeptTrue
      <4>1. CASE p = a
        BY <3>1, <3>6, <4>1
      <4>2. CASE p # a
        <5>1. kept'[p] = kept[p] /\ p \in DOMAIN kept
          BY <3>1, <4>2
        <5>2. TruePage(kept[p], p)
          BY <5>1 DEF IInv, KeptTrue
        <5>3. ASSUME NEW q, q = kept[p]
              PROVE  TruePage(q, p)'
          BY <5>2, <5>3, PageStaysTrue
        <5> QED
          BY <5>1, <5>3
      <4> QED
        BY <4>1, <4>2
    <3> QED
      BY <3>7, <3>8, <3>9
  <2> QED
    BY <2>1, <2>2
<1>3. TypeOK'
  BY <1>1, <1>2, EndTrue DEF IInv, TypeOK
<1> QED
  BY <1>1, <1>2, <1>3, EndTrue DEF IInv

(* Every step keeps the invariant, whatever the constants are.             *)
LEMMA StepTrue ==
  ASSUME IInv, [Next]_vars
  PROVE  IInv'
<1>1. Stand
  BY StepStands DEF IInv
<1>2. ASSUME NEW row \in Shapes, AddLog(row)
      PROVE  IInv'
  BY <1>1, <1>2, AddLogTrue
<1>3. CASE ChangeOptions \/ UNCHANGED vars
  BY <1>1, <1>3, ChangeTrue
<1>4. ASSUME NEW kind \in form.asks, Ask(kind)
      PROVE  IInv'
  <2>1. kind \in Kinds /\ kind # "details" /\ Begin(kind, 0)
    BY <1>4, FormsAssumption DEF IInv, TypeOK, Ask
  <2> QED
    BY <1>1, <2>1, BeginTrue
<1>5. ASSUME NEW p \in Reachable, AskPage(p)
      PROVE  IInv'
  <2>1. "details" \in Kinds /\ Begin("details", p)
    BY <1>5 DEF AskPage, Kinds
  <2> QED
    BY <1>1, <1>5, <2>1, BeginTrue
<1>6. ASSUME NEW p \in Reachable, ShowKept(p)
      PROVE  IInv'
  BY <1>1, <1>6, ShowKeptTrue
<1>7. CASE Execute
  BY <1>1, <1>7, ExecuteTrue
<1>8. CASE Answer
  BY <1>1, <1>8, AnswerTrue
<1>9. CASE Fail
  BY <1>1, <1>9, FailTrue
<1>10. ASSUME NEW p \in DOMAIN kept, Expire(p)
       PROVE  IInv'
  BY <1>1, <1>10, ExpireTrue
<1> QED
  BY <1>2, <1>3, <1>4, <1>5, <1>6, <1>7, <1>8, <1>9, <1>10 DEF Next

(* Every state of the specification satisfies the inductive invariant.     *)
THEOREM Invariance == Spec => []IInv
<1>1. Init => IInv
  BY InitTrue
<1>2. IInv /\ [Next]_vars => IInv'
  BY StepTrue
<1> QED
  BY <1>1, <1>2, PTL DEF Spec

-----------------------------------------------------------------------------
(* What follows from it.                                                   *)

(* Every variable keeps its type: the pages that are asked for are among   *)
(* those that can have rows, whatever the total said.                      *)
THEOREM TypeCorrect == Spec => []TypeOK
<1>1. IInv => TypeOK
  BY DEF IInv
<1> QED
  BY <1>1, Invariance, PTL

(* A page of the details has at least the rows that its total promises,    *)
(* whatever is logged between the two statements (get_token_cost_details). *)
THEOREM NoShortPage == Spec => []PageWithinTotal
<1>1. IInv => PageWithinTotal
  <2> SUFFICES ASSUME IInv, Complete, request.kind = "details"
               PROVE  Cardinality(Result("rows")) >= Promised(request.page, Result("total"))
    BY DEF PageWithinTotal
  <2> DEFINE m == seenBy[1].rows
             n == seenBy[2].rows
             p == request.page
  <2>1. Len(results) = 2
    BY CompleteDetails DEF IInv
  <2>2. TrueTotal(results[1], m) /\ TrueRows(results[2], n, p) /\ m =< n
    BY <2>1 DEF IInv, ResultsTrue
  <2>3. Result("total") = results[1] /\ Result("rows") = results[2]
    BY <2>1, DetailsPlaces
  <2>4. m \in Nat /\ n \in Nat /\ Sane(n)
    BY <2>2 DEF IInv, TypeOK, TrueTotal, TrueRows, Sane
  <2>5. p \in Nat \ {0}
    BY DEF IInv, TypeOK, NoRequest, Pages
  <2>6. results[1] \in Nat /\ results[1] =< Cardinality(Matching(n))
    <3>1. Matching(m) \subseteq Matching(n)
      BY <2>2, <2>4, MatchingGrows
    <3>2. Cardinality(Matching(m)) \in Nat /\ Cardinality(Matching(m)) =< Cardinality(Matching(n))
      <4>1. IsFiniteSet(Matching(n)) /\ Cardinality(Matching(m)) \in 0 .. m
        BY <2>4, MatchingFinite
      <4> QED
        BY <2>4, <3>1, <4>1, FS_Subset
    <3>3. results[1] = Cardinality(Matching(m))
      BY <2>2 DEF TrueTotal
    <3> QED
      BY <3>2, <3>3
  <2>7. results[2] = PageRows(n, p)
    BY <2>2 DEF TrueRows
  <2> HIDE DEF n, p
  <2>8. Cardinality(PageRows(n, p)) >= Promised(p, results[1])
    BY <2>4, <2>5, <2>6, PageKeepsPromise
  <2> QED
    BY <2>3, <2>7, <2>8 DEF p
<1> QED
  BY <1>1, Invariance, PTL

(* What a walk has lost, and the total of its last page, bound what it has *)
(* missed.                                                                 *)
LEMMA WalkIsShort ==
  ASSUME IInv
  PROVE  WalkMissesFew
<1> SUFFICES ASSUME walk.page > 0, LastPage
             PROVE  Cardinality(Missed) =<
                      walk.missable + Cardinality(Matching(walk.last.rowsOf)) - walk.last.total
  BY DEF WalkMissesFew
<1> DEFINE n == walk.last.rowsOf
           o == walk.page * form.page_size
           total == walk.last.total
           L == Lost(walk.from, walk.shown, n, o)
<1>1. TruePage(walk.last, walk.page) /\ FewLost(walk) /\ walk.from \in 0 .. Len(logs)
  BY DEF IInv, TrueWalk
<1>2. /\ n \in Nat /\ walk.last.totalOf \in Nat /\ walk.last.totalOf =< n
      /\ walk.from \in Nat /\ Sane(n)
  BY <1>1 DEF TruePage, TrueTotal, TrueRows, Sane, IInv, TypeOK
<1>3. total \in Nat /\ total =< Cardinality(Matching(n)) /\ Cardinality(Matching(n)) \in Nat
  <2>1. total = Cardinality(Matching(walk.last.totalOf))
    BY <1>1 DEF TruePage, TrueTotal
  <2>2. Matching(walk.last.totalOf) \subseteq Matching(n)
    BY <1>2, MatchingGrows
  <2> QED
    BY <1>2, <2>1, <2>2, MatchingFinite, FS_Subset
<1>4. o \in Nat /\ total =< o
  <2>1. walk.page \in Nat /\ form.page_size \in Nat
    BY SizeType DEF IInv, TypeOK, Pages
  <2>2. o \in Nat
    BY <2>1
  <2> QED
    BY <1>3, <2>2 DEF LastPage
<1>5. Cardinality(L) =< walk.missable /\ walk.missable \in Nat
  BY <1>1 DEF FewLost, IInv, TypeOK
<1>6. Cardinality(L) \in Nat
  BY <1>2, LostFinite
<1>7. IsFiniteSet(Missed) /\ Cardinality(Missed) \in Nat
  BY <1>2, MatchingFinite, FS_Difference, FS_CardinalityType DEF Missed
<1>8. Cardinality(Missed) =< Cardinality(L) + Cardinality(Matching(n)) - total
  <2>1. ASSUME NEW k \in Nat, NEW f \in Nat, NEW h, NEW i, Sane(i), NEW t \in Nat,
               t =< Cardinality(Matching(i)), t =< k
        PROVE  Cardinality(Matching(f) \ h)
                 =< Cardinality(Lost(f, h, i, k)) + Cardinality(Matching(i)) - t
    BY <2>1, EndMissesFew
  <2> HIDE DEF o, total, n
  <2>2. Cardinality(Matching(walk.from) \ walk.shown) =< Cardinality(L) + Cardinality(Matching(n)) - total
    BY <1>2, <1>3, <1>4, <2>1
  <2> QED
    BY <2>2 DEF Missed
<1> HIDE DEF L, n, total
<1>9. Cardinality(Missed) =< walk.missable + Cardinality(Matching(n)) - total
  BY <1>3, <1>5, <1>6, <1>7, <1>8
<1> QED
  BY <1>9 DEF n, total

(* A walk to the last page, through pages fresh or from the cache, misses  *)
(* at most as many rows as were logged where it looked back.               *)
THEOREM FewMissed == Spec => []WalkMissesFew
<1>1. IInv => WalkMissesFew
  BY WalkIsShort
<1> QED
  BY <1>1, Invariance, PTL

-----------------------------------------------------------------------------
(* Sums.  Functions defines them by recursion over the subsets of a set,   *)
(* from whichever element is chosen.                                       *)

(* What f makes of S, and the part of S of which it makes v.               *)
Image(f, S)    == {f[x] : x \in S}
Fiber(f, S, v) == {x \in S : f[x] = v}

(* f makes no more of S than S has elements.                               *)
LEMMA ImageFinite ==
  ASSUME NEW S, IsFiniteSet(S), NEW f
  PROVE  IsFiniteSet(Image(f, S))
<1>1. PICK k : k = [x \in S |-> f[x]]
  OBVIOUS
<1>2. k \in Surjection(S, Image(f, S))
  BY <1>1 DEF Surjection, Image
<1> QED
  BY <1>2, FS_Surjection

(* it sums f over the subsets of S.                                        *)
SumsOf(it, f, S) ==
  it = [s \in SUBSET S |-> IF s = {} THEN 0
                           ELSE f[CHOOSE x \in s : TRUE] + it[s \ {CHOOSE x \in s : TRUE}]]

(* Of some subsets of a finite set, one holds no other of them.            *)
LEMMA SmallestSubset ==
  ASSUME NEW S, IsFiniteSet(S), NEW T, T \subseteq SUBSET S, T # {}
  PROVE  \E t \in T : \A u \in SUBSET t : u \in T => u = t
<1>1. IsWellFoundedOn(StrictSubsetOrdering(S), SUBSET S)
  BY FS_StrictSubsetOrderingWellFounded, FS_FiniteSubsetsOfFinite
<1>2. PICK t \in T : \A u \in T : ~ (<<u, t>> \in StrictSubsetOrdering(S))
  BY <1>1, WFMin
<1> QED
  BY <1>2 DEF StrictSubsetOrdering

(* Two such functions are one: they cannot differ at a smallest subset.    *)
LEMMA SumsOfUnique ==
  ASSUME NEW S, IsFiniteSet(S), NEW f, NEW g, NEW h, SumsOf(g, f, S), SumsOf(h, f, S)
  PROVE  g = h
<1> DEFINE T == {s \in SUBSET S : g[s] # h[s]}
<1>1. SUFFICES ASSUME T # {} PROVE FALSE
  BY DEF SumsOf
<1>2. PICK t \in T : \A u \in SUBSET t : u \in T => u = t
  <2>1. T \subseteq SUBSET S
    OBVIOUS
  <2> HIDE DEF T
  <2> QED
    BY <1>1, <2>1, SmallestSubset
<1>3. t # {}
  BY DEF SumsOf
<1> DEFINE c == CHOOSE x \in t : TRUE
<1>4. c \in t
  BY <1>3
<1> HIDE DEF c
<1>5. g[t \ {c}] = h[t \ {c}]
  BY <1>2, <1>4
<1>6. g[t] = f[c] + g[t \ {c}] /\ h[t] = f[c] + h[t \ {c}]
  BY <1>3 DEF SumsOf, c
<1> QED
  BY <1>2, <1>5, <1>6

(* A sum over the subsets of S is one over those of a part of S.           *)
LEMMA SumsOfAgree ==
  ASSUME NEW S, IsFiniteSet(S), NEW T \in SUBSET S, NEW f, NEW g, SumsOf(g, f, S),
         NEW h, SumsOf(h, f, T)
  PROVE  h[T] = g[T]
<1> DEFINE r == [s \in SUBSET T |-> g[s]]
           q == [s \in SUBSET T |-> IF s = {} THEN 0
                           ELSE f[CHOOSE x \in s : TRUE] + r[s \ {CHOOSE x \in s : TRUE}]]
<1>1. ASSUME NEW s \in SUBSET T
      PROVE  r[s] = IF s = {} THEN 0
                    ELSE f[CHOOSE x \in s : TRUE] + r[s \ {CHOOSE x \in s : TRUE}]
  <2> DEFINE c == CHOOSE x \in s : TRUE
  <2>1. g[s] = IF s = {} THEN 0 ELSE f[c] + g[s \ {c}]
    BY DEF SumsOf
  <2>2. r[s] = g[s] /\ r[s \ {c}] = g[s \ {c}]
    OBVIOUS
  <2> QED
    BY <2>1, <2>2
<1>2. r = q
  BY <1>1
<1>3. SumsOf(r, f, T)
  BY <1>2 DEF SumsOf
<1>4. r[T] = g[T]
  OBVIOUS
<1> HIDE DEF r, q
<1>5. IsFiniteSet(T)
  BY FS_Subset
<1>6. r = h
  BY <1>3, <1>5, SumsOfUnique
<1> QED
  BY <1>4, <1>6

(* There is such a function: a smallest subset for which there were none   *)
(* would have one, put together from those of its parts.                   *)
LEMMA SumsOfExist ==
  ASSUME NEW S, IsFiniteSet(S), NEW f
  PROVE  \E it : SumsOf(it, f, S)
<1> DEFINE T == {s \in SUBSET S : ~ \E it : SumsOf(it, f, s)}
<1>1. SUFFICES ASSUME T # {} PROVE FALSE
  OBVIOUS
<1>2. PICK t \in T : \A u \in SUBSET t : u \in T => u = t
  <2>1. T \subseteq SUBSET S
    OBVIOUS
  <2> HIDE DEF T
  <2> QED
    BY <1>1, <2>1, SmallestSubset
<1>3. t \in SUBSET S /\ \A it : ~ SumsOf(it, f, t)
  OBVIOUS
<1> DEFINE G(u) == CHOOSE it : SumsOf(it, f, u)
<1>4. \A u \in SUBSET t : u # t => SumsOf(G(u), f, u)
  BY <1>2
<1> HIDE DEF G, T
<1>5. \A u \in SUBSET t : u # t => \A v \in SUBSET u : G(u)[v] = G(v)[v]
  <2> SUFFICES ASSUME NEW u \in SUBSET t, u # t, NEW v \in SUBSET u
               PROVE  G(u)[v] = G(v)[v]
    OBVIOUS
  <2>1. v \in SUBSET t /\ v # t /\ IsFiniteSet(u)
    BY <1>3, FS_Subset
  <2>2. SumsOf(G(u), f, u) /\ SumsOf(G(v), f, v)
    BY <2>1, <1>4
  <2> QED
    BY <2>1, <2>2, SumsOfAgree
<1> DEFINE g == [s \in SUBSET t |-> IF s = {} THEN 0
                    ELSE f[CHOOSE x \in s : TRUE]
                         + G(s \ {CHOOSE x \in s : TRUE})[s \ {CHOOSE x \in s : TRUE}]]
<1>6. \A u \in SUBSET t : u # t => g[u] = G(u)[u]
  <2> SUFFICES ASSUME NEW u \in SUBSET t, u # t
               PROVE  g[u] = G(u)[u]
    OBVIOUS
  <2> DEFINE c == CHOOSE x \in u : TRUE
  <2>1. G(u)[u] = IF u = {} THEN 0 ELSE f[c] + G(u)[u \ {c}]
    BY <1>4 DEF SumsOf
  <2>2. G(u)[u \ {c}] = G(u \ {c})[u \ {c}]
    BY <1>5
  <2>3. g[u] = IF u = {} THEN 0 ELSE f[c] + G(u \ {c})[u \ {c}]
    OBVIOUS
  <2> QED
    BY <2>1, <2>2, <2>3
<1>7. ASSUME NEW s \in SUBSET t
      PROVE  g[s] = IF s = {} THEN 0
                    ELSE f[CHOOSE x \in s : TRUE] + g[s \ {CHOOSE x \in s : TRUE}]
  <2>1. CASE s = {}
    BY <2>1
  <2>2. CASE s # {}
    <3> DEFINE c == CHOOSE x \in s : TRUE
    <3>1. c \in s
      BY <2>2
    <3>2. s \ {c} \in SUBSET t /\ s \ {c} # t
      BY <3>1
    <3>3. g[s \ {c}] = G(s \ {c})[s \ {c}]
      BY <3>2, <1>6
    <3>4. g[s] = f[c] + G(s \ {c})[s \ {c}]
      BY <2>2
    <3> QED
      BY <2>2, <3>3, <3>4
  <2> QED
    BY <2>1, <2>2
<1>8. SumsOf(g, f, t)
  BY <1>7 DEF SumsOf
<1> QED
  BY <1>3, <1>8

(* The sum that the definition chooses is one.                             *)
LEMMA SumIs ==
  ASSUME NEW S, IsFiniteSet(S), NEW f
  PROVE  \E g : SumsOf(g, f, S) /\ SumFunctionOnSet(f, S) = g[S]
<1> DEFINE g == CHOOSE it : SumsOf(it, f, S)
<1>1. SumsOf(g, f, S)
  BY SumsOfExist
<1>2. SumFunctionOnSet(f, S) = g[S]
  BY DEF SumFunctionOnSet, FoldFunctionOnSet, MapThenFoldSet, SumsOf
<1> QED
  BY <1>1, <1>2

(* The sum over no element.                                                *)
LEMMA SumEmpty ==
  ASSUME NEW f
  PROVE  SumFunctionOnSet(f, {}) = 0
<1>1. PICK g : SumsOf(g, f, {}) /\ SumFunctionOnSet(f, {}) = g[{}]
  BY SumIs, FS_EmptySet
<1> QED
  BY <1>1 DEF SumsOf

(* The sum over some elements, from the one that is chosen.                *)
LEMMA SumUnfolds ==
  ASSUME NEW S, IsFiniteSet(S), S # {}, NEW f
  PROVE  \E c \in S : SumFunctionOnSet(f, S) = f[c] + SumFunctionOnSet(f, S \ {c})
<1> DEFINE c == CHOOSE x \in S : TRUE
<1>1. c \in S
  OBVIOUS
<1>2. PICK g : SumsOf(g, f, S) /\ SumFunctionOnSet(f, S) = g[S]
  BY SumIs
<1>3. g[S] = f[c] + g[S \ {c}]
  BY <1>2 DEF SumsOf
<1> HIDE DEF c
<1>4. IsFiniteSet(S \ {c})
  BY FS_RemoveElement
<1>5. PICK h : SumsOf(h, f, S \ {c}) /\ SumFunctionOnSet(f, S \ {c}) = h[S \ {c}]
  BY <1>4, SumIs
<1>6. h[S \ {c}] = g[S \ {c}]
  BY <1>2, <1>5, SumsOfAgree
<1> QED
  BY <1>1, <1>2, <1>3, <1>5, <1>6

(* A sum of integers is one.                                               *)
LEMMA SumType ==
  ASSUME NEW S, IsFiniteSet(S), NEW f, \A x \in S : f[x] \in Int
  PROVE  SumFunctionOnSet(f, S) \in Int
<1> DEFINE T == {s \in SUBSET S : SumFunctionOnSet(f, s) \notin Int}
<1>1. SUFFICES ASSUME T # {} PROVE FALSE
  OBVIOUS
<1>2. PICK t \in T : \A u \in SUBSET t : u \in T => u = t
  <2>1. T \subseteq SUBSET S
    OBVIOUS
  <2> HIDE DEF T
  <2> QED
    BY <1>1, <2>1, SmallestSubset
<1>3. IsFiniteSet(t) /\ t \in SUBSET S /\ SumFunctionOnSet(f, t) \notin Int
  BY FS_Subset
<1>4. t # {}
  BY <1>3, SumEmpty
<1>5. PICK c \in t : SumFunctionOnSet(f, t) = f[c] + SumFunctionOnSet(f, t \ {c})
  BY <1>3, <1>4, SumUnfolds
<1>6. SumFunctionOnSet(f, t \ {c}) \in Int
  BY <1>2, <1>3, <1>5
<1> QED
  BY <1>3, <1>5, <1>6

(* The sum unfolds at any element.                                         *)
LEMMA SumRemove ==
  ASSUME NEW S, IsFiniteSet(S), NEW f, \A x \in S : f[x] \in Int
  PROVE  \A x \in S : SumFunctionOnSet(f, S) = f[x] + SumFunctionOnSet(f, S \ {x})
<1> DEFINE T == {s \in SUBSET S :
                   \E x \in s : SumFunctionOnSet(f, s) # f[x] + SumFunctionOnSet(f, s \ {x})}
<1>1. SUFFICES ASSUME T # {} PROVE FALSE
  OBVIOUS
<1>2. PICK t \in T : \A u \in SUBSET t : u \in T => u = t
  <2>1. T \subseteq SUBSET S
    OBVIOUS
  <2> HIDE DEF T
  <2> QED
    BY <1>1, <2>1, SmallestSubset
<1>3. PICK x \in t : SumFunctionOnSet(f, t) # f[x] + SumFunctionOnSet(f, t \ {x})
  OBVIOUS
<1>4. t \in SUBSET S /\ IsFiniteSet(t)
  BY FS_Subset
<1>5. PICK c \in t : SumFunctionOnSet(f, t) = f[c] + SumFunctionOnSet(f, t \ {c})
  BY <1>4, SumUnfolds
<1>6. c # x
  BY <1>3, <1>5
<1>7. \A u \in SUBSET t : u # t =>
        \A y \in u : SumFunctionOnSet(f, u) = f[y] + SumFunctionOnSet(f, u \ {y})
  BY <1>2, <1>4
<1> HIDE DEF T
<1>8. PICK rest : rest = (t \ {c}) \ {x}
  OBVIOUS
<1>9. rest = (t \ {x}) \ {c} /\ rest \in SUBSET S
  BY <1>4, <1>8
<1>10. SumFunctionOnSet(f, t \ {c}) = f[x] + SumFunctionOnSet(f, rest)
  BY <1>6, <1>7, <1>8
<1>11. SumFunctionOnSet(f, t \ {x}) = f[c] + SumFunctionOnSet(f, rest)
  BY <1>6, <1>7, <1>9
<1>12. f[x] \in Int /\ f[c] \in Int /\ SumFunctionOnSet(f, rest) \in Int
  BY <1>4, <1>9, SumType, FS_Subset
<1> QED
  BY <1>3, <1>5, <1>10, <1>11, <1>12

(* The sum over two sets that share nothing.                               *)
LEMMA SumUnion ==
  ASSUME NEW A, IsFiniteSet(A), NEW B, IsFiniteSet(B), A \intersect B = {},
         NEW f, \A x \in A \union B : f[x] \in Int
  PROVE  SumFunctionOnSet(f, A \union B) = SumFunctionOnSet(f, A) + SumFunctionOnSet(f, B)
<1> DEFINE T == {s \in SUBSET A :
                   SumFunctionOnSet(f, s \union B) # SumFunctionOnSet(f, s) + SumFunctionOnSet(f, B)}
<1>1. SUFFICES ASSUME T # {} PROVE FALSE
  OBVIOUS
<1>2. PICK t \in T : \A u \in SUBSET t : u \in T => u = t
  <2>1. T \subseteq SUBSET A
    OBVIOUS
  <2> HIDE DEF T
  <2> QED
    BY <1>1, <2>1, SmallestSubset
<1>3. t \in SUBSET A /\ IsFiniteSet(t)
  BY FS_Subset
<1>4. SumFunctionOnSet(f, t \union B) # SumFunctionOnSet(f, t) + SumFunctionOnSet(f, B)
  OBVIOUS
<1>5. SumFunctionOnSet(f, B) \in Int
  BY SumType
<1>6. t # {}
  <2>1. SUFFICES ASSUME t = {} PROVE FALSE
    OBVIOUS
  <2>2. SumFunctionOnSet(f, t) = 0
    BY <2>1, SumEmpty
  <2>3. PICK w : w = t \union B
    OBVIOUS
  <2>4. w = B
    BY <2>1, <2>3
  <2>5. SumFunctionOnSet(f, w) # SumFunctionOnSet(f, t) + SumFunctionOnSet(f, B)
    BY <1>4, <2>3
  <2> QED
    BY <1>5, <2>2, <2>4, <2>5
<1>7. PICK x \in t : TRUE
  BY <1>6
<1>8. PICK s : s = t \ {x}
  OBVIOUS
<1>9. SumFunctionOnSet(f, s \union B) = SumFunctionOnSet(f, s) + SumFunctionOnSet(f, B)
  BY <1>2, <1>3, <1>7, <1>8
<1> HIDE DEF T
<1>10. SumFunctionOnSet(f, t) = f[x] + SumFunctionOnSet(f, s)
  BY <1>3, <1>7, <1>8, SumRemove
<1>11. SumFunctionOnSet(f, t \union B) = f[x] + SumFunctionOnSet(f, s \union B)
  <2>1. PICK w : w = t \union B
    OBVIOUS
  <2>2. IsFiniteSet(w) /\ x \in w /\ \A y \in w : f[y] \in Int
    BY <1>3, <1>7, <2>1, FS_Union
  <2>3. SumFunctionOnSet(f, w) = f[x] + SumFunctionOnSet(f, w \ {x})
    BY <2>2, SumRemove
  <2>4. w \ {x} = s \union B
    BY <1>3, <1>7, <1>8, <2>1
  <2> QED
    BY <2>1, <2>3, <2>4
<1>12. f[x] \in Int /\ SumFunctionOnSet(f, s) \in Int
  <2>1. s \in SUBSET A /\ IsFiniteSet(s)
    BY <1>3, <1>8, FS_RemoveElement
  <2> QED
    BY <1>3, <1>7, <2>1, SumType
<1> QED
  BY <1>4, <1>5, <1>9, <1>10, <1>11, <1>12

(* Equal summands have equal sums.                                         *)
LEMMA SumSame ==
  ASSUME NEW S, IsFiniteSet(S), NEW f, NEW g, \A x \in S : f[x] = g[x]
  PROVE  SumFunctionOnSet(f, S) = SumFunctionOnSet(g, S)
<1>1. PICK h : SumsOf(h, f, S) /\ SumFunctionOnSet(f, S) = h[S]
  BY SumIs
<1>2. PICK k : SumsOf(k, g, S) /\ SumFunctionOnSet(g, S) = k[S]
  BY SumIs
<1>3. SumsOf(h, g, S)
  <2>1. \A s \in SUBSET S : s # {} => f[CHOOSE x \in s : TRUE] = g[CHOOSE x \in s : TRUE]
    OBVIOUS
  <2>2. [s \in SUBSET S |-> IF s = {} THEN 0
             ELSE f[CHOOSE x \in s : TRUE] + h[s \ {CHOOSE x \in s : TRUE}]]
      = [s \in SUBSET S |-> IF s = {} THEN 0
             ELSE g[CHOOSE x \in s : TRUE] + h[s \ {CHOOSE x \in s : TRUE}]]
    BY <2>1
  <2> QED
    BY <1>1, <2>2 DEF SumsOf
<1>4. h = k
  BY <1>2, <1>3, SumsOfUnique
<1> QED
  BY <1>1, <1>2, <1>4

(* Summing ones is counting.                                               *)
LEMMA SumCounts ==
  ASSUME NEW S, IsFiniteSet(S), NEW f, \A x \in S : f[x] = 1
  PROVE  SumFunctionOnSet(f, S) = Cardinality(S)
<1> DEFINE T == {s \in SUBSET S : SumFunctionOnSet(f, s) # Cardinality(s)}
<1>1. SUFFICES ASSUME T # {} PROVE FALSE
  OBVIOUS
<1>2. PICK t \in T : \A u \in SUBSET t : u \in T => u = t
  <2>1. T \subseteq SUBSET S
    OBVIOUS
  <2> HIDE DEF T
  <2> QED
    BY <1>1, <2>1, SmallestSubset
<1>3. IsFiniteSet(t) /\ t \in SUBSET S /\ SumFunctionOnSet(f, t) # Cardinality(t)
  BY FS_Subset
<1>4. t # {}
  BY <1>3, SumEmpty, FS_EmptySet
<1>5. PICK c \in t : SumFunctionOnSet(f, t) = f[c] + SumFunctionOnSet(f, t \ {c})
  BY <1>3, <1>4, SumUnfolds
<1>6. SumFunctionOnSet(f, t \ {c}) = Cardinality(t \ {c})
  BY <1>2, <1>3, <1>5
<1> HIDE DEF T
<1>7. Cardinality(t \ {c}) = Cardinality(t) - 1 /\ Cardinality(t) \in Nat
  BY <1>3, <1>5, FS_RemoveElement, FS_CardinalityType
<1>8. f[c] = 1
  BY <1>3, <1>5
<1> QED
  BY <1>3, <1>5, <1>6, <1>7, <1>8

(* The sum over other names of the same things.                            *)
LEMMA SumRenamed ==
  ASSUME NEW V, IsFiniteSet(V), NEW name, NEW G, G = Image(name, V),
         \A v, w \in V : name[v] = name[w] => v = w,
         NEW f, NEW g, \A v \in V : f[name[v]] = g[v] /\ g[v] \in Int
  PROVE  SumFunctionOnSet(f, G) = SumFunctionOnSet(g, V)
<1> USE DEF Image
<1> DEFINE Named(s) == {name[v] : v \in s}
           Good(s) == IsFiniteSet(Named(s))
                      /\ SumFunctionOnSet(f, Named(s)) = SumFunctionOnSet(g, s)
           T == {s \in SUBSET V : ~Good(s)}
<1>1. SUFFICES ASSUME T # {} PROVE FALSE
  <2>1. V \in SUBSET V /\ G = Named(V)
    OBVIOUS
  <2> QED
    BY <2>1
<1>2. PICK t \in T : \A u \in SUBSET t : u \in T => u = t
  <2>1. T \subseteq SUBSET V
    OBVIOUS
  <2> HIDE DEF T
  <2> QED
    BY <1>1, <2>1, SmallestSubset
<1>3. t \in SUBSET V /\ IsFiniteSet(t) /\ ~Good(t)
  BY FS_Subset
<1>4. \A u \in SUBSET t : u # t => Good(u)
  BY <1>2, <1>3
<1> HIDE DEF T, Good
<1>5. t # {}
  <2>1. SUFFICES ASSUME t = {} PROVE FALSE
    OBVIOUS
  <2>2. Named(t) = {}
    BY <2>1
  <2>3. SumFunctionOnSet(f, {}) = 0 /\ SumFunctionOnSet(g, {}) = 0
    BY SumEmpty
  <2> HIDE DEF Named
  <2> QED
    BY <1>3, <2>1, <2>2, <2>3, FS_EmptySet DEF Good
<1>6. PICK x \in t : TRUE
  BY <1>5
<1>7. PICK s : s = t \ {x}
  OBVIOUS
<1>8. PICK M : M = Named(t)
  OBVIOUS
<1>9. M \ {name[x]} = Named(s) /\ M = Named(s) \union {name[x]} /\ name[x] \in M
  BY <1>3, <1>6, <1>7, <1>8
<1>10. \A y \in M : f[y] \in Int
  BY <1>3, <1>8
<1>11. Good(s)
  BY <1>4, <1>6, <1>7
<1> HIDE DEF Named
<1>12. IsFiniteSet(M)
  BY <1>9, <1>11, FS_AddElement DEF Good
<1>13. SumFunctionOnSet(f, M) = f[name[x]] + SumFunctionOnSet(f, M \ {name[x]})
  BY <1>9, <1>10, <1>12, SumRemove
<1>14. SumFunctionOnSet(g, t) = g[x] + SumFunctionOnSet(g, s)
  BY <1>3, <1>6, <1>7, SumRemove
<1>15. SumFunctionOnSet(f, M) = SumFunctionOnSet(g, t)
  BY <1>3, <1>6, <1>9, <1>11, <1>13, <1>14 DEF Good
<1> QED
  BY <1>3, <1>8, <1>12, <1>15 DEF Good

(* The sum by groups is the sum.                                           *)
LEMMA SumByGroups ==
  ASSUME NEW S, IsFiniteSet(S), NEW f, \A x \in S : f[x] \in Int,
         NEW key, NEW V, V = Image(key, S),
         NEW h, \A v \in V : h[v] = SumFunctionOnSet(f, Fiber(key, S, v))
  PROVE  SumFunctionOnSet(h, V) = SumFunctionOnSet(f, S)
<1> DEFINE In(s) == {x \in S : key[x] \in s}
           Good(s) == SumFunctionOnSet(h, s) = SumFunctionOnSet(f, In(s))
           T == {s \in SUBSET V : ~Good(s)}
<1>1. IsFiniteSet(V)
  BY ImageFinite
<1> USE DEF Image, Fiber
<1>2. V \in SUBSET V /\ In(V) = S
  OBVIOUS
<1>3. SUFFICES ASSUME T # {} PROVE FALSE
  BY <1>1, <1>2
<1>4. PICK t \in T : \A u \in SUBSET t : u \in T => u = t
  <2>1. T \subseteq SUBSET V
    OBVIOUS
  <2> HIDE DEF T
  <2> QED
    BY <1>1, <1>3, <2>1, SmallestSubset
<1>5. t \in SUBSET V /\ ~Good(t)
  OBVIOUS
<1>6. IsFiniteSet(t)
  BY <1>1, <1>5, FS_Subset
<1>7. \A u \in SUBSET t : u # t => Good(u)
  BY <1>4, <1>5
<1> HIDE DEF T
<1>8. t # {}
  <2>1. SUFFICES ASSUME t = {} PROVE FALSE
    OBVIOUS
  <2>2. In(t) = {}
    BY <2>1
  <2> HIDE DEF In
  <2> QED
    BY <1>5, <2>1, <2>2, SumEmpty
<1>9. \A s \in SUBSET V : In(s) \in SUBSET S
  OBVIOUS
<1>10. \A s \in SUBSET V : IsFiniteSet(In(s))
  <2> HIDE DEF In
  <2> QED
    BY <1>9, FS_Subset
<1>11. \A v \in t : h[v] = SumFunctionOnSet(f, In({v}))
  <2> SUFFICES ASSUME NEW v \in t PROVE h[v] = SumFunctionOnSet(f, In({v}))
    OBVIOUS
  <2>1. In({v}) = {x \in S : key[x] = v}
    OBVIOUS
  <2> HIDE DEF In
  <2> QED
    BY <1>5, <2>1
<1>12. \A v \in t : h[v] \in Int
  <2> SUFFICES ASSUME NEW v \in t PROVE h[v] \in Int
    OBVIOUS
  <2> HIDE DEF In
  <2>1. PICK M : M = In({v})
    OBVIOUS
  <2>2. IsFiniteSet(M) /\ \A x \in M : f[x] \in Int
    BY <1>5, <1>9, <1>10, <2>1
  <2> QED
    BY <1>11, <2>1, <2>2, SumType
<1>13. PICK c \in t : SumFunctionOnSet(h, t) = h[c] + SumFunctionOnSet(h, t \ {c})
  BY <1>6, <1>8, SumUnfolds
<1>14. SumFunctionOnSet(h, t \ {c}) = SumFunctionOnSet(f, In(t \ {c}))
  BY <1>7, <1>13
<1>15. In(t) = In({c}) \union In(t \ {c}) /\ In({c}) \intersect In(t \ {c}) = {}
  BY <1>13
<1> HIDE DEF In
<1>16. SumFunctionOnSet(f, In(t)) = SumFunctionOnSet(f, In({c})) + SumFunctionOnSet(f, In(t \ {c}))
  <2>1. {c} \in SUBSET V /\ t \ {c} \in SUBSET V
    BY <1>5, <1>13
  <2>2. PICK A : A = In({c})
    OBVIOUS
  <2>3. PICK B : B = In(t \ {c})
    OBVIOUS
  <2>4. /\ IsFiniteSet(A) /\ IsFiniteSet(B) /\ A \intersect B = {}
        /\ \A x \in A \union B : f[x] \in Int
    BY <1>9, <1>10, <1>15, <2>1, <2>2, <2>3
  <2>5. SumFunctionOnSet(f, A \union B) = SumFunctionOnSet(f, A) + SumFunctionOnSet(f, B)
    BY <2>4, SumUnion
  <2> QED
    BY <1>15, <2>2, <2>3, <2>5
<1> QED
  BY <1>5, <1>11, <1>13, <1>14, <1>16

-----------------------------------------------------------------------------
(* The parts of an answer.                                                 *)

(* What rows cost, and how many each is.                                   *)
CostOf(rows, o) == [i \in 1 .. Len(rows) |-> CostTotal(rows[i], Rate(o))]
OneOf(rows)     == [i \in 1 .. Len(rows) |-> 1]

(* A row's cost is a number, and the column that the sums are over.        *)
LEMMA CostType ==
  ASSUME NEW row \in Shapes, NEW o \in Options
  PROVE  /\ CostTotal(row, Rate(o)) \in Int
         /\ Column(row, Rate(o), "actual_cost") = CostTotal(row, Rate(o))
<1>1. Rate(o) \in Int
  BY OptionsAssumption DEF Rate, OrDefault
<1>2. row.quota \in Int /\ One \in Int
  BY ShapesAssumption, OneAssumption
<1>3. ASSUME NEW q \in Int, NEW r \in Int, NEW u \in Int
      PROVE  q * r * u * u * u \in Int
  BY <1>3
<1>4. CostTotal(row, Rate(o)) \in Int
  BY <1>1, <1>2, <1>3 DEF CostTotal
<1>5. Column(row, Rate(o), "actual_cost") = CostTotal(row, Rate(o))
  BY DEF Column
<1> QED
  BY <1>4, <1>5

(* Totals are a count and a sum.                                           *)
LEMMA TotalsAre ==
  ASSUME logs \in Seq(Shapes), options \in Options, NEW S \in SUBSET (1 .. Len(logs))
  PROVE  /\ IsFiniteSet(S)
         /\ Totals(S).request_count = SumFunctionOnSet(OneOf(logs), S)
         /\ Totals(S).cost = SumFunctionOnSet(CostOf(logs, options), S)
         /\ Totals(S).request_count \in Int /\ Totals(S).cost \in Int
         /\ Totals(S) = [request_count |-> Totals(S).request_count, cost |-> Totals(S).cost]
<1>1. IsFiniteSet(S)
  <2>1. IsFiniteSet(1 .. Len(logs))
    BY FS_Interval
  <2> QED
    BY <2>1, FS_Subset
<1>2. \A i \in S : logs[i] \in Shapes /\ OneOf(logs)[i] = 1
  BY DEF OneOf
<1>3. \A i \in S : CostOf(logs, options)[i] = CostTotal(logs[i], Rate(options))
  BY DEF CostOf
<1>4. \A i \in S : CostTotal(logs[i], Rate(options)) \in Int
  BY <1>2, CostType
<1>5. Cardinality(S) = SumFunctionOnSet(OneOf(logs), S) /\ Cardinality(S) \in Int
  <2>1. SumFunctionOnSet(OneOf(logs), S) = Cardinality(S)
    BY <1>1, <1>2, SumCounts
  <2> QED
    BY <1>1, <2>1, FS_CardinalityType
<1>6. SumOver(S, "actual_cost") = SumFunctionOnSet(CostOf(logs, options), S)
  <2> DEFINE f == [i \in S |-> Column(logs[i], Rate(options), "actual_cost")]
  <2>1. \A i \in S : f[i] = CostOf(logs, options)[i]
    BY <1>2, <1>3, CostType
  <2>2. SumOver(S, "actual_cost") = SumFunctionOnSet(f, S)
    BY DEF SumOver, SumFunction
  <2> HIDE DEF f
  <2> QED
    BY <1>1, <2>1, <2>2, SumSame
<1>7. SumFunctionOnSet(CostOf(logs, options), S) \in Int
  BY <1>1, <1>3, <1>4, SumType
<1> QED
  BY <1>1, <1>5, <1>6, <1>7 DEF Totals

(* The elements of S are rows, as a fact that types no element for the     *)
(* backends: what is known of S is then of the form that a lemma assumes.  *)
Rows(S) == S \in SUBSET (1 .. Len(logs))

(* Counts by any key add up to the count.                                  *)
LEMMA CountsByKey ==
  ASSUME logs \in Seq(Shapes), options \in Options, NEW S, Rows(S),
         NEW key, NEW V, V = Image(key, S),
         NEW n, \A v \in V : n[v] = Totals(Fiber(key, S, v)).request_count
  PROVE  SumFunctionOnSet(n, V) = Totals(S).request_count
<1>1. PICK f : f = OneOf(logs)
  OBVIOUS
<1>2. ASSUME NEW v \in V
      PROVE  n[v] = SumFunctionOnSet(f, Fiber(key, S, v))
  <2>1. PICK M : M = Fiber(key, S, v)
    OBVIOUS
  <2>2. M \in SUBSET (1 .. Len(logs))
    BY <2>1 DEF Fiber, Rows
  <2>3. n[v] = Totals(M).request_count
    BY <2>1
  <2>4. Totals(M).request_count = SumFunctionOnSet(OneOf(logs), M)
    BY <2>2, TotalsAre
  <2> QED
    BY <1>1, <2>1, <2>3, <2>4
<1>3. IsFiniteSet(S)
  BY TotalsAre DEF Rows
<1>4. SumFunctionOnSet(f, S) = Totals(S).request_count
  BY <1>1, TotalsAre DEF Rows
<1>5. \A i \in S : f[i] \in Int
  BY <1>1 DEF OneOf, Rows
<1>6. \A v \in V : n[v] = SumFunctionOnSet(f, Fiber(key, S, v))
  BY <1>2
<1>7. SumFunctionOnSet(n, V) = SumFunctionOnSet(f, S)
  BY <1>3, <1>5, <1>6, SumByGroups
<1> QED
  BY <1>4, <1>7

(* So do costs.                                                            *)
LEMMA CostsByKey ==
  ASSUME logs \in Seq(Shapes), options \in Options, NEW S, Rows(S),
         NEW key, NEW V, V = Image(key, S),
         NEW n, \A v \in V : n[v] = Totals(Fiber(key, S, v)).cost
  PROVE  SumFunctionOnSet(n, V) = Totals(S).cost
<1>1. PICK f : f = CostOf(logs, options)
  OBVIOUS
<1>2. ASSUME NEW v \in V
      PROVE  n[v] = SumFunctionOnSet(f, Fiber(key, S, v))
  <2>1. PICK M : M = Fiber(key, S, v)
    OBVIOUS
  <2>2. M \in SUBSET (1 .. Len(logs))
    BY <2>1 DEF Fiber, Rows
  <2>3. n[v] = Totals(M).cost
    BY <2>1
  <2>4. Totals(M).cost = SumFunctionOnSet(CostOf(logs, options), M)
    BY <2>2, TotalsAre
  <2> QED
    BY <1>1, <2>1, <2>3, <2>4
<1>3. IsFiniteSet(S)
  BY TotalsAre DEF Rows
<1>4. SumFunctionOnSet(f, S) = Totals(S).cost
  BY <1>1, TotalsAre DEF Rows
<1>5. \A i \in S : f[i] \in Int
  <2> SUFFICES ASSUME NEW i \in S PROVE CostOf(logs, options)[i] \in Int
    BY <1>1
  <2>1. i \in 1 .. Len(logs)
    BY DEF Rows
  <2>2. logs[i] \in Shapes
    BY <2>1
  <2> QED
    BY <2>1, <2>2, CostType DEF CostOf
<1>6. \A v \in V : n[v] = SumFunctionOnSet(f, Fiber(key, S, v))
  BY <1>2
<1>7. SumFunctionOnSet(n, V) = SumFunctionOnSet(f, S)
  BY <1>3, <1>5, <1>6, SumByGroups
<1> QED
  BY <1>4, <1>7

(* No row falls between two buckets.                                       *)
LEMMA TrendAddsUp ==
  ASSUME logs \in Seq(Shapes), options \in Options, NEW S, Rows(S)
  PROVE  Total("trend", Trend(S)) = Totals(S)
<1>1. PICK trend : trend = Trend(S)
  OBVIOUS
<1>2. PICK key : key = [i \in S |-> Bucket(i)]
  OBVIOUS
<1>3. PICK V : V = Image(key, S)
  OBVIOUS
<1>4. V = {Bucket(i) : i \in S} /\ DOMAIN trend = V
  BY <1>1, <1>2, <1>3 DEF Trend, Image
<1>5. \A b \in V : trend[b] = Totals(Fiber(key, S, b))
  <2> SUFFICES ASSUME NEW b \in V PROVE trend[b] = Totals(Fiber(key, S, b))
    OBVIOUS
  <2>1. trend[b] = Totals({i \in S : Bucket(i) = b})
    BY <1>1, <1>4 DEF Trend
  <2>2. {i \in S : Bucket(i) = b} = Fiber(key, S, b)
    BY <1>2 DEF Fiber
  <2> QED
    BY <2>1, <2>2
<1>6. PICK n : n = [b \in V |-> trend[b].request_count]
  OBVIOUS
<1>7. PICK c : c = [b \in V |-> trend[b].cost]
  OBVIOUS
<1>8. Total("trend", trend)
        = [request_count |-> SumFunctionOnSet(n, V), cost |-> SumFunctionOnSet(c, V)]
  BY <1>4, <1>6, <1>7 DEF Total, SumFunction
<1>9. SumFunctionOnSet(n, V) = Totals(S).request_count
  <2>1. \A b \in V : n[b] = Totals(Fiber(key, S, b)).request_count
    BY <1>5, <1>6
  <2> QED
    BY <1>3, <2>1, CountsByKey
<1>10. SumFunctionOnSet(c, V) = Totals(S).cost
  <2>1. \A b \in V : c[b] = Totals(Fiber(key, S, b)).cost
    BY <1>5, <1>7
  <2> QED
    BY <1>3, <2>1, CostsByKey
<1> QED
  BY <1>1, <1>8, <1>9, <1>10, TotalsAre DEF Rows

(* Entries whose totals can be added up, none of them the tail.            *)
Entries(G) ==
  /\ IsFiniteSet(G)
  /\ \A g \in G : /\ g.totals.request_count \in Int /\ g.totals.cost \in Int
                  /\ g.name # Other

(* No row is left out of the groups of a dimension, or is in two.          *)
LEMMA GroupsAddUp ==
  ASSUME logs \in Seq(Shapes), options \in Options, NEW S, Rows(S),
         NEW d \in {"model", "group", "channel", "path"}
  PROVE  Entries(Groups(S, d)) /\ AddUp(Groups(S, d)) = Totals(S)
<1>1. PICK G : G = Groups(S, d)
  OBVIOUS
<1>2. PICK key : key = [i \in S |-> logs[i][d]]
  OBVIOUS
<1>3. PICK V : V = Image(key, S)
  OBVIOUS
<1>4. V = {logs[i][d] : i \in S}
  BY <1>2, <1>3 DEF Image
<1>5. PICK total : total = [v \in V |-> Totals(Fiber(key, S, v))]
  OBVIOUS
<1>6. PICK name : name = [v \in V |-> [name |-> v, totals |-> total[v]]]
  OBVIOUS
<1>7. G = Image(name, V)
  <2>1. \A v \in V : {i \in S : logs[i][d] = v} = Fiber(key, S, v)
    BY <1>2 DEF Fiber
  <2>2. \A v \in V : total[v] = Totals({i \in S : logs[i][d] = v})
    BY <1>5, <2>1
  <2>3. \A v \in V : name[v] = [name |-> v, totals |-> Totals({i \in S : logs[i][d] = v})]
    BY <1>6, <2>2
  <2> QED
    BY <1>1, <1>4, <2>3 DEF Groups, Image
<1>8. \A v \in V : name[v].name = v /\ name[v].totals = total[v]
  BY <1>6
<1>9. PICK n : n = [v \in V |-> total[v].request_count]
  OBVIOUS
<1>10. PICK c : c = [v \in V |-> total[v].cost]
  OBVIOUS
<1>11. IsFiniteSet(V) /\ \A v \in V : n[v] \in Int /\ c[v] \in Int
  <2>1. IsFiniteSet(V)
    BY <1>3, TotalsAre, ImageFinite DEF Rows
  <2>2. ASSUME NEW v \in V
        PROVE  n[v] \in Int /\ c[v] \in Int
    <3>1. PICK M : M = Fiber(key, S, v)
      OBVIOUS
    <3>2. M \in SUBSET (1 .. Len(logs))
      BY <3>1 DEF Fiber, Rows
    <3>3. n[v] = Totals(M).request_count /\ c[v] = Totals(M).cost
      BY <1>5, <1>9, <1>10, <3>1
    <3> QED
      BY <3>2, <3>3, TotalsAre
  <2> QED
    BY <2>1, <2>2
<1>12. /\ SumFunctionOnSet(n, V) = Totals(S).request_count
       /\ SumFunctionOnSet(c, V) = Totals(S).cost
  <2>1. \A v \in V : n[v] = Totals(Fiber(key, S, v)).request_count
    BY <1>5, <1>9
  <2>2. \A v \in V : c[v] = Totals(Fiber(key, S, v)).cost
    BY <1>5, <1>10
  <2>3. SumFunctionOnSet(n, V) = Totals(S).request_count
    BY <1>3, <2>1, CountsByKey
  <2>4. SumFunctionOnSet(c, V) = Totals(S).cost
    BY <1>3, <2>2, CostsByKey
  <2> QED
    BY <2>3, <2>4
<1>13. PICK nG : nG = [g \in G |-> g.totals.request_count]
  OBVIOUS
<1>14. PICK cG : cG = [g \in G |-> g.totals.cost]
  OBVIOUS
<1>15. AddUp(G) = [request_count |-> SumFunctionOnSet(nG, G), cost |-> SumFunctionOnSet(cG, G)]
  BY <1>13, <1>14 DEF AddUp, SumFunction
<1>16. \A v, w \in V : name[v] = name[w] => v = w
  BY <1>8
<1>17. \A v \in V : /\ nG[name[v]] = n[v] /\ n[v] \in Int
                    /\ cG[name[v]] = c[v] /\ c[v] \in Int
  <2> SUFFICES ASSUME NEW v \in V
               PROVE  nG[name[v]] = n[v] /\ cG[name[v]] = c[v]
    BY <1>11
  <2>1. PICK g : g = name[v]
    OBVIOUS
  <2>2. g \in G /\ g.totals = total[v]
    BY <1>7, <1>8, <2>1 DEF Image
  <2>3. n[v] = total[v].request_count /\ c[v] = total[v].cost
    BY <1>9, <1>10
  <2>4. nG[g] = g.totals.request_count /\ cG[g] = g.totals.cost
    BY <1>13, <1>14, <2>2
  <2> QED
    BY <2>1, <2>2, <2>3, <2>4
<1>18. SumFunctionOnSet(nG, G) = SumFunctionOnSet(n, V)
  <2>1. \A v \in V : nG[name[v]] = n[v] /\ n[v] \in Int
    BY <1>17
  <2> QED
    BY <1>7, <1>11, <1>16, <2>1, SumRenamed
<1>19. SumFunctionOnSet(cG, G) = SumFunctionOnSet(c, V)
  <2>1. \A v \in V : cG[name[v]] = c[v] /\ c[v] \in Int
    BY <1>17
  <2> QED
    BY <1>7, <1>11, <1>16, <2>1, SumRenamed
<1>20. \A v \in V : v # Other
  <2> SUFFICES ASSUME NEW i \in S PROVE logs[i][d] # Other
    BY <1>4
  <2>1. logs[i] \in Shapes
    BY DEF Rows
  <2> QED
    BY <2>1, OtherAssumption
<1>21. Entries(G)
  <2>1. ASSUME NEW g \in G
        PROVE  /\ g.totals.request_count \in Int /\ g.totals.cost \in Int
               /\ g.name # Other
    <3>1. PICK v \in V : g = name[v]
      BY <1>7 DEF Image
    <3>2. g.name = v /\ g.totals = total[v]
      BY <1>8, <3>1
    <3>3. n[v] = total[v].request_count /\ c[v] = total[v].cost
      BY <1>9, <1>10
    <3> QED
      BY <1>11, <1>20, <3>2, <3>3
  <2>2. IsFiniteSet(G)
    BY <1>7, <1>11, ImageFinite
  <2> QED
    BY <2>1, <2>2 DEF Entries
<1>22. AddUp(G) = Totals(S)
  BY <1>12, <1>15, <1>18, <1>19, TotalsAre DEF Rows
<1> QED
  BY <1>1, <1>21, <1>22

(* No entry is lost with the tail.                                         *)
LEMMA TopAddsUp ==
  ASSUME NEW G, Entries(G), NEW r \in TopN(G)
  PROVE  AddUp(r) = AddUp(G)
<1> SUFFICES ASSUME r # G PROVE AddUp(r) = AddUp(G)
  OBVIOUS
<1>1. PICK head \in SUBSET G :
        r = head \union {[name |-> Other, totals |-> AddUp(Rest(G, head))]}
  BY DEF TopN, kSubset
<1> DEFINE rest == Rest(G, head)
           tail == [name |-> Other, totals |-> AddUp(rest)]
           n(H) == [g \in H |-> g.totals.request_count]
           c(H) == [g \in H |-> g.totals.cost]
<1>2. rest \in SUBSET G /\ head \union rest = G /\ head \intersect rest = {}
  BY DEF Rest
<1>3. IsFiniteSet(head) /\ IsFiniteSet(rest)
  BY <1>2, FS_Subset DEF Entries
<1>4. \A g \in G : /\ n(G)[g] = g.totals.request_count /\ n(G)[g] \in Int
                   /\ c(G)[g] = g.totals.cost /\ c(G)[g] \in Int
  BY DEF Entries
<1>5. \A H : AddUp(H) = [request_count |-> SumFunctionOnSet(n(H), H),
                         cost |-> SumFunctionOnSet(c(H), H)]
  BY DEF AddUp, SumFunction
<1>6. r = head \union {tail} /\ head \intersect {tail} = {}
  <2>1. tail.name = Other
    OBVIOUS
  <2> HIDE DEF tail
  <2>2. tail \notin head
    BY <2>1 DEF Entries
  <2> QED
    BY <1>1, <2>2 DEF tail
<1>7. /\ tail.totals.request_count = SumFunctionOnSet(n(rest), rest)
      /\ tail.totals.cost = SumFunctionOnSet(c(rest), rest)
  BY <1>5
<1>8. ASSUME NEW H \in SUBSET G
      PROVE  /\ SumFunctionOnSet(n(H), H) = SumFunctionOnSet(n(G), H)
             /\ SumFunctionOnSet(c(H), H) = SumFunctionOnSet(c(G), H)
             /\ SumFunctionOnSet(n(G), H) \in Int
             /\ SumFunctionOnSet(c(G), H) \in Int
  <2>1. IsFiniteSet(H)
    BY FS_Subset DEF Entries
  <2>2. \A g \in H : n(H)[g] = n(G)[g] /\ c(H)[g] = c(G)[g]
    OBVIOUS
  <2> HIDE DEF n, c
  <2> QED
    BY <1>4, <2>1, <2>2, SumSame, SumType
<1>9. /\ \A g \in head : n(r)[g] = n(G)[g] /\ c(r)[g] = c(G)[g]
      /\ n(r)[tail] = tail.totals.request_count /\ c(r)[tail] = tail.totals.cost
  <2>1. tail \in r /\ head \subseteq r
    BY <1>6
  <2> HIDE DEF tail
  <2> QED
    BY <2>1
<1> HIDE DEF rest, tail, n, c
<1>10. /\ SumFunctionOnSet(n(G), G)
            = SumFunctionOnSet(n(G), head) + SumFunctionOnSet(n(G), rest)
       /\ SumFunctionOnSet(c(G), G)
            = SumFunctionOnSet(c(G), head) + SumFunctionOnSet(c(G), rest)
  <2>1. PICK f : f = n(G)
    OBVIOUS
  <2>2. PICK h : h = c(G)
    OBVIOUS
  <2>3. \A g \in head \union rest : f[g] \in Int /\ h[g] \in Int
    BY <1>2, <1>4, <2>1, <2>2
  <2>4. /\ SumFunctionOnSet(f, head \union rest)
             = SumFunctionOnSet(f, head) + SumFunctionOnSet(f, rest)
        /\ SumFunctionOnSet(h, head \union rest)
             = SumFunctionOnSet(h, head) + SumFunctionOnSet(h, rest)
    BY <1>2, <1>3, <2>3, SumUnion
  <2> QED
    BY <1>2, <2>1, <2>2, <2>4
<1>11. /\ n(r)[tail] \in Int /\ c(r)[tail] \in Int
       /\ n(r)[tail] = SumFunctionOnSet(n(G), rest)
       /\ c(r)[tail] = SumFunctionOnSet(c(G), rest)
  BY <1>2, <1>7, <1>8, <1>9
<1>12. /\ SumFunctionOnSet(n(r), r)
            = n(r)[tail] + SumFunctionOnSet(n(G), head)
       /\ SumFunctionOnSet(c(r), r)
            = c(r)[tail] + SumFunctionOnSet(c(G), head)
  <2>1. PICK f : f = n(r)
    OBVIOUS
  <2>2. PICK h : h = c(r)
    OBVIOUS
  <2>3. IsFiniteSet(r) /\ tail \in r /\ r \ {tail} = head
    BY <1>3, <1>6, FS_AddElement
  <2>4. \A g \in r : f[g] \in Int /\ h[g] \in Int
    BY <1>4, <1>6, <1>9, <1>11, <2>1, <2>2
  <2>5. /\ SumFunctionOnSet(f, r) = f[tail] + SumFunctionOnSet(f, head)
        /\ SumFunctionOnSet(h, r) = h[tail] + SumFunctionOnSet(h, head)
    BY <2>3, <2>4, SumRemove
  <2>6. /\ SumFunctionOnSet(f, head) = SumFunctionOnSet(n(G), head)
        /\ SumFunctionOnSet(h, head) = SumFunctionOnSet(c(G), head)
    BY <1>3, <1>9, <2>1, <2>2, SumSame
  <2> QED
    BY <2>1, <2>2, <2>5, <2>6
<1>13. /\ SumFunctionOnSet(n(r), r) = SumFunctionOnSet(n(G), G)
       /\ SumFunctionOnSet(c(r), r) = SumFunctionOnSet(c(G), G)
  BY <1>2, <1>8, <1>10, <1>11, <1>12
<1> QED
  BY <1>5, <1>13

-----------------------------------------------------------------------------
(* Every row that passes is counted once in every part of an answer.       *)

(* The parts that account for rows.                                        *)
Parts == {"summary", "trend", "model", "group", "channel", "path"}

(* The statements of such requests return such parts.                      *)
LEMMA PartsOf ==
  ASSUME NEW kind \in {"summary", "trend", "breakdown", "charts"},
         NEW k \in 1 .. Len(Statements(kind))
  PROVE  Statements(kind)[k] \in Parts
<1>1. CASE kind \in {"summary", "trend"}
  <2>1. Statements(kind) = <<kind>>
    BY <1>1 DEF Statements
  <2> QED
    BY <1>1, <2>1 DEF Parts
<1>2. CASE kind = "breakdown"
  <2>1. Statements(kind) = <<"model", "group", "channel", "path">>
    BY <1>2 DEF Statements, Dimensions
  <2> QED
    BY <2>1 DEF Parts
<1>3. CASE kind = "charts"
  <2>1. Statements(kind) = <<"trend">> \o <<"model", "group", "channel", "path">>
    BY <1>3 DEF Statements, Dimensions
  <2> QED
    BY <2>1 DEF Parts
<1> QED
  BY <1>1, <1>2, <1>3

(* The summary's count and cost are the totals.                            *)
LEMMA SummaryAddsUp ==
  ASSUME NEW S
  PROVE  Total("summary", Summary(S)) = Totals(S)
<1>1. Summary(S).sums["actual_cost"] = SumOver(S, "actual_cost")
  BY DEF Summary, Columns
<1>2. Summary(S).request_count = Cardinality(S)
  BY DEF Summary
<1> QED
  BY <1>1, <1>2 DEF Total, Totals

(* Whatever a statement may return accounts for the rows that pass now.    *)
LEMMA AnswersAddUp ==
  ASSUME logs \in Seq(Shapes), options \in Options,
         NEW statement \in Parts, NEW r \in Answers(statement)
  PROVE  Total(statement, r) = Totals(Matching(Len(logs)))
<1>1. PICK S : S = Matching(Len(logs))
  OBVIOUS
<1>2. Rows(S)
  BY <1>1 DEF Matching, Rows
<1>3. CASE statement = "summary"
  <2>1. r = Summary(S)
    BY <1>1, <1>3 DEF Answers
  <2> QED
    BY <1>1, <1>3, <2>1, SummaryAddsUp
<1>4. CASE statement = "trend"
  <2>1. r = Trend(S)
    BY <1>1, <1>4 DEF Answers
  <2> QED
    BY <1>1, <1>2, <1>4, <2>1, TrendAddsUp
<1>5. CASE statement \in {"model", "group", "channel", "path"}
  <2>1. PICK G : G = Groups(S, statement)
    OBVIOUS
  <2>2. r \in TopN(G)
    BY <1>1, <1>5, <2>1 DEF Answers
  <2>3. Entries(G) /\ AddUp(G) = Totals(S)
    BY <1>2, <1>5, <2>1, GroupsAddUp
  <2>4. AddUp(r) = AddUp(G)
    BY <2>2, <2>3, TopAddsUp
  <2>5. Total(statement, r) = AddUp(r)
    BY <1>5 DEF Total
  <2> QED
    BY <1>1, <2>3, <2>4, <2>5
<1> QED
  BY <1>3, <1>4, <1>5 DEF Parts

(* That is what the reference says of the rows and options of now.         *)
LEMMA ReferenceNow ==
  ASSUME logs \in Seq(Shapes), options \in Options
  PROVE  Reference([rows |-> Len(logs), options |-> options]) = Totals(Matching(Len(logs)))
<1>1. PICK S : S = Matching(Len(logs))
  OBVIOUS
<1>2. S \in SUBSET (1 .. Len(logs))
  BY <1>1 DEF Matching
<1>3. PICK f : f = [i \in S |-> CostTotal(logs[i], Rate(options))]
  OBVIOUS
<1>4. PICK g : g = [i \in S |-> Column(logs[i], Rate(options), "actual_cost")]
  OBVIOUS
<1>5. \A i \in S : f[i] = g[i]
  BY <1>3, <1>4 DEF Column
<1>6. DOMAIN f = S /\ DOMAIN g = S
  BY <1>3, <1>4
<1>7. f = g
  BY <1>3, <1>4, <1>5
<1>8. SumOver(S, "actual_cost") = SumFunction(g)
  BY <1>4 DEF SumOver
<1>9. Reference([rows |-> Len(logs), options |-> options])
        = [request_count |-> Cardinality(S), cost |-> SumFunction(f)]
  BY <1>1, <1>3 DEF Reference
<1> QED
  BY <1>1, <1>7, <1>8, <1>9 DEF Totals

(* And it says the same when rows are added.                               *)
LEMMA ReferenceStands ==
  ASSUME Stand, NEW seen, seen.rows \in 0 .. Len(logs)
  PROVE  Reference(seen)' = Reference(seen)
<1>1. PICK S : S = Matching(seen.rows)
  OBVIOUS
<1>2. Matching(seen.rows)' = S
  BY <1>1, MatchingStands
<1>3. S \subseteq 1 .. seen.rows
  BY <1>1 DEF Matching
<1>4. \A i \in S : logs'[i] = logs[i]
  BY <1>3 DEF Stand
<1>5. [i \in S |-> CostTotal(logs'[i], Rate(seen.options))]
        = [i \in S |-> CostTotal(logs[i], Rate(seen.options))]
  BY <1>4
<1> QED
  BY <1>1, <1>2, <1>5 DEF Reference

(* The statements have seen rows that are there, and counted each.         *)
SeenPast == \A k \in 1 .. Len(seenBy) : seenBy[k].rows \in 0 .. Len(logs)
Counted  == SeenPast /\ EveryLogCounted

(* The reference of the next state, for what a statement has seen.         *)
LEMMA ReferenceNext ==
  ASSUME NEW k, NEW seen, seen = seenBy'[k]
  PROVE  Reference(seenBy[k])' = Reference(seen)'
BY DEF Reference, Matching

(* A result that stays goes on counting the rows that its statement saw.   *)
LEMMA CountStands ==
  ASSUME Stand, Counted, NEW k \in 1 .. Len(seenBy), Len(results) = Len(seenBy),
         request.kind \in {"summary", "trend", "breakdown", "charts"},
         request' = request, seenBy'[k] = seenBy[k], results'[k] = results[k]
  PROVE  Total(Statements(request.kind)[k], results[k])' = Reference(seenBy[k])'
<1>1. PICK seen : seen = seenBy[k]
  OBVIOUS
<1>2. seen.rows \in 0 .. Len(logs)
  BY <1>1 DEF Counted, SeenPast
<1>3. Total(Statements(request.kind)[k], results[k]) = Reference(seen)
  BY <1>1 DEF Counted, EveryLogCounted
<1>4. Reference(seen)' = Reference(seen)
  BY <1>2, ReferenceStands
<1>5. Reference(seenBy[k])' = Reference(seen)'
  BY <1>1, ReferenceNext
<1>6. Total(Statements(request.kind)[k], results[k])'
        = Total(Statements(request.kind)[k], results[k])
  BY DEF Total, AddUp, Statements
<1> QED
  BY <1>3, <1>4, <1>5, <1>6

(* Steps that leave the request and its results alone.                     *)
LEMMA CountsStay ==
  ASSUME IInv, Counted, Stand, UNCHANGED <<request, results, seenBy>>
  PROVE  Counted'
<1>1. Len(results) = Len(seenBy) /\ Len(logs) \in Nat
  BY DEF IInv, TypeOK
<1>2. SeenPast'
  BY <1>1 DEF Counted, SeenPast, Stand
<1>3. EveryLogCounted'
  <2> SUFFICES ASSUME request.kind \in {"summary", "trend", "breakdown", "charts"},
                      NEW k \in 1 .. Len(seenBy)
               PROVE  Total(Statements(request.kind)[k], results[k])' = Reference(seenBy[k])'
    BY <1>1 DEF EveryLogCounted
  <2> QED
    BY <1>1, CountStands
<1> QED
  BY <1>2, <1>3 DEF Counted

(* No result is left to count, or none is there yet.                       *)
LEMMA NothingToCount ==
  ASSUME Len(results') = 0, Len(seenBy') = 0
  PROVE  Counted'
BY DEF Counted, SeenPast, EveryLogCounted

(* A statement counts the rows of the moment.                              *)
LEMMA ExecuteCounts ==
  ASSUME IInv, Counted, Stand, Execute
  PROVE  Counted'
<1>1. PICK now : now = [rows |-> Len(logs), options |-> options]
  OBVIOUS
<1>2. PICK n : n = Len(seenBy)
  OBVIOUS
<1>3. PICK r \in Answers(Statements(request.kind)[n + 1]) : results' = Append(results, r)
  BY <1>2 DEF Execute, IInv, TypeOK
<1>4. seenBy' = Append(seenBy, now) /\ UNCHANGED <<logs, options, form, request>>
  BY <1>1 DEF Execute
<1>5. /\ Len(logs) \in 0 .. MaxLogs /\ options \in Options /\ logs \in Seq(Shapes)
      /\ now \in [rows : Counts, options : Options]
  BY <1>1, LengthsAssumption DEF IInv, TypeOK, Counts
<1>6. /\ Len(results) = n /\ n \in Nat /\ Len(results') = n + 1 /\ Len(seenBy') = n + 1
      /\ \A k \in 1 .. n : results'[k] = results[k] /\ seenBy'[k] = seenBy[k]
      /\ results'[n + 1] = r /\ seenBy'[n + 1] = now
  <2>1. seenBy \in Seq([rows : Counts, options : Options])
    BY DEF IInv, TypeOK
  <2>2. results = [k \in 1 .. Len(seenBy) |-> results[k]]
    BY DEF IInv, ResultsAligned
  <2> QED
    BY <1>2, <1>3, <1>4, <1>5, <2>1, <2>2, AppendResult
<1>7. SeenPast'
  <2>1. now.rows = Len(logs)
    BY <1>1
  <2>2. \A k \in 1 .. n : seenBy'[k].rows \in 0 .. Len(logs)
    BY <1>2, <1>6 DEF Counted, SeenPast
  <2>3. seenBy'[n + 1].rows \in 0 .. Len(logs)
    BY <1>5, <1>6, <2>1
  <2> QED
    BY <1>4, <1>6, <2>2, <2>3 DEF SeenPast
<1>8. EveryLogCounted'
  <2> SUFFICES ASSUME request.kind \in {"summary", "trend", "breakdown", "charts"},
                      NEW k \in 1 .. n + 1
               PROVE  Total(Statements(request.kind)[k], results[k])' = Reference(seenBy[k])'
    BY <1>4, <1>6 DEF EveryLogCounted
  <2>1. CASE k \in 1 .. n
    BY <1>2, <1>4, <1>6, <2>1, CountStands
  <2>2. CASE k = n + 1
    <3>1. k \in 1 .. Len(Statements(request.kind))
      <4>1. Len(Statements(request.kind)) \in Nat
        BY StatementsType DEF Kinds
      <4> QED
        BY <1>6, <2>2, <4>1 DEF Execute, Running
    <3>2. PICK statement : statement = Statements(request.kind)[k]
      OBVIOUS
    <3>3. statement \in Parts
      BY <3>1, <3>2, PartsOf
    <3>4. Total(statement, r) = Totals(Matching(Len(logs)))
      BY <1>3, <1>5, <2>2, <3>2, <3>3, AnswersAddUp
    <3>5. Reference(now) = Totals(Matching(Len(logs)))
      BY <1>1, <1>5, ReferenceNow
    <3>6. Reference(now)' = Reference(now)
      <4>1. now.rows \in 0 .. Len(logs)
        BY <1>1, <1>5
      <4> QED
        BY <4>1, ReferenceStands
    <3>7. Reference(seenBy[k])' = Reference(now)'
      BY <1>6, <2>2, ReferenceNext
    <3>8. Total(Statements(request.kind)[k], results[k])' = Total(statement, r)
      BY <1>4, <1>6, <2>2, <3>2 DEF Total, AddUp, Statements
    <3> QED
      BY <3>4, <3>5, <3>6, <3>7, <3>8
  <2> QED
    BY <1>6, <2>1, <2>2
<1> QED
  BY <1>7, <1>8 DEF Counted

(* Every step keeps the count.                                             *)
LEMMA StepCounts ==
  ASSUME IInv, Counted, [Next]_vars
  PROVE  Counted'
<1>1. Stand
  BY StepStands DEF IInv
<1>2. CASE UNCHANGED <<request, results, seenBy>>
  BY <1>1, <1>2, CountsStay
<1>3. CASE Execute
  BY <1>1, <1>3, ExecuteCounts
<1>4. CASE Answer \/ Fail
  BY <1>4, EndTrue, NothingToCount DEF Answer, Fail
<1>5. ASSUME NEW kind, NEW page, Begin(kind, page)
      PROVE  Counted'
  <2>1. Len(results) = 0 /\ Len(seenBy) = 0
    BY <1>5, Idle DEF IInv, Begin
  <2>2. Len(results') = 0 /\ Len(seenBy') = 0
    BY <1>5, <2>1 DEF Begin
  <2> QED
    BY <2>2, NothingToCount
<1> QED
  BY <1>2, <1>3, <1>4, <1>5 DEF Next, vars, AddLog, ChangeOptions, Ask, AskPage, ShowKept, Expire

(* Every part of an answer accounts for each row that passed the filter    *)
(* when its statement was run, once: no row falls between two buckets of   *)
(* the trend, out of the groups of a dimension, or out of the tail of a    *)
(* top list (_top_n_with_other).                                           *)
THEOREM AllCounted == Spec => []EveryLogCounted
<1>1. Init => Counted
  BY DEF Init, Counted, SeenPast, EveryLogCounted
<1>2. IInv /\ Counted /\ [Next]_vars => Counted'
  BY StepCounts
<1>3. Counted => EveryLogCounted
  BY DEF Counted
<1> QED
  BY <1>1, <1>2, <1>3, Invariance, PTL DEF Spec

-----------------------------------------------------------------------------
(* What a row costs.                                                       *)

(* No token is counted twice, nor lost: the columns of a row add up to its *)
(* prompt or, where more was read and written than that, to those, and its *)
(* completion (pure_prompt_tokens and total_tokens of the cost detail).    *)
THEOREM TokensAddUp ==
  ASSUME NEW row, row.prompt \in Nat, row.completion \in Nat,
         CacheRead(row) \in Nat, CacheWrite(row) \in Nat
  PROVE  LET cached == CacheRead(row) + CacheWrite(row)
         IN  TokensConsumed(row) =
               row.completion + IF row.prompt > cached THEN row.prompt ELSE cached
BY DEF TokensConsumed, PurePrompt, AtLeast0

(* What the cache saves is what its tokens would have cost as input, less  *)
(* what they cost, unless reading them costs more than that, when nothing  *)
(* is saved (cost_cache_read and cost_cache_saving).                       *)
THEOREM SavingIsDifference ==
  ASSUME NEW row, NEW rate \in Nat, CacheRead(row) \in Nat, GroupRatio(row) \in Nat,
         Number(row.model_ratio) \in Nat, Number(row.cache_ratio) \in Nat
  PROVE  CostCacheSaving(row, rate) =
           AtLeast0(CacheRead(row) * TokenPrice(row, rate, One) - CostCacheRead(row, rate))
<1> DEFINE c == Number(row.cache_ratio)
           k == CacheRead(row)
           P(ratio) == TokenPrice(row, rate, ratio)
<1>1. One \in Nat /\ k \in Nat /\ c \in Nat
  BY OneAssumption
<1>2. P(One - c) = P(One) - P(c) /\ P(One) \in Int /\ P(c) \in Int
  <2>1. CASE FixedPrice(row)
    BY <2>1 DEF TokenPrice
  <2>2. CASE ~FixedPrice(row)
    <3>1. ASSUME NEW m \in Int, NEW g \in Int, NEW x \in Int, NEW y \in Int, NEW z \in Int
          PROVE  /\ m * (x - y) * g * z = m * x * g * z - m * y * g * z
                 /\ m * x * g * z \in Int
      BY <3>1
    <3>2. \A ratio : P(ratio) = Number(row.model_ratio) * ratio * GroupRatio(row) * rate
      BY <2>2 DEF TokenPrice
    <3>3. Number(row.model_ratio) \in Int /\ GroupRatio(row) \in Int /\ rate \in Int
      OBVIOUS
    <3> HIDE DEF P, c
    <3> QED
      BY <1>1, <3>1, <3>2, <3>3
  <2> QED
    BY <2>1, <2>2
<1>3. k * P(One - c) = k * P(One) - k * P(c)
  <2>1. ASSUME NEW x \in Int, NEW y \in Int, NEW z \in Int
        PROVE  x * (y - z) = x * y - x * z
    BY <2>1
  <2> HIDE DEF P, c, k
  <2> QED
    BY <1>1, <1>2, <2>1
<1> QED
  BY <1>3 DEF CostCacheSaving, CostCacheRead
=============================================================================
