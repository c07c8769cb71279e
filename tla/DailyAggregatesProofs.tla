------------------------ MODULE DailyAggregatesProofs ------------------------
(***************************************************************************)
(* The safety of the daily aggregates, for any number of refreshers,       *)
(* tokens, days and logs.                                                  *)
(***************************************************************************)
EXTENDS DailyAggregates, FiniteSetTheorems, WellFoundedInduction, TLAPS

-----------------------------------------------------------------------------
(* Days and slots.                                                         *)

(* A day's number times its length is the first slot of the day.           *)
LEMMA DayBounds ==
  ASSUME NEW s \in Int
  PROVE  /\ DayOf(s) \in Int
         /\ DayOf(s) * PerDay =< s
         /\ s =< DayOf(s) * PerDay + PerDay - 1
BY SizesAssumption DEF DayOf

(* Days are in the order of their slots.                                   *)
LEMMA DayIsMonotone ==
  ASSUME NEW a \in Int, NEW b \in Int, a =< b
  PROVE  DayOf(a) =< DayOf(b)
<1>1. SUFFICES ASSUME DayOf(b) + 1 =< DayOf(a)
               PROVE  FALSE
  BY DayBounds
<1>2. (DayOf(b) + 1) * PerDay =< DayOf(a) * PerDay
  BY <1>1, DayBounds, SizesAssumption
<1> QED
  BY <1>2, DayBounds, SizesAssumption

(* The day of a day's first slot, and of its last.                         *)
LEMMA DayOfEdges ==
  ASSUME NEW d \in Int
  PROVE  DayOf(d * PerDay) = d /\ DayOf(d * PerDay + PerDay - 1) = d
BY SizesAssumption DEF DayOf
(* A range that covers a day whole holds the day and all its slots; a slot *)
(* in a range is in a day that the delete of that range empties.           *)
SomeRange == [from : {Unset} \union Int, to : {Unset} \union Int]

(* A day covered whole is one the DELETE covers, and all its logs are      *)
(* read.                                                                   *)
LEMMA WholeDays ==
  ASSUME NEW r \in SomeRange, NEW d \in Int, Whole(d, r)
  PROVE  /\ InDays(d, r)
         /\ \A s \in Int : DayOf(s) = d => InRange(s, r)
<1>1. ASSUME r.from # Unset
      PROVE  DayOf(r.from) =< d /\ \A s \in Int : DayOf(s) = d => s >= r.from
  <2>1. r.from \in Int /\ r.from =< d * PerDay
    BY <1>1 DEF SomeRange, Whole
  <2>2. d * PerDay \in Int /\ DayOf(d * PerDay) = d
    BY DayOfEdges, SizesAssumption
  <2>3. DayOf(r.from) =< d
    BY <2>1, <2>2, DayIsMonotone
  <2>4. \A s \in Int : d * PerDay =< s => r.from =< s
    BY <2>1, <2>2
  <2>. QED
    BY <2>3, <2>4, DayBounds
<1>2. ASSUME r.to # Unset
      PROVE  d =< DayOf(r.to) /\ \A s \in Int : DayOf(s) = d => s =< r.to
  <2>1. r.to \in Int /\ d * PerDay + PerDay - 1 =< r.to
    BY <1>2, SizesAssumption DEF SomeRange, Whole
  <2>2. /\ d * PerDay + PerDay - 1 \in Int
        /\ DayOf(d * PerDay + PerDay - 1) = d
    BY DayOfEdges, SizesAssumption
  <2>3. d =< DayOf(r.to)
    BY <2>1, <2>2, DayIsMonotone
  <2>4. \A s \in Int : s =< d * PerDay + PerDay - 1 => s =< r.to
    BY <2>1, <2>2
  <2>. QED
    BY <2>3, <2>4, DayBounds
<1>3. \A s \in Int : DayOf(s) = d => InRange(s, r)
  BY <1>1, <1>2 DEF InRange
<1>4. InDays(d, r)
  <2>1. DayOf(r.from) \in Int \/ r.from = Unset
    BY DayBounds DEF SomeRange
  <2>. QED
    BY <1>1, <1>2, <2>1 DEF InDays
<1>. QED
  BY <1>3, <1>4

(* The day of a log the refresh reads is one the DELETE covers.            *)
LEMMA InRangeInDays ==
  ASSUME NEW r \in SomeRange, NEW s \in Int, InRange(s, r)
  PROVE  InDays(DayOf(s), r)
<1>1. ASSUME r.from # Unset
      PROVE  DayOf(s) >= DayOf(r.from)
  <2>1. r.from \in Int /\ r.from =< s
    BY <1>1 DEF SomeRange, InRange
  <2>. QED
    BY <2>1, DayIsMonotone, DayBounds
<1>2. ASSUME r.to # Unset
      PROVE  DayOf(s) =< DayOf(r.to)
  <2>1. r.to \in Int /\ s =< r.to
    BY <1>2 DEF SomeRange, InRange
  <2>. QED
    BY <2>1, DayIsMonotone
<1>. QED
  BY <1>1, <1>2 DEF InDays

(* The range a refresh starts with is one its record may hold.             *)
LEMMA RangesAreRanges ==
  ASSUME NEW p \in Refreshers
  PROVE  Ranges(p) \subseteq SomeRange /\ NoRange \in Ranges(p)
<1>1. HostShift[p] \in Int /\ Days \subseteq Int
  BY SizesAssumption DEF Days
<1>2. \A d \in Days : /\ d * PerDay + HostShift[p] \in Int
                      /\ d * PerDay + HostShift[p] + PerDay - 1 \in Int
  BY <1>1, SizesAssumption
<1>3. Ranges(p) \subseteq SomeRange
  BY <1>2 DEF Ranges, SomeRange
<1>. QED
  BY <1>3 DEF Ranges, NoRange

-----------------------------------------------------------------------------
(* The rows that a refresh inserts.                                        *)

(* The logs of a bucket that are charged at their group's ratio.           *)
Charged(d, k) == {l \in LogsOf(d, k) : ~l.blank}

(* The logs of a bucket are finitely many, no more than all the logs.      *)
LEMMA LogsOfFinite ==
  ASSUME IsFiniteSet(logs), NEW d, NEW k
  PROVE  /\ IsFiniteSet(LogsOf(d, k))
         /\ Cardinality(LogsOf(d, k)) \in Nat
         /\ Cardinality(LogsOf(d, k)) =< Cardinality(logs)
         /\ Cardinality(logs) \in Nat
<1>1. LogsOf(d, k) \in SUBSET logs
  BY DEF LogsOf
<1>2. IsFiniteSet(LogsOf(d, k)) /\ Cardinality(LogsOf(d, k)) =< Cardinality(logs)
  BY <1>1, FS_Subset
<1>. QED
  BY <1>2, FS_CardinalityType

(* They never exceed the logs, are all of them for a day covered whole,    *)
(* and are in days that the refresh has emptied; where there is no row     *)
(* there is no cost.                                                       *)
LEMMA RowsFacts ==
  ASSUME IsFiniteSet(logs), logs \subseteq Logs, rate \in Nat,
         NEW r \in SomeRange, NEW d \in Days, NEW k \in Tokens
  PROVE  /\ Rows(r)[d][k] \in Nat /\ Priced(r)[d][k] \in Nat
         /\ Rows(r)[d][k] =< Cardinality(LogsOf(d, k))
         /\ Whole(d, r) => /\ Rows(r)[d][k] = Cardinality(LogsOf(d, k))
                           /\ Priced(r)[d][k] = rate * Cardinality(Charged(d, k))
         /\ ~InDays(d, r) => Rows(r)[d][k] = 0
         /\ Rows(r)[d][k] = 0 => Priced(r)[d][k] = 0
<1>. DEFINE R == Grouped(r, d, k)
            C == {l \in R : ~l.blank}
<1>1. Rows(r)[d][k] = Cardinality(R) /\ Priced(r)[d][k] = rate * Cardinality(C)
  BY DEF Rows, Priced
<1>2. R \in SUBSET LogsOf(d, k) /\ C \in SUBSET R
  BY DEF LogsOf, Grouped
<1>3. IsFiniteSet(R) /\ Cardinality(R) =< Cardinality(LogsOf(d, k))
  BY <1>2, LogsOfFinite, FS_Subset
<1>4. IsFiniteSet(C) /\ Cardinality(C) =< Cardinality(R)
  BY <1>2, <1>3, FS_Subset
<1>5. Cardinality(R) \in Nat /\ Cardinality(C) \in Nat
  BY <1>3, <1>4, FS_CardinalityType
<1>6. d \in Int /\ \A l \in logs : l.slot \in Int
  BY SizesAssumption DEF Days, Logs, Slots
<1>7. ASSUME Whole(d, r)
      PROVE  R = LogsOf(d, k) /\ C = Charged(d, k)
  BY <1>6, <1>7, WholeDays DEF LogsOf, Grouped, Charged
<1>8. ASSUME ~InDays(d, r)
      PROVE  Cardinality(R) = 0
  <2>1. R = {}
    BY <1>6, <1>8, InRangeInDays DEF Grouped
  <2>. QED
    BY <2>1, FS_EmptySet
<1>. HIDE DEF R, C
<1>9. rate * Cardinality(C) \in Nat
  BY <1>5
<1>10. ASSUME Cardinality(R) = 0
       PROVE  rate * Cardinality(C) = 0
  <2>1. Cardinality(C) = 0
    BY <1>4, <1>5, <1>10
  <2>. QED
    BY <2>1
<1>. QED
  BY <1>1, <1>3, <1>5, <1>7, <1>8, <1>9, <1>10

(* One log more never lowers a count, and leaves those of other days.      *)
LEMMA AddLogFacts ==
  ASSUME IsFiniteSet(logs), logs \subseteq Logs,
         NEW id \in Ids, NEW slot \in Slots, NEW token \in Tokens, NEW ip \in Ips,
         NEW blank \in BOOLEAN, AddLog(id, slot, token, ip, blank)
  PROVE  /\ IsFiniteSet(logs') /\ logs' \subseteq Logs
         /\ \A d, k : /\ Cardinality(LogsOf(d, k)) \in Nat
                      /\ Cardinality(LogsOf(d, k))' \in Nat
                      /\ Cardinality(LogsOf(d, k)) =< Cardinality(LogsOf(d, k))'
                      /\ d # DayOf(slot) => LogsOf(d, k)' = LogsOf(d, k)
<1>. DEFINE l == [id |-> id, slot |-> slot, token |-> token, ip |-> ip, blank |-> blank]
<1>1. l \in Logs /\ l.slot = slot
  BY DEF Logs
<1>2. logs' = logs \union {l}
  BY DEF AddLog
<1>. HIDE DEF l
<1>3. IsFiniteSet(logs')
  BY <1>2, FS_AddElement
<1>4. ASSUME NEW d, NEW k, d # DayOf(slot)
      PROVE  LogsOf(d, k)' = LogsOf(d, k)
  <2>1. LogsOf(d, k)' = {e \in logs' : DayOf(e.slot) = d /\ e.token = k}
    BY DEF LogsOf
  <2>2. {e \in logs' : DayOf(e.slot) = d /\ e.token = k}
          = {e \in logs : DayOf(e.slot) = d /\ e.token = k}
    BY <1>1, <1>2, <1>4
  <2>. QED
    BY <2>1, <2>2 DEF LogsOf
<1>5. ASSUME NEW d, NEW k
      PROVE  /\ Cardinality(LogsOf(d, k)) \in Nat
             /\ Cardinality(LogsOf(d, k))' \in Nat
             /\ Cardinality(LogsOf(d, k)) =< Cardinality(LogsOf(d, k))'
  <2>. DEFINE new == {e \in logs' : DayOf(e.slot) = d /\ e.token = k}
  <2>1. LogsOf(d, k)' = new
    BY DEF LogsOf
  <2>2. LogsOf(d, k) \in SUBSET new
    BY <1>2 DEF LogsOf
  <2>3. IsFiniteSet(new)
    BY <1>3, FS_Subset
  <2>. HIDE DEF new
  <2>4. /\ Cardinality(LogsOf(d, k)) =< Cardinality(new)
        /\ Cardinality(new) \in Nat
    BY <2>2, <2>3, FS_Subset, FS_CardinalityType
  <2>. QED
    BY <2>1, <2>4, LogsOfFinite
<1>. QED
  BY <1>1, <1>2, <1>3, <1>4, <1>5

(* There are no more logs than request ids to tell them apart.             *)
IdsDiffer == \A l1, l2 \in logs : l1.id = l2.id => l1 = l2

LEMMA NoMoreLogsThanIds ==
  ASSUME IsFiniteSet(logs), logs \subseteq Logs, IdsDiffer
  PROVE  Cardinality(logs) =< Cardinality(Ids)
<1>. DEFINE f == [l \in logs |-> l.id]
<1>1. f \in Injection(logs, Ids)
  BY DEF Injection, IsInjective, IdsDiffer, Logs
<1>. HIDE DEF f
<1>. QED
  BY <1>1, IdsAssumption, FS_Injection

-----------------------------------------------------------------------------
(* The inductive invariant.  Two refreshes that run together both know it  *)
(* (Alone), so that one that has run by itself since it began finds its    *)
(* days empty when it inserts (Clean), of costs too (NoRowNoCost); and no  *)
(* day that a running refresh is about to fill is held to be exact         *)
(* (Pending).                                                              *)

Types ==
  /\ IsFiniteSet(logs) /\ logs \subseteq Logs
  /\ rate \in Rates
  /\ table \in BOOLEAN
  /\ agg \in [Days -> [Tokens -> Nat]] /\ costs \in [Days -> [Tokens -> Nat]]
  /\ pc \in [Refreshers -> {"idle", "delete", "insert"}]
  /\ DOMAIN range = Refreshers /\ \A p \in Refreshers : range[p] \in Ranges(p)
  /\ overlapped \in [Refreshers -> BOOLEAN]
  /\ pricedAt \in [Days -> Rates \union {Unset}]

NoRowNoCost == \A d \in Days, k \in Tokens : agg[d][k] = 0 => costs[d][k] = 0

Alone ==
  \A p, q \in Refreshers : p # q /\ pc[p] # "idle" /\ pc[q] # "idle" => overlapped[p]

Clean ==
  \A p \in Refreshers : pc[p] = "insert" /\ ~overlapped[p] =>
    \A d \in Days, k \in Tokens : InDays(d, range[p]) => agg[d][k] = 0

Pending ==
  \A p \in Refreshers : pc[p] = "insert" => \A d \in exact : ~InDays(d, range[p])

IInv == /\ Types /\ IdsDiffer /\ NoDoubleCount /\ NoRowNoCost
        /\ Alone /\ Clean /\ Pending /\ RefreshedExact

(* The inductive invariant holds before the first refresh.                 *)
LEMMA Initially == Init => IInv
<1>. SUFFICES ASSUME Init PROVE IInv
  OBVIOUS
<1>. USE DEF Init
<1>1. Types
  <2>1. IsFiniteSet(logs) /\ logs \subseteq Logs
    BY FS_EmptySet
  <2>2. agg \in [Days -> [Tokens -> Nat]] /\ costs \in [Days -> [Tokens -> Nat]]
    BY DEF NoRows
  <2>3. DOMAIN range = Refreshers /\ \A p \in Refreshers : range[p] \in Ranges(p)
    BY RangesAreRanges
  <2>. QED
    BY <2>1, <2>2, <2>3 DEF Types
<1>2. NoDoubleCount /\ IdsDiffer /\ NoRowNoCost
  BY FS_EmptySet, LogsOfFinite DEF NoDoubleCount, NoRows, IdsDiffer, NoRowNoCost
<1>3. Alone /\ Clean /\ Pending /\ RefreshedExact
  BY DEF Alone, Clean, Pending, RefreshedExact, exact
<1>. QED
  BY <1>1, <1>2, <1>3 DEF IInv

(* A request logged by new-api keeps the invariant.                        *)
LEMMA AddLogPreserves ==
  ASSUME IInv, NEW id \in Ids, NEW slot \in Slots, NEW token \in Tokens, NEW ip \in Ips,
         NEW blank \in BOOLEAN, AddLog(id, slot, token, ip, blank)
  PROVE  IInv'
<1>. USE DEF IInv
<1>1. /\ IsFiniteSet(logs') /\ logs' \subseteq Logs
      /\ \A d, k : /\ Cardinality(LogsOf(d, k)) \in Nat
                   /\ Cardinality(LogsOf(d, k))' \in Nat
                   /\ Cardinality(LogsOf(d, k)) =< Cardinality(LogsOf(d, k))'
                   /\ d # DayOf(slot) => LogsOf(d, k)' = LogsOf(d, k)
  BY AddLogFacts DEF Types
<1>2. UNCHANGED <<rate, table, agg, costs, pc, range, overlapped>>
  BY DEF AddLog
<1>3. \A d \in Days : pricedAt'[d] = IF d = DayOf(slot) THEN Unset ELSE pricedAt[d]
  BY DEF AddLog, Types
<1>4. \A d \in exact' : d \in exact /\ d # DayOf(slot) /\ pricedAt'[d] = pricedAt[d]
  BY <1>3 DEF exact
<1>5. Types' /\ NoRowNoCost'
  <2>1. pricedAt' \in [Days -> Rates \union {Unset}]
    BY DEF AddLog, Types
  <2>. QED
    BY <1>1, <1>2, <2>1 DEF Types, Ranges, NoRowNoCost
<1>6. IdsDiffer'
  BY DEF AddLog, IdsDiffer
<1>7. NoDoubleCount'
  <2>. SUFFICES ASSUME NEW d \in Days, NEW k \in Tokens
                PROVE  agg[d][k] =< Cardinality(LogsOf(d, k))'
    BY <1>2 DEF NoDoubleCount
  <2>. QED
    BY <1>1 DEF NoDoubleCount, Types
<1>8. Alone' /\ Clean' /\ Pending'
  BY <1>2, <1>4 DEF Alone, Clean, Pending, InDays
<1>9. RefreshedExact'
  <2>. SUFFICES ASSUME NEW d \in exact', NEW k \in Tokens
                PROVE  /\ agg'[d][k] = Cardinality(LogsOf(d, k)')
                       /\ costs'[d][k]
                            = pricedAt'[d] * Cardinality({l \in LogsOf(d, k)' : ~l.blank})
    BY DEF RefreshedExact
  <2>1. LogsOf(d, k)' = LogsOf(d, k)
    BY <1>1, <1>4
  <2>. QED
    BY <1>2, <1>4, <2>1 DEF RefreshedExact
<1>. QED
  BY <1>5, <1>6, <1>7, <1>8, <1>9

(* Neither the logs nor what they were compared with have changed.         *)
LEMMA SameCounts ==
  ASSUME UNCHANGED <<logs, agg, costs, pricedAt>>
  PROVE  /\ exact' = exact
         /\ NoDoubleCount' <=> NoDoubleCount
         /\ RefreshedExact' <=> RefreshedExact
         /\ NoRowNoCost' <=> NoRowNoCost
         /\ IdsDiffer' <=> IdsDiffer
<1>1. exact' = exact
  BY DEF exact
<1>2. \A d, k : LogsOf(d, k)' = LogsOf(d, k)
  BY DEF LogsOf
<1>3. NoDoubleCount' <=> NoDoubleCount
  BY <1>2 DEF NoDoubleCount
<1>4. RefreshedExact' <=> RefreshedExact
  BY <1>1, <1>2 DEF RefreshedExact
<1>. QED
  BY <1>1, <1>3, <1>4 DEF NoRowNoCost, IdsDiffer

(* A change of the options keeps the invariant: what the table has been    *)
(* priced with is what pricedAt says.                                      *)
LEMMA ChangeOptionsPreserves ==
  ASSUME IInv, ChangeOptions
  PROVE  IInv'
<1>1. UNCHANGED <<logs, table, agg, costs, pc, range, overlapped, pricedAt>> /\ rate' \in Rates
  BY DEF ChangeOptions
<1>2. Types' /\ Alone' /\ Clean' /\ Pending'
  BY <1>1, SameCounts DEF IInv, Types, Alone, Clean, Pending, InDays, Ranges
<1>. QED
  BY <1>1, <1>2, SameCounts DEF IInv

(* The start of a refresh keeps the invariant.                             *)
LEMMA BeginPreserves ==
  ASSUME IInv, NEW p \in Refreshers, NEW r \in Ranges(p), Begin(p, r)
  PROVE  IInv'
<1>. USE DEF IInv
<1>1. UNCHANGED <<logs, rate, agg, costs, pricedAt>>
  BY DEF Begin
<1>2. \A q \in Refreshers :
        /\ pc'[q] = IF q = p THEN "delete" ELSE pc[q]
        /\ range'[q] = IF q = p THEN r ELSE range[q]
        /\ overlapped'[q] =
             IF q = p THEN Running # {} ELSE overlapped[q] \/ q \in Running
  BY DEF Begin, Types
<1>3. Types'
  <2>1. DOMAIN range' = Refreshers /\ \A q \in Refreshers : range'[q] \in Ranges(q)
    BY <1>2 DEF Begin, Types
  <2>2. overlapped' \in [Refreshers -> BOOLEAN]
    BY Zenon DEF Begin, Types
  <2>3. pc' \in [Refreshers -> {"idle", "delete", "insert"}] /\ table' \in BOOLEAN
    BY DEF Begin, Types
  <2>. QED
    BY <1>1, <2>1, <2>2, <2>3 DEF Types, Ranges
<1>4. NoDoubleCount' /\ RefreshedExact' /\ NoRowNoCost' /\ IdsDiffer'
  BY <1>1, SameCounts
<1>5. Alone'
  BY <1>2 DEF Alone, Running, Begin
<1>6. Clean' /\ Pending'
  <2>1. UNCHANGED <<agg, exact>>
    BY <1>1, SameCounts
  <2>2. \A q \in Refreshers : pc'[q] = "insert" =>
          /\ pc[q] = "insert" /\ range'[q] = range[q]
          /\ ~overlapped'[q] => ~overlapped[q]
    BY <1>2
  <2>. QED
    BY <2>1, <2>2 DEF Clean, Pending, InDays
<1>. QED
  BY <1>3, <1>4, <1>5, <1>6

(* Deleting the days of a range keeps the invariant: the counts only go    *)
(* down.                                                                   *)
LEMMA DeletePreserves ==
  ASSUME IInv, NEW p \in Refreshers, Delete(p)
  PROVE  IInv'
<1>. USE DEF IInv
<1>1. UNCHANGED <<logs, rate, table, range, overlapped>>
  BY DEF Delete
<1>2. \A d \in Days, k \in Tokens :
        /\ agg'[d][k] = IF InDays(d, range[p]) THEN 0 ELSE agg[d][k]
        /\ costs'[d][k] = IF InDays(d, range[p]) THEN 0 ELSE costs[d][k]
  BY DEF Delete, Deleted
<1>3. \A q \in Refreshers : pc'[q] = IF q = p THEN "insert" ELSE pc[q]
  BY DEF Delete, Types
<1>4. \A d \in exact' : d \in exact /\ ~InDays(d, range[p]) /\ pricedAt'[d] = pricedAt[d]
  BY DEF Delete, exact
<1>5. Types'
  <2>1. agg' \in [Days -> [Tokens -> Nat]] /\ costs' \in [Days -> [Tokens -> Nat]]
    BY DEF Delete, Deleted, Types
  <2>2. /\ pc' \in [Refreshers -> {"idle", "delete", "insert"}]
        /\ pricedAt' \in [Days -> Rates \union {Unset}]
    BY DEF Delete, Types
  <2>. QED
    BY <1>1, <2>1, <2>2 DEF Types, Ranges
<1>6. NoDoubleCount'
  <2>. SUFFICES ASSUME NEW d \in Days, NEW k \in Tokens
                PROVE  agg'[d][k] =< Cardinality(LogsOf(d, k))
    BY <1>1 DEF NoDoubleCount, LogsOf
  <2>. QED
    BY <1>2, LogsOfFinite DEF NoDoubleCount, Types
<1>7. Alone' /\ IdsDiffer' /\ NoRowNoCost'
  BY <1>1, <1>2, <1>3 DEF Alone, Delete, IdsDiffer, NoRowNoCost
<1>8. Clean' /\ Pending'
  BY <1>1, <1>2, <1>3, <1>4 DEF Clean, Pending, InDays
<1>9. RefreshedExact'
  <2>. SUFFICES ASSUME NEW d \in exact', NEW k \in Tokens
                PROVE  /\ agg'[d][k] = Cardinality(LogsOf(d, k))
                       /\ costs'[d][k]
                            = pricedAt'[d] * Cardinality({l \in LogsOf(d, k) : ~l.blank})
    BY <1>1 DEF RefreshedExact, LogsOf
  <2>1. d \in Days
    BY <1>4 DEF exact
  <2>. QED
    BY <1>2, <1>4, <2>1 DEF RefreshedExact
<1>. QED
  BY <1>5, <1>6, <1>7, <1>8, <1>9

(* Inserting the rows of a range keeps the invariant: what is added was    *)
(* deleted first, or does not collide with what is there.                  *)
LEMMA InsertPreserves ==
  ASSUME IInv, NEW p \in Refreshers, Insert(p)
  PROVE  IInv'
<1>. USE DEF IInv
<1>. DEFINE rows == Rows(range[p])
            priced == Priced(range[p])
            covered == {d \in Days : Whole(d, range[p]) /\ ~overlapped[p]}
<1>1. /\ UNCHANGED <<logs, rate, table>>
      /\ pc[p] = "insert" /\ range[p] \in SomeRange
      /\ rate \in Rates /\ rate \in Nat
  BY RangesAreRanges, RatesAssumption DEF Insert, Types
<1>2. \A d \in Days, k \in Tokens :
        /\ agg'[d][k] = agg[d][k] + rows[d][k]
        /\ costs'[d][k] = costs[d][k] + priced[d][k]
        /\ rows[d][k] = 0 \/ agg[d][k] = 0
        /\ rows[d][k] \in Nat /\ agg[d][k] \in Nat
        /\ priced[d][k] \in Nat /\ costs[d][k] \in Nat
        /\ rows[d][k] =< Cardinality(LogsOf(d, k))
        /\ Whole(d, range[p]) => /\ rows[d][k] = Cardinality(LogsOf(d, k))
                                 /\ priced[d][k] = rate * Cardinality(Charged(d, k))
        /\ ~InDays(d, range[p]) => rows[d][k] = 0
        /\ rows[d][k] = 0 => priced[d][k] = 0
  <2>. TAKE d \in Days, k \in Tokens
  <2>1. /\ agg'[d][k] = agg[d][k] + rows[d][k]
        /\ costs'[d][k] = costs[d][k] + priced[d][k]
    BY DEF Insert, Added
  <2>2. agg[d][k] \in Nat /\ costs[d][k] \in Nat
    BY DEF Types
  <2>3. /\ rows[d][k] \in Nat /\ priced[d][k] \in Nat
        /\ rows[d][k] =< Cardinality(LogsOf(d, k))
        /\ Whole(d, range[p]) => /\ rows[d][k] = Cardinality(LogsOf(d, k))
                                 /\ priced[d][k] = rate * Cardinality(Charged(d, k))
        /\ ~InDays(d, range[p]) => rows[d][k] = 0
        /\ rows[d][k] = 0 => priced[d][k] = 0
    BY <1>1, RowsFacts DEF Types
  <2>. HIDE DEF rows, priced
  <2>4. ~(rows[d][k] > 0 /\ agg[d][k] > 0)
    BY DEF Insert, Collides, rows
  <2>. QED
    BY <2>1, <2>2, <2>3, <2>4
<1>3. \A q \in Refreshers : /\ pc'[q] = IF q = p THEN "idle" ELSE pc[q]
                            /\ q # p => range'[q] = range[q] /\ overlapped'[q] = overlapped[q]
  BY DEF Insert, Finish, Types
<1>4. \A d \in Days : pricedAt'[d] = IF d \in covered THEN rate ELSE pricedAt[d]
  BY DEF Insert
<1>5. \A d \in exact' : d \in covered \/ (d \in exact /\ d \notin covered)
  BY <1>4 DEF exact
<1>6. Types'
  <2>1. agg' \in [Days -> [Tokens -> Nat]] /\ costs' \in [Days -> [Tokens -> Nat]]
    <3>1. /\ agg' = [d \in Days |-> [k \in Tokens |-> agg[d][k] + rows[d][k]]]
          /\ costs' = [d \in Days |-> [k \in Tokens |-> costs[d][k] + priced[d][k]]]
      BY DEF Insert, Added
    <3>. HIDE DEF rows, priced
    <3>2. \A d \in Days, k \in Tokens : /\ agg[d][k] + rows[d][k] \in Nat
                                        /\ costs[d][k] + priced[d][k] \in Nat
      BY <1>2
    <3>. QED
      BY <3>1, <3>2
  <2>2. /\ pc' \in [Refreshers -> {"idle", "delete", "insert"}]
        /\ DOMAIN range' = Refreshers
        /\ \A q \in Refreshers : range'[q] \in Ranges(q)
        /\ overlapped' \in [Refreshers -> BOOLEAN]
    BY RangesAreRanges DEF Insert, Finish, Types
  <2>3. pricedAt' \in [Days -> Rates \union {Unset}]
    BY <1>1 DEF Insert, Types
  <2>. QED
    BY <1>1, <2>1, <2>2, <2>3 DEF Types, Ranges
<1>. HIDE DEF rows, priced
<1>7. NoDoubleCount'
  <2>. SUFFICES ASSUME NEW d \in Days, NEW k \in Tokens
                PROVE  agg'[d][k] =< Cardinality(LogsOf(d, k))
    BY <1>1 DEF NoDoubleCount, LogsOf
  <2>. QED
    BY <1>2, LogsOfFinite DEF NoDoubleCount, Types
<1>8. IdsDiffer' /\ NoRowNoCost'
  <2>1. NoRowNoCost'
    BY <1>2 DEF NoRowNoCost
  <2>. QED
    BY <1>1, <2>1 DEF IdsDiffer
<1>9. Alone'
  BY <1>1, <1>3 DEF Alone
<1>10. \A q \in Refreshers : q # p /\ pc[q] # "idle" => overlapped[p] /\ overlapped[q]
  BY <1>1 DEF Alone
<1>11. Clean' /\ Pending'
  BY <1>1, <1>2, <1>3, <1>5, <1>10 DEF Clean, Pending, InDays
<1>12. RefreshedExact'
  <2>. SUFFICES ASSUME NEW d \in exact', NEW k \in Tokens
                PROVE  /\ agg'[d][k] = Cardinality(LogsOf(d, k))
                       /\ costs'[d][k]
                            = pricedAt'[d] * Cardinality({l \in LogsOf(d, k) : ~l.blank})
    BY <1>1 DEF RefreshedExact, LogsOf
  <2>1. CASE d \in exact /\ d \notin covered
    <3>1. ~InDays(d, range[p]) /\ d \in Days
      BY <1>1, <2>1 DEF Pending, exact
    <3>2. agg'[d][k] = agg[d][k] /\ costs'[d][k] = costs[d][k] /\ pricedAt'[d] = pricedAt[d]
      BY <1>2, <1>4, <2>1, <3>1
    <3>. QED
      BY <2>1, <3>2 DEF RefreshedExact
  <2>2. CASE d \in covered
    <3>1. InDays(d, range[p])
      BY <1>1, <2>2, WholeDays, SizesAssumption DEF Days
    <3>2. agg[d][k] = 0 /\ costs[d][k] = 0
      BY <1>1, <2>2, <3>1 DEF Clean, NoRowNoCost
    <3>3. /\ agg'[d][k] = Cardinality(LogsOf(d, k))
          /\ costs'[d][k] = rate * Cardinality(Charged(d, k))
      BY <1>2, <2>2, <3>2
    <3>. QED
      BY <1>4, <2>2, <3>3 DEF Charged
  <2>. QED
    BY <1>5, <2>1, <2>2
<1>. QED
  BY <1>6, <1>7, <1>8, <1>9, <1>11, <1>12

(* A refresh that fails keeps the invariant: what it has deleted is exact  *)
(* no longer.                                                              *)
LEMMA FailPreserves ==
  ASSUME IInv, NEW p \in Refreshers, Fail(p)
  PROVE  IInv'
<1>. USE DEF IInv
<1>1. UNCHANGED <<logs, rate, table, agg, costs, pricedAt>>
  BY DEF Fail
<1>2. \A q \in Refreshers : /\ pc'[q] = IF q = p THEN "idle" ELSE pc[q]
                            /\ q # p => range'[q] = range[q] /\ overlapped'[q] = overlapped[q]
  BY DEF Fail, Finish, Types
<1>3. Types'
  <2>1. /\ pc' \in [Refreshers -> {"idle", "delete", "insert"}]
        /\ DOMAIN range' = Refreshers
        /\ \A q \in Refreshers : range'[q] \in Ranges(q)
        /\ overlapped' \in [Refreshers -> BOOLEAN]
    BY RangesAreRanges DEF Fail, Finish, Types
  <2>. QED
    BY <1>1, <2>1 DEF Types, Ranges
<1>4. NoDoubleCount' /\ RefreshedExact' /\ NoRowNoCost' /\ IdsDiffer'
  BY <1>1, SameCounts
<1>5. Alone' /\ Clean' /\ Pending'
  BY <1>1, <1>2, SameCounts DEF Alone, Clean, Pending, InDays
<1>. QED
  BY <1>3, <1>4, <1>5

(* The inductive invariant: the counts, the costs, the days that are held  *)
(* to be exact and what the refreshes under way may still do agree.        *)
THEOREM Invariance == Spec => []IInv
<1>1. IInv /\ [Next]_vars => IInv'
  <2>. SUFFICES ASSUME IInv, [Next]_vars PROVE IInv'
    OBVIOUS
  <2>1. CASE \E id \in Ids, slot \in Slots, k \in Tokens, ip \in Ips, blank \in BOOLEAN :
               AddLog(id, slot, k, ip, blank)
    BY <2>1, AddLogPreserves
  <2>2. CASE ChangeOptions
    BY <2>2, ChangeOptionsPreserves
  <2>3. CASE \E p \in Refreshers : \E r \in Ranges(p) : Begin(p, r)
    BY <2>3, BeginPreserves
  <2>4. CASE \E p \in Refreshers : Delete(p)
    BY <2>4, DeletePreserves
  <2>5. CASE \E p \in Refreshers : Insert(p)
    BY <2>5, InsertPreserves
  <2>6. CASE \E p \in Refreshers : Fail(p)
    BY <2>6, FailPreserves
  <2>7. CASE UNCHANGED vars
    BY <2>7, SameCounts DEF vars, IInv, Types, Alone, Clean, Pending, InDays, Ranges
  <2>. QED
    BY <2>1, <2>2, <2>3, <2>4, <2>5, <2>6, <2>7 DEF Next
<1>. QED
  BY Initially, <1>1, PTL DEF Spec

(* No log is ever counted twice, however refreshes interleave and fail.    *)
THEOREM NeverDoubleCounted == Spec => []NoDoubleCount
<1>1. IInv => NoDoubleCount
  BY DEF IInv
<1>. QED
  BY <1>1, Invariance, PTL

(* What an undisturbed refresh has covered whole agrees with the logs, and *)
(* is priced with the options of that refresh.                             *)
THEOREM RefreshesAreExact == Spec => []RefreshedExact
<1>1. IInv => RefreshedExact
  BY DEF IInv
<1>. QED
  BY <1>1, Invariance, PTL

(* The types: in particular, no count exceeds the number of logs there may *)
(* be.                                                                     *)
THEOREM TypeCorrect == Spec => []TypeOK
<1>1. IInv => TypeOK
  <2>. SUFFICES ASSUME IInv PROVE TypeOK
    OBVIOUS
  <2>1. Cardinality(logs) =< Cardinality(Ids) /\ Cardinality(Ids) \in Nat
    BY NoMoreLogsThanIds, IdsAssumption, FS_CardinalityType DEF IInv, Types
  <2>2. \A d \in Days, k \in Tokens : agg[d][k] \in 0 .. Cardinality(Ids)
    BY <2>1, LogsOfFinite DEF IInv, Types, NoDoubleCount
  <2>3. agg \in [Days -> [Tokens -> 0 .. Cardinality(Ids)]]
    BY <2>2 DEF IInv, Types
  <2>. QED
    BY <2>3 DEF IInv, Types, TypeOK
<1>. QED
  BY <1>1, Invariance, PTL

-----------------------------------------------------------------------------
(* The trend.  A point of it is a sum over cells, days and tokens, which   *)
(* Functions defines by recursion over the subsets of a set.               *)

(* it sums fun over the subsets of S, from the element that is chosen.     *)
SumsOf(it, fun, S) ==
  it = [s \in SUBSET S |-> IF s = {} THEN 0
                           ELSE fun[CHOOSE x \in s : TRUE] + it[s \ {CHOOSE x \in s : TRUE}]]

(* Of some subsets of a finite set, one holds no other of them.            *)
LEMMA SmallestSubset ==
  ASSUME NEW S, IsFiniteSet(S), NEW T, T \subseteq SUBSET S, T # {}
  PROVE  \E t \in T : \A u \in SUBSET t : u \in T => u = t
<1>1. IsWellFoundedOn(StrictSubsetOrdering(S), SUBSET S)
  BY FS_StrictSubsetOrderingWellFounded, FS_FiniteSubsetsOfFinite
<1>2. PICK t \in T : \A u \in T : ~ (<<u, t>> \in StrictSubsetOrdering(S))
  BY <1>1, WFMin
<1>. QED
  BY <1>2 DEF StrictSubsetOrdering

(* Two such functions are one: they cannot differ at a smallest subset.    *)
LEMMA SumsOfUnique ==
  ASSUME NEW S, IsFiniteSet(S), NEW fun, NEW g, NEW h, SumsOf(g, fun, S), SumsOf(h, fun, S)
  PROVE  g = h
<1>. DEFINE T == {s \in SUBSET S : g[s] # h[s]}
<1>1. SUFFICES ASSUME T # {} PROVE FALSE
  BY DEF SumsOf
<1>2. PICK t \in T : \A u \in SUBSET t : u \in T => u = t
  <2>1. T \subseteq SUBSET S
    OBVIOUS
  <2>. HIDE DEF T
  <2>. QED
    BY <1>1, <2>1, SmallestSubset
<1>3. t # {}
  BY DEF SumsOf
<1>. DEFINE c == CHOOSE x \in t : TRUE
<1>4. c \in t
  BY <1>3
<1>. HIDE DEF c
<1>5. g[t \ {c}] = h[t \ {c}]
  BY <1>2, <1>4
<1>6. g[t] = fun[c] + g[t \ {c}] /\ h[t] = fun[c] + h[t \ {c}]
  BY <1>3 DEF SumsOf, c
<1>. QED
  BY <1>2, <1>5, <1>6

(* So a function that satisfies the equation is the sum.                   *)
LEMMA SumIs ==
  ASSUME NEW S, IsFiniteSet(S), NEW fun, NEW g, SumsOf(g, fun, S)
  PROVE  FoldFunctionOnSet(LAMBDA x, y : x + y, 0, fun, S) = g[S]
<1>. DEFINE h == CHOOSE it : SumsOf(it, fun, S)
<1>1. SumsOf(h, fun, S)
  OBVIOUS
<1>2. FoldFunctionOnSet(LAMBDA x, y : x + y, 0, fun, S) = h[S]
  BY DEF FoldFunctionOnSet, MapThenFoldSet, SumsOf
<1>. HIDE DEF h
<1>3. g = h
  BY <1>1, SumsOfUnique
<1>. QED
  BY <1>2, <1>3

(* The logs L that fall in some cells.                                     *)
InCells(L, S) == {l \in L : <<DayOf(l.slot), l.token>> \in S}

(* What they come to, at n each.                                           *)
Worth(n, L, S) == n * Cardinality(InCells(L, S))

(* A column has in each of some cells n for each log of L there.           *)
Filled(column, n, L, S) == \A c \in S : column[c[1]][c[2]] = Worth(n, L, {c})

(* The cells of days and tokens are finitely many.                         *)
LEMMA CellsFinite == IsFiniteSet(Days \X Tokens)
<1>1. IsFiniteSet(Days)
  BY FS_Interval, SizesAssumption DEF Days
<1>. QED
  BY <1>1, TokensAssumption, FS_Product

(* Such a column adds up to n for each log of L in all of the cells.       *)
LEMMA CellsAddUp ==
  ASSUME NEW L, IsFiniteSet(L), NEW column, NEW n \in Nat,
         NEW S \in SUBSET (Days \X Tokens),
         Filled(column, n, L, S)
  PROVE  Total(column, S) = Worth(n, L, S)
<1>. DEFINE fun == [c \in Days \X Tokens |-> column[c[1]][c[2]]]
            g == [s \in SUBSET S |-> Worth(n, L, s)]
<1>1. IsFiniteSet(S)
  BY CellsFinite, FS_Subset
<1>2. ASSUME NEW s \in SUBSET S
      PROVE  g[s] = IF s = {} THEN 0
                    ELSE fun[CHOOSE x \in s : TRUE] + g[s \ {CHOOSE x \in s : TRUE}]
  <2>1. CASE s = {}
    <3>1. InCells(L, s) = {}
      BY <2>1 DEF InCells
    <3>2. g[s] = n * Cardinality({})
      BY <3>1 DEF Worth
    <3>. QED
      BY <2>1, <3>2, FS_EmptySet
  <2>2. CASE s # {}
    <3>. DEFINE c == CHOOSE x \in s : TRUE
    <3>1. c \in s
      BY <2>2
    <3>. HIDE DEF c
    <3>2. PICK A : A = InCells(L, {c})
      OBVIOUS
    <3>3. PICK B : B = InCells(L, s \ {c})
      OBVIOUS
    <3>4. InCells(L, s) = A \union B /\ A \intersect B = {}
      BY <3>1, <3>2, <3>3 DEF InCells
    <3>5. IsFiniteSet(A) /\ IsFiniteSet(B)
      <4>1. A \in SUBSET L /\ B \in SUBSET L
        BY <3>2, <3>3 DEF InCells
      <4>. QED
        BY <4>1, FS_Subset
    <3>6. Cardinality(A) \in Nat /\ Cardinality(B) \in Nat
      BY <3>5, FS_CardinalityType
    <3>7. Cardinality(A \union B) = Cardinality(A) + Cardinality(B)
      <4>1. Cardinality(A \union B)
              = Cardinality(A) + Cardinality(B) - Cardinality(A \intersect B)
        BY <3>5, FS_Union
      <4>2. Cardinality(A \intersect B) = 0
        BY <3>4, FS_EmptySet
      <4>. QED
        BY <3>6, <4>1, <4>2
    <3>8. fun[c] = n * Cardinality(A)
      BY <3>1, <3>2 DEF Filled, Worth
    <3>9. g[s] = n * Cardinality(A \union B) /\ g[s \ {c}] = n * Cardinality(B)
      BY <3>3, <3>4 DEF Worth
    <3>. HIDE DEF fun, g
    <3>10. n * (Cardinality(A) + Cardinality(B)) = n * Cardinality(A) + n * Cardinality(B)
      BY <3>6
    <3>11. g[s] = fun[c] + g[s \ {c}]
      BY <3>7, <3>8, <3>9, <3>10
    <3>. QED
      BY <2>2, <3>11 DEF c
  <2>. QED
    BY <2>1, <2>2
<1>3. SumsOf(g, fun, S)
  BY <1>2 DEF SumsOf
<1>4. g[S] = Worth(n, L, S)
  OBVIOUS
<1>. HIDE DEF g
<1>5. FoldFunctionOnSet(LAMBDA x, y : x + y, 0, fun, S) = g[S]
  BY <1>1, <1>3, SumIs
<1>. QED
  BY <1>4, <1>5 DEF Total

(* The logs of a point, if the days of its bucket that are in the range    *)
(* are in it whole, are those of its cells.                                *)
LEMMA MatchingIsCells ==
  ASSUME logs \subseteq Logs, NEW f \in PlainFilters, NEW B \in SUBSET Days,
         \A d \in B : InDays(d, f) => Whole(d, f)
  PROVE  Matching(f, B) = InCells(logs, CellsOf(f, B))
<1>. DEFINE r == [from |-> f.from, to |-> f.to]
<1>1. Slots \subseteq Int /\ Days \subseteq Int
  BY SizesAssumption DEF Slots, Days
<1>2. r \in SomeRange /\ f.ip = Unset /\ f.request = Unset
  <2>1. f.from \in Slots /\ f.to \in Slots /\ f.ip = Unset /\ f.request = Unset
    BY DEF PlainFilters, FiltersBy
  <2>. QED
    BY <1>1, <2>1 DEF SomeRange
<1>3. /\ \A d : InDays(d, r) <=> InDays(d, f)
      /\ \A d : Whole(d, r) <=> Whole(d, f)
      /\ \A s : InRange(s, r) <=> InRange(s, f)
  BY DEF InDays, Whole, InRange
<1>. HIDE DEF r
<1>4. ASSUME NEW l \in logs
      PROVE  /\ DayOf(l.slot) \in B /\ InRange(l.slot, f) => InDays(DayOf(l.slot), f)
             /\ DayOf(l.slot) \in B /\ InDays(DayOf(l.slot), f) => InRange(l.slot, f)
             /\ l.token \in Tokens
  <2>1. l.slot \in Int /\ l.token \in Tokens
    BY <1>1 DEF Logs
  <2>2. InRange(l.slot, f) => InDays(DayOf(l.slot), f)
    BY <1>2, <1>3, <2>1, InRangeInDays
  <2>3. ASSUME DayOf(l.slot) \in B, InDays(DayOf(l.slot), f)
        PROVE  InRange(l.slot, f)
    <3>1. Whole(DayOf(l.slot), r) /\ DayOf(l.slot) \in Int
      BY <1>1, <1>3, <2>3
    <3>. QED
      BY <1>2, <1>3, <2>1, <3>1, WholeDays
  <2>. QED
    BY <2>1, <2>2, <2>3
<1>5. ASSUME NEW l \in logs
      PROVE  l \in Matching(f, B) <=> l \in InCells(logs, CellsOf(f, B))
  BY <1>2, <1>4 DEF Matching, InCells, CellsOf, TokensOf, Matches
<1>. QED
  BY <1>5 DEF Matching, InCells

(* One such point of the trend.                                            *)
LEMMA PointsAgree ==
  ASSUME IInv, NEW f \in PlainFilters, NEW B \in SUBSET Days,
         \A d \in B : InDays(d, f) => d \in exact /\ Whole(d, f)
  PROVE  /\ AggregatePoint(f, B).count = RawPoint(f, B).count
         /\ PricedNow(f, B) => AggregatePoint(f, B).cost = RawPoint(f, B).cost
<1>. DEFINE S == CellsOf(f, B)
<1>1. IsFiniteSet(logs) /\ logs \subseteq Logs /\ RefreshedExact
  BY DEF IInv, Types
<1>2. S \in SUBSET (Days \X Tokens) /\ \A c \in S : c[1] \in exact /\ c[1] \in B /\ InDays(c[1], f)
  BY DEF CellsOf, TokensOf
<1>3. Matching(f, B) = InCells(logs, S)
  BY <1>1, MatchingIsCells
<1>4. f.request = Unset
  BY DEF PlainFilters, FiltersBy
<1>5. \A c \in S : InCells(logs, {c}) = LogsOf(c[1], c[2])
  BY <1>2 DEF InCells, LogsOf
<1>6. AggregatePoint(f, B) = [count |-> Total(agg, S), cost |-> Total(costs, S)]
  BY <1>4 DEF AggregatePoint
<1>. HIDE DEF S
<1>7. Total(agg, S) = 1 * Cardinality(Matching(f, B))
  <2>1. ASSUME NEW c \in S
        PROVE  agg[c[1]][c[2]] = Worth(1, logs, {c})
    <3>1. agg[c[1]][c[2]] = Cardinality(LogsOf(c[1], c[2]))
      BY <1>1, <1>2 DEF RefreshedExact
    <3>2. Cardinality(LogsOf(c[1], c[2])) \in Nat
      BY <1>1, LogsOfFinite
    <3>. QED
      BY <1>5, <3>1, <3>2 DEF Worth
  <2>2. PICK one \in Nat : one = 1
    OBVIOUS
  <2>3. Total(agg, S) = Worth(one, logs, S)
    <3>1. S \in SUBSET (Days \X Tokens) /\ IsFiniteSet(logs)
      BY <1>1, <1>2
    <3>2. Filled(agg, one, logs, S)
      BY <2>1, <2>2 DEF Filled
    <3>. QED
      BY <3>1, <3>2, CellsAddUp
  <2>. QED
    BY <1>3, <2>2, <2>3 DEF Worth
<1>8. Cardinality(Matching(f, B)) \in Nat
  <2>1. Matching(f, B) \in SUBSET logs
    BY DEF Matching
  <2>. QED
    BY <1>1, <2>1, FS_Subset, FS_CardinalityType
<1>9. ASSUME PricedNow(f, B)
      PROVE  Total(costs, S) = rate * Cardinality(Matching(f, B))
  <2>. DEFINE L == {l \in logs : ~l.blank}
  <2>1. IsFiniteSet(L)
    BY <1>1, FS_Subset
  <2>2. Matching(f, B) = InCells(L, S)
    BY <1>3, <1>9 DEF InCells, PricedNow
  <2>3. \A c \in S : {l \in LogsOf(c[1], c[2]) : ~l.blank} = InCells(L, {c})
    BY <1>5 DEF InCells
  <2>. HIDE DEF L
  <2>4. ASSUME NEW c \in S
        PROVE  costs[c[1]][c[2]] = Worth(rate, L, {c})
    <3>1. pricedAt[c[1]] = rate
      BY <1>2, <1>9 DEF PricedNow
    <3>2. costs[c[1]][c[2]]
            = pricedAt[c[1]] * Cardinality({l \in LogsOf(c[1], c[2]) : ~l.blank})
      BY <1>1, <1>2 DEF RefreshedExact
    <3>. QED
      BY <2>3, <3>1, <3>2 DEF Worth
  <2>5. rate \in Nat
    BY RatesAssumption DEF IInv, Types
  <2>6. Total(costs, S) = Worth(rate, L, S)
    <3>1. S \in SUBSET (Days \X Tokens)
      BY <1>2
    <3>2. Filled(costs, rate, L, S)
      BY <2>4 DEF Filled
    <3>. QED
      BY <2>1, <2>5, <3>1, <3>2, CellsAddUp
  <2>. QED
    BY <2>2, <2>6 DEF Worth
<1>. QED
  BY <1>6, <1>7, <1>8, <1>9 DEF RawPoint

(* A trend that the table answers has, for days that are exact, the counts *)
(* of the logs, and their costs too while the options are those the days   *)
(* were priced with and no log has a blank ratio: the length of the range, *)
(* which chooses between the two, makes no other difference.               *)
THEOREM TrendsAgree == Spec => []TrendExact
<1>1. ASSUME IInv, NEW f \in PlainFilters
      PROVE  AgreesWithLogs(f)
  <2>1. \A B \in {Bucket(d, f.granularity) : d \in Days} : B \in SUBSET Days
    BY DEF Bucket
  <2>. QED
    BY <1>1, <2>1, PointsAgree DEF AgreesWithLogs
<1>2. IInv => TrendExact
  BY <1>1 DEF TrendExact
<1>. QED
  BY <1>2, Invariance, PTL
=============================================================================
