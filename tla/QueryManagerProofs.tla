------------------------- MODULE QueryManagerProofs -------------------------
(***************************************************************************)
(* Proofs about the queries, for any number of queriers, requests, rows    *)
(* and any width of the offset, while other threads insert rows:           *)
(*   - types (TypeCorrect);                                                *)
(*   - total_count, which comes from a statement of its own, lies between  *)
(*     the number of rows there were at the call and the number there are  *)
(*     at the answer (TotalCorrect);                                       *)
(*   - a trend splits the rows of its window (TrendCorrect), the latest    *)
(*     scores name every server (LatestCorrect);                           *)
(*   - a walk over the pages misses no row (WalkComplete) and puts the     *)
(*     answer together (WalkFaithful).                                     *)
(* The first part proves what FlattenSeq, a recursive function, returns,   *)
(* by the least-number principle.                                          *)
(***************************************************************************)
EXTENDS QueryManager, SequenceTheorems, FiniteSetTheorems, WellFoundedInduction, TLAPS

(* The least-number principle, for sets: the library's induction theorems  *)
(* take a predicate, which cannot be instantiated here.                    *)
LEMMA Least ==
  ASSUME NEW T, T \subseteq Nat, T # {}
  PROVE  \E n \in T : \A m \in T : n <= m
<1>1. IsWellFoundedOn(OpToRel(<, Nat), Nat)
  BY NatLessThanWellFounded
<1>2. OpToRel(<, Nat) = {ss \in Nat \X Nat : ss[1] < ss[2]}
  BY DEF OpToRel
<1>3. PICK x \in T : \A y \in T : ~ (<<y, x>> \in {ss \in Nat \X Nat : ss[1] < ss[2]})
  BY <1>1, <1>2, WFMin
<1>4. \A y \in T : ~ (y < x)
  <2> TAKE y \in T
  <2>1. <<y, x>> \in Nat \X Nat
    OBVIOUS
  <2>2. ~ (<<y, x>> \in {ss \in Nat \X Nat : ss[1] < ss[2]})
    BY <1>3
  <2> QED
    BY <2>1, <2>2
<1> QED
  BY <1>4

LEMMA Induct ==
  ASSUME NEW S, 0 \in S, \A n \in Nat : n \in S => n + 1 \in S
  PROVE  \A n \in Nat : n \in S
<1> SUFFICES ASSUME Nat \ S # {} PROVE FALSE
  OBVIOUS
<1>1. PICK n \in Nat \ S : \A m \in Nat \ S : n <= m
  BY Least
<1>2. n # 0 /\ n - 1 \in Nat /\ n - 1 \in S
  BY <1>1
<1> QED
  BY <1>1, <1>2

(* FlattenSeq is made of a recursive function, which exists ...            *)
Flattens(ss, n, f) == f = [i \in 1 .. n |-> IF i = 1 THEN ss[i] ELSE f[i - 1] \o ss[i]]

LEMMA FlattenExists == ASSUME NEW n \in Nat, NEW ss PROVE \E f : Flattens(ss, n, f)
<1> DEFINE S == {k \in Nat : \E f : Flattens(ss, k, f)}
<1>1. 0 \in S
  <2>1. Flattens(ss, 0, [i \in 1 .. 0 |-> ss[i]])
    BY DEF Flattens
  <2> QED
    BY <2>1
<1>2. ASSUME NEW k \in Nat, k \in S PROVE k + 1 \in S
  <2>1. PICK f : Flattens(ss, k, f)
    BY <1>2
  <2> DEFINE g == [i \in 1 .. k + 1 |->
                     IF i = k + 1 THEN IF i = 1 THEN ss[i] ELSE f[i - 1] \o ss[i] ELSE f[i]]
  <2>2. ASSUME NEW i \in 1 .. k + 1
        PROVE  g[i] = IF i = 1 THEN ss[i] ELSE g[i - 1] \o ss[i]
    <3>1. CASE i = k + 1
      <4>1. g[i] = IF i = 1 THEN ss[i] ELSE f[i - 1] \o ss[i]
        BY <3>1
      <4>2. i # 1 => g[i - 1] = f[i - 1]
        BY <3>1
      <4> QED
        BY <4>1, <4>2
    <3>2. CASE i # k + 1
      <4>1. i \in 1 .. k /\ g[i] = f[i] /\ (i # 1 => g[i - 1] = f[i - 1])
        BY <3>2
      <4>2. f[i] = IF i = 1 THEN ss[i] ELSE f[i - 1] \o ss[i]
        BY <2>1, <4>1 DEF Flattens
      <4> QED
        BY <4>1, <4>2
    <3> QED
      BY <3>1, <3>2
  <2>3. g = [i \in 1 .. k + 1 |-> g[i]]
    OBVIOUS
  <2>4. PICK h : h = g
    OBVIOUS
  <2>5. Flattens(ss, k + 1, h)
    <3> HIDE DEF g
    <3> QED
      BY <2>2, <2>3, <2>4 DEF Flattens
  <2> QED
    BY <2>5
<1> HIDE DEF S
<1>3. n \in S
  BY <1>1, <1>2, Induct
<1> QED
  BY <1>3 DEF S

(* ... so a list is flattened by appending its last element to what its    *)
(* front is flattened to.                                                  *)
LEMMA FlattenIs ==
  ASSUME NEW A, NEW n \in Nat, n > 0, NEW ss \in [1 .. n -> Seq(A)]
  PROVE  \E f : Flattens(ss, n, f) /\ FlattenSeq(ss) = f[n]
<1>1. ss \in Seq(Seq(A)) /\ Len(ss) = n
  OBVIOUS
<1> DEFINE F == CHOOSE f : f = [i \in 1 .. n |-> IF i = 1 THEN ss[i] ELSE f[i - 1] \o ss[i]]
<1>2. FlattenSeq(ss) = F[n]
  BY <1>1 DEF FlattenSeq
<1>3. Flattens(ss, n, F)
  BY FlattenExists DEF Flattens
<1> QED
  BY <1>2, <1>3

LEMMA FlattenNone == ASSUME NEW ss, ss = [i \in 1 .. 0 |-> ss[i]] PROVE FlattenSeq(ss) = <<>>
<1>1. ss = <<>>
  OBVIOUS
<1> QED
  BY <1>1 DEF FlattenSeq

LEMMA FlattenNext ==
  ASSUME NEW A, NEW n \in Nat, NEW ss \in [1 .. n + 1 -> Seq(A)]
  PROVE  FlattenSeq(ss) = FlattenSeq([i \in 1 .. n |-> ss[i]]) \o ss[n + 1]
<1> DEFINE pp == [i \in 1 .. n |-> ss[i]]
<1>1. \E f : Flattens(ss, n + 1, f) /\ FlattenSeq(ss) = f[n + 1]
  <2>1. PICK m : m = n + 1
    OBVIOUS
  <2>2. m \in Nat /\ m > 0 /\ ss \in [1 .. m -> Seq(A)]
    BY <2>1
  <2>3. \E f : Flattens(ss, m, f) /\ FlattenSeq(ss) = f[m]
    BY <2>2, FlattenIs
  <2> QED
    BY <2>1, <2>3
<1>0. PICK f : Flattens(ss, n + 1, f) /\ FlattenSeq(ss) = f[n + 1]
  BY <1>1
<1>a. \A i \in 1 .. n + 1 : f[i] = IF i = 1 THEN ss[i] ELSE f[i - 1] \o ss[i]
  BY <1>0 DEF Flattens
<1>2. f[n + 1] = IF n = 0 THEN ss[1] ELSE f[n] \o ss[n + 1]
  BY <1>a
<1>3. CASE n = 0
  <2>1. FlattenSeq(pp) = <<>>
    BY <1>3, FlattenNone
  <2> QED
    BY <1>0, <1>2, <1>3, <2>1
<1>4. CASE n # 0
  <2>1. PICK g : Flattens(pp, n, g) /\ FlattenSeq(pp) = g[n]
    <3>1. pp \in [1 .. n -> Seq(A)] /\ n > 0
      BY <1>4
    <3> HIDE DEF pp
    <3> QED
      BY <3>1, FlattenIs
  <2>a. \A i \in 1 .. n : g[i] = IF i = 1 THEN pp[i] ELSE g[i - 1] \o pp[i]
    BY <2>1 DEF Flattens
  <2> DEFINE S == {k \in Nat : k \in 1 .. n => f[k] = g[k]}
  <2>2. 0 \in S
    OBVIOUS
  <2>3. ASSUME NEW k \in Nat, k \in S PROVE k + 1 \in S
    <3> SUFFICES ASSUME k + 1 \in 1 .. n PROVE f[k + 1] = g[k + 1]
      OBVIOUS
    <3>1. f[k + 1] = IF k = 0 THEN ss[1] ELSE f[k] \o ss[k + 1]
      BY <1>a
    <3>2. g[k + 1] = IF k = 0 THEN pp[1] ELSE g[k] \o pp[k + 1]
      BY <2>a
    <3>3. k # 0 => f[k] = g[k]
      BY <2>3
    <3> QED
      BY <3>1, <3>2, <3>3
  <2> HIDE DEF S
  <2>4. n \in S
    BY <2>2, <2>3, Induct
  <2>5. f[n] = g[n]
    BY <1>4, <2>4 DEF S
  <2> QED
    BY <1>0, <1>2, <1>4, <2>1, <2>5
<1> QED
  BY <1>3, <1>4

LEMMA FlattenType ==
  ASSUME NEW A, NEW n \in Nat, NEW ss \in [1 .. n -> Seq(A)]
  PROVE  FlattenSeq(ss) \in Seq(A)
<1> DEFINE S == {k \in Nat : \A tt \in [1 .. k -> Seq(A)] : FlattenSeq(tt) \in Seq(A)}
<1>1. 0 \in S
  BY FlattenNone
<1>2. ASSUME NEW k \in Nat, k \in S PROVE k + 1 \in S
  <2> SUFFICES ASSUME NEW tt \in [1 .. k + 1 -> Seq(A)] PROVE FlattenSeq(tt) \in Seq(A)
    OBVIOUS
  <2>1. [i \in 1 .. k |-> tt[i]] \in [1 .. k -> Seq(A)]
    OBVIOUS
  <2>2. FlattenSeq([i \in 1 .. k |-> tt[i]]) \in Seq(A) /\ tt[k + 1] \in Seq(A)
    BY <1>2, <2>1
  <2>3. FlattenSeq(tt) = FlattenSeq([i \in 1 .. k |-> tt[i]]) \o tt[k + 1]
    BY FlattenNext
  <2>4. PICK u, v : u = FlattenSeq([i \in 1 .. k |-> tt[i]]) /\ v = tt[k + 1]
    OBVIOUS
  <2>5. u \in Seq(A) /\ v \in Seq(A) /\ FlattenSeq(tt) = u \o v
    BY <2>2, <2>3, <2>4
  <2> QED
    BY <2>5, ConcatProperties
<1> HIDE DEF S
<1>3. n \in S
  BY <1>1, <1>2, Induct
<1> QED
  BY <1>3 DEF S

LEMMA ConcatRange ==
  ASSUME NEW A, NEW s \in Seq(A), NEW t \in Seq(A)
  PROVE  ToSet(s \o t) = ToSet(s) \union ToSet(t)
<1> DEFINE m == Len(s)
           n == Len(t)
           u == s \o t
<1>1. /\ m \in Nat /\ n \in Nat /\ DOMAIN s = 1 .. m /\ DOMAIN t = 1 .. n /\ DOMAIN u = 1 .. m + n
      /\ \A i \in 1 .. m + n : u[i] = IF i <= m THEN s[i] ELSE t[i - m]
  BY ConcatProperties, LenProperties
<1> HIDE DEF m, n, u
<1>2. \A i \in 1 .. m : i \in 1 .. m + n /\ u[i] = s[i]
  BY <1>1
<1>3. \A i \in 1 .. n : i + m \in 1 .. m + n /\ u[i + m] = t[i]
  BY <1>1
<1>4. \A i \in 1 .. m + n : (i \in 1 .. m /\ u[i] = s[i]) \/ (i - m \in 1 .. n /\ u[i] = t[i - m])
  BY <1>1
<1>5. ToSet(u) = {u[i] : i \in 1 .. m + n} /\ ToSet(s) = {s[i] : i \in 1 .. m}
      /\ ToSet(t) = {t[i] : i \in 1 .. n}
  BY <1>1 DEF ToSet
<1>6. ToSet(u) \subseteq ToSet(s) \union ToSet(t)
  BY <1>4, <1>5
<1>7. ToSet(s) \subseteq ToSet(u) /\ ToSet(t) \subseteq ToSet(u)
  BY <1>2, <1>3, <1>5
<1> QED
  BY <1>6, <1>7 DEF u

LEMMA FlattenRange ==
  ASSUME NEW A, NEW n \in Nat, NEW ss \in [1 .. n -> Seq(A)]
  PROVE  \A x : x \in ToSet(FlattenSeq(ss)) <=> \E i \in 1 .. n : x \in ToSet(ss[i])
<1> DEFINE Covers(k, tt) ==
             \A x : x \in ToSet(FlattenSeq(tt)) <=> \E i \in 1 .. k : x \in ToSet(tt[i])
           S == {k \in Nat : \A tt \in [1 .. k -> Seq(A)] : Covers(k, tt)}
<1>1. 0 \in S
  BY FlattenNone DEF ToSet
<1>2. ASSUME NEW k \in Nat, k \in S PROVE k + 1 \in S
  <2> SUFFICES ASSUME NEW tt \in [1 .. k + 1 -> Seq(A)], NEW x
               PROVE  x \in ToSet(FlattenSeq(tt)) <=> \E i \in 1 .. k + 1 : x \in ToSet(tt[i])
    OBVIOUS
  <2> DEFINE pp == [i \in 1 .. k |-> tt[i]]
  <2>1. pp \in [1 .. k -> Seq(A)] /\ \A i \in 1 .. k : pp[i] = tt[i]
    OBVIOUS
  <2>2. FlattenSeq(pp) \in Seq(A) /\ tt[k + 1] \in Seq(A)
    BY <2>1, FlattenType
  <2>3. Covers(k, pp)
    BY <1>2, <2>1
  <2>4. ToSet(FlattenSeq(tt)) = ToSet(FlattenSeq(pp)) \union ToSet(tt[k + 1])
    <3>1. FlattenSeq(tt) = FlattenSeq(pp) \o tt[k + 1]
      BY FlattenNext
    <3> HIDE DEF pp
    <3> QED
      BY <2>2, <3>1, ConcatRange
  <2> HIDE DEF pp
  <2>5. x \in ToSet(FlattenSeq(tt)) <=>
          (\E i \in 1 .. k : x \in ToSet(tt[i])) \/ x \in ToSet(tt[k + 1])
    BY <2>1, <2>3, <2>4
  <2>6. \A i \in 1 .. k + 1 : i \in 1 .. k \/ i = k + 1
    OBVIOUS
  <2>7. 1 .. k \subseteq 1 .. k + 1 /\ k + 1 \in 1 .. k + 1
    OBVIOUS
  <2> QED
    BY <2>5, <2>6, <2>7
<1>3. n \in S
  <2> HIDE DEF S
  <2> QED
    BY <1>1, <1>2, Induct
<1> QED
  BY <1>3

(* The first m of a list and the others are flattened one after the other. *)
Splits(ss, m, n) ==
  FlattenSeq(ss) = FlattenSeq([i \in 1 .. m |-> ss[i]]) \o FlattenSeq([i \in 1 .. n |-> ss[m + i]])

LEMMA FlattenSplit ==
  ASSUME NEW A, NEW m \in Nat, NEW n \in Nat, NEW ss \in [1 .. m + n -> Seq(A)]
  PROVE  Splits(ss, m, n)
<1> DEFINE Upto(k) == [i \in 1 .. k |-> ss[i]]
           Rest(k) == [i \in 1 .. k |-> ss[m + i]]
           S == {k \in Nat : k <= n =>
                   FlattenSeq(Upto(m + k)) = FlattenSeq(Upto(m)) \o FlattenSeq(Rest(k))}
<1>1. 0 \in S
  <2>1. FlattenSeq(Rest(0)) = <<>>
    BY FlattenNone
  <2>2. FlattenSeq(Upto(m)) \in Seq(A)
    BY FlattenType
  <2> HIDE DEF Rest, Upto
  <2>3. Upto(m + 0) = Upto(m)
    <3>1. m + 0 = m
      OBVIOUS
    <3> QED
      BY <3>1, Zenon
  <2> QED
    BY <2>1, <2>2, <2>3, ConcatEmptySeq
<1>2. ASSUME NEW k \in Nat, k \in S PROVE k + 1 \in S
  <2> HIDE DEF Upto, Rest
  <2> SUFFICES ASSUME k + 1 <= n
               PROVE  FlattenSeq(Upto(m + (k + 1))) = FlattenSeq(Upto(m)) \o FlattenSeq(Rest(k + 1))
    <3>1. k + 1 \in Nat
      OBVIOUS
    <3> QED
      BY <3>1
  <2> USE DEF Upto, Rest
  <2>1. Upto((m + k) + 1) \in [1 .. (m + k) + 1 -> Seq(A)] /\ Rest(k + 1) \in [1 .. k + 1 -> Seq(A)]
    OBVIOUS
  <2>2. /\ [i \in 1 .. m + k |-> Upto((m + k) + 1)[i]] = Upto(m + k)
        /\ [i \in 1 .. k |-> Rest(k + 1)[i]] = Rest(k)
    OBVIOUS
  <2>3. Upto((m + k) + 1)[(m + k) + 1] = ss[(m + k) + 1] /\ Rest(k + 1)[k + 1] = ss[(m + k) + 1]
    OBVIOUS
  <2>4. FlattenSeq(Upto((m + k) + 1)) = FlattenSeq(Upto(m + k)) \o ss[(m + k) + 1]
    <3>0. m + k \in Nat
      OBVIOUS
    <3> HIDE DEF Upto
    <3> QED
      BY <2>1, <2>2, <2>3, <3>0, FlattenNext
  <2>5. FlattenSeq(Rest(k + 1)) = FlattenSeq(Rest(k)) \o ss[(m + k) + 1]
    <3> HIDE DEF Rest
    <3> QED
      BY <2>1, <2>2, <2>3, FlattenNext
  <2>6. /\ FlattenSeq(Upto(m)) \in Seq(A) /\ FlattenSeq(Rest(k)) \in Seq(A)
        /\ ss[(m + k) + 1] \in Seq(A)
    BY FlattenType
  <2> HIDE DEF Upto, Rest
  <2>7. FlattenSeq(Upto(m + k)) = FlattenSeq(Upto(m)) \o FlattenSeq(Rest(k))
    BY <1>2
  <2>8. PICK u, v, w : u = FlattenSeq(Upto(m)) /\ v = FlattenSeq(Rest(k)) /\ w = ss[(m + k) + 1]
    OBVIOUS
  <2>9. (u \o v) \o w = u \o (v \o w)
    <3>1. u \in Seq(A) /\ v \in Seq(A) /\ w \in Seq(A)
      BY <2>6, <2>8
    <3> QED
      BY <3>1, ConcatAssociative
  <2>10. m + (k + 1) = (m + k) + 1
    OBVIOUS
  <2> QED
    BY <2>4, <2>5, <2>7, <2>8, <2>9, <2>10
<1>3. n \in S
  <2> HIDE DEF S
  <2> QED
    BY <1>1, <1>2, Induct
<1>4. Upto(m + n) = ss
  OBVIOUS
<1> HIDE DEF Upto, Rest
<1>5. FlattenSeq(ss) = FlattenSeq(Upto(m)) \o FlattenSeq(Rest(n))
  BY <1>3, <1>4
<1> QED
  BY <1>5 DEF Upto, Rest, Splits

(* Lists of one element.                                                   *)
LEMMA FlattenOnes ==
  ASSUME NEW A, NEW n \in Nat, NEW e \in [1 .. n -> A]
  PROVE  FlattenSeq([i \in 1 .. n |-> <<e[i]>>]) = e
<1> DEFINE Ones(k) == [i \in 1 .. k |-> <<e[i]>>]
           S == {k \in Nat : k <= n => FlattenSeq(Ones(k)) = [i \in 1 .. k |-> e[i]]}
<1>1. 0 \in S
  BY FlattenNone
<1>2. ASSUME NEW k \in Nat, k \in S PROVE k + 1 \in S
  <2> SUFFICES ASSUME k + 1 <= n PROVE FlattenSeq(Ones(k + 1)) = [i \in 1 .. k + 1 |-> e[i]]
    OBVIOUS
  <2>1. Ones(k + 1) \in [1 .. k + 1 -> Seq(A)] /\ [i \in 1 .. k |-> Ones(k + 1)[i]] = Ones(k)
    OBVIOUS
  <2>2. FlattenSeq(Ones(k + 1)) = FlattenSeq(Ones(k)) \o <<e[k + 1]>>
    <3>1. Ones(k + 1)[k + 1] = <<e[k + 1]>>
      OBVIOUS
    <3> HIDE DEF Ones
    <3> QED
      BY <2>1, <3>1, FlattenNext
  <2>3. FlattenSeq(Ones(k)) = [i \in 1 .. k |-> e[i]]
    BY <1>2
  <2>4. [i \in 1 .. k |-> e[i]] \o <<e[k + 1]>> = [i \in 1 .. k + 1 |-> e[i]]
    OBVIOUS
  <2> QED
    BY <2>2, <2>3, <2>4
<1>3. n \in S
  <2> HIDE DEF S
  <2> QED
    BY <1>1, <1>2, Induct
<1> QED
  BY <1>3
----------------------------------------------------------------------------

TableRows ==
  [of : {"performance"} \cup Details, server : Servers, time : Nat,
   score : 0 .. 100, alarms : SUBSET ToSet(MetricOrder)]

RequestType ==
  [kind : Kinds, server : Servers \cup {AnyServer}, start : Nat, end : Nat,
   order : {"ASC", "DESC"}, interval : Nat, page : Int, page_size : Int]

TypeTable ==
  /\ table \in Seq(TableRows) /\ clock \in Nat
  /\ stage \in [Queriers -> {"idle", "called", "count", "fetch", "answered"}]
  /\ status \in [Queriers -> {"none", "OK", "INVALID_ARGUMENT"}]
  /\ req \in [Queriers -> RequestType]
  /\ total \in [Queriers -> Nat]
  /\ sound \in [Queriers -> BOOLEAN]
  /\ since \in [Queriers -> Nat] /\ until \in [Queriers -> Nat]
  /\ \A q \in Queriers : since[q] <= Len(table) /\ until[q] <= Len(table)
  /\ \A q \in Queriers : stage[q] = "count" => req[q].kind \in Paged

(* The first m rows and what the statements make of them stay the same     *)
(* when rows are added.                                                    *)
LEMMA RowsGrowBehind ==
  ASSUME TypeTable, NEW row \in TableRows, table' = Append(table, row),
         NEW r, NEW m \in Nat, m <= Len(table)
  PROVE  TotalCount(r, m)' = TotalCount(r, m)
<1>1. \A n \in 1 .. m : table'[n] = table[n]
  BY AppendProperties, LenProperties DEF TypeTable
<1>2. Rows(r, m)' = Rows(r, m)
  BY <1>1 DEF Rows
<1>3. Rows(r, m) \subseteq 1 .. m
  BY DEF Rows
<1>4. Selected(r, m)' = Selected(r, m)
  BY <1>1, <1>2, <1>3 DEF Selected, Time
<1>5. {table'[n].server : n \in Rows(r, m)} = {table[n].server : n \in Rows(r, m)}
  BY <1>1, <1>3
<1> QED
  BY <1>2, <1>4, <1>5 DEF TotalCount

(* More rows are never counted as fewer.                                   *)
LEMMA CountGrows ==
  ASSUME NEW r, r.kind \in Paged, NEW m \in Nat, NEW n \in Nat, m <= n
  PROVE  /\ TotalCount(r, m) \in Nat /\ TotalCount(r, n) \in Nat
         /\ TotalCount(r, m) <= TotalCount(r, n)
<1>1. /\ Rows(r, m) \subseteq Rows(r, n)
      /\ Rows(r, n) \subseteq 1 .. n
  BY DEF Rows
<1>2. IsFiniteSet(Rows(r, n))
  <2>1. IsFiniteSet(1 .. n)
    BY FS_Interval
  <2> QED
    BY <1>1, <2>1, FS_Subset
<1>3. CASE r.kind = "rank"
  <2> DEFINE of(l) == {table[j].server : j \in Rows(r, l)}
  <2>1. of(m) \subseteq of(n)
    BY <1>1
  <2>2. IsFiniteSet(of(n))
    <3> DEFINE f == [j \in Rows(r, n) |-> table[j].server]
    <3>1. f \in Surjection(Rows(r, n), of(n))
      BY DEF Surjection
    <3> QED
      BY <1>2, <3>1, FS_Surjection
  <2>3. /\ Cardinality(of(m)) \in Nat /\ Cardinality(of(n)) \in Nat
        /\ Cardinality(of(m)) <= Cardinality(of(n))
    BY <2>1, <2>2, FS_Subset, FS_CardinalityType
  <2> QED
    BY <1>3, <2>3 DEF TotalCount
<1>4. CASE r.kind # "rank"
  <2>1. r.kind \notin {"rank", "latest"}
    BY <1>4 DEF Paged, Listed, Details
  <2>2. Selected(r, m) \subseteq Selected(r, n) /\ Selected(r, n) \subseteq Rows(r, n)
    BY <1>1, <2>1 DEF Selected
  <2>3. /\ Cardinality(Selected(r, m)) \in Nat /\ Cardinality(Selected(r, n)) \in Nat
        /\ Cardinality(Selected(r, m)) <= Cardinality(Selected(r, n))
    BY <1>2, <2>2, FS_Subset, FS_CardinalityType
  <2> QED
    BY <1>4, <2>3 DEF TotalCount
<1> QED
  BY <1>3, <1>4

(* The same, in every state: so in the next one too.                       *)
CountsGrow ==
  \A r : r.kind \in Paged => \A m, n \in Nat : m <= n =>
    /\ TotalCount(r, m) \in Nat /\ TotalCount(r, n) \in Nat
    /\ TotalCount(r, m) <= TotalCount(r, n)

LEMMA CountsGrowNow == CountsGrow
BY CountGrows DEF CountsGrow

LEMMA CountsGrowNext == CountsGrow'
BY CountsGrowNow, PTL
----------------------------------------------------------------------------
LEMMA InitTypeTable == Init => TypeTable
<1> SUFFICES ASSUME Init PROVE TypeTable
  OBVIOUS
<1>1. table \in Seq(TableRows) /\ Len(table) = 0
  BY EmptySeq DEF Init
<1>2. NoRequest \in RequestType
  BY DEF NoRequest, Kinds, RequestType
<1> QED
  BY <1>1, <1>2 DEF Init, TypeTable

(* Insert adds a row of the table's type.                                  *)
LEMMA InsertAppends ==
  ASSUME TypeTable, Insert
  PROVE  \E row \in TableRows : table' = Append(table, row)
<1>1. PICK d \in Samples, t \in 0 .. clock :
        table' = Append(table, [of |-> d.of, server |-> d.server, time |-> t,
                                score |-> d.score, alarms |-> d.alarms])
  BY DEF Insert
<1>2. [of |-> d.of, server |-> d.server, time |-> t, score |-> d.score, alarms |-> d.alarms]
        \in TableRows
  BY SamplesAssumption DEF TableRows, TypeTable
<1> QED
  BY <1>1, <1>2

(* Every step of a query is one of these.                                  *)
LEMMA QuerySteps ==
  ASSUME NEW q, QueryServer(q) \/ QueryDetail(q)
  PROVE  Lock(q) \/ Count(q) \/ Fetch(q)
BY DEF QueryServer, QueryDetail, QueryPerformance, QueryTrend, QueryAnomaly,
   QueryScoreRank, QueryLatestScore, QueryNetDetail, QueryDiskDetail, QueryMemDetail,
   QuerySoftIrqDetail, Query, Serve

LEMMA NextKeepsTypeTable == TypeTable /\ [Next]_vars => TypeTable'
<1> SUFFICES ASSUME TypeTable, [Next]_vars
             PROVE  TypeTable'
  OBVIOUS
<1>1. Len(table) \in Nat
  BY LenProperties DEF TypeTable
<1> USE DEF TypeTable
<1>2. CASE UNCHANGED vars \/ InitConnects \/ InitFails \/ LoseConnection
  BY <1>2 DEF vars, callVars, InitConnects, InitFails, LoseConnection
<1>3. CASE Tick
  BY <1>3 DEF Tick, callVars
<1>4. CASE Insert
  <2>1. PICK row \in TableRows : table' = Append(table, row)
    BY <1>4, InsertAppends
  <2>2. table' \in Seq(TableRows) /\ Len(table') = Len(table) + 1
    BY <2>1, AppendProperties
  <2>3. \A q \in Queriers : since[q] <= Len(table') /\ until[q] <= Len(table')
    BY <1>1, <2>2
  <2>4. UNCHANGED <<clock, stage, callVars>>
    BY <1>4 DEF Insert
  <2> QED
    BY <2>2, <2>3, <2>4 DEF callVars
<1>5. ASSUME NEW q \in Queriers, Call(q)
      PROVE  TypeTable'
  <2>1. PICK r \in Requests :
          /\ req' = [req EXCEPT ![q] = Normalised(r)]
          /\ IF Accepts(r)
             THEN stage' = [stage EXCEPT ![q] = "called"] /\ UNCHANGED status
             ELSE /\ stage' = [stage EXCEPT ![q] = "answered"]
                  /\ status' = [status EXCEPT ![q] = "INVALID_ARGUMENT"]
    BY <1>5 DEF Call
  <2>2. Normalised(r) \in RequestType
    <3>1. r \in RequestType
      BY RequestsAssumption, LimitsAssumption DEF RequestType, Ints
    <3>2. /\ (IF r.page < 1 THEN 1 ELSE r.page) \in Int
          /\ (IF r.page_size < 1 THEN DefaultPageSize ELSE r.page_size) \in Int
      BY <3>1, LimitsAssumption DEF RequestType
    <3> QED
      BY <3>1, <3>2 DEF RequestType, Normalised
  <2>3. /\ UNCHANGED <<table, clock, total, sound>>
        /\ since' = [since EXCEPT ![q] = Len(table)]
        /\ until' = [until EXCEPT ![q] = Len(table)]
    BY <1>5 DEF Call
  <2>4. /\ since' \in [Queriers -> Nat] /\ until' \in [Queriers -> Nat]
        /\ \A v \in Queriers : since'[v] <= Len(table) /\ until'[v] <= Len(table)
    BY <1>1, <2>3
  <2>5. req' \in [Queriers -> RequestType]
    BY <2>1, <2>2
  <2>6. /\ stage' \in [Queriers -> {"idle", "called", "count", "fetch", "answered"}]
        /\ status' \in [Queriers -> {"none", "OK", "INVALID_ARGUMENT"}]
    BY <2>1
  <2>7. \A v \in Queriers : stage'[v] = "count" => req'[v].kind \in Paged
    <3>1. stage'[q] # "count" /\ \A v \in Queriers : v # q => stage'[v] = stage[v] /\ req'[v] = req[v]
      BY <2>1
    <3> QED
      BY <3>1
  <2> QED
    BY <2>3, <2>4, <2>5, <2>6, <2>7
<1>6. ASSUME NEW q \in Queriers, Lock(q)
      PROVE  TypeTable'
  <2>1. UNCHANGED <<table, clock, req, since, until>>
    BY <1>6 DEF Lock
  <2>2. CASE initialized_
    BY <1>6, <2>1, <2>2 DEF Lock
  <2>3. CASE ~initialized_
    <3>1. /\ stage' = [stage EXCEPT ![q] = "answered"]
          /\ status' = [status EXCEPT ![q] = "OK"]
          /\ total' = [total EXCEPT ![q] = 0]
          /\ sound' = [sound EXCEPT ![q] = FALSE]
      BY <1>6, <2>3 DEF Lock
    <3>2. /\ stage' \in [Queriers -> {"idle", "called", "count", "fetch", "answered"}]
          /\ \A v \in Queriers : stage'[v] = "count" => req[v].kind \in Paged
      BY <3>1
    <3> QED
      BY <2>1, <3>1, <3>2
  <2> QED
    BY <2>2, <2>3
<1>7. ASSUME NEW q \in Queriers, Count(q)
      PROVE  TypeTable'
  <2>1. TotalCount(req[q], Len(table)) \in Nat
    BY <1>1, <1>7, CountGrows DEF Count
  <2> QED
    BY <1>7, <2>1 DEF Count
<1>8. ASSUME NEW q \in Queriers, Fetch(q)
      PROVE  TypeTable'
  BY <1>1, <1>8 DEF Fetch
<1>9. ASSUME NEW q \in Queriers, NextPage(q)
      PROVE  TypeTable'
  <2>1. [req[q] EXCEPT !.page = @ + 1] \in RequestType
    <3>1. req[q] \in RequestType
      OBVIOUS
    <3>2. req[q].page + 1 \in Int
      BY <3>1 DEF RequestType
    <3> QED
      BY <3>1, <3>2 DEF RequestType
  <2>2. req' = [req EXCEPT ![q] = [req[q] EXCEPT !.page = @ + 1]]
    BY <1>9 DEF NextPage
  <2>3. /\ UNCHANGED <<table, clock, total, sound, until>>
        /\ stage' = [stage EXCEPT ![q] = "called"]
        /\ status' = [status EXCEPT ![q] = "none"]
        /\ since' = [since EXCEPT ![q] = Len(table)]
    BY <1>9 DEF NextPage
  <2>4. /\ since' \in [Queriers -> Nat]
        /\ \A v \in Queriers : since'[v] <= Len(table)
    BY <1>1, <2>3
  <2>5. req' \in [Queriers -> RequestType]
    BY <2>1, <2>2
  <2>6. \A v \in Queriers : stage'[v] = "count" => req'[v].kind \in Paged
    BY <2>2, <2>3
  <2> QED
    BY <2>3, <2>4, <2>5, <2>6
<1>10. ASSUME NEW q \in Queriers, QueryServer(q) \/ QueryDetail(q)
       PROVE  Lock(q) \/ Count(q) \/ Fetch(q)
  BY <1>10, QuerySteps
<1> QED
  BY <1>2, <1>3, <1>4, <1>5, <1>6, <1>7, <1>8, <1>9, <1>10 DEF Next
----------------------------------------------------------------------------
(* The count of a page lies between the rows there were when the page was  *)
(* asked for and those there are, or were when the page was read.          *)
TotalInv ==
  \A q \in Queriers : sound[q] /\ req[q].kind \in Paged =>
    /\ stage[q] = "fetch" =>
         total[q] \in TotalCount(req[q], since[q]) .. TotalCount(req[q], Len(table))
    /\ stage[q] = "answered" /\ status[q] = "OK" =>
         total[q] \in TotalCount(req[q], since[q]) .. TotalCount(req[q], until[q])

(* A querier that is not concerned by a step that adds no row.             *)
LEMMA OthersKeepTotal ==
  ASSUME TotalInv, NEW v \in Queriers, table' = table,
         stage'[v] = stage[v], status'[v] = status[v], sound'[v] = sound[v],
         req'[v] = req[v], total'[v] = total[v], since'[v] = since[v], until'[v] = until[v],
         sound'[v], req'[v].kind \in Paged
  PROVE  /\ stage'[v] = "fetch" =>
              total'[v] \in TotalCount(req[v], since[v])' .. TotalCount(req[v], Len(table))'
         /\ stage'[v] = "answered" /\ status'[v] = "OK" =>
              total'[v] \in TotalCount(req[v], since[v])' .. TotalCount(req[v], until[v])'
<1>1. /\ TotalCount(req[v], since[v])' = TotalCount(req[v], since[v])
      /\ TotalCount(req[v], until[v])' = TotalCount(req[v], until[v])
      /\ TotalCount(req[v], Len(table))' = TotalCount(req[v], Len(table))
  BY DEF TotalCount, Selected, Rows, Time
<1> QED
  BY <1>1 DEF TotalInv

(* An insertion comes between the statements of a page.                    *)
LEMMA InsertKeepsTotal ==
  ASSUME TypeTable, TotalInv, Insert
  PROVE  TotalInv'
<1>1. PICK row \in TableRows : table' = Append(table, row)
  BY InsertAppends
<1>2. UNCHANGED <<stage, status, sound, req, total, since, until>>
  BY DEF Insert, callVars
<1>3. Len(table) \in Nat /\ Len(table') = Len(table) + 1
  BY <1>1, AppendProperties, LenProperties DEF TypeTable
<1> SUFFICES ASSUME NEW q \in Queriers, sound[q], req[q].kind \in Paged
             PROVE  /\ stage[q] = "fetch" =>
                         total[q] \in TotalCount(req[q], since[q])' .. TotalCount(req[q], Len(table))'
                    /\ stage[q] = "answered" /\ status[q] = "OK" =>
                         total[q] \in TotalCount(req[q], since[q])' .. TotalCount(req[q], until[q])'
  BY <1>2 DEF TotalInv
<1>4. PICK r, a, b, m : r = req[q] /\ a = since[q] /\ b = until[q] /\ m = Len(table)
  OBVIOUS
<1>5. /\ a \in Nat /\ b \in Nat /\ m \in Nat /\ a <= Len(table) /\ b <= Len(table)
      /\ m <= Len(table) /\ r.kind \in Paged /\ total[q] \in Nat
  BY <1>3, <1>4 DEF TypeTable
<1>6. /\ TotalCount(r, a)' = TotalCount(r, a)
      /\ TotalCount(r, b)' = TotalCount(r, b)
      /\ TotalCount(r, m)' = TotalCount(r, m)
  BY <1>1, <1>5, RowsGrowBehind
<1>7. TotalCount(r, a) \in Nat /\ TotalCount(r, b) \in Nat /\ TotalCount(r, m) \in Nat
  BY <1>5, CountGrows
<1>8. TotalCount(r, m)' \in Nat /\ TotalCount(r, m + 1)' \in Nat
      /\ TotalCount(r, m)' <= TotalCount(r, m + 1)'
  <2>1. \A s : s.kind \in Paged => \A k, l \in Nat : k <= l =>
          /\ TotalCount(s, k)' \in Nat /\ TotalCount(s, l)' \in Nat
          /\ TotalCount(s, k)' <= TotalCount(s, l)'
    BY CountsGrowNext, Zenon DEF CountsGrow
  <2>2. r.kind \in Paged /\ m \in Nat /\ m + 1 \in Nat /\ m <= m + 1
    BY <1>5
  <2> QED
    BY <2>1, <2>2, Zenon
<1>9. /\ TotalCount(req[q], since[q])' = TotalCount(r, a)'
      /\ TotalCount(req[q], until[q])' = TotalCount(r, b)'
      /\ TotalCount(req[q], Len(table))' = TotalCount(r, m + 1)'
  BY <1>2, <1>3, <1>4 DEF TotalCount, Selected, Rows, Time
<1>10. stage[q] = "fetch" => total[q] \in TotalCount(r, a) .. TotalCount(r, m)
  BY <1>4 DEF TotalInv
<1>11. stage[q] = "answered" /\ status[q] = "OK" => total[q] \in TotalCount(r, a) .. TotalCount(r, b)
  BY <1>4 DEF TotalInv
<1> QED
  BY <1>5, <1>6, <1>7, <1>8, <1>9, <1>10, <1>11
----------------------------------------------------------------------------
LEMMA InitTotalInv == Init => TotalInv
BY DEF Init, TotalInv

(* A step that adds none.                                                  *)
LEMMA NoRowKeepsTotal ==
  ASSUME TypeTable, TotalInv, [Next]_vars, table' = table
  PROVE  TotalInv'
<1> SUFFICES ASSUME NEW v \in Queriers, sound'[v], req'[v].kind \in Paged
             PROVE  /\ stage'[v] = "fetch" =>
                         total'[v] \in TotalCount(req[v], since[v])' .. TotalCount(req[v], Len(table))'
                    /\ stage'[v] = "answered" /\ status'[v] = "OK" =>
                         total'[v] \in TotalCount(req[v], since[v])' .. TotalCount(req[v], until[v])'
  BY DEF TotalInv
<1>2. stage[v] = "count" => req[v].kind \in Paged
  BY DEF TypeTable
<1>3. CASE UNCHANGED <<stage, callVars>>
  BY <1>3, OthersKeepTotal DEF callVars
<1>4. ASSUME NEW q \in Queriers, q # v, Call(q) \/ Lock(q) \/ Count(q) \/ Fetch(q) \/ NextPage(q)
      PROVE  /\ stage'[v] = stage[v] /\ status'[v] = status[v] /\ sound'[v] = sound[v]
             /\ req'[v] = req[v] /\ total'[v] = total[v] /\ since'[v] = since[v]
             /\ until'[v] = until[v]
  BY <1>4 DEF TypeTable, Call, Lock, Count, Fetch, NextPage
<1>5. CASE \E q \in Queriers : q # v /\ (Call(q) \/ Lock(q) \/ Count(q) \/ Fetch(q) \/ NextPage(q))
  BY <1>4, <1>5, OthersKeepTotal
(* A refused or unanswered call has no count; a new page has none yet.     *)
<1>6. CASE Call(v)
  BY <1>6 DEF Call, TypeTable
<1>7. CASE Lock(v)
  BY <1>7 DEF Lock, TypeTable
<1>8. CASE NextPage(v)
  BY <1>8 DEF NextPage, TypeTable
(* The count is that of the rows there are now, of which those there were  *)
(* at the call are the first.                                              *)
<1>9. PICK r, a, b, n : r = req[v] /\ a = since[v] /\ b = total[v] /\ n = Len(table)
  OBVIOUS
<1>10. a \in Nat /\ n \in Nat /\ a <= n
  BY <1>9, LenProperties DEF TypeTable
<1>11. \A k \in Nat : TotalCount(r, k)' = TotalCount(r, k)
  BY DEF TotalCount, Selected, Rows, Time
<1>12. CASE Count(v)
  <2>1. /\ stage'[v] = "fetch" /\ sound[v] /\ conn_ = "up"
        /\ total'[v] = TotalCount(r, n) /\ req'[v] = r /\ since'[v] = a
    BY <1>9, <1>12 DEF Count, TypeTable
  <2>2. r.kind \in Paged
    BY <2>1
  <2>3. TotalCount(r, a) \in Nat /\ TotalCount(r, n) \in Nat /\ TotalCount(r, a) <= TotalCount(r, n)
    BY <1>10, <2>2, CountGrows
  <2>4. /\ TotalCount(req[v], since[v])' = TotalCount(r, a)
        /\ TotalCount(req[v], Len(table))' = TotalCount(r, n)
    BY <1>9, <2>1 DEF TotalCount, Selected, Rows, Time
  <2> QED
    BY <2>1, <2>3, <2>4
(* The page is read from the rows there are now.                           *)
<1>13. CASE Fetch(v)
  <2>1. /\ stage[v] = "fetch" /\ stage'[v] = "answered" /\ sound[v]
        /\ total'[v] = b /\ req'[v] = r /\ since'[v] = a /\ until'[v] = n
    BY <1>9, <1>13 DEF Fetch, TypeTable
  <2>2. b \in TotalCount(r, a) .. TotalCount(r, n)
    BY <1>9, <2>1 DEF TotalInv
  <2>3. /\ TotalCount(req[v], since[v])' = TotalCount(r, a)
        /\ TotalCount(req[v], until[v])' = TotalCount(r, n)
    BY <2>1 DEF TotalCount, Selected, Rows, Time
  <2> QED
    BY <2>1, <2>2, <2>3
<1> QED
  <2>1. CASE UNCHANGED vars \/ InitConnects \/ InitFails \/ LoseConnection \/ Tick
    <3>1. UNCHANGED <<stage, callVars>>
      BY <2>1 DEF vars, InitConnects, InitFails, LoseConnection, Tick
    <3> QED
      BY <1>3, <3>1
  <2>2. CASE \E q \in Queriers : Call(q) \/ Lock(q) \/ Count(q) \/ Fetch(q) \/ NextPage(q)
    BY <1>5, <1>6, <1>7, <1>8, <1>12, <1>13, <2>2
  <2>3. CASE Insert
    <3>1. UNCHANGED <<stage, callVars>>
      BY <2>3 DEF Insert
    <3> QED
      BY <1>3, <3>1
  <2>4. ASSUME NEW q \in Queriers, QueryServer(q) \/ QueryDetail(q)
        PROVE  Lock(q) \/ Count(q) \/ Fetch(q)
    BY <2>4, QuerySteps
  <2> QED
    BY <2>1, <2>2, <2>3, <2>4 DEF Next

LEMMA NextKeepsTotalInv ==
  ASSUME TypeTable, TotalInv, [Next]_vars
  PROVE  TotalInv'
<1>1. CASE Insert
  BY <1>1, InsertKeepsTotal
<1>2. CASE UNCHANGED vars \/ InitConnects \/ InitFails \/ LoseConnection \/ Tick
  <2>1. table' = table
    BY <1>2 DEF vars, InitConnects, InitFails, LoseConnection, Tick
  <2> QED
    BY <2>1, NoRowKeepsTotal
<1>3. CASE \E q \in Queriers : Call(q) \/ Lock(q) \/ Count(q) \/ Fetch(q) \/ NextPage(q)
  <2>1. table' = table
    BY <1>3 DEF Call, Lock, Count, Fetch, NextPage
  <2> QED
    BY <2>1, NoRowKeepsTotal
<1> QED
  BY <1>1, <1>2, <1>3, QuerySteps DEF Next

(* The count and the page of an answer come from two statements, and other *)
(* threads insert rows before, between and after them: still the count is  *)
(* never less than the rows there were at the call, nor more than those    *)
(* there were when the page was read (GetTotalCount and the queries of     *)
(* query_manager.cpp), for any number of threads, requests and rows.       *)
THEOREM TotalCorrect == Spec => []TotalIsBracketed
<1>1. Init => TypeTable /\ TotalInv
  BY InitTypeTable, InitTotalInv
<1>2. TypeTable /\ TotalInv /\ [Next]_vars => TypeTable' /\ TotalInv'
  BY NextKeepsTypeTable, NextKeepsTotalInv
<1>3. TotalInv => TotalIsBracketed
  BY DEF TotalInv, TotalIsBracketed
<1> QED
  BY <1>1, <1>2, <1>3, PTL DEF Spec
----------------------------------------------------------------------------
(* What a statement returns.                                               *)

(* The rows of a request are rows of the table, with their types.          *)
LEMMA RowTypes ==
  ASSUME TypeTable, NEW m \in Nat, m <= Len(table), NEW r
  PROVE  /\ Selected(r, m) \subseteq Rows(r, m) /\ Rows(r, m) \subseteq 1 .. m
         /\ IsFiniteSet(Rows(r, m)) /\ IsFiniteSet(Selected(r, m))
         /\ Cardinality(Selected(r, m)) \in Nat
         /\ \A n \in 1 .. m : table[n] \in TableRows /\ Time(n) \in Nat
<1>1. Selected(r, m) \subseteq Rows(r, m) /\ Rows(r, m) \subseteq 1 .. m
  BY DEF Selected, Rows
<1>2. IsFiniteSet(1 .. m)
  BY FS_Interval
<1>3. \A n \in 1 .. m : table[n] \in TableRows
  BY LenProperties, ElementOfSeq DEF TypeTable
<1>4. \A n \in 1 .. m : Time(n) \in Nat
  BY <1>3 DEF Time, TableRows
<1>5. IsFiniteSet(Rows(r, m)) /\ IsFiniteSet(Selected(r, m))
  BY <1>1, <1>2, FS_Subset
<1> QED
  BY <1>1, <1>3, <1>4, <1>5, FS_CardinalityType

(* A statement with more rows to look at finds what it found before.       *)
LEMMA SelectedGrows ==
  ASSUME TypeTable, NEW r, r.kind \notin {"rank", "latest"},
         NEW m \in Nat, NEW n \in Nat, m <= n, n <= Len(table)
  PROVE  Selected(r, m) \subseteq Selected(r, n)
<1>1. Rows(r, m) \subseteq Rows(r, n)
  BY DEF Rows
<1> QED
  BY <1>1 DEF Selected

(* ORDER BY lists every row once.                                          *)
LEMMA OrderingIs ==
  ASSUME NEW r, NEW S, IsFiniteSet(S), NEW s \in Orderings(r, S)
  PROVE  /\ Len(s) = Cardinality(S) /\ Len(s) \in Nat /\ DOMAIN s = 1 .. Len(s)
         /\ s \in [1 .. Len(s) -> S]
         /\ \A i, j \in 1 .. Len(s) : i # j => s[i] # s[j]
         /\ \A x \in S : \E i \in 1 .. Len(s) : s[i] = x
         /\ \A i, j \in 1 .. Len(s) : i < j => InOrder(r, s[i], s[j])
<1> DEFINE n == Cardinality(S)
<1>1. n \in Nat
  BY FS_CardinalityType
<1>2. s \in [1 .. n -> S] /\ \A i, j \in 1 .. n : i # j => s[i] # s[j]
  BY DEF Orderings, SetToSeqs
<1> HIDE DEF n
<1>3. Len(s) = n /\ DOMAIN s = 1 .. n
  BY <1>1, <1>2
<1>4. s \in Injection(1 .. n, S)
  BY <1>2 DEF Injection, IsInjective
<1>5. Cardinality(1 .. n) = n
  BY <1>1, FS_Interval
<1>6. s \in Surjection(1 .. n, S)
  BY <1>4, <1>5, FS_Injection DEF n
<1>7. \A x \in S : \E i \in 1 .. n : s[i] = x
  BY <1>6 DEF Surjection
<1>8. \A i, j \in 1 .. n : i < j => InOrder(r, s[i], s[j])
  BY <1>3 DEF Orderings
<1> QED
  BY <1>1, <1>2, <1>3, <1>7, <1>8 DEF n

(* LIMIT and OFFSET.                                                       *)
Limit(r, N) == IF Offset(r) + r.page_size < N THEN r.page_size
               ELSE IF Offset(r) < N THEN N - Offset(r) ELSE 0

LEMMA PageIs ==
  ASSUME NEW r, r.kind \in Paged, NEW S, NEW N \in Nat, NEW s \in [1 .. N -> S],
         Offset(r) \in Nat, r.page_size \in Nat
  PROVE  /\ Limit(r, N) \in Nat
         /\ Page(r, s) = [i \in 1 .. Limit(r, N) |-> s[Offset(r) + i]]
         /\ \A i \in 1 .. Limit(r, N) : Offset(r) + i \in 1 .. N
<1>1. PICK o, p, k : o = Offset(r) /\ p = r.page_size /\ k = Limit(r, N)
  OBVIOUS
<1>2. /\ o \in Nat /\ p \in Nat /\ Len(s) = N
      /\ k = IF o + p < N THEN p ELSE IF o < N THEN N - o ELSE 0
  BY <1>1 DEF Limit
<1>3. k \in Nat /\ \A i \in 1 .. k : o + i \in 1 .. N
  BY <1>2
<1>4. Page(r, s) = SubSeq(s, o + 1, IF o + p < N THEN o + p ELSE N)
  BY <1>1, <1>2 DEF Page
<1>5. PICK e : e = IF o + p < N THEN o + p ELSE N
  OBVIOUS
<1>6. e \in Nat /\ (k = IF o + 1 <= e THEN e - (o + 1) + 1 ELSE 0) /\ \A i \in o + 1 .. e : s[i] \in S
  BY <1>2, <1>5
<1>7. SubSeq(s, o + 1, e) = [i \in 1 .. k |-> s[o + i]]
  <2> DEFINE u == SubSeq(s, o + 1, e)
  <2>1. /\ u \in Seq(S) /\ Len(u) = k
        /\ \A i \in 1 .. e - (o + 1) + 1 : u[i] = s[(o + 1) + i - 1]
    BY <1>2, <1>6, SubSeqProperties
  <2>2. u = [i \in 1 .. k |-> u[i]]
    BY <2>1, LenProperties
  <2> HIDE DEF u
  <2>3. \A i \in 1 .. k : u[i] = s[o + i]
    BY <1>2, <1>3, <1>6, <2>1
  <2>4. u = [i \in 1 .. k |-> s[o + i]]
    BY <2>2, <2>3
  <2> QED
    BY <2>4 DEF u
<1> QED
  BY <1>1, <1>3, <1>4, <1>5, <1>7

(* The records of a row are about that row; there are some unless the      *)
(* request is for anomalies and the row has none.                          *)
LEMMA RecordsOfIs ==
  ASSUME TypeTable, Len(table) <= MaxRows, NEW r, NEW n \in 1 .. Len(table)
  PROVE  /\ RecordsOf(r, n) \in Seq(Record)
         /\ \A rec \in ToSet(RecordsOf(r, n)) : rec.rows = {n}
         /\ (r.kind = "anomaly" => table[n].alarms # {}) => ToSet(RecordsOf(r, n)) # {}
<1> DEFINE Rec(tag) == [rows |-> {n}, tag |-> tag]
           Alarm(metric) == IF metric \in table[n].alarms THEN <<Rec(metric)>> ELSE <<>>
<1>1. MaxRows \in Nat /\ Len(table) \in Nat /\ n \in 1 .. MaxRows
  BY LimitsAssumption, LenProperties DEF TypeTable
<1>2. \A tag \in {"", "ONLINE", "OFFLINE"} \cup ToSet(MetricOrder) : Rec(tag) \in Record
  BY <1>1 DEF Record
<1>3. DOMAIN MetricOrder = 1 .. 5 /\ ToSet(MetricOrder) = {MetricOrder[i] : i \in 1 .. 5}
  BY DEF MetricOrder, ToSet
<1>4. CASE r.kind = "anomaly"
  <2> DEFINE ss == [i \in 1 .. 5 |-> Alarm(MetricOrder[i])]
  <2>1. RecordsOf(r, n) = FlattenSeq(ss)
    BY <1>3, <1>4 DEF RecordsOf
  <2>2. \A i \in 1 .. 5 : ss[i] = IF MetricOrder[i] \in table[n].alarms
                                  THEN <<Rec(MetricOrder[i])>> ELSE <<>>
    OBVIOUS
  <2>3. \A i \in 1 .. 5 : Rec(MetricOrder[i]) \in Record
    BY <1>2, <1>3
  <2>4. ss \in [1 .. 5 -> Seq(Record)]
    <3> HIDE DEF Rec
    <3> QED
      BY <2>2, <2>3
  <2> HIDE DEF ss
  <2>5. /\ FlattenSeq(ss) \in Seq(Record)
        /\ \A x : x \in ToSet(FlattenSeq(ss)) <=> \E i \in 1 .. 5 : x \in ToSet(ss[i])
    BY <2>4, FlattenType, FlattenRange
  <2>6. \A i \in 1 .. 5 : ToSet(ss[i]) = IF MetricOrder[i] \in table[n].alarms
                                         THEN {Rec(MetricOrder[i])} ELSE {}
    <3> HIDE DEF Rec
    <3> QED
      BY <2>2 DEF ToSet
  <2>7. \A rec \in ToSet(FlattenSeq(ss)) : rec.rows = {n}
    BY <2>5, <2>6
  <2>8. table[n].alarms # {} => ToSet(FlattenSeq(ss)) # {}
    <3> SUFFICES ASSUME table[n].alarms # {} PROVE ToSet(FlattenSeq(ss)) # {}
      OBVIOUS
    <3>1. table[n] \in TableRows
      BY LenProperties, ElementOfSeq DEF TypeTable
    <3>2. table[n].alarms \subseteq {MetricOrder[i] : i \in 1 .. 5}
      BY <1>3, <3>1 DEF TableRows
    <3>3. PICK i \in 1 .. 5 : MetricOrder[i] \in table[n].alarms
      BY <3>2
    <3>4. Rec(MetricOrder[i]) \in ToSet(ss[i])
      BY <2>6, <3>3
    <3> QED
      BY <2>5, <3>4
  <2> QED
    BY <1>4, <2>1, <2>5, <2>7, <2>8
<1>5. CASE r.kind # "anomaly"
  <2>1. PICK tag : /\ RecordsOf(r, n) = <<Rec(tag)>>
                   /\ tag \in {"", "ONLINE", "OFFLINE"} \cup ToSet(MetricOrder)
    <3>1. CASE r.kind \in {"rank", "latest"}
      BY <1>5, <3>1 DEF RecordsOf, OnlineStatus
    <3>2. CASE r.kind \notin {"rank", "latest"}
      BY <1>5, <3>2 DEF RecordsOf
    <3> QED
      BY <3>1, <3>2
  <2>2. Rec(tag) \in Record /\ Rec(tag).rows = {n}
    BY <1>2, <2>1
  <2> HIDE DEF Rec
  <2>3. ToSet(<<Rec(tag)>>) = {Rec(tag)} /\ <<Rec(tag)>> \in Seq(Record)
    BY <2>2 DEF ToSet
  <2> QED
    BY <1>5, <2>1, <2>2, <2>3
<1> QED
  BY <1>4, <1>5
----------------------------------------------------------------------------
(* A trend of buckets. CHOOSE has a list to choose: the buckets below any  *)
(* key can be listed in order.                                             *)
Group(S, B, n) == {m \in S : B[m] = B[n]}

Sorted(S, B, k, s) ==
  /\ s \in Seq(SUBSET S)
  /\ \A x : x \in ToSet(s) <=> \E n \in S : B[n] < k /\ x = Group(S, B, n)
  /\ \A i, j \in 1 .. Len(s) : i < j => \A a \in s[i], b \in s[j] : B[a] < B[b]

LEMMA GroupsSorted ==
  ASSUME NEW S, NEW B \in [S -> Nat], NEW k \in Nat
  PROVE  \E s : Sorted(S, B, k, s)
<1> DEFINE T == {l \in Nat : \E s : Sorted(S, B, l, s)}
<1>1. 0 \in T
  <2>1. Sorted(S, B, 0, <<>>)
    BY DEF Sorted, ToSet
  <2> QED
    BY <2>1
<1>2. ASSUME NEW l \in Nat, l \in T PROVE l + 1 \in T
  <2>1. PICK s : Sorted(S, B, l, s)
    BY <1>2
  <2>a. Len(s) \in Nat /\ s \in Seq(SUBSET S) /\ DOMAIN s = 1 .. Len(s)
    BY <2>1, LenProperties DEF Sorted
  <2>2. CASE \A n \in S : B[n] # l
    <3>1. \A n \in S : B[n] < l <=> B[n] < l + 1
      BY <2>2
    <3>2. Sorted(S, B, l + 1, s)
      BY <2>1, <3>1 DEF Sorted
    <3> QED
      BY <3>2
  <2>3. CASE \E n \in S : B[n] = l
    <3>1. PICK n \in S : B[n] = l
      BY <2>3
    <3> DEFINE g == Group(S, B, n)
               t == Append(s, g)
    <3>2. g \in SUBSET S /\ \A a \in g : a \in S /\ B[a] = l
      BY <3>1 DEF Group
    <3>3. \A i \in 1 .. Len(s) : \A a \in s[i] : B[a] < l
      <4> SUFFICES ASSUME NEW i \in 1 .. Len(s), NEW a \in s[i] PROVE B[a] < l
        OBVIOUS
      <4>1. s[i] \in ToSet(s)
        BY <2>a DEF ToSet
      <4>2. PICK m \in S : B[m] < l /\ s[i] = Group(S, B, m)
        BY <2>1, <4>1 DEF Sorted
      <4> QED
        BY <4>2 DEF Group
    <3> HIDE DEF g
    <3>4. /\ t \in Seq(SUBSET S) /\ Len(t) = Len(s) + 1 /\ t[Len(s) + 1] = g
          /\ \A i \in 1 .. Len(s) : t[i] = s[i]
      BY <2>a, <3>2, AppendProperties
    <3> HIDE DEF t
    <3>5. \A i, j \in 1 .. Len(t) : i < j => \A a \in t[i], b \in t[j] : B[a] < B[b]
      <4> SUFFICES ASSUME NEW i \in 1 .. Len(t), NEW j \in 1 .. Len(t), i < j,
                          NEW a \in t[i], NEW b \in t[j]
                   PROVE  B[a] < B[b]
        OBVIOUS
      <4>1. i \in 1 .. Len(s) /\ t[i] = s[i]
        BY <2>a, <3>4
      <4>2. CASE j \in 1 .. Len(s)
        BY <2>1, <3>4, <4>1, <4>2 DEF Sorted
      <4>3. CASE j = Len(s) + 1
        BY <3>2, <3>3, <3>4, <4>1, <4>3
      <4> QED
        BY <2>a, <3>4, <4>2, <4>3
    <3>6. \A x : x \in ToSet(t) <=> x \in ToSet(s) \/ x = g
      <4>1. DOMAIN t = 1 .. Len(s) + 1
        BY <3>4, LenProperties
      <4>2. ToSet(t) = {t[i] : i \in 1 .. Len(s) + 1} /\ ToSet(s) = {s[i] : i \in 1 .. Len(s)}
        BY <2>a, <4>1 DEF ToSet
      <4>3. 1 .. Len(s) \subseteq 1 .. Len(s) + 1 /\ Len(s) + 1 \in 1 .. Len(s) + 1
            /\ \A i \in 1 .. Len(s) + 1 : i \in 1 .. Len(s) \/ i = Len(s) + 1
        BY <2>a
      <4> QED
        BY <3>4, <4>2, <4>3
    <3>7. \A x : (\E m \in S : B[m] < l + 1 /\ x = Group(S, B, m)) <=>
                   (\E m \in S : B[m] < l /\ x = Group(S, B, m)) \/ x = g
      <4>1. \A m \in S : B[m] = l => Group(S, B, m) = g
        BY <3>1 DEF Group, g
      <4>2. \A m \in S : B[m] < l + 1 <=> B[m] < l \/ B[m] = l
        OBVIOUS
      <4>3. g = Group(S, B, n)
        BY DEF g
      <4> QED
        BY <3>1, <4>1, <4>2, <4>3
    <3>8. \A x : x \in ToSet(s) <=> \E m \in S : B[m] < l /\ x = Group(S, B, m)
      BY <2>1 DEF Sorted
    <3>9. Sorted(S, B, l + 1, t)
      BY <3>4, <3>5, <3>6, <3>7, <3>8 DEF Sorted
    <3> QED
      BY <3>9
  <2> QED
    BY <2>2, <2>3
<1>3. k \in T
  <2> HIDE DEF T
  <2> QED
    BY <1>1, <1>2, Induct
<1> QED
  BY <1>3

(* A list without repetitions is one of the lists of its elements.         *)
LEMMA ListOfElements ==
  ASSUME NEW A, NEW s \in Seq(A), \A i, j \in 1 .. Len(s) : i # j => s[i] # s[j]
  PROVE  s \in SetToSeqs(ToSet(s)) /\ DOMAIN s = 1 .. Len(s) /\ Len(s) \in Nat
<1> DEFINE n == Len(s)
<1>1. n \in Nat /\ DOMAIN s = 1 .. n /\ ToSet(s) = {s[i] : i \in 1 .. n}
  BY LenProperties DEF ToSet
<1> HIDE DEF n
<1>2. s \in [1 .. n -> ToSet(s)]
  BY <1>1, LenProperties
<1>3. s \in Surjection(1 .. n, ToSet(s)) /\ s \in Injection(1 .. n, ToSet(s))
  BY <1>1, <1>2 DEF Surjection, Injection, IsInjective, n
<1>4. IsFiniteSet(1 .. n) /\ Cardinality(1 .. n) = n
  BY <1>1, FS_Interval
<1>5. Cardinality(ToSet(s)) = n
  BY <1>3, <1>4, FS_Surjection
<1>6. \A i, j \in 1 .. n : i # j => s[i] # s[j]
  BY DEF n
<1> QED
  BY <1>1, <1>2, <1>5, <1>6 DEF SetToSeqs, n

(* The buckets are non-empty, cover the rows, and ascend.                  *)
LEMMA BucketsIs ==
  ASSUME TypeTable, NEW r, r.interval \in Nat, r.interval > 0, NEW S, NEW k \in Nat,
         \A n \in S : Time(n) \in Nat /\ Time(n) < k
  PROVE  /\ Buckets(r, S) \in Seq(SUBSET S)
         /\ \A n \in S : \E i \in 1 .. Len(Buckets(r, S)) : n \in Buckets(r, S)[i]
         /\ \A i, j \in 1 .. Len(Buckets(r, S)) : i < j =>
              \A a \in Buckets(r, S)[i], b \in Buckets(r, S)[j] : Bucket(r, a) < Bucket(r, b)
<1> DEFINE B == [n \in S |-> Bucket(r, n)]
           groups == {{m \in S : Bucket(r, m) = Bucket(r, n)} : n \in S}
           Ascends(s) == \A i, j \in DOMAIN s :
             i < j => \A a \in s[i], b \in s[j] : Bucket(r, a) < Bucket(r, b)
<1>1. \A n \in S : Bucket(r, n) \in Nat /\ Bucket(r, n) < k
  <2> TAKE n \in S
  <2>1. PICK t, i : t = Time(n) /\ i = r.interval
    OBVIOUS
  <2>2. t \in Nat /\ i \in Nat /\ i > 0 /\ t < k
    BY <2>1
  <2>3. t \div i \in Nat /\ t \div i <= t
    BY <2>2
  <2> QED
    BY <2>1, <2>2, <2>3 DEF Bucket
<1>2. B \in [S -> Nat] /\ \A n \in S : B[n] = Bucket(r, n) /\ B[n] < k
  BY <1>1
<1> HIDE DEF B
<1>3. PICK s : Sorted(S, B, k, s)
  BY <1>2, GroupsSorted
<1>4. s \in Seq(SUBSET S) /\ Len(s) \in Nat /\ DOMAIN s = 1 .. Len(s)
  BY <1>3, LenProperties DEF Sorted
<1>5. ToSet(s) = groups
  <2>1. \A x : x \in ToSet(s) <=> \E n \in S : x = Group(S, B, n)
    BY <1>2, <1>3 DEF Sorted
  <2>2. \A n \in S : Group(S, B, n) = {m \in S : Bucket(r, m) = Bucket(r, n)}
    BY <1>2 DEF Group
  <2> QED
    BY <2>1, <2>2
<1>6. Ascends(s)
  BY <1>2, <1>3, <1>4 DEF Sorted
<1>7. s \in SetToSeqs(groups)
  <2>1. \A i \in 1 .. Len(s) : \E n \in S : n \in s[i] /\ B[n] \in Nat /\ ~ B[n] < B[n]
    <3> TAKE i \in 1 .. Len(s)
    <3>1. s[i] \in ToSet(s)
      BY <1>4 DEF ToSet
    <3>2. PICK n \in S : s[i] = Group(S, B, n)
      BY <1>3, <3>1 DEF Sorted
    <3> QED
      BY <1>2, <3>2 DEF Group
  <2>2. \A i, j \in 1 .. Len(s) : i < j => s[i] # s[j]
    BY <1>3, <2>1 DEF Sorted
  <2>3. \A i, j \in 1 .. Len(s) : i # j => i < j \/ j < i
    BY <1>4
  <2>4. \A i, j \in 1 .. Len(s) : i # j => s[i] # s[j]
    BY <2>2, <2>3
  <2> QED
    BY <1>4, <1>5, <2>4, ListOfElements
<1>8. Buckets(r, S) = CHOOSE t \in SetToSeqs(groups) : Ascends(t)
  BY DEF Buckets
<1> HIDE DEF groups, Ascends
<1>9. PICK t : t = Buckets(r, S)
  OBVIOUS
<1>10. t \in SetToSeqs(groups) /\ Ascends(t)
  BY <1>6, <1>7, <1>8, <1>9
<1>11. IsFiniteSet(groups)
  <2>1. s \in Surjection(1 .. Len(s), groups)
    BY <1>4, <1>5 DEF Surjection, ToSet
  <2> QED
    BY <1>4, <2>1, FS_Interval, FS_Surjection
<1> DEFINE n == Cardinality(groups)
<1>12. /\ n \in Nat /\ t \in [1 .. n -> groups]
       /\ \A i, j \in 1 .. n : i # j => t[i] # t[j]
  BY <1>10, <1>11, FS_CardinalityType DEF SetToSeqs
<1> HIDE DEF n
<1>13. groups \subseteq SUBSET S
  BY DEF groups
<1>14. t \in Seq(SUBSET S) /\ Len(t) = n /\ DOMAIN t = 1 .. n
  <2>1. t \in Seq(groups) /\ Len(t) = n /\ DOMAIN t = 1 .. n
    BY <1>12
  <2>2. \A i \in 1 .. n : t[i] \in SUBSET S
    BY <1>12, <1>13
  <2>3. t \in [1 .. n -> SUBSET S]
    BY <1>12, <2>2
  <2> QED
    BY <1>12, <2>1, <2>3
<1>15. \A g \in groups : \E i \in 1 .. n : t[i] = g
  <2>1. t \in Injection(1 .. n, groups)
    BY <1>12 DEF Injection, IsInjective
  <2>2. IsFiniteSet(1 .. n) /\ Cardinality(1 .. n) = n
    BY <1>12, FS_Interval
  <2>3. t \in Surjection(1 .. n, groups)
    BY <1>11, <2>1, <2>2, FS_Injection DEF n
  <2> QED
    BY <2>3 DEF Surjection
<1>16. \A m \in S : \E i \in 1 .. n : m \in t[i]
  <2> TAKE m \in S
  <2>1. {l \in S : Bucket(r, l) = Bucket(r, m)} \in groups
    BY DEF groups
  <2>2. PICK i \in 1 .. n : t[i] = {l \in S : Bucket(r, l) = Bucket(r, m)}
    BY <1>15, <2>1
  <2> QED
    BY <2>2
<1> QED
  BY <1>9, <1>10, <1>14, <1>16 DEF Ascends
----------------------------------------------------------------------------
(* Answers.                                                                *)

(* An answer that is not a trend of buckets lists the records of its page, *)
(* or of all rows when it has no pages.                                    *)
PageOf(r, s, o, k, answer) ==
  /\ r.kind \in Paged => o = Offset(r) /\ k = Limit(r, Len(s))
  /\ r.kind \notin Paged => o = 0 /\ k = Len(s)
  /\ \A i \in 1 .. k : o + i \in 1 .. Len(s)
  /\ [i \in 1 .. k |-> RecordsOf(r, s[o + i])] \in [1 .. k -> Seq(Record)]
  /\ answer = FlattenSeq([i \in 1 .. k |-> RecordsOf(r, s[o + i])])

LEMMA AnswerIs ==
  ASSUME TypeTable, Len(table) <= MaxRows, NEW r, ~ (r.kind = "trend" /\ r.interval > 0),
         r.kind \in Paged => Offset(r) \in Nat /\ r.page_size \in Nat,
         NEW answer \in Answers(r)
  PROVE  \E s \in Orderings(r, Selected(r, Len(table))) : \E o, k \in Nat : PageOf(r, s, o, k, answer)
<1> DEFINE S == Selected(r, Len(table))
<1>1. PICK s \in Orderings(r, S) :
        answer = FlattenSeq([i \in DOMAIN Page(r, s) |-> RecordsOf(r, Page(r, s)[i])])
  BY DEF Answers
<1>2. Len(table) \in Nat
  BY LenProperties DEF TypeTable
<1>3. IsFiniteSet(S) /\ S \subseteq 1 .. Len(table)
  BY <1>2, RowTypes
<1> HIDE DEF S
<1>4. Len(s) \in Nat /\ s \in [1 .. Len(s) -> S]
  BY <1>3, OrderingIs
<1>5. PICK o \in Nat, k \in Nat :
        /\ r.kind \in Paged => o = Offset(r) /\ k = Limit(r, Len(s))
        /\ r.kind \notin Paged => o = 0 /\ k = Len(s)
        /\ Page(r, s) = [i \in 1 .. k |-> s[o + i]]
        /\ \A i \in 1 .. k : o + i \in 1 .. Len(s)
  <2>1. CASE r.kind \in Paged
    <3>1. /\ Limit(r, Len(s)) \in Nat
          /\ Page(r, s) = [i \in 1 .. Limit(r, Len(s)) |-> s[Offset(r) + i]]
          /\ \A i \in 1 .. Limit(r, Len(s)) : Offset(r) + i \in 1 .. Len(s)
      BY <1>4, <2>1, PageIs
    <3> QED
      BY <2>1, <3>1
  <2>2. CASE r.kind \notin Paged
    <3>1. Page(r, s) = [i \in 1 .. Len(s) |-> s[0 + i]]
      BY <1>4, <2>2 DEF Page
    <3>2. \A i \in 1 .. Len(s) : 0 + i \in 1 .. Len(s)
      BY <1>4
    <3> QED
      BY <1>4, <2>2, <3>1, <3>2
  <2> QED
    BY <2>1, <2>2
<1>6. \A i \in 1 .. k : RecordsOf(r, s[o + i]) \in Seq(Record)
  BY <1>3, <1>4, <1>5, RecordsOfIs
<1>7. answer = FlattenSeq([i \in 1 .. k |-> RecordsOf(r, s[o + i])])
  <2>1. DOMAIN Page(r, s) = 1 .. k /\ \A i \in 1 .. k : Page(r, s)[i] = s[o + i]
    BY <1>5
  <2>2. [i \in DOMAIN Page(r, s) |-> RecordsOf(r, Page(r, s)[i])]
          = [i \in 1 .. k |-> RecordsOf(r, s[o + i])]
    BY <2>1
  <2> QED
    BY <1>1, <2>2
<1>8. PageOf(r, s, o, k, answer)
  BY <1>5, <1>6, <1>7 DEF PageOf
<1> QED
  BY <1>8 DEF S

(* A trend of buckets lists one record for each.                           *)
BucketTrend(b, answer) == answer = [i \in DOMAIN b |-> [rows |-> b[i], tag |-> ""]]

LEMMA BucketAnswerIs ==
  ASSUME NEW r, r.kind = "trend", r.interval > 0, NEW answer \in Answers(r)
  PROVE  BucketTrend(Buckets(r, Selected(r, Len(table))), answer)
BY DEF Answers, BucketTrend

(* The rows of a trend of buckets are of a time before its window's end.   *)
LEMMA TrendTimes ==
  ASSUME TypeTable, NEW r \in RequestType, r.kind = "trend"
  PROVE  /\ \A n \in Selected(r, Len(table)) : Time(n) \in Nat /\ Time(n) < r.end + 1
         /\ r.end + 1 \in Nat
<1>1. r.start \in Nat /\ r.end \in Nat
  BY DEF RequestType
<1>2. \A n \in Selected(r, Len(table)) : Time(n) \in r.start .. r.end
  BY DEF Selected
<1> QED
  BY <1>1, <1>2

LEMMA AnswerType ==
  ASSUME TypeTable, Len(table) <= MaxRows, NEW r \in RequestType,
         r.kind \in Paged => Offset(r) \in Nat /\ r.page_size \in Nat,
         NEW answer \in Answers(r)
  PROVE  answer \in Seq(Record)
<1>1. CASE r.kind = "trend" /\ r.interval > 0
  <2>1. PICK b, S : S = Selected(r, Len(table)) /\ b = Buckets(r, S)
    OBVIOUS
  <2>2. b \in Seq(SUBSET S)
    BY <1>1, <2>1, BucketsIs, TrendTimes DEF RequestType
  <2>3. S \subseteq 1 .. MaxRows
    <3>1. Len(table) \in Nat /\ MaxRows \in Nat
      BY LimitsAssumption, LenProperties DEF TypeTable
    <3>2. S \subseteq 1 .. Len(table)
      BY <2>1, <3>1, RowTypes
    <3> QED
      BY <3>1, <3>2
  <2>4. Len(b) \in Nat /\ DOMAIN b = 1 .. Len(b) /\ \A i \in 1 .. Len(b) : b[i] \in SUBSET S
    BY <2>2, LenProperties, ElementOfSeq
  <2>5. answer = [i \in DOMAIN b |-> [rows |-> b[i], tag |-> ""]]
    BY <1>1, <2>1, BucketAnswerIs DEF BucketTrend
  <2>6. \A i \in 1 .. Len(b) : [rows |-> b[i], tag |-> ""] \in Record
    <3>1. \A i \in 1 .. Len(b) : b[i] \in SUBSET (1 .. MaxRows)
      BY <2>3, <2>4
    <3> QED
      BY <3>1 DEF Record
  <2>7. answer \in [1 .. Len(b) -> Record]
    BY <2>4, <2>5, <2>6
  <2> QED
    BY <2>4, <2>7
<1>2. CASE ~ (r.kind = "trend" /\ r.interval > 0)
  <2>1. \E k \in Nat : \E ss : ss \in [1 .. k -> Seq(Record)] /\ answer = FlattenSeq(ss)
    <3>1. PICK s \in Orderings(r, Selected(r, Len(table))), o \in Nat, k \in Nat :
            PageOf(r, s, o, k, answer)
      BY <1>2, AnswerIs
    <3> QED
      BY <3>1 DEF PageOf
  <2> QED
    BY <2>1, FlattenType
<1> QED
  BY <1>1, <1>2

(* A request without pages or buckets is answered with one record of each  *)
(* row, in order.                                                          *)
LEMMA WholeAnswerIs ==
  ASSUME TypeTable, Len(table) <= MaxRows, NEW r, r.kind \in {"trend", "latest"},
         ~ (r.kind = "trend" /\ r.interval > 0), NEW answer \in Answers(r)
  PROVE  \E s \in Orderings(r, Selected(r, Len(table))) :
           /\ Len(s) \in Nat /\ DOMAIN answer = 1 .. Len(s)
           /\ \A i \in 1 .. Len(s) :
                /\ answer[i].rows = {s[i]}
                /\ r.kind = "latest" => answer[i].tag = OnlineStatus(s[i])
<1>0. r.kind \notin Paged
  BY DEF Paged, Listed, Details
<1>1. PICK s \in Orderings(r, Selected(r, Len(table))), o \in Nat, k \in Nat :
        PageOf(r, s, o, k, answer)
  BY <1>0, AnswerIs
<1>2. o = 0 /\ k = Len(s) /\ Len(s) \in Nat
  BY <1>0, <1>1 DEF PageOf
<1> DEFINE One(n) == [rows |-> {n}, tag |-> IF r.kind = "latest" THEN OnlineStatus(n) ELSE ""]
           e == [i \in 1 .. Len(s) |-> One(s[i])]
<1>3. \A n : RecordsOf(r, n) = <<One(n)>>
  BY DEF RecordsOf
<1>4. answer = FlattenSeq([i \in 1 .. Len(s) |-> <<e[i]>>])
  <2>1. \A i \in 1 .. Len(s) : RecordsOf(r, s[o + i]) = <<e[i]>>
    <3> TAKE i \in 1 .. Len(s)
    <3>1. o + i = i /\ e[i] = One(s[i])
      BY <1>2
    <3> HIDE DEF One, e
    <3> QED
      BY <1>3, <3>1, Zenon
  <2> HIDE DEF e
  <2>2. [i \in 1 .. k |-> RecordsOf(r, s[o + i])] = [i \in 1 .. Len(s) |-> <<e[i]>>]
    BY <1>2, <2>1
  <2> QED
    BY <1>1, <2>2 DEF PageOf
<1>5. answer = e
  <2>1. e \in [1 .. Len(s) -> {One(s[i]) : i \in 1 .. Len(s)}]
    OBVIOUS
  <2> HIDE DEF e
  <2> QED
    BY <1>2, <1>4, <2>1, FlattenOnes
<1>6. \A i \in 1 .. Len(s) :
        /\ answer[i].rows = {s[i]}
        /\ r.kind = "latest" => answer[i].tag = OnlineStatus(s[i])
  BY <1>5
<1>7. DOMAIN answer = 1 .. Len(s)
  BY <1>5
<1> HIDE DEF One, e
<1> QED
  BY <1>2, <1>6, <1>7

(* A statement without a limit gets all rows, if they are in order.        *)
LEMMA TrendAnswer ==
  ASSUME TypeTable, Len(table) <= MaxRows, NEW r \in RequestType, r.kind = "trend",
         NEW answer \in Answers(r)
  PROVE  /\ RowsOf(answer) = Selected(r, Len(table))
         /\ \A i, j \in DOMAIN answer : i < j =>
              /\ answer[i].rows \cap answer[j].rows = {}
              /\ \A a \in answer[i].rows, b \in answer[j].rows :
                   IF r.interval > 0 THEN Time(a) < Time(b) ELSE Time(a) <= Time(b)
<1> DEFINE S == Selected(r, Len(table))
<1>a. Len(table) \in Nat
  BY LenProperties DEF TypeTable
<1>0. S \subseteq 1 .. Len(table) /\ IsFiniteSet(S) /\ \A n \in S : Time(n) \in Nat
  BY <1>a, RowTypes
<1>1. CASE r.interval > 0
  <2>1. PICK b : b = Buckets(r, S)
    OBVIOUS
  <2>2. /\ b \in Seq(SUBSET S)
        /\ \A n \in S : \E i \in 1 .. Len(b) : n \in b[i]
        /\ \A i, j \in 1 .. Len(b) : i < j =>
             \A m \in b[i], n \in b[j] : Bucket(r, m) < Bucket(r, n)
    BY <1>1, <2>1, BucketsIs, TrendTimes DEF RequestType
  <2> HIDE DEF S
  <2>3. Len(b) \in Nat /\ DOMAIN b = 1 .. Len(b) /\ \A i \in 1 .. Len(b) : b[i] \subseteq S
    BY <2>2, LenProperties
  <2>4. answer = [i \in 1 .. Len(b) |-> [rows |-> b[i], tag |-> ""]]
    <3>1. answer = [i \in DOMAIN b |-> [rows |-> b[i], tag |-> ""]]
      BY <1>1, <2>1, BucketAnswerIs DEF BucketTrend, S
    <3> QED
      BY <2>3, <3>1
  <2>5. DOMAIN answer = 1 .. Len(b) /\ \A i \in 1 .. Len(b) : answer[i].rows = b[i]
    BY <2>4
  <2>6. RowsOf(answer) = S
    BY <2>2, <2>3, <2>5 DEF RowsOf, ToSet
  <2>7. ASSUME NEW m \in S, NEW n \in S, Bucket(r, m) < Bucket(r, n) PROVE Time(m) < Time(n)
    <3>1. PICK t, u, i : t = Time(m) /\ u = Time(n) /\ i = r.interval
      OBVIOUS
    <3>2. t \in Nat /\ u \in Nat /\ i \in Nat /\ i > 0 /\ t \div i < u \div i
      BY <1>0, <1>1, <2>7, <3>1 DEF Bucket, RequestType
    <3>3. t < u
      BY <3>2
    <3> QED
      BY <3>1, <3>3
  <2>8. \A i, j \in 1 .. Len(b) : i < j => \A m \in b[i], n \in b[j] : Time(m) < Time(n)
    BY <2>2, <2>3, <2>7
  <2>9. \A i, j \in 1 .. Len(b) : i < j => b[i] \cap b[j] = {}
    <3>1. \A n \in S : ~ Time(n) < Time(n)
      BY <1>0
    <3> QED
      BY <2>3, <2>8, <3>1
  <2> QED
    BY <1>1, <2>5, <2>6, <2>8, <2>9 DEF S
<1>2. CASE ~ (r.interval > 0)
  <2>1. PICK s \in Orderings(r, S) :
          /\ Len(s) \in Nat /\ DOMAIN answer = 1 .. Len(s)
          /\ \A i \in 1 .. Len(s) : answer[i].rows = {s[i]}
    BY <1>2, WholeAnswerIs
  <2>2. /\ s \in [1 .. Len(s) -> S]
        /\ \A i, j \in 1 .. Len(s) : i # j => s[i] # s[j]
        /\ \A x \in S : \E i \in 1 .. Len(s) : s[i] = x
        /\ \A i, j \in 1 .. Len(s) : i < j => InOrder(r, s[i], s[j])
    BY <1>0, OrderingIs
  <2> HIDE DEF S
  <2>3. RowsOf(answer) = S
    BY <2>1, <2>2 DEF RowsOf, ToSet
  <2>4. \A i, j \in 1 .. Len(s) : i < j => s[i] # s[j] /\ Time(s[i]) <= Time(s[j])
    BY <2>1, <2>2 DEF InOrder
  <2> QED
    BY <1>2, <2>1, <2>3, <2>4 DEF S
<1> QED
  BY <1>1, <1>2
----------------------------------------------------------------------------
(* The types that TypeTable leaves out, and what a request and the answer  *)
(* of an idle or refused call are.                                         *)
AnswerTypes ==
  /\ main \in {"init", "serving"} /\ conn_ \in {"none", "up", "lost"}
  /\ initialized_ \in BOOLEAN
  /\ mtx_ \in Queriers \cup {NoOne}
  /\ Len(table) <= MaxRows /\ clock <= MaxTime
  /\ \A n \in 1 .. Len(table) : Time(n) <= clock
  /\ \A q \in Queriers : total[q] <= MaxRows
  /\ records \in [Queriers -> Seq(Record)] /\ seen \in [Queriers -> Seq(Record)]
  /\ first \in [Queriers -> Int] /\ from \in [Queriers -> Nat]
  /\ \A q \in Queriers :
       /\ from[q] <= since[q]
       /\ req[q].page >= 1 /\ req[q].page_size \in 1 .. IntLimit - 1
       /\ stage[q] = "idle" => records[q] = <<>> /\ seen[q] = <<>>
       /\ stage[q] = "answered" /\ status[q] # "OK" => records[q] = <<>>

LEMMA CountBound ==
  ASSUME NEW r, r.kind \in Paged, NEW m \in Nat
  PROVE  TotalCount(r, m) \in Nat /\ TotalCount(r, m) <= m
<1>1. IsFiniteSet(1 .. m) /\ Cardinality(1 .. m) = m
  BY FS_Interval
<1>2. Rows(r, m) \subseteq 1 .. m
  BY DEF Rows
<1>3. IsFiniteSet(Rows(r, m)) /\ Cardinality(Rows(r, m)) <= m
  BY <1>1, <1>2, FS_Subset
<1>4. TotalCount(r, m) \in Nat
  BY CountGrows
<1>5. CASE r.kind = "rank"
  <2> DEFINE of == {table[j].server : j \in Rows(r, m)}
             f == [j \in Rows(r, m) |-> table[j].server]
  <2>1. f \in Surjection(Rows(r, m), of)
    BY DEF Surjection
  <2>2. Cardinality(of) <= Cardinality(Rows(r, m)) /\ IsFiniteSet(of)
    BY <1>3, <2>1, FS_Surjection
  <2>3. Cardinality(of) \in Nat /\ Cardinality(Rows(r, m)) \in Nat
    BY <1>3, <2>2, FS_CardinalityType
  <2>4. Cardinality(of) <= m
    BY <1>3, <2>2, <2>3
  <2> QED
    BY <1>4, <1>5, <2>4 DEF TotalCount
<1>6. CASE r.kind # "rank"
  <2>1. Selected(r, m) \subseteq 1 .. m
    BY <1>2 DEF Selected
  <2>2. Cardinality(Selected(r, m)) <= m
    BY <1>1, <2>1, FS_Subset
  <2> QED
    BY <1>4, <1>6, <2>2 DEF TotalCount
<1> QED
  BY <1>5, <1>6

(* The offset is an int, and that of the page asked for unless it wrapped. *)
LEMMA OffsetIs ==
  ASSUME NEW r, r.page \in Int, r.page_size \in Int
  PROVE  /\ Offset(r) \in Int
         /\ \A passed \in 0 .. 2 * IntLimit - 1 :
              passed = (r.page - 1) * r.page_size =>
                Offset(r) = IF passed < IntLimit THEN passed ELSE passed - 2 * IntLimit
<1>1. PICK x, h : x = (r.page - 1) * r.page_size /\ h = IntLimit
  OBVIOUS
<1>2. x \in Int /\ h \in Nat /\ h > 0
  BY <1>1, LimitsAssumption
<1>3. Offset(r) = ((x + h) % (2 * h)) - h
  BY <1>1 DEF Offset, ToInt
<1>4. Offset(r) \in Int
  <2>1. (x + h) % (2 * h) \in Int
    BY <1>2
  <2> QED
    BY <1>2, <1>3, <2>1
<1>5. x \in 0 .. h - 1 => ((x + h) % (2 * h)) - h = x
  BY <1>2
<1>6. x \in h .. 2 * h - 1 => ((x + h) % (2 * h)) - h = x - 2 * h
  BY <1>2
<1> QED
  BY <1>1, <1>2, <1>3, <1>4, <1>5, <1>6

LEMMA InitAnswerTypes == Init => AnswerTypes
<1> SUFFICES ASSUME Init PROVE AnswerTypes
  OBVIOUS
<1>1. Len(table) = 0 /\ clock = 0
  BY DEF Init
<1>2. MaxRows \in Nat /\ MaxTime \in Nat /\ 1 \in 1 .. IntLimit - 1
  BY LimitsAssumption
<1>3. records \in [Queriers -> Seq(Record)] /\ seen \in [Queriers -> Seq(Record)]
  BY EmptySeq DEF Init
<1>4. \A n \in 1 .. Len(table) : Time(n) <= clock
  BY <1>1
<1>5. \A q \in Queriers : /\ req[q].page = 1 /\ req[q].page_size = 1 /\ stage[q] = "idle"
                         /\ records[q] = <<>> /\ seen[q] = <<>>
                         /\ from[q] = 0 /\ since[q] = 0 /\ total[q] = 0
  BY DEF Init, NoRequest
<1>6. first \in [Queriers -> Int] /\ from \in [Queriers -> Nat]
  BY DEF Init
<1>7. main = "init" /\ conn_ = "none" /\ initialized_ = FALSE /\ mtx_ = NoOne
  BY DEF Init
<1>8. \A q \in Queriers :
       /\ from[q] <= since[q]
       /\ req[q].page >= 1 /\ req[q].page_size \in 1 .. IntLimit - 1
       /\ stage[q] = "idle" => records[q] = <<>> /\ seen[q] = <<>>
       /\ stage[q] = "answered" /\ status[q] # "OK" => records[q] = <<>>
  BY <1>2, <1>5
<1>9. Len(table) <= MaxRows /\ clock <= MaxTime /\ \A q \in Queriers : total[q] <= MaxRows
  BY <1>1, <1>2, <1>5
<1> QED
  BY <1>3, <1>4, <1>6, <1>7, <1>8, <1>9 DEF AnswerTypes

(* What an accepted page is asked with.                                    *)
LEMMA NormalisedIs ==
  ASSUME NEW r \in Requests
  PROVE  /\ Normalised(r) \in RequestType
         /\ Normalised(r).page >= 1 /\ Normalised(r).page_size \in 1 .. IntLimit - 1
         /\ Accepts(r) <=> Accepts(Normalised(r))
<1>1. r \in RequestType /\ r.page \in Int /\ r.page_size \in -IntLimit .. IntLimit - 1
  BY RequestsAssumption, LimitsAssumption DEF RequestType, Ints
<1>2. /\ (IF r.page < 1 THEN 1 ELSE r.page) \in Int
      /\ (IF r.page < 1 THEN 1 ELSE r.page) >= 1
      /\ (IF r.page_size < 1 THEN DefaultPageSize ELSE r.page_size) \in 1 .. IntLimit - 1
  BY <1>1, LimitsAssumption
<1> DEFINE p == IF r.page < 1 THEN 1 ELSE r.page
           z == IF r.page_size < 1 THEN DefaultPageSize ELSE r.page_size
<1>3. Normalised(r) = [r EXCEPT !.page = p, !.page_size = z]
  BY DEF Normalised
<1>4. p \in Int /\ z \in Int /\ p >= 1 /\ z \in 1 .. IntLimit - 1
  BY <1>2, LimitsAssumption
<1> HIDE DEF p, z
<1>5. Normalised(r) \in RequestType
  BY <1>1, <1>3, <1>4 DEF RequestType
<1>6. Normalised(r).page = p /\ Normalised(r).page_size = z
  BY <1>1, <1>3 DEF RequestType
<1>7. Normalised(r).kind = r.kind /\ Normalised(r).start = r.start /\ Normalised(r).end = r.end
  BY <1>1, <1>3 DEF RequestType
<1> QED
  BY <1>4, <1>5, <1>6, <1>7 DEF Accepts, ValidateTimeRange

(* A step of another querier, of main or of the database leaves a querier  *)
(* as it was; rows are only added, and time passes.                        *)
Unmoved(v) ==
  /\ stage'[v] = stage[v] /\ status'[v] = status[v] /\ req'[v] = req[v]
  /\ total'[v] = total[v] /\ records'[v] = records[v] /\ seen'[v] = seen[v]
  /\ sound'[v] = sound[v] /\ first'[v] = first[v] /\ from'[v] = from[v]
  /\ since'[v] = since[v] /\ until'[v] = until[v]

Moves(v) == Call(v) \/ Lock(v) \/ Count(v) \/ Fetch(v) \/ NextPage(v)

LEMMA MovesOf ==
  ASSUME TypeTable, AnswerTypes, [Next]_vars, NEW v \in Queriers
  PROVE  Unmoved(v) \/ Moves(v)
<1>1. ASSUME UNCHANGED callVars, UNCHANGED stage PROVE Unmoved(v)
  BY <1>1 DEF callVars, Unmoved
<1>2. CASE UNCHANGED vars \/ InitConnects \/ InitFails \/ LoseConnection \/ Insert \/ Tick
  BY <1>1, <1>2 DEF vars, InitConnects, InitFails, LoseConnection, Insert, Tick
<1>3. ASSUME NEW q \in Queriers, q # v, Moves(q)
      PROVE  Unmoved(v)
  <2> USE DEF TypeTable, AnswerTypes, Unmoved
  <2>1. CASE Call(q)
    BY <1>3, <2>1 DEF Call
  <2>2. CASE Lock(q)
    BY <1>3, <2>2 DEF Lock
  <2>3. CASE Count(q)
    BY <1>3, <2>3 DEF Count
  <2>4. CASE Fetch(q)
    BY <1>3, <2>4 DEF Fetch
  <2>5. CASE NextPage(q)
    BY <1>3, <2>5 DEF NextPage
  <2> QED
    BY <1>3, <2>1, <2>2, <2>3, <2>4, <2>5 DEF Moves
<1> QED
  BY <1>2, <1>3, QuerySteps DEF Next, Moves

LEMMA TableGrows ==
  ASSUME TypeTable, [Next]_vars
  PROVE  /\ Len(table) \in Nat /\ Len(table') \in Nat /\ Len(table) <= Len(table')
         /\ \A n \in 1 .. Len(table) : table'[n] = table[n]
         /\ clock \in Nat /\ clock' \in Nat /\ clock <= clock'
         /\ \A v \in Queriers : Moves(v) => table' = table /\ clock' = clock
<1>1. Len(table) \in Nat /\ clock \in Nat
  BY LenProperties DEF TypeTable
<1>a. \A v \in Queriers : Moves(v) => table' = table /\ clock' = clock
  BY DEF Moves, Call, Lock, Count, Fetch, NextPage
<1>2. CASE table' = table /\ clock' = clock
  BY <1>1, <1>2
<1>3. CASE Insert
  <2>1. PICK row \in TableRows : table' = Append(table, row)
    BY <1>3, InsertAppends
  <2>2. Len(table') = Len(table) + 1 /\ \A n \in 1 .. Len(table) : table'[n] = table[n]
    BY <2>1, AppendProperties DEF TypeTable
  <2>3. clock' = clock
    BY <1>3 DEF Insert
  <2> QED
    BY <1>1, <1>a, <2>2, <2>3
<1>4. CASE Tick
  BY <1>1, <1>a, <1>4 DEF Tick
<1>5. CASE UNCHANGED vars \/ InitConnects \/ InitFails \/ LoseConnection
  BY <1>2, <1>5 DEF vars, InitConnects, InitFails, LoseConnection
<1>6. ASSUME NEW q \in Queriers, Call(q) \/ QueryServer(q) \/ QueryDetail(q) \/ NextPage(q)
      PROVE  table' = table /\ clock' = clock
  BY <1>6, <1>a, QuerySteps DEF Moves
<1> QED
  BY <1>1, <1>a, <1>2, <1>3, <1>4, <1>5, <1>6 DEF Next

(* So what a statement saw of the first m rows, it would see again.        *)
LEMMA Behind ==
  ASSUME NEW m, \A n \in 1 .. m : table'[n] = table[n], NEW r
  PROVE  /\ Rows(r, m)' = Rows(r, m) /\ Selected(r, m)' = Selected(r, m)
         /\ Rows(r, m) \subseteq 1 .. m /\ Selected(r, m) \subseteq Rows(r, m)
         /\ \A n \in 1 .. m : Time(n)' = Time(n)
<1>1. \A n \in 1 .. m : Time(n)' = Time(n)
  BY DEF Time
<1>2. Rows(r, m)' = Rows(r, m) /\ Rows(r, m) \subseteq 1 .. m
  BY DEF Rows
<1>3. Selected(r, m)' = Selected(r, m) /\ Selected(r, m) \subseteq Rows(r, m)
  <2>1. \A n \in 1 .. m : table'[n] = table[n]
    OBVIOUS
  <2> QED
    BY <1>2, <2>1 DEF Selected, Time
<1> QED
  BY <1>1, <1>2, <1>3

LEMMA NextKeepsShared ==
  ASSUME TypeTable, AnswerTypes, [Next]_vars
  PROVE  /\ main' \in {"init", "serving"} /\ conn_' \in {"none", "up", "lost"}
         /\ initialized_' \in BOOLEAN
         /\ mtx_' \in Queriers \cup {NoOne}
         /\ Len(table') <= MaxRows /\ clock' <= MaxTime
         /\ \A n \in 1 .. Len(table') : Time(n)' <= clock'
<1>1. /\ main \in {"init", "serving"} /\ conn_ \in {"none", "up", "lost"}
      /\ initialized_ \in BOOLEAN /\ mtx_ \in Queriers \cup {NoOne}
      /\ Len(table) <= MaxRows /\ clock <= MaxTime
      /\ \A n \in 1 .. Len(table) : Time(n) <= clock
  BY DEF AnswerTypes
<1>2. Len(table) \in Nat /\ clock \in Nat /\ MaxRows \in Nat /\ MaxTime \in Nat
  BY LimitsAssumption, LenProperties DEF TypeTable
<1>3. \A n \in 1 .. Len(table) : Time(n) \in Nat
  BY <1>2, RowTypes
<1>4. CASE UNCHANGED vars \/ InitConnects \/ InitFails \/ LoseConnection
  BY <1>1, <1>4 DEF vars, sharedVars, InitConnects, InitFails, LoseConnection, Time
<1>5. CASE Tick
  <2>1. UNCHANGED <<main, conn_, initialized_, mtx_, table>> /\ clock' = clock + 1 /\ clock < MaxTime
    BY <1>5 DEF Tick, sharedVars
  <2>2. clock' <= MaxTime /\ clock <= clock' /\ clock' \in Nat
    BY <1>2, <2>1
  <2>3. \A n \in 1 .. Len(table') : Time(n)' = Time(n)
    BY <2>1 DEF Time
  <2>4. \A n \in 1 .. Len(table') : Time(n)' <= clock'
    BY <1>1, <1>2, <1>3, <2>1, <2>2, <2>3
  <2> QED
    BY <1>1, <2>1, <2>2, <2>4
<1>6. CASE Insert
  <2>1. UNCHANGED <<main, conn_, initialized_, mtx_, clock>> /\ Len(table) < MaxRows
    BY <1>6 DEF Insert, sharedVars
  <2>2. PICK row : row.time \in 0 .. clock /\ table' = Append(table, row)
    BY <1>6 DEF Insert
  <2>3. PICK any \in TableRows : table' = Append(table, any)
    BY <1>6, InsertAppends
  <2>4. /\ Len(table') = Len(table) + 1 /\ table'[Len(table) + 1] = any
        /\ \A n \in 1 .. Len(table) : table'[n] = table[n]
    BY <2>3, AppendProperties DEF TypeTable
  <2>5. table'[Len(table) + 1] = row
    <3>1. table \in Seq(TableRows)
      BY DEF TypeTable
    <3> QED
      BY <2>2, <3>1
  <2>6. \A n \in 1 .. Len(table) : Time(n)' = Time(n)
    BY <2>4 DEF Time
  <2>7. \A n \in 1 .. Len(table') : n \in 1 .. Len(table) \/ n = Len(table) + 1
    BY <1>2, <2>4
  <2>8. \A n \in 1 .. Len(table') : Time(n)' <= clock'
    <3> TAKE n \in 1 .. Len(table')
    <3>1. CASE n \in 1 .. Len(table)
      BY <1>1, <2>1, <2>6, <3>1
    <3>2. CASE n = Len(table) + 1
      BY <1>2, <2>1, <2>2, <2>5, <3>2 DEF Time
    <3> QED
      BY <2>7, <3>1, <3>2
  <2>9. Len(table') <= MaxRows
    BY <1>2, <2>1, <2>4
  <2> QED
    BY <1>1, <2>1, <2>8, <2>9
<1>7. ASSUME NEW q \in Queriers, Moves(q)
      PROVE  /\ UNCHANGED <<main, conn_, initialized_, table, clock>>
             /\ mtx_' \in Queriers \cup {NoOne}
  BY <1>1, <1>7 DEF Moves, Call, Lock, Count, Fetch, NextPage, sharedVars
<1>8. CASE \E q \in Queriers : Moves(q)
  BY <1>1, <1>7, <1>8 DEF Time
<1> QED
  BY <1>4, <1>5, <1>6, <1>8, QuerySteps DEF Next, Moves

(* The records of an answer.                                               *)
LEMMA FetchRecords ==
  ASSUME TypeTable, AnswerTypes, NEW q \in Queriers, Fetch(q)
  PROVE  /\ records'[q] \in Seq(Record)
         /\ records' = [records EXCEPT ![q] = records'[q]]
         /\ Succeeds(q) => /\ records'[q] \in Answers(req[q])
                           /\ req[q].kind \in Paged => Offset(req[q]) \in Nat
         /\ ~Succeeds(q) => records'[q] = <<>>
<1>1. PICK answer \in IF Succeeds(q) THEN Answers(req[q]) ELSE {<<>>} :
        records' = [records EXCEPT ![q] = answer]
  BY DEF Fetch
<1>2. req[q] \in RequestType /\ req[q].page \in Int /\ req[q].page_size \in Int
  BY DEF TypeTable, RequestType
<1>3. req[q].page_size \in Nat /\ Len(table) <= MaxRows
  BY LimitsAssumption DEF AnswerTypes
<1>4. Succeeds(q) /\ req[q].kind \in Paged => Offset(req[q]) \in Nat
  <2>1. Offset(req[q]) \in Int
    BY <1>2, OffsetIs
  <2> QED
    BY <2>1 DEF Succeeds
<1>5. CASE Succeeds(q)
  <2>1. answer \in Answers(req[q])
    BY <1>1, <1>5
  <2>2. answer \in Seq(Record)
    BY <1>2, <1>3, <1>4, <1>5, <2>1, AnswerType
  <2> QED
    BY <1>1, <1>4, <1>5, <2>1, <2>2 DEF AnswerTypes
<1>6. CASE ~Succeeds(q)
  <2>1. answer = <<>> /\ answer \in Seq(Record)
    BY <1>1, <1>6, EmptySeq
  <2> QED
    BY <1>1, <1>6, <2>1 DEF AnswerTypes
<1> QED
  BY <1>5, <1>6

LEMMA NextKeepsAnswerTypes ==
  ASSUME TypeTable, AnswerTypes, [Next]_vars
  PROVE  AnswerTypes'
<1>1. Len(table) \in Nat /\ MaxRows \in Nat /\ Len(table) <= MaxRows
  BY LimitsAssumption, LenProperties DEF TypeTable, AnswerTypes
<1>2. /\ records \in [Queriers -> Seq(Record)] /\ seen \in [Queriers -> Seq(Record)]
      /\ first \in [Queriers -> Int] /\ from \in [Queriers -> Nat]
  BY DEF AnswerTypes
<1> DEFINE Typed == /\ records' \in [Queriers -> Seq(Record)] /\ seen' \in [Queriers -> Seq(Record)]
                    /\ first' \in [Queriers -> Int] /\ from' \in [Queriers -> Nat]
<1>3. Typed
  <2>1. CASE UNCHANGED vars \/ InitConnects \/ InitFails \/ LoseConnection \/ Insert \/ Tick
    BY <1>2, <2>1 DEF vars, InitConnects, InitFails, LoseConnection, Insert, Tick, callVars
  <2>2. ASSUME NEW q \in Queriers, Call(q) PROVE Typed
    <3>1. PICK r \in Requests : first' = [first EXCEPT ![q] = Normalised(r).page]
      BY <2>2 DEF Call
    <3>2. Normalised(r).page \in Int
      BY NormalisedIs DEF RequestType
    <3>3. first' \in [Queriers -> Int]
      BY <1>2, <3>1, <3>2
    <3>4. from' \in [Queriers -> Nat] /\ records' = records /\ seen' = seen
      BY <1>1, <1>2, <2>2 DEF Call
    <3> QED
      BY <1>2, <3>3, <3>4
  <2>3. ASSUME NEW q \in Queriers, Lock(q) \/ Count(q) PROVE Typed
    <3>1. <<>> \in Seq(Record)
      BY EmptySeq
    <3>2. UNCHANGED <<seen, first, from>>
          /\ (records' = records \/ records' = [records EXCEPT ![q] = <<>>])
      BY <2>3 DEF Lock, Count
    <3> QED
      BY <1>2, <3>1, <3>2
  <2>4. ASSUME NEW q \in Queriers, Fetch(q) PROVE Typed
    <3>1. records'[q] \in Seq(Record) /\ records' = [records EXCEPT ![q] = records'[q]]
      BY <2>4, FetchRecords
    <3>2. PICK answer : answer = records'[q]
      OBVIOUS
    <3>3. records' \in [Queriers -> Seq(Record)]
      BY <1>2, <3>1, <3>2
    <3> QED
      BY <1>2, <2>4, <3>3 DEF Fetch
  <2>5. ASSUME NEW q \in Queriers, NextPage(q) PROVE Typed
    <3>1. UNCHANGED <<records, first, from>> /\ seen' = [seen EXCEPT ![q] = seen[q] \o records[q]]
      BY <2>5 DEF NextPage
    <3>2. PICK a, b : a = seen[q] /\ b = records[q]
      OBVIOUS
    <3>3. a \o b \in Seq(Record)
      BY <1>2, <3>2, ConcatProperties
    <3> QED
      BY <1>2, <3>1, <3>2, <3>3
  <2> QED
    BY <2>1, <2>2, <2>3, <2>4, <2>5, QuerySteps DEF Next
<1> DEFINE Of(v) == /\ from'[v] <= since'[v] /\ total'[v] <= MaxRows
                    /\ req'[v].page >= 1 /\ req'[v].page_size \in 1 .. IntLimit - 1
                    /\ stage'[v] = "idle" => records'[v] = <<>> /\ seen'[v] = <<>>
                    /\ stage'[v] = "answered" /\ status'[v] # "OK" => records'[v] = <<>>
<1>4. ASSUME NEW v \in Queriers PROVE Of(v)
  <2>1. /\ from[v] <= since[v] /\ total[v] <= MaxRows
        /\ req[v].page >= 1 /\ req[v].page_size \in 1 .. IntLimit - 1
        /\ stage[v] = "idle" => records[v] = <<>> /\ seen[v] = <<>>
        /\ stage[v] = "answered" /\ status[v] # "OK" => records[v] = <<>>
    BY DEF AnswerTypes
  <2>2. /\ total[v] \in Nat /\ from[v] \in Nat /\ since[v] \in Nat /\ since[v] <= Len(table)
        /\ req[v] \in RequestType /\ (stage[v] = "count" => req[v].kind \in Paged)
    BY <1>2 DEF TypeTable
  <2>3. CASE Unmoved(v)
    BY <2>1, <2>3 DEF Unmoved
  <2>4. CASE Call(v)
    <3>1. PICK r \in Requests :
            /\ req' = [req EXCEPT ![v] = Normalised(r)]
            /\ stage'[v] # "idle"
      BY <2>4 DEF Call, TypeTable
    <3>2. req'[v] = Normalised(r)
      BY <3>1 DEF TypeTable
    <3>3. /\ from'[v] = Len(table) /\ since'[v] = Len(table) /\ total'[v] = total[v]
          /\ records'[v] = <<>>
      BY <2>1, <2>4 DEF Call, TypeTable, AnswerTypes
    <3> QED
      BY <1>1, <2>1, <3>1, <3>2, <3>3, NormalisedIs
  <2>5. CASE Lock(v)
    <3>1. /\ stage'[v] # "idle" /\ from' = from /\ since' = since /\ req' = req
          /\ total'[v] \in {total[v], 0}
          /\ stage'[v] = "answered" => records'[v] = <<>>
      BY <2>5 DEF Lock, TypeTable, AnswerTypes
    <3> QED
      BY <1>1, <2>1, <3>1
  <2>6. CASE Count(v)
    <3>1. TotalCount(req[v], Len(table)) \in 0 .. MaxRows
      <4>1. PICK m, r : m = Len(table) /\ r = req[v]
        OBVIOUS
      <4>2. r.kind \in Paged
        BY <2>2, <2>6, <4>1 DEF Count
      <4>3. TotalCount(r, m) \in Nat /\ TotalCount(r, m) <= m
        BY <1>1, <4>1, <4>2, CountBound
      <4> QED
        BY <1>1, <4>1, <4>3
    <3>2. /\ stage'[v] = "fetch" /\ from' = from /\ since' = since /\ req' = req
          /\ total'[v] \in {TotalCount(req[v], Len(table)), 0}
      BY <2>6 DEF Count, TypeTable
    <3> QED
      BY <1>1, <2>1, <3>1, <3>2
  <2>7. CASE Fetch(v)
    <3>1. /\ stage'[v] = "answered" /\ status'[v] = "OK"
          /\ from' = from /\ since' = since /\ req' = req /\ total' = total
      BY <2>7 DEF Fetch, TypeTable
    <3> QED
      BY <2>1, <3>1
  <2>8. CASE NextPage(v)
    <3>1. /\ stage'[v] = "called" /\ from' = from /\ total' = total
          /\ since'[v] = Len(table)
          /\ req'[v] = [req[v] EXCEPT !.page = req[v].page + 1]
      BY <2>8 DEF NextPage, TypeTable
    <3>2. req'[v].page = req[v].page + 1 /\ req'[v].page_size = req[v].page_size /\ req[v].page \in Int
      BY <2>2, <3>1 DEF RequestType
    <3> QED
      BY <1>1, <2>1, <2>2, <3>1, <3>2
  <2> QED
    BY <2>3, <2>4, <2>5, <2>6, <2>7, <2>8, MovesOf DEF Moves
<1>5. \A v \in Queriers : Of(v)
  BY <1>4
<1> QED
  <2>1. PICK n : n = Len(table')
    OBVIOUS
  <2> QED
    BY <1>3, <1>5, NextKeepsShared DEF AnswerTypes

(* Types: among them, that total_count never exceeds the rows, and that    *)
(* every record of an answer is about rows of the table.                   *)
THEOREM TypeCorrect == Spec => []TypeOK
<1>1. Init => TypeTable /\ AnswerTypes
  BY InitTypeTable, InitAnswerTypes
<1>2. TypeTable /\ AnswerTypes /\ [Next]_vars => TypeTable' /\ AnswerTypes'
  BY NextKeepsTypeTable, NextKeepsAnswerTypes
<1>3. TypeTable /\ AnswerTypes => TypeOK
  <2> SUFFICES ASSUME TypeTable, AnswerTypes PROVE TypeOK
    OBVIOUS
  <2>1. clock \in 0 .. MaxTime /\ total \in [Queriers -> 0 .. MaxRows]
    BY LimitsAssumption DEF TypeTable, AnswerTypes
  <2>2. \A q \in Queriers : ToSet(records[q]) \cup ToSet(seen[q]) \subseteq Record
    <3> TAKE q \in Queriers
    <3>1. PICK a, b : a = records[q] /\ b = seen[q]
      OBVIOUS
    <3>2. a \in Seq(Record) /\ b \in Seq(Record)
      BY <3>1 DEF AnswerTypes
    <3>3. ToSet(a) \subseteq Record /\ ToSet(b) \subseteq Record
      BY <3>2, LenProperties, ElementOfSeq DEF ToSet
    <3> QED
      BY <3>1, <3>3
  <2> QED
    BY <2>1, <2>2 DEF TypeTable, AnswerTypes, TypeOK
<1> QED
  BY <1>1, <1>2, <1>3, PTL DEF Spec
----------------------------------------------------------------------------
(* Trends and latest scores: what is true of an answer stays true while    *)
(* rows are added and time passes.                                         *)
LEMMA NextKeepsTrend ==
  ASSUME TypeTable, AnswerTypes, TrendPartitionsWindow, [Next]_vars
  PROVE  TrendPartitionsWindow'
<1> SUFFICES ASSUME NEW v \in Queriers, stage'[v] = "answered", sound'[v], req'[v].kind = "trend"
             PROVE  /\ RowsOf(records'[v]) = Selected(req[v], until[v])'
                    /\ \A i, j \in DOMAIN records'[v] : i < j =>
                         /\ records'[v][i].rows \cap records'[v][j].rows = {}
                         /\ \A a \in records'[v][i].rows, b \in records'[v][j].rows :
                              IF req'[v].interval > 0 THEN Time(a)' < Time(b)' ELSE Time(a)' <= Time(b)'
  BY DEF TrendPartitionsWindow
<1>1. "trend" \notin Paged
  BY DEF Paged, Listed, Details
<1>2. PICK recs, r, m : recs = records'[v] /\ r = req'[v] /\ m = until'[v]
  OBVIOUS
<1>3. Selected(req[v], until[v])' = Selected(r, m)'
  BY <1>2 DEF Selected, Rows, Time
<1>4. Len(table) \in Nat
  BY LenProperties DEF TypeTable
<1> DEFINE Partition == /\ RowsOf(recs) = Selected(r, m)
                        /\ \A i, j \in DOMAIN recs : i < j =>
                             /\ recs[i].rows \cap recs[j].rows = {}
                             /\ \A a \in recs[i].rows, b \in recs[j].rows :
                                  IF r.interval > 0 THEN Time(a) < Time(b) ELSE Time(a) <= Time(b)
<1>5. m \in Nat /\ m <= Len(table) /\ Partition
  <2>1. CASE Unmoved(v)
    <3>1. stage[v] = "answered" /\ sound[v] /\ r = req[v] /\ recs = records[v] /\ m = until[v]
      BY <1>2, <2>1 DEF Unmoved
    <3> QED
      BY <1>2, <3>1 DEF TrendPartitionsWindow, TypeTable
  (* Refused: the window is empty.                                         *)
  <2>2. CASE Call(v)
    <3>1. PICK a \in Requests : r = Normalised(a) /\ ~ Accepts(a)
      BY <1>2, <2>2 DEF Call, TypeTable
    <3>2. recs = <<>> /\ m = Len(table)
      BY <1>2, <2>2 DEF Call, TypeTable, AnswerTypes
    <3>3. r.start \in Nat /\ r.end \in Nat /\ ~ (r.start <= r.end)
      BY <1>2, <3>1, NormalisedIs DEF Accepts, ValidateTimeRange, RequestType
    <3>4. Selected(r, m) = {}
      BY <1>2, <3>3 DEF Selected
    <3>5. RowsOf(recs) = {} /\ DOMAIN recs = {}
      BY <3>2 DEF RowsOf, ToSet
    <3> QED
      BY <1>4, <3>2, <3>4, <3>5
  <2>3. CASE Lock(v)
    BY <2>3 DEF Lock, TypeTable
  <2>4. CASE Count(v) \/ NextPage(v)
    BY <2>4 DEF Count, NextPage, TypeTable
  <2>5. CASE Fetch(v)
    <3>1. r = req[v] /\ m = Len(table) /\ Succeeds(v)
      BY <1>2, <2>5 DEF Fetch, TypeTable
    <3>2. recs \in Answers(r) /\ r \in RequestType /\ Len(table) <= MaxRows
      BY <1>2, <2>5, <3>1, FetchRecords DEF TypeTable, AnswerTypes
    <3> HIDE DEF Partition
    <3>3. Partition
      BY <1>2, <3>1, <3>2, TrendAnswer DEF Partition
    <3> QED
      BY <1>4, <3>1, <3>3
  <2> QED
    BY <2>1, <2>2, <2>3, <2>4, <2>5, MovesOf DEF Moves
<1>6. Selected(r, m) \subseteq 1 .. m /\ Selected(r, m)' = Selected(r, m)
      /\ \A n \in 1 .. m : Time(n)' = Time(n)
  <2>1. \A n \in 1 .. m : table'[n] = table[n]
    BY <1>4, <1>5, TableGrows
  <2> QED
    BY <2>1, Behind
<1>7. \A i \in DOMAIN recs : recs[i].rows \subseteq 1 .. m
  BY <1>5, <1>6 DEF RowsOf, ToSet
<1>8. \A i, j \in DOMAIN recs : i < j =>
        /\ recs[i].rows \cap recs[j].rows = {}
        /\ \A a \in recs[i].rows, b \in recs[j].rows :
             IF r.interval > 0 THEN Time(a)' < Time(b)' ELSE Time(a)' <= Time(b)'
  <2> SUFFICES ASSUME NEW i \in DOMAIN recs, NEW j \in DOMAIN recs, i < j
               PROVE  /\ recs[i].rows \cap recs[j].rows = {}
                      /\ \A a \in recs[i].rows, b \in recs[j].rows :
                           IF r.interval > 0 THEN Time(a)' < Time(b)' ELSE Time(a)' <= Time(b)'
    OBVIOUS
  <2>1. \A a \in recs[i].rows, b \in recs[j].rows : Time(a)' = Time(a) /\ Time(b)' = Time(b)
    BY <1>6, <1>7
  <2> QED
    BY <1>5, <2>1
<1> HIDE DEF Partition
<1>9. RowsOf(recs) = Selected(r, m)
  BY <1>5 DEF Partition
<1> QED
  BY <1>2, <1>3, <1>6, <1>8, <1>9

(* The records of a trend split the rows of its window, and follow one     *)
(* another in time (QueryTrend, with and without buckets), for any rows,   *)
(* whatever is inserted after the statement.                               *)
THEOREM TrendCorrect == Spec => []TrendPartitionsWindow
<1>1. Init => TypeTable /\ AnswerTypes /\ TrendPartitionsWindow
  BY InitTypeTable, InitAnswerTypes DEF Init, TrendPartitionsWindow
<1>2. TypeTable /\ AnswerTypes /\ TrendPartitionsWindow /\ [Next]_vars
        => TypeTable' /\ AnswerTypes' /\ TrendPartitionsWindow'
  BY NextKeepsTypeTable, NextKeepsAnswerTypes, NextKeepsTrend
<1> QED
  BY <1>1, <1>2, PTL DEF Spec

(* Every server with a row has a latest one.                               *)
LEMMA LatestRow ==
  ASSUME TypeTable, AnswerTypes, NEW r, r.kind \in {"rank", "latest"},
         NEW n \in Rows(r, Len(table))
  PROVE  \E m \in Selected(r, Len(table)) : table[m].server = table[n].server
<1> DEFINE R == {j \in Rows(r, Len(table)) : table[j].server = table[n].server}
           T == {clock - Time(j) : j \in R}
<1>1. Len(table) \in Nat /\ clock \in Nat
  BY LenProperties DEF TypeTable
<1>2. \A j \in Rows(r, Len(table)) : Time(j) \in Nat /\ Time(j) <= clock
  BY <1>1, RowTypes DEF AnswerTypes
<1>3. T \subseteq Nat
  BY <1>1, <1>2
<1>4. T # {}
  OBVIOUS
<1> HIDE DEF T
<1>5. PICK t \in T : \A u \in T : t <= u
  BY <1>3, <1>4, Least
<1>6. PICK m \in R : t = clock - Time(m)
  BY DEF T
<1>7. \A j \in R : Time(j) <= Time(m)
  <2> TAKE j \in R
  <2>1. clock - Time(j) \in T
    BY DEF T
  <2>2. clock - Time(m) <= clock - Time(j)
    BY <1>5, <1>6, <2>1
  <2> QED
    BY <1>1, <1>2, <2>2
<1>8. m \in Selected(r, Len(table))
  BY <1>7 DEF Selected
<1> QED
  BY <1>8

Covers(r, m, recs) ==
  /\ RowsOf(recs) \subseteq Rows(r, m)
  /\ \A n \in Rows(r, m) : \E l \in RowsOf(recs) : table[l].server = table[n].server
  /\ \A rec \in ToSet(recs) : rec.tag = "OFFLINE" =>
       \A l \in rec.rows : \A n \in Rows(r, m) :
         table[n].server = table[l].server => clock - Time(n) > OnlineLimit

LEMMA LatestAnswer ==
  ASSUME TypeTable, AnswerTypes, NEW r, r.kind = "latest", NEW answer \in Answers(r)
  PROVE  Covers(r, Len(table), answer)
<1> DEFINE S == Selected(r, Len(table))
<1>1. Len(table) \in Nat /\ clock \in Nat /\ Len(table) <= MaxRows /\ OnlineLimit \in Nat
  BY LimitsAssumption, LenProperties DEF TypeTable, AnswerTypes
<1>2. IsFiniteSet(S) /\ S \subseteq Rows(r, Len(table)) /\ Rows(r, Len(table)) \subseteq 1 .. Len(table)
      /\ \A n \in 1 .. Len(table) : Time(n) \in Nat
  BY <1>1, RowTypes
<1>3. PICK s \in Orderings(r, S) :
        /\ Len(s) \in Nat /\ DOMAIN answer = 1 .. Len(s)
        /\ \A i \in 1 .. Len(s) : answer[i].rows = {s[i]} /\ answer[i].tag = OnlineStatus(s[i])
  BY <1>1, WholeAnswerIs
<1>4. s \in [1 .. Len(s) -> S] /\ \A x \in S : \E i \in 1 .. Len(s) : s[i] = x
  BY <1>2, OrderingIs
<1> HIDE DEF S
<1>5. RowsOf(answer) = S
  BY <1>3, <1>4 DEF RowsOf, ToSet
<1>6. \A n \in Rows(r, Len(table)) : \E l \in S : table[l].server = table[n].server
  BY LatestRow DEF S
<1>7. ASSUME NEW rec \in ToSet(answer), rec.tag = "OFFLINE", NEW l \in rec.rows,
             NEW n \in Rows(r, Len(table)), table[n].server = table[l].server
      PROVE  clock - Time(n) > OnlineLimit
  <2>1. PICK i \in 1 .. Len(s) : rec = answer[i]
    BY <1>3 DEF ToSet
  <2>2. l = s[i] /\ l \in S /\ OnlineStatus(l) = "OFFLINE"
    BY <1>3, <1>4, <1>7, <2>1
  <2>3. clock - Time(l) > OnlineLimit
    BY <2>2 DEF OnlineStatus
  <2>4. Time(n) <= Time(l)
    BY <1>7, <2>2 DEF S, Selected
  <2>5. Time(n) \in Nat /\ Time(l) \in Nat
    BY <1>2, <2>2
  <2> QED
    BY <1>1, <2>3, <2>4, <2>5
<1> QED
  BY <1>2, <1>5, <1>6, <1>7 DEF Covers

LatestInv ==
  \A q \in Queriers :
    stage[q] = "answered" /\ sound[q] /\ req[q].kind = "latest" => Covers(req[q], until[q], records[q])

LEMMA NextKeepsLatest ==
  ASSUME TypeTable, AnswerTypes, LatestInv, [Next]_vars
  PROVE  LatestInv'
<1> SUFFICES ASSUME NEW v \in Queriers, stage'[v] = "answered", sound'[v], req'[v].kind = "latest"
             PROVE  Covers(req[v], until[v], records[v])'
  BY DEF LatestInv
<1>1. "latest" \notin Paged
  BY DEF Paged, Listed, Details
<1>2. PICK recs, r, m : recs = records'[v] /\ r = req'[v] /\ m = until'[v]
  OBVIOUS
<1>3. Covers(req[v], until[v], records[v])' <=> Covers(r, m, recs)'
  BY <1>2 DEF Covers, Rows, Time
<1>4. Len(table) \in Nat /\ clock \in Nat /\ OnlineLimit \in Nat
  BY LimitsAssumption, LenProperties DEF TypeTable
<1>5. m \in Nat /\ m <= Len(table) /\ Covers(r, m, recs)
  <2>1. CASE Unmoved(v)
    <3>1. stage[v] = "answered" /\ sound[v] /\ r = req[v] /\ recs = records[v] /\ m = until[v]
      BY <1>2, <2>1 DEF Unmoved
    <3> QED
      BY <1>2, <3>1 DEF LatestInv, TypeTable
  (* Never refused.                                                        *)
  <2>2. CASE Call(v)
    <3>1. PICK a \in Requests : r = Normalised(a) /\ ~ Accepts(a)
      BY <1>2, <2>2 DEF Call, TypeTable
    <3> QED
      BY <1>2, <3>1, NormalisedIs DEF Accepts
  <2>3. CASE Lock(v)
    BY <2>3 DEF Lock, TypeTable
  <2>4. CASE Count(v) \/ NextPage(v)
    BY <2>4 DEF Count, NextPage, TypeTable
  <2>5. CASE Fetch(v)
    <3>1. r = req[v] /\ m = Len(table) /\ Succeeds(v)
      BY <1>2, <2>5 DEF Fetch, TypeTable
    <3>2. recs \in Answers(r)
      BY <1>2, <2>5, <3>1, FetchRecords
    <3> QED
      BY <1>2, <1>4, <3>1, <3>2, LatestAnswer
  <2> QED
    BY <2>1, <2>2, <2>3, <2>4, <2>5, MovesOf DEF Moves
<1>6. \A n \in 1 .. m : table'[n] = table[n]
  BY <1>4, <1>5, TableGrows
<1>7. /\ Rows(r, m) \subseteq 1 .. m /\ Rows(r, m)' = Rows(r, m)
      /\ \A n \in 1 .. m : Time(n)' = Time(n) /\ Time(n) \in Nat
  BY <1>4, <1>5, <1>6, Behind, RowTypes
<1>8. clock <= clock' /\ clock' \in Nat
  BY TableGrows
<1>9. ASSUME NEW rec \in ToSet(recs), rec.tag = "OFFLINE", NEW l \in rec.rows,
             NEW n \in Rows(r, m), table'[n].server = table'[l].server
      PROVE  clock' - Time(n)' > OnlineLimit
  <2>1. l \in Rows(r, m)
    BY <1>5, <1>9 DEF Covers, RowsOf
  <2>2. table[n].server = table[l].server
    BY <1>6, <1>7, <1>9, <2>1
  <2>3. clock - Time(n) > OnlineLimit
    BY <1>5, <1>9, <2>2 DEF Covers
  <2> QED
    BY <1>4, <1>7, <1>8, <2>3
<1>10. \A n \in Rows(r, m) : \E l \in RowsOf(recs) : table'[l].server = table'[n].server
  <2> TAKE n \in Rows(r, m)
  <2>1. PICK l \in RowsOf(recs) : table[l].server = table[n].server
    BY <1>5 DEF Covers
  <2>2. l \in Rows(r, m)
    BY <1>5 DEF Covers
  <2> QED
    BY <1>6, <1>7, <2>1, <2>2
<1>11. RowsOf(recs) \subseteq Rows(r, m)
  BY <1>5 DEF Covers
<1> QED
  BY <1>3, <1>7, <1>9, <1>10, <1>11 DEF Covers

(* The latest scores name every server that ever reported, and a server    *)
(* listed OFFLINE stays so, unless it reports again (QueryLatestScore).    *)
THEOREM LatestCorrect == Spec => []LatestCoversServers
<1>1. Init => TypeTable /\ AnswerTypes /\ LatestInv
  BY InitTypeTable, InitAnswerTypes DEF Init, LatestInv
<1>2. TypeTable /\ AnswerTypes /\ LatestInv /\ [Next]_vars => TypeTable' /\ AnswerTypes' /\ LatestInv'
  BY NextKeepsTypeTable, NextKeepsAnswerTypes, NextKeepsLatest
<1>3. LatestInv => LatestCoversServers
  <2> SUFFICES ASSUME LatestInv, NEW q \in Queriers,
                      stage[q] = "answered", sound[q], req[q].kind = "latest"
               PROVE  /\ {table[n].server : n \in RowsOf(records[q])} =
                           {table[n].server : n \in Rows(req[q], until[q])}
                      /\ \A rec \in ToSet(records[q]) : rec.tag = "OFFLINE" =>
                           \A m \in rec.rows : \A n \in Rows(req[q], until[q]) :
                             table[n].server = table[m].server => clock - Time(n) > OnlineLimit
    BY DEF LatestCoversServers
  <2>1. Covers(req[q], until[q], records[q])
    BY DEF LatestInv
  <2> QED
    BY <2>1 DEF Covers
<1> QED
  BY <1>1, <1>2, <1>3, PTL DEF Spec
----------------------------------------------------------------------------
(* The walk over the pages. The rank of a row among the first m rows is    *)
(* its place in the list that the statement would order; it only grows.    *)
Newer(r, x, m) == {y \in Selected(r, m) : Time(y) >= Time(x)}
Rank(r, x, m) == Cardinality(Newer(r, x, m))
Untied(r, m) == \A x, y \in Selected(r, m) : x # y => Time(x) # Time(y)

LEMMA RankType ==
  ASSUME TypeTable, NEW r, NEW m \in Nat, m <= Len(table), NEW x
  PROVE  /\ IsFiniteSet(Newer(r, x, m)) /\ Rank(r, x, m) \in Nat
         /\ Rank(r, x, m) <= Cardinality(Selected(r, m))
<1>1. IsFiniteSet(Selected(r, m)) /\ Newer(r, x, m) \subseteq Selected(r, m)
  BY RowTypes DEF Newer
<1> QED
  BY <1>1, FS_Subset, FS_CardinalityType DEF Rank

LEMMA MoreRows ==
  ASSUME TypeTable, NEW r, r.kind \in Listed, NEW m \in Nat, NEW n \in Nat, m <= n, n <= Len(table)
  PROVE  /\ Selected(r, m) \subseteq Selected(r, n)
         /\ Untied(r, n) => Untied(r, m)
         /\ \A x : Rank(r, x, m) \in Nat /\ Rank(r, x, n) \in Nat /\ Rank(r, x, m) <= Rank(r, x, n)
<1>1. r.kind \notin {"rank", "latest"}
  BY DEF Listed, Details
<1>2. Selected(r, m) \subseteq Selected(r, n)
  BY <1>1, SelectedGrows
<1>3. Len(table) \in Nat /\ m <= Len(table)
  BY LenProperties DEF TypeTable
<1>4. ASSUME NEW x
      PROVE  Rank(r, x, m) \in Nat /\ Rank(r, x, n) \in Nat /\ Rank(r, x, m) <= Rank(r, x, n)
  <2>1. IsFiniteSet(Newer(r, x, n)) /\ Rank(r, x, m) \in Nat /\ Rank(r, x, n) \in Nat
    BY <1>3, RankType
  <2>2. Newer(r, x, m) \subseteq Newer(r, x, n)
    BY <1>2 DEF Newer
  <2>3. Cardinality(Newer(r, x, m)) <= Cardinality(Newer(r, x, n))
    BY <2>1, <2>2, FS_Subset
  <2> QED
    BY <2>1, <2>3 DEF Rank
<1> QED
  BY <1>2, <1>4 DEF Untied

(* Without ties the place of a row in the list is its rank ...             *)
LEMMA RankIs ==
  ASSUME TypeTable, NEW r, r.kind \in Listed, NEW m \in Nat, m <= Len(table), Untied(r, m),
         NEW s \in Orderings(r, Selected(r, m)), NEW i \in 1 .. Len(s)
  PROVE  Rank(r, s[i], m) = i
<1> DEFINE S == Selected(r, m)
           D == 1 .. i
           f == [j \in D |-> s[j]]
<1>1. IsFiniteSet(S) /\ S \subseteq 1 .. m /\ \A n \in S : Time(n) \in Nat
  BY RowTypes
<1>2. /\ Len(s) \in Nat /\ s \in [1 .. Len(s) -> S]
      /\ \A j, k \in 1 .. Len(s) : j # k => s[j] # s[k]
      /\ \A x \in S : \E j \in 1 .. Len(s) : s[j] = x
      /\ \A j, k \in 1 .. Len(s) : j < k => InOrder(r, s[j], s[k])
  BY <1>1, OrderingIs
<1>3. r.kind \notin {"rank", "latest", "trend"}
  BY DEF Listed, Details
<1>4. \A j, k \in 1 .. Len(s) : j < k => Time(s[j]) > Time(s[k])
  <2> TAKE j, k \in 1 .. Len(s)
  <2> HAVE j < k
  <2>1. s[j] # s[k] /\ s[j] \in S /\ s[k] \in S /\ Time(s[j]) >= Time(s[k])
    BY <1>2, <1>3 DEF InOrder
  <2>2. Time(s[j]) # Time(s[k])
    BY <2>1 DEF Untied
  <2> QED
    BY <1>1, <2>1, <2>2
<1>5. \A j \in 1 .. Len(s) : Time(s[j]) >= Time(s[i]) <=> j <= i
  <2> TAKE j \in 1 .. Len(s)
  <2>1. Time(s[j]) \in Nat /\ Time(s[i]) \in Nat
    BY <1>1, <1>2
  <2>2. j < i \/ j = i \/ i < j
    BY <1>2
  <2> QED
    BY <1>2, <1>4, <2>1, <2>2
<1>6. D \subseteq 1 .. Len(s) /\ \A j \in 1 .. Len(s) : j <= i <=> j \in D
  BY <1>2
<1>7. Newer(r, s[i], m) = {s[j] : j \in D}
  BY <1>2, <1>5, <1>6 DEF Newer
<1>8. IsFiniteSet(D) /\ Cardinality(D) = i
  BY <1>2, FS_Interval
<1>9. f \in Surjection(D, {s[j] : j \in D}) /\ f \in Injection(D, {s[j] : j \in D})
  <2>1. \A j, k \in D : f[j] = f[k] => j = k
    BY <1>2, <1>6
  <2> HIDE DEF D
  <2> QED
    BY <2>1 DEF Surjection, Injection, IsInjective
<1> HIDE DEF f, D
<1>10. Cardinality({s[j] : j \in D}) = i
  BY <1>8, <1>9, FS_Surjection
<1> QED
  BY <1>7, <1>10 DEF Rank

(* ... so there is one list only.                                          *)
LEMMA OneOrdering ==
  ASSUME TypeTable, NEW r, r.kind \in Listed, NEW m \in Nat, m <= Len(table), Untied(r, m),
         NEW s \in Orderings(r, Selected(r, m)), NEW t \in Orderings(r, Selected(r, m))
  PROVE  s = t
<1>1. IsFiniteSet(Selected(r, m))
  BY RowTypes
<1>2. PICK N : N = Cardinality(Selected(r, m))
  OBVIOUS
<1>3. /\ Len(s) = N /\ Len(t) = N /\ N \in Nat
      /\ s \in [1 .. N -> Selected(r, m)] /\ t \in [1 .. N -> Selected(r, m)]
      /\ \A x \in Selected(r, m) : \E j \in 1 .. N : t[j] = x
  BY <1>1, <1>2, OrderingIs
<1>4. \A i \in 1 .. N : Rank(r, s[i], m) = i /\ Rank(r, t[i], m) = i
  BY <1>3, RankIs
<1>5. \A i \in 1 .. N : s[i] = t[i]
  <2> TAKE i \in 1 .. N
  <2>1. PICK j \in 1 .. N : t[j] = s[i]
    BY <1>3
  <2>2. i = j
    BY <1>4, <2>1
  <2> QED
    BY <2>1, <2>2
<1> QED
  BY <1>3, <1>5

(* The page of a request of rows ordered by time: the records from one     *)
(* place to another of such a list, and none only if it is past the end.   *)
LEMMA ListedPage ==
  ASSUME TypeTable, AnswerTypes, NEW r, r.kind \in Listed, Offset(r) \in Nat,
         r.page_size \in Nat, r.page_size > 0, NEW answer \in Answers(r)
  PROVE  \E s \in Orderings(r, Selected(r, Len(table))) :
           /\ PageOf(r, s, Offset(r), Limit(r, Len(s)), answer)
           /\ Len(s) \in Nat /\ Limit(r, Len(s)) \in Nat
           /\ \A i \in 1 .. Len(s) : i \in Offset(r) + 1 .. Offset(r) + r.page_size =>
                s[i] \in RowsOf(answer)
           /\ answer = <<>> => Cardinality(Selected(r, Len(table))) <= Offset(r)
<1>1. r.kind \in Paged /\ r.kind # "trend" /\ r.kind \notin {"rank", "latest"}
  BY DEF Paged, Listed, Details
<1>2. Len(table) \in Nat /\ Len(table) <= MaxRows
  BY LenProperties DEF TypeTable, AnswerTypes
<1>3. PICK s \in Orderings(r, Selected(r, Len(table))), o \in Nat, k \in Nat :
        PageOf(r, s, o, k, answer)
  BY <1>1, <1>2, AnswerIs
<1>4. o = Offset(r) /\ k = Limit(r, Len(s))
  BY <1>1, <1>3 DEF PageOf
<1>5. IsFiniteSet(Selected(r, Len(table))) /\ Selected(r, Len(table)) \subseteq 1 .. Len(table)
  BY <1>2, RowTypes
<1>6. Len(s) \in Nat /\ Len(s) = Cardinality(Selected(r, Len(table)))
      /\ s \in [1 .. Len(s) -> Selected(r, Len(table))]
  BY <1>5, OrderingIs
<1> DEFINE ss == [i \in 1 .. k |-> RecordsOf(r, s[o + i])]
<1>7. /\ \A i \in 1 .. k : o + i \in 1 .. Len(s)
      /\ ss \in [1 .. k -> Seq(Record)] /\ answer = FlattenSeq(ss)
      /\ \A i \in 1 .. k : ss[i] = RecordsOf(r, s[o + i])
  BY <1>3 DEF PageOf
<1> HIDE DEF ss
<1>8. \A i \in 1 .. k : s[o + i] \in RowsOf(answer) /\ answer # <<>>
  <2> TAKE i \in 1 .. k
  <2>1. s[o + i] \in Selected(r, Len(table)) /\ s[o + i] \in 1 .. Len(table)
    BY <1>5, <1>6, <1>7
  <2>2. r.kind = "anomaly" => table[s[o + i]].alarms # {}
    BY <1>1, <2>1 DEF Selected
  <2>3. PICK rec \in ToSet(ss[i]) : rec.rows = {s[o + i]}
    <3>1. PICK n : n = s[o + i]
      OBVIOUS
    <3>2. n \in 1 .. Len(table) /\ (r.kind = "anomaly" => table[n].alarms # {}) /\ ss[i] = RecordsOf(r, n)
      BY <1>7, <2>1, <2>2, <3>1
    <3>3. /\ ToSet(RecordsOf(r, n)) # {}
          /\ \A rec \in ToSet(RecordsOf(r, n)) : rec.rows = {n}
      BY <1>2, <3>2, RecordsOfIs
    <3> QED
      BY <3>1, <3>2, <3>3
  <2>4. rec \in ToSet(answer)
    BY <1>7, <2>3, FlattenRange
  <2>5. ToSet(<<>>) = {}
    BY DEF ToSet
  <2> QED
    BY <2>3, <2>4, <2>5 DEF RowsOf
<1>9. \A i \in 1 .. Len(s) : i \in o + 1 .. o + r.page_size => s[i] \in RowsOf(answer)
  <2> TAKE i \in 1 .. Len(s)
  <2> HAVE i \in o + 1 .. o + r.page_size
  <2>1. PICK p : p = r.page_size
    OBVIOUS
  <2>2. k = IF o + p < Len(s) THEN p ELSE IF o < Len(s) THEN Len(s) - o ELSE 0
    BY <1>4, <2>1 DEF Limit
  <2>3. i - o \in 1 .. k /\ o + (i - o) = i
    BY <1>6, <2>1, <2>2
  <2> QED
    BY <1>8, <2>3
<1>10. answer = <<>> => Len(s) <= o
  <2> SUFFICES ASSUME answer = <<>> PROVE Len(s) <= o
    OBVIOUS
  <2>1. ~ (1 \in 1 .. k)
    BY <1>8
  <2>2. PICK p : p = r.page_size
    OBVIOUS
  <2>3. k = IF o + p < Len(s) THEN p ELSE IF o < Len(s) THEN Len(s) - o ELSE 0
    BY <1>4, <2>2 DEF Limit
  <2> QED
    BY <1>6, <2>1, <2>2, <2>3
<1> QED
  BY <1>3, <1>4, <1>6, <1>9, <1>10

(* What a walk that began when there were a rows has told, after done      *)
(* places of the list that the first m rows would be ordered in: every row *)
(* of then that has one of these places; and, if no other row was added,   *)
(* the records of these places, in order.                                  *)
Misses(r, a, m, told, done) ==
  Untied(r, m) => \A x \in Selected(r, a) : Rank(r, x, m) <= done => x \in RowsOf(told)

Prefix(r, s, k) ==
  FlattenSeq([i \in 1 .. (IF k < Len(s) THEN k ELSE Len(s)) |-> RecordsOf(r, s[i])])

Exact(r, a, m, told, done) ==
  Untied(r, m) /\ Selected(r, m) = Selected(r, a) =>
    \A s \in Orderings(r, Selected(r, a)) : told = Prefix(r, s, done)

Walk(r, a, m, told, done) == Misses(r, a, m, told, done) /\ Exact(r, a, m, told, done)

(* At the start it has told nothing, and every rank is at least 1.         *)
LEMMA WalkStarts ==
  ASSUME TypeTable, NEW r, NEW m \in Nat, m <= Len(table)
  PROVE  Walk(r, m, m, <<>>, 0)
<1>1. ASSUME NEW x \in Selected(r, m) PROVE ~ (Rank(r, x, m) <= 0)
  <2>1. Time(x) \in Nat
    BY RowTypes
  <2>2. x \in Newer(r, x, m)
    BY <2>1 DEF Newer
  <2>3. IsFiniteSet(Newer(r, x, m)) /\ Rank(r, x, m) \in Nat
    BY RankType
  <2>4. Rank(r, x, m) # 0
    BY <2>2, <2>3, FS_EmptySet DEF Rank
  <2> QED
    BY <2>3, <2>4
<1>2. ASSUME NEW s \in Orderings(r, Selected(r, m)) PROVE <<>> = Prefix(r, s, 0)
  <2>1. IsFiniteSet(Selected(r, m))
    BY RowTypes
  <2>2. Len(s) \in Nat
    BY <2>1, OrderingIs
  <2>3. (IF 0 < Len(s) THEN 0 ELSE Len(s)) = 0
    BY <2>2
  <2> QED
    BY <2>3, FlattenNone DEF Prefix
<1> QED
  BY <1>1, <1>2 DEF Walk, Misses, Exact

(* It stays true of the list of more rows: ranks only grow.                *)
LEMMA WalkOn ==
  ASSUME TypeTable, NEW r, r.kind \in Listed, NEW a \in Nat, NEW m \in Nat, NEW n \in Nat,
         a <= m, m <= n, n <= Len(table), NEW told, NEW done \in Nat, Walk(r, a, m, told, done)
  PROVE  Walk(r, a, n, told, done)
<1>0. Len(table) \in Nat /\ m <= Len(table)
  BY LenProperties DEF TypeTable
<1>1. /\ Selected(r, a) \subseteq Selected(r, m) /\ Selected(r, m) \subseteq Selected(r, n)
      /\ Untied(r, n) => Untied(r, m)
      /\ \A x : Rank(r, x, m) \in Nat /\ Rank(r, x, n) \in Nat /\ Rank(r, x, m) <= Rank(r, x, n)
  BY <1>0, MoreRows
<1>2. Misses(r, a, n, told, done)
  <2> SUFFICES ASSUME Untied(r, n), NEW x \in Selected(r, a), Rank(r, x, n) <= done
               PROVE  x \in RowsOf(told)
    BY DEF Misses
  <2>1. Rank(r, x, m) <= done
    BY <1>1
  <2> QED
    BY <1>1, <2>1 DEF Walk, Misses
<1>3. Exact(r, a, n, told, done)
  BY <1>1 DEF Walk, Exact
<1> QED
  BY <1>2, <1>3 DEF Walk

(* A page adds the rows of its places.                                     *)
LEMMA RowsOfConcat ==
  ASSUME NEW told \in Seq(Record), NEW answer \in Seq(Record)
  PROVE  RowsOf(told \o answer) = RowsOf(told) \cup RowsOf(answer)
BY ConcatRange DEF RowsOf

LEMMA WalkReads ==
  ASSUME TypeTable, AnswerTypes, NEW r, r.kind \in Listed, Offset(r) \in Nat,
         r.page_size \in Nat, r.page_size > 0, NEW answer \in Answers(r), answer \in Seq(Record),
         NEW told \in Seq(Record), NEW a \in Nat, a <= Len(table),
         Walk(r, a, Len(table), told, Offset(r))
  PROVE  Walk(r, a, Len(table), told \o answer, Offset(r) + r.page_size)
<1>1. PICK o, p, m : o = Offset(r) /\ p = r.page_size /\ m = Len(table)
  OBVIOUS
<1>2. o \in Nat /\ p \in Nat /\ p > 0 /\ m \in Nat /\ a <= m /\ m <= Len(table)
  BY <1>1, LenProperties DEF TypeTable
<1>3. PICK s \in Orderings(r, Selected(r, m)) :
        /\ PageOf(r, s, o, Limit(r, Len(s)), answer)
        /\ Len(s) \in Nat /\ Limit(r, Len(s)) \in Nat
        /\ \A i \in 1 .. Len(s) : i \in o + 1 .. o + p => s[i] \in RowsOf(answer)
  BY <1>1, ListedPage
<1>4. IsFiniteSet(Selected(r, m)) /\ Selected(r, m) \subseteq 1 .. Len(table)
  BY <1>2, RowTypes
<1>5. s \in [1 .. Len(s) -> Selected(r, m)] /\ \A x \in Selected(r, m) : \E j \in 1 .. Len(s) : s[j] = x
  BY <1>4, OrderingIs
<1>6. Selected(r, a) \subseteq Selected(r, m)
  BY <1>2, MoreRows
<1>7. Misses(r, a, m, told \o answer, o + p)
  <2> SUFFICES ASSUME Untied(r, m), NEW x \in Selected(r, a), Rank(r, x, m) <= o + p
               PROVE  x \in RowsOf(told \o answer)
    BY DEF Misses
  <2>1. PICK i \in 1 .. Len(s) : s[i] = x
    BY <1>5, <1>6
  <2>2. Rank(r, x, m) = i
    BY <1>2, <2>1, RankIs
  <2>3. CASE i <= o
    <3>1. x \in RowsOf(told)
      BY <1>1, <2>2, <2>3 DEF Walk, Misses
    <3> QED
      BY <3>1, RowsOfConcat
  <2>4. CASE ~ (i <= o)
    <3>1. i \in o + 1 .. o + p
      BY <1>2, <1>3, <2>2, <2>4
    <3> QED
      BY <1>3, <2>1, <3>1, RowsOfConcat
  <2> QED
    BY <2>3, <2>4
<1>8. Exact(r, a, m, told \o answer, o + p)
  <2> SUFFICES ASSUME Untied(r, m), Selected(r, m) = Selected(r, a),
                      NEW t \in Orderings(r, Selected(r, a))
               PROVE  told \o answer = Prefix(r, t, o + p)
    BY DEF Exact
  <2>1. t = s
    BY <1>2, OneOrdering
  <2>2. told = Prefix(r, s, o)
    BY <1>1, <2>1 DEF Walk, Exact
  <2>3. PICK N, k : N = Len(s) /\ k = Limit(r, Len(s))
    OBVIOUS
  <2>4. N \in Nat /\ k \in Nat /\ k = IF o + p < N THEN p ELSE IF o < N THEN N - o ELSE 0
    BY <1>1, <1>3, <2>3 DEF Limit
  <2>5. /\ \A i \in 1 .. k : o + i \in 1 .. N
        /\ answer = FlattenSeq([i \in 1 .. k |-> RecordsOf(r, s[o + i])])
    BY <1>3, <2>3 DEF PageOf
  <2> DEFINE b == IF o < N THEN o ELSE N
             ss == [i \in 1 .. b + k |-> RecordsOf(r, s[i])]
  <2>6. b \in Nat /\ b + k = (IF o + p < N THEN o + p ELSE N) /\ b + k <= N
        /\ (k # 0 => b = o)
    BY <1>2, <2>4
  <2> HIDE DEF b
  <2>7. told = FlattenSeq([i \in 1 .. b |-> RecordsOf(r, s[i])])
    BY <2>2, <2>3 DEF Prefix, b
  <2>8. Prefix(r, s, o + p) = FlattenSeq(ss)
    BY <2>3, <2>6 DEF Prefix
  <2>9. \A i \in 1 .. b + k : RecordsOf(r, s[i]) \in Seq(Record)
    <3> TAKE i \in 1 .. b + k
    <3>1. i \in 1 .. Len(s)
      BY <2>3, <2>4, <2>6
    <3>2. s[i] \in 1 .. Len(table)
      BY <1>4, <1>5, <3>1
    <3> QED
      BY <3>2, RecordsOfIs DEF AnswerTypes
  <2>10. ss \in [1 .. b + k -> Seq(Record)] /\ \A i \in 1 .. b + k : ss[i] = RecordsOf(r, s[i])
    BY <2>9
  <2> HIDE DEF ss
  <2>11. FlattenSeq(ss) = FlattenSeq([i \in 1 .. b |-> ss[i]])
                            \o FlattenSeq([i \in 1 .. k |-> ss[b + i]])
    <3>1. Splits(ss, b, k)
      BY <2>4, <2>6, <2>10, FlattenSplit
    <3> QED
      BY <3>1 DEF Splits
  <2>12. [i \in 1 .. b |-> ss[i]] = [i \in 1 .. b |-> RecordsOf(r, s[i])]
    <3>1. 1 .. b \subseteq 1 .. b + k
      BY <2>4, <2>6
    <3> QED
      BY <2>10, <3>1
  <2>13. [i \in 1 .. k |-> ss[b + i]] = [i \in 1 .. k |-> RecordsOf(r, s[o + i])]
    <3>1. \A i \in 1 .. k : b + i \in 1 .. b + k /\ b + i = o + i
      BY <2>4, <2>6
    <3>2. \A i \in 1 .. k : ss[b + i] = RecordsOf(r, s[o + i])
      <4> TAKE i \in 1 .. k
      <4>1. ss[b + i] = RecordsOf(r, s[b + i])
        BY <2>10, <3>1
      <4>2. b + i = o + i
        BY <3>1
      <4> QED
        BY <4>1, <4>2, Zenon
    <3> QED
      BY <3>2
  <2> QED
    BY <2>1, <2>5, <2>7, <2>8, <2>11, <2>12, <2>13
<1> QED
  BY <1>1, <1>7, <1>8 DEF Walk

(* The next page is asked for with the same conditions; and what was told  *)
(* of the first m rows stays so.                                           *)
SameQuery(r, s) ==
  r.kind = s.kind /\ r.server = s.server /\ r.start = s.start /\ r.end = s.end

LEMMA WalkOfNextPage ==
  ASSUME NEW r, NEW t, SameQuery(r, t), r.kind \in Listed,
         NEW a, NEW m, NEW told, NEW done, Walk(r, a, m, told, done)
  PROVE  Walk(t, a, m, told, done)
<1>1. r.kind \notin {"rank", "latest", "trend"}
  BY DEF Listed, Details
<1>2. \A l : Selected(t, l) = Selected(r, l)
  BY <1>1 DEF SameQuery, Selected, Rows
<1>3. \A S : Orderings(t, S) = Orderings(r, S)
  BY <1>1 DEF SameQuery, Orderings, InOrder
<1>4. \A n : RecordsOf(t, n) = RecordsOf(r, n)
  BY <1>1 DEF SameQuery, RecordsOf
<1>5. \A x : Rank(t, x, m) = Rank(r, x, m)
  BY <1>2 DEF Rank, Newer
<1>6. ASSUME NEW s PROVE Prefix(t, s, done) = Prefix(r, s, done)
  <2>1. PICK n : n = IF done < Len(s) THEN done ELSE Len(s)
    OBVIOUS
  <2>2. [i \in 1 .. n |-> RecordsOf(t, s[i])] = [i \in 1 .. n |-> RecordsOf(r, s[i])]
    BY <1>4
  <2> QED
    BY <2>1, <2>2 DEF Prefix
<1>7. Untied(t, m) <=> Untied(r, m)
  BY <1>2 DEF Untied
<1>8. Misses(t, a, m, told, done)
  BY <1>2, <1>5, <1>7 DEF Walk, Misses
<1>9. Exact(t, a, m, told, done)
  BY <1>2, <1>3, <1>6, <1>7 DEF Walk, Exact
<1> QED
  BY <1>8, <1>9 DEF Walk

LEMMA WalkSame ==
  ASSUME NEW r, r.kind \in Listed, NEW a \in Nat, NEW m \in Nat, a <= m,
         \A n \in 1 .. m : table'[n] = table[n],
         NEW told, NEW done \in Nat, Walk(r, a, m, told, done)
  PROVE  Walk(r, a, m, told, done)'
<1>1. r.kind \notin {"rank", "latest", "trend"}
  BY DEF Listed, Details
<1>2. /\ Selected(r, m)' = Selected(r, m) /\ Selected(r, m) \subseteq 1 .. m
      /\ \A n \in 1 .. m : Time(n)' = Time(n)
  BY Behind
<1>3. Selected(r, a)' = Selected(r, a) /\ Selected(r, a) \subseteq 1 .. m
  <2>1. \A n \in 1 .. a : table'[n] = table[n]
    OBVIOUS
  <2>2. 1 .. a \subseteq 1 .. m
    OBVIOUS
  <2> QED
    BY <2>1, <2>2, Behind
<1>4. Untied(r, m)' => Untied(r, m)
  BY <1>2 DEF Untied
<1>5. \A x \in Selected(r, a) : Rank(r, x, m)' = Rank(r, x, m)
  <2> TAKE x \in Selected(r, a)
  <2>1. Newer(r, x, m)' = Newer(r, x, m)
    BY <1>2, <1>3 DEF Newer
  <2> QED
    BY <2>1 DEF Rank
<1>6. Misses(r, a, m, told, done)'
  BY <1>3, <1>4, <1>5 DEF Walk, Misses
<1>7. ASSUME NEW n \in 1 .. m PROVE RecordsOf(r, n)' = RecordsOf(r, n)
  <2>1. table'[n] = table[n]
    OBVIOUS
  <2> QED
    BY <1>1, <2>1 DEF RecordsOf
<1>8. PICK S : S = Selected(r, a)
  OBVIOUS
<1>9. IsFiniteSet(S) /\ S \subseteq 1 .. m
  <2>1. IsFiniteSet(1 .. m) /\ S \subseteq 1 .. m
    BY <1>3, <1>8, FS_Interval
  <2> QED
    BY <2>1, FS_Subset
<1>10. ASSUME NEW s \in SetToSeqs(S), s \in Orderings(r, S)' PROVE s \in Orderings(r, S)
  <2>1. DOMAIN s = 1 .. Cardinality(S) /\ \A i \in DOMAIN s : s[i] \in 1 .. m
    BY <1>9 DEF SetToSeqs
  <2>2. \A i, j \in DOMAIN s : InOrder(r, s[i], s[j])' = InOrder(r, s[i], s[j])
    BY <1>1, <1>2, <2>1 DEF InOrder
  <2>3. \A i, j \in DOMAIN s : i < j => InOrder(r, s[i], s[j])'
    BY <1>10 DEF Orderings
  <2> QED
    BY <2>2, <2>3 DEF Orderings
<1>11. ASSUME NEW s \in Orderings(r, S) PROVE Prefix(r, s, done)' = Prefix(r, s, done)
  <2>1. Len(s) \in Nat /\ s \in [1 .. Len(s) -> S]
    BY <1>9, OrderingIs
  <2>2. PICK k : k = IF done < Len(s) THEN done ELSE Len(s)
    OBVIOUS
  <2>3. \A i \in 1 .. k : s[i] \in 1 .. m
    <3>1. 1 .. k \subseteq 1 .. Len(s)
      <4>1. PICK N : N = Len(s)
        OBVIOUS
      <4>2. N \in Nat /\ k = IF done < N THEN done ELSE N
        BY <2>1, <2>2, <4>1
      <4>3. 1 .. k \subseteq 1 .. N
        BY <4>2
      <4> QED
        BY <4>1, <4>3
    <3> QED
      BY <1>9, <2>1, <3>1
  <2>4. [i \in 1 .. k |-> RecordsOf(r, s[i])]' = [i \in 1 .. k |-> RecordsOf(r, s[i])]
    BY <1>7, <2>3
  <2> QED
    BY <2>2, <2>4 DEF Prefix
<1>12. Exact(r, a, m, told, done)'
  <2> SUFFICES ASSUME Untied(r, m)', Selected(r, m)' = Selected(r, a)', NEW s \in Orderings(r, S)'
               PROVE  told = Prefix(r, s, done)'
    BY <1>3, <1>8 DEF Exact, Orderings
  <2>1. s \in SetToSeqs(S)
    BY DEF Orderings
  <2>2. s \in Orderings(r, S)
    BY <1>10, <2>1
  <2>3. told = Prefix(r, s, done)
    BY <1>2, <1>3, <1>4, <1>8, <2>2 DEF Walk, Exact
  <2> QED
    BY <1>11, <2>2, <2>3
<1> QED
  BY <1>6, <1>12 DEF Walk

WalksGoOn ==
  TypeTable => \A r : r.kind \in Listed => \A a, m, n, done \in Nat : \A told :
    a <= m /\ m <= n /\ n <= Len(table) /\ Walk(r, a, m, told, done) => Walk(r, a, n, told, done)

LEMMA WalksGoOnNow == WalksGoOn
BY WalkOn DEF WalksGoOn

LEMMA WalksGoOnNext == WalksGoOn'
BY WalksGoOnNow, PTL

LEMMA WalkCarried ==
  ASSUME TypeTable, TypeTable', [Next]_vars, NEW r, r.kind \in Listed,
         NEW a \in Nat, NEW m \in Nat, NEW n \in Nat, a <= m, m <= Len(table), m <= n, n <= Len(table'),
         NEW told, NEW done \in Nat, Walk(r, a, m, told, done)
  PROVE  Walk(r, a, n, told, done)'
<1>1. \A l \in 1 .. m : table'[l] = table[l]
  BY TableGrows
<1>2. Walk(r, a, m, told, done)'
  BY <1>1, WalkSame
<1>3. TypeTable' => \A s : s.kind \in Listed => \A b, k, l, d \in Nat : \A t :
        b <= k /\ k <= l /\ l <= Len(table') /\ Walk(s, b, k, t, d)' => Walk(s, b, l, t, d)'
  BY WalksGoOnNext, Zenon DEF WalksGoOn
<1> QED
  BY <1>2, <1>3, Zenon
----------------------------------------------------------------------------
(* The inductive invariant of a walk from the first page: what was told    *)
(* covers the places up to Done, in the list of the rows there are, or     *)
(* were at the answer; the offset has not wrapped on an answered page; and *)
(* a page is only empty when its offset is past all rows.                  *)
Passed(r) == (r.page - 1) * r.page_size

Told(q) == IF stage[q] = "answered" THEN seen[q] \o records[q] ELSE seen[q]
At(q)   == IF stage[q] = "answered" THEN until[q] ELSE Len(table)
Done(q) == IF stage[q] = "answered" THEN Passed(req[q]) + req[q].page_size ELSE Passed(req[q])

Walking(q) ==
  /\ stage[q] # "idle" /\ sound[q] /\ first[q] = 1 /\ req[q].kind \in Listed
  /\ stage[q] = "answered" => status[q] = "OK"

WalkOf(q) ==
  /\ from[q] <= At(q)
  /\ Passed(req[q]) <= IF stage[q] = "answered" THEN IntLimit - 1 ELSE 2 * IntLimit - 2
  /\ Walk(req[q], from[q], At(q), Told(q), Done(q))
  /\ stage[q] = "answered" /\ records[q] = <<>> =>
       Cardinality(Selected(req[q], until[q])) <= Passed(req[q])

WalkInv == \A q \in Queriers : Walking(q) => WalkOf(q)

LEMMA PassedIs ==
  ASSUME TypeTable, AnswerTypes, NEW q \in Queriers
  PROVE  /\ Passed(req[q]) \in Nat /\ Done(q) \in Nat
         /\ req[q].page_size \in Nat /\ req[q].page_size > 0 /\ req[q].page_size <= IntLimit - 1
         /\ IntLimit \in Nat /\ IntLimit > 0
         /\ Len(table) \in Nat /\ At(q) \in Nat /\ At(q) <= Len(table)
         /\ from[q] \in Nat /\ from[q] <= Len(table)
         /\ seen[q] \in Seq(Record) /\ records[q] \in Seq(Record)
<1>1. /\ req[q].page \in Int /\ req[q].page >= 1
      /\ req[q].page_size \in 1 .. IntLimit - 1 /\ IntLimit \in Nat
  BY LimitsAssumption DEF TypeTable, AnswerTypes, RequestType
<1>2. PICK x, z : x = req[q].page - 1 /\ z = req[q].page_size
  OBVIOUS
<1>3. x \in Nat /\ z \in Nat /\ x * z \in Nat /\ z > 0 /\ z <= IntLimit - 1 /\ IntLimit > 0
  BY <1>1, <1>2
<1>4. Passed(req[q]) \in Nat /\ Done(q) \in Nat
  BY <1>2, <1>3 DEF Passed, Done
<1>5. Len(table) \in Nat /\ At(q) \in Nat /\ At(q) <= Len(table)
  BY LenProperties DEF TypeTable, At
<1>6. /\ from[q] \in Nat /\ from[q] <= since[q] /\ since[q] <= Len(table) /\ since[q] \in Nat
      /\ seen[q] \in Seq(Record) /\ records[q] \in Seq(Record)
  BY DEF TypeTable, AnswerTypes
<1> QED
  BY <1>1, <1>2, <1>3, <1>4, <1>5, <1>6

(* A walk that a step does not take further: its list may get longer.      *)
LEMMA StepKeepsWalk ==
  ASSUME TypeTable, AnswerTypes, TypeTable', AnswerTypes', [Next]_vars, NEW v \in Queriers,
         Walking(v), WalkOf(v),
         req'[v] = req[v], seen'[v] = seen[v], from'[v] = from[v],
         stage'[v] = "answered" <=> stage[v] = "answered",
         stage[v] = "answered" => until'[v] = until[v] /\ records'[v] = records[v]
  PROVE  WalkOf(v)'
<1>1. PICK r, a, m, n, told, done :
        /\ r = req[v] /\ a = from[v] /\ m = At(v) /\ told = Told(v) /\ done = Done(v)
        /\ n = IF stage[v] = "answered" THEN m ELSE Len(table')
  OBVIOUS
<1>2. At(v)' = n /\ Told(v)' = told /\ Done(v)' = done
  BY <1>1 DEF At, Told, Done, Passed
<1>3. /\ a \in Nat /\ m \in Nat /\ m <= Len(table) /\ done \in Nat /\ r.kind \in Listed
      /\ a <= m /\ Walk(r, a, m, told, done)
  BY <1>1, PassedIs DEF Walking, WalkOf
<1>4. Len(table) \in Nat /\ Len(table') \in Nat /\ Len(table) <= Len(table')
      /\ \A l \in 1 .. Len(table) : table'[l] = table[l]
  BY TableGrows
<1>5. n \in Nat /\ m <= n /\ n <= Len(table')
  BY <1>1, <1>3, <1>4
<1>6. Walk(r, a, n, told, done)'
  BY <1>3, <1>5, WalkCarried
<1>7. a <= n
  BY <1>3, <1>5
<1>8. Passed(req[v])' = Passed(r)
  BY <1>1 DEF Passed
<1>9. Passed(r) <= IF stage'[v] = "answered" THEN IntLimit - 1 ELSE 2 * IntLimit - 2
  BY <1>1 DEF WalkOf
<1>10. stage'[v] = "answered" /\ records'[v] = <<>> =>
         Cardinality(Selected(req[v], until[v]))' <= Passed(r)
  <2> SUFFICES ASSUME stage'[v] = "answered", records'[v] = <<>>
               PROVE  Cardinality(Selected(req[v], until[v]))' <= Passed(r)
    OBVIOUS
  <2>1. m = until[v] /\ until'[v] = m /\ req'[v] = r
    BY <1>1 DEF At
  <2>2. \A l \in 1 .. m : table'[l] = table[l]
    BY <1>3, <1>4
  <2>3. Selected(r, m)' = Selected(r, m)
    BY <2>2, Behind
  <2>4. Selected(req[v], until[v])' = Selected(r, m)'
    BY <2>1 DEF Selected, Rows, Time
  <2>5. Cardinality(Selected(r, m)) <= Passed(r)
    BY <1>1, <2>1 DEF WalkOf
  <2> QED
    BY <2>3, <2>4, <2>5
<1>11. Walk(req[v], from[v], At(v), Told(v), Done(v))'
  <2>1. req'[v] = r /\ from'[v] = a
    BY <1>1
  <2> QED
    BY <1>2, <1>6, <2>1
<1> QED
  BY <1>1, <1>2, <1>7, <1>8, <1>9, <1>10, <1>11 DEF WalkOf

(* The first page.                                                         *)
LEMMA CallBeginsWalk ==
  ASSUME TypeTable, AnswerTypes, TypeTable', AnswerTypes', [Next]_vars, NEW v \in Queriers,
         Call(v), Walking(v)'
  PROVE  WalkOf(v)'
<1>1. PICK r \in Requests :
        /\ req' = [req EXCEPT ![v] = Normalised(r)]
        /\ first' = [first EXCEPT ![v] = Normalised(r).page]
        /\ IF Accepts(r)
           THEN stage' = [stage EXCEPT ![v] = "called"]
           ELSE /\ stage' = [stage EXCEPT ![v] = "answered"]
                /\ status' = [status EXCEPT ![v] = "INVALID_ARGUMENT"]
  BY DEF Call
<1>2. req'[v] = Normalised(r) /\ first'[v] = Normalised(r).page
  BY <1>1 DEF TypeTable, AnswerTypes
<1>3. stage'[v] = "called"
  BY <1>1 DEF Walking, TypeTable
<1>4. /\ stage[v] = "idle" /\ table' = table /\ from'[v] = Len(table) /\ seen'[v] = seen[v]
  BY DEF Call, AnswerTypes
<1>5. seen'[v] = <<>>
  BY <1>4 DEF AnswerTypes
<1>6. PICK t, m : t = req'[v] /\ m = Len(table)
  OBVIOUS
<1>7. t.page = 1 /\ t.page_size \in Int /\ t.kind \in Listed
  <2>1. Normalised(r).page = 1 /\ Normalised(r) \in RequestType
    BY <1>2, NormalisedIs DEF Walking
  <2> QED
    BY <1>2, <1>6, <2>1 DEF Walking, RequestType
<1>8. Passed(t) = 0
  BY <1>7 DEF Passed
<1>9. m \in Nat /\ IntLimit \in Nat /\ IntLimit > 0
  BY <1>6, LimitsAssumption, LenProperties DEF TypeTable
<1>10. Walk(t, m, m, <<>>, 0)
  BY <1>6, <1>9, WalkStarts
<1>11. Walk(t, m, m, <<>>, 0)'
  BY <1>4, <1>6, <1>7, <1>9, <1>10, WalkCarried
<1>12. At(v)' = m /\ Told(v)' = <<>> /\ Done(v)' = 0 /\ from'[v] = m /\ Passed(req[v])' = 0
  BY <1>3, <1>4, <1>5, <1>6, <1>8 DEF At, Told, Done, Passed
<1>13. Walk(req[v], from[v], At(v), Told(v), Done(v))'
  BY <1>6, <1>11, <1>12
<1> QED
  BY <1>3, <1>9, <1>12, <1>13 DEF WalkOf

(* The page: its offset is Passed, or else the statement fails.            *)
LEMMA FetchKeepsWalk ==
  ASSUME TypeTable, AnswerTypes, TypeTable', AnswerTypes', [Next]_vars, NEW v \in Queriers,
         Fetch(v), Walking(v), WalkOf(v), Walking(v)'
  PROVE  WalkOf(v)'
<1>1. /\ stage[v] = "fetch" /\ stage'[v] = "answered" /\ table' = table /\ until'[v] = Len(table)
      /\ req'[v] = req[v] /\ from'[v] = from[v] /\ seen'[v] = seen[v]
      /\ Succeeds(v)
  <2>1. sound'[v]
    BY DEF Walking
  <2> QED
    BY <2>1 DEF Fetch, TypeTable
<1>2. PICK r, a, m, told, answer, o, p :
        /\ r = req[v] /\ a = from[v] /\ m = Len(table) /\ told = seen[v] /\ answer = records'[v]
        /\ o = Passed(req[v]) /\ p = req[v].page_size
  OBVIOUS
<1>3. /\ o \in Nat /\ p \in Nat /\ p > 0 /\ m \in Nat /\ a \in Nat /\ a <= m /\ told \in Seq(Record)
      /\ IntLimit \in Nat /\ IntLimit > 0 /\ r.kind \in Listed /\ r.kind \in Paged
  BY <1>2, PassedIs DEF Walking, Paged
<1>4. /\ answer \in Seq(Record) /\ answer \in Answers(r) /\ Offset(r) \in Nat
  BY <1>1, <1>2, <1>3, FetchRecords
<1>5. o <= 2 * IntLimit - 2 /\ Walk(r, a, m, told, o)
  BY <1>1, <1>2 DEF WalkOf, At, Told, Done
<1>6. Offset(r) = o /\ o <= IntLimit - 1
  <2>1. r.page \in Int /\ r.page_size \in Int
    BY <1>2 DEF TypeTable, RequestType
  <2>2. o \in 0 .. 2 * IntLimit - 1 /\ o = (r.page - 1) * r.page_size
    BY <1>2, <1>3, <1>5 DEF Passed
  <2>3. Offset(r) = IF o < IntLimit THEN o ELSE o - 2 * IntLimit
    BY <2>1, <2>2, OffsetIs
  <2> QED
    BY <1>3, <1>4, <1>5, <2>3
<1>7. Walk(r, a, m, told \o answer, o + p)
  BY <1>2, <1>3, <1>4, <1>5, <1>6, WalkReads
<1>8. PICK all, done : all = told \o answer /\ done = o + p
  OBVIOUS
<1>9. Walk(r, a, m, all, done)'
  BY <1>1, <1>2, <1>3, <1>7, <1>8, WalkCarried
<1>10. /\ At(v)' = m /\ Told(v)' = all /\ Done(v)' = done /\ Passed(req[v])' = o
       /\ req'[v] = r /\ from'[v] = a
  BY <1>1, <1>2, <1>8 DEF At, Told, Done, Passed
<1>11. Walk(req[v], from[v], At(v), Told(v), Done(v))'
  BY <1>9, <1>10
<1>12. answer = <<>> => Cardinality(Selected(req[v], until[v]))' <= o
  <2>1. answer = <<>> => Cardinality(Selected(r, Len(table))) <= Offset(r)
    BY <1>2, <1>3, <1>4, ListedPage
  <2>2. Selected(req[v], until[v])' = Selected(r, Len(table))
    BY <1>1, <1>2 DEF Selected, Rows, Time
  <2> QED
    BY <1>6, <2>1, <2>2
<1> QED
  BY <1>1, <1>2, <1>3, <1>6, <1>10, <1>11, <1>12 DEF WalkOf

(* Between the pages the list may get longer.                              *)
LEMMA NextPageKeepsWalk ==
  ASSUME TypeTable, AnswerTypes, TypeTable', AnswerTypes', [Next]_vars, NEW v \in Queriers,
         NextPage(v), Walking(v), WalkOf(v)
  PROVE  WalkOf(v)'
<1>1. /\ stage[v] = "answered" /\ stage'[v] = "called" /\ table' = table
      /\ from'[v] = from[v] /\ seen'[v] = seen[v] \o records[v]
      /\ req'[v] = [req[v] EXCEPT !.page = req[v].page + 1]
  BY DEF NextPage, TypeTable, AnswerTypes
<1>2. PICK r, t, a, m, n, told, done :
        /\ r = req[v] /\ t = req'[v] /\ a = from[v] /\ m = At(v) /\ n = Len(table)
        /\ told = Told(v) /\ done = Done(v)
  OBVIOUS
<1>3. /\ t.page = r.page + 1 /\ t.page_size = r.page_size /\ SameQuery(r, t)
      /\ r.page \in Int /\ r.page_size \in Int
  <2>1. r \in RequestType /\ t = [r EXCEPT !.page = r.page + 1]
    BY <1>1, <1>2 DEF TypeTable
  <2> QED
    BY <2>1 DEF RequestType, SameQuery
<1>4. /\ m \in Nat /\ n \in Nat /\ m <= n /\ a \in Nat /\ a <= m /\ done \in Nat /\ r.kind \in Listed
      /\ Passed(r) \in Nat /\ r.page_size \in Nat /\ r.page_size <= IntLimit - 1 /\ IntLimit \in Nat
      /\ Walk(r, a, m, told, done)
  BY <1>2, PassedIs DEF WalkOf, Walking
<1>5. t.kind \in Listed /\ Walk(t, a, m, told, done)
  BY <1>3, <1>4, WalkOfNextPage DEF SameQuery
<1>6. Walk(t, a, n, told, done)'
  <2>1. m <= Len(table) /\ n <= Len(table')
    BY <1>1, <1>2, <1>4
  <2> QED
    BY <1>4, <1>5, <2>1, WalkCarried
<1>7. Passed(t) = Passed(r) + r.page_size
  <2>1. PICK x, z : x = r.page /\ z = r.page_size
    OBVIOUS
  <2>2. ((x + 1) - 1) * z = (x - 1) * z + z
    BY <1>3, <2>1
  <2> QED
    BY <1>3, <2>1, <2>2 DEF Passed
<1>8. done = Passed(r) + r.page_size /\ told = seen[v] \o records[v]
  BY <1>1, <1>2 DEF Done, Told
<1>9. Passed(r) <= IntLimit - 1
  BY <1>1, <1>2 DEF WalkOf
<1>10. Passed(req[v])' = Passed(t)
  BY <1>2 DEF Passed
<1>11. At(v)' = n /\ Told(v)' = told /\ Done(v)' = done /\ from'[v] = a /\ req'[v] = t
  <2>1. At(v)' = n /\ Told(v)' = told /\ from'[v] = a /\ req'[v] = t
    BY <1>1, <1>2, <1>8 DEF At, Told
  <2>2. Done(v)' = Passed(t)
    BY <1>1, <1>10 DEF Done
  <2> QED
    BY <1>7, <1>8, <2>1, <2>2
<1>12. Walk(req[v], from[v], At(v), Told(v), Done(v))'
  BY <1>6, <1>11
<1>13. Passed(t) <= 2 * IntLimit - 2
  BY <1>4, <1>7, <1>9
<1> QED
  BY <1>1, <1>4, <1>10, <1>11, <1>12, <1>13 DEF WalkOf

LEMMA NextKeepsWalkInv ==
  ASSUME TypeTable, AnswerTypes, WalkInv, [Next]_vars
  PROVE  WalkInv'
<1> SUFFICES ASSUME NEW v \in Queriers, Walking(v)' PROVE WalkOf(v)'
  BY DEF WalkInv
<1>1. TypeTable' /\ AnswerTypes'
  BY NextKeepsTypeTable, NextKeepsAnswerTypes
<1>2. Walking(v) => WalkOf(v)
  BY DEF WalkInv
<1>3. /\ stage'[v] # "idle" /\ sound'[v] /\ first'[v] = 1 /\ req'[v].kind \in Listed
      /\ stage'[v] = "answered" => status'[v] = "OK"
  BY DEF Walking
<1>4. CASE Unmoved(v)
  BY <1>1, <1>2, <1>3, <1>4, StepKeepsWalk DEF Unmoved, Walking
<1>5. CASE Call(v)
  BY <1>1, <1>5, CallBeginsWalk
<1>6. CASE Lock(v)
  <2>1. /\ stage[v] = "called" /\ stage'[v] \in {"count", "fetch"} /\ sound[v]
        /\ req'[v] = req[v] /\ seen'[v] = seen[v] /\ from'[v] = from[v] /\ first'[v] = first[v]
    BY <1>3, <1>6 DEF Lock, TypeTable
  <2> QED
    BY <1>1, <1>2, <1>3, <2>1, StepKeepsWalk DEF Walking
<1>7. CASE Count(v)
  <2>1. /\ stage[v] = "count" /\ stage'[v] = "fetch" /\ sound[v]
        /\ req'[v] = req[v] /\ seen'[v] = seen[v] /\ from'[v] = from[v] /\ first'[v] = first[v]
    BY <1>3, <1>7 DEF Count, TypeTable
  <2> QED
    BY <1>1, <1>2, <1>3, <2>1, StepKeepsWalk DEF Walking
<1>8. CASE Fetch(v)
  <2>1. stage[v] = "fetch" /\ sound[v] /\ req'[v] = req[v] /\ first'[v] = first[v]
    BY <1>3, <1>8 DEF Fetch, TypeTable
  <2> QED
    BY <1>1, <1>2, <1>3, <1>8, <2>1, FetchKeepsWalk DEF Walking
<1>9. CASE NextPage(v)
  <2>1. /\ stage[v] = "answered" /\ status[v] = "OK" /\ sound[v] /\ first'[v] = first[v]
        /\ req'[v].kind = req[v].kind
    BY <1>3, <1>9 DEF NextPage, TypeTable, AnswerTypes, RequestType
  <2> QED
    BY <1>1, <1>2, <1>3, <1>9, <2>1, NextPageKeepsWalk DEF Walking
<1> QED
  BY <1>4, <1>5, <1>6, <1>7, <1>8, <1>9, MovesOf DEF Moves

LEMMA InitWalkInv == Init => WalkInv
BY DEF Init, WalkInv, Walking

(* A client that walks through the pages of a query ordered by time from   *)
(* the first one misses no row that was there when it began, whatever is   *)
(* inserted between the pages and between the two statements of a page, if *)
(* no rows tie (LIMIT and OFFSET of query_manager.cpp), for any requests,  *)
(* page sizes and width of the offset.                                     *)
THEOREM WalkComplete == Spec => []WalkMissesNothing
<1>1. Init => TypeTable /\ AnswerTypes /\ WalkInv
  BY InitTypeTable, InitAnswerTypes, InitWalkInv
<1>2. TypeTable /\ AnswerTypes /\ WalkInv /\ [Next]_vars => TypeTable' /\ AnswerTypes' /\ WalkInv'
  BY NextKeepsTypeTable, NextKeepsAnswerTypes, NextKeepsWalkInv
<1>3. TypeTable /\ AnswerTypes /\ WalkInv => WalkMissesNothing
  <2> SUFFICES ASSUME TypeTable, AnswerTypes, WalkInv, NEW q \in Queriers, Walked(q), NoTies(q),
                      NEW x \in Selected(req[q], from[q])
               PROVE  x \in RowsOf(seen[q])
    BY DEF WalkMissesNothing
  <2>1. WalkOf(q) /\ stage[q] = "answered" /\ records[q] = <<>> /\ req[q].kind \in Listed
    BY DEF WalkInv, Walked, Walking
  <2>2. PICK r, a, m, told, N : r = req[q] /\ a = from[q] /\ m = until[q] /\ told = seen[q] /\ N = Len(table)
    OBVIOUS
  <2>3. m \in Nat /\ N \in Nat /\ m <= N /\ told \in Seq(Record) /\ At(q) = m
    BY <2>1, <2>2, PassedIs DEF At
  <2>4. Untied(r, m) /\ Rank(r, x, m) \in Nat
    <3>1. Untied(r, N)
      BY <2>2 DEF NoTies, Untied
    <3> QED
      BY <2>1, <2>2, <2>3, <3>1, MoreRows
  <2>5. Told(q) = told
    <3>1. Told(q) = told \o <<>>
      BY <2>1, <2>2 DEF Told
    <3> QED
      BY <2>3, <3>1, ConcatEmptySeq
  <2>6. Rank(r, x, m) <= Cardinality(Selected(r, m)) /\ Cardinality(Selected(r, m)) \in Nat
    BY <2>2, <2>3, RankType, RowTypes
  <2>7. PICK o, p : o = Passed(r) /\ p = r.page_size
    OBVIOUS
  <2>8. Done(q) = o + p /\ o \in Nat /\ p \in Nat /\ Cardinality(Selected(r, m)) <= o
    BY <2>1, <2>2, <2>7, PassedIs DEF Done, WalkOf
  <2>9. Rank(r, x, m) <= Done(q)
    BY <2>4, <2>6, <2>8
  <2>10. Misses(r, a, m, told, Done(q))
    BY <2>1, <2>2, <2>3, <2>5 DEF WalkOf, Walk
  <2> QED
    BY <2>2, <2>4, <2>9, <2>10 DEF Misses
<1> QED
  BY <1>1, <1>2, <1>3, PTL DEF Spec

(* When no row was inserted meanwhile, its pages put together are the      *)
(* whole answer: nothing twice, and in order.                              *)
THEOREM WalkFaithful == Spec => []WalkIsExact
<1>1. Init => TypeTable /\ AnswerTypes /\ WalkInv
  BY InitTypeTable, InitAnswerTypes, InitWalkInv
<1>2. TypeTable /\ AnswerTypes /\ WalkInv /\ [Next]_vars => TypeTable' /\ AnswerTypes' /\ WalkInv'
  BY NextKeepsTypeTable, NextKeepsAnswerTypes, NextKeepsWalkInv
<1>3. TypeTable /\ AnswerTypes /\ WalkInv => WalkIsExact
  <2> SUFFICES ASSUME TypeTable, AnswerTypes, WalkInv, NEW q \in Queriers, Walked(q), NoTies(q),
                      Selected(req[q], Len(table)) = Selected(req[q], from[q]),
                      NEW s \in Orderings(req[q], Selected(req[q], from[q]))
               PROVE  seen[q] = FlattenSeq([i \in DOMAIN s |-> RecordsOf(req[q], s[i])])
    BY DEF WalkIsExact
  <2>1. WalkOf(q) /\ stage[q] = "answered" /\ records[q] = <<>> /\ req[q].kind \in Listed
    BY DEF WalkInv, Walked, Walking
  <2>2. PICK r, a, m, told, N : r = req[q] /\ a = from[q] /\ m = until[q] /\ told = seen[q] /\ N = Len(table)
    OBVIOUS
  <2>3. /\ m \in Nat /\ N \in Nat /\ m <= N /\ a \in Nat /\ a <= m /\ told \in Seq(Record)
        /\ At(q) = m
    BY <2>1, <2>2, PassedIs DEF At, WalkOf
  <2>4. Untied(r, m) /\ Selected(r, m) = Selected(r, a)
    <3>1. Untied(r, N) /\ Selected(r, N) = Selected(r, a)
      BY <2>2 DEF NoTies, Untied
    <3>2. N <= Len(table) /\ m <= Len(table) /\ r.kind \in Listed
      BY <2>1, <2>2, <2>3
    <3>3. Selected(r, m) \subseteq Selected(r, N) /\ (Untied(r, N) => Untied(r, m))
      BY <2>2, <2>3, <3>2, MoreRows
    <3>4. Selected(r, a) \subseteq Selected(r, m)
      BY <2>3, <3>2, MoreRows
    <3> QED
      BY <3>1, <3>3, <3>4
  <2>5. Told(q) = told
    <3>1. Told(q) = told \o <<>>
      BY <2>1, <2>2 DEF Told
    <3> QED
      BY <2>3, <3>1, ConcatEmptySeq
  <2>6. IsFiniteSet(Selected(r, m))
    BY <2>2, <2>3, RowTypes
  <2>7. PICK k : k = Len(s)
    OBVIOUS
  <2>8. k = Cardinality(Selected(r, m)) /\ k \in Nat /\ DOMAIN s = 1 .. k
    BY <2>2, <2>4, <2>6, <2>7, OrderingIs
  <2>9. PICK o, p : o = Passed(r) /\ p = r.page_size
    OBVIOUS
  <2>10. Done(q) = o + p /\ o \in Nat /\ p \in Nat /\ k <= o
    BY <2>1, <2>2, <2>8, <2>9, PassedIs DEF Done, WalkOf
  <2>11. (IF Done(q) < Len(s) THEN Done(q) ELSE Len(s)) = k
    BY <2>7, <2>8, <2>10
  <2>12. Exact(r, a, m, told, Done(q))
    BY <2>1, <2>2, <2>3, <2>5 DEF WalkOf, Walk
  <2>13. told = Prefix(r, s, Done(q))
    BY <2>2, <2>4, <2>12 DEF Exact
  <2> QED
    BY <2>2, <2>8, <2>11, <2>13 DEF Prefix
<1> QED
  BY <1>1, <1>2, <1>3, PTL DEF Spec
=============================================================================
