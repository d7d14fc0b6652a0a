------------------------ MODULE NetEbpfMonitorProofs ------------------------
(***************************************************************************)
(* Proofs about the eBPF network statistics (NetStats, NetEbpfMonitor),    *)
(* for any number of CPUs, interfaces, elements and packets and any hash   *)
(* function: the kernel gives no element away twice; a packet is lost only *)
(* in the race of CPUs to create an element; the walk over the map misses  *)
(* no interface although keys are inserted while it walks; and the monitor *)
(* tells no packet twice.                                                  *)
(***************************************************************************)
EXTENDS NetEbpfMonitor, SequenceTheorems, FiniteSetTheorems, WellFoundedInduction, TLAPS

(***************************************************************************)
(* The walk over the map follows a list of its keys: each once, bucket     *)
(* after bucket.                                                           *)
(***************************************************************************)
Listing(s, K) ==
  /\ s \in Seq(Ifs)
  /\ {s[i] : i \in DOMAIN s} = K
  /\ \A i, j \in DOMAIN s : s[i] = s[j] => i = j
  /\ \A i, j \in DOMAIN s : i < j => Bucket(s[i]) <= Bucket(s[j])

Before(s, x, y) == \E i, j \in DOMAIN s : i < j /\ s[i] = x /\ s[j] = y

(* A set of naturals that is not empty has a least element.                *)
LEMMA Least ==
  ASSUME NEW T, T \subseteq Nat, T # {}
  PROVE  \E n \in T : \A m \in T : n <= m
<1>1. IsWellFoundedOn(OpToRel(<, Nat), Nat)
  BY NatLessThanWellFounded
<1>2. OpToRel(<, Nat) = {ss \in Nat \X Nat : ss[1] < ss[2]}
  BY DEF OpToRel
<1>3. PICK x \in T : \A y \in T : ~ (<<y, x>> \in {ss \in Nat \X Nat : ss[1] < ss[2]})
  BY <1>1, <1>2, WFMin
<1>4. \A y \in T : ~ (y < x)
  <2> TAKE y \in T
  <2>1. <<y, x>> \in Nat \X Nat
    OBVIOUS
  <2>2. ~ (<<y, x>> \in {ss \in Nat \X Nat : ss[1] < ss[2]})
    BY <1>3
  <2> QED
    BY <2>1, <2>2
<1> QED
  BY <1>4

(* Taking a key out of a list, and what stays as it was.                   *)
LEMMA RemoveFromListing ==
  ASSUME NEW s, NEW K, Listing(s, K), NEW i \in DOMAIN s
  PROVE  /\ Listing(RemoveAt(s, i), K \ {s[i]})
         /\ \A x, y : Before(s, x, y) /\ x # s[i] /\ y # s[i]
                        => Before(RemoveAt(s, i), x, y)
<1> DEFINE l == SubSeq(s, 1, i - 1)
           r == SubSeq(s, i + 1, Len(s))
           t == RemoveAt(s, i)
           at(j) == IF j < i THEN j ELSE j + 1
<1>0. /\ s \in Seq(Ifs) /\ Len(s) \in Nat /\ DOMAIN s = 1 .. Len(s) /\ i \in 1 .. Len(s)
      /\ \A j \in 1 .. Len(s) : s[j] \in Ifs
  BY LenProperties, ElementOfSeq DEF Listing
<1>1. /\ l \in Seq(Ifs) /\ Len(l) = i - 1
      /\ \A j \in 1 .. i - 1 : l[j] = s[j]
  <2>1. /\ l \in Seq(Ifs) /\ Len(l) = IF 1 <= i - 1 THEN i - 1 - 1 + 1 ELSE 0
        /\ \A j \in 1 .. i - 1 - 1 + 1 : l[j] = s[1 + j - 1]
    BY <1>0, SubSeqProperties
  <2> QED
    BY <2>1, <1>0
<1>2. /\ r \in Seq(Ifs) /\ Len(r) = Len(s) - i
      /\ \A j \in 1 .. Len(s) - i : r[j] = s[j + i]
  <2>1. /\ r \in Seq(Ifs) /\ Len(r) = IF i + 1 <= Len(s) THEN Len(s) - (i + 1) + 1 ELSE 0
        /\ \A j \in 1 .. Len(s) - (i + 1) + 1 : r[j] = s[(i + 1) + j - 1]
    BY <1>0, SubSeqProperties
  <2> QED
    BY <2>1, <1>0
<1>3. /\ t \in Seq(Ifs) /\ Len(t) = Len(s) - 1 /\ DOMAIN t = 1 .. Len(s) - 1
      /\ \A j \in 1 .. Len(s) - 1 : t[j] = s[at(j)] /\ at(j) \in 1 .. Len(s) /\ at(j) # i
  <2>1. t = l \o r
    BY DEF RemoveAt
  <2> HIDE DEF l, r, t
  <2>2. /\ t \in Seq(Ifs) /\ Len(t) = Len(l) + Len(r)
        /\ \A j \in 1 .. Len(l) + Len(r) : t[j] = IF j <= Len(l) THEN l[j] ELSE r[j - Len(l)]
    BY <1>1, <1>2, <2>1, ConcatProperties, Zenon
  <2>3. Len(t) = Len(s) - 1 /\ DOMAIN t = 1 .. Len(s) - 1
    BY <2>2, <1>1, <1>2, <1>0, LenProperties
  <2>4. ASSUME NEW j \in 1 .. Len(s) - 1
        PROVE  t[j] = s[at(j)] /\ at(j) \in 1 .. Len(s) /\ at(j) # i
    <3>1. CASE j < i
      BY <3>1, <2>2, <1>0, <1>1, <1>2
    <3>2. CASE ~ (j < i)
      <4>1. j - (i - 1) \in 1 .. Len(s) - i /\ j \in 1 .. Len(l) + Len(r) /\ ~ (j <= Len(l))
        BY <3>2, <1>0, <1>1, <1>2
      <4>2. t[j] = r[j - (i - 1)]
        BY <4>1, <2>2, <1>1
      <4>3. r[j - (i - 1)] = s[j - (i - 1) + i]
        BY <4>1, <1>2
      <4>4. j - (i - 1) + i = j + 1
        BY <1>0
      <4> QED
        BY <3>2, <4>2, <4>3, <4>4, <1>0
    <3> QED
      BY <3>1, <3>2
  <2> QED
    BY <2>2, <2>3, <2>4
<1>4. \A j \in 1 .. Len(s) : j # i => \E m \in 1 .. Len(s) - 1 : t[m] = s[j] /\ at(m) = j
  <2> SUFFICES ASSUME NEW j \in 1 .. Len(s), j # i
               PROVE  \E m \in 1 .. Len(s) - 1 : at(m) = j
    BY <1>3
  <2>1. CASE j < i
    BY <2>1, <1>0
  <2>2. CASE i < j
    <3>1. j - 1 \in 1 .. Len(s) - 1 /\ at(j - 1) = j
      BY <2>2, <1>0
    <3> QED
      BY <3>1
  <2> QED
    BY <2>1, <2>2, <1>0
<1>at. \A j, m \in 1 .. Len(s) - 1 : /\ at(j) = at(m) => j = m
                                     /\ j < m => at(j) < at(m)
                                     /\ at(j) < at(m) => j < m
  BY <1>0
<1> HIDE DEF t, at
<1>5. {t[j] : j \in DOMAIN t} = K \ {s[i]}
  <2>1. ASSUME NEW j \in DOMAIN t PROVE t[j] \in K \ {s[i]}
    <3>1. t[j] = s[at(j)] /\ at(j) \in DOMAIN s /\ at(j) # i
      BY <1>0, <1>3
    <3>2. s[at(j)] \in K /\ s[at(j)] # s[i]
      BY <3>1 DEF Listing
    <3> QED
      BY <3>1, <3>2
  <2>2. ASSUME NEW x \in K \ {s[i]} PROVE \E j \in DOMAIN t : t[j] = x
    <3>1. PICK j \in DOMAIN s : s[j] = x
      BY DEF Listing
    <3> QED
      BY <3>1, <1>0, <1>3, <1>4
  <2> QED
    BY <2>1, <2>2
<1>6. \A j, m \in DOMAIN t : t[j] = t[m] => j = m
  BY <1>0, <1>3, <1>at DEF Listing
<1>7. ASSUME NEW j \in DOMAIN t, NEW m \in DOMAIN t, j < m
      PROVE  Bucket(t[j]) <= Bucket(t[m])
  <2>1. t[j] = s[at(j)] /\ t[m] = s[at(m)] /\ at(j) \in DOMAIN s /\ at(m) \in DOMAIN s
    BY <1>0, <1>3
  <2>2. at(j) < at(m)
    BY <1>3, <1>7, <1>at
  <2> QED
    BY <2>1, <2>2 DEF Listing
<1>8. ASSUME NEW x, NEW y, Before(s, x, y), x # s[i], y # s[i]
      PROVE  Before(t, x, y)
  <2>1. PICK j \in DOMAIN s, m \in DOMAIN s : j < m /\ s[j] = x /\ s[m] = y
    BY <1>8 DEF Before
  <2>2. PICK jj \in 1 .. Len(s) - 1 : t[jj] = x /\ at(jj) = j
    BY <2>1, <1>0, <1>4, <1>8
  <2>3. PICK mm \in 1 .. Len(s) - 1 : t[mm] = y /\ at(mm) = m
    BY <2>1, <1>0, <1>4, <1>8
  <2>4. jj < mm
    BY <2>1, <2>2, <2>3, <1>at
  <2> QED
    BY <2>2, <2>3, <2>4, <1>3 DEF Before
<1>9. Listing(t, K \ {s[i]})
  BY <1>3, <1>5, <1>6, <1>7 DEF Listing
<1> QED
  BY <1>8, <1>9 DEF t

(* Those behind which a key is put are the first ones.                     *)
LEMMA HeadOfBucket ==
  ASSUME NEW s, NEW K, Listing(s, K), NEW k \in Ifs
  PROVE  LET before == {i \in DOMAIN s : Bucket(s[i]) < Bucket(k)}
         IN  Cardinality(before) \in 0 .. Len(s) /\ before = 1 .. Cardinality(before)
<1> DEFINE before == {i \in DOMAIN s : Bucket(s[i]) < Bucket(k)}
           T == (1 .. Len(s) + 1) \ before
<1>0. /\ Len(s) \in Nat /\ DOMAIN s = 1 .. Len(s)
      /\ \A j \in 1 .. Len(s) : s[j] \in Ifs /\ Bucket(s[j]) \in Nat
      /\ Bucket(k) \in Nat
  BY LenProperties, ElementOfSeq, BucketAssumption DEF Listing
<1>1. T \subseteq Nat /\ Len(s) + 1 \in T
  BY <1>0
<1>2. PICK n \in T : \A m \in T : n <= m
  BY <1>1, Least
<1>3. n - 1 \in 0 .. Len(s)
  BY <1>2, <1>0
<1>4. \A i \in 1 .. n - 1 : i \in before
  BY <1>2, <1>0
<1>5. \A i \in before : i < n
  BY <1>2, <1>0 DEF Listing
<1>6. before = 1 .. n - 1
  BY <1>0, <1>3, <1>4, <1>5
<1>7. Cardinality(1 .. n - 1) = n - 1
  BY <1>3, FS_Interval
<1> QED
  BY <1>3, <1>6, <1>7

(* Putting a key at the head of its bucket.                                *)
LEMMA InsertIntoListing ==
  ASSUME NEW s, NEW K, Listing(s, K), NEW k \in Ifs, k \notin K
  PROVE  LET before == {i \in DOMAIN s : Bucket(s[i]) < Bucket(k)}
             t == InsertAt(s, Cardinality(before) + 1, k)
         IN  /\ Listing(t, K \union {k})
             /\ \A x, y : Before(s, x, y) => Before(t, x, y)
             /\ \A y \in K : Bucket(k) <= Bucket(y) => Before(t, k, y)
<1> DEFINE before == {i \in DOMAIN s : Bucket(s[i]) < Bucket(k)}
           n == Cardinality(before)
           t == InsertAt(s, n + 1, k)
           l == SubSeq(s, 1, (n + 1) - 1)
           r == SubSeq(s, n + 1, Len(s))
           of(j) == IF j <= n THEN j ELSE j + 1
<1>0. /\ s \in Seq(Ifs) /\ Len(s) \in Nat /\ DOMAIN s = 1 .. Len(s)
      /\ \A j \in 1 .. Len(s) : s[j] \in Ifs /\ Bucket(s[j]) \in Nat
      /\ Bucket(k) \in Nat
  BY LenProperties, ElementOfSeq, BucketAssumption DEF Listing
<1>1. n \in 0 .. Len(s) /\ before = 1 .. n
  BY HeadOfBucket
<1>2. \A j \in 1 .. Len(s) : Bucket(s[j]) < Bucket(k) <=> j <= n
  BY <1>0, <1>1
<1>3. t = (l \o <<k>>) \o r
  BY DEF InsertAt
<1> HIDE DEF n, before
<1>4. /\ l \in Seq(Ifs) /\ Len(l) = n
      /\ \A j \in 1 .. n : l[j] = s[j]
  <2>1. /\ l \in Seq(Ifs) /\ Len(l) = IF 1 <= (n + 1) - 1 THEN (n + 1) - 1 - 1 + 1 ELSE 0
        /\ \A j \in 1 .. (n + 1) - 1 - 1 + 1 : l[j] = s[1 + j - 1]
    BY <1>0, <1>1, SubSeqProperties
  <2> QED
    BY <2>1, <1>0, <1>1
<1>5. /\ r \in Seq(Ifs) /\ Len(r) = Len(s) - n
      /\ \A j \in 1 .. Len(s) - n : r[j] = s[j + n]
  <2>1. /\ r \in Seq(Ifs) /\ Len(r) = IF n + 1 <= Len(s) THEN Len(s) - (n + 1) + 1 ELSE 0
        /\ \A j \in 1 .. Len(s) - (n + 1) + 1 : r[j] = s[(n + 1) + j - 1]
    BY <1>0, <1>1, SubSeqProperties
  <2> HIDE DEF r
  <2>2. Len(s) - (n + 1) + 1 = Len(s) - n /\ Len(r) = Len(s) - n
    <3> DEFINE L == Len(s)
    <3>1. L \in Nat /\ n \in 0 .. L
      BY <1>0, <1>1
    <3> HIDE DEF L
    <3>2. /\ L - (n + 1) + 1 = L - n
          /\ (IF n + 1 <= L THEN L - (n + 1) + 1 ELSE 0) = L - n
      BY <3>1
    <3> QED
      BY <2>1, <3>2 DEF L
  <2>3. \A j \in 1 .. Len(s) - n : (n + 1) + j - 1 = j + n
    BY <1>0, <1>1
  <2> QED
    BY <2>1, <2>2, <2>3
<1> DEFINE ll == Append(l, k)
<1>6. /\ l \o <<k>> = ll /\ ll \in Seq(Ifs) /\ Len(ll) = n + 1
      /\ \A j \in 1 .. n : ll[j] = s[j]
      /\ ll[n + 1] = k
  <2> HIDE DEF l
  <2>1. l \o <<k>> = ll
    BY <1>4, AppendIsConcat
  <2>2. /\ ll \in Seq(Ifs) /\ Len(ll) = Len(l) + 1
        /\ \A j \in 1 .. Len(l) : ll[j] = l[j]
        /\ ll[Len(l) + 1] = k
    BY <1>4, AppendProperties
  <2> QED
    BY <2>1, <2>2, <1>4
<1> HIDE DEF ll, l, r, t
<1>7. /\ t \in Seq(Ifs) /\ Len(t) = Len(s) + 1 /\ DOMAIN t = 1 .. Len(s) + 1
      /\ \A j \in 1 .. n : t[j] = s[j]
      /\ t[n + 1] = k
      /\ \A j \in n + 1 .. Len(s) : t[j + 1] = s[j]
  <2>1. /\ t \in Seq(Ifs) /\ Len(t) = Len(ll) + Len(r)
        /\ \A j \in 1 .. Len(ll) + Len(r) : t[j] = IF j <= Len(ll) THEN ll[j] ELSE r[j - Len(ll)]
    <3>1. t = ll \o r
      BY <1>3, <1>6
    <3>2. ll \in Seq(Ifs) /\ r \in Seq(Ifs)
      BY <1>5, <1>6
    <3>3. /\ ll \o r \in Seq(Ifs) /\ Len(ll \o r) = Len(ll) + Len(r)
          /\ \A j \in 1 .. Len(ll) + Len(r) :
               (ll \o r)[j] = IF j <= Len(ll) THEN ll[j] ELSE r[j - Len(ll)]
      BY <3>2, ConcatProperties
    <3> QED
      BY <3>1, <3>3
  <2>2. Len(t) = Len(s) + 1 /\ Len(ll) + Len(r) = Len(s) + 1
    <3>1. \A x \in Nat : \A y \in 0 .. x : (y + 1) + (x - y) = x + 1
      OBVIOUS
    <3>2. (n + 1) + (Len(s) - n) = Len(s) + 1
      BY <3>1, <1>0, <1>1
    <3> QED
      BY <3>2, <2>1, <1>5, <1>6
  <2>3. DOMAIN t = 1 .. Len(s) + 1
    BY <2>1, <2>2, LenProperties
  <2>4. \A j \in 1 .. n + 1 : t[j] = ll[j]
    <3>1. \A j \in 1 .. n + 1 : j \in 1 .. Len(s) + 1 /\ j <= n + 1
      BY <1>0, <1>1
    <3> QED
      BY <3>1, <2>1, <2>2, <1>6
  <2>5. ASSUME NEW j \in n + 1 .. Len(s)
        PROVE  t[j + 1] = s[j]
    <3>1. /\ j + 1 \in 1 .. Len(s) + 1 /\ ~ (j + 1 <= n + 1)
          /\ (j + 1) - (n + 1) = j - n /\ j - n \in 1 .. Len(s) - n /\ (j - n) + n = j
      BY <1>0, <1>1
    <3>2. t[j + 1] = r[(j + 1) - (n + 1)]
      BY <3>1, <2>1, <2>2, <1>6
    <3> QED
      BY <3>1, <3>2, <1>5
  <2>6. \A j \in 1 .. n : j \in 1 .. n + 1
    BY <1>1
  <2>7. n + 1 \in 1 .. n + 1
    BY <1>1
  <2> QED
    BY <2>1, <2>2, <2>3, <2>4, <2>5, <2>6, <2>7, <1>6
<1>of. \A j \in 1 .. Len(s) : of(j) \in 1 .. Len(s) + 1 /\ of(j) # n + 1 /\ t[of(j)] = s[j]
  BY <1>0, <1>1, <1>7
<1>mono. \A j, m \in 1 .. Len(s) : /\ j < m => of(j) < of(m)
                                   /\ of(j) < of(m) => j < m
                                   /\ j <= n => of(j) < n + 1
                                   /\ of(j) < n + 1 => j <= n
  BY <1>0, <1>1
<1>8. \A m \in 1 .. Len(s) + 1 : m = n + 1 \/ \E j \in 1 .. Len(s) : m = of(j)
  <2> TAKE m \in 1 .. Len(s) + 1
  <2>1. CASE m <= n
    BY <2>1, <1>0, <1>1
  <2>2. CASE m > n + 1
    <3>1. m - 1 \in 1 .. Len(s) /\ m = of(m - 1)
      BY <2>2, <1>0, <1>1
    <3> QED
      BY <3>1
  <2> QED
    BY <2>1, <2>2, <1>1
<1> HIDE DEF of
<1>9. {t[j] : j \in DOMAIN t} = K \union {k}
  <2>1. ASSUME NEW m \in DOMAIN t
        PROVE  t[m] \in K \union {k}
    <3>1. CASE m = n + 1
      BY <3>1, <1>7
    <3>2. CASE m # n + 1
      <4>1. PICK j \in 1 .. Len(s) : m = of(j)
        BY <3>2, <1>7, <1>8
      <4>2. t[m] = s[j] /\ j \in DOMAIN s
        BY <4>1, <1>0, <1>of
      <4> QED
        BY <4>2 DEF Listing
    <3> QED
      BY <3>1, <3>2
  <2>2. n + 1 \in DOMAIN t /\ t[n + 1] = k
    BY <1>0, <1>1, <1>7
  <2>3. ASSUME NEW x \in K
        PROVE  \E m \in DOMAIN t : t[m] = x
    <3>1. PICK j \in 1 .. Len(s) : s[j] = x
      BY <1>0 DEF Listing
    <3> QED
      BY <3>1, <1>7, <1>of
  <2> QED
    BY <2>1, <2>2, <2>3
<1>10. \A j \in 1 .. Len(s) : s[j] # k
  BY <1>0 DEF Listing
<1>11. ASSUME NEW j \in DOMAIN t, NEW m \in DOMAIN t, t[j] = t[m]
       PROVE  j = m
  <2>0. \A x \in DOMAIN t : x = n + 1 \/ t[x] # k
    <3> TAKE x \in DOMAIN t
    <3> SUFFICES ASSUME x # n + 1 PROVE t[x] # k
      OBVIOUS
    <3>1. PICK z \in 1 .. Len(s) : x = of(z)
      BY <1>7, <1>8
    <3> QED
      BY <3>1, <1>10, <1>of
  <2>1. CASE j = n + 1 \/ m = n + 1
    BY <2>0, <2>1, <1>11, <1>7
  <2>2. CASE j # n + 1 /\ m # n + 1
    <3>1. PICK jj \in 1 .. Len(s) : j = of(jj)
      BY <2>2, <1>7, <1>8
    <3>2. PICK mm \in 1 .. Len(s) : m = of(mm)
      BY <2>2, <1>7, <1>8
    <3>3. s[jj] = s[mm] /\ jj \in DOMAIN s /\ mm \in DOMAIN s
      BY <3>1, <3>2, <1>11, <1>0, <1>of
    <3>4. jj = mm
      BY <3>3 DEF Listing
    <3> QED
      BY <3>1, <3>2, <3>4
  <2> QED
    BY <2>1, <2>2
<1>12. ASSUME NEW j \in DOMAIN t, NEW m \in DOMAIN t, j < m
       PROVE  Bucket(t[j]) <= Bucket(t[m])
  <2>1. CASE j = n + 1
    <3>1. PICK mm \in 1 .. Len(s) : m = of(mm)
      BY <2>1, <1>0, <1>1, <1>12, <1>7, <1>8
    <3>2. ~ (mm <= n)
      BY <3>1, <2>1, <1>12, <1>0, <1>1, <1>mono, <1>of
    <3>3. ~ (Bucket(s[mm]) < Bucket(k)) /\ t[m] = s[mm] /\ t[j] = k
      BY <3>1, <3>2, <2>1, <1>2, <1>7, <1>of
    <3> QED
      BY <3>3, <1>0
  <2>2. CASE m = n + 1
    <3>1. PICK jj \in 1 .. Len(s) : j = of(jj)
      BY <2>2, <1>0, <1>1, <1>12, <1>7, <1>8
    <3>2. jj <= n
      BY <3>1, <2>2, <1>12, <1>mono
    <3>3. Bucket(s[jj]) < Bucket(k) /\ t[j] = s[jj] /\ t[m] = k
      BY <3>1, <3>2, <2>2, <1>2, <1>7, <1>of
    <3> QED
      BY <3>3, <1>0
  <2>3. CASE j # n + 1 /\ m # n + 1
    <3>1. PICK jj \in 1 .. Len(s) : j = of(jj)
      BY <2>3, <1>7, <1>8
    <3>2. PICK mm \in 1 .. Len(s) : m = of(mm)
      BY <2>3, <1>7, <1>8
    <3>3. jj < mm
      BY <3>1, <3>2, <1>12, <1>mono
    <3>4. t[j] = s[jj] /\ t[m] = s[mm]
      BY <3>1, <3>2, <1>of
    <3> QED
      BY <3>3, <3>4, <1>0 DEF Listing
  <2> QED
    BY <2>1, <2>2, <2>3
<1>13. ASSUME NEW x, NEW y, Before(s, x, y)
       PROVE  Before(t, x, y)
  <2>1. PICK j \in 1 .. Len(s), m \in 1 .. Len(s) : j < m /\ s[j] = x /\ s[m] = y
    BY <1>0, <1>13 DEF Before
  <2>2. of(j) \in DOMAIN t /\ of(m) \in DOMAIN t /\ of(j) < of(m) /\ t[of(j)] = x /\ t[of(m)] = y
    BY <2>1, <1>7, <1>of, <1>mono
  <2> QED
    BY <2>2 DEF Before
<1>14. ASSUME NEW y \in K, Bucket(k) <= Bucket(y)
       PROVE  Before(t, k, y)
  <2>1. PICK j \in 1 .. Len(s) : s[j] = y
    BY <1>0 DEF Listing
  <2>2. ~ (j <= n)
    <3>1. Bucket(s[j]) \in Nat /\ ~ (Bucket(s[j]) < Bucket(k))
      BY <2>1, <1>0, <1>14
    <3> QED
      BY <3>1, <1>2
  <2>3. n + 1 < of(j) /\ of(j) \in DOMAIN t /\ t[of(j)] = y /\ n + 1 \in DOMAIN t
    BY <2>1, <2>2, <1>0, <1>1, <1>7, <1>of, <1>mono
  <2> QED
    BY <2>3, <1>7 DEF Before
<1>15. Listing(t, K \union {k})
  BY <1>7, <1>9, <1>11, <1>12 DEF Listing
<1> QED
  BY <1>13, <1>14, <1>15 DEF t, n, before

(* A key is put at the head of its bucket: the list gains it, or keeps it, *)
(* and every other key stays behind those it was behind.                   *)
LEMMA HeadedListing ==
  ASSUME Listing(order, DOMAIN map), NEW k \in Ifs
  PROVE  /\ Listing(Headed(k), DOMAIN map \union {k})
         /\ \A x, y : Before(order, x, y) /\ y # k => Before(Headed(k), x, y)
<1> DEFINE K == (DOMAIN map) \ {k}
           o == Others(k)
<1>1. /\ Listing(o, K)
      /\ \A x, y : Before(order, x, y) /\ x # k /\ y # k => Before(o, x, y)
  <2>1. CASE k \in DOMAIN map
    <3> DEFINE i == CHOOSE i \in DOMAIN order : order[i] = k
    <3>1. i \in DOMAIN order /\ order[i] = k
      BY <2>1 DEF Listing
    <3>2. o = RemoveAt(order, i)
      BY <2>1 DEF Others
    <3> HIDE DEF i
    <3> QED
      BY <3>1, <3>2, RemoveFromListing
  <2>2. CASE k \notin DOMAIN map
    <3>1. o = order /\ K = DOMAIN map
      BY <2>2 DEF Others
    <3> QED
      BY <3>1
  <2> QED
    BY <2>1, <2>2
<1>2. \A x, y : Before(order, x, y) => x \in DOMAIN map /\ y \in DOMAIN map
  BY DEF Before, Listing
<1>3. \A y : Before(order, k, y) => Bucket(k) <= Bucket(y)
  BY DEF Before, Listing
<1> DEFINE before == {i \in DOMAIN o : Bucket(o[i]) < Bucket(k)}
           t == InsertAt(o, Cardinality(before) + 1, k)
<1>4. Headed(k) = t
  BY DEF Headed
<1> HIDE DEF o
<1>5. /\ Listing(t, K \union {k})
      /\ \A x, y : Before(o, x, y) => Before(t, x, y)
      /\ \A y \in K : Bucket(k) <= Bucket(y) => Before(t, k, y)
  BY <1>1, InsertIntoListing
<1>6. K \union {k} = DOMAIN map \union {k}
  OBVIOUS
<1> HIDE DEF t
<1>7. ASSUME NEW x, NEW y, Before(order, x, y), y # k
      PROVE  Before(t, x, y)
  <2>1. CASE x # k
    BY <2>1, <1>1, <1>5, <1>7
  <2>2. CASE x = k
    BY <2>2, <1>2, <1>3, <1>5, <1>7
  <2> QED
    BY <2>1, <2>2
<1> QED
  BY <1>4, <1>5, <1>6, <1>7
-----------------------------------------------------------------------------
(* The kernel's side: the types, what each CPU has in hand, and that no    *)
(* element is used twice. An element is in use once there were as many     *)
(* keys, or it was set aside as a spare one.                               *)
CpuTypes ==
  \A c \in Cpus :
    /\ cpu[c] \in [at : {"idle", "hit", "miss"}, key : Ifs \union {0},
                   dir : Dirs, ptr : Elems \union {0}]
    /\ cpu[c].at # "idle" => cpu[c].key \in Ifs
    /\ cpu[c].at = "hit" => cpu[c].ptr \in Elems /\ cpu[c].key \in DOMAIN map

InUse(e) == e \in Elems /\ (e <= Cardinality(DOMAIN map) \/ e > max_entries)

Elements ==
  /\ IsFiniteSet(DOMAIN map) /\ DOMAIN map \subseteq Ifs
  /\ Cardinality(DOMAIN map) <= max_entries
  /\ \A k \in DOMAIN map : InUse(map[k])
  /\ \A c \in Cpus : InUse(spare[c])
  /\ \A k, l \in DOMAIN map : map[k] = map[l] => k = l
  /\ \A c, d \in Cpus : spare[c] = spare[d] => c = d
  /\ \A c \in Cpus, k \in DOMAIN map : spare[c] # map[k]

KernelTypes ==
  /\ max_entries \in Capacities /\ hooks \subseteq Ifs \X Dirs
  /\ elem \in [Elems -> [Dirs -> Nat]]
  /\ spare \in [Cpus -> Elems]
  /\ seen \in [Ifs -> [Dirs -> Nat]]
  /\ cpu = [c \in Cpus |-> cpu[c]]
  /\ present \subseteq Ifs

KernelInv ==
  /\ KernelTypes /\ CpuTypes /\ Elements /\ Listing(order, DOMAIN map)

LEMMA Sizes ==
  ASSUME max_entries \in Capacities
  PROVE  max_entries \in Nat \ {0} /\ Cardinality(Cpus) \in Nat
BY IfsAssumption, CpusAssumption, FS_CardinalityType

LEMMA KernelStarts == Init => KernelInv
<1> SUFFICES ASSUME Init PROVE KernelInv
  OBVIOUS
<1>0. max_entries \in Nat \ {0} /\ Cardinality(Cpus) \in Nat
  BY Sizes DEF Init, NetInit
<1>1. NoCount \in [Dirs -> Nat]
  BY DEF NoCount
<1>2. \A c \in Cpus : c \in 1 .. Cardinality(Cpus)
  BY CpusAssumption
<1>3. \A c \in Cpus : max_entries + c \in Elems /\ max_entries + c > max_entries
  BY <1>0, <1>2 DEF Elems
<1>4. KernelTypes
  BY <1>1, <1>3 DEF Init, NetInit, KernelTypes
<1>5. CpuTypes
  BY DEF Init, NetInit, CpuTypes, Asleep, Dirs
<1>6. DOMAIN map = {} /\ IsFiniteSet(DOMAIN map) /\ Cardinality(DOMAIN map) = 0
  BY FS_EmptySet DEF Init, NetInit
<1>7. \A c \in Cpus : spare[c] = max_entries + c
  BY DEF Init, NetInit
<1>8. \A c, d \in Cpus : spare[c] = spare[d] => c = d
  BY <1>0, <1>2, <1>7
<1>9. Elements
  <2>1. \A c \in Cpus : InUse(spare[c])
    BY <1>3, <1>7 DEF InUse
  <2>2. DOMAIN map \subseteq Ifs /\ Cardinality(DOMAIN map) <= max_entries
    BY <1>0, <1>6
  <2> QED
    BY <1>6, <1>8, <2>1, <2>2 DEF Elements
<1>10. Listing(order, DOMAIN map)
  BY <1>6 DEF Init, NetInit, Listing
<1> QED
  BY <1>4, <1>5, <1>9, <1>10 DEF KernelInv

(* What a step does on the kernel's side.                                  *)
KernelRests ==
  UNCHANGED <<max_entries, mapVars, cpu, seen>> /\ hooks' \subseteq Ifs \X Dirs

LEMMA KernelSteps ==
  ASSUME KernelInv, [Next]_vars
  PROVE  /\ present' \subseteq Ifs
         /\ \/ KernelRests
            \/ \E c \in Cpus, k \in Ifs, d \in Dirs : Packet(c, k, d)
            \/ \E c \in Cpus : Insert(c)
            \/ \E c \in Cpus : Add(c)
<1>0. hooks \subseteq Ifs \X Dirs /\ present \subseteq Ifs
  BY DEF KernelInv, KernelTypes
<1>1. UNCHANGED kernelVars => KernelRests
  BY <1>0 DEF KernelRests, kernelVars, mapVars
<1>2. CASE Load \/ LoadFails \/ InitEbpfEnds \/ CleanupEbpf \/ UpdateOnce \/ NextKey
              \/ SkipUnnamed \/ ReadValue \/ UpdateOnceEnds \/ UNCHANGED vars
  BY <1>0, <1>1, <1>2 DEF Load, LoadFails, InitEbpfEnds, CleanupEbpf, UpdateOnce, NextKey,
                    SkipUnnamed, ReadValue, UpdateOnceEnds, Fixed, vars
<1>3. ASSUME NEW k \in Ifs, SkipInterface(k)
      PROVE  UNCHANGED kernelVars /\ present' \subseteq Ifs
  BY <1>0, <1>3 DEF SkipInterface
<1>4. ASSUME NEW k \in Ifs, AttachIngress(k)
      PROVE  KernelRests /\ present' \subseteq Ifs
  BY <1>0, <1>4 DEF AttachIngress, KernelRests, Dirs
<1>5. CASE AttachEgress
  <2>1. key \in present => key \in Ifs
    BY <1>0
  <2> QED
    BY <1>0, <2>1, <1>5 DEF AttachEgress, KernelRests, Dirs
<1>6. ASSUME NEW k \in Ifs, RemoveInterface(k)
      PROVE  KernelRests /\ present' \subseteq Ifs
  BY <1>0, <1>6 DEF RemoveInterface, KernelRests
<1>7. CASE TrafficStep
  BY <1>0, <1>7 DEF TrafficStep, Traffic, Dirs
<1> QED
  BY <1>1, <1>2, <1>3, <1>4, <1>5, <1>6, <1>7 DEF Next, InitEbpf, Update

LEMMA KernelKeepsResting ==
  ASSUME KernelInv, KernelRests, present' \subseteq Ifs
  PROVE  KernelInv'
<1>1. UNCHANGED <<max_entries, map, order, elem, spare, cpu, seen>>
  BY DEF KernelRests, mapVars
<1>2. KernelTypes'
  BY <1>1 DEF KernelInv, KernelTypes, KernelRests, Elems
<1>3. CpuTypes'
  BY <1>1 DEF KernelInv, CpuTypes, Elems
<1>4. Elements'
  BY <1>1 DEF KernelInv, Elements, InUse, Elems
<1>5. Listing(order, DOMAIN map)'
  BY <1>1 DEF KernelInv, Listing
<1> QED
  BY <1>2, <1>3, <1>4, <1>5 DEF KernelInv

(* One of a table of counters is incremented.                              *)
LEMMA CountUp ==
  ASSUME NEW S, NEW f \in [S -> [Dirs -> Nat]], NEW x \in S, NEW d \in Dirs
  PROVE  LET g == [f EXCEPT ![x][d] = @ + 1]
         IN  /\ g \in [S -> [Dirs -> Nat]]
             /\ \A y \in S, b \in Dirs :
                  g[y][b] = IF y = x /\ b = d THEN f[x][d] + 1 ELSE f[y][b]
<1> DEFINE g == [f EXCEPT ![x][d] = @ + 1]
           h == [b \in Dirs |-> IF b = d THEN f[x][d] + 1 ELSE f[x][b]]
<1>1. f[x] \in [Dirs -> Nat] /\ f[x][d] + 1 \in Nat
  OBVIOUS
<1>2. h \in [Dirs -> Nat]
  BY <1>1
<1>3. g = [y \in S |-> IF y = x THEN h ELSE f[y]]
  BY <1>1
<1> HIDE DEF g, h
<1>4. g \in [S -> [Dirs -> Nat]]
  BY <1>2, <1>3
<1>5. \A b \in Dirs : h[b] = IF b = d THEN f[x][d] + 1 ELSE f[x][b]
  BY DEF h
<1>6. \A y \in S, b \in Dirs : g[y][b] = IF y = x /\ b = d THEN f[x][d] + 1 ELSE f[y][b]
  BY <1>3, <1>5
<1> QED
  BY <1>4, <1>6 DEF g

LEMMA KernelKeepsPacket ==
  ASSUME KernelInv, NEW c \in Cpus, NEW k \in Ifs, NEW d \in Dirs, Packet(c, k, d),
         present' \subseteq Ifs
  PROVE  KernelInv'
<1>1. UNCHANGED <<max_entries, hooks, map, order, elem, spare>> /\ Elems' = Elems
  BY DEF Packet, mapVars, Elems
<1>2. KernelTypes'
  <2>1. seen' \in [Ifs -> [Dirs -> Nat]]
    <3>1. seen \in [Ifs -> [Dirs -> Nat]]
      BY DEF KernelInv, KernelTypes
    <3> QED
      BY <3>1, CountUp DEF Packet
  <2>2. cpu' = [b \in Cpus |-> cpu'[b]]
    BY DEF KernelInv, KernelTypes, Packet
  <2> QED
    BY <1>1, <2>1, <2>2 DEF KernelInv, KernelTypes
<1>3. CpuTypes'
  <2>1. k \in DOMAIN map => map[k] \in Elems
    BY DEF KernelInv, Elements, InUse
  <2>2. \A b \in Cpus : b # c => cpu'[b] = cpu[b]
    BY DEF Packet, KernelInv, KernelTypes
  <2>3. cpu'[c] = IF k \in DOMAIN map
                  THEN [at |-> "hit", key |-> k, dir |-> d, ptr |-> map[k]]
                  ELSE [at |-> "miss", key |-> k, dir |-> d, ptr |-> 0]
    BY DEF Packet, KernelInv, KernelTypes
  <2>4. cpu'[c] \in [at : {"idle", "hit", "miss"}, key : Ifs \union {0},
                     dir : Dirs, ptr : Elems \union {0}]
    BY <2>1, <2>3
  <2>5. ASSUME NEW b \in Cpus, b # c
        PROVE  /\ cpu'[b] \in [at : {"idle", "hit", "miss"}, key : Ifs \union {0},
                               dir : Dirs, ptr : Elems \union {0}]
               /\ cpu'[b].at # "idle" => cpu'[b].key \in Ifs
               /\ cpu'[b].at = "hit" => cpu'[b].ptr \in Elems /\ cpu'[b].key \in DOMAIN map
    BY <2>2, <2>5 DEF KernelInv, CpuTypes
  <2>6. /\ cpu'[c].at # "idle" => cpu'[c].key \in Ifs
        /\ cpu'[c].at = "hit" => cpu'[c].ptr \in Elems /\ cpu'[c].key \in DOMAIN map
    BY <2>1, <2>3
  <2> QED
    BY <1>1, <2>4, <2>5, <2>6 DEF CpuTypes
<1>4. Elements'
  BY <1>1 DEF KernelInv, Elements, InUse
<1>5. Listing(order, DOMAIN map)'
  BY <1>1 DEF KernelInv, Listing
<1> QED
  BY <1>2, <1>3, <1>4, <1>5 DEF KernelInv

(* A CPU that is through with its packet has nothing in hand.              *)
LEMMA CpuTypesAsleep ==
  ASSUME KernelInv, NEW c \in Cpus, cpu' = [cpu EXCEPT ![c] = Asleep],
         Elems' = Elems, DOMAIN map \subseteq DOMAIN map'
  PROVE  CpuTypes' /\ cpu' = [b \in Cpus |-> cpu'[b]]
<1>1. \A b \in Cpus : cpu'[b] = IF b = c THEN Asleep ELSE cpu[b]
  BY DEF KernelInv, KernelTypes
<1>2. Asleep \in [at : {"idle", "hit", "miss"}, key : Ifs \union {0},
                  dir : Dirs, ptr : Elems \union {0}] /\ Asleep.at = "idle"
  BY DEF Asleep, Dirs
<1>3. cpu' = [b \in Cpus |-> cpu'[b]]
  BY DEF KernelInv, KernelTypes
<1>4. ASSUME NEW b \in Cpus, b # c
      PROVE  /\ cpu'[b] \in [at : {"idle", "hit", "miss"}, key : Ifs \union {0},
                             dir : Dirs, ptr : Elems \union {0}]
             /\ cpu'[b].at # "idle" => cpu'[b].key \in Ifs
             /\ cpu'[b].at = "hit" => cpu'[b].ptr \in Elems /\ cpu'[b].key \in DOMAIN map'
  BY <1>1, <1>4 DEF KernelInv, CpuTypes
<1>5. cpu'[c] = Asleep
  BY <1>1
<1> QED
  BY <1>2, <1>3, <1>4, <1>5 DEF CpuTypes

LEMMA KernelKeepsAdd ==
  ASSUME KernelInv, NEW c \in Cpus, Add(c), present' \subseteq Ifs
  PROVE  KernelInv'
<1>1. UNCHANGED <<max_entries, hooks, map, order, spare, seen>> /\ Elems' = Elems
  BY DEF Add, Elems
<1>2. KernelTypes'
  <2>1. PICK e : e = cpu[c].ptr
    OBVIOUS
  <2>2. PICK d : d = cpu[c].dir
    OBVIOUS
  <2>3. e \in Elems /\ d \in Dirs
    BY <2>1, <2>2 DEF KernelInv, CpuTypes, Add
  <2>4. elem' = [elem EXCEPT ![e][d] = @ + 1]
    BY <2>1, <2>2 DEF Add
  <2>5. elem \in [Elems -> [Dirs -> Nat]]
    BY DEF KernelInv, KernelTypes
  <2>6. elem' \in [Elems -> [Dirs -> Nat]]
    BY <2>3, <2>4, <2>5, CountUp
  <2>7. cpu' = [b \in Cpus |-> cpu'[b]]
    BY <1>1, CpuTypesAsleep DEF Add
  <2> QED
    BY <1>1, <2>6, <2>7 DEF KernelInv, KernelTypes
<1>3. CpuTypes'
  BY <1>1, CpuTypesAsleep DEF Add
<1>4. Elements'
  BY <1>1 DEF KernelInv, Elements, InUse
<1>5. Listing(order, DOMAIN map)'
  BY <1>1 DEF KernelInv, Listing
<1> QED
  BY <1>2, <1>3, <1>4, <1>5 DEF KernelInv

(* What an insertion does, of a key that is there or of a new one.         *)
Replaces(c, k, d) ==
  /\ cpu[c].at = "miss" /\ k \in DOMAIN map
  /\ map' = Put(map, k, spare[c]) /\ order' = Headed(k)
  /\ elem' = [elem EXCEPT ![spare[c]] = [NoCount EXCEPT ![d] = 1]]
  /\ spare' = [spare EXCEPT ![c] = map[k]]

Takes(c, k, d) ==
  LET e == Cardinality(DOMAIN map) + 1
  IN  /\ cpu[c].at = "miss" /\ k \notin DOMAIN map /\ e <= max_entries
      /\ map' = Put(map, k, e) /\ order' = Headed(k)
      /\ elem' = [elem EXCEPT ![e] = [NoCount EXCEPT ![d] = 1]]
      /\ UNCHANGED spare

LEMMA InsertSteps ==
  ASSUME KernelInv, NEW c \in Cpus, Insert(c)
  PROVE  /\ cpu[c].at = "miss" /\ cpu[c].key \in Ifs /\ cpu[c].dir \in Dirs
         /\ cpu' = [cpu EXCEPT ![c] = Asleep]
         /\ UNCHANGED <<max_entries, hooks, seen>> /\ Elems' = Elems
         /\ \/ Replaces(c, cpu[c].key, cpu[c].dir)
            \/ Takes(c, cpu[c].key, cpu[c].dir)
            \/ UNCHANGED mapVars
<1>1. max_entries \in Nat /\ Cardinality(DOMAIN map) \in Nat
  BY Sizes, FS_CardinalityType DEF KernelInv, KernelTypes, Elements
<1>2. /\ cpu[c].at = "miss" /\ cpu' = [cpu EXCEPT ![c] = Asleep]
      /\ UNCHANGED <<max_entries, hooks, seen>>
  BY DEF Insert
<1>3. cpu[c].key \in Ifs /\ cpu[c].dir \in Dirs
  BY <1>2 DEF KernelInv, CpuTypes
<1>4. Elems' = Elems
  BY <1>2 DEF Elems
<1>5. \/ Replaces(c, cpu[c].key, cpu[c].dir)
      \/ Takes(c, cpu[c].key, cpu[c].dir)
      \/ UNCHANGED mapVars
  BY <1>1 DEF Insert, Replaces, Takes
<1> QED
  BY <1>2, <1>3, <1>4, <1>5

LEMMA KernelKeepsReplacing ==
  ASSUME KernelInv, NEW c \in Cpus, NEW k \in Ifs, NEW d \in Dirs, Replaces(c, k, d),
         UNCHANGED max_entries, Elems' = Elems
  PROVE  /\ elem' \in [Elems -> [Dirs -> Nat]] /\ spare' \in [Cpus -> Elems]
         /\ Elements' /\ Listing(order, DOMAIN map)' /\ DOMAIN map' = DOMAIN map
<1>1. PICK e : e = spare[c]
  OBVIOUS
<1>2. PICK f : f = map[k]
  OBVIOUS
<1>3. InUse(e) /\ InUse(f) /\ e \in Elems /\ f \in Elems
  BY <1>1, <1>2 DEF KernelInv, Elements, Replaces, InUse
<1>4. /\ DOMAIN map' = DOMAIN map
      /\ \A l \in DOMAIN map : map'[l] = IF l = k THEN e ELSE map[l]
  BY <1>1 DEF Replaces, Put
<1>5. spare' \in [Cpus -> Elems] /\ \A b \in Cpus : spare'[b] = IF b = c THEN f ELSE spare[b]
  BY <1>2, <1>3 DEF Replaces, KernelInv, KernelTypes
<1>6. elem' \in [Elems -> [Dirs -> Nat]]
  <2>1. [NoCount EXCEPT ![d] = 1] \in [Dirs -> Nat]
    BY DEF NoCount
  <2>2. elem' = [elem EXCEPT ![e] = [NoCount EXCEPT ![d] = 1]]
    BY <1>1 DEF Replaces
  <2> QED
    BY <2>1, <2>2, <1>3 DEF KernelInv, KernelTypes
<1>7. \A x : InUse(x) => InUse(x)'
  BY <1>4 DEF InUse
<1>8. Elements'
  <2>1. \A l \in DOMAIN map : InUse(map'[l])
    BY <1>3, <1>4 DEF KernelInv, Elements
  <2>2. \A b \in Cpus : InUse(spare'[b])
    BY <1>3, <1>5 DEF KernelInv, Elements
  <2>3. \A l, m \in DOMAIN map : map'[l] = map'[m] => l = m
    BY <1>1, <1>4 DEF KernelInv, Elements
  <2>4. \A b, g \in Cpus : spare'[b] = spare'[g] => b = g
    BY <1>2, <1>5 DEF KernelInv, Elements, Replaces
  <2>5. \A b \in Cpus, l \in DOMAIN map : spare'[b] # map'[l]
    BY <1>1, <1>2, <1>4, <1>5 DEF KernelInv, Elements, Replaces
  <2>6. \A l \in DOMAIN map : InUse(map[l])'
    <3> TAKE l \in DOMAIN map
    <3>1. PICK x : x = map'[l]
      OBVIOUS
    <3>2. InUse(x)
      BY <2>1, <3>1
    <3> QED
      BY <3>1, <3>2, <1>4 DEF InUse
  <2>7. \A b \in Cpus : InUse(spare[b])'
    BY <2>2, <1>4 DEF InUse
  <2>8. /\ IsFiniteSet(DOMAIN map') /\ DOMAIN map' \subseteq Ifs
        /\ Cardinality(DOMAIN map') <= max_entries'
    BY <1>4 DEF KernelInv, Elements
  <2> QED
    BY <1>4, <2>3, <2>4, <2>5, <2>6, <2>7, <2>8 DEF Elements
<1>9. Listing(order, DOMAIN map)'
  <2>1. Listing(Headed(k), DOMAIN map \union {k})
    BY HeadedListing DEF KernelInv
  <2>2. DOMAIN map \union {k} = DOMAIN map' /\ order' = Headed(k)
    BY <1>4 DEF Replaces
  <2> QED
    BY <2>1, <2>2 DEF Listing
<1> QED
  BY <1>4, <1>5, <1>6, <1>8, <1>9

LEMMA KernelKeepsTaking ==
  ASSUME KernelInv, NEW c \in Cpus, NEW k \in Ifs, NEW d \in Dirs, Takes(c, k, d),
         UNCHANGED max_entries, Elems' = Elems
  PROVE  /\ elem' \in [Elems -> [Dirs -> Nat]] /\ spare' \in [Cpus -> Elems]
         /\ Elements' /\ Listing(order, DOMAIN map)' /\ DOMAIN map \subseteq DOMAIN map'
<1>1. PICK n : n = Cardinality(DOMAIN map)
  OBVIOUS
<1>2. PICK m : m = max_entries
  OBVIOUS
<1>3. m \in Nat /\ n \in Nat /\ Cardinality(Cpus) \in Nat
  BY <1>1, <1>2, Sizes, FS_CardinalityType DEF KernelInv, KernelTypes, Elements
<1>4. n + 1 <= m /\ n + 1 \in Elems
  BY <1>1, <1>2, <1>3 DEF Takes, Elems
<1>5. \A x : InUse(x) => x # n + 1 /\ x \in Elems /\ (x <= n \/ x > m)
  BY <1>1, <1>2, <1>3, <1>4 DEF InUse, Elems
<1>6. /\ DOMAIN map' = DOMAIN map \union {k} /\ k \notin DOMAIN map
      /\ map'[k] = n + 1 /\ \A l \in DOMAIN map : map'[l] = map[l]
  BY <1>1 DEF Takes, Put
<1>7. spare' = spare /\ spare \in [Cpus -> Elems]
  BY DEF Takes, KernelInv, KernelTypes
<1>8. elem' \in [Elems -> [Dirs -> Nat]]
  <2>1. [NoCount EXCEPT ![d] = 1] \in [Dirs -> Nat]
    BY DEF NoCount
  <2>2. elem' = [elem EXCEPT ![n + 1] = [NoCount EXCEPT ![d] = 1]]
    BY <1>1 DEF Takes
  <2> QED
    BY <2>1, <2>2, <1>4 DEF KernelInv, KernelTypes
<1>9. IsFiniteSet(DOMAIN map') /\ Cardinality(DOMAIN map') = n + 1 /\ DOMAIN map' \subseteq Ifs
  BY <1>1, <1>6, FS_AddElement DEF KernelInv, Elements
<1>10. \A x : InUse(x) => x \in Elems /\ (x <= n + 1 \/ x > m)
  BY <1>3, <1>5 DEF Elems
<1>11. Elements'
  <2>1. \A l \in DOMAIN map' : map'[l] \in Elems /\ (map'[l] <= n + 1 \/ map'[l] > m)
    <3>1. \A l \in DOMAIN map : InUse(map[l])
      BY DEF KernelInv, Elements
    <3> QED
      BY <3>1, <1>3, <1>4, <1>6, <1>10
  <2>2. \A b \in Cpus : InUse(spare[b])
    BY DEF KernelInv, Elements
  <2>3. \A l, h \in DOMAIN map' : map'[l] = map'[h] => l = h
    <3>1. \A l \in DOMAIN map : map[l] # n + 1
      BY <1>5 DEF KernelInv, Elements
    <3>2. \A l, h \in DOMAIN map : map[l] = map[h] => l = h
      BY DEF KernelInv, Elements
    <3> QED
      BY <3>1, <3>2, <1>6
  <2>4. \A b \in Cpus, l \in DOMAIN map' : spare[b] # map'[l]
    <3>1. \A b \in Cpus : spare[b] # n + 1
      BY <2>2, <1>5
    <3>2. \A b \in Cpus, l \in DOMAIN map : spare[b] # map[l]
      BY DEF KernelInv, Elements
    <3> QED
      BY <3>1, <3>2, <1>6
  <2>5. \A l \in DOMAIN map' : InUse(map[l])'
    BY <2>1, <1>2, <1>9 DEF InUse
  <2>6. \A b \in Cpus : InUse(spare[b])'
    <3>1. \A b \in Cpus : spare[b] \in Elems /\ (spare[b] <= n + 1 \/ spare[b] > m)
      BY <2>2, <1>10
    <3> QED
      BY <3>1, <1>2, <1>7, <1>9 DEF InUse
  <2>7. \A b, g \in Cpus : spare'[b] = spare'[g] => b = g
    BY <1>7 DEF KernelInv, Elements
  <2> QED
    BY <1>2, <1>4, <1>7, <1>9, <2>3, <2>4, <2>5, <2>6, <2>7 DEF Elements
<1>12. Listing(order, DOMAIN map)'
  <2>1. Listing(Headed(k), DOMAIN map \union {k})
    BY HeadedListing DEF KernelInv
  <2>2. DOMAIN map \union {k} = DOMAIN map' /\ order' = Headed(k)
    BY <1>6 DEF Takes
  <2> QED
    BY <2>1, <2>2 DEF Listing
<1> QED
  BY <1>6, <1>7, <1>8, <1>11, <1>12

LEMMA KernelKeepsInsert ==
  ASSUME KernelInv, NEW c \in Cpus, Insert(c), present' \subseteq Ifs
  PROVE  KernelInv' /\ DOMAIN map \subseteq DOMAIN map'
<1>1. PICK k \in Ifs : k = cpu[c].key
  BY InsertSteps
<1>2. PICK d \in Dirs : d = cpu[c].dir
  BY InsertSteps
<1>3. /\ cpu' = [cpu EXCEPT ![c] = Asleep]
      /\ UNCHANGED <<max_entries, hooks, seen>> /\ Elems' = Elems
      /\ Replaces(c, k, d) \/ Takes(c, k, d) \/ UNCHANGED mapVars
  BY <1>1, <1>2, InsertSteps
<1>4. /\ elem' \in [Elems -> [Dirs -> Nat]] /\ spare' \in [Cpus -> Elems]
      /\ Elements' /\ Listing(order, DOMAIN map)' /\ DOMAIN map \subseteq DOMAIN map'
  <2>1. CASE Replaces(c, k, d)
    BY <2>1, <1>3, KernelKeepsReplacing
  <2>2. CASE Takes(c, k, d)
    BY <2>2, <1>3, KernelKeepsTaking
  <2>3. CASE UNCHANGED mapVars
    <3>1. UNCHANGED <<map, order, elem, spare>>
      BY <2>3 DEF mapVars
    <3>2. Elements'
      BY <3>1, <1>3 DEF KernelInv, Elements, InUse
    <3>3. Listing(order, DOMAIN map)'
      BY <3>1 DEF KernelInv, Listing
    <3> QED
      BY <3>1, <3>2, <3>3 DEF KernelInv, KernelTypes
  <2> QED
    BY <1>3, <2>1, <2>2, <2>3
<1>5. CpuTypes' /\ cpu' = [b \in Cpus |-> cpu'[b]]
  BY <1>3, <1>4, CpuTypesAsleep
<1>6. KernelTypes'
  BY <1>3, <1>4, <1>5 DEF KernelInv, KernelTypes
<1> QED
  BY <1>4, <1>5, <1>6 DEF KernelInv

LEMMA KernelKeeps ==
  ASSUME KernelInv, [Next]_vars
  PROVE  KernelInv' /\ DOMAIN map \subseteq DOMAIN map'
<1>1. CASE KernelRests
  BY <1>1, KernelSteps, KernelKeepsResting DEF KernelRests, mapVars
<1>2. ASSUME NEW c \in Cpus, NEW k \in Ifs, NEW d \in Dirs, Packet(c, k, d)
      PROVE  KernelInv' /\ DOMAIN map \subseteq DOMAIN map'
  BY <1>2, KernelSteps, KernelKeepsPacket DEF Packet, mapVars
<1>3. ASSUME NEW c \in Cpus, Insert(c)
      PROVE  KernelInv' /\ DOMAIN map \subseteq DOMAIN map'
  BY <1>3, KernelSteps, KernelKeepsInsert
<1>4. ASSUME NEW c \in Cpus, Add(c)
      PROVE  KernelInv' /\ DOMAIN map \subseteq DOMAIN map'
  BY <1>4, KernelSteps, KernelKeepsAdd DEF Add
<1> QED
  BY <1>1, <1>2, <1>3, <1>4, KernelSteps

-----------------------------------------------------------------------------
(* The worker's side.                                                      *)
Loading ==
  /\ pc \in {"ctor", "attach", "egress", "idle", "next", "read", "done"}
  /\ todo \subseteq Ifs \ Loopback
  /\ attached_ifindexes_ \subseteq Ifs \ Loopback
  /\ loaded_ \in BOOLEAN /\ map_fd_ \in BOOLEAN /\ bpf_obj_ \in BOOLEAN
  /\ pc = "ctor" => ~loaded_ /\ ~bpf_obj_
  /\ pc \in {"attach", "egress"} => map_fd_
  /\ pc \notin {"ctor", "attach", "egress"} =>
       (loaded_ = bpf_obj_) /\ (loaded_ => map_fd_)
  /\ pc \in {"next", "read", "done"} => loaded_

Walking ==
  /\ pc = "read" => key \in DOMAIN map
  /\ pc = "next" => key \in DOMAIN map \union {0}
  /\ key \in Ifs \union {0}
  /\ DOMAIN cache_ \subseteq Ifs /\ \A k \in DOMAIN cache_ : cache_[k] \in [Dirs -> Nat]
  /\ now \subseteq DOMAIN cache_ /\ report = now
  /\ told \in Nat /\ due \subseteq Ifs

MonitorInv == Loading /\ Walking

(* What is still due lies ahead of the walk.                               *)
WalkInv ==
  pc \in {"next", "read", "done"} =>
    \A k \in due \ report :
      /\ k \in DOMAIN map /\ Named(k) /\ pc # "done"
      /\ (pc = "next" /\ key = 0) \/ (pc = "read" /\ key = k) \/ Before(order, key, k)

NetInv == KernelInv /\ MonitorInv /\ WalkInv

LEMMA MonitorStarts == Init => MonitorInv /\ WalkInv
<1> SUFFICES ASSUME Init PROVE MonitorInv /\ WalkInv
  OBVIOUS
<1>1. Loading
  BY DEF Init, Loading
<1>2. Walking
  BY DEF Init, Walking
<1>3. WalkInv
  BY DEF Init, WalkInv
<1> QED
  BY <1>1, <1>2, <1>3 DEF MonitorInv

LEMMA LoadingKept ==
  ASSUME NetInv, [Next]_vars
  PROVE  Loading'
<1> USE DEF Loading
<1>0. Loading /\ present \subseteq Ifs
  BY DEF NetInv, MonitorInv, KernelInv, KernelTypes
<1>1. CASE Load
  BY <1>0, <1>1 DEF Load
<1>2. CASE LoadFails
  BY <1>0, <1>2 DEF LoadFails
<1>3. CASE AttachEgress
  BY <1>0, <1>3 DEF AttachEgress
<1>4. CASE InitEbpfEnds
  BY <1>0, <1>4 DEF InitEbpfEnds
<1>5. ASSUME NEW k \in Ifs, SkipInterface(k)
      PROVE  Loading'
  BY <1>0, <1>5 DEF SkipInterface
<1>6. ASSUME NEW k \in Ifs, AttachIngress(k)
      PROVE  Loading'
  BY <1>0, <1>6 DEF AttachIngress
<1>7. CASE CleanupEbpf
  BY <1>0, <1>7 DEF CleanupEbpf
<1>8. CASE UpdateOnce
  BY <1>0, <1>8 DEF UpdateOnce, Fixed
<1>9. CASE NextKey
  BY <1>0, <1>9 DEF NextKey, Fixed
<1>10. CASE SkipUnnamed \/ ReadValue \/ UpdateOnceEnds
  BY <1>0, <1>10 DEF SkipUnnamed, ReadValue, UpdateOnceEnds, Fixed
<1>11. ASSUME NEW k \in Ifs, RemoveInterface(k)
       PROVE  Loading'
  BY <1>0, <1>11 DEF RemoveInterface, monitorVars
<1>12. CASE TrafficStep
  BY <1>0, <1>12 DEF TrafficStep, monitorVars
<1>13. CASE UNCHANGED vars
  BY <1>0, <1>13 DEF vars, monitorVars
<1> QED
  BY <1>1, <1>2, <1>3, <1>4, <1>5, <1>6, <1>7, <1>8, <1>9, <1>10, <1>11, <1>12, <1>13
  DEF Next, InitEbpf, Update

(* The next key of a walk is one of the map.                               *)
LEMMA NextKeyIs ==
  ASSUME NetInv, NextKey
  PROVE  LET after == {i \in DOMAIN order : \E j \in 1 .. i - 1 : order[j] = key}
             rest == IF key \in DOMAIN map THEN after ELSE DOMAIN order
         IN  \/ rest = {} /\ pc' = "done" /\ key' = key
             \/ /\ pc' = "read"
                /\ \E i \in rest : key' = order[i] /\ \A j \in rest : i <= j
<1> DEFINE after == {i \in DOMAIN order : \E j \in 1 .. i - 1 : order[j] = key}
           rest == IF key \in DOMAIN map THEN after ELSE DOMAIN order
<1>1. DOMAIN order = 1 .. Len(order) /\ Len(order) \in Nat
  BY LenProperties DEF NetInv, KernelInv, Listing
<1>2. rest \subseteq Nat
  BY <1>1
<1>3. /\ rest = {} => pc' = "done" /\ key' = key
      /\ rest # {} => pc' = "read"
                      /\ key' = order[CHOOSE i \in rest : \A j \in rest : i <= j]
  BY DEF NextKey
<1> HIDE DEF rest
<1>4. CASE rest # {}
  <2>1. \E i \in rest : \A j \in rest : i <= j
    BY <1>2, <1>4, Least
  <2> DEFINE i == CHOOSE i \in rest : \A j \in rest : i <= j
  <2>2. i \in rest /\ \A j \in rest : i <= j
    BY <2>1
  <2>3. key' = order[i]
    BY <1>3, <1>4
  <2> HIDE DEF i
  <2> QED
    BY <2>2, <2>3, <1>3, <1>4 DEF rest
<1> QED
  BY <1>3, <1>4 DEF rest

LEMMA WalkingKept ==
  ASSUME NetInv, [Next]_vars, KernelInv', DOMAIN map \subseteq DOMAIN map'
  PROVE  Walking'
<1> USE DEF Walking
<1>0. Walking /\ DOMAIN map \subseteq Ifs /\ DOMAIN map' \subseteq Ifs
  BY DEF NetInv, MonitorInv, KernelInv, Elements
<1>1. CASE Load \/ LoadFails
  BY <1>0, <1>1 DEF Load, LoadFails, Walk, kernelVars, mapVars
<1>2. CASE AttachEgress \/ InitEbpfEnds
  BY <1>0, <1>2 DEF AttachEgress, InitEbpfEnds, Walk, kernelVars, mapVars
<1>3. ASSUME NEW k \in Ifs, SkipInterface(k)
      PROVE  Walking'
  BY <1>0, <1>3 DEF SkipInterface, Walk, kernelVars, mapVars
<1>4. ASSUME NEW k \in Ifs, AttachIngress(k)
      PROVE  Walking'
  BY <1>0, <1>4 DEF AttachIngress, mapVars
<1>5. CASE CleanupEbpf
  BY <1>0, <1>5 DEF CleanupEbpf, Walk, kernelVars, mapVars
<1>6. CASE UpdateOnce \/ UpdateOnceEnds
  BY <1>0, <1>6 DEF UpdateOnce, UpdateOnceEnds
<1>7. CASE NextKey
  <2>1. UNCHANGED <<map, cache_, now, report, told, due>>
    BY <1>7 DEF NextKey, kernelVars, mapVars
  <2>2. (pc' = "done" /\ key' = key) \/ (pc' = "read" /\ key' \in DOMAIN map)
    <3>1. \A i \in DOMAIN order : order[i] \in DOMAIN map
      BY DEF NetInv, KernelInv, Listing
    <3> DEFINE after == {i \in DOMAIN order : \E j \in 1 .. i - 1 : order[j] = key}
               rest == IF key \in DOMAIN map THEN after ELSE DOMAIN order
    <3>2. \/ (pc' = "done" /\ key' = key)
          \/ (pc' = "read" /\ \E i \in rest : key' = order[i])
      BY <1>7, NextKeyIs
    <3>3. rest \subseteq DOMAIN order
      OBVIOUS
    <3> HIDE DEF rest
    <3> QED
      BY <3>1, <3>2, <3>3
  <2> QED
    BY <1>0, <2>1, <2>2
<1>8. CASE SkipUnnamed
  BY <1>0, <1>8 DEF SkipUnnamed, kernelVars, mapVars
<1>9. CASE ReadValue
  <2>1. key \in DOMAIN map /\ UNCHANGED <<map, key, due>> /\ pc' = "next"
    BY <1>0, <1>9 DEF ReadValue, kernelVars, mapVars
  <2>2. PICK stats : stats = elem[map[key]]
    OBVIOUS
  <2>3. stats \in [Dirs -> Nat]
    BY <2>1, <2>2 DEF NetInv, KernelInv, KernelTypes, Elements, InUse
  <2>4. PICK old : old = IF key \in DOMAIN cache_ THEN cache_[key] ELSE NoCount
    OBVIOUS
  <2>5. old \in [Dirs -> Nat]
    BY <1>0, <2>4 DEF NoCount
  <2>6. \A x, y \in Nat : Diff(x, y) \in Nat
    BY DEF Diff
  <2>7. stats["rcv"] \in Nat /\ stats["snd"] \in Nat /\ old["rcv"] \in Nat /\ old["snd"] \in Nat
    BY <2>3, <2>5 DEF Dirs
  <2>8. told' = IF key \in now THEN told
                ELSE told + Diff(stats["rcv"], old["rcv"]) + Diff(stats["snd"], old["snd"])
    BY <1>9, <2>2, <2>4 DEF ReadValue
  <2>9. told' \in Nat
    <3>1. PICK x \in Nat : x = Diff(stats["rcv"], old["rcv"])
      BY <2>6, <2>7
    <3>2. PICK y \in Nat : y = Diff(stats["snd"], old["snd"])
      BY <2>6, <2>7
    <3> QED
      BY <1>0, <2>8, <3>1, <3>2
  <2>10. cache_' = Put(cache_, key, stats)
    BY <1>9, <2>2 DEF ReadValue
  <2>11. /\ DOMAIN cache_' = DOMAIN cache_ \union {key}
         /\ \A k \in DOMAIN cache_' : cache_'[k] \in [Dirs -> Nat]
    BY <1>0, <2>3, <2>10 DEF Put
  <2>12. now' = now \union {key} /\ report' = report \union {key}
    BY <1>9 DEF ReadValue
  <2> QED
    BY <1>0, <2>1, <2>9, <2>11, <2>12
<1>10. ASSUME NEW k \in Ifs, RemoveInterface(k)
       PROVE  Walking'
  BY <1>0, <1>10 DEF RemoveInterface, monitorVars, mapVars
<1>11. CASE TrafficStep
  BY <1>0, <1>11 DEF TrafficStep, monitorVars
<1>12. CASE UNCHANGED vars
  BY <1>0, <1>12 DEF vars, monitorVars, kernelVars, mapVars
<1> QED
  BY <1>1, <1>2, <1>3, <1>4, <1>5, <1>6, <1>7, <1>8, <1>9, <1>10, <1>11, <1>12
  DEF Next, InitEbpf, Update

LEMMA WalkKept ==
  ASSUME NetInv, [Next]_vars, KernelInv', DOMAIN map \subseteq DOMAIN map'
  PROVE  WalkInv'
<1>0. /\ Walking /\ KernelInv /\ Listing(order, DOMAIN map) /\ DOMAIN map \subseteq Ifs
      /\ DOMAIN order = 1 .. Len(order) /\ Len(order) \in Nat
  BY LenProperties DEF NetInv, MonitorInv, KernelInv, Elements, Listing
<1>1. pc \in {"next", "read", "done"} =>
        \A k \in due \ report :
          /\ k \in DOMAIN map /\ Named(k) /\ pc # "done"
          /\ (pc = "next" /\ key = 0) \/ (pc = "read" /\ key = k) \/ Before(order, key, k)
  BY DEF NetInv, WalkInv
<1>2. CASE Load \/ LoadFails \/ AttachEgress \/ InitEbpfEnds
  BY <1>2 DEF Load, LoadFails, AttachEgress, InitEbpfEnds, WalkInv
<1>3. ASSUME NEW k \in Ifs, SkipInterface(k) \/ AttachIngress(k)
      PROVE  WalkInv'
  BY <1>3 DEF SkipInterface, AttachIngress, WalkInv
<1>4. CASE CleanupEbpf \/ UpdateOnceEnds
  BY <1>4 DEF CleanupEbpf, UpdateOnceEnds, WalkInv
<1>5. CASE UpdateOnce
  BY <1>5 DEF UpdateOnce, WalkInv, Named, Fixed, kernelVars, mapVars
<1>6. CASE NextKey
  <2>1. /\ pc = "next" /\ UNCHANGED <<map, order, due, report, ifname_cache_, present>>
    BY <1>6 DEF NextKey, kernelVars, mapVars, Fixed
  <2> DEFINE after == {i \in DOMAIN order : \E j \in 1 .. i - 1 : order[j] = key}
             rest == IF key \in DOMAIN map THEN after ELSE DOMAIN order
  <2>2. \/ rest = {} /\ pc' = "done" /\ key' = key
        \/ /\ pc' = "read"
           /\ \E i \in rest : key' = order[i] /\ \A j \in rest : i <= j
    BY <1>6, NextKeyIs
  <2>3. ASSUME NEW k \in due \ report
        PROVE  /\ k \in DOMAIN map' /\ Named(k)' /\ pc' # "done"
               /\ (pc' = "read" /\ key' = k) \/ Before(order', key', k)
    <3>1. k \in DOMAIN map /\ Named(k) /\ (key = 0 \/ Before(order, key, k))
      BY <1>1, <2>1
    <3>2. 0 \notin DOMAIN map
      BY <1>0, IfsAssumption
    <3>3. PICK j \in rest : order[j] = k
      <4>1. CASE key = 0
        BY <4>1, <3>1, <3>2, <1>0 DEF Listing
      <4>2. CASE Before(order, key, k)
        <5>1. PICK h \in DOMAIN order, j \in DOMAIN order : h < j /\ order[h] = key /\ order[j] = k
          BY <4>2 DEF Before
        <5>2. h \in 1 .. j - 1
          BY <5>1, <1>0
        <5> QED
          BY <5>1, <5>2
      <4> QED
        BY <3>1, <4>1, <4>2
    <3>4. rest \subseteq DOMAIN order
      OBVIOUS
    <3> HIDE DEF rest
    <3>5. PICK i \in rest : key' = order[i] /\ \A h \in rest : i <= h
      BY <2>2, <3>3
    <3>6. i = j \/ i < j
      BY <3>3, <3>4, <3>5, <1>0
    <3>7. key' = k \/ Before(order, key', k)
      BY <3>3, <3>4, <3>5, <3>6 DEF Before
    <3>8. pc' = "read"
      BY <2>2, <3>3
    <3>9. Named(k)'
      BY <2>1, <3>1 DEF Named
    <3> QED
      BY <2>1, <3>1, <3>7, <3>8, <3>9
  <2>4. \A k \in due' \ report' : k \in due \ report
    BY <2>1
  <2> QED
    BY <2>3, <2>4 DEF WalkInv
<1>7. CASE SkipUnnamed
  <2>1. /\ pc = "read" /\ ~Named(key) /\ pc' = "next"
        /\ UNCHANGED <<map, order, key, due, report, ifname_cache_, present>>
    BY <1>7 DEF SkipUnnamed, kernelVars, mapVars, Fixed
  <2>2. \A k \in due \ report : k \in DOMAIN map /\ Named(k) /\ Before(order, key, k)
    BY <1>1, <2>1
  <2>3. \A k : Named(k)' <=> Named(k)
    BY <2>1 DEF Named
  <2>4. \A k \in due' \ report' : k \in DOMAIN map' /\ Named(k)' /\ Before(order', key', k)
    BY <2>1, <2>2, <2>3
  <2> QED
    BY <2>1, <2>4 DEF WalkInv
<1>8. CASE ReadValue
  <2>1. /\ pc = "read" /\ pc' = "next" /\ report' = report \union {key}
        /\ ifname_cache_' = ifname_cache_ \union {key}
        /\ UNCHANGED <<map, order, key, due, present>>
    BY <1>8 DEF ReadValue, kernelVars, mapVars, Fixed
  <2>2. \A k \in due' \ report' : k \in DOMAIN map /\ Named(k) /\ Before(order, key, k)
    BY <1>1, <2>1
  <2>3. \A k : Named(k) => Named(k)'
    BY <2>1 DEF Named
  <2>4. \A k \in due' \ report' : k \in DOMAIN map' /\ Named(k)' /\ Before(order', key', k)
    BY <2>1, <2>2, <2>3
  <2> QED
    BY <2>1, <2>4 DEF WalkInv
<1>9. ASSUME NEW i \in Ifs, RemoveInterface(i)
      PROVE  WalkInv'
  <2>1. /\ UNCHANGED <<map, order, pc, key, report, ifname_cache_>>
        /\ present' = present \ {i}
        /\ due' = IF i \in ifname_cache_ THEN due ELSE due \ {i}
    BY <1>9 DEF RemoveInterface, mapVars, monitorVars
  <2>2. \A k \in due' \ report' : k \in due \ report /\ (k # i \/ i \in ifname_cache_)
    BY <2>1
  <2>3. \A k : Named(k) /\ (k # i \/ i \in ifname_cache_) => Named(k)'
    BY <2>1 DEF Named
  <2>4. ASSUME pc' \in {"next", "read", "done"}, NEW k \in due' \ report'
        PROVE  /\ k \in DOMAIN map' /\ Named(k)' /\ pc' # "done"
               /\ \/ pc' = "next" /\ key' = 0
                  \/ pc' = "read" /\ key' = k
                  \/ Before(order', key', k)
    <3>1. k \in due \ report /\ Named(k)'
      BY <1>1, <2>1, <2>2, <2>3, <2>4
    <3> QED
      BY <1>1, <2>1, <2>4, <3>1
  <2> QED
    BY <2>4 DEF WalkInv
<1>10. CASE TrafficStep
  <2>1. /\ UNCHANGED <<pc, key, report, ifname_cache_, present>>
        /\ due' = {k \in due : map'[k] = map[k]}
    BY <1>10 DEF TrafficStep, monitorVars
  <2>2. ASSUME NEW k \in due', k \in DOMAIN map, Before(order, key, k)
        PROVE  Before(order', key, k)
    <3>1. CASE order' = order
      BY <3>1, <2>2
    <3>2. ASSUME NEW c \in Cpus, Insert(c)
          PROVE  order' = order \/ Before(order', key, k)
      <4>1. PICK l \in Ifs : l = cpu[c].key
        BY <3>2, InsertSteps, <1>0
      <4>2. PICK d \in Dirs : d = cpu[c].dir
        BY <3>2, InsertSteps, <1>0
      <4>3. Replaces(c, l, d) \/ Takes(c, l, d) \/ UNCHANGED mapVars
        BY <3>2, <4>1, <4>2, InsertSteps, <1>0
      <4>4. CASE UNCHANGED mapVars
        BY <4>4 DEF mapVars
      <4>5. CASE Replaces(c, l, d) \/ Takes(c, l, d)
        <5>1. order' = Headed(l)
          BY <4>5 DEF Replaces, Takes
        <5>2. k # l
          <6>1. CASE Takes(c, l, d)
            BY <6>1, <2>2 DEF Takes
          <6>2. CASE Replaces(c, l, d)
            <7>1. map'[l] = spare[c] /\ spare[c] # map[l]
              BY <6>2, <1>0 DEF Replaces, Put, KernelInv, Elements
            <7> QED
              BY <7>1, <2>1, <2>2
          <6> QED
            BY <4>5, <6>1, <6>2
        <5>3. Before(Headed(l), key, k)
          BY <5>2, <2>2, <1>0, HeadedListing
        <5> QED
          BY <5>1, <5>3
      <4> QED
        BY <4>3, <4>4, <4>5
    <3>3. order' = order \/ \E c \in Cpus : Insert(c)
      BY <1>10 DEF TrafficStep, Traffic, Packet, Add, mapVars
    <3> QED
      BY <2>2, <3>1, <3>2, <3>3
  <2>3. \A k : Named(k)' <=> Named(k)
    BY <2>1 DEF Named
  <2>4. ASSUME pc' \in {"next", "read", "done"}, NEW k \in due' \ report'
        PROVE  /\ k \in DOMAIN map' /\ Named(k)' /\ pc' # "done"
               /\ \/ pc' = "next" /\ key' = 0
                  \/ pc' = "read" /\ key' = k
                  \/ Before(order', key', k)
    <3>1. k \in due \ report /\ k \in due'
      BY <2>1, <2>4
    <3>2. /\ k \in DOMAIN map /\ Named(k) /\ pc # "done"
          /\ (pc = "next" /\ key = 0) \/ (pc = "read" /\ key = k) \/ Before(order, key, k)
      BY <1>1, <2>1, <2>4, <3>1
    <3>3. Before(order, key, k) => Before(order', key', k)
      BY <2>1, <2>2, <3>1, <3>2
    <3> QED
      BY <2>1, <2>3, <3>2, <3>3
  <2> QED
    BY <2>4 DEF WalkInv
<1>11. CASE UNCHANGED vars
  <2>1. UNCHANGED <<map, order, pc, key, due, report, ifname_cache_, present>>
    BY <1>11 DEF vars, monitorVars, kernelVars, mapVars
  <2>2. \A k : Named(k)' <=> Named(k)
    BY <2>1 DEF Named
  <2> QED
    BY <1>1, <2>1, <2>2 DEF WalkInv
<1> QED
  BY <1>2, <1>3, <1>4, <1>5, <1>6, <1>7, <1>8, <1>9, <1>10, <1>11 DEF Next, InitEbpf, Update

LEMMA NetInductive == Spec => []NetInv
<1>1. Init => NetInv
  BY KernelStarts, MonitorStarts DEF NetInv
<1>2. NetInv /\ [Next]_vars => NetInv'
  <2> SUFFICES ASSUME NetInv, [Next]_vars PROVE NetInv'
    OBVIOUS
  <2>1. KernelInv' /\ DOMAIN map \subseteq DOMAIN map'
    BY KernelKeeps DEF NetInv
  <2>2. MonitorInv'
    BY <2>1, LoadingKept, WalkingKept DEF MonitorInv
  <2>3. WalkInv'
    BY <2>1, WalkKept
  <2> QED
    BY <2>1, <2>2, <2>3 DEF NetInv
<1> QED
  BY <1>1, <1>2, PTL DEF Spec

(* A list has as many entries as the map has keys.                         *)
LEMMA ListingLength ==
  ASSUME NEW s, NEW K, Listing(s, K)
  PROVE  Len(s) = Cardinality(K)
<1>1. Len(s) \in Nat /\ DOMAIN s = 1 .. Len(s) /\ s \in [1 .. Len(s) -> Ifs]
  BY LenProperties DEF Listing
<1>2. s \in Bijection(1 .. Len(s), K)
  <2>1. s \in [1 .. Len(s) -> K]
    BY <1>1 DEF Listing
  <2>2. s \in Injection(1 .. Len(s), K)
    BY <1>1, <2>1 DEF Listing, Injection, IsInjective
  <2>3. s \in Surjection(1 .. Len(s), K)
    BY <1>1, <2>1 DEF Listing, Surjection
  <2> QED
    BY <2>2, <2>3 DEF Bijection
<1>3. ExistsBijection(1 .. Len(s), K)
  BY <1>2 DEF ExistsBijection
<1>4. IsFiniteSet(1 .. Len(s)) /\ Cardinality(1 .. Len(s)) = Len(s)
  BY <1>1, FS_Interval
<1> QED
  BY <1>3, <1>4, FS_Bijection

(* The types of both sides (NetTypeOK included), that no element of the    *)
(* kernel's map is given to two keys or CPUs, that the walk's list is the  *)
(* map's keys, and that the monitor holds a skeleton exactly as long as it *)
(* is loaded.                                                              *)
THEOREM NetTypesHold == Spec => []TypeOK
<1>1. NetInv => TypeOK
  <2> SUFFICES ASSUME NetInv PROVE TypeOK
    OBVIOUS
  <2>1. Len(order) = Cardinality(DOMAIN map)
    BY ListingLength DEF NetInv, KernelInv
  <2>2. cpu \in [Cpus -> [at : {"idle", "hit", "miss"}, key : Ifs \union {0},
                          dir : Dirs, ptr : Elems \union {0}]]
    BY DEF NetInv, KernelInv, KernelTypes, CpuTypes
  <2>3. NetTypeOK
    BY <2>1, <2>2 DEF NetInv, KernelInv, KernelTypes, Elements, InUse, Listing, NetTypeOK
  <2> QED
    BY <2>3 DEF NetInv, KernelInv, KernelTypes, MonitorInv, Loading, Walking, TypeOK
<1> QED
  BY <1>1, NetInductive, PTL

(* A walk that has ended reported every named interface that was in the    *)
(* map when it began and whose element was not replaced meanwhile: keys    *)
(* that are inserted while UpdateOnce walks move nobody behind the cursor. *)
THEOREM WalkReportsAll == Spec => []EveryInterfaceReported
<1>1. NetInv => EveryInterfaceReported
  BY DEF NetInv, WalkInv, EveryInterfaceReported
<1> QED
  BY <1>1, NetInductive, PTL

-----------------------------------------------------------------------------
(* Of the packets so far, those reported, those that the walk has yet to   *)
(* find in the map, and those that a CPU has in hand: packets may get lost *)
(* but none is told twice.                                                 *)
Old(k) == IF k \in DOMAIN cache_ THEN cache_[k] ELSE NoCount
Fresh(k, d) == Diff(elem[map[k]][d], Old(k)[d])
Pending == UNION {{kd} \X (1 .. Fresh(kd[1], kd[2])) : kd \in (DOMAIN map) \X Dirs}
InHand == {c \in Cpus : cpu[c].at # "idle"}

CountInv ==
  /\ IsFiniteSet(Packets) /\ IsFiniteSet(Pending)
  /\ told + Cardinality(Pending) + Cardinality(InHand) <= Cardinality(Packets)

LEMMA CountStarts == Init => CountInv
<1> SUFFICES ASSUME Init PROVE CountInv
  OBVIOUS
<1>1. Packets = {}
  <2>1. \A kd \in Ifs \X Dirs : seen[kd[1]][kd[2]] = 0
    BY DEF Init, NetInit, NoCount
  <2>2. \A kd \in Ifs \X Dirs : {kd} \X (1 .. seen[kd[1]][kd[2]]) = {}
    BY <2>1
  <2> QED
    BY <2>2 DEF Packets
<1>2. Pending = {}
  BY DEF Init, NetInit, Pending
<1>3. InHand = {}
  BY DEF Init, NetInit, InHand, Asleep
<1>4. told = 0
  BY DEF Init
<1> QED
  BY <1>1, <1>2, <1>3, <1>4, FS_EmptySet DEF CountInv

LEMMA Freshes ==
  ASSUME NetInv, NEW k \in DOMAIN map, NEW d \in Dirs
  PROVE  /\ elem[map[k]][d] \in Nat /\ Old(k)[d] \in Nat /\ Fresh(k, d) \in Nat
         /\ map[k] \in Elems
<1>1. map[k] \in Elems
  BY DEF NetInv, KernelInv, Elements, InUse
<1>2. elem[map[k]] \in [Dirs -> Nat]
  BY <1>1 DEF NetInv, KernelInv, KernelTypes
<1>3. Old(k) \in [Dirs -> Nat]
  BY DEF NetInv, MonitorInv, Walking, Old, NoCount
<1>4. \A x, y \in Nat : Diff(x, y) \in Nat
  BY DEF Diff
<1> QED
  BY <1>1, <1>2, <1>3, <1>4 DEF Fresh

LEMMA HandsFinite == IsFiniteSet(InHand) /\ Cardinality(InHand) \in Nat
BY CpusAssumption, FS_Subset, FS_CardinalityType DEF InHand

(* A CPU counts its packet, or fails to.                                   *)
LEMMA CountKeptByHand ==
  ASSUME NetInv, CountInv, NEW c \in Cpus, cpu[c].at # "idle",
         cpu' = [cpu EXCEPT ![c] = Asleep], UNCHANGED <<seen, told>>,
         NEW p, Pending' \subseteq Pending \union {p}
  PROVE  CountInv'
<1>1. InHand' = InHand \ {c} /\ c \in InHand
  BY DEF NetInv, KernelInv, KernelTypes, InHand, Asleep
<1>2. Cardinality(InHand') = Cardinality(InHand) - 1
  BY <1>1, HandsFinite, FS_RemoveElement
<1>3. Packets' = Packets
  BY DEF Packets
<1>4. IsFiniteSet(Pending) /\ Cardinality(Pending) \in Nat
  BY FS_CardinalityType DEF CountInv
<1>5. /\ IsFiniteSet(Pending \union {p}) /\ Cardinality(Pending \union {p}) \in Nat
      /\ Cardinality(Pending \union {p}) <= Cardinality(Pending) + 1
  <2>1. PICK S : S = Pending
    OBVIOUS
  <2>2. /\ IsFiniteSet(S \union {p})
        /\ Cardinality(S \union {p}) = IF p \in S THEN Cardinality(S) ELSE Cardinality(S) + 1
    BY <2>1, <1>4, FS_AddElement
  <2>3. Cardinality(S \union {p}) \in Nat
    BY <2>2, FS_CardinalityType
  <2> QED
    BY <2>1, <2>2, <2>3, <1>4
<1>6. IsFiniteSet(Pending') /\ Cardinality(Pending') <= Cardinality(Pending \union {p})
  BY <1>5, FS_Subset
<1>7. Cardinality(Pending') \in Nat
  BY <1>6, FS_CardinalityType
<1>8. Cardinality(Packets) \in Nat /\ told \in Nat
  BY FS_CardinalityType DEF CountInv, NetInv, MonitorInv, Walking
<1>9. told' + Cardinality(Pending') + Cardinality(InHand') <= Cardinality(Packets')
  <2>1. told + Cardinality(Pending) + Cardinality(InHand) <= Cardinality(Packets)
    BY DEF CountInv
  <2> QED
    BY <2>1, <1>2, <1>3, <1>4, <1>5, <1>6, <1>7, <1>8, HandsFinite
<1> QED
  BY <1>3, <1>6, <1>9 DEF CountInv

LEMMA CountKeptPacket ==
  ASSUME NetInv, CountInv, NEW c \in Cpus, NEW k \in Ifs, NEW d \in Dirs, Packet(c, k, d),
         UNCHANGED <<cache_, told>>
  PROVE  CountInv'
<1>1. cpu[c].at = "idle" /\ UNCHANGED <<map, elem>>
  BY DEF Packet, mapVars
<1>2. PICK n \in Nat : n = seen[k][d]
  BY DEF NetInv, KernelInv, KernelTypes
<1>3. \A kd \in Ifs \X Dirs :
        seen'[kd[1]][kd[2]] = IF kd = <<k, d>> THEN n + 1 ELSE seen[kd[1]][kd[2]]
  <2>1. seen \in [Ifs -> [Dirs -> Nat]]
    BY DEF NetInv, KernelInv, KernelTypes
  <2>2. \A y \in Ifs, b \in Dirs : seen'[y][b] = IF y = k /\ b = d THEN n + 1 ELSE seen[y][b]
    BY <2>1, <1>2, CountUp DEF Packet
  <2> QED
    BY <2>2
<1>4. Packets' = Packets \union {<<<<k, d>>, n + 1>>}
  <2>1. ASSUME NEW x \in Packets'
        PROVE  x \in Packets \union {<<<<k, d>>, n + 1>>}
    <3>1. PICK kd, m : kd \in Ifs \X Dirs /\ m \in 1 .. seen'[kd[1]][kd[2]] /\ x = <<kd, m>>
      BY DEF Packets
    <3>2. CASE kd = <<k, d>>
      <4>1. m \in 1 .. n \/ m = n + 1
        BY <3>1, <3>2, <1>3, <1>2
      <4>2. seen[kd[1]][kd[2]] = n
        BY <3>2, <1>2
      <4> QED
        BY <3>1, <3>2, <4>1, <4>2 DEF Packets
    <3>3. CASE kd # <<k, d>>
      BY <3>1, <3>3, <1>3 DEF Packets
    <3> QED
      BY <3>2, <3>3
  <2>2. ASSUME NEW x \in Packets
        PROVE  x \in Packets'
    <3>1. PICK kd, m : kd \in Ifs \X Dirs /\ m \in 1 .. seen[kd[1]][kd[2]] /\ x = <<kd, m>>
      BY DEF Packets
    <3>2. m \in 1 .. seen'[kd[1]][kd[2]]
      BY <3>1, <1>2, <1>3
    <3> QED
      BY <3>1, <3>2 DEF Packets
  <2>3. <<<<k, d>>, n + 1>> \in Packets'
    <3>1. <<k, d>> \in Ifs \X Dirs /\ n + 1 \in 1 .. seen'[<<k, d>>[1]][<<k, d>>[2]]
      BY <1>2, <1>3
    <3> QED
      BY <3>1 DEF Packets
  <2> QED
    BY <2>1, <2>2, <2>3
<1>5. <<<<k, d>>, n + 1>> \notin Packets
  <2> SUFFICES ASSUME <<<<k, d>>, n + 1>> \in Packets PROVE FALSE
    OBVIOUS
  <2>1. PICK kd, m : kd \in Ifs \X Dirs /\ m \in 1 .. seen[kd[1]][kd[2]] /\ <<<<k, d>>, n + 1>> = <<kd, m>>
    BY DEF Packets
  <2>2. n + 1 \in 1 .. n
    BY <2>1, <1>2
  <2> QED
    BY <2>2
<1>6. IsFiniteSet(Packets') /\ Cardinality(Packets') = Cardinality(Packets) + 1
  BY <1>4, <1>5, FS_AddElement DEF CountInv
<1>7. Pending' = Pending
  BY <1>1 DEF Pending, Fresh, Old
<1>8. InHand' = InHand \union {c} /\ c \notin InHand
  BY <1>1 DEF Packet, NetInv, KernelInv, KernelTypes, InHand
<1>9. Cardinality(InHand') = Cardinality(InHand) + 1
  BY <1>8, HandsFinite, FS_AddElement
<1>10. Cardinality(Packets) \in Nat /\ Cardinality(Pending) \in Nat /\ told \in Nat
  BY FS_CardinalityType DEF CountInv, NetInv, MonitorInv, Walking
<1> QED
  BY <1>6, <1>7, <1>9, <1>10, HandsFinite DEF CountInv

LEMMA CountKeptAdd ==
  ASSUME NetInv, CountInv, NEW c \in Cpus, Add(c), UNCHANGED <<cache_, told>>
  PROVE  CountInv'
<1>1. PICK e : e = cpu[c].ptr
  OBVIOUS
<1>2. PICK d : d = cpu[c].dir
  OBVIOUS
<1>3. e \in Elems /\ d \in Dirs
  BY <1>1, <1>2 DEF NetInv, KernelInv, CpuTypes, Add
<1>4. \A x \in Elems, b \in Dirs :
        elem'[x][b] = IF x = e /\ b = d THEN elem[e][d] + 1 ELSE elem[x][b]
  <2>1. elem \in [Elems -> [Dirs -> Nat]] /\ elem' = [elem EXCEPT ![e][d] = @ + 1]
    BY <1>1, <1>2 DEF NetInv, KernelInv, KernelTypes, Add
  <2> QED
    BY <2>1, <1>3, CountUp
<1>5. map' = map
  BY DEF Add
<1>6. PICK k : k = CHOOSE l \in DOMAIN map : map[l] = e
  OBVIOUS
<1>7. PICK m : m = Fresh(k, d) + 1
  OBVIOUS
<1>8. Pending' \subseteq Pending \union {<<<<k, d>>, m>>}
  <2> SUFFICES ASSUME NEW x \in Pending'
               PROVE  x \in Pending \union {<<<<k, d>>, m>>}
    OBVIOUS
  <2>1. PICK l, b, n : l \in DOMAIN map /\ b \in Dirs /\ n \in 1 .. Fresh(l, b)' /\ x = <<<<l, b>>, n>>
    BY <1>5 DEF Pending
  <2>2. /\ elem[map[l]][b] \in Nat /\ Old(l)[b] \in Nat /\ Fresh(l, b) \in Nat
        /\ map[l] \in Elems
    BY <2>1, Freshes
  <2>3. Fresh(l, b)' = Diff(elem'[map[l]][b], Old(l)[b])
    BY <1>5 DEF Fresh, Old
  <2>4. CASE map[l] = e /\ b = d
    <3>1. l = k
      BY <2>1, <2>4, <1>6 DEF NetInv, KernelInv, Elements
    <3>2. Fresh(l, b)' = Diff(elem[map[l]][b] + 1, Old(l)[b])
      BY <2>1, <2>2, <2>3, <2>4, <1>4
    <3>3. n \in 1 .. Fresh(l, b) \/ n = Fresh(l, b) + 1
      BY <2>1, <2>2, <3>2 DEF Diff, Fresh
    <3> QED
      BY <2>1, <2>4, <3>1, <3>3, <1>7 DEF Pending
  <2>5. CASE ~ (map[l] = e /\ b = d)
    <3>1. Fresh(l, b)' = Fresh(l, b)
      BY <2>1, <2>2, <2>3, <2>5, <1>4 DEF Fresh
    <3> QED
      BY <2>1, <3>1 DEF Pending
  <2> QED
    BY <2>4, <2>5
<1> QED
  BY <1>8, CountKeptByHand DEF Add

LEMMA PendingOfInsert ==
  ASSUME NetInv, NEW k \in Ifs, NEW d \in Dirs, NEW e \in Elems,
         map' = Put(map, k, e), elem' = [elem EXCEPT ![e] = [NoCount EXCEPT ![d] = 1]],
         UNCHANGED cache_, \A l \in DOMAIN map : l # k => map[l] # e
  PROVE  Pending' \subseteq Pending \union {<<<<k, d>>, 1>>}
<1> SUFFICES ASSUME NEW x \in Pending'
             PROVE  x \in Pending \union {<<<<k, d>>, 1>>}
  OBVIOUS
<1>1. DOMAIN map' = DOMAIN map \union {k} /\ map'[k] = e
      /\ \A l \in DOMAIN map : l # k => map'[l] = map[l]
  BY DEF Put
<1>2. PICK l, b, n : l \in DOMAIN map' /\ b \in Dirs /\ n \in 1 .. Fresh(l, b)' /\ x = <<<<l, b>>, n>>
  BY DEF Pending
<1>3. elem \in [Elems -> [Dirs -> Nat]]
  BY DEF NetInv, KernelInv, KernelTypes
<1>4. CASE l = k
  <2>1. elem'[e][b] = IF b = d THEN 1 ELSE 0
    BY <1>2, <1>3 DEF NoCount
  <2>2. Fresh(l, b)' = Diff(elem'[e][b], Old(l)[b])
    BY <1>1, <1>4 DEF Fresh, Old
  <2>3. Old(l)[b] \in Nat
    BY <1>2 DEF NetInv, MonitorInv, Walking, Old, NoCount
  <2>4. n = 1 /\ b = d
    BY <1>2, <2>1, <2>2, <2>3 DEF Diff
  <2> QED
    BY <1>2, <1>4, <2>4
<1>5. CASE l # k
  <2>1. l \in DOMAIN map /\ map'[l] = map[l] /\ map[l] # e
    BY <1>1, <1>2, <1>5
  <2>2. map[l] \in Elems
    BY <2>1, Freshes, <1>2
  <2>3. elem'[map[l]] = elem[map[l]]
    BY <2>1, <2>2, <1>3
  <2>4. Fresh(l, b)' = Fresh(l, b)
    BY <2>1, <2>3 DEF Fresh, Old
  <2> QED
    BY <2>1, <2>4, <1>2 DEF Pending
<1> QED
  BY <1>4, <1>5

LEMMA CountKeptInsert ==
  ASSUME NetInv, CountInv, NEW c \in Cpus, Insert(c), UNCHANGED <<cache_, told>>
  PROVE  CountInv'
<1>0. KernelInv
  BY DEF NetInv
<1>1. PICK k \in Ifs : k = cpu[c].key
  BY <1>0, InsertSteps
<1>2. PICK d \in Dirs : d = cpu[c].dir
  BY <1>0, InsertSteps
<1>3. /\ cpu[c].at = "miss" /\ cpu' = [cpu EXCEPT ![c] = Asleep]
      /\ UNCHANGED seen
      /\ Replaces(c, k, d) \/ Takes(c, k, d) \/ UNCHANGED mapVars
  BY <1>0, <1>1, <1>2, InsertSteps
<1>4. Pending' \subseteq Pending \union {<<<<k, d>>, 1>>}
  <2>1. CASE Replaces(c, k, d)
    <3>1. PICK e : e = spare[c]
      OBVIOUS
    <3>2. e \in Elems /\ \A l \in DOMAIN map : map[l] # e
      BY <3>1, <1>0 DEF KernelInv, Elements, InUse
    <3> QED
      BY <2>1, <3>1, <3>2, PendingOfInsert DEF Replaces
  <2>2. CASE Takes(c, k, d)
    <3>1. PICK n : n = Cardinality(DOMAIN map)
      OBVIOUS
    <3>2. n \in Nat /\ max_entries \in Nat /\ Cardinality(Cpus) \in Nat /\ n + 1 <= max_entries
      BY <2>2, <3>1, <1>0, Sizes, FS_CardinalityType DEF KernelInv, KernelTypes, Elements, Takes
    <3>3. n + 1 \in Elems
      BY <3>2 DEF Elems
    <3>4. \A l \in DOMAIN map : map[l] # n + 1
      BY <3>1, <3>2, <1>0 DEF KernelInv, Elements, InUse, Elems
    <3>5. map' = Put(map, k, n + 1) /\ elem' = [elem EXCEPT ![n + 1] = [NoCount EXCEPT ![d] = 1]]
      BY <2>2, <3>1 DEF Takes
    <3> QED
      BY <3>3, <3>4, <3>5, PendingOfInsert
  <2>3. CASE UNCHANGED mapVars
    BY <2>3 DEF mapVars, Pending, Fresh, Old
  <2> QED
    BY <1>3, <2>1, <2>2, <2>3
<1> QED
  BY <1>3, <1>4, CountKeptByHand

(* What is read has been found.                                            *)
LEMMA CountKeptRead ==
  ASSUME NetInv, CountInv, ReadValue
  PROVE  CountInv'
<1>1. /\ key \in DOMAIN map /\ DOMAIN map \subseteq Ifs
      /\ UNCHANGED <<map, elem, cpu, seen>>
      /\ cache_' = Put(cache_, key, elem[map[key]])
  BY DEF ReadValue, NetInv, MonitorInv, Walking, KernelInv, Elements, kernelVars, mapVars
<1>2. PICK k \in DOMAIN map : k = key
  BY <1>1
<1>3. PICK f : f = Fresh(k, "rcv")
  OBVIOUS
<1>4. PICK g : g = Fresh(k, "snd")
  OBVIOUS
<1>5. f \in Nat /\ g \in Nat
  BY <1>3, <1>4, Freshes DEF Dirs
<1>6. told' \in Nat /\ told' <= told + f + g
  <2>1. told' = told \/ told' = told + f + g
    BY <1>2, <1>3, <1>4 DEF ReadValue, Fresh, Old
  <2>2. told \in Nat
    BY DEF NetInv, MonitorInv, Walking
  <2> QED
    BY <2>1, <2>2, <1>5
<1> DEFINE F == {<<k, "rcv">>} \X (1 .. f)
           G == {<<k, "snd">>} \X (1 .. g)
<1>7. /\ IsFiniteSet(F) /\ Cardinality(F) = f /\ IsFiniteSet(G) /\ Cardinality(G) = g
  <2>1. \A x : IsFiniteSet({x}) /\ Cardinality({x}) = 1
    BY FS_Singleton
  <2>2. \A n \in Nat : IsFiniteSet(1 .. n) /\ Cardinality(1 .. n) = n
    <3> TAKE n \in Nat
    <3> QED
      BY FS_Interval
  <2>3. \A x : \A n \in Nat :
          IsFiniteSet({x} \X (1 .. n)) /\ Cardinality({x} \X (1 .. n)) = n
    <3> TAKE x
    <3> TAKE n \in Nat
    <3>1. /\ IsFiniteSet({x} \X (1 .. n))
          /\ Cardinality({x} \X (1 .. n)) = Cardinality({x}) * Cardinality(1 .. n)
      BY <2>1, <2>2, FS_Product
    <3>2. Cardinality({x}) = 1
      BY <2>1
    <3>3. Cardinality(1 .. n) = n
      BY <2>2
    <3>4. 1 * n = n
      OBVIOUS
    <3> QED
      BY <3>1, <3>2, <3>3, <3>4
  <2> QED
    BY <2>3, <1>5
<1>8. F \subseteq Pending /\ G \subseteq Pending
  BY <1>3, <1>4 DEF Pending, Dirs
<1>9. F \cap G = {}
  OBVIOUS
<1>10. Pending' \subseteq Pending /\ Pending' \cap (F \union G) = {}
  <2> SUFFICES ASSUME NEW x \in Pending'
               PROVE  x \in Pending /\ x \notin F /\ x \notin G
    OBVIOUS
  <2>1. PICK l, b, n : l \in DOMAIN map /\ b \in Dirs /\ n \in 1 .. Fresh(l, b)' /\ x = <<<<l, b>>, n>>
    BY <1>1 DEF Pending
  <2>2. l # k
    <3> SUFFICES ASSUME l = k PROVE FALSE
      OBVIOUS
    <3>1. Old(l)' = elem[map[k]]
      BY <1>1, <1>2 DEF Old, Put
    <3>2. Fresh(l, b)' = Diff(elem[map[k]][b], elem[map[k]][b])
      BY <3>1, <1>1 DEF Fresh
    <3>3. elem[map[k]][b] \in Nat
      BY <2>1, Freshes
    <3>4. Fresh(l, b)' = 0
      BY <3>2, <3>3 DEF Diff
    <3> QED
      BY <3>4, <2>1
  <2>3. Old(l)' = Old(l)
    BY <2>2, <1>1, <1>2 DEF Old, Put
  <2>4. Fresh(l, b)' = Fresh(l, b)
    BY <2>3, <1>1 DEF Fresh
  <2> QED
    BY <2>1, <2>2, <2>4 DEF Pending
<1> HIDE DEF F, G
<1>11. /\ IsFiniteSet(F \union G) /\ Cardinality(F \union G) = f + g
  <2>1. Cardinality(F \cap G) = 0
    BY <1>9, FS_EmptySet
  <2>2. IsFiniteSet(F \union G) /\ Cardinality(F \union G) = f + g - 0
    BY <1>7, <2>1, FS_Union
  <2> QED
    BY <2>2, <1>5
<1>12. IsFiniteSet(Pending) /\ IsFiniteSet(Pending') /\ Cardinality(Pending') \in Nat
       /\ Cardinality(Pending) \in Nat
  BY <1>10, FS_Subset, FS_CardinalityType DEF CountInv
<1>13. Cardinality(Pending') + (f + g) <= Cardinality(Pending)
  <2>1. Cardinality(Pending' \cap (F \union G)) = 0
    BY <1>10, FS_EmptySet
  <2>2. Cardinality(Pending' \union (F \union G)) = Cardinality(Pending') + (f + g) - 0
    BY <1>11, <1>12, <2>1, FS_Union
  <2>3. Pending' \union (F \union G) \subseteq Pending
    BY <1>8, <1>10
  <2>4. Cardinality(Pending' \union (F \union G)) <= Cardinality(Pending)
    BY <1>12, <2>3, FS_Subset
  <2> QED
    BY <2>2, <2>4, <1>5, <1>12
<1>14. Packets' = Packets /\ InHand' = InHand
  BY <1>1 DEF Packets, InHand
<1>15. told' + Cardinality(Pending') + Cardinality(InHand') <= Cardinality(Packets')
  <2>1. told + Cardinality(Pending) + Cardinality(InHand) <= Cardinality(Packets)
    BY DEF CountInv
  <2>2. told \in Nat /\ Cardinality(Packets) \in Nat
    BY FS_CardinalityType DEF CountInv, NetInv, MonitorInv, Walking
  <2> QED
    BY <2>1, <2>2, <1>5, <1>6, <1>12, <1>13, <1>14, HandsFinite
<1> QED
  BY <1>12, <1>14, <1>15 DEF CountInv

LEMMA CountKept ==
  ASSUME NetInv, CountInv, [Next]_vars
  PROVE  CountInv'
<1>1. CASE UNCHANGED <<map, elem, cache_, told, cpu, seen>>
  <2>1. Pending' = Pending /\ InHand' = InHand /\ Packets' = Packets
    BY <1>1 DEF Pending, Fresh, Old, InHand, Packets
  <2> QED
    BY <1>1, <2>1 DEF CountInv
<1>2. CASE Load \/ LoadFails \/ AttachEgress \/ InitEbpfEnds \/ CleanupEbpf \/ UNCHANGED vars
  BY <1>1, <1>2 DEF Load, LoadFails, AttachEgress, InitEbpfEnds, CleanupEbpf, Walk, vars,
                    kernelVars, mapVars, monitorVars
<1>3. CASE UpdateOnce \/ NextKey \/ SkipUnnamed \/ UpdateOnceEnds
  BY <1>1, <1>3 DEF UpdateOnce, NextKey, SkipUnnamed, UpdateOnceEnds, kernelVars, mapVars
<1>4. ASSUME NEW k \in Ifs, SkipInterface(k) \/ AttachIngress(k) \/ RemoveInterface(k)
      PROVE  CountInv'
  BY <1>1, <1>4 DEF SkipInterface, AttachIngress, RemoveInterface, Walk, kernelVars, mapVars,
                    monitorVars
<1>5. CASE TrafficStep
  <2>1. UNCHANGED <<cache_, told>>
    BY <1>5 DEF TrafficStep, monitorVars
  <2>2. hooks \subseteq Ifs \X Dirs
    BY DEF NetInv, KernelInv, KernelTypes
  <2>3. ASSUME NEW c \in Cpus, NEW kd \in hooks, Packet(c, kd[1], kd[2])
        PROVE  CountInv'
    BY <2>1, <2>2, <2>3, CountKeptPacket
  <2>4. ASSUME NEW c \in Cpus, Insert(c)
        PROVE  CountInv'
    BY <2>1, <2>4, CountKeptInsert
  <2>5. ASSUME NEW c \in Cpus, Add(c)
        PROVE  CountInv'
    BY <2>1, <2>5, CountKeptAdd
  <2> QED
    BY <1>5, <2>3, <2>4, <2>5 DEF TrafficStep, Traffic
<1> QED
  BY <1>2, <1>3, <1>4, <1>5, CountKeptRead DEF Next, InitEbpf, Update

(* The monitor never reports more packets than went through its programs,  *)
(* on top of the first values: whatever the CPUs do to the map between and *)
(* during the walks.                                                       *)
THEOREM NothingToldTwice == Spec => []ReportedWithinSeen
<1>1. Init => CountInv
  BY CountStarts
<1>2. NetInv /\ CountInv /\ [Next]_vars => CountInv'
  BY CountKept
<1>3. NetInv /\ CountInv => ReportedWithinSeen
  <2> SUFFICES ASSUME NetInv, CountInv PROVE ReportedWithinSeen
    OBVIOUS
  <2>1. /\ told \in Nat /\ Cardinality(Pending) \in Nat /\ Cardinality(Packets) \in Nat
    BY FS_CardinalityType DEF NetInv, MonitorInv, Walking, CountInv
  <2>2. told + Cardinality(Pending) + Cardinality(InHand) <= Cardinality(Packets)
    BY DEF CountInv
  <2> QED
    BY <2>1, <2>2, HandsFinite DEF ReportedWithinSeen, AllSeen
<1> QED
  BY <1>1, <1>2, <1>3, NetInductive, PTL DEF Spec

-----------------------------------------------------------------------------
(* Packets of interface k in direction d that a CPU has in hand.           *)
HandsOn(k, d) == {c \in Cpus : /\ cpu[c].at # "idle"
                               /\ cpu[c].key = k /\ cpu[c].dir = d}

LEMMA HandsOnFinite ==
  \A k, d : IsFiniteSet(HandsOn(k, d)) /\ Cardinality(HandsOn(k, d)) \in Nat
BY CpusAssumption, FS_Subset, FS_CardinalityType DEF HandsOn

LEMMA LostIs ==
  ASSUME NetInv, NEW k \in DOMAIN map, NEW d \in Dirs
  PROVE  /\ Lost(k, d) = seen[k][d] - elem[map[k]][d] - Cardinality(HandsOn(k, d))
         /\ k \in Ifs /\ map[k] \in Elems
         /\ seen[k][d] \in Nat /\ elem[map[k]][d] \in Nat
BY Freshes DEF Lost, HandsOn, NetInv, KernelInv, Elements, KernelTypes

LEMMA PacketNotLost ==
  ASSUME NetInv, NEW c \in Cpus, NEW l \in Ifs, NEW b \in Dirs, Packet(c, l, b),
         NEW k \in DOMAIN map, NEW d \in Dirs
  PROVE  Lost(k, d)' = Lost(k, d)
<1>1. cpu[c].at = "idle" /\ UNCHANGED <<map, elem>>
  BY DEF Packet, mapVars
<1>2. seen'[k][d] = IF k = l /\ d = b THEN seen[k][d] + 1 ELSE seen[k][d]
  <2>1. seen \in [Ifs -> [Dirs -> Nat]] /\ k \in Ifs
    BY LostIs DEF NetInv, KernelInv, KernelTypes
  <2> QED
    BY <2>1, CountUp DEF Packet
<1>3. /\ \A a \in Cpus : a # c => cpu'[a] = cpu[a]
      /\ cpu'[c].at # "idle" /\ cpu'[c].key = l /\ cpu'[c].dir = b
  BY DEF Packet, NetInv, KernelInv, KernelTypes
<1>4. Cardinality(HandsOn(k, d)') = IF k = l /\ d = b THEN Cardinality(HandsOn(k, d)) + 1
                                   ELSE Cardinality(HandsOn(k, d))
  <2>1. c \notin HandsOn(k, d)
    BY <1>1 DEF HandsOn
  <2>2. CASE k = l /\ d = b
    <3>1. HandsOn(k, d)' = HandsOn(k, d) \union {c}
      BY <1>3, <2>2 DEF HandsOn
    <3> QED
      BY <2>1, <2>2, <3>1, HandsOnFinite, FS_AddElement
  <2>3. CASE ~ (k = l /\ d = b)
    <3>1. HandsOn(k, d)' = HandsOn(k, d)
      BY <1>3, <2>1, <2>3 DEF HandsOn
    <3> QED
      BY <2>3, <3>1
  <2> QED
    BY <2>2, <2>3
<1>5. Lost(k, d)' = seen'[k][d] - elem[map[k]][d] - Cardinality(HandsOn(k, d)')
  BY <1>1 DEF Lost, HandsOn
<1>6. Lost(k, d) = seen[k][d] - elem[map[k]][d] - Cardinality(HandsOn(k, d))
  BY LostIs
<1>7. \A x, y, z \in Nat : (x + 1) - y - (z + 1) = x - y - z
  OBVIOUS
<1>8. seen[k][d] \in Nat /\ elem[map[k]][d] \in Nat /\ Cardinality(HandsOn(k, d)) \in Nat
  BY LostIs, HandsOnFinite
<1> QED
  BY <1>2, <1>4, <1>5, <1>6, <1>7, <1>8

LEMMA AsleepHands ==
  ASSUME NetInv, NEW c \in Cpus, cpu[c].at # "idle", cpu' = [cpu EXCEPT ![c] = Asleep],
         NEW k, NEW d
  PROVE  Cardinality(HandsOn(k, d)') =
           IF cpu[c].key = k /\ cpu[c].dir = d THEN Cardinality(HandsOn(k, d)) - 1
           ELSE Cardinality(HandsOn(k, d))
<1>1. cpu'[c].at = "idle" /\ \A a \in Cpus : a # c => cpu'[a] = cpu[a]
  BY DEF NetInv, KernelInv, KernelTypes, Asleep
<1>2. HandsOn(k, d)' = HandsOn(k, d) \ {c}
  BY <1>1 DEF HandsOn
<1>3. c \in HandsOn(k, d) <=> cpu[c].key = k /\ cpu[c].dir = d
  BY DEF HandsOn
<1> QED
  BY <1>2, <1>3, HandsOnFinite, FS_RemoveElement

LEMMA AddNotLost ==
  ASSUME NetInv, Settled, NEW c \in Cpus, Add(c), NEW k \in DOMAIN map, NEW d \in Dirs
  PROVE  Lost(k, d)' = Lost(k, d)
<1>1. PICK e : e = cpu[c].ptr
  OBVIOUS
<1>2. PICK b : b = cpu[c].dir
  OBVIOUS
<1>3. PICK l : l = cpu[c].key
  OBVIOUS
<1>4. cpu[c].at = "hit" /\ UNCHANGED <<map, seen>>
  BY DEF Add
<1>5. e \in Elems /\ b \in Dirs /\ l \in DOMAIN map
  BY <1>1, <1>2, <1>3, <1>4 DEF NetInv, KernelInv, CpuTypes
<1>6. map[l] = e
  BY <1>1, <1>3, <1>4 DEF Settled
<1>7. map[k] = e <=> k = l
  BY <1>5, <1>6 DEF NetInv, KernelInv, Elements
<1>8. elem'[map[k]][d] = IF k = l /\ d = b THEN elem[map[k]][d] + 1 ELSE elem[map[k]][d]
  <2>1. elem \in [Elems -> [Dirs -> Nat]] /\ elem' = [elem EXCEPT ![e][b] = @ + 1]
    BY <1>1, <1>2 DEF NetInv, KernelInv, KernelTypes, Add
  <2> QED
    BY <2>1, <1>5, <1>7, CountUp, LostIs
<1>9. Cardinality(HandsOn(k, d)') = IF l = k /\ b = d THEN Cardinality(HandsOn(k, d)) - 1
                                   ELSE Cardinality(HandsOn(k, d))
  BY <1>2, <1>3, <1>4, AsleepHands DEF Add
<1>10. Lost(k, d)' = seen[k][d] - elem'[map[k]][d] - Cardinality(HandsOn(k, d)')
  BY <1>4 DEF Lost, HandsOn
<1>11. l = k /\ b = d => Cardinality(HandsOn(k, d)) >= 1
  <2>1. IsFiniteSet(HandsOn(k, d)') /\ Cardinality(HandsOn(k, d)') \in Nat
    BY CpusAssumption, FS_Subset, FS_CardinalityType DEF HandsOn
  <2> QED
    BY <2>1, <1>9, HandsOnFinite
<1> QED
  BY <1>8, <1>9, <1>10, LostIs, HandsOnFinite

LEMMA InsertNotLost ==
  ASSUME NetInv, Settled, NEW c \in Cpus, Insert(c), NEW k \in DOMAIN map, NEW d \in Dirs
  PROVE  Lost(k, d)' = Lost(k, d)
<1>0. KernelInv
  BY DEF NetInv
<1>1. PICK l \in Ifs : l = cpu[c].key
  BY <1>0, InsertSteps
<1>2. PICK b \in Dirs : b = cpu[c].dir
  BY <1>0, InsertSteps
<1>3. /\ cpu[c].at = "miss" /\ cpu' = [cpu EXCEPT ![c] = Asleep] /\ UNCHANGED seen
      /\ Replaces(c, l, b) \/ Takes(c, l, b) \/ UNCHANGED mapVars
  BY <1>0, <1>1, <1>2, InsertSteps
<1>4. l \notin DOMAIN map
  BY <1>1, <1>3 DEF Settled
<1>5. map'[k] = map[k] /\ elem'[map[k]] = elem[map[k]]
  <2>1. CASE Takes(c, l, b)
    <3>1. PICK n : n = Cardinality(DOMAIN map)
      OBVIOUS
    <3>2. n \in Nat /\ max_entries \in Nat /\ Cardinality(Cpus) \in Nat /\ n + 1 <= max_entries
      BY <2>1, <3>1, <1>0, Sizes, FS_CardinalityType DEF KernelInv, KernelTypes, Elements, Takes
    <3>3. map[k] # n + 1
      BY <3>1, <3>2, <1>0 DEF KernelInv, Elements, InUse, Elems
    <3>4. map' = Put(map, l, n + 1) /\ elem' = [elem EXCEPT ![n + 1] = [NoCount EXCEPT ![b] = 1]]
      BY <2>1, <3>1 DEF Takes
    <3>5. map'[k] = map[k]
      BY <3>4, <1>4 DEF Put
    <3>6. map[k] \in Elems /\ elem \in [Elems -> [Dirs -> Nat]]
      BY <1>0, LostIs DEF KernelInv, KernelTypes
    <3> QED
      BY <3>3, <3>4, <3>5, <3>6
  <2>2. CASE UNCHANGED mapVars
    BY <2>2 DEF mapVars
  <2>3. ~ Replaces(c, l, b)
    BY <1>4 DEF Replaces
  <2> QED
    BY <1>3, <2>1, <2>2, <2>3
<1>6. HandsOn(k, d)' = HandsOn(k, d)
  <2>1. cpu'[c].at = "idle" /\ \A a \in Cpus : a # c => cpu'[a] = cpu[a]
    BY <1>0, <1>3 DEF KernelInv, KernelTypes, Asleep
  <2> QED
    BY <2>1, <1>1, <1>4 DEF HandsOn
<1> QED
  BY <1>3, <1>5, <1>6 DEF Lost, HandsOn

(* While no CPU is about to insert a key that is there already, nor holds  *)
(* a pointer to a replaced element, every packet of an interface that has  *)
(* an element is counted in it or in a CPU's hand (the BPF programs, any   *)
(* number of CPUs at once).                                                *)
THEOREM NothingLostOnceSettled == Spec => NoLossOnceSettled
<1>1. NetInv /\ [Next]_vars =>
        [(Settled /\ Settled') =>
            \A k \in DOMAIN map, d \in Dirs : Lost(k, d)' = Lost(k, d)]_kernelVars
  <2> SUFFICES ASSUME NetInv, [Next]_vars, Settled, NEW k \in DOMAIN map, NEW d \in Dirs
               PROVE  Lost(k, d)' = Lost(k, d)
    OBVIOUS
  <2>1. CASE KernelRests
    <3>1. UNCHANGED <<map, elem, cpu, seen>>
      BY <2>1 DEF KernelRests, mapVars
    <3> QED
      BY <3>1 DEF Lost
  <2>2. ASSUME NEW c \in Cpus, NEW l \in Ifs, NEW b \in Dirs, Packet(c, l, b)
        PROVE  Lost(k, d)' = Lost(k, d)
    BY <2>2, PacketNotLost
  <2>3. ASSUME NEW c \in Cpus, Insert(c)
        PROVE  Lost(k, d)' = Lost(k, d)
    BY <2>3, InsertNotLost
  <2>4. ASSUME NEW c \in Cpus, Add(c)
        PROVE  Lost(k, d)' = Lost(k, d)
    BY <2>4, AddNotLost
  <2>5. KernelInv
    BY DEF NetInv
  <2> QED
    BY <2>1, <2>2, <2>3, <2>4, <2>5, KernelSteps
<1> QED
  BY <1>1, NetInductive, PTL DEF Spec, NoLossOnceSettled
=============================================================================
