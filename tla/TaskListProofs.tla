--------------------------- MODULE TaskListProofs ---------------------------
(***************************************************************************)
(* What the list operations do to the set of elements, to the absence of   *)
(* repetitions and to the order.  The proofs about the scheduler use only  *)
(* these lemmas and never look inside a sequence.                          *)
(***************************************************************************)
EXTENDS TaskLists, SequenceTheorems, FiniteSetTheorems, WellFoundedInduction, TLAPS

\* STAILQ_INSERT_TAIL adds one element and keeps a list free of repetitions.
LEMMA AppendSet ==
  ASSUME NEW S, NEW s \in Seq(S), NEW x \in S
  PROVE  /\ Append(s, x) \in Seq(S)
         /\ Append(s, x) # <<>>
         /\ ToSet(Append(s, x)) = ToSet(s) \cup {x}
         /\ IsInjective(s) /\ x \notin ToSet(s) => IsInjective(Append(s, x))
<1> DEFINE r == Append(s, x)
<1>1. /\ r \in Seq(S) /\ Len(r) = Len(s) + 1 /\ DOMAIN r = 1 .. Len(s) + 1
      /\ \A i \in 1 .. Len(s) : r[i] = s[i]
      /\ r[Len(s) + 1] = x
  OBVIOUS
<1>2. DOMAIN s = 1 .. Len(s) /\ Len(s) \in Nat
  OBVIOUS
<1>3. ToSet(r) = ToSet(s) \cup {x}
  BY <1>1, <1>2 DEF ToSet
<1>4. ASSUME IsInjective(s), x \notin ToSet(s)
      PROVE  IsInjective(r)
  BY <1>1, <1>2, <1>4 DEF ToSet, IsInjective
<1>5. r # <<>>
  <2>1. Len(r) # 0 /\ Len(<<>>) = 0
    BY <1>1, <1>2, EmptySeq
  <2> QED
    BY <2>1
<1> QED
  BY <1>1, <1>3, <1>4, <1>5

\* STAILQ_REMOVE_HEAD and removal of the first waiter.
LEMMA TailSet ==
  ASSUME NEW S, NEW s \in Seq(S), s # <<>>
  PROVE  /\ Head(s) \in S /\ Tail(s) \in Seq(S)
         /\ Head(s) \in ToSet(s)
         /\ Tail(s) = <<>> <=> Len(s) = 1
         /\ IsInjective(s) => /\ IsInjective(Tail(s))
                              /\ ToSet(Tail(s)) = ToSet(s) \ {Head(s)}
<1> DEFINE r == Tail(s)
<1>1. /\ r \in Seq(S) /\ Len(r) = Len(s) - 1 /\ DOMAIN r = 1 .. Len(s) - 1
      /\ \A i \in 1 .. Len(s) - 1 : r[i] = s[i + 1]
  OBVIOUS
<1>2. DOMAIN s = 1 .. Len(s) /\ Len(s) \in Nat \ {0} /\ Head(s) = s[1] /\ s[1] \in S
  OBVIOUS
<1>3. Head(s) \in ToSet(s)
  BY <1>2 DEF ToSet
<1>4. r = <<>> <=> Len(s) = 1
  BY <1>1, <1>2
<1>5. ASSUME IsInjective(s)
      PROVE  IsInjective(r) /\ ToSet(r) = ToSet(s) \ {Head(s)}
  <2>1. IsInjective(r)
    <3> SUFFICES ASSUME NEW a \in 1 .. Len(s) - 1, NEW b \in 1 .. Len(s) - 1, r[a] = r[b]
                 PROVE  a = b
      BY <1>1 DEF IsInjective
    <3>1. s[a + 1] = s[b + 1] /\ a + 1 \in 1 .. Len(s) /\ b + 1 \in 1 .. Len(s)
      BY <1>1, <1>2
    <3> QED
      BY <1>2, <1>5, <3>1 DEF IsInjective
  <2>2. ASSUME NEW e \in ToSet(r)
        PROVE  e \in ToSet(s) /\ e # Head(s)
    <3>1. PICK i \in 1 .. Len(s) - 1 : e = r[i]
      BY <1>1, <2>2 DEF ToSet
    <3>2. e = s[i + 1] /\ i + 1 \in 1 .. Len(s) /\ i + 1 # 1
      BY <1>1, <1>2, <3>1
    <3> QED
      BY <1>2, <1>5, <3>2 DEF ToSet, IsInjective
  <2>3. ASSUME NEW e \in ToSet(s), e # Head(s)
        PROVE  e \in ToSet(r)
    <3>1. PICK i \in 1 .. Len(s) : e = s[i]
      BY <1>2 DEF ToSet
    <3>2. i # 1 /\ i - 1 \in 1 .. Len(s) - 1 /\ r[i - 1] = e
      BY <1>1, <1>2, <2>3, <3>1
    <3> QED
      BY <1>1, <3>2 DEF ToSet
  <2> QED
    BY <2>1, <2>2, <2>3
<1> QED
  BY <1>1, <1>2, <1>3, <1>4, <1>5

\* Every non-empty set of naturals has a least element, and Min is it.
LEMMA MinNat ==
  ASSUME NEW I \in SUBSET Nat, I # {}
  PROVE  Min(I) \in I /\ \A j \in I : Min(I) <= j
<1>1. IsWellFoundedOn(OpToRel(<, Nat), Nat)
  BY NatLessThanWellFounded
<1>2. PICK x \in I : \A y \in I : ~(<<y, x>> \in OpToRel(<, Nat))
  BY <1>1, WFMin
<1>3. \A y \in I : ~(y < x)
  BY <1>2 DEF OpToRel
<1>4. \E z \in I : \A y \in I : z =< y
  BY <1>3
<1> QED
  BY <1>4 DEF Min

\* Every non-empty set of priorities has a greatest element.
LEMMA MaxExists ==
  ASSUME NEW n \in Nat, NEW A \in SUBSET (0 .. n), A # {}
  PROVE  \E p \in A : \A q \in A : q <= p
<1> DEFINE I == {n - p : p \in A}
<1>1. I \in SUBSET Nat /\ I # {}
  <2>1. \A p \in A : n - p \in Nat
    OBVIOUS
  <2>2. PICK a \in A : TRUE
    OBVIOUS
  <2>3. n - a \in I
    OBVIOUS
  <2> QED
    BY <2>1, <2>3
<1>2. Min(I) \in I /\ \A j \in I : Min(I) <= j
  BY <1>1, MinNat
<1>3. PICK p \in A : Min(I) = n - p
  BY <1>2
<1>4. \A q \in A : n - q \in I
  OBVIOUS
<1>5. \A q \in A : n - p <= n - q
  BY <1>2, <1>3, <1>4
<1>6. \A q \in A : q <= p
  BY <1>5
<1> QED
  BY <1>6

\* r is s with x at position i.
IsInserted(S, s, i, x, r) ==
  /\ r \in Seq(S) /\ Len(r) = Len(s) + 1
  /\ \A j \in 1 .. Len(s) + 1 :
       r[j] = IF j < i THEN s[j] ELSE IF j = i THEN x ELSE s[j - 1]

\* InsertAt, which LIST_INSERT_BEFORE amounts to, makes room for one element.
LEMMA InsertAtSet ==
  ASSUME NEW S, NEW s \in Seq(S), NEW x \in S, NEW i \in 1 .. Len(s)
  PROVE  IsInserted(S, s, i, x, InsertAt(s, i, x))
<1> DEFINE a == SubSeq(s, 1, i - 1)
           b == SubSeq(s, i, Len(s))
<1>1. /\ a \in Seq(S) /\ Len(a) = i - 1
      /\ \A j \in 1 .. i - 1 : a[j] = s[j]
  OBVIOUS
<1>2. /\ b \in Seq(S) /\ Len(b) = Len(s) - i + 1
      /\ \A j \in 1 .. Len(s) - i + 1 : b[j] = s[i + j - 1]
  OBVIOUS
<1> HIDE DEF a, b
<1> DEFINE c == a \o <<x>>
<1>3. /\ c \in Seq(S) /\ Len(c) = i
      /\ \A j \in 1 .. i : c[j] = IF j < i THEN s[j] ELSE x
  BY <1>1
<1> HIDE DEF c
<1>4. /\ c \o b \in Seq(S) /\ Len(c \o b) = Len(s) + 1
      /\ \A j \in 1 .. Len(s) + 1 : (c \o b)[j] = IF j <= i THEN c[j] ELSE b[j - i]
  <2>1. /\ c \o b \in Seq(S) /\ Len(c \o b) = Len(c) + Len(b)
        /\ \A j \in 1 .. Len(c) + Len(b) :
             (c \o b)[j] = IF j <= Len(c) THEN c[j] ELSE b[j - Len(c)]
    BY <1>2, <1>3, ConcatProperties
  <2>2. Len(c) = i /\ Len(c) + Len(b) = Len(s) + 1
    BY <1>2, <1>3
  <2> QED
    BY <2>1, <2>2
<1>5. \A j \in 1 .. Len(s) + 1 : j > i => b[j - i] = s[j - 1]
  BY <1>2
<1>6. InsertAt(s, i, x) = c \o b
  BY DEF InsertAt, a, b, c
<1> QED
  BY <1>3, <1>4, <1>5, <1>6 DEF IsInserted

\* RemoveAt drops one position.
LEMMA RemoveAtSeq ==
  ASSUME NEW S, NEW s \in Seq(S), NEW i \in 1 .. Len(s)
  PROVE  /\ RemoveAt(s, i) \in Seq(S)
         /\ Len(RemoveAt(s, i)) = Len(s) - 1
         /\ \A j \in 1 .. Len(s) - 1 :
              RemoveAt(s, i)[j] = IF j < i THEN s[j] ELSE s[j + 1]
<1> DEFINE a == SubSeq(s, 1, i - 1)
           b == SubSeq(s, i + 1, Len(s))
<1>1. /\ a \in Seq(S) /\ Len(a) = i - 1
      /\ \A j \in 1 .. i - 1 : a[j] = s[j]
  OBVIOUS
<1>2. /\ b \in Seq(S) /\ Len(b) = Len(s) - i
      /\ \A j \in 1 .. Len(s) - i : b[j] = s[i + j]
  OBVIOUS
<1> HIDE DEF a, b
<1>3. /\ a \o b \in Seq(S) /\ Len(a \o b) = Len(s) - 1
      /\ \A j \in 1 .. Len(s) - 1 : (a \o b)[j] = IF j < i THEN a[j] ELSE b[j - i + 1]
  <2>1. /\ a \o b \in Seq(S) /\ Len(a \o b) = Len(a) + Len(b)
        /\ \A j \in 1 .. Len(a) + Len(b) :
             (a \o b)[j] = IF j <= Len(a) THEN a[j] ELSE b[j - Len(a)]
    BY <1>1, <1>2, ConcatProperties
  <2>2. Len(a) = i - 1 /\ Len(a) + Len(b) = Len(s) - 1
    BY <1>1, <1>2
  <2>3. \A j \in 1 .. Len(s) - 1 : (j <= i - 1 <=> j < i) /\ j - (i - 1) = j - i + 1
    OBVIOUS
  <2> QED
    BY <2>1, <2>2, <2>3
<1>4. \A j \in 1 .. Len(s) - 1 : ~(j < i) => b[j - i + 1] = s[j + 1]
  BY <1>2
<1>5. RemoveAt(s, i) = a \o b
  BY DEF RemoveAt, a, b
<1>6. \A j \in 1 .. Len(s) - 1 : j < i => a[j] = s[j]
  BY <1>1
<1> QED
  BY <1>3, <1>4, <1>5, <1>6

\* LIST_INSERT_SORTED adds one element and keeps a list free of repetitions.
LEMMA SortedInsertSet ==
  ASSUME NEW S, NEW s \in Seq(S), NEW x \in S, NEW pri
  PROVE  /\ SortedInsert(s, x, pri) \in Seq(S)
         /\ ToSet(SortedInsert(s, x, pri)) = ToSet(s) \cup {x}
         /\ IsInjective(s) /\ x \notin ToSet(s) => IsInjective(SortedInsert(s, x, pri))
<1> DEFINE I == {j \in 1 .. Len(s) : pri[x] > pri[s[j]]}
           i == Min(I)
           r == InsertAt(s, i, x)
<1>0. Len(s) \in Nat /\ DOMAIN s = 1 .. Len(s)
  OBVIOUS
<1>1. CASE I = {}
  <2>1. SortedInsert(s, x, pri) = Append(s, x)
    BY <1>1 DEF SortedInsert, SelectInSeq
  <2> QED
    BY <2>1, AppendSet
<1>2. CASE I # {}
  <2>1. i \in 1 .. Len(s)
    <3>1. I \in SUBSET Nat /\ I \subseteq 1 .. Len(s)
      BY <1>0
    <3>2. \A J \in SUBSET Nat : J # {} => Min(J) \in J
      BY MinNat
    <3> HIDE DEF I
    <3>3. Min(I) \in I
      BY <1>2, <3>1, <3>2
    <3> QED
      BY <3>1, <3>3
  <2>2. SortedInsert(s, x, pri) = r
    BY <1>2, <2>1 DEF SortedInsert, SelectInSeq
  <2> HIDE DEF I, i
  <2>3. /\ r \in Seq(S) /\ Len(r) = Len(s) + 1
        /\ \A j \in 1 .. Len(s) + 1 :
             r[j] = IF j < i THEN s[j] ELSE IF j = i THEN x ELSE s[j - 1]
    <3>1. IsInserted(S, s, i, x, InsertAt(s, i, x))
      BY <2>1, InsertAtSet
    <3> QED
      BY <3>1 DEF IsInserted
  <2> HIDE DEF r
  <2>4. DOMAIN r = 1 .. Len(s) + 1
    BY <2>3
  <2>5. ToSet(r) = ToSet(s) \cup {x}
    <3>1. ASSUME NEW e \in ToSet(r) PROVE e \in ToSet(s) \cup {x}
      <4>1. PICK j \in 1 .. Len(s) + 1 : e = r[j]
        BY <2>4, <3>1 DEF ToSet
      <4>2. CASE j < i
        BY <1>0, <2>1, <2>3, <4>1, <4>2 DEF ToSet
      <4>3. CASE j = i
        BY <2>1, <2>3, <4>1, <4>3
      <4>4. CASE j > i
        <5>1. j - 1 \in 1 .. Len(s) /\ e = s[j - 1]
          BY <2>1, <2>3, <4>1, <4>4
        <5> QED
          BY <1>0, <5>1 DEF ToSet
      <4> QED
        BY <2>1, <4>2, <4>3, <4>4
    <3>2. x \in ToSet(r)
      <4>1. i \in 1 .. Len(s) + 1 /\ r[i] = x
        BY <2>1, <2>3
      <4> QED
        BY <2>4, <4>1 DEF ToSet
    <3>3. ASSUME NEW e \in ToSet(s) PROVE e \in ToSet(r)
      <4>1. PICK j \in 1 .. Len(s) : e = s[j]
        BY <1>0, <3>3 DEF ToSet
      <4>2. CASE j < i
        <5>1. j \in 1 .. Len(s) + 1 /\ r[j] = e
          BY <2>1, <2>3, <4>1, <4>2
        <5> QED
          BY <2>4, <5>1 DEF ToSet
      <4>3. CASE j >= i
        <5>1. j + 1 \in 1 .. Len(s) + 1 /\ r[j + 1] = e
          BY <2>1, <2>3, <4>1, <4>3
        <5> QED
          BY <2>4, <5>1 DEF ToSet
      <4> QED
        BY <2>1, <4>2, <4>3
    <3> QED
      BY <3>1, <3>2, <3>3
  <2>6. ASSUME IsInjective(s), x \notin ToSet(s)
        PROVE  IsInjective(r)
    <3> SUFFICES ASSUME NEW a \in 1 .. Len(s) + 1, NEW b \in 1 .. Len(s) + 1, r[a] = r[b]
                 PROVE  a = b
      BY <2>4 DEF IsInjective
    <3>1. \A j \in 1 .. Len(s) : s[j] # x
      BY <1>0, <2>6 DEF ToSet
    <3>2. \A j, k \in 1 .. Len(s) : s[j] = s[k] => j = k
      BY <1>0, <2>6 DEF IsInjective
    <3>3. /\ a < i => r[a] = s[a]
          /\ a = i => r[a] = x
          /\ a > i => r[a] = s[a - 1]
      BY <2>1, <2>3
    <3>4. /\ b < i => r[b] = s[b]
          /\ b = i => r[b] = x
          /\ b > i => r[b] = s[b - 1]
      BY <2>1, <2>3
    <3>5. /\ a < i => a \in 1 .. Len(s)
          /\ a > i => a - 1 \in 1 .. Len(s)
          /\ b < i => b \in 1 .. Len(s)
          /\ b > i => b - 1 \in 1 .. Len(s)
      BY <2>1
    <3>6. CASE a < i /\ b < i
      BY <3>2, <3>3, <3>4, <3>5, <3>6
    <3>7. CASE a < i /\ b > i
      <4>1. s[a] = s[b - 1]
        BY <2>1, <3>3, <3>4, <3>7
      <4>2. a = b - 1
        BY <3>2, <3>5, <3>7, <4>1
      <4> QED
        BY <2>1, <3>7, <4>2
    <3>8. CASE a > i /\ b < i
      <4>1. s[a - 1] = s[b]
        BY <2>1, <3>3, <3>4, <3>8
      <4>2. a - 1 = b
        BY <3>2, <3>5, <3>8, <4>1
      <4> QED
        BY <2>1, <3>8, <4>2
    <3>9. CASE a > i /\ b > i
      <4>1. s[a - 1] = s[b - 1]
        BY <2>1, <3>3, <3>4, <3>9
      <4>2. a - 1 = b - 1
        BY <3>2, <3>5, <3>9, <4>1
      <4> QED
        BY <4>2
    <3>10. CASE a = i
      <4>1. r[a] = x
        BY <3>3, <3>10
      <4>2. b = i
        BY <2>1, <3>1, <3>4, <3>5, <4>1
      <4> QED
        BY <3>10, <4>2
    <3>11. CASE b = i
      <4>1. r[b] = x
        BY <3>4, <3>11
      <4>2. a = i
        BY <2>1, <3>1, <3>3, <3>5, <4>1
      <4> QED
        BY <3>11, <4>2
    <3> QED
      BY <2>1, <3>6, <3>7, <3>8, <3>9, <3>10, <3>11
  <2> QED
    BY <2>2, <2>3, <2>5, <2>6
<1> QED
  BY <1>1, <1>2

\* A list with an element is not empty.
LEMMA InhabitedSeq ==
  ASSUME NEW S, NEW s \in Seq(S), NEW x, x \in ToSet(s)
  PROVE  s # <<>>
<1>1. PICK i \in DOMAIN s : s[i] = x
  BY DEF ToSet
<1> QED
  BY <1>1

\* Where LIST_REMOVE takes its element out.
LEMMA UnlinkWhere ==
  ASSUME NEW S, NEW s \in Seq(S), NEW x, IsInjective(s), x \in ToSet(s)
  PROVE  \E i \in 1 .. Len(s) : s[i] = x /\ Unlink(s, x) = RemoveAt(s, i)
<1>0. Len(s) \in Nat /\ DOMAIN s = 1 .. Len(s)
  OBVIOUS
<1>1. PICK i \in 1 .. Len(s) : s[i] = x
  BY <1>0 DEF ToSet
<1>2. \A j, k \in 1 .. Len(s) : s[j] = s[k] => j = k
  BY <1>0 DEF IsInjective
<1> DEFINE I == {j \in 1 .. Len(s) : s[j] = x}
<1>3. I = {i}
  BY <1>1, <1>2
<1>4. Min(I) = i
  <2>1. \A J \in SUBSET Nat : J # {} => Min(J) \in J
    BY MinNat
  <2>2. {i} \in SUBSET Nat /\ {i} # {}
    BY <1>1
  <2>3. Min({i}) \in {i}
    BY <2>1, <2>2
  <2> HIDE DEF I
  <2> QED
    BY <1>3, <2>3
<1>5. SelectInSeq(s, LAMBDA v : v = x) = i
  BY <1>3, <1>4 DEF SelectInSeq
<1>6. Unlink(s, x) = RemoveAt(s, i)
  BY <1>1, <1>5 DEF Unlink, RemoveFirst
<1> QED
  BY <1>1, <1>6

\* LIST_REMOVE takes out exactly the element it is given.
LEMMA UnlinkSet ==
  ASSUME NEW S, NEW s \in Seq(S), NEW x, IsInjective(s), x \in ToSet(s)
  PROVE  /\ Unlink(s, x) \in Seq(S)
         /\ ToSet(Unlink(s, x)) = ToSet(s) \ {x}
         /\ IsInjective(Unlink(s, x))
<1>0. Len(s) \in Nat /\ DOMAIN s = 1 .. Len(s)
  OBVIOUS
<1>1. PICK i \in 1 .. Len(s) : s[i] = x /\ Unlink(s, x) = RemoveAt(s, i)
  BY UnlinkWhere
<1>2. \A j, k \in 1 .. Len(s) : s[j] = s[k] => j = k
  BY <1>0 DEF IsInjective
<1> DEFINE r == RemoveAt(s, i)
<1>6. Unlink(s, x) = r
  BY <1>1
<1>7. /\ r \in Seq(S) /\ Len(r) = Len(s) - 1
      /\ \A j \in 1 .. Len(s) - 1 : r[j] = IF j < i THEN s[j] ELSE s[j + 1]
  BY <1>1, RemoveAtSeq
<1> HIDE DEF r
<1>8. DOMAIN r = 1 .. Len(s) - 1
  BY <1>7
<1>9. ToSet(r) = ToSet(s) \ {x}
  <2>1. ASSUME NEW e \in ToSet(r) PROVE e \in ToSet(s) \ {x}
    <3>1. PICK j \in 1 .. Len(s) - 1 : e = r[j]
      BY <1>8, <2>1 DEF ToSet
    <3>2. CASE j < i
      <4>1. j \in 1 .. Len(s) /\ e = s[j] /\ j # i
        BY <1>0, <1>7, <3>1, <3>2
      <4> QED
        BY <1>0, <1>1, <1>2, <4>1 DEF ToSet
    <3>3. CASE j >= i
      <4>1. j + 1 \in 1 .. Len(s) /\ e = s[j + 1] /\ j + 1 # i
        BY <1>0, <1>7, <3>1, <3>3
      <4> QED
        BY <1>0, <1>1, <1>2, <4>1 DEF ToSet
    <3> QED
      BY <1>1, <3>2, <3>3
  <2>2. ASSUME NEW e \in ToSet(s), e # x PROVE e \in ToSet(r)
    <3>1. PICK j \in 1 .. Len(s) : e = s[j]
      BY <1>0, <2>2 DEF ToSet
    <3>2. CASE j < i
      <4>1. j \in 1 .. Len(s) - 1 /\ e = r[j]
        BY <1>0, <1>1, <1>7, <3>1, <3>2
      <4> QED
        BY <1>8, <4>1 DEF ToSet
    <3>3. CASE j > i
      <4>1. j - 1 \in 1 .. Len(s) - 1 /\ e = r[j - 1]
        BY <1>0, <1>1, <1>7, <3>1, <3>3
      <4> QED
        BY <1>8, <4>1 DEF ToSet
    <3> QED
      BY <1>1, <2>2, <3>1, <3>2, <3>3
  <2> QED
    BY <2>1, <2>2
<1>10. IsInjective(r)
  <2> SUFFICES ASSUME NEW a \in 1 .. Len(s) - 1, NEW b \in 1 .. Len(s) - 1, r[a] = r[b]
               PROVE  a = b
    BY <1>8 DEF IsInjective
  <2>1. /\ a < i => r[a] = s[a]
        /\ a >= i => r[a] = s[a + 1]
    BY <1>1, <1>7
  <2>2. /\ b < i => r[b] = s[b]
        /\ b >= i => r[b] = s[b + 1]
    BY <1>1, <1>7
  <2>3. /\ a \in 1 .. Len(s) /\ a + 1 \in 1 .. Len(s)
        /\ b \in 1 .. Len(s) /\ b + 1 \in 1 .. Len(s)
    BY <1>0
  <2>4. CASE a < i /\ b < i
    BY <1>2, <2>1, <2>2, <2>3, <2>4
  <2>5. CASE a < i /\ b >= i
    <3>1. s[a] = s[b + 1]
      BY <1>1, <2>1, <2>2, <2>5
    <3>2. a = b + 1
      BY <1>2, <2>3, <3>1
    <3> QED
      BY <1>1, <2>5, <3>2
  <2>6. CASE a >= i /\ b < i
    <3>1. s[a + 1] = s[b]
      BY <1>1, <2>1, <2>2, <2>6
    <3>2. a + 1 = b
      BY <1>2, <2>3, <3>1
    <3> QED
      BY <1>1, <2>6, <3>2
  <2>7. CASE a >= i /\ b >= i
    <3>1. s[a + 1] = s[b + 1]
      BY <1>1, <2>1, <2>2, <2>7
    <3>2. a + 1 = b + 1
      BY <1>2, <2>3, <3>1
    <3> QED
      BY <3>2
  <2> QED
    BY <1>1, <2>4, <2>5, <2>6, <2>7
<1> QED
  BY <1>6, <1>7, <1>9, <1>10

\* Where LIST_INSERT_SORTED puts an element: behind those of the same or a
\* higher priority, before the first of a lower one.
LEMMA SortedInsertWhere ==
  ASSUME NEW S, NEW s \in Seq(S), NEW x \in S, NEW pri
  PROVE  \E i \in 1 .. Len(s) + 1 :
           /\ IsInserted(S, s, i, x, SortedInsert(s, x, pri))
           /\ i <= Len(s) => pri[x] > pri[s[i]]
           /\ \A j \in 1 .. Len(s) : j < i => ~(pri[x] > pri[s[j]])
<1> DEFINE I == {j \in 1 .. Len(s) : pri[x] > pri[s[j]]}
           i == Min(I)
<1>0. Len(s) \in Nat /\ DOMAIN s = 1 .. Len(s)
  OBVIOUS
<1>1. CASE I = {}
  <2>1. SortedInsert(s, x, pri) = Append(s, x)
    BY <1>1 DEF SortedInsert, SelectInSeq
  <2>2. IsInserted(S, s, Len(s) + 1, x, Append(s, x))
    BY <1>0 DEF IsInserted
  <2>3. \A j \in 1 .. Len(s) : ~(pri[x] > pri[s[j]])
    BY <1>1
  <2>4. Len(s) + 1 \in 1 .. Len(s) + 1 /\ ~(Len(s) + 1 <= Len(s))
    BY <1>0
  <2> QED
    BY <2>1, <2>2, <2>3, <2>4
<1>2. CASE I # {}
  <2>1. i \in I /\ \A j \in I : i <= j
    <3>1. I \in SUBSET Nat
      BY <1>0
    <3>2. \A J \in SUBSET Nat : J # {} => Min(J) \in J /\ \A j \in J : Min(J) <= j
      BY MinNat
    <3> HIDE DEF I
    <3> QED
      BY <1>2, <3>1, <3>2
  <2>2. SortedInsert(s, x, pri) = InsertAt(s, i, x)
    <3>1. i \in 1 .. Len(s)
      BY <2>1
    <3> QED
      BY <1>2, <3>1 DEF SortedInsert, SelectInSeq
  <2>3. i \in 1 .. Len(s) /\ pri[x] > pri[s[i]]
    BY <2>1
  <2>4. \A j \in 1 .. Len(s) : j < i => ~(pri[x] > pri[s[j]])
    <3> SUFFICES ASSUME NEW j \in 1 .. Len(s), j < i, pri[x] > pri[s[j]]
                 PROVE  FALSE
      OBVIOUS
    <3>1. j \in I
      OBVIOUS
    <3>2. i <= j /\ i \in Int /\ j \in Int
      BY <2>1, <2>3, <3>1
    <3> QED
      BY <3>2
  <2> HIDE DEF i, I
  <2>5. IsInserted(S, s, i, x, InsertAt(s, i, x))
    BY <2>3, InsertAtSet
  <2>6. i \in 1 .. Len(s) + 1
    BY <1>0, <2>3
  <2> QED
    BY <2>2, <2>3, <2>4, <2>5, <2>6
<1> QED
  BY <1>1, <1>2

\* LIST_INSERT_SORTED keeps a list in the order of priorities.
LEMMA SortedInsertOrder ==
  ASSUME NEW S, NEW s \in Seq(S), NEW x \in S, NEW pri,
         \A u \in S : pri[u] \in Int, SortedByPrio(s, pri)
  PROVE  SortedByPrio(SortedInsert(s, x, pri), pri)
<1> DEFINE r == SortedInsert(s, x, pri)
<1>0. Len(s) \in Nat /\ \A j \in 1 .. Len(s) : s[j] \in S
  OBVIOUS
<1>1. PICK i \in 1 .. Len(s) + 1 :
        /\ IsInserted(S, s, i, x, r)
        /\ i <= Len(s) => pri[x] > pri[s[i]]
        /\ \A j \in 1 .. Len(s) : j < i => ~(pri[x] > pri[s[j]])
  BY SortedInsertWhere
<1>2. /\ Len(r) = Len(s) + 1
      /\ \A j \in 1 .. Len(s) + 1 :
           r[j] = IF j < i THEN s[j] ELSE IF j = i THEN x ELSE s[j - 1]
  BY <1>1 DEF IsInserted
<1>3. \A j \in 1 .. Len(s) : j < i => pri[s[j]] >= pri[x]
  BY <1>0, <1>1
<1>4. \A j, k \in 1 .. Len(s) : j < k => pri[s[j]] >= pri[s[k]]
  BY DEF SortedByPrio
<1>5. \A j \in 1 .. Len(s) : j >= i => pri[x] >= pri[s[j]]
  <2> SUFFICES ASSUME NEW j \in 1 .. Len(s), j >= i
               PROVE  pri[x] >= pri[s[j]]
    OBVIOUS
  <2>1. i \in 1 .. Len(s) /\ pri[x] > pri[s[i]]
    BY <1>0, <1>1
  <2>2. i = j \/ pri[s[i]] >= pri[s[j]]
    BY <1>4, <2>1
  <2>3. pri[x] \in Int /\ pri[s[i]] \in Int /\ pri[s[j]] \in Int
    BY <1>0, <2>1
  <2> QED
    BY <2>1, <2>2, <2>3
<1> HIDE DEF r
<1> SUFFICES ASSUME NEW a \in 1 .. Len(s) + 1, NEW b \in 1 .. Len(s) + 1, a < b
             PROVE  pri[r[a]] >= pri[r[b]]
  BY <1>2 DEF SortedByPrio, r
<1>6. CASE b < i
  <2>1. r[a] = s[a] /\ r[b] = s[b] /\ a \in 1 .. Len(s) /\ b \in 1 .. Len(s)
    BY <1>0, <1>1, <1>2, <1>6
  <2> QED
    BY <1>4, <2>1
<1>7. CASE b = i
  <2>1. r[a] = s[a] /\ r[b] = x /\ a \in 1 .. Len(s) /\ a < i
    BY <1>0, <1>1, <1>2, <1>7
  <2> QED
    BY <1>3, <2>1
<1>8. CASE a < i /\ i < b
  <2>1. r[a] = s[a] /\ r[b] = s[b - 1] /\ a \in 1 .. Len(s) /\ b - 1 \in 1 .. Len(s) /\ a < b - 1
    BY <1>0, <1>1, <1>2, <1>8
  <2> QED
    BY <1>4, <2>1
<1>9. CASE a = i
  <2>1. r[a] = x /\ r[b] = s[b - 1] /\ b - 1 \in 1 .. Len(s) /\ b - 1 >= i
    BY <1>0, <1>1, <1>2, <1>9
  <2> QED
    BY <1>5, <2>1
<1>10. CASE a > i
  <2>1. r[a] = s[a - 1] /\ r[b] = s[b - 1] /\ a - 1 \in 1 .. Len(s) /\ b - 1 \in 1 .. Len(s) /\ a - 1 < b - 1
    BY <1>0, <1>1, <1>2, <1>10
  <2> QED
    BY <1>4, <2>1
<1> QED
  BY <1>1, <1>6, <1>7, <1>8, <1>9, <1>10

\* Taking the first element keeps the order.
LEMMA TailOrder ==
  ASSUME NEW S, NEW s \in Seq(S), s # <<>>, NEW pri, SortedByPrio(s, pri)
  PROVE  SortedByPrio(Tail(s), pri)
<1>1. Len(Tail(s)) = Len(s) - 1 /\ \A i \in 1 .. Len(s) - 1 : Tail(s)[i] = s[i + 1]
  OBVIOUS
<1>2. Len(s) \in Nat
  OBVIOUS
<1> SUFFICES ASSUME NEW a \in 1 .. Len(s) - 1, NEW b \in 1 .. Len(s) - 1, a < b
             PROVE  pri[s[a + 1]] >= pri[s[b + 1]]
  BY <1>1 DEF SortedByPrio
<1>3. a + 1 \in 1 .. Len(s) /\ b + 1 \in 1 .. Len(s) /\ a + 1 < b + 1
  BY <1>2
<1> QED
  BY <1>3 DEF SortedByPrio

\* LIST_REMOVE keeps the order.
LEMMA UnlinkOrder ==
  ASSUME NEW S, NEW s \in Seq(S), NEW x, IsInjective(s), x \in ToSet(s),
         NEW pri, SortedByPrio(s, pri)
  PROVE  SortedByPrio(Unlink(s, x), pri)
<1>1. PICK i \in 1 .. Len(s) : Unlink(s, x) = RemoveAt(s, i)
  BY UnlinkWhere
<1>2. /\ Len(RemoveAt(s, i)) = Len(s) - 1
      /\ \A j \in 1 .. Len(s) - 1 : RemoveAt(s, i)[j] = IF j < i THEN s[j] ELSE s[j + 1]
  BY RemoveAtSeq
<1> DEFINE at(j) == IF j < i THEN j ELSE j + 1
<1>3. Len(s) \in Nat
  OBVIOUS
<1> SUFFICES ASSUME NEW a \in 1 .. Len(s) - 1, NEW b \in 1 .. Len(s) - 1, a < b
             PROVE  pri[RemoveAt(s, i)[a]] >= pri[RemoveAt(s, i)[b]]
  BY <1>1, <1>2 DEF SortedByPrio
<1>4. at(a) \in 1 .. Len(s) /\ at(b) \in 1 .. Len(s) /\ at(a) < at(b)
  BY <1>3
<1>5. RemoveAt(s, i)[a] = s[at(a)] /\ RemoveAt(s, i)[b] = s[at(b)]
  BY <1>2
<1> QED
  BY <1>4, <1>5 DEF SortedByPrio

\* Numbering a finite set of positions from below hits every number up to its
\* size exactly once.
LEMMA RankOnto ==
  ASSUME NEW n \in Nat, NEW K \in SUBSET (1 .. n),
         NEW rank, rank = [i \in K |-> Cardinality({j \in K : j <= i})]
  PROVE  /\ Cardinality(K) \in Nat
         /\ \A i, j \in K : rank[i] = rank[j] => i = j
         /\ \A k \in 1 .. Cardinality(K) : \E i \in K : rank[i] = k
         /\ \A i \in K : rank[i] \in 1 .. Cardinality(K)
<1> DEFINE upto(i) == {j \in K : j <= i}
<1>1. IsFiniteSet(1 .. n)
  BY FS_Interval
<1>2. IsFiniteSet(K) /\ Cardinality(K) \in Nat
  BY <1>1, FS_Subset, FS_CardinalityType
<1>3. ASSUME NEW i \in K
      PROVE  /\ IsFiniteSet(upto(i)) /\ Cardinality(upto(i)) \in Nat
             /\ Cardinality(upto(i)) <= Cardinality(K)
             /\ Cardinality(upto(i)) # 0
  <2>1. upto(i) \in SUBSET K
    OBVIOUS
  <2>2. IsFiniteSet(upto(i)) /\ Cardinality(upto(i)) <= Cardinality(K)
    BY <1>2, <2>1, FS_Subset
  <2>3. i \in upto(i)
    OBVIOUS
  <2> HIDE DEF upto
  <2>4. Cardinality(upto(i)) # 0
    BY <2>2, <2>3, FS_EmptySet
  <2> QED
    BY <2>2, <2>4, FS_CardinalityType
<1>4. ASSUME NEW i \in K, NEW j \in K, i < j
      PROVE  Cardinality(upto(i)) < Cardinality(upto(j))
  <2>0. i \in Int /\ j \in Int /\ \A x \in K : x \in Int
    OBVIOUS
  <2>a. \A x \in K : x <= i => x <= j
    BY <1>4, <2>0
  <2>b. ~(j <= i) /\ j <= j
    BY <1>4, <2>0
  <2>1. upto(i) \in SUBSET upto(j) /\ j \notin upto(i) /\ j \in upto(j)
    BY <2>a, <2>b
  <2>2. IsFiniteSet(upto(i)) /\ IsFiniteSet(upto(j))
    BY <1>3
  <2>3. Cardinality(upto(i)) \in Nat /\ Cardinality(upto(j)) \in Nat
    BY <1>3
  <2> HIDE DEF upto
  <2>4. upto(i) # upto(j)
    BY <2>1
  <2>5. /\ Cardinality(upto(i)) <= Cardinality(upto(j))
        /\ Cardinality(upto(j)) = Cardinality(upto(i)) => upto(j) = upto(i)
    BY <2>1, <2>2, FS_Subset
  <2> QED
    BY <2>3, <2>4, <2>5
<1>5. \A i \in K : rank[i] = Cardinality(upto(i))
  OBVIOUS
<1>6. \A i \in K : rank[i] \in 1 .. Cardinality(K)
  BY <1>2, <1>3, <1>5
<1>7. \A i, j \in K : rank[i] = rank[j] => i = j
  <2> SUFFICES ASSUME NEW i \in K, NEW j \in K, i # j
               PROVE  rank[i] # rank[j]
    OBVIOUS
  <2>1. rank[i] \in Int /\ rank[j] \in Int
    BY <1>6
  <2>2. CASE i < j
    BY <1>4, <1>5, <2>1, <2>2
  <2>3. CASE j < i
    BY <1>4, <1>5, <2>1, <2>3
  <2> QED
    BY <2>2, <2>3
<1>8. rank \in [K -> 1 .. Cardinality(K)]
  BY <1>6
<1> HIDE DEF upto
<1>9. rank \in Injection(K, 1 .. Cardinality(K))
  BY <1>7, <1>8 DEF Injection, IsInjective
<1>10. IsFiniteSet(1 .. Cardinality(K)) /\ Cardinality(1 .. Cardinality(K)) = Cardinality(K)
  BY <1>2, FS_Interval
<1>11. rank \in Surjection(K, 1 .. Cardinality(K))
  BY <1>9, <1>10, FS_Injection
<1> QED
  BY <1>2, <1>6, <1>7, <1>11 DEF Surjection

\* Removing the elements of S leaves the others, and no repetitions.
LEMMA WithoutSet ==
  ASSUME NEW X, NEW s \in Seq(X), NEW S
  PROVE  /\ Without(s, S) \in Seq(X)
         /\ ToSet(Without(s, S)) = ToSet(s) \ S
         /\ IsInjective(s) => IsInjective(Without(s, S))
<1> DEFINE K == {i \in 1 .. Len(s) : s[i] \notin S}
           rank == [i \in K |-> Cardinality({j \in K : j <= i})]
           N == Cardinality(K)
           pos(k) == CHOOSE i \in K : Cardinality({j \in K : j <= i}) = k
           r == Without(s, S)
<1>0. Len(s) \in Nat /\ DOMAIN s = 1 .. Len(s) /\ \A i \in 1 .. Len(s) : s[i] \in X
  OBVIOUS
<1>1. K \in SUBSET (1 .. Len(s))
  OBVIOUS
<1>2. r = [k \in 1 .. N |-> s[pos(k)]]
  BY DEF Without
<1> HIDE DEF r
<1>3. /\ N \in Nat
      /\ \A i, j \in K : rank[i] = rank[j] => i = j
      /\ \A k \in 1 .. N : \E i \in K : rank[i] = k
      /\ \A i \in K : rank[i] \in 1 .. N
  <2> HIDE DEF K
  <2> QED
    BY <1>0, <1>1, RankOnto
<1>4. \A k \in 1 .. N : pos(k) \in K /\ rank[pos(k)] = k
  <2>1. \A i \in K : rank[i] = Cardinality({j \in K : j <= i})
    OBVIOUS
  <2> HIDE DEF K, rank, N
  <2> TAKE k \in 1 .. N
  <2>2. \E i \in K : Cardinality({j \in K : j <= i}) = k
    <3>1. PICK i \in K : rank[i] = k
      BY <1>3
    <3>2. rank[i] = Cardinality({j \in K : j <= i})
      BY <2>1
    <3> QED
      BY <3>1, <3>2, Zenon
  <2>3. pos(k) \in K /\ Cardinality({j \in K : j <= pos(k)}) = k
    BY <2>2
  <2> QED
    BY <2>1, <2>3
<1> HIDE DEF rank, N
<1> HIDE DEF pos
<1>5. \A i \in K : pos(rank[i]) = i
  BY <1>3, <1>4
<1>6. \A i \in K : i \in 1 .. Len(s) /\ s[i] \notin S
  OBVIOUS
<1>7. \A i \in 1 .. Len(s) : s[i] \notin S => i \in K
  OBVIOUS
<1> HIDE DEF K
<1>8. \A k \in 1 .. N : s[pos(k)] \in X
  BY <1>0, <1>4, <1>6
<1>9. r \in Seq(X) /\ DOMAIN r = 1 .. N /\ Len(r) = N /\ \A k \in 1 .. N : r[k] = s[pos(k)]
  BY <1>2, <1>3, <1>8
<1>10. ToSet(r) = ToSet(s) \ S
  <2>1. ASSUME NEW x \in ToSet(r)
        PROVE  x \in ToSet(s) /\ x \notin S
    <3>1. PICK k \in 1 .. N : x = s[pos(k)]
      BY <1>9 DEF ToSet
    <3> QED
      BY <1>0, <1>4, <1>6, <3>1 DEF ToSet
  <2>2. ASSUME NEW x \in ToSet(s), x \notin S
        PROVE  x \in ToSet(r)
    <3>1. PICK i \in 1 .. Len(s) : x = s[i]
      BY <1>0 DEF ToSet
    <3>2. i \in K
      BY <1>7, <2>2, <3>1
    <3>3. rank[i] \in 1 .. N /\ r[rank[i]] = x
      BY <1>3, <1>5, <1>9, <3>1, <3>2
    <3> QED
      BY <1>9, <3>3 DEF ToSet
  <2> QED
    BY <2>1, <2>2
<1>11. ASSUME IsInjective(s)
       PROVE  IsInjective(r)
  <2> SUFFICES ASSUME NEW a \in 1 .. N, NEW b \in 1 .. N, r[a] = r[b]
               PROVE  a = b
    BY <1>9 DEF IsInjective
  <2>1. s[pos(a)] = s[pos(b)] /\ pos(a) \in 1 .. Len(s) /\ pos(b) \in 1 .. Len(s)
    BY <1>4, <1>6, <1>9
  <2>2. pos(a) = pos(b)
    BY <1>0, <1>11, <2>1 DEF IsInjective
  <2> QED
    BY <1>4, <2>2
<1> QED
  BY <1>9, <1>10, <1>11 DEF r

\* LIST_INSERT_HEAD adds one element.
LEMMA PrependSet ==
  ASSUME NEW S, NEW s \in Seq(S), NEW x \in S
  PROVE  /\ <<x>> \o s \in Seq(S)
         /\ ToSet(<<x>> \o s) = ToSet(s) \cup {x}
         /\ IsInjective(s) /\ x \notin ToSet(s) => IsInjective(<<x>> \o s)
<1> DEFINE r == <<x>> \o s
<1>0. Len(s) \in Nat /\ DOMAIN s = 1 .. Len(s)
  OBVIOUS
<1>1. /\ r \in Seq(S) /\ Len(r) = Len(s) + 1 /\ DOMAIN r = 1 .. Len(s) + 1
      /\ r[1] = x
      /\ \A i \in 1 .. Len(s) : r[i + 1] = s[i]
  OBVIOUS
<1> HIDE DEF r
<1>2. \A k \in 1 .. Len(s) + 1 : k = 1 \/ (k - 1 \in 1 .. Len(s) /\ r[k] = s[k - 1])
  <2> SUFFICES ASSUME NEW k \in 1 .. Len(s) + 1, k # 1
               PROVE  k - 1 \in 1 .. Len(s) /\ r[k] = s[k - 1]
    OBVIOUS
  <2>1. k - 1 \in 1 .. Len(s) /\ (k - 1) + 1 = k
    BY <1>0
  <2> QED
    BY <1>1, <2>1
<1>3. ToSet(r) = ToSet(s) \cup {x}
  <2>1. ASSUME NEW y \in ToSet(r)
        PROVE  y = x \/ y \in ToSet(s)
    <3>1. PICK k \in 1 .. Len(s) + 1 : y = r[k]
      BY <1>1 DEF ToSet
    <3> QED
      BY <1>0, <1>1, <1>2, <3>1 DEF ToSet
  <2>2. x \in ToSet(r)
    BY <1>0, <1>1 DEF ToSet
  <2>3. ASSUME NEW y \in ToSet(s)
        PROVE  y \in ToSet(r)
    <3>1. PICK k \in 1 .. Len(s) : y = s[k]
      BY <1>0 DEF ToSet
    <3>2. k + 1 \in 1 .. Len(s) + 1
      BY <1>0
    <3> QED
      BY <1>1, <3>1, <3>2 DEF ToSet
  <2> QED
    BY <2>1, <2>2, <2>3
<1>4. ASSUME IsInjective(s), x \notin ToSet(s)
      PROVE  IsInjective(r)
  <2>1. \A k \in 1 .. Len(s) : s[k] # x
    BY <1>0, <1>4 DEF ToSet
  <2> SUFFICES ASSUME NEW a \in 1 .. Len(s) + 1, NEW b \in 1 .. Len(s) + 1, r[a] = r[b]
               PROVE  a = b
    BY <1>1 DEF IsInjective
  <2>2. CASE a = 1 \/ b = 1
    BY <1>1, <1>2, <2>1, <2>2
  <2>3. CASE a # 1 /\ b # 1
    <3>1. a - 1 \in 1 .. Len(s) /\ b - 1 \in 1 .. Len(s) /\ s[a - 1] = s[b - 1]
      BY <1>2, <2>3
    <3>2. a - 1 = b - 1
      BY <1>0, <1>4, <3>1 DEF IsInjective
    <3> QED
      BY <3>2
  <2> QED
    BY <2>2, <2>3
<1> QED
  BY <1>1, <1>3, <1>4 DEF r

\* A list cut in two.
LEMMA CutSet ==
  ASSUME NEW S, NEW s \in Seq(S), NEW n \in 0 .. Len(s), IsInjective(s)
  PROVE  /\ SubSeq(s, 1, n) \in Seq(S) /\ Len(SubSeq(s, 1, n)) = n
         /\ \A k \in 1 .. n : SubSeq(s, 1, n)[k] = s[k]
         /\ SubSeq(s, n + 1, Len(s)) \in Seq(S)
         /\ ToSet(SubSeq(s, n + 1, Len(s))) = ToSet(s) \ ToSet(SubSeq(s, 1, n))
         /\ IsInjective(SubSeq(s, n + 1, Len(s)))
<1> DEFINE a == SubSeq(s, 1, n)
           b == SubSeq(s, n + 1, Len(s))
<1>0. Len(s) \in Nat /\ DOMAIN s = 1 .. Len(s) /\ n \in Nat /\ n <= Len(s)
  OBVIOUS
<1>1. a \in Seq(S) /\ Len(a) = n /\ DOMAIN a = 1 .. n /\ \A k \in 1 .. n : a[k] = s[k]
  OBVIOUS
<1>2. /\ b \in Seq(S) /\ Len(b) = Len(s) - n /\ DOMAIN b = 1 .. Len(s) - n
      /\ \A k \in 1 .. Len(s) - n : b[k] = s[n + k]
  OBVIOUS
<1> HIDE DEF a, b
<1>3. \A j, k \in 1 .. Len(s) : s[j] = s[k] => j = k
  BY <1>0 DEF IsInjective
<1>4. \A k \in 1 .. Len(s) - n : n + k \in 1 .. Len(s) /\ n + k > n
  BY <1>0
<1>5. ToSet(b) = ToSet(s) \ ToSet(a)
  <2>1. ASSUME NEW x \in ToSet(b)
        PROVE  x \in ToSet(s) /\ x \notin ToSet(a)
    <3>1. PICK k \in 1 .. Len(s) - n : x = s[n + k]
      BY <1>2 DEF ToSet
    <3>2. x \in ToSet(s)
      BY <1>0, <1>4, <3>1 DEF ToSet
    <3>3. \A j \in 1 .. n : a[j] # x
      <4> TAKE j \in 1 .. n
      <4>1. j \in 1 .. Len(s) /\ j # n + k
        BY <1>0
      <4> QED
        BY <1>1, <1>3, <1>4, <3>1, <4>1
    <3> QED
      BY <1>1, <3>2, <3>3 DEF ToSet
  <2>2. ASSUME NEW x \in ToSet(s), x \notin ToSet(a)
        PROVE  x \in ToSet(b)
    <3>1. PICK k \in 1 .. Len(s) : x = s[k]
      BY <1>0 DEF ToSet
    <3>2. k \notin 1 .. n
      BY <1>1, <2>2, <3>1 DEF ToSet
    <3>3. k - n \in 1 .. Len(s) - n /\ n + (k - n) = k
      BY <1>0, <3>2
    <3>4. b[k - n] = x
      BY <1>2, <3>1, <3>3
    <3> QED
      BY <1>2, <3>3, <3>4 DEF ToSet
  <2> QED
    BY <2>1, <2>2
<1>6. IsInjective(b)
  <2> SUFFICES ASSUME NEW j \in 1 .. Len(s) - n, NEW k \in 1 .. Len(s) - n, b[j] = b[k]
               PROVE  j = k
    BY <1>2 DEF IsInjective
  <2>1. n + j = n + k
    BY <1>2, <1>3, <1>4
  <2> QED
    BY <1>0, <2>1
<1> QED
  BY <1>1, <1>2, <1>5, <1>6 DEF a, b
=============================================================================
