---------------------------- MODULE ReportingProofs --------------------------
(***************************************************************************)
(* The two ways in which what the Runner did gets out: the pages its       *)
(* clients poll (Observe, for any number of sessions and records, any      *)
(* caps, limits and sizes of pages), and the rows that the audit sink      *)
(* ships (AuditSink, for any number of rows, of forced transitions, of     *)
(* failing ships, writes and unlinks, and of crashes).                     *)
(***************************************************************************)
EXTENDS Observe, AuditSink, FiniteSetTheorems, SequenceTheorems, WellFoundedInduction, TLAPS

-----------------------------------------------------------------------------
(* Lists and filters.                                                      *)

\* Induction on natural numbers.
LEMMA NatSet ==
  ASSUME NEW S \in SUBSET Nat, 0 \in S, \A n \in S : n + 1 \in S
  PROVE  S = Nat
<1> DEFINE Less == OpToRel(<, Nat)
<1>1. IsWellFoundedOn(Less, Nat)
  BY NatLessThanWellFounded
<1>2. \A m, n \in Nat : m < n => <<m, n>> \in Less
  BY DEF OpToRel
<1> HIDE DEF Less
<1>3. ASSUME Nat \ S # {} PROVE FALSE
  <2>1. PICK n \in Nat \ S : \A m \in Nat \ S : ~(<<m, n>> \in Less)
    BY <1>1, <1>3, WFMin
  <2>2. n \in Nat /\ n # 0 /\ n - 1 \in Nat /\ n - 1 < n
    OBVIOUS
  <2>3. n - 1 \in S
    BY <1>2, <2>1, <2>2
  <2>4. (n - 1) + 1 = n
    BY <2>2
  <2> QED BY <2>1, <2>3, <2>4
<1> QED BY <1>3

\* Induction on sequences: a set of sequences closed under Append.
LEMMA SeqSet ==
  ASSUME NEW X, NEW P \in SUBSET Seq(X), <<>> \in P,
         \A q \in P, e \in X : Append(q, e) \in P
  PROVE  P = Seq(X)
<1> DEFINE S == {n \in Nat : \A q \in Seq(X) : Len(q) = n => q \in P}
<1>1. 0 \in S
  BY EmptySeq
<1>2. ASSUME NEW n \in S PROVE n + 1 \in S
  <2>1. ASSUME NEW q \in Seq(X), Len(q) = n + 1 PROVE q \in P
    <3>1. q # <<>>
      BY <2>1, EmptySeq
    <3>2. PICK front \in Seq(X), e \in X : q = Append(front, e)
      BY <3>1, SequenceEmptyOrAppend
    <3>3. Len(front) = n
      BY <2>1, <3>2, AppendProperties, LenProperties
    <3> QED BY <1>2, <3>2, <3>3
  <2> QED BY <2>1
<1>3. S = Nat
  <2> HIDE DEF S
  <2>1. S \in SUBSET Nat
    BY DEF S
  <2> QED BY <1>1, <1>2, <2>1, NatSet
<1> QED BY <1>3, LenProperties

\* The filter is what its recursion says.
KeptUpTo(list, type, f, m) ==
  f = [n \in 0..m |->
         IF n = 0 THEN <<>>
         ELSE IF OfType(list[n], type) THEN Append(f[n - 1], list[n]) ELSE f[n - 1]]

LEMMA KeptExists ==
  ASSUME NEW list, NEW type, NEW m \in Nat
  PROVE  \E f : KeptUpTo(list, type, f, m)
<1> DEFINE S == {k \in Nat : \E f : KeptUpTo(list, type, f, k)}
<1>1. 0 \in S
  <2> DEFINE f == [n \in 0..0 |-> <<>>]
  <2>1. KeptUpTo(list, type, f, 0)
    BY DEF KeptUpTo
  <2> QED BY <2>1
<1>2. ASSUME NEW k \in S PROVE k + 1 \in S
  <2>1. PICK f : KeptUpTo(list, type, f, k)
    OBVIOUS
  <2> DEFINE last == IF OfType(list[k + 1], type) THEN Append(f[k], list[k + 1]) ELSE f[k]
             g == [n \in 0..(k + 1) |-> IF n = k + 1 THEN last ELSE f[n]]
  <2>2. g = [n \in 0..(k + 1) |->
               IF n = 0 THEN <<>>
               ELSE IF OfType(list[n], type) THEN Append(g[n - 1], list[n]) ELSE g[n - 1]]
    <3>1. ASSUME NEW n \in 0..(k + 1)
          PROVE  g[n] = IF n = 0 THEN <<>>
                        ELSE IF OfType(list[n], type) THEN Append(g[n - 1], list[n]) ELSE g[n - 1]
      <4>1. CASE n = k + 1
        <5>1. g[n] = last /\ n # 0 /\ n - 1 = k /\ g[k] = f[k]
          BY <4>1
        <5> HIDE DEF g
        <5> QED BY <4>1, <5>1
      <4>2. CASE n # k + 1
        <5>1. n \in 0..k /\ g[n] = f[n] /\ (n # 0 => g[n - 1] = f[n - 1])
          BY <4>2
        <5>2. f[n] = IF n = 0 THEN <<>>
                     ELSE IF OfType(list[n], type) THEN Append(f[n - 1], list[n]) ELSE f[n - 1]
          BY <2>1, <5>1 DEF KeptUpTo
        <5> HIDE DEF g
        <5> QED BY <5>1, <5>2
      <4> QED BY <4>1, <4>2
    <3>2. DOMAIN g = 0..(k + 1) /\ g = [n \in 0..(k + 1) |-> g[n]]
      OBVIOUS
    <3> HIDE DEF g
    <3> QED BY <3>1, <3>2
  <2> HIDE DEF g
  <2>3. KeptUpTo(list, type, g, k + 1)
    BY <2>2 DEF KeptUpTo
  <2>4. k + 1 \in Nat
    OBVIOUS
  <2> QED BY <2>3, <2>4
<1>3. S = Nat
  <2> HIDE DEF S
  <2>1. S \in SUBSET Nat
    BY DEF S
  <2> QED BY <1>1, <1>2, <2>1, NatSet
<1> QED BY <1>3

LEMMA KeptIs ==
  ASSUME NEW list, NEW type, Len(list) \in Nat
  PROVE  \E f : KeptUpTo(list, type, f, Len(list)) /\ Kept(list, type) = f[Len(list)]
<1> DEFINE f == CHOOSE f : KeptUpTo(list, type, f, Len(list))
<1>1. KeptUpTo(list, type, f, Len(list))
  BY KeptExists
<1>2. Kept(list, type) = f[Len(list)]
  BY DEF Kept, KeptUpTo
<1> QED BY <1>1, <1>2

LEMMA KeptEmpty ==
  ASSUME NEW type
  PROVE  Kept(<<>>, type) = <<>>
<1>1. Len(<<>>) = 0
  OBVIOUS
<1>2. PICK f : KeptUpTo(<<>>, type, f, 0) /\ Kept(<<>>, type) = f[0]
  BY <1>1, KeptIs
<1> QED BY <1>2 DEF KeptUpTo

LEMMA KeptAppend ==
  ASSUME NEW X, NEW list \in Seq(X), NEW r \in X, NEW type
  PROVE  Kept(Append(list, r), type) =
           IF OfType(r, type) THEN Append(Kept(list, type), r) ELSE Kept(list, type)
<1> DEFINE k == Len(list)
<1>1. /\ k \in Nat /\ Len(Append(list, r)) = k + 1 /\ Append(list, r)[k + 1] = r
      /\ \A i \in 1..k : Append(list, r)[i] = list[i]
  BY AppendProperties, LenProperties
<1> PICK long : long = Append(list, r)
  OBVIOUS
<1>2. PICK f : KeptUpTo(list, type, f, k) /\ Kept(list, type) = f[k]
  BY <1>1, KeptIs
<1>3. PICK g : KeptUpTo(long, type, g, k + 1) /\ Kept(long, type) = g[k + 1]
  <2>1. Len(long) = k + 1 /\ k + 1 \in Nat
    BY <1>1
  <2> HIDE DEF k
  <2> QED BY <2>1, KeptIs
<1>4. f[k] = g[k]
  <2> DEFINE S == {n \in Nat : n <= k => f[n] = g[n]}
  <2>1. 0 \in S
    <3>1. 0 \in 0..k /\ 0 \in 0..(k + 1)
      BY <1>1
    <3>2. f[0] = <<>>
      BY <1>2, <3>1 DEF KeptUpTo
    <3>3. g[0] = <<>>
      BY <1>3, <3>1 DEF KeptUpTo
    <3> QED BY <3>2, <3>3
  <2>2. ASSUME NEW n \in S PROVE n + 1 \in S
    <3>1. ASSUME n + 1 <= k PROVE f[n + 1] = g[n + 1]
      <4>1. /\ n + 1 \in 0..k /\ n + 1 \in 0..(k + 1) /\ n + 1 # 0 /\ (n + 1) - 1 = n
            /\ n + 1 \in 1..k /\ f[n] = g[n]
        BY <1>1, <2>2, <3>1
      <4>2. long[n + 1] = list[n + 1]
        BY <1>1, <4>1
      <4> HIDE DEF k, S
      <4>3. f[n + 1] = IF OfType(list[n + 1], type) THEN Append(f[n], list[n + 1]) ELSE f[n]
        BY <1>2, <4>1 DEF KeptUpTo
      <4>4. g[n + 1] = IF OfType(long[n + 1], type) THEN Append(g[n], long[n + 1]) ELSE g[n]
        BY <1>3, <4>1 DEF KeptUpTo
      <4> QED BY <4>1, <4>2, <4>3, <4>4
    <3> QED BY <3>1
  <2>3. S = Nat
    <3> HIDE DEF S
    <3>1. S \in SUBSET Nat
      BY DEF S
    <3> QED BY <2>1, <2>2, <3>1, NatSet
  <2> QED BY <1>1, <2>3
<1>5. g[k + 1] = IF OfType(r, type) THEN Append(g[k], r) ELSE g[k]
  <2>1. k + 1 \in 0..(k + 1) /\ k + 1 # 0 /\ (k + 1) - 1 = k /\ long[k + 1] = r
    BY <1>1
  <2> HIDE DEF k
  <2> QED BY <1>3, <2>1 DEF KeptUpTo
<1> QED BY <1>2, <1>3, <1>4, <1>5

Elements(q) == {q[i] : i \in DOMAIN q}
InOrder(q, R) == \A i, j \in DOMAIN q : i < j => <<q[i], q[j]>> \in R

LEMMA AppendIs ==
  ASSUME NEW X, NEW q \in Seq(X), NEW e \in X
  PROVE  /\ Append(q, e) \in Seq(X) /\ Len(q) \in Nat /\ Len(Append(q, e)) = Len(q) + 1
         /\ DOMAIN q = 1..Len(q) /\ DOMAIN Append(q, e) = 1..(Len(q) + 1)
         /\ Append(q, e)[Len(q) + 1] = e
         /\ \A i \in 1..Len(q) : Append(q, e)[i] = q[i]
BY AppendProperties, LenProperties

LEMMA AppendElements ==
  ASSUME NEW X, NEW q \in Seq(X), NEW e \in X
  PROVE  Elements(Append(q, e)) = Elements(q) \cup {e}
<1> PICK long : long = Append(q, e)
  OBVIOUS
<1> DEFINE n == Len(q)
<1>1. /\ n \in Nat /\ DOMAIN q = 1..n /\ DOMAIN long = 1..(n + 1)
      /\ long[n + 1] = e /\ \A i \in 1..n : long[i] = q[i]
  BY AppendIs
<1> HIDE DEF n
<1>2. ASSUME NEW x \in Elements(long) PROVE x \in Elements(q) \cup {e}
  <2>1. PICK i \in 1..(n + 1) : x = long[i]
    BY <1>1, <1>2 DEF Elements
  <2>2. i = n + 1 \/ i \in 1..n
    BY <1>1
  <2> QED BY <1>1, <2>1, <2>2 DEF Elements
<1>3. ASSUME NEW x \in Elements(q) PROVE x \in Elements(long)
  <2>1. PICK i \in 1..n : x = q[i]
    BY <1>1, <1>3 DEF Elements
  <2>2. i \in 1..(n + 1)
    BY <1>1
  <2> QED BY <1>1, <2>1, <2>2 DEF Elements
<1>4. e \in Elements(long)
  <2>1. n + 1 \in 1..(n + 1)
    BY <1>1
  <2> QED BY <1>1, <2>1 DEF Elements
<1> QED BY <1>2, <1>3, <1>4

LEMMA AppendInOrder ==
  ASSUME NEW X, NEW q \in Seq(X), NEW e \in X, NEW R
  PROVE  InOrder(Append(q, e), R) <=> InOrder(q, R) /\ \A x \in Elements(q) : <<x, e>> \in R
<1> PICK long : long = Append(q, e)
  OBVIOUS
<1> DEFINE n == Len(q)
<1>1. /\ n \in Nat /\ DOMAIN q = 1..n /\ DOMAIN long = 1..(n + 1)
      /\ long[n + 1] = e /\ \A i \in 1..n : long[i] = q[i]
  BY AppendIs
<1> HIDE DEF n
<1>2. ASSUME InOrder(long, R) PROVE InOrder(q, R) /\ \A x \in Elements(q) : <<x, e>> \in R
  <2>1. ASSUME NEW i \in 1..n, NEW j \in 1..n, i < j PROVE <<q[i], q[j]>> \in R
    BY <1>1, <1>2, <2>1 DEF InOrder
  <2>2. ASSUME NEW x \in Elements(q) PROVE <<x, e>> \in R
    <3>1. PICK i \in 1..n : x = q[i]
      BY <1>1, <2>2 DEF Elements
    <3>2. i \in 1..(n + 1) /\ n + 1 \in 1..(n + 1) /\ i < n + 1
      BY <1>1
    <3> QED BY <1>1, <1>2, <3>1, <3>2 DEF InOrder
  <2> QED BY <1>1, <2>1, <2>2 DEF InOrder
<1>3. ASSUME InOrder(q, R), \A x \in Elements(q) : <<x, e>> \in R PROVE InOrder(long, R)
  <2>1. ASSUME NEW i \in 1..(n + 1), NEW j \in 1..(n + 1), i < j PROVE <<long[i], long[j]>> \in R
    <3>1. i \in 1..n /\ long[i] = q[i]
      BY <1>1, <2>1
    <3>2. q[i] \in Elements(q)
      BY <1>1, <3>1 DEF Elements
    <3>3. CASE j = n + 1
      BY <1>1, <1>3, <3>1, <3>2, <3>3
    <3>4. CASE j # n + 1
      <4>1. j \in 1..n /\ long[j] = q[j]
        BY <1>1, <3>4
      <4> QED BY <1>1, <1>3, <2>1, <3>1, <4>1 DEF InOrder
    <3> QED BY <3>3, <3>4
  <2> QED BY <1>1, <2>1 DEF InOrder
<1> QED BY <1>2, <1>3

\* What is kept are the elements of that type,
LEMMA KeptElements ==
  ASSUME NEW X, NEW list \in Seq(X), NEW type
  PROVE  /\ Kept(list, type) \in Seq(X)
         /\ Elements(Kept(list, type)) = {r \in Elements(list) : OfType(r, type)}
<1> DEFINE P == {q \in Seq(X) : /\ Kept(q, type) \in Seq(X)
                                /\ Elements(Kept(q, type)) = {r \in Elements(q) : OfType(r, type)}}
<1>1. <<>> \in P
  <2>1. Elements(<<>>) = {}
    BY DEF Elements
  <2> QED BY <2>1, KeptEmpty, EmptySeq
<1>2. ASSUME NEW q \in P, NEW e \in X PROVE Append(q, e) \in P
  <2>1. q \in Seq(X) /\ Append(q, e) \in Seq(X)
    BY AppendIs
  <2>2. Elements(Append(q, e)) = Elements(q) \cup {e}
    BY <2>1, AppendElements
  <2>3. CASE OfType(e, type)
    <3>1. Kept(Append(q, e), type) = Append(Kept(q, type), e)
      BY <2>1, <2>3, KeptAppend
    <3>2. Elements(Append(Kept(q, type), e)) = Elements(Kept(q, type)) \cup {e}
      BY AppendElements
    <3>3. Append(Kept(q, type), e) \in Seq(X)
      BY AppendIs
    <3>4. {r \in Elements(q) \cup {e} : OfType(r, type)} = {r \in Elements(q) : OfType(r, type)}
            \cup {e}
      BY <2>3
    <3> QED BY <2>1, <2>2, <3>1, <3>2, <3>3, <3>4
  <2>4. CASE ~OfType(e, type)
    <3>1. Kept(Append(q, e), type) = Kept(q, type)
      BY <2>1, <2>4, KeptAppend
    <3> QED BY <2>1, <2>2, <2>4, <3>1
  <2> QED BY <2>3, <2>4
<1>3. P = Seq(X)
  <2> HIDE DEF P
  <2>1. P \in SUBSET Seq(X)
    BY DEF P
  <2> QED BY <1>1, <1>2, <2>1, SeqSet
<1> QED BY <1>3

\* in the order they are in,
LEMMA KeptInOrder ==
  ASSUME NEW X, NEW list \in Seq(X), NEW type, NEW R, InOrder(list, R)
  PROVE  InOrder(Kept(list, type), R)
<1> DEFINE P == {q \in Seq(X) : InOrder(q, R) => InOrder(Kept(q, type), R)}
<1>1. <<>> \in P
  BY KeptEmpty, EmptySeq
<1>2. ASSUME NEW q \in P, NEW e \in X PROVE Append(q, e) \in P
  <2>1. q \in Seq(X) /\ Append(q, e) \in Seq(X)
    BY AppendIs
  <2>2. ASSUME InOrder(Append(q, e), R) PROVE InOrder(Kept(Append(q, e), type), R)
    <3>1. InOrder(q, R) /\ \A x \in Elements(q) : <<x, e>> \in R
      BY <2>1, <2>2, AppendInOrder
    <3>2. InOrder(Kept(q, type), R)
      BY <1>2, <3>1
    <3>3. Kept(q, type) \in Seq(X) /\ Elements(Kept(q, type)) \subseteq Elements(q)
      BY <2>1, KeptElements
    <3>4. InOrder(Append(Kept(q, type), e), R)
      BY <3>1, <3>2, <3>3, AppendInOrder
    <3> QED BY <2>1, <3>2, <3>4, KeptAppend
  <2>3. InOrder(Append(q, e), R) => InOrder(Kept(Append(q, e), type), R)
    BY <2>2
  <2> QED BY <2>1, <2>3
<1>3. P = Seq(X)
  <2> HIDE DEF P
  <2>1. P \in SUBSET Seq(X)
    BY DEF P
  <2> QED BY <1>1, <1>2, <2>1, SeqSet
<1> QED BY <1>3

LEMMA AppendToConcat ==
  ASSUME NEW X, NEW a \in Seq(X), NEW b \in Seq(X), NEW e \in X
  PROVE  Append(a \o b, e) = a \o Append(b, e)
<1>1. a \o b \in Seq(X) /\ <<e>> \in Seq(X)
  BY ConcatProperties
<1>2. Append(a \o b, e) = (a \o b) \o <<e>>
  BY <1>1, AppendIsConcat
<1>3. Append(b, e) = b \o <<e>>
  BY AppendIsConcat
<1>4. (a \o b) \o <<e>> = a \o (b \o <<e>>)
  BY <1>1, ConcatAssociative
<1> QED BY <1>2, <1>3, <1>4, Zenon

\* and filtering distributes over concatenation.
LEMMA KeptConcat ==
  ASSUME NEW X, NEW u \in Seq(X), NEW v \in Seq(X), NEW type
  PROVE  Kept(u \o v, type) = Kept(u, type) \o Kept(v, type)
<1> DEFINE P == {q \in Seq(X) : Kept(u \o q, type) = Kept(u, type) \o Kept(q, type)}
<1>1. <<>> \in P
  BY KeptEmpty, EmptySeq, KeptElements, ConcatEmptySeq
<1>2. ASSUME NEW q \in P, NEW e \in X PROVE Append(q, e) \in P
  <2>1. q \in Seq(X) /\ Append(q, e) \in Seq(X) /\ u \o q \in Seq(X)
    BY AppendIs, ConcatProperties
  <2>2. u \o Append(q, e) = Append(u \o q, e)
    BY <2>1, AppendIsConcat, ConcatAssociative, SMT
  <2>3. CASE OfType(e, type)
    <3>1. Kept(u \o Append(q, e), type) = Append(Kept(u, type) \o Kept(q, type), e)
      BY <1>2, <2>1, <2>2, <2>3, KeptAppend
    <3>2. Kept(Append(q, e), type) = Append(Kept(q, type), e)
      BY <2>1, <2>3, KeptAppend
    <3>3. Append(Kept(u, type) \o Kept(q, type), e) = Kept(u, type) \o Append(Kept(q, type), e)
      <4>1. Kept(u, type) \in Seq(X) /\ Kept(q, type) \in Seq(X)
        BY <2>1, KeptElements
      <4> QED BY <4>1, AppendToConcat
    <3> QED BY <2>1, <3>1, <3>2, <3>3
  <2>4. CASE ~OfType(e, type)
    <3>1. Kept(u \o Append(q, e), type) = Kept(u, type) \o Kept(q, type)
      <4>1. Kept(Append(u \o q, e), type) = Kept(u \o q, type)
        BY <2>1, <2>4, KeptAppend
      <4> QED BY <1>2, <2>2, <4>1
    <3>2. Kept(Append(q, e), type) = Kept(q, type)
      BY <2>1, <2>4, KeptAppend
    <3> QED BY <2>1, <3>1, <3>2
  <2> QED BY <2>3, <2>4
<1>3. P = Seq(X)
  <2> HIDE DEF P
  <2>1. P \in SUBSET Seq(X)
    BY DEF P
  <2> QED BY <1>1, <1>2, <2>1, SeqSet
<1> QED BY <1>3

-----------------------------------------------------------------------------
(* The merged list.                                                        *)

Under(S, R, i) == {j \in S : <<j, i>> \in R}

\* A finite set listed by rank, each member by how many come before it.
LEMMA RankFacts ==
  ASSUME NEW S, IsFiniteSet(S), NEW R,
         \A i \in S : <<i, i>> \notin R,
         \A i, j, k \in S : <<i, j>> \in R /\ <<j, k>> \in R => <<i, k>> \in R,
         \A i, j \in S : i # j => <<i, j>> \in R \/ <<j, i>> \in R,
         NEW X, NEW q \in Seq(X), Len(q) = Cardinality(S),
         \A n \in 1..Cardinality(S) :
            (\E i \in S : Cardinality(Under(S, R, i)) = n - 1) =>
               q[n] \in S /\ Cardinality(Under(S, R, q[n])) = n - 1
  PROVE  q \in Seq(S) /\ Elements(q) = S /\ InOrder(q, R)
<1> DEFINE N == Cardinality(S)
           Below(i) == Under(S, R, i)
           rank == [i \in S |-> Cardinality(Below(i))]
<1>1. N \in Nat
  BY FS_CardinalityType
<1>2. \A i \in S : IsFiniteSet(Below(i)) /\ Cardinality(Below(i)) \in Nat
  BY FS_Subset, FS_CardinalityType DEF Under
<1>a. \A i \in S : rank[i] = Cardinality(Below(i))
  OBVIOUS
<1>c. rank = [i \in S |-> rank[i]]
  OBVIOUS
<1> HIDE DEF rank
<1>3. \A i \in S : rank[i] \in 0..(N - 1)
  <2> SUFFICES ASSUME NEW i \in S PROVE rank[i] \in 0..(N - 1)
    OBVIOUS
  <2>1. Below(i) \in SUBSET S /\ Below(i) # S
    BY DEF Under
  <2>2. Cardinality(Below(i)) <= N /\ Cardinality(Below(i)) # N
    BY <2>1, FS_Subset
  <2> HIDE DEF Below, N
  <2> QED BY <1>1, <1>2, <1>a, <2>2
<1>4. \A i, j \in S : <<i, j>> \in R => rank[i] < rank[j]
  <2> SUFFICES ASSUME NEW i \in S, NEW j \in S, <<i, j>> \in R PROVE rank[i] < rank[j]
    OBVIOUS
  <2>1. Below(i) \in SUBSET Below(j) /\ i \in Below(j) /\ i \notin Below(i)
    BY DEF Under
  <2>2. Cardinality(Below(i)) <= Cardinality(Below(j)) /\ Cardinality(Below(i)) # Cardinality(Below(j))
    BY <1>2, <2>1, FS_Subset
  <2> HIDE DEF Below
  <2> QED BY <1>2, <1>a, <2>2
<1>5. \A i \in S : rank[i] \in Nat /\ ~(rank[i] < rank[i])
  <2> HIDE DEF Below
  <2> QED BY <1>2, <1>a
<1>6. \A i, j \in S : rank[i] = rank[j] => i = j
  <2> SUFFICES ASSUME NEW i \in S, NEW j \in S, rank[i] = rank[j], i # j PROVE FALSE
    OBVIOUS
  <2>1. rank[i] < rank[j] \/ rank[j] < rank[i]
    BY <1>4
  <2> QED BY <1>5, <2>1
<1>7. \A k \in 0..(N - 1) : \E i \in S : rank[i] = k
  <2>1. IsFiniteSet(0..(N - 1)) /\ Cardinality(0..(N - 1)) = N
    <3> HIDE DEF N
    <3>1. 0 \in Int /\ N - 1 \in Int
      BY <1>1
    <3>2. IsFiniteSet(0..(N - 1)) /\ Cardinality(0..(N - 1)) = IF 0 > N - 1 THEN 0 ELSE (N - 1) - 0 + 1
      BY <3>1, FS_Interval
    <3> QED BY <1>1, <3>2
  <2>2. rank \in Injection(S, 0..(N - 1))
    BY <1>3, <1>6, <1>c DEF Injection, IsInjective
  <2>3. rank \in Surjection(S, 0..(N - 1))
    BY <2>1, <2>2, FS_Injection
  <2> QED BY <2>3 DEF Surjection
<1>8. \A n \in 1..N : q[n] \in S /\ rank[q[n]] = n - 1
  <2> SUFFICES ASSUME NEW n \in 1..N PROVE q[n] \in S /\ rank[q[n]] = n - 1
    OBVIOUS
  <2>1. n - 1 \in 0..(N - 1)
    BY <1>1
  <2>2. \E i \in S : Cardinality(Below(i)) = n - 1
    BY <1>7, <1>a, <2>1
  <2>4. q[n] \in S /\ Cardinality(Below(q[n])) = n - 1
    BY <2>2
  <2> QED BY <1>a, <2>4
<1>9. q \in Seq(S) /\ DOMAIN q = 1..N
  <2>1. DOMAIN q = 1..N /\ q \in [1..N -> X]
    BY <1>1
  <2> HIDE DEF N
  <2>2. q \in [1..N -> S]
    BY <1>8, <2>1
  <2> QED BY ONLY <1>1, <2>1, <2>2
<1>10. InOrder(q, R)
  <2> SUFFICES ASSUME NEW m \in 1..N, NEW n \in 1..N, m < n PROVE <<q[m], q[n]>> \in R
    BY <1>9 DEF InOrder
  <2> HIDE DEF N
  <2>0. rank[q[m]] = m - 1 /\ rank[q[n]] = n - 1
    BY <1>8
  <2>1. rank[q[m]] < rank[q[n]] /\ rank[q[m]] # rank[q[n]] /\ ~(rank[q[n]] < rank[q[m]])
    BY <1>1, <2>0
  <2>2. q[m] \in S /\ q[n] \in S /\ q[m] # q[n]
    BY <1>8, <2>1
  <2> QED BY <1>4, <2>1, <2>2
<1>11. Elements(q) = S
  <2>1. ASSUME NEW i \in S PROVE i \in Elements(q)
    <3>1. rank[i] \in 0..(N - 1)
      BY <1>3
    <3> HIDE DEF N
    <3>2. rank[i] + 1 \in 1..N /\ (rank[i] + 1) - 1 = rank[i]
      BY <1>1, <3>1
    <3>3. q[rank[i] + 1] = i
      BY <1>6, <1>8, <3>2
    <3> QED BY <1>9, <3>2, <3>3 DEF Elements
  <2>2. ASSUME NEW i \in Elements(q) PROVE i \in S
    <3>1. PICK n \in 1..N : i = q[n]
      BY <1>9, <2>2 DEF Elements
    <3> QED BY <1>8, <3>1
  <2> QED BY <2>1, <2>2
<1> QED BY <1>9, <1>10, <1>11

-----------------------------------------------------------------------------
(* The inductive invariant.                                                *)

Kinds == Types \cup {"turn", "tool", "row", "dispatch", "sink"}
Records == [id : Nat \ {0}, sess : Nat, ts : Nat, type : Kinds]

Typed ==
    /\ surface \in Surfaces /\ who \in Bearers /\ all \in BOOLEAN /\ filter \in {Asked, None}
    /\ all => surface = "events" /\ who = "operator"
    /\ ready \in BOOLEAN /\ live \subseteq Sessions
    /\ store \in [Owners -> Seq(Records)] /\ wrote \in Seq(Records) /\ clock \in Nat
    /\ window \in Seq(Nat) /\ wait \in Nat \cup {None} /\ life \in 0..Ttl
    /\ call \in {"idle", "sent", "inside"} /\ code \in Codes
    /\ anchor \in Nat \cup {None} /\ seen \in Seq(Records) /\ loose \in Seq(Records)

\* Records are numbered as they are written, and not of the future.
Stamped(w) == \A i \in DOMAIN w : w[i].id = i /\ w[i].ts <= clock

\* The window holds fresh ages, oldest first; who waits for Retry-After waits
\* until the oldest has left a full window.
Limiting ==
    /\ Len(window) <= PerMinute /\ \A i \in DOMAIN window : window[i] \in 0..Window - 1
    /\ \A i, j \in DOMAIN window : i <= j => window[j] <= window[i]
    /\ wait # None /\ Len(window) >= PerMinute => wait >= Window - window[1]

\* v is made of records of w,
From(v, w) == \A i \in DOMAIN v : v[i].id \in DOMAIN w /\ w[v[i].id] = v[i]

\* the last ones of w.
Suffix(v, w) == Len(v) <= Len(w) /\ \A i \in DOMAIN v : v[i] = w[Len(w) - Len(v) + i]

\* Stores hold what was written, a session's ring within its cap; the store of
\* a client that does not ask for all sessions holds the latest.
Held(st, w) ==
    /\ \A s \in Sessions : Len(st[s]) <= Cap
    /\ \A s \in Owners : From(st[s], w)
    /\ ~all => Suffix(st[Own], w) /\ \A s \in Owners \ {Own} : st[s] = <<>>

\* Spans are written in pairs, and dropped only when the ring is full.
Paired(st, w) ==
    surface = "otel-spans" =>
        /\ Len(w) % 2 = 0
        /\ \A i \in DOMAIN w : w[i].type = IF i % 2 = 0 THEN "tool" ELSE "turn"
        /\ Len(st[Own]) = Len(w) \/ Len(st[Own]) = Cap

Ordered == {p \in Records \X Records : Before(p[1], p[2])}

\* The client's place is the last record it was given.
Followed ==
    /\ anchor = None <=> seen = <<>>
    /\ anchor # None => anchor \in DOMAIN wrote /\ seen[Len(seen)] = wrote[anchor]
    /\ From(seen, wrote)
    /\ all => InOrder(seen, Ordered)

\* q is a gapless stretch of h.
Stretch(q, h) ==
    \E i \in DOMAIN h : i + Len(q) - 1 <= Len(h) /\ \A n \in DOMAIN q : q[n] = h[i + n - 1]

Whole == ~all /\ seen # <<>> => Stretch(seen, Kept(wrote, filter))

\* Rows past the client's place follow it, and end on one without an id.
Loosely ==
    loose # <<>> =>
        /\ surface = "audit-records" /\ ~HasId(loose[Len(loose)])
        /\ Stretch(seen \o loose, Kept(wrote, filter))

TiesMissed ==
    all /\ anchor # None =>
        \A r \in Retained \ Given :
            Wanted(r) /\ Before(r, wrote[anchor]) => \E g \in Given : g.ts = r.ts /\ r.sess < g.sess

Inv ==
    /\ Typed /\ Stamped(wrote) /\ Limiting /\ Held(store, wrote) /\ Paired(store, wrote)
    /\ Followed /\ Whole /\ Loosely /\ TiesMissed

LEMMA InitInv == Init => Inv
<1> SUFFICES ASSUME Init PROVE Inv
  OBVIOUS
<1> USE DEF Init
<1>1. Typed
  <2>1. store \in [Owners -> Seq(Records)] /\ wrote \in Seq(Records) /\ seen \in Seq(Records)
          /\ window \in Seq(Nat) /\ loose \in Seq(Records)
    BY EmptySeq
  <2>2. clock \in Nat /\ wait \in Nat \cup {None} /\ anchor \in Nat \cup {None} /\ life \in 0..Ttl
    BY ObserveAssumption
  <2>3. ready \in BOOLEAN /\ live \subseteq Sessions
    OBVIOUS
  <2>4. call \in {"idle", "sent", "inside"} /\ code \in Codes
    BY DEF Codes
  <2>5. /\ surface \in Surfaces /\ who \in Bearers /\ all \in BOOLEAN /\ filter \in {Asked, None}
        /\ all => surface = "events" /\ who = "operator"
    OBVIOUS
  <2> QED BY <2>1, <2>2, <2>3, <2>4, <2>5 DEF Typed
<1>2. wrote = <<>> /\ seen = <<>> /\ window = <<>> /\ Len(<<>>) = 0 /\ DOMAIN <<>> = {}
      /\ \A s \in Owners : store[s] = <<>>
  OBVIOUS
<1>3. PerMinute \in Nat \ {0} /\ Cap \in Nat \ {0} /\ Sessions \subseteq Owners /\ Own \in Owners
  BY ObserveAssumption DEF PerMinute, Own, Owners
<1>4. Stamped(wrote) /\ Limiting /\ Held(store, wrote) /\ Paired(store, wrote)
  BY <1>2, <1>3 DEF Stamped, Limiting, Held, From, Suffix, Paired
<1>5. Followed
  BY <1>2 DEF Followed, From, InOrder
<1> QED BY <1>1, <1>4, <1>5 DEF Inv, Whole, Loosely, TiesMissed

-----------------------------------------------------------------------------
(* Writing.                                                                *)

LEMMA OwnFacts ==
  ASSUME Typed
  PROVE  /\ Own \in Owners /\ Sessions \subseteq Owners /\ Target \in Sessions /\ Cap \in Nat \ {0}
         /\ PerMinute \in Nat \ {0} /\ Global \notin Sessions
         /\ surface \in SessionPaged => Own = Target
         /\ surface \in GlobalPaged => Own = Global
BY ObserveAssumption DEF Own, Owners, PerMinute, Global, SessionPaged, GlobalPaged

\* A list after a push, into a ring or not.
Pushed(v, r) == {Push(v, r), Append(v, r)}

LEMMA PushIs ==
  ASSUME NEW v \in Seq(Records), NEW r \in Records, NEW new \in Pushed(v, r), Cap \in Nat \ {0}
  PROVE  /\ new \in Seq(Records) /\ Len(new) \in Nat \ {0} /\ DOMAIN new = 1..Len(new)
         /\ Len(new) = Len(v) + 1 \/ (Len(new) = Len(v) /\ Len(v) >= Cap)
         /\ new = Push(v, r) => (Len(v) <= Cap => Len(new) <= Cap)
         /\ new[Len(new)] = r
         /\ \A i \in 1..Len(new) - 1 : /\ Len(v) - Len(new) + 1 + i \in 1..Len(v)
                                       /\ new[i] = v[Len(v) - Len(new) + 1 + i]
<1> PICK m : m = Len(v)
  OBVIOUS
<1>0. m \in Nat /\ DOMAIN v = 1..m
  OBVIOUS
<1>1. CASE new = Append(v, r)
  <2>1. /\ new \in Seq(Records) /\ Len(new) = m + 1 /\ DOMAIN new = 1..(m + 1)
        /\ new[m + 1] = r /\ \A i \in 1..m : new[i] = v[i]
    BY <1>1, AppendIs
  <2>2. new = Push(v, r) => (m <= Cap => m + 1 <= Cap)
    <3>1. ASSUME new = Push(v, r), m <= Cap, m >= Cap PROVE FALSE
      <4>1. v # <<>>
        BY <1>0, <3>1
      <4>2. Tail(v) \in Seq(Records) /\ Len(Tail(v)) = m - 1
        BY <4>1, HeadTailProperties
      <4>3. new = Append(Tail(v), r)
        BY <1>0, <3>1 DEF Push
      <4>4. Len(new) = (m - 1) + 1
        BY <4>2, <4>3, AppendProperties
      <4> QED BY <1>0, <2>1, <4>4
    <3> QED BY <1>0, <3>1
  <2>3. \A i \in 1..(m + 1) - 1 : m - (m + 1) + 1 + i = i /\ i \in 1..m
    BY <1>0
  <2> QED BY <1>0, <2>1, <2>2, <2>3
<1>2. CASE new # Append(v, r)
  <2>1. new = Append(Tail(v), r) /\ m >= Cap
    BY <1>0, <1>2 DEF Push, Pushed
  <2>2. v # <<>>
    BY <1>0, <2>1
  <2> PICK t : t = Tail(v)
    OBVIOUS
  <2>3. t \in Seq(Records) /\ Len(t) = m - 1 /\ \A i \in 1..m - 1 : t[i] = v[i + 1]
    BY <2>2, HeadTailProperties
  <2>4. m - 1 \in Nat /\ (m - 1) + 1 = m
    BY <1>0, <2>1
  <2>5. /\ new \in Seq(Records) /\ Len(new) = m /\ DOMAIN new = 1..m /\ new[m] = r
        /\ \A i \in 1..m - 1 : new[i] = t[i]
    BY <2>1, <2>3, <2>4, AppendIs
  <2>6. \A i \in 1..m - 1 : m - m + 1 + i = i + 1 /\ i + 1 \in 1..m
    BY <1>0
  <2> QED BY <1>0, <2>1, <2>3, <2>5, <2>6
<1> QED BY <1>1, <1>2

\* What a push of the next record keeps.
LEMMA PushKeeps ==
  ASSUME NEW v \in Seq(Records), NEW w \in Seq(Records), NEW r \in Records,
         NEW new \in Pushed(v, r), Cap \in Nat \ {0},
         r.id = Len(w) + 1, r.ts = clock, clock \in Nat
  PROVE  /\ Append(w, r) \in Seq(Records) /\ Len(Append(w, r)) = Len(w) + 1
         /\ Stamped(w) => Stamped(Append(w, r))
         /\ \A q \in Seq(Records) : From(q, w) => From(q, Append(w, r))
         /\ From(v, w) => From(new, Append(w, r))
         /\ Suffix(v, w) => Suffix(new, Append(w, r))
         /\ Elements(new) \subseteq Elements(v) \cup {r}
<1> PICK long : long = Append(w, r)
  OBVIOUS
<1>0. \A i \in 1..Len(new) - 1 : /\ Len(v) - Len(new) + 1 + i \in 1..Len(v)
                                 /\ new[i] = v[Len(v) - Len(new) + 1 + i]
  BY PushIs
<1> PICK k, m, n : k = Len(w) /\ m = Len(v) /\ n = Len(new)
  OBVIOUS
<1>1. /\ long \in Seq(Records) /\ k \in Nat /\ Len(long) = k + 1
      /\ DOMAIN w = 1..k /\ DOMAIN long = 1..(k + 1)
      /\ long[k + 1] = r /\ \A i \in 1..k : long[i] = w[i]
  BY AppendIs
<1>2. m \in Nat /\ DOMAIN v = 1..m
  OBVIOUS
<1>3. new \in Seq(Records) /\ n \in Nat \ {0} /\ DOMAIN new = 1..n /\ new[n] = r
  BY PushIs
<1>4. n = m + 1 \/ n = m
  BY PushIs
<1>5. \A i \in 1..n - 1 : m - n + 1 + i \in 1..m /\ new[i] = v[m - n + 1 + i]
  BY <1>0
<1>6. Stamped(w) => Stamped(long)
  BY <1>1 DEF Stamped
<1>7. \A q \in Seq(Records) : From(q, w) => From(q, long)
  BY <1>1 DEF From
<1>8. \A i \in 1..n : i = n \/ i \in 1..n - 1
  BY <1>3
<1>9. From(v, w) => From(new, long)
  <2> SUFFICES ASSUME From(v, w), NEW i \in 1..n PROVE new[i].id \in DOMAIN long
                 /\ long[new[i].id] = new[i]
    BY <1>3 DEF From
  <2>1. CASE i = n
    BY <1>1, <1>3, <2>1
  <2>2. CASE i # n
    <3>1. PICK j \in 1..m : new[i] = v[j]
      BY <1>5, <1>8, <2>2
    <3>2. v[j].id \in 1..k /\ w[v[j].id] = v[j]
      BY <1>1, <1>2 DEF From
    <3> QED BY <1>1, <3>1, <3>2
  <2> QED BY <2>1, <2>2
<1>10. Suffix(v, w) => Suffix(new, long)
  <2> SUFFICES ASSUME Suffix(v, w) PROVE Suffix(new, long)
    OBVIOUS
  <2>1. m <= k /\ \A i \in 1..m : v[i] = w[k - m + i]
    BY <1>2 DEF Suffix
  <2>2. n <= k + 1
    BY <1>1, <1>2, <1>4, <2>1
  <2>3. ASSUME NEW i \in 1..n PROVE new[i] = long[(k + 1) - n + i]
    <3>1. CASE i = n
      <4>1. (k + 1) - n + i = k + 1
        BY <1>1, <1>3, <3>1
      <4> QED BY <1>1, <1>3, <3>1, <4>1
    <3>2. CASE i # n
      <4>1. PICK j \in 1..m : j = m - n + 1 + i /\ new[i] = v[j]
        BY <1>5, <1>8, <3>2
      <4>2. v[j] = w[k - m + j]
        BY <2>1
      <4>3. k - m + j = (k + 1) - n + i /\ k - m + j \in 1..k
        BY <1>1, <1>2, <1>3, <2>1, <4>1
      <4> QED BY <1>1, <4>1, <4>2, <4>3
    <3> QED BY <3>1, <3>2
  <2> QED BY <1>1, <1>3, <2>2, <2>3 DEF Suffix
<1>11. Elements(new) \subseteq Elements(v) \cup {r}
  <2> SUFFICES ASSUME NEW x \in Elements(new) PROVE x \in Elements(v) \cup {r}
    OBVIOUS
  <2>1. PICK i \in 1..n : x = new[i]
    BY <1>3 DEF Elements
  <2>2. CASE i = n
    BY <1>3, <2>1, <2>2
  <2>3. CASE i # n
    <3>1. PICK j \in 1..m : new[i] = v[j]
      BY <1>5, <1>8, <2>3
    <3> QED BY <1>2, <2>1, <3>1 DEF Elements
  <2> QED BY <2>2, <2>3
<1> QED BY <1>1, <1>6, <1>7, <1>9, <1>10, <1>11

\* What writing does to what is held and what was read.
Grown(st, w, st2, w2) ==
    /\ Len(w) <= Len(w2) /\ \A i \in DOMAIN w : i \in DOMAIN w2 /\ w2[i] = w[i]
    /\ \A q \in Seq(Records) : From(q, w) => From(q, w2)
    /\ \A q \in Seq(Records) : Stretch(q, Kept(w, filter)) => Stretch(q, Kept(w2, filter))
    /\ \A s \in Owners :
          Elements(st2[s]) \subseteq Elements(st[s])
            \cup {x \in Records : x.ts = clock /\ x.id > Len(w)}

LEMMA StretchGrows ==
  ASSUME NEW h \in Seq(Records), NEW r \in Records, NEW q \in Seq(Records), Stretch(q, h)
  PROVE  Stretch(q, Append(h, r))
<1> PICK long : long = Append(h, r)
  OBVIOUS
<1> PICK m, n : m = Len(h) /\ n = Len(q)
  OBVIOUS
<1>1. /\ m \in Nat /\ DOMAIN h = 1..m /\ Len(long) = m + 1 /\ DOMAIN long = 1..(m + 1)
      /\ \A i \in 1..m : long[i] = h[i]
  BY AppendIs
<1>2. n \in Nat /\ DOMAIN q = 1..n
  OBVIOUS
<1>3. PICK i \in 1..m : i + n - 1 <= m /\ \A j \in 1..n : q[j] = h[i + j - 1]
  BY <1>1, <1>2 DEF Stretch
<1>4. \A j \in 1..n : i + j - 1 \in 1..m
  BY <1>1, <1>2, <1>3
<1>5. i \in 1..(m + 1) /\ i + n - 1 <= m + 1
  BY <1>1, <1>2, <1>3
<1> QED BY <1>1, <1>2, <1>3, <1>4, <1>5 DEF Stretch

LEMMA PushStep ==
  ASSUME Typed, NEW st \in [Owners -> Seq(Records)], NEW w \in Seq(Records),
         Stamped(w), Held(st, w),
         NEW s \in Owners, NEW r \in Records, r.id = Len(w) + 1, r.ts = clock, all \/ s = Own,
         NEW new \in Pushed(st[s], r), s \in Sessions => new = Push(st[s], r)
  PROVE  LET st2 == [st EXCEPT ![s] = new]
             w2 == Append(w, r)
         IN  /\ st2 \in [Owners -> Seq(Records)] /\ w2 \in Seq(Records)
             /\ Stamped(w2) /\ Held(st2, w2) /\ Grown(st, w, st2, w2)
<1> DEFINE st2 == [st EXCEPT ![s] = new]
           w2 == Append(w, r)
<1>0. st[s] \in Seq(Records) /\ Cap \in Nat \ {0} /\ clock \in Nat /\ Own \in Owners
  BY OwnFacts DEF Typed
<1>1. /\ new \in Seq(Records) /\ (new = Push(st[s], r) => (Len(st[s]) <= Cap => Len(new) <= Cap))
  BY <1>0, PushIs
<1>2. /\ w2 \in Seq(Records) /\ Len(w2) = Len(w) + 1 /\ Stamped(w2)
      /\ \A q \in Seq(Records) : From(q, w) => From(q, w2)
      /\ From(st[s], w) => From(new, w2)
      /\ Suffix(st[s], w) => Suffix(new, w2)
      /\ Elements(new) \subseteq Elements(st[s]) \cup {r}
  BY <1>0, PushKeeps
<1>3. st2 \in [Owners -> Seq(Records)] /\ st2[s] = new /\ \A t \in Owners \ {s} : st2[t] = st[t]
  BY <1>1
<1>4. Len(w) \in Nat /\ DOMAIN w = 1..Len(w) /\ DOMAIN w2 = 1..(Len(w) + 1)
      /\ \A i \in 1..Len(w) : w2[i] = w[i]
  BY AppendIs
<1>k. \/ Kept(w2, filter) = Append(Kept(w, filter), r)
      \/ Kept(w2, filter) = Kept(w, filter)
  BY KeptAppend
<1>l. Kept(w, filter) \in Seq(Records)
  BY KeptElements
<1> HIDE DEF st2, w2
<1>5. Held(st2, w2)
  <2>1. ASSUME NEW t \in Sessions PROVE Len(st2[t]) <= Cap
    <3>1. Len(st[t]) <= Cap /\ t \in Owners
      BY DEF Held, Owners
    <3>2. CASE t = s
      BY <1>1, <1>3, <3>1, <3>2
    <3>3. CASE t # s
      BY <1>3, <3>1, <3>3
    <3> QED BY <3>2, <3>3
  <2>2. ASSUME NEW t \in Owners PROVE From(st2[t], w2)
    <3>1. From(st[t], w) /\ st[t] \in Seq(Records)
      BY DEF Held
    <3>2. CASE t = s
      BY <1>2, <1>3, <3>1, <3>2
    <3>3. CASE t # s
      BY <1>2, <1>3, <3>1, <3>3
    <3> QED BY <3>2, <3>3
  <2>3. ASSUME ~all PROVE Suffix(st2[Own], w2) /\ \A t \in Owners \ {Own} : st2[t] = <<>>
    <3>1. s = Own /\ Suffix(st[Own], w) /\ \A t \in Owners \ {Own} : st[t] = <<>>
      BY <2>3 DEF Held
    <3> QED BY <1>2, <1>3, <3>1
  <2> QED BY <2>1, <2>2, <2>3 DEF Held
<1>6. Grown(st, w, st2, w2)
  <2>1. ASSUME NEW q \in Seq(Records), Stretch(q, Kept(w, filter)) PROVE Stretch(q, Kept(w2, filter))
    BY <1>k, <1>l, <2>1, StretchGrows
  <2>2. ASSUME NEW t \in Owners
        PROVE  Elements(st2[t]) \subseteq Elements(st[t])
                 \cup {x \in Records : x.ts = clock /\ x.id > Len(w)}
    <3>1. r \in {x \in Records : x.ts = clock /\ x.id > Len(w)}
      BY <1>4
    <3>2. CASE t = s
      BY <1>2, <1>3, <3>1, <3>2
    <3>3. CASE t # s
      BY <1>3, <3>3
    <3> QED BY <3>2, <3>3
  <2>3. Len(w) <= Len(w2) /\ \A i \in DOMAIN w : i \in DOMAIN w2 /\ w2[i] = w[i]
    BY <1>2, <1>4
  <2> QED BY <1>2, <2>1, <2>2, <2>3 DEF Grown
<1>7. QED BY <1>2, <1>3, <1>5, <1>6 DEF st2, w2

LEMMA GrownTwice ==
  ASSUME NEW st, NEW w \in Seq(Records), NEW st2, NEW w2 \in Seq(Records), NEW st3,
           NEW w3 \in Seq(Records),
         Grown(st, w, st2, w2), Grown(st2, w2, st3, w3)
  PROVE  Grown(st, w, st3, w3)
<1>1. Len(w) \in Nat /\ Len(w2) \in Nat /\ Len(w3) \in Nat
  OBVIOUS
<1>2. Len(w) <= Len(w3) /\ \A i \in DOMAIN w : i \in DOMAIN w3 /\ w3[i] = w[i]
  BY <1>1 DEF Grown
<1>3. \A q \in Seq(Records) : From(q, w) => From(q, w3)
  BY DEF Grown
<1>4. \A q \in Seq(Records) : Stretch(q, Kept(w, filter)) => Stretch(q, Kept(w3, filter))
  BY DEF Grown
<1>5. ASSUME NEW s \in Owners
      PROVE  Elements(st3[s]) \subseteq Elements(st[s])
               \cup {x \in Records : x.ts = clock /\ x.id > Len(w)}
  <2>1. \A x \in Records : x.id > Len(w2) => x.id > Len(w)
    BY <1>1 DEF Records, Grown
  <2>2. /\ Elements(st2[s]) \subseteq Elements(st[s])
             \cup {x \in Records : x.ts = clock /\ x.id > Len(w)}
        /\ Elements(st3[s]) \subseteq Elements(st2[s])
             \cup {x \in Records : x.ts = clock /\ x.id > Len(w2)}
    BY DEF Grown
  <2> QED BY <2>1, <2>2
<1> QED BY <1>2, <1>3, <1>4, <1>5 DEF Grown

\* One record more, in the store of s.
Written(s, r) ==
    /\ s \in Owners /\ r \in Records /\ r.id = Len(wrote) + 1 /\ r.ts = clock
    /\ all \/ s = Own
    /\ \E new \in Pushed(store[s], r) :
          (s \in Sessions => new = Push(store[s], r)) /\ store' = [store EXCEPT ![s] = new]
    /\ wrote' = Append(wrote, r) /\ surface # "otel-spans" /\ NotStore

LEMMA RecordFacts ==
  ASSUME Typed, NEW s \in Owners, NEW ty \in Kinds, NEW n \in {1, 2}
  PROVE  /\ Record(s, ty, n) \in Records /\ Record(s, ty, n).id = Len(wrote) + n
         /\ Record(s, ty, n).ts = clock /\ Record(s, ty, n).type = ty
<1>1. s \in Nat
  BY ObserveAssumption DEF Owners, Global
<1>2. Len(wrote) + n \in Nat \ {0} /\ clock \in Nat
  BY DEF Typed
<1> QED BY <1>1, <1>2 DEF Record, Records

LEMMA SingleWrites ==
  ASSUME Typed, Write
  PROVE  \/ \E s \in Owners, r \in Records : Written(s, r)
         \/ \E s \in Sessions : EmitDecisionSpans(s)
<1> USE OwnFacts
<1>1. ASSUME NEW s \in Sessions, NEW ty \in Types, Emit(s, ty) \/ WriteLog(s, ty)
      PROVE  \E t \in Owners, r \in Records : Written(t, r)
  <2>1. s \in Owners /\ ty \in Kinds
    BY DEF Kinds
  <2>2. Record(s, ty, 1) \in Records /\ Record(s, ty, 1).id = Len(wrote) + 1
          /\ Record(s, ty, 1).ts = clock
    BY <2>1, RecordFacts
  <2>3. all \/ s = Own
    BY <1>1 DEF Emit, WriteLog, Matters, SessionPaged
  <2>4. /\ store' = [store EXCEPT ![s] = Push(store[s], Record(s, ty, 1))]
        /\ wrote' = Append(wrote, Record(s, ty, 1)) /\ surface # "otel-spans" /\ NotStore
    BY <1>1 DEF Emit, WriteLog
  <2>5. Written(s, Record(s, ty, 1))
    BY <2>1, <2>2, <2>3, <2>4 DEF Written, Pushed
  <2> QED BY <2>1, <2>2, <2>5
<1>2. ASSUME NEW ty \in {"row", "dispatch", "sink"}, surface \in GlobalPaged, NotStore,
             store' = [store EXCEPT ![Global] = Append(@, Record(Global, ty, 1))],
             wrote' = Append(wrote, Record(Global, ty, 1))
      PROVE  \E t \in Owners, r \in Records : Written(t, r)
  <2>1. Global \in Owners /\ ty \in Kinds /\ surface # "otel-spans"
    BY <1>2 DEF Kinds, Owners, GlobalPaged
  <2>2. Record(Global, ty, 1) \in Records /\ Record(Global, ty, 1).id = Len(wrote) + 1
          /\ Record(Global, ty, 1).ts = clock
    BY <2>1, RecordFacts
  <2>3. Written(Global, Record(Global, ty, 1))
    BY <1>2, <2>1, <2>2 DEF Written, Pushed
  <2> QED BY <2>1, <2>2, <2>3
<1>3. CASE ChainAppend
  BY <1>2, <1>3 DEF ChainAppend, GlobalPaged
<1>4. CASE SinkEvent
  BY <1>2, <1>4 DEF SinkEvent, GlobalPaged
<1> QED BY <1>1, <1>3, <1>4 DEF Write

LEMMA WriteEffect ==
  ASSUME Inv, Write
  PROVE  /\ NotStore /\ store' \in [Owners -> Seq(Records)] /\ wrote' \in Seq(Records)
         /\ Stamped(wrote') /\ Held(store', wrote') /\ Grown(store, wrote, store', wrote')
         /\ Paired(store', wrote')
<1>0. Typed /\ Stamped(wrote) /\ Held(store, wrote) /\ Paired(store, wrote)
      /\ store \in [Owners -> Seq(Records)] /\ wrote \in Seq(Records)
  BY DEF Inv, Typed
<1>1. ASSUME NEW s \in Owners, NEW r \in Records, Written(s, r)
      PROVE  /\ NotStore /\ store' \in [Owners -> Seq(Records)] /\ wrote' \in Seq(Records)
             /\ Stamped(wrote') /\ Held(store', wrote') /\ Grown(store, wrote, store', wrote')
             /\ Paired(store', wrote')
  <2>1. PICK new \in Pushed(store[s], r) :
          (s \in Sessions => new = Push(store[s], r)) /\ store' = [store EXCEPT ![s] = new]
    BY <1>1 DEF Written
  <2>2. /\ r.id = Len(wrote) + 1 /\ r.ts = clock /\ (all \/ s = Own)
        /\ wrote' = Append(wrote, r) /\ surface # "otel-spans" /\ NotStore
    BY <1>1 DEF Written
  <2>3. /\ store' \in [Owners -> Seq(Records)] /\ wrote' \in Seq(Records)
        /\ Stamped(wrote') /\ Held(store', wrote') /\ Grown(store, wrote, store', wrote')
    BY <1>0, <2>1, <2>2, PushStep
  <2> QED BY <2>2, <2>3 DEF Paired
<1>2. ASSUME NEW s \in Sessions, EmitDecisionSpans(s)
      PROVE  /\ NotStore /\ store' \in [Owners -> Seq(Records)] /\ wrote' \in Seq(Records)
             /\ Stamped(wrote') /\ Held(store', wrote') /\ Grown(store, wrote, store', wrote')
             /\ Paired(store', wrote')
  <2>1. PICK turn, tool : turn = Record(s, "turn", 1) /\ tool = Record(s, "tool", 2)
    OBVIOUS
  <2>2. s \in Owners /\ surface = "otel-spans" /\ (all \/ s = Own) /\ ~all /\ s = Own
    BY <1>0, <1>2, OwnFacts DEF EmitDecisionSpans, Matters, SessionPaged, Typed
  <2>3. /\ turn \in Records /\ turn.id = Len(wrote) + 1 /\ turn.ts = clock /\ turn.type = "turn"
        /\ tool \in Records /\ tool.id = Len(wrote) + 2 /\ tool.ts = clock /\ tool.type = "tool"
    BY <1>0, <2>1, <2>2, RecordFacts DEF Kinds
  <2> DEFINE v1 == Push(store[s], turn)
             v2 == Push(v1, tool)
             st1 == [store EXCEPT ![s] = v1]
             st2 == [st1 EXCEPT ![s] = v2]
             w1 == Append(wrote, turn)
             w2 == Append(w1, tool)
  <2>4. /\ st1 \in [Owners -> Seq(Records)] /\ w1 \in Seq(Records)
        /\ Stamped(w1) /\ Held(st1, w1) /\ Grown(store, wrote, st1, w1)
    <3>1. v1 \in Pushed(store[s], turn)
      BY DEF Pushed
    <3> QED BY <1>0, <2>2, <2>3, <3>1, PushStep
  <2>5. st1[s] = v1 /\ v1 \in Seq(Records) /\ Len(w1) = Len(wrote) + 1
    BY <1>0, <2>2, <2>3, <2>4, AppendProperties
  <2>6. /\ st2 \in [Owners -> Seq(Records)] /\ w2 \in Seq(Records)
        /\ Stamped(w2) /\ Held(st2, w2) /\ Grown(st1, w1, st2, w2)
    <3>1. v2 \in Pushed(st1[s], tool) /\ v2 = Push(st1[s], tool)
      BY <2>5 DEF Pushed
    <3>2. tool.id = Len(w1) + 1
      BY <1>0, <2>3, <2>5
    <3> HIDE DEF st1, w1, v2
    <3> QED BY <1>0, <2>2, <2>3, <2>4, <3>1, <3>2, PushStep
  <2>7. Grown(store, wrote, st2, w2)
    <3> HIDE DEF st1, w1, st2, w2
    <3> QED BY <1>0, <2>4, <2>6, GrownTwice
  <2>8. store' = st2 /\ wrote' = w2 /\ NotStore
    <3>1. st2 = [store EXCEPT ![s] = Push(Push(store[s], turn), tool)]
      BY <1>0, <2>2
    <3>2. w2 = wrote \o <<turn, tool>>
      BY <1>0, <2>3
    <3> QED BY <1>2, <2>1, <3>1, <3>2 DEF EmitDecisionSpans
  <2>9. Paired(st2, w2)
    <3>1. Cap \in Nat \ {0} /\ Own \in Owners /\ Own \in Sessions /\ store[s] \in Seq(Records)
      BY <1>0, <2>2, OwnFacts DEF SessionPaged
    <3>2. /\ Len(store[s]) \in Nat /\ Len(wrote) \in Nat /\ Len(store[s]) <= Cap
          /\ Len(wrote) % 2 = 0 /\ (Len(store[s]) = Len(wrote) \/ Len(store[s]) = Cap)
      BY <1>0, <2>2, <3>1 DEF Held, Paired
    <3>3. \A i \in 1..Len(wrote) : wrote[i].type = IF i % 2 = 0 THEN "tool" ELSE "turn"
      <4>1. \A i \in DOMAIN wrote : wrote[i].type = IF i % 2 = 0 THEN "tool" ELSE "turn"
        BY <1>0, <2>2, Zenon DEF Paired
      <4>2. DOMAIN wrote = 1..Len(wrote)
        BY <1>0
      <4> QED BY <4>1, <4>2, Zenon
    <3>4. /\ Len(v1) \in Nat /\ (Len(v1) = Len(store[s]) + 1 \/ (Len(v1) = Len(store[s]) /\ Len(store[s]) >= Cap))
          /\ (Len(store[s]) <= Cap => Len(v1) <= Cap)
      BY <2>3, <3>1, PushIs DEF Pushed
    <3>5. /\ Len(v2) \in Nat /\ (Len(v2) = Len(v1) + 1 \/ (Len(v2) = Len(v1) /\ Len(v1) >= Cap))
          /\ (Len(v1) <= Cap => Len(v2) <= Cap)
      <4> HIDE DEF v1
      <4> QED BY <2>3, <2>5, <3>1, PushIs DEF Pushed
    <3>6. /\ DOMAIN w2 = 1..(Len(wrote) + 2) /\ w2[Len(wrote) + 1] = turn /\ w2[Len(wrote) + 2] = tool
          /\ \A i \in 1..Len(wrote) : w2[i] = wrote[i]
      BY <1>0, <2>3, <3>2
    <3>7. st2[Own] = v2 /\ Len(w2) = Len(wrote) + 2
      BY <1>0, <2>2, <2>3
    <3> HIDE DEF v1, v2, w2, st2
    <3>8. Len(v2) = Len(wrote) + 2 \/ Len(v2) = Cap
      BY <3>1, <3>2, <3>4, <3>5
    <3>9. ASSUME NEW i \in 1..(Len(wrote) + 2)
          PROVE  w2[i].type = IF i % 2 = 0 THEN "tool" ELSE "turn"
      <4>1. CASE i = Len(wrote) + 1
        <5>1. i % 2 = 1
          BY <3>2, <4>1
        <5> QED BY <2>3, <3>6, <4>1, <5>1
      <4>2. CASE i = Len(wrote) + 2
        <5>1. i % 2 = 0
          BY <3>2, <4>2
        <5> QED BY <2>3, <3>6, <4>2, <5>1
      <4>3. CASE i \in 1..Len(wrote)
        BY <3>3, <3>6, <4>3
      <4> QED BY <3>2, <4>1, <4>2, <4>3
    <3>10. (Len(wrote) + 2) % 2 = 0
      BY <3>2
    <3> QED BY <3>6, <3>7, <3>8, <3>9, <3>10 DEF Paired
  <2> HIDE DEF st2, w2
  <2> QED BY <2>6, <2>7, <2>8, <2>9
<1> QED BY <1>0, <1>1, <1>2, SingleWrites

-----------------------------------------------------------------------------
(* Steps that keep the invariant.                                          *)

\* What the client was given, and the stores, are as they were.
Same ==
    /\ UNCHANGED <<client, store, wrote, place>>
    /\ clock' \in Nat /\ clock <= clock'

LEMMA SameRecords ==
  ASSUME Inv, Same
  PROVE  /\ Stamped(wrote)' /\ Held(store, wrote)' /\ Paired(store, wrote)'
         /\ Followed' /\ Whole' /\ Loosely' /\ TiesMissed'
<1> USE DEF Same, client, place
<1>1. Stamped(wrote)'
  <2>1. wrote \in Seq(Records) /\ clock \in Nat /\ Stamped(wrote)
    BY DEF Inv, Typed
  <2>2. \A i \in DOMAIN wrote : wrote[i].ts \in Nat
    <3>1. \A i \in DOMAIN wrote : wrote[i] \in Records
      BY <2>1
    <3> QED BY <3>1 DEF Records
  <2> QED BY <2>1, <2>2 DEF Stamped
<1>2. Held(store, wrote)' /\ Paired(store, wrote)'
  BY DEF Inv, Held, Paired, From, Suffix, Own
<1>3. Followed'
  BY DEF Inv, Followed, From, InOrder, Ordered, Before
<1>4. Whole'
  BY DEF Inv, Whole, Stretch
<1>6. Loosely'
  BY DEF Inv, Loosely, Stretch, HasId
<1>5. TiesMissed'
  <2>1. Retained' = Retained /\ Given' = Given
    BY DEF Retained, Given
  <2> QED BY <2>1 DEF Inv, TiesMissed, Wanted, OfType, Before
<1> QED BY <1>1, <1>2, <1>3, <1>4, <1>5, <1>6

LEMMA SameLimits ==
  ASSUME Inv, UNCHANGED <<client, window, wait>>
  PROVE  Limiting'
BY DEF Inv, Limiting, PerMinute, client


LEMMA WriteInv == Inv /\ Write => Inv'
<1> SUFFICES ASSUME Inv, Write PROVE Inv'
  OBVIOUS
<1>0. Typed /\ store \in [Owners -> Seq(Records)] /\ wrote \in Seq(Records) /\ seen \in Seq(Records)
        /\ loose \in Seq(Records)
  BY DEF Inv, Typed
<1>1. /\ NotStore /\ store' \in [Owners -> Seq(Records)] /\ wrote' \in Seq(Records)
      /\ Stamped(wrote') /\ Held(store', wrote') /\ Grown(store, wrote, store', wrote')
      /\ Paired(store', wrote')
  BY WriteEffect
<1> USE DEF NotStore, client, poll
<1>2. Typed'
  BY <1>0, <1>1 DEF Typed
<1>3. Stamped(wrote)' /\ Held(store, wrote)' /\ Paired(store, wrote)'
  BY <1>1 DEF Stamped, Held, Paired, From, Suffix, Own
<1>4. Limiting'
  BY <1>1, SameLimits
<1>5. Followed'
  <2>1. From(seen, wrote')
    BY <1>0, <1>1 DEF Inv, Followed, Grown
  <2>2. anchor # None => anchor \in DOMAIN wrote' /\ seen[Len(seen)] = wrote'[anchor]
    BY <1>1 DEF Inv, Followed, Grown
  <2>3. all => InOrder(seen, Ordered)
    BY DEF Inv, Followed
  <2> QED BY <1>1, <2>1, <2>2, <2>3 DEF Inv, Followed, From, InOrder, Ordered, Before
<1>6. Whole'
  <2> SUFFICES ASSUME ~all, seen # <<>> PROVE Stretch(seen, Kept(wrote', filter))
    BY <1>1 DEF Whole, Stretch
  <2>1. Stretch(seen, Kept(wrote, filter))
    BY DEF Inv, Whole
  <2> QED BY <1>0, <1>1, <2>1 DEF Grown
<1>8. Loosely'
  <2>1. seen \o loose \in Seq(Records)
    BY <1>0, ConcatProperties
  <2>2. \A q \in Seq(Records) : Stretch(q, Kept(wrote, filter)) => Stretch(q, Kept(wrote', filter))
    BY <1>1 DEF Grown
  <2>3. loose # <<>> => Stretch(seen \o loose, Kept(wrote', filter))
    BY <2>1, <2>2 DEF Inv, Loosely
  <2> QED BY <1>1, <2>3 DEF Inv, Loosely, HasId, Stretch
<1>7. TiesMissed'
  <2> SUFFICES ASSUME all, anchor # None, NEW r \in Retained', r \notin Given, Wanted(r),
                 Before(r, wrote'[anchor])
               PROVE  \E g \in Given : g.ts = r.ts /\ r.sess < g.sess
    BY <1>1 DEF TiesMissed, Given, Wanted, OfType, Before
  <2> DEFINE a == wrote[anchor]
  <2>1. anchor \in DOMAIN wrote /\ wrote'[anchor] = a /\ a \in Records /\ seen[Len(seen)] = a
          /\ seen # <<>>
    BY <1>0, <1>1 DEF Inv, Followed, Grown
  <2>2. a \in Given
    BY <1>0, <2>1 DEF Given
  <2>3. PICK s \in Owners : r \in Elements(store'[s])
    BY DEF Retained, Elements
  <2>4. r \in Elements(store[s]) \cup {x \in Records : x.ts = clock /\ x.id > Len(wrote)}
    BY <1>1, <2>3 DEF Grown
  <2>5. CASE r \in Elements(store[s])
    <3>1. r \in Retained
      BY <2>5 DEF Retained, Elements
    <3> QED BY <2>1, <3>1 DEF Inv, TiesMissed
  <2>6. CASE r \in Records /\ r.ts = clock /\ r.id > Len(wrote)
    <3>1. a.id = anchor /\ a.ts <= clock /\ anchor \in 1..Len(wrote)
      BY <1>0, <2>1 DEF Inv, Stamped
    <3>2. a.id \in Nat /\ a.sess \in Nat /\ a.ts \in Nat /\ r.id \in Nat /\ r.sess \in Nat
            /\ clock \in Nat
      BY <1>0, <2>1, <2>6 DEF Typed, Records
    <3>3. Len(wrote) \in Nat
      BY <1>0
    <3>4. a.ts = r.ts /\ r.sess < a.sess
      BY <2>1, <2>6, <3>1, <3>2, <3>3 DEF Before
    <3> QED BY <2>2, <3>4
  <2> QED BY <2>4, <2>5, <2>6
<1> QED BY <1>2, <1>3, <1>4, <1>5, <1>6, <1>7, <1>8 DEF Inv

LEMMA AsideInv ==
  ASSUME Inv, \/ MintToken \/ Boots \/ ReadinessFalls \/ (\E s \in Sessions : EndSession(s))
              \/ Send \/ ReaderScopeGuard
  PROVE  Inv'
<1>1. Typed
  BY DEF Inv
<1>2. /\ UNCHANGED <<client, store, clock, wrote, place, window, wait>>
      /\ ready' \in BOOLEAN /\ live' \subseteq Sessions /\ life' \in 0..Ttl
      /\ call' \in {"idle", "sent", "inside"} /\ code' \in Codes
  <2> USE <1>1 DEF Typed, client, poll, place, Codes
  <2>1. CASE MintToken
    BY <2>1, ObserveAssumption DEF MintToken
  <2>2. CASE Boots
    BY <2>2 DEF Boots
  <2>6. CASE ReadinessFalls
    BY <2>6 DEF ReadinessFalls
  <2>3. CASE \E s \in Sessions : EndSession(s)
    BY <2>3 DEF EndSession
  <2>4. CASE Send
    BY <2>4 DEF Send, Untouched
  <2>5. CASE ReaderScopeGuard
    BY <2>5 DEF ReaderScopeGuard, Refuse, Untouched
  <2> QED BY <2>1, <2>2, <2>3, <2>4, <2>5, <2>6
<1>3. Typed'
  BY <1>1, <1>2 DEF Typed, client, place
<1>4. Same
  BY <1>1, <1>2 DEF Same, Typed
<1> QED BY <1>2, <1>3, <1>4, SameRecords, SameLimits DEF Inv

\* The limiter drops the ages that left the window, which come first.
LEMMA FreshFacts ==
  ASSUME NEW ages \in Seq(Nat), \A i, j \in DOMAIN ages : i <= j => ages[j] <= ages[i]
  PROVE  \E c \in 0..Len(ages) :
            /\ Fresh(ages) = SubSeq(ages, c + 1, Len(ages))
            /\ \A i \in c + 1..Len(ages) : ages[i] < Window
<1> PICK n \in Nat : n = Len(ages)
  OBVIOUS
<1> DEFINE D == {i \in 1..n : ages[i] >= Window}
<1>0. DOMAIN ages = 1..n /\ Window \in Nat /\ \A i \in 1..n : ages[i] \in Nat
  BY ObserveAssumption
<1>1. PICK c \in 0..n : D = 1..c
  <2>1. CASE D = 1..n
    BY <2>1
  <2>2. CASE D # 1..n
    <3>1. PICK j \in 1..n \ D : \A m \in 1..n \ D : ~(<<m, j>> \in OpToRel(<, Nat))
      <4>1. 1..n \ D # {} /\ 1..n \ D \subseteq Nat
        BY <2>2
      <4> HIDE DEF D
      <4> QED BY <4>1, NatLessThanWellFounded, WFMin
    <3>2. \A m \in 1..n \ D : ~(m < j)
      <4>1. \A a, b \in Nat : a < b => <<a, b>> \in OpToRel(<, Nat)
        BY DEF OpToRel
      <4>2. 1..n \subseteq Nat
        OBVIOUS
      <4> HIDE DEF D
      <4> QED BY <3>1, <4>1, <4>2
    <3>3. \A i \in 1..n : j <= i => ages[i] < Window
      <4>1. ages[j] < Window /\ ages[j] \in Nat /\ j \in 1..n
        <5>1. ~(ages[j] >= Window) /\ ages[j] \in Nat /\ j \in 1..n
          BY <1>0, <3>1
        <5> QED BY <1>0, <5>1
      <4>2. \A i \in 1..n : j <= i => ages[i] <= ages[j] /\ ages[i] \in Nat
        BY <1>0, <4>1
      <4> HIDE DEF D
      <4> QED BY ONLY <1>0, <4>1, <4>2
    <3>4. \A i \in D : i \in 1..j - 1
      BY <1>0, <3>3
    <3>5. \A i \in 1..j - 1 : i \in D
      <4> HIDE DEF D
      <4>1. j \in 1..n
        BY <3>1
      <4>2. \A i \in 1..j - 1 : i \in 1..n /\ i < j
        BY <4>1
      <4> QED BY <3>2, <4>2
    <3>6. j - 1 \in 0..n
      OBVIOUS
    <3> HIDE DEF D
    <3> QED BY <3>4, <3>5, <3>6
  <2> QED BY <2>1, <2>2
<1>2. Cardinality(D) = c
  <2> HIDE DEF D
  <2>1. 1 \in Int /\ c \in Int
    OBVIOUS
  <2>2. Cardinality(1..c) = IF 1 > c THEN 0 ELSE c - 1 + 1
    BY <2>1, FS_Interval
  <2> QED BY <1>1, <2>2
<1>3. {i \in DOMAIN ages : ages[i] >= Window} = D
  BY <1>0
<1>4. Fresh(ages) = SubSeq(ages, c + 1, n)
  <2>1. 1 + c = c + 1
    OBVIOUS
  <2> HIDE DEF D
  <2> QED BY <1>2, <1>3, <2>1 DEF Fresh
<1>5. \A i \in c + 1..n : ages[i] < Window
  BY <1>0, <1>1
<1> QED BY <1>4, <1>5

LEMMA TickInv ==
  ASSUME Inv, Tick
  PROVE  Inv'
<1>0. Typed /\ clock \in Nat /\ window \in Seq(Nat) /\ PerMinute \in Nat \ {0} /\ None \notin Nat
      /\ wait \in Nat \cup {None} /\ Window \in Nat
  BY OwnFacts, ObserveAssumption DEF Inv, Typed
<1>1. Same
  BY <1>0, ObserveAssumption DEF Tick, Same
<1> PICK n \in Nat : n = Len(window)
  BY <1>0
<1> DEFINE aged == [i \in DOMAIN window |-> window[i] + 1]
<1>2. aged \in Seq(Nat) /\ Len(aged) = n /\ DOMAIN aged = 1..n
        /\ \A i \in 1..n : aged[i] = window[i] + 1
  BY <1>0
<1>3. /\ n <= PerMinute /\ \A i \in 1..n : window[i] \in Nat
      /\ \A i, j \in 1..n : i <= j => window[j] <= window[i]
      /\ wait # None /\ n >= PerMinute => wait >= Window - window[1]
  BY <1>0 DEF Inv, Limiting
<1>4. \A i, j \in DOMAIN aged : i <= j => aged[j] <= aged[i]
  BY <1>2, <1>3
<1>5. window' = Fresh(aged)
  BY DEF Tick
<1> HIDE DEF aged
<1>6. PICK c \in 0..n : window' = SubSeq(aged, c + 1, n) /\ \A i \in c + 1..n : aged[i] < Window
  BY <1>2, <1>4, <1>5, FreshFacts
<1>7. window' \in Seq(Nat) /\ Len(window') = n - c /\ \A i \in 1..n - c : window'[i] = aged[c + i]
  <2>1. \A i \in c + 1..n : aged[i] \in Nat
    BY <1>2, <1>3
  <2>2. c + 1 \in Int /\ n \in Int /\ n - (c + 1) + 1 = n - c
    OBVIOUS
  <2>3. /\ SubSeq(aged, c + 1, n) \in Seq(Nat)
        /\ Len(SubSeq(aged, c + 1, n)) = IF c + 1 <= n THEN n - (c + 1) + 1 ELSE 0
        /\ \A i \in 1..n - (c + 1) + 1 : SubSeq(aged, c + 1, n)[i] = aged[(c + 1) + i - 1]
    BY <2>1, <2>2, SubSeqProperties
  <2>4. \A i \in 1..n - c : (c + 1) + i - 1 = c + i
    OBVIOUS
  <2> QED BY <1>6, <2>2, <2>3, <2>4
<1>8. \A i \in 1..n - c : c + i \in 1..n /\ c + i \in c + 1..n /\ window'[i] = window[c + i] + 1
  BY <1>2, <1>7
<1>9. wait' \in Nat \cup {None} /\ (wait' # None => wait # None /\ wait' >= wait - 1)
        /\ life' \in 0..Ttl
  <2>1. life \in 0..Ttl /\ Ttl \in Nat
    BY <1>0, ObserveAssumption DEF Typed
  <2> QED BY <1>0, <2>1 DEF Tick, CountDown
<1>10. Limiting'
  <2>1. PerMinute' = PerMinute
    BY DEF Tick, client, PerMinute
  <2>2. DOMAIN window' = 1..n - c
    BY <1>7
  <2>3. Len(window') <= PerMinute
    BY <1>0, <1>3, <1>7
  <2>4. ASSUME NEW i \in 1..n - c PROVE window'[i] \in 0..Window - 1
    <3>1. c + i \in 1..n /\ c + i \in c + 1..n /\ window'[i] = window[c + i] + 1
      BY <1>8
    <3>2. window'[i] < Window
      BY <1>2, <1>6, <3>1
    <3>3. window[c + i] \in Nat
      BY <1>3, <3>1
    <3> QED BY <1>0, <3>1, <3>2, <3>3
  <2>5. ASSUME NEW i \in 1..n - c, NEW j \in 1..n - c, i <= j PROVE window'[j] <= window'[i]
    <3>1. c + i \in 1..n /\ c + j \in 1..n /\ c + i <= c + j
      BY <2>5
    <3>2. window[c + j] <= window[c + i] /\ window[c + i] \in Nat /\ window[c + j] \in Nat
      BY <1>3, <3>1
    <3>3. window'[i] = window[c + i] + 1 /\ window'[j] = window[c + j] + 1
      BY <1>8
    <3> QED BY <3>2, <3>3
  <2>6. ASSUME wait' # None, Len(window') >= PerMinute PROVE wait' >= Window - window'[1]
    <3>1. c = 0 /\ n >= PerMinute /\ 1 \in 1..n
      BY <1>0, <1>3, <1>7, <2>6
    <3>2. window'[1] = window[1] + 1 /\ window[1] \in Nat
      BY <1>3, <1>8, <3>1
    <3>3. wait \in Nat /\ wait' \in Nat /\ wait' >= wait - 1 /\ wait >= Window - window[1]
      BY <1>0, <1>3, <1>9, <2>6, <3>1
    <3> QED BY <1>0, <3>2, <3>3
  <2> QED BY <2>1, <2>2, <2>3, <2>4, <2>5, <2>6 DEF Limiting
<1>11. Typed'
  BY <1>0, <1>1, <1>7, <1>9 DEF Typed, Tick, client, place, Same
<1> QED BY <1>1, <1>10, <1>11, SameRecords DEF Inv

-----------------------------------------------------------------------------
(* Answers.                                                                *)

Entitled ==
    /\ who # "none"
    /\ who = "reader" => life > 0 /\ surface \in ReaderAllowed
    /\ surface \in SessionPaged \cup SessionStatus =>
          (who = "owner" /\ Target \in live) \/ (who = "operator" /\ surface = "events")
    /\ who \in {"owner", "stranger"} => AnySession

Answer ==
    \/ \E n \in {401, 403, 503} : Refuse(n)
    \/ Limited
    \/ \E n \in {403, 404, 500} : Deny(n)
    \/ Page /\ surface \in Paged /\ Entitled
    \/ Status /\ Entitled

LEMMA ServeAnswers ==
  ASSUME Serve
  PROVE  Untouched /\ call = "inside" /\ Answer
<1> USE DEF Enter, Unready, NoBearer, Admitted, Validated
<1>1. CASE EventsRecent
  <2>1. surface = "events" /\ surface \in Paged /\ surface \notin SessionStatus
    BY <1>1 DEF EventsRecent, Paged, SessionPaged, SessionStatus
  <2>2. CASE who # "operator"
    <3>1. Enter("events") /\ OfSession(Page)
      BY <1>1, <2>2 DEF EventsRecent
    <3>2. ASSUME who = "owner", Target \in live PROVE Entitled
      BY <3>2 DEF Entitled, AnySession
    <3> HIDE DEF Page
    <3> QED BY <2>1, <3>1, <3>2 DEF OfSession, Answer
  <2>3. CASE who = "operator"
    <3>1. Entitled
      BY <2>1, <2>3 DEF Entitled
    <3>2. Enter("events") /\ OfRunner(TRUE, Page)
      BY <1>1, <2>3 DEF EventsRecent
    <3> QED BY <2>1, <3>1, <3>2 DEF OfRunner, Answer
  <2> QED BY <2>2, <2>3
<1>2. CASE SystemLogRecent \/ OtelSpansRecent
  BY <1>2 DEF SystemLogRecent, OtelSpansRecent, OfSession, Answer, Entitled, AnySession, Paged,
       SessionPaged
<1>3. CASE BudgetProjection \/ MemoryState
  BY <1>3 DEF BudgetProjection, MemoryState, OfSession, Answer, Entitled, AnySession
<1>4. CASE AuditRecords
  BY <1>4 DEF AuditRecords, OfRunner, Answer, Entitled, AnySession, ReaderValid, ReaderAllowed,
              Paged, SessionPaged, GlobalPaged, SessionStatus
<1>5. CASE AuditSinkEvents
  BY <1>5 DEF AuditSinkEvents, OfRunner, Answer, Entitled, AnySession,
              Paged, SessionPaged, GlobalPaged, SessionStatus
<1>6. CASE AuditTail
  BY <1>6 DEF AuditTail, OfRunner, Answer, Entitled, AnySession, ReaderValid, ReaderAllowed,
              SessionPaged, SessionStatus
<1>7. CASE BackpressureStatus \/ ToolsRegistered \/ KeyStorage
  BY <1>7 DEF BackpressureStatus, ToolsRegistered, KeyStorage, OfRunner, Answer, Entitled, AnySession,
              SessionPaged, SessionStatus
<1> QED BY <1>1, <1>2, <1>3, <1>4, <1>5, <1>6, <1>7 DEF Serve

LEMMA RoundUp ==
  ASSUME NEW w \in Nat, NEW age \in 0..w - 1, NEW s \in Nat \ {0}
  PROVE  /\ s * ((w - age + s - 1) \div s) \in Nat
         /\ s * ((w - age + s - 1) \div s) >= w - age
OBVIOUS

\* What a request that is admitted does to the limiter,
LEMMA ConsumeLimits ==
  ASSUME Inv, UNCHANGED client, Consume
  PROVE  Limiting' /\ window' \in Seq(Nat) /\ wait' = None
<1>0. window \in Seq(Nat) /\ PerMinute \in Nat \ {0} /\ Window \in Nat \ {0}
  BY OwnFacts, ObserveAssumption DEF Inv, Typed
<1> PICK n \in Nat : n = Len(window)
  BY <1>0
<1>1. /\ window' \in Seq(Nat) /\ Len(window') = n + 1 /\ DOMAIN window' = 1..(n + 1)
      /\ window'[n + 1] = 0 /\ \A i \in 1..n : window'[i] = window[i]
  BY <1>0, AppendIs DEF Consume
<1>2. /\ n < PerMinute /\ \A i \in 1..n : window[i] \in 0..Window - 1
      /\ \A i, j \in 1..n : i <= j => window[j] <= window[i]
  <2>1. Limiting
    BY DEF Inv
  <2>2. DOMAIN window = 1..n /\ n < PerMinute
    BY <1>0 DEF Consume
  <2> QED BY <2>1, <2>2 DEF Limiting
<1>3. ASSUME NEW i \in 1..(n + 1) PROVE window'[i] \in 0..Window - 1
  <2>1. i = n + 1 \/ i \in 1..n
    OBVIOUS
  <2> QED BY <1>0, <1>1, <1>2, <2>1
<1>4. ASSUME NEW i \in 1..(n + 1), NEW j \in 1..(n + 1), i <= j PROVE window'[j] <= window'[i]
  <2>1. j = n + 1 \/ (i \in 1..n /\ j \in 1..n)
    BY <1>4
  <2>2. window'[i] \in 0..Window - 1
    BY <1>3
  <2> QED BY <1>0, <1>1, <1>2, <1>4, <2>1, <2>2
<1>5. PerMinute' = PerMinute /\ n + 1 <= PerMinute /\ wait' = None
  BY <1>0, <1>2 DEF client, PerMinute, Consume
<1> QED BY <1>1, <1>3, <1>4, <1>5 DEF Limiting

\* and one that is refused: the client is told to wait until the oldest is out.
LEMMA LimitedLimits ==
  ASSUME Inv, UNCHANGED client, Limited
  PROVE  Limiting' /\ wait' \in Nat
<1>0. window \in Seq(Nat) /\ PerMinute \in Nat \ {0} /\ Window \in Nat \ {0} /\ Second \in Nat \ {0}
  BY OwnFacts, ObserveAssumption DEF Inv, Typed
<1>1. 1 \in DOMAIN window /\ window[1] \in 0..Window - 1
  <2>1. Len(window) \in Nat /\ Len(window) >= 1 /\ DOMAIN window = 1..Len(window)
    BY <1>0 DEF Limited
  <2> QED BY <2>1 DEF Inv, Limiting
<1>2. wait' = Second * ((Window - window[1] + Second - 1) \div Second)
  BY DEF Limited, RetryAfter
<1>3. wait' \in Nat /\ wait' >= Window - window[1]
  BY <1>0, <1>1, <1>2, RoundUp
<1>4. PerMinute' = PerMinute /\ window' = window
  BY DEF client, PerMinute, Limited
<1> QED BY <1>3, <1>4 DEF Inv, Limiting

-----------------------------------------------------------------------------
(* Pages.                                                                  *)

LEMMA RetainedFacts ==
  ASSUME Typed, Held(store, wrote)
  PROVE  /\ Retained \subseteq Records /\ IsFiniteSet(Retained)
         /\ \A r \in Retained : r.id \in DOMAIN wrote /\ wrote[r.id] = r
         /\ \A s \in Owners : Elements(store[s]) \subseteq Retained
<1>0. store \in [Owners -> Seq(Records)] /\ wrote \in Seq(Records)
  BY DEF Typed
<1>1. ASSUME NEW r \in Retained PROVE r \in Records /\ r.id \in DOMAIN wrote /\ wrote[r.id] = r
  <2>1. PICK s \in Owners : \E i \in DOMAIN store[s] : r = store[s][i]
    BY DEF Retained
  <2>2. store[s] \in Seq(Records) /\ From(store[s], wrote)
    BY <1>0 DEF Held
  <2> QED BY <2>1, <2>2 DEF From
<1>2. IsFiniteSet(Retained)
  <2> DEFINE num == [r \in Retained |-> r.id]
  <2>1. num \in [Retained -> 1..Len(wrote)]
    BY <1>0, <1>1
  <2>2. \A q, r \in Retained : num[q] = num[r] => q = r
    <3> SUFFICES ASSUME NEW q \in Retained, NEW r \in Retained, q.id = r.id PROVE q = r
      OBVIOUS
    <3> QED BY <1>1
  <2>3. num \in Injection(Retained, 1..Len(wrote))
    BY <2>1, <2>2 DEF Injection, IsInjective
  <2>4. IsFiniteSet(1..Len(wrote))
    <3>1. 1 \in Int /\ Len(wrote) \in Int
      BY <1>0
    <3> QED BY <3>1, FS_Interval
  <2> HIDE DEF num
  <2> QED BY <2>3, <2>4, FS_Injection
<1>3. \A s \in Owners : Elements(store[s]) \subseteq Retained
  BY DEF Elements, Retained
<1> QED BY <1>1, <1>2, <1>3

\* The merged list holds what is retained, in the order of the endpoint.
LEMMA MergedFacts ==
  ASSUME Typed, Held(store, wrote)
  PROVE  Merged \in Seq(Records) /\ Elements(Merged) = Retained /\ InOrder(Merged, Ordered)
<1>1. /\ Retained \subseteq Records /\ IsFiniteSet(Retained)
      /\ \A r \in Retained : r.id \in DOMAIN wrote /\ wrote[r.id] = r
  BY RetainedFacts
<1>2. \A r \in Records : r.id \in Nat /\ r.sess \in Nat /\ r.ts \in Nat
  BY DEF Records
<1>3. \A q, r \in Records : <<q, r>> \in Ordered <=> Before(q, r)
  BY DEF Ordered
<1>4. \A r \in Retained : <<r, r>> \notin Ordered
  BY <1>1, <1>2, <1>3 DEF Before
<1>5. ASSUME NEW p \in Retained, NEW q \in Retained, NEW r \in Retained,
             <<p, q>> \in Ordered, <<q, r>> \in Ordered
      PROVE  <<p, r>> \in Ordered
  <2>1. Before(p, q) /\ Before(q, r) /\ p \in Records /\ q \in Records /\ r \in Records
    BY <1>1, <1>3, <1>5
  <2>2. Before(p, r)
    BY <1>2, <2>1 DEF Before
  <2> QED BY <1>3, <2>1, <2>2
<1>6. ASSUME NEW q \in Retained, NEW r \in Retained, q # r
      PROVE  <<q, r>> \in Ordered \/ <<r, q>> \in Ordered
  <2>1. q.id # r.id
    BY <1>1, <1>6
  <2>2. Before(q, r) \/ Before(r, q)
    BY <1>1, <1>2, <2>1 DEF Before
  <2> QED BY <1>1, <1>3, <2>2
<1>7. ASSUME NEW r \in Retained
      PROVE  {q \in Retained : Before(q, r)} = Under(Retained, Ordered, r)
  BY <1>1, <1>3 DEF Under
<1> DEFINE pick(n) == CHOOSE r \in Retained : Cardinality({q \in Retained : Before(q, r)}) = n - 1
<1>8. ASSUME NEW n, \E r \in Retained : Cardinality(Under(Retained, Ordered, r)) = n - 1
      PROVE  pick(n) \in Retained /\ Cardinality(Under(Retained, Ordered, pick(n))) = n - 1
  <2>1. \E r \in Retained : Cardinality({q \in Retained : Before(q, r)}) = n - 1
    BY <1>7, <1>8
  <2>2. pick(n) \in Retained /\ Cardinality({q \in Retained : Before(q, pick(n))}) = n - 1
    BY <2>1
  <2> HIDE DEF pick
  <2> QED BY <1>7, <2>2
<1>9. Merged = [n \in 1..Cardinality(Retained) |-> pick(n)]
  BY DEF Merged
<1> HIDE DEF pick
<1> PICK S : S = Retained
  OBVIOUS
<1>10. Merged \in Seq(S) /\ Elements(Merged) = S /\ InOrder(Merged, Ordered)
  <2> PICK list, R : list = Merged /\ R = Ordered
    OBVIOUS
  <2> PICK N \in Nat : N = Cardinality(S)
    BY <1>1, FS_CardinalityType
  <2>0. list = [n \in 1..N |-> pick(n)]
    BY <1>9
  <2> DEFINE X == {pick(n) : n \in 1..N}
  <2>1. list \in Seq(X) /\ Len(list) = Cardinality(S) /\ \A n \in 1..Cardinality(S) : list[n] = pick(n)
    <3>1. list \in [1..N -> X]
      BY <2>0
    <3>2. \A n \in 1..N : list[n] = pick(n)
      BY <2>0
    <3> HIDE DEF X
    <3>3. list \in Seq(X) /\ Len(list) = N
      BY <3>1
    <3> QED BY <3>2, <3>3
  <2> HIDE DEF X
  <2>6. \A n \in 1..Cardinality(S) :
           (\E i \in S : Cardinality(Under(S, R, i)) = n - 1) =>
              list[n] \in S /\ Cardinality(Under(S, R, list[n])) = n - 1
    BY <1>8, <2>1
  <2>2. IsFiniteSet(S) /\ \A i \in S : <<i, i>> \notin R
    BY <1>1, <1>4
  <2>3. \A i, j, k \in S : <<i, j>> \in R /\ <<j, k>> \in R => <<i, k>> \in R
    BY <1>5
  <2>4. \A i, j \in S : i # j => <<i, j>> \in R \/ <<j, i>> \in R
    BY <1>6
  <2>5. list \in Seq(S) /\ Elements(list) = S /\ InOrder(list, R)
    BY ONLY <2>1, <2>2, <2>3, <2>4, <2>6, RankFacts
  <2> QED BY <2>5
<1> QED BY <1>1, <1>10

\* The list a route pages through.
LEMMA ListFacts ==
  ASSUME Inv
  PROVE  /\ Visible \in Seq(Records) /\ From(Visible, wrote)
         /\ all => InOrder(Visible, Ordered) /\ Elements(Visible) = {r \in Retained : Wanted(r)}
         /\ ~all => \E u \in Seq(Records) : Kept(wrote, filter) = u \o Visible
<1>0. /\ Typed /\ Held(store, wrote) /\ Own \in Owners
      /\ store \in [Owners -> Seq(Records)] /\ wrote \in Seq(Records)
  BY OwnFacts DEF Inv, Typed
<1>1. \A q \in Seq(Records) : Elements(q) \subseteq Retained => From(q, wrote)
  BY <1>0, RetainedFacts DEF From, Elements
<1>2. CASE all
  <2>1. Visible = Kept(Merged, filter)
    BY <1>2 DEF Visible
  <2>2. Merged \in Seq(Records) /\ Elements(Merged) = Retained /\ InOrder(Merged, Ordered)
    BY <1>0, MergedFacts
  <2>3. Visible \in Seq(Records) /\ Elements(Visible) = {r \in Retained : OfType(r, filter)}
    BY <2>1, <2>2, KeptElements
  <2>4. InOrder(Visible, Ordered)
    BY <2>1, <2>2, KeptInOrder
  <2> QED BY <1>1, <1>2, <2>3, <2>4 DEF Wanted
<1>3. CASE ~all
  <2>1. Visible = Kept(store[Own], filter)
    BY <1>3 DEF Visible
  <2>2. store[Own] \in Seq(Records) /\ Suffix(store[Own], wrote)
          /\ Elements(store[Own]) \subseteq Retained
    BY <1>0, <1>3, RetainedFacts DEF Held
  <2>3. Visible \in Seq(Records) /\ Elements(Visible) \subseteq Retained
    BY <2>1, <2>2, KeptElements
  <2>4. \E u \in Seq(Records) : Kept(wrote, filter) = u \o Visible
    <3> PICK v, m, n : v = store[Own] /\ m = Len(v) /\ n = Len(wrote)
      OBVIOUS
    <3>0. m \in Nat /\ n \in Nat /\ DOMAIN v = 1..m /\ DOMAIN wrote = 1..n
      BY <1>0, <2>2
    <3>1. m <= n /\ \A i \in 1..m : v[i] = wrote[n - m + i]
      BY <2>2, <3>0 DEF Suffix
    <3>l. m <= n
      BY <3>1
    <3>b. PICK d \in Nat : d = n - m
      <4>1. n - m \in Nat
        BY <3>0, <3>l
      <4> QED BY <4>1
    <3>a. n = d + m /\ \A i \in 1..d : i \in 1..n
      BY <3>0, <3>1, <3>b
    <3> DEFINE front == SubSeq(wrote, 1, d)
    <3>2. front \in Seq(Records) /\ Len(front) = d /\ \A i \in 1..d : front[i] = wrote[i]
      <4>1. \A i \in 1..d : wrote[i] \in Records
        BY <1>0, <3>0, <3>a
      <4>2. 1 \in Int /\ d \in Int
        OBVIOUS
      <4>3. /\ front \in Seq(Records) /\ Len(front) = IF 1 <= d THEN d - 1 + 1 ELSE 0
            /\ \A i \in 1..d - 1 + 1 : front[i] = wrote[1 + i - 1]
        BY <4>1, <4>2, SubSeqProperties
      <4> HIDE DEF front
      <4>4. \A i \in 1..d : i \in 1..d - 1 + 1 /\ 1 + i - 1 = i
        OBVIOUS
      <4>5. (IF 1 <= d THEN d - 1 + 1 ELSE 0) = d
        OBVIOUS
      <4> QED BY <4>3, <4>4, <4>5
    <3> HIDE DEF front
    <3>3. wrote = front \o v
      <4> PICK whole : whole = front \o v
        OBVIOUS
      <4>1. /\ whole \in Seq(Records) /\ Len(whole) = d + m
            /\ \A i \in 1..d + m : whole[i] = IF i <= d THEN front[i] ELSE v[i - d]
        BY <2>2, <3>2, ConcatProperties
      <4>2. ASSUME NEW i \in 1..n PROVE whole[i] = wrote[i]
        <5>1. CASE i <= d
          <6>1. i \in 1..d /\ i \in 1..d + m
            BY <3>a, <5>1
          <6> QED BY <3>2, <4>1, <5>1, <6>1
        <5>2. CASE ~(i <= d)
          <6>1. i \in 1..d + m
            BY <3>a
          <6>2. i - d \in 1..m /\ d + (i - d) = i
            BY <3>0, <5>2, <6>1
          <6> QED BY <3>1, <3>b, <4>1, <5>2, <6>1, <6>2
        <5> QED BY <5>1, <5>2
      <4>3. Len(whole) = Len(wrote)
        BY <3>a, <4>1
      <4>4. whole = wrote
        BY <1>0, <3>0, <4>1, <4>2, <4>3, SeqEqual
      <4> QED BY <4>4
    <3>4. Kept(wrote, filter) = Kept(front, filter) \o Kept(v, filter)
      BY <2>2, <3>2, <3>3, KeptConcat
    <3> QED BY <2>1, <3>2, <3>4, KeptElements
  <2> QED BY <1>1, <1>3, <2>3, <2>4
<1> QED BY <1>2, <1>3

\* A list followed by a stretch of another.
JoinsOn(q, list, start, end, page, both) ==
  /\ Len(page) = end - start /\ Len(both) = Len(q) + (end - start)
  /\ end # start => page[Len(page)] = list[end]
  /\ \A i \in 1..Len(q) : both[i] = q[i]
  /\ \A i \in start + 1..end : both[Len(q) + (i - start)] = list[i]

LEMMA Joined ==
  ASSUME NEW X, NEW q \in Seq(X), NEW list \in Seq(X),
         NEW start \in 0..Len(list), NEW end \in start..Len(list),
         NEW page, page = SubSeq(list, start + 1, end), NEW both, both = q \o page
  PROVE  both \in Seq(X) /\ JoinsOn(q, list, start, end, page, both)
<1>3. PICK m : m = Len(q)
  OBVIOUS
<1>4. PICK n : n = Len(list)
  OBVIOUS
<1>5. n \in Nat /\ m \in Nat /\ start \in Nat /\ end \in Nat /\ start <= end /\ end <= n
  BY <1>3, <1>4
<1>6. page \in Seq(X) /\ Len(page) = end - start /\ \A i \in 1..end - start : page[i] = list[start + i]
  <2>1. \A i \in start + 1..end : list[i] \in X
    BY <1>4, <1>5
  <2>2. start + 1 \in Int /\ end \in Int
    BY <1>5
  <2>3. /\ page \in Seq(X) /\ Len(page) = IF start + 1 <= end THEN end - (start + 1) + 1 ELSE 0
        /\ \A i \in 1..end - (start + 1) + 1 : page[i] = list[(start + 1) + i - 1]
    BY <2>1, <2>2, SubSeqProperties
  <2>4. end - (start + 1) + 1 = end - start
    BY <1>5
  <2>5. \A i \in 1..end - start : (start + 1) + i - 1 = start + i
    BY <1>5
  <2>6. (IF start + 1 <= end THEN end - (start + 1) + 1 ELSE 0) = end - start
    BY <1>5
  <2> QED BY ONLY <2>3, <2>4, <2>5, <2>6
<1>7. /\ both \in Seq(X) /\ Len(both) = m + (end - start)
      /\ \A i \in 1..m + (end - start) : both[i] = IF i <= m THEN q[i] ELSE page[i - m]
  <2>1. /\ both \in Seq(X) /\ Len(both) = m + Len(page)
        /\ \A i \in 1..m + Len(page) : both[i] = IF i <= m THEN q[i] ELSE page[i - m]
    BY <1>3, <1>6, ConcatProperties
  <2> QED BY <1>6, <2>1, Zenon
<1>8. ASSUME NEW i \in 1..m PROVE both[i] = q[i]
  <2>1. i \in 1..m + (end - start) /\ i <= m
    BY <1>5
  <2> QED BY <1>7, <2>1
<1>9. ASSUME NEW i \in start + 1..end PROVE both[m + (i - start)] = list[i]
  <2>1. PICK j \in 1..end - start : j = i - start
    BY <1>5
  <2>2. m + j \in 1..m + (end - start) /\ ~(m + j <= m) /\ (m + j) - m = j /\ start + j = i
    BY <1>5, <2>1
  <2> QED BY <1>6, <1>7, <2>1, <2>2
<1>10. end # start => page[Len(page)] = list[end]
  <2>1. ASSUME end # start PROVE end - start \in 1..end - start /\ start + (end - start) = end
    BY <1>5, <2>1
  <2> QED BY <1>6, <2>1
<1> QED BY <1>3, <1>6, <1>7, <1>8, <1>9, <1>10 DEF JoinsOn

\* The client, at its place, was given the records from start + 1 to end of the
\* list: both, with those before.
Gave(start, end, both) ==
    /\ start \in 0..Len(Visible) /\ end \in start..Len(Visible)
    /\ anchor = None => start = 0
    /\ anchor # None => start >= 1 /\ Visible[start] = wrote[anchor]
    /\ both \in Seq(Records) /\ Len(both) = Len(seen) + (end - start)
    /\ \A i \in 1..Len(seen) : both[i] = seen[i]
    /\ \A i \in start + 1..end : both[Len(seen) + (i - start)] = Visible[i]

\* It goes on from the last of them, if that has an id,
Placed(start, end, both) ==
    /\ seen' = both /\ loose' = <<>>
    /\ anchor' = IF end = start THEN anchor ELSE Visible[end].id

\* and stays where it was if it has not.
Unplaced(both) ==
    /\ UNCHANGED <<anchor, seen>> /\ loose' \in Seq(Records) /\ both = seen \o loose'
    /\ ~HasId(loose'[Len(loose')])

LEMMA PageIs ==
  ASSUME Inv, Page
  PROVE  /\ call' = "idle" /\ code' \in {200, 404, 500} /\ Consume
         /\ \/ anchor' = None /\ seen' = <<>> /\ loose' = <<>>
            \/ UNCHANGED place
            \/ \E start, end \in Nat, both \in Seq(Records) :
                  Gave(start, end, both) /\ (Placed(start, end, both) \/ Unplaced(both))
<1> PICK list : list = Visible
  OBVIOUS
<1>0. list \in Seq(Records) /\ From(list, wrote) /\ seen \in Seq(Records) /\ MaxPage \in Nat
  BY ListFacts, ObserveAssumption DEF Inv, Typed
<1>n. PICK n : n = Len(list)
  OBVIOUS
<1>m. n \in Nat /\ DOMAIN list = 1..n
  BY <1>0, <1>n
<1>1. Consume
  BY DEF Page
<1>2. CASE /\ StartIndex(list) = -1 /\ call' = "idle" /\ code' = 404
           /\ anchor' = None /\ seen' = <<>> /\ loose' = <<>>
  BY <1>1, <1>2
<1>4. CASE call' = "idle" /\ code' = 500 /\ UNCHANGED place
  BY <1>1, <1>4
<1>3. ASSUME StartIndex(list) >= 0, NEW limit \in 1..MaxPage, Give(Slice(list, StartIndex(list), limit))
      PROVE  /\ call' = "idle" /\ code' \in {200, 404, 500}
             /\ \E start, end \in Nat, both \in Seq(Records) :
                   Gave(start, end, both) /\ (Placed(start, end, both) \/ Unplaced(both))
  <2>s. PICK start : start = StartIndex(list)
    OBVIOUS
  <2>1. /\ start \in 0..n /\ (anchor = None => start = 0)
        /\ anchor # None => start >= 1 /\ list[start].id = anchor
    <3>1. CASE anchor = None
      BY <1>m, <2>s, <3>1 DEF StartIndex
    <3>2. CASE anchor # None
      <4>1. CASE \E i \in DOMAIN list : list[i].id = anchor
        <5>1. start = CHOOSE i \in DOMAIN list : list[i].id = anchor
          BY <2>s, <3>2, <4>1 DEF StartIndex
        <5>2. start \in 1..n /\ list[start].id = anchor
          BY <1>m, <4>1, <5>1
        <5> QED BY <1>m, <3>2, <5>2
      <4>2. CASE ~\E i \in DOMAIN list : list[i].id = anchor
        <5>1. StartIndex(list) = -1
          BY <3>2, <4>2 DEF StartIndex
        <5> QED BY <1>3, <5>1
      <4> QED BY <4>1, <4>2
    <3> QED BY <3>1, <3>2
  <2>2. anchor # None => list[start] = wrote[anchor]
    <3>1. anchor # None => start \in DOMAIN list
      BY <1>m, <2>1
    <3> QED BY <1>0, <2>1, <3>1 DEF From
  <2>e. PICK end : end = IF start + limit < n THEN start + limit ELSE n
    OBVIOUS
  <2>3. end \in start..n /\ start \in Nat /\ end \in Nat
    BY <1>0, <1>m, <2>1, <2>e
  <2>p. PICK page : page = SubSeq(list, start + 1, end)
    OBVIOUS
  <2>4. Give(page)
    BY <1>3, <1>n, <2>s, <2>e, <2>p DEF Slice
  <2>b. PICK both : both = seen \o page
    OBVIOUS
  <2>5. /\ both \in Seq(Records) /\ Len(page) = end - start
        /\ Len(both) = Len(seen) + (end - start)
        /\ end # start => page[Len(page)] = list[end]
        /\ \A i \in 1..Len(seen) : both[i] = seen[i]
        /\ \A i \in start + 1..end : both[Len(seen) + (i - start)] = list[i]
    <3>1. list \in Seq(Records) /\ seen \in Seq(Records)
      BY <1>0
    <3>2. start \in 0..Len(list) /\ end \in start..Len(list)
      BY <1>n, <1>m, <1>0, <2>1, <2>3
    <3>3. both \in Seq(Records) /\ JoinsOn(seen, list, start, end, page, both)
      BY <2>p, <2>b, <3>1, <3>2, Joined
    <3> QED BY <3>3 DEF JoinsOn
  <2>6. page \in Seq(Records)
    <3>1. \A i \in start + 1..end : list[i] \in Records
      BY <1>0, <1>m, <2>3
    <3>2. start + 1 \in Int /\ end \in Int
      BY <2>3
    <3> QED BY <2>p, <3>1, <3>2, SubSeqProperties
  <2>7. Placed(start, end, both) \/ Unplaced(both)
    <3>1. page = <<>> <=> Len(page) = 0
      BY <2>6, EmptySeq
    <3>2. end = start <=> end - start = 0
      BY <2>3
    <3>3. CASE page = <<>>
      <4>1. UNCHANGED <<anchor, seen>> /\ loose' = <<>>
        BY <2>4, <3>3 DEF Give
      <4>2. both = seen
        BY <1>0, <2>b, <3>3, ConcatEmptySeq
      <4> QED BY <2>5, <3>1, <3>2, <3>3, <4>1, <4>2 DEF Placed
    <3>4. CASE page # <<>> /\ HasId(page[Len(page)])
      <4>1. anchor' = page[Len(page)].id /\ seen' = both /\ loose' = <<>>
        BY <2>4, <2>b, <3>4 DEF Give
      <4> QED BY <2>5, <3>1, <3>2, <3>4, <4>1 DEF Placed
    <3>5. CASE page # <<>> /\ ~HasId(page[Len(page)])
      <4>1. UNCHANGED <<anchor, seen>> /\ loose' = page
        BY <2>4, <3>5 DEF Give
      <4> QED BY <2>6, <2>b, <3>5, <4>1 DEF Unplaced
    <3> QED BY <3>3, <3>4, <3>5
  <2>8. Gave(start, end, both)
    BY <1>n, <2>1, <2>2, <2>3, <2>5 DEF Gave
  <2>9. call' = "idle" /\ code' = 200
    BY <2>4 DEF Give
  <2> QED BY <2>3, <2>5, <2>7, <2>8, <2>9
<1>5. \/ /\ StartIndex(list) = -1 /\ call' = "idle" /\ code' = 404
         /\ anchor' = None /\ seen' = <<>> /\ loose' = <<>>
      \/ call' = "idle" /\ code' = 500 /\ UNCHANGED place
      \/ StartIndex(list) >= 0 /\ \E limit \in 1..MaxPage : Give(Slice(list, StartIndex(list), limit))
  BY DEF Page
<1> QED BY <1>1, <1>2, <1>3, <1>4, <1>5

\* What was given before and what the page adds.
LEMMA PageFacts ==
  ASSUME Inv, NEW start \in Nat, NEW end \in Nat, NEW both, Gave(start, end, both)
  PROVE  /\ Len(seen) \in Nat /\ DOMAIN seen = 1..Len(seen) /\ start <= end
         /\ DOMAIN both = 1..Len(seen) + (end - start)
         /\ \A i \in 1..Len(seen) + (end - start) :
               \/ i \in 1..Len(seen) /\ both[i] = seen[i]
               \/ \E j \in start + 1..end : i = Len(seen) + (j - start) /\ both[i] = Visible[j]
<1>m. PICK m : m = Len(seen)
  OBVIOUS
<1>0. m \in Nat /\ DOMAIN seen = 1..m
  BY <1>m DEF Inv, Typed
<1>s. start <= end
  BY DEF Gave
<1>1. DOMAIN both = 1..m + (end - start)
  <2>1. both \in Seq(Records) /\ Len(both) = m + (end - start)
    BY <1>m DEF Gave
  <2> QED BY <2>1
<1>2. \A j \in start + 1..end : both[m + (j - start)] = Visible[j]
  BY <1>m DEF Gave
<1>3. \A i \in 1..m : both[i] = seen[i]
  BY <1>m DEF Gave
<1>4. ASSUME NEW i \in 1..m + (end - start), ~(i \in 1..m)
      PROVE  \E j \in start + 1..end : i = m + (j - start) /\ both[i] = Visible[j]
  <2>1. i - m + start \in start + 1..end /\ i = m + ((i - m + start) - start)
    BY <1>0, <1>s, <1>4
  <2> QED BY <1>2, <2>1
<1> QED BY <1>m, <1>0, <1>s, <1>1, <1>3, <1>4

LEMMA OrderedTrans ==
  ASSUME NEW p, NEW q, NEW r, <<p, q>> \in Ordered, <<q, r>> \in Ordered
  PROVE  <<p, r>> \in Ordered
<1>1. Before(p, q) /\ Before(q, r) /\ p \in Records /\ q \in Records /\ r \in Records
  BY DEF Ordered
<1>2. \A x \in Records : x.id \in Nat /\ x.sess \in Nat /\ x.ts \in Nat
  BY DEF Records
<1>3. Before(p, r)
  BY <1>1, <1>2 DEF Before
<1> QED BY <1>1, <1>3 DEF Ordered

\* The place the client follows from, in the list and in what it was given.
LEMMA PlaceFacts ==
  ASSUME Inv, NEW start \in Nat, NEW end \in Nat, NEW both, Gave(start, end, both), anchor # None
  PROVE  /\ Len(seen) \in 1..Len(seen) /\ start \in DOMAIN Visible /\ start >= 1
         /\ Visible[start] = wrote[anchor] /\ seen[Len(seen)] = wrote[anchor]
         /\ wrote[anchor] \in Given
<1>1. seen \in Seq(Records) /\ seen # <<>> /\ seen[Len(seen)] = wrote[anchor]
  BY DEF Inv, Typed, Followed
<1>2. Len(seen) \in 1..Len(seen) /\ DOMAIN seen = 1..Len(seen)
  BY <1>1, EmptySeq
<1>3. Visible \in Seq(Records)
  BY ListFacts
<1>4. start \in DOMAIN Visible /\ start >= 1 /\ Visible[start] = wrote[anchor]
  BY <1>3 DEF Gave
<1> QED BY <1>1, <1>2, <1>4 DEF Given

LEMMA FollowedKept ==
  ASSUME Inv, Untouched, NEW start \in Nat, NEW end \in Nat, NEW both,
         Gave(start, end, both), Placed(start, end, both)
  PROVE  Followed'
<1>0. /\ seen \in Seq(Records) /\ wrote \in Seq(Records) /\ None \notin Nat /\ wrote' = wrote
      /\ all' = all /\ all \in BOOLEAN
  BY ObserveAssumption DEF Inv, Typed, Untouched, client
<1>1. Visible \in Seq(Records) /\ From(Visible, wrote) /\ (all => InOrder(Visible, Ordered))
  BY ListFacts
<1>m. PICK m : m = Len(seen)
  OBVIOUS
<1>2. /\ m \in Nat /\ DOMAIN seen = 1..m /\ start <= end /\ DOMAIN seen' = 1..m + (end - start)
      /\ \A i \in 1..m + (end - start) :
            \/ i \in 1..m /\ seen'[i] = seen[i]
            \/ \E j \in start + 1..end : i = m + (j - start) /\ seen'[i] = Visible[j]
  <2>1. seen' = both
    BY DEF Placed
  <2>2. /\ m \in Nat /\ DOMAIN seen = 1..m /\ start <= end /\ DOMAIN both = 1..m + (end - start)
        /\ \A i \in 1..m + (end - start) :
              \/ i \in 1..m /\ both[i] = seen[i]
              \/ \E j \in start + 1..end : i = m + (j - start) /\ both[i] = Visible[j]
    BY <1>m, PageFacts
  <2> QED BY <2>1, <2>2, Zenon
<1>3. /\ seen' \in Seq(Records) /\ Len(seen') = m + (end - start)
      /\ \A i \in 1..m : seen'[i] = seen[i]
      /\ \A i \in start + 1..end : seen'[m + (i - start)] = Visible[i]
      /\ anchor' = IF end = start THEN anchor ELSE Visible[end].id
  BY <1>m DEF Gave, Placed
<1>4. \A j \in start + 1..end : j \in DOMAIN Visible /\ Visible[j].id \in DOMAIN wrote
        /\ wrote[Visible[j].id] = Visible[j]
  <2>1. \A j \in start + 1..end : j \in 1..Len(Visible)
    BY <1>1 DEF Gave
  <2> QED BY <1>1, <2>1 DEF From
<1>5. From(seen', wrote)
  <2>1. \A i \in 1..m : seen[i].id \in DOMAIN wrote /\ wrote[seen[i].id] = seen[i]
    BY <1>2 DEF Inv, Followed, From
  <2> QED BY <1>2, <1>4, <2>1 DEF From
<1>6. (anchor' = None <=> seen' = <<>>)
      /\ (anchor' # None => anchor' \in DOMAIN wrote /\ seen'[Len(seen')] = wrote[anchor'])
  <2>1. CASE end = start
    <3>1. anchor' = anchor /\ Len(seen') = m
      BY <1>2, <1>3, <2>1
    <3>2. (anchor = None <=> seen = <<>>) /\ (anchor # None => anchor \in DOMAIN wrote /\ seen[m] = wrote[anchor])
      BY <1>m DEF Inv, Followed
    <3>3. (seen = <<>> <=> m = 0) /\ (seen' = <<>> <=> m = 0)
      BY <1>0, <1>m, <1>3, <3>1, EmptySeq
    <3>4. m # 0 => m \in 1..m
      BY <1>2
    <3> QED BY <1>3, <3>1, <3>2, <3>3, <3>4
  <2>2. CASE end # start
    <3>1. end \in start + 1..end
      BY <1>2, <2>2
    <3>2. anchor' = Visible[end].id /\ anchor' \in DOMAIN wrote /\ wrote[anchor'] = Visible[end]
          /\ seen'[m + (end - start)] = Visible[end]
      BY <1>3, <1>4, <2>2, <3>1
    <3>3. anchor' \in Nat
      BY <1>0, <3>2
    <3>4. seen' # <<>>
      BY <1>2, <1>3, <2>2, EmptySeq
    <3> QED BY <1>0, <1>3, <3>2, <3>3, <3>4
  <2> QED BY <2>1, <2>2
<1>7. ASSUME all PROVE InOrder(seen', Ordered)
  <2> SUFFICES ASSUME NEW i \in 1..m + (end - start), NEW j \in 1..m + (end - start), i < j
               PROVE  <<seen'[i], seen'[j]>> \in Ordered
    BY <1>2 DEF InOrder
  <2>1. InOrder(seen, Ordered) /\ InOrder(Visible, Ordered)
    BY <1>1, <1>7 DEF Inv, Followed
  <2>2. CASE j \in 1..m
    <3>1. i \in 1..m
      <4>1. m \in Nat
        BY <1>2
      <4> QED BY <2>2, <4>1
    <3> QED BY <1>2, <1>3, <2>1, <2>2, <3>1 DEF InOrder
  <2>3. ASSUME NEW jj \in start + 1..end, j = m + (jj - start), seen'[j] = Visible[jj]
        PROVE  <<seen'[i], seen'[j]>> \in Ordered
    <3>1. CASE i \in 1..m
      <4>1. anchor # None
        BY <1>0, <1>m, <3>1, EmptySeq DEF Inv, Followed
      <4>2. /\ m \in 1..m /\ start \in DOMAIN Visible /\ start >= 1
            /\ Visible[start] = wrote[anchor] /\ seen[m] = wrote[anchor]
        BY <1>m, <4>1, PlaceFacts
      <4>3. <<Visible[start], Visible[jj]>> \in Ordered
        <5>1. start < jj /\ jj \in DOMAIN Visible
          BY <1>4
        <5> QED BY <2>1, <4>2, <5>1 DEF InOrder
      <4>4. i = m \/ <<seen[i], seen[m]>> \in Ordered
        <5>1. i = m \/ i < m
          BY <1>2, <3>1
        <5> QED BY <1>2, <2>1, <3>1, <4>2, <5>1 DEF InOrder
      <4>5. seen'[i] = seen[i]
        BY <1>3, <3>1
      <4> QED BY <2>3, <4>2, <4>3, <4>4, <4>5, OrderedTrans
    <3>2. ASSUME NEW ii \in start + 1..end, i = m + (ii - start), seen'[i] = Visible[ii]
          PROVE  <<seen'[i], seen'[j]>> \in Ordered
      <4>1. ii < jj
        BY <1>2, <2>3, <3>2
      <4>2. ii \in DOMAIN Visible /\ jj \in DOMAIN Visible
        BY <1>4
      <4> QED BY <2>1, <2>3, <3>2, <4>1, <4>2 DEF InOrder
    <3> QED BY <1>2, <3>1, <3>2
  <2> QED BY <1>2, <2>2, <2>3
<1>8. Ordered' = Ordered
  BY DEF Ordered, Before
<1> QED BY <1>0, <1>5, <1>6, <1>7 DEF Followed, From, InOrder

\* Records of what was written come once in what is kept of it.
LEMMA KeptOnce ==
  ASSUME Inv
  PROVE  LET h == Kept(wrote, filter)
         IN  h \in Seq(Records) /\ \A i, j \in DOMAIN h : h[i] = h[j] => i = j
<1> DEFINE ById == {p \in Records \X Records : p[1].id < p[2].id}
<1>0. wrote \in Seq(Records) /\ Stamped(wrote)
  BY DEF Inv, Typed
<1>1. InOrder(wrote, ById)
  <2>1. ASSUME NEW i \in DOMAIN wrote, NEW j \in DOMAIN wrote, i < j
                 PROVE <<wrote[i], wrote[j]>> \in ById
    <3>1. wrote[i] \in Records /\ wrote[j] \in Records /\ wrote[i].id = i /\ wrote[j].id = j
      BY <1>0 DEF Stamped
    <3> QED BY <2>1, <3>1
  <2> HIDE DEF ById
  <2> QED BY <2>1 DEF InOrder
<1>2. PICK h : h = Kept(wrote, filter)
  OBVIOUS
<1>3. h \in Seq(Records) /\ InOrder(h, ById)
  <2> HIDE DEF ById
  <2> QED BY <1>0, <1>1, <1>2, KeptElements, KeptInOrder
<1>4. ASSUME NEW i \in DOMAIN h, NEW j \in DOMAIN h, h[i] = h[j], i # j PROVE FALSE
  <2>1. i \in Nat /\ j \in Nat /\ h[i] \in Records
    BY <1>3
  <2>2. i < j \/ j < i
    BY <1>4, <2>1
  <2>3. <<h[i], h[i]>> \in ById
    BY <1>3, <1>4, <2>2 DEF InOrder
  <2>4. h[i].id < h[i].id /\ h[i].id \in Nat
    BY <2>1, <2>3 DEF Records
  <2> QED BY <2>4
<1> QED BY <1>2, <1>3, <1>4

LEMMA WholeKept ==
  ASSUME Inv, NEW start \in Nat, NEW end \in Nat, NEW both, Gave(start, end, both),
         ~all, both # <<>>
  PROVE  Stretch(both, Kept(wrote, filter))
<1>1. PICK h : h = Kept(wrote, filter)
  OBVIOUS
<1>2. h \in Seq(Records) /\ \A i, j \in DOMAIN h : h[i] = h[j] => i = j
  BY <1>1, KeptOnce
<1>3. Visible \in Seq(Records)
  BY ListFacts
<1>4. PICK u \in Seq(Records) : h = u \o Visible
  BY <1>1, ListFacts
<1>5. PICK k, n \in Nat : k = Len(u) /\ n = Len(Visible)
  BY <1>3
<1>6. Len(h) = k + n /\ DOMAIN h = 1..k + n /\ \A j \in 1..n : h[k + j] = Visible[j]
  <2>1. /\ Len(h) = k + n
        /\ \A i \in 1..k + n : h[i] = IF i <= k THEN u[i] ELSE Visible[i - k]
    BY <1>3, <1>4, <1>5, ConcatProperties
  <2>2. \A j \in 1..n : k + j \in 1..k + n /\ ~(k + j <= k) /\ (k + j) - k = j
    OBVIOUS
  <2> QED BY <1>2, <2>1, <2>2
<1>m. PICK m : m = Len(seen)
  OBVIOUS
<1>7. m \in Nat /\ DOMAIN seen = 1..m /\ start <= end /\ DOMAIN both = 1..m + (end - start) /\ end <= n
      /\ Len(both) = m + (end - start)
  BY <1>m, <1>5, PageFacts DEF Gave
<1>8. \A i \in 1..m + (end - start) :
         \/ i \in 1..m /\ both[i] = seen[i]
         \/ \E j \in start + 1..end : i = m + (j - start) /\ both[i] = Visible[j]
  BY <1>m, PageFacts
<1>9. \A j \in start + 1..end : j \in 1..n
  BY <1>7
<1>10. m + (end - start) >= 1
  <2>1. both \in Seq(Records) /\ Len(both) # 0
    BY EmptySeq DEF Gave
  <2> QED BY <1>7, <2>1
\* where the stretch begins
<1>11. PICK i \in Int : /\ i \in 1..k + n /\ i + m = k + start + 1
                        /\ \A j \in 1..m : i + j - 1 \in 1..k + n /\ seen[j] = h[i + j - 1]
  <2>1. CASE seen = <<>>
    <3>1. m = 0 /\ start = 0
      BY <1>m, <2>1 DEF Gave, Inv, Followed
    <3>2. k + 1 \in Int /\ k + 1 \in 1..k + n /\ (k + 1) + m = k + start + 1
      BY <1>7, <1>10, <3>1
    <3>3. \A j \in 1..m : (k + 1) + j - 1 \in 1..k + n /\ seen[j] = h[(k + 1) + j - 1]
      BY <3>1
    <3> QED BY <3>2, <3>3
  <2>2. CASE seen # <<>>
    <3>1. PICK i \in 1..k + n : i + m - 1 <= k + n /\ \A j \in 1..m : seen[j] = h[i + j - 1]
      BY <1>1, <1>m, <1>6, <1>7, <2>2 DEF Inv, Whole, Stretch
    <3>2. anchor # None
      BY <2>2 DEF Inv, Followed
    <3>3. m \in 1..m /\ start \in 1..n /\ Visible[start] = seen[m]
      BY <1>m, <1>3, <1>5, <3>2, PlaceFacts
    <3>4. h[k + start] = h[i + m - 1]
      BY <1>6, <3>1, <3>3
    <3>5. k + start \in 1..k + n /\ i + m - 1 \in 1..k + n
      BY <1>7, <3>1, <3>3
    <3>6. k + start = i + m - 1
      BY <1>2, <1>6, <3>4, <3>5
    <3>7. \A j \in 1..m : i + j - 1 \in 1..k + n
      BY <1>7, <3>1
    <3>8. i + m = k + start + 1
      BY <1>7, <3>6
    <3> QED BY <3>1, <3>7, <3>8
  <2> QED BY <2>1, <2>2
<1>12. i + (m + (end - start)) - 1 <= k + n
  BY <1>7, <1>11
<1>13. ASSUME NEW j \in 1..m + (end - start) PROVE both[j] = h[i + j - 1]
  <2>1. CASE j \in 1..m /\ both[j] = seen[j]
    BY <1>11, <2>1
  <2>2. ASSUME NEW jj \in start + 1..end, j = m + (jj - start), both[j] = Visible[jj]
        PROVE  both[j] = h[i + j - 1]
    <3>1. i + j - 1 = k + jj
      BY <1>7, <1>11, <2>2
    <3> QED BY <1>6, <1>9, <2>2, <3>1
  <2> QED BY <1>8, <2>1, <2>2
<1> QED BY <1>1, <1>6, <1>7, <1>11, <1>12, <1>13 DEF Stretch

LEMMA TiesKept ==
  ASSUME Inv, Untouched, NEW start \in Nat, NEW end \in Nat, NEW both,
         Gave(start, end, both), Placed(start, end, both)
  PROVE  TiesMissed'
<1>1. UNCHANGED <<client, store, wrote>> /\ Retained' = Retained
  BY DEF Untouched, Retained
<1> SUFFICES ASSUME all, anchor' # None, NEW r \in Retained, r \notin Given',
                    Wanted(r), Before(r, wrote[anchor'])
             PROVE  \E g \in Given' : g.ts = r.ts /\ r.sess < g.sess
  BY <1>1 DEF TiesMissed, Wanted, OfType, Before, client
<1>2. /\ Visible \in Seq(Records) /\ InOrder(Visible, Ordered)
      /\ Elements(Visible) = {x \in Retained : Wanted(x)} /\ From(Visible, wrote)
  BY ListFacts
<1>n. PICK n \in Nat : n = Len(Visible)
  BY <1>2
<1>m. PICK m : m = Len(seen)
  OBVIOUS
<1>3. m \in Nat /\ DOMAIN seen = 1..m /\ start <= end /\ end <= n /\ DOMAIN seen' = 1..m + (end - start)
  BY <1>m, <1>n, PageFacts DEF Gave, Placed
<1>4. Given \subseteq Given'
  <2>1. \A i \in 1..m : seen'[i] = seen[i] /\ i \in 1..m + (end - start)
    BY <1>m, <1>3 DEF Gave, Placed
  <2> QED BY <1>3, <2>1 DEF Given
<1>5. \A j \in start + 1..end : Visible[j] \in Given'
  <2>1. \A j \in start + 1..end : m + (j - start) \in 1..m + (end - start)
          /\ seen'[m + (j - start)] = Visible[j]
    BY <1>m, <1>3 DEF Gave, Placed
  <2> QED BY <1>3, <2>1 DEF Given
<1>6. r \in Records /\ \A x \in Records : ~Before(x, x)
  <2>1. \A x \in Records : x.id \in Nat /\ x.sess \in Nat /\ x.ts \in Nat
    BY DEF Records
  <2>2. \A x \in Records : ~Before(x, x)
    BY <2>1 DEF Before
  <2> QED BY <2>2, RetainedFacts DEF Inv
<1>7. PICK j \in 1..n : Visible[j] = r
  BY <1>2, <1>n DEF Elements
\* The client is past r, which it was not given: so it was before this page.
<1>8. ASSUME anchor # None, Before(r, wrote[anchor])
      PROVE  \E g \in Given' : g.ts = r.ts /\ r.sess < g.sess
  BY <1>4, <1>8 DEF Inv, TiesMissed
<1>9. CASE end = start
  <2>1. anchor' = anchor
    BY <1>9 DEF Placed
  <2> QED BY <1>8, <2>1
<1>10. CASE end # start
  <2>1. end \in start + 1..end /\ end \in 1..n /\ anchor' = Visible[end].id
    BY <1>3, <1>10 DEF Placed
  <2>2. wrote[anchor'] = Visible[end]
    BY <1>2, <1>n, <2>1 DEF From
  <2>3. \A p, q \in 1..n : p < q => Before(Visible[p], Visible[q])
    <3>1. \A p, q \in 1..n : p < q => <<Visible[p], Visible[q]>> \in Ordered
      BY <1>2, <1>n DEF InOrder
    <3> QED BY <3>1 DEF Ordered
  <2>4. j < end
    <3>1. ASSUME j = end PROVE FALSE
      BY <1>6, <1>7, <2>2, <3>1
    <3>2. ASSUME end < j PROVE FALSE
      <4>1. Before(Visible[end], r) /\ Before(r, Visible[end])
        BY <1>7, <2>1, <2>2, <2>3, <3>2
      <4>2. Visible[end] \in Records
        BY <1>2, <1>n, <2>1
      <4>3. <<Visible[end], r>> \in Ordered /\ <<r, Visible[end]>> \in Ordered
        BY <1>6, <4>1, <4>2 DEF Ordered
      <4>4. <<r, r>> \in Ordered
        BY <4>3, OrderedTrans
      <4> QED BY <1>6, <4>4 DEF Ordered
    <3> QED BY <2>1, <3>1, <3>2
  <2>5. ~(j \in start + 1..end)
    BY <1>5, <1>7
  <2>6. j <= start /\ start \in 1..n
    BY <1>3, <2>4, <2>5
  <2>7. anchor # None
    BY <2>6 DEF Gave
  <2>8. Visible[start] = wrote[anchor] /\ wrote[anchor] \in Given
    BY <2>7, PlaceFacts
  <2>9. j # start
    BY <1>4, <1>7, <2>8
  <2>10. Before(r, wrote[anchor])
    BY <1>7, <2>3, <2>6, <2>8, <2>9
  <2> QED BY <1>8, <2>7, <2>10
<1> QED BY <1>9, <1>10

\* Stores and their records are not touched by an answer.
LEMMA AnswerKeepsRecords ==
  ASSUME Inv, Untouched
  PROVE  Stamped(wrote)' /\ Held(store, wrote)' /\ Paired(store, wrote)'
<1> USE DEF Inv, Untouched, client
<1>1. Stamped(wrote)'
  BY DEF Stamped
<1>2. Held(store, wrote)' /\ Paired(store, wrote)'
  BY DEF Held, Paired, From, Suffix, Own
<1> QED BY <1>1, <1>2

LEMMA PageStep ==
  ASSUME Inv, Untouched, Page
  PROVE  Inv'
<1>0. Typed
  BY DEF Inv
<1>1. /\ call' = "idle" /\ code' \in {200, 404, 500} /\ Consume
      /\ \/ anchor' = None /\ seen' = <<>> /\ loose' = <<>>
         \/ UNCHANGED place
         \/ \E start, end \in Nat, both \in Seq(Records) :
               Gave(start, end, both) /\ (Placed(start, end, both) \/ Unplaced(both))
  BY PageIs
<1>2. Limiting' /\ window' \in Seq(Nat) /\ wait' = None
  BY <1>1, ConsumeLimits DEF Untouched
<1>3. CASE UNCHANGED place
  <2>1. Same
    BY <1>0, <1>3 DEF Same, Untouched, Typed
  <2>2. Typed'
    BY <1>0, <1>1, <1>2, <1>3 DEF Typed, Untouched, client, place, Codes
  <2> QED BY <1>2, <2>1, <2>2, SameRecords DEF Inv
<1>4. ASSUME Followed', Whole', Loosely', TiesMissed', seen' \in Seq(Records), loose' \in Seq(Records)
      PROVE  Inv'
  <2>1. wrote' = wrote /\ wrote \in Seq(Records)
    BY <1>0 DEF Untouched, Typed
  <2>2. anchor' \in Nat \cup {None}
    <3>1. anchor' # None => anchor' \in DOMAIN wrote
      BY <1>4, <2>1 DEF Followed
    <3> QED BY <2>1, <3>1
  <2>3. Typed'
    BY <1>0, <1>1, <1>2, <1>4, <2>2 DEF Typed, Untouched, client, Codes
  <2> QED BY <1>2, <1>4, <2>3, AnswerKeepsRecords DEF Inv
<1>5. CASE anchor' = None /\ seen' = <<>> /\ loose' = <<>>
  <2>1. Followed' /\ Whole' /\ Loosely' /\ TiesMissed'
    BY <1>5 DEF Followed, Whole, Loosely, TiesMissed, From, InOrder
  <2> QED BY <1>4, <1>5, <2>1, EmptySeq
<1>6. ASSUME NEW start \in Nat, NEW end \in Nat, NEW both \in Seq(Records),
             Gave(start, end, both), Placed(start, end, both)
      PROVE  Inv'
  <2>1. Followed' /\ TiesMissed'
    BY <1>6, FollowedKept, TiesKept
  <2>2. seen' = both /\ loose' = <<>>
    BY <1>6 DEF Placed
  <2>3. ~all /\ both # <<>> => Stretch(both, Kept(wrote, filter))
    BY <1>6, WholeKept
  <2>4. Whole'
    BY <2>2, <2>3 DEF Untouched, client, Whole, Stretch
  <2>5. Loosely'
    BY <2>2 DEF Loosely
  <2> QED BY <1>4, <2>1, <2>2, <2>4, <2>5, EmptySeq
<1>7. ASSUME NEW start \in Nat, NEW end \in Nat, NEW both \in Seq(Records),
             Gave(start, end, both), Unplaced(both)
      PROVE  Inv'
  <2>1. UNCHANGED <<client, store, wrote, anchor, seen>>
    BY <1>7 DEF Untouched, Unplaced
  <2>2. Followed' /\ Whole'
    BY <2>1 DEF Inv, Followed, Whole, From, InOrder, Ordered, Before, Stretch, client
  <2>3. TiesMissed'
    <3>1. Retained' = Retained /\ Given' = Given
      BY <2>1 DEF Retained, Given
    <3> QED BY <2>1, <3>1 DEF Inv, TiesMissed, Wanted, OfType, Before, client
  <2>4. Loosely'
    <3> SUFFICES ASSUME loose' # <<>> PROVE Loosely'
      BY DEF Loosely
    <3>1. loose' \in Seq(Records) /\ both = seen \o loose' /\ ~HasId(loose'[Len(loose')])
      BY <1>7 DEF Unplaced
    <3>2. surface = "audit-records" /\ ~all
      BY <1>0, <3>1 DEF HasId, Typed
    <3>3. both # <<>>
      <4>1. Len(both) = Len(seen) + Len(loose') /\ seen \in Seq(Records)
        BY <1>0, <3>1, ConcatProperties DEF Typed
      <4>2. Len(loose') \in Nat /\ Len(seen) \in Nat /\ Len(loose') # 0
        BY <3>1, <4>1, EmptySeq
      <4>3. Len(both) # 0
        BY <4>1, <4>2
      <4> QED BY <4>3, EmptySeq
    <3>4. Stretch(both, Kept(wrote, filter))
      BY <1>7, <3>2, <3>3, WholeKept
    <3> QED BY <2>1, <3>1, <3>2, <3>4 DEF Loosely, HasId, Stretch, client
  <2>5. seen' \in Seq(Records) /\ loose' \in Seq(Records)
    BY <1>0, <1>7 DEF Unplaced, Typed
  <2> QED BY <1>4, <2>2, <2>3, <2>4, <2>5
<1> QED BY <1>1, <1>3, <1>5, <1>6, <1>7

LEMMA ServeInv == Inv /\ Serve => Inv'
<1> SUFFICES ASSUME Inv, Serve PROVE Inv'
  OBVIOUS
<1>1. Untouched /\ Answer
  BY ServeAnswers
<1>2. CASE Page
  BY <1>1, <1>2, PageStep
<1>3. ASSUME UNCHANGED place, call' = "idle", code' \in Codes,
             Limiting', window' \in Seq(Nat), wait' \in Nat \cup {None}
      PROVE  Inv'
  <2>1. Typed
    BY DEF Inv
  <2>2. Same
    BY <1>1, <1>3, <2>1 DEF Same, Untouched, client, Typed
  <2>3. Typed'
    BY <1>1, <1>3, <2>1 DEF Typed, Untouched, client, place
  <2> QED BY <1>3, <2>2, <2>3, SameRecords DEF Inv
<1>4. ASSUME NEW n \in {401, 403, 503}, Refuse(n) PROVE Inv'
  <2>1. Limiting' /\ window' \in Seq(Nat) /\ wait' \in Nat \cup {None}
    BY <1>1, <1>4, SameLimits DEF Refuse, Untouched, Inv, Typed
  <2> QED BY <1>3, <1>4, <2>1 DEF Refuse, Codes
<1>5. CASE Limited
  <2>1. Limiting' /\ window' \in Seq(Nat) /\ wait' \in Nat \cup {None}
    BY <1>1, <1>5, LimitedLimits DEF Limited, Untouched, Inv, Typed
  <2> QED BY <1>3, <1>5, <2>1 DEF Limited, Codes
<1>6. CASE \E n \in {200, 403, 404, 500} : Deny(n)
  <2>1. Limiting' /\ window' \in Seq(Nat) /\ wait' \in Nat \cup {None}
    BY <1>1, <1>6, ConsumeLimits DEF Deny, Untouched
  <2> QED BY <1>3, <1>6, <2>1 DEF Deny, Codes
<1>7. CASE Status
  BY <1>6, <1>7 DEF Status
<1> QED BY <1>1, <1>2, <1>4, <1>5, <1>6, <1>7 DEF Answer

LEMMA NextInv == Inv /\ [Next]_vars => Inv'
<1> SUFFICES ASSUME Inv, [Next]_vars PROVE Inv'
  OBVIOUS
<1>1. CASE Write
  BY <1>1, WriteInv
<1>2. CASE Tick
  BY <1>2, TickInv
<1>3. CASE Serve
  BY <1>3, ServeInv
<1>4. CASE \/ MintToken \/ Boots \/ ReadinessFalls \/ (\E s \in Sessions : EndSession(s))
           \/ Send \/ ReaderScopeGuard
  BY <1>4, AsideInv
<1>5. CASE UNCHANGED vars
  <2>1. Typed /\ Typed'
    BY <1>5 DEF Inv, Typed, vars, client, poll
  <2>2. Same /\ UNCHANGED <<client, window, wait>>
    BY <1>5, <2>1 DEF Same, vars, client, poll, place, Typed
  <2> QED BY <2>1, <2>2, SameRecords, SameLimits DEF Inv
<1> QED BY <1>1, <1>2, <1>3, <1>4, <1>5 DEF Next

-----------------------------------------------------------------------------
(* What the invariant gives.                                               *)

\* The inductive invariant of Observe holds in every reachable state.
THEOREM Inductive == Spec => []Inv
BY InitInv, NextInv, PTL DEF Spec

LEMMA TypesHold == Inv => TypeOK
<1> SUFFICES ASSUME Inv PROVE TypeOK
  OBVIOUS
<1>1. anchor # None => anchor \in 1..Len(wrote)
  BY DEF Inv, Typed, Followed
<1> QED BY <1>1 DEF Inv, Typed, Limiting, Held, TypeOK

LEMMA PagesAreWhole == Inv => PagesWhole
<1> PICK given : given = seen \o loose
  OBVIOUS
<1>0. Inv => (loose # <<>> => ~HasId(loose[Len(loose)]))
  BY DEF Inv, Loosely
<1> SUFFICES ASSUME Inv, ~all, given # <<>>
             PROVE  LET h == Kept(wrote, filter) IN
                    \E i \in DOMAIN h :
                       i + Len(given) - 1 <= Len(h) /\ given = SubSeq(h, i, i + Len(given) - 1)
  BY <1>0 DEF PagesWhole
<1>1. PICK h : h = Kept(wrote, filter)
  OBVIOUS
<1>2. h \in Seq(Records) /\ seen \in Seq(Records) /\ loose \in Seq(Records) /\ given \in Seq(Records)
  BY <1>1, KeptOnce, ConcatProperties DEF Inv, Typed
<1>s. Stretch(given, h)
  <2>1. CASE loose = <<>>
    <3>1. given = seen
      BY <1>2, <2>1, ConcatEmptySeq
    <3> QED BY <1>1, <3>1 DEF Inv, Whole
  <2>2. CASE loose # <<>>
    BY <1>1, <2>2 DEF Inv, Loosely
  <2> QED BY <2>1, <2>2
<1>3. PICK m : m = Len(given)
  OBVIOUS
<1>4. m \in Nat /\ DOMAIN given = 1..m /\ m # 0 /\ DOMAIN h = 1..Len(h) /\ Len(h) \in Nat
  BY <1>2, <1>3, EmptySeq
<1>5. PICK i \in DOMAIN h : i + m - 1 <= Len(h) /\ \A n \in 1..m : given[n] = h[i + n - 1]
  BY <1>s, <1>3, <1>4 DEF Stretch
<1>6. PICK q : q = SubSeq(h, i, i + m - 1)
  OBVIOUS
<1>7. q \in Seq(Records) /\ Len(q) = m /\ \A n \in 1..m : q[n] = h[i + n - 1]
  <2>1. i \in Int /\ i + m - 1 \in Int /\ i <= i + m - 1 /\ (i + m - 1) - i + 1 = m
    BY <1>4
  <2>2. \A n \in i..i + m - 1 : n \in 1..Len(h)
    BY <1>4, <1>5
  <2>3. \A n \in i..i + m - 1 : h[n] \in Records
    BY <1>2, <1>4, <2>2
  <2>4. /\ q \in Seq(Records) /\ Len(q) = IF i <= i + m - 1 THEN (i + m - 1) - i + 1 ELSE 0
        /\ \A n \in 1..(i + m - 1) - i + 1 : q[n] = h[i + n - 1]
    BY <1>6, <2>1, <2>3, SubSeqProperties
  <2> QED BY <2>1, <2>4
<1>8. given = q
  BY <1>2, <1>3, <1>5, <1>7, SeqEqual
<1> QED BY <1>1, <1>3, <1>5, <1>6, <1>8

LEMMA OnlyTiesMissed == Inv => MergedMissesTies
<1> SUFFICES ASSUME Inv, all, anchor # None PROVE MergedMissesTies
  BY DEF MergedMissesTies
<1>1. PICK m \in Nat : m = Len(seen) /\ DOMAIN seen = 1..m
  BY DEF Inv, Typed
<1>2. \A i, j \in 1..m : i < j => seen[i] # seen[j]
  <2>1. ASSUME NEW i \in 1..m, NEW j \in 1..m, i < j, seen[i] = seen[j] PROVE FALSE
    <3>1. <<seen[i], seen[i]>> \in Ordered
      BY <1>1, <2>1 DEF Inv, Followed, InOrder
    <3>2. seen[i] \in Records /\ Before(seen[i], seen[i])
      BY <3>1 DEF Ordered
    <3> QED BY <3>2 DEF Before, Records
  <2> QED BY <2>1
<1>3. seen \in Surjection(1..m, Given) /\ seen \in Injection(1..m, Given)
  <2>1. seen \in [1..m -> Given]
    <3>1. seen \in Seq(Records)
      BY DEF Inv, Typed
    <3>2. seen \in [1..m -> Records]
      BY <1>1, <3>1
    <3>3. \A i \in 1..m : seen[i] \in Given
      BY <1>1 DEF Given
    <3> QED BY <3>2, <3>3
  <2>2. \A g \in Given : \E i \in 1..m : seen[i] = g
    BY <1>1 DEF Given
  <2>3. \A i, j \in 1..m : seen[i] = seen[j] => i = j
    BY <1>2
  <2> QED BY <2>1, <2>2, <2>3 DEF Surjection, Injection, IsInjective
<1>4. Cardinality(Given) = m
  <2>1. IsFiniteSet(1..m) /\ Cardinality(1..m) = m
    <3>1. 1 \in Int /\ m \in Int
      OBVIOUS
    <3> QED BY <3>1, FS_Interval
  <2> QED BY <1>3, <2>1, FS_Surjection
<1> QED BY <1>1, <1>4 DEF Inv, TiesMissed, MergedMissesTies

LEMMA SpansHaveParents == Inv => SpansKeepParents
<1> SUFFICES ASSUME Inv, surface = "otel-spans", NEW s \in Sessions, NEW i \in DOMAIN store[s],
                    store[s][i].type = "tool"
             PROVE  \/ i = 1 /\ Cap % 2 = 1
                    \/ i > 1 /\ store[s][i - 1].type = "turn" /\ store[s][i - 1].id = store[s][i].id - 1
  BY DEF SpansKeepParents
<1>0. Typed /\ ~all /\ Own \in Owners /\ s \in Owners /\ Cap \in Nat
  BY OwnFacts DEF Inv, Typed
<1>1. s = Own
  BY <1>0 DEF Inv, Held
<1>2. PICK v : v = store[s]
  OBVIOUS
<1>3. v \in Seq(Records) /\ wrote \in Seq(Records)
  BY <1>0, <1>2 DEF Typed
<1>4. PICK m, n \in Nat : m = Len(v) /\ n = Len(wrote)
  BY <1>3
<1>5. i \in 1..m /\ DOMAIN wrote = 1..n /\ m <= n
  BY <1>0, <1>1, <1>2, <1>3, <1>4 DEF Inv, Held, Suffix
<1>6. \A j \in 1..m : v[j] = wrote[n - m + j]
  <2>1. Suffix(v, wrote)
    BY <1>0, <1>1, <1>2 DEF Inv, Held
  <2>2. DOMAIN v = 1..m
    BY <1>3, <1>4
  <2> QED BY <1>4, <2>1, <2>2 DEF Suffix
<1>7. n % 2 = 0 /\ (m = n \/ m = Cap)
  BY <1>1, <1>2, <1>4 DEF Inv, Paired
<1>8. \A j \in 1..n : wrote[j].id = j /\ wrote[j].type = IF j % 2 = 0 THEN "tool" ELSE "turn"
  BY <1>5 DEF Inv, Paired, Stamped
<1>9. PICK k \in 1..n : k = n - m + i
  BY <1>5
<1>10. v[i] = wrote[k] /\ k % 2 = 0
  <2>1. v[i] = wrote[k]
    BY <1>5, <1>6, <1>9
  <2> QED BY <1>2, <1>8, <2>1
<1>11. CASE i = 1
  <2>1. (n - m + 1) % 2 = 0
    BY <1>9, <1>10, <1>11
  <2>2. m % 2 = 1
    BY <1>5, <1>7, <2>1
  <2> QED BY <1>7, <1>11, <2>2
<1>12. CASE i # 1
  <2>1. i > 1 /\ i - 1 \in 1..m /\ n - m + (i - 1) = k - 1 /\ k - 1 \in 1..n
    BY <1>5, <1>9, <1>12
  <2>2. v[i - 1] = wrote[k - 1]
    BY <1>6, <2>1
  <2>3. (k - 1) % 2 # 0
    BY <1>10
  <2>4. wrote[k - 1].type = "turn" /\ wrote[k - 1].id = k - 1 /\ wrote[k].id = k
    BY <1>8, <2>1, <2>3
  <2> QED BY <1>2, <1>10, <2>1, <2>2, <2>4
<1> QED BY <1>11, <1>12

\* Following next_after loses nothing and repeats nothing but pages that end on
\* a row without an id, the merged list passes over ties alone, and spans keep
\* their parents.
THEOREM PagesHold == Spec => []PageInv
<1>1. Inv => PageInv
  BY TypesHold, PagesAreWhole, OnlyTiesMissed, SpansHaveParents DEF PageInv
<1> QED BY <1>1, Inductive, PTL

LEMMA ServesEntitled ==
  ASSUME [Next]_vars, call = "inside", code' = 200, call' = "idle"
  PROVE  Serve /\ Entitled
<1>1. Serve
  BY DEF Next, Write, Emit, WriteLog, EmitDecisionSpans, ChainAppend, SinkEvent, NotStore, poll,
         MintToken, Boots, ReadinessFalls, Tick, EndSession, Send, ReaderScopeGuard, vars
<1>2. Answer
  BY <1>1, ServeAnswers
<1>3. Entitled
  BY <1>2 DEF Answer, Refuse, Limited, Deny
<1> QED BY <1>1, <1>3

\* Whoever is served is entitled at that moment.
THEOREM Served == Spec => ServedWhileEntitled
<1>1. [Next]_vars => [call = "inside" /\ code' = 200 /\ call' = "idle" => Entitled]_vars
  BY ServesEntitled
<1> QED BY <1>1, PTL DEF Spec, ServedWhileEntitled, Entitled

LEMMA RefusesHonestly ==
  ASSUME Inv, [Next]_vars, call = "inside", call' = "idle", code' = 429
  PROVE  wait # 0
<1>1. Serve
  BY DEF Next, Write, Emit, WriteLog, EmitDecisionSpans, ChainAppend, SinkEvent, NotStore, poll,
         MintToken, Boots, ReadinessFalls, Tick, EndSession, Send, ReaderScopeGuard, vars
<1>2. Answer
  BY <1>1, ServeAnswers
<1>3. Limited
  BY <1>2, PageIs DEF Answer, Refuse, Deny, Status
<1>4. window \in Seq(Nat) /\ PerMinute \in Nat \ {0} /\ Window \in Nat \ {0} /\ None \notin Nat
  BY OwnFacts, ObserveAssumption DEF Inv, Typed
<1>5. 1 \in DOMAIN window /\ window[1] \in 0..Window - 1
  <2>1. Len(window) \in Nat /\ Len(window) >= 1 /\ DOMAIN window = 1..Len(window)
    BY <1>3, <1>4 DEF Limited
  <2> QED BY <2>1 DEF Inv, Limiting
<1>6. wait # None => wait >= Window - window[1]
  BY <1>3 DEF Inv, Limiting, Limited
<1> QED BY <1>4, <1>5, <1>6

\* A client that waited for Retry-After is not refused again.
THEOREM Honest == Spec => RetryHonest
<1>1. Inv /\ [Next]_vars => [call = "inside" /\ call' = "idle" /\ code' = 429 => wait # 0]_vars
  BY RefusesHonestly
<1> QED BY <1>1, Inductive, PTL DEF Spec, RetryHonest

\* What a client is answered holds when it is answered.
THEOREM AnswersHold == Spec => AnswersHonest
BY Served, Honest, PTL DEF AnswersHonest

-----------------------------------------------------------------------------
(* The audit sink.                                                         *)

(* A row joins the chain once, and is shipped only after that. *)
JoinsOnce ==
  /\ \A i, j \in DOMAIN chain : chain[i] = chain[j] => i = j
  /\ \A r \in ToSet(chain) \cup ToSet(shipped) : pc[r] \notin {"idle", "entered"}

(* The buffer is a part of the chain of this process, in its order. *)
BufferInOrder ==
  /\ ToSet(buffer) \subseteq ToSet(chain)
  /\ \A i, j \in DOMAIN buffer : i < j =>
       \E k, l \in DOMAIN chain : k < l /\ chain[k] = buffer[i] /\ chain[l] = buffer[j]

(* What a flush ships is the front of the buffer; what joins the buffer meanwhile is late. *)
Flushing ==
  /\ flush.pc = "shipping" =>
       /\ flush.next \in 1 .. (Len(flush.snapshot) + 1)
       /\ Len(flush.snapshot) <= Len(buffer)
       /\ \A i \in 1 .. Len(flush.snapshot) : flush.snapshot[i] = buffer[i]
       /\ \A i \in 1 .. Len(flush.snapshot) : i < flush.next => flush.snapshot[i] \in ToSet(shipped)
       /\ \A i \in DOMAIN buffer : i > Len(flush.snapshot) => buffer[i] \in late
  /\ flush.pc \in {"listing", "clearing"} =>
       ToSet(buffer) \subseteq late /\ (crashes = 0 => owed \subseteq late)

(* A row is owed until it is shipped; one whose write is still under way is in the buffer
   until then. *)
Calm ==
  /\ owed \cap ToSet(shipped) = {}
  /\ CalmRowsKept
  /\ crashes = 0 =>
       \A r \in Rows : pc[r] = "buffering" /\ r \notin late => r \in ToSet(buffer) \cup ToSet(shipped)

SinkTyped == SinkTypeOK /\ crashes \in Nat

SinkInv == SinkTyped /\ EventsTellState /\ JoinsOnce /\ BufferInOrder /\ Flushing /\ Calm
  /\ ShippedInOrder
-----------------------------------------------------------------------------
(* What appending does to a sequence and to its set of elements. *)
LEMMA AppendSet ==
  ASSUME NEW S, NEW q \in Seq(S), NEW x \in S
  PROVE  /\ Append(q, x) \in Seq(S) /\ Len(Append(q, x)) = Len(q) + 1 /\ Len(q) \in Nat
         /\ DOMAIN q = 1 .. Len(q) /\ DOMAIN Append(q, x) = 1 .. (Len(q) + 1)
         /\ \A i \in 1 .. Len(q) : Append(q, x)[i] = q[i]
         /\ Append(q, x)[Len(q) + 1] = x
         /\ ToSet(Append(q, x)) = ToSet(q) \cup {x}
<1>1. /\ Append(q, x) \in Seq(S) /\ Len(Append(q, x)) = Len(q) + 1 /\ Len(q) \in Nat
      /\ DOMAIN q = 1 .. Len(q) /\ DOMAIN Append(q, x) = 1 .. (Len(q) + 1)
      /\ \A i \in 1 .. Len(q) : Append(q, x)[i] = q[i]
      /\ Append(q, x)[Len(q) + 1] = x
  OBVIOUS
<1>2. 1 .. (Len(q) + 1) = (1 .. Len(q)) \cup {Len(q) + 1}
  BY <1>1
<1>3. ToSet(Append(q, x)) = ToSet(q) \cup {x}
  BY <1>1, <1>2 DEF ToSet
<1> QED
  BY <1>1, <1>3

LEMMA EmptySet == ToSet(<<>>) = {} /\ DOMAIN <<>> = {} /\ Len(<<>>) = 0
  BY DEF ToSet

(* Who came first stays first, and a newcomer comes after those that are there. *)
LEMMA BeforeGrows ==
  ASSUME NEW q \in Seq(Rows), NEW x \in Rows, NEW a, NEW b
  PROVE  /\ Precedes(q, a, b) => Precedes(Append(q, x), a, b)
         /\ a \in ToSet(q) /\ b \notin ToSet(q) => Precedes(Append(q, x), a, b)
         /\ b # x /\ a \in ToSet(q) /\ Precedes(Append(q, x), a, b) => Precedes(q, a, b)
<1> DEFINE n == Len(q) + 1
           p == Append(q, x)
<1>1. /\ DOMAIN q = 1 .. Len(q) /\ DOMAIN p = 1 .. n /\ Len(q) \in Nat
      /\ p[n] = x /\ \A i \in 1 .. Len(q) : p[i] = q[i]
  BY AppendSet
<1> HIDE DEF p
<1>2. \A i \in DOMAIN q : i \in DOMAIN p /\ i < n /\ p[i] = q[i]
  BY <1>1
<1>3. \A i \in DOMAIN p : i \in DOMAIN q \/ (i = n /\ p[i] = x)
  BY <1>1
<1>4. Precedes(q, a, b) => Precedes(p, a, b)
  <2> SUFFICES ASSUME NEW i \in Positions(q, a), \A j \in Positions(q, b) : i < j
               PROVE  \A j \in Positions(p, b) : i < j /\ i \in Positions(p, a)
    <3>1. ASSUME NEW i \in Positions(q, a), \A j \in Positions(q, b) : i < j,
                 \A j \in Positions(p, b) : i < j /\ i \in Positions(p, a)
          PROVE  Precedes(p, a, b)
      BY <1>2, <3>1 DEF Precedes, Positions
    <3> QED
      BY <3>1 DEF Precedes
  <2> QED
    BY <1>2, <1>3 DEF Positions
<1>5. a \in ToSet(q) /\ b \notin ToSet(q) => Precedes(p, a, b)
  <2> SUFFICES ASSUME a \in ToSet(q), b \notin ToSet(q) PROVE Precedes(p, a, b)
    OBVIOUS
  <2> PICK i \in DOMAIN q : q[i] = a
    BY DEF ToSet
  <2>1. \A j \in Positions(p, b) : i < j
    BY <1>2, <1>3 DEF Positions, ToSet
  <2> QED
    BY <1>2, <2>1 DEF Precedes, Positions
<1>6. b # x /\ a \in ToSet(q) /\ Precedes(p, a, b) => Precedes(q, a, b)
  <2> SUFFICES ASSUME b # x, a \in ToSet(q), Precedes(p, a, b) PROVE Precedes(q, a, b)
    OBVIOUS
  <2> PICK i \in Positions(p, a) : \A j \in Positions(p, b) : i < j
    BY DEF Precedes
  <2>1. \A j \in Positions(q, b) : j \in Positions(p, b)
    BY <1>2 DEF Positions
  <2>2. CASE i \in DOMAIN q
    BY <1>2, <2>1, <2>2 DEF Precedes, Positions
  <2>3. CASE i \notin DOMAIN q
    <3>1. i = n /\ \A j \in Positions(q, b) : FALSE
      BY <1>2, <1>3, <2>1, <2>3 DEF Positions
    <3> QED
      BY <3>1 DEF Precedes, Positions, ToSet
  <2> QED
    BY <2>2, <2>3
<1> QED
  BY <1>4, <1>5, <1>6 DEF p

LEMMA EventFacts ==
  ASSUME NEW s \in States, NEW n \in Nat
  PROVE  /\ EventFor(s, n) \in [type : {TypeFor[t] : t \in States}, records : Nat]
         /\ EventFor(s, n).type = TypeFor[s]
         /\ TypeFor["healthy"] = "AuditSinkRecovered"
  BY DEF EventFor, TypeFor, States

LEMMA BootFacts ==
  /\ BootEvents \in Seq([type : {TypeFor[t] : t \in States}, records : Nat])
  /\ TypeFor[InitialState] = IF BootEvents = <<>> THEN "AuditSinkRecovered" ELSE Last(BootEvents).type
<1> DEFINE e == EventFor(InitialState, 0)
<1>1. /\ e \in [type : {TypeFor[t] : t \in States}, records : Nat]
      /\ e.type = TypeFor[InitialState] /\ TypeFor["healthy"] = "AuditSinkRecovered"
  BY EventFacts, SinkAssumption
<1> HIDE DEF e
<1>2. <<e>> \in Seq([type : {TypeFor[t] : t \in States}, records : Nat]) /\ <<e>> # <<>>
        /\ Last(<<e>>) = e
  BY <1>1 DEF Last
<1>3. CASE InitialState = "healthy"
  <2>1. BootEvents = <<>>
    BY <1>3 DEF BootEvents
  <2> QED
    BY <1>1, <1>3, <2>1
<1>4. CASE InitialState # "healthy"
  <2>1. BootEvents = <<e>>
    BY <1>4 DEF BootEvents, e
  <2> QED
    BY <1>1, <1>2, <2>1
<1> QED
  BY <1>3, <1>4

FlushType == [pc : {"idle", "shipping", "listing", "clearing"}, snapshot : Seq(Rows),
              next : Nat, entries : SUBSET Rows]

LEMMA FlushFacts ==
  ASSUME NEW f \in FlushType
  PROVE  /\ f.snapshot \in Seq(Rows) /\ f.next \in Nat /\ f.entries \subseteq Rows
         /\ Len(f.snapshot) \in Nat /\ DOMAIN f.snapshot = 1 .. Len(f.snapshot)
         /\ \A i \in 1 .. Len(f.snapshot) : f.snapshot[i] \in Rows
<1>1. f.snapshot \in Seq(Rows) /\ f.next \in Nat /\ f.entries \subseteq Rows
  BY DEF FlushType
<1>2. Len(f.snapshot) \in Nat /\ DOMAIN f.snapshot = 1 .. Len(f.snapshot)
  BY <1>1
<1>3. \A i \in 1 .. Len(f.snapshot) : f.snapshot[i] \in Rows
  BY <1>1, ElementOfSeq
<1> QED
  BY <1>1, <1>2, <1>3

LEMMA SinkStarted == SinkInit => SinkInv
<1> SUFFICES ASSUME SinkInit PROVE SinkInv
  OBVIOUS
<1>1. /\ state = InitialState /\ events = BootEvents /\ buffer = <<>> /\ dir = {} /\ chain = <<>>
      /\ pc = [r \in Rows |-> "idle"] /\ flush = NoFlush /\ shipped = <<>> /\ owed = {} /\ late = {}
      /\ crashes = 0
  BY DEF SinkInit
<1>2. NoFlush \in FlushType /\ NoFlush.pc = "idle"
  BY DEF NoFlush, FlushType
<1>3. SinkTyped
  BY <1>1, <1>2, BootFacts, SinkAssumption DEF SinkTyped, SinkTypeOK, FlushType
<1>4. EventsTellState
  BY <1>1, BootFacts DEF EventsTellState
<1>5. JoinsOnce /\ BufferInOrder /\ Calm /\ ShippedInOrder
  BY <1>1, EmptySet DEF JoinsOnce, BufferInOrder, Calm, CalmRowsKept, ShippedInOrder
<1>6. Flushing
  BY <1>1, <1>2 DEF Flushing
<1> QED
  BY <1>3, <1>4, <1>5, <1>6 DEF SinkInv

LEMMA SinkTypeStep ==
  ASSUME SinkTyped, Flushing, [SinkNext]_sinkVars
  PROVE  SinkTyped'
<1> DEFINE EventType == [type : {TypeFor[s] : s \in States}, records : Nat]
           PcType == {"idle", "entered", "buffering", "recorded", "failed", "lost"}
<1>1. /\ state \in States /\ buffer \in Seq(Rows) /\ chain \in Seq(Rows) /\ shipped \in Seq(Rows)
      /\ dir \subseteq Rows /\ owed \subseteq Rows /\ late \subseteq Rows
      /\ pc \in [Rows -> PcType] /\ flush \in FlushType /\ events \in Seq(EventType)
      /\ crashes \in Nat
  BY DEF SinkTyped, SinkTypeOK, FlushType
<1>2. SUFFICES /\ state' \in States /\ buffer' \in Seq(Rows) /\ chain' \in Seq(Rows)
               /\ shipped' \in Seq(Rows)
               /\ dir' \subseteq Rows /\ owed' \subseteq Rows /\ late' \subseteq Rows
               /\ pc' \in [Rows -> PcType] /\ flush' \in FlushType /\ events' \in Seq(EventType)
               /\ crashes' \in Nat
  BY DEF SinkTyped, SinkTypeOK, FlushType
<1> HIDE DEF EventType
<1>3. ASSUME NEW r \in Rows, RecordAuditRow(r) \/ Buffered(r) \/ BufferFails(r)
               \/ \E k \in Risks : Admit(r, k)
      PROVE  /\ buffer' \in Seq(Rows) /\ chain' \in Seq(Rows) /\ dir' \subseteq Rows
             /\ owed' \subseteq Rows /\ late' \subseteq Rows /\ pc' \in [Rows -> PcType]
             /\ UNCHANGED <<state, shipped, flush, events, crashes>>
  <2>1. CASE RecordAuditRow(r)
    <3>1. chain' = Append(chain, r) /\ buffer' \in {buffer, Append(buffer, r)}
            /\ late' \subseteq late \cup {r}
      BY <2>1 DEF RecordAuditRow
    <3>2. Append(chain, r) \in Seq(Rows) /\ Append(buffer, r) \in Seq(Rows)
      BY <1>1
    <3>3. pc' \in [Rows -> PcType]
      BY <1>1, <2>1 DEF RecordAuditRow
    <3>4. UNCHANGED <<state, shipped, flush, events, crashes, dir, owed>>
      BY <2>1 DEF RecordAuditRow, counters
    <3> QED
      BY <1>1, <3>1, <3>2, <3>3, <3>4
  <2>2. CASE Buffered(r)
    BY <1>1, <2>2 DEF Buffered, counters
  <2>3. CASE BufferFails(r) \/ \E k \in Risks : Admit(r, k)
    BY <1>1, <2>3 DEF BufferFails, Admit, history, counters
  <2> QED
    BY <1>3, <2>1, <2>2, <2>3
<1>4. ASSUME NEW next \in States, TransitionTo(next)
      PROVE  /\ state' \in States /\ events' \in Seq(EventType)
             /\ UNCHANGED <<buffer, dir, chain, pc, flush, shipped, owed, late, crashes>>
  <2>1. EventFor(next, Len(buffer)) \in EventType
    BY <1>1, EventFacts DEF EventType
  <2>2. Append(events, EventFor(next, Len(buffer))) \in Seq(EventType)
    BY <1>1, <2>1, AppendSet
  <2> QED
    BY <1>4, <2>2 DEF TransitionTo, history
<1>5. CASE FlushBegin \/ ShipFails \/ ListFails \/ ListPending
  <2>1. flush' \in FlushType
    <3>1. CASE FlushBegin
      BY <1>1, <3>1 DEF FlushBegin, NoFlush, FlushType
    <3>2. CASE ShipFails
      BY <3>2 DEF ShipFails, NoFlush, FlushType
    <3>3. CASE ListFails
      BY <3>3 DEF ListFails, NoFlush, FlushType
    <3>4. CASE ListPending
      BY <1>1, <3>4 DEF ListPending, FlushType
    <3> QED
      BY <1>5, <3>1, <3>2, <3>3, <3>4
  <2> QED
    BY <1>1, <1>5, <2>1 DEF FlushBegin, ShipFails, ListFails, ListPending, history, counters
<1>6. CASE Ship
  <2>1. flush.next \in 1 .. Len(flush.snapshot)
    BY <1>1, <1>6, FlushFacts DEF Ship, Flushing
  <2>2. flush.snapshot[flush.next] \in Rows
    BY <1>1, <2>1, FlushFacts
  <2>3. flush' \in FlushType
    <3>1. flush' = [flush EXCEPT !.next = @ + 1] /\ flush \in FlushType /\ flush.next + 1 \in Nat
      BY <1>1, <1>6, FlushFacts DEF Ship
    <3> QED
      BY <3>1 DEF FlushType
  <2>4. owed' \subseteq Rows /\ UNCHANGED <<state, buffer, dir, chain, pc, events, late, crashes>>
    BY <1>1, <1>6 DEF Ship, counters
  <2>5. shipped' \in Seq(Rows)
    BY <1>1, <1>6, <2>2 DEF Ship
  <2> QED
    BY <1>1, <2>3, <2>4, <2>5
<1>7. CASE ClearBuffer
  <2>1. flush' \in FlushType
    BY <1>1, <1>7 DEF ClearBuffer, FlushType
  <2>2. buffer' \in Seq(Rows) /\ UNCHANGED <<state, dir, chain, pc, shipped, events, owed, late,
          crashes>>
    BY <1>7 DEF ClearBuffer, history, counters
  <2> QED
    BY <1>1, <2>1, <2>2
<1>8. ASSUME NEW r \in Rows, Unlink(r)
      PROVE  /\ flush' \in FlushType /\ dir' \subseteq Rows
             /\ UNCHANGED <<state, buffer, chain, pc, shipped, events, owed, late, crashes>>
  BY <1>1, <1>8 DEF Unlink, FlushType, history
<1>9. CASE Recovered
  <2>1. EventFor("healthy", Len(flush.snapshot)) \in EventType
    BY <1>1, EventFacts, FlushFacts DEF EventType, States
  <2>2. Append(events, EventFor("healthy", Len(flush.snapshot))) \in Seq(EventType)
    BY <1>1, <2>1, AppendSet
  <2>3. NoFlush \in FlushType
    BY DEF NoFlush, FlushType
  <2>4. UNCHANGED <<buffer, dir, chain, pc, shipped, owed, late, crashes>>
    BY <1>9 DEF Recovered, history, counters
  <2> QED
    BY <1>1, <1>9, <2>2, <2>3, <2>4 DEF Recovered, States
<1>10. CASE Crash
  <2>1. pc' \in [Rows -> PcType]
    BY <1>1, <1>10 DEF Crash
  <2>2. NoFlush \in FlushType
    BY DEF NoFlush, FlushType
  <2>3. BootEvents \in Seq(EventType)
    BY BootFacts DEF EventType
  <2>4. crashes' \in Nat /\ UNCHANGED <<dir, shipped, owed, late>>
    BY <1>1, <1>10 DEF Crash, history
  <2> QED
    BY <1>1, <1>10, <2>1, <2>2, <2>3, <2>4, SinkAssumption DEF Crash
<1>11. CASE UNCHANGED sinkVars
  BY <1>1, <1>11 DEF sinkVars, history, counters
<1> QED
  BY <1>1, <1>3, <1>4, <1>5, <1>6, <1>7, <1>8, <1>9, <1>10, <1>11 DEF SinkNext

LEMMA EventStep ==
  ASSUME SinkTyped, EventsTellState, [SinkNext]_sinkVars
  PROVE  EventsTellState'
<1> DEFINE EventType == [type : {TypeFor[s] : s \in States}, records : Nat]
<1>1. events \in Seq(EventType) /\ state \in States /\ flush \in FlushType /\ buffer \in Seq(Rows)
  BY DEF SinkTyped, SinkTypeOK, FlushType
<1>2. ASSUME NEW s \in States, NEW n \in Nat, events' = Append(events, EventFor(s, n)), state' = s
      PROVE  EventsTellState'
  <2>1. EventFor(s, n) \in EventType /\ EventFor(s, n).type = TypeFor[s]
    BY EventFacts
  <2> HIDE DEF EventType
  <2>2. events' # <<>> /\ Last(events') = EventFor(s, n)
    BY <1>1, <1>2, <2>1, AppendSet DEF Last
  <2> QED
    BY <1>2, <2>1, <2>2 DEF EventsTellState
<1>3. ASSUME NEW s \in States, TransitionTo(s)
      PROVE  EventsTellState'
  BY <1>1, <1>2, <1>3 DEF TransitionTo
<1>4. CASE Recovered
  <2>1. CASE state = "healthy"
    BY <1>4, <2>1 DEF Recovered, EventsTellState
  <2>2. CASE state # "healthy"
    BY <1>1, <1>2, <1>4, <2>2, FlushFacts DEF Recovered, States
  <2> QED
    BY <2>1, <2>2
<1>5. CASE Crash
  BY <1>5, BootFacts DEF Crash, EventsTellState
<1>6. CASE UNCHANGED <<state, events>>
  BY <1>6 DEF EventsTellState
<1> QED
  BY <1>3, <1>4, <1>5, <1>6 DEF SinkNext, RecordAuditRow, Buffered, BufferFails, Unlink, Admit,
       FlushBegin, Ship,
     ShipFails, ListFails, ClearBuffer, ListPending, sinkVars

(* The rows of the sequences a step looks at. *)
LEMMA SeqFacts ==
  ASSUME SinkTyped
  PROVE  /\ buffer \in Seq(Rows) /\ chain \in Seq(Rows) /\ shipped \in Seq(Rows)
         /\ Len(buffer) \in Nat /\ DOMAIN buffer = 1 .. Len(buffer)
         /\ Len(chain) \in Nat /\ DOMAIN chain = 1 .. Len(chain)
         /\ \A i \in DOMAIN buffer : buffer[i] \in Rows /\ buffer[i] \in ToSet(buffer)
         /\ flush \in FlushType
<1>1. /\ buffer \in Seq(Rows) /\ chain \in Seq(Rows) /\ shipped \in Seq(Rows) /\ flush \in FlushType
  BY DEF SinkTyped, SinkTypeOK, FlushType
<1>2. \A i \in DOMAIN buffer : buffer[i] \in Rows
  BY <1>1, ElementOfSeq
<1> QED
  BY <1>1, <1>2 DEF ToSet

(* The row a ship takes is the one at the same place of the buffer. *)
LEMMA ShipFacts ==
  ASSUME SinkInv, Ship
  PROVE  LET n == flush.next
             b == flush.snapshot[n]
         IN
         /\ n \in DOMAIN buffer /\ buffer[n] = b /\ b \in Rows /\ b \in ToSet(chain)
         /\ \A i \in DOMAIN buffer : i < n => buffer[i] \in ToSet(shipped)
         /\ shipped' = Append(shipped, b) /\ ToSet(shipped') = ToSet(shipped) \cup {b}
<1>1. /\ flush.pc = "shipping" /\ flush.next <= Len(flush.snapshot)
      /\ shipped' = Append(shipped, flush.snapshot[flush.next])
  BY DEF Ship
<1>2. /\ Len(flush.snapshot) \in Nat /\ flush.next \in 1 .. Len(flush.snapshot)
      /\ Len(flush.snapshot) <= Len(buffer) /\ Len(buffer) \in Nat /\ DOMAIN buffer = 1 .. Len(buffer)
  BY <1>1, SeqFacts, FlushFacts DEF SinkInv, Flushing
<1>3. /\ \A i \in 1 .. Len(flush.snapshot) : flush.snapshot[i] = buffer[i]
      /\ \A i \in 1 .. Len(flush.snapshot) : i < flush.next => flush.snapshot[i] \in ToSet(shipped)
  BY <1>1 DEF SinkInv, Flushing
<1>4. flush.next \in DOMAIN buffer /\ buffer[flush.next] = flush.snapshot[flush.next]
  BY <1>2, <1>3
<1>5. flush.snapshot[flush.next] \in Rows /\ flush.snapshot[flush.next] \in ToSet(buffer)
  BY <1>4, SeqFacts DEF SinkInv
<1>6. flush.snapshot[flush.next] \in ToSet(chain)
  BY <1>5 DEF SinkInv, BufferInOrder
<1>7. \A i \in DOMAIN buffer : i < flush.next => buffer[i] \in ToSet(shipped)
  BY <1>2, <1>3
<1>8. ToSet(shipped') = ToSet(shipped) \cup {flush.snapshot[flush.next]}
  BY <1>1, <1>5, SeqFacts, AppendSet DEF SinkInv
<1> QED
  BY <1>1, <1>4, <1>5, <1>6, <1>7, <1>8

(* A record appends a row that was nowhere before. *)
LEMMA RowFacts ==
  ASSUME SinkInv, NEW r \in Rows, RecordAuditRow(r)
  PROVE  /\ chain' = Append(chain, r) /\ r \notin ToSet(chain) /\ r \notin ToSet(shipped)
         /\ r \notin ToSet(buffer)
         /\ ToSet(chain') = ToSet(chain) \cup {r}
         /\ \/ buffer' = buffer /\ pc' = [pc EXCEPT ![r] = "recorded"]
            \/ /\ buffer' = Append(buffer, r) /\ ToSet(buffer') = ToSet(buffer) \cup {r}
               /\ pc' = [pc EXCEPT ![r] = "buffering"]
         /\ flush.pc # "idle" => r \in late'
         /\ late \subseteq late' /\ late' \subseteq late \cup {r}
         /\ UNCHANGED <<state, dir, flush, shipped, owed, crashes>>
<1>1. r \notin ToSet(chain) /\ r \notin ToSet(shipped)
  BY DEF RecordAuditRow, SinkInv, JoinsOnce
<1>2. r \notin ToSet(buffer)
  BY <1>1 DEF SinkInv, BufferInOrder
<1>3. ToSet(Append(chain, r)) = ToSet(chain) \cup {r} /\ ToSet(Append(buffer, r)) = ToSet(buffer)
        \cup {r}
  BY SeqFacts, AppendSet DEF SinkInv
<1>4. UNCHANGED <<state, dir, flush, shipped, owed, crashes>> /\ chain' = Append(chain, r)
  BY DEF RecordAuditRow, counters
<1>5. \/ buffer' = buffer /\ pc' = [pc EXCEPT ![r] = "recorded"]
      \/ buffer' = Append(buffer, r) /\ pc' = [pc EXCEPT ![r] = "buffering"]
  BY DEF RecordAuditRow
<1>6. late' = IF flush.pc = "idle" THEN late ELSE late \cup {r}
  BY DEF RecordAuditRow
<1> QED
  BY <1>1, <1>2, <1>3, <1>4, <1>5, <1>6

LEMMA OnceStep ==
  ASSUME SinkInv, [SinkNext]_sinkVars
  PROVE  JoinsOnce'
<1>1. /\ pc \in [Rows -> {"idle", "entered", "buffering", "recorded", "failed", "lost"}]
      /\ ToSet(chain) \subseteq Rows /\ ToSet(shipped) \subseteq Rows
      /\ chain \in Seq(Rows) /\ JoinsOnce /\ ToSet(buffer) \subseteq ToSet(chain)
  <2>1. \A q \in Seq(Rows) : ToSet(q) \subseteq Rows
    BY ElementOfSeq DEF ToSet
  <2> QED
    BY <2>1 DEF SinkInv, SinkTyped, SinkTypeOK, BufferInOrder
<1>2. ASSUME NEW r \in Rows, RecordAuditRow(r)
      PROVE  JoinsOnce'
  <2>1. /\ chain' = Append(chain, r) /\ r \notin ToSet(chain) /\ ToSet(chain') = ToSet(chain) \cup {r}
        /\ shipped' = shipped
        /\ pc' = [pc EXCEPT ![r] = "recorded"] \/ pc' = [pc EXCEPT ![r] = "buffering"]
    BY <1>2, RowFacts
  <2>2. \A i, j \in DOMAIN chain' : chain'[i] = chain'[j] => i = j
    <3>1. /\ DOMAIN chain = 1 .. Len(chain) /\ DOMAIN chain' = 1 .. (Len(chain) + 1)
          /\ Len(chain) \in Nat /\ chain'[Len(chain) + 1] = r
          /\ \A i \in 1 .. Len(chain) : chain'[i] = chain[i]
      BY <1>1, <2>1, AppendSet
    <3>2. \A i \in DOMAIN chain : chain[i] # r
      BY <2>1 DEF ToSet
    <3>3. \A i, j \in DOMAIN chain : chain[i] = chain[j] => i = j
      BY <1>1 DEF JoinsOnce
    <3>4. \A i \in DOMAIN chain' : i \in DOMAIN chain \/ i = Len(chain) + 1
      BY <3>1
    <3> QED
      BY <3>1, <3>2, <3>3, <3>4
  <2>3. \A q \in ToSet(chain') \cup ToSet(shipped') : pc'[q] \notin {"idle", "entered"}
    BY <1>1, <2>1 DEF JoinsOnce
  <2> QED
    BY <2>2, <2>3 DEF JoinsOnce
<1>3. ASSUME NEW r \in Rows, Buffered(r) \/ BufferFails(r) \/ \E k \in Risks : Admit(r, k)
      PROVE  JoinsOnce'
  <2>1. /\ chain' = chain /\ shipped' = shipped /\ pc[r] \in {"buffering", "idle"}
        /\ \E w : pc' = [pc EXCEPT ![r] = w] /\ (pc[r] = "buffering" => w \notin {"idle", "entered"})
    BY <1>3 DEF Buffered, BufferFails, Admit
  <2>2. \A q \in ToSet(chain) \cup ToSet(shipped) : pc'[q] \notin {"idle", "entered"}
    BY <1>1, <2>1 DEF JoinsOnce
  <2> QED
    BY <1>1, <2>1, <2>2 DEF JoinsOnce
<1>4. CASE Ship
  <2>1. /\ ToSet(shipped') \subseteq ToSet(shipped) \cup ToSet(chain) /\ chain' = chain /\ pc' = pc
    BY <1>4, ShipFacts DEF Ship
  <2> QED
    BY <1>1, <2>1 DEF JoinsOnce
<1>5. CASE Crash
  <2>1. chain' = <<>> /\ shipped' = shipped /\ \A r \in Rows : pc'[r] = "lost" \/ pc'[r] = pc[r]
    BY <1>5 DEF Crash
  <2> QED
    BY <1>1, <2>1, EmptySet DEF JoinsOnce
<1>6. CASE UNCHANGED <<chain, shipped, pc>>
  BY <1>1, <1>6 DEF JoinsOnce
<1> QED
  BY <1>2, <1>3, <1>4, <1>5, <1>6 DEF SinkNext, TransitionTo, Unlink, FlushBegin,
     ShipFails, ListFails, ClearBuffer, ListPending, Recovered, sinkVars

LEMMA OrderStep ==
  ASSUME SinkInv, [SinkNext]_sinkVars
  PROVE  BufferInOrder'
<1>1. BufferInOrder
  BY DEF SinkInv
<1>2. ASSUME NEW r \in Rows, RecordAuditRow(r)
      PROVE  BufferInOrder'
  <2>1. /\ DOMAIN chain = 1 .. Len(chain) /\ DOMAIN chain' = 1 .. (Len(chain) + 1)
        /\ Len(chain) \in Nat /\ chain'[Len(chain) + 1] = r
        /\ \A i \in 1 .. Len(chain) : chain'[i] = chain[i]
        /\ ToSet(chain') = ToSet(chain) \cup {r}
    BY <1>2, RowFacts, SeqFacts, AppendSet DEF SinkInv
  <2>2. \A k \in DOMAIN chain : k \in DOMAIN chain' /\ chain'[k] = chain[k] /\ k < Len(chain) + 1
    BY <2>1
  <2>3. CASE buffer' = buffer
    BY <1>1, <2>1, <2>2, <2>3 DEF BufferInOrder
  <2>4. CASE buffer' = Append(buffer, r) /\ ToSet(buffer') = ToSet(buffer) \cup {r}
    <3>1. /\ DOMAIN buffer = 1 .. Len(buffer) /\ DOMAIN buffer' = 1 .. (Len(buffer) + 1)
          /\ Len(buffer) \in Nat /\ buffer'[Len(buffer) + 1] = r
          /\ \A i \in 1 .. Len(buffer) : buffer'[i] = buffer[i]
      BY <2>4, SeqFacts, AppendSet DEF SinkInv
    <3>2. ASSUME NEW i \in DOMAIN buffer', NEW j \in DOMAIN buffer', i < j
          PROVE  \E k, l \in DOMAIN chain' : k < l /\ chain'[k] = buffer'[i] /\ chain'[l] = buffer'[j]
      <4>1. i \in DOMAIN buffer /\ buffer'[i] = buffer[i]
        BY <3>1, <3>2
      <4>2. CASE j \in DOMAIN buffer
        <5>1. buffer'[j] = buffer[j]
          BY <3>1, <4>2
        <5>2. PICK k \in DOMAIN chain, l \in DOMAIN chain :
                k < l /\ chain[k] = buffer[i] /\ chain[l] = buffer[j]
          BY <1>1, <3>2, <4>1, <4>2 DEF BufferInOrder
        <5> QED
          BY <2>2, <4>1, <5>1, <5>2
      <4>3. CASE j \notin DOMAIN buffer
        <5>1. j = Len(buffer) + 1 /\ buffer'[j] = r
          BY <3>1, <4>3
        <5>2. buffer[i] \in ToSet(chain)
          BY <1>1, <4>1 DEF BufferInOrder, ToSet
        <5>3. PICK k \in DOMAIN chain : chain[k] = buffer[i]
          BY <5>2 DEF ToSet
        <5>4. Len(chain) + 1 \in DOMAIN chain'
          BY <2>1
        <5> QED
          BY <2>1, <2>2, <4>1, <5>1, <5>3, <5>4
      <4> QED
        BY <4>2, <4>3
    <3>3. ToSet(buffer') \subseteq ToSet(chain')
      BY <1>1, <2>1, <2>4 DEF BufferInOrder
    <3> QED
      BY <3>2, <3>3 DEF BufferInOrder
  <2> QED
    BY <1>2, <2>3, <2>4, RowFacts
<1>3. CASE buffer' = <<>>
  BY <1>3, EmptySet DEF BufferInOrder
<1>4. CASE UNCHANGED <<buffer, chain>>
  BY <1>1, <1>4 DEF BufferInOrder
<1> QED
  BY <1>2, <1>3, <1>4 DEF SinkNext, Admit, Buffered, BufferFails, Ship, Crash, TransitionTo, Unlink,
       FlushBegin,
     ShipFails, ListFails, ClearBuffer, ListPending, Recovered, sinkVars

LEMMA FlushStep ==
  ASSUME SinkInv, [SinkNext]_sinkVars
  PROVE  Flushing'
<1>1. Flushing /\ SinkTyped
  BY DEF SinkInv
<1>2. ASSUME NEW r \in Rows, RecordAuditRow(r)
      PROVE  Flushing'
  <2>1. /\ UNCHANGED <<flush, shipped, owed, crashes>> /\ late \subseteq late'
        /\ flush.pc # "idle" => r \in late'
        /\ \/ buffer' = buffer
           \/ buffer' = Append(buffer, r) /\ ToSet(buffer') = ToSet(buffer) \cup {r}
    BY <1>2, RowFacts
  <2>2. CASE buffer' = buffer
    BY <1>1, <2>1, <2>2 DEF Flushing
  <2>3. CASE buffer' = Append(buffer, r) /\ ToSet(buffer') = ToSet(buffer) \cup {r}
    <3>1. /\ DOMAIN buffer = 1 .. Len(buffer) /\ DOMAIN buffer' = 1 .. (Len(buffer) + 1)
          /\ Len(buffer) \in Nat /\ buffer'[Len(buffer) + 1] = r /\ Len(buffer') = Len(buffer) + 1
          /\ \A i \in 1 .. Len(buffer) : buffer'[i] = buffer[i]
      BY <1>1, <2>3, SeqFacts, AppendSet
    <3>2. CASE flush.pc = "shipping"
      <4> DEFINE n == Len(flush.snapshot)
      <4>1. n \in Nat
        BY <1>1, SeqFacts, FlushFacts
      <4>2. n <= Len(buffer) /\ \A i \in 1 .. n : flush.snapshot[i] = buffer[i]
        BY <1>1, <3>2 DEF Flushing
      <4>3. n <= Len(buffer') /\ \A i \in 1 .. n : flush.snapshot[i] = buffer'[i]
        BY <3>1, <4>1, <4>2
      <4>4. \A i \in DOMAIN buffer' : i > n => buffer'[i] \in late'
        <5>1. \A i \in DOMAIN buffer' : i \in DOMAIN buffer \/ i = Len(buffer) + 1
          BY <3>1
        <5>2. \A i \in DOMAIN buffer : i > n => buffer[i] \in late
          BY <1>1, <3>2 DEF Flushing
        <5> QED
          BY <2>1, <3>1, <3>2, <5>1, <5>2
      <4> QED
        BY <1>1, <2>1, <3>2, <4>3, <4>4 DEF Flushing
    <3>3. CASE flush.pc # "shipping"
      BY <1>1, <2>1, <2>3, <3>3 DEF Flushing
    <3> QED
      BY <3>2, <3>3
  <2> QED
    BY <2>1, <2>2, <2>3
<1>3. ASSUME NEW r \in Rows, Buffered(r)
      PROVE  Flushing'
  <2>1. /\ UNCHANGED <<flush, shipped, buffer, late, crashes>>
        /\ owed' = owed \cup ({r} \ ToSet(shipped)) /\ pc[r] = "buffering"
    BY <1>3 DEF Buffered, counters
  <2>2. CASE flush.pc \in {"listing", "clearing"} /\ crashes = 0
    <3>1. r \in late \/ r \in ToSet(buffer) \cup ToSet(shipped)
      BY <2>1, <2>2 DEF SinkInv, Calm
    <3>2. owed' \subseteq late
      BY <1>1, <2>1, <2>2, <3>1 DEF Flushing
    <3> QED
      BY <1>1, <2>1, <2>2, <3>2 DEF Flushing
  <2>3. CASE ~(flush.pc \in {"listing", "clearing"} /\ crashes = 0)
    BY <1>1, <2>1, <2>3 DEF Flushing
  <2> QED
    BY <2>2, <2>3
<1>4. CASE FlushBegin
  <2>1. /\ flush'.pc = "shipping" /\ flush'.snapshot = buffer /\ flush'.next = 1
        /\ UNCHANGED <<shipped, buffer, late>>
    BY <1>4 DEF FlushBegin, NoFlush, history
  <2>2. Len(buffer) \in Nat /\ DOMAIN buffer = 1 .. Len(buffer)
    BY <1>1, SeqFacts
  <2> QED
    BY <2>1, <2>2 DEF Flushing
<1>5. CASE Ship
  <2> DEFINE n == Len(flush.snapshot)
  <2>1. /\ flush.pc = "shipping" /\ flush'.pc = "shipping" /\ flush'.snapshot = flush.snapshot
        /\ flush'.next = flush.next + 1 /\ flush.next <= n
        /\ UNCHANGED <<buffer, late>>
    BY <1>1, <1>5, SeqFacts DEF Ship, FlushType
  <2>2. n \in Nat /\ flush.next \in Nat /\ flush.next \in 1 .. (n + 1)
    BY <1>1, <2>1, SeqFacts, FlushFacts DEF Flushing
  <2>3. ToSet(shipped') = ToSet(shipped) \cup {flush.snapshot[flush.next]}
    BY <1>5, ShipFacts
  <2>4. \A i \in 1 .. n : i < flush.next + 1 => flush.snapshot[i] \in ToSet(shipped')
    <3>1. \A i \in 1 .. n : i < flush.next + 1 => i < flush.next \/ i = flush.next
      BY <2>2
    <3>2. \A i \in 1 .. n : i < flush.next => flush.snapshot[i] \in ToSet(shipped)
      BY <1>1, <2>1 DEF Flushing
    <3> QED
      BY <2>3, <3>1, <3>2
  <2>5. flush.next + 1 \in 1 .. (n + 1)
    BY <2>1, <2>2
  <2> QED
    BY <1>1, <2>1, <2>4, <2>5 DEF Flushing
<1>6. CASE ShipFails \/ ListFails \/ Recovered \/ Crash
  <2>1. flush'.pc = "idle"
    BY <1>6 DEF ShipFails, ListFails, Recovered, Crash, NoFlush
  <2> QED
    BY <2>1 DEF Flushing
<1>7. CASE ClearBuffer
  <2>1. /\ flush.pc = "shipping" /\ flush.next > Len(flush.snapshot) /\ flush'.pc = "listing"
        /\ buffer' = <<>> /\ UNCHANGED <<owed, late, crashes>>
    BY <1>1, <1>7, SeqFacts DEF ClearBuffer, FlushType, history, counters
  <2>2. ASSUME crashes = 0 PROVE owed \subseteq late
    <3> SUFFICES ASSUME NEW r \in owed, r \notin late PROVE FALSE
      OBVIOUS
    <3>1. r \in ToSet(buffer) /\ r \notin ToSet(shipped)
      BY <2>2 DEF SinkInv, Calm, CalmRowsKept
    <3> PICK i \in DOMAIN buffer : buffer[i] = r
      BY <3>1 DEF ToSet
    <3>2. Len(flush.snapshot) \in Nat /\ i \in Nat /\ i >= 1 /\ flush.next \in Nat
      BY <1>1, SeqFacts, FlushFacts
    <3>3. ~(i > Len(flush.snapshot))
      BY <1>1, <2>1 DEF Flushing
    <3>4. i \in 1 .. Len(flush.snapshot) /\ i < flush.next
      BY <2>1, <3>2, <3>3
    <3> QED
      BY <1>1, <2>1, <3>1, <3>4 DEF Flushing
  <2> QED
    BY <2>1, <2>2, EmptySet DEF Flushing
<1>8. CASE ListPending
  <2>1. flush.pc = "listing" /\ flush'.pc = "clearing" /\ UNCHANGED <<buffer, owed, late, crashes>>
    BY <1>1, <1>8, SeqFacts DEF ListPending, FlushType, history, counters
  <2> QED
    BY <1>1, <2>1 DEF Flushing
<1>9. ASSUME NEW r \in Rows, Unlink(r)
      PROVE  Flushing'
  <2>1. flush.pc = "clearing" /\ flush'.pc = "clearing" /\ UNCHANGED <<buffer, owed, late, crashes>>
    BY <1>1, <1>9, SeqFacts DEF Unlink, FlushType, history
  <2> QED
    BY <1>1, <2>1 DEF Flushing
<1>10. CASE UNCHANGED <<flush, shipped, buffer, owed, late, crashes>>
  BY <1>1, <1>10 DEF Flushing
<1> QED
  BY <1>2, <1>3, <1>4, <1>5, <1>6, <1>7, <1>8, <1>9, <1>10 DEF SinkNext, Admit, BufferFails,
       TransitionTo,
     sinkVars, history, counters

LEMMA CalmStep ==
  ASSUME SinkInv, [SinkNext]_sinkVars
  PROVE  Calm'
<1>1. Calm /\ SinkTyped /\ ToSet(buffer) \subseteq Rows
      /\ pc \in [Rows -> {"idle", "entered", "buffering", "recorded", "failed", "lost"}]
  BY SeqFacts DEF SinkInv, SinkTyped, SinkTypeOK, ToSet
<1>2. ASSUME NEW r \in Rows, RecordAuditRow(r)
      PROVE  Calm'
  <2>1. /\ UNCHANGED <<dir, flush, shipped, owed, crashes>> /\ late \subseteq late'
        /\ \/ buffer' = buffer /\ pc' = [pc EXCEPT ![r] = "recorded"]
           \/ /\ ToSet(buffer') = ToSet(buffer) \cup {r}
              /\ pc' = [pc EXCEPT ![r] = "buffering"]
    BY <1>2, RowFacts
  <2> QED
    BY <1>1, <2>1 DEF Calm, CalmRowsKept
<1>3. ASSUME NEW r \in Rows, Buffered(r)
      PROVE  Calm'
  <2>1. /\ UNCHANGED <<flush, shipped, buffer, late, crashes>> /\ dir' = dir \cup {r}
        /\ owed' = owed \cup ({r} \ ToSet(shipped)) /\ pc[r] = "buffering"
        /\ pc' = [pc EXCEPT ![r] = "recorded"]
    BY <1>3 DEF Buffered, counters
  <2>2. owed' \cap ToSet(shipped') = {}
    BY <1>1, <2>1 DEF Calm
  <2>3. CalmRowsKept'
    BY <1>1, <2>1 DEF Calm, CalmRowsKept
  <2> QED
    BY <1>1, <2>1, <2>2, <2>3 DEF Calm
<1>4. ASSUME NEW r \in Rows, BufferFails(r) \/ \E k \in Risks : Admit(r, k)
      PROVE  Calm'
  <2>1. /\ UNCHANGED <<buffer, shipped, owed, late, crashes>> /\ dir \subseteq dir'
        /\ \E w \in {"failed", "entered"} : pc' = [pc EXCEPT ![r] = w]
    BY <1>4 DEF BufferFails, Admit, history, counters
  <2> QED
    BY <1>1, <2>1 DEF Calm, CalmRowsKept
<1>5. CASE Ship
  <2>1. /\ ToSet(shipped') = ToSet(shipped) \cup {flush.snapshot[flush.next]}
        /\ owed' = owed \ {flush.snapshot[flush.next]}
        /\ UNCHANGED <<buffer, dir, pc, late, crashes>>
    BY <1>5, ShipFacts DEF Ship, counters
  <2> QED
    BY <1>1, <2>1 DEF Calm, CalmRowsKept
<1>6. CASE ClearBuffer
  <2>1. /\ flush.pc = "shipping" /\ flush.next > Len(flush.snapshot) /\ buffer' = <<>>
        /\ UNCHANGED <<dir, pc, shipped, owed, late, crashes>>
    BY <1>6 DEF ClearBuffer, history, counters
  <2>2. ToSet(buffer) \subseteq late \cup ToSet(shipped)
    <3> SUFFICES ASSUME NEW i \in DOMAIN buffer, buffer[i] \notin late
                 PROVE  buffer[i] \in ToSet(shipped)
      BY DEF ToSet
    <3>1. Len(flush.snapshot) \in Nat /\ i \in Nat /\ i >= 1 /\ flush.next \in Nat
      BY <1>1, SeqFacts, FlushFacts
    <3>2. ~(i > Len(flush.snapshot))
      BY <2>1 DEF SinkInv, Flushing
    <3>3. i \in 1 .. Len(flush.snapshot) /\ i < flush.next
      BY <2>1, <3>1, <3>2
    <3> QED
      BY <2>1, <3>3 DEF SinkInv, Flushing
  <2>3. crashes = 0 => owed \subseteq late
    BY <1>1, <2>2 DEF Calm, CalmRowsKept
  <2> QED
    BY <1>1, <2>1, <2>2, <2>3 DEF Calm, CalmRowsKept
<1>7. ASSUME NEW r \in Rows, Unlink(r)
      PROVE  Calm'
  <2>1. /\ flush.pc = "clearing" /\ UNCHANGED <<buffer, pc, shipped, owed, late, crashes>>
    BY <1>7 DEF Unlink, history
  <2>2. crashes = 0 => owed \subseteq late
    BY <2>1 DEF SinkInv, Flushing
  <2> QED
    BY <1>1, <2>1, <2>2 DEF Calm, CalmRowsKept
<1>8. CASE Crash
  <2>1. crashes' # 0 /\ UNCHANGED <<owed, shipped>>
    BY <1>1, <1>8 DEF Crash, SinkTyped, history
  <2> QED
    BY <1>1, <2>1 DEF Calm, CalmRowsKept
<1>9. CASE UNCHANGED <<buffer, dir, pc, shipped, owed, late, crashes>>
  BY <1>1, <1>9 DEF Calm, CalmRowsKept
<1> QED
  BY <1>2, <1>3, <1>4, <1>5, <1>6, <1>7, <1>8, <1>9 DEF SinkNext, TransitionTo, FlushBegin,
     ShipFails, ListFails, ListPending, Recovered, sinkVars, history, counters

LEMMA ShipStep ==
  ASSUME SinkInv, [SinkNext]_sinkVars
  PROVE  ShippedInOrder'
<1>1. ShippedInOrder /\ SinkTyped
  BY DEF SinkInv
<1>2. ASSUME NEW r \in Rows, RecordAuditRow(r)
      PROVE  ShippedInOrder'
  <2>1. /\ chain' = Append(chain, r) /\ r \notin ToSet(chain) /\ r \notin ToSet(shipped)
        /\ ToSet(chain') = ToSet(chain) \cup {r} /\ shipped' = shipped
        /\ ToSet(buffer') \subseteq ToSet(buffer) \cup {r}
    BY <1>2, RowFacts
  <2>2. SUFFICES ASSUME NEW a \in ToSet(chain'), NEW b \in ToSet(chain'),
                        b \in ToSet(shipped), Precedes(chain', a, b),
                        a \in ToSet(buffer') \cup ToSet(shipped)
                 PROVE  Precedes(shipped, a, b)
    BY <2>1 DEF ShippedInOrder
  <2>3. b # r /\ b \in ToSet(chain)
    BY <2>1, <2>2
  <2>4. a # r
    <3> SUFFICES ASSUME a = r PROVE FALSE
      OBVIOUS
    <3>1. /\ DOMAIN chain = 1 .. Len(chain) /\ DOMAIN chain' = 1 .. (Len(chain) + 1)
          /\ Len(chain) \in Nat /\ \A i \in 1 .. Len(chain) : chain'[i] = chain[i]
      BY <1>1, <2>1, SeqFacts, AppendSet
    <3> PICK i \in Positions(chain', a) : \A j \in Positions(chain', b) : i < j
      BY <2>2 DEF Precedes
    <3>2. i = Len(chain) + 1
      BY <2>1, <3>1 DEF Positions, ToSet
    <3> PICK j \in DOMAIN chain : chain[j] = b
      BY <2>3 DEF ToSet
    <3>3. j \in Positions(chain', b)
      BY <3>1 DEF Positions
    <3> QED
      BY <3>1, <3>2, <3>3
  <2>5. a \in ToSet(chain) /\ a \in ToSet(buffer) \cup ToSet(shipped)
    BY <2>1, <2>2, <2>4
  <2>6. Precedes(chain, a, b)
    BY <1>1, <2>1, <2>2, <2>3, <2>5, SeqFacts, BeforeGrows
  <2> QED
    BY <1>1, <2>2, <2>3, <2>5, <2>6 DEF ShippedInOrder
<1>3. CASE Ship
  <2> DEFINE n == flush.next
  <2> PICK c : c = flush.snapshot[n]
    OBVIOUS
  <2>1. /\ n \in DOMAIN buffer /\ buffer[n] = c /\ c \in Rows /\ c \in ToSet(chain)
        /\ \A i \in DOMAIN buffer : i < n => buffer[i] \in ToSet(shipped)
        /\ shipped' = Append(shipped, c) /\ ToSet(shipped') = ToSet(shipped) \cup {c}
    BY <1>3, ShipFacts
  <2>2. chain' = chain /\ buffer' = buffer
    BY <1>3 DEF Ship
  <2>3. SUFFICES ASSUME NEW a \in ToSet(chain), NEW b \in ToSet(chain),
                        b \in ToSet(shipped'), Precedes(chain, a, b),
                        a \in ToSet(buffer) \cup ToSet(shipped')
                 PROVE  Precedes(shipped', a, b)
    BY <2>2 DEF ShippedInOrder
  <2>4. shipped \in Seq(Rows) /\ chain \in Seq(Rows) /\ DOMAIN chain \subseteq Nat
    BY <1>1, SeqFacts
  <2>5. c \in ToSet(buffer)
    BY <2>1 DEF ToSet
  <2>6. CASE b \in ToSet(shipped)
    <3>1. Precedes(shipped, a, b)
      BY <1>1, <2>1, <2>3, <2>5, <2>6 DEF ShippedInOrder
    <3> QED
      BY <2>1, <2>4, <3>1, BeforeGrows
  <2>7. CASE b \notin ToSet(shipped)
    <3>1. b = c
      BY <2>1, <2>3, <2>7
    <3> PICK ka \in DOMAIN chain : chain[ka] = a /\ \A j \in Positions(chain, b) : ka < j
      BY <2>3 DEF Precedes, Positions
    <3> PICK kb \in DOMAIN chain : chain[kb] = b
      BY <2>3 DEF ToSet
    <3>2. ka < kb /\ ka \in Nat /\ kb \in Nat
      BY <2>4 DEF Positions
    <3>3. a \in ToSet(shipped)
      <4> SUFFICES ASSUME a \notin ToSet(shipped) PROVE FALSE
        OBVIOUS
      <4>1. a # c
        <5>1. a = c => ka = kb
          BY <3>1 DEF SinkInv, JoinsOnce
        <5> QED
          BY <3>2, <5>1
      <4>2. a \in ToSet(buffer)
        BY <2>1, <2>3, <2>5, <4>1
      <4> PICK i \in DOMAIN buffer : buffer[i] = a
        BY <4>2 DEF ToSet
      <4>3. ~(i < n) /\ i # n /\ i \in Nat /\ n \in Nat
        BY <1>1, <2>1, <4>1, SeqFacts
      <4>4. n < i
        BY <4>3
      <4> PICK k \in DOMAIN chain, l \in DOMAIN chain : k < l /\ chain[k] = c /\ chain[l] = a
        BY <2>1, <4>4 DEF SinkInv, BufferInOrder
      <4>5. k = kb /\ l = ka
        BY <3>1 DEF SinkInv, JoinsOnce
      <4> QED
        BY <3>2, <4>5
    <3> QED
      BY <2>1, <2>4, <2>7, <3>1, <3>3, BeforeGrows
  <2> QED
    BY <2>6, <2>7
<1>4. CASE Crash
  <2>1. chain' = <<>>
    BY <1>4 DEF Crash
  <2> QED
    BY <2>1, EmptySet DEF ShippedInOrder
<1>5. CASE ClearBuffer
  <2>1. buffer' = <<>> /\ UNCHANGED <<chain, shipped>>
    BY <1>5 DEF ClearBuffer
  <2> QED
    BY <1>1, <2>1, EmptySet DEF ShippedInOrder
<1>6. CASE UNCHANGED <<chain, shipped, buffer>>
  BY <1>1, <1>6 DEF ShippedInOrder
<1> QED
  BY <1>2, <1>3, <1>4, <1>5, <1>6 DEF SinkNext, Admit, Buffered, BufferFails, TransitionTo, FlushBegin,
     ShipFails, ListFails, ListPending, Unlink, Recovered, sinkVars

(* The inductive invariant holds in every reachable state (audit/sink.ts). *)
THEOREM SinkInductive == SinkSpec => []SinkInv
<1>1. SinkInv /\ [SinkNext]_sinkVars => SinkInv'
  <2> SUFFICES ASSUME SinkInv, [SinkNext]_sinkVars PROVE SinkInv'
    OBVIOUS
  <2> QED
    BY SinkTypeStep, EventStep, OnceStep, OrderStep, FlushStep, CalmStep, ShipStep DEF SinkInv
<1> QED
  BY SinkStarted, <1>1, PTL DEF SinkSpec

(* The way of a row to the external sink: in the order of the chain, and never out of buffer
   and queue before it got there, as long as it was not recorded under a running flush. *)
THEOREM RowsKept == SinkSpec => []RowsInv
<1>1. SinkInv => RowsInv
  BY DEF SinkInv, SinkTyped, Calm, RowsInv
<1> QED
  BY <1>1, SinkInductive, PTL

(* The event log tells the state, whatever forced or recovered it. *)
THEOREM EventsTell == SinkSpec => []EventsTellState
<1>1. SinkInv => EventsTellState
  BY DEF SinkInv
<1> QED
  BY <1>1, SinkInductive, PTL
=============================================================================
