------------------------ MODULE CareerDiscovery_proofs ------------------------
(***************************************************************************)
(* Proofs about the search for a career page, for any candidates and any   *)
(* limits: no pass spends more than its limit, no link is visited twice,   *)
(* the order and the reservations of the schedule hold in every pass, and  *)
(* a page is reported as not found only after each scheduled link with     *)
(* evidence was answered for.  The first half is about the schedule alone: *)
(* sorting and moving reserved candidates neither loses nor doubles one.   *)
(***************************************************************************)
EXTENDS CareerDiscovery, FiniteSetTheorems, SequenceTheorems, TLAPS

-----------------------------------------------------------------------------
(* The schedule: positions in a strict order.                              *)

\* In a finite set with a strict total order there is an element with any
\* given number of elements before it: the candidates of a tier can be laid
\* out in a list.
LEMMA EveryPlaceIsTaken ==
    ASSUME NEW S, IsFiniteSet(S), NEW R \in SUBSET (S \X S),
           \A c \in S : <<c, c>> \notin R,
           \A c, d, e \in S : <<c, d>> \in R /\ <<d, e>> \in R => <<c, e>> \in R,
           \A c, d \in S : c = d \/ <<c, d>> \in R \/ <<d, c>> \in R
    PROVE  /\ \A i \in 1..Cardinality(S) :
                \E c \in S : Cardinality({d \in S : <<d, c>> \in R}) = i - 1
           /\ \A c, d \in S :
                Cardinality({e \in S : <<e, c>> \in R}) = Cardinality({e \in S : <<e, d>> \in R})
                    => c = d
           /\ \A c \in S : Cardinality({e \in S : <<e, c>> \in R}) + 1 \in 1..Cardinality(S)
<1> DEFINE Before(c) == {d \in S : <<d, c>> \in R}
           n == Cardinality(S)
           place == [c \in S |-> Cardinality(Before(c))]
<1>n. n \in Nat
    BY FS_CardinalityType
<1>f. \A c \in S : /\ IsFiniteSet(Before(c)) /\ Cardinality(Before(c)) \in Nat
                   /\ Cardinality(Before(c)) < n
    <2> SUFFICES ASSUME NEW c \in S
                 PROVE  /\ IsFiniteSet(Before(c)) /\ Cardinality(Before(c)) \in Nat
                        /\ Cardinality(Before(c)) < n
        OBVIOUS
    <2>1. Before(c) \in SUBSET S /\ Before(c) # S
        OBVIOUS
    <2> HIDE DEF Before
    <2>2. IsFiniteSet(Before(c)) /\ Cardinality(Before(c)) <= n /\ Cardinality(Before(c)) # n
        BY <2>1, FS_Subset
    <2>3. Cardinality(Before(c)) \in Nat
        BY <2>2, FS_CardinalityType
    <2> QED BY <2>2, <2>3, <1>n
<1>1. \A c, d \in S : <<c, d>> \in R => Cardinality(Before(c)) < Cardinality(Before(d))
    <2> SUFFICES ASSUME NEW c \in S, NEW d \in S, <<c, d>> \in R
                 PROVE  Cardinality(Before(c)) < Cardinality(Before(d))
        OBVIOUS
    <2>1. Before(c) \in SUBSET Before(d)
        OBVIOUS
    <2>2. c \in Before(d) /\ c \notin Before(c)
        OBVIOUS
    <2>3. Before(c) # Before(d)
        BY <2>2
    <2> HIDE DEF Before
    <2> QED BY <2>1, <2>3, <1>f, FS_Subset
<1>2. \A c, d \in S : Cardinality(Before(c)) = Cardinality(Before(d)) => c = d
    <2> SUFFICES ASSUME NEW c \in S, NEW d \in S, c # d
                 PROVE  Cardinality(Before(c)) # Cardinality(Before(d))
        OBVIOUS
    <2>1. <<c, d>> \in R \/ <<d, c>> \in R
        OBVIOUS
    <2> HIDE DEF Before
    <2> QED BY <2>1, <1>1, <1>f
<1>3. place \in Injection(S, 0..n - 1)
    <2>1. place \in [S -> 0..n - 1]
        <3> HIDE DEF Before
        <3> QED BY <1>f, <1>n
    <2>2. \A c, d \in S : place[c] = place[d] => c = d
        <3> HIDE DEF Before
        <3> QED BY <1>2
    <2> HIDE DEF place
    <2> QED BY <2>1, <2>2 DEF Injection, IsInjective
<1>4. IsFiniteSet(0..n - 1) /\ Cardinality(0..n - 1) = n
    <2> HIDE DEF n
    <2>1. 0 \in Int /\ n - 1 \in Int
        BY <1>n
    <2>2. /\ IsFiniteSet(0..n - 1)
          /\ Cardinality(0..n - 1) = IF 0 > n - 1 THEN 0 ELSE (n - 1) - 0 + 1
        BY <2>1, FS_Interval
    <2> QED BY <2>2, <1>n
<1>5. place \in Surjection(S, 0..n - 1)
    <2> HIDE DEF place, n
    <2> QED BY <1>3, <1>4, FS_Injection DEF n
<1>6. \A i \in 1..n : \E c \in S : Cardinality(Before(c)) = i - 1
    <2> SUFFICES ASSUME NEW i \in 1..n PROVE \E c \in S : Cardinality(Before(c)) = i - 1
        OBVIOUS
    <2>1. i - 1 \in 0..n - 1
        BY <1>n
    <2>2. \E c \in S : place[c] = i - 1
        <3> HIDE DEF place, n
        <3> QED BY <2>1, <1>5 DEF Surjection
    <2> HIDE DEF Before
    <2> QED BY <2>2
<1>7. \A c \in S : Cardinality(Before(c)) + 1 \in 1..n
    <2> HIDE DEF Before
    <2> QED BY <1>f, <1>n
<1> QED
    BY <1>2, <1>6, <1>7

-----------------------------------------------------------------------------
(* The order of the candidates.                                            *)

LEMMA TierType == \A c : Tier(c) \in 0..4
BY DEF Tier

LEMMA ListedSubset ==
    ASSUME NEW S, Listed(S), NEW T \in SUBSET S
    PROVE  Listed(T)
<1>1. IsFiniteSet(T)
    BY FS_Subset DEF Listed
<1>2. \A c \in SubdomainProbes(T) : Family(T, c) = {c}
    BY DEF Listed, SubdomainProbes, Family
<1> QED
    BY <1>1, <1>2 DEF Listed

\* Ahead is a strict total order.
LEMMA AheadIsAnOrder ==
    ASSUME NEW S, Listed(S)
    PROVE  /\ \A c \in S : ~Ahead(S, c, c)
           /\ \A c, d, e \in S : Ahead(S, c, d) /\ Ahead(S, d, e) => Ahead(S, c, e)
           /\ \A c, d \in S : c = d \/ Ahead(S, c, d) \/ Ahead(S, d, c)
<1> DEFINE alias(c) == IsAlias(S, c)
<1>1. \A c \in S : c.rank \in Nat /\ Tier(c) \in 0..4 /\ alias(c) \in BOOLEAN
    BY TierType DEF Listed, IsAlias
<1>2. \A c, d \in S : Ahead(S, c, d) <=>
        \/ Tier(c) < Tier(d)
        \/ /\ Tier(c) = Tier(d)
           /\ \/ ~alias(c) /\ alias(d)
              \/ (alias(c) <=> alias(d)) /\ c.rank > d.rank
    BY DEF Ahead
<1>3. \A c, d \in S : c.rank = d.rank => c = d
    BY DEF Listed
<1> HIDE DEF alias
<1>4. \A c \in S : ~Ahead(S, c, c)
    BY <1>1, <1>2
<1>5. \A c, d, e \in S : Ahead(S, c, d) /\ Ahead(S, d, e) => Ahead(S, c, e)
    BY <1>1, <1>2
<1>6. \A c, d \in S : c = d \/ Ahead(S, c, d) \/ Ahead(S, d, c)
    BY <1>1, <1>2, <1>3
<1> QED
    BY <1>4, <1>5, <1>6

Before(S, c) == {d \in S : Ahead(S, d, c)}

\* A sequence that lists each member of S once.
Lists(seq, S) ==
    /\ seq \in Seq(S)
    /\ Len(seq) = Cardinality(S)
    /\ \A c \in S : \E i \in 1..Len(seq) : seq[i] = c
    /\ \A i, j \in 1..Len(seq) : seq[i] = seq[j] => i = j

\* The sorted candidates: each of them once, one before the other as Ahead
\* has it.
LEMMA OrderedLists ==
    ASSUME NEW S, Listed(S)
    PROVE  /\ Lists(Ordered(S), S)
           /\ \A i \in 1..Cardinality(S) : Cardinality(Before(S, Ordered(S)[i])) = i - 1
           /\ \A i, j \in 1..Cardinality(S) : Ahead(S, Ordered(S)[i], Ordered(S)[j]) => i < j
<1> DEFINE R == {p \in S \X S : Ahead(S, p[1], p[2])}
           n == Cardinality(S)
<1>0. IsFiniteSet(S) /\ n \in Nat
    BY FS_CardinalityType DEF Listed
<1>1. \A c, d \in S : <<c, d>> \in R <=> Ahead(S, c, d)
    OBVIOUS
<1>2. \A c \in S : {d \in S : <<d, c>> \in R} = Before(S, c)
    BY <1>1 DEF Before
<1> HIDE DEF R
<1>3. R \in SUBSET (S \X S)
    BY DEF R
<1>4. /\ \A i \in 1..n : \E c \in S : Cardinality(Before(S, c)) = i - 1
      /\ \A c, d \in S : Cardinality(Before(S, c)) = Cardinality(Before(S, d)) => c = d
      /\ \A c \in S : Cardinality(Before(S, c)) + 1 \in 1..n
    <2>1. /\ \A c \in S : <<c, c>> \notin R
          /\ \A c, d, e \in S : <<c, d>> \in R /\ <<d, e>> \in R => <<c, e>> \in R
          /\ \A c, d \in S : c = d \/ <<c, d>> \in R \/ <<d, c>> \in R
        BY <1>1, AheadIsAnOrder
    <2>2. /\ \A i \in 1..Cardinality(S) :
                \E c \in S : Cardinality({d \in S : <<d, c>> \in R}) = i - 1
          /\ \A c, d \in S :
                Cardinality({e \in S : <<e, c>> \in R}) = Cardinality({e \in S : <<e, d>> \in R})
                    => c = d
          /\ \A c \in S : Cardinality({e \in S : <<e, c>> \in R}) + 1 \in 1..Cardinality(S)
        BY <2>1, <1>0, <1>3, EveryPlaceIsTaken
    <2> QED BY <2>2, <1>2
<1>5. Ordered(S) = [i \in 1..n |-> CHOOSE c \in S : Cardinality(Before(S, c)) = i - 1]
    BY DEF Ordered, Before
<1>6. \A i \in 1..n : Ordered(S)[i] \in S /\ Cardinality(Before(S, Ordered(S)[i])) = i - 1
    BY <1>4, <1>5
<1>7. Ordered(S) \in Seq(S) /\ Len(Ordered(S)) = n
    <2>1. Ordered(S) \in [1..n -> S]
        BY <1>5, <1>6
    <2> QED BY <2>1, <1>0
<1>8. \A c \in S : \E i \in 1..n : Ordered(S)[i] = c
    <2> SUFFICES ASSUME NEW c \in S PROVE \E i \in 1..n : Ordered(S)[i] = c
        OBVIOUS
    <2>1. PICK i \in 1..n : i = Cardinality(Before(S, c)) + 1
        BY <1>4
    <2>2. Cardinality(Before(S, Ordered(S)[i])) = Cardinality(Before(S, c))
        <3>1. Cardinality(Before(S, c)) + 1 \in 1..n
            BY <1>4
        <3>2. i - 1 = Cardinality(Before(S, c))
            <4>1. Cardinality(Before(S, c)) \in Nat
                <5>1. IsFiniteSet(Before(S, c))
                    BY <1>0, FS_Subset DEF Before
                <5> QED BY <5>1, FS_CardinalityType
            <4> QED BY <2>1, <4>1
        <3> QED BY <3>2, <1>6
    <2> QED BY <2>2, <1>4, <1>6
<1>9. \A i, j \in 1..n : Ordered(S)[i] = Ordered(S)[j] => i = j
    <2> SUFFICES ASSUME NEW i \in 1..n, NEW j \in 1..n, Ordered(S)[i] = Ordered(S)[j]
                 PROVE  i = j
        OBVIOUS
    <2>1. i - 1 = j - 1
        BY <1>6
    <2> QED BY <2>1
<1>10. \A i, j \in 1..n : Ahead(S, Ordered(S)[i], Ordered(S)[j]) => i < j
    <2> SUFFICES ASSUME NEW i \in 1..n, NEW j \in 1..n,
                        Ahead(S, Ordered(S)[i], Ordered(S)[j])
                 PROVE  i < j
        OBVIOUS
    <2> DEFINE c == Ordered(S)[i]
               d == Ordered(S)[j]
    <2>1. c \in S /\ d \in S /\ Cardinality(Before(S, c)) = i - 1
          /\ Cardinality(Before(S, d)) = j - 1
        BY <1>6
    <2>2. Before(S, c) \in SUBSET Before(S, d)
        BY <2>1, AheadIsAnOrder DEF Before
    <2>3. c \in Before(S, d) /\ c \notin Before(S, c)
        BY <2>1, AheadIsAnOrder DEF Before
    <2>4. IsFiniteSet(Before(S, d))
        BY <1>0, FS_Subset DEF Before
    <2> HIDE DEF c, d
    <2>5. Cardinality(Before(S, c)) <= Cardinality(Before(S, d))
          /\ Cardinality(Before(S, c)) # Cardinality(Before(S, d))
        BY <2>2, <2>3, <2>4, FS_Subset
    <2> QED BY <2>1, <2>5
<1> QED
    <2> HIDE DEF n
    <2>1. Lists(Ordered(S), S)
        BY <1>7, <1>8, <1>9 DEF Lists, n
    <2> QED BY <2>1, <1>6, <1>10 DEF n

\* Links with evidence come first.
LEMMA EvidenceLeads ==
    ASSUME NEW S, Listed(S), NEW i \in 1..Cardinality(S)
    PROVE  /\ Cardinality(Evidence(S)) \in Nat
           /\ IsEvidence(Ordered(S)[i]) <=> i <= Cardinality(Evidence(S))
<1> DEFINE c == Ordered(S)[i]
           E == Evidence(S)
<1>0. IsFiniteSet(S) /\ Cardinality(S) \in Nat
    BY FS_CardinalityType DEF Listed
<1>1. c \in S /\ Cardinality(Before(S, c)) = i - 1
    BY OrderedLists DEF Lists
<1>2. IsFiniteSet(E) /\ Cardinality(E) \in Nat
    <2>1. E \in SUBSET S
        BY DEF Evidence
    <2> HIDE DEF E
    <2> QED BY <2>1, <1>0, FS_Subset, FS_CardinalityType
<1>3. IsFiniteSet(Before(S, c))
    BY <1>0, FS_Subset DEF Before
<1>4. CASE IsEvidence(c)
    <2>1. Before(S, c) \in SUBSET E /\ c \in E /\ c \notin Before(S, c)
        BY <1>1, <1>4, TierType, AheadIsAnOrder DEF Before, Evidence, IsEvidence, Ahead
    <2> HIDE DEF c, E
    <2>2. Cardinality(Before(S, c)) < Cardinality(E)
        BY <2>1, <1>2, <1>3, FS_Subset, FS_CardinalityType
    <2> QED BY <2>2, <1>1, <1>2, <1>4 DEF c, E
<1>5. CASE ~IsEvidence(c)
    <2>1. E \in SUBSET Before(S, c)
        BY <1>1, <1>5, TierType DEF Before, Evidence, IsEvidence, Ahead
    <2> HIDE DEF c, E
    <2>2. Cardinality(E) <= Cardinality(Before(S, c))
        BY <2>1, <1>3, FS_Subset
    <2> QED BY <2>2, <1>1, <1>2, <1>5 DEF c, E
<1> QED
    BY <1>4, <1>5, <1>2

-----------------------------------------------------------------------------
(* Moving a candidate.                                                     *)

\* The sequence whose k-th element was moved forward to place q.
Forward(seq, k, q) == InsertAt(RemoveAt(seq, k), q, seq[k])

LEMMA MovedForward ==
    ASSUME NEW S, NEW seq \in Seq(S), NEW k \in 1..Len(seq), NEW q \in 1..k
    PROVE  /\ Forward(seq, k, q) \in Seq(S)
           /\ Len(Forward(seq, k, q)) = Len(seq)
           /\ \A i \in 1..Len(seq) :
                Forward(seq, k, q)[i] = IF i < q THEN seq[i] ELSE IF i = q THEN seq[k]
                                        ELSE IF i <= k THEN seq[i - 1] ELSE seq[i]
<1> DEFINE n == Len(seq)
           a == SubSeq(seq, 1, k - 1)
           b == SubSeq(seq, k + 1, n)
           u == RemoveAt(seq, k)
           f == SubSeq(u, 1, q - 1)
           g == SubSeq(u, q, n - 1)
           r == InsertAt(u, q, seq[k])
<1>0. n \in Nat /\ k \in 1..n /\ q \in 1..n /\ q <= k
    BY LenProperties
<1>1. a \in Seq(S) /\ Len(a) = k - 1 /\ \A i \in 1..k - 1 : a[i] = seq[i]
    BY <1>0, SubSeqProperties
<1>2. b \in Seq(S) /\ Len(b) = n - k /\ \A i \in 1..n - k : b[i] = seq[k + i]
    BY <1>0, SubSeqProperties
<1>3. /\ u \in Seq(S) /\ Len(u) = n - 1
      /\ \A i \in 1..n - 1 : u[i] = IF i < k THEN seq[i] ELSE seq[i + 1]
    <2>1. u = a \o b
        BY DEF RemoveAt
    <2> HIDE DEF a, b, u, n
    <2>2. /\ u \in Seq(S) /\ Len(u) = n - 1
          /\ \A i \in 1..n - 1 : u[i] = IF i <= k - 1 THEN a[i] ELSE b[i - (k - 1)]
        <3>1. /\ a \o b \in Seq(S) /\ Len(a \o b) = Len(a) + Len(b)
              /\ \A i \in 1..Len(a) + Len(b) :
                    (a \o b)[i] = IF i <= Len(a) THEN a[i] ELSE b[i - Len(a)]
            BY <1>1, <1>2, ConcatProperties
        <3>2. Len(a) = k - 1 /\ Len(a) + Len(b) = n - 1
            BY <1>0, <1>1, <1>2
        <3> QED BY <2>1, <3>1, <3>2
    <2>3. \A i \in 1..n - 1 : u[i] = IF i < k THEN seq[i] ELSE seq[i + 1]
        <3> SUFFICES ASSUME NEW i \in 1..n - 1
                     PROVE  u[i] = IF i < k THEN seq[i] ELSE seq[i + 1]
            OBVIOUS
        <3>1. CASE i < k
            BY <3>1, <2>2, <1>0, <1>1
        <3>2. CASE i >= k
            <4>1. i - (k - 1) \in 1..n - k /\ k + (i - (k - 1)) = i + 1
                BY <3>2, <1>0
            <4> QED BY <4>1, <3>2, <2>2, <1>0, <1>2
        <3> QED BY <3>1, <3>2, <1>0
    <2> QED BY <2>2, <2>3
<1> HIDE DEF u
<1>4. f \in Seq(S) /\ Len(f) = q - 1 /\ \A i \in 1..q - 1 : f[i] = u[i]
    BY <1>0, <1>3, SubSeqProperties
<1>5. g \in Seq(S) /\ Len(g) = n - q /\ \A i \in 1..n - q : g[i] = u[q + i - 1]
    BY <1>0, <1>3, SubSeqProperties
<1>6. r = f \o <<seq[k]>> \o g
    BY <1>3 DEF InsertAt
<1>7. <<seq[k]>> \in Seq(S)
    BY ElementOfSeq
<1> HIDE DEF f, g, r, n
<1>8. /\ f \o <<seq[k]>> \in Seq(S) /\ Len(f \o <<seq[k]>>) = q
      /\ \A i \in 1..q : (f \o <<seq[k]>>)[i] = IF i < q THEN f[i] ELSE seq[k]
    BY <1>0, <1>4, <1>7, ConcatProperties
<1>9. /\ r \in Seq(S) /\ Len(r) = n
      /\ \A i \in 1..n : r[i] = IF i < q THEN f[i] ELSE IF i = q THEN seq[k] ELSE g[i - q]
    <2> DEFINE h == f \o <<seq[k]>>
    <2>1. r = h \o g
        BY <1>6
    <2>2. h \in Seq(S) /\ Len(h) = q /\ \A i \in 1..q : h[i] = IF i < q THEN f[i] ELSE seq[k]
        BY <1>8
    <2> HIDE DEF h
    <2>3. /\ r \in Seq(S) /\ Len(r) = n
          /\ \A i \in 1..n : r[i] = IF i <= q THEN h[i] ELSE g[i - q]
        BY <2>1, <2>2, <1>0, <1>5, ConcatProperties
    <2> QED BY <2>2, <2>3, <1>0
<1>10. \A i \in 1..n : r[i] = IF i < q THEN seq[i] ELSE IF i = q THEN seq[k]
                               ELSE IF i <= k THEN seq[i - 1] ELSE seq[i]
    <2> SUFFICES ASSUME NEW i \in 1..n
                 PROVE  r[i] = IF i < q THEN seq[i] ELSE IF i = q THEN seq[k]
                               ELSE IF i <= k THEN seq[i - 1] ELSE seq[i]
        OBVIOUS
    <2>1. CASE i < q
        <3>1. i \in 1..q - 1 /\ i \in 1..n - 1 /\ i < k
            BY <2>1, <1>0
        <3> QED BY <2>1, <3>1, <1>3, <1>4, <1>9
    <2>2. CASE i = q
        BY <2>2, <1>0, <1>9
    <2>3. CASE i > q
        <3>1. i - q \in 1..n - q /\ q + (i - q) - 1 = i - 1 /\ i - 1 \in 1..n - 1
            BY <2>3, <1>0
        <3>2. r[i] = u[i - 1]
            <4>1. r[i] = g[i - q]
                BY <2>3, <1>0, <1>9
            <4>2. g[i - q] = u[q + (i - q) - 1]
                BY <3>1, <1>5
            <4> QED BY <4>1, <4>2, <3>1
        <3>3. u[i - 1] = IF i - 1 < k THEN seq[i - 1] ELSE seq[i]
            BY <3>1, <1>3
        <3> QED BY <2>3, <3>2, <3>3, <1>0
    <2> QED BY <2>1, <2>2, <2>3, <1>0
<1>11. Forward(seq, k, q) = r /\ n = Len(seq)
    BY DEF Forward, r, u, n
<1> QED
    BY <1>9, <1>10, <1>11

\* In r the candidate c came from beyond the window to the place after p.
MovesIn(seq, r, c, p, limit) ==
    /\ p < limit /\ Len(r) = Len(seq)
    /\ \E k \in limit + 1..Len(seq) :
        /\ seq[k] = c
        /\ \A i \in 1..Len(seq) :
             r[i] = IF i < p + 1 THEN seq[i] ELSE IF i = p + 1 THEN c
                    ELSE IF i <= k THEN seq[i - 1] ELSE seq[i]

Stays(seq, r, c, p, limit) ==
    r = seq /\ (p < limit => \A i \in limit + 1..Len(seq) : seq[i] # c)

\* What a reservation does to a list of S: nothing, or the candidate moves
\* from beyond the window to its place.
LEMMA ReserveDoes ==
    ASSUME NEW S, IsFiniteSet(S), NEW seq, Lists(seq, S), NEW c,
           NEW p \in Nat, NEW limit \in Nat
    PROVE  LET r == Reserve(seq, c, p, limit) IN
           /\ Lists(r, S)
           /\ Stays(seq, r, c, p, limit) \/ MovesIn(seq, r, c, p, limit)
<1> DEFINE r == Reserve(seq, c, p, limit)
           n == Len(seq)
           Moves == p < limit /\ \E i \in limit + 1..n : seq[i] = c
<1>0. seq \in Seq(S) /\ n \in Nat /\ n = Cardinality(S)
    BY LenProperties DEF Lists
<1>1. CASE ~Moves
    <2>1. r = seq
        BY <1>1 DEF Reserve
    <2> QED BY <2>1, <1>1 DEF Stays
<1>2. CASE Moves
    <2> DEFINE k == CHOOSE i \in limit + 1..n : seq[i] = c
    <2>1. k \in limit + 1..n /\ seq[k] = c
        BY <1>2
    <2>2. r = InsertAt(RemoveAt(seq, k), p + 1, seq[k])
        BY <1>2, <2>1 DEF Reserve
    <2> HIDE DEF k, r
    <2>3. k \in 1..n /\ p + 1 \in 1..k /\ p + 1 < k
        BY <1>0, <1>2, <2>1
    <2>4. /\ r \in Seq(S) /\ Len(r) = n
          /\ \A i \in 1..n : r[i] = IF i < p + 1 THEN seq[i] ELSE IF i = p + 1 THEN seq[k]
                                    ELSE IF i <= k THEN seq[i - 1] ELSE seq[i]
        <3> DEFINE q == p + 1
                   u == Forward(seq, k, q)
        <3>1. k \in 1..Len(seq) /\ q \in 1..k
            BY <2>3
        <3> HIDE DEF q
        <3>2. /\ u \in Seq(S) /\ Len(u) = Len(seq)
              /\ \A i \in 1..Len(seq) :
                    u[i] = IF i < q THEN seq[i] ELSE IF i = q THEN seq[k]
                           ELSE IF i <= k THEN seq[i - 1] ELSE seq[i]
            <4>1. seq \in Seq(S)
                BY <1>0
            <4> HIDE DEF k
            <4> QED BY <3>1, <4>1, MovedForward
        <3>3. r = u
            BY <2>2 DEF q, Forward
        <3> HIDE DEF u
        <3> QED BY <3>2, <3>3 DEF q
    <2> DEFINE from(i) == IF i < p + 1 THEN i ELSE IF i = p + 1 THEN k
                          ELSE IF i <= k THEN i - 1 ELSE i
    <2>5. \A i \in 1..n : from(i) \in 1..n /\ r[i] = seq[from(i)]
        BY <2>3, <2>4, <1>0
    <2>6. \A i, j \in 1..n : from(i) = from(j) => i = j
        BY <2>3, <1>0
    <2>7. \A j \in 1..n : \E i \in 1..n : from(i) = j
        <3> SUFFICES ASSUME NEW j \in 1..n PROVE \E i \in 1..n : from(i) = j
            OBVIOUS
        <3>1. CASE j < p + 1
            BY <3>1
        <3>2. CASE p + 1 <= j /\ j < k
            <4>1. j + 1 \in 1..n /\ from(j + 1) = j
                BY <3>2, <2>3, <1>0
            <4> QED BY <4>1
        <3>3. CASE j = k
            <4>1. p + 1 \in 1..n /\ from(p + 1) = j
                BY <3>3, <2>3, <1>0
            <4> QED BY <4>1
        <3>4. CASE j > k
            <4>1. from(j) = j
                BY <3>4, <2>3, <1>0
            <4> QED BY <4>1
        <3> QED BY <3>1, <3>2, <3>3, <3>4, <2>3, <1>0
    <2> HIDE DEF from
    <2>8. Lists(r, S)
        <3>1. \A i, j \in 1..n : r[i] = r[j] => i = j
            BY <2>5, <2>6 DEF Lists
        <3>2. \A d \in S : \E i \in 1..n : r[i] = d
            <4> SUFFICES ASSUME NEW d \in S PROVE \E i \in 1..n : r[i] = d
                OBVIOUS
            <4>1. PICK j \in 1..n : seq[j] = d
                BY DEF Lists
            <4>2. PICK i \in 1..n : from(i) = j
                BY <2>7
            <4> QED BY <4>1, <4>2, <2>5
        <3> QED BY <2>4, <1>0, <3>1, <3>2 DEF Lists
    <2> QED BY <1>2, <2>1, <2>4, <2>8 DEF r, MovesIn
<1> QED
    BY <1>1, <1>2

-----------------------------------------------------------------------------
(* The candidates that are chosen.                                         *)

\* A finite set with a strict total order has a first element.
LEMMA SomeFirst ==
    ASSUME NEW S, IsFiniteSet(S), S # {}, NEW R \in SUBSET (S \X S),
           \A c \in S : <<c, c>> \notin R,
           \A c, d, e \in S : <<c, d>> \in R /\ <<d, e>> \in R => <<c, e>> \in R,
           \A c, d \in S : c = d \/ <<c, d>> \in R \/ <<d, c>> \in R
    PROVE  \E c \in S : \A d \in S : c = d \/ <<c, d>> \in R
<1>1. Cardinality(S) \in Nat /\ Cardinality(S) # 0
    BY FS_CardinalityType, FS_EmptySet
<1>2. 1 \in 1..Cardinality(S)
    BY <1>1
<1>3. PICK c \in S : Cardinality({d \in S : <<d, c>> \in R}) = 1 - 1
    <2>1. /\ \A i \in 1..Cardinality(S) :
                \E c \in S : Cardinality({d \in S : <<d, c>> \in R}) = i - 1
          /\ \A c, d \in S :
                Cardinality({e \in S : <<e, c>> \in R}) = Cardinality({e \in S : <<e, d>> \in R})
                    => c = d
          /\ \A c \in S : Cardinality({e \in S : <<e, c>> \in R}) + 1 \in 1..Cardinality(S)
        BY EveryPlaceIsTaken
    <2> QED BY <1>2, <2>1
<1>4. IsFiniteSet({d \in S : <<d, c>> \in R})
    BY FS_Subset
<1>5. {d \in S : <<d, c>> \in R} = {}
    BY <1>3, <1>4, FS_EmptySet
<1> QED
    BY <1>5

LEMMA RepresentativeInFamily ==
    ASSUME NEW S, Listed(S), NEW c \in S
    PROVE  Representative(S, c) \in Family(S, c)
<1> DEFINE F == Family(S, c)
           R == {p \in F \X F : p[1].frank < p[2].frank}
<1>1. IsFiniteSet(F) /\ c \in F /\ F \in SUBSET S
    BY FS_Subset DEF Family, Listed
<1>2. \A d \in F : d.frank \in Nat
    BY <1>1 DEF Listed
<1>3. \A d, e \in F : d.frank = e.frank => d = e
    BY <1>1 DEF Listed
<1> HIDE DEF F
<1>4. R \in SUBSET (F \X F) /\ \A d, e \in F : <<d, e>> \in R <=> d.frank < e.frank
    OBVIOUS
<1> HIDE DEF R
<1>5. \E d \in F : \A e \in F : d = e \/ <<d, e>> \in R
    <2>1. \A d \in F : <<d, d>> \notin R
        BY <1>2, <1>4
    <2>2. \A d, e, g \in F : <<d, e>> \in R /\ <<e, g>> \in R => <<d, g>> \in R
        BY <1>2, <1>4
    <2>3. \A d, e \in F : d = e \/ <<d, e>> \in R \/ <<e, d>> \in R
        <3> SUFFICES ASSUME NEW d \in F, NEW e \in F, d # e
                     PROVE  <<d, e>> \in R \/ <<e, d>> \in R
            OBVIOUS
        <3>1. d.frank < e.frank \/ e.frank < d.frank
            BY <1>2, <1>3
        <3> QED BY <3>1, <1>4
    <2>4. F # {} /\ IsFiniteSet(F) /\ R \in SUBSET (F \X F)
        BY <1>1, <1>4
    <2> QED BY <2>1, <2>2, <2>3, <2>4, SomeFirst, ZenonT(60)
<1>6. \E d \in F : \A e \in F : d.frank <= e.frank
    <2>1. PICK d \in F : \A e \in F : d = e \/ <<d, e>> \in R
        BY <1>5
    <2>2. \A e \in F : d.frank <= e.frank
        <3> SUFFICES ASSUME NEW e \in F PROVE d.frank <= e.frank
            OBVIOUS
        <3>1. d = e \/ d.frank < e.frank
            BY <2>1, <1>4
        <3> QED BY <3>1, <1>2
    <2> QED BY <2>2
<1> QED
    BY <1>6 DEF Representative, F

LEMMA FallbackExists ==
    ASSUME NEW S, Listed(S), HostFallbacks(S) # {}
    PROVE  ReservedFallback(S) \in HostFallbacks(S)
<1> DEFINE F == HostFallbacks(S)
           rep(c) == Representative(S, c)
           Over(c, d) == rep(c).rank > rep(d).rank \/ (rep(c) = rep(d) /\ c.frank < d.frank)
           R == {p \in F \X F : Over(p[1], p[2])}
<1>1. IsFiniteSet(F) /\ F \in SUBSET S
    BY FS_Subset DEF HostFallbacks, Listed
<1>2. \A d \in F : d.frank \in Nat /\ rep(d).rank \in Nat /\ rep(d) \in S
    BY <1>1, RepresentativeInFamily DEF Listed, Family
<1>3. \A d, e \in F : /\ d.frank = e.frank => d = e
                      /\ rep(d).rank = rep(e).rank => rep(d) = rep(e)
    BY <1>1, <1>2 DEF Listed
<1>4. /\ R \in SUBSET (F \X F)
      /\ \A d, e \in F : <<d, e>> \in R <=> Over(d, e)
    <2> HIDE DEF F, Over
    <2> QED OBVIOUS
<1>7. ReservedFallback(S) = CHOOSE d \in F : \A e \in F :
            rep(d).rank > rep(e).rank \/ (rep(d) = rep(e) /\ d.frank <= e.frank)
    BY Zenon DEF ReservedFallback
<1> HIDE DEF F, R, rep
<1>5. \E d \in F : \A e \in F : d = e \/ <<d, e>> \in R
    <2>1. \A d \in F : <<d, d>> \notin R
        BY <1>2, <1>4
    <2>2. \A d, e, g \in F : <<d, e>> \in R /\ <<e, g>> \in R => <<d, g>> \in R
        BY <1>2, <1>4
    <2>3. \A d, e \in F : d = e \/ <<d, e>> \in R \/ <<e, d>> \in R
        <3> SUFFICES ASSUME NEW d \in F, NEW e \in F, d # e
                     PROVE  <<d, e>> \in R \/ <<e, d>> \in R
            OBVIOUS
        <3>1. Over(d, e) \/ Over(e, d)
            BY <1>2, <1>3
        <3> QED BY <3>1, <1>4
    <2>4. F # {}
        BY DEF F
    <2> QED BY <1>1, <1>4, <2>1, <2>2, <2>3, <2>4, SomeFirst, ZenonT(60)
<1>6. \E d \in F : \A e \in F :
            rep(d).rank > rep(e).rank \/ (rep(d) = rep(e) /\ d.frank <= e.frank)
    <2>1. PICK d \in F : \A e \in F : d = e \/ <<d, e>> \in R
        BY <1>5
    <2>2. \A e \in F : rep(d).rank > rep(e).rank \/ (rep(d) = rep(e) /\ d.frank <= e.frank)
        <3> SUFFICES ASSUME NEW e \in F
                     PROVE  rep(d).rank > rep(e).rank \/ (rep(d) = rep(e) /\ d.frank <= e.frank)
            OBVIOUS
        <3>1. d = e \/ Over(d, e)
            BY <2>1, <1>4
        <3> QED BY <3>1, <1>2
    <2> QED BY <2>2
<1> QED
    BY <1>6, <1>7 DEF F

LEMMA ProbeExists ==
    ASSUME NEW S, Listed(S), SubdomainProbes(S) # {}
    PROVE  ReservedProbe(S) \in SubdomainProbes(S)
<1> DEFINE F == SubdomainProbes(S)
           R == {p \in F \X F : p[1].rank > p[2].rank}
<1>1. IsFiniteSet(F) /\ F \in SUBSET S
    BY FS_Subset DEF SubdomainProbes, Listed
<1>2. \A d \in F : d.rank \in Nat
    BY <1>1 DEF Listed
<1>3. \A d, e \in F : d.rank = e.rank => d = e
    BY <1>1 DEF Listed
<1> HIDE DEF F
<1>4. R \in SUBSET (F \X F) /\ \A d, e \in F : <<d, e>> \in R <=> d.rank > e.rank
    OBVIOUS
<1> HIDE DEF R
<1>5. \E d \in F : \A e \in F : d = e \/ <<d, e>> \in R
    <2>1. \A d \in F : <<d, d>> \notin R
        BY <1>2, <1>4
    <2>2. \A d, e, g \in F : <<d, e>> \in R /\ <<e, g>> \in R => <<d, g>> \in R
        BY <1>2, <1>4
    <2>3. \A d, e \in F : d = e \/ <<d, e>> \in R \/ <<e, d>> \in R
        <3> SUFFICES ASSUME NEW d \in F, NEW e \in F, d # e
                     PROVE  <<d, e>> \in R \/ <<e, d>> \in R
            OBVIOUS
        <3>1. d.rank > e.rank \/ e.rank > d.rank
            BY <1>2, <1>3
        <3> QED BY <3>1, <1>4
    <2>4. F # {}
        BY DEF F
    <2> QED BY <1>1, <1>4, <2>1, <2>2, <2>3, <2>4, SomeFirst, ZenonT(60)
<1>6. \E d \in F : \A e \in F : d.rank >= e.rank
    <2>1. PICK d \in F : \A e \in F : d = e \/ <<d, e>> \in R
        BY <1>5
    <2>2. \A e \in F : d.rank >= e.rank
        <3> SUFFICES ASSUME NEW e \in F PROVE d.rank >= e.rank
            OBVIOUS
        <3>1. d = e \/ d.rank > e.rank
            BY <2>1, <1>4
        <3> QED BY <3>1, <1>2
    <2> QED BY <2>2
<1> QED
    BY <1>6 DEF ReservedProbe, F

\* Among the guesses no host fallback is sorted ahead of a guessed site.
LEMMA ProbesLeadFallbacks ==
    ASSUME NEW S, Listed(S), NEW c \in SubdomainProbes(S), NEW d \in HostFallbacks(S)
    PROVE  Ahead(S, c, d)
<1>1. c \in S /\ Family(S, c) = {c} /\ Tier(c) = 3
    BY DEF Listed, SubdomainProbes, Tier, IdentityOrigins, FirstPartyOrigins, GuessOrigins
<1>2. ~IsAlias(S, c)
    BY <1>1, RepresentativeInFamily DEF IsAlias
<1>3. Tier(d) = 3 /\ IsAlias(S, d)
    BY DEF HostFallbacks, IsAlias
<1> QED
    BY <1>1, <1>2, <1>3 DEF Ahead

-----------------------------------------------------------------------------
(* The schedule.                                                           *)

EvidenceFirst(S, seq) ==
    \A i \in 1..Len(seq) : IsEvidence(seq[i]) <=> i <= Cardinality(Evidence(S))

LEMMA EvidenceType ==
    ASSUME NEW S, Listed(S)
    PROVE  IsFiniteSet(S) /\ Cardinality(S) \in Nat /\ Cardinality(Evidence(S)) \in Nat
<1>1. IsFiniteSet(Evidence(S))
    BY FS_Subset DEF Listed, Evidence
<1> QED
    BY <1>1, FS_CardinalityType DEF Listed

LEMMA OrderedStarts ==
    ASSUME NEW S, Listed(S)
    PROVE  Lists(Ordered(S), S) /\ EvidenceFirst(S, Ordered(S))
<1>1. Lists(Ordered(S), S)
    BY OrderedLists
<1>2. \A i \in 1..Cardinality(S) : IsEvidence(Ordered(S)[i]) <=> i <= Cardinality(Evidence(S))
    BY EvidenceLeads
<1> QED
    BY <1>1, <1>2 DEF EvidenceFirst, Lists

\* A reservation behind the evidence keeps the evidence first.
LEMMA ReserveBehindEvidence ==
    ASSUME NEW S, Listed(S), NEW seq, Lists(seq, S), EvidenceFirst(S, seq), NEW c,
           NEW limit \in Nat, NEW p \in Nat, p >= Cardinality(Evidence(S))
    PROVE  LET r == Reserve(seq, c, p, limit) IN
           /\ Lists(r, S) /\ EvidenceFirst(S, r)
           /\ \A i \in 1..Cardinality(S) : i <= p => r[i] = seq[i]
           /\ p < limit => \A i \in limit + 1..Cardinality(S) : r[i] # c
<1> DEFINE r == Reserve(seq, c, p, limit)
           e == Cardinality(Evidence(S))
           n == Len(seq)
<1>0. n \in Nat /\ n = Cardinality(S) /\ e \in Nat /\ IsFiniteSet(S)
    BY EvidenceType DEF Lists
<1>1. CASE Stays(seq, r, c, p, limit)
    BY <1>0, <1>1 DEF Stays
<1>2. CASE MovesIn(seq, r, c, p, limit)
    <2>1. PICK k \in limit + 1..n :
                /\ seq[k] = c
                /\ \A i \in 1..n :
                     r[i] = IF i < p + 1 THEN seq[i] ELSE IF i = p + 1 THEN c
                            ELSE IF i <= k THEN seq[i - 1] ELSE seq[i]
        BY <1>2 DEF MovesIn
    <2>2. p < limit /\ Lists(r, S) /\ Len(r) = n
        BY <1>0, <1>2, ReserveDoes DEF MovesIn
    <2>6. k \in 1..n /\ k > e /\ p + 1 \in 1..n /\ p + 1 <= limit
        BY <1>0, <2>2
    <2> HIDE DEF r
    <2>3. \A i \in 1..n : IsEvidence(seq[i]) <=> i <= e
        BY DEF EvidenceFirst
    <2> HIDE DEF e
    <2>4. \A i \in 1..n : IsEvidence(r[i]) <=> i <= e
        <3> SUFFICES ASSUME NEW i \in 1..n PROVE IsEvidence(r[i]) <=> i <= e
            OBVIOUS
        <3>1. CASE i < p + 1
            BY <3>1, <2>1, <2>3
        <3>2. CASE i = p + 1
            <4>1. r[i] = seq[k] /\ i > e
                BY <3>2, <2>1, <1>0, <2>6 DEF e
            <4>2. ~IsEvidence(seq[k]) /\ ~(i <= e)
                BY <4>1, <2>6, <2>3, <1>0
            <4> QED BY <4>1, <4>2
        <3>3. CASE i > p + 1
            <4>1. PICK j \in {i - 1, i} : r[i] = seq[j]
                BY <3>3, <2>1, <1>0
            <4>2. j \in 1..n /\ j > e /\ i > e
                BY <3>3, <1>0 DEF e
            <4> QED BY <4>1, <4>2, <2>3, <1>0
        <3> QED BY <3>1, <3>2, <3>3, <1>0
    <2>5. \A i \in limit + 1..n : r[i] # c
        <3> SUFFICES ASSUME NEW i \in limit + 1..n, r[i] = c PROVE FALSE
            OBVIOUS
        <3>1. i \in 1..n /\ i # p + 1 /\ r[p + 1] = c
            BY <2>1, <2>6, <1>0
        <3> QED BY <3>1, <2>2, <2>6 DEF Lists
    <2> QED BY <1>0, <2>1, <2>2, <2>4, <2>5 DEF EvidenceFirst, r, e
<1>3. Stays(seq, r, c, p, limit) \/ MovesIn(seq, r, c, p, limit)
    BY <1>0, ReserveDoes
<1> QED
    BY <1>1, <1>2, <1>3

\* The schedule before the gateway's reservation.
LEMMA ReservesBehindEvidence ==
    ASSUME NEW S, Listed(S), NEW limit \in Nat
    PROVE  LET b == WithProbe(S, WithFallback(S, Ordered(S), limit), limit)
               n == Cardinality(S)
           IN  /\ Lists(b, S) /\ EvidenceFirst(S, b)
               /\ limit >= 4 /\ Cardinality(Evidence(S)) <= limit - 2 =>
                    /\ SubdomainProbes(S) # {} =>
                            \A i \in limit + 1..n : b[i] # ReservedProbe(S)
                    /\ HostFallbacks(S) # {} =>
                            \A i \in limit + 1..n : b[i] # ReservedFallback(S)
<1> DEFINE e == Cardinality(Evidence(S))
           n == Cardinality(S)
           f == ReservedFallback(S)
           s == ReservedProbe(S)
           o == Ordered(S)
           a == WithFallback(S, o, limit)
           b == WithProbe(S, a, limit)
           fp == Larger(e, limit - (IF limit >= 4 /\ SubdomainProbes(S) # {} THEN 2 ELSE 1))
           sp == Larger(e, limit - 1)
<1>0. e \in Nat /\ n \in Nat /\ Lists(o, S) /\ EvidenceFirst(S, o)
    BY EvidenceType, OrderedStarts
<1>1. fp \in Int /\ fp >= e /\ fp \in Nat /\ sp \in Nat /\ sp >= e
    BY <1>0 DEF Larger
<1>2. /\ Lists(a, S) /\ EvidenceFirst(S, a)
      /\ limit >= 4 /\ e <= limit - 2 /\ HostFallbacks(S) # {} =>
            \A i \in limit + 1..n : a[i] # f
    <2>1. CASE limit >= 3 /\ HostFallbacks(S) # {}
        <3>1. a = Reserve(o, f, fp, limit)
            BY <2>1 DEF WithFallback
        <3>2. limit >= 4 /\ e <= limit - 2 => fp < limit
            BY <1>0 DEF Larger
        <3> HIDE DEF a, fp, f, o, n
        <3>3. /\ Lists(Reserve(o, f, fp, limit), S)
              /\ EvidenceFirst(S, Reserve(o, f, fp, limit))
              /\ fp < limit => \A i \in limit + 1..Cardinality(S) : Reserve(o, f, fp, limit)[i] # f
            <4> HIDE DEF e
            <4>1. fp \in Nat /\ fp >= Cardinality(Evidence(S))
                BY <1>1 DEF e
            <4> QED BY <4>1, <1>0, ReserveBehindEvidence
        <3> QED BY <3>1, <3>2, <3>3 DEF n
    <2>2. CASE ~(limit >= 3 /\ HostFallbacks(S) # {})
        BY <1>0, <2>2 DEF WithFallback
    <2> QED BY <2>1, <2>2
<1>3. CASE limit >= 2 /\ SubdomainProbes(S) # {}
    <2>1. b = Reserve(a, s, sp, limit)
        BY <1>3 DEF WithProbe
    <2>2. e <= limit - 2 => sp = limit - 1 /\ sp < limit
        BY <1>0, <1>3 DEF Larger
    <2>3. LET r == Reserve(a, s, sp, limit) IN
          /\ Lists(r, S) /\ EvidenceFirst(S, r)
          /\ \A i \in 1..Cardinality(S) : i <= sp => r[i] = a[i]
          /\ sp < limit => \A i \in limit + 1..Cardinality(S) : r[i] # s
        <3> HIDE DEF a, s, sp
        <3> QED BY <1>1, <1>2, ReserveBehindEvidence
    <2>4. ASSUME limit >= 4, e <= limit - 2, HostFallbacks(S) # {},
                 NEW i \in limit + 1..n, b[i] = f
          PROVE  FALSE
        <3>1. fp = limit - 2
            BY <1>0, <1>3, <2>4 DEF Larger
        <3>2. f \in HostFallbacks(S) /\ f \in S /\ s \in SubdomainProbes(S) /\ s \in S
            BY FallbackExists, ProbeExists, <1>3, <2>4 DEF HostFallbacks, SubdomainProbes
        <3>3. a = Reserve(o, f, fp, limit)
            BY <2>4 DEF WithFallback
        <3>4. IsFiniteSet(S)
            BY EvidenceType
        <3>5. Ahead(S, s, f)
            BY <3>2, ProbesLeadFallbacks
        <3> HIDE DEF a, b, f, s, fp, sp, o, e
        <3>6. PICK k \in 1..n : a[k] = f
            BY <3>2, <1>2 DEF Lists
        <3>7. k <= limit
            BY <1>2, <2>4, <3>6, <1>0
        <3>8. Len(a) = n /\ Len(b) = n /\ Len(o) = n /\ i \in 1..n /\ i > limit
            BY <1>0, <1>2, <2>1, <2>3, <2>4 DEF Lists
        <3>9. k = limit
            <4>1. CASE k <= sp
                <5>1. b[k] = f
                    BY <2>1, <2>3, <3>6, <4>1
                <5> QED BY <5>1, <2>1, <2>3, <2>4, <3>7, <3>8, <1>0 DEF Lists
            <4> QED BY <4>1, <3>7, <2>2, <2>4, <1>0
        <3>10. \E j \in limit + 1..n : a[j] = s
            <4>1. b # a
                BY <1>2, <2>4, <3>7, <3>6, <3>8, <1>0 DEF Lists
            <4>2. Stays(a, b, s, sp, limit) \/ MovesIn(a, b, s, sp, limit)
                BY <2>1, <3>4, <1>1, <1>2, ReserveDoes
            <4>3. MovesIn(a, b, s, sp, limit)
                BY <4>1, <4>2 DEF Stays
            <4> QED BY <4>3, <3>8 DEF MovesIn
        <3>11. a = o
            <4>1. SUFFICES ASSUME a # o PROVE FALSE
                OBVIOUS
            <4>2. a[fp + 1] = f /\ fp + 1 \in 1..n /\ fp + 1 = limit - 1
                <5>1. \E m \in limit + 1..n : \A h \in 1..n :
                        a[h] = IF h < fp + 1 THEN o[h] ELSE IF h = fp + 1 THEN f
                               ELSE IF h <= m THEN o[h - 1] ELSE o[h]
                    <6>1. Stays(o, a, f, fp, limit) \/ MovesIn(o, a, f, fp, limit)
                        BY <3>3, <3>4, <1>0, <1>1, ReserveDoes
                    <6> QED BY <6>1, <4>1, <3>8 DEF Stays, MovesIn
                <5>2. fp + 1 \in 1..n /\ fp + 1 = limit - 1
                    BY <3>1, <3>8, <2>4, <1>0
                <5> QED BY <5>1, <5>2
            <4> QED BY <4>2, <3>6, <3>8, <3>9, <1>2, <1>0 DEF Lists
        <3>12. PICK j \in limit + 1..n : o[j] = s
            BY <3>10, <3>11
        <3>13. j < k
            <4>1. j \in 1..n /\ o[k] = f
                BY <3>6, <3>11, <1>0
            <4>2. \A g, h \in 1..n : Ahead(S, o[g], o[h]) => g < h
                BY OrderedLists DEF o
            <4> QED BY <4>1, <4>2, <3>5, <3>12
        <3> QED BY <3>7, <3>13, <1>0
    <2>5. /\ Lists(b, S) /\ EvidenceFirst(S, b)
          /\ limit >= 4 /\ e <= limit - 2 => \A i \in limit + 1..n : b[i] # s
        BY <2>1, <2>2, <2>3
    <2>6. limit >= 4 /\ e <= limit - 2 /\ HostFallbacks(S) # {} =>
                \A i \in limit + 1..n : b[i] # f
        BY <2>4
    <2> QED BY <2>5, <2>6
<1>4. CASE ~(limit >= 2 /\ SubdomainProbes(S) # {})
    <2>1. b = a
        BY <1>4 DEF WithProbe
    <2> QED BY <1>2, <1>4, <2>1
<1> QED
    BY <1>3, <1>4

\* Sorting and moving reserved candidates neither loses nor doubles one
\* (career_candidate_scheduler.py:20).
THEOREM EveryLinkOnce ==
    ASSUME NEW S, Listed(S), NEW limit \in Nat
    PROVE  Lists(Schedule(S, limit), S)
<1> DEFINE b == WithProbe(S, WithFallback(S, Ordered(S), limit), limit)
           p == Smaller(Cardinality(Evidence(S)), limit - 1)
<1>1. Lists(b, S)
    BY ReservesBehindEvidence
<1>2. CASE limit >= 2 /\ Gateways(S) # {}
    <2>1. Schedule(S, limit) = Reserve(b, ReservedGateway(S), p, limit)
        BY <1>2 DEF Schedule, WithGateway
    <2>2. p \in Nat /\ IsFiniteSet(S)
        BY <1>2, EvidenceType DEF Smaller
    <2> HIDE DEF b, p
    <2> QED BY <1>1, <2>1, <2>2, ReserveDoes
<1>3. CASE ~(limit >= 2 /\ Gateways(S) # {})
    BY <1>1, <1>3 DEF Schedule, WithGateway
<1> QED
    BY <1>2, <1>3

\* In the schedule of any candidates only the regional gateway may stand
\* before a link with evidence without being one
\* (career_candidate_scheduler.py:78, 95, 106).
THEOREM GuessesComeLast ==
    ASSUME NEW S, Listed(S), NEW limit \in Nat,
           NEW i \in 1..Cardinality(S), NEW j \in 1..Cardinality(S), i < j,
           ~IsEvidence(Schedule(S, limit)[i]), IsEvidence(Schedule(S, limit)[j])
    PROVE  /\ limit >= 2 /\ Gateways(S) # {}
           /\ Schedule(S, limit)[i] = ReservedGateway(S)
<1> DEFINE b == WithProbe(S, WithFallback(S, Ordered(S), limit), limit)
           e == Cardinality(Evidence(S))
           p == Smaller(e, limit - 1)
           r == Schedule(S, limit)
           g == ReservedGateway(S)
           n == Cardinality(S)
<1>1. Lists(b, S) /\ EvidenceFirst(S, b)
    BY ReservesBehindEvidence
<1>2. IsFiniteSet(S) /\ n \in Nat /\ e \in Nat /\ Len(b) = n
    BY <1>1, EvidenceType DEF Lists
<1>3. \A k \in 1..n : IsEvidence(b[k]) <=> k <= e
    BY <1>1, <1>2 DEF EvidenceFirst
<1>4. CASE limit >= 2 /\ Gateways(S) # {}
    <2>1. r = Reserve(b, g, p, limit)
        BY <1>4 DEF Schedule, WithGateway
    <2>2. p \in Nat /\ (p = e \/ p = limit - 1) /\ p <= e
        BY <1>2, <1>4 DEF Smaller
    <2>3. ~IsEvidence(r[i]) /\ IsEvidence(r[j])
        OBVIOUS
    <2> HIDE DEF b, p, r, g, e, n
    <2>4. Stays(b, r, g, p, limit) \/ MovesIn(b, r, g, p, limit)
        BY <1>1, <1>2, <2>1, <2>2, ReserveDoes
    <2>5. CASE Stays(b, r, g, p, limit)
        BY <2>5, <2>3, <1>2, <1>3 DEF Stays, n
    <2>6. CASE MovesIn(b, r, g, p, limit)
        <3>1. PICK k \in limit + 1..n :
                \A h \in 1..n : r[h] = IF h < p + 1 THEN b[h] ELSE IF h = p + 1 THEN g
                                       ELSE IF h <= k THEN b[h - 1] ELSE b[h]
            BY <2>6, <1>2 DEF MovesIn
        <3>2. i \in 1..n /\ j \in 1..n
            BY DEF n
        <3>3. CASE i < p + 1
            BY <3>1, <3>2, <3>3, <2>2, <2>3, <1>2, <1>3
        <3>4. CASE i > p + 1
            <4>1. PICK u \in {i - 1, i} : r[i] = b[u] /\ (u = i => i > k)
                BY <3>1, <3>2, <3>4, <2>2, <1>2
            <4>2. PICK v \in {j - 1, j} : r[j] = b[v] /\ (v = j - 1 => j <= k)
                BY <3>1, <3>2, <3>4, <2>2, <1>2
            <4>3. u \in 1..n /\ v \in 1..n /\ u < v
                BY <4>1, <4>2, <3>1, <3>2, <3>4, <2>2, <1>2
            <4> QED BY <4>1, <4>2, <4>3, <2>3, <1>2, <1>3
        <3>5. CASE i = p + 1
            BY <3>1, <3>2, <3>5, <2>2, <1>4 DEF r, g
        <3> QED BY <3>2, <3>3, <3>4, <3>5, <2>2, <1>2
    <2> QED BY <2>4, <2>5, <2>6
<1>5. CASE ~(limit >= 2 /\ Gateways(S) # {})
    BY <1>2, <1>3, <1>5 DEF Schedule, WithGateway
<1> QED
    BY <1>4, <1>5

\* Where no gateway is among them and evidence leaves two places, the host
\* fallback and the subdomain probe that are reserved are both within the
\* window (career_candidate_scheduler.py:81, 95).
THEOREM BothReservesStay ==
    ASSUME NEW S, Listed(S), NEW limit \in Nat, limit >= 4, Gateways(S) = {},
           Cardinality(Evidence(S)) <= limit - 2, NEW i \in limit + 1..Cardinality(S)
    PROVE  /\ SubdomainProbes(S) # {} => Schedule(S, limit)[i] # ReservedProbe(S)
           /\ HostFallbacks(S) # {} => Schedule(S, limit)[i] # ReservedFallback(S)
BY ReservesBehindEvidence DEF Schedule, WithGateway

-----------------------------------------------------------------------------
(* The search: the inductive invariant and the steps that keep it.         *)

PlaceOK ==
    /\ at \in Places
    /\ homepage \in BOOLEAN /\ bundled \in BOOLEAN /\ denial \in BOOLEAN

PassesOK ==
    /\ passes \in Seq(Passes) /\ Len(passes) <= 2
    /\ \A n \in 1..Len(passes) : passes[n].spent <= passes[n].limit
    /\ remembers \in BOOLEAN
    /\ attempted \in SUBSET Urls
    /\ trace \in [denials : [Sites -> 0..2], unreached : BOOLEAN, exhausted : BOOLEAN]
    /\ result \in Results
    /\ visits \in Nat
    /\ seen \in [Fates -> SUBSET Urls]

\* A nested pass has one fetch, paid for by the pass around it.
BudgetInv ==
    /\ Len(passes) = 1 => visits <= passes[1].spent
    /\ Len(passes) = 2 =>
        /\ passes[2].limit <= 1 /\ passes[2].gateways = {}
        /\ visits + 1 <= passes[1].spent + passes[2].spent

\* What the outermost pass has left to visit was visited by a nested pass
\* at most.
MemoryInv ==
    /\ passes # <<>> =>
        \A i, j \in 1..Len(passes[1].window) :
            passes[1].window[i].url = passes[1].window[j].url => i = j
    /\ remembers =>
        /\ seen["visited"] \subseteq attempted
        /\ passes # <<>> => \A i \in 1..Len(passes[1].window) :
            passes[1].window[i].url \in seen["visited"] => passes[1].window[i].url \in seen["nested"]

Waits(p, u) ==
    \/ \E i \in 1..Len(p.window) : IsEvidence(p.window[i]) /\ p.window[i].url = u
    \/ \E c \in p.left : IsEvidence(c) /\ c.url = u

\* Each scheduled link with evidence is accounted for, waits in a pass, or
\* the trace tells of one that was not answered for.
MissInv ==
    \A u \in seen["queued"] :
        \/ u \in seen["settled"] \cup seen["crowded"] \cup seen["skipped"]
        \/ trace.unreached \/ trace.exhausted
        \/ \E n \in 1..Len(passes) : Waits(passes[n], u)

OrderKept(p) ==
    \A i \in 1..Len(p.window) : ~IsEvidence(p.window[i]) /\ p.window[i] \notin p.gateways =>
        /\ \A c \in p.left : ~IsEvidence(c)
        /\ \A j \in i..Len(p.window) : ~IsEvidence(p.window[j])

ReservesKept(p) ==
    p.limit >= 4 /\ p.gateways = {} /\ Cardinality(Evidence(p.of)) <= p.limit - 2 =>
        /\ SubdomainProbes(p.of) # {} => ReservedProbe(p.of) \notin p.left
        /\ HostFallbacks(p.of) # {} => ReservedFallback(p.of) \notin p.left

ScheduleInv == \A n \in 1..Len(passes) : OrderKept(passes[n]) /\ ReservesKept(passes[n])

Core == PassesOK /\ BudgetInv /\ MemoryInv /\ MissInv /\ ScheduleInv /\ NotVisitedAgain /\ MissIsEarned

IInv == PlaceOK /\ Core

-----------------------------------------------------------------------------
(* A new pass.                                                             *)

LEMMA GatewayExists ==
    ASSUME NEW S, Listed(S), Gateways(S) # {}
    PROVE  ReservedGateway(S) \in Gateways(S)
<1> DEFINE F == Gateways(S)
           R == {p \in F \X F : Ahead(S, p[1], p[2])}
<1>1. IsFiniteSet(F) /\ F \in SUBSET S
    BY FS_Subset DEF Gateways, Listed
<1> HIDE DEF F
<1>2. R \in SUBSET (F \X F) /\ \A d, e \in F : <<d, e>> \in R <=> Ahead(S, d, e)
    OBVIOUS
<1> HIDE DEF R
<1>3. \E d \in F : \A e \in F : d = e \/ <<d, e>> \in R
    <2>1. \A d \in F : <<d, d>> \notin R
        BY <1>1, <1>2, AheadIsAnOrder
    <2>2. \A d, e, g \in F : <<d, e>> \in R /\ <<e, g>> \in R => <<d, g>> \in R
        BY <1>1, <1>2, AheadIsAnOrder
    <2>3. \A d, e \in F : d = e \/ <<d, e>> \in R \/ <<e, d>> \in R
        <3> SUFFICES ASSUME NEW d \in F, NEW e \in F, d # e
                     PROVE  <<d, e>> \in R \/ <<e, d>> \in R
            OBVIOUS
        <3>1. Ahead(S, d, e) \/ Ahead(S, e, d)
            BY <1>1, AheadIsAnOrder
        <3> QED BY <3>1, <1>2
    <2>4. F # {}
        BY DEF F
    <2> QED BY <1>1, <1>2, <2>1, <2>2, <2>3, <2>4, SomeFirst, ZenonT(60)
<1>4. PICK d \in F : \A e \in F : d = e \/ <<d, e>> \in R
    BY <1>3
<1>5. \A e \in F : d = e \/ Ahead(S, d, e)
    BY <1>2, <1>4
<1> QED
    BY <1>5 DEF ReservedGateway, F

LEMMA OffersListed ==
    ASSUME DiscoveryAssumption, NEW s \in Sources, NEW S \in SUBSET Offers[s]
    PROVE  Listed(S) /\ S \in SUBSET Candidates /\ \A c \in S : c.site \in Sites
BY ListedSubset DEF DiscoveryAssumption, Candidates

LEMMA LimitType ==
    ASSUME DiscoveryAssumption, NEW s \in Sources
    PROVE  Limit(s) \in Nat /\ Limit("gateway") <= 1
BY DEF DiscoveryAssumption, Limit, Smaller, Sources

\* p is a pass over S that has not begun.
Laid(p, s, S) ==
    /\ p \in Passes
    /\ p.limit = Limit(s)
    /\ p.spent = 0
    /\ Limit(s) < 2 => p.gateways = {}
    /\ \A c \in S : c \in p.left \/ \E i \in 1..Len(p.window) : p.window[i] = c
    /\ \A i \in 1..Len(p.window) : p.window[i] \in S
    /\ \A i, j \in 1..Len(p.window) : p.window[i] = p.window[j] => i = j
    /\ OrderKept(p) /\ ReservesKept(p)

\* A pass begins with its candidates laid out in the window and beyond it,
\* in the order and with the reservations of the schedule.
LEMMA NewPassDoes ==
    ASSUME DiscoveryAssumption, NEW s \in Sources, NEW S \in SUBSET Offers[s],
           NEW home \in Sites
    PROVE  Laid(NewPass(s, S, home), s, S)
<1> DEFINE limit == Limit(s)
           order == Schedule(S, limit)
           n == Cardinality(S)
           cut == Smaller(limit, n)
           w == SubSeq(order, 1, cut)
           b == SubSeq(order, cut + 1, n)
           g == IF limit >= 2 /\ Gateways(S) # {} THEN {ReservedGateway(S)} ELSE {}
           p == NewPass(s, S, home)
<1>1. /\ Listed(S) /\ S \in SUBSET Candidates /\ limit \in Nat
      /\ IsFiniteSet(S) /\ n \in Nat
    BY OffersListed, LimitType, EvidenceType
<1>2. Lists(order, S) /\ order \in Seq(S) /\ Len(order) = n
    <2>1. Lists(order, S)
        <3> HIDE DEF limit
        <3> QED BY <1>1, EveryLinkOnce
    <2> QED BY <2>1 DEF Lists
<1>3. p = [source |-> s, home |-> home, limit |-> limit, spent |-> 0, of |-> S,
           window |-> w, left |-> ToSet(b), gateways |-> g]
    BY <1>2 DEF NewPass
<1>4. cut \in Nat /\ cut <= n /\ cut <= limit /\ (cut < n => cut = limit)
    BY <1>1 DEF Smaller
<1>5. w \in Seq(S) /\ Len(w) = cut /\ \A i \in 1..cut : w[i] = order[i]
    <2> HIDE DEF order, cut, n
    <2> QED BY <1>1, <1>2, <1>4, SubSeqProperties
<1>6. b \in Seq(S) /\ Len(b) = n - cut /\ \A i \in 1..n - cut : b[i] = order[cut + i]
    <2> HIDE DEF order, cut, n
    <2> QED BY <1>1, <1>2, <1>4, SubSeqProperties
<1>7. ToSet(b) = {order[i] : i \in cut + 1..n}
    <2>1. ToSet(b) = {b[i] : i \in 1..n - cut}
        <3> HIDE DEF b
        <3> QED BY <1>6 DEF ToSet
    <2> HIDE DEF b, order, cut, n
    <2>2. \A i \in cut + 1..n : order[i] = b[i - cut] /\ i - cut \in 1..n - cut
        <3> SUFFICES ASSUME NEW i \in cut + 1..n
                     PROVE  order[i] = b[i - cut] /\ i - cut \in 1..n - cut
            OBVIOUS
        <3>1. i - cut \in 1..n - cut /\ cut + (i - cut) = i
            BY <1>1, <1>4
        <3> QED BY <3>1, <1>6
    <2>3. \A i \in 1..n - cut : b[i] = order[cut + i] /\ cut + i \in cut + 1..n
        BY <1>1, <1>4, <1>6
    <2> QED BY <2>1, <2>2, <2>3
<1>8. g \in SUBSET S
    BY <1>1, GatewayExists DEF Gateways
<1>9. p \in Passes
    <2>1. w \in Seq(Candidates) /\ ToSet(b) \in SUBSET Candidates
        <3>1. ToSet(b) \in SUBSET S
            <4> HIDE DEF order, b, cut, n
            <4> QED BY <1>1, <1>2, <1>4, <1>7 DEF Lists
        <3> HIDE DEF w, b
        <3> QED BY <1>1, <1>5, <3>1, SeqMonotonic
    <2> HIDE DEF w, b, g, p, limit
    <2> QED BY <1>1, <1>3, <1>8, <2>1 DEF Passes
<1>10. \A c \in S : c \in ToSet(b) \/ \E i \in 1..cut : w[i] = c
    <2> HIDE DEF w, b, order, cut, n
    <2> SUFFICES ASSUME NEW c \in S PROVE c \in ToSet(b) \/ \E i \in 1..cut : w[i] = c
        OBVIOUS
    <2>1. PICK i \in 1..n : order[i] = c
        BY <1>2 DEF Lists
    <2>2. i \in 1..cut \/ i \in cut + 1..n
        BY <1>1, <1>4
    <2> QED BY <2>1, <2>2, <1>5, <1>7
<1>11. \A i, j \in 1..cut : w[i] = w[j] => i = j
    <2> HIDE DEF w, b, order, cut, n
    <2> QED BY <1>1, <1>2, <1>4, <1>5 DEF Lists
<1>12. OrderKept(p)
    <2> SUFFICES ASSUME NEW i \in 1..cut, ~IsEvidence(w[i]), w[i] \notin g
                 PROVE  /\ \A c \in ToSet(b) : ~IsEvidence(c)
                        /\ \A j \in i..cut : ~IsEvidence(w[j])
        <3> HIDE DEF w, b, g, p
        <3> QED BY <1>3, <1>5 DEF OrderKept
    <2>1. i \in 1..n /\ order[i] = w[i]
        BY <1>1, <1>4, <1>5
    <2>2. \A j \in i + 1..n : ~IsEvidence(order[j])
        <3> SUFFICES ASSUME NEW j \in i + 1..n, IsEvidence(order[j]) PROVE FALSE
            OBVIOUS
        <3>1. j \in 1..n /\ i < j
            BY <1>1, <2>1
        <3>2. limit >= 2 /\ Gateways(S) # {} /\ order[i] = ReservedGateway(S)
            <4>1. ~IsEvidence(order[i])
                BY <2>1
            <4> HIDE DEF w, g
            <4> QED BY <1>1, <2>1, <3>1, <4>1, GuessesComeLast
        <3> QED BY <3>2, <2>1
    <2> HIDE DEF w, b, order, cut, n
    <2>3. \A c \in ToSet(b) : ~IsEvidence(c)
        BY <1>1, <1>4, <1>7, <2>1, <2>2
    <2>4. \A j \in i..cut : ~IsEvidence(w[j])
        <3> SUFFICES ASSUME NEW j \in i..cut PROVE ~IsEvidence(w[j])
            OBVIOUS
        <3>1. j \in 1..cut /\ (j = i \/ j \in i + 1..n)
            BY <1>1, <1>4, <2>1
        <3> QED BY <3>1, <2>2, <1>5
    <2> QED BY <2>3, <2>4
<1>13. ReservesKept(p)
    <2> SUFFICES ASSUME limit >= 4, g = {}, Cardinality(Evidence(S)) <= limit - 2
                 PROVE  /\ SubdomainProbes(S) # {} => ReservedProbe(S) \notin ToSet(b)
                        /\ HostFallbacks(S) # {} => ReservedFallback(S) \notin ToSet(b)
        <3> HIDE DEF w, b, g, p, limit
        <3> QED BY <1>3 DEF ReservesKept
    <2>1. Gateways(S) = {}
        BY <1>1
    <2>2. \A i \in limit + 1..n :
            /\ SubdomainProbes(S) # {} => order[i] # ReservedProbe(S)
            /\ HostFallbacks(S) # {} => order[i] # ReservedFallback(S)
        BY <1>1, <2>1, BothReservesStay
    <2> HIDE DEF b, order, n, limit, cut
    <2>3. \A i \in cut + 1..n : i \in limit + 1..n
        BY <1>1, <1>4
    <2> QED BY <1>7, <2>2, <2>3
<1> HIDE DEF w, b, g, p, limit
<1> QED
    BY <1>1, <1>3, <1>5, <1>9, <1>10, <1>11, <1>12, <1>13 DEF p, limit, g, Laid

-----------------------------------------------------------------------------
(* The history of URLs.                                                    *)

LEMMA NoteDoes ==
    ASSUME NEW fates \in [Fates -> SUBSET Urls], NEW f \in Fates, NEW U \in SUBSET Urls
    PROVE  /\ Note(fates, f, U) \in [Fates -> SUBSET Urls]
           /\ Note(fates, f, U)[f] = fates[f] \cup U
           /\ \A h \in Fates \ {f} : Note(fates, f, U)[h] = fates[h]
BY DEF Note

LEMMA FatesAre ==
    /\ "queued" \in Fates /\ "visited" \in Fates /\ "nested" \in Fates
    /\ "again" \in Fates /\ "settled" \in Fates /\ "crowded" \in Fates /\ "skipped" \in Fates
BY DEF Fates

LEMMA UrlsAre ==
    ASSUME NEW S \in SUBSET Candidates
    PROVE  UrlsOf(S) \in SUBSET Urls /\ UrlsOf(Evidence(S)) \in SUBSET Urls
BY DEF UrlsOf, Urls, Evidence

LEMMA RecordedDoes ==
    ASSUME seen \in [Fates -> SUBSET Urls], NEW c \in Candidates
    PROVE  /\ Recorded(c) \in [Fates -> SUBSET Urls]
           /\ Recorded(c)["visited"] = seen["visited"] \cup {c.url}
           /\ Recorded(c)["again"] = seen["again"] \cup
                (IF remembers /\ c.url \in seen["visited"] THEN {c.url} ELSE {})
           /\ Recorded(c)["nested"] = seen["nested"] \cup (IF Len(passes) = 2 THEN {c.url} ELSE {})
           /\ \A f \in Fates \ {"visited", "again", "nested"} : Recorded(c)[f] = seen[f]
<1> DEFINE visited == Note(seen, "visited", {c.url})
           repeats == IF remembers /\ c.url \in seen["visited"] THEN {c.url} ELSE {}
           inside == IF Len(passes) = 2 THEN {c.url} ELSE {}
           more == Note(visited, "again", repeats)
<1>1. {c.url} \in SUBSET Urls /\ repeats \in SUBSET Urls /\ inside \in SUBSET Urls
    BY DEF Urls
<1> HIDE DEF repeats, inside
<1>2. /\ visited \in [Fates -> SUBSET Urls]
      /\ visited["visited"] = seen["visited"] \cup {c.url}
      /\ \A h \in Fates \ {"visited"} : visited[h] = seen[h]
    BY <1>1, NoteDoes, FatesAre
<1> HIDE DEF visited
<1>3. /\ more \in [Fates -> SUBSET Urls]
      /\ more["again"] = visited["again"] \cup repeats
      /\ \A h \in Fates \ {"again"} : more[h] = visited[h]
    BY <1>1, <1>2, NoteDoes, FatesAre
<1>4. Recorded(c) = Note(more, "nested", inside)
    BY DEF Recorded, visited, repeats, inside
<1> HIDE DEF more
<1>5. /\ Recorded(c) \in [Fates -> SUBSET Urls]
      /\ Recorded(c)["nested"] = more["nested"] \cup inside
      /\ \A h \in Fates \ {"nested"} : Recorded(c)[h] = more[h]
    BY <1>1, <1>3, <1>4, NoteDoes, FatesAre
<1> QED
    BY <1>2, <1>3, <1>5, FatesAre DEF repeats, inside

LEMMA QueuedDoes ==
    ASSUME NEW fates \in [Fates -> SUBSET Urls], NEW T \in SUBSET Candidates
    PROVE  /\ Queued(fates, T) \in [Fates -> SUBSET Urls]
           /\ Queued(fates, T)["queued"] = fates["queued"] \cup UrlsOf(Evidence(T))
           /\ \A f \in Fates \ {"queued"} : Queued(fates, T)[f] = fates[f]
BY UrlsAre, NoteDoes, FatesAre DEF Queued

\* A link with evidence waits in the pass that scheduled it.
LEMMA NewPassWaits ==
    ASSUME DiscoveryAssumption, NEW s \in Sources, NEW S \in SUBSET Offers[s],
           NEW home \in Sites, NEW u \in UrlsOf(Evidence(S))
    PROVE  Waits(NewPass(s, S, home), u)
<1>1. PICK c \in S : IsEvidence(c) /\ c.url = u
    BY DEF UrlsOf, Evidence
<1>2. Laid(NewPass(s, S, home), s, S)
    BY NewPassDoes
<1> QED
    BY <1>1, <1>2 DEF Waits, Laid

-----------------------------------------------------------------------------
(* The initial state and the steps of _find_career_page.                   *)

LEMMA InitCore == Init => IInv
<1> SUFFICES ASSUME Init PROVE IInv
    OBVIOUS
<1>1. PlaceOK
    BY DEF Init, PlaceOK, Places
<1>2. PassesOK
    BY DEF Init, PassesOK, Results, Fates
<1>3. BudgetInv /\ MemoryInv /\ MissInv /\ ScheduleInv /\ NotVisitedAgain /\ MissIsEarned
    BY DEF Init, BudgetInv, MemoryInv, MissInv, ScheduleInv, NotVisitedAgain, MissIsEarned, Fates
<1> QED
    BY <1>1, <1>2, <1>3 DEF IInv, Core

LEMMA OmitKeeps ==
    ASSUME Core, Omit
    PROVE  Core'
<1> USE DEF Omit
<1>1. PassesOK' /\ BudgetInv' /\ MemoryInv'
    BY DEF Core, PassesOK, BudgetInv, MemoryInv
<1>2. MissInv' /\ NotVisitedAgain' /\ MissIsEarned'
    BY DEF Core, MissInv, Waits, NotVisitedAgain, MissIsEarned
<1>3. ScheduleInv'
    BY DEF Core, ScheduleInv, OrderKept, ReservesKept
<1> QED
    BY <1>1, <1>2, <1>3 DEF Core

LEMMA BeginKeeps ==
    ASSUME DiscoveryAssumption, Core, Idle, NEW s \in Sources, NEW S \in SUBSET Offers[s],
           \A c, d \in S : c.url = d.url => c = d, Begin(s, S)
    PROVE  Core'
<1> DEFINE T == NotAttempted(S, attempted)
           p == NewPass(s, T, "official")
<1>1. /\ passes = <<>> /\ result = "none" /\ passes' = <<p>> /\ seen' = Queued(seen, T)
      /\ visits' = 0
      /\ attempted' = attempted /\ trace' = trace /\ result' = result /\ remembers' = remembers
    BY DEF Idle, Begin
<1>2. T \in SUBSET Offers[s] /\ T \in SUBSET S /\ \A c \in T : c.url \notin attempted
    BY DEF NotAttempted
<1>3. S \in SUBSET Candidates /\ T \in SUBSET Candidates /\ "official" \in Sites
    BY <1>2, OffersListed DEF Sites
<1>4. Laid(p, s, T)
    <2> HIDE DEF T
    <2> QED BY <1>2, <1>3, NewPassDoes
<1>seen. seen \in [Fates -> SUBSET Urls]
    BY DEF Core, PassesOK
<1>5. /\ seen' \in [Fates -> SUBSET Urls]
      /\ seen'["queued"] = seen["queued"] \cup UrlsOf(Evidence(T))
      /\ \A f \in Fates \ {"queued"} : seen'[f] = seen[f]
    <2> HIDE DEF T
    <2>1. seen' = Queued(seen, T)
        BY <1>1
    <2>2. /\ Queued(seen, T) \in [Fates -> SUBSET Urls]
          /\ Queued(seen, T)["queued"] = seen["queued"] \cup UrlsOf(Evidence(T))
          /\ \A f \in Fates \ {"queued"} : Queued(seen, T)[f] = seen[f]
        BY <1>3, <1>seen, QueuedDoes
    <2> QED BY <2>1, <2>2
<1>6. \A u \in UrlsOf(Evidence(T)) : Waits(p, u)
    <2> HIDE DEF T
    <2> QED BY <1>2, <1>3, NewPassWaits
<1>7. Len(passes') = 1 /\ passes'[1] = p /\ passes' # <<>>
    BY <1>1
<1> HIDE DEF p, T
<1>8. PassesOK'
    <2>1. passes' \in Seq(Passes)
        BY <1>1, <1>4 DEF Laid
    <2>2. p.limit \in Nat
        BY <1>4, LimitType DEF Laid
    <2> QED BY <1>1, <1>4, <1>5, <1>7, <2>1, <2>2 DEF Core, PassesOK, Laid
<1>9. BudgetInv'
    BY <1>1, <1>4, <1>7 DEF BudgetInv, Laid
<1>10. MemoryInv'
    <2>1. \A i, j \in 1..Len(p.window) : p.window[i].url = p.window[j].url => i = j
        BY <1>2, <1>4 DEF Laid
    <2>2. seen'["visited"] = seen["visited"]
        BY <1>5, FatesAre
    <2>3. remembers => seen["visited"] \subseteq attempted
        BY DEF Core, MemoryInv
    <2>4. \A i \in 1..Len(p.window) : p.window[i].url \notin attempted
        BY <1>2, <1>4 DEF Laid
    <2> QED BY <1>1, <1>7, <2>1, <2>2, <2>3, <2>4 DEF MemoryInv
<1>11. MissInv'
    <2>1. /\ seen'["settled"] = seen["settled"] /\ seen'["crowded"] = seen["crowded"]
          /\ seen'["skipped"] = seen["skipped"]
        BY <1>5, FatesAre
    <2>2. \A u \in seen["queued"] :
            \/ u \in seen["settled"] \cup seen["crowded"] \cup seen["skipped"]
            \/ trace.unreached \/ trace.exhausted
        BY <1>1 DEF Core, MissInv
    <2> SUFFICES ASSUME NEW u \in seen'["queued"]
                 PROVE  \/ u \in seen'["settled"] \cup seen'["crowded"] \cup seen'["skipped"]
                        \/ trace'.unreached \/ trace'.exhausted
                        \/ Waits(passes'[1], u)
        BY <1>7 DEF MissInv, Waits
    <2> QED BY <1>1, <1>5, <1>6, <1>7, <2>1, <2>2
<1>12. ScheduleInv'
    BY <1>4, <1>7 DEF ScheduleInv, OrderKept, ReservesKept, Laid
<1>13. NotVisitedAgain' /\ MissIsEarned'
    BY <1>1, <1>5, FatesAre DEF Core, NotVisitedAgain, MissIsEarned
<1> QED
    BY <1>8, <1>9, <1>10, <1>11, <1>12, <1>13 DEF Core

-----------------------------------------------------------------------------
(* The steps of a pass.                                                    *)

\* The innermost pass and what replacing it does to the others.
LEMMA TopIs ==
    ASSUME PassesOK, passes # <<>>, NEW p \in Passes
    PROVE  /\ Len(passes) \in {1, 2} /\ Top \in Passes /\ Top = passes[Len(passes)]
           /\ Top.spent <= Top.limit
           /\ OnTop(p) \in Seq(Passes) /\ Len(OnTop(p)) = Len(passes) /\ OnTop(p) # <<>>
           /\ \A n \in 1..Len(passes) :
                OnTop(p)[n] = IF n = Len(passes) THEN p ELSE passes[n]
<1>1. passes \in Seq(Passes) /\ Len(passes) <= 2
    BY DEF PassesOK
<1>2. Len(passes) \in {1, 2}
    <2>1. Len(passes) \in Nat \ {0}
        <3>1. \A w \in Seq(Passes) : w # <<>> => Len(w) \in Nat \ {0}
            BY EmptySeq
        <3> QED BY <1>1, <3>1
    <2>2. \A n \in Nat \ {0} : n <= 2 => n \in {1, 2}
        OBVIOUS
    <2> QED BY <1>1, <2>1, <2>2, Zenon
<1>3. Len(passes) \in 1..Len(passes)
    BY <1>2
<1>4. /\ OnTop(p) \in Seq(Passes) /\ Len(OnTop(p)) = Len(passes)
      /\ \A n \in 1..Len(passes) : OnTop(p)[n] = IF n = Len(passes) THEN p ELSE passes[n]
    BY <1>1, <1>3, ExceptSeq DEF OnTop
<1> QED
    BY <1>1, <1>2, <1>3, <1>4 DEF Top, PassesOK

LEMMA TopType ==
    ASSUME PassesOK, passes # <<>>
    PROVE  Top \in Passes
<1>1. passes[1] \in Passes
    BY EmptySeq DEF PassesOK
<1>2. \A x \in Passes : Top \in Passes
    BY TopIs
<1> QED
    BY <1>1, <1>2

\* The first link of the window and those behind it.
LEMMA FirstIs ==
    ASSUME NEW p \in Passes, p.window # <<>>
    PROVE  /\ Head(p.window) \in Candidates /\ Head(p.window) = p.window[1]
           /\ Len(p.window) \in Nat /\ 1 \in 1..Len(p.window)
           /\ Tail(p.window) \in Seq(Candidates)
           /\ Len(Tail(p.window)) = Len(p.window) - 1
           /\ \A i \in 1..Len(p.window) - 1 : Tail(p.window)[i] = p.window[i + 1]
           /\ \A i \in 1..Len(p.window) :
                \/ p.window[i] = Head(p.window)
                \/ \E j \in 1..Len(p.window) - 1 : Tail(p.window)[j] = p.window[i]
<1>1. p.window \in Seq(Candidates)
    BY DEF Passes
<1>2. /\ Head(p.window) \in Candidates /\ Head(p.window) = p.window[1]
      /\ Tail(p.window) \in Seq(Candidates) /\ Len(Tail(p.window)) = Len(p.window) - 1
      /\ Len(p.window) \in Nat /\ Len(p.window) # 0
      /\ \A i \in 1..Len(p.window) - 1 : Tail(p.window)[i] = p.window[i + 1]
    BY <1>1, HeadTailProperties, EmptySeq
<1>3. ASSUME NEW i \in 1..Len(p.window), p.window[i] # Head(p.window)
      PROVE  \E j \in 1..Len(p.window) - 1 : Tail(p.window)[j] = p.window[i]
    <2>1. i # 1
        BY <1>2, <1>3
    <2>2. i - 1 \in 1..Len(p.window) - 1 /\ Tail(p.window)[i - 1] = p.window[(i - 1) + 1]
        BY <1>2, <2>1
    <2>3. (i - 1) + 1 = i
        OBVIOUS
    <2> QED BY <2>2, <2>3
<1> QED
    BY <1>2, <1>3

\* The pass without its first link.
LEMMA VisitedIs ==
    ASSUME NEW p \in Passes, p.window # <<>>, NEW cost \in Nat
    PROVE  LET q == Visited(p, cost) IN
           /\ q \in Passes
           /\ q.window = Tail(p.window) /\ q.spent = p.spent + cost
           /\ q.limit = p.limit /\ q.of = p.of /\ q.left = p.left /\ q.gateways = p.gateways
<1> DEFINE q == Visited(p, cost)
<1>1. Tail(p.window) \in Seq(Candidates) /\ p.spent + cost \in Nat
    BY FirstIs DEF Passes
<1>2. /\ q.window = Tail(p.window) /\ q.spent = p.spent + cost
      /\ q.limit = p.limit /\ q.of = p.of /\ q.left = p.left /\ q.gateways = p.gateways
    BY DEF Visited, Passes
<1>3. \A w \in Seq(Candidates), x \in Nat : [p EXCEPT !.window = w, !.spent = x] \in Passes
    BY DEF Passes
<1>4. q = [p EXCEPT !.window = Tail(p.window), !.spent = p.spent + cost]
    BY DEF Visited, Passes
<1> HIDE DEF q
<1>5. q \in Passes
    BY <1>1, <1>3, <1>4
<1> QED
    BY <1>2, <1>5 DEF q

\* What holds of a pass's order and reservations holds without its first link.
LEMMA VisitedKeeps ==
    ASSUME NEW p \in Passes, p.window # <<>>, NEW cost \in Nat, OrderKept(p), ReservesKept(p)
    PROVE  OrderKept(Visited(p, cost)) /\ ReservesKept(Visited(p, cost))
<1> DEFINE q == Visited(p, cost)
<1>1. /\ q.window = Tail(p.window) /\ q.left = p.left /\ q.gateways = p.gateways
      /\ q.limit = p.limit /\ q.of = p.of
    BY VisitedIs
<1>2. Len(q.window) = Len(p.window) - 1 /\ Len(p.window) \in Nat
    BY <1>1, FirstIs
<1>3. \A i \in 1..Len(q.window) : q.window[i] = p.window[i + 1] /\ i + 1 \in 1..Len(p.window)
    BY <1>1, <1>2, FirstIs
<1> HIDE DEF q
<1>4. OrderKept(q)
    <2> SUFFICES ASSUME NEW i \in 1..Len(q.window),
                        ~IsEvidence(q.window[i]), q.window[i] \notin q.gateways
                 PROVE  /\ \A c \in q.left : ~IsEvidence(c)
                        /\ \A j \in i..Len(q.window) : ~IsEvidence(q.window[j])
        BY DEF OrderKept
    <2>1. /\ \A c \in p.left : ~IsEvidence(c)
          /\ \A j \in i + 1..Len(p.window) : ~IsEvidence(p.window[j])
        BY <1>1, <1>3 DEF OrderKept
    <2>2. \A j \in i..Len(q.window) : ~IsEvidence(q.window[j])
        <3> SUFFICES ASSUME NEW j \in i..Len(q.window) PROVE ~IsEvidence(q.window[j])
            OBVIOUS
        <3>1. j \in 1..Len(q.window) /\ j + 1 \in i + 1..Len(p.window)
            BY <1>2
        <3> QED BY <3>1, <2>1, <1>3
    <2> QED BY <1>1, <2>1, <2>2
<1>5. ReservesKept(q)
    BY <1>1 DEF ReservesKept
<1> QED
    BY <1>4, <1>5 DEF q

\* A link with evidence waits on, unless it is the first of the window.
LEMMA VisitedWaits ==
    ASSUME NEW p \in Passes, p.window # <<>>, NEW cost \in Nat, NEW u, Waits(p, u),
           IsEvidence(Head(p.window)) => Head(p.window).url # u
    PROVE  Waits(Visited(p, cost), u)
<1> DEFINE q == Visited(p, cost)
<1>1. q.window = Tail(p.window) /\ q.left = p.left
    BY VisitedIs
<1>2. Len(q.window) = Len(p.window) - 1
    BY <1>1, FirstIs
<1> HIDE DEF q
<1>3. CASE \E c \in p.left : IsEvidence(c) /\ c.url = u
    BY <1>1, <1>3 DEF Waits, q
<1>4. ASSUME NEW i \in 1..Len(p.window), IsEvidence(p.window[i]), p.window[i].url = u
      PROVE  Waits(q, u)
    <2>1. \E j \in 1..Len(p.window) - 1 : Tail(p.window)[j] = p.window[i]
        BY <1>4, FirstIs
    <2> QED BY <1>1, <1>2, <1>4, <2>1 DEF Waits
<1> QED
    BY <1>3, <1>4 DEF Waits, q

TraceType == [denials : [Sites -> 0..2], unreached : BOOLEAN, exhausted : BOOLEAN]

\* What asking for the link c adds to the history of URLs, or nothing.
VisitedOnce(c) ==
    \/ /\ seen'["visited"] = seen["visited"] \cup {c.url}
       /\ seen'["again"] = seen["again"] \cup
            (IF remembers /\ c.url \in seen["visited"] THEN {c.url} ELSE {})
       /\ seen'["nested"] = seen["nested"] \cup (IF Len(passes) = 2 THEN {c.url} ELSE {})
    \/ /\ seen'["visited"] = seen["visited"] /\ seen'["again"] = seen["again"]
       /\ seen'["nested"] = seen["nested"]

\* A step that takes the first link from the window of the innermost pass
\* and accounts for it.
LEMMA TakingKeeps ==
    ASSUME Core, Visiting, NEW c, c = Head(Top.window), NEW cost \in {0, 1},
           passes' = OnTop(Visited(Top, cost)), visits' = visits + cost,
           Remember(c), remembers' = remembers, result' \in {"none", "found"},
           trace' \in TraceType, trace'.exhausted = trace.exhausted,
           trace.unreached => trace'.unreached,
           seen' \in [Fates -> SUBSET Urls], seen'["queued"] = seen["queued"],
           \A f \in {"settled", "crowded", "skipped"} : seen[f] \subseteq seen'[f],
           IsEvidence(c) => c.url \in seen'["settled"] \cup seen'["skipped"] \/ trace'.unreached,
           VisitedOnce(c)
    PROVE  Core'
<1> DEFINE p == Top
           q == Visited(Top, cost)
           L == Len(passes)
<1>0. /\ PassesOK /\ passes # <<>> /\ p.window # <<>> /\ p.spent < p.limit /\ result = "none"
    BY DEF Core, Visiting
<1>1. p \in Passes /\ cost \in Nat
    BY <1>0, TopType
<1>2. /\ q \in Passes /\ q.window = Tail(p.window) /\ q.spent = p.spent + cost
      /\ q.limit = p.limit /\ q.of = p.of /\ q.left = p.left /\ q.gateways = p.gateways
    <2> HIDE DEF p
    <2>1. LET r == Visited(p, cost) IN
           /\ r \in Passes
           /\ r.window = Tail(p.window) /\ r.spent = p.spent + cost
           /\ r.limit = p.limit /\ r.of = p.of /\ r.left = p.left /\ r.gateways = p.gateways
        BY <1>0, <1>1, VisitedIs
    <2> QED BY <2>1 DEF p
<1>3. /\ L \in {1, 2} /\ p = passes[L]
      /\ passes' \in Seq(Passes) /\ Len(passes') = L /\ passes' # <<>>
      /\ \A n \in 1..L : passes'[n] = IF n = L THEN q ELSE passes[n]
    <2> HIDE DEF q
    <2>1. passes' = OnTop(q)
        BY DEF q
    <2> QED BY <1>0, <1>2, <2>1, TopIs
<1>4. /\ c \in Candidates /\ c = p.window[1] /\ 1 \in 1..Len(p.window) /\ c.url \in Urls
      /\ Len(q.window) = Len(p.window) - 1 /\ Len(p.window) \in Nat
      /\ \A i \in 1..Len(q.window) : q.window[i] = p.window[i + 1] /\ i + 1 \in 1..Len(p.window)
    <2>1. c.url \in Urls
        BY <1>0, <1>1, FirstIs DEF Urls
    <2> HIDE DEF p, q
    <2> QED BY <1>0, <1>1, <1>2, <2>1, FirstIs DEF p
<1>5. \A u : Waits(p, u) /\ (IsEvidence(c) => c.url # u) => Waits(q, u)
    <2> SUFFICES ASSUME NEW u, Waits(p, u), IsEvidence(c) => c.url # u PROVE Waits(q, u)
        OBVIOUS
    <2> QED BY <1>0, <1>1, VisitedWaits
<1>6. OrderKept(p) /\ ReservesKept(p)
    BY <1>3 DEF Core, ScheduleInv
<1>7. OrderKept(q) /\ ReservesKept(q)
    BY <1>0, <1>1, <1>6, VisitedKeeps
<1>8. attempted' = IF remembers THEN attempted \cup {c.url} ELSE attempted
    BY DEF Remember
<1> HIDE DEF p, q, L
<1>9. PassesOK'
    <2>1. \A n \in 1..Len(passes') : passes'[n].spent <= passes'[n].limit
        <3>1. q.spent <= q.limit
            BY <1>0, <1>1, <1>2 DEF Passes
        <3>2. \A n \in 1..Len(passes) : passes[n].spent <= passes[n].limit
            BY <1>0 DEF PassesOK
        <3> QED BY <1>3, <3>1, <3>2 DEF L
    <2>2. attempted' \in SUBSET Urls
        BY <1>0, <1>4, <1>8 DEF PassesOK
    <2>3. visits' \in Nat /\ remembers' \in BOOLEAN /\ result' \in Results
        BY <1>0 DEF PassesOK, Results
    <2>4. Len(passes') <= 2
        BY <1>3
    <2> QED BY <1>3, <2>1, <2>2, <2>3, <2>4 DEF PassesOK, TraceType
<1>10. BudgetInv'
    <2>1. p.spent \in Nat /\ visits \in Nat
        BY <1>0, <1>1 DEF Passes, PassesOK
    <2>2. /\ L = 1 => visits <= p.spent
          /\ L = 2 => /\ p.limit <= 1 /\ p.gateways = {}
                      /\ passes[1].spent \in Nat
                      /\ visits + 1 <= passes[1].spent + p.spent
        <3>1. L = 2 => passes[1] \in Passes
            BY <1>0 DEF PassesOK, L
        <3> QED BY <3>1, <1>3 DEF Core, BudgetInv, L, Passes
    <2>3. /\ Len(passes') = 1 => passes'[1] = q
          /\ Len(passes') = 2 => passes'[1] = passes[1] /\ passes'[2] = q
        BY <1>3
    <2>4. visits' = visits + cost
        OBVIOUS
    <2>5. CASE L = 1
        BY <1>2, <1>3, <2>1, <2>2, <2>3, <2>4, <2>5 DEF BudgetInv
    <2>6. CASE L = 2
        <3>1. passes'[2].limit <= 1 /\ passes'[2].gateways = {}
            BY <1>2, <1>3, <2>2, <2>3, <2>6
        <3>2. visits' + 1 <= passes'[1].spent + passes'[2].spent
            BY <1>2, <1>3, <2>1, <2>2, <2>3, <2>4, <2>6, SMTT(60)
        <3> QED BY <1>3, <2>6, <3>1, <3>2 DEF BudgetInv
    <2> QED BY <1>3, <2>5, <2>6
<1>11. MemoryInv' /\ NotVisitedAgain'
    <2> DEFINE w == passes[1].window
               v == passes'[1].window
               Known == \A i \in 1..Len(w) : w[i].url \in seen["visited"] => w[i].url \in seen["nested"]
    <2>1. /\ \A i, j \in 1..Len(w) : w[i].url = w[j].url => i = j
          /\ remembers => seen["visited"] \subseteq attempted /\ Known
          /\ seen["again"] \subseteq seen["nested"]
        BY <1>0 DEF Core, MemoryInv, NotVisitedAgain
    <2>2. CASE L = 1
        <3>1. w = p.window /\ v = q.window
            BY <1>3, <2>2
        <3> HIDE DEF w, v
        <3>2. \A i, j \in 1..Len(v) : v[i].url = v[j].url => i = j
            <4> SUFFICES ASSUME NEW i \in 1..Len(v), NEW j \in 1..Len(v), v[i].url = v[j].url
                         PROVE  i = j
                OBVIOUS
            <4>1. v[i] = w[i + 1] /\ v[j] = w[j + 1] /\ i + 1 \in 1..Len(w) /\ j + 1 \in 1..Len(w)
                BY <1>4, <3>1
            <4>2. i + 1 = j + 1
                BY <2>1, <4>1
            <4> QED BY <4>2
        <3>3. \A i \in 1..Len(v) : \E k \in 1..Len(w) : k # 1 /\ v[i] = w[k] /\ v[i].url # c.url
            <4> SUFFICES ASSUME NEW i \in 1..Len(v)
                         PROVE  \E k \in 1..Len(w) : k # 1 /\ v[i] = w[k] /\ v[i].url # c.url
                OBVIOUS
            <4>1. v[i] = w[i + 1] /\ i + 1 \in 1..Len(w) /\ i + 1 # 1
                BY <1>4, <3>1
            <4>2. w[i + 1].url # w[1].url
                BY <1>4, <2>1, <3>1, <4>1
            <4> QED BY <4>1, <4>2, <1>4, <3>1
        <3>4. remembers => \A i \in 1..Len(v) :
                v[i].url \in seen'["visited"] => v[i].url \in seen'["nested"]
            BY <2>1, <3>3 DEF VisitedOnce
        <3>5. remembers => seen'["visited"] \subseteq attempted'
            BY <1>8, <2>1 DEF VisitedOnce
        <3>6. seen'["again"] \subseteq seen'["nested"]
            <4>1. c = w[1] /\ 1 \in 1..Len(w)
                BY <1>4, <3>1
            <4> QED BY <4>1, <2>1 DEF VisitedOnce
        <3> QED BY <1>3, <3>2, <3>4, <3>5, <3>6 DEF MemoryInv, NotVisitedAgain, v
    <2>3. CASE L = 2
        <3>1. v = w
            BY <1>3, <2>3
        <3>2. remembers => seen'["visited"] \subseteq attempted'
            BY <1>8, <2>1 DEF VisitedOnce
        <3>3. seen'["again"] \subseteq seen'["nested"]
            BY <2>1, <2>3 DEF VisitedOnce, L
        <3> HIDE DEF w, v
        <3>4. remembers => \A i \in 1..Len(w) :
                w[i].url \in seen'["visited"] => w[i].url \in seen'["nested"]
            BY <2>1, <2>3 DEF VisitedOnce, L
        <3> QED BY <1>3, <2>1, <3>1, <3>2, <3>3, <3>4 DEF MemoryInv, NotVisitedAgain, v
    <2> QED BY <1>3, <2>2, <2>3
<1>12. MissInv'
    <2> SUFFICES ASSUME NEW u \in seen["queued"]
                 PROVE  \/ u \in seen'["settled"] \cup seen'["crowded"] \cup seen'["skipped"]
                        \/ trace'.unreached \/ trace'.exhausted
                        \/ \E n \in 1..L : Waits(passes'[n], u)
        BY <1>3 DEF MissInv, Waits
    <2>1. \/ u \in seen["settled"] \cup seen["crowded"] \cup seen["skipped"]
          \/ trace.unreached \/ trace.exhausted
          \/ \E n \in 1..L : Waits(passes[n], u)
        BY DEF Core, MissInv, L
    <2>2. ASSUME NEW n \in 1..L, Waits(passes[n], u)
          PROVE  \/ u \in seen'["settled"] \cup seen'["skipped"] \/ trace'.unreached
                 \/ \E m \in 1..L : Waits(passes'[m], u)
        <3>1. CASE n # L
            BY <1>3, <2>2, <3>1
        <3>2. CASE n = L
            BY <1>3, <1>5, <2>2, <3>2
        <3> QED BY <3>1, <3>2
    <2> QED BY <2>1, <2>2
<1>13. ScheduleInv'
    <2>1. \A n \in 1..L : OrderKept(passes[n]) /\ ReservesKept(passes[n])
        BY DEF Core, ScheduleInv, L
    <2>2. \A n \in 1..L : OrderKept(passes'[n]) /\ ReservesKept(passes'[n])
        BY <1>3, <1>7, <2>1
    <2> QED BY <1>3, <2>2 DEF ScheduleInv, OrderKept, ReservesKept
<1>14. MissIsEarned'
    BY DEF MissIsEarned
<1> QED
    BY <1>9, <1>10, <1>11, <1>12, <1>13, <1>14 DEF Core

\* Taking a link does to the history what Note and Recorded say.
LEMMA SkipKeeps ==
    ASSUME Core, Skip
    PROVE  Core'
<1> DEFINE c == Head(Top.window)
<1>1. Visiting /\ passes # <<>> /\ Top.window # <<>> /\ result = "none" /\ PassesOK
    BY DEF Skip, Visiting, Core
<1>2. Top \in Passes
    BY <1>1, TopType
<1>3. c \in Candidates /\ {c.url} \in SUBSET Urls
    <2>1. c \in Candidates
        BY <1>1, <1>2, FirstIs
    <2> QED BY <2>1 DEF Urls
<1>4. passes' = OnTop(Visited(Top, 0))
    <2>1. [Top EXCEPT !.window = Tail(@)] = Visited(Top, 0)
        <3>1. \A p \in Passes :
                [p EXCEPT !.window = Tail(@)] = [p EXCEPT !.window = Tail(@), !.spent = @ + 0]
            <4> SUFFICES ASSUME NEW p \in Passes
                         PROVE  [p EXCEPT !.window = Tail(@)]
                                    = [p EXCEPT !.window = Tail(@), !.spent = @ + 0]
                OBVIOUS
            <4>1. p.spent + 0 = p.spent
                BY DEF Passes
            <4>2. [p EXCEPT !.window = Tail(@), !.spent = @ + 0]
                    = [[p EXCEPT !.window = Tail(@)] EXCEPT !.spent = p.spent + 0]
                BY DEF Passes
            <4>3. [[p EXCEPT !.window = Tail(@)] EXCEPT !.spent = p.spent] = [p EXCEPT !.window = Tail(@)]
                BY DEF Passes
            <4> QED BY <4>1, <4>2, <4>3
        <3> QED BY <1>2, <3>1 DEF Visited
    <2> QED BY <2>1 DEF Skip
<1>5. seen' = Note(seen, "skipped", {c.url}) /\ Remember(c)
    BY DEF Skip
<1>6. /\ remembers' = remembers /\ trace' = trace /\ result' = result /\ visits' = visits
      /\ visits \in Nat /\ trace \in TraceType /\ seen \in [Fates -> SUBSET Urls]
    BY <1>1 DEF Skip, PassesOK, TraceType
<1> HIDE DEF c
<1>7. /\ seen' \in [Fates -> SUBSET Urls] /\ seen'["skipped"] = seen["skipped"] \cup {c.url}
      /\ \A f \in Fates \ {"skipped"} : seen'[f] = seen[f]
    BY <1>3, <1>5, <1>6, NoteDoes, FatesAre
<1>8. VisitedOnce(c)
    BY <1>7, FatesAre DEF VisitedOnce
<1>9. visits' = visits + 0 /\ 0 \in {0, 1}
    BY <1>6
<1>10. /\ seen'["queued"] = seen["queued"]
       /\ \A f \in {"settled", "crowded", "skipped"} : seen[f] \subseteq seen'[f]
       /\ c.url \in seen'["settled"] \cup seen'["skipped"]
    BY <1>7, FatesAre
<1> QED
    BY <1>1, <1>4, <1>5, <1>6, <1>7, <1>8, <1>9, <1>10, TakingKeeps DEF c

LEMMA VisitKeeps ==
    ASSUME Core, Verify \/ Refuse \/ Fail
    PROVE  Core'
<1> DEFINE c == Head(Top.window)
<1>1. Visiting /\ passes # <<>> /\ Top.window # <<>> /\ result = "none" /\ PassesOK
    BY DEF Verify, Refuse, Fail, Visiting, Core
<1>2. Top \in Passes
    BY <1>1, TopType
<1>3. c \in Candidates /\ {c.url} \in SUBSET Urls
    <2>1. c \in Candidates
        BY <1>1, <1>2, FirstIs
    <2> QED BY <2>1 DEF Urls
<1>4. /\ passes' = OnTop(Visited(Top, 1)) /\ Remember(c) /\ visits' = visits + 1
      /\ remembers' = remembers /\ 1 \in {0, 1} /\ result' \in {"none", "found"}
    BY <1>1 DEF Verify, Refuse, Fail, Visit
<1>5. trace \in TraceType /\ seen \in [Fates -> SUBSET Urls]
    BY <1>1 DEF PassesOK, TraceType
<1> HIDE DEF c
<1>6. /\ Recorded(c) \in [Fates -> SUBSET Urls]
      /\ Recorded(c)["visited"] = seen["visited"] \cup {c.url}
      /\ Recorded(c)["again"] = seen["again"] \cup
            (IF remembers /\ c.url \in seen["visited"] THEN {c.url} ELSE {})
      /\ Recorded(c)["nested"] = seen["nested"] \cup (IF Len(passes) = 2 THEN {c.url} ELSE {})
      /\ \A f \in Fates \ {"visited", "again", "nested"} : Recorded(c)[f] = seen[f]
    BY <1>3, <1>5, RecordedDoes
<1>7. /\ CountDenial(trace, c.site) \in TraceType
      /\ CountDenial(trace, c.site).exhausted = trace.exhausted
      /\ CountDenial(trace, c.site).unreached = trace.unreached
    BY <1>5 DEF CountDenial, Smaller, TraceType
<1>8. /\ \A t \in TraceType :
            /\ Unreached(t, c) \in TraceType /\ Unreached(t, c).exhausted = t.exhausted
            /\ t.unreached => Unreached(t, c).unreached
            /\ IsEvidence(c) => Unreached(t, c).unreached
    <2>1. IsEvidence(c) \in BOOLEAN
        BY DEF IsEvidence
    <2> QED BY <2>1 DEF Unreached, TraceType
<1>9. CASE Verify \/ Refuse
    <2>1. /\ seen' = Note(Recorded(c), "settled", {c.url})
          /\ trace' \in {trace, Unreached(trace, c), CountDenial(trace, c.site)}
        BY <1>9 DEF Verify, Refuse, c
    <2>2. /\ seen' \in [Fates -> SUBSET Urls] /\ seen'["settled"] = Recorded(c)["settled"] \cup {c.url}
          /\ \A f \in Fates \ {"settled"} : seen'[f] = Recorded(c)[f]
        BY <1>3, <1>6, <2>1, NoteDoes, FatesAre
    <2>3. VisitedOnce(c)
        BY <1>6, <2>2, FatesAre DEF VisitedOnce
    <2>4. /\ seen'["queued"] = seen["queued"]
          /\ \A f \in {"settled", "crowded", "skipped"} : seen[f] \subseteq seen'[f]
          /\ c.url \in seen'["settled"] \cup seen'["skipped"]
        BY <1>6, <2>2, FatesAre
    <2>5. /\ trace' \in TraceType /\ trace'.exhausted = trace.exhausted
          /\ trace.unreached => trace'.unreached
        BY <1>5, <1>7, <1>8, <2>1
    <2> QED BY <1>1, <1>4, <2>2, <2>3, <2>4, <2>5, TakingKeeps DEF c
<1>10. CASE Fail
    <2>1. seen' = Recorded(c)
        BY <1>10 DEF Fail, c
    <2>2. /\ trace' \in TraceType /\ trace'.exhausted = trace.exhausted
          /\ trace.unreached => trace'.unreached
          /\ IsEvidence(c) => trace'.unreached
        <3>1. PICK t \in {trace, CountDenial(trace, c.site)} : trace' = Unreached(t, c)
            BY <1>10 DEF Fail, c
        <3>2. t \in TraceType /\ t.exhausted = trace.exhausted /\ t.unreached = trace.unreached
            BY <1>5, <3>1, <1>7
        <3> QED BY <3>1, <3>2, <1>8
    <2>3. VisitedOnce(c)
        BY <1>6, <2>1 DEF VisitedOnce
    <2>4. /\ seen'["queued"] = seen["queued"]
          /\ \A f \in {"settled", "crowded", "skipped"} : seen[f] \subseteq seen'[f]
        BY <1>6, <2>1, FatesAre
    <2> QED BY <1>1, <1>4, <1>6, <2>1, <2>2, <2>3, <2>4, TakingKeeps DEF c
<1> QED
    BY <1>9, <1>10

LEMMA GatewayKeeps ==
    ASSUME DiscoveryAssumption, Core, OpenGateway
    PROVE  Core'
<1> DEFINE c == Head(Top.window)
           o == Top
           p == Visited(Top, WithNested)
<1>1. Visiting /\ passes # <<>> /\ o.window # <<>> /\ result = "none" /\ PassesOK
    BY DEF OpenGateway, Visiting, Core
<1>2. o \in Passes
    BY <1>1, TopType
<1>3. c \in Candidates /\ {c.url} \in SUBSET Urls /\ c.site \in Sites
    <2>1. c \in Candidates
        BY <1>1, <1>2, FirstIs
    <2>2. \A d \in Candidates : d.site \in Sites
        BY DEF DiscoveryAssumption, Candidates
    <2> QED BY <2>1, <2>2 DEF Urls
<1>4. /\ c \in o.gateways /\ o.spent + 1 < o.limit
      /\ attempted' = (IF remembers THEN attempted \cup {c.url} ELSE attempted)
      /\ visits' = visits + 1 /\ remembers' = remembers /\ trace' = trace /\ result' = result
    BY DEF OpenGateway, RoomForNested, Visit, Remember
<1>5. PICK S \in Finds("gateway") : LET T == NotAttempted(S, attempted') IN
            /\ passes' = Append(OnTop(p), NewPass("gateway", T, c.site))
            /\ seen' = Queued(Note(Recorded(c), "settled", {c.url}), T)
    BY DEF OpenGateway
<1> DEFINE T == NotAttempted(S, attempted')
           q == NewPass("gateway", T, c.site)
<1>6. /\ passes' = Append(OnTop(p), q)
      /\ seen' = Queued(Note(Recorded(c), "settled", {c.url}), T)
    BY <1>5
<1>7. S \in SUBSET Offers["gateway"] /\ T \in SUBSET Offers["gateway"] /\ "gateway" \in Sources
    BY DEF Finds, NotAttempted, Sources
<1>8. S \in SUBSET Candidates /\ T \in SUBSET Candidates
    BY <1>7, OffersListed
<1>9. Laid(q, "gateway", T)
    <2> HIDE DEF T, c
    <2> QED BY <1>3, <1>7, NewPassDoes
<1>10. \A u \in UrlsOf(Evidence(T)) : Waits(q, u)
    <2> HIDE DEF T, c
    <2> QED BY <1>3, <1>7, NewPassWaits
<1>11. q.limit \in Nat /\ q.limit <= 1 /\ q.gateways = {} /\ q.spent = 0 /\ q \in Passes
    <2> HIDE DEF q
    <2> QED BY <1>7, <1>9, LimitType DEF Laid
<1>12. /\ p \in Passes /\ p.spent = o.spent + 2 /\ p.limit = o.limit
       /\ p.window = Tail(o.window)
    <2> HIDE DEF o
    <2>1. WithNested = 2 /\ WithNested \in Nat
        BY DEF WithNested
    <2>2. LET r == Visited(o, WithNested) IN
           /\ r \in Passes
           /\ r.window = Tail(o.window) /\ r.spent = o.spent + WithNested
           /\ r.limit = o.limit /\ r.of = o.of /\ r.left = o.left /\ r.gateways = o.gateways
        BY <1>1, <1>2, <2>1, VisitedIs
    <2> QED BY <2>1, <2>2 DEF o
<1>13. OrderKept(p) /\ ReservesKept(p) /\ OrderKept(q) /\ ReservesKept(q)
    <2>1. OrderKept(o) /\ ReservesKept(o)
        <3>1. o = passes[Len(passes)] /\ Len(passes) \in {1, 2}
            BY <1>1, <1>12, TopIs
        <3> HIDE DEF o
        <3> QED BY <3>1 DEF Core, ScheduleInv
    <2>2. WithNested \in Nat
        BY DEF WithNested
    <2> QED BY <1>1, <1>2, <1>9, <2>1, <2>2, VisitedKeeps DEF Laid
<1>14. \A u : Waits(o, u) /\ (IsEvidence(c) => c.url # u) => Waits(p, u)
    <2> SUFFICES ASSUME NEW u, Waits(o, u), IsEvidence(c) => c.url # u PROVE Waits(p, u)
        OBVIOUS
    <2>1. WithNested \in Nat
        BY DEF WithNested
    <2> QED BY <1>1, <1>2, <2>1, VisitedWaits
<1>15. /\ c = o.window[1] /\ 1 \in 1..Len(o.window)
       /\ Len(p.window) = Len(o.window) - 1 /\ Len(o.window) \in Nat
       /\ \A i \in 1..Len(p.window) : p.window[i] = o.window[i + 1] /\ i + 1 \in 1..Len(o.window)
    <2> HIDE DEF p
    <2> QED BY <1>1, <1>2, <1>12, FirstIs
\* only the outermost pass has gateways
<1>16. Len(passes) = 1 /\ o = passes[1]
    <2>1. Len(passes) \in {1, 2} /\ o = passes[Len(passes)]
        BY <1>1, <1>12, TopIs
    <2> HIDE DEF o, c
    <2> QED BY <2>1, <1>4 DEF Core, BudgetInv
<1>17. /\ passes' \in Seq(Passes) /\ Len(passes') = 2 /\ passes' # <<>>
       /\ passes'[1] = p /\ passes'[2] = q
    <2> HIDE DEF p, q
    <2>1. OnTop(p) \in Seq(Passes) /\ Len(OnTop(p)) = 1 /\ OnTop(p)[1] = p
        BY <1>1, <1>12, <1>16, TopIs
    <2>2. q \in Passes
        BY <1>11
    <2> DEFINE a == OnTop(p)
    <2> HIDE DEF a
    <2>3. a \in Seq(Passes) /\ Len(a) = 1 /\ a[1] = p /\ passes' = Append(a, q)
        BY <1>6, <2>1 DEF a
    <2>4. /\ Append(a, q) \in Seq(Passes) /\ Len(Append(a, q)) = 2
          /\ Append(a, q)[1] = p /\ Append(a, q)[2] = q
        <3>1. \A s \in Seq(Passes), e \in Passes :
                /\ Append(s, e) \in Seq(Passes) /\ Len(Append(s, e)) = Len(s) + 1
                /\ \A i \in 1..Len(s) : Append(s, e)[i] = s[i]
                /\ Append(s, e)[Len(s) + 1] = e
            BY AppendProperties
        <3>2. /\ Append(a, q) \in Seq(Passes) /\ Len(Append(a, q)) = Len(a) + 1
              /\ \A i \in 1..Len(a) : Append(a, q)[i] = a[i]
              /\ Append(a, q)[Len(a) + 1] = q
            BY <2>2, <2>3, <3>1, Zenon
        <3>3. Len(a) + 1 = 2 /\ 1 \in 1..Len(a)
            BY <2>3
        <3> QED BY <2>3, <3>2, <3>3, Zenon
    <2> QED BY <2>3, <2>4, EmptySeq
<1> HIDE DEF c
<1>18. /\ seen' \in [Fates -> SUBSET Urls]
       /\ seen'["visited"] = seen["visited"] \cup {c.url}
       /\ seen'["again"] = seen["again"] \cup
            (IF remembers /\ c.url \in seen["visited"] THEN {c.url} ELSE {})
       /\ seen'["nested"] = seen["nested"]
       /\ seen'["settled"] = seen["settled"] \cup {c.url}
       /\ seen'["crowded"] = seen["crowded"] /\ seen'["skipped"] = seen["skipped"]
       /\ seen'["queued"] = seen["queued"] \cup UrlsOf(Evidence(T))
    <2> HIDE DEF T
    <2>1. seen \in [Fates -> SUBSET Urls]
        BY <1>1 DEF PassesOK
    <2>2. /\ Recorded(c) \in [Fates -> SUBSET Urls]
          /\ Recorded(c)["visited"] = seen["visited"] \cup {c.url}
          /\ Recorded(c)["again"] = seen["again"] \cup
                (IF remembers /\ c.url \in seen["visited"] THEN {c.url} ELSE {})
          /\ Recorded(c)["nested"] = seen["nested"] \cup (IF Len(passes) = 2 THEN {c.url} ELSE {})
          /\ \A f \in Fates \ {"visited", "again", "nested"} : Recorded(c)[f] = seen[f]
        BY <1>3, <2>1, RecordedDoes
    <2> DEFINE v == Note(Recorded(c), "settled", {c.url})
    <2>3. /\ v \in [Fates -> SUBSET Urls] /\ v["settled"] = Recorded(c)["settled"] \cup {c.url}
          /\ \A f \in Fates \ {"settled"} : v[f] = Recorded(c)[f]
        BY <1>3, <2>2, NoteDoes, FatesAre
    <2> HIDE DEF v
    <2>4. /\ Queued(v, T) \in [Fates -> SUBSET Urls]
          /\ Queued(v, T)["queued"] = v["queued"] \cup UrlsOf(Evidence(T))
          /\ \A f \in Fates \ {"queued"} : Queued(v, T)[f] = v[f]
        BY <1>8, <2>3, QueuedDoes
    <2>5. seen' = Queued(v, T)
        BY <1>6 DEF v
    <2>6. Len(passes) # 2
        BY <1>16
    <2> QED BY <2>2, <2>3, <2>4, <2>5, <2>6, FatesAre
<1> HIDE DEF o, p, q, T
<1>19. PassesOK'
    <2>1. p.spent <= p.limit /\ q.spent <= q.limit
        BY <1>2, <1>4, <1>11, <1>12 DEF Passes
    <2>2. \A n \in 1..Len(passes') : passes'[n].spent <= passes'[n].limit
        BY <1>17, <2>1
    <2>3. attempted' \in SUBSET Urls
        BY <1>1, <1>3, <1>4 DEF PassesOK
    <2>4. visits' \in Nat
        BY <1>1, <1>4 DEF PassesOK
    <2> QED BY <1>1, <1>4, <1>17, <1>18, <2>2, <2>3, <2>4 DEF PassesOK
<1>20. BudgetInv'
    <2>1. visits <= o.spent /\ visits \in Nat /\ o.spent \in Nat
        BY <1>1, <1>2, <1>16 DEF Core, BudgetInv, PassesOK, Passes
    <2>2. visits' + 1 <= passes'[1].spent + passes'[2].spent
        BY <2>1, <1>4, <1>11, <1>12, <1>17
    <2> QED BY <1>11, <1>17, <2>2 DEF BudgetInv
<1>21. MemoryInv' /\ NotVisitedAgain'
    <2> DEFINE w == passes[1].window
               v == passes'[1].window
               Known == \A i \in 1..Len(w) : w[i].url \in seen["visited"] => w[i].url \in seen["nested"]
    <2>1. /\ \A i, j \in 1..Len(w) : w[i].url = w[j].url => i = j
          /\ remembers => seen["visited"] \subseteq attempted /\ Known
          /\ seen["again"] \subseteq seen["nested"]
        BY <1>1 DEF Core, MemoryInv, NotVisitedAgain
    <2>2. w = o.window /\ v = p.window
        BY <1>16, <1>17
    <2> HIDE DEF w, v
    <2>3. \A i, j \in 1..Len(v) : v[i].url = v[j].url => i = j
        <3> SUFFICES ASSUME NEW i \in 1..Len(v), NEW j \in 1..Len(v), v[i].url = v[j].url
                     PROVE  i = j
            OBVIOUS
        <3>1. v[i] = w[i + 1] /\ v[j] = w[j + 1] /\ i + 1 \in 1..Len(w) /\ j + 1 \in 1..Len(w)
            BY <1>15, <2>2
        <3>2. i + 1 = j + 1
            BY <2>1, <3>1
        <3> QED BY <3>2
    <2>4. \A i \in 1..Len(v) : \E k \in 1..Len(w) : v[i] = w[k] /\ v[i].url # c.url
        <3> SUFFICES ASSUME NEW i \in 1..Len(v)
                     PROVE  \E k \in 1..Len(w) : v[i] = w[k] /\ v[i].url # c.url
            OBVIOUS
        <3>1. v[i] = w[i + 1] /\ i + 1 \in 1..Len(w) /\ i + 1 # 1
            BY <1>15, <2>2
        <3>2. w[i + 1].url # w[1].url
            BY <1>15, <2>1, <2>2, <3>1
        <3> QED BY <3>1, <3>2, <1>15, <2>2
    <2>5. remembers => \A i \in 1..Len(v) :
            v[i].url \in seen'["visited"] => v[i].url \in seen'["nested"]
        BY <1>18, <2>1, <2>4
    <2>6. remembers => seen'["visited"] \subseteq attempted'
        BY <1>4, <1>18, <2>1
    <2>7. seen'["again"] \subseteq seen'["nested"]
        <3>1. c = w[1] /\ 1 \in 1..Len(w)
            BY <1>15, <2>2
        <3> QED BY <3>1, <1>18, <2>1
    <2> QED BY <1>4, <1>17, <2>3, <2>5, <2>6, <2>7 DEF MemoryInv, NotVisitedAgain, v
<1>22. MissInv'
    <2> SUFFICES ASSUME NEW u \in seen'["queued"]
                 PROVE  \/ u \in seen'["settled"] \cup seen'["crowded"] \cup seen'["skipped"]
                        \/ trace'.unreached \/ trace'.exhausted
                        \/ \E n \in 1..2 : Waits(passes'[n], u)
        BY <1>17 DEF MissInv, Waits
    <2>1. CASE u \in UrlsOf(Evidence(T))
        BY <1>10, <1>17, <2>1
    <2>2. CASE u \in seen["queued"]
        <3>1. \/ u \in seen["settled"] \cup seen["crowded"] \cup seen["skipped"]
              \/ trace.unreached \/ trace.exhausted
              \/ Waits(o, u)
            BY <1>16, <2>2 DEF Core, MissInv
        <3>2. CASE Waits(o, u)
            BY <1>14, <1>17, <1>18, <3>2
        <3> QED BY <1>4, <1>18, <3>1, <3>2
    <2> QED BY <1>18, <2>1, <2>2
<1>23. ScheduleInv'
    BY <1>13, <1>17, SMTT(60) DEF ScheduleInv, OrderKept, ReservesKept
<1>24. MissIsEarned'
    BY <1>1, <1>4 DEF MissIsEarned
<1> QED
    BY <1>19, <1>20, <1>21, <1>22, <1>23, <1>24 DEF Core

LEMMA EndKeeps ==
    ASSUME Core, EndPass
    PROVE  Core'
<1> DEFINE L == Len(passes)
           o == passes[L]
<1>1. PassesOK /\ passes # <<>> /\ result = "none" /\ result' \in {"none", "found"}
    BY DEF EndPass, Core
<1>2. L \in {1, 2} /\ o \in Passes
    <2>1. \A x \in Passes : Len(passes) \in {1, 2} /\ Top = passes[Len(passes)] /\ Top \in Passes
        BY <1>1, TopIs
    <2>2. passes[1] \in Passes
        BY <1>1, EmptySeq DEF PassesOK
    <2> QED BY <2>1, <2>2
<1>3. /\ passes' = SubSeq(passes, 1, L - 1)
      /\ trace' = [trace EXCEPT !.exhausted = @ \/ Evidence(o.left) # {}]
      /\ seen' = Note(seen, "crowded", UrlsOf(Evidence(ToSet(o.window))))
      /\ attempted' = attempted /\ remembers' = remembers /\ visits' = visits
    BY DEF EndPass, Top
<1> HIDE DEF o
<1>4. /\ passes' \in Seq(Passes) /\ Len(passes') = L - 1
      /\ \A n \in 1..L - 1 : passes'[n] = passes[n]
    <2>1. \A i \in 1..L - 1 : passes[i] \in Passes
        BY <1>1, <1>2 DEF PassesOK
    <2> HIDE DEF L
    <2> QED BY <1>2, <1>3, <2>1, SubSeqProperties
<1>5. L = 1 => passes' = <<>>
    BY <1>2, <1>4, EmptySeq
<1>6. /\ trace' \in TraceType /\ trace'.unreached = trace.unreached
      /\ trace'.exhausted <=> trace.exhausted \/ \E c \in o.left : IsEvidence(c)
    <2>1. trace \in TraceType
        BY <1>1 DEF PassesOK, TraceType
    <2>2. (Evidence(o.left) # {}) <=> \E c \in o.left : IsEvidence(c)
        BY DEF Evidence
    <2>3. /\ trace' \in TraceType /\ trace'.unreached = trace.unreached
          /\ trace'.exhausted = (trace.exhausted \/ Evidence(o.left) # {})
        BY <1>3, <2>1 DEF TraceType
    <2> QED BY <2>2, <2>3
<1>7. ToSet(o.window) \in SUBSET Candidates
    BY <1>2 DEF ToSet, Passes
<1>8. /\ seen' \in [Fates -> SUBSET Urls]
      /\ seen'["crowded"] = seen["crowded"] \cup UrlsOf(Evidence(ToSet(o.window)))
      /\ \A f \in Fates \ {"crowded"} : seen'[f] = seen[f]
    <2>1. seen \in [Fates -> SUBSET Urls]
        BY <1>1 DEF PassesOK
    <2> QED BY <1>3, <1>7, <2>1, UrlsAre, NoteDoes, FatesAre
<1>9. \A u : Waits(o, u) => u \in seen'["crowded"] \/ trace'.exhausted
    <2> SUFFICES ASSUME NEW u, Waits(o, u) PROVE u \in seen'["crowded"] \/ trace'.exhausted
        OBVIOUS
    <2>1. CASE \E c \in o.left : IsEvidence(c) /\ c.url = u
        BY <1>6, <2>1
    <2>2. ASSUME NEW i \in 1..Len(o.window), IsEvidence(o.window[i]), o.window[i].url = u
          PROVE  u \in seen'["crowded"]
        <3>1. o.window[i] \in ToSet(o.window)
            BY <1>2 DEF ToSet, Passes
        <3> QED BY <1>8, <2>2, <3>1 DEF UrlsOf, Evidence
    <2> QED BY <2>1, <2>2 DEF Waits
<1>10. PassesOK'
    <2>1. \A n \in 1..Len(passes') : passes'[n].spent <= passes'[n].limit
        BY <1>1, <1>2, <1>4 DEF PassesOK
    <2>2. Len(passes') <= 2 /\ result' \in Results
        BY <1>1, <1>2, <1>4 DEF Results
    <2> QED BY <1>1, <1>3, <1>4, <1>6, <1>8, <2>1, <2>2 DEF PassesOK, TraceType
<1>11. BudgetInv'
    <2>1. CASE L = 1
        BY <1>4, <2>1 DEF BudgetInv
    <2>2. CASE L = 2
        <3>1. /\ passes[2].limit <= 1 /\ passes[2].spent <= passes[2].limit
              /\ visits + 1 <= passes[1].spent + passes[2].spent
            BY <1>1, <2>2 DEF Core, BudgetInv, PassesOK
        <3>2. passes[1] \in Passes /\ passes[2] \in Passes
            BY <1>1, <2>2 DEF PassesOK
        <3>3. /\ passes[2].limit \in Nat /\ passes[2].spent \in Nat /\ passes[1].spent \in Nat
              /\ visits \in Nat
            BY <1>1, <3>2 DEF Passes, PassesOK
        <3>4. visits <= passes[1].spent
            BY <3>1, <3>3
        <3>5. Len(passes') = 1 /\ passes'[1] = passes[1] /\ visits' = visits
            BY <1>3, <1>4, <2>2
        <3> QED BY <3>4, <3>5 DEF BudgetInv
    <2> QED BY <1>2, <2>1, <2>2
<1>12. MemoryInv' /\ NotVisitedAgain'
    <2>1. /\ seen'["visited"] = seen["visited"] /\ seen'["again"] = seen["again"]
          /\ seen'["nested"] = seen["nested"]
        BY <1>8, FatesAre
    <2>2. passes' # <<>> => passes'[1] = passes[1]
        BY <1>2, <1>4, <1>5
    <2> QED BY <1>1, <1>3, <2>1, <2>2 DEF Core, MemoryInv, NotVisitedAgain
<1>13. MissInv'
    <2>1. /\ seen'["settled"] = seen["settled"] /\ seen'["skipped"] = seen["skipped"]
          /\ seen'["queued"] = seen["queued"] /\ seen["crowded"] \subseteq seen'["crowded"]
        BY <1>8, FatesAre
    <2> SUFFICES ASSUME NEW u \in seen["queued"]
                 PROVE  \/ u \in seen'["settled"] \cup seen'["crowded"] \cup seen'["skipped"]
                        \/ trace'.unreached \/ trace'.exhausted
                        \/ \E n \in 1..L - 1 : Waits(passes'[n], u)
        BY <1>4, <2>1 DEF MissInv, Waits
    <2>2. \/ u \in seen["settled"] \cup seen["crowded"] \cup seen["skipped"]
          \/ trace.unreached \/ trace.exhausted
          \/ \E n \in 1..L : Waits(passes[n], u)
        BY DEF Core, MissInv
    <2>3. ASSUME NEW n \in 1..L, Waits(passes[n], u)
          PROVE  \/ u \in seen'["crowded"] \/ trace'.exhausted
                 \/ \E m \in 1..L - 1 : Waits(passes'[m], u)
        <3>1. CASE n = L
            BY <1>9, <2>3, <3>1 DEF o
        <3>2. CASE n # L
            <4>1. n \in 1..L - 1
                BY <1>2, <3>2
            <4> QED BY <1>4, <2>3, <4>1
        <3> QED BY <3>1, <3>2
    <2> HIDE DEF L
    <2> QED BY <1>6, <2>1, <2>2, <2>3
<1>14. ScheduleInv'
    <2>1. \A n \in 1..L : OrderKept(passes[n]) /\ ReservesKept(passes[n])
        BY DEF Core, ScheduleInv
    <2>2. \A n \in 1..L - 1 : OrderKept(passes'[n]) /\ ReservesKept(passes'[n])
        BY <1>2, <1>4, <2>1
    <2> QED BY <1>4, <2>2 DEF ScheduleInv, OrderKept, ReservesKept
<1>15. MissIsEarned'
    BY <1>1 DEF MissIsEarned
<1> QED
    BY <1>10, <1>11, <1>12, <1>13, <1>14, <1>15 DEF Core

-----------------------------------------------------------------------------
(* All steps.                                                              *)

LEMMA HomepageKeeps ==
    ASSUME Core, FetchHomepage
    PROVE  Core'
<1>1. /\ result = "none" /\ passes = <<>> /\ result' \in {"none", "found"}
      /\ UNCHANGED <<passes, remembers, attempted, visits, seen>>
    BY DEF FetchHomepage, Idle
<1>2. trace \in TraceType
    BY DEF Core, PassesOK, TraceType
<1>3. trace' \in TraceType /\ trace'.unreached = trace.unreached /\ trace'.exhausted = trace.exhausted
    <2>1. trace' \in {trace, CountDenial(trace, "official")}
        BY DEF FetchHomepage
    <2>2. /\ CountDenial(trace, "official") \in TraceType
          /\ CountDenial(trace, "official").exhausted = trace.exhausted
          /\ CountDenial(trace, "official").unreached = trace.unreached
        BY <1>2 DEF CountDenial, Smaller, TraceType, Sites
    <2> QED BY <1>2, <2>1, <2>2
<1>4. PassesOK' /\ BudgetInv' /\ MemoryInv'
    BY <1>1, <1>3 DEF Core, PassesOK, BudgetInv, MemoryInv, TraceType, Results
<1>5. MissInv' /\ NotVisitedAgain' /\ MissIsEarned'
    BY <1>1, <1>3 DEF Core, MissInv, NotVisitedAgain, MissIsEarned, Waits
<1>6. ScheduleInv'
    BY <1>1 DEF Core, ScheduleInv, OrderKept, ReservesKept
<1> QED
    BY <1>4, <1>5, <1>6 DEF Core

LEMMA VerdictKeeps ==
    ASSUME Core, Verdict
    PROVE  Core'
<1>1. /\ passes = <<>> /\ result' \in Results
      /\ result' = "not_found" => ~trace.exhausted /\ ~trace.unreached
      /\ UNCHANGED <<passes, remembers, attempted, trace, visits, seen>>
    BY DEF Verdict, Idle, Results
<1>2. PassesOK' /\ BudgetInv' /\ MemoryInv'
    BY <1>1 DEF Core, PassesOK, BudgetInv, MemoryInv
<1>3. MissInv' /\ NotVisitedAgain' /\ ScheduleInv'
    BY <1>1 DEF Core, MissInv, NotVisitedAgain, Waits, ScheduleInv, OrderKept, ReservesKept
<1>4. MissIsEarned'
    <2>1. Len(passes) = 0
        BY <1>1
    <2> QED BY <1>1, <2>1 DEF Core, MissInv, MissIsEarned
<1> QED
    BY <1>2, <1>3, <1>4 DEF Core

LEMMA SourceKeeps ==
    ASSUME DiscoveryAssumption, Core,
           \/ FromEvidence \/ FromEarlyBundle \/ FromPrimary \/ FromLateBundle
           \/ FromSitemap \/ FromAts \/ FromSearch
    PROVE  Core'
<1> SUFFICES ASSUME ~Omit
             PROVE  Idle /\ \E s \in Sources, S \in SUBSET Candidates :
                        /\ S \in SUBSET Offers[s]
                        /\ \A c, d \in S : c.url = d.url => c = d
                        /\ Begin(s, S)
    BY OmitKeeps, BeginKeeps
<1>1. \A s \in Sources : \A S \in Finds(s) :
        /\ S \in SUBSET Offers[s] /\ S \in SUBSET Candidates
        /\ \A c, d \in S : c.url = d.url => c = d
    BY OffersListed DEF Finds
<1>2. "evidence" \in Sources /\ "bundle" \in Sources /\ "primary" \in Sources
      /\ "sitemap" \in Sources /\ "ats" \in Sources /\ "search" \in Sources
    BY DEF Sources
<1>3. CASE FromEvidence
    BY <1>1, <1>2, <1>3 DEF FromEvidence
<1>4. CASE FromEarlyBundle
    BY <1>1, <1>2, <1>4 DEF FromEarlyBundle
<1>5. CASE FromPrimary
    <2>1. Idle /\ \E S \in Finds("primary") : Begin("primary", S)
        BY <1>5 DEF FromPrimary
    <2> QED BY <1>1, <1>2, <2>1
<1>6. CASE FromLateBundle
    BY <1>1, <1>2, <1>6 DEF FromLateBundle
<1>7. CASE FromSitemap
    BY <1>1, <1>2, <1>7 DEF FromSitemap
<1>8. CASE FromAts
    BY <1>1, <1>2, <1>8 DEF FromAts
<1>9. CASE FromSearch
    <2>1. PICK S \in Finds("search") : Begin("search", Leads(S))
        BY <1>9 DEF FromSearch
    <2>2. Leads(S) \in SUBSET S
        BY DEF Leads
    <2> QED BY <1>1, <1>2, <1>9, <2>1, <2>2 DEF FromSearch
<1> QED
    BY <1>3, <1>4, <1>5, <1>6, <1>7, <1>8, <1>9

LEMMA PlaceStep ==
    ASSUME IInv, [Next]_vars
    PROVE  PlaceOK'
<1>0. PlaceOK /\ trace.denials \in [Sites -> 0..2]
    BY DEF IInv, Core, PassesOK
<1> USE DEF PlaceOK, Places
<1>1. CASE FromEvidence \/ FetchHomepage \/ FromEarlyBundle \/ FromPrimary
    BY <1>0, <1>1 DEF FromEvidence, FetchHomepage, FromEarlyBundle, FromPrimary
<1>2. CASE FromLateBundle \/ FromSitemap \/ FromAts \/ FromSearch \/ Verdict
    <2>1. CASE FromLateBundle \/ FromAts \/ FromSearch \/ Verdict
        BY <1>0, <2>1 DEF FromLateBundle, FromAts, FromSearch, Verdict
    <2>2. CASE FromSitemap
        <3>1. Denied("official") \in BOOLEAN
            <4>1. trace.denials["official"] \in {0, 1, 2}
                <5>1. "official" \in Sites /\ 0..2 = {0, 1, 2}
                    BY DEF Sites
                <5>2. trace.denials["official"] \in 0..2
                    BY <1>0, <5>1
                <5> QED BY <5>1, <5>2
            <4>2. \A k \in {0, 1, 2} : (k >= 2) = TRUE \/ (k >= 2) = FALSE
                OBVIOUS
            <4> QED BY <4>1, <4>2 DEF Denied
        <3>2. /\ at' = "ats" /\ denial' = Denied("official")
              /\ homepage' = homepage /\ bundled' = bundled
            BY <2>2 DEF FromSitemap
        <3> QED BY <1>0, <3>1, <3>2
    <2> QED BY <1>2, <2>1, <2>2
<1>3. CASE Skip \/ Verify \/ Refuse \/ Fail \/ OpenGateway \/ EndPass
    BY <1>0, <1>3 DEF Skip, Verify, Refuse, Fail, OpenGateway, EndPass, Visit
<1>4. CASE UNCHANGED vars
    BY <1>0, <1>4 DEF vars
<1> QED
    BY <1>1, <1>2, <1>3, <1>4 DEF Next

LEMMA StepKeeps == DiscoveryAssumption /\ IInv /\ [Next]_vars => IInv'
<1> SUFFICES ASSUME DiscoveryAssumption, IInv, [Next]_vars
             PROVE  IInv'
    OBVIOUS
<1>0. Core /\ PlaceOK
    BY DEF IInv
<1>1. CASE UNCHANGED vars
    <2>1. Omit
        BY <1>1 DEF vars, Omit
    <2>2. Core'
        BY <1>0, <2>1, OmitKeeps
    <2> QED BY <1>0, <2>2, PlaceStep DEF IInv
<1>2. CASE Next
    <2>1. Core'
        BY <1>0, <1>2, SourceKeeps, HomepageKeeps, VerdictKeeps, SkipKeeps, VisitKeeps,
           GatewayKeeps, EndKeeps DEF Next
    <2> QED BY <1>0, <2>1, PlaceStep DEF IInv
<1> QED
    BY <1>1, <1>2

LEMMA AlwaysIInv == Spec => []IInv
<1>1. DiscoveryAssumption
    BY DiscoveryAssumption
<1> QED
    BY <1>1, InitCore, StepKeeps, PTL DEF Spec

\* Every pass is made of candidates that were offered and spends no more
\* than its limit, and no gateway opens within a gateway (pipeline.py:4746).
THEOREM TypeCorrect == Spec => []TypeOK
<1>1. IInv => TypeOK
    BY DEF IInv, Core, PlaceOK, PassesOK, TypeOK
<1> QED
    BY <1>1, AlwaysIInv, PTL

\* A pass visits no more candidates than its limit, those that a gateway's
\* page leads to included (pipeline.py:4705, 4746, 5006).
THEOREM LimitKept == Spec => []WithinPassLimit
<1>1. IInv => WithinPassLimit
    <2> SUFFICES ASSUME IInv, passes # <<>> PROVE visits <= passes[1].limit
        BY DEF WithinPassLimit
    <2>1. PassesOK /\ BudgetInv
        BY DEF IInv, Core
    <2>2. Len(passes) \in {1, 2}
        <3>1. passes \in Seq(Passes)
            BY <2>1 DEF PassesOK
        <3>2. Len(passes) \in Nat \ {0}
            BY <3>1, EmptySeq
        <3>3. Len(passes) <= 2
            BY <2>1 DEF PassesOK
        <3>4. \A m \in Nat \ {0} : m <= 2 => m \in {1, 2}
            OBVIOUS
        <3> QED BY <3>2, <3>3, <3>4, Zenon
    <2>3. /\ passes[1] \in Passes /\ passes[1].spent <= passes[1].limit
          /\ Len(passes) = 2 => passes[2] \in Passes /\ passes[2].spent <= passes[2].limit
        BY <2>1, <2>2 DEF PassesOK
    <2>4. /\ visits \in Nat /\ passes[1].spent \in Nat /\ passes[1].limit \in Nat
          /\ Len(passes) = 2 => passes[2].spent \in Nat /\ passes[2].limit \in Nat
        BY <2>1, <2>3 DEF PassesOK, Passes
    <2>5. CASE Len(passes) = 1
        BY <2>1, <2>3, <2>4, <2>5 DEF BudgetInv
    <2>6. CASE Len(passes) = 2
        BY <2>1, <2>3, <2>4, <2>6 DEF BudgetInv
    <2> QED BY <2>2, <2>5, <2>6
<1> QED
    BY <1>1, AlwaysIInv, PTL

\* With homepage evidence no link that an earlier pass visited is visited
\* again, but within a gateway (pipeline.py:4697, 4775).
THEOREM VisitedOnlyOnce == Spec => []NotVisitedAgain
<1>1. IInv => NotVisitedAgain
    BY DEF IInv, Core
<1> QED
    BY <1>1, AlwaysIInv, PTL

\* A career page is reported as not found only when no scheduled link with
\* evidence was last heard of with an error that another try might change
\* (pipeline.py:942).
THEOREM MissEarned == Spec => []MissIsEarned
<1>1. IInv => MissIsEarned
    BY DEF IInv, Core
<1> QED
    BY <1>1, AlwaysIInv, PTL

\* In every pass links with evidence are visited before all others but the
\* gateway (career_candidate_scheduler.py:78).
THEOREM EvidenceFirstAlways == Spec => []EvidenceGoesFirst
<1>1. IInv => EvidenceGoesFirst
    <2> SUFFICES ASSUME IInv, NEW n \in 1..Len(passes), NEW i \in 1..Len(passes[n].window),
                        ~IsEvidence(passes[n].window[i]),
                        passes[n].window[i] \notin passes[n].gateways
                 PROVE  Evidence(passes[n].left \cup
                            ToSet(SubSeq(passes[n].window, i, Len(passes[n].window)))) = {}
        BY DEF EvidenceGoesFirst
    <2> DEFINE w == passes[n].window
    <2>1. /\ \A c \in passes[n].left : ~IsEvidence(c)
          /\ \A j \in i..Len(w) : ~IsEvidence(w[j])
        BY DEF IInv, Core, ScheduleInv, OrderKept
    <2>2. w \in Seq(Candidates)
        <3>1. passes \in Seq(Passes)
            BY DEF IInv, Core, PassesOK
        <3>2. passes[n] \in Passes
            BY <3>1
        <3> QED BY <3>2 DEF Passes
    <2> HIDE DEF w
    <2>3. \A c \in ToSet(SubSeq(w, i, Len(w))) : ~IsEvidence(c)
        <3> DEFINE v == SubSeq(w, i, Len(w))
        <3>1. Len(w) \in Nat /\ i \in 1..Len(w)
            BY <2>2 DEF w
        <3>2. /\ v \in Seq(Candidates) /\ Len(v) = Len(w) - i + 1
              /\ \A j \in 1..Len(w) - i + 1 : v[j] = w[i + j - 1]
            BY <2>2, <3>1, SubSeqProperties
        <3> HIDE DEF v
        <3>3. \A j \in 1..Len(v) : ~IsEvidence(v[j])
            <4> SUFFICES ASSUME NEW j \in 1..Len(v) PROVE ~IsEvidence(v[j])
                OBVIOUS
            <4>1. i + j - 1 \in i..Len(w) /\ v[j] = w[i + j - 1]
                BY <3>1, <3>2
            <4> QED BY <2>1, <4>1
        <3>4. ToSet(v) = {v[j] : j \in 1..Len(v)}
            BY <3>2 DEF ToSet
        <3> QED BY <3>3, <3>4 DEF v
    <2> QED BY <2>1, <2>3 DEF Evidence, w
<1> QED
    BY <1>1, AlwaysIInv, PTL

\* Where no gateway is in the way and evidence leaves two places, both
\* reserved guesses are in the window (career_candidate_scheduler.py:81).
THEOREM ReservesAlways == Spec => []ReservesAreVisited
<1>1. IInv => ReservesAreVisited
    BY DEF IInv, Core, ScheduleInv, ReservesKept, ReservesAreVisited
<1> QED
    BY <1>1, AlwaysIInv, PTL
=============================================================================
