-------------------------- MODULE SubsequenceProofs --------------------------
(* What the parts of a sequence are made of.                                 *)
EXTENDS Subsequences, Integers, SequenceTheorems, FiniteSetTheorems, TLAPS

(* A finite set of numbers has a first one, a second one and so on.          *)
LEMMA RankExists ==
  ASSUME NEW I \in SUBSET Int, IsFiniteSet(I), NEW k \in 1 .. Cardinality(I)
  PROVE  \E i \in I : Cardinality({j \in I : j <= i}) = k
<1> DEFINE UpTo(x) == {j \in I : j <= x}
           rank == [x \in I |-> Cardinality(UpTo(x))]
           places == 1 .. Cardinality(I)
<1>1. Cardinality(I) \in Nat
  BY FS_CardinalityType
<1>2. IsFiniteSet(places) /\ Cardinality(places) = Cardinality(I)
  BY <1>1, FS_Interval
<1>3. \A x \in I : IsFiniteSet(UpTo(x)) /\ Cardinality(UpTo(x)) \in Nat
  <2> TAKE x \in I
  <2>1. UpTo(x) \in SUBSET I
    OBVIOUS
  <2>2. IsFiniteSet(UpTo(x))
    BY <2>1, FS_Subset
  <2> QED
    BY <2>2, FS_CardinalityType
<1>4. \A x \in I : Cardinality(UpTo(x)) \in places
  <2> TAKE x \in I
  <2>1. UpTo(x) \in SUBSET I
    OBVIOUS
  <2>2. Cardinality(UpTo(x)) <= Cardinality(I)
    BY <2>1, FS_Subset
  <2>3. UpTo(x) # {}
    OBVIOUS
  <2>4. Cardinality(UpTo(x)) # 0
    BY <1>3, <2>3, FS_EmptySet
  <2> QED
    BY <1>1, <1>3, <2>2, <2>4
<1>5. \A x, z \in I : x < z => Cardinality(UpTo(x)) < Cardinality(UpTo(z))
  <2> SUFFICES ASSUME NEW x \in I, NEW z \in I, x < z
               PROVE  Cardinality(UpTo(x)) < Cardinality(UpTo(z))
    OBVIOUS
  <2>1. UpTo(x) \in SUBSET UpTo(z) /\ UpTo(x) # UpTo(z)
    <3>1. x \in Int /\ z \in Int /\ ~(z <= x)
      OBVIOUS
    <3>2. \A y \in I : y <= x => y <= z
      BY <3>1
    <3>3. z \in UpTo(z) /\ z \notin UpTo(x)
      BY <3>1
    <3> QED
      BY <3>2, <3>3
  <2>2. Cardinality(UpTo(x)) <= Cardinality(UpTo(z)) /\ Cardinality(UpTo(x)) # Cardinality(UpTo(z))
    BY <1>3, <2>1, FS_Subset
  <2> QED
    BY <1>3, <2>2
<1> HIDE DEF UpTo
<1>6. rank \in [I -> places]
  BY <1>4
<1>7. \A x, z \in I : rank[x] = rank[z] => x = z
  <2> SUFFICES ASSUME NEW x \in I, NEW z \in I, rank[x] = rank[z], x # z
               PROVE  FALSE
    OBVIOUS
  <2>1. x < z \/ z < x
    OBVIOUS
  <2> QED
    BY <1>3, <1>5, <2>1
<1>8. rank \in Injection(I, places)
  BY <1>6, <1>7 DEF Injection, IsInjective
<1>9. rank \in Surjection(I, places)
  BY <1>2, <1>8, FS_Injection
<1>10. \E i \in I : Cardinality(UpTo(i)) = k
  BY <1>9 DEF Surjection
<1> QED
  BY <1>10 DEF UpTo

(* A part of a sequence has what stands at its places, and nothing else.     *)
THEOREM SubsequenceElements ==
  ASSUME NEW s, NEW I \in SUBSET Int, IsFiniteSet(I)
  PROVE  /\ Cardinality(I) \in Nat
         /\ Subsequence(s, I) \in Seq({s[i] : i \in I})
         /\ DOMAIN Subsequence(s, I) = 1 .. Cardinality(I)
         /\ \A k \in 1 .. Cardinality(I) : \E i \in I : Subsequence(s, I)[k] = s[i]
         /\ \A i \in I : \E k \in 1 .. Cardinality(I) : Subsequence(s, I)[k] = s[i]
<1> DEFINE UpTo(x) == {j \in I : j <= x}
           place(k) == CHOOSE i \in I : Cardinality(UpTo(i)) = k
<1>1. Cardinality(I) \in Nat
  BY FS_CardinalityType
<1>2. \A k \in 1 .. Cardinality(I) : place(k) \in I /\ Cardinality(UpTo(place(k))) = k
  <2> TAKE k \in 1 .. Cardinality(I)
  <2>1. \E i \in I : Cardinality(UpTo(i)) = k
    BY RankExists
  <2> HIDE DEF UpTo
  <2> QED
    BY <2>1
<1>3. \A i \in I : Cardinality(UpTo(i)) \in 1 .. Cardinality(I)
  <2> TAKE i \in I
  <2>1. UpTo(i) \in SUBSET I /\ UpTo(i) # {}
    OBVIOUS
  <2>2. IsFiniteSet(UpTo(i)) /\ Cardinality(UpTo(i)) <= Cardinality(I)
    BY <2>1, FS_Subset
  <2>3. Cardinality(UpTo(i)) \in Nat /\ Cardinality(UpTo(i)) # 0
    BY <2>1, <2>2, FS_CardinalityType, FS_EmptySet
  <2> QED
    BY <1>1, <2>2, <2>3
<1>4. \A x, z \in I : Cardinality(UpTo(x)) = Cardinality(UpTo(z)) => x = z
  <2>1. \A x, z \in I : x < z => Cardinality(UpTo(x)) # Cardinality(UpTo(z))
    <3> SUFFICES ASSUME NEW x \in I, NEW z \in I, x < z
                 PROVE  Cardinality(UpTo(x)) # Cardinality(UpTo(z))
      OBVIOUS
    <3>1. UpTo(x) \in SUBSET UpTo(z) /\ z \in UpTo(z) /\ z \notin UpTo(x)
      <4>1. x \in Int /\ z \in Int /\ ~(z <= x) /\ z <= z
        OBVIOUS
      <4>2. \A y \in I : y <= x => y <= z
        BY <4>1
      <4> QED
        BY <4>1, <4>2
    <3>2. IsFiniteSet(UpTo(z))
      <4>1. UpTo(z) \in SUBSET I
        OBVIOUS
      <4> QED
        BY <4>1, FS_Subset
    <3> HIDE DEF UpTo
    <3> QED
      BY <3>1, <3>2, FS_Subset
  <2> SUFFICES ASSUME NEW x \in I, NEW z \in I, Cardinality(UpTo(x)) = Cardinality(UpTo(z)), x # z
               PROVE  FALSE
    OBVIOUS
  <2>2. x < z \/ z < x
    OBVIOUS
  <2> HIDE DEF UpTo
  <2> QED
    BY <2>1, <2>2
<1>5. Subsequence(s, I) = [k \in 1 .. Cardinality(I) |-> s[place(k)]]
  BY DEF Subsequence
<1>6. \A i \in I : place(Cardinality(UpTo(i))) = i
  <2> TAKE i \in I
  <2> HIDE DEF UpTo, place
  <2> QED
    BY <1>2, <1>3, <1>4
<1> HIDE DEF place, UpTo
<1>7. /\ DOMAIN Subsequence(s, I) = 1 .. Cardinality(I)
      /\ \A k \in 1 .. Cardinality(I) : \E i \in I : Subsequence(s, I)[k] = s[i]
  BY <1>2, <1>5
<1>8. \A i \in I : \E k \in 1 .. Cardinality(I) : Subsequence(s, I)[k] = s[i]
  <2> TAKE i \in I
  <2>1. Cardinality(UpTo(i)) \in 1 .. Cardinality(I) /\ place(Cardinality(UpTo(i))) = i
    BY <1>3, <1>6
  <2>2. \A k \in 1 .. Cardinality(I) : Subsequence(s, I)[k] = s[place(k)]
    BY <1>5
  <2> QED
    BY <2>1, <2>2
<1>9. Subsequence(s, I) \in Seq({s[i] : i \in I})
  <2>1. \A k \in 1 .. Cardinality(I) : s[place(k)] \in {s[i] : i \in I}
    BY <1>2
  <2>2. [k \in 1 .. Cardinality(I) |-> s[place(k)]] \in Seq({s[i] : i \in I})
    BY <1>1, <2>1
  <2> QED
    BY <1>5, <2>2
<1> QED
  BY <1>1, <1>7, <1>8, <1>9

(* A place of a sequence is one of finitely many.                            *)
LEMMA PlacesFinite ==
  ASSUME NEW n \in Nat, NEW I \in SUBSET (1 .. n)
  PROVE  I \in SUBSET Int /\ IsFiniteSet(I) /\ Cardinality(I) \in 0 .. n
<1>1. IsFiniteSet(1 .. n) /\ Cardinality(1 .. n) = n
  BY FS_Interval
<1>2. IsFiniteSet(I) /\ Cardinality(I) <= n
  BY <1>1, FS_Subset
<1> QED
  BY <1>2, FS_CardinalityType

(* There is a smallest among finitely many numbers.                          *)
LEMMA SmallestExists ==
  ASSUME NEW I \in SUBSET Int, IsFiniteSet(I), I # {}
  PROVE  \E i \in I : \A j \in I : i <= j
<1>1. Cardinality(I) \in Nat /\ Cardinality(I) # 0
  BY FS_CardinalityType, FS_EmptySet
<1>2. PICK i \in I : Cardinality({j \in I : j <= i}) = 1
  BY <1>1, RankExists
<1> DEFINE UpTo == {j \in I : j <= i}
<1>3. UpTo \in SUBSET I
  OBVIOUS
<1>4. IsFiniteSet(UpTo) /\ Cardinality(UpTo) = 1
  BY <1>2, <1>3, FS_Subset
<1> HIDE DEF UpTo
<1>5. PICK x : UpTo = {x}
  BY <1>4, FS_Singleton
<1>6. \A j \in I : j <= i => j = i
  BY <1>5 DEF UpTo
<1> QED
  BY <1>6

(* What is in a sequence.                                                    *)
Elements(s) == {s[i] : i \in DOMAIN s}

(* A part of a sequence is made of what stands at its places.                *)
LEMMA ElementsOfPart ==
  ASSUME NEW s, NEW I \in SUBSET Int, IsFiniteSet(I)
  PROVE  /\ Elements(Subsequence(s, I)) = {s[i] : i \in I}
         /\ Subsequence(s, I) \in Seq({s[i] : i \in I})
<1> DEFINE part == Subsequence(s, I)
<1>1. /\ part \in Seq({s[i] : i \in I})
      /\ DOMAIN part = 1 .. Cardinality(I)
      /\ \A k \in 1 .. Cardinality(I) : \E i \in I : part[k] = s[i]
      /\ \A i \in I : \E k \in 1 .. Cardinality(I) : part[k] = s[i]
  BY SubsequenceElements
<1> HIDE DEF part
<1>2. \A x \in Elements(part) : x \in {s[i] : i \in I}
  <2> TAKE x \in Elements(part)
  <2>1. PICK k \in 1 .. Cardinality(I) : x = part[k]
    BY <1>1 DEF Elements
  <2>2. PICK i \in I : part[k] = s[i]
    BY <1>1
  <2> QED
    BY <2>1, <2>2
<1>3. \A i \in I : s[i] \in Elements(part)
  BY <1>1 DEF Elements
<1> QED
  BY <1>1, <1>2, <1>3 DEF part

(* One sequence behind another has what is in the two.                       *)
LEMMA ConcatElements ==
  ASSUME NEW S, NEW s \in Seq(S), NEW t \in Seq(S)
  PROVE  Elements(s \o t) = Elements(s) \cup Elements(t) /\ s \o t \in Seq(S)
<1>1. /\ s \o t \in Seq(S) /\ Len(s \o t) = Len(s) + Len(t)
      /\ \A i \in 1 .. Len(s) + Len(t) : (s \o t)[i] = IF i <= Len(s) THEN s[i] ELSE t[i - Len(s)]
  BY ConcatProperties
<1>2. /\ DOMAIN (s \o t) = 1 .. Len(s) + Len(t) /\ DOMAIN s = 1 .. Len(s) /\ DOMAIN t = 1 .. Len(t)
      /\ Len(s) \in Nat /\ Len(t) \in Nat
  BY <1>1, LenProperties
<1> DEFINE st == s \o t
<1> HIDE DEF st
<1>3. \A x \in Elements(st) : x \in Elements(s) \cup Elements(t)
  <2> TAKE x \in Elements(st)
  <2>1. PICK i \in 1 .. Len(s) + Len(t) : x = st[i]
    BY <1>2 DEF Elements, st
  <2>2. CASE i <= Len(s)
    BY <1>1, <1>2, <2>1, <2>2 DEF Elements, st
  <2>3. CASE ~(i <= Len(s))
    <3>1. i - Len(s) \in 1 .. Len(t) /\ x = t[i - Len(s)]
      BY <1>1, <1>2, <2>1, <2>3 DEF st
    <3> QED
      BY <1>2, <3>1 DEF Elements
  <2> QED
    BY <2>2, <2>3
<1>4. \A i \in 1 .. Len(s) : s[i] \in Elements(st)
  <2> TAKE i \in 1 .. Len(s)
  <2>1. i \in 1 .. Len(s) + Len(t) /\ st[i] = s[i]
    BY <1>1, <1>2 DEF st
  <2> QED
    BY <1>2, <2>1 DEF Elements, st
<1>5. \A i \in 1 .. Len(t) : t[i] \in Elements(st)
  <2> TAKE i \in 1 .. Len(t)
  <2>1. Len(s) + i \in 1 .. Len(s) + Len(t) /\ st[Len(s) + i] = t[i]
    BY <1>1, <1>2 DEF st
  <2> QED
    BY <1>2, <2>1 DEF Elements, st
<1> QED
  BY <1>1, <1>2, <1>3, <1>4, <1>5 DEF Elements, st

(* The first of a sequence and the others are all there is in it.            *)
LEMMA TailElements ==
  ASSUME NEW S, NEW s \in Seq(S), s # <<>>
  PROVE  /\ Head(s) \in S /\ Tail(s) \in Seq(S)
         /\ Elements(s) = {Head(s)} \cup Elements(Tail(s))
<1>1. /\ Head(s) \in S /\ Tail(s) \in Seq(S) /\ Len(Tail(s)) = Len(s) - 1
      /\ \A i \in 1 .. Len(Tail(s)) : Tail(s)[i] = s[i + 1]
  BY HeadTailProperties
<1>2. Len(s) \in Nat /\ Len(s) > 0 /\ DOMAIN s = 1 .. Len(s) /\ DOMAIN Tail(s) = 1 .. Len(s) - 1 /\ Head(s) = s[1]
  BY <1>1, EmptySeq, LenProperties
<1> DEFINE rest == Tail(s)
<1> HIDE DEF rest
<1>3. \A i \in 1 .. Len(s) : s[i] \in {Head(s)} \cup Elements(rest)
  <2> TAKE i \in 1 .. Len(s)
  <2>1. CASE i = 1
    BY <1>2, <2>1
  <2>2. CASE i # 1
    <3>1. i - 1 \in 1 .. Len(s) - 1 /\ rest[i - 1] = s[i]
      BY <1>1, <1>2, <2>2 DEF rest
    <3> QED
      BY <1>2, <3>1 DEF Elements, rest
  <2> QED
    BY <2>1, <2>2
<1>4. \A i \in 1 .. Len(s) - 1 : rest[i] \in Elements(s)
  <2> TAKE i \in 1 .. Len(s) - 1
  <2>1. i + 1 \in 1 .. Len(s) /\ rest[i] = s[i + 1]
    BY <1>1, <1>2 DEF rest
  <2> QED
    BY <1>2, <2>1 DEF Elements
<1>5. Head(s) \in Elements(s)
  BY <1>2 DEF Elements
<1> QED
  BY <1>1, <1>2, <1>3, <1>4, <1>5 DEF Elements, rest

(* Among finitely many numbers there is a largest.                           *)
LEMMA LargestExists ==
  ASSUME NEW I \in SUBSET Int, IsFiniteSet(I), I # {}
  PROVE  \E i \in I : \A j \in I : i >= j
<1> DEFINE n == Cardinality(I)
<1>1. n \in Nat /\ n # 0
  BY FS_CardinalityType, FS_EmptySet
<1>2. PICK i \in I : Cardinality({j \in I : j <= i}) = n
  BY <1>1, RankExists
<1> DEFINE UpTo == {j \in I : j <= i}
<1>3. UpTo \in SUBSET I
  OBVIOUS
<1>4. UpTo = I
  BY <1>2, <1>3, FS_Subset
<1> QED
  BY <1>4

(* What stands in a part of a sequence comes from its places in order.       *)
LEMMA PlacesAscend ==
  ASSUME NEW s, NEW I \in SUBSET Int, IsFiniteSet(I)
  PROVE  \E p \in [1 .. Cardinality(I) -> I] :
           /\ Subsequence(s, I) = [k \in 1 .. Cardinality(I) |-> s[p[k]]]
           /\ \A i \in I : \E k \in 1 .. Cardinality(I) : p[k] = i
           /\ \A j, k \in 1 .. Cardinality(I) : j < k => p[j] < p[k]
<1> DEFINE UpTo(x) == {j \in I : j <= x}
           place(k) == CHOOSE i \in I : Cardinality(UpTo(i)) = k
           n == Cardinality(I)
           p == [k \in 1 .. n |-> place(k)]
<1>1. n \in Nat
  BY FS_CardinalityType
<1>2. \A x \in I : IsFiniteSet(UpTo(x)) /\ Cardinality(UpTo(x)) \in Nat
  <2> TAKE x \in I
  <2>1. UpTo(x) \in SUBSET I
    OBVIOUS
  <2> QED
    BY <2>1, FS_Subset, FS_CardinalityType
<1>3. \A k \in 1 .. n : place(k) \in I /\ Cardinality(UpTo(place(k))) = k
  <2> TAKE k \in 1 .. n
  <2>1. \E i \in I : Cardinality(UpTo(i)) = k
    BY RankExists
  <2> HIDE DEF UpTo
  <2> QED
    BY <2>1
<1>4. \A x, z \in I : x <= z => Cardinality(UpTo(x)) <= Cardinality(UpTo(z))
  <2> SUFFICES ASSUME NEW x \in I, NEW z \in I, x <= z
               PROVE  Cardinality(UpTo(x)) <= Cardinality(UpTo(z))
    OBVIOUS
  <2>1. UpTo(x) \in SUBSET UpTo(z)
    <3>1. x \in Int /\ z \in Int /\ \A y \in I : y \in Int
      OBVIOUS
    <3>2. \A y \in I : y <= x => y <= z
      BY <3>1
    <3> QED
      BY <3>2
  <2> QED
    BY <1>2, <2>1, FS_Subset
<1>5. p \in [1 .. n -> I]
  BY <1>3
<1>6. Subsequence(s, I) = [k \in 1 .. n |-> s[p[k]]]
  BY DEF Subsequence
<1> HIDE DEF UpTo
<1>7. \A j, k \in 1 .. n : j < k => p[j] < p[k]
  <2> SUFFICES ASSUME NEW j \in 1 .. n, NEW k \in 1 .. n, j < k, ~ p[j] < p[k]
               PROVE  FALSE
    OBVIOUS
  <2>1. p[j] = place(j) /\ p[k] = place(k)
    OBVIOUS
  <2>2. Cardinality(UpTo(p[j])) = j /\ Cardinality(UpTo(p[k])) = k
    BY <1>3, <2>1
  <2> HIDE DEF p
  <2>3. p[j] \in I /\ p[k] \in I
    BY <1>5
  <2>4. p[k] <= p[j]
    <3>1. p[j] \in Int /\ p[k] \in Int
      BY <2>3
    <3> QED
      BY <3>1
  <2>5. Cardinality(UpTo(p[k])) <= Cardinality(UpTo(p[j]))
    BY <1>4, <2>3, <2>4
  <2> QED
    BY <1>1, <2>2, <2>5
<1>8. \A i \in I : \E k \in 1 .. n : p[k] = i
  <2> HIDE DEF p
  <2>1. p \in Injection(1 .. n, I)
    <3>1. \A j, k \in 1 .. n : p[j] = p[k] => j = k
      <4> SUFFICES ASSUME NEW j \in 1 .. n, NEW k \in 1 .. n, p[j] = p[k], j # k
                   PROVE  FALSE
        OBVIOUS
      <4>1. j < k \/ k < j
        BY <1>1
      <4>2. p[j] \in Int
        BY <1>5
      <4> QED
        BY <1>7, <4>1, <4>2
    <3> QED
      BY <1>5, <3>1 DEF Injection, IsInjective
  <2>2. IsFiniteSet(1 .. n) /\ Cardinality(1 .. n) = n
    BY <1>1, FS_Interval
  <2>3. p \in Surjection(1 .. n, I)
    BY <2>1, <2>2, FS_Injection
  <2> QED
    BY <2>3 DEF Surjection
<1> QED
  BY <1>5, <1>6, <1>7, <1>8

(* Tuples of one length are in a strict order.                               *)
LEMMA LexOrder ==
  ASSUME NEW m \in Nat, NEW s \in [1 .. m -> Int], NEW t \in [1 .. m -> Int], NEW u \in [1 .. m -> Int]
  PROVE  /\ ~ LexLess(s, s)
         /\ s # t => LexLess(s, t) \/ LexLess(t, s)
         /\ LexLess(s, t) /\ LexLess(t, u) => LexLess(s, u)
<1>1. ~ LexLess(s, s)
  BY DEF LexLess
<1>2. ASSUME s # t
      PROVE  LexLess(s, t) \/ LexLess(t, s)
  <2> DEFINE apart == {j \in 1 .. m : s[j] # t[j]}
  <2>1. apart # {}
    <3>1. \E j \in 1 .. m : s[j] # t[j]
      BY <1>2
    <3> QED
      BY <3>1
  <2>2. apart \in SUBSET Int /\ IsFiniteSet(apart)
    BY PlacesFinite
  <2>3. PICK k \in apart : \A j \in apart : k <= j
    BY <2>1, <2>2, SmallestExists
  <2>4. k \in 1 .. m /\ s[k] # t[k] /\ s[k] \in Int /\ t[k] \in Int
    OBVIOUS
  <2>5. \A j \in 1 .. k - 1 : s[j] = t[j]
    BY <2>3, <2>4
  <2>6. CASE s[k] < t[k]
    BY <2>4, <2>5, <2>6 DEF LexLess
  <2>7. CASE t[k] < s[k]
    BY <2>4, <2>5, <2>7 DEF LexLess
  <2> QED
    BY <2>4, <2>6, <2>7
<1>3. ASSUME LexLess(s, t), LexLess(t, u)
      PROVE  LexLess(s, u)
  <2>1. PICK k \in 1 .. m : (\A j \in 1 .. k - 1 : s[j] = t[j]) /\ s[k] < t[k]
    BY <1>3 DEF LexLess
  <2>2. PICK l \in 1 .. m : (\A j \in 1 .. l - 1 : t[j] = u[j]) /\ t[l] < u[l]
    BY <1>3 DEF LexLess
  <2>3. CASE k <= l
    <3>1. \A j \in 1 .. k - 1 : s[j] = u[j]
      BY <2>1, <2>2, <2>3
    <3>2. s[k] < u[k]
      <4>1. t[k] = u[k] \/ (k = l /\ t[k] < u[k])
        BY <2>2, <2>3
      <4>2. s[k] \in Int /\ t[k] \in Int /\ u[k] \in Int
        OBVIOUS
      <4> QED
        BY <2>1, <4>1, <4>2
    <3> QED
      BY <3>1, <3>2 DEF LexLess
  <2>4. CASE l < k
    <3>1. \A j \in 1 .. l - 1 : s[j] = u[j]
      BY <2>1, <2>2, <2>4
    <3>2. s[l] < u[l]
      BY <2>1, <2>2, <2>4
    <3> QED
      BY <3>1, <3>2 DEF LexLess
  <2> QED
    BY <2>3, <2>4
<1> QED
  BY <1>1, <1>2, <1>3

(* Sorting loses no tuple, repeats none, and puts the lower one first.       *)
THEOREM SortedAscends ==
  ASSUME NEW m \in Nat, NEW S \in SUBSET [1 .. m -> Int], IsFiniteSet(S)
  PROVE  /\ Cardinality(S) \in Nat
         /\ Ascending(S) \in [1 .. Cardinality(S) -> S]
         /\ \A t \in S : \E k \in 1 .. Cardinality(S) : Ascending(S)[k] = t
         /\ \A j, k \in 1 .. Cardinality(S) : j < k => LexLess(Ascending(S)[j], Ascending(S)[k])
<1> DEFINE Below(t) == {s \in S : LexLess(s, t)}
           n == Cardinality(S)
           rank == [t \in S |-> Cardinality(Below(t))]
           at(k) == CHOOSE t \in S : Cardinality(Below(t)) = k - 1
<1>1. n \in Nat
  BY FS_CardinalityType
<1>2. \A t \in S : IsFiniteSet(Below(t)) /\ Cardinality(Below(t)) \in 0 .. n - 1
  <2> TAKE t \in S
  <2>1. Below(t) \in SUBSET S
    OBVIOUS
  <2>2. t \notin Below(t)
    BY LexOrder
  <2>3. IsFiniteSet(Below(t)) /\ Cardinality(Below(t)) <= n /\ Cardinality(Below(t)) # n
    BY <2>1, <2>2, FS_Subset
  <2> QED
    BY <1>1, <2>3, FS_CardinalityType
<1>3. \A s, t \in S : LexLess(s, t) => Cardinality(Below(s)) < Cardinality(Below(t))
  <2> SUFFICES ASSUME NEW s \in S, NEW t \in S, LexLess(s, t)
               PROVE  Cardinality(Below(s)) < Cardinality(Below(t))
    OBVIOUS
  <2>1. Below(s) \in SUBSET Below(t)
    BY LexOrder
  <2>2. s \in Below(t) /\ s \notin Below(s)
    BY LexOrder
  <2>3. Cardinality(Below(s)) <= Cardinality(Below(t)) /\ Cardinality(Below(s)) # Cardinality(Below(t))
    BY <1>2, <2>1, <2>2, FS_Subset
  <2> HIDE DEF Below
  <2>4. Cardinality(Below(s)) \in 0 .. n - 1 /\ Cardinality(Below(t)) \in 0 .. n - 1
    BY <1>2
  <2> QED
    BY <1>1, <2>3, <2>4
<1> HIDE DEF Below
<1>4. rank \in Injection(S, 0 .. n - 1)
  <2>1. rank \in [S -> 0 .. n - 1]
    BY <1>2
  <2>2. \A s, t \in S : rank[s] = rank[t] => s = t
    <3> SUFFICES ASSUME NEW s \in S, NEW t \in S, rank[s] = rank[t], s # t
                 PROVE  FALSE
      OBVIOUS
    <3>1. LexLess(s, t) \/ LexLess(t, s)
      BY LexOrder
    <3>2. Cardinality(Below(s)) = Cardinality(Below(t)) /\ Cardinality(Below(s)) \in Int
      BY <1>2
    <3> QED
      BY <1>3, <3>1, <3>2
  <2> QED
    BY <2>1, <2>2 DEF Injection, IsInjective
<1>5. rank \in Surjection(S, 0 .. n - 1)
  <2>1. IsFiniteSet(0 .. n - 1) /\ Cardinality(0 .. n - 1) = n
    BY <1>1, FS_Interval
  <2> QED
    BY <1>4, <2>1, FS_Injection
<1>6. \A k \in 1 .. n : at(k) \in S /\ Cardinality(Below(at(k))) = k - 1
  <2> TAKE k \in 1 .. n
  <2>1. k - 1 \in 0 .. n - 1
    BY <1>1
  <2>2. \E t \in S : Cardinality(Below(t)) = k - 1
    BY <1>5, <2>1 DEF Surjection
  <2> QED
    BY <2>2
<1>7. Ascending(S) = [k \in 1 .. n |-> at(k)]
  BY DEF Ascending, Below
<1> HIDE DEF at
<1>8. Ascending(S) \in [1 .. n -> S]
  BY <1>6, <1>7
<1>9. \A t \in S : \E k \in 1 .. n : Ascending(S)[k] = t
  <2> TAKE t \in S
  <2> DEFINE k == Cardinality(Below(t)) + 1
  <2>1. k \in 1 .. n /\ k - 1 = Cardinality(Below(t))
    BY <1>1, <1>2
  <2>2. rank[at(k)] = rank[t] /\ at(k) \in S
    BY <1>6, <2>1
  <2>3. at(k) = t
    BY <1>4, <2>2 DEF Injection, IsInjective
  <2> QED
    BY <1>7, <2>1, <2>3
<1>10. \A j, k \in 1 .. n : j < k => LexLess(Ascending(S)[j], Ascending(S)[k])
  <2> SUFFICES ASSUME NEW j \in 1 .. n, NEW k \in 1 .. n, j < k, ~ LexLess(at(j), at(k))
               PROVE  FALSE
    BY <1>7
  <2>1. at(j) \in S /\ at(k) \in S /\ Cardinality(Below(at(j))) = j - 1 /\ Cardinality(Below(at(k))) = k - 1
    BY <1>6
  <2>2. at(j) # at(k)
    BY <1>1, <2>1
  <2>3. LexLess(at(k), at(j))
    BY <2>1, <2>2, LexOrder
  <2>4. k - 1 < j - 1
    BY <1>3, <2>1, <2>3
  <2> QED
    BY <1>1, <2>4
<1> QED
  BY <1>1, <1>8, <1>9, <1>10

(* The sum of finitely many natural numbers is one.                          *)
LEMMA TotalNat ==
  ASSUME NEW f, IsFiniteSet(DOMAIN f), \A x \in DOMAIN f : f[x] \in Nat
  PROVE  Total(f) \in Nat
<1> DEFINE Units(x) == {x} \X (1 .. f[x])
           all == {Units(x) : x \in DOMAIN f}
           units == [x \in DOMAIN f |-> Units(x)]
<1>1. \A x \in DOMAIN f : IsFiniteSet(Units(x))
  <2> TAKE x \in DOMAIN f
  <2>1. IsFiniteSet({x})
    BY FS_Singleton
  <2>2. f[x] \in Int /\ 1 \in Int
    OBVIOUS
  <2>3. IsFiniteSet(1 .. f[x])
    BY <2>2, FS_Interval
  <2> QED
    BY <2>1, <2>3, FS_Product
<1> HIDE DEF Units
<1>2. units \in Surjection(DOMAIN f, all)
  BY DEF Surjection
<1>3. IsFiniteSet(all)
  BY <1>2, FS_Surjection
<1>4. IsFiniteSet(UNION all)
  BY <1>1, <1>3, FS_UNION
<1>5. Cardinality(UNION all) \in Nat
  BY <1>4, FS_CardinalityType
<1> QED
  BY <1>5 DEF Total, Units
=============================================================================
