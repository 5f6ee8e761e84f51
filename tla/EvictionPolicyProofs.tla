------------------------- MODULE EvictionPolicyProofs -------------------------
(***************************************************************************)
(* Facts about the operators of EvictionPolicy, for every set of objects   *)
(* and every capacity.                                                     *)
(***************************************************************************)
EXTENDS EvictionPolicy, FiniteSetTheorems, WellFoundedInduction, TLAPS

-----------------------------------------------------------------------------
(* Every non-empty set of naturals has a least element. *)
LEMMA LeastNatural ==
  ASSUME NEW S, S \subseteq Nat, S # {}
  PROVE  \E n \in S : \A m \in S : n <= m
<1> DEFINE R == OpToRel(<, Nat)
<1>1. IsWellFoundedOn(R, Nat)
  BY Zenon, NatLessThanWellFounded
<1>2. PICK n \in S : \A m \in S : ~(<<m, n>> \in R)
  <2> HIDE DEF R
  <2> QED BY Zenon, <1>1, WFMin
<1>3. \A m \in S : ~(m < n)
  BY Zenon, <1>2 DEF OpToRel
<1> QED BY <1>3

(* Induction on the naturals, for sets. *)
LEMMA SetInduction ==
  ASSUME NEW S, 0 \in S, \A n \in Nat : n \in S => n + 1 \in S
  PROVE  Nat \subseteq S
<1> SUFFICES ASSUME Nat \ S # {} PROVE FALSE
  OBVIOUS
<1>1. PICK n \in Nat \ S : \A m \in Nat \ S : n <= m
  BY Zenon, LeastNatural
<1>2. n # 0 /\ n - 1 \in Nat
  BY <1>1
<1>3. n - 1 \in S
  BY <1>1, <1>2
<1> QED BY <1>1, <1>2, <1>3

-----------------------------------------------------------------------------
(* Appending to a sequence adds one element. *)
LEMMA AppendElements ==
  ASSUME NEW T, NEW q \in Seq(T), NEW x \in T
  PROVE  /\ Elements(Append(q, x)) = Elements(q) \cup {x}
         /\ Injective(q) /\ x \notin Elements(q) => Injective(Append(q, x))
<1> DEFINE p == Append(q, x)
<1>1. /\ Len(q) \in Nat /\ DOMAIN q = 1..Len(q)
      /\ DOMAIN p = 1..(Len(q) + 1)
      /\ \A i \in 1..Len(q) : p[i] = q[i]
      /\ p[Len(q) + 1] = x
  OBVIOUS
<1> HIDE DEF p
<1>2. Elements(p) = Elements(q) \cup {x}
  <2>1. Elements(p) \subseteq Elements(q) \cup {x}
    BY <1>1 DEF Elements
  <2>2. ASSUME NEW e \in Elements(q) PROVE e \in Elements(p)
    <3>1. PICK i \in 1..Len(q) : e = q[i]
      BY <1>1 DEF Elements
    <3> QED BY <1>1, <3>1 DEF Elements
  <2>3. x \in Elements(p)
    BY <1>1 DEF Elements
  <2> QED BY <2>1, <2>2, <2>3
<1>3. Injective(q) /\ x \notin Elements(q) => Injective(p)
  BY <1>1 DEF Elements, Injective
<1> QED BY <1>2, <1>3 DEF p

(* The value at i of the function that Without defines, given its others. *)
KeptAt(f, s, S, i) ==
  IF i = 0 THEN << >>
  ELSE IF s[i] \in S THEN f[i - 1]
  ELSE Append(f[i - 1], s[i])

(* The recursion of Without is well founded. *)
LEMMA KeptExists ==
  ASSUME NEW s, Len(s) \in Nat, NEW S
  PROVE  \E f : f = [i \in 0..Len(s) |-> KeptAt(f, s, S, i)]
<1> DEFINE Good == {n \in Nat : \E f : f = [i \in 0..n |-> KeptAt(f, s, S, i)]}
<1>1. 0 \in Good
  <2> DEFINE f == [i \in 0..0 |-> << >>]
  <2>1. f = [i \in 0..0 |-> KeptAt(f, s, S, i)]
    BY DEF KeptAt
  <2> QED BY <2>1
<1>2. ASSUME NEW n \in Nat, n \in Good
      PROVE  n + 1 \in Good
  <2>1. PICK f : f = [i \in 0..n |-> KeptAt(f, s, S, i)]
    BY <1>2
  <2> DEFINE g == [i \in 0..(n + 1) |->
                     IF i = n + 1 THEN KeptAt(f, s, S, n + 1) ELSE f[i]]
  <2>2. \A i \in 0..(n + 1) : g[i] = KeptAt(g, s, S, i)
    <3> SUFFICES ASSUME NEW i \in 0..(n + 1) PROVE g[i] = KeptAt(g, s, S, i)
      OBVIOUS
    <3>1. i # 0 => i - 1 \in 0..n /\ g[i - 1] = f[i - 1]
      OBVIOUS
    <3>2. KeptAt(g, s, S, i) = KeptAt(f, s, S, i)
      BY <3>1 DEF KeptAt
    <3>3. i # n + 1 => i \in 0..n /\ f[i] = KeptAt(f, s, S, i)
      BY <2>1
    <3> QED BY <3>2, <3>3
  <2>3. g = [i \in 0..(n + 1) |-> KeptAt(g, s, S, i)]
    BY <2>2
  <2> HIDE DEF g
  <2> QED BY <2>3
<1>3. Nat \subseteq Good
  <2> HIDE DEF Good
  <2> QED BY <1>1, <1>2, SetInduction
<1> QED BY <1>3

(* Without(s, S) lists the elements of s that are not in S, and repeats    *)
(* none if s repeats none.                                                 *)
LEMMA WithoutSeq ==
  ASSUME NEW T, NEW s \in Seq(T), NEW S
  PROVE  /\ Without(s, S) \in Seq(T)
         /\ Elements(Without(s, S)) = Elements(s) \ S
         /\ Injective(s) => Injective(Without(s, S))
<1> DEFINE kept == CHOOSE f : f = [i \in 0..Len(s) |-> KeptAt(f, s, S, i)]
<1>0. Len(s) \in Nat /\ DOMAIN s = 1..Len(s)
  OBVIOUS
<1>1. kept = [i \in 0..Len(s) |-> KeptAt(kept, s, S, i)]
  <2> DEFINE Fixed(f) == f = [i \in 0..Len(s) |-> KeptAt(f, s, S, i)]
  <2>1. \E f : Fixed(f)
    BY SMTT(30), <1>0, KeptExists
  <2>2. kept = CHOOSE f : Fixed(f)
    BY Zenon
  <2>3. Fixed(CHOOSE f : Fixed(f))
    <3> HIDE DEF Fixed
    <3> QED BY Zenon, <2>1
  <2>4. Fixed(kept)
    <3> HIDE DEF Fixed, kept
    <3> QED BY Zenon, <2>2, <2>3
  <2> QED BY Zenon, <2>4
<1>2. Without(s, S) = kept[Len(s)]
  BY DEF Without, KeptAt
<1> HIDE DEF kept
<1> DEFINE Right(i) ==
             /\ kept[i] \in Seq(T)
             /\ Elements(kept[i]) = {s[j] : j \in 1..i} \ S
             /\ Injective(s) => Injective(kept[i])
           Good == {n \in Nat : n <= Len(s) => Right(n)}
<1>3. 0 \in Good
  BY <1>0, <1>1 DEF KeptAt, Elements, Injective
<1>4. ASSUME NEW n \in Nat, n \in Good PROVE n + 1 \in Good
  <2> SUFFICES ASSUME n + 1 <= Len(s) PROVE Right(n + 1)
    OBVIOUS
  <2>1. Right(n) /\ n + 1 \in 1..Len(s) /\ s[n + 1] \in T
    BY <1>0, <1>4
  <2>a. kept[n + 1] = KeptAt(kept, s, S, n + 1)
    BY <1>0, <1>1
  <2>2. {s[j] : j \in 1..(n + 1)} = {s[j] : j \in 1..n} \cup {s[n + 1]}
    OBVIOUS
  <2>3. CASE s[n + 1] \in S
    <3>1. kept[n + 1] = kept[n]
      BY <2>a, <2>3 DEF KeptAt
    <3> QED BY <2>1, <2>2, <2>3, <3>1
  <2>4. CASE s[n + 1] \notin S
    <3>1. kept[n + 1] = Append(kept[n], s[n + 1])
      BY <2>a, <2>4 DEF KeptAt
    <3>2. kept[n + 1] \in Seq(T)
      BY <2>1, <3>1
    <3>3. Elements(kept[n + 1]) = Elements(kept[n]) \cup {s[n + 1]}
      BY <2>1, <3>1, AppendElements
    <3>4. Injective(s) => s[n + 1] \notin Elements(kept[n])
      BY <1>0, <2>1 DEF Injective
    <3>5. Injective(s) => Injective(kept[n + 1])
      BY <2>1, <3>1, <3>4, AppendElements
    <3> QED BY <2>1, <2>2, <2>4, <3>2, <3>3, <3>5
  <2> QED BY <2>3, <2>4
<1>5. Nat \subseteq Good
  <2> HIDE DEF Good
  <2> QED BY <1>3, <1>4, SetInduction
<1>6. Right(Len(s))
  BY <1>0, <1>5
<1>7. {s[j] : j \in 1..Len(s)} = Elements(s)
  BY <1>0 DEF Elements
<1> QED BY <1>2, <1>6, <1>7

-----------------------------------------------------------------------------
(* Dropping the first n elements of a sequence without repetitions. *)
LEMMA DropPrefix ==
  ASSUME NEW T, NEW s \in Seq(T), NEW n \in 0..Len(s)
  PROVE  /\ SubSeq(s, n + 1, Len(s)) \in Seq(T)
         /\ Injective(s) =>
              /\ Injective(SubSeq(s, n + 1, Len(s)))
              /\ Elements(SubSeq(s, n + 1, Len(s))) =
                   Elements(s) \ {s[i] : i \in 1..n}
<1> DEFINE q == SubSeq(s, n + 1, Len(s))
<1>1. /\ Len(s) \in Nat /\ DOMAIN s = 1..Len(s)
      /\ q \in Seq(T) /\ DOMAIN q = 1..(Len(s) - n)
      /\ \A i \in 1..(Len(s) - n) : n + i \in 1..Len(s) /\ q[i] = s[n + i]
  OBVIOUS
<1> HIDE DEF q
<1>2. ASSUME Injective(s), NEW i \in DOMAIN q, NEW j \in DOMAIN q, q[i] = q[j]
      PROVE  i = j
  <2>1. n + i \in DOMAIN s /\ n + j \in DOMAIN s /\ s[n + i] = s[n + j]
    BY <1>1, <1>2
  <2>2. n + i = n + j
    BY <1>2, <2>1 DEF Injective
  <2> QED BY <1>1, <2>2
<1>3. ASSUME Injective(s)
      PROVE  Elements(q) = Elements(s) \ {s[i] : i \in 1..n}
  <2>1. ASSUME NEW e \in Elements(q)
        PROVE  e \in Elements(s) \ {s[i] : i \in 1..n}
    <3>1. PICK i \in 1..(Len(s) - n) : e = q[i]
      BY <1>1 DEF Elements
    <3>2. e = s[n + i] /\ n + i \in DOMAIN s
      BY <1>1, <3>1
    <3>3. \A j \in 1..n : j \in DOMAIN s /\ s[j] # e
      <4> SUFFICES ASSUME NEW j \in 1..n PROVE j \in DOMAIN s /\ s[j] # e
        OBVIOUS
      <4>1. j \in DOMAIN s /\ j # n + i
        BY <1>1, <3>1
      <4> QED BY <1>3, <3>2, <4>1 DEF Injective
    <3> QED BY <3>2, <3>3 DEF Elements
  <2>2. ASSUME NEW e \in Elements(s) \ {s[i] : i \in 1..n}
        PROVE  e \in Elements(q)
    <3>1. PICK i \in 1..Len(s) : e = s[i]
      BY <1>1 DEF Elements
    <3>2. i - n \in 1..(Len(s) - n) /\ n + (i - n) = i
      BY <1>1, <2>2, <3>1
    <3> QED BY Zenon, <1>1, <3>1, <3>2 DEF Elements
  <2> QED BY <2>1, <2>2
<1> QED BY <1>1, <1>2, <1>3 DEF q, Injective

(* Appending a sequence of new elements. *)
LEMMA ConcatElements ==
  ASSUME NEW T, NEW s \in Seq(T), NEW p \in Seq(T)
  PROVE  /\ s \o p \in Seq(T)
         /\ Elements(s \o p) = Elements(s) \cup Elements(p)
         /\ /\ Injective(s) /\ Injective(p)
            /\ Elements(s) \cap Elements(p) = {}
            => Injective(s \o p)
<1> DEFINE q == s \o p
<1>1. /\ Len(s) \in Nat /\ DOMAIN s = 1..Len(s)
      /\ Len(p) \in Nat /\ DOMAIN p = 1..Len(p)
      /\ q \in Seq(T) /\ DOMAIN q = 1..(Len(s) + Len(p))
      /\ \A i \in 1..Len(s) : q[i] = s[i]
      /\ \A i \in 1..(Len(s) + Len(p)) :
           i > Len(s) => i - Len(s) \in 1..Len(p) /\ q[i] = p[i - Len(s)]
      /\ \A i \in 1..Len(p) :
           Len(s) + i \in 1..(Len(s) + Len(p)) /\ q[Len(s) + i] = p[i]
  OBVIOUS
<1> HIDE DEF q
<1>2. ASSUME NEW e \in Elements(q) PROVE e \in Elements(s) \cup Elements(p)
  <2>1. PICK i \in 1..(Len(s) + Len(p)) : e = q[i]
    BY <1>1 DEF Elements
  <2>2. CASE i <= Len(s)
    BY SMTT(30), <1>1, <2>1, <2>2 DEF Elements
  <2>3. CASE i > Len(s)
    BY SMTT(30), <1>1, <2>1, <2>3 DEF Elements
  <2> QED BY <1>1, <2>2, <2>3
<1>3. ASSUME NEW e \in Elements(s) PROVE e \in Elements(q)
  <2>1. PICK i \in 1..Len(s) : e = s[i]
    BY <1>1 DEF Elements
  <2> QED BY <1>1, <2>1 DEF Elements
<1>4. ASSUME NEW e \in Elements(p) PROVE e \in Elements(q)
  <2>1. PICK i \in 1..Len(p) : e = p[i]
    BY <1>1 DEF Elements
  <2>2. Len(s) + i \in DOMAIN q /\ q[Len(s) + i] = e
    BY <1>1, <2>1
  <2> QED BY <2>2 DEF Elements
<1>5. ASSUME Injective(s), Injective(p), Elements(s) \cap Elements(p) = {},
             NEW i \in DOMAIN q, NEW j \in DOMAIN q, q[i] = q[j]
      PROVE  i = j
  <2>1. \A k \in DOMAIN q : k <= Len(s) => k \in DOMAIN s /\ q[k] \in Elements(s)
    BY <1>1 DEF Elements
  <2>2. \A k \in DOMAIN q :
          k > Len(s) => k - Len(s) \in DOMAIN p /\ q[k] \in Elements(p)
    BY SMTT(30), <1>1 DEF Elements
  <2>3. CASE i <= Len(s)
    <3>1. j <= Len(s)
      BY <1>1, <1>5, <2>1, <2>2, <2>3
    <3> QED BY <1>1, <1>5, <2>1, <2>3, <3>1 DEF Injective
  <2>4. CASE i > Len(s)
    <3>1. j > Len(s)
      BY <1>1, <1>5, <2>1, <2>2, <2>4
    <3>2. i - Len(s) = j - Len(s)
      BY <1>1, <1>5, <2>2, <2>4, <3>1 DEF Injective
    <3> QED BY <1>1, <3>2
  <2> QED BY <1>1, <2>3, <2>4
<1> QED BY <1>1, <1>2, <1>3, <1>4, <1>5 DEF q, Injective

(* A listing of a finite set has the elements of the set, each once. *)
LEMMA OrderingsSeq ==
  ASSUME NEW S, IsFiniteSet(S), NEW p \in Orderings(S)
  PROVE  p \in Seq(S) /\ Elements(p) = S /\ Injective(p)
<1>1. Cardinality(S) \in Nat
  BY FS_CardinalityType
<1>2. p \in [1..Cardinality(S) -> S]
  BY DEF Orderings
<1>3. p \in Seq(S)
  BY <1>1, <1>2
<1> QED BY <1>2, <1>3 DEF Orderings, Elements, Injective

-----------------------------------------------------------------------------
(* Sizes add up to a natural number. *)
LEMMA BytesNat ==
  ASSUME NEW S \in SUBSET Object
  PROVE  Bytes(S) \in Nat
<1> DEFINE cells == S \X (1..Capacity)
<1>1. IsFiniteSet(S) /\ IsFiniteSet(1..Capacity)
  BY ObjectAssumption, CapacityAssumption, FS_Subset, FS_Interval
<1>2. IsFiniteSet(cells)
  BY Zenon, <1>1, FS_Product
<1>3. IsFiniteSet({ob \in cells : ob[2] <= objects[ob[1]].size})
  <2> HIDE DEF cells
  <2> QED BY <1>2, FS_Subset
<1> QED BY <1>3, FS_CardinalityType DEF Bytes

(* Nothing occupies nothing. *)
LEMMA BytesNothing == Bytes({}) = 0
<1>1. {ob \in {} \X (1..Capacity) : ob[2] <= objects[ob[1]].size} = {}
  OBVIOUS
<1> QED BY <1>1, FS_EmptySet DEF Bytes

(* choose_objects_to_evict takes a prefix of the queue, with enough bytes  *)
(* or with everything.                                                     *)
LEMMA NumObjectsToEvictPrefix ==
  ASSUME released_objects \in Seq(Object), NEW k \in Int
  PROVE  /\ NumObjectsToEvict(k) \in 0..Len(released_objects)
         /\ \/ Bytes(Prefix(NumObjectsToEvict(k))) >= k
            \/ NumObjectsToEvict(k) = Len(released_objects)
<1> DEFINE enough == {n \in 0..Len(released_objects) : Bytes(Prefix(n)) >= k}
<1>1. Len(released_objects) \in Nat
  OBVIOUS
<1>2. CASE enough = {}
  BY <1>1, <1>2 DEF NumObjectsToEvict
<1>3. CASE enough # {}
  <2>1. \E n \in enough : \A m \in enough : n <= m
    <3>1. enough \subseteq Nat
      BY <1>1
    <3> HIDE DEF enough
    <3> QED BY Zenon, <1>3, <3>1, LeastNatural
  <2>2. NumObjectsToEvict(k) = CHOOSE n \in enough : \A m \in enough : n <= m
    BY <1>3 DEF NumObjectsToEvict
  <2>3. NumObjectsToEvict(k) \in enough
    <3> HIDE DEF enough
    <3> QED BY <2>1, <2>2
  <2> QED BY <2>3
<1> QED BY <1>2, <1>3

(* The objects of a prefix of the queue. *)
LEMMA PrefixElements ==
  ASSUME released_objects \in Seq(Object),
         NEW n \in 0..Len(released_objects)
  PROVE  Prefix(n) \subseteq Elements(released_objects) /\ Prefix(n) \subseteq Object
BY DEF Prefix, Elements

(* require_space: if the policy believes at most the capacity in use and   *)
(* finds too little to free, it has taken the whole queue; if it finds     *)
(* enough, the account stays within the capacity.                          *)
LEMMA RequireSpace ==
  ASSUME released_objects \in Seq(Object),
         memory_used \in Int, memory_used <= Capacity, NEW size \in Nat
  PROVE  LET n == RequireSpaceEvicts(size)
         IN  /\ n \in 0..Len(released_objects)
             /\ ~RequireSpaceSucceeds(size) => n = Len(released_objects)
             /\ RequireSpaceSucceeds(size) =>
                  memory_used - Bytes(Prefix(n)) + size <= Capacity
<1> DEFINE n == RequireSpaceEvicts(size)
           k == LargerOf(size, Capacity \div 5)
<1>1. k \in Int /\ k >= size
  BY CapacityAssumption DEF LargerOf
<1>2. RequiredSpace(size) \in Int /\ RequiredSpace(size) <= size
  BY CapacityAssumption DEF RequiredSpace
<1> HIDE DEF k
<1>3. CASE RequiredSpace(size) > 0
  <2>1. n = NumObjectsToEvict(k)
    BY <1>3 DEF RequireSpaceEvicts, k
  <2>2. /\ n \in 0..Len(released_objects)
        /\ Bytes(Prefix(n)) >= k \/ n = Len(released_objects)
    BY <1>1, <2>1, NumObjectsToEvictPrefix
  <2>3. Bytes(Prefix(n)) \in Nat
    BY <2>2, PrefixElements, BytesNat
  <2> HIDE DEF n
  <2> QED BY <1>1, <1>2, <2>2, <2>3, CapacityAssumption
          DEF RequireSpaceSucceeds, RequiredSpace, n
<1>4. CASE ~(RequiredSpace(size) > 0)
  <2>1. n = 0
    BY <1>4 DEF RequireSpaceEvicts
  <2>2. Bytes(Prefix(n)) = 0
    <3>1. Prefix(0) = {}
      BY DEF Prefix
    <3> HIDE DEF n
    <3> QED BY Zenon, <2>1, <3>1, BytesNothing
  <2> HIDE DEF n
  <2> QED BY <1>2, <1>4, <2>1, <2>2, CapacityAssumption
          DEF RequireSpaceSucceeds, RequiredSpace, n
<1> QED BY <1>3, <1>4
=============================================================================
