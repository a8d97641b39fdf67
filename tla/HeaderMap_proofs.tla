-------------------------- MODULE HeaderMap_proofs -------------------------
(***************************************************************************)
(* What header maps are after a journey through bytes, for maps of any     *)
(* size.  to_vec enumerates the labels of a map in increasing order; that  *)
(* there is exactly one such enumeration is an induction over finite sets, *)
(* made here by looking at a smallest set without one.                     *)
(***************************************************************************)
EXTENDS HeaderMap, FiniteSetTheorems, TLAPS

\* A non-empty collection of finite sets of integers has a minimal member.
LEMMA MinimalSet ==
    ASSUME NEW C, C # {}, \A S \in C : IsFiniteSet(S) /\ S \subseteq Int
    PROVE  \E S \in C : \A T \in C : T \subseteq S => T = S
<1>1. C \subseteq FiniteSubsetsOf(Int)
  BY DEF FiniteSubsetsOf
<1>2. PICK S \in C : \A T \in C : <<T, S>> \notin StrictSubsetOrdering(Int)
  BY <1>1, FS_StrictSubsetOrderingWellFounded, WFMin
<1>3. ASSUME NEW T \in C, T \subseteq S, T # S PROVE FALSE
  <2>1. <<T, S>> \in (SUBSET Int) \X (SUBSET Int)
    OBVIOUS
  <2>2. <<T, S>> \in StrictSubsetOrdering(Int)
    BY <1>3, <2>1 DEF StrictSubsetOrdering
  <2>3. QED BY <1>2, <2>2
<1>4. QED BY <1>2, <1>3

HasGreatest(S) == \E m \in S : \A x \in S : x <= m

\* A finite set of integers that is not empty has a greatest element.
LEMMA Greatest ==
    ASSUME NEW S \in SUBSET Int, IsFiniteSet(S), S # {}
    PROVE  HasGreatest(S)
<1> DEFINE C == {T \in SUBSET S : T # {} /\ ~HasGreatest(T)}
<1> SUFFICES ASSUME C # {} PROVE FALSE
  OBVIOUS
<1>1. \A T \in C : IsFiniteSet(T) /\ T \subseteq Int
  BY FS_Subset
<1>2. PICK T \in C : \A U \in C : U \subseteq T => U = T
  <2> HIDE DEF C
  <2>1. QED BY <1>1, MinimalSet
<1>3. PICK x \in T : TRUE
  OBVIOUS
<1>4. T \subseteq Int /\ x \in Int
  BY <1>1
<1>5. T \ {x} \notin C
  BY <1>2, <1>3
<1>6. CASE T \ {x} = {}
  BY <1>3, <1>4, <1>6 DEF HasGreatest
<1>7. CASE T \ {x} # {}
  <2>1. PICK m \in T \ {x} : \A y \in T \ {x} : y <= m
    BY <1>5, <1>7 DEF HasGreatest
  <2>2. CASE x <= m
    BY <2>1, <2>2 DEF HasGreatest
  <2>3. CASE ~(x <= m)
    <3>1. \A y \in T : y <= x
      BY <1>4, <2>1, <2>3
    <3>2. QED BY <1>3, <3>1 DEF HasGreatest
  <2>4. QED BY <2>2, <2>3
<1>8. QED BY <1>6, <1>7

Enumerates(s, S) ==
    s \in [1..Cardinality(S) -> S] /\ \A i, j \in DOMAIN s : i < j => s[i] < s[j]

\* An enumeration is prolonged by an element beyond all others.
LEMMA Prolonged ==
    ASSUME NEW S \in SUBSET Int, IsFiniteSet(S), NEW m \in Int, m \notin S,
           \A x \in S : x <= m, NEW s, Enumerates(s, S)
    PROVE  \E t : Enumerates(t, S \cup {m})
<1> DEFINE n == Cardinality(S)
           t == [i \in 1..(n + 1) |-> IF i = n + 1 THEN m ELSE s[i]]
<1>1. n \in Nat /\ Cardinality(S \cup {m}) = n + 1
  BY FS_CardinalityType, FS_AddElement
<1>2. s \in [1..n -> S] /\ \A i, j \in 1..n : i < j => s[i] < s[j]
  BY DEF Enumerates
<1> HIDE DEF n
<1>3. t \in [1..(n + 1) -> S \cup {m}]
  BY <1>1, <1>2
<1>4. ASSUME NEW i \in 1..(n + 1), NEW j \in 1..(n + 1), i < j PROVE t[i] < t[j]
  <2>1. i \in 1..n /\ t[i] = s[i] /\ s[i] \in S
    BY <1>1, <1>2, <1>4
  <2>2. CASE j = n + 1
    <3>1. t[j] = m /\ s[i] <= m /\ s[i] # m /\ s[i] \in Int
      BY <2>1, <2>2
    <3>2. QED BY <2>1, <3>1
  <2>3. CASE j # n + 1
    BY <1>1, <1>2, <1>4, <2>1, <2>3
  <2>4. QED BY <2>2, <2>3
<1>5. QED BY <1>1, <1>3, <1>4 DEF Enumerates

\* Every finite set of integers has an increasing enumeration.
LEMMA Enumerable ==
    ASSUME NEW S \in SUBSET Int, IsFiniteSet(S)
    PROVE  \E s : Enumerates(s, S)
<1> DEFINE C == {T \in SUBSET S : ~ \E s : Enumerates(s, T)}
<1> SUFFICES ASSUME C # {} PROVE FALSE
  OBVIOUS
<1>1. \A T \in C : IsFiniteSet(T) /\ T \subseteq Int
  BY FS_Subset
<1>2. PICK T \in C : \A U \in C : U \subseteq T => U = T
  <2> HIDE DEF C
  <2>1. QED BY <1>1, MinimalSet
<1>3. CASE T = {}
  <2> DEFINE s == [i \in 1..0 |-> 0]
  <2>1. Cardinality({}) = 0
    BY FS_EmptySet
  <2>2. s \in [1..0 -> {}] /\ DOMAIN s = {}
    OBVIOUS
  <2>3. Enumerates(s, {})
    BY <2>1, <2>2 DEF Enumerates
  <2>4. QED BY <1>3, <2>3
<1>4. CASE T # {}
  <2>1. PICK m \in T : \A x \in T : x <= m
    BY <1>1, <1>4, Greatest DEF HasGreatest
  <2> DEFINE U == T \ {m}
  <2>2. IsFiniteSet(U) /\ U \subseteq Int /\ m \in Int
    BY <1>1, FS_RemoveElement
  <2>3. PICK s : Enumerates(s, U)
    BY <1>2, <2>1
  <2>4. \E t : Enumerates(t, U \cup {m})
    BY <2>1, <2>2, <2>3, Prolonged
  <2>5. U \cup {m} = T
    OBVIOUS
  <2>6. QED BY <2>4, <2>5
<1>5. QED BY <1>3, <1>4

\* Increasing(S) lists every element of S, and none twice.
LEMMA IncreasingLists ==
    ASSUME NEW S \in SUBSET Int, IsFiniteSet(S)
    PROVE  LET s == Increasing(S)
           IN  /\ s \in [1..Cardinality(S) -> S]
               /\ Cardinality(S) \in Nat
               /\ \A i, j \in DOMAIN s : s[i] = s[j] => i = j
               /\ \A l \in S : \E i \in DOMAIN s : s[i] = l
<1> DEFINE n == Cardinality(S)
           s == Increasing(S)
<1>1. n \in Nat
  BY FS_CardinalityType
<1>2. s \in [1..n -> S] /\ \A i, j \in DOMAIN s : i < j => s[i] < s[j]
  <2>1. \E q \in [1..n -> S] : \A i, j \in DOMAIN q : i < j => q[i] < q[j]
    BY Enumerable DEF Enumerates
  <2>2. QED BY <2>1 DEF Increasing
<1> HIDE DEF s, n
<1>3. ASSUME NEW i \in 1..n, NEW j \in 1..n, s[i] = s[j] PROVE i = j
  <2>1. s[i] \in Int
    BY <1>2
  <2>2. CASE i < j
    BY <1>2, <1>3, <2>1, <2>2
  <2>3. CASE j < i
    BY <1>2, <1>3, <2>1, <2>3
  <2>4. QED BY <1>1, <2>2, <2>3
<1>4. s \in Injection(1..n, S)
  BY <1>2, <1>3 DEF Injection, IsInjective
<1>5. Cardinality(1..n) = n
  BY <1>1, FS_Interval
<1>6. s \in Surjection(1..n, S)
  BY <1>4, <1>5, FS_Injection DEF n
<1>7. \A l \in S : \E i \in 1..n : s[i] = l
  BY <1>6 DEF Surjection
<1>8. DOMAIN s = 1..n
  BY <1>2
<1>9. QED BY <1>1, <1>2, <1>3, <1>7, <1>8 DEF s, n

(***************************************************************************)
(* From a map to bytes and back.                                           *)
(***************************************************************************)

\* The entries that to_vec writes: one for each label of the map.
LEMMA EncodedEntries ==
    ASSUME NEW map, IsHeaderMap(map)
    PROVE  LET bytes == to_vec(map)
               es    == bytes.entries
           IN  /\ bytes = EncodedMap(es) /\ bytes.form = "map"
               /\ \E n \in Nat : DOMAIN es = 1..n
               /\ es = [i \in DOMAIN es |-> es[i]]
               /\ \A i \in DOMAIN es : /\ es[i][1] \in DOMAIN map
                                       /\ es[i] = <<es[i][1], map[es[i][1]]>>
               /\ \A i, j \in DOMAIN es : es[i][1] = es[j][1] => i = j
               /\ \A l \in DOMAIN map : \E i \in DOMAIN es : es[i][1] = l
<1> DEFINE keys == Increasing(DOMAIN map)
           n    == Cardinality(DOMAIN map)
           es   == [i \in DOMAIN keys |-> <<keys[i], map[keys[i]]>>]
<1>1. /\ keys \in [1..n -> DOMAIN map] /\ n \in Nat
      /\ \A i, j \in DOMAIN keys : keys[i] = keys[j] => i = j
      /\ \A l \in DOMAIN map : \E i \in DOMAIN keys : keys[i] = l
  BY IncreasingLists DEF IsHeaderMap
<1>2. to_vec(map) = EncodedMap(es)
  BY DEF to_vec
<1>3. to_vec(map).entries = es /\ to_vec(map).form = "map"
  BY <1>2 DEF EncodedMap, Encoded
<1> HIDE DEF keys, n
<1>4. DOMAIN es = 1..n /\ DOMAIN keys = 1..n
  BY <1>1
<1>5. \A i \in DOMAIN es : es[i] = <<keys[i], map[keys[i]]>> /\ es[i][1] = keys[i]
  OBVIOUS
<1> HIDE DEF es
<1>6. es = [i \in DOMAIN es |-> es[i]]
  BY DEF es
<1>7. QED BY <1>1, <1>2, <1>3, <1>4, <1>5, <1>6

\* HeaderMap::from_bytes takes what to_vec wrote and gives back the very map:
\* no label is lost, doubled or exchanged, whatever the map holds.
THEOREM DecodesEncoded ==
    \A map : IsHeaderMap(map) => Parses(to_vec(map)) /\ from_bytes(to_vec(map)) = map
<1> SUFFICES ASSUME NEW map, IsHeaderMap(map)
             PROVE  Parses(to_vec(map)) /\ from_bytes(to_vec(map)) = map
  OBVIOUS
<1> DEFINE bytes == to_vec(map)
           es    == bytes.entries
<1>1. /\ bytes.form = "map"
      /\ \A i \in DOMAIN es : es[i][1] \in DOMAIN map /\ es[i] = <<es[i][1], map[es[i][1]]>>
      /\ \A i, j \in DOMAIN es : es[i][1] = es[j][1] => i = j
      /\ \A l \in DOMAIN map : \E i \in DOMAIN es : es[i][1] = l
  BY EncodedEntries
<1> HIDE DEF bytes
<1>2. Parses(bytes)
  BY <1>1 DEF Parses
<1>3. Labels(bytes) = DOMAIN map
  BY <1>1 DEF Labels
<1>4. ASSUME NEW l \in DOMAIN map
      PROVE  (CHOOSE e \in Range(es) : e[1] = l)[2] = map[l]
  <2>1. PICK i \in DOMAIN es : es[i][1] = l
    BY <1>1
  <2>2. es[i] \in Range(es) /\ es[i][1] = l
    BY <2>1 DEF Range
  <2>3. \A e \in Range(es) : e[1] = l => e = <<l, map[l]>>
    BY <1>1 DEF Range
  <2>4. QED BY <2>2, <2>3
<1>5. from_bytes(bytes) = [l \in DOMAIN map |-> map[l]]
  BY <1>3, <1>4 DEF from_bytes
<1>6. map = [l \in DOMAIN map |-> map[l]]
  BY DEF IsHeaderMap
<1>7. QED BY <1>2, <1>5, <1>6 DEF bytes

\* What to_vec writes is bytes, if every value can be encoded.
LEMMA EncodedIsEncoded ==
    ASSUME NEW map, IsHeaderMap(map), Serializable(map)
    PROVE  IsEncoded(to_vec(map))
<1> DEFINE bytes == to_vec(map)
           es    == bytes.entries
<1>1. /\ bytes = EncodedMap(es) /\ bytes.form = "map"
      /\ es = [i \in DOMAIN es |-> es[i]]
      /\ \A i \in DOMAIN es : es[i][1] \in DOMAIN map /\ es[i] = <<es[i][1], map[es[i][1]]>>
  BY EncodedEntries
<1>2. PICK n \in Nat : DOMAIN es = 1..n
  BY EncodedEntries
<1> HIDE DEF bytes
<1>3. \A l \in DOMAIN map : l \in Int /\ map[l] \in Encodable
  BY DEF IsHeaderMap, Serializable, CborValue, Encodable
<1>4. ASSUME NEW i \in 1..n PROVE es[i] \in Int \X Encodable
  <2>1. /\ es[i][1] \in Int /\ map[es[i][1]] \in Encodable
        /\ es[i] = <<es[i][1], map[es[i][1]]>>
    BY <1>1, <1>2, <1>3
  <2>2. \A a \in Int, b \in Encodable : <<a, b>> \in Int \X Encodable
    OBVIOUS
  <2>3. QED BY <2>1, <2>2
<1>5. es \in [1..n -> Int \X Encodable]
  BY <1>1, <1>2, <1>4
<1>6. es \in Seq(Int \X Encodable)
  BY <1>2, <1>5
<1>7. IsEncoded(bytes)
  BY <1>1, <1>6 DEF IsEncoded, EncodedMap
<1>8. QED BY <1>7 DEF bytes

\* What from_bytes makes of bytes is a header map that can be encoded again.
LEMMA DecodedIsMap ==
    ASSUME NEW bytes, IsEncoded(bytes), Parses(bytes)
    PROVE  IsHeaderMap(from_bytes(bytes)) /\ Serializable(from_bytes(bytes))
<1> DEFINE es == bytes.entries
           n  == Len(es)
           label == [i \in 1..n |-> es[i][1]]
<1>1. es \in Seq(Int \X Encodable) /\ n \in Nat /\ DOMAIN es = 1..n
  BY DEF IsEncoded
<1>2. \A i \in 1..n : es[i] \in Int \X Encodable
  BY <1>1
<1>3. Labels(bytes) \subseteq Int
  BY <1>1, <1>2 DEF Labels
<1>4. IsFiniteSet(Labels(bytes))
  <2>1. label \in Surjection(1..n, Labels(bytes))
    BY <1>1 DEF Surjection, Labels
  <2>2. IsFiniteSet(1..n)
    BY <1>1, FS_Interval
  <2>3. QED BY <2>1, <2>2, FS_Surjection
<1>5. ASSUME NEW l \in Labels(bytes)
      PROVE  (CHOOSE e \in Range(es) : e[1] = l)[2] \in Encodable
  <2>1. PICK i \in DOMAIN es : es[i][1] = l
    BY DEF Labels
  <2>2. \E e \in Range(es) : e[1] = l
    BY <2>1 DEF Range
  <2>3. \A e \in Range(es) : e[2] \in Encodable
    BY <1>1, <1>2 DEF Range
  <2>4. QED BY <2>2, <2>3
<1>6. from_bytes(bytes) \in [Labels(bytes) -> Encodable]
  BY <1>5 DEF from_bytes
<1>7. \A v \in Encodable : v \in CborValue /\ v.kind # "Wide"
  BY DEF Encodable, CborValue
<1>8. QED BY <1>3, <1>4, <1>6, <1>7 DEF IsHeaderMap, Serializable

\* A header map of one entry.
LEMMA SingletonMap ==
    ASSUME NEW l \in Int, NEW v \in Encodable
    PROVE  /\ IsHeaderMap(insert(EmptyMap, l, v)) /\ Serializable(insert(EmptyMap, l, v))
           /\ insert(EmptyMap, l, v) = [x \in {l} |-> v] /\ ~is_empty(insert(EmptyMap, l, v))
<1>1. insert(EmptyMap, l, v) = [x \in {l} |-> v]
  BY DEF insert, EmptyMap
<1>2. IsFiniteSet({l})
  BY FS_Singleton
<1>3. v \in CborValue /\ v.kind # "Wide"
  BY DEF Encodable, CborValue
<1>4. QED BY <1>1, <1>2, <1>3 DEF IsHeaderMap, Serializable, is_empty

\* The protected header of a map that is not empty carries it.
LEMMA ProtectedHeader ==
    ASSUME NEW map, IsHeaderMap(map), ~is_empty(map)
    PROVE  LET bytes == map_to_empty_or_serialized(map)
           IN  Parses(bytes) /\ from_bytes(bytes) = map
  BY DecodesEncoded DEF map_to_empty_or_serialized

\* A protected header is bytes, the zero-length string included.
LEMMA ProtectedIsEncoded ==
    ASSUME NEW map, IsHeaderMap(map), Serializable(map)
    PROVE  IsEncoded(map_to_empty_or_serialized(map))
<1>1. IsEncoded(ZeroLength)
  BY DEF IsEncoded, ZeroLength, Encoded
<1>2. QED BY <1>1, EncodedIsEncoded DEF map_to_empty_or_serialized
============================================================================
