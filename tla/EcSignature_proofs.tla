------------------------- MODULE EcSignature_proofs ------------------------
(***************************************************************************)
(* Proofs about EcSignature, for any factors below the order of the curve. *)
(***************************************************************************)
EXTENDS EcSignature, TLAPS

\* The length of a half is the number of bytes of the curve's order.
LEMMA HalfLength ==
    ASSUME NEW a \in SignatureAlgorithm
    PROVE  key_length[a] \in Nat \ {0} /\ OrderBytes[a] = key_length[a]
  BY DEF SignatureAlgorithm, key_length, OrderBytes, OrderBits

LEMMA FactorType ==
    ASSUME NEW a \in SignatureAlgorithm, NEW f \in Factors[a]
    PROVE  f \in Seq(Byte) /\ Len(f) \in Nat /\ Len(f) <= key_length[a]
<1>1. f \in Seq(Byte) /\ Len(f) <= OrderBytes[a]
  BY FactorsAssumption
<1>2. QED BY <1>1, HalfLength

LEMMA ByteAt ==
    ASSUME NEW f \in Seq(Byte), NEW i \in 1 .. Len(f)
    PROVE  f[i] \in Byte
  OBVIOUS

\* A function on 1 .. n into the bytes is a byte string of length n.
LEMMA ByteString ==
    ASSUME NEW n \in Nat, NEW f \in [1 .. n -> Byte]
    PROVE  f \in Seq(Byte) /\ Len(f) = n
  OBVIOUS

LEMMA MergedType ==
    ASSUME NEW n \in Nat, NEW r \in Seq(Byte), NEW s \in Seq(Byte),
           Len(r) <= n, Len(s) <= n
    PROVE  /\ merge_ec_signature(r, s, n) \in Seq(Byte)
           /\ Len(merge_ec_signature(r, s, n)) = 2 * n
<1> DEFINE m == merge_ec_signature(r, s, n)
<1>1. Len(r) \in Nat /\ Len(s) \in Nat /\ 2 * n \in Nat
  OBVIOUS
<1>2. ASSUME NEW i \in 1 .. 2 * n PROVE m[i] \in Byte
  <2>1. CASE i > n - Len(r) /\ i <= n
    <3>1. i - (n - Len(r)) \in 1 .. Len(r)
      BY <1>1, <2>1
    <3>2. m[i] = r[i - (n - Len(r))]
      BY <1>2, <2>1 DEF merge_ec_signature
    <3>3. QED BY <3>1, <3>2, ByteAt
  <2>2. CASE ~(i > n - Len(r) /\ i <= n) /\ i > 2 * n - Len(s)
    <3>1. i - (2 * n - Len(s)) \in 1 .. Len(s)
      BY <1>1, <2>2
    <3>2. m[i] = s[i - (2 * n - Len(s))]
      BY <1>2, <2>2 DEF merge_ec_signature
    <3>3. QED BY <3>1, <3>2, ByteAt
  <2>3. CASE ~(i > n - Len(r) /\ i <= n) /\ ~(i > 2 * n - Len(s))
    BY <1>2, <2>3 DEF merge_ec_signature, Byte
  <2>4. QED BY <2>1, <2>2, <2>3
<1>3. m = [i \in 1 .. 2 * n |-> m[i]]
  BY DEF merge_ec_signature
<1> HIDE DEF m
<1>4. m \in [1 .. 2 * n -> Byte]
  BY <1>2, <1>3
<1>5. m \in Seq(Byte) /\ Len(m) = 2 * n
  BY <1>1, <1>4, ByteString
<1>6. QED BY <1>5 DEF m

\* The first n bytes of a merged signature are the number R.
LEMMA FirstFactor ==
    ASSUME NEW n \in Nat, NEW r \in Seq(Byte), NEW s \in Seq(Byte),
           Len(r) <= n, Len(s) <= n,
           NEW b \in Seq(Byte), Len(b) >= n,
           \A i \in 1 .. n : b[i] = merge_ec_signature(r, s, n)[i]
    PROVE  SameNumber(FirstHalf(b, n), r)
<1> DEFINE h == FirstHalf(b, n)
<1>1. h \in Seq(Byte) /\ Len(h) = n /\ Len(r) \in Nat
  <2>1. ASSUME NEW i \in 1 .. n PROVE b[i] \in Byte
    BY ByteAt
  <2>2. h \in [1 .. n -> Byte]
    BY <2>1 DEF FirstHalf
  <2> HIDE DEF h
  <2>3. h \in Seq(Byte) /\ Len(h) = n
    BY ONLY <2>2, n \in Nat, ByteString
  <2>4. QED BY <2>3
<1>2. ASSUME NEW i \in 1 .. n
      PROVE  h[i] = IF i > n - Len(r) THEN r[i - (n - Len(r))] ELSE 0
  <2>1. h[i] = merge_ec_signature(r, s, n)[i]
    BY <1>2 DEF FirstHalf
  <2>2. i \in 1 .. 2 * n /\ ~(i > 2 * n - Len(s))
    BY <1>2
  <2>3. QED BY <2>1, <2>2, <1>2 DEF merge_ec_signature
<1> HIDE DEF h
<1>3. ASSUME NEW i \in 1 .. Len(h) + Len(r) PROVE Digit(h, i) = Digit(r, i)
  <2>1. i \in Nat /\ i >= 1
    BY <1>1, <1>3
  <2>2. CASE i <= Len(r)
    <3>1. n + 1 - i \in 1 .. n /\ n + 1 - i > n - Len(r)
      BY <1>1, <2>1, <2>2
    <3>2. (n + 1 - i) - (n - Len(r)) = Len(r) + 1 - i
      BY <1>1, <2>1
    <3>3. QED BY <1>1, <1>2, <2>1, <2>2, <3>1, <3>2 DEF Digit
  <2>3. CASE ~(i <= Len(r)) /\ i <= n
    <3>1. n + 1 - i \in 1 .. n /\ ~(n + 1 - i > n - Len(r))
      BY <1>1, <2>1, <2>3
    <3>2. QED BY <1>1, <1>2, <2>1, <2>3, <3>1 DEF Digit
  <2>4. CASE ~(i <= Len(r)) /\ ~(i <= n)
    BY <1>1, <2>4 DEF Digit
  <2>5. QED BY <2>2, <2>3, <2>4
<1>4. QED BY <1>3 DEF SameNumber, h

\* The bytes after the first n of a merged signature are the number S.
LEMMA SecondFactor ==
    ASSUME NEW n \in Nat, NEW r \in Seq(Byte), NEW s \in Seq(Byte),
           Len(r) <= n, Len(s) <= n
    PROVE  SameNumber(SecondHalf(merge_ec_signature(r, s, n), n), s)
<1> DEFINE m == merge_ec_signature(r, s, n)
           h == SecondHalf(m, n)
<1>1. m \in Seq(Byte) /\ Len(m) = 2 * n
  BY MergedType
<1>2. h \in Seq(Byte) /\ Len(h) = n /\ Len(s) \in Nat
  <2>1. Len(m) - n = n
    BY <1>1
  <2>2. ASSUME NEW i \in 1 .. n PROVE m[n + i] \in Byte
    BY <1>1, ByteAt
  <2>3. h \in [1 .. n -> Byte]
    BY <2>1, <2>2 DEF SecondHalf
  <2> HIDE DEF h
  <2>4. h \in Seq(Byte) /\ Len(h) = n
    BY ONLY <2>3, n \in Nat, ByteString
  <2>5. QED BY <2>4
<1>3. ASSUME NEW i \in 1 .. n
      PROVE  h[i] = IF i > n - Len(s) THEN s[i - (n - Len(s))] ELSE 0
  <2>1. h[i] = m[n + i]
    BY <1>1, <1>3 DEF SecondHalf
  <2>2. n + i \in 1 .. 2 * n /\ ~(n + i <= n)
    BY <1>3
  <2>3. m[n + i] = IF n + i > 2 * n - Len(s) THEN s[n + i - (2 * n - Len(s))] ELSE 0
    BY <2>2 DEF merge_ec_signature
  <2>4. /\ n + i > 2 * n - Len(s) <=> i > n - Len(s)
        /\ n + i - (2 * n - Len(s)) = i - (n - Len(s))
    BY <1>2, <1>3
  <2>5. QED BY <2>1, <2>3, <2>4
<1> HIDE DEF m, h
<1>4. ASSUME NEW i \in 1 .. Len(h) + Len(s) PROVE Digit(h, i) = Digit(s, i)
  <2>1. i \in Nat /\ i >= 1
    BY <1>2, <1>4
  <2>2. CASE i <= Len(s)
    <3>1. n + 1 - i \in 1 .. n /\ n + 1 - i > n - Len(s)
      BY <1>2, <2>1, <2>2
    <3>2. (n + 1 - i) - (n - Len(s)) = Len(s) + 1 - i
      BY <1>2, <2>1
    <3>3. QED BY <1>2, <1>3, <2>1, <2>2, <3>1, <3>2 DEF Digit
  <2>3. CASE ~(i <= Len(s)) /\ i <= n
    <3>1. n + 1 - i \in 1 .. n /\ ~(n + 1 - i > n - Len(s))
      BY <1>2, <2>1, <2>3
    <3>2. QED BY <1>2, <1>3, <2>1, <2>3, <3>1 DEF Digit
  <2>4. CASE ~(i <= Len(s)) /\ ~(i <= n)
    BY <1>2, <2>4 DEF Digit
  <2>5. QED BY <2>2, <2>3, <2>4
<1>5. QED BY <1>4 DEF SameNumber, h, m

(***************************************************************************)
(* The inductive invariant: the bytes are a beginning of the merge of the  *)
(* factors, all of it unless they were cut, and what verify() read is the  *)
(* two parts of them.                                                      *)
(***************************************************************************)
Merged == merge_ec_signature(factors[1], factors[2], key_length[alg])

Layout ==
    /\ factors = << >> => bytes = << >> /\ outcome = "none"
    /\ factors # << >> =>
          /\ \A i \in 1 .. Len(bytes) : bytes[i] = Merged[i]
          /\ ~cut => bytes = Merged
    /\ outcome = "read" =>
          /\ Len(bytes) >= key_length[alg]
          /\ read = <<FirstHalf(bytes, key_length[alg]), SecondHalf(bytes, key_length[alg])>>
    /\ outcome = "panic" => cut /\ Len(bytes) < key_length[alg]

Inv == TypeOK /\ Layout

LEMMA InvInit == Init => Inv
<1> SUFFICES ASSUME Init PROVE Inv
  OBVIOUS
<1>1. TypeOK
  <2>1. << >> \in Seq(Byte)
    OBVIOUS
  <2>2. QED BY <2>1 DEF Init, TypeOK
<1>2. Layout
  BY DEF Init, Layout
<1>3. QED BY <1>1, <1>2 DEF Inv

LEMMA InvMerge ==
    ASSUME Inv, NEW r \in Factors[alg], NEW s \in Factors[alg], Merge(r, s)
    PROVE  Inv'
<1> DEFINE n == key_length[alg]
<1>1. alg \in SignatureAlgorithm /\ alg' = alg
  BY DEF Inv, TypeOK, Merge
<1>2. n \in Nat /\ r \in Seq(Byte) /\ s \in Seq(Byte) /\ Len(r) <= n /\ Len(s) <= n
  BY <1>1, HalfLength, FactorType
<1>3. /\ factors' = <<r, s>> /\ cut' = FALSE
      /\ bytes' = merge_ec_signature(r, s, n) /\ outcome' = "signed"
  <2>1. ~(Len(r) > n \/ Len(s) > n)
    BY <1>2
  <2>2. QED BY <2>1 DEF Merge
<1>4. bytes' \in Seq(Byte) /\ Len(bytes') = 2 * n
  BY <1>2, <1>3, MergedType
<1>5. TypeOK'
  BY <1>1, <1>3, <1>4 DEF TypeOK
<1>6. Merged' = bytes'
  BY <1>1, <1>3 DEF Merged
<1>7. Layout'
  BY <1>1, <1>3, <1>6 DEF Layout
<1>8. QED BY <1>5, <1>7 DEF Inv

LEMMA InvCut ==
    ASSUME Inv, NEW n \in Cuts, CutShort(n)
    PROVE  Inv'
<1>1. /\ n \in Nat /\ bytes \in Seq(Byte) /\ Len(bytes) \in Nat /\ n < Len(bytes)
      /\ bytes' = [i \in 1 .. n |-> bytes[i]]
      /\ cut' = TRUE /\ outcome' = "none" /\ alg' = alg /\ factors' = factors
  BY CutsAssumption DEF Inv, TypeOK, CutShort
<1>2. bytes' \in Seq(Byte) /\ Len(bytes') = n
  <2>1. ASSUME NEW i \in 1 .. n PROVE bytes[i] \in Byte
    BY <1>1, ByteAt
  <2>2. bytes' \in [1 .. n -> Byte]
    BY <1>1, <2>1
  <2>3. QED BY <1>1, <2>2, ByteString
<1>3. TypeOK'
  BY <1>1, <1>2 DEF Inv, TypeOK
<1>4. factors # << >> /\ Merged' = Merged
  <2>1. bytes # << >>
    BY <1>1
  <2>2. QED BY <1>1, <2>1 DEF Inv, Layout, Merged
<1>5. ASSUME NEW i \in 1 .. n PROVE bytes'[i] = Merged[i]
  <2>1. i \in 1 .. Len(bytes) /\ bytes'[i] = bytes[i]
    BY <1>1
  <2>2. QED BY <1>4, <2>1 DEF Inv, Layout
<1>6. Layout'
  BY <1>1, <1>2, <1>4, <1>5 DEF Layout
<1>7. QED BY <1>3, <1>6 DEF Inv

LEMMA InvVerify == Inv /\ Verify => Inv'
<1> SUFFICES ASSUME Inv, Verify PROVE Inv'
  OBVIOUS
<1> DEFINE n == key_length[alg]
<1>1. n \in Nat /\ bytes \in Seq(Byte) /\ alg \in SignatureAlgorithm
  BY HalfLength DEF Inv, TypeOK
<1>2. /\ factors # << >> /\ UNCHANGED <<alg, factors, bytes, cut>>
      /\ \/ /\ Len(bytes) >= n
            /\ read' = <<FirstHalf(bytes, n), SecondHalf(bytes, n)>>
            /\ outcome' = "read"
         \/ Len(bytes) < n /\ outcome' = "panic"
  BY DEF Verify
<1>3. TypeOK'
  BY <1>2 DEF Inv, TypeOK
<1>4. Merged' = Merged
  BY <1>2 DEF Merged
<1>5. Len(bytes) < n => cut
  <2>1. SUFFICES ASSUME ~cut PROVE Len(bytes) >= n
    BY <1>1 DEF Inv, TypeOK
  <2>2. bytes = Merged
    BY <1>2, <2>1 DEF Inv, Layout
  <2>3. /\ factors[1] \in Seq(Byte) /\ Len(factors[1]) <= n
        /\ factors[2] \in Seq(Byte) /\ Len(factors[2]) <= n
    BY <1>1, <1>2, FactorType DEF Inv, TypeOK
  <2>4. Len(bytes) = 2 * n
    BY <1>1, <2>2, <2>3, MergedType DEF Merged
  <2>5. QED BY <1>1, <2>4
<1>6. Layout'
  BY <1>2, <1>4, <1>5 DEF Inv, Layout
<1>7. QED BY <1>3, <1>6 DEF Inv

LEMMA InvNext == Inv /\ [Next]_vars => Inv'
<1> SUFFICES ASSUME Inv, [Next]_vars PROVE Inv'
  OBVIOUS
<1>1. ASSUME NEW r \in Factors[alg], NEW s \in Factors[alg], Merge(r, s) PROVE Inv'
  BY <1>1, InvMerge
<1>2. ASSUME NEW n \in Cuts, CutShort(n) PROVE Inv'
  BY <1>2, InvCut
<1>3. ASSUME Verify PROVE Inv'
  BY <1>3, InvVerify
<1>4. ASSUME UNCHANGED vars PROVE Inv'
  BY <1>4 DEF vars, Inv, TypeOK, Layout, Merged
<1>5. QED BY <1>1, <1>2, <1>3, <1>4 DEF Next, PKeySign, KmsSign, TpmSign

LEMMA InvImplies == Inv => NumbersKept /\ PanicsOnlyOnCut
<1> SUFFICES ASSUME Inv PROVE NumbersKept /\ PanicsOnlyOnCut
  OBVIOUS
<1> DEFINE n == key_length[alg]
<1>1. n \in Nat /\ OrderBytes[alg] = n /\ bytes \in Seq(Byte)
  BY HalfLength DEF Inv, TypeOK
<1>2. PanicsOnlyOnCut
  BY <1>1 DEF Inv, Layout, PanicsOnlyOnCut
<1>3. ASSUME outcome = "read"
      PROVE  SameNumber(read[1], factors[1]) /\ (cut \/ SameNumber(read[2], factors[2]))
  <2>1. factors # << >> /\ Len(bytes) >= n
    BY <1>3 DEF Inv, Layout
  <2>2. /\ factors[1] \in Seq(Byte) /\ Len(factors[1]) <= n
        /\ factors[2] \in Seq(Byte) /\ Len(factors[2]) <= n
    BY <2>1, FactorType DEF Inv, TypeOK
  <2>3. read[1] = FirstHalf(bytes, n) /\ read[2] = SecondHalf(bytes, n)
    BY <1>3 DEF Inv, Layout
  <2>4. \A i \in 1 .. n : bytes[i] = Merged[i]
    BY <1>1, <2>1 DEF Inv, Layout
  <2>5. SameNumber(read[1], factors[1])
    <3>1. \A i \in 1 .. n : bytes[i] = merge_ec_signature(factors[1], factors[2], n)[i]
      BY <2>4 DEF Merged
    <3>2. SameNumber(FirstHalf(bytes, n), factors[1])
      <4> HIDE DEF n
      <4>1. QED BY <1>1, <2>1, <2>2, <3>1, FirstFactor
    <3>3. QED BY <2>3, <3>2
  <2>6. ~cut => SameNumber(read[2], factors[2])
    <3>1. ~cut => bytes = Merged
      BY <2>1 DEF Inv, Layout
    <3>2. QED BY <1>1, <2>2, <2>3, <3>1, SecondFactor DEF Merged
  <2>7. cut \in BOOLEAN
    BY DEF Inv, TypeOK
  <2>8. QED BY <2>5, <2>6, <2>7
<1>4. QED BY <1>2, <1>3 DEF NumbersKept

\* sign() returns a signature of exactly twice key_length on every curve, and
\* what is read of it are byte strings.
THEOREM TypeCorrect == Spec => []TypeOK
<1>1. Inv => TypeOK
  BY DEF Inv
<1>2. QED BY InvInit, InvNext, <1>1, PTL DEF Spec

\* Whatever factors below the order of the curve the ECDSA implementation
\* returns, verify() reads the numbers that sign() was given.
THEOREM FactorsSurvive == Spec => []NumbersKept
<1>1. QED BY InvInit, InvNext, InvImplies, PTL DEF Spec

\* key_length is large enough on every curve: the assertions of sign() never
\* fire, and verify() panics only on a signature that lost part of R.
THEOREM NoOtherPanic == Spec => []PanicsOnlyOnCut
<1>1. QED BY InvInit, InvNext, InvImplies, PTL DEF Spec
============================================================================
