------------------------ MODULE CoseEncrypt0_proofs ------------------------
(***************************************************************************)
(* Proofs about CoseEncrypt0, for all values of its constants.             *)
(***************************************************************************)
EXTENDS CoseEncrypt0, HeaderMap_proofs

(***************************************************************************)
(* Facts about encryptions.                                                *)
(***************************************************************************)

\* The algorithm of a key is one from_value knows, its cipher takes the key,
\* and the cast in decrypt() leaves its number alone.
LEMMA KeyAlgorithm ==
    ASSUME NEW n, SupportedLength(n)
    PROVE  LET alg == AlgOfKeyLength[n]
           IN  /\ alg \in CoseAlgorithm /\ CipherKeyLength[alg] = n
               /\ alg \in Int /\ AsI8(alg) = alg
<1>1. n \in {16, 24, 32}
  BY DEF SupportedLength, AlgOfKeyLength
<1>2. CASE n = 16
  BY <1>2 DEF AlgOfKeyLength, CoseAlgorithm, CipherKeyLength, AsI8
<1>3. CASE n = 24
  BY <1>3 DEF AlgOfKeyLength, CoseAlgorithm, CipherKeyLength, AsI8
<1>4. CASE n = 32
  BY <1>4 DEF AlgOfKeyLength, CoseAlgorithm, CipherKeyLength, AsI8
<1>5. QED BY <1>1, <1>2, <1>3, <1>4

\* What the cipher makes of a payload is a ciphertext record.
LEMMA MadeCiphertext ==
    ASSUME NEW key \in Keys, SupportedLength(key.len), NEW iv, NEW aad, NEW payload \in Payloads
    PROVE  IsCiphertext(encrypt_aead(AlgOfKeyLength[key.len], key, iv, aad, payload))
  BY KeyAlgorithm, SealBoundsAssumption DEF IsCiphertext, encrypt_aead, tag_size

(***************************************************************************)
(* The type invariant.                                                     *)
(***************************************************************************)
LEMMA TypeInit == Init => TypeOK
  BY DEF Init, TypeOK

LEMMA TypeNew ==
    ASSUME TypeOK, NEW key \in Keys, NEW payload \in Payloads, New(key, payload)
    PROVE  TypeOK'
<1>1. CASE UNCHANGED <<doc, wire, log, docOf, wireOf, altered>>
  BY <1>1 DEF TypeOK, IsCiphertext
<1>2. CASE ~UNCHANGED <<doc, wire, log, docOf, wireOf, altered>>
  <2> DEFINE alg   == AlgOfKeyLength[key.len]
             bytes == map_to_empty_or_serialized(insert(EmptyMap, KTY, CborInteger(alg)))
             c     == encrypt_aead(alg, key, FreshIV, EncStructure(bytes), payload)
  <2>1. /\ SupportedLength(key.len)
        /\ doc' = [protected |-> bytes, unprotected |-> insert(EmptyMap, IV, FreshIV),
                   ciphertext |-> c]
        /\ docOf' = Entry("new", bytes, c)
        /\ log' = log \cup {docOf'}
        /\ UNCHANGED <<wire, wireOf, altered>>
    BY <1>2 DEF New
  <2>2. IsCiphertext(c)
    BY <2>1, MadeCiphertext
  <2> HIDE DEF c, bytes
  <2>3. QED BY <2>1, <2>2 DEF TypeOK, IsCiphertext, Entry
<1>3. QED BY <1>1, <1>2

LEMMA TypePeerSeal ==
    ASSUME TypeOK, NEW key \in Keys, NEW protected, NEW payload \in Payloads,
           PeerSeal(key, protected, payload)
    PROVE  TypeOK'
<1> DEFINE c == encrypt_aead(AlgOfKeyLength[key.len], key, FreshIV,
                             EncStructure(protected), payload)
<1>1. /\ SupportedLength(key.len)
      /\ wireOf' = Entry("peer", protected, c)
      /\ wire' = [tag |-> 16, shape |-> "array", protected |-> protected,
                  unprotected |-> to_vec(insert(EmptyMap, IV, FreshIV)), ciphertext |-> c]
      /\ log' = log \cup {wireOf'}
      /\ UNCHANGED <<doc, docOf, altered>>
  BY DEF PeerSeal
<1>2. IsCiphertext(c)
  BY <1>1, MadeCiphertext
<1> HIDE DEF c
<1>3. QED BY <1>1, <1>2 DEF TypeOK, IsCiphertext, Entry

LEMMA TypeLoad ==
    ASSUME TypeOK, NEW call, NEW outcome, wire # None, Load(call, outcome)
    PROVE  TypeOK'
<1>1. CASE doc' = DocumentOf(wire) /\ docOf' = wireOf
  BY <1>1 DEF TypeOK, Load, DocumentOf, IsCiphertext
<1>2. CASE UNCHANGED <<doc, docOf>>
  BY <1>2 DEF TypeOK, Load, IsCiphertext
<1>3. QED BY <1>1, <1>2 DEF Load

\* What can have become of bytes that were altered.
LEMMA AlteredFields ==
    ASSUME TypeOK, wire # None, NEW w \in AlteredSealed(wire)
    PROVE  /\ w = [tag |-> w.tag, shape |-> w.shape, protected |-> w.protected,
                   unprotected |-> w.unprotected, ciphertext |-> w.ciphertext]
           /\ w.shape \in {"array", "map", "short"}
           /\ w.protected = wire.protected \/ w.protected \in PeerProtected
           /\ \/ w.unprotected = wire.unprotected
              \/ w.unprotected \in WireUnprotected
              \/ \E e \in log : w.unprotected = to_vec(insert(EmptyMap, IV, e.ciphertext.iv))
           /\ \/ w.ciphertext = wire.ciphertext
              \/ \E e \in log : w.ciphertext = e.ciphertext
              \/ \E n \in WireLengths : w.ciphertext = [wire.ciphertext EXCEPT !.len = n]
              \/ w.ciphertext = [wire.ciphertext EXCEPT !.key = None]
<1>1. CASE \E b \in PeerProtected : w = [wire EXCEPT !.protected = b]
  BY <1>1 DEF TypeOK
<1>2. CASE \E u \in WireUnprotected : w = [wire EXCEPT !.unprotected = u]
  BY <1>2 DEF TypeOK
<1>3. CASE \E e \in log : w = [wire EXCEPT !.unprotected
                                  = to_vec(insert(EmptyMap, IV, e.ciphertext.iv))]
  BY <1>3 DEF TypeOK
<1>4. CASE \E e \in log : w = [wire EXCEPT !.ciphertext = e.ciphertext]
  BY <1>4 DEF TypeOK
<1>5. CASE \E n \in WireLengths : w = [wire EXCEPT !.ciphertext.len = n]
  BY <1>5 DEF TypeOK
<1>6. CASE w = [wire EXCEPT !.ciphertext.key = None]
  BY <1>6 DEF TypeOK
<1>7. CASE w = [wire EXCEPT !.shape = "short"]
  BY <1>7 DEF TypeOK
<1>8. QED BY <1>1, <1>2, <1>3, <1>4, <1>5, <1>6, <1>7 DEF AlteredSealed

LEMMA TypeAlterSealed == TypeOK /\ AlterSealed => TypeOK'
<1> SUFFICES ASSUME TypeOK, AlterSealed PROVE TypeOK'
  OBVIOUS
<1> DEFINE c == wire'.ciphertext
<1>1. /\ wire # None /\ wire' \in AlteredSealed(wire)
      /\ wireOf' = None /\ altered' = altered + 1
      /\ UNCHANGED <<doc, log, docOf>>
  BY DEF AlterSealed
<1>2. IsCiphertext(wire.ciphertext) /\ \A e \in log : IsCiphertext(e.ciphertext)
  BY <1>1 DEF TypeOK
<1>3. IsCiphertext(c)
  <2>1. CASE c = wire.ciphertext
    BY <1>2, <2>1
  <2>2. CASE \E e \in log : c = e.ciphertext
    BY <1>2, <2>2
  <2>3. CASE \E n \in WireLengths : c = [wire.ciphertext EXCEPT !.len = n]
    BY <1>2, <2>3, SealBoundsAssumption DEF IsCiphertext
  <2>4. CASE c = [wire.ciphertext EXCEPT !.key = None]
    BY <1>2, <2>4 DEF IsCiphertext
  <2>5. QED BY <1>1, <2>1, <2>2, <2>3, <2>4, AlteredFields
<1>4. altered \in Nat => altered' \in Nat /\ altered' # 0
  BY <1>1
<1>5. QED BY <1>1, <1>3, <1>4, AlteredFields DEF TypeOK, IsCiphertext

\* The tag and the notation are all that AlterEnvelope changes.
LEMMA EnvelopeFields ==
    ASSUME TypeOK, AlterEnvelope
    PROVE  /\ wire # None /\ UNCHANGED <<doc, log, docOf, wireOf, altered>>
           /\ wire' = [tag |-> wire'.tag, shape |-> wire'.shape, protected |-> wire.protected,
                       unprotected |-> wire.unprotected, ciphertext |-> wire.ciphertext]
           /\ wire'.shape \in {wire.shape, "map"}
           /\ result' = NoResult
<1>1. /\ wire # None /\ UNCHANGED <<doc, log, docOf, wireOf, altered>> /\ result' = NoResult
      /\ \/ \E t \in WireTags : wire' = [wire EXCEPT !.tag = t]
         \/ wire' = [wire EXCEPT !.shape = "map"]
  BY DEF AlterEnvelope
<1>2. CASE \E t \in WireTags : wire' = [wire EXCEPT !.tag = t]
  BY <1>1, <1>2 DEF TypeOK
<1>3. CASE wire' = [wire EXCEPT !.shape = "map"]
  BY <1>1, <1>3 DEF TypeOK
<1>4. QED BY <1>1, <1>2, <1>3

LEMMA TypeNext == TypeOK /\ [Next]_vars => TypeOK'
<1> SUFFICES ASSUME TypeOK, [Next]_vars PROVE TypeOK'
  OBVIOUS
<1>1. ASSUME NEW k \in Keys, NEW p \in Payloads, New(k, p) PROVE TypeOK'
  BY <1>1, TypeNew
<1>2. ASSUME NEW tagged \in BOOLEAN, AsBytes(tagged) PROVE TypeOK'
  BY <1>2 DEF TypeOK, AsBytes, Serialized, IsCiphertext
<1>3. ASSUME FromBytes \/ Deserialize PROVE TypeOK'
  BY <1>3, TypeLoad DEF FromBytes, Deserialize
<1>4. ASSUME NEW k \in Keys, NEW b \in PeerProtected, NEW p \in Payloads, PeerSeal(k, b, p)
      PROVE  TypeOK'
  BY <1>4, TypePeerSeal
<1>5. ASSUME AlterSealed PROVE TypeOK'
  BY <1>5, TypeAlterSealed
<1>6. ASSUME AlterEnvelope PROVE TypeOK'
  BY <1>6, EnvelopeFields DEF TypeOK, IsCiphertext
<1>7. ASSUME UNCHANGED <<doc, wire, log, docOf, wireOf, altered>> PROVE TypeOK'
  BY <1>7 DEF TypeOK, IsCiphertext
<1>8. QED
  BY <1>1, <1>2, <1>3, <1>4, <1>5, <1>6, <1>7 DEF Next, Decrypt, vars

\* Slots hold documents, serialized documents and ciphertexts of the right
\* shape, and nothing the crate itself serialized lacks a field.
THEOREM TypeCorrect == Spec => []TypeOK
<1>1. QED BY TypeInit, TypeNext, PTL DEF Spec

(***************************************************************************)
(* What was encrypted together stays together.                             *)
(***************************************************************************)

\* An IV is bytes, and a header map holds it.
LEMMA GoodIV ==
    ASSUME IsFiniteSet(log)
    PROVE  FreshIV \in Encodable /\ FreshIV.kind = "Bytes"
<1>1. Cardinality(log) \in Nat
  BY FS_CardinalityType
<1>2. QED BY <1>1 DEF FreshIV, CborBytes, Encodable

\* The unprotected header that carries an IV.
LEMMA HeaderOfIV ==
    ASSUME NEW iv \in Encodable
    PROVE  LET map == insert(EmptyMap, IV, iv)
           IN  /\ IsHeaderMap(map) /\ Serializable(map)
               /\ IsEncoded(to_vec(map)) /\ Parses(to_vec(map)) /\ from_bytes(to_vec(map)) = map
               /\ Has(map, IV) /\ get(map, IV) = iv
<1>1. IV \in Int
  BY DEF IV
<1>2. QED BY <1>1, SingletonMap, EncodedIsEncoded, DecodesEncoded DEF Has, get

\* The protected header of new() carries the algorithm of the key.
LEMMA HeaderOfNew ==
    ASSUME NEW n, SupportedLength(n)
    PROVE  LET alg == AlgOfKeyLength[n]
               map == insert(EmptyMap, KTY, CborInteger(alg))
           IN  /\ map_to_empty_or_serialized(map) = to_vec(map)
               /\ IsEncoded(to_vec(map)) /\ Parses(to_vec(map)) /\ from_bytes(to_vec(map)) = map
               /\ NamesInteger(map, KTY) /\ get(map, KTY).v = alg
<1> DEFINE alg == AlgOfKeyLength[n]
           v   == CborInteger(alg)
           map == insert(EmptyMap, KTY, v)
<1>1. v \in Encodable /\ v.kind = "Integer" /\ v.v = alg /\ KTY \in Int
  BY KeyAlgorithm DEF CborInteger, Encodable, KTY
<1> HIDE DEF v
<1>2. /\ IsHeaderMap(map) /\ Serializable(map) /\ ~is_empty(map)
      /\ map = [x \in {KTY} |-> v]
  BY <1>1, SingletonMap
<1>3. NamesInteger(map, KTY) /\ get(map, KTY).v = alg
  BY <1>1, <1>2 DEF NamesInteger, Has, get
<1>4. QED
  BY <1>2, <1>3, EncodedIsEncoded, DecodesEncoded DEF map_to_empty_or_serialized, v

\* What New and PeerSeal put into the log.
LEMMA SealedEntry ==
    ASSUME NEW key \in Keys, SupportedLength(key.len), NEW payload \in Payloads,
           NEW iv \in Encodable, iv.kind = "Bytes", NEW by, NEW protected, IsEncoded(protected),
           by = "new" => protected = to_vec(insert(EmptyMap, KTY,
                                                   CborInteger(AlgOfKeyLength[key.len])))
    PROVE  Sealed(Entry(by, protected, encrypt_aead(AlgOfKeyLength[key.len], key, iv,
                                                    EncStructure(protected), payload)))
  BY DEF Sealed, Entry, encrypt_aead

LEMMA KeptInit == Init => SealedBytesKept
<1>1. IsFiniteSet({})
  BY FS_EmptySet
<1>2. QED
  BY <1>1 DEF Init, SealedBytesKept, Provenance, Lineage, CarriedBy, Readable

\* The log grows by an encryption.
LEMMA LogGrows ==
    ASSUME TypeOK, Provenance, NEW e, Sealed(e), IsCiphertext(e.ciphertext), log' = log \cup {e}
    PROVE  /\ IsFiniteSet(log') /\ \A x \in log' : Sealed(x)
           /\ \A c : Made(c) => Made(c)'
           /\ Made(e.ciphertext)'
<1>1. IsFiniteSet(log')
  BY FS_AddElement DEF Provenance
<1>2. \A x \in log' : Sealed(x)
  BY DEF Provenance
<1>3. e.ciphertext = [e.ciphertext EXCEPT !.len = e.ciphertext.len]
  BY DEF IsCiphertext
<1>4. QED BY <1>1, <1>2, <1>3 DEF Made

LEMMA KeptNew ==
    ASSUME TypeOK, SealedBytesKept, NEW key \in Keys, NEW payload \in Payloads,
           New(key, payload)
    PROVE  SealedBytesKept'
<1>1. CASE UNCHANGED <<doc, wire, log, docOf, wireOf, altered>>
  BY <1>1 DEF SealedBytesKept, Provenance, Made, Lineage, CarriedBy, Readable
<1>2. CASE ~UNCHANGED <<doc, wire, log, docOf, wireOf, altered>>
  <2> DEFINE alg   == AlgOfKeyLength[key.len]
             map   == insert(EmptyMap, KTY, CborInteger(alg))
             bytes == to_vec(map)
             iv    == FreshIV
             c     == encrypt_aead(alg, key, iv, EncStructure(bytes), payload)
             e     == Entry("new", bytes, c)
  <2>1. SupportedLength(key.len) /\ map_to_empty_or_serialized(map) = bytes
    BY <1>2, HeaderOfNew DEF New
  <2>2. /\ doc' = [protected |-> bytes, unprotected |-> insert(EmptyMap, IV, iv),
                   ciphertext |-> c]
        /\ docOf' = e /\ log' = log \cup {e}
        /\ UNCHANGED <<wire, wireOf>>
    BY <1>2, <2>1 DEF New
  <2>3. iv \in Encodable /\ iv.kind = "Bytes"
    BY GoodIV DEF SealedBytesKept, Provenance
  <2>4. IsEncoded(bytes)
    BY <2>1, HeaderOfNew
  <2>5. Sealed(e) /\ IsCiphertext(c)
    BY <2>1, <2>3, <2>4, SealedEntry, MadeCiphertext
  <2>6. e.ciphertext = c /\ e.protected = bytes /\ c.iv = iv
    BY DEF Entry, encrypt_aead
  <2> HIDE DEF iv, c, e, bytes
  <2>7. Provenance'
    BY <2>2, <2>5, <2>6, LogGrows DEF SealedBytesKept, Provenance
  <2>8. Lineage'
    BY <2>2, <2>6 DEF SealedBytesKept, Lineage, CarriedBy
  <2>9. Readable'
    BY <2>2, <2>3, <2>4, HeaderOfIV DEF SealedBytesKept, Readable
  <2>10. QED BY <2>7, <2>8, <2>9 DEF SealedBytesKept
<1>3. QED BY <1>1, <1>2

LEMMA KeptPeerSeal ==
    ASSUME TypeOK, SealedBytesKept, NEW key \in Keys, NEW protected \in PeerProtected,
           NEW payload \in Payloads, PeerSeal(key, protected, payload)
    PROVE  SealedBytesKept'
<1> DEFINE iv == FreshIV
           c  == encrypt_aead(AlgOfKeyLength[key.len], key, iv, EncStructure(protected), payload)
           e  == Entry("peer", protected, c)
           u  == to_vec(insert(EmptyMap, IV, iv))
<1>1. /\ SupportedLength(key.len)
      /\ wireOf' = e /\ log' = log \cup {e}
      /\ wire' = [tag |-> 16, shape |-> "array", protected |-> protected,
                  unprotected |-> u, ciphertext |-> c]
      /\ UNCHANGED <<doc, docOf>>
  BY DEF PeerSeal
<1>2. iv \in Encodable /\ iv.kind = "Bytes"
  BY GoodIV DEF SealedBytesKept, Provenance
<1>3. IsEncoded(protected)
  BY SealWireAssumption
<1>4. Sealed(e) /\ IsCiphertext(c)
  BY <1>1, <1>2, <1>3, SealedEntry, MadeCiphertext
<1>5. e.ciphertext = c /\ e.protected = protected /\ c.iv = iv
  BY DEF Entry, encrypt_aead
<1> HIDE DEF iv, c, e
<1>6. Provenance'
  BY <1>1, <1>4, <1>5, LogGrows DEF SealedBytesKept, Provenance
<1>7. Lineage'
  BY <1>1, <1>5 DEF SealedBytesKept, Lineage, CarriedBy
<1>8. Readable'
  BY <1>1, <1>2, <1>3, HeaderOfIV DEF SealedBytesKept, Readable
<1>9. QED BY <1>6, <1>7, <1>8 DEF SealedBytesKept

LEMMA KeptAsBytes ==
    ASSUME TypeOK, SealedBytesKept, NEW tagged, AsBytes(tagged)
    PROVE  SealedBytesKept'
<1>1. /\ doc # None /\ UNCHANGED <<doc, log, docOf>> /\ wireOf' = docOf
      /\ wire'.protected = doc.protected /\ wire'.ciphertext = doc.ciphertext
      /\ wire'.unprotected = to_vec(doc.unprotected)
  BY DEF AsBytes, Serialized
<1>2. Provenance'
  BY <1>1 DEF SealedBytesKept, Provenance, Made
<1>3. Lineage'
  BY <1>1 DEF SealedBytesKept, Lineage, CarriedBy
<1>4. Readable'
  BY <1>1, EncodedIsEncoded DEF SealedBytesKept, Readable
<1>5. QED BY <1>2, <1>3, <1>4 DEF SealedBytesKept

LEMMA KeptLoad ==
    ASSUME TypeOK, SealedBytesKept, NEW call, NEW outcome, wire # None,
           outcome = "Ok" => Parses(wire.unprotected), Load(call, outcome)
    PROVE  SealedBytesKept'
<1>1. CASE outcome = "Ok"
  <2>1. /\ UNCHANGED <<wire, log, wireOf>> /\ docOf' = wireOf
        /\ doc'.protected = wire.protected /\ doc'.ciphertext = wire.ciphertext
        /\ doc'.unprotected = from_bytes(wire.unprotected)
    BY <1>1 DEF Load, DocumentOf
  <2>2. Provenance'
    BY <2>1 DEF SealedBytesKept, Provenance, Made
  <2>3. Lineage'
    <3>1. CASE wireOf = None
      BY <2>1, <3>1 DEF SealedBytesKept, Lineage, CarriedBy
    <3>2. CASE wireOf # None
      <4>1. wireOf.ciphertext.iv \in Encodable
        BY <3>2 DEF TypeOK, SealedBytesKept, Provenance, Sealed
      <4>2. wire.unprotected = to_vec(insert(EmptyMap, IV, wireOf.ciphertext.iv))
        BY <3>2 DEF SealedBytesKept, Lineage
      <4>3. doc'.unprotected = insert(EmptyMap, IV, wireOf.ciphertext.iv)
        BY <2>1, <4>1, <4>2, HeaderOfIV
      <4>4. QED BY <2>1, <4>3 DEF SealedBytesKept, Lineage, CarriedBy
    <3>3. QED BY <3>1, <3>2
  <2>4. Readable'
    BY <1>1, <2>1, DecodedIsMap DEF SealedBytesKept, Readable
  <2>5. QED BY <2>2, <2>3, <2>4 DEF SealedBytesKept
<1>2. CASE outcome # "Ok"
  BY <1>2 DEF Load, SealedBytesKept, Provenance, Made, Lineage, CarriedBy, Readable
<1>3. QED BY <1>1, <1>2

LEMMA KeptAlterSealed == TypeOK /\ SealedBytesKept /\ AlterSealed => SealedBytesKept'
<1> SUFFICES ASSUME TypeOK, SealedBytesKept, AlterSealed PROVE SealedBytesKept'
  OBVIOUS
<1> DEFINE c == wire'.ciphertext
<1>1. /\ wire # None /\ wire' \in AlteredSealed(wire) /\ wireOf' = None
      /\ UNCHANGED <<doc, log, docOf>>
  BY DEF AlterSealed
<1>2. /\ Made(wire.ciphertext) /\ IsCiphertext(wire.ciphertext)
      /\ \A e \in log : IsCiphertext(e.ciphertext) /\ Sealed(e)
  BY <1>1 DEF SealedBytesKept, Provenance, TypeOK
<1>3. Made(c)
  <2>1. CASE c = wire.ciphertext
    BY <1>2, <2>1
  <2>2. CASE \E e \in log : c = e.ciphertext
    BY <1>2, <2>2 DEF Made, IsCiphertext
  <2>3. CASE \E n \in WireLengths : c = [wire.ciphertext EXCEPT !.len = n]
    <3>1. PICK n \in WireLengths : c = [wire.ciphertext EXCEPT !.len = n]
      BY <2>3
    <3>2. c.key = wire.ciphertext.key /\ c.len = n
      BY <1>2, <3>1 DEF IsCiphertext
    <3>3. CASE c.key # None
      <4>1. PICK e \in log : wire.ciphertext = [e.ciphertext EXCEPT !.len = wire.ciphertext.len]
        BY <1>2, <3>2, <3>3 DEF Made
      <4>2. c = [e.ciphertext EXCEPT !.len = c.len]
        BY <1>2, <3>1, <3>2, <4>1 DEF IsCiphertext
      <4>3. QED BY <4>2 DEF Made
    <3>4. QED BY <3>3 DEF Made
  <2>4. CASE c = [wire.ciphertext EXCEPT !.key = None]
    BY <1>2, <2>4 DEF Made, IsCiphertext
  <2>5. QED BY <1>1, <2>1, <2>2, <2>3, <2>4, AlteredFields
<1>4. Provenance'
  BY <1>1, <1>3 DEF SealedBytesKept, Provenance, Made
<1>5. Lineage'
  BY <1>1 DEF SealedBytesKept, Lineage, CarriedBy
<1>6. \A e \in log : IsEncoded(to_vec(insert(EmptyMap, IV, e.ciphertext.iv)))
  BY <1>2, HeaderOfIV DEF Sealed
<1>7. Readable'
  BY <1>1, <1>6, AlteredFields, SealWireAssumption DEF SealedBytesKept, Readable
<1>8. QED BY <1>4, <1>5, <1>7 DEF SealedBytesKept

LEMMA KeptNext == TypeOK /\ SealedBytesKept /\ [Next]_vars => SealedBytesKept'
<1> SUFFICES ASSUME TypeOK, SealedBytesKept, [Next]_vars PROVE SealedBytesKept'
  OBVIOUS
<1>1. ASSUME NEW k \in Keys, NEW p \in Payloads, New(k, p) PROVE SealedBytesKept'
  BY <1>1, KeptNew
<1>2. ASSUME NEW tagged \in BOOLEAN, AsBytes(tagged) PROVE SealedBytesKept'
  BY <1>2, KeptAsBytes
<1>3. ASSUME FromBytes \/ Deserialize PROVE SealedBytesKept'
  BY <1>3, KeptLoad DEF FromBytes, Deserialize, LoadOutcome, Deserializes
<1>4. ASSUME NEW k \in Keys, NEW b \in PeerProtected, NEW p \in Payloads, PeerSeal(k, b, p)
      PROVE  SealedBytesKept'
  BY <1>4, KeptPeerSeal
<1>5. ASSUME AlterSealed PROVE SealedBytesKept'
  BY <1>5, KeptAlterSealed
<1>6. ASSUME AlterEnvelope PROVE SealedBytesKept'
  <2>1. /\ wire # None /\ UNCHANGED <<doc, log, docOf, wireOf>>
        /\ wire'.protected = wire.protected /\ wire'.unprotected = wire.unprotected
        /\ wire'.ciphertext = wire.ciphertext
    BY <1>6, EnvelopeFields
  <2>2. QED
    BY <2>1 DEF SealedBytesKept, Provenance, Made, Lineage, CarriedBy, Readable
<1>7. ASSUME UNCHANGED <<doc, wire, log, docOf, wireOf, altered>> PROVE SealedBytesKept'
  BY <1>7 DEF SealedBytesKept, Provenance, Made, Lineage, CarriedBy, Readable
<1>8. QED
  BY <1>1, <1>2, <1>3, <1>4, <1>5, <1>6, <1>7 DEF Next, Decrypt, vars

\* From encryption to decryption, over any number of serializations, loads and
\* alterations: no ciphertext appears that no holder of a key made, an unaltered
\* document still carries its header, IV and ciphertext, and as_bytes can
\* serialize every document there is in memory.
THEOREM BytesKept == Spec => []SealedBytesKept
<1>1. QED BY TypeInit, TypeNext, KeptInit, KeptNext, PTL DEF Spec

(***************************************************************************)
(* What decrypt() gives out.                                               *)
(***************************************************************************)

\* decrypt() succeeds only past every one of its checks.
LEMMA DecryptedOk ==
    ASSUME NEW d, NEW key, decrypt(d, key) = "Ok"
    PROVE  LET map == from_bytes(d.protected)
           IN  /\ Parses(d.protected) /\ NamesInteger(map, KTY)
               /\ d.ciphertext.key = key
               /\ d.ciphertext.aad = EncStructure(map_to_empty_or_serialized(map))
  BY DEF decrypt, Opens

\* Only what was encrypted with the key, under the header that decrypt() reads,
\* is opened.  The authenticated data holds the header encoded anew; because
\* decoding inverts encoding, it names the same header.
LEMMA OpenedWasSealed ==
    ASSUME TypeOK, SealedBytesKept, doc # None, NEW key \in Keys, decrypt(doc, key) = "Ok"
    PROVE  \E e \in log :
              Statement(e) = [key |-> key, protected |-> from_bytes(doc.protected),
                              payload |-> doc.ciphertext.payload]
<1> DEFINE map == from_bytes(doc.protected)
           c   == doc.ciphertext
<1>1. /\ Parses(doc.protected) /\ NamesInteger(map, KTY) /\ c.key = key
      /\ c.aad = EncStructure(map_to_empty_or_serialized(map))
  BY DecryptedOk
<1>2. IsHeaderMap(map) /\ ~is_empty(map)
  BY <1>1, DecodedIsMap DEF SealedBytesKept, Readable, NamesInteger, Has, is_empty
<1>3. from_bytes(map_to_empty_or_serialized(map)) = map
  BY <1>2, ProtectedHeader
<1>4. key # None
  BY SealBoundsAssumption
<1>5. PICK e \in log : c = [e.ciphertext EXCEPT !.len = c.len]
  BY <1>1, <1>4 DEF SealedBytesKept, Provenance, Made
<1>6. IsCiphertext(e.ciphertext)
  BY DEF TypeOK
<1>7. /\ e.ciphertext.key = key /\ e.ciphertext.aad = c.aad
      /\ e.ciphertext.payload = c.payload
  BY <1>1, <1>5, <1>6 DEF IsCiphertext
<1>8. e.ciphertext.aad = EncStructure(e.protected)
  BY DEF SealedBytesKept, Provenance, Sealed
<1>9. e.protected = map_to_empty_or_serialized(map)
  BY <1>1, <1>7, <1>8 DEF EncStructure
<1>10. QED BY <1>3, <1>7, <1>9 DEF Statement

\* Only Decrypt gives its caller anything, and it changes nothing else.
LEMMA OnlyDecryptReturns ==
    ASSUME [Next]_vars, result'.call = "decrypt", ~UNCHANGED vars
    PROVE  \E key \in Keys :
              /\ doc # None /\ result'.key = key /\ result'.outcome = decrypt(doc, key)
              /\ result'.outcome = "Ok" =>
                   result'.data = [protected |-> from_bytes(doc.protected),
                                   unprotected |-> doc.unprotected,
                                   payload |-> doc.ciphertext.payload]
              /\ UNCHANGED <<doc, wire, log, docOf, wireOf>>
<1> USE DEF Return
<1>1. ASSUME NEW k, NEW p, New(k, p) PROVE FALSE
  BY <1>1 DEF New
<1>2. ASSUME NEW tagged, AsBytes(tagged) PROVE FALSE
  BY <1>2 DEF AsBytes
<1>3. ASSUME FromBytes \/ Deserialize PROVE FALSE
  BY <1>3 DEF FromBytes, Deserialize, Load
<1>4. ASSUME result' = NoResult PROVE FALSE
  BY <1>4 DEF NoResult
<1>5. PICK k \in Keys : Decrypt(k)
  BY <1>1, <1>2, <1>3, <1>4 DEF Next, PeerSeal, AlterSealed, AlterEnvelope
<1>6. QED BY <1>5 DEF Decrypt

LEMMA GenuineInit == Init => Genuine
  BY DEF Init, Genuine, Opened, NoResult

LEMMA GenuineNext == TypeOK /\ SealedBytesKept /\ Genuine /\ [Next]_vars => Genuine'
<1> SUFFICES ASSUME TypeOK, SealedBytesKept, Genuine, [Next]_vars, Opened'
             PROVE  \E e \in log' : Statement(e) = Accepted'
  BY DEF Genuine, Statement
<1>1. CASE UNCHANGED vars
  BY <1>1 DEF Genuine, vars, Opened, Accepted
<1>2. CASE ~UNCHANGED vars
  <2>1. PICK key \in Keys :
              /\ doc # None /\ result'.key = key /\ decrypt(doc, key) = "Ok"
              /\ result'.data = [protected |-> from_bytes(doc.protected),
                                 unprotected |-> doc.unprotected,
                                 payload |-> doc.ciphertext.payload]
              /\ UNCHANGED log
    BY <1>2, OnlyDecryptReturns DEF Opened
  <2>2. Accepted' = [key |-> key, protected |-> from_bytes(doc.protected),
                     payload |-> doc.ciphertext.payload]
    BY <2>1 DEF Accepted
  <2>3. QED BY <2>1, <2>2, OpenedWasSealed
<1>3. QED BY <1>1, <1>2

\* decrypt() returns a payload and a protected header only if a holder of the
\* key encrypted this payload under this header.
THEOREM ReadersGetSealed == Spec => []Genuine
<1>1. QED BY TypeCorrect, BytesKept, GenuineInit, GenuineNext, PTL DEF Spec

(***************************************************************************)
(* How decrypt() ends on an unaltered document.                            *)
(***************************************************************************)

\* The length of a ciphertext that was not cut.
LEMMA WholeCiphertext ==
    ASSUME TypeOK, SealedBytesKept, docOf # None
    PROVE  ~(doc.ciphertext.len < tag_size)
<1>1. docOf \in log /\ doc.ciphertext = docOf.ciphertext
  BY DEF TypeOK, SealedBytesKept, Lineage, CarriedBy
<1>2. /\ doc.ciphertext.len = doc.ciphertext.payload.len + tag_size
      /\ doc.ciphertext.payload.len \in Nat
  BY <1>1, SealBoundsAssumption DEF TypeOK, IsCiphertext, SealedBytesKept, Provenance, Sealed
<1>3. QED BY <1>2 DEF tag_size

\* What new() made passes every check of decrypt() under its key.
LEMMA OwnOpens ==
    ASSUME TypeOK, SealedBytesKept, doc # None, docOf # None, docOf.by = "new",
           NEW key \in Keys, key = docOf.ciphertext.key
    PROVE  decrypt(doc, key) = "Ok"
<1> DEFINE c   == docOf.ciphertext
           alg == AlgOfKeyLength[key.len]
           map == insert(EmptyMap, KTY, CborInteger(alg))
<1>1. docOf \in log /\ Sealed(docOf)
  BY DEF TypeOK, SealedBytesKept, Provenance
<1>2. /\ SupportedLength(key.len) /\ c.alg = alg
      /\ c.iv \in Encodable /\ c.iv.kind = "Bytes"
      /\ c.aad = EncStructure(docOf.protected)
      /\ c.len = c.payload.len + tag_size
      /\ docOf.protected = to_vec(map)
  BY <1>1 DEF Sealed
<1>3. /\ doc.ciphertext = c /\ doc.protected = to_vec(map)
      /\ doc.unprotected = insert(EmptyMap, IV, c.iv)
  BY <1>2 DEF SealedBytesKept, Lineage, CarriedBy
<1>4. /\ alg \in CoseAlgorithm /\ CipherKeyLength[alg] = key.len /\ AsI8(alg) = alg
  BY <1>2, KeyAlgorithm
<1>5. /\ map_to_empty_or_serialized(map) = to_vec(map)
      /\ Parses(to_vec(map)) /\ from_bytes(to_vec(map)) = map
      /\ NamesInteger(map, KTY) /\ get(map, KTY).v = alg
  BY <1>2, HeaderOfNew
<1>6. Has(doc.unprotected, IV) /\ get(doc.unprotected, IV) = c.iv
  BY <1>2, <1>3, HeaderOfIV
<1>7. ~(c.len < tag_size)
  BY <1>3, WholeCiphertext
<1> HIDE DEF map, alg
<1>8. Opens(alg, key, c.iv, EncStructure(to_vec(map)), c)
  BY <1>2, <1>4 DEF Opens
<1>9. QED
  BY <1>2, <1>3, <1>4, <1>5, <1>6, <1>7, <1>8 DEF decrypt

LEMMA OwnInit == Init => OwnDecrypts
  BY DEF Init, OwnDecrypts, NoResult

LEMMA OwnNext == TypeOK /\ SealedBytesKept /\ OwnDecrypts /\ [Next]_vars => OwnDecrypts'
<1> SUFFICES ASSUME TypeOK, SealedBytesKept, OwnDecrypts, [Next]_vars,
                    result'.call = "decrypt", docOf' # None, docOf'.by = "new",
                    result'.key = docOf'.ciphertext.key
             PROVE  result'.outcome = "Ok" /\ result'.data.payload = docOf'.ciphertext.payload
  BY DEF OwnDecrypts
<1>1. CASE UNCHANGED vars
  BY <1>1 DEF OwnDecrypts, vars
<1>2. CASE ~UNCHANGED vars
  <2>1. PICK key \in Keys :
              /\ doc # None /\ result'.key = key /\ result'.outcome = decrypt(doc, key)
              /\ result'.outcome = "Ok" =>
                   result'.data = [protected |-> from_bytes(doc.protected),
                                   unprotected |-> doc.unprotected,
                                   payload |-> doc.ciphertext.payload]
              /\ UNCHANGED docOf
    BY <1>2, OnlyDecryptReturns
  <2>2. decrypt(doc, key) = "Ok"
    BY <2>1, OwnOpens
  <2>3. doc.ciphertext = docOf.ciphertext
    BY <2>1 DEF SealedBytesKept, Lineage, CarriedBy
  <2>4. QED BY <2>1, <2>2, <2>3
<1>3. QED BY <1>1, <1>2

\* What new() encrypted decrypts under its key after any number of
\* serializations and loads, for keys and payloads of every length.
THEOREM OwnDocumentsDecrypt == Spec => []OwnDecrypts
<1>1. QED BY TypeCorrect, BytesKept, OwnInit, OwnNext, PTL DEF Spec

LEMMA PanicInit == Init => PanicsOnlyOnAltered
  BY DEF Init, PanicsOnlyOnAltered, NoResult

LEMMA PanicNext ==
    TypeOK /\ SealedBytesKept /\ PanicsOnlyOnAltered /\ [Next]_vars => PanicsOnlyOnAltered'
<1> SUFFICES ASSUME TypeOK, SealedBytesKept, PanicsOnlyOnAltered, [Next]_vars,
                    result'.call = "decrypt", result'.outcome = "panic", docOf' # None
             PROVE  FALSE
  BY DEF PanicsOnlyOnAltered
<1>1. CASE UNCHANGED vars
  BY <1>1 DEF PanicsOnlyOnAltered, vars
<1>2. CASE ~UNCHANGED vars
  <2>1. PICK key \in Keys : decrypt(doc, key) = "panic" /\ UNCHANGED docOf
    BY <1>2, OnlyDecryptReturns
  <2>2. doc.ciphertext.len < tag_size
    BY <2>1 DEF decrypt
  <2>3. QED BY <2>1, <2>2, WholeCiphertext
<1>3. QED BY <1>1, <1>2

\* Splitting the tag off panics on no document that was not altered.
THEOREM NoOtherPanic == Spec => []PanicsOnlyOnAltered
<1>1. QED BY TypeCorrect, BytesKept, PanicInit, PanicNext, PTL DEF Spec

(***************************************************************************)
(* Serialized and loaded again.                                            *)
(***************************************************************************)

\* After as_bytes, the bytes are those of the document in memory.
Written ==
    result.call = "as_bytes" =>
       /\ doc # None
       /\ wire = Serialized(doc, wire.tag) /\ wire.tag \in {None, 16}

LEMMA WrittenInit == Init => Written
  BY DEF Init, Written, NoResult

LEMMA WrittenNext == Written /\ [Next]_vars => Written'
<1> SUFFICES ASSUME Written, [Next]_vars, result'.call = "as_bytes"
             PROVE  /\ doc' # None
                    /\ wire' = Serialized(doc', wire'.tag) /\ wire'.tag \in {None, 16}
  BY DEF Written
<1>1. CASE UNCHANGED vars
  BY <1>1 DEF Written, vars
<1>2. ASSUME NEW k, NEW p, New(k, p) PROVE FALSE
  BY <1>2 DEF New, Return
<1>3. ASSUME FromBytes \/ Deserialize PROVE FALSE
  BY <1>3 DEF FromBytes, Deserialize, Load, Return
<1>4. ASSUME NEW k, Decrypt(k) PROVE FALSE
  BY <1>4 DEF Decrypt, Return
<1>5. ASSUME result' = NoResult PROVE FALSE
  BY <1>5 DEF NoResult
<1>6. ASSUME NEW tagged \in BOOLEAN, AsBytes(tagged)
      PROVE  /\ doc' # None
             /\ wire' = Serialized(doc', wire'.tag) /\ wire'.tag \in {None, 16}
  BY <1>6 DEF AsBytes, Serialized
<1>7. QED
  BY <1>1, <1>2, <1>3, <1>4, <1>5, <1>6 DEF Next, PeerSeal, AlterSealed, AlterEnvelope

\* What was written is read back.
LEMMA LoadedIsWritten ==
    ASSUME TypeOK, SealedBytesKept, Written, result.call = "as_bytes", Parses(doc.protected)
    PROVE  /\ LoadOutcome(wire) = "Ok" /\ Deserializes(wire) /\ DocumentOf(wire) = doc
           /\ wire.tag \in {None, 16}
<1>1. /\ wire.shape = "array" /\ wire.protected = doc.protected
      /\ wire.unprotected = to_vec(doc.unprotected) /\ wire.ciphertext = doc.ciphertext
      /\ wire.tag \in {None, 16} /\ doc # None
  BY DEF Written, Serialized
<1>2. Parses(wire.unprotected) /\ from_bytes(wire.unprotected) = doc.unprotected
  BY <1>1, DecodesEncoded DEF SealedBytesKept, Readable
<1>3. DocumentOf(wire) = doc
  BY <1>1, <1>2 DEF DocumentOf, TypeOK
<1>4. QED BY <1>1, <1>2, <1>3 DEF LoadOutcome, Deserializes

\* How a load right after as_bytes ends.
LoadsBack ==
    /\ doc' = doc
    /\ \/ result'.outcome = "Ok"
       \/ /\ result'.call = "deserialize" /\ wire.tag = 16
          /\ result'.outcome = "SerializationError"

LEMMA RoundTripNext ==
    TypeOK /\ SealedBytesKept /\ Written /\ [Next]_vars
    => [(/\ result.call = "as_bytes" /\ Parses(doc.protected)
         /\ result'.call \in {"from_bytes", "deserialize"})
        => LoadsBack]_vars
<1> SUFFICES ASSUME TypeOK, SealedBytesKept, Written, [Next]_vars,
                    result.call = "as_bytes", Parses(doc.protected),
                    result'.call \in {"from_bytes", "deserialize"}
             PROVE  LoadsBack
  OBVIOUS
<1> USE DEF Return
<1>1. ASSUME UNCHANGED vars PROVE FALSE
  BY <1>1 DEF vars
<1>2. ASSUME NEW k, NEW p, New(k, p) PROVE FALSE
  BY <1>2 DEF New
<1>3. ASSUME NEW tagged, AsBytes(tagged) PROVE FALSE
  BY <1>3 DEF AsBytes
<1>4. ASSUME NEW k, Decrypt(k) PROVE FALSE
  BY <1>4 DEF Decrypt
<1>5. ASSUME result' = NoResult PROVE FALSE
  BY <1>5 DEF NoResult
<1>6. ASSUME FromBytes PROVE LoadsBack
  BY <1>6, LoadedIsWritten DEF FromBytes, Load, LoadsBack
<1>7. ASSUME Deserialize PROVE LoadsBack
  BY <1>7, LoadedIsWritten DEF Deserialize, Load, LoadsBack
<1>8. QED
  BY <1>1, <1>2, <1>3, <1>4, <1>5, <1>6, <1>7 DEF Next, PeerSeal, AlterSealed, AlterEnvelope

\* as_bytes followed by a load gives back the very document, whatever its
\* unprotected header holds and wherever the document came from; only serde used
\* directly refuses it, and only if as_bytes wrote a tag.
THEOREM RoundTrips == Spec => RoundTrip
<1>1. QED
  BY TypeCorrect, BytesKept, WrittenInit, WrittenNext, RoundTripNext, PTL
  DEF Spec, RoundTrip, LoadsBack

(***************************************************************************)
(* The refinement.                                                         *)
(***************************************************************************)
LEMMA RefinesInit == Init => Abstract!Init
  BY DEF Init, Abstract!Init, Accepted, Opened, NoResult

\* No step but the two that encrypt adds a statement, and they add one.
LEMMA RefinesLog ==
    ASSUME [Next]_vars, ~UNCHANGED vars
    PROVE  \/ UNCHANGED log
           \/ \E entry : log' = log \cup {entry} /\ ~Opened'
<1>1. ASSUME NEW k, NEW p, New(k, p)
      PROVE  UNCHANGED log \/ \E entry : log' = log \cup {entry} /\ ~Opened'
  BY <1>1 DEF New, Opened, Return
<1>2. ASSUME NEW k, NEW b, NEW p, PeerSeal(k, b, p)
      PROVE  \E entry : log' = log \cup {entry} /\ ~Opened'
  BY <1>2 DEF PeerSeal, Opened, NoResult
<1>3. QED
  BY <1>1, <1>2
  DEF Next, AsBytes, FromBytes, Deserialize, Load, Decrypt, AlterSealed, AlterEnvelope

LEMMA RefinesNext ==
    Genuine' /\ [Next]_vars => [Abstract!Next]_<<{Statement(e) : e \in log}, Accepted>>
<1> SUFFICES ASSUME Genuine', [Next]_vars
             PROVE  [Abstract!Next]_<<{Statement(e) : e \in log}, Accepted>>
  OBVIOUS
<1> DEFINE authored == {Statement(e) : e \in log}
<1>1. CASE UNCHANGED vars
  BY <1>1 DEF vars, Accepted, Opened, Statement
<1>2. CASE ~UNCHANGED vars /\ UNCHANGED log /\ ~Opened'
  <2>1. Accepted' = None /\ authored' = authored
    BY <1>2 DEF Accepted, Statement
  <2>2. QED BY <2>1 DEF Abstract!Next, Abstract!Other
<1>3. CASE ~UNCHANGED vars /\ Opened'
  <2>1. UNCHANGED log
    BY <1>3, RefinesLog
  <2>2. authored' = authored /\ Accepted' \in authored'
    BY <1>3, <2>1 DEF Genuine, Statement
  <2>3. QED BY <2>2 DEF Abstract!Next, Abstract!Accept
<1>4. CASE ~UNCHANGED vars /\ \E entry : log' = log \cup {entry} /\ ~Opened'
  <2>1. PICK entry : log' = log \cup {entry} /\ ~Opened'
    BY <1>4
  <2>2. Accepted' = None /\ authored' = authored \cup {Statement(entry)}
    BY <2>1 DEF Accepted, Statement
  <2>3. QED BY <2>2 DEF Abstract!Next, Abstract!Author
<1>5. QED BY <1>1, <1>2, <1>3, <1>4, RefinesLog

\* COSE_Encrypt0 implements AuthoredStatements: a reader with a key learns
\* nothing but what holders of the key have said.
THEOREM Refinement == Spec => Implements
<1>1. QED
  BY RefinesInit, RefinesNext, ReadersGetSealed, PTL DEF Spec, Implements, Abstract!Spec
============================================================================
