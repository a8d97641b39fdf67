-------------------------- MODULE CoseSign1_proofs -------------------------
(***************************************************************************)
(* Proofs about CoseSign1, for all values of its constants.                *)
(***************************************************************************)
EXTENDS CoseSign1, HeaderMap_proofs

(***************************************************************************)
(* Facts about keys.                                                       *)
(***************************************************************************)

\* A key object that gives out parameters has an algorithm and a digest of
\* the tables of crypto/mod.rs.
LEMMA KeyParameters ==
    ASSUME NEW key, KeyObjectOK(key), HasParameters(key)
    PROVE  SigAlg(key) \in SignatureAlgorithm /\ Digest(key) \in MessageDigest
  BY DEF KeyObjectOK, KmsKeyOK, TpmKeyOK, HasParameters, SigAlg, Digest, SupportedCurve, CurveAlg,
         SignatureAlgorithm, MessageDigest, suggested_message_digest

\* Half a signature has a length, and the length tells the algorithm.
LEMMA KeyLengths ==
    /\ \A alg \in SignatureAlgorithm : 2 * key_length[alg] \in Nat
    /\ \A a, b \in SignatureAlgorithm : key_length[a] = key_length[b] => a = b
  BY DEF SignatureAlgorithm, key_length

\* The signatures the crate and its peers make are signature records.
LEMMA MadeSignature ==
    ASSUME NEW pair, NEW alg \in SignatureAlgorithm, NEW digest \in MessageDigest,
           NEW bytes, NEW payload \in Payloads
    PROVE  IsSignature([pair |-> pair, over |-> Hash(digest, SigStructure(bytes, payload)),
                        len |-> 2 * key_length[alg]])
  BY KeyLengths DEF IsSignature, Hash, SigStructure

(***************************************************************************)
(* The type invariant.                                                     *)
(***************************************************************************)
LEMMA TypeInit == Init => TypeOK
  BY DEF Init, TypeOK

LEMMA TypeBuild ==
    ASSUME TypeOK, NEW key \in Keys, NEW payload \in Payloads, NEW protected, NEW unprotected,
           NEW call \in {"new", "new_with_protected"},
           Build(call, key, payload, protected, unprotected)
    PROVE  TypeOK'
<1>1. CASE UNCHANGED <<doc, wire, log, docOf, wireOf, altered>>
  BY <1>1 DEF TypeOK, IsSignature
<1>2. CASE /\ HasParameters(key)
           /\ LET bytes == map_to_empty_or_serialized(protected)
                  signature == Signature(key, Hash(Digest(key), SigStructure(bytes, payload)))
                  entry == [by |-> call, signature |-> signature]
              IN  /\ doc' = [protected |-> bytes, unprotected |-> unprotected,
                             payload |-> payload, signature |-> signature]
                  /\ log' = log \cup {entry}
                  /\ docOf' = entry
           /\ UNCHANGED <<wire, wireOf, altered>>
  <2> DEFINE bytes == map_to_empty_or_serialized(protected)
             signature == Signature(key, Hash(Digest(key), SigStructure(bytes, payload)))
  <2>1. IsSignature(signature)
    BY <1>2, KeysAssumption, KeyParameters, MadeSignature DEF Signature
  <2> HIDE DEF signature
  <2>2. /\ doc' = [protected |-> bytes, unprotected |-> unprotected,
                   payload |-> payload, signature |-> signature]
        /\ log' = log \cup {[by |-> call, signature |-> signature]}
        /\ docOf' = [by |-> call, signature |-> signature]
    BY <1>2 DEF signature
  <2>3. QED BY <1>2, <2>1, <2>2 DEF TypeOK, IsSignature
<1>3. QED BY <1>1, <1>2 DEF Build

LEMMA TypeLoad ==
    ASSUME TypeOK, NEW call, NEW outcome, wire # None, Load(call, outcome)
    PROVE  TypeOK'
<1>1. CASE doc' = DocumentOf(wire) /\ docOf' = wireOf
  BY <1>1 DEF TypeOK, Load, DocumentOf, IsSignature
<1>2. CASE UNCHANGED <<doc, docOf>>
  BY <1>2 DEF TypeOK, Load, IsSignature
<1>3. QED BY <1>1, <1>2 DEF Load

LEMMA TypePeerSign ==
    ASSUME TypeOK, NEW key \in Keys, NEW protected, NEW payload \in Payloads,
           PeerSign(key, protected, payload)
    PROVE  TypeOK'
<1> DEFINE alg == CurveAlg[key.pair.curve]
           signature == [pair |-> key.pair,
                         over |-> Hash(suggested_message_digest[alg],
                                       SigStructure(protected, payload)),
                         len |-> 2 * key_length[alg]]
<1>1. alg \in SignatureAlgorithm /\ suggested_message_digest[alg] \in MessageDigest
  BY DEF PeerSign, SupportedCurve, CurveAlg, SignatureAlgorithm, MessageDigest,
         suggested_message_digest
<1>2. IsSignature(signature)
  BY <1>1, MadeSignature
<1>3. /\ log' = log \cup {[by |-> "peer", signature |-> signature]}
      /\ wireOf' = [by |-> "peer", signature |-> signature]
      /\ wire' = [tag |-> 18, arity |-> 4, protected |-> protected,
                  unprotected |-> to_vec(EmptyMap), payload |-> payload,
                  signature |-> signature]
      /\ UNCHANGED <<doc, docOf, altered>>
  BY DEF PeerSign
<1> HIDE DEF alg, signature
<1>4. QED BY <1>2, <1>3 DEF TypeOK, IsSignature

\* What can have happened to the signature, the payload and the shape of bytes
\* that were altered.
LEMMA AlteredFields ==
    ASSUME TypeOK, wire # None, NEW w \in AlteredSigned(wire)
    PROVE  /\ w = [tag |-> w.tag, arity |-> w.arity, protected |-> w.protected,
                   unprotected |-> w.unprotected, payload |-> w.payload,
                   signature |-> w.signature]
           /\ w.arity \in {3, 4}
           /\ w.payload \in Payloads
           /\ \/ w.signature = wire.signature
              \/ \E e \in log : w.signature = e.signature
              \/ \E n \in WireLengths : w.signature = [wire.signature EXCEPT !.len = n]
              \/ w.signature = [wire.signature EXCEPT !.pair = None]
<1>1. CASE \E p \in Payloads : w = [wire EXCEPT !.payload = p]
  BY <1>1 DEF TypeOK
<1>2. CASE \E b \in PeerProtected : w = [wire EXCEPT !.protected = b]
  BY <1>2 DEF TypeOK
<1>3. CASE \E e \in log : w = [wire EXCEPT !.signature = e.signature]
  BY <1>3 DEF TypeOK
<1>4. CASE \E n \in WireLengths : w = [wire EXCEPT !.signature.len = n]
  BY <1>4 DEF TypeOK
<1>5. CASE w = [wire EXCEPT !.signature.pair = None]
  BY <1>5 DEF TypeOK
<1>6. CASE w = [wire EXCEPT !.arity = 3]
  BY <1>6 DEF TypeOK
<1>7. QED BY <1>1, <1>2, <1>3, <1>4, <1>5, <1>6 DEF AlteredSigned

LEMMA TypeAlterSigned == TypeOK /\ AlterSigned => TypeOK'
<1> SUFFICES ASSUME TypeOK, AlterSigned PROVE TypeOK'
  OBVIOUS
<1> DEFINE s == wire'.signature
<1>1. /\ wire # None /\ wire' \in AlteredSigned(wire)
      /\ wireOf' = None /\ altered' = altered + 1
      /\ UNCHANGED <<doc, log, docOf>>
  BY DEF AlterSigned
<1>2. IsSignature(wire.signature) /\ \A e \in log : IsSignature(e.signature)
  BY <1>1 DEF TypeOK
<1>3. IsSignature(s)
  <2>1. CASE s = wire.signature
    BY <1>2, <2>1
  <2>2. CASE \E e \in log : s = e.signature
    BY <1>2, <2>2
  <2>3. CASE \E n \in WireLengths : s = [wire.signature EXCEPT !.len = n]
    BY <1>2, <2>3, BoundsAssumption DEF IsSignature
  <2>4. CASE s = [wire.signature EXCEPT !.pair = None]
    BY <1>2, <2>4 DEF IsSignature
  <2>5. QED BY <1>1, <2>1, <2>2, <2>3, <2>4, AlteredFields
<1>4. altered \in Nat => altered' \in Nat /\ altered' # 0
  BY <1>1
<1>5. QED BY <1>1, <1>3, <1>4, AlteredFields DEF TypeOK, IsSignature

LEMMA TypeNext == TypeOK /\ [Next]_vars => TypeOK'
<1> SUFFICES ASSUME TypeOK, [Next]_vars PROVE TypeOK'
  OBVIOUS
<1>1. ASSUME NEW k \in Keys, NEW p \in Payloads, NEW u \in UnprotectedMaps, New(k, p, u)
      PROVE  TypeOK'
  BY <1>1, TypeBuild DEF New
<1>2. ASSUME NEW k \in Keys, NEW p \in Payloads, NEW h \in ProtectedMaps,
             NEW u \in UnprotectedMaps, NewWithProtected(k, p, h, u)
      PROVE  TypeOK'
  BY <1>2, TypeBuild DEF NewWithProtected
<1>3. ASSUME NEW tagged \in BOOLEAN, AsBytes(tagged) PROVE TypeOK'
  BY <1>3 DEF TypeOK, AsBytes, Serialized, IsSignature
<1>4. ASSUME FromBytes \/ FromBytesTagged \/ Deserialize PROVE TypeOK'
  BY <1>4, TypeLoad DEF FromBytes, FromBytesTagged, Deserialize
<1>5. ASSUME ReadUnchanged PROVE TypeOK'
  BY <1>5 DEF TypeOK, ReadUnchanged, IsSignature
<1>6. ASSUME NEW k \in Keys, NEW b \in PeerProtected, NEW p \in Payloads, PeerSign(k, b, p)
      PROVE  TypeOK'
  BY <1>6, TypePeerSign
<1>7. ASSUME AlterSigned PROVE TypeOK'
  BY <1>7, TypeAlterSigned
<1>8. ASSUME AlterUnsigned PROVE TypeOK'
  <2>1. UNCHANGED <<doc, log, docOf, wireOf, altered>>
    BY <1>8 DEF AlterUnsigned
  <2>2. /\ wire # None
        /\ \/ \E t \in WireTags : wire' = [wire EXCEPT !.tag = t]
           \/ \E u \in WireUnprotected : wire' = [wire EXCEPT !.unprotected = u]
    BY <1>8 DEF AlterUnsigned
  <2>3. QED BY <2>1, <2>2 DEF TypeOK, IsSignature
<1>9. ASSUME UNCHANGED vars PROVE TypeOK'
  BY <1>9 DEF TypeOK, vars, IsSignature
<1>10. QED
  BY <1>1, <1>2, <1>3, <1>4, <1>5, <1>6, <1>7, <1>8, <1>9
  DEF Next, VerifySignature, GetPayload, GetProtectedAndPayload

\* Slots hold documents, serialized documents and signatures of the right
\* shape, and nothing the crate itself serialized lacks a field.
THEOREM TypeCorrect == Spec => []TypeOK
<1>1. QED BY TypeInit, TypeNext, PTL DEF Spec

(***************************************************************************)
(* The header new() writes.                                                *)
(***************************************************************************)

\* The protected header of new() parses and names the key's algorithm.
LEMMA HeaderOfNew ==
    ASSUME NEW alg \in SignatureAlgorithm
    PROVE  LET bytes == map_to_empty_or_serialized(AlgorithmHeader(alg))
           IN  /\ Parses(bytes) /\ NamesAlgorithm(from_bytes(bytes))
               /\ get(from_bytes(bytes), AlgLabel).v = AlgId[alg]
<1> DEFINE v == CborInteger(AlgId[alg])
           header == AlgorithmHeader(alg)
<1>1. v \in Encodable /\ v.kind = "Integer" /\ v.v = AlgId[alg] /\ AlgLabel \in Int
  BY DEF CborInteger, Encodable, AlgId, SignatureAlgorithm, AlgLabel
<1> HIDE DEF v
<1>2. /\ IsHeaderMap(header) /\ ~is_empty(header)
      /\ header = [x \in {AlgLabel} |-> v]
  BY <1>1, SingletonMap DEF AlgorithmHeader, v
<1> HIDE DEF header
<1>3. /\ Parses(map_to_empty_or_serialized(header))
      /\ from_bytes(map_to_empty_or_serialized(header)) = header
  BY <1>2, ProtectedHeader
<1>4. NamesAlgorithm(header) /\ get(header, AlgLabel).v = AlgId[alg]
  BY <1>1, <1>2 DEF NamesAlgorithm, Has, get
<1>5. QED BY <1>3, <1>4 DEF header

(***************************************************************************)
(* The signed bytes are kept.                                              *)
(***************************************************************************)
LEMMA KeptInit == Init => SignedBytesKept
  BY DEF Init, SignedBytesKept, Provenance, Lineage, CarriedBy, Announced

LEMMA KeptBuild ==
    ASSUME TypeOK, SignedBytesKept, NEW key \in Keys, NEW payload \in Payloads,
           NEW protected, NEW unprotected, NEW call,
           \/ call = "new_with_protected"
           \/ call = "new" /\ (HasParameters(key) => protected = AlgorithmHeader(SigAlg(key))),
           Build(call, key, payload, protected, unprotected)
    PROVE  SignedBytesKept'
<1> USE DEF SignedBytesKept
<1>1. CASE UNCHANGED <<doc, wire, log, docOf, wireOf, altered>>
  BY <1>1 DEF Provenance, Made, Lineage, CarriedBy, Announced, Announces, Signed
<1>2. CASE /\ HasParameters(key)
           /\ LET bytes == map_to_empty_or_serialized(protected)
                  signature == Signature(key, Hash(Digest(key), SigStructure(bytes, payload)))
                  entry == [by |-> call, signature |-> signature]
              IN  /\ doc' = [protected |-> bytes, unprotected |-> unprotected,
                             payload |-> payload, signature |-> signature]
                  /\ log' = log \cup {entry}
                  /\ docOf' = entry
           /\ UNCHANGED <<wire, wireOf, altered>>
  <2> DEFINE bytes == map_to_empty_or_serialized(protected)
             data == SigStructure(bytes, payload)
             signature == Signature(key, Hash(Digest(key), data))
             entry == [by |-> call, signature |-> signature]
  <2>1. /\ doc' = [protected |-> bytes, unprotected |-> unprotected,
                   payload |-> payload, signature |-> signature]
        /\ log' = log \cup {entry} /\ docOf' = entry
        /\ UNCHANGED <<wire, wireOf>>
    BY <1>2
  <2>2. Signed(entry) = data /\ data.body_protected = bytes
    BY DEF Signed, Signature, Hash, SigStructure
  <2>3. Provenance'
    BY <2>1 DEF Provenance, Made
  <2>4. Lineage'
    BY <2>1, <2>2 DEF Lineage, CarriedBy, Signed
  <2>5. call = "new" => Announces(entry)
    <3>1. SigAlg(key) \in SignatureAlgorithm
      BY <1>2, KeysAssumption, KeyParameters
    <3>2. signature.len = 2 * key_length[SigAlg(key)]
      BY DEF Signature
    <3>3. QED BY <1>2, <2>2, <3>1, <3>2, HeaderOfNew DEF Announces
  <2>6. Announced'
    BY <2>1, <2>5 DEF Announced, Announces, Signed
  <2>7. QED BY <2>3, <2>4, <2>6
<1>3. QED BY <1>1, <1>2 DEF Build

LEMMA KeptPeerSign ==
    ASSUME TypeOK, SignedBytesKept, NEW key \in Keys, NEW protected, NEW payload \in Payloads,
           PeerSign(key, protected, payload)
    PROVE  SignedBytesKept'
<1> DEFINE alg == CurveAlg[key.pair.curve]
           data == SigStructure(protected, payload)
           signature == [pair |-> key.pair,
                         over |-> Hash(suggested_message_digest[alg], data),
                         len |-> 2 * key_length[alg]]
           entry == [by |-> "peer", signature |-> signature]
<1>1. /\ log' = log \cup {entry} /\ wireOf' = entry
      /\ wire' = [tag |-> 18, arity |-> 4, protected |-> protected,
                  unprotected |-> to_vec(EmptyMap), payload |-> payload,
                  signature |-> signature]
      /\ UNCHANGED <<doc, docOf>>
  BY DEF PeerSign
<1>2. /\ alg \in SignatureAlgorithm
      /\ Parses(protected) /\ AlgLabel \in Labels(protected)
      /\ get(from_bytes(protected), AlgLabel) = CborInteger(AlgId[alg])
  BY DEF PeerSign, SupportedCurve, CurveAlg, SignatureAlgorithm
<1>3. Signed(entry) = data /\ data.body_protected = protected
  BY DEF Signed, Hash, SigStructure
<1>4. Announces(entry)
  <2>1. NamesAlgorithm(from_bytes(protected))
    BY <1>2 DEF NamesAlgorithm, Has, CborInteger, from_bytes, get
  <2>2. get(from_bytes(protected), AlgLabel).v = AlgId[alg]
    BY <1>2 DEF CborInteger
  <2>3. QED BY <1>2, <1>3, <2>1, <2>2 DEF Announces
<1>5. Provenance'
  BY <1>1 DEF SignedBytesKept, Provenance, Made
<1>6. Lineage'
  BY <1>1, <1>3 DEF SignedBytesKept, Lineage, CarriedBy, Signed
<1>7. Announced'
  BY <1>1, <1>4 DEF SignedBytesKept, Announced, Announces, Signed
<1>8. QED BY <1>5, <1>6, <1>7 DEF SignedBytesKept

LEMMA KeptAlterSigned == TypeOK /\ SignedBytesKept /\ AlterSigned => SignedBytesKept'
<1> SUFFICES ASSUME TypeOK, SignedBytesKept, AlterSigned PROVE SignedBytesKept'
  OBVIOUS
<1> DEFINE s == wire'.signature
<1>1. /\ wire # None /\ wire' \in AlteredSigned(wire) /\ wireOf' = None
      /\ UNCHANGED <<doc, log, docOf>>
  BY DEF AlterSigned
<1>2. Made(wire.signature) /\ IsSignature(wire.signature)
  BY <1>1 DEF SignedBytesKept, Provenance, TypeOK
<1>3. Made(s)
  <2>1. CASE s = wire.signature
    BY <1>2, <2>1
  <2>2. CASE \E e \in log : s = e.signature
    BY <2>2 DEF Made
  <2>3. CASE \E n \in WireLengths : s = [wire.signature EXCEPT !.len = n]
    BY <1>2, <2>3 DEF Made, IsSignature
  <2>4. CASE s = [wire.signature EXCEPT !.pair = None]
    BY <1>2, <2>4 DEF Made, IsSignature
  <2>5. QED BY <1>1, <2>1, <2>2, <2>3, <2>4, AlteredFields
<1>4. QED
  BY <1>1, <1>3 DEF SignedBytesKept, Provenance, Made, Lineage, CarriedBy, Announced,
                    Announces, Signed

LEMMA KeptNext == TypeOK /\ SignedBytesKept /\ [Next]_vars => SignedBytesKept'
<1> SUFFICES ASSUME TypeOK, SignedBytesKept, [Next]_vars PROVE SignedBytesKept'
  OBVIOUS
<1> USE DEF SignedBytesKept
<1>1. ASSUME NEW k \in Keys, NEW p \in Payloads, NEW u \in UnprotectedMaps, New(k, p, u)
      PROVE  SignedBytesKept'
  BY <1>1, KeptBuild DEF New
<1>2. ASSUME NEW k \in Keys, NEW p \in Payloads, NEW h \in ProtectedMaps,
             NEW u \in UnprotectedMaps, NewWithProtected(k, p, h, u)
      PROVE  SignedBytesKept'
  BY <1>2, KeptBuild DEF NewWithProtected
<1>3. ASSUME UNCHANGED <<doc, wire, log, docOf, wireOf>> PROVE SignedBytesKept'
  BY <1>3 DEF Provenance, Made, Lineage, CarriedBy, Announced, Announces, Signed
<1>4. ASSUME NEW tagged \in BOOLEAN, AsBytes(tagged) PROVE SignedBytesKept'
  <2>1. CASE Serializable(doc.unprotected)
    <3>1. /\ doc # None /\ UNCHANGED <<doc, log, docOf>> /\ wireOf' = docOf
          /\ wire'.signature = doc.signature /\ wire'.protected = doc.protected
          /\ wire'.payload = doc.payload
      BY <1>4, <2>1 DEF AsBytes, Serialized
    <3>2. QED
      BY <3>1 DEF Provenance, Made, Lineage, CarriedBy, Announced, Announces, Signed
  <2>2. CASE ~Serializable(doc.unprotected)
    BY <1>3, <1>4, <2>2 DEF AsBytes, Serialized
  <2>3. QED BY <2>1, <2>2
<1>5. ASSUME NEW call, NEW outcome, wire # None, Load(call, outcome) PROVE SignedBytesKept'
  <2>1. CASE outcome = "Ok"
    <3>1. /\ UNCHANGED <<wire, log, wireOf>> /\ docOf' = wireOf
          /\ doc'.signature = wire.signature /\ doc'.protected = wire.protected
          /\ doc'.payload = wire.payload
      BY <1>5, <2>1 DEF Load, DocumentOf
    <3>2. QED
      BY <1>5, <3>1 DEF Provenance, Made, Lineage, CarriedBy, Announced, Announces, Signed
  <2>2. CASE outcome # "Ok"
    BY <1>3, <1>5, <2>2 DEF Load
  <2>3. QED BY <2>1, <2>2
<1>6. ASSUME FromBytes \/ FromBytesTagged \/ Deserialize PROVE SignedBytesKept'
  BY <1>5, <1>6 DEF FromBytes, FromBytesTagged, Deserialize
<1>7. ASSUME NEW k \in Keys, NEW b \in PeerProtected, NEW p \in Payloads, PeerSign(k, b, p)
      PROVE  SignedBytesKept'
  BY <1>7, KeptPeerSign
<1>8. ASSUME AlterSigned PROVE SignedBytesKept'
  BY <1>8, KeptAlterSigned
<1>9. ASSUME AlterUnsigned PROVE SignedBytesKept'
  <2>1. /\ UNCHANGED <<doc, log, docOf, wireOf>> /\ wire # None
        /\ \/ \E t \in WireTags : wire' = [wire EXCEPT !.tag = t]
           \/ \E u \in WireUnprotected : wire' = [wire EXCEPT !.unprotected = u]
    BY <1>9 DEF AlterUnsigned
  <2>2. /\ wire'.signature = wire.signature /\ wire'.protected = wire.protected
        /\ wire'.payload = wire.payload
    BY <2>1 DEF TypeOK
  <2>3. QED
    BY <2>1, <2>2 DEF Provenance, Made, Lineage, CarriedBy, Announced, Announces, Signed
<1>10. ASSUME ReadUnchanged \/ UNCHANGED vars PROVE SignedBytesKept'
  BY <1>3, <1>10 DEF ReadUnchanged, vars
<1>11. QED
  BY <1>1, <1>2, <1>4, <1>6, <1>7, <1>8, <1>9, <1>10
  DEF Next, VerifySignature, GetPayload, GetProtectedAndPayload

\* From signing to reading, over any number of serializations, loads and
\* alterations: no signature appears that no holder of a pair made, and an
\* unaltered document still carries the very bytes its signer signed.
THEOREM BytesKept == Spec => []SignedBytesKept
<1>1. QED BY TypeInit, TypeNext, KeptInit, KeptNext, PTL DEF Spec

(***************************************************************************)
(* What a reader with a key is given.                                      *)
(***************************************************************************)

\* No outcome of verify_signature is called "Ok".
LEMMA VerifyOutcomes ==
    ASSUME NEW d, NEW key \in Keys
    PROVE  "Ok" \notin verify_signature(d, key)
<1>1. "Ok" \notin VerifyErrors(key)
  BY KeysAssumption DEF VerifyErrors, KmsVerifyErrors, TpmVerifyErrors, KeyObjectOK
<1>2. QED BY <1>1 DEF verify_signature, verify

\* verify_signature returns true only past every one of its checks.
LEMMA VerifiedTrue ==
    ASSUME NEW d, NEW key \in Keys, "true" \in verify_signature(d, key)
    PROVE  /\ NamesAlgorithm(from_bytes(d.protected))
           /\ get(from_bytes(d.protected), AlgLabel).v = AlgId[SigAlg(key)]
           /\ Valid(key, Hash(Digest(key), SigStructure(d.protected, d.payload)), d.signature)
<1>1. "true" \notin VerifyErrors(key)
  BY KeysAssumption DEF VerifyErrors, KmsVerifyErrors, TpmVerifyErrors, KeyObjectOK
<1>2. QED BY <1>1 DEF verify_signature, verify

LEMMA GateOk ==
    ASSUME NEW d, NEW key \in Keys, "Ok" \in Gate(d, key)
    PROVE  "true" \in verify_signature(d, key)
<1>1. PICK o \in verify_signature(d, key) :
         "Ok" = CASE o = "true"  -> "Ok"
                  [] o = "false" -> "UnverifiedSignature"
                  [] OTHER       -> o
  BY KeysAssumption DEF Gate
<1>2. o # "Ok"
  BY VerifyOutcomes
<1>3. QED BY <1>1, <1>2

\* A signature that verifies was made by the key's own pair, over the very
\* header and payload of the document.
LEMMA VerifiedWasSigned ==
    ASSUME SignedBytesKept, doc # None, NEW key \in Keys, "true" \in verify_signature(doc, key)
    PROVE  \E e \in log :
              /\ Statement(e) = [pair |-> key.public, protected |-> from_bytes(doc.protected),
                                 payload |-> doc.payload]
              /\ NamesAlgorithm(Statement(e).protected)
              /\ get(Statement(e).protected, AlgLabel).v = AlgId[SigAlg(key)]
              /\ e.signature.over.digest = Digest(key)
<1>1. /\ doc.signature.pair = key.public
      /\ doc.signature.over = Hash(Digest(key), SigStructure(doc.protected, doc.payload))
  BY VerifiedTrue DEF Valid
<1>2. PICK e \in log : /\ e.signature.pair = key.public
                       /\ e.signature.over = doc.signature.over
  BY <1>1, KeysAssumption DEF SignedBytesKept, Provenance, Made
<1>3. /\ Signed(e).body_protected = doc.protected /\ Signed(e).payload = doc.payload
      /\ e.signature.over.digest = Digest(key)
  BY <1>1, <1>2 DEF Signed, Hash, SigStructure
<1>4. Statement(e) = [pair |-> key.public, protected |-> from_bytes(doc.protected),
                      payload |-> doc.payload]
  BY <1>2, <1>3 DEF Statement
<1>5. /\ NamesAlgorithm(Statement(e).protected)
      /\ get(Statement(e).protected, AlgLabel).v = AlgId[SigAlg(key)]
  BY <1>4, VerifiedTrue
<1>6. QED BY <1>3, <1>4, <1>5

\* Only the two get_* calls give anything out, and they change nothing else.
LEMMA OnlyGetsRelease ==
    ASSUME [Next]_vars, Released', ~UNCHANGED vars
    PROVE  \E key \in Keys :
              /\ doc # None /\ "Ok" \in Gate(doc, key)
              /\ result'.key = key
              /\ Accepted' = [pair |-> key.public, protected |-> from_bytes(doc.protected),
                              payload |-> doc.payload]
              /\ UNCHANGED <<doc, log>>
<1> USE DEF Released, GetCalls, Return
<1>1. ASSUME NEW call \in {"new", "new_with_protected"}, NEW k, NEW p, NEW h, NEW u,
             Build(call, k, p, h, u)
      PROVE  FALSE
  BY <1>1 DEF Build
<1>2. ASSUME NEW tagged, AsBytes(tagged) PROVE FALSE
  BY <1>2 DEF AsBytes
<1>3. ASSUME FromBytes \/ FromBytesTagged \/ Deserialize PROVE FALSE
  BY <1>3 DEF FromBytes, FromBytesTagged, Deserialize, Load
<1>4. ASSUME NEW k, VerifySignature(k) PROVE FALSE
  BY <1>4 DEF VerifySignature
<1>5. ASSUME result' = NoResult PROVE FALSE
  BY <1>5 DEF NoResult
<1>6. CASE \E k \in Keys \cup {None} : GetPayload(k)
  <2>1. PICK k \in Keys \cup {None} : GetPayload(k)
    BY <1>6
  <2>2. /\ doc # None /\ "Ok" \in Gate(doc, k) /\ UNCHANGED <<doc, log>>
        /\ result' = [call |-> "get_payload", key |-> k, outcome |-> "Ok",
                      data |-> [protected |-> None, payload |-> doc.payload]]
    BY <2>1 DEF GetPayload, ReadUnchanged
  <2>3. k \in Keys
    BY <2>2
  <2>4. QED BY <2>2, <2>3 DEF Accepted
<1>7. CASE \E k \in Keys \cup {None} : GetProtectedAndPayload(k)
  <2>1. PICK k \in Keys \cup {None} : GetProtectedAndPayload(k)
    BY <1>7
  <2>2. /\ doc # None /\ "Ok" \in Gate(doc, k) /\ UNCHANGED <<doc, log>>
        /\ result' = [call |-> "get_protected_and_payload", key |-> k, outcome |-> "Ok",
                      data |-> [protected |-> from_bytes(doc.protected),
                                payload |-> doc.payload]]
    BY <2>1 DEF GetProtectedAndPayload, ReadUnchanged
  <2>3. k \in Keys
    BY <2>2
  <2>4. QED BY <2>2, <2>3 DEF Accepted
<1>8. QED
  BY <1>1, <1>2, <1>3, <1>4, <1>5, <1>6, <1>7
  DEF Next, New, NewWithProtected, PeerSign, AlterSigned, AlterUnsigned

LEMMA BoundNext == SignedBytesKept /\ AlgorithmBound /\ [Next]_vars => AlgorithmBound'
<1> SUFFICES ASSUME SignedBytesKept, AlgorithmBound, [Next]_vars, Released'
             PROVE  AlgorithmBound'
  BY DEF AlgorithmBound
<1>1. CASE UNCHANGED vars
  BY <1>1 DEF AlgorithmBound, vars, Released, Statement, Signed, Accepted
<1>2. CASE ~UNCHANGED vars
  <2>1. PICK key \in Keys :
              /\ doc # None /\ "Ok" \in Gate(doc, key)
              /\ result'.key = key
              /\ Accepted' = [pair |-> key.public, protected |-> from_bytes(doc.protected),
                              payload |-> doc.payload]
              /\ UNCHANGED <<doc, log>>
    BY <1>2, OnlyGetsRelease
  <2>2. "true" \in verify_signature(doc, key)
    BY <2>1, GateOk
  <2>3. QED BY <2>1, <2>2, VerifiedWasSigned DEF AlgorithmBound, Statement, Signed
<1>3. QED BY <1>1, <1>2

LEMMA BoundIsAuthentic == AlgorithmBound => Authentic
  BY DEF AlgorithmBound, Authentic

LEMMA BoundInit == Init => AlgorithmBound
  BY DEF Init, AlgorithmBound, Released, NoResult, GetCalls

\* Content is given out for a key only if the key's pair signed it, under a
\* protected header that names the key's algorithm, with the key's digest.
THEOREM AlgorithmIsBound == Spec => []AlgorithmBound
<1>1. QED BY BytesKept, BoundInit, BoundNext, PTL DEF Spec

\* A payload, and protected headers, that get_payload or
\* get_protected_and_payload give out for a key were signed by the key's pair.
THEOREM ReadersGetSigned == Spec => []Authentic
<1>1. QED BY AlgorithmIsBound, BoundIsAuthentic, PTL

(***************************************************************************)
(* An untouched document verifies.                                         *)
(***************************************************************************)

\* The faults verify_signature may report for a document that is in order.
LEMMA InOrder ==
    ASSUME TypeOK, SignedBytesKept, NEW key \in Keys, docOf # None,
           docOf.by \in {"new", "peer"}, Reads(key, docOf)
    PROVE  verify_signature(doc, key) \subseteq {"true", "SignatureError"} \cup VerifyErrors(key)
<1>1. /\ doc.signature = docOf.signature
      /\ Signed(docOf) = SigStructure(doc.protected, doc.payload)
  BY DEF SignedBytesKept, Lineage, CarriedBy
<1>2. Signed(docOf).body_protected = doc.protected
  BY <1>1 DEF SigStructure
<1>3. PICK alg \in SignatureAlgorithm :
         /\ Parses(doc.protected) /\ NamesAlgorithm(from_bytes(doc.protected))
         /\ get(from_bytes(doc.protected), AlgLabel).v = AlgId[alg]
         /\ doc.signature.len = 2 * key_length[alg]
  BY <1>1, <1>2 DEF TypeOK, SignedBytesKept, Announced, Announces
<1>4. SigAlg(key) \in SignatureAlgorithm /\ HasParameters(key)
  BY KeysAssumption, KeyParameters DEF Reads
<1>5. SigAlg(key) = alg
  <2>1. 2 * key_length[SigAlg(key)] = 2 * key_length[alg]
    BY <1>1, <1>3 DEF Reads
  <2>2. key_length[SigAlg(key)] \in Nat /\ key_length[alg] \in Nat
    BY <1>4 DEF SignatureAlgorithm, key_length
  <2>3. QED BY <1>4, <2>1, <2>2, KeyLengths
<1>6. verify_signature(doc, key) =
         {"SignatureError"} \cup
         verify(key, Hash(Digest(key), SigStructure(doc.protected, doc.payload)), doc.signature)
  BY <1>3, <1>4, <1>5 DEF verify_signature
<1>7. ~(doc.signature.len < key_length[SigAlg(key)])
  <2>1. key_length[alg] \in Nat
    BY DEF SignatureAlgorithm, key_length
  <2>2. QED BY <1>3, <1>5, <2>1
<1>8. Valid(key, Hash(Digest(key), SigStructure(doc.protected, doc.payload)), doc.signature)
  <2> DEFINE over == docOf.signature.over
             data == SigStructure(over.data.body_protected, over.data.payload)
  <2>1. over = Hash(over.digest, data)
    BY DEF TypeOK, IsSignature
  <2> HIDE DEF data
  <2>2. over.data = data
    BY <2>1 DEF Hash
  <2>3. over = Hash(Digest(key), Signed(docOf))
    BY <2>1, <2>2 DEF Reads, Signed
  <2>4. QED BY <1>1, <2>3 DEF Valid, Reads
<1>9. QED BY <1>6, <1>7, <1>8 DEF verify, Reads

LEMMA OriginalParses ==
    ASSUME TypeOK, SignedBytesKept, docOf # None, docOf.by \in {"new", "peer"}
    PROVE  Parses(doc.protected)
  BY DEF TypeOK, SignedBytesKept, Lineage, CarriedBy, Announced, Announces, SigStructure

\* The gate of the get_* calls turns true into Ok and keeps errors.
LEMMA GateInOrder ==
    ASSUME NEW d, NEW key \in Keys,
           verify_signature(d, key) \subseteq {"true", "SignatureError"} \cup VerifyErrors(key)
    PROVE  Gate(d, key) \subseteq {"Ok", "SignatureError"} \cup VerifyErrors(key)
<1>1. ASSUME NEW o \in verify_signature(d, key)
      PROVE  (CASE o = "true"  -> "Ok"
                [] o = "false" -> "UnverifiedSignature"
                [] OTHER       -> o) \in {"Ok", "SignatureError"} \cup VerifyErrors(key)
  <2>1. "false" \notin VerifyErrors(key)
    BY KeysAssumption DEF VerifyErrors, KmsVerifyErrors, TpmVerifyErrors, KeyObjectOK
  <2>2. QED BY <1>1, <2>1
<1>2. QED BY <1>1, KeysAssumption DEF Gate

LEMMA VerifiesInit == Init => SelfVerifies
  BY DEF Init, SelfVerifies, ReadCalls, GetCalls, NoResult

LEMMA VerifiesNext ==
    TypeOK /\ SignedBytesKept /\ SelfVerifies /\ [Next]_vars => SelfVerifies'
<1> SUFFICES ASSUME TypeOK, SignedBytesKept, SelfVerifies, [Next]_vars,
                    result'.call \in ReadCalls, result'.key # None,
                    docOf' # None, docOf'.by \in {"new", "peer"}, Reads(result'.key, docOf')
             PROVE  result'.outcome \in {"Ok", "true", "SignatureError"}
                                          \cup VerifyErrors(result'.key)
  BY DEF SelfVerifies, Reads, VerifyErrors
<1> USE DEF ReadCalls, GetCalls, Return
<1>1. CASE UNCHANGED vars
  BY <1>1 DEF SelfVerifies, vars
<1>2. ASSUME NEW call \in {"new", "new_with_protected"}, NEW k, NEW p, NEW h, NEW u,
             Build(call, k, p, h, u)
      PROVE  FALSE
  BY <1>2 DEF Build
<1>3. ASSUME NEW tagged, AsBytes(tagged) PROVE FALSE
  BY <1>3 DEF AsBytes
<1>4. ASSUME FromBytes \/ FromBytesTagged \/ Deserialize PROVE FALSE
  BY <1>4 DEF FromBytes, FromBytesTagged, Deserialize, Load
<1>5. ASSUME result' = NoResult PROVE FALSE
  BY <1>5 DEF NoResult
<1>6. ASSUME NEW k \in Keys, VerifySignature(k)
      PROVE  result'.outcome \in {"true", "SignatureError"} \cup VerifyErrors(result'.key)
  <2>1. UNCHANGED docOf /\ result'.key = k /\ result'.outcome \in verify_signature(doc, k)
    BY <1>6 DEF VerifySignature, ReadUnchanged
  <2>2. QED BY <2>1, InOrder
<1>7. ASSUME NEW k \in Keys \cup {None}, GetPayload(k)
      PROVE  result'.outcome \in {"Ok", "SignatureError"} \cup VerifyErrors(result'.key)
  <2>1. UNCHANGED docOf /\ result'.key = k /\ result'.outcome \in Gate(doc, k)
    BY <1>7 DEF GetPayload, ReadUnchanged
  <2>2. k \in Keys
    BY <2>1
  <2>3. QED BY <2>1, <2>2, InOrder, GateInOrder
<1>8. ASSUME NEW k \in Keys \cup {None}, GetProtectedAndPayload(k)
      PROVE  result'.outcome \in {"Ok", "SignatureError"} \cup VerifyErrors(result'.key)
  <2>1. /\ UNCHANGED docOf /\ result'.key = k
        /\ \/ result'.outcome \in Gate(doc, k)
           \/ ~Parses(doc.protected)
    BY <1>8 DEF GetProtectedAndPayload, ReadUnchanged
  <2>2. k \in Keys
    BY <2>1
  <2>3. Parses(doc.protected)
    BY <2>1, OriginalParses
  <2>4. QED BY <2>1, <2>2, <2>3, InOrder, GateInOrder
<1>9. QED
  BY <1>1, <1>2, <1>3, <1>4, <1>5, <1>6, <1>7, <1>8
  DEF Next, New, NewWithProtected, PeerSign, AlterSigned, AlterUnsigned

\* A document of new() or of another implementation, carried around unaltered,
\* is accepted by every key object of its pair, unless the key's own operations
\* fail: none of the crate's checks refuses it.
THEOREM OwnDocumentsVerify == Spec => []SelfVerifies
<1>1. QED BY TypeCorrect, BytesKept, VerifiesInit, VerifiesNext, PTL DEF Spec

(***************************************************************************)
(* Serialized and loaded again.                                            *)
(***************************************************************************)

\* The unprotected headers are maps in memory and bytes in transit.
HeadersOK ==
    /\ doc # None => IsHeaderMap(doc.unprotected)
    /\ wire # None => IsEncoded(wire.unprotected)

\* After as_bytes the bytes are those of the document in memory, and after a
\* load the document is that of the bytes.
Written ==
    (result.call = "as_bytes" /\ result.outcome = "Ok") =>
       doc # None /\ wire = Serialized(doc, wire.tag) /\ wire.tag \in {None, 18}
Loaded ==
    (result.call \in Loads /\ result.outcome = "Ok") =>
       wire # None /\ doc = DocumentOf(wire) /\ Parses(wire.unprotected)

Transit == HeadersOK /\ Written /\ Loaded

LEMMA TransitInit == Init => Transit
  BY DEF Init, Transit, HeadersOK, Written, Loaded, Loads, NoResult

LEMMA EmptyIsEncoded == IsEncoded(to_vec(EmptyMap))
<1>1. IsFiniteSet({})
  BY FS_EmptySet
<1>2. IsHeaderMap(EmptyMap) /\ Serializable(EmptyMap)
  BY <1>1 DEF IsHeaderMap, Serializable, EmptyMap
<1>3. QED BY <1>2, EncodedIsEncoded

LEMMA TransitBuild ==
    ASSUME Transit, NEW key, NEW payload, NEW protected, NEW unprotected \in UnprotectedMaps,
           NEW call \in {"new", "new_with_protected"},
           Build(call, key, payload, protected, unprotected)
    PROVE  Transit'
<1>1. result'.call = call /\ UNCHANGED wire
      /\ (UNCHANGED doc \/ doc'.unprotected = unprotected)
  BY DEF Build, Return
<1>2. QED
  BY <1>1, HeadersAssumption DEF Transit, HeadersOK, Written, Loaded, Loads

LEMMA TransitLoad ==
    ASSUME Transit, NEW call \in Loads, NEW outcome, wire # None,
           outcome = "Ok" => Parses(wire.unprotected), Load(call, outcome)
    PROVE  Transit'
<1>1. /\ result'.call = call /\ result'.outcome = outcome /\ UNCHANGED wire
      /\ outcome = "Ok" => doc' = DocumentOf(wire)
      /\ outcome # "Ok" => UNCHANGED doc
  BY DEF Load, Return
<1>2. HeadersOK'
  BY <1>1, DecodedIsMap DEF Transit, HeadersOK, DocumentOf
<1>3. QED BY <1>1, <1>2 DEF Transit, Written, Loaded, Loads

LEMMA TransitNext == TypeOK /\ Transit /\ [Next]_vars => Transit'
<1> SUFFICES ASSUME TypeOK, Transit, [Next]_vars PROVE Transit'
  OBVIOUS
<1>1. CASE UNCHANGED vars
  BY <1>1 DEF vars, Transit, HeadersOK, Written, Loaded
<1>2. ASSUME NEW k \in Keys, NEW p \in Payloads, NEW u \in UnprotectedMaps, New(k, p, u)
      PROVE  Transit'
  BY <1>2, TransitBuild DEF New
<1>3. ASSUME NEW k \in Keys, NEW p \in Payloads, NEW h \in ProtectedMaps,
             NEW u \in UnprotectedMaps, NewWithProtected(k, p, h, u)
      PROVE  Transit'
  BY <1>3, TransitBuild DEF NewWithProtected
<1>4. ASSUME NEW tagged \in BOOLEAN, AsBytes(tagged) PROVE Transit'
  <2>1. doc # None /\ UNCHANGED doc /\ result'.call = "as_bytes"
    BY <1>4 DEF AsBytes, Return
  <2>2. CASE Serializable(doc.unprotected)
    <3>1. wire' = Serialized(doc, IF tagged THEN 18 ELSE None)
      BY <1>4, <2>2 DEF AsBytes, Return
    <3>2. /\ wire'.unprotected = to_vec(doc.unprotected) /\ wire'.tag \in {None, 18}
          /\ wire' = Serialized(doc, wire'.tag)
      BY <3>1 DEF Serialized
    <3>3. IsEncoded(to_vec(doc.unprotected))
      BY <2>1, <2>2, EncodedIsEncoded DEF Transit, HeadersOK
    <3>4. QED
      BY <2>1, <3>2, <3>3 DEF Transit, HeadersOK, Written, Loaded, Loads
  <2>3. CASE ~Serializable(doc.unprotected)
    <3>1. UNCHANGED wire /\ result'.outcome = "SerializationError"
      BY <1>4, <2>3 DEF AsBytes, Return
    <3>2. QED BY <2>1, <3>1 DEF Transit, HeadersOK, Written, Loaded, Loads
  <2>4. QED BY <2>2, <2>3
<1>5. ASSUME FromBytes \/ FromBytesTagged \/ Deserialize PROVE Transit'
  BY <1>5, TransitLoad
  DEF FromBytes, FromBytesTagged, Deserialize, LoadOutcome, Deserializes, Loads
<1>6. ASSUME NEW k, VerifySignature(k) \/ GetPayload(k) \/ GetProtectedAndPayload(k)
      PROVE  Transit'
  <2>1. UNCHANGED <<doc, wire>> /\ result'.call \in ReadCalls
    BY <1>6 DEF VerifySignature, GetPayload, GetProtectedAndPayload, ReadUnchanged, Return,
                ReadCalls, GetCalls
  <2>2. QED
    BY <2>1 DEF Transit, HeadersOK, Written, Loaded, Loads, ReadCalls, GetCalls
<1>7. ASSUME result' = NoResult, UNCHANGED doc, wire # None,
             wire'.unprotected = wire.unprotected \/ wire'.unprotected \in WireUnprotected
      PROVE  Transit'
  BY <1>7, HeadersAssumption DEF NoResult, Transit, HeadersOK, Written, Loaded, Loads
<1>8. ASSUME NEW k \in Keys, NEW b \in PeerProtected, NEW p \in Payloads, PeerSign(k, b, p)
      PROVE  Transit'
  <2>1. result' = NoResult /\ UNCHANGED doc /\ wire'.unprotected = to_vec(EmptyMap)
    BY <1>8 DEF PeerSign
  <2>2. QED
    BY <2>1, EmptyIsEncoded DEF NoResult, Transit, HeadersOK, Written, Loaded, Loads
<1>9. ASSUME AlterSigned PROVE Transit'
  <2>1. result' = NoResult /\ UNCHANGED doc /\ wire # None /\ wire' \in AlteredSigned(wire)
    BY <1>9 DEF AlterSigned
  <2>2. wire'.unprotected = wire.unprotected
    BY <2>1 DEF AlteredSigned, TypeOK
  <2>3. QED BY <1>7, <2>1, <2>2
<1>10. ASSUME AlterUnsigned PROVE Transit'
  <2>1. /\ result' = NoResult /\ UNCHANGED doc /\ wire # None
        /\ \/ \E t \in WireTags : wire' = [wire EXCEPT !.tag = t]
           \/ \E u \in WireUnprotected : wire' = [wire EXCEPT !.unprotected = u]
    BY <1>10 DEF AlterUnsigned
  <2>2. wire'.unprotected = wire.unprotected \/ wire'.unprotected \in WireUnprotected
    BY <2>1 DEF TypeOK
  <2>3. QED BY <1>7, <2>1, <2>2
<1>11. QED
  BY <1>1, <1>2, <1>3, <1>4, <1>5, <1>6, <1>8, <1>9, <1>10 DEF Next

\* What was written is read back.
LEMMA LoadedIsWritten ==
    ASSUME TypeOK, Transit, result.call = "as_bytes", result.outcome = "Ok",
           Parses(doc.protected)
    PROVE  /\ Deserializes(wire) /\ DocumentOf(wire) = doc
           /\ LoadOutcome(wire, {None, 18}) = "Ok"
           /\ \/ LoadOutcome(wire, {18}) = "Ok"
              \/ wire.tag = None /\ LoadOutcome(wire, {18}) = "TagError"
<1>1. /\ wire.arity = 4 /\ wire.protected = doc.protected
      /\ wire.unprotected = to_vec(doc.unprotected)
      /\ wire.payload = doc.payload /\ wire.signature = doc.signature
      /\ wire.tag \in {None, 18} /\ doc # None
  BY DEF Transit, Written, Serialized
<1>2. Parses(wire.unprotected) /\ from_bytes(wire.unprotected) = doc.unprotected
  BY <1>1, DecodesEncoded DEF Transit, HeadersOK
<1>3. DocumentOf(wire) = doc
  BY <1>1, <1>2 DEF DocumentOf, TypeOK
<1>4. QED BY <1>1, <1>2, <1>3 DEF LoadOutcome, Deserializes

LEMMA RoundTripNext ==
    TypeOK /\ Transit /\ [Next]_vars
    => [(/\ result.call = "as_bytes" /\ result.outcome = "Ok"
         /\ Parses(doc.protected) /\ result'.call \in Loads)
        => /\ doc' = doc
           /\ \/ result'.outcome = "Ok"
              \/ /\ result'.call = "from_bytes_tagged" /\ wire.tag = None
                 /\ result'.outcome = "TagError"]_vars
<1> DEFINE Back == /\ doc' = doc
                   /\ \/ result'.outcome = "Ok"
                      \/ /\ result'.call = "from_bytes_tagged" /\ wire.tag = None
                         /\ result'.outcome = "TagError"
<1> SUFFICES ASSUME TypeOK, Transit, [Next]_vars,
                    result.call = "as_bytes", result.outcome = "Ok",
                    Parses(doc.protected), result'.call \in Loads
             PROVE  Back
  OBVIOUS
<1> USE DEF Return, Loads
<1>1. ASSUME UNCHANGED vars PROVE FALSE
  BY <1>1 DEF vars
<1>2. ASSUME NEW call \in {"new", "new_with_protected"}, NEW k, NEW p, NEW h, NEW u,
             Build(call, k, p, h, u)
      PROVE  FALSE
  BY <1>2 DEF Build
<1>3. ASSUME NEW tagged, AsBytes(tagged) PROVE FALSE
  BY <1>3 DEF AsBytes
<1>4. ASSUME NEW k, VerifySignature(k) \/ GetPayload(k) \/ GetProtectedAndPayload(k) PROVE FALSE
  BY <1>4 DEF VerifySignature, GetPayload, GetProtectedAndPayload
<1>5. ASSUME result' = NoResult PROVE FALSE
  BY <1>5 DEF NoResult
<1>6. ASSUME FromBytes \/ Deserialize PROVE Back
  BY <1>6, LoadedIsWritten DEF FromBytes, Deserialize, Load
<1>7. ASSUME FromBytesTagged PROVE Back
  BY <1>7, LoadedIsWritten DEF FromBytesTagged, Load
<1> HIDE DEF Back
<1>8. QED
  BY <1>1, <1>2, <1>3, <1>4, <1>5, <1>6, <1>7
  DEF Next, New, NewWithProtected, PeerSign, AlterSigned, AlterUnsigned

\* as_bytes followed by a load gives back the very document, unprotected
\* headers of any size included.
THEOREM RoundTrips == Spec => RoundTrip
<1>1. QED BY TypeCorrect, TransitInit, TransitNext, RoundTripNext, PTL DEF Spec, RoundTrip

LEMMA RelayNext ==
    TypeOK /\ Transit /\ [Next]_vars
    => [(result.call \in Loads /\ result.outcome = "Ok" /\ result'.call = "as_bytes")
        => /\ result'.outcome = "Ok"
           /\ wire'.protected = wire.protected /\ wire'.payload = wire.payload
           /\ wire'.signature = wire.signature
           /\ Parses(wire'.unprotected)
           /\ from_bytes(wire'.unprotected) = from_bytes(wire.unprotected)]_vars
<1> DEFINE Kept == /\ result'.outcome = "Ok"
                   /\ wire'.protected = wire.protected /\ wire'.payload = wire.payload
                   /\ wire'.signature = wire.signature
                   /\ Parses(wire'.unprotected)
                   /\ from_bytes(wire'.unprotected) = from_bytes(wire.unprotected)
<1> SUFFICES ASSUME TypeOK, Transit, [Next]_vars,
                    result.call \in Loads, result.outcome = "Ok", result'.call = "as_bytes"
             PROVE  Kept
  OBVIOUS
<1> USE DEF Return, Loads
<1>1. ASSUME UNCHANGED vars PROVE FALSE
  BY <1>1 DEF vars
<1>2. ASSUME NEW call \in {"new", "new_with_protected"}, NEW k, NEW p, NEW h, NEW u,
             Build(call, k, p, h, u)
      PROVE  FALSE
  BY <1>2 DEF Build
<1>3. ASSUME FromBytes \/ FromBytesTagged \/ Deserialize PROVE FALSE
  BY <1>3 DEF FromBytes, FromBytesTagged, Deserialize, Load
<1>4. ASSUME NEW k, VerifySignature(k) \/ GetPayload(k) \/ GetProtectedAndPayload(k) PROVE FALSE
  BY <1>4 DEF VerifySignature, GetPayload, GetProtectedAndPayload
<1>5. ASSUME result' = NoResult PROVE FALSE
  BY <1>5 DEF NoResult
<1>6. ASSUME NEW tagged, AsBytes(tagged) PROVE Kept
  <2> DEFINE u == from_bytes(wire.unprotected)
  <2>1. wire # None /\ Parses(wire.unprotected) /\ doc = DocumentOf(wire)
    BY DEF Transit, Loaded
  <2>2. IsHeaderMap(u) /\ Serializable(u)
    BY <2>1, DecodedIsMap DEF Transit, HeadersOK
  <2>3. /\ doc.unprotected = u /\ doc.protected = wire.protected
        /\ doc.payload = wire.payload /\ doc.signature = wire.signature
    BY <2>1 DEF DocumentOf
  <2>4. wire' = Serialized(doc, IF tagged THEN 18 ELSE None) /\ result'.outcome = "Ok"
    BY <1>6, <2>2, <2>3 DEF AsBytes
  <2>5. /\ wire'.protected = doc.protected /\ wire'.payload = doc.payload
        /\ wire'.signature = doc.signature /\ wire'.unprotected = to_vec(doc.unprotected)
    BY <2>4 DEF Serialized
  <2>6. Parses(to_vec(u)) /\ from_bytes(to_vec(u)) = u
    BY <2>2, DecodesEncoded
  <2>7. QED BY <2>3, <2>4, <2>5, <2>6
<1> HIDE DEF Kept
<1>7. QED
  BY <1>1, <1>2, <1>3, <1>4, <1>5, <1>6
  DEF Next, New, NewWithProtected, PeerSign, AlterSigned, AlterUnsigned

\* Who loads a document and serializes it again does not fail, and passes on
\* what the signature covers and the same unprotected headers.
THEOREM RelaysKeep == Spec => RelayKeeps
<1>1. QED BY TypeCorrect, TransitInit, TransitNext, RelayNext, PTL DEF Spec, RelayKeeps

(***************************************************************************)
(* The refinement.                                                         *)
(***************************************************************************)
LEMMA RefinesInit == Init => Abstract!Init
  BY DEF Init, Abstract!Init, Accepted, Released, NoResult, GetCalls

\* No step but the two that sign adds a statement, and they add one.
LEMMA RefinesLog ==
    ASSUME [Next]_vars, ~UNCHANGED vars
    PROVE  \/ UNCHANGED log
           \/ \E entry : log' = log \cup {entry} /\ ~Released'
<1>1. ASSUME NEW call \in {"new", "new_with_protected"}, NEW k, NEW p, NEW h, NEW u,
             Build(call, k, p, h, u)
      PROVE  UNCHANGED log \/ \E entry : log' = log \cup {entry} /\ ~Released'
  BY <1>1 DEF Build, Released, GetCalls, Return
<1>2. ASSUME NEW k, NEW b, NEW p, PeerSign(k, b, p)
      PROVE  \E entry : log' = log \cup {entry} /\ ~Released'
  BY <1>2 DEF PeerSign, Released, GetCalls, NoResult
<1>3. QED
  BY <1>1, <1>2
  DEF Next, New, NewWithProtected, AsBytes, Serialized, FromBytes, FromBytesTagged, Deserialize, Load,
      VerifySignature, GetPayload, GetProtectedAndPayload, ReadUnchanged, AlterSigned,
      AlterUnsigned

LEMMA RefinesNext ==
    SignedBytesKept /\ AlgorithmBound' /\ [Next]_vars
    => [Abstract!Next]_<<{Statement(e) : e \in log}, Accepted>>
<1> SUFFICES ASSUME SignedBytesKept, AlgorithmBound', [Next]_vars
             PROVE  [Abstract!Next]_<<{Statement(e) : e \in log}, Accepted>>
  OBVIOUS
<1> DEFINE authored == {Statement(e) : e \in log}
<1>1. CASE UNCHANGED vars
  BY <1>1 DEF vars, Accepted, Released, Statement, Signed
<1>2. CASE ~UNCHANGED vars /\ UNCHANGED log /\ ~Released'
  <2>1. Accepted' = None /\ authored' = authored
    BY <1>2 DEF Accepted, Statement, Signed
  <2>2. QED BY <2>1 DEF Abstract!Next, Abstract!Other
<1>3. CASE ~UNCHANGED vars /\ Released'
  <2>1. UNCHANGED log
    BY <1>3, RefinesLog
  <2>2. authored' = authored /\ Accepted' \in authored'
    BY <1>3, <2>1 DEF AlgorithmBound, Statement, Signed
  <2>3. QED BY <2>2 DEF Abstract!Next, Abstract!Accept
<1>4. CASE ~UNCHANGED vars /\ \E entry : log' = log \cup {entry} /\ ~Released'
  <2>1. PICK entry : log' = log \cup {entry} /\ ~Released'
    BY <1>4
  <2>2. Accepted' = None /\ authored' = authored \cup {Statement(entry)}
    BY <2>1 DEF Accepted, Statement, Signed
  <2>3. QED BY <2>2 DEF Abstract!Next, Abstract!Author
<1>5. QED BY <1>1, <1>2, <1>3, <1>4, RefinesLog

\* COSE_Sign1 implements AuthoredStatements: a reader who names a key learns
\* nothing but what the holder of its pair has said.
THEOREM Refinement == Spec => Implements
<1>1. QED
  BY RefinesInit, RefinesNext, BytesKept, AlgorithmIsBound, PTL
  DEF Spec, Implements, Abstract!Spec
============================================================================
