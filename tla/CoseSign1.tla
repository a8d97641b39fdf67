----------------------------- MODULE CoseSign1 -----------------------------
(***************************************************************************)
(* sign.rs: the life of COSE_Sign1 documents.  An application builds a     *)
(* document, serializes it, loads one from bytes, and reads it with or     *)
(* without a key.  The bytes travel and rest outside the crate, where      *)
(* other COSE implementations write them too and where they get altered.   *)
(*                                                                         *)
(* A call of the crate takes &self or values and keeps nothing, so a call  *)
(* is one step.  The two slots, the document in memory and the bytes in    *)
(* transit, are overwritten by the calls that produce a new one; building, *)
(* serializing and loading may follow each other any number of times.      *)
(***************************************************************************)
EXTENDS Crypto

CONSTANTS
    Keys,            \* the key objects of the application (see Crypto)
    Payloads,        \* payload byte strings
    ProtectedMaps,   \* header maps given to new_with_protected
    UnprotectedMaps, \* header maps given as unprotected headers
    PeerProtected,   \* encoded protected headers other implementations write
    WireUnprotected, \* encoded unprotected headers found on the wire
    WireTags,        \* CBOR tags found on the wire
    WireLengths,     \* lengths of signatures cut short on the wire
    MaxSigned,       \* bound: signatures made in a behaviour
    MaxAltered,      \* bound: alterations of signed fields in a behaviour
    None             \* no tag, no key, no document, no bytes, no data

\* Keys holds key objects the constructors return, in which None stands for
\* neither the object nor a pair, and None is not a CBOR tag.
ASSUME KeysAssumption ==
    /\ \A k \in Keys : KeyObjectOK(k) /\ k # None /\ k.pair # None /\ k.public # None
    /\ None # 18
ASSUME HeadersAssumption ==
    /\ \A h \in ProtectedMaps \cup UnprotectedMaps : IsHeaderMap(h)
    /\ \A b \in PeerProtected \cup WireUnprotected : IsEncoded(b)
ASSUME BoundsAssumption == MaxSigned \in Nat /\ MaxAltered \in Nat /\ WireLengths \subseteq Nat

VARIABLES
    doc,     \* the CoseSign1 in memory
    wire,    \* the serialized document in transit
    log,     \* history: every signature made, and by which call
    docOf,   \* history: the signature doc was made with, while no field that
             \* the signature covers has been altered since
    wireOf,  \* history: the same for wire
    altered, \* history: how many alterations of signed fields there were
    result   \* what the last call returned

vars == <<doc, wire, log, docOf, wireOf, altered, result>>

----------------------------------------------------------------------------
(* SigStructure::new_sign1 and as_bytes: the byte stream that is hashed. *)

\* (mutant) the protected header is left out of the signed bytes
SigStructure_PayloadOnly(body_protected, payload) ==
    [context |-> "Signature1", body_protected |-> ZeroLength,
     external_aad |-> ZeroLength, payload |-> payload]

SigStructure(body_protected, payload) ==
    [context |-> "Signature1", body_protected |-> body_protected,
     external_aad |-> ZeroLength, payload |-> payload]

----------------------------------------------------------------------------
(* verify_signature, as the set of outcomes it can have: more than one,    *)
(* because hashing and the key's own operations can fail at any time.      *)

NamesAlgorithm(map) == Has(map, AlgLabel) /\ get(map, AlgLabel).kind = "Integer"

\* (mutant) the algorithm check is dropped
verify_signature_AnyAlgorithm(d, key) ==
    LET hashed == Hash(Digest(key), SigStructure(d.protected, d.payload))
    IN  IF ~HasParameters(key) THEN {"UnsupportedError"}
        ELSE IF ~Parses(d.protected) THEN {"SerializationError"}
        ELSE {"SignatureError"} \cup verify(key, hashed, d.signature)

\* (mutant) the protected header is encoded anew, as CoseEncrypt0::decrypt does
verify_signature_Reencoded(d, key) ==
    LET map    == from_bytes(d.protected)
        hashed == Hash(Digest(key), SigStructure(map_to_empty_or_serialized(map), d.payload))
    IN  IF ~HasParameters(key) THEN {"UnsupportedError"}
        ELSE IF ~Parses(d.protected) THEN {"SerializationError"}
        ELSE IF ~NamesAlgorithm(map) THEN {"SpecificationError"}
        ELSE IF get(map, AlgLabel).v # AlgId[SigAlg(key)] THEN {"false"}
        ELSE {"SignatureError"} \cup verify(key, hashed, d.signature)

verify_signature(d, key) ==
    LET map    == from_bytes(d.protected)
        hashed == Hash(Digest(key), SigStructure(d.protected, d.payload))
    IN  IF ~HasParameters(key) THEN {"UnsupportedError"}
        ELSE IF ~Parses(d.protected) THEN {"SerializationError"}
        ELSE IF ~NamesAlgorithm(map) THEN {"SpecificationError"}
        ELSE IF get(map, AlgLabel).v # AlgId[SigAlg(key)] THEN {"false"}
        ELSE {"SignatureError"} \cup verify(key, hashed, d.signature)

\* (mutant) only an error stops the call, Ok(false) does not
Gate_ErrorsOnly(d, key) ==
    IF key = None THEN {"Ok"}
    ELSE {IF o \in {"true", "false"} THEN "Ok" ELSE o : o \in verify_signature(d, key)}

\* The gate of the get_* calls: no key, no verification.
Gate(d, key) ==
    IF key = None THEN {"Ok"}
    ELSE {CASE o = "true"  -> "Ok"
            [] o = "false" -> "UnverifiedSignature"
            [] OTHER       -> o : o \in verify_signature(d, key)}

----------------------------------------------------------------------------
Return(call, key, outcome, data) ==
    result' = [call |-> call, key |-> key, outcome |-> outcome, data |-> data]

NoResult == [call |-> "none", key |-> None, outcome |-> "none", data |-> None]

Init ==
    /\ doc = None /\ wire = None
    /\ log = {}
    /\ docOf = None /\ wireOf = None
    /\ altered = 0
    /\ result = NoResult

----------------------------------------------------------------------------
(* Building a document. *)

BuildErrors(key, protected) ==
    IF ~HasParameters(key) THEN {"UnsupportedError"}
    ELSE IF ~Serializable(protected) THEN {"SerializationError"}
    ELSE {"SignatureError"} \cup SignErrors(key)

\* The bytes of the protected header are made once, signed and stored.
Build(call, key, payload, protected, unprotected) ==
    \/ /\ \E e \in BuildErrors(key, protected) : Return(call, key, e, None)
       /\ UNCHANGED <<doc, wire, log, docOf, wireOf, altered>>
    \/ /\ HasParameters(key) /\ Serializable(protected) /\ CanSign(key)
       /\ LET bytes == map_to_empty_or_serialized(protected)
              signature == Signature(key, Hash(Digest(key), SigStructure(bytes, payload)))
              entry == [by |-> call, signature |-> signature]
          IN  /\ doc' = [protected |-> bytes, unprotected |-> unprotected,
                         payload |-> payload, signature |-> signature]
              /\ log' = log \cup {entry}
              /\ docOf' = entry
       /\ Cardinality(log') <= MaxSigned
       /\ Return(call, key, "Ok", None)
       /\ UNCHANGED <<wire, wireOf, altered>>

\* new() asks the key for its algorithm and makes the protected header of it.
New(key, payload, unprotected) ==
    /\ key.private
    /\ Build("new", key, payload,
             IF HasParameters(key) THEN AlgorithmHeader(SigAlg(key)) ELSE EmptyMap,
             unprotected)

NewWithProtected(key, payload, protected, unprotected) ==
    /\ key.private
    /\ Build("new_with_protected", key, payload, protected, unprotected)

----------------------------------------------------------------------------
(* Serializing and loading. *)

\* (mutant) one field is not serialized
Serialized_ThreeFields(d, tag) ==
    [tag |-> tag, arity |-> 3, protected |-> d.protected,
     unprotected |-> to_vec(d.unprotected), payload |-> d.payload, signature |-> d.signature]

\* (mutant) the protected header is encoded anew
Serialized_Reencoded(d, tag) ==
    [tag |-> tag, arity |-> 4,
     protected |-> IF Parses(d.protected) THEN to_vec(from_bytes(d.protected)) ELSE d.protected,
     unprotected |-> to_vec(d.unprotected), payload |-> d.payload, signature |-> d.signature]

\* Serialize for CoseSign1.
Serialized(d, tag) ==
    [tag |-> tag, arity |-> 4, protected |-> d.protected,
     unprotected |-> to_vec(d.unprotected), payload |-> d.payload, signature |-> d.signature]

AsBytes(tagged) ==
    /\ doc # None
    /\ \/ /\ Serializable(doc.unprotected)
          /\ wire' = Serialized(doc, IF tagged THEN 18 ELSE None)
          /\ wireOf' = docOf
          /\ Return("as_bytes", None, "Ok", None)
       \/ /\ ~Serializable(doc.unprotected)
          /\ Return("as_bytes", None, "SerializationError", None)
          /\ UNCHANGED <<wire, wireOf>>
    /\ UNCHANGED <<doc, log, docOf, altered>>

\* The Deserialize impl: an array of the four fields, whose second one must
\* itself decode as a HeaderMap.  A tag is skipped, whatever it is.
Deserializes(w) == w.arity = 4 /\ Parses(w.unprotected)

LoadOutcome(w, tags) ==
    IF ~Deserializes(w) THEN "SerializationError"
    ELSE IF w.tag \notin tags THEN "TagError"
    ELSE IF ~Parses(w.protected) THEN "SerializationError"
    ELSE "Ok"

DocumentOf(w) ==
    [protected |-> w.protected, unprotected |-> from_bytes(w.unprotected),
     payload |-> w.payload, signature |-> w.signature]

Load(call, outcome) ==
    /\ \/ outcome = "Ok" /\ doc' = DocumentOf(wire) /\ docOf' = wireOf
       \/ outcome # "Ok" /\ UNCHANGED <<doc, docOf>>
    /\ Return(call, None, outcome, None)
    /\ UNCHANGED <<wire, log, wireOf, altered>>

\* (mutant) the tag has become mandatory
FromBytes_TagRequired ==
    wire # None /\ Load("from_bytes", LoadOutcome(wire, {18}))

FromBytes ==
    wire # None /\ Load("from_bytes", LoadOutcome(wire, {None, 18}))

FromBytesTagged ==
    wire # None /\ Load("from_bytes_tagged", LoadOutcome(wire, {18}))

\* serde_cbor::from_slice::<CoseSign1>, the type used with serde directly.
Deserialize ==
    /\ wire # None
    /\ Load("deserialize", IF Deserializes(wire) THEN "Ok" ELSE "SerializationError")

----------------------------------------------------------------------------
(* Reading a document; key = None is the call without a key. *)

ReadUnchanged == UNCHANGED <<doc, wire, log, docOf, wireOf, altered>>

VerifySignature(key) ==
    /\ doc # None
    /\ \E o \in verify_signature(doc, key) : Return("verify_signature", key, o, None)
    /\ ReadUnchanged

GetPayload(key) ==
    /\ doc # None
    /\ \E o \in Gate(doc, key) :
          Return("get_payload", key, o,
                 IF o = "Ok" THEN [protected |-> None, payload |-> doc.payload] ELSE None)
    /\ ReadUnchanged

GetProtectedAndPayload(key) ==
    /\ doc # None
    /\ \E o \in Gate(doc, key) :
          \/ o # "Ok" /\ Return("get_protected_and_payload", key, o, None)
          \/ /\ o = "Ok" /\ ~Parses(doc.protected)
             /\ Return("get_protected_and_payload", key, "SerializationError", None)
          \/ /\ o = "Ok" /\ Parses(doc.protected)
             /\ Return("get_protected_and_payload", key, "Ok",
                       [protected |-> from_bytes(doc.protected), payload |-> doc.payload])
    /\ ReadUnchanged

----------------------------------------------------------------------------
(* Outside the crate. *)

\* Another COSE implementation that holds the pair signs a document.  It may
\* order the entries of its protected header as it likes, and signs the bytes
\* it wrote with the digest of the algorithm it names.
PeerSign(key, protected, payload) ==
    /\ key.private /\ SupportedCurve(key.pair.curve)
    /\ LET alg == CurveAlg[key.pair.curve]
           signature == [pair |-> key.pair,
                         over |-> Hash(suggested_message_digest[alg],
                                       SigStructure(protected, payload)),
                         len |-> 2 * key_length[alg]]
           entry == [by |-> "peer", signature |-> signature]
       IN  /\ Parses(protected) /\ AlgLabel \in Labels(protected)
           /\ get(from_bytes(protected), AlgLabel) = CborInteger(AlgId[alg])
           /\ log' = log \cup {entry}
           /\ wireOf' = entry
           /\ wire' = [tag |-> 18, arity |-> 4, protected |-> protected,
                       unprotected |-> to_vec(EmptyMap),
                       payload |-> payload, signature |-> signature]
    /\ Cardinality(log') <= MaxSigned
    /\ result' = NoResult
    /\ UNCHANGED <<doc, docOf, altered>>

\* A field that the signature covers, the signature itself or the shape of
\* the array is replaced.  Signatures that were made once may be put back.
AlteredSigned(w) ==
    {[w EXCEPT !.payload = p] : p \in Payloads}
    \cup {[w EXCEPT !.protected = b] : b \in PeerProtected}
    \cup {[w EXCEPT !.signature = e.signature] : e \in log}
    \cup {[w EXCEPT !.signature.len = n] : n \in WireLengths}
    \cup {[w EXCEPT !.signature.pair = None], [w EXCEPT !.arity = 3]}

AlterSigned ==
    /\ wire # None /\ altered < MaxAltered
    /\ wire' \in AlteredSigned(wire)
    /\ wireOf' = None
    /\ altered' = altered + 1
    /\ result' = NoResult
    /\ UNCHANGED <<doc, log, docOf>>

\* The tag and the unprotected headers belong to nobody.
AlterUnsigned ==
    /\ wire # None
    /\ \/ \E t \in WireTags : wire' = [wire EXCEPT !.tag = t]
       \/ \E u \in WireUnprotected : wire' = [wire EXCEPT !.unprotected = u]
    /\ result' = NoResult
    /\ UNCHANGED <<doc, log, docOf, wireOf, altered>>

----------------------------------------------------------------------------
Next ==
    \/ \E k \in Keys, p \in Payloads, u \in UnprotectedMaps : New(k, p, u)
    \/ \E k \in Keys, p \in Payloads, h \in ProtectedMaps, u \in UnprotectedMaps :
          NewWithProtected(k, p, h, u)
    \/ \E tagged \in BOOLEAN : AsBytes(tagged)
    \/ FromBytes
    \/ FromBytesTagged
    \/ Deserialize
    \/ \E k \in Keys : VerifySignature(k)
    \/ \E k \in Keys \cup {None} : GetPayload(k)
    \/ \E k \in Keys \cup {None} : GetProtectedAndPayload(k)
    \/ \E k \in Keys, b \in PeerProtected, p \in Payloads : PeerSign(k, b, p)
    \/ AlterSigned
    \/ AlterUnsigned

Spec == Init /\ [][Next]_vars

----------------------------------------------------------------------------
(* Properties. *)

IsSignature(s) ==
    /\ s = [pair |-> s.pair, over |-> s.over, len |-> s.len]
    /\ s.over = Hash(s.over.digest, SigStructure(s.over.data.body_protected, s.over.data.payload))
    /\ s.over.digest \in MessageDigest
    /\ s.over.data.payload \in Payloads
    /\ s.len \in Nat

\* The type invariant: slots hold None or a document, serialized document or
\* signature record of the right shape.
TypeOK ==
    /\ doc # None =>
         /\ doc = [protected |-> doc.protected, unprotected |-> doc.unprotected,
                   payload |-> doc.payload, signature |-> doc.signature]
         /\ doc.payload \in Payloads /\ IsSignature(doc.signature)
    /\ wire # None =>
         /\ wire = [tag |-> wire.tag, arity |-> wire.arity, protected |-> wire.protected,
                    unprotected |-> wire.unprotected,
                    payload |-> wire.payload, signature |-> wire.signature]
         /\ wire.arity \in {3, 4} /\ (altered = 0 => wire.arity = 4)
         /\ wire.payload \in Payloads /\ IsSignature(wire.signature)
    /\ \A e \in log : /\ e.by \in {"new", "new_with_protected", "peer"}
                      /\ IsSignature(e.signature)
    /\ docOf \in log \cup {None} /\ wireOf \in log \cup {None}
    /\ altered \in Nat

\* What a signature says, read by someone who knows the pair.
Signed(e) == e.signature.over.data
Statement(e) ==
    [pair |-> e.signature.pair, protected |-> from_bytes(Signed(e).body_protected),
     payload |-> Signed(e).payload]

\* Where signatures come from: whatever was altered, the pair and the data of a
\* signature that names a pair are those of a signature in the log.
Made(s) ==
    s.pair # None =>
       \E e \in log : e.signature.pair = s.pair /\ e.signature.over = s.over
Provenance ==
    /\ doc # None => Made(doc.signature)
    /\ wire # None => Made(wire.signature)

\* An unaltered document carries the bytes that were signed, not merely a
\* header and a payload equal to them.
CarriedBy(e, d) ==
    e # None => d.signature = e.signature /\ Signed(e) = SigStructure(d.protected, d.payload)
Lineage == CarriedBy(docOf, doc) /\ CarriedBy(wireOf, wire)

\* What new() and other implementations sign names the algorithm whose
\* signature length it has.
Announces(e) ==
    \E alg \in SignatureAlgorithm :
       LET bytes == Signed(e).body_protected
       IN  /\ Parses(bytes) /\ NamesAlgorithm(from_bytes(bytes))
           /\ get(from_bytes(bytes), AlgLabel).v = AlgId[alg]
           /\ e.signature.len = 2 * key_length[alg]
Announced == \A e \in log : e.by \in {"new", "peer"} => Announces(e)

\* The invariant behind the theorems of CoseSign1_proofs: the bytes of the
\* protected header (sign.rs:285-286, 303-308) are made once and stay the
\* ones that are signed, stored, serialized, loaded and verified.
SignedBytesKept == Provenance /\ Lineage /\ Announced

GetCalls == {"get_payload", "get_protected_and_payload"}
Released == result.call \in GetCalls /\ result.outcome = "Ok" /\ result.key # None

\* The statement a reader with a key has been given.  get_payload does not
\* return the protected header: the reader relies on the document's.
Accepted ==
    IF Released
    THEN [pair |-> result.key.public, payload |-> result.data.payload,
          protected |-> IF result.call = "get_payload" THEN from_bytes(doc.protected)
                        ELSE result.data.protected]
    ELSE None

\* get_payload and get_protected_and_payload with a key (sign.rs:418-441)
\* give out a payload and protected headers only if the key's own pair signed
\* exactly these, whatever was altered between signing and reading.
Authentic == Released => \E e \in log : Statement(e) = Accepted

\* The algorithm check of verify_signature (sign.rs:379-399): content is given
\* out for a key only if its signer put the key's algorithm into the signed
\* header and hashed with the digest the key uses.
AlgorithmBound ==
    Released =>
       \E e \in log :
          /\ Statement(e) = Accepted
          /\ NamesAlgorithm(Statement(e).protected)
          /\ get(Statement(e).protected, AlgLabel).v = AlgId[SigAlg(result.key)]
          /\ e.signature.over.digest = Digest(result.key)

\* A key that should accept what e's signer signed.
Reads(key, e) ==
    /\ HasParameters(key) /\ key.public = e.signature.pair
    /\ key.backend = "kms" => KmsAccepts(key)
    /\ e.signature.len = 2 * key_length[SigAlg(key)]
    /\ e.signature.over.digest = Digest(key)

ReadCalls == GetCalls \cup {"verify_signature"}

\* A document made by new(), or by another implementation in whatever entry
\* order, verifies under its own pair however often it was serialized and
\* loaded and whatever happened to its tag and unprotected headers: neither
\* refusal nor panic, only failures of the key's own operations remain.
SelfVerifies ==
    (/\ result.call \in ReadCalls /\ result.key # None
     /\ docOf # None /\ docOf.by \in {"new", "peer"} /\ Reads(result.key, docOf))
    => result.outcome \in {"Ok", "true", "SignatureError"} \cup VerifyErrors(result.key)

Loads == {"from_bytes", "from_bytes_tagged", "deserialize"}

\* as_bytes followed by any of the loading calls gives back the very document,
\* unprotected headers included, as long as its protected header is a CBOR
\* map; only from_bytes_tagged may object, to bytes serialized without a tag.
RoundTrip ==
    [][(/\ result.call = "as_bytes" /\ result.outcome = "Ok"
        /\ Parses(doc.protected) /\ result'.call \in Loads)
       => /\ doc' = doc
          /\ \/ result'.outcome = "Ok"
             \/ /\ result'.call = "from_bytes_tagged" /\ wire.tag = None
                /\ result'.outcome = "TagError"]_vars

\* Who loads a document and serializes it again passes on all that the
\* signature covers and the same unprotected headers, and does not fail:
\* as_bytes (sign.rs:312-321) refuses only an unprotected header that was built
\* here and has never been in bytes.
RelayKeeps ==
    [][(result.call \in Loads /\ result.outcome = "Ok" /\ result'.call = "as_bytes")
       => /\ result'.outcome = "Ok"
          /\ wire'.protected = wire.protected /\ wire'.payload = wire.payload
          /\ wire'.signature = wire.signature
          /\ Parses(wire'.unprotected)
          /\ from_bytes(wire'.unprotected) = from_bytes(wire.unprotected)]_vars

----------------------------------------------------------------------------
(* What the documentation says of the code and the code does not do. *)

\* new_with_protected "sets the algorithm used into the protected header"
\* (sign.rs:276-278): whatever it signed names an algorithm.
SetsAlgorithm ==
    \A e \in log : e.by = "new_with_protected" => AlgLabel \in Labels(Signed(e).body_protected)

\* from_bytes "doesn't check the contents for correctness at all. Accepts
\* untagged structures or structures with tag 18" (sign.rs:323-324): it loads
\* what as_bytes wrote, if its tag and its shape are still right.
LoadsUnchecked ==
    (/\ result.call = "from_bytes" /\ wireOf # None
     /\ wire.tag \in {None, 18} /\ Deserializes(wire))
    => result.outcome = "Ok"

\* With a key, get_payload "only gets the payload if the signature is correctly
\* verified, otherwise returns Err(CoseError::UnverifiedSignature)"
\* (sign.rs:430-432): unless hashing or the key's own operations fail.
RefusesAsUnverified ==
    (result.call = "get_payload" /\ result.key # None /\ HasParameters(result.key))
    => result.outcome \in {"Ok", "UnverifiedSignature", "SignatureError"}
                             \cup VerifyErrors(result.key)

----------------------------------------------------------------------------
\* The abstract specification, with signatures read as statements.
Abstract == INSTANCE AuthoredStatements
    WITH authored <- {Statement(e) : e \in log}, accepted <- Accepted

\* COSE_Sign1 implements AuthoredStatements.
Implements == Abstract!Spec
============================================================================
