---------------------------- MODULE CoseEncrypt0 ---------------------------
(***************************************************************************)
(* encrypt.rs: the life of COSE_Encrypt0 documents, from encryption over   *)
(* serialization and loading to decryption.  As in CoseSign1, one call is  *)
(* one step, one slot holds the document in memory and one the bytes in    *)
(* transit, where other implementations write too and alterations happen.  *)
(*                                                                         *)
(* A key is a record [id, len] and a payload a record [id, len], lengths   *)
(* in bytes.  A ciphertext is symbolic: the record of what was encrypted   *)
(* how, with the length of its bytes, authentication tag included.         *)
(***************************************************************************)
EXTENDS HeaderMap

CONSTANTS
    Keys,            \* symmetric keys
    Payloads,        \* payloads
    PeerProtected,   \* encoded protected headers other implementations write
    WireUnprotected, \* encoded unprotected headers found on the wire
    WireTags,        \* CBOR tags found on the wire
    WireLengths,     \* lengths of ciphertexts cut short on the wire
    MaxSealed,       \* bound: encryptions in a behaviour
    MaxAltered,      \* bound: alterations of authenticated fields
    None             \* no tag, no key, no document, no bytes, no data

ASSUME SealBoundsAssumption ==
    /\ MaxSealed \in Nat /\ MaxAltered \in Nat /\ WireLengths \subseteq Nat
    /\ \A k \in Keys : k # None /\ k.len \in Nat
    /\ \A p \in Payloads : p.len \in Nat
ASSUME SealWireAssumption == \A b \in PeerProtected \cup WireUnprotected : IsEncoded(b)

VARIABLES
    doc,     \* the CoseEncrypt0 in memory
    wire,    \* the serialized document in transit
    log,     \* history: every encryption made, and by whom
    docOf,   \* history: the encryption doc holds, while none of its fields
             \* has been altered since
    wireOf,  \* history: the same for wire
    altered, \* history: how many alterations there were
    result   \* what the last call returned

vars == <<doc, wire, log, docOf, wireOf, altered, result>>

----------------------------------------------------------------------------
(* CipherConfiguration and CoseAlgorithm. *)

KTY == 1
IV  == 5

\* cose_alg: the algorithm's COSE value, by the length of the key.
AlgOfKeyLength == [n \in {16, 24, 32} |-> CASE n = 16 -> 1 [] n = 24 -> 2 [] n = 32 -> 3]
SupportedLength(n) == n \in DOMAIN AlgOfKeyLength

\* from_value knows these values.
CoseAlgorithm == {1, 2, 3}

\* The length of the key that the cipher of each algorithm takes.
CipherKeyLength == <<16, 24, 32>>

tag_size == 16

\* The cast "as i8" of an i128 keeps the low eight bits.
AsI8(n) == LET low == n % 256 IN IF low < 128 THEN low ELSE low - 256

\* (mutant) the authenticated data is the same for every header
EncStructure_Constant(protected) ==
    [context |-> "Encrypt0", protected |-> ZeroLength, external_aad |-> ZeroLength]

\* EncStructure::new_encrypt0 and as_bytes.
EncStructure(protected) ==
    [context |-> "Encrypt0", protected |-> protected, external_aad |-> ZeroLength]

----------------------------------------------------------------------------
(* The AEAD cipher. *)

encrypt_aead(alg, key, iv, aad, payload) ==
    [alg |-> alg, key |-> key, iv |-> iv, aad |-> aad, payload |-> payload,
     len |-> payload.len + tag_size]

\* (mutant) the authenticated data does not reach the cipher
Opens_NoAad(alg, key, iv, aad, c) ==
    /\ key.len = CipherKeyLength[alg]
    /\ c.alg = alg /\ c.key = key /\ c.iv = iv
    /\ c.len = c.payload.len + tag_size

\* decrypt_aead succeeds on all bytes of what the same cipher made with the
\* same key, IV and authenticated data.
Opens(alg, key, iv, aad, c) ==
    /\ key.len = CipherKeyLength[alg]
    /\ c.alg = alg /\ c.key = key /\ c.iv = iv /\ c.aad = aad
    /\ c.len = c.payload.len + tag_size

----------------------------------------------------------------------------
(* decrypt(): how it ends. *)

NamesInteger(map, label) == Has(map, label) /\ get(map, label).kind = "Integer"

\* (mutant) a ciphertext of nothing but its tag is taken for too short
decrypt_NoEmptyPayload(d, key) ==
    LET map == from_bytes(d.protected)
        alg == AsI8(get(map, KTY).v)
        aad == EncStructure(map_to_empty_or_serialized(map))
    IN  IF ~Parses(d.protected) THEN "SerializationError"
        ELSE IF ~NamesInteger(map, KTY) THEN "SpecificationError"
        ELSE IF alg \notin CoseAlgorithm THEN "UnsupportedError"
        ELSE IF ~(Has(d.unprotected, IV) /\ get(d.unprotected, IV).kind = "Bytes")
             THEN "SpecificationError"
        ELSE IF d.ciphertext.len <= tag_size THEN "panic"
        ELSE IF Opens(alg, key, get(d.unprotected, IV), aad, d.ciphertext) THEN "Ok"
        ELSE "EncryptionError"

\* The protected header is decoded and encoded again for the authenticated
\* data; splitting off the tag of a ciphertext shorter than it panics.
decrypt(d, key) ==
    LET map == from_bytes(d.protected)
        alg == AsI8(get(map, KTY).v)
        aad == EncStructure(map_to_empty_or_serialized(map))
    IN  IF ~Parses(d.protected) THEN "SerializationError"
        ELSE IF ~NamesInteger(map, KTY) THEN "SpecificationError"
        ELSE IF alg \notin CoseAlgorithm THEN "UnsupportedError"
        ELSE IF ~(Has(d.unprotected, IV) /\ get(d.unprotected, IV).kind = "Bytes")
             THEN "SpecificationError"
        ELSE IF d.ciphertext.len < tag_size THEN "panic"
        ELSE IF Opens(alg, key, get(d.unprotected, IV), aad, d.ciphertext) THEN "Ok"
        ELSE "EncryptionError"

----------------------------------------------------------------------------
Return(call, key, outcome, data) ==
    result' = [call |-> call, key |-> key, outcome |-> outcome, data |-> data]

NoResult == [call |-> "none", key |-> None, outcome |-> "none", data |-> None]

Init ==
    /\ doc = None /\ wire = None
    /\ log = {}
    /\ docOf = None /\ wireOf = None
    /\ altered = 0
    /\ result = NoResult

\* rand_bytes gives an IV that no earlier encryption used.
FreshIV == CborBytes(Cardinality(log) + 1)

Entry(by, protected, ciphertext) ==
    [by |-> by, protected |-> protected, ciphertext |-> ciphertext]

New(key, payload) ==
    \/ /\ \E e \in IF SupportedLength(key.len) THEN {"EntropyError", "EncryptionError"}
                   ELSE {"UnsupportedError"} :
             Return("new", key, e, None)
       /\ UNCHANGED <<doc, wire, log, docOf, wireOf, altered>>
    \/ /\ SupportedLength(key.len)
       /\ LET alg   == AlgOfKeyLength[key.len]
              iv    == FreshIV
              bytes == map_to_empty_or_serialized(insert(EmptyMap, KTY, CborInteger(alg)))
              c     == encrypt_aead(alg, key, iv, EncStructure(bytes), payload)
          IN  /\ doc' = [protected |-> bytes, unprotected |-> insert(EmptyMap, IV, iv),
                         ciphertext |-> c]
              /\ docOf' = Entry("new", bytes, c)
              /\ log' = log \cup {docOf'}
       /\ Cardinality(log') <= MaxSealed
       /\ Return("new", key, "Ok", None)
       /\ UNCHANGED <<wire, wireOf, altered>>

\* (mutant) one field is not serialized
Serialized_TwoFields(d, tag) ==
    [tag |-> tag, shape |-> "short", protected |-> d.protected,
     unprotected |-> to_vec(d.unprotected), ciphertext |-> d.ciphertext]

\* (mutant) the protected header is encoded anew
Serialized_Reencoded(d, tag) ==
    [tag |-> tag, shape |-> "array",
     protected |-> IF Parses(d.protected) THEN to_vec(from_bytes(d.protected)) ELSE d.protected,
     unprotected |-> to_vec(d.unprotected), ciphertext |-> d.ciphertext]

\* Serialize for CoseEncrypt0.
Serialized(d, tag) ==
    [tag |-> tag, shape |-> "array", protected |-> d.protected,
     unprotected |-> to_vec(d.unprotected), ciphertext |-> d.ciphertext]

\* doc.unprotected came from new() or from bytes, so it can be serialized
\* (Readable).
AsBytes(tagged) ==
    /\ doc # None
    /\ wire' = Serialized(doc, IF tagged THEN 16 ELSE None)
    /\ wireOf' = docOf
    /\ Return("as_bytes", None, "Ok", None)
    /\ UNCHANGED <<doc, log, docOf, altered>>

\* The derived Deserialize takes an array of the three fields, or a map with
\* their names, without a tag; Tagged takes the tag off before.
Deserializes(w) == w.shape \in {"array", "map"} /\ Parses(w.unprotected)

\* (mutant) the tag of the other document type
LoadOutcome_SignTag(w) ==
    IF ~Deserializes(w) THEN "SerializationError"
    ELSE IF w.tag \notin {None, 18} THEN "TagError"
    ELSE IF ~Parses(w.protected) THEN "SerializationError"
    ELSE "Ok"

LoadOutcome(w) ==
    IF ~Deserializes(w) THEN "SerializationError"
    ELSE IF w.tag \notin {None, 16} THEN "TagError"
    ELSE IF ~Parses(w.protected) THEN "SerializationError"
    ELSE "Ok"

\* (mutant) the unprotected header is left behind
DocumentOf_NoUnprotected(w) ==
    [protected |-> w.protected, unprotected |-> EmptyMap, ciphertext |-> w.ciphertext]

DocumentOf(w) ==
    [protected |-> w.protected, unprotected |-> from_bytes(w.unprotected),
     ciphertext |-> w.ciphertext]

Load(call, outcome) ==
    /\ \/ outcome = "Ok" /\ doc' = DocumentOf(wire) /\ docOf' = wireOf
       \/ outcome # "Ok" /\ UNCHANGED <<doc, docOf>>
    /\ Return(call, None, outcome, None)
    /\ UNCHANGED <<wire, log, wireOf, altered>>

FromBytes == wire # None /\ Load("from_bytes", LoadOutcome(wire))

\* serde_cbor::from_slice::<CoseEncrypt0>, the type used with serde directly.
\* serde_cbor hands a tagged item to visit_newtype_struct, which the derived
\* visitor does not have.
Deserialize ==
    /\ wire # None
    /\ Load("deserialize", IF wire.tag = None /\ Deserializes(wire) THEN "Ok"
                           ELSE "SerializationError")

Decrypt(key) ==
    /\ doc # None
    /\ LET o == decrypt(doc, key)
       IN  Return("decrypt", key, o,
                  IF o = "Ok" THEN [protected |-> from_bytes(doc.protected),
                                    unprotected |-> doc.unprotected,
                                    payload |-> doc.ciphertext.payload]
                  ELSE None)
    /\ UNCHANGED <<doc, wire, log, docOf, wireOf, altered>>

----------------------------------------------------------------------------
(* Outside the crate. *)

\* Another implementation encrypts: the protected header in its own entry
\* order, naming the algorithm of its key, authenticated as it wrote it.
PeerSeal(key, protected, payload) ==
    /\ SupportedLength(key.len)
    /\ Parses(protected) /\ NamesInteger(from_bytes(protected), KTY)
    /\ get(from_bytes(protected), KTY).v = AlgOfKeyLength[key.len]
    /\ LET c == encrypt_aead(AlgOfKeyLength[key.len], key, FreshIV,
                             EncStructure(protected), payload)
       IN  /\ wireOf' = Entry("peer", protected, c)
           /\ wire' = [tag |-> 16, shape |-> "array", protected |-> protected,
                       unprotected |-> to_vec(insert(EmptyMap, IV, FreshIV)), ciphertext |-> c]
    /\ log' = log \cup {wireOf'}
    /\ Cardinality(log') <= MaxSealed
    /\ result' = NoResult
    /\ UNCHANGED <<doc, docOf, altered>>

\* Parts are replaced, those of other documents included.
AlteredSealed(w) ==
    {[w EXCEPT !.protected = b] : b \in PeerProtected}
    \cup {[w EXCEPT !.unprotected = u] : u \in WireUnprotected}
    \cup {[w EXCEPT !.unprotected = to_vec(insert(EmptyMap, IV, e.ciphertext.iv))] : e \in log}
    \cup {[w EXCEPT !.ciphertext = e.ciphertext] : e \in log}
    \cup {[w EXCEPT !.ciphertext.len = n] : n \in WireLengths}
    \cup {[w EXCEPT !.ciphertext.key = None], [w EXCEPT !.shape = "short"]}

AlterSealed ==
    /\ wire # None /\ altered < MaxAltered
    /\ wire' \in AlteredSealed(wire)
    /\ wireOf' = None
    /\ altered' = altered + 1
    /\ result' = NoResult
    /\ UNCHANGED <<doc, log, docOf>>

\* The tag, and the notation of the three fields, authenticate nothing.
AlterEnvelope ==
    /\ wire # None
    /\ \/ \E t \in WireTags : wire' = [wire EXCEPT !.tag = t]
       \/ wire.shape = "array" /\ wire' = [wire EXCEPT !.shape = "map"]
    /\ result' = NoResult
    /\ UNCHANGED <<doc, log, docOf, wireOf, altered>>

----------------------------------------------------------------------------
Next ==
    \/ \E k \in Keys, p \in Payloads : New(k, p)
    \/ \E tagged \in BOOLEAN : AsBytes(tagged)
    \/ FromBytes
    \/ Deserialize
    \/ \E k \in Keys : Decrypt(k)
    \/ \E k \in Keys, b \in PeerProtected, p \in Payloads : PeerSeal(k, b, p)
    \/ AlterSealed
    \/ AlterEnvelope

Spec == Init /\ [][Next]_vars

----------------------------------------------------------------------------
(* Properties. *)

IsCiphertext(c) ==
    /\ c = [alg |-> c.alg, key |-> c.key, iv |-> c.iv, aad |-> c.aad,
            payload |-> c.payload, len |-> c.len]
    /\ c.alg \in CoseAlgorithm /\ c.payload \in Payloads /\ c.len \in Nat
    /\ c.key \in Keys \cup {None}

\* The type invariant; what as_bytes wrote has all its fields.
TypeOK ==
    /\ doc # None =>
         /\ doc = [protected |-> doc.protected, unprotected |-> doc.unprotected,
                   ciphertext |-> doc.ciphertext]
         /\ IsCiphertext(doc.ciphertext)
    /\ wire # None =>
         /\ wire = [tag |-> wire.tag, shape |-> wire.shape, protected |-> wire.protected,
                    unprotected |-> wire.unprotected, ciphertext |-> wire.ciphertext]
         /\ wire.shape \in {"array", "map", "short"} /\ (altered = 0 => wire.shape # "short")
         /\ IsCiphertext(wire.ciphertext)
    /\ \A e \in log : e.by \in {"new", "peer"} /\ IsCiphertext(e.ciphertext)
    /\ docOf \in log \cup {None} /\ wireOf \in log \cup {None}
    /\ altered \in Nat

\* What an encryption in the log is.
Sealed(e) ==
    LET c == e.ciphertext
    IN  /\ c.key \in Keys /\ SupportedLength(c.key.len) /\ c.alg = AlgOfKeyLength[c.key.len]
        /\ c.iv \in Encodable /\ c.iv.kind = "Bytes"
        /\ c.aad = EncStructure(e.protected) /\ IsEncoded(e.protected)
        /\ c.len = c.payload.len + tag_size
        /\ e.by = "new" => e.protected = to_vec(insert(EmptyMap, KTY, CborInteger(c.alg)))

\* Where ciphertexts come from: one that was not damaged is that of an
\* encryption in the log, of which it may have lost bytes.
Made(c) == c.key # None => \E e \in log : c = [e.ciphertext EXCEPT !.len = c.len]
Provenance ==
    /\ IsFiniteSet(log) /\ \A e \in log : Sealed(e)
    /\ doc # None => Made(doc.ciphertext)
    /\ wire # None => Made(wire.ciphertext)

\* An unaltered document carries what was encrypted, the header it was
\* encrypted under, and its IV.
CarriedBy(e, d) ==
    e # None => d.ciphertext = e.ciphertext /\ d.protected = e.protected
Lineage ==
    /\ CarriedBy(docOf, doc) /\ CarriedBy(wireOf, wire)
    /\ docOf # None => doc.unprotected = insert(EmptyMap, IV, docOf.ciphertext.iv)
    /\ wireOf # None => wire.unprotected = to_vec(insert(EmptyMap, IV, wireOf.ciphertext.iv))

\* as_bytes finds nothing it cannot encode.
Readable ==
    /\ doc # None => /\ IsEncoded(doc.protected)
                     /\ IsHeaderMap(doc.unprotected) /\ Serializable(doc.unprotected)
    /\ wire # None => IsEncoded(wire.protected) /\ IsEncoded(wire.unprotected)

\* The invariant behind the theorems of CoseEncrypt0_proofs: the header bytes,
\* the IV and the ciphertext that new() made together (encrypt.rs:242-269) stay
\* together over serializations and loads, whatever is altered is altered in
\* them, and every document in memory can be serialized.
SealedBytesKept == Provenance /\ Lineage /\ Readable

Opened == result.call = "decrypt" /\ result.outcome = "Ok"

\* What an encryption says to a holder of its key, and what decrypt() has just
\* given its caller.
Statement(e) ==
    [key |-> e.ciphertext.key, protected |-> from_bytes(e.protected),
     payload |-> e.ciphertext.payload]
Accepted ==
    IF Opened THEN [key |-> result.key, protected |-> result.data.protected,
                    payload |-> result.data.payload]
    ELSE None

\* decrypt (encrypt.rs:275-333) returns a payload and a protected header only
\* if a holder of this key encrypted exactly this payload under exactly this
\* header, whatever was altered in between.
Genuine == Opened => \E e \in log : Statement(e) = Accepted

\* What new() encrypted (encrypt.rs:222-270) decrypts under its key after any
\* number of serializations and loads, the empty payload included.
OwnDecrypts ==
    (/\ result.call = "decrypt" /\ docOf # None /\ docOf.by = "new"
     /\ result.key = docOf.ciphertext.key)
    => result.outcome = "Ok" /\ result.data.payload = docOf.ciphertext.payload

\* The subtraction and split in decrypt (encrypt.rs:316-318) panic on no document
\* that this crate or another implementation made and nobody altered since, the
\* ciphertext of the empty payload included, whichever key it is tried with.
PanicsOnlyOnAltered ==
    (result.call = "decrypt" /\ result.outcome = "panic") => docOf = None

\* as_bytes (encrypt.rs:335-344) followed by a load gives back the very document;
\* only serde used directly (encrypt.rs:194) objects, to the tag of as_bytes(true).
RoundTrip ==
    [][(/\ result.call = "as_bytes" /\ Parses(doc.protected)
        /\ result'.call \in {"from_bytes", "deserialize"})
       => /\ doc' = doc
          /\ \/ result'.outcome = "Ok"
             \/ /\ result'.call = "deserialize" /\ wire.tag = 16
                /\ result'.outcome = "SerializationError"]_vars

----------------------------------------------------------------------------
(* What the documentation and the tests say and the code does not do. *)

\* The authenticated data holds "the protected attributes from the body
\* structure encoded in a bstr type" (encrypt.rs:105-106): a document of another
\* implementation that was not altered decrypts under its key.
PeerDecrypts ==
    (/\ result.call = "decrypt" /\ docOf # None /\ result.key = docOf.ciphertext.key)
    => result.outcome = "Ok"

\* A document that names an unsupported algorithm is refused as such
\* (encrypt.rs:418-432, test_decrypt_unsupported_openssl_cipher).
RefusesOtherAlgorithms ==
    (/\ result.call = "decrypt" /\ Parses(doc.protected)
     /\ NamesInteger(from_bytes(doc.protected), KTY)
     /\ get(from_bytes(doc.protected), KTY).v \notin CoseAlgorithm)
    => result.outcome = "UnsupportedError"

----------------------------------------------------------------------------
\* The abstract specification, with encryptions read as statements.
Abstract == INSTANCE AuthoredStatements
    WITH authored <- {Statement(e) : e \in log}, accepted <- Accepted

\* COSE_Encrypt0 implements AuthoredStatements.
Implements == Abstract!Spec
============================================================================
