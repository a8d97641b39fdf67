# A TLA+ model of aws-nitro-enclaves-cose

The crate builds, serializes, loads, verifies and decrypts the two single-actor
document types of COSE (RFC 8152): `COSE_Sign1` with an ECDSA signature and
`COSE_Encrypt0` with AES-GCM. Signing keys live in OpenSSL, AWS KMS or a TPM.
The modules here model what the code does with documents, headers, keys and
signatures; TLC checks them on small instances and TLAPS proves the main results
for every instance.

Lines are those of `src/src/*.rs`. `PROJECT.json` maps every definition to its
lines.

## 1. Inventory

| Component | State it keeps | Operations | What makes it correct |
|---|---|---|---|
| Header maps (`header_map.rs`) | a `BTreeMap` from CBOR labels to values; as bytes, a CBOR map or the zero-length string | `insert`, `get`, `is_empty`, `from_bytes`, `map_to_empty_or_serialized`, serde | decoding gives back what was encoded; one map per byte string; repeated labels are refused |
| COSE_Sign1 (`sign.rs`) | four private fields, set once; the protected header stays the byte string it was signed as | `new`, `new_with_protected`, `as_bytes`, `from_bytes`, `from_bytes_tagged`, serde, `verify_signature`, `get_payload`, `get_protected_and_payload`, `get_unprotected` | a reader with a key gets only what the key's pair signed, under the algorithm it named; what the crate signs, it verifies after any journey |
| Key backends (`crypto/mod.rs`, `openssl_pkey.rs`, `kms.rs`, `tpm.rs`) | the key handle; for a `KmsKey` an algorithm or a cached public key; for a `TpmKey` a TSS context and handle | `get_parameters`, `sign`, `verify`, constructors | every backend of a pair reads what another one signed; a failure of a service is never an answer about a signature |
| Signature layout (`merge_ec_signature`, `split_at`) | none | join R and S; split them | R and S arrive as the numbers they were; the assertions never fire |
| COSE_Encrypt0 (`encrypt.rs`, `crypto/openssl.rs`) | three private fields, set once | `new`, `decrypt`, `as_bytes`, `from_bytes`, serde | only what a holder of the key encrypted comes out, with the header it was encrypted under; what `new` made, `decrypt` opens |
| KMS calls in time (`kms.rs`) | nothing of its own: an immutable object that threads share, a Tokio runtime of the caller's, a key id whose key may change | `new`, `new_with_public_key`, `sign`, `verify`, each with `Handle::current().block_on(request)` | a call ends as if it had happened in one instant; it returns; it panics only where it may not block |
| TPM session (`tpm.rs`) | a `RefCell` around the context | one command per call | one borrow at a time, which the types already enforce |
| Errors (`error.rs`), crate root (`lib.rs`) | none | | |

The components interact by plain calls (a call of a `KmsKey` blocks its thread
until KMS has answered): a document calls the key object it is
given for parameters, then hashes, then calls `sign` or `verify`. Documents are
immutable, so no call leaves a half-changed one. What the crate shares with the
rest of the world are bytes: another process loads them, another COSE
implementation wrote them, another backend holds the same pair, and on their way
they are altered, shortened or recombined.

What is hard here, and what a unit test would hardly reach:

* the sequence of calls a document goes through, across processes and
  implementations, when a header is encoded in an order the crate would not
  have chosen, or is empty;
* parts of several genuine documents in one;
* the choice of key by the caller and of algorithm by the document;
* key objects whose two halves disagree: a `KmsKey` with an unrelated public
  key or a wrong algorithm, a TPM key with a digest other than its curve's;
* failures of KMS, the TPM or OpenSSL at any call;
* numeric edges: the 521 bits of ES512, factors with leading zeros, signatures
  and ciphertexts shorter than what is split off them, an `i128` cast to `i8`;
* the blocking KMS calls: threads that share a key object, an alias that moves
  to another key, also one of another curve, between the construction of the
  object and a call or between two tries of one request, answers that are late
  or lost, a runtime nobody drives or that is shut down.

`PROJECT.json` lists each of them with its line and the properties aimed at it.

## 2. Modules

```
HeaderMap ---- Crypto ---- CoseSign1 ---- MCCoseSign1
    |             |            |  \------ CoseSign1_proofs
    |             |            +- INSTANCE AuthoredStatements
    |             +------- EcSignature --- MCEcSignature
    |             |            \---------- EcSignature_proofs
    |             +------- KmsKey -------- MCKmsKey
    |                          \---------- KmsKey_proofs
    +------------ CoseEncrypt0 ----------- MCCoseEncrypt0
    |                          |  \------ CoseEncrypt0_proofs
    |                          +- INSTANCE AuthoredStatements
    \------------ HeaderMap_proofs, which CoseSign1_proofs and
                  CoseEncrypt0_proofs extend too
```

**HeaderMap** - operators. In memory a map is a function from labels to values;
as bytes it is a record with a form (`map`, `empty`, `malformed`) and the
sequence of its entries in the order they were written. `to_vec` writes them in
the order of the `BTreeMap`; `Parses` and `from_bytes` read any order and refuse
a label that occurs twice. The zero-length string is what
`map_to_empty_or_serialized` writes for the empty map, and it does not parse. An
integer beyond 64 bits can be held in memory but not be encoded (`"Wide"`).

**Crypto** - operators. The tables of the algorithms and curves, the key objects
the constructors let exist (`KeyObjectOK`), and what `sign` and `verify` return.
Hashes and signatures are symbolic: a hash is what was hashed with which digest,
a signature is the pair, the hash and the number of bytes. So a signature
verifies exactly if this pair made it over this hash: ECDSA is assumed to be
unforgeable and hashes to be free of collisions. `verify` is the set of its
possible outcomes, because each call into a service may fail.

**CoseSign1** - a state machine with one action for each call of `sign.rs` that
computes something. `doc` is the document in memory and `wire` the bytes in
transit. A call is one step since it takes `&self` or values and keeps nothing.
`PeerSign` is another COSE implementation that has the pair, and `AlterSigned`
and `AlterUnsigned` are what happens to bytes outside. `log`, `docOf`, `wireOf`
and `altered` are history: the signatures made so far, and the one a document
comes from while nothing it covers has been altered. No guard of a call of the
crate reads them, except that `MaxSigned` bounds `log` and `MaxAltered` bounds
`altered`.

**AuthoredStatements** - the abstract specification: holders of keys author
statements, and a reader who names a key is given only authored ones.
`CoseSign1` and `CoseEncrypt0` both implement it (`Implements`). The statements
are read off the signatures or encryptions in `log` and off `result`; a statement
of `CoseEncrypt0` includes the protected header in both.

**EcSignature** - the layout of the signature, in real bytes and real lengths:
`merge_ec_signature` (and its copy in `kms.rs`), the assertions before it and
`split_at` in `verify`. R and S are any byte strings not longer than the order
of the curve; a TPM may return them with leading zeros.

**CoseEncrypt0** - a state machine for `encrypt.rs` in the form of `CoseSign1`.
A ciphertext is symbolic: what was encrypted, with which key, IV and
authenticated data, and its length including the tag. AES-GCM is assumed to
authenticate, and the IVs of `rand_bytes` never to repeat.

**KmsKey** - the calls of `kms.rs` in time. In `CoseSign1` a call of a key is part
of one step; here it begins, waits and ends. `key` is the object all threads
share, and `call[t]` is the request that thread `t` blocks on. `Sign`, `Verify` and
`NewWithPublicKey` are the code before `block_on`, early returns and panics
included; `FinishSign`, `FinishVerify` and `FinishGetPublicKey` the code after it.
`Serve` and `Lose` are KMS and the retrying SDK, `MoveAlias` exchanges the key that
the id stands for, and `Enter`, `Leave` and `Shutdown` are the threads that drive
the runtime. A thread has one of three contexts: it runs a task of the runtime
(`block_on` panics), it holds a handle and may block (`spawn_blocking`,
`Handle::enter`), or it has none (`Handle::current` panics). A thread in
`block_on` does not drive the runtime's sockets itself, so a waiting call ends only
while a driver is in the runtime. KMS refuses a request that names an algorithm
other than that of the key's curve. `seen` in a call is history: the pairs the id
stood for while the call went on.

`KmsKey` is what allows `CoseSign1` and `Crypto` to take a call for one step:
`Atomic` says that every result is one `Crypto` gives for a single pair at an
instant between the beginning and the end of the call, and `TypeOK` that every
object the constructors return satisfies `KeyObjectOK`, which `CoseSign1` assumes
of its keys. The panics for want of a context that may block are in `KmsKey` only.

The `MC` modules hold the values of the constants. Definitions marked
`(mutant)` are altered forms of the definition below them, used to see that a
property can fail; no specification refers to them.

## 3. Runs

| Run | Checks | Shows |
|---|---|---|
| `sign1_headers` | `TypeOK`, `SelfVerifies`, `AlgorithmBound`, `RoundTrip`, `RelayKeeps` | every kind of header map (empty, no algorithm, an algorithm as text, another algorithm, one that cannot be encoded, foreign order, repeated labels), keys of two curves and of an unsupported one |
| `sign1_splice` | `Authentic`, `SignedBytesKept`, `Implements` | two signers, two payloads, two signatures, and parts of one document in another |
| `sign1_backends` | `SelfVerifies`, `Authentic`, `AlgorithmBound` | one pair behind all kinds of key objects, also the inconsistent ones and one on a curve the crate does not know, with failing services |
| `ec_signature` | `TypeOK`, `NumbersKept`, `PanicsOnlyOnCut` | all three curves, short factors, leading zeros, signatures cut at and around every half |
| `encrypt0` | `TypeOK`, `SealedBytesKept`, `Genuine`, `OwnDecrypts`, `PanicsOnlyOnAltered`, `RoundTrip`, `Implements` | two encryptions, keys of supported and unsupported lengths, the empty payload, headers in foreign order and with the algorithm 257, and every part altered or exchanged |
| `kms_atomic` | `TypeOK`, `InFlight`, `Atomic`, `BlockingThreadsDontPanic` | a driver and two blocking threads share an object of either constructor and have two messages to sign and verify, the alias moves between P-256 and P-521, the runtime is entered, left and shut down |
| `kms_returns` | `Atomic`, `Returns` | a driver and a blocking thread; answers are lost once per call; the alias moves between P-256 and secp256k1, which KMS signs for under the same algorithm and `new_with_public_key` refuses |
| `doc_*` | one statement of the documentation or a test each | see section 5 |

What the properties say:

* `SelfVerifies`: a document that was signed by `new` or by a peer and was not
  altered in what the signature covers is neither refused nor answered with a
  panic by a key object of the same pair, algorithm and digest: it verifies, or
  the key's own operation fails with its error.
* `Authentic`: a reader with a key gets a payload (and header) only if a
  signature of that key's pair covers exactly them.
* `AlgorithmBound`: and only if the signer named the key's algorithm in the
  signed header and hashed with the digest the key uses.
* `SignedBytesKept`: an unaltered document still holds, byte for byte, what its
  signature was made over, in memory and in transit.
* `RoundTrip`: loading what `as_bytes` just wrote gives the same document, for
  every document whose protected header parses. Two loads may object, and then
  change nothing: `from_bytes_tagged` of COSE_Sign1 to a missing tag, and serde
  used directly on a COSE_Encrypt0 to the tag of `as_bytes(true)`.
* `RelayKeeps`: who loads a document and serializes it again passes on the signed
  bytes, the payload, the signature and the same unprotected headers, and never
  gets the error that `as_bytes` has for a header built in memory.
* `NumbersKept`, `PanicsOnlyOnCut`: R and S are read as the numbers they were,
  the assertions in `sign` never fire, and `verify` panics only on a signature
  without a whole R.
* `SealedBytesKept`: every ciphertext in memory or in transit comes from an
  encryption that was made, or was damaged; an unaltered document still has the
  header, IV and ciphertext that were made together; and every document in memory
  can be serialized.
* `Genuine`: `decrypt` returns a payload and a header only if a holder of the
  key encrypted that payload under that header.
* `OwnDecrypts`: what `new` made decrypts under its key.
* `PanicsOnlyOnAltered`: `decrypt` panics, for want of a whole tag, on no
  document that was left as it was made, whichever key it is tried with.
* `Implements`, in both document modules: the module implements
  AuthoredStatements.
* `InFlight`: a request names the algorithm of the object it was made for and
  carries no answer but one that KMS gave to it, for a pair the id has stood for
  since the call began; the object is built once.
* `Atomic`: a call of a shared `KmsKey` ends as if it had happened in one instant
  between its start and its end, for the one pair the id stood for then.
* `BlockingThreadsDontPanic`: on a thread that may block, and while the runtime
  lives, only a signature without a whole R makes a call panic. In particular the
  assertions of `sign` hold although the object's algorithm may be older than the
  key its id stands for.
* `Returns`: no call waits forever if threads that drive the runtime are found in
  it again and again, or if it was shut down.

### Bounds

* `MaxSigned`, `MaxSealed` bound how many documents are made. A splice needs a
  second genuine document and no third, since one replacement takes a part of
  one other document: 2 where documents are recombined, 1 where the question
  concerns a single document. The slots are overwritten without bound, so
  serializing and loading repeat freely.
* `MaxAltered = 1`: one replacement of a signed field, which suffices to combine
  parts of two documents. More replacements give combinations of the same kind;
  the theorems cover any number of them.
* `WireLengths`, `Cuts`: the lengths at and next to where the code splits.
* Labels and values of header maps are those the code tells apart: the
  algorithm label and one other; an integer, a text, a byte string, an integer
  that cannot be encoded.

* `Drivers`, `Blocking`: one thread that drives the runtime is there or is not.
  Two blocking threads can have a request each under way while the driver's own
  calls panic; a third would only repeat one of them, since a call reads nothing
  that another one writes. They, and the messages, differ only by name (symmetry). For
  `Returns` one blocking thread is enough: calls wait for drivers and for KMS and
  never for one another.
* `MaxTries`: in `kms_returns` an answer is lost once in a call, which is enough for
  two answers to one request from two keys. The SDK's own number of tries is finite
  too, and `Returns` depends on that. In `kms_atomic` no answer is lost, which makes
  room for a second message: with two, an answer that went to the wrong thread
  would show. `CallsAreAtomic` is for any number of both.
* `signed` holds the last signature only; an earlier one was presented to `verify`
  in the states before.

### Fairness

The document modules and EcSignature claim no liveness: there a call is a single
step that always has an outcome, so nothing waits. `KmsKey` assumes

* `WF(Serve)`: KMS answers, or the SDK gives up and reports a failure (its
  connections and tries have timeouts);
* `SF(Deliver)`: a runtime that is driven again and again polls its sockets, and
  `block_on` of a finished request returns. It is strong because the only driver
  may leave and come back;
* `WF(Abort)`: on a runtime that was shut down the request fails or panics.

Nobody is assumed to call the crate, to enter the runtime or to stay in it; that
drivers come back is the premise of `Returns` and not an assumption. All runs check
for deadlock.

## 4. Proofs

Every safety property of the passing runs is a theorem, for all values of the
constants that satisfy the named assumptions.

| Module | Theorems |
|---|---|
| `HeaderMap_proofs` | `DecodesEncoded`: `from_bytes(to_vec(map)) = map`, and `to_vec(map)` parses |
| `CoseSign1_proofs` | `TypeCorrect` (`TypeOK`), `BytesKept` (`SignedBytesKept`), `AlgorithmIsBound` (`AlgorithmBound`), `ReadersGetSigned` (`Authentic`), `OwnDocumentsVerify` (`SelfVerifies`), `RoundTrips` (`RoundTrip`), `RelaysKeep` (`RelayKeeps`), `Refinement` (`Implements`) |
| `CoseEncrypt0_proofs` | `TypeCorrect` (`TypeOK`), `BytesKept` (`SealedBytesKept`), `ReadersGetSealed` (`Genuine`), `OwnDocumentsDecrypt` (`OwnDecrypts`), `NoOtherPanic` (`PanicsOnlyOnAltered`), `RoundTrips` (`RoundTrip`), `Refinement` (`Implements`) |
| `EcSignature_proofs` | `TypeCorrect` (`TypeOK`), `FactorsSurvive` (`NumbersKept`), `NoOtherPanic` (`PanicsOnlyOnCut`) |
| `KmsKey_proofs` | `TypeCorrect` (`TypeOK`), `AnswersBelong` (`InFlight`), `CallsAreAtomic` (`Atomic`), `NoOtherPanic` (`BlockingThreadsDontPanic`) |

### Assumptions

* `KeysAssumption` (CoseSign1): key objects are ones the constructors return.
* `HeadersAssumption` (CoseSign1): the header maps that callers pass are of the
  type `HeaderMap`, that is, finite maps from labels to CBOR values (also ones
  that cannot be encoded); header bytes from outside, if they are a map at all,
  hold values that CBOR can encode. They may repeat labels and come in any order.
* `SealWireAssumption` (CoseEncrypt0): the same of header bytes from outside.
* `SealBoundsAssumption`, `BoundsAssumption`, `CutsAssumption`,
  `PairsAssumption`, `ThreadsAssumption`: bounds and lengths are natural numbers,
  pairs have a curve KMS offers, a thread does not both drive and block.
* `None` is no key, no pair and no key object (`KeyObjectAssumption` and parts of
  the above). It stands for the `None` of an `Option`.

TLC evaluates each of them on the instances of the runs.

### Header maps

`DecodesEncoded` is what the document theorems need of a header that is encoded
anew. `to_vec` enumerates the labels in increasing order, so that the proof needs
an increasing enumeration of every finite set of integers to exist
(`Enumerable`). The induction over finite sets is written as a minimal
counterexample: strict inclusion of finite sets is well-founded, a minimal set
without a greatest element (`Greatest`), or without an enumeration, is not empty,
and taking one element away from it gives a smaller one. `to_vec` in the model is
defined on maps that serde_cbor refuses to encode too; CoseSign1 guards it
with `Serializable`. `as_bytes` of CoseEncrypt0 has no such guard in the model, and
`Readable`, a part of `SealedBytesKept`, proves that it needs none: the headers there
are those of `new` or were parsed.

### COSE_Sign1

`SignedBytesKept` is the inductive core. What `verify_signature`
answers depends on the bytes in `doc` alone, while `SelfVerifies` and
`AlgorithmBound` speak of the signature `doc` came from. The two meet only if
every step that moves a document (building, serializing, loading) keeps the
protected bytes, the payload and the signature together, and keeps track of
what the call that made them put into the header. `SignedBytesKept` says so as
the conjunction of `Provenance` (the signature of every document in either slot
was made once, or was damaged), `Lineage` (a document with an origin holds
exactly the fields of its origin) and `Announced` (what `new` and a peer signed
names the algorithm of their pair). It is preserved together with `TypeOK`. The
three results about readers speak of `result`, which only describes the state
in which the call was made, so each is proved for the step that sets it.
`Refinement` maps each signing step to `Author`, each successful read with a
key to `Accept`, and the rest to `Other`.

`RoundTrip` and `RelayKeeps` speak of two calls in a row. Their invariant is
`Transit`: the unprotected header in memory is a header map and the one in transit
an encoded one, after a successful `as_bytes` the bytes are those of `doc`, and
after a successful load `doc` is what the bytes say. With it, `DecodesEncoded`
gives the same headers after `as_bytes` and a load; and since every value that was
decoded can be encoded, `as_bytes` cannot fail on a document that was loaded.

### COSE_Encrypt0

`SealedBytesKept` has the role of `SignedBytesKept`. It adds `Sealed`, what an
encryption in the log is (its key and algorithm, its length, its authenticated
data), and `Readable`, that headers in memory can be encoded. `Genuine` is harder
here than for signatures, because `decrypt` authenticates not the bytes it
received but the header it decoded from them and encoded anew. If the ciphertext
opens, the header the holder of the key authenticated, as bytes, equals that
encoding, and decoding both sides gives, by `DecodesEncoded`, that the header
returned is the holder's. The converse, that unaltered documents decrypt, is true
only of those of `new` (`OwnDecrypts`): a peer's header in another order is not
encoded as the peer wrote it (section 5). For `new`, the encoding of its header of
one entry is unique. `RoundTrip` uses `Written`, the bytes after `as_bytes` are
those of `doc`.

### Signature layout

The invariant is `TypeOK` and `Layout`: the bytes are a prefix of the merged
factors, a proper one only if they were cut. `NumbersKept` alone is not
inductive, since it says nothing of the bytes before they are read. The proof is
for factors of every value and length up to the order of the curve, and every cut.

### KMS calls

`Atomic` speaks of a call that has ended, so it says nothing of the calls that
still wait. `InFlight` does: what is in flight is a request for the algorithm of the
object, made when there was one (except by the constructor), with an answer that
KMS gives to exactly this request for some pair in `seen`. `MoveAlias` only adds to
`seen`, `Lose` takes the answer away, `Serve` adds one for the current pair, and no
step of one thread touches the request of another. `OneBuilder` is needed because
the answer to the constructor's request builds the object: a request that was made
without an object must not still be waiting when there is one. When the answer is
delivered, the pair that witnesses it is the instant `Atomic` asks for. The
assertions of `sign` hold since KMS answers only if the algorithm of the request is
that of the curve (`SpecFits`), so that R and S fit into `key_length` although the
alias may have moved to a longer curve. The number of threads, pairs and retries is
arbitrary.

### Only model-checked

`Returns` is liveness under fairness, which the prover cannot reason about; TLC
checks it in `kms_returns`. The five `doc_*` runs are counterexamples and have
nothing to prove.

## 5. What the code does otherwise than its documentation says

Each is a run that ends in a counterexample, and an entry of `findings`.

* `doc_sets_algorithm`: `new_with_protected` is said to set the algorithm into
  the protected header; it signs the header as it is given. Without label 1 the
  document does not verify.
* `doc_loads_unchecked`: `from_bytes` is said not to check the contents, and the
  CDDL allows the zero-length protected header; the crate writes that form and
  refuses it on loading.
* `doc_refuses_unverified`: `get_payload` is said to return
  `UnverifiedSignature` otherwise; `verify` panics on a signature that is
  shorter than half its length.
* `doc_peer_decrypts`: the authenticated data is said to hold the protected
  attributes from the body; `decrypt` encodes them anew, so that a document
  whose header is in another order does not decrypt.
* `doc_refuses_algorithms`: a test expects unsupported algorithms to be refused;
  the cast to `i8` takes 257 for 1.

Three more things a reader should know, which no run refutes because the comments
can be read so that they are true or say nothing of them. `sign`, `verify` and
`new_with_public_key` "must be called from a Tokio context, otherwise the call
panics" (`kms.rs:55`, `130`, `194`): a task of the runtime is such a context, and
there they panic too, as `Handle::block_on` may not be called from it; what they
need is a thread with a handle that may block. And a TPM key takes its algorithm
from its curve and its digest from its scheme (`tpm.rs:55-87`), so that a P-256 key
with a SHA-384 scheme signs SHA-384 digests under ES256, which no other backend of
that pair verifies; `SelfVerifies` and `AlgorithmBound` speak of the digest for
this reason. And `CoseSign1` deserialized with serde directly skips a tag, since its
visitor has `visit_newtype_struct` (`sign.rs:246-252`), while `CoseEncrypt0`, whose
`Deserialize` is derived (`encrypt.rs:194`), refuses any tagged document, also its own;
`from_bytes` of both takes the tag off with `Tagged`.

## 6. Plan

Done: HeaderMap, Crypto, CoseSign1, EcSignature, CoseEncrypt0, KmsKey, the
abstract specification AuthoredStatements with the refinements of both document
types; a theorem for every safety property of the runs.

1. **KmsKey and Crypto**: an abstract specification of a key whose calls take one
   instant, which KmsKey implements. `Atomic` says as much of each call by itself.
2. **Crypto**: what `verify` and `sign` of two backends of one pair have to do with
   each other, as a theorem about the operators; now it is inside
   `OwnDocumentsVerify`.

## 7. Not modelled

* Tokio beyond what `Handle::current` and `block_on` see of it: `block_in_place`,
  with which a task of a multi-threaded runtime may turn its thread into one that
  may block (a driver that leaves), and the limit of the pool of blocking threads,
  at which a call is not begun at all. Several `KmsKey` objects: they share nothing
  but the runtime.
* `get_unprotected` returns a reference to a field. `FromStr` and `Display` of
  the algorithms, and the texts of errors, are string conversions.
  `SigStructure` for several signers and external data are not offered by the
  public interface.
* A signature longer than both halves: its second half may carry leading zeros
  and still be the same number to OpenSSL. Signatures here are whole or cut.
* The ciphers, hashes and ECDSA themselves, and OpenSSL failing for lack of
  memory inside `decrypt_aead`, which has the same error as a failed
  authentication.
* The TPM session: `TpmKey` is not `Sync`, so that one thread issues one command at
  a time, no borrow of the `RefCell` is nested in another, and the context keeps no
  state the crate reads. The results of its calls are in Crypto.
* Labels other than positive integers, whose order among each other is
  `serde_cbor`'s.
