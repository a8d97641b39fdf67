------------------------------ MODULE Crypto -------------------------------
(***************************************************************************)
(* The signing side of crypto/: the algorithm tables of mod.rs, and the    *)
(* three implementors of SigningPublicKey / SigningPrivateKey.             *)
(*                                                                         *)
(* A key object is a record                                                *)
(*   backend  "pkey"        an OpenSSL PKey or PKeyRef                     *)
(*            "kms"         KmsKey::new: signatures verified by KMS        *)
(*            "kms_public"  KmsKey::new_with_public_key: verified locally  *)
(*            "tpm"         a TpmKey                                       *)
(*   pair     the key pair that signs, a record with its curve             *)
(*   public   the key pair whose public half verifies (differs from pair   *)
(*            only when KmsKey was given an unrelated public key)          *)
(*   sig_alg  the algorithm given to KmsKey::new (other backends: unused)  *)
(*   hash     the digest of the TPM key's signing scheme (others: unused)  *)
(*   private  whether the object can sign                                  *)
(*                                                                         *)
(* Hashes and signatures are symbolic: a digest is the record of what was  *)
(* hashed and with which function, a signature the record of the pair and  *)
(* the digest it was made from, together with its length in bytes.         *)
(***************************************************************************)
EXTENDS HeaderMap

SignatureAlgorithm == {"ES256", "ES384", "ES512"}
MessageDigest      == {"Sha256", "Sha384", "Sha512"}

\* The discriminants of the enum (RFC 8152 section 8.1).
AlgId == [ES256 |-> -7, ES384 |-> -35, ES512 |-> -36]

\* (mutant) 512 bits are 64 bytes, but the curve of ES512 has 521
key_length_Es512Is64 == [ES256 |-> 32, ES384 |-> 48, ES512 |-> 64]

\* Bytes of a coordinate, hence of one half of a signature.
key_length == [ES256 |-> 32, ES384 |-> 48, ES512 |-> 66]

suggested_message_digest ==
    [ES256 |-> "Sha256", ES384 |-> "Sha384", ES512 |-> "Sha512"]

\* impl From<SignatureAlgorithm> for HeaderMap
AlgorithmHeader(sig_alg) ==
    insert(EmptyMap, AlgLabel, CborInteger(AlgId[sig_alg]))

\* ec_curve_to_parameters and the curve table of TpmKey::public_to_parameters.
CurveAlg == [P256 |-> "ES256", P384 |-> "ES384", P521 |-> "ES512"]
SupportedCurve(curve) == curve \in DOMAIN CurveAlg

----------------------------------------------------------------------------
(* SigningPublicKey::get_parameters. *)

\* Only a PKey can still be refused here: it may hold a key of any type or
\* curve.  The constructors of the other backends return an error instead.
HasParameters(key) == key.backend = "pkey" => SupportedCurve(key.public.curve)

SigAlg(key) ==
    IF key.backend = "kms" THEN key.sig_alg ELSE CurveAlg[key.public.curve]

Digest(key) ==
    IF key.backend = "tpm" THEN key.hash
    ELSE suggested_message_digest[SigAlg(key)]

\* KmsKey::new checks nothing; new_with_public_key wants a supported curve.
KmsKeyOK(key) ==
    /\ key.backend = "kms" => key.public = key.pair /\ key.sig_alg \in SignatureAlgorithm
    /\ key.backend = "kms_public" => SupportedCurve(key.public.curve)

\* TpmKey::new wants a supported curve and a supported digest, each by itself.
TpmKeyOK(key) ==
    key.backend = "tpm" => /\ key.public = key.pair
                           /\ SupportedCurve(key.public.curve)
                           /\ key.hash \in MessageDigest

\* What the constructors let exist.
KeyObjectOK(key) ==
    /\ key.backend \in {"pkey", "kms", "kms_public", "tpm"}
    /\ key.backend = "pkey" => key.public = key.pair
    /\ KmsKeyOK(key) /\ TpmKeyOK(key)
    /\ key.private \in BOOLEAN

----------------------------------------------------------------------------
(* Hash, sign and verify. *)

\* (mutant) the digest the key asks for is ignored
Hash_AlwaysSha256(digest, data) == [digest |-> "Sha256", data |-> data]

Hash(digest, data) == [digest |-> digest, data |-> data]

\* sign() returns R and S, each left-padded to key_length bytes.
Signature(key, hashed) ==
    [pair |-> key.pair, over |-> hashed, len |-> 2 * key_length[SigAlg(key)]]

\* The errors sign() can return: the service or device failed, or refused.
KmsSignErrors == {"AwsSignError", "UnsupportedError", "SignatureError"}
TpmSignErrors == {"UnsupportedError", "TpmError"}
SignErrors(key) ==
    CASE key.backend = "pkey" -> {"SignatureError"}
      [] key.backend \in {"kms", "kms_public"} -> KmsSignErrors
      [] key.backend = "tpm" -> TpmSignErrors

\* KMS signs and verifies with one algorithm per curve and refuses a request
\* that names another one.
KmsAlg == [P256 |-> "ES256", P384 |-> "ES384", P521 |-> "ES512", secp256k1 |-> "ES256"]
KmsAccepts(key) ==
    /\ key.pair.curve \in DOMAIN KmsAlg
    /\ KmsAlg[key.pair.curve] = SigAlg(key)
CanSign(key) == key.backend \in {"kms", "kms_public"} => KmsAccepts(key)

\* The errors verify() can return.
KmsVerifyErrors == {"SignatureError", "AwsVerifyError"}
TpmVerifyErrors == {"UnsupportedError", "TpmError"}
VerifyErrors(key) ==
    CASE key.backend \in {"pkey", "kms_public"} -> {"SignatureError"}
      [] key.backend = "kms" -> KmsVerifyErrors
      [] key.backend = "tpm" -> TpmVerifyErrors

\* ECDSA: the bytes hold the R and S that this pair made for this digest.
Valid(key, hashed, signature) ==
    /\ signature.len = 2 * key_length[SigAlg(key)]
    /\ signature.pair = key.public
    /\ signature.over = hashed

\* (mutant) any KMS service error is taken for a bad signature
verify_KmsErrorIsFalse(key, hashed, signature) ==
    IF signature.len < key_length[SigAlg(key)] THEN {"panic"}
    ELSE (IF key.backend = "kms" THEN {"SignatureError", "false"} ELSE VerifyErrors(key)) \cup
         (IF Valid(key, hashed, signature) THEN {"true"} ELSE {"false"})

\* (mutant) any KMS reply is taken for a good signature
verify_KmsReplyIsTrue(key, hashed, signature) ==
    IF signature.len < key_length[SigAlg(key)] THEN {"panic"}
    ELSE VerifyErrors(key) \cup
         (IF key.backend = "kms" \/ Valid(key, hashed, signature) THEN {"true"} ELSE {"false"})

\* The outcomes of verify(): every backend begins with split_at(key_length),
\* which panics on a shorter signature.
verify(key, hashed, signature) ==
    IF signature.len < key_length[SigAlg(key)] THEN {"panic"}
    ELSE VerifyErrors(key) \cup
         (IF key.backend = "kms" /\ ~KmsAccepts(key) THEN {}
          ELSE IF Valid(key, hashed, signature) THEN {"true"} ELSE {"false"})
============================================================================
