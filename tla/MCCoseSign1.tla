---------------------------- MODULE MCCoseSign1 ----------------------------
(***************************************************************************)
(* Instances of CoseSign1 for TLC.                                         *)
(***************************************************************************)
EXTENDS CoseSign1, TLC

PairA == [id |-> "A", curve |-> "P256"]
PairB == [id |-> "B", curve |-> "P256"]
PairC == [id |-> "C", curve |-> "P384"]
PairK == [id |-> "K", curve |-> "secp256k1"]

KeyObject(backend, pair, public, sig_alg, hash, private) ==
    [backend |-> backend, pair |-> pair, public |-> public,
     sig_alg |-> sig_alg, hash |-> hash, private |-> private]
PKey(pair, private) == KeyObject("pkey", pair, pair, "ES256", "Sha256", private)

Es256 == CborInteger(-7)
Kid   == CborBytes(11)
Wide  == [kind |-> "Wide", v |-> 0]
KidAndAlg == EncodedMap(<< <<4, Kid>>, <<1, Es256>> >>)

\* Headers: every kind of header map, with keys of two curves and one whose
\* curve is not supported.
HeaderKeys        == {PKey(PairA, TRUE), PKey(PairC, FALSE), PKey(PairK, TRUE)}
HeaderPayloads    == {"text"}
HeaderProtected   == {EmptyMap, (4 :> Kid), (1 :> Es256 @@ 4 :> Kid), (1 :> CborText(1)),
                      (1 :> CborInteger(-35)), (1 :> Wide)}
HeaderUnprotected == {(4 :> Kid), (4 :> Wide)}
HeaderPeer        == {KidAndAlg, EncodedMap(<< <<1, Es256>>, <<1, Es256>> >>), ZeroLength}
HeaderWire        == {EncodedMap(<< >>), EncodedMap(<< <<4, Kid>>, <<4, Kid>> >>)}

\* Splicing: two signers, two payloads, and parts of one document in another.
SpliceKeys        == {PKey(PairA, TRUE), PKey(PairB, TRUE)}
SplicePayloads    == {"text", "other"}
SpliceProtected   == {}
SpliceUnprotected == {EmptyMap}
SplicePeer        == {KidAndAlg}
SpliceWire        == {}

\* Backends: the pair A behind every kind of key object, a KmsKey whose
\* algorithm is not the key's, one with another pair's public key, and one
\* whose id stands for a pair on a curve the crate does not know.
TpmKey(pair, hash)  == KeyObject("tpm", pair, pair, "ES256", hash, TRUE)
KmsKey(pair, alg)   == KeyObject("kms", pair, pair, alg, "Sha256", TRUE)
KmsPublic(pair, pk) == KeyObject("kms_public", pair, pk, "ES256", "Sha256", TRUE)
BackendKeys == {TpmKey(PairA, "Sha256"), TpmKey(PairA, "Sha384"), KmsKey(PairA, "ES256"),
                KmsKey(PairA, "ES384"), KmsKey(PairK, "ES256"), KmsPublic(PairA, PairB),
                KmsPublic(PairA, PairA), PKey(PairA, FALSE)}

WrongTag     == {19}
ShortLengths == {31, 32}
============================================================================
