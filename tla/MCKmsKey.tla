------------------------------ MODULE MCKmsKey -----------------------------
(***************************************************************************)
(* Instances of KmsKey for TLC.                                            *)
(***************************************************************************)
EXTENDS KmsKey, TLC

PairA == [id |-> "A", curve |-> "P256"]
PairE == [id |-> "E", curve |-> "P521"]
PairK == [id |-> "K", curve |-> "secp256k1"]

\* An alias that moves to a key of a longer curve, and to one of a curve that
\* the crate does not support and KMS signs with the same algorithm for.
Longer      == {PairA, PairE}
Unsupported == {PairA, PairK}

\* Blocking threads differ in nothing but their names, and so do messages.
Interchangeable == Permutations(Blocking) \cup Permutations(Messages)
============================================================================
