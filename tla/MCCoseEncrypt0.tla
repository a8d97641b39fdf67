-------------------------- MODULE MCCoseEncrypt0 ---------------------------
(***************************************************************************)
(* Instances of CoseEncrypt0 for TLC.                                      *)
(***************************************************************************)
EXTENDS CoseEncrypt0

KeyA == [id |-> "A", len |-> 16]
KeyB == [id |-> "B", len |-> 32]
KeyX == [id |-> "X", len |-> 18]
TwoKeys   == {KeyA, KeyB}
ThreeKeys == {KeyA, KeyB, KeyX}

\* The empty payload is encrypted into nothing but its tag.
EmptyAndText == {[id |-> "empty", len |-> 0], [id |-> "text", len |-> 5]}
Empty        == {[id |-> "empty", len |-> 0]}

Kid  == CborBytes(11)
Alg(n)    == EncodedMap(<< <<KTY, CborInteger(n)>> >>)
KidAndAlg == EncodedMap(<< <<4, Kid>>, <<KTY, CborInteger(1)>> >>)
AlgAndKid == EncodedMap(<< <<KTY, CborInteger(1)>>, <<4, Kid>> >>)

\* Headers in and out of order, with another algorithm, an unsupported one and one
\* that the cast to i8 makes a supported one of, and not a header at all.
Headers   == {AlgAndKid, KidAndAlg, Alg(3), Alg(42), Alg(257), Malformed}
Disorder  == {KidAndAlg}
Alias     == {Alg(257)}

NoIV        == {EncodedMap(<< <<IV, CborInteger(42)>> >>),
                EncodedMap(<< <<IV, Kid>>, <<IV, Kid>> >>)}
WrongTag    == {18}
AroundTag   == {15, 16}
============================================================================
