---------------------------- MODULE EcSignature ----------------------------
(***************************************************************************)
(* The byte layout of a signature: how sign() joins the factors R and S    *)
(* that the ECDSA implementation returns (merge_ec_signature, and the copy *)
(* of it in kms.rs) and how verify() takes them apart again, possibly in   *)
(* another backend and after the bytes were cut short on their way.        *)
(*                                                                         *)
(* A byte string is a sequence of bytes; as a number it is big-endian.     *)
(***************************************************************************)
EXTENDS Crypto, Sequences

CONSTANTS
    Factors, \* for each algorithm, the byte strings R and S come in
    Cuts     \* lengths that a signature may be cut to

Byte == 0 .. 255

\* Bits of the order of the curve of each algorithm: R and S are below it.
OrderBits  == [ES256 |-> 256, ES384 |-> 384, ES512 |-> 521]
OrderBytes == [alg \in SignatureAlgorithm |-> (OrderBits[alg] + 7) \div 8]

ASSUME FactorsAssumption ==
    /\ Factors \in [SignatureAlgorithm -> SUBSET Seq(Byte)]
    /\ \A alg \in SignatureAlgorithm : \A f \in Factors[alg] : Len(f) <= OrderBytes[alg]
ASSUME CutsAssumption == Cuts \subseteq Nat

VARIABLES
    alg,      \* the algorithm of the key
    factors,  \* R and S as the ECDSA implementation returned them
    bytes,    \* the signature
    cut,      \* whether the bytes were cut short
    read,     \* R and S as verify() hands them to the ECDSA implementation
    outcome   \* how the last call ended

vars == <<alg, factors, bytes, cut, read, outcome>>

----------------------------------------------------------------------------
\* The i-th byte of the number a byte string stands for, from its low end.
Digit(f, i) == IF i <= Len(f) THEN f[Len(f) + 1 - i] ELSE 0

SameNumber(f, g) == \A i \in 1 .. Len(f) + Len(g) : Digit(f, i) = Digit(g, i)

\* BigNum::to_vec, in openssl_pkey.rs and kms.rs, writes no leading zero; a TPM
\* may return its factors with leading zeros.
Minimal(f) == Len(f) > 0 /\ f[1] # 0

----------------------------------------------------------------------------
\* (mutant) the factors are copied to the start of their halves
merge_ec_signature_PadRight(bytes_r, bytes_s, n) ==
    [i \in 1 .. 2 * n |->
        IF i <= Len(bytes_r) THEN bytes_r[i]
        ELSE IF i > n /\ i <= n + Len(bytes_s) THEN bytes_s[i - n]
        ELSE 0]

\* (mutant) the factors are joined as they come
merge_ec_signature_Unpadded(bytes_r, bytes_s, n) == bytes_r \o bytes_s

\* 2 * n zero bytes, with R copied to the end of the first half and S to the
\* end of the second.
merge_ec_signature(bytes_r, bytes_s, n) ==
    [i \in 1 .. 2 * n |->
        IF i > n - Len(bytes_r) /\ i <= n THEN bytes_r[i - (n - Len(bytes_r))]
        ELSE IF i > 2 * n - Len(bytes_s) THEN bytes_s[i - (2 * n - Len(bytes_s))]
        ELSE 0]

\* slice::split_at(n), for n no greater than the length.
FirstHalf(b, n)  == [i \in 1 .. n |-> b[i]]
SecondHalf(b, n) == [i \in 1 .. Len(b) - n |-> b[n + i]]

----------------------------------------------------------------------------
Init ==
    /\ alg \in SignatureAlgorithm
    /\ factors = << >> /\ bytes = << >> /\ read = << >>
    /\ cut = FALSE
    /\ outcome = "none"

\* sign(): the two assertions, then the merge.
Merge(r, s) ==
    LET n == key_length[alg]
    IN  /\ factors' = <<r, s>>
        /\ \/ /\ Len(r) <= n /\ Len(s) <= n
              /\ bytes' = merge_ec_signature(r, s, n)
              /\ outcome' = "signed"
           \/ /\ Len(r) > n \/ Len(s) > n
              /\ bytes' = << >>
              /\ outcome' = "panic"
        /\ cut' = FALSE
        /\ read' = << >>
        /\ UNCHANGED alg

PKeySign(r, s) == Minimal(r) /\ Minimal(s) /\ Merge(r, s)
KmsSign(r, s)  == Minimal(r) /\ Minimal(s) /\ Merge(r, s)
TpmSign(r, s)  == Merge(r, s)

\* The signature arrives shorter than it was made.
CutShort(n) ==
    /\ n < Len(bytes)
    /\ bytes' = [i \in 1 .. n |-> bytes[i]]
    /\ cut' = TRUE
    /\ read' = << >>
    /\ outcome' = "none"
    /\ UNCHANGED <<alg, factors>>

\* verify(), which splits first in every backend.
Verify ==
    /\ factors # << >> /\ outcome # "panic"
    /\ LET n == key_length[alg]
       IN  \/ /\ Len(bytes) >= n
              /\ read' = <<FirstHalf(bytes, n), SecondHalf(bytes, n)>>
              /\ outcome' = "read"
           \/ /\ Len(bytes) < n
              /\ read' = << >>
              /\ outcome' = "panic"
    /\ UNCHANGED <<alg, factors, bytes, cut>>

Next ==
    \/ \E r, s \in Factors[alg] : PKeySign(r, s)
    \/ \E r, s \in Factors[alg] : KmsSign(r, s)
    \/ \E r, s \in Factors[alg] : TpmSign(r, s)
    \/ \E n \in Cuts : CutShort(n)
    \/ Verify

Spec == Init /\ [][Next]_vars

----------------------------------------------------------------------------
(* Properties. *)

\* The type invariant; sign() returns two halves of key_length bytes each.
TypeOK ==
    /\ alg \in SignatureAlgorithm
    /\ factors = << >> \/ factors \in Factors[alg] \X Factors[alg]
    /\ bytes \in Seq(Byte)
    /\ outcome = "signed" => Len(bytes) = 2 * key_length[alg]
    /\ cut \in BOOLEAN

\* The factors a signature was made of (merge_ec_signature, mod.rs:137-154;
\* kms.rs:231-250) are, as numbers, the ones every backend's verify() reads
\* from the whole signature, however short they came and with whatever leading
\* zeros, and R is read intact even from a signature that lost bytes of S.
NumbersKept ==
    outcome = "read" =>
       /\ SameNumber(read[1], factors[1])
       /\ cut \/ SameNumber(read[2], factors[2])

\* The assertions "These should *never* exceed ceiling(key_length / 8)"
\* (kms.rs:234-236, mod.rs:138-139) hold for every curve: sign() does not
\* panic, and verify() only on a signature without a whole R.
PanicsOnlyOnCut == outcome = "panic" => cut /\ Len(bytes) < OrderBytes[alg]
============================================================================
