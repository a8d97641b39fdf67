--------------------------- MODULE MCEcSignature ---------------------------
(***************************************************************************)
(* EcSignature with the real lengths.  Every byte of a factor is marked    *)
(* with its position, so that a byte in a wrong place shows.               *)
(***************************************************************************)
EXTENDS EcSignature

Short(k)     == [i \in 1 .. k |-> i]
Zeros(k, n)  == [i \in 1 .. n |-> IF i <= k THEN 0 ELSE i]

MCFactors ==
    [a \in SignatureAlgorithm |->
        LET n == OrderBytes[a]
        IN  {Short(k) : k \in {1, 2, n - 2, n - 1, n}} \cup {Zeros(k, n) : k \in {1, n - 1}}]

MCCuts == {0, 31, 32, 33, 47, 48, 65, 66, 67, 131}
============================================================================
