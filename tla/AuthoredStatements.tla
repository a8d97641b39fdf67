------------------------ MODULE AuthoredStatements -------------------------
(***************************************************************************)
(* What COSE documents promise, with no bytes, headers, signatures or      *)
(* ciphertexts in it: holders of keys author statements, and a reader who  *)
(* names a key is given a statement only if a holder of that key authored  *)
(* it.  Nothing a transport does adds to what has been authored.  For a    *)
(* COSE_Sign1 the key is a key pair, for a COSE_Encrypt0 a symmetric key.  *)
(***************************************************************************)
CONSTANT None

VARIABLES
    authored,  \* the statements authored so far
    accepted   \* the statement the last call gave its reader, or None

Init == authored = {} /\ accepted = None

Author(statement) ==
    /\ authored' = authored \cup {statement}
    /\ accepted' = None

Accept(statement) ==
    /\ statement \in authored
    /\ accepted' = statement
    /\ UNCHANGED authored

\* Every other call and every event of the transport.
Other == accepted' = None /\ UNCHANGED authored

Next == (\E s \in authored' : Author(s)) \/ (\E s \in authored : Accept(s)) \/ Other

Spec == Init /\ [][Next]_<<authored, accepted>>
============================================================================
