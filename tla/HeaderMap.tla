----------------------------- MODULE HeaderMap -----------------------------
(***************************************************************************)
(* header_map.rs: COSE header maps and the byte strings that carry them.   *)
(*                                                                         *)
(* In memory a HeaderMap is a BTreeMap from CBOR labels to CBOR values:    *)
(* here a function whose domain is a finite set of labels.  On the wire it *)
(* is a byte string: either zero-length, or one CBOR map (a sequence of    *)
(* label/value entries in the order the encoder wrote them, possibly with  *)
(* a label twice), or something that is not exactly one CBOR map.          *)
(*                                                                         *)
(* Labels are positive integers, for which the order of serde_cbor's Value *)
(* (the BTreeMap's key order) is the integer order.                        *)
(***************************************************************************)
EXTENDS Integers, FiniteSets, Sequences, Functions

(***************************************************************************)
(* A CborValue, reduced to what the crate tells apart: its kind, and its   *)
(* contents (the number of an Integer, an identity for a Text or a Bytes). *)
(* "Wide" is a CborValue::Integer, an i128, outside the 64-bit range of a  *)
(* CBOR integer: it can be held in memory and cannot be encoded.           *)
(***************************************************************************)
CborValue == [kind : {"Integer", "Wide", "Text", "Bytes"}, v : Int]
Encodable == [kind : {"Integer", "Text", "Bytes"}, v : Int]

CborInteger(n) == [kind |-> "Integer", v |-> n]
CborText(n)    == [kind |-> "Text", v |-> n]
CborBytes(n)   == [kind |-> "Bytes", v |-> n]

\* The label of the algorithm identifier (RFC 8152 section 3.1), the only
\* one the crate reads from a protected header.
AlgLabel == 1

----------------------------------------------------------------------------
(* The in-memory map. *)

EmptyMap == [l \in {} |-> CborInteger(0)]

insert(map, key, value) ==
    [l \in DOMAIN map \cup {key} |-> IF l = key THEN value ELSE map[l]]

is_empty(map) == DOMAIN map = {}

\* The type HeaderMap.
IsHeaderMap(map) ==
    /\ map \in [DOMAIN map -> CborValue]
    /\ IsFiniteSet(DOMAIN map) /\ DOMAIN map \subseteq Int

\* get() answers Some(value) for a key of the map; Has is that test.
Has(map, key) == key \in DOMAIN map
get(map, key) == map[key]

----------------------------------------------------------------------------
(* The byte string. *)

Encoded(form, entries) == [form |-> form, entries |-> entries]
ZeroLength             == Encoded("empty", << >>)
Malformed              == Encoded("malformed", << >>)
EncodedMap(entries)    == Encoded("map", entries)

\* What a byte string that carries a header map can be.
IsEncoded(bytes) ==
    /\ bytes = Encoded(bytes.form, bytes.entries)
    /\ bytes.entries \in Seq(Int \X Encodable)

Labels(bytes) == {bytes.entries[i][1] : i \in DOMAIN bytes.entries}

\* serde_cbor::to_vec fails on an integer that no CBOR head can carry.
Serializable(map) == \A l \in DOMAIN map : map[l].kind # "Wide"

\* serde_cbor::to_vec writes the entries in the key order of the BTreeMap.
Increasing(S) ==
    CHOOSE s \in [1..Cardinality(S) -> S] : \A i, j \in DOMAIN s : i < j => s[i] < s[j]

to_vec(map) ==
    LET keys == Increasing(DOMAIN map)
    IN  EncodedMap([i \in DOMAIN keys |-> <<keys[i], map[keys[i]]>>])

map_to_empty_or_serialized(map) ==
    IF is_empty(map) THEN ZeroLength ELSE to_vec(map)

\* HeaderMap::from_bytes succeeds on exactly one CBOR map that repeats no
\* label (maps_duplicate_key_is_error).  The zero-length string is not one.
Parses(bytes) ==
    /\ bytes.form = "map"
    /\ \A i, j \in DOMAIN bytes.entries :
          bytes.entries[i][1] = bytes.entries[j][1] => i = j

from_bytes(bytes) ==
    [l \in Labels(bytes) |->
        (CHOOSE e \in Range(bytes.entries) : e[1] = l)[2]]
============================================================================
