------------------------------- MODULE KmsKey ------------------------------
(***************************************************************************)
(* crypto/kms.rs in time.  sign, verify and new_with_public_key are        *)
(* synchronous functions that block on a request to AWS KMS.  Threads      *)
(* share one KmsKey; between the start and the end of a call other threads *)
(* call it, the key that key_id (an alias) stands for is exchanged,        *)
(* answers are late, lost and asked for again, and the Tokio runtime that  *)
(* carries the requests is left, entered or shut down.                     *)
(*                                                                         *)
(* Crypto describes the same calls as single steps on a key object with    *)
(* one pair.  Here a call takes as many steps as it takes.                 *)
(***************************************************************************)
EXTENDS Crypto

CONSTANTS
    Drivers,   \* threads that run the runtime's tasks while they are inside it,
               \* and are in no Tokio context when they are not
    Blocking,  \* threads that hold a handle of the runtime and may block
               \* (spawn_blocking, or a thread under Handle::enter)
    Pairs,     \* the key pairs in KMS
    Algs,      \* the algorithms given to KmsKey::new
    Messages,  \* what is hashed and signed
    MaxTries,  \* bound: how often the SDK asks again when an answer is lost
    None       \* no key, no call, no reply, no signature

Threads == Drivers \cup Blocking

ASSUME ThreadsAssumption == Drivers \cap Blocking = {}
ASSUME PairsAssumption ==
    /\ \A p \in Pairs : p.curve \in DOMAIN KmsAlg /\ p # None
    /\ Algs \subseteq SignatureAlgorithm /\ MaxTries \in Nat

VARIABLES
    alias,    \* the pair that key_id stands for at KMS now
    key,      \* the KmsKey the threads share
    call,     \* for each thread, the request it blocks on
    driving,  \* the drivers that are inside the runtime
    runtime,  \* "up" or "down"
    signed,   \* history: the signature sign() returned last, if any
    result    \* how the last call ended

vars == <<alias, key, call, driving, runtime, signed, result>>

----------------------------------------------------------------------------
(* The key object.  It names no pair: ObjectAt(k, p) is what k amounts to, *)
(* in the terms of Crypto, while key_id stands for p.                      *)

KmsKeyOf(backend, sig_alg, public_key) ==
    [backend |-> backend, sig_alg |-> sig_alg, public_key |-> public_key]

\* None is not such an object.
ASSUME KeyObjectAssumption ==
    \A a \in SignatureAlgorithm, p \in Pairs : KmsKeyOf("kms_public", a, p) # None

ObjectAt(k, p) ==
    [backend |-> k.backend, pair |-> p,
     public  |-> IF k.backend = "kms" THEN p ELSE k.public_key,
     sig_alg |-> k.sig_alg, hash |-> "Sha256", private |-> TRUE]
KeyAt(p) == ObjectAt(key, p)

\* (mutant) every request names the same algorithm
get_sig_alg_spec_Constant == [ES256 |-> "EcdsaSha512", ES384 |-> "EcdsaSha512", ES512 |-> "EcdsaSha512"]

get_sig_alg_spec == [ES256 |-> "EcdsaSha256", ES384 |-> "EcdsaSha384", ES512 |-> "EcdsaSha512"]

----------------------------------------------------------------------------
(* The Tokio runtime, as far as Handle::current and block_on go. *)

Context(t) ==
    IF t \in driving THEN "async" ELSE IF t \in Blocking THEN "blocking" ELSE "none"

\* Handle::current() panics without a context.
HasHandle(t) == Context(t) # "none"

\* (mutant) an executor that blocks the thread whatever it is
CanBlock_AnyExecutor(t) == HasHandle(t)

\* Handle::block_on panics on a thread that is driving a runtime.
CanBlock(t) == HasHandle(t) /\ Context(t) # "async"

\* Somebody moves the sockets and timers on.
Driven == runtime = "up" /\ \E d \in driving : call[d] = None

----------------------------------------------------------------------------
(* AWS KMS. *)

\* The one algorithm KMS has for a key of each curve, and the bytes of its
\* R and S.
CurveSpec == [P256 |-> "EcdsaSha256", P384 |-> "EcdsaSha384", P521 |-> "EcdsaSha512",
              secp256k1 |-> "EcdsaSha256"]
CurveBytes == [P256 |-> 32, P384 |-> 48, P521 |-> 66, secp256k1 |-> 32]

\* An answer: the pair it was given for, and what a signature in it is made over.
Reply(kind, pair, over) == [kind |-> kind, pair |-> pair, over |-> over]

\* What KMS may answer to request c of key object k while key_id stands for p.
Replies(k, c, p) ==
    {Reply("failed", None, None)} \cup
    CASE c.op = "get_public_key" -> {Reply("public_key", p, None), Reply("unusable", None, None)}
      [] c.op = "sign" ->
            IF c.spec = CurveSpec[p.curve]
            THEN {Reply("signature", p, c.data), Reply("unusable", None, None)} ELSE {}
      [] c.op = "verify" ->
            IF c.spec # CurveSpec[p.curve] THEN {}
            ELSE IF Valid(ObjectAt(k, p), c.data, c.signature) THEN {Reply("valid", p, None)}
            ELSE {Reply("invalid_signature", p, None)}

----------------------------------------------------------------------------
\* (mutant) the request names one algorithm for all keys
Request_FixedSpec(op, data, signature) ==
    [op |-> op, data |-> data, signature |-> signature,
     spec |-> IF op \in {"sign", "verify"} THEN "EcdsaSha256" ELSE None,
     reply |-> None, tries |-> 0, seen |-> {alias}]

Request(op, data, signature) ==
    [op |-> op, data |-> data, signature |-> signature,
     spec |-> IF op \in {"sign", "verify"} THEN get_sig_alg_spec[key.sig_alg] ELSE None,
     reply |-> None, tries |-> 0, seen |-> {alias}]

\* A call ends.  seen is history: the pairs key_id stood for meanwhile.
Return(t, c, outcome, value) ==
    result' = [op |-> c.op, data |-> c.data, signature |-> c.signature, seen |-> c.seen,
               context |-> Context(t), outcome |-> outcome, value |-> value]

NoResult == [op |-> "none", data |-> None, signature |-> None, seen |-> {},
             context |-> "none", outcome |-> "none", value |-> None]

Init ==
    /\ alias \in Pairs
    /\ key = None
    /\ call = [t \in Threads |-> None]
    /\ driving \in SUBSET Drivers
    /\ runtime = "up"
    /\ signed = {}
    /\ result = NoResult

\* handle.block_on(request): the thread waits, or panics where it may not.
BlockOn(t, c) ==
    /\ \/ CanBlock(t) /\ call' = [call EXCEPT ![t] = c] /\ UNCHANGED result
       \/ ~CanBlock(t) /\ Return(t, c, "panic", None) /\ UNCHANGED call
    /\ UNCHANGED <<alias, key, driving, runtime, signed>>

----------------------------------------------------------------------------
(* The constructors; one thread builds the object that all of them use. *)

Building == \E t \in Threads : call[t] # None

New(sig_alg) ==
    /\ key = None /\ ~Building
    /\ key' = KmsKeyOf("kms", sig_alg, None)
    /\ UNCHANGED <<alias, call, driving, runtime, signed, result>>

\* (mutant) the algorithm does not follow the curve
WithPublicKey_AlwaysEs256(t, c, p) ==
    SupportedCurve(p.curve) /\ key' = KmsKeyOf("kms_public", "ES256", p) /\ Return(t, c, "Ok", p)

\* The curve decides whether the key is supported and what sig_alg is.
WithPublicKey(t, c, p) ==
    \/ /\ SupportedCurve(p.curve)
       /\ key' = KmsKeyOf("kms_public", CurveAlg[p.curve], p)
       /\ Return(t, c, "Ok", p)
    \/ /\ ~SupportedCurve(p.curve)
       /\ Return(t, c, "UnsupportedError", None)
       /\ UNCHANGED key

\* The handle is asked for first, even if there is nothing to wait for.
NewWithPublicKey(t, public_key) ==
    LET c == Request(IF public_key = None THEN "get_public_key" ELSE "given_public_key",
                     None, None)
    IN  /\ key = None /\ ~Building
        /\ \/ public_key = None /\ BlockOn(t, c)
           \/ /\ public_key # None /\ HasHandle(t)
              /\ WithPublicKey(t, c, public_key)
              /\ UNCHANGED <<alias, call, driving, runtime, signed>>
           \/ /\ public_key # None /\ ~HasHandle(t)
              /\ Return(t, c, "panic", None)
              /\ UNCHANGED <<alias, key, call, driving, runtime, signed>>

----------------------------------------------------------------------------
(* sign and verify begin. *)

Hashed(m) == Hash(Digest(KeyAt(alias)), m)

Sign(t, m) ==
    /\ key # None /\ call[t] = None
    /\ BlockOn(t, Request("sign", Hashed(m), None))

VerifyLocally(t, c) ==
    /\ \E o \in verify(KeyAt(alias), c.data, c.signature) : Return(t, c, o, None)
    /\ UNCHANGED <<alias, key, call, driving, runtime, signed>>

\* With KMS the signature is split and converted before the handle is asked for.
Verify(t, m, signature) ==
    LET c == Request("verify", Hashed(m), signature)
    IN  /\ key # None /\ call[t] = None
        /\ \/ key.public_key # None /\ VerifyLocally(t, c)
           \/ /\ key.public_key = None /\ signature.len < key_length[key.sig_alg]
              /\ Return(t, c, "panic", None)
              /\ UNCHANGED <<alias, key, call, driving, runtime, signed>>
           \/ /\ key.public_key = None /\ signature.len >= key_length[key.sig_alg]
              /\ \/ BlockOn(t, c)
                 \/ /\ Return(t, c, "SignatureError", None)
                    /\ UNCHANGED <<alias, key, call, driving, runtime, signed>>

----------------------------------------------------------------------------
(* The requests under way. *)

\* KMS answers with the key that key_id stands for at that moment.
Serve(t) ==
    /\ runtime = "up" /\ call[t] # None /\ call[t].reply = None
    /\ \E r \in Replies(key, call[t], alias) : call' = [call EXCEPT ![t].reply = r]
    /\ UNCHANGED <<alias, key, driving, runtime, signed, result>>

\* The answer does not arrive and the SDK asks again.
Lose(t) ==
    /\ runtime = "up" /\ call[t] # None
    /\ call[t].reply # None /\ call[t].tries < MaxTries
    /\ call' = [call EXCEPT ![t].reply = None, ![t].tries = @ + 1]
    /\ UNCHANGED <<alias, key, driving, runtime, signed, result>>

AwsError == [get_public_key |-> "AwsGetPublicKeyError", sign |-> "AwsSignError",
             verify |-> "AwsVerifyError"]

FinishGetPublicKey(t, c) ==
    \/ c.reply.kind = "failed" /\ Return(t, c, "AwsGetPublicKeyError", None) /\ UNCHANGED key
    \/ /\ c.reply.kind = "unusable"
       /\ \E e \in {"UnsupportedError", "SignatureError"} : Return(t, c, e, None)
       /\ UNCHANGED key
    \/ c.reply.kind = "public_key" /\ WithPublicKey(t, c, c.reply.pair)

\* (mutant) the answer is taken from any request that has one
FinishSign_AnyAnswer(t, c) ==
    /\ UNCHANGED key
    /\ \E u \in Threads :
          /\ call[u] # None /\ call[u].op = "sign" /\ call[u].reply # None
          /\ call[u].reply.kind = "signature"
          /\ LET s == Signature(KeyAt(call[u].reply.pair), call[u].reply.over)
             IN  Return(t, c, "Ok", s) /\ signed' = {s}

\* The assertions on the length of R and S stand before they are merged.
FinishSign(t, c) ==
    /\ UNCHANGED key
    /\ \/ c.reply.kind = "failed" /\ Return(t, c, "AwsSignError", None) /\ UNCHANGED signed
       \/ /\ c.reply.kind = "unusable"
          /\ \E e \in {"UnsupportedError", "SignatureError"} : Return(t, c, e, None)
          /\ UNCHANGED signed
       \/ /\ c.reply.kind = "signature"
          /\ CurveBytes[c.reply.pair.curve] > key_length[key.sig_alg]
          /\ Return(t, c, "panic", None)
          /\ UNCHANGED signed
       \/ /\ c.reply.kind = "signature"
          /\ CurveBytes[c.reply.pair.curve] <= key_length[key.sig_alg]
          /\ LET s == Signature(KeyAt(c.reply.pair), c.reply.over)
             IN  Return(t, c, "Ok", s) /\ signed' = {s}

\* (mutant) every error is taken for a bad signature
VerifyOutcome_ErrorIsFalse ==
    [valid |-> "true", invalid_signature |-> "false", failed |-> "false"]

VerifyOutcome ==
    [valid |-> "true", invalid_signature |-> "false", failed |-> "AwsVerifyError"]

FinishVerify(t, c) == Return(t, c, VerifyOutcome[c.reply.kind], None) /\ UNCHANGED key

\* block_on returns.
Deliver(t) ==
    /\ Driven /\ call[t] # None /\ call[t].reply # None
    /\ \/ call[t].op = "get_public_key" /\ FinishGetPublicKey(t, call[t]) /\ UNCHANGED signed
       \/ call[t].op = "sign" /\ FinishSign(t, call[t])
       \/ call[t].op = "verify" /\ FinishVerify(t, call[t]) /\ UNCHANGED signed
    /\ call' = [call EXCEPT ![t] = None]
    /\ UNCHANGED <<alias, driving, runtime>>

\* On a runtime that was shut down a socket fails and a timer panics.
Abort(t) ==
    /\ runtime = "down" /\ call[t] # None
    /\ \E o \in {AwsError[call[t].op], "panic"} : Return(t, call[t], o, None)
    /\ call' = [call EXCEPT ![t] = None]
    /\ UNCHANGED <<alias, key, driving, runtime, signed>>

----------------------------------------------------------------------------
(* Around the crate. *)

\* key_id is an alias, or the key material behind it is exchanged.
MoveAlias(p) ==
    /\ p # alias /\ alias' = p
    /\ call' = [t \in Threads |->
                  IF call[t] = None THEN None ELSE [call[t] EXCEPT !.seen = @ \cup {p}]]
    /\ UNCHANGED <<key, driving, runtime, signed, result>>

\* A thread enters the runtime (Runtime::block_on, or a worker that starts)
\* and leaves it again.
Enter(d) ==
    /\ runtime = "up" /\ d \notin driving /\ driving' = driving \cup {d}
    /\ UNCHANGED <<alias, key, call, runtime, signed, result>>

Leave(d) ==
    /\ d \in driving /\ call[d] = None /\ driving' = driving \ {d}
    /\ UNCHANGED <<alias, key, call, runtime, signed, result>>

Shutdown ==
    /\ runtime = "up" /\ runtime' = "down" /\ driving' = {}
    /\ UNCHANGED <<alias, key, call, signed, result>>

\* Signatures to be verified: the one made last, cut in its first half, and
\* with a pair that never signed.
Presented ==
    signed \cup {[s EXCEPT !.len = 31] : s \in signed} \cup {[s EXCEPT !.pair = None] : s \in signed}

Next ==
    \/ \E a \in Algs : New(a)
    \/ \E t \in Threads, p \in Pairs \cup {None} : NewWithPublicKey(t, p)
    \/ \E t \in Threads, m \in Messages : Sign(t, m)
    \/ \E t \in Threads, m \in Messages, s \in Presented : Verify(t, m, s)
    \/ \E t \in Threads : Serve(t) \/ Lose(t) \/ Deliver(t) \/ Abort(t)
    \/ \E p \in Pairs : MoveAlias(p)
    \/ \E d \in Drivers : Enter(d) \/ Leave(d)
    \/ Shutdown

\* KMS answers or the SDK gives up.  What has arrived is delivered if the
\* runtime is driven again and again: a runtime polls its sockets whenever it
\* is driven.  On a dead runtime a call fails by itself.  Nobody promises to
\* call the crate, to enter the runtime or to stay in it.
Fairness ==
    \A t \in Threads : WF_vars(Serve(t)) /\ SF_vars(Deliver(t)) /\ WF_vars(Abort(t))

Spec == Init /\ [][Next]_vars /\ Fairness

----------------------------------------------------------------------------
(* Properties. *)

Kinds == {"failed", "unusable", "public_key", "signature", "valid", "invalid_signature"}

IsSignature(s) ==
    /\ s = [pair |-> s.pair, over |-> s.over, len |-> s.len]
    /\ s.pair \in Pairs \cup {None} /\ s.len \in Nat

\* The type invariant; the object is one that Crypto and CoseSign1 assume.
TypeOK ==
    /\ alias \in Pairs
    /\ key # None => \A p \in Pairs : KeyObjectOK(KeyAt(p)) /\ SigAlg(KeyAt(p)) = key.sig_alg
    /\ driving \subseteq Drivers /\ runtime \in {"up", "down"}
    /\ DOMAIN call = Threads
    /\ \A t \in Threads : call[t] # None =>
         /\ call[t].op \in {"get_public_key", "sign", "verify"}
         /\ call[t].reply # None => call[t].reply.kind \in Kinds
         /\ alias \in call[t].seen /\ call[t].seen \subseteq Pairs
         /\ call[t].tries \in 0 .. MaxTries
    /\ \A s \in signed : IsSignature(s) /\ s.pair \in Pairs

\* What New and WithPublicKey make.
Made(k) ==
    \/ k.backend = "kms" /\ k.sig_alg \in SignatureAlgorithm /\ k.public_key = None
    \/ /\ k.backend = "kms_public" /\ k.public_key \in Pairs
       /\ SupportedCurve(k.public_key.curve) /\ k.sig_alg = CurveAlg[k.public_key.curve]

\* A request of key object k, while key_id stands for a.
UnderWay(k, a, c) ==
    /\ c = [op |-> c.op, data |-> c.data, signature |-> c.signature, spec |-> c.spec,
            reply |-> c.reply, tries |-> c.tries, seen |-> c.seen]
    /\ c.op \in {"get_public_key", "sign", "verify"} /\ (c.op = "get_public_key" <=> k = None)
    /\ k # None => c.spec = get_sig_alg_spec[k.sig_alg]
    /\ c.op = "verify" => /\ k.public_key = None /\ c.signature.len \in Nat
                          /\ c.signature.len >= key_length[k.sig_alg]
    /\ c.reply # None => \E p \in c.seen : c.reply \in Replies(k, c, p)
    /\ a \in c.seen /\ c.seen \subseteq Pairs /\ c.tries \in 0 .. MaxTries

Requests == \A t \in Threads : call[t] # None => UnderWay(key, alias, call[t])

\* Only one thread waits while there is no object, and no result of the object
\* comes before it.
OneBuilder == key = None => \A t, u \in Threads : call[t] # None /\ call[u] # None => t = u
BuiltFirst ==
    (\/ result.op \in {"sign", "verify"}
     \/ result.op = "get_public_key" /\ result.outcome = "Ok") => key # None

\* The invariant behind the theorems of KmsKey_proofs: the object is built once
\* (kms.rs:36-107), and every request under way names the algorithm of the
\* object it was made for and carries no answer but one KMS gave to it for a pair
\* that key_id has stood for since the call began.
InFlight == (key # None => Made(key)) /\ Requests /\ OneBuilder /\ BuiltFirst

\* sign, verify and new_with_public_key (kms.rs:65-107, 143-251) take as long as
\* KMS takes and share their object, yet each ends as if it had happened in one
\* instant between its start and its end: the result is one that Crypto gives
\* for the single pair key_id stood for in that instant, and never a mixture of
\* two calls, of two answers to one call or of two keys.
Atomic ==
    /\ result.op = "sign" /\ result.outcome = "Ok" =>
         \E p \in result.seen : /\ CanSign(KeyAt(p))
                               /\ result.value = Signature(KeyAt(p), result.data)
    /\ result.op = "sign" /\ result.outcome \notin {"Ok", "panic"} =>
         result.outcome \in SignErrors(KeyAt(alias))
    /\ result.op = "verify" /\ result.outcome # "panic" =>
         \E p \in result.seen :
            result.outcome \in verify(KeyAt(p), result.data, result.signature)
    /\ result.op = "get_public_key" /\ result.outcome = "Ok" =>
         result.value \in result.seen /\ key.public_key = result.value

\* On a thread that may block, and while the runtime lives, nothing panics but
\* split_at on a signature without a whole R: the assertions of sign
\* (kms.rs:234-236) hold even if key_id has come to stand for a key of another
\* curve since the object was built.
BlockingThreadsDontPanic ==
    (result.context = "blocking" /\ result.outcome = "panic")
    => \/ runtime = "down"
       \/ result.op = "verify" /\ result.signature.len < key_length[key.sig_alg]

\* No call waits forever (kms.rs:73-75, 177-178, 214-216) if threads that drive
\* the runtime are found in it again and again, or if it was shut down.
Returns ==
    ([]<>(driving # {}) \/ <>(runtime = "down"))
    => \A t \in Threads : (call[t] # None) ~> (call[t] = None)
============================================================================
