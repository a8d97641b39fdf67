--------------------------- MODULE KmsKey_proofs ---------------------------
(***************************************************************************)
(* Proofs about KmsKey, for any number of threads, pairs and retries.      *)
(***************************************************************************)
EXTENDS KmsKey, TLAPS

(***************************************************************************)
(* Facts about the key object and about KMS.                               *)
(***************************************************************************)

\* A key object in the terms of Crypto, whatever pair key_id stands for.
LEMMA MadeObject ==
    ASSUME NEW k, Made(k), NEW p \in Pairs
    PROVE  LET o == ObjectAt(k, p)
           IN  /\ KeyObjectOK(o) /\ o.pair = p /\ o.backend = k.backend
               /\ k.sig_alg \in SignatureAlgorithm /\ SigAlg(o) = k.sig_alg
               /\ SignErrors(o) = KmsSignErrors
               /\ k.public_key = None <=> k.backend = "kms"
<1>1. k.public_key = None <=> k.backend = "kms"
  BY PairsAssumption DEF Made
<1>2. /\ ObjectAt(k, p).pair = p /\ ObjectAt(k, p).backend = k.backend
      /\ ObjectAt(k, p).private = TRUE
  BY DEF ObjectAt
<1>3. CASE k.backend = "kms"
  BY <1>1, <1>2, <1>3
  DEF Made, ObjectAt, KeyObjectOK, KmsKeyOK, TpmKeyOK, SigAlg, SignErrors
<1>4. CASE k.backend = "kms_public"
  BY <1>1, <1>2, <1>4
  DEF Made, ObjectAt, KeyObjectOK, KmsKeyOK, TpmKeyOK, SigAlg, SignErrors, SupportedCurve,
      CurveAlg, SignatureAlgorithm
<1>5. QED BY <1>3, <1>4 DEF Made

\* If KMS takes the algorithm of a request for a key of this curve, then the
\* algorithm is the one Crypto expects and its numbers fit.
LEMMA SpecFits ==
    ASSUME NEW alg \in SignatureAlgorithm, NEW p \in Pairs,
           get_sig_alg_spec[alg] = CurveSpec[p.curve]
    PROVE  /\ p.curve \in DOMAIN KmsAlg /\ KmsAlg[p.curve] = alg
           /\ ~(CurveBytes[p.curve] > key_length[alg])
<1>1. p.curve \in {"P256", "P384", "P521", "secp256k1"}
  BY PairsAssumption DEF KmsAlg
<1>2. QED
  BY <1>1 DEF SignatureAlgorithm, get_sig_alg_spec, CurveSpec, KmsAlg, CurveBytes, key_length

\* The answers to a request depend on nothing but what it asks.
LEMMA SameReplies ==
    ASSUME NEW k, NEW c, NEW d, NEW p, d.op = c.op, d.spec = c.spec, d.data = c.data,
           d.signature = c.signature
    PROVE  Replies(k, d, p) = Replies(k, c, p)
  BY DEF Replies

\* What an answer can be.
LEMMA ReplyKinds ==
    ASSUME NEW k, NEW c, NEW p \in Pairs, NEW r \in Replies(k, c, p),
           c.op \in {"get_public_key", "sign", "verify"}
    PROVE  /\ r = Reply(r.kind, r.pair, r.over) /\ r.kind \in Kinds
           /\ c.op = "get_public_key" => r.kind \in {"failed", "unusable", "public_key"}
           /\ c.op = "sign" => r.kind \in {"failed", "unusable", "signature"}
           /\ c.op = "verify" => r.kind \in {"failed", "valid", "invalid_signature"}
           /\ r.kind \in {"public_key", "signature", "valid", "invalid_signature"} => r.pair = p
           /\ r.kind = "signature" => r.over = c.data
           /\ r.kind \in {"signature", "valid", "invalid_signature"} =>
                 c.spec = CurveSpec[p.curve]
           /\ r.kind = "valid" => Valid(ObjectAt(k, p), c.data, c.signature)
           /\ r.kind = "invalid_signature" => ~Valid(ObjectAt(k, p), c.data, c.signature)
<1>1. CASE r = Reply("failed", None, None)
  BY <1>1 DEF Reply, Kinds
<1>2. CASE /\ c.op = "get_public_key"
           /\ r \in {Reply("public_key", p, None), Reply("unusable", None, None)}
  BY <1>2 DEF Reply, Kinds
<1>3. CASE c.op = "sign" /\ c.spec = CurveSpec[p.curve]
           /\ r \in {Reply("signature", p, c.data), Reply("unusable", None, None)}
  BY <1>3 DEF Reply, Kinds
<1>4. CASE /\ c.op = "verify" /\ c.spec = CurveSpec[p.curve]
           /\ \/ Valid(ObjectAt(k, p), c.data, c.signature) /\ r = Reply("valid", p, None)
              \/ /\ ~Valid(ObjectAt(k, p), c.data, c.signature)
                 /\ r = Reply("invalid_signature", p, None)
  BY <1>4 DEF Reply, Kinds
<1>5. QED BY <1>1, <1>2, <1>3, <1>4 DEF Replies

(***************************************************************************)
(* A request stays one through all that happens to it.                     *)
(***************************************************************************)

\* It is answered.
LEMMA Served ==
    ASSUME NEW k, NEW a, NEW c, UnderWay(k, a, c), NEW r \in Replies(k, c, a)
    PROVE  UnderWay(k, a, [c EXCEPT !.reply = r])
<1> DEFINE d == [c EXCEPT !.reply = r]
<1>1. d = [op |-> c.op, data |-> c.data, signature |-> c.signature, spec |-> c.spec,
           reply |-> r, tries |-> c.tries, seen |-> c.seen]
  BY DEF UnderWay
<1>2. /\ d.op = c.op /\ d.data = c.data /\ d.signature = c.signature /\ d.spec = c.spec
      /\ d.reply = r /\ d.tries = c.tries /\ d.seen = c.seen
      /\ d = [op |-> d.op, data |-> d.data, signature |-> d.signature, spec |-> d.spec,
              reply |-> d.reply, tries |-> d.tries, seen |-> d.seen]
  BY <1>1
<1> HIDE DEF d
<1>3. d.reply \in Replies(k, d, a)
  BY <1>2, SameReplies
<1>4. UnderWay(k, a, d)
  BY <1>2, <1>3 DEF UnderWay
<1>5. QED BY <1>4 DEF d

\* Its answer is lost.
LEMMA Lost ==
    ASSUME NEW k, NEW a, NEW c, UnderWay(k, a, c), c.tries < MaxTries
    PROVE  UnderWay(k, a, [c EXCEPT !.reply = None, !.tries = @ + 1])
<1> DEFINE d == [c EXCEPT !.reply = None, !.tries = @ + 1]
<1>1. d = [op |-> c.op, data |-> c.data, signature |-> c.signature, spec |-> c.spec,
           reply |-> None, tries |-> c.tries + 1, seen |-> c.seen]
  <2> DEFINE b == [op |-> c.op, data |-> c.data, signature |-> c.signature, spec |-> c.spec,
                   reply |-> None, tries |-> c.tries, seen |-> c.seen]
  <2>1. [c EXCEPT !.reply = None] = b
    BY DEF UnderWay
  <2>2. d = [[c EXCEPT !.reply = None] EXCEPT !.tries = c.tries + 1]
    OBVIOUS
  <2>3. [b EXCEPT !.tries = c.tries + 1]
           = [op |-> c.op, data |-> c.data, signature |-> c.signature, spec |-> c.spec,
              reply |-> None, tries |-> c.tries + 1, seen |-> c.seen]
    OBVIOUS
  <2> HIDE DEF d, b
  <2>4. QED BY <2>1, <2>2, <2>3
<1>2. /\ d.op = c.op /\ d.data = c.data /\ d.signature = c.signature /\ d.spec = c.spec
      /\ d.reply = None /\ d.tries = c.tries + 1 /\ d.seen = c.seen
      /\ d = [op |-> d.op, data |-> d.data, signature |-> d.signature, spec |-> d.spec,
              reply |-> d.reply, tries |-> d.tries, seen |-> d.seen]
  BY <1>1
<1> HIDE DEF d
<1>3. d.tries \in 0 .. MaxTries
  BY <1>2, PairsAssumption DEF UnderWay
<1>4. UnderWay(k, a, d)
  BY <1>2, <1>3 DEF UnderWay
<1>5. QED BY <1>4 DEF d

\* The key behind key_id changes.
LEMMA Moved ==
    ASSUME NEW k, NEW a, NEW c, UnderWay(k, a, c), NEW p \in Pairs
    PROVE  UnderWay(k, p, [c EXCEPT !.seen = @ \cup {p}])
<1> DEFINE d == [c EXCEPT !.seen = @ \cup {p}]
<1>1. d = [op |-> c.op, data |-> c.data, signature |-> c.signature, spec |-> c.spec,
           reply |-> c.reply, tries |-> c.tries, seen |-> c.seen \cup {p}]
  BY DEF UnderWay
<1>2. /\ d.op = c.op /\ d.data = c.data /\ d.signature = c.signature /\ d.spec = c.spec
      /\ d.reply = c.reply /\ d.tries = c.tries /\ d.seen = c.seen \cup {p}
      /\ d = [op |-> d.op, data |-> d.data, signature |-> d.signature, spec |-> d.spec,
              reply |-> d.reply, tries |-> d.tries, seen |-> d.seen]
  BY <1>1
<1> HIDE DEF d
<1>3. d.reply # None => \E q \in d.seen : d.reply \in Replies(k, d, q)
  BY <1>2, SameReplies DEF UnderWay
<1>4. UnderWay(k, p, d)
  BY <1>2, <1>3 DEF UnderWay
<1>5. QED BY <1>4 DEF d

\* It begins.
LEMMA Asked ==
    ASSUME alias \in Pairs, NEW op \in {"get_public_key", "sign", "verify"}, NEW data,
           NEW signature, op = "get_public_key" <=> key = None,
           op = "verify" => /\ key.public_key = None /\ signature.len \in Nat
                            /\ signature.len >= key_length[key.sig_alg]
    PROVE  UnderWay(key, alias, Request(op, data, signature))
<1> DEFINE c == Request(op, data, signature)
<1>1. /\ c.op = op /\ c.data = data /\ c.signature = signature /\ c.reply = None /\ c.tries = 0
      /\ c.seen = {alias}
      /\ c.spec = IF op \in {"sign", "verify"} THEN get_sig_alg_spec[key.sig_alg] ELSE None
      /\ c = [op |-> c.op, data |-> c.data, signature |-> c.signature, spec |-> c.spec,
              reply |-> c.reply, tries |-> c.tries, seen |-> c.seen]
  BY DEF Request
<1> HIDE DEF c
<1>2. key # None => c.spec = get_sig_alg_spec[key.sig_alg]
  BY <1>1
<1>3. c.tries \in 0 .. MaxTries
  BY <1>1, PairsAssumption
<1>4. UnderWay(key, alias, c)
  BY <1>1, <1>2, <1>3 DEF UnderWay
<1>5. QED BY <1>4 DEF c

(***************************************************************************)
(* The invariant.                                                          *)
(***************************************************************************)

\* The part of the type invariant that InFlight does not imply.
Base ==
    /\ alias \in Pairs
    /\ driving \subseteq Drivers /\ runtime \in {"up", "down"}
    /\ DOMAIN call = Threads
    /\ \A s \in signed : IsSignature(s) /\ s.pair \in Pairs

LEMMA BaseType == Base /\ InFlight => TypeOK
<1> SUFFICES ASSUME Base, InFlight PROVE TypeOK
  OBVIOUS
<1>1. key # None => \A p \in Pairs : KeyObjectOK(KeyAt(p)) /\ SigAlg(KeyAt(p)) = key.sig_alg
  BY MadeObject DEF InFlight, KeyAt
<1>2. ASSUME NEW t \in Threads, call[t] # None
      PROVE  /\ call[t].op \in {"get_public_key", "sign", "verify"}
             /\ call[t].reply # None => call[t].reply.kind \in Kinds
             /\ alias \in call[t].seen /\ call[t].seen \subseteq Pairs
             /\ call[t].tries \in 0 .. MaxTries
  <2>1. UnderWay(key, alias, call[t])
    BY <1>2 DEF InFlight, Requests
  <2>2. QED BY <2>1, ReplyKinds DEF UnderWay
<1>3. QED BY <1>1, <1>2 DEF Base, TypeOK

LEMMA InvInit == Init => Base /\ InFlight
  BY DEF Init, Base, InFlight, Requests, OneBuilder, BuiltFirst, NoResult

\* One thread's request changes and the object does not.
LEMMA CallSet ==
    ASSUME Base, InFlight, NEW t \in Threads, NEW c, call' = [call EXCEPT ![t] = c],
           UNCHANGED <<alias, key>>, c # None => UnderWay(key, alias, c),
           c # None /\ key = None => \A u \in Threads \ {t} : call[u] = None,
           BuiltFirst'
    PROVE  InFlight' /\ DOMAIN call' = Threads
<1>1. DOMAIN call' = Threads /\ \A u \in Threads : call'[u] = IF u = t THEN c ELSE call[u]
  BY DEF Base
<1>2. Requests'
  BY <1>1 DEF InFlight, Requests
<1>3. OneBuilder'
  BY <1>1 DEF InFlight, OneBuilder
<1>4. QED BY <1>1, <1>2, <1>3 DEF InFlight

LEMMA InvBlockOn ==
    ASSUME Base, InFlight, NEW t \in Threads, NEW c, BlockOn(t, c), UnderWay(key, alias, c),
           key = None => ~Building
    PROVE  Base' /\ InFlight'
<1>1. UNCHANGED <<alias, key, driving, runtime, signed>>
  BY DEF BlockOn
<1>2. CASE call' = [call EXCEPT ![t] = c] /\ UNCHANGED result
  <2>1. BuiltFirst'
    BY <1>1, <1>2 DEF InFlight, BuiltFirst
  <2>2. key = None => \A u \in Threads \ {t} : call[u] = None
    BY DEF Building
  <2>3. InFlight' /\ DOMAIN call' = Threads
    BY <1>1, <1>2, <2>1, <2>2, CallSet
  <2>4. QED BY <1>1, <2>3 DEF Base
<1>3. CASE Return(t, c, "panic", None) /\ UNCHANGED call
  BY <1>1, <1>3 DEF Base, InFlight, Requests, OneBuilder, BuiltFirst, Return, UnderWay
<1>4. QED BY <1>2, <1>3 DEF BlockOn

\* A call that ends at once.
LEMMA InvAtOnce ==
    ASSUME Base, InFlight, NEW t, NEW c, NEW o, NEW v, Return(t, c, o, v),
           c.op \in {"sign", "verify"} => key # None, c.op # "get_public_key",
           UNCHANGED <<alias, key, call, driving, runtime, signed>>
    PROVE  Base' /\ InFlight'
  BY DEF Base, InFlight, Requests, OneBuilder, BuiltFirst, Return

\* The object is built, and nobody waits.
LEMMA InvBuilt ==
    ASSUME Base, InFlight, NEW t, NEW c, NEW p \in Pairs, WithPublicKey(t, c, p), key = None,
           c.op \in {"get_public_key", "given_public_key"},
           \A u \in Threads : call'[u] = None, DOMAIN call' = Threads,
           UNCHANGED <<alias, driving, runtime, signed>>
    PROVE  Base' /\ InFlight'
<1>1. Base'
  BY DEF Base
<1>2. CASE /\ SupportedCurve(p.curve) /\ Return(t, c, "Ok", p)
           /\ key' = KmsKeyOf("kms_public", CurveAlg[p.curve], p)
  <2>1. Made(key')
    BY <1>2 DEF Made, KmsKeyOf
  <2>2. key' # None
    BY <1>2, KeyObjectAssumption DEF SupportedCurve, CurveAlg, SignatureAlgorithm
  <2>3. QED
    BY <1>1, <2>1, <2>2 DEF InFlight, Requests, OneBuilder, BuiltFirst
<1>3. CASE Return(t, c, "UnsupportedError", None) /\ UNCHANGED key
  BY <1>1, <1>3 DEF InFlight, Requests, OneBuilder, BuiltFirst, Return
<1>4. QED BY <1>2, <1>3 DEF WithPublicKey

LEMMA InvNewWithPublicKey ==
    ASSUME Base, InFlight, NEW t \in Threads, NEW p \in Pairs \cup {None},
           NewWithPublicKey(t, p)
    PROVE  Base' /\ InFlight'
<1> DEFINE c == Request(IF p = None THEN "get_public_key" ELSE "given_public_key", None, None)
<1>1. key = None /\ ~Building /\ c.op = IF p = None THEN "get_public_key" ELSE "given_public_key"
  BY DEF NewWithPublicKey, Request
<1>2. CASE p = None
  <2>1. UnderWay(key, alias, c)
    BY <1>1, <1>2, Asked DEF Base
  <2>2. BlockOn(t, c)
    BY <1>2 DEF NewWithPublicKey
  <2> HIDE DEF c
  <2>3. QED BY <1>1, <2>1, <2>2, InvBlockOn
<1>3. CASE p # None /\ HasHandle(t)
  <2>1. WithPublicKey(t, c, p) /\ UNCHANGED <<alias, call, driving, runtime, signed>>
    BY <1>3 DEF NewWithPublicKey
  <2>2. p \in Pairs /\ \A u \in Threads : call'[u] = None
    BY <1>1, <1>3, <2>1 DEF Building
  <2>3. DOMAIN call' = Threads
    BY <2>1 DEF Base
  <2> HIDE DEF c
  <2>4. QED BY <1>1, <1>3, <2>1, <2>2, <2>3, InvBuilt
<1>4. CASE p # None /\ ~HasHandle(t)
  <2>1. Return(t, c, "panic", None) /\ UNCHANGED <<alias, key, call, driving, runtime, signed>>
    BY <1>4 DEF NewWithPublicKey
  <2> HIDE DEF c
  <2>2. QED BY <1>1, <1>4, <2>1, InvAtOnce
<1>5. QED BY <1>2, <1>3, <1>4

\* What Presented offers has a length.
LEMMA PresentedLength ==
    ASSUME Base, NEW s \in Presented
    PROVE  s.len \in Nat
  BY DEF Base, Presented, IsSignature

LEMMA InvVerify ==
    ASSUME Base, InFlight, NEW t \in Threads, NEW m, NEW s \in Presented, Verify(t, m, s)
    PROVE  Base' /\ InFlight'
<1> DEFINE c == Request("verify", Hashed(m), s)
<1>1. key # None /\ c.op = "verify"
  BY DEF Verify, Request
<1>2. CASE VerifyLocally(t, c)
  <2> HIDE DEF c
  <2>1. QED BY <1>1, <1>2, InvAtOnce DEF VerifyLocally
<1>3. CASE /\ \E o \in {"panic", "SignatureError"} : Return(t, c, o, None)
           /\ UNCHANGED <<alias, key, call, driving, runtime, signed>>
  <2> HIDE DEF c
  <2>1. QED BY <1>1, <1>3, InvAtOnce
<1>4. CASE /\ key.public_key = None /\ s.len >= key_length[key.sig_alg] /\ BlockOn(t, c)
  <2>1. UnderWay(key, alias, c)
    BY <1>1, <1>4, PresentedLength, Asked DEF Base
  <2> HIDE DEF c
  <2>2. QED BY <1>1, <1>4, <2>1, InvBlockOn
<1>5. QED BY <1>2, <1>3, <1>4 DEF Verify

LEMMA InvSign ==
    ASSUME Base, InFlight, NEW t \in Threads, NEW m, Sign(t, m)
    PROVE  Base' /\ InFlight'
<1> DEFINE c == Request("sign", Hashed(m), None)
<1>1. key # None /\ BlockOn(t, c)
  BY DEF Sign
<1>2. UnderWay(key, alias, c)
  BY <1>1, Asked DEF Base
<1> HIDE DEF c
<1>3. QED BY <1>1, <1>2, InvBlockOn

LEMMA InvServe ==
    ASSUME Base, InFlight, NEW t \in Threads, Serve(t) \/ Lose(t)
    PROVE  Base' /\ InFlight'
<1>1. /\ call[t] # None /\ UNCHANGED <<alias, key, driving, runtime, signed, result>>
      /\ UnderWay(key, alias, call[t])
  BY DEF Serve, Lose, InFlight, Requests
<1>2. key = None => \A u \in Threads \ {t} : call[u] = None
  BY <1>1 DEF InFlight, OneBuilder
<1>3. BuiltFirst'
  BY <1>1 DEF InFlight, BuiltFirst
<1>4. PICK c : call' = [call EXCEPT ![t] = c] /\ UnderWay(key, alias, c)
  <2>1. CASE Serve(t)
    <3>1. PICK r \in Replies(key, call[t], alias) :
             call' = [call EXCEPT ![t] = [call[t] EXCEPT !.reply = r]]
      BY <2>1 DEF Serve
    <3>2. QED BY <1>1, <3>1, Served
  <2>2. CASE Lose(t)
    <3>1. call[t].tries < MaxTries
      BY <2>2 DEF Lose
    <3>2. call' = [call EXCEPT ![t] = [call[t] EXCEPT !.reply = None, !.tries = @ + 1]]
      BY <2>2 DEF Lose
    <3>3. QED BY <1>1, <3>1, <3>2, Lost
  <2>3. QED BY <2>1, <2>2
<1>5. InFlight' /\ DOMAIN call' = Threads
  BY <1>1, <1>2, <1>3, <1>4, CallSet
<1>6. QED BY <1>1, <1>5 DEF Base

\* A request that has been answered.
LEMMA Answer ==
    ASSUME NEW k, NEW a, NEW c, UnderWay(k, a, c), c.reply # None
    PROVE  \E p \in c.seen :
              /\ p \in Pairs /\ c.reply.kind \in Kinds
              /\ c.op = "get_public_key" => c.reply.kind \in {"failed", "unusable", "public_key"}
              /\ c.op = "sign" => c.reply.kind \in {"failed", "unusable", "signature"}
              /\ c.op = "verify" => c.reply.kind \in {"failed", "valid", "invalid_signature"}
              /\ c.reply.kind \in {"public_key", "signature"} => c.reply.pair = p
              /\ c.reply.kind = "signature" => c.reply.over = c.data
              /\ c.reply.kind \in {"signature", "valid", "invalid_signature"} =>
                    c.spec = CurveSpec[p.curve]
              /\ c.reply.kind = "valid" => Valid(ObjectAt(k, p), c.data, c.signature)
              /\ c.reply.kind = "invalid_signature" =>
                    ~Valid(ObjectAt(k, p), c.data, c.signature)
<1>1. PICK p \in c.seen : c.reply \in Replies(k, c, p)
  BY DEF UnderWay
<1>2. p \in Pairs /\ c.op \in {"get_public_key", "sign", "verify"}
  BY DEF UnderWay
<1>3. QED BY <1>1, <1>2, ReplyKinds

LEMMA InvDeliver ==
    ASSUME Base, InFlight, NEW t \in Threads, Deliver(t)
    PROVE  Base' /\ InFlight'
<1> DEFINE c == call[t]
<1>1. /\ c # None /\ c.reply # None /\ call' = [call EXCEPT ![t] = None]
      /\ UNCHANGED <<alias, driving, runtime>> /\ UnderWay(key, alias, c)
  BY DEF Deliver, InFlight, Requests
<1>2. PICK p \in c.seen :
         p \in Pairs /\ (c.reply.kind \in {"public_key", "signature"} => c.reply.pair = p)
  BY <1>1, Answer
<1>3. CASE c.op = "get_public_key"
  <2>1. key = None /\ FinishGetPublicKey(t, c) /\ UNCHANGED signed
    BY <1>1, <1>3 DEF Deliver, UnderWay
  <2>2. DOMAIN call' = Threads /\ \A u \in Threads : call'[u] = None
    BY <1>1, <2>1 DEF Base, InFlight, OneBuilder
  <2>3. CASE c.reply.kind = "public_key" /\ WithPublicKey(t, c, c.reply.pair)
    <3>1. WithPublicKey(t, c, p)
      BY <1>2, <2>3
    <3> HIDE DEF c
    <3>2. QED BY <1>1, <1>2, <1>3, <2>1, <2>2, <3>1, InvBuilt
  <2>4. CASE /\ UNCHANGED key
             /\ \E e \in {"AwsGetPublicKeyError", "UnsupportedError", "SignatureError"} :
                   Return(t, c, e, None)
    <3>1. Base'
      BY <1>1, <2>1, <2>2 DEF Base
    <3>2. BuiltFirst'
      BY <1>3, <2>4 DEF BuiltFirst, Return
    <3>3. QED
      BY <2>1, <2>2, <2>4, <3>1, <3>2 DEF InFlight, Requests, OneBuilder
  <2>5. QED BY <2>1, <2>3, <2>4 DEF FinishGetPublicKey
<1>4. CASE c.op \in {"sign", "verify"}
  <2>1. key # None /\ UNCHANGED key
    BY <1>1, <1>4 DEF Deliver, UnderWay, FinishSign, FinishVerify
  <2>2. BuiltFirst'
    BY <2>1 DEF BuiltFirst
  <2>3. InFlight' /\ DOMAIN call' = Threads
    BY <1>1, <2>1, <2>2, CallSet
  <2>4. UNCHANGED signed
        \/ \E d : signed' = {Signature(KeyAt(p), d)}
    BY <1>1, <1>2, <1>4 DEF Deliver, FinishSign, FinishVerify
  <2>5. \A d : IsSignature(Signature(KeyAt(p), d)) /\ Signature(KeyAt(p), d).pair = p
    <3>1. KeyAt(p).pair = p /\ SigAlg(KeyAt(p)) \in SignatureAlgorithm
      BY <1>2, <2>1, MadeObject DEF InFlight, KeyAt
    <3>2. 2 * key_length[SigAlg(KeyAt(p))] \in Nat
      BY <3>1 DEF SignatureAlgorithm, key_length
    <3>3. QED BY <1>2, <3>1, <3>2 DEF IsSignature, Signature
  <2>6. \A s \in signed' : IsSignature(s) /\ s.pair \in Pairs
    BY <1>2, <2>4, <2>5 DEF Base
  <2>7. QED BY <1>1, <2>3, <2>6 DEF Base
<1>5. QED BY <1>1, <1>3, <1>4 DEF UnderWay

LEMMA InvAbort ==
    ASSUME Base, InFlight, NEW t \in Threads, Abort(t)
    PROVE  Base' /\ InFlight'
<1> DEFINE c == call[t]
<1>1. /\ call[t] # None /\ call' = [call EXCEPT ![t] = None]
      /\ UNCHANGED <<alias, key, driving, runtime, signed>>
      /\ \E o \in {AwsError[c.op], "panic"} : Return(t, c, o, None)
  BY DEF Abort
<1>2. UnderWay(key, alias, c)
  BY <1>1 DEF InFlight, Requests
<1>3. result'.op = c.op /\ result'.outcome # "Ok"
  BY <1>1, <1>2 DEF Return, UnderWay, AwsError
<1>4. BuiltFirst'
  BY <1>1, <1>2, <1>3 DEF BuiltFirst, UnderWay
<1>5. InFlight' /\ DOMAIN call' = Threads
  BY <1>1, <1>4, CallSet
<1>6. QED BY <1>1, <1>5 DEF Base

LEMMA InvMoveAlias ==
    ASSUME Base, InFlight, NEW p \in Pairs, MoveAlias(p)
    PROVE  Base' /\ InFlight'
<1>1. /\ alias' = p /\ UNCHANGED <<key, driving, runtime, signed, result>>
      /\ call' = [t \in Threads |-> IF call[t] = None THEN None
                                    ELSE [call[t] EXCEPT !.seen = @ \cup {p}]]
  BY DEF MoveAlias
<1>2. \A t \in Threads :
         IF call[t] = None THEN call'[t] = None
         ELSE call'[t] = [call[t] EXCEPT !.seen = @ \cup {p}]
  BY <1>1
<1>3. Requests'
  <2>1. ASSUME NEW t \in Threads, call'[t] # None PROVE UnderWay(key, p, call'[t])
    <3>1. call[t] # None /\ UnderWay(key, alias, call[t])
      BY <1>2, <2>1 DEF InFlight, Requests
    <3>2. UnderWay(key, p, [call[t] EXCEPT !.seen = @ \cup {p}])
      BY <3>1, Moved
    <3>3. QED BY <1>2, <3>1, <3>2
  <2>2. QED BY <1>1, <2>1 DEF Requests
<1>4. OneBuilder'
  BY <1>1, <1>2 DEF InFlight, OneBuilder
<1>5. BuiltFirst'
  BY <1>1 DEF InFlight, BuiltFirst
<1>6. QED BY <1>1, <1>3, <1>4, <1>5 DEF Base, InFlight

\* A step that is no business of the object's.
LEMMA InvElse ==
    ASSUME Base, InFlight, UNCHANGED <<alias, key, call, signed, result>>,
           driving' \subseteq Drivers, runtime' \in {"up", "down"}
    PROVE  Base' /\ InFlight'
  BY DEF Base, InFlight, Requests, OneBuilder, BuiltFirst

LEMMA InvNew ==
    ASSUME Base, InFlight, NEW a \in Algs, New(a)
    PROVE  Base' /\ InFlight'
<1>1. /\ key = None /\ \A t \in Threads : call[t] = None
      /\ key' = KmsKeyOf("kms", a, None)
      /\ UNCHANGED <<alias, call, driving, runtime, signed, result>>
  BY DEF New, Building
<1>2. Made(key')
  BY <1>1, PairsAssumption DEF Made, KmsKeyOf
<1>3. BuiltFirst'
  BY <1>1 DEF InFlight, BuiltFirst
<1>4. QED BY <1>1, <1>2, <1>3 DEF Base, InFlight, Requests, OneBuilder

LEMMA InvNext == Base /\ InFlight /\ [Next]_vars => Base' /\ InFlight'
<1> SUFFICES ASSUME Base, InFlight, [Next]_vars PROVE Base' /\ InFlight'
  OBVIOUS
<1>1. ASSUME NEW a \in Algs, New(a) PROVE Base' /\ InFlight'
  BY <1>1, InvNew
<1>2. ASSUME NEW t \in Threads, NEW p \in Pairs \cup {None}, NewWithPublicKey(t, p)
      PROVE  Base' /\ InFlight'
  BY <1>2, InvNewWithPublicKey
<1>3. ASSUME NEW t \in Threads, NEW m \in Messages, Sign(t, m) PROVE Base' /\ InFlight'
  BY <1>3, InvSign
<1>4. ASSUME NEW t \in Threads, NEW m \in Messages, NEW s \in Presented, Verify(t, m, s)
      PROVE  Base' /\ InFlight'
  BY <1>4, InvVerify
<1>5. ASSUME NEW t \in Threads, Serve(t) \/ Lose(t) \/ Deliver(t) \/ Abort(t)
      PROVE  Base' /\ InFlight'
  BY <1>5, InvServe, InvDeliver, InvAbort
<1>6. ASSUME NEW p \in Pairs, MoveAlias(p) PROVE Base' /\ InFlight'
  BY <1>6, InvMoveAlias
<1>7. ASSUME NEW d \in Drivers, Enter(d) \/ Leave(d) PROVE Base' /\ InFlight'
  BY <1>7, InvElse DEF Enter, Leave, Base
<1>8. ASSUME Shutdown PROVE Base' /\ InFlight'
  BY <1>8, InvElse DEF Shutdown
<1>9. ASSUME UNCHANGED vars PROVE Base' /\ InFlight'
  BY <1>9, InvElse DEF vars, Base
<1>10. QED
  BY <1>1, <1>2, <1>3, <1>4, <1>5, <1>6, <1>7, <1>8, <1>9 DEF Next

\* Every request under way names the algorithm of its object, and its answer is
\* one KMS gave for a pair that key_id has stood for since the call began,
\* however threads, retries and exchanges of the key interleave.
THEOREM AnswersBelong == Spec => []InFlight
<1>1. QED BY InvInit, InvNext, PTL DEF Spec

\* The object is always one that Crypto and CoseSign1 assume, and requests and
\* signatures have their shape.
THEOREM TypeCorrect == Spec => []TypeOK
<1>1. QED BY InvInit, InvNext, BaseType, PTL DEF Spec

(***************************************************************************)
(* How calls end.                                                          *)
(***************************************************************************)
Ends == Atomic /\ BlockingThreadsDontPanic

\* The object does not change once it is there, and a runtime does not come back.
LEMMA Stays ==
    ASSUME Base, InFlight, [Next]_vars
    PROVE  /\ key # None => key' = key
           /\ runtime = "down" => runtime' = "down"
<1>1. ASSUME NEW t \in Threads, Deliver(t), key # None PROVE UNCHANGED key
  <2>1. call[t].op \in {"sign", "verify"}
    BY <1>1 DEF Deliver, InFlight, Requests, UnderWay
  <2>2. QED BY <1>1, <2>1 DEF Deliver, FinishSign, FinishVerify
<1>2. ASSUME NEW t, NEW m, NEW s, Verify(t, m, s) PROVE UNCHANGED <<key, runtime>>
  BY <1>2 DEF Verify, VerifyLocally, BlockOn
<1>3. QED
  BY <1>1, <1>2
  DEF Next, vars, New, NewWithPublicKey, BlockOn, Sign, Serve, Lose, Deliver, Abort,
      MoveAlias, Enter, Leave, Shutdown

\* A result stands as long as no other call ends.
LEMMA EndsStand ==
    ASSUME Base, Base', InFlight, [Next]_vars, Ends, UNCHANGED result
    PROVE  Ends'
<1>1. /\ key # None => key' = key
      /\ runtime = "down" => runtime' = "down"
  BY Stays
<1>2. CASE key # None
  <2>1. key' = key /\ SignErrors(ObjectAt(key, alias)) = SignErrors(ObjectAt(key, alias'))
    BY <1>1, <1>2, MadeObject DEF InFlight, Base
  <2>2. Atomic'
    BY <2>1 DEF Ends, Atomic, KeyAt
  <2>3. BlockingThreadsDontPanic'
    BY <1>1, <2>1 DEF Ends, BlockingThreadsDontPanic
  <2>4. QED BY <2>2, <2>3 DEF Ends
<1>3. CASE key = None
  BY <1>1, <1>3 DEF InFlight, BuiltFirst, Ends, Atomic, BlockingThreadsDontPanic
<1>4. QED BY <1>2, <1>3

\* A thread that may not block, or has no handle.
LEMMA EndsBadThread ==
    ASSUME NEW t, NEW c, ~CanBlock(t), Return(t, c, "panic", None)
    PROVE  Ends'
<1>1. Context(t) # "blocking"
  BY DEF CanBlock, HasHandle
<1>2. result'.outcome = "panic" /\ result'.context # "blocking"
  BY <1>1 DEF Return
<1>3. QED BY <1>2 DEF Ends, Atomic, BlockingThreadsDontPanic

LEMMA EndsBlockOn ==
    ASSUME Base, Base', InFlight, [Next]_vars, Ends, NEW t, NEW c, BlockOn(t, c)
    PROVE  Ends'
<1>1. CASE UNCHANGED result
  BY <1>1, EndsStand
<1>2. CASE ~CanBlock(t) /\ Return(t, c, "panic", None)
  BY <1>2, EndsBadThread
<1>3. QED BY <1>1, <1>2 DEF BlockOn

\* The outcomes of verify for a KmsKey that asks KMS.
LEMMA VerifyAnswers ==
    ASSUME NEW k, Made(k), k.public_key = None, NEW p \in Pairs, NEW d, NEW s,
           s.len \in Nat, s.len >= key_length[k.sig_alg]
    PROVE  LET o == ObjectAt(k, p)
           IN  /\ {"SignatureError", "AwsVerifyError"} \subseteq verify(o, d, s)
               /\ get_sig_alg_spec[k.sig_alg] = CurveSpec[p.curve] =>
                     IF Valid(o, d, s) THEN "true" \in verify(o, d, s)
                     ELSE "false" \in verify(o, d, s)
<1> DEFINE o == ObjectAt(k, p)
<1>1. /\ o.pair = p /\ o.backend = "kms" /\ SigAlg(o) = k.sig_alg
      /\ k.sig_alg \in SignatureAlgorithm
  BY MadeObject
<1>2. key_length[k.sig_alg] \in Nat
  BY <1>1 DEF SignatureAlgorithm, key_length
<1>3. ~(s.len < key_length[SigAlg(o)])
  BY <1>1, <1>2
<1>4. VerifyErrors(o) = {"SignatureError", "AwsVerifyError"}
  BY <1>1 DEF VerifyErrors, KmsVerifyErrors
<1>5. get_sig_alg_spec[k.sig_alg] = CurveSpec[p.curve] => KmsAccepts(o)
  BY <1>1, SpecFits DEF KmsAccepts
<1> HIDE DEF o
<1>6. QED BY <1>3, <1>4, <1>5 DEF verify, o

\* verify ends without asking KMS: with the cached public key, on a signature
\* without a whole R, or on numbers OpenSSL does not take.
LEMMA EndsVerify ==
    ASSUME Base, Base', InFlight, [Next]_vars, Ends, NEW t \in Threads, NEW m,
           NEW s \in Presented, Verify(t, m, s)
    PROVE  Ends'
<1> DEFINE c == Request("verify", Hashed(m), s)
<1>1. /\ key # None /\ Made(key) /\ alias \in Pairs
      /\ c.op = "verify" /\ c.seen = {alias} /\ c.signature = s
  BY DEF Verify, Request, InFlight, Base
<1> HIDE DEF c
<1>2. SigAlg(KeyAt(alias)) = key.sig_alg
  BY <1>1, MadeObject DEF KeyAt
<1>3. ASSUME NEW o, Return(t, c, o, None), UNCHANGED <<key, runtime>>,
             o \in verify(KeyAt(alias), c.data, s)
      PROVE  Ends'
  <2>1. /\ result'.op = "verify" /\ result'.outcome = o /\ result'.seen = {alias}
        /\ result'.data = c.data /\ result'.signature = s
    BY <1>1, <1>3 DEF Return
  <2>2. Atomic'
    BY <1>3, <2>1 DEF Atomic, KeyAt
  <2>3. o = "panic" => s.len < key_length[key.sig_alg]
    <3>1. "panic" \notin VerifyErrors(KeyAt(alias))
      <4>1. KeyAt(alias).backend \in {"kms", "kms_public"}
        BY <1>1, MadeObject DEF KeyAt, Made
      <4>2. QED BY <4>1 DEF VerifyErrors, KmsVerifyErrors
    <3>2. QED BY <1>2, <1>3, <3>1 DEF verify
  <2>4. BlockingThreadsDontPanic'
    BY <1>3, <2>1, <2>3 DEF BlockingThreadsDontPanic
  <2>5. QED BY <2>2, <2>4 DEF Ends
<1>4. CASE VerifyLocally(t, c)
  BY <1>1, <1>3, <1>4 DEF VerifyLocally
<1>5. CASE /\ s.len < key_length[key.sig_alg] /\ Return(t, c, "panic", None)
           /\ UNCHANGED <<alias, key, call, driving, runtime, signed>>
  <2>1. "panic" \in verify(KeyAt(alias), c.data, s)
    BY <1>2, <1>5 DEF verify
  <2>2. QED BY <1>3, <1>5, <2>1
<1>6. CASE /\ key.public_key = None /\ s.len >= key_length[key.sig_alg]
           /\ Return(t, c, "SignatureError", None)
           /\ UNCHANGED <<alias, key, call, driving, runtime, signed>>
  <2>1. "SignatureError" \in verify(KeyAt(alias), c.data, s)
    BY <1>1, <1>6, PresentedLength, VerifyAnswers DEF KeyAt
  <2>2. QED BY <1>3, <1>6, <2>1
<1>7. CASE BlockOn(t, c)
  BY <1>7, EndsBlockOn
<1>8. QED BY <1>4, <1>5, <1>6, <1>7 DEF Verify, c

\* KMS gave the public key.
LEMMA EndsGetPublicKey ==
    ASSUME NEW t, NEW c, NEW p \in c.seen, c.op = "get_public_key", FinishGetPublicKey(t, c),
           c.reply.kind = "public_key" => c.reply.pair = p
    PROVE  Ends'
<1>1. CASE /\ c.reply.kind = "public_key" /\ Return(t, c, "Ok", p)
           /\ key' = KmsKeyOf("kms_public", CurveAlg[p.curve], p)
  <2>1. /\ result'.op = "get_public_key" /\ result'.outcome = "Ok"
        /\ result'.value = p /\ result'.seen = c.seen /\ key'.public_key = p
    BY <1>1 DEF Return, KmsKeyOf
  <2>2. QED BY <2>1 DEF Ends, Atomic, BlockingThreadsDontPanic
<1>2. CASE \E e \in {"AwsGetPublicKeyError", "UnsupportedError", "SignatureError"} :
              Return(t, c, e, None)
  <2>1. result'.op = "get_public_key" /\ result'.outcome \notin {"Ok", "panic"}
    BY <1>2 DEF Return
  <2>2. QED BY <2>1 DEF Ends, Atomic, BlockingThreadsDontPanic
<1>3. QED BY <1>1, <1>2 DEF FinishGetPublicKey, WithPublicKey

\* KMS signed, for whatever pair key_id stood for: the request named the
\* object's algorithm, so the numbers fit.
LEMMA EndsSign ==
    ASSUME Made(key), alias \in Pairs, UNCHANGED alias, NEW t, NEW c, NEW p \in c.seen,
           p \in Pairs, c.op = "sign", FinishSign(t, c),
           c.reply.kind = "signature" => /\ c.reply.pair = p /\ c.reply.over = c.data
                                         /\ get_sig_alg_spec[key.sig_alg] = CurveSpec[p.curve]
    PROVE  Ends'
<1>1. /\ SigAlg(KeyAt(p)) = key.sig_alg /\ KeyAt(p).pair = p
      /\ key.sig_alg \in SignatureAlgorithm
      /\ SignErrors(KeyAt(alias)) = KmsSignErrors
  BY MadeObject DEF KeyAt
<1>2. UNCHANGED key
  BY DEF FinishSign
<1>3. CASE c.reply.kind = "signature"
  <2>1. /\ KmsAccepts(KeyAt(p))
        /\ ~(CurveBytes[p.curve] > key_length[key.sig_alg])
    BY <1>1, <1>3, SpecFits DEF KmsAccepts
  <2>2. Return(t, c, "Ok", Signature(KeyAt(p), c.data))
    BY <1>3, <2>1 DEF FinishSign
  <2>3. /\ result'.op = "sign" /\ result'.outcome = "Ok" /\ result'.seen = c.seen
        /\ result'.data = c.data /\ result'.value = Signature(KeyAt(p), c.data)
    BY <2>2 DEF Return
  <2>4. CanSign(KeyAt(p))
    BY <2>1 DEF CanSign
  <2>5. Atomic'
    BY <1>2, <2>3, <2>4 DEF Atomic, KeyAt
  <2>6. QED BY <2>3, <2>5 DEF Ends, BlockingThreadsDontPanic
<1>4. CASE c.reply.kind # "signature"
  <2>1. result'.op = "sign" /\ result'.outcome \in KmsSignErrors
    BY <1>4 DEF FinishSign, Return, KmsSignErrors
  <2>2. result'.outcome \in SignErrors(KeyAt(alias))' /\ result'.outcome \notin {"Ok", "panic"}
    BY <1>1, <1>2, <2>1 DEF KmsSignErrors, KeyAt
  <2>3. QED BY <2>1, <2>2 DEF Ends, Atomic, BlockingThreadsDontPanic
<1>5. QED BY <1>3, <1>4

\* verify ends with what KMS said, or with the error of a request that failed.
LEMMA EndsVerified ==
    ASSUME Made(key), UNCHANGED key, NEW t, NEW c, NEW p \in c.seen, p \in Pairs,
           c.op = "verify", NEW o, Return(t, c, o, None), o # "panic",
           o \in verify(ObjectAt(key, p), c.data, c.signature)
    PROVE  Ends'
<1>1. /\ result'.op = "verify" /\ result'.outcome = o /\ result'.seen = c.seen
      /\ result'.data = c.data /\ result'.signature = c.signature
  BY DEF Return
<1>2. Atomic'
  BY <1>1 DEF Atomic, KeyAt
<1>3. QED BY <1>1, <1>2 DEF Ends, BlockingThreadsDontPanic

LEMMA EndsDeliver ==
    ASSUME Base, InFlight, NEW t \in Threads, Deliver(t)
    PROVE  Ends'
<1> DEFINE c == call[t]
<1>1. /\ UnderWay(key, alias, c) /\ c.reply # None /\ alias \in Pairs /\ UNCHANGED alias
  BY DEF Deliver, InFlight, Requests, Base
<1>2. PICK p \in c.seen :
         /\ p \in Pairs
         /\ c.op = "verify" => c.reply.kind \in {"failed", "valid", "invalid_signature"}
         /\ c.reply.kind \in {"public_key", "signature"} => c.reply.pair = p
         /\ c.reply.kind = "signature" => c.reply.over = c.data
         /\ c.reply.kind \in {"signature", "valid", "invalid_signature"} =>
               c.spec = CurveSpec[p.curve]
         /\ c.reply.kind = "valid" => Valid(ObjectAt(key, p), c.data, c.signature)
         /\ c.reply.kind = "invalid_signature" => ~Valid(ObjectAt(key, p), c.data, c.signature)
  BY <1>1, Answer
<1>3. c.op # "get_public_key" => Made(key) /\ c.spec = get_sig_alg_spec[key.sig_alg]
  BY <1>1 DEF InFlight, UnderWay
<1>4. CASE c.op = "get_public_key"
  <2>1. FinishGetPublicKey(t, c)
    BY <1>4 DEF Deliver
  <2> HIDE DEF c
  <2>2. QED BY <1>2, <1>4, <2>1, EndsGetPublicKey
<1>5. CASE c.op = "sign"
  <2>1. FinishSign(t, c)
    BY <1>5 DEF Deliver
  <2> HIDE DEF c
  <2>2. QED BY <1>1, <1>2, <1>3, <1>5, <2>1, EndsSign
<1>6. CASE c.op = "verify"
  <2> DEFINE o == VerifyOutcome[c.reply.kind]
  <2>1. Return(t, c, o, None) /\ UNCHANGED key
    BY <1>6 DEF Deliver, FinishVerify
  <2>2. /\ key.public_key = None /\ c.signature.len \in Nat
        /\ c.signature.len >= key_length[key.sig_alg]
    BY <1>1, <1>6 DEF UnderWay
  <2> HIDE DEF c
  <2>3. /\ {"SignatureError", "AwsVerifyError"}
              \subseteq verify(ObjectAt(key, p), c.data, c.signature)
        /\ get_sig_alg_spec[key.sig_alg] = CurveSpec[p.curve] =>
              IF Valid(ObjectAt(key, p), c.data, c.signature)
              THEN "true" \in verify(ObjectAt(key, p), c.data, c.signature)
              ELSE "false" \in verify(ObjectAt(key, p), c.data, c.signature)
    BY <1>2, <1>3, <1>6, <2>2, VerifyAnswers
  <2>4. o \in verify(ObjectAt(key, p), c.data, c.signature) /\ o # "panic"
    BY <1>2, <1>3, <1>6, <2>3 DEF VerifyOutcome
  <2> HIDE DEF o
  <2>5. QED BY <1>2, <1>3, <1>6, <2>1, <2>4, EndsVerified
<1>7. QED BY <1>1, <1>4, <1>5, <1>6 DEF UnderWay

LEMMA EndsAbort ==
    ASSUME Base, InFlight, NEW t \in Threads, Abort(t)
    PROVE  Ends'
<1> DEFINE c == call[t]
<1>1. /\ UNCHANGED <<alias, key, runtime>> /\ runtime = "down" /\ alias \in Pairs
      /\ UnderWay(key, alias, c)
  BY DEF Abort, InFlight, Requests, Base
<1>2. PICK o \in {AwsError[c.op], "panic"} : Return(t, c, o, None)
  BY DEF Abort
<1>3. BlockingThreadsDontPanic'
  BY <1>1 DEF BlockingThreadsDontPanic
<1>4. CASE o = "panic"
  BY <1>2, <1>3, <1>4 DEF Ends, Atomic, Return
<1>5. CASE c.op = "get_public_key" /\ o # "panic"
  <2>1. result'.op = "get_public_key" /\ result'.outcome # "Ok"
    BY <1>2, <1>5 DEF Return, AwsError
  <2>2. QED BY <1>3, <2>1 DEF Ends, Atomic
<1>6. CASE c.op = "sign" /\ o # "panic"
  <2>1. Made(key)
    BY <1>1, <1>6 DEF UnderWay, InFlight
  <2>2. result'.op = "sign" /\ result'.outcome = "AwsSignError"
    BY <1>2, <1>6 DEF Return, AwsError
  <2>3. SignErrors(KeyAt(alias))' = KmsSignErrors
    BY <1>1, <2>1, MadeObject DEF KeyAt
  <2>4. QED BY <1>3, <2>2, <2>3 DEF Ends, Atomic, KmsSignErrors
<1>7. CASE c.op = "verify" /\ o # "panic"
  <2>1. /\ Made(key) /\ key.public_key = None /\ c.signature.len \in Nat
        /\ c.signature.len >= key_length[key.sig_alg] /\ alias \in c.seen
    BY <1>1, <1>7 DEF UnderWay, InFlight
  <2>2. o = "AwsVerifyError"
    BY <1>2, <1>7 DEF AwsError
  <2> HIDE DEF c
  <2>3. o \in verify(ObjectAt(key, alias), c.data, c.signature)
    BY <1>1, <2>1, <2>2, VerifyAnswers
  <2>4. QED BY <1>1, <1>2, <1>7, <2>1, <2>3, EndsVerified
<1>8. QED BY <1>1, <1>4, <1>5, <1>6, <1>7 DEF UnderWay

LEMMA EndsNewWithPublicKey ==
    ASSUME Base, Base', InFlight, [Next]_vars, Ends, NEW t, NEW p, NewWithPublicKey(t, p)
    PROVE  Ends'
<1> DEFINE c == Request(IF p = None THEN "get_public_key" ELSE "given_public_key", None, None)
<1>1. CASE p = None
  BY <1>1, EndsBlockOn DEF NewWithPublicKey
<1>2. CASE p # None /\ HasHandle(t)
  <2>1. c.op = "given_public_key" /\ WithPublicKey(t, c, p)
    BY <1>2 DEF NewWithPublicKey, Request
  <2> HIDE DEF c
  <2>2. result'.op = "given_public_key" /\ result'.outcome # "panic"
    BY <2>1 DEF WithPublicKey, Return
  <2>3. QED BY <2>2 DEF Ends, Atomic, BlockingThreadsDontPanic
<1>3. CASE p # None /\ ~HasHandle(t)
  <2>1. Return(t, c, "panic", None) /\ ~CanBlock(t)
    BY <1>3 DEF NewWithPublicKey, CanBlock
  <2> HIDE DEF c
  <2>2. QED BY <2>1, EndsBadThread
<1>4. QED BY <1>1, <1>2, <1>3

LEMMA EndsInit == Init => Ends
  BY DEF Init, Ends, Atomic, BlockingThreadsDontPanic, NoResult

LEMMA EndsNext == Base /\ Base' /\ InFlight /\ Ends /\ [Next]_vars => Ends'
<1> SUFFICES ASSUME Base, Base', InFlight, Ends, [Next]_vars PROVE Ends'
  OBVIOUS
<1>1. CASE UNCHANGED result
  BY <1>1, EndsStand
<1>2. ASSUME NEW t \in Threads, NEW p, NewWithPublicKey(t, p) PROVE Ends'
  BY <1>2, EndsNewWithPublicKey
<1>3. ASSUME NEW t \in Threads, NEW m, Sign(t, m) PROVE Ends'
  BY <1>3, EndsBlockOn DEF Sign
<1>4. ASSUME NEW t \in Threads, NEW m, NEW s \in Presented, Verify(t, m, s) PROVE Ends'
  BY <1>4, EndsVerify
<1>5. ASSUME NEW t \in Threads, Deliver(t) \/ Abort(t) PROVE Ends'
  BY <1>5, EndsDeliver, EndsAbort
<1>6. QED
  BY <1>1, <1>2, <1>3, <1>4, <1>5
  DEF Next, vars, New, Serve, Lose, MoveAlias, Enter, Leave, Shutdown

\* sign, verify and new_with_public_key take as long as KMS takes, and each ends
\* as if it had happened in one instant, for one pair that key_id stood for.
THEOREM CallsAreAtomic == Spec => []Atomic
<1>1. Ends => Atomic
  BY DEF Ends
<1>2. QED BY <1>1, InvInit, InvNext, EndsInit, EndsNext, PTL DEF Spec

\* On a thread that may block, and while the runtime lives, nothing panics but
\* split_at on a signature without a whole R.
THEOREM NoOtherPanic == Spec => []BlockingThreadsDontPanic
<1>1. Ends => BlockingThreadsDontPanic
  BY DEF Ends
<1>2. QED BY <1>1, InvInit, InvNext, EndsInit, EndsNext, PTL DEF Spec
============================================================================
