-------------------------- MODULE PassthroughProofs --------------------------
(***************************************************************************)
(* Proofs about Passthrough, for any hardware digests, key descriptions,   *)
(* table and hardware sizes: keys are usable wherever the arbitration      *)
(* sends them, operations compute the whole message, and no operation is   *)
(* left behind in the hardware.                                            *)
(***************************************************************************)
EXTENDS Passthrough, TLAPS

-----------------------------------------------------------------------------
(* The inductive invariant. *)

\* What a Keymaster1LegacySupport can have learnt.
Learnt == {map_digests(n) : n \in FailedQueries}

\* Factories, once made, hold such a map.
FactoriesInv ==
    /\ DOMAIN factories = Algorithms
    /\ \A a \in Algorithms : factories[a] # NONE => factories[a] \in Learnt

\* A key is one of the described keys, and if its factory knew all digests its format and its
\* digests follow from them.
NeedsSoftware(d) == device # "km2" /\ RequiresSoftwareDigesting(map_digests(0), "NONE", d)
MadeFrom(k) ==
    /\ k.d \in Descriptions
    /\ k.complete =>
        /\ k.format = IF NeedsSoftware(k.d) /\ k.d.algorithm \notin Asymmetric THEN "integrity" ELSE "hw"
        /\ k.digests = IF NeedsSoftware(k.d) /\ k.d.algorithm \in Asymmetric THEN WorkAround(k.d.digests)
                       ELSE k.d.digests
KeyInv == key # NONE => MadeFrom(key)

\* An operation has taken what its client gave it, also in the hardware, and has its key's material.
OperationFields == {"k", "place", "purpose", "digest", "data", "aad", "orphan"}
Same(o, c) ==
    o.k = c.k /\ o.purpose = c.purpose /\ o.digest = c.digest /\ o.data = c.data /\ o.aad = c.aad
OwnMaterial(o) == o.k.complete => ~(o.place = "software" /\ o.k.format = "hw")
OperationOK(h) ==
    /\ h \in DOMAIN client
    /\ DOMAIN table[h] = OperationFields /\ DOMAIN client[h] = OperationFields /\ client[h].aad \in Nat
    /\ Same(table[h], client[h]) /\ OwnMaterial(table[h])
    /\ table[h].place = "passthrough" =>
        h \in DOMAIN hw /\ Same(hw[h], client[h]) /\ hw[h].place = "passthrough"
OperationsInv ==
    /\ \A h \in DOMAIN table : OperationOK(h)
    /\ \A h \in DOMAIN hw : DOMAIN hw[h] = OperationFields

ResultInv == PassthroughKeysAreUsable /\ WholeMessageComputed
Inv ==
    /\ device \in {"km1", "km2"}
    /\ FactoriesInv /\ KeyInv /\ OperationsInv /\ NoOperationLeaks /\ ResultInv

-----------------------------------------------------------------------------
(* The digest maps. *)

\* The queries of map_digests are about keys that sign or that encrypt, of three algorithms.
LEMMA AskedAlgorithms ==
    ASSUME NEW a, NEW p, <<a, p>> \in {Queries[i] : i \in DOMAIN Queries}
    PROVE  a \in {"RSA", "EC", "HMAC"}
<1>1. PICK i \in DOMAIN Queries : <<a, p>> = Queries[i]
  OBVIOUS
<1>2. DOMAIN Queries = 1..8
  BY DEF Queries
<1>3. i \in {1, 2, 3, 4, 5, 6, 7, 8}
  BY <1>1, <1>2
<1> QED
  BY <1>1, <1>3 DEF Queries

\* map_digests: what was learnt before a failed query is part of what would have been learnt.
LEMMA AnsweredIsAsked ==
    ASSUME NEW n \in Nat
    PROVE  /\ Answered(n) \subseteq {Queries[i] : i \in DOMAIN Queries}
           /\ Answered(0) = {Queries[i] : i \in DOMAIN Queries}
  BY DEF Answered

\* A factory that knows all digests knows those of the hardware.
LEMMA CompleteMap ==
    ASSUME NEW f \in Learnt, f.complete
    PROVE  f = map_digests(0)
<1>1. PICK n \in FailedQueries : f = map_digests(n)
  BY DEF Learnt
<1>2. f.complete = (n = 0)
  BY <1>1, Zenon DEF map_digests
<1> QED
  BY <1>1, <1>2, Zenon

\* The map of any factory.
LEMMA AnyMap ==
    ASSUME device \in {"km1", "km2"}, NEW n \in FailedQueries
    PROVE  /\ DOMAIN map_digests(n).digests = Answered(n)
           /\ Answered(n) \subseteq DOMAIN HwDigests[device]
           /\ \A q \in Answered(n) : map_digests(n).digests[q] = HwDigests[device][q]
           /\ map_digests(n).all = (\A q \in Answered(n) : FullDigests \subseteq HwDigests[device][q])
           /\ map_digests(n).complete = (n = 0)
<1>1. Answered(n) \subseteq DOMAIN HwDigests[device]
  BY AnsweredIsAsked, PassthroughAssumption
<1> QED
  BY <1>1 DEF map_digests

\* The map of a factory whose queries were all answered.
LEMMA FullMap ==
    ASSUME device \in {"km1", "km2"}
    PROVE  /\ DOMAIN map_digests(0).digests = DOMAIN HwDigests[device]
           /\ \A q \in DOMAIN HwDigests[device] : map_digests(0).digests[q] = HwDigests[device][q]
           /\ map_digests(0).all = (\A q \in DOMAIN HwDigests[device] : FullDigests \subseteq HwDigests[device][q])
<1>1. 0 \in FailedQueries /\ Answered(0) = DOMAIN HwDigests[device]
  BY AnsweredIsAsked, PassthroughAssumption, Zenon
<1> QED
  BY <1>1, AnyMap, Zenon

\* The digests all hardware has.
LEMMA BasicDigests ==
    ASSUME device \in {"km1", "km2"}, NEW q \in DOMAIN map_digests(0).digests
    PROVE  {"NONE", "SHA256"} \subseteq map_digests(0).digests[q]
<1>1. q \in DOMAIN HwDigests[device] /\ map_digests(0).digests[q] = HwDigests[device][q]
  BY FullMap, Zenon
<1>2. {"NONE", "SHA256"} \subseteq HwDigests[device][q]
  BY <1>1, PassthroughAssumption
<1> QED
  BY <1>1, <1>2, Zenon

\* A factory that knows fewer digests asks for software digesting less often.
LEMMA FewerDigests ==
    ASSUME device \in {"km1", "km2"}, NEW n \in FailedQueries, NEW d, NEW digest,
           RequiresSoftwareDigesting(map_digests(n), digest, d)
    PROVE  RequiresSoftwareDigesting(map_digests(0), digest, d)
<1> DEFINE f == map_digests(n)
           g == map_digests(0)
<1>1. DOMAIN f.digests \subseteq DOMAIN g.digests /\ \A q \in DOMAIN f.digests : f.digests[q] = g.digests[q]
  BY AnyMap, FullMap, Zenon
<1>2. ~f.all => ~g.all
  BY AnyMap, FullMap, Zenon
<1> HIDE DEF f, g
<1>3. ASSUME NEW q, requiresSoftwareDigesting(f, q, digest, d.digests)
      PROVE  requiresSoftwareDigesting(g, q, digest, d.digests)
  BY <1>1, <1>3 DEF requiresSoftwareDigesting, findUnsupportedDigest
<1>4. RequiresSoftwareDigesting(f, digest, d)
  BY DEF f
<1>5. RequiresSoftwareDigesting(g, digest, d)
  BY <1>2, <1>3, <1>4 DEF RequiresSoftwareDigesting
<1> QED
  BY <1>5 DEF g

\* Without software digesting, hardware that answered has all digests of a key.
LEMMA PassedDigests ==
    ASSUME device \in {"km1", "km2"}, NEW d, NEW digest,
           ~RequiresSoftwareDigesting(map_digests(0), digest, d),
           d.digests \subseteq FullDigests \cup {"NONE"}, digest \in FullDigests \cup {"NONE"},
           NEW p \in d.purposes, <<d.algorithm, p>> \in DOMAIN HwDigests[device]
    PROVE  d.digests \cup {digest} \subseteq HwDigests[device][<<d.algorithm, p>>]
<1> DEFINE q == <<d.algorithm, p>>
           f == map_digests(0)
<1>1. DOMAIN f.digests = DOMAIN HwDigests[device] /\ f.digests[q] = HwDigests[device][q]
      /\ f.all = (\A x \in DOMAIN HwDigests[device] : FullDigests \subseteq HwDigests[device][x])
  BY FullMap, Zenon
<1>2. "NONE" \in HwDigests[device][q]
  BY PassthroughAssumption
<1>3. q[1] = d.algorithm /\ d.algorithm \in {"RSA", "EC", "HMAC"}
  BY AskedAlgorithms, PassthroughAssumption
<1>4. CASE f.all
  BY <1>1, <1>2, <1>4, Zenon
<1>5. CASE ~f.all
  <2>1. ~requiresSoftwareDigesting(f, q, digest, d.digests)
    BY <1>5 DEF RequiresSoftwareDigesting
  <2>2. ~findUnsupportedDigest(f, q, digest, d.digests)
    BY <1>3, <2>1 DEF requiresSoftwareDigesting
  <2>3. (digest = "NONE" \/ digest \in f.digests[q]) /\ d.digests \subseteq f.digests[q]
    BY <1>1, <2>2 DEF findUnsupportedDigest
  <2> QED
    BY <1>1, <1>2, <2>3
<1> QED
  BY <1>4, <1>5

-----------------------------------------------------------------------------
(* Keys. *)

\* Make, field by field.
LEMMA MadeKey ==
    ASSUME NEW f, NEW d
    PROVE  LET inSoftware == device # "km2" /\ RequiresSoftwareDigesting(f, "NONE", d)
           IN /\ Make(f, d).d = d /\ Make(f, d).complete = f.complete
              /\ ~inSoftware => Make(f, d).format = "hw" /\ Make(f, d).digests = d.digests
              /\ inSoftware /\ d.algorithm \in Asymmetric =>
                    Make(f, d).format = "hw" /\ Make(f, d).digests = WorkAround(d.digests)
              /\ inSoftware /\ d.algorithm \notin Asymmetric =>
                    Make(f, d).format = "integrity" /\ Make(f, d).digests = d.digests
  BY DEF Make, Blob

\* The workaround for unsupported digests takes none away.
LEMMA WorkAroundKeeps ==
    ASSUME NEW S
    PROVE  S \subseteq WorkAround(S) /\ (~(S \subseteq {"NONE", "SHA256"}) => "NONE" \in WorkAround(S))
  BY DEF WorkAround

\* LoadKey: where the operations of a key go.
LEMMA PlaceOfKey ==
    ASSUME NEW f, NEW digest, NEW d
    PROVE  LET inSoftware == device = "km1" /\ RequiresSoftwareDigesting(f, digest, d)
               place == LoadKey(f, digest, d).place
           IN /\ ~inSoftware => place = "passthrough"
              /\ inSoftware /\ d.algorithm \in Asymmetric => place = "wrapped"
              /\ inSoftware /\ d.algorithm \notin Asymmetric => place = "software"
  BY DEF LoadKey

\* A key of the hardware whose factory knew all digests is not loaded as a key of the software.
LEMMA KeyKeepsMaterial ==
    ASSUME device \in {"km1", "km2"}, NEW k, MadeFrom(k), k.complete, k.format = "hw",
           NEW f \in Learnt, NEW digest \in DigestsFor(k.d.algorithm)
    PROVE  LoadKey(f, digest, Authorized(k)).place # "software"
<1> SUFFICES ASSUME LoadKey(f, digest, Authorized(k)).place = "software"
             PROVE  FALSE
  OBVIOUS
<1> DEFINE d == k.d
           g == map_digests(0)
<1>1. d.algorithm \notin Asymmetric /\ device = "km1" /\ RequiresSoftwareDigesting(f, digest, Authorized(k))
  BY PlaceOfKey DEF Authorized
<1>2. digest = "NONE"
  BY <1>1 DEF DigestsFor
<1>3. ~NeedsSoftware(d) /\ k.digests = d.digests
  BY <1>1 DEF MadeFrom
<1>4. PICK n \in FailedQueries : f = map_digests(n)
  BY DEF Learnt
<1>5. RequiresSoftwareDigesting(g, "NONE", Authorized(k))
  BY <1>1, <1>2, <1>4, FewerDigests
<1>6. RequiresSoftwareDigesting(g, "NONE", d)
  BY <1>3, <1>5, Zenon DEF RequiresSoftwareDigesting, Authorized
<1> QED
  BY <1>1, <1>3, <1>6 DEF NeedsSoftware

\* What the passthrough engine and the software's factories both offer.
LEMMA SharedPurposes ==
    ASSUME NEW a, NEW place, NEW p \in GetOperationFactory(a, "software")
    PROVE  p \in GetOperationFactory(a, place)
  BY DEF GetOperationFactory

Fine == {"OK", "KEY_REQUIRES_UPGRADE", "TOO_MANY_OPERATIONS"}

\* The hardware's begin refuses a key only for what its description or its digests lack.
LEMMA HardwareAccepts ==
    ASSUME NEW k, NEW p \in k.d.purposes, NEW digest, k.format = "hw",
           k.d.algorithm \in Asymmetric => digest \in k.digests,
           <<k.d.algorithm, p>> \in DOMAIN HwDigests[device] =>
               /\ k.d.algorithm = "HMAC" => k.digests \subseteq HwDigests[device][<<k.d.algorithm, p>>]
               /\ k.d.algorithm \in Asymmetric => digest \in HwDigests[device][<<k.d.algorithm, p>>]
    PROVE  HwBeginError(k, p, digest) \in Fine
<1> DEFINE used == IF k.d.algorithm = "HMAC" THEN k.digests
                   ELSE IF k.d.algorithm \in Asymmetric THEN {digest} ELSE {}
           q == <<k.d.algorithm, p>>
<1>1. used \subseteq k.digests
  OBVIOUS
<1>2. q \in DOMAIN HwDigests[device] => used \subseteq HwDigests[device][q]
  OBVIOUS
<1>3. HwBeginError(k, p, digest) =
        IF k.format # "hw" THEN "INVALID_KEY_BLOB"
        ELSE IF p \notin k.d.purposes THEN "INCOMPATIBLE_PURPOSE"
        ELSE IF ~(used \subseteq k.digests) THEN "INCOMPATIBLE_DIGEST"
        ELSE IF q \in DOMAIN HwDigests[device] /\ ~(used \subseteq HwDigests[device][q]) THEN "UNSUPPORTED_DIGEST"
        ELSE IF Cardinality(DOMAIN hw) = HwSlots THEN "TOO_MANY_OPERATIONS"
        ELSE "OK"
  BY DEF HwBeginError
<1> HIDE DEF used, q
<1> QED
  BY <1>1, <1>2, <1>3 DEF q, Fine

\* A key that GenerateKey made while all queries were answered begins, wherever it goes.
LEMMA BeginSucceeds ==
    ASSUME device \in {"km1", "km2"}, NEW k, MadeFrom(k), k.complete, NEW p \in k.d.purposes,
           p \in GetOperationFactory(k.d.algorithm, "software"), NEW digest \in DigestsFor(k.d.algorithm),
           k.d.algorithm \in Asymmetric => digest \in k.d.digests
    PROVE  BeginError(k, p, digest, LoadKey(map_digests(0), digest, Authorized(k)).place) \in Fine
<1> DEFINE d == k.d
           f == map_digests(0)
           place == LoadKey(f, digest, Authorized(k)).place
           q == <<d.algorithm, p>>
           soft == RequiresSoftwareDigesting(f, digest, Authorized(k))
<1>1. /\ d \in Descriptions
      /\ k.format = IF NeedsSoftware(d) /\ d.algorithm \notin Asymmetric THEN "integrity" ELSE "hw"
      /\ k.digests = IF NeedsSoftware(d) /\ d.algorithm \in Asymmetric THEN WorkAround(d.digests) ELSE d.digests
  BY DEF MadeFrom
<1>0. device = "km1" => (NeedsSoftware(d) <=> RequiresSoftwareDigesting(f, "NONE", d))
  BY DEF NeedsSoftware
<1>2. d.digests \subseteq FullDigests \cup {"NONE"} /\ digest \in FullDigests \cup {"NONE"}
  BY <1>1, PassthroughAssumption DEF DigestsFor
<1>3. d.digests \subseteq k.digests /\ k.digests \subseteq FullDigests \cup {"NONE"}
  <2>1. k.digests \in {d.digests, WorkAround(d.digests)}
    BY <1>1
  <2> QED
    BY <1>2, <2>1 DEF WorkAround
<1>4. CheckVersionInfo(k) \in Fine
  BY DEF CheckVersionInfo, Fine
<1>5. p \in GetOperationFactory(d.algorithm, place)
  BY SharedPurposes
<1>6. CASE device = "km1" /\ ~soft
  <2>1. place = "passthrough"
    BY <1>6, PlaceOfKey
  <2>2. k.digests \cup {digest} \subseteq HwDigests[device][q] \/ q \notin DOMAIN HwDigests[device]
    BY <1>2, <1>3, <1>6, PassedDigests DEF Authorized
  <2>3. k.format = "hw"
    <3> SUFFICES ASSUME k.format # "hw" PROVE FALSE
      OBVIOUS
    <3>1. RequiresSoftwareDigesting(f, "NONE", d) /\ d.algorithm \notin Asymmetric /\ k.digests = d.digests
      BY <1>1, <1>6, <1>0
    <3>2. digest = "NONE"
      BY <3>1 DEF DigestsFor
    <3> QED
      BY <1>6, <3>1, <3>2 DEF RequiresSoftwareDigesting, Authorized
  <2>4. d.algorithm \in Asymmetric => digest \in k.digests
    BY <1>3
  <2>5. HwBeginError(k, p, digest) \in Fine
    BY <2>2, <2>3, <2>4, HardwareAccepts
  <2> HIDE DEF place
  <2> QED
    BY <1>4, <1>5, <2>1, <2>5 DEF BeginError, Fine, place
<1>7. CASE device = "km1" /\ soft /\ d.algorithm \in Asymmetric
  <2>1. place = "wrapped"
    BY <1>7, PlaceOfKey DEF Authorized
  <2>2. k.format = "hw"
    BY <1>1, <1>7
  <2>3. "NONE" \in k.digests
    <3>1. PICK p1 \in d.purposes : requiresSoftwareDigesting(f, <<d.algorithm, p1>>, digest, k.digests)
      BY <1>7 DEF RequiresSoftwareDigesting, Authorized
    <3>2. ~f.all
      BY <1>7 DEF RequiresSoftwareDigesting
    <3>3. NeedsSoftware(d)
      <4> SUFFICES ASSUME ~NeedsSoftware(d) PROVE FALSE
        OBVIOUS
      <4>1. k.digests = d.digests
        BY <1>1
      <4>2. requiresSoftwareDigesting(f, <<d.algorithm, p1>>, "NONE", d.digests)
        BY <1>7, <3>1, <4>1 DEF requiresSoftwareDigesting, findUnsupportedDigest
      <4> QED
        BY <1>7, <1>0, <3>1, <3>2, <4>2 DEF RequiresSoftwareDigesting
    <3>4. PICK p2 \in d.purposes : requiresSoftwareDigesting(f, <<d.algorithm, p2>>, "NONE", d.digests)
      BY <1>7, <1>0, <3>3 DEF RequiresSoftwareDigesting
    <3>5. ~(d.digests \subseteq {"NONE", "SHA256"})
      <4>1. /\ <<d.algorithm, p2>> \in DOMAIN f.digests
            /\ ~(d.digests \subseteq f.digests[<<d.algorithm, p2>>])
        BY <3>4 DEF requiresSoftwareDigesting, findUnsupportedDigest
      <4>2. {"NONE", "SHA256"} \subseteq f.digests[<<d.algorithm, p2>>]
        BY <4>1, BasicDigests
      <4> QED
        BY <4>1, <4>2
    <3>6. k.digests = WorkAround(d.digests)
      BY <1>1, <1>7, <3>3
    <3> QED
      BY <3>5, <3>6, WorkAroundKeeps
  <2>4. q \in DOMAIN HwDigests[device] => "NONE" \in HwDigests[device][q]
    BY <1>7, PassthroughAssumption
  <2>5. HwBeginError(k, p, "NONE") \in Fine
    BY <1>7, <2>2, <2>3, <2>4, HardwareAccepts DEF Asymmetric
  <2>6. digest \in k.digests
    BY <1>3, <1>7
  <2> HIDE DEF place
  <2> QED
    BY <1>4, <1>5, <2>1, <2>5, <2>6 DEF BeginError, Fine, place
<1>8. CASE device = "km1" /\ soft /\ d.algorithm \notin Asymmetric
  <2>1. place = "software"
    BY <1>8, PlaceOfKey DEF Authorized
  <2> HIDE DEF place
  <2> QED
    BY <1>4, <1>5, <2>1 DEF BeginError, Fine, UsesHardware, place
<1>9. CASE device = "km2"
  <2>1. place = "passthrough"
    BY <1>9, PlaceOfKey
  <2>2. k.format = "hw" /\ k.digests = d.digests
    BY <1>1, <1>9 DEF NeedsSoftware
  <2>3. q \in DOMAIN HwDigests[device] => FullDigests \cup {"NONE"} \subseteq HwDigests[device][q]
    BY <1>9, PassthroughAssumption
  <2>4. d.algorithm \in Asymmetric => digest \in k.digests
    BY <1>3
  <2>5. HwBeginError(k, p, digest) \in Fine
    BY <1>2, <1>3, <2>2, <2>3, <2>4, HardwareAccepts
  <2> HIDE DEF place
  <2> QED
    BY <1>4, <1>5, <2>1, <2>5 DEF BeginError, Fine, place
<1> QED
  BY <1>6, <1>7, <1>8, <1>9

\* What Make makes of a description.
LEMMA MakeMakes ==
    ASSUME device \in {"km1", "km2"}, NEW d \in Descriptions, NEW f \in Learnt
    PROVE  MadeFrom(Make(f, d))
<1> DEFINE k == Make(f, d)
<1>1. k.d = d /\ k.complete = f.complete
  BY MadeKey
<1>2. ASSUME f.complete
      PROVE  /\ k.format = IF NeedsSoftware(d) /\ d.algorithm \notin Asymmetric THEN "integrity" ELSE "hw"
             /\ k.digests = IF NeedsSoftware(d) /\ d.algorithm \in Asymmetric THEN WorkAround(d.digests)
                            ELSE d.digests
  <2>1. f = map_digests(0)
    BY <1>2, CompleteMap
  <2> QED
    BY <2>1, MadeKey DEF NeedsSoftware
<1> HIDE DEF k
<1>3. MadeFrom(k)
  BY <1>1, <1>2 DEF MadeFrom
<1> QED
  BY <1>3 DEF k

-----------------------------------------------------------------------------
(* Steps keep the invariant. *)

\* The device does not change, and with it what can be learnt and made.
LEMMA SameDevice ==
    ASSUME device' = device
    PROVE  Learnt' = Learnt /\ \A k : MadeFrom(k)' <=> MadeFrom(k)
<1>1. \A n : map_digests(n)' = map_digests(n)
  BY DEF map_digests
<1>2. Learnt' = Learnt
  BY <1>1 DEF Learnt
<1>3. \A d : NeedsSoftware(d)' <=> NeedsSoftware(d)
  BY <1>1, Zenon DEF NeedsSoftware, RequiresSoftwareDigesting, requiresSoftwareDigesting, findUnsupportedDigest
<1>4. \A k : MadeFrom(k)' <=> MadeFrom(k)
  BY <1>3 DEF MadeFrom
<1> QED
  BY <1>2, <1>4

\* GetKeyFactory gives a factory with such a map, and remembers it.
LEMMA FactoryLearnt ==
    ASSUME FactoriesInv, NEW a \in Algorithms, NEW f \in GetKeyFactory(a)
    PROVE  f \in Learnt
  BY PassthroughAssumption DEF FactoriesInv, GetKeyFactory, Learnt

\* A call that asks for a factory.
LEMMA FactoriesStep ==
    ASSUME FactoriesInv, device' = device, NEW a \in Algorithms, NEW f \in GetKeyFactory(a),
           factories' = [factories EXCEPT ![a] = f]
    PROVE  FactoriesInv'
  BY FactoryLearnt, SameDevice DEF FactoriesInv

\* Answers to the calls the properties say nothing of.
LEMMA OtherAnswers ==
    ASSUME NEW call, NEW error, NEW about, result' = Answer(call, error, about),
           call \notin {"begin", "finish", "generateKey", "attestKey"} \/ (call = "finish" /\ error # "OK")
    PROVE  ResultInv'
<1>1. result'.call = call /\ result'.error = error
  BY DEF Answer
<1> QED
  BY <1>1 DEF ResultInv, PassthroughKeysAreUsable, AuthorizedUseBegins, DescribedKeysAreMade,
              AttestedKeysAreAsymmetric, WholeMessageComputed

\* Between two calls.
LEMMA NoAnswer ==
    ASSUME result' = NONE
    PROVE  ResultInv'
  BY DEF ResultInv, PassthroughKeysAreUsable, AuthorizedUseBegins, DescribedKeysAreMade,
         AttestedKeysAreAsymmetric, WholeMessageComputed

\* Operations stay as they are when a call touches none.
LEMMA SameOperations ==
    ASSUME OperationsInv, NoOperationLeaks, UNCHANGED ops
    PROVE  OperationsInv' /\ NoOperationLeaks'
  BY DEF OperationsInv, NoOperationLeaks, OperationOK, Same, OwnMaterial, ops

\* A key stays as it was made.
LEMMA SameKey ==
    ASSUME KeyInv, device' = device, UNCHANGED key \/ key' = NONE
    PROVE  KeyInv'
  BY SameDevice DEF KeyInv

\* generateKey and importKey.
LEMMA NewKeyInv ==
    ASSUME Inv, NEW call \in {"generateKey", "importKey"}, NEW d \in Descriptions, NEW error,
           call = "generateKey" => error = CurveError(d), NewKey(call, d, error)
    PROVE  Inv'
<1>0. device' = device /\ UNCHANGED ops /\ d.algorithm \in Algorithms
  BY PassthroughAssumption DEF NewKey
<1>1. FactoriesInv'
  <2>1. CASE UNCHANGED factories
    BY <1>0, <2>1, SameDevice DEF Inv, FactoriesInv
  <2>2. CASE \E f \in GetKeyFactory(d.algorithm) : factories' = [factories EXCEPT ![d.algorithm] = f]
    BY <1>0, <2>2, FactoriesStep, Zenon DEF Inv
  <2> QED
    BY <2>1, <2>2 DEF NewKey
<1>2. KeyInv'
  <2>1. CASE UNCHANGED key \/ key' = NONE
    BY <1>0, <2>1, SameKey DEF Inv
  <2>2. ASSUME NEW f \in GetKeyFactory(d.algorithm), key' = Make(f, d)
        PROVE  KeyInv'
    <3>1. MadeFrom(Make(f, d))
      BY <1>0, FactoryLearnt, MakeMakes DEF Inv
    <3> QED
      BY <1>0, <2>2, <3>1, SameDevice DEF KeyInv
  <2> QED
    BY <2>1, <2>2 DEF NewKey
<1>3. OperationsInv' /\ NoOperationLeaks'
  BY <1>0, SameOperations DEF Inv
<1>4. ResultInv'
  <2>1. CASE result' = Answer(call, "UNSUPPORTED_ALGORITHM", NoOp)
    BY <2>1 DEF ResultInv, PassthroughKeysAreUsable, AuthorizedUseBegins, DescribedKeysAreMade,
                AttestedKeysAreAsymmetric, WholeMessageComputed, Answer
  <2>2. CASE result' = Answer(call, error, [d |-> d])
    <3>1. result'.call = call /\ result'.error = error /\ result'.about.d = d
      BY <2>2 DEF Answer
    <3>2. ASSUME call = "generateKey", d.algorithm = "EC" => d.curve # NONE /\ d.size \in {NONE, d.curve}
          PROVE  error = "OK"
      BY <3>2 DEF CurveError, HwSize
    <3> QED
      BY <3>1, <3>2 DEF ResultInv, PassthroughKeysAreUsable, AuthorizedUseBegins, DescribedKeysAreMade,
                        AttestedKeysAreAsymmetric, WholeMessageComputed
  <2> QED
    BY <2>1, <2>2 DEF NewKey
<1> QED
  BY <1>0, <1>1, <1>2, <1>3, <1>4 DEF Inv

\* getKeyCharacteristics, exportKey and attestKey.
LEMMA LoadsInv ==
    ASSUME Inv, key # NONE, NEW call \in {"getKeyCharacteristics", "exportKey", "attestKey"}, NEW error,
           Loads(call, error, key), call = "attestKey" /\ error = "OK" => key.d.algorithm \in Asymmetric
    PROVE  Inv'
<1>0. device' = device /\ UNCHANGED ops /\ UNCHANGED key /\ key.d.algorithm \in Algorithms
  BY PassthroughAssumption DEF Loads, Inv, KeyInv, MadeFrom
<1>1. PICK f \in GetKeyFactory(key.d.algorithm) :
         /\ factories' = [factories EXCEPT ![key.d.algorithm] = f]
         /\ result' = Answer(call, error, [class |-> LoadKey(f, "NONE", Authorized(key)).class])
  BY Zenon DEF Loads
<1>2. FactoriesInv'
  BY <1>0, <1>1, FactoriesStep, Zenon DEF Inv
<1>3. KeyInv'
  BY <1>0, SameKey DEF Inv
<1>4. OperationsInv' /\ NoOperationLeaks'
  BY <1>0, SameOperations DEF Inv
<1>5. ResultInv'
  <2>1. /\ result'.call = call /\ result'.error = error
        /\ result'.about.class = LoadKey(f, "NONE", Authorized(key)).class
    BY <1>1 DEF Answer
  <2>2. ASSUME call = "attestKey", error = "OK", device = "km1"
        PROVE  LoadKey(f, "NONE", Authorized(key)).class = "AsymmetricKey"
    BY <2>2 DEF LoadKey, Authorized
  <2> QED
    BY <1>0, <2>1, <2>2 DEF ResultInv, PassthroughKeysAreUsable, AuthorizedUseBegins, DescribedKeysAreMade,
                            AttestedKeysAreAsymmetric, WholeMessageComputed
<1> QED
  BY <1>0, <1>2, <1>3, <1>4, <1>5 DEF Inv

\* upgradeKey writes the patch level into the blob, and nothing else.
LEMMA UpgradeInv ==
    ASSUME Inv, upgradeKey
    PROVE  Inv'
<1>0. device' = device /\ UNCHANGED ops /\ key # NONE /\ MadeFrom(key) /\ key.d.algorithm \in Algorithms
  BY PassthroughAssumption DEF upgradeKey, Inv, KeyInv, MadeFrom
<1>1. FactoriesInv'
  <2>1. CASE UNCHANGED factories
    BY <1>0, <2>1, SameDevice DEF Inv, FactoriesInv
  <2>2. CASE \E f \in GetKeyFactory(key.d.algorithm) : factories' = [factories EXCEPT ![key.d.algorithm] = f]
    BY <1>0, <2>2, FactoriesStep, Zenon DEF Inv
  <2> QED
    BY <2>1, <2>2 DEF upgradeKey
<1>2. KeyInv'
  <2>1. CASE UNCHANGED key
    BY <1>0, <2>1, SameKey DEF Inv
  <2>2. CASE key' = [key EXCEPT !.version = version]
    <3>1. /\ key'.d = key.d /\ key'.complete = key.complete
          /\ key'.format = key.format /\ key'.digests = key.digests
      BY <2>2
    <3>2. MadeFrom(key)'
      BY <1>0, <3>1, SameDevice DEF MadeFrom
    <3> QED
      BY <3>2 DEF KeyInv
  <2> QED
    BY <2>1, <2>2 DEF upgradeKey
<1>3. OperationsInv' /\ NoOperationLeaks'
  BY <1>0, SameOperations DEF Inv
<1>4. ResultInv'
  BY OtherAnswers DEF upgradeKey
<1> QED
  BY <1>0, <1>1, <1>2, <1>3, <1>4 DEF Inv

\* Calls that only take the key away, or nothing at all.
LEMMA QuietCallsInv ==
    ASSUME Inv, deleteKey \/ deleteAllKeys \/ Forget \/ addRngEntropy \/ Collect
    PROVE  Inv'
<1>0. device' = device /\ UNCHANGED ops /\ UNCHANGED factories /\ (UNCHANGED key \/ key' = NONE)
  BY DEF deleteKey, deleteAllKeys, Forget, addRngEntropy, Collect
<1>1. FactoriesInv'
  BY <1>0, SameDevice DEF Inv, FactoriesInv
<1>2. KeyInv'
  BY <1>0, SameKey DEF Inv
<1>3. OperationsInv' /\ NoOperationLeaks'
  BY <1>0, SameOperations DEF Inv
<1>4. ResultInv'
  <2>1. CASE Forget \/ Collect
    BY <2>1, NoAnswer DEF Forget, Collect, Quiet
  <2>2. CASE deleteKey \/ deleteAllKeys \/ addRngEntropy
    BY <2>2, OtherAnswers DEF deleteKey, deleteAllKeys, addRngEntropy
  <2> QED
    BY <2>1, <2>2
<1> QED
  BY <1>0, <1>1, <1>2, <1>3, <1>4 DEF Inv

\* The device is made again: no factory, no operation.
LEMMA CreateInv ==
    ASSUME Inv, CreateKeymasterDevice
    PROVE  Inv'
<1>0. device' = device /\ UNCHANGED key /\ result' = NONE
  BY DEF CreateKeymasterDevice, Quiet
<1>1. FactoriesInv'
  BY DEF CreateKeymasterDevice, FactoriesInv
<1>2. KeyInv'
  BY <1>0, SameKey DEF Inv
<1>3. DOMAIN table' = {} /\ DOMAIN hw' = {}
  BY DEF CreateKeymasterDevice
<1>4. OperationsInv' /\ NoOperationLeaks'
  BY <1>3 DEF OperationsInv, NoOperationLeaks
<1>5. ResultInv'
  BY <1>0, NoAnswer
<1> QED
  BY <1>0, <1>1, <1>2, <1>4, <1>5 DEF Inv

-----------------------------------------------------------------------------
(* Operations. *)

\* A new operation is entered in the table, and a passed one in the hardware; when the table is
\* full only a passed one stays in the hardware, as an orphan.
LEMMA EnterOperation ==
    ASSUME OperationsInv, NoOperationLeaks, NEW h, NEW op, NEW full \in BOOLEAN, NEW inHw \in BOOLEAN,
           DOMAIN op = OperationFields, op.orphan = full, op.aad \in Nat, OwnMaterial(op),
           op.place = "passthrough" => inHw,
           hw' = IF inHw /\ (~full \/ op.place = "passthrough") THEN Put(hw, h, op) ELSE hw,
           table' = IF full THEN table ELSE Put(table, h, op),
           client' = IF full THEN client ELSE Put(client, h, op),
           inHw => h \notin DOMAIN hw
    PROVE  OperationsInv' /\ NoOperationLeaks'
<1>1. ASSUME NEW x \in DOMAIN table'
      PROVE  OperationOK(x)'
  <2>1. CASE ~full /\ x = h
    <3>1. table'[h] = op /\ client'[h] = op /\ h \in DOMAIN client'
      BY <2>1 DEF Put
    <3>2. op.place = "passthrough" => h \in DOMAIN hw' /\ hw'[h] = op
      BY <2>1, SMTT(20) DEF Put
    <3> QED
      BY <2>1, <3>1, <3>2 DEF OperationOK, Same, OwnMaterial
  <2>2. CASE full \/ x # h
    <3>1. x \in DOMAIN table /\ table'[x] = table[x]
      BY <2>2 DEF Put
    <3>2. OperationOK(x)
      BY <3>1 DEF OperationsInv
    <3>3. x \in DOMAIN client' /\ client'[x] = client[x]
      BY <2>2, <3>2 DEF Put, OperationOK
    <3>4. table[x].place = "passthrough" => x \in DOMAIN hw' /\ hw'[x] = hw[x]
      BY <2>2, <3>2 DEF Put, OperationOK
    <3> QED
      BY <3>1, <3>2, <3>3, <3>4 DEF OperationOK, Same, OwnMaterial
  <2> QED
    BY <2>1, <2>2
<1>2. ASSUME NEW x \in DOMAIN hw'
      PROVE  DOMAIN hw'[x] = OperationFields /\ (x \in DOMAIN table' \/ hw'[x].orphan)
  <2>1. CASE x = h /\ inHw /\ (~full \/ op.place = "passthrough")
    <3>1. hw'[x] = op
      BY <2>1 DEF Put
    <3>2. ~full => x \in DOMAIN table'
      BY <2>1 DEF Put
    <3> QED
      BY <3>1, <3>2
  <2>2. CASE ~(x = h /\ inHw /\ (~full \/ op.place = "passthrough"))
    <3>1. x \in DOMAIN hw /\ hw'[x] = hw[x]
      BY <2>2 DEF Put
    <3>2. DOMAIN table \subseteq DOMAIN table'
      BY DEF Put
    <3> QED
      BY <3>1, <3>2 DEF OperationsInv, NoOperationLeaks
  <2> QED
    BY <2>1, <2>2
<1> QED
  BY <1>1, <1>2 DEF OperationsInv, NoOperationLeaks

\* begin.
LEMMA BeginInv ==
    ASSUME Inv, key # NONE, NEW purpose \in key.d.purposes, NEW digest \in DigestsFor(key.d.algorithm),
           begin(purpose, digest)
    PROVE  Inv'
<1>0. device' = device /\ UNCHANGED key /\ MadeFrom(key) /\ key.d.algorithm \in Algorithms
  BY PassthroughAssumption, Zenon DEF begin, Inv, KeyInv, MadeFrom
<1> DEFINE place(f) == LoadKey(f, digest, Authorized(key)).place
           error(f) == BeginError(key, purpose, digest, place(f))
           inHw(f) == UsesHardware(place(f), purpose)
           full == Cardinality(DOMAIN table) = TableSize
           op(f) == [k |-> key, place |-> place(f), purpose |-> purpose, digest |-> digest, data |-> <<>>,
                     aad |-> 0, orphan |-> full]
           about(f) == [k |-> key, purpose |-> purpose, digest |-> digest, complete |-> f.complete]
<1>1. PICK f \in GetKeyFactory(key.d.algorithm) :
         /\ factories' = [factories EXCEPT ![key.d.algorithm] = f]
         /\ IF error(f) # "OK"
            THEN result' = Answer("begin", error(f), about(f)) /\ UNCHANGED ops
            ELSE \E h \in IF inHw(f) THEN HwHandles \ DOMAIN hw ELSE SwHandles \ DOMAIN table :
                  /\ hw' = IF inHw(f) /\ (~full \/ place(f) = "passthrough") THEN Put(hw, h, op(f)) ELSE hw
                  /\ table' = IF full THEN table ELSE Put(table, h, op(f))
                  /\ client' = IF full THEN client ELSE Put(client, h, op(f))
                  /\ result' = Answer("begin", IF full THEN "TOO_MANY_OPERATIONS" ELSE "OK", about(f))
  BY Zenon DEF begin
<1>2. f \in Learnt
  BY <1>0, FactoryLearnt DEF Inv
<1>3. FactoriesInv'
  BY <1>0, <1>1, FactoriesStep, Zenon DEF Inv
<1>4. KeyInv'
  BY <1>0, SameKey DEF Inv
<1>5. OperationsInv' /\ NoOperationLeaks'
  <2>1. CASE error(f) # "OK"
    <3>1. UNCHANGED ops
      BY <1>1, <2>1, Zenon
    <3> QED
      BY <3>1, SameOperations DEF Inv
  <2>2. CASE error(f) = "OK"
    <3>1. DOMAIN op(f) = OperationFields /\ op(f).orphan = full /\ op(f).place = place(f)
          /\ op(f).k = key /\ op(f).aad \in Nat
      BY Zenon DEF OperationFields
    <3>2. key.complete => ~(place(f) = "software" /\ key.format = "hw")
      BY <1>0, <1>2, KeyKeepsMaterial DEF Inv
    <3>3. OwnMaterial(op(f))
      BY <3>1, <3>2, Zenon DEF OwnMaterial
    <3>4. full \in BOOLEAN /\ inHw(f) \in BOOLEAN /\ (place(f) = "passthrough" => inHw(f))
      BY SMTT(20) DEF UsesHardware
    <3> HIDE DEF place, error, inHw, full, op, about
    <3>5. PICK h \in IF inHw(f) THEN HwHandles \ DOMAIN hw ELSE SwHandles \ DOMAIN table :
                  /\ hw' = IF inHw(f) /\ (~full \/ place(f) = "passthrough") THEN Put(hw, h, op(f)) ELSE hw
                  /\ table' = IF full THEN table ELSE Put(table, h, op(f))
                  /\ client' = IF full THEN client ELSE Put(client, h, op(f))
      BY <1>1, <2>2
    <3>6. inHw(f) => h \notin DOMAIN hw
      OBVIOUS
    <3> QED
      BY <3>1, <3>3, <3>4, <3>5, <3>6, EnterOperation, Zenon DEF Inv
  <2> QED
    BY <2>1, <2>2
<1>6. ResultInv'
  <2>1. /\ result'.call = "begin" /\ result'.about = about(f)
        /\ result'.error \in {error(f), "TOO_MANY_OPERATIONS", "OK"}
    <3> HIDE DEF place, error, inHw, full, op, about
    <3>1. \E e \in {error(f), "TOO_MANY_OPERATIONS", "OK"} : result' = Answer("begin", e, about(f))
      <4>1. CASE error(f) # "OK"
        BY <1>1, <4>1, Zenon
      <4>2. CASE error(f) = "OK"
        BY <1>1, <4>2, Zenon
      <4> QED
        BY <4>1, <4>2, Zenon
    <3> QED
      BY ONLY <3>1 DEF Answer
  <2>2. ASSUME f.complete, key.complete, purpose \in GetOperationFactory(key.d.algorithm, "software"),
               key.d.algorithm \in Asymmetric => digest \in key.d.digests
        PROVE  error(f) \in Fine
    <3>1. f = map_digests(0)
      BY <1>2, <2>2, CompleteMap
    <3> QED
      BY <1>0, <2>2, <3>1, BeginSucceeds, Zenon DEF Inv
  <2>3. /\ about(f).k = key /\ about(f).purpose = purpose /\ about(f).digest = digest
        /\ about(f).complete = f.complete
    OBVIOUS
  <2> HIDE DEF place, error, inHw, full, op, about
  <2>4. AuthorizedUseBegins'
    BY <2>1, <2>2, <2>3 DEF AuthorizedUseBegins, Fine
  <2> QED
    BY <2>1, <2>4, SMTT(20) DEF ResultInv, PassthroughKeysAreUsable, DescribedKeysAreMade, AttestedKeysAreAsymmetric,
                      WholeMessageComputed
<1> QED
  BY <1>0, <1>3, <1>4, <1>5, <1>6 DEF Inv

\* An operation ends: it leaves the table, the client and the hardware, and the others stay.
LEMMA EndOperation ==
    ASSUME OperationsInv, NoOperationLeaks, NEW h, End(h)
    PROVE  OperationsInv' /\ NoOperationLeaks'
<1>1. /\ DOMAIN table' = DOMAIN table \ {h} /\ \A x \in DOMAIN table' : table'[x] = table[x]
      /\ DOMAIN client' = DOMAIN client \ {h} /\ \A x \in DOMAIN client' : client'[x] = client[x]
      /\ DOMAIN hw' = DOMAIN hw \ {h} /\ \A x \in DOMAIN hw' : hw'[x] = hw[x]
  BY DEF End, Without
<1>2. ASSUME NEW x \in DOMAIN table'
      PROVE  OperationOK(x)'
  <2>1. OperationOK(x) /\ x # h
    BY <1>1 DEF OperationsInv
  <2> QED
    BY <1>1, <2>1, SMTT(20) DEF OperationOK, Same, OwnMaterial
<1> QED
  BY <1>1, <1>2 DEF OperationsInv, NoOperationLeaks

\* The hardware claims to have taken too much: its operation stays there, as an orphan.
LEMMA OrphanOperation ==
    ASSUME OperationsInv, NoOperationLeaks, NEW h \in DOMAIN hw,
           table' = Without(table, h), client' = Without(client, h), hw' = [hw EXCEPT ![h].orphan = TRUE]
    PROVE  OperationsInv' /\ NoOperationLeaks'
<1>1. /\ DOMAIN table' = DOMAIN table \ {h} /\ \A x \in DOMAIN table' : table'[x] = table[x]
      /\ DOMAIN client' = DOMAIN client \ {h} /\ \A x \in DOMAIN client' : client'[x] = client[x]
  BY DEF Without
<1>2. DOMAIN hw' = DOMAIN hw /\ \A x \in DOMAIN hw : x # h => hw'[x] = hw[x]
  OBVIOUS
<1>3. DOMAIN hw[h] = OperationFields
  BY DEF OperationsInv
<1>4. DOMAIN hw'[h] = OperationFields /\ hw'[h].orphan
  BY <1>3 DEF OperationFields
<1>5. ASSUME NEW x \in DOMAIN table'
      PROVE  OperationOK(x)'
  <2>1. OperationOK(x) /\ x # h
    BY <1>1 DEF OperationsInv
  <2> QED
    BY <1>1, <1>2, <2>1 DEF OperationOK, Same, OwnMaterial
<1> QED
  BY <1>1, <1>2, <1>4, <1>5 DEF OperationsInv, NoOperationLeaks

\* Feeding an operation changes its data and its associated data only.
LEMMA FedFields ==
    ASSUME NEW o, NEW blocks, NEW aad, DOMAIN o = OperationFields
    PROVE  /\ DOMAIN Fed(o, blocks, aad) = OperationFields
           /\ Fed(o, blocks, aad).k = o.k /\ Fed(o, blocks, aad).purpose = o.purpose
           /\ Fed(o, blocks, aad).digest = o.digest /\ Fed(o, blocks, aad).place = o.place
           /\ Fed(o, blocks, aad).orphan = o.orphan
           /\ Fed(o, blocks, aad).data = o.data \o blocks /\ Fed(o, blocks, aad).aad = o.aad + aad
  BY DEF Fed, OperationFields

\* Operations that agree agree after the same feed.
LEMMA FedSame ==
    ASSUME NEW o, NEW c, NEW blocks, NEW aad, DOMAIN o = OperationFields, DOMAIN c = OperationFields, Same(o, c)
    PROVE  Same(Fed(o, blocks, aad), Fed(c, blocks, aad))
<1> DEFINE fo == Fed(o, blocks, aad)
           fc == Fed(c, blocks, aad)
<1>1. /\ fo.k = o.k /\ fo.purpose = o.purpose /\ fo.digest = o.digest
      /\ fo.data = o.data \o blocks /\ fo.aad = o.aad + aad
  BY FedFields
<1>2. /\ fc.k = c.k /\ fc.purpose = c.purpose /\ fc.digest = c.digest
      /\ fc.data = c.data \o blocks /\ fc.aad = c.aad + aad
  BY FedFields
<1> HIDE DEF fo, fc
<1>3. Same(fo, fc)
  BY <1>1, <1>2 DEF Same
<1> QED
  BY <1>3 DEF fo, fc

\* An update feeds the same blocks to the table's operation, the client's and the hardware's.
LEMMA FeedOperation ==
    ASSUME OperationsInv, NoOperationLeaks, NEW h \in DOMAIN table, NEW blocks, NEW aad,
           aad \in Nat,
           hw' = IF InHardware(h) /\ table[h].place = "passthrough"
                 THEN [hw EXCEPT ![h] = Fed(hw[h], blocks, aad)] ELSE hw,
           table' = [table EXCEPT ![h] = Fed(table[h], blocks, aad)],
           client' = [client EXCEPT ![h] = Fed(client[h], blocks, aad)]
    PROVE  OperationsInv' /\ NoOperationLeaks'
<1>2. OperationOK(h)
  BY DEF OperationsInv
<1>3. /\ DOMAIN table' = DOMAIN table /\ table'[h] = Fed(table[h], blocks, aad)
      /\ DOMAIN client' = DOMAIN client /\ client'[h] = Fed(client[h], blocks, aad)
      /\ \A x \in DOMAIN table : x # h => table'[x] = table[x]
      /\ \A x \in DOMAIN client : x # h => client'[x] = client[x]
  BY <1>2 DEF OperationOK
<1>4. /\ DOMAIN hw' = DOMAIN hw /\ \A x \in DOMAIN hw : x # h => hw'[x] = hw[x]
      /\ h \in DOMAIN hw => hw'[h] \in {hw[h], Fed(hw[h], blocks, aad)}
      /\ table[h].place = "passthrough" => hw'[h] = Fed(hw[h], blocks, aad)
  BY <1>2 DEF InHardware, OperationOK
<1>5. OperationOK(h)'
  <2>1. DOMAIN table[h] = OperationFields /\ DOMAIN client[h] = OperationFields /\ Same(table[h], client[h])
        /\ client[h].aad \in Nat
    BY <1>2 DEF OperationOK
  <2>2. DOMAIN table'[h] = OperationFields /\ DOMAIN client'[h] = OperationFields /\ client'[h].aad \in Nat
    BY FedFields, <1>3, <2>1
  <2>3. Same(table'[h], client'[h])
    BY FedSame, <1>3, <2>1, SMTT(20)
  <2>4. OwnMaterial(table'[h])
    BY FedFields, <1>2, <1>3, <2>1 DEF OwnMaterial, OperationOK
  <2>5. ASSUME table'[h].place = "passthrough"
        PROVE  h \in DOMAIN hw' /\ Same(hw'[h], client'[h]) /\ hw'[h].place = "passthrough"
    <3>1. table[h].place = "passthrough"
      BY FedFields, <1>3, <2>1, <2>5
    <3>2. h \in DOMAIN hw /\ Same(hw[h], client[h]) /\ hw[h].place = "passthrough"
      BY <1>2, <3>1 DEF OperationOK
    <3>3. DOMAIN hw[h] = OperationFields
      BY <3>2 DEF OperationsInv
    <3> QED
      BY FedFields, FedSame, <1>3, <1>4, <2>1, <3>1, <3>2, <3>3
  <2> QED
    BY <1>2, <1>3, <2>2, <2>3, <2>4, <2>5 DEF OperationOK
<1>6. ASSUME NEW x \in DOMAIN table', x # h
      PROVE  OperationOK(x)'
  <2>1. OperationOK(x)
    BY <1>3 DEF OperationsInv
  <2> QED
    BY <1>3, <1>4, <1>6, <2>1 DEF OperationOK, Same, OwnMaterial
<1>7. ASSUME NEW x \in DOMAIN hw'
      PROVE  DOMAIN hw'[x] = OperationFields /\ (x \in DOMAIN table' \/ hw'[x].orphan)
  <2>1. x \in DOMAIN hw /\ DOMAIN hw[x] = OperationFields /\ (x \in DOMAIN table \/ hw[x].orphan)
    BY <1>4 DEF OperationsInv, NoOperationLeaks
  <2> QED
    BY FedFields, <1>3, <1>4, <2>1
<1> QED
  BY <1>5, <1>6, <1>7 DEF OperationsInv, NoOperationLeaks

\* What an operation computes when its last blocks have been fed to it.
LEMMA ComputesExpected ==
    ASSUME NEW o, NEW c, NEW blocks, NEW aad, DOMAIN o = OperationFields, Same(o, c), OwnMaterial(o)
    PROVE  /\ c.k.complete =>
                Computed(Fed(o, blocks, aad)) = Expected(c, blocks, aad)
<1> DEFINE fed == Fed(o, blocks, aad)
<1>1. /\ fed.k = o.k /\ fed.purpose = o.purpose /\ fed.digest = o.digest /\ fed.place = o.place
      /\ fed.data = o.data \o blocks /\ fed.aad = o.aad + aad
  BY FedFields
<1> HIDE DEF fed
<1>2. ASSUME c.k.complete
      PROVE  Computed(fed) = Expected(c, blocks, aad)
  <2>1. Material(fed) = c.k
    BY <1>1, <1>2 DEF Material, Same, OwnMaterial
  <2> QED
    BY <1>1, <2>1 DEF Computed, Expected, Same
<1> QED
  BY <1>2 DEF fed

\* update, finish and abort change operations only.
LEMMA OperationCalls ==
    ASSUME Inv, UNCHANGED <<device, version, factories, key>>, OperationsInv' /\ NoOperationLeaks', ResultInv'
    PROVE  Inv'
<1>1. FactoriesInv'
  BY SameDevice DEF Inv, FactoriesInv
<1>2. KeyInv'
  BY SameKey DEF Inv
<1> QED
  BY <1>1, <1>2 DEF Inv

\* update: what was fed, or an error of the hardware.
LEMMA UpdateInv ==
    ASSUME Inv, NEW h \in DOMAIN table, update(h)
    PROVE  Inv'
<1>1. PICK aad \in AadChoices(h), taken \in {0, 1} :
       \/ /\ hw' = IF InHardware(h) /\ table[h].place = "passthrough"
                   THEN [hw EXCEPT ![h] = Fed(hw[h], Blocks(h, taken), aad)] ELSE hw
          /\ table' = [table EXCEPT ![h] = Fed(table[h], Blocks(h, taken), aad)]
          /\ client' = [client EXCEPT ![h] = Fed(client[h], Blocks(h, taken), aad)]
          /\ result' = Answer("update", "OK", NoOp)
       \/ End(h) /\ result' = Answer("update", "HW_FAULT", NoOp)
  BY DEF update
<1>2. aad \in Nat
  BY DEF AadChoices
<1>3. OperationsInv' /\ NoOperationLeaks'
  BY <1>1, <1>2, FeedOperation, EndOperation DEF Inv
<1>4. ResultInv'
  BY <1>1, OtherAnswers
<1> QED
  BY <1>3, <1>4, OperationCalls DEF update

\* abort.
LEMMA AbortInv ==
    ASSUME Inv, NEW h \in DOMAIN table, abort(h)
    PROVE  Inv'
<1>1. OperationsInv' /\ NoOperationLeaks'
  BY EndOperation DEF Inv, abort
<1>2. ResultInv'
  BY OtherAnswers DEF abort
<1> QED
  BY <1>1, <1>2, OperationCalls DEF abort

\* A finish that answers OK computed what was expected.
LEMMA FinishAnswer ==
    ASSUME NEW k, NEW out, NEW expected, k.complete => out = expected,
           result' = Answer("finish", "OK", [k |-> k, out |-> out, expected |-> expected])
    PROVE  ResultInv'
<1>1. /\ result'.call = "finish" /\ result'.about.k = k
      /\ result'.about.out = out /\ result'.about.expected = expected
  BY DEF Answer
<1> QED
  BY <1>1 DEF ResultInv, PassthroughKeysAreUsable, AuthorizedUseBegins, DescribedKeysAreMade,
              AttestedKeysAreAsymmetric, WholeMessageComputed

\* finish of a passed operation, which the hardware ends, and of a wrapped or software one.
LEMMA FinishInv ==
    ASSUME Inv, NEW h \in DOMAIN table, finish(h)
    PROVE  Inv'
<1>1. PICK n \in 0..(MaxInput - Len(client[h].data)) :
        IF table[h].place = "passthrough"
        THEN \E aad \in AadChoices(h) : PassedFinish(h, n, aad)
        ELSE OwnFinish(h, n)
  BY DEF finish
<1>2. OperationOK(h) /\ DOMAIN table[h] = OperationFields /\ Same(table[h], client[h]) /\ OwnMaterial(table[h])
  BY DEF Inv, OperationsInv, OperationOK
<1>3. CASE table[h].place = "passthrough"
  <2>1. PICK aad \in AadChoices(h) : PassedFinish(h, n, aad)
    BY <1>1, <1>3
  <2>2. h \in DOMAIN hw /\ Same(hw[h], client[h]) /\ hw[h].place = "passthrough"
    BY <1>2, <1>3 DEF OperationOK
  <2>3. DOMAIN hw[h] = OperationFields /\ OwnMaterial(hw[h])
    BY <2>2, SMTT(20) DEF Inv, OperationsInv, OwnMaterial
  <2>4. ASSUME NEW turns, End(h),
               result' = Answer("finish", "OK",
                   [k |-> client[h].k, out |-> Computed(Fed(hw[h], Blocks(h, n), AadSent(aad, turns))),
                    expected |-> Expected(client[h], Blocks(h, n), aad)])
        PROVE  OperationsInv' /\ NoOperationLeaks' /\ ResultInv'
    <3>1. client[h].k.complete =>
            Computed(Fed(hw[h], Blocks(h, n), AadSent(aad, turns))) = Expected(client[h], Blocks(h, n), aad)
      BY <2>2, <2>3, ComputesExpected DEF AadSent
    <3>2. ResultInv'
      BY <2>4, <3>1, FinishAnswer, Zenon
    <3> QED
      BY <2>4, <3>2, EndOperation, SMTT(20) DEF Inv
  <2>5. ASSUME NEW error, error # "OK", End(h), result' = Answer("finish", error, NoOp)
        PROVE  OperationsInv' /\ NoOperationLeaks' /\ ResultInv'
    BY <2>5, EndOperation, OtherAnswers DEF Inv
  <2>6. ASSUME table' = Without(table, h), client' = Without(client, h), hw' = [hw EXCEPT ![h].orphan = TRUE],
               result' = Answer("finish", "UNKNOWN_ERROR", NoOp)
        PROVE  OperationsInv' /\ NoOperationLeaks' /\ ResultInv'
    BY <2>2, <2>6, OrphanOperation, OtherAnswers, Zenon DEF Inv
  <2>7. OperationsInv' /\ NoOperationLeaks' /\ ResultInv'
    BY <2>1, <2>4, <2>5, <2>6, Zenon DEF PassedFinish, Starve
  <2> QED
    BY <2>7, OperationCalls DEF finish
<1>4. CASE table[h].place # "passthrough"
  <2>1. OwnFinish(h, n)
    BY <1>1, <1>4
  <2>2. OperationsInv' /\ NoOperationLeaks'
    BY <2>1, EndOperation DEF Inv, OwnFinish
  <2>3. client[h].k.complete => Computed(Fed(table[h], Blocks(h, n), 0)) = Expected(client[h], Blocks(h, n), 0)
    BY <1>2, ComputesExpected
  <2>4. ResultInv'
    BY <2>1, <2>3, FinishAnswer, OtherAnswers, Zenon DEF OwnFinish
  <2> QED
    BY <2>2, <2>4, OperationCalls DEF finish
<1> QED
  BY <1>3, <1>4

-----------------------------------------------------------------------------

\* No factory, key or operation at first.
LEMMA InvInit == Init => Inv
<1> SUFFICES ASSUME Init PROVE Inv
  OBVIOUS
<1>1. DOMAIN hw = {} /\ DOMAIN table = {}
  BY DEF Init
<1>2. FactoriesInv
  BY DEF Init, FactoriesInv
<1> QED
  BY <1>1, <1>2 DEF Init, Inv, KeyInv, OperationsInv, NoOperationLeaks, ResultInv, PassthroughKeysAreUsable,
     AuthorizedUseBegins, DescribedKeysAreMade, AttestedKeysAreAsymmetric, WholeMessageComputed

\* Every call keeps the invariant.
LEMMA InvNext == Inv /\ [Next]_vars => Inv'
<1> SUFFICES ASSUME Inv, [Next]_vars PROVE Inv'
  OBVIOUS
<1>1. CASE \E d \in Descriptions : generateKey(d) \/ importKey(d)
  BY <1>1, NewKeyInv DEF generateKey, importKey
<1>2. CASE getKeyCharacteristics
  BY <1>2, LoadsInv DEF getKeyCharacteristics
<1>3. CASE exportKey
  BY <1>3, LoadsInv DEF exportKey
<1>4. CASE attestKey
  BY <1>4, LoadsInv DEF attestKey
<1>5. CASE upgradeKey
  BY <1>5, UpgradeInv
<1>6. CASE deleteKey \/ deleteAllKeys \/ Forget \/ addRngEntropy \/ Collect
  BY <1>6, QuietCallsInv
<1>7. CASE CreateKeymasterDevice
  BY <1>7, CreateInv
<1>8. CASE key # NONE /\ \E purpose \in key.d.purposes, digest \in DigestsFor(key.d.algorithm) : begin(purpose, digest)
  BY <1>8, BeginInv
<1>9. CASE \E h \in DOMAIN table : update(h) \/ finish(h) \/ abort(h)
  BY <1>9, UpdateInv, FinishInv, AbortInv
<1>10. CASE UNCHANGED vars
  <2>1. UNCHANGED <<device, version, factories, key>> /\ UNCHANGED ops /\ UNCHANGED result
    BY <1>10 DEF vars, ops
  <2>2. OperationsInv' /\ NoOperationLeaks'
    BY <2>1, SameOperations, SMTT(20) DEF Inv
  <2>3. ResultInv'
    BY <2>1 DEF Inv, ResultInv, PassthroughKeysAreUsable, AuthorizedUseBegins, DescribedKeysAreMade,
                AttestedKeysAreAsymmetric, WholeMessageComputed
  <2> QED
    BY <2>1, <2>2, <2>3, OperationCalls
<1> QED
  BY <1>1, <1>2, <1>3, <1>4, <1>5, <1>6, <1>7, <1>8, <1>9, <1>10 DEF Next

\* A key that was made while the hardware answered all queries begins an operation for each purpose
\* of its algorithm and each digest it was made for, wherever the arbitration of keymaster1 sends
\* it; keys whose curve and size agree are made; and attested keys are asymmetric keys.
THEOREM KeysAreUsable == Spec => []PassthroughKeysAreUsable
<1>1. Inv => PassthroughKeysAreUsable
  BY DEF Inv, ResultInv
<1> QED
  BY InvInit, InvNext, <1>1, PTL DEF Spec

\* A finish that succeeds has computed what was asked over the whole message, with the key's own
\* material; and an operation that is open in the hardware can be ended, with two exceptions.
THEOREM OperationsAreWhole == Spec => []PassthroughOperationsAreWhole
<1>1. Inv => PassthroughOperationsAreWhole
  BY DEF Inv, ResultInv, PassthroughOperationsAreWhole
<1> QED
  BY InvInit, InvNext, <1>1, PTL DEF Spec
=============================================================================
