--------------------------- MODULE KeyBlobsProofs ---------------------------
(***************************************************************************)
(* Proofs about KeyBlobs, for any number of blobs, slots, authorization    *)
(* lists and hidden authorizations: what a parse accepts is a key as it    *)
(* was made, an intact blob is read back, and a blob whose secrets are     *)
(* destroyed is never decrypted again.                                     *)
(***************************************************************************)
EXTENDS KeyBlobs, SequenceTheorems, TLAPS

-----------------------------------------------------------------------------
(* The inductive invariant. *)

IsSeq(s) == Len(s) \in Nat /\ s = [i \in 1..Len(s) |-> s[i]]

\* The blob of a record of "made".
BlobOf(b) ==
    IF b.format = OLD THEN OldBlob(b.material, b.algorithm)
    ELSE IF b.format = INTEGRITY THEN SerializeIntegrityAssuredBlob(b.material, b.hidden, b.hw, b.sw)
    ELSE SerializeAuthEncryptedBlob(b.format,
            EncryptKey(b.material, b.format, b.hw, b.sw, b.hidden, b.data, MASTER_KEY, b.material),
            0, b.hw, b.sw, b.data.slot)

\* The secure deletion data of a blob: none, or secrets given out before "fresh".
DataWith(c, fresh, d) ==
    IF c = "soft" THEN d.reset = NoSecret /\ d.secret = NoSecret /\ d.slot = 0
    ELSE /\ d.reset \in Nat /\ d.reset < fresh
         /\ d.secret \in Nat /\ d.secret < fresh
         /\ d.slot \in Slots \cup {0}
         /\ IF d.slot = 0 THEN d.secret = NoSecret ELSE d.secret # NoSecret

\* The n-th blob made: all that went into it, and the blob that comes of that.
MadeWith(c, fresh, n, b) ==
    /\ b.material = n
    /\ b.format \in AuthEncryptedBlobFormat \/ (c = "soft" /\ b.format \in {INTEGRITY, OLD})
    /\ b.format = OLD => b.hw = "" /\ b.sw = DEFAULTS
    /\ b.blob = BlobOf(b)
    /\ DataWith(c, fresh, b.data)
MadeOK(n, b) == MadeWith(context, storage.fresh, n, b)

StorageOK ==
    /\ storage = [reset |-> storage.reset, slots |-> storage.slots, fresh |-> storage.fresh]
    /\ storage.reset \in Nat /\ storage.fresh \in Nat
    /\ storage.reset < storage.fresh /\ 0 < storage.fresh
    /\ storage.slots \in [Slots -> Nat]
    /\ \A s \in Slots : storage.slots[s] < storage.fresh

MadeInv ==
    /\ IsSeq(made) /\ Len(made) <= MaxBlobs
    /\ \A n \in DOMAIN made : MadeOK(n, made[n])

Inv ==
    /\ context \in {"soft", "storage"}
    /\ StorageOK
    /\ MadeInv
    /\ ParsedAsMade

-----------------------------------------------------------------------------
(* Sequences. *)

\* A sequence, and its elements.
LEMMA SeqOver ==
    ASSUME NEW s, IsSeq(s), NEW S, \A i \in 1..Len(s) : s[i] \in S
    PROVE  s \in Seq(S) /\ DOMAIN s = 1..Len(s)
BY DEF IsSeq

\* What Append makes of a sequence.
LEMMA AppendSeq ==
    ASSUME NEW s, IsSeq(s), NEW e
    PROVE  /\ IsSeq(Append(s, e)) /\ Len(Append(s, e)) = Len(s) + 1
           /\ DOMAIN Append(s, e) = 1..(Len(s) + 1)
           /\ \A i \in 1..Len(s) : Append(s, e)[i] = s[i]
           /\ Append(s, e)[Len(s) + 1] = e
<1> DEFINE S == {s[i] : i \in 1..Len(s)} \cup {e}
           t == Append(s, e)
<1>1. Len(s) \in Nat
  BY DEF IsSeq
<1>2. s \in Seq(S)
  BY SeqOver
<1>3. t \in Seq(S) /\ Len(t) = Len(s) + 1 /\ (\A i \in 1..Len(s) : t[i] = s[i]) /\ t[Len(s) + 1] = e
  BY <1>1, <1>2, AppendProperties, e \in S
<1> HIDE DEF S, t
<1>4. t = [i \in 1..Len(t) |-> t[i]] /\ DOMAIN t = 1..Len(t)
  BY <1>3, LenProperties
<1> QED
  BY <1>1, <1>3, <1>4 DEF IsSeq, t

\* The same for four elements and a fifth.
LEMMA FiveSeq ==
    ASSUME NEW s, IsSeq(s), Len(s) = 4, NEW e
    PROVE  /\ IsSeq(Append(s, e)) /\ Len(Append(s, e)) = 5
           /\ \A i \in 1..4 : Append(s, e)[i] = s[i]
           /\ Append(s, e)[5] = e
<1>1. /\ IsSeq(Append(s, e)) /\ Len(Append(s, e)) = Len(s) + 1
      /\ \A i \in 1..Len(s) : Append(s, e)[i] = s[i]
      /\ Append(s, e)[Len(s) + 1] = e
  BY ONLY IsSeq(s), AppendSeq
<1>2. Len(s) + 1 = 5
  OBVIOUS
<1> QED
  BY <1>1, <1>2, Zenon

\* A sequence without its last element.
LEMMA FrontSeq ==
    ASSUME NEW s, IsSeq(s), Len(s) > 0
    PROVE  LET t == SubSeq(s, 1, Len(s) - 1)
           IN  /\ IsSeq(t) /\ Len(t) = Len(s) - 1
               /\ \A i \in 1..(Len(s) - 1) : t[i] = s[i]
<1> DEFINE S == {s[i] : i \in 1..Len(s)}
           t == SubSeq(s, 1, Len(s) - 1)
           m == Len(s) - 1
<1>1. Len(s) \in Nat /\ m \in Nat
  BY DEF IsSeq
<1>2. \A i \in 1..m : s[i] \in S
  BY <1>1
<1> HIDE DEF S, m
<1>3. SubSeq(s, 1, m) \in Seq(S) /\ Len(SubSeq(s, 1, m)) = m
  BY <1>1, <1>2, SubSeqProperties
<1>4. \A i \in 1..m : SubSeq(s, 1, m)[i] = s[i]
  BY <1>1, <1>2, SubSeqProperties
<1>5. IsSeq(SubSeq(s, 1, m))
  BY <1>1, <1>3 DEF IsSeq
<1> QED
  BY <1>3, <1>4, <1>5 DEF m

\* A sequence with one element replaced.
LEMMA ReplacedSeq ==
    ASSUME NEW s, IsSeq(s), NEW k \in 1..Len(s), NEW x
    PROVE  LET t == [s EXCEPT ![k] = x]
           IN  /\ IsSeq(t) /\ Len(t) = Len(s)
               /\ \A i \in 1..Len(s) : t[i] = IF i = k THEN x ELSE s[i]
<1> DEFINE S == {s[i] : i \in 1..Len(s)} \cup {x}
           t == [s EXCEPT ![k] = x]
<1>1. s \in Seq(S) /\ DOMAIN s = 1..Len(s) /\ Len(s) \in Nat
  BY SeqOver DEF IsSeq
<1>2. t \in Seq(S) /\ Len(t) = Len(s)
  BY <1>1, ExceptSeq, x \in S
<1>3. \A i \in 1..Len(s) : t[i] = IF i = k THEN x ELSE s[i]
  BY <1>1
<1> QED
  BY <1>1, <1>2, <1>3, Zenon DEF IsSeq

\* Tuples put together, of six fields.
LEMMA SixFields ==
    ASSUME NEW a, NEW b, NEW c, NEW d, NEW e, NEW f
    PROVE  <<a, b, c, d>> \o <<e, f>> = <<a, b, c, d, e, f>>
<1> DEFINE S == {a, b, c, d, e, f}
           s == <<a, b, c, d>>
           t == <<e, f>>
           u == <<a, b, c, d, e, f>>
<1>1. s \in Seq(S) /\ t \in Seq(S) /\ u \in Seq(S) /\ Len(s) = 4 /\ Len(t) = 2 /\ Len(u) = 6
  OBVIOUS
<1>2. \A k \in 1..6 : u[k] = IF k <= 4 THEN s[k] ELSE t[k - 4]
  OBVIOUS
<1> HIDE DEF S, s, t, u
<1>3. /\ s \o t \in Seq(S) /\ Len(s \o t) = Len(s) + Len(t)
      /\ \A k \in 1..(Len(s) + Len(t)) : (s \o t)[k] = IF k <= Len(s) THEN s[k] ELSE t[k - Len(s)]
  BY <1>1, ConcatProperties, Zenon
<1>4. Len(s \o t) = Len(u) /\ \A k \in 1..Len(s \o t) : (s \o t)[k] = u[k]
  BY <1>1, <1>2, <1>3
<1>5. s \o t = u
  BY <1>1, <1>3, <1>4, SeqEqual, Zenon
<1> QED
  BY <1>5 DEF s, t, u

\* Tuples put together, of seven fields.
LEMMA SevenFields ==
    ASSUME NEW a, NEW b, NEW c, NEW d, NEW e, NEW f, NEW g
    PROVE  <<a, b, c, d, e, f>> \o <<g>> = <<a, b, c, d, e, f, g>>
<1> DEFINE S == {a, b, c, d, e, f, g}
           s == <<a, b, c, d, e, f>>
           t == <<g>>
           u == <<a, b, c, d, e, f, g>>
<1>1. s \in Seq(S) /\ t \in Seq(S) /\ u \in Seq(S) /\ Len(s) = 6 /\ Len(t) = 1 /\ Len(u) = 7
  OBVIOUS
<1>2. \A k \in 1..7 : u[k] = IF k <= 6 THEN s[k] ELSE t[k - 6]
  OBVIOUS
<1> HIDE DEF S, s, t, u
<1>3. /\ s \o t \in Seq(S) /\ Len(s \o t) = Len(s) + Len(t)
      /\ \A k \in 1..(Len(s) + Len(t)) : (s \o t)[k] = IF k <= Len(s) THEN s[k] ELSE t[k - Len(s)]
  BY <1>1, ConcatProperties, Zenon
<1>4. Len(s \o t) = Len(u) /\ \A k \in 1..Len(s \o t) : (s \o t)[k] = u[k]
  BY <1>1, <1>2, <1>3
<1>5. s \o t = u
  BY <1>1, <1>3, <1>4, SeqEqual, Zenon
<1> QED
  BY <1>5 DEF s, t, u

\* Tuples put together, of eight fields.
LEMMA EightFields ==
    ASSUME NEW a, NEW b, NEW c, NEW d, NEW e, NEW f, NEW g, NEW h
    PROVE  <<a, b, c, d, e, f>> \o <<g, h>> = <<a, b, c, d, e, f, g, h>>
<1> DEFINE S == {a, b, c, d, e, f, g, h}
           s == <<a, b, c, d, e, f>>
           t == <<g, h>>
           u == <<a, b, c, d, e, f, g, h>>
<1>1. s \in Seq(S) /\ t \in Seq(S) /\ u \in Seq(S) /\ Len(s) = 6 /\ Len(t) = 2 /\ Len(u) = 8
  OBVIOUS
<1>2. \A k \in 1..8 : u[k] = IF k <= 6 THEN s[k] ELSE t[k - 6]
  OBVIOUS
<1> HIDE DEF S, s, t, u
<1>3. /\ s \o t \in Seq(S) /\ Len(s \o t) = Len(s) + Len(t)
      /\ \A k \in 1..(Len(s) + Len(t)) : (s \o t)[k] = IF k <= Len(s) THEN s[k] ELSE t[k - Len(s)]
  BY <1>1, ConcatProperties, Zenon
<1>4. Len(s \o t) = Len(u) /\ \A k \in 1..Len(s \o t) : (s \o t)[k] = u[k]
  BY <1>1, <1>2, <1>3, SMTT(20)
<1>5. s \o t = u
  BY <1>1, <1>3, <1>4, SeqEqual, Zenon
<1> QED
  BY <1>5 DEF s, t, u

\* Tuples put together, of nine fields.
LEMMA NineFields ==
    ASSUME NEW a, NEW b, NEW c, NEW d, NEW e, NEW f, NEW g, NEW h, NEW i
    PROVE  <<a, b, c, d, e, f, g, h>> \o <<i>> = <<a, b, c, d, e, f, g, h, i>>
<1> DEFINE S == {a, b, c, d, e, f, g, h, i}
           s == <<a, b, c, d, e, f, g, h>>
           t == <<i>>
           u == <<a, b, c, d, e, f, g, h, i>>
<1>1. s \in Seq(S) /\ t \in Seq(S) /\ u \in Seq(S) /\ Len(s) = 8 /\ Len(t) = 1 /\ Len(u) = 9
  OBVIOUS
<1>2. \A k \in 1..9 : u[k] = IF k <= 8 THEN s[k] ELSE t[k - 8]
  OBVIOUS
<1> HIDE DEF S, s, t, u
<1>3. /\ s \o t \in Seq(S) /\ Len(s \o t) = Len(s) + Len(t)
      /\ \A k \in 1..(Len(s) + Len(t)) : (s \o t)[k] = IF k <= Len(s) THEN s[k] ELSE t[k - Len(s)]
  BY <1>1, ConcatProperties, Zenon
<1>4. Len(s \o t) = Len(u) /\ \A k \in 1..Len(s \o t) : (s \o t)[k] = u[k]
  BY <1>1, <1>2, <1>3, SMTT(20)
<1>5. s \o t = u
  BY <1>1, <1>3, <1>4, SeqEqual, Zenon
<1> QED
  BY <1>5 DEF s, t, u

\* The fields of an encrypted blob, format by format.
LEMMA LaidOut ==
    ASSUME NEW f \in AuthEncryptedBlobFormat, NEW a, NEW b, NEW c, NEW d, NEW v, NEW w, NEW l, NEW m, NEW z
    PROVE  LET s == Layout(f, <<a, b, c, d>>, <<v, w>>, <<l, m>>, z)
           IN  /\ f \in {0, 1} => s = <<a, b, c, d, l, m>>
               /\ f = 2 => s = <<a, b, c, d, l, m, z>>
               /\ f = 3 => s = <<a, b, c, d, v, w, l, m>>
               /\ f = 4 => s = <<a, b, c, d, v, w, l, m, z>>
<1> USE DEF isVersionedFormat, requiresSecureDeletion, AuthEncryptedBlobFormat, AES_OCB, AES_GCM_WITH_SW_ENFORCED,
       AES_GCM_WITH_SECURE_DELETION, AES_GCM_WITH_SW_ENFORCED_VERSIONED, AES_GCM_WITH_SECURE_DELETION_VERSIONED
<1> DEFINE s == Layout(f, <<a, b, c, d>>, <<v, w>>, <<l, m>>, z)
           head == <<a, b, c, d>>
<1>1. s = ((head \o (IF f \in {3, 4} THEN <<v, w>> ELSE <<>>)) \o <<l, m>>) \o (IF f \in {2, 4} THEN <<z>> ELSE <<>>)
  BY DEF Layout
<1> HIDE DEF s
<1> DEFINE six == <<a, b, c, d, l, m>>
           versioned == <<a, b, c, d, v, w>>
           eight == <<a, b, c, d, v, w, l, m>>
<1>2. head \o <<>> = head /\ six \o <<>> = six /\ eight \o <<>> = eight
  OBVIOUS
<1>3. head \o <<l, m>> = six /\ head \o <<v, w>> = versioned
  BY SixFields
<1>4. six \o <<z>> = <<a, b, c, d, l, m, z>>
  BY SevenFields
<1>5. versioned \o <<l, m>> = eight
  BY EightFields
<1>6. eight \o <<z>> = <<a, b, c, d, v, w, l, m, z>>
  BY NineFields
<1> HIDE DEF head, six, versioned, eight
<1>7. f \in {0, 1} => s = six
  <2>0. f \in {0, 1} => f \notin {3, 4} /\ f \notin {2, 4}
    OBVIOUS
  <2>1. f \in {0, 1} => s = ((head \o <<>>) \o <<l, m>>) \o <<>>
    BY <1>1, <2>0, Zenon
  <2> QED
    BY <2>1, <1>2, <1>3, Zenon
<1>8. f = 2 => s = <<a, b, c, d, l, m, z>>
  <2>1. f = 2 => s = ((head \o <<>>) \o <<l, m>>) \o <<z>>
    BY <1>1
  <2> QED
    BY <2>1, <1>2, <1>3, <1>4, Zenon
<1>9. f = 3 => s = eight
  BY <1>1, <1>2, <1>3, <1>5
<1>10. f = 4 => s = <<a, b, c, d, v, w, l, m, z>>
  BY <1>1, <1>2, <1>3, <1>5, <1>6, Zenon
<1> QED
  BY <1>7, <1>8, <1>9, <1>10 DEF s, six, eight

\* Where the lists are in a format, and how many fields it has.
ListsAt(f) == IF isVersionedFormat(f) THEN 6 ELSE 4
SizeOf(f) == ListsAt(f) + 2 + (IF requiresSecureDeletion(f) THEN 1 ELSE 0)

\* The sizes of the formats.
LEMMA FormatSizes ==
    ASSUME NEW f
    PROVE  /\ isVersionedFormat(f) => ListsAt(f) = 6
           /\ ~isVersionedFormat(f) => ListsAt(f) = 4
           /\ requiresSecureDeletion(f) => SizeOf(f) = ListsAt(f) + 3
           /\ ~requiresSecureDeletion(f) => SizeOf(f) = ListsAt(f) + 2
           /\ ListsAt(f) \in {4, 6} /\ SizeOf(f) \in Nat /\ SizeOf(f) >= 6
<1>1. ListsAt(f) \in {4, 6} /\ (isVersionedFormat(f) => ListsAt(f) = 6) /\ (~isVersionedFormat(f) => ListsAt(f) = 4)
  BY DEF ListsAt
<1>2. /\ requiresSecureDeletion(f) => SizeOf(f) = ListsAt(f) + 3
      /\ ~requiresSecureDeletion(f) => SizeOf(f) = ListsAt(f) + 2
  BY <1>1 DEF SizeOf
<1> QED
  BY <1>1, <1>2

\* s is laid out in format f, with these fields.
LaidAs(s, f, a, b, c, d, v, w, l, m, z) ==
    /\ IsSeq(s) /\ Len(s) = SizeOf(f)
    /\ s[1] = a /\ s[2] = b /\ s[3] = c /\ s[4] = d
    /\ isVersionedFormat(f) => s[5] = v /\ s[6] = w
    /\ s[ListsAt(f) + 1] = l /\ s[ListsAt(f) + 2] = m
    /\ requiresSecureDeletion(f) => s[Len(s)] = z

\* The fields of a format, field by field.
LEMMA LayoutFields ==
    ASSUME NEW f \in AuthEncryptedBlobFormat, NEW a, NEW b, NEW c, NEW d, NEW v, NEW w, NEW l, NEW m, NEW z
    PROVE  LaidAs(Layout(f, <<a, b, c, d>>, <<v, w>>, <<l, m>>, z), f, a, b, c, d, v, w, l, m, z)
<1> DEFINE s == Layout(f, <<a, b, c, d>>, <<v, w>>, <<l, m>>, z)
<1> SUFFICES LaidAs(s, f, a, b, c, d, v, w, l, m, z)
  OBVIOUS
<1> USE DEF isVersionedFormat, requiresSecureDeletion, AuthEncryptedBlobFormat, AES_OCB, AES_GCM_WITH_SW_ENFORCED,
       AES_GCM_WITH_SECURE_DELETION, AES_GCM_WITH_SW_ENFORCED_VERSIONED, AES_GCM_WITH_SECURE_DELETION_VERSIONED
<1>1. CASE f \in {0, 1}
  <2>1. s = <<a, b, c, d, l, m>>
    BY <1>1, LaidOut
  <2> HIDE DEF s
  <2>2. /\ Len(s) = 6 /\ IsSeq(s)
        /\ s[1] = a /\ s[2] = b /\ s[3] = c /\ s[4] = d /\ s[5] = l /\ s[6] = m
    BY <2>1 DEF IsSeq
  <2>3. ~isVersionedFormat(f) /\ ~requiresSecureDeletion(f)
    BY <1>1
  <2>4. ListsAt(f) = 4 /\ SizeOf(f) = 6
    BY <2>3, FormatSizes
  <2> HIDE DEF isVersionedFormat, requiresSecureDeletion
  <2> QED
    BY <2>2, <2>3, <2>4, SMTT(20) DEF LaidAs
<1>2. CASE f = 2
  <2>1. s = <<a, b, c, d, l, m, z>>
    BY <1>2, LaidOut
  <2> HIDE DEF s
  <2>2. /\ Len(s) = 7 /\ IsSeq(s)
        /\ s[1] = a /\ s[2] = b /\ s[3] = c /\ s[4] = d /\ s[5] = l /\ s[6] = m /\ s[7] = z
    BY <2>1 DEF IsSeq
  <2>3. ~isVersionedFormat(f) /\ requiresSecureDeletion(f)
    BY <1>2
  <2>4. ListsAt(f) = 4 /\ SizeOf(f) = 7
    BY <2>3, FormatSizes
  <2> HIDE DEF isVersionedFormat, requiresSecureDeletion
  <2> QED
    BY <2>2, <2>3, <2>4, SMTT(20) DEF LaidAs
<1>3. CASE f = 3
  <2>1. s = <<a, b, c, d, v, w, l, m>>
    BY <1>3, LaidOut
  <2> HIDE DEF s
  <2>2. /\ Len(s) = 8 /\ IsSeq(s)
        /\ s[1] = a /\ s[2] = b /\ s[3] = c /\ s[4] = d /\ s[5] = v /\ s[6] = w /\ s[7] = l /\ s[8] = m
    BY <2>1 DEF IsSeq
  <2>3. isVersionedFormat(f) /\ ~requiresSecureDeletion(f)
    BY <1>3
  <2>4. ListsAt(f) = 6 /\ SizeOf(f) = 8
    BY <2>3, FormatSizes
  <2> HIDE DEF isVersionedFormat, requiresSecureDeletion
  <2> QED
    BY <2>2, <2>3, <2>4, SMTT(20) DEF LaidAs
<1>4. CASE f = 4
  <2>1. s = <<a, b, c, d, v, w, l, m, z>>
    BY <1>4, LaidOut
  <2> HIDE DEF s
  <2>2. /\ Len(s) = 9 /\ IsSeq(s)
        /\ s[1] = a /\ s[2] = b /\ s[3] = c /\ s[4] = d /\ s[5] = v /\ s[6] = w /\ s[7] = l /\ s[8] = m /\ s[9] = z
    BY <2>1 DEF IsSeq
  <2>3. isVersionedFormat(f) /\ requiresSecureDeletion(f)
    BY <1>4
  <2>4. ListsAt(f) = 6 /\ SizeOf(f) = 9
    BY <2>3, FormatSizes
  <2> HIDE DEF isVersionedFormat, requiresSecureDeletion
  <2> QED
    BY <2>2, <2>3, <2>4, SMTT(20) DEF LaidAs
<1> QED
  BY <1>1, <1>2, <1>3, <1>4

-----------------------------------------------------------------------------
(* The fields of the blobs that were made. *)

\* What the mac of an integrity-assured blob covers.
Covered(b) == <<Byte(BLOB_VERSION), Field("bytes", <<"material", b.material>>), ListField(b.hw), ListField(b.sw)>>
\* The key that encrypts the key of an encrypted blob.
KekOf(b) == Kek(b.format, b.hw, b.sw, b.hidden, b.data, MASTER_KEY)
\* A field that only the blob of record b has: a mac or a tag.
OwnField(b, x) ==
    /\ x.kind = "mac" => b.format = INTEGRITY /\ x = ComputeHmac(Covered(b), b.hidden)
    /\ x.kind = "tag" => b.format \in AuthEncryptedBlobFormat /\ x = Seal(KekOf(b), b.material, b.material).tag

\* The fields of the blob of an old device.
LEMMA OldFields ==
    ASSUME NEW b, b.format = OLD, b.blob = BlobOf(b)
    PROVE  /\ IsSeq(b.blob) /\ Len(b.blob) = 4
           /\ \A i \in 1..Len(b.blob) : OwnField(b, b.blob[i])
<1>1. b.blob = OldBlob(b.material, b.algorithm)
  BY DEF BlobOf
<1>2. IsSeq(b.blob) /\ Len(b.blob) = 4
  BY <1>1 DEF OldBlob, IsSeq
<1>3. b.blob[1].kind = "magic" /\ b.blob[2].kind = "word" /\ b.blob[3].kind = "bytes" /\ b.blob[4].kind = "bytes"
  BY <1>1 DEF OldBlob, Field
<1>4. \A i \in 1..4 : b.blob[i].kind # "mac" /\ b.blob[i].kind # "tag"
  BY <1>3
<1> QED
  BY <1>2, <1>4 DEF OwnField

\* The fields of an integrity-assured blob.
LEMMA AssuredFields ==
    ASSUME NEW b, b.format = INTEGRITY, b.blob = BlobOf(b)
    PROVE  /\ IsSeq(b.blob) /\ Len(b.blob) = 5
           /\ \A i \in 1..4 : b.blob[i] = Covered(b)[i]
           /\ b.blob[5] = ComputeHmac(Covered(b), b.hidden)
           /\ \A i \in 1..Len(b.blob) : OwnField(b, b.blob[i])
<1> DEFINE c == Covered(b)
           h == ComputeHmac(c, b.hidden)
<1>1. b.blob = Append(c, h)
  BY DEF BlobOf, INTEGRITY, OLD, SerializeIntegrityAssuredBlob, Covered
<1>2. IsSeq(c) /\ Len(c) = 4
  BY DEF Covered, IsSeq
<1>3. c[1].kind = "byte" /\ c[2].kind = "bytes" /\ c[3].kind = "list" /\ c[4].kind = "list"
  BY DEF Covered, Byte, ListField, Field
<1> HIDE DEF c, h
<1>4. IsSeq(b.blob) /\ Len(b.blob) = 5 /\ (\A i \in 1..4 : b.blob[i] = c[i]) /\ b.blob[5] = h
  BY <1>1, <1>2, FiveSeq
<1>5. \A i \in 1..4 : b.blob[i].kind # "mac" /\ b.blob[i].kind # "tag"
  BY <1>3, <1>4
<1>6. h.kind = "mac"
  BY DEF h, ComputeHmac, Field
<1>7. \A i \in 1..5 : OwnField(b, b.blob[i])
  BY <1>4, <1>5, <1>6 DEF OwnField, c, h
<1> QED
  BY <1>4, <1>7 DEF c, h

\* The fields of an encrypted blob: a format byte, what EncryptKey made, two words
\* in a versioned format, the lists, and a slot in a format with secure deletion.
LEMMA EncryptedFields ==
    ASSUME NEW f \in AuthEncryptedBlobFormat, NEW e, NEW v, NEW hw, NEW sw, NEW slot
    PROVE  LaidAs(SerializeAuthEncryptedBlob(f, e, v, hw, sw, slot), f, Byte(f), e.nonce, e.ciphertext, e.tag,
                  Word(v), Word(0), ListField(hw), ListField(sw), Word(slot))
BY LayoutFields, Zenon DEF SerializeAuthEncryptedBlob

\* The kinds that each format expects.
LEMMA KindsFields ==
    ASSUME NEW f \in AuthEncryptedBlobFormat
    PROVE  /\ LaidAs(Kinds(f), f, "byte", "nonce", "bytes", "tag", "word", "word", "list", "list", "word")
           /\ Len(Kinds(f)) \in Nat /\ Len(Kinds(f)) >= 4
<1>1. LaidAs(Kinds(f), f, "byte", "nonce", "bytes", "tag", "word", "word", "list", "list", "word")
  BY LayoutFields, Zenon DEF Kinds
<1>2. Len(Kinds(f)) = SizeOf(f)
  BY <1>1, Zenon DEF LaidAs
<1> QED
  BY <1>1, <1>2, FormatSizes

\* Kinds of the fields of an encrypted blob.
LEMMA EncryptedKinds ==
    ASSUME NEW f \in AuthEncryptedBlobFormat, NEW kek, NEW nonce, NEW m, NEW v, NEW hw, NEW sw, NEW slot
    PROVE  LET s == SerializeAuthEncryptedBlob(f, Seal(kek, nonce, m), v, hw, sw, slot)
           IN  /\ s[1].kind = "byte" /\ s[2].kind = "nonce" /\ s[3].kind = "bytes" /\ s[4].kind = "tag"
               /\ \A i \in 5..Len(s) : s[i].kind \in {"word", "list"}
<1> DEFINE e == Seal(kek, nonce, m)
           s == SerializeAuthEncryptedBlob(f, e, v, hw, sw, slot)
<1>0. LaidAs(s, f, Byte(f), e.nonce, e.ciphertext, e.tag, Word(v), Word(0), ListField(hw), ListField(sw), Word(slot))
  BY EncryptedFields, Zenon
<1> HIDE DEF s, e
<1>1. /\ Len(s) = SizeOf(f)
      /\ s[1] = Byte(f) /\ s[2] = e.nonce /\ s[3] = e.ciphertext /\ s[4] = e.tag
      /\ isVersionedFormat(f) => s[5] = Word(v) /\ s[6] = Word(0)
      /\ s[ListsAt(f) + 1] = ListField(hw) /\ s[ListsAt(f) + 2] = ListField(sw)
      /\ requiresSecureDeletion(f) => s[Len(s)] = Word(slot)
  BY <1>0, Zenon DEF LaidAs
<1>2. s[1].kind = "byte" /\ s[2].kind = "nonce" /\ s[3].kind = "bytes" /\ s[4].kind = "tag"
  BY <1>1 DEF Seal, Byte, Field, e
<1>3. \A x : Word(x).kind = "word" /\ ListField(x).kind = "list"
  BY DEF Word, ListField, Field
<1>4. \A i \in 5..Len(s) : s[i].kind \in {"word", "list"}
  BY <1>1, <1>3, FormatSizes
<1> QED
  BY <1>2, <1>4 DEF s, e

\* The fields of every blob that was made.
LEMMA MadeBlobs ==
    ASSUME NEW n, NEW b, MadeOK(n, b)
    PROVE  /\ IsSeq(b.blob) /\ Len(b.blob) >= 4
           /\ \A i \in 1..Len(b.blob) : OwnField(b, b.blob[i])
<1>0. b.blob = BlobOf(b)
  BY Zenon DEF MadeOK, MadeWith
<1>1. CASE b.format = OLD
  <2>1. IsSeq(b.blob) /\ Len(b.blob) = 4 /\ \A i \in 1..Len(b.blob) : OwnField(b, b.blob[i])
    BY <1>0, <1>1, OldFields, Zenon
  <2> QED
    BY <2>1
<1>2. CASE b.format = INTEGRITY
  <2>1. IsSeq(b.blob) /\ Len(b.blob) = 5 /\ \A i \in 1..Len(b.blob) : OwnField(b, b.blob[i])
    BY <1>0, <1>2, AssuredFields, Zenon
  <2> QED
    BY <2>1
<1>3. CASE b.format \in AuthEncryptedBlobFormat
  <2> DEFINE e == Seal(KekOf(b), b.material, b.material)
             s == SerializeAuthEncryptedBlob(b.format, e, 0, b.hw, b.sw, b.data.slot)
  <2>1. b.format # OLD /\ b.format # INTEGRITY
    BY <1>3 DEF AuthEncryptedBlobFormat, OLD, INTEGRITY, AES_OCB, AES_GCM_WITH_SECURE_DELETION_VERSIONED
  <2>2. b.blob = s
    BY <1>0, <2>1 DEF BlobOf, EncryptKey, KekOf
  <2>3. IsSeq(s) /\ Len(s) \in 6..9 /\ s[4] = e.tag
    <3> HIDE DEF e
    <3>0. LaidAs(s, b.format, Byte(b.format), e.nonce, e.ciphertext, e.tag, Word(0), Word(0),
                 ListField(b.hw), ListField(b.sw), Word(b.data.slot))
      BY <1>3, EncryptedFields, Zenon
    <3> HIDE DEF s
    <3>1. IsSeq(s) /\ s[4] = e.tag /\ Len(s) = SizeOf(b.format)
      BY <3>0, Zenon DEF LaidAs
    <3>2. Len(s) \in 6..9
      BY <3>1, FormatSizes
    <3> QED
      BY <3>1, <3>2
  <2>4. /\ s[1].kind = "byte" /\ s[2].kind = "nonce" /\ s[3].kind = "bytes" /\ s[4].kind = "tag"
        /\ \A i \in 5..Len(s) : s[i].kind \in {"word", "list"}
    BY <1>3, EncryptedKinds
  <2> HIDE DEF e, s
  <2>5. \A i \in 1..Len(s) : s[i].kind # "mac" /\ (s[i].kind = "tag" => i = 4)
    BY <2>3, <2>4
  <2>6. \A i \in 1..Len(s) : OwnField(b, s[i])
    BY <1>3, <2>3, <2>5 DEF OwnField, e
  <2> QED
    BY <2>2, <2>3, <2>6
<1> QED
  BY <1>1, <1>2, <1>3, Zenon DEF MadeOK, MadeWith

\* A mac or a tag of a blob that is delivered is that of a blob that was made.
Authentic(blob) ==
    /\ IsSeq(blob) /\ Len(blob) >= 3
    /\ \A i \in 1..Len(blob) : blob[i].kind \in {"mac", "tag"} =>
           \E n \in DOMAIN made : OwnField(made[n], blob[i])

\* Whatever became of a blob between two calls, its mac and its tag are of blobs that were made.
LEMMA DeliveredIsAuthentic ==
    ASSUME MadeInv, NEW n \in DOMAIN made, NEW blob \in Delivered(made[n])
    PROVE  Authentic(blob)
<1> DEFINE b == made[n]
           s == b.blob
<1>1. MadeOK(n, b)
  BY DEF MadeInv
<1>2. IsSeq(s) /\ Len(s) >= 4 /\ Len(s) \in Nat /\ DOMAIN s = 1..Len(s)
  BY <1>1, MadeBlobs DEF IsSeq
<1>3. \A x \in MadeFields : \E k \in DOMAIN made : OwnField(made[k], x)
  <2>1. SUFFICES ASSUME NEW k \in DOMAIN made, NEW i \in DOMAIN made[k].blob
                 PROVE  OwnField(made[k], made[k].blob[i])
    BY DEF MadeFields
  <2>2. MadeOK(k, made[k])
    BY DEF MadeInv
  <2>3. IsSeq(made[k].blob) /\ \A j \in 1..Len(made[k].blob) : OwnField(made[k], made[k].blob[j])
    BY <2>2, MadeBlobs
  <2>4. DOMAIN made[k].blob = 1..Len(made[k].blob)
    BY <2>3 DEF IsSeq
  <2> QED
    BY <2>3, <2>4
<1>4. \A i \in 1..Len(s) : OwnField(b, s[i])
  BY <1>1, MadeBlobs
<1>5. \/ blob = s
      \/ blob = SubSeq(s, 1, Len(s) - 1)
      \/ \E i \in DOMAIN s, x \in MadeFields : blob = [s EXCEPT ![i] = x]
      \/ \E x \in MadeFields : blob = Append(s, x)
      \/ b.format \notin {INTEGRITY, OLD} /\ \E f \in AuthEncryptedBlobFormat : blob = Rewritten(b, f)
  BY DEF Delivered
<1> HIDE DEF b
<1>6. n \in DOMAIN made /\ b = made[n]
  BY DEF b
<1>7. CASE blob = s
  BY <1>2, <1>4, <1>6, <1>7 DEF Authentic
<1>8. CASE blob = SubSeq(s, 1, Len(s) - 1)
  <2>1. IsSeq(blob) /\ Len(blob) = Len(s) - 1 /\ \A i \in 1..(Len(s) - 1) : blob[i] = s[i]
    BY <1>2, <1>8, FrontSeq
  <2>2. \A i \in 1..Len(blob) : OwnField(b, blob[i])
    BY <1>2, <1>4, <2>1
  <2> QED
    BY <1>2, <1>6, <2>1, <2>2 DEF Authentic
<1>9. ASSUME NEW k \in DOMAIN s, NEW x \in MadeFields, blob = [s EXCEPT ![k] = x]
      PROVE  Authentic(blob)
  <2>1. IsSeq(blob) /\ Len(blob) = Len(s) /\ \A i \in 1..Len(s) : blob[i] = IF i = k THEN x ELSE s[i]
    BY <1>2, <1>9, ReplacedSeq
  <2>2. \A i \in 1..Len(blob) : OwnField(b, blob[i]) \/ \E m \in DOMAIN made : OwnField(made[m], blob[i])
    BY <1>3, <1>4, <1>9, <2>1
  <2> QED
    BY <1>2, <1>6, <2>1, <2>2 DEF Authentic
<1>10. ASSUME NEW x \in MadeFields, blob = Append(s, x)
       PROVE  Authentic(blob)
  <2>1. /\ IsSeq(blob) /\ Len(blob) = Len(s) + 1
        /\ (\A i \in 1..Len(s) : blob[i] = s[i]) /\ blob[Len(s) + 1] = x
    BY <1>2, <1>10, AppendSeq
  <2>2. \A i \in 1..Len(blob) : OwnField(b, blob[i]) \/ \E m \in DOMAIN made : OwnField(made[m], blob[i])
    BY <1>2, <1>3, <1>4, <1>10, <2>1
  <2> QED
    BY <1>2, <1>6, <2>1, <2>2 DEF Authentic
<1>11. ASSUME NEW f \in AuthEncryptedBlobFormat, blob = Rewritten(b, f)
       PROVE  Authentic(blob)
  <2> DEFINE k == DeserializeAuthEncryptedBlob(s, b.format)
  <2>1. k.e.nonce = s[2] /\ k.e.ciphertext = s[3] /\ k.e.tag = s[4]
    BY DEF DeserializeAuthEncryptedBlob
  <2>2. blob = SerializeAuthEncryptedBlob(f, k.e, 1, k.hw, k.sw, k.slot)
    BY <1>11 DEF Rewritten
  <2> HIDE DEF k
  <2>3. /\ IsSeq(blob) /\ Len(blob) = SizeOf(f)
        /\ blob[1] = Byte(f) /\ blob[2] = s[2] /\ blob[3] = s[3] /\ blob[4] = s[4]
        /\ isVersionedFormat(f) => blob[5] = Word(1) /\ blob[6] = Word(0)
        /\ blob[ListsAt(f) + 1] = ListField(k.hw) /\ blob[ListsAt(f) + 2] = ListField(k.sw)
        /\ requiresSecureDeletion(f) => blob[Len(blob)] = Word(k.slot)
    <3>1. LaidAs(blob, f, Byte(f), k.e.nonce, k.e.ciphertext, k.e.tag, Word(1), Word(0), ListField(k.hw), ListField(k.sw),
                 Word(k.slot))
      BY <1>11, <2>2, EncryptedFields, Zenon
    <3> QED
      BY <2>1, <3>1, Zenon DEF LaidAs
  <2>4. \A x : Byte(x).kind = "byte" /\ Word(x).kind = "word" /\ ListField(x).kind = "list"
    BY DEF Byte, Word, ListField, Field
  <2>5. \A i \in 1..Len(blob) : i \in 2..4 \/ blob[i].kind \in {"byte", "word", "list"}
    BY <2>3, <2>4, FormatSizes
  <2>6. \A i \in 2..4 : OwnField(b, blob[i])
    BY <1>2, <1>4, <2>3
  <2> QED
    BY <1>6, <2>3, <2>5, <2>6, FormatSizes DEF Authentic
<1> QED
  BY <1>5, <1>7, <1>8, <1>9, <1>10, <1>11

-----------------------------------------------------------------------------
(* Parsing. *)

\* Key encryption keys are equal only if all that they are derived from is: the lists, the
\* hidden authorizations and, where one of the blobs has secure deletion, the secrets and slot.
LEMMA KekInjective ==
    ASSUME NEW f, NEW hw, NEW sw, NEW hidden, NEW d, NEW g, NEW hw2, NEW sw2, NEW hidden2, NEW d2,
           Kek(f, hw, sw, hidden, d, MASTER_KEY) = Kek(g, hw2, sw2, hidden2, d2, MASTER_KEY)
    PROVE  /\ hw = hw2 /\ sw = sw2 /\ hidden = hidden2
           /\ requiresSecureDeletion(g) => d.reset = d2.reset /\ d.secret = d2.secret /\ d.slot = d2.slot
<1> DEFINE i == BuildDerivationInfo(f, hw, sw, hidden, d)
           j == BuildDerivationInfo(g, hw2, sw2, hidden2, d2)
<1> USE DEF Kek, InitializeKeyWrappingContext, DeriveAesGcmKeyEncryptionKey
<1>1. CASE f = AES_OCB
  <2>1. g = AES_OCB
    <3>1. Kek(f, hw, sw, hidden, d, MASTER_KEY)[1] = "ocb"
      BY <1>1
    <3>2. g # AES_OCB => Kek(g, hw2, sw2, hidden2, d2, MASTER_KEY)[1] = "gcm"
      OBVIOUS
    <3> QED
      BY <3>1, <3>2
  <2>2. BuildDerivationData(hw, sw, hidden) = BuildDerivationData(hw2, sw2, hidden2)
    BY <1>1, <2>1
  <2>3. hw = hw2 /\ sw = sw2 /\ hidden = hidden2
    BY <2>2 DEF BuildDerivationData
  <2>4. ~requiresSecureDeletion(g)
    BY <2>1 DEF requiresSecureDeletion, AES_OCB, AES_GCM_WITH_SECURE_DELETION, AES_GCM_WITH_SECURE_DELETION_VERSIONED
  <2> QED
    BY <2>3, <2>4
<1>2. CASE f # AES_OCB
  <2>1. g # AES_OCB
    <3>1. Kek(f, hw, sw, hidden, d, MASTER_KEY)[1] = "gcm"
      BY <1>2
    <3>2. g = AES_OCB => Kek(g, hw2, sw2, hidden2, d2, MASTER_KEY)[1] = "ocb"
      OBVIOUS
    <3> QED
      BY <3>1, <3>2
  <2>2. i = j
    BY <1>2, <2>1
  <2>3. /\ i[2] = hidden /\ i[3] = hw /\ i[4] = sw /\ j[2] = hidden2 /\ j[3] = hw2 /\ j[4] = sw2
        /\ i[1] = (IF requiresSecureDeletion(f) THEN 2 ELSE 1) /\ j[1] = (IF requiresSecureDeletion(g) THEN 2 ELSE 1)
    BY DEF BuildDerivationInfo
  <2>4. requiresSecureDeletion(f) => i[5] = d.reset /\ i[6] = d.secret /\ i[7] = d.slot
    BY DEF BuildDerivationInfo
  <2>5. requiresSecureDeletion(g) => j[5] = d2.reset /\ j[6] = d2.secret /\ j[7] = d2.slot
    BY DEF BuildDerivationInfo
  <2> HIDE DEF i, j
  <2> QED
    BY <2>2, <2>3, <2>4, <2>5
<1> QED
  BY <1>1, <1>2

\* An integrity-assured blob is accepted only as it was made, with the hidden authorizations
\* it was made with.
LEMMA AssuredAsMade ==
    ASSUME MadeInv, NEW blob, Authentic(blob), NEW hidden, DeserializeIntegrityAssuredBlob(blob, hidden).ok
    PROVE  \E n \in DOMAIN made :
              /\ made[n].format = INTEGRITY /\ made[n].hidden = hidden
              /\ DeserializeIntegrityAssuredBlob(blob, hidden) = KeyOf(n, made[n].hw, made[n].sw)
<1> DEFINE front == SubSeq(blob, 1, Len(blob) - 1)
           key == DeserializeIntegrityAssuredBlob_NoHmacCheck(blob)
<1>1. blob[Len(blob)] = ComputeHmac(front, hidden) /\ DeserializeIntegrityAssuredBlob(blob, hidden) = key
  BY Zenon DEF DeserializeIntegrityAssuredBlob, Invalid
<1>2. IsSeq(blob) /\ Len(blob) \in Nat /\ Len(blob) >= 3 /\ Len(blob) \in 1..Len(blob) /\ Len(blob) > 0
  BY DEF Authentic, IsSeq
<1>3. blob[Len(blob)].kind = "mac"
  BY <1>1 DEF ComputeHmac, Field
<1>4. PICK n \in DOMAIN made : OwnField(made[n], blob[Len(blob)])
  BY <1>2, <1>3 DEF Authentic
<1> DEFINE b == made[n]
<1>5. b.format = INTEGRITY /\ ComputeHmac(front, hidden) = ComputeHmac(Covered(b), b.hidden)
  BY <1>1, <1>3, <1>4 DEF OwnField
<1>6. front = Covered(b) /\ hidden = b.hidden
  BY <1>5 DEF ComputeHmac, Field
<1>7. b.material = n
  BY Zenon DEF MadeInv, MadeOK, MadeWith
<1>8. Len(front) = Len(blob) - 1 /\ \A i \in 1..(Len(blob) - 1) : front[i] = blob[i]
  BY <1>2, FrontSeq
<1> HIDE DEF front, b
<1>9. Len(front) = 4 /\ front[2].val[2] = n /\ front[3].val[2] = b.hw /\ front[4].val[2] = b.sw
  BY <1>6, <1>7 DEF Covered, Field, ListField
<1>10. blob[2].val[2] = n /\ blob[3].val[2] = b.hw /\ blob[4].val[2] = b.sw
  <2>1. Len(blob) - 1 = 4
    BY <1>2, <1>8, <1>9, Zenon
  <2>2. front[2] = blob[2] /\ front[3] = blob[3] /\ front[4] = blob[4]
    <3>1. 2 \in 1..(Len(blob) - 1) /\ 3 \in 1..(Len(blob) - 1) /\ 4 \in 1..(Len(blob) - 1)
      BY <2>1
    <3> QED
      BY <1>8, <3>1, Zenon
  <2> QED
    BY <1>9, <2>2
<1>11. key = KeyOf(n, b.hw, b.sw)
  <2>1. key = KeyOf(blob[2].val[2], blob[3].val[2], blob[4].val[2]) \/ key = Invalid
    BY DEF DeserializeIntegrityAssuredBlob_NoHmacCheck
  <2>2. key.ok /\ ~Invalid.ok
    BY <1>1 DEF Invalid
  <2> HIDE DEF key
  <2> QED
    BY <1>10, <2>1, <2>2, Zenon
<1> QED
  BY <1>1, <1>5, <1>6, <1>11 DEF b

\* An encrypted blob is accepted only with the lists, the hidden authorizations and the secure
\* deletion data that its key was encrypted with.
LEMMA DecryptedAsMade ==
    ASSUME MadeInv, NEW blob, Authentic(blob), NEW hidden, ParseAuthEncryptedBlob(blob, hidden).ok
    PROVE  \E n \in DOMAIN made : \E slot :
              /\ made[n].hidden = hidden
              /\ ParseAuthEncryptedBlob(blob, hidden) = KeyOf(n, made[n].hw, made[n].sw)
              /\ context = "storage" /\ requiresSecureDeletion(made[n].format) =>
                     GetDataForKey(slot).reset = made[n].data.reset /\ GetDataForKey(slot).secret = made[n].data.secret
                     /\ slot = made[n].data.slot
<1> DEFINE readable == {f \in AuthEncryptedBlobFormat : ReadsAs(blob, f)}
           f == CHOOSE g \in readable : TRUE
           k == DeserializeAuthEncryptedBlob(blob, f)
           data == IF context = "soft" THEN NoData ELSE GetDataForKey(k.slot)
           kek == Kek(f, k.hw, k.sw, hidden, data, MASTER_KEY)
           found == {m \in 1..MaxBlobs : Unseals(kek, k.e, m)}
           m == CHOOSE x \in found : TRUE
<1>1. readable # {} /\ ParseAuthEncryptedBlob(blob, hidden) = DecryptKey(k, f, hidden, data, MASTER_KEY)
  BY Zenon DEF ParseAuthEncryptedBlob, Invalid
<1>2. f \in readable
  BY <1>1
<1>3. f \in AuthEncryptedBlobFormat /\ ReadsAs(blob, f)
  BY <1>2
<1>4. k.e.nonce = blob[2] /\ k.e.ciphertext = blob[3] /\ k.e.tag = blob[4]
  BY DEF DeserializeAuthEncryptedBlob
<1> HIDE DEF f, k, data
<1>5. found # {} /\ ParseAuthEncryptedBlob(blob, hidden) = KeyOf(m, k.hw, k.sw)
  <2>1. ~Invalid.ok
    BY DEF Invalid
  <2>2. DecryptKey(k, f, hidden, data, MASTER_KEY) = IF found = {} THEN Invalid ELSE KeyOf(m, k.hw, k.sw)
    BY DEF DecryptKey
  <2> HIDE DEF found, m
  <2> QED
    BY <1>1, <2>1, <2>2, Zenon
<1>6. m \in found
  BY <1>5
<1>7. Unseals(kek, k.e, m)
  BY <1>6
<1> HIDE DEF kek, found, m
<1>8. k.e.tag = Field("tag", <<"tag", kek, k.e.nonce.val[2], m>>)
  BY <1>7 DEF Unseals, Seal
<1>9. blob[4].kind = "tag"
  BY <1>4, <1>8 DEF Field
<1>10. 4 \in 1..Len(blob)
  <2>1. Len(blob) = Len(Kinds(f))
    BY <1>3 DEF ReadsAs
  <2>2. Len(Kinds(f)) >= 4 /\ Len(Kinds(f)) \in Nat
    BY <1>3, KindsFields
  <2> QED
    BY <2>1, <2>2
<1>11. PICK n \in DOMAIN made : OwnField(made[n], blob[4])
  BY <1>9, <1>10 DEF Authentic
<1> DEFINE b == made[n]
<1>12. b.material = n
  BY Zenon DEF MadeInv, MadeOK, MadeWith
<1>13. blob[4] = Field("tag", <<"tag", KekOf(b), n, n>>)
  BY <1>9, <1>11, <1>12 DEF OwnField, Seal
<1>14. m = n /\ kek = KekOf(b)
  <2> HIDE DEF b
  <2>0. blob[4] = Field("tag", <<"tag", kek, k.e.nonce.val[2], m>>)
    BY <1>4, <1>8, Zenon
  <2>2. blob[4].val[2] = kek /\ blob[4].val[4] = m
    <3> DEFINE x == k.e.nonce.val[2]
    <3> HIDE DEF x
    <3>1. blob[4] = Field("tag", <<"tag", kek, x, m>>)
      BY <2>0 DEF x
    <3> QED
      BY <3>1 DEF Field
  <2>3. blob[4].val[2] = KekOf(b) /\ blob[4].val[4] = n
    BY <1>13 DEF Field
  <2> QED
    BY <2>2, <2>3, Zenon
<1>15. /\ k.hw = b.hw /\ k.sw = b.sw /\ hidden = b.hidden
       /\ requiresSecureDeletion(b.format) =>
              data.reset = b.data.reset /\ data.secret = b.data.secret /\ data.slot = b.data.slot
  BY <1>14, KekInjective DEF KekOf, kek
<1>16. context = "storage" => data = GetDataForKey(k.slot) /\ data.slot = k.slot
  BY DEF data, GetDataForKey
<1> QED
  BY <1>5, <1>14, <1>15, <1>16

\* The parts of the keys that parsing returns.
LEMMA KeyParts ==
    /\ ~Invalid.ok /\ Invalid.material = NoSecret
    /\ \A n, hw, sw : LET k == KeyOf(n, hw, sw) IN k.ok /\ k.material = n /\ k.hw = hw /\ k.sw = sw
BY DEF Invalid, KeyOf

\* A key of an old device is loaded with the default authorizations.
LEMMA OldHasDefaults ==
    ASSUME NEW blob, NEW k, k = LoadKey(ParseOldSoftkeymasterBlob(blob)), k.ok
    PROVE  k.sw = DEFAULTS
<1>1. ~Invalid.ok
  BY DEF Invalid
<1>2. k = ParseOldSoftkeymasterBlob(blob)
  BY <1>1, SMTT(20) DEF LoadKey
<1>3. \/ ParseOldSoftkeymasterBlob(blob) = Invalid
      \/ ParseOldSoftkeymasterBlob(blob) = KeyOf(blob[4].val[2], "", FakeKeyAuthorizations(blob[2].val[2]))
  BY Zenon DEF ParseOldSoftkeymasterBlob
<1>4. k = KeyOf(blob[4].val[2], "", FakeKeyAuthorizations(blob[2].val[2]))
  BY <1>1, <1>2, <1>3, Zenon
<1> QED
  <2> DEFINE m == blob[4].val[2]
  <2>1. k = KeyOf(m, "", DEFAULTS)
    BY <1>4, Zenon DEF FakeKeyAuthorizations
  <2> HIDE DEF m
  <2> QED
    BY ONLY <2>1, Zenon DEF KeyOf

\* The key was made, with these hidden authorizations.
WasMade(key, hidden) ==
    \E n \in DOMAIN made :
        made[n].material = key.material /\ made[n].hw = key.hw /\ made[n].sw = key.sw /\ made[n].hidden = hidden

\* What ParseKeyBlob accepts was made, as it is read.
LEMMA ParseAsMade ==
    ASSUME MadeInv, NEW blob, Authentic(blob), NEW hidden,
           ParseKeyBlob(blob, hidden).ok, ParseKeyBlob(blob, hidden).sw # DEFAULTS
    PROVE  WasMade(ParseKeyBlob(blob, hidden), hidden)
<1> DEFINE assured == DeserializeIntegrityAssuredBlob(blob, hidden)
           decrypted == ParseAuthEncryptedBlob(blob, hidden)
           old == LoadKey(ParseOldSoftkeymasterBlob(blob))
           key == ParseKeyBlob(blob, hidden)
<1>1. \/ assured.ok /\ key = assured
      \/ decrypted.ok /\ key = decrypted
      \/ key = old
      \/ key = Invalid
  BY DEF ParseKeyBlob
<1>2. \A n \in DOMAIN made : made[n].material = n
  BY Zenon DEF MadeInv, MadeOK, MadeWith
<1>4. key # Invalid
  BY KeyParts, Zenon
<1>5. key # old
  BY OldHasDefaults
<1>6. assured.ok => \E n \in DOMAIN made :
          made[n].hidden = hidden /\ assured = KeyOf(n, made[n].hw, made[n].sw)
  BY AssuredAsMade
<1>7. decrypted.ok => \E n \in DOMAIN made :
          made[n].hidden = hidden /\ decrypted = KeyOf(n, made[n].hw, made[n].sw)
  BY DecryptedAsMade
<1> HIDE DEF assured, decrypted, old, key
<1>8. PICK n \in DOMAIN made : made[n].hidden = hidden /\ key = KeyOf(n, made[n].hw, made[n].sw)
  BY <1>1, <1>4, <1>5, <1>6, <1>7, Zenon
<1>9. key.material = n /\ key.hw = made[n].hw /\ key.sw = made[n].sw
  BY <1>8, KeyParts
<1> QED
  BY <1>2, <1>8, <1>9 DEF key, WasMade

\* A destroyed blob decrypts under no hidden authorizations, whatever became of it.
LEMMA DestroyedIsRefused ==
    ASSUME KeyBlobsAssumption, MadeInv, NEW n \in DOMAIN made, NEW blob, Authentic(blob), NEW hidden, Destroyed(made[n])
    PROVE  ParseKeyBlob(blob, hidden).material # made[n].material
<1> DEFINE decrypted == ParseAuthEncryptedBlob(blob, hidden)
           key == ParseKeyBlob(blob, hidden)
           d == made[n].data
<1>1. MadeOK(n, made[n]) /\ n \in 1..Len(made) /\ Len(made) \in Nat
  BY DEF MadeInv, IsSeq
<1>2. made[n].material = n /\ n # NoSecret
  <2>1. made[n].material = n
    BY <1>1, Zenon DEF MadeOK, MadeWith
  <2>2. n # NoSecret
    BY <1>1 DEF NoSecret
  <2> QED
    BY <2>1, <2>2
<1>3. context = "storage" /\ requiresSecureDeletion(made[n].format)
  BY DEF Destroyed
<1>4. d.slot \in Slots \cup {0}
  BY <1>1, <1>3, Zenon DEF MadeOK, MadeWith, DataWith
<1>5. key = IF decrypted.ok THEN decrypted ELSE Invalid
  BY <1>3 DEF ParseKeyBlob
<1>6. Invalid.material # n
  BY <1>2 DEF Invalid
<1>7. SUFFICES ASSUME decrypted.ok, decrypted.material = n PROVE FALSE
  BY <1>2, <1>5, <1>6
<1>8. PICK m \in DOMAIN made : \E slot :
         /\ decrypted = KeyOf(m, made[m].hw, made[m].sw)
         /\ context = "storage" /\ requiresSecureDeletion(made[m].format) =>
                GetDataForKey(slot).reset = made[m].data.reset /\ GetDataForKey(slot).secret = made[m].data.secret
                /\ slot = made[m].data.slot
  BY <1>7, DecryptedAsMade
<1>9. m = n
  BY <1>7, <1>8 DEF KeyOf
<1>10. PICK slot : GetDataForKey(slot).reset = d.reset /\ GetDataForKey(slot).secret = d.secret /\ slot = d.slot
  BY <1>3, <1>8, <1>9
<1>11. storage.reset = d.reset /\ (slot \in Slots => storage.slots[slot] = d.secret)
  BY <1>10 DEF GetDataForKey
<1> QED
  BY <1>4, <1>10, <1>11 DEF Destroyed

\* How an encrypted blob is read: by its own format and by no other.
LEMMA ReadsAsMade ==
    ASSUME NEW f \in AuthEncryptedBlobFormat, NEW kek, NEW nonce, NEW m, NEW hw, NEW sw, NEW slot
    PROVE  LET s == SerializeAuthEncryptedBlob(f, Seal(kek, nonce, m), 0, hw, sw, slot)
           IN  \A g \in AuthEncryptedBlobFormat : ReadsAs(s, g) <=> g = f
<1> DEFINE e == Seal(kek, nonce, m)
           s == SerializeAuthEncryptedBlob(f, e, 0, hw, sw, slot)
           t == Kinds(f)
<1>0. LaidAs(s, f, Byte(f), e.nonce, e.ciphertext, e.tag, Word(0), Word(0), ListField(hw), ListField(sw), Word(slot))
  BY EncryptedFields, Zenon
<1>3. e.nonce.kind = "nonce" /\ e.ciphertext.kind = "bytes" /\ e.tag.kind = "tag"
  BY DEF Seal, Field
<1> HIDE DEF e, s, t
<1>1. /\ IsSeq(s) /\ Len(s) = SizeOf(f)
      /\ s[1] = Byte(f) /\ s[2] = e.nonce /\ s[3] = e.ciphertext /\ s[4] = e.tag
      /\ isVersionedFormat(f) => s[5] = Word(0) /\ s[6] = Word(0)
      /\ s[ListsAt(f) + 1] = ListField(hw) /\ s[ListsAt(f) + 2] = ListField(sw)
      /\ requiresSecureDeletion(f) => s[Len(s)] = Word(slot)
  BY <1>0, Zenon DEF LaidAs
<1>2. /\ Len(t) = SizeOf(f)
      /\ t[1] = "byte" /\ t[2] = "nonce" /\ t[3] = "bytes" /\ t[4] = "tag"
      /\ isVersionedFormat(f) => t[5] = "word" /\ t[6] = "word"
      /\ t[ListsAt(f) + 1] = "list" /\ t[ListsAt(f) + 2] = "list"
      /\ requiresSecureDeletion(f) => t[Len(t)] = "word"
  <2>1. LaidAs(t, f, "byte", "nonce", "bytes", "tag", "word", "word", "list", "list", "word")
    BY KindsFields, Zenon DEF t
  <2> QED
    BY <2>1, Zenon DEF LaidAs
<1>4. \A x : Byte(x).kind = "byte" /\ Word(x).kind = "word" /\ ListField(x).kind = "list"
  BY DEF Byte, Word, ListField, Field
<1>5. \A g : Byte(g) = Byte(f) => g = f
  BY DEF Byte, Field
<1>6. DOMAIN s = 1..Len(s)
  BY <1>1 DEF IsSeq
<1>7. \A i \in 1..Len(s) : s[i].kind = t[i]
  <2>1. \A i \in 1..4 : s[i].kind = t[i]
    BY <1>1, <1>2, <1>3, <1>4
  <2>2. \A i \in 5..ListsAt(f) : s[i].kind = t[i]
    BY <1>1, <1>2, <1>4, FormatSizes
  <2>3. s[ListsAt(f) + 1].kind = t[ListsAt(f) + 1] /\ s[ListsAt(f) + 2].kind = t[ListsAt(f) + 2]
    BY <1>1, <1>2, <1>4
  <2>4. requiresSecureDeletion(f) => s[ListsAt(f) + 3].kind = t[ListsAt(f) + 3]
    BY <1>1, <1>2, <1>4, FormatSizes
  <2>5. \A i \in 1..Len(s) : i \in 1..4 \/ i \in 5..ListsAt(f) \/ i = ListsAt(f) + 1 \/ i = ListsAt(f) + 2
                               \/ (requiresSecureDeletion(f) /\ i = ListsAt(f) + 3)
    BY <1>1, FormatSizes
  <2> QED
    BY <2>1, <2>2, <2>3, <2>4, <2>5
<1>8. ReadsAs(s, f)
  BY <1>1, <1>2, <1>6, <1>7 DEF ReadsAs, t
<1>9. \A g : ReadsAs(s, g) => g = f
  BY <1>1, <1>5, SMTT(20) DEF ReadsAs
<1> QED
  BY <1>8, <1>9 DEF s, e

\* Where DeserializeAuthEncryptedBlob finds the parts of a blob.
LEMMA Deserialized ==
    ASSUME NEW s, NEW f
    PROVE  LET k == DeserializeAuthEncryptedBlob(s, f)
           IN  /\ k.e = [nonce |-> s[2], ciphertext |-> s[3], tag |-> s[4]]
               /\ k.hw = s[ListsAt(f) + 1].val[2] /\ k.sw = s[ListsAt(f) + 2].val[2]
               /\ requiresSecureDeletion(f) => k.slot = s[Len(s)].val[2]
<1>1. CASE isVersionedFormat(f)
  BY <1>1 DEF DeserializeAuthEncryptedBlob, ListsAt
<1>2. CASE ~isVersionedFormat(f)
  BY <1>2 DEF DeserializeAuthEncryptedBlob, ListsAt
<1> QED
  BY <1>1, <1>2

\* An intact encrypted blob is decrypted to its key while its secrets exist.
LEMMA IntactDecrypts ==
    ASSUME KeyBlobsAssumption, MadeInv, context \in {"soft", "storage"},
           NEW n \in DOMAIN made, made[n].format \in AuthEncryptedBlobFormat, ~Destroyed(made[n])
    PROVE  ParseAuthEncryptedBlob(made[n].blob, made[n].hidden) = KeyOf(n, made[n].hw, made[n].sw)
<1> DEFINE b == made[n]
           f == b.format
           e == Seal(KekOf(b), n, n)
           s == SerializeAuthEncryptedBlob(f, e, 0, b.hw, b.sw, b.data.slot)
           k == DeserializeAuthEncryptedBlob(s, f)
           data == IF context = "soft" THEN NoData ELSE GetDataForKey(k.slot)
           kek == Kek(f, k.hw, k.sw, b.hidden, data, MASTER_KEY)
           readable == {g \in AuthEncryptedBlobFormat : ReadsAs(s, g)}
           found == {m \in 1..MaxBlobs : Unseals(kek, k.e, m)}
<1>1. MadeOK(n, b) /\ n \in 1..MaxBlobs
  BY DEF MadeInv, IsSeq, KeyBlobsAssumption
<1>2. b.blob = s
  <2>1. f # OLD /\ f # INTEGRITY
    BY DEF AuthEncryptedBlobFormat, OLD, INTEGRITY, AES_OCB, AES_GCM_WITH_SECURE_DELETION_VERSIONED
  <2>2. b.blob = BlobOf(b) /\ b.material = n
    BY <1>1, Zenon DEF MadeOK, MadeWith
  <2> QED
    BY <2>1, <2>2 DEF BlobOf, EncryptKey, KekOf
<1>3. readable = {f}
  BY ReadsAsMade
<1>4. (CHOOSE g \in readable : TRUE) = f
  BY <1>3
<1>5. /\ k.e.nonce = e.nonce /\ k.e.ciphertext = e.ciphertext /\ k.e.tag = e.tag
      /\ k.e = [nonce |-> k.e.nonce, ciphertext |-> k.e.ciphertext, tag |-> k.e.tag]
      /\ k.hw = b.hw /\ k.sw = b.sw /\ (requiresSecureDeletion(f) => k.slot = b.data.slot)
  <2> HIDE DEF e
  <2>0. LaidAs(s, f, Byte(f), e.nonce, e.ciphertext, e.tag, Word(0), Word(0), ListField(b.hw), ListField(b.sw),
               Word(b.data.slot))
    BY EncryptedFields, Zenon
  <2> HIDE DEF s
  <2>1. /\ s[2] = e.nonce /\ s[3] = e.ciphertext /\ s[4] = e.tag
        /\ s[ListsAt(f) + 1] = ListField(b.hw) /\ s[ListsAt(f) + 2] = ListField(b.sw)
        /\ requiresSecureDeletion(f) => s[Len(s)] = Word(b.data.slot)
    BY <2>0, Zenon DEF LaidAs
  <2>2. \A x : Word(x).val[2] = x /\ ListField(x).val[2] = x
    BY DEF Word, ListField, Field
  <2>3. /\ k.e = [nonce |-> s[2], ciphertext |-> s[3], tag |-> s[4]]
        /\ k.hw = s[ListsAt(f) + 1].val[2] /\ k.sw = s[ListsAt(f) + 2].val[2]
        /\ requiresSecureDeletion(f) => k.slot = s[Len(s)].val[2]
    BY Deserialized
  <2> HIDE DEF k
  <2> QED
    BY <2>1, <2>2, <2>3
<1> HIDE DEF k, s
<1>6. k.e = e
  BY <1>5 DEF Seal
<1>7. requiresSecureDeletion(f) => data.reset = b.data.reset /\ data.secret = b.data.secret /\ data.slot = b.data.slot
  <2>1. CASE context = "soft"
    BY <1>1, <2>1, Zenon DEF MadeOK, MadeWith, DataWith, NoData
  <2>2. CASE context = "storage" /\ requiresSecureDeletion(f)
    <3>1. b.data.reset = storage.reset /\ (b.data.slot = 0 \/ storage.slots[b.data.slot] = b.data.secret)
      BY <2>2 DEF Destroyed
    <3>2. b.data.slot \in Slots \cup {0} /\ (b.data.slot = 0 => b.data.secret = NoSecret)
      BY <1>1, <2>2, Zenon DEF MadeOK, MadeWith, DataWith
    <3>3. data = GetDataForKey(b.data.slot) /\ 0 \notin Slots
      BY <1>5, <2>2, SMTT(20) DEF KeyBlobsAssumption
    <3> QED
      BY <3>1, <3>2, <3>3 DEF GetDataForKey
  <2> QED
    BY <2>1, <2>2
<1>8. kek = KekOf(b)
  <2> HIDE DEF data
  <2>1. BuildDerivationInfo(f, b.hw, b.sw, b.hidden, data) = BuildDerivationInfo(f, b.hw, b.sw, b.hidden, b.data)
    BY <1>7 DEF BuildDerivationInfo
  <2> QED
    BY <1>5, <2>1, Zenon DEF KekOf, Kek, DeriveAesGcmKeyEncryptionKey
<1> HIDE DEF kek, data
<1>9. \A m : Unseals(kek, k.e, m) <=> m = n
  <2>1. e.nonce.val[2] = n
    BY DEF Seal, Field
  <2>2. \A m : Unseals(kek, k.e, m) <=> e = Seal(KekOf(b), n, m)
    BY <1>6, <1>8, <2>1, Zenon DEF Unseals
  <2>3. \A m : e = Seal(KekOf(b), n, m) => m = n
    <3> DEFINE x == KekOf(b)
    <3> HIDE DEF x
    <3>1. SUFFICES ASSUME NEW m, Seal(x, n, n) = Seal(x, n, m) PROVE m = n
      BY DEF x
    <3>2. Seal(x, n, n).tag.val[4] = n /\ Seal(x, n, m).tag.val[4] = m
      BY DEF Seal, Field
    <3> QED
      BY <3>1, <3>2
  <2> QED
    BY <2>2, <2>3, Zenon
<1>10. found = {n}
  BY <1>1, <1>9
<1>11. DecryptKey(k, f, b.hidden, data, MASTER_KEY) = KeyOf(n, b.hw, b.sw)
  <2>1. DecryptKey(k, f, b.hidden, data, MASTER_KEY)
          = IF found = {} THEN Invalid ELSE KeyOf(CHOOSE m \in found : TRUE, k.hw, k.sw)
    BY DEF DecryptKey, kek
  <2> HIDE DEF found
  <2>2. (CHOOSE m \in found : TRUE) = n /\ found # {}
    BY <1>10
  <2> QED
    BY <1>5, <2>1, <2>2, Zenon
<1>12. ParseAuthEncryptedBlob(s, b.hidden) = DecryptKey(k, f, b.hidden, data, MASTER_KEY)
  <2>1. ParseAuthEncryptedBlob(s, b.hidden)
          = LET g == CHOOSE x \in readable : TRUE
                j == DeserializeAuthEncryptedBlob(s, g)
            IN  IF readable = {} THEN Invalid
                ELSE DecryptKey(j, g, b.hidden, IF context = "soft" THEN NoData ELSE GetDataForKey(j.slot), MASTER_KEY)
    BY DEF ParseAuthEncryptedBlob
  <2>2. readable # {}
    BY <1>3
  <2> HIDE DEF readable
  <2> QED
    BY <1>4, <2>1, <2>2, Zenon DEF k, data
<1> QED
  BY <1>2, <1>11, <1>12

\* A blob whose last field is no mac is not taken for an integrity-assured one.
LEMMA NotAssured ==
    ASSUME NEW blob, NEW hidden, blob[Len(blob)].kind # "mac"
    PROVE  ~DeserializeIntegrityAssuredBlob(blob, hidden).ok
<1>1. \A data : ComputeHmac(data, hidden).kind = "mac"
  BY DEF ComputeHmac, Field
<1>2. blob[Len(blob)] # ComputeHmac(SubSeq(blob, 1, Len(blob) - 1), hidden)
  BY <1>1, Zenon
<1> QED
  BY <1>2, KeyParts, Zenon DEF DeserializeIntegrityAssuredBlob

\* An intact integrity-assured blob is read as its key.
LEMMA IntactAssured ==
    ASSUME NEW b, b.format = INTEGRITY, b.blob = BlobOf(b)
    PROVE  DeserializeIntegrityAssuredBlob(b.blob, b.hidden) = KeyOf(b.material, b.hw, b.sw)
<1> DEFINE s == b.blob
           c == Covered(b)
           front == SubSeq(s, 1, Len(s) - 1)
<1>1. IsSeq(s) /\ Len(s) = 5 /\ (\A i \in 1..4 : s[i] = c[i]) /\ s[5] = ComputeHmac(c, b.hidden)
  BY AssuredFields
<1>2. IsSeq(c) /\ Len(c) = 4
  BY DEF Covered, IsSeq
<1>3. /\ c[1] = Byte(BLOB_VERSION) /\ c[1].kind = "byte" /\ c[2].kind = "bytes" /\ c[3].kind = "list" /\ c[4].kind = "list"
      /\ c[2].val[2] = b.material /\ c[3].val[2] = b.hw /\ c[4].val[2] = b.sw
  BY DEF Covered, Byte, ListField, Field
<1> HIDE DEF c, s
<1>4. IsSeq(front) /\ Len(front) = 4 /\ \A i \in 1..4 : front[i] = s[i]
  <2>1. IsSeq(front) /\ Len(front) = Len(s) - 1 /\ \A i \in 1..(Len(s) - 1) : front[i] = s[i]
    <3>1. IsSeq(s) /\ Len(s) > 0
      BY <1>1
    <3> QED
      BY ONLY <3>1, FrontSeq
  <2> HIDE DEF front
  <2>2. Len(s) - 1 = 4
    BY <1>1
  <2> QED
    BY <2>1, <2>2, Zenon
<1> HIDE DEF front
<1>5. front = c
  <2>1. front = [i \in 1..4 |-> front[i]] /\ c = [i \in 1..4 |-> c[i]]
    BY <1>2, <1>4, Zenon DEF IsSeq
  <2>2. \A i \in 1..4 : front[i] = c[i]
    BY <1>1, <1>4
  <2> QED
    BY <2>1, <2>2
<1>6. s[Len(s)] = ComputeHmac(front, b.hidden)
  BY <1>1, <1>5, Zenon
<1>7. DeserializeIntegrityAssuredBlob_NoHmacCheck(s) = KeyOf(b.material, b.hw, b.sw)
  <2>1. s[1] = c[1] /\ s[2] = c[2] /\ s[3] = c[3] /\ s[4] = c[4]
    BY <1>1
  <2>2. s[1] = Byte(BLOB_VERSION) /\ s[1].kind = "byte" /\ s[2].kind = "bytes" /\ s[3].kind = "list" /\ s[4].kind = "list"
    BY <1>3, <2>1
  <2> DEFINE kinds == <<"byte", "bytes", "list", "list">>
  <2>3. Len(s) > Len(kinds) /\ \A i \in DOMAIN kinds : s[i].kind = kinds[i]
    BY <1>1, <2>2
  <2>4. DeserializeIntegrityAssuredBlob_NoHmacCheck(s) = KeyOf(s[2].val[2], s[3].val[2], s[4].val[2])
    BY <2>2, <2>3 DEF DeserializeIntegrityAssuredBlob_NoHmacCheck
  <2> QED
    BY <1>3, <2>1, <2>4
<1> QED
  BY <1>6, <1>7 DEF DeserializeIntegrityAssuredBlob, front, s

\* An intact blob of an old device is read as its key, if that is an RSA key, and as nothing else.
LEMMA IntactOld ==
    ASSUME MadeInv, NEW n \in DOMAIN made, made[n].format = OLD, made[n].algorithm = "RSA", NEW hidden
    PROVE  /\ LoadKey(ParseOldSoftkeymasterBlob(made[n].blob)) = KeyOf(n, made[n].hw, made[n].sw)
           /\ ~ParseAuthEncryptedBlob(made[n].blob, hidden).ok
           /\ ~DeserializeIntegrityAssuredBlob(made[n].blob, hidden).ok
<1> DEFINE b == made[n]
           s == b.blob
<1>1. b.material = n /\ b.blob = BlobOf(b) /\ b.hw = "" /\ b.sw = DEFAULTS
  BY Zenon DEF MadeInv, MadeOK, MadeWith
<1>2. s = OldBlob(n, "RSA")
  BY <1>1, Zenon DEF BlobOf
<1> HIDE DEF s
<1>3. /\ Len(s) = 4
      /\ s[1].kind = "magic" /\ s[2].kind = "word" /\ s[3].kind = "bytes" /\ s[4].kind = "bytes"
      /\ s[2].val = <<"type", "RSA">> /\ s[4].val[1] = "material" /\ s[4].val[2] = n
  BY <1>2 DEF OldBlob, Field
<1>4. ParseOldSoftkeymasterBlob(s) = KeyOf(n, "", DEFAULTS)
  <2> DEFINE kinds == <<"magic", "word", "bytes", "bytes">>
  <2>1. Len(s) >= Len(kinds) /\ \A i \in DOMAIN kinds : s[i].kind = kinds[i]
    BY <1>3
  <2>2. s[2].val = <<"type", made[s[4].val[2]].algorithm>>
    BY <1>3
  <2>3. ParseOldSoftkeymasterBlob(s) = KeyOf(s[4].val[2], "", FakeKeyAuthorizations(s[2].val[2]))
    BY <1>3, <2>1, <2>2, Zenon DEF ParseOldSoftkeymasterBlob
  <2> QED
    BY <1>3, <2>3, Zenon DEF FakeKeyAuthorizations
<1>5. LoadKey(KeyOf(n, "", DEFAULTS)) = KeyOf(n, "", DEFAULTS)
  <2>1. KeyOf(n, "", DEFAULTS).material = n
    BY DEF KeyOf
  <2> QED
    BY <2>1, Zenon DEF LoadKey
<1>6. ~ParseAuthEncryptedBlob(s, hidden).ok
  <2>1. \A f : Byte(f).kind = "byte"
    BY DEF Byte, Field
  <2>2. \A f : ~ReadsAs(s, f)
    BY <1>3, <2>1 DEF ReadsAs
  <2>3. {f \in AuthEncryptedBlobFormat : ReadsAs(s, f)} = {}
    BY <2>2
  <2>4. ParseAuthEncryptedBlob(s, hidden) = Invalid
    BY <2>3, Zenon DEF ParseAuthEncryptedBlob
  <2> QED
    BY <2>4, KeyParts
<1>7. ~DeserializeIntegrityAssuredBlob(s, hidden).ok
  BY <1>3, NotAssured, Zenon
<1> QED
  BY <1>1, <1>4, <1>5, <1>6, <1>7, Zenon DEF s

\* ParseKeyBlob reads back every intact blob whose secrets exist.
LEMMA IntactIsParsed ==
    ASSUME KeyBlobsAssumption, MadeInv, context \in {"soft", "storage"},
           NEW n \in DOMAIN made, ~Destroyed(made[n]), made[n].format = OLD => made[n].algorithm = "RSA"
    PROVE  ParseKeyBlob(made[n].blob, made[n].hidden) = KeyOf(made[n].material, made[n].hw, made[n].sw)
<1> DEFINE b == made[n]
           assured == DeserializeIntegrityAssuredBlob(b.blob, b.hidden)
           decrypted == ParseAuthEncryptedBlob(b.blob, b.hidden)
           old == LoadKey(ParseOldSoftkeymasterBlob(b.blob))
           key == KeyOf(n, b.hw, b.sw)
<1>1. MadeOK(n, b)
  BY DEF MadeInv
<1>2. b.material = n
  BY <1>1, Zenon DEF MadeOK, MadeWith
<1>3. ParseKeyBlob(b.blob, b.hidden)
        = IF context = "soft" /\ assured.ok THEN assured
          ELSE IF decrypted.ok THEN decrypted
          ELSE IF context = "soft" THEN old
          ELSE Invalid
  BY DEF ParseKeyBlob
<1>4. key.ok
  BY KeyParts
<1>5. CASE b.format = INTEGRITY
  <2>1. context = "soft"
    <3>1. b.format \notin AuthEncryptedBlobFormat
      BY <1>5 DEF INTEGRITY, AuthEncryptedBlobFormat, AES_OCB, AES_GCM_WITH_SECURE_DELETION_VERSIONED
    <3> QED
      BY <1>1, <3>1, Zenon DEF MadeOK, MadeWith
  <2>2. assured = key
    BY <1>1, <1>2, <1>5, IntactAssured, Zenon DEF MadeOK, MadeWith
  <2> HIDE DEF assured, decrypted, old, key
  <2>3. ParseKeyBlob(b.blob, b.hidden) = key
    BY <1>3, <1>4, <2>1, <2>2
  <2> QED
    BY <1>2, <2>3 DEF key
<1>6. CASE b.format = OLD
  <2>1. context = "soft"
    <3>1. b.format \notin AuthEncryptedBlobFormat
      BY <1>6 DEF OLD, AuthEncryptedBlobFormat, AES_OCB, AES_GCM_WITH_SECURE_DELETION_VERSIONED
    <3> QED
      BY <1>1, <3>1, Zenon DEF MadeOK, MadeWith
  <2>2. old = key /\ ~decrypted.ok /\ ~assured.ok
    BY <1>6, IntactOld
  <2> HIDE DEF assured, decrypted, old, key
  <2>3. ParseKeyBlob(b.blob, b.hidden) = key
    BY <1>3, <2>1, <2>2
  <2> QED
    BY <1>2, <2>3 DEF key
<1>7. CASE b.format \in AuthEncryptedBlobFormat
  <2>1. decrypted = key
    BY <1>7, IntactDecrypts
  <2>2. ~assured.ok
    <3>1. IsSeq(b.blob) /\ Len(b.blob) >= 4 /\ \A i \in 1..Len(b.blob) : OwnField(b, b.blob[i])
      BY <1>1, MadeBlobs
    <3>2. Len(b.blob) \in 1..Len(b.blob)
      BY <3>1 DEF IsSeq
    <3>3. b.format # INTEGRITY
      BY <1>7 DEF INTEGRITY, AuthEncryptedBlobFormat, AES_OCB, AES_GCM_WITH_SECURE_DELETION_VERSIONED
    <3>4. b.blob[Len(b.blob)].kind # "mac"
      BY <3>1, <3>2, <3>3 DEF OwnField
    <3> QED
      BY <3>4, NotAssured
  <2> HIDE DEF assured, decrypted, old, key
  <2>3. ParseKeyBlob(b.blob, b.hidden) = key
    BY <1>3, <1>4, <2>1, <2>2
  <2> QED
    BY <1>2, <2>3 DEF key
<1> QED
  BY <1>1, <1>5, <1>6, <1>7, Zenon DEF MadeOK, MadeWith

-----------------------------------------------------------------------------
(* The invariant is inductive. *)

\* A record of a blob stays right when more secrets are given out.
LEMMA MadeStays ==
    ASSUME NEW c, NEW fresh \in Nat, NEW later \in Nat, fresh <= later, NEW n, NEW b, MadeWith(c, fresh, n, b)
    PROVE  MadeWith(c, later, n, b)
<1>1. DataWith(c, fresh, b.data)
  BY Zenon DEF MadeWith
<1>2. DataWith(c, later, b.data)
  BY <1>1 DEF DataWith
<1> QED
  BY <1>2, Zenon DEF MadeWith

\* Steps that make no blob and give out no secret twice.
LEMMA MadeInvStays ==
    ASSUME MadeInv, StorageOK, UNCHANGED <<context, made>>, storage'.fresh \in Nat, storage.fresh <= storage'.fresh
    PROVE  MadeInv'
<1>1. storage.fresh \in Nat
  BY DEF StorageOK
<1>2. \A n \in DOMAIN made : MadeWith(context, storage'.fresh, n, made[n])
  BY <1>1, MadeStays DEF MadeInv, MadeOK
<1>3. IsSeq(made') /\ Len(made') <= MaxBlobs
  BY DEF MadeInv
<1>4. \A n \in DOMAIN made' : MadeWith(context', storage'.fresh, n, made'[n])
  BY <1>2
<1> QED
  BY <1>3, <1>4 DEF MadeInv, MadeOK

\* What was parsed stays as it was made while nothing is made.
LEMMA ParsedStays ==
    ASSUME ParsedAsMade, UNCHANGED <<made, parse_result>>
    PROVE  ParsedAsMade'
BY DEF ParsedAsMade

\* Nothing was parsed.
LEMMA IdleIsParsed ==
    ASSUME NEW r, r = Idle
    PROVE  ~r.key.ok
BY KeyParts, Zenon DEF Idle

\* The initial state satisfies the invariant.
LEMMA InitInv ==
    ASSUME KeyBlobsAssumption, BlobsInit
    PROVE  Inv
<1>1. StorageOK
  BY DEF BlobsInit, StorageOK, NoSecret
<1>2. MadeInv
  <2>1. made = <<>> /\ Len(made) = 0 /\ DOMAIN made = {}
    BY DEF BlobsInit
  <2>2. IsSeq(made)
    BY <2>1 DEF IsSeq
  <2> QED
    BY <2>1, <2>2 DEF MadeInv, KeyBlobsAssumption
<1>3. ParsedAsMade
  BY IdleIsParsed DEF BlobsInit, ParsedAsMade
<1> QED
  BY <1>1, <1>2, <1>3 DEF Inv, BlobsInit

\* b records what went into it, and the blob that comes of that.
Records(b, n, f, data) ==
    /\ b.format = f /\ b.material = n /\ b.data = data /\ b.blob = BlobOf(b)
    /\ f = OLD => b.hw = "" /\ b.sw = DEFAULTS

\* A new record holds the blob that comes of what it says went into it.
LEMMA NewBlobParts ==
    ASSUME NEW n, NEW f, NEW a, NEW hw, NEW sw, NEW hidden, NEW data
    PROVE  Records(NewBlob(n, f, a, hw, sw, hidden, data), n, f, data)
<1> DEFINE b == NewBlob(n, f, a, hw, sw, hidden, data)
<1>1. b.material = n /\ b.algorithm = a /\ b.format = f /\ b.hidden = hidden /\ b.data = data
  BY DEF NewBlob
<1>2. CASE f = OLD
  <2>1. b.hw = "" /\ b.sw = DEFAULTS /\ b.blob = OldBlob(n, a)
    BY <1>2 DEF NewBlob
  <2> HIDE DEF b
  <2>2. BlobOf(b) = OldBlob(n, a)
    BY <1>1, <1>2 DEF BlobOf
  <2> QED
    BY <1>1, <2>1, <2>2, Zenon DEF b, Records
<1>3. CASE f = INTEGRITY
  <2>0. f # OLD
    BY <1>3 DEF INTEGRITY, OLD
  <2>1. b.hw = hw /\ b.sw = sw /\ b.blob = SerializeIntegrityAssuredBlob(n, hidden, hw, sw)
    BY <1>3, <2>0 DEF NewBlob
  <2> HIDE DEF b
  <2>2. BlobOf(b) = SerializeIntegrityAssuredBlob(n, hidden, hw, sw)
    BY <1>1, <1>3, <2>0, <2>1, SMTT(20) DEF BlobOf
  <2> QED
    BY <1>1, <2>0, <2>1, <2>2, Zenon DEF b, Records
<1>4. CASE f # OLD /\ f # INTEGRITY
  <2> DEFINE s == SerializeAuthEncryptedBlob(f, EncryptKey(n, f, hw, sw, hidden, data, MASTER_KEY, n), 0, hw, sw, data.slot)
  <2>1. b.hw = hw /\ b.sw = sw /\ b.blob = s
    BY <1>4 DEF NewBlob
  <2> HIDE DEF b
  <2>2. BlobOf(b) = s
    BY <1>1, <1>4, <2>1 DEF BlobOf
  <2> QED
    BY <1>1, <1>4, <2>1, <2>2, Zenon DEF b, Records
<1> QED
  BY <1>2, <1>3, <1>4, SMTT(20)

\* CreateKeyBlob: the new record holds what went into the blob.
LEMMA CreateStep ==
    ASSUME KeyBlobsAssumption, Inv, NEW m \in Makes, m.context = context, NEW hw, NEW sw,
           CreateKeyBlob(m.format, m.algorithm, hw, sw, m.hidden)
    PROVE  Inv'
<1> DEFINE f == m.format
           n == Len(made) + 1
<1>0. context \in {"soft", "storage"} /\ StorageOK /\ MadeInv /\ context' = context /\ parse_result' = Idle /\ Len(made) < MaxBlobs
  BY DEF Inv, CreateKeyBlob
<1>1. PICK slot \in NewSlots(f) :
          /\ storage' = StoreSecret(slot)
          /\ made' = Append(made, NewBlob(n, f, m.algorithm, hw, sw, m.hidden, CreateDataForNewKey(slot)))
  BY Zenon DEF CreateKeyBlob
<1> DEFINE data == CreateDataForNewKey(slot)
           b == NewBlob(n, f, m.algorithm, hw, sw, m.hidden, data)
<1>2. made' = Append(made, b)
  BY <1>1
<1>3. (slot = 0 => storage' = storage) /\ (slot # 0 => storage' = [storage EXCEPT !.slots[slot] = storage.fresh, !.fresh = @ + 1])
  BY <1>1 DEF StoreSecret
<1>4. slot \in Slots \cup {0}
  BY DEF NewSlots, Unused
<1>5. /\ storage.fresh \in Nat /\ 0 < storage.fresh /\ storage.reset \in Nat /\ storage.reset < storage.fresh
      /\ storage.slots \in [Slots -> Nat] /\ \A s \in Slots : storage.slots[s] < storage.fresh
  BY <1>0 DEF StorageOK
<1>6. StorageOK' /\ storage.fresh <= storage'.fresh /\ storage'.fresh \in Nat /\ (slot # 0 => storage'.fresh = storage.fresh + 1)
  <2>1. CASE slot = 0
    BY <1>0, <1>3, <1>5, <2>1 DEF StorageOK
  <2>2. CASE slot # 0
    <3>1. storage' = [reset |-> storage.reset, slots |-> [storage.slots EXCEPT ![slot] = storage.fresh], fresh |-> storage.fresh + 1]
      BY <1>0, <1>3, <2>2, Zenon DEF StorageOK
    <3>2. /\ storage'.reset = storage.reset /\ storage'.fresh = storage.fresh + 1
          /\ storage'.slots = [storage.slots EXCEPT ![slot] = storage.fresh]
          /\ storage' = [reset |-> storage'.reset, slots |-> storage'.slots, fresh |-> storage'.fresh]
      BY <3>1, Zenon
    <3>3. storage'.slots \in [Slots -> Nat] /\ \A s \in Slots : storage'.slots[s] < storage.fresh + 1
      BY <1>4, <1>5, <2>2, <3>2
    <3> QED
      BY <1>5, <3>2, <3>3 DEF StorageOK
  <2> QED
    BY <2>1, <2>2
<1>7. DataWith(context, storage'.fresh, data)
  <2>1. CASE context = "soft"
    BY <2>1 DEF DataWith, NoData, CreateDataForNewKey
  <2>2. CASE context # "soft" /\ slot = 0
    <3>1. data = [reset |-> storage.reset, secret |-> NoSecret, slot |-> slot]
      BY <2>2 DEF CreateDataForNewKey
    <3> QED
      BY <1>5, <1>6, <2>2, <3>1 DEF DataWith, NoSecret
  <2>3. CASE context # "soft" /\ slot # 0
    <3>1. data = [reset |-> storage.reset, secret |-> storage.fresh, slot |-> slot]
      BY <2>3 DEF CreateDataForNewKey
    <3> QED
      BY <1>4, <1>5, <1>6, <2>3, <3>1 DEF DataWith, NoSecret
  <2> QED
    BY <2>1, <2>2, <2>3, SMTT(20)
<1> HIDE DEF data
<1>8. MadeWith(context, storage'.fresh, n, b)
  <2>1. b.format = f /\ b.material = n /\ b.data = data /\ b.blob = BlobOf(b) /\ (f = OLD => b.hw = "" /\ b.sw = DEFAULTS)
    <3>1. Records(b, n, f, data)
      BY NewBlobParts, Zenon
    <3> HIDE DEF b
    <3> QED
      BY <3>1, Zenon DEF Records
  <2> HIDE DEF b
  <2>3. f \in AuthEncryptedBlobFormat \/ (context = "soft" /\ f \in {INTEGRITY, OLD})
    BY SMTT(20) DEF KeyBlobsAssumption
  <2> QED
    BY <1>7, <2>1, <2>3, Zenon DEF MadeWith
<1> HIDE DEF b
<1>9. MadeInv'
  <2>1. IsSeq(made) /\ Len(made) \in Nat /\ DOMAIN made = 1..Len(made) /\ \A i \in 1..Len(made) : MadeOK(i, made[i])
    BY <1>0 DEF MadeInv, IsSeq
  <2>2. /\ IsSeq(made') /\ Len(made') = n /\ DOMAIN made' = 1..n
        /\ (\A i \in 1..Len(made) : made'[i] = made[i]) /\ made'[n] = b
    <3> HIDE DEF n
    <3>1. /\ IsSeq(Append(made, b)) /\ Len(Append(made, b)) = Len(made) + 1
          /\ DOMAIN Append(made, b) = 1..(Len(made) + 1)
          /\ \A i \in 1..Len(made) : Append(made, b)[i] = made[i]
          /\ Append(made, b)[Len(made) + 1] = b
      BY ONLY <2>1, AppendSeq
    <3> QED
      BY <1>2, <3>1, Zenon DEF n
  <2>3. Len(made') <= MaxBlobs
    BY <1>0, <2>1, <2>2, SMTT(20) DEF KeyBlobsAssumption
  <2>4. \A i \in 1..Len(made) : MadeWith(context, storage'.fresh, i, made'[i])
    BY <1>5, <1>6, <2>1, <2>2, MadeStays DEF MadeOK
  <2>5. \A i \in 1..n : MadeWith(context, storage'.fresh, i, made'[i])
    BY <1>8, <2>1, <2>2, <2>4
  <2>6. \A i \in DOMAIN made' : MadeWith(context', storage'.fresh, i, made'[i])
    BY <1>0, <2>2, <2>5, Zenon
  <2> QED
    BY <2>2, <2>3, <2>6 DEF MadeInv, MadeOK
<1>10. ParsedAsMade'
  BY <1>0, IdleIsParsed DEF ParsedAsMade
<1> QED
  BY <1>0, <1>6, <1>9, <1>10 DEF Inv

\* Parsing a delivered blob: what is accepted was made.
LEMMA ParseStep ==
    ASSUME KeyBlobsAssumption, Inv, NEW n \in DOMAIN made, NEW hidden, NEW blob \in Delivered(made[n]),
           ParseDelivered(blob, hidden)
    PROVE  Inv'
<1>1. MadeInv /\ StorageOK
  BY DEF Inv
<1>2. Authentic(blob)
  BY <1>1, DeliveredIsAuthentic, SMTT(20)
<1> DEFINE key == ParseKeyBlob(blob, hidden)
<1>3. key.ok /\ key.sw # DEFAULTS => \E i \in DOMAIN made :
          made[i].material = key.material /\ made[i].hw = key.hw /\ made[i].sw = key.sw /\ made[i].hidden = hidden
  <2>1. key.ok /\ key.sw # DEFAULTS => WasMade(key, hidden)
    BY <1>1, <1>2, ParseAsMade, Zenon
  <2> HIDE DEF key
  <2> QED
    BY <2>1 DEF WasMade
<1> HIDE DEF key
<1>4. parse_result' = [key |-> key, hidden |-> hidden] /\ context' = context /\ made' = made /\ storage' = storage
  BY DEF ParseDelivered, key
<1>5. parse_result'.key = key /\ parse_result'.hidden = hidden
  BY <1>4
<1>6. ParsedAsMade'
  BY <1>3, <1>4, <1>5 DEF ParsedAsMade
<1>7. StorageOK'
  BY <1>1, <1>4 DEF StorageOK
<1>8. MadeInv'
  BY <1>1, <1>4, MadeInvStays DEF StorageOK
<1> QED
  BY <1>4, <1>6, <1>7, <1>8 DEF Inv

\* Steps that change nothing but the storage, and give out no secret again.
LEMMA StorageStep ==
    ASSUME Inv, StorageOK', storage.fresh <= storage'.fresh, UNCHANGED <<context, made, parse_result>>
    PROVE  Inv'
<1>1. MadeInv'
  BY MadeInvStays DEF Inv, StorageOK
<1>2. ParsedAsMade'
  BY ParsedStays DEF Inv
<1> QED
  BY <1>1, <1>2 DEF Inv

\* DeleteKey.
LEMMA DeleteStep ==
    ASSUME Inv, NEW slot \in Slots, DeleteKey(slot)
    PROVE  Inv' /\ storage' = [reset |-> storage.reset, slots |-> [storage.slots EXCEPT ![slot] = NoSecret], fresh |-> storage.fresh]
<1>1. StorageOK /\ storage' = [storage EXCEPT !.slots[slot] = NoSecret]
  BY DEF Inv, DeleteKey
<1>2. storage' = [reset |-> storage.reset, slots |-> [storage.slots EXCEPT ![slot] = NoSecret], fresh |-> storage.fresh]
  BY <1>1 DEF StorageOK
<1>3. /\ storage'.reset = storage.reset /\ storage'.fresh = storage.fresh
      /\ storage'.slots = [storage.slots EXCEPT ![slot] = NoSecret]
      /\ storage' = [reset |-> storage'.reset, slots |-> storage'.slots, fresh |-> storage'.fresh]
  BY <1>2
<1>4. storage'.slots \in [Slots -> Nat] /\ \A s \in Slots : storage'.slots[s] < storage.fresh
  BY <1>1, <1>3 DEF StorageOK, NoSecret
<1>5. StorageOK' /\ storage.fresh <= storage'.fresh
  BY <1>1, <1>3, <1>4 DEF StorageOK
<1> QED
  BY <1>2, <1>5, StorageStep, Zenon DEF DeleteKey

\* DeleteAllKeys.
LEMMA DeleteAllStep ==
    ASSUME Inv, DeleteAllKeys
    PROVE  Inv'
<1>1. StorageOK
  BY DEF Inv
<1>2. storage' = [reset |-> storage.fresh, slots |-> [s \in Slots |-> NoSecret], fresh |-> storage.fresh + 1]
  BY DEF DeleteAllKeys
<1>3. /\ storage'.reset = storage.fresh /\ storage'.fresh = storage.fresh + 1
      /\ storage'.slots = [s \in Slots |-> NoSecret]
      /\ storage' = [reset |-> storage'.reset, slots |-> storage'.slots, fresh |-> storage'.fresh]
  BY <1>2
<1>4. storage'.slots \in [Slots -> Nat] /\ \A s \in Slots : storage'.slots[s] < storage.fresh + 1
  BY <1>1, <1>3 DEF StorageOK, NoSecret
<1>5. StorageOK' /\ storage.fresh <= storage'.fresh
  BY <1>1, <1>3, <1>4 DEF StorageOK
<1> QED
  BY <1>5, StorageStep DEF DeleteAllKeys

\* Forgetting a result.
LEMMA ForgetStep ==
    ASSUME Inv, Forget
    PROVE  Inv'
<1>1. StorageOK' /\ storage.fresh <= storage'.fresh /\ storage'.fresh \in Nat
  BY DEF Inv, Forget, StorageOK
<1>2. MadeInv'
  BY <1>1, MadeInvStays DEF Inv, Forget
<1>3. ParsedAsMade'
  BY IdleIsParsed DEF Forget, ParsedAsMade
<1> QED
  BY <1>1, <1>2, <1>3 DEF Inv, Forget

\* Nothing happens.
LEMMA StutterStep ==
    ASSUME Inv, UNCHANGED blobVars
    PROVE  Inv'
<1>1. StorageOK' /\ storage.fresh <= storage'.fresh
  BY DEF Inv, StorageOK, blobVars
<1> QED
  BY <1>1, StorageStep DEF blobVars

\* Every step preserves the invariant.
LEMMA NextInv ==
    ASSUME KeyBlobsAssumption, Inv, [BlobsNext]_blobVars
    PROVE  Inv'
<1>1. ASSUME NEW m \in Makes, NEW hw \in Lists, NEW sw \in Lists,
             m.context = context, CreateKeyBlob(m.format, m.algorithm, hw, sw, m.hidden)
      PROVE  Inv'
  BY <1>1, CreateStep
<1>2. ASSUME NEW n \in DOMAIN made, NEW hidden \in HiddenSets, NEW blob \in Delivered(made[n]), ParseDelivered(blob, hidden)
      PROVE  Inv'
  BY <1>2, ParseStep
<1>3. ASSUME NEW slot \in Slots, DeleteKey(slot) PROVE Inv'
  BY <1>3, DeleteStep
<1>4. CASE DeleteAllKeys
  BY <1>4, DeleteAllStep
<1>5. CASE Forget
  BY <1>5, ForgetStep
<1>6. CASE UNCHANGED blobVars
  BY <1>6, StutterStep
<1> QED
  BY <1>1, <1>2, <1>3, <1>4, <1>5, <1>6 DEF BlobsNext

-----------------------------------------------------------------------------
(* The theorems. *)

\* The invariant holds of every behaviour.
LEMMA Invariance == BlobsSpec => []Inv
<1>1. BlobsInit => Inv
  BY InitInv, KeyBlobsAssumption
<1>2. Inv /\ [BlobsNext]_blobVars => Inv'
  BY NextInv, KeyBlobsAssumption
<1> QED
  BY <1>1, <1>2, PTL DEF BlobsSpec

\* What ParseKeyBlob accepts, of blobs with fields exchanged, cut, extended or rewritten in
\* another format, is a key that was made, with its lists and hidden authorizations; and
\* every intact blob is read back as its key while its secrets exist.
THEOREM BlobsRead == BlobsSpec => []BlobsReadAsMade
<1>1. Inv => BlobsReadAsMade
  <2>1. ASSUME Inv PROVE IntactBlobsParse
    BY <2>1, IntactIsParsed, KeyBlobsAssumption, SMTT(20) DEF Inv, IntactBlobsParse
  <2> QED
    BY <2>1, SMTT(20) DEF Inv, BlobsReadAsMade
<1> QED
  BY <1>1, Invariance, PTL

\* A key blob whose secure deletion secrets are destroyed is not decrypted, as it was made or
\* as anything that became of it, under any hidden authorizations.
THEOREM DeletedBlobsStayDeleted == BlobsSpec => []DeletedStaysDeleted
<1>1. Inv => DeletedStaysDeleted
  <2>1. SUFFICES ASSUME Inv, NEW n \in DOMAIN made, NEW hidden \in HiddenSets, Destroyed(made[n]),
                        NEW blob \in Delivered(made[n])
                 PROVE  ParseKeyBlob(blob, hidden).material # made[n].material
    BY DEF DeletedStaysDeleted
  <2>2. Authentic(blob)
    BY <2>1, DeliveredIsAuthentic DEF Inv
  <2> QED
    BY <2>1, <2>2, DestroyedIsRefused, KeyBlobsAssumption DEF Inv
<1> QED
  BY <1>1, Invariance, PTL

\* The secrets of a destroyed blob never come back: no slot is given the same secret twice,
\* and no factory reset secret is used again.
DestroyedStays == [][\A n \in DOMAIN made : Destroyed(made[n]) => Destroyed(made[n])']_blobVars

\* A blob and the storage: what Destroyed compares.
Gone(d, reset, slots) == d.reset # reset \/ (d.slot # 0 /\ slots[d.slot] # d.secret)

\* One step does not bring back a secret.
LEMMA StaysGone ==
    ASSUME KeyBlobsAssumption, Inv, [BlobsNext]_blobVars, context = "storage"
    PROVE  \A d : DataWith(context, storage.fresh, d) /\ Gone(d, storage.reset, storage.slots)
                     => Gone(d, storage'.reset, storage'.slots)
<1> SUFFICES ASSUME NEW d, DataWith(context, storage.fresh, d), Gone(d, storage.reset, storage.slots)
             PROVE  Gone(d, storage'.reset, storage'.slots)
  OBVIOUS
<1>1. /\ d.reset \in Nat /\ d.reset < storage.fresh /\ d.secret \in Nat /\ d.secret < storage.fresh
      /\ d.slot \in Slots \cup {0} /\ (d.slot # 0 => d.secret # NoSecret)
  BY DEF DataWith
<1>2. /\ storage = [reset |-> storage.reset, slots |-> storage.slots, fresh |-> storage.fresh]
      /\ storage.fresh \in Nat /\ storage.slots \in [Slots -> Nat]
  BY DEF Inv, StorageOK
<1>3. ASSUME storage' = storage PROVE Gone(d, storage'.reset, storage'.slots)
  BY <1>3
<1>4. ASSUME NEW slot \in Slots, NEW x, x # d.secret \/ d.slot = 0,
             storage'.reset = storage.reset, storage'.slots = [storage.slots EXCEPT ![slot] = x]
      PROVE  Gone(d, storage'.reset, storage'.slots)
  <2>1. d.slot # 0 => storage'.slots[d.slot] = IF d.slot = slot THEN x ELSE storage.slots[d.slot]
    BY <1>1, <1>2, <1>4, SMTT(20)
  <2> QED
    BY <1>4, <2>1 DEF Gone
<1>5. ASSUME NEW m \in Makes, NEW hw \in Lists, NEW sw \in Lists,
             CreateKeyBlob(m.format, m.algorithm, hw, sw, m.hidden)
      PROVE  Gone(d, storage'.reset, storage'.slots)
  <2>1. PICK slot \in NewSlots(m.format) : storage' = StoreSecret(slot)
    BY <1>5, Zenon DEF CreateKeyBlob
  <2>2. slot = 0 \/ slot \in Slots
    BY DEF NewSlots, Unused
  <2>3. CASE slot = 0
    BY <1>3, <2>1, <2>3 DEF StoreSecret
  <2>4. CASE slot # 0
    <3>1. storage' = [reset |-> storage.reset, slots |-> [storage.slots EXCEPT ![slot] = storage.fresh], fresh |-> storage.fresh + 1]
      BY <1>2, <2>1, <2>4, Zenon DEF StoreSecret
    <3>2. storage'.reset = storage.reset /\ storage'.slots = [storage.slots EXCEPT ![slot] = storage.fresh]
      BY <3>1
    <3>3. storage.fresh # d.secret
      BY <1>1, <1>2, SMTT(20)
    <3> QED
      BY <1>4, <2>2, <2>4, <3>2, <3>3, Zenon
  <2> QED
    BY <2>3, <2>4
<1>6. ASSUME NEW slot \in Slots, DeleteKey(slot) PROVE Gone(d, storage'.reset, storage'.slots)
  <2>1. storage' = [reset |-> storage.reset, slots |-> [storage.slots EXCEPT ![slot] = NoSecret], fresh |-> storage.fresh]
    BY <1>6, DeleteStep, SMTT(20)
  <2>2. storage'.reset = storage.reset /\ storage'.slots = [storage.slots EXCEPT ![slot] = NoSecret]
    BY <2>1
  <2> QED
    BY <1>1, <1>4, <2>2, SMTT(20)
<1>7. CASE DeleteAllKeys
  <2>1. storage'.reset = storage.fresh
    BY <1>7 DEF DeleteAllKeys
  <2> QED
    BY <1>1, <1>2, <2>1 DEF Gone
<1>8. CASE UNCHANGED storage
  BY <1>3, <1>8
<1> QED
  BY <1>5, <1>6, <1>7, <1>8 DEF BlobsNext, ParseDelivered, Forget, blobVars

\* A step leaves the blobs made before it as they are.
LEMMA MadeGrows ==
    ASSUME [BlobsNext]_blobVars
    PROVE  context' = context /\ (made' = made \/ \E b : made' = Append(made, b))
<1>1. ASSUME NEW m \in Makes, NEW hw \in Lists, NEW sw \in Lists,
             CreateKeyBlob(m.format, m.algorithm, hw, sw, m.hidden)
      PROVE  context' = context /\ \E b : made' = Append(made, b)
  BY <1>1, Zenon DEF CreateKeyBlob
<1>2. ASSUME NEW blob, NEW hidden, ParseDelivered(blob, hidden) PROVE context' = context /\ made' = made
  BY <1>2 DEF ParseDelivered
<1>3. ASSUME NEW slot, DeleteKey(slot) PROVE context' = context /\ made' = made
  BY <1>3 DEF DeleteKey
<1>4. DeleteAllKeys \/ Forget \/ UNCHANGED blobVars => context' = context /\ made' = made
  BY DEF DeleteAllKeys, Forget, blobVars
<1> QED
  BY <1>1, <1>2, <1>3, <1>4 DEF BlobsNext

\* Secrets once destroyed stay destroyed, whatever keys are made or deleted afterwards: a blob
\* that DeletedStaysDeleted speaks of in one state is one that it speaks of for ever.
THEOREM DestroyedForGood == BlobsSpec => DestroyedStays
<1>1. Inv /\ [BlobsNext]_blobVars => [\A n \in DOMAIN made : Destroyed(made[n]) => Destroyed(made[n])']_blobVars
  <2>1. SUFFICES ASSUME Inv, [BlobsNext]_blobVars, NEW n \in DOMAIN made, Destroyed(made[n])
                 PROVE  Destroyed(made[n])'
    OBVIOUS
  <2>2. context = "storage" /\ requiresSecureDeletion(made[n].format) /\ Gone(made[n].data, storage.reset, storage.slots)
    BY <2>1 DEF Destroyed, Gone
  <2>3. DataWith(context, storage.fresh, made[n].data)
    <3>1. MadeOK(n, made[n])
      BY <2>1, SMTT(20) DEF Inv, MadeInv
    <3> QED
      BY <3>1, Zenon DEF MadeOK, MadeWith
  <2>4. Gone(made[n].data, storage'.reset, storage'.slots)
    BY <2>1, <2>2, <2>3, StaysGone, KeyBlobsAssumption
  <2>5. context' = context /\ (made' = made \/ \E b : made' = Append(made, b))
    BY <2>1, MadeGrows
  <2>6. made'[n] = made[n]
    <3>1. CASE made' = made
      BY <3>1
    <3>2. ASSUME NEW b, made' = Append(made, b) PROVE made'[n] = made[n]
      <4>1. IsSeq(made) /\ n \in 1..Len(made)
        BY <2>1 DEF Inv, MadeInv, IsSeq
      <4>2. \A i \in 1..Len(made) : Append(made, b)[i] = made[i]
        BY ONLY <4>1, AppendSeq
      <4> QED
        BY <3>2, <4>1, <4>2, Zenon
    <3> QED
      BY <2>5, <3>1, <3>2
  <2> QED
    BY <2>2, <2>4, <2>5, <2>6 DEF Destroyed, Gone
<1> QED
  BY <1>1, Invariance, PTL DEF BlobsSpec, DestroyedStays

=============================================================================
