-------------------------- MODULE HmacSharingProofs --------------------------
(***************************************************************************)
(* Proofs about HmacSharing: the parameters a party handed out since it    *)
(* was started stay good, and its key is of this boot; keys, tokens and    *)
(* sharing checks agree exactly if the lists of parameters do.  The second *)
(* part rests on what ckdf and the concatenation of the parameters         *)
(* compute, which is proved by induction over their loops.                 *)
(***************************************************************************)
EXTENDS HmacSharing, FiniteSetTheorems, SequenceTheorems, WellFoundedInduction, TLAPS

(***************************************************************************)
(* The inductive invariant.                                                *)
(***************************************************************************)

ParamsOf(p) == [party |-> p, boot |-> boots[p], nonce |-> saved_params[p].nonce]

\* The parameters of a party are the ones this boot drew and published, or not drawn yet.
SavedInv ==
    /\ boots \in [Parties -> Nat]
    /\ saved_params \in [Parties -> [have : BOOLEAN, nonce : {ZERO} \cup (Parties \X Nat)]]
    /\ \A p \in Parties :
          /\ saved_params[p].have => saved_params[p].nonce = Fresh(p) /\ ParamsOf(p) \in published
          /\ ~saved_params[p].have => saved_params[p].nonce = ZERO

\* What was published is of a boot that was, and of the present one only after this one drew.
PublishedInv ==
    \A params \in published :
        /\ params.party \in Parties /\ params.boot \in Nat
        /\ params.nonce = <<params.party, params.boot>>
        /\ params.boot <= boots[params.party]
        /\ params.boot = boots[params.party] => saved_params[params.party].have

\* A key was made from a list with the party's own parameters.
BasisInv ==
    /\ DOMAIN basis = Parties
    /\ \A p \in Parties :
          basis[p] \notin {NONE, BROKEN} =>
              saved_params[p].have /\ saved_params[p].nonce \in Range(basis[p])

BootInv == SavedInv /\ PublishedInv /\ BasisInv

\* No nonce that was drawn is the nonce of an instance that drew none.
LEMMA ZeroIsNoPair ==
    ASSUME NEW p, NEW n
    PROVE  <<p, n>> # ZERO
BY DEF ZERO

\* The parameters are drawn and published in one step, and never again in this boot.
LEMMA GetStep ==
    ASSUME BootInv, NEW p \in Parties, GetHmacSharingParameters(p)
    PROVE  BootInv'
<1>0. SavedInv /\ PublishedInv /\ BasisInv
  BY DEF BootInv
<1> DEFINE nonce == Fresh(p)
           mine == [party |-> p, boot |-> boots[p], nonce |-> nonce]
<1>1. /\ saved_params' = [saved_params EXCEPT ![p] = [have |-> TRUE, nonce |-> nonce]]
      /\ published' = published \cup {mine}
      /\ UNCHANGED <<boots, basis>>
  BY <1>0, Zenon DEF GetHmacSharingParameters, SavedInv
<1>2. nonce = <<p, boots[p]>> /\ boots[p] \in Nat /\ nonce \in Parties \X Nat
  BY <1>0 DEF SavedInv, Fresh
<1>3. Fresh(p)' = nonce /\ \A q \in Parties : Fresh(q)' = Fresh(q)
  BY <1>1 DEF Fresh
<1> HIDE DEF nonce
<1>4. \A q \in Parties :
         saved_params'[q] = IF q = p THEN [have |-> TRUE, nonce |-> nonce] ELSE saved_params[q]
  BY <1>0, <1>1 DEF SavedInv
<1>5. SavedInv'
  <2>1. saved_params' \in [Parties -> [have : BOOLEAN, nonce : {ZERO} \cup (Parties \X Nat)]]
    BY <1>0, <1>1, <1>2 DEF SavedInv
  <2>2. ASSUME NEW q \in Parties, saved_params'[q].have
        PROVE  saved_params'[q].nonce = Fresh(q)' /\ ParamsOf(q)' \in published'
    <3>1. CASE q = p
      BY <1>1, <1>3, <1>4, <3>1 DEF ParamsOf
    <3>2. CASE q # p
      <4>1. saved_params'[q] = saved_params[q] /\ ParamsOf(q)' = ParamsOf(q)
        BY <1>1, <1>4, <3>2 DEF ParamsOf
      <4> QED
        BY <1>0, <1>1, <1>3, <2>2, <4>1 DEF SavedInv
    <3> QED
      BY <3>1, <3>2
  <2>3. ASSUME NEW q \in Parties, ~saved_params'[q].have PROVE saved_params'[q].nonce = ZERO
    BY <1>0, <1>4, <2>3 DEF SavedInv
  <2> QED
    BY <1>0, <1>1, <2>1, <2>2, <2>3 DEF SavedInv
<1>6. PublishedInv'
  <2>1. ASSUME NEW params \in published
        PROVE  /\ params.party \in Parties /\ params.boot \in Nat
               /\ params.nonce = <<params.party, params.boot>>
               /\ params.boot <= boots[params.party]
               /\ params.boot = boots[params.party] => saved_params'[params.party].have
    BY <1>0, <1>4 DEF PublishedInv
  <2>2. /\ mine.party = p /\ mine.boot = boots[p] /\ mine.nonce = <<p, boots[p]>>
        /\ saved_params'[p].have
    BY <1>2, <1>4
  <2> QED
    BY <1>1, <1>2, <2>1, <2>2 DEF PublishedInv
<1>7. BasisInv'
  <2>1. ASSUME NEW q \in Parties, basis[q] \notin {NONE, BROKEN}
        PROVE  saved_params'[q].have /\ saved_params'[q].nonce \in Range(basis[q])
    <3>1. saved_params[q].have /\ saved_params[q].nonce \in Range(basis[q])
      BY <1>0, <2>1 DEF BasisInv
    <3>2. saved_params'[q].have /\ saved_params'[q].nonce = saved_params[q].nonce
      BY <1>0, <1>4, <3>1 DEF SavedInv, nonce
    <3> QED
      BY <3>1, <3>2
  <2> QED
    BY <1>0, <1>1, <2>1 DEF BasisInv
<1> QED
  BY <1>5, <1>6, <1>7 DEF BootInv

\* A list is accepted only if it holds the party's own nonce, which then was drawn.
LEMMA ComputeStep ==
    ASSUME BootInv, NEW p \in Parties, NEW list \in ParamLists, NEW outcome,
           ComputeSharedHmac(p, list, outcome)
    PROVE  BootInv'
<1>0. SavedInv /\ PublishedInv /\ BasisInv
  BY DEF BootInv
<1>1. /\ MISSIZED \notin Range(list) /\ saved_params[p].nonce \in Range(list)
      /\ basis' = [basis EXCEPT ![p] = IF outcome = "ok" THEN list ELSE BROKEN]
      /\ UNCHANGED <<boots, saved_params, published>>
  BY DEF ComputeSharedHmac
<1>2. saved_params[p].have
  <2>1. saved_params[p].nonce \in Nonces
    BY <1>1 DEF ParamLists, Range
  <2>2. PICK params \in published : params.nonce = saved_params[p].nonce
    BY <2>1 DEF Nonces
  <2>3. saved_params[p].nonce # ZERO
    BY <1>0, <2>2, ZeroIsNoPair DEF PublishedInv
  <2> QED
    BY <1>0, <2>3 DEF SavedInv
<1>3. SavedInv' /\ PublishedInv'
  BY <1>0, <1>1 DEF SavedInv, PublishedInv, ParamsOf, Fresh
<1>4. BasisInv'
  BY <1>0, <1>1, <1>2 DEF BasisInv
<1> QED
  BY <1>3, <1>4 DEF BootInv

\* A restarted party forgets its parameters and its key; what it published is of an
\* earlier boot from then on.
LEMMA RestartStep ==
    ASSUME BootInv, NEW p \in Parties, Restart(p)
    PROVE  BootInv'
<1>0. SavedInv /\ PublishedInv /\ BasisInv
  BY DEF BootInv
<1> DEFINE forgotten == [have |-> FALSE, nonce |-> ZERO]
<1>1. /\ saved_params' = [saved_params EXCEPT ![p] = forgotten]
      /\ boots' = [boots EXCEPT ![p] = boots[p] + 1]
      /\ basis' = [basis EXCEPT ![p] = NONE] /\ published' = published
  BY DEF Restart
<1>2. forgotten \in [have : BOOLEAN, nonce : {ZERO} \cup (Parties \X Nat)]
      /\ ~forgotten.have /\ forgotten.nonce = ZERO
  OBVIOUS
<1> HIDE DEF forgotten
<1>3. /\ boots' \in [Parties -> Nat]
      /\ \A q \in Parties : boots'[q] = IF q = p THEN boots[p] + 1 ELSE boots[q]
  BY <1>0, <1>1 DEF SavedInv
<1>4. /\ saved_params' \in [Parties -> [have : BOOLEAN, nonce : {ZERO} \cup (Parties \X Nat)]]
      /\ \A q \in Parties : saved_params'[q] = IF q = p THEN forgotten ELSE saved_params[q]
  BY <1>0, <1>1, <1>2 DEF SavedInv
<1>5. SavedInv'
  <2>1. ASSUME NEW q \in Parties, saved_params'[q].have
        PROVE  saved_params'[q].nonce = Fresh(q)' /\ ParamsOf(q)' \in published'
    <3>1. q # p
      BY <1>2, <1>4, <2>1
    <3>2. saved_params'[q] = saved_params[q] /\ boots'[q] = boots[q]
      BY <1>3, <1>4, <3>1
    <3>3. Fresh(q)' = Fresh(q) /\ ParamsOf(q)' = ParamsOf(q)
      BY <3>2 DEF Fresh, ParamsOf
    <3> QED
      BY <1>0, <1>1, <2>1, <3>2, <3>3 DEF SavedInv
  <2>2. ASSUME NEW q \in Parties, ~saved_params'[q].have PROVE saved_params'[q].nonce = ZERO
    BY <1>0, <1>2, <1>4, <2>2 DEF SavedInv
  <2> QED
    BY <1>3, <1>4, <2>1, <2>2 DEF SavedInv
<1>6. PublishedInv'
  <2> SUFFICES ASSUME NEW params \in published
               PROVE  /\ params.party \in Parties /\ params.boot \in Nat
                      /\ params.nonce = <<params.party, params.boot>>
                      /\ params.boot <= boots'[params.party]
                      /\ params.boot = boots'[params.party] => saved_params'[params.party].have
    BY <1>1 DEF PublishedInv
  <2>1. /\ params.party \in Parties /\ params.boot \in Nat /\ boots[params.party] \in Nat
        /\ params.nonce = <<params.party, params.boot>>
        /\ params.boot <= boots[params.party]
        /\ params.boot = boots[params.party] => saved_params[params.party].have
    BY <1>0 DEF PublishedInv, SavedInv
  <2> QED
    BY <1>3, <1>4, <2>1
<1>7. BasisInv'
  BY <1>0, <1>1, <1>4 DEF BasisInv
<1> QED
  BY <1>5, <1>6, <1>7 DEF BootInv

\* Every step keeps the invariant; signing a token and the clock do not concern it.
LEMMA BootStep ==
    ASSUME BootInv, [Next]_vars
    PROVE  BootInv'
<1>1. ASSUME UNCHANGED <<boots, saved_params, basis, published>> PROVE BootInv'
  BY <1>1 DEF BootInv, SavedInv, PublishedInv, BasisInv, ParamsOf, Fresh
<1>2. ASSUME NEW p, NEW c, VerifyAuthorization(p, c) \/ GenerateTimestampToken(p, c)
      PROVE  BootInv'
  BY <1>1, <1>2 DEF VerifyAuthorization, GenerateTimestampToken, Mint
<1>3. CASE Tick \/ UNCHANGED vars
  BY <1>1, <1>3 DEF Tick, vars
<1> QED
  BY <1>2, <1>3, GetStep, ComputeStep, RestartStep DEF Next

\* Before the first call nothing is drawn, published or derived.
LEMMA BootStart == Init => BootInv
<1> SUFFICES ASSUME Init PROVE BootInv
  OBVIOUS
<1>1. SavedInv
  BY DEF Init, SavedInv
<1>2. PublishedInv /\ BasisInv
  BY DEF Init, PublishedInv, BasisInv
<1> QED
  BY <1>1, <1>2 DEF BootInv

\* The invariant holds throughout.
LEMMA BootInvariance == Spec => []BootInv
BY BootStart, BootStep, PTL DEF Spec

\* A party only ever holds a key that was made from a list with the parameters it handed
\* out since it was last started, also if it is given lists with parameters of earlier
\* boots; and what GetHmacSharingParameters handed out since then stays good.
THEOREM OfThisBoot == Spec => []SharingIsOfThisBoot
<1>1. BootInv => SharingIsOfThisBoot
  <2> SUFFICES ASSUME BootInv PROVE SharingIsOfThisBoot
    OBVIOUS
  <2>1. KeyIsOfThisBoot
    BY DEF BootInv, SavedInv, BasisInv, ParamsOf, KeyIsOfThisBoot
  <2>2. PublishedStaysValid
    BY DEF BootInv, SavedInv, PublishedInv, Fresh, PublishedStaysValid
  <2> QED
    BY <2>1, <2>2 DEF SharingIsOfThisBoot
<1> QED
  BY <1>1, BootInvariance, PTL

(***************************************************************************)
(* What ckdf computes.                                                     *)
(***************************************************************************)

\* Induction over the natural numbers, for the elements of a set.
LEMMA SetInduction ==
    ASSUME NEW T, 0 \in T, \A n \in Nat : n \in T => n + 1 \in T
    PROVE  Nat \subseteq T
<1> SUFFICES ASSUME Nat \ T # {} PROVE FALSE
  OBVIOUS
<1>1. PICK x \in Nat \ T : \A y \in Nat \ T : ~(<<y, x>> \in OpToRel(<, Nat))
  BY NatLessThanWellFounded, WFMin, Zenon
<1>2. x \in Nat /\ x # 0 /\ x - 1 \in Nat
  OBVIOUS
<1>3. <<x - 1, x>> \in OpToRel(<, Nat)
  BY <1>2 DEF OpToRel
<1>4. x - 1 \in T
  BY <1>1, <1>2, <1>3, Zenon
<1> QED
  BY <1>2, <1>4

\* Division with remainder by the size of a block.
LEMMA DivMod ==
    ASSUME NEW B \in Nat \ {0}, NEW q \in Nat, NEW r \in 0 .. B - 1
    PROVE  (q * B + r) \div B = q /\ (q * B + r) % B = r
OBVIOUS

Block(key, label, context, size, i) == cmac(key, <<i, label, 0, context, size * 8>>)

\* The byte of the concatenated blocks at a position, and what i blocks fill.
CkdfByte(key, label, context, size, n) ==
    Block(key, label, context, size, 1 + (n - 1) \div AES_BLOCK_SIZE)[1 + ((n - 1) % AES_BLOCK_SIZE)]

Filled(size, i) == IF i * AES_BLOCK_SIZE <= size THEN i * AES_BLOCK_SIZE ELSE size

CkdfPrefix(key, label, context, size, i) ==
    [n \in 1 .. Filled(size, i) |-> CkdfByte(key, label, context, size, n)]

\* What block i adds to the output.
Added(key, label, context, size, i, room) ==
    IF AES_BLOCK_SIZE <= room THEN Block(key, label, context, size, i)
    ELSE SubSeq(Block(key, label, context, size, i), 1, room)

\* A block is a sequence of AES_BLOCK_SIZE bytes.
LEMMA BlockType ==
    ASSUME NEW key, NEW label, NEW context, NEW size, NEW i
    PROVE  LET b == Block(key, label, context, size, i) IN
           b \in Seq({b[j] : j \in 1 .. AES_BLOCK_SIZE}) /\ Len(b) = AES_BLOCK_SIZE
BY SizeAssumption DEF Block, cmac

\* A block fills its length, or what is left; while something is left, all blocks before
\* were written whole.
LEMMA FilledStep ==
    ASSUME NEW size \in Nat, NEW i \in Nat
    PROVE  LET B == AES_BLOCK_SIZE
               room == size - Filled(size, i) IN
           /\ Filled(size, i) \in Nat /\ Filled(size, i + 1) \in Nat
           /\ room \in Nat
           /\ B <= room => Filled(size, i) = i * B /\ Filled(size, i + 1) = i * B + B
           /\ B > room => Filled(size, i + 1) = size
           /\ room > 0 => Filled(size, i) = i * B
<1> DEFINE B == AES_BLOCK_SIZE
           p == i * B
<1>1. B \in Nat /\ B > 0 /\ p \in Nat /\ (i + 1) * B = p + B
  BY SizeAssumption
<1> HIDE DEF p
<1>2. Filled(size, i) = (IF p <= size THEN p ELSE size)
      /\ Filled(size, i + 1) = (IF p + B <= size THEN p + B ELSE size)
  BY <1>1 DEF Filled, p
<1>3. i * B = p
  BY DEF p
<1> HIDE DEF B
<1> QED
  BY <1>1, <1>2, <1>3 DEF B

\* One more block makes the output of i blocks that of i + 1.
LEMMA PrefixStep ==
    ASSUME NEW key, NEW label, NEW context, NEW size \in Nat, NEW i \in Nat
    PROVE  CkdfPrefix(key, label, context, size, i + 1)
           = CkdfPrefix(key, label, context, size, i)
             \o Added(key, label, context, size, i + 1, size - Filled(size, i))
<1> DEFINE B == AES_BLOCK_SIZE
           f == Filled(size, i)
           g == Filled(size, i + 1)
           room == size - f
           block == Block(key, label, context, size, i + 1)
           more == Added(key, label, context, size, i + 1, room)
           byte(n) == CkdfByte(key, label, context, size, n)
<1>0. /\ f \in Nat /\ g \in Nat /\ room \in Nat /\ B \in Nat \ {0}
      /\ B <= room => f = i * B /\ g = i * B + B
      /\ B > room => g = size
      /\ room > 0 => f = i * B
  BY FilledStep, SizeAssumption
<1>1. block = [j \in 1 .. B |-> block[j]] /\ Len(block) = B
  BY <1>0 DEF Block, cmac
<1>2. more \in Seq({block[j] : j \in 1 .. B}) /\ Len(more) = g - f
      /\ \A j \in 1 .. g - f : more[j] = block[j]
  <2>1. more = IF B <= room THEN block ELSE SubSeq(block, 1, room)
    BY DEF Added
  <2>2. block \in Seq({block[j] : j \in 1 .. B})
    BY BlockType
  <2> HIDE DEF block, f, g, more, room, B
  <2>3. CASE B <= room
    <3>1. more = block /\ g - f = B
      BY <1>0, <2>1, <2>3
    <3> QED
      BY <1>1, <2>2, <3>1, Zenon
  <2>4. CASE B > room
    <3>1. more = SubSeq(block, 1, room) /\ g - f = room /\ room <= B /\ room \in Nat
      BY <1>0, <2>1, <2>4 DEF room
    <3>2. \A j \in 1 .. room : block[j] \in {block[k] : k \in 1 .. B}
      BY <1>0, <3>1
    <3> DEFINE S == {block[k] : k \in 1 .. B}
    <3> HIDE DEF S
    <3>3. /\ SubSeq(block, 1, room) \in Seq(S) /\ Len(SubSeq(block, 1, room)) = room
          /\ \A j \in 1 .. room : SubSeq(block, 1, room)[j] = block[j]
      <4>1. \A j \in 1 .. room : block[j] \in S
        BY <3>2 DEF S
      <4>2. block \in Seq(S) /\ 1 \in Nat /\ room <= Len(block)
        BY <1>0, <1>1, <2>2, <3>1 DEF S
      <4> QED
        BY <3>1, <4>1, <4>2, SubSeqProperties
    <3> QED
      BY <3>1, <3>3 DEF S
  <2> QED
    BY <1>0, <2>3, <2>4
<1>3. ASSUME NEW j \in 1 .. g - f PROVE byte(f + j) = block[j]
  <2>1. room > 0 /\ f = i * B /\ j - 1 \in 0 .. B - 1
    BY <1>0
  <2>2. (i * B + (j - 1)) \div B = i /\ (i * B + (j - 1)) % B = j - 1
    BY ONLY <1>0, <2>1, DivMod, i \in Nat, Zenon
  <2>3. (f + j) - 1 = i * B + (j - 1)
    BY <1>0, <2>1
  <2>4. 1 + ((f + j) - 1) \div B = i + 1 /\ 1 + (((f + j) - 1) % B) = j
    BY <2>2, <2>3
  <2> QED
    BY <2>4 DEF CkdfByte
<1>4. f \in Nat /\ g \in Nat /\ g = f + (g - f) /\ g - f \in Nat
  BY <1>0, <1>2, LenProperties
<1> DEFINE old == CkdfPrefix(key, label, context, size, i)
           new == CkdfPrefix(key, label, context, size, i + 1)
<1>5. /\ old = [n \in 1 .. f |-> byte(n)] /\ new = [n \in 1 .. g |-> byte(n)]
  BY DEF CkdfPrefix
<1> HIDE DEF f, g, block, more, byte, old, new, room
<1> DEFINE S == {byte(n) : n \in 1 .. g} \cup {byte(n) : n \in 1 .. f} \cup {block[j] : j \in 1 .. B}
<1>6. /\ old \in Seq(S) /\ Len(old) = f /\ DOMAIN old = 1 .. f
      /\ new \in Seq(S) /\ Len(new) = g /\ DOMAIN new = 1 .. g
      /\ more \in Seq(S)
  <2>1. old \in [1 .. f -> S]
    BY <1>5
  <2>2. new \in [1 .. g -> S]
    BY <1>5
  <2>3. \A j \in 1 .. Len(more) : more[j] \in S
    BY <1>2, ElementOfSeq
  <2>4. more \in [1 .. Len(more) -> S] /\ Len(more) \in Nat
    BY <1>2, <2>3, LenProperties
  <2> HIDE DEF S
  <2> QED
    BY <1>4, <2>1, <2>2, <2>4
<1> HIDE DEF S
<1>7. /\ old \o more \in Seq(S) /\ Len(old \o more) = g
      /\ \A n \in 1 .. g : (old \o more)[n] = IF n <= f THEN old[n] ELSE more[n - f]
  <2>1. /\ old \o more \in Seq(S) /\ Len(old \o more) = Len(old) + Len(more)
        /\ \A n \in 1 .. Len(old) + Len(more) :
              (old \o more)[n] = IF n <= Len(old) THEN old[n] ELSE more[n - Len(old)]
    BY ONLY <1>6, ConcatProperties
  <2>2. Len(old) = f /\ Len(more) = g - f /\ f + (g - f) = g
    BY <1>2, <1>4, <1>6
  <2> QED
    BY <2>1, <2>2
<1>8. ASSUME NEW n \in 1 .. g PROVE (old \o more)[n] = new[n]
  <2>1. CASE n <= f
    BY <1>4, <1>5, <1>7, <2>1
  <2>2. CASE n > f
    <3>1. n - f \in 1 .. g - f /\ f + (n - f) = n
      BY <1>4, <2>2
    <3>2. (old \o more)[n] = more[n - f]
      BY <1>4, <1>7, <2>2
    <3>3. more[n - f] = block[n - f] /\ byte(f + (n - f)) = block[n - f]
      BY <1>2, <1>3, <3>1
    <3> QED
      BY <1>5, <3>1, <3>2, <3>3, Zenon
  <2>3. n <= f \/ n > f
    BY <1>4
  <2> QED
    BY <2>1, <2>2, <2>3, Zenon
<1>9. old \o more = new
  BY <1>6, <1>7, <1>8, SeqEqual
<1> QED
  BY <1>9 DEF old, new, more, room, f

\* The number of blocks that ckdf computes is enough to fill the output.
LEMMA RoundUp ==
    ASSUME NEW size \in Nat
    PROVE  /\ div_round_up(size, AES_BLOCK_SIZE) \in Nat
           /\ Filled(size, div_round_up(size, AES_BLOCK_SIZE)) = size
<1> DEFINE B == AES_BLOCK_SIZE
           q == div_round_up(size, B)
           r == (size + B - 1) % B
<1>1. B \in Nat /\ B > 0
  BY SizeAssumption
<1>2. q \in Nat /\ r \in 0 .. B - 1 /\ size + B - 1 = q * B + r
  BY <1>1 DEF div_round_up
<1>3. q * B \in Int /\ q * B >= size
  BY <1>1, <1>2
<1> HIDE DEF q
<1>4. Filled(size, q) = size
  BY <1>3 DEF Filled
<1> QED
  BY <1>2, <1>4 DEF q

\* ckdf gives, for every size, that many bytes of the concatenated blocks: the loop computes
\* the prefixes, whatever the sizes of block and output.
LEMMA CkdfValue ==
    ASSUME NEW key, NEW label, NEW context, NEW size \in Nat
    PROVE  ckdf(key, label, context, size)
           = [n \in 1 .. size |-> CkdfByte(key, label, context, size, n)]
<1> DEFINE Grown(f, i) == IF i = 0 THEN <<>>
                          ELSE f[i - 1] \o Added(key, label, context, size, i, size - Len(f[i - 1]))
           prefix == [i \in Nat |-> CkdfPrefix(key, label, context, size, i)]
           out == CHOOSE f : f = [i \in Nat |-> Grown(f, i)]
<1>1. ckdf(key, label, context, size) = out[div_round_up(size, AES_BLOCK_SIZE)]
  BY DEF ckdf, Added, Block
<1>2. \A i \in Nat : Len(prefix[i]) = Filled(size, i)
  BY FilledStep DEF CkdfPrefix
<1>3. prefix[0] = <<>>
  BY SizeAssumption DEF CkdfPrefix, Filled
<1>4. ASSUME NEW i \in Nat PROVE prefix[i + 1] = Grown(prefix, i + 1)
  <2>1. i + 1 \in Nat /\ i + 1 # 0 /\ (i + 1) - 1 = i
    OBVIOUS
  <2>2. Grown(prefix, i + 1)
        = prefix[i] \o Added(key, label, context, size, i + 1, size - Len(prefix[i]))
    BY <2>1
  <2>3. /\ prefix[i] = CkdfPrefix(key, label, context, size, i)
        /\ prefix[i + 1] = CkdfPrefix(key, label, context, size, i + 1)
    BY <2>1
  <2>4. Len(prefix[i]) = Filled(size, i)
    BY <1>2
  <2>5. CkdfPrefix(key, label, context, size, i + 1)
        = CkdfPrefix(key, label, context, size, i)
          \o Added(key, label, context, size, i + 1, size - Filled(size, i))
    BY PrefixStep, Zenon
  <2> HIDE DEF prefix, Grown
  <2> QED
    BY ONLY <2>2, <2>3, <2>4, <2>5, Zenon
<1>5. prefix = [i \in Nat |-> Grown(prefix, i)]
  <2>1. \A i \in Nat : i = 0 \/ (i - 1 \in Nat /\ (i - 1) + 1 = i)
    OBVIOUS
  <2>2. ASSUME NEW i \in Nat PROVE prefix[i] = Grown(prefix, i)
    <3>0. Grown(prefix, 0) = <<>>
      OBVIOUS
    <3> HIDE DEF prefix, Grown
    <3>1. CASE i = 0
      BY <1>3, <3>0, <3>1
    <3>2. CASE i # 0
      <4>1. i - 1 \in Nat /\ (i - 1) + 1 = i
        BY <2>1, <3>2
      <4>2. prefix[(i - 1) + 1] = Grown(prefix, (i - 1) + 1)
        BY <1>4, <4>1, SMTT(20)
      <4> QED
        BY ONLY <4>1, <4>2
    <3> QED
      BY <3>1, <3>2
  <2> QED
    BY <2>2, Zenon
<1>6. out = [i \in Nat |-> Grown(out, i)]
  BY <1>5, Zenon
<1> HIDE DEF out, prefix
<1>7. Nat \subseteq {i \in Nat : out[i] = prefix[i]}
  <2>1. 0 \in {i \in Nat : out[i] = prefix[i]}
    BY <1>3, <1>6
  <2>2. ASSUME NEW i \in Nat, i \in {j \in Nat : out[j] = prefix[j]}
        PROVE  i + 1 \in {j \in Nat : out[j] = prefix[j]}
    <3>1. out[i + 1] = Grown(out, i + 1)
      <4>1. \A j \in Nat : out[j] = Grown(out, j)
        BY <1>6, Zenon
      <4> HIDE DEF Grown
      <4> QED
        BY <4>1
    <3>2. Grown(out, i + 1) = Grown(prefix, i + 1)
      BY <2>2
    <3> QED
      BY <1>4, <3>1, <3>2
  <2> QED
    BY <2>1, <2>2, SetInduction, Zenon
<1>8. out[div_round_up(size, AES_BLOCK_SIZE)] = prefix[div_round_up(size, AES_BLOCK_SIZE)]
  BY <1>7, RoundUp
<1> QED
  BY <1>1, <1>8, RoundUp, Zenon DEF prefix, CkdfPrefix

(***************************************************************************)
(* What the key is derived from.                                           *)
(***************************************************************************)

\* The bytes of a list of nonces, one nonce after the other.
FlatByte(list, n) == list[(n + 1) \div 2][IF n % 2 = 1 THEN 1 ELSE 2]

\* A nonce is two bytes.
LEMMA PairIsSeq ==
    ASSUME NEW P, NEW x \in P \X Nat
    PROVE  x \in Seq(P \cup Nat) /\ Len(x) = 2
<1>1. PICK a \in P, b \in Nat : x = <<a, b>>
  OBVIOUS
<1>2. a \in P \cup Nat /\ b \in P \cup Nat
  OBVIOUS
<1>3. <<a, b>> \in Seq(P \cup Nat) /\ Len(<<a, b>>) = 2
  BY <1>2
<1> QED
  BY <1>1, <1>3

\* Two nonces are equal if their parts are.
LEMMA PairEqual ==
    ASSUME NEW P, NEW x \in P \X Nat, NEW y \in P \X Nat, x[1] = y[1], x[2] = y[2]
    PROVE  x = y
<1>1. PICK a \in P, b \in Nat : x = <<a, b>>
  OBVIOUS
<1>2. PICK c \in P, d \in Nat : y = <<c, d>>
  OBVIOUS
<1> QED
  BY <1>1, <1>2

\* One more nonce makes the concatenation of i nonces that of i + 1.
LEMMA FlatStep ==
    ASSUME NEW P, NEW list \in Seq(P \X Nat), NEW i \in Nat, i + 1 \in 1 .. Len(list)
    PROVE  [n \in 1 .. 2 * (i + 1) |-> FlatByte(list, n)]
           = [n \in 1 .. 2 * i |-> FlatByte(list, n)] \o list[i + 1]
<1> DEFINE old == [n \in 1 .. 2 * i |-> FlatByte(list, n)]
           new == [n \in 1 .. 2 * (i + 1) |-> FlatByte(list, n)]
           x == list[i + 1]
           S == P \cup Nat
<1>1. x \in P \X Nat
  BY ElementOfSeq
<1>2. x \in Seq(S) /\ Len(x) = 2
  BY <1>1, PairIsSeq
<1>3. \A n \in 1 .. 2 * (i + 1) : FlatByte(list, n) \in S
  <2> SUFFICES ASSUME NEW n \in 1 .. 2 * (i + 1) PROVE FlatByte(list, n) \in S
    OBVIOUS
  <2>1. (n + 1) \div 2 \in 1 .. Len(list)
    BY LenProperties
  <2>2. list[(n + 1) \div 2] \in P \X Nat
    BY <2>1, ElementOfSeq
  <2> QED
    BY <2>2 DEF FlatByte
<1>4. old \in Seq(S) /\ Len(old) = 2 * i /\ new \in Seq(S) /\ Len(new) = 2 * (i + 1)
  BY <1>3
<1>5. /\ old \o x \in Seq(S) /\ Len(old \o x) = Len(old) + Len(x)
      /\ \A n \in 1 .. Len(old) + Len(x) :
            (old \o x)[n] = IF n <= Len(old) THEN old[n] ELSE x[n - Len(old)]
  <2> HIDE DEF old, x, S
  <2> QED
    BY ONLY <1>2, <1>4, ConcatProperties, Zenon
<1>6. ASSUME NEW n \in 1 .. 2 * (i + 1) PROVE (old \o x)[n] = FlatByte(list, n)
  <2> HIDE DEF x
  <2>1. CASE n <= 2 * i
    BY <1>2, <1>4, <1>5, <2>1
  <2>2. CASE n = 2 * i + 1
    <3>1. (n + 1) \div 2 = i + 1 /\ n % 2 = 1 /\ n - 2 * i = 1
      BY <2>2
    <3>2. (old \o x)[n] = x[1]
      BY <1>2, <1>4, <1>5, <2>2
    <3> QED
      BY <3>1, <3>2 DEF FlatByte, x
  <2>3. CASE n = 2 * i + 2
    <3>1. (n + 1) \div 2 = i + 1 /\ n % 2 = 0 /\ n - 2 * i = 2
      BY <2>3
    <3>2. (old \o x)[n] = x[2]
      BY <1>2, <1>4, <1>5, <2>3
    <3> QED
      BY <3>1, <3>2 DEF FlatByte, x
  <2>4. n <= 2 * i \/ n = 2 * i + 1 \/ n = 2 * i + 2
    OBVIOUS
  <2> QED
    BY <2>1, <2>2, <2>3, <2>4, Zenon
<1>7. Len(old \o x) = Len(new)
  <2> HIDE DEF old, new, x
  <2> QED
    BY <1>2, <1>4, <1>5
<1>8. \A n \in 1 .. Len(new) : new[n] = (old \o x)[n]
  BY <1>4, <1>6, Zenon
<1> HIDE DEF old, new, x, S
<1>9. new = old \o x
  BY <1>4, <1>5, <1>7, <1>8, SeqEqual, Zenon
<1> QED
  BY <1>9, Zenon DEF old, new, x

\* What the MAC is fed is the nonces one after the other.
LEMMA FlatValue ==
    ASSUME NEW P, NEW list \in Seq(P \X Nat)
    PROVE  context_chunks(list) = [n \in 1 .. 2 * Len(list) |-> FlatByte(list, n)]
<1> DEFINE k == Len(list)
           Joined(f, i) == IF i = 0 THEN <<>> ELSE f[i - 1] \o list[i]
           prefix == [i \in 0 .. k |-> [n \in 1 .. 2 * i |-> FlatByte(list, n)]]
           fed == CHOOSE f : f = [i \in 0 .. k |-> Joined(f, i)]
<1>0. k \in Nat
  BY LenProperties
<1>1. context_chunks(list) = fed[k]
  BY DEF context_chunks
<1>2. prefix[0] = <<>>
  BY <1>0
<1>3. ASSUME NEW i \in Nat, i + 1 \in 0 .. k PROVE prefix[i + 1] = prefix[i] \o list[i + 1]
  <2>1. i \in 0 .. k /\ i + 1 \in 1 .. Len(list)
    BY <1>0, <1>3
  <2>2. [n \in 1 .. 2 * (i + 1) |-> FlatByte(list, n)]
        = [n \in 1 .. 2 * i |-> FlatByte(list, n)] \o list[i + 1]
    BY <2>1, FlatStep, Zenon
  <2> QED
    BY <1>3, <2>1, <2>2, Zenon
<1> HIDE DEF k
<1>4. prefix = [i \in 0 .. k |-> Joined(prefix, i)]
  <2>1. ASSUME NEW i \in 0 .. k PROVE prefix[i] = Joined(prefix, i)
    <3>1. i = 0 \/ (i - 1 \in Nat /\ (i - 1) + 1 = i)
      BY <1>0
    <3> HIDE DEF prefix
    <3>2. CASE i = 0
      BY <1>2, <3>2
    <3>3. CASE i # 0
      BY <1>3, <3>1, <3>3, Zenon
    <3> QED
      BY <3>2, <3>3
  <2> HIDE DEF Joined
  <2> QED
    BY <2>1
<1>5. fed = [i \in 0 .. k |-> Joined(fed, i)]
  BY <1>4, Zenon
<1> HIDE DEF fed, prefix
<1>6. \A i \in 0 .. k : fed[i] = Joined(fed, i)
  BY ONLY <1>5, Zenon
<1> DEFINE T == {i \in Nat : i \in 0 .. k => fed[i] = prefix[i]}
<1>7. Nat \subseteq T
  <2>1. 0 \in T
    BY <1>2, <1>6
  <2>2. ASSUME NEW i \in Nat, i \in T PROVE i + 1 \in T
    <3> SUFFICES ASSUME i + 1 \in 0 .. k PROVE fed[i + 1] = prefix[i + 1]
      OBVIOUS
    <3>1. i \in 0 .. k /\ i + 1 # 0 /\ (i + 1) - 1 = i
      BY <1>0
    <3>2. fed[i + 1] = fed[i] \o list[i + 1]
      BY <1>6, <3>1, Zenon
    <3>3. fed[i] = prefix[i]
      BY <2>2, <3>1
    <3> QED
      BY <1>3, <3>2, <3>3, Zenon
  <2> HIDE DEF T
  <2> QED
    BY <2>1, <2>2, SetInduction, Zenon
<1>8. fed[k] = prefix[k]
  BY <1>0, <1>7
<1> QED
  BY <1>0, <1>1, <1>8 DEF prefix, k

\* Since nonces have one length, no two lists are fed to the MAC as the same bytes.
LEMMA FlatInjective ==
    ASSUME NEW P, NEW l \in Seq(P \X Nat), NEW m \in Seq(P \X Nat),
           context_chunks(l) = context_chunks(m)
    PROVE  l = m
<1>0. Len(l) \in Nat /\ Len(m) \in Nat
  BY LenProperties
<1>1. [n \in 1 .. 2 * Len(l) |-> FlatByte(l, n)] = [n \in 1 .. 2 * Len(m) |-> FlatByte(m, n)]
  BY FlatValue, Zenon
<1>2. 1 .. 2 * Len(l) = 1 .. 2 * Len(m)
  BY <1>1
<1>3. Len(l) = Len(m)
  BY <1>0, <1>2
<1>4. \A n \in 1 .. 2 * Len(l) : FlatByte(l, n) = FlatByte(m, n)
  BY <1>1, <1>2, Zenon
<1>5. ASSUME NEW i \in 1 .. Len(l) PROVE l[i] = m[i]
  <2>1. /\ 2 * i - 1 \in 1 .. 2 * Len(l) /\ 2 * i \in 1 .. 2 * Len(l)
        /\ ((2 * i - 1) + 1) \div 2 = i /\ (2 * i - 1) % 2 = 1
        /\ (2 * i + 1) \div 2 = i /\ (2 * i) % 2 = 0
    BY <1>0
  <2>2. l[i][1] = m[i][1] /\ l[i][2] = m[i][2]
    BY <1>4, <2>1, Zenon DEF FlatByte
  <2>3. l[i] \in P \X Nat /\ m[i] \in P \X Nat
    BY <1>3, ElementOfSeq
  <2> QED
    BY <2>2, <2>3, PairEqual
<1> QED
  BY <1>3, <1>5, SeqEqual

(***************************************************************************)
(* Keys and tokens follow the lists.                                       *)
(***************************************************************************)

Lists == Seq(Parties \X Nat)

\* The bytes a failed derivation leaves in the key.
Undefined(p) == [j \in 1 .. SHA256_DIGEST_LENGTH |-> <<"undefined", p, j>>]

\* Different lists give different keys, and no list gives an empty or an undefined one.
LEMMA SharedKeyApart ==
    ASSUME NEW l \in Lists, NEW m \in Lists
    PROVE  /\ Len(SharedKey(l)) = SHA256_DIGEST_LENGTH /\ SharedKey(l) # <<>>
           /\ \A p : SharedKey(l) # Undefined(p)
           /\ SharedKey(l) = SharedKey(m) => l = m
<1> DEFINE size == SHA256_DIGEST_LENGTH
           input(list) == <<1, "KeymasterSharedMac", 0, context_chunks(list), size * 8>>
<1>1. size \in Nat /\ 1 \in 1 .. size
  BY SizeAssumption
<1>2. \A list : SharedKey(list) =
                  [n \in 1 .. size |-> CkdfByte("kFakeKeyAgreementKey", "KeymasterSharedMac",
                                                context_chunks(list), size, n)]
  BY <1>1, CkdfValue DEF SharedKey
<1>3. \A list : SharedKey(list)[1] = <<"kFakeKeyAgreementKey", input(list), 1>>
  <2>1. (1 - 1) \div AES_BLOCK_SIZE = 0 /\ (1 - 1) % AES_BLOCK_SIZE = 0 /\ 1 \in 1 .. AES_BLOCK_SIZE
    BY SizeAssumption
  <2>2. ASSUME NEW list
        PROVE  CkdfByte("kFakeKeyAgreementKey", "KeymasterSharedMac", context_chunks(list), size, 1)
               = <<"kFakeKeyAgreementKey", input(list), 1>>
    <3>1. CkdfByte("kFakeKeyAgreementKey", "KeymasterSharedMac", context_chunks(list), size, 1)
          = cmac("kFakeKeyAgreementKey", input(list))[1]
      BY <2>1 DEF CkdfByte, Block
    <3> HIDE DEF input
    <3> QED
      BY <2>1, <3>1 DEF cmac
  <2> QED
    BY <1>1, <1>2, <2>2
<1>4. Len(SharedKey(l)) = size /\ SharedKey(l) # <<>>
  BY <1>1, <1>2
<1>5. \A p : SharedKey(l) # Undefined(p)
  <2>1. \A p : Undefined(p)[1] = <<"undefined", p, 1>>
    BY <1>1 DEF Undefined
  <2> QED
    BY <1>3, <2>1
<1>6. ASSUME SharedKey(l) = SharedKey(m) PROVE l = m
  <2>1. input(l) = input(m)
    BY <1>3, <1>6
  <2>2. context_chunks(l) = context_chunks(m)
    BY <2>1
  <2> QED
    BY <2>2, FlatInjective, Zenon DEF Lists
<1> QED
  BY <1>4, <1>5, <1>6

\* How a key comes about: none yet, a failed derivation of the party, or a list.
KeyFrom(p, from, key) ==
    \/ from = NONE /\ key = <<>>
    \/ from = BROKEN /\ key \in {<<>>, Undefined(p)}
    \/ from \in Lists /\ key = SharedKey(from)

\* Every key, and the key of every token, is what its history says.
KeyInv ==
    /\ DOMAIN hmac_key = Parties
    /\ \A p \in Parties : KeyFrom(p, basis[p], hmac_key[p])

TokenMac(token, key) ==
    hmacSha256(key, <<"AuthVerification", token.challenge, token.timestamp, "SOFTWARE">>)

TokenInv ==
    /\ IsFiniteSet(tokens) /\ Cardinality(tokens) <= MaxTokens
    /\ \A token \in tokens : \E p, key : /\ KeyFrom(p, token.basis, key)
                                         /\ token.mac = TokenMac(token, key)

SharingInv == KeyInv /\ TokenInv /\ now \in 1 .. MaxTime

\* A list that a party accepts is a list of nonces that were drawn.
LEMMA AcceptedList ==
    ASSUME BootInv, NEW list \in ParamLists, MISSIZED \notin Range(list)
    PROVE  list \in Lists
<1>1. Nonces \subseteq Parties \X Nat
  <2>1. ASSUME NEW params \in published PROVE params.nonce \in Parties \X Nat
    BY DEF BootInv, PublishedInv
  <2> QED
    BY <2>1 DEF Nonces
<1>2. PICK n \in 0 .. MaxList : list \in [1 .. n -> Nonces \cup {MISSIZED}]
  BY DEF ParamLists
<1>3. ASSUME NEW i \in 1 .. n PROVE list[i] \in Parties \X Nat
  <2>1. list[i] \in Range(list)
    BY <1>2 DEF Range
  <2>2. list[i] \in Nonces \cup {MISSIZED} /\ list[i] # MISSIZED
    BY <1>2, <2>1
  <2> QED
    BY <1>1, <2>2
<1>4. n \in Nat /\ list \in [1 .. n -> Parties \X Nat]
  BY <1>2, <1>3
<1> QED
  BY <1>4 DEF Lists

\* ComputeSharedHmac leaves the key of the list, or what a failure leaves.
LEMMA ComputeKey ==
    ASSUME BootInv, SharingInv, NEW p \in Parties, NEW list \in ParamLists,
           NEW outcome \in {"ok", "unallocated", "underived"}, ComputeSharedHmac(p, list, outcome)
    PROVE  SharingInv'
<1> DEFINE key == CASE outcome = "ok" -> SharedKey(list)
                    [] outcome = "unallocated" -> <<>>
                    [] outcome = "underived" -> Undefined(p)
           from == IF outcome = "ok" THEN list ELSE BROKEN
<1>1. /\ hmac_key' = [hmac_key EXCEPT ![p] = key] /\ basis' = [basis EXCEPT ![p] = from]
      /\ UNCHANGED <<tokens, now>> /\ MISSIZED \notin Range(list)
  BY DEF ComputeSharedHmac, Undefined
<1>2. KeyFrom(p, from, key)
  <2>1. CASE outcome = "ok"
    BY <1>1, <2>1, AcceptedList DEF KeyFrom
  <2>2. CASE outcome = "unallocated"
    BY <2>2 DEF KeyFrom
  <2>3. CASE outcome = "underived"
    BY <2>3 DEF KeyFrom
  <2> QED
    BY <2>1, <2>2, <2>3
<1> HIDE DEF key, from
<1>3. KeyInv'
  <2>1. DOMAIN basis = Parties /\ DOMAIN hmac_key = Parties
    BY DEF BootInv, BasisInv, SharingInv, KeyInv
  <2>2. ASSUME NEW q \in Parties PROVE KeyFrom(q, basis'[q], hmac_key'[q])
    <3>1. CASE q = p
      BY <1>1, <1>2, <2>1, <3>1
    <3>2. CASE q # p
      <4>1. basis'[q] = basis[q] /\ hmac_key'[q] = hmac_key[q]
        BY <1>1, <2>1, <3>2
      <4> QED
        BY <4>1 DEF SharingInv, KeyInv
    <3> QED
      BY <3>1, <3>2
  <2> QED
    BY <1>1, <2>1, <2>2 DEF KeyInv
<1>4. TokenInv' /\ now' \in 1 .. MaxTime
  BY <1>1 DEF SharingInv, TokenInv
<1> QED
  BY <1>3, <1>4 DEF SharingInv

\* A token is signed with the key its maker has.
LEMMA MintKey ==
    ASSUME SharingInv, NEW p \in Parties, NEW challenge, NEW time, Mint(p, challenge, time)
    PROVE  SharingInv'
<1> DEFINE token == Token(p, challenge, time)
<1>1. tokens' = tokens \cup {token} /\ UNCHANGED <<hmac_key, basis, now>>
      /\ Cardinality(tokens) < MaxTokens
  BY SMTT(20) DEF Mint
<1>2. KeyFrom(p, token.basis, hmac_key[p]) /\ token.mac = TokenMac(token, hmac_key[p])
  BY DEF SharingInv, KeyInv, Token, TokenMac
<1> HIDE DEF token
<1>3. IsFiniteSet(tokens') /\ Cardinality(tokens') <= MaxTokens
  <2>1. IsFiniteSet(tokens) /\ Cardinality(tokens) \in Nat
    BY FS_CardinalityType DEF SharingInv, TokenInv
  <2>2. CASE token \in tokens
    <3>1. tokens' = tokens
      BY <1>1, <2>2
    <3> QED
      BY <1>1, <2>1, <3>1, BoundAssumption
  <2>3. CASE token \notin tokens
    <3>1. IsFiniteSet(tokens') /\ Cardinality(tokens') = Cardinality(tokens) + 1
      BY <1>1, <2>1, <2>3, FS_AddElement
    <3> QED
      BY <1>1, <2>1, <3>1, BoundAssumption
  <2> QED
    BY <2>2, <2>3
<1>4. TokenInv'
  BY <1>1, <1>2, <1>3, SMTT(20) DEF SharingInv, TokenInv
<1>5. KeyInv' /\ now' \in 1 .. MaxTime
  BY <1>1 DEF SharingInv, KeyInv
<1> QED
  BY <1>4, <1>5 DEF SharingInv

\* Every step keeps what keys and tokens say of the lists.
LEMMA SharingStep ==
    ASSUME BootInv, SharingInv, [Next]_vars
    PROVE  SharingInv'
<1>1. ASSUME UNCHANGED <<hmac_key, basis, tokens>>, now' \in 1 .. MaxTime PROVE SharingInv'
  BY <1>1 DEF SharingInv, KeyInv, TokenInv
<1>2. ASSUME NEW p, GetHmacSharingParameters(p) PROVE SharingInv'
  BY <1>1, <1>2 DEF GetHmacSharingParameters, SharingInv
<1>3. ASSUME NEW p \in Parties, NEW c, VerifyAuthorization(p, c) \/ GenerateTimestampToken(p, c)
      PROVE  SharingInv'
  BY <1>3, MintKey DEF VerifyAuthorization, GenerateTimestampToken
<1>4. ASSUME NEW p \in Parties, Restart(p) PROVE SharingInv'
  <2>1. /\ hmac_key' = [hmac_key EXCEPT ![p] = <<>>] /\ basis' = [basis EXCEPT ![p] = NONE]
        /\ UNCHANGED <<tokens, now>>
    BY <1>4 DEF Restart
  <2>2. DOMAIN basis = Parties /\ DOMAIN hmac_key = Parties
    BY DEF BootInv, BasisInv, SharingInv, KeyInv
  <2>3. ASSUME NEW q \in Parties PROVE KeyFrom(q, basis'[q], hmac_key'[q])
    <3>1. CASE q = p
      BY <2>1, <2>2, <3>1 DEF KeyFrom
    <3>2. CASE q # p
      <4>1. basis'[q] = basis[q] /\ hmac_key'[q] = hmac_key[q]
        BY <2>1, <2>2, <3>2
      <4> QED
        BY <4>1 DEF SharingInv, KeyInv
    <3> QED
      BY <3>1, <3>2
  <2> QED
    BY <2>1, <2>2, <2>3 DEF SharingInv, KeyInv, TokenInv
<1>5. CASE Tick
  BY <1>1, <1>5, BoundAssumption DEF Tick, SharingInv
<1>6. CASE UNCHANGED vars
  BY <1>1, <1>6 DEF vars, SharingInv
<1> QED
  BY <1>2, <1>3, <1>4, <1>5, <1>6, ComputeKey, SMTT(20) DEF Next

\* No party has a key before the first list.
LEMMA SharingStart == Init => SharingInv
<1> SUFFICES ASSUME Init PROVE SharingInv
  OBVIOUS
<1>1. KeyInv
  BY DEF Init, KeyInv, KeyFrom
<1>2. TokenInv
  BY FS_EmptySet, BoundAssumption DEF Init, TokenInv
<1> QED
  BY <1>1, <1>2, BoundAssumption DEF Init, SharingInv

\* A party checks a token with success exactly if it has the key the token was signed with.
LEMMA VerifiesSameKey ==
    ASSUME NEW token, NEW p, NEW key, token.mac = TokenMac(token, key)
    PROVE  Verifies(p, token) <=> hmac_key[p] = key
BY DEF Verifies, TokenMac, hmacSha256

\* A key made from a list is not the key of another history.
LEMMA ListKeyApart ==
    ASSUME NEW l \in Lists, NEW p, NEW from, NEW key, KeyFrom(p, from, key)
    PROVE  /\ key = SharedKey(l) => from = l
           /\ from = l /\ from \notin {NONE, BROKEN} => key = SharedKey(l)
<1>1. SharedKey(l) # <<>> /\ SharedKey(l) # Undefined(p)
  BY SharedKeyApart
<1>2. ASSUME from \in Lists, SharedKey(from) = SharedKey(l) PROVE from = l
  BY <1>2, SharedKeyApart
<1> QED
  BY <1>1, <1>2 DEF KeyFrom

\* Tokens are good, and sharing checks equal, exactly where the lists agree.
LEMMA KeysFollowLists ==
    ASSUME SharingInv
    PROVE  TokensFollowTheList /\ ChecksTellKeysApart
<1>1. \A p \in Parties : KeyFrom(p, basis[p], hmac_key[p])
  BY DEF SharingInv, KeyInv
<1>2. ASSUME NEW token \in tokens, NEW p \in Parties
      PROVE  /\ token.basis \notin {NONE, BROKEN} => (Verifies(p, token) <=> basis[p] = token.basis)
             /\ token.basis = BROKEN /\ Verifies(p, token) => basis[p] \in {NONE, BROKEN}
  <2>1. PICK q, key : KeyFrom(q, token.basis, key) /\ token.mac = TokenMac(token, key)
    BY DEF SharingInv, TokenInv
  <2>2. Verifies(p, token) <=> hmac_key[p] = key
    BY <2>1, VerifiesSameKey
  <2>3. ASSUME token.basis \notin {NONE, BROKEN} PROVE Verifies(p, token) <=> basis[p] = token.basis
    <3>1. token.basis \in Lists /\ key = SharedKey(token.basis)
      BY <2>1, <2>3 DEF KeyFrom
    <3> QED
      BY <1>1, <2>2, <2>3, <3>1, ListKeyApart
  <2>4. ASSUME token.basis = BROKEN, Verifies(p, token), basis[p] \notin {NONE, BROKEN} PROVE FALSE
    <3>1. basis[p] \in Lists /\ hmac_key[p] = SharedKey(basis[p])
      BY <1>1, <2>4 DEF KeyFrom
    <3>2. key = SharedKey(basis[p])
      BY <2>2, <2>4, <3>1
    <3> QED
      BY <2>1, <2>4, <3>1, <3>2, ListKeyApart, HistoryAssumption, SMTT(20) DEF Lists
  <2> QED
    BY <2>3, <2>4
<1>3. ASSUME NEW p \in Parties, NEW q \in Parties, {basis[p], basis[q]} \cap {NONE, BROKEN} = {}
      PROVE  sharingCheck(hmac_key[p]) = sharingCheck(hmac_key[q]) <=> basis[p] = basis[q]
  <2>1. /\ basis[p] \in Lists /\ hmac_key[p] = SharedKey(basis[p])
        /\ basis[q] \in Lists /\ hmac_key[q] = SharedKey(basis[q])
    <3>1. basis[p] \notin {NONE, BROKEN} /\ basis[q] \notin {NONE, BROKEN}
      BY <1>3, Zenon
    <3> QED
      BY <1>1, <3>1 DEF KeyFrom
  <2>2. sharingCheck(hmac_key[p]) = sharingCheck(hmac_key[q]) <=> hmac_key[p] = hmac_key[q]
    BY DEF sharingCheck, hmacSha256
  <2> QED
    BY <2>1, <2>2, SharedKeyApart
<1> QED
  BY <1>2, <1>3 DEF TokensFollowTheList, ChecksTellKeysApart

\* For every block size ckdf fills outputs of every size (the property asks it of sizes
\* up to three blocks).
LEMMA CkdfFills == CkdfFillsOutput
<1> SUFFICES ASSUME NEW size \in 0 .. 3 * AES_BLOCK_SIZE
             PROVE  /\ Len(ckdf("k", "l", <<now>>, size)) = size
                    /\ \A n \in 1 .. size :
                          ckdf("k", "l", <<now>>, size)[n] =
                              cmac("k", <<1 + (n - 1) \div AES_BLOCK_SIZE, "l", 0, <<now>>, size * 8>>)
                                  [1 + ((n - 1) % AES_BLOCK_SIZE)]
  BY DEF CkdfFillsOutput
<1>1. size \in Nat
  BY SizeAssumption
<1>2. ckdf("k", "l", <<now>>, size) = [n \in 1 .. size |-> CkdfByte("k", "l", <<now>>, size, n)]
  BY <1>1, CkdfValue
<1> QED
  BY <1>1, <1>2 DEF CkdfByte, Block

\* A token of one party is good with another, and their sharing checks are equal, exactly if
\* their keys come from the same list of parameters in the same order, with no restart and
\* no failed derivation in between; and ckdf fills its output.
THEOREM KeysFollow == Spec => []SharedKeyFollowsTheList
<1>1. SharingInv => SharedKeyFollowsTheList
  <2> SUFFICES ASSUME SharingInv PROVE SharedKeyFollowsTheList
    OBVIOUS
  <2>1. ASSUME NEW p \in Parties PROVE Len(hmac_key[p]) \in {0, SHA256_DIGEST_LENGTH}
    <3>1. KeyFrom(p, basis[p], hmac_key[p])
      BY DEF SharingInv, KeyInv
    <3>2. Len(<<>>) = 0 /\ Len(Undefined(p)) = SHA256_DIGEST_LENGTH
      BY SizeAssumption DEF Undefined
    <3> QED
      BY <3>1, <3>2, SharedKeyApart DEF KeyFrom
  <2>2. HmacSharingTypeOK
    BY <2>1 DEF SharingInv, TokenInv, HmacSharingTypeOK
  <2> QED
    BY <2>2, KeysFollowLists, CkdfFills DEF SharedKeyFollowsTheList
<1>2. BootInv /\ SharingInv /\ [Next]_vars => SharingInv'
  BY SharingStep
<1> QED
  BY <1>1, <1>2, SharingStart, BootInvariance, PTL DEF Spec
=============================================================================
