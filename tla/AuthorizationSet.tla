-------------------------- MODULE AuthorizationSet --------------------------
(***************************************************************************)
(* keymaster::AuthorizationSet (authorization_set.h and .cpp): a growable  *)
(* array of tagged parameters, with the bytes of the blob parameters in a  *)
(* second array that the elements point into.                              *)
(*                                                                         *)
(* set is the object: elems (elems_, elems_size_), elems_capacity, data    *)
(* (the bytes of the allocation indirect_data_ points to, so Len(data) is  *)
(* what was really allocated), data_size and data_capacity (the two        *)
(* counters), region (which allocation data is) and error.  A blob element *)
(* has a pointer: an allocation and an offset.  contents is a history      *)
(* variable: the parameters the calls so far should have left in the set,  *)
(* or LOST once an allocation failed and the set lost them.  Any           *)
(* allocation may fail.                                                    *)
(***************************************************************************)
EXTENDS Integers, FiniteSets, SequencesExt, Serialization

CONSTANTS
    Params, Lists,             \* the parameters callers add, [tag, val], and lists of them
    MaxElems, MaxData,         \* bounds on elements and on indirect bytes
    STARTING_ELEMS_CAPACITY,
    Wires,                     \* byte sequences Deserialize is given
    NONE

VARIABLES set, contents, wire, call

vars == <<set, contents, wire, call>>

LOST == <<NONE>>

\* Tags and their types (keymaster_tag_get_type).
KM_TAG_INVALID == 0
tag_type(tag) ==
    CASE tag = 0 -> "INVALID" [] tag = 1 -> "ENUM" [] tag = 2 -> "ULONG"
      [] tag = 3 -> "BOOL" [] tag \in {4, 5} -> "BYTES" [] OTHER -> "UNKNOWN"
is_blob_tag(tag) == tag_type(tag) = "BYTES"

\* Parameters compare by tag, then by value (keymaster_param_compare).
param_rank(p) == p.tag * 1000 + (IF is_blob_tag(p.tag) THEN Decode(p.val) * 10 + Len(p.val) ELSE p.val)

\* The bytes a pointer and a length give: none of the program's if the allocation is gone.
BytesOf(s, e) ==
    IF e.ptr.region = s.region /\ e.ptr.off + e.len <= Len(s.data)
    THEN SubSeq(s.data, e.ptr.off + 1, e.ptr.off + e.len)
    ELSE LOST

\* The parameter an element of the array stands for.
Param(s, e) == [tag |-> e.tag, val |-> IF is_blob_tag(e.tag) THEN BytesOf(s, e) ELSE e.val]
ParamsOf(s) == [i \in 1 .. Len(s.elems) |-> Param(s, s.elems[i])]

Empty(region) ==
    [elems |-> <<>>, elems_capacity |-> 0, data |-> <<>>, data_size |-> 0, data_capacity |-> 0,
     region |-> region, error |-> "OK"]

\* The two allocations a set can be looking at: its own, and the one it had before.
Other(region) == 1 - region

-----------------------------------------------------------------------------
FreeData(s) == Empty(Other(s.region))
set_invalid(s, error) == [FreeData(s) EXCEPT !.error = error]

reserve_elems(s, count, allocated) ==
    IF s.error # "OK" \/ count <= s.elems_capacity THEN s
    ELSE IF ~allocated THEN set_invalid(s, "ALLOCATION_FAILURE")
    ELSE [s EXCEPT !.elems_capacity = count]

\* A slip: the elements keep pointing into the old allocation.
reserve_indirect_without_fixup(s, length, allocated) ==
    IF s.error # "OK" \/ length <= s.data_capacity THEN s
    ELSE IF ~allocated THEN set_invalid(s, "ALLOCATION_FAILURE")
    ELSE [s EXCEPT !.data = [i \in 1 .. length |-> IF i <= s.data_size THEN s.data[i] ELSE 0],
                   !.data_capacity = length, !.region = Other(s.region)]

reserve_indirect(s, length, allocated) ==
    IF s.error # "OK" \/ length <= s.data_capacity THEN s
    ELSE IF ~allocated THEN set_invalid(s, "ALLOCATION_FAILURE")
    ELSE [s EXCEPT !.data = [i \in 1 .. length |-> IF i <= s.data_size THEN s.data[i] ELSE 0],
                   !.data_capacity = length, !.region = Other(s.region),
                   !.elems = [i \in DOMAIN s.elems |->
                                 IF is_blob_tag(s.elems[i].tag)
                                 THEN [s.elems[i] EXCEPT !.ptr.region = Other(s.region)]
                                 ELSE s.elems[i]]]

\* What the copy leaves behind: bytes past the allocation are not the set's.
CopiedIn(data, at, bytes) ==
    [i \in 1 .. Len(data) |-> IF i \in at + 1 .. at + Len(bytes) THEN bytes[i - at] ELSE data[i]]

\* One parameter is added; capacity_left is a size_t subtraction.
push_back(s0, p, allocated) ==
    LET s1 == IF Len(s0.elems) < s0.elems_capacity THEN s0
              ELSE reserve_elems(s0, IF s0.elems_capacity = 0 THEN STARTING_ELEMS_CAPACITY
                                     ELSE 2 * s0.elems_capacity, allocated)
        capacity_left == (s1.data_capacity - s1.data_size) % Base ^ Size64
        s2 == IF capacity_left < Len(p.val)
              THEN reserve_indirect(s1, 2 * (s1.data_capacity + Len(p.val)), allocated)
              ELSE s1
        blob == [tag |-> p.tag, val |-> 0, len |-> Len(p.val),
                 ptr |-> [region |-> s2.region, off |-> s2.data_size]]
    IN IF s1.error # "OK" THEN s1
       ELSE IF ~is_blob_tag(p.tag)
       THEN [s1 EXCEPT !.elems = Append(@, [tag |-> p.tag, val |-> p.val, len |-> 0, ptr |-> NONE])]
       ELSE IF s2.error # "OK" THEN s2
       ELSE [s2 EXCEPT !.data = CopiedIn(@, s2.data_size, p.val),
                       !.data_size = @ + Len(p.val),
                       !.elems = Append(@, blob)]

ComputeIndirectDataSize(params) ==
    FoldLeft(LAMBDA n, p : IF is_blob_tag(p.tag) THEN n + Len(p.val) ELSE n, 0, params)

push_back_set(s, params, allocated) ==
    LET s1 == reserve_elems(s, Len(s.elems) + Len(params), allocated)
        s2 == reserve_indirect(s1, s1.data_size + ComputeIndirectDataSize(params), allocated)
    IN FoldLeft(LAMBDA acc, p : IF acc.error = "OK" THEN push_back(acc, p, allocated) ELSE acc, s2, params)

\* Reinitialize, and every constructor and assignment that copies: exactly as much
\* as the elements need is reserved, and their bytes are laid out again.
Reinitialize(s, params, allocated) ==
    LET free == FreeData(s)
        need == ComputeIndirectDataSize(params)
        s1 == reserve_indirect(reserve_elems(free, Len(params), allocated), need, allocated)
        Offset(i) == ComputeIndirectDataSize(SubSeq(params, 1, i - 1))
    IN IF params = <<>> THEN free
       ELSE IF s1.error # "OK" THEN s1
       ELSE [s1 EXCEPT
               !.data = FlattenSeq([i \in DOMAIN params |->
                                       IF is_blob_tag(params[i].tag) THEN params[i].val ELSE <<>>]),
               !.data_size = need,
               !.elems = [i \in DOMAIN params |->
                  IF is_blob_tag(params[i].tag)
                  THEN [tag |-> params[i].tag, val |-> 0, len |-> Len(params[i].val),
                        ptr |-> [region |-> s1.region, off |-> Offset(i)]]
                  ELSE [tag |-> params[i].tag, val |-> params[i].val, len |-> 0, ptr |-> NONE]]]

\* Clear keeps the allocations.
ClearSet(s) ==
    [s EXCEPT !.elems = <<>>, !.data_size = 0, !.error = "OK",
              !.data = [i \in DOMAIN s.data |-> IF i <= s.data_capacity THEN 0 ELSE s.data[i]]]

SortSet(s) ==
    [s EXCEPT !.elems = SortSeq(@, LAMBDA a, b : param_rank(Param(s, a)) < param_rank(Param(s, b)))]

\* Of equal neighbours in the sorted array all but the last are marked invalid; the
\* invalid ones sort first, and are dropped.  Their bytes stay in the data.
Deduplicate(s) ==
    LET sorted == SortSet(s)
        e == sorted.elems
        Invalid(i) == \/ e[i].tag = KM_TAG_INVALID
                      \/ i < Len(e) /\ Param(s, e[i]) = Param(s, e[i + 1])
        marked == [sorted EXCEPT !.elems =
                     [i \in DOMAIN e |-> IF Invalid(i) THEN [e[i] EXCEPT !.tag = KM_TAG_INVALID, !.val = 0] ELSE e[i]]]
        invalid_count == Cardinality({i \in DOMAIN e : Invalid(i)})
        again == SortSet(marked)
    IN IF invalid_count = 0 THEN sorted
       ELSE [again EXCEPT !.elems = SubSeq(@, invalid_count + 1, Len(@))]

\* find: the first position after begin with the tag, or 0 (positions start at 1).
find(s, tag, begin) ==
    LET hits == {i \in DOMAIN s.elems : i > begin /\ s.elems[i].tag = tag}
    IN IF s.error # "OK" \/ hits = {} THEN 0 ELSE CHOOSE i \in hits : \A j \in hits : i <= j

erase(s, index) ==
    IF index \in DOMAIN s.elems THEN [s EXCEPT !.elems = RemoveAt(@, index)] ELSE s

\* The first element equal to each parameter is erased.
Difference(s, params) ==
    IF params = <<>> THEN s
    ELSE FoldLeft(LAMBDA acc, p :
                      LET equal == {i \in DOMAIN acc.elems : Param(acc, acc.elems[i]) = p}
                      IN IF acc.error # "OK" \/ equal = {} THEN acc
                         ELSE erase(acc, CHOOSE i \in equal : \A j \in equal : i <= j),
                  Deduplicate(s), params)

GetTagCount(s, tag) == Cardinality({i \in DOMAIN s.elems : s.error = "OK" /\ s.elems[i].tag = tag})

\* The instance-th element with a tag, as GetTagValue*Rep looks for it.
GetTagValueRep(s, tag, instance) ==
    FoldLeft(LAMBDA pos, i : IF pos = 0 /\ i > 1 THEN 0 ELSE find(s, tag, pos), 0,
             [i \in 1 .. instance |-> i])

GetTagValue(s, tag) == find(s, tag, 0)

-----------------------------------------------------------------------------
(* On the wire: the indirect data, the number of elements, their size and   *)
(* the elements, a blob as its length and its offset in the data.           *)

serialized_size(e) ==
    CASE tag_type(e.tag) = "ENUM" -> 2 * Size32
      [] tag_type(e.tag) = "ULONG" -> Size32 + Size64
      [] tag_type(e.tag) = "BOOL" -> Size32 + 1
      [] tag_type(e.tag) = "BYTES" -> 3 * Size32
      [] OTHER -> Size32

serialize(w, e) ==
    LET tagged == append_uint32_to_buf(w, e.tag)
    IN CASE tag_type(e.tag) = "ENUM" -> append_uint32_to_buf(tagged, e.val)
         [] tag_type(e.tag) = "ULONG" -> append_uint64_to_buf(tagged, e.val)
         [] tag_type(e.tag) = "BOOL" -> append_to_buf(tagged, <<e.val>>)
         [] tag_type(e.tag) = "BYTES" -> append_uint32_to_buf(append_uint32_to_buf(tagged, e.len), e.ptr.off)
         [] OTHER -> tagged

SerializedSizeOfElements(s) == FoldLeft(LAMBDA n, e : n + serialized_size(e), 0, s.elems)

\* A slip: the number of elements is not counted.
SerializedSizeShort(s) == 2 * Size32 + s.data_size + SerializedSizeOfElements(s)

SerializedSize(s) == 3 * Size32 + s.data_size + SerializedSizeOfElements(s)

SerializeSet(s) ==
    LET indirect == append_size_and_data_to_buf(NewWriter(SerializedSize(s)), SubSeq(s.data, 1, s.data_size))
        counted == append_uint32_to_buf(indirect, Len(s.elems))
        sized == append_uint32_to_buf(counted, SerializedSizeOfElements(s))
    IN FoldLeft(serialize, sized, s.elems).cells

NoElem == [tag |-> KM_TAG_INVALID, val |-> 0, len |-> 0, ptr |-> NONE]
Fixed(tag, c) == IF c.ok THEN Got([NoElem EXCEPT !.tag = tag, !.val = c.val], c.rest) ELSE c

\* A slip: the end of a blob is not compared with the end of the data.
blob_starts_in_data(s, len, off) == off <= s.data_size

blob_lies_in_data(s, len, off) == off <= s.data_size /\ off + len <= s.data_size

\* One element: a Boolean must be 0 or 1, and a blob must lie in the data.
deserialize(s, r) ==
    LET Bool(tag, byte) == IF byte.ok /\ byte.val <= 1 THEN Fixed(tag, byte) ELSE Short(r)
        Placed(tag, len, off) ==
            IF len.ok /\ off.ok /\ blob_lies_in_data(s, len.val, off.val)
            THEN Got([tag |-> tag, val |-> 0, len |-> len.val,
                      ptr |-> [region |-> s.region, off |-> off.val]], off.rest)
            ELSE Short(r)
        Blob(tag, len) == Placed(tag, len, copy_uint32_from_buf(len.rest))
        Value(tag, rest) ==
            CASE tag_type(tag) = "ENUM" -> Fixed(tag, copy_uint32_from_buf(rest))
              [] tag_type(tag) = "ULONG" -> Fixed(tag, copy_uint64_from_buf(rest))
              [] tag_type(tag) = "BOOL" -> Bool(tag, copy_word(rest, 1))
              [] tag_type(tag) = "BYTES" -> Blob(tag, copy_uint32_from_buf(rest))
              [] OTHER -> Short(r)
        Tagged(tag) == IF tag.ok THEN Value(tag.val, tag.rest) ELSE tag
    IN Tagged(copy_uint32_from_buf(r))

\* The size is set, and the capacity is left at the zero FreeData gave it.
DeserializeIndirectData(s, r) ==
    LET Stored(data) ==
            IF data.ok
            THEN [set |-> [s EXCEPT !.data = data.val, !.data_size = Len(data.val)], rest |-> data.rest]
            ELSE [set |-> set_invalid(s, "MALFORMED_DATA"), rest |-> data.rest]
    IN Stored(copy_size_and_data_from_buf(r))

DeserializeElementsData(s, r, allocated) ==
    LET malformed == [set |-> set_invalid(s, "MALFORMED_DATA"), rest |-> r]
        Next1(acc, e) == [ok |-> e.ok, val |-> Append(acc.val, e.val), rest |-> e.rest]
        Elements(count, bytes) ==
            FoldLeft(LAMBDA acc, i : IF acc.ok THEN Next1(acc, deserialize(s, acc.rest)) ELSE acc,
                     Got(<<>>, bytes), [i \in 1 .. count |-> i])
        Stored(reserved, read, rest) ==
            IF reserved.error # "OK" THEN [set |-> reserved, rest |-> r]
            ELSE IF ~read.ok \/ read.rest # <<>> THEN malformed
            ELSE [set |-> [reserved EXCEPT !.elems = read.val], rest |-> rest]
        Read(count, size, mine) ==
            IF ~mine.ok \/ count * Size32 > size THEN malformed
            ELSE Stored(reserve_elems(s, count, allocated), Elements(count, mine.val), mine.rest)
        Sized(count, size) ==
            IF count.ok /\ size.ok THEN Read(count.val, size.val, copy_from_buf(size.rest, size.val))
            ELSE malformed
        Counted(count) == Sized(count, copy_uint32_from_buf(count.rest))
    IN Counted(copy_uint32_from_buf(r))

DeserializeSet(s, r, allocated) ==
    LET Used(elems) == FoldLeft(LAMBDA n, e : n + e.len, 0, elems)
        Checked(all) ==
            IF all.set.error = "OK" /\ all.set.data_size # Used(all.set.elems)
            THEN [all EXCEPT !.set = set_invalid(@, "MALFORMED_DATA")] ELSE all
        Elements(indirect) ==
            IF indirect.set.error # "OK" THEN indirect
            ELSE Checked(DeserializeElementsData(indirect.set, indirect.rest, allocated))
    IN Elements(DeserializeIndirectData(FreeData(s), r))

-----------------------------------------------------------------------------
(* Calls.                                                                   *)

\* The history after a call: what the call should leave, unless the set says that it failed.
Left(s, expected) == contents' = IF s.error = "OK" THEN expected ELSE LOST
Kept(s, expected) == Left(s, IF contents = LOST THEN LOST ELSE expected)

Sorted(params) == SortSeq(params, LAMBDA a, b : param_rank(a) < param_rank(b))
Distinct(params) ==
    Sorted(SetToSeq({params[i] : i \in {j \in DOMAIN params : params[j].tag # KM_TAG_INVALID}}))
Without(params, others) == SelectSeq(params, LAMBDA p : \A i \in DOMAIN others : others[i] # p)

Init ==
    /\ set = Empty(0) /\ contents = <<>> /\ wire = NONE
    /\ call = [op |-> "constructor", ok |-> TRUE]

Returns(op, s) == call' = [op |-> op, ok |-> s.error = "OK"]

PushBack(p, allocated) ==
    /\ Len(set.elems) < MaxElems
    /\ set.data_size + ComputeIndirectDataSize(<<p>>) <= MaxData
    /\ set' = push_back(set, p, allocated)
    /\ Kept(set', Append(contents, p))
    /\ wire' = NONE /\ Returns("push_back", set')

PushBackSet(params, allocated) ==
    /\ Len(set.elems) + Len(params) <= MaxElems
    /\ set.data_size + ComputeIndirectDataSize(params) <= MaxData
    /\ set' = push_back_set(set, params, allocated)
    /\ Kept(set', contents \o params)
    /\ wire' = NONE /\ Returns("push_back", set')

CallReinitialize(params, allocated) ==
    /\ set' = Reinitialize(set, params, allocated)
    /\ Left(set', params)
    /\ wire' = NONE /\ Returns("Reinitialize", set')

\* The program goes on with a copy of the set (copy constructor).
Copy(allocated) ==
    /\ set.error = "OK"
    /\ set' = Reinitialize(Empty(Other(set.region)), ParamsOf(set), allocated)
    /\ Kept(set', contents)
    /\ wire' = NONE /\ Returns("copy", set')

\* Copy assignment: the error becomes that of the set copied from, whatever
\* Reinitialize made it, so that a set which lost its contents is valid.
Assign(params, allocated) ==
    /\ set' = [Reinitialize(set, params, allocated) EXCEPT !.error = "OK"]
    /\ Left(Reinitialize(set, params, allocated), params)
    /\ wire' = NONE /\ Returns("assign", set')

Clear ==
    /\ set' = ClearSet(set) /\ contents' = <<>>
    /\ wire' = NONE /\ Returns("Clear", set')

Sort ==
    /\ set' = SortSet(set) /\ Kept(set', Sorted(contents))
    /\ wire' = NONE /\ Returns("Sort", set')

CallDeduplicate ==
    /\ set' = Deduplicate(set) /\ Kept(set', Distinct(contents))
    /\ wire' = NONE /\ Returns("Deduplicate", set')

CallDifference(params) ==
    /\ set' = Difference(set, params)
    /\ Kept(set', IF params = <<>> THEN contents ELSE Without(Distinct(contents), params))
    /\ wire' = NONE /\ Returns("Difference", set')

Erase(index) ==
    /\ set' = erase(set, index)
    /\ Kept(set', RemoveAt(contents, index))
    /\ wire' = NONE /\ Returns("erase", set')

Serialize ==
    /\ set.error = "OK"
    /\ wire' = SerializeSet(set)
    /\ UNCHANGED <<set, contents>> /\ Returns("Serialize", set)

\* The set is read back from where it was serialized.
DeserializeOwn(allocated) ==
    /\ call.op = "Serialize"
    /\ set' = DeserializeSet(set, wire, allocated).set
    /\ Kept(set', contents)
    /\ wire' = NONE /\ Returns("Deserialize", set')

\* The program goes on with a new set.
NewSet ==
    /\ set' = Empty(0) /\ contents' = <<>> /\ wire' = NONE
    /\ call' = [op |-> "constructor", ok |-> TRUE]

\* A new set is read from bytes that came from elsewhere.
DeserializeWire(w, allocated) ==
    /\ set' = DeserializeSet(set, w, allocated).set
    /\ Left(set', ParamsOf(set'))
    /\ wire' = w /\ Returns("parse", set')

\* Deserialize leaves data_capacity at zero, so a blob pushed onto a set that was read
\* would be copied past the end of its data; behaviours end before that.
HasRoomFor(params) ==
    set.data_size > set.data_capacity => \A i \in DOMAIN params : ~is_blob_tag(params[i].tag)

Next ==
    \/ \E p \in Params, allocated \in BOOLEAN : HasRoomFor(<<p>>) /\ PushBack(p, allocated)
    \/ \E params \in Lists, allocated \in BOOLEAN :
          \/ HasRoomFor(params) /\ PushBackSet(params, allocated)
          \/ CallReinitialize(params, allocated)
          \/ Assign(params, allocated)
    \/ Clear \/ Sort \/ CallDeduplicate \/ Serialize \/ NewSet
    \/ \E allocated \in BOOLEAN : Copy(allocated) \/ DeserializeOwn(allocated)
    \/ \E params \in Lists : CallDifference(params)
    \/ \E index \in 1 .. MaxElems : index \in DOMAIN set.elems /\ Erase(index)
    \/ /\ call.op = "constructor"
       /\ \E w \in Wires, allocated \in BOOLEAN : DeserializeWire(w, allocated)

Spec == Init /\ [][Next]_vars

-----------------------------------------------------------------------------
AuthorizationSetTypeOK ==
    /\ set.error \in {"OK", "ALLOCATION_FAILURE", "MALFORMED_DATA"}
    /\ Len(set.elems) <= set.elems_capacity
    /\ \A i \in DOMAIN set.elems : is_blob_tag(set.elems[i].tag) <=> set.elems[i].ptr # NONE
    /\ set.error # "OK" => set.elems = <<>> /\ set.data_size = 0

\* However the arrays were grown, moved, sorted, copied or parsed, a valid set holds
\* the parameters that were put into it, in order, and every blob points at its bytes
\* in the current allocation.
HoldsContents == set.error = "OK" /\ contents # LOST => ParamsOf(set) = contents

\* Looking a tag up one instance after the other visits the parameters with that tag
\* in the order of the set, and stops after GetTagCount of them.
LookupsAgree ==
    set.error = "OK" =>
        \A tag \in 0 .. 5 :
            LET mine == SelectSeq(ParamsOf(set), LAMBDA p : p.tag = tag)
            IN /\ GetTagCount(set, tag) = Len(mine)
               /\ GetTagValue(set, tag) = GetTagValueRep(set, tag, 1)
               /\ \A k \in 1 .. MaxElems + 1 :
                     LET pos == GetTagValueRep(set, tag, k)
                     IN IF k <= Len(mine) THEN pos # 0 /\ ParamsOf(set)[pos] = mine[k] ELSE pos = 0

\* Elements dropped by Deduplicate, Difference or erase leave their bytes in the
\* data ("this leaks the data ... it will all get cleaned up").
Rereadable(s) ==
    /\ s.data_size = ComputeIndirectDataSize(ParamsOf(s))
    /\ \A i \in DOMAIN s.elems : s.elems[i].tag # KM_TAG_INVALID

\* The serialized form of a set is read back, unless the set holds bytes that no element
\* points at or an invalid tag: Deserialize refuses just those.
WireRoundTrip ==
    [][call'.op = "Deserialize" =>
         set'.error \in {"ALLOCATION_FAILURE", IF Rereadable(set) THEN "OK" ELSE "MALFORMED_DATA"}]_vars

\* Bytes are accepted only if they are what Serialize would write for the set they
\* give: no two encodings are read as one set, no element is out of the data, and
\* nothing is left of a set that was refused.
AcceptedIsCanonical ==
    [][call'.op = "parse" =>
         IF call'.ok
         THEN /\ IsPrefix(SerializeSet(set'), wire')
              /\ \A i \in DOMAIN set'.elems :
                    is_blob_tag(set'.elems[i].tag) => BytesOf(set', set'.elems[i]) # LOST
         ELSE set'.elems = <<>> /\ set'.data = <<>>]_vars
=============================================================================
