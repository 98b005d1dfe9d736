--------------------------- MODULE Serialization ---------------------------
(***************************************************************************)
(* The helpers every Serialize and Deserialize method is written with      *)
(* (serializable.h, serializable.cpp).                                     *)
(*                                                                         *)
(* The wire is a sequence of cells, each a number below Base: a byte is    *)
(* one cell, a uint32_t Size32 cells and a uint64_t Size64 cells, least    *)
(* significant first.  A writer is a record of the cells written so far    *)
(* and the room left before "end"; a reader is the sequence of cells       *)
(* between *buf_ptr and end.  What a copy_* function returns is a record   *)
(* of its result, the value read and the reader it leaves.                 *)
(***************************************************************************)
EXTENDS Integers, Sequences

CONSTANTS Base, Size32, Size64

ASSUME WidthAssumption == Base \in Nat \ {0, 1} /\ Size32 \in Nat \ {0} /\ Size64 \in Nat \ {0}

Cell == 0 .. Base - 1

\* The bytes of a value in memory, and the value they stand for.
Encode(value, size) ==
    LET left[i \in 0 .. size] == IF i = 0 THEN value ELSE left[i - 1] \div Base
    IN [i \in 1 .. size |-> left[i - 1] % Base]

Decode(cells) ==
    LET last[i \in 0 .. Len(cells)] ==     \* the value of the last i cells
            IF i = 0 THEN 0 ELSE cells[Len(cells) + 1 - i] + Base * last[i - 1]
    IN last[Len(cells)]

UINT32_MAX == Decode([i \in 1 .. Size32 |-> Base - 1])

NewWriter(room) == [cells |-> <<>>, room |-> room]

\* Data that does not fit is not written, and nothing says so.
append_to_buf(w, data) ==
    IF Len(data) <= w.room
    THEN [cells |-> w.cells \o data, room |-> w.room - Len(data)]
    ELSE w

append_uint32_to_buf(w, value) == append_to_buf(w, Encode(value, Size32))

append_uint64_to_buf(w, value) == append_to_buf(w, Encode(value, Size64))

append_size_and_data_to_buf(w, data) ==
    append_to_buf(append_uint32_to_buf(w, Len(data)), data)

append_collection_to_buf(w, data) ==
    IF Len(data) > UINT32_MAX THEN w ELSE append_size_and_data_to_buf(w, data)

append_uint32_array_to_buf(w, data) ==
    LET written[i \in 0 .. Len(data)] ==     \* the writer after the first i elements
            IF i = 0 THEN append_uint32_to_buf(w, Len(data))
            ELSE append_uint32_to_buf(written[i - 1], data[i])
    IN IF Len(data) >= UINT32_MAX \div Size32 THEN w ELSE written[Len(data)]

Got(val, rest) == [ok |-> TRUE, val |-> val, rest |-> rest]
Short(rest) == [ok |-> FALSE, val |-> <<>>, rest |-> rest]

copy_from_buf(r, size) ==
    IF size <= Len(r)
    THEN Got(SubSeq(r, 1, size), SubSeq(r, size + 1, Len(r)))
    ELSE Short(r)

copy_word(r, size) ==
    LET Value(c) == IF c.ok THEN Got(Decode(c.val), c.rest) ELSE c
    IN Value(copy_from_buf(r, size))

copy_uint32_from_buf(r) == copy_word(r, Size32)

copy_uint64_from_buf(r) == copy_word(r, Size64)

\* A size of zero gives no data; a size past the end gives an error, with the
\* size already consumed.
copy_size_and_data_from_buf(r) ==
    LET Data(size) == IF ~size.ok THEN size
                      ELSE IF size.val = 0 THEN Got(<<>>, size.rest)
                      ELSE copy_from_buf(size.rest, size.val)
    IN Data(copy_uint32_from_buf(r))

\* The bytes are appended to what the collection already holds.
copy_collection_from_buf(r, value) ==
    LET Appended(data) == IF data.ok THEN Got(value \o data.val, data.rest) ELSE data
        Data(size) == IF size.ok THEN Appended(copy_from_buf(size.rest, size.val)) ELSE size
    IN Data(copy_uint32_from_buf(r))

copy_uint32_array_from_buf(r) ==
    LET Elements(count, data) ==
            IF count.val >= UINT32_MAX \div Size32 \/ ~data.ok THEN Short(count.rest)
            ELSE Got([i \in 1 .. count.val |->
                         Decode(SubSeq(data.val, (i - 1) * Size32 + 1, i * Size32))], data.rest)
        Counted(count) ==
            IF count.ok THEN Elements(count, copy_from_buf(count.rest, count.val * Size32)) ELSE count
    IN Counted(copy_uint32_from_buf(r))
=============================================================================
