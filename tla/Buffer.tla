------------------------------- MODULE Buffer -------------------------------
(***************************************************************************)
(* keymaster::Buffer (serializable.h, serializable.cpp): the byte queue    *)
(* that carries the data of every request and every cipher operation.      *)
(*                                                                         *)
(* buffer is the allocation (its length is buffer_size_), NONE a byte that *)
(* was never written.  queue is a history variable: the bytes written and  *)
(* not yet read.  wire is where the last call serialized the buffer, with  *)
(* the bytes it was serialized from in sent.  Every allocation may fail.   *)
(***************************************************************************)
EXTENDS Integers, Serialization

CONSTANTS Bytes, MaxSize, NONE

BufferAssumption ==
    /\ Base \in Nat \ {0, 1} /\ Size32 \in Nat \ {0}
    /\ Bytes \subseteq Cell /\ NONE \notin Cell
    /\ MaxSize \in Nat /\ MaxSize + 1 <= UINT32_MAX     \* sizes fit a uint32_t

VARIABLES buffer, read_position, write_position, queue, wire, sent, call

vars == <<buffer, read_position, write_position, queue, wire, sent, call>>

Data == UNION {[1 .. n -> Bytes] : n \in 0 .. MaxSize}

buffer_size == Len(buffer)
available_write == buffer_size - write_position
available_read == write_position - read_position
readable == SubSeq(buffer, read_position + 1, write_position)
valid_buffer_state == buffer_size >= write_position /\ write_position >= read_position

\* The buffer with data copied in at a position.
CopiedIn(at, data) ==
    [i \in 1 .. buffer_size |->
        IF i \in at + 1 .. at + Len(data) THEN data[i - at] ELSE buffer[i]]

Returns(op, ok) == call' = [op |-> op, ok |-> ok, arg |-> 0]
Same == UNCHANGED <<buffer, read_position, write_position, queue>>
OffWire == wire' = <<>> /\ sent' = NONE

Init ==
    /\ buffer = <<>> /\ read_position = 0 /\ write_position = 0
    /\ queue = <<>> /\ wire = <<>> /\ sent = NONE
    /\ call = [op |-> "constructor", ok |-> TRUE, arg |-> 0]

Clear ==
    /\ buffer' = <<>> /\ read_position' = 0 /\ write_position' = 0
    /\ queue' = <<>>

CallClear == Clear /\ OffWire /\ Returns("Clear", TRUE)

\* A slip: the write position is left where it was in the uncompacted buffer.
reserve_without_rebase(size, allocated) ==
    /\ call' = [op |-> "reserve", ok |-> TRUE, arg |-> size]
    /\ buffer' = readable \o [i \in 1 .. buffer_size + size - available_write - available_read |-> NONE]
    /\ read_position' = 0
    /\ UNCHANGED <<write_position, queue>> /\ OffWire

\* Grow the buffer, moving what is still to be read to its start.
reserve(size, allocated) ==
    /\ call' = [op |-> "reserve", ok |-> available_write >= size \/ (valid_buffer_state /\ allocated),
                arg |-> size]
    /\ IF available_write >= size \/ ~valid_buffer_state \/ ~allocated
       THEN Same
       ELSE /\ buffer' = readable \o
                  [i \in 1 .. buffer_size + size - available_write - available_read |-> NONE]
            /\ write_position' = write_position - read_position
            /\ read_position' = 0
            /\ UNCHANGED queue
    /\ OffWire

ReinitializeSize(size, allocated) ==
    /\ IF allocated
       THEN /\ buffer' = [i \in 1 .. size |-> NONE]
            /\ read_position' = 0 /\ write_position' = 0 /\ queue' = <<>>
       ELSE Clear
    /\ OffWire /\ Returns("Reinitialize", allocated)

ReinitializeData(data, allocated) ==
    /\ IF allocated
       THEN /\ buffer' = data
            /\ read_position' = 0 /\ write_position' = Len(data) /\ queue' = data
       ELSE Clear
    /\ OffWire /\ Returns("Reinitialize", allocated)

write(data) ==
    /\ IF available_write < Len(data)
       THEN Same /\ Returns("write", FALSE)
       ELSE /\ buffer' = CopiedIn(write_position, data)
            /\ write_position' = write_position + Len(data)
            /\ queue' = queue \o data
            /\ UNCHANGED read_position /\ Returns("write", TRUE)
    /\ OffWire

\* The bytes read are checked against the queue by ReadableIsQueue before the read.
read(length) ==
    /\ IF available_read < length
       THEN Same /\ Returns("read", FALSE)
       ELSE /\ read_position' = read_position + length
            /\ queue' = SubSeq(queue, length + 1, Len(queue))
            /\ UNCHANGED <<buffer, write_position>> /\ Returns("read", TRUE)
    /\ OffWire

\* A cipher put data at peek_write(), where there was room for it, and says how
\* far it went; a wrong distance is refused.
advance_write(data, distance) ==
    /\ Len(data) <= available_write
    /\ distance \in {Len(data), -1, available_write + 1}
    /\ buffer' = CopiedIn(write_position, data)
    /\ IF distance < 0 \/ write_position + distance > buffer_size
       THEN UNCHANGED <<write_position, queue>> /\ Returns("advance_write", FALSE)
       ELSE /\ write_position' = write_position + distance
            /\ queue' = queue \o data
            /\ Returns("advance_write", TRUE)
    /\ UNCHANGED read_position /\ OffWire

\* Into a destination with room for that many cells.
Serialize(room) ==
    /\ wire' = append_size_and_data_to_buf(NewWriter(room), readable).cells
    /\ sent' = [data |-> queue, room |-> room]
    /\ Same /\ Returns("Serialize", TRUE)

SerializedSize == Size32 + available_read

Deserialize(allocated) ==
    LET got == copy_size_and_data_from_buf(wire)
    IN /\ IF got.ok /\ (allocated \/ got.val = <<>>)
          THEN /\ buffer' = got.val
               /\ read_position' = 0 /\ write_position' = Len(got.val)
               /\ queue' = got.val
               /\ Returns("Deserialize", TRUE)
          ELSE Clear /\ Returns("Deserialize", FALSE)
       /\ OffWire

Next ==
    \/ CallClear
    \/ \E size \in 0 .. MaxSize, allocated \in BOOLEAN :
          \/ buffer_size + size <= MaxSize + 1 /\ reserve(size, allocated)
          \/ ReinitializeSize(size, allocated)
    \/ \E data \in Data, allocated \in BOOLEAN : ReinitializeData(data, allocated)
    \/ \E data \in Data : write(data)
    \/ \E length \in 0 .. MaxSize : read(length)
    \/ \E data \in Data, distance \in -1 .. MaxSize + 2 : advance_write(data, distance)
    \/ \E room \in 0 .. Size32 + MaxSize + 1 : Serialize(room)
    \/ \E allocated \in BOOLEAN : sent # NONE /\ Deserialize(allocated)

Spec == Init /\ [][Next]_vars

\* The positions are ordered and lie in the allocation (what the asserts of
\* available_read and available_write demand on every call).
BufferTypeOK ==
    /\ buffer \in Seq(Bytes \cup {NONE})
    /\ valid_buffer_state /\ read_position >= 0
    /\ call.op \in {"constructor", "Clear", "reserve", "Reinitialize", "write", "read",
                    "advance_write", "Serialize", "Deserialize"}
    /\ call.ok \in BOOLEAN

\* Through every growth, compaction, refused call and failed allocation, what
\* can be read is what was written and not yet read, in order.
ReadableIsQueue == readable = queue

\* What Serialize wrote, where there was room for SerializedSize, Deserialize reads back.
SerializedReadsBack ==
    sent # NONE /\ sent.room >= Size32 + Len(sent.data)
        => copy_size_and_data_from_buf(wire) = Got(sent.data, <<>>)

\* Through every growth, compaction, refused call and failed allocation, what can be
\* read from a Buffer is what was written and not yet read, in order; its positions are
\* as the asserts of available_read and available_write demand; and it survives the wire.
BufferIsQueue == BufferTypeOK /\ ReadableIsQueue /\ SerializedReadsBack

=============================================================================
