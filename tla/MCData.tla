------------------------------- MODULE MCData -------------------------------
(***************************************************************************)
(* The data structures under the rest, on small instances:                 *)
(* AuthorizationSet, Buffer and the lists of the enforcement.  They do not *)
(* interact, so a behaviour moves one of them, and the others stay as they *)
(* were made.                                                              *)
(***************************************************************************)
EXTENDS AccessLists, Buffer, TLC

CONSTANTS k1, k2, k3, k4

VARIABLES part, set, contents, set_wire, set_call

setVars == <<set, contents, set_wire, set_call>>
bufferVars == vars

-----------------------------------------------------------------------------
(* AuthorizationSet: sets edited, and bytes parsed. *)

Enum(tag, val) == [tag |-> tag, val |-> val]
Blob(val) == [tag |-> 4, val |-> val]

\* An enumeration, a blob and the invalid tag; the lists have a longer blob.
SetParams == {Enum(1, 2), Enum(0, 0), Blob(<<1>>)}
SetLists ==
    {<<>>, <<Blob(<<2, 1>>), Blob(<<1>>)>>, <<Enum(1, 2), Blob(<<2, 1>>)>>}

\* What a reader can be given: indirect data of up to two bytes and any few cells
\* after it; and the frame of two elements around any cells.
ShortWires ==
    LET Starts == {<<0>>, <<1, 1>>, <<2, 1, 2>>}
    IN {<<0>>, <<1>>, <<2, 1>>}
       \cup {d \o tail : d \in Starts, tail \in UNION {[1 .. n -> 0 .. 5] : n \in 0 .. 4}}
       \cup {d \o <<2, n>> \o tail : d \in Starts, n \in 4 .. 5,
                                     tail \in UNION {[1 .. k -> {0, 1, 3, 4}] : k \in 4 .. 5}}

Editing == INSTANCE AuthorizationSet WITH
    wire <- set_wire, call <- set_call, Base <- 16, Size32 <- 1, Size64 <- 2,
    Params <- SetParams, Lists <- SetLists, MaxElems <- 3, MaxData <- 3,
    STARTING_ELEMS_CAPACITY <- 2, Wires <- {}

Parsing == INSTANCE AuthorizationSet WITH
    wire <- set_wire, call <- set_call, Base <- 6, Size32 <- 1, Size64 <- 2,
    Params <- {}, Lists <- {}, MaxElems <- 3, MaxData <- 4,
    STARTING_ELEMS_CAPACITY <- 2, Wires <- ShortWires

-----------------------------------------------------------------------------
(* Buffer: a uint32_t is two cells, so that a size can be cut. *)

ASSUME BufferAssumption

-----------------------------------------------------------------------------
(* AccessLists: three rate-limited keys for two places, two count-limited *)
(* ones for one.                                                          *)

Limits(min_seconds, max_uses) ==
    [purposes |-> {"SIGN"}, public |-> FALSE,
     min_seconds |-> min_seconds, max_uses |-> max_uses,
     sids |-> {}, auth_type |-> {}, auth_timeout |-> FALSE,
     no_auth_required |-> TRUE, unlocked_device_required |-> FALSE,
     caller_nonce |-> FALSE, early_boot_only |-> FALSE, forbidden |-> FALSE]

ListAuths ==
    k1 :> Limits(1, -1) @@ k2 :> Limits(2, 2) @@ k3 :> Limits(1, -1) @@ k4 :> Limits(NO_TIMEOUT, 3)

ASSUME ListAssumption

-----------------------------------------------------------------------------

DataInit ==
    /\ part \in {"editing", "parsing", "buffering", "limiting"}
    /\ Editing!Init
    /\ Init
    /\ ListInit /\ (part # "limiting" => now = 1)

DataNext ==
    /\ UNCHANGED part
    /\ \/ part = "editing" /\ Editing!Next /\ UNCHANGED <<bufferVars, listVars>>
       \/ part = "parsing" /\ Parsing!Next /\ UNCHANGED <<bufferVars, listVars>>
       \/ part = "buffering" /\ Next /\ UNCHANGED <<setVars, listVars>>
       \/ part = "limiting" /\ ListNext /\ UNCHANGED <<setVars, bufferVars>>

DataSpec == DataInit /\ [][DataNext]_<<part, setVars, bufferVars, listVars>>

-----------------------------------------------------------------------------
(* The properties of the sets; those of the buffer and the lists are in scope. *)

\* Whatever was done to a set, it holds the parameters put into it, its blobs point into
\* its own data, its lookups find every entry of a tag in order, and a set that lost its
\* contents to a failed allocation is empty and says so.
SetKeepsContents ==
    Editing!AuthorizationSetTypeOK /\ Editing!HoldsContents /\ Editing!LookupsAgree

\* What Serialize wrote of a set that was edited, Deserialize reads back, unless the set holds
\* bytes that no element points at or an invalid tag: it refuses just those.
WireRoundTrip == Editing!WireRoundTrip

\* Bytes are accepted only if they are what Serialize would write for the set they
\* give: no two encodings are read as one set, and nothing is left of a refused one.
ParsedIsCanonical == Parsing!AcceptedIsCanonical
=============================================================================
