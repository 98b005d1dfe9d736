---------------------------- MODULE MCPassthrough ----------------------------
(***************************************************************************)
(* Two instances of Passthrough for TLC: keys of every kind, on keymaster1 *)
(* hardware whose digests the arbitration has to make up for or on         *)
(* keymaster2 hardware, and operations with data on the keymaster1         *)
(* hardware.  A behaviour is one of one of the instances.                  *)
(***************************************************************************)
EXTENDS Passthrough, TLC

VARIABLE part

\* Uneven hardware: the case the arbitration exists for.
UnevenDigests ==
    [q \in {<<"RSA", "SIGN">>, <<"RSA", "VERIFY">>, <<"EC", "VERIFY">>, <<"RSA", "ENCRYPT">>}
        |-> {"NONE", "SHA256", "SHA512"}]
    @@ [q \in {<<"EC", "SIGN">>, <<"HMAC", "SIGN">>, <<"HMAC", "VERIFY">>, <<"RSA", "DECRYPT">>}
        |-> {"NONE", "SHA256"}]

\* keymaster2 hardware supports all digests.
AllDigests == [q \in DOMAIN UnevenDigests |-> {"NONE", "SHA256", "SHA512"}]
MCDigests == [m \in {"km1", "km2"} |-> IF m = "km1" THEN UnevenDigests ELSE AllDigests]

Description(a, purposes, digests, curve, size) ==
    [algorithm |-> a, purposes |-> purposes, digests |-> digests, curve |-> curve, size |-> size]

\* Every way through the arbitration; 256 stands for the curve P-256 and for its size.
KeyDescriptions ==
    {Description("EC", {"SIGN", "VERIFY"}, {"SHA256", "SHA512"}, 256, size) : size \in {NONE, 384}}
    \cup {Description("EC", {"SIGN", "VERIFY"}, {"SHA256"}, 256, NONE)}
    \cup {Description("RSA", {"DECRYPT"}, {"SHA512"}, NONE, 256)}
    \cup {Description("HMAC", {"SIGN", "VERIFY"}, {x}, NONE, 256) : x \in {"SHA256", "SHA512"}}
    \cup {Description("AES", ps, {}, NONE, 256) : ps \in {{}, {"ENCRYPT", "DECRYPT"}}}
    \cup {Description("TRIPLE_DES", {"ENCRYPT"}, {}, NONE, 168)}

\* One key for each place an operation can go to.
OperationDescriptions ==
    {Description("EC", {"SIGN"}, {"SHA512"}, NONE, 256), Description("HMAC", {"SIGN"}, {"SHA512"}, NONE, 256),
     Description("AES", {"ENCRYPT"}, {}, NONE, 256)}

Operating == INSTANCE Passthrough WITH
    FailedQueries <- {0}, Descriptions <- OperationDescriptions, HwSlots <- 3, TableSize <- 2,
    MaxVersion <- 1, MaxInput <- 2

\* Bound: the factories a client has had made since the device was created.
FewFactories == Cardinality({a \in Algorithms : factories[a] # NONE}) <= IF part = "operations" THEN 3 ELSE 2

-----------------------------------------------------------------------------

PassthroughInit == part \in {"keys", "operations"} /\ Init /\ (part = "operations" => device = "km1")

PassthroughNext ==
    /\ UNCHANGED part
    /\ \/ part = "keys" /\ Next
       \/ part = "operations" /\ Operating!Next

PassthroughSpec == PassthroughInit /\ [][PassthroughNext]_<<part, vars>>
=============================================================================
