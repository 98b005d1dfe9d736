------------------------------ MODULE MCDevices ------------------------------
(***************************************************************************)
(* The keymaster1/keymaster2 device on two small instances, and the import *)
(* of wrapped keys.  In the first instance clients make every call with    *)
(* every kind of key, on hardware with one operation; in the second they   *)
(* use few kinds of keys in operations with longer messages, on hardware   *)
(* with two.  A behaviour is one of an instance of the device, or one of   *)
(* wrapped keys.                                                           *)
(*                                                                         *)
(* The hardware reports NONE and SHA256 for every algorithm, as keymaster1 *)
(* requires of it, and lacks the other digests.                            *)
(***************************************************************************)
EXTENDS SoftKeymasterDevice

VARIABLES part, wraps, import_result

deviceVars == vars
wrapVars == <<wraps, import_result>>

-----------------------------------------------------------------------------
(* SoftKeymasterDevice. *)

Describe(algorithm, purposes, ds, ps) ==
    [algorithm |-> algorithm, purposes |-> purposes, digests |-> ds, paddings |-> ps,
     sizeFitsCurve |-> TRUE]
RsaSign == Describe("RSA", {"SIGN"}, {"SHA256", "SHA1"}, {"PKCS1", "PSS"})
RsaCrypt == Describe("RSA", {"DECRYPT"}, {"SHA1"}, {"OAEP"})
EcSign == Describe("EC", {"SIGN", "VERIFY"}, {"SHA256", "SHA512"}, {})
EcMismatched == [EcSign EXCEPT !.sizeFitsCurve = FALSE]
HmacSha1 == Describe("HMAC", {"SIGN", "VERIFY"}, {"SHA1"}, {})
AesEncrypt == Describe("AES", {"ENCRYPT"}, {}, {})
AllDescriptions == {EcMismatched, RsaSign, RsaCrypt, EcSign, HmacSha1, AesEncrypt}

EcOne == Describe("EC", {"SIGN"}, {"SHA512"}, {})
HmacOne == Describe("HMAC", {"SIGN"}, {"SHA1"}, {})

NoneAndSha256 == [pair \in ToSet(MapPairs) |-> {"NONE", "SHA256"}]

Legacy(d, format) ==
    [algorithm |-> d.algorithm, purposes |-> d.purposes, digests |-> d.digests, paddings |-> d.paddings,
     format |-> format, asked |-> d, wrapping |-> FALSE]
SoftwareKeys == {Legacy(HmacSha1, "ocb"), Legacy(RsaSign, "softkeymaster")}

Operating == INSTANCE SoftKeymasterDevice WITH
    Descriptions <- {AesEncrypt, EcOne, HmacOne}, LegacyKeys <- {}, HwHandles <- {1, 2}, MaxChunks <- 2

-----------------------------------------------------------------------------
(* WrappedKey: two usable wrapping keys, one without the purpose, one bound *)
(* to an application and one not authorized; transit keys and masks that    *)
(* collide under XOR; a mask of another size.                               *)

Wk(id, purposes, bound) == [id |-> id, purposes |-> purposes, authorized |-> TRUE, bound |-> bound]
UsableKeys == {Wk("w1", {"WRAP"}, FALSE), Wk("w2", {"WRAP", "DECRYPT"}, FALSE)}
UnusableKeys ==
    {Wk("w3", {"DECRYPT"}, FALSE), Wk("w4", {"WRAP"}, TRUE),
     [Wk("w5", {"WRAP"}, FALSE) EXCEPT !.authorized = FALSE]}
Aes(ones) == [size |-> 32, ones |-> ones]
Desc(a, f, s) == [algorithm |-> a, format |-> f, sids |-> s]

Wrapping == INSTANCE WrappedKey WITH
    result <- import_result, KmVersion <- "KEYMINT_1", MaxWraps <- 2,
    WrappingKeys <- UsableKeys \cup UnusableKeys,
    TransitKeys <- {Aes({1}), Aes({2})},
    MaskingKeys <- {Aes({}), Aes({1, 2}), [size |-> 16, ones |-> {}]},
    Descriptions <- {Desc("AES", "RAW", 3), Desc("AES", "PKCS8", NONE), Desc("EC", "PKCS8", NONE)}

\* Bound: a wrap for an unusable key is the only one.
UnusableAlone == Cardinality(wraps) = 2 => \A w \in wraps : w.wk \in UsableKeys

-----------------------------------------------------------------------------

DevicesInit ==
    /\ part \in {"calls", "operations", "wrapping"}
    /\ IF part = "calls" THEN Init ELSE Operating!Init
    /\ Wrapping!Init

DevicesNext ==
    /\ UNCHANGED part
    /\ \/ part = "calls" /\ Next /\ UNCHANGED wrapVars
       \/ part = "operations" /\ Operating!OperationNext /\ UNCHANGED wrapVars
       \/ part = "wrapping" /\ Wrapping!Next /\ UNCHANGED deviceVars

DevicesFairness ==
    /\ WF_deviceVars(part = "calls" /\ FinishUpdate)
    /\ WF_deviceVars(part = "calls" /\ FinishLast)
    /\ WF_deviceVars(part = "operations" /\ Operating!FinishUpdate)
    /\ WF_deviceVars(part = "operations" /\ Operating!FinishLast)

DevicesSpec == DevicesInit /\ [][DevicesNext]_<<part, deviceVars, wrapVars>> /\ DevicesFairness

-----------------------------------------------------------------------------
(* The properties of the parts.                                              *)

\* update(), finish() and abort() reach the engine that holds the operation of the
\* client's handle, and no operation stays open in the hardware or in the table after the
\* client's operation has failed, finished or been aborted, whichever part failed.
OperationsKeptApart ==
    /\ IF part = "calls" THEN TypeOK ELSE Operating!TypeOK
    /\ HandleLeadsToItsOperation
    /\ NoOperationLeaks

\* A finished operation gives, with what update() gave before, what one computation with
\* the requested digest and padding over the whole message gives, wherever it is done; and
\* update() and finish() fail only when the hardware or the software does.
OperationsComputeWhole == WholeMessageComputed /\ HealthyOperationsFinish

\* A key made through the device can be used for every purpose with every digest and
\* padding it was made for, and both interfaces recognize it: begin(), export_key and
\* get_key_characteristics pick the engine that understands the blob.
DeviceKeysAreUsable == AuthorizedUseBegins /\ DeviceKnowsItsKeys

\* A key that importWrappedKey imports has the material, the format and the authorizations
\* of one wrap, and a wrap is imported only with its own wrapping key and masking key; one
\* that arrives whole, for a usable wrapping key, is imported whenever a factory takes
\* keys of its description.
ImportsWhatWasWrapped == Wrapping!ImportedAsWrapped /\ Wrapping!IntactWrapImports
=============================================================================
