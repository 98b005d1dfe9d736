--------------------------- MODULE KeyMintDevice ---------------------------
(***************************************************************************)
(* AndroidKeyMintDevice and the AndroidKeyMintOperation objects it hands   *)
(* out, on top of AndroidKeymaster.  A client holds at most one operation  *)
(* object here; the object remembers its handle, and 0 once it is done.    *)
(* Keymaster's clients reach an operation only through such an object.     *)
(***************************************************************************)
EXTENDS AndroidKeymaster

CONSTANTS
    Clients,
    NoObject              \* the client holds no operation object

VARIABLE objects          \* client -> opHandle_ of its operation object

deviceVars == <<vars, objects>>

ASSUME DeviceAssumption == NoObject \notin Handles \cup {0}

\* An object is made only if begin succeeded, so the handle that comes with
\* TOO_MANY_OPERATIONS is lost, together with its operation.
begin(c, k, purpose, p) ==
    /\ objects[c] = NoObject
    /\ \E h \in Handles, answer \in BeginResults :
          /\ BeginOperation(k, purpose, p, h, answer)
          /\ objects' = IF answer = "OK" THEN [objects EXCEPT ![c] = h] ELSE objects

\* A slip: an update that fails closes the object.
updateClosing(c, p, n) ==
    /\ objects[c] # NoObject
    /\ \E answer \in UpdateResults : UpdateOperation(objects[c], p, n, answer)
    /\ objects' \in {objects, [objects EXCEPT ![c] = 0]}

\* update and updateAad.  The object keeps its handle even if the operation is
\* gone, and when not all of the input was consumed the operation lives on
\* although the client sees an error.
update(c, p, n) ==
    /\ objects[c] # NoObject
    /\ \E answer \in UpdateResults : UpdateOperation(objects[c], p, n, answer)
    /\ UNCHANGED objects

\* The device passes no confirmation token on.
finishObject(c, p, n) ==
    /\ objects[c] # NoObject
    /\ \E answer \in FinishResults : FinishOperation(objects[c], p, n, "absent", answer)
    /\ objects' = [objects EXCEPT ![c] = 0]

abort(c) ==
    /\ objects[c] # NoObject
    /\ \E answer \in AbortResults : AbortOperation(objects[c], answer)
    /\ objects' = [objects EXCEPT ![c] = 0]

\* A slip: the destructor does not abort.
DestroySilently(c) ==
    /\ objects[c] # NoObject
    /\ objects' = [objects EXCEPT ![c] = NoObject]
    /\ UNCHANGED vars

\* The client drops its reference: ~AndroidKeyMintOperation.
Destroy(c) ==
    /\ objects[c] # NoObject
    /\ IF objects[c] # 0
       THEN \E answer \in AbortResults : AbortOperation(objects[c], answer)
       ELSE UNCHANGED vars
    /\ objects' = [objects EXCEPT ![c] = NoObject]

DeviceInit == Init /\ objects = [c \in Clients |-> NoObject]

DeviceNext ==
    \/ \E c \in Clients :
          \/ \E k \in Keys, purpose \in Purposes, p \in HeldParams : begin(c, k, purpose, p)
          \/ \E p \in ContinueParams, n \in InputSizes : update(c, p, n) \/ finishObject(c, p, n)
          \/ abort(c)
          \/ Destroy(c)
    \/ \E k \in Keys : DeleteKey(k) /\ UNCHANGED objects
    \/ DeleteAllKeys /\ UNCHANGED objects
    \/ EnforcementEvent /\ UNCHANGED objects

DeviceSpec == DeviceInit /\ [][DeviceNext]_deviceVars

\* Clients drop their operation objects sooner or later: binder releases the
\* reference when the client does, or when it dies.
FairDeviceSpec ==
    DeviceSpec /\ \A c \in Clients : WF_deviceVars(Destroy(c))

(***************************************************************************)
(* Properties.                                                             *)
(***************************************************************************)

\* Every operation in the table is reachable: exactly one operation object
\* holds its handle, whatever errors occurred since begin.  So no slot of the
\* table is lost.
NoOrphanOperations ==
    \A h \in DOMAIN operations :
        \E c \in Clients :
            /\ objects[c] = h
            /\ \A d \in Clients \ {c} : objects[d] # h

\* A full operation table has room again, if clients drop their objects.
TableDrains == ~HasRoom ~> HasRoom
=============================================================================
