--------------------------- MODULE ConversionStore ---------------------------
(***************************************************************************)
(* An object of a multi-version CRD as the API server keeps it: stored at  *)
(* the hub version and served to clients of an older (spoke) version       *)
(* through the conversion functions.  A spoke Get is ConvertFrom of the    *)
(* stored object, which also records the whole hub object in an            *)
(* annotation (utilconversion.MarshalData); a spoke Update or Create is    *)
(* ConvertTo of what the client sends, which restores the hub-only fields  *)
(* from that annotation (utilconversion.UnmarshalData).  Updates carry the *)
(* resourceVersion the client read; a stale one is refused with Conflict.  *)
(*                                                                         *)
(* The API server is not part of this repository; this module is the      *)
(* harness that the conversion functions of one kind are plugged into.     *)
(***************************************************************************)
EXTENDS Naturals

CONSTANTS
    InitHubs,         \* the objects as first stored
    HubWrites(_),     \* hub objects a hub-version client (a controller) may write over h
    SpokeCreates(_),  \* spoke objects, without annotation, that may replace h
    SpokeEdits(_),    \* the edits a spoke client may make to the spoke object it read
    Edit(_, _),       \* Edit(s, e): spoke object s with edit e applied
    ConvertTo(_),     \* spoke object -> hub object
    ConvertFrom(_),   \* hub object -> spoke object with annotation
    SpokeView(_),     \* the fields of a spoke object a spoke client sees and sets
    HubOnly(_),       \* the fields of a hub object the spoke version lacks
    MaxRV             \* bound on the number of writes

VARIABLES
    stored,           \* the object in etcd, at the hub version
    rv,               \* its resourceVersion
    copy,             \* the spoke client's copy: [held, obj, rv]
    sent              \* the spoke object the last step wrote, if it was a spoke Update

vars == <<stored, rv, copy, sent>>

\* An arbitrary object, the content of an empty copy.
NoObj == CHOOSE h \in InitHubs : TRUE

NoCopy == [held |-> FALSE, obj |-> NoObj, rv |-> 0]
NoSent == [held |-> FALSE, obj |-> NoObj]

Init ==
    /\ stored \in InitHubs
    /\ rv = 0
    /\ copy = NoCopy
    /\ sent = NoSent

\* A hub-version client writes the object (its own Get is fresh).
HubWrite(h) ==
    /\ rv < MaxRV
    /\ stored' = h
    /\ rv' = rv + 1
    /\ sent' = NoSent
    /\ UNCHANGED copy

\* A spoke client reads: the webhook converts the stored object down.
SpokeGet ==
    /\ copy' = [held |-> TRUE, obj |-> ConvertFrom(stored), rv |-> rv]
    /\ sent' = NoSent
    /\ UNCHANGED <<stored, rv>>

\* A spoke client writes back its edited copy; the webhook converts it up.
SpokeUpdate(e) ==
    LET s == Edit(copy.obj, e) IN
    /\ copy.held
    /\ copy.rv = rv
    /\ rv < MaxRV
    /\ stored' = ConvertTo(s)
    /\ rv' = rv + 1
    /\ copy' = NoCopy
    /\ sent' = [held |-> TRUE, obj |-> s]

\* The write of a stale copy is refused; the client drops its copy.
SpokeConflict ==
    /\ copy.held
    /\ copy.rv # rv
    /\ copy' = NoCopy
    /\ sent' = NoSent
    /\ UNCHANGED <<stored, rv>>

\* A spoke client deletes the object and creates it afresh, without annotation.
SpokeCreate(s) ==
    /\ rv < MaxRV
    /\ stored' = ConvertTo(s)
    /\ rv' = rv + 1
    /\ copy' = NoCopy
    /\ sent' = NoSent

Next ==
    \/ \E h \in HubWrites(stored) : HubWrite(h)
    \/ SpokeGet
    \/ \E e \in SpokeEdits(copy.obj) : SpokeUpdate(e)
    \/ SpokeConflict
    \/ \E s \in SpokeCreates(stored) : SpokeCreate(s)

Spec == Init /\ [][Next]_vars

(***************************************************************************)
(* Properties                                                              *)
(***************************************************************************)

\* Reading through the old version and writing back unchanged is a no-op:
\* ConvertTo(ConvertFrom(h)) = h for every object the store holds, so no
\* hub field is lost by a client that merely passes through.
HubRoundTrip == ConvertTo(ConvertFrom(stored)) = stored

\* A spoke client that updates the object cannot clear what it cannot see:
\* the hub-only fields of the object are those it had before the update.
HubOnlyPreserved ==
    [][sent'.held => HubOnly(stored') = HubOnly(stored)]_vars

\* A spoke client reads back what it wrote: the fields of its version in
\* the updated object are those it sent.
ReadYourWrites ==
    [][sent'.held => SpokeView(ConvertFrom(stored')) = SpokeView(sent'.obj)]_vars
=============================================================================
