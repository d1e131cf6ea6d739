------------------- MODULE MCExpMachinePoolConversion -------------------
(***************************************************************************)
(* A MachinePool, or a MachinePoolList, converted through the scheme back  *)
(* and forth between v1beta1 and v1beta2 any number of times, starting at  *)
(* either version.  The inputs cover nil, zero and set values of every     *)
(* pointer, count and slice the generated code treats differently.         *)
(***************************************************************************)
EXTENDS ExpMachinePoolConversion, TLC

VARIABLES kind, start, orig, obj, ver

vars == <<kind, start, orig, obj, ver>>

MCValues == {"a"}

(***************************************************************************)
(* The element converters outside this package, by their effect on the     *)
(* fields: a v1 Condition has no Severity; the template is wrapped.        *)
(***************************************************************************)
MCConditionTo(c) == [type |-> c.type, status |-> c.status]
MCConditionFrom(c) == [type |-> c.type, status |-> c.status, severity |-> ""]
MCTemplateTo(t) == [v1beta2 |-> t]
MCTemplateFrom(t) == t.v1beta2

(***************************************************************************)
(* The hand-written MachinePoolStatus converters are outside src/, so a    *)
(* status is one of two abstract values of each version, and the pair of   *)
(* converters loses one of them: v1beta2's "h2" comes back as "h1".  The   *)
(* round-trip properties state what the generated code does around them.   *)
(***************************************************************************)
MCStatusTo(st) == IF st = "s1" THEN "h1" ELSE "h2"
MCStatusFrom(st) == "s1"

SpokeConds ==
    {Nil, Some(<<>>),
     Some(<<[type |-> "Ready", status |-> "False", severity |-> "Warning"]>>),
     Some(<<[type |-> "Ready", status |-> "True", severity |-> ""],
            [type |-> "Paused", status |-> "False", severity |-> ""]>>)}

HubConds ==
    {Nil, Some(<<>>), Some(<<[type |-> "Ready", status |-> "True"]>>),
     Some(<<[type |-> "Ready", status |-> "True"], [type |-> "Paused", status |-> "False"]>>)}

SpokeSpecs ==
    [clusterName : {"c"}, replicas : {Nil, Some(1)}, template : {"t"},
     minReadySeconds : {Some(0)}, providerIDList : {Nil, Some(<<"p">>)},
     failureDomains : {Nil, Some(<<"fd">>)}]

HubSpecs ==
    [clusterName : {"c"}, replicas : {Nil, Some(1)}, template : {[v1beta2 |-> "t"]},
     minReadySeconds : {Nil, Some(0)}, providerIDList : {Some(<<"p">>)},
     failureDomains : {Nil, Some(<<"fd">>)}]

SpokeStatuses ==
    [nodeRefs : {Nil}, replicas : {1}, readyReplicas : {0, 1},
     availableReplicas : {0, 1}, unavailableReplicas : {0, 1},
     failureReason : {Nil, Some("a")}, failureMessage : {Nil}, phase : {"Running"},
     bootstrapReady : BOOLEAN, infrastructureReady : {TRUE},
     observedGeneration : {1}, conditions : SpokeConds, v1beta2 : {Nil, Some("a")}]

HubStatuses ==
    [nodeRefs : {Nil}, replicas : {1}, readyReplicas : {Nil, Some(0), Some(1)},
     availableReplicas : {Nil, Some(1)}, phase : {"Running"}, observedGeneration : {1},
     conditions : HubConds, initialization : {Nil, Some("a")},
     upToDateReplicas : {Nil, Some(1)}, deprecated : {Nil}]

SpokePools == [meta : {"m"}, spec : SpokeSpecs, status : {"s1", "s2"}]
HubPools == [meta : {"m"}, spec : HubSpecs, status : {"h1", "h2"}]

\* Lists of up to two items, drawn from a few pools of each version.
ListsOf(P) ==
    LET p == CHOOSE x \in P : x.status \in {"s1", "h1"}
        q == CHOOSE x \in P : x.status \in {"s2", "h2"} /\ x.spec.minReadySeconds # Nil
    IN  [listMeta : {"l"}, items : {Nil, Some(<<>>), Some(<<q>>), Some(<<p, q>>), Some(<<q, p>>)}]

SpokeStatusZero ==
    [nodeRefs |-> Nil, replicas |-> 0, readyReplicas |-> 0, availableReplicas |-> 0,
     unavailableReplicas |-> 0, failureReason |-> Nil, failureMessage |-> Nil,
     phase |-> "", bootstrapReady |-> FALSE, infrastructureReady |-> FALSE,
     observedGeneration |-> 0, conditions |-> Nil, v1beta2 |-> Nil]

HubStatusZero ==
    [nodeRefs |-> Nil, replicas |-> 0, readyReplicas |-> Nil, availableReplicas |-> Nil,
     phase |-> "", observedGeneration |-> 0, conditions |-> Nil,
     initialization |-> Nil, upToDateReplicas |-> Nil, deprecated |-> Nil]

(***************************************************************************)
(* Besides what the scheme converts, a bare status is taken through the    *)
(* autoConvert status helpers the hand-written converters call, each       *)
(* writing into a zero-valued out ("AutoStatus").                          *)
(***************************************************************************)
Convert(k, dir, x) ==
    CASE k = "AutoStatus" /\ dir = "up"   -> MachinePoolStatusTo(x, HubStatusZero)
      [] k = "AutoStatus" /\ dir = "down" -> MachinePoolStatusFrom(x, SpokeStatusZero)
      [] OTHER                           -> SchemeConvert(k, dir, x)

Inputs(k, v) ==
    CASE k = "MachinePool"     /\ v = "v1beta1" -> SpokePools
      [] k = "MachinePool"     /\ v = "v1beta2" -> HubPools
      [] k = "MachinePoolList" /\ v = "v1beta1" -> ListsOf(SpokePools)
      [] k = "MachinePoolList" /\ v = "v1beta2" -> ListsOf(HubPools)
      [] k = "AutoStatus"      /\ v = "v1beta1" -> SpokeStatuses
      [] k = "AutoStatus"      /\ v = "v1beta2" -> HubStatuses

Init ==
    /\ kind \in {"MachinePool", "MachinePoolList", "AutoStatus"}
    /\ start \in {"v1beta1", "v1beta2"}
    /\ orig \in Inputs(kind, start)
    /\ obj = orig
    /\ ver = start

ConvertUp ==
    /\ ver = "v1beta1"
    /\ obj' = Convert(kind, "up", obj)
    /\ ver' = "v1beta2"
    /\ UNCHANGED <<kind, start, orig>>

ConvertDown ==
    /\ ver = "v1beta2"
    /\ obj' = Convert(kind, "down", obj)
    /\ ver' = "v1beta1"
    /\ UNCHANGED <<kind, start, orig>>

Next == ConvertUp \/ ConvertDown

Spec == Init /\ [][Next]_vars

(***************************************************************************)
(* Reference definitions: what one round trip may change, stated field by  *)
(* field on the original.                                                  *)
(***************************************************************************)
Items(x, F(_)) == IF x = Nil THEN Nil ELSE Some([i \in DOMAIN x[1] |-> F(x[1][i])])

SpokePoolRef(p) ==
    [p EXCEPT !.spec.template = MCTemplateFrom(MCTemplateTo(@)),
              !.status = MCStatusFrom(MCStatusTo(@))]

HubPoolRef(p) ==
    [p EXCEPT !.spec.template = MCTemplateTo(MCTemplateFrom(@)),
              !.status = MCStatusTo(MCStatusFrom(@))]

RoundTripRef(k, v, x) ==
    LET P(p) == IF v = "v1beta1" THEN SpokePoolRef(p) ELSE HubPoolRef(p) IN
    IF k = "MachinePool" THEN P(x) ELSE [x EXCEPT !.items = Items(@, P)]

\* A v1beta1 MachinePool or list that goes through v1beta2 and back, once or
\* many times, changes only as the element converters it calls change their
\* parts: meta, the spec fields and the list stay as they were, a nil Items
\* slice stays nil and an empty one empty, and items keep their order.
SpokeRoundTrip ==
    kind # "AutoStatus" /\ start = "v1beta1" /\ ver = "v1beta1" => obj \in {orig, RoundTripRef(kind, start, orig)}

\* The same for a v1beta2 MachinePool or list going through v1beta1 and back.
HubRoundTrip ==
    kind # "AutoStatus" /\ start = "v1beta2" /\ ver = "v1beta2" => obj \in {orig, RoundTripRef(kind, start, orig)}

(***************************************************************************)
(* What one round trip through the autoConvert status helpers changes,     *)
(* field by field: the fields the helpers leave to their caller are zero,  *)
(* condition severities are gone, and a nil count comes back as a pointer  *)
(* to 0.                                                                   *)
(***************************************************************************)
AutoSpokeRef(st) ==
    [st EXCEPT !.unavailableReplicas = 0, !.failureReason = Nil,
               !.failureMessage = Nil, !.bootstrapReady = FALSE,
               !.infrastructureReady = FALSE, !.v1beta2 = Nil,
               !.conditions = Items(@, LAMBDA c : [c EXCEPT !.severity = ""])]

AutoHubRef(st) ==
    [st EXCEPT !.readyReplicas = IF @ = Nil THEN Some(0) ELSE @,
               !.availableReplicas = IF @ = Nil THEN Some(0) ELSE @,
               !.initialization = Nil, !.upToDateReplicas = Nil, !.deprecated = Nil]

\* A status taken through the generated helpers and back, from zero-valued
\* outs, keeps every field with a peer, counts and condition slices included
\* (nil stays nil, order is kept), except as the reference says.
AutoStatusRoundTrip ==
    kind = "AutoStatus" /\ ver = start =>
        obj \in {orig, IF start = "v1beta1" THEN AutoSpokeRef(orig) ELSE AutoHubRef(orig)}
=============================================================================
