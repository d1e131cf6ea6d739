----------------------- MODULE ExpMachinePoolConversion -----------------------
(***************************************************************************)
(* The generated conversions of the experimental MachinePool types between *)
(* v1beta1 and v1beta2, src/exp/api/v1beta1/zz_generated.conversion.go.    *)
(* Each converter writes into a zero-valued object (the conversion webhook *)
(* allocates it), copies the fields both versions have, turns the int32    *)
(* replica counts into pointers and back, converts the Conditions and the  *)
(* Items element by element, and leaves the fields the peer type lacks     *)
(* zero.                                                                   *)
(*                                                                         *)
(* The converters of one Condition and of a MachineTemplateSpec live in    *)
(* packages outside this directory, and the MachinePoolStatus converters   *)
(* RegisterConversions installs with AddConversionFunc are hand-written    *)
(* outside src/: they call the autoConvert status helpers below and        *)
(* convert the fields those mark "requires manual conversion".  All four   *)
(* pairs are parameters here.  They never fail, so the error returns of    *)
(* the generated code are never taken.                                     *)
(***************************************************************************)
EXTENDS ConversionValues

CONSTANTS
    ConditionTo(_),     \* Convert_v1beta1_Condition_To_v1_Condition
    ConditionFrom(_),   \* Convert_v1_Condition_To_v1beta1_Condition
    TemplateTo(_),      \* Convert_v1beta1_MachineTemplateSpec_To_v1beta2_...
    TemplateFrom(_),    \* Convert_v1beta2_MachineTemplateSpec_To_v1beta1_...
    StatusTo(_),        \* Convert_v1beta1_MachinePoolStatus_To_v1beta2_...
    StatusFrom(_)       \* Convert_v1beta2_MachinePoolStatus_To_v1beta1_...

(***************************************************************************)
(* A slice is Nil or Some(sequence).  For a slice whose elements need a    *)
(* converter, the generator emits a loop: a nil slice stays nil, any other *)
(* is allocated with the same length and converted element by element.    *)
(***************************************************************************)
\* The Conditions loop of the up conversion.
ConvertConditionsTo(in) ==
    IF in = Nil THEN Nil ELSE Some([i \in DOMAIN in[1] |-> ConditionTo(in[1][i])])

\* The Conditions loop of the down conversion.
ConvertConditionsFrom(in) ==
    IF in = Nil THEN Nil ELSE Some([i \in DOMAIN in[1] |-> ConditionFrom(in[1][i])])

\* v1.Convert_Pointer_int32_To_int32: a nil pointer reads as 0.
PointerInt32ToInt32(p) == IF p = Nil THEN 0 ELSE p[1]

\* autoConvert_v1beta1_MachinePoolSpec_To_v1beta2_MachinePoolSpec.  The
\* unsafe.Pointer casts share the pointed-to values; no converter writes
\* through them afterwards, so a copy of the value is what they do here.
MachinePoolSpecTo(in) ==
    [clusterName |-> in.clusterName, replicas |-> in.replicas,
     template |-> TemplateTo(in.template), minReadySeconds |-> in.minReadySeconds,
     providerIDList |-> in.providerIDList, failureDomains |-> in.failureDomains]

\* autoConvert_v1beta2_MachinePoolSpec_To_v1beta1_MachinePoolSpec
MachinePoolSpecFrom(in) ==
    [clusterName |-> in.clusterName, replicas |-> in.replicas,
     template |-> TemplateFrom(in.template), minReadySeconds |-> in.minReadySeconds,
     providerIDList |-> in.providerIDList, failureDomains |-> in.failureDomains]

\* Variant: the two counts are crossed.
MachinePoolStatusToCrossed(in, out) ==
    [out EXCEPT !.nodeRefs = in.nodeRefs, !.replicas = in.replicas,
                !.readyReplicas = Some(in.availableReplicas),
                !.availableReplicas = Some(in.readyReplicas),
                !.phase = in.phase, !.observedGeneration = in.observedGeneration,
                !.conditions = ConvertConditionsTo(in.conditions)]

(***************************************************************************)
(* autoConvert_v1beta1_MachinePoolStatus_To_v1beta2_MachinePoolStatus      *)
(* writes the fields with a peer into out and leaves the others as out had *)
(* them.  Convert_int32_To_Pointer_int32 always yields a non-nil pointer.  *)
(* UnavailableReplicas, FailureReason, FailureMessage, BootstrapReady,     *)
(* InfrastructureReady and V1Beta2 are left to the hand-written caller.    *)
(***************************************************************************)
MachinePoolStatusTo(in, out) ==
    [out EXCEPT !.nodeRefs = in.nodeRefs, !.replicas = in.replicas,
                !.readyReplicas = Some(in.readyReplicas),
                !.availableReplicas = Some(in.availableReplicas),
                !.phase = in.phase, !.observedGeneration = in.observedGeneration,
                !.conditions = ConvertConditionsTo(in.conditions)]

(***************************************************************************)
(* autoConvert_v1beta2_MachinePoolStatus_To_v1beta1_MachinePoolStatus:     *)
(* Initialization, UpToDateReplicas and Deprecated are left to the caller; *)
(* a nil count is written as 0.                                            *)
(***************************************************************************)
MachinePoolStatusFrom(in, out) ==
    [out EXCEPT !.conditions = ConvertConditionsFrom(in.conditions),
                !.nodeRefs = in.nodeRefs, !.replicas = in.replicas,
                !.readyReplicas = PointerInt32ToInt32(in.readyReplicas),
                !.availableReplicas = PointerInt32ToInt32(in.availableReplicas),
                !.phase = in.phase, !.observedGeneration = in.observedGeneration]

\* Convert_v1beta1_MachinePool_To_v1beta2_MachinePool
MachinePoolTo(in) ==
    [meta |-> in.meta, spec |-> MachinePoolSpecTo(in.spec),
     status |-> StatusTo(in.status)]

\* Convert_v1beta2_MachinePool_To_v1beta1_MachinePool
MachinePoolFrom(in) ==
    [meta |-> in.meta, spec |-> MachinePoolSpecFrom(in.spec),
     status |-> StatusFrom(in.status)]

\* Variant: the down conversion allocates a nil Items slice.
MachinePoolListFromNilAsEmpty(in) ==
    [listMeta |-> in.listMeta,
     items |-> IF in.items = Nil THEN Some(<<>>)
               ELSE Some([i \in DOMAIN in.items[1] |-> MachinePoolFrom(in.items[1][i])])]

\* Variant: a nil Items slice comes out allocated and empty.
MachinePoolListToNilAsEmpty(in) ==
    [listMeta |-> in.listMeta,
     items |-> IF in.items = Nil THEN Some(<<>>)
               ELSE Some([i \in DOMAIN in.items[1] |-> MachinePoolTo(in.items[1][i])])]

\* Convert_v1beta1_MachinePoolList_To_v1beta2_MachinePoolList
MachinePoolListTo(in) ==
    [listMeta |-> in.listMeta,
     items |-> IF in.items = Nil THEN Nil
               ELSE Some([i \in DOMAIN in.items[1] |-> MachinePoolTo(in.items[1][i])])]

\* Convert_v1beta2_MachinePoolList_To_v1beta1_MachinePoolList
MachinePoolListFrom(in) ==
    [listMeta |-> in.listMeta,
     items |-> IF in.items = Nil THEN Nil
               ELSE Some([i \in DOMAIN in.items[1] |-> MachinePoolFrom(in.items[1][i])])]

(***************************************************************************)
(* RegisterConversions: the scheme's converter for a kind and a direction  *)
(* ("up" is v1beta1 to v1beta2): MachinePool, MachinePoolList,             *)
(* MachinePoolSpec, MachinePoolStatus, Condition and MachineTemplateSpec,  *)
(* each registered in both directions.                                     *)
(***************************************************************************)
SchemeConvert(kind, dir, x) ==
    CASE kind = "MachinePool"         /\ dir = "up"   -> MachinePoolTo(x)
      [] kind = "MachinePool"         /\ dir = "down" -> MachinePoolFrom(x)
      [] kind = "MachinePoolList"     /\ dir = "up"   -> MachinePoolListTo(x)
      [] kind = "MachinePoolList"     /\ dir = "down" -> MachinePoolListFrom(x)
      [] kind = "MachinePoolSpec"     /\ dir = "up"   -> MachinePoolSpecTo(x)
      [] kind = "MachinePoolSpec"     /\ dir = "down" -> MachinePoolSpecFrom(x)
      [] kind = "Condition"           /\ dir = "up"   -> ConditionTo(x)
      [] kind = "Condition"           /\ dir = "down" -> ConditionFrom(x)
      [] kind = "MachinePoolStatus"   /\ dir = "up"   -> StatusTo(x)
      [] kind = "MachineTemplateSpec" /\ dir = "up"   -> TemplateTo(x)
      [] kind = "MachinePoolStatus"   /\ dir = "down" -> StatusFrom(x)
      [] kind = "MachineTemplateSpec" /\ dir = "down" -> TemplateFrom(x)
=============================================================================
