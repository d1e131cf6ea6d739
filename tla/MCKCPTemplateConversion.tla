----------------------- MODULE MCKCPTemplateConversion -----------------------
(***************************************************************************)
(* The KubeadmControlPlaneTemplate conversion plugged into the conversion  *)
(* store: a controller writes templates with and without a MachineTemplate *)
(* and with nested RolloutStrategy pointers set or not; a v1alpha4 client  *)
(* edits NodeDrainTimeout, RolloutAfter or RolloutStrategy.                *)
(***************************************************************************)
EXTENDS KCPConversion, TLC

VARIABLES stored, rv, copy, sent

MCValues == {"a", "b"}

RS(type, ru) == Some([type |-> type, rollingUpdate |-> ru])

\* The template with every field set to x.
TemplateHubAll(x) ==
    [meta |-> x,
     machineTemplate |-> Some([nodeDrainTimeout |-> x, meta |-> x,
                               nodeDeletionTimeout |-> x, nodeVolumeDetachTimeout |-> x]),
     rolloutAfter |-> x,
     rolloutStrategy |-> RS("RollingUpdate", Some([maxSurge |-> Some(x)])),
     rolloutBefore |-> x, remediationStrategy |-> Some(x), machineNamingStrategy |-> Some(x)]

MCInitHub == TemplateHubAll("a")

MCHubWrites ==
    {TemplateHubAll("b"),
     [TemplateHubAll("b") EXCEPT !.machineTemplate = Nil,
                                 !.rolloutStrategy = RS("", Some([maxSurge |-> Nil])),
                                 !.remediationStrategy = Nil]}

MCSpokeCreates ==
    {[nodeDrainTimeout |-> "a", rolloutAfter |-> "", rolloutStrategy |-> Nil, ann |-> NoAnn]}

MCSpokeEdits ==
    [f : {"nodeDrainTimeout", "rolloutAfter"}, v : {"", "b"}]
    \cup [f : {"rolloutStrategy"}, v : {Nil, RS("RollingUpdate", Nil)}]

MCEdit(s, e) == [s EXCEPT ![e.f] = e.v]

CS == INSTANCE ConversionStore WITH
        InitHubs <- {MCInitHub}, HubWrites <- LAMBDA h : MCHubWrites,
        SpokeCreates <- LAMBDA h : MCSpokeCreates, SpokeEdits <- LAMBDA s : MCSpokeEdits,
        Edit <- MCEdit, ConvertTo <- TemplateConvertTo, ConvertFrom <- TemplateConvertFrom,
        SpokeView <- TemplateSpokeView, HubOnly <- TemplateHubOnly, MaxRV <- 4

Spec == CS!Spec

\* Passing a KubeadmControlPlaneTemplate through v1alpha4 unchanged loses
\* nothing, a nil MachineTemplate and nested RolloutStrategy pointers included.
HubRoundTrip == CS!HubRoundTrip

\* A v1alpha4 Update of a template keeps the v1beta2-only fields: metadata,
\* the MachineTemplate's metadata and node timeouts, RolloutBefore,
\* RemediationStrategy and MachineNamingStrategy.
HubOnlyPreserved == CS!HubOnlyPreserved

\* A v1alpha4 client reads back the NodeDrainTimeout, RolloutAfter and
\* RolloutStrategy it wrote into a template.
ReadYourWrites == CS!ReadYourWrites
=============================================================================
