--------------------------- MODULE MCKCPConversion ---------------------------
(***************************************************************************)
(* The KubeadmControlPlane conversion plugged into the conversion store:   *)
(* a controller writes hub objects that set every hub-only field, a        *)
(* v1alpha4 client reads, edits and writes back, or recreates the object.  *)
(***************************************************************************)
EXTENDS KCPConversion, TLC

VARIABLES stored, rv, copy, sent

MCValues == {"a", "b"}

\* The hub object with every field set to x (pointers to Some(x)).
KCPHubAll(x) ==
    [nodeDrainTimeout |-> x, rolloutAfter |-> x, readinessGates |-> x,
     nodeDeletionTimeout |-> x, nodeVolumeDetachTimeout |-> x, rolloutBefore |-> x,
     remediationStrategy |-> Some(x), lastRemediation |-> Some(x),
     machineNamingStrategy |-> Some(x), v1beta2 |-> x]

MCInitHub == KCPHubAll("a")

\* A controller sets everything to "b", or clears the optional fields.
MCHubWrites ==
    {KCPHubAll("b"),
     [KCPHubAll("b") EXCEPT !.remediationStrategy = Nil, !.lastRemediation = Nil,
                            !.machineNamingStrategy = Nil]}

MCSpokeCreates == {[nodeDrainTimeout |-> "a", rolloutAfter |-> "", ann |-> NoAnn]}

MCSpokeEdits ==
    [f : {"nodeDrainTimeout", "rolloutAfter"}, v : {"", "b"}]

MCEdit(s, e) == [s EXCEPT ![e.f] = e.v]

CS == INSTANCE ConversionStore WITH
        InitHubs <- {MCInitHub}, HubWrites <- LAMBDA h : MCHubWrites,
        SpokeCreates <- LAMBDA h : MCSpokeCreates, SpokeEdits <- LAMBDA s : MCSpokeEdits,
        Edit <- MCEdit, ConvertTo <- KCPConvertTo, ConvertFrom <- KCPConvertFrom,
        SpokeView <- KCPSpokeView, HubOnly <- KCPHubOnly, MaxRV <- 4

Spec == CS!Spec

\* Passing a KubeadmControlPlane through v1alpha4 unchanged loses nothing.
HubRoundTrip == CS!HubRoundTrip

\* A v1alpha4 Update of a KubeadmControlPlane keeps the v1beta2-only fields.
HubOnlyPreserved == CS!HubOnlyPreserved

\* A v1alpha4 client reads back the NodeDrainTimeout and RolloutAfter it wrote.
ReadYourWrites == CS!ReadYourWrites
=============================================================================
