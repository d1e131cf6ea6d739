------------------- MODULE MCCoreV1alpha3Conversion -------------------
(***************************************************************************)
(* The v1alpha3 conversion webhook for the core kinds plugged into the     *)
(* conversion store.  The stored object is a Cluster, Machine, MachineSet, *)
(* MachineDeployment or MachineHealthCheck, tagged with its kind; every    *)
(* write keeps the kind.  A hub client writes objects with every           *)
(* v1beta2-only field set, or with the optional ones cleared; a v1alpha3   *)
(* client reads, edits a field it has and writes back, or recreates the    *)
(* object without annotation.                                              *)
(***************************************************************************)
EXTENDS CoreV1alpha3Conversion, TLC

VARIABLES stored, rv, copy, sent

MCValues == {"a", "b"}

Kinds == {"Cluster", "Machine", "MachineSet", "MachineDeployment", "MachineHealthCheck"}

Obj(k, o) == [kind |-> k, o |-> o]

(***************************************************************************)
(* Hub objects with every field set to x.                                  *)
(***************************************************************************)
ClusterAll(x, c) ==
    [paused |-> x, cpInitialized |-> c, availabilityGates |-> x,
     topology |-> Some(x), v1beta2 |-> x]

MachineAll(x) ==
    [f \in {"nodeDrainTimeout", "readinessGates", "nodeDeletionTimeout",
            "nodeVolumeDetachTimeout", "nodeInfo", "certificatesExpiryDate",
            "deletion", "v1beta2"} |-> x]

MachineSetAll(x) ==
    [replicas |-> x, readinessGates |-> x, nodeDeletionTimeout |-> x,
     nodeVolumeDetachTimeout |-> x, conditions |-> x, v1beta2 |-> x,
     machineNamingStrategy |-> Some(x)]

MDAll(x) ==
    [replicas |-> x,
     strategy |-> Some([type |-> "RollingUpdate",
                        rollingUpdate |-> Some([maxSurge |-> Some(x), deletePolicy |-> x]),
                        remediation |-> Some(x)]),
     machineNamingStrategy |-> Some(x), readinessGates |-> x, nodeDeletionTimeout |-> x,
     nodeVolumeDetachTimeout |-> x, rolloutAfter |-> x, conditions |-> x, v1beta2 |-> x]

MHCAll(x) == [maxUnhealthy |-> x, unhealthyRange |-> Some(x), v1beta2 |-> x]

MCInitHubs ==
    { Obj("Cluster", ClusterAll("a", "")), Obj("Machine", MachineAll("a")),
      Obj("MachineSet", MachineSetAll("a")), Obj("MachineDeployment", MDAll("a")),
      Obj("MachineHealthCheck", MHCAll("a")) }

AllHubWrites ==
    { Obj("Cluster", ClusterAll("b", "True")), Obj("Cluster", ClusterAll("b", "False")),
      Obj("Cluster", [ClusterAll("b", "") EXCEPT !.topology = Nil, !.availabilityGates = ""]),
      Obj("Machine", MachineAll("b")),
      Obj("Machine", [MachineAll("b") EXCEPT !.nodeInfo = "", !.deletion = ""]),
      Obj("MachineSet", MachineSetAll("b")),
      Obj("MachineSet", [MachineSetAll("b") EXCEPT !.machineNamingStrategy = Nil, !.conditions = ""]),
      Obj("MachineDeployment", MDAll("b")),
      Obj("MachineDeployment", [MDAll("b") EXCEPT !.strategy = Some([@[1] EXCEPT !.rollingUpdate = Nil])]),
      Obj("MachineDeployment", [MDAll("b") EXCEPT !.strategy = Nil, !.machineNamingStrategy = Nil]),
      Obj("MachineHealthCheck", MHCAll("b")),
      Obj("MachineHealthCheck", [MHCAll("b") EXCEPT !.unhealthyRange = Nil]) }

AllSpokeCreates ==
    { Obj("Cluster", [paused |-> "a", cpInitialized |-> "", controlPlaneInitialized |-> TRUE, ann |-> NoAnn]),
      Obj("Machine", [nodeDrainTimeout |-> "a", statusVersion |-> "a", ann |-> NoAnn]),
      Obj("MachineSet", [replicas |-> "a", ann |-> NoAnn]),
      Obj("MachineDeployment", [replicas |-> "a", strategy |-> Nil, ann |-> NoAnn]),
      Obj("MachineHealthCheck", [maxUnhealthy |-> "a", ann |-> NoAnn]) }

\* The edits of each kind's v1alpha3 fields.  The ControlPlaneInitialized
\* bool only ever goes from false to true in v1alpha3.
AllSpokeEdits ==
    { Obj("Cluster", "pause"), Obj("Cluster", "initialized"),
      Obj("Machine", ""), Obj("Machine", "b"),
      Obj("MachineSet", ""), Obj("MachineSet", "b"),
      Obj("MachineDeployment", "replicas"), Obj("MachineDeployment", "noStrategy"),
      Obj("MachineDeployment", "noRollingUpdate"), Obj("MachineDeployment", "maxSurge"),
      Obj("MachineHealthCheck", ""), Obj("MachineHealthCheck", "b") }

OfKind(S, x) == {y \in S : y.kind = x.kind}

MDEdit(s, e) ==
    CASE e = "replicas"        -> [s EXCEPT !.replicas = "b"]
      [] e = "noStrategy"      -> [s EXCEPT !.strategy = Nil]
      [] e = "noRollingUpdate" ->
            [s EXCEPT !.strategy = IF @ = Nil THEN Nil
                                   ELSE Some([@[1] EXCEPT !.rollingUpdate = Nil])]
      [] e = "maxSurge"        ->
            [s EXCEPT !.strategy =
                Some([type |-> "RollingUpdate",
                      rollingUpdate |-> Some([maxSurge |-> Some("b")])])]

MCEdit(s, e) ==
    Obj(s.kind,
        CASE s.kind = "Cluster" ->
               IF e.o = "pause" THEN [s.o EXCEPT !.paused = "b"]
               ELSE [s.o EXCEPT !.controlPlaneInitialized = TRUE]
          [] s.kind = "Machine"            -> [s.o EXCEPT !.nodeDrainTimeout = e.o]
          [] s.kind = "MachineSet"         -> [s.o EXCEPT !.replicas = e.o]
          [] s.kind = "MachineDeployment"  -> MDEdit(s.o, e.o)
          [] s.kind = "MachineHealthCheck" -> [s.o EXCEPT !.maxUnhealthy = e.o])

\* The webhook dispatches on the kind of the object.
ByKind(x, C(_), M(_), MS(_), MD(_), MHC(_)) ==
    Obj(x.kind, CASE x.kind = "Cluster"            -> C(x.o)
                  [] x.kind = "Machine"            -> M(x.o)
                  [] x.kind = "MachineSet"         -> MS(x.o)
                  [] x.kind = "MachineDeployment"  -> MD(x.o)
                  [] x.kind = "MachineHealthCheck" -> MHC(x.o))

CoreConvertTo(s) ==
    ByKind(s, ClusterConvertTo, MachineConvertTo, MachineSetConvertTo, MDConvertTo, MHCConvertTo)
CoreConvertFrom(h) ==
    ByKind(h, ClusterConvertFrom, MachineConvertFrom, MachineSetConvertFrom, MDConvertFrom, MHCConvertFrom)
CoreSpokeView(s) ==
    ByKind(s, ClusterSpokeView, MachineSpokeView, MachineSetSpokeView, MDSpokeView, MHCSpokeView)
CoreHubOnly(h) ==
    ByKind(h, ClusterHubOnly, MachineHubOnly, MachineSetHubOnly, MDHubOnly, MHCHubOnly)

CS == INSTANCE ConversionStore WITH
        InitHubs <- MCInitHubs,
        HubWrites <- LAMBDA h : OfKind(AllHubWrites, h),
        SpokeCreates <- LAMBDA h : OfKind(AllSpokeCreates, h),
        SpokeEdits <- LAMBDA s : OfKind(AllSpokeEdits, s),
        Edit <- MCEdit, ConvertTo <- CoreConvertTo, ConvertFrom <- CoreConvertFrom,
        SpokeView <- CoreSpokeView, HubOnly <- CoreHubOnly, MaxRV <- 4

Spec == CS!Spec

\* Passing any core object through v1alpha3 unchanged loses no v1beta2
\* field: nil and partial MachineDeployment Strategies, a nil
\* MachineNamingStrategy or UnhealthyRange, and a False
\* ControlPlaneInitialized condition all come back as they were.
HubRoundTrip == CS!HubRoundTrip

\* A v1alpha3 Update keeps the fields v1alpha3 lacks, DeletePolicy and
\* Remediation inside a MachineDeployment's Strategy included.
HubOnlyPreserved == CS!HubOnlyPreserved

\* A v1alpha3 client reads back what it wrote: a cleared Strategy or a new
\* MaxSurge stays as written even when the Strategy restore allocates, and a
\* Cluster marked initialized reads back as initialized.
ReadYourWrites == CS!ReadYourWrites
=============================================================================
