------------------------ MODULE CoreV1alpha3Conversion ------------------------
(***************************************************************************)
(* Conversion of the core types between v1alpha3 (spoke) and v1beta2      *)
(* (hub), src/internal/apis/core/v1alpha3/conversion.go.  Each ConvertTo   *)
(* runs the generated conversion and, when the annotation is present,      *)
(* restores the fields v1alpha3 lacks; each ConvertFrom runs the generated *)
(* conversion and keeps the whole hub object in the annotation.  An object *)
(* is a record of the fields the conversion treats differently: one field  *)
(* both versions have (copied by the generated code) and every field the   *)
(* manual code restores.                                                   *)
(***************************************************************************)
EXTENDS ConversionValues

(***************************************************************************)
(* Machine                                                                 *)
(***************************************************************************)
MachineHub ==
    [nodeDrainTimeout : V, readinessGates : V, nodeDeletionTimeout : V,
     nodeVolumeDetachTimeout : V, nodeInfo : V, certificatesExpiryDate : V,
     deletion : V, v1beta2 : V]

MachineSpoke == [nodeDrainTimeout : V, statusVersion : V, ann : Opt(MachineHub)]

\* Convert_v1alpha3_MachineStatus_To_v1beta2_MachineStatus: Status.Version
\* exists only in v1alpha3 and is dropped; the hub-only fields are zero.
MachineAutoConvertTo(s) ==
    [nodeDrainTimeout |-> s.nodeDrainTimeout, readinessGates |-> "",
     nodeDeletionTimeout |-> "", nodeVolumeDetachTimeout |-> "", nodeInfo |-> "",
     certificatesExpiryDate |-> "", deletion |-> "", v1beta2 |-> ""]

\* Machine.ConvertTo: every field v1alpha3 lacks is restored as it is.
MachineConvertTo(s) ==
    LET dst == MachineAutoConvertTo(s) IN
    IF s.ann = NoAnn THEN dst
    ELSE LET r == s.ann[1] IN
         [dst EXCEPT !.readinessGates = r.readinessGates,
                     !.nodeDeletionTimeout = r.nodeDeletionTimeout,
                     !.nodeVolumeDetachTimeout = r.nodeVolumeDetachTimeout,
                     !.nodeInfo = r.nodeInfo,
                     !.certificatesExpiryDate = r.certificatesExpiryDate,
                     !.deletion = r.deletion,
                     !.v1beta2 = r.v1beta2]

\* The down conversions of MachineStatus and MachineSpec: V1Beta2,
\* NodeDeletionTimeout and ReadinessGates have no v1alpha3 peer; nor have
\* the other hub-only fields, which the generated code skips.
MachineAutoConvertFrom(h) ==
    [nodeDrainTimeout |-> h.nodeDrainTimeout, statusVersion |-> "", ann |-> NoAnn]

\* Machine.ConvertFrom
MachineConvertFrom(h) == [MachineAutoConvertFrom(h) EXCEPT !.ann = Some(h)]

MachineSpokeView(s) == [nodeDrainTimeout |-> s.nodeDrainTimeout]
MachineHubOnly(h) == [h EXCEPT !.nodeDrainTimeout = ""]

(***************************************************************************)
(* MachineSet                                                              *)
(***************************************************************************)
MachineSetHub ==
    [replicas : V, readinessGates : V, nodeDeletionTimeout : V,
     nodeVolumeDetachTimeout : V, conditions : V, v1beta2 : V,
     machineNamingStrategy : Opt(Values)]

MachineSetSpoke == [replicas : V, ann : Opt(MachineSetHub)]

MachineSetAutoConvertTo(s) ==
    [replicas |-> s.replicas, readinessGates |-> "", nodeDeletionTimeout |-> "",
     nodeVolumeDetachTimeout |-> "", conditions |-> "", v1beta2 |-> "",
     machineNamingStrategy |-> Nil]

\* MachineSet.ConvertTo
MachineSetConvertTo(s) ==
    LET dst == MachineSetAutoConvertTo(s) IN
    IF s.ann = NoAnn THEN dst
    ELSE LET r == s.ann[1] IN
         [dst EXCEPT !.readinessGates = r.readinessGates,
                     !.nodeDeletionTimeout = r.nodeDeletionTimeout,
                     !.nodeVolumeDetachTimeout = r.nodeVolumeDetachTimeout,
                     !.conditions = r.conditions,
                     !.v1beta2 = r.v1beta2,
                     !.machineNamingStrategy = RestoreIfSet(@, r.machineNamingStrategy)]

\* Convert_v1beta2_MachineSetStatus_To_v1alpha3_MachineSetStatus drops
\* Status.Conditions and V1Beta2.
MachineSetAutoConvertFrom(h) == [replicas |-> h.replicas, ann |-> NoAnn]

\* MachineSet.ConvertFrom
MachineSetConvertFrom(h) == [MachineSetAutoConvertFrom(h) EXCEPT !.ann = Some(h)]

MachineSetSpokeView(s) == [replicas |-> s.replicas]
MachineSetHubOnly(h) == [h EXCEPT !.replicas = ""]

(***************************************************************************)
(* MachineHealthCheck                                                      *)
(***************************************************************************)
MHCHub == [maxUnhealthy : V, unhealthyRange : Opt(Values), v1beta2 : V]

MHCSpoke == [maxUnhealthy : V, ann : Opt(MHCHub)]

MHCAutoConvertTo(s) ==
    [maxUnhealthy |-> s.maxUnhealthy, unhealthyRange |-> Nil, v1beta2 |-> ""]


\* MachineHealthCheck.ConvertTo
MHCConvertTo(s) ==
    LET dst == MHCAutoConvertTo(s) IN
    IF s.ann = NoAnn THEN dst
    ELSE LET r == s.ann[1] IN
         [dst EXCEPT !.unhealthyRange = RestoreIfSet(@, r.unhealthyRange),
                     !.v1beta2 = r.v1beta2]


\* The down conversions of MachineHealthCheckSpec and Status: UnhealthyRange
\* and V1Beta2 have no v1alpha3 peer.
MHCAutoConvertFrom(h) == [maxUnhealthy |-> h.maxUnhealthy, ann |-> NoAnn]

\* MachineHealthCheck.ConvertFrom
MHCConvertFrom(h) == [MHCAutoConvertFrom(h) EXCEPT !.ann = Some(h)]

MHCSpokeView(s) == [maxUnhealthy |-> s.maxUnhealthy]
MHCHubOnly(h) == [h EXCEPT !.maxUnhealthy = ""]
(***************************************************************************)
(* MachineDeployment.  The Strategy exists in both versions; its           *)
(* RollingUpdate.DeletePolicy and its Remediation only in v1beta2.         *)
(***************************************************************************)
MDRollingUpdateHub == [maxSurge : Opt(Values), deletePolicy : V]
MDStrategyHub ==
    [type : {"", "RollingUpdate"}, rollingUpdate : Opt(MDRollingUpdateHub),
     remediation : Opt(Values)]
MDStrategySpoke ==
    [type : {"", "RollingUpdate"}, rollingUpdate : Opt([maxSurge : Opt(Values)])]

MDHub ==
    [replicas : V, strategy : Opt(MDStrategyHub), machineNamingStrategy : Opt(Values),
     readinessGates : V, nodeDeletionTimeout : V, nodeVolumeDetachTimeout : V,
     rolloutAfter : V, conditions : V, v1beta2 : V]

MDSpoke == [replicas : V, strategy : Opt(MDStrategySpoke), ann : Opt(MDHub)]

\* The generated Strategy conversions (up: DeletePolicy and Remediation
\* unset; down: Convert_v1beta2_MachineRollingUpdateDeployment_To_v1alpha3_...
\* and ..._MachineDeploymentStrategy_... drop them).
MDStrategyTo(st) ==
    IF st = Nil THEN Nil
    ELSE Some([type |-> st[1].type,
               rollingUpdate |-> IF st[1].rollingUpdate = Nil THEN Nil
                                 ELSE Some([maxSurge |-> st[1].rollingUpdate[1].maxSurge,
                                            deletePolicy |-> ""]),
               remediation |-> Nil])

\* Convert_v1beta2_MachineRollingUpdateDeployment_To_v1alpha3_...: DeletePolicy
\* has no v1alpha3 peer.
MDRollingUpdateFrom(ru) == [maxSurge |-> ru.maxSurge]

\* Convert_v1beta2_MachineDeploymentStrategy_To_v1alpha3_...: Remediation has
\* no v1alpha3 peer; a nil pointer stays nil.
MDStrategyFrom(st) ==
    IF st = Nil THEN Nil
    ELSE Some([type |-> st[1].type,
               rollingUpdate |-> IF st[1].rollingUpdate = Nil THEN Nil
                                 ELSE Some(MDRollingUpdateFrom(st[1].rollingUpdate[1]))])

MDAutoConvertTo(s) ==
    [replicas |-> s.replicas, strategy |-> MDStrategyTo(s.strategy),
     machineNamingStrategy |-> Nil, readinessGates |-> "", nodeDeletionTimeout |-> "",
     nodeVolumeDetachTimeout |-> "", rolloutAfter |-> "", conditions |-> "", v1beta2 |-> ""]

\* Variant: the restored RollingUpdate replaces the converted one.
MDRestoreStrategyWholeRollingUpdate(dst, r) ==
    IF r = Nil THEN dst
    ELSE LET d  == IF dst = Nil
                   THEN [type |-> "", rollingUpdate |-> Nil, remediation |-> Nil]
                   ELSE dst[1]
             ru == IF r[1].rollingUpdate # Nil THEN r[1].rollingUpdate ELSE d.rollingUpdate
         IN  Some([d EXCEPT !.rollingUpdate = ru, !.remediation = r[1].remediation])


\* Variant: Remediation is not restored.
MDRestoreStrategyNoRemediation(dst, r) ==
    IF r = Nil THEN dst
    ELSE LET d  == IF dst = Nil
                   THEN [type |-> "", rollingUpdate |-> Nil, remediation |-> Nil]
                   ELSE dst[1]
             ru == IF r[1].rollingUpdate = Nil THEN d.rollingUpdate
                   ELSE LET cur == IF d.rollingUpdate = Nil
                                   THEN [maxSurge |-> Nil, deletePolicy |-> ""]
                                   ELSE d.rollingUpdate[1]
                        IN  Some([cur EXCEPT !.deletePolicy = r[1].rollingUpdate[1].deletePolicy])
         IN  Some([d EXCEPT !.rollingUpdate = ru])

(***************************************************************************)
(* Lines 166-177: when the annotation has a Strategy, allocate dst's       *)
(* Strategy if nil; when it also has a RollingUpdate, allocate dst's if    *)
(* nil and set its DeletePolicy; then set Remediation.                     *)
(***************************************************************************)
MDRestoreStrategy(dst, r) ==
    IF r = Nil THEN dst
    ELSE LET d  == IF dst = Nil
                   THEN [type |-> "", rollingUpdate |-> Nil, remediation |-> Nil]
                   ELSE dst[1]
             ru == IF r[1].rollingUpdate = Nil THEN d.rollingUpdate
                   ELSE LET cur == IF d.rollingUpdate = Nil
                                   THEN [maxSurge |-> Nil, deletePolicy |-> ""]
                                   ELSE d.rollingUpdate[1]
                        IN  Some([cur EXCEPT !.deletePolicy = r[1].rollingUpdate[1].deletePolicy])
         IN  Some([d EXCEPT !.rollingUpdate = ru, !.remediation = r[1].remediation])

\* MachineDeployment.ConvertTo
MDConvertTo(s) ==
    LET dst == MDAutoConvertTo(s) IN
    IF s.ann = NoAnn THEN dst
    ELSE LET r == s.ann[1] IN
         [dst EXCEPT !.strategy = MDRestoreStrategy(@, r.strategy),
                     !.machineNamingStrategy = RestoreIfSet(@, r.machineNamingStrategy),
                     !.readinessGates = r.readinessGates,
                     !.nodeDeletionTimeout = r.nodeDeletionTimeout,
                     !.nodeVolumeDetachTimeout = r.nodeVolumeDetachTimeout,
                     !.rolloutAfter = r.rolloutAfter,
                     !.conditions = r.conditions,
                     !.v1beta2 = r.v1beta2]

\* The down conversions of MachineDeploymentSpec and Status: the Strategy
\* is converted, Status.Conditions and V1Beta2 are dropped.
MDAutoConvertFrom(h) ==
    [replicas |-> h.replicas, strategy |-> MDStrategyFrom(h.strategy), ann |-> NoAnn]

\* MachineDeployment.ConvertFrom
MDConvertFrom(h) == [MDAutoConvertFrom(h) EXCEPT !.ann = Some(h)]

\* What a v1alpha3 client sees of a Strategy once defaults apply: a nil
\* Strategy or RollingUpdate is defaulted exactly as an empty one, so nil
\* and empty are not told apart.
MDStrategyView(st) ==
    LET x == IF st = Nil THEN [type |-> "", rollingUpdate |-> Nil] ELSE st[1] IN
    [type |-> x.type,
     maxSurge |-> IF x.rollingUpdate = Nil THEN Nil ELSE x.rollingUpdate[1].maxSurge]

MDSpokeView(s) == [replicas |-> s.replicas, strategy |-> MDStrategyView(s.strategy)]

\* The v1beta2-only content of the Strategy is the values of Remediation and
\* DeletePolicy; a nil Strategy or RollingUpdate holds none of it.
MDHubOnly(h) ==
    LET st == IF h.strategy = Nil
              THEN [type |-> "", rollingUpdate |-> Nil, remediation |-> Nil]
              ELSE h.strategy[1]
    IN  [h EXCEPT !.replicas = "",
                  !.strategy = [remediation |-> st.remediation,
                                deletePolicy |-> IF st.rollingUpdate = Nil THEN ""
                                                 ELSE st.rollingUpdate[1].deletePolicy]]

(***************************************************************************)
(* Cluster.  v1alpha3 has the bool Status.ControlPlaneInitialized; the hub *)
(* has the ControlPlaneInitialized condition instead (cpInitialized is its *)
(* status: "", "True" or "False"; its timestamp is abstracted, since the   *)
(* conditions helpers keep it while the status is unchanged).  Both        *)
(* versions carry the Conditions list.                                     *)
(***************************************************************************)
ClusterHub ==
    [paused : V, cpInitialized : {"", "True", "False"}, availabilityGates : V,
     topology : Opt(Values), v1beta2 : V]

ClusterSpoke ==
    [paused : V, cpInitialized : {"", "True", "False"},
     controlPlaneInitialized : BOOLEAN, ann : Opt(ClusterHub)]

\* Convert_v1alpha3_ClusterStatus_To_v1beta2_ClusterStatus and the generated
\* code: the fields v1alpha3 lacks are zero.
ClusterAutoConvertTo(s) ==
    [paused |-> s.paused, cpInitialized |-> s.cpInitialized,
     availabilityGates |-> "", topology |-> Nil, v1beta2 |-> ""]

\* Cluster.ConvertTo: MarkTrue when the bool is set, then restore.
ClusterConvertTo(s) ==
    LET auto == ClusterAutoConvertTo(s)
        dst  == IF s.controlPlaneInitialized
                THEN [auto EXCEPT !.cpInitialized = "True"] ELSE auto
    IN  IF s.ann = NoAnn THEN dst
        ELSE LET r == s.ann[1] IN
             [dst EXCEPT !.availabilityGates = r.availabilityGates,
                         !.topology = RestoreIfSet(@, r.topology),
                         !.v1beta2 = r.v1beta2]

\* Variant: the bool is set whenever the condition is present at all.
ClusterConvertFromAnyCondition(h) ==
    [paused |-> h.paused, cpInitialized |-> h.cpInitialized,
     controlPlaneInitialized |-> h.cpInitialized # "", ann |-> Some(h)]

\* The down conversions of ClusterSpec and ClusterStatus: Topology,
\* AvailabilityGates and V1Beta2 have no v1alpha3 peer, and the bool has
\* no hub peer.
ClusterAutoConvertFrom(h) ==
    [paused |-> h.paused, cpInitialized |-> h.cpInitialized,
     controlPlaneInitialized |-> FALSE, ann |-> NoAnn]

\* Cluster.ConvertFrom: the bool is set iff the condition IsTrue.
ClusterConvertFrom(h) ==
    [ClusterAutoConvertFrom(h) EXCEPT !.controlPlaneInitialized = h.cpInitialized = "True",
                                      !.ann = Some(h)]

ClusterSpokeView(s) ==
    [paused |-> s.paused, controlPlaneInitialized |-> s.controlPlaneInitialized]

ClusterHubOnly(h) == [h EXCEPT !.paused = "", !.cpInitialized = ""]
=============================================================================
