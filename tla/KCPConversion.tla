---------------------------- MODULE KCPConversion ----------------------------
(***************************************************************************)
(* Conversion of KubeadmControlPlane and KubeadmControlPlaneTemplate       *)
(* between v1alpha4 (spoke) and v1beta2 (hub), src/unnamed/part_001 lines  *)
(* 1-222.  An object is a record of the fields the conversion treats       *)
(* differently, with the values of ConversionValues.                       *)
(*                                                                         *)
(* Left out: KubeadmConfigSpec, whose merge (MergeRestoredKubeadmConfigSpec, *)
(* line 60 and 114) lives in a package outside this repository, and the    *)
(* generated autoConvert functions, which copy the fields both versions    *)
(* have; those copies are written out in the Convert operators below.      *)
(***************************************************************************)
EXTENDS ConversionValues

\* RolloutStrategy; v1alpha4 and v1beta2 have the same shape for it.
RollingUpdate == [maxSurge : Opt(Values)]
RolloutStrategy == Opt([type : {"", "RollingUpdate"}, rollingUpdate : Opt(RollingUpdate)])

(***************************************************************************)
(* KubeadmControlPlane                                                     *)
(***************************************************************************)
KCPHub ==
    [nodeDrainTimeout : V, rolloutAfter : V,
     readinessGates : V, nodeDeletionTimeout : V, nodeVolumeDetachTimeout : V,
     rolloutBefore : V, remediationStrategy : Opt(Values),
     lastRemediation : Opt(Values), machineNamingStrategy : Opt(Values),
     v1beta2 : V]

KCPSpoke ==
    [nodeDrainTimeout : V, rolloutAfter : V, ann : Opt(KCPHub)]

\* The generated v1alpha4 -> v1beta2 conversion: fields v1alpha4 lacks are zero.
KCPAutoConvertTo(s) ==
    [nodeDrainTimeout |-> s.nodeDrainTimeout, rolloutAfter |-> s.rolloutAfter,
     readinessGates |-> "", nodeDeletionTimeout |-> "", nodeVolumeDetachTimeout |-> "",
     rolloutBefore |-> "", remediationStrategy |-> Nil, lastRemediation |-> Nil,
     machineNamingStrategy |-> Nil, v1beta2 |-> ""]

\* Variant: LastRemediation is not restored.
KCPConvertToNoLastRemediation(s) ==
    LET dst == KCPAutoConvertTo(s) IN
    IF s.ann = NoAnn THEN dst
    ELSE LET r == s.ann[1] IN
         [dst EXCEPT !.readinessGates = r.readinessGates,
                     !.nodeDeletionTimeout = r.nodeDeletionTimeout,
                     !.nodeVolumeDetachTimeout = r.nodeVolumeDetachTimeout,
                     !.rolloutBefore = r.rolloutBefore,
                     !.remediationStrategy = RestoreIfSet(@, r.remediationStrategy),
                     !.machineNamingStrategy = RestoreIfSet(@, r.machineNamingStrategy),
                     !.v1beta2 = r.v1beta2]

\* Variant: Status.V1Beta2 is not restored.
KCPConvertToNoV1Beta2(s) ==
    LET dst == KCPAutoConvertTo(s) IN
    IF s.ann = NoAnn THEN dst
    ELSE LET r == s.ann[1] IN
         [dst EXCEPT !.readinessGates = r.readinessGates,
                     !.nodeDeletionTimeout = r.nodeDeletionTimeout,
                     !.nodeVolumeDetachTimeout = r.nodeVolumeDetachTimeout,
                     !.rolloutBefore = r.rolloutBefore,
                     !.remediationStrategy = RestoreIfSet(@, r.remediationStrategy),
                     !.lastRemediation = RestoreIfSet(@, r.lastRemediation),
                     !.machineNamingStrategy = RestoreIfSet(@, r.machineNamingStrategy)]

\* Variant: NodeDrainTimeout is restored from the annotation too.
KCPConvertToRestoreDrain(s) ==
    LET dst == KCPAutoConvertTo(s) IN
    IF s.ann = NoAnn THEN dst
    ELSE LET r == s.ann[1] IN
         [dst EXCEPT !.nodeDrainTimeout = r.nodeDrainTimeout,
                     !.readinessGates = r.readinessGates,
                     !.nodeDeletionTimeout = r.nodeDeletionTimeout,
                     !.nodeVolumeDetachTimeout = r.nodeVolumeDetachTimeout,
                     !.rolloutBefore = r.rolloutBefore,
                     !.remediationStrategy = RestoreIfSet(@, r.remediationStrategy),
                     !.lastRemediation = RestoreIfSet(@, r.lastRemediation),
                     !.machineNamingStrategy = RestoreIfSet(@, r.machineNamingStrategy),
                     !.v1beta2 = r.v1beta2]

(***************************************************************************)
(* KubeadmControlPlane.ConvertTo: the generated conversion, then, if the   *)
(* annotation is present, the hub-only fields are restored from it:       *)
(* plain fields always, pointer fields only when set in the annotation.    *)
(***************************************************************************)
KCPConvertTo(s) ==
    LET dst == KCPAutoConvertTo(s) IN
    IF s.ann = NoAnn THEN dst
    ELSE LET r == s.ann[1] IN
         [dst EXCEPT !.readinessGates = r.readinessGates,
                     !.nodeDeletionTimeout = r.nodeDeletionTimeout,
                     !.nodeVolumeDetachTimeout = r.nodeVolumeDetachTimeout,
                     !.rolloutBefore = r.rolloutBefore,
                     !.remediationStrategy = RestoreIfSet(@, r.remediationStrategy),
                     !.lastRemediation = RestoreIfSet(@, r.lastRemediation),
                     !.machineNamingStrategy = RestoreIfSet(@, r.machineNamingStrategy),
                     !.v1beta2 = r.v1beta2]

\* The MachineTemplate down conversion: NodeDeletionTimeout,
\* NodeVolumeDetachTimeout and ReadinessGates are dropped.  NodeDrainTimeout
\* is copied, since v1alpha4 has it (lines 132 and 160 read it), whatever
\* the comment on line 187 says.
KCPMachineTemplateFrom(h) == [nodeDrainTimeout |-> h.nodeDrainTimeout]

\* The Spec and Status down conversions: RolloutBefore, RemediationStrategy,
\* MachineNamingStrategy, LastRemediation and V1Beta2 have no v1alpha4 peer.
KCPAutoConvertFrom(h) ==
    [nodeDrainTimeout |-> KCPMachineTemplateFrom(h).nodeDrainTimeout,
     rolloutAfter |-> h.rolloutAfter, ann |-> NoAnn]

\* KubeadmControlPlane.ConvertFrom: the generated conversion, then the whole
\* hub object is kept in the annotation.
KCPConvertFrom(h) == [KCPAutoConvertFrom(h) EXCEPT !.ann = Some(h)]

KCPSpokeView(s) == [nodeDrainTimeout |-> s.nodeDrainTimeout, rolloutAfter |-> s.rolloutAfter]

KCPHubOnly(h) ==
    [f \in {"readinessGates", "nodeDeletionTimeout", "nodeVolumeDetachTimeout",
            "rolloutBefore", "remediationStrategy", "lastRemediation",
            "machineNamingStrategy", "v1beta2"} |-> h[f]]

(***************************************************************************)
(* KubeadmControlPlaneTemplate.  In v1beta2 the MachineTemplate of a       *)
(* template is a pointer and carries metadata and the two node timeouts;   *)
(* in v1alpha4 the template holds a KubeadmControlPlaneSpec whose          *)
(* MachineTemplate only contributes NodeDrainTimeout.                      *)
(***************************************************************************)
MachineTemplate ==
    [nodeDrainTimeout : V, meta : V, nodeDeletionTimeout : V, nodeVolumeDetachTimeout : V]

TemplateHub ==
    [meta : V, machineTemplate : Opt(MachineTemplate), rolloutAfter : V,
     rolloutStrategy : RolloutStrategy, rolloutBefore : V,
     remediationStrategy : Opt(Values), machineNamingStrategy : Opt(Values)]

TemplateSpoke ==
    [nodeDrainTimeout : V, rolloutAfter : V, rolloutStrategy : RolloutStrategy,
     ann : Opt(TemplateHub)]

\* Variant: RollingUpdate is not carried over.
ConvertRolloutStrategyNoRollingUpdate(rs) ==
    IF rs = Nil THEN Nil
    ELSE Some([type |-> IF rs[1].type # "" THEN rs[1].type ELSE "",
               rollingUpdate |-> Nil])

\* The RolloutStrategy part of both spec conversions: a new struct when set,
\* Type when non-empty, RollingUpdate when set and its MaxSurge when set.
ConvertRolloutStrategy(rs) ==
    IF rs = Nil THEN Nil
    ELSE Some([type |-> IF rs[1].type # "" THEN rs[1].type ELSE "",
               rollingUpdate |->
                  IF rs[1].rollingUpdate = Nil THEN Nil
                  ELSE Some([maxSurge |-> LET ms == rs[1].rollingUpdate[1].maxSurge
                                                 IN  IF ms # Nil THEN ms ELSE Nil])])

\* Convert_v1alpha4_KubeadmControlPlaneSpec_To_v1beta2_KubeadmControlPlaneTemplateResourceSpec
\* (with the generated template wrapper: v1alpha4 has no template metadata).
SpecToTemplateResourceSpec(s) ==
    [meta |-> "",
     machineTemplate |-> Some([nodeDrainTimeout |-> s.nodeDrainTimeout, meta |-> "",
                               nodeDeletionTimeout |-> "", nodeVolumeDetachTimeout |-> ""]),
     rolloutAfter |-> s.rolloutAfter,
     rolloutStrategy |-> ConvertRolloutStrategy(s.rolloutStrategy),
     rolloutBefore |-> "", remediationStrategy |-> Nil, machineNamingStrategy |-> Nil]

\* Convert_v1beta2_KubeadmControlPlaneTemplateResourceSpec_To_v1alpha4_KubeadmControlPlaneSpec
TemplateResourceSpecToSpec(h) ==
    [nodeDrainTimeout |-> IF h.machineTemplate # Nil
                          THEN h.machineTemplate[1].nodeDrainTimeout ELSE "",
     rolloutAfter |-> h.rolloutAfter,
     rolloutStrategy |-> ConvertRolloutStrategy(h.rolloutStrategy),
     ann |-> NoAnn]

\* Variant: the template metadata is not restored.
TemplateConvertToNoMeta(s) ==
    LET dst == SpecToTemplateResourceSpec(s) IN
    IF s.ann = NoAnn THEN dst
    ELSE LET r == s.ann[1] IN
         [dst EXCEPT !.machineTemplate = r.machineTemplate,
                     !.rolloutBefore = r.rolloutBefore,
                     !.remediationStrategy = RestoreIfSet(@, r.remediationStrategy),
                     !.machineNamingStrategy = RestoreIfSet(@, r.machineNamingStrategy)]

\* Variant: without line 90, the merge the code goes on to do (lines 93-102).
TemplateConvertToMerge(s) ==
    LET dst == SpecToTemplateResourceSpec(s) IN
    IF s.ann = NoAnn THEN dst
    ELSE LET r   == s.ann[1]
             mt  == IF r.machineTemplate # Nil
                    THEN Some([dst.machineTemplate[1] EXCEPT
                                 !.meta = r.machineTemplate[1].meta,
                                 !.nodeDeletionTimeout = r.machineTemplate[1].nodeDeletionTimeout,
                                 !.nodeVolumeDetachTimeout = r.machineTemplate[1].nodeVolumeDetachTimeout])
                    ELSE dst.machineTemplate
         IN  [dst EXCEPT !.meta = r.meta, !.machineTemplate = mt,
                         !.rolloutBefore = r.rolloutBefore,
                         !.remediationStrategy = RestoreIfSet(@, r.remediationStrategy),
                         !.machineNamingStrategy = RestoreIfSet(@, r.machineNamingStrategy)]

(***************************************************************************)
(* KubeadmControlPlaneTemplate.ConvertTo.  Line 90 replaces the converted  *)
(* MachineTemplate by the restored one, so lines 93-102 then only copy     *)
(* fields of the restored MachineTemplate onto itself: the MachineTemplate *)
(* of the result is the annotation's, NodeDrainTimeout included.           *)
(***************************************************************************)
TemplateConvertTo(s) ==
    LET dst == SpecToTemplateResourceSpec(s) IN
    IF s.ann = NoAnn THEN dst
    ELSE LET r == s.ann[1] IN
         [dst EXCEPT !.meta = r.meta,
                     !.machineTemplate = r.machineTemplate,
                     !.rolloutBefore = r.rolloutBefore,
                     !.remediationStrategy = RestoreIfSet(@, r.remediationStrategy),
                     !.machineNamingStrategy = RestoreIfSet(@, r.machineNamingStrategy)]

\* The TemplateResource down conversion: the template metadata and the
\* MachineTemplate metadata are dropped, the spec converted.
TemplateResourceFrom(h) == TemplateResourceSpecToSpec(h)

\* KubeadmControlPlaneTemplate.ConvertFrom: convert, then keep the hub object.
TemplateConvertFrom(h) == [TemplateResourceFrom(h) EXCEPT !.ann = Some(h)]

TemplateSpokeView(s) ==
    [nodeDrainTimeout |-> s.nodeDrainTimeout, rolloutAfter |-> s.rolloutAfter,
     rolloutStrategy |-> s.rolloutStrategy]

TemplateHubOnly(h) ==
    [meta |-> h.meta,
     machineTemplate |-> IF h.machineTemplate = Nil THEN Nil
                         ELSE Some([h.machineTemplate[1] EXCEPT !.nodeDrainTimeout = ""]),
     rolloutBefore |-> h.rolloutBefore, remediationStrategy |-> h.remediationStrategy,
     machineNamingStrategy |-> h.machineNamingStrategy]
=============================================================================
