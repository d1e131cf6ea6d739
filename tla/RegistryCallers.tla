--------------------------- MODULE RegistryCallers ---------------------------
(***************************************************************************)
(* The registry on its own, called by arbitrary clients in any order:      *)
(* WarmUp with any list of configs, Add and Remove with any config, before *)
(* or after readiness.  Each call is one step (the registry's lock makes   *)
(* every method a critical section).  lastCall records the call and its    *)
(* result so that properties can speak about what a call returned.         *)
(***************************************************************************)
EXTENDS Registry

LOCAL Seqs == INSTANCE SequencesExt

CONSTANT
    Inputs        \* the ExtensionConfigs callers pass, a subset of Config

ASSUME Inputs \subseteq Config

\* handler names are globally unique: no name is declared by two configs
ASSUME \A a, b \in Inputs :
          a.name # b.name => DOMAIN a.handlers \cap DOMAIN b.handlers = {}

VARIABLE lastCall

vars == <<ready, items, lastCall>>

\* The lists WarmUp is called with: configs of distinct names, in any order.
WarmUpLists ==
    UNION {Seqs!SetToSeqs(S) :
             S \in {T \in SUBSET Inputs :
                      \A a, b \in T : a.name = b.name => a = b}}

Init ==
    /\ RegistryInit
    /\ lastCall = [op |-> "none", ok |-> TRUE]

CallWarmUp(list) ==
    /\ \/ WarmUp(list)
       \/ ready /\ UNCHANGED regVars
    /\ lastCall' = [op |-> "WarmUp", list |-> list, ok |-> WarmUpOk(list)]

CallAdd(cfg) ==
    /\ \/ Add(cfg)
       \/ ~ready /\ UNCHANGED regVars
    /\ lastCall' = [op |-> "Add", cfg |-> cfg, ok |-> AddOk(cfg)]

CallRemove(cfg) ==
    /\ \/ Remove(cfg)
       \/ ~ready /\ UNCHANGED regVars
    /\ lastCall' = [op |-> "Remove", cfg |-> cfg, ok |-> ready]

Next ==
    \/ \E list \in WarmUpLists : CallWarmUp(list)
    \/ \E cfg \in Inputs : CallAdd(cfg) \/ CallRemove(cfg)

Spec == Init /\ [][Next]_vars

TypeOK == RegistryTypeOK

(***************************************************************************)
(* Properties                                                              *)
(***************************************************************************)

\* A cold registry holds nothing: a failed WarmUp must not leave behind the
\* entries of the configs it managed to add (WarmUp resets r.items).
ColdRegistryIsEmpty == ~ready => DOMAIN items = {}

\* The step that makes the registry ready installs exactly the handlers of
\* the configs WarmUp was given, each under its own config and hook.  (The
\* refinement below cannot say this: it does not see WarmUp's argument.)
WarmUpInstallsSnapshot ==
    [][~ready /\ ready' =>
         /\ DOMAIN items' = UNION {DOMAIN lastCall'.list[i].handlers :
                                     i \in DOMAIN lastCall'.list}
         /\ \A i \in DOMAIN lastCall'.list :
               \A n \in DOMAIN lastCall'.list[i].handlers :
                  /\ items'[n].owner = lastCall'.list[i].name
                  /\ items'[n].hook = lastCall'.list[i].handlers[n].hook
                  /\ items'[n].ca = lastCall'.list[i].ca]_vars

(***************************************************************************)
(* The per-owner view of the registry: config c owns the entries whose     *)
(* ExtensionConfigName is c.  Handler names are unique across configs      *)
(* (the ASSUME above), which is what lets a map keyed by handler name      *)
(* implement it.                                                           *)
(***************************************************************************)
Owners == INSTANCE OwnerRegistry
    WITH owned <- [c \in ConfigNames |-> OwnedBy(items, c)],
         Configs <- Inputs,
         Regs <- LAMBDA cfg : [n \in DOMAIN cfg.handlers |-> NewRegistration(cfg, n)],
         Valid <- LAMBDA cfg : \A n \in DOMAIN cfg.handlers :
                                  ParseGroupVersion(cfg.handlers[n].apiVersion).ok

\* Every sequence of WarmUp, Add and Remove calls is one of the per-owner
\* registry: WarmUp installs exactly the configs of its list or nothing,
\* aggregating the errors of all of them; Add replaces the config's own
\* registrations (removing its earlier handlers); no call touches the
\* registrations of another config.
RefinesOwnerRegistry == Owners!Spec

\* spec 4.1: an Add that fails to parse a handler aborts "without mutating
\* the map"; the owner's earlier registrations stay as they were.
AddIsAllOrNothing ==
    [][lastCall'.op = "Add" /\ ~lastCall'.ok => items' = items]_vars
=============================================================================
