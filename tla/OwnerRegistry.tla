---------------------------- MODULE OwnerRegistry ----------------------------
(***************************************************************************)
(* What the RuntimeExtension registry promises its callers, seen per       *)
(* ExtensionConfig: each config owns a set of registrations, and a call    *)
(* changes the registrations of the config it is given and of no other.    *)
(* The registry of module Registry, a map keyed by handler name, is shown  *)
(* to implement this view in RegistryCallers (RefinesOwnerRegistry).       *)
(*                                                                         *)
(* The registrations a config yields, and whether all its handlers are     *)
(* valid, are parameters: they are the per-handler conversion the          *)
(* implementation does.                                                    *)
(***************************************************************************)
CONSTANTS
    ConfigNames,    \* ExtensionConfig names
    Configs,        \* the ExtensionConfigs callers pass
    Regs(_),        \* the registrations of a config, a function from handler name
    Valid(_)        \* every handler of the config can be registered

VARIABLES
    ready,          \* WarmUp has succeeded
    owned           \* owned[c]: the registrations config c currently has

NoRegs == [n \in {} |-> TRUE]

Init ==
    /\ ready = FALSE
    /\ owned = [c \in ConfigNames |-> NoRegs]

\* WarmUp with the configs S (of distinct names): all of them are installed
\* and the registry is ready, or, if one is invalid, nothing is and it stays
\* cold.  Calls while ready, and Add or Remove while cold, change nothing.
WarmUp(S) ==
    /\ ~ready
    /\ IF \A cfg \in S : Valid(cfg)
       THEN /\ ready' = TRUE
            /\ owned' = [c \in ConfigNames |->
                           IF \E cfg \in S : cfg.name = c
                           THEN Regs(CHOOSE cfg \in S : cfg.name = c)
                           ELSE NoRegs]
       ELSE /\ owned' = [c \in ConfigNames |-> NoRegs]
            /\ UNCHANGED ready

\* Add replaces the config's registrations by its current handlers.  An
\* invalid config is left with none: the code's promise, not the spec's
\* (spec 4.1 keeps the earlier ones; see AddIsAllOrNothing).
Add(cfg) ==
    /\ ready
    /\ owned' = [owned EXCEPT ![cfg.name] = IF Valid(cfg) THEN Regs(cfg) ELSE NoRegs]
    /\ UNCHANGED ready

Remove(cfg) ==
    /\ ready
    /\ owned' = [owned EXCEPT ![cfg.name] = NoRegs]
    /\ UNCHANGED ready

\* The sets of configs a WarmUp can be given: at most one per name.
WarmUpSets == {S \in SUBSET Configs : \A a, b \in S : a.name = b.name => a = b}

Next ==
    \/ \E S \in WarmUpSets : WarmUp(S)
    \/ \E cfg \in Configs : Add(cfg) \/ Remove(cfg)

Spec == Init /\ [][Next]_<<ready, owned>>
=============================================================================
