------------------------------ MODULE Registry ------------------------------
(***************************************************************************)
(* The RuntimeExtension registry (package registry, src/unnamed/part_000): *)
(* a map from handler name to ExtensionRegistration plus a readiness flag, *)
(* behind one sync.RWMutex.  Every exported method takes the lock for its  *)
(* whole body and does no I/O, so each call is one atomic step here.       *)
(*                                                                         *)
(* An ExtensionConfig, as the registry sees it, is a record               *)
(*   [name |-> config name, ca |-> Spec.ClientConfig.CABundle,             *)
(*    handlers |-> function from handler name to [apiVersion, hook]]      *)
(* An apiVersion string is given as the sequence of its "/"-separated      *)
(* segments, which is all schema.ParseGroupVersion looks at.               *)
(***************************************************************************)
EXTENDS Naturals, Sequences, FiniteSets

LOCAL Seqs == INSTANCE SequencesExt

CONSTANTS
    Names,        \* handler names (ExtensionRegistration.Name)
    ConfigNames,  \* ExtensionConfig names (ExtensionRegistration.ExtensionConfigName)
    APIVersions,  \* apiVersion strings, each a sequence of segments
    Hooks,        \* hook names
    CABundles     \* values a CABundle can hold

VARIABLES
    ready,        \* extensionRegistry.ready
    items         \* extensionRegistry.items: a function from handler names

regVars == <<ready, items>>

Handler == [apiVersion : APIVersions, hook : Hooks]

\* The handler lists an ExtensionConfig status can hold: names are keys,
\* so a config never lists one name twice.
HandlerSets == UNION {[N -> Handler] : N \in SUBSET Names}

Config == [name : ConfigNames, ca : CABundles, handlers : HandlerSets]

Segment == UNION {{s[i] : i \in DOMAIN s} : s \in APIVersions}

Registration ==
    [owner : ConfigNames, group : Segment \cup {""}, version : Segment \cup {""},
     hook : Hooks, ca : CABundles]

(***************************************************************************)
(* schema.ParseGroupVersion: no "/" gives the core group, one "/" splits   *)
(* group from version, more than one is an error.  "" and "/" both yield   *)
(* the empty GroupVersion, as the one- and two-segment cases do here.      *)
(***************************************************************************)
ParseGroupVersion(s) ==
    CASE Len(s) = 1 -> [ok |-> TRUE, group |-> "", version |-> s[1]]
      [] Len(s) = 2 -> [ok |-> TRUE, group |-> s[1], version |-> s[2]]
      [] OTHER      -> [ok |-> FALSE, group |-> "", version |-> ""]

\* Variant: ExtensionConfigName set from the handler's name.
NewRegistrationOwnerTypo(cfg, n) ==
    LET gv == ParseGroupVersion(cfg.handlers[n].apiVersion)
    IN  [owner |-> n, group |-> gv.group, version |-> gv.version,
         hook |-> cfg.handlers[n].hook, ca |-> cfg.ca]

NewRegistration(cfg, n) ==
    LET gv == ParseGroupVersion(cfg.handlers[n].apiVersion)
    IN  [owner |-> cfg.name, group |-> gv.group, version |-> gv.version,
         hook |-> cfg.handlers[n].hook, ca |-> cfg.ca]

\* extensionRegistry.remove: drop every entry owned by cfg.
remove(its, cfg) ==
    [n \in {m \in DOMAIN its : its[m].owner # cfg.name} |-> its[n]]

\* Variant: add merges the new handlers without removing the owner's old ones.
addNoRemove(its, cfg) ==
    LET bad == {n \in DOMAIN cfg.handlers :
                   ~ParseGroupVersion(cfg.handlers[n].apiVersion).ok}
        new == [n \in DOMAIN cfg.handlers |-> NewRegistration(cfg, n)]
    IN  IF bad = {}
        THEN [items |-> [n \in DOMAIN new \cup DOMAIN its |->
                            IF n \in DOMAIN new THEN new[n] ELSE its[n]],
              ok |-> TRUE]
        ELSE [items |-> its, ok |-> FALSE]

(***************************************************************************)
(* extensionRegistry.add: remove the owner's entries first, then build all *)
(* registrations; if any apiVersion fails to parse, return the error with  *)
(* nothing inserted, else insert them all (a name already present is       *)
(* overwritten).  The result is the new map and whether add succeeded.     *)
(***************************************************************************)
add(its, cfg) ==
    LET kept == remove(its, cfg)
        bad  == {n \in DOMAIN cfg.handlers :
                    ~ParseGroupVersion(cfg.handlers[n].apiVersion).ok}
        new  == [n \in DOMAIN cfg.handlers |-> NewRegistration(cfg, n)]
    IN  IF bad = {}
        THEN [items |-> [n \in DOMAIN new \cup DOMAIN kept |->
                            IF n \in DOMAIN new THEN new[n] ELSE kept[n]],
              ok |-> TRUE]
        ELSE [items |-> kept, ok |-> FALSE]

EmptyItems == [n \in {} |-> TRUE]

\* Variant: each config's error overwrites the previous ones instead of
\* being collected.
warmUpResultLastErr(its, list) ==
    Seqs!FoldLeft(LAMBDA acc, cfg :
                     LET r == add(acc.items, cfg)
                     IN  [items |-> r.items, ok |-> r.ok],
                  [items |-> its, ok |-> TRUE], list)

\* The loop of WarmUp: add every config of the list in order, collecting errors.
warmUpResult(its, list) ==
    Seqs!FoldLeft(LAMBDA acc, cfg :
                     LET r == add(acc.items, cfg)
                     IN  [items |-> r.items, ok |-> acc.ok /\ r.ok],
                  [items |-> its, ok |-> TRUE], list)

RegistryInit ==
    /\ ready = FALSE
    /\ items = EmptyItems

\* Variant: a failed WarmUp keeps the entries it had added.
WarmUpNoReset(list) ==
    LET r == warmUpResult(items, list) IN
    /\ ~ready
    /\ ready' = r.ok
    /\ items' = r.items

(***************************************************************************)
(* WarmUp(list): rejected once ready.  On any error the map is reset to    *)
(* empty and the registry stays cold; otherwise it becomes ready.          *)
(***************************************************************************)
WarmUp(list) ==
    LET r == warmUpResult(items, list) IN
    /\ ~ready
    /\ IF r.ok THEN /\ ready' = TRUE
                    /\ items' = r.items
               ELSE /\ items' = EmptyItems
                    /\ UNCHANGED ready

\* Whether WarmUp(list) would succeed in the current state.
WarmUpOk(list) == ~ready /\ warmUpResult(items, list).ok

\* Add(cfg): rejected (no change) while not ready.
Add(cfg) ==
    /\ ready
    /\ items' = add(items, cfg).items
    /\ UNCHANGED ready

\* Whether Add(cfg) returns nil in the current state.
AddOk(cfg) == ready /\ add(items, cfg).ok

\* Remove(cfg): rejected while not ready; never fails otherwise.
Remove(cfg) ==
    /\ ready
    /\ items' = remove(items, cfg)
    /\ UNCHANGED ready

\* List(gh): every registration of the group and hook, whatever its version.
List(group, hook) ==
    {n \in DOMAIN items : items[n].group = group /\ items[n].hook = hook}

\* The registrations owned by one ExtensionConfig.
OwnedBy(its, c) == [n \in {m \in DOMAIN its : its[m].owner = c} |-> its[n]]

RegistryTypeOK ==
    /\ ready \in BOOLEAN
    /\ DOMAIN items \subseteq Names
    /\ \A n \in DOMAIN items : items[n] \in Registration
=============================================================================
