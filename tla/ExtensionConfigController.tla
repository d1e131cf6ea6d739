---------------------- MODULE ExtensionConfigController ----------------------
(***************************************************************************)
(* The ExtensionConfig reconciler (package controllers, part_001 from line *)
(* 239) driving the registry of module Registry, together with the         *)
(* environment it runs in: the object store holding ExtensionConfigs and   *)
(* Secrets, the extension endpoints answering discovery, the workqueue of  *)
(* controller-runtime and process restarts.                                *)
(*                                                                         *)
(* One Reconcile call is split at its network calls: Begin (readiness      *)
(* gate, Get, pause and deletion checks, CA injection with its uncached    *)
(* Secret read), Discover, Patch and Register.  Between them anything else *)
(* may happen: users edit or delete objects, secrets rotate, other configs *)
(* are reconciled.  The workqueue never runs two Reconciles of one name at *)
(* once (pc[c] # "Idle" blocks Begin(c)) and dedups pending names (queue   *)
(* is a set); a name added while it is being processed runs again later.  *)
(*                                                                         *)
(* Reconcile reads ExtensionConfigs through the manager's informer cache   *)
(* (r.Client), which lags the API server: store is the server's copy,      *)
(* cache the informer's.  Writes go to store; CacheSync delivers a change  *)
(* to the cache together with its watch event.  Secrets are read from the  *)
(* server (reconcileCABundle), and warm-up lists through the uncached      *)
(* APIReader.                                                              *)
(***************************************************************************)
EXTENDS Registry

LOCAL Seqs == INSTANCE SequencesExt

CONSTANTS
    Secrets,        \* Secret names a config can reference
    SecretValues,   \* what a Secret's "ca.crt" can hold, plus NoKey
    NoKey,          \* the Secret lacks the "ca.crt" entry
    Served,         \* Served[c]: the handler sets c's endpoint may report
    NoCA,           \* the empty CABundle, a member of CABundles
    MaxEnvSteps     \* bound on user edits, secret rotations, endpoint changes and restarts

\* The InjectCAFromSecretAnnotation: absent, not of the form <ns>/<name>, or a Secret.
NoRef == "none"
BadRef == "malformed"
Refs == {NoRef, BadRef} \cup Secrets

ASSUME SecretValues \subseteq CABundles \cup {NoKey}
ASSUME NoCA \in CABundles
ASSUME \A c \in ConfigNames : Served[c] \subseteq HandlerSets

VARIABLES
    store,      \* store[c]: the ExtensionConfig object named c in the API server
    cache,      \* cache[c]: the informer's copy of store[c], possibly behind
    unseen,     \* names whose server copy changed since the informer last applied it
    secret,     \* secret[s]: the "ca.crt" entry of Secret s
    served,     \* served[c]: the handlers c's extension currently reports
    queue,      \* names waiting in the workqueue
    pc,         \* where the Reconcile of c currently is
    work,       \* the ExtensionConfig copy the Reconcile of c is modifying (NoCopy when idle)
    caFailed,   \* history: the last Reconcile of c ended in reconcileCABundle's error
    budget      \* environment steps left

ctrlVars == <<queue, pc, work, caFailed>>
envVars == <<store, cache, unseen, secret, served, budget>>
vars == <<ready, items, store, cache, unseen, secret, served, queue, pc, work, caFailed, budget>>

Conditions == {"Unknown", "True", "False"}

Object ==
    [exists : BOOLEAN, deleting : BOOLEAN, paused : BOOLEAN, pausedCond : BOOLEAN,
     ref : Refs, ca : CABundles, handlers : HandlerSets, discovered : Conditions]

Absent ==
    [exists |-> FALSE, deleting |-> FALSE, paused |-> FALSE, pausedCond |-> FALSE,
     ref |-> NoRef, ca |-> NoCA, handlers |-> [n \in {} |-> TRUE],
     discovered |-> "Unknown"]

\* The status fields a Reconcile may change.
Status == [ca : CABundles, handlers : HandlerSets, discovered : Conditions]

\* The modified copy, with orig: the object as Get returned it (original).
Copy == [ca : CABundles, handlers : HandlerSets, discovered : Conditions, orig : Status]

NoStatus == [ca |-> NoCA, handlers |-> [n \in {} |-> TRUE], discovered |-> "Unknown"]

NoCopy == [ca |-> NoCA, handlers |-> NoStatus.handlers, discovered |-> "Unknown",
           orig |-> NoStatus]

\* What Get returns for c: the cached object's fields, twice.
ReadCopy(o) ==
    [ca |-> o.ca, handlers |-> o.handlers, discovered |-> o.discovered,
     orig |-> [ca |-> o.ca, handlers |-> o.handlers, discovered |-> o.discovered]]

\* The ExtensionConfig as the registry reads it.
AsConfig(c, o) == [name |-> c, ca |-> o.ca, handlers |-> o.handlers]

\* c is waiting in the queue, being reconciled, or has a watch event on its
\* way (the cache has not yet seen the server's latest copy).
Pending(c) == c \in queue \/ pc[c] # "Idle" \/ c \in unseen

\* A write of the server's copy of c; one that changes it bumps the
\* resourceVersion and is a watch event, even when it restores an earlier value.
WriteStore(c, o) ==
    /\ store' = [store EXCEPT ![c] = o]
    /\ unseen' = IF o # store[c] THEN unseen \cup {c} ELSE unseen

(***************************************************************************)
(* Reconcile, up to the discovery call.                                    *)
(***************************************************************************)

\* Variant: the not-ready branch returns without Requeue.
BeginNotReadyDrop(c) ==
    /\ c \in queue /\ pc[c] = "Idle"
    /\ ~ready
    /\ queue' = queue \ {c}
    /\ UNCHANGED <<regVars, envVars, pc, work, caFailed>>

\* !IsReady(): return Requeue, leaving c queued.
BeginNotReady(c) ==
    /\ c \in queue /\ pc[c] = "Idle"
    /\ ~ready
    /\ UNCHANGED <<regVars, envVars, ctrlVars>>

\* Get returned NotFound, or the object carries a deletion timestamp
\* (checked after the pause check): reconcileDelete unregisters it.
BeginDelete(c) ==
    /\ c \in queue /\ pc[c] = "Idle"
    /\ ready
    /\ \/ ~cache[c].exists
       \/ cache[c].pausedCond = cache[c].paused /\ ~cache[c].paused /\ cache[c].deleting
    /\ Remove(AsConfig(c, cache[c]))
    /\ queue' = queue \ {c}
    /\ caFailed' = [caFailed EXCEPT ![c] = FALSE]
    /\ UNCHANGED <<envVars, pc, work>>

(***************************************************************************)
(* paused.EnsurePausedCondition: when the Paused condition is out of date  *)
(* it patches it and returns requeue, which Reconcile drops (it returns    *)
(* Result{}); c runs again only because its own patch is a watch event.   *)
(* The patch of an object gone from the server fails, and the error        *)
(* requeues c.  Otherwise a paused object is skipped.                      *)
(***************************************************************************)
BeginPaused(c) ==
    LET o == cache[c] IN
    /\ c \in queue /\ pc[c] = "Idle"
    /\ ready
    /\ o.exists
    /\ \/ /\ o.pausedCond # o.paused
          /\ IF store[c].exists
             THEN /\ WriteStore(c, [store[c] EXCEPT !.pausedCond = o.paused])
                  /\ queue' = queue \ {c}
             ELSE UNCHANGED <<store, unseen, queue>>
       \/ /\ o.pausedCond = o.paused /\ o.paused
          /\ queue' = queue \ {c}
          /\ UNCHANGED <<store, unseen>>
    /\ caFailed' = [caFailed EXCEPT ![c] = FALSE]
    /\ UNCHANGED <<regVars, cache, secret, served, budget, pc, work>>

\* reconcileCABundle: the CA to inject, or NoKey when it returns an error.
CABundleFor(o) ==
    CASE o.ref = NoRef -> o.ca
      [] o.ref = BadRef -> NoKey
      [] OTHER -> secret[o.ref]

\* Variant: the CA bundle is copied without checking that the Secret has it.
BeginReconcileNoCACheck(c) ==
    LET o == cache[c] IN
    /\ c \in queue /\ pc[c] = "Idle"
    /\ ready
    /\ o.exists /\ o.pausedCond = o.paused /\ ~o.paused /\ ~o.deleting
    /\ queue' = queue \ {c}
    /\ pc' = [pc EXCEPT ![c] = "Discover"]
    /\ work' = [work EXCEPT ![c] = [ReadCopy(o) EXCEPT !.ca = CABundleFor(o)]]
    /\ caFailed' = [caFailed EXCEPT ![c] = FALSE]
    /\ UNCHANGED <<regVars, envVars>>

\* Reconcile of a live, unpaused object: inject the CA bundle.  On error
\* Reconcile returns it at once (nothing is patched) and c is requeued.
BeginReconcile(c) ==
    LET o == cache[c] IN
    /\ c \in queue /\ pc[c] = "Idle"
    /\ ready
    /\ o.exists /\ o.pausedCond = o.paused /\ ~o.paused /\ ~o.deleting
    /\ IF CABundleFor(o) = NoKey
       THEN /\ caFailed' = [caFailed EXCEPT ![c] = TRUE]
            /\ UNCHANGED <<queue, pc, work>>
       ELSE /\ queue' = queue \ {c}
            /\ pc' = [pc EXCEPT ![c] = "Discover"]
            /\ work' = [work EXCEPT ![c] = [ReadCopy(o) EXCEPT !.ca = CABundleFor(o)]]
            /\ caFailed' = [caFailed EXCEPT ![c] = FALSE]
    /\ UNCHANGED <<regVars, envVars>>

(***************************************************************************)
(* discoverExtensionConfig: on success the endpoint's handlers replace the *)
(* status and Discovered is True; on failure the handlers stay and         *)
(* Discovered is False.                                                    *)
(***************************************************************************)
DiscoverOk(c) ==
    /\ pc[c] = "Discover"
    /\ work' = [work EXCEPT ![c].handlers = served[c], ![c].discovered = "True"]
    /\ pc' = [pc EXCEPT ![c] = "Patch"]
    /\ UNCHANGED <<regVars, envVars, queue, caFailed>>

DiscoverFail(c) ==
    /\ pc[c] = "Discover"
    /\ work' = [work EXCEPT ![c].discovered = "False"]
    /\ pc' = [pc EXCEPT ![c] = "Patch"]
    /\ UNCHANGED <<regVars, envVars, queue, caFailed>>

(***************************************************************************)
(* patchExtensionConfig, always called after discovery.  It fails when the *)
(* object is gone or on a transient API error.  The patch helper sends     *)
(* only what differs between original and the modified copy, applied to   *)
(* the server's current object; its change reaches the cache, with a      *)
(* watch event, later.  Reconcile then returns the aggregated error if     *)
(* discovery or the patch failed, which requeues c.                        *)
(***************************************************************************)
\* The server's object after the patch helper's diff of w against w.orig.
Patched(o, w) ==
    [o EXCEPT !.ca = IF w.ca # w.orig.ca THEN w.ca ELSE o.ca,
              !.handlers = IF w.handlers # w.orig.handlers THEN w.handlers ELSE o.handlers,
              !.discovered = IF w.discovered # w.orig.discovered THEN w.discovered
                             ELSE o.discovered]

PatchOk(c) ==
    LET w == work[c] IN
    /\ pc[c] = "Patch"
    /\ store[c].exists
    /\ WriteStore(c, Patched(store[c], w))
    /\ queue' = IF w.discovered = "False" THEN queue \cup {c} ELSE queue
    /\ IF w.discovered = "False"
       THEN /\ pc' = [pc EXCEPT ![c] = "Idle"]
            /\ work' = [work EXCEPT ![c] = NoCopy]
       ELSE /\ pc' = [pc EXCEPT ![c] = "Register"]
            /\ UNCHANGED work
    /\ UNCHANGED <<regVars, cache, secret, served, budget, caFailed>>

PatchFail(c) ==
    /\ pc[c] = "Patch"
    /\ queue' = queue \cup {c}
    /\ pc' = [pc EXCEPT ![c] = "Idle"]
    /\ work' = [work EXCEPT ![c] = NoCopy]
    /\ UNCHANGED <<regVars, envVars, caFailed>>

\* RuntimeClient.Register: registry Add of the patched copy; an error is
\* returned and c is requeued.
Register(c) ==
    LET cfg == AsConfig(c, work[c]) IN
    /\ pc[c] = "Register"
    /\ Add(cfg)
    /\ queue' = IF AddOk(cfg) THEN queue ELSE queue \cup {c}
    /\ pc' = [pc EXCEPT ![c] = "Idle"]
    /\ work' = [work EXCEPT ![c] = NoCopy]
    /\ UNCHANGED <<envVars, caFailed>>

(***************************************************************************)
(* warmupRunnable (not under src/, modelled from the spec): at start, call *)
(* WarmUp with every ExtensionConfig in the store; retried until ready.    *)
(***************************************************************************)
WarmUpRunnable ==
    /\ WarmUp(Seqs!SetToSeq({AsConfig(c, store[c]) :
                               c \in {d \in ConfigNames : store[d].exists}}))
    /\ UNCHANGED <<envVars, ctrlVars>>

(***************************************************************************)
(* The environment.  Every change of an ExtensionConfig reaches the cache  *)
(* as a watch event that queues its name (CacheSync); a Secret change      *)
(* queues, through secretToExtensionConfig and the annotation index over   *)
(* the cache, every config the cache says references it.  A change of     *)
(* what an endpoint serves is no event.                                    *)
(***************************************************************************)
\* Variant: the event filter passes creations and deletions only; an
\* update is applied to the cache but queues nothing.
CacheSyncUpdatesFiltered(c) ==
    /\ c \in unseen
    /\ cache' = [cache EXCEPT ![c] = store[c]]
    /\ unseen' = unseen \ {c}
    /\ queue' = IF cache[c].exists # store[c].exists THEN queue \cup {c} ELSE queue
    /\ UNCHANGED <<regVars, store, secret, served, budget, pc, work, caFailed>>

\* The informer applies the server's latest copy of c and the For watch
\* queues c.  Changes made in between are seen as one.
CacheSync(c) ==
    /\ c \in unseen
    /\ cache' = [cache EXCEPT ![c] = store[c]]
    /\ unseen' = unseen \ {c}
    /\ queue' = queue \cup {c}
    /\ UNCHANGED <<regVars, store, secret, served, budget, pc, work, caFailed>>

EnvStep == budget > 0 /\ budget' = budget - 1

Create(c, r) ==
    /\ EnvStep
    /\ ~store[c].exists
    /\ WriteStore(c, [Absent EXCEPT !.exists = TRUE, !.ref = r])
    /\ UNCHANGED <<regVars, cache, secret, served, ctrlVars>>

Annotate(c, r) ==
    /\ EnvStep
    /\ store[c].exists /\ store[c].ref # r
    /\ WriteStore(c, [store[c] EXCEPT !.ref = r])
    /\ UNCHANGED <<regVars, cache, secret, served, ctrlVars>>

TogglePaused(c) ==
    /\ EnvStep
    /\ store[c].exists
    /\ WriteStore(c, [store[c] EXCEPT !.paused = ~store[c].paused])
    /\ UNCHANGED <<regVars, cache, secret, served, ctrlVars>>

\* Delete: removed at once, or kept with a deletion timestamp while a
\* finalizer of another controller is pending.
Delete(c) ==
    /\ EnvStep
    /\ store[c].exists /\ ~store[c].deleting
    /\ \/ WriteStore(c, Absent)
       \/ WriteStore(c, [store[c] EXCEPT !.deleting = TRUE])
    /\ UNCHANGED <<regVars, cache, secret, served, ctrlVars>>

Purge(c) ==
    /\ EnvStep
    /\ store[c].deleting
    /\ WriteStore(c, Absent)
    /\ UNCHANGED <<regVars, cache, secret, served, ctrlVars>>

RotateSecret(s, v) ==
    /\ EnvStep
    /\ secret[s] # v
    /\ secret' = [secret EXCEPT ![s] = v]
    /\ queue' = queue \cup {c \in ConfigNames : cache[c].exists /\ cache[c].ref = s}
    /\ UNCHANGED <<regVars, store, cache, unseen, served, pc, work, caFailed>>

\* A Secret changes while the List of the annotation index in
\* secretToExtensionConfig fails: the map function returns no requests, so
\* no config is queued.
RotateSecretListFails(s, v) ==
    /\ EnvStep
    /\ secret[s] # v
    /\ secret' = [secret EXCEPT ![s] = v]
    /\ UNCHANGED <<regVars, store, cache, unseen, served, queue, pc, work, caFailed>>

EndpointChange(c, hs) ==
    /\ EnvStep
    /\ served[c] # hs
    /\ served' = [served EXCEPT ![c] = hs]
    /\ UNCHANGED <<regVars, store, cache, unseen, secret, queue, pc, work, caFailed>>

\* The manager restarts: the in-memory registry and every Reconcile in
\* flight are lost; the informers list every object again.
Restart ==
    /\ EnvStep
    /\ ready' = FALSE /\ items' = EmptyItems
    /\ cache' = store /\ unseen' = {}
    /\ queue' = {c \in ConfigNames : store[c].exists}
    /\ pc' = [c \in ConfigNames |-> "Idle"]
    /\ work' = [c \in ConfigNames |-> NoCopy]
    /\ UNCHANGED <<store, secret, served, caFailed>>

(***************************************************************************)
(* The specification                                                       *)
(***************************************************************************)

\* Objects that exist before the manager starts, with a status an earlier
\* run discovered.
Preexisting(c) ==
    {Absent} \cup {[Absent EXCEPT !.exists = TRUE, !.handlers = hs] : hs \in Served[c]}

Init ==
    /\ RegistryInit
    /\ store \in [ConfigNames -> UNION {Preexisting(c) : c \in ConfigNames}]
    /\ \A c \in ConfigNames : store[c] \in Preexisting(c)
    /\ secret \in [Secrets -> SecretValues \ {NoKey}]
    /\ cache = store /\ unseen = {}
    /\ served = [c \in ConfigNames |-> store[c].handlers]
    /\ queue = {c \in ConfigNames : store[c].exists}
    /\ pc = [c \in ConfigNames |-> "Idle"]
    /\ work = [c \in ConfigNames |-> NoCopy]
    /\ caFailed = [c \in ConfigNames |-> FALSE]
    /\ budget = MaxEnvSteps

\* The steps of the Reconcile of c that dequeue it.
BeginWork(c) == BeginDelete(c) \/ BeginPaused(c) \/ BeginReconcile(c)

Controller ==
    \/ WarmUpRunnable
    \/ \E c \in ConfigNames :
          \/ BeginNotReady(c) \/ BeginWork(c)
          \/ DiscoverOk(c) \/ DiscoverFail(c)
          \/ PatchOk(c) \/ PatchFail(c)
          \/ Register(c)

Environment ==
    \/ \E c \in ConfigNames : CacheSync(c)
    \/ \E c \in ConfigNames :
          \/ \E r \in Refs : Create(c, r) \/ Annotate(c, r)
          \/ TogglePaused(c) \/ Delete(c) \/ Purge(c)
          \/ \E hs \in Served[c] : EndpointChange(c, hs)
    \/ \E s \in Secrets, v \in SecretValues : RotateSecret(s, v)
    \/ Restart

Next == Controller \/ Environment

\* The same system where the index List of a Secret event may fail.
NextListFails ==
    Next \/ \E s \in Secrets, v \in SecretValues : RotateSecretListFails(s, v)

(***************************************************************************)
(* Fairness: the workqueue hands every queued name to a worker, and the    *)
(* rate limiter retries failed ones, so each step of a Reconcile that can  *)
(* happen eventually does.  Network and API failures are transient: a      *)
(* discovery call retried forever eventually succeeds, and so does the     *)
(* patch following a successful discovery.  The informer keeps watching,  *)
(* so a change of the server's copy eventually reaches the cache.  The     *)
(* rest of the environment is not fair.                                    *)
(***************************************************************************)
Fairness ==
    /\ WF_vars(WarmUpRunnable)
    /\ \A c \in ConfigNames :
          /\ WF_vars(CacheSync(c))
          /\ WF_vars(BeginWork(c))
          /\ WF_vars(DiscoverOk(c) \/ DiscoverFail(c))
          /\ WF_vars(PatchOk(c) \/ PatchFail(c))
          /\ WF_vars(Register(c))
          /\ SF_vars(DiscoverOk(c))
          /\ SF_vars(PatchOk(c) /\ work[c].discovered = "True")

Spec == Init /\ [][Next]_vars /\ Fairness

SpecListFails == Init /\ [][NextListFails]_vars

(***************************************************************************)
(* Invariants and properties                                               *)
(***************************************************************************)

TypeOK ==
    /\ RegistryTypeOK
    /\ store \in [ConfigNames -> Object]
    /\ cache \in [ConfigNames -> Object]
    /\ unseen \subseteq ConfigNames
    /\ secret \in [Secrets -> SecretValues]
    /\ served \in [ConfigNames -> HandlerSets]
    /\ queue \subseteq ConfigNames
    /\ pc \in [ConfigNames -> {"Idle", "Discover", "Patch", "Register"}]
    /\ work \in [ConfigNames -> Copy]
    /\ caFailed \in [ConfigNames -> BOOLEAN]
    /\ budget \in 0 .. MaxEnvSteps

\* The CA bundle a live object should carry by now: the referenced Secret's.
CAInjected(c) ==
    LET o == store[c] IN
    o.exists /\ ~o.deleting /\ o.ref \in Secrets /\ secret[o.ref] # NoKey
        => o.ca = secret[o.ref]

\* The registry holds exactly what the object's status declares, with the
\* object's CA bundle (nothing when its handlers do not all parse, or when
\* the object is gone or being deleted).
RegistryMatches(c) ==
    LET o == store[c]
        regs == OwnedBy(items, c)
        valid == \A n \in DOMAIN o.handlers :
                    ParseGroupVersion(o.handlers[n].apiVersion).ok
    IN  IF o.exists /\ ~o.deleting /\ valid
        THEN /\ DOMAIN regs = DOMAIN o.handlers
             /\ \A n \in DOMAIN regs : regs[n].hook = o.handlers[n].hook
                                       /\ regs[n].ca = o.ca
        ELSE DOMAIN regs = {}

Converged(c) == CAInjected(c) /\ RegistryMatches(c)

\* Once the registry is warm, a config whose registry entries or injected
\* CA bundle disagree with the store is always still to be reconciled
\* (queued or in flight), unless it is paused: no event, error or race
\* leaves the registry stale with nothing left to repair it.
StaleImpliesPending ==
    ready => \A c \in ConfigNames :
                Converged(c) \/ Pending(c) \/ store[c].paused

\* spec 4.2 and 8: a Reconcile whose CA bundle injection failed leaves a
\* False condition on the object (the patch is still attempted).
CAFailureVisible ==
    \A c \in ConfigNames :
       caFailed[c] /\ store[c].exists => store[c].discovered = "False"

\* Whatever the environment did, once it stops, every unpaused config
\* whose CA source is usable ends up converged.
EventuallyConsistent ==
    <>[](\A c \in ConfigNames :
            Converged(c) \/ store[c].paused \/ CABundleFor(store[c]) = NoKey)
=============================================================================
