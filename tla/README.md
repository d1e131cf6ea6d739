# TLA+ models of the Runtime Extension registry, the ExtensionConfig controller and the API conversions

This directory holds TLA+ models of the runtime-extension part of this
cluster-api snapshot and the TLC configurations that check them.
`PROJECT.json` lists, in machine-readable form:

- the components;
- the runs;
- the mutants;
- the map from each definition to the source lines it translates;
- the findings;
- the hazards.

## The system

| Part | Source | What it is |
|---|---|---|
| Registry | `src/unnamed/part_000` | `extensionRegistry`: a `ready` flag and an `items` map from handler name to `ExtensionRegistration`, behind one `sync.RWMutex`. It has `WarmUp`, `Add`, `Remove`, `List`, `Get` and `IsReady`. |
| ExtensionConfig reconciler | `src/unnamed/part_001` lines 223–516 | `Reconciler.Reconcile`, `patchExtensionConfig`, `reconcileDelete`, `reconcileCABundle`, `discoverExtensionConfig`, `secretToExtensionConfig` and `SetupWithManager`. |
| KCP v1alpha4 conversion | `src/unnamed/part_001` lines 1–222 | Conversion between hub and spoke that restores dropped fields from an annotation. |
| core v1alpha3 conversion | `src/internal/apis/core/v1alpha3/conversion.go` | The same conversion pattern for Cluster, Machine, MachineSet, MachineDeployment and MachineHealthCheck. |
| exp v1beta1 conversion | `src/exp/api/v1beta1/zz_generated.conversion.go` | Generated copies, field by field. |
| release notes | `src/unnamed/part_002` | A changelog, not code. |

### How the parts interact

1. The reconciler is the only writer of the registry after start-up.
2. A `warmupRunnable` runs at manager start. Its code is not under `src/`, so it is modelled from the spec. It calls `WarmUp` with the statuses of all stored ExtensionConfigs.
3. Until `WarmUp` succeeds, every `Reconcile` requeues.
4. After that, a reconcile of config `c` does the following, in order:
   - reads `c`;
   - unregisters `c` if `c` is gone or is being deleted;
   - ensures the Paused condition, and stops if `c` is paused;
   - injects the CA bundle from the Secret named in the `inject-ca-from-secret` annotation;
   - calls each extension's discovery endpoint;
   - patches the object with the discovered handlers and conditions;
   - calls `Register`, which is `Add` on the registry.
5. A Secret change enqueues every config whose annotation names that Secret, using a field index.

## Modules

| Module | Models |
|---|---|
| `Registry` | The registry. Variables: `ready` and `items`. Helpers: `ParseGroupVersion`, `NewRegistration`, `remove`, `add` and `warmUpResult` (the loop of `WarmUp`). Actions: `WarmUp`, `Add` and `Remove`. `List` is an operator. Each method holds the lock for its whole body and does no I/O, so each call is one step. |
| `OwnerRegistry` | The abstract registry, as its callers see it. Variables: `ready`, and `owned[c]`, the registrations of config `c`. `WarmUp` installs all of its configs or none. `Add` replaces one config's registrations (an invalid config is left with none, as the code does). `Remove` clears one config's. The registrations a config yields are a parameter. |
| `RegistryCallers` | The registry called by arbitrary clients, in any order and at any readiness. `lastCall` records each call and its result, so that properties can speak about a failed `Add`. `Owners` instantiates `OwnerRegistry` with the refinement mapping `owned <- [c \in ConfigNames \|-> OwnedBy(items, c)]`, and `Regs` and `Valid` given by `NewRegistration` and `ParseGroupVersion`. |
| `MCRegistryCallers` | The inputs: two configs and three handler names. Handler lists are empty, well-formed, or contain one apiVersion with two `/`. |
| `ExtensionConfigController` | The reconciler, the registry (by `EXTENDS Registry`) and an environment. Details follow below the table. |
| `MCExtensionConfigController` | The inputs: two configs and one Secret. The handler sets each extension can serve include a malformed apiVersion. The two CA bundles are model values with a symmetry set `CASymmetry`, used by the safety runs. |
| `KCPConversion` | The conversion functions of `part_001` lines 31–206, as operators over records of the fields the conversion treats differently. A Go pointer is a sequence, `Nil` or `Some(x)`. The annotation is `Some(hub object)`. The down-conversion wrappers (lines 186–206) are `KCPMachineTemplateFrom`, `KCPAutoConvertFrom` and `TemplateResourceFrom`: the v1alpha4 object they build, before `ConvertFrom` adds the annotation. |
| `ConversionValues` | What the conversion modules share: `Nil`/`Some(x)` pointers, `Opt(S)`, the field values `V` and `RestoreIfSet`, the "restore only if set" pattern. |
| `ConversionStore` | The API server's side of a multi-version object, as a harness whose conversion operators are `CONSTANT`s. It covers a hub-version writer, a spoke client's Get/Update with a resourceVersion check (Conflict), and a spoke Create without annotation. The initial objects, hub writes, spoke edits and creates depend on the current object, so one store can hold objects of several kinds, each keeping its kind. |
| `MCKCPConversion`, `MCKCPTemplateConversion` | Each plugs one kind's operators into `ConversionStore` with `INSTANCE ... WITH`. |
| `CoreV1alpha3Conversion` | `conversion.go` lines 28–314: `ConvertTo`/`ConvertFrom` of Cluster, Machine, MachineSet, MachineDeployment and MachineHealthCheck. Each generated auto conversion (outside `src/`) is the fields it copies and leaves zero. The manual code is modelled as written: the `MarkTrue`/`IsTrue` mapping of Cluster's ControlPlaneInitialized, the restores from the annotation, and MachineDeployment's nested Strategy restore (lines 166–177), which allocates a Strategy and a RollingUpdate when the annotation has them. The custom wrappers at lines 243–314 are the `*AutoConvertFrom` operators, `MDRollingUpdateFrom`, `MDStrategyFrom` and the status parts of `MachineAutoConvertTo`/`ClusterAutoConvertTo`: each is the object the wrapper builds, with the fields it drops left out. Each `ConvertFrom` is its `*AutoConvertFrom` with the annotation added. |
| `MCCoreV1alpha3Conversion` | The five kinds in one `ConversionStore`. An object is tagged with its kind, and the webhook's conversion dispatches on that tag. |
| `ExpMachinePoolConversion` | `zz_generated.conversion.go` lines 40–270. `RegisterConversions` is `SchemeConvert`, the scheme's converter for a kind and direction. Also modelled, in both directions: the MachinePool, MachinePoolList and MachinePoolSpec converters, and the autoConvert MachinePoolStatus helpers with their Conditions loops and int32 pointer conversions. The helpers take `(in, out)` and write only the fields with a peer. Some converters are registered with `AddConversionFunc` and defined outside `src/`: Condition, MachineTemplateSpec, and the hand-written MachinePoolStatus converters. These are `CONSTANT` operators. The status converters call the helpers and convert, by hand, the fields the helpers mark "requires manual conversion". |
| `MCExpMachinePoolConversion` | An object starts at either version and is converted up and down any number of times. It is a MachinePool or MachinePoolList converted through `SchemeConvert`, or a bare status converted through the autoConvert helpers from zero-valued outs (`AutoStatus`). The hand-written status converters are a pair over two abstract statuses per version, and the pair loses one of them. The check compares each object with reference definitions of one round trip. These are written field by field and, for the parameters, in terms of the parameters. |

How `ExtensionConfigController` is built:

- **Data.** An apiVersion is the sequence of its `/`-separated segments, which is all `ParseGroupVersion` looks at. A handler list is a function from name to `[apiVersion, hook]`.
- **Reconcile is split where it does network I/O.** While it waits on the network, other steps interleave. A reconcile moves through `pc[c]`, and `work[c]` holds the copy it carries between the steps:
  1. `Begin*` covers everything up to the CA injection: `BeginNotReady`, `BeginDelete`, `BeginPaused` and `BeginReconcile`.
  2. `DiscoverOk` or `DiscoverFail`: the discovery call.
  3. `PatchOk` or `PatchFail`: the patch. `Patched` is the patch helper's diff: only the fields where the modified copy differs from `original` (the object `Get` returned, `work[c].orig`) are written, onto the server's current object. The resulting change reaches the controller later, as a watch event.
  4. `Register`: the `Add` call.
- **Informer cache.** `Reconcile` and the Secret index read ExtensionConfigs from the manager's cache, through `r.Client`:
  - `store` is the API server's copy and `cache` is the informer's copy.
  - Every write of the server's copy goes through `WriteStore`. A write that changes the object bumps its resourceVersion and puts the name in `unseen`.
  - `CacheSync(c)` is the informer applying the server's latest copy. It delivers the For-watch event, which queues `c`.
  - Several changes made before a sync are applied as one. The reconciler only ever reads the latest copy, and the queue de-duplicates.
  - The Secret in `reconcileCABundle` and the warm-up's list are read from the server.
  - A Secret event is delivered at the rotation itself: the metadata-only Secret informer is not given a lag.
- **Environment.** The environment actions are user edits and changes in the outside world, up to `MaxEnvSteps` of them:
  - create;
  - change the annotation;
  - pause or unpause;
  - delete, which finalizers may delay;
  - rotate the Secret;
  - change an extension's served handlers;
  - restart the manager.
- **Restart.** This is the informer start in `SetupWithManager` followed by the `warmupRunnable`:
  - the registry becomes empty and cold;
  - every in-flight reconcile is lost;
  - the cache is listed afresh;
  - every stored config is enqueued again.
- **What is abstracted.**
  - The workqueue is a set, because it de-duplicates keys.
  - Workers interleave freely: one step per config at a time, as controller-runtime guarantees for each key.

## Runs

| Run | Result | Shows |
|---|---|---|
| `registry_callers` (`MCRegistryCallers.cfg`) | pass, 202 states | The cold registry holds nothing (`ColdRegistryIsEmpty`). The step that makes it ready installs exactly the snapshot it was given (`WarmUpInstallsSnapshot`). `RefinesOwnerRegistry` (the property `Owners!Spec`): the map keyed by handler name implements the per-owner registry. So a successful `Add` replaces all of its owner's entries, and no call touches another config's entries. The refinement does not see a call's argument: a `WarmUp` that wrongly succeeds on a list with an invalid config looks like a valid `WarmUp` of fewer configs. `WarmUpInstallsSnapshot` covers that case through `lastCall`. |
| `registry_add_all_or_nothing` (`MCRegistryAllOrNothing.cfg`) | violation | A failing `Add` changes the map (see Findings). |
| `controller_safety` (`MCExtensionConfigController.cfg`) | pass, about 4.7M states (under symmetry), about 2 min | `StaleImpliesPending`: once the registry is ready, for every config at least one of the following holds: it is converged (store, CA and registry agree); a reconcile of it is queued or in flight; a watch event of it is on its way (`c \in unseen`); or it is paused. The reads come from the lagging cache, and patches are diffs against a possibly stale `original`. |
| `controller_liveness` (`MCEventuallyConsistent.cfg`) | pass, about 0.5M states, 1.5 min | `EventuallyConsistent`: after one environment change, every unpaused config with a usable CA source converges. The change may be a restart in the middle of a reconcile, for example between the status patch and `Register`. So the run also shows that the warm-up from persisted statuses, together with the requeue of configs seen while cold, recovers the registry. |
| `controller_ca_failure_visible` (`MCCAFailureVisible.cfg`) | violation | A CA-injection error leaves no trace on the object (see Findings). |
| `controller_secret_event_lost` (`MCSecretEventLost.cfg`) | violation | `SpecListFails` adds `RotateSecretListFails`: the Secret changes while the index `List` in `secretToExtensionConfig` fails. `StaleImpliesPending` breaks (see Findings). |
| `kcp_conversion` (`MCKCPConversion.cfg`) | pass, 411 states | For KubeadmControlPlane: reading at v1alpha4 and writing back changes nothing (`HubRoundTrip`). A v1alpha4 update keeps every v1beta2-only field, pointers that a controller cleared included (`HubOnlyPreserved`). The client reads back what it wrote (`ReadYourWrites`). |
| `kcp_template_conversion` (`MCKCPTemplateConversion.cfg`) | pass, 552 states | For KubeadmControlPlaneTemplate: `HubRoundTrip` holds, including a nil MachineTemplate and nested RolloutStrategy pointers, and `HubOnlyPreserved` holds. |
| `kcp_template_read_your_writes` (`MCKCPTemplateReadYourWrites.cfg`) | violation | A v1alpha4 edit of a template's NodeDrainTimeout is reverted (see Findings). |
| `core_v1alpha3_conversion` (`MCCoreV1alpha3Conversion.cfg`) | pass, 1340 states | For all five core kinds, across controller writes, stale reads and conflicts. `HubRoundTrip`: nil and partial Strategies, a nil MachineNamingStrategy or UnhealthyRange, and a False ControlPlaneInitialized condition come back unchanged. `HubOnlyPreserved`: a v1alpha3 update keeps every v1beta2-only field, DeletePolicy and Remediation inside the Strategy included. `ReadYourWrites`: the client reads back a cleared Strategy, a new MaxSurge and a control plane marked initialized. |
| `exp_machinepool_conversion` (`MCExpMachinePoolConversion.cfg`) | pass, 1165 states | `SpokeRoundTrip`, `HubRoundTrip`: a MachinePool or list keeps its meta, spec fields and list shape, and its template and status change only as their registered converters change them. Nil and empty Items stay apart, and items keep their order. `AutoStatusRoundTrip`: the autoConvert status helpers keep every field with a peer and every Condition slice, nil, empty or not. They leave the fields for manual conversion zero and drop severities, and they turn an unset count into a pointer to 0. What the registered hand-written converters then do is outside `src/` and not claimed. |

Every property of a passing run has a mutant in `PROJECT.json`. Each mutant is a plausible bug in the mapped code, and under the run's own configuration TLC finds the property violated.

## Findings

1. **`add` is not all-or-nothing.** See `part_000:221`.
   - `add` calls `r.remove` first and only then parses the apiVersions.
   - A config whose new handler list contains one malformed apiVersion therefore loses all its earlier registrations.
   - Spec §4.1 says the Add "aborts without mutating the map".
   - Trace: `WarmUp(<<>>)`, then `Add(c1 with h1)`, then `Add(c1 with h1 and a malformed h2)`. After the last call the registry is empty.
2. **A CA injection error is silent.** See `part_001:370`.
   - `Reconcile` returns at once, so the Discovered condition is not set to False and no patch is made.
   - An earlier `Discovered=True` stays visible.
   - Spec §4.2 and §8 describe a False condition naming the missing key, with the patch still attempted.

3. **The template conversion reverts v1alpha4 edits of NodeDrainTimeout.** See `part_001:90`.
   - Line 90 replaces the converted MachineTemplate, which holds the client's NodeDrainTimeout, with the one from the annotation.
   - Lines 93–102 then copy fields of the restored MachineTemplate onto itself. The `else if` merge that keeps only the v1beta2-only timeouts never changes anything.
   - Both directions of the round trip still hold, so round-trip tests miss it. `ReadYourWrites` catches it: edit NodeDrainTimeout from `a` to `b`, and the store keeps `a`.
   - Dropping line 90 alone does not fix it. That variant satisfies `ReadYourWrites` but breaks `HubRoundTrip`, because a nil MachineTemplate comes back non-nil.

4. **A failing index `List` drops a Secret rotation.** See `part_001:439`.
   - `secretToExtensionConfig` returns `nil` when the `List` through the annotation index fails.
   - The Secret event then queues no config. A registered config keeps the old CA bundle until another event of that config, a resync or a restart.
   - The spec says a Secret change re-queues every config that names it, and that external errors are always retried by re-queueing.
   - Trace: `WarmUp`, create `c1` naming `s1`, reconcile and register, then `RotateSecretListFails`.

## Bounds

- **Two configs.** This is the smallest number at which owner isolation and a Secret shared by several configs mean anything.
- **One Secret.** It can hold two CA values or lack its key.
- **Per config, one or two handler names.** Each extension may serve:
  - no handlers;
  - a handler (the `controller_ca_failure_visible` run also allows it on the other hook);
  - a handler with a malformed apiVersion.
- **`MaxEnvSteps = 2`** in the safety runs. Within two environment steps the model reaches each of these in the middle of a reconcile and before the cache has caught up:
  - a rotation;
  - a delete;
  - a pause;
  - a restart.

  Three steps no longer fit in five minutes once the cache lag is modelled. The case they added is a delete and re-create that ends where the cache stood. It matters only to an event filter that compares content, and the safety run would need a third step to reach it.
- **Symmetry.** The two CA bundles appear only in equality tests, so the safety runs permute them.
- **Conversion runs.** Field values are unset, `a` or `b`. A controller writes objects that set every v1beta2-only field, or clear the optional ones. A v1alpha4 client edits each field it has. Four writes allow a sequence such as: controller write, stale read, conflict, re-read and update.
- **Core v1alpha3 run.** Each kind starts with every field `a`. A controller writes every field `b`, or clears the optional pointers; for Cluster the condition is True, False or absent, and for MachineDeployment the Strategy is full, without RollingUpdate, or nil. A v1alpha3 client edits one field of its version: for MachineDeployment the replicas, or it clears the Strategy, clears the RollingUpdate, or sets MaxSurge. These are every shape the restore code branches on.
- **Exp MachinePool run.** The inputs cover nil, zero and set values of every pointer and count the generated code converts. Condition slices are nil, empty, or have one or two elements. Lists are nil, empty, or have one or two items, in either order.
- **Liveness run.** It uses 1 environment step and only well-formed apiVersions (see the next section). Its initial states still include preexisting objects, stale statuses and an unwarmed registry. Any single change then races reconciles, cache lag and transient failures. Two steps give more than 2M states, and the liveness check over them takes more than five minutes.

## Fairness

Controller-runtime workers keep taking keys from the queue, and requeues happen with a rate-limited backoff. So the following get weak fairness:
- the controller's steps;
- the warm-up runnable, which retries;
- `CacheSync`: the informer keeps its watch open and relists on errors, so a change of the server's copy eventually reaches the cache;
- `Register`.

Discovery and the patch can fail transiently. They get strong fairness for their successful outcome: a retried call that is repeatedly possible eventually succeeds. For the patch, the assumption is made only where discovery succeeded. A patch that follows a failed discovery re-enqueues the config in any case.

The environment gets no fairness. Its steps are finite, bounded by `budget`.

A persisted malformed apiVersion makes every later `WarmUp` fail, so the registry never becomes ready. The spec states this fail-closed behaviour as a design choice (§9), so the liveness run leaves malformed versions out. The safety run keeps them.

## Not modelled

- **Lag of the Secret informer.** Secret events are delivered at the rotation itself. Only the ExtensionConfig cache lags.
- **`Get` and `IsReady`.** They are reads of the modelled state.
- **KubeadmConfigSpec in the KCP conversion.** Its merge is in a package outside `src/`.
- **Three pure delegators in `conversion.go`:** Bootstrap (260–262), ObjectMeta (281–283) and MachineSetSpec (316–318). They change no field the model tells apart.
- **Handler-name collisions across configs.** Discovery (not under `src/`) gives each handler a unique name, and the models give distinct configs distinct names.
- **Converters outside `src/`.** Three kinds of converter are parameters of `ExpMachinePoolConversion`: the v1beta1/v1 Condition converters, the MachineTemplateSpec converters, and the hand-written MachinePoolStatus converters that `RegisterConversions` installs. The MC module gives the Condition converters their field-level effect (a v1 Condition has no Severity). It gives the others an abstract effect.
- **Condition timestamps.** The conditions helpers keep a condition's LastTransitionTime while its status is unchanged, so `MarkTrue` on an already-True condition changes nothing the model sees.
- **MachineDeployment nil vs empty.** The client's view treats a nil Strategy or RollingUpdate as an empty one, because API defaulting does. The restore at lines 166–177 can turn the one into the other.

## Plan for later sittings

1. **The registry refinement inside the controller model**, checking `OwnerRegistry` against the registry calls the reconciler makes, if the state space allows.
2. **A third environment step** for the safety run, if a smaller encoding of `work` makes it fit.
