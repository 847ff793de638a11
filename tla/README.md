# A TLA+ model of the Zitadel operator

The operator (`src/cmd/operator`, Go, controller-runtime) turns Kubernetes custom resources into
objects of a Zitadel instance: organizations, projects, applications, users, policies. Since v0.18 it
does not work with one credential for everything. A `ScopeMap` says which namespaces may manage which
organization or project; for each such *scope* the operator mints a machine user of its own, the
*delegate*, and lets the tenant's controllers work as that user.

This directory models the parts of it where order, failure and time decide whether it is right, checks
them with TLC on small instances and proves the core facts with TLAPS for all instances.

## Inventory

| component | source | state it keeps | operations | talks to |
|---|---|---|---|---|
| Delegation manager | `internal/delegation/manager.go` | mutex, cache scope → delegate; one Secret per scope; user, membership, keys in Zitadel | `Ensure` (warm, validate, rotate, mint), `WarmFromSecrets`, `Sweep`, revoke, finish rotation | Zitadel management API as the binding user; Kubernetes through the informer cache |
| Delegation GC | `internal/delegation/gc.go` | nothing between sweeps | `SweepOnce` (live set, then `Sweep`), 10 min loop | resolver, manager |
| Scope-map resolver | `internal/scopemap/resolver.go` | nothing; reads ScopeMaps and namespaces | `Resolve`: namespace → scope, none, conflict, not ready | informer cache |
| ScopeMap controller | `internal/controller/scopemap_controller.go` | map status: `Ready`, resolved organization, binding containment | `Reconcile`, always ending in a sweep | Zitadel, GC |
| Tenant preamble | `scope_resolution.go`, `management_guard.go` | `managed-by` annotations on namespaces and CRs | instance gate, management gate, scope resolution, delegate client | resolver, manager |
| Lifecycle helpers | `lifecycle.go`, `common.go`, `adoption.go` | finalizer, conditions | finalizer, strict / soft / singleton deletion, reference resolution, adoption | Kubernetes, Zitadel |
| Tenant controllers | organization-scoped kinds: projects, roles, grants, members, policies, human users | CR status (ids) | create or adopt, update, delete | Zitadel with the delegate's client |
| Application controllers | `oidcapp`, `apiapp`, `samlapp` | CR status, an output Secret with client id and client secret | create or adopt, generate a secret, store, delete | as above, Secrets |
| Credential controllers | `machineuser`, `machineuser_grants`, `personalaccesstoken`, `applicationkey` | CR status (ids, times of a rotation), a Secret with the credential | mint, store, rotate, revoke, grant roles, delete | as above, Secrets |
| Instance controllers | organizations, instance members, actions, providers | CR status | create or adopt, update, delete | Zitadel with the binding client |
| Default policy singletons | ten `default*_controller.go` | CR status | oldest CR wins, others report a conflict | Zitadel |
| Binding, client, config | `internal/zitadel`, `internal/config` | none | start-up verification, connections | Zitadel |
| Main | `cmd/operator/main.go` | wiring, `synced` flag, leader election | start, restart | all |

What makes it hard:

* **Concurrency.** Reconcilers of 43 kinds run in parallel and share the delegation manager; the GC loop
  and the ScopeMap controller both sweep. `Manager.mu` covers `Ensure` and the body of `Sweep`, but not the
  computation of the live set, the listing of Secrets, or the list of `WarmFromSecrets`.
* **Stale reads.** Every Kubernetes read goes through an informer cache that lags behind the API server.
* **Partial failure.** Each of these operations is a chain of calls to two servers. A call may fail, or take
  effect and still answer with an error.
* **Crashes.** The process may die between any two calls; only Secrets and Zitadel's objects survive.
* **Outside hands.** Users, Secrets, maps and labels change while an operation is under way.
* **Time.** Keys rotate after 90 days; an old key stays for 5 minutes, unless it is still in use.

What makes each part correct, in short: a delegate's persisted key works as long as its user exists; a
client handed out keeps working through a rotation; no key ever exists without the membership that bounds
it; only unmatched delegates are revoked, and they eventually are (delegation); a namespace resolves to at
most one scope and an unusable map grants nothing (resolver, ScopeMap controller); one operator manages an
object (guards); cleanup happens before a finalizer goes and deletion always ends (lifecycle); credentials in
Secrets are the ones Zitadel accepts, and replaced ones are revoked (machine users, applications); the oldest
CR manages a singleton policy and, when it goes, the next does (defaults).

## Modules

| module | role |
|---|---|
| `KeyHandover` | abstract: what everything that rotates a key promises to whoever reads it |
| `Delegation` | the delegation manager and its GC, with properties and inductive invariant |
| `MCDelegation` | budgets of adverse events and start states for TLC |
| `DelegationProofs` | TLAPS proofs about `Delegation` |
| `DelegationHandoverProofs` | TLAPS proofs about what `Delegation` hands out and takes away: that it implements `KeyHandover`, that leases live for the grace, that no dead delegate is handed out, no live one revoked, and no Secret deleted before its user; also the proof of what `KeyHandover` itself promises |
| `ScopeResolution` | the resolver as operators: from maps and labels to a scope or an error |
| `ScopeMaps` | the ScopeMap controller, the sweeps and the tenants around the resolver |
| `MCScopeMaps` | map specs, labels and budgets for TLC |
| `ScopeMapsProofs` | TLAPS proofs about the resolver and `ScopeMaps` |
| `TenantGate` | the dual-serving gate and the ForeignManager guard: which of several operators reconciles a resource |
| `MCTenantGate` | operators and their instances for TLC |
| `TenantGateProofs` | TLAPS proofs about `TenantGate` |
| `TenantKinds` | what distinguishes the reconcilers of 30 kinds, one record each |
| `TenantLifecycle` | one resource of any of these kinds, from its finalizer to its cleanup |
| `MCTenantLifecycle` | kinds and symmetry for TLC |
| `TenantLifecycleProofs` | TLAPS proofs about `TenantLifecycle` |
| `Credentials` | MachineUser, PersonalAccessToken and ApplicationKey: minting, storing, rotating and revoking a credential, role grants |
| `MCCredentials` | specs for TLC |
| `CredentialsProofs` | TLAPS proofs about `Credentials`, that it implements `KeyHandover` among them |
| `ClientSecrets` | the client secret of an OIDCApp or APIApp and its output Secret |
| `MCClientSecrets` | instance for TLC |
| `ClientSecretsProofs` | TLAPS proofs about `ClientSecrets` |
| `Singletons` | the ten Default kinds: who manages a setting of the instance |
| `MCSingletons` | kinds and specs for TLC |
| `SingletonsProofs` | TLAPS proofs about `Singletons` |

How they fit together. `Delegation` and `ScopeMaps` meet in the delegate of a scope: `Delegation` takes the live
scopes as they come from a nondeterministic map and follows `Ensure` and `Sweep` call by call; `ScopeMaps` computes the
live scopes and treats `Ensure` and the revocation of one delegate as one step each. A reconcile of a tenant
resource begins in `TenantGate` (may this operator?), goes on in `ScopeMaps` (as which delegate?) and
`TenantLifecycle` (the object itself); where a credential comes with the object, `Credentials` and `ClientSecrets`
follow it call by call, with the gates passed. `Singletons` is the whole reconcile of the kinds that have no
scope and no object of their own. `KeyHandover` is implemented twice: by `Delegation` for the Secret of every
scope, and by `Credentials` for the Secret of a MachineUser.

### Delegation: state and steps

A *scope* stands for its hash, from which the username and the Secret's name derive. User and key ids are
fresh naturals, `0` is none. The state falls into three parts: Zitadel (`user`, `keys`, `granted`,
`projects`), Kubernetes (`secret`, and `informer`, the same Secrets as the operator's informer cache shows
them), and the process (`lock` = `Manager.mu`, `cache`, and for every goroutine `pc`, `job`, plus the lock
holder's locals `op`).

`Ensure` is a chain of actions, one for each call it makes; everything between two calls is part of the
action of the call before:

    EnsureCall -> EnsureLock -> (cached, validated) ------------------------> HandOut
                     | no entry    | not validated      | key too old
                     v             v                    v
                  WarmLocked -> ValidateLocked -> RotateKey -> RotateSwap --> HandOut
                     | no Secret   | user gone
                     v             v
                  MintUser  <-- DropSecret
                     -> MintProject -> MintGrant -> MintKey -> PersistSecret -> HandOut

A sweep is `SweepOnce`, `SweepResolve` for each namespace, `SweepList`, `SweepLock`, then per listed Secret
`SweepItem` followed by `RevokeRead -> RevokeUser -> RevokeSecret` or `RemoveOldKey -> ClearMarkers`, and
`SweepUnlock`. `WarmFromSecrets` is `WarmList`, `WarmItem` for each Secret, `WarmDone`. `edited` is history: for each sweep,
the namespaces whose scope has changed since the sweep resolved them.

A failing call is either without effect (`EnsureError`, `SweepError`) or takes effect and answers with an
error (the `Failed` disjunct of its action). `Crash` resets the process, keeps both servers, and starts over
with a freshly filled informer cache. `Update` conflicts when the copy's resourceVersion is old: the copy
differs from the Secret.

Abstractions: the scope's parts, key material, wording of errors and logs are left out. An empty
`old_key_revoke_after` and an unparsable one do not occur in Secrets the operator wrote. The search by username
and the creation in `ensureMachineUser` are one step, as only the mutex holder creates that user. The
backstop expiry of keys (one year) lies outside the clock's range. A Zitadel call about a user of another
organization without an org header answers NotFound; `HomeScopes` are the scopes in the binding credential's
own organization, where a missing header does no harm.

### ScopeMaps: state and steps

Kubernetes holds the ScopeMaps (`map`: generation, deletion mark, spec, status) and the namespaces' labels;
`seenMap` and `seenLabels` are what the informers show. Zitadel holds `orgName`, the organizations and their names, and
`delegates`, a delegate being its scope. Administrators create, edit and delete maps, relabel
namespaces, rename and delete organizations. The informers deliver each object when they please; a change of
generation puts the map into `queue`.

`Reconcile` of a map is one action per call: `Reconcile` (cached read, `validateMap`), `LookupOrganization`
(Zitadel, and the containment check of an org-owner binding), `WriteStatus` (server-side apply by name), then a
sweep. The sweep is `SweepOnce`, `SweepResolve` for each namespace, `SweepDelegates`, `SweepRevoke`
for each scope, `SweepEnd`; the GC loop runs the same actions. A tenant's reconciler is `TenantResolve`, which
passes on only a resolved scope, and `TenantEnsure`.

`Resolve` follows the code's order: no maps (the binding client serves), unknown namespace, a rule that does not
evaluate, no match, conflict, foreign instance, not ready, scope. Each map contributes the rule at which its
top-down evaluation ends.

Abstractions: a selector is the set of labels it requires, `Malformed` one that does not parse; a rule's
project name and id are one value; a namespace that is gone has labels `None`. Maps outside the operator's
namespace are invisible to it and left out, Events and condition texts too. A reconcile that returns an error
or `RequeueAfter` leaves its request in `queue`, as both come back by themselves. If a deletion and
a creation reach the informer as one update with the same generation, nothing is enqueued; the code's requests are
periodic, so nothing depends on it.

`versions`, `meant` and `quiet` are history: the specs a map has had, the organizations that one of them has meant (the pinned one, or those
that had its name since it was applied), and whether a sweep's view was complete and undisturbed since it began.

### TenantGate: state and steps

One tenant resource, seen by several operators, each with its informer cache, work queue and at most one reconcile (a
key is never reconciled twice at once). `cr` has what the gates read and write: pin, `managed-by`
annotation, finalizer, deletion, the `zitadel-operator/*` field managers, the `InstanceResolved` condition and the managers of
the `ForeignManager` condition. An operator stands for its management identity.

Versions are not numbered: `fresh` and `uptodate` say whether a reconcile's copy, or a cache, has the latest
resourceVersion, and every write that changes the resource clears them for everybody else. That is all an
`Update` compares. `ApplyStatus` is Server-Side Apply of the copy's *whole* status, without that comparison,
and leaves the copy's resourceVersion behind; this is why an operator's first reconcile of an unpinned resource always
fails at the stamp (announcement, then a conflict) and succeeds on the next one.

`writers` are the field managers that `foreignOperatorManagerPresent` (`scope_resolution.go:134`) looks for, those that begin with
`zitadel-operator`. Status and annotations are written under such a name (`lifecycle.go:58`, `management_guard.go:175`). The finalizer's
`Update` names no manager, so the API server takes the executable's name, and `Updated` adds none: the images are built by ko from `cmd/operator`, and their
executable is `operator`. The plain binary of a release or of `just build` is called `zitadel-operator`; run that way, an operator would find its own
`Update` among the foreign managers. That is not modelled.

| action | code |
|---|---|
| `GetNotFound`, `GetDeleting` | `Get`; the instance gate is skipped during deletion (`tenantPreamble`) |
| `InstanceGatePinned`, `InstanceGateAssume`, `InstanceGateAmbiguous` | the three outcomes of `instanceGate` |
| `ManagementGateOwner`, `ManagementGateUnstamped`, `ManagementGateStamp`, `ManagementGateForeign` | the switch of `managementGate` |
| `EnsureFinalizer`, `Ensure`, `MarkReady` | the rest of a reconcile, by its calls |
| `Cleanup`, `RemoveFinalizer` | deletion of the recorded object, then of the finalizer |
| `Fault` | a failed call or a crash at any point; the reconcile is run again |
| `Observe` | the informer catches up; only a generation change enqueues (`generationChangedPredicate`) |
| `Pin`, `Transfer`, `Delete` | a user edits the pin or the annotation, or deletes |

`Get` and what is decided on the copy alone are one step with the first write that follows. Scope resolution between the gates
and the work is left out: it may end a reconcile, as `Fault` does, or write a condition of its own.

### TenantLifecycle: state and steps

What `TenantGate` has as one step, `Ensure`, in full, for the one operator that the gates have admitted. The
controllers share a skeleton: preamble, parents, deletion, finalizer, find or create, status. They differ in details
that decide what is left behind, and `TenantKinds` has these as a record per kind, so that one specification stands for
all: gates and scope, or a binding level; which parents in which order, whether they are resolved before deletion is dealt with, which failures reach
status, whether cleanup deletes the recorded object or the one the spec names, whether a failed cleanup
blocks, how the object is looked up, and whether a renamed object is replaced.

`cr`, `cache`, `uptodate`, `obj` and `fresh` are the resource and its copies as in `TenantGate`; `refs` says what each
reference leads to (ready, a parent without an id, nothing usable), `scope` what the namespace resolves to,
`objects` what exists at Zitadel and under which key. `made` is history: what reconciles of this resource created.

| action | code |
|---|---|
| `FailClosed` | `resolveScopeAndClient` without a scope or a delegate; during deletion the binding client takes over and the reconcile goes on |
| `ParentFails`, `ParentsResolved` | `resolveScopedOrganizationId`, `resolveScopedProjectId`, the other references, `waitForRef` |
| `EnsureFinalizer` | `ensureFinalizer` |
| `RemoveReplaced`, `Find`, `Create` | `removeReplacedRole`; each kind's `ensure...`. `findAppByName` takes a failed list for one without a match and the caller creates (`oidcapp_controller.go:171`, `apiapp_controller.go:165`): that is a refused call (`Fault`, `EnsureFails`) where the name is taken, as Zitadel has one application of a name in a project, and `Create` where it is not |
| `Record` | `markReady`: status is written if the resource was not ready or its id is new |
| `Cleanup`, `CleanupFails`, `RemoveFinalizer` | `handleDeletion`, `handleDeletionStrict` |
| `Fault`, `EnsureFails` | a failed call or a crash; the kinds that write it to status |
| `Rebind` | the operator is started again with a credential of the other level (`checkBindingLevel`) |
| `ChangeSpec`, `Delete`, `Elsewhere` | users, other resources, scope maps, out-of-band deletion |

Abstractions: settings other than the name are left out, as every reconcile writes them again; so are roles a `Project`
lists and the requests that keep them in step. Zitadel draws ids it has not used; the model has few and takes one again once nothing
remembers it. Of the instance-level kinds:
an `ActionExecution` whose spec has no condition, which gets nothing but an error, is left out; cleaning up a Google or
GitHub provider only takes it out of the login policy, which is not in the model (`handle` is "nothing"); activating
an email or SMS provider, whose errors are only logged, is left out as well.

### Credentials: state and steps

One resource that hands out a credential, under reconciles that follow one another (a key is never reconciled twice at
once). `cr` and `secret` are what the API server has; `cache` and `secretCache` are the two informers' copies, which
lag behind each by its own; `obj` and `sobj` are the reconcile's copies, and `fresh` and `sfresh` say whether these are
the latest versions, which is all an `Update` compares. Zitadel has `owner` (the user or application), `creds` (its valid
credentials) and `grants`. `status.prev` and `status.revokeAt` are the rotation that is not finished yet. `mintedAt` is history.

| action | code |
|---|---|
| `OwnerMissing`, `Begin` | `resolveUserId`, `resolveAppId`, `waitForRef`; the start of a reconcile |
| `EnsureFinalizer`, `Cleanup`, `CleanupFails`, `RemoveFinalizer` | `ensureFinalizer`, `handleDeletion`, `handleDeletionStrict` |
| `EnsureMachineUser` | `ensureMachineUser`: the recorded user, one of its name, or a new one |
| `DropGrant`, `FailGrantTarget`, `TargetUnready`, `SyncGrant` | `ensureRoleGrant`: the removal of a grant that is no longer wanted there, `failGrantTarget` (without a project; for a named one that is not ready, or a spec that names two), `syncGrant` |
| `FinishKeyRevocation` | `ensureKey` reads the Secret, `finishPendingKeyRevocation` |
| `RevokeLost` | `ensureToken`, and `ensureKey` of an ApplicationKey: the recorded credential whose Secret is lost is revoked |
| `EnsureBundle` | `ensureBundle`, where nothing is to be minted |
| `Mint`, `CallRefused`, `StoreKey` | `AddMachineKey`, `AddPersonalAccessToken`, `AddAppKey` with `recordKeyRotation`; `writeKeyBundleSecret` |
| `Record` | `markReady`, and what counts as a change of status |
| `Fault` | a failed call or a crash; the token kinds write their status then, which carries the new id |
| `Observe`, `ObserveSecret`, `Tick` | the informers, the clock |
| `ChangeSpec`, `Delete`, `LoseSecret`, `LoseOwner`, `NewOwner`, `ScopeChanges` | users, and what others do in Zitadel or to the scope |

`ObserveSecret` and `Tick` happen between reconciles only: a reconcile reads the Secret once and the clock when it has read it,
so what arrives earlier might as well have arrived before its start. Key material, key files, the user's name and roles other
than the project they are for are left out.

### ClientSecrets: state and steps

Zitadel tells a client secret once, when the application is created or another secret is generated. `app` and `accepted` are the
application and the secret it accepts; `secret` is the output Secret, `cache` the informer's copy and `uptodate` whether that is the
latest; `drawn` is a secret in the reconcile's hands. `due` says that a request waits in the queue and is taken at once; one that comes
back by `RequeueAfter` comes after minutes, when the informer has caught up. `lost` is history: a drawn secret was dropped while
the Secret held another.

| action | code |
|---|---|
| `Find`, `FindFails` | `findAppByName`; an error counts as none found |
| `Create` | `createOIDCApp`, `createAPIApp`; refused if the name is taken |
| `Adopt` | `regenerateAdoptedClientSecret`: unless the cached Secret holds a client secret, another is generated |
| `Store`, `StoreClientId` | `ensureSecret`, `ensureSecretClientID` |
| `Record` | `updateStatusIfNeeded` |
| `Fault`, `Crash` | a failed call, a restart with full caches |
| `Observe`, `Around` | the informer; an edit, the application deleted or renamed away, the Secret deleted or another one named |

Application names are unique in a project, as Zitadel has it (assumption). A resource that is deleted and made again
finds the application gone and its Secret still there, as the Secret has no owner reference: `Around` covers that, as it
covers a renamed application or Secret. A change of the authentication method is left out.

### Singletons: state and steps

The resources of one Default kind, reconciled one at a time on copies from one informer cache, which shows what the API server
had at some earlier moment. `live` is what Zitadel has in force for each slot (one slot, but for message texts, which have one
for each type and language), `draft` what a staged kind wrote and did not activate yet, `linked` whether the identity provider a login
policy lists is in it. The kinds are records, as in `TenantKinds`.

| action | code |
|---|---|
| `Begin`, `ReportUnsupported` | `Get`, `checkBindingLevel` |
| `CheckConflict` | `checkSingletonConflict`, and the loop that `DefaultMessageText` has instead |
| `EnsureFinalizer`, `Cleanup`, `CleanupFails`, `RemoveFinalizer` | `ensureFinalizer`, `handleSingletonDeletion`, `shouldResetOnDelete` |
| `WaitForIdp`, `Unparsable` | `resolveIdpRefs`, `parseDurationOrDefault` |
| `Apply`, `Activate`, `SyncIdps`, `MarkReady` | the comparison and the update, `ActivateLabelPolicy`, `syncIdps`, `markReady` |
| `Fault`, `Rebind` | a failed call or a crash; a restart with a credential of the other level |
| `Observe`, `Tick`, `Create`, `Delete`, `ChangeSpec`, `Drift`, `IdpReady`, `IdpGone` | the informer, the clock, users, and others who change the settings |

Settings are two representatives, one of them (`main`) the one with a peculiarity of the kind; `Plain` is a kind without any.
An `Update` is accepted if the copy's content is the latest, as a copy with the same content might have been read now. Time
passes only between two creations, where it matters. Zitadel accepts an unchanged draft of a label policy again, as the code
assumes. An error of `List` that `DefaultMessageText` ignores (`defaultmessagetext_controller.go:86`) is left out: it is a check that found nobody, and would be a second way to the two
managers that the tie below leads to; so is the old text a message text leaves behind when its type or language changes.

### Runs

Each run asks one question of one model; the number of distinct states tells how far it gets.

| run | states | what it shows |
|---|---|---|
| `rotation` | 2.5 M | two workers, a grace of two ticks, four ticks in all: two rotations and the retirement of the first old key, with a crash, a failed call, the user and the Secret deleted out of band, once each, anywhere. The Secret hands out its keys as `KeyHandover` has it (`Handover`); a key in use works for the grace (`LeaseKeyLive`); no key without membership (`NoUngrantedKey`); no delegate handed out that was dead when the process started (`NoDeadLease`) |
| `live` | 209 k | fairness, a failed call, a deleted user, a map change, after a first start's empty warm-up: orphans with a Secret go (`TrackedOrphansRevoked`), rotated-out keys go (`OldKeyRetired`), a Secret is deleted only once its user is gone (`SecretOutlivesUser`); no delegate is revoked whose scope a namespace has, unless that changed behind this sweep's back (`OnlyUnmatchedRevoked`) |
| `warm_race` | - | violation, with a crash and an out-of-band deletion: the restarted operator lists the Secret of user 1, which someone deletes; an `Ensure` mints user 2 and stores it; `WarmFromSecrets` puts the listed entry over the new one; the next `Ensure` validates user 1, and `validateLocked` drops the Secret, that of user 2 |
| `scopes` | 1.4 M | two maps: pinned ones with exceptions before selectors or an invalid rule, one by name, one of a foreign instance, under an org-owner binding; two creations, one edit (spec, label or organization) and one failure (call or process): delegates are for scopes that a version of a map states, in its organization (`GrantedAsStated`), a status vouches only for its generation (`ObservedReadyIsValid`), an undisturbed sweep keeps every pinned scope (`PinnedScopesKept`) |
| `converge` | 173 k | fairness, a GC loop beside the controller, a map by name or pinned, one edit, one deletion, one failure: unmatched delegates go for good (`UnmatchedRevoked`), statuses tell of the present spec and organization (`StatusConverges`) |
| `unparsable` | - | violation: one map's selector that does not parse takes another map's delegates away |
| `dual_served` | 333 k | operators of two instances, one edit and one failure anywhere: one of them works at most and the object is on one instance (`OneManager`); no stamp is replaced by an operator (`StampKept`), and finalizers are removed only by the manager of the moment (`FinalizerGoesByManager`); an unpinned resource ends with none working (`FailsClosed`), a pinned one is served unless its stamp names the other instance's operator (`PinnedIsServed`), a deleted one goes (`DeletionCompletes`) |
| `any_kind` | 1.9 M | a resource of any of the 30 kinds, two edits of it or around it, one failure: nothing is made without a finalizer to clean it up (`MadeUnderFinalizer`), nor twice under one name by a kind that looks names up (`OneObject`); a resource goes only after the object in its latest status (`RecordedIsCleaned`) or of its latest name (`NothingLeft`), unless its kind goes on after a failed cleanup |
| `completes` | 165 k | seven kinds, one for each way to find, to wait and to delete, fairness: a deleted resource whose parents can be had goes (`DeletionCompletes`), one that can be served is, again after its object was deleted, under its current id (`Converges`) |
| `served` | 191 k | a MachineUser, token or application key, one mishap anywhere, fairness: the bundle hands out its keys as `KeyHandover` has it (`Handover`); no key is revoked before the grace since its successor was minted (`GraceKept`); a resource goes only after the credential in its latest status, unless that very reconcile failed to delete it and the kind goes on (`RecordedIsRevoked`); the rotated-out key is revoked (`RotatedOutRevoked`); a credential is delivered (`Delivered`) and the roles are granted where they are wanted (`RolesGranted`) |
| `output` | 6 k | three mishaps anywhere, a Secret from before: Zitadel accepts the client secret in the Secret (`StoredSecretWorks`), and it gets there (`OutputDelivered`) |
| `singletons` | 310 k | two resources of every Default kind, one edit, one failure or restart under another binding: none writes while an older one lives (`YoungerNeverWrites`) or without a finalizer (`WritesUnderFinalizer`); what the manager asks for is in force for good (`Served`), deleted ones go (`DeletionCompletes`) |

### Bounds, and what the code limits

**Delegation.** Adverse events are bounded by `Budget`, by kind: `fault` (a failed call), `crash`, `edit` (a namespace's
scope changes), `user` and `secret` (out-of-band deletions). Other bounds: `MaxTime` ticks (a rotation is due
after `RotateAfter` = 2, `Grace` = 1 unless stated), `MaxUser` and `MaxKey` fresh ids. An `Ensure` that could run out of ids
does not start, so a bound never cuts an operation in half.
One worker and one scope suffice for most of it: the mutex serialises workers, scopes share nothing but
the mutex and the sweep, and the interesting partners of an `Ensure` are a sweep, the warm-up, the informer,
the clock and a crash. Two workers (interchangeable, hence a symmetry set) are used where one holds what
another replaces (`rotation`), two sweepers where a sweep is to overlap a warm-up (`warm_race`). `rotation` has no change of maps,
`live` has one, before, during or after any sweep. The proofs cover any number of each and any changes.

* `OnlyUnmatchedRevoked` leaves out one case, which the code allows: a namespace gets the scope after this sweep has resolved it (`gc.go:41-57`) and
  before the sweep has the mutex (`manager.go:397`). The scope is then revoked although it resolves again; the delegate is minted
  anew at the next use, but clients in use stop working. An edit before the sweep, or before it gets to that namespace, excuses nothing.
* `NoDeadLease` is about delegates that were gone when the process started. One whose user goes after its validation is handed out
  until a restart, as a validated entry is not looked at again (`manager.go:168`).
* `SecretOutlivesUser` is about runs without a failing call. If the answer of `persistSecret`'s Create is lost, the Secret
  exists and the informer does not show it yet, the retry mints for the user anew, and a sweep's copy from before that can delete the
  Secret of a living user. Nor may a Secret be made while `WarmFromSecrets` runs (`warm_race`); apart from these two it is a theorem.
* Not every living user is named by a Secret, and no property says so. Beside a crash or a failed call in a mint, a race leads there: a sweep revokes a
  scope by its list while the scope has come back and been minted for, and the informer does not show its new Secret yet. `revokeLocked` removes the new
  user and, finding no Secret (`manager.go:357`), leaves the new one. If the informer is still behind at the next `Ensure`, that mints another user, whose
  Secret is refused as existing. The next mint for the scope finds this user by name; if the scope goes unmatched first, nothing does.
* If the `Update` of a rotation takes effect but answers with an error, or `buildDelegate` fails after it
  (`manager.go:291-300`), the cache keeps the replaced delegate, and the retry records that delegate's key as
  old a second time; the key in between stays valid and unrecorded until its user goes. `Handover` and `OldKeyRetired` hold all the same.

**ScopeMaps.** A map is reconciled alone and two are enough for a conflict; every rule list has at most two rules, enough
for an exception that hides a later rule and for an invalid rule before a valid one. One namespace with and
without a label goes through all outcomes of `Resolve`; a second one adds only another element to the live set. `scopes`
leaves out the GC loop, which does what the controller's sweep does, and which `converge` has. Maps and organization
names are interchangeable there (symmetry).

* A map by name may be served with an organization that its present version does not mean: `Resolve` takes `status.resolvedOrganizationId` and does not
  look at the generation it was resolved for (`resolver.go:196`), so between an edit of name and project and its reconcile the new project is
  joined to the old organization. `GrantedAsStated` says how far this goes: to an organization that an earlier version of the same map has meant, and never for a pinned version.
* `PinnedScopesKept` speaks of pinned maps. For a map by name, a failed lookup (`scopemap_controller.go:126-138`)
  clears `status.resolvedOrganizationId`, `Resolve` answers "not ready", and the sweep that ends the same
  reconcile revokes the delegates of a map that was in use.
* `ObservedReadyIsValid` needs maps that are not created anew under their name during a reconcile. `applyStatus`
  goes by name without uid, and a new map starts at generation 1 again, so it receives the verdict on its
  predecessor until its own reconcile.
* A map of another organization under an org-owner binding is unready, yet `Resolve` looks at the organization
  and not at readiness, so it still resolves; it is Zitadel that refuses the delegate (`TenantEnsure`).

**TenantGate.** Two operators are the race; the proofs cover any number. A pin, a transfer or a deletion each cost
one edit; two edits give no new order of gates, only more states. The run has operators of two instances, for which the gate exists.
Two deployments of one instance differ only in what the stamp decides, and that is proved for any operators
(`Exclusion`, `StampIsKept`, `FinalizerIsGuarded`).

`PinnedIsServed` excepts a resource that carries another instance's stamp: `managementGate` compares stamps across
instances, so a stamped resource that is pinned anew is left alone by the old operator for its pin and by the new one
for its stamp, until a user edits the annotation (`docs/operations/dual-serving.md:53` has the new operator adopt it).

**TenantLifecycle.** Two edits are the shortest way to most of what can go wrong: a rename or an out-of-band
deletion, and then a deletion in the middle of what follows. Two ids are what a duplicate needs, two names what a rename needs; `completes` has
one name, and leaves renames to `any_kind`.

* `DeletionCompletes` asks for a spec that is valid: an EmailProvider or SmsProvider whose spec is not is refused before its deletion is
  looked at (`emailprovider_controller.go:47`). It asks for parents that can be had, too. The scope is not needed during deletion, but parents are resolved
  before deletion is looked at, and `resolveScopedOrganizationId` has no other source for an organization the spec
  omits: once the scope map is gone, the resource stays in Terminating, although
  `docs/architecture/scope-resolution.md:81` says that "cleanup always completes". Only `ProjectRole`, and kinds that recall their project from
  status, do without.
* `NothingLeft` and `RecordedIsCleaned` except failed cleanups of the kinds that use `handleDeletion`; their objects
  stay, which `docs/TEST-SCENARIOS.md:350` (S-121) excludes.
* `RecordedIsCleaned` speaks of the latest status. A reconcile that fails on an older copy writes that copy's whole status
  (`applyStatus`), and may so erase an id recorded since; the next one finds the object by name again, unless the resource is deleted first.
* `Served` looks at `status.ready`. `waitForRef` sets the `Ready` condition to False and leaves `status.ready`, so
  `markReady` sees nothing to write once the parent is back: the condition stays False.
* `OneObject` excepts kinds that look for nothing but the recorded id (identity, email and SMS providers, `ProjectGrant`): an object
  whose id was not recorded is made again.

**Credentials.** Four ids are an owner, a key, its successor and one more; a key is due for rotation at once (`RotateAfter` = 0) and
its grace is one tick, the clock's whole range. One mishap (an edit, an out-of-band deletion, a failed call) goes through every
step of the reconcile; the proofs have any number. Where the ids run out (`Starved`), the liveness properties ask for nothing.

* A key outlives its user in the Secret. When the user is deleted and made again, `ensureKey` (`machineuser_controller.go:265`) sees a key and mints
  none, so the bundle has a dead key and the resource is ready, although `:245` says that a consumer can construct a working client from the
  Secret alone. `Handover` speaks of keys that are younger than the user, `Delivered` of a Secret that has one. The same is so of a token whose Secret
  comes from a stale copy: a revoked one is kept.
* A status that is written from a stale copy may erase `status.keyId`, or the rotation that is not finished; the key it named is then never
  revoked while the user lives, nor is one whose id a failure kept from status. A rotation on a stale status is done twice, and the key in between is lost in the same way. A grant on the
  project that the roles were for before may stay likewise. `RotatedOutRevoked` and `RecordedIsRevoked` are about what the status names.

**ClientSecrets.** Three mishaps suffice for two losses and a retry; eight ids are more than such a run can draw.

* A reconcile that is retried before the informer shows the Secret generates another client secret, its Create is refused, and the next pass
  keeps the one that is stored, which Zitadel accepts no more.
* A Secret left over from an earlier application keeps that application's client secret, and gets the new client id, if the new secret is lost
  before it is stored.

Both are `lost`: nothing the operator keeps tells which secret is the right one. The documents have the secret regenerated exactly once
(`docs/architecture/resource-hierarchy.md:108`, `docs/TEST-SCENARIOS.md:728`, `docs/operations/troubleshooting.md:103`). The properties show that
nothing else leads there.

**Singletons.** Two resources, created in the same second or in two, one asking for either setting. What each asks for first
(`Asks`), which of them resets on deletion (`Annotated`) and what others set (`Drifts`) are fixed to keep the states few; which of them is
older is not. An identity provider matters only when a resource lists it. The run leaves out the kinds without any peculiarity,
as `DefaultOIDCSettings` with durations that parse is one.

* `DefaultMessageText` breaks no ties (`defaultmessagetext_controller.go:96`), although `docs/architecture/resource-hierarchy.md:95` says they are broken: two texts for one
  slot from the same second both write, in turn. The properties except that pair.
* `DefaultLoginPolicy` never compares its lifetimes, although `defaultloginpolicy_types.go:108` says that all fields are; `Served` excepts them (`blind`).
* A deleted resource that is not the oldest waits for the older one, as the conflict is looked for before deletion; `DeletionCompletes` says so.

Deadlock is checked in the runs of `Delegation` and `ScopeMaps`: the operator may always go on. It is not in the others,
where a resource that is gone, or served, leaves nothing to do.

### Fairness

`FairSpec` asks for weak fairness of the operator's own steps (a goroutine is scheduled, a call returns), of the
informer and of the cache sync, and strong fairness of taking the mutex: Go's `sync.Mutex` hands the lock to a
waiter that has waited too long. Nothing is assumed of the clock, of tenants, or of failing calls beyond their
budget. `RotateAfter` and the GC interval are time-driven; a sweep may start whenever the sweeper is idle, and
fairness makes it start again and again, as the ticker does.

In `ScopeMaps`, weak fairness covers the informers, the calls under way, each sweeper's steps and
`TenantEnsure`; reconciling a map that is in the queue is strongly fair, because the workqueue is first in, first
out and its single worker returns to it. A sweep of the GC loop starts again and again, as its ticker
does. Tenants and administrators owe nothing. `UnmatchedRevoked` relies on the GC loop for a relabelled namespace: the
predicate drops label events, although `docs/architecture/delegation.md:38` speaks of an eager sweep.

In `TenantGate` and `TenantLifecycle` each operator's reconcile and its informer are weakly fair: the queue hands out a requeued key, a
call returns, a watch delivers. Users owe nothing; failures are bounded.

In `Credentials` and `ClientSecrets`, too, a reconcile goes on and the informers catch up (weak fairness). In `Credentials` the Secret's informer
and the clock get their turn between reconciles only, which is the model's restriction and not theirs, so fairness for them is strong.
`Singletons` takes every resource up again and again (strong fairness of `Begin`), as each is queued for its next pass and the queue is first
in, first out.

### Proofs

Each holds for all values of the constants that satisfy the module's assumption, and follows one pattern: an inductive invariant, one
lemma for each action, and a last step in temporal logic.

`DelegationProofs` proves, for every number of scopes, namespaces, workers and sweepers and all bounds
(assumption `ConstantsAssumption`: the sets are disjoint where they must be, numbers are naturals, `None` is
none of the records):

* `TypeCorrect`: `Spec => []TypeOK`;
* `PersistedKeysLive`: `Spec => []PersistedKeyLive`;
* `KeysGranted`: `Spec => []NoUngrantedKey`;
* `Inductive`: `Spec => []IInv`, from which the three follow.

Neither safety property is inductive alone. A key could be removed because *some* stale copy of the Secret,
in the informer or in a sweep's list, has it as its old key; `OldNotCurrent` says no copy does, and stays true
because keys are fresh (`FreshOK`) and because a key that is added but not yet in the Secret is in no copy
either (`PendingOK`). A key could be added for a user without membership through a cache entry, an old Secret or
a half-finished mint; `KnownGranted` and `PendingGranted` say that whoever knows a user as a delegate knows one with
its membership. `ControlOK` ties the steps to the mutex. Each action has one lemma; lemmas before them
cover how a call of `Ensure` ends and how a sweep moves on.

`DelegationHandoverProofs` proves, on the same terms:

* `Implements`: `Spec => Handover`, and `HeldStaysValid`: in the abstract specification the key that is handed out is valid as long as its
  owner is there;
* `LeasesLive`: `Spec => []LeaseKeyLive`; `NoDeadLeases`: `Spec => []NoDeadLease`;
* `OnlyOrphansRevoked`: `Spec => OnlyUnmatchedRevoked`;
* `SecretsOutliveUsers`: `Spec /\ WarmsAlone => SecretOutlivesUser`.

`Implements` says that each step, failures and crashes included, issues one key, hands a valid one out, retires another than the one handed out,
withdraws, loses the owner, or does nothing to it (`CredentialsProofs` has the same of the other program). It needs `UsersAge`: the users of a
scope come one after the other, and no copy of the Secret names a younger one than there is. Without it a rotation could write the key of one
user over a Secret that names another, and the abstract step would hand out a key that is not valid.

A lease may be for a key that no Secret names any more. What saves it is `LeaseInv`: all copies agree on how old a key is (`KeysAge`), a key is
recorded as rotated out only when it was due, a due key is not handed out again, and the copy that has a lease's key as its old one has a
`revokeAt` no earlier than the lease's grace (`LeaseAt`). A key that was added and is not yet persisted is in no copy at all (`NewKeyAt`).
`DeadInv` says that a user once gone stays gone, as ids are fresh, and that nobody mints or rotates for one that was gone at the start;
validation before the first use does the rest. `LiveInv` says what a sweep's live set holds while it is collected: every scope of the namespaces it has
resolved, but for those edited since (`edited`), and that what it revokes is not in it.

`SecretOutlivesUser` is false in general: `warm_race` refutes it, and so does a lost answer (Bounds). `SecretsOutliveUsers` shows that these two are
all: until a call fails, and if no Secret is made while `WarmFromSecrets` runs (`WarmsAlone`), it holds through crashes, out-of-band deletions and
whatever the informer lags behind. `TrackInv` says that as long as the Secret names the living user, so does what the operator goes by: the cache
entry, else the informer's copy, else what the warm-up has still to put into the cache; a revocation under way has that user's id and its
organization.

`ScopeMapsProofs` proves, for every number of maps, namespaces, organizations, rules, tenants and GC loops
(`ResolutionAssumption`, `ScopeMapsAssumption`: `None` is no id, name or record, specs are well-formed):

* `TypeCorrect`: `Spec => []TypeOK`;
* `Grants`: `Spec => []GrantedAsStated`;
* `ReadyIsValid`: `Spec => [](NothingDeleted => ObservedReadyIsValid)`;
* `PinnedSurvive`: if every selector parses (`AllParse`), `Spec => PinnedScopesKept`.

A tenant may act on a version of the map that no longer exists, and a status may be of yet another version, so the invariant speaks of copies: the
spec in the map, in the cached map and in the reconciler's hands is one that the map has had, and the organization beside it one that some version of
the map has meant (`OnRecord`, `Recorded`); what a tenant asks for is stated by a version of one map (`Stated`). An organization that is renamed or looked up late is on record
from the moment it had the name, and the record only grows (`Grows`, `StaysOnRecord`). `ScopeFromMap` is the fact about `Resolve` behind both: a scope comes from one
existing map of this instance and from one valid rule of it.

A reconcile that works on a stale copy writes its verdict by name, with the generation it has seen. `VersionsInv` says that a copy is of an earlier
generation of the map or of its present spec, and `VerdictInv` that what a reconcile is about to write is the verdict on the spec it read. This is so until a
map is deleted: one that is made again under its name begins with generation 1 anew, and a reconcile of the deleted one may write over it
(`NothingDeleted` is needed: TLC refutes the property without).

`PinnedScopesKept` is about sweeps that nothing disturbed. `QuietInv` says that such a sweep sees the present maps and labels, has in its live set the
pinned scope of every namespace it has resolved, and has none of them to revoke. Behind it is `ResolvesPinned`, a fact about `Resolve`: where
all selectors parse, the first rule that matches decides (`DecidesAtFirst`), and a pinned organization needs no lookup. A selector that does not parse makes
it false, which is finding 2.

`TenantGateProofs` proves, for any operators, instances and bounds (`GateAssumption`: `None` and the two sets are disjoint):

* `TypeCorrect`: `Spec => []TypeOK`;
* `FreshCopiesInvariant`: a copy with the latest resourceVersion has the resource's annotation and finalizer;
* `StampIsKept`: `Spec => StampKept`; `FinalizerIsGuarded`: `Spec => FinalizerGoesByManager`;
* `Exclusion`: `Spec => []OneManager`.

All of it rests on `FreshCopies`: an operator decides on a copy that may be old, and what makes its decision hold when
it writes is that the `Update` carries the copy's resourceVersion. The two action properties follow from it step by
step (`StepFresh`, `MetadataRule`). `OneManager` needs the strengthening `SoleManager`: without transfers the
resource has one manager in its whole life, so every copy, however stale, names that one or none, and who works is
named by the resource itself.

`TenantLifecycleProofs` proves, for each of the 30 kinds, any keys, ids and bounds (`LifecycleAssumption`: `None` is no
key and no id):

* `TypeCorrect`: `Spec => []TypeOK`;
* `NeverTwoObjects`: `Spec => []OneObject`; `NothingIsLeft`: `Spec => []NothingLeft`;
* `MadeOnlyUnderFinalizer`: `Spec => MadeUnderFinalizer`; `ReleaseIsOfCleaned`: `Spec => RecordedIsCleaned`.

`Ordered` says what a copy tells however old it is: a deletion is never undone, and a finalizer seen on a resource that
was not being deleted is still there, as only a reconcile of a later copy takes it off. Creation therefore happens under a finalizer, and
a resource deleted without one has made nothing (`Unmade`). `Cleaned` carries the result of a cleanup to the
removal of the finalizer: nothing is created meanwhile, and the `Update` is refused unless the copy it cleaned up by
is the latest. For the kinds that clean up by the spec this needs `NoIdKept`, and duplicates are excluded because a lookup by
key that returns nothing is complete (`CandidatesComplete`).

`CredentialsProofs` proves, for any kinds, projects, specs and bounds (`CredentialsAssumption`):

* `Inductive`: `Spec => []CInv`, with `TypeCorrect`; `Implements`: `Spec => Handover`;
* `GraceIsKept`: `Spec => GraceKept`; `LetGoRevoked`: `Spec => RecordedIsRevoked`.

A reconcile revokes by a status and rotates by a Secret that may be of different ages. What saves the key in the Secret is that no status,
however old, names it as the one that was rotated out (`RotationOK`): its id becomes "previous" only in the copy of the reconcile that
replaces it, and the Secret's `Update` is refused unless the copy it was decided on is the latest (`CopiesOK`). Ids only grow (`IdsDrawn`), so a
status that was written before a key was drawn cannot name it.

`ClientSecretsProofs` proves `Inductive` and `StoredSecretsWork` (`Spec => []StoredSecretWorks`), for any bounds (`ClientSecretsAssumption`). A secret in a reconcile's
hands is the accepted one until it is stored (`InHand`); a copy that is the latest equals the Secret (`CopyOK`), so what is
refused is what would have overwritten a newer one.

`SingletonsProofs` proves, for any kinds, resources, specs and bounds (`SingletonsAssumption`):

* `Inductive`: `Spec => []IInv`, with type correctness;
* `EldersWrite`: `Spec => YoungerNeverWrites`; `FinalizerFirst`: `Spec => WritesUnderFinalizer`.

Who manages a setting is decided on a cached list. The cache shows what the API server had at one earlier moment, and that is what makes the
decision right: a copy is an earlier version of the resource or of one that is gone (`Old`), and whoever sees a resource sees every older one that still
exists (`SeesOlder`). So none is past the check while an older one lives (`ElderInv`), but for an edit that moves a text to another slot. A copy
that has a finalizer and is not being deleted is of a resource that is still there (`Held`), as only the reconcile of a deleted copy takes finalizers off.

Only model-checked: everything under fairness, as liveness and ENABLED are beyond TLAPS' backends here. Of the safety properties that runs check,
all are theorems; three hold under a hypothesis only, each with the reason above: `ObservedReadyIsValid` (no map deleted), `PinnedScopesKept` (selectors that parse), `SecretOutlivesUser` (no Secret made beside the warm-up).
`TypeOK` of `TenantGate` and of `TenantLifecycle` is proved and not among the properties of a run.

## Findings

Each is a run of kind "violation"; `PROJECT.json` quotes the line of code and the line of documentation.

1. `WarmFromSecrets` runs beside the controllers and may replace a fresh entry by a listed one (`warm_race`).
2. An unparsable selector passes the map's validation, makes `Resolve` fail for every namespace that gets to it, and
   the sweep counts that as "no scope" (`unparsable`): the delegates of other maps are revoked.

The models also follow the code where it departs from its documents without a run of its own: a rotated delegate is
cached without its `OrgID` (`Rotated`, `manager.go:295`), so for a scope outside the binding's organization the next
rotation fails until a restart; and what "Bounds, and what the code limits" lists.

## Plan

Done: `Delegation` with its GC; the resolver and `ScopeMaps`; `TenantGate`; `TenantKinds` and `TenantLifecycle`, extended to the instance-level kinds;
`KeyHandover`, the abstract promise of a rotation, and the proofs that `Delegation` and `Credentials` implement it; `Credentials`;
`ClientSecrets`; `Singletons`; a theorem for each safety property of a run. What is left, in order:

1. What the liveness properties rest on, as far as it is safety: a rotated-out key stays recorded until it is revoked, an orphan with a Secret stays
   in the sweeps' lists, a deleted resource keeps its finalizer until its parents are had.
2. The roles a `Project` lists, which `syncRoles` takes for all there are, beside `ProjectRole` resources of the same project.
3. The composition of resolver and delegation: `ScopeMaps` with the calls of `Delegation`, or a proof that the one step `TenantEnsure` has for them is
   what the calls amount to.

## Not modelled

* The list of roles of a `Project` (item 2 of the plan); the roles of grants and members are plain data.
* The activation of an email or SMS provider, whose errors are only logged.
* Connection set-up and the verification of the binding at start-up (`internal/zitadel`): one check of a credential, around an SDK.
* Configuration, API types and generated code, the chart: no state that changes.
* Flags, metrics and leader election itself: a single active process is assumed, as controller-runtime's election provides.
* Wording and Events; settings, but for those of `Singletons`, as a reconcile writes them again each time.
