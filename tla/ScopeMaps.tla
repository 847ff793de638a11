------------------------------ MODULE ScopeMaps ------------------------------
(***************************************************************************)
(* The ScopeMap controller (internal/controller/scopemap_controller.go)    *)
(* and the two users of the resolver: the sweeps that revoke delegates     *)
(* (internal/delegation/gc.go) and the tenants' reconcilers that ask for   *)
(* one (scope_resolution.go). Administrators edit maps and labels while    *)
(* the operator sees both through informers that lag.                      *)
(*                                                                         *)
(* A delegate is its scope here: how Ensure mints it and how a sweep       *)
(* revokes it, call by call, is in Delegation.                             *)
(***************************************************************************)
EXTENDS ScopeResolution, FiniteSets

CONSTANTS
  Specs,        \* the map specs administrators may apply
  Labelings,    \* the label sets a namespace may carry
  BoundOrg,     \* organization of an org-owner binding; None for iam-owner
  Tenants,      \* reconciler goroutines of tenant kinds
  Loops,        \* periodic GC loops: the leader's
  Budget        \* how often each adverse event may happen, by kind

\* create: a map; edit: a spec, a namespace or an organization; delete: a map;
\* failure: of a call or of the process.
Adversities == {"create", "edit", "delete", "failure"}
Sweepers == {"mapController"} \cup Loops

ASSUME ScopeMapsAssumption ==
  /\ Specs \subseteq ScopeMapSpec
  /\ Labelings \subseteq SUBSET Labels
  /\ "mapController" \notin Loops
  /\ BoundOrg \in Orgs \cup {None}
  /\ Budget \in [Adversities -> Nat]

VARIABLES
  budget,
  \* Kubernetes: ScopeMaps in the operator's namespace, and namespaces' labels
  map, labels,
  \* Zitadel
  orgName,      \* organization id -> its name, or None when there is no such organization
  delegates,    \* scopes that have a delegate
  \* the operator process
  listed,       \* the informer caches have been filled
  synced,       \* the resolver's Synced flag
  seenMap, seenLabels,   \* map and labels as the caches show them
  queue,        \* maps with a reconcile request, or one due by RequeueAfter
  pc,           \* sweeper -> where it is
  cr,           \* the map controller's copy of the map it reconciles, and its verdict
  live, left, doomed,    \* sweeper -> live set, namespaces to resolve, scopes to revoke
  asked,        \* tenant -> the scope Resolve gave it and Ensure is to serve, or None
  \* history
  versions,     \* map -> the specs it has had; a name used again goes on
  meant,        \* map -> organizations that a version of it has meant, since it was applied
  quiet         \* sweeper -> nothing it depends on has changed since its sweep began

kubernetes == <<map, labels>>
zitadel    == <<orgName, delegates>>
caches     == <<listed, synced, seenMap, seenLabels>>
sweep      == <<live, left, doomed>>
record     == <<versions, meant>>
history    == <<record, quiet>>
vars == <<budget, kubernetes, zitadel, caches, queue, pc, cr, sweep, asked, history>>

NoStatus == [ready |-> FALSE, resolved |-> None, observed |-> 0]
Unseen == [m \in Maps |-> None]
Unlabeled == [n \in Namespaces |-> None]
\* The reconciled copy: name, generation and spec read, readiness and organization found.
Copy == [name : Maps, gen : Nat, spec : ScopeMapSpec,
         ready : BOOLEAN, resolved : Orgs \cup {None}]

TypeOK ==
  /\ budget \in [Adversities -> Nat]
  /\ map \in [Maps -> ScopeMap \cup {None}]
  /\ labels \in [Namespaces -> (SUBSET Labels) \cup {None}]
  /\ orgName \in [Orgs -> OrgNames \cup {None}] /\ delegates \subseteq Scope
  /\ listed \in BOOLEAN /\ synced \in BOOLEAN
  /\ seenMap \in [Maps -> ScopeMap \cup {None}]
  /\ seenLabels \in [Namespaces -> (SUBSET Labels) \cup {None}]
  /\ queue \subseteq Maps
  /\ pc \in [Sweepers -> {"idle", "lookup", "write", "list", "resolve", "revoke"}]
  /\ cr \in Copy \cup {None}
  /\ live \in [Sweepers -> SUBSET Scope] /\ left \in [Sweepers -> SUBSET Namespaces]
  /\ doomed \in [Sweepers -> SUBSET Scope]
  /\ asked \in [Tenants -> Scope \cup {None}]
  /\ versions \in [Maps -> SUBSET ScopeMapSpec] /\ meant \in [Maps -> SUBSET Orgs]
  /\ quiet \in [Sweepers -> BOOLEAN]

Spend(kind) == budget[kind] > 0 /\ budget' = [budget EXCEPT ![kind] = @ - 1]

\* Organizations a spec may mean: the pinned id, else those with its name.
OrgsMeant(spec, names) ==
  IF spec.organizationId # None THEN {spec.organizationId}
  ELSE {o \in Orgs : spec.organization # None /\ names[o] = spec.organization}
\* History after the maps have become ms and the organizations' names os.
Record(ms, os) ==
  /\ versions' = [m \in Maps |-> versions[m] \cup {spec \in Specs : ms[m] # None /\ spec = ms[m].spec}]
  /\ meant' = [m \in Maps |-> meant[m] \cup UNION {OrgsMeant(spec, os) : spec \in versions'[m]}]
  /\ quiet' = [p \in Sweepers |-> FALSE]

Init ==
  /\ budget = Budget
  /\ map = Unseen /\ labels \in [Namespaces -> Labelings]
  /\ orgName \in [Orgs -> OrgNames] /\ \A o, q \in Orgs : orgName[o] = orgName[q] => o = q
  /\ delegates = {}
  /\ listed = FALSE /\ synced = FALSE /\ seenMap = Unseen /\ seenLabels = Unlabeled
  /\ queue = {} /\ pc = [p \in Sweepers |-> "idle"] /\ cr = None
  /\ live = [p \in Sweepers |-> {}] /\ left = [p \in Sweepers |-> {}]
  /\ doomed = [p \in Sweepers |-> {}]
  /\ asked = [t \in Tenants |-> None]
  /\ versions = [m \in Maps |-> {}] /\ meant = [m \in Maps |-> {}]
  /\ quiet = [p \in Sweepers |-> FALSE]

----------------------------------------------------------------------------
(* Administrators, Zitadel and the informers *)

NewMap(spec) == [gen |-> 1, deleting |-> FALSE, spec |-> spec, status |-> NoStatus]

CreateMap(m, spec) ==
  /\ Spend("create") /\ map[m] = None
  /\ map' = [map EXCEPT ![m] = NewMap(spec)] /\ Record(map', orgName)
  /\ UNCHANGED <<labels, zitadel, caches, queue, pc, cr, sweep, asked>>

UpdateMap(m, spec) ==
  /\ Spend("edit") /\ map[m] # None /\ map[m].spec # spec
  /\ map' = [map EXCEPT ![m].spec = spec, ![m].gen = @ + 1]
  /\ Record(map', orgName)
  /\ UNCHANGED <<labels, zitadel, caches, queue, pc, cr, sweep, asked>>

\* A map goes at once, or is marked first when somebody's finalizer holds it.
DeleteMap(m) ==
  /\ Spend("delete") /\ map[m] # None
  /\ \/ map' = [map EXCEPT ![m] = None]
     \/ /\ ~map[m].deleting
        /\ map' = [map EXCEPT ![m].deleting = TRUE, ![m].gen = @ + 1]
  /\ Record(map', orgName)
  /\ UNCHANGED <<labels, zitadel, caches, queue, pc, cr, sweep, asked>>

FinalizeMap(m) ==
  /\ map[m] # None /\ map[m].deleting
  /\ map' = [map EXCEPT ![m] = None] /\ Record(map', orgName)
  /\ UNCHANGED <<budget, labels, zitadel, caches, queue, pc, cr, sweep, asked>>

\* A namespace's labels change, or it goes (None).
Relabel(n, l) ==
  /\ Spend("edit") /\ labels[n] # l
  /\ labels' = [labels EXCEPT ![n] = l] /\ Record(map, orgName)
  /\ UNCHANGED <<map, zitadel, caches, queue, pc, cr, sweep, asked>>

\* Names of organizations are unique; None: the organization goes.
RenameOrg(o, name) ==
  /\ Spend("edit") /\ orgName[o] # None
  /\ name # None => \A q \in Orgs : orgName[q] # name
  /\ orgName' = [orgName EXCEPT ![o] = name] /\ Record(map, orgName')
  /\ UNCHANGED <<kubernetes, delegates, caches, queue, pc, cr, sweep, asked>>

\* GenerationChangedPredicate: creations, deletions and new generations enqueue.
Enqueues(old, new) ==
  \/ old = None \/ new = None
  \/ old.gen # new.gen

ObserveMap(m) ==
  /\ listed /\ seenMap[m] # map[m]
  /\ seenMap' = [seenMap EXCEPT ![m] = map[m]]
  /\ queue' = IF Enqueues(seenMap[m], map[m]) THEN queue \cup {m} ELSE queue
  /\ UNCHANGED <<budget, kubernetes, zitadel, listed, synced, seenLabels, pc, cr, sweep,
                 asked, history>>

ObserveNamespace(n) ==
  /\ listed /\ seenLabels[n] # labels[n]
  /\ seenLabels' = [seenLabels EXCEPT ![n] = labels[n]]
  /\ UNCHANGED <<budget, kubernetes, zitadel, listed, synced, seenMap, queue, pc, cr, sweep,
                 asked, history>>

\* The informers' first list: every existing map is enqueued and controllers start.
FillCaches ==
  /\ ~listed /\ listed' = TRUE
  /\ seenMap' = map /\ seenLabels' = labels
  /\ queue' = {m \in Maps : map[m] # None}
  /\ UNCHANGED <<budget, kubernetes, zitadel, synced, pc, cr, sweep, asked, history>>

\* The tracker's WaitForCacheSync returns.
Sync ==
  /\ listed /\ ~synced /\ synced' = TRUE
  /\ UNCHANGED <<budget, kubernetes, zitadel, listed, seenMap, seenLabels, queue, pc, cr,
                 sweep, asked, history>>

Crash ==
  /\ Spend("failure") /\ listed
  /\ listed' = FALSE /\ synced' = FALSE /\ seenMap' = Unseen /\ seenLabels' = Unlabeled
  /\ queue' = {} /\ pc' = [p \in Sweepers |-> "idle"] /\ cr' = None
  /\ live' = [p \in Sweepers |-> {}] /\ left' = [p \in Sweepers |-> {}]
  /\ doomed' = [p \in Sweepers |-> {}]
  /\ asked' = [t \in Tenants |-> None] /\ quiet' = [p \in Sweepers |-> FALSE]
  /\ UNCHANGED <<kubernetes, zitadel, record>>

----------------------------------------------------------------------------
(* ScopeMapReconciler.Reconcile; the controller has one worker *)

\* validateMap: instance, organization identity, every rule.
ValidateMap(spec) ==
  /\ spec.instance = Instance
  /\ spec.organization # None \/ spec.organizationId # None
  /\ \A i \in DOMAIN spec.rules : ValidateRule(spec.rules[i])

\* recordBindingContainment: an org-owner binding serves its own organization only.
Contained(org) == BoundOrg = None \/ org = BoundOrg

\* Mutant: a reconciled map is not looked at again.
RequeueNever(m) == queue \ {m}
\* RequeueAfter, or the rate limiter after an error: the request waits in the queue.
Requeue(m) == queue \cup {m}

\* A deleted map only needs the sweep; one that is being deleted, nothing yet.
Reconcile(m) ==
  /\ listed /\ m \in queue /\ pc["mapController"] = "idle"
  /\ LET o == seenMap[m] IN
       \/ /\ o = None
          /\ queue' = queue \ {m} /\ pc' = [pc EXCEPT !["mapController"] = "list"]
          /\ UNCHANGED cr
       \/ /\ o # None /\ o.deleting
          /\ queue' = queue \ {m} /\ UNCHANGED <<pc, cr>>
       \/ /\ o # None /\ ~o.deleting
          /\ LET valid == ValidateMap(o.spec) IN
               /\ cr' = [name |-> m, gen |-> o.gen, spec |-> o.spec,
                         ready |-> valid, resolved |-> o.spec.organizationId]
               /\ pc' = [pc EXCEPT !["mapController"] = IF valid THEN "lookup" ELSE "write"]
          /\ queue' = Requeue(m)
  /\ UNCHANGED <<budget, kubernetes, zitadel, caches, sweep, asked, history>>

\* resolveOrganization by id or by name, then the containment check. A failed or
\* empty lookup leaves the spec's id and an unready map.
LookupOrganization ==
  /\ pc["mapController"] = "lookup"
  /\ \/ \E o \in OrgsMeant(cr.spec, orgName) :
          /\ orgName[o] # None
          /\ cr' = [cr EXCEPT !.resolved = o, !.ready = Contained(o)]
          /\ UNCHANGED budget
     \/ /\ \/ Spend("failure")
           \/ (\A o \in OrgsMeant(cr.spec, orgName) : orgName[o] = None) /\ UNCHANGED budget
        /\ cr' = [cr EXCEPT !.ready = FALSE]
  /\ pc' = [pc EXCEPT !["mapController"] = "write"]
  /\ UNCHANGED <<kubernetes, zitadel, caches, queue, sweep, asked, history>>

\* Mutant: the verdict is stamped with the generation it finds.
VerdictForLatest ==
  [ready |-> cr.ready, resolved |-> cr.resolved, observed |-> map[cr.name].gen]
\* The status of the copy that was reconciled.
Verdict == [ready |-> cr.ready, resolved |-> cr.resolved, observed |-> cr.gen]

\* applyStatus: server-side apply by name, whatever has become of the map. The
\* sweep follows; an error (no such map, or a failed call) ends the reconcile.
WriteStatus ==
  /\ pc["mapController"] = "write" /\ cr' = None
  /\ \/ /\ map[cr.name] # None
        /\ map' = [map EXCEPT ![cr.name].status = Verdict]
        /\ \/ pc' = [pc EXCEPT !["mapController"] = "list"] /\ UNCHANGED budget
           \/ Spend("failure") /\ pc' = [pc EXCEPT !["mapController"] = "idle"]
     \/ /\ Spend("failure") \/ (map[cr.name] = None /\ UNCHANGED budget)
        /\ pc' = [pc EXCEPT !["mapController"] = "idle"] /\ UNCHANGED map
  /\ UNCHANGED <<labels, zitadel, caches, queue, sweep, asked, history>>

----------------------------------------------------------------------------
(* GC.SweepOnce, run by the map controller and by the GC loop *)

\* What the caches show is what there is, but for statuses.
Current ==
  /\ seenLabels = labels
  /\ \A m \in Maps :
       \/ seenMap[m] = None /\ map[m] = None
       \/ /\ seenMap[m] # None /\ map[m] # None
          /\ seenMap[m].gen = map[m].gen /\ seenMap[m].spec = map[m].spec

SweepOnce(p) ==
  /\ listed
  /\ pc[p] = "list" \/ (p \in Loops /\ pc[p] = "idle")
  /\ left' = [left EXCEPT ![p] = {n \in Namespaces : seenLabels[n] # None}]
  /\ live' = [live EXCEPT ![p] = {}]
  /\ pc' = [pc EXCEPT ![p] = "resolve"]
  /\ quiet' = [quiet EXCEPT ![p] = Current]
  /\ UNCHANGED <<budget, kubernetes, zitadel, caches, queue, cr, doomed, asked, record>>

\* Mutant: every resolver error aborts the sweep.
AbortsOnError(r) == ~synced \/ r.kind \notin {"scope", "passthrough"}
\* An unsynced resolver aborts the sweep; any other error means "no live scope".
Aborts(r) == ~synced

SweepResolve(p, n) ==
  /\ pc[p] = "resolve" /\ n \in left[p]
  /\ LET r == Resolve(seenMap, seenLabels, n) IN
       IF Aborts(r)
       THEN /\ pc' = [pc EXCEPT ![p] = "idle"] /\ left' = [left EXCEPT ![p] = {}]
            /\ live' = [live EXCEPT ![p] = {}] /\ quiet' = [quiet EXCEPT ![p] = FALSE]
       ELSE /\ left' = [left EXCEPT ![p] = @ \ {n}]
            /\ live' = [live EXCEPT ![p] = IF r.kind = "scope" THEN @ \cup {r.scope} ELSE @]
            /\ UNCHANGED <<pc, quiet>>
  /\ UNCHANGED <<budget, kubernetes, zitadel, caches, queue, cr, doomed, asked, record>>

\* Manager.Sweep lists the delegates and revokes those outside the live set.
SweepDelegates(p) ==
  /\ pc[p] = "resolve" /\ left[p] = {}
  /\ doomed' = [doomed EXCEPT ![p] = delegates \ live[p]]
  /\ pc' = [pc EXCEPT ![p] = "revoke"]
  /\ UNCHANGED <<budget, kubernetes, zitadel, caches, queue, cr, live, left, asked, history>>

SweepRevoke(p, s) ==
  /\ pc[p] = "revoke" /\ s \in doomed[p]
  /\ doomed' = [doomed EXCEPT ![p] = @ \ {s}]
  /\ delegates' = delegates \ {s}
  /\ UNCHANGED <<budget, kubernetes, orgName, caches, queue, pc, cr, live, left, asked, history>>

\* A sweep ends; what a failed call left over is for the next one.
SweepEnd(p) ==
  /\ pc[p] = "revoke"
  /\ \/ doomed[p] = {} /\ UNCHANGED budget
     \/ doomed[p] # {} /\ Spend("failure")
  /\ pc' = [pc EXCEPT ![p] = "idle"]
  /\ doomed' = [doomed EXCEPT ![p] = {}] /\ live' = [live EXCEPT ![p] = {}]
  /\ quiet' = [quiet EXCEPT ![p] = FALSE]
  /\ UNCHANGED <<kubernetes, zitadel, caches, queue, cr, left, asked, record>>

----------------------------------------------------------------------------
(* resolveScopeAndClient in a tenant's reconciler *)

\* Only a resolved scope goes on to Ensure: every error fails closed, and without
\* any map the binding client serves.
TenantResolve(t, n) ==
  /\ synced /\ asked[t] = None
  /\ LET r == Resolve(seenMap, seenLabels, n) IN
       /\ r.kind = "scope" /\ asked' = [asked EXCEPT ![t] = r.scope]
  /\ UNCHANGED <<budget, kubernetes, zitadel, caches, queue, pc, cr, sweep, history>>

\* An org-owner credential cannot mint outside its own organization: Ensure is denied.
TenantEnsure(t) ==
  /\ asked[t] # None
  /\ \/ Contained(asked[t].org) /\ delegates' = delegates \cup {asked[t]} /\ UNCHANGED budget
     \/ ~Contained(asked[t].org) /\ UNCHANGED <<delegates, budget>>
     \/ Spend("failure") /\ UNCHANGED delegates
  /\ asked' = [asked EXCEPT ![t] = None]
  /\ UNCHANGED <<kubernetes, orgName, caches, queue, pc, cr, sweep, history>>

----------------------------------------------------------------------------
Administration ==
  \/ \E m \in Maps, spec \in Specs : CreateMap(m, spec) \/ UpdateMap(m, spec)
  \/ \E m \in Maps : DeleteMap(m) \/ FinalizeMap(m)
  \/ \E n \in Namespaces, l \in Labelings \cup {None} : Relabel(n, l)
  \/ \E o \in Orgs, name \in OrgNames \cup {None} : RenameOrg(o, name)

Informers ==
  \/ FillCaches \/ Sync
  \/ \E m \in Maps : ObserveMap(m)
  \/ \E n \in Namespaces : ObserveNamespace(n)

ReconcileStep == (\E m \in Maps : Reconcile(m)) \/ LookupOrganization \/ WriteStatus

SweepStep(p) ==
  \/ SweepOnce(p) \/ SweepDelegates(p) \/ SweepEnd(p)
  \/ \E n \in Namespaces : SweepResolve(p, n)
  \/ \E s \in Scope : SweepRevoke(p, s)

Next ==
  \/ Administration \/ Informers \/ Crash \/ ReconcileStep
  \/ \E p \in Sweepers : SweepStep(p)
  \/ \E t \in Tenants : TenantEnsure(t) \/ \E n \in Namespaces : TenantResolve(t, n)

Spec == Init /\ [][Next]_vars

\* The operator's goroutines run, watch events arrive, the GC ticks and no request
\* waits in the queue for ever. Nothing is owed by administrators or tenants.
Fairness ==
  /\ WF_vars(FillCaches) /\ WF_vars(Sync)
  /\ \A m \in Maps : WF_vars(ObserveMap(m)) /\ SF_vars(Reconcile(m))
  /\ \A n \in Namespaces : WF_vars(ObserveNamespace(n))
  /\ WF_vars(LookupOrganization) /\ WF_vars(WriteStatus)
  /\ \A p \in Sweepers : WF_vars(SweepStep(p))
  /\ \A t \in Tenants : WF_vars(TenantEnsure(t))

FairSpec == Spec /\ Fairness

----------------------------------------------------------------------------
(* Properties *)

\* A delegate is minted only for the project of a valid rule in a version of some map and,
\* where that version is pinned, for its own organization, whatever status the map still has
\* from an earlier one. A version by name is served with what the status holds, which need not
\* be its own: Resolve does not look at the observed generation. But it is an organization
\* that a version of the same map has meant, never another map's.
Served(m, spec) == IF spec.organizationId # None THEN {spec.organizationId} ELSE meant[m]
Stated(s) ==
  \E m \in Maps : \E spec \in versions[m] :
    /\ spec.instance = Instance /\ s.org \in Served(m, spec)
    /\ \E i \in DOMAIN spec.rules :
         ValidateRule(spec.rules[i]) /\ s.project = spec.rules[i].project
GrantedAsStated == \A s \in delegates : Stated(s)

\* A status vouches only for the generation it was computed from: an edit that
\* overtakes a reconcile leaves the map unobserved.
Vouched(o) ==
  /\ ValidateMap(o.spec) /\ o.status.resolved # None /\ Contained(o.status.resolved)
  /\ o.spec.organizationId # None => o.status.resolved = o.spec.organizationId
ObservedReadyIsValid ==
  \A m \in Maps : map[m] # None /\ map[m].status.observed = map[m].gen /\ map[m].status.ready
                    => Vouched(map[m])

\* The scopes the maps mean, independently of the resolver: a namespace belongs to the
\* map, pinned to an organization of this instance, that alone has a matching rule, and to
\* the project of its first one.
FirstMatch(spec, n) ==
  {i \in DOMAIN spec.rules :
     /\ RuleMatches(spec.rules[i], n, labels[n])
     /\ \A j \in 1..(i - 1) : ~RuleMatches(spec.rules[j], n, labels[n])}
Claims(n) == {m \in Maps : map[m] # None /\ FirstMatch(map[m].spec, n) # {}}
PinnedScopes ==
  {s \in Scope :
     \E n \in Namespaces, m \in Maps :
       /\ labels[n] # None /\ Claims(n) = {m}
       /\ map[m].spec.instance = Instance
       /\ s.org = map[m].spec.organizationId
       /\ \E i \in FirstMatch(map[m].spec, n) : s.project = map[m].spec.rules[i].project}

\* A sweep that ran on an undisturbed, up-to-date view revokes no scope the maps pin,
\* whatever happened before it (unsynced start, crash, failed lookup of the organization).
PinnedScopesKept ==
  [][\A p \in Sweepers, s \in delegates :
       quiet[p] /\ doomed'[p] # doomed[p] /\ s \notin delegates' => s \notin PinnedScopes]_vars

\* Once a scope stays unresolved in every namespace, its delegate is gone for good,
\* even if a tenant resolved it just before and mints it after a sweep.
Resolves(s) == \E n \in Namespaces : Resolve(map, labels, n).scope = s
UnmatchedRevoked == \A s \in Scope : <>[](~Resolves(s)) => <>[](s \notin delegates)

\* Once maps and organizations stay as they are, every map's status tells of its
\* present spec, and of the organization that has the name now.
StatusTold(o) ==
  LET found == {q \in OrgsMeant(o.spec, orgName) : orgName[q] # None}
      valid == ValidateMap(o.spec)
  IN  /\ o.status.observed = o.gen
      /\ o.status.resolved = IF valid /\ found # {} THEN CHOOSE q \in found : TRUE
                             ELSE o.spec.organizationId
      /\ o.status.ready <=> valid /\ \E q \in found : Contained(q)
StatusConverges == <>[](\A m \in Maps : map[m] # None /\ ~map[m].deleting => StatusTold(map[m]))
==============================================================================
