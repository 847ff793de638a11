--------------------------- MODULE TenantLifecycle ---------------------------
(***************************************************************************)
(* The life of one tenant resource under the operator that manages it: its *)
(* parents are resolved, a finalizer is put on it, its object at Zitadel is*)
(* found or created, its id is recorded, and all of this is undone when it *)
(* is deleted. The reconciler is that of one of the kinds of TenantKinds.  *)
(*                                                                         *)
(* The gates of TenantGate have admitted the operator. It runs one         *)
(* reconcile of the resource at a time, on a copy from an informer cache   *)
(* that lags behind the API server.                                        *)
(***************************************************************************)
EXTENDS Naturals, FiniteSets, TenantKinds

CONSTANTS
  Kinds,      \* the kinds, members of TenantKinds, that the resource may be of
  Keys,       \* what the spec may call the object: a name, a user, a domain, ...
  Ids,        \* objects at Zitadel
  None,
  MaxEdits,   \* what users change: specs, other resources, scopes, Zitadel
  MaxFaults   \* calls that fail and crashes

ASSUME LifecycleAssumption ==
  /\ Kinds \subseteq TenantKinds
  /\ None \notin Keys \cup Ids
  /\ MaxEdits \in Nat /\ MaxFaults \in Nat

Parents == {"org", "project", "user", "grantedOrg", "target", "secret"}

\* What a reference leads to: an id, a resource that has none yet, or nothing
\* that may be used (no such resource, or one outside of the scope).
Outcomes == {"ready", "waiting", "unresolved"}

\* A Secret, or a key in it, that is not there is always waited for.
OutcomesOf(p) == IF p = "secret" THEN {"ready", "waiting"} ELSE Outcomes

\* What the resource's namespace resolves to: nothing, as there are no scope
\* maps; a scope of an organization, or of a project; a scope whose delegate
\* cannot be had; an error. For kinds of the instance: it may do with none, or the
\* operator is bound to an organization and does not support them.
Scopes == {"none", "org", "project", "undelegated", "broken"}
Bindings == {"none", "unsupported"}

Resource == [
  key: Keys, sound: BOOLEAN,          \* spec
  deleting: BOOLEAN, finalizer: BOOLEAN,
  gone: BOOLEAN,                      \* removed from the API server
  id: Ids \cup {None},                \* the object's id, in status
  ready: BOOLEAN,                     \* status.ready
  condition: {"", "True", "False"}]   \* the Ready condition

Created(key) == [key |-> key, sound |-> TRUE, deleting |-> FALSE, finalizer |-> FALSE,
                 gone |-> FALSE, id |-> None, ready |-> FALSE, condition |-> ""]
NoCopy == [Created(CHOOSE k \in Keys : TRUE) EXCEPT !.gone = TRUE]

VARIABLES
  kind,       \* the profile of the resource's kind
  omits,      \* parents its spec leaves to the scope
  refs,       \* parent -> what the reference to it leads to
  scope,      \* what its namespace resolves to
  cr,         \* the resource at the API server
  cache,      \* the resource in the informer cache
  uptodate,   \* that copy has the resource's resourceVersion
  notice,     \* a generation change the informer has not delivered
  queued,     \* the resource is in the work queue
  pc,         \* where its reconcile is
  obj,        \* the reconcile's copy of the resource
  fresh,      \* that copy has the resource's resourceVersion
  found,      \* the object the reconcile found or created
  objects,    \* id -> the key of an object at Zitadel, None if it does not exist
  made,       \* history: the objects that reconciles created
  edits, faults

spec      == <<kind, omits>>
world     == <<refs, scope>>
informer  == <<cache, uptodate, notice>>
reconcile == <<pc, obj, fresh, found>>
zitadel   == <<objects, made>>
vars == <<spec, world, cr, informer, queued, reconcile, zitadel, edits, faults>>

\* The parents that a reference, and not the scope, leads to.
Referenced == {p \in Parents \ omits : \E i \in DOMAIN kind.parents : kind.parents[i] = p}

\* Someone else's object may be there already, under the resource's key.
Init ==
  /\ kind \in Kinds
  /\ omits \in SUBSET ({"org", "project"} \cap {kind.parents[i] : i \in DOMAIN kind.parents})
  /\ \E first \in Outcomes :
       refs = [p \in Parents |->
                 IF p \in Referenced /\ first \in OutcomesOf(p) THEN first ELSE "ready"]
  /\ scope \in IF kind.scoped THEN Scopes ELSE Bindings
  /\ \E k \in Keys : cr = Created(k)
  /\ cache = NoCopy /\ uptodate = FALSE /\ notice = TRUE /\ queued = FALSE
  /\ pc = "idle" /\ obj = NoCopy /\ fresh = FALSE /\ found = None
  /\ \E i \in Ids : \E k \in {None, cr.key} :
       objects = [j \in Ids |-> IF j = i THEN k ELSE None]
  /\ made = {}
  /\ edits = 0 /\ faults = 0

-----------------------------------------------------------------------------
(* The API server.                                                         *)

\* A write stores new. An unchanged resource keeps its resourceVersion.
Store(new) == cr' = new /\ uptodate' = (uptodate /\ new = cr)

NoWrite == UNCHANGED <<cr, uptodate>>

\* A deleted resource is removed with its last finalizer.
Collected(r) == [r EXCEPT !.gone = r.deleting /\ ~r.finalizer]

\* Mutant: a patch, which no resourceVersion guards.
UnconditionalUpdate == ~cr.gone

\* client.Update writes the copy's metadata: refused unless the copy is the
\* latest version.
UpdateAccepted == fresh /\ ~cr.gone

\* applyStatus: the copy's status replaces what the operator applied before,
\* whatever its resourceVersion. A resource that is gone is not patched.
ApplyStatus(copy) ==
  Store(IF cr.gone THEN cr
        ELSE [cr EXCEPT !.id = copy.id, !.ready = copy.ready, !.condition = copy.condition])

-----------------------------------------------------------------------------
(* A reconcile.                                                            *)

Continue(step, copy, latest) ==
  /\ pc' = step /\ obj' = copy /\ fresh' = latest
  /\ queued' = (queued /\ pc # "idle")

\* An error requeues with backoff, most results by RequeueAfter. A request that
\* came meanwhile is kept; the one that starts a reconcile is taken.
Return(requeue) ==
  /\ pc' = "idle" /\ obj' = NoCopy /\ fresh' = FALSE /\ found' = None
  /\ queued' = (requeue \/ (queued /\ pc # "idle"))

Reads == pc = "idle" /\ queued /\ ~cache.gone

GetNotFound ==
  /\ pc = "idle" /\ queued /\ cache.gone
  /\ NoWrite /\ Return(FALSE)
  /\ UNCHANGED <<spec, world, cache, notice, zitadel, edits, faults>>

\* resolveScopeAndClient of a resource that is not being deleted: without a
\* scope and its delegate nothing is done, which the ScopeResolved condition says
\* unless the error is of no known class.
FailClosed ==
  /\ Reads /\ ~cache.deleting
  /\ scope \in {"undelegated", "broken"}
  /\ ApplyStatus(cache) \/ NoWrite
  /\ Return(TRUE)
  /\ UNCHANGED <<spec, world, cache, notice, zitadel, edits, faults>>

\* checkBindingLevel, which is skipped during deletion.
NotSupported ==
  /\ Reads /\ ~cache.deleting /\ scope = "unsupported"
  /\ ApplyStatus([cache EXCEPT !.ready = FALSE, !.condition = "False"])
  /\ Return(TRUE)
  /\ UNCHANGED <<spec, world, cache, notice, zitadel, edits, faults>>

Supported == cache.deleting \/ scope \notin {"undelegated", "broken", "unsupported"}

\* A provider must be of one type; its spec is checked during deletion as well, and
\* not looked at again before it changes.
InvalidSpec ==
  /\ Reads /\ Supported /\ ~cache.sound
  /\ ApplyStatus([cache EXCEPT !.condition = "False"]) \/ NoWrite
  /\ Return(FALSE)
  /\ UNCHANGED <<spec, world, cache, notice, zitadel, edits, faults>>

PreambleDone == Reads /\ Supported /\ cache.sound

\* resolveScopedOrganizationId: the scope's organization if the spec omits it.
OrgOutcome ==
  IF "org" \notin omits THEN refs["org"]
  ELSE IF scope \in {"org", "project", "undelegated"} THEN "ready" ELSE "unresolved"

\* resolveScopedProjectId: the delegate's project, or the one in status.
ProjectOutcome(copy) ==
  IF "project" \notin omits THEN refs["project"]
  ELSE IF scope = "project" \/ (kind.recalls /\ copy.id # None) THEN "ready" ELSE "unresolved"

Outcome(parent, copy) ==
  CASE parent = "org" -> OrgOutcome
    [] parent = "project" -> ProjectOutcome(copy)
    [] OTHER -> refs[parent]

\* The first parent that is not to be had decides what the reconcile does.
FirstFailure(copy, outcome) ==
  \E i \in DOMAIN kind.parents :
    /\ Outcome(kind.parents[i], copy) = outcome /\ outcome # "ready"
    /\ \A j \in 1..(i - 1) : Outcome(kind.parents[j], copy) = "ready"

Resolved(copy) ==
  \/ kind.late # "" /\ copy.deleting
  \/ \A i \in DOMAIN kind.parents : Outcome(kind.parents[i], copy) = "ready"

\* A parent is waited for, or is an error. Some kinds say so in the Ready condition;
\* of these only ProjectRole, which says it of both, clears status.ready.
ParentFails(outcome) ==
  LET copy == IF pc = "ensure" THEN obj ELSE cache
      told == [copy EXCEPT !.condition = "False",
                           !.ready = @ /\ "unresolved" \notin kind.tells]
  IN  /\ IF kind.late = "finalizer" THEN pc = "ensure" ELSE PreambleDone
      /\ ~Resolved(copy) /\ FirstFailure(copy, outcome)
      /\ IF outcome \in kind.tells THEN ApplyStatus(told) ELSE NoWrite
      /\ Return(TRUE)
      /\ UNCHANGED <<spec, world, cache, notice, zitadel, edits, faults>>

ParentsResolved ==
  /\ PreambleDone /\ (Resolved(cache) \/ kind.late = "finalizer")
  /\ NoWrite
  /\ Continue(IF cache.deleting THEN "cleanup" ELSE "finalizer", cache, uptodate)
  /\ UNCHANGED <<spec, world, cache, notice, found, zitadel, edits, faults>>

\* Mutant: a refused Update is logged and the reconcile goes on.
FinalizerRefusedGoesOn ==
  LET marked == [obj EXCEPT !.finalizer = TRUE]
  IN  /\ pc = "finalizer"
      /\ IF ~obj.finalizer /\ UpdateAccepted THEN Store(marked) ELSE NoWrite
      /\ Continue("ensure", marked, fresh)
      /\ UNCHANGED <<spec, world, cache, notice, found, zitadel, edits, faults>>

\* The finalizer is stored before there is anything to clean up. An accepted
\* Update refreshes the copy; a refused one fails the reconcile.
EnsureFinalizer ==
  LET marked == [obj EXCEPT !.finalizer = TRUE]
  IN  /\ pc = "finalizer"
      /\ \/ obj.finalizer /\ NoWrite /\ Continue("ensure", obj, fresh) /\ UNCHANGED found
         \/ /\ ~obj.finalizer /\ UpdateAccepted
            /\ Store(marked) /\ Continue("ensure", marked, TRUE) /\ UNCHANGED found
         \/ ~obj.finalizer /\ ~UpdateAccepted /\ NoWrite /\ Return(TRUE)
      /\ UNCHANGED <<spec, world, cache, notice, zitadel, edits, faults>>

Exists(i) == i # None /\ objects[i] # None
WithKey(k) == {i \in Ids : objects[i] = k}

\* Nothing is done before the parents are there.
Ensuring == pc = "ensure" /\ (kind.late = "finalizer" => Resolved(obj))

\* The recorded object has a key the spec no longer has: it is removed first.
Replaced == kind.replaces /\ obj.id # None /\ objects[obj.id] \notin {None, obj.key}
RemoveReplaced ==
  /\ Ensuring /\ Replaced
  /\ objects' = [objects EXCEPT ![obj.id] = None]
  /\ UNCHANGED <<spec, world, cr, informer, queued, reconcile, made, edits, faults>>

\* Mutant: an object that is not in status is not looked for.
RecordedOnly(copy) == IF Exists(copy.id) THEN {copy.id} ELSE {}

\* The objects a kind's lookup may return.
Candidates(copy) ==
  LET recorded == IF Exists(copy.id) THEN {copy.id} ELSE {}
      named    == WithKey(copy.key)
  IN  CASE kind.lookup = "id" -> recorded
        [] kind.lookup = "idThenKey" -> IF recorded # {} THEN recorded ELSE named
        [] kind.lookup = "idByKey" ->
             IF recorded \cap named # {} THEN recorded ELSE named
        [] kind.lookup = "key" -> named

\* An existing object is found, and updated where it differs from the spec. (The
\* new name of an identity provider, which is never looked up by name, is left out.
\* findAppByName takes a list that fails for one without a match, and the caller
\* creates: where there is a match, Zitadel refuses the second application of that
\* name, which is EnsureFails or Fault; where there is none, it is Create.)
Find ==
  /\ Ensuring /\ ~Replaced
  /\ found' \in Candidates(obj)
  /\ NoWrite /\ Continue("record", obj, fresh)
  /\ UNCHANGED <<spec, world, cache, notice, zitadel, edits, faults>>

\* Ids are not used again, but one that nothing remembers may stand for a new one.
\* When they are all used the call fails: that bounds the model.
Unused == {i \in Ids : objects[i] = None} \ {cr.id, cache.id, obj.id}
Create ==
  /\ Ensuring /\ ~Replaced
  /\ Candidates(obj) = {}
  /\ \/ \E i \in Unused :
          /\ objects' = [objects EXCEPT ![i] = obj.key]
          /\ made' = made \cup {i}
          /\ found' = i
          /\ Continue("record", obj, fresh)
     \/ Unused = {} /\ Return(TRUE) /\ UNCHANGED zitadel
  /\ NoWrite
  /\ UNCHANGED <<spec, world, cache, notice, edits, faults>>

\* Mutant: a new id is not written to a resource that is ready already.
RecordsOnce ==
  /\ pc = "record"
  /\ IF obj.ready THEN NoWrite
     ELSE ApplyStatus([obj EXCEPT !.id = found, !.ready = TRUE, !.condition = "True"])
  /\ Return(TRUE)
  /\ UNCHANGED <<spec, world, cache, notice, zitadel, edits, faults>>

\* markReady: status is written if the resource is not ready yet or its id is new.
Record ==
  LET id == IF kind.handle # "spec" THEN found ELSE None
      recorded == [obj EXCEPT !.id = id, !.ready = TRUE, !.condition = "True"]
      changed == ~obj.ready \/ obj.id # id
  IN  /\ pc = "record"
      /\ \/ (changed \/ kind.observes) /\ ApplyStatus(recorded)
         \/ ~changed /\ NoWrite
      /\ Return(TRUE)
      /\ UNCHANGED <<spec, world, cache, notice, zitadel, edits, faults>>

\* What cleanup deletes; an object that is not there counts as deleted.
Doomed ==
  CASE kind.handle = "recorded" -> {obj.id}
    [] kind.handle = "spec" -> WithKey(obj.key)
    [] kind.handle = "nothing" -> {}

Cleanup ==
  /\ pc = "cleanup"
  /\ objects' = [i \in Ids |-> IF i \in Doomed THEN None ELSE objects[i]]
  /\ NoWrite /\ Continue("release", obj, fresh)
  /\ UNCHANGED <<spec, world, cache, notice, found, made, edits, faults>>

\* Mutant: every kind goes on.
NeverBlocks ==
  /\ pc = "cleanup" /\ faults < MaxFaults
  /\ NoWrite /\ Continue("release", obj, fresh)
  /\ faults' = faults + 1
  /\ UNCHANGED <<spec, world, cache, notice, found, zitadel, edits>>

\* handleDeletion logs a cleanup that fails and goes on, handleDeletionStrict
\* returns the error.
CleanupFails ==
  /\ pc = "cleanup" /\ faults < MaxFaults
  /\ NoWrite
  /\ IF kind.blocking THEN Return(TRUE)
     ELSE Continue("release", obj, fresh) /\ UNCHANGED found
  /\ faults' = faults + 1
  /\ UNCHANGED <<spec, world, cache, notice, zitadel, edits>>

\* Mutant: a refused Update is taken for a resource that is gone.
ReleaseRefusedGivesUp ==
  /\ pc = "release"
  /\ IF UpdateAccepted THEN Store(Collected([obj EXCEPT !.finalizer = FALSE])) ELSE NoWrite
  /\ Return(FALSE)
  /\ UNCHANGED <<spec, world, cache, notice, zitadel, edits, faults>>

\* removeFinalizer and the Update that follows. Nobody else's finalizer keeps the
\* resource, so a copy that is being deleted has the operator's.
RemoveFinalizer ==
  /\ pc = "release"
  /\ \/ UpdateAccepted
        /\ Store(Collected([obj EXCEPT !.finalizer = FALSE])) /\ Return(FALSE)
     \/ ~UpdateAccepted /\ NoWrite /\ Return(TRUE)
  /\ UNCHANGED <<spec, world, cache, notice, zitadel, edits, faults>>

\* A call fails or the process dies: the reconcile ends where it is and runs again.
Fault ==
  /\ pc # "idle" /\ faults < MaxFaults
  /\ NoWrite /\ Return(TRUE)
  /\ faults' = faults + 1
  /\ UNCHANGED <<spec, world, cache, notice, zitadel, edits>>

\* Some kinds write a failure to find or create the object to status.
EnsureFails ==
  /\ pc = "ensure" /\ kind.reports /\ faults < MaxFaults
  /\ ApplyStatus([obj EXCEPT !.condition = "False"]) /\ Return(TRUE)
  /\ faults' = faults + 1
  /\ UNCHANGED <<spec, world, cache, notice, zitadel, edits>>

-----------------------------------------------------------------------------
(* The informer and the users.                                             *)

\* Only a generation change enqueues (generationChangedPredicate).
Observe ==
  /\ ~uptodate
  /\ cache' = cr /\ uptodate' = TRUE /\ notice' = FALSE
  /\ queued' = (queued \/ notice)
  /\ UNCHANGED <<spec, world, cr, reconcile, zitadel, edits, faults>>

\* A user writes the resource: every change of its spec is a new generation.
Write(new) ==
  /\ ~cr.gone /\ edits < MaxEdits
  /\ cr' = new /\ uptodate' = FALSE /\ fresh' = FALSE /\ notice' = TRUE
  /\ edits' = edits + 1
  /\ UNCHANGED <<spec, world, cache, queued, pc, obj, found, zitadel, faults>>

ChangeSpec(k, sound) ==
  /\ ~cr.deleting /\ (sound \/ kind.validates)
  /\ Write([cr EXCEPT !.key = k, !.sound = sound])
Delete == ~cr.deleting /\ Write(Collected([cr EXCEPT !.deleting = TRUE]))

\* Another resource or a scope map changes, or the object is deleted at Zitadel.
Elsewhere ==
  /\ edits < MaxEdits
  /\ \/ \E p \in Referenced : \E outcome \in OutcomesOf(p) \ {refs[p]} :
          refs' = [refs EXCEPT ![p] = outcome] /\ UNCHANGED <<scope, objects>>
     \/ kind.scoped /\ scope' \in Scopes \ {scope} /\ UNCHANGED <<refs, objects>>
     \/ \E i \in Ids : Exists(i) /\ objects' = [objects EXCEPT ![i] = None]
        /\ UNCHANGED world
  /\ edits' = edits + 1
  /\ UNCHANGED <<spec, cr, informer, queued, reconcile, made, faults>>

\* The operator is started with the other binding.
Rebind ==
  /\ ~kind.scoped /\ edits < MaxEdits
  /\ scope' \in Bindings \ {scope}
  /\ NoWrite /\ Return(TRUE)
  /\ edits' = edits + 1
  /\ UNCHANGED <<spec, refs, cache, notice, zitadel, faults>>

Step ==
  \/ GetNotFound \/ FailClosed \/ NotSupported \/ InvalidSpec
  \/ (\E o \in Outcomes : ParentFails(o)) \/ ParentsResolved
  \/ EnsureFinalizer \/ RemoveReplaced \/ Find \/ Create \/ Record
  \/ Cleanup \/ RemoveFinalizer

Next ==
  \/ Step \/ Observe \/ Fault \/ CleanupFails \/ EnsureFails
  \/ (\E k \in Keys, sound \in BOOLEAN : ChangeSpec(k, sound)) \/ Delete
  \/ Elsewhere \/ Rebind

Fairness == WF_vars(Step) /\ WF_vars(Observe)

Spec == Init /\ [][Next]_vars /\ Fairness

-----------------------------------------------------------------------------
(* Properties.                                                             *)

TypeOK ==
  /\ kind \in Kinds /\ omits \subseteq Parents
  /\ refs \in [Parents -> Outcomes] /\ scope \in Scopes \cup Bindings
  /\ cr \in Resource /\ cache \in Resource /\ obj \in Resource
  /\ uptodate \in BOOLEAN /\ notice \in BOOLEAN /\ queued \in BOOLEAN /\ fresh \in BOOLEAN
  /\ pc \in {"idle", "finalizer", "ensure", "record", "cleanup", "release"}
  /\ found \in Ids \cup {None}
  /\ objects \in [Ids -> Keys \cup {None}] /\ made \subseteq Ids
  /\ edits \in 0..MaxEdits /\ faults \in 0..MaxFaults

\* What the reconciles of this resource made and that still exists.
Left == {i \in made : objects[i] # None}

\* Nothing is made for a resource without a finalizer, however stale the copy is
\* that a reconcile works on: a deletion could not clean it up. (ensureFinalizer
\* before the work, and the order of the versions in an informer's cache.)
MadeUnderFinalizer ==
  [][made' # made => cr.finalizer /\ ~cr.gone]_vars

\* A kind that looks its object up by key never makes a second one with that key,
\* after whatever failure, and whatever is or is not in status.
OneObject ==
  kind.lookup # "id" => \A i, j \in Left : objects[i] = objects[j] => i = j

\* An operator lets a resource go only if the object in the latest status is gone,
\* or it was told that deleting it failed and is of a kind that goes on: never on
\* a copy from before the object was recorded.
RecordedIsCleaned ==
  [][cr'.gone /\ ~cr.gone /\ pc = "release" /\ (kind.blocking \/ faults = 0)
       => kind.handle = "nothing" \/ ~Exists(cr.id)]_vars

\* A kind that cleans up what its spec names leaves nothing of that name, whatever
\* the spec was when a reconcile read it, unless it goes on after a failure.
NothingLeft ==
  cr.gone /\ kind.handle = "spec" /\ (kind.blocking \/ faults = 0)
    => Left \cap WithKey(cr.key) = {}

\* A deleted resource goes, under any binding, once its parents can be resolved
\* without a scope and if its spec is in order.
DeletionCompletes == <>[](Resolved(cr) /\ cr.sound) => (cr.deleting ~> cr.gone)

Served ==
  \/ cr.deleting \/ kind.lookup = "id"   \* whose ids the bound may use up
  \/ /\ cr.ready
     /\ IF kind.handle # "spec"
        THEN Exists(cr.id) /\ (kind.lookup \in {"key", "idByKey"} => objects[cr.id] = cr.key)
        ELSE WithKey(cr.key) # {}

\* A resource whose scope and parents are to be had gets its object, also
\* after that was deleted at Zitadel, and has its id in status.
Converges ==
  <>[](Resolved(cr) /\ cr.sound /\ scope \notin {"undelegated", "broken", "unsupported"})
    => <>[]Served
=============================================================================
