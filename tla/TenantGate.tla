------------------------------ MODULE TenantGate ------------------------------
(***************************************************************************)
(* Who may reconcile a tenant resource: the dual-serving instance gate     *)
(* (scope_resolution.go), the ForeignManager guard (management_guard.go)   *)
(* and the steps of a reconcile they protect, for one resource that        *)
(* several operators see: of different Zitadel instances, or deployments   *)
(* of one instance whose namespaces overlap. They share nothing but the    *)
(* resource, which each reads through an informer cache that lags.         *)
(*                                                                         *)
(* Scope resolution and the work at Zitadel are one step each here; they   *)
(* are modelled in ScopeMaps and TenantLifecycle.                          *)
(***************************************************************************)
EXTENDS Naturals, FiniteSets

CONSTANTS
  Operators,    \* operator deployments that watch the resource's namespace
  Instance,     \* operator -> instance identity: the pin it answers to
  None,
  MaxEdits,     \* pins and annotations users change
  MaxFaults     \* reconciles that stop half-way: a failed call or a crash

(***************************************************************************)
(* An operator stands for its management identity, the value it stamps in  *)
(* zitadel.truvity.io/managed-by: identities of deployments are distinct.  *)
(***************************************************************************)
Instances == {Instance[o] : o \in Operators}

ASSUME GateAssumption ==
  /\ None \notin Operators \cup Instances
  /\ Operators \cap Instances = {}
  /\ MaxEdits \in Nat /\ MaxFaults \in Nat

Resource == [
  pin: Instances \cup {None},             \* spec.instance
  owner: Operators \cup {None},           \* the managed-by annotation
  deleting: BOOLEAN, finalizer: BOOLEAN,
  gone: BOOLEAN,                          \* removed from the API server
  writers: SUBSET Instances,              \* zitadel-operator/* field managers
  resolved: {"", "Assumed", "Pinned", "AmbiguousInstance"},
                                          \* the InstanceResolved condition
  guard: SUBSET (Operators \cup Instances),
                \* managers of the ForeignManager condition: it is set while there are any
  recorded: Instances \cup {None}]        \* instance of the id in status

\* A resource nobody has written to yet; and the copy of one that is not there.
Created(pin) == [pin |-> pin, owner |-> None, deleting |-> FALSE, finalizer |-> FALSE,
                 gone |-> FALSE, writers |-> {}, resolved |-> "", guard |-> {},
                 recorded |-> None]
NoCopy == [Created(None) EXCEPT !.gone = TRUE]

VARIABLES
  cr,           \* the resource at the API server
  objects,      \* instances on which the resource's Zitadel object exists
  cache,        \* operator -> the resource in its informer cache
  uptodate,     \* operator -> that copy has the resource's resourceVersion
  notice,       \* operator -> a generation change its informer has not delivered
  queued,       \* operator -> the resource is in its work queue
  pc,           \* operator -> where its reconcile is
  obj,          \* operator -> the reconcile's copy of the resource
  fresh,        \* operator -> that copy has the resource's resourceVersion
  edits, faults,
  transferred   \* history: a user changed the managed-by annotation

informers == <<cache, uptodate, notice>>
reconcile == <<pc, obj, fresh>>
limits    == <<edits, faults, transferred>>
vars == <<cr, objects, informers, queued, reconcile, limits>>

\* A resource in deletion that has its finalizer from before operators stamped.
Unstamped == [Created(None) EXCEPT !.finalizer = TRUE, !.deleting = TRUE]

Init ==
  /\ \E pin \in Instances \cup {None} : cr \in {Created(pin), Unstamped}
  /\ objects = {}
  /\ cache = [o \in Operators |-> NoCopy]
  /\ obj = [o \in Operators |-> NoCopy]
  /\ uptodate = [o \in Operators |-> FALSE]
  /\ fresh = [o \in Operators |-> FALSE]
  /\ notice = [o \in Operators |-> TRUE]
  /\ queued = [o \in Operators |-> FALSE]
  /\ pc = [o \in Operators |-> "idle"]
  /\ edits = 0 /\ faults = 0 /\ transferred = FALSE

-----------------------------------------------------------------------------
(* The API server.                                                         *)

\* A write stores new. An unchanged resource keeps its resourceVersion.
Store(new) ==
  /\ cr' = new
  /\ uptodate' = [o \in Operators |-> uptodate[o] /\ new = cr]

NoWrite == UNCHANGED <<cr, uptodate>>

\* A deleted resource is removed with its last finalizer.
Collected(r) == [r EXCEPT !.gone = r.deleting /\ ~r.finalizer]

\* Mutant: an Update that overwrites whatever is stored.
UnconditionalUpdate(o) == ~cr.gone

\* client.Update writes the whole copy, spec and annotations: it is refused
\* unless the copy is the latest version. It does not write status, and the
\* response replaces the copy, so condition edits in memory are lost. The field
\* manager it adds is the executable's name; "operator", as the images have it,
\* is not one that foreignOperatorManagerPresent looks for.
UpdateAccepted(o) == fresh[o] /\ ~cr.gone
Updated(new) ==
  Collected([new EXCEPT !.writers = cr.writers, !.resolved = cr.resolved,
                        !.guard = cr.guard, !.recorded = cr.recorded])

\* applyStatus: Server-Side Apply of the copy's whole status as the
\* instance's field manager. The manager comes to own the conditions the copy
\* holds and gives up the others; no resourceVersion is compared. A resource
\* that is gone is not patched.
ApplyStatus(o, copy) ==
  Store(IF cr.gone THEN cr
        ELSE [cr EXCEPT
               !.writers = @ \cup {Instance[o]},
               !.resolved = copy.resolved,
               !.recorded = copy.recorded,
               !.guard = IF copy.guard # {} THEN @ \cup {Instance[o]} ELSE @ \ {Instance[o]}])

\* applyGuardCondition: the guard manager holds the condition, or releases it.
ApplyGuard(o, holds) ==
  Store(IF cr.gone THEN cr ELSE [cr EXCEPT !.guard = IF holds THEN @ \cup {o} ELSE @ \ {o}])

-----------------------------------------------------------------------------
(* A reconcile. A write by one makes the copies of the others stale.       *)

StillFresh(p) == fresh[p] /\ cr' = cr

Continue(o, step, copy, latest) ==
  /\ pc' = [pc EXCEPT ![o] = step]
  /\ obj' = [obj EXCEPT ![o] = copy]
  /\ fresh' = [p \in Operators |-> IF p = o THEN latest ELSE StillFresh(p)]
  /\ queued' = [queued EXCEPT ![o] = queued[o] /\ pc[o] # "idle"]

\* The reconcile ends and its copy goes with it. Most results requeue: an error
\* with backoff, or RequeueAfter. A request that came meanwhile is kept; the one
\* that starts a reconcile is taken from the queue.
Return(o, requeue) ==
  /\ pc' = [pc EXCEPT ![o] = "idle"]
  /\ obj' = [obj EXCEPT ![o] = NoCopy]
  /\ fresh' = [p \in Operators |-> p # o /\ StillFresh(p)]
  /\ queued' = [queued EXCEPT ![o] = requeue \/ (queued[o] /\ pc[o] # "idle")]

\* Reconcile's Get reads the informer cache; what is decided on the copy alone
\* is decided in the same step.
Reads(o) == pc[o] = "idle" /\ queued[o] /\ ~cache[o].gone

GetNotFound(o) ==
  /\ pc[o] = "idle" /\ queued[o] /\ cache[o].gone
  /\ NoWrite /\ Return(o, FALSE)
  /\ UNCHANGED <<objects, cache, notice, limits>>

\* The instance gate is skipped during deletion.
GetDeleting(o) ==
  /\ Reads(o) /\ cache[o].deleting
  /\ NoWrite /\ Continue(o, "management", cache[o], uptodate[o])
  /\ UNCHANGED <<objects, cache, notice, limits>>

\* instanceGate, spec.instance set. A foreign pin ends the reconcile, untouched,
\* and is not looked at again before the resource changes.
InstanceGatePinned(o) ==
  /\ Reads(o) /\ ~cache[o].deleting /\ cache[o].pin # None
  /\ NoWrite
  /\ IF cache[o].pin = Instance[o]
     THEN Continue(o, "management", [cache[o] EXCEPT !.resolved = "Pinned"], uptodate[o])
     ELSE Return(o, FALSE)
  /\ UNCHANGED <<objects, cache, notice, limits>>

\* Another zitadel-operator/* manager in the copy's managedFields.
ForeignOperatorManagerPresent(o) == cache[o].writers \ {Instance[o]} # {}

\* instanceGate, spec.instance unset and no other operator seen: announce
\* this one, unless it has been, before anything else.
InstanceGateAssume(o) ==
  LET assumed == [cache[o] EXCEPT !.resolved = "Assumed"]
  IN  /\ Reads(o) /\ ~cache[o].deleting /\ cache[o].pin = None
      /\ ~ForeignOperatorManagerPresent(o)
      /\ \/ /\ cache[o] = assumed /\ NoWrite
            /\ Continue(o, "management", assumed, uptodate[o])
         \/ /\ cache[o] # assumed /\ ApplyStatus(o, assumed)
            /\ IF cr.gone THEN Return(o, TRUE)
               ELSE Continue(o, "management", assumed, uptodate'[o])
      /\ UNCHANGED <<objects, cache, notice, limits>>

\* Mutant: an ambiguity that an operator does not tell the other one.
SilentlyAmbiguous(o) ==
  /\ Reads(o) /\ ~cache[o].deleting /\ cache[o].pin = None
  /\ ForeignOperatorManagerPresent(o)
  /\ NoWrite /\ Return(o, TRUE)
  /\ UNCHANGED <<objects, cache, notice, limits>>

\* instanceGate, spec.instance unset and another operator seen: fail closed.
InstanceGateAmbiguous(o) ==
  /\ Reads(o) /\ ~cache[o].deleting /\ cache[o].pin = None
  /\ ForeignOperatorManagerPresent(o)
  /\ ApplyStatus(o, [cache[o] EXCEPT !.resolved = "AmbiguousInstance"])
  /\ Return(o, TRUE)
  /\ UNCHANGED <<objects, cache, notice, limits>>

\* Past both gates a reconcile works, or cleans up.
Admitted(o) == IF obj[o].deleting THEN "cleanup" ELSE "finalizer"

\* managementGate: the annotation names this operator, which drops a guard
\* condition it wrote when it did not.
ManagementGateOwner(o) ==
  /\ pc[o] = "management" /\ obj[o].owner = o
  /\ \/ /\ obj[o].guard = {} /\ NoWrite
        /\ Continue(o, Admitted(o), obj[o], fresh[o])
     \/ /\ obj[o].guard # {} /\ ApplyGuard(o, FALSE)
        /\ IF cr.gone THEN Return(o, TRUE)
           ELSE Continue(o, Admitted(o), obj[o], StillFresh(o))
  /\ UNCHANGED <<objects, cache, notice, limits>>

\* managementGate: no annotation on a resource being deleted.
ManagementGateUnstamped(o) ==
  /\ pc[o] = "management" /\ obj[o].owner = None /\ obj[o].deleting
  /\ NoWrite /\ Continue(o, "cleanup", obj[o], fresh[o])
  /\ UNCHANGED <<objects, cache, notice, limits>>

\* An Update of the copy to new, which fails the reconcile when it conflicts.
UpdateThen(o, new, step) ==
  IF UpdateAccepted(o)
  THEN Store(Updated(new)) /\ Continue(o, step, Updated(new), TRUE)
  ELSE NoWrite /\ Return(o, TRUE)

\* Mutant: a reconcile that goes on although its stamp was refused.
StampRefusedGoesOn(o) ==
  /\ pc[o] = "management" /\ obj[o].owner = None /\ ~obj[o].deleting
  /\ IF UpdateAccepted(o)
     THEN UpdateThen(o, [obj[o] EXCEPT !.owner = o], "finalizer")
     ELSE NoWrite /\ Continue(o, "finalizer", cr, TRUE)
  /\ UNCHANGED <<objects, cache, notice, limits>>

\* Mutant: a stamp that is refused and not tried again.
StampRefusedGivesUp(o) ==
  /\ pc[o] = "management" /\ obj[o].owner = None /\ ~obj[o].deleting
  /\ IF UpdateAccepted(o)
     THEN UpdateThen(o, [obj[o] EXCEPT !.owner = o], "finalizer")
     ELSE NoWrite /\ Return(o, FALSE)
  /\ UNCHANGED <<objects, cache, notice, limits>>

\* managementGate: adoption. Of operators that race one Update is accepted.
ManagementGateStamp(o) ==
  /\ pc[o] = "management" /\ obj[o].owner = None /\ ~obj[o].deleting
  /\ UpdateThen(o, [obj[o] EXCEPT !.owner = o], "finalizer")
  /\ UNCHANGED <<objects, cache, notice, limits>>

\* managementGate: the annotation names another operator. Hands off, also
\* while the resource is deleted.
ManagementGateForeign(o) ==
  /\ pc[o] = "management" /\ obj[o].owner \notin {None, o}
  /\ ApplyGuard(o, TRUE)
  /\ Return(o, TRUE)
  /\ UNCHANGED <<objects, cache, notice, limits>>

EnsureFinalizer(o) ==
  /\ pc[o] = "finalizer"
  /\ IF obj[o].finalizer
     THEN NoWrite /\ Continue(o, "ensure", obj[o], fresh[o])
     ELSE UpdateThen(o, [obj[o] EXCEPT !.finalizer = TRUE], "ensure")
  /\ UNCHANGED <<objects, cache, notice, limits>>

\* The resource's object is found, adopted or created on this instance.
Ensure(o) ==
  /\ pc[o] = "ensure"
  /\ objects' = objects \cup {Instance[o]}
  /\ NoWrite /\ Continue(o, "ready", obj[o], fresh[o])
  /\ UNCHANGED <<cache, notice, limits>>

\* markReady writes status when it is not ready yet or says something new.
MarkReady(o) ==
  /\ pc[o] = "ready"
  /\ \/ ApplyStatus(o, [obj[o] EXCEPT !.recorded = Instance[o]])
     \/ obj[o].recorded = Instance[o] /\ NoWrite
  /\ Return(o, TRUE)
  /\ UNCHANGED <<objects, cache, notice, limits>>

\* The recorded object is deleted: an id of another instance is not found.
Cleanup(o) ==
  /\ pc[o] = "cleanup"
  /\ objects' = IF obj[o].recorded = Instance[o] THEN objects \ {Instance[o]} ELSE objects
  /\ NoWrite /\ Continue(o, "release", obj[o], fresh[o])
  /\ UNCHANGED <<cache, notice, limits>>

\* Mutant: the finalizer removed by a patch, which compares no resourceVersion.
PatchedFinalizer(o) ==
  /\ pc[o] = "release"
  /\ IF cr.gone THEN NoWrite ELSE Store(Collected([cr EXCEPT !.finalizer = FALSE]))
  /\ Return(o, FALSE)
  /\ UNCHANGED <<objects, cache, notice, limits>>

\* Mutant: an Update that is refused and not tried again.
ReleaseRefusedGivesUp(o) ==
  /\ pc[o] = "release"
  /\ IF obj[o].finalizer /\ UpdateAccepted(o)
     THEN Store(Updated([obj[o] EXCEPT !.finalizer = FALSE])) ELSE NoWrite
  /\ Return(o, FALSE)
  /\ UNCHANGED <<objects, cache, notice, limits>>

\* removeFinalizer and the Update that follows, if there was one to remove.
RemoveFinalizer(o) ==
  /\ pc[o] = "release"
  /\ \/ obj[o].finalizer /\ UpdateAccepted(o)
        /\ Store(Updated([obj[o] EXCEPT !.finalizer = FALSE])) /\ Return(o, FALSE)
     \/ obj[o].finalizer /\ ~UpdateAccepted(o) /\ NoWrite /\ Return(o, TRUE)
     \/ ~obj[o].finalizer /\ NoWrite /\ Return(o, FALSE)
  /\ UNCHANGED <<objects, cache, notice, limits>>

\* A call fails or the process dies: the reconcile ends where it is and is
\* run again.
Fault(o) ==
  /\ pc[o] # "idle" /\ faults < MaxFaults
  /\ NoWrite /\ Return(o, TRUE)
  /\ faults' = faults + 1
  /\ UNCHANGED <<objects, cache, notice, edits, transferred>>

-----------------------------------------------------------------------------
(* The informers and the users.                                            *)

\* The cache is brought up to date. Only a generation change enqueues
\* (generationChangedPredicate): writes to status or metadata do not.
Observe(o) ==
  /\ ~uptodate[o]
  /\ cache' = [cache EXCEPT ![o] = cr]
  /\ uptodate' = [uptodate EXCEPT ![o] = TRUE]
  /\ notice' = [notice EXCEPT ![o] = FALSE]
  /\ queued' = [queued EXCEPT ![o] = queued[o] \/ notice[o]]
  /\ UNCHANGED <<cr, objects, reconcile, limits>>

Edit(new, annotation) ==
  /\ ~cr.gone /\ edits < MaxEdits /\ new # cr
  /\ Store(new)
  /\ fresh' = [o \in Operators |-> FALSE]
  /\ edits' = edits + 1
  /\ transferred' = (transferred \/ annotation)
  /\ notice' = [o \in Operators |-> notice[o] \/ ~annotation]
  /\ UNCHANGED <<objects, cache, queued, pc, obj, faults>>

Pin(i) == Edit([cr EXCEPT !.pin = i], FALSE)
Transfer(p) == Edit([cr EXCEPT !.owner = p], TRUE)
Delete == Edit(Collected([cr EXCEPT !.deleting = TRUE]), FALSE)

Step(o) ==
  \/ GetNotFound(o) \/ GetDeleting(o)
  \/ InstanceGatePinned(o) \/ InstanceGateAssume(o) \/ InstanceGateAmbiguous(o)
  \/ ManagementGateOwner(o) \/ ManagementGateUnstamped(o)
  \/ ManagementGateStamp(o) \/ ManagementGateForeign(o)
  \/ EnsureFinalizer(o) \/ Ensure(o) \/ MarkReady(o)
  \/ Cleanup(o) \/ RemoveFinalizer(o)

Next ==
  \/ \E o \in Operators : Step(o) \/ Observe(o) \/ Fault(o)
  \/ \E i \in Instances \cup {None} : Pin(i)
  \/ \E p \in Operators \cup {None} : Transfer(p)
  \/ Delete

Fairness == \A o \in Operators : WF_vars(Step(o)) /\ WF_vars(Observe(o))

Spec == Init /\ [][Next]_vars /\ Fairness

-----------------------------------------------------------------------------
(* Properties.                                                             *)

TypeOK ==
  /\ cr \in Resource
  /\ objects \subseteq Instances
  /\ cache \in [Operators -> Resource] /\ obj \in [Operators -> Resource]
  /\ uptodate \in [Operators -> BOOLEAN] /\ fresh \in [Operators -> BOOLEAN]
  /\ notice \in [Operators -> BOOLEAN] /\ queued \in [Operators -> BOOLEAN]
  /\ pc \in [Operators -> {"idle", "management", "finalizer", "ensure",
                           "ready", "cleanup", "release"}]
  /\ edits \in 0..MaxEdits /\ faults \in 0..MaxFaults /\ transferred \in BOOLEAN

Working(o) == pc[o] \in {"finalizer", "ensure", "ready"}

\* Unless a user hands the resource over by its annotation, one operator at
\* most is past the gates with it, and its object exists on one instance at
\* most: whatever the pins do and however operators race for a resource that
\* nobody manages yet. (managementGate's adoption by a conflicting Update.)
OneWorks == \A o, p \in Operators : Working(o) /\ Working(p) => o = p
OneObject == \A i, j \in objects : i = j
OneManager == ~transferred => OneWorks /\ OneObject

\* An operator never replaces a stamp, not even one it has not seen yet: the
\* annotation changes from a name only by a user's hand.
StampKept ==
  [][cr'.owner # cr.owner /\ cr.owner # None => edits' # edits]_vars

\* The finalizer goes only by an operator that manages the resource at that
\* moment, or when nobody does: an operator that lost it to a transfer while it
\* was cleaning up does not complete the deletion.
FinalizerGoesByManager ==
  [][cr.finalizer /\ ~cr'.finalizer =>
       \E o \in Operators : pc[o] = "release" /\ cr.owner \in {None, o}]_vars

\* A resource in two instances' namespace with no pin ends up with no operator
\* working on it, though its first operator may have worked alone for a while.
FailsClosed ==
  Cardinality(Instances) > 1
    => (<>[](cr.pin = None /\ ~cr.deleting)
          => <>[](cr.resolved = "AmbiguousInstance" /\ \A o \in Operators : ~Working(o)))

\* A pinned resource whose annotation does not name another instance's operator
\* gets its object, recorded in its status, on the instance of the pin.
Claimed ==
  cr.pin # None /\ ~cr.deleting /\ (cr.owner # None => Instance[cr.owner] = cr.pin)
PinnedIsServed == <>[]Claimed => <>[](cr.pin \in objects /\ cr.recorded = cr.pin)

\* A deleted resource goes, whatever it was pinned to and whoever manages it.
DeletionCompletes == cr.deleting ~> cr.gone
=============================================================================
