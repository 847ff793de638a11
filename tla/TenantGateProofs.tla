--------------------------- MODULE TenantGateProofs ---------------------------
(***************************************************************************)
(* Theorems about TenantGate, for any operators, instances and bounds:     *)
(* type correctness, and that exclusion between operators rests on one     *)
(* thing, the resourceVersion an Update compares (FreshCopies).            *)
(***************************************************************************)
EXTENDS TenantGate, TLAPS

Steps == {"idle", "management", "finalizer", "ensure", "ready", "cleanup", "release"}

-----------------------------------------------------------------------------
(* Types.                                                                  *)

LEMMA InstanceType == \A o \in Operators : Instance[o] \in Instances
  BY DEF Instances

LEMMA CreatedType == \A pin \in Instances \cup {None} : Created(pin) \in Resource
  BY DEF Created, Resource

LEMMA UnstampedType == Unstamped \in Resource
  BY DEF Unstamped, Created, Resource

LEMMA NoCopyType == NoCopy \in Resource
  BY DEF NoCopy, Created, Resource

LEMMA UpdatedType ==
  ASSUME cr \in Resource, NEW new \in Resource
  PROVE  Updated(new) \in Resource
  BY DEF Updated, Collected, Resource

LEMMA StoreType ==
  ASSUME TypeOK, NEW new \in Resource, Store(new)
  PROVE  cr' \in Resource /\ uptodate' \in [Operators -> BOOLEAN]
  BY DEF TypeOK, Store

LEMMA ApplyStatusType ==
  ASSUME TypeOK, NEW o \in Operators, NEW copy \in Resource, ApplyStatus(o, copy)
  PROVE  cr' \in Resource /\ uptodate' \in [Operators -> BOOLEAN]
  <1>1. [cr EXCEPT !.writers = @ \cup {Instance[o]}, !.resolved = copy.resolved,
                   !.recorded = copy.recorded,
                   !.guard = IF copy.guard # {} THEN @ \cup {Instance[o]}
                             ELSE @ \ {Instance[o]}] \in Resource
    BY InstanceType DEF TypeOK, Resource
  <1> QED BY <1>1, StoreType DEF ApplyStatus, TypeOK

LEMMA ApplyGuardType ==
  ASSUME TypeOK, NEW o \in Operators, NEW holds \in BOOLEAN, ApplyGuard(o, holds)
  PROVE  cr' \in Resource /\ uptodate' \in [Operators -> BOOLEAN]
  <1>1. [cr EXCEPT !.guard = IF holds THEN @ \cup {o} ELSE @ \ {o}] \in Resource
    BY DEF TypeOK, Resource
  <1> QED BY <1>1, StoreType DEF ApplyGuard, TypeOK

LEMMA NoWriteType ==
  ASSUME TypeOK, NoWrite
  PROVE  cr' \in Resource /\ uptodate' \in [Operators -> BOOLEAN]
  BY DEF TypeOK, NoWrite

ReconcileTypeOK ==
  /\ obj \in [Operators -> Resource] /\ fresh \in [Operators -> BOOLEAN]
  /\ queued \in [Operators -> BOOLEAN] /\ pc \in [Operators -> Steps]

LEMMA ContinueType ==
  ASSUME TypeOK, NEW o \in Operators, NEW step \in Steps, NEW copy \in Resource,
         NEW latest \in BOOLEAN, Continue(o, step, copy, latest)
  PROVE  ReconcileTypeOK'
  BY DEF TypeOK, Continue, StillFresh, ReconcileTypeOK, Steps

LEMMA ReturnType ==
  ASSUME TypeOK, NEW o \in Operators, NEW requeue \in BOOLEAN, Return(o, requeue)
  PROVE  ReconcileTypeOK'
  BY NoCopyType DEF TypeOK, Return, StillFresh, ReconcileTypeOK, Steps

LEMMA UpdateThenType ==
  ASSUME TypeOK, NEW o \in Operators, NEW new \in Resource, NEW step \in Steps,
         UpdateThen(o, new, step)
  PROVE  cr' \in Resource /\ uptodate' \in [Operators -> BOOLEAN] /\ ReconcileTypeOK'
  <1>1. Updated(new) \in Resource
    BY UpdatedType DEF TypeOK
  <1> QED BY <1>1, StoreType, ContinueType, ReturnType, NoWriteType DEF UpdateThen

\* What the actions of a reconcile have to give for TypeOK.
LEMMA StepTypes ==
  ASSUME TypeOK, cr' \in Resource, uptodate' \in [Operators -> BOOLEAN], ReconcileTypeOK',
         objects' \subseteq Instances, UNCHANGED <<cache, notice>>,
         edits' = edits, faults' \in 0..MaxFaults, transferred' = transferred
  PROVE  TypeOK'
  BY DEF TypeOK, ReconcileTypeOK, Steps

LEMMA StepTypeOK ==
  ASSUME TypeOK, NEW o \in Operators, Step(o)
  PROVE  TypeOK'
  <1> USE DEF limits
  <1>0. /\ cache[o] \in Resource /\ obj[o] \in Resource
        /\ fresh[o] \in BOOLEAN /\ uptodate[o] \in BOOLEAN
        /\ objects \subseteq Instances /\ faults \in 0..MaxFaults
    BY DEF TypeOK
  <1>1. CASE GetNotFound(o)
    BY <1>1, NoWriteType, ReturnType, StepTypes, <1>0 DEF GetNotFound
  <1>2. CASE GetDeleting(o)
    BY <1>2, NoWriteType, ContinueType, StepTypes, <1>0 DEF GetDeleting, Steps
  <1>3. CASE InstanceGatePinned(o)
    <2>1. [cache[o] EXCEPT !.resolved = "Pinned"] \in Resource
      BY <1>0 DEF Resource
    <2> QED BY <1>3, <2>1, NoWriteType, ContinueType, ReturnType, StepTypes, <1>0
            DEF InstanceGatePinned, Steps
  <1>4. CASE InstanceGateAssume(o)
    <2> DEFINE assumed == [cache[o] EXCEPT !.resolved = "Assumed"]
    <2>1. assumed \in Resource
      BY <1>0 DEF Resource
    <2>2. cr' \in Resource /\ uptodate' \in [Operators -> BOOLEAN]
      BY <1>4, <2>1, NoWriteType, ApplyStatusType DEF InstanceGateAssume
    <2>3. uptodate'[o] \in BOOLEAN
      BY <2>2
    <2>4. ReconcileTypeOK'
      BY <1>4, <2>1, <2>3, ContinueType, ReturnType, <1>0 DEF InstanceGateAssume, Steps
    <2> QED BY <1>4, <2>2, <2>4, StepTypes, <1>0 DEF InstanceGateAssume
  <1>5. CASE InstanceGateAmbiguous(o)
    <2>1. [cache[o] EXCEPT !.resolved = "AmbiguousInstance"] \in Resource
      BY <1>0 DEF Resource
    <2> QED BY <1>5, <2>1, ApplyStatusType, ReturnType, StepTypes, <1>0
            DEF InstanceGateAmbiguous
  <1>6. CASE ManagementGateOwner(o)
    <2>1. cr' \in Resource /\ uptodate' \in [Operators -> BOOLEAN]
      BY <1>6, NoWriteType, ApplyGuardType DEF ManagementGateOwner
    <2>2. Admitted(o) \in Steps /\ StillFresh(o) \in BOOLEAN
      BY <1>0 DEF Admitted, StillFresh, Steps
    <2>3. ReconcileTypeOK'
      BY <1>6, <2>2, ContinueType, ReturnType, <1>0 DEF ManagementGateOwner
    <2> QED BY <1>6, <2>1, <2>3, StepTypes, <1>0 DEF ManagementGateOwner
  <1>7. CASE ManagementGateUnstamped(o)
    BY <1>7, NoWriteType, ContinueType, StepTypes, <1>0 DEF ManagementGateUnstamped, Steps
  <1>8. CASE ManagementGateStamp(o)
    <2>1. [obj[o] EXCEPT !.owner = o] \in Resource
      BY <1>0 DEF Resource
    <2> QED BY <1>8, <2>1, UpdateThenType, StepTypes, <1>0 DEF ManagementGateStamp, Steps
  <1>9. CASE ManagementGateForeign(o)
    BY <1>9, ApplyGuardType, ReturnType, StepTypes, <1>0 DEF ManagementGateForeign
  <1>10. CASE EnsureFinalizer(o)
    <2>1. [obj[o] EXCEPT !.finalizer = TRUE] \in Resource
      BY <1>0 DEF Resource
    <2>2. cr' \in Resource /\ uptodate' \in [Operators -> BOOLEAN] /\ ReconcileTypeOK'
      BY <1>10, <2>1, NoWriteType, ContinueType, UpdateThenType, <1>0
         DEF EnsureFinalizer, Steps
    <2> QED BY <1>10, <2>2, StepTypes, <1>0 DEF EnsureFinalizer
  <1>11. CASE Ensure(o)
    <2>1. objects' \subseteq Instances
      BY <1>11, <1>0, InstanceType DEF Ensure
    <2> QED BY <1>11, <2>1, NoWriteType, ContinueType, StepTypes, <1>0 DEF Ensure, Steps
  <1>12. CASE MarkReady(o)
    <2>1. [obj[o] EXCEPT !.recorded = Instance[o]] \in Resource
      BY <1>0, InstanceType DEF Resource
    <2>2. cr' \in Resource /\ uptodate' \in [Operators -> BOOLEAN]
      BY <1>12, <2>1, NoWriteType, ApplyStatusType DEF MarkReady
    <2> QED BY <1>12, <2>2, ReturnType, StepTypes, <1>0 DEF MarkReady
  <1>13. CASE Cleanup(o)
    <2>1. objects' \subseteq Instances
      BY <1>13, <1>0 DEF Cleanup
    <2> QED BY <1>13, <2>1, NoWriteType, ContinueType, StepTypes, <1>0 DEF Cleanup, Steps
  <1>14. CASE RemoveFinalizer(o)
    <2>1. [obj[o] EXCEPT !.finalizer = FALSE] \in Resource
      BY <1>0 DEF Resource
    <2>2. Updated([obj[o] EXCEPT !.finalizer = FALSE]) \in Resource
      BY <2>1, UpdatedType DEF TypeOK
    <2>3. cr' \in Resource /\ uptodate' \in [Operators -> BOOLEAN]
      BY <1>14, <2>2, NoWriteType, StoreType DEF RemoveFinalizer
    <2>4. ReconcileTypeOK'
      BY <1>14, ReturnType DEF RemoveFinalizer
    <2> QED BY <1>14, <2>3, <2>4, StepTypes, <1>0 DEF RemoveFinalizer
  <1> QED BY <1>1, <1>2, <1>3, <1>4, <1>5, <1>6, <1>7, <1>8, <1>9, <1>10, <1>11,
             <1>12, <1>13, <1>14 DEF Step

LEMMA EditTypeOK ==
  ASSUME TypeOK, NEW new \in Resource, NEW annotation \in BOOLEAN, Edit(new, annotation)
  PROVE  TypeOK'
  <1>1. edits' \in 0..MaxEdits
    BY GateAssumption DEF Edit, TypeOK
  <1>2. cr' \in Resource /\ uptodate' \in [Operators -> BOOLEAN]
    BY StoreType DEF Edit
  <1> QED BY <1>1, <1>2 DEF Edit, TypeOK

LEMMA NextTypeOK ==
  ASSUME TypeOK, [Next]_vars
  PROVE  TypeOK'
  <1>1. CASE UNCHANGED vars
    BY <1>1 DEF TypeOK, vars, informers, reconcile, limits
  <1>2. ASSUME NEW o \in Operators, Step(o) PROVE TypeOK'
    BY <1>2, StepTypeOK
  <1>3. ASSUME NEW o \in Operators, Observe(o) PROVE TypeOK'
    BY <1>3 DEF Observe, TypeOK, reconcile, limits
  <1>4. ASSUME NEW o \in Operators, Fault(o) PROVE TypeOK'
    <2>1. faults' \in 0..MaxFaults
      BY <1>4, GateAssumption DEF Fault, TypeOK
    <2>2. objects \subseteq Instances
      BY DEF TypeOK
    <2> QED BY <1>4, <2>1, <2>2, NoWriteType, ReturnType, StepTypes DEF Fault
  <1>5. ASSUME NEW i \in Instances \cup {None}, Pin(i) PROVE TypeOK'
    <2>1. [cr EXCEPT !.pin = i] \in Resource
      BY DEF TypeOK, Resource
    <2> QED BY <1>5, <2>1, EditTypeOK DEF Pin
  <1>6. ASSUME NEW p \in Operators \cup {None}, Transfer(p) PROVE TypeOK'
    <2>1. [cr EXCEPT !.owner = p] \in Resource
      BY DEF TypeOK, Resource
    <2> QED BY <1>6, <2>1, EditTypeOK DEF Transfer
  <1>7. CASE Delete
    <2>1. Collected([cr EXCEPT !.deleting = TRUE]) \in Resource
      BY DEF TypeOK, Resource, Collected
    <2> QED BY <1>7, <2>1, EditTypeOK DEF Delete
  <1> QED BY <1>1, <1>2, <1>3, <1>4, <1>5, <1>6, <1>7 DEF Next

\* Every variable keeps its type.
THEOREM TypeCorrect == Spec => []TypeOK
  <1>1. ASSUME Init PROVE TypeOK
    <2>1. cr \in Resource
      BY <1>1, CreatedType, UnstampedType DEF Init
    <2>2. edits \in 0..MaxEdits /\ faults \in 0..MaxFaults
      BY <1>1, GateAssumption DEF Init
    <2> QED BY <1>1, <2>1, <2>2, NoCopyType DEF Init, TypeOK
  <1>2. TypeOK /\ [Next]_vars => TypeOK'
    BY NextTypeOK
  <1> QED BY <1>1, <1>2, PTL DEF Spec

-----------------------------------------------------------------------------
(* What an Update may rely on.                                             *)

\* A copy with the resource's resourceVersion tells its present metadata; and
\* a cleanup was let in by the copy it goes on with.
FreshCopies ==
  \A o \in Operators :
    /\ uptodate[o] => cache[o] = cr
    /\ fresh[o] => /\ obj[o].owner = cr.owner
                   /\ obj[o].finalizer = cr.finalizer
    /\ pc[o] \in {"cleanup", "release"} => obj[o].owner \in {None, o}

\* How the steps of a reconcile leave the copies: they keep what they read or
\* take over what they wrote.
LEMMA ContinueFresh ==
  ASSUME TypeOK, FreshCopies, NEW o \in Operators, NEW step \in Steps,
         NEW copy \in Resource, NEW latest \in BOOLEAN,
         Continue(o, step, copy, latest), UNCHANGED cache,
         uptodate' = [p \in Operators |-> uptodate[p] /\ cr' = cr],
         latest => copy.owner = cr'.owner /\ copy.finalizer = cr'.finalizer,
         step \in {"cleanup", "release"} => copy.owner \in {None, o}
  PROVE  FreshCopies'
  <1> SUFFICES ASSUME NEW p \in Operators
               PROVE  /\ uptodate'[p] => cache'[p] = cr'
                      /\ fresh'[p] => /\ obj'[p].owner = cr'.owner
                                      /\ obj'[p].finalizer = cr'.finalizer
                      /\ pc'[p] \in {"cleanup", "release"} => obj'[p].owner \in {None, p}
    BY DEF FreshCopies
  <1>1. uptodate'[p] => cache'[p] = cr'
    BY DEF FreshCopies
  <1>2. CASE p = o
    <2>1. obj'[p] = copy /\ fresh'[p] = latest /\ pc'[p] = step
      BY <1>2 DEF Continue, TypeOK
    <2> QED BY <1>1, <1>2, <2>1
  <1>3. CASE p # o
    <2>1. obj'[p] = obj[p] /\ fresh'[p] = (fresh[p] /\ cr' = cr) /\ pc'[p] = pc[p]
      BY <1>3 DEF Continue, StillFresh, TypeOK
    <2> QED BY <1>1, <2>1 DEF FreshCopies
  <1> QED BY <1>2, <1>3

LEMMA ReturnFresh ==
  ASSUME TypeOK, FreshCopies, NEW o \in Operators, NEW requeue \in BOOLEAN,
         Return(o, requeue), UNCHANGED cache,
         uptodate' = [p \in Operators |-> uptodate[p] /\ cr' = cr]
  PROVE  FreshCopies'
  <1> SUFFICES ASSUME NEW p \in Operators
               PROVE  /\ uptodate'[p] => cache'[p] = cr'
                      /\ fresh'[p] => /\ obj'[p].owner = cr'.owner
                                      /\ obj'[p].finalizer = cr'.finalizer
                      /\ pc'[p] \in {"cleanup", "release"} => obj'[p].owner \in {None, p}
    BY DEF FreshCopies
  <1>1. uptodate'[p] => cache'[p] = cr'
    BY DEF FreshCopies
  <1>2. CASE p = o
    <2>1. ~fresh'[p] /\ pc'[p] = "idle"
      BY <1>2 DEF Return, TypeOK
    <2> QED BY <1>1, <2>1
  <1>3. CASE p # o
    <2>1. obj'[p] = obj[p] /\ fresh'[p] = (fresh[p] /\ cr' = cr) /\ pc'[p] = pc[p]
      BY <1>3 DEF Return, StillFresh, TypeOK
    <2> QED BY <1>1, <2>1 DEF FreshCopies
  <1> QED BY <1>2, <1>3

LEMMA StoreUptodate ==
  ASSUME TypeOK
  PROVE  /\ NoWrite => uptodate' = [p \in Operators |-> uptodate[p] /\ cr' = cr]
         /\ \A new : Store(new) => uptodate' = [p \in Operators |-> uptodate[p] /\ cr' = cr]
  BY DEF TypeOK, NoWrite, Store

\* Writes to status leave the metadata alone; an accepted Update makes it that
\* of the copy, which differs by what the operator changed in it only.
Metadata(r) == <<r.owner, r.finalizer>>

LEMMA WritesMetadata ==
  ASSUME TypeOK, NEW o \in Operators
  PROVE  /\ NoWrite => Metadata(cr') = Metadata(cr)
         /\ \A copy \in Resource : ApplyStatus(o, copy) => Metadata(cr') = Metadata(cr)
         /\ \A holds : ApplyGuard(o, holds) => Metadata(cr') = Metadata(cr)
         /\ \A new \in Resource : Metadata(Updated(new)) = Metadata(new)
  BY DEF TypeOK, Resource, NoWrite, ApplyStatus, ApplyGuard, Store, Updated, Collected,
         Metadata

\* Who changes the metadata in o's step: o, when it adopts the resource that
\* has no manager, or releases one that has no other.
MetadataRule(o) ==
  /\ cr'.owner # cr.owner => cr.owner = None /\ cr'.owner = o
  /\ cr.finalizer /\ ~cr'.finalizer => pc[o] = "release" /\ cr.owner \in {None, o}

LEMMA SameMetadata ==
  ASSUME NEW o, Metadata(cr') = Metadata(cr)
  PROVE  MetadataRule(o)
  BY DEF MetadataRule, Metadata

LEMMA UpdateThenFresh ==
  ASSUME TypeOK, FreshCopies, NEW o \in Operators, NEW new \in Resource,
         NEW step \in Steps \ {"cleanup", "release"},
         UpdateThen(o, new, step), UNCHANGED cache
  PROVE  /\ FreshCopies'
         /\ \/ Metadata(cr') = Metadata(cr)
            \/ fresh[o] /\ Metadata(cr') = Metadata(new)
  <1>1. CASE UpdateAccepted(o)
    <2>1. cr' = Updated(new) /\ Updated(new) \in Resource
      BY <1>1, UpdatedType DEF UpdateThen, Store, TypeOK
    <2>2. FreshCopies'
      BY <1>1, <2>1, ContinueFresh, StoreUptodate DEF UpdateThen
    <2> QED BY <1>1, <2>1, <2>2, WritesMetadata DEF UpdateAccepted
  <1>2. CASE ~UpdateAccepted(o)
    BY <1>2, ReturnFresh, StoreUptodate, WritesMetadata DEF UpdateThen
  <1> QED BY <1>1, <1>2

LEMMA StepFresh ==
  ASSUME TypeOK, FreshCopies, NEW o \in Operators, Step(o)
  PROVE  FreshCopies' /\ MetadataRule(o)
  <1> DEFINE Tracked == uptodate' = [p \in Operators |-> uptodate[p] /\ cr' = cr]
  <1>0. /\ cache[o] \in Resource /\ obj[o] \in Resource
        /\ fresh[o] \in BOOLEAN /\ uptodate[o] \in BOOLEAN
        /\ uptodate[o] => cache[o] = cr
        /\ fresh[o] => obj[o].owner = cr.owner /\ obj[o].finalizer = cr.finalizer
        /\ pc[o] \in {"cleanup", "release"} => obj[o].owner \in {None, o}
    BY DEF TypeOK, FreshCopies
  <1>a. NoWrite => Tracked /\ MetadataRule(o) /\ cr' = cr
    BY StoreUptodate, WritesMetadata, SameMetadata DEF NoWrite
  <1>b. \A copy \in Resource : ApplyStatus(o, copy) => Tracked /\ MetadataRule(o)
    BY StoreUptodate, WritesMetadata, SameMetadata DEF ApplyStatus
  <1>c. \A holds \in BOOLEAN : ApplyGuard(o, holds) => Tracked /\ MetadataRule(o)
    BY StoreUptodate, WritesMetadata, SameMetadata DEF ApplyGuard
  <1>1. CASE GetNotFound(o)
    BY <1>1, <1>a, ReturnFresh DEF GetNotFound
  <1>2. CASE GetDeleting(o)
    BY <1>2, <1>a, <1>0, ContinueFresh DEF GetDeleting, Steps
  <1>3. CASE InstanceGatePinned(o)
    <2>1. /\ [cache[o] EXCEPT !.resolved = "Pinned"] \in Resource
          /\ [cache[o] EXCEPT !.resolved = "Pinned"].owner = cache[o].owner
          /\ [cache[o] EXCEPT !.resolved = "Pinned"].finalizer = cache[o].finalizer
      BY <1>0 DEF Resource
    <2> QED BY <1>3, <2>1, <1>a, <1>0, ContinueFresh, ReturnFresh
            DEF InstanceGatePinned, Steps
  <1>4. CASE InstanceGateAssume(o)
    <2> DEFINE assumed == [cache[o] EXCEPT !.resolved = "Assumed"]
    <2>1. /\ assumed \in Resource
          /\ assumed.owner = cache[o].owner /\ assumed.finalizer = cache[o].finalizer
      BY <1>0 DEF Resource
    <2>2. Tracked /\ MetadataRule(o)
      BY <1>4, <2>1, <1>a, <1>b DEF InstanceGateAssume
    <2>3. uptodate'[o] \in BOOLEAN /\ (uptodate'[o] => uptodate[o] /\ cr' = cr)
      BY <2>2, <1>0
    <2>4. UNCHANGED cache /\ "management" \in Steps
      BY <1>4 DEF InstanceGateAssume, Steps
    <2>5. CASE NoWrite /\ Continue(o, "management", assumed, uptodate[o])
      <3>1. uptodate[o] => assumed.owner = cr'.owner /\ assumed.finalizer = cr'.finalizer
        BY <2>1, <2>5, <1>a, <1>0
      <3> HIDE DEF assumed
      <3> QED BY <2>1, <2>2, <2>4, <2>5, <3>1, <1>0, ContinueFresh
    <2>6. CASE Continue(o, "management", assumed, uptodate'[o])
      <3>1. uptodate'[o] => assumed.owner = cr'.owner /\ assumed.finalizer = cr'.finalizer
        BY <2>1, <2>3, <1>0
      <3> HIDE DEF assumed
      <3> QED BY <2>1, <2>2, <2>3, <2>4, <2>6, <3>1, ContinueFresh
    <2>7. CASE Return(o, TRUE)
      BY <2>2, <2>4, <2>7, ReturnFresh
    <2> QED BY <1>4, <2>2, <2>5, <2>6, <2>7 DEF InstanceGateAssume
  <1>5. CASE InstanceGateAmbiguous(o)
    <2>1. [cache[o] EXCEPT !.resolved = "AmbiguousInstance"] \in Resource
      BY <1>0 DEF Resource
    <2> QED BY <1>5, <2>1, <1>b, ReturnFresh DEF InstanceGateAmbiguous
  <1>6. CASE ManagementGateOwner(o)
    <2>1. Tracked /\ MetadataRule(o)
      BY <1>6, <1>a, <1>c DEF ManagementGateOwner
    <2>2. Admitted(o) \in Steps /\ StillFresh(o) \in BOOLEAN
      BY <1>0 DEF Admitted, StillFresh, Steps
    <2>3. FreshCopies'
      BY <1>6, <2>1, <2>2, <1>a, <1>0, ContinueFresh, ReturnFresh
         DEF ManagementGateOwner, StillFresh
    <2> QED BY <2>1, <2>3
  <1>7. CASE ManagementGateUnstamped(o)
    BY <1>7, <1>a, <1>0, ContinueFresh DEF ManagementGateUnstamped, Steps
  <1>8. CASE ManagementGateStamp(o)
    <2> DEFINE new == [obj[o] EXCEPT !.owner = o]
    <2>1. new \in Resource /\ new.owner = o /\ new.finalizer = obj[o].finalizer
      BY <1>0 DEF Resource
    <2>2. /\ FreshCopies'
          /\ Metadata(cr') = Metadata(cr) \/ (fresh[o] /\ Metadata(cr') = Metadata(new))
      BY <1>8, <2>1, UpdateThenFresh DEF ManagementGateStamp, Steps
    <2> QED BY <1>8, <2>1, <2>2, <1>0 DEF ManagementGateStamp, MetadataRule, Metadata
  <1>9. CASE ManagementGateForeign(o)
    BY <1>9, <1>c, ReturnFresh DEF ManagementGateForeign
  <1>10. CASE EnsureFinalizer(o)
    <2> DEFINE new == [obj[o] EXCEPT !.finalizer = TRUE]
    <2>1. new \in Resource /\ new.owner = obj[o].owner /\ new.finalizer = TRUE
      BY <1>0 DEF Resource
    <2>2. CASE obj[o].finalizer
      BY <1>10, <2>2, <1>a, <1>0, ContinueFresh DEF EnsureFinalizer, Steps
    <2>3. CASE ~obj[o].finalizer
      <3>1. /\ FreshCopies'
            /\ Metadata(cr') = Metadata(cr) \/ (fresh[o] /\ Metadata(cr') = Metadata(new))
        BY <1>10, <2>1, <2>3, UpdateThenFresh DEF EnsureFinalizer, Steps
      <3> QED BY <2>1, <3>1, <1>0 DEF MetadataRule, Metadata
    <2> QED BY <2>2, <2>3
  <1>11. CASE Ensure(o)
    BY <1>11, <1>a, <1>0, ContinueFresh DEF Ensure, Steps
  <1>12. CASE MarkReady(o)
    <2>1. [obj[o] EXCEPT !.recorded = Instance[o]] \in Resource
      BY <1>0, InstanceType DEF Resource
    <2> QED BY <1>12, <2>1, <1>a, <1>b, ReturnFresh DEF MarkReady
  <1>13. CASE Cleanup(o)
    BY <1>13, <1>a, <1>0, ContinueFresh DEF Cleanup, Steps
  <1>14. CASE RemoveFinalizer(o)
    <2> DEFINE new == [obj[o] EXCEPT !.finalizer = FALSE]
    <2>1. new \in Resource /\ new.owner = obj[o].owner
      BY <1>0 DEF Resource
    <2>2. CASE obj[o].finalizer /\ UpdateAccepted(o)
      <3>1. Store(Updated(new)) /\ cr' = Updated(new) /\ Return(o, FALSE) /\ UNCHANGED cache
        BY <1>14, <2>2 DEF RemoveFinalizer, Store
      <3>2. FreshCopies'
        BY <3>1, ReturnFresh, StoreUptodate
      <3>3. cr'.owner = cr.owner
        BY <2>1, <2>2, <3>1, <1>0, WritesMetadata DEF UpdateAccepted, Metadata
      <3> QED BY <1>14, <2>2, <3>2, <3>3, <1>0
              DEF RemoveFinalizer, UpdateAccepted, MetadataRule
    <2>3. CASE ~(obj[o].finalizer /\ UpdateAccepted(o))
      BY <1>14, <2>3, <1>a, ReturnFresh DEF RemoveFinalizer
    <2> QED BY <2>2, <2>3
  <1> QED BY <1>1, <1>2, <1>3, <1>4, <1>5, <1>6, <1>7, <1>8, <1>9, <1>10, <1>11,
             <1>12, <1>13, <1>14 DEF Step

LEMMA EditFresh ==
  ASSUME TypeOK, FreshCopies, NEW new, NEW annotation, Edit(new, annotation)
  PROVE  FreshCopies'
  BY DEF TypeOK, FreshCopies, Edit, Store

LEMMA NextFresh ==
  ASSUME TypeOK, FreshCopies, [Next]_vars
  PROVE  FreshCopies'
  <1>1. CASE UNCHANGED vars
    BY <1>1 DEF FreshCopies, vars, informers, reconcile
  <1>2. ASSUME NEW o \in Operators, Step(o) PROVE FreshCopies'
    BY <1>2, StepFresh
  <1>3. ASSUME NEW o \in Operators, Observe(o) PROVE FreshCopies'
    BY <1>3 DEF Observe, FreshCopies, reconcile, TypeOK
  <1>4. ASSUME NEW o \in Operators, Fault(o) PROVE FreshCopies'
    BY <1>4, ReturnFresh, StoreUptodate DEF Fault
  <1>5. ASSUME NEW i \in Instances \cup {None}, Pin(i) PROVE FreshCopies'
    BY <1>5, EditFresh DEF Pin
  <1>6. ASSUME NEW p \in Operators \cup {None}, Transfer(p) PROVE FreshCopies'
    BY <1>6, EditFresh DEF Transfer
  <1>7. CASE Delete
    BY <1>7, EditFresh DEF Delete
  <1> QED BY <1>1, <1>2, <1>3, <1>4, <1>5, <1>6, <1>7 DEF Next

THEOREM FreshCopiesInvariant == Spec => [](TypeOK /\ FreshCopies)
  <1>1. Init => FreshCopies
    BY DEF Init, FreshCopies
  <1>2. TypeOK /\ FreshCopies /\ [Next]_vars => FreshCopies'
    BY NextFresh
  <1> QED BY <1>1, <1>2, TypeCorrect, PTL DEF Spec

-----------------------------------------------------------------------------
(* The annotation and the finalizer.                                       *)

LEMMA NextMetadata ==
  ASSUME TypeOK, FreshCopies, [Next]_vars
  PROVE  /\ cr'.owner # cr.owner /\ cr.owner # None => edits' # edits
         /\ cr.finalizer /\ ~cr'.finalizer =>
              \E o \in Operators : pc[o] = "release" /\ cr.owner \in {None, o}
  <1> DEFINE Goal ==
        /\ cr'.owner # cr.owner /\ cr.owner # None => edits' # edits
        /\ cr.finalizer /\ ~cr'.finalizer =>
             \E o \in Operators : pc[o] = "release" /\ cr.owner \in {None, o}
  <1>1. CASE cr' = cr
    BY <1>1
  <1>2. ASSUME NEW o \in Operators, Step(o) PROVE Goal
    BY <1>2, StepFresh DEF MetadataRule
  <1>3. ASSUME NEW new, NEW annotation, Edit(new, annotation), new.finalizer = cr.finalizer
        PROVE  Goal
    <2>1. edits' # edits
      BY <1>3, GateAssumption DEF Edit, TypeOK
    <2> QED BY <1>3, <2>1 DEF Edit, Store
  <1>4. ASSUME NEW i \in Instances \cup {None}, Pin(i) PROVE Goal
    <2>1. [cr EXCEPT !.pin = i].finalizer = cr.finalizer
      BY DEF TypeOK, Resource
    <2> QED BY <1>3, <1>4, <2>1 DEF Pin
  <1>5. ASSUME NEW p \in Operators \cup {None}, Transfer(p) PROVE Goal
    <2>1. [cr EXCEPT !.owner = p].finalizer = cr.finalizer
      BY DEF TypeOK, Resource
    <2> QED BY <1>3, <1>5, <2>1 DEF Transfer
  <1>6. CASE Delete
    <2>1. Collected([cr EXCEPT !.deleting = TRUE]).finalizer = cr.finalizer
      BY DEF TypeOK, Resource, Collected
    <2> QED BY <1>3, <1>6, <2>1 DEF Delete
  <1> QED BY <1>1, <1>2, <1>4, <1>5, <1>6
          DEF Next, vars, Observe, Fault, NoWrite

\* No operator replaces a stamp: not even an operator that has not seen it,
\* because its Update then has an older resourceVersion.
THEOREM StampIsKept == Spec => StampKept
  <1>1. TypeOK /\ FreshCopies /\ [Next]_vars
          => [cr'.owner # cr.owner /\ cr.owner # None => edits' # edits]_vars
    BY NextMetadata
  <1> QED BY <1>1, FreshCopiesInvariant, PTL DEF Spec, StampKept

\* A deletion is completed by an operator that manages the resource at that
\* moment, or when none does.
THEOREM FinalizerIsGuarded == Spec => FinalizerGoesByManager
  <1>1. TypeOK /\ FreshCopies /\ [Next]_vars
          => [cr.finalizer /\ ~cr'.finalizer =>
                \E o \in Operators : pc[o] = "release" /\ cr.owner \in {None, o}]_vars
    BY NextMetadata
  <1> QED BY <1>1, FreshCopiesInvariant, PTL DEF Spec, FinalizerGoesByManager

-----------------------------------------------------------------------------
(* Exclusion.                                                              *)

WorkSteps == {"finalizer", "ensure", "ready"}

\* The inductive form of OneManager: without transfers the resource has one
\* manager in its life, which every copy names if it names any; it alone works,
\* and the object is where it works.
SoleManager ==
  ~transferred =>
    /\ \A o \in Operators : /\ cache[o].owner \in {None, cr.owner}
                            /\ obj[o].owner \in {None, cr.owner}
                            /\ pc[o] \in WorkSteps => cr.owner = o
    /\ \A i \in objects : cr.owner \in Operators /\ i = Instance[cr.owner]

\* What o's step does to what SoleManager speaks of.
StepOwnership(o) ==
  /\ UNCHANGED <<cache, transferred>>
  /\ \A p \in Operators \ {o} : obj'[p] = obj[p] /\ pc'[p] = pc[p]
  /\ obj'[o].owner \in {None, cache[o].owner, obj[o].owner, cr'.owner}
  /\ pc'[o] \in WorkSteps => pc[o] \in WorkSteps \/ obj[o].owner = o \/ cr'.owner = o
  /\ \A i \in objects' : i \in objects \/ (pc[o] \in WorkSteps /\ i = Instance[o])

LEMMA NoCopyOwner == NoCopy.owner = None
  BY DEF NoCopy, Created

LEMMA ContinueOwnership ==
  ASSUME TypeOK, NEW o \in Operators, NEW step, NEW copy, NEW latest,
         Continue(o, step, copy, latest), UNCHANGED <<cache, transferred>>,
         copy.owner \in {cache[o].owner, obj[o].owner, cr'.owner},
         step \in WorkSteps => pc[o] \in WorkSteps \/ obj[o].owner = o \/ cr'.owner = o,
         \A i \in objects' : i \in objects \/ (pc[o] \in WorkSteps /\ i = Instance[o])
  PROVE  StepOwnership(o)
  BY DEF TypeOK, Continue, StepOwnership

LEMMA ReturnOwnership ==
  ASSUME TypeOK, NEW o \in Operators, NEW requeue,
         Return(o, requeue), UNCHANGED <<cache, transferred, objects>>
  PROVE  StepOwnership(o)
  BY NoCopyOwner DEF TypeOK, Return, StepOwnership, WorkSteps

LEMMA StepOwns ==
  ASSUME TypeOK, FreshCopies, NEW o \in Operators, Step(o)
  PROVE  StepOwnership(o)
  <1> USE DEF limits
  <1>0. cache[o] \in Resource /\ obj[o] \in Resource
    BY DEF TypeOK
  <1>1. CASE GetNotFound(o)
    BY <1>1, ReturnOwnership DEF GetNotFound
  <1>2. CASE GetDeleting(o)
    BY <1>2, ContinueOwnership DEF GetDeleting, WorkSteps
  <1>3. CASE InstanceGatePinned(o)
    <2>1. [cache[o] EXCEPT !.resolved = "Pinned"].owner = cache[o].owner
      BY <1>0 DEF Resource
    <2> QED BY <1>3, <2>1, ContinueOwnership, ReturnOwnership
            DEF InstanceGatePinned, WorkSteps
  <1>4. CASE InstanceGateAssume(o)
    <2>1. [cache[o] EXCEPT !.resolved = "Assumed"].owner = cache[o].owner
      BY <1>0 DEF Resource
    <2> QED BY <1>4, <2>1, ContinueOwnership, ReturnOwnership
            DEF InstanceGateAssume, WorkSteps
  <1>5. CASE InstanceGateAmbiguous(o)
    BY <1>5, ReturnOwnership DEF InstanceGateAmbiguous
  <1>6. CASE ManagementGateOwner(o)
    BY <1>6, ContinueOwnership, ReturnOwnership DEF ManagementGateOwner
  <1>7. CASE ManagementGateUnstamped(o)
    BY <1>7, ContinueOwnership DEF ManagementGateUnstamped, WorkSteps
  <1>8. CASE ManagementGateStamp(o)
    <2> DEFINE new == [obj[o] EXCEPT !.owner = o]
    <2>1. new \in Resource /\ new.owner = o
      BY <1>0 DEF Resource
    <2>2. CASE UpdateAccepted(o)
      <3>1. cr' = Updated(new) /\ cr'.owner = o
        BY <1>8, <2>1, <2>2, WritesMetadata
           DEF ManagementGateStamp, UpdateThen, Store, Metadata
      <3> QED BY <1>8, <2>2, <3>1, ContinueOwnership DEF ManagementGateStamp, UpdateThen
    <2>3. CASE ~UpdateAccepted(o)
      BY <1>8, <2>3, ReturnOwnership DEF ManagementGateStamp, UpdateThen
    <2> QED BY <2>2, <2>3
  <1>9. CASE ManagementGateForeign(o)
    BY <1>9, ReturnOwnership DEF ManagementGateForeign
  <1>10. CASE EnsureFinalizer(o)
    <2> DEFINE new == [obj[o] EXCEPT !.finalizer = TRUE]
    <2>1. new \in Resource
      BY <1>0 DEF Resource
    <2>2. CASE obj[o].finalizer
      BY <1>10, <2>2, ContinueOwnership DEF EnsureFinalizer, WorkSteps
    <2>3. CASE ~obj[o].finalizer /\ UpdateAccepted(o)
      <3>1. cr' = Updated(new)
        BY <1>10, <2>3 DEF EnsureFinalizer, UpdateThen, Store
      <3> QED BY <1>10, <2>3, <3>1, ContinueOwnership
              DEF EnsureFinalizer, UpdateThen, WorkSteps
    <2>4. CASE ~obj[o].finalizer /\ ~UpdateAccepted(o)
      BY <1>10, <2>4, ReturnOwnership DEF EnsureFinalizer, UpdateThen
    <2> QED BY <2>2, <2>3, <2>4
  <1>11. CASE Ensure(o)
    BY <1>11, ContinueOwnership DEF Ensure, WorkSteps
  <1>12. CASE MarkReady(o)
    BY <1>12, ReturnOwnership DEF MarkReady
  <1>13. CASE Cleanup(o)
    <2>1. \A i \in objects' : i \in objects
      BY <1>13 DEF Cleanup
    <2> QED BY <1>13, <2>1, ContinueOwnership DEF Cleanup, WorkSteps
  <1>14. CASE RemoveFinalizer(o)
    BY <1>14, ReturnOwnership DEF RemoveFinalizer
  <1> QED BY <1>1, <1>2, <1>3, <1>4, <1>5, <1>6, <1>7, <1>8, <1>9, <1>10, <1>11,
             <1>12, <1>13, <1>14 DEF Step

LEMMA OwnershipSole ==
  ASSUME SoleManager, NEW o \in Operators, StepOwnership(o),
         cr'.owner # cr.owner => cr.owner = None /\ cr'.owner = o
  PROVE  SoleManager'
  <1> SUFFICES ASSUME ~transferred'
               PROVE  /\ \A p \in Operators : /\ cache'[p].owner \in {None, cr'.owner}
                                              /\ obj'[p].owner \in {None, cr'.owner}
                                              /\ pc'[p] \in WorkSteps => cr'.owner = p
                      /\ \A i \in objects' : cr'.owner \in Operators
                                             /\ i = Instance[cr'.owner]
    BY DEF SoleManager
  <1>1. StepOwnership(o) /\ (cr'.owner # cr.owner => cr.owner = None /\ cr'.owner = o)
    OBVIOUS
  <1>2. /\ \A p \in Operators : /\ cache[p].owner \in {None, cr.owner}
                                /\ obj[p].owner \in {None, cr.owner}
                                /\ pc[p] \in WorkSteps => cr.owner = p
        /\ \A i \in objects : cr.owner \in Operators /\ i = Instance[cr.owner]
    BY <1>1 DEF SoleManager, StepOwnership
  <1>3. \A p \in Operators : p # None
    BY GateAssumption
  <1>4. ASSUME NEW p \in Operators
        PROVE  /\ cache'[p].owner \in {None, cr'.owner}
               /\ obj'[p].owner \in {None, cr'.owner}
               /\ pc'[p] \in WorkSteps => cr'.owner = p
    <2>1. CASE p = o
      BY <1>1, <1>2, <1>3, <2>1 DEF StepOwnership
    <2>2. CASE p # o
      BY <1>1, <1>2, <1>3, <2>2 DEF StepOwnership
    <2> QED BY <2>1, <2>2
  <1>5. ASSUME NEW i \in objects'
        PROVE  cr'.owner \in Operators /\ i = Instance[cr'.owner]
    BY <1>1, <1>2, <1>3 DEF StepOwnership
  <1> QED BY <1>4, <1>5

LEMMA NextSole ==
  ASSUME TypeOK, FreshCopies, SoleManager, [Next]_vars
  PROVE  SoleManager'
  <1>1. CASE UNCHANGED vars
    BY <1>1 DEF SoleManager, vars, informers, reconcile, limits
  <1>2. ASSUME NEW o \in Operators, Step(o) PROVE SoleManager'
    BY <1>2, StepOwns, StepFresh, OwnershipSole DEF MetadataRule
  <1>3. ASSUME NEW o \in Operators, Observe(o) PROVE SoleManager'
    BY <1>3 DEF Observe, SoleManager, reconcile, limits, TypeOK
  <1>4. ASSUME NEW o \in Operators, Fault(o) PROVE SoleManager'
    <2>1. StepOwnership(o) /\ cr' = cr
      BY <1>4, ReturnOwnership DEF Fault, NoWrite
    <2> QED BY <2>1, OwnershipSole
  <1>5. ASSUME NEW new, NEW annotation, Edit(new, annotation),
               new.owner = cr.owner \/ annotation
        PROVE  SoleManager'
    BY <1>5 DEF Edit, Store, SoleManager
  <1>6. ASSUME NEW i \in Instances \cup {None}, Pin(i) PROVE SoleManager'
    <2>1. [cr EXCEPT !.pin = i].owner = cr.owner
      BY DEF TypeOK, Resource
    <2> QED BY <1>5, <1>6, <2>1 DEF Pin
  <1>7. ASSUME NEW p \in Operators \cup {None}, Transfer(p) PROVE SoleManager'
    BY <1>5, <1>7 DEF Transfer
  <1>8. CASE Delete
    <2>1. Collected([cr EXCEPT !.deleting = TRUE]).owner = cr.owner
      BY DEF TypeOK, Resource, Collected
    <2> QED BY <1>5, <1>8, <2>1 DEF Delete
  <1> QED BY <1>1, <1>2, <1>3, <1>4, <1>6, <1>7, <1>8 DEF Next

\* Unless a user changes the annotation, no two operators work on a resource
\* at the same time, and its object is on one instance at most.
THEOREM Exclusion == Spec => []OneManager
  <1>1. Init => SoleManager
    BY NoCopyOwner DEF Init, SoleManager, WorkSteps
  <1>2. TypeOK /\ FreshCopies /\ SoleManager /\ [Next]_vars => SoleManager'
    BY NextSole
  <1>3. SoleManager => OneManager
    BY DEF SoleManager, OneManager, OneWorks, OneObject, Working, WorkSteps
  <1> QED BY <1>1, <1>2, <1>3, FreshCopiesInvariant, PTL DEF Spec
=============================================================================
