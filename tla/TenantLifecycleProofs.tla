------------------------ MODULE TenantLifecycleProofs ------------------------
(***************************************************************************)
(* Theorems about TenantLifecycle, for every kind, any keys and ids and any*)
(* bounds: types, and the safety properties that the runs check. They rest *)
(* on what a copy of the resource, however old, still tells about it.      *)
(***************************************************************************)
EXTENDS TenantLifecycle, TLAPS

Steps == {"idle", "finalizer", "ensure", "record", "cleanup", "release"}

\* What the proofs need of a kind.
KindOK(k) ==
  /\ k.handle \in {"recorded", "spec", "nothing"}
  /\ k.lookup \in {"id", "idThenKey", "idByKey", "key"}

LEMMA KindsOK == \A k \in Kinds : KindOK(k)
  <1> USE DEF KindOK, OrgLevel
  <1>1. /\ KindOK(Organization) /\ KindOK(Project) /\ KindOK(HumanUser)
        /\ KindOK(IdentityProvider)
    BY DEF Organization, Project, HumanUser, IdentityProvider, InstanceLevel
  <1>2. KindOK(Domain) /\ KindOK(OrgMetadata) /\ KindOK(OrgMember)
    BY DEF Domain, OrgMetadata, OrgMember
  <1>3. /\ KindOK(LabelPolicy) /\ KindOK(PasswordAgePolicy) /\ KindOK(LockoutPolicy)
        /\ KindOK(LoginPolicy)
    BY DEF LabelPolicy, PasswordAgePolicy, LockoutPolicy, LoginPolicy
  <1>4. /\ KindOK(MessageText) /\ KindOK(NotificationPolicy)
        /\ KindOK(PasswordComplexityPolicy) /\ KindOK(PrivacyPolicy)
    BY DEF MessageText, NotificationPolicy, PasswordComplexityPolicy, PrivacyPolicy
  <1>5. KindOK(OIDCApp) /\ KindOK(APIApp) /\ KindOK(SAMLApp) /\ KindOK(ProjectRole)
    BY DEF OIDCApp, APIApp, SAMLApp, ProjectRole
  <1>6. /\ KindOK(ProjectGrant) /\ KindOK(UserGrant) /\ KindOK(ProjectMember)
        /\ KindOK(ProjectGrantMember)
    BY DEF ProjectGrant, UserGrant, ProjectMember, ProjectGrantMember
  <1>7. KindOK(ActionTarget) /\ KindOK(ActionExecution) /\ KindOK(InstanceMember)
    BY DEF ActionTarget, ActionExecution, InstanceMember, InstanceLevel
  <1>8. KindOK(EmailProvider) /\ KindOK(SmsProvider)
    BY DEF EmailProvider, SmsProvider, InstanceLevel
  <1>9. KindOK(GoogleIdP) /\ KindOK(GitHubIdP)
    BY DEF GoogleIdP, GitHubIdP, InstanceLevel
  <1> HIDE DEF KindOK, OrgLevel
  <1> QED BY <1>1, <1>2, <1>3, <1>4, <1>5, <1>6, <1>7, <1>8, <1>9, LifecycleAssumption DEF TenantKinds

-----------------------------------------------------------------------------
(* Types.                                                                  *)

LEMMA CreatedType == \A k \in Keys : Created(k) \in Resource
  BY DEF Created, Resource

\* The empty copy that a reconcile returns.
LEMMA NoCopyFields == NoCopy.id = None /\ NoCopy.gone /\ ~NoCopy.deleting
  <1> DEFINE k0 == CHOOSE k \in Keys : TRUE
  <1>1. NoCopy = [Created(k0) EXCEPT !.gone = TRUE]
    BY DEF NoCopy
  <1> HIDE DEF k0
  <1> QED BY <1>1 DEF Created

LEMMA NoCopyType == Keys # {} => NoCopy \in Resource
  <1> DEFINE k0 == CHOOSE k \in Keys : TRUE
  <1>1. NoCopy = [Created(k0) EXCEPT !.gone = TRUE]
    BY DEF NoCopy
  <1>2. Keys # {} => k0 \in Keys
    OBVIOUS
  <1> HIDE DEF k0
  <1> QED BY <1>1, <1>2, CreatedType DEF Resource

LEMMA CollectedType == \A r \in Resource : Collected(r) \in Resource
  BY DEF Collected, Resource

LEMMA StoreType ==
  ASSUME TypeOK, NEW new \in Resource, Store(new)
  PROVE  cr' \in Resource /\ uptodate' \in BOOLEAN
  BY DEF TypeOK, Store

LEMMA ApplyStatusType ==
  ASSUME TypeOK, NEW copy \in Resource, ApplyStatus(copy)
  PROVE  cr' \in Resource /\ uptodate' \in BOOLEAN
  <1>1. [cr EXCEPT !.id = copy.id, !.ready = copy.ready, !.condition = copy.condition]
          \in Resource
    BY DEF TypeOK, Resource
  <1> QED BY <1>1, StoreType DEF ApplyStatus, TypeOK

LEMMA NoWriteType ==
  ASSUME TypeOK, NoWrite
  PROVE  cr' \in Resource /\ uptodate' \in BOOLEAN
  BY DEF TypeOK, NoWrite

ReconcileTypeOK ==
  /\ obj \in Resource /\ fresh \in BOOLEAN /\ queued \in BOOLEAN /\ pc \in Steps

LEMMA ContinueType ==
  ASSUME TypeOK, NEW step \in Steps, NEW copy \in Resource, NEW latest \in BOOLEAN,
         Continue(step, copy, latest)
  PROVE  ReconcileTypeOK'
  BY DEF TypeOK, Continue, ReconcileTypeOK, Steps

LEMMA ReturnType ==
  ASSUME TypeOK, NEW requeue \in BOOLEAN, Return(requeue)
  PROVE  ReconcileTypeOK' /\ found' = None
  <1>1. Keys # {}
    BY DEF TypeOK, Resource
  <1> QED BY <1>1, NoCopyType DEF TypeOK, Return, ReconcileTypeOK, Steps

\* What the actions of the operator have to give for TypeOK.
LEMMA StepTypes ==
  ASSUME TypeOK, UNCHANGED <<spec, world, cache, notice, edits>>,
         cr' \in Resource, uptodate' \in BOOLEAN, ReconcileTypeOK',
         found' \in Ids \cup {None}, objects' \in [Ids -> Keys \cup {None}],
         made' \subseteq Ids, faults' \in 0..MaxFaults
  PROVE  TypeOK'
  BY DEF TypeOK, ReconcileTypeOK, Steps, spec, world

LEMMA StepTypeOK ==
  ASSUME TypeOK, Step
  PROVE  TypeOK'
  <1> USE DEF zitadel
  <1>0. /\ cache \in Resource /\ obj \in Resource
        /\ fresh \in BOOLEAN /\ uptodate \in BOOLEAN
        /\ found \in Ids \cup {None} /\ objects \in [Ids -> Keys \cup {None}]
        /\ made \subseteq Ids /\ faults \in 0..MaxFaults
    BY DEF TypeOK
  <1>1. CASE GetNotFound
    BY <1>1, <1>0, NoWriteType, ReturnType, StepTypes DEF GetNotFound
  <1>2. CASE FailClosed
    BY <1>2, <1>0, NoWriteType, ApplyStatusType, ReturnType, StepTypes DEF FailClosed
  <1>3. ASSUME NEW o \in Outcomes, ParentFails(o) PROVE TypeOK'
    <2> DEFINE copy == IF pc = "ensure" THEN obj ELSE cache
               told == [copy EXCEPT !.condition = "False",
                                    !.ready = @ /\ "unresolved" \notin kind.tells]
    <2>1. told \in Resource
      BY <1>0 DEF Resource
    <2>2. ApplyStatus(told) \/ NoWrite
      BY <1>3 DEF ParentFails
    <2>3. cr' \in Resource /\ uptodate' \in BOOLEAN
      BY <2>1, <2>2, NoWriteType, ApplyStatusType
    <2> QED BY <1>3, <1>0, <2>3, ReturnType, StepTypes DEF ParentFails
  <1>12. CASE NotSupported
    <2>1. [cache EXCEPT !.ready = FALSE, !.condition = "False"] \in Resource
      BY <1>0 DEF Resource
    <2> QED BY <1>12, <2>1, <1>0, ApplyStatusType, ReturnType, StepTypes DEF NotSupported
  <1>13. CASE InvalidSpec
    <2>1. [cache EXCEPT !.condition = "False"] \in Resource
      BY <1>0 DEF Resource
    <2> QED BY <1>13, <2>1, <1>0, NoWriteType, ApplyStatusType, ReturnType, StepTypes
            DEF InvalidSpec
  <1>4. CASE ParentsResolved
    BY <1>4, <1>0, NoWriteType, ContinueType, StepTypes DEF ParentsResolved, Steps
  <1>5. CASE EnsureFinalizer
    <2> DEFINE marked == [obj EXCEPT !.finalizer = TRUE]
    <2>1. marked \in Resource
      BY <1>0 DEF Resource
    <2>2. \/ NoWrite /\ Continue("ensure", obj, fresh) /\ UNCHANGED found
          \/ Store(marked) /\ Continue("ensure", marked, TRUE) /\ UNCHANGED found
          \/ NoWrite /\ Return(TRUE)
      BY <1>5 DEF EnsureFinalizer
    <2> HIDE DEF marked
    <2>3. /\ cr' \in Resource /\ uptodate' \in BOOLEAN /\ ReconcileTypeOK'
          /\ found' \in Ids \cup {None}
      BY <1>0, <2>1, <2>2, NoWriteType, StoreType, ContinueType, ReturnType DEF Steps
    <2> QED BY <1>5, <1>0, <2>3, StepTypes DEF EnsureFinalizer
  <1>6. CASE RemoveReplaced
    BY <1>6, <1>0 DEF RemoveReplaced, TypeOK, spec, world, informer, reconcile
  <1>7. CASE Find
    <2>1. Candidates(obj) \subseteq Ids
      <3>1. kind.lookup \in {"id", "idThenKey", "idByKey", "key"}
        BY KindsOK DEF TypeOK, KindOK
      <3>2. obj.id \in Ids \cup {None}
        BY <1>0 DEF Resource
      <3> QED BY <3>1, <3>2 DEF Candidates, Exists, WithKey
    <2>2. found' \in Ids \cup {None}
      BY <1>7, <2>1 DEF Find
    <2> QED BY <1>7, <1>0, <2>2, NoWriteType, ContinueType, StepTypes DEF Find, Steps
  <1>8. CASE Create
    <2>1. obj.key \in Keys
      BY <1>0 DEF Resource
    <2>2. ReconcileTypeOK'
      BY <1>8, <1>0, ContinueType, ReturnType DEF Create, Steps
    <2>3. /\ found' \in Ids \cup {None} /\ objects' \in [Ids -> Keys \cup {None}]
          /\ made' \subseteq Ids
      BY <1>8, <1>0, <2>1, ReturnType DEF Create, Unused
    <2> QED BY <1>8, <1>0, <2>2, <2>3, NoWriteType, StepTypes DEF Create
  <1>9. CASE Record
    <2> DEFINE id == IF kind.handle # "spec" THEN found ELSE None
               recorded == [obj EXCEPT !.id = id, !.ready = TRUE, !.condition = "True"]
    <2>1. recorded \in Resource
      BY <1>0 DEF Resource
    <2>2. ApplyStatus(recorded) \/ NoWrite
      BY <1>9 DEF Record
    <2> HIDE DEF recorded
    <2>3. cr' \in Resource /\ uptodate' \in BOOLEAN
      BY <2>1, <2>2, NoWriteType, ApplyStatusType
    <2> QED BY <1>9, <1>0, <2>3, ReturnType, StepTypes DEF Record
  <1>10. CASE Cleanup
    <2>1. objects' \in [Ids -> Keys \cup {None}]
      BY <1>10, <1>0 DEF Cleanup
    <2> QED BY <1>10, <1>0, <2>1, NoWriteType, ContinueType, StepTypes DEF Cleanup, Steps
  <1>11. CASE RemoveFinalizer
    <2> DEFINE released == [obj EXCEPT !.finalizer = FALSE]
    <2>1. released \in Resource
      BY <1>0 DEF Resource
    <2>2. Store(Collected(released)) \/ NoWrite
      BY <1>11 DEF RemoveFinalizer
    <2> HIDE DEF released
    <2>3. cr' \in Resource /\ uptodate' \in BOOLEAN
      BY <2>1, <2>2, NoWriteType, CollectedType, StoreType
    <2>4. ReconcileTypeOK' /\ found' = None
      BY <1>11, ReturnType DEF RemoveFinalizer
    <2> QED BY <1>11, <1>0, <2>3, <2>4, StepTypes DEF RemoveFinalizer
  <1> QED BY <1>1, <1>2, <1>3, <1>4, <1>5, <1>6, <1>7, <1>8, <1>9, <1>10, <1>11,
             <1>12, <1>13 DEF Step

LEMMA WriteTypeOK ==
  ASSUME TypeOK, NEW new \in Resource, Write(new), UNCHANGED made
  PROVE  TypeOK'
  <1>1. edits' \in 0..MaxEdits
    BY LifecycleAssumption DEF Write, TypeOK
  <1> QED BY <1>1 DEF Write, TypeOK, spec, world, zitadel

LEMMA NextTypeOK ==
  ASSUME TypeOK, [Next]_vars
  PROVE  TypeOK'
  <1> USE DEF zitadel
  <1>0. /\ cr \in Resource /\ cache \in Resource /\ obj \in Resource /\ fresh \in BOOLEAN
        /\ found \in Ids \cup {None} /\ objects \in [Ids -> Keys \cup {None}]
        /\ made \subseteq Ids
    BY DEF TypeOK
  <1>1. CASE UNCHANGED vars
    BY <1>1 DEF TypeOK, vars, spec, world, informer, reconcile
  <1>2. CASE Step
    BY <1>2, StepTypeOK
  <1>3. CASE Observe
    BY <1>3 DEF Observe, TypeOK, spec, world, reconcile
  <1>4. CASE Fault \/ CleanupFails \/ EnsureFails
    <2>a. faults \in 0..MaxFaults /\ MaxFaults \in Nat
      BY LifecycleAssumption DEF TypeOK
    <2>b. faults < MaxFaults /\ faults' = faults + 1
      BY <1>4 DEF Fault, CleanupFails, EnsureFails
    <2>1. faults' \in 0..MaxFaults
      BY <2>a, <2>b
    <2>2. CASE Fault
      BY <2>1, <2>2, <1>0, NoWriteType, ReturnType, StepTypes DEF Fault
    <2>3. CASE CleanupFails
      <3>1. ReconcileTypeOK' /\ found' \in Ids \cup {None}
        BY <2>3, <1>0, ContinueType, ReturnType DEF CleanupFails, Steps
      <3> QED BY <2>1, <2>3, <3>1, <1>0, NoWriteType, StepTypes DEF CleanupFails
    <2>4. CASE EnsureFails
      <3>1. [obj EXCEPT !.condition = "False"] \in Resource
        BY <1>0 DEF Resource
      <3> QED BY <2>1, <2>4, <3>1, <1>0, ApplyStatusType, ReturnType, StepTypes
              DEF EnsureFails
    <2> QED BY <1>4, <2>2, <2>3, <2>4
  <1>5. ASSUME NEW k \in Keys, NEW sound \in BOOLEAN, ChangeSpec(k, sound) PROVE TypeOK'
    <2>1. [cr EXCEPT !.key = k, !.sound = sound] \in Resource
      BY <1>0 DEF Resource
    <2> QED BY <1>5, <2>1, WriteTypeOK DEF ChangeSpec, Write
  <1>6. CASE Delete
    <2>1. Collected([cr EXCEPT !.deleting = TRUE]) \in Resource
      BY <1>0 DEF Resource, Collected
    <2> QED BY <1>6, <2>1, WriteTypeOK DEF Delete, Write
  <1>7. CASE Elsewhere
    <2>1. edits' \in 0..MaxEdits
      BY <1>7, LifecycleAssumption DEF Elsewhere, TypeOK
    <2>2. /\ refs' \in [Parents -> Outcomes] /\ scope' \in Scopes \cup Bindings
          /\ objects' \in [Ids -> Keys \cup {None}]
      BY <1>7 DEF Elsewhere, TypeOK, world, Referenced, OutcomesOf, Outcomes
    <2> QED BY <1>7, <2>1, <2>2 DEF Elsewhere, TypeOK, spec, informer, reconcile
  <1>8. CASE Rebind
    <2>1. edits' \in 0..MaxEdits
      BY <1>8, LifecycleAssumption DEF Rebind, TypeOK
    <2>2. ReconcileTypeOK' /\ found' = None /\ cr' \in Resource /\ uptodate' \in BOOLEAN
      BY <1>8, ReturnType, NoWriteType DEF Rebind
    <2>3. scope' \in Scopes \cup Bindings
      BY <1>8 DEF Rebind
    <2> QED BY <1>8, <2>1, <2>2, <2>3 DEF Rebind, TypeOK, spec, ReconcileTypeOK, Steps
  <1> QED BY <1>1, <1>2, <1>3, <1>4, <1>5, <1>6, <1>7, <1>8 DEF Next

LEMMA InitTypeOK ==
  ASSUME Init
  PROVE  TypeOK
  <1>1. PICK k \in Keys : cr = Created(k)
    BY DEF Init
  <1>2. cr \in Resource
    BY <1>1, CreatedType
  <1>3. NoCopy \in Resource
    BY <1>1, NoCopyType
  <1>4. edits \in 0..MaxEdits /\ faults \in 0..MaxFaults
    BY LifecycleAssumption DEF Init
  <1>5. refs \in [Parents -> Outcomes] /\ scope \in Scopes \cup Bindings
    BY DEF Init, Outcomes
  <1>6. objects \in [Ids -> Keys \cup {None}]
    BY <1>2 DEF Init, Resource
  <1>7. omits \subseteq Parents
    BY DEF Init, Parents
  <1> QED BY <1>2, <1>3, <1>4, <1>5, <1>6, <1>7 DEF Init, TypeOK

\* Every variable keeps its type, whatever the kind of the resource is.
THEOREM TypeCorrect == Spec => []TypeOK
  <1>1. Init => TypeOK
    BY InitTypeOK
  <1>2. TypeOK /\ [Next]_vars => TypeOK'
    BY NextTypeOK
  <1> QED BY <1>1, <1>2, PTL DEF Spec

-----------------------------------------------------------------------------
(* What a copy tells.                                                      *)

\* A copy with the resource's resourceVersion is the resource.
FreshCopies == (uptodate => cache = cr) /\ (fresh => obj = cr)

\* What even an old copy tells: a resource that was deleted stays so; one that has
\* a finalizer and was not deleted when the informer last looked cannot be gone,
\* as only a reconcile of a later copy takes a finalizer off.
Ordered ==
  /\ cache.deleting => cr.deleting
  /\ cache.finalizer /\ ~cache.deleting /\ ~cache.gone => cr.finalizer /\ ~cr.gone
  /\ pc # "idle" => ~obj.gone
  /\ pc = "finalizer" => ~obj.deleting /\ (obj.finalizer => cr.finalizer /\ ~cr.gone)
  /\ pc \in {"ensure", "record"} => ~obj.deleting /\ cr.finalizer /\ ~cr.gone
  /\ pc \in {"cleanup", "release"} => obj.deleting /\ cache.deleting

Operator == Step \/ Fault \/ CleanupFails \/ EnsureFails \/ Rebind

\* How a step of the operator writes the resource: its metadata stay, or get the
\* finalizer, or lose it with the resource; an Update was made on a fresh copy.
SameMetadata ==
  /\ cr'.key = cr.key /\ cr'.deleting = cr.deleting
  /\ cr'.finalizer = cr.finalizer /\ cr'.gone = cr.gone
Finalized ==
  /\ pc = "finalizer" /\ cr'.key = cr.key /\ cr'.deleting = cr.deleting
  /\ cr'.finalizer /\ ~cr'.deleting /\ ~cr'.gone /\ cr'.id = cr.id
Released ==
  /\ pc = "release" /\ obj = cr /\ cr'.key = cr.key /\ cr'.deleting /\ ~cr'.finalizer
  /\ cr'.gone /\ cr'.id = cr.id
Tracked == uptodate' = (uptodate /\ cr' = cr)

LEMMA NoWriteMetadata ==
  ASSUME TypeOK, NoWrite
  PROVE  SameMetadata /\ Tracked /\ cr' = cr
  BY DEF TypeOK, NoWrite, SameMetadata, Tracked

LEMMA ApplyStatusMetadata ==
  ASSUME TypeOK, NEW copy \in Resource, ApplyStatus(copy)
  PROVE  SameMetadata /\ Tracked /\ cr'.id \in {cr.id, copy.id}
  BY DEF TypeOK, Resource, ApplyStatus, Store, SameMetadata, Tracked

\* The finalizer's step, apart from how it ends.
LEMMA EnsureFinalizerWrites ==
  ASSUME TypeOK, FreshCopies, Ordered, EnsureFinalizer
  PROVE  /\ Tracked /\ cr'.id = cr.id
         /\ \/ /\ SameMetadata /\ obj.finalizer /\ cr' = cr
               /\ Continue("ensure", obj, fresh)
            \/ /\ Finalized /\ Continue("ensure", cr', TRUE)
            \/ SameMetadata /\ Return(TRUE)
  <1> DEFINE marked == [obj EXCEPT !.finalizer = TRUE]
  <1>1. CASE obj.finalizer /\ NoWrite /\ Continue("ensure", obj, fresh)
    BY <1>1, NoWriteMetadata
  <1>2. CASE UpdateAccepted /\ Store(marked) /\ Continue("ensure", marked, TRUE)
    <2>1. obj = cr /\ ~cr.gone /\ cr' = marked /\ Tracked
      BY <1>2 DEF UpdateAccepted, FreshCopies, Store, Tracked
    <2>2. /\ marked.key = obj.key /\ marked.deleting = obj.deleting /\ marked.id = obj.id
          /\ marked.finalizer = TRUE /\ marked.gone = obj.gone
      BY DEF TypeOK, Resource
    <2>3. pc = "finalizer" /\ ~obj.deleting
      BY DEF EnsureFinalizer, Ordered
    <2> HIDE DEF marked
    <2> QED BY <1>2, <2>1, <2>2, <2>3 DEF Finalized
  <1>3. CASE NoWrite /\ Return(TRUE)
    BY <1>3, NoWriteMetadata
  <1> QED BY <1>1, <1>2, <1>3 DEF EnsureFinalizer

LEMMA RemoveFinalizerWrites ==
  ASSUME TypeOK, FreshCopies, Ordered, RemoveFinalizer
  PROVE  Tracked /\ cr'.id = cr.id /\ (SameMetadata \/ Released)
  <1> DEFINE released == [obj EXCEPT !.finalizer = FALSE]
  <1>1. CASE UpdateAccepted /\ Store(Collected(released))
    <2>1. obj = cr /\ cr' = Collected(released) /\ Tracked
      BY <1>1 DEF UpdateAccepted, FreshCopies, Store, Tracked
    <2>2. pc = "release" /\ obj.deleting
      BY DEF RemoveFinalizer, Ordered
    <2>3. /\ Collected(released).key = obj.key /\ Collected(released).id = obj.id
          /\ Collected(released).deleting = obj.deleting
          /\ Collected(released).finalizer = FALSE
          /\ Collected(released).gone = obj.deleting
      BY <2>2 DEF TypeOK, Resource, Collected
    <2> HIDE DEF released
    <2> QED BY <2>1, <2>2, <2>3 DEF Released
  <1>2. CASE NoWrite
    BY <1>2, NoWriteMetadata
  <1> QED BY <1>1, <1>2 DEF RemoveFinalizer

LEMMA ReturnCopies ==
  ASSUME TypeOK, FreshCopies, Ordered, NEW requeue \in BOOLEAN, Return(requeue),
         UNCHANGED cache, Tracked, SameMetadata \/ Finalized \/ Released
  PROVE  FreshCopies' /\ Ordered'
  <1>1. FreshCopies'
    BY DEF FreshCopies, Return, Tracked, TypeOK
  <1>2. pc' = "idle"
    BY DEF Return
  <1>3. CASE SameMetadata
    BY <1>1, <1>2, <1>3 DEF Ordered, SameMetadata
  <1>4. CASE Finalized
    BY <1>1, <1>2, <1>4 DEF Ordered, Finalized
  <1>5. CASE Released
    BY <1>1, <1>2, <1>5 DEF Ordered, Released
  <1> QED BY <1>1, <1>3, <1>4, <1>5

LEMMA ContinueCopies ==
  ASSUME TypeOK, FreshCopies, Ordered, NEW step \in Steps \ {"idle"},
         NEW copy \in Resource, NEW latest \in BOOLEAN, Continue(step, copy, latest),
         UNCHANGED cache, Tracked, SameMetadata \/ Finalized,
         latest => copy = cr', ~copy.gone,
         step = "finalizer" =>
           ~copy.deleting /\ (copy.finalizer => cr'.finalizer /\ ~cr'.gone),
         step \in {"ensure", "record"} => ~copy.deleting /\ cr'.finalizer /\ ~cr'.gone,
         step \in {"cleanup", "release"} => copy.deleting /\ cache.deleting
  PROVE  FreshCopies' /\ Ordered'
  <1>1. FreshCopies'
    BY DEF FreshCopies, Continue, Tracked, TypeOK
  <1>2. pc' = step /\ obj' = copy
    BY DEF Continue
  <1>3. CASE SameMetadata
    BY <1>1, <1>2, <1>3 DEF Ordered, SameMetadata
  <1>4. CASE Finalized
    BY <1>1, <1>2, <1>4 DEF Ordered, Finalized
  <1> QED BY <1>1, <1>3, <1>4

LEMMA OperatorCopies ==
  ASSUME TypeOK, FreshCopies, Ordered, Operator
  PROVE  FreshCopies' /\ Ordered'
  <1>0. /\ cache \in Resource /\ obj \in Resource
        /\ fresh \in BOOLEAN /\ uptodate \in BOOLEAN
    BY DEF TypeOK
  <1>1. CASE GetNotFound
    BY <1>1, NoWriteMetadata, ReturnCopies DEF GetNotFound
  <1>2. CASE FailClosed
    BY <1>2, <1>0, NoWriteMetadata, ApplyStatusMetadata, ReturnCopies DEF FailClosed
  <1>3. ASSUME NEW o \in Outcomes, ParentFails(o) PROVE FreshCopies' /\ Ordered'
    <2> DEFINE copy == IF pc = "ensure" THEN obj ELSE cache
               told == [copy EXCEPT !.condition = "False",
                                    !.ready = @ /\ "unresolved" \notin kind.tells]
    <2>1. told \in Resource
      BY <1>0 DEF Resource
    <2>2. ApplyStatus(told) \/ NoWrite
      BY <1>3 DEF ParentFails
    <2>3. SameMetadata /\ Tracked
      BY <2>1, <2>2, NoWriteMetadata, ApplyStatusMetadata
    <2> QED BY <1>3, <2>3, ReturnCopies DEF ParentFails
  <1>4. CASE ParentsResolved
    <2>1. ~cache.gone /\ (uptodate => cache = cr) /\ cr' = cr /\ SameMetadata /\ Tracked
      BY <1>4, NoWriteMetadata DEF ParentsResolved, PreambleDone, Reads, FreshCopies
    <2>2. CASE cache.deleting
      BY <1>4, <1>0, <2>1, <2>2, ContinueCopies DEF ParentsResolved, Steps
    <2>3. CASE ~cache.deleting
      BY <1>4, <1>0, <2>1, <2>3, ContinueCopies DEF ParentsResolved, Steps, Ordered
    <2> QED BY <2>2, <2>3
  <1>5. CASE EnsureFinalizer
    <2>1. pc = "finalizer" /\ ~obj.gone /\ ~obj.deleting /\ UNCHANGED cache
          /\ (obj.finalizer => cr.finalizer /\ ~cr.gone)
      BY <1>5 DEF EnsureFinalizer, Ordered
    <2>2. Tracked
      BY <1>5, EnsureFinalizerWrites
    <2>3. CASE SameMetadata /\ obj.finalizer /\ cr' = cr /\ Continue("ensure", obj, fresh)
      BY <2>1, <2>2, <2>3, <1>0, ContinueCopies DEF Steps, FreshCopies
    <2>4. CASE Finalized /\ Continue("ensure", cr', TRUE)
      <3>1. cr' \in Resource
        BY <1>5, NextTypeOK DEF TypeOK, Next, Step
      <3> QED BY <2>1, <2>2, <2>4, <3>1, ContinueCopies DEF Steps, Finalized
    <2>5. CASE SameMetadata /\ Return(TRUE)
      BY <2>1, <2>2, <2>5, ReturnCopies
    <2> QED BY <1>5, <2>3, <2>4, <2>5, EnsureFinalizerWrites
  <1>6. CASE RemoveReplaced
    BY <1>6 DEF RemoveReplaced, FreshCopies, Ordered, informer, reconcile
  <1>7. CASE Find \/ (Create /\ ~Return(TRUE)) \/ Cleanup
    <2>1. /\ NoWrite /\ UNCHANGED cache
          /\ \/ pc = "ensure" /\ Continue("record", obj, fresh)
             \/ pc = "cleanup" /\ Continue("release", obj, fresh)
      BY <1>7 DEF Find, Create, Ensuring, Cleanup
    <2>2. cr' = cr /\ SameMetadata /\ Tracked /\ (fresh => obj = cr) /\ ~obj.gone
      BY <2>1, NoWriteMetadata DEF FreshCopies, Ordered
    <2> QED BY <2>1, <2>2, <1>0, ContinueCopies DEF Steps, Ordered
  <1>8. CASE Create /\ Return(TRUE)
    BY <1>8, NoWriteMetadata, ReturnCopies DEF Create
  <1>9. CASE Record
    <2> DEFINE id == IF kind.handle # "spec" THEN found ELSE None
               recorded == [obj EXCEPT !.id = id, !.ready = TRUE, !.condition = "True"]
    <2>1. recorded \in Resource
      BY <1>0 DEF Resource, TypeOK
    <2>2. ApplyStatus(recorded) \/ NoWrite
      BY <1>9 DEF Record
    <2> HIDE DEF recorded
    <2>3. SameMetadata /\ Tracked
      BY <2>1, <2>2, NoWriteMetadata, ApplyStatusMetadata
    <2> QED BY <1>9, <2>3, ReturnCopies DEF Record
  <1>10. CASE RemoveFinalizer
    <2>1. UNCHANGED cache /\ (Return(TRUE) \/ Return(FALSE))
      BY <1>10 DEF RemoveFinalizer
    <2> QED BY <1>10, <2>1, RemoveFinalizerWrites, ReturnCopies
  <1>11. CASE Fault
    BY <1>11, NoWriteMetadata, ReturnCopies DEF Fault
  <1>12. CASE CleanupFails
    <2>1. /\ cr' = cr /\ SameMetadata /\ Tracked /\ pc = "cleanup" /\ UNCHANGED cache
          /\ (fresh => obj = cr) /\ ~obj.gone /\ obj.deleting /\ cache.deleting
      BY <1>12, NoWriteMetadata DEF CleanupFails, FreshCopies, Ordered
    <2>2. CASE Return(TRUE)
      BY <2>1, <2>2, ReturnCopies
    <2>3. CASE Continue("release", obj, fresh)
      BY <2>1, <2>3, <1>0, ContinueCopies DEF Steps
    <2> QED BY <1>12, <2>2, <2>3 DEF CleanupFails
  <1>13. CASE EnsureFails
    <2>1. [obj EXCEPT !.condition = "False"] \in Resource
      BY <1>0 DEF Resource
    <2> QED BY <1>13, <2>1, ApplyStatusMetadata, ReturnCopies DEF EnsureFails
  <1>14. CASE NotSupported
    <2>1. [cache EXCEPT !.ready = FALSE, !.condition = "False"] \in Resource
      BY <1>0 DEF Resource
    <2> QED BY <1>14, <2>1, ApplyStatusMetadata, ReturnCopies DEF NotSupported
  <1>15. CASE InvalidSpec
    <2>1. [cache EXCEPT !.condition = "False"] \in Resource
      BY <1>0 DEF Resource
    <2>2. SameMetadata /\ Tracked
      BY <1>15, <2>1, NoWriteMetadata, ApplyStatusMetadata DEF InvalidSpec
    <2> QED BY <1>15, <2>2, ReturnCopies DEF InvalidSpec
  <1>16. CASE Rebind
    BY <1>16, NoWriteMetadata, ReturnCopies DEF Rebind
  <1> QED BY <1>1, <1>2, <1>3, <1>4, <1>5, <1>6, <1>7, <1>8, <1>9, <1>10, <1>11,
             <1>12, <1>13, <1>14, <1>15, <1>16 DEF Operator, Step

SpecChanges == \E k \in Keys, sound \in BOOLEAN : ChangeSpec(k, sound)
Surroundings == Observe \/ SpecChanges \/ Delete \/ Elsewhere

\* A user's write keeps a finalizer, and a resource that has none goes at once.
LEMMA UserWrites ==
  ASSUME TypeOK, SpecChanges \/ Delete
  PROVE  /\ ~cr.gone /\ ~cr.deleting /\ cr'.finalizer = cr.finalizer /\ cr'.id = cr.id
         /\ ~uptodate' /\ ~fresh' /\ UNCHANGED <<spec, world, cache, pc, obj, zitadel, faults>>
         /\ \/ ~cr'.gone
            \/ ~cr.finalizer /\ cr'.key = cr.key
  BY DEF SpecChanges, ChangeSpec, Delete, Write, Collected, TypeOK, Resource

LEMMA SurroundingCopies ==
  ASSUME TypeOK, FreshCopies, Ordered, Surroundings
  PROVE  FreshCopies' /\ Ordered'
  <1>1. CASE Observe
    <2>1. cache' = cr /\ cr' = cr /\ pc' = pc /\ obj' = obj /\ fresh' = fresh
      BY <1>1 DEF Observe, reconcile
    <2>2. pc \in {"cleanup", "release"} => cr.deleting
      BY DEF Ordered
    <2> QED BY <2>1, <2>2 DEF FreshCopies, Ordered
  <1>2. CASE SpecChanges \/ Delete
    BY <1>2, UserWrites DEF FreshCopies, Ordered
  <1>3. CASE Elsewhere
    BY <1>3 DEF Elsewhere, FreshCopies, Ordered, informer, reconcile
  <1> QED BY <1>1, <1>2, <1>3 DEF Surroundings

LEMMA NextCopies ==
  ASSUME TypeOK, FreshCopies, Ordered, [Next]_vars
  PROVE  FreshCopies' /\ Ordered'
  <1>1. CASE UNCHANGED vars
    BY <1>1 DEF FreshCopies, Ordered, vars, informer, reconcile
  <1>2. CASE Operator
    BY <1>2, OperatorCopies
  <1>3. CASE Surroundings
    BY <1>3, SurroundingCopies
  <1> QED BY <1>1, <1>2, <1>3 DEF Next, Operator, Surroundings, SpecChanges

LEMMA InitCopies ==
  ASSUME Init
  PROVE  FreshCopies /\ Ordered
  <1>1. PICK k \in Keys : cr = Created(k)
    BY DEF Init
  <1> QED BY <1>1, NoCopyFields DEF Init, FreshCopies, Ordered

-----------------------------------------------------------------------------
(* What the steps do at Zitadel.                                           *)

\* Objects go, or one is made that the lookup did not find.
Shrinks ==
  /\ made' = made
  /\ \A i \in Ids : objects'[i] = objects[i] \/ objects'[i] = None
Makes(i) ==
  /\ pc = "ensure" /\ cr' = cr /\ Candidates(obj) = {} /\ pc' = "record"
  /\ objects[i] = None /\ objects' = [objects EXCEPT ![i] = obj.key]
  /\ made' = made \cup {i}

LEMMA OperatorObjects ==
  ASSUME TypeOK, Operator
  PROVE  Shrinks \/ \E i \in Ids : Makes(i)
  <1>1. CASE Create
    BY <1>1 DEF Create, Ensuring, Shrinks, Makes, Unused, NoWrite, Continue, zitadel
  <1>2. CASE RemoveReplaced
    BY <1>2 DEF RemoveReplaced, Shrinks, TypeOK
  <1>3. CASE Cleanup
    BY <1>3 DEF Cleanup, Shrinks, TypeOK
  <1>4. CASE UNCHANGED zitadel
    BY <1>4 DEF Shrinks, zitadel
  <1> QED BY <1>1, <1>2, <1>3, <1>4
          DEF Operator, Step, GetNotFound, FailClosed, NotSupported, InvalidSpec, Rebind,
              ParentFails, ParentsResolved, EnsureFinalizer, Find, Record, RemoveFinalizer,
              Fault, CleanupFails, EnsureFails

LEMMA SurroundingObjects ==
  ASSUME TypeOK, Surroundings
  PROVE  Shrinks /\ UNCHANGED <<kind, pc, obj, faults>>
  BY DEF Surroundings, SpecChanges, Observe, ChangeSpec, Delete, Write, Elsewhere, Shrinks, TypeOK,
         spec, zitadel, reconcile

\* An operator's step leaves the metadata, stores a finalizer or lets a resource go.
LEMMA OperatorWrites ==
  ASSUME TypeOK, FreshCopies, Ordered, Operator
  PROVE  /\ SameMetadata \/ Finalized \/ (Released /\ UNCHANGED objects)
         /\ kind' = kind /\ (faults' = 0 => faults = 0)
  <1>0. cache \in Resource /\ obj \in Resource
    BY DEF TypeOK
  <1>1. kind' = kind
    BY DEF Operator, Step, GetNotFound, FailClosed, NotSupported, InvalidSpec, Rebind,
           ParentFails, ParentsResolved, EnsureFinalizer, RemoveReplaced, Find, Create,
           Record, Cleanup, RemoveFinalizer, Fault, CleanupFails, EnsureFails, spec
  <1>2. faults' = 0 => faults = 0
    <2>1. faults' \in {faults, faults + 1}
      BY DEF Operator, Step, GetNotFound, FailClosed, NotSupported, InvalidSpec, Rebind,
             ParentFails, ParentsResolved, EnsureFinalizer, RemoveReplaced, Find, Create,
             Record, Cleanup, RemoveFinalizer, Fault, CleanupFails, EnsureFails
    <2>2. faults \in Nat
      BY LifecycleAssumption DEF TypeOK
    <2> QED BY <2>1, <2>2
  <1>3. CASE NoWrite
    BY <1>1, <1>2, <1>3, NoWriteMetadata
  <1>4. ASSUME NEW copy \in Resource, ApplyStatus(copy) PROVE SameMetadata
    BY <1>4, ApplyStatusMetadata
  <1>5. CASE FailClosed
    BY <1>0, <1>1, <1>2, <1>3, <1>4, <1>5 DEF FailClosed
  <1>6. ASSUME NEW o \in Outcomes, ParentFails(o) PROVE SameMetadata
    <2> DEFINE copy == IF pc = "ensure" THEN obj ELSE cache
    <2>1. [copy EXCEPT !.condition = "False",
                       !.ready = @ /\ "unresolved" \notin kind.tells] \in Resource
      BY <1>0 DEF Resource
    <2> QED BY <1>4, <1>6, <2>1, NoWriteMetadata DEF ParentFails
  <1>7. CASE EnsureFinalizer
    BY <1>1, <1>2, <1>7, EnsureFinalizerWrites
  <1>8. CASE Record
    <2>1. [obj EXCEPT !.id = IF kind.handle # "spec" THEN found ELSE None,
                      !.ready = TRUE, !.condition = "True"] \in Resource
      BY <1>0 DEF Resource, TypeOK
    <2> QED BY <1>1, <1>2, <1>4, <1>8, <2>1, NoWriteMetadata DEF Record
  <1>9. CASE RemoveFinalizer
    BY <1>1, <1>2, <1>9, RemoveFinalizerWrites DEF RemoveFinalizer, zitadel
  <1>10. CASE EnsureFails
    <2>1. [obj EXCEPT !.condition = "False"] \in Resource
      BY <1>0 DEF Resource
    <2> QED BY <1>1, <1>2, <1>4, <1>10, <2>1 DEF EnsureFails
  <1>11. CASE RemoveReplaced
    BY <1>1, <1>2, <1>11 DEF RemoveReplaced, SameMetadata
  <1>12. CASE NotSupported
    <2>1. [cache EXCEPT !.ready = FALSE, !.condition = "False"] \in Resource
      BY <1>0 DEF Resource
    <2> QED BY <1>1, <1>2, <1>4, <1>12, <2>1 DEF NotSupported
  <1>13. CASE InvalidSpec
    <2>1. [cache EXCEPT !.condition = "False"] \in Resource
      BY <1>0 DEF Resource
    <2> QED BY <1>1, <1>2, <1>3, <1>4, <1>13, <2>1 DEF InvalidSpec
  <1> QED BY <1>1, <1>2, <1>3, <1>5, <1>6, <1>7, <1>8, <1>9, <1>10, <1>11, <1>12, <1>13
          DEF Operator, Step, GetNotFound, ParentsResolved, Find, Create, Cleanup, Fault,
              CleanupFails, Rebind

-----------------------------------------------------------------------------
(* The safety properties.                                                  *)

Thorough == kind.blocking \/ faults = 0

\* A resource that never had a finalizer has no objects.
Unmade == ~cr.finalizer /\ ~cr.gone => made = {}

\* A kind whose cleanup goes by the spec records no id.
NoIdKept == kind.handle = "spec" => cr.id = None /\ cache.id = None /\ obj.id = None

\* Between a cleanup that did not fail and the removal of the finalizer nothing is
\* left of what the copy stands for.
Cleaned ==
  pc = "release" /\ Thorough
    => /\ kind.handle = "recorded" => ~Exists(obj.id)
       /\ kind.handle = "spec" => WithKey(obj.key) = {}

IInv ==
  /\ TypeOK /\ FreshCopies /\ Ordered /\ Unmade /\ NoIdKept /\ Cleaned
  /\ OneObject /\ NothingLeft

\* A lookup by key that finds nothing is complete.
LEMMA CandidatesComplete ==
  ASSUME TypeOK, kind.lookup # "id", Candidates(obj) = {}
  PROVE  WithKey(obj.key) = {}
  <1>1. kind.lookup \in {"idThenKey", "idByKey", "key"}
    BY KindsOK DEF TypeOK, KindOK
  <1> QED BY <1>1 DEF Candidates

LEMMA StepObjects ==
  ASSUME TypeOK, [Next]_vars
  PROVE  kind' = kind /\ (Shrinks \/ \E i \in Ids : Makes(i))
  <1>1. CASE UNCHANGED vars
    BY <1>1 DEF vars, spec, zitadel, Shrinks
  <1>2. CASE Operator
    <2>1. kind' = kind
      BY <1>2 DEF Operator, Step, GetNotFound, FailClosed, NotSupported, InvalidSpec, Rebind,
             ParentFails, ParentsResolved, EnsureFinalizer, RemoveReplaced, Find, Create,
             Record, Cleanup, RemoveFinalizer, Fault, CleanupFails, EnsureFails, spec
    <2> QED BY <1>2, <2>1, OperatorObjects
  <1>3. CASE Surroundings
    BY <1>3, SurroundingObjects
  <1> QED BY <1>1, <1>2, <1>3 DEF Next, Operator, Surroundings, SpecChanges

LEMMA KeepsOneObject ==
  ASSUME TypeOK, OneObject, [Next]_vars
  PROVE  OneObject'
  <1>1. kind' = kind /\ (Shrinks \/ \E i \in Ids : Makes(i))
    BY StepObjects
  <1>2. made \subseteq Ids /\ objects \in [Ids -> Keys \cup {None}]
    BY DEF TypeOK
  <1>3. CASE kind.lookup = "id"
    BY <1>1, <1>3 DEF OneObject
  <1>4. CASE kind.lookup # "id" /\ Shrinks
    BY <1>1, <1>2, <1>4 DEF OneObject, Left, Shrinks
  <1>5. CASE kind.lookup # "id" /\ \E i \in Ids : Makes(i)
    <2>1. PICK i \in Ids : Makes(i)
      BY <1>5
    <2>2. WithKey(obj.key) = {}
      BY <1>5, <2>1, CandidatesComplete DEF Makes
    <2>3. SUFFICES ASSUME NEW j1 \in Left', NEW j2 \in Left',
                          objects'[j1] = objects'[j2], j1 # j2
                   PROVE  FALSE
      BY <1>1 DEF OneObject
    <2>4. /\ j1 \in made \cup {i} /\ j2 \in made \cup {i} /\ j1 \in Ids /\ j2 \in Ids
          /\ objects'[j1] # None /\ objects'[j2] # None
      BY <1>2, <2>1 DEF Makes, Left
    <2>5. \A j \in Ids \ {i} : objects'[j] = objects[j] /\ objects[j] # obj.key
      BY <1>2, <2>1, <2>2 DEF Makes, WithKey
    <2>6. objects'[i] = obj.key
      BY <1>2, <2>1 DEF Makes
    <2>7. CASE j1 = i \/ j2 = i
      BY <2>3, <2>4, <2>5, <2>6, <2>7
    <2>8. CASE j1 # i /\ j2 # i
      BY <1>5, <2>3, <2>4, <2>5, <2>8 DEF OneObject, Left
    <2> QED BY <2>7, <2>8
  <1> QED BY <1>1, <1>3, <1>4, <1>5

\* The resource changes by a write of the operator, or of a user, or not at all.
LEMMA StepWrites ==
  ASSUME TypeOK, FreshCopies, Ordered, [Next]_vars
  PROVE  /\ faults' = 0 => faults = 0
         /\ \/ SameMetadata \/ Finalized \/ (Released /\ UNCHANGED objects)
            \/ /\ ~cr.gone /\ ~cr.deleting /\ cr'.finalizer = cr.finalizer /\ pc' = pc
               /\ ~cr'.gone \/ (~cr.finalizer /\ cr'.key = cr.key)
  <1>1. CASE UNCHANGED vars
    BY <1>1 DEF vars, SameMetadata
  <1>2. CASE Operator
    BY <1>2, OperatorWrites
  <1>3. CASE Surroundings
    <2>1. UNCHANGED faults
      BY <1>3, SurroundingObjects
    <2>2. CASE Observe \/ Elsewhere
      BY <2>1, <2>2 DEF Observe, Elsewhere, SameMetadata
    <2>3. CASE SpecChanges \/ Delete
      BY <2>1, <2>3, UserWrites
    <2> QED BY <1>3, <2>2, <2>3 DEF Surroundings
  <1> QED BY <1>1, <1>2, <1>3 DEF Next, Operator, Surroundings, SpecChanges

LEMMA KeepsUnmade ==
  ASSUME TypeOK, FreshCopies, Ordered, Unmade, [Next]_vars
  PROVE  Unmade'
  <1>1. CASE Shrinks
    BY <1>1, StepWrites DEF Unmade, Shrinks, SameMetadata, Finalized, Released
  <1>2. CASE \E i \in Ids : Makes(i)
    BY <1>2 DEF Unmade, Makes, Ordered
  <1> QED BY <1>1, <1>2, StepObjects

\* A copy is kept, comes from the cache, or is what an Update stored, and only
\* Record writes an id of its own.
LEMMA StepIds ==
  ASSUME TypeOK, FreshCopies, Ordered, NoIdKept, kind.handle = "spec", [Next]_vars
  PROVE  cr'.id = None /\ cache'.id = None /\ obj'.id = None
  <1>0. /\ cr.id = None /\ cache.id = None /\ obj.id = None
        /\ cache \in Resource /\ obj \in Resource
    BY DEF NoIdKept, TypeOK
  <1>1. \A requeue : Return(requeue) => obj'.id = None
    BY NoCopyFields DEF Return
  <1>2. ASSUME NEW copy \in Resource, copy.id = None, ApplyStatus(copy)
        PROVE  cr'.id = None
    BY <1>0, <1>2, ApplyStatusMetadata
  <1>3. NoWrite => cr'.id = None
    BY <1>0 DEF NoWrite
  <1>4. CASE UNCHANGED vars
    BY <1>0, <1>4 DEF vars, informer, reconcile
  <1>5. CASE GetNotFound \/ FailClosed \/ Fault \/ Rebind
    BY <1>0, <1>1, <1>2, <1>3, <1>5 DEF GetNotFound, FailClosed, Fault, Rebind
  <1>15. CASE NotSupported
    <2>1. [cache EXCEPT !.ready = FALSE, !.condition = "False"] \in Resource
          /\ [cache EXCEPT !.ready = FALSE, !.condition = "False"].id = None
      BY <1>0 DEF Resource
    <2> QED BY <1>0, <1>1, <1>2, <1>15, <2>1 DEF NotSupported
  <1>16. CASE InvalidSpec
    <2>1. [cache EXCEPT !.condition = "False"] \in Resource
          /\ [cache EXCEPT !.condition = "False"].id = None
      BY <1>0 DEF Resource
    <2> QED BY <1>0, <1>1, <1>2, <1>3, <1>16, <2>1 DEF InvalidSpec
  <1>6. ASSUME NEW o \in Outcomes, ParentFails(o)
        PROVE  cr'.id = None /\ cache'.id = None /\ obj'.id = None
    <2> DEFINE copy == IF pc = "ensure" THEN obj ELSE cache
               told == [copy EXCEPT !.condition = "False",
                                    !.ready = @ /\ "unresolved" \notin kind.tells]
    <2>1. told \in Resource /\ told.id = None
      BY <1>0 DEF Resource
    <2>2. ApplyStatus(told) \/ NoWrite
      BY <1>6 DEF ParentFails
    <2> HIDE DEF told
    <2>3. cr'.id = None
      BY <1>2, <1>3, <2>1, <2>2
    <2> QED BY <1>0, <1>1, <1>6, <2>3 DEF ParentFails
  <1>7. CASE ParentsResolved \/ Find \/ Create \/ Cleanup \/ CleanupFails
    BY <1>0, <1>1, <1>3, <1>7
       DEF ParentsResolved, Find, Create, Cleanup, CleanupFails, Continue
  <1>8. CASE EnsureFinalizer
    <2>1. cr'.id = None /\ cache' = cache
      BY <1>0, <1>8, EnsureFinalizerWrites DEF EnsureFinalizer
    <2> QED BY <1>0, <1>1, <1>8, <2>1, EnsureFinalizerWrites DEF Continue
  <1>9. CASE RemoveReplaced
    BY <1>0, <1>9 DEF RemoveReplaced, informer, reconcile
  <1>10. CASE Record
    <2> DEFINE recorded == [obj EXCEPT !.id = None, !.ready = TRUE, !.condition = "True"]
    <2>1. recorded \in Resource /\ recorded.id = None
      BY <1>0 DEF Resource
    <2>2. ApplyStatus(recorded) \/ NoWrite
      BY <1>10 DEF Record
    <2> HIDE DEF recorded
    <2>3. cr'.id = None
      BY <1>2, <1>3, <2>1, <2>2
    <2> QED BY <1>0, <1>1, <1>10, <2>3 DEF Record
  <1>11. CASE RemoveFinalizer
    BY <1>0, <1>1, <1>11, RemoveFinalizerWrites DEF RemoveFinalizer
  <1>12. CASE EnsureFails
    <2>1. [obj EXCEPT !.condition = "False"] \in Resource
          /\ [obj EXCEPT !.condition = "False"].id = None
      BY <1>0 DEF Resource
    <2> QED BY <1>0, <1>1, <1>2, <1>12, <2>1 DEF EnsureFails
  <1>13. CASE Observe \/ Elsewhere
    BY <1>0, <1>13 DEF Observe, Elsewhere, informer, reconcile
  <1>14. CASE SpecChanges \/ Delete
    BY <1>0, <1>14, UserWrites
  <1> QED BY <1>4, <1>5, <1>6, <1>7, <1>8, <1>9, <1>10, <1>11, <1>12, <1>13, <1>14,
             <1>15, <1>16 DEF Next, Step, SpecChanges

LEMMA KeepsNoId ==
  ASSUME TypeOK, FreshCopies, Ordered, NoIdKept, [Next]_vars
  PROVE  NoIdKept'
  BY StepIds, StepObjects DEF NoIdKept

LEMMA KeepsCleaned ==
  ASSUME TypeOK, FreshCopies, Ordered, Cleaned, [Next]_vars
  PROVE  Cleaned'
  <1>1. /\ kind' = kind /\ (Thorough' => Thorough)
        /\ Shrinks \/ \E i \in Ids : Makes(i)
    BY StepObjects, StepWrites DEF Thorough
  <1>2. obj \in Resource /\ objects \in [Ids -> Keys \cup {None}]
    BY DEF TypeOK
  <1>3. CASE pc = "release" /\ pc' = "release" /\ obj' = obj
    <2>1. Shrinks
      BY <1>1, <1>3 DEF Makes
    <2>2. obj.key # None
      BY <1>2, LifecycleAssumption DEF Resource
    <2> QED BY <1>1, <1>2, <1>3, <2>1, <2>2 DEF Cleaned, Shrinks, Exists, WithKey, Resource
  <1>4. CASE Cleanup
    <2>1. obj' = obj
      BY <1>4 DEF Cleanup, Continue
    <2>2. CASE kind.handle = "recorded"
      BY <1>1, <1>2, <1>4, <2>1, <2>2 DEF Cleanup, Doomed, Cleaned, Exists, Resource
    <2>3. CASE kind.handle = "spec"
      <3>1. obj.key # None
        BY <1>2, LifecycleAssumption DEF Resource
      <3> QED BY <1>1, <1>2, <1>4, <2>1, <2>3, <3>1 DEF Cleanup, Doomed, Cleaned, WithKey
    <2>4. CASE kind.handle \notin {"recorded", "spec"}
      BY <1>1, <2>4 DEF Cleaned
    <2> QED BY <2>2, <2>3, <2>4
  <1>5. CASE CleanupFails
    <2>1. faults \in Nat /\ faults' = faults + 1
      BY <1>5, LifecycleAssumption DEF CleanupFails, TypeOK
    <2>2. faults' # 0
      BY <2>1
    <2>3. CASE kind.blocking
      BY <1>5, <2>3 DEF CleanupFails, Return, Cleaned
    <2>4. CASE ~kind.blocking
      BY <1>1, <2>2, <2>4 DEF Cleaned, Thorough
    <2> QED BY <2>3, <2>4
  <1>6. CASE pc' # "release"
    BY <1>6 DEF Cleaned
  <1>7. CASE UNCHANGED vars \/ Surroundings
    <2>1. pc' = pc /\ obj' = obj
      BY <1>7, SurroundingObjects DEF vars, reconcile
    <2> QED BY <1>3, <1>6, <2>1
  <1>8. CASE Operator /\ ~Cleanup /\ ~CleanupFails
    <2>1. \/ pc' \in {"idle", "finalizer", "cleanup", "ensure", "record"}
          \/ pc' = pc /\ pc = "ensure"
      BY <1>8 DEF Operator, Step, GetNotFound, FailClosed, NotSupported, InvalidSpec, Rebind,
           ParentFails, ParentsResolved, EnsureFinalizer, Ensuring, RemoveReplaced, Find,
           Create, Record, RemoveFinalizer, Fault, EnsureFails, Return, Continue, reconcile
    <2> QED BY <1>6, <2>1
  <1> QED BY <1>4, <1>5, <1>7, <1>8 DEF Next, Operator, Surroundings, SpecChanges

LEMMA KeepsNothingLeft ==
  ASSUME TypeOK, FreshCopies, Ordered, Unmade, Cleaned, NothingLeft, [Next]_vars
  PROVE  NothingLeft'
  <1>1. /\ kind' = kind /\ (Thorough' => Thorough)
        /\ Shrinks \/ \E i \in Ids : Makes(i)
    BY StepObjects, StepWrites DEF Thorough
  <1>2. cr \in Resource /\ objects \in [Ids -> Keys \cup {None}] /\ made \subseteq Ids
    BY DEF TypeOK
  <1>3. cr.key # None
    BY <1>2, LifecycleAssumption DEF Resource
  <1>4. SUFFICES ASSUME cr'.gone, kind.handle = "spec", Thorough
                 PROVE  (Left \cap WithKey(cr.key))' = {}
    BY <1>1 DEF NothingLeft, Thorough
  <1>5. CASE \E i \in Ids : Makes(i)
    BY <1>4, <1>5 DEF Makes, Ordered
  <1>6. CASE Shrinks /\ SameMetadata
    <2>1. Left \cap WithKey(cr.key) = {} /\ cr'.key = cr.key
      BY <1>4, <1>6 DEF NothingLeft, SameMetadata, Thorough
    <2>2. \A i \in Ids : objects'[i] = cr.key => objects[i] = cr.key
      BY <1>3, <1>6 DEF Shrinks
    <2> QED BY <1>2, <1>6, <2>1, <2>2 DEF Shrinks, Left, WithKey
  <1>7. CASE Finalized
    BY <1>4, <1>7 DEF Finalized
  <1>8. CASE Released /\ UNCHANGED objects
    BY <1>4, <1>8 DEF Released, Cleaned, WithKey
  <1>9. CASE Shrinks /\ ~cr.gone /\ ~cr.finalizer
    BY <1>9 DEF Unmade, Shrinks, Left
  <1> QED BY <1>1, <1>4, <1>5, <1>6, <1>7, <1>8, <1>9, StepWrites

LEMMA InitInvariant ==
  ASSUME Init
  PROVE  Unmade /\ NoIdKept /\ Cleaned /\ OneObject /\ NothingLeft
  <1>1. PICK k \in Keys : cr = Created(k)
    BY DEF Init
  <1>2. cr.id = None /\ ~cr.gone
    BY <1>1 DEF Created
  <1> QED BY <1>2, NoCopyFields
          DEF Init, Unmade, NoIdKept, Cleaned, OneObject, NothingLeft, Left

LEMMA InductiveInvariant == Spec => []IInv
  <1>1. Init => TypeOK
    BY InitTypeOK
  <1>2. Init => IInv
    BY <1>1, InitCopies, InitInvariant DEF IInv
  <1>3. IInv /\ [Next]_vars => IInv'
    BY NextTypeOK, NextCopies, KeepsUnmade, KeepsNoId, KeepsCleaned, KeepsOneObject,
       KeepsNothingLeft DEF IInv
  <1> QED BY <1>2, <1>3, PTL DEF Spec

\* A kind that looks its object up by key never has two of its own with one key,
\* whatever fails, is lost or is seen late between the creation and its record.
THEOREM NeverTwoObjects == Spec => []OneObject
  <1>1. IInv => OneObject
    BY DEF IInv
  <1> QED BY <1>1, InductiveInvariant, PTL

\* A resource whose kind cleans up by its spec leaves nothing of that name behind.
THEOREM NothingIsLeft == Spec => []NothingLeft
  <1>1. IInv => NothingLeft
    BY DEF IInv
  <1> QED BY <1>1, InductiveInvariant, PTL

\* However stale its copy is, a reconcile makes an object only for a resource that
\* has the finalizer and is not gone.
THEOREM MadeOnlyUnderFinalizer == Spec => MadeUnderFinalizer
  <1>1. ASSUME IInv, [Next]_vars
        PROVE  [made' # made => cr.finalizer /\ ~cr.gone]_vars
    <2>1. Shrinks \/ \E i \in Ids : Makes(i)
      BY <1>1, StepObjects DEF IInv
    <2> QED BY <1>1, <2>1 DEF IInv, Ordered, Shrinks, Makes
  <1> QED BY <1>1, InductiveInvariant, PTL DEF Spec, MadeUnderFinalizer

\* The operator lets a resource go when the object in the latest status is gone, if
\* its kind goes on after no failure or there was none.
THEOREM ReleaseIsOfCleaned == Spec => RecordedIsCleaned
  <1>1. ASSUME IInv, [Next]_vars
        PROVE  [cr'.gone /\ ~cr.gone /\ pc = "release" /\ (kind.blocking \/ faults = 0)
                  => kind.handle = "nothing" \/ ~Exists(cr.id)]_vars
    <2>1. SUFFICES ASSUME cr'.gone, ~cr.gone, pc = "release", Thorough,
                          kind.handle # "nothing"
                   PROVE  ~Exists(cr.id)
      BY DEF Thorough
    <2>2. Released
      BY <1>1, <2>1, StepWrites DEF IInv, SameMetadata, Finalized, Ordered
    <2>3. CASE kind.handle = "recorded"
      BY <1>1, <2>1, <2>2, <2>3 DEF IInv, Cleaned, Released
    <2>4. CASE kind.handle = "spec"
      BY <1>1, <2>4 DEF IInv, NoIdKept, Exists
    <2>5. kind.handle \in {"recorded", "spec"}
      BY <1>1, <2>1, KindsOK DEF IInv, TypeOK, KindOK
    <2> QED BY <2>3, <2>4, <2>5
  <1> QED BY <1>1, InductiveInvariant, PTL DEF Spec, RecordedIsCleaned
=============================================================================
