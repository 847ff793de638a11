--------------------------- MODULE CredentialsProofs ---------------------------
(***************************************************************************)
(* Proofs about Credentials, for every value of its constants: its types,  *)
(* that the key in the Secret of a MachineUser is handed over as           *)
(* KeyHandover has it, that a key that is rotated out gets its grace, and  *)
(* that a resource is let go only when what it records is revoked.         *)
(*                                                                         *)
(* One lemma per conjunct of the inductive invariant, with a step for each *)
(* group of actions that can disturb it.                                   *)
(***************************************************************************)
EXTENDS Credentials, TLAPS

\* The copy that stands for none is a resource.
LEMMA NoCopyType == NoCopy \in Resource /\ NoStatus \in Status /\ NoSecret \in SecretType
  <1>1. (CHOOSE s \in Specs : TRUE) \in Specs
    BY CredentialsAssumption
  <1>2. NoStatus \in Status
    BY CredentialsAssumption DEF NoStatus, Status
  <1>3. NoSecret \in SecretType
    BY CredentialsAssumption DEF NoSecret, SecretType
  <1> DEFINE s0 == CHOOSE s \in Specs : TRUE
  <1> HIDE DEF s0
  <1>4. s0 \in Specs
    BY <1>1 DEF s0
  <1>5. [Created(s0) EXCEPT !.gone = TRUE] \in Resource
    BY <1>2, <1>4 DEF Created, Resource
  <1> QED
    BY <1>2, <1>3, <1>5 DEF NoCopy, s0

LEMMA NoCopyIs ==
  /\ NoCopy.status = NoStatus /\ NoCopy.deleting = FALSE
  /\ NoStatus.id = 0 /\ NoStatus.prev = 0 /\ NoStatus.owner = 0
  /\ NoSecret.key = 0 /\ NoSecret.exists = FALSE
  BY DEF NoCopy, Created, NoStatus, NoSecret

\* What an action may do to the resource that there is: replace its status, or
\* replace it by the latest copy, as a whole.
LEMMA ApplyStatusType ==
  ASSUME TypeOK, NEW r \in Resource, ApplyStatus(r)
  PROVE  cr' \in Resource /\ uptodate' \in BOOLEAN
  BY DEF TypeOK, ApplyStatus, Store, Resource

LEMMA FailType ==
  ASSUME TypeOK, Fail
  PROVE  cr' \in Resource /\ uptodate' \in BOOLEAN
  BY ApplyStatusType DEF TypeOK, Fail, NoWrite

LEMMA CollectedType ==
  ASSUME NEW r \in Resource
  PROVE  Collected(r) \in Resource
  BY DEF Collected, Resource

LEMMA TargetType ==
  ASSUME TypeOK
  PROVE  Target \in Projects \cup {None}
  BY CredentialsAssumption DEF TypeOK, Target, Resource, Status, SpecType

\* The status that a mint prepares.
LEMMA RecordedType ==
  ASSUME TypeOK, NEW i \in Ids
  PROVE  Recorded(i) \in Status
  <1>1. obj.status \in Status /\ now \in Times /\ now + Grace \in Times /\ obj.status.id \in 0..MaxId
    BY CredentialsAssumption DEF TypeOK, Resource, Status, Times
  <1>2. i \in 0..MaxId /\ None \notin Times
    BY CredentialsAssumption DEF Ids, Times
  <1>3. [obj.status EXCEPT !.id = i] \in Status
    BY <1>1, <1>2 DEF Status
  <1>4. [obj.status EXCEPT !.id = i, !.since = now] \in Status
    BY <1>1, <1>2 DEF Status
  <1>5. [obj.status EXCEPT !.id = i, !.since = now,
                           !.prev = obj.status.id, !.revokeAt = now + Grace] \in Status
    BY <1>1, <1>2 DEF Status
  <1> QED
    BY <1>3, <1>4, <1>5 DEF Recorded

LEMMA BundledType ==
  ASSUME TypeOK, NEW x \in SecretType
  PROVE  Bundled(x) \in SecretType /\ Bundled(x).key = x.key /\ Bundled(x).exists = x.exists
  <1>1. obj.status.project \in Projects \cup {None}
    BY DEF TypeOK, Resource, Status
  <1> QED
    BY <1>1 DEF Bundled, SecretType

-------------------------------------------------------------------------------
(* Types *)

LEMMA InitType == Init => TypeOK
  <1> SUFFICES ASSUME Init
               PROVE  TypeOK
    OBVIOUS
  <1> USE NoCopyType, CredentialsAssumption DEF Init
  <1>1. cr \in Resource
    BY DEF Created, Resource
  <1>2. owner \in 0..MaxId /\ refers \in 0..MaxId /\ next \in 1..(MaxId + 1)
    <2>1. owner \in {0, 1} /\ refers = owner /\ next = owner + 1
      OBVIOUS
    <2> QED
      BY <2>1
  <1>3. mintedAt \in [Ids -> Times \cup {None}] /\ grants \in [Projects -> 0..MaxId]
    OBVIOUS
  <1>4. scopeProject \in Projects \cup {None} /\ now \in 0..MaxTime
    OBVIOUS
  <1>5. edits \in 0..MaxMishaps /\ faults \in 0..MaxMishaps /\ found \in 0..MaxId
    OBVIOUS
  <1>6. /\ kind \in Kinds /\ creds \subseteq Ids /\ pc = "idle" /\ was \in Status
        /\ cache \in Resource /\ obj \in Resource
        /\ secret \in SecretType /\ secretCache \in SecretType /\ sobj \in SecretType
        /\ uptodate \in BOOLEAN /\ secretUptodate \in BOOLEAN /\ fresh \in BOOLEAN /\ sfresh \in BOOLEAN
    OBVIOUS
  <1> QED
    BY <1>1, <1>2, <1>3, <1>4, <1>5, <1>6 DEF TypeOK

\* A reconcile that ends keeps no copy.
LEMMA ReturnType ==
  ASSUME Return
  PROVE  /\ pc' = "idle" /\ obj' \in Resource /\ fresh' \in BOOLEAN /\ sobj' \in SecretType
         /\ sfresh' \in BOOLEAN /\ was' \in Status /\ found' \in 0..MaxId
  <1>1. 0 \in 0..MaxId
    BY CredentialsAssumption
  <1> QED
    BY <1>1, NoCopyType DEF Return

LEMMA StepType ==
  ASSUME TypeOK, Step
  PROVE  TypeOK'
  <1> USE DEF TypeOK, world, kubernetes, zitadel, crCache, sCache, reconcile, limits
  <1>1. CASE OwnerMissing
    <2>1. cr' \in Resource /\ uptodate' \in BOOLEAN
      BY <1>1, ApplyStatusType DEF OwnerMissing, NoWrite
    <2> QED
      BY <1>1, <2>1, ReturnType DEF OwnerMissing
  <1>2. CASE Begin
    <2>1. found' \in 0..MaxId
      BY <1>2, CredentialsAssumption DEF Begin
    <2> QED
      BY <1>2, <2>1 DEF Begin, Continue
  <1>3. CASE EnsureFinalizer
    <2>1. [obj EXCEPT !.finalizer = TRUE] \in Resource
      BY DEF Resource
    <2> QED
      BY <1>3, <2>1, ReturnType DEF EnsureFinalizer, Continue, Store, NoWrite
  <1>4. CASE EnsureMachineUser
    <2>1. obj.status \in Status
      BY DEF Resource
    <2>2. owner' \in 0..MaxId /\ next' \in 1..(MaxId + 1) /\ found' \in 0..MaxId
      BY <1>4, CredentialsAssumption DEF EnsureMachineUser, Draw, Ids
    <2> QED
      BY <1>4, <2>1, <2>2 DEF EnsureMachineUser, Continue
  <1>5. CASE DropGrant
    <2>1. obj' \in Resource
      <3>1. 0 \in 0..MaxId /\ obj.status \in Status
        BY CredentialsAssumption DEF Resource
      <3>2. \A p \in Projects \cup {None} :
              [obj EXCEPT !.status.grant = 0, !.status.project = p] \in Resource
        BY <3>1 DEF Resource, Status
      <3>3. obj.status.project \in Projects \cup {None}
        BY <3>1 DEF Status
      <3> QED
        BY <1>5, <3>2, <3>3 DEF DropGrant
    <2>2. grants' \in [Projects -> 0..MaxId]
      BY <1>5, CredentialsAssumption DEF DropGrant
    <2> QED
      BY <1>5, <2>1, <2>2 DEF DropGrant
  <1>6. CASE FailGrantTarget
    <2>1. [obj EXCEPT !.status.ready = FALSE] \in Resource
      BY DEF Resource, Status
    <2>2. cr' \in Resource /\ uptodate' \in BOOLEAN
      BY <1>6, <2>1, ApplyStatusType DEF FailGrantTarget
    <2> QED
      BY <1>6, <2>2, ReturnType DEF FailGrantTarget
  <1>7. CASE SyncGrant
    <2>1. CASE NoGrantWanted /\ Continue("key", obj) /\ UNCHANGED <<grants, next>>
      BY <1>7, <2>1 DEF SyncGrant, Continue
    <2>2. CASE \E i \in Ids :
                 /\ Target # None
                 /\ \/ grants[Target] = i /\ UNCHANGED <<grants, next>>
                    \/ /\ grants[Target] = 0 /\ owner = found
                       /\ Draw(i) /\ grants' = [grants EXCEPT ![Target] = i]
                 /\ Continue("key", [obj EXCEPT !.status.project = Target, !.status.grant = i])
      <3>1. PICK i \in Ids :
              /\ Target # None
              /\ \/ UNCHANGED <<grants, next>>
                 \/ Draw(i) /\ grants' = [grants EXCEPT ![Target] = i]
              /\ Continue("key", [obj EXCEPT !.status.project = Target, !.status.grant = i])
        BY <2>2
      <3>2. Target \in Projects /\ i \in 0..MaxId
        BY <3>1, TargetType, CredentialsAssumption DEF Ids
      <3>3. obj' \in Resource
        BY <3>1, <3>2 DEF Continue, Resource, Status
      <3>4. grants' \in [Projects -> 0..MaxId] /\ next' \in 1..(MaxId + 1)
        BY <3>1, <3>2, CredentialsAssumption DEF Draw
      <3> QED
        BY <1>7, <3>1, <3>3, <3>4 DEF SyncGrant, Continue
    <2> QED
      BY <1>7, <2>1, <2>2 DEF SyncGrant
  <1>8. CASE FinishKeyRevocation
    <2>1. [obj EXCEPT !.status.prev = 0, !.status.revokeAt = None] \in Resource
      <3>1. 0 \in 0..MaxId /\ obj.status \in Status
        BY CredentialsAssumption DEF Resource
      <3> QED
        BY <3>1 DEF Resource, Status
    <2> QED
      BY <1>8, <2>1 DEF FinishKeyRevocation, Continue
  <1>9. CASE RevokeLost
    <2>1. obj.status \in Status
      BY DEF Resource
    <2> QED
      BY <1>9, <2>1 DEF RevokeLost, Continue
  <1>10. CASE EnsureBundle
    <2>1. Bundled(sobj) \in SecretType
      BY BundledType
    <2> QED
      BY <1>10, <2>1, ReturnType DEF EnsureBundle, Continue, WriteSecret, NoSecretWrite
  <1>11. CASE Mint
    <2>1. PICK i \in Ids :
            /\ Draw(i) /\ creds' = creds \cup {i} /\ mintedAt' = [mintedAt EXCEPT ![i] = now]
            /\ Continue("store", [obj EXCEPT !.status = Recorded(i)])
      BY <1>11 DEF Mint
    <2>2. Recorded(i) \in Status /\ now \in Times
      BY RecordedType, CredentialsAssumption DEF Times
    <2>3. [obj EXCEPT !.status = Recorded(i)] \in Resource
      BY <2>2 DEF Resource
    <2>4. next' \in 1..(MaxId + 1) /\ mintedAt' \in [Ids -> Times \cup {None}]
      BY <2>1, <2>2, CredentialsAssumption DEF Draw
    <2> QED
      BY <1>11, <2>1, <2>3, <2>4 DEF Mint, Continue
  <1>12. CASE CallRefused
    <2>1. cr' \in Resource /\ uptodate' \in BOOLEAN
      BY <1>12, FailType DEF CallRefused
    <2> QED
      BY <1>12, <2>1, ReturnType DEF CallRefused
  <1>13. CASE StoreKey
    <2>1. [sobj EXCEPT !.exists = TRUE, !.key = obj.status.id] \in SecretType
      BY DEF SecretType, Resource, Status
    <2>2. Bundled([sobj EXCEPT !.exists = TRUE, !.key = obj.status.id]) \in SecretType
      BY <2>1, BundledType
    <2>3. Fail => cr' \in Resource /\ uptodate' \in BOOLEAN
      BY FailType
    <2> QED
      BY <1>13, <2>2, <2>3, ReturnType DEF StoreKey, Continue, WriteSecret, NoSecretWrite, NoWrite
  <1>14. CASE Record
    <2>1. [obj EXCEPT !.status = [[obj.status EXCEPT !.owner = found] EXCEPT !.ready = TRUE]] \in Resource
      BY DEF Resource, Status
    <2>2. cr' \in Resource /\ uptodate' \in BOOLEAN
      BY <1>14, <2>1, ApplyStatusType DEF Record, NoWrite
    <2> QED
      BY <1>14, <2>2, ReturnType DEF Record
  <1>15. CASE Cleanup
    <2>1. owner' \in 0..MaxId /\ creds' \subseteq Ids /\ grants' \in [Projects -> 0..MaxId]
      BY <1>15, CredentialsAssumption DEF Cleanup
    <2> QED
      BY <1>15, <2>1 DEF Cleanup, Continue
  <1>16. CASE RemoveFinalizer
    <2>1. [obj EXCEPT !.finalizer = FALSE] \in Resource
      BY DEF Resource
    <2>2. Collected([obj EXCEPT !.finalizer = FALSE]) \in Resource
      BY <2>1, CollectedType
    <2> QED
      BY <1>16, <2>2, ReturnType DEF RemoveFinalizer, Store, NoWrite
  <1> QED
    BY <1>1, <1>2, <1>3, <1>4, <1>5, <1>6, <1>7, <1>8, <1>9, <1>10, <1>11, <1>12, <1>13, <1>14,
       <1>15, <1>16 DEF Step

LEMMA NextType ==
  ASSUME TypeOK, [Next]_vars
  PROVE  TypeOK'
  <1> USE DEF TypeOK, world, kubernetes, zitadel, crCache, sCache, reconcile, limits
  <1>1. CASE Fault
    <2>1. cr' \in Resource /\ uptodate' \in BOOLEAN
      BY <1>1, FailType DEF Fault, NoWrite
    <2>2. faults' \in 0..MaxMishaps
      BY <1>1, CredentialsAssumption DEF Fault
    <2> QED
      BY <1>1, <2>1, <2>2, ReturnType DEF Fault
  <1>2. CASE CleanupFails
    <2>1. faults' \in 0..MaxMishaps
      BY <1>2, CredentialsAssumption DEF CleanupFails
    <2> QED
      BY <1>2, <2>1, ReturnType DEF CleanupFails, Continue
  <1>3. CASE Observe \/ ObserveSecret
    BY <1>3 DEF Observe, ObserveSecret
  <1>4. CASE Tick
    <2>1. now' \in 0..MaxTime
      BY <1>4, CredentialsAssumption DEF Tick
    <2> QED
      BY <1>4, <2>1 DEF Tick
  <1>5. CASE (\E s \in Specs : ChangeSpec(s)) \/ Delete \/ LoseSecret \/ LoseOwner \/ NewOwner \/ ScopeChanges
    <2>1. edits' \in 0..MaxMishaps /\ UNCHANGED <<kind, now, mintedAt, faults>>
      <3>1. Edit
        BY <1>5 DEF ChangeSpec, Delete, LoseSecret, LoseOwner, NewOwner, ScopeChanges
      <3> QED
        BY <3>1, CredentialsAssumption DEF Edit
    <2>2. CASE (\E s \in Specs : ChangeSpec(s)) \/ Delete
      <3>1. Collected([cr EXCEPT !.deleting = TRUE]) \in Resource
        <4>1. [cr EXCEPT !.deleting = TRUE] \in Resource
          BY DEF Resource
        <4> QED
          BY <4>1, CollectedType
      <3>2. \A s \in Specs : [cr EXCEPT !.spec = s] \in Resource
        BY DEF Resource
      <3>3. \E r \in Resource : Write(r)
        BY <2>2, <3>1, <3>2 DEF ChangeSpec, Delete
      <3> QED
        BY <2>1, <3>3 DEF Write
    <2>3. CASE LoseSecret
      BY <2>1, <2>3, NoCopyType DEF LoseSecret
    <2>4. CASE LoseOwner
      BY <2>1, <2>4, CredentialsAssumption DEF LoseOwner
    <2>5. CASE NewOwner
      <3>1. owner' \in 0..MaxId /\ refers' \in 0..MaxId /\ next' \in 1..(MaxId + 1)
        BY <2>5, CredentialsAssumption DEF NewOwner, Draw, Ids
      <3> QED
        BY <2>1, <2>5, <3>1 DEF NewOwner
    <2>6. CASE ScopeChanges
      BY <2>1, <2>6 DEF ScopeChanges
    <2> QED
      BY <1>5, <2>2, <2>3, <2>4, <2>5, <2>6
  <1>6. CASE TargetUnready
    <2>1. [obj EXCEPT !.status.ready = FALSE] \in Resource
      BY DEF Resource, Status
    <2>2. cr' \in Resource /\ uptodate' \in BOOLEAN
      BY <1>6, <2>1, ApplyStatusType DEF TargetUnready
    <2>3. faults' \in 0..MaxMishaps
      BY <1>6, CredentialsAssumption DEF TargetUnready
    <2> QED
      BY <1>6, <2>2, <2>3, ReturnType DEF TargetUnready
  <1>7. CASE UNCHANGED vars
    BY <1>7 DEF vars
  <1> QED
    BY <1>1, <1>2, <1>3, <1>4, <1>5, <1>6, <1>7, StepType DEF Next

-------------------------------------------------------------------------------
(* What one step may do to each part of the state *)

\* Most steps leave Zitadel's users and credentials, and the Secret, alone.
LEMMA QuietSteps ==
  ASSUME \/ OwnerMissing \/ Begin \/ EnsureFinalizer \/ DropGrant \/ FailGrantTarget \/ TargetUnready
         \/ CallRefused \/ Record \/ RemoveFinalizer \/ Fault \/ CleanupFails \/ Observe
         \/ ObserveSecret \/ Tick \/ (\E s \in Specs : ChangeSpec(s)) \/ Delete \/ ScopeChanges
         \/ UNCHANGED vars
  PROVE  UNCHANGED <<kind, owner, creds, secret, next, mintedAt>>
  <1> USE DEF kubernetes, zitadel
  <1>1. CASE OwnerMissing \/ Begin \/ EnsureFinalizer \/ DropGrant \/ FailGrantTarget \/ TargetUnready
    BY <1>1 DEF OwnerMissing, Begin, EnsureFinalizer, DropGrant, FailGrantTarget, TargetUnready
  <1>2. CASE CallRefused \/ Record \/ RemoveFinalizer \/ Fault \/ CleanupFails \/ Observe
    BY <1>2 DEF CallRefused, Record, RemoveFinalizer, Fault, CleanupFails, Observe
  <1>3. CASE ObserveSecret \/ Tick \/ (\E s \in Specs : ChangeSpec(s)) \/ Delete \/ ScopeChanges \/ UNCHANGED vars
    BY <1>3 DEF ObserveSecret, Tick, ChangeSpec, Delete, ScopeChanges, Write, Edit, vars
  <1> QED
    BY <1>1, <1>2, <1>3

\* The bundle that is written beside a credential keeps it.
LEMMA EnsureBundleKey ==
  ASSUME CInv, EnsureBundle
  PROVE  secret'.key = secret.key /\ (secret' = secret \/ secret'.exists = secret.exists)
  <1>1. sobj \in SecretType /\ pc = "mint" /\ sobj.key # 0
    BY DEF CInv, TypeOK, EnsureBundle, Wanted
  <1>2. sobj.exists
    BY <1>1 DEF CInv, CopiesOK
  <1>3. CASE UNCHANGED secret
    BY <1>3
  <1>4. CASE SecretAccepted /\ secret' = Bundled(sobj)
    <2>1. sobj = secret
      BY <1>1, <1>2, <1>4 DEF SecretAccepted, CInv, CopiesOK
    <2> QED
      BY <1>1, <1>4, <2>1, BundledType DEF CInv
  <1> QED
    BY <1>3, <1>4 DEF EnsureBundle, WriteSecret, NoSecretWrite

\* The Secret's key changes only when a credential is stored, and when it is lost.
StoresKey ==
  /\ pc = "store" /\ pc' # "store" /\ secret'.key = obj.status.id
  /\ UNCHANGED <<kind, owner, creds, next, mintedAt, cr, cache>> /\ obj' = obj
LEMMA SecretStep ==
  ASSUME CInv, [Next]_vars
  PROVE  secret'.key = secret.key \/ (secret'.key = 0 /\ UNCHANGED <<owner, creds>>) \/ StoresKey
  <1> USE DEF kubernetes, zitadel
  <1>1. CASE EnsureBundle
    BY <1>1, EnsureBundleKey
  <1>2. CASE StoreKey
    <2> DEFINE x == [sobj EXCEPT !.exists = TRUE, !.key = obj.status.id]
    <2>1. x \in SecretType /\ x.key = obj.status.id
      BY DEF CInv, TypeOK, SecretType, Resource, Status
    <2>2. Bundled(x).key = obj.status.id
      BY <2>1, BundledType DEF CInv
    <2>3. secret' = secret \/ (SecretAccepted /\ secret' = Bundled(x) /\ NoWrite /\ Continue("record", obj))
      BY <1>2 DEF StoreKey, WriteSecret, NoSecretWrite
    <2>4. pc = "store" /\ UNCHANGED <<kind, owner, creds, next, mintedAt, cache>>
      BY <1>2 DEF StoreKey
    <2> QED
      BY <2>2, <2>3, <2>4 DEF StoresKey, NoWrite, Continue
  <1>3. CASE EnsureMachineUser \/ SyncGrant \/ FinishKeyRevocation \/ RevokeLost \/ Mint \/ Cleanup
               \/ LoseSecret \/ LoseOwner \/ NewOwner
    BY <1>3, NoCopyIs DEF EnsureMachineUser, SyncGrant, FinishKeyRevocation, RevokeLost, Mint, Cleanup,
       LoseSecret, LoseOwner, NewOwner
  <1> QED
    BY <1>1, <1>2, <1>3, QuietSteps DEF Next, Step

\* Zitadel draws ids one by one. Only a mint adds a credential, with its time.
Mints ==
  /\ pc = "mint" /\ pc' = "store" /\ owner = found /\ owner' = owner /\ next' = next + 1
  /\ next \in Ids /\ creds' = creds \cup {next} /\ mintedAt' = [mintedAt EXCEPT ![next] = now]
  /\ obj' = [obj EXCEPT !.status = Recorded(next)]
  /\ UNCHANGED <<kind, secret, cr, cache, sobj, sfresh, faults>>
LEMMA MintIs ==
  ASSUME Mint
  PROVE  Mints
  BY DEF Mint, Mints, Draw, Continue, kubernetes, crCache, limits

NoMint == creds' \subseteq creds /\ mintedAt' = mintedAt /\ next' \in {next, next + 1}
LEMMA CredsStep ==
  ASSUME TypeOK, [Next]_vars
  PROVE  NoMint \/ Mints
  <1> USE DEF kubernetes, zitadel
  <1>1. CASE EnsureMachineUser \/ SyncGrant \/ FinishKeyRevocation \/ RevokeLost
    BY <1>1 DEF EnsureMachineUser, SyncGrant, FinishKeyRevocation, RevokeLost, Draw, NoMint
  <1>2. CASE EnsureBundle \/ StoreKey \/ Cleanup \/ LoseSecret \/ LoseOwner \/ NewOwner
    BY <1>2 DEF EnsureBundle, StoreKey, Cleanup, LoseSecret, LoseOwner, NewOwner, Edit, Draw, NoMint
  <1> QED
    BY <1>1, <1>2, QuietSteps, MintIs DEF Next, Step, NoMint

\* An owner comes with a fresh id, and goes with its credentials.
NewUser == owner = 0 /\ owner' = next /\ next' = next + 1 /\ creds' = creds
LEMMA OwnerStep ==
  ASSUME [Next]_vars
  PROVE  owner' = owner \/ (owner' = 0 /\ creds' = {}) \/ NewUser
  <1> USE DEF kubernetes, zitadel
  <1>1. CASE EnsureMachineUser \/ SyncGrant \/ FinishKeyRevocation \/ RevokeLost
    BY <1>1 DEF EnsureMachineUser, SyncGrant, FinishKeyRevocation, RevokeLost, Draw, NewUser
  <1>2. CASE EnsureBundle \/ StoreKey \/ Cleanup \/ LoseSecret \/ LoseOwner \/ NewOwner
    BY <1>2 DEF EnsureBundle, StoreKey, Cleanup, LoseSecret, LoseOwner, NewOwner, Draw, NewUser
  <1> QED
    BY <1>1, <1>2, QuietSteps, MintIs DEF Next, Step, Mints

LEMMA IdsDrawnStep ==
  ASSUME CInv, [Next]_vars
  PROVE  IdsDrawn'
  <1>1. TypeOK /\ IdsDrawn /\ next \in Nat \ {0} /\ obj.status.id < next /\ creds \subseteq Ids
    BY CredentialsAssumption DEF CInv, TypeOK, RotationOK, OlderThanSuccessor
  <1>2. next' \in {next, next + 1}
    BY <1>1, CredsStep DEF NoMint, Mints
  <1>3. owner' < next'
    BY <1>1, <1>2, OwnerStep DEF IdsDrawn, NewUser, TypeOK
  <1>4. secret'.key < next'
    BY <1>1, <1>2, SecretStep DEF IdsDrawn, StoresKey, TypeOK, SecretType, Resource, Status
  <1>5. \A k \in creds' : k < next'
    BY <1>1, <1>2, CredsStep DEF IdsDrawn, NoMint, Mints, Ids
  <1>6. \A i \in Ids : i >= next' => mintedAt'[i] = None
    <2>1. CASE NoMint
      BY <1>1, <2>1 DEF IdsDrawn, NoMint, Ids
    <2>2. CASE Mints
      <3>1. next' = next + 1 /\ mintedAt' = [mintedAt EXCEPT ![next] = now] /\ mintedAt \in [Ids -> Times \cup {None}]
        BY <1>1, <2>2 DEF Mints, TypeOK
      <3>2. \A i \in Ids : i # next => mintedAt'[i] = mintedAt[i]
        BY <3>1
      <3> QED
        BY <1>1, <3>1, <3>2 DEF IdsDrawn, Ids
    <2> QED
      BY <1>1, <2>1, <2>2, CredsStep
  <1> QED
    BY <1>3, <1>4, <1>5, <1>6 DEF IdsDrawn

-------------------------------------------------------------------------------
(* Copies of the latest version *)

\* The caches: what is up to date is equal to the original.
LEMMA CacheStep ==
  ASSUME CInv, [Next]_vars
  PROVE  uptodate' => cache' = cr'
  <1>0. uptodate \in BOOLEAN /\ (uptodate => cache = cr)
    BY DEF CInv, TypeOK, CopiesOK
  <1> DEFINE Kept == cache' = cache /\ \E r : Store(r)
  <1>1. Kept => (uptodate' => cache' = cr')
    BY <1>0 DEF Store
  <1> HIDE DEF Kept
  <1>2. CASE UNCHANGED <<cr, cache, uptodate>>
    BY <1>0, <1>2
  <1>3. CASE OwnerMissing \/ EnsureFinalizer \/ FailGrantTarget \/ TargetUnready \/ CallRefused
    <2>1. UNCHANGED <<cr, cache, uptodate>> \/ Kept
      BY <1>3 DEF OwnerMissing, EnsureFinalizer, FailGrantTarget,
         TargetUnready, CallRefused, Fail, ApplyStatus, NoWrite, Kept
    <2> QED
      BY <1>1, <1>2, <2>1
  <1>4. CASE StoreKey \/ Record \/ RemoveFinalizer
    <2>1. UNCHANGED <<cr, cache, uptodate>> \/ Kept
      BY <1>4 DEF StoreKey, Record, RemoveFinalizer, Fail, ApplyStatus, NoWrite, Kept
    <2> QED
      BY <1>1, <1>2, <2>1
  <1>5. CASE Fault
    <2>1. UNCHANGED <<cr, cache, uptodate>> \/ Kept
      BY <1>5 DEF Fault, Fail, ApplyStatus, NoWrite, Kept
    <2> QED
      BY <1>1, <1>2, <2>1
  <1>6. CASE \/ Begin \/ EnsureMachineUser \/ DropGrant \/ SyncGrant \/ FinishKeyRevocation \/ RevokeLost
             \/ EnsureBundle \/ Mint \/ Cleanup \/ CleanupFails
    BY <1>2, <1>6 DEF Begin, EnsureMachineUser, DropGrant, SyncGrant, FinishKeyRevocation, RevokeLost,
       EnsureBundle, Mint, Cleanup, CleanupFails, kubernetes, crCache
  <1>7. CASE ObserveSecret \/ Tick \/ LoseSecret \/ LoseOwner \/ NewOwner \/ ScopeChanges \/ UNCHANGED vars
    BY <1>2, <1>7 DEF ObserveSecret, Tick, LoseSecret, LoseOwner, NewOwner, ScopeChanges, vars, kubernetes, crCache
  <1>8. CASE Observe \/ (\E s \in Specs : ChangeSpec(s)) \/ Delete
    BY <1>8 DEF Observe, ChangeSpec, Delete, Write, kubernetes
  <1> QED
    BY <1>3, <1>4, <1>5, <1>6, <1>7, <1>8 DEF Next, Step

LEMMA SecretCacheStep ==
  ASSUME CInv, [Next]_vars
  PROVE  secretUptodate' => secretCache' = secret'
  <1>0. secretUptodate \in BOOLEAN /\ (secretUptodate => secretCache = secret)
    BY DEF CInv, TypeOK, CopiesOK
  <1>1. CASE UNCHANGED <<secret, secretCache, secretUptodate>>
    BY <1>0, <1>1
  <1>2. CASE EnsureBundle \/ StoreKey
    <2>1. secretCache' = secretCache /\ (UNCHANGED <<secret, secretUptodate>> \/ \E x : WriteSecret(x))
      BY <1>2 DEF EnsureBundle, StoreKey, NoSecretWrite
    <2> QED
      BY <1>0, <2>1 DEF WriteSecret
  <1>3. CASE \/ OwnerMissing \/ Begin \/ EnsureFinalizer \/ EnsureMachineUser \/ DropGrant \/ FailGrantTarget
             \/ TargetUnready \/ SyncGrant \/ FinishKeyRevocation \/ RevokeLost \/ Mint \/ CallRefused
    BY <1>1, <1>3 DEF OwnerMissing, Begin, EnsureFinalizer, EnsureMachineUser, DropGrant, FailGrantTarget,
       TargetUnready, SyncGrant, FinishKeyRevocation, RevokeLost, Mint, CallRefused, kubernetes, sCache
  <1>4. CASE Record \/ Cleanup \/ RemoveFinalizer \/ Fault \/ CleanupFails \/ Observe \/ Tick
    BY <1>1, <1>4 DEF Record, Cleanup, RemoveFinalizer, Fault, CleanupFails, Observe, Tick, kubernetes, sCache
  <1>5. CASE (\E s \in Specs : ChangeSpec(s)) \/ Delete \/ LoseOwner \/ NewOwner \/ ScopeChanges \/ UNCHANGED vars
    BY <1>1, <1>5 DEF ChangeSpec, Delete, Write, LoseOwner, NewOwner, ScopeChanges, vars, kubernetes, sCache
  <1>6. CASE ObserveSecret \/ LoseSecret
    BY <1>6 DEF ObserveSecret, LoseSecret, kubernetes
  <1> QED
    BY <1>2, <1>3, <1>4, <1>5, <1>6 DEF Next, Step

\* The reconcile's copies: each comes from its cache, and is forgotten when the
\* original changes under it.
LEMMA OwnCopiesStep ==
  ASSUME CInv, [Next]_vars
  PROVE  /\ fresh' /\ pc' \in {"finalizer", "cleanup", "release", "abandon"} => obj' = cr'
         /\ sfresh' /\ pc' \in {"mint", "store"} => sobj' = secret'
  <1> USE DEF kubernetes, reconcile, CInv, CopiesOK
  <1>1. CASE OwnerMissing \/ FailGrantTarget \/ TargetUnready \/ CallRefused \/ Record \/ RemoveFinalizer \/ Fault
    BY <1>1 DEF OwnerMissing, FailGrantTarget, TargetUnready, CallRefused, Record, RemoveFinalizer, Fault, Return
  <1>2. CASE Begin \/ EnsureFinalizer \/ EnsureMachineUser \/ DropGrant
    BY <1>2 DEF Begin, EnsureFinalizer, EnsureMachineUser, DropGrant, Continue, Return
  <1>3. CASE FinishKeyRevocation \/ RevokeLost \/ Mint
    BY <1>3 DEF FinishKeyRevocation, RevokeLost, Mint, Continue
  <1>7. CASE SyncGrant \/ EnsureBundle \/ StoreKey
    <2>1. pc' \in {"key", "record", "idle"}
      BY <1>7 DEF SyncGrant, EnsureBundle, StoreKey, Continue, Return
    <2> QED
      BY <2>1
  <1>4. CASE Cleanup \/ CleanupFails \/ Observe \/ ObserveSecret \/ Tick
    BY <1>4 DEF Cleanup, CleanupFails, Observe, ObserveSecret, Tick, Continue, Return
  <1>5. CASE (\E s \in Specs : ChangeSpec(s)) \/ Delete \/ LoseSecret \/ LoseOwner \/ NewOwner \/ ScopeChanges
    BY <1>5 DEF ChangeSpec, Delete, Write, LoseSecret, LoseOwner, NewOwner, ScopeChanges
  <1>6. CASE UNCHANGED vars
    BY <1>6 DEF vars
  <1> QED
    BY <1>1, <1>2, <1>3, <1>4, <1>5, <1>6, <1>7 DEF Next, Step

\* A resource that is being deleted stays so.
LEMMA DeletingStep ==
  ASSUME CInv, [Next]_vars
  PROVE  cr.deleting => cr'.deleting
  <1> USE DEF kubernetes, CInv, TypeOK, Resource
  <1>1. CASE OwnerMissing \/ FailGrantTarget \/ TargetUnready \/ CallRefused \/ Record \/ Fault \/ StoreKey
    BY <1>1 DEF OwnerMissing, FailGrantTarget,
       TargetUnready, CallRefused, Record, Fault, StoreKey, Fail, ApplyStatus, Store, NoWrite
  <1>2. CASE EnsureFinalizer
    <2>1. cr' = cr \/ (pc = "finalizer" /\ fresh /\ cr' = [obj EXCEPT !.finalizer = TRUE])
      BY <1>2 DEF EnsureFinalizer, UpdateAccepted, Store, NoWrite
    <2> QED
      BY <2>1 DEF CopiesOK
  <1>3. CASE RemoveFinalizer
    <2>1. cr' = cr \/ (pc \in {"release", "abandon"} /\ fresh /\ cr' = Collected([obj EXCEPT !.finalizer = FALSE]))
      BY <1>3 DEF RemoveFinalizer, UpdateAccepted, Store, NoWrite
    <2> QED
      BY <2>1 DEF CopiesOK, Collected
  <1>4. CASE \/ Begin \/ EnsureMachineUser \/ DropGrant \/ SyncGrant \/ FinishKeyRevocation \/ RevokeLost
             \/ EnsureBundle \/ Mint \/ Cleanup \/ CleanupFails \/ Observe \/ ObserveSecret \/ Tick
    BY <1>4 DEF Begin, EnsureMachineUser, DropGrant, SyncGrant, FinishKeyRevocation, RevokeLost,
       EnsureBundle, Mint, Cleanup, CleanupFails, Observe, ObserveSecret, Tick
  <1>5. CASE (\E s \in Specs : ChangeSpec(s)) \/ Delete \/ LoseSecret \/ LoseOwner \/ NewOwner \/ ScopeChanges
    BY <1>5 DEF ChangeSpec, Delete, Write, Collected, LoseSecret, LoseOwner, NewOwner, ScopeChanges
  <1>6. CASE UNCHANGED vars
    BY <1>6 DEF vars
  <1> QED
    BY <1>1, <1>2, <1>3, <1>4, <1>5, <1>6 DEF Next, Step

\* The cache of the resource takes its versions from the API server.
LEMMA CacheCopies ==
  ASSUME [Next]_vars
  PROVE  cache' = cache \/ cache' = cr
  <1>1. CASE \/ OwnerMissing \/ Begin \/ EnsureFinalizer \/ EnsureMachineUser \/ DropGrant \/ FailGrantTarget
             \/ TargetUnready \/ SyncGrant \/ FinishKeyRevocation \/ RevokeLost \/ EnsureBundle \/ Mint \/ CallRefused
    BY <1>1 DEF crCache, OwnerMissing, Begin, EnsureFinalizer, EnsureMachineUser, DropGrant, FailGrantTarget,
       TargetUnready, SyncGrant, FinishKeyRevocation, RevokeLost, EnsureBundle, Mint, CallRefused
  <1>2. CASE \/ StoreKey \/ Record \/ Cleanup \/ RemoveFinalizer \/ Fault \/ CleanupFails \/ Observe
             \/ ObserveSecret \/ Tick
    BY <1>2 DEF crCache, StoreKey, Record, Cleanup, RemoveFinalizer, Fault, CleanupFails, Observe,
       ObserveSecret, Tick
  <1>3. CASE \/ (\E s \in Specs : ChangeSpec(s)) \/ Delete \/ LoseSecret \/ LoseOwner \/ NewOwner
             \/ ScopeChanges \/ UNCHANGED vars
    BY <1>3 DEF crCache, ChangeSpec, Delete, Write, LoseSecret, LoseOwner, NewOwner, ScopeChanges, vars
  <1> QED
    BY <1>1, <1>2, <1>3 DEF Next, Step

\* A cleanup is begun, and its finalizer removed, on a copy that is being deleted.
LEMMA CleanupStep ==
  ASSUME CInv, [Next]_vars
  PROVE  cache'.deleting \/ pc' \in {"cleanup", "release", "abandon"} => cr'.deleting
  <1>1. cr.deleting => cr'.deleting
    BY DeletingStep
  <1>2. cache' = cache \/ cache' = cr
    BY CacheCopies
  <1>3. pc' \in {"cleanup", "release", "abandon"} => pc \in {"cleanup", "release", "abandon"} \/ cache.deleting
    <2>1. CASE \/ OwnerMissing \/ Begin \/ EnsureFinalizer \/ EnsureMachineUser \/ DropGrant \/ FailGrantTarget
               \/ TargetUnready \/ SyncGrant \/ FinishKeyRevocation \/ RevokeLost \/ EnsureBundle \/ Mint \/ CallRefused
      BY <2>1 DEF OwnerMissing, Begin, EnsureFinalizer, EnsureMachineUser, DropGrant, FailGrantTarget, TargetUnready,
         SyncGrant, FinishKeyRevocation, RevokeLost, EnsureBundle, Mint, CallRefused, Continue, Return
    <2>2. CASE \/ StoreKey \/ Record \/ Cleanup \/ RemoveFinalizer \/ Fault \/ CleanupFails \/ Observe
               \/ ObserveSecret \/ Tick
      BY <2>2 DEF reconcile, StoreKey, Record, Cleanup, RemoveFinalizer, Fault, CleanupFails, Observe,
         ObserveSecret, Tick, Continue, Return
    <2>3. CASE \/ (\E s \in Specs : ChangeSpec(s)) \/ Delete \/ LoseSecret \/ LoseOwner \/ NewOwner
               \/ ScopeChanges \/ UNCHANGED vars
      BY <2>3 DEF reconcile, ChangeSpec, Delete, Write, LoseSecret, LoseOwner, NewOwner, ScopeChanges, vars
    <2> QED
      BY <2>1, <2>2, <2>3 DEF Next, Step
  <1> QED
    BY <1>1, <1>2, <1>3 DEF CInv, CopiesOK

\* A Secret that does not exist has no credential.
LEMMA EmptySecretStep ==
  ASSUME CInv, [Next]_vars
  PROVE  \A x \in {secret', secretCache', sobj'} : ~x.exists => x.key = 0
  <1>1. ~secret'.exists => secret'.key = 0
    <2>1. CASE EnsureBundle
      BY <2>1, EnsureBundleKey DEF CInv, CopiesOK
    <2>2. CASE StoreKey
      <3> DEFINE x == [sobj EXCEPT !.exists = TRUE, !.key = obj.status.id]
      <3>1. x \in SecretType /\ x.exists
        BY DEF CInv, TypeOK, SecretType, Resource, Status
      <3>2. Bundled(x).exists
        BY <3>1, BundledType DEF CInv
      <3> QED
        BY <2>2, <3>2 DEF StoreKey, WriteSecret, NoSecretWrite, CInv, CopiesOK
    <2>3. CASE EnsureMachineUser \/ SyncGrant \/ FinishKeyRevocation \/ RevokeLost \/ Mint \/ Cleanup
                 \/ LoseSecret \/ LoseOwner \/ NewOwner
      BY <2>3, NoCopyIs DEF EnsureMachineUser, SyncGrant, FinishKeyRevocation, RevokeLost, Mint, Cleanup,
         LoseSecret, LoseOwner, NewOwner, kubernetes, CInv, CopiesOK
    <2>4. CASE UNCHANGED secret
      BY <2>4 DEF CInv, CopiesOK
    <2> QED
      BY <2>1, <2>2, <2>3, <2>4, QuietSteps DEF Next, Step
  <1>2. secretCache' \in {secretCache, secret} /\ sobj' \in {sobj, secretCache, NoSecret}
    <2>1. CASE \/ OwnerMissing \/ Begin \/ EnsureFinalizer \/ EnsureMachineUser \/ DropGrant \/ FailGrantTarget
               \/ TargetUnready \/ SyncGrant \/ FinishKeyRevocation \/ RevokeLost \/ EnsureBundle \/ Mint \/ CallRefused
      BY <2>1 DEF sCache, OwnerMissing, Begin, EnsureFinalizer, EnsureMachineUser, DropGrant, FailGrantTarget,
         TargetUnready, SyncGrant, FinishKeyRevocation, RevokeLost, EnsureBundle, Mint, CallRefused, Return
    <2>2. CASE \/ StoreKey \/ Record \/ Cleanup \/ RemoveFinalizer \/ Fault \/ CleanupFails \/ Observe
               \/ ObserveSecret \/ Tick
      BY <2>2 DEF sCache, reconcile, StoreKey, Record, Cleanup, RemoveFinalizer, Fault, CleanupFails, Observe,
         ObserveSecret, Tick, Return
    <2>3. CASE \/ (\E s \in Specs : ChangeSpec(s)) \/ Delete \/ LoseSecret \/ LoseOwner \/ NewOwner
               \/ ScopeChanges \/ UNCHANGED vars
      BY <2>3 DEF sCache, reconcile, ChangeSpec, Delete, Write, LoseSecret, LoseOwner, NewOwner, ScopeChanges, vars
    <2> QED
      BY <2>1, <2>2, <2>3 DEF Next, Step
  <1> QED
    BY <1>1, <1>2, NoCopyIs DEF CInv, CopiesOK

LEMMA CopiesStep ==
  ASSUME CInv, [Next]_vars
  PROVE  CopiesOK'
  BY CacheStep, SecretCacheStep, OwnCopiesStep, CleanupStep, EmptySecretStep DEF CopiesOK

-------------------------------------------------------------------------------
(* Rotations *)

SameKey(s, t) == s.id = t.id /\ s.prev = t.prev /\ s.revokeAt = t.revokeAt

\* What a status can come from, other than from a mint: the status of the resource
\* from itself, from a copy, and only of a token from one with a credential to store.
FromCopies ==
  \/ SameKey(cr'.status, cr.status)
  \/ SameKey(cr'.status, cache.status) /\ pc' # "store"
  \/ SameKey(cr'.status, obj.status) /\ pc' # "store" /\ (pc # "store" \/ IsToken)
LEMMA ResourceStatus ==
  ASSUME CInv, [Next]_vars
  PROVE  FromCopies
  <1> USE DEF kubernetes, CInv, TypeOK, Resource, FromCopies, SameKey
  <1>1. CASE OwnerMissing
    BY <1>1 DEF OwnerMissing, ApplyStatus, Store, NoWrite, Return
  <1>2. CASE EnsureFinalizer \/ RemoveFinalizer
    <2>1. \/ cr' = cr
          \/ pc = "finalizer" /\ pc' # "store" /\ cr' = [obj EXCEPT !.finalizer = TRUE]
          \/ pc \in {"release", "abandon"} /\ pc' # "store" /\ cr' = Collected([obj EXCEPT !.finalizer = FALSE])
      BY <1>2 DEF EnsureFinalizer, RemoveFinalizer, Store, NoWrite, Continue, Return
    <2> QED
      BY <2>1 DEF Collected
  <1>3. CASE FailGrantTarget \/ TargetUnready
    <2>1. pc = "grant" /\ pc' = "idle"
          /\ cr' = IF cr.gone THEN cr ELSE [cr EXCEPT !.status = [obj EXCEPT !.status.ready = FALSE].status]
      BY <1>3 DEF FailGrantTarget, TargetUnready, ApplyStatus, Store, Return
    <2> QED
      BY <2>1 DEF Status
  <1>4. CASE CallRefused \/ Fault
    <2>1. /\ pc' = "idle" /\ (cr' = cr \/ ApplyStatus(obj)) /\ (pc # "store" \/ IsToken \/ cr' = cr)
      BY <1>4 DEF CallRefused, Fault, Fail, NoWrite, Return, Starved, AddsGrant
    <2> QED
      BY <2>1 DEF ApplyStatus, Store
  <1>5. CASE StoreKey
    <2>1. pc' \in {"idle", "record"} /\ (cr' = cr \/ (IsToken /\ ApplyStatus(obj)))
      BY <1>5 DEF StoreKey, Fail, NoWrite, Return, Continue
    <2> QED
      BY <2>1 DEF ApplyStatus, Store
  <1>6. CASE Record
    <2> DEFINE s == [[obj.status EXCEPT !.owner = found] EXCEPT !.ready = TRUE]
    <2>1. SameKey(s, obj.status)
      BY DEF Status
    <2>2. pc = "record" /\ pc' = "idle" /\ (cr' = cr \/ cr' = [cr EXCEPT !.status = [obj EXCEPT !.status = s].status])
      BY <1>6 DEF Record, NoWrite, ApplyStatus, Store, Return
    <2> HIDE DEF s
    <2> QED
      BY <2>1, <2>2
  <1>7. CASE \/ Begin \/ EnsureMachineUser \/ DropGrant \/ SyncGrant \/ FinishKeyRevocation \/ RevokeLost
             \/ EnsureBundle \/ Mint \/ Cleanup \/ CleanupFails \/ Observe \/ ObserveSecret \/ Tick
    BY <1>7 DEF Begin, EnsureMachineUser, DropGrant, SyncGrant, FinishKeyRevocation, RevokeLost,
       EnsureBundle, Mint, Cleanup, CleanupFails, Observe, ObserveSecret, Tick
  <1>8. CASE (\E s \in Specs : ChangeSpec(s)) \/ Delete \/ LoseSecret \/ LoseOwner \/ NewOwner \/ ScopeChanges
    BY <1>8 DEF ChangeSpec, Delete, Write, Collected, LoseSecret, LoseOwner, NewOwner, ScopeChanges
  <1>9. CASE UNCHANGED vars
    BY <1>9 DEF vars
  <1> QED
    BY <1>1, <1>2, <1>3, <1>4, <1>5, <1>6, <1>7, <1>8, <1>9 DEF Next, Step

\* ... and that of the reconcile's copy.
CopyFrom ==
  \/ SameKey(obj'.status, obj.status) /\ pc # "store" /\ pc' # "store"
  \/ obj' = obj /\ pc = "store" /\ pc' = "store"
  \/ StoresKey
  \/ obj' = cache /\ pc' # "store"
  \/ obj'.status.id \in {0, obj.status.id} /\ obj'.status.prev = 0 /\ pc' # "store"
LEMMA CopyStatus ==
  ASSUME CInv, [Next]_vars
  PROVE  CopyFrom \/ Mints
  <1> USE DEF CInv, TypeOK, Resource, CopyFrom, SameKey
  <1>1. CASE OwnerMissing \/ FailGrantTarget \/ TargetUnready \/ CallRefused \/ Record \/ RemoveFinalizer \/ Fault
    BY <1>1, NoCopyIs DEF OwnerMissing, FailGrantTarget,
       TargetUnready, CallRefused, Record, RemoveFinalizer, Fault, Return
  <1>2. CASE Begin
    BY <1>2 DEF Begin, Continue
  <1>3. CASE EnsureFinalizer \/ EnsureMachineUser
    BY <1>3, NoCopyIs DEF EnsureFinalizer, EnsureMachineUser, Continue, Return
  <1>4. CASE DropGrant
    BY <1>4 DEF DropGrant, Status
  <1>5. CASE SyncGrant
    <2>1. pc = "grant" /\ pc' = "key" /\ obj.status \in Status
          /\ (obj' = obj \/ \E i \in Ids : obj' = [obj EXCEPT !.status.project = Target, !.status.grant = i])
      BY <1>5 DEF SyncGrant, Continue
    <2>2. SameKey(obj'.status, obj.status)
      <3>1. CASE obj' = obj
        BY <3>1
      <3>2. CASE \E i \in Ids : obj' = [obj EXCEPT !.status.project = Target, !.status.grant = i]
        <4>1. PICK i \in Ids : obj' = [obj EXCEPT !.status.project = Target, !.status.grant = i]
          BY <3>2
        <4> DEFINE y == [obj EXCEPT !.status.project = Target, !.status.grant = i]
        <4>2. y.status.id = obj.status.id /\ y.status.prev = obj.status.prev
              /\ y.status.revokeAt = obj.status.revokeAt
          BY <2>1 DEF Status
        <4> HIDE DEF y
        <4>3. obj' = y
          BY <4>1 DEF y
        <4> QED
          BY <4>2, <4>3
      <3> QED
        BY <2>1, <3>1, <3>2
    <2> QED
      BY <2>1, <2>2
  <1>6. CASE FinishKeyRevocation
    BY <1>6 DEF FinishKeyRevocation, Continue, Status
  <1>7. CASE RevokeLost \/ EnsureBundle
    BY <1>7, NoCopyIs DEF RevokeLost, EnsureBundle, Continue, Return
  <1>8. CASE Mint
    BY <1>8, MintIs
  <1>9. CASE StoreKey
    <2>1. CASE Return
      BY <2>1, NoCopyIs DEF Return
    <2>2. CASE ~Return
      <3> DEFINE x == [sobj EXCEPT !.exists = TRUE, !.key = obj.status.id]
      <3>1. x \in SecretType /\ x.key = obj.status.id
        BY DEF SecretType, Status
      <3>2. Bundled(x).key = obj.status.id
        BY <3>1, BundledType
      <3> QED
        BY <1>9, <2>2, <3>2 DEF StoreKey, WriteSecret, Continue, NoWrite, StoresKey, zitadel
    <2> QED
      BY <2>1, <2>2
  <1>10. CASE Cleanup \/ CleanupFails \/ Observe \/ ObserveSecret \/ Tick
    BY <1>10, NoCopyIs DEF Cleanup, CleanupFails, Observe, ObserveSecret, Tick, Continue, Return, reconcile
  <1>11. CASE (\E s \in Specs : ChangeSpec(s)) \/ Delete \/ LoseSecret \/ LoseOwner \/ NewOwner \/ ScopeChanges
    BY <1>11 DEF ChangeSpec, Delete, Write, LoseSecret, LoseOwner, NewOwner, ScopeChanges, reconcile
  <1>12. CASE UNCHANGED vars
    BY <1>12 DEF vars, reconcile
  <1> QED
    BY <1>1, <1>2, <1>3, <1>4, <1>5, <1>6, <1>7, <1>8, <1>9, <1>10, <1>11, <1>12 DEF Next, Step

\* What is older than its successor stays so.
LEMMA OlderKept ==
  ASSUME CInv, [Next]_vars, NEW s, s.id \in Nat, s.prev \in Nat, OlderThanSuccessor(s)
  PROVE  OlderThanSuccessor(s)'
  <1>1. next \in Nat /\ next' \in {next, next + 1}
    BY CredsStep, CredentialsAssumption DEF CInv, TypeOK, NoMint, Mints
  <1>2. \A j \in Ids : mintedAt[j] # None => mintedAt'[j] = mintedAt[j]
    BY CredsStep DEF CInv, TypeOK, IdsDrawn, NoMint, Mints
  <1>3. s.id < next' /\ s.prev < next'
    BY <1>1 DEF OlderThanSuccessor
  <1> QED
    BY <1>2, <1>3 DEF OlderThanSuccessor

\* A mint's record names a key as rotated out, or its grace, only after the mint.
LEMMA MintRotation ==
  ASSUME CInv, [Next]_vars, Mints
  PROVE  RotationOK'
  <1> DEFINE r == Recorded(next)
  <1>1. /\ TypeOK /\ next \in Ids /\ next' = next + 1 /\ pc' = "store" /\ pc = "mint"
        /\ cr' = cr /\ cache' = cache /\ secret' = secret /\ kind' = kind
        /\ mintedAt' = [mintedAt EXCEPT ![next] = now] /\ obj' = [obj EXCEPT !.status = r]
    BY DEF CInv, Mints
  <1>2. /\ obj.status \in Status /\ cr.status \in Status /\ cache.status \in Status
        /\ now \in Times /\ next \in Nat /\ Grace \in Nat /\ MaxId \in Nat
    BY <1>1, CredentialsAssumption DEF TypeOK, Resource, Times, Ids
  <1>3. obj'.status = r
    BY <1>1 DEF TypeOK, Resource
  <1>4. /\ r.id = next
        /\ \/ r.prev = obj.status.prev /\ r.revokeAt = obj.status.revokeAt
           \/ r.prev = obj.status.id /\ r.revokeAt = now + Grace /\ ~IsToken
    BY <1>2 DEF Recorded, Status
  <1> HIDE DEF r
  <1>5. /\ OlderThanSuccessor(cr.status) /\ OlderThanSuccessor(cache.status) /\ OlderThanSuccessor(obj.status)
        /\ NotStored(cr.status) /\ NotStored(cache.status) /\ NotStored(obj.status)
    BY <1>1 DEF CInv, RotationOK
  <1>6. cr.status.prev < next /\ cache.status.prev < next /\ r.prev < next /\ r.prev \in Nat
    BY <1>2, <1>4, <1>5 DEF OlderThanSuccessor, Status
  <1>7. /\ OlderThanSuccessor(cr.status)' /\ OlderThanSuccessor(cache.status)'
    BY <1>1, <1>2, <1>5, OlderKept DEF Status
  <1>8. \A j \in Ids : mintedAt[j] # None => mintedAt'[j] = mintedAt[j]
    BY <1>1 DEF CInv, TypeOK, IdsDrawn
  <1>9. OlderThanSuccessor(obj.status)'
    <2>1. r.id < next' /\ r.prev < next'
      BY <1>1, <1>2, <1>4, <1>6
    <2>2. CASE r.prev = obj.status.prev /\ r.revokeAt = obj.status.revokeAt
      <3>1. r.prev # 0 /\ r.revokeAt # None =>
              \E j \in Ids : j > r.prev /\ mintedAt'[j] # None /\ r.revokeAt >= mintedAt'[j] + Grace
        BY <1>5, <1>8, <2>2 DEF OlderThanSuccessor
      <3> QED
        BY <1>3, <2>1, <3>1 DEF OlderThanSuccessor
    <2>3. CASE r.prev = obj.status.id /\ r.revokeAt = now + Grace
      <3>1. mintedAt'[next] = now /\ now # None
        BY <1>1, <1>2, CredentialsAssumption DEF TypeOK, Times
      <3>2. r.revokeAt >= mintedAt'[next] + Grace /\ next > r.prev
        BY <1>2, <1>6, <2>3, <3>1 DEF Times
      <3>3. \E j \in Ids : j > r.prev /\ mintedAt'[j] # None /\ r.revokeAt >= mintedAt'[j] + Grace
        BY <1>1, <3>1, <3>2
      <3> QED
        BY <1>3, <2>1, <3>3 DEF OlderThanSuccessor
    <2> QED
      BY <1>4, <2>2, <2>3
  <1>10. IsToken => NotStored(r)
    BY <1>4, <1>5 DEF NotStored
  <1>11. \A s \in {cr'.status, cache'.status, obj'.status} : s.prev < obj'.status.id
    BY <1>1, <1>3, <1>4, <1>6
  <1>12. NotStored(cr.status)' /\ NotStored(cache.status)' /\ (IsToken' => NotStored(obj.status)')
    BY <1>1, <1>3, <1>5, <1>10 DEF NotStored, IsToken
  <1> QED
    BY <1>1, <1>7, <1>9, <1>11, <1>12 DEF RotationOK, OlderThanSuccessor

LEMMA KindStep ==
  ASSUME [Next]_vars
  PROVE  kind' = kind
  <1>1. CASE EnsureMachineUser \/ SyncGrant \/ FinishKeyRevocation \/ RevokeLost \/ EnsureBundle \/ Mint
    BY <1>1 DEF EnsureMachineUser, SyncGrant, FinishKeyRevocation, RevokeLost, EnsureBundle, Mint
  <1>2. CASE StoreKey \/ Cleanup \/ LoseSecret \/ LoseOwner \/ NewOwner
    BY <1>2 DEF StoreKey, Cleanup, LoseSecret, LoseOwner, NewOwner, Edit
  <1> QED
    BY <1>1, <1>2, QuietSteps DEF Next, Step

LEMMA RotationStep ==
  ASSUME CInv, [Next]_vars
  PROVE  RotationOK'
  <1> DEFINE Old(s) == s.id \in Nat /\ s.prev \in Nat /\ OlderThanSuccessor(s)
             OldNext(s) == /\ s.id < next' /\ s.prev < next'
                           /\ s.prev # 0 /\ s.revokeAt # None =>
                                \E j \in Ids : /\ j > s.prev /\ mintedAt'[j] # None
                                              /\ s.revokeAt >= mintedAt'[j] + Grace
  <1>1. /\ obj.status \in Status /\ cr.status \in Status /\ cache.status \in Status
        /\ next \in Nat \ {0} /\ next' \in {next, next + 1} /\ kind' = kind
    BY CredsStep, KindStep, CredentialsAssumption DEF CInv, TypeOK, Resource, NoMint, Mints
  <1>2. /\ Old(cr.status) /\ Old(cache.status) /\ Old(obj.status)
        /\ NotStored(cr.status) /\ NotStored(cache.status)
        /\ (pc # "store" \/ IsToken => NotStored(obj.status))
        /\ (pc = "store" => \A s \in {cr.status, cache.status, obj.status} : s.prev < obj.status.id)
    BY <1>1 DEF CInv, RotationOK, Status
  <1>3. \A s, q : Old(s) /\ SameKey(q, s) => OldNext(q)
    <2> SUFFICES ASSUME NEW s, NEW q, Old(s), SameKey(q, s)
                 PROVE  OldNext(q)
      OBVIOUS
    <2>1. OlderThanSuccessor(s)'
      BY OlderKept
    <2> QED
      BY <2>1 DEF OlderThanSuccessor, SameKey
  <1> HIDE DEF Old, OldNext
  <1>4. \A s : SameKey(s, s)
    BY DEF SameKey
  <1>5. SUFFICES ASSUME ~Mints
                 PROVE  RotationOK'
    BY MintRotation
  <1>6. FromCopies /\ CopyFrom /\ cache' \in {cache, cr}
    BY <1>5, ResourceStatus, CopyStatus, CacheCopies
  <1>7. OldNext(cr'.status) /\ OldNext(cache'.status)
    BY <1>2, <1>3, <1>4, <1>6 DEF FromCopies
  <1>8. OldNext(obj'.status)
    <2>1. CASE obj'.status.id \in {0, obj.status.id} /\ obj'.status.prev = 0
      <3>1. obj'.status.id < next' /\ 0 < next'
        BY <1>1, <1>2, <2>1 DEF Old, OlderThanSuccessor
      <3> QED
        BY <2>1, <3>1 DEF OldNext
    <2>2. CASE StoresKey
      BY <1>2, <1>3, <1>4, <2>2 DEF StoresKey
    <2> QED
      BY <1>2, <1>3, <1>4, <1>6, <2>1, <2>2 DEF CopyFrom
  <1>9. CASE StoresKey
    <2>1. /\ pc' # "store" /\ cr' = cr /\ cache' = cache /\ obj' = obj /\ secret'.key = obj.status.id /\ pc = "store"
      BY <1>9 DEF StoresKey
    <2>2. NotStored(cr.status)' /\ NotStored(cache.status)' /\ NotStored(obj.status)'
      BY <1>1, <1>2, <2>1 DEF NotStored, Status
    <2> QED
      BY <1>7, <1>8, <2>1, <2>2 DEF RotationOK, OlderThanSuccessor, OldNext
  <1>10. CASE ~StoresKey
    <2>1. secret'.key \in {secret.key, 0}
      BY <1>10, SecretStep
    <2>2. NotStored(cr.status)' /\ NotStored(cache.status)'
      BY <1>2, <1>6, <2>1 DEF NotStored, FromCopies, SameKey
    <2>3. pc' # "store" \/ IsToken' => NotStored(obj.status)'
      BY <1>1, <1>2, <1>6, <1>10, <2>1 DEF NotStored, CopyFrom, SameKey, IsToken
    <2>4. pc' = "store" => \A s \in {cr'.status, cache'.status, obj'.status} : s.prev < obj'.status.id
      <3>1. pc' = "store" => pc = "store" /\ obj' = obj /\ SameKey(cr'.status, cr.status)
        BY <1>6, <1>10 DEF CopyFrom, FromCopies
      <3> QED
        BY <1>2, <1>6, <3>1 DEF SameKey
    <2> QED
      BY <1>7, <1>8, <2>2, <2>3, <2>4 DEF RotationOK, OlderThanSuccessor, OldNext
  <1> QED
    BY <1>9, <1>10

-------------------------------------------------------------------------------
(* Owners, releases, and the key in the Secret *)

\* While a user stays, its keys go only when they were rotated out and had their
\* grace, and a key that waits to be stored waits for the same user.
LEMMA LossStep ==
  ASSUME CInv, [Next]_vars, ~IsToken
  PROVE  /\ owner' = owner =>
              \A k \in creds \ creds' : pc = "key" /\ k = obj.status.prev /\ GraceOver(obj.status)
         /\ pc' \in {"store", "release"} => ~NewUser
  <1>1. CASE SyncGrant \/ EnsureBundle \/ StoreKey \/ Mint
    <2>1. owner' = owner /\ creds \subseteq creds'
      BY <1>1 DEF SyncGrant, EnsureBundle, StoreKey, Mint, zitadel
    <2>2. next # 0
      BY CredentialsAssumption DEF CInv, TypeOK
    <2> QED
      BY <2>1, <2>2 DEF NewUser
  <1>7. CASE EnsureMachineUser
    BY <1>7 DEF EnsureMachineUser, Continue
  <1>2. CASE FinishKeyRevocation
    BY <1>2, CredentialsAssumption DEF FinishKeyRevocation, Continue, NewUser, CInv, TypeOK
  <1>3. CASE RevokeLost \/ NewOwner
    BY <1>3 DEF RevokeLost, NewOwner
  <1>4. CASE LoseSecret
    BY <1>4, CredentialsAssumption DEF LoseSecret, zitadel, NewUser, CInv, TypeOK
  <1>5. CASE Cleanup \/ LoseOwner
    BY <1>5 DEF Cleanup, LoseOwner, NewUser, CInv, TypeOK, OwnerOK
  <1>6. CASE UNCHANGED <<owner, creds, next>>
    BY <1>6, CredentialsAssumption DEF NewUser, CInv, TypeOK
  <1> QED
    BY <1>1, <1>2, <1>3, <1>4, <1>5, <1>6, <1>7, QuietSteps DEF Next, Step

LEMMA OwnerOKStep ==
  ASSUME CInv, [Next]_vars
  PROVE  OwnerOK'
  <1>1. TypeOK /\ OwnerOK /\ IdsDrawn /\ kind' = kind /\ next \in Nat \ {0}
    BY KindStep, CredentialsAssumption DEF CInv, TypeOK
  <1>2. owner' = 0 => creds' = {}
    BY <1>1, OwnerStep, CredsStep DEF OwnerOK, NewUser, NoMint, Mints
  <1>3. pc' \in {"grant", "key", "mint", "store"} \/ (IsToken' /\ pc' = "finalizer") => found' # 0
    <2> USE DEF OwnerOK, IsToken
    <2>1. CASE OwnerMissing \/ FailGrantTarget \/ TargetUnready \/ CallRefused \/ Record \/ RemoveFinalizer \/ Fault
      BY <2>1 DEF OwnerMissing, FailGrantTarget, TargetUnready, CallRefused, Record, RemoveFinalizer, Fault, Return
    <2>2. CASE Begin \/ EnsureFinalizer
      BY <1>1, <2>2 DEF Begin, EnsureFinalizer, Continue, Return
    <2>3. CASE EnsureMachineUser
      BY <1>1, <2>3 DEF EnsureMachineUser, Draw
    <2>4. CASE DropGrant \/ SyncGrant \/ FinishKeyRevocation \/ RevokeLost \/ EnsureBundle \/ Mint \/ StoreKey
      BY <1>1, <2>4 DEF DropGrant, SyncGrant, FinishKeyRevocation, RevokeLost, EnsureBundle, Mint, StoreKey,
         Continue, Return
    <2>5. CASE Cleanup \/ CleanupFails \/ Observe \/ ObserveSecret \/ Tick
      BY <1>1, <2>5 DEF Cleanup, CleanupFails, Observe, ObserveSecret, Tick, Continue, Return, reconcile
    <2>6. CASE (\E s \in Specs : ChangeSpec(s)) \/ Delete \/ LoseSecret \/ LoseOwner \/ NewOwner \/ ScopeChanges
      BY <1>1, <2>6 DEF ChangeSpec, Delete, Write, LoseSecret, LoseOwner, NewOwner, ScopeChanges, reconcile
    <2>7. CASE UNCHANGED vars
      BY <1>1, <2>7 DEF vars, reconcile
    <2> QED
      BY <2>1, <2>2, <2>3, <2>4, <2>5, <2>6, <2>7 DEF Next, Step
  <1>4. pc' = "store" /\ ~IsToken' /\ owner' # 0 => obj'.status.id \in creds' /\ obj'.status.id > owner'
    <2> SUFFICES ASSUME pc' = "store", ~IsToken, owner' # 0
                 PROVE  obj'.status.id \in creds' /\ obj'.status.id > owner'
      BY <1>1 DEF IsToken
    <2>1. CASE Mints
      <3>1. Recorded(next).id = next
        BY <1>1 DEF Recorded, TypeOK, Resource, Status
      <3>2. obj'.status.id = next
        BY <1>1, <2>1, <3>1 DEF Mints, TypeOK, Resource
      <3> QED
        BY <1>1, <2>1, <3>2 DEF Mints, IdsDrawn, TypeOK
    <2>2. CASE ~Mints
      <3>1. pc = "store" /\ obj' = obj
        BY <2>2, CopyStatus DEF CopyFrom, StoresKey
      <3>2. owner' = owner
        BY <1>1, OwnerStep, LossStep
      <3>3. creds \subseteq creds'
        BY <3>1, <3>2, LossStep
      <3> QED
        BY <1>1, <3>1, <3>2, <3>3 DEF OwnerOK
    <2> QED
      BY <2>1, <2>2
  <1> QED
    BY <1>2, <1>3, <1>4 DEF OwnerOK

LEMMA ReleaseStep ==
  ASSUME CInv, [Next]_vars
  PROVE  ReleaseOK'
  <1>1. TypeOK /\ ReleaseOK /\ kind' = kind
    BY KindStep, CredentialsAssumption DEF CInv, TypeOK
  <1> SUFFICES ASSUME pc' = "release"
               PROVE  IF IsToken THEN obj'.status.id \notin creds'
                      ELSE obj'.status.owner = 0 \/ obj'.status.owner # owner'
    BY <1>1 DEF ReleaseOK, IsToken
  <1>2. CASE Cleanup
    BY <1>2 DEF Cleanup, Continue
  <1>3. CASE CleanupFails
    BY <1>3 DEF CleanupFails, Return, Continue
  <1>4. CASE pc = "release" /\ obj' = obj
    <2>1. IsToken => creds' \subseteq creds
      BY <1>1, <1>4, CredsStep DEF NoMint, Mints
    <2>2. ~IsToken => owner' \in {owner, 0}
      BY <1>4, OwnerStep, LossStep
    <2> QED
      BY <1>1, <1>4, <2>1, <2>2 DEF ReleaseOK
  <1>5. Cleanup \/ CleanupFails \/ (pc = "release" /\ obj' = obj)
    <2>1. CASE OwnerMissing \/ FailGrantTarget \/ TargetUnready \/ CallRefused \/ Record \/ RemoveFinalizer \/ Fault
      BY <2>1 DEF OwnerMissing, FailGrantTarget, TargetUnready, CallRefused, Record, RemoveFinalizer, Fault, Return
    <2>2. CASE Begin \/ EnsureFinalizer \/ EnsureMachineUser \/ DropGrant \/ SyncGrant \/ FinishKeyRevocation
      BY <2>2 DEF Begin, EnsureFinalizer, EnsureMachineUser, DropGrant, SyncGrant, FinishKeyRevocation, Continue, Return
    <2>3. CASE RevokeLost \/ EnsureBundle \/ Mint \/ StoreKey
      BY <2>3 DEF RevokeLost, EnsureBundle, Mint, StoreKey, Continue, Return
    <2>4. CASE Observe \/ ObserveSecret \/ Tick \/ UNCHANGED vars
      BY <2>4 DEF Observe, ObserveSecret, Tick, reconcile, limits, vars
    <2>5. CASE (\E s \in Specs : ChangeSpec(s)) \/ Delete \/ LoseSecret \/ LoseOwner \/ NewOwner \/ ScopeChanges
      BY <2>5 DEF ChangeSpec, Delete, Write, Edit, LoseSecret, LoseOwner, NewOwner, ScopeChanges, reconcile
    <2> QED
      BY <2>1, <2>2, <2>3, <2>4, <2>5 DEF Next, Step
  <1> QED
    BY <1>2, <1>3, <1>4, <1>5

LEMMA StoredKeyStep ==
  ASSUME CInv, [Next]_vars
  PROVE  StoredKeyLive'
  <1>1. TypeOK /\ StoredKeyLive /\ IdsDrawn /\ OwnerOK /\ RotationOK /\ kind' = kind
    BY KindStep DEF CInv
  <1> SUFFICES ASSUME ~IsToken, owner' # 0, secret'.key > owner'
               PROVE  secret'.key \in creds'
    BY <1>1 DEF StoredKeyLive, IsToken
  <1>2. CASE NewUser
    <2>1. secret'.key \in {secret.key, 0}
      BY <1>2, SecretStep, CredentialsAssumption DEF NewUser, StoresKey, CInv, TypeOK
    <2>2. next \in Nat \ {0} /\ secret.key \in Nat /\ secret.key < next
      BY <1>1, CredentialsAssumption DEF TypeOK, SecretType, IdsDrawn
    <2> QED
      BY <1>2, <2>1, <2>2 DEF NewUser
  <1>3. CASE owner' = owner
    <2>1. CASE StoresKey
      BY <1>1, <1>3, <2>1 DEF StoresKey, OwnerOK
    <2>2. CASE secret'.key = 0
      BY <1>1, <1>3, <2>2, CredentialsAssumption DEF TypeOK
    <2>3. CASE secret'.key = secret.key
      <3>1. secret.key \in creds
        BY <1>1, <1>3, <2>3 DEF StoredKeyLive
      <3>2. secret.key \notin creds' => pc = "key" /\ secret.key = obj.status.prev /\ obj.status.prev # 0
        BY <1>3, <3>1, LossStep DEF GraceOver
      <3>3. pc = "key" => NotStored(obj.status)
        BY <1>1 DEF RotationOK
      <3> QED
        BY <2>3, <3>2, <3>3 DEF NotStored
    <2> QED
      BY <2>1, <2>2, <2>3, SecretStep
  <1> QED
    BY <1>2, <1>3, OwnerStep

-------------------------------------------------------------------------------
(* The theorems *)

LEMMA InitInvariant == Init => CInv
  <1> SUFFICES ASSUME Init
               PROVE  CInv
    OBVIOUS
  <1>1. TypeOK
    BY InitType
  <1>2. /\ owner \in {0, 1} /\ next = owner + 1 /\ creds = {} /\ pc = "idle" /\ secret = NoSecret
        /\ secretCache = NoSecret /\ sobj = NoSecret /\ cache = NoCopy /\ obj = NoCopy
        /\ cr.status = NoStatus /\ uptodate = FALSE /\ mintedAt = [i \in Ids |-> None]
    BY DEF Init, Created
  <1>3. IdsDrawn
    BY <1>2, NoCopyIs DEF IdsDrawn
  <1>4. CopiesOK
    BY <1>2, NoCopyIs DEF CopiesOK
  <1>5. RotationOK
    BY <1>2, NoCopyIs DEF RotationOK, OlderThanSuccessor, NotStored
  <1>6. OwnerOK /\ ReleaseOK /\ StoredKeyLive
    BY <1>2, NoCopyIs DEF OwnerOK, ReleaseOK, StoredKeyLive
  <1> QED
    BY <1>1, <1>3, <1>4, <1>5, <1>6 DEF CInv

LEMMA NextInvariant == CInv /\ [Next]_vars => CInv'
  <1> SUFFICES ASSUME CInv, [Next]_vars
               PROVE  CInv'
    OBVIOUS
  <1>1. TypeOK'
    BY NextType DEF CInv
  <1> QED
    BY <1>1, IdsDrawnStep, CopiesStep, RotationStep, OwnerOKStep, ReleaseStep, StoredKeyStep DEF CInv

\* The invariant holds in every reachable state, for any bounds and any spec.
THEOREM Inductive == Spec => []CInv
  BY InitInvariant, NextInvariant, PTL DEF Spec

\* Every variable keeps its type.
THEOREM TypeCorrect == Spec => []TypeOK
  <1>1. CInv => TypeOK
    BY DEF CInv
  <1> QED
    BY <1>1, Inductive, PTL

\* While its user exists, the key in the Secret of a MachineUser is valid, however stale
\* the copies that the reconcile works on, and whichever of its calls fails.
THEOREM StoredKeysLive == Spec => []StoredKeyLive
  <1>1. CInv => StoredKeyLive
    BY DEF CInv
  <1> QED
    BY <1>1, Inductive, PTL

\* Every step is one of KeyHandover, or none.
LEMMA HandoverStep ==
  ASSUME CInv, CInv', [Next]_vars
  PROVE  [Key!Next]_(Key!vars)
  <1>1. TypeOK /\ IdsDrawn /\ OwnerOK /\ RotationOK /\ kind' = kind /\ next \in Nat \ {0} /\ MaxId \in Nat
    BY KindStep, CredentialsAssumption DEF CInv, TypeOK
  <1>2. CASE IsToken
    BY <1>1, <1>2 DEF Key!vars, IsToken
  <1>3. CASE ~IsToken /\ Mints
    <2>1. next \notin creds /\ secret.key # next /\ next \in Ids
      BY <1>1, <1>3 DEF Mints, IdsDrawn, Ids, TypeOK, SecretType
    <2>2. creds' = creds \cup {next} /\ secret' = secret /\ owner' = owner
      BY <1>3 DEF Mints
    <2> QED
      BY <1>1, <1>3, <2>1, <2>2 DEF Key!Next, Key!Issue, IsToken
  <1>4. CASE ~IsToken /\ StoresKey
    <2>1. pc = "store" /\ secret'.key = obj.status.id /\ UNCHANGED <<owner, creds>>
      BY <1>4 DEF StoresKey
    <2>2. obj.status.id \in Ids
      <3>1. obj.status.id \in 0..MaxId /\ obj.status.id > cr.status.prev /\ cr.status.prev \in 0..MaxId
        BY <1>1, <2>1 DEF RotationOK, TypeOK, Resource, Status
      <3> QED
        BY <1>1, <3>1 DEF Ids
    <2>3. CASE owner = 0
      BY <1>1, <1>4, <2>1, <2>2, <2>3 DEF Key!Next, Key!HandTooLate, IsToken, OwnerOK
    <2>4. CASE owner # 0
      BY <1>1, <1>4, <2>1, <2>2, <2>4 DEF Key!Next, Key!Hand, IsToken, OwnerOK
    <2> QED
      BY <2>3, <2>4
  <1>5. CASE ~IsToken /\ ~Mints /\ ~StoresKey
    <2> USE DEF IsToken
    <2>1. creds' \subseteq creds
      BY <1>1, <1>5, CredsStep DEF NoMint
    <2>2. secret.key \in Nat /\ owner \in Nat /\ secret.key < next
      BY <1>1 DEF TypeOK, SecretType, IdsDrawn
    <2>3. CASE secret'.key = 0 /\ UNCHANGED <<owner, creds>>
      BY <1>1, <1>5, <2>2, <2>3 DEF Key!Next, Key!Withdraw
    <2>4. CASE secret'.key = secret.key
      <3>1. CASE owner' = 0 /\ creds' = {}
        BY <1>1, <1>5, <2>4, <3>1 DEF Key!Next, Key!LoseOwner
      <3>2. CASE NewUser
        <4>1. owner = 0 /\ creds' = creds /\ ~(secret'.key > owner')
          BY <1>1, <2>2, <2>4, <3>2 DEF NewUser
        <4> QED
          BY <1>1, <1>5, <2>4, <4>1 DEF Key!vars
      <3>3. CASE owner' = owner /\ creds' = creds
        BY <1>1, <1>5, <2>4, <3>3 DEF Key!vars
      <3>4. CASE owner' = owner /\ creds' # creds
        <4> DEFINE k == obj.status.prev
        <4>1. \A x \in creds \ creds' : pc = "key" /\ x = k /\ k # 0
          BY <1>5, <3>4, LossStep DEF GraceOver
        <4>2. PICK x \in creds : x \notin creds'
          BY <2>1, <3>4
        <4>3. x = k /\ creds' = creds \ {x}
          BY <2>1, <4>1, <4>2
        <4>4. x # secret.key
          BY <1>1, <4>1, <4>2, <4>3 DEF RotationOK, NotStored
        <4> QED
          BY <1>1, <1>5, <2>4, <3>4, <4>2, <4>3, <4>4 DEF Key!Next, Key!Retire
      <3> QED
        BY <3>1, <3>2, <3>3, <3>4, OwnerStep
    <2> QED
      BY <1>5, <2>3, <2>4, SecretStep
  <1> QED
    BY <1>2, <1>3, <1>4, <1>5

\* The Secret of a MachineUser hands out its keys as KeyHandover has it, whatever users
\* change, and whichever calls fail.
THEOREM Implements == Spec => Handover
  <1>1. Init => Key!Init
    <2> SUFFICES ASSUME Init
                 PROVE  Key!Init
      OBVIOUS
    <2>1. creds = {} /\ secret.key = 0 /\ owner \in {0, 1}
      BY NoCopyIs DEF Init
    <2> QED
      BY <2>1 DEF Key!Init
  <1>2. CInv /\ CInv' /\ [Next]_vars => [Key!Next]_(Key!vars)
    BY HandoverStep
  <1> QED
    BY <1>1, <1>2, Inductive, PTL DEF Spec, Handover, Key!Spec

\* No key is revoked while its user stays, unless it was rotated out Grace ago and is not
\* the one in the Secret: from stale copies of the status and of the Secret, too.
THEOREM GraceIsKept == Spec => GraceKept
  <1> DEFINE A == ~IsToken /\ owner' = owner =>
                    \A k \in creds \ creds' :
                      /\ secret.key # k
                      /\ \E j \in Ids : /\ j > k /\ mintedAt[j] # None
                                        /\ now >= mintedAt[j] + Grace
  <1>1. CInv /\ [Next]_vars => A
    <2> SUFFICES ASSUME CInv, [Next]_vars, ~IsToken, owner' = owner, NEW k \in creds \ creds'
                 PROVE  /\ secret.key # k
                        /\ \E j \in Ids : /\ j > k /\ mintedAt[j] # None
                                          /\ now >= mintedAt[j] + Grace
      OBVIOUS
    <2>1. pc = "key" /\ k = obj.status.prev /\ k # 0 /\ obj.status.revokeAt # None /\ now >= obj.status.revokeAt
      BY LossStep DEF GraceOver
    <2>2. NotStored(obj.status) /\ OlderThanSuccessor(obj.status)
      BY <2>1 DEF CInv, RotationOK
    <2>3. PICK j \in Ids : j > k /\ mintedAt[j] # None /\ obj.status.revokeAt >= mintedAt[j] + Grace
      BY <2>1, <2>2 DEF OlderThanSuccessor
    <2>4. now \in Nat /\ mintedAt[j] \in Nat /\ obj.status.revokeAt \in Nat /\ Grace \in Nat
      BY <2>1, <2>3, CredentialsAssumption DEF CInv, TypeOK, Resource, Status, Times
    <2>5. now >= mintedAt[j] + Grace
      BY <2>1, <2>3, <2>4
    <2> QED
      BY <2>1, <2>2, <2>3, <2>5 DEF NotStored
  <1>2. CInv /\ [Next]_vars => [A]_vars
    BY <1>1
  <1> HIDE DEF A
  <1>3. Spec => [][A]_vars
    BY <1>2, Inductive, PTL DEF Spec
  <1> QED
    BY <1>3 DEF GraceKept, A

\* A resource that the operator lets go has left no credential that its latest status
\* records and no user, unless the reconcile that lets it go was told that deleting
\* them failed and goes on.
THEOREM LetGoRevoked == Spec => RecordedIsRevoked
  <1> DEFINE A == cr'.gone /\ ~cr.gone /\ pc = "release" =>
                    IF IsToken THEN cr.status.id \notin creds
                    ELSE cr.status.owner = 0 \/ cr.status.owner # owner
  <1>1. CInv /\ [Next]_vars => A
    <2> SUFFICES ASSUME CInv, [Next]_vars, cr'.gone, ~cr.gone, pc = "release"
                 PROVE  IF IsToken THEN cr.status.id \notin creds
                        ELSE cr.status.owner = 0 \/ cr.status.owner # owner
      OBVIOUS
    <2>1. cr.deleting
      BY DEF CInv, CopiesOK
    <2>2. RemoveFinalizer /\ UpdateAccepted
      <3>1. cr.gone = FALSE /\ cr \in Resource
        BY DEF CInv, TypeOK, Resource
      <3>2. CASE RemoveFinalizer
        BY <3>1, <3>2 DEF RemoveFinalizer, NoWrite
      <3>3. CASE OwnerMissing \/ FailGrantTarget \/ TargetUnready \/ CallRefused \/ Record \/ Begin \/ EnsureFinalizer
                  \/ EnsureMachineUser \/ DropGrant \/ SyncGrant \/ FinishKeyRevocation
                  \/ RevokeLost \/ EnsureBundle \/ Mint \/ StoreKey \/ Cleanup \/ CleanupFails
        BY <3>3 DEF OwnerMissing, FailGrantTarget, TargetUnready, CallRefused, Record, Begin, EnsureFinalizer, Reads,
           EnsureMachineUser, DropGrant, SyncGrant, FinishKeyRevocation, RevokeLost, EnsureBundle, Mint, StoreKey,
           Cleanup, CleanupFails, AddsGrant, Starved
      <3>4. CASE Fault \/ Observe \/ ObserveSecret \/ Tick \/ UNCHANGED vars
        BY <3>1, <3>4 DEF Fault, Observe, ObserveSecret, Tick, NoWrite, kubernetes, vars
      <3>5. CASE Delete \/ LoseSecret \/ LoseOwner \/ NewOwner \/ ScopeChanges
        BY <2>1, <3>1, <3>5 DEF Delete, LoseSecret, LoseOwner, NewOwner, ScopeChanges, kubernetes
      <3>6. CASE \E s \in Specs : ChangeSpec(s)
        BY <2>1, <3>6 DEF ChangeSpec
      <3> QED
        BY <3>2, <3>3, <3>4, <3>5, <3>6 DEF Next, Step
    <2>3. obj = cr
      BY <2>2 DEF UpdateAccepted, CInv, CopiesOK
    <2> QED
      BY <2>3 DEF CInv, ReleaseOK
  <1>2. CInv /\ [Next]_vars => [A]_vars
    BY <1>1
  <1> HIDE DEF A
  <1>3. Spec => [][A]_vars
    BY <1>2, Inductive, PTL DEF Spec
  <1> QED
    BY <1>3 DEF RecordedIsRevoked, A
===============================================================================
