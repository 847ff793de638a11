------------------------------ MODULE Credentials ------------------------------
(***************************************************************************)
(* Resources that hand out a credential: a MachineUser, which creates its  *)
(* user, grants it roles on a project and rotates its key, and the         *)
(* PersonalAccessToken and ApplicationKey of a user or application that    *)
(* they refer to. The credential goes to a Secret, its id to status.       *)
(*                                                                         *)
(* Gates, scope and organization have been dealt with, as TenantGate and   *)
(* TenantLifecycle have it. The operator runs one reconcile of the resource*)
(* at a time; RequeueAfter starts the next at any moment. It reads the     *)
(* resource and the Secret from two informer caches that lag behind the    *)
(* API server, each by its own.                                            *)
(***************************************************************************)
EXTENDS Naturals, FiniteSets

CONSTANTS
  Kinds,        \* the kinds that the resource may be of
  Projects,
  Specs,        \* what users may ask of a MachineUser
  None,
  RotateAfter, Grace,   \* spec.key of a MachineUser that rotates
  MaxTime,      \* bound: of the clock
  MaxId,        \* bound: owners, credentials and grants that Zitadel can draw
  MaxMishaps    \* bound: what users change, calls that fail, and crashes

\* rotates: spec.key.rotateAfter is set. roles: none, or granted on the project
\* of the resource's scope, or on a project that the spec names.
Spec0(rotates, roles) == [rotates |-> rotates, roles |-> roles]
SpecType == [rotates: BOOLEAN, roles: {"none", "scope"} \cup Projects]

ASSUME CredentialsAssumption ==
  /\ Kinds \subseteq {"MachineUser", "PersonalAccessToken", "ApplicationKey"}
  /\ Specs \subseteq SpecType /\ Specs # {}
  /\ Projects \cap {"none", "scope", None} = {}
  /\ None \notin Nat
  /\ RotateAfter \in Nat /\ Grace \in Nat
  /\ MaxTime \in Nat /\ MaxId \in Nat \ {0} /\ MaxMishaps \in Nat

Ids   == 1..MaxId
Times == 0..(MaxTime + Grace)

\* userId; keyId or tokenId; keyCreatedAt; previousKeyId and
\* previousKeyRevokeAt; projectId and grantId; ready. 0 is no id.
Status == [owner: 0..MaxId, id: 0..MaxId, since: Times \cup {None},
           prev: 0..MaxId, revokeAt: Times \cup {None},
           project: Projects \cup {None}, grant: 0..MaxId, ready: BOOLEAN]
NoStatus == [owner |-> 0, id |-> 0, since |-> None, prev |-> 0, revokeAt |-> None,
             project |-> None, grant |-> 0, ready |-> FALSE]
Resource == [spec: Specs, deleting: BOOLEAN, finalizer: BOOLEAN, gone: BOOLEAN,
             status: Status]
\* The credential and, in a MachineUser's bundle, the project.
SecretType == [exists: BOOLEAN, key: 0..MaxId, project: Projects \cup {None}]
NoSecret == [exists |-> FALSE, key |-> 0, project |-> None]

VARIABLES
  kind,
  \* the world around it
  refers,       \* the user or application that a token's reference leads to, 0 if none
  scopeProject, \* the project of the scope, None for an organization's
  now,
  \* Kubernetes
  cr, secret,
  \* Zitadel
  owner,        \* the user or application that exists, 0 if none does
  creds,        \* its valid credentials
  grants,       \* project -> its grant, 0 if none
  next,         \* the next id Zitadel draws
  \* the operator's caches, and whether each has the latest version
  cache, uptodate, secretCache, secretUptodate,
  \* the reconcile: its copies, and whether they are the latest versions
  pc, obj, fresh, sobj, sfresh,
  was,          \* prevStatus
  found,        \* the owner it works on
  \* history
  mintedAt,     \* credential -> when it was minted
  edits, faults

world      == <<refers, scopeProject>>
kubernetes == <<cr, secret>>
zitadel    == <<owner, creds, grants, next>>
crCache    == <<cache, uptodate>>
sCache     == <<secretCache, secretUptodate>>
reconcile  == <<pc, obj, fresh, sobj, sfresh, was, found>>
limits     == <<edits, faults>>
vars == <<kind, world, now, kubernetes, zitadel, crCache, sCache, reconcile, mintedAt, limits>>

Created(spec) == [spec |-> spec, deleting |-> FALSE, finalizer |-> FALSE, gone |-> FALSE,
                  status |-> NoStatus]
NoCopy == [Created(CHOOSE s \in Specs : TRUE) EXCEPT !.gone = TRUE]

IsToken == kind # "MachineUser"

\* The referenced user or application of a token exists, or nothing does yet.
Init ==
  /\ kind \in Kinds
  /\ owner \in IF IsToken THEN {0, 1} ELSE {0}
  /\ next = owner + 1 /\ refers = owner
  /\ scopeProject \in IF IsToken THEN {None} ELSE Projects \cup {None}
  /\ now = 0
  /\ \E s \in Specs : cr = Created(s) /\ (IsToken => cr.spec = NoCopy.spec)
  /\ secret = NoSecret
  /\ creds = {} /\ grants = [p \in Projects |-> 0]
  /\ cache = NoCopy /\ uptodate = FALSE
  /\ secretCache = NoSecret /\ secretUptodate = TRUE
  /\ pc = "idle" /\ obj = NoCopy /\ fresh = FALSE /\ sobj = NoSecret /\ sfresh = FALSE
  /\ was = NoStatus /\ found = 0
  /\ mintedAt = [i \in Ids |-> None]
  /\ edits = 0 /\ faults = 0

-----------------------------------------------------------------------------
(* The API server.                                                         *)

Store(new) == cr' = new /\ uptodate' = (uptodate /\ new = cr)
NoWrite    == UNCHANGED <<cr, uptodate>>

\* Mutant: the resource is patched, whatever its resourceVersion.
PatchAccepted == ~cr.gone

\* client.Update of the resource is refused unless the copy is the latest version.
UpdateAccepted == fresh /\ ~cr.gone
Collected(r)   == [r EXCEPT !.gone = r.deleting /\ ~r.finalizer]

\* applyStatus: the copy's status, whatever its resourceVersion, replaces the
\* one there is.
ApplyStatus(copy) == Store(IF cr.gone THEN cr ELSE [cr EXCEPT !.status = copy.status])

WriteSecret(new) == secret' = new /\ secretUptodate' = (secretUptodate /\ new = secret)
NoSecretWrite    == UNCHANGED <<secret, secretUptodate>>

\* Mutant: the Secret is patched, whatever its resourceVersion.
SecretUnguarded == secret.exists \/ ~sobj.exists

\* Create is refused if the Secret exists, Update if the copy is not the latest.
SecretAccepted == IF sobj.exists THEN sfresh /\ secret.exists ELSE ~secret.exists

-----------------------------------------------------------------------------
(* A reconcile.                                                            *)

Continue(step, copy) == pc' = step /\ obj' = copy

Return ==
  /\ pc' = "idle" /\ obj' = NoCopy /\ fresh' = FALSE
  /\ sobj' = NoSecret /\ sfresh' = FALSE /\ was' = NoStatus /\ found' = 0

Reads == pc = "idle" /\ ~cache.gone

\* resolveUserId, resolveAppId: nothing is done without an owner, not even to a
\* resource that is being deleted. waitForRef writes the copy's status.
OwnerMissing ==
  /\ Reads /\ IsToken /\ refers = 0
  /\ ApplyStatus(cache) \/ NoWrite
  /\ Return
  /\ UNCHANGED <<kind, world, now, secret, cache, sCache, zitadel, mintedAt, limits>>

Begin ==
  /\ Reads /\ (IsToken => refers # 0)
  /\ Continue(IF cache.deleting THEN "cleanup" ELSE "finalizer", cache)
  /\ fresh' = uptodate
  /\ found' = IF IsToken THEN refers ELSE 0
  /\ UNCHANGED <<kind, world, now, kubernetes, crCache, sCache, zitadel, sobj, sfresh, was,
                 mintedAt, limits>>

EnsureFinalizer ==
  LET marked == [obj EXCEPT !.finalizer = TRUE]
      step   == IF IsToken THEN "key" ELSE "user"
  IN  /\ pc = "finalizer"
      /\ \/ obj.finalizer /\ NoWrite /\ Continue(step, obj)
            /\ UNCHANGED <<fresh, sobj, sfresh, was, found>>
         \/ /\ ~obj.finalizer /\ UpdateAccepted
            /\ Store(marked) /\ Continue(step, marked) /\ fresh' = TRUE
            /\ UNCHANGED <<sobj, sfresh, was, found>>
         \/ ~obj.finalizer /\ ~UpdateAccepted /\ NoWrite /\ Return
      /\ UNCHANGED <<kind, world, now, secret, cache, sCache, zitadel, mintedAt, limits>>

\* Zitadel draws an id.
Draw(i) == i = next /\ next <= MaxId /\ next' = next + 1

\* ensureMachineUser: the recorded user or one of its name, which is the same
\* as there is one at most; or a new one.
EnsureMachineUser ==
  /\ pc = "user"
  /\ \/ owner # 0 /\ found' = owner /\ UNCHANGED <<owner, next>>
     \/ owner = 0 /\ \E i \in Ids : Draw(i) /\ owner' = i /\ found' = i
  /\ Continue("grant", obj) /\ was' = obj.status
  /\ UNCHANGED <<kind, world, now, kubernetes, crCache, sCache, creds, grants, fresh, sobj,
                 sfresh, mintedAt, limits>>

\* Mutant: the recorded project comes before the scope's.
RecordedTarget ==
  CASE obj.spec.roles \in Projects -> obj.spec.roles
    [] obj.spec.roles = "scope" /\ obj.status.project # None -> obj.status.project
    [] obj.spec.roles = "scope" /\ obj.status.project = None -> scopeProject
    [] OTHER -> None

\* resolveGrantTarget: the project named, the scope's, or the recorded one.
Target ==
  CASE obj.spec.roles \in Projects -> obj.spec.roles
    [] obj.spec.roles = "scope" /\ scopeProject # None -> scopeProject
    [] obj.spec.roles = "scope" /\ scopeProject = None -> obj.status.project
    [] OTHER -> None

\* The recorded grant is on a project where the roles are no longer wanted.
Misplaced == obj.status.grant # 0 /\ obj.status.project # Target
             /\ (obj.spec.roles = "none" \/ Target # None)

NoGrantWanted == obj.spec.roles = "none" /\ ~Misplaced

\* ensureRoleGrant, its two calls of RemoveUserGrant.
DropGrant ==
  /\ pc = "grant" /\ Misplaced
  /\ grants' = [p \in Projects |-> IF grants[p] = obj.status.grant THEN 0 ELSE grants[p]]
  /\ obj' = [obj EXCEPT !.status.grant = 0,
                        !.status.project = IF obj.spec.roles = "none" THEN None ELSE @]
  /\ UNCHANGED <<kind, world, now, kubernetes, crCache, sCache, owner, creds, next, pc, fresh,
                 sobj, sfresh, was, found, mintedAt, limits>>

\* failGrantTarget: there is no project to grant on.
FailGrantTarget ==
  /\ pc = "grant" /\ ~NoGrantWanted /\ Target = None /\ ~Misplaced
  /\ ApplyStatus([obj EXCEPT !.status.ready = FALSE])
  /\ Return
  /\ UNCHANGED <<kind, world, now, secret, cache, sCache, zitadel, mintedAt, limits>>

\* The project that the spec names is not ready or not there, or the spec is invalid.
TargetUnready ==
  /\ pc = "grant" /\ obj.spec.roles \in Projects /\ edits + faults < MaxMishaps
  /\ ApplyStatus([obj EXCEPT !.status.ready = FALSE])
  /\ Return /\ faults' = faults + 1
  /\ UNCHANGED <<kind, world, now, secret, cache, sCache, zitadel, mintedAt, edits>>

\* syncGrant: the user's grant on the project is found, or added.
SyncGrant ==
  /\ pc = "grant" /\ ~Misplaced
  /\ \/ NoGrantWanted /\ Continue("key", obj) /\ UNCHANGED <<grants, next>>
     \/ \E i \in Ids :
          /\ Target # None
          /\ \/ grants[Target] = i /\ UNCHANGED <<grants, next>>
             \/ /\ grants[Target] = 0 /\ owner = found
                /\ Draw(i) /\ grants' = [grants EXCEPT ![Target] = i]
          /\ Continue("key", [obj EXCEPT !.status.project = Target, !.status.grant = i])
  /\ UNCHANGED <<kind, world, now, kubernetes, crCache, sCache, owner, creds, fresh, sobj,
                 sfresh, was, found, mintedAt, limits>>

\* Mutant: the grace is not waited for.
GraceIgnored(s) == s.prev # 0 /\ s.revokeAt # None

GraceOver(s) == s.prev # 0 /\ s.revokeAt # None /\ now >= s.revokeAt

\* Mutant: a revocation that fails is taken for done.
FinishWithoutRevoking ==
  LET over == GraceOver(obj.status)
  IN  /\ pc = "key" /\ ~IsToken
      /\ creds' \in IF over THEN {creds, creds \ {obj.status.prev}} ELSE {creds}
      /\ Continue("mint", IF over THEN [obj EXCEPT !.status.prev = 0, !.status.revokeAt = None]
                          ELSE obj)
      /\ sobj' = secretCache /\ sfresh' = secretUptodate
      /\ UNCHANGED <<kind, world, now, kubernetes, crCache, sCache, owner, grants, next, fresh,
                     was, found, mintedAt, limits>>

\* ensureKey of a MachineUser reads the Secret and lets finishPendingKeyRevocation
\* revoke the key that was rotated out.
FinishKeyRevocation ==
  LET over == GraceOver(obj.status)
  IN  /\ pc = "key" /\ ~IsToken
      /\ creds' = IF over THEN creds \ {obj.status.prev} ELSE creds
      /\ Continue("mint", IF over THEN [obj EXCEPT !.status.prev = 0, !.status.revokeAt = None]
                          ELSE obj)
      /\ sobj' = secretCache /\ sfresh' = secretUptodate
      /\ UNCHANGED <<kind, world, now, kubernetes, crCache, sCache, owner, grants, next, fresh,
                     was, found, mintedAt, limits>>

\* ensureToken, and ensureKey of an ApplicationKey: a credential that is recorded
\* and in the Secret stays; one that is recorded only is revoked first.
RevokeLost ==
  LET stored == secretCache.key # 0 /\ obj.status.id # 0
  IN  /\ pc = "key" /\ IsToken
      /\ creds' = IF stored THEN creds ELSE creds \ {obj.status.id}
      /\ Continue(IF stored THEN "record" ELSE "mint", obj)
      /\ sobj' = secretCache /\ sfresh' = secretUptodate /\ was' = obj.status
      /\ UNCHANGED <<kind, world, now, kubernetes, crCache, sCache, owner, grants, next, fresh,
                     found, mintedAt, limits>>

\* keyRotationDue.
RotationDue ==
  /\ sobj.key # 0 /\ obj.spec.rotates /\ obj.status.prev = 0
  /\ IF obj.status.since = None THEN TRUE ELSE now - obj.status.since >= RotateAfter

\* Mutant: a credential that is recorded is not minted again.
WantedOnce == obj.status.id = 0 \/ RotationDue

Wanted == IsToken \/ sobj.key = 0 \/ RotationDue

\* What setBundleData puts beside the credential.
Bundled(copy) ==
  [copy EXCEPT !.project = IF obj.status.project # None THEN obj.status.project ELSE @]

\* ensureBundle: the Secret is written only where the bundle differs.
EnsureBundle ==
  /\ pc = "mint" /\ ~Wanted
  /\ \/ /\ Bundled(sobj) = sobj \/ SecretAccepted
        /\ IF Bundled(sobj) = sobj THEN NoSecretWrite ELSE WriteSecret(Bundled(sobj))
        /\ Continue("record", obj) /\ UNCHANGED <<fresh, sobj, sfresh, was, found>>
     \/ Bundled(sobj) # sobj /\ ~SecretAccepted /\ NoSecretWrite /\ Return
  /\ UNCHANGED <<kind, world, now, cr, crCache, secretCache, zitadel, mintedAt, limits>>

\* Mutant: the grace is added twice.
RecordedGraceTwice(i) ==
  IF ~IsToken /\ RotationDue
  THEN [obj.status EXCEPT !.id = i, !.since = now,
                          !.prev = obj.status.id, !.revokeAt = now + Grace + Grace]
  ELSE [obj.status EXCEPT !.id = i, !.since = IF IsToken THEN @ ELSE now]

\* recordKeyRotation, and the new credential; in the copy only.
Recorded(i) ==
  IF IsToken THEN [obj.status EXCEPT !.id = i]
  ELSE IF RotationDue
  THEN [obj.status EXCEPT !.id = i, !.since = now,
                          !.prev = obj.status.id, !.revokeAt = now + Grace]
  ELSE [obj.status EXCEPT !.id = i, !.since = now]

\* AddMachineKey, AddPersonalAccessToken, AddAppKey.
Mint ==
  /\ pc = "mint" /\ Wanted /\ owner = found
  /\ \E i \in Ids :
       /\ Draw(i)
       /\ creds' = creds \cup {i}
       /\ mintedAt' = [mintedAt EXCEPT ![i] = now]
       /\ Continue("store", [obj EXCEPT !.status = Recorded(i)])
  /\ UNCHANGED <<kind, world, now, kubernetes, crCache, sCache, owner, grants, fresh, sobj,
                 sfresh, was, found, limits>>

\* An error ends the reconcile. Only the tokens' kinds write their status then,
\* the new id included.
Fail == IF IsToken THEN ApplyStatus(obj) \/ NoWrite ELSE NoWrite

AddsGrant ==
  /\ pc = "grant" /\ ~NoGrantWanted /\ ~Misplaced
  /\ Target # None /\ grants[Target] = 0

\* The call that adds needs an id, and finds none in the bound.
Starved ==
  /\ next > MaxId
  /\ AddsGrant \/ (pc = "mint" /\ Wanted) \/ (pc = "user" /\ owner = 0)

\* There is no such owner any more.
CallRefused ==
  /\ Starved \/ (owner # found /\ (AddsGrant \/ (pc = "mint" /\ Wanted)))
  /\ Fail /\ Return
  /\ UNCHANGED <<kind, world, now, secret, cache, sCache, zitadel, mintedAt, limits>>

\* writeKeyBundleSecret, and the end of ensureToken.
StoreKey ==
  LET new == Bundled([sobj EXCEPT !.exists = TRUE, !.key = obj.status.id])
  IN  /\ pc = "store"
      /\ \/ /\ SecretAccepted /\ WriteSecret(new)
            /\ NoWrite /\ Continue("record", obj) /\ UNCHANGED <<fresh, sobj, sfresh, was, found>>
         \/ ~SecretAccepted /\ NoSecretWrite /\ Fail /\ Return
      /\ UNCHANGED <<kind, world, now, cache, secretCache, zitadel, mintedAt, limits>>

\* machineUserStatusChanged and its like leave the times out.
Changed(s) == \/ s.owner # was.owner \/ s.id # was.id \/ s.prev # was.prev
              \/ s.project # was.project \/ s.grant # was.grant

\* markReady.
Record ==
  LET recorded == [obj.status EXCEPT !.owner = found]
  IN  /\ pc = "record"
      /\ IF obj.status.ready /\ ~Changed(recorded) THEN NoWrite
         ELSE ApplyStatus([obj EXCEPT !.status = [recorded EXCEPT !.ready = TRUE]])
      /\ Return
      /\ UNCHANGED <<kind, world, now, secret, cache, sCache, zitadel, mintedAt, limits>>

\* The user goes with all it has; of a token's owner, only the recorded credential.
Cleanup ==
  LET removes == ~IsToken /\ obj.status.owner = owner
  IN  /\ pc = "cleanup"
      /\ owner' = IF removes THEN 0 ELSE owner
      /\ creds' = IF removes THEN {} ELSE IF IsToken THEN creds \ {obj.status.id} ELSE creds
      /\ grants' = IF removes THEN [p \in Projects |-> 0] ELSE grants
      /\ Continue("release", obj)
      /\ UNCHANGED <<kind, world, now, kubernetes, crCache, sCache, next, fresh, sobj, sfresh,
                     was, found, mintedAt, limits>>

\* handleDeletion goes on after a failed cleanup ("abandon": what is left stays in
\* Zitadel), handleDeletionStrict, which ApplicationKey uses, does not. (There is no cleanup without a Delete, which
\* is why the bound counts them apart.)
CleanupFails ==
  /\ pc = "cleanup" /\ faults < MaxMishaps
  /\ IF kind = "ApplicationKey" THEN Return
     ELSE Continue("abandon", obj) /\ UNCHANGED <<fresh, sobj, sfresh, was, found>>
  /\ faults' = faults + 1
  /\ UNCHANGED <<kind, world, now, kubernetes, crCache, sCache, zitadel, mintedAt, edits>>

RemoveFinalizer ==
  /\ pc \in {"release", "abandon"}
  /\ IF UpdateAccepted THEN Store(Collected([obj EXCEPT !.finalizer = FALSE])) ELSE NoWrite
  /\ Return
  /\ UNCHANGED <<kind, world, now, secret, cache, sCache, zitadel, mintedAt, limits>>

\* A call fails or the process dies.
Fault ==
  /\ pc # "idle" /\ edits + faults < MaxMishaps
  /\ IF pc \in {"key", "mint", "store"} THEN Fail ELSE NoWrite
  /\ Return
  /\ faults' = faults + 1
  /\ UNCHANGED <<kind, world, now, secret, cache, sCache, zitadel, mintedAt, edits>>

-----------------------------------------------------------------------------
(* The informers, the clock and the users. A reconcile reads the Secret    *)
(* once, and the clock when it has read it; only the user changes what it  *)
(* would read there. What arrives before that, in the reconcile, might as  *)
(* well have arrived before its start.                                     *)

Observe ==
  /\ ~uptodate
  /\ cache' = cr /\ uptodate' = TRUE
  /\ UNCHANGED <<kind, world, now, kubernetes, sCache, zitadel, reconcile, mintedAt, limits>>

ObserveSecret ==
  /\ ~secretUptodate /\ pc = "idle"
  /\ secretCache' = secret /\ secretUptodate' = TRUE
  /\ UNCHANGED <<kind, world, now, kubernetes, crCache, zitadel, reconcile, mintedAt, limits>>

\* The time matters to a key that rotates.
Tick ==
  /\ ~IsToken /\ cr.spec.rotates /\ pc = "idle" /\ now < MaxTime /\ now' = now + 1
  /\ UNCHANGED <<kind, world, kubernetes, crCache, sCache, zitadel, reconcile, mintedAt, limits>>

Edit == edits + faults < MaxMishaps /\ edits' = edits + 1 /\ UNCHANGED <<kind, now, mintedAt, faults>>

Write(new) ==
  /\ ~cr.gone
  /\ cr' = new /\ uptodate' = FALSE /\ fresh' = FALSE
  /\ UNCHANGED <<world, secret, cache, sCache, zitadel, pc, obj, sobj, sfresh, was, found>>

ChangeSpec(s) ==
  /\ Edit /\ ~IsToken /\ ~cr.deleting /\ s # cr.spec
  /\ Write([cr EXCEPT !.spec = s])

Delete ==
  /\ Edit /\ ~cr.deleting
  /\ Write(Collected([cr EXCEPT !.deleting = TRUE]))

LoseSecret ==
  /\ Edit /\ secret.exists
  /\ secret' = NoSecret /\ secretUptodate' = FALSE /\ sfresh' = FALSE
  /\ UNCHANGED <<world, cr, crCache, secretCache, zitadel, pc, obj, fresh, sobj, was, found>>

\* Someone deletes the user or the application. A token's reference may lead to
\* nothing then, or still to the id that was recorded.
LoseOwner ==
  /\ Edit /\ owner # 0
  /\ owner' = 0 /\ creds' = {} /\ grants' = [p \in Projects |-> 0]
  /\ refers' \in IF IsToken THEN {refers, 0} ELSE {refers}
  /\ UNCHANGED <<scopeProject, kubernetes, crCache, sCache, next, reconcile>>

NewOwner ==
  /\ Edit /\ IsToken /\ owner = 0
  /\ \E i \in Ids : Draw(i) /\ owner' = i /\ refers' = i
  /\ UNCHANGED <<scopeProject, kubernetes, crCache, sCache, creds, grants, reconcile>>

ScopeChanges ==
  /\ Edit /\ ~IsToken
  /\ scopeProject' \in (Projects \cup {None}) \ {scopeProject}
  /\ UNCHANGED <<refers, kubernetes, crCache, sCache, zitadel, reconcile>>

Step ==
  \/ OwnerMissing \/ Begin \/ EnsureFinalizer \/ EnsureMachineUser
  \/ DropGrant \/ FailGrantTarget \/ SyncGrant
  \/ FinishKeyRevocation \/ RevokeLost \/ EnsureBundle \/ Mint \/ CallRefused
  \/ StoreKey \/ Record \/ Cleanup \/ RemoveFinalizer

Next ==
  \/ Step \/ Fault \/ TargetUnready \/ CleanupFails \/ Observe \/ ObserveSecret \/ Tick
  \/ (\E s \in Specs : ChangeSpec(s)) \/ Delete
  \/ LoseSecret \/ LoseOwner \/ NewOwner \/ ScopeChanges

\* The work queue runs the reconcile, the informers catch up, time passes. The
\* latter two do not wait for idleness: they get their turn between reconciles.
Fairness == WF_vars(Step) /\ WF_vars(Observe) /\ SF_vars(ObserveSecret) /\ SF_vars(Tick)

Spec == Init /\ [][Next]_vars /\ Fairness

-----------------------------------------------------------------------------
(* Properties.                                                             *)

TypeOK ==
  /\ kind \in Kinds /\ refers \in 0..MaxId /\ scopeProject \in Projects \cup {None}
  /\ now \in 0..MaxTime
  /\ cr \in Resource /\ cache \in Resource /\ obj \in Resource
  /\ secret \in SecretType /\ secretCache \in SecretType /\ sobj \in SecretType
  /\ owner \in 0..MaxId /\ creds \subseteq Ids /\ grants \in [Projects -> 0..MaxId]
  /\ next \in 1..(MaxId + 1)
  /\ uptodate \in BOOLEAN /\ secretUptodate \in BOOLEAN /\ fresh \in BOOLEAN /\ sfresh \in BOOLEAN
  /\ pc \in {"idle", "finalizer", "user", "grant", "key", "mint", "store", "record",
             "cleanup", "release", "abandon"}
  /\ was \in Status /\ found \in 0..MaxId
  /\ mintedAt \in [Ids -> Times \cup {None}]
  /\ edits \in 0..MaxMishaps /\ faults \in 0..MaxMishaps

\* The operator never takes the key that consumers read away from them: while the
\* user exists whose key is in the Secret, that key is valid. (Rotation on stale
\* copies of the status and of the Secret, and with failures between its calls.)
StoredKeyLive ==
  ~IsToken /\ owner # 0 /\ secret.key > owner => secret.key \in creds

\* So the Secret of a MachineUser hands out its keys as KeyHandover has it.
Key == INSTANCE KeyHandover WITH
  Keys <- Ids, None <- 0, valid <- IF IsToken THEN {} ELSE creds,
  held <- IF IsToken THEN 0 ELSE secret.key,
  current <- ~IsToken /\ owner # 0 /\ secret.key > owner
Handover == Key!Spec

\* A MachineUser's key is revoked, other than with its user, only after Grace has
\* passed since a later key was minted, and when it is not the one in the Secret.
GraceKept ==
  [][~IsToken /\ owner' = owner =>
       \A k \in creds \ creds' :
         /\ secret.key # k
         /\ \E j \in Ids : /\ j > k /\ mintedAt[j] # None
                           /\ now >= mintedAt[j] + Grace]_vars

\* An operator lets a resource go only if the credential in the latest status, and
\* of a MachineUser the user, is gone; or if in this very reconcile the deletion
\* failed and the kind's handler goes on after that. Faults before it, and a crash
\* and a retry between the deletion and the finalizer, excuse nothing.
RecordedIsRevoked ==
  [][cr'.gone /\ ~cr.gone /\ pc = "release" =>
       IF IsToken THEN cr.status.id \notin creds
       ELSE cr.status.owner = 0 \/ cr.status.owner # owner]_vars

\* The old key is revoked once the rotation is in the status, if users leave the
\* Secret alone and the clock's bound lets the grace pass: a stale copy may rotate
\* once more, but not make the operator forget.
RotatedOutRevoked ==
  \A k \in 2..(MaxId - 1) :   \* an older id is a user's, a later one has no successor
    (cr.status.prev = k /\ edits = 0)
      ~> \/ k \notin creds \/ edits > 0 \/ cr.deleting
         \/ cr.status.prev # 0 /\ cr.status.revokeAt > MaxTime

\* As long as there is an owner, the resource gets ready, and its Secret has a
\* credential; a token's status has the id of one, for the deletion to revoke.
CanBeServed ==
  /\ ~cr.deleting
  /\ IF IsToken THEN refers # 0 /\ refers = owner
     ELSE cr.spec.roles # "scope" \/ scopeProject # None
HandedOut == cr.status.ready /\ secret.key # 0 /\ (IsToken => cr.status.id # 0)
Delivered == <>[]CanBeServed => <>[]HandedOut \/ []<>Starved

\* So does a MachineUser its grant on the project its roles are for.
GrantedOn(p) == cr.spec.roles = p \/ (cr.spec.roles = "scope" /\ scopeProject = p)
RolesGranted ==
  \A p \in Projects :
    <>[](~IsToken /\ CanBeServed /\ GrantedOn(p))
      => <>[](grants[p] # 0 /\ cr.status.project = p) \/ []<>Starved

-----------------------------------------------------------------------------
(* The inductive invariant behind the safety properties.                   *)

\* Every id was drawn, and every credential minted, before.
IdsDrawn ==
  /\ owner < next /\ secret.key < next /\ \A k \in creds : k < next
  /\ \A i \in Ids : i >= next => mintedAt[i] = None

\* What a copy that counts as the latest version shares with the original.
CopiesOK ==
  /\ uptodate => cache = cr
  /\ secretUptodate => secretCache = secret
  /\ fresh /\ pc \in {"finalizer", "cleanup", "release", "abandon"} => obj = cr
  /\ sfresh /\ pc \in {"mint", "store"} => sobj = secret
  /\ cache.deleting \/ pc \in {"cleanup", "release", "abandon"} => cr.deleting
  /\ \A x \in {secret, secretCache, sobj} : ~x.exists => x.key = 0

\* No status, however old, has the key of the Secret as the one that was rotated
\* out, and none lets the grace of its own end too early.
OlderThanSuccessor(s) ==
  /\ s.id < next /\ s.prev < next
  /\ s.prev # 0 /\ s.revokeAt # None =>
       \E j \in Ids : j > s.prev /\ mintedAt[j] # None /\ s.revokeAt >= mintedAt[j] + Grace
NotStored(s) == s.prev # 0 => s.prev # secret.key
RotationOK ==
  /\ \A s \in {cr.status, cache.status, obj.status} :
       /\ OlderThanSuccessor(s)
       /\ pc = "store" => s.prev < obj.status.id
  /\ NotStored(cr.status) /\ NotStored(cache.status)
  /\ pc # "store" \/ IsToken => NotStored(obj.status)

\* An owner has its credentials for itself; a key to be stored is its own.
OwnerOK ==
  /\ owner = 0 => creds = {}
  /\ pc \in {"grant", "key", "mint", "store"} \/ (IsToken /\ pc = "finalizer") => found # 0
  /\ pc = "store" /\ ~IsToken /\ owner # 0 => obj.status.id \in creds /\ obj.status.id > owner

\* A finalizer is about to be removed only when what the copy records is revoked.
ReleaseOK ==
  pc = "release" =>
    IF IsToken THEN obj.status.id \notin creds
    ELSE obj.status.owner = 0 \/ obj.status.owner # owner

CInv == /\ TypeOK /\ IdsDrawn /\ CopiesOK /\ RotationOK /\ OwnerOK /\ ReleaseOK /\ StoredKeyLive
=============================================================================
