----------------------------- MODULE Delegation -----------------------------
(***************************************************************************)
(* The delegation Manager (internal/delegation/manager.go) and its GC      *)
(* (gc.go): per resolved scope it mints a Zitadel machine user with a      *)
(* membership and a key, persists the key in a Secret, serves it from an   *)
(* in-memory cache, rotates it, and revokes it once the scope resolves in  *)
(* no namespace.                                                           *)
(*                                                                         *)
(* Everything from Ensure's Lock() to its Unlock() runs under Manager.mu,  *)
(* but it is a chain of calls to two servers: each call is a step, so that *)
(* time, out-of-band deletions, the informer cache, the part of a sweep    *)
(* that runs before Lock() and a process crash interleave with it.         *)
(*                                                                         *)
(* A scope stands for its hash, hence for its username and Secret name.    *)
(* User and key ids are fresh naturals; 0 is "no user" / "no key".         *)
(***************************************************************************)
EXTENDS Naturals, FiniteSets

CONSTANTS
  Namespaces,     \* namespaces that may hold tenant CRs
  Scopes,         \* scopes the ScopeMaps can resolve to
  ProjectScopes,  \* scopes that name a project to be found or created
  HomeScopes,     \* scopes in the binding credential's own organization
  Workers,        \* reconciler goroutines that call Ensure
  Sweepers,       \* callers of GC.SweepOnce: the GC loop and the map controller
  GCLoop,         \* the sweeper that first runs WarmFromSecrets
  RotateAfter,    \* key age that makes a rotation due
  Grace,          \* overlap during which a replaced key stays valid
  MaxTime, MaxUser, MaxKey,   \* bounds on the clock and on fresh ids
  Budget,         \* how often each adverse event may happen, by kind
  None

Adversities == {"fault", "crash", "edit", "user", "secret"}

Procs  == Workers \cup Sweepers

\* The delegation Secret: user_id, key_id (and key.json), key_created, old_key_id,
\* old_key_revoke_after; org_id is always the scope's.
Secret == [user : Nat, key : Nat, created : Nat, old : Nat, revokeAt : Nat]
\* The cached Delegate: UserID, KeyID, KeyCreated, whether OrgID is set, validated.
Delegate == [user : Nat, key : Nat, created : Nat, hasOrg : BOOLEAN, validated : BOOLEAN]
\* What a caller of Ensure holds, and since when.
Lease == [user : Nat, key : Nat, at : Nat]
\* Locals of a critical section. uid, kid: ids the calls so far returned; hasOrg: the
\* org header is known; warmed: the entry came from warmLocked; found: revoke saw a Secret.
Locals == [uid : Nat, kid : Nat, hasOrg : BOOLEAN, warmed : BOOLEAN, found : BOOLEAN]

ASSUME ConstantsAssumption ==
  /\ ProjectScopes \subseteq Scopes /\ HomeScopes \subseteq Scopes
  /\ None \notin Scopes \cup Procs
  /\ None \notin Secret /\ None \notin Delegate /\ None \notin Lease
  /\ GCLoop \in Sweepers /\ Workers \cap Sweepers = {}
  /\ RotateAfter \in Nat /\ Grace \in Nat
  /\ MaxTime \in Nat /\ MaxUser \in Nat /\ MaxKey \in Nat
  /\ Budget \in [Adversities -> Nat]

VARIABLES
  scopeOf,    \* namespace -> the scope the maps resolve it to now, or None
  now,        \* the clock
  budget,     \* adverse events still allowed
  synced,     \* the resolver's Synced flag
  \* Zitadel
  user,       \* scope -> id of the machine user with its username, or 0
  keys,       \* scope -> ids of that user's machine keys
  granted,    \* scopes whose user holds its ORG_OWNER / PROJECT_OWNER membership
  projects,   \* project scopes whose project exists
  nextUser, nextKey,
  \* Kubernetes
  secret,     \* scope -> the delegation Secret, or None
  informer,   \* scope -> that Secret as the operator's informer cache shows it
  \* the operator process
  lock,       \* holder of Manager.mu, or None
  cache,      \* scope -> cached Delegate, or None
  pc,         \* goroutine -> where it is
  job,        \* goroutine -> the scope it works on, or None
  op,         \* the lock holder's local variables
  got,        \* worker -> the Delegate Ensure returned to it, or None
  live,       \* sweeper -> live set collected so far
  nsLeft,     \* sweeper -> namespaces it has still to resolve
  list,       \* sweeper -> the Secrets it listed
  items,      \* sweeper -> scopes of listed Secrets still to process
  \* history
  deadAtStart, \* users that no longer existed when the process started
  edited      \* sweeper -> namespaces whose scope has changed since its sweep read it

environment == <<scopeOf, now, edited>>
zitadel     == <<user, keys, granted, projects, nextUser, nextKey>>
kubernetes  == <<secret, informer>>
sweep       == <<live, nsLeft, list, items>>
vars == <<environment, budget, synced, zitadel, kubernetes, lock, cache, pc,
          job, op, got, sweep, deadAtStart>>

NoLocals == [uid |-> 0, kid |-> 0, hasOrg |-> FALSE, warmed |-> FALSE, found |-> FALSE]

NothingListed == [s \in Scopes |-> None]

WorkerRest == {"idle", "ensure", "using"}
SweeperRest == {"idle", "resolve", "sweep", "warmList", "warmItem"}
EnsurePC == {"warm", "validate", "drop", "mintUser", "mintProject", "mintGrant",
             "mintKey", "persist", "rotateKey", "rotateSwap"}
SweepPC  == {"next", "revokeRead", "revokeUser", "revokeSecret", "oldKey", "clear"}

TypeOK ==
  /\ scopeOf \in [Namespaces -> Scopes \cup {None}]
  /\ now \in Nat /\ budget \in [Adversities -> Nat] /\ synced \in BOOLEAN
  /\ user \in [Scopes -> Nat] /\ keys \in [Scopes -> SUBSET Nat]
  /\ granted \subseteq Scopes /\ projects \subseteq ProjectScopes
  /\ nextUser \in Nat \ {0} /\ nextKey \in Nat \ {0}
  /\ secret \in [Scopes -> Secret \cup {None}]
  /\ informer \in [Scopes -> Secret \cup {None}]
  /\ lock \in Procs \cup {None}
  /\ cache \in [Scopes -> Delegate \cup {None}]
  /\ pc \in [Procs -> EnsurePC \cup SweepPC \cup
               WorkerRest \cup SweeperRest]
  /\ job \in [Procs -> Scopes \cup {None}]
  /\ op \in Locals
  /\ got \in [Workers -> Lease \cup {None}]
  /\ live \in [Sweepers -> SUBSET Scopes] /\ nsLeft \in [Sweepers -> SUBSET Namespaces]
  /\ list \in [Sweepers -> [Scopes -> Secret \cup {None}]]
  /\ items \in [Sweepers -> SUBSET Scopes]
  /\ deadAtStart \subseteq Nat /\ edited \in [Sweepers -> SUBSET Namespaces]

\* The process has just started: empty cache, nothing running, unsynced maps;
\* the GC runnable begins with WarmFromSecrets.
Started(p) == IF p = GCLoop THEN "warmList" ELSE "idle"

FreshStart ==
  /\ scopeOf \in [Namespaces -> Scopes \cup {None}]
  /\ now = 0 /\ budget = Budget /\ synced = FALSE
  /\ user = [s \in Scopes |-> 0] /\ keys = [s \in Scopes |-> {}]
  /\ granted = {} /\ projects = {} /\ nextUser = 1 /\ nextKey = 1
  /\ secret = NothingListed /\ informer = NothingListed
  /\ lock = None /\ cache = NothingListed
  /\ job = [p \in Procs |-> None]
  /\ op = NoLocals /\ got = [w \in Workers |-> None]
  /\ live = [p \in Sweepers |-> {}] /\ nsLeft = [p \in Sweepers |-> {}]
  /\ list = [p \in Sweepers |-> NothingListed] /\ items = [p \in Sweepers |-> {}]
  /\ deadAtStart = {} /\ edited = [p \in Sweepers |-> {}]

Init == FreshStart /\ pc = [p \in Procs |-> Started(p)]

Spend(kind) == budget[kind] > 0 /\ budget' = [budget EXCEPT ![kind] = @ - 1]
\* A call's answer arrives, or is an error although the call took effect.
Answered == UNCHANGED budget
Failed   == Spend("fault")

Goto(p, l) == pc' = [pc EXCEPT ![p] = l]

----------------------------------------------------------------------------
(* Ensure: the caller's side of it *)

\* resolveScopeAndClient resolves the namespace and calls Ensure with the
\* scope it got; the maps may change before the mutex is taken.
EnsureCall(w, ns) ==
  /\ pc[w] = "idle" /\ synced /\ scopeOf[ns] # None
  /\ job' = [job EXCEPT ![w] = scopeOf[ns]] /\ Goto(w, "ensure")
  /\ UNCHANGED <<environment, budget, synced, zitadel, kubernetes, lock, cache,
                 op, got, sweep, deadAtStart>>

\* Ensure returns d: the mutex is released, the caller works with d's client.
HandOut(w, d) ==
  /\ got' = [got EXCEPT ![w] = [user |-> d.user, key |-> d.key, at |-> now]]
  /\ lock' = None /\ op' = NoLocals /\ Goto(w, "using") /\ UNCHANGED job

\* Ensure returns an error; the reconciler requeues.
Return(w) ==
  /\ lock' = None /\ op' = NoLocals /\ Goto(w, "idle")
  /\ job' = [job EXCEPT ![w] = None] /\ UNCHANGED got

\* Ensure goes on to its next call.
Continue(w, l, locals) ==
  Goto(w, l) /\ op' = locals /\ lock' = w /\ UNCHANGED <<job, got>>

\* A call of Ensure fails without any effect.
EnsureError(w) ==
  /\ pc[w] \in EnsurePC /\ Failed /\ Return(w)
  /\ UNCHANGED <<environment, synced, zitadel, kubernetes, cache, sweep, deadAtStart>>

Done(w) ==
  /\ pc[w] = "using" /\ Goto(w, "idle")
  /\ job' = [job EXCEPT ![w] = None] /\ got' = [got EXCEPT ![w] = None]
  /\ UNCHANGED <<environment, budget, synced, zitadel, kubernetes, lock, cache,
                 op, sweep, deadAtStart>>

----------------------------------------------------------------------------
(* Ensure: cache, Secret, validation *)

Due(d) == now >= d.created + RotateAfter

\* rotateIfDueLocked: a fresh key is returned as it is.
Serve(w, d, locals) ==
  IF Due(d) THEN Continue(w, "rotateKey", [locals EXCEPT !.uid = d.user, !.hasOrg = d.hasOrg])
            ELSE HandOut(w, d)

\* One Ensure draws at most one id of each sort: the bound stops it here, where
\* nothing is held yet.
IdsLeft == nextUser <= MaxUser /\ nextKey <= MaxKey

EnsureLock(w) ==
  /\ pc[w] = "ensure" /\ lock = None /\ IdsLeft
  /\ LET d == cache[job[w]] IN
       IF d = None        THEN Continue(w, "warm", NoLocals)
       ELSE IF d.validated THEN Serve(w, d, NoLocals)
                           ELSE Continue(w, "validate", NoLocals)
  /\ UNCHANGED <<environment, budget, synced, zitadel, kubernetes, cache, sweep, deadAtStart>>

\* Mutant: a warmed delegate counts as validated.
FromSecretTrusted(x) == [user |-> x.user, key |-> x.key, created |-> x.created,
                         hasOrg |-> TRUE, validated |-> TRUE]

\* delegateFromSecret
FromSecret(x) == [user |-> x.user, key |-> x.key, created |-> x.created,
                  hasOrg |-> TRUE, validated |-> FALSE]

\* warmLocked reads the Secret through the informer cache.
WarmLocked(w) ==
  /\ pc[w] = "warm"
  /\ LET s == job[w] IN
       IF informer[s] = None
       THEN Continue(w, "mintUser", NoLocals) /\ UNCHANGED cache
       ELSE /\ cache' = [cache EXCEPT ![s] = FromSecret(informer[s])]
            /\ Continue(w, "validate", [NoLocals EXCEPT !.warmed = TRUE])
  /\ UNCHANGED <<environment, budget, synced, zitadel, kubernetes, sweep, deadAtStart>>

\* validateLocked: GetUserByID. NotFound drops the entry, then the Secret.
ValidateLocked(w) ==
  /\ pc[w] = "validate"
  /\ LET s == job[w]
         d == cache[s]
     IN IF user[s] = d.user
        THEN LET v == [d EXCEPT !.validated = TRUE] IN
               cache' = [cache EXCEPT ![s] = v] /\ Serve(w, v, op)
        ELSE cache' = [cache EXCEPT ![s] = None] /\ Continue(w, "drop", op)
  /\ UNCHANGED <<environment, budget, synced, zitadel, kubernetes, sweep, deadAtStart>>

\* ... deleted by name, whatever it holds; a warmed delegate goes on to mint,
\* a cached one to warmLocked.
DropSecret(w) ==
  /\ pc[w] = "drop"
  /\ secret' = [secret EXCEPT ![job[w]] = None]
  /\ \/ Answered /\ Continue(w, IF op.warmed THEN "mintUser" ELSE "warm", NoLocals)
     \/ Failed /\ Return(w)
  /\ UNCHANGED <<environment, synced, zitadel, informer, cache, sweep, deadAtStart>>

----------------------------------------------------------------------------
(* Ensure: mint and persist *)

\* Mutant: a user that already exists is taken to hold its membership.
AfterUserSkippingGrant(s) ==
  IF user[s] # 0 THEN "mintKey" ELSE IF s \in ProjectScopes THEN "mintProject" ELSE "mintGrant"

\* mint finds or creates the project of a scope that names one, then grants.
AfterUser(s) == IF s \in ProjectScopes THEN "mintProject" ELSE "mintGrant"

\* ensureMachineUser: found by its username, otherwise created. Only the lock
\* holder creates this user, so the search and the creation are one step.
MintUser(w) ==
  /\ pc[w] = "mintUser"
  /\ LET s == job[w] IN
       /\ IF user[s] # 0 THEN UNCHANGED <<user, nextUser>>
          ELSE user' = [user EXCEPT ![s] = nextUser] /\ nextUser' = nextUser + 1
       /\ \/ /\ Answered
             /\ Continue(w, AfterUser(s),
                         [NoLocals EXCEPT !.uid = user'[s]])
          \/ Failed /\ Return(w)
  /\ UNCHANGED <<environment, synced, keys, granted, projects, nextKey, kubernetes,
                 cache, sweep, deadAtStart>>

\* ensureProject
MintProject(w) ==
  /\ pc[w] = "mintProject"
  /\ projects' = projects \cup {job[w]}
  /\ \/ Answered /\ Continue(w, "mintGrant", op)
     \/ Failed /\ Return(w)
  /\ UNCHANGED <<environment, synced, user, keys, granted, nextUser, nextKey,
                 kubernetes, cache, sweep, deadAtStart>>

\* grantOrgOwner / grantProjectOwner; an existing membership is success, a
\* vanished user an error.
MintGrant(w) ==
  /\ pc[w] = "mintGrant"
  /\ IF user[job[w]] = op.uid
     THEN /\ granted' = granted \cup {job[w]}
          /\ \/ Answered /\ Continue(w, "mintKey", op)
             \/ Failed /\ Return(w)
     ELSE Answered /\ Return(w) /\ UNCHANGED granted
  /\ UNCHANGED <<environment, synced, user, keys, projects, nextUser, nextKey,
                 kubernetes, cache, sweep, deadAtStart>>

\* addKey: the key details are in the answer only. A failure after it (the
\* answer lost, buildDelegate failing) loses them.
AddKey(w, reachable, l) ==
  IF reachable
  THEN /\ keys' = [keys EXCEPT ![job[w]] = @ \cup {nextKey}] /\ nextKey' = nextKey + 1
       /\ \/ Answered /\ Continue(w, l, [op EXCEPT !.kid = nextKey])
          \/ Failed /\ Return(w)
  ELSE Answered /\ Return(w) /\ UNCHANGED <<keys, nextKey>>

MintKey(w) ==
  /\ pc[w] = "mintKey"
  /\ AddKey(w, user[job[w]] = op.uid, "persist")
  /\ UNCHANGED <<environment, synced, user, granted, projects, nextUser,
                 kubernetes, cache, sweep, deadAtStart>>

\* persistSecret (a Create), then the cache, then return.
PersistSecret(w) ==
  /\ pc[w] = "persist"
  /\ LET s == job[w]
         x == [user |-> op.uid, key |-> op.kid, created |-> now, old |-> 0, revokeAt |-> 0]
         d == [FromSecret(x) EXCEPT !.validated = TRUE]
     IN IF secret[s] # None
        THEN Answered /\ Return(w) /\ UNCHANGED <<secret, cache>>   \* AlreadyExists
        ELSE /\ secret' = [secret EXCEPT ![s] = x]
             /\ \/ Answered /\ cache' = [cache EXCEPT ![s] = d] /\ HandOut(w, d)
                \/ Failed /\ Return(w) /\ UNCHANGED cache
  /\ UNCHANGED <<environment, synced, zitadel, informer, sweep, deadAtStart>>

----------------------------------------------------------------------------
(* Ensure: rotation *)

\* Without the org header AddMachineKey looks in the binding's own organization.
RotateKey(w) ==
  /\ pc[w] = "rotateKey"
  /\ AddKey(w, user[job[w]] = op.uid /\ (op.hasOrg \/ job[w] \in HomeScopes), "rotateSwap")
  /\ UNCHANGED <<environment, synced, user, granted, projects, nextUser,
                 kubernetes, cache, sweep, deadAtStart>>

\* Mutant: the new key recorded as the old one.
RotatedNewAsOld(x, d, k) ==
  [x EXCEPT !.key = k, !.created = now, !.old = k, !.revokeAt = now + Grace]

\* The Secret the rotation writes: the cached delegate's key becomes the old one.
Rotated(x, d, k) == [x EXCEPT !.key = k, !.created = now, !.old = d.key, !.revokeAt = now + Grace]

\* Get through the informer cache, Update with the copy's resourceVersion: a
\* stale or missing copy is an error. The rotated Delegate carries no OrgID.
\* Failed also stands for buildDelegate failing after the Update.
RotateSwap(w) ==
  /\ pc[w] = "rotateSwap"
  /\ LET s == job[w]
         d == cache[s]
         n == [user |-> d.user, key |-> op.kid, created |-> now,
               hasOrg |-> FALSE, validated |-> TRUE]
     IN IF informer[s] = None \/ informer[s] # secret[s]
        THEN Answered /\ Return(w) /\ UNCHANGED <<secret, cache>>
        ELSE /\ secret' = [secret EXCEPT ![s] = Rotated(secret[s], d, op.kid)]
             /\ \/ Answered /\ cache' = [cache EXCEPT ![s] = n] /\ HandOut(w, n)
                \/ Failed /\ Return(w) /\ UNCHANGED cache
  /\ UNCHANGED <<environment, synced, zitadel, informer, sweep, deadAtStart>>

----------------------------------------------------------------------------
(* WarmFromSecrets: the list is read once, the mutex taken per Secret *)

WarmList(p) ==
  /\ pc[p] = "warmList"
  /\ \/ /\ Answered
        /\ list' = [list EXCEPT ![p] = informer]
        /\ items' = [items EXCEPT ![p] = {s \in Scopes : informer[s] # None}]
        /\ Goto(p, "warmItem")
     \/ Failed /\ Goto(p, "idle") /\ UNCHANGED <<list, items>>
  /\ UNCHANGED <<environment, synced, zitadel, kubernetes, lock, cache, job, op, got,
                 live, nsLeft, deadAtStart>>

WarmItem(p, s) ==
  /\ pc[p] = "warmItem" /\ s \in items[p] /\ lock = None
  /\ cache' = [cache EXCEPT ![s] = FromSecret(list[p][s])]
  /\ items' = [items EXCEPT ![p] = @ \ {s}]
  /\ UNCHANGED <<environment, budget, synced, zitadel, kubernetes, lock, pc, job, op,
                 got, live, nsLeft, list, deadAtStart>>

\* The sweeper's call ends and forgets what it had collected.
Rest(p) ==
  /\ Goto(p, "idle") /\ job' = [job EXCEPT ![p] = None]
  /\ live' = [live EXCEPT ![p] = {}] /\ nsLeft' = [nsLeft EXCEPT ![p] = {}]
  /\ list' = [list EXCEPT ![p] = NothingListed] /\ items' = [items EXCEPT ![p] = {}]

WarmDone(p) ==
  /\ pc[p] = "warmItem" /\ items[p] = {} /\ Rest(p)
  /\ UNCHANGED <<environment, budget, synced, zitadel, kubernetes, lock, cache, op, got,
                 deadAtStart>>

----------------------------------------------------------------------------
(* GC.SweepOnce: the live set, namespace by namespace *)

SweepOnce(p) ==
  /\ pc[p] = "idle" /\ Goto(p, "resolve")
  /\ nsLeft' = [nsLeft EXCEPT ![p] = Namespaces]
  /\ edited' = [edited EXCEPT ![p] = {}]
  /\ UNCHANGED <<scopeOf, now, budget, synced, zitadel, kubernetes, lock, cache, job, op,
                 got, live, list, items, deadAtStart>>

\* Mutants: an unsynced resolver's error only means "no scope here"; a namespace
\* without a scope is added like one with a scope.
SweepResolveUnsynced(p, ns) ==
  /\ pc[p] = "resolve" /\ ns \in nsLeft[p]
  /\ live' = [live EXCEPT ![p] = @ \cup (IF synced THEN {scopeOf[ns]} \ {None} ELSE {})]
  /\ nsLeft' = [nsLeft EXCEPT ![p] = @ \ {ns}]
  /\ edited' = [edited EXCEPT ![p] = @ \ {ns}]
  /\ UNCHANGED <<scopeOf, now, budget, synced, zitadel, kubernetes, lock, cache, pc, job,
                 op, got, list, items, deadAtStart>>
SweepResolveNil(p, ns) ==
  /\ pc[p] = "resolve" /\ ns \in nsLeft[p] /\ synced
  /\ live' = [live EXCEPT ![p] = @ \cup {scopeOf[ns]}]
  /\ nsLeft' = [nsLeft EXCEPT ![p] = @ \ {ns}]
  /\ edited' = [edited EXCEPT ![p] = @ \ {ns}]
  /\ UNCHANGED <<scopeOf, now, budget, synced, zitadel, kubernetes, lock, cache, pc, job,
                 op, got, list, items, deadAtStart>>

SweepResolve(p, ns) ==
  /\ pc[p] = "resolve" /\ ns \in nsLeft[p]
  /\ IF synced
     THEN /\ live' = [live EXCEPT ![p] = @ \cup ({scopeOf[ns]} \ {None})]
          /\ nsLeft' = [nsLeft EXCEPT ![p] = @ \ {ns}]
          /\ edited' = [edited EXCEPT ![p] = @ \ {ns}]
          /\ UNCHANGED <<pc, job, list, items>>
     ELSE Rest(p) /\ UNCHANGED edited               \* ErrMapsNotSynced
  /\ UNCHANGED <<scopeOf, now, budget, synced, zitadel, kubernetes, lock, cache, op, got,
                 deadAtStart>>

\* Manager.Sweep lists the Secrets before it locks.
SweepList(p) ==
  /\ pc[p] = "resolve" /\ nsLeft[p] = {}
  /\ \/ /\ Answered /\ Goto(p, "sweep")
        /\ list' = [list EXCEPT ![p] = informer]
        /\ items' = [items EXCEPT ![p] = {s \in Scopes : informer[s] # None}]
        /\ UNCHANGED <<job, live, nsLeft>>
     \/ Failed /\ Rest(p)
  /\ UNCHANGED <<environment, synced, zitadel, kubernetes, lock, cache, op, got, deadAtStart>>

SweepLock(p) ==
  /\ pc[p] = "sweep" /\ lock = None /\ lock' = p /\ Goto(p, "next")
  /\ UNCHANGED <<environment, budget, synced, zitadel, kubernetes, cache, job, op, got,
                 sweep, deadAtStart>>

SweepUnlock(p) ==
  /\ pc[p] = "next" /\ items[p] = {} /\ lock' = None /\ Rest(p)
  /\ UNCHANGED <<environment, budget, synced, zitadel, kubernetes, cache, op, got, deadAtStart>>

\* Mutant: the revoke-after time is not looked at.
GraceIgnored(x) == x.old # 0

GraceOver(x) == x.old # 0 /\ now >= x.revokeAt   \* finishRotationLocked's guards

\* Mutants: only cached delegates are revoked; the markers go before the key.
NextForCachedItem(p, s) ==
  IF s \notin live[p] THEN (IF cache[s] # None THEN "revokeRead" ELSE "next")
  ELSE IF GraceOver(list[p][s]) THEN "oldKey" ELSE "next"
NextForItemClearing(p, s) ==
  IF s \notin live[p] THEN "revokeRead" ELSE IF GraceOver(list[p][s]) THEN "clear" ELSE "next"

NextForItem(p, s) ==
  IF s \notin live[p] THEN "revokeRead" ELSE IF GraceOver(list[p][s]) THEN "oldKey" ELSE "next"

\* One listed Secret: revoke it, finish its rotation, or leave it.
SweepItem(p, s) ==
  /\ pc[p] = "next" /\ s \in items[p]
  /\ items' = [items EXCEPT ![p] = @ \ {s}] /\ job' = [job EXCEPT ![p] = s]
  /\ Goto(p, NextForItem(p, s))
  /\ UNCHANGED <<environment, budget, synced, zitadel, kubernetes, lock, cache, op, got,
                 live, nsLeft, list, deadAtStart>>

\* An item's error is remembered and the sweep moves on.
SweepError(p) ==
  /\ \/ pc[p] \in {"revokeRead", "oldKey", "clear"}
     \/ pc[p] = "revokeUser" /\ op.uid # 0
     \/ pc[p] = "revokeSecret" /\ op.found
  /\ Failed /\ Goto(p, "next") /\ op' = NoLocals
  /\ UNCHANGED <<environment, synced, zitadel, kubernetes, lock, cache, job, got, sweep,
                 deadAtStart>>

----------------------------------------------------------------------------
(* revokeLocked: user, then Secret, then cache entry *)

\* Mutant: no fallback to the Secret's org_id when the cached one is empty.
RevokeLocalsCachedOrg(d, x) ==
  [NoLocals EXCEPT
     !.uid    = IF d # None THEN d.user ELSE IF x # None THEN x.user ELSE 0,
     !.hasOrg = IF d # None THEN d.hasOrg ELSE x # None,
     !.found  = x # None]

\* User and organization from the cache entry, else from the Secret.
RevokeLocals(d, x) ==
  [NoLocals EXCEPT
     !.uid    = IF d # None THEN d.user ELSE IF x # None THEN x.user ELSE 0,
     !.hasOrg = x # None \/ (d # None /\ d.hasOrg),
     !.found  = x # None]

RevokeRead(p) ==
  /\ pc[p] = "revokeRead"
  /\ op' = RevokeLocals(cache[job[p]], informer[job[p]])
  /\ Goto(p, "revokeUser")
  /\ UNCHANGED <<environment, budget, synced, zitadel, kubernetes, lock, cache, job, got,
                 sweep, deadAtStart>>

\* RemoveUser takes the user's keys and memberships with it.
RemoveUser(s) ==
  /\ user' = [user EXCEPT ![s] = 0] /\ keys' = [keys EXCEPT ![s] = {}]
  /\ granted' = granted \ {s}

\* NotFound is success, also when it only means "not in the organization the
\* call named".
RevokeUser(p) ==
  /\ pc[p] = "revokeUser"
  /\ LET s == job[p] IN
       IF user[s] # 0 /\ user[s] = op.uid /\ (op.hasOrg \/ s \in HomeScopes)
       THEN RemoveUser(s) ELSE UNCHANGED <<user, keys, granted>>
  /\ \/ Answered /\ Goto(p, "revokeSecret") /\ UNCHANGED op
     \/ op.uid # 0 /\ Failed /\ Goto(p, "next") /\ op' = NoLocals
  /\ UNCHANGED <<environment, synced, projects, nextUser, nextKey, kubernetes, lock,
                 cache, job, got, sweep, deadAtStart>>

RevokeSecret(p) ==
  /\ pc[p] = "revokeSecret" /\ Goto(p, "next") /\ op' = NoLocals
  /\ secret' = IF op.found THEN [secret EXCEPT ![job[p]] = None] ELSE secret
  /\ \/ Answered /\ cache' = [cache EXCEPT ![job[p]] = None]
     \/ op.found /\ Failed /\ UNCHANGED cache
  /\ UNCHANGED <<environment, synced, zitadel, informer, lock, job, got, sweep, deadAtStart>>

----------------------------------------------------------------------------
(* finishRotationLocked, on the listed copy *)

RemoveOldKey(p) ==
  /\ pc[p] = "oldKey"
  /\ LET s == job[p]
         x == list[p][s]
     IN keys' = [keys EXCEPT ![s] = IF user[s] = x.user THEN @ \ {x.old} ELSE @]
  /\ \/ Answered /\ Goto(p, "clear") /\ UNCHANGED op
     \/ Failed /\ Goto(p, "next") /\ op' = NoLocals
  /\ UNCHANGED <<environment, synced, user, granted, projects, nextUser, nextKey,
                 kubernetes, lock, cache, job, got, sweep, deadAtStart>>

\* The Update carries the listed resourceVersion: a changed Secret is a conflict.
ClearMarkers(p) ==
  /\ pc[p] = "clear" /\ Goto(p, "next") /\ op' = NoLocals
  /\ LET s == job[p]
         x == list[p][s]
     IN secret' = IF secret[s] = x THEN [secret EXCEPT ![s] = [x EXCEPT !.old = 0, !.revokeAt = 0]]
                  ELSE secret
  /\ UNCHANGED <<environment, budget, synced, zitadel, informer, lock, cache, job, got,
                 sweep, deadAtStart>>

----------------------------------------------------------------------------
(* Surroundings *)

Tick ==
  /\ now < MaxTime /\ now' = now + 1
  /\ UNCHANGED <<scopeOf, edited, budget, synced, zitadel, kubernetes, lock, cache, pc, job, op,
                 got, sweep, deadAtStart>>

Sync ==
  /\ ~synced /\ synced' = TRUE
  /\ UNCHANGED <<environment, budget, zitadel, kubernetes, lock, cache, pc, job, op, got,
                 sweep, deadAtStart>>

\* A map, its status or a namespace's labels change.
MapsChange(ns, s) ==
  /\ Spend("edit") /\ s # scopeOf[ns] /\ scopeOf' = [scopeOf EXCEPT ![ns] = s]
  /\ edited' = [p \in Sweepers |-> edited[p] \cup {ns}]
  /\ UNCHANGED <<now, synced, zitadel, kubernetes, lock, cache, pc, job, op, got, sweep,
                 deadAtStart>>

\* A watch event reaches the informer cache.
InformerCatchesUp(s) ==
  /\ informer[s] # secret[s] /\ informer' = [informer EXCEPT ![s] = secret[s]]
  /\ UNCHANGED <<environment, budget, synced, zitadel, secret, lock, cache, pc, job, op,
                 got, sweep, deadAtStart>>

UserDeletedOutOfBand(s) ==
  /\ Spend("user") /\ user[s] # 0 /\ RemoveUser(s)
  /\ UNCHANGED <<environment, synced, projects, nextUser, nextKey, kubernetes, lock,
                 cache, pc, job, op, got, sweep, deadAtStart>>

SecretDeletedOutOfBand(s) ==
  /\ Spend("secret") /\ secret[s] # None /\ secret' = [secret EXCEPT ![s] = None]
  /\ UNCHANGED <<environment, synced, zitadel, informer, lock, cache, pc, job, op, got,
                 sweep, deadAtStart>>

\* The leader dies and a new process starts with a freshly filled informer cache.
Crash ==
  /\ Spend("crash")
  /\ synced' = FALSE /\ informer' = secret
  /\ lock' = None /\ cache' = NothingListed /\ op' = NoLocals
  /\ pc' = [p \in Procs |-> Started(p)] /\ job' = [p \in Procs |-> None]
  /\ got' = [w \in Workers |-> None]
  /\ live' = [p \in Sweepers |-> {}] /\ nsLeft' = [p \in Sweepers |-> {}]
  /\ list' = [p \in Sweepers |-> NothingListed] /\ items' = [p \in Sweepers |-> {}]
  /\ deadAtStart' = {u \in 1..(nextUser - 1) : \A s \in Scopes : user[s] # u}
  /\ UNCHANGED <<environment, zitadel, secret>>

----------------------------------------------------------------------------
EnsureStep(w) ==
  \/ EnsureLock(w) \/ WarmLocked(w) \/ ValidateLocked(w) \/ DropSecret(w)
  \/ MintUser(w) \/ MintProject(w) \/ MintGrant(w) \/ MintKey(w) \/ PersistSecret(w)
  \/ RotateKey(w) \/ RotateSwap(w)

WorkerStep(w) ==
  \/ \E ns \in Namespaces : EnsureCall(w, ns)
  \/ EnsureStep(w) \/ EnsureError(w) \/ Done(w)

SweeperStep(p) ==
  \/ WarmList(p) \/ WarmDone(p) \/ (\E s \in Scopes : WarmItem(p, s))
  \/ SweepOnce(p) \/ (\E ns \in Namespaces : SweepResolve(p, ns)) \/ SweepList(p)
  \/ SweepLock(p) \/ SweepUnlock(p) \/ (\E s \in Scopes : SweepItem(p, s))
  \/ SweepError(p) \/ RevokeRead(p) \/ RevokeUser(p) \/ RevokeSecret(p)
  \/ RemoveOldKey(p) \/ ClearMarkers(p)

Surroundings ==
  \/ Tick \/ Sync \/ Crash
  \/ \E ns \in Namespaces, s \in Scopes \cup {None} : MapsChange(ns, s)
  \/ \E s \in Scopes : InformerCatchesUp(s) \/ UserDeletedOutOfBand(s) \/ SecretDeletedOutOfBand(s)

Next ==
  \/ \E w \in Workers : WorkerStep(w)
  \/ \E p \in Sweepers : SweeperStep(p)
  \/ Surroundings

Spec == Init /\ [][Next]_vars

\* The operator's own steps go on; the surroundings owe nothing but the watch
\* and the cache sync. sync.Mutex does not starve a waiter (its starvation mode
\* hands the lock over), so the steps that take it are strongly fair. Whether
\* the clock moves and whether tenants' CRs are reconciled is left open.
Fairness ==
  /\ WF_vars(Sync) /\ \A s \in Scopes : WF_vars(InformerCatchesUp(s))
  /\ \A w \in Workers : WF_vars(EnsureStep(w)) /\ SF_vars(EnsureLock(w)) /\ WF_vars(Done(w))
  /\ \A p \in Sweepers : WF_vars(SweeperStep(p)) /\ SF_vars(SweepLock(p))

FairSpec == Spec /\ Fairness

----------------------------------------------------------------------------
(* Properties *)

\* The key in a delegation Secret authenticates as long as the machine user it
\* names exists: neither a rotation nor its clean-up, run on a stale copy or
\* after a crash, removes the persisted key (rotateIfDueLocked, finishRotationLocked).
PersistedKeyLive ==
  \A s \in Scopes :
    secret[s] # None /\ user[s] = secret[s].user => secret[s].key \in keys[s]

\* So the delegation Secret of a scope hands out the user's keys as KeyHandover
\* has it.
Key(s) == INSTANCE KeyHandover WITH
  Keys <- Nat \ {0}, None <- 0, valid <- keys[s],
  held <- IF secret[s] = None THEN 0 ELSE secret[s].key,
  current <- secret[s] # None /\ user[s] = secret[s].user
Handover ==
  /\ \A s \in Scopes : Key(s)!Init
  /\ [][\A s \in Scopes : [Key(s)!Next]_(Key(s)!vars)]_vars

\* Zero-downtime rotation: a reconciler keeps working with the client Ensure gave
\* it. Until Grace has passed its key is valid, unless the user itself is gone.
LeaseKeyLive ==
  \A w \in Workers :
    got[w] # None /\ user[job[w]] = got[w].user /\ now < got[w].at + Grace
      => got[w].key \in keys[job[w]]

\* "a key without grants would still authenticate": a user has a key only when it
\* holds its membership, on a project that exists (the order of mint's calls).
NoUngrantedKey ==
  \A s \in Scopes : keys[s] # {} => s \in granted /\ (s \in ProjectScopes => s \in projects)

\* A delegate deleted while the operator was down is never handed out: warm
\* entries are validated before their first use.
NoDeadLease == \A w \in Workers : got[w] # None => got[w].user \notin deadAtStart

OutOfBand(kind) == budget'[kind] # budget[kind]

CallFailed == budget["fault"] # Budget["fault"]

\* The Secret is the only record of a delegate: unless a call has failed, the
\* operator deletes it only once the machine user it names is gone (revokeLocked's
\* order, validateLocked's drop).
SecretOutlivesUser ==
  [][\A s \in Scopes :
       secret[s] # None /\ secret'[s] = None /\ ~OutOfBand("secret") /\ ~CallFailed
         => user'[s] # secret[s].user]_vars

Unmatched(s) == \A ns \in Namespaces : scopeOf[ns] # s

\* Sweeps revoke only delegates "whose scope no longer resolves anywhere": not that of a
\* namespace, unless its scope has changed behind the sweep's back, after SweepOnce
\* resolved it and before Manager.Sweep revokes under the mutex (gc.go's live set).
OnlyUnmatchedRevoked ==
  [][\A s \in Scopes :
       user[s] # 0 /\ user'[s] = 0 /\ ~OutOfBand("user")
         => \E p \in Sweepers :
              lock = p /\ \A ns \in Namespaces : scopeOf[ns] = s => ns \in edited[p]]_vars

\* Orphan GC: once a scope stays unmatched, its Secret goes.
TrackedOrphansRevoked ==
  \A s \in Scopes : (Unmatched(s) /\ secret[s] # None) ~> (secret[s] = None \/ ~Unmatched(s))

\* A rotated-out key is removed once its grace is over, unless a further rotation
\* has started a new grace period (Sweep, finishRotationLocked).
GraceElapsed(s) == secret[s] # None /\ GraceOver(secret[s])
OldKeyRetired ==
  \A s \in Scopes, k \in 1..MaxKey :
    (GraceElapsed(s) /\ secret[s].old = k)
      ~> (k \notin keys[s] \/ (secret[s] # None /\ now < secret[s].revokeAt))

----------------------------------------------------------------------------
(* The inductive invariant behind PersistedKeyLive and NoUngrantedKey *)

\* Calls under the mutex belong to its holder, and each finds the operands it needs.
ControlOK ==
  /\ \A p \in Procs : pc[p] \in EnsurePC \cup SweepPC => lock = p
  /\ \A w \in Workers :
       /\ pc[w] \in WorkerRest \cup EnsurePC
       /\ pc[w] # "idle" => job[w] \in Scopes
       /\ pc[w] = "mintProject" => job[w] \in ProjectScopes
       /\ pc[w] \in {"validate", "rotateKey", "rotateSwap"} => cache[job[w]] # None
  /\ \A p \in Sweepers :
       /\ pc[p] \in SweeperRest \cup SweepPC
       /\ pc[p] \in SweepPC \ {"next"} => job[p] \in Scopes
       /\ \A s \in items[p] : list[p][s] # None
       /\ pc[p] \in {"oldKey", "clear"} => list[p][job[p]] # None

\* Every id in use was drawn before; 0 is no id.
Known(x) == x # None => /\ 0 < x.user /\ x.user < nextUser
                        /\ 0 < x.key  /\ x.key < nextKey /\ x.old < nextKey
FreshOK ==
  /\ \A s \in Scopes :
       /\ user[s] < nextUser /\ \A k \in keys[s] : k < nextKey
       /\ Known(secret[s]) /\ Known(informer[s]) /\ \A p \in Sweepers : Known(list[p][s])
       /\ cache[s] # None => 0 < cache[s].user /\ cache[s].user < nextUser /\ cache[s].key < nextKey
  /\ op.kid < nextKey

\* No copy of the Secret, however stale, has k as its rotated-out key.
NowhereOld(s, k) ==
  /\ secret[s] # None => secret[s].old # k
  /\ informer[s] # None => informer[s].old # k
  /\ \A p \in Sweepers : list[p][s] # None => list[p][s].old # k
OldNotCurrent == \A s \in Scopes : secret[s] # None => NowhereOld(s, secret[s].key)

\* The lock holder's user id was drawn before; a key that was added but not yet
\* persisted belongs to that user as long as it exists, and no copy of the Secret
\* could make a sweep remove it.
PendingAt(w) ==
  /\ pc[w] \in {"mintProject", "mintGrant", "mintKey", "persist", "rotateKey", "rotateSwap"} =>
       0 < op.uid /\ op.uid < nextUser
  /\ pc[w] \in {"persist", "rotateSwap"} =>
       /\ 0 < op.kid /\ user[job[w]] \in {0, op.uid}
       /\ user[job[w]] = op.uid => op.kid \in keys[job[w]]
       /\ NowhereOld(job[w], op.kid)
       /\ cache[job[w]] # None => cache[job[w]].key # op.kid
PendingOK == \A w \in Workers : PendingAt(w)

\* Whoever knows a user as a delegate knows one that got its membership.
Membership(s) == s \in granted /\ (s \in ProjectScopes => s \in projects)
KnownGranted ==
  \A s \in Scopes :
    /\ secret[s] # None /\ secret[s].user = user[s] => Membership(s)
    /\ informer[s] # None /\ informer[s].user = user[s] => Membership(s)
    /\ \A p \in Sweepers : list[p][s] # None /\ list[p][s].user = user[s] => Membership(s)
    /\ cache[s] # None /\ cache[s].user = user[s] => Membership(s)
GrantedAt(w) ==
  /\ pc[w] = "mintGrant" /\ job[w] \in ProjectScopes => job[w] \in projects
  /\ pc[w] \in {"mintKey", "persist", "rotateKey", "rotateSwap"} /\ user[job[w]] = op.uid
       => Membership(job[w])
PendingGranted == \A w \in Workers : GrantedAt(w)

\* Machine users of a scope come one after the other: no copy of its Secret names a
\* younger user than the one that there is, than the Secret itself or than the one
\* being minted for, and a rotation is for the cached user. What Handover needs beyond IInv.
NoneYounger(s, u) ==
  /\ secret[s] # None => secret[s].user <= u
  /\ informer[s] # None => informer[s].user <= u
  /\ cache[s] # None => cache[s].user <= u
  /\ \A p \in Sweepers : list[p][s] # None => list[p][s].user <= u
AgeOK ==
  \A s \in Scopes :
    /\ user[s] = 0 => keys[s] = {}
    /\ user[s] # 0 => NoneYounger(s, user[s])
    /\ secret[s] # None => NoneYounger(s, secret[s].user)
AgeAt(w) ==
  /\ pc[w] \in {"mintProject", "mintGrant", "mintKey", "persist"} => NoneYounger(job[w], op.uid)
  /\ pc[w] \in {"rotateKey", "rotateSwap"} => op.uid = cache[job[w]].user
UsersAge == AgeOK /\ \A w \in Workers : AgeAt(w)

\* What the operator's copies say of a scope's keys: the Secret, as it is or was, and
\* the cached delegate.
Records(s) == ({secret[s], informer[s]} \cup {list[p][s] : p \in Sweepers}) \ {None}
Views(s)   == Records(s) \cup ({cache[s]} \ {None})

\* They agree on the age of a key, a rotated-out key is one that was due, and one that
\* is not due authenticates. What LeaseKeyLive needs beyond IInv and UsersAge.
KeysAge(s) ==
  /\ \A x, y \in Views(s) : x.key = y.key => x.created = y.created
  /\ \A x \in Records(s), y \in Views(s) : x.old # 0 /\ x.old = y.key => Due(y)
  /\ \A x \in Views(s) : x.user = user[s] /\ ~Due(x) => x.key \in keys[s]

\* No copy of the Secret has a lease's key revoked before its grace is over.
LeaseAt(w) ==
  got[w] # None =>
    /\ pc[w] = "using" /\ 0 < got[w].user /\ got[w].user < nextUser /\ got[w].at <= now
    /\ \A x \in Records(job[w]) :
         x.old # 0 /\ x.old = got[w].key => x.revokeAt >= got[w].at + Grace

\* Only a key that is due is rotated, and one that is not persisted yet is nowhere.
NewKeyAt(w) ==
  /\ pc[w] \in {"rotateKey", "rotateSwap"} => Due(cache[job[w]])
  /\ pc[w] \in {"persist", "rotateSwap"} => \A x \in Views(job[w]) : x.key # op.kid

LeaseInv ==
  /\ \A s \in Scopes : KeysAge(s)
  /\ \A w \in Workers : LeaseAt(w) /\ NewKeyAt(w)
  /\ \A p \in Sweepers : pc[p] = "oldKey" => GraceOver(list[p][job[p]])
  /\ LeaseKeyLive

\* A user that was gone at the start stays gone, and no validated delegate and no call
\* that mints or rotates is about it: what NoDeadLease needs.
DeadInv ==
  /\ \A u \in deadAtStart : 0 < u /\ u < nextUser /\ \A s \in Scopes : user[s] # u
  /\ \A s \in Scopes : cache[s] # None /\ cache[s].validated => cache[s].user \notin deadAtStart
  /\ \A w \in Workers :
       /\ pc[w] \in {"mintProject", "mintGrant", "mintKey", "persist"} => op.uid \notin deadAtStart
       /\ pc[w] \in {"rotateKey", "rotateSwap"} => cache[job[w]].validated
  /\ NoDeadLease

\* A sweep's live set holds what the namespaces it has resolved resolve to, but for those
\* edited since, and it revokes nothing in it: what OnlyUnmatchedRevoked needs.
LiveAt(p) ==
  /\ pc[p] \in {"resolve", "sweep"} \cup SweepPC =>
       \A ns \in Namespaces \ (nsLeft[p] \cup edited[p]) : scopeOf[ns] \in live[p] \cup {None}
  /\ pc[p] \in {"sweep"} \cup SweepPC => nsLeft[p] = {}
  /\ pc[p] \in {"revokeRead", "revokeUser"} => job[p] \notin live[p]
LiveInv == \A p \in Sweepers : LiveAt(p)

\* While WarmFromSecrets runs, no delegation Secret is created beside it.
WarmsAlone ==
  [][pc[GCLoop] \in {"warmList", "warmItem"}
       => \A s \in Scopes : secret[s] = None => secret'[s] = None]_vars

\* The Secret names the living machine user. Until a call fails, what the operator then
\* goes by names it too: the cache entry, else the informer's copy, and what is still to be
\* warmed; a revocation under way has its id, and none is about to delete the Secret. What
\* SecretOutlivesUser needs.
NamesLiving(s) == secret[s] # None /\ secret[s].user = user[s]
AgreesOn(x, s) == x # None /\ x.user = user[s]
TrackedAt(s) ==
  NamesLiving(s) =>
    /\ IF cache[s] = None THEN AgreesOn(informer[s], s)
       ELSE cache[s].user = user[s] /\ (cache[s].hasOrg \/ informer[s] # None)
    /\ pc[GCLoop] = "warmList" => AgreesOn(informer[s], s)
    /\ pc[GCLoop] = "warmItem" /\ s \in items[GCLoop] => AgreesOn(list[GCLoop][s], s)
SparedBy(p) ==
  job[p] # None =>
    /\ pc[p] \in {"warm", "drop"} => cache[job[p]] = None
    /\ pc[p] \in {"drop", "revokeSecret"} => ~NamesLiving(job[p])
    /\ pc[p] = "revokeUser" /\ NamesLiving(job[p]) => op.uid = user[job[p]] /\ op.hasOrg
TrackInv ==
  /\ budget["fault"] <= Budget["fault"]
  /\ \A p \in Procs : pc[p] \in {"warmList", "warmItem"} => p = GCLoop
  /\ ~CallFailed => (\A s \in Scopes : TrackedAt(s)) /\ (\A p \in Procs : SparedBy(p))

IInv == /\ TypeOK /\ ControlOK /\ FreshOK /\ OldNotCurrent /\ PendingOK
        /\ KnownGranted /\ PendingGranted /\ PersistedKeyLive /\ NoUngrantedKey
=============================================================================
