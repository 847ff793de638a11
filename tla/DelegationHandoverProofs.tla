----------------------- MODULE DelegationHandoverProofs -----------------------
(***************************************************************************)
(* What Delegation hands out, proved for every value of the constants.     *)
(*                                                                         *)
(* It implements KeyHandover, scope by scope: IInv is not enough for that, *)
(* since a rotation may write only over a Secret that names the user it    *)
(* added the key to (UsersAge: machine users of a scope come one after the *)
(* other). No lease is for a user that was gone at the start (DeadInv), a  *)
(* sweep revokes no delegate that is in use (LiveInv), and a lease's key   *)
(* outlives its grace (LeaseInv, with UsersAge). What the operator goes by *)
(* names the living user that the Secret names (TrackInv), so the Secret   *)
(* is not deleted before it.                                               *)
(***************************************************************************)
EXTENDS DelegationProofs

-------------------------------------------------------------------------------
(* What a step leaves alone *)

\* A worker moves alone, and the clock and the sweepers' data stand still.
LEMMA WorkerMoves ==
  ASSUME IInv, NEW w \in Workers, WorkerStep(w)
  PROVE  /\ \A q \in Procs : q # w => pc'[q] = pc[q] /\ job'[q] = job[q]
         /\ \A q \in Workers : q # w => got'[q] = got[q]
         /\ UNCHANGED <<environment, sweep, deadAtStart>>
         /\ lock' \in {w, None} \/ UNCHANGED <<lock, op, cache>>
  <1>1. TypeOK
    BY DEF IInv
  <1>2. CASE \E ns \in Namespaces : EnsureCall(w, ns)
    BY <1>1, <1>2 DEF EnsureCall, Goto, TypeOK, Procs
  <1>3. CASE Done(w) \/ EnsureError(w)
    BY <1>1, <1>3 DEF Done, EnsureError, Return, Goto, TypeOK, Procs
  <1>4. CASE EnsureStep(w)
    <2>1. UNCHANGED <<environment, sweep, deadAtStart>>
      BY <1>4 DEF EnsureStep, EnsureLock, WarmLocked, ValidateLocked, DropSecret, MintUser, MintProject,
         MintGrant, MintKey, PersistSecret, RotateKey, RotateSwap
    <2>2. /\ lock' \in {w, None} /\ \A q \in Workers : q # w => got'[q] = got[q]
          /\ \A q \in Procs : q # w => pc'[q] = pc[q] /\ job'[q] = job[q]
      BY <1>1, <1>4 DEF EnsureStep, EnsureLock, WarmLocked, ValidateLocked, DropSecret, MintUser, MintProject,
         MintGrant, MintKey, PersistSecret, RotateKey, RotateSwap, AddKey, Serve, Return, HandOut, Continue,
         Goto, TypeOK, Procs
    <2> QED
      BY <2>1, <2>2
  <1> QED
    BY <1>2, <1>3, <1>4 DEF WorkerStep

\* A sweeper moves alone; while a worker holds the mutex it leaves the cache to it.
LEMMA SweeperMoves ==
  ASSUME IInv, NEW p \in Sweepers, SweeperStep(p)
  PROVE  /\ \A q \in Procs : q # p => pc'[q] = pc[q] /\ job'[q] = job[q]
         /\ \A q \in Sweepers : q # p => /\ list'[q] = list[q] /\ live'[q] = live[q]
                                         /\ nsLeft'[q] = nsLeft[q] /\ edited'[q] = edited[q]
         /\ UNCHANGED <<scopeOf, now, got, nextUser, nextKey, deadAtStart>>
         /\ \A w \in Workers : lock' = w => UNCHANGED <<lock, op, cache>>
  <1>1. TypeOK /\ ControlOK
    BY DEF IInv
  <1>2. /\ \A q \in Procs : q # p => pc'[q] = pc[q] /\ job'[q] = job[q]
        /\ UNCHANGED <<scopeOf, now, got, nextUser, nextKey, deadAtStart>>
    BY <1>1 DEF SweeperStep, WarmList, WarmDone, WarmItem, SweepOnce, SweepList, SweepLock, SweepUnlock,
       SweepError, SweepResolve, SweepItem, RevokeRead, RevokeUser, RevokeSecret, RemoveOldKey,
       ClearMarkers, Rest, Goto, environment, zitadel, TypeOK
  <1>3. \A q \in Sweepers : q # p => /\ list'[q] = list[q] /\ live'[q] = live[q]
                                     /\ nsLeft'[q] = nsLeft[q] /\ edited'[q] = edited[q]
    BY <1>1 DEF SweeperStep, WarmList, WarmDone, WarmItem, SweepOnce, SweepList, SweepLock, SweepUnlock,
       SweepError, SweepResolve, SweepItem, RevokeRead, RevokeUser, RevokeSecret, RemoveOldKey,
       ClearMarkers, Rest, environment, sweep, TypeOK
  <1>4. \A w \in Workers : lock' = w => UNCHANGED <<lock, op, cache>>
    <2> SUFFICES ASSUME NEW w \in Workers, lock' = w
                 PROVE  UNCHANGED <<lock, op, cache>>
      OBVIOUS
    <2>1. w # p /\ p # None /\ w # None
      BY ConstantsAssumption DEF Procs
    <2>2. lock = w
      BY <1>1, <2>1 DEF SweeperStep, WarmList, WarmDone, WarmItem, SweepOnce, SweepList, SweepLock, SweepUnlock,
         SweepError, SweepResolve, SweepItem, RevokeRead, RevokeUser, RevokeSecret, RemoveOldKey, ClearMarkers
    <2>3. pc[p] \notin SweepPC
      BY <1>1, <2>1, <2>2 DEF ControlOK, Procs
    <2> QED
      BY <1>1, <2>1, <2>2, <2>3 DEF SweeperStep, WarmList, WarmDone, WarmItem, SweepOnce, SweepList, SweepLock,
         SweepUnlock, SweepError, SweepResolve, SweepItem, RevokeRead, RevokeUser, RevokeSecret,
         RemoveOldKey, ClearMarkers, Rest, Goto, SweepPC, TypeOK
  <1> QED
    BY <1>2, <1>3, <1>4

\* So do the surroundings, except when the process dies: then nothing is left of it.
LEMMA SurroundingsMove ==
  ASSUME IInv, Surroundings
  PROVE  \/ /\ UNCHANGED <<lock, cache, pc, job, op, got, sweep, nextUser, nextKey, deadAtStart>>
            /\ now' \in {now, now + 1}
         \/ Crash
  BY DEF Surroundings, Tick, Sync, MapsChange, InformerCatchesUp, UserDeletedOutOfBand,
     SecretDeletedOutOfBand, zitadel, environment, TypeOK

LEMMA CrashMoves ==
  ASSUME Crash
  PROVE  /\ \A w \in Workers : pc'[w] = "idle" /\ got'[w] = None
         /\ \A p \in Sweepers : pc'[p] \in {"idle", "warmList"}
         /\ \A s \in Scopes : cache'[s] = None /\ \A p \in Sweepers : list'[p][s] = None
         /\ UNCHANGED <<environment, zitadel, secret>> /\ informer' = secret
  BY ConstantsAssumption DEF Crash, Started, NothingListed, Procs

\* What the two steps that write a key write: the Secret, then the cache entry, which is
\* what the caller gets; and the pieces of each.
Persisted == [user |-> op.uid, key |-> op.kid, created |-> now, old |-> 0, revokeAt |-> 0]
Minted(u) == [user |-> u, key |-> op.kid, created |-> now, hasOrg |-> TRUE, validated |-> TRUE]
Leased(u) == [user |-> u, key |-> op.kid, at |-> now]
Writes(w, s, x, d, l) ==
  /\ \A q \in Scopes : q # s => secret'[q] = secret[q] /\ cache'[q] = cache[q]
  /\ \/ secret'[s] = secret[s] /\ cache'[s] = cache[s] /\ got' = got
     \/ secret'[s] = x /\ cache'[s] = cache[s] /\ got' = got
     \/ secret'[s] = x /\ cache'[s] = d /\ got'[w] = l
LEMMA PersistOutcome ==
  ASSUME TypeOK, NEW w \in Workers, job[w] \in Scopes, PersistSecret(w)
  PROVE  Writes(w, job[w], Persisted, Minted(op.uid), Leased(op.uid))
  <1> DEFINE s == job[w]
             x == Persisted
             y == FromSecret(x)
             d == [y EXCEPT !.validated = TRUE]
  <1>1. d = Minted(op.uid) /\ d.user = op.uid /\ d.key = op.kid
    <2>1. op \in Locals /\ now \in Nat
      BY DEF TypeOK
    <2>2. /\ y \in Delegate /\ y.user = op.uid /\ y.key = op.kid /\ y.created = now
          /\ y.hasOrg = TRUE /\ y.validated = FALSE
      BY <2>1 DEF FromSecret, Persisted, Delegate, Locals
    <2> HIDE DEF y
    <2>3. d \in Delegate /\ d.user = y.user /\ d.key = y.key /\ d.created = y.created
          /\ d.hasOrg = y.hasOrg /\ d.validated = TRUE
      BY <2>2 DEF Delegate
    <2> HIDE DEF d
    <2>4. d = [user |-> d.user, key |-> d.key, created |-> d.created, hasOrg |-> d.hasOrg,
               validated |-> d.validated]
      BY <2>3 DEF Delegate
    <2> QED
      BY <2>2, <2>3, <2>4 DEF Minted
  <1>2. \/ UNCHANGED <<secret, cache, got>>
        \/ secret' = [secret EXCEPT ![s] = x] /\ UNCHANGED <<cache, got>>
        \/ secret' = [secret EXCEPT ![s] = x] /\ cache' = [cache EXCEPT ![s] = d] /\ HandOut(w, d)
    BY DEF PersistSecret, Return, Persisted
  <1> HIDE DEF x, d
  <1>3. HandOut(w, d) => got'[w] = Leased(op.uid)
    BY <1>1 DEF HandOut, TypeOK, Leased
  <1> QED
    BY <1>1, <1>2, <1>3 DEF Writes, TypeOK, x

RotatedDelegate(u) == [user |-> u, key |-> op.kid, created |-> now, hasOrg |-> FALSE, validated |-> TRUE]
LEMMA RotateOutcome ==
  ASSUME TypeOK, NEW w \in Workers, job[w] \in Scopes, RotateSwap(w)
  PROVE  /\ Writes(w, job[w], Rotated(secret[job[w]], cache[job[w]], op.kid),
                   RotatedDelegate(cache[job[w]].user), Leased(cache[job[w]].user))
         /\ secret'[job[w]] # secret[job[w]] => secret[job[w]] # None
  <1> DEFINE s == job[w]
             x == Rotated(secret[s], cache[s], op.kid)
             d == RotatedDelegate(cache[s].user)
  <1>1. d.user = cache[s].user /\ d.key = op.kid
    BY DEF RotatedDelegate
  <1>2. \/ UNCHANGED <<secret, cache, got>>
        \/ /\ secret[s] # None /\ secret' = [secret EXCEPT ![s] = x]
           /\ \/ UNCHANGED <<cache, got>>
              \/ cache' = [cache EXCEPT ![s] = d] /\ HandOut(w, d)
    BY DEF RotateSwap, Return, RotatedDelegate
  <1> HIDE DEF x, d
  <1>3. HandOut(w, d) => got'[w] = Leased(cache[s].user)
    BY <1>1 DEF HandOut, TypeOK, Leased
  <1> QED
    BY <1>1, <1>2, <1>3 DEF Writes, TypeOK, x, d

-------------------------------------------------------------------------------
(* The users of a scope come one after the other *)

\* A step that forgets copies of the Secret, or copies one that there is, and
\* draws no user.
NothingNewAt(s) ==
  /\ user'[s] \in {user[s], 0} /\ (user'[s] = 0 => keys'[s] = {})
  /\ secret'[s] # None => secret[s] # None /\ secret'[s].user = secret[s].user
  /\ informer'[s] \in {informer[s], secret[s], None}
  /\ cache'[s] # None =>
       \/ cache[s] # None /\ cache'[s].user = cache[s].user
       \/ informer[s] # None /\ cache'[s].user = informer[s].user
       \/ \E p \in Sweepers : list[p][s] # None /\ cache'[s].user = list[p][s].user
  /\ \A p \in Sweepers : list'[p][s] \in {list[p][s], informer[s], None}

\* Such a step keeps the order of the users.
LEMMA NothingNewAge ==
  ASSUME UsersAge, \A s \in Scopes : NothingNewAt(s)
  PROVE  AgeOK'
  <1> SUFFICES ASSUME NEW s \in Scopes
               PROVE  /\ (user[s] = 0 => keys[s] = {})'
                      /\ (user[s] # 0 => NoneYounger(s, user[s]))'
                      /\ (secret[s] # None => NoneYounger(s, secret[s].user))'
    BY DEF AgeOK
  <1>1. NothingNewAt(s)
    OBVIOUS
  <1>2. user'[s] # 0 => user'[s] = user[s] /\ NoneYounger(s, user[s])
    BY <1>1 DEF UsersAge, AgeOK, NothingNewAt
  <1>3. secret'[s] # None => secret'[s].user = secret[s].user /\ NoneYounger(s, secret[s].user)
    BY <1>1 DEF UsersAge, AgeOK, NothingNewAt
  <1>4. (user[s] = 0 => keys[s] = {})'
    BY <1>1 DEF NothingNewAt
  <1>5. (user[s] # 0 => NoneYounger(s, user[s]))'
    BY <1>1, <1>2 DEF NoneYounger, NothingNewAt
  <1>6. (secret[s] # None => NoneYounger(s, secret[s].user))'
    BY <1>1, <1>3 DEF NoneYounger, NothingNewAt
  <1> QED
    BY <1>4, <1>5, <1>6

\* A call of Ensure in progress keeps its user while others take such steps.
LEMMA OthersAge ==
  ASSUME IInv, IInv', UsersAge, \A s \in Scopes : NothingNewAt(s),
         \A w \in Workers : lock' = w => UNCHANGED <<pc[w], job[w], op, cache>>
  PROVE  UsersAge'
  <1>1. AgeOK'
    BY NothingNewAge
  <1> SUFFICES ASSUME NEW w \in Workers, pc'[w] \in EnsurePC
               PROVE  AgeAt(w)'
    BY <1>1 DEF UsersAge, AgeAt, EnsurePC
  <1>2. lock' = w
    BY DEF IInv, ControlOK, Procs
  <1>3. pc'[w] = pc[w] /\ job'[w] = job[w] /\ op' = op /\ cache' = cache
    BY <1>2
  <1>4. job[w] \in Scopes
    BY <1>3 DEF IInv, ControlOK, EnsurePC
  <1>5. AgeAt(w)
    BY DEF UsersAge
  <1>6. NoneYounger(job[w], op.uid) => NoneYounger(job[w], op.uid)'
    BY <1>3, <1>4 DEF NoneYounger, NothingNewAt
  <1> QED
    BY <1>3, <1>5, <1>6 DEF AgeAt, NoneYounger

\* A step of Ensure leaves no other call under way.
LEMMA OwnAge ==
  ASSUME IInv, IInv', NEW w \in Workers, lock' \in {w, None}, AgeOK',
         lock' = w => AgeAt(w)'
  PROVE  UsersAge'
  <1> SUFFICES ASSUME NEW q \in Workers, pc'[q] \in EnsurePC
               PROVE  AgeAt(q)'
    BY DEF UsersAge, AgeAt, EnsurePC
  <1>1. lock' = q
    BY DEF IInv, ControlOK, Procs
  <1> QED
    BY <1>1, ConstantsAssumption DEF Procs

-------------------------------------------------------------------------------
(* Calls of Ensure *)

\* How a step under the mutex ends for its worker.
LEMMA Continued ==
  ASSUME TypeOK, NEW w \in Workers, NEW l, NEW locals, Continue(w, l, locals)
  PROVE  pc'[w] = l /\ op' = locals /\ job' = job /\ lock' = w
  BY DEF Continue, Goto, TypeOK, Procs

LEMMA Served ==
  ASSUME TypeOK, NEW w \in Workers, NEW d \in Delegate, NEW locals \in Locals, Serve(w, d, locals)
  PROVE  \/ lock' = None
         \/ pc'[w] = "rotateKey" /\ op'.uid = d.user /\ job' = job /\ lock' = w
  <1> DEFINE m == [locals EXCEPT !.uid = d.user, !.hasOrg = d.hasOrg]
  <1>1. m.uid = d.user
    BY DEF Locals
  <1> HIDE DEF m
  <1>2. CASE Continue(w, "rotateKey", m)
    BY <1>1, <1>2, Continued
  <1>3. CASE HandOut(w, d)
    BY <1>3 DEF HandOut
  <1> QED
    BY <1>2, <1>3 DEF Serve, m

\* Calls outside the mutex, and errors.
LEMMA EnsureCallAge ==
  ASSUME IInv, IInv', UsersAge, NEW w \in Workers,
         EnsureError(w) \/ Done(w) \/ \E ns \in Namespaces : EnsureCall(w, ns)
  PROVE  UsersAge'
  <1>1. UNCHANGED <<user, keys, secret, informer, cache, list>>
    BY DEF EnsureCall, Done, EnsureError, zitadel, kubernetes, sweep
  <1>2. \A s \in Scopes : NothingNewAt(s)
    BY <1>1 DEF NothingNewAt, UsersAge, AgeOK
  <1>3. AgeOK'
    BY <1>2, NothingNewAge
  <1>4. CASE EnsureError(w)
    BY <1>3, <1>4, OwnAge, ConstantsAssumption DEF EnsureError, Return, Procs
  <1>5. CASE Done(w) \/ \E ns \in Namespaces : EnsureCall(w, ns)
    <2>1. /\ pc[w] \notin EnsurePC /\ pc'[w] \notin EnsurePC /\ UNCHANGED <<op, lock, cache>>
          /\ \A q \in Workers : q # w => pc'[q] = pc[q] /\ job'[q] = job[q]
      BY <1>5 DEF EnsureCall, Done, Goto, EnsurePC, IInv, TypeOK, Procs
    <2>2. CASE lock = w
      BY <1>3, <2>1, <2>2, OwnAge DEF AgeAt, EnsurePC
    <2>3. CASE lock # w
      BY <1>2, <2>1, <2>3, OthersAge
    <2> QED
      BY <2>2, <2>3
  <1> QED
    BY <1>4, <1>5

LEMMA EnsureLockAge ==
  ASSUME IInv, IInv', UsersAge, NEW w \in Workers, EnsureLock(w)
  PROVE  UsersAge'
  <1> DEFINE d == cache[job[w]]
  <1>1. TypeOK /\ job[w] \in Scopes /\ UNCHANGED <<user, keys, secret, informer, cache, list>>
    BY DEF EnsureLock, IInv, ControlOK, zitadel, kubernetes, sweep
  <1>2. \A s \in Scopes : NothingNewAt(s)
    BY <1>1 DEF NothingNewAt, UsersAge, AgeOK
  <1>3. AgeOK'
    BY <1>2, NothingNewAge
  <1>4. NoLocals \in Locals
    BY DEF NoLocals, Locals
  <1>5. CASE Continue(w, "warm", NoLocals) \/ Continue(w, "validate", NoLocals)
    <2>1. lock' = w /\ pc'[w] \in {"warm", "validate"}
      BY <1>1, <1>5, Continued
    <2> QED
      BY <1>3, <2>1, OwnAge DEF AgeAt
  <1>6. CASE d # None /\ Serve(w, d, NoLocals)
    <2>1. d \in Delegate
      BY <1>1, <1>6 DEF TypeOK
    <2>2. \/ lock' = None
          \/ pc'[w] = "rotateKey" /\ op'.uid = d.user /\ job' = job /\ lock' = w
      BY <1>1, <1>4, <1>6, <2>1, Served
    <2>3. lock' = w => AgeAt(w)'
      BY <1>1, <2>2, ConstantsAssumption DEF AgeAt, Procs
    <2> QED
      BY <1>3, <2>2, <2>3, OwnAge
  <1> QED
    BY <1>5, <1>6 DEF EnsureLock

LEMMA WarmLockedAge ==
  ASSUME IInv, IInv', UsersAge, NEW w \in Workers, WarmLocked(w)
  PROVE  UsersAge'
  <1> DEFINE s == job[w]
  <1>1. TypeOK /\ s \in Scopes /\ UNCHANGED <<user, keys, secret, informer, list>>
    BY DEF WarmLocked, IInv, ControlOK, EnsurePC, zitadel, kubernetes, sweep
  <1>2. /\ lock' = w /\ pc'[w] \in {"mintUser", "validate"}
        /\ \/ cache' = cache
           \/ informer[s] # None /\ cache' = [cache EXCEPT ![s] = FromSecret(informer[s])]
    BY <1>1, Continued DEF WarmLocked
  <1>3. \A q \in Scopes : NothingNewAt(q)
    BY <1>1, <1>2 DEF NothingNewAt, UsersAge, AgeOK, FromSecret, TypeOK
  <1> QED
    BY <1>2, <1>3, NothingNewAge, OwnAge DEF AgeAt

LEMMA ValidateLockedAge ==
  ASSUME IInv, IInv', UsersAge, NEW w \in Workers, ValidateLocked(w)
  PROVE  UsersAge'
  <1> DEFINE s == job[w]
             v == [cache[s] EXCEPT !.validated = TRUE]
  <1>1. TypeOK /\ s \in Scopes /\ UNCHANGED <<user, keys, secret, informer, list>>
        /\ cache[s] # None
    BY DEF ValidateLocked, IInv, ControlOK, EnsurePC, zitadel, kubernetes, sweep
  <1>2. v \in Delegate /\ v.user = cache[s].user /\ op \in Locals
    <2>1. cache[s] \in Delegate /\ op \in Locals
      BY <1>1 DEF TypeOK
    <2> QED
      BY <2>1 DEF Delegate
  <1> HIDE DEF v
  <1>3. \/ cache' = [cache EXCEPT ![s] = v] /\ Serve(w, v, op)
        \/ cache' = [cache EXCEPT ![s] = None] /\ Continue(w, "drop", op)
    BY DEF ValidateLocked, v
  <1>4. \A q \in Scopes : NothingNewAt(q)
    BY <1>1, <1>2, <1>3 DEF NothingNewAt, UsersAge, AgeOK, TypeOK
  <1>5. CASE cache' = [cache EXCEPT ![s] = v] /\ Serve(w, v, op)
    <2>1. \/ lock' = None
          \/ pc'[w] = "rotateKey" /\ op'.uid = v.user /\ job' = job /\ lock' = w
      BY <1>1, <1>2, <1>5, Served
    <2>2. cache'[s] = v
      BY <1>1, <1>5 DEF TypeOK
    <2>3. lock' = w => AgeAt(w)'
      BY <2>1, <2>2, ConstantsAssumption DEF AgeAt, Procs
    <2> QED
      BY <1>4, <2>1, <2>3, NothingNewAge, OwnAge
  <1>6. CASE Continue(w, "drop", op)
    <2>1. lock' = w /\ pc'[w] = "drop"
      BY <1>1, <1>6, Continued
    <2> QED
      BY <1>4, <2>1, NothingNewAge, OwnAge DEF AgeAt
  <1> QED
    BY <1>3, <1>5, <1>6

LEMMA DropSecretAge ==
  ASSUME IInv, IInv', UsersAge, NEW w \in Workers, DropSecret(w)
  PROVE  UsersAge'
  <1>1. TypeOK /\ job[w] \in Scopes /\ UNCHANGED <<user, keys, informer, cache, list>>
        /\ secret' = [secret EXCEPT ![job[w]] = None]
    BY DEF DropSecret, IInv, ControlOK, EnsurePC, zitadel, sweep
  <1>2. \A q \in Scopes : NothingNewAt(q)
    BY <1>1 DEF NothingNewAt, UsersAge, AgeOK, TypeOK
  <1>3. lock' = None \/ (lock' = w /\ pc'[w] \in {"mintUser", "warm"})
    BY <1>1, Continued DEF DropSecret, Return
  <1> QED
    BY <1>2, <1>3, NothingNewAge, OwnAge, ConstantsAssumption DEF AgeAt, Procs

\* The new user is younger than every copy of the Secret knows.
LEMMA MintUserAge ==
  ASSUME IInv, IInv', UsersAge, NEW w \in Workers, MintUser(w)
  PROVE  UsersAge'
  <1> DEFINE s == job[w]
             m == [NoLocals EXCEPT !.uid = user'[s]]
  <1>1. /\ TypeOK /\ FreshOK /\ s \in Scopes
        /\ UNCHANGED <<keys, secret, informer, cache, list>>
    BY DEF MintUser, IInv, ControlOK, EnsurePC, kubernetes, sweep
  <1>2. nextUser \in Nat \ {0} /\ NoneYounger(s, nextUser)
    BY <1>1 DEF TypeOK, FreshOK, Known, NoneYounger, Secret, Delegate
  <1>3. /\ user'[s] # 0 /\ NoneYounger(s, user'[s])
        /\ \A q \in Scopes : q # s => user'[q] = user[q]
    <2>1. CASE user[s] # 0
      BY <1>1, <2>1 DEF MintUser, UsersAge, AgeOK
    <2>2. CASE user[s] = 0
      <3>1. user' = [user EXCEPT ![s] = nextUser]
        BY <2>2 DEF MintUser
      <3>2. user'[s] = nextUser /\ \A q \in Scopes : q # s => user'[q] = user[q]
        BY <1>1, <3>1 DEF TypeOK
      <3> QED
        BY <1>1, <1>2, <3>2
    <2> QED
      BY <2>1, <2>2
  <1>4. AgeOK'
    BY <1>1, <1>3 DEF UsersAge, AgeOK, NoneYounger
  <1>5. lock' = None \/ Continue(w, AfterUser(s), m)
    BY DEF MintUser, Return
  <1>6. m.uid = user'[s]
    BY DEF NoLocals
  <1> HIDE DEF m
  <1>7. lock' = w => AgeAt(w)'
    <2>1. CASE Continue(w, AfterUser(s), m)
      <3>1. pc'[w] = AfterUser(s) /\ op' = m /\ job' = job
        BY <1>1, <2>1, Continued
      <3> QED
        BY <1>1, <1>3, <1>6, <3>1 DEF AgeAt, AfterUser, NoneYounger
    <2> QED
      BY <1>5, <2>1, ConstantsAssumption DEF Procs
  <1> QED
    BY <1>1, <1>4, <1>5, <1>7, Continued, OwnAge

\* The calls between the user and the key.
LEMMA MintGrantAge ==
  ASSUME IInv, IInv', UsersAge, NEW w \in Workers, MintProject(w) \/ MintGrant(w)
  PROVE  UsersAge'
  <1> DEFINE s == job[w]
  <1>1. TypeOK /\ s \in Scopes /\ UNCHANGED <<user, keys, secret, informer, cache, list>>
        /\ NoneYounger(s, op.uid)
    BY DEF MintProject, MintGrant, IInv, ControlOK, EnsurePC, kubernetes, sweep, UsersAge, AgeAt
  <1>2. \A q \in Scopes : NothingNewAt(q)
    BY <1>1 DEF NothingNewAt, UsersAge, AgeOK
  <1>3. \/ lock' = None
        \/ lock' = w /\ pc'[w] \in {"mintGrant", "mintKey"} /\ op' = op /\ job' = job
    BY <1>1, Continued DEF MintProject, MintGrant, Return
  <1>4. lock' = w => AgeAt(w)'
    BY <1>1, <1>3, ConstantsAssumption DEF AgeAt, NoneYounger, Procs
  <1> QED
    BY <1>2, <1>3, <1>4, NothingNewAge, OwnAge

\* A key is added to a user that there is.
LEMMA AddKeyAge ==
  ASSUME IInv, IInv', UsersAge, NEW w \in Workers, MintKey(w) \/ RotateKey(w)
  PROVE  UsersAge'
  <1> DEFINE s == job[w]
             m == [op EXCEPT !.kid = nextKey]
  <1>1. /\ TypeOK /\ s \in Scopes /\ UNCHANGED <<user, secret, informer, cache, list>>
        /\ AgeAt(w) /\ op \in Locals /\ PendingAt(w)
    BY DEF MintKey, RotateKey, IInv, ControlOK, EnsurePC, kubernetes, sweep, UsersAge, TypeOK, PendingOK
  <1>2. keys' = keys \/ (user[s] # 0 /\ keys' = [keys EXCEPT ![s] = @ \cup {nextKey}])
    BY <1>1 DEF MintKey, RotateKey, AddKey, PendingAt
  <1>3. \A q \in Scopes : NothingNewAt(q)
    BY <1>1, <1>2 DEF NothingNewAt, UsersAge, AgeOK, TypeOK
  <1>4. m.uid = op.uid
    BY <1>1 DEF Locals
  <1> HIDE DEF m
  <1>5. \/ lock' = None
        \/ pc[w] = "mintKey" /\ Continue(w, "persist", m)
        \/ pc[w] = "rotateKey" /\ Continue(w, "rotateSwap", m)
    BY DEF MintKey, RotateKey, AddKey, Return, m
  <1>6. \/ lock' = None
        \/ /\ lock' = w /\ op' = m /\ job' = job
           /\ \/ pc[w] = "mintKey" /\ pc'[w] = "persist"
              \/ pc[w] = "rotateKey" /\ pc'[w] = "rotateSwap"
    BY <1>1, <1>5, Continued
  <1>7. lock' = w => AgeAt(w)'
    BY <1>1, <1>4, <1>6, ConstantsAssumption DEF AgeAt, NoneYounger, Procs
  <1> QED
    BY <1>3, <1>6, <1>7, NothingNewAge, OwnAge

\* The new Secret names the youngest user that any copy could name.
LEMMA PersistSecretAge ==
  ASSUME IInv, IInv', UsersAge, NEW w \in Workers, PersistSecret(w)
  PROVE  UsersAge'
  <1> DEFINE s == job[w]
             x == [user |-> op.uid, key |-> op.kid, created |-> now, old |-> 0, revokeAt |-> 0]
             d == [FromSecret(x) EXCEPT !.validated = TRUE]
  <1>1. /\ TypeOK /\ s \in Scopes /\ UNCHANGED <<user, keys, informer, list>>
        /\ NoneYounger(s, op.uid) /\ user[s] \in {0, op.uid} /\ op \in Locals
    BY DEF PersistSecret, IInv, ControlOK, EnsurePC, zitadel, sweep, UsersAge, AgeAt, PendingOK,
           PendingAt, TypeOK
  <1>2. lock' = None
    BY DEF PersistSecret, Return, HandOut
  <1>3. AgeOK'
    <2>1. CASE UNCHANGED <<secret, cache>>
      BY <1>1, <2>1 DEF UsersAge, AgeOK, NoneYounger
    <2>2. CASE secret[s] = None /\ secret' = [secret EXCEPT ![s] = x]
                 /\ (cache' = cache \/ cache' = [cache EXCEPT ![s] = d])
      <3>1. x.user = op.uid /\ d.user = op.uid /\ op.uid \in Nat
        BY <1>1 DEF FromSecret, Locals
      <3> HIDE DEF x, d
      <3>2. /\ secret'[s] = x /\ cache'[s] \in {cache[s], d}
            /\ \A q \in Scopes : q # s => secret'[q] = secret[q] /\ cache'[q] = cache[q]
        BY <1>1, <2>2 DEF TypeOK
      <3>3. \A t \in Scopes, u \in Nat : t = s /\ u = op.uid => NoneYounger(t, u)'
        BY <1>1, <3>1, <3>2 DEF NoneYounger
      <3>4. \A t \in Scopes : t = s =>
              /\ (user[t] = 0 => keys[t] = {})'
              /\ (user[t] # 0 => NoneYounger(t, user[t]))'
              /\ NoneYounger(t, secret[t].user)'
        BY <1>1, <3>1, <3>2, <3>3 DEF UsersAge, AgeOK, NoneYounger
      <3>5. \A t \in Scopes : t # s =>
              /\ (user[t] = 0 => keys[t] = {})'
              /\ (user[t] # 0 => NoneYounger(t, user[t]))'
              /\ (secret[t] # None => NoneYounger(t, secret[t].user))'
        BY <1>1, <3>2 DEF UsersAge, AgeOK, NoneYounger
      <3> QED
        BY <3>4, <3>5 DEF AgeOK
    <2> QED
      BY <2>1, <2>2 DEF PersistSecret
  <1> QED
    BY <1>2, <1>3, OwnAge, ConstantsAssumption DEF Procs

LEMMA RotateSwapAge ==
  ASSUME IInv, IInv', UsersAge, NEW w \in Workers, RotateSwap(w)
  PROVE  UsersAge'
  <1> DEFINE s == job[w]
             x == Rotated(secret[s], cache[s], op.kid)
             n == [user |-> cache[s].user, key |-> op.kid, created |-> now,
                   hasOrg |-> FALSE, validated |-> TRUE]
  <1>1. /\ TypeOK /\ s \in Scopes /\ UNCHANGED <<user, keys, informer, list>>
        /\ cache[s] # None
    BY DEF RotateSwap, IInv, ControlOK, EnsurePC, zitadel, sweep
  <1>2. lock' = None
    BY DEF RotateSwap, Return, HandOut
  <1>3. \A q \in Scopes : NothingNewAt(q)
    <2>1. CASE UNCHANGED <<secret, cache>>
      BY <1>1, <2>1 DEF NothingNewAt, UsersAge, AgeOK
    <2>2. CASE secret[s] # None /\ secret' = [secret EXCEPT ![s] = x]
                 /\ (cache' = cache \/ cache' = [cache EXCEPT ![s] = n])
      <3>1. secret[s] \in Secret
        BY <1>1, <2>2 DEF TypeOK
      <3>2. x.user = secret[s].user /\ n.user = cache[s].user
        BY <3>1 DEF Rotated, Secret
      <3> HIDE DEF x, n
      <3> QED
        BY <1>1, <2>2, <3>2 DEF NothingNewAt, UsersAge, AgeOK, TypeOK
    <2> QED
      BY <2>1, <2>2 DEF RotateSwap
  <1> QED
    BY <1>2, <1>3, NothingNewAge, OwnAge, ConstantsAssumption DEF Procs

-------------------------------------------------------------------------------
(* Sweeps and surroundings *)

\* A sweep before it takes the mutex, or when it takes or leaves it.
LEMMA SweeperAge ==
  ASSUME IInv, IInv', UsersAge, NEW p \in Sweepers, SweeperStep(p)
  PROVE  UsersAge'
  <1>1. TypeOK /\ ControlOK
    BY DEF IInv
  <1>2. \A s \in Scopes : NothingNewAt(s)
    <2>1. CASE WarmList(p) \/ WarmDone(p) \/ SweepOnce(p) \/ SweepList(p) \/ SweepLock(p)
                 \/ SweepUnlock(p) \/ SweepError(p) \/ RevokeRead(p)
                 \/ (\E ns \in Namespaces : SweepResolve(p, ns)) \/ (\E s \in Scopes : SweepItem(p, s))
      <3>1. UNCHANGED <<user, keys, secret, informer, cache>>
        BY <2>1 DEF WarmList, WarmDone, SweepOnce, SweepList, SweepLock, SweepUnlock, SweepError,
           RevokeRead, SweepResolve, SweepItem, zitadel, kubernetes
      <3>2. \A q \in Sweepers, s \in Scopes : list'[q][s] \in {list[q][s], informer[s], None}
        BY <1>1, <2>1 DEF WarmList, WarmDone, SweepOnce, SweepList, SweepLock, SweepUnlock, SweepError,
           RevokeRead, SweepResolve, SweepItem, Rest, NothingListed, sweep, TypeOK
      <3> QED
        BY <3>1, <3>2 DEF NothingNewAt, UsersAge, AgeOK
    <2>2. CASE \E s \in Scopes : WarmItem(p, s)
      <3>1. PICK s \in Scopes : WarmItem(p, s)
        BY <2>2
      <3>2. /\ UNCHANGED <<user, keys, secret, informer, list>>
            /\ cache' = [cache EXCEPT ![s] = FromSecret(list[p][s])] /\ list[p][s] # None
        BY <1>1, <3>1 DEF WarmItem, zitadel, kubernetes, ControlOK
      <3> QED
        BY <1>1, <3>2 DEF NothingNewAt, UsersAge, AgeOK, TypeOK, FromSecret
    <2>3. CASE RevokeUser(p) \/ RemoveOldKey(p)
      <3>1. /\ UNCHANGED <<secret, informer, cache, list>> /\ job[p] \in Scopes
            /\ \/ RemoveUser(job[p])
               \/ UNCHANGED <<user, keys>>
               \/ user' = user /\ \A q \in Scopes : keys'[q] \subseteq keys[q]
        <4>1. CASE RevokeUser(p)
          BY <1>1, <4>1 DEF RevokeUser, kubernetes, sweep, ControlOK, SweepPC
        <4>2. CASE RemoveOldKey(p)
          BY <1>1, <4>2 DEF RemoveOldKey, kubernetes, sweep, ControlOK, SweepPC, TypeOK
        <4> QED
          BY <2>3, <4>1, <4>2
      <3> QED
        BY <1>1, <3>1 DEF NothingNewAt, UsersAge, AgeOK, TypeOK, RemoveUser
    <2>4. CASE RevokeSecret(p) \/ ClearMarkers(p)
      <3>1. /\ UNCHANGED <<user, keys, informer, list>> /\ job[p] \in Scopes
            /\ cache' = cache \/ cache' = [cache EXCEPT ![job[p]] = None]
        BY <1>1, <2>4 DEF RevokeSecret, ClearMarkers, zitadel, sweep, ControlOK, SweepPC
      <3>2. \A s \in Scopes : secret'[s] # None => secret[s] # None /\ secret'[s].user = secret[s].user
        <4>1. CASE secret' = secret \/ secret' = [secret EXCEPT ![job[p]] = None]
          BY <1>1, <4>1 DEF TypeOK
        <4>2. CASE ClearMarkers(p)
          <5> DEFINE x == list[p][job[p]]
                     y == [x EXCEPT !.old = 0, !.revokeAt = 0]
          <5>1. x \in Secret /\ x # None
            BY <1>1, <3>1, <4>2 DEF ClearMarkers, TypeOK, ControlOK
          <5>2. y.user = x.user
            BY <5>1 DEF Secret
          <5>3. secret' = secret \/ (secret[job[p]] = x /\ secret' = [secret EXCEPT ![job[p]] = y])
            BY <4>2 DEF ClearMarkers
          <5> HIDE DEF x, y
          <5> QED
            BY <1>1, <3>1, <5>1, <5>2, <5>3 DEF TypeOK
        <4> QED
          BY <2>4, <4>1, <4>2 DEF RevokeSecret
      <3> QED
        BY <1>1, <3>1, <3>2 DEF NothingNewAt, UsersAge, AgeOK, TypeOK
    <2> QED
      BY <2>1, <2>2, <2>3, <2>4 DEF SweeperStep
  <1>3. \A w \in Workers : lock' = w => UNCHANGED <<pc[w], job[w], op, cache>>
    BY SweeperMoves, ConstantsAssumption DEF Procs
  <1> QED
    BY <1>2, <1>3, OthersAge

LEMMA SurroundingsAge ==
  ASSUME IInv, IInv', UsersAge, Surroundings
  PROVE  UsersAge'
  <1>1. TypeOK
    BY DEF IInv
  <1>2. \A s \in Scopes : NothingNewAt(s)
    <2>1. CASE Tick \/ Sync \/ \E ns \in Namespaces, s \in Scopes \cup {None} : MapsChange(ns, s)
      BY <2>1 DEF Tick, Sync, MapsChange, zitadel, kubernetes, sweep, NothingNewAt, UsersAge, AgeOK
    <2>2. CASE Crash
      BY <2>2 DEF Crash, zitadel, NothingListed, NothingNewAt, UsersAge, AgeOK
    <2>3. CASE \E s \in Scopes : InformerCatchesUp(s)
      BY <1>1, <2>3 DEF InformerCatchesUp, zitadel, sweep, NothingNewAt, UsersAge, AgeOK, TypeOK
    <2>4. CASE \E s \in Scopes : UserDeletedOutOfBand(s)
      BY <1>1, <2>4 DEF UserDeletedOutOfBand, RemoveUser, kubernetes, sweep, NothingNewAt, UsersAge, AgeOK, TypeOK
    <2>5. CASE \E s \in Scopes : SecretDeletedOutOfBand(s)
      BY <1>1, <2>5 DEF SecretDeletedOutOfBand, zitadel, sweep, NothingNewAt, UsersAge, AgeOK, TypeOK
    <2> QED
      BY <2>1, <2>2, <2>3, <2>4, <2>5 DEF Surroundings
  <1>3. \A w \in Workers : lock' = w => UNCHANGED <<pc[w], job[w], op, cache>>
    BY ConstantsAssumption DEF Surroundings, Tick, Sync, MapsChange, Crash, InformerCatchesUp,
       UserDeletedOutOfBand, SecretDeletedOutOfBand, Procs
  <1> QED
    BY <1>2, <1>3, OthersAge

\* The machine users of a scope come one after the other, in every reachable state.
LEMMA AgeInductive == Spec => [](IInv /\ UsersAge)
  <1>1. Init => UsersAge
    <2> SUFFICES ASSUME Init
                 PROVE  UsersAge
      OBVIOUS
    <2>1. \A w \in Workers : pc[w] = "idle"
      BY ConstantsAssumption DEF Init, Started, Procs
    <2> QED
      BY <2>1 DEF Init, FreshStart, NothingListed, UsersAge, AgeOK, AgeAt, NoneYounger
  <1>2. IInv /\ UsersAge /\ [Next]_vars => (IInv /\ UsersAge)'
    <2> SUFFICES ASSUME IInv, UsersAge, [Next]_vars
                 PROVE  IInv' /\ UsersAge'
      OBVIOUS
    <2>1. IInv'
      BY NextIInv
    <2>2. CASE UNCHANGED vars
      <3>1. UNCHANGED <<user, keys, secret, informer, cache, list, pc, job, op>>
        BY <2>2 DEF vars, zitadel, kubernetes, sweep
      <3>2. IInv'
        BY <2>1
      <3>3. AgeOK'
        BY <3>1 DEF UsersAge, AgeOK, NoneYounger
      <3>4. ASSUME NEW w \in Workers
            PROVE  AgeAt(w)'
        BY <3>1 DEF UsersAge, AgeAt, NoneYounger
      <3> QED
        BY <3>2, <3>3, <3>4 DEF UsersAge
    <2>3. CASE \E w \in Workers : WorkerStep(w)
      <3>1. PICK w \in Workers : WorkerStep(w)
        BY <2>3
      <3>2. CASE EnsureStep(w)
        BY <2>1, <3>2, EnsureLockAge, WarmLockedAge, ValidateLockedAge, DropSecretAge, MintUserAge,
           MintGrantAge, AddKeyAge, PersistSecretAge, RotateSwapAge DEF EnsureStep
      <3> QED
        BY <2>1, <3>1, <3>2, EnsureCallAge DEF WorkerStep
    <2>4. CASE \E p \in Sweepers : SweeperStep(p)
      BY <2>1, <2>4, SweeperAge
    <2>5. CASE Surroundings
      BY <2>1, <2>5, SurroundingsAge
    <2> QED
      BY <2>1, <2>2, <2>3, <2>4, <2>5 DEF Next
  <1> QED
    BY <1>1, <1>2, InitIInv, PTL DEF Spec

-------------------------------------------------------------------------------
(* Every step is a step of KeyHandover, or none *)

\* A step that leaves the users, the keys and the Secrets alone is none.
LEMMA NoHandoverStep ==
  ASSUME NEW s \in Scopes, user'[s] = user[s], keys'[s] = keys[s], secret'[s] = secret[s]
  PROVE  [Key(s)!Next]_(Key(s)!vars)
  BY DEF Key!vars

\* So is one that changes another scope's.
OnlyAt(s) ==
  \A q \in Scopes : q # s => user'[q] = user[q] /\ keys'[q] = keys[q] /\ secret'[q] = secret[q]
LEMMA OneScope ==
  ASSUME NEW s \in Scopes, OnlyAt(s), [Key(s)!Next]_(Key(s)!vars)
  PROVE  \A q \in Scopes : [Key(q)!Next]_(Key(q)!vars)
  <1> SUFFICES ASSUME NEW q \in Scopes
               PROVE  [Key(q)!Next]_(Key(q)!vars)
    OBVIOUS
  <1>1. CASE q = s
    BY <1>1
  <1>2. CASE q # s
    BY <1>2, NoHandoverStep DEF OnlyAt
  <1> QED
    BY <1>1, <1>2

\* The Secret goes, or its user with all its keys.
LEMMA WithdrawStep ==
  ASSUME NEW s \in Scopes, secret'[s] = None, keys'[s] = keys[s]
  PROVE  Key(s)!Next
  BY DEF Key!Next, Key!Withdraw

LEMMA LoseOwnerStep ==
  ASSUME IInv, IInv', NEW s \in Scopes, user'[s] = 0, keys'[s] = {}, secret'[s] = secret[s]
  PROVE  Key(s)!Next
  <1>1. secret'[s] # None => secret'[s].user # 0
    BY DEF IInv, FreshOK, Known
  <1> QED
    BY <1>1 DEF Key!Next, Key!LoseOwner

\* Ensure's mint draws a user that no Secret names.
LEMMA MintUserHandover ==
  ASSUME IInv, NEW w \in Workers, MintUser(w)
  PROVE  \A q \in Scopes : [Key(q)!Next]_(Key(q)!vars)
  <1> DEFINE s == job[w]
  <1>1. TypeOK /\ FreshOK /\ s \in Scopes /\ UNCHANGED <<keys, secret>>
        /\ (user' = user \/ (user[s] = 0 /\ user' = [user EXCEPT ![s] = nextUser]))
    BY DEF MintUser, IInv, ControlOK, EnsurePC, kubernetes
  <1>2. \A q \in Scopes : user'[q] = user[q] \/ (user[q] = 0 /\ user'[q] = nextUser)
    BY <1>1 DEF TypeOK
  <1>3. \A q \in Scopes : secret[q] # None => secret[q].user # 0 /\ secret[q].user # nextUser
    BY <1>1 DEF FreshOK, Known, TypeOK, Secret
  <1> SUFFICES ASSUME NEW q \in Scopes
               PROVE  UNCHANGED Key(q)!vars
    OBVIOUS
  <1> QED
    BY <1>1, <1>2, <1>3 DEF Key!vars

\* A key is new to the user that it is added to.
LEMMA AddKeyHandover ==
  ASSUME IInv, NEW w \in Workers, MintKey(w) \/ RotateKey(w)
  PROVE  \A q \in Scopes : [Key(q)!Next]_(Key(q)!vars)
  <1> DEFINE s == job[w]
  <1>1. TypeOK /\ FreshOK /\ s \in Scopes /\ UNCHANGED <<user, secret>>
        /\ (keys' = keys \/ keys' = [keys EXCEPT ![s] = @ \cup {nextKey}])
    BY DEF MintKey, RotateKey, AddKey, IInv, ControlOK, EnsurePC, kubernetes
  <1>2. CASE keys' = keys
    BY <1>1, <1>2, NoHandoverStep
  <1>3. CASE keys' = [keys EXCEPT ![s] = @ \cup {nextKey}]
    <2>1. keys'[s] = keys[s] \cup {nextKey} /\ \A q \in Scopes : q # s => keys'[q] = keys[q]
      BY <1>1, <1>3 DEF TypeOK
    <2>2. nextKey \notin keys[s] /\ nextKey \in Nat \ {0} /\ (secret[s] # None => secret[s].key # nextKey)
      BY <1>1 DEF TypeOK, FreshOK, Known, Secret
    <2>3. \A t \in Scopes : t = s => Key(t)!Next
      BY <1>1, <2>1, <2>2 DEF Key!Next, Key!Issue
    <2>4. \A t \in Scopes : t = s => OnlyAt(t)
      BY <1>1, <2>1 DEF OnlyAt
    <2> QED
      BY <1>1, <2>3, <2>4, OneScope
  <1> QED
    BY <1>1, <1>2, <1>3

\* The Secret hands out a key of the user that it names, or that user is gone.
LEMMA HandStep ==
  ASSUME NEW s \in Scopes, NEW k \in Nat \ {0}, NEW u \in Nat \ {0}, NEW x \in Secret,
         user'[s] = user[s], keys'[s] = keys[s], secret'[s] = x, x.key = k, x.user = u,
         user[s] \in {0, u}, user[s] = u => k \in keys[s], user[s] = 0 => keys[s] = {}
  PROVE  Key(s)!Next
  <1>1. x # None
    BY ConstantsAssumption
  <1>2. CASE user[s] = u
    BY <1>1, <1>2 DEF Key!Next, Key!Hand
  <1>3. CASE user[s] = 0
    BY <1>1, <1>3 DEF Key!Next, Key!HandTooLate
  <1> QED
    BY <1>2, <1>3

LEMMA PersistSecretHandover ==
  ASSUME IInv, UsersAge, NEW w \in Workers, PersistSecret(w)
  PROVE  \A q \in Scopes : [Key(q)!Next]_(Key(q)!vars)
  <1> DEFINE s == job[w]
             x == [user |-> op.uid, key |-> op.kid, created |-> now, old |-> 0, revokeAt |-> 0]
  <1>1. /\ TypeOK /\ s \in Scopes /\ UNCHANGED <<user, keys>> /\ PendingAt(w)
        /\ (secret' = secret \/ secret' = [secret EXCEPT ![s] = x])
    BY DEF PersistSecret, IInv, ControlOK, EnsurePC, zitadel, PendingOK
  <1>2. CASE secret' = secret
    BY <1>1, <1>2, NoHandoverStep
  <1>3. CASE secret' = [secret EXCEPT ![s] = x]
    <2>1. op.uid \in Nat \ {0} /\ op.kid \in Nat \ {0} /\ user[s] \in {0, op.uid}
          /\ (user[s] = op.uid => op.kid \in keys[s]) /\ (user[s] = 0 => keys[s] = {})
      BY <1>1 DEF PersistSecret, PendingAt, TypeOK, Locals, UsersAge, AgeOK
    <2>2. x \in Secret /\ x.user = op.uid /\ x.key = op.kid
      BY <1>1, <2>1 DEF Secret, TypeOK
    <2> HIDE DEF x
    <2>3. secret'[s] = x /\ \A q \in Scopes : q # s => secret'[q] = secret[q]
      BY <1>1, <1>3 DEF TypeOK
    <2>4. \A t \in Scopes : t = s => Key(t)!Next
      BY <1>1, <2>1, <2>2, <2>3, HandStep
    <2>5. \A t \in Scopes : t = s => OnlyAt(t)
      BY <1>1, <2>3 DEF OnlyAt
    <2> QED
      BY <1>1, <2>4, <2>5, OneScope
  <1> QED
    BY <1>1, <1>2, <1>3

\* The rotation's Update finds a Secret of the user it added the key to, unless that user
\* is gone: the copy it replaces is no older than the cached delegate.
LEMMA RotateSwapHandover ==
  ASSUME IInv, UsersAge, NEW w \in Workers, RotateSwap(w)
  PROVE  \A q \in Scopes : [Key(q)!Next]_(Key(q)!vars)
  <1> DEFINE s == job[w]
             x == Rotated(secret[s], cache[s], op.kid)
  <1>1. /\ TypeOK /\ FreshOK /\ s \in Scopes /\ UNCHANGED <<user, keys>> /\ PendingAt(w) /\ AgeAt(w)
        /\ (secret' = secret \/ (secret[s] # None /\ secret' = [secret EXCEPT ![s] = x]))
        /\ cache[s] # None
    BY DEF RotateSwap, IInv, ControlOK, EnsurePC, zitadel, PendingOK, UsersAge
  <1>2. CASE secret' = secret
    BY <1>1, <1>2, NoHandoverStep
  <1>3. CASE secret[s] # None /\ secret' = [secret EXCEPT ![s] = x]
    <2>1. secret[s] \in Secret /\ cache[s] \in Delegate /\ now \in Nat /\ op \in Locals
      BY <1>1, <1>3 DEF TypeOK
    <2>2. x \in Secret /\ x.user = secret[s].user /\ x.key = op.kid
      <3>1. op.kid \in Nat /\ cache[s].key \in Nat /\ now + Grace \in Nat
        BY <2>1, ConstantsAssumption DEF Locals, Delegate
      <3> QED
        BY <2>1, <3>1 DEF Rotated, Secret
    <2>3. op.kid \in Nat \ {0} /\ user[s] \in {0, op.uid} /\ op.uid = cache[s].user
          /\ (user[s] = op.uid => op.kid \in keys[s]) /\ (user[s] = 0 => keys[s] = {})
      BY <1>1, <2>1 DEF RotateSwap, PendingAt, AgeAt, Locals, UsersAge, AgeOK
    <2>4. user[s] # 0 => cache[s].user <= secret[s].user /\ secret[s].user <= user[s]
      BY <1>1, <1>3 DEF UsersAge, AgeOK, NoneYounger
    <2>5. secret[s].user \in Nat \ {0} /\ user[s] \in Nat /\ cache[s].user \in Nat
      BY <1>1, <1>3, <2>1 DEF FreshOK, Known, Secret, Delegate, TypeOK
    <2>6. user[s] \in {0, secret[s].user} /\ (user[s] = secret[s].user => op.kid \in keys[s])
      BY <2>3, <2>4, <2>5
    <2> HIDE DEF x
    <2>7. secret'[s] = x /\ \A q \in Scopes : q # s => secret'[q] = secret[q]
      BY <1>1, <1>3 DEF TypeOK
    <2>8. \A t \in Scopes : t = s => Key(t)!Next
      BY <1>1, <2>2, <2>3, <2>5, <2>6, <2>7, HandStep
    <2>9. \A t \in Scopes : t = s => OnlyAt(t)
      BY <1>1, <2>7 DEF OnlyAt
    <2> QED
      BY <1>1, <2>8, <2>9, OneScope
  <1> QED
    BY <1>1, <1>2, <1>3

\* What a sweep does to users, keys and Secrets.
LEMMA RevokeUserHandover ==
  ASSUME IInv, IInv', NEW p \in Sweepers, RevokeUser(p)
  PROVE  \A q \in Scopes : [Key(q)!Next]_(Key(q)!vars)
  <1> DEFINE s == job[p]
  <1>1. TypeOK /\ s \in Scopes /\ UNCHANGED secret /\ (RemoveUser(s) \/ UNCHANGED <<user, keys>>)
    BY DEF RevokeUser, IInv, ControlOK, SweepPC, kubernetes
  <1>2. CASE UNCHANGED <<user, keys>>
    BY <1>1, <1>2, NoHandoverStep
  <1>3. CASE RemoveUser(s)
    <2>1. user'[s] = 0 /\ keys'[s] = {}
          /\ \A q \in Scopes : q # s => user'[q] = user[q] /\ keys'[q] = keys[q]
      BY <1>1, <1>3 DEF RemoveUser, TypeOK
    <2>2. \A t \in Scopes : t = s => Key(t)!Next /\ OnlyAt(t)
      BY <1>1, <2>1, LoseOwnerStep DEF OnlyAt
    <2> QED
      BY <1>1, <2>2, OneScope
  <1> QED
    BY <1>1, <1>2, <1>3

LEMMA DeletionHandover ==
  ASSUME IInv, IInv', NEW s \in Scopes, UserDeletedOutOfBand(s) \/ SecretDeletedOutOfBand(s)
  PROVE  \A q \in Scopes : [Key(q)!Next]_(Key(q)!vars)
  <1>1. TypeOK
    BY DEF IInv
  <1>2. CASE UserDeletedOutOfBand(s)
    <2>1. user'[s] = 0 /\ keys'[s] = {} /\ secret' = secret /\ OnlyAt(s)
      BY <1>1, <1>2 DEF UserDeletedOutOfBand, RemoveUser, kubernetes, TypeOK, OnlyAt
    <2> QED
      BY <2>1, LoseOwnerStep, OneScope
  <1>3. CASE SecretDeletedOutOfBand(s)
    <2>1. secret'[s] = None /\ keys' = keys /\ OnlyAt(s)
      BY <1>1, <1>3 DEF SecretDeletedOutOfBand, zitadel, TypeOK, OnlyAt
    <2> QED
      BY <2>1, WithdrawStep, OneScope
  <1> QED
    BY <1>2, <1>3

\* A Secret that is dropped, revoked, or rid of its markers.
LEMMA DropSecretHandover ==
  ASSUME IInv, NEW s \in Scopes, UNCHANGED <<user, keys>>,
         secret' = secret \/ secret' = [secret EXCEPT ![s] = None]
  PROVE  \A q \in Scopes : [Key(q)!Next]_(Key(q)!vars)
  <1>1. CASE secret' = secret
    BY <1>1, NoHandoverStep
  <1>2. CASE secret' = [secret EXCEPT ![s] = None]
    <2>1. secret'[s] = None /\ keys' = keys /\ OnlyAt(s)
      BY <1>2 DEF IInv, TypeOK, OnlyAt
    <2> QED
      BY <2>1, WithdrawStep, OneScope
  <1> QED
    BY <1>1, <1>2

LEMMA ClearMarkersHandover ==
  ASSUME IInv, NEW p \in Sweepers, ClearMarkers(p)
  PROVE  \A q \in Scopes : [Key(q)!Next]_(Key(q)!vars)
  <1> DEFINE s == job[p]
             x == list[p][s]
             y == [x EXCEPT !.old = 0, !.revokeAt = 0]
  <1>1. /\ TypeOK /\ s \in Scopes /\ x # None /\ UNCHANGED <<user, keys>>
        /\ secret' = secret \/ (secret[s] = x /\ secret' = [secret EXCEPT ![s] = y])
    BY DEF ClearMarkers, IInv, ControlOK, SweepPC, zitadel
  <1>2. CASE secret' = secret
    BY <1>1, <1>2, NoHandoverStep
  <1>3. CASE secret[s] = x /\ secret' = [secret EXCEPT ![s] = y]
    <2>1. x \in Secret
      BY <1>1 DEF TypeOK
    <2>2. y \in Secret /\ y.user = x.user /\ y.key = x.key
      BY <2>1 DEF Secret
    <2>3. y # None
      BY <2>2, ConstantsAssumption
    <2> HIDE DEF x, y
    <2>4. secret'[s] = y /\ \A q \in Scopes : q # s => secret'[q] = secret[q]
      BY <1>1, <1>3 DEF TypeOK
    <2>5. \A t \in Scopes : t = s => UNCHANGED Key(t)!vars
      BY <1>1, <1>3, <2>2, <2>3, <2>4 DEF Key!vars
    <2>6. \A t \in Scopes : t = s => OnlyAt(t)
      BY <1>1, <2>4 DEF OnlyAt
    <2> QED
      BY <1>1, <2>5, <2>6, OneScope
  <1> QED
    BY <1>1, <1>2, <1>3

\* A sweep removes no key that the Secret hands out.
LEMMA RemoveOldKeyHandover ==
  ASSUME IInv, NEW p \in Sweepers, RemoveOldKey(p)
  PROVE  \A q \in Scopes : [Key(q)!Next]_(Key(q)!vars)
  <1> DEFINE s == job[p]
             k == list[p][s].old
  <1>1. /\ TypeOK /\ s \in Scopes /\ list[p][s] # None /\ UNCHANGED <<user, secret>>
        /\ (secret[s] # None => secret[s].key # k)
    BY DEF RemoveOldKey, IInv, ControlOK, SweepPC, kubernetes, OldNotCurrent, NowhereOld
  <1>2. /\ keys'[s] = keys[s] \/ keys'[s] = keys[s] \ {k}
        /\ \A q \in Scopes : q # s => keys'[q] = keys[q]
    BY <1>1 DEF RemoveOldKey, TypeOK
  <1> HIDE DEF k
  <1>3. \A t \in Scopes : t = s => [Key(t)!Next]_(Key(t)!vars)
    <2>1. CASE keys'[s] = keys[s]
      BY <1>1, <2>1, NoHandoverStep
    <2>2. CASE keys'[s] = keys[s] \ {k} /\ k \in keys[s]
      BY <1>1, <2>2 DEF Key!Next, Key!Retire
    <2> QED
      BY <1>2, <2>1, <2>2
  <1>4. \A t \in Scopes : t = s => OnlyAt(t)
    BY <1>1, <1>2 DEF OnlyAt
  <1> QED
    BY <1>1, <1>3, <1>4, OneScope

-------------------------------------------------------------------------------
(* The theorem *)

\* Every step of the operator and its surroundings is, for each scope, a step of
\* KeyHandover or none.
LEMMA HandoverStep ==
  ASSUME IInv, IInv', UsersAge, [Next]_vars
  PROVE  \A s \in Scopes : [Key(s)!Next]_(Key(s)!vars)
  <1>1. CASE UNCHANGED <<user, keys, secret>>
    BY <1>1, NoHandoverStep
  <1>2. CASE \E w \in Workers : WorkerStep(w)
    <2>1. PICK w \in Workers : WorkerStep(w)
      BY <1>2
    <2>2. CASE DropSecret(w)
      <3>1. job[w] \in Scopes /\ UNCHANGED <<user, keys>> /\ secret' = [secret EXCEPT ![job[w]] = None]
        BY <2>2 DEF DropSecret, IInv, ControlOK, EnsurePC, zitadel
      <3> QED
        BY <3>1, DropSecretHandover
    <2>3. CASE MintUser(w) \/ MintKey(w) \/ RotateKey(w) \/ PersistSecret(w) \/ RotateSwap(w)
      BY <2>3, MintUserHandover, AddKeyHandover, PersistSecretHandover, RotateSwapHandover
    <2>4. CASE \/ \E ns \in Namespaces : EnsureCall(w, ns)
               \/ EnsureError(w) \/ Done(w) \/ EnsureLock(w) \/ WarmLocked(w) \/ ValidateLocked(w)
               \/ MintProject(w) \/ MintGrant(w)
      <3>1. UNCHANGED <<user, keys, secret>>
        BY <2>4 DEF EnsureCall, EnsureError, Done, EnsureLock, WarmLocked, ValidateLocked, MintProject,
           MintGrant, zitadel, kubernetes
      <3> QED
        BY <1>1, <3>1
    <2> QED
      BY <2>1, <2>2, <2>3, <2>4 DEF WorkerStep, EnsureStep
  <1>3. CASE \E p \in Sweepers : SweeperStep(p)
    <2>1. PICK p \in Sweepers : SweeperStep(p)
      BY <1>3
    <2>2. CASE RevokeSecret(p)
      <3>1. job[p] \in Scopes /\ UNCHANGED <<user, keys>>
            /\ (secret' = secret \/ secret' = [secret EXCEPT ![job[p]] = None])
        BY <2>2 DEF RevokeSecret, IInv, ControlOK, SweepPC, zitadel
      <3> QED
        BY <3>1, DropSecretHandover
    <2>3. CASE RevokeUser(p) \/ RemoveOldKey(p) \/ ClearMarkers(p)
      BY <2>3, RevokeUserHandover, RemoveOldKeyHandover, ClearMarkersHandover
    <2>4. CASE \/ WarmList(p) \/ WarmDone(p) \/ (\E s \in Scopes : WarmItem(p, s)) \/ SweepOnce(p)
               \/ (\E ns \in Namespaces : SweepResolve(p, ns)) \/ SweepList(p) \/ SweepLock(p)
               \/ SweepUnlock(p) \/ (\E s \in Scopes : SweepItem(p, s)) \/ SweepError(p) \/ RevokeRead(p)
      <3>1. UNCHANGED <<user, keys, secret>>
        BY <2>4 DEF WarmList, WarmDone, WarmItem, SweepOnce, SweepResolve, SweepList, SweepLock, SweepUnlock,
           SweepItem, SweepError, RevokeRead, zitadel, kubernetes
      <3> QED
        BY <1>1, <3>1
    <2> QED
      BY <2>1, <2>2, <2>3, <2>4 DEF SweeperStep
  <1>4. CASE Surroundings
    <2>1. CASE \E s \in Scopes : UserDeletedOutOfBand(s) \/ SecretDeletedOutOfBand(s)
      BY <2>1, DeletionHandover
    <2>2. CASE \/ Tick \/ Sync \/ Crash \/ \E s \in Scopes : InformerCatchesUp(s)
               \/ \E ns \in Namespaces, s \in Scopes \cup {None} : MapsChange(ns, s)
      <3>1. UNCHANGED <<user, keys, secret>>
        BY <2>2 DEF Tick, Sync, Crash, InformerCatchesUp, MapsChange, zitadel, kubernetes
      <3> QED
        BY <1>1, <3>1
    <2> QED
      BY <1>4, <2>1, <2>2 DEF Surroundings
  <1>5. CASE UNCHANGED vars
    BY <1>1, <1>5 DEF vars, zitadel, kubernetes
  <1> QED
    BY <1>2, <1>3, <1>4, <1>5 DEF Next

\* The delegation Secret of every scope hands out the keys of its machine user as
\* KeyHandover has it, whatever fails, is deleted or dies, and however stale the
\* copies are that the operator works on.
THEOREM Implements == Spec => Handover
  <1>1. Init => \A s \in Scopes : Key(s)!Init
    BY DEF Init, FreshStart, NothingListed, Key!Init
  <1>2. IInv /\ UsersAge /\ IInv' /\ [Next]_vars
          => [\A s \in Scopes : [Key(s)!Next]_(Key(s)!vars)]_vars
    BY HandoverStep
  <1> QED
    BY <1>1, <1>2, AgeInductive, PTL DEF Spec, Handover

\* What a scope's Secret hands out stays valid as long as its user is there: this is what
\* KeyHandover promises to whoever implements it, as Delegation does.
THEOREM HeldStaysValid ==
  ASSUME NEW s \in Scopes
  PROVE  Key(s)!Init /\ [][Key(s)!Next]_(Key(s)!vars) => [](Key(s)!TypeOK /\ Key(s)!HeldIsValid)
  <1> DEFINE Held == Key(s)!TypeOK /\ Key(s)!HeldIsValid
  <1>1. Key(s)!Init => Held
    BY DEF Key!Init, Key!TypeOK, Key!HeldIsValid
  <1>2. Held /\ [Key(s)!Next]_(Key(s)!vars) => Held'
    <2> SUFFICES ASSUME Held, [Key(s)!Next]_(Key(s)!vars)
                 PROVE  Held'
      OBVIOUS
    <2>1. CASE Key(s)!Issue
      BY <2>1 DEF Key!Issue, Key!TypeOK, Key!HeldIsValid
    <2>2. CASE Key(s)!Hand
      BY <2>2 DEF Key!Hand, Key!TypeOK, Key!HeldIsValid
    <2>3. CASE Key(s)!HandTooLate
      BY <2>3 DEF Key!HandTooLate, Key!TypeOK, Key!HeldIsValid
    <2>4. CASE Key(s)!Retire
      BY <2>4 DEF Key!Retire, Key!TypeOK, Key!HeldIsValid
    <2>5. CASE Key(s)!LoseOwner \/ Key(s)!Withdraw
      BY <2>5 DEF Key!LoseOwner, Key!Withdraw, Key!TypeOK, Key!HeldIsValid
    <2>6. CASE UNCHANGED Key(s)!vars
      BY <2>6 DEF Key!vars, Key!TypeOK, Key!HeldIsValid
    <2> QED
      BY <2>1, <2>2, <2>3, <2>4, <2>5, <2>6 DEF Key!Next
  <1> QED
    BY <1>1, <1>2, PTL

-------------------------------------------------------------------------------
(* Users that were gone at the start *)

\* A step that draws no user, validates no delegate and leaves a call of Ensure where it is.
LEMMA DeadFrame ==
  ASSUME IInv, IInv', DeadInv, UNCHANGED <<nextUser, deadAtStart>>,
         \A s \in Scopes : user'[s] \in {user[s], 0},
         \A s \in Scopes : cache'[s] # None /\ cache'[s].validated => cache'[s] = cache[s],
         \A w \in Workers : got'[w] \in {got[w], None},
         \A w \in Workers : lock' = w /\ pc'[w] \in EnsurePC => UNCHANGED <<pc[w], job[w], op, cache>>
  PROVE  DeadInv'
  <1>1. (\A u \in deadAtStart : 0 < u /\ u < nextUser /\ \A s \in Scopes : user[s] # u)'
    BY DEF DeadInv
  <1>2. (\A s \in Scopes : cache[s] # None /\ cache[s].validated => cache[s].user \notin deadAtStart)'
    BY DEF DeadInv
  <1>3. ASSUME NEW w \in Workers, pc'[w] \in EnsurePC
        PROVE  UNCHANGED <<pc[w], job[w], op, cache>>
    BY <1>3 DEF IInv, ControlOK, Procs
  <1>4. NoDeadLease'
    BY DEF DeadInv, NoDeadLease
  <1> QED
    BY <1>1, <1>2, <1>3, <1>4 DEF DeadInv, EnsurePC

\* What a step of Ensure has to show.
DeadAt(w) ==
  /\ pc[w] \in {"mintProject", "mintGrant", "mintKey", "persist"} => op.uid \notin deadAtStart
  /\ pc[w] \in {"rotateKey", "rotateSwap"} => cache[job[w]].validated
LEMMA DeadOwn ==
  ASSUME IInv, IInv', DeadInv, NEW w \in Workers, EnsureStep(w), nextUser <= nextUser',
         \A s \in Scopes : user'[s] \in {user[s], 0, nextUser},
         \A s \in Scopes : s # job[w] => cache'[s] = cache[s],
         \A s \in Scopes : s = job[w] /\ cache'[s] # None /\ cache'[s].validated =>
           cache'[s].user \notin deadAtStart,
         lock' = w => DeadAt(w)',
         got'[w] # None => got'[w].user \notin deadAtStart
  PROVE  DeadInv'
  <1>1. lock' \in {w, None} /\ deadAtStart' = deadAtStart /\ \A q \in Workers : q # w => got'[q] = got[q]
    <2>1. lock = None \/ lock = w
      BY DEF EnsureStep, EnsureLock, WarmLocked, ValidateLocked, DropSecret, MintUser, MintProject,
         MintGrant, MintKey, PersistSecret, RotateKey, RotateSwap, EnsurePC, IInv, ControlOK, Procs
    <2> QED
      BY <2>1, WorkerMoves DEF WorkerStep
  <1>2. (\A u \in deadAtStart : 0 < u /\ u < nextUser /\ \A s \in Scopes : user[s] # u)'
    <2>1. nextUser \in Nat /\ nextUser' \in Nat /\ \A u \in deadAtStart : u \in Nat
      BY DEF IInv, TypeOK
    <2> QED
      BY <1>1, <2>1 DEF DeadInv
  <1>3. (\A s \in Scopes : cache[s] # None /\ cache[s].validated => cache[s].user \notin deadAtStart)'
    BY <1>1 DEF DeadInv
  <1>4. \A q \in Workers : DeadAt(q)'
    <2> SUFFICES ASSUME NEW q \in Workers, pc'[q] \in EnsurePC
                 PROVE  DeadAt(q)'
      BY DEF DeadAt, EnsurePC
    <2>1. lock' = q
      BY DEF IInv, ControlOK, Procs
    <2> QED
      BY <1>1, <2>1, ConstantsAssumption DEF Procs
  <1>5. NoDeadLease'
    BY <1>1 DEF DeadInv, NoDeadLease
  <1> QED
    BY <1>2, <1>3, <1>4, <1>5 DEF DeadInv, DeadAt

\* A validated delegate is handed out, or rotated.
LEMMA ServeDead ==
  ASSUME IInv, NEW w \in Workers, job[w] \in Scopes, NEW d \in Delegate, NEW locals \in Locals,
         Serve(w, d, locals), got[w] # None => got[w].user \notin deadAtStart,
         deadAtStart' = deadAtStart,
         d.user \notin deadAtStart, d.validated, cache'[job[w]] = d
  PROVE  (lock' = w => DeadAt(w)') /\ (got'[w] # None => got'[w].user \notin deadAtStart)
  <1>1. TypeOK
    BY DEF IInv
  <1>2. CASE ~Due(d)
    <2>1. lock' = None /\ got'[w] = [user |-> d.user, key |-> d.key, at |-> now]
      BY <1>1, <1>2 DEF Serve, HandOut, TypeOK
    <2> QED
      BY <2>1, ConstantsAssumption DEF Procs
  <1>3. CASE Due(d)
    <2>1. pc'[w] = "rotateKey" /\ job' = job /\ got' = got
      BY <1>1, <1>3 DEF Serve, Continue, Goto, TypeOK, Procs
    <2> QED
      BY <2>1 DEF DeadAt
  <1> QED
    BY <1>2, <1>3

LEMMA EnsureDead ==
  ASSUME IInv, IInv', DeadInv, NEW w \in Workers, EnsureStep(w)
  PROVE  DeadInv'
  <1> DEFINE s == job[w]
  <1>1. TypeOK /\ s \in Scopes /\ (got[w] # None => got[w].user \notin deadAtStart) /\ op \in Locals
    <2>1. pc[w] \in {"ensure"} \cup EnsurePC
      BY DEF EnsureStep, EnsureLock, WarmLocked, ValidateLocked, DropSecret, MintUser, MintProject,
         MintGrant, MintKey, PersistSecret, RotateKey, RotateSwap, EnsurePC
    <2> QED
      BY <2>1 DEF IInv, ControlOK, EnsurePC, DeadInv, NoDeadLease, TypeOK
  <1>2. deadAtStart' = deadAtStart /\ nextUser \in Nat
    BY <1>1, WorkerMoves DEF WorkerStep, TypeOK
  <1>3. CASE EnsureLock(w)
    <2>1. UNCHANGED <<user, nextUser, cache>>
      BY <1>3 DEF EnsureLock, zitadel
    <2>2. CASE cache[s] # None /\ cache[s].validated /\ Serve(w, cache[s], NoLocals)
      <3>1. cache[s] \in Delegate /\ NoLocals \in Locals /\ cache[s].user \notin deadAtStart
        BY <1>1, <2>2 DEF TypeOK, NoLocals, Locals, DeadInv
      <3>2. (lock' = w => DeadAt(w)') /\ (got'[w] # None => got'[w].user \notin deadAtStart)
        BY <1>1, <1>2, <2>1, <2>2, <3>1, ServeDead
      <3> QED
        BY <1>1, <1>2, <2>1, <3>1, <3>2, DeadOwn DEF DeadInv
    <2>3. CASE Continue(w, "warm", NoLocals) \/ Continue(w, "validate", NoLocals)
      <3>1. pc'[w] \in {"warm", "validate"} /\ got' = got
        BY <1>1, <2>3 DEF Continue, Goto, TypeOK, Procs
      <3> QED
        BY <1>1, <1>2, <2>1, <3>1, DeadOwn DEF DeadInv, DeadAt
    <2> QED
      BY <1>3, <2>2, <2>3 DEF EnsureLock
  <1>4. CASE WarmLocked(w)
    <2>1. /\ UNCHANGED <<user, nextUser, got>> /\ pc'[w] \in {"mintUser", "validate"}
          /\ \/ cache' = cache
             \/ cache' = [cache EXCEPT ![s] = FromSecret(informer[s])]
      BY <1>1, <1>4 DEF WarmLocked, Continue, Goto, zitadel, TypeOK, Procs
    <2>2. \A q \in Scopes : cache'[q] = cache[q] \/ (q = s /\ ~cache'[q].validated)
      BY <1>1, <2>1 DEF TypeOK, FromSecret
    <2> QED
      BY <1>1, <1>2, <2>1, <2>2, DeadOwn DEF DeadInv, DeadAt
  <1>5. CASE ValidateLocked(w)
    <2> DEFINE v == [cache[s] EXCEPT !.validated = TRUE]
    <2>1. UNCHANGED <<user, nextUser>> /\ cache[s] \in Delegate
      BY <1>1, <1>5 DEF ValidateLocked, zitadel, IInv, ControlOK, TypeOK
    <2>2. v \in Delegate /\ v.user = cache[s].user /\ v.validated
      BY <2>1 DEF Delegate
    <2>3. \/ user[s] = v.user /\ cache' = [cache EXCEPT ![s] = v] /\ Serve(w, v, op)
          \/ cache' = [cache EXCEPT ![s] = None] /\ Continue(w, "drop", op)
      BY <1>5, <2>2 DEF ValidateLocked
    <2> HIDE DEF v
    <2>4. CASE user[s] = v.user /\ cache' = [cache EXCEPT ![s] = v] /\ Serve(w, v, op)
      <3>1. v.user \notin deadAtStart
        BY <1>1, <2>4 DEF DeadInv
      <3>2. cache'[s] = v /\ \A q \in Scopes : q # s => cache'[q] = cache[q]
        BY <1>1, <2>4 DEF TypeOK
      <3>3. (lock' = w => DeadAt(w)') /\ (got'[w] # None => got'[w].user \notin deadAtStart)
        BY <1>1, <1>2, <2>2, <2>4, <3>1, <3>2, ServeDead
      <3> QED
        BY <1>1, <1>2, <2>1, <3>1, <3>2, <3>3, DeadOwn
    <2>5. CASE cache' = [cache EXCEPT ![s] = None] /\ Continue(w, "drop", op)
      <3>1. pc'[w] = "drop" /\ got' = got
        BY <1>1, <2>5 DEF Continue, Goto, TypeOK, Procs
      <3>2. cache'[s] = None /\ \A q \in Scopes : q # s => cache'[q] = cache[q]
        BY <1>1, <2>5 DEF TypeOK
      <3> QED
        BY <1>1, <1>2, <2>1, <3>1, <3>2, DeadOwn DEF DeadAt
    <2> QED
      BY <2>3, <2>4, <2>5
  <1>6. CASE DropSecret(w)
    <2>1. UNCHANGED <<user, nextUser, cache, got>> /\ pc'[w] \in {"warm", "mintUser", "idle"}
      BY <1>1, <1>6 DEF DropSecret, Continue, Return, Goto, zitadel, TypeOK, Procs
    <2> QED
      BY <1>1, <1>2, <2>1, DeadOwn DEF DeadInv, DeadAt
  <1>7. CASE MintUser(w)
    <2> DEFINE m == [NoLocals EXCEPT !.uid = user'[s]]
    <2>1. UNCHANGED <<cache, got>> /\ nextUser <= nextUser' /\ (Return(w) \/ Continue(w, AfterUser(s), m))
      BY <1>1, <1>2, <1>7 DEF MintUser, Return, Continue
    <2>2. \A q \in Scopes : user'[q] \in {user[q], nextUser}
      BY <1>1, <1>7 DEF MintUser, TypeOK
    <2>3. user'[s] \notin deadAtStart
      BY <1>1, <1>2, <2>2 DEF DeadInv
    <2>4. m.uid = user'[s]
      BY DEF NoLocals
    <2> HIDE DEF m
    <2>5. lock' = w => DeadAt(w)'
      <3>1. CASE Return(w)
        BY <3>1, ConstantsAssumption DEF Return, Procs
      <3>2. CASE Continue(w, AfterUser(s), m)
        <4>1. pc'[w] \in {"mintProject", "mintGrant"} /\ op' = m
          BY <1>1, <3>2 DEF Continue, AfterUser, Goto, TypeOK, Procs
        <4> QED
          BY <1>2, <2>3, <2>4, <4>1 DEF DeadAt
      <3> QED
        BY <2>1, <3>1, <3>2
    <2> QED
      BY <1>1, <1>2, <2>1, <2>2, <2>5, DeadOwn DEF DeadInv
  <1>8. CASE MintProject(w) \/ MintGrant(w)
    <2>1. UNCHANGED <<user, nextUser, cache, got>> /\ op.uid \notin deadAtStart
      BY <1>8 DEF MintProject, MintGrant, Continue, Return, DeadInv
    <2>2. lock' = None \/ (pc'[w] \in {"mintGrant", "mintKey"} /\ op' = op)
      BY <1>1, <1>8 DEF MintProject, MintGrant, Continue, Return, Goto, TypeOK, Procs
    <2> QED
      BY <1>1, <1>2, <2>1, <2>2, DeadOwn, ConstantsAssumption DEF DeadInv, DeadAt, Procs
  <1>9. CASE MintKey(w) \/ RotateKey(w)
    <2> DEFINE m == [op EXCEPT !.kid = nextKey]
    <2>1. UNCHANGED <<user, nextUser, cache, got>>
      BY <1>9 DEF MintKey, RotateKey, AddKey, Continue, Return
    <2>2. m.uid = op.uid
      BY <1>1 DEF Locals
    <2> HIDE DEF m
    <2>3. \/ lock' = None
          \/ pc[w] = "mintKey" /\ Continue(w, "persist", m)
          \/ pc[w] = "rotateKey" /\ Continue(w, "rotateSwap", m)
      BY <1>9 DEF MintKey, RotateKey, AddKey, Return, m
    <2>4. \/ lock' = None
          \/ pc[w] = "mintKey" /\ pc'[w] = "persist" /\ op' = m
          \/ pc[w] = "rotateKey" /\ pc'[w] = "rotateSwap" /\ job' = job
      BY <1>1, <2>3 DEF Continue, Goto, TypeOK, Procs
    <2>5. lock' = w => DeadAt(w)'
      BY <1>2, <2>1, <2>2, <2>4, ConstantsAssumption DEF DeadInv, DeadAt, Procs
    <2> QED
      BY <1>1, <1>2, <2>1, <2>5, DeadOwn DEF DeadInv
  <1>10. CASE PersistSecret(w) \/ RotateSwap(w)
    <2>1. UNCHANGED <<user, nextUser>> /\ lock' = None
      BY <1>10 DEF PersistSecret, RotateSwap, Return, HandOut, zitadel
    <2>2. /\ \A q \in Scopes : q # s => cache'[q] = cache[q]
          /\ \/ cache'[s] = cache[s] /\ got'[w] = got[w]
             \/ cache'[s].user \notin deadAtStart /\ got'[w].user \notin deadAtStart
             \/ got'[w] = got[w] /\ cache'[s].user \notin deadAtStart
      <3>1. CASE PersistSecret(w)
        <4>1. op.uid \notin deadAtStart
          BY <3>1 DEF PersistSecret, DeadInv
        <4> QED
          BY <1>1, <3>1, <4>1, PersistOutcome DEF Writes, Minted, Leased
      <3>2. CASE RotateSwap(w)
        <4>1. cache[s].user \notin deadAtStart
          BY <1>1, <3>2 DEF RotateSwap, DeadInv, IInv, ControlOK
        <4> QED
          <5>1. Writes(w, s, Rotated(secret[s], cache[s], op.kid),
                       RotatedDelegate(cache[s].user), Leased(cache[s].user))
            BY <1>1, <3>2, RotateOutcome
          <5> QED
            BY <4>1, <5>1 DEF Writes, RotatedDelegate, Leased
      <3> QED
        BY <1>10, <3>1, <3>2
    <2> QED
      BY <1>1, <1>2, <2>1, <2>2, DeadOwn, ConstantsAssumption DEF DeadInv, Procs
  <1> QED
    BY <1>3, <1>4, <1>5, <1>6, <1>7, <1>8, <1>9, <1>10 DEF EnsureStep

\* A new process begins with the users that there are; the rest of its steps draw none.
LEMMA CrashDead ==
  ASSUME IInv, Crash
  PROVE  DeadInv'
  <1>1. (\A u \in deadAtStart : 0 < u /\ u < nextUser /\ \A s \in Scopes : user[s] # u)'
    BY DEF Crash, zitadel, IInv, TypeOK
  <1>2. /\ \A w \in Workers : pc'[w] = "idle" /\ got'[w] = None
        /\ \A s \in Scopes : cache'[s] = None
    BY CrashMoves
  <1> QED
    BY <1>1, <1>2 DEF DeadInv, NoDeadLease

LEMMA DeadInductive == Spec => [](IInv /\ DeadInv)
  <1>1. Init => DeadInv
    <2> SUFFICES ASSUME Init
                 PROVE  DeadInv
      OBVIOUS
    <2>1. \A w \in Workers : pc[w] = "idle"
      BY ConstantsAssumption DEF Init, Started, Procs
    <2> QED
      BY <2>1 DEF Init, FreshStart, NothingListed, DeadInv, NoDeadLease
  <1>2. IInv /\ DeadInv /\ [Next]_vars => (IInv /\ DeadInv)'
    <2> SUFFICES ASSUME IInv, DeadInv, [Next]_vars
                 PROVE  IInv' /\ DeadInv'
      OBVIOUS
    <2>1. IInv' /\ TypeOK
      BY NextIInv DEF IInv
    <2>2. CASE UNCHANGED vars
      BY <2>1, <2>2, DeadFrame DEF vars, zitadel
    <2>3. CASE \E w \in Workers : WorkerStep(w)
      <3>1. PICK w \in Workers : WorkerStep(w)
        BY <2>3
      <3>2. CASE EnsureStep(w)
        BY <2>1, <3>2, EnsureDead
      <3>3. CASE EnsureError(w) \/ Done(w) \/ \E ns \in Namespaces : EnsureCall(w, ns)
        <4>1. /\ UNCHANGED <<user, nextUser, deadAtStart, cache>>
              /\ \A q \in Workers : got'[q] \in {got[q], None}
          BY <2>1, <3>3 DEF EnsureError, Done, EnsureCall, Return, zitadel, TypeOK
        <4>2. \A q \in Workers : lock' = q /\ pc'[q] \in EnsurePC => UNCHANGED <<pc[q], job[q], op, cache>>
          BY <2>1, <3>3, ConstantsAssumption DEF EnsureError, Done, EnsureCall, Return, Goto, TypeOK, Procs,
             IInv, ControlOK, EnsurePC
        <4> QED
          BY <2>1, <4>1, <4>2, DeadFrame
      <3> QED
        BY <3>1, <3>2, <3>3 DEF WorkerStep
    <2>4. CASE \E p \in Sweepers : SweeperStep(p)
      <3>1. PICK p \in Sweepers : SweeperStep(p)
        BY <2>4
      <3>2. /\ UNCHANGED <<got, nextUser, deadAtStart>>
            /\ \A w \in Workers : lock' = w => UNCHANGED <<pc[w], job[w], op, cache>>
        BY <3>1, SweeperMoves, ConstantsAssumption DEF Procs
      <3>3. \A s \in Scopes : user'[s] \in {user[s], 0}
        BY <2>1, <3>1 DEF SweeperStep, WarmList, WarmDone, WarmItem, SweepOnce, SweepResolve, SweepList, SweepLock,
           SweepUnlock, SweepItem, SweepError, RevokeRead, RevokeUser, RemoveUser, RevokeSecret, RemoveOldKey,
           ClearMarkers, zitadel, TypeOK
      <3>4. \A s \in Scopes : cache'[s] # None /\ cache'[s].validated => cache'[s] = cache[s]
        BY <2>1, <3>1 DEF SweeperStep, WarmList, WarmDone, WarmItem, SweepOnce, SweepResolve, SweepList, SweepLock,
           SweepUnlock, SweepItem, SweepError, RevokeRead, RevokeUser, RevokeSecret, RemoveOldKey,
           ClearMarkers, FromSecret, TypeOK
      <3> QED
        BY <2>1, <3>2, <3>3, <3>4, DeadFrame
    <2>5. CASE Surroundings /\ ~Crash
      <3>1. UNCHANGED <<lock, cache, pc, job, op, got, nextUser, deadAtStart>>
        BY <2>5, SurroundingsMove
      <3>2. \A s \in Scopes : user'[s] \in {user[s], 0}
        BY <2>1, <2>5 DEF Surroundings, Tick, Sync, MapsChange, InformerCatchesUp, UserDeletedOutOfBand,
           SecretDeletedOutOfBand, RemoveUser, zitadel, TypeOK
      <3> QED
        BY <2>1, <3>1, <3>2, DeadFrame
    <2>6. CASE Crash
      BY <2>1, <2>6, CrashDead
    <2> QED
      BY <2>1, <2>2, <2>3, <2>4, <2>5, <2>6 DEF Next
  <1> QED
    BY <1>1, <1>2, InitIInv, PTL DEF Spec

\* A delegate that was deleted while the operator was down is never handed out, however
\* the warm-up, the reconcilers and the sweeps interleave.
THEOREM NoDeadLeases == Spec => []NoDeadLease
  <1>1. DeadInv => NoDeadLease
    BY DEF DeadInv
  <1> QED
    BY <1>1, DeadInductive, PTL

-------------------------------------------------------------------------------
(* What a sweep revokes *)

\* A sweep's own steps.
LEMMA SweeperLive ==
  ASSUME IInv, NEW p \in Sweepers, LiveAt(p), SweeperStep(p)
  PROVE  LiveAt(p)'
  <1>1. TypeOK /\ UNCHANGED scopeOf
    BY SweeperMoves DEF IInv
  <1>2. CASE WarmList(p) \/ WarmDone(p) \/ (\E s \in Scopes : WarmItem(p, s))
    <2>1. pc'[p] \in {"idle", "warmItem"}
      BY <1>1, <1>2 DEF WarmList, WarmDone, WarmItem, Rest, Goto, TypeOK, Procs
    <2> QED
      BY <2>1 DEF LiveAt, SweepPC
  <1>3. CASE SweepOnce(p)
    <2>1. pc'[p] = "resolve" /\ nsLeft'[p] = Namespaces
      BY <1>1, <1>3 DEF SweepOnce, Goto, TypeOK, Procs
    <2> QED
      BY <2>1 DEF LiveAt, SweepPC
  <1>4. CASE \E ns \in Namespaces : SweepResolve(p, ns)
    <2>1. PICK ns \in Namespaces : SweepResolve(p, ns)
      BY <1>4
    <2>2. CASE synced
      <3>1. /\ pc[p] = "resolve" /\ pc' = pc
            /\ live'[p] = live[p] \cup ({scopeOf[ns]} \ {None})
            /\ nsLeft'[p] = nsLeft[p] \ {ns} /\ edited'[p] = edited[p] \ {ns}
        BY <1>1, <2>1, <2>2 DEF SweepResolve, TypeOK
      <3> QED
        BY <1>1, <3>1 DEF LiveAt, SweepPC
    <2>3. CASE ~synced
      <3>1. pc'[p] = "idle"
        BY <1>1, <2>1, <2>3 DEF SweepResolve, Rest, Goto, TypeOK, Procs
      <3> QED
        BY <3>1 DEF LiveAt, SweepPC
    <2> QED
      BY <2>2, <2>3
  <1>5. CASE SweepList(p)
    <2>1. \/ /\ pc[p] = "resolve" /\ nsLeft[p] = {} /\ pc'[p] = "sweep"
             /\ UNCHANGED <<live, nsLeft, edited>>
          \/ pc'[p] = "idle"
      BY <1>1, <1>5 DEF SweepList, Rest, Goto, TypeOK, Procs, environment
    <2> QED
      BY <1>1, <2>1 DEF LiveAt, SweepPC
  <1>6. CASE SweepUnlock(p)
    <2>1. pc'[p] = "idle"
      BY <1>1, <1>6 DEF SweepUnlock, Rest, Goto, TypeOK, Procs
    <2> QED
      BY <2>1 DEF LiveAt, SweepPC
  <1>7. CASE SweepLock(p) \/ SweepError(p) \/ RevokeRead(p) \/ RevokeUser(p) \/ RevokeSecret(p)
             \/ RemoveOldKey(p) \/ ClearMarkers(p) \/ (\E s \in Scopes : SweepItem(p, s))
    <2>1. UNCHANGED <<live, nsLeft, edited>> /\ pc[p] \in {"sweep"} \cup SweepPC
      BY <1>7 DEF SweepLock, SweepError, RevokeRead, RevokeUser, RevokeSecret, RemoveOldKey, ClearMarkers,
         SweepItem, SweepPC, environment, sweep
    <2>2. pc'[p] \in {"revokeRead", "revokeUser"} => job'[p] \notin live[p]
      <3>1. CASE \E s \in Scopes : SweepItem(p, s)
        BY <1>1, <3>1 DEF SweepItem, NextForItem, Goto, TypeOK, Procs
      <3>2. CASE RevokeRead(p)
        BY <1>1, <3>2 DEF RevokeRead, Goto, TypeOK, Procs, LiveAt
      <3>3. CASE SweepLock(p) \/ SweepError(p) \/ RevokeUser(p) \/ RevokeSecret(p) \/ RemoveOldKey(p)
                   \/ ClearMarkers(p)
        BY <1>1, <3>3 DEF SweepLock, SweepError, RevokeUser, RevokeSecret, RemoveOldKey, ClearMarkers,
           Goto, TypeOK, Procs
      <3> QED
        BY <1>7, <3>1, <3>2, <3>3
    <2> QED
      BY <1>1, <2>1, <2>2 DEF LiveAt
  <1> QED
    BY <1>2, <1>3, <1>4, <1>5, <1>6, <1>7 DEF SweeperStep

\* Whatever happens to a namespace behind a sweep's back is on record as an edit.
LEMMA EditsRecorded ==
  ASSUME TypeOK, Surroundings, NEW p \in Sweepers, NEW ns \in Namespaces, ns \notin edited'[p]
  PROVE  ns \notin edited[p] /\ scopeOf'[ns] = scopeOf[ns]
  <1>1. CASE \E n \in Namespaces, s \in Scopes \cup {None} : MapsChange(n, s)
    <2>1. PICK n \in Namespaces, s \in Scopes \cup {None} : MapsChange(n, s)
      BY <1>1
    <2>2. edited'[p] = edited[p] \cup {n} /\ scopeOf' = [scopeOf EXCEPT ![n] = s]
      BY <2>1 DEF MapsChange
    <2> QED
      BY <2>2 DEF TypeOK
  <1>2. CASE UNCHANGED <<scopeOf, edited>>
    BY <1>2
  <1> QED
    BY <1>1, <1>2 DEF Surroundings, Tick, Sync, Crash, InformerCatchesUp, UserDeletedOutOfBand,
       SecretDeletedOutOfBand, environment

LEMMA LiveInductive == Spec => [](IInv /\ LiveInv)
  <1>1. Init => LiveInv
    <2> SUFFICES ASSUME Init
                 PROVE  LiveInv
      OBVIOUS
    <2>1. \A p \in Sweepers : pc[p] \in {"idle", "warmList"}
      BY DEF Init, Started, Procs
    <2> QED
      BY <2>1 DEF LiveInv, LiveAt, SweepPC
  <1>2. IInv /\ LiveInv /\ [Next]_vars => (IInv /\ LiveInv)'
    <2> SUFFICES ASSUME IInv, LiveInv, [Next]_vars
                 PROVE  IInv' /\ LiveInv'
      OBVIOUS
    <2>1. IInv' /\ TypeOK
      BY NextIInv DEF IInv
    <2>2. ASSUME NEW p \in Sweepers, UNCHANGED <<pc[p], job[p], live[p], nsLeft[p]>>,
                 \A ns \in Namespaces \ edited'[p] : ns \notin edited[p] /\ scopeOf'[ns] = scopeOf[ns]
          PROVE  LiveAt(p)'
      BY <2>2 DEF LiveInv, LiveAt
    <2>3. CASE \E w \in Workers : WorkerStep(w)
      <3>1. \A p \in Sweepers : UNCHANGED <<pc[p], job[p], live[p], nsLeft[p], edited, scopeOf>>
        BY <2>3, WorkerMoves, ConstantsAssumption DEF environment, sweep, Procs
      <3> QED
        BY <2>1, <2>2, <3>1 DEF LiveInv
    <2>4. ASSUME NEW p \in Sweepers, SweeperStep(p)
          PROVE  LiveInv'
      <3>1. LiveAt(p)'
        BY <2>4, SweeperLive DEF LiveInv
      <3>2. \A q \in Sweepers : q # p =>
              UNCHANGED <<pc[q], job[q], live[q], nsLeft[q], edited[q], scopeOf>>
        BY <2>4, SweeperMoves DEF Procs
      <3> QED
        BY <2>2, <3>1, <3>2 DEF LiveInv
    <2>5. CASE Surroundings
      <3>1. CASE Crash
        <4>1. \A p \in Sweepers :
                pc'[p] \notin {"resolve", "sweep", "revokeRead", "revokeUser"} \cup SweepPC
          BY <3>1, CrashMoves DEF SweepPC
        <4> QED
          BY <2>1, <4>1 DEF LiveInv, LiveAt
      <3>2. CASE ~Crash
        <4>1. UNCHANGED <<pc, job, live, nsLeft>>
          BY <2>5, <3>2, SurroundingsMove DEF sweep
        <4>2. \A p \in Sweepers : UNCHANGED <<pc[p], job[p], live[p], nsLeft[p]>>
          BY <4>1
        <4>3. \A p \in Sweepers : \A ns \in Namespaces \ edited'[p] :
                ns \notin edited[p] /\ scopeOf'[ns] = scopeOf[ns]
          BY <2>1, <2>5, EditsRecorded
        <4> QED
          BY <2>1, <2>2, <4>2, <4>3 DEF LiveInv
      <3> QED
        BY <3>1, <3>2
    <2>6. CASE UNCHANGED vars
      <3>1. UNCHANGED <<pc, job, live, nsLeft, edited, scopeOf>>
        BY <2>6 DEF vars, environment, sweep
      <3>2. \A p \in Sweepers : /\ UNCHANGED <<pc[p], job[p], live[p], nsLeft[p]>>
                                 /\ \A ns \in Namespaces \ edited'[p] :
                                      ns \notin edited[p] /\ scopeOf'[ns] = scopeOf[ns]
        BY <3>1
      <3> QED
        BY <2>1, <2>2, <3>2 DEF LiveInv
    <2> QED
      BY <2>1, <2>3, <2>4, <2>5, <2>6 DEF Next
  <1> QED
    BY <1>1, <1>2, InitIInv, PTL DEF Spec

\* A machine user is taken away, but by somebody else, only by a sweep that holds the mutex,
\* and its scope is no namespace's, but for those whose scope has changed since this sweep
\* resolved them: however many sweeps run at once, whatever fails and whatever is edited.
THEOREM OnlyOrphansRevoked == Spec => OnlyUnmatchedRevoked
  <1> DEFINE OnlyAction ==
        \A s \in Scopes :
          user[s] # 0 /\ user'[s] = 0 /\ ~OutOfBand("user")
            => \E p \in Sweepers :
                 lock = p /\ \A ns \in Namespaces : scopeOf[ns] = s => ns \in edited[p]
  <1>1. IInv /\ LiveInv /\ [Next]_vars => [OnlyAction]_vars
    <2> SUFFICES ASSUME IInv, LiveInv, [Next]_vars, NEW s \in Scopes,
                        user[s] # 0, user'[s] = 0, ~OutOfBand("user")
                 PROVE  \E p \in Sweepers :
                          lock = p /\ \A ns \in Namespaces : scopeOf[ns] = s => ns \in edited[p]
      OBVIOUS
    <2>1. TypeOK
      BY DEF IInv
    <2>2. PICK p \in Sweepers : RevokeUser(p) /\ job[p] = s
      <3>1. CASE \E w \in Workers : WorkerStep(w)
        <4>1. PICK w \in Workers : WorkerStep(w)
          BY <3>1
        <4>2. CASE MintUser(w)
          BY <2>1, <4>2 DEF MintUser, TypeOK
        <4>3. CASE ~MintUser(w)
          BY <4>1, <4>3 DEF WorkerStep, EnsureCall, EnsureError, Done, EnsureStep, EnsureLock, WarmLocked,
             ValidateLocked, DropSecret, MintProject, MintGrant, MintKey, PersistSecret, RotateKey,
             RotateSwap, zitadel
        <4> QED
          BY <4>2, <4>3
      <3>2. CASE \E p \in Sweepers : SweeperStep(p)
        BY <2>1, <3>2 DEF SweeperStep, WarmList, WarmDone, WarmItem, SweepOnce, SweepResolve, SweepList,
           SweepLock, SweepUnlock, SweepItem, SweepError, RevokeRead, RevokeUser, RemoveUser, RevokeSecret,
           RemoveOldKey, ClearMarkers, zitadel, TypeOK
      <3>3. CASE Surroundings
        <4>1. ~ \E q \in Scopes : UserDeletedOutOfBand(q)
          <5>1. budget["user"] \in Nat
            BY <2>1 DEF TypeOK, Adversities
          <5>2. Spend("user") => budget'["user"] = budget["user"] - 1
            BY <2>1 DEF Spend, TypeOK, Adversities
          <5> QED
            BY <5>1, <5>2 DEF UserDeletedOutOfBand, OutOfBand
        <4> QED
          BY <3>3, <4>1 DEF Surroundings, Tick, Sync, Crash, MapsChange, InformerCatchesUp,
             SecretDeletedOutOfBand, zitadel
      <3>4. CASE UNCHANGED vars
        BY <3>4 DEF vars, zitadel
      <3> QED
        BY <3>1, <3>2, <3>3, <3>4 DEF Next
    <2>3. LiveAt(p) /\ pc[p] = "revokeUser" /\ lock = p
      BY <2>2 DEF RevokeUser, LiveInv, IInv, ControlOK, SweepPC, Procs
    <2>4. nsLeft[p] = {} /\ s \notin live[p]
      BY <2>2, <2>3 DEF LiveAt, SweepPC
    <2>5. \A ns \in Namespaces \ edited[p] : scopeOf[ns] \in live[p] \cup {None}
      BY <2>3, <2>4 DEF LiveAt, SweepPC
    <2> QED
      BY <2>3, <2>4, <2>5, ConstantsAssumption
  <1> QED
    BY <1>1, LiveInductive, PTL DEF Spec, OnlyUnmatchedRevoked

-------------------------------------------------------------------------------
(* Leases *)

LEMMA InRecords ==
  ASSUME NEW s \in Scopes, NEW x
  PROVE  /\ x \in Records(s) <=> /\ x # None
                                 /\ \/ x = secret[s] \/ x = informer[s]
                                    \/ \E p \in Sweepers : x = list[p][s]
         /\ x \in Views(s) <=> x \in Records(s) \/ (x # None /\ x = cache[s])
  BY DEF Records, Views

LEMMA ViewTypes ==
  ASSUME TypeOK, NEW s \in Scopes
  PROVE  /\ \A x \in Records(s) : x \in Secret
         /\ \A x \in Views(s) : x.user \in Nat /\ x.key \in Nat /\ x.created \in Nat
  <1>1. \A x \in Records(s) : x \in Secret
    <2>1. secret[s] \in Secret \cup {None} /\ informer[s] \in Secret \cup {None}
      BY DEF TypeOK
    <2>2. \A p \in Sweepers : list[p][s] \in Secret \cup {None}
      BY DEF TypeOK
    <2> QED
      BY <2>1, <2>2, InRecords
  <1>2. cache[s] # None => cache[s] \in Delegate
    BY DEF TypeOK
  <1> QED
    BY <1>1, <1>2, InRecords DEF Secret, Delegate

\* The ids that the copies name have been drawn.
LEMMA ViewsDrawn ==
  ASSUME IInv, NEW s \in Scopes
  PROVE  /\ \A x \in Views(s) : 0 < x.user /\ x.user < nextUser /\ x.key < nextKey
         /\ \A x \in Records(s) : x.old < nextKey
  BY InRecords DEF IInv, FreshOK, Known

\* What a step does to the keys of a scope: the copies name what they or another copy named,
\* or the new key k; a key is rotated out when it is due and then has its grace; and a user
\* that stays keeps its keys, except one that is rotated out and has had its grace.
SameView(x, y)   == x.user = y.user /\ x.key = y.key /\ x.created = y.created
SameRecord(x, y) == x.old = y.old /\ x.revokeAt = y.revokeAt
NewKey(s, k) ==
  /\ \A y \in Views(s) : y.key # k
  /\ \A y \in Records(s) : y.old # k
  /\ \A x \in Views(s)' :
       \/ \E y \in Views(s) : SameView(x, y)
       \/ x.key = k /\ x.created = now' /\ (x.user = user'[s] => k \in keys'[s])
  /\ \A x \in Records(s)' :
       \/ x.old = 0
       \/ \E y \in Records(s) : SameRecord(x, y)
       \/ /\ x.old # k /\ x.revokeAt = now' + Grace
          /\ \E y \in Views(s) : y.key = x.old /\ Due(y)
Retired(s, k) == \E x \in Records(s) : k # 0 /\ x.old = k /\ now >= x.revokeAt
UsersStay(s) ==
  \/ user'[s] = user[s] /\ \A k \in keys[s] : k \in keys'[s] \/ Retired(s, k)
  \/ user'[s] \in {0, nextUser}

LEMMA KeysAgeStep ==
  ASSUME IInv, TypeOK', NEW s \in Scopes, NEW k, KeysAge(s), NewKey(s, k), UsersStay(s), now <= now'
  PROVE  KeysAge(s)'
  <1>1. /\ \A y \in Views(s) : y.user \in Nat /\ y.key \in Nat /\ y.created \in Nat
        /\ now \in Nat /\ now' \in Nat /\ RotateAfter \in Nat /\ nextUser \in Nat
        /\ \A y \in Views(s) : 0 < y.user /\ y.user < nextUser
    BY ViewTypes, ViewsDrawn, ConstantsAssumption DEF IInv, TypeOK
  <1>2. \A y \in Views(s) : Due(y) => now' >= y.created + RotateAfter
    BY <1>1 DEF Due
  <1>3. ASSUME NEW x \in Views(s)', NEW y \in Views(s)', x.key = y.key
        PROVE  x.created = y.created
    BY <1>3 DEF KeysAge, NewKey, SameView
  <1>4. ASSUME NEW x \in Records(s)', NEW y \in Views(s)', x.old # 0, x.old = y.key
        PROVE  Due(y)'
    <2>1. CASE \E z \in Views(s) : SameView(y, z)
      <3>1. PICK z \in Views(s) : SameView(y, z)
        BY <2>1
      <3>2. Due(z)
        <4>1. CASE \E v \in Records(s) : SameRecord(x, v)
          BY <1>4, <3>1, <4>1 DEF KeysAge, SameView, SameRecord
        <4>2. CASE \E v \in Views(s) : v.key = x.old /\ Due(v)
          BY <1>4, <3>1, <4>2 DEF KeysAge, SameView, Due
        <4> QED
          BY <1>4, <4>1, <4>2 DEF NewKey
      <3> QED
        BY <1>2, <3>1, <3>2 DEF SameView, Due
    <2>2. CASE y.key = k
      BY <1>4, <2>2 DEF NewKey, SameRecord
    <2> QED
      BY <2>1, <2>2 DEF NewKey
  <1>5. ASSUME NEW x \in Views(s)', x.user = user'[s], ~Due(x)'
        PROVE  x.key \in keys'[s]
    <2>1. CASE \E y \in Views(s) : SameView(x, y)
      <3>1. PICK y \in Views(s) : SameView(x, y)
        BY <2>1
      <3>2. ~Due(y)
        BY <1>2, <1>5, <3>1 DEF SameView, Due
      <3>3. user'[s] = user[s] /\ \A j \in keys[s] : j \in keys'[s] \/ Retired(s, j)
        BY <1>1, <1>5, <3>1 DEF UsersStay, SameView
      <3>4. y.key \in keys[s] /\ ~Retired(s, y.key)
        BY <1>5, <3>1, <3>2, <3>3 DEF KeysAge, SameView, Retired
      <3> QED
        BY <3>1, <3>3, <3>4 DEF SameView
    <2>2. CASE x.key = k /\ (x.user = user'[s] => k \in keys'[s])
      BY <1>5, <2>2
    <2> QED
      BY <2>1, <2>2 DEF NewKey
  <1> QED
    BY <1>3, <1>4, <1>5 DEF KeysAge

\* A lease that is kept is as good as before.
LiveLease(w) ==
  got[w] # None /\ user[job[w]] = got[w].user /\ now < got[w].at + Grace => got[w].key \in keys[job[w]]
LEMMA LeaseStep ==
  ASSUME IInv, TypeOK', NEW w \in Workers, got[w] # None, LeaseAt(w), LiveLease(w),
         NEW k, NewKey(job[w], k), UsersStay(job[w]), now <= now', nextUser <= nextUser',
         UNCHANGED <<got[w], job[w], pc[w]>>
  PROVE  LeaseAt(w)' /\ LiveLease(w)'
  <1> DEFINE s == job[w]
             g == got[w]
  <1>1. /\ s \in Scopes /\ g.user \in Nat /\ g.key \in Nat /\ g.at \in Nat
        /\ now \in Nat /\ now' \in Nat /\ Grace \in Nat /\ nextUser \in Nat /\ nextUser' \in Nat
    <2>1. g \in Lease
      BY DEF IInv, TypeOK
    <2> QED
      BY <2>1, ConstantsAssumption DEF IInv, TypeOK, ControlOK, LeaseAt, Lease
  <1>2. g' = g /\ s' = s /\ pc'[w] = "using" /\ 0 < g.user /\ g.user < nextUser /\ g.at <= now
    BY DEF LeaseAt
  <1>3. \A x \in Records(s) : x.old # 0 /\ x.old = g.key => x.revokeAt >= g.at + Grace
    BY DEF LeaseAt
  <1>4. \A x \in Records(s)' : x.old # 0 /\ x.old = g.key => x.revokeAt >= g.at + Grace
    <2> SUFFICES ASSUME NEW x \in Records(s)', x.old # 0, x.old = g.key
                 PROVE  x.revokeAt >= g.at + Grace
      OBVIOUS
    <2>1. CASE \E y \in Records(s) : SameRecord(x, y)
      BY <1>3, <2>1 DEF SameRecord
    <2>2. CASE x.revokeAt = now' + Grace
      BY <1>1, <1>2, <2>2
    <2> QED
      BY <2>1, <2>2 DEF NewKey
  <1>5. LeaseAt(w)'
    <2>1. Records(job[w])' = Records(s)'
      OBVIOUS
    <2> QED
      BY <1>1, <1>2, <1>4 DEF LeaseAt
  <1>6. ASSUME user'[s] = g.user, now' < g.at + Grace
        PROVE  g.key \in keys'[s]
    <2>1. user'[s] = user[s] /\ \A j \in keys[s] : j \in keys'[s] \/ Retired(s, j)
      BY <1>1, <1>2, <1>6 DEF UsersStay
    <2>2. now < g.at + Grace
      BY <1>1, <1>6
    <2>3. g.key \in keys[s]
      BY <1>6, <2>1, <2>2 DEF LiveLease
    <2>4. ~Retired(s, g.key)
      <3>1. \A x \in Records(s) : x.revokeAt \in Nat
        BY <1>1, ViewTypes DEF IInv, Secret
      <3> QED
        BY <1>1, <1>3, <2>2, <3>1 DEF Retired
    <2> QED
      BY <2>1, <2>3, <2>4
  <1> QED
    BY <1>2, <1>5, <1>6 DEF LiveLease

\* A step that copies records, forgets them or clears their markers names no new key: nextKey
\* stands for it.
CopiesOnly(s) ==
  /\ \/ secret'[s] \in {secret[s], None}
     \/ secret[s] # None /\ secret'[s] = [secret[s] EXCEPT !.old = 0, !.revokeAt = 0]
  /\ informer'[s] \in {informer[s], secret[s], None}
  /\ \A p \in Sweepers : list'[p][s] \in {list[p][s], informer[s], None}
  /\ cache'[s] # None => \E y \in Views(s) : SameView(cache'[s], y)
LEMMA CopiesStep ==
  ASSUME IInv, NEW s \in Scopes, CopiesOnly(s)
  PROVE  NewKey(s, nextKey) /\ \A x \in Views(s)' : \E y \in Views(s) : SameView(x, y)
  <1>1. (\A y \in Views(s) : y.key # nextKey) /\ (\A y \in Records(s) : y.old # nextKey)
    <2>1. nextKey \in Nat
      BY DEF IInv, TypeOK
    <2> QED
      BY <2>1, ViewsDrawn DEF IInv
  <1>2. \A x \in Records(s)' : \/ x \in Records(s)
                               \/ x.old = 0 /\ \E y \in Records(s) : SameView(x, y)
    <2> SUFFICES ASSUME NEW x \in Records(s)'
                 PROVE  x \in Records(s) \/ (x.old = 0 /\ \E y \in Records(s) : SameView(x, y))
      OBVIOUS
    <2>1. /\ x # None
          /\ x = secret'[s] \/ x = informer'[s] \/ \E p \in Sweepers : x = list'[p][s]
      BY DEF Records
    <2>2. CASE secret[s] # None /\ x = [secret[s] EXCEPT !.old = 0, !.revokeAt = 0]
      <3>1. secret[s] \in Secret
        BY <2>2 DEF IInv, TypeOK
      <3>2. x.old = 0 /\ SameView(x, secret[s])
        BY <2>2, <3>1 DEF Secret, SameView
      <3> QED
        BY <2>2, <3>2, InRecords
    <2>3. CASE x \in {secret[s], informer[s]} \/ \E p \in Sweepers : x = list[p][s]
      BY <2>1, <2>3, InRecords
    <2> QED
      BY <2>1, <2>2, <2>3 DEF CopiesOnly
  <1>3. \A x \in Views(s)' : \E y \in Views(s) : SameView(x, y)
    <2>1. \A x \in Views(s)' : x \in Records(s)' \/ (x # None /\ x = cache'[s])
      BY DEF Views
    <2>2. \A x \in Records(s) : x \in Views(s) /\ SameView(x, x)
      BY DEF Views, SameView
    <2> QED
      BY <1>2, <2>1, <2>2 DEF CopiesOnly
  <1>4. \A x \in Records(s)' : x.old = 0 \/ \E y \in Records(s) : SameRecord(x, y)
    BY <1>2 DEF SameRecord
  <1> QED
    BY <1>1, <1>3, <1>4 DEF NewKey

\* What a step has to show: nothing about the goroutines it leaves alone.
LEMMA LeaseAll ==
  ASSUME IInv, IInv', LeaseInv, now <= now', nextUser <= nextUser',
         \A s \in Scopes : UsersStay(s) /\ \E k \in Nat : NewKey(s, k),
         \A w \in Workers : \/ got'[w] = None
                            \/ UNCHANGED <<got[w], job[w], pc[w]>>
                            \/ LeaseAt(w)' /\ LiveLease(w)',
         \A w \in Workers : pc'[w] \in EnsurePC => NewKeyAt(w)',
         \A p \in Sweepers : pc'[p] = "oldKey" => \/ UNCHANGED <<pc[p], job[p], list[p]>>
                                                  \/ GraceOver(list[p][job[p]])'
  PROVE  LeaseInv'
  <1>1. TypeOK /\ TypeOK'
    BY DEF IInv
  <1>2. \A s \in Scopes : KeysAge(s)'
    BY <1>1, KeysAgeStep DEF LeaseInv
  <1>3. \A w \in Workers : LiveLease(w)
    BY DEF LeaseInv, LeaseKeyLive, LiveLease
  <1>4. \A w \in Workers : LeaseAt(w)' /\ LiveLease(w)'
    <2> SUFFICES ASSUME NEW w \in Workers, UNCHANGED <<got[w], job[w], pc[w]>>, got[w] # None
                 PROVE  LeaseAt(w)' /\ LiveLease(w)'
      BY DEF LeaseAt, LiveLease
    <2>1. LeaseAt(w) /\ job[w] \in Scopes
      BY DEF LeaseInv, LeaseAt, IInv, ControlOK
    <2> QED
      BY <1>1, <1>3, <2>1, LeaseStep
  <1>5. \A w \in Workers : NewKeyAt(w)'
    BY DEF NewKeyAt, EnsurePC
  <1>6. \A p \in Sweepers : (pc[p] = "oldKey" => GraceOver(list[p][job[p]]))'
    <2> SUFFICES ASSUME NEW p \in Sweepers, pc[p] = "oldKey", UNCHANGED <<pc[p], job[p], list[p]>>
                 PROVE  GraceOver(list[p][job[p]])'
      OBVIOUS
    <2>1. GraceOver(list[p][job[p]]) /\ list[p][job[p]] \in Secret
      BY <1>1 DEF LeaseInv, IInv, ControlOK, SweepPC, TypeOK
    <2> QED
      BY <1>1, <2>1 DEF GraceOver, Secret, TypeOK
  <1>7. LeaseKeyLive'
    BY <1>4 DEF LeaseKeyLive, LiveLease
  <1> QED
    BY <1>2, <1>4, <1>5, <1>6, <1>7 DEF LeaseInv

\* A step that names no new key and leaves a call of Ensure where it is.
LEMMA LeaseFrame ==
  ASSUME IInv, IInv', LeaseInv, now <= now', UNCHANGED nextUser,
         \A s \in Scopes : UsersStay(s) /\ CopiesOnly(s),
         \A w \in Workers : got'[w] = None \/ UNCHANGED <<got[w], job[w], pc[w]>>,
         \A w \in Workers : lock' = w /\ pc'[w] \in EnsurePC => UNCHANGED <<pc[w], job[w], op, cache>>,
         \A p \in Sweepers : pc'[p] = "oldKey" => \/ UNCHANGED <<pc[p], job[p], list[p]>>
                                                  \/ GraceOver(list[p][job[p]])'
  PROVE  LeaseInv'
  <1>1. \A s \in Scopes : NewKey(s, nextKey)
    BY CopiesStep
  <1>2. nextKey \in Nat /\ now \in Nat /\ now' \in Nat /\ nextUser \in Nat
    BY DEF IInv, TypeOK
  <1>3. ASSUME NEW w \in Workers, pc'[w] \in EnsurePC
        PROVE  NewKeyAt(w)'
    <2>1. UNCHANGED <<pc[w], job[w], op, cache>>
      BY <1>3 DEF IInv, ControlOK, Procs
    <2>2. job[w] \in Scopes /\ NewKeyAt(w)
      BY <1>3, <2>1 DEF IInv, ControlOK, EnsurePC, LeaseInv
    <2>3. \A x \in Views(job[w])' : \E y \in Views(job[w]) : SameView(x, y)
      <3>1. \A s \in Scopes : \A x \in Views(s)' : \E y \in Views(s) : SameView(x, y)
        BY CopiesStep
      <3>2. \A s \in Scopes : s = job[w] => Views(job[w])' = Views(s)'
        BY <2>1 DEF Views, Records
      <3> QED
        BY <2>2, <3>1, <3>2
    <2>4. pc[w] \in {"rotateKey", "rotateSwap"} => Due(cache[job[w]])'
      <3>1. pc[w] \in {"rotateKey", "rotateSwap"} => cache[job[w]] \in Delegate
        BY <2>2 DEF IInv, ControlOK, TypeOK
      <3> QED
        BY <1>2, <2>1, <2>2, <3>1, ConstantsAssumption DEF NewKeyAt, Due, Delegate
    <2> QED
      BY <2>1, <2>2, <2>3, <2>4 DEF NewKeyAt, SameView
  <1> QED
    BY <1>1, <1>2, <1>3, LeaseAll

\* Calls outside the mutex, and errors; sweeps; surroundings.
LEMMA SameCopies ==
  ASSUME UNCHANGED <<user, keys, secret, informer, cache, list>>
  PROVE  \A s \in Scopes : UsersStay(s) /\ CopiesOnly(s)
  BY InRecords DEF UsersStay, CopiesOnly, SameView

LEMMA EnsureCallLease ==
  ASSUME IInv, IInv', LeaseInv, NEW w \in Workers,
         EnsureError(w) \/ Done(w) \/ \E ns \in Namespaces : EnsureCall(w, ns)
  PROVE  LeaseInv'
  <1>1. TypeOK
    BY DEF IInv
  <1>2. UNCHANGED <<now, nextUser, user, keys, secret, informer, cache, list>>
    BY DEF EnsureCall, Done, EnsureError, environment, zitadel, kubernetes, sweep
  <1>3. /\ \A q \in Procs : q # w => pc'[q] = pc[q] /\ job'[q] = job[q]
        /\ \A q \in Workers : q # w => got'[q] = got[q]
    BY WorkerMoves DEF WorkerStep
  <1>4. got'[w] = None /\ pc'[w] \notin EnsurePC
    <2>1. pc[w] # "using" => got[w] = None
      BY DEF LeaseInv, LeaseAt
    <2> QED
      BY <1>1, <2>1 DEF EnsureCall, Done, EnsureError, Return, Goto, EnsurePC, TypeOK, Procs
  <1>5. \A q \in Workers : lock' = q => UNCHANGED <<lock, op>>
    BY ConstantsAssumption DEF EnsureCall, Done, EnsureError, Return, Procs
  <1>6. now <= now' /\ \A p \in Sweepers : UNCHANGED <<pc[p], job[p], list[p]>>
    BY <1>1, <1>2, <1>3, ConstantsAssumption DEF TypeOK, Procs
  <1>7. \A q \in Workers : lock' = q /\ pc'[q] \in EnsurePC => UNCHANGED <<pc[q], job[q], op, cache>>
    BY <1>2, <1>3, <1>4, <1>5 DEF Procs
  <1>8. \A q \in Workers : got'[q] = None \/ UNCHANGED <<got[q], job[q], pc[q]>>
    BY <1>3, <1>4 DEF Procs
  <1> QED
    BY <1>2, <1>6, <1>7, <1>8, SameCopies, LeaseFrame

\* A sweep copies what the informer cache shows, and removes a key only when it is retired.
LEMMA SweeperLease ==
  ASSUME IInv, IInv', LeaseInv, NEW p \in Sweepers, SweeperStep(p)
  PROVE  LeaseInv'
  <1>1. TypeOK /\ ControlOK
    BY DEF IInv
  <1>2. \A s \in Scopes : UsersStay(s)
    <2>1. CASE RevokeUser(p)
      BY <1>1, <2>1 DEF RevokeUser, RemoveUser, UsersStay, TypeOK
    <2>2. CASE RemoveOldKey(p)
      <3> DEFINE x == list[p][job[p]]
      <3>1. user' = user /\ job[p] \in Scopes /\ x # None /\ x.old # 0 /\ now >= x.revokeAt
        BY <1>1, <2>2 DEF RemoveOldKey, ControlOK, SweepPC, LeaseInv, GraceOver
      <3>2. x \in Records(job[p])
        BY <3>1, InRecords
      <3>3. \A s \in Scopes : \A k \in keys[s] : k \in keys'[s] \/ (s = job[p] /\ k = x.old)
        BY <1>1, <2>2 DEF RemoveOldKey, TypeOK
      <3> QED
        BY <3>1, <3>2, <3>3 DEF UsersStay, Retired
    <2>3. CASE UNCHANGED <<user, keys>>
      BY <2>3 DEF UsersStay
    <2> QED
      BY <2>1, <2>2, <2>3 DEF SweeperStep, WarmList, WarmDone, WarmItem, SweepOnce, SweepResolve, SweepList,
         SweepLock, SweepUnlock, SweepItem, SweepError, RevokeRead, RevokeSecret, ClearMarkers, zitadel
  <1>3. \A s \in Scopes : CopiesOnly(s)
    <2>1. CASE WarmList(p) \/ WarmDone(p) \/ SweepOnce(p) \/ SweepList(p) \/ SweepLock(p)
                 \/ SweepUnlock(p) \/ SweepError(p) \/ RevokeRead(p) \/ RevokeUser(p) \/ RemoveOldKey(p)
                 \/ (\E ns \in Namespaces : SweepResolve(p, ns)) \/ (\E s \in Scopes : SweepItem(p, s))
      <3>1. UNCHANGED <<secret, informer, cache>>
        BY <2>1 DEF WarmList, WarmDone, SweepOnce, SweepList, SweepLock, SweepUnlock, SweepError, RevokeUser,
           RemoveOldKey, RevokeRead, SweepResolve, SweepItem, kubernetes
      <3>2. \A q \in Sweepers, s \in Scopes : list'[q][s] \in {list[q][s], informer[s], None}
        BY <1>1, <2>1 DEF WarmList, WarmDone, SweepOnce, SweepList, SweepLock, SweepUnlock, SweepError, RevokeUser,
           RemoveOldKey, RevokeRead, SweepResolve, SweepItem, Rest, NothingListed, sweep, TypeOK
      <3> QED
        BY <3>1, <3>2, InRecords DEF CopiesOnly, SameView
    <2>2. CASE \E s \in Scopes : WarmItem(p, s)
      <3>1. PICK s \in Scopes : WarmItem(p, s)
        BY <2>2
      <3>2. /\ UNCHANGED <<secret, informer, list>> /\ list[p][s] # None
            /\ cache' = [cache EXCEPT ![s] = FromSecret(list[p][s])]
        BY <1>1, <3>1 DEF WarmItem, kubernetes, ControlOK
      <3>3. list[p][s] \in Views(s) /\ SameView(FromSecret(list[p][s]), list[p][s])
        BY <3>2, InRecords DEF FromSecret, SameView
      <3> HIDE DEF Views
      <3>4. \A q \in Scopes : cache'[q] = cache[q] \/ (q = s /\ cache'[q] = FromSecret(list[p][s]))
        BY <1>1, <3>2 DEF TypeOK
      <3> QED
        BY <3>2, <3>3, <3>4, InRecords DEF CopiesOnly, SameView
    <2>3. CASE RevokeSecret(p) \/ ClearMarkers(p)
      <3>1. UNCHANGED <<informer, list>> /\ job[p] \in Scopes /\ (pc[p] = "clear" => list[p][job[p]] # None)
        BY <1>1, <2>3 DEF RevokeSecret, ClearMarkers, sweep, ControlOK, SweepPC
      <3>2. \A s \in Scopes : cache'[s] \in {cache[s], None}
        BY <1>1, <2>3 DEF RevokeSecret, ClearMarkers, TypeOK
      <3>3. \A s \in Scopes :
              \/ secret'[s] \in {secret[s], None}
              \/ secret[s] # None /\ secret'[s] = [secret[s] EXCEPT !.old = 0, !.revokeAt = 0]
        <4>1. CASE RevokeSecret(p)
          BY <1>1, <4>1 DEF RevokeSecret, TypeOK
        <4>2. CASE ClearMarkers(p)
          <5> DEFINE y == [list[p][job[p]] EXCEPT !.old = 0, !.revokeAt = 0]
          <5>1. \/ secret' = secret
                \/ secret[job[p]] = list[p][job[p]] /\ secret' = [secret EXCEPT ![job[p]] = y]
            BY <4>2 DEF ClearMarkers
          <5>2. secret[job[p]] = list[p][job[p]] => y = [secret[job[p]] EXCEPT !.old = 0, !.revokeAt = 0]
            OBVIOUS
          <5> HIDE DEF y
          <5>3. \A s \in Scopes : secret'[s] = secret[s] \/ (s = job[p] /\ secret'[s] = y /\ secret[s] = list[p][s])
            BY <1>1, <3>1, <5>1 DEF TypeOK
          <5>4. list[p][job[p]] # None
            BY <3>1, <4>2 DEF ClearMarkers
          <5> QED
            BY <5>2, <5>3, <5>4
        <4> QED
          BY <2>3, <4>1, <4>2
      <3> QED
        BY <3>1, <3>2, <3>3, InRecords DEF CopiesOnly, SameView
    <2> QED
      BY <2>1, <2>2, <2>3 DEF SweeperStep
  <1>4. /\ UNCHANGED <<now, got, nextUser>>
        /\ \A q \in Workers : UNCHANGED <<got[q], job[q], pc[q]>>
        /\ \A q \in Workers : lock' = q => UNCHANGED <<op, cache>>
        /\ \A q \in Sweepers : q # p => UNCHANGED <<pc[q], job[q], list[q]>>
    BY SweeperMoves, ConstantsAssumption DEF environment, Procs
  <1>5. pc'[p] = "oldKey" => GraceOver(list[p][job[p]])'
    <2>1. CASE \E s \in Scopes : SweepItem(p, s)
      <3>1. PICK s \in Scopes : SweepItem(p, s)
        BY <2>1
      <3>2. pc'[p] = NextForItem(p, s) /\ job'[p] = s /\ UNCHANGED <<now, list>>
        BY <1>1, <3>1 DEF SweepItem, Goto, TypeOK, Procs, environment
      <3> QED
        BY <3>2 DEF NextForItem, GraceOver
    <2>2. CASE ~ \E s \in Scopes : SweepItem(p, s)
      <3>1. pc'[p] # "oldKey"
        <4>1. pc[p] = "oldKey" => SweepError(p) \/ RemoveOldKey(p)
          BY <2>2 DEF SweeperStep, WarmList, WarmDone, WarmItem, SweepOnce, SweepResolve, SweepList,
             SweepLock, SweepUnlock, RevokeRead, RevokeUser, RevokeSecret, ClearMarkers
        <4> QED
          BY <1>1, <2>2, <4>1 DEF SweeperStep, WarmList, WarmDone, WarmItem, SweepOnce, SweepResolve, SweepList,
             SweepLock, SweepUnlock, SweepError, RevokeRead, RevokeUser, RevokeSecret, RemoveOldKey,
             ClearMarkers, Rest, Goto, TypeOK, Procs
      <3> QED
        BY <3>1
    <2> QED
      BY <2>1, <2>2
  <1>6. now <= now'
    BY <1>1, <1>4 DEF TypeOK
  <1> QED
    BY <1>2, <1>3, <1>4, <1>5, <1>6, LeaseFrame

LEMMA SurroundingsLease ==
  ASSUME IInv, IInv', LeaseInv, Surroundings
  PROVE  LeaseInv'
  <1>1. TypeOK
    BY DEF IInv
  <1>2. \A s \in Scopes : UsersStay(s)
    <2>1. UNCHANGED <<user, keys>> \/ \E s \in Scopes : RemoveUser(s)
      BY DEF Surroundings, Tick, Sync, MapsChange, Crash, InformerCatchesUp, SecretDeletedOutOfBand,
         UserDeletedOutOfBand, zitadel
    <2> QED
      BY <1>1, <2>1 DEF RemoveUser, UsersStay, TypeOK
  <1>3. \A s \in Scopes : CopiesOnly(s)
    <2>1. CASE Crash
      BY <2>1, CrashMoves DEF CopiesOnly
    <2>2. CASE ~Crash
      <3>1. UNCHANGED <<cache, list>>
        BY <2>2, SurroundingsMove DEF sweep
      <3>2. \A s \in Scopes : secret'[s] \in {secret[s], None} /\ informer'[s] \in {informer[s], secret[s]}
        BY <1>1, <2>2 DEF Surroundings, Tick, Sync, MapsChange, InformerCatchesUp, SecretDeletedOutOfBand,
           UserDeletedOutOfBand, kubernetes, TypeOK
      <3> QED
        BY <3>1, <3>2, InRecords DEF CopiesOnly, SameView
    <2> QED
      BY <2>1, <2>2
  <1>4. now <= now' /\ nextUser' = nextUser
    <2>1. now \in Nat
      BY <1>1 DEF TypeOK
    <2> QED
      BY <2>1, SurroundingsMove, CrashMoves DEF environment, zitadel
  <1>5. CASE Crash
    <2>1. /\ \A w \in Workers : pc'[w] = "idle" /\ got'[w] = None
          /\ \A p \in Sweepers : pc'[p] # "oldKey"
      BY <1>5, CrashMoves
    <2> QED
      BY <1>2, <1>3, <1>4, <2>1, LeaseFrame DEF EnsurePC
  <1>6. CASE ~Crash
    <2>1. UNCHANGED <<lock, cache, pc, job, op, got, list>>
      BY <1>6, SurroundingsMove DEF sweep
    <2> QED
      BY <1>2, <1>3, <1>4, <2>1, LeaseFrame
  <1> QED
    BY <1>5, <1>6

\* What a step of Ensure that names no new key has to show.
LEMMA EnsureLease ==
  ASSUME IInv, IInv', LeaseInv, NEW w \in Workers, EnsureStep(w), nextUser <= nextUser',
         \A s \in Scopes : UsersStay(s) /\ CopiesOnly(s),
         got'[w] = None \/ (LeaseAt(w)' /\ LiveLease(w)'),
         lock' = w => NewKeyAt(w)'
  PROVE  LeaseInv'
  <1>1. TypeOK /\ lock \in {w, None}
    BY DEF EnsureStep, EnsureLock, WarmLocked, ValidateLocked, DropSecret, MintUser, MintProject,
       MintGrant, MintKey, PersistSecret, RotateKey, RotateSwap, EnsurePC, IInv, ControlOK, Procs
  <1>2. /\ \A q \in Workers : q # w => UNCHANGED <<got[q], job[q], pc[q]>>
        /\ \A p \in Sweepers : UNCHANGED <<pc[p], job[p], list[p]>>
        /\ lock' \in {w, None} /\ now' = now
    BY <1>1, WorkerMoves, ConstantsAssumption DEF WorkerStep, environment, sweep, Procs
  <1>3. \A s \in Scopes : NewKey(s, nextKey)
    BY CopiesStep
  <1>4. nextKey \in Nat /\ now <= now'
    BY <1>1, <1>2 DEF TypeOK
  <1>5. \A q \in Workers : pc'[q] \in EnsurePC => NewKeyAt(q)'
    <2> SUFFICES ASSUME NEW q \in Workers, pc'[q] \in EnsurePC
                 PROVE  NewKeyAt(q)'
      OBVIOUS
    <2>1. lock' = q
      BY DEF IInv, ControlOK, Procs
    <2>2. q = w
      BY <1>2, <2>1, ConstantsAssumption DEF Procs
    <2> QED
      BY <2>1, <2>2
  <1> QED
    BY <1>2, <1>3, <1>4, <1>5, LeaseAll

\* rotateIfDueLocked hands out a delegate whose key is not due, so no copy has rotated it out.
LEMMA ServeLease ==
  ASSUME IInv, LeaseInv, NEW w \in Workers, job[w] \in Scopes, got[w] = None,
         NEW d \in Delegate, NEW locals \in Locals, Serve(w, d, locals),
         UNCHANGED <<now, user, keys, nextUser, secret, informer, list>>,
         cache[job[w]] # None, SameView(d, cache[job[w]]), cache'[job[w]] = d
  PROVE  (got'[w] = None \/ (LeaseAt(w)' /\ LiveLease(w)')) /\ (lock' = w => NewKeyAt(w)')
  <1> DEFINE s == job[w]
  <1>1. TypeOK
    BY DEF IInv
  <1>2. CASE Due(d)
    <2>1. pc'[w] = "rotateKey" /\ UNCHANGED <<job, got>>
      BY <1>1, <1>2 DEF Serve, Continue, Goto, TypeOK, Procs
    <2>2. Due(d)'
      BY <1>2 DEF Due
    <2>3. NewKeyAt(w)'
      BY <2>1, <2>2 DEF NewKeyAt
    <2> QED
      BY <2>1, <2>3
  <1>3. CASE ~Due(d)
    <2> DEFINE g == [user |-> d.user, key |-> d.key, at |-> now]
    <2>1. /\ lock' = None /\ got'[w] = g /\ pc'[w] = "using" /\ job' = job
      BY <1>1, <1>3 DEF Serve, HandOut, Goto, TypeOK, Procs
    <2>2. g.user = d.user /\ g.key = d.key /\ g.at = now
      OBVIOUS
    <2> HIDE DEF g
    <2>3. cache[s] \in Views(s) /\ ~Due(cache[s]) /\ 0 < d.user /\ d.user < nextUser
      BY <1>3, InRecords, ViewsDrawn DEF SameView, Due
    <2>4. (d.user = user[s] => d.key \in keys[s]) /\ \A x \in Records(s) : x.old = 0 \/ x.old # d.key
      BY <2>3 DEF LeaseInv, KeysAge, SameView
    <2>5. Records(job[w])' = Records(job[w])
      BY <2>1 DEF Records
    <2>6. now \in Nat
      BY <1>1 DEF TypeOK
    <2>7. LeaseAt(w)'
      BY <2>1, <2>2, <2>3, <2>4, <2>5, <2>6 DEF LeaseAt
    <2>8. LiveLease(w)'
      BY <2>1, <2>2, <2>4 DEF LiveLease
    <2> QED
      BY <2>1, <2>7, <2>8, ConstantsAssumption DEF Procs
  <1> QED
    BY <1>2, <1>3

\* The steps of Ensure that write no key.
LEMMA QuietEnsureLease ==
  ASSUME IInv, IInv', LeaseInv, UsersAge, NEW w \in Workers, EnsureStep(w),
         ~PersistSecret(w), ~RotateSwap(w)
  PROVE  LeaseInv'
  <1> DEFINE s == job[w]
  <1>1. TypeOK /\ s \in Scopes /\ got[w] = None /\ op \in Locals /\ NewKeyAt(w)
    <2>1. pc[w] \in {"ensure"} \cup EnsurePC
      BY DEF EnsureStep, EnsureLock, WarmLocked, ValidateLocked, DropSecret, MintUser, MintProject,
         MintGrant, MintKey, PersistSecret, RotateKey, RotateSwap, EnsurePC
    <2> QED
      BY <2>1 DEF IInv, ControlOK, EnsurePC, LeaseInv, LeaseAt, TypeOK
  <1>2. list' = list /\ now' = now
    BY WorkerMoves DEF WorkerStep, sweep, environment
  <1>3. nextUser \in Nat /\ nextUser <= nextUser
    BY <1>1 DEF TypeOK
  <1>4. \A q \in Scopes : cache[q] # None => cache[q] \in Views(q) /\ SameView(cache[q], cache[q])
    BY InRecords DEF SameView
  <1>5. CASE EnsureLock(w)
    <2>1. UNCHANGED <<user, keys, nextUser, secret, informer, cache, list>>
      BY <1>2, <1>5 DEF EnsureLock, zitadel, kubernetes
    <2>2. CASE cache[s] # None /\ cache[s].validated /\ Serve(w, cache[s], NoLocals)
      <3>1. cache[s] \in Delegate /\ NoLocals \in Locals /\ SameView(cache[s], cache[s])
        BY <1>1, <2>2 DEF TypeOK, NoLocals, Locals, SameView
      <3> QED
        BY <1>1, <1>2, <1>3, <2>1, <2>2, <3>1, ServeLease, SameCopies, EnsureLease
    <2>3. CASE Continue(w, "warm", NoLocals) \/ Continue(w, "validate", NoLocals)
      <3>1. pc'[w] \in {"warm", "validate"} /\ got' = got
        BY <1>1, <2>3 DEF Continue, Goto, TypeOK, Procs
      <3> QED
        BY <1>1, <1>3, <2>1, <3>1, SameCopies, EnsureLease DEF NewKeyAt
    <2> QED
      BY <1>5, <2>2, <2>3 DEF EnsureLock
  <1>6. CASE WarmLocked(w)
    <2>1. /\ UNCHANGED <<user, keys, nextUser, secret, informer, got>> /\ pc'[w] \in {"mintUser", "validate"}
          /\ \/ cache' = cache
             \/ informer[s] # None /\ cache' = [cache EXCEPT ![s] = FromSecret(informer[s])]
      BY <1>1, <1>6 DEF WarmLocked, Continue, Goto, zitadel, kubernetes, TypeOK, Procs
    <2>2. informer[s] # None => informer[s] \in Views(s) /\ SameView(FromSecret(informer[s]), informer[s])
      BY <1>1, InRecords DEF FromSecret, SameView
    <2>3. \A q \in Scopes : \/ cache'[q] = cache[q]
                            \/ q = s /\ informer[s] # None /\ cache'[q] = FromSecret(informer[s])
      BY <1>1, <2>1 DEF TypeOK
    <2>4. \A q \in Scopes : UsersStay(q) /\ CopiesOnly(q)
      BY <1>2, <1>4, <2>1, <2>2, <2>3 DEF UsersStay, CopiesOnly
    <2> QED
      BY <1>1, <1>3, <2>1, <2>4, EnsureLease DEF NewKeyAt
  <1>7. CASE ValidateLocked(w)
    <2> DEFINE v == [cache[s] EXCEPT !.validated = TRUE]
    <2>1. UNCHANGED <<user, keys, nextUser, secret, informer>> /\ cache[s] \in Delegate /\ cache[s] # None
      BY <1>1, <1>7 DEF ValidateLocked, zitadel, kubernetes, IInv, ControlOK, TypeOK
    <2>2. v \in Delegate /\ SameView(v, cache[s]) /\ v # None
      <3>1. v \in Delegate /\ SameView(v, cache[s])
        BY <2>1 DEF Delegate, SameView
      <3> QED
        BY <3>1, ConstantsAssumption
    <2>3. \/ cache' = [cache EXCEPT ![s] = v] /\ Serve(w, v, op)
          \/ cache' = [cache EXCEPT ![s] = None] /\ Continue(w, "drop", op)
      BY <1>7 DEF ValidateLocked
    <2> HIDE DEF v
    <2>4. \A q \in Scopes : cache'[q] \in {cache[q], None} \/ (q = s /\ cache'[q] = v)
      BY <1>1, <2>3 DEF TypeOK
    <2>5. \A q \in Scopes : UsersStay(q) /\ CopiesOnly(q)
      BY <1>2, <1>4, <2>1, <2>2, <2>4 DEF UsersStay, CopiesOnly
    <2>6. CASE cache' = [cache EXCEPT ![s] = v] /\ Serve(w, v, op)
      <3>1. cache'[s] = v
        BY <1>1, <2>6 DEF TypeOK
      <3> QED
        BY <1>1, <1>2, <1>3, <2>1, <2>2, <2>5, <2>6, <3>1, ServeLease, EnsureLease
    <2>7. CASE Continue(w, "drop", op)
      <3>1. pc'[w] = "drop" /\ got' = got
        BY <1>1, <2>7 DEF Continue, Goto, TypeOK, Procs
      <3> QED
        BY <1>1, <1>3, <2>1, <2>5, <3>1, EnsureLease DEF NewKeyAt
    <2> QED
      BY <2>3, <2>6, <2>7
  <1>8. CASE DropSecret(w)
    <2>1. /\ UNCHANGED <<user, keys, nextUser, informer, cache, got>> /\ pc'[w] \in {"warm", "mintUser", "idle"}
          /\ secret' = [secret EXCEPT ![s] = None]
      BY <1>1, <1>8 DEF DropSecret, Continue, Return, Goto, zitadel, TypeOK, Procs
    <2>2. \A q \in Scopes : secret'[q] \in {secret[q], None}
      BY <1>1, <2>1 DEF TypeOK
    <2>3. \A q \in Scopes : UsersStay(q) /\ CopiesOnly(q)
      BY <1>2, <1>4, <2>1, <2>2 DEF UsersStay, CopiesOnly
    <2> QED
      BY <1>1, <1>3, <2>1, <2>3, EnsureLease DEF NewKeyAt
  <1>9. CASE MintUser(w) \/ MintProject(w) \/ MintGrant(w)
    <2>1. /\ UNCHANGED <<keys, secret, informer, cache, got>>
          /\ pc'[w] \in {"mintProject", "mintGrant", "mintKey", "idle"}
      BY <1>1, <1>9 DEF MintUser, MintProject, MintGrant, AfterUser, Continue, Return, Goto, kubernetes, TypeOK, Procs
    <2>2. nextUser <= nextUser' /\ \A q \in Scopes : user'[q] \in {user[q], nextUser}
      BY <1>1, <1>3, <1>9 DEF MintUser, MintProject, MintGrant, TypeOK
    <2>3. \A q \in Scopes : UsersStay(q) /\ CopiesOnly(q)
      BY <1>2, <1>4, <2>1, <2>2 DEF UsersStay, CopiesOnly
    <2> QED
      BY <1>1, <2>1, <2>2, <2>3, EnsureLease DEF NewKeyAt
  <1>10. CASE MintKey(w) \/ RotateKey(w)
    <2> DEFINE m == [op EXCEPT !.kid = nextKey]
    <2>1. /\ UNCHANGED <<user, nextUser, secret, informer, cache, got>>
          /\ keys' = keys \/ keys' = [keys EXCEPT ![s] = @ \cup {nextKey}]
      BY <1>10 DEF MintKey, RotateKey, AddKey, Continue, Return, kubernetes
    <2>2. \A q \in Scopes : keys[q] \subseteq keys'[q]
      BY <1>1, <2>1 DEF TypeOK
    <2>3. \A q \in Scopes : UsersStay(q) /\ CopiesOnly(q)
      BY <1>2, <1>4, <2>1, <2>2 DEF UsersStay, CopiesOnly
    <2>4. m.kid = nextKey
      BY <1>1 DEF Locals
    <2> HIDE DEF m
    <2>5. \/ lock' = None
          \/ pc[w] = "mintKey" /\ Continue(w, "persist", m)
          \/ pc[w] = "rotateKey" /\ Continue(w, "rotateSwap", m)
      BY <1>10 DEF MintKey, RotateKey, AddKey, Return, m
    <2>6. \/ lock' = None
          \/ /\ op' = m /\ job' = job
             /\ \/ pc'[w] = "persist"
                \/ pc[w] = "rotateKey" /\ pc'[w] = "rotateSwap"
      BY <1>1, <2>5 DEF Continue, Goto, TypeOK, Procs
    <2>7. \A x \in Views(s) : x.key # nextKey
      <3>1. nextKey \in Nat
        BY <1>1 DEF TypeOK
      <3> QED
        BY <1>1, <3>1, ViewsDrawn, ViewTypes
    <2>8. lock' = w => NewKeyAt(w)'
      <3> SUFFICES ASSUME lock' = w
                   PROVE  NewKeyAt(w)'
        OBVIOUS
      <3>1. lock' # None
        BY ConstantsAssumption DEF Procs
      <3>2. Views(job[w])' = Views(job[w])
        BY <1>2, <2>1, <2>6, <3>1 DEF Views, Records
      <3>3. pc[w] = "rotateKey" => Due(cache[job[w]])'
        BY <1>1, <1>2, <2>1, <2>6, <3>1 DEF NewKeyAt, Due
      <3> QED
        BY <2>4, <2>6, <2>7, <3>1, <3>2, <3>3 DEF NewKeyAt
    <2> QED
      BY <1>1, <1>3, <2>1, <2>3, <2>8, EnsureLease
  <1> QED
    BY <1>5, <1>6, <1>7, <1>8, <1>9, <1>10 DEF EnsureStep

\* A step of Ensure that writes the new key: where it is written it belongs to its user, and
\* the key that it rotates out is the cached delegate's, which was due.
LEMMA WriteLease ==
  ASSUME IInv, IInv', LeaseInv, NEW w \in Workers, PersistSecret(w) \/ RotateSwap(w),
         NEW s \in Scopes, s = job[w],
         NEW x \in Secret, NEW d \in Delegate, NEW u \in Nat, Writes(w, s, x, d, Leased(u)),
         0 < u, u < nextUser, u = user[s] => op.kid \in keys[s],
         x.key = op.kid, x.created = now, x.user = user[s] => op.kid \in keys[s],
         d.key = op.kid, d.created = now, d.user = u,
         \/ x.old = 0
         \/ x.revokeAt = now + Grace /\ cache[s] # None /\ x.old = cache[s].key
            /\ Due(cache[s])
  PROVE  LeaseInv'
  <1>0. PICK k \in {op.kid} : TRUE
    OBVIOUS
  <1>1. /\ TypeOK /\ k = op.kid /\ got[w] = None /\ k \in Nat /\ now \in Nat /\ Grace \in Nat
        /\ 0 < k /\ NowhereOld(s, k) /\ \A y \in Views(s) : y.key # k
    <2>1. pc[w] \in {"persist", "rotateSwap"}
      BY DEF PersistSecret, RotateSwap
    <2> QED
      BY <1>0, <2>1, ConstantsAssumption DEF IInv, ControlOK, EnsurePC, LeaseInv, LeaseAt, NewKeyAt, PendingOK,
         PendingAt, TypeOK, Locals
  <1>2. /\ UNCHANGED <<user, keys, nextUser, informer, list, now>> /\ lock' = None
        /\ \A q \in Procs : q # w => pc'[q] = pc[q] /\ job'[q] = job[q]
        /\ \A q \in Workers : q # w => got'[q] = got[q]
    <2>1. WorkerStep(w)
      BY DEF WorkerStep, EnsureStep
    <2> QED
      BY <2>1, WorkerMoves DEF PersistSecret, RotateSwap, Return, HandOut, zitadel, sweep, environment
  <1>3. x # None /\ d # None
    BY ConstantsAssumption
  <1>4. \A y \in Records(s) : y.old # k
    BY <1>1, InRecords DEF NowhereOld
  <1>5. \A y \in Records(s)' : y \in Records(s) \/ y = x
    BY <1>1, <1>2, InRecords DEF Records, Writes
  <1>6. \A y \in Views(s)' : y \in Views(s) \/ y = x \/ y = d
    <2>1. \A y \in Views(s)' : y \in Records(s)' \/ (y # None /\ y = cache'[s])
      BY DEF Views
    <2> QED
      BY <1>1, <1>5, <2>1, InRecords DEF Writes
  <1>7. NewKey(s, k)
    <2>1. \A y \in Views(s)' :
            \/ \E z \in Views(s) : SameView(y, z)
            \/ y.key = k /\ y.created = now' /\ (y.user = user'[s] => k \in keys'[s])
      BY <1>2, <1>6 DEF SameView
    <2>2. \A y \in Records(s)' :
            \/ y.old = 0
            \/ \E z \in Records(s) : SameRecord(y, z)
            \/ /\ y.old # k /\ y.revokeAt = now' + Grace
               /\ \E z \in Views(s) : z.key = y.old /\ Due(z)
      <3>1. cache[s] # None => cache[s] \in Views(s)
        BY <1>1, InRecords
      <3> QED
        BY <1>1, <1>2, <1>5, <3>1 DEF SameRecord
    <2> QED
      BY <1>1, <1>4, <2>1, <2>2 DEF NewKey
  <1>8. \A q \in Scopes : q # s => NewKey(q, nextKey)
    <2>1. \A q \in Scopes : q # s => CopiesOnly(q)
      BY <1>2, InRecords DEF CopiesOnly, SameView, Writes
    <2> QED
      BY <2>1, CopiesStep
  <1>9. got'[w] = None \/ (LeaseAt(w)' /\ LiveLease(w)')
    <2>1. CASE got' = got
      BY <1>1, <2>1
    <2>2. CASE got'[w] = Leased(u)
      <3>1. pc'[w] = "using" /\ job' = job
        <4>1. Leased(u) # None
          BY <1>1, ConstantsAssumption DEF Leased, Lease
        <4> QED
          BY <1>1, <2>2, <4>1 DEF PersistSecret, RotateSwap, Return, HandOut, Goto, TypeOK, Procs
      <3>2. \A y \in Records(s)' : y.old # 0 => y.old # k
        BY <1>1, <1>4, <1>5, InRecords
      <3>3. Records(job[w])' = Records(s)'
        BY <3>1 DEF Records
      <3>4. LeaseAt(w)'
        BY <1>1, <1>2, <2>2, <3>1, <3>2, <3>3 DEF LeaseAt, Leased
      <3>5. LiveLease(w)'
        BY <1>1, <1>2, <2>2, <3>1 DEF LiveLease, Leased
      <3> QED
        BY <3>4, <3>5
    <2> QED
      BY <2>1, <2>2 DEF Writes
  <1>10. \A q \in Workers : pc'[q] \notin EnsurePC
    BY <1>2, ConstantsAssumption DEF IInv, ControlOK, Procs
  <1>11. \A q \in Scopes : UsersStay(q) /\ \E j \in Nat : NewKey(q, j)
    <2>1. nextKey \in Nat
      BY <1>1 DEF TypeOK
    <2>2. \A q \in Scopes : q = s => NewKey(q, k)
      BY <1>7
    <2> QED
      BY <1>1, <1>2, <1>8, <2>1, <2>2 DEF UsersStay
  <1>12. now <= now' /\ nextUser <= nextUser'
    BY <1>1, <1>2 DEF TypeOK
  <1>13. /\ \A q \in Workers : got'[q] = None \/ UNCHANGED <<got[q], job[q], pc[q]>>
                               \/ (LeaseAt(q)' /\ LiveLease(q)')
         /\ \A p \in Sweepers : UNCHANGED <<pc[p], job[p], list[p]>>
    BY <1>2, <1>9, ConstantsAssumption DEF Procs
  <1> QED
    BY <1>10, <1>11, <1>12, <1>13, LeaseAll

LEMMA PersistLease ==
  ASSUME IInv, IInv', LeaseInv, NEW w \in Workers, PersistSecret(w)
  PROVE  LeaseInv'
  <1>1. PICK s \in Scopes : s = job[w]
    BY DEF PersistSecret, IInv, ControlOK, EnsurePC
  <1>2. /\ TypeOK /\ op.uid \in Nat /\ op.kid \in Nat /\ now \in Nat
        /\ 0 < op.uid /\ op.uid < nextUser /\ (user[s] = op.uid => op.kid \in keys[s])
    BY <1>1 DEF PersistSecret, IInv, TypeOK, Locals, PendingOK, PendingAt
  <1>3. Writes(w, s, Persisted, Minted(op.uid), Leased(op.uid))
    BY <1>1, <1>2, PersistOutcome
  <1>4. /\ Persisted \in Secret /\ Minted(op.uid) \in Delegate
        /\ Persisted.key = op.kid /\ Persisted.created = now /\ Persisted.user = op.uid /\ Persisted.old = 0
        /\ Minted(op.uid).key = op.kid /\ Minted(op.uid).created = now /\ Minted(op.uid).user = op.uid
    BY <1>2 DEF Persisted, Minted, Secret, Delegate
  <1> QED
    BY <1>1, <1>2, <1>3, <1>4, WriteLease

LEMMA RotateLease ==
  ASSUME IInv, IInv', LeaseInv, UsersAge, NEW w \in Workers, RotateSwap(w)
  PROVE  LeaseInv'
  <1>1. PICK s \in Scopes : s = job[w]
    BY DEF RotateSwap, IInv, ControlOK, EnsurePC
  <1> DEFINE u == cache[s].user
             x == Rotated(secret[s], cache[s], op.kid)
             d == RotatedDelegate(u)
  <1>2. /\ TypeOK /\ op.kid \in Nat /\ now \in Nat /\ cache[s] \in Delegate /\ cache[s] # None
        /\ user[s] \in {0, op.uid} /\ (user[s] = op.uid => op.kid \in keys[s])
        /\ op.uid = u /\ Due(cache[s])
    BY <1>1 DEF RotateSwap, IInv, ControlOK, TypeOK, Locals, PendingOK, PendingAt, UsersAge, AgeAt, LeaseInv, NewKeyAt
  <1>3. /\ Writes(w, s, x, d, Leased(u))
        /\ secret'[s] # secret[s] => secret[s] # None
    BY <1>1, <1>2, RotateOutcome
  <1>4. u \in Nat /\ 0 < u /\ u < nextUser
    BY <1>2 DEF IInv, FreshOK, Delegate
  <1>5. d \in Delegate /\ d.key = op.kid /\ d.created = now /\ d.user = u
    BY <1>2, <1>4 DEF RotatedDelegate, Delegate
  <1>6. CASE secret[s] # None
    <2>1. secret[s] \in Secret /\ Grace \in Nat /\ cache[s].key \in Nat
      BY <1>2, <1>6, ConstantsAssumption DEF TypeOK, Delegate
    <2>2. /\ x \in Secret /\ x.key = op.kid /\ x.created = now /\ x.user = secret[s].user
          /\ x.old = cache[s].key /\ x.revokeAt = now + Grace
      <3>1. now + Grace \in Nat
        BY <1>2, <2>1
      <3> QED
        BY <1>2, <2>1, <3>1 DEF Rotated, Secret
    <2>3. secret[s].user = user[s] => user[s] = op.uid
      <3>1. secret[s].user # 0
        BY <1>6, <2>1 DEF IInv, FreshOK, Known, Secret
      <3> QED
        BY <1>2, <3>1
    <2> HIDE DEF u, x, d
    <2> QED
      BY <1>1, <1>2, <1>3, <1>4, <1>5, <2>2, <2>3, WriteLease DEF u
  <1>7. CASE secret[s] = None
    <2>1. /\ UNCHANGED <<user, keys, nextUser, secret, informer, cache, list, got>>
          /\ lock' = None
      BY <1>1, <1>7 DEF RotateSwap, Return, zitadel, sweep
    <2>2. nextUser <= nextUser' /\ got[w] = None
      BY <1>2, <2>1 DEF RotateSwap, LeaseInv, LeaseAt, TypeOK
    <2> QED
      BY <2>1, <2>2, SameCopies, EnsureLease, ConstantsAssumption DEF EnsureStep, Procs
  <1> QED
    BY <1>6, <1>7

\* The invariant behind LeaseKeyLive holds in every reachable state.
LEMMA LeaseInductive == Spec => [](IInv /\ UsersAge /\ LeaseInv)
  <1>1. Init => LeaseInv
    <2> SUFFICES ASSUME Init
                 PROVE  LeaseInv
      OBVIOUS
    <2>1. /\ \A w \in Workers : pc[w] = "idle" /\ got[w] = None
          /\ \A p \in Sweepers : pc[p] # "oldKey"
      BY ConstantsAssumption DEF Init, FreshStart, Started, Procs
    <2>2. \A s \in Scopes : Views(s) = {} /\ Records(s) = {}
      BY DEF Init, FreshStart, NothingListed, Views, Records
    <2> QED
      BY <2>1, <2>2 DEF LeaseInv, KeysAge, LeaseAt, NewKeyAt, LeaseKeyLive
  <1>2. IInv /\ UsersAge /\ IInv' /\ LeaseInv /\ [Next]_vars => LeaseInv'
    <2> SUFFICES ASSUME IInv, UsersAge, IInv', LeaseInv, [Next]_vars
                 PROVE  LeaseInv'
      OBVIOUS
    <2>1. CASE UNCHANGED vars
      <3>1. UNCHANGED <<now, user, keys, nextUser, secret, informer, list, lock, cache, pc, job, op, got>>
        BY <2>1 DEF vars, environment, zitadel, kubernetes, sweep
      <3>2. now <= now'
        BY <3>1 DEF IInv, TypeOK
      <3> QED
        BY <3>1, <3>2, SameCopies, LeaseFrame
    <2>2. CASE \E w \in Workers : WorkerStep(w)
      <3>1. PICK w \in Workers : WorkerStep(w)
        BY <2>2
      <3>2. CASE EnsureStep(w)
        BY <3>2, QuietEnsureLease, PersistLease, RotateLease
      <3> QED
        BY <3>1, <3>2, EnsureCallLease DEF WorkerStep
    <2>3. CASE \E p \in Sweepers : SweeperStep(p)
      BY <2>3, SweeperLease
    <2>4. CASE Surroundings
      BY <2>4, SurroundingsLease
    <2> QED
      BY <2>1, <2>2, <2>3, <2>4 DEF Next
  <1> QED
    BY <1>1, <1>2, AgeInductive, PTL DEF Spec

\* Zero-downtime rotation: the key that Ensure gave a reconciler authenticates until Grace has
\* passed, unless its user is gone: however stale the copies are that rotations and sweeps work
\* on, whatever call fails and whenever the process dies, the key is not removed before.
THEOREM LeasesLive == Spec => []LeaseKeyLive
  <1>1. LeaseInv => LeaseKeyLive
    BY DEF LeaseInv
  <1> QED
    BY <1>1, LeaseInductive, PTL

-------------------------------------------------------------------------------
(* A Secret that names a living user *)

\* A step spends at most one failed call.
LEMMA FaultMove ==
  ASSUME TypeOK, [Next]_vars
  PROVE  /\ budget["fault"] \in Nat /\ Budget["fault"] \in Nat
         /\ budget'["fault"] \in {budget["fault"], budget["fault"] - 1}
  <1>1. budget["fault"] \in Nat /\ Budget["fault"] \in Nat
    BY ConstantsAssumption DEF TypeOK, Adversities
  <1>2. (\E k \in Adversities : Spend(k)) => budget'["fault"] \in {budget["fault"], budget["fault"] - 1}
    BY DEF Spend, TypeOK, Adversities
  <1>3. budget' = budget \/ \E k \in Adversities : Spend(k)
    <2>1. \A w \in Workers : WorkerStep(w) => budget' = budget \/ Spend("fault")
      BY DEF WorkerStep, EnsureCall, EnsureError, Done, EnsureStep, EnsureLock, WarmLocked, ValidateLocked,
         DropSecret, MintUser, MintProject, MintGrant, MintKey, PersistSecret, RotateKey, RotateSwap, AddKey,
         Answered, Failed
    <2>2. \A p \in Sweepers : SweeperStep(p) => budget' = budget \/ Spend("fault")
      BY DEF SweeperStep, WarmList, WarmDone, WarmItem, SweepOnce, SweepResolve, SweepList, SweepLock,
         SweepUnlock, SweepItem, SweepError, RevokeRead, RevokeUser, RevokeSecret, RemoveOldKey,
         ClearMarkers, Answered, Failed
    <2>3. Surroundings => budget' = budget \/ \E k \in {"edit", "user", "secret", "crash"} : Spend(k)
      BY DEF Surroundings, Tick, Sync, Crash, MapsChange, InformerCatchesUp, UserDeletedOutOfBand,
         SecretDeletedOutOfBand
    <2>4. UNCHANGED vars => budget' = budget
      BY DEF vars
    <2> QED
      BY <2>1, <2>2, <2>3, <2>4 DEF Next, Adversities
  <1> QED
    BY <1>1, <1>2, <1>3

\* Only PersistSecret makes a Secret, and it is for the scope that the caller works on.
LEMMA OnlyPersistCreates ==
  ASSUME IInv, [Next]_vars, NEW s \in Scopes, secret[s] = None, secret'[s] # None
  PROVE  \E w \in Workers : PersistSecret(w) /\ job[w] = s
  <1>1. TypeOK /\ ControlOK
    BY DEF IInv
  <1>2. ASSUME NEW w \in Workers, WorkerStep(w)
        PROVE  PersistSecret(w) /\ job[w] = s
    <2>1. CASE PersistSecret(w)
      BY <1>1, <2>1 DEF PersistSecret, TypeOK
    <2>2. CASE DropSecret(w) \/ RotateSwap(w)
      BY <1>1, <2>2 DEF DropSecret, RotateSwap, TypeOK
    <2>3. CASE ~(PersistSecret(w) \/ DropSecret(w) \/ RotateSwap(w))
      BY <1>2, <2>3 DEF WorkerStep, EnsureCall, EnsureError, Done, EnsureStep, EnsureLock, WarmLocked,
         ValidateLocked, MintUser, MintProject, MintGrant, MintKey, RotateKey, kubernetes
    <2> QED
      BY <2>1, <2>2, <2>3
  <1>3. ASSUME NEW p \in Sweepers, SweeperStep(p)
        PROVE  FALSE
    <2>1. CASE ClearMarkers(p)
      <3>1. list[p][job[p]] # None
        BY <1>1, <2>1 DEF ClearMarkers, ControlOK
      <3> QED
        BY <1>1, <2>1, <3>1 DEF ClearMarkers, TypeOK
    <2>2. CASE ~ClearMarkers(p)
      BY <1>1, <1>3, <2>2 DEF SweeperStep, WarmList, WarmDone, WarmItem, SweepOnce, SweepResolve, SweepList,
         SweepLock, SweepUnlock, SweepItem, SweepError, RevokeRead, RevokeUser, RevokeSecret, RemoveOldKey,
         kubernetes, TypeOK
    <2> QED
      BY <2>1, <2>2
  <1>4. ~Surroundings /\ ~UNCHANGED vars
    BY <1>1 DEF Surroundings, Tick, Sync, Crash, MapsChange, InformerCatchesUp, UserDeletedOutOfBand,
       SecretDeletedOutOfBand, kubernetes, vars, TypeOK
  <1> QED
    BY <1>2, <1>3, <1>4 DEF Next

\* A Secret that names a living user did so before, unless it is new: users are never
\* re-used, and what is written over a Secret is for the same one.
LEMMA LivingStays ==
  ASSUME IInv, [Next]_vars, NEW s \in Scopes, NamesLiving(s)', secret[s] # None
  PROVE  NamesLiving(s) /\ user'[s] = user[s]
  <1>1. TypeOK /\ 0 < secret[s].user /\ secret[s].user < nextUser /\ secret[s].user \in Nat
        /\ nextUser \in Nat /\ secret[s] \in Secret
    BY DEF IInv, TypeOK, FreshOK, Known, Secret
  <1>2. secret'[s].user = secret[s].user
    <2>1. ASSUME NEW w \in Workers, WorkerStep(w)
          PROVE  secret'[s].user = secret[s].user
      <3>1. CASE RotateSwap(w)
        <4>1. secret'[s] = secret[s] \/ secret'[s] = Rotated(secret[s], cache[s], op.kid)
          BY <1>1, <3>1 DEF RotateSwap, TypeOK
        <4> QED
          BY <1>1, <4>1 DEF Rotated, Secret
      <3>2. CASE PersistSecret(w) \/ DropSecret(w)
        BY <1>1, <3>2 DEF PersistSecret, DropSecret, TypeOK, NamesLiving
      <3>3. CASE ~(PersistSecret(w) \/ DropSecret(w) \/ RotateSwap(w))
        BY <2>1, <3>3 DEF WorkerStep, EnsureCall, EnsureError, Done, EnsureStep, EnsureLock, WarmLocked,
           ValidateLocked, MintUser, MintProject, MintGrant, MintKey, RotateKey, kubernetes
      <3> QED
        BY <3>1, <3>2, <3>3
    <2>2. ASSUME NEW p \in Sweepers, SweeperStep(p)
          PROVE  secret'[s].user = secret[s].user
      <3>1. CASE ClearMarkers(p)
        <4>1. secret'[s] = secret[s] \/ secret'[s] = [secret[s] EXCEPT !.old = 0, !.revokeAt = 0]
          BY <1>1, <3>1 DEF ClearMarkers, TypeOK
        <4> QED
          BY <1>1, <4>1 DEF Secret
      <3>2. CASE ~ClearMarkers(p)
        BY <1>1, <2>2, <3>2 DEF SweeperStep, WarmList, WarmDone, WarmItem, SweepOnce, SweepResolve, SweepList,
           SweepLock, SweepUnlock, SweepItem, SweepError, RevokeRead, RevokeUser, RevokeSecret, RemoveOldKey,
           kubernetes, TypeOK, NamesLiving
      <3> QED
        BY <3>1, <3>2
    <2>3. Surroundings \/ UNCHANGED vars => secret'[s] = secret[s]
      BY <1>1 DEF Surroundings, Tick, Sync, Crash, MapsChange, InformerCatchesUp, UserDeletedOutOfBand,
         SecretDeletedOutOfBand, kubernetes, vars, TypeOK, NamesLiving
    <2> QED
      BY <2>1, <2>2, <2>3 DEF Next
  <1>3. user'[s] \in {user[s], 0, nextUser}
    <2>1. \A w \in Workers : WorkerStep(w) => user'[s] \in {user[s], nextUser}
      BY <1>1 DEF WorkerStep, EnsureCall, EnsureError, Done, EnsureStep, EnsureLock, WarmLocked, ValidateLocked,
         DropSecret, MintUser, MintProject, MintGrant, MintKey, PersistSecret, RotateKey, RotateSwap, zitadel,
         TypeOK
    <2>2. \A p \in Sweepers : SweeperStep(p) => user'[s] \in {user[s], 0}
      BY <1>1 DEF SweeperStep, WarmList, WarmDone, WarmItem, SweepOnce, SweepResolve, SweepList, SweepLock,
         SweepUnlock, SweepItem, SweepError, RevokeRead, RevokeUser, RemoveUser, RevokeSecret, RemoveOldKey,
         ClearMarkers, zitadel, TypeOK
    <2>3. Surroundings \/ UNCHANGED vars => user'[s] \in {user[s], 0}
      BY <1>1 DEF Surroundings, Tick, Sync, Crash, MapsChange, InformerCatchesUp, UserDeletedOutOfBand,
         RemoveUser, SecretDeletedOutOfBand, zitadel, vars, TypeOK
    <2> QED
      BY <2>1, <2>2, <2>3 DEF Next
  <1> QED
    BY <1>1, <1>2, <1>3 DEF NamesLiving

\* A scope of which the operator's copies stay as they are, or get better.
LEMMA TrackFrame ==
  ASSUME NEW s \in Scopes, NamesLiving(s)' => TrackedAt(s) /\ NamesLiving(s) /\ user'[s] = user[s],
         cache'[s] = cache[s], informer'[s] \in {informer[s], secret[s]},
         UNCHANGED <<pc[GCLoop], items[GCLoop], list[GCLoop][s]>>
  PROVE  TrackedAt(s)'
  BY DEF TrackedAt, AgreesOn, NamesLiving

\* A goroutine that does not move, or not to where Secrets and users go.
LEMMA SparedFrame ==
  ASSUME NEW q \in Procs, SparedBy(q), TypeOK,
         \A s \in Scopes : secret[s] # None /\ NamesLiving(s)' => NamesLiving(s) /\ user'[s] = user[s],
         \/ pc'[q] \notin {"warm", "drop", "revokeUser", "revokeSecret"}
         \/ /\ UNCHANGED <<pc[q], job[q], op>>
            /\ \A s \in Scopes : secret[s] = None => secret'[s] = None
            /\ pc[q] \in {"warm", "drop"} => UNCHANGED cache
  PROVE  SparedBy(q)'
  <1>1. job[q] \in Scopes \cup {None}
    BY DEF TypeOK
  <1>2. CASE pc'[q] \notin {"warm", "drop", "revokeUser", "revokeSecret"}
    BY <1>2 DEF SparedBy
  <1>3. CASE /\ UNCHANGED <<pc[q], job[q], op>>
             /\ \A s \in Scopes : secret[s] = None => secret'[s] = None
             /\ pc[q] \in {"warm", "drop"} => UNCHANGED cache
    BY <1>1, <1>3 DEF SparedBy, NamesLiving
  <1> QED
    BY <1>2, <1>3

\* A goroutine about to delete holds the mutex, so no other one creates a Secret.
LEMMA HolderDeletes ==
  ASSUME IInv, [Next]_vars, NEW q \in Procs, lock = q, ~ \E w \in Workers : w = q /\ PersistSecret(w)
  PROVE  \A s \in Scopes : secret[s] = None => secret'[s] = None
  <1>1. \A w \in Workers : PersistSecret(w) => lock = w
    BY DEF PersistSecret, IInv, ControlOK, EnsurePC, Procs
  <1> QED
    BY <1>1, OnlyPersistCreates DEF IInv

\* Every step that is not a failing call: what is assumed of it below.
Unfailing == UNCHANGED budget["fault"] /\ ~CallFailed

LEMMA WorkerTrack ==
  ASSUME IInv, IInv', TrackInv, Unfailing, NEW w \in Workers, WorkerStep(w),
         pc[GCLoop] \in {"warmList", "warmItem"} => \A s \in Scopes : secret[s] = None => secret'[s] = None
  PROVE  (\A s \in Scopes : TrackedAt(s)') /\ (\A q \in Procs : SparedBy(q)')
  <1>1. TypeOK /\ ControlOK /\ [Next]_vars /\ w \in Procs /\ w # GCLoop /\ w # None
    BY ConstantsAssumption DEF IInv, Next, Procs
  <1>2. /\ \A q \in Procs : q # w => pc'[q] = pc[q] /\ job'[q] = job[q]
        /\ UNCHANGED sweep
        /\ lock' \in {w, None} \/ UNCHANGED <<lock, op, cache>>
    BY WorkerMoves
  <1>3. (\A s \in Scopes : TrackedAt(s)) /\ \A q \in Procs : SparedBy(q)
    BY DEF TrackInv, Unfailing
  <1>4. ~Failed
    BY <1>1 DEF Failed, Spend, Unfailing, TypeOK, Adversities
  <1>5. UNCHANGED <<pc[GCLoop], items[GCLoop], list[GCLoop]>>
    BY <1>1, <1>2, ConstantsAssumption DEF sweep, Procs
  <1>6. \A s \in Scopes : secret[s] # None /\ NamesLiving(s)' => NamesLiving(s) /\ user'[s] = user[s]
    BY <1>1, LivingStays
  <1>7. ASSUME NEW s \in Scopes, secret[s] # None, NamesLiving(s)'
        PROVE  TrackedAt(s)'
    <2>1. NamesLiving(s) /\ user'[s] = user[s] /\ TrackedAt(s) /\ informer' = informer
      <3>1. informer' = informer
        BY DEF WorkerStep, EnsureCall, EnsureError, Done, EnsureStep, EnsureLock, WarmLocked, ValidateLocked,
           DropSecret, MintUser, MintProject, MintGrant, MintKey, PersistSecret, RotateKey, RotateSwap, kubernetes
      <3> QED
        BY <1>3, <1>6, <1>7, <3>1
    <2>2. CASE cache'[s] = cache[s]
      BY <1>5, <2>1, <2>2, TrackFrame
    <2>3. CASE WarmLocked(w) /\ job[w] = s
      <3>1. cache'[s] = cache[s] \/ (informer[s] # None /\ cache'[s] = FromSecret(informer[s]))
        BY <1>1, <2>3 DEF WarmLocked, TypeOK
      <3>2. cache[s] = None
        BY <1>1, <1>3, <2>3, ConstantsAssumption DEF WarmLocked, SparedBy
      <3>3. informer[s] # None /\ informer[s].user = user[s] /\ informer[s] \in Secret
        BY <1>1, <2>1, <3>2 DEF TrackedAt, AgreesOn, TypeOK
      <3>4. FromSecret(informer[s]).user = user[s] /\ FromSecret(informer[s]).hasOrg
        BY <3>3 DEF FromSecret
      <3> QED
        BY <1>5, <2>1, <2>2, <3>1, <3>2, <3>3, <3>4 DEF TrackedAt, AgreesOn, NamesLiving
    <2>4. CASE ValidateLocked(w) /\ job[w] = s
      <3>1. cache[s] # None /\ cache[s] \in Delegate
        BY <1>1, <2>4 DEF ValidateLocked, ControlOK, TypeOK
      <3>2. cache'[s] = [cache[s] EXCEPT !.validated = TRUE]
        BY <1>1, <2>1, <2>4, <3>1 DEF ValidateLocked, TrackedAt, TypeOK
      <3>3. cache'[s] # None /\ cache'[s].user = cache[s].user /\ cache'[s].hasOrg = cache[s].hasOrg
        BY <3>1, <3>2, ConstantsAssumption DEF Delegate
      <3> QED
        BY <1>5, <2>1, <3>1, <3>3 DEF TrackedAt, AgreesOn, NamesLiving
    <2>5. CASE RotateSwap(w) /\ job[w] = s
      <3>1. cache[s] # None
        BY <2>5 DEF RotateSwap, IInv, ControlOK
      <3>2. cache'[s] = cache[s] \/ (informer[s] # None /\ cache'[s] = RotatedDelegate(cache[s].user))
        BY <1>1, <2>5 DEF RotateSwap, RotatedDelegate, TypeOK
      <3>3. RotatedDelegate(cache[s].user) # None /\ RotatedDelegate(cache[s].user).user = cache[s].user
        <4>1. cache[s].user \in Nat /\ op.kid \in Nat /\ now \in Nat
          BY <1>1, <3>1 DEF TypeOK, Delegate, Locals
        <4>2. RotatedDelegate(cache[s].user) \in Delegate
          BY <4>1 DEF RotatedDelegate, Delegate
        <4> QED
          BY <4>2, ConstantsAssumption DEF RotatedDelegate
      <3> QED
        BY <1>5, <2>1, <2>2, <3>1, <3>2, <3>3 DEF TrackedAt, AgreesOn, NamesLiving
    <2>6. cache'[s] = cache[s] \/ ((WarmLocked(w) \/ ValidateLocked(w) \/ RotateSwap(w)) /\ job[w] = s)
      BY <1>1, <1>7 DEF WorkerStep, EnsureCall, EnsureError, Done, EnsureStep, EnsureLock, WarmLocked,
         ValidateLocked, DropSecret, MintUser, MintProject, MintGrant, MintKey, PersistSecret, RotateKey,
         RotateSwap, TypeOK
    <2> QED
      BY <2>2, <2>3, <2>4, <2>5, <2>6
  <1>8. ASSUME NEW s \in Scopes, secret[s] = None, secret'[s] # None
        PROVE  TrackedAt(s)'
    <2>1. PersistSecret(w) /\ job[w] = s
      <3>1. PICK v \in Workers : PersistSecret(v) /\ job[v] = s
        BY <1>1, <1>8, OnlyPersistCreates
      <3>2. pc[v] = "persist" /\ pc'[v] # "persist"
        BY <1>1, <3>1 DEF PersistSecret, HandOut, Return, Goto, TypeOK, Procs
      <3> QED
        BY <1>2, <3>1, <3>2 DEF Procs
    <2>2. /\ secret'[s] = Persisted /\ user' = user
          /\ cache'[s] = [FromSecret(Persisted) EXCEPT !.validated = TRUE]
      BY <1>1, <1>4, <1>8, <2>1 DEF PersistSecret, Persisted, zitadel, TypeOK
    <2>3. cache'[s] # None /\ cache'[s].user = op.uid /\ cache'[s].hasOrg
      <3>1. op.uid \in Nat /\ op.kid \in Nat /\ now \in Nat
        BY <1>1 DEF TypeOK, Locals
      <3>2. FromSecret(Persisted) \in Delegate /\ FromSecret(Persisted).user = op.uid
            /\ FromSecret(Persisted).hasOrg
        BY <3>1 DEF FromSecret, Persisted, Delegate
      <3> QED
        BY <2>2, <3>2, ConstantsAssumption DEF Delegate
    <2>4. pc'[GCLoop] \notin {"warmList", "warmItem"}
      BY <1>5, <1>8
    <2> QED
      BY <2>2, <2>3, <2>4 DEF TrackedAt, NamesLiving, Persisted
  <1>9. \A s \in Scopes : TrackedAt(s)'
    BY <1>7, <1>8 DEF TrackedAt, NamesLiving
  <1>10. ASSUME NEW q \in Procs, q # w
         PROVE  SparedBy(q)'
    <2>1. CASE pc'[q] \notin {"warm", "drop", "revokeUser", "revokeSecret"}
      BY <1>1, <1>3, <1>6, <2>1, SparedFrame
    <2>2. CASE pc'[q] \in {"warm", "drop", "revokeUser", "revokeSecret"}
      <3>1. lock = q /\ lock' = q /\ q # None
        BY <1>2, <1>10, <2>2, ConstantsAssumption DEF IInv, ControlOK, EnsurePC, SweepPC
      <3>2. UNCHANGED <<pc[q], job[q], op, cache>>
        BY <1>2, <1>10, <3>1
      <3>3. \A s \in Scopes : secret[s] = None => secret'[s] = None
        BY <1>1, <2>2, <3>1, <3>2, HolderDeletes DEF PersistSecret
      <3> QED
        BY <1>1, <1>3, <1>6, <3>2, <3>3, SparedFrame
    <2> QED
      BY <2>1, <2>2
  <1>11. SparedBy(w)'
    <2> DEFINE s == job[w]
    <2>1. pc'[w] \notin {"revokeUser", "revokeSecret"} /\ w \in Workers
      BY DEF IInv, ControlOK, WorkerRest, EnsurePC
    <2>2. CASE pc'[w] \notin {"warm", "drop"}
      BY <1>1, <1>3, <1>6, <2>1, <2>2, SparedFrame
    <2>3. CASE EnsureLock(w)
      <3>1. job' = job /\ cache' = cache /\ pc'[w] # "drop" /\ (pc'[w] = "warm" => cache[s] = None)
        BY <1>1, <2>3 DEF EnsureLock, Serve, Continue, HandOut, Goto, TypeOK
      <3> QED
        BY <2>1, <3>1 DEF SparedBy
    <2>4. CASE DropSecret(w)
      <3>1. cache[s] = None
        BY <1>1, <1>3, <2>4, ConstantsAssumption DEF DropSecret, ControlOK, WorkerRest, SparedBy
      <3>2. /\ cache' = cache /\ pc'[w] # "drop"
            /\ pc'[w] = "warm" => job' = job
        BY <1>1, <2>4 DEF DropSecret, Continue, Return, Goto, TypeOK
      <3> QED
        BY <2>1, <3>1, <3>2 DEF SparedBy
    <2>5. CASE ValidateLocked(w)
      <3>1. cache[s] # None /\ s \in Scopes /\ job' = job
        BY <1>1, <2>5 DEF ValidateLocked, ControlOK, WorkerRest, Serve, Continue, HandOut
      <3>2. CASE user[s] = cache[s].user
        BY <1>1, <2>1, <2>2, <2>5, <3>2 DEF ValidateLocked, Serve, Continue, HandOut, Goto, TypeOK
      <3>3. CASE user[s] # cache[s].user
        <4>1. cache'[s] = None /\ UNCHANGED <<secret, user>>
          BY <1>1, <2>5, <3>1, <3>3 DEF ValidateLocked, zitadel, kubernetes, TypeOK
        <4>2. ~NamesLiving(s)
          BY <1>3, <3>1, <3>3 DEF TrackedAt
        <4> QED
          BY <2>1, <3>1, <4>1, <4>2 DEF SparedBy, NamesLiving
      <3> QED
        BY <3>2, <3>3
    <2>6. pc'[w] \in {"warm", "drop"} => EnsureLock(w) \/ DropSecret(w) \/ ValidateLocked(w)
      BY <1>1 DEF WorkerStep, EnsureCall, EnsureError, Done, EnsureStep, WarmLocked, MintUser, MintProject,
         MintGrant, MintKey, PersistSecret, RotateKey, RotateSwap, AddKey, AfterUser, Return, HandOut,
         Continue, Goto, TypeOK, Procs
    <2> QED
      BY <2>2, <2>3, <2>4, <2>5, <2>6
  <1> QED
    BY <1>9, <1>10, <1>11

\* A sweeper, or the warm-up.
LEMMA SweeperTrack ==
  ASSUME IInv, IInv', TrackInv, Unfailing, NEW p \in Sweepers, SweeperStep(p)
  PROVE  (\A s \in Scopes : TrackedAt(s)') /\ (\A q \in Procs : SparedBy(q)')
  <1>1. TypeOK /\ ControlOK /\ [Next]_vars /\ p \in Procs /\ p # None
    BY ConstantsAssumption DEF IInv, Next, Procs
  <1>2. /\ \A q \in Procs : q # p => pc'[q] = pc[q] /\ job'[q] = job[q]
        /\ \A q \in Sweepers : q # p => list'[q] = list[q]
    BY SweeperMoves
  <1>3. /\ \A s \in Scopes : TrackedAt(s)
        /\ \A q \in Procs : SparedBy(q)
        /\ pc[p] \in {"warmList", "warmItem"} => p = GCLoop
    BY <1>1 DEF TrackInv, Unfailing
  <1>4. ~Failed
    BY <1>1 DEF Failed, Spend, Unfailing, TypeOK, Adversities
  <1>5. informer' = informer /\ \A q \in Sweepers : q # p => items'[q] = items[q]
    BY <1>1 DEF SweeperStep, WarmList, WarmDone, WarmItem, SweepOnce, SweepResolve, SweepList, SweepLock,
       SweepUnlock, SweepItem, SweepError, RevokeRead, RevokeUser, RevokeSecret, RemoveOldKey,
       ClearMarkers, Rest, sweep, kubernetes, TypeOK
  <1>6. \A s \in Scopes : secret[s] = None => secret'[s] = None
    <2>1. ASSUME NEW w \in Workers, PersistSecret(w)
          PROVE  FALSE
      <3>1. pc[w] = "persist" /\ pc'[w] # "persist"
        BY <1>1, <2>1 DEF PersistSecret, HandOut, Return, Goto, TypeOK, Procs
      <3> QED
        BY <1>2, <3>1, ConstantsAssumption DEF Procs
    <2> QED
      BY <1>1, <2>1, OnlyPersistCreates
  <1>7. \A s \in Scopes : secret[s] # None /\ NamesLiving(s)' => NamesLiving(s) /\ user'[s] = user[s]
    BY <1>1, LivingStays
  <1>8. ASSUME NEW s \in Scopes, NamesLiving(s)'
        PROVE  TrackedAt(s)'
    <2>1. NamesLiving(s) /\ user'[s] = user[s] /\ TrackedAt(s)
      BY <1>3, <1>6, <1>7, <1>8 DEF NamesLiving
    <2>2. /\ pc'[GCLoop] = "warmList" => pc[GCLoop] = "warmList"
          /\ pc'[GCLoop] = "warmItem" /\ s \in items'[GCLoop] => AgreesOn(list[GCLoop][s], s)'
      <3>1. GCLoop \in Sweepers /\ GCLoop \in Procs
        BY ConstantsAssumption DEF Procs
      <3>2. CASE p # GCLoop
        BY <1>2, <1>5, <2>1, <3>1, <3>2 DEF TrackedAt, AgreesOn
      <3>3. CASE p = GCLoop
        <4>1. CASE WarmList(p)
          BY <1>1, <1>5, <2>1, <3>3, <4>1 DEF WarmList, Goto, TypeOK, TrackedAt, AgreesOn
        <4>2. CASE \E t \in Scopes : WarmItem(p, t)
          BY <1>1, <2>1, <3>3, <4>2 DEF WarmItem, TypeOK, TrackedAt, AgreesOn
        <4>3. CASE ~WarmList(p) /\ ~ \E t \in Scopes : WarmItem(p, t)
          BY <1>1, <3>3, <4>3 DEF SweeperStep, WarmDone, SweepOnce, SweepResolve, SweepList, SweepLock,
             SweepUnlock, SweepItem, NextForItem, SweepError, RevokeRead, RevokeUser, RevokeSecret, RemoveOldKey,
             ClearMarkers, Rest, Goto, TypeOK
        <4> QED
          BY <4>1, <4>2, <4>3
      <3> QED
        BY <3>2, <3>3
    <2>3. IF cache'[s] = None THEN AgreesOn(informer[s], s)'
          ELSE cache'[s].user = user'[s] /\ (cache'[s].hasOrg \/ informer'[s] # None)
      <3>1. CASE cache'[s] = cache[s]
        BY <1>5, <2>1, <3>1 DEF TrackedAt, AgreesOn
      <3>2. CASE WarmItem(p, s)
        <4>1. list[p][s] # None /\ list[p][s].user = user[s] /\ list[p][s] \in Secret
          BY <1>1, <1>3, <2>1, <3>2 DEF WarmItem, TrackedAt, AgreesOn, TypeOK
        <4>2. cache'[s] = FromSecret(list[p][s])
          BY <1>1, <3>2 DEF WarmItem, TypeOK
        <4>3. FromSecret(list[p][s]) \in Delegate /\ FromSecret(list[p][s]).user = user[s]
              /\ FromSecret(list[p][s]).hasOrg
          BY <4>1 DEF FromSecret, Delegate, Secret
        <4> QED
          BY <2>1, <4>2, <4>3, ConstantsAssumption
      <3>3. CASE RevokeSecret(p) /\ job[p] = s
        BY <1>1, <1>3, <2>1, <3>3, ConstantsAssumption DEF RevokeSecret, SparedBy
      <3>4. cache'[s] = cache[s] \/ WarmItem(p, s) \/ (RevokeSecret(p) /\ job[p] = s)
        BY <1>1 DEF SweeperStep, WarmList, WarmDone, WarmItem, SweepOnce, SweepResolve, SweepList, SweepLock,
           SweepUnlock, SweepItem, SweepError, RevokeRead, RevokeUser, RevokeSecret, RemoveOldKey,
           ClearMarkers, TypeOK
      <3> QED
        BY <3>1, <3>2, <3>3, <3>4
    <2> QED
      BY <1>5, <2>1, <2>2, <2>3 DEF TrackedAt, AgreesOn
  <1>9. ASSUME NEW q \in Procs, q # p
        PROVE  SparedBy(q)'
    <2>1. CASE pc'[q] \notin {"warm", "drop", "revokeUser", "revokeSecret"}
      BY <1>1, <1>3, <1>7, <2>1, SparedFrame
    <2>2. CASE pc'[q] \in {"warm", "drop", "revokeUser", "revokeSecret"}
      <3>1. lock = q /\ q # None
        BY <1>1, <1>2, <1>9, <2>2, ConstantsAssumption DEF ControlOK, EnsurePC, SweepPC
      <3>2. UNCHANGED <<pc[q], job[q], op, cache>>
        BY <1>1, <1>2, <1>9, <3>1, ConstantsAssumption DEF SweeperStep, WarmList, WarmDone, WarmItem, SweepOnce,
           SweepResolve, SweepList, SweepLock, SweepUnlock, SweepItem, SweepError, RevokeRead, RevokeUser,
           RevokeSecret, RemoveOldKey, ClearMarkers, ControlOK, SweepPC
      <3> QED
        BY <1>1, <1>3, <1>6, <1>7, <3>2, SparedFrame
    <2> QED
      BY <2>1, <2>2
  <1>10. SparedBy(p)'
    <2> DEFINE s == job[p]
    <2>1. pc'[p] \notin {"warm", "drop"}
      BY DEF IInv, ControlOK, SweeperRest, SweepPC
    <2>2. CASE pc'[p] \notin {"revokeUser", "revokeSecret"}
      BY <1>1, <1>3, <1>7, <2>1, <2>2, SparedFrame
    <2>3. CASE RevokeRead(p)
      <3>1. /\ s \in Scopes /\ UNCHANGED <<secret, user, job>> /\ pc'[p] = "revokeUser"
            /\ op' = RevokeLocals(cache[s], informer[s])
        BY <1>1, <2>3 DEF RevokeRead, ControlOK, SweepPC, Goto, zitadel, kubernetes, TypeOK
      <3>2. NamesLiving(s) => op'.uid = user[s] /\ op'.hasOrg
        BY <1>3, <3>1 DEF TrackedAt, AgreesOn, RevokeLocals, NoLocals
      <3> QED
        BY <3>1, <3>2 DEF SparedBy, NamesLiving
    <2>4. CASE RevokeUser(p)
      <3>1. pc[p] = "revokeUser" /\ s \in Scopes /\ UNCHANGED <<secret, job>> /\ pc'[p] # "revokeUser"
        BY <1>1, <2>4 DEF RevokeUser, ControlOK, SweepPC, Goto, kubernetes, TypeOK
      <3>2. ~NamesLiving(s)'
        <4> SUFFICES ASSUME NamesLiving(s)'
                     PROVE  FALSE
          OBVIOUS
        <4>1. NamesLiving(s) /\ user'[s] = user[s] /\ 0 < secret[s].user
          BY <1>7, <3>1 DEF NamesLiving, IInv, FreshOK, Known
        <4>2. op.uid = user[s] /\ op.hasOrg
          BY <1>1, <1>3, <3>1, <4>1, ConstantsAssumption DEF SparedBy
        <4> QED
          BY <1>1, <2>4, <3>1, <4>1, <4>2 DEF RevokeUser, RemoveUser, NamesLiving, TypeOK
      <3> QED
        BY <2>1, <3>1, <3>2 DEF SparedBy
    <2>5. pc'[p] \in {"revokeUser", "revokeSecret"} => RevokeRead(p) \/ RevokeUser(p)
      BY <1>1 DEF SweeperStep, WarmList, WarmDone, WarmItem, SweepOnce, SweepResolve, SweepList, SweepLock,
         SweepUnlock, SweepItem, NextForItem, SweepError, RevokeSecret, RemoveOldKey, ClearMarkers, Rest,
         Goto, TypeOK
    <2> QED
      BY <2>2, <2>3, <2>4, <2>5
  <1> QED
    BY <1>8, <1>9, <1>10 DEF TrackedAt

LEMMA SurroundingsTrack ==
  ASSUME IInv, IInv', TrackInv, Unfailing, Surroundings
  PROVE  (\A s \in Scopes : TrackedAt(s)') /\ (\A q \in Procs : SparedBy(q)')
  <1>1. TypeOK /\ [Next]_vars
    BY DEF IInv, Next
  <1>2. (\A s \in Scopes : TrackedAt(s)) /\ \A q \in Procs : SparedBy(q)
    BY DEF TrackInv, Unfailing
  <1>3. CASE Crash
    <2>1. /\ \A s \in Scopes : cache'[s] = None /\ informer'[s] = secret'[s]
          /\ \A q \in Procs : job'[q] = None
          /\ pc'[GCLoop] # "warmItem"
      BY <1>3, ConstantsAssumption DEF Crash, NothingListed, Started, Procs
    <2> QED
      BY <2>1 DEF TrackedAt, SparedBy, AgreesOn, NamesLiving
  <1>4. CASE ~Crash
    <2>1. UNCHANGED <<lock, cache, pc, job, op, items, list>>
      BY <1>1, <1>4, SurroundingsMove DEF sweep
    <2>2. \A s \in Scopes : informer'[s] \in {informer[s], secret[s]} /\ (secret[s] = None => secret'[s] = None)
      BY <1>1, <1>4 DEF Surroundings, Tick, Sync, MapsChange, InformerCatchesUp, UserDeletedOutOfBand,
         SecretDeletedOutOfBand, kubernetes, TypeOK
    <2>3. \A s \in Scopes : secret[s] # None /\ NamesLiving(s)' => NamesLiving(s) /\ user'[s] = user[s]
      BY <1>1, LivingStays
    <2>4. ASSUME NEW s \in Scopes
          PROVE  TrackedAt(s)'
      <3>1. NamesLiving(s)' => TrackedAt(s) /\ NamesLiving(s) /\ user'[s] = user[s]
        BY <1>2, <2>2, <2>3 DEF NamesLiving
      <3> QED
        BY <2>1, <2>2, <3>1, TrackFrame
    <2>5. ASSUME NEW q \in Procs
          PROVE  SparedBy(q)'
      BY <1>1, <1>2, <2>1, <2>2, <2>3, SparedFrame
    <2> QED
      BY <2>4, <2>5
  <1> QED
    BY <1>3, <1>4

\* WarmFromSecrets runs in the GC's goroutine only, and begins with the process.
LEMMA OnlyGCWarms ==
  ASSUME IInv, [Next]_vars, \A p \in Procs : pc[p] \in {"warmList", "warmItem"} => p = GCLoop
  PROVE  \A p \in Procs : pc'[p] \in {"warmList", "warmItem"} => p = GCLoop
  <1>1. TypeOK
    BY DEF IInv
  <1>2. CASE \E w \in Workers : WorkerStep(w)
    <2>1. PICK w \in Workers : WorkerStep(w)
      BY <1>2
    <2>2. pc'[w] \notin {"warmList", "warmItem"}
      <3>1. IInv'
        BY NextIInv
      <3> QED
        BY <3>1 DEF IInv, ControlOK, WorkerRest, EnsurePC
    <2> QED
      BY <2>1, <2>2, WorkerMoves
  <1>3. CASE \E p \in Sweepers : SweeperStep(p)
    <2>1. PICK p \in Sweepers : SweeperStep(p)
      BY <1>3
    <2>2. pc'[p] \in {"warmList", "warmItem"} => pc[p] \in {"warmList", "warmItem"}
      BY <1>1, <2>1 DEF SweeperStep, WarmList, WarmItem, WarmDone, SweepOnce, SweepResolve, SweepList, SweepLock,
         SweepUnlock, SweepItem, NextForItem, SweepError, RevokeRead, RevokeUser, RevokeSecret, RemoveOldKey,
         ClearMarkers, Rest, Goto, TypeOK, Procs
    <2> QED
      BY <2>1, <2>2, SweeperMoves DEF Procs
  <1>4. CASE Surroundings
    BY <1>4, SurroundingsMove DEF Crash, Started
  <1>5. CASE UNCHANGED vars
    BY <1>5 DEF vars
  <1> QED
    BY <1>2, <1>3, <1>4, <1>5 DEF Next

LEMMA TrackInductive == Spec /\ WarmsAlone => [](IInv /\ TrackInv)
  <1> DEFINE AloneAction ==
        pc[GCLoop] \in {"warmList", "warmItem"} => \A s \in Scopes : secret[s] = None => secret'[s] = None
  <1>1. Init => TrackInv
    <2> SUFFICES ASSUME Init
                 PROVE  TrackInv
      OBVIOUS
    <2>1. \A p \in Procs : pc[p] \in {"warmList", "warmItem"} => p = GCLoop
      BY DEF Init, Started
    <2>2. budget = Budget /\ Budget["fault"] \in Nat
      BY ConstantsAssumption DEF Init, FreshStart, Adversities
    <2>3. \A s \in Scopes : TrackedAt(s)
      BY DEF Init, FreshStart, NothingListed, TrackedAt, NamesLiving
    <2>4. \A p \in Procs : SparedBy(p)
      BY DEF Init, FreshStart, SparedBy
    <2> QED
      BY <2>1, <2>2, <2>3, <2>4 DEF TrackInv
  <1>2. IInv /\ TrackInv /\ [Next]_vars /\ [AloneAction]_vars => (IInv /\ TrackInv)'
    <2> SUFFICES ASSUME IInv, TrackInv, [Next]_vars, [AloneAction]_vars
                 PROVE  IInv' /\ TrackInv'
      OBVIOUS
    <2>1. IInv' /\ TypeOK
      BY NextIInv DEF IInv
    <2>2. \A p \in Procs : pc'[p] \in {"warmList", "warmItem"} => p = GCLoop
      BY OnlyGCWarms DEF TrackInv
    <2>3. /\ budget["fault"] \in Nat /\ Budget["fault"] \in Nat /\ budget["fault"] <= Budget["fault"]
          /\ budget'["fault"] \in {budget["fault"], budget["fault"] - 1}
      BY <2>1, FaultMove DEF TrackInv
    <2>4. budget'["fault"] <= Budget["fault"]
      BY <2>3
    <2>5. CASE CallFailed'
      BY <2>1, <2>2, <2>4, <2>5 DEF TrackInv
    <2>6. CASE ~CallFailed'
      <3>1. Unfailing
        BY <2>3, <2>6 DEF Unfailing, CallFailed
      <3>2. (\A s \in Scopes : TrackedAt(s)') /\ (\A q \in Procs : SparedBy(q)')
        <4>1. CASE UNCHANGED vars
          BY <3>1, <4>1 DEF TrackInv, Unfailing, TrackedAt, AgreesOn, SparedBy, NamesLiving, vars, zitadel,
             kubernetes, sweep
        <4>2. CASE ~UNCHANGED vars
          <5>1. \A w \in Workers : WorkerStep(w)
                  => (\A s \in Scopes : TrackedAt(s)') /\ (\A q \in Procs : SparedBy(q)')
            BY <2>1, <3>1, <4>2, WorkerTrack
          <5> QED
            BY <2>1, <3>1, <4>2, <5>1, SweeperTrack, SurroundingsTrack DEF Next
        <4> QED
          BY <4>1, <4>2
      <3> QED
        BY <2>1, <2>2, <2>4, <3>2 DEF TrackInv
    <2> QED
      BY <2>1, <2>5, <2>6
  <1> QED
    BY <1>1, <1>2, InitIInv, PTL DEF Spec, WarmsAlone

\* Until a call fails, the operator deletes a delegation Secret only once the user it names is
\* gone, whatever goes out of band, however stale its copies are and whenever the process
\* dies: provided that no Secret is made while WarmFromSecrets runs, which has the only
\* step that puts an older entry into the cache.
THEOREM SecretsOutliveUsers == Spec /\ WarmsAlone => SecretOutlivesUser
  <1> DEFINE OutliveAction ==
        \A s \in Scopes :
          secret[s] # None /\ secret'[s] = None /\ ~OutOfBand("secret") /\ ~CallFailed
            => user'[s] # secret[s].user
  <1>1. IInv /\ TrackInv /\ [Next]_vars => [OutliveAction]_vars
    <2> SUFFICES ASSUME IInv, TrackInv, [Next]_vars, NEW s \in Scopes,
                        secret[s] # None, secret'[s] = None, ~OutOfBand("secret"), ~CallFailed
                 PROVE  user'[s] # secret[s].user
      OBVIOUS
    <2>1. TypeOK /\ \A q \in Procs : SparedBy(q)
      BY DEF IInv, TrackInv
    <2>2. (\E w \in Workers : DropSecret(w) /\ job[w] = s) \/ (\E p \in Sweepers : RevokeSecret(p) /\ job[p] = s)
      <3>1. ASSUME NEW w \in Workers, WorkerStep(w)
            PROVE  DropSecret(w) /\ job[w] = s
        <4>1. CASE DropSecret(w)
          BY <2>1, <4>1 DEF DropSecret, TypeOK
        <4>2. CASE PersistSecret(w) \/ RotateSwap(w)
          <5>1. secret'[s] \in {secret[s], Rotated(secret[s], cache[s], op.kid)}
                /\ (secret'[s] # secret[s] => RotateSwap(w) /\ job[w] = s)
            BY <2>1, <4>2 DEF PersistSecret, RotateSwap, TypeOK
          <5>2. RotateSwap(w) /\ job[w] = s => Rotated(secret[s], cache[s], op.kid) \in Secret
            <6> SUFFICES ASSUME RotateSwap(w), job[w] = s
                         PROVE  Rotated(secret[s], cache[s], op.kid) \in Secret
              OBVIOUS
            <6>1. cache[s] \in Delegate /\ secret[s] \in Secret
              BY <2>1 DEF RotateSwap, IInv, ControlOK, TypeOK
            <6>2. cache[s].key \in Nat /\ op.kid \in Nat /\ now \in Nat /\ now + Grace \in Nat
              BY <2>1, <6>1, ConstantsAssumption DEF TypeOK, Locals, Delegate
            <6> QED
              BY <6>1, <6>2 DEF Rotated, Secret
          <5> QED
            BY <5>1, <5>2, ConstantsAssumption
        <4>3. CASE ~(PersistSecret(w) \/ DropSecret(w) \/ RotateSwap(w))
          BY <3>1, <4>3 DEF WorkerStep, EnsureCall, EnsureError, Done, EnsureStep, EnsureLock, WarmLocked,
             ValidateLocked, MintUser, MintProject, MintGrant, MintKey, RotateKey, kubernetes
        <4> QED
          BY <4>1, <4>2, <4>3
      <3>2. ASSUME NEW p \in Sweepers, SweeperStep(p)
            PROVE  RevokeSecret(p) /\ job[p] = s
        <4>1. CASE ClearMarkers(p)
          <5>1. secret'[s] \in {secret[s], [secret[s] EXCEPT !.old = 0, !.revokeAt = 0]} /\ secret[s] \in Secret
            BY <2>1, <4>1 DEF ClearMarkers, TypeOK
          <5>2. [secret[s] EXCEPT !.old = 0, !.revokeAt = 0] \in Secret
            BY <5>1 DEF Secret
          <5> QED
            BY <5>1, <5>2, ConstantsAssumption
        <4>2. CASE ~ClearMarkers(p)
          BY <2>1, <3>2, <4>2 DEF SweeperStep, WarmList, WarmDone, WarmItem, SweepOnce, SweepResolve, SweepList,
             SweepLock, SweepUnlock, SweepItem, SweepError, RevokeRead, RevokeUser, RevokeSecret, RemoveOldKey,
             kubernetes, TypeOK
        <4> QED
          BY <4>1, <4>2
      <3>3. ~Surroundings /\ ~UNCHANGED vars
        <4>1. ~SecretDeletedOutOfBand(s)
          <5>1. Spend("secret") => budget'["secret"] # budget["secret"]
            BY <2>1 DEF Spend, TypeOK, Adversities
          <5> QED
            BY <5>1 DEF SecretDeletedOutOfBand, OutOfBand
        <4> QED
          BY <2>1, <4>1 DEF Surroundings, Tick, Sync, Crash, MapsChange, InformerCatchesUp, UserDeletedOutOfBand,
             SecretDeletedOutOfBand, kubernetes, vars, TypeOK
      <3> QED
        BY <3>1, <3>2, <3>3 DEF Next
    <2>3. PICK q \in Procs : job[q] = s /\ pc[q] \in {"drop", "revokeSecret"} /\ user' = user
      BY <2>2 DEF DropSecret, RevokeSecret, zitadel, Procs
    <2> QED
      BY <2>1, <2>3, ConstantsAssumption DEF SparedBy, NamesLiving
  <1> QED
    BY <1>1, TrackInductive, PTL DEF Spec, SecretOutlivesUser
===============================================================================
