--------------------------- MODULE DelegationProofs ---------------------------
(***************************************************************************)
(* Proofs about Delegation, for every value of its constants: the          *)
(* inductive invariant IInv, and from it type correctness, the life of     *)
(* persisted keys and the order of grants before keys.                     *)
(*                                                                         *)
(* One lemma per action shows that it preserves IInv. The lemmas before    *)
(* them factor what actions share: how a call of Ensure ends (error,       *)
(* delegate, next call), how a sweep moves on, and which conjuncts survive *)
(* a step that touches no record.                                          *)
(***************************************************************************)
EXTENDS Delegation, TLAPS

\* The part of TypeOK that is about the goroutines.
ProcTypeOK ==
  /\ lock \in Procs \cup {None}
  /\ pc \in [Procs -> EnsurePC \cup SweepPC \cup WorkerRest \cup SweeperRest]
  /\ job \in [Procs -> Scopes \cup {None}]
  /\ op \in Locals
  /\ got \in [Workers -> Lease \cup {None}]

\* The mutex is free or w's, so no other goroutine is between two calls under it.
LEMMA Alone ==
  ASSUME ControlOK, TypeOK, NEW w \in Procs, lock \in {w, None},
         NEW q \in Procs, q # w
  PROVE  pc[q] \notin EnsurePC \cup SweepPC
  BY ConstantsAssumption DEF ControlOK

\* Nothing is pending while no worker holds the mutex.
LEMMA NothingPending ==
  ASSUME ControlOK', lock' \notin Workers
  PROVE  PendingOK' /\ PendingGranted'
  <1>1. \A w \in Workers : pc'[w] \notin EnsurePC
    BY DEF ControlOK, Procs
  <1> QED
    BY <1>1 DEF PendingOK, PendingAt, PendingGranted, GrantedAt, EnsurePC

\* An error return of Ensure leaves the mutex free and no call pending.
LEMMA ReturnOutcome ==
  ASSUME TypeOK, ControlOK, NEW w \in Workers, lock \in {w, None}, Return(w),
         UNCHANGED <<list, items>>
  PROVE  ProcTypeOK' /\ ControlOK' /\ PendingOK' /\ PendingGranted' /\ op'.kid = 0
  <1> USE DEF Return, Goto, NoLocals
  <1>1. ProcTypeOK'
    BY DEF TypeOK, ProcTypeOK, WorkerRest, Procs, Locals
  <1>2. ControlOK'
    <2>1. \A q \in Procs : q # w => pc[q] \notin EnsurePC \cup SweepPC
      BY Alone DEF Procs
    <2> QED
      BY <2>1, ConstantsAssumption DEF TypeOK, ControlOK, EnsurePC, SweepPC, WorkerRest, Procs
  <1> QED
    BY <1>1, <1>2, NothingPending, ConstantsAssumption DEF Procs

\* Ensure's return of a delegate leaves the mutex free and no call pending.
LEMMA HandOutOutcome ==
  ASSUME TypeOK, ControlOK, NEW w \in Workers, lock \in {w, None}, job[w] \in Scopes,
         NEW d \in Delegate, HandOut(w, d), UNCHANGED <<list, items>>
  PROVE  ProcTypeOK' /\ ControlOK' /\ PendingOK' /\ PendingGranted' /\ op'.kid = 0
  <1> USE DEF HandOut, Goto, NoLocals
  <1>1. ProcTypeOK'
    BY DEF TypeOK, ProcTypeOK, WorkerRest, Procs, Locals, Delegate, Lease
  <1>2. ControlOK'
    <2>1. \A q \in Procs : q # w => pc[q] \notin EnsurePC \cup SweepPC
      BY Alone DEF Procs
    <2> QED
      BY <2>1, ConstantsAssumption DEF TypeOK, ControlOK, EnsurePC, SweepPC, WorkerRest, Procs
  <1> QED
    BY <1>1, <1>2, NothingPending, ConstantsAssumption DEF Procs

\* Ensure keeps the mutex and goes on to a call that finds its operands.
LEMMA ContinueOutcome ==
  ASSUME TypeOK, ControlOK, NEW w \in Workers, lock \in {w, None}, job[w] \in Scopes,
         NEW l \in EnsurePC, NEW locals \in Locals, Continue(w, l, locals),
         l \in {"validate", "rotateKey", "rotateSwap"} => cache'[job[w]] # None,
         l = "mintProject" => job[w] \in ProjectScopes,
         PendingAt(w)', GrantedAt(w)', UNCHANGED <<list, items>>
  PROVE  ProcTypeOK' /\ ControlOK' /\ PendingOK' /\ PendingGranted'
  <1> USE DEF Continue, Goto
  <1>0. \A q \in Procs : q # w => pc[q] \notin EnsurePC \cup SweepPC
    BY Alone DEF Procs
  <1>1. ProcTypeOK'
    BY DEF TypeOK, ProcTypeOK, Procs
  <1>2. ControlOK'
    BY <1>0, ConstantsAssumption DEF TypeOK, ControlOK, EnsurePC, SweepPC, WorkerRest, Procs
  <1>3. \A q \in Workers : q # w => pc'[q] \notin EnsurePC
    BY <1>0 DEF TypeOK, Procs
  <1> QED
    BY <1>1, <1>2, <1>3 DEF PendingOK, PendingAt, PendingGranted, GrantedAt, EnsurePC

\* What every step of a worker re-establishes about the goroutines.
Settled == ProcTypeOK /\ ControlOK /\ PendingOK /\ PendingGranted

\* Sweepers' listed Secrets are kept, forgotten, or copied from the informer cache.
Copied == \A p \in Sweepers, s \in Scopes : list'[p][s] \in {list[p][s], informer[s], None}

\* Steps that touch neither server's records nor the process's copies of them.
LEMMA DataFrame ==
  ASSUME IInv, op'.kid < nextKey, Copied,
         UNCHANGED <<zitadel, kubernetes, cache>>
  PROVE  /\ FreshOK' /\ OldNotCurrent' /\ KnownGranted'
         /\ PersistedKeyLive' /\ NoUngrantedKey'
  <1> USE DEF IInv, zitadel, kubernetes
  <1>1. FreshOK'
    BY DEF FreshOK, Known, Copied
  <1>2. OldNotCurrent'
    BY DEF OldNotCurrent, NowhereOld, Copied
  <1>3. KnownGranted'
    BY DEF KnownGranted, Membership, Copied
  <1>4. PersistedKeyLive' /\ NoUngrantedKey'
    BY DEF PersistedKeyLive, NoUngrantedKey, Membership
  <1> QED
    BY <1>1, <1>2, <1>3, <1>4

\* A call's outcome leaves the budget of faults well-typed.
LEMMA BudgetType ==
  ASSUME TypeOK, NEW kind \in Adversities, Spend(kind) \/ UNCHANGED budget
  PROVE  budget' \in [Adversities -> Nat]
  <1>1. budget \in [Adversities -> Nat]
    BY DEF TypeOK
  <1> QED
    BY <1>1 DEF Spend

-------------------------------------------------------------------------------
(* Ensure *)

\* A failed call of Ensure (manager.go's error returns) preserves the invariant.
LEMMA EnsureErrorStep ==
  ASSUME IInv, NEW w \in Workers, EnsureError(w)
  PROVE  IInv'
  <1> USE DEF EnsureError
  <1>1. lock = w /\ TypeOK /\ ControlOK /\ 0 < nextKey
    BY DEF IInv, ControlOK, TypeOK, Procs
  <1>2. Settled' /\ op'.kid = 0
    BY <1>1, ReturnOutcome DEF sweep, Settled
  <1>3. TypeOK'
    BY <1>1, <1>2, BudgetType DEF Settled, ProcTypeOK, TypeOK, Adversities, Failed,
       environment, zitadel, kubernetes, sweep
  <1>4. FreshOK' /\ OldNotCurrent' /\ KnownGranted' /\ PersistedKeyLive' /\ NoUngrantedKey'
    BY <1>1, <1>2, DataFrame DEF Copied, sweep
  <1> QED
    BY <1>2, <1>3, <1>4 DEF IInv, Settled

\* rotateIfDueLocked's two ends: the delegate is served, or its rotation starts.
LEMMA ServeOutcome ==
  ASSUME TypeOK, ControlOK, NEW w \in Workers, lock \in {w, None}, job[w] \in Scopes,
         NEW d \in Delegate, NEW locals \in Locals, Serve(w, d, locals),
         cache'[job[w]] # None, user[job[w]] = d.user => Membership(job[w]),
         0 < d.user, d.user < nextUser,
         UNCHANGED <<zitadel, list, items>>
  PROVE  Settled' /\ op'.kid \in {0, locals.kid}
  <1>1. CASE Due(d)
    <2> DEFINE l == "rotateKey"
               m == [locals EXCEPT !.uid = d.user, !.hasOrg = d.hasOrg]
    <2>1. Continue(w, l, m) /\ l \in EnsurePC /\ m \in Locals /\ m.kid = locals.kid /\ m.uid = d.user
      BY <1>1 DEF Serve, EnsurePC, Locals, Delegate
    <2> HIDE DEF m
    <2>2. op' = m /\ job' = job /\ pc'[w] = l
      BY <2>1 DEF Continue, Goto, TypeOK, Procs
    <2>3. PendingAt(w)'
      BY <2>1, <2>2 DEF PendingAt, zitadel
    <2>4. GrantedAt(w)'
      BY <2>1, <2>2 DEF GrantedAt, Membership, zitadel
    <2> QED
      BY <2>1, <2>2, <2>3, <2>4, ContinueOutcome DEF Settled
  <1>2. CASE ~Due(d)
    BY <1>2, HandOutOutcome DEF Serve, Settled
  <1> QED
    BY <1>1, <1>2

\* Taking the mutex and reading the cache preserves the invariant.
LEMMA EnsureLockStep ==
  ASSUME IInv, NEW w \in Workers, EnsureLock(w)
  PROVE  IInv'
  <1> USE DEF EnsureLock
  <1> DEFINE d == cache[job[w]]
  <1>1. lock = None /\ job[w] \in Scopes /\ TypeOK /\ ControlOK /\ 0 < nextKey
    BY DEF IInv, ControlOK, TypeOK
  <1>2. NoLocals \in Locals /\ NoLocals.kid = 0
    BY DEF NoLocals, Locals
  <1>3. Settled' /\ op'.kid = 0
    <2>1. CASE d = None
      <3>1. Continue(w, "warm", NoLocals) /\ "warm" \in EnsurePC
        BY <2>1 DEF EnsurePC
      <3>2. PendingAt(w)' /\ GrantedAt(w)' /\ op' = NoLocals
        BY <3>1, <1>1 DEF PendingAt, GrantedAt, Continue, Goto, TypeOK, Procs
      <3> QED
        BY <1>1, <1>2, <3>1, <3>2, ContinueOutcome DEF Settled, sweep
    <2>2. CASE d # None /\ d.validated
      <3>1. d \in Delegate /\ Serve(w, d, NoLocals) /\ cache' = cache
        BY <1>1, <2>2 DEF TypeOK
      <3>2. (user[job[w]] = d.user => Membership(job[w])) /\ 0 < d.user /\ d.user < nextUser
        BY <1>1, <2>2 DEF IInv, KnownGranted, FreshOK
      <3> QED
        BY <1>1, <1>2, <2>2, <3>1, <3>2, ServeOutcome DEF sweep
    <2>3. CASE d # None /\ ~d.validated
      <3>1. Continue(w, "validate", NoLocals) /\ "validate" \in EnsurePC
        BY <2>3 DEF EnsurePC
      <3>2. PendingAt(w)' /\ GrantedAt(w)' /\ op' = NoLocals
        BY <3>1, <1>1 DEF PendingAt, GrantedAt, Continue, Goto, TypeOK, Procs
      <3> QED
        BY <1>1, <1>2, <2>3, <3>1, <3>2, ContinueOutcome DEF Settled, sweep
    <2> QED
      BY <2>1, <2>2, <2>3
  <1>4. TypeOK'
    BY <1>1, <1>3 DEF Settled, ProcTypeOK, TypeOK, environment, zitadel, kubernetes, sweep
  <1>5. FreshOK' /\ OldNotCurrent' /\ KnownGranted' /\ PersistedKeyLive' /\ NoUngrantedKey'
    BY <1>1, <1>3, DataFrame DEF Copied, sweep
  <1> QED
    BY <1>3, <1>4, <1>5 DEF IInv, Settled

\* Ensure's steps that go on, give up, or return a delegate: enough for most calls.
LEMMA CallOutcome ==
  ASSUME TypeOK, ControlOK, NEW w \in Workers, lock = w, job[w] \in Scopes,
         NEW l \in EnsurePC, NEW locals \in Locals,
         l = "mintProject" => job[w] \in ProjectScopes,
         Continue(w, l, locals) => /\ l \notin {"validate", "rotateKey", "rotateSwap"}
                                   /\ PendingAt(w)' /\ GrantedAt(w)',
         Continue(w, l, locals) \/ Return(w),
         UNCHANGED <<list, items>>
  PROVE  Settled' /\ op'.kid \in {0, locals.kid}
  <1>1. CASE Continue(w, l, locals)
    <2>1. op' = locals
      BY <1>1 DEF Continue
    <2> QED
      BY <1>1, <2>1, ContinueOutcome DEF Settled
  <1>2. CASE Return(w)
    BY <1>2, ReturnOutcome DEF Settled
  <1> QED
    BY <1>1, <1>2

\* A reconciler that drops its delegate client preserves the invariant.
LEMMA DoneStep ==
  ASSUME IInv, NEW w \in Workers, Done(w)
  PROVE  IInv'
  <1> USE DEF Done
  <1>1. TypeOK /\ ControlOK
    BY DEF IInv
  <1>2. TypeOK'
    BY <1>1 DEF TypeOK, Goto, WorkerRest, Procs, environment, zitadel, kubernetes, sweep
  <1>3. ControlOK'
    BY <1>1, ConstantsAssumption DEF ControlOK, TypeOK, Goto, WorkerRest, EnsurePC, SweepPC,
       Procs, sweep
  <1>4. PendingOK' /\ PendingGranted'
    BY <1>1 DEF IInv, PendingOK, PendingAt, PendingGranted, GrantedAt, NowhereOld, Membership,
       TypeOK, Goto, Procs, sweep, zitadel, kubernetes
  <1>5. FreshOK' /\ OldNotCurrent' /\ KnownGranted' /\ PersistedKeyLive' /\ NoUngrantedKey'
    BY DataFrame DEF Copied, IInv, FreshOK, sweep, zitadel
  <1> QED
    BY <1>2, <1>3, <1>4, <1>5 DEF IInv

\* Resolving a scope before the mutex is taken preserves the invariant.
LEMMA EnsureCallStep ==
  ASSUME IInv, NEW w \in Workers, NEW ns \in Namespaces, EnsureCall(w, ns)
  PROVE  IInv'
  <1> USE DEF EnsureCall
  <1>1. TypeOK /\ ControlOK
    BY DEF IInv
  <1>2. TypeOK'
    BY <1>1 DEF TypeOK, Goto, WorkerRest, Procs, environment, zitadel, kubernetes, sweep
  <1>3. ControlOK'
    BY <1>1, ConstantsAssumption DEF ControlOK, TypeOK, Goto, WorkerRest, EnsurePC, SweepPC,
       Procs, environment, sweep
  <1>4. PendingOK' /\ PendingGranted'
    BY <1>1 DEF IInv, PendingOK, PendingAt, PendingGranted, GrantedAt, NowhereOld, Membership,
       TypeOK, Goto, Procs, sweep, zitadel, kubernetes
  <1>5. FreshOK' /\ OldNotCurrent' /\ KnownGranted' /\ PersistedKeyLive' /\ NoUngrantedKey'
    BY DataFrame DEF Copied, IInv, FreshOK, sweep, zitadel
  <1> QED
    BY <1>2, <1>3, <1>4, <1>5 DEF IInv

\* warmLocked: the cache entry made from the informer's copy is a known delegate.
LEMMA WarmLockedStep ==
  ASSUME IInv, NEW w \in Workers, WarmLocked(w)
  PROVE  IInv'
  <1> USE DEF WarmLocked
  <1> DEFINE s == job[w]
             x == informer[s]
             m == [NoLocals EXCEPT !.warmed = TRUE]
  <1>1. lock = w /\ s \in Scopes /\ TypeOK /\ ControlOK /\ FreshOK /\ 0 < nextKey
    BY DEF IInv, ControlOK, TypeOK, EnsurePC, Procs
  <1>2. NoLocals \in Locals /\ m \in Locals /\ NoLocals.kid = 0 /\ m.kid = 0
    BY DEF NoLocals, Locals
  <1>3. x # None => /\ x \in Secret /\ FromSecret(x) \in Delegate /\ cache'[s] = FromSecret(x)
                    /\ FromSecret(x) # None
    <2> HAVE x # None
    <2>1. x \in Secret
      BY <1>1 DEF TypeOK
    <2>2. FromSecret(x) \in Delegate
      BY <2>1 DEF Secret, Delegate, FromSecret
    <2>3. cache'[s] = FromSecret(x)
      BY <1>1 DEF TypeOK
    <2> QED
      BY <2>1, <2>2, <2>3, ConstantsAssumption
  <1>4. cache' \in [Scopes -> Delegate \cup {None}]
    BY <1>1, <1>3 DEF TypeOK
  <1>5. Settled' /\ op'.kid = 0
    <2>1. CASE x = None
      <3>1. Continue(w, "mintUser", NoLocals) /\ "mintUser" \in EnsurePC
        BY <2>1 DEF EnsurePC
      <3>2. PendingAt(w)' /\ GrantedAt(w)' /\ op' = NoLocals
        BY <3>1, <1>1 DEF PendingAt, GrantedAt, Continue, Goto, TypeOK, Procs
      <3> QED
        BY <1>1, <1>2, <3>1, <3>2, ContinueOutcome DEF Settled, sweep
    <2>2. CASE x # None
      <3>1. Continue(w, "validate", m) /\ "validate" \in EnsurePC
        BY <2>2 DEF EnsurePC
      <3>2. PendingAt(w)' /\ GrantedAt(w)' /\ op' = m
        BY <3>1, <1>1 DEF PendingAt, GrantedAt, Continue, Goto, TypeOK, Procs
      <3> QED
        BY <1>1, <1>2, <1>3, <2>2, <3>1, <3>2, ContinueOutcome DEF Settled, sweep
    <2> QED
      BY <2>1, <2>2
  <1>6. TypeOK'
    BY <1>1, <1>4, <1>5 DEF Settled, ProcTypeOK, TypeOK, environment, zitadel, kubernetes, sweep
  <1>7. \A q \in Scopes : \/ cache'[q] = cache[q]
                         \/ /\ informer[q] # None /\ cache'[q].user = informer[q].user
                            /\ cache'[q].key = informer[q].key
    <2>1. CASE x = None
      BY <2>1
    <2>2. CASE x # None
      <3>1. cache' = [cache EXCEPT ![s] = FromSecret(x)]
        BY <2>2
      <3>2. FromSecret(x).user = x.user /\ FromSecret(x).key = x.key
        BY DEF FromSecret
      <3>3. \A q \in Scopes : q # s => cache'[q] = cache[q]
        BY <1>1, <3>1 DEF TypeOK
      <3> QED
        BY <1>3, <2>2, <3>2, <3>3
    <2> QED
      BY <2>1, <2>2
  <1>8. FreshOK' /\ KnownGranted'
    BY <1>1, <1>5, <1>7 DEF IInv, FreshOK, Known, KnownGranted, Membership, zitadel, kubernetes, sweep
  <1>9. OldNotCurrent' /\ PersistedKeyLive' /\ NoUngrantedKey'
    BY DEF IInv, OldNotCurrent, NowhereOld, PersistedKeyLive, NoUngrantedKey, zitadel, kubernetes, sweep
  <1> QED
    BY <1>5, <1>6, <1>7, <1>8, <1>9 DEF IInv, Settled

\* validateLocked: serving, rotating or dropping the entry preserves the invariant.
LEMMA ValidateLockedStep ==
  ASSUME IInv, NEW w \in Workers, ValidateLocked(w)
  PROVE  IInv'
  <1> USE DEF ValidateLocked
  <1> DEFINE s == job[w]
             d == cache[s]
             v == [d EXCEPT !.validated = TRUE]
  <1>1. lock = w /\ s \in Scopes /\ TypeOK /\ ControlOK /\ FreshOK /\ 0 < nextKey
    BY DEF IInv, ControlOK, TypeOK, EnsurePC, Procs
  <1>2. d # None /\ d \in Delegate /\ v \in Delegate /\ v.user = d.user /\ v.key = d.key /\ v # None
    <2>1. d # None
      BY <1>1 DEF ControlOK
    <2>2. d \in Delegate
      BY <1>1, <2>1 DEF TypeOK
    <2>3. v \in Delegate /\ v.user = d.user /\ v.key = d.key
      BY <2>2 DEF Delegate
    <2> QED
      BY <2>1, <2>2, <2>3, ConstantsAssumption
  <1>3. op \in Locals /\ op.kid < nextKey
    BY <1>1 DEF TypeOK, FreshOK
  <1>4. CASE user[s] = d.user
    <2>1. cache' = [cache EXCEPT ![s] = v] /\ Serve(w, v, op)
      BY <1>4
    <2>2. (user[s] = v.user => Membership(s)) /\ 0 < v.user /\ v.user < nextUser
      BY <1>1, <1>2 DEF IInv, KnownGranted, FreshOK
    <2>3. cache'[s] = v /\ cache' \in [Scopes -> Delegate \cup {None}]
      BY <1>1, <1>2, <2>1 DEF TypeOK
    <2>4. Settled' /\ op'.kid < nextKey'
      BY <1>1, <1>2, <1>3, <2>1, <2>2, <2>3, ServeOutcome DEF sweep, zitadel
    <2>5. TypeOK'
      BY <1>1, <2>3, <2>4 DEF Settled, ProcTypeOK, TypeOK, environment, zitadel, kubernetes, sweep
    <2>6. FreshOK'
      BY <1>1, <1>2, <2>1, <2>4 DEF FreshOK, Known, TypeOK, zitadel, kubernetes, sweep
    <2>7. KnownGranted'
      BY <1>1, <1>2, <2>1 DEF IInv, KnownGranted, Membership, TypeOK, zitadel, kubernetes, sweep
    <2> QED
      BY <2>4, <2>5, <2>6, <2>7 DEF IInv, Settled, OldNotCurrent, NowhereOld, PersistedKeyLive,
         NoUngrantedKey, Membership, zitadel, kubernetes, sweep
  <1>5. CASE user[s] # d.user
    <2>1. cache' = [cache EXCEPT ![s] = None] /\ Continue(w, "drop", op) /\ "drop" \in EnsurePC
      BY <1>5 DEF EnsurePC
    <2>2. PendingAt(w)' /\ GrantedAt(w)' /\ op' = op
      BY <2>1, <1>1 DEF PendingAt, GrantedAt, Continue, Goto, TypeOK, Procs
    <2>3. Settled' /\ op'.kid < nextKey'
      BY <1>1, <1>3, <2>1, <2>2, ContinueOutcome DEF Settled, sweep, zitadel
    <2>4. TypeOK'
      BY <1>1, <2>1, <2>3 DEF Settled, ProcTypeOK, TypeOK, environment, zitadel, kubernetes, sweep
    <2>5. FreshOK' /\ KnownGranted'
      BY <1>1, <2>1, <2>3 DEF IInv, FreshOK, Known, KnownGranted, Membership, TypeOK, zitadel, kubernetes, sweep
    <2> QED
      BY <2>3, <2>4, <2>5 DEF IInv, Settled, OldNotCurrent, NowhereOld, PersistedKeyLive,
         NoUngrantedKey, Membership, zitadel, kubernetes, sweep
  <1> QED
    BY <1>4, <1>5

\* Deleting the stale Secret preserves the invariant.
LEMMA DropSecretStep ==
  ASSUME IInv, NEW w \in Workers, DropSecret(w)
  PROVE  IInv'
  <1> USE DEF DropSecret
  <1> DEFINE l == IF op.warmed THEN "mintUser" ELSE "warm"
  <1>1. lock = w /\ job[w] \in Scopes /\ TypeOK /\ ControlOK /\ FreshOK /\ 0 < nextKey
    BY DEF IInv, ControlOK, TypeOK, EnsurePC, Procs
  <1>2. NoLocals \in Locals /\ NoLocals.kid = 0 /\ l \in EnsurePC /\ l \in {"mintUser", "warm"}
    BY DEF NoLocals, Locals, EnsurePC
  <1>3. Continue(w, l, NoLocals) \/ Return(w)
    OBVIOUS
  <1> HIDE DEF l
  <1>4. Continue(w, l, NoLocals) => PendingAt(w)' /\ GrantedAt(w)'
    BY <1>1, <1>2 DEF PendingAt, GrantedAt, Continue, Goto, TypeOK, Procs
  <1>5. Settled' /\ op'.kid = 0
    BY <1>1, <1>2, <1>3, <1>4, CallOutcome DEF sweep
  <1>6. TypeOK'
    BY <1>1, <1>5, BudgetType DEF Settled, ProcTypeOK, TypeOK, Adversities, Answered, Failed,
       environment, zitadel, kubernetes, sweep
  <1>7. FreshOK' /\ KnownGranted'
    BY <1>1, <1>5 DEF IInv, FreshOK, Known, KnownGranted, Membership, TypeOK, zitadel, kubernetes, sweep
  <1>8. OldNotCurrent' /\ PersistedKeyLive' /\ NoUngrantedKey'
    BY <1>1 DEF IInv, OldNotCurrent, NowhereOld, PersistedKeyLive, NoUngrantedKey, Membership,
       TypeOK, zitadel, kubernetes, sweep
  <1> QED
    BY <1>5, <1>6, <1>7, <1>8 DEF IInv, Settled

\* A created machine user has a fresh id, so no record names it yet.
LEMMA MintUserStep ==
  ASSUME IInv, NEW w \in Workers, MintUser(w)
  PROVE  IInv'
  <1> USE DEF MintUser
  <1> DEFINE s == job[w]
             l == AfterUser(s)
             m == [NoLocals EXCEPT !.uid = user'[s]]
  <1>1. lock = w /\ s \in Scopes /\ TypeOK /\ ControlOK /\ FreshOK /\ 0 < nextKey
    BY DEF IInv, ControlOK, TypeOK, EnsurePC, Procs
  <1>2. /\ user' \in [Scopes -> Nat] /\ nextUser' \in Nat \ {0} /\ nextUser <= nextUser'
        /\ \A q \in Scopes : user'[q] < nextUser' /\ user'[q] \in {user[q], nextUser}
        /\ 0 < user'[s]
    <2>1. /\ user \in [Scopes -> Nat] /\ nextUser \in Nat \ {0}
          /\ \A q \in Scopes : user[q] < nextUser
      BY <1>1 DEF TypeOK, FreshOK
    <2>2. CASE user[s] # 0
      BY <1>1, <2>1, <2>2
    <2>3. CASE user[s] = 0
      <3>1. user' = [user EXCEPT ![s] = nextUser] /\ nextUser' = nextUser + 1
        BY <2>3
      <3> QED
        BY <1>1, <2>1, <3>1
    <2> QED
      BY <2>2, <2>3
  <1>3. m \in Locals /\ m.kid = 0 /\ m.uid = user'[s]
    BY <1>1, <1>2 DEF NoLocals, Locals
  <1>4. l \in EnsurePC /\ l \in {"mintProject", "mintGrant"}
        /\ (l = "mintGrant" <=> s \notin ProjectScopes)
    BY DEF EnsurePC, AfterUser
  <1>5. Continue(w, l, m) \/ Return(w)
    OBVIOUS
  <1> HIDE DEF l, m
  <1>6. Continue(w, l, m) => PendingAt(w)' /\ GrantedAt(w)'
    <2> HAVE Continue(w, l, m)
    <2>1. op' = m /\ pc'[w] = l /\ job'[w] = s
      BY <1>1 DEF Continue, Goto, TypeOK, Procs
    <2> QED
      BY <1>1, <1>2, <1>3, <1>4, <2>1 DEF PendingAt, GrantedAt
  <1>7. Settled' /\ op'.kid = 0
    BY <1>1, <1>3, <1>4, <1>5, <1>6, CallOutcome DEF sweep
  <1>8. TypeOK'
    BY <1>1, <1>2, <1>7, BudgetType DEF Settled, ProcTypeOK, TypeOK, Adversities, Answered, Failed,
       environment, kubernetes, sweep
  <1>9. FreshOK'
    BY <1>1, <1>2, <1>7 DEF FreshOK, Known, TypeOK, Secret, Delegate, kubernetes, sweep
  <1>10. \A q \in Scopes : user'[q] = user[q] \/ user'[q] = nextUser
    BY <1>2
  <1>11. KnownGranted'
    BY <1>1, <1>10 DEF IInv, FreshOK, Known, KnownGranted, Membership, TypeOK, Secret, Delegate,
       kubernetes, sweep
  <1>12. OldNotCurrent' /\ PersistedKeyLive' /\ NoUngrantedKey'
    BY <1>1, <1>10 DEF IInv, FreshOK, Known, OldNotCurrent, NowhereOld, PersistedKeyLive,
       NoUngrantedKey, Membership, TypeOK, Secret, kubernetes, sweep
  <1> QED
    BY <1>7, <1>8, <1>9, <1>11, <1>12 DEF IInv, Settled

\* Creating the scope's project preserves the invariant.
LEMMA MintProjectStep ==
  ASSUME IInv, NEW w \in Workers, MintProject(w)
  PROVE  IInv'
  <1> USE DEF MintProject
  <1>1. lock = w /\ job[w] \in Scopes /\ op \in Locals /\ op.kid < nextKey
        /\ TypeOK /\ ControlOK /\ FreshOK /\ 0 < nextKey /\ PendingAt(w)
    BY DEF IInv, ControlOK, TypeOK, FreshOK, PendingOK, EnsurePC, Procs
  <1>2. Continue(w, "mintGrant", op) \/ Return(w)
    OBVIOUS
  <1>3. Continue(w, "mintGrant", op) => PendingAt(w)' /\ GrantedAt(w)'
    BY <1>1 DEF PendingAt, GrantedAt, Continue, Goto, TypeOK, Procs
  <1>4. Settled' /\ op'.kid < nextKey
    BY <1>1, <1>2, <1>3, CallOutcome DEF EnsurePC, sweep
  <1>5. projects' \subseteq ProjectScopes
    BY <1>1 DEF ControlOK, TypeOK
  <1>6. TypeOK'
    BY <1>1, <1>4, <1>5, BudgetType DEF Settled, ProcTypeOK, TypeOK, Adversities, Answered, Failed,
       environment, kubernetes, sweep
  <1>7. FreshOK'
    BY <1>1, <1>4 DEF FreshOK, Known, kubernetes, sweep
  <1>8. OldNotCurrent' /\ PersistedKeyLive'
    BY <1>1 DEF IInv, OldNotCurrent, NowhereOld, PersistedKeyLive, kubernetes, sweep
  <1>9. KnownGranted' /\ NoUngrantedKey'
    BY <1>1 DEF IInv, KnownGranted, Membership, NoUngrantedKey, kubernetes, sweep
  <1> QED
    BY <1>4, <1>6, <1>7, <1>8, <1>9 DEF IInv, Settled

\* A granted membership is what later steps of the mint rely on.
LEMMA MintGrantStep ==
  ASSUME IInv, NEW w \in Workers, MintGrant(w)
  PROVE  IInv'
  <1> USE DEF MintGrant
  <1>1. lock = w /\ job[w] \in Scopes /\ op \in Locals /\ op.kid < nextKey
        /\ TypeOK /\ ControlOK /\ FreshOK /\ 0 < nextKey /\ PendingAt(w) /\ GrantedAt(w)
    BY DEF IInv, ControlOK, TypeOK, FreshOK, PendingOK, PendingGranted, EnsurePC, Procs
  <1>2. Continue(w, "mintKey", op) \/ Return(w)
    OBVIOUS
  <1>3. Continue(w, "mintKey", op) => PendingAt(w)' /\ GrantedAt(w)'
    <2> HAVE Continue(w, "mintKey", op)
    <2>1. pc'[w] = "mintKey" /\ job' = job /\ op' = op
      BY <1>1 DEF Continue, Goto, TypeOK, Procs
    <2>2. ~Return(w)
      BY ConstantsAssumption DEF Continue, Return, Procs
    <2>3. granted' = granted \cup {job[w]}
      BY <2>2
    <2> QED
      BY <1>1, <2>1, <2>3 DEF PendingAt, GrantedAt, Membership
  <1>4. Settled' /\ op'.kid < nextKey
    BY <1>1, <1>2, <1>3, CallOutcome DEF EnsurePC, sweep
  <1>5. granted \subseteq granted' /\ granted' \subseteq Scopes
    BY <1>1 DEF TypeOK
  <1>6. TypeOK'
    BY <1>1, <1>4, <1>5, BudgetType DEF Settled, ProcTypeOK, TypeOK, Adversities, Answered, Failed,
       environment, kubernetes, sweep
  <1>7. FreshOK'
    BY <1>1, <1>4 DEF FreshOK, Known, kubernetes, sweep
  <1>8. OldNotCurrent' /\ PersistedKeyLive'
    BY <1>1 DEF IInv, OldNotCurrent, NowhereOld, PersistedKeyLive, kubernetes, sweep
  <1>9. KnownGranted' /\ NoUngrantedKey'
    BY <1>1, <1>5 DEF IInv, KnownGranted, Membership, NoUngrantedKey, kubernetes, sweep
  <1> QED
    BY <1>4, <1>6, <1>7, <1>8, <1>9 DEF IInv, Settled

\* A fresh key belongs to a user that has its membership, and no copy of the Secret has
\* it as a rotated-out key (AddMachineKey in mint and in rotateIfDueLocked).
LEMMA AddKeyOutcome ==
  ASSUME IInv, NEW w \in Workers, lock = w, job[w] \in Scopes,
         NEW reachable \in BOOLEAN, NEW l \in {"persist", "rotateSwap"},
         AddKey(w, reachable, l),
         reachable => user[job[w]] = op.uid /\ Membership(job[w]),
         0 < op.uid, op.uid < nextUser,
         l = "rotateSwap" => cache[job[w]] # None,
         UNCHANGED <<environment, synced, user, granted, projects, nextUser,
                     kubernetes, cache, sweep, deadAtStart>>
  PROVE  IInv'
  <1> DEFINE s == job[w]
             m == [op EXCEPT !.kid = nextKey]
  <1>1. TypeOK /\ ControlOK /\ FreshOK /\ op \in Locals /\ nextKey \in Nat \ {0}
    BY DEF IInv, TypeOK
  <1>2. CASE ~reachable
    <2>1. Answered /\ Return(w) /\ UNCHANGED <<keys, nextKey>>
      BY <1>2 DEF AddKey
    <2>2. Settled' /\ op'.kid = 0
      BY <1>1, <2>1, ReturnOutcome DEF Settled, sweep
    <2>3. TypeOK'
      BY <1>1, <2>1, <2>2 DEF Settled, ProcTypeOK, TypeOK, Answered, environment, kubernetes, sweep
    <2>4. FreshOK' /\ OldNotCurrent' /\ KnownGranted' /\ PersistedKeyLive' /\ NoUngrantedKey'
      BY <1>1, <2>1, <2>2, DataFrame DEF Copied, sweep, zitadel
    <2> QED
      BY <2>2, <2>3, <2>4 DEF IInv, Settled
  <1>3. CASE reachable
    <2>1. /\ keys' = [keys EXCEPT ![s] = @ \cup {nextKey}] /\ nextKey' = nextKey + 1
          /\ (Answered /\ Continue(w, l, m)) \/ (Failed /\ Return(w))
      BY <1>3 DEF AddKey
    <2>2. m \in Locals /\ m.kid = nextKey /\ m.uid = op.uid /\ l \in EnsurePC
      BY <1>1 DEF Locals, EnsurePC
    <2> HIDE DEF m
    <2>3. Known(secret[s]) /\ Known(informer[s]) /\ \A p \in Sweepers : Known(list[p][s])
      BY <1>1 DEF FreshOK
    <2>4. NowhereOld(s, nextKey) /\ (cache[s] # None => cache[s].key # nextKey)
      BY <1>1, <2>3 DEF FreshOK, Known, NowhereOld, TypeOK, Secret, Delegate
    <2>5. nextKey \in keys'[s] /\ \A q \in Scopes : keys[q] \subseteq keys'[q]
      BY <1>1, <2>1 DEF TypeOK
    <2>6. Continue(w, l, m) => PendingAt(w)' /\ GrantedAt(w)'
      <3> HAVE Continue(w, l, m)
      <3>1. pc'[w] = l /\ job'[w] = s /\ op' = m
        BY <1>1 DEF Continue, Goto, TypeOK, Procs
      <3> QED
        BY <1>1, <1>3, <2>2, <2>4, <2>5, <3>1 DEF PendingAt, GrantedAt, Membership, NowhereOld,
           kubernetes, sweep
    <2>7. Settled' /\ op'.kid \in {0, nextKey}
      <3>1. CASE Continue(w, l, m)
        <4>1. op' = m
          BY <3>1 DEF Continue
        <4> QED
          BY <1>1, <2>2, <2>6, <3>1, <4>1, ContinueOutcome DEF Settled, sweep
      <3>2. CASE Return(w)
        BY <1>1, <3>2, ReturnOutcome DEF Settled, sweep
      <3> QED
        BY <2>1, <3>1, <3>2
    <2>8. keys' \in [Scopes -> SUBSET Nat] /\ \A q \in Scopes : \A k \in keys'[q] : k < nextKey'
      BY <1>1, <2>1 DEF TypeOK, FreshOK
    <2>9. TypeOK'
      BY <1>1, <2>1, <2>7, <2>8, BudgetType DEF Settled, ProcTypeOK, TypeOK, Adversities, Answered,
         Failed, environment, kubernetes, sweep
    <2>10. FreshOK'
      BY <1>1, <2>1, <2>7, <2>8 DEF FreshOK, Known, TypeOK, Secret, Delegate, kubernetes, sweep
    <2>11. OldNotCurrent' /\ KnownGranted'
      BY DEF IInv, OldNotCurrent, NowhereOld, KnownGranted, Membership, kubernetes, sweep
    <2>12. PersistedKeyLive'
      BY <2>5 DEF IInv, PersistedKeyLive, kubernetes
    <2>13. NoUngrantedKey'
      BY <1>1, <1>3, <2>1 DEF IInv, NoUngrantedKey, Membership, TypeOK
    <2> QED
      BY <2>7, <2>9, <2>10, <2>11, <2>12, <2>13 DEF IInv, Settled
  <1> QED
    BY <1>2, <1>3

\* The mint's AddMachineKey preserves the invariant.
LEMMA MintKeyStep ==
  ASSUME IInv, NEW w \in Workers, MintKey(w)
  PROVE  IInv'
  <1> DEFINE reachable == user[job[w]] = op.uid
  <1>1. pc[w] = "mintKey" /\ AddKey(w, reachable, "persist")
    BY DEF MintKey
  <1>2. lock = w /\ job[w] \in Scopes /\ PendingAt(w) /\ GrantedAt(w)
    BY <1>1 DEF IInv, ControlOK, PendingOK, PendingGranted, EnsurePC, Procs
  <1>3. reachable \in BOOLEAN /\ (reachable => user[job[w]] = op.uid /\ Membership(job[w]))
        /\ 0 < op.uid /\ op.uid < nextUser
    BY <1>1, <1>2 DEF PendingAt, GrantedAt
  <1> HIDE DEF reachable
  <1> QED
    BY <1>1, <1>2, <1>3, AddKeyOutcome DEF MintKey

\* The rotation's AddMachineKey preserves the invariant.
LEMMA RotateKeyStep ==
  ASSUME IInv, NEW w \in Workers, RotateKey(w)
  PROVE  IInv'
  <1> DEFINE reachable == user[job[w]] = op.uid /\ (op.hasOrg \/ job[w] \in HomeScopes)
  <1>1. pc[w] = "rotateKey" /\ AddKey(w, reachable, "rotateSwap")
    BY DEF RotateKey
  <1>2. lock = w /\ job[w] \in Scopes /\ cache[job[w]] # None /\ PendingAt(w) /\ GrantedAt(w)
    BY <1>1 DEF IInv, ControlOK, PendingOK, PendingGranted, EnsurePC, Procs
  <1>3. reachable \in BOOLEAN /\ (reachable => user[job[w]] = op.uid /\ Membership(job[w]))
        /\ 0 < op.uid /\ op.uid < nextUser
    BY <1>1, <1>2 DEF PendingAt, GrantedAt
  <1> HIDE DEF reachable
  <1> QED
    BY <1>1, <1>2, <1>3, AddKeyOutcome DEF RotateKey

\* persistSecret records a key that is live and that no sweep could take for an old one.
LEMMA PersistSecretStep ==
  ASSUME IInv, NEW w \in Workers, PersistSecret(w)
  PROVE  IInv'
  <1> USE DEF PersistSecret
  <1> DEFINE s == job[w]
             x == [user |-> op.uid, key |-> op.kid, created |-> now, old |-> 0, revokeAt |-> 0]
             d == [FromSecret(x) EXCEPT !.validated = TRUE]
  <1>1. lock = w /\ s \in Scopes /\ op \in Locals /\ op.kid < nextKey /\ nextKey \in Nat \ {0}
        /\ TypeOK /\ ControlOK /\ FreshOK /\ PendingAt(w) /\ GrantedAt(w)
    BY DEF IInv, ControlOK, TypeOK, FreshOK, PendingOK, PendingGranted, EnsurePC, Procs
  <1>2. CASE secret[s] # None
    <2>1. Answered /\ Return(w) /\ UNCHANGED <<secret, cache>>
      BY <1>2
    <2>2. Settled' /\ op'.kid = 0
      BY <1>1, <2>1, ReturnOutcome DEF Settled, sweep
    <2>3. TypeOK'
      BY <1>1, <2>1, <2>2 DEF Settled, ProcTypeOK, TypeOK, Answered, environment, zitadel, sweep
    <2>4. FreshOK' /\ OldNotCurrent' /\ KnownGranted' /\ PersistedKeyLive' /\ NoUngrantedKey'
      BY <1>1, <2>1, <2>2, DataFrame DEF Copied, sweep, kubernetes
    <2> QED
      BY <2>2, <2>3, <2>4 DEF IInv, Settled
  <1>3. CASE secret[s] = None
    <2>1. /\ secret' = [secret EXCEPT ![s] = x]
          /\ \/ Answered /\ cache' = [cache EXCEPT ![s] = d] /\ HandOut(w, d)
             \/ Failed /\ Return(w) /\ UNCHANGED cache
      BY <1>3
    <2>2. x \in Secret /\ x.user = op.uid /\ x.key = op.kid /\ x.old = 0
      BY <1>1 DEF TypeOK, Locals, Secret
    <2>3. d \in Delegate /\ d.user = op.uid /\ d.key = op.kid
      BY <1>1 DEF TypeOK, Locals, Delegate, FromSecret
    <2>4. x # None /\ d # None
      BY <2>2, <2>3, ConstantsAssumption
    <2>5. /\ 0 < op.uid /\ op.uid < nextUser /\ 0 < op.kid /\ user[s] \in {0, op.uid}
          /\ (user[s] = op.uid => op.kid \in keys[s] /\ Membership(s)) /\ NowhereOld(s, op.kid)
      BY <1>1 DEF PendingAt, GrantedAt
    <2> HIDE DEF x, d
    <2>6. Settled' /\ op'.kid = 0
      <3>1. CASE HandOut(w, d)
        BY <1>1, <2>3, <3>1, HandOutOutcome DEF Settled, sweep
      <3>2. CASE Return(w)
        BY <1>1, <3>2, ReturnOutcome DEF Settled, sweep
      <3> QED
        BY <2>1, <3>1, <3>2
    <2>7. /\ secret' \in [Scopes -> Secret \cup {None}]
          /\ cache' \in [Scopes -> Delegate \cup {None}]
          /\ secret'[s] = x /\ cache'[s] \in {cache[s], d}
          /\ \A q \in Scopes : q # s => secret'[q] = secret[q] /\ cache'[q] = cache[q]
      <3>1. secret \in [Scopes -> Secret \cup {None}] /\ cache \in [Scopes -> Delegate \cup {None}]
        BY <1>1 DEF TypeOK
      <3>2. cache' = cache \/ cache' = [cache EXCEPT ![s] = d]
        BY <2>1
      <3> QED
        BY <1>1, <2>1, <2>2, <2>3, <3>1, <3>2
    <2>8. TypeOK'
      BY <1>1, <2>1, <2>6, <2>7, BudgetType DEF Settled, ProcTypeOK, TypeOK, Adversities, Answered,
         Failed, environment, zitadel, sweep
    <2>9. FreshOK'
      <3>1. Known(x)
        BY <1>1, <2>2, <2>5 DEF Known
      <3> QED
        BY <1>1, <2>3, <2>5, <2>6, <2>7, <3>1 DEF FreshOK, Known, zitadel, sweep
    <2>10. OldNotCurrent'
      <3>1. \A q \in Scopes : q = s => NowhereOld(q, secret[q].key)'
        BY <1>1, <2>2, <2>4, <2>5, <2>7 DEF NowhereOld, sweep
      <3>2. \A q \in Scopes : q # s => (secret'[q] # None => NowhereOld(q, secret[q].key)')
        BY <2>7 DEF IInv, OldNotCurrent, NowhereOld, sweep
      <3> QED
        BY <3>1, <3>2 DEF OldNotCurrent
    <2>11. KnownGranted'
      BY <2>2, <2>3, <2>5, <2>7 DEF IInv, KnownGranted, Membership, zitadel, sweep
    <2>12. PersistedKeyLive'
      BY <2>2, <2>5, <2>7 DEF IInv, PersistedKeyLive, zitadel
    <2>13. NoUngrantedKey'
      BY DEF IInv, NoUngrantedKey, zitadel
    <2> QED
      BY <2>6, <2>8, <2>9, <2>10, <2>11, <2>12, <2>13 DEF IInv, Settled
  <1> QED
    BY <1>2, <1>3

\* The rotation's Update records the new key, live, and another one as the old.
LEMMA RotateSwapStep ==
  ASSUME IInv, NEW w \in Workers, RotateSwap(w)
  PROVE  IInv'
  <1> USE DEF RotateSwap
  <1> DEFINE s == job[w]
             d == cache[s]
             x == Rotated(secret[s], d, op.kid)
             n == [user |-> d.user, key |-> op.kid, created |-> now,
                   hasOrg |-> FALSE, validated |-> TRUE]
  <1>1. lock = w /\ s \in Scopes /\ op \in Locals /\ op.kid < nextKey /\ nextKey \in Nat \ {0}
        /\ TypeOK /\ ControlOK /\ FreshOK /\ PendingAt(w) /\ GrantedAt(w) /\ d # None
    BY DEF IInv, ControlOK, TypeOK, FreshOK, PendingOK, PendingGranted, EnsurePC, Procs
  <1>2. CASE informer[s] = None \/ informer[s] # secret[s]
    <2>1. Answered /\ Return(w) /\ UNCHANGED <<secret, cache>>
      BY <1>2
    <2>2. Settled' /\ op'.kid = 0
      BY <1>1, <2>1, ReturnOutcome DEF Settled, sweep
    <2>3. TypeOK'
      BY <1>1, <2>1, <2>2 DEF Settled, ProcTypeOK, TypeOK, Answered, environment, zitadel, sweep
    <2>4. FreshOK' /\ OldNotCurrent' /\ KnownGranted' /\ PersistedKeyLive' /\ NoUngrantedKey'
      BY <1>1, <2>1, <2>2, DataFrame DEF Copied, sweep, kubernetes
    <2> QED
      BY <2>2, <2>3, <2>4 DEF IInv, Settled
  <1>3. CASE informer[s] # None /\ informer[s] = secret[s]
    <2>1. /\ secret' = [secret EXCEPT ![s] = x]
          /\ \/ Answered /\ cache' = [cache EXCEPT ![s] = n] /\ HandOut(w, n)
             \/ Failed /\ Return(w) /\ UNCHANGED cache
      BY <1>3
    <2>2. secret[s] \in Secret /\ d \in Delegate
      BY <1>1, <1>3 DEF TypeOK
    <2>3. x \in Secret /\ x.user = secret[s].user /\ x.key = op.kid /\ x.old = d.key
      <3>1. op.kid \in Nat /\ d.key \in Nat /\ now \in Nat /\ now + Grace \in Nat
        BY <1>1, <2>2, ConstantsAssumption DEF TypeOK, Locals, Delegate
      <3> QED
        BY <2>2, <3>1 DEF Secret, Rotated
    <2>4. n \in Delegate /\ n.user = d.user /\ n.key = op.kid
      BY <1>1, <2>2 DEF TypeOK, Locals, Delegate
    <2>5. x # None /\ n # None
      BY <2>3, <2>4, ConstantsAssumption
    <2>6. /\ 0 < op.kid /\ user[s] \in {0, op.uid}
          /\ (user[s] = op.uid => op.kid \in keys[s] /\ Membership(s)) /\ NowhereOld(s, op.kid)
          /\ d.key # op.kid
      BY <1>1 DEF PendingAt, GrantedAt
    <2>7. /\ 0 < x.user /\ x.user < nextUser /\ x.old < nextKey /\ 0 < n.user /\ n.user < nextUser
      BY <1>1, <1>3, <2>3, <2>4 DEF FreshOK, Known
    <2> HIDE DEF x, n
    <2>8. Settled' /\ op'.kid = 0
      <3>1. CASE HandOut(w, n)
        BY <1>1, <2>4, <3>1, HandOutOutcome DEF Settled, sweep
      <3>2. CASE Return(w)
        BY <1>1, <3>2, ReturnOutcome DEF Settled, sweep
      <3> QED
        BY <2>1, <3>1, <3>2
    <2>9. /\ secret' \in [Scopes -> Secret \cup {None}]
          /\ cache' \in [Scopes -> Delegate \cup {None}]
          /\ secret'[s] = x /\ cache'[s] \in {cache[s], n}
          /\ \A q \in Scopes : q # s => secret'[q] = secret[q] /\ cache'[q] = cache[q]
      <3>1. secret \in [Scopes -> Secret \cup {None}] /\ cache \in [Scopes -> Delegate \cup {None}]
        BY <1>1 DEF TypeOK
      <3>2. s \in Scopes
        BY <1>1
      <3>3. cache' = [cache EXCEPT ![s] = n] \/ cache' = cache
        BY <2>1
      <3> QED
        BY <2>1, <2>3, <2>4, <3>1, <3>2, <3>3
    <2>10. TypeOK'
      BY <1>1, <2>1, <2>8, <2>9, BudgetType DEF Settled, ProcTypeOK, TypeOK, Adversities, Answered,
         Failed, environment, zitadel, sweep
    <2>11. FreshOK'
      <3>1. Known(x)
        BY <1>1, <2>3, <2>6, <2>7 DEF Known
      <3> QED
        BY <1>1, <2>4, <2>7, <2>8, <2>9, <3>1 DEF FreshOK, Known, zitadel, sweep
    <2>12. OldNotCurrent'
      <3>1. \A q \in Scopes : q = s => NowhereOld(q, secret[q].key)'
        BY <1>1, <2>3, <2>5, <2>6, <2>9 DEF NowhereOld, sweep
      <3>2. \A q \in Scopes : q # s => (secret'[q] # None => NowhereOld(q, secret[q].key)')
        BY <2>9 DEF IInv, OldNotCurrent, NowhereOld, sweep
      <3> QED
        BY <3>1, <3>2 DEF OldNotCurrent
    <2>13. KnownGranted'
      BY <1>1, <1>3, <2>3, <2>4, <2>6, <2>9 DEF IInv, KnownGranted, Membership, zitadel, sweep
    <2>14. PersistedKeyLive'
      BY <2>3, <2>6, <2>7, <2>9 DEF IInv, PersistedKeyLive, zitadel
    <2>15. NoUngrantedKey'
      BY DEF IInv, NoUngrantedKey, zitadel
    <2> QED
      BY <2>8, <2>10, <2>11, <2>12, <2>13, <2>14, <2>15 DEF IInv, Settled
  <1> QED
    BY <1>2, <1>3

-------------------------------------------------------------------------------
(* Sweepers *)

\* The empty list of Secrets is a list of Secrets.
LEMMA NothingListedType ==
  NothingListed \in [Scopes -> Secret \cup {None}]
  BY DEF NothingListed

\* What the lock holder has pending survives steps that change none of its operands.
LEMMA PendingFrame ==
  ASSUME IInv, Copied, \A w \in Workers : pc'[w] = pc[w] /\ job'[w] = job[w], op' = op,
         UNCHANGED <<zitadel, kubernetes, cache>>
  PROVE  PendingOK' /\ PendingGranted'
  <1> SUFFICES ASSUME NEW w \in Workers
               PROVE  PendingAt(w)' /\ GrantedAt(w)'
    BY DEF PendingOK, PendingGranted
  <1>1. PendingAt(w) /\ GrantedAt(w) /\ pc'[w] = pc[w] /\ job'[w] = job[w] /\ op' = op
    BY DEF IInv, PendingOK, PendingGranted
  <1>2. GrantedAt(w)'
    BY <1>1 DEF GrantedAt, Membership, zitadel
  <1>3. PendingAt(w)'
    <2>1. CASE pc[w] \in {"persist", "rotateSwap"}
      <3>1. job[w] \in Scopes
        BY <2>1 DEF IInv, ControlOK
      <3> QED
        BY <1>1, <2>1, <3>1 DEF PendingAt, NowhereOld, Copied, zitadel, kubernetes
    <2>2. CASE pc[w] \notin {"persist", "rotateSwap"}
      BY <1>1, <2>2 DEF PendingAt, zitadel
    <2> QED
      BY <2>1, <2>2
  <1> QED
    BY <1>2, <1>3

\* Listing the Secrets to warm from preserves the invariant.
LEMMA WarmListStep ==
  ASSUME IInv, NEW p \in Sweepers, WarmList(p)
  PROVE  IInv'
  <1> USE DEF WarmList, Goto
  <1>1. TypeOK /\ ControlOK
    BY DEF IInv
  <1>2. TypeOK'
    <2>1. pc' \in [Procs -> EnsurePC \cup SweepPC \cup WorkerRest \cup SweeperRest]
          /\ job' \in [Procs -> Scopes \cup {None}]
      BY <1>1 DEF TypeOK, SweeperRest, SweepPC, Procs, sweep
    <2>2. /\ live' \in [Sweepers -> SUBSET Scopes] /\ nsLeft' \in [Sweepers -> SUBSET Namespaces]
          /\ items' \in [Sweepers -> SUBSET Scopes]
      <3>1. {s \in Scopes : informer[s] # None} \in SUBSET Scopes
        OBVIOUS
      <3>2. live' \in [Sweepers -> SUBSET Scopes]
        BY <1>1 DEF TypeOK, sweep
      <3>3. nsLeft' \in [Sweepers -> SUBSET Namespaces]
        BY <1>1 DEF TypeOK, sweep
      <3>4. items' \in [Sweepers -> SUBSET Scopes]
        BY <1>1, <3>1 DEF TypeOK, sweep
      <3> QED
        BY <3>2, <3>3, <3>4
    <2>3. list' \in [Sweepers -> [Scopes -> Secret \cup {None}]]
      BY <1>1, NothingListedType DEF TypeOK, sweep
    <2>4. budget' \in [Adversities -> Nat]
      BY <1>1, BudgetType DEF TypeOK, Adversities, Answered, Failed
    <2> QED
      BY <1>1, <2>1, <2>2, <2>3, <2>4 DEF TypeOK, environment, zitadel, kubernetes, sweep, Procs
  <1>3. ControlOK'
    <2>1. \A q \in Procs : pc'[q] \in EnsurePC \cup SweepPC => pc'[q] = pc[q]
      BY <1>1 DEF TypeOK, EnsurePC, SweepPC, Procs
    <2>2. \A q \in Sweepers : pc'[q] \in SweepPC \/ pc[q] \in SweepPC
                              => q # p /\ job'[q] = job[q] /\ list'[q] = list[q]
      BY <1>1, <2>1 DEF TypeOK, SweepPC, Procs, sweep
    <2>3. \A q \in Sweepers : pc'[q] \in SweeperRest \cup SweepPC
      BY <1>1 DEF ControlOK, TypeOK, SweeperRest, Procs
    <2>4. \A q \in Sweepers : \A s \in items'[q] : list'[q][s] # None
      <3>1. \A q \in Sweepers : q # p => items'[q] = items[q] /\ list'[q] = list[q]
        BY <1>1 DEF TypeOK, sweep
      <3>2. \A s \in items'[p] : list'[p][s] # None
        <4>1. CASE /\ list' = [list EXCEPT ![p] = informer]
                   /\ items' = [items EXCEPT ![p] = {s \in Scopes : informer[s] # None}]
          BY <1>1, <4>1 DEF TypeOK
        <4>2. CASE UNCHANGED <<list, items>>
          BY <1>1, <4>2 DEF ControlOK
        <4> QED
          BY <4>1, <4>2
      <3> QED
        BY <1>1, <3>1, <3>2 DEF ControlOK
    <2>5. \A w \in Workers : pc'[w] = pc[w] /\ job'[w] = job[w]
      BY <1>1, ConstantsAssumption DEF TypeOK, Procs
    <2> QED
      BY <1>1, <2>1, <2>2, <2>3, <2>4, <2>5 DEF ControlOK, Procs, SweepPC
  <1>4. Copied
    BY <1>1, NothingListedType DEF Copied, TypeOK, NothingListed, sweep
  <1>5. \A w \in Workers : pc'[w] = pc[w] /\ job'[w] = job[w]
    BY <1>1, ConstantsAssumption DEF TypeOK, Procs
  <1> QED
    BY <1>2, <1>3, <1>4, <1>5, DataFrame, PendingFrame DEF IInv, FreshOK, zitadel

\* The end of WarmFromSecrets preserves the invariant.
LEMMA WarmDoneStep ==
  ASSUME IInv, NEW p \in Sweepers, WarmDone(p)
  PROVE  IInv'
  <1> USE DEF WarmDone, Goto, Rest
  <1>1. TypeOK /\ ControlOK
    BY DEF IInv
  <1>2. TypeOK'
    <2>1. pc' \in [Procs -> EnsurePC \cup SweepPC \cup WorkerRest \cup SweeperRest]
          /\ job' \in [Procs -> Scopes \cup {None}]
      BY <1>1 DEF TypeOK, SweeperRest, SweepPC, Procs, sweep
    <2>2. /\ live' \in [Sweepers -> SUBSET Scopes] /\ nsLeft' \in [Sweepers -> SUBSET Namespaces]
          /\ items' \in [Sweepers -> SUBSET Scopes]
      BY <1>1 DEF TypeOK, environment, sweep
    <2>3. list' \in [Sweepers -> [Scopes -> Secret \cup {None}]]
      BY <1>1, NothingListedType DEF TypeOK, sweep
    <2>4. budget' \in [Adversities -> Nat]
      BY <1>1, BudgetType DEF TypeOK, Adversities, Answered, Failed
    <2> QED
      BY <1>1, <2>1, <2>2, <2>3, <2>4 DEF TypeOK, environment, zitadel, kubernetes, sweep, Procs
  <1>3. ControlOK'
    BY <1>1, ConstantsAssumption DEF ControlOK, TypeOK, WorkerRest, SweeperRest, EnsurePC, SweepPC,
       Procs, sweep
  <1>4. Copied
    BY <1>1, NothingListedType DEF Copied, TypeOK, NothingListed, sweep
  <1>5. \A w \in Workers : pc'[w] = pc[w] /\ job'[w] = job[w]
    BY <1>1, ConstantsAssumption DEF TypeOK, Procs
  <1> QED
    BY <1>2, <1>3, <1>4, <1>5, DataFrame, PendingFrame DEF IInv, FreshOK, zitadel

\* The start of a sweep preserves the invariant.
LEMMA SweepOnceStep ==
  ASSUME IInv, NEW p \in Sweepers, SweepOnce(p)
  PROVE  IInv'
  <1> USE DEF SweepOnce, Goto
  <1>1. TypeOK /\ ControlOK
    BY DEF IInv
  <1>2. TypeOK'
    <2>1. pc' \in [Procs -> EnsurePC \cup SweepPC \cup WorkerRest \cup SweeperRest]
          /\ job' \in [Procs -> Scopes \cup {None}]
      BY <1>1 DEF TypeOK, SweeperRest, SweepPC, Procs, sweep
    <2>2. /\ live' \in [Sweepers -> SUBSET Scopes] /\ nsLeft' \in [Sweepers -> SUBSET Namespaces]
          /\ items' \in [Sweepers -> SUBSET Scopes]
      BY <1>1 DEF TypeOK, environment, sweep
    <2>3. list' \in [Sweepers -> [Scopes -> Secret \cup {None}]]
      BY <1>1, NothingListedType DEF TypeOK, sweep
    <2>4. budget' \in [Adversities -> Nat]
      BY <1>1, BudgetType DEF TypeOK, Adversities, Answered, Failed
    <2> QED
      BY <1>1, <2>1, <2>2, <2>3, <2>4 DEF TypeOK, environment, zitadel, kubernetes, sweep, Procs
  <1>3. ControlOK'
    BY <1>1, ConstantsAssumption DEF ControlOK, TypeOK, WorkerRest, SweeperRest, EnsurePC, SweepPC,
       Procs, sweep
  <1>4. Copied
    BY <1>1, NothingListedType DEF Copied, TypeOK, NothingListed, sweep
  <1>5. \A w \in Workers : pc'[w] = pc[w] /\ job'[w] = job[w]
    BY <1>1, ConstantsAssumption DEF TypeOK, Procs
  <1> QED
    BY <1>2, <1>3, <1>4, <1>5, DataFrame, PendingFrame DEF IInv, FreshOK, zitadel

\* Resolving one namespace of a sweep preserves the invariant.
LEMMA SweepResolveStep ==
  ASSUME IInv, NEW p \in Sweepers, NEW ns \in Namespaces, SweepResolve(p, ns)
  PROVE  IInv'
  <1> USE DEF SweepResolve, Goto, Rest
  <1>1. TypeOK /\ ControlOK
    BY DEF IInv
  <1>2. TypeOK'
    <2>1. pc' \in [Procs -> EnsurePC \cup SweepPC \cup WorkerRest \cup SweeperRest]
          /\ job' \in [Procs -> Scopes \cup {None}]
      BY <1>1 DEF TypeOK, SweeperRest, SweepPC, Procs, sweep
    <2>2. /\ live' \in [Sweepers -> SUBSET Scopes] /\ nsLeft' \in [Sweepers -> SUBSET Namespaces]
          /\ items' \in [Sweepers -> SUBSET Scopes]
      <3>1. scopeOf[ns] \in Scopes \cup {None} /\ live[p] \subseteq Scopes
        BY <1>1 DEF TypeOK
      <3>2. live[p] \cup ({scopeOf[ns]} \ {None}) \in SUBSET Scopes
        BY <3>1
      <3>3. live' \in [Sweepers -> SUBSET Scopes]
        <4>1. live \in [Sweepers -> SUBSET Scopes]
          BY <1>1 DEF TypeOK
        <4>2. \E S \in SUBSET Scopes : live' = [live EXCEPT ![p] = S]
          BY <3>2
        <4> QED
          BY <4>1, <4>2
      <3>4. nsLeft' \in [Sweepers -> SUBSET Namespaces]
        <4>1. nsLeft \in [Sweepers -> SUBSET Namespaces]
          BY <1>1 DEF TypeOK
        <4>2. \E S \in SUBSET Namespaces : nsLeft' = [nsLeft EXCEPT ![p] = S]
          BY <4>1
        <4> QED
          BY <4>1, <4>2
      <3>5. items' \in [Sweepers -> SUBSET Scopes]
        BY <1>1 DEF TypeOK
      <3> QED
        BY <3>3, <3>4, <3>5
    <2>3. list' \in [Sweepers -> [Scopes -> Secret \cup {None}]]
      BY <1>1, NothingListedType DEF TypeOK, sweep
    <2>4. budget' \in [Adversities -> Nat]
      BY <1>1, BudgetType DEF TypeOK, Adversities, Answered, Failed
    <2>5. edited' \in [Sweepers -> SUBSET Namespaces]
      <3>1. edited \in [Sweepers -> SUBSET Namespaces]
        BY <1>1 DEF TypeOK
      <3>2. \E S \in SUBSET Namespaces : edited' = [edited EXCEPT ![p] = S] \/ edited' = edited
        BY <3>1
      <3> QED
        BY <3>1, <3>2
    <2> QED
      BY <1>1, <2>1, <2>2, <2>3, <2>4, <2>5 DEF TypeOK, environment, zitadel, kubernetes, sweep, Procs
  <1>3. ControlOK'
    BY <1>1, ConstantsAssumption DEF ControlOK, TypeOK, WorkerRest, SweeperRest, EnsurePC, SweepPC,
       Procs, sweep
  <1>4. Copied
    <2>1. \A q \in Sweepers : list'[q] = list[q] \/ list'[q] = NothingListed
      BY <1>1 DEF TypeOK
    <2>2. UNCHANGED informer
      BY DEF kubernetes
    <2> QED
      BY <2>1, <2>2 DEF Copied, NothingListed
  <1>5. \A w \in Workers : pc'[w] = pc[w] /\ job'[w] = job[w]
    BY <1>1, ConstantsAssumption DEF TypeOK, Procs
  <1> QED
    BY <1>2, <1>3, <1>4, <1>5, DataFrame, PendingFrame DEF IInv, FreshOK, zitadel

\* Listing the Secrets to sweep preserves the invariant.
LEMMA SweepListStep ==
  ASSUME IInv, NEW p \in Sweepers, SweepList(p)
  PROVE  IInv'
  <1> USE DEF SweepList, Goto, Rest
  <1>1. TypeOK /\ ControlOK
    BY DEF IInv
  <1>2. TypeOK'
    <2>1. pc' \in [Procs -> EnsurePC \cup SweepPC \cup WorkerRest \cup SweeperRest]
          /\ job' \in [Procs -> Scopes \cup {None}]
      BY <1>1 DEF TypeOK, SweeperRest, SweepPC, Procs, sweep
    <2>2. /\ live' \in [Sweepers -> SUBSET Scopes] /\ nsLeft' \in [Sweepers -> SUBSET Namespaces]
          /\ items' \in [Sweepers -> SUBSET Scopes]
      <3>1. {s \in Scopes : informer[s] # None} \in SUBSET Scopes
        OBVIOUS
      <3>2. live' \in [Sweepers -> SUBSET Scopes]
        BY <1>1 DEF TypeOK, sweep
      <3>3. nsLeft' \in [Sweepers -> SUBSET Namespaces]
        <4>1. nsLeft \in [Sweepers -> SUBSET Namespaces]
          BY <1>1 DEF TypeOK
        <4>2. nsLeft' = nsLeft \/ nsLeft' = [nsLeft EXCEPT ![p] = {}]
          BY DEF sweep
        <4> QED
          BY <4>1, <4>2
      <3>4. items' \in [Sweepers -> SUBSET Scopes]
        BY <1>1, <3>1 DEF TypeOK, sweep
      <3> QED
        BY <3>2, <3>3, <3>4
    <2>3. list' \in [Sweepers -> [Scopes -> Secret \cup {None}]]
      BY <1>1, NothingListedType DEF TypeOK, sweep
    <2>4. budget' \in [Adversities -> Nat]
      BY <1>1, BudgetType DEF TypeOK, Adversities, Answered, Failed
    <2> QED
      BY <1>1, <2>1, <2>2, <2>3, <2>4 DEF TypeOK, environment, zitadel, kubernetes, sweep, Procs
  <1>3. ControlOK'
    <2>1. \A q \in Procs : pc'[q] \in EnsurePC \cup SweepPC => pc'[q] = pc[q]
      BY <1>1 DEF TypeOK, EnsurePC, SweepPC, Procs
    <2>2. \A q \in Sweepers : pc'[q] \in SweepPC \/ pc[q] \in SweepPC
                              => q # p /\ job'[q] = job[q] /\ list'[q] = list[q]
      BY <1>1, <2>1 DEF TypeOK, SweepPC, Procs, sweep
    <2>3. \A q \in Sweepers : pc'[q] \in SweeperRest \cup SweepPC
      BY <1>1 DEF ControlOK, TypeOK, SweeperRest, Procs
    <2>4. \A q \in Sweepers : \A s \in items'[q] : list'[q][s] # None
      <3>1. \A q \in Sweepers : q # p => items'[q] = items[q] /\ list'[q] = list[q]
        BY <1>1 DEF TypeOK, sweep
      <3>2. \A s \in items'[p] : list'[p][s] # None
        BY <1>1 DEF TypeOK, sweep
      <3> QED
        BY <1>1, <3>1, <3>2 DEF ControlOK
    <2>5. \A w \in Workers : pc'[w] = pc[w] /\ job'[w] = job[w]
      BY <1>1, ConstantsAssumption DEF TypeOK, Procs
    <2> QED
      BY <1>1, <2>1, <2>2, <2>3, <2>4, <2>5 DEF ControlOK, Procs, SweepPC
  <1>4. Copied
    <2>1. \A q \in Sweepers : list'[q] \in {list[q], informer, NothingListed}
      BY <1>1 DEF TypeOK
    <2>2. UNCHANGED informer
      BY DEF kubernetes
    <2> QED
      BY <2>1, <2>2 DEF Copied, NothingListed
  <1>5. \A w \in Workers : pc'[w] = pc[w] /\ job'[w] = job[w]
    BY <1>1, ConstantsAssumption DEF TypeOK, Procs
  <1> QED
    BY <1>2, <1>3, <1>4, <1>5, DataFrame, PendingFrame DEF IInv, FreshOK, zitadel

\* A sweep that takes the mutex preserves the invariant.
LEMMA SweepLockStep ==
  ASSUME IInv, NEW p \in Sweepers, SweepLock(p)
  PROVE  IInv'
  <1> USE DEF SweepLock, Goto
  <1>1. TypeOK /\ ControlOK
    BY DEF IInv
  <1>2. TypeOK'
    <2>1. pc' \in [Procs -> EnsurePC \cup SweepPC \cup WorkerRest \cup SweeperRest]
          /\ job' \in [Procs -> Scopes \cup {None}]
      BY <1>1 DEF TypeOK, SweeperRest, SweepPC, Procs, sweep
    <2>2. /\ live' \in [Sweepers -> SUBSET Scopes] /\ nsLeft' \in [Sweepers -> SUBSET Namespaces]
          /\ items' \in [Sweepers -> SUBSET Scopes]
      BY <1>1 DEF TypeOK, environment, sweep
    <2>3. list' \in [Sweepers -> [Scopes -> Secret \cup {None}]]
      BY <1>1, NothingListedType DEF TypeOK, sweep
    <2>4. budget' \in [Adversities -> Nat]
      BY <1>1, BudgetType DEF TypeOK, Adversities, Answered, Failed
    <2> QED
      BY <1>1, <2>1, <2>2, <2>3, <2>4 DEF TypeOK, environment, zitadel, kubernetes, sweep, Procs
  <1>3. ControlOK'
    BY <1>1, ConstantsAssumption DEF ControlOK, TypeOK, WorkerRest, SweeperRest, EnsurePC, SweepPC,
       Procs, sweep
  <1>4. Copied
    BY <1>1, NothingListedType DEF Copied, TypeOK, NothingListed, sweep
  <1>5. \A w \in Workers : pc'[w] = pc[w] /\ job'[w] = job[w]
    BY <1>1, ConstantsAssumption DEF TypeOK, Procs
  <1> QED
    BY <1>2, <1>3, <1>4, <1>5, DataFrame, PendingFrame DEF IInv, FreshOK, zitadel

\* The end of a sweep preserves the invariant.
LEMMA SweepUnlockStep ==
  ASSUME IInv, NEW p \in Sweepers, SweepUnlock(p)
  PROVE  IInv'
  <1> USE DEF SweepUnlock, Goto, Rest
  <1>1. TypeOK /\ ControlOK
    BY DEF IInv
  <1>2. TypeOK'
    <2>1. pc' \in [Procs -> EnsurePC \cup SweepPC \cup WorkerRest \cup SweeperRest]
          /\ job' \in [Procs -> Scopes \cup {None}]
      BY <1>1 DEF TypeOK, SweeperRest, SweepPC, Procs, sweep
    <2>2. /\ live' \in [Sweepers -> SUBSET Scopes] /\ nsLeft' \in [Sweepers -> SUBSET Namespaces]
          /\ items' \in [Sweepers -> SUBSET Scopes]
      BY <1>1 DEF TypeOK, environment, sweep
    <2>3. list' \in [Sweepers -> [Scopes -> Secret \cup {None}]]
      BY <1>1, NothingListedType DEF TypeOK, sweep
    <2>4. budget' \in [Adversities -> Nat]
      BY <1>1, BudgetType DEF TypeOK, Adversities, Answered, Failed
    <2> QED
      BY <1>1, <2>1, <2>2, <2>3, <2>4 DEF TypeOK, environment, zitadel, kubernetes, sweep, Procs
  <1>3. ControlOK'
    BY <1>1, ConstantsAssumption DEF ControlOK, TypeOK, WorkerRest, SweeperRest, EnsurePC, SweepPC,
       Procs, sweep
  <1>4. Copied
    BY <1>1, NothingListedType DEF Copied, TypeOK, NothingListed, sweep
  <1>5. \A w \in Workers : pc'[w] = pc[w] /\ job'[w] = job[w]
    BY <1>1, ConstantsAssumption DEF TypeOK, Procs
  <1> QED
    BY <1>2, <1>3, <1>4, <1>5, DataFrame, PendingFrame DEF IInv, FreshOK, zitadel

\* Choosing what to do with a listed Secret preserves the invariant.
LEMMA SweepItemStep ==
  ASSUME IInv, NEW p \in Sweepers, NEW s \in Scopes, SweepItem(p, s)
  PROVE  IInv'
  <1> USE DEF SweepItem, Goto, NextForItem
  <1>1. TypeOK /\ ControlOK
    BY DEF IInv
  <1>2. TypeOK'
    <2>1. pc' \in [Procs -> EnsurePC \cup SweepPC \cup WorkerRest \cup SweeperRest]
          /\ job' \in [Procs -> Scopes \cup {None}]
      BY <1>1 DEF TypeOK, SweeperRest, SweepPC, Procs, sweep
    <2>2. /\ live' \in [Sweepers -> SUBSET Scopes] /\ nsLeft' \in [Sweepers -> SUBSET Namespaces]
          /\ items' \in [Sweepers -> SUBSET Scopes]
      BY <1>1 DEF TypeOK, environment, sweep
    <2>3. list' \in [Sweepers -> [Scopes -> Secret \cup {None}]]
      BY <1>1, NothingListedType DEF TypeOK, sweep
    <2>4. budget' \in [Adversities -> Nat]
      BY <1>1, BudgetType DEF TypeOK, Adversities, Answered, Failed
    <2> QED
      BY <1>1, <2>1, <2>2, <2>3, <2>4 DEF TypeOK, environment, zitadel, kubernetes, sweep, Procs
  <1>3. ControlOK'
    BY <1>1, ConstantsAssumption DEF ControlOK, TypeOK, WorkerRest, SweeperRest, EnsurePC, SweepPC,
       Procs, sweep
  <1>4. Copied
    BY <1>1, NothingListedType DEF Copied, TypeOK, NothingListed, sweep
  <1>5. \A w \in Workers : pc'[w] = pc[w] /\ job'[w] = job[w]
    BY <1>1, ConstantsAssumption DEF TypeOK, Procs
  <1> QED
    BY <1>2, <1>3, <1>4, <1>5, DataFrame, PendingFrame DEF IInv, FreshOK, zitadel

\* A cache entry made from a listed Secret is a known delegate.
LEMMA WarmItemStep ==
  ASSUME IInv, NEW p \in Sweepers, NEW s \in Scopes, WarmItem(p, s)
  PROVE  IInv'
  <1> USE DEF WarmItem
  <1> DEFINE d == FromSecret(list[p][s])
  <1>1. TypeOK /\ ControlOK /\ FreshOK /\ KnownGranted
    BY DEF IInv
  <1>2. list[p][s] \in Secret /\ list[p][s] # None
    BY <1>1 DEF TypeOK, ControlOK
  <1>3. d \in Delegate /\ d.user = list[p][s].user /\ d.key = list[p][s].key
    BY <1>2 DEF Secret, Delegate, FromSecret
  <1>4. d # None
    BY <1>3, ConstantsAssumption
  <1> HIDE DEF d
  <1>5. /\ cache' \in [Scopes -> Delegate \cup {None}] /\ cache'[s] = d
        /\ \A q \in Scopes : q # s => cache'[q] = cache[q]
    BY <1>1, <1>3 DEF TypeOK, d
  <1>6. items' \in [Sweepers -> SUBSET Scopes] /\ \A q \in Sweepers : items'[q] \subseteq items[q]
    BY <1>1 DEF TypeOK
  <1>7. TypeOK'
    BY <1>1, <1>5, <1>6 DEF TypeOK, environment, zitadel, kubernetes
  <1>8. ControlOK'
    BY <1>1, <1>4, <1>5, <1>6 DEF ControlOK
  <1>9. lock' \notin Workers
    BY ConstantsAssumption DEF Procs
  <1>10. FreshOK'
    <2>1. Known(list[p][s])
      BY <1>1 DEF FreshOK
    <2> QED
      BY <1>1, <1>2, <1>3, <1>5, <2>1 DEF FreshOK, Known, zitadel, kubernetes
  <1>11. KnownGranted'
    BY <1>1, <1>2, <1>3, <1>5 DEF KnownGranted, Membership, zitadel, kubernetes
  <1>12. OldNotCurrent' /\ PersistedKeyLive' /\ NoUngrantedKey'
    BY DEF IInv, OldNotCurrent, NowhereOld, PersistedKeyLive, NoUngrantedKey, zitadel, kubernetes
  <1> QED
    BY <1>7, <1>8, <1>9, <1>10, <1>11, <1>12, NothingPending DEF IInv

\* A sweeper that holds the mutex moves on: the workers' operands are nobody's.
LEMMA SweeperOutcome ==
  ASSUME TypeOK, ControlOK, NEW p \in Sweepers, pc[p] \in SweepPC,
         NEW l \in {"next", "revokeUser", "revokeSecret", "clear"}, Goto(p, l),
         l # "next" => pc[p] # "next",
         l = "clear" => list[p][job[p]] # None,
         op' \in {op, NoLocals} \/ op' \in Locals,
         UNCHANGED <<lock, job, got, list, items>>
  PROVE  ProcTypeOK' /\ ControlOK' /\ PendingOK' /\ PendingGranted'
  <1>1. lock = p /\ p \notin Workers
    BY ConstantsAssumption DEF ControlOK, Procs
  <1>2. ProcTypeOK'
    <2>1. op' \in Locals
      <3>1. op \in Locals /\ NoLocals \in Locals
        BY DEF TypeOK, NoLocals, Locals
      <3> QED
        BY <3>1
    <2>2. pc' \in [Procs -> EnsurePC \cup SweepPC \cup WorkerRest \cup SweeperRest]
      BY DEF TypeOK, Goto, SweepPC
    <2> QED
      BY <2>1, <2>2 DEF TypeOK, ProcTypeOK
  <1>3. ControlOK'
    <2>1. \A w \in Workers : pc[w] \notin EnsurePC /\ pc'[w] = pc[w]
      BY <1>1 DEF TypeOK, ControlOK, Goto, Procs
    <2>2. \A q \in Procs : q # p => pc'[q] = pc[q]
      BY DEF TypeOK, Goto
    <2>3. pc'[p] = l
      BY DEF TypeOK, Goto, Procs
    <2> QED
      BY <1>1, <2>1, <2>2, <2>3 DEF ControlOK, EnsurePC, SweepPC, Procs
  <1> QED
    BY <1>1, <1>2, <1>3, NothingPending

\* A failed call of a sweep preserves the invariant.
LEMMA SweepErrorStep ==
  ASSUME IInv, NEW p \in Sweepers, SweepError(p)
  PROVE  IInv'
  <1> USE DEF SweepError
  <1>1. TypeOK /\ ControlOK /\ pc[p] \in SweepPC /\ nextKey \in Nat \ {0}
    BY DEF IInv, SweepPC, TypeOK
  <1>2. Settled' /\ op'.kid < nextKey
    BY <1>1, SweeperOutcome DEF Settled, NoLocals, sweep
  <1>3. TypeOK'
    BY <1>1, <1>2, BudgetType DEF Settled, ProcTypeOK, TypeOK, Adversities, Failed,
       environment, zitadel, kubernetes, sweep
  <1>4. Copied
    BY DEF Copied, sweep
  <1> QED
    BY <1>2, <1>3, <1>4, DataFrame DEF IInv, Settled

\* revokeLocked's reads preserve the invariant.
LEMMA RevokeReadStep ==
  ASSUME IInv, NEW p \in Sweepers, RevokeRead(p)
  PROVE  IInv'
  <1> USE DEF RevokeRead
  <1> DEFINE s == job[p]
  <1>1. TypeOK /\ ControlOK /\ pc[p] \in SweepPC /\ nextKey \in Nat \ {0} /\ s \in Scopes
    BY DEF IInv, ControlOK, SweepPC, TypeOK
  <1>2. op' \in Locals /\ op'.kid = 0
    <2>1. (cache[s] # None => cache[s] \in Delegate) /\ (informer[s] # None => informer[s] \in Secret)
      BY <1>1 DEF TypeOK
    <2>2. (cache[s] # None => cache[s].user \in Nat /\ cache[s].hasOrg \in BOOLEAN)
          /\ (informer[s] # None => informer[s].user \in Nat)
      BY <2>1 DEF Delegate, Secret
    <2> QED
      BY <2>2 DEF RevokeLocals, NoLocals, Locals
  <1>3. Settled'
    BY <1>1, <1>2, SweeperOutcome DEF Settled, sweep
  <1>4. TypeOK'
    BY <1>1, <1>3 DEF Settled, ProcTypeOK, TypeOK, environment, zitadel, kubernetes, sweep
  <1>5. Copied
    BY DEF Copied, sweep
  <1> QED
    BY <1>1, <1>2, <1>3, <1>4, <1>5, DataFrame DEF IInv, Settled

\* A machine user goes, with its keys and memberships.
LEMMA RemoveUserOutcome ==
  ASSUME IInv, NEW s \in Scopes, RemoveUser(s), op'.kid < nextKey,
         UNCHANGED <<projects, nextUser, nextKey, kubernetes, cache, list>>
  PROVE  /\ user' \in [Scopes -> Nat] /\ keys' \in [Scopes -> SUBSET Nat] /\ granted' \subseteq Scopes
         /\ FreshOK' /\ OldNotCurrent' /\ KnownGranted' /\ PersistedKeyLive' /\ NoUngrantedKey'
  <1> USE DEF RemoveUser
  <1>1. TypeOK /\ FreshOK
    BY DEF IInv
  <1>2. user' \in [Scopes -> Nat] /\ keys' \in [Scopes -> SUBSET Nat] /\ granted' \subseteq Scopes
    BY <1>1 DEF TypeOK
  <1>3. /\ user'[s] = 0 /\ keys'[s] = {}
        /\ \A q \in Scopes : q # s => /\ user'[q] = user[q] /\ keys'[q] = keys[q]
                                      /\ (q \in granted' <=> q \in granted)
    BY <1>1 DEF TypeOK
  <1>4. FreshOK'
    <2>1. 0 < nextUser
      BY <1>1 DEF TypeOK
    <2> QED
      BY <1>1, <1>3, <2>1 DEF FreshOK, Known, kubernetes
  <1>5. OldNotCurrent'
    BY DEF IInv, OldNotCurrent, NowhereOld, kubernetes
  <1>6. KnownGranted'
    BY <1>1, <1>3 DEF IInv, FreshOK, Known, KnownGranted, Membership, kubernetes
  <1>7. PersistedKeyLive'
    BY <1>1, <1>3 DEF IInv, FreshOK, Known, PersistedKeyLive, kubernetes
  <1>8. NoUngrantedKey'
    BY <1>3 DEF IInv, NoUngrantedKey
  <1> QED
    BY <1>2, <1>4, <1>5, <1>6, <1>7, <1>8

\* Removing an orphan's machine user preserves the invariant.
LEMMA RevokeUserStep ==
  ASSUME IInv, NEW p \in Sweepers, RevokeUser(p)
  PROVE  IInv'
  <1> USE DEF RevokeUser
  <1> DEFINE s == job[p]
  <1>1. TypeOK /\ ControlOK /\ pc[p] \in SweepPC /\ nextKey \in Nat \ {0} /\ s \in Scopes
        /\ op.kid < nextKey
    BY DEF IInv, ControlOK, SweepPC, TypeOK, FreshOK
  <1>2. Settled' /\ op'.kid < nextKey
    <2>1. CASE Goto(p, "revokeSecret") /\ UNCHANGED op
      BY <1>1, <2>1, SweeperOutcome DEF Settled, sweep
    <2>2. CASE Goto(p, "next") /\ op' = NoLocals
      BY <1>1, <2>2, SweeperOutcome DEF Settled, sweep, NoLocals
    <2> QED
      BY <2>1, <2>2
  <1>3. budget' \in [Adversities -> Nat]
    BY <1>1, BudgetType DEF Adversities, Answered, Failed
  <1>4. Copied
    BY DEF Copied, sweep
  <1>5. CASE RemoveUser(s)
    <2>1. /\ user' \in [Scopes -> Nat] /\ keys' \in [Scopes -> SUBSET Nat] /\ granted' \subseteq Scopes
          /\ FreshOK' /\ OldNotCurrent' /\ KnownGranted' /\ PersistedKeyLive' /\ NoUngrantedKey'
      BY <1>1, <1>2, <1>5, RemoveUserOutcome DEF sweep
    <2>2. TypeOK'
      BY <1>1, <1>2, <1>3, <2>1 DEF Settled, ProcTypeOK, TypeOK, environment, kubernetes, sweep
    <2> QED
      BY <1>2, <2>1, <2>2 DEF IInv, Settled
  <1>6. CASE UNCHANGED <<user, keys, granted>>
    <2>1. TypeOK'
      BY <1>1, <1>2, <1>3, <1>6 DEF Settled, ProcTypeOK, TypeOK, environment, kubernetes, sweep
    <2> QED
      BY <1>2, <1>4, <1>6, <2>1, DataFrame DEF IInv, Settled, zitadel
  <1> QED
    BY <1>5, <1>6

\* A Secret is deleted, and possibly the cache entry for it.
LEMMA SecretGone ==
  ASSUME IInv, NEW s \in Scopes, secret' \in {secret, [secret EXCEPT ![s] = None]},
         cache' \in {cache, [cache EXCEPT ![s] = None]},
         op'.kid < nextKey, UNCHANGED <<zitadel, informer, list>>
  PROVE  /\ secret' \in [Scopes -> Secret \cup {None}]
         /\ cache' \in [Scopes -> Delegate \cup {None}]
         /\ FreshOK' /\ OldNotCurrent' /\ KnownGranted' /\ PersistedKeyLive' /\ NoUngrantedKey'
  <1>1. TypeOK /\ FreshOK
    BY DEF IInv
  <1>2. secret' \in [Scopes -> Secret \cup {None}] /\ cache' \in [Scopes -> Delegate \cup {None}]
    BY <1>1 DEF TypeOK
  <1>3. \A q \in Scopes : secret'[q] \in {secret[q], None} /\ cache'[q] \in {cache[q], None}
    BY <1>1 DEF TypeOK
  <1>4. FreshOK'
    BY <1>1, <1>3 DEF FreshOK, Known, zitadel
  <1>5. OldNotCurrent' /\ PersistedKeyLive' /\ NoUngrantedKey'
    BY <1>3 DEF IInv, OldNotCurrent, NowhereOld, PersistedKeyLive, NoUngrantedKey, zitadel
  <1>6. KnownGranted'
    BY <1>3 DEF IInv, KnownGranted, Membership, zitadel
  <1> QED
    BY <1>2, <1>4, <1>5, <1>6

\* Removing an orphan's Secret and cache entry preserves the invariant.
LEMMA RevokeSecretStep ==
  ASSUME IInv, NEW p \in Sweepers, RevokeSecret(p)
  PROVE  IInv'
  <1> USE DEF RevokeSecret
  <1> DEFINE s == job[p]
  <1>1. TypeOK /\ ControlOK /\ pc[p] \in SweepPC /\ nextKey \in Nat \ {0} /\ s \in Scopes
    BY DEF IInv, ControlOK, SweepPC, TypeOK
  <1>2. Settled' /\ op'.kid < nextKey
    BY <1>1, SweeperOutcome DEF Settled, sweep, NoLocals
  <1>3. budget' \in [Adversities -> Nat]
    BY <1>1, BudgetType DEF Adversities, Answered, Failed
  <1>4. secret' \in {secret, [secret EXCEPT ![s] = None]} /\ cache' \in {cache, [cache EXCEPT ![s] = None]}
    OBVIOUS
  <1>5. /\ secret' \in [Scopes -> Secret \cup {None}]
        /\ cache' \in [Scopes -> Delegate \cup {None}]
        /\ FreshOK' /\ OldNotCurrent' /\ KnownGranted' /\ PersistedKeyLive' /\ NoUngrantedKey'
    BY <1>1, <1>2, <1>4, SecretGone DEF sweep
  <1>6. TypeOK'
    BY <1>1, <1>2, <1>3, <1>5 DEF Settled, ProcTypeOK, TypeOK, environment, zitadel, sweep
  <1> QED
    BY <1>2, <1>5, <1>6 DEF IInv, Settled

\* finishRotationLocked removes a key that the Secret does not hold: its listed copy,
\* however stale, does not have the persisted key as its old one.
LEMMA RemoveOldKeyStep ==
  ASSUME IInv, NEW p \in Sweepers, RemoveOldKey(p)
  PROVE  IInv'
  <1> USE DEF RemoveOldKey
  <1> DEFINE s == job[p]
             x == list[p][s]
  <1>1. TypeOK /\ ControlOK /\ FreshOK /\ pc[p] \in SweepPC /\ nextKey \in Nat \ {0} /\ s \in Scopes
        /\ op.kid < nextKey /\ x # None
    BY DEF IInv, ControlOK, SweepPC, TypeOK, FreshOK
  <1>2. Settled' /\ op'.kid < nextKey
    <2>1. CASE Goto(p, "clear") /\ UNCHANGED op
      BY <1>1, <2>1, SweeperOutcome DEF Settled, sweep
    <2>2. CASE Goto(p, "next") /\ op' = NoLocals
      BY <1>1, <2>2, SweeperOutcome DEF Settled, sweep, NoLocals
    <2> QED
      BY <2>1, <2>2
  <1>3. /\ keys' \in [Scopes -> SUBSET Nat]
        /\ \A q \in Scopes : keys'[q] \subseteq keys[q] /\ (q # s => keys'[q] = keys[q])
        /\ \A k \in keys[s] : k # x.old => k \in keys'[s]
    BY <1>1 DEF TypeOK
  <1>4. TypeOK'
    BY <1>1, <1>2, <1>3, BudgetType DEF Settled, ProcTypeOK, TypeOK, Adversities, Answered, Failed,
       environment, kubernetes, sweep
  <1>5. FreshOK'
    BY <1>1, <1>2, <1>3 DEF FreshOK, Known, kubernetes, sweep
  <1>6. OldNotCurrent' /\ KnownGranted'
    BY DEF IInv, OldNotCurrent, NowhereOld, KnownGranted, Membership, kubernetes, sweep
  <1>7. PersistedKeyLive'
    <2>1. secret[s] # None => secret[s].key # x.old
      BY <1>1 DEF IInv, OldNotCurrent, NowhereOld
    <2> QED
      BY <1>3, <2>1 DEF IInv, PersistedKeyLive, kubernetes
  <1>8. NoUngrantedKey'
    BY <1>3 DEF IInv, NoUngrantedKey
  <1> QED
    BY <1>2, <1>4, <1>5, <1>6, <1>7, <1>8 DEF IInv, Settled

\* Clearing the rotation markers keeps the persisted key.
LEMMA ClearMarkersStep ==
  ASSUME IInv, NEW p \in Sweepers, ClearMarkers(p)
  PROVE  IInv'
  <1> USE DEF ClearMarkers
  <1> DEFINE s == job[p]
             x == list[p][s]
             y == [x EXCEPT !.old = 0, !.revokeAt = 0]
  <1>1. TypeOK /\ ControlOK /\ FreshOK /\ pc[p] \in SweepPC /\ nextKey \in Nat \ {0} /\ s \in Scopes
        /\ x # None /\ x \in Secret
    BY DEF IInv, ControlOK, SweepPC, TypeOK, FreshOK
  <1>2. Settled' /\ op'.kid < nextKey
    BY <1>1, SweeperOutcome DEF Settled, sweep, NoLocals
  <1>3. y \in Secret /\ y.user = x.user /\ y.key = x.key /\ y.old = 0
    BY <1>1 DEF Secret
  <1>4. secret' = secret \/ (secret[s] = x /\ secret' = [secret EXCEPT ![s] = y])
    OBVIOUS
  <1> HIDE DEF y
  <1>5. /\ secret' \in [Scopes -> Secret \cup {None}]
        /\ \A q \in Scopes : secret'[q] = secret[q] \/ (q = s /\ secret[s] = x /\ secret'[s] = y)
    BY <1>1, <1>3, <1>4 DEF TypeOK
  <1>6. y # None /\ Known(y)
    BY <1>1, <1>3, ConstantsAssumption DEF FreshOK, Known
  <1>7. TypeOK'
    BY <1>1, <1>2, <1>5 DEF Settled, ProcTypeOK, TypeOK, environment, zitadel, sweep
  <1>8. FreshOK'
    BY <1>1, <1>2, <1>5, <1>6 DEF FreshOK, Known, zitadel, sweep
  <1>9. OldNotCurrent'
    BY <1>1, <1>3, <1>5, <1>6 DEF IInv, OldNotCurrent, NowhereOld, Known, sweep
  <1>10. KnownGranted' /\ PersistedKeyLive' /\ NoUngrantedKey'
    BY <1>1, <1>3, <1>5, <1>6 DEF IInv, KnownGranted, Membership, PersistedKeyLive, NoUngrantedKey,
       zitadel, sweep
  <1> QED
    BY <1>2, <1>7, <1>8, <1>9, <1>10 DEF IInv, Settled

-------------------------------------------------------------------------------
(* Surroundings *)

\* Time preserves the invariant.
LEMMA TickStep ==
  ASSUME IInv, Tick
  PROVE  IInv'
  <1> USE DEF Tick
  <1>1. TypeOK /\ ControlOK /\ FreshOK
    BY DEF IInv
  <1>2. Copied
    BY <1>1 DEF Copied, sweep
  <1>3. TypeOK'
    BY <1>1, BudgetType DEF TypeOK, Adversities, environment, zitadel, kubernetes, sweep
  <1>4. ControlOK'
    BY <1>1 DEF ControlOK, kubernetes, sweep
  <1> QED
    BY <1>1, <1>2, <1>3, <1>4, DataFrame, PendingFrame DEF IInv, FreshOK, zitadel

\* The ScopeMap cache's sync preserves the invariant.
LEMMA SyncStep ==
  ASSUME IInv, Sync
  PROVE  IInv'
  <1> USE DEF Sync
  <1>1. TypeOK /\ ControlOK /\ FreshOK
    BY DEF IInv
  <1>2. Copied
    BY <1>1 DEF Copied, sweep
  <1>3. TypeOK'
    BY <1>1, BudgetType DEF TypeOK, Adversities, environment, zitadel, kubernetes, sweep
  <1>4. ControlOK'
    BY <1>1 DEF ControlOK, kubernetes, sweep
  <1> QED
    BY <1>1, <1>2, <1>3, <1>4, DataFrame, PendingFrame DEF IInv, FreshOK, zitadel

\* A namespace's new scope preserves the invariant.
LEMMA MapsChangeStep ==
  ASSUME IInv, NEW ns \in Namespaces, NEW s \in Scopes \cup {None}, MapsChange(ns, s)
  PROVE  IInv'
  <1> USE DEF MapsChange
  <1>1. TypeOK /\ ControlOK /\ FreshOK
    BY DEF IInv
  <1>2. Copied
    BY <1>1 DEF Copied, sweep
  <1>3. TypeOK'
    BY <1>1, BudgetType DEF TypeOK, Adversities, environment, zitadel, kubernetes, sweep
  <1>4. ControlOK'
    BY <1>1 DEF ControlOK, kubernetes, sweep
  <1> QED
    BY <1>1, <1>2, <1>3, <1>4, DataFrame, PendingFrame DEF IInv, FreshOK, zitadel

\* A stuttering step preserves the invariant.
LEMMA StutterStep ==
  ASSUME IInv, UNCHANGED vars
  PROVE  IInv'
  <1> USE DEF vars
  <1>1. TypeOK /\ ControlOK /\ FreshOK
    BY DEF IInv
  <1>2. Copied
    BY <1>1 DEF Copied, sweep
  <1>3. TypeOK'
    BY <1>1, BudgetType DEF TypeOK, Adversities, environment, zitadel, kubernetes, sweep
  <1>4. ControlOK'
    BY <1>1 DEF ControlOK, kubernetes, sweep
  <1> QED
    BY <1>1, <1>2, <1>3, <1>4, DataFrame, PendingFrame DEF IInv, FreshOK, zitadel

\* A watch event preserves the invariant.
LEMMA InformerCatchesUpStep ==
  ASSUME IInv, NEW s \in Scopes, InformerCatchesUp(s)
  PROVE  IInv'
  <1> USE DEF InformerCatchesUp
  <1>1. TypeOK /\ ControlOK /\ FreshOK
    BY DEF IInv
  <1>2. /\ informer' \in [Scopes -> Secret \cup {None}]
        /\ \A q \in Scopes : informer'[q] \in {informer[q], secret[q]}
    BY <1>1 DEF TypeOK
  <1>3. TypeOK'
    BY <1>1, <1>2 DEF TypeOK, environment, zitadel, sweep
  <1>4. ControlOK'
    BY <1>1 DEF ControlOK, sweep
  <1>5. FreshOK'
    BY <1>1, <1>2 DEF FreshOK, Known, zitadel, sweep
  <1>6. OldNotCurrent'
    BY <1>2 DEF IInv, OldNotCurrent, NowhereOld, sweep
  <1>7. KnownGranted'
    BY <1>2 DEF IInv, KnownGranted, Membership, zitadel, sweep
  <1>8. PersistedKeyLive' /\ NoUngrantedKey'
    BY DEF IInv, PersistedKeyLive, NoUngrantedKey, zitadel
  <1>9. PendingOK' /\ PendingGranted'
    <2>1. SUFFICES ASSUME NEW w \in Workers
                   PROVE  PendingAt(w)' /\ GrantedAt(w)'
      BY DEF PendingOK, PendingGranted
    <2>2. PendingAt(w) /\ GrantedAt(w)
      BY DEF IInv, PendingOK, PendingGranted
    <2>3. pc[w] \in {"persist", "rotateSwap"} => job[w] \in Scopes
      BY DEF IInv, ControlOK
    <2> QED
      BY <1>2, <2>2, <2>3 DEF PendingAt, GrantedAt, NowhereOld, Membership, zitadel, sweep
  <1> QED
    BY <1>3, <1>4, <1>5, <1>6, <1>7, <1>8, <1>9 DEF IInv

\* A machine user deleted out of band takes its keys along.
LEMMA UserDeletedOutOfBandStep ==
  ASSUME IInv, NEW s \in Scopes, UserDeletedOutOfBand(s)
  PROVE  IInv'
  <1> USE DEF UserDeletedOutOfBand
  <1>1. TypeOK /\ ControlOK /\ FreshOK /\ op.kid < nextKey
    BY DEF IInv, FreshOK
  <1>2. /\ user' \in [Scopes -> Nat] /\ keys' \in [Scopes -> SUBSET Nat] /\ granted' \subseteq Scopes
        /\ FreshOK' /\ OldNotCurrent' /\ KnownGranted' /\ PersistedKeyLive' /\ NoUngrantedKey'
    BY <1>1, RemoveUserOutcome DEF sweep
  <1>3. TypeOK'
    BY <1>1, <1>2, BudgetType DEF TypeOK, Adversities, environment, kubernetes, sweep
  <1>4. ControlOK'
    BY <1>1 DEF ControlOK, sweep
  <1>5. /\ user'[s] = 0 /\ \A q \in Scopes : q # s => /\ user'[q] = user[q] /\ keys'[q] = keys[q]
                                                      /\ (q \in granted' <=> q \in granted)
    BY <1>1 DEF TypeOK, RemoveUser
  <1>6. PendingOK' /\ PendingGranted'
    <2>1. SUFFICES ASSUME NEW w \in Workers
                   PROVE  PendingAt(w)' /\ GrantedAt(w)'
      BY DEF PendingOK, PendingGranted
    <2>2. PendingAt(w) /\ GrantedAt(w) /\ (pc[w] \in EnsurePC => job[w] \in Scopes /\ lock = w)
      BY DEF IInv, PendingOK, PendingGranted, ControlOK, EnsurePC, Procs
    <2>3. CASE job[w] # s
      BY <1>5, <2>2, <2>3 DEF PendingAt, GrantedAt, NowhereOld, Membership, EnsurePC, kubernetes, sweep
    <2>4. CASE job[w] = s
      BY <1>5, <2>2, <2>4 DEF PendingAt, GrantedAt, NowhereOld, Membership, EnsurePC, kubernetes, sweep
    <2> QED
      BY <2>3, <2>4
  <1> QED
    BY <1>2, <1>3, <1>4, <1>6 DEF IInv

\* A Secret deleted out of band preserves the invariant.
LEMMA SecretDeletedOutOfBandStep ==
  ASSUME IInv, NEW s \in Scopes, SecretDeletedOutOfBand(s)
  PROVE  IInv'
  <1> USE DEF SecretDeletedOutOfBand
  <1>1. TypeOK /\ ControlOK /\ FreshOK /\ op.kid < nextKey
    BY DEF IInv, FreshOK
  <1>2. /\ secret' \in [Scopes -> Secret \cup {None}]
        /\ FreshOK' /\ OldNotCurrent' /\ KnownGranted' /\ PersistedKeyLive' /\ NoUngrantedKey'
    BY <1>1, SecretGone DEF sweep
  <1>3. TypeOK'
    BY <1>1, <1>2, BudgetType DEF TypeOK, Adversities, environment, zitadel, sweep
  <1>4. ControlOK'
    BY <1>1 DEF ControlOK, sweep
  <1>5. \A q \in Scopes : secret'[q] \in {secret[q], None}
    BY <1>1 DEF TypeOK
  <1>6. PendingOK' /\ PendingGranted'
    <2>1. SUFFICES ASSUME NEW w \in Workers
                   PROVE  PendingAt(w)' /\ GrantedAt(w)'
      BY DEF PendingOK, PendingGranted
    <2>2. PendingAt(w) /\ GrantedAt(w)
      BY DEF IInv, PendingOK, PendingGranted
    <2>3. pc[w] \in {"persist", "rotateSwap"} => job[w] \in Scopes
      BY DEF IInv, ControlOK
    <2> QED
      BY <1>5, <2>2, <2>3 DEF PendingAt, GrantedAt, NowhereOld, Membership, zitadel, sweep
  <1> QED
    BY <1>2, <1>3, <1>4, <1>6 DEF IInv

\* A restart forgets the process's state and keeps what the servers hold.
LEMMA CrashStep ==
  ASSUME IInv, Crash
  PROVE  IInv'
  <1> USE DEF Crash
  <1>1. TypeOK /\ FreshOK /\ nextKey \in Nat \ {0}
    BY DEF IInv, TypeOK
  <1>2. /\ \A w \in Workers : pc'[w] = "idle"
        /\ \A p \in Sweepers : pc'[p] \in {"idle", "warmList"}
    BY ConstantsAssumption DEF Started, Procs
  <1>3. TypeOK'
    <2>1. pc' \in [Procs -> EnsurePC \cup SweepPC \cup WorkerRest \cup SweeperRest]
      BY DEF Started, WorkerRest, SweeperRest
    <2>2. /\ lock' \in Procs \cup {None} /\ op' \in Locals /\ cache' \in [Scopes -> Delegate \cup {None}]
          /\ budget' \in [Adversities -> Nat]
      BY <1>1, BudgetType DEF NoLocals, Locals, NothingListed, Adversities
    <2>3. /\ job' \in [Procs -> Scopes \cup {None}] /\ got' \in [Workers -> Lease \cup {None}]
          /\ live' \in [Sweepers -> SUBSET Scopes] /\ nsLeft' \in [Sweepers -> SUBSET Namespaces]
          /\ items' \in [Sweepers -> SUBSET Scopes]
      OBVIOUS
    <2>4. list' \in [Sweepers -> [Scopes -> Secret \cup {None}]]
      BY NothingListedType
    <2>5. deadAtStart' \subseteq Nat
      BY <1>1 DEF TypeOK
    <2> QED
      BY <1>1, <2>1, <2>2, <2>3, <2>4, <2>5 DEF TypeOK, environment, zitadel
  <1>4. ControlOK'
    BY <1>2, ConstantsAssumption DEF ControlOK, WorkerRest, SweeperRest, EnsurePC, SweepPC, Procs
  <1>5. lock' \notin Workers
    BY ConstantsAssumption DEF Procs
  <1>6. \A q \in Scopes : cache'[q] = None /\ \A p \in Sweepers : list'[p][q] = None
    BY DEF NothingListed
  <1>7. FreshOK'
    BY <1>1, <1>6 DEF FreshOK, Known, NoLocals, zitadel
  <1>8. OldNotCurrent'
    BY <1>6 DEF IInv, OldNotCurrent, NowhereOld
  <1>9. KnownGranted'
    BY <1>6 DEF IInv, KnownGranted, Membership, zitadel
  <1>10. PersistedKeyLive' /\ NoUngrantedKey'
    BY DEF IInv, PersistedKeyLive, NoUngrantedKey, zitadel
  <1> QED
    BY <1>3, <1>4, <1>5, <1>7, <1>8, <1>9, <1>10, NothingPending DEF IInv

-------------------------------------------------------------------------------
(* The invariant and the theorems *)

\* The invariant holds when the operator first starts.
LEMMA InitIInv ==
  Init => IInv
  <1> SUFFICES ASSUME Init
               PROVE  IInv
    OBVIOUS
  <1> USE DEF Init, FreshStart
  <1>1. \A p \in Procs : pc[p] \in {"idle", "warmList"} /\ (p \in Workers => pc[p] = "idle")
    BY ConstantsAssumption DEF Started, Procs
  <1>2. TypeOK
    <2>1. pc \in [Procs -> EnsurePC \cup SweepPC \cup WorkerRest \cup SweeperRest]
      BY DEF Started, WorkerRest, SweeperRest
    <2>2. /\ lock \in Procs \cup {None} /\ op \in Locals /\ cache \in [Scopes -> Delegate \cup {None}]
          /\ budget \in [Adversities -> Nat]
      BY ConstantsAssumption DEF NoLocals, Locals, NothingListed
    <2>3. /\ job \in [Procs -> Scopes \cup {None}] /\ got \in [Workers -> Lease \cup {None}]
          /\ live \in [Sweepers -> SUBSET Scopes] /\ nsLeft \in [Sweepers -> SUBSET Namespaces]
          /\ items \in [Sweepers -> SUBSET Scopes]
      OBVIOUS
    <2>4. list \in [Sweepers -> [Scopes -> Secret \cup {None}]]
          /\ secret \in [Scopes -> Secret \cup {None}] /\ informer \in [Scopes -> Secret \cup {None}]
      BY NothingListedType
    <2>5. /\ user \in [Scopes -> Nat] /\ keys \in [Scopes -> SUBSET Nat]
          /\ granted \subseteq Scopes /\ projects \subseteq ProjectScopes
          /\ synced \in BOOLEAN /\ deadAtStart \subseteq Nat
      OBVIOUS
    <2>6. now \in Nat /\ nextUser \in Nat \ {0} /\ nextKey \in Nat \ {0}
      OBVIOUS
    <2> QED
      BY <2>1, <2>2, <2>3, <2>4, <2>5, <2>6 DEF TypeOK
  <1>3. ControlOK
    BY <1>1, ConstantsAssumption DEF ControlOK, WorkerRest, SweeperRest, EnsurePC, SweepPC, Procs
  <1>4. PendingOK /\ PendingGranted
    BY <1>1 DEF PendingOK, PendingAt, PendingGranted, GrantedAt, Procs
  <1>5. FreshOK /\ OldNotCurrent /\ KnownGranted /\ PersistedKeyLive /\ NoUngrantedKey
    BY DEF FreshOK, Known, OldNotCurrent, KnownGranted, PersistedKeyLive, NoUngrantedKey,
       NothingListed, NoLocals
  <1> QED
    BY <1>2, <1>3, <1>4, <1>5 DEF IInv

\* Every step preserves the invariant.
LEMMA NextIInv ==
  IInv /\ [Next]_vars => IInv'
  <1> SUFFICES ASSUME IInv, [Next]_vars
               PROVE  IInv'
    OBVIOUS
  <1>1. CASE \E w \in Workers : WorkerStep(w)
    <2>1. PICK w \in Workers : WorkerStep(w)
      BY <1>1
    <2>2. CASE EnsureStep(w)
      BY <2>2, EnsureLockStep, WarmLockedStep, ValidateLockedStep, DropSecretStep, MintUserStep,
         MintProjectStep, MintGrantStep, MintKeyStep, PersistSecretStep, RotateKeyStep,
         RotateSwapStep DEF EnsureStep
    <2> QED
      BY <2>1, <2>2, EnsureCallStep, EnsureErrorStep, DoneStep DEF WorkerStep
  <1>2. CASE \E p \in Sweepers : SweeperStep(p)
    BY <1>2, WarmListStep, WarmDoneStep, WarmItemStep, SweepOnceStep, SweepResolveStep,
       SweepListStep, SweepLockStep, SweepUnlockStep, SweepItemStep, SweepErrorStep,
       RevokeReadStep, RevokeUserStep, RevokeSecretStep, RemoveOldKeyStep, ClearMarkersStep
       DEF SweeperStep
  <1>3. CASE Surroundings
    BY <1>3, TickStep, SyncStep, CrashStep, MapsChangeStep, InformerCatchesUpStep,
       UserDeletedOutOfBandStep, SecretDeletedOutOfBandStep DEF Surroundings
  <1> QED
    BY <1>1, <1>2, <1>3, StutterStep DEF Next

\* The inductive invariant holds in every reachable state, for any number of scopes,
\* namespaces, reconcilers and sweepers and any bounds.
THEOREM Inductive == Spec => []IInv
  BY InitIInv, NextIInv, PTL DEF Spec

\* Every variable keeps its type.
THEOREM TypeCorrect == Spec => []TypeOK
  <1>1. IInv => TypeOK
    BY DEF IInv
  <1> QED
    BY <1>1, Inductive, PTL

\* The key in a delegation Secret authenticates as long as the user it names exists:
\* neither rotateIfDueLocked nor a sweep's finishRotationLocked, on however stale a copy, after
\* however many crashes and failed calls, removes the persisted key.
THEOREM PersistedKeysLive == Spec => []PersistedKeyLive
  <1>1. IInv => PersistedKeyLive
    BY DEF IInv
  <1> QED
    BY <1>1, Inductive, PTL

\* No machine user ever holds a key without its membership (the order of mint's calls),
\* whatever call fails and whenever the operator dies.
THEOREM KeysGranted == Spec => []NoUngrantedKey
  <1>1. IInv => NoUngrantedKey
    BY DEF IInv
  <1> QED
    BY <1>1, Inductive, PTL
===============================================================================
