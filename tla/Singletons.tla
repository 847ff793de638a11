------------------------------- MODULE Singletons -------------------------------
(***************************************************************************)
(* The Default* kinds: resources that manage a setting of the instance,    *)
(* which Zitadel always has. Several resources of a kind may exist; the    *)
(* one created first manages the setting, the others wait, and the next    *)
(* takes over when it goes.                                                *)
(*                                                                         *)
(* A controller reconciles the resources of its kind one at a time, on     *)
(* copies from one informer cache, which holds what the API server had at  *)
(* an earlier moment. RequeueAfter runs each of them again and again.      *)
(***************************************************************************)
EXTENDS Naturals, FiniteSets

CONSTANTS
  Profiles,     \* the kinds to look at
  Names,        \* namespace/name, numbered in their order
  Slots, TheSlot,   \* pairs of a type and a language; the one that other kinds have
  Values, Default, Unset,   \* of a setting; Unset in a spec leaves it out
  Bad,          \* a duration that does not parse
  Huge, Largest,            \* a length above 2^32 - 1, and that number
  Specs,        \* what users may ask for
  Asks,         \* name -> those of them that its first version asks for
  Annotated,    \* the names whose resources are reset when they are deleted
  Drifts,       \* what others set the settings to
  None,
  MaxTime,      \* bound: seconds in which resources are created
  MaxUid,       \* bound: resources created
  MaxEdits,     \* bound: of what users and others change or delete
  MaxFaults     \* bound: calls that fail, crashes and restarts

Settings == [main: Values, rest: Values]
Spec0(main, rest, slot, idps) == [main |-> main, rest |-> rest, slot |-> slot, idps |-> idps]
SpecType == [main: Values \cup {Unset, Bad, Huge}, rest: Values \cup {Unset},
             slot: Slots, idps: BOOLEAN]

ASSUME SingletonsAssumption ==
  /\ Names \subseteq Nat /\ None \notin Names /\ TheSlot \in Slots
  /\ {Default, Largest} \subseteq Values /\ Values \cap {Unset, Bad, Huge} = {}
  /\ Cardinality({Unset, Bad, Huge}) = 3
  /\ Specs \subseteq SpecType /\ Specs # {}
  /\ Asks \in [Names -> SUBSET Specs] /\ Annotated \subseteq Names /\ Drifts \subseteq Settings
  /\ MaxTime \in Nat /\ MaxUid \in Nat /\ MaxEdits \in Nat /\ MaxFaults \in Nat

-----------------------------------------------------------------------------
(* What sets the kinds apart.                                              *)

\* bySlot: a resource manages the text of its type and language. tieBreak: names
\* decide between resources created in the same second. always: it is written
\* without a look at what is there. leavesUnset: what the spec leaves out is not
\* compared. blind: rest is not compared. staged: an update is a draft until it
\* is activated. idps: the spec lists identity providers. parses: the spec holds
\* durations. clamps: a length is cut to 32 bits when it is written.
Plain ==
  [bySlot |-> FALSE, tieBreak |-> TRUE, always |-> FALSE, leavesUnset |-> FALSE,
   blind |-> FALSE, staged |-> FALSE, idps |-> FALSE, parses |-> FALSE, clamps |-> FALSE]

DefaultLockoutPolicy            == Plain
DefaultNotificationPolicy       == Plain
DefaultPasswordAgePolicy        == Plain
DefaultPrivacyPolicy            == Plain
DefaultPasswordComplexityPolicy == [Plain EXCEPT !.clamps = TRUE]
DefaultDomainPolicy             == [Plain EXCEPT !.leavesUnset = TRUE]
DefaultLoginPolicy              == [Plain EXCEPT !.leavesUnset = TRUE, !.blind = TRUE, !.idps = TRUE]
DefaultLabelPolicy              == [Plain EXCEPT !.staged = TRUE]
DefaultMessageText              == [Plain EXCEPT !.bySlot = TRUE, !.tieBreak = FALSE, !.always = TRUE]
DefaultOIDCSettings             == [Plain EXCEPT !.parses = TRUE]

Resource == [there: BOOLEAN, uid: 0..MaxUid, born: 0..MaxTime, spec: Specs,
             deleting: BOOLEAN, finalizer: BOOLEAN, ready: BOOLEAN]
NoResource == [there |-> FALSE, uid |-> 0, born |-> 0, spec |-> CHOOSE s \in Specs : TRUE,
               deleting |-> FALSE, finalizer |-> FALSE, ready |-> FALSE]
Defaults == [main |-> Default, rest |-> Default]

VARIABLES
  profile, binding,
  now,          \* in the seconds of creation timestamps
  crs, uids,    \* the API server: name -> resource, and how many were created
  cache,        \* the informer's: name -> resource
  \* Zitadel
  live,         \* slot -> its settings
  draft,        \* of a staged kind
  linked,       \* the identity provider is in the login policy
  idpId,        \* it has an id in its status, and exists
  \* the reconcile: its step, its resource, and the copy of it
  pc, cur, obj,
  edits, faults

world     == <<profile, binding>>
apiserver == <<crs, uids>>
zitadel   == <<live, draft, linked>>
reconcile == <<pc, cur, obj>>
limits    == <<edits, faults>>
vars == <<world, now, apiserver, cache, zitadel, idpId, reconcile, limits>>

SpecsOf(p) ==
  {s \in Specs : /\ s.main = Bad => p.parses
                 /\ s.main = Huge => p.clamps
                 /\ s.idps => p.idps
                 /\ s.slot = TheSlot \/ p.bySlot}

Init ==
  /\ profile \in Profiles /\ binding \in {"iam-owner", "org-owner"}
  /\ now = 0
  /\ crs = [c \in Names |-> NoResource] /\ uids = 0 /\ cache = crs
  /\ live = [s \in Slots |-> Defaults] /\ draft = Defaults /\ linked = FALSE /\ idpId = FALSE
  /\ pc = "idle" /\ cur = None /\ obj = NoResource
  /\ edits = 0 /\ faults = 0

-----------------------------------------------------------------------------
(* The API server.                                                         *)

Store(c, new) == crs' = [crs EXCEPT ![c] = new]
NoWrite       == crs' = crs

\* The resource goes when it is deleted and nobody holds on to it.
Collected(r) == IF r.deleting /\ ~r.finalizer THEN NoResource ELSE r

\* client.Update is refused unless the copy is the latest version. (An earlier
\* version with the same content will do, as if it had been read now.)
UpdateAccepted == crs[cur] = obj

\* applyStatus goes by the name: whatever resource has it now gets the status.
ApplyStatus(isReady) ==
  IF crs[cur].there THEN Store(cur, [crs[cur] EXCEPT !.ready = isReady]) ELSE NoWrite

-----------------------------------------------------------------------------
(* A reconcile.                                                            *)

Goto(step) == pc' = step /\ UNCHANGED <<cur, obj>>
Return     == pc' = "idle" /\ cur' = None /\ obj' = NoResource

\* Mutant: resources that are being deleted are refused too.
RefusesAll(copy) == binding = "org-owner"

\* checkBindingLevel's test.
NotSupported(copy) == binding = "org-owner" /\ ~copy.deleting

Begin(c) ==
  /\ pc = "idle" /\ cache[c].there
  /\ pc' = IF NotSupported(cache[c]) THEN "unsupported" ELSE "conflict"
  /\ cur' = c /\ obj' = cache[c]
  /\ UNCHANGED <<world, now, apiserver, cache, zitadel, idpId, limits>>

\* checkBindingLevel.
ReportUnsupported ==
  /\ pc = "unsupported" /\ ApplyStatus(FALSE) /\ Return
  /\ UNCHANGED <<world, now, uids, cache, zitadel, idpId, limits>>

SameSlot(a, b) == profile.bySlot => a.spec.slot = b.spec.slot

\* Mutant: names alone decide.
NameBefore(c, a, d, b) == c < d

Before(c, a, d, b) == a.born < b.born \/ (profile.tieBreak /\ a.born = b.born /\ c < d)

\* checkSingletonConflict, and DefaultMessageText's own.
Yields ==
  \E d \in Names \ {cur} :
    /\ cache[d].there /\ ~cache[d].deleting
    /\ SameSlot(cache[d], obj) /\ Before(d, cache[d], cur, obj)

\* Mutant: the finalizer is left for later.
WithoutFinalizer == IF obj.deleting THEN "cleanup" ELSE "apply"

\* The order of Reconcile.
AfterCheck == IF obj.deleting THEN "cleanup" ELSE IF obj.finalizer THEN "apply" ELSE "finalizer"

\* checkConflict ignores that its applyStatus may fail.
CheckConflict ==
  /\ pc = "conflict"
  /\ IF Yields THEN ApplyStatus(FALSE) /\ Return
     ELSE NoWrite /\ Goto(AfterCheck)
  /\ UNCHANGED <<world, now, uids, cache, zitadel, idpId, limits>>

\* ensureFinalizer goes on with what the API server returned.
EnsureFinalizer ==
  LET new == [obj EXCEPT !.finalizer = TRUE]
  IN  /\ pc = "finalizer"
      /\ IF UpdateAccepted THEN Store(cur, new) /\ pc' = "apply" /\ obj' = new /\ cur' = cur
         ELSE NoWrite /\ Return
      /\ UNCHANGED <<world, now, uids, cache, zitadel, idpId, limits>>

\* resolveIdpRefs.
IdpMissing == obj.spec.idps /\ ~idpId

WaitForIdp ==
  /\ pc = "apply" /\ IdpMissing
  /\ ApplyStatus(FALSE) /\ Return
  /\ UNCHANGED <<world, now, uids, cache, zitadel, idpId, limits>>

\* parseDurationOrDefault.
Unparsable ==
  /\ pc = "apply" /\ obj.spec.main = Bad
  /\ NoWrite /\ Return
  /\ UNCHANGED <<world, now, uids, cache, zitadel, idpId, limits>>

OrDefault(v) == IF v = Unset THEN Default ELSE v

\* The update request.
Wanted(s) == [main |-> IF s.main = Huge THEN Largest ELSE OrDefault(s.main),
              rest |-> OrDefault(s.rest)]

\* hasDrift.
Differs(wants, is) == IF profile.leavesUnset THEN wants \notin {Unset, is} ELSE OrDefault(wants) # is
Drifted(s, is) ==
  profile.always \/ Differs(s.main, is.main) \/ (~profile.blind /\ Differs(s.rest, is.rest))

\* Mutant: the draft is compared, so that one left behind is never activated.
ComparesDraft == Drifted(obj.spec, IF profile.staged THEN draft ELSE live[obj.spec.slot])

\* The policy that counts is compared.
NeedsUpdate == Drifted(obj.spec, live[obj.spec.slot])

\* reconcileSpec, setDefaultMessageText. Nothing happens between Get and Update
\* that might not have happened after it.
Apply ==
  /\ pc = "apply" /\ ~IdpMissing /\ obj.spec.main # Bad
  /\ IF ~NeedsUpdate THEN UNCHANGED <<live, draft>>
     ELSE IF profile.staged THEN draft' = Wanted(obj.spec) /\ live' = live
     ELSE live' = [live EXCEPT ![obj.spec.slot] = Wanted(obj.spec)] /\ draft' = draft
  /\ Goto(IF profile.staged /\ NeedsUpdate THEN "activate"
          ELSE IF profile.idps THEN "sync" ELSE "ready")
  /\ UNCHANGED <<world, now, apiserver, cache, linked, idpId, limits>>

\* ActivateLabelPolicy.
Activate ==
  /\ pc = "activate"
  /\ live' = [s \in Slots |-> draft]
  /\ Goto("ready")
  /\ UNCHANGED <<world, now, apiserver, cache, draft, linked, idpId, limits>>

\* syncIdps. An identity provider that was deleted since cannot be added.
SyncIdps ==
  /\ pc = "sync"
  /\ IF obj.spec.idps /\ ~linked /\ ~idpId THEN linked' = linked /\ Return
     ELSE linked' = obj.spec.idps /\ Goto("ready")
  /\ UNCHANGED <<world, now, apiserver, cache, live, draft, idpId, limits>>

\* markReady.
MarkReady ==
  /\ pc = "ready"
  /\ IF obj.ready THEN NoWrite ELSE ApplyStatus(TRUE)
  /\ Return
  /\ UNCHANGED <<world, now, uids, cache, zitadel, idpId, limits>>

\* handleSingletonDeletion, shouldResetOnDelete. Zitadel lets an organization's owner reset nothing.
MayReset == cur \in Annotated /\ binding = "iam-owner"

Cleanup ==
  /\ pc = "cleanup"
  /\ IF ~MayReset THEN UNCHANGED <<live, draft>>
     ELSE /\ live' = [live EXCEPT ![obj.spec.slot] = Defaults]
          /\ draft' = IF profile.staged THEN Defaults ELSE draft
  /\ Goto("release")
  /\ UNCHANGED <<world, now, apiserver, cache, linked, idpId, limits>>

\* A failed reset is ignored. Of a staged kind's two calls, both or the second fail.
CleanupFails ==
  /\ pc = "cleanup" /\ MayReset /\ faults < MaxFaults
  /\ draft' \in IF profile.staged THEN {draft, Defaults} ELSE {draft}
  /\ Goto("release") /\ faults' = faults + 1
  /\ UNCHANGED <<world, now, apiserver, cache, live, linked, idpId, edits>>

RemoveFinalizer ==
  /\ pc = "release"
  /\ IF obj.finalizer /\ UpdateAccepted THEN Store(cur, Collected([obj EXCEPT !.finalizer = FALSE]))
     ELSE NoWrite
  /\ Return
  /\ UNCHANGED <<world, now, uids, cache, zitadel, idpId, limits>>

\* A call fails or the process dies.
Fault ==
  /\ pc # "idle" /\ faults < MaxFaults
  /\ Return /\ faults' = faults + 1
  /\ UNCHANGED <<world, now, apiserver, cache, zitadel, idpId, edits>>

\* The operator is started again with a key of the other level.
Rebind ==
  /\ faults < MaxFaults
  /\ binding' \in {"iam-owner", "org-owner"} \ {binding}
  /\ Return /\ faults' = faults + 1
  /\ UNCHANGED <<profile, now, apiserver, cache, zitadel, idpId, edits>>

-----------------------------------------------------------------------------
(* The informer, the clock, the users, and others who change the settings. *)

Observe ==
  /\ cache # crs /\ cache' = crs
  /\ UNCHANGED <<world, now, apiserver, zitadel, idpId, reconcile, limits>>

\* The time matters to what is created, and there between two creations.
Tick ==
  /\ 0 < uids /\ uids < MaxUid /\ now < MaxTime /\ now' = now + 1
  /\ UNCHANGED <<world, apiserver, cache, zitadel, idpId, reconcile, limits>>

Create(c, s) ==
  /\ ~crs[c].there /\ uids < MaxUid /\ s \in SpecsOf(profile) \cap Asks[c]
  /\ uids' = uids + 1
  /\ Store(c, [NoResource EXCEPT !.there = TRUE, !.uid = uids + 1, !.born = now, !.spec = s])
  /\ UNCHANGED <<world, now, cache, zitadel, idpId, reconcile, limits>>

Edit == edits < MaxEdits /\ edits' = edits + 1 /\ UNCHANGED <<world, now, cache, reconcile, faults>>

Delete(c) ==
  /\ Edit /\ crs[c].there /\ ~crs[c].deleting
  /\ Store(c, Collected([crs[c] EXCEPT !.deleting = TRUE]))
  /\ UNCHANGED <<uids, zitadel, idpId>>

ChangeSpec(c, s) ==
  /\ Edit /\ crs[c].there /\ ~crs[c].deleting /\ s \in SpecsOf(profile) \ {crs[c].spec}
  /\ Store(c, [crs[c] EXCEPT !.spec = s])
  /\ UNCHANGED <<uids, zitadel, idpId>>

\* Someone changes the settings in Zitadel.
Drift(slot, new) ==
  /\ Edit /\ new # live[slot] /\ (slot = TheSlot \/ profile.bySlot)
  /\ live' = [live EXCEPT ![slot] = new]
  /\ UNCHANGED <<apiserver, draft, linked, idpId>>

\* Until a resource lists it, an identity provider does not matter.
Listed == \E c \in Names : crs[c].spec.idps

IdpReady ==
  /\ Listed /\ ~idpId /\ idpId' = TRUE
  /\ UNCHANGED <<world, now, apiserver, cache, zitadel, reconcile, limits>>

\* The identity provider is deleted; its own reconcile takes it out of the policy.
IdpGone ==
  /\ Edit /\ Listed /\ idpId /\ idpId' = FALSE /\ linked' = FALSE
  /\ UNCHANGED <<apiserver, live, draft>>

Step ==
  \/ ReportUnsupported \/ CheckConflict \/ EnsureFinalizer \/ WaitForIdp \/ Unparsable
  \/ Apply \/ Activate \/ SyncIdps \/ MarkReady \/ Cleanup \/ RemoveFinalizer

Next ==
  \/ (\E c \in Names : Begin(c)) \/ Step \/ CleanupFails \/ Fault \/ Rebind \/ Observe \/ Tick
  \/ (\E c \in Names, s \in Specs : Create(c, s))
  \/ (\E c \in Names : Delete(c))
  \/ (\E c \in Names, s \in Specs : ChangeSpec(c, s))
  \/ (\E slot \in Slots, new \in Drifts : Drift(slot, new))
  \/ IdpReady \/ IdpGone

\* Every resource is queued again, and the queue is first in, first out; the
\* informer catches up. Nothing else has to happen.
Fairness == WF_vars(Step) /\ WF_vars(Observe) /\ \A c \in Names : SF_vars(Begin(c))

Spec == Init /\ [][Next]_vars /\ Fairness

-----------------------------------------------------------------------------
(* Properties.                                                             *)

TypeOK ==
  /\ profile \in Profiles /\ binding \in {"iam-owner", "org-owner"}
  /\ now \in 0..MaxTime /\ uids \in 0..MaxUid
  /\ crs \in [Names -> Resource] /\ cache \in [Names -> Resource]
  /\ live \in [Slots -> Settings] /\ draft \in Settings
  /\ linked \in BOOLEAN /\ idpId \in BOOLEAN
  /\ pc \in {"idle", "unsupported", "conflict", "finalizer", "apply", "activate", "sync",
             "ready", "cleanup", "release"}
  /\ cur \in Names \cup {None} /\ obj \in Resource
  /\ edits \in 0..MaxEdits /\ faults \in 0..MaxFaults

Writes == pc' # pc /\ zitadel' # zitadel

\* A resource changes the settings only if none that was created in an earlier
\* second lives, although it looks for those in a cache, some steps before. (Nobody
\* but a user can move an older resource to the slot meanwhile.)
YoungerNeverWrites ==
  [][Writes => \A d \in Names \ {cur} :
       crs[d].there /\ ~crs[d].deleting /\ crs[d].born < obj.born =>
         profile.bySlot /\ (edits > 0 \/ ~SameSlot(crs[d], obj))]_vars

\* Whoever puts its settings in force is still there, and does not go without a
\* chance to reset them: its finalizer is at the API server, whatever the copy is.
WritesUnderFinalizer ==
  [][Writes /\ ~obj.deleting =>
       crs[cur].there /\ crs[cur].uid = obj.uid /\ crs[cur].finalizer]_vars

\* Names do not tell apart what manages the same message text since the same second.
Rival(d, c) == /\ d # c /\ crs[d].there /\ ~crs[d].deleting
               /\ profile.bySlot => crs[d].spec.slot = crs[c].spec.slot
Elder(d, c) == /\ Rival(d, c)
               /\ \/ crs[d].born < crs[c].born
                  \/ ~profile.bySlot /\ crs[d].born = crs[c].born /\ d < c
Manages(c)  == /\ binding = "iam-owner" /\ crs[c].there /\ ~crs[c].deleting
               /\ \A d \in Names : Rival(d, c) => Elder(c, d)
Sound(c)    == crs[c].spec.main # Bad /\ (crs[c].spec.idps => idpId)
InForce(wants, is) ==
  \/ wants = is \/ (wants = Huge /\ is = Largest)
  \/ wants = Unset /\ (is = Default \/ profile.leavesUnset)
Applied(c)  ==
  LET s == crs[c].spec
  IN  /\ crs[c].ready
      /\ InForce(s.main, live[s.slot].main)
      /\ profile.blind \/ InForce(s.rest, live[s.slot].rest)
      /\ profile.idps => linked = s.idps

\* Users and failures permitting, what the resource created first asks for is in
\* force for good, whoever it took over from.
Served ==
  \A c \in Names :
    <>[](Manages(c) /\ Sound(c)) => <>[]Applied(c)

\* A deleted resource goes, under any binding, unless one created before it lives.
DeletionCompletes ==
  \A c \in Names : crs[c].deleting ~> (~crs[c].deleting \/ \E d \in Names : Elder(d, c))
=============================================================================
