--------------------------- MODULE SingletonsProofs ---------------------------
(***************************************************************************)
(* Proofs about Singletons, for any kinds, names, settings and bounds: of  *)
(* several resources of a kind only the eldest writes, and it writes while *)
(* its finalizer stands, although every step works on a copy from a cache. *)
(*                                                                         *)
(* The cache is what the API server had at one earlier moment. So a copy   *)
(* is an earlier version of the resource or a resource that is gone (Old); *)
(* one with a finalizer that was not deleted is still there (Held), for    *)
(* only the reconcile of a deleted copy takes finalizers away, and after   *)
(* it the cache never shows the copy undeleted again; and whoever sees a   *)
(* resource sees the elder ones that still exist (SeesOlder).              *)
(***************************************************************************)
EXTENDS Singletons, TLAPS

\* What a copy of resource c says of it.
Old(x, c) ==
  x.there => /\ x.uid \in 1..uids /\ x.born <= now
             /\ crs[c].there => x.uid <= crs[c].uid
             /\ crs[c].there /\ crs[c].uid = x.uid =>
                  /\ crs[c].born = x.born
                  /\ x.deleting => crs[c].deleting
                  /\ x.finalizer => crs[c].finalizer
                  /\ edits = 0 => crs[c].spec = x.spec
Held(x, c) == x.there /\ x.finalizer /\ ~x.deleting => crs[c].there /\ crs[c].uid = x.uid
SeesOlder(x) ==
  x.there => \A d \in Names : crs[d].there /\ crs[d].born < x.born
                                => cache[d].there /\ cache[d].uid = crs[d].uid

CacheInv ==
  /\ \A c \in Names : crs[c].there => crs[c].uid \in 1..uids /\ crs[c].born <= now
  /\ \A c \in Names : Old(cache[c], c) /\ Held(cache[c], c) /\ SeesOlder(cache[c])
ControlInv ==
  /\ pc # "idle" => cur \in Names /\ obj.there
  /\ pc = "finalizer" => ~obj.deleting
  /\ pc \in {"apply", "activate", "sync", "ready"} => obj.finalizer /\ ~obj.deleting
  /\ pc \in {"cleanup", "release"} => obj.deleting
\* A reconcile's copy; the cache does not go back behind it.
CopyInv ==
  pc # "idle" =>
    /\ Old(obj, cur) /\ Held(obj, cur) /\ SeesOlder(obj)
    /\ obj.deleting /\ cache[cur].there /\ cache[cur].uid = obj.uid => cache[cur].deleting
\* Past the check, no resource that was created earlier lives.
ElderInv ==
  pc \notin {"idle", "unsupported", "conflict"} =>
    \A d \in Names \ {cur} :
      crs[d].there /\ ~crs[d].deleting /\ crs[d].born < obj.born =>
        profile.bySlot /\ (edits > 0 \/ ~SameSlot(crs[d], obj))
IInv == TypeOK /\ CacheInv /\ ControlInv /\ CopyInv /\ ElderInv

USE SingletonsAssumption

-----------------------------------------------------------------------------
(* Types *)

LEMMA NoResourceType == NoResource \in Resource
BY DEF NoResource, Resource

\* Applying what a spec asks for gives settings, unless it does not parse.
LEMMA WantedType == ASSUME NEW s \in Specs, s.main # Bad PROVE Wanted(s) \in Settings
<1>1. s \in SpecType
  OBVIOUS
<1>2. /\ s.main \in Values \cup {Unset, Huge} /\ s.rest \in Values \cup {Unset}
  BY <1>1 DEF SpecType
<1>3. QED  BY <1>2 DEF Wanted, OrDefault, Settings

\* What is stored for a name, and with which marks, is a resource.
LEMMA MarkedType ==
  ASSUME NEW r \in Resource
  PROVE  /\ \A b \in BOOLEAN : /\ [r EXCEPT !.finalizer = b] \in Resource
                               /\ [r EXCEPT !.deleting = b] \in Resource
                               /\ [r EXCEPT !.ready = b] \in Resource
         /\ \A s \in Specs : [r EXCEPT !.spec = s] \in Resource
BY DEF Resource

LEMMA CollectedType == ASSUME NEW r \in Resource PROVE Collected(r) \in Resource
BY NoResourceType DEF Collected

\* A status is all that is written by name.
LEMMA StatusOnly ==
  ASSUME TypeOK, cur \in Names, NEW b \in BOOLEAN, ApplyStatus(b)
  PROVE  /\ crs' \in [Names -> Resource]
         /\ \A c \in Names : /\ crs'[c].there = crs[c].there /\ crs'[c].uid = crs[c].uid
                             /\ crs'[c].born = crs[c].born /\ crs'[c].spec = crs[c].spec
                             /\ crs'[c].deleting = crs[c].deleting
                             /\ crs'[c].finalizer = crs[c].finalizer
<1>1. crs \in [Names -> Resource]
  BY DEF TypeOK
<1>2. CASE crs' = crs
  BY <1>1, <1>2
<1>3. CASE crs' = [crs EXCEPT ![cur] = [crs[cur] EXCEPT !.ready = b]]
  <2>1. crs[cur] \in Resource /\ [crs[cur] EXCEPT !.ready = b] \in Resource
    BY <1>1, MarkedType
  <2>2. crs'[cur] = [crs[cur] EXCEPT !.ready = b] /\ \A c \in Names : c # cur => crs'[c] = crs[c]
    BY <1>1, <1>3
  <2>3. crs' \in [Names -> Resource]
    BY <1>1, <1>3, <2>1
  <2>4. /\ crs'[cur].there = crs[cur].there /\ crs'[cur].uid = crs[cur].uid
        /\ crs'[cur].born = crs[cur].born /\ crs'[cur].spec = crs[cur].spec
        /\ crs'[cur].deleting = crs[cur].deleting /\ crs'[cur].finalizer = crs[cur].finalizer
    BY <2>1, <2>2 DEF Resource
  <2>5. QED  BY <2>2, <2>3, <2>4
<1>4. QED  BY <1>2, <1>3 DEF ApplyStatus, Store, NoWrite

LEMMA InitInv == Init => IInv
<1> SUFFICES ASSUME Init PROVE IInv
  OBVIOUS
<1>1. \A c \in Names : ~crs[c].there /\ ~cache[c].there
  BY DEF Init, NoResource
<1>2. TypeOK
  <2>1. crs \in [Names -> Resource] /\ cache \in [Names -> Resource] /\ obj \in Resource
    BY NoResourceType DEF Init
  <2>2. live \in [Slots -> Settings] /\ draft \in Settings
    BY DEF Init, Defaults, Settings
  <2>3. 0 \in 0..MaxTime /\ 0 \in 0..MaxUid /\ 0 \in 0..MaxEdits /\ 0 \in 0..MaxFaults
    OBVIOUS
  <2>4. now = 0 /\ uids = 0 /\ edits = 0 /\ faults = 0 /\ pc = "idle" /\ cur = None
        /\ profile \in Profiles /\ binding \in {"iam-owner", "org-owner"}
        /\ linked \in BOOLEAN /\ idpId \in BOOLEAN
    BY DEF Init
  <2>5. QED  BY <2>1, <2>2, <2>3, <2>4 DEF TypeOK
<1>3. CacheInv
  BY <1>1 DEF CacheInv, Old, Held, SeesOlder
<1>4. QED  BY <1>2, <1>3 DEF Init, IInv, ControlInv, CopyInv, ElderInv

\* The steps of a reconcile that write at the API server.
LEMMA ReturnType == Return => pc' = "idle" /\ cur' \in Names \cup {None} /\ obj' \in Resource
BY NoResourceType DEF Return

LEMMA StepType == TypeOK /\ ControlInv /\ Step => TypeOK'
<1> SUFFICES ASSUME TypeOK, ControlInv, Step PROVE TypeOK'
  OBVIOUS
<1> USE DEF world, zitadel, limits, apiserver
<1>1. CASE ReportUnsupported
  BY <1>1, StatusOnly, ReturnType DEF ReportUnsupported, TypeOK, ControlInv
<1>2. CASE CheckConflict
  <2>1. crs' \in [Names -> Resource]
    BY <1>2, StatusOnly DEF CheckConflict, NoWrite, TypeOK, ControlInv
  <2>2. CASE Return
    BY <1>2, <2>1, <2>2, ReturnType DEF CheckConflict, TypeOK
  <2>3. CASE Goto(AfterCheck)
    BY <1>2, <2>1, <2>3 DEF CheckConflict, Goto, AfterCheck, TypeOK
  <2>4. QED  BY <1>2, <2>2, <2>3 DEF CheckConflict
<1>3. CASE EnsureFinalizer
  <2>1. cur \in Names /\ [obj EXCEPT !.finalizer = TRUE] \in Resource
    BY <1>3, MarkedType DEF EnsureFinalizer, ControlInv, TypeOK
  <2>2. CASE UpdateAccepted
    BY <1>3, <2>1, <2>2 DEF EnsureFinalizer, Store, TypeOK
  <2>3. CASE ~UpdateAccepted
    BY <1>3, <2>3, ReturnType DEF EnsureFinalizer, NoWrite, TypeOK
  <2>4. QED  BY <2>2, <2>3
<1>4. CASE WaitForIdp
  BY <1>4, StatusOnly, ReturnType DEF WaitForIdp, TypeOK, ControlInv
<1>5. CASE Unparsable
  BY <1>5, ReturnType DEF Unparsable, NoWrite, TypeOK
<1>6. CASE Apply
  <2>1. Wanted(obj.spec) \in Settings
    BY <1>6, WantedType DEF Apply, TypeOK, Resource
  <2>2. live' \in [Slots -> Settings] /\ draft' \in Settings
    BY <1>6, <2>1 DEF Apply, TypeOK
  <2>3. QED  BY <1>6, <2>2 DEF Apply, Goto, TypeOK
<1>7. CASE Activate
  BY <1>7 DEF Activate, Goto, TypeOK
<1>8. CASE SyncIdps
  <2>1. linked' \in BOOLEAN
    BY <1>8 DEF SyncIdps, TypeOK, Resource, SpecType
  <2>2. QED  BY <1>8, <2>1, ReturnType DEF SyncIdps, Goto, TypeOK
<1>9. CASE MarkReady
  <2>1. crs' \in [Names -> Resource]
    BY <1>9, StatusOnly DEF MarkReady, NoWrite, TypeOK, ControlInv
  <2>2. QED  BY <1>9, <2>1, ReturnType DEF MarkReady, TypeOK
<1>10. CASE Cleanup
  <2>1. live' \in [Slots -> Settings] /\ draft' \in Settings
    BY <1>10 DEF Cleanup, Defaults, Settings, TypeOK
  <2>2. QED  BY <1>10, <2>1 DEF Cleanup, Goto, TypeOK
<1>11. CASE RemoveFinalizer
  <2>1. cur \in Names /\ Collected([obj EXCEPT !.finalizer = FALSE]) \in Resource
    BY <1>11, MarkedType, CollectedType DEF RemoveFinalizer, ControlInv, TypeOK
  <2>2. crs' \in [Names -> Resource]
    BY <1>11, <2>1 DEF RemoveFinalizer, Store, NoWrite, TypeOK
  <2>3. QED  BY <1>11, <2>2, ReturnType DEF RemoveFinalizer, TypeOK
<1>12. QED
  BY <1>1, <1>2, <1>3, <1>4, <1>5, <1>6, <1>7, <1>8, <1>9, <1>10, <1>11 DEF Step

LEMMA OthersType ==
  ASSUME TypeOK, [Next]_vars, ~Step
  PROVE  TypeOK'
<1> USE DEF world, zitadel, limits, apiserver, reconcile
<1>1. CASE UNCHANGED vars
  BY <1>1 DEF vars, TypeOK
<1>2. ASSUME NEW c \in Names, Begin(c) PROVE TypeOK'
  BY <1>2 DEF Begin, TypeOK
<1>3. CASE CleanupFails
  <2>1. draft' \in Settings
    BY <1>3 DEF CleanupFails, Defaults, Settings, TypeOK
  <2>2. QED  BY <1>3, <2>1 DEF CleanupFails, Goto, TypeOK
<1>4. CASE Fault
  BY <1>4, ReturnType DEF Fault, TypeOK
<1>5. CASE Rebind
  BY <1>5, ReturnType DEF Rebind, TypeOK
<1>6. CASE Observe
  BY <1>6 DEF Observe, TypeOK
<1>7. CASE Tick
  BY <1>7 DEF Tick, TypeOK
<1>8. ASSUME NEW c \in Names, NEW s \in Specs, Create(c, s) PROVE TypeOK'
  <2>1. [NoResource EXCEPT !.there = TRUE, !.uid = uids + 1, !.born = now, !.spec = s] \in Resource
    <3>1. uids + 1 \in 0..MaxUid /\ now \in 0..MaxTime
      BY <1>8 DEF Create, TypeOK
    <3>2. QED  BY <3>1 DEF NoResource, Resource
  <2>2. crs' \in [Names -> Resource] /\ uids' \in 0..MaxUid
    BY <1>8, <2>1 DEF Create, Store, TypeOK
  <2>3. QED  BY <1>8, <2>2 DEF Create, TypeOK
<1>9. ASSUME NEW c \in Names, Delete(c) PROVE TypeOK'
  <2>1. Collected([crs[c] EXCEPT !.deleting = TRUE]) \in Resource
    BY MarkedType, CollectedType DEF TypeOK
  <2>2. crs' \in [Names -> Resource]
    BY <1>9, <2>1 DEF Delete, Store, TypeOK
  <2>3. QED  BY <1>9, <2>2 DEF Delete, Edit, TypeOK
<1>10. ASSUME NEW c \in Names, NEW s \in Specs, ChangeSpec(c, s) PROVE TypeOK'
  <2>1. [crs[c] EXCEPT !.spec = s] \in Resource
    BY MarkedType DEF TypeOK
  <2>2. crs' \in [Names -> Resource]
    BY <1>10, <2>1 DEF ChangeSpec, Store, TypeOK
  <2>3. QED  BY <1>10, <2>2 DEF ChangeSpec, Edit, TypeOK
<1>11. ASSUME NEW slot \in Slots, NEW new \in Drifts, Drift(slot, new) PROVE TypeOK'
  BY <1>11 DEF Drift, Edit, TypeOK
<1>12. CASE IdpReady
  BY <1>12 DEF IdpReady, TypeOK
<1>13. CASE IdpGone
  <2>1. edits' \in 0..MaxEdits
    BY <1>13 DEF IdpGone, Edit, TypeOK
  <2>2. QED  BY <1>13, <2>1 DEF IdpGone, Edit, TypeOK
<1>14. QED
  BY <1>1, <1>2, <1>3, <1>4, <1>5, <1>6, <1>7, <1>8, <1>9, <1>10, <1>11, <1>12, <1>13 DEF Next

LEMMA TypeStep == TypeOK /\ ControlInv /\ [Next]_vars => TypeOK'
BY StepType, OthersType

-----------------------------------------------------------------------------
(* What a step makes of a resource *)

\* It goes, or a later version of it follows, or one is created.
Follows(c) ==
  \/ ~crs'[c].there
  \/ /\ crs[c].there /\ crs'[c].uid = crs[c].uid /\ crs'[c].born = crs[c].born
     /\ crs[c].deleting => crs'[c].deleting
     /\ crs[c].finalizer => crs'[c].finalizer
     /\ edits' = 0 => crs'[c].spec = crs[c].spec
  \/ ~crs[c].there /\ crs'[c].uid = uids + 1 /\ uids' = uids + 1 /\ crs'[c].born = now
\* A finalizer holds it.
Stays(c) == crs[c].there /\ crs[c].finalizer => crs'[c].there /\ crs'[c].uid = crs[c].uid
\* Nothing is counted backwards.
Counts == /\ uids \in Nat /\ uids' \in Nat /\ uids <= uids'
          /\ now \in Nat /\ now' \in Nat /\ now <= now'
          /\ edits \in Nat /\ edits' \in Nat /\ edits <= edits'

LEMMA CountsStep == TypeOK /\ TypeOK' /\ [Next]_vars => Counts
<1> SUFFICES ASSUME TypeOK, TypeOK', [Next]_vars PROVE Counts
  OBVIOUS
<1>1. /\ uids \in Nat /\ uids' \in Nat /\ now \in Nat /\ now' \in Nat
      /\ edits \in Nat /\ edits' \in Nat
  BY DEF TypeOK
<1>2. uids' \in {uids, uids + 1} /\ now' \in {now, now + 1} /\ edits' \in {edits, edits + 1}
  BY DEF Next, vars, Step, Begin, ReportUnsupported, CheckConflict, EnsureFinalizer, WaitForIdp,
         Unparsable, Apply, Activate, SyncIdps, MarkReady, Cleanup, CleanupFails, RemoveFinalizer,
         Fault, Rebind, Observe, Tick, Create, Edit, Delete, ChangeSpec, Drift, IdpReady, IdpGone,
         apiserver, limits
<1>3. QED  BY <1>1, <1>2 DEF Counts

\* A status is no new version.
LEMMA StatusFollows ==
  ASSUME TypeOK, cur \in Names, NEW b \in BOOLEAN, ApplyStatus(b) \/ NoWrite, NEW c \in Names
  PROVE  Follows(c) /\ Stays(c)
<1>1. CASE NoWrite
  BY <1>1 DEF NoWrite, Follows, Stays
<1>2. CASE ApplyStatus(b)
  BY <1>2, StatusOnly DEF Follows, Stays
<1>3. QED  BY <1>1, <1>2

LEMMA StepFollows ==
  ASSUME TypeOK, ControlInv, Step, NEW c \in Names
  PROVE  Follows(c) /\ (RemoveFinalizer \/ Stays(c))
<1>1. CASE ReportUnsupported \/ CheckConflict \/ WaitForIdp \/ Unparsable \/ MarkReady
  <2>1. pc # "idle" /\ (NoWrite \/ \E b \in BOOLEAN : ApplyStatus(b))
    BY <1>1 DEF ReportUnsupported, CheckConflict, WaitForIdp, Unparsable, MarkReady
  <2>2. QED  BY <2>1, StatusFollows DEF ControlInv
<1>2. CASE EnsureFinalizer
  <2>1. cur \in Names /\ crs \in [Names -> Resource] /\ obj \in Resource
    BY <1>2 DEF EnsureFinalizer, ControlInv, TypeOK
  <2>2. CASE UpdateAccepted
    <3>1. crs' = [crs EXCEPT ![cur] = [obj EXCEPT !.finalizer = TRUE]] /\ crs[cur] = obj
      BY <1>2, <2>2 DEF EnsureFinalizer, Store, UpdateAccepted
    <3>2. crs'[cur] = [obj EXCEPT !.finalizer = TRUE]
      BY <2>1, <3>1
    <3>3. /\ crs'[cur].there = obj.there /\ crs'[cur].uid = obj.uid /\ crs'[cur].born = obj.born
          /\ crs'[cur].spec = obj.spec /\ crs'[cur].deleting = obj.deleting
          /\ crs'[cur].finalizer
      BY <2>1, <3>2 DEF Resource
    <3>4. CASE c = cur
      BY <3>1, <3>3, <3>4 DEF Follows, Stays
    <3>5. CASE c # cur
      BY <2>1, <3>1, <3>5 DEF Follows, Stays
    <3>6. QED  BY <3>4, <3>5
  <2>3. CASE ~UpdateAccepted
    BY <1>2, <2>3 DEF EnsureFinalizer, NoWrite, Follows, Stays
  <2>4. QED  BY <2>2, <2>3
<1>3. CASE Apply \/ Activate \/ SyncIdps \/ Cleanup
  BY <1>3 DEF Apply, Activate, SyncIdps, Cleanup, apiserver, Follows, Stays
<1>4. CASE RemoveFinalizer
  <2>1. CASE NoWrite
    BY <1>4, <2>1 DEF NoWrite, Follows
  <2>2. CASE UpdateAccepted /\ Store(cur, Collected([obj EXCEPT !.finalizer = FALSE]))
    <3>1. cur \in Names /\ crs \in [Names -> Resource] /\ obj \in Resource /\ obj.deleting
      BY <1>4 DEF RemoveFinalizer, ControlInv, TypeOK
    <3>2. Collected([obj EXCEPT !.finalizer = FALSE]) = NoResource
      BY <3>1 DEF Collected, Resource
    <3>3. crs' = [crs EXCEPT ![cur] = NoResource]
      BY <2>2, <3>2 DEF Store
    <3>4. CASE c = cur
      BY <1>4, <3>1, <3>3, <3>4 DEF NoResource, Follows
    <3>5. CASE c # cur
      BY <1>4, <3>1, <3>3, <3>5 DEF Follows
    <3>6. QED  BY <3>4, <3>5
  <2>3. QED  BY <1>4, <2>1, <2>2 DEF RemoveFinalizer
<1>5. QED  BY <1>1, <1>2, <1>3, <1>4 DEF Step

LEMMA OthersFollow ==
  ASSUME TypeOK, [Next]_vars, ~Step, NEW c \in Names
  PROVE  Follows(c) /\ Stays(c)
<1>0. crs \in [Names -> Resource]
  BY DEF TypeOK
<1>1. CASE UNCHANGED crs
  BY <1>1 DEF Follows, Stays
<1>2. ASSUME NEW d \in Names, NEW s \in Specs, Create(d, s) PROVE Follows(c) /\ Stays(c)
  <2>1. /\ crs' = [crs EXCEPT ![d] =
             [NoResource EXCEPT !.there = TRUE, !.uid = uids + 1, !.born = now, !.spec = s]]
        /\ ~crs[d].there /\ uids' = uids + 1
    BY <1>2 DEF Create, Store
  <2>2. CASE c = d
    BY <1>0, <2>1, <2>2 DEF NoResource, Follows, Stays
  <2>3. CASE c # d
    BY <1>0, <2>1, <2>3 DEF Follows, Stays
  <2>4. QED  BY <2>2, <2>3
<1>3. ASSUME NEW d \in Names, Delete(d) PROVE Follows(c) /\ Stays(c)
  <2> DEFINE marked == [crs[d] EXCEPT !.deleting = TRUE]
  <2>1. crs[d] \in Resource /\ crs' = [crs EXCEPT ![d] = Collected(marked)] /\ crs[d].there
    BY <1>0, <1>3 DEF Delete, Store
  <2>2. /\ marked.there /\ marked.uid = crs[d].uid /\ marked.born = crs[d].born
        /\ marked.spec = crs[d].spec /\ marked.deleting /\ marked.finalizer = crs[d].finalizer
    BY <2>1 DEF Resource
  <2>3. Collected(marked) = IF crs[d].finalizer THEN marked ELSE NoResource
    BY <2>2 DEF Collected
  <2> HIDE DEF marked
  <2>4. CASE c = d
    BY <1>0, <2>1, <2>2, <2>3, <2>4 DEF NoResource, Follows, Stays
  <2>5. CASE c # d
    BY <1>0, <2>1, <2>5 DEF Follows, Stays
  <2>6. QED  BY <2>4, <2>5
<1>4. ASSUME NEW d \in Names, NEW s \in Specs, ChangeSpec(d, s) PROVE Follows(c) /\ Stays(c)
  <2>1. /\ crs[d] \in Resource /\ crs' = [crs EXCEPT ![d] = [crs[d] EXCEPT !.spec = s]]
        /\ edits' = edits + 1 /\ edits \in Nat
    BY <1>0, <1>4 DEF ChangeSpec, Store, Edit, TypeOK
  <2>2. CASE c = d
    <3>1. crs'[d] = [crs[d] EXCEPT !.spec = s] /\ edits' # 0
      BY <1>0, <2>1
    <3>2. /\ crs'[d].there = crs[d].there /\ crs'[d].uid = crs[d].uid /\ crs'[d].born = crs[d].born
          /\ crs'[d].deleting = crs[d].deleting /\ crs'[d].finalizer = crs[d].finalizer
      BY <2>1, <3>1 DEF Resource
    <3>3. QED  BY <2>2, <3>1, <3>2 DEF Follows, Stays
  <2>3. CASE c # d
    BY <1>0, <2>1, <2>3 DEF Follows, Stays
  <2>4. QED  BY <2>2, <2>3
<1>5. QED
  BY <1>1, <1>2, <1>3, <1>4
  DEF Next, vars, apiserver, Begin, CleanupFails, Fault, Rebind, Observe, Tick, Drift, IdpReady,
      IdpGone

-----------------------------------------------------------------------------
(* What remains true of copies *)

LEMMA OldKept ==
  ASSUME Counts, NEW c \in Names, Follows(c), NEW x \in Resource, Old(x, c),
         crs[c].there => crs[c].uid \in 1..uids
  PROVE  /\ x.there => /\ x.uid \in 1..uids' /\ x.born <= now'
                       /\ crs'[c].there => x.uid <= crs'[c].uid
                       /\ crs'[c].there /\ crs'[c].uid = x.uid =>
                            /\ crs'[c].born = x.born
                            /\ x.deleting => crs'[c].deleting
                            /\ x.finalizer => crs'[c].finalizer
                            /\ edits' = 0 => crs'[c].spec = x.spec
<1> SUFFICES ASSUME x.there
             PROVE  /\ x.uid \in 1..uids' /\ x.born <= now'
                    /\ crs'[c].there => x.uid <= crs'[c].uid
                    /\ crs'[c].there /\ crs'[c].uid = x.uid =>
                         /\ crs'[c].born = x.born
                         /\ x.deleting => crs'[c].deleting
                         /\ x.finalizer => crs'[c].finalizer
                         /\ edits' = 0 => crs'[c].spec = x.spec
  OBVIOUS
<1>1. x.uid \in 1..uids /\ x.uid \in Nat /\ x.born \in Nat /\ x.born <= now
  BY DEF Old, Resource
<1>2. x.uid \in 1..uids' /\ x.born <= now'
  BY <1>1 DEF Counts
<1>3. edits' = 0 => edits = 0
  BY DEF Counts
<1>4. CASE ~crs'[c].there
  BY <1>2, <1>4
<1>5. CASE ~crs[c].there /\ crs'[c].uid = uids + 1
  BY <1>1, <1>2, <1>5 DEF Counts
<1>6. CASE /\ crs[c].there /\ crs'[c].uid = crs[c].uid /\ crs'[c].born = crs[c].born
           /\ crs[c].deleting => crs'[c].deleting
           /\ crs[c].finalizer => crs'[c].finalizer
           /\ edits' = 0 => crs'[c].spec = crs[c].spec
  BY <1>2, <1>3, <1>6 DEF Old
<1>7. QED  BY <1>4, <1>5, <1>6 DEF Follows

LEMMA HeldKept ==
  ASSUME NEW c \in Names, Stays(c), NEW x \in Resource, Old(x, c), Held(x, c)
  PROVE  x.there /\ x.finalizer /\ ~x.deleting => crs'[c].there /\ crs'[c].uid = x.uid
BY DEF Stays, Old, Held

LEMMA SeesKept ==
  ASSUME Counts, \A d \in Names : Follows(d), UNCHANGED cache,
         NEW x \in Resource, x.there => x.born <= now, SeesOlder(x)
  PROVE  x.there => \A d \in Names : crs'[d].there /\ crs'[d].born < x.born
                                       => cache'[d].there /\ cache'[d].uid = crs'[d].uid
<1> SUFFICES ASSUME x.there, NEW d \in Names, crs'[d].there, crs'[d].born < x.born
             PROVE  cache[d].there /\ cache[d].uid = crs'[d].uid
  OBVIOUS
<1>1. x.born \in Nat /\ x.born <= now
  BY DEF Resource
<1>2. crs'[d].born # now
  BY <1>1 DEF Counts
<1>3. crs[d].there /\ crs'[d].uid = crs[d].uid /\ crs'[d].born = crs[d].born
  BY <1>2 DEF Follows
<1>4. QED  BY <1>3 DEF SeesOlder

LEMMA ExistingStep ==
  ASSUME Counts, NEW c \in Names, Follows(c), crs'[c] \in Resource,
         crs[c].there => crs[c].uid \in 1..uids /\ crs[c].born <= now,
         crs[c] \in Resource
  PROVE  crs'[c].there => crs'[c].uid \in 1..uids' /\ crs'[c].born <= now'
<1>1. crs[c].born \in Nat /\ crs[c].uid \in Nat
  BY DEF Resource
<1>2. QED  BY <1>1 DEF Counts, Follows

-----------------------------------------------------------------------------
(* The inductive invariant *)

\* Where a step takes the reconcile: it begins one, ends it, takes it on with the same copy, or
\* leaves it alone. Only EnsureFinalizer changes the copy.
LEMMA ReconcileMoves ==
  ASSUME ControlInv, [Next]_vars
  PROVE  \/ \E c \in Names : Begin(c)
         \/ pc' = "idle"
         \/ EnsureFinalizer /\ UpdateAccepted
         \/ /\ UNCHANGED <<cur, obj, profile>> /\ pc # "idle" /\ pc' # "idle" /\ ~RemoveFinalizer
            /\ \/ pc' = pc
               \/ pc = "conflict" /\ ~Yields /\ pc' = AfterCheck
               \/ pc \in {"apply", "activate", "sync"} /\ pc' \in {"activate", "sync", "ready"}
               \/ pc = "cleanup" /\ pc' = "release"
<1> USE DEF ControlInv
<1>1. CASE UNCHANGED vars
  BY <1>1 DEF vars, reconcile, world, apiserver, RemoveFinalizer, Return
<1>2. CASE Step
  <2>1. CASE ReportUnsupported \/ WaitForIdp \/ Unparsable \/ MarkReady \/ RemoveFinalizer
    BY <2>1 DEF ReportUnsupported, WaitForIdp, Unparsable, MarkReady, RemoveFinalizer, Return
  <2>2. CASE CheckConflict
    BY <2>2 DEF CheckConflict, Return, Goto, AfterCheck, world, RemoveFinalizer
  <2>3. CASE EnsureFinalizer
    BY <2>3 DEF EnsureFinalizer, Return
  <2>4. CASE Apply \/ Activate \/ SyncIdps \/ Cleanup
    BY <2>4 DEF Apply, Activate, SyncIdps, Cleanup, Return, Goto, world, RemoveFinalizer
  <2>5. QED  BY <1>2, <2>1, <2>2, <2>3, <2>4 DEF Step
<1>3. CASE CleanupFails \/ Fault \/ Rebind
  BY <1>3 DEF CleanupFails, Fault, Rebind, Return, Goto, world, RemoveFinalizer
<1>4. CASE UNCHANGED <<reconcile, profile>>
  BY <1>4 DEF reconcile, RemoveFinalizer, Return
<1>5. QED
  BY <1>1, <1>2, <1>3, <1>4
  DEF Next, Observe, Tick, Create, Edit, Delete, ChangeSpec, Drift, IdpReady, IdpGone, world

LEMMA ControlStep == ASSUME IInv, [Next]_vars PROVE ControlInv'
<1> USE DEF IInv
<1>1. ASSUME NEW c \in Names, Begin(c) PROVE ControlInv'
  BY <1>1 DEF Begin, ControlInv
<1>2. CASE pc' = "idle"
  BY <1>2 DEF ControlInv
<1>3. CASE EnsureFinalizer /\ UpdateAccepted
  <2>1. /\ pc = "finalizer" /\ pc' = "apply" /\ cur' = cur
        /\ obj' = [obj EXCEPT !.finalizer = TRUE] /\ obj \in Resource
    BY <1>3 DEF EnsureFinalizer, TypeOK
  <2>2. obj'.finalizer /\ obj'.deleting = obj.deleting /\ obj'.there = obj.there
    BY <2>1 DEF Resource
  <2>3. QED  BY <2>1, <2>2 DEF ControlInv
<1>4. CASE UNCHANGED <<cur, obj>> /\ pc # "idle" /\ pc' # "idle"
           /\ \/ pc' = pc
              \/ pc = "conflict" /\ ~Yields /\ pc' = AfterCheck
              \/ pc \in {"apply", "activate", "sync"} /\ pc' \in {"activate", "sync", "ready"}
              \/ pc = "cleanup" /\ pc' = "release"
  BY <1>4 DEF ControlInv, AfterCheck
<1>5. QED  BY <1>1, <1>2, <1>3, <1>4, ReconcileMoves

\* Observing makes the copies in the cache present ones; the other steps leave them.
LEMMA ObserveOrNot == [Next]_vars => UNCHANGED cache \/ Observe
BY DEF Next, vars, Step, Begin, ReportUnsupported, CheckConflict, EnsureFinalizer, WaitForIdp,
       Unparsable, Apply, Activate, SyncIdps, MarkReady, Cleanup, CleanupFails, RemoveFinalizer,
       Fault, Rebind, Tick, Create, Edit, Delete, ChangeSpec, Drift, IdpReady, IdpGone

LEMMA VersionsStep ==
  ASSUME IInv, [Next]_vars
  PROVE  /\ TypeOK' /\ Counts
         /\ \A c \in Names : Follows(c) /\ (RemoveFinalizer \/ Stays(c))
         /\ \A c \in Names : crs'[c].there => crs'[c].uid \in 1..uids' /\ crs'[c].born <= now'
<1> USE DEF IInv
<1>1. TypeOK' /\ Counts
  BY TypeStep, CountsStep
<1>2. \A c \in Names : Follows(c) /\ (RemoveFinalizer \/ Stays(c))
  BY StepFollows, OthersFollow
<1>3. \A c \in Names : crs[c] \in Resource /\ crs'[c] \in Resource
  BY <1>1 DEF TypeOK
<1>4. QED  BY <1>1, <1>2, <1>3, ExistingStep DEF CacheInv

\* The cache shows no undeleted version of a copy whose finalizer is removed.
LEMMA RemovedIsSeen ==
  ASSUME IInv, RemoveFinalizer,
         cache[cur].there, cache[cur].finalizer, ~cache[cur].deleting
  PROVE  crs'[cur].there /\ crs'[cur].uid = cache[cur].uid
<1> USE DEF IInv
<1>1. /\ cur \in Names
      /\ cache[cur].uid # obj.uid
  BY DEF RemoveFinalizer, ControlInv, CopyInv
<1>2. crs[cur].there /\ crs[cur].uid = cache[cur].uid
  BY <1>1 DEF CacheInv, Held
<1>3. ~UpdateAccepted
  BY <1>1, <1>2 DEF UpdateAccepted
<1>4. QED  BY <1>2, <1>3 DEF RemoveFinalizer, NoWrite

LEMMA CacheStep == ASSUME IInv, [Next]_vars PROVE CacheInv'
<1> USE DEF IInv
<1>1. /\ TypeOK' /\ Counts
      /\ \A c \in Names : Follows(c) /\ (RemoveFinalizer \/ Stays(c))
      /\ \A c \in Names : crs'[c].there => crs'[c].uid \in 1..uids' /\ crs'[c].born <= now'
  BY VersionsStep
<1>2. CASE Observe
  <2>1. cache' = crs'
    BY <1>2 DEF Observe, apiserver
  <2>2. \A c \in Names : crs'[c].uid \in Nat
    BY <1>1 DEF TypeOK, Resource
  <2>3. QED  BY <1>1, <2>1, <2>2 DEF CacheInv, Old, Held, SeesOlder
<1>3. CASE UNCHANGED cache
  <2>1. \A c \in Names : cache[c] \in Resource /\ Old(cache[c], c) /\ Held(cache[c], c)
                         /\ SeesOlder(cache[c])
    BY DEF TypeOK, CacheInv
  <2>2. \A c \in Names : cache[c].there => cache[c].born <= now
    BY <2>1 DEF Old
  <2>3. ASSUME NEW c \in Names PROVE Old(cache[c], c)'
    <3>1. crs[c].there => crs[c].uid \in 1..uids
      BY DEF CacheInv
    <3>2. QED  BY <1>1, <1>3, <2>1, <3>1, OldKept DEF Old
  <2>4. ASSUME NEW c \in Names PROVE SeesOlder(cache[c])'
    BY <1>1, <1>3, <2>1, <2>2, SeesKept DEF SeesOlder
  <2>5. ASSUME NEW c \in Names PROVE Held(cache[c], c)'
    <3>1. CASE Stays(c)
      BY <1>3, <2>1, <3>1, HeldKept DEF Held
    <3>2. CASE RemoveFinalizer /\ c = cur
      <4>1. cache[c].there /\ cache[c].finalizer /\ ~cache[c].deleting
              => crs'[c].there /\ crs'[c].uid = cache[c].uid
        BY <3>2, RemovedIsSeen
      <4>2. QED  BY <1>3, <4>1 DEF Held
    <3>3. CASE RemoveFinalizer /\ c # cur
      <4>1. crs'[c] = crs[c]
        BY <3>3 DEF RemoveFinalizer, Store, NoWrite, TypeOK
      <4>2. QED  BY <1>3, <2>1, <4>1 DEF Held
    <3>4. QED  BY <1>1, <3>1, <3>2, <3>3
  <2>6. QED  BY <1>1, <2>3, <2>4, <2>5 DEF CacheInv
<1>4. QED  BY <1>2, <1>3, ObserveOrNot

LEMMA CopyStep == ASSUME IInv, [Next]_vars PROVE CopyInv'
<1> USE DEF IInv
<1>1. /\ TypeOK' /\ Counts
      /\ \A c \in Names : Follows(c) /\ (RemoveFinalizer \/ Stays(c))
      /\ \A c \in Names : crs'[c].there => crs'[c].uid \in 1..uids' /\ crs'[c].born <= now'
  BY VersionsStep
<1>2. CacheInv'
  BY CacheStep
<1>3. ASSUME NEW c \in Names, Begin(c) PROVE CopyInv'
  <2>1. cur' = c /\ obj' = cache[c] /\ cache' = cache
    BY <1>3 DEF Begin
  <2>2. Old(cache[c], c)' /\ Held(cache[c], c)' /\ SeesOlder(cache[c])'
    BY <1>2 DEF CacheInv
  <2>3. QED  BY <2>1, <2>2 DEF CopyInv, Old, Held, SeesOlder
<1>4. CASE pc' = "idle"
  BY <1>4 DEF CopyInv
<1>5. CASE EnsureFinalizer /\ UpdateAccepted
  <2>1. /\ pc = "finalizer" /\ cur' = cur /\ cur \in Names /\ crs[cur] = obj /\ cache' = cache
        /\ obj' = [obj EXCEPT !.finalizer = TRUE] /\ crs' = [crs EXCEPT ![cur] = obj']
        /\ uids' = uids /\ now' = now
    BY <1>5 DEF EnsureFinalizer, ControlInv, Store, UpdateAccepted
  <2>2. obj \in Resource /\ crs'[cur] = obj' /\ obj' \in Resource
    BY <1>1, <2>1 DEF TypeOK
  <2>3. /\ obj'.there = obj.there /\ obj'.uid = obj.uid /\ obj'.born = obj.born
        /\ obj'.deleting = obj.deleting /\ ~obj.deleting
    BY <2>1, <2>2 DEF Resource, ControlInv
  <2>4. Old(obj, cur)'
    <3>1. obj'.uid <= obj'.uid
      BY <2>2 DEF Resource
    <3>2. QED  BY <1>1, <2>1, <2>2, <3>1 DEF Old
  <2>5. Held(obj, cur)'
    BY <2>1, <2>2 DEF Held
  <2>6. SeesOlder(obj)'
    <3>1. SeesOlder(obj) /\ (obj.there => obj.born <= now)
      BY <2>1 DEF CopyInv, Old
    <3>2. obj.there => \A d \in Names : crs'[d].there /\ crs'[d].born < obj.born
                                          => cache'[d].there /\ cache'[d].uid = crs'[d].uid
      BY <1>1, <2>1, <2>2, <3>1, SeesKept
    <3>3. QED  BY <2>3, <3>2 DEF SeesOlder
  <2>7. QED  BY <2>3, <2>4, <2>5, <2>6 DEF CopyInv
<1>6. CASE UNCHANGED <<cur, obj>> /\ pc # "idle" /\ pc' # "idle" /\ ~RemoveFinalizer
  <2>1. /\ obj \in Resource /\ cur \in Names /\ Stays(cur) /\ Follows(cur)
        /\ Old(obj, cur) /\ Held(obj, cur) /\ SeesOlder(obj)
    BY <1>1, <1>6 DEF TypeOK, ControlInv, CopyInv
  <2>2. Old(obj, cur)'
    <3>1. crs[cur].there => crs[cur].uid \in 1..uids
      BY <2>1 DEF CacheInv
    <3>2. QED  BY <1>1, <1>6, <2>1, <3>1, OldKept DEF Old
  <2>3. Held(obj, cur)'
    BY <1>6, <2>1, HeldKept DEF Held
  <2>4. CASE Observe
    <3>1. cache' = crs' /\ crs' = crs
      BY <2>4 DEF Observe, apiserver
    <3>2. SeesOlder(obj)'
      BY <3>1 DEF SeesOlder
    <3>3. obj.deleting /\ crs[cur].there /\ crs[cur].uid = obj.uid => crs[cur].deleting
      BY <1>6, <2>1 DEF Old, ControlInv
    <3>4. QED  BY <1>6, <2>2, <2>3, <3>1, <3>2, <3>3 DEF CopyInv
  <2>5. CASE UNCHANGED cache
    <3>1. obj.there => obj.born <= now
      BY <2>1 DEF Old
    <3>2. SeesOlder(obj)'
      BY <1>1, <1>6, <2>1, <2>5, <3>1, SeesKept DEF SeesOlder
    <3>3. QED  BY <1>6, <2>2, <2>3, <2>5, <3>2 DEF CopyInv
  <2>6. QED  BY <2>4, <2>5, ObserveOrNot
<1>7. QED  BY <1>3, <1>4, <1>5, <1>6, ReconcileMoves

\* A cache that shows the copy shows the elder resources that exist, so that the check finds them.
LEMMA CheckFinds ==
  ASSUME IInv, pc = "conflict", ~Yields, NEW d \in Names \ {cur},
         crs[d].there, ~crs[d].deleting, crs[d].born < obj.born
  PROVE  profile.bySlot /\ (edits > 0 \/ ~SameSlot(crs[d], obj))
<1> USE DEF IInv
<1>1. obj.there /\ SeesOlder(obj)
  BY DEF ControlInv, CopyInv
<1>2. cache[d].there /\ cache[d].uid = crs[d].uid
  BY <1>1 DEF SeesOlder
<1>3. /\ crs[d].born = cache[d].born /\ ~cache[d].deleting
      /\ edits = 0 => crs[d].spec = cache[d].spec
  BY <1>2 DEF CacheInv, Old
<1>4. ~SameSlot(cache[d], obj)
  BY <1>2, <1>3 DEF Yields, Before
<1>5. edits \in Nat
  BY DEF TypeOK
<1>6. QED  BY <1>3, <1>4, <1>5 DEF SameSlot

LEMMA ElderStep == ASSUME IInv, [Next]_vars PROVE ElderInv'
<1> USE DEF IInv
<1> DEFINE Passed == pc \notin {"idle", "unsupported", "conflict"}
           Settled(d) == crs[d].there /\ ~crs[d].deleting /\ crs[d].born < obj.born =>
                           profile.bySlot /\ (edits > 0 \/ ~SameSlot(crs[d], obj))
<1>1. TypeOK' /\ Counts /\ \A c \in Names : Follows(c)
  BY VersionsStep
<1>2. CASE pc' \in {"idle", "unsupported", "conflict"}
  BY <1>2 DEF ElderInv
<1>3. CASE EnsureFinalizer /\ UpdateAccepted
  <2>1. /\ pc = "finalizer" /\ cur' = cur /\ cur \in Names /\ profile' = profile /\ edits' = edits
        /\ obj' = [obj EXCEPT !.finalizer = TRUE] /\ crs' = [crs EXCEPT ![cur] = obj']
    BY <1>3 DEF EnsureFinalizer, ControlInv, Store, world, limits
  <2>2. obj'.born = obj.born /\ obj'.spec = obj.spec
    BY <2>1 DEF TypeOK, Resource
  <2>3. \A d \in Names \ {cur} : crs'[d] = crs[d]
    BY <2>1 DEF TypeOK
  <2>4. QED  BY <2>1, <2>2, <2>3 DEF ElderInv, SameSlot
<1>4. ASSUME UNCHANGED <<cur, obj, profile>>, pc # "idle", pc' # "idle",
             \A d \in Names \ {cur} : Settled(d)
      PROVE  ElderInv'
  <2>1. SUFFICES ASSUME NEW d \in Names \ {cur}, crs'[d].there, ~crs'[d].deleting,
                        crs'[d].born < obj.born
                 PROVE  profile.bySlot /\ (edits' > 0 \/ ~SameSlot(crs'[d], obj))
    BY <1>4 DEF ElderInv, SameSlot
  <2>2. obj.born <= now /\ obj.born \in Nat
    BY <1>4 DEF CopyInv, ControlInv, Old, TypeOK, Resource
  <2>3. crs'[d].born # now
    BY <2>1, <2>2, <1>1 DEF Counts
  <2>4. /\ crs[d].there /\ crs'[d].born = crs[d].born /\ ~crs[d].deleting
        /\ edits' = 0 => crs'[d].spec = crs[d].spec
    BY <1>1, <2>1, <2>3 DEF Follows
  <2>5. profile.bySlot /\ (edits > 0 \/ ~SameSlot(crs[d], obj))
    BY <1>4, <2>1, <2>4
  <2>6. CASE edits' > 0
    BY <2>5, <2>6
  <2>7. CASE edits' = 0
    BY <1>1, <2>4, <2>5, <2>7 DEF Counts, SameSlot
  <2>8. QED  BY <1>1, <2>6, <2>7 DEF Counts
<1>5. CASE /\ UNCHANGED <<cur, obj, profile>> /\ pc # "idle" /\ pc' # "idle"
           /\ \/ pc' = pc
              \/ pc = "conflict" /\ ~Yields /\ pc' = AfterCheck
              \/ pc \in {"apply", "activate", "sync"} /\ pc' \in {"activate", "sync", "ready"}
              \/ pc = "cleanup" /\ pc' = "release"
  <2>1. CASE Passed
    BY <1>4, <1>5, <2>1 DEF ElderInv
  <2>2. CASE pc = "conflict" /\ ~Yields
    BY <1>4, <1>5, <2>2, CheckFinds
  <2>3. QED  BY <1>2, <1>5, <2>1, <2>2
<1>6. ASSUME NEW c \in Names, Begin(c) PROVE pc' \in {"unsupported", "conflict"}
  BY <1>6 DEF Begin
<1>7. QED  BY <1>2, <1>3, <1>5, <1>6, ReconcileMoves

\* The invariant behind the theorems below holds in every reachable state.
THEOREM Inductive == Spec => []IInv
<1>1. Init => IInv
  BY InitInv
<1>2. IInv /\ [Next]_vars => IInv'
  BY VersionsStep, CacheStep, ControlStep, CopyStep, ElderStep DEF IInv
<1>3. QED  BY <1>1, <1>2, PTL DEF Spec

-----------------------------------------------------------------------------
(* Who writes *)

\* Settings change at a step of the reconcile only past the check.
LEMMA WritesPastCheck ==
  ASSUME [Next]_vars, Writes
  PROVE  pc \in {"apply", "activate", "sync", "cleanup"}
<1>1. CASE Step \/ CleanupFails
  BY <1>1 DEF Writes, zitadel, Step, ReportUnsupported, CheckConflict, EnsureFinalizer, WaitForIdp,
              Unparsable, Apply, Activate, SyncIdps, MarkReady, Cleanup, CleanupFails,
              RemoveFinalizer
<1>2. CASE UNCHANGED pc \/ UNCHANGED zitadel
  BY <1>2 DEF Writes
<1>3. QED
  BY <1>1, <1>2
  DEF Next, vars, reconcile, Begin, Fault, Rebind, Observe, Tick, Create, Edit, Delete, ChangeSpec,
      Drift, IdpReady, IdpGone

\* A resource that lives and was created in an earlier second keeps a younger one from the
\* settings, for any number of resources, however far the cache is behind; only an edit can
\* move one to a text that a younger one is about to write.
THEOREM EldersWrite == Spec => YoungerNeverWrites
<1> DEFINE Allowed == Writes => \A d \in Names \ {cur} :
                        crs[d].there /\ ~crs[d].deleting /\ crs[d].born < obj.born =>
                          profile.bySlot /\ (edits > 0 \/ ~SameSlot(crs[d], obj))
<1>1. IInv /\ [Next]_vars => [Allowed]_vars
  BY WritesPastCheck DEF IInv, ElderInv
<1>2. QED  BY <1>1, Inductive, PTL DEF Spec, YoungerNeverWrites

\* Whoever puts its settings in force has its finalizer at the API server, however old its
\* copy is: it cannot go without its deletion being handled.
THEOREM FinalizerFirst == Spec => WritesUnderFinalizer
<1> DEFINE Allowed == Writes /\ ~obj.deleting =>
                        crs[cur].there /\ crs[cur].uid = obj.uid /\ crs[cur].finalizer
<1>1. IInv /\ [Next]_vars => [Allowed]_vars
  <2>1. SUFFICES ASSUME IInv, [Next]_vars, Writes, ~obj.deleting
                 PROVE  crs[cur].there /\ crs[cur].uid = obj.uid /\ crs[cur].finalizer
    OBVIOUS
  <2>2. pc \in {"apply", "activate", "sync"} /\ obj.there /\ obj.finalizer
    BY <2>1, WritesPastCheck DEF IInv, ControlInv
  <2>3. QED  BY <2>1, <2>2 DEF IInv, CopyInv, Held, Old
<1>2. QED  BY <1>1, Inductive, PTL DEF Spec, WritesUnderFinalizer
=============================================================================
