--------------------------- MODULE ScopeMapsProofs ---------------------------
(***************************************************************************)
(* Proofs about ScopeMaps, for any number of maps, namespaces, tenants and *)
(* GC loops: type correctness; that delegates stand only for what versions *)
(* of a map state; what a ready status vouches for; and what an            *)
(* undisturbed sweep keeps.                                                *)
(*                                                                         *)
(* What the caches and the reconciler hold are versions of maps that were  *)
(* applied (Applied), with an organization that a version of that map has  *)
(* meant (Recorded): a lookup takes the names of today for a spec of       *)
(* yesterday, so the record takes in what every version means by them. The *)
(* resolver, which reads such copies, answers with scopes on record.       *)
(***************************************************************************)
EXTENDS ScopeMaps, TLAPS

\* Copies of a map are applied versions.
Applied ==
  /\ \A m \in Maps : map[m] # None => map[m].spec \in Specs
  /\ \A m \in Maps : seenMap[m] # None => seenMap[m].spec \in Specs
\* A spec and an organization that belong to the map m.
OnRecord(m, spec, org) == spec \in versions[m] /\ org \in meant[m] \cup {None}
\* Copies are on record, as are what their names mean and what tenants ask for.
Recorded ==
  /\ \A m \in Maps : map[m] # None => OnRecord(m, map[m].spec, map[m].status.resolved)
  /\ \A m \in Maps : seenMap[m] # None => OnRecord(m, seenMap[m].spec, seenMap[m].status.resolved)
  /\ pc["mapController"] \in {"lookup", "write"} => OnRecord(cr.name, cr.spec, cr.resolved)
  /\ \A m \in Maps : \A spec \in versions[m] : OrgsMeant(spec, orgName) \subseteq meant[m]
  /\ \A t \in Tenants : asked[t] # None => Stated(asked[t])
\* The reconciler holds a copy between its calls.
ControlOK == pc["mapController"] \in {"lookup", "write"} => cr \in Copy
TypeInv == TypeOK /\ ControlOK
ScopesInv == TypeInv /\ Applied /\ Recorded /\ GrantedAsStated

----------------------------------------------------------------------------
(* The resolver *)

\* A scope comes from one existing map of this instance with an organization, and from
\* one of its rules; every other answer carries no scope.
LEMMA ScopeFromMap ==
  ASSUME NEW maps, NEW lab, NEW n, NEW r, r = Resolve(maps, lab, n)
  PROVE  \/ r.kind # "scope" /\ r.scope = None
         \/ /\ r.kind = "scope"
            /\ \E m \in Maps : \E j \in DOMAIN maps[m].spec.rules :
                 /\ maps[m] # None /\ maps[m].spec.instance = Instance
                 /\ ValidateRule(maps[m].spec.rules[j])
                 /\ OrgOf(maps[m]) # None
                 /\ r.scope = [org |-> OrgOf(maps[m]), project |-> maps[m].spec.rules[j].project]
<1> DEFINE ms == Deciders(maps, lab, n)
           the == CHOOSE m \in ms : TRUE
           i == CHOOSE j \in Deciding(maps[the].spec, n, lab[n]) : TRUE
<1>1. CASE \/ \A m \in Maps : maps[m] = None
           \/ lab[n] = None
           \/ \E m \in ms : RuleFails(DecidingRule(maps[m], n, lab[n]))
           \/ ms = {}
           \/ \E m, o \in ms : m # o
  BY <1>1 DEF Resolve, Outcome
<1>2. CASE /\ ~(\A m \in Maps : maps[m] = None) /\ lab[n] # None
           /\ ~(\E m \in ms : RuleFails(DecidingRule(maps[m], n, lab[n])))
           /\ ms # {} /\ ~(\E m, o \in ms : m # o)
  <2>1. the \in ms
    BY <1>2
  <2>2. the \in Maps /\ maps[the] # None /\ i \in Deciding(maps[the].spec, n, lab[n])
    BY <2>1 DEF Deciders
  <2>3. i \in DOMAIN maps[the].spec.rules /\ ValidateRule(maps[the].spec.rules[i])
    BY <2>2 DEF Deciding, RuleFails, RuleMatches
  <2>4. Resolve(maps, lab, n) = ScopeFrom(maps[the], n, lab[n])
    BY <1>2 DEF Resolve
  <2>5. DecidingRule(maps[the], n, lab[n]) = maps[the].spec.rules[i]
    BY DEF DecidingRule
  <2>6. CASE maps[the].spec.instance # Instance \/ OrgOf(maps[the]) = None
    <3>1. r = Outcome("InstanceMismatch") \/ r = Outcome("ScopeMapNotReady")
      BY <2>4, <2>6 DEF ScopeFrom, Usable
    <3>2. QED  BY <3>1 DEF Outcome
  <2>7. CASE maps[the].spec.instance = Instance /\ OrgOf(maps[the]) # None
    <3>1. r =
            [kind |-> "scope",
             scope |-> [org |-> OrgOf(maps[the]), project |-> maps[the].spec.rules[i].project]]
      BY <2>4, <2>5, <2>7 DEF ScopeFrom, Usable
    <3> HIDE DEF the, i
    <3>2. QED  BY <2>2, <2>3, <2>7, <3>1
  <2>8. QED  BY <2>6, <2>7
<1>3. QED  BY <1>1, <1>2

\* A resolved scope is an organization id with a rule's project.
LEMMA ScopeTyped ==
  ASSUME NEW maps, NEW lab, NEW n, NEW r, r = Resolve(maps, lab, n), r.kind = "scope",
         \A m \in Maps : maps[m] # None => maps[m] \in ScopeMap
  PROVE  r.scope \in Scope
<1>1. PICK m \in Maps : \E j \in DOMAIN maps[m].spec.rules :
        /\ maps[m] # None /\ maps[m].spec.instance = Instance
        /\ ValidateRule(maps[m].spec.rules[j])
        /\ OrgOf(maps[m]) # None
        /\ r.scope = [org |-> OrgOf(maps[m]), project |-> maps[m].spec.rules[j].project]
  BY ScopeFromMap
<1>2. PICK j \in DOMAIN maps[m].spec.rules :
        r.scope = [org |-> OrgOf(maps[m]), project |-> maps[m].spec.rules[j].project]
  BY <1>1
<1>3. maps[m] \in ScopeMap
  BY <1>1
<1>4. OrgOf(maps[m]) \in Orgs
  BY <1>1, <1>3 DEF OrgOf, ScopeMap, ScopeMapSpec, ScopeMapStatus
<1>5. maps[m].spec.rules \in Seq(Rule)
  BY <1>3 DEF ScopeMap, ScopeMapSpec
<1>6. maps[m].spec.rules[j] \in Rule
  BY <1>5
<1>7. maps[m].spec.rules[j].project \in Projects \cup {None}
  BY <1>6 DEF Rule
<1>8. QED  BY <1>2, <1>4, <1>7 DEF Scope

\* Resolving copies on record gives a scope that is stated.
LEMMA ScopeStated ==
  ASSUME NEW maps, NEW lab, NEW n, NEW r, r = Resolve(maps, lab, n), r.kind = "scope",
         \A m \in Maps : maps[m] # None => OnRecord(m, maps[m].spec, maps[m].status.resolved)
  PROVE  Stated(r.scope)
<1>1. PICK m \in Maps : \E j \in DOMAIN maps[m].spec.rules :
        /\ maps[m] # None /\ maps[m].spec.instance = Instance
        /\ ValidateRule(maps[m].spec.rules[j])
        /\ OrgOf(maps[m]) # None
        /\ r.scope = [org |-> OrgOf(maps[m]), project |-> maps[m].spec.rules[j].project]
  BY ScopeFromMap
<1>2. OrgOf(maps[m]) \in Served(m, maps[m].spec) /\ maps[m].spec \in versions[m]
  BY <1>1 DEF OnRecord, Served, OrgOf
<1>3. QED  BY <1>1, <1>2 DEF Stated

----------------------------------------------------------------------------
(* Type correctness *)

LEMMA InitType == Init => TypeInv
<1> SUFFICES ASSUME Init PROVE TypeInv
  OBVIOUS
<1>1. map \in [Maps -> ScopeMap \cup {None}] /\ seenMap \in [Maps -> ScopeMap \cup {None}]
  BY DEF Init, Unseen
<1>2. /\ labels \in [Namespaces -> (SUBSET Labels) \cup {None}]
      /\ seenLabels \in [Namespaces -> (SUBSET Labels) \cup {None}]
  BY ScopeMapsAssumption DEF Init, Unlabeled
<1>3. /\ pc \in [Sweepers -> {"idle", "lookup", "write", "list", "resolve", "revoke"}]
      /\ pc["mapController"] = "idle"
  BY DEF Init, Sweepers
<1>4. /\ live \in [Sweepers -> SUBSET Scope] /\ left \in [Sweepers -> SUBSET Namespaces]
      /\ doomed \in [Sweepers -> SUBSET Scope] /\ quiet \in [Sweepers -> BOOLEAN]
      /\ asked \in [Tenants -> Scope \cup {None}]
  BY DEF Init
<1>5. budget \in [Adversities -> Nat] /\ orgName \in [Orgs -> OrgNames \cup {None}]
  BY ScopeMapsAssumption DEF Init
<1>6. QED  BY <1>1, <1>2, <1>3, <1>4, <1>5 DEF Init, TypeInv, TypeOK, ControlOK

\* Spending lowers a budget; recording keeps the history's types.
LEMMA SpendType ==
  ASSUME TypeOK, NEW kind \in Adversities, Spend(kind)
  PROVE  budget' \in [Adversities -> Nat]
BY DEF TypeOK, Spend

HistoryType ==
  /\ versions \in [Maps -> SUBSET ScopeMapSpec] /\ meant \in [Maps -> SUBSET Orgs]
  /\ quiet \in [Sweepers -> BOOLEAN]

LEMMA OrgsMeantType == \A spec \in ScopeMapSpec : \A names : OrgsMeant(spec, names) \subseteq Orgs
BY DEF OrgsMeant, ScopeMapSpec

LEMMA RecordType ==
  ASSUME TypeOK, NEW ms, NEW os, Record(ms, os)
  PROVE  HistoryType'
<1>1. versions' \in [Maps -> SUBSET ScopeMapSpec]
  <2>1. Specs \subseteq ScopeMapSpec
    BY ScopeMapsAssumption
  <2>2. QED  BY <2>1 DEF TypeOK, Record
<1>2. meant' \in [Maps -> SUBSET Orgs]
  <2>1. ASSUME NEW m \in Maps
        PROVE  UNION {OrgsMeant(spec, os) : spec \in versions'[m]} \subseteq Orgs
    BY <1>1, OrgsMeantType
  <2>2. QED  BY <2>1 DEF TypeOK, Record
<1>3. QED  BY <1>1, <1>2 DEF Record, HistoryType

USE ResolutionAssumption, ScopeMapsAssumption

LEMMA NewMapType == ASSUME NEW spec \in ScopeMapSpec PROVE NewMap(spec) \in ScopeMap
BY DEF NewMap, NoStatus, ScopeMap, ScopeMapStatus

\* A version of a map differs in spec, deletion mark, generation or status.
LEMMA VersionType ==
  ASSUME NEW ms \in [Maps -> ScopeMap \cup {None}], NEW m \in Maps, ms[m] # None
  PROVE  /\ \A spec \in ScopeMapSpec :
              [ms EXCEPT ![m].spec = spec, ![m].gen = @ + 1] \in [Maps -> ScopeMap \cup {None}]
         /\ [ms EXCEPT ![m].deleting = TRUE, ![m].gen = @ + 1] \in [Maps -> ScopeMap \cup {None}]
         /\ \A s \in ScopeMapStatus :
              [ms EXCEPT ![m].status = s] \in [Maps -> ScopeMap \cup {None}]
<1> DEFINE o == ms[m]
<1>1. /\ o.gen + 1 \in Nat /\ o.deleting \in BOOLEAN
      /\ o.spec \in ScopeMapSpec /\ o.status \in ScopeMapStatus
      /\ o = [gen |-> o.gen, deleting |-> o.deleting, spec |-> o.spec, status |-> o.status]
  BY DEF ScopeMap
<1>2. ASSUME NEW spec \in ScopeMapSpec
      PROVE  [ms EXCEPT ![m].spec = spec, ![m].gen = @ + 1] \in [Maps -> ScopeMap \cup {None}]
  <2>1. [o EXCEPT !.spec = spec, !.gen = @ + 1] \in ScopeMap
    BY <1>1 DEF ScopeMap
  <2>2. QED  BY <2>1
<1>3. [ms EXCEPT ![m].deleting = TRUE, ![m].gen = @ + 1] \in [Maps -> ScopeMap \cup {None}]
  <2>1. [o EXCEPT !.deleting = TRUE, !.gen = @ + 1] \in ScopeMap
    BY <1>1 DEF ScopeMap
  <2>2. QED  BY <2>1
<1>4. ASSUME NEW s \in ScopeMapStatus
      PROVE  [ms EXCEPT ![m].status = s] \in [Maps -> ScopeMap \cup {None}]
  <2>1. [o EXCEPT !.status = s] \in ScopeMap
    BY <1>1 DEF ScopeMap
  <2>2. QED  BY <2>1
<1>5. QED  BY <1>2, <1>3, <1>4

LEMMA AdministrationType == TypeInv /\ Administration => TypeInv'
<1> SUFFICES ASSUME TypeInv, Administration PROVE TypeInv'
  OBVIOUS
<1> USE DEF TypeInv, ControlOK
<1>1. ASSUME NEW m \in Maps, NEW spec \in Specs, CreateMap(m, spec) PROVE TypeInv'
  <2>1. map' \in [Maps -> ScopeMap \cup {None}]
    BY <1>1, NewMapType DEF CreateMap, TypeOK
  <2>2. HistoryType'
    BY <1>1, <2>1, RecordType DEF CreateMap
  <2>3. budget' \in [Adversities -> Nat]
    BY <1>1, SpendType DEF CreateMap, Adversities
  <2>4. QED  BY <1>1, <2>1, <2>2, <2>3 DEF CreateMap, TypeOK, HistoryType, zitadel, caches, sweep
<1>2. ASSUME NEW m \in Maps, NEW spec \in Specs, UpdateMap(m, spec) PROVE TypeInv'
  <2>1. map' \in [Maps -> ScopeMap \cup {None}]
    BY <1>2, VersionType DEF UpdateMap, TypeOK
  <2>2. HistoryType'
    BY <1>2, <2>1, RecordType DEF UpdateMap
  <2>3. budget' \in [Adversities -> Nat]
    BY <1>2, SpendType DEF UpdateMap, Adversities
  <2>4. QED  BY <1>2, <2>1, <2>2, <2>3 DEF UpdateMap, TypeOK, HistoryType, zitadel, caches, sweep
<1>3. ASSUME NEW m \in Maps, DeleteMap(m) PROVE TypeInv'
  <2>1. map' \in [Maps -> ScopeMap \cup {None}]
    <3>1. map[m] # None /\ map \in [Maps -> ScopeMap \cup {None}]
      BY <1>3 DEF DeleteMap, TypeOK
    <3>2. [map EXCEPT ![m].deleting = TRUE, ![m].gen = @ + 1] \in [Maps -> ScopeMap \cup {None}]
      BY <3>1, VersionType
    <3>3. [map EXCEPT ![m] = None] \in [Maps -> ScopeMap \cup {None}]
      BY <3>1
    <3>4. QED  BY <1>3, <3>2, <3>3 DEF DeleteMap
  <2>2. HistoryType'
    BY <1>3, <2>1, RecordType DEF DeleteMap
  <2>3. budget' \in [Adversities -> Nat]
    BY <1>3, SpendType DEF DeleteMap, Adversities
  <2>4. QED  BY <1>3, <2>1, <2>2, <2>3 DEF DeleteMap, TypeOK, HistoryType, zitadel, caches, sweep
<1>4. ASSUME NEW m \in Maps, FinalizeMap(m) PROVE TypeInv'
  <2>1. map' \in [Maps -> ScopeMap \cup {None}]
    BY <1>4 DEF FinalizeMap, TypeOK
  <2>2. HistoryType'
    BY <1>4, <2>1, RecordType DEF FinalizeMap
  <2>3. QED  BY <1>4, <2>1, <2>2 DEF FinalizeMap, TypeOK, HistoryType, zitadel, caches, sweep
<1>5. ASSUME NEW n \in Namespaces, NEW l \in Labelings \cup {None}, Relabel(n, l) PROVE TypeInv'
  <2>1. labels' \in [Namespaces -> (SUBSET Labels) \cup {None}]
    BY <1>5 DEF Relabel, TypeOK
  <2>2. HistoryType'
    BY <1>5, RecordType DEF Relabel, TypeOK
  <2>3. budget' \in [Adversities -> Nat]
    BY <1>5, SpendType DEF Relabel, Adversities
  <2>4. QED  BY <1>5, <2>1, <2>2, <2>3 DEF Relabel, TypeOK, HistoryType, zitadel, caches, sweep
<1>6. ASSUME NEW o \in Orgs, NEW name \in OrgNames \cup {None}, RenameOrg(o, name) PROVE TypeInv'
  <2>1. orgName' \in [Orgs -> OrgNames \cup {None}]
    BY <1>6 DEF RenameOrg, TypeOK
  <2>2. HistoryType'
    BY <1>6, RecordType DEF RenameOrg, TypeOK
  <2>3. budget' \in [Adversities -> Nat]
    BY <1>6, SpendType DEF RenameOrg, Adversities
  <2>4. QED  BY <1>6, <2>1, <2>2, <2>3 DEF RenameOrg, TypeOK, HistoryType, kubernetes, caches, sweep
<1>7. QED  BY <1>1, <1>2, <1>3, <1>4, <1>5, <1>6 DEF Administration

LEMMA InformersType == TypeInv /\ Informers => TypeInv'
<1> SUFFICES ASSUME TypeInv, Informers PROVE TypeInv'
  OBVIOUS
<1> USE DEF TypeInv, ControlOK, TypeOK, kubernetes, zitadel, sweep, history, record
<1>1. CASE FillCaches
  BY <1>1 DEF FillCaches
<1>2. CASE Sync
  BY <1>2 DEF Sync
<1>3. ASSUME NEW m \in Maps, ObserveMap(m) PROVE TypeInv'
  BY <1>3 DEF ObserveMap
<1>4. ASSUME NEW n \in Namespaces, ObserveNamespace(n) PROVE TypeInv'
  BY <1>4 DEF ObserveNamespace
<1>5. QED  BY <1>1, <1>2, <1>3, <1>4 DEF Informers

LEMMA CrashType == TypeInv /\ Crash => TypeInv'
<1> SUFFICES ASSUME TypeInv, Crash PROVE TypeInv'
  OBVIOUS
<1>1. budget' \in [Adversities -> Nat]
  BY SpendType DEF Crash, TypeInv, Adversities
<1>2. /\ seenMap' \in [Maps -> ScopeMap \cup {None}]
      /\ seenLabels' \in [Namespaces -> (SUBSET Labels) \cup {None}]
      /\ listed' \in BOOLEAN /\ synced' \in BOOLEAN /\ queue' \subseteq Maps
  BY DEF Crash, Unseen, Unlabeled
<1>3. /\ pc' \in [Sweepers -> {"idle", "lookup", "write", "list", "resolve", "revoke"}]
      /\ pc'["mapController"] = "idle" /\ cr' = None
  BY DEF Crash, Sweepers
<1>4. /\ live' \in [Sweepers -> SUBSET Scope] /\ left' \in [Sweepers -> SUBSET Namespaces]
      /\ doomed' \in [Sweepers -> SUBSET Scope] /\ quiet' \in [Sweepers -> BOOLEAN]
      /\ asked' \in [Tenants -> Scope \cup {None}]
  BY DEF Crash
<1>5. QED  BY <1>1, <1>2, <1>3, <1>4 DEF Crash, TypeInv, TypeOK, ControlOK, kubernetes, zitadel, record

LEMMA ReconcileType == TypeInv /\ ReconcileStep => TypeInv'
<1> SUFFICES ASSUME TypeInv, ReconcileStep PROVE TypeInv'
  OBVIOUS
<1> DEFINE Places == {"idle", "lookup", "write", "list", "resolve", "revoke"}
<1>0. /\ pc \in [Sweepers -> Places] /\ "mapController" \in Sweepers
      /\ \A x \in Places : /\ [pc EXCEPT !["mapController"] = x] \in [Sweepers -> Places]
                           /\ [pc EXCEPT !["mapController"] = x]["mapController"] = x
  BY DEF TypeInv, TypeOK, Sweepers
<1>1. ASSUME NEW m \in Maps, Reconcile(m) PROVE TypeInv'
  <2> DEFINE o == seenMap[m]
  <2>1. CASE o = None
    BY <1>0, <1>1, <2>1
    DEF Reconcile, TypeInv, TypeOK, ControlOK, kubernetes, zitadel, caches, sweep, history, record
  <2>2. CASE o # None /\ o.deleting
    BY <1>0, <1>1, <2>2
    DEF Reconcile, TypeInv, TypeOK, ControlOK, kubernetes, zitadel, caches, sweep, history, record
  <2>3. CASE o # None /\ ~o.deleting
    <3>1. o \in ScopeMap
      BY <2>3 DEF TypeInv, TypeOK
    <3>2. /\ cr' = [name |-> m, gen |-> o.gen, spec |-> o.spec,
                    ready |-> ValidateMap(o.spec), resolved |-> o.spec.organizationId]
          /\ \/ pc' = [pc EXCEPT !["mapController"] = "lookup"]
             \/ pc' = [pc EXCEPT !["mapController"] = "write"]
          /\ queue' = Requeue(m)
      BY <1>1, <2>3 DEF Reconcile
    <3>3. cr' \in Copy
      <4>1. ValidateMap(o.spec) \in BOOLEAN
        BY DEF ValidateMap
      <4>2. o.gen \in Nat /\ o.spec \in ScopeMapSpec /\ o.spec.organizationId \in Orgs \cup {None}
        BY <3>1 DEF ScopeMap, ScopeMapSpec
      <4>3. QED  BY <3>2, <4>1, <4>2 DEF Copy
    <3>4. queue' \subseteq Maps
      BY <3>2 DEF Requeue, TypeInv, TypeOK
    <3>5. pc' \in [Sweepers -> Places]
      BY <1>0, <3>2
    <3>6. QED
      BY <1>1, <3>3, <3>4, <3>5
      DEF Reconcile, TypeInv, TypeOK, ControlOK, kubernetes, zitadel, caches, sweep, history, record
  <2>4. QED  BY <1>1, <2>1, <2>2, <2>3 DEF Reconcile
<1>2. CASE LookupOrganization
  <2>1. cr \in Copy
    BY <1>2 DEF LookupOrganization, TypeInv, ControlOK
  <2>2. cr' \in Copy
    <3>1. ASSUME NEW o \in OrgsMeant(cr.spec, orgName),
                 cr' = [cr EXCEPT !.resolved = o, !.ready = Contained(o)]
          PROVE  cr' \in Copy
      <4>1. o \in Orgs \cup {None} /\ Contained(o) \in BOOLEAN
        BY <2>1 DEF Copy, ScopeMapSpec, OrgsMeant, Contained
      <4>2. QED  BY <2>1, <3>1, <4>1 DEF Copy
    <3>2. CASE cr' = [cr EXCEPT !.ready = FALSE]
      BY <2>1, <3>2 DEF Copy
    <3>3. QED  BY <1>2, <3>1, <3>2 DEF LookupOrganization
  <2>3. budget' \in [Adversities -> Nat]
    BY <1>2, SpendType DEF LookupOrganization, TypeInv, TypeOK, Adversities
  <2>4. QED
    BY <1>0, <1>2, <2>2, <2>3
    DEF LookupOrganization, TypeInv, TypeOK, ControlOK, kubernetes, zitadel, caches, sweep, history, record
<1>3. CASE WriteStatus
  <2>1. cr \in Copy
    BY <1>3 DEF WriteStatus, TypeInv, ControlOK
  <2>2. Verdict \in ScopeMapStatus /\ cr.name \in Maps
    BY <2>1 DEF Verdict, ScopeMapStatus, Copy
  <2>3. map' \in [Maps -> ScopeMap \cup {None}]
    <3>1. map \in [Maps -> ScopeMap \cup {None}]
      BY DEF TypeInv, TypeOK
    <3>2. CASE map[cr.name] # None /\ map' = [map EXCEPT ![cr.name].status = Verdict]
      BY <2>2, <3>1, <3>2, VersionType
    <3>3. CASE map' = map
      BY <3>1, <3>3
    <3>4. QED  BY <1>3, <3>2, <3>3 DEF WriteStatus
  <2>4. budget' \in [Adversities -> Nat]
    BY <1>3, SpendType DEF WriteStatus, TypeInv, TypeOK, Adversities
  <2>5. /\ pc' \in [Sweepers -> Places] /\ pc'["mapController"] \in {"list", "idle"}
    BY <1>0, <1>3 DEF WriteStatus
  <2>6. QED
    BY <1>3, <2>3, <2>4, <2>5
    DEF WriteStatus, TypeInv, TypeOK, ControlOK, zitadel, caches, sweep, history, record
<1>4. QED  BY <1>1, <1>2, <1>3 DEF ReconcileStep

\* A sweep changes its own place, working sets and mark, and revokes.
LEMMA SweepType == ASSUME NEW p \in Sweepers PROVE TypeInv /\ SweepStep(p) => TypeInv'
<1> SUFFICES ASSUME TypeInv, SweepStep(p) PROVE TypeInv'
  OBVIOUS
<1> USE DEF TypeInv, TypeOK, kubernetes, zitadel, caches, history, record
<1> DEFINE Places == {"idle", "lookup", "write", "list", "resolve", "revoke"}
<1>0. \A x \in {"idle", "resolve", "revoke"} :
        [pc EXCEPT ![p] = x] \in [Sweepers -> Places]
        /\ ([pc EXCEPT ![p] = x]["mapController"] \in {"lookup", "write"}
              => pc["mapController"] \in {"lookup", "write"})
  BY DEF Sweepers
<1>1. CASE SweepOnce(p)
  <2>1. Current \in BOOLEAN
    BY DEF Current
  <2>2. QED  BY <1>0, <1>1, <2>1 DEF SweepOnce, ControlOK
<1>2. ASSUME NEW n \in Namespaces, SweepResolve(p, n) PROVE TypeInv'
  <2> DEFINE r == Resolve(seenMap, seenLabels, n)
  <2>1. CASE Aborts(r)
    <3>1. /\ pc' = [pc EXCEPT ![p] = "idle"] /\ left' = [left EXCEPT ![p] = {}]
          /\ live' = [live EXCEPT ![p] = {}] /\ quiet' = [quiet EXCEPT ![p] = FALSE]
      BY <1>2, <2>1 DEF SweepResolve
    <3>2. /\ left' \in [Sweepers -> SUBSET Namespaces] /\ live' \in [Sweepers -> SUBSET Scope]
          /\ quiet' \in [Sweepers -> BOOLEAN]
      BY <3>1
    <3>3. QED  BY <1>0, <1>2, <3>1, <3>2 DEF SweepResolve, ControlOK
  <2>2. CASE ~Aborts(r)
    <3>1. r.kind = "scope" => r.scope \in Scope
      BY ScopeTyped
    <3>2. live' \in [Sweepers -> SUBSET Scope]
      BY <1>2, <2>2, <3>1 DEF SweepResolve
    <3>3. QED  BY <1>2, <2>2, <3>2 DEF SweepResolve, ControlOK
  <2>3. QED  BY <2>1, <2>2
<1>3. CASE SweepDelegates(p)
  BY <1>0, <1>3 DEF SweepDelegates, ControlOK
<1>4. ASSUME NEW s \in Scope, SweepRevoke(p, s) PROVE TypeInv'
  BY <1>4 DEF SweepRevoke, ControlOK
<1>5. CASE SweepEnd(p)
  <2>1. budget' \in [Adversities -> Nat]
    BY <1>5, SpendType DEF SweepEnd, Adversities
  <2>2. QED  BY <1>0, <1>5, <2>1 DEF SweepEnd, ControlOK
<1>6. QED  BY <1>1, <1>2, <1>3, <1>4, <1>5 DEF SweepStep

LEMMA TenantType ==
  ASSUME TypeInv, NEW t \in Tenants
  PROVE  TenantEnsure(t) \/ (\E n \in Namespaces : TenantResolve(t, n)) => TypeInv'
<1> USE DEF TypeInv, TypeOK, ControlOK, kubernetes, caches, sweep, history, record
<1>1. ASSUME NEW n \in Namespaces, TenantResolve(t, n) PROVE TypeInv'
  <2> DEFINE r == Resolve(seenMap, seenLabels, n)
  <2>1. r.scope \in Scope
    BY <1>1, ScopeTyped DEF TenantResolve
  <2>2. QED  BY <1>1, <2>1 DEF TenantResolve, zitadel
<1>2. ASSUME TenantEnsure(t) PROVE TypeInv'
  <2>1. budget' \in [Adversities -> Nat]
    BY <1>2, SpendType DEF TenantEnsure, Adversities
  <2>2. QED  BY <1>2, <2>1 DEF TenantEnsure
<1>3. QED  BY <1>1, <1>2

LEMMA TypeStep == TypeInv /\ [Next]_vars => TypeInv'
<1> SUFFICES ASSUME TypeInv, [Next]_vars PROVE TypeInv'
  OBVIOUS
<1>1. CASE UNCHANGED vars
  BY <1>1 DEF vars, kubernetes, zitadel, caches, sweep, history, record, TypeInv, TypeOK, ControlOK
<1>2. CASE Next
  BY <1>2, AdministrationType, InformersType, CrashType, ReconcileType, SweepType, TenantType
  DEF Next
<1>3. QED  BY <1>1, <1>2

\* Type correctness of every reachable state.
THEOREM TypeCorrect == Spec => []TypeOK
<1>1. TypeInv => TypeOK
  BY DEF TypeInv
<1>2. QED  BY InitType, TypeStep, <1>1, PTL DEF Spec

----------------------------------------------------------------------------
(* Grants *)

\* What is on record stays there.
Grows == \A m \in Maps : versions[m] \subseteq versions'[m] /\ meant[m] \subseteq meant'[m]

LEMMA StaysOnRecord ==
  ASSUME Grows
  PROVE  /\ \A m \in Maps : \A spec, org : OnRecord(m, spec, org) => OnRecord(m, spec, org)'
         /\ \A s : Stated(s) => Stated(s)'
<1>1. \A m \in Maps : \A spec : Served(m, spec) \subseteq Served(m, spec)'
  BY DEF Grows, Served
<1>2. QED  BY <1>1 DEF Grows, OnRecord, Stated

\* A step that leaves the record alone need only keep to it.
LEMMA RecordKept ==
  ASSUME UNCHANGED record
  PROVE  /\ \A m, spec, org : OnRecord(m, spec, org)' <=> OnRecord(m, spec, org)
         /\ \A s : Stated(s)' <=> Stated(s)
<1>1. versions' = versions /\ meant' = meant
  BY DEF record
<1>2. \A m, spec : Served(m, spec)' = Served(m, spec)
  BY <1>1 DEF Served
<1>3. QED  BY <1>1, <1>2 DEF OnRecord, Stated

LEMMA StillRecorded ==
  ASSUME Recorded, UNCHANGED <<record, orgName>>,
         \A m \in Maps : map'[m] # None => OnRecord(m, map'[m].spec, map'[m].status.resolved),
         \A m \in Maps : seenMap'[m] # None
           => OnRecord(m, seenMap'[m].spec, seenMap'[m].status.resolved),
         pc'["mapController"] \in {"lookup", "write"} => OnRecord(cr'.name, cr'.spec, cr'.resolved),
         \A t \in Tenants : asked'[t] # None => Stated(asked'[t])
  PROVE  Recorded'
<1>1. \A m \in Maps : \A spec \in versions'[m] : OrgsMeant(spec, orgName') \subseteq meant'[m]
  BY DEF Recorded, record
<1>2. QED  BY <1>1, RecordKept DEF Recorded

\* After a change of the maps, what is applied is on record, and what each version means.
LEMMA RecordGrows ==
  ASSUME TypeOK, NEW ms, NEW os, Record(ms, os)
  PROVE  /\ Grows
         /\ \A m \in Maps : ms[m] # None /\ ms[m].spec \in Specs => ms[m].spec \in versions'[m]
         /\ \A m \in Maps : \A spec \in versions'[m] : OrgsMeant(spec, os) \subseteq meant'[m]
BY DEF TypeOK, Record, Grows

\* Administrators apply specs of Specs, and write no status.
LEMMA AdministrationApplies ==
  ASSUME TypeInv, Applied, Administration
  PROVE  \A k \in Maps : map'[k] # None =>
           /\ map'[k].spec \in Specs
           /\ \/ map'[k].status = NoStatus
              \/ map[k] # None /\ map'[k].status = map[k].status
<1> DEFINE Apply == \A k \in Maps : map'[k] # None =>
             /\ map'[k].spec \in Specs
             /\ \/ map'[k].status = NoStatus
                \/ map[k] # None /\ map'[k].status = map[k].status
<1>1. map \in [Maps -> ScopeMap \cup {None}] /\ \A m \in Maps : map[m] # None => map[m].spec \in Specs
  BY DEF TypeInv, TypeOK, Applied
<1>2. ASSUME UNCHANGED map PROVE Apply
  BY <1>1, <1>2
<1>3. ASSUME NEW m \in Maps, NEW spec \in Specs, map' = [map EXCEPT ![m] = NewMap(spec)]
      PROVE  Apply
  BY <1>1, <1>3 DEF NewMap
<1>4. ASSUME NEW m \in Maps, NEW spec \in Specs, map[m] # None,
             map' = [map EXCEPT ![m].spec = spec, ![m].gen = @ + 1]
      PROVE  Apply
  BY <1>1, <1>4 DEF ScopeMap
<1>5. ASSUME NEW m \in Maps, map[m] # None,
             map' = [map EXCEPT ![m].deleting = TRUE, ![m].gen = @ + 1]
      PROVE  Apply
  BY <1>1, <1>5 DEF ScopeMap
<1>6. ASSUME NEW m \in Maps, map' = [map EXCEPT ![m] = None]
      PROVE  Apply
  BY <1>1, <1>6
<1>7. ASSUME NEW m \in Maps, NEW spec \in Specs, CreateMap(m, spec) \/ UpdateMap(m, spec)
      PROVE  Apply
  BY <1>3, <1>4, <1>7 DEF CreateMap, UpdateMap
<1>8. ASSUME NEW m \in Maps, DeleteMap(m) \/ FinalizeMap(m)
      PROVE  Apply
  BY <1>5, <1>6, <1>8 DEF DeleteMap, FinalizeMap
<1>9. ASSUME NEW n, NEW l, Relabel(n, l) \/ RenameOrg(n, l)
      PROVE  Apply
  BY <1>2, <1>9 DEF Relabel, RenameOrg, kubernetes
<1>10. QED  BY <1>7, <1>8, <1>9 DEF Administration

\* Administrators only add to the record.
LEMMA AdministrationRecorded ==
  ASSUME TypeInv, Applied, Recorded, Administration
  PROVE  /\ Applied' /\ Recorded' /\ Grows /\ UNCHANGED delegates
<1>1. Record(map', orgName') /\ UNCHANGED <<delegates, seenMap, asked, pc, cr>>
  BY DEF Administration, CreateMap, UpdateMap, DeleteMap, FinalizeMap, Relabel, RenameOrg,
         zitadel, caches, kubernetes
<1>2. /\ Grows
      /\ \A m \in Maps : map'[m] # None /\ map'[m].spec \in Specs => map'[m].spec \in versions'[m]
      /\ \A m \in Maps : \A spec \in versions'[m] : OrgsMeant(spec, orgName') \subseteq meant'[m]
  BY <1>1, RecordGrows DEF TypeInv
<1>3. \A k \in Maps : map'[k] # None =>
        /\ map'[k].spec \in Specs
        /\ map'[k].status = NoStatus \/ (map[k] # None /\ map'[k].status = map[k].status)
  BY AdministrationApplies
<1>4. (\A m \in Maps : map[m] # None => OnRecord(m, map[m].spec, map[m].status.resolved))'
  <2>1. \A m \in Maps : map'[m] # None => map'[m].spec \in versions'[m]
    BY <1>2, <1>3
  <2>2. \A m \in Maps : map'[m] # None => map'[m].status.resolved \in meant[m] \cup {None}
    BY <1>3 DEF Recorded, OnRecord, NoStatus
  <2>3. QED  BY <1>2, <2>1, <2>2 DEF OnRecord, Grows
<1>5. \A m \in Maps : seenMap[m] # None =>
        OnRecord(m, seenMap[m].spec, seenMap[m].status.resolved)'
  BY <1>1, <1>2, StaysOnRecord DEF Recorded
<1>6. pc["mapController"] \in {"lookup", "write"} => OnRecord(cr.name, cr.spec, cr.resolved)'
  <2>1. pc["mapController"] \in {"lookup", "write"} => cr.name \in Maps
    BY DEF TypeInv, ControlOK, Copy
  <2>2. QED  BY <1>1, <1>2, <2>1 DEF Recorded, OnRecord, Grows
<1>7. \A t \in Tenants : asked[t] # None => Stated(asked[t])'
  BY <1>1, <1>2, StaysOnRecord DEF Recorded
<1>8. Recorded'
  BY <1>1, <1>2, <1>4, <1>5, <1>6, <1>7 DEF Recorded
<1>9. Applied'
  BY <1>1, <1>3 DEF Applied
<1>10. QED  BY <1>1, <1>2, <1>8, <1>9

\* The caches copy what there is.
LEMMA InformersCopy ==
  ASSUME TypeInv, Informers
  PROVE  /\ UNCHANGED <<budget, kubernetes, zitadel, pc, cr, sweep, asked, history>>
         /\ \A m \in Maps : seenMap'[m] \in {map[m], seenMap[m]}
         /\ \A n \in Namespaces : seenLabels'[n] \in {labels[n], seenLabels[n]}
BY DEF TypeInv, TypeOK, Informers, FillCaches, Sync, ObserveMap, ObserveNamespace, kubernetes,
       zitadel, history, record

LEMMA InformersRecorded ==
  ASSUME TypeInv, Applied, Recorded, Informers
  PROVE  Applied' /\ Recorded' /\ UNCHANGED <<record, delegates>>
<1>1. /\ UNCHANGED <<record, map, orgName, delegates, pc, cr, asked>>
      /\ \A m \in Maps : seenMap'[m] \in {map[m], seenMap[m]}
  BY InformersCopy DEF kubernetes, zitadel, history
<1>2. Applied'
  BY <1>1 DEF Applied
<1>3. Recorded'
  BY <1>1, StillRecorded DEF Recorded
<1>4. QED  BY <1>1, <1>2, <1>3

\* The map controller writes the status only.
LEMMA ReconcileStatusOnly ==
  ASSUME TypeInv, ReconcileStep
  PROVE  /\ UNCHANGED <<labels, zitadel, caches, sweep, asked, history>>
         /\ \A m \in Maps : map'[m] = None <=> map[m] = None
         /\ \A m \in Maps : map[m] # None => /\ map'[m].spec = map[m].spec
                                              /\ map'[m].gen = map[m].gen
                                              /\ map'[m].deleting = map[m].deleting
<1>1. UNCHANGED <<labels, zitadel, caches, sweep, asked, history>>
  BY DEF ReconcileStep, Reconcile, LookupOrganization, WriteStatus, kubernetes
<1>2. map \in [Maps -> ScopeMap \cup {None}]
  BY DEF TypeInv, TypeOK
<1>3. CASE UNCHANGED map
  BY <1>1, <1>3
<1>4. CASE /\ pc["mapController"] = "write" /\ map[cr.name] # None
           /\ map' = [map EXCEPT ![cr.name].status = Verdict]
  <2>1. cr.name \in Maps /\ Verdict \in ScopeMapStatus
    BY <1>4 DEF TypeInv, ControlOK, Copy, Verdict, ScopeMapStatus
  <2>2. \A m \in Maps : m # cr.name => map'[m] = map[m]
    BY <1>2, <1>4
  <2>3. map'[cr.name] = [map[cr.name] EXCEPT !.status = Verdict]
    BY <1>2, <1>4, <2>1
  <2>4. map[cr.name] \in ScopeMap
    BY <1>2, <1>4, <2>1
  <2>5. /\ map'[cr.name] \in ScopeMap
        /\ map'[cr.name].spec = map[cr.name].spec
        /\ map'[cr.name].gen = map[cr.name].gen
        /\ map'[cr.name].deleting = map[cr.name].deleting
    BY <2>1, <2>3, <2>4 DEF ScopeMap
  <2>6. QED  BY <1>1, <1>4, <2>2, <2>5
<1>5. QED
  BY <1>3, <1>4 DEF ReconcileStep, Reconcile, LookupOrganization, WriteStatus, kubernetes

\* What it writes there is on record: the spec's own id, or what a lookup found for a spec
\* that some version of the map had.
LEMMA ReconcileRecorded ==
  ASSUME TypeInv, Applied, Recorded, ReconcileStep
  PROVE  Applied' /\ Recorded' /\ UNCHANGED <<record, delegates>>
<1>1. /\ UNCHANGED <<orgName, delegates, seenMap, asked, versions, meant>>
      /\ \A m \in Maps : map'[m] = None <=> map[m] = None
      /\ \A m \in Maps : map[m] # None => map'[m].spec = map[m].spec
  BY ReconcileStatusOnly DEF zitadel, caches, history, record
<1> DEFINE Copied == pc["mapController"] \in {"lookup", "write"} => OnRecord(cr.name, cr.spec, cr.resolved)
           Written == \A m \in Maps : map[m] # None => OnRecord(m, map[m].spec, map[m].status.resolved)
<1>2. pc \in [Sweepers -> {"idle", "lookup", "write", "list", "resolve", "revoke"}]
      /\ "mapController" \in Sweepers
  BY DEF TypeInv, TypeOK, Sweepers
<1>3. Copied' /\ Written'
  <2>1. ASSUME NEW m \in Maps, Reconcile(m) PROVE Copied' /\ Written'
    <3>1. Written'
      BY <1>1, <2>1 DEF Reconcile, Recorded, OnRecord, kubernetes
    <3>2. CASE seenMap[m] = None \/ seenMap[m].deleting
      BY <1>2, <2>1, <3>1, <3>2 DEF Reconcile
    <3>3. CASE seenMap[m] # None /\ ~seenMap[m].deleting
      <4>1. cr'.name = m /\ cr'.spec = seenMap[m].spec /\ cr'.resolved = seenMap[m].spec.organizationId
        BY <2>1, <3>3 DEF Reconcile
      <4>2. seenMap[m].spec \in versions[m]
            /\ OrgsMeant(seenMap[m].spec, orgName) \subseteq meant[m]
        BY <3>3 DEF Recorded, OnRecord
      <4>3. seenMap[m].spec.organizationId \in meant[m] \cup {None}
        BY <4>2 DEF OrgsMeant
      <4>4. QED  BY <1>1, <3>1, <4>1, <4>2, <4>3 DEF OnRecord
    <3>4. QED  BY <3>2, <3>3
  <2>2. CASE LookupOrganization
    <3>1. cr \in Copy /\ OnRecord(cr.name, cr.spec, cr.resolved)
      BY <2>2 DEF LookupOrganization, TypeInv, ControlOK, Recorded
    <3>2. OrgsMeant(cr.spec, orgName) \subseteq meant[cr.name]
      BY <3>1 DEF Recorded, OnRecord, Copy
    <3>3. cr'.name = cr.name /\ cr'.spec = cr.spec
          /\ cr'.resolved \in {cr.resolved} \cup OrgsMeant(cr.spec, orgName)
      BY <2>2, <3>1 DEF LookupOrganization, Copy
    <3>4. Copied'
      BY <1>1, <3>1, <3>2, <3>3 DEF OnRecord
    <3>5. Written'
      BY <1>1, <2>2 DEF LookupOrganization, Recorded, OnRecord, kubernetes
    <3>6. QED  BY <3>4, <3>5
  <2>3. CASE WriteStatus
    <3>1. cr \in Copy /\ OnRecord(cr.name, cr.spec, cr.resolved)
      BY <2>3 DEF WriteStatus, TypeInv, ControlOK, Recorded
    <3>2. Copied'
      BY <1>2, <2>3 DEF WriteStatus
    <3>3. CASE UNCHANGED map
      BY <1>1, <3>2, <3>3 DEF Recorded, OnRecord
    <3>4. CASE map[cr.name] # None /\ map' = [map EXCEPT ![cr.name].status = Verdict]
      <4>1. map \in [Maps -> ScopeMap \cup {None}] /\ cr.name \in Maps
        BY <3>1 DEF TypeInv, TypeOK, Copy
      <4>2. map'[cr.name].status = Verdict
        BY <3>4, <4>1 DEF ScopeMap
      <4>3. \A m \in Maps : m # cr.name => map'[m] = map[m]
        BY <3>4, <4>1
      <4>4. OnRecord(cr.name, map[cr.name].spec, cr.resolved)
        BY <3>1, <3>4, <4>1 DEF Recorded, OnRecord
      <4>5. Written'
        BY <1>1, <4>2, <4>3, <4>4 DEF Recorded, OnRecord, Verdict
      <4>6. QED  BY <3>2, <4>5
    <3>5. QED  BY <2>3, <3>3, <3>4 DEF WriteStatus
  <2>4. QED  BY <2>1, <2>2, <2>3 DEF ReconcileStep
<1>4. UNCHANGED <<record, orgName, seenMap, asked>>
  BY <1>1 DEF record
<1>5. Recorded'
  BY <1>1, <1>3, <1>4, RecordKept, StillRecorded DEF Recorded
<1>6. Applied'
  BY <1>1 DEF Applied
<1>7. QED  BY <1>1, <1>4, <1>5, <1>6

\* A sweep revokes and never grants.
LEMMA SweepRecorded ==
  ASSUME NEW p \in Sweepers, SweepStep(p), TypeInv, Applied, Recorded
  PROVE  Applied' /\ Recorded' /\ UNCHANGED record /\ delegates' \subseteq delegates
<1>1. /\ UNCHANGED <<map, orgName, seenMap, asked, cr, versions, meant>>
      /\ delegates' \subseteq delegates
  BY DEF SweepStep, SweepOnce, SweepResolve, SweepDelegates, SweepRevoke, SweepEnd, kubernetes,
         zitadel, caches, history, record
<1>2. pc'["mapController"] \in {"lookup", "write"} => pc["mapController"] = pc'["mapController"]
  <2>1. pc \in [Sweepers -> {"idle", "lookup", "write", "list", "resolve", "revoke"}]
    BY DEF TypeInv, TypeOK
  <2>2. pc' = pc \/ \E x \in {"idle", "resolve", "revoke"} : pc' = [pc EXCEPT ![p] = x]
    BY DEF SweepStep, SweepOnce, SweepResolve, SweepDelegates, SweepRevoke, SweepEnd
  <2>3. QED  BY <2>1, <2>2 DEF Sweepers
<1>3. UNCHANGED <<record, orgName>>
  BY <1>1 DEF record
<1>4. Recorded'
  BY <1>1, <1>2, <1>3, StillRecorded DEF Recorded
<1>5. Applied'
  BY <1>1 DEF Applied
<1>6. QED  BY <1>1, <1>3, <1>4, <1>5

\* A tenant asks for what the resolver gave it, and Ensure mints what was asked for.
LEMMA TenantRecorded ==
  ASSUME TypeInv, Applied, Recorded, NEW t \in Tenants,
         TenantEnsure(t) \/ \E n \in Namespaces : TenantResolve(t, n)
  PROVE  Applied' /\ Recorded' /\ UNCHANGED record
         /\ \A s \in delegates' \ delegates : Stated(s)
<1>1. UNCHANGED <<map, orgName, seenMap, pc, cr, versions, meant>>
  BY DEF TenantEnsure, TenantResolve, kubernetes, zitadel, caches, history, record
<1>2. asked \in [Tenants -> Scope \cup {None}]
  BY DEF TypeInv, TypeOK
<1>3. /\ \A u \in Tenants : asked'[u] # None => Stated(asked'[u])
      /\ \A s \in delegates' \ delegates : Stated(s)
  <2>1. CASE TenantEnsure(t)
    <3>1. Stated(asked[t])
      BY <2>1 DEF TenantEnsure, Recorded
    <3>2. asked' = [asked EXCEPT ![t] = None] /\ delegates' \subseteq delegates \cup {asked[t]}
      BY <2>1 DEF TenantEnsure
    <3>3. \A u \in Tenants : asked'[u] # None => asked'[u] = asked[u]
      BY <1>2, <3>2
    <3>4. QED  BY <3>1, <3>2, <3>3 DEF Recorded
  <2>2. ASSUME NEW n \in Namespaces, TenantResolve(t, n)
        PROVE  /\ \A u \in Tenants : asked'[u] # None => Stated(asked'[u])
               /\ delegates' = delegates
    <3> DEFINE r == Resolve(seenMap, seenLabels, n)
    <3>1. r.kind = "scope" /\ asked' = [asked EXCEPT ![t] = r.scope] /\ delegates' = delegates
      BY <2>2 DEF TenantResolve, zitadel
    <3>2. Stated(r.scope)
      BY <3>1, ScopeStated DEF Recorded
    <3>3. \A u \in Tenants : asked'[u] = IF u = t THEN r.scope ELSE asked[u]
      BY <1>2, <3>1
    <3> HIDE DEF r
    <3>4. QED  BY <3>1, <3>2, <3>3 DEF Recorded
  <2>3. QED  BY <2>1, <2>2
<1>4. UNCHANGED <<record, orgName>>
  BY <1>1 DEF record
<1>5. Recorded'
  BY <1>1, <1>3, <1>4, StillRecorded DEF Recorded
<1>6. Applied'
  BY <1>1 DEF Applied
<1>7. QED  BY <1>3, <1>4, <1>5, <1>6

LEMMA RecordedStep ==
  ASSUME ScopesInv, [Next]_vars
  PROVE  Applied' /\ Recorded' /\ GrantedAsStated'
<1> USE DEF ScopesInv, GrantedAsStated
<1> DEFINE Goal == Applied' /\ Recorded' /\ GrantedAsStated'
<1>0. ASSUME Applied', Recorded', UNCHANGED record, \A s \in delegates' \ delegates : Stated(s)
      PROVE  Goal
  BY <1>0, RecordKept
<1>1. CASE UNCHANGED vars
  <2>1. UNCHANGED <<record, map, orgName, delegates, seenMap, pc, cr, asked>>
    BY <1>1 DEF vars, kubernetes, zitadel, caches, history
  <2>2. Applied'
    BY <2>1 DEF Applied
  <2>3. Recorded'
    BY <2>1, StillRecorded DEF Recorded
  <2>4. QED  BY <1>0, <2>1, <2>2, <2>3
<1>2. CASE Administration
  <2>1. Applied' /\ Recorded' /\ Grows /\ UNCHANGED delegates
    BY <1>2, AdministrationRecorded
  <2>2. \A s : Stated(s) => Stated(s)'
    BY <2>1, StaysOnRecord
  <2>3. QED  BY <2>1, <2>2
<1>3. CASE Informers
  BY <1>0, <1>3, InformersRecorded
<1>4. CASE Crash
  <2>1. /\ UNCHANGED <<map, orgName, delegates, record>>
        /\ seenMap' = Unseen /\ asked' = [t \in Tenants |-> None] /\ pc'["mapController"] = "idle"
    BY <1>4 DEF Crash, kubernetes, zitadel, Sweepers
  <2>2. Applied'
    BY <2>1 DEF Unseen, Applied
  <2>3. Recorded'
    BY <2>1, StillRecorded DEF Unseen, Recorded
  <2>4. QED  BY <1>0, <2>1, <2>2, <2>3
<1>5. CASE ReconcileStep
  BY <1>0, <1>5, ReconcileRecorded
<1>6. ASSUME NEW p \in Sweepers, SweepStep(p) PROVE Goal
  BY <1>0, <1>6, SweepRecorded
<1>7. ASSUME NEW t \in Tenants, TenantEnsure(t) \/ \E n \in Namespaces : TenantResolve(t, n)
      PROVE  Goal
  BY <1>0, <1>7, TenantRecorded
<1>8. QED  BY <1>1, <1>2, <1>3, <1>4, <1>5, <1>6, <1>7 DEF Next

\* Whatever is edited, renamed or looked up in between, and however old the caches are, a
\* delegate stands only for a project that a version of a map gives, in that version's own
\* organization if it is pinned, and else in one that a version of the same map has meant.
THEOREM Grants == Spec => []GrantedAsStated
<1>1. Init => ScopesInv
  <2>1. Init => TypeInv
    BY InitType
  <2>2. Init => Applied /\ Recorded /\ GrantedAsStated
    BY DEF Init, Unseen, Applied, Recorded, GrantedAsStated, Sweepers
  <2>3. QED  BY <2>1, <2>2 DEF ScopesInv
<1>2. ScopesInv /\ [Next]_vars => ScopesInv'
  BY TypeStep, RecordedStep DEF ScopesInv
<1>3. ScopesInv => GrantedAsStated
  BY DEF ScopesInv
<1>4. QED  BY <1>1, <1>2, <1>3, PTL DEF Spec

----------------------------------------------------------------------------
(* Statuses, while no map has been deleted: a name that is created again *)
(* starts from generation 1, and a copy may be of the map that had it before *)

NothingDeleted == budget["delete"] = Budget["delete"]
\* Copies are of earlier versions, or of this one.
SameVersion(c, o) == c.gen <= o.gen /\ (c.gen = o.gen => c.spec = o.spec)
VersionsInv ==
  /\ \A m \in Maps : map[m] # None => ~map[m].deleting /\ map[m].status.observed <= map[m].gen
  /\ \A m \in Maps : seenMap[m] # None => map[m] # None /\ SameVersion(seenMap[m], map[m])
  /\ pc["mapController"] \in {"lookup", "write"}
       => map[cr.name] # None /\ SameVersion(cr, map[cr.name])
\* The verdict is the copy's.
VerdictInv ==
  /\ pc["mapController"] = "lookup"
       => ValidateMap(cr.spec) /\ cr.resolved = cr.spec.organizationId
  /\ pc["mapController"] = "write" /\ cr.ready =>
       /\ ValidateMap(cr.spec) /\ cr.resolved # None /\ Contained(cr.resolved)
       /\ cr.spec.organizationId # None => cr.resolved = cr.spec.organizationId
ObservedInv == VersionsInv /\ VerdictInv /\ ObservedReadyIsValid

\* A budget is only spent.
LEMMA BudgetSpent == [Next]_vars => UNCHANGED budget \/ \E kind \in Adversities : Spend(kind)
BY DEF Next, vars, Administration, Informers, ReconcileStep, SweepStep, Adversities, CreateMap,
       UpdateMap, DeleteMap, FinalizeMap, Relabel, RenameOrg, ObserveMap, ObserveNamespace,
       FillCaches, Sync, Crash, Reconcile, LookupOrganization, WriteStatus, SweepOnce,
       SweepResolve, SweepDelegates, SweepRevoke, SweepEnd, TenantResolve, TenantEnsure

\* Deleting spends.
LEMMA DeletionSpends ==
  ASSUME TypeInv, [Next]_vars, budget["delete"] <= Budget["delete"], NothingDeleted'
  PROVE  NothingDeleted /\ ~(\E m \in Maps : DeleteMap(m))
<1>1. /\ budget \in [Adversities -> Nat] /\ Budget \in [Adversities -> Nat]
      /\ "delete" \in Adversities
  BY DEF TypeInv, TypeOK, Adversities
<1>2. ASSUME NEW kind \in Adversities, Spend(kind)
      PROVE  /\ budget'["delete"] <= budget["delete"]
             /\ kind = "delete" => budget'["delete"] < budget["delete"]
  BY <1>1, <1>2 DEF Spend
<1>3. UNCHANGED budget \/ \E kind \in Adversities : Spend(kind)
  BY BudgetSpent
<1>4. budget'["delete"] <= budget["delete"]
  BY <1>1, <1>2, <1>3
<1>5. NothingDeleted
  BY <1>1, <1>4 DEF NothingDeleted
<1>6. ASSUME NEW m \in Maps, DeleteMap(m) PROVE FALSE
  BY <1>1, <1>2, <1>6 DEF DeleteMap, NothingDeleted
<1>7. QED  BY <1>5, <1>6

LEMMA AdministrationObserved ==
  ASSUME TypeInv, ObservedInv, Administration, ~(\E m \in Maps : DeleteMap(m))
  PROVE  ObservedInv'
<1>1. UNCHANGED <<pc, cr, seenMap>>
  BY DEF Administration, CreateMap, UpdateMap, DeleteMap, FinalizeMap, Relabel, RenameOrg, caches
<1>2. map \in [Maps -> ScopeMap \cup {None}] /\ seenMap \in [Maps -> ScopeMap \cup {None}]
      /\ (pc["mapController"] \in {"lookup", "write"} => cr \in Copy)
  BY DEF TypeInv, TypeOK, ControlOK
<1>3. VerdictInv'
  BY <1>1 DEF ObservedInv, VerdictInv
<1> DEFINE Kept(m) == map'[m] = map[m]
           Made(m) == /\ map[m] = None /\ map'[m] \in ScopeMap
                      /\ ~map'[m].deleting /\ map'[m].gen = 1 /\ map'[m].status.observed = 0
           Edited(m) == /\ map[m] # None /\ map'[m] \in ScopeMap
                        /\ map'[m].deleting = map[m].deleting
                        /\ map'[m].gen = map[m].gen + 1 /\ map'[m].status = map[m].status
<1>4. \A m \in Maps : Kept(m) \/ Made(m) \/ Edited(m)
  <2>1. ASSUME NEW k \in Maps, NEW spec \in Specs, CreateMap(k, spec)
        PROVE  \A m \in Maps : Kept(m) \/ Made(m)
    <3>1. NewMap(spec) \in ScopeMap /\ map' = [map EXCEPT ![k] = NewMap(spec)] /\ map[k] = None
      BY <2>1, NewMapType DEF CreateMap
    <3>2. Made(k)
      BY <1>2, <3>1 DEF NewMap, NoStatus
    <3>3. \A m \in Maps : m # k => Kept(m)
      BY <1>2, <3>1
    <3>4. QED  BY <3>2, <3>3
  <2>2. ASSUME NEW k \in Maps, NEW spec \in Specs, UpdateMap(k, spec)
        PROVE  \A m \in Maps : Kept(m) \/ Edited(m)
    <3>1. map[k] \in ScopeMap /\ map' = [map EXCEPT ![k].spec = spec, ![k].gen = @ + 1]
      BY <1>2, <2>2 DEF UpdateMap
    <3>2. map'[k] = [map[k] EXCEPT !.spec = spec, !.gen = @ + 1]
      BY <1>2, <3>1
    <3>3. Edited(k)
      <4>1. spec \in ScopeMapSpec /\ map[k].gen + 1 \in Nat
        BY <3>1 DEF ScopeMap
      <4>2. map'[k] \in ScopeMap
        BY <3>1, <3>2, <4>1 DEF ScopeMap
      <4>3. /\ map'[k].gen = map[k].gen + 1 /\ map'[k].status = map[k].status
            /\ map'[k].deleting = map[k].deleting
        BY <3>1, <3>2 DEF ScopeMap
      <4>4. QED  BY <2>2, <4>2, <4>3 DEF UpdateMap
    <3>4. \A m \in Maps : m # k => Kept(m)
      BY <1>2, <3>1
    <3>5. QED  BY <3>3, <3>4
  <2>3. ~(\E m \in Maps : FinalizeMap(m))
    BY DEF ObservedInv, VersionsInv, FinalizeMap
  <2>4. ASSUME NEW n, NEW l, Relabel(n, l) \/ RenameOrg(n, l) PROVE \A m \in Maps : Kept(m)
    BY <2>4 DEF Relabel, RenameOrg, kubernetes
  <2>5. QED  BY <2>1, <2>2, <2>3, <2>4 DEF Administration
<1>5. ASSUME NEW m \in Maps, map'[m] # None
      PROVE  ~map'[m].deleting /\ map'[m].status.observed <= map'[m].gen
  <2>1. CASE map[m] # None
    <3>1. /\ map[m].gen \in Nat /\ map[m].status.observed \in Nat
          /\ ~map[m].deleting /\ map[m].status.observed <= map[m].gen
      BY <1>2, <2>1 DEF ScopeMap, ScopeMapStatus, ObservedInv, VersionsInv
    <3>2. QED  BY <1>4, <1>5, <2>1, <3>1
  <2>2. CASE map[m] = None
    BY <1>4, <1>5, <2>2
  <2>3. QED  BY <2>1, <2>2
<1>6. ASSUME NEW m \in Maps, map[m] # None, NEW c, c.gen \in Nat, SameVersion(c, map[m])
      PROVE  map'[m] # None /\ SameVersion(c, map'[m])
  <2>1. map[m].gen \in Nat /\ None \notin ScopeMap
    BY <1>2, <1>6 DEF ScopeMap
  <2>2. CASE Kept(m)
    BY <1>6, <2>2
  <2>3. CASE Edited(m)
    BY <1>6, <2>1, <2>3 DEF SameVersion
  <2>4. QED  BY <1>4, <1>6, <2>2, <2>3
<1>7. VersionsInv'
  <2>1. ASSUME NEW m \in Maps, seenMap[m] # None PROVE map'[m] # None /\ SameVersion(seenMap[m], map'[m])
    <3>1. seenMap[m].gen \in Nat
      BY <1>2, <2>1 DEF ScopeMap
    <3>2. QED  BY <1>6, <2>1, <3>1 DEF ObservedInv, VersionsInv
  <2>2. ASSUME pc["mapController"] \in {"lookup", "write"}
        PROVE  map'[cr.name] # None /\ SameVersion(cr, map'[cr.name])
    <3>1. cr.gen \in Nat /\ cr.name \in Maps
      BY <1>2, <2>2 DEF Copy
    <3>2. QED  BY <1>6, <2>2, <3>1 DEF ObservedInv, VersionsInv
  <2>3. QED  BY <1>1, <1>5, <2>1, <2>2 DEF VersionsInv, SameVersion
<1>8. ObservedReadyIsValid'
  <2>1. SUFFICES ASSUME NEW m \in Maps, map'[m] # None, map'[m].status.observed = map'[m].gen,
                        map'[m].status.ready
                 PROVE  Vouched(map'[m])
    BY DEF ObservedReadyIsValid, Vouched, Contained, ValidateMap
  <2>2. CASE Kept(m)
    BY <2>1, <2>2 DEF ObservedInv, ObservedReadyIsValid
  <2>3. ~Made(m)
    BY <2>1
  <2>4. ~Edited(m)
    <3>1. SUFFICES ASSUME Edited(m) PROVE FALSE
      OBVIOUS
    <3>2. map[m].gen \in Nat /\ map[m].status.observed \in Nat /\ map[m].status.observed <= map[m].gen
      BY <1>2, <3>1 DEF ScopeMap, ScopeMapStatus, ObservedInv, VersionsInv
    <3>3. QED  BY <2>1, <3>1, <3>2
  <2>5. QED  BY <1>4, <2>2, <2>3, <2>4
<1>9. QED  BY <1>3, <1>7, <1>8 DEF ObservedInv

LEMMA InformersObserved == ASSUME TypeInv, ObservedInv, Informers PROVE ObservedInv'
<1>1. /\ UNCHANGED <<map, pc, cr>>
      /\ \A m \in Maps : seenMap'[m] \in {map[m], seenMap[m]}
  BY InformersCopy DEF kubernetes
<1>2. \A m \in Maps : map[m] # None => SameVersion(map[m], map[m])
  BY DEF SameVersion, TypeInv, TypeOK, ScopeMap
<1>3. VersionsInv'
  BY <1>1, <1>2 DEF ObservedInv, VersionsInv, SameVersion
<1>4. QED
  BY <1>1, <1>3 DEF ObservedInv, VerdictInv, ObservedReadyIsValid

LEMMA CrashObserved == ASSUME ObservedInv, Crash PROVE ObservedInv'
<1>1. UNCHANGED map /\ seenMap' = Unseen /\ (Sweepers = DOMAIN pc' /\ pc'["mapController"] = "idle")
  BY DEF Crash, kubernetes, Sweepers
<1>2. QED
  BY <1>1 DEF ObservedInv, VersionsInv, VerdictInv, ObservedReadyIsValid, Unseen, SameVersion

\* Reconciling reads a version of the map; the lookup finds the organization of that version,
\* and the status carries its generation.
LEMMA ReconcileObserved == ASSUME TypeInv, ObservedInv, ReconcileStep PROVE ObservedInv'
<1>0. /\ pc \in [Sweepers -> {"idle", "lookup", "write", "list", "resolve", "revoke"}]
      /\ "mapController" \in Sweepers
      /\ map \in [Maps -> ScopeMap \cup {None}] /\ seenMap \in [Maps -> ScopeMap \cup {None}]
  BY DEF TypeInv, TypeOK, Sweepers
<1>1. ASSUME NEW m \in Maps, Reconcile(m) PROVE ObservedInv'
  <2> DEFINE o == seenMap[m]
  <2>1. UNCHANGED <<map, seenMap>>
    BY <1>1 DEF Reconcile, kubernetes, caches
  <2>2. CASE o = None \/ o.deleting
    <3>1. pc'["mapController"] \notin {"lookup", "write"}
      BY <1>0, <1>1, <2>2 DEF Reconcile
    <3>2. QED
      BY <2>1, <3>1 DEF ObservedInv, VersionsInv, VerdictInv, ObservedReadyIsValid, SameVersion
  <2>3. CASE o # None /\ ~o.deleting
    <3>1. /\ cr' = [name |-> m, gen |-> o.gen, spec |-> o.spec,
                    ready |-> ValidateMap(o.spec), resolved |-> o.spec.organizationId]
          /\ pc'["mapController"] = IF ValidateMap(o.spec) THEN "lookup" ELSE "write"
      BY <1>0, <1>1, <2>3 DEF Reconcile
    <3>2. map[m] # None /\ SameVersion(o, map[m])
      BY <2>3 DEF ObservedInv, VersionsInv
    <3>3. VersionsInv'
      BY <2>1, <3>1, <3>2 DEF ObservedInv, VersionsInv, SameVersion
    <3>4. VerdictInv'
      BY <3>1 DEF VerdictInv, ValidateMap
    <3>5. QED  BY <2>1, <3>3, <3>4 DEF ObservedInv, ObservedReadyIsValid
  <2>4. QED  BY <2>2, <2>3
<1>2. CASE LookupOrganization
  <2>1. UNCHANGED <<map, seenMap>> /\ pc["mapController"] = "lookup" /\ pc'["mapController"] = "write"
    BY <1>0, <1>2 DEF LookupOrganization, kubernetes, caches
  <2>2. cr \in Copy /\ ValidateMap(cr.spec) /\ cr.resolved = cr.spec.organizationId
    BY <2>1 DEF TypeInv, ControlOK, ObservedInv, VerdictInv
  <2>3. cr'.name = cr.name /\ cr'.gen = cr.gen /\ cr'.spec = cr.spec
    BY <1>2, <2>2 DEF LookupOrganization, Copy
  <2>4. VersionsInv'
    BY <2>1, <2>3 DEF ObservedInv, VersionsInv, SameVersion
  <2>5. VerdictInv'
    <3>1. CASE cr' = [cr EXCEPT !.ready = FALSE]
      BY <2>1, <2>2, <3>1 DEF VerdictInv, Copy
    <3>2. ASSUME NEW q \in OrgsMeant(cr.spec, orgName),
                 cr' = [cr EXCEPT !.resolved = q, !.ready = Contained(q)]
          PROVE  VerdictInv'
      <4>1. cr'.resolved = q /\ cr'.ready = Contained(q)
        BY <2>2, <3>2 DEF Copy
      <4>2. q # None /\ (cr.spec.organizationId # None => q = cr.spec.organizationId)
        BY <3>2 DEF OrgsMeant
      <4>3. QED  BY <2>1, <2>2, <2>3, <4>1, <4>2 DEF VerdictInv, Contained, ValidateMap
    <3>3. QED  BY <1>2, <3>1, <3>2 DEF LookupOrganization
  <2>6. QED  BY <2>1, <2>4, <2>5 DEF ObservedInv, ObservedReadyIsValid
<1>3. CASE WriteStatus
  <2>1. UNCHANGED seenMap /\ pc["mapController"] = "write" /\ pc'["mapController"] \in {"list", "idle"}
    BY <1>0, <1>3 DEF WriteStatus, caches
  <2>2. VerdictInv'
    BY <2>1 DEF VerdictInv
  <2>3. cr \in Copy
    BY <2>1 DEF TypeInv, ControlOK
  <2>4. /\ \A m \in Maps : map'[m] = None <=> map[m] = None
        /\ \A m \in Maps : map[m] # None => /\ map'[m].spec = map[m].spec
                                            /\ map'[m].gen = map[m].gen
                                            /\ map'[m].deleting = map[m].deleting
    BY ReconcileStatusOnly
  <2>5. \/ UNCHANGED map
        \/ /\ map[cr.name] # None
           /\ \A m \in Maps : m # cr.name => map'[m] = map[m]
           /\ map'[cr.name].status = Verdict
    <3>1. ASSUME map[cr.name] # None, map' = [map EXCEPT ![cr.name].status = Verdict]
          PROVE  /\ \A m \in Maps : m # cr.name => map'[m] = map[m]
                 /\ map'[cr.name].status = Verdict
      <4>1. cr.name \in Maps /\ map[cr.name] \in ScopeMap
        BY <1>0, <2>3, <3>1 DEF Copy
      <4>2. map'[cr.name] = [map[cr.name] EXCEPT !.status = Verdict]
        BY <1>0, <3>1, <4>1
      <4>3. map'[cr.name].status = Verdict
        BY <4>1, <4>2 DEF ScopeMap
      <4>4. QED  BY <1>0, <3>1, <4>3
    <3>2. QED  BY <1>3, <3>1 DEF WriteStatus
  <2>6. cr.name \in Maps /\ SameVersion(cr, map[cr.name])
    BY <2>1, <2>3 DEF ObservedInv, VersionsInv, Copy
  <2>7. VersionsInv'
    <3>1. ASSUME NEW m \in Maps, map'[m] # None
          PROVE  ~map'[m].deleting /\ map'[m].status.observed <= map'[m].gen
      BY <2>4, <2>5, <2>6, <3>1 DEF ObservedInv, VersionsInv, SameVersion, Verdict
    <3>2. ASSUME NEW m \in Maps, seenMap[m] # None
          PROVE  map'[m] # None /\ SameVersion(seenMap[m], map'[m])
      BY <2>4, <3>2 DEF ObservedInv, VersionsInv, SameVersion
    <3>3. QED  BY <2>1, <3>1, <3>2 DEF VersionsInv, SameVersion
  <2>8. ObservedReadyIsValid'
    <3>1. SUFFICES ASSUME NEW m \in Maps, map'[m] # None, map'[m].status.observed = map'[m].gen,
                          map'[m].status.ready
                   PROVE  Vouched(map'[m])
      BY DEF ObservedReadyIsValid, Vouched, Contained, ValidateMap
    <3>2. CASE map'[m] = map[m]
      BY <3>1, <3>2 DEF ObservedInv, ObservedReadyIsValid
    <3>3. CASE m = cr.name /\ map'[m].status = Verdict
      <4>1. cr.ready /\ cr.gen = map[m].gen
        BY <2>4, <3>1, <3>3 DEF Verdict
      <4>2. map'[m].spec = cr.spec
        BY <2>4, <2>6, <3>1, <3>3, <4>1 DEF SameVersion
      <4>3. map'[m].status.resolved = cr.resolved
        BY <3>3 DEF Verdict
      <4>4. QED  BY <2>1, <4>1, <4>2, <4>3 DEF ObservedInv, VerdictInv, Vouched
    <3>4. QED  BY <2>5, <3>2, <3>3
  <2>9. QED  BY <2>2, <2>7, <2>8 DEF ObservedInv
<1>4. QED  BY <1>1, <1>2, <1>3 DEF ReconcileStep

LEMMA ObservedStep ==
  ASSUME TypeInv, ObservedInv, [Next]_vars, ~(\E m \in Maps : DeleteMap(m))
  PROVE  ObservedInv'
<1>1. CASE Administration
  BY <1>1, AdministrationObserved
<1>2. CASE Informers \/ Crash \/ ReconcileStep
  BY <1>2, InformersObserved, CrashObserved, ReconcileObserved
<1>3. ASSUME NEW p \in Sweepers, SweepStep(p) PROVE ObservedInv'
  <2>1. UNCHANGED <<map, seenMap, cr>>
    BY <1>3 DEF SweepStep, SweepOnce, SweepResolve, SweepDelegates, SweepRevoke, SweepEnd,
                kubernetes, caches
  <2>2. pc'["mapController"] \in {"lookup", "write"} => pc'["mapController"] = pc["mapController"]
    BY <1>3 DEF SweepStep, SweepOnce, SweepResolve, SweepDelegates, SweepRevoke, SweepEnd,
                TypeInv, TypeOK, Sweepers
  <2>3. QED
    BY <2>1, <2>2 DEF ObservedInv, VersionsInv, VerdictInv, ObservedReadyIsValid, SameVersion
<1>4. CASE UNCHANGED <<map, seenMap, cr, pc>>
  BY <1>4 DEF ObservedInv, VersionsInv, VerdictInv, ObservedReadyIsValid, SameVersion
<1>5. ASSUME NEW t \in Tenants, TenantEnsure(t) \/ \E n \in Namespaces : TenantResolve(t, n)
      PROVE  ObservedInv'
  BY <1>4, <1>5 DEF TenantEnsure, TenantResolve, kubernetes, caches
<1>6. QED
  BY <1>1, <1>2, <1>3, <1>4, <1>5 DEF Next, vars, kubernetes, caches

\* A status that is ready and of the present generation vouches for the present spec: an edit
\* that overtakes a reconcile leaves the map unobserved. Once maps are deleted this needs names
\* that are not used again: applyStatus applies by name, and a new map's first generation may be
\* the one a verdict on the old map carries.
THEOREM ReadyIsValid == Spec => [](NothingDeleted => ObservedReadyIsValid)
<1> DEFINE Bounded == budget["delete"] <= Budget["delete"]
           I == TypeInv /\ Bounded /\ (NothingDeleted => ObservedInv)
<1>1. Init => I
  <2>1. SUFFICES ASSUME Init PROVE I
    OBVIOUS
  <2>2. TypeInv /\ Bounded
    BY <2>1, InitType DEF Init, Adversities
  <2>3. pc["mapController"] = "idle"
    BY <2>1 DEF Init, Sweepers
  <2>4. ObservedInv
    BY <2>1, <2>3 DEF Init, Unseen, ObservedInv, VersionsInv, VerdictInv, ObservedReadyIsValid
  <2>5. QED  BY <2>2, <2>4
<1>2. I /\ [Next]_vars => I'
  <2>1. SUFFICES ASSUME I, [Next]_vars PROVE I'
    OBVIOUS
  <2>2. TypeInv'
    BY <2>1, TypeStep
  <2>3. Bounded'
    <3>1. /\ budget \in [Adversities -> Nat] /\ Budget \in [Adversities -> Nat]
          /\ "delete" \in Adversities
      BY <2>1 DEF TypeInv, TypeOK, Adversities
    <3>2. UNCHANGED budget \/ \E kind \in Adversities : Spend(kind)
      BY <2>1, BudgetSpent
    <3>3. QED  BY <2>1, <3>1, <3>2 DEF Spend
  <2>4. NothingDeleted' => ObservedInv'
    BY <2>1, DeletionSpends, ObservedStep
  <2>5. QED  BY <2>2, <2>3, <2>4
<1>3. I => (NothingDeleted => ObservedReadyIsValid)
  BY DEF ObservedInv
<1>4. QED  BY <1>1, <1>2, <1>3, PTL DEF Spec

----------------------------------------------------------------------------
(* Undisturbed sweeps, when every selector parses *)

AllParse == \A spec \in Specs : \A i \in DOMAIN spec.rules : spec.rules[i].selector # Malformed

\* The scope the maps mean for one namespace.
PinnedIn(n) ==
  {s \in Scope :
     \E m \in Maps :
       /\ labels[n] # None /\ Claims(n) = {m}
       /\ map[m].spec.instance = Instance
       /\ s.org = map[m].spec.organizationId
       /\ \E i \in FirstMatch(map[m].spec, n) : s.project = map[m].spec.rules[i].project}
\* A sweep that has not been disturbed looks at the present maps and labels, has the scopes of
\* the namespaces it has passed in its live set, and has none of them to revoke.
Undisturbed(p) ==
  /\ Current /\ pc[p] \in {"resolve", "revoke"}
  /\ pc[p] = "resolve" => \A n \in Namespaces : n \in left[p] \/ PinnedIn(n) \subseteq live[p]
  /\ pc[p] = "revoke" => doomed[p] \cap PinnedScopes = {}
QuietInv == \A p \in Sweepers : quiet[p] => Undisturbed(p)
SweepInv == TypeInv /\ Applied /\ QuietInv

LEMMA PinnedByNamespace == PinnedScopes = UNION {PinnedIn(n) : n \in Namespaces}
BY DEF PinnedScopes, PinnedIn

\* A namespace that has no label set any more has no scope.
LEMMA PinnedIsLabeled == ASSUME NEW n \in Namespaces, PinnedIn(n) # {} PROVE labels[n] # None
BY DEF PinnedIn

\* When selectors parse, a map's evaluation ends at its first matching rule.
LEMMA DecidesAtFirst ==
  ASSUME NEW spec, NEW n, \A i \in DOMAIN spec.rules : spec.rules[i].selector # Malformed,
         spec.rules \in Seq(Rule)
  PROVE  Deciding(spec, n, labels[n]) = FirstMatch(spec, n)
<1>1. \A i \in DOMAIN spec.rules : ~RuleFails(spec.rules[i])
  BY DEF RuleFails
<1>2. \A i \in DOMAIN spec.rules : \A j \in 1..(i - 1) : j \in DOMAIN spec.rules
  OBVIOUS
<1>3. QED  BY <1>1, <1>2 DEF Deciding, FirstMatch

\* A map has at most one first match.
LEMMA FirstMatchUnique ==
  ASSUME NEW spec, NEW n, spec.rules \in Seq(Rule),
         NEW i \in FirstMatch(spec, n), NEW j \in FirstMatch(spec, n)
  PROVE  i = j
<1>1. i \in Nat /\ j \in Nat /\ i >= 1 /\ j >= 1
  BY DEF FirstMatch
<1>2. ~(i < j) /\ ~(j < i)
  BY <1>1 DEF FirstMatch
<1>3. QED  BY <1>1, <1>2

\* On present caches the resolver answers with the scope the maps mean.
LEMMA ResolvesPinned ==
  ASSUME AllParse, TypeInv, Applied, Current, NEW n \in Namespaces, NEW s \in PinnedIn(n),
         NEW r, r = Resolve(seenMap, seenLabels, n)
  PROVE  r.kind = "scope" /\ r.scope = s
<1>1. PICK m \in Maps :
        /\ labels[n] # None /\ Claims(n) = {m}
        /\ map[m].spec.instance = Instance
        /\ s.org = map[m].spec.organizationId
        /\ \E i \in FirstMatch(map[m].spec, n) : s.project = map[m].spec.rules[i].project
  BY DEF PinnedIn
<1>2. PICK i \in FirstMatch(map[m].spec, n) : s.project = map[m].spec.rules[i].project
  BY <1>1
<1>3. map \in [Maps -> ScopeMap \cup {None}] /\ seenMap \in [Maps -> ScopeMap \cup {None}]
  BY DEF TypeInv, TypeOK
<1>4. /\ seenLabels = labels
      /\ \A k \in Maps : \/ seenMap[k] = None /\ map[k] = None
                         \/ /\ seenMap[k] # None /\ map[k] # None
                            /\ seenMap[k].spec = map[k].spec
  BY DEF Current
<1>5. ASSUME NEW k \in Maps, map[k] # None
      PROVE  /\ map[k].spec.rules \in Seq(Rule)
             /\ \A j \in DOMAIN map[k].spec.rules : map[k].spec.rules[j].selector # Malformed
             /\ Deciding(map[k].spec, n, labels[n]) = FirstMatch(map[k].spec, n)
  <2>1. map[k].spec.rules \in Seq(Rule)
    BY <1>3, <1>5 DEF ScopeMap, ScopeMapSpec
  <2>2. \A j \in DOMAIN map[k].spec.rules : map[k].spec.rules[j].selector # Malformed
    BY <1>5 DEF Applied, AllParse
  <2>3. QED  BY <2>1, <2>2, DecidesAtFirst
<1>6. Deciders(seenMap, seenLabels, n) = {m}
  BY <1>1, <1>4, <1>5 DEF Deciders, Claims
<1>7. map[m] # None /\ seenMap[m] # None /\ seenMap[m].spec = map[m].spec
  BY <1>1, <1>4 DEF Claims
<1>8. DecidingRule(seenMap[m], n, seenLabels[n]) = map[m].spec.rules[i]
  <2>1. Deciding(seenMap[m].spec, n, seenLabels[n]) = FirstMatch(map[m].spec, n)
    BY <1>4, <1>5, <1>7
  <2>2. (CHOOSE j \in FirstMatch(map[m].spec, n) : TRUE) = i
    <3>1. (CHOOSE j \in FirstMatch(map[m].spec, n) : TRUE) \in FirstMatch(map[m].spec, n)
      BY <1>2
    <3>2. QED  BY <1>2, <1>5, <1>7, <3>1, FirstMatchUnique
  <2>3. QED  BY <1>7, <2>1, <2>2 DEF DecidingRule
<1>9. ~RuleFails(DecidingRule(seenMap[m], n, seenLabels[n]))
  BY <1>2, <1>5, <1>7, <1>8 DEF RuleFails, FirstMatch
<1>10. Resolve(seenMap, seenLabels, n) = ScopeFrom(seenMap[m], n, seenLabels[n])
  <2>1. ~(\A k \in Maps : seenMap[k] = None) /\ seenLabels[n] # None
    BY <1>1, <1>4, <1>7
  <2>2. (CHOOSE k \in Deciders(seenMap, seenLabels, n) : TRUE) = m
    BY <1>6
  <2>3. QED  BY <1>6, <1>9, <2>1, <2>2 DEF Resolve
<1>11. s \in Scope /\ s = [org |-> s.org, project |-> s.project] /\ s.org \in Orgs
  BY DEF PinnedIn, Scope
<1>12. OrgOf(seenMap[m]) = s.org /\ Usable(seenMap[m])
  BY <1>1, <1>7, <1>11 DEF OrgOf, Usable
<1>13. ScopeFrom(seenMap[m], n, seenLabels[n])
         = [kind |-> "scope", scope |-> [org |-> s.org, project |-> s.project]]
  BY <1>1, <1>2, <1>7, <1>8, <1>12 DEF ScopeFrom
<1>14. QED  BY <1>10, <1>11, <1>13

\* What the maps mean depends on their specs and on the labels.
LEMMA PinnedSame ==
  ASSUME UNCHANGED labels,
         \A m \in Maps : map'[m] = None <=> map[m] = None,
         \A m \in Maps : map[m] # None => map'[m].spec = map[m].spec
  PROVE  PinnedScopes' = PinnedScopes /\ \A n \in Namespaces : PinnedIn(n)' = PinnedIn(n)
<1>1. \A n \in Namespaces : Claims(n)' = Claims(n)
  BY DEF Claims, FirstMatch
<1>2. ASSUME NEW n \in Namespaces PROVE PinnedIn(n)' = PinnedIn(n)
  <2>1. ASSUME NEW m \in Maps, Claims(n) = {m} PROVE map'[m].spec = map[m].spec
    BY <2>1 DEF Claims
  <2>2. QED  BY <1>1, <2>1 DEF PinnedIn, FirstMatch
<1>3. PinnedScopes' = UNION {PinnedIn(n)' : n \in Namespaces}
  BY DEF PinnedScopes, PinnedIn
<1>4. QED  BY <1>2, <1>3, PinnedByNamespace

LEMMA AppliedStep == ASSUME TypeInv, Applied, [Next]_vars PROVE Applied'
<1>1. CASE Administration
  <2>1. UNCHANGED seenMap
    BY <1>1 DEF Administration, CreateMap, UpdateMap, DeleteMap, FinalizeMap, Relabel, RenameOrg,
                caches
  <2>2. QED  BY <1>1, <2>1, AdministrationApplies DEF Applied
<1>2. CASE Informers
  BY <1>2, InformersCopy DEF Applied, kubernetes
<1>3. CASE Crash
  BY <1>3 DEF Crash, Unseen, kubernetes, Applied
<1>4. CASE ReconcileStep
  BY <1>4, ReconcileStatusOnly DEF Applied, caches
<1>5. CASE UNCHANGED <<map, seenMap>>
  BY <1>5 DEF Applied
<1>6. ASSUME NEW p \in Sweepers, SweepStep(p) PROVE UNCHANGED <<map, seenMap>>
  BY <1>6 DEF SweepStep, SweepOnce, SweepResolve, SweepDelegates, SweepRevoke, SweepEnd,
              kubernetes, caches
<1>7. ASSUME NEW t \in Tenants, TenantEnsure(t) \/ \E n \in Namespaces : TenantResolve(t, n)
      PROVE  UNCHANGED <<map, seenMap>>
  BY <1>7 DEF TenantEnsure, TenantResolve, kubernetes, caches
<1>8. QED
  BY <1>1, <1>2, <1>3, <1>4, <1>5, <1>6, <1>7 DEF Next, vars, kubernetes, caches

\* Changes of maps, names and labels, and a crash, disturb every sweep.
LEMMA DisturbedQuiet == ASSUME Administration \/ Crash PROVE QuietInv'
<1>1. quiet' = [p \in Sweepers |-> FALSE]
  BY DEF Administration, CreateMap, UpdateMap, DeleteMap, FinalizeMap, Relabel, RenameOrg, Crash,
         Record
<1>2. QED  BY <1>1 DEF QuietInv

\* The caches of an undisturbed sweep are present and stay so.
LEMMA InformersQuiet == ASSUME TypeInv, QuietInv, Informers PROVE QuietInv'
<1>1. /\ UNCHANGED <<budget, kubernetes, zitadel, pc, cr, sweep, asked, history>>
      /\ \A m \in Maps : seenMap'[m] \in {map[m], seenMap[m]}
      /\ \A n \in Namespaces : seenLabels'[n] \in {labels[n], seenLabels[n]}
  BY InformersCopy
<1>2. Current => Current'
  <2>1. SUFFICES ASSUME Current PROVE Current'
    OBVIOUS
  <2>2. seenLabels' = labels'
    <3>1. /\ labels \in [Namespaces -> (SUBSET Labels) \cup {None}]
          /\ seenLabels' \in [Namespaces -> (SUBSET Labels) \cup {None}]
      BY InformersType DEF TypeInv, TypeOK
    <3>2. QED  BY <1>1, <2>1, <3>1 DEF Current, kubernetes
  <2>3. QED  BY <1>1, <2>1, <2>2 DEF Current, kubernetes
<1>3. PinnedScopes' = PinnedScopes /\ \A n \in Namespaces : PinnedIn(n)' = PinnedIn(n)
  BY <1>1, PinnedSame DEF kubernetes
<1>4. QED
  BY <1>1, <1>2, <1>3 DEF QuietInv, Undisturbed, kubernetes, sweep, history, record

\* Nothing a reconcile writes matters to a sweep, and the map controller's own is over when it
\* reconciles.
LEMMA ReconcileQuiet == ASSUME TypeInv, QuietInv, ReconcileStep PROVE QuietInv'
<1>1. /\ UNCHANGED <<labels, zitadel, caches, sweep, asked, history>>
      /\ \A m \in Maps : map'[m] = None <=> map[m] = None
      /\ \A m \in Maps : map[m] # None => /\ map'[m].spec = map[m].spec
                                          /\ map'[m].gen = map[m].gen
  BY ReconcileStatusOnly
<1>2. Current => Current'
  BY <1>1 DEF Current, caches
<1>3. PinnedScopes' = PinnedScopes /\ \A n \in Namespaces : PinnedIn(n)' = PinnedIn(n)
  BY <1>1, PinnedSame
<1>4. /\ pc["mapController"] \in {"idle", "lookup", "write"}
      /\ \A p \in Sweepers : p # "mapController" => pc'[p] = pc[p]
  BY DEF ReconcileStep, Reconcile, LookupOrganization, WriteStatus, TypeInv, TypeOK
<1>5. ASSUME NEW p \in Sweepers, quiet'[p] PROVE Undisturbed(p)'
  <2>1. Undisturbed(p) /\ pc'[p] = pc[p]
    BY <1>1, <1>4, <1>5 DEF QuietInv, Undisturbed, history, record
  <2>2. QED  BY <1>1, <1>2, <1>3, <2>1 DEF Undisturbed, sweep
<1>6. QED  BY <1>5 DEF QuietInv

\* A sweep keeps the scopes the maps mean, and leaves the other sweeps alone.
LEMMA SweepQuiet ==
  ASSUME AllParse, SweepInv, NEW p \in Sweepers, SweepStep(p)
  PROVE  QuietInv'
<1> USE DEF SweepInv
<1>1. /\ UNCHANGED <<kubernetes, caches>>
      /\ \A q \in Sweepers : q # p =>
           /\ pc'[q] = pc[q] /\ left'[q] = left[q] /\ live'[q] = live[q] /\ doomed'[q] = doomed[q]
           /\ quiet'[q] = quiet[q]
  BY DEF SweepStep, SweepOnce, SweepResolve, SweepDelegates, SweepRevoke, SweepEnd, zitadel,
         history, record, TypeInv, TypeOK
<1>2. /\ Current' <=> Current
      /\ PinnedScopes' = PinnedScopes /\ \A n \in Namespaces : PinnedIn(n)' = PinnedIn(n)
  BY <1>1, PinnedSame DEF Current, kubernetes, caches
<1>3. ASSUME NEW q \in Sweepers, q # p, quiet'[q] PROVE Undisturbed(q)'
  BY <1>1, <1>2, <1>3 DEF QuietInv, Undisturbed
<1>4. ASSUME quiet'[p] PROVE Undisturbed(p)'
  <2>1. CASE SweepOnce(p)
    <3>1. /\ quiet'[p] = Current /\ pc'[p] = "resolve"
          /\ left'[p] = {n \in Namespaces : seenLabels[n] # None}
      BY <2>1 DEF SweepOnce, TypeInv, TypeOK
    <3>2. Current
      BY <1>4, <3>1
    <3>3. \A n \in Namespaces : n \in left'[p] \/ PinnedIn(n) = {}
      BY <3>1, <3>2, PinnedIsLabeled DEF Current
    <3>4. QED  BY <1>2, <3>1, <3>2, <3>3 DEF Undisturbed
  <2>2. ASSUME NEW n \in Namespaces, SweepResolve(p, n) PROVE Undisturbed(p)'
    <3> DEFINE r == Resolve(seenMap, seenLabels, n)
    <3>1. ~Aborts(r)
      BY <1>4, <2>2 DEF SweepResolve, TypeInv, TypeOK
    <3>2. /\ left'[p] = left[p] \ {n} /\ UNCHANGED <<pc, quiet>> /\ pc[p] = "resolve"
          /\ live'[p] = IF r.kind = "scope" THEN live[p] \cup {r.scope} ELSE live[p]
      BY <2>2, <3>1 DEF SweepResolve, TypeInv, TypeOK
    <3>3. Undisturbed(p)
      BY <1>4, <3>2 DEF QuietInv
    <3>4. PinnedIn(n) \subseteq live'[p]
      <4>1. ASSUME NEW s \in PinnedIn(n) PROVE r.kind = "scope" /\ r.scope = s
        BY <3>3, <4>1, ResolvesPinned DEF Undisturbed
      <4>2. QED  BY <3>2, <4>1
    <3>5. QED  BY <1>2, <3>2, <3>3, <3>4 DEF Undisturbed
  <2>3. CASE SweepDelegates(p)
    <3>1. /\ pc[p] = "resolve" /\ left[p] = {} /\ pc'[p] = "revoke"
          /\ doomed'[p] = delegates \ live[p] /\ UNCHANGED <<quiet, live>>
      BY <2>3 DEF SweepDelegates, TypeInv, TypeOK, history, record
    <3>2. Undisturbed(p)
      BY <1>4, <3>1 DEF QuietInv
    <3>3. PinnedScopes \subseteq live[p]
      BY <3>1, <3>2, PinnedByNamespace DEF Undisturbed
    <3>4. QED  BY <1>2, <3>1, <3>2, <3>3 DEF Undisturbed
  <2>4. ASSUME NEW s \in Scope, SweepRevoke(p, s) PROVE Undisturbed(p)'
    <3>1. /\ pc[p] = "revoke" /\ doomed'[p] = doomed[p] \ {s} /\ UNCHANGED <<pc, quiet>>
      BY <2>4 DEF SweepRevoke, TypeInv, TypeOK, history, record
    <3>2. Undisturbed(p)
      BY <1>4, <3>1 DEF QuietInv
    <3>3. QED  BY <1>2, <3>1, <3>2 DEF Undisturbed
  <2>5. CASE SweepEnd(p)
    BY <1>4, <2>5 DEF SweepEnd, TypeInv, TypeOK
  <2>6. QED  BY <2>1, <2>2, <2>3, <2>4, <2>5 DEF SweepStep
<1>5. QED  BY <1>3, <1>4 DEF QuietInv

LEMMA QuietStep == ASSUME AllParse, SweepInv, [Next]_vars PROVE QuietInv'
<1>1. CASE Administration \/ Crash
  BY <1>1, DisturbedQuiet
<1>2. CASE Informers \/ ReconcileStep
  BY <1>2, InformersQuiet, ReconcileQuiet DEF SweepInv
<1>3. ASSUME NEW p \in Sweepers, SweepStep(p) PROVE QuietInv'
  BY <1>3, SweepQuiet
<1>4. ASSUME UNCHANGED <<kubernetes, caches, pc, sweep, history>> PROVE QuietInv'
  <2>1. PinnedScopes' = PinnedScopes /\ \A n \in Namespaces : PinnedIn(n)' = PinnedIn(n)
    BY <1>4, PinnedSame DEF kubernetes
  <2>2. Current' = Current
    BY <1>4 DEF Current, kubernetes, caches
  <2>3. QED  BY <1>4, <2>1, <2>2 DEF SweepInv, QuietInv, Undisturbed, sweep, history, record
<1>5. ASSUME NEW t \in Tenants, TenantEnsure(t) \/ \E n \in Namespaces : TenantResolve(t, n)
      PROVE  UNCHANGED <<kubernetes, caches, pc, sweep, history>>
  BY <1>5 DEF TenantEnsure, TenantResolve
<1>6. QED  BY <1>1, <1>2, <1>3, <1>4, <1>5 DEF Next, vars

\* A sweep on an undisturbed, up-to-date view revokes no scope the maps pin, for any number of
\* maps, namespaces and sweeps, as long as every selector parses: without that, one map's bad
\* selector costs the others their delegates.
THEOREM PinnedSurvive == ASSUME AllParse PROVE Spec => PinnedScopesKept
<1> DEFINE Kept == \A p \in Sweepers, s \in delegates :
                     quiet[p] /\ doomed'[p] # doomed[p] /\ s \notin delegates' => s \notin PinnedScopes
<1>1. Init => SweepInv
  BY InitType DEF Init, Unseen, SweepInv, Applied, QuietInv
<1>2. SweepInv /\ [Next]_vars => SweepInv'
  BY TypeStep, AppliedStep, QuietStep DEF SweepInv
<1>3. SweepInv /\ [Next]_vars => [Kept]_vars
  <2>1. SUFFICES ASSUME SweepInv, [Next]_vars,
                        NEW p \in Sweepers, NEW s \in delegates,
                        quiet[p], doomed'[p] # doomed[p], s \notin delegates'
                 PROVE  s \notin PinnedScopes
    OBVIOUS
  <2>2. ~(UNCHANGED delegates)
    BY <2>1
  <2>3. PICK q \in Sweepers, o \in Scope : SweepRevoke(q, o)
    <3>1. ASSUME NEW t \in Tenants, TenantEnsure(t) \/ \E n \in Namespaces : TenantResolve(t, n)
          PROVE  delegates \subseteq delegates'
      BY <3>1 DEF TenantEnsure, TenantResolve, zitadel
    <3>2. ASSUME Administration \/ Informers \/ Crash \/ ReconcileStep \/ UNCHANGED vars
          PROVE  UNCHANGED delegates
      BY <3>2 DEF vars, zitadel, Administration, CreateMap, UpdateMap, DeleteMap, FinalizeMap,
                  Relabel, RenameOrg, Informers, FillCaches, Sync, ObserveMap, ObserveNamespace,
                  Crash, ReconcileStep, Reconcile, LookupOrganization, WriteStatus
    <3>3. ASSUME NEW q \in Sweepers, SweepOnce(q) \/ SweepDelegates(q) \/ SweepEnd(q)
                                     \/ \E n \in Namespaces : SweepResolve(q, n)
          PROVE  UNCHANGED delegates
      BY <3>3 DEF SweepOnce, SweepDelegates, SweepEnd, SweepResolve, zitadel
    <3>4. QED  BY <2>1, <2>2, <3>1, <3>2, <3>3 DEF Next, SweepStep
  <2>4. q = p /\ o = s
    BY <2>1, <2>3 DEF SweepRevoke, SweepInv, TypeInv, TypeOK
  <2>5. pc[p] = "revoke" /\ s \in doomed[p]
    BY <2>3, <2>4 DEF SweepRevoke
  <2>6. QED  BY <2>1, <2>5 DEF SweepInv, QuietInv, Undisturbed
<1>4. QED  BY <1>1, <1>2, <1>3, PTL DEF Spec, PinnedScopesKept
==============================================================================
