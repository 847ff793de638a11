--------------------------- MODULE ScopeResolution ---------------------------
(***************************************************************************)
(* What internal/scopemap/resolver.go computes: the scope of a namespace,  *)
(* from the ScopeMaps and the namespaces' labels as the cache shows them.  *)
(* No state; ScopeMaps has the state these operators are applied to.       *)
(*                                                                         *)
(* A selector is the set of labels it requires (matchLabels); Malformed is *)
(* one that LabelSelectorAsSelector rejects, such as an unknown operator.  *)
(* A rule's project name and project id are one value.                     *)
(***************************************************************************)
EXTENDS Naturals, Sequences

CONSTANTS
  Maps, Namespaces, Labels,
  Orgs,         \* organization ids
  OrgNames,     \* organization names
  Projects,
  Instances,    \* instance identities a map may assert
  Instance,     \* the operator's own
  Malformed, None

Rule == [namespaces : SUBSET Namespaces,
         selector   : (SUBSET Labels) \cup {None, Malformed},
         project    : Projects \cup {None}]
ScopeMapSpec == [instance       : Instances,
                 organization   : OrgNames \cup {None},
                 organizationId : Orgs \cup {None},
                 rules          : Seq(Rule)]
ScopeMapStatus == [ready : BOOLEAN, resolved : Orgs \cup {None}, observed : Nat]
ScopeMap == [gen : Nat, deleting : BOOLEAN, spec : ScopeMapSpec, status : ScopeMapStatus]
Scope == [org : Orgs, project : Projects \cup {None}]

ASSUME ResolutionAssumption ==
  /\ Instance \in Instances
  /\ None # Malformed
  /\ None \notin Orgs \cup OrgNames \cup Projects \cup ScopeMap \cup Scope

\* Exactly one of namespaceSelector and namespaces is set.
ValidateRule(r) == (r.selector # None) # (r.namespaces # {})

\* A valid rule is evaluated: a literal list by name, a selector by labels, unless
\* the selector does not parse. An invalid rule never matches.
RuleFails(r) == ValidateRule(r) /\ r.selector = Malformed
RuleMatches(r, ns, labels) ==
  /\ ValidateRule(r) /\ r.selector # Malformed
  /\ \/ ns \in r.namespaces
     \/ r.selector # None /\ r.selector \subseteq labels

\* Mutant: the last rule wins.
DecidingLast(spec, ns, labels) ==
  LET ends(i) == RuleFails(spec.rules[i]) \/ RuleMatches(spec.rules[i], ns, labels)
  IN  {i \in DOMAIN spec.rules : ends(i) /\ \A j \in DOMAIN spec.rules : j > i => ~ends(j)}
\* The index at which a map's top-down evaluation ends, if it does.
Deciding(spec, ns, labels) ==
  LET ends(i) == RuleFails(spec.rules[i]) \/ RuleMatches(spec.rules[i], ns, labels)
  IN  {i \in DOMAIN spec.rules : ends(i) /\ \A j \in 1..(i - 1) : ~ends(j)}

Outcome(kind) == [kind |-> kind, scope |-> None]

\* Mutant: the status is preferred.
OrgOfStatus(m) == IF m.status.resolved # None THEN m.status.resolved ELSE m.spec.organizationId
\* spec.organizationId is authoritative; without it the map controller's result counts.
OrgOf(m) == IF m.spec.organizationId # None THEN m.spec.organizationId ELSE m.status.resolved
\* Mutant: an unresolved map is served.
UsableAlways(m) == TRUE
Usable(m) == OrgOf(m) # None

\* Maps with a deciding rule for ns, and that rule.
Deciders(maps, labels, ns) ==
  {m \in Maps : maps[m] # None /\ Deciding(maps[m].spec, ns, labels[ns]) # {}}
DecidingRule(m, ns, labels) == m.spec.rules[CHOOSE i \in Deciding(m.spec, ns, labels) : TRUE]

\* The scope a map, alone in deciding for ns, gives it.
ScopeFrom(m, ns, labels) ==
  IF m.spec.instance # Instance THEN Outcome("InstanceMismatch")
  ELSE IF ~Usable(m) THEN Outcome("ScopeMapNotReady")
  ELSE [kind |-> "scope",
        scope |-> [org |-> OrgOf(m), project |-> DecidingRule(m, ns, labels).project]]

\* Resolve, once the caches have synced: maps and labels (None: no such namespace)
\* are what the cache shows.
Resolve(maps, labels, ns) ==
  IF \A m \in Maps : maps[m] = None THEN Outcome("passthrough")
  ELSE IF labels[ns] = None THEN Outcome("failed")
  ELSE LET ms == Deciders(maps, labels, ns) IN
       IF \E m \in ms : RuleFails(DecidingRule(maps[m], ns, labels[ns])) THEN Outcome("failed")
       ELSE IF ms = {} THEN Outcome("NoMatchingRule")
       ELSE IF \E m, o \in ms : m # o THEN Outcome("ScopeConflict")
       ELSE ScopeFrom(maps[CHOOSE m \in ms : TRUE], ns, labels[ns])
==============================================================================
