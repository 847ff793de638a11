----------------------------- MODULE MCScopeMaps -----------------------------
(***************************************************************************)
(* Instances of ScopeMaps for TLC: the specs that administrators apply and *)
(* how often each adverse event may happen.                                *)
(***************************************************************************)
EXTENDS ScopeMaps, TLC

CONSTANTS n1, n2, o1, o2, a, b, p1, p2, prod, own, other

Literal(ns, p)  == [namespaces |-> ns, selector |-> None, project |-> p]
Selector(ls, p) == [namespaces |-> {}, selector |-> ls, project |-> p]
Both(ns, ls, p) == [namespaces |-> ns, selector |-> ls, project |-> p]
MapOf(inst, name, id, rules) ==
  [instance |-> inst, organization |-> name, organizationId |-> id, rules |-> rules]

\* Pinned maps: an exception before a selector, an invalid rule before an org-wide one,
\* and a map of another instance; and a map by name, with a selector alone.
SafetySpecs == {
  MapOf(own, None, o1, <<Literal({n1}, p1), Selector({prod}, p2)>>),
  MapOf(own, None, o2, <<Both({n1}, {prod}, p1), Selector({}, None)>>),
  MapOf(own, a, None, <<Selector({prod}, p2)>>),
  MapOf(other, None, o1, <<Literal({n1}, p1)>>)}

\* A map by name and a pinned one.
NamedOrPinned == {
  MapOf(own, a, None, <<Literal({n1}, p1)>>),
  MapOf(own, None, o1, <<Selector({}, p1)>>)}

\* A sound map, and one whose selector does not parse.
UnparsableSpecs == {
  MapOf(own, None, o1, <<Literal({n1}, p1)>>),
  MapOf(own, None, o2, <<Selector(Malformed, p2)>>)}

\* Maps are interchangeable.
SameMaps == Permutations(Maps)

AnyLabels == {{}, {prod}}
NoLabels == {{}}

B(creates, edits, deletes, failures) ==
  [create |-> creates, edit |-> edits, delete |-> deletes, failure |-> failures]
SafetyBudget == B(2, 1, 0, 1)
LiveBudget   == B(1, 1, 1, 1)
TwoMaps      == B(2, 0, 0, 0)
==============================================================================
