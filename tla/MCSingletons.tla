----------------------------- MODULE MCSingletons -----------------------------
(* Two resources of each kind, the one or the other setting in their specs. *)
EXTENDS Singletons, TLC

CONSTANTS v, s1, s2

\* The Plain kinds do nothing that DefaultOIDCSettings does not.
EveryKind ==
  {DefaultPasswordComplexityPolicy, DefaultDomainPolicy,
   DefaultLoginPolicy, DefaultLabelPolicy, DefaultMessageText, DefaultOIDCSettings}

EitherSetting ==
  {Spec0(v, Unset, s1, FALSE), Spec0(Unset, v, s1, FALSE), Spec0(v, Unset, s2, FALSE),
   Spec0(v, Unset, s1, TRUE), Spec0(Bad, Unset, s1, FALSE), Spec0(Huge, Unset, s1, FALSE)}
OneEach ==
  [c \in {1, 2} |-> IF c = 1 THEN EitherSetting \ {Spec0(Unset, v, s1, FALSE)}
                   ELSE {Spec0(Unset, v, s1, FALSE)}]
Other == {[main |-> Default, rest |-> v]}
=============================================================================
