-------------------------- MODULE MCTenantLifecycle --------------------------
(* One resource of any kind, or of one kind for each way to find, to wait and to delete. *)
EXTENDS TenantLifecycle, TLC

\* Objects differ in nothing but their id.
SameObjects == Permutations(Ids)

Representatives ==
  {Organization, ActionTarget, LoginPolicy, OIDCApp, ProjectRole, ActionExecution,
   EmailProvider}
=============================================================================
