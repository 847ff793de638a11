----------------------------- MODULE TenantKinds -----------------------------
(***************************************************************************)
(* What distinguishes one tenant kind's reconciler from another's: each is *)
(* the lifecycle of TenantLifecycle with one of these profiles.            *)
(*                                                                         *)
(*   scoped    the reconcile starts with the gates and scope resolution; the*)
(*             other kinds are of the instance, not of an organization     *)
(*   parents   the resources it refers to, in the order it resolves them   *)
(*   recalls   a project the spec omits is taken from status               *)
(*   late      what comes before the parents: "deletion", or the "finalizer"*)
(*             as well, or nothing                                         *)
(*   validates the spec may be refused, before anything else is looked at  *)
(*   tells     the outcomes of a failed resolution that it writes to       *)
(*             status, as a condition, and not only to the log             *)
(*   reports   so it may do with a failure to find or create the object    *)
(*   handle    what cleanup deletes: the id "recorded" in status, or       *)
(*             whatever is found under the key in "spec", or "nothing"     *)
(*   blocking  a cleanup that fails keeps the finalizer                    *)
(*   lookup    how the reconcile finds its object at Zitadel:              *)
(*             "id"          the recorded one, if it exists                *)
(*             "idThenKey"   the recorded one, if it exists, or by key     *)
(*             "idByKey"     by key, the recorded one if it is among them  *)
(*             "key"         by key                                        *)
(*   replaces  the object of a key the spec no longer has is removed       *)
(*   observes  status has the generation, and is written when that changes *)
(***************************************************************************)
EXTENDS Sequences

OrgLevel == [
  scoped |-> TRUE, parents |-> <<"org">>, recalls |-> FALSE, late |-> "", validates |-> FALSE,
  tells |-> {}, reports |-> FALSE, handle |-> "recorded", blocking |-> FALSE,
  lookup |-> "key", replaces |-> FALSE, observes |-> FALSE]

InstanceLevel == [OrgLevel EXCEPT !.scoped = FALSE, !.parents = <<>>]

Organization == [InstanceLevel EXCEPT !.blocking = TRUE, !.lookup = "idByKey"]
ActionTarget == [InstanceLevel EXCEPT !.blocking = TRUE, !.lookup = "idThenKey"]
ActionExecution ==
  [InstanceLevel EXCEPT !.parents = <<"target">>, !.late = "finalizer", !.handle = "spec"]
InstanceMember == [InstanceLevel EXCEPT !.parents = <<"user">>, !.handle = "spec"]
EmailProvider ==
  [InstanceLevel EXCEPT !.parents = <<"secret">>, !.late = "finalizer", !.validates = TRUE,
                        !.tells = {"waiting"}, !.blocking = TRUE, !.lookup = "id"]
SmsProvider == EmailProvider
\* An instance's identity provider is only taken out of the login policy.
GoogleIdP ==
  [InstanceLevel EXCEPT !.parents = <<"secret">>, !.late = "finalizer",
                        !.tells = {"waiting"}, !.handle = "nothing", !.lookup = "id"]
GitHubIdP == GoogleIdP

Project   == [OrgLevel EXCEPT !.lookup = "idByKey", !.observes = TRUE]
HumanUser == [OrgLevel EXCEPT !.lookup = "idThenKey", !.reports = TRUE]
IdentityProvider == [OrgLevel EXCEPT !.lookup = "id"]

Domain      == [OrgLevel EXCEPT !.handle = "spec", !.blocking = TRUE]
OrgMetadata == [OrgLevel EXCEPT !.handle = "spec", !.blocking = TRUE]
OrgMember   == [OrgLevel EXCEPT !.handle = "spec", !.parents = <<"org", "user">>]

\* The policies of an organization: one of each kind, reset by cleanup.
LabelPolicy       == [OrgLevel EXCEPT !.handle = "spec"]
PasswordAgePolicy == [OrgLevel EXCEPT !.handle = "spec"]
LockoutPolicy      == [OrgLevel EXCEPT !.handle = "spec", !.tells = {"waiting"}]
LoginPolicy        == [OrgLevel EXCEPT !.handle = "spec", !.tells = {"waiting"}]
MessageText        == [OrgLevel EXCEPT !.handle = "spec", !.tells = {"waiting"}]
NotificationPolicy == [OrgLevel EXCEPT !.handle = "spec", !.tells = {"waiting"}]
PasswordComplexityPolicy == [OrgLevel EXCEPT !.handle = "spec", !.tells = {"waiting"}]
PrivacyPolicy      == [OrgLevel EXCEPT !.handle = "spec", !.tells = {"waiting"}]

OIDCApp ==
  [OrgLevel EXCEPT !.parents = <<"project">>, !.recalls = TRUE, !.tells = {"waiting"},
                   !.blocking = TRUE]
APIApp  == [OIDCApp EXCEPT !.reports = TRUE]
SAMLApp == [OIDCApp EXCEPT !.reports = TRUE]
ProjectRole ==
  [OrgLevel EXCEPT !.parents = <<"project">>, !.recalls = TRUE, !.late = "deletion",
                   !.tells = {"waiting", "unresolved"}, !.replaces = TRUE,
                   !.observes = TRUE]

ProjectGrant ==
  [OrgLevel EXCEPT !.parents = <<"org", "project", "grantedOrg">>, !.tells = {"waiting"},
                   !.lookup = "id"]
UserGrant ==
  [OrgLevel EXCEPT !.parents = <<"org", "user", "project">>, !.tells = {"waiting"},
                   !.lookup = "idThenKey"]
ProjectMember ==
  [OrgLevel EXCEPT !.parents = <<"org", "project", "user">>, !.tells = {"waiting"},
                   !.handle = "spec"]
ProjectGrantMember == [ProjectMember EXCEPT !.reports = TRUE]

TenantKinds == {
  Organization, Project, HumanUser, IdentityProvider, Domain, OrgMetadata, OrgMember,
  LabelPolicy, PasswordAgePolicy, LockoutPolicy, LoginPolicy, MessageText,
  NotificationPolicy, PasswordComplexityPolicy, PrivacyPolicy,
  ActionTarget, ActionExecution, InstanceMember, EmailProvider, SmsProvider,
  GoogleIdP, GitHubIdP, OIDCApp, APIApp, SAMLApp, ProjectRole,
  ProjectGrant, UserGrant, ProjectMember, ProjectGrantMember}
=============================================================================
