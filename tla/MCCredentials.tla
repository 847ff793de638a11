---------------------------- MODULE MCCredentials ----------------------------
(* A resource of each kind; a MachineUser rotates its key or has roles. *)
EXTENDS Credentials, TLC

CONSTANTS p1, p2

RotateOrGrant ==
  {Spec0(TRUE, "none"), Spec0(FALSE, p1), Spec0(FALSE, "scope")}
=============================================================================
