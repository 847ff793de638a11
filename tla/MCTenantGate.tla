----------------------------- MODULE MCTenantGate -----------------------------
(* Operators a of instance A and b of instance B. *)
EXTENDS TenantGate, TLC

CONSTANTS a, b, A, B

Owners == [o \in Operators |-> IF o = b THEN B ELSE A]
=============================================================================
