---------------------------- MODULE MCDelegation ----------------------------
(***************************************************************************)
(* Instances of Delegation for TLC. A budget names the adverse events that *)
(* may happen, each once; the rest never happen.                           *)
(***************************************************************************)
EXTENDS Delegation, TLC

Once(kinds) == [k \in Adversities |-> IF k \in kinds THEN 1 ELSE 0]

AllButEdit    == Once(Adversities \ {"edit"})
FaultUserEdit == Once({"fault", "user", "edit"})
CrashAndUser  == Once({"crash", "user"})

\* Workers are interchangeable.
SameWorkers == Permutations(Workers)

\* A first start whose WarmFromSecrets has already found nothing.
WarmedInit == FreshStart /\ pc = [p \in Procs |-> "idle"]
WarmedSpec == WarmedInit /\ [][Next]_vars /\ Fairness
=============================================================================
