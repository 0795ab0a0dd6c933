------------------------------- MODULE Budget --------------------------------
(***************************************************************************)
(* What the environment may still do: how many requests of each kind,      *)
(* failures, crashes.  It bounds the serve modules and is no state of the  *)
(* program.                                                                *)
(***************************************************************************)
EXTENDS Integers

CONSTANT Quotas   \* the choices of how often the environment does what
VARIABLE quota    \* what is left of one of them

Spend(k) == quota[k] > 0 /\ quota' = [quota EXCEPT ![k] = @ - 1]
Fine == UNCHANGED quota

\* An initial choice that nothing depends on need not be made.
Relevant(k, S) == IF quota[k] = 0 THEN {CHOOSE x \in S : TRUE} ELSE S
=============================================================================
