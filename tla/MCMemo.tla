------------------------------- MODULE MCMemo -------------------------------
(***************************************************************************)
(* Memo with the hash of the code, which is computed once, when an         *)
(* expression is built: a table.                                           *)
(***************************************************************************)
EXTENDS Memo, GroupHash

CONSTANT ChainLength

Hashes == [e \in Expressions |-> ComputeHash(e)]
MCHash(e) == Hashes[e]

\* A plan of ChainLength groups, a LOGICAL_GET under LOGICAL_FILTERs, and then
\* any joins of them: some of the steps the planner may take.
Chain == IF groups = << >> THEN GroupExpression("LOGICAL_GET", << >>)
         ELSE GroupExpression("LOGICAL_FILTER", <<Len(groups)>>)

ChainNext ==
  \/ Len(groups) < ChainLength /\ InsertPlan(Chain)
  \/ /\ Len(groups) >= ChainLength
     /\ \E children \in [1 .. 2 -> 1 .. ChainLength] :
          InsertPlan(GroupExpression("LOGICAL_JOIN", children))

ChainSpec == MemoInit /\ [][ChainNext]_memoVars

=============================================================================
