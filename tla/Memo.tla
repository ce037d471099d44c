-------------------------------- MODULE Memo --------------------------------
(***************************************************************************)
(* The optimizer's Memo: groups of equivalent expressions whose children   *)
(* are groups again, with InsertExpression as the only way in, and the two *)
(* rules an Optimizer registers.                                           *)
(*                                                                         *)
(* An expression is its operator and its child groups; nothing else of it  *)
(* is stored, not even the table of a LOGICAL_GET.  Optimize itself is a   *)
(* comment in the code, so the callers are external: a planner that        *)
(* inserts plans bottom-up and the exploration the comment names, which    *)
(* applies a rule to an expression and inserts the result into that        *)
(* expression's group, in any order.                                       *)
(***************************************************************************)
EXTENDS Integers, Sequences, FiniteSets

CONSTANTS
  Hash(_),        \* GroupExpression::Hash
  PlanOperators,  \* operators the planner uses
  MaxGroups       \* bound on groups_

VARIABLES
  groups,     \* logical_expressions_ of every group, by GroupId
  expr_map,   \* hash |-> the expression and its target_group_id_
  answer      \* the last call of InsertExpression and the group it returned

memoVars == <<groups, expr_map, answer>>

Arity == [LOGICAL_GET |-> 0, LOGICAL_FILTER |-> 1, LOGICAL_AGGREGATION |-> 1,
          LOGICAL_JOIN |-> 2, PHYSICAL_HASH_JOIN |-> 2]
Operators == DOMAIN Arity

ASSUME MemoAssumption ==
  /\ MaxGroups \in Nat
  /\ PlanOperators \subseteq Operators \ {"PHYSICAL_HASH_JOIN"}

GroupIds == 1 .. Len(groups)
GroupExpression(op, children) == [op |-> op, children |-> children]

Expressions ==
  UNION {{GroupExpression(op, c) : c \in [1 .. Arity[op] -> 1 .. MaxGroups]} : op \in Operators}
Entries == {expr_map[h] : h \in DOMAIN expr_map}

MemoTypeOK ==
  /\ groups \in Seq(Seq(Expressions)) /\ Len(groups) <= MaxGroups
  /\ \A h \in DOMAIN expr_map : expr_map[h] \in [expr : Expressions, group : GroupIds]

NoCall == [expr |-> GroupExpression("LOGICAL_GET", << >>), group |-> 0]

MemoInit ==
  /\ groups = << >>
  /\ expr_map = << >>
  /\ answer = NoCall
-----------------------------------------------------------------------------
(***************************************************************************)
(* InsertExpression.                                                       *)
(***************************************************************************)
Mutant_NeverKnown(e) == FALSE
Known(e) == Hash(e) \in DOMAIN expr_map

Mutant_LastGroup(target) == IF target = 0 THEN Len(groups) ELSE target
AssignedGroup(target) == IF target = 0 THEN Len(groups) + 1 ELSE target

InsertExpression(e, target) ==
  \/ /\ Known(e)
     /\ answer' = [expr |-> e, group |-> expr_map[Hash(e)].group]
     /\ UNCHANGED <<groups, expr_map>>
  \/ /\ ~Known(e)
     /\ target = 0 => Len(groups) < MaxGroups
     /\ answer' = [expr |-> e, group |-> AssignedGroup(target)]
     /\ expr_map' = [h \in DOMAIN expr_map \cup {Hash(e)} |->
                       IF h = Hash(e) THEN answer' ELSE expr_map[h]]
     /\ groups' = IF target = 0 THEN Append(groups, <<e>>)
                  ELSE [groups EXCEPT ![target] = Append(@, e)]

\* The planner makes a group of every expression that is new.
InsertPlan(e) == InsertExpression(e, 0)
-----------------------------------------------------------------------------
(***************************************************************************)
(* The rules: join commutativity, and hash join as its implementation.     *)
(***************************************************************************)
Rules == {"JoinCommutativity", "ToHashJoin"}

Match(rule, e) == e.op = "LOGICAL_JOIN"

Mutant_SameChild(children) == <<children[2], children[2]>>
Swapped(children) == <<children[2], children[1]>>

Transform(rule, e) ==
  IF rule = "ToHashJoin" THEN GroupExpression("PHYSICAL_HASH_JOIN", e.children)
                         ELSE GroupExpression("LOGICAL_JOIN", Swapped(e.children))

ApplyRule(entry, rule) ==
  /\ Match(rule, entry.expr)
  /\ InsertExpression(Transform(rule, entry.expr), entry.group)

MemoNext ==
  \/ \E op \in PlanOperators : \E children \in [1 .. Arity[op] -> GroupIds] :
       InsertPlan(GroupExpression(op, children))
  \/ \E entry \in Entries, rule \in Rules : ApplyRule(entry, rule)

MemoSpec == MemoInit /\ [][MemoNext]_memoVars
-----------------------------------------------------------------------------
(***************************************************************************)
(* Properties.                                                             *)
(***************************************************************************)

\* The map and the groups agree, and de-duplication works: an expression
\* stands in exactly one place of one group, the group it is filed under.
EachExpressionOnce ==
  /\ \A g \in GroupIds : \A i \in DOMAIN groups[g] :
       LET e == groups[g][i] IN Known(e) /\ expr_map[Hash(e)] = [expr |-> e, group |-> g]
  /\ \A g, k \in GroupIds : \A i \in DOMAIN groups[g], j \in DOMAIN groups[k] :
       groups[g][i] = groups[k][j] => g = k /\ i = j
  /\ \A n \in Entries : \E i \in DOMAIN groups[n.group] : groups[n.group][i] = n.expr

\* Plans and rules in any order keep the memo a directed acyclic graph: the
\* children of an expression are groups that exist and precede its own.
MemoIsDag ==
  \A n \in Entries : \A i \in DOMAIN n.expr.children : n.expr.children[i] \in 1 .. n.group - 1

\* What two expressions of one group must have in common: the operator they
\* implement, and the same children in one order or the other.
Equivalent(e, f) ==
  /\ \/ e.op = f.op
     \/ {e.op, f.op} = {"LOGICAL_JOIN", "PHYSICAL_HASH_JOIN"}
  /\ \/ e.children = f.children
     \/ Len(e.children) = 2 /\ e.children = <<f.children[2], f.children[1]>>

\* A group holds only expressions that compute the same result.
GroupsEquivalent ==
  \A m, n \in Entries : m.group = n.group => Equivalent(m.expr, n.expr)

\* "If an exact copy is already there", InsertExpression returns its group, and
\* otherwise a group it files the expression under: either way the group that
\* holds the very expression it was given, which is how a planner comes by the
\* children of the next one.
AnswerHoldsExpression ==
  answer.group # 0 => answer \in Entries

=============================================================================
