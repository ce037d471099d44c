----------------------------- MODULE MemoProofs -----------------------------
(***************************************************************************)
(* Proofs about Memo, for every number of groups, every choice of the      *)
(* planner's operators and every hash function.                            *)
(***************************************************************************)
EXTENDS Memo, SequenceTheorems, TLAPS
-----------------------------------------------------------------------------
(***************************************************************************)
(* The inductive invariant.                                                *)
(***************************************************************************)

\* expr_map files an expression under its own hash.
Filed == \A h \in DOMAIN expr_map : Hash(expr_map[h].expr) = h

Inv ==
  /\ MemoTypeOK /\ Filed /\ EachExpressionOnce /\ MemoIsDag /\ GroupsEquivalent
-----------------------------------------------------------------------------
(***************************************************************************)
(* Expressions, the rules and equivalence.                                 *)
(***************************************************************************)

LEMMA ExpressionParts ==
  ASSUME NEW e \in Expressions
  PROVE  /\ e.op \in Operators /\ e.children \in [1 .. Arity[e.op] -> 1 .. MaxGroups]
         /\ e = GroupExpression(e.op, e.children)
  BY DEF Expressions, GroupExpression

LEMMA ExpressionType ==
  ASSUME NEW op \in Operators, NEW c \in [1 .. Arity[op] -> 1 .. MaxGroups]
  PROVE  GroupExpression(op, c) \in Expressions
  BY DEF Expressions

LEMMA Arities ==
  /\ "LOGICAL_JOIN" \in Operators /\ "PHYSICAL_HASH_JOIN" \in Operators
  /\ Arity["LOGICAL_JOIN"] = 2 /\ Arity["PHYSICAL_HASH_JOIN"] = 2
  /\ \A op \in Operators : Arity[op] \in 0 .. 2
  BY DEF Arity, Operators

LEMMA JoinParts ==
  ASSUME NEW e \in Expressions, e.op \in {"LOGICAL_JOIN", "PHYSICAL_HASH_JOIN"}
  PROVE  /\ e.children \in [1 .. 2 -> 1 .. MaxGroups] /\ DOMAIN e.children = 1 .. 2
         /\ e.children[1] \in 1 .. MaxGroups /\ e.children[2] \in 1 .. MaxGroups
         /\ e.children = <<e.children[1], e.children[2]>>
         /\ Len(e.children) = 2
  <1>1. e.children \in [1 .. 2 -> 1 .. MaxGroups]
    BY ExpressionParts, Arities
  <1>2. e.children = <<e.children[1], e.children[2]>>
    BY <1>1
  <1> QED
    BY <1>1, <1>2

\* What a rule makes of a join.
LEMMA Transformed ==
  ASSUME NEW e \in Expressions, NEW r \in Rules, Match(r, e)
  PROVE  LET d == Transform(r, e) IN
         /\ d \in Expressions
         /\ r = "ToHashJoin" => d.op = "PHYSICAL_HASH_JOIN" /\ d.children = e.children
         /\ r = "JoinCommutativity" =>
              d.op = "LOGICAL_JOIN" /\ d.children = <<e.children[2], e.children[1]>>
  <1>1. /\ e.children \in [1 .. 2 -> 1 .. MaxGroups]
        /\ e.children[1] \in 1 .. MaxGroups /\ e.children[2] \in 1 .. MaxGroups
    BY JoinParts DEF Match
  <1>2. CASE r = "ToHashJoin"
    <2>1. Transform(r, e) = GroupExpression("PHYSICAL_HASH_JOIN", e.children)
      BY <1>2 DEF Transform
    <2>2. GroupExpression("PHYSICAL_HASH_JOIN", e.children) \in Expressions
      BY <1>1, Arities, ExpressionType
    <2> QED
      BY <1>2, <2>1, <2>2 DEF GroupExpression
  <1>3. CASE r = "JoinCommutativity"
    <2>1. Transform(r, e) = GroupExpression("LOGICAL_JOIN", <<e.children[2], e.children[1]>>)
      BY <1>3 DEF Transform, Swapped
    <2>2. <<e.children[2], e.children[1]>> \in [1 .. 2 -> 1 .. MaxGroups]
      BY <1>1
    <2>3. GroupExpression("LOGICAL_JOIN", <<e.children[2], e.children[1]>>) \in Expressions
      BY <2>2, Arities, ExpressionType
    <2> QED
      BY <1>3, <2>1, <2>3 DEF GroupExpression
  <1> QED
    BY <1>2, <1>3 DEF Rules

LEMMA EquivalentSelf == \A e : Equivalent(e, e)
  BY DEF Equivalent

\* What is equivalent to a join is equivalent to what a rule makes of it.
LEMMA TransformEquivalent ==
  ASSUME NEW e \in Expressions, NEW m \in Expressions, NEW r \in Rules, Match(r, e),
         Equivalent(m, e)
  PROVE  Equivalent(m, Transform(r, e)) /\ Equivalent(Transform(r, e), m)
  <1>1. PICK d \in Expressions : d = Transform(r, e)
    BY Transformed
  <1>2. /\ d.op \in {"LOGICAL_JOIN", "PHYSICAL_HASH_JOIN"}
        /\ d.children = e.children \/ d.children = <<e.children[2], e.children[1]>>
    BY <1>1, Transformed DEF Rules
  <1>3. m.op \in {"LOGICAL_JOIN", "PHYSICAL_HASH_JOIN"} /\ e.op = "LOGICAL_JOIN"
    BY DEF Equivalent, Match
  <1>4. m.op = d.op \/ {m.op, d.op} = {"LOGICAL_JOIN", "PHYSICAL_HASH_JOIN"}
    BY <1>2, <1>3
  <1>5. d.op = m.op \/ {d.op, m.op} = {"LOGICAL_JOIN", "PHYSICAL_HASH_JOIN"}
    BY <1>2, <1>3
  <1>6. /\ e.children = <<e.children[1], e.children[2]>>
        /\ m.children = <<m.children[1], m.children[2]>> /\ Len(m.children) = 2
        /\ d.children = <<d.children[1], d.children[2]>> /\ Len(d.children) = 2
    BY <1>2, <1>3, JoinParts
  <1>7. m.children = e.children \/ m.children = <<e.children[2], e.children[1]>>
    BY DEF Equivalent
  <1>8. /\ m.children = d.children \/ m.children = <<d.children[2], d.children[1]>>
        /\ d.children = m.children \/ d.children = <<m.children[2], m.children[1]>>
    BY <1>2, <1>6, <1>7
  <1> QED
    BY <1>1, <1>4, <1>5, <1>6, <1>8 DEF Equivalent
-----------------------------------------------------------------------------
(***************************************************************************)
(* InsertExpression of an expression that is not known.                    *)
(***************************************************************************)
Files(e, g) ==
  expr_map' = [h \in DOMAIN expr_map \cup {Hash(e)} |->
                 IF h = Hash(e) THEN [expr |-> e, group |-> g] ELSE expr_map[h]]
Puts(e, target) ==
  groups' = IF target = 0 THEN Append(groups, <<e>>) ELSE [groups EXCEPT ![target] = Append(@, e)]

LEMMA FilesEntries ==
  ASSUME NEW e, NEW g, ~Known(e), Files(e, g)
  PROVE  /\ DOMAIN expr_map' = DOMAIN expr_map \cup {Hash(e)}
         /\ expr_map'[Hash(e)] = [expr |-> e, group |-> g]
         /\ \A h \in DOMAIN expr_map : h # Hash(e) /\ expr_map'[h] = expr_map[h]
         /\ Entries' = Entries \cup {[expr |-> e, group |-> g]}
  <1>1. /\ DOMAIN expr_map' = DOMAIN expr_map \cup {Hash(e)}
        /\ expr_map'[Hash(e)] = [expr |-> e, group |-> g]
        /\ \A h \in DOMAIN expr_map : h # Hash(e) /\ expr_map'[h] = expr_map[h]
    BY DEF Files, Known
  <1>2. Entries' = Entries \cup {[expr |-> e, group |-> g]}
    BY <1>1 DEF Entries
  <1> QED
    BY <1>1, <1>2

\* The new expression takes a place of its own; the others keep theirs.
Placed(e, g, i) ==
  /\ g \in 1 .. Len(groups') /\ i \in DOMAIN groups'[g] /\ groups'[g][i] = e
  /\ \A k \in 1 .. Len(groups') : \A j \in DOMAIN groups'[k] :
       \/ k = g /\ j = i
       \/ k \in 1 .. Len(groups) /\ j \in DOMAIN groups[k] /\ groups'[k][j] = groups[k][j]
  /\ \A k \in 1 .. Len(groups) : \A j \in DOMAIN groups[k] :
       j \in DOMAIN groups'[k] /\ groups'[k][j] = groups[k][j]

LEMMA PutsGroups ==
  ASSUME MemoTypeOK, NEW e \in Expressions, NEW target \in 0 .. Len(groups), Puts(e, target)
  PROVE  /\ groups' \in Seq(Seq(Expressions))
         /\ Len(groups') = IF target = 0 THEN Len(groups) + 1 ELSE Len(groups)
         /\ \E i : Placed(e, AssignedGroup(target), i)
  <1>1. groups \in Seq(Seq(Expressions)) /\ Len(groups) \in Nat
    BY DEF MemoTypeOK
  <1>2. \A k \in 1 .. Len(groups) : groups[k] \in Seq(Expressions) /\ DOMAIN groups[k] = 1 .. Len(groups[k])
    BY <1>1
  <1>3. CASE target = 0
    <2>1. <<e>> \in Seq(Expressions) /\ DOMAIN <<e>> = 1 .. 1 /\ <<e>>[1] = e
      OBVIOUS
    <2>2. groups' = Append(groups, <<e>>) /\ AssignedGroup(target) = Len(groups) + 1
      BY <1>3 DEF Puts, AssignedGroup
    <2>3. /\ groups' \in Seq(Seq(Expressions)) /\ Len(groups') = Len(groups) + 1
          /\ \A k \in 1 .. Len(groups) : groups'[k] = groups[k]
          /\ groups'[Len(groups) + 1] = <<e>>
      BY <1>1, <2>1, <2>2, AppendProperties
    <2>4. Placed(e, Len(groups) + 1, 1)
      <3>1. Len(groups) + 1 \in 1 .. Len(groups')
        BY <1>1, <2>3
      <3>2. 1 \in DOMAIN groups'[Len(groups) + 1] /\ groups'[Len(groups) + 1][1] = e
        BY <2>1, <2>3
      <3>3. ASSUME NEW k \in 1 .. Len(groups'), NEW j \in DOMAIN groups'[k]
            PROVE  \/ k = Len(groups) + 1 /\ j = 1
                   \/ k \in 1 .. Len(groups) /\ j \in DOMAIN groups[k] /\ groups'[k][j] = groups[k][j]
        <4>1. CASE k = Len(groups) + 1
          <5>1. DOMAIN groups'[k] = 1 .. 1
            BY <2>1, <2>3, <4>1
          <5> QED
            BY <4>1, <5>1
        <4>2. CASE k # Len(groups) + 1
          <5>1. k \in 1 .. Len(groups)
            BY <1>1, <2>3, <4>2
          <5> QED
            BY <2>3, <5>1
        <4> QED
          BY <4>1, <4>2
      <3> QED
        BY <2>3, <3>1, <3>2, <3>3 DEF Placed
    <2> QED
      BY <1>3, <2>2, <2>3, <2>4
  <1>4. CASE target # 0
    <2>1. target \in 1 .. Len(groups)
      BY <1>1, <1>4
    <2>2. PICK s \in Seq(Expressions) : s = groups[target]
      BY <1>2, <2>1
    <2>3. /\ Append(s, e) \in Seq(Expressions) /\ Len(Append(s, e)) = Len(s) + 1
          /\ \A i \in 1 .. Len(s) : Append(s, e)[i] = s[i]
          /\ Append(s, e)[Len(s) + 1] = e
          /\ Len(s) \in Nat /\ DOMAIN s = 1 .. Len(s) /\ DOMAIN Append(s, e) = 1 .. Len(s) + 1
      BY AppendProperties
    <2>4. groups' = [groups EXCEPT ![target] = Append(s, e)] /\ AssignedGroup(target) = target
      BY <1>4, <2>2 DEF Puts, AssignedGroup
    <2>5. /\ groups' \in Seq(Seq(Expressions)) /\ Len(groups') = Len(groups)
          /\ \A k \in 1 .. Len(groups) : groups'[k] = IF k = target THEN Append(s, e) ELSE groups[k]
      BY <1>1, <2>1, <2>3, <2>4, ExceptSeq
    <2>6. Placed(e, target, Len(s) + 1)
      <3>1. target \in 1 .. Len(groups') /\ groups'[target] = Append(s, e)
        BY <2>1, <2>5
      <3>2. Len(s) + 1 \in DOMAIN groups'[target] /\ groups'[target][Len(s) + 1] = e
        BY <2>3, <3>1
      <3>3. ASSUME NEW k \in 1 .. Len(groups'), NEW j \in DOMAIN groups'[k]
            PROVE  \/ k = target /\ j = Len(s) + 1
                   \/ k \in 1 .. Len(groups) /\ j \in DOMAIN groups[k] /\ groups'[k][j] = groups[k][j]
        <4>1. CASE k = target
          <5>1. j \in 1 .. Len(s) + 1
            BY <2>3, <3>1, <4>1
          <5>2. j = Len(s) + 1 \/ j \in 1 .. Len(s)
            BY <2>3, <5>1
          <5> QED
            BY <2>1, <2>2, <2>3, <3>1, <4>1, <5>2
        <4>2. CASE k # target
          BY <2>5, <4>2
        <4> QED
          BY <4>1, <4>2
      <3>4. ASSUME NEW k \in 1 .. Len(groups), NEW j \in DOMAIN groups[k]
            PROVE  j \in DOMAIN groups'[k] /\ groups'[k][j] = groups[k][j]
        <4>1. CASE k = target
          <5>1. j \in 1 .. Len(s)
            BY <2>2, <2>3, <4>1
          <5>2. j \in 1 .. Len(s) + 1
            BY <2>3, <5>1
          <5> QED
            BY <2>2, <2>3, <3>1, <4>1, <5>1, <5>2
        <4>2. CASE k # target
          BY <2>5, <4>2
        <4> QED
          BY <4>1, <4>2
      <3> QED
        BY <3>1, <3>2, <3>3, <3>4 DEF Placed
    <2> QED
      BY <1>4, <2>4, <2>5, <2>6
  <1> QED
    BY <1>3, <1>4

LEMMA EntryType ==
  ASSUME MemoTypeOK, NEW n \in Entries
  PROVE  /\ n \in [expr : Expressions, group : GroupIds]
         /\ n.expr \in Expressions /\ n.group \in GroupIds
         /\ n = [expr |-> n.expr, group |-> n.group]
  BY DEF MemoTypeOK, Entries

\* The groups and the map after the insertion.
LEMMA InsertedOnce ==
  ASSUME Inv, NEW e \in Expressions, NEW target \in 0 .. Len(groups), ~Known(e),
         target = 0 => Len(groups) < MaxGroups,
         Files(e, AssignedGroup(target)), Puts(e, target)
  PROVE  MemoTypeOK' /\ Filed' /\ EachExpressionOnce'
  <1>1. PICK g : g = AssignedGroup(target)
    OBVIOUS
  <1>2. /\ groups \in Seq(Seq(Expressions)) /\ Len(groups) \in Nat /\ Len(groups) <= MaxGroups
        /\ MaxGroups \in Nat
    BY MemoAssumption DEF Inv, MemoTypeOK
  <1>3. /\ groups' \in Seq(Seq(Expressions))
        /\ Len(groups') = IF target = 0 THEN Len(groups) + 1 ELSE Len(groups)
    BY PutsGroups DEF Inv
  <1>4. PICK i : Placed(e, g, i)
    BY <1>1, PutsGroups DEF Inv
  <1>5. /\ DOMAIN expr_map' = DOMAIN expr_map \cup {Hash(e)}
        /\ expr_map'[Hash(e)] = [expr |-> e, group |-> g]
        /\ \A h \in DOMAIN expr_map : h # Hash(e) /\ expr_map'[h] = expr_map[h]
        /\ Entries' = Entries \cup {[expr |-> e, group |-> g]}
    <2>1. Files(e, g)
      BY <1>1
    <2> QED
      BY <2>1, FilesEntries
  <1>6. Filed'
    BY <1>5 DEF Inv, Filed
  <1>7. MemoTypeOK'
    <2>1. g \in GroupIds' /\ GroupIds \subseteq GroupIds'
      BY <1>2, <1>3, <1>4 DEF Placed, GroupIds
    <2>2. \A h \in DOMAIN expr_map' : expr_map'[h] \in [expr : Expressions, group : GroupIds']
      <3> SUFFICES ASSUME NEW h \in DOMAIN expr_map'
                   PROVE  expr_map'[h] \in [expr : Expressions, group : GroupIds']
        OBVIOUS
      <3>1. CASE h = Hash(e)
        BY <1>5, <2>1, <3>1
      <3>2. CASE h # Hash(e)
        <4>1. expr_map'[h] = expr_map[h] /\ expr_map[h] \in [expr : Expressions, group : GroupIds]
          BY <1>5, <3>2 DEF Inv, MemoTypeOK
        <4> QED
          BY <2>1, <4>1
      <3> QED
        BY <3>1, <3>2
    <2>3. Len(groups') <= MaxGroups
      BY <1>2, <1>3
    <2> QED
      BY <1>3, <2>2, <2>3 DEF MemoTypeOK
  <1>8. \A k \in GroupIds : \A j \in DOMAIN groups[k] :
          /\ Hash(groups[k][j]) \in DOMAIN expr_map
          /\ expr_map[Hash(groups[k][j])] = [expr |-> groups[k][j], group |-> k]
          /\ groups[k][j] # e
    BY DEF Inv, EachExpressionOnce, Known
  <1>9. ASSUME NEW k \in GroupIds', NEW j \in DOMAIN groups'[k]
        PROVE  /\ Hash(groups'[k][j]) \in DOMAIN expr_map'
               /\ expr_map'[Hash(groups'[k][j])] = [expr |-> groups'[k][j], group |-> k]
    <2>1. CASE k = g /\ j = i
      BY <1>4, <1>5, <2>1 DEF Placed
    <2>2. CASE k \in GroupIds /\ j \in DOMAIN groups[k] /\ groups'[k][j] = groups[k][j]
      BY <1>5, <1>8, <2>2
    <2> QED
      BY <1>4, <2>1, <2>2 DEF Placed, GroupIds
  <1>10. ASSUME NEW k \in GroupIds', NEW j \in DOMAIN groups'[k],
                NEW l \in GroupIds', NEW m \in DOMAIN groups'[l], groups'[k][j] = groups'[l][m]
         PROVE  k = l /\ j = m
    <2>1. \/ k = g /\ j = i
          \/ k \in GroupIds /\ j \in DOMAIN groups[k] /\ groups'[k][j] = groups[k][j]
      BY <1>4 DEF Placed, GroupIds
    <2>2. \/ l = g /\ m = i
          \/ l \in GroupIds /\ m \in DOMAIN groups[l] /\ groups'[l][m] = groups[l][m]
      BY <1>4 DEF Placed, GroupIds
    <2>3. groups'[g][i] = e
      BY <1>4 DEF Placed
    <2>4. \A a, b \in GroupIds : \A c \in DOMAIN groups[a], d \in DOMAIN groups[b] :
            groups[a][c] = groups[b][d] => a = b /\ c = d
      BY DEF Inv, EachExpressionOnce
    <2>5. CASE k = g /\ j = i
      <3>1. groups'[l][m] = e
        BY <1>10, <2>3, <2>5
      <3> QED
        BY <1>8, <2>2, <2>5, <3>1
    <2>6. CASE k \in GroupIds /\ j \in DOMAIN groups[k] /\ groups'[k][j] = groups[k][j]
      <3>1. groups[k][j] # e
        BY <1>8, <2>6
      <3>2. l \in GroupIds /\ m \in DOMAIN groups[l] /\ groups'[l][m] = groups[l][m]
        BY <1>10, <2>2, <2>3, <2>6, <3>1
      <3>3. groups[k][j] = groups[l][m]
        BY <1>10, <2>6, <3>2
      <3> QED
        BY <2>4, <2>6, <3>2, <3>3
    <2> QED
      BY <2>1, <2>5, <2>6
  <1>11. ASSUME NEW n \in Entries' PROVE \E j \in DOMAIN groups'[n.group] : groups'[n.group][j] = n.expr
    <2>1. CASE n = [expr |-> e, group |-> g]
      BY <1>4, <2>1 DEF Placed
    <2>2. CASE n \in Entries
      <3>1. n.group \in 1 .. Len(groups)
        BY <2>2, EntryType DEF Inv, GroupIds
      <3>2. PICK j \in DOMAIN groups[n.group] : groups[n.group][j] = n.expr
        BY <2>2 DEF Inv, EachExpressionOnce
      <3> QED
        BY <1>4, <3>1, <3>2 DEF Placed
    <2> QED
      BY <1>5, <2>1, <2>2
  <1>12. EachExpressionOnce'
    <2>1. \A k \in GroupIds' : \A j \in DOMAIN groups'[k] :
            Known(groups[k][j])' /\ expr_map'[Hash(groups'[k][j])] = [expr |-> groups'[k][j], group |-> k]
      BY <1>9 DEF Known
    <2> QED
      BY <1>10, <1>11, <2>1 DEF EachExpressionOnce, Known
  <1> QED
    BY <1>6, <1>7, <1>12

\* The graph of the groups after the insertion.
LEMMA InsertedGraph ==
  ASSUME Inv, NEW e \in Expressions, NEW target \in 0 .. Len(groups), ~Known(e),
         Files(e, AssignedGroup(target)),
         \A i \in DOMAIN e.children : e.children[i] \in 1 .. AssignedGroup(target) - 1,
         \A m \in Entries : m.group = target => Equivalent(m.expr, e) /\ Equivalent(e, m.expr)
  PROVE  MemoIsDag' /\ GroupsEquivalent'
  <1>1. PICK g : g = AssignedGroup(target)
    OBVIOUS
  <1>2. Entries' = Entries \cup {[expr |-> e, group |-> g]}
    <2>1. Files(e, g)
      BY <1>1
    <2> QED
      BY <2>1, FilesEntries
  <1>3. \A i \in DOMAIN e.children : e.children[i] \in 1 .. g - 1
    BY <1>1
  <1>4. MemoIsDag'
    <2>1. \A n \in Entries : \A i \in DOMAIN n.expr.children : n.expr.children[i] \in 1 .. n.group - 1
      BY DEF Inv, MemoIsDag
    <2>2. \A n \in Entries' : \A i \in DOMAIN n.expr.children : n.expr.children[i] \in 1 .. n.group - 1
      BY <1>2, <1>3, <2>1
    <2> QED
      BY <2>2 DEF MemoIsDag
  <1>5. \A m \in Entries : m.group = g => Equivalent(m.expr, e) /\ Equivalent(e, m.expr)
    <2> SUFFICES ASSUME NEW m \in Entries, m.group = g
                 PROVE  Equivalent(m.expr, e) /\ Equivalent(e, m.expr)
      OBVIOUS
    <2>1. m.group \in 1 .. Len(groups) /\ Len(groups) \in Nat
      BY EntryType DEF Inv, GroupIds, MemoTypeOK
    <2>2. g = target
      BY <1>1, <2>1 DEF AssignedGroup
    <2> QED
      BY <2>2
  <1>6. GroupsEquivalent'
    <2>1. \A m, n \in Entries : m.group = n.group => Equivalent(m.expr, n.expr)
      BY DEF Inv, GroupsEquivalent
    <2> SUFFICES ASSUME NEW m \in Entries', NEW n \in Entries', m.group = n.group
                 PROVE  Equivalent(m.expr, n.expr)
      BY DEF GroupsEquivalent, Equivalent
    <2>2. CASE m \in Entries /\ n \in Entries
      BY <2>1, <2>2
    <2>3. CASE m \in Entries /\ n = [expr |-> e, group |-> g]
      BY <1>5, <2>3
    <2>4. CASE m = [expr |-> e, group |-> g] /\ n \in Entries
      BY <1>5, <2>4
    <2>5. CASE m = [expr |-> e, group |-> g] /\ n = [expr |-> e, group |-> g]
      BY <2>5, EquivalentSelf
    <2> QED
      BY <1>2, <2>2, <2>3, <2>4, <2>5
  <1> QED
    BY <1>4, <1>6

LEMMA InitInv == MemoInit => Inv
  <1> SUFFICES ASSUME MemoInit PROVE Inv
    OBVIOUS
  <1>1. groups = << >> /\ Len(groups) = 0 /\ groups \in Seq(Seq(Expressions)) /\ GroupIds = {}
    BY DEF MemoInit, GroupIds
  <1>2. DOMAIN expr_map = {} /\ Entries = {}
    BY DEF MemoInit, Entries
  <1>3. MemoTypeOK
    BY <1>1, <1>2, MemoAssumption DEF MemoTypeOK
  <1>4. Filed /\ EachExpressionOnce
    BY <1>1, <1>2 DEF Filed, EachExpressionOnce
  <1>5. MemoIsDag /\ GroupsEquivalent
    BY <1>2 DEF MemoIsDag, GroupsEquivalent
  <1> QED
    BY <1>3, <1>4, <1>5 DEF Inv

\* A known expression changes nothing in the memo.
LEMMA KnownKept ==
  ASSUME Inv, UNCHANGED <<groups, expr_map>>
  PROVE  /\ Entries' = Entries
         /\ MemoTypeOK' /\ Filed' /\ EachExpressionOnce' /\ MemoIsDag' /\ GroupsEquivalent'
  <1>1. Entries' = Entries /\ GroupIds' = GroupIds
    BY DEF Entries, GroupIds
  <1>2. MemoTypeOK'
    BY <1>1 DEF Inv, MemoTypeOK
  <1>3. Filed' /\ EachExpressionOnce'
    BY <1>1 DEF Inv, Filed, EachExpressionOnce, Known
  <1>4. MemoIsDag' /\ GroupsEquivalent'
    BY <1>1 DEF Inv, MemoIsDag, GroupsEquivalent, Equivalent
  <1> QED
    BY <1>1, <1>2, <1>3, <1>4

\* InsertExpression by its two outcomes.
LEMMA InsertCases ==
  ASSUME NEW e, NEW target, InsertExpression(e, target)
  PROVE  \/ /\ Known(e) /\ UNCHANGED <<groups, expr_map>>
            /\ answer' = [expr |-> e, group |-> expr_map[Hash(e)].group]
         \/ /\ ~Known(e) /\ (target = 0 => Len(groups) < MaxGroups)
            /\ answer' = [expr |-> e, group |-> AssignedGroup(target)]
            /\ Files(e, AssignedGroup(target)) /\ Puts(e, target)
  <1>1. CASE Known(e)
    BY <1>1 DEF InsertExpression
  <1>2. CASE ~Known(e)
    <2>1. /\ target = 0 => Len(groups) < MaxGroups
          /\ answer' = [expr |-> e, group |-> AssignedGroup(target)]
          /\ expr_map' = [h \in DOMAIN expr_map \cup {Hash(e)} |->
                            IF h = Hash(e) THEN answer' ELSE expr_map[h]]
          /\ Puts(e, target)
      BY <1>2 DEF InsertExpression, Puts
    <2>2. Files(e, AssignedGroup(target))
      BY <2>1, Zenon DEF Files
    <2> QED
      BY <1>2, <2>1, <2>2
  <1> QED
    BY <1>1, <1>2

\* A plan's expression, whose children are groups of the memo.
LEMMA PlanExpression ==
  ASSUME Inv, NEW op \in PlanOperators, NEW c \in [1 .. Arity[op] -> GroupIds]
  PROVE  LET e == GroupExpression(op, c) IN
         e \in Expressions /\ \A i \in DOMAIN e.children : e.children[i] \in 1 .. Len(groups)
  <1>1. op \in Operators /\ GroupIds \subseteq 1 .. MaxGroups
    BY MemoAssumption DEF Inv, MemoTypeOK, GroupIds
  <1>2. c \in [1 .. Arity[op] -> 1 .. MaxGroups]
    BY <1>1
  <1>3. GroupExpression(op, c) \in Expressions
    BY <1>1, <1>2, ExpressionType
  <1> QED
    BY <1>3 DEF GroupExpression, GroupIds

LEMMA InsertPlanInv ==
  ASSUME Inv, NEW e \in Expressions, \A i \in DOMAIN e.children : e.children[i] \in 1 .. Len(groups),
         InsertPlan(e)
  PROVE  Inv'
  <1>1. InsertExpression(e, 0)
    BY DEF InsertPlan
  <1>2. CASE Known(e) /\ UNCHANGED <<groups, expr_map>>
    BY <1>2, KnownKept DEF Inv
  <1>3. CASE /\ ~Known(e) /\ (0 = 0 => Len(groups) < MaxGroups)
             /\ Files(e, AssignedGroup(0)) /\ Puts(e, 0)
    <2>1. 0 \in 0 .. Len(groups) /\ AssignedGroup(0) = Len(groups) + 1 /\ Len(groups) \in Nat
      BY DEF Inv, MemoTypeOK, AssignedGroup
    <2>2. MemoTypeOK' /\ Filed' /\ EachExpressionOnce'
      BY <1>3, <2>1, InsertedOnce
    <2>3. \A i \in DOMAIN e.children : e.children[i] \in 1 .. AssignedGroup(0) - 1
      BY <2>1
    <2>4. \A m \in Entries : m.group # 0
      BY EntryType DEF Inv, GroupIds
    <2>5. MemoIsDag' /\ GroupsEquivalent'
      BY <1>3, <2>1, <2>3, <2>4, InsertedGraph
    <2> QED
      BY <2>2, <2>5 DEF Inv
  <1> QED
    BY <1>1, <1>2, <1>3, InsertCases

LEMMA ApplyRuleInv ==
  ASSUME Inv, NEW entry \in Entries, NEW rule \in Rules, ApplyRule(entry, rule)
  PROVE  Inv'
  <1>1. PICK e, g : e = Transform(rule, entry.expr) /\ g = entry.group
    OBVIOUS
  <1>2. Match(rule, entry.expr) /\ InsertExpression(e, g)
    BY <1>1 DEF ApplyRule
  <1>3. /\ entry.expr \in Expressions /\ g \in 1 .. Len(groups) /\ Len(groups) \in Nat
    BY <1>1, EntryType DEF Inv, GroupIds, MemoTypeOK
  <1>4. e \in Expressions
    BY <1>1, <1>2, <1>3, Transformed
  <1>5. CASE Known(e) /\ UNCHANGED <<groups, expr_map>>
    BY <1>5, KnownKept DEF Inv
  <1>6. CASE /\ ~Known(e) /\ (g = 0 => Len(groups) < MaxGroups)
             /\ Files(e, AssignedGroup(g)) /\ Puts(e, g)
    <2>1. g \in 0 .. Len(groups) /\ AssignedGroup(g) = g
      BY <1>3 DEF AssignedGroup
    <2>2. MemoTypeOK' /\ Filed' /\ EachExpressionOnce'
      BY <1>4, <1>6, <2>1, InsertedOnce
    <2>3. \A i \in DOMAIN e.children : e.children[i] \in 1 .. g - 1
      <3>1. /\ DOMAIN entry.expr.children = 1 .. 2
            /\ \A i \in 1 .. 2 : entry.expr.children[i] \in 1 .. g - 1
        BY <1>1, <1>2, <1>3, JoinParts DEF Inv, MemoIsDag, Match
      <3>2. CASE rule = "ToHashJoin"
        BY <1>1, <1>2, <1>3, <3>1, <3>2, Transformed
      <3>3. CASE rule = "JoinCommutativity"
        <4>1. e.children = <<entry.expr.children[2], entry.expr.children[1]>>
          BY <1>1, <1>2, <1>3, <3>3, Transformed
        <4>2. /\ DOMAIN e.children = 1 .. 2
              /\ e.children[1] = entry.expr.children[2] /\ e.children[2] = entry.expr.children[1]
          BY <4>1
        <4> QED
          BY <3>1, <4>2
      <3> QED
        BY <3>2, <3>3 DEF Rules
    <2>4. \A m \in Entries : m.group = g => Equivalent(m.expr, e) /\ Equivalent(e, m.expr)
      <3> SUFFICES ASSUME NEW m \in Entries, m.group = g
                   PROVE  Equivalent(m.expr, e) /\ Equivalent(e, m.expr)
        OBVIOUS
      <3>1. Equivalent(m.expr, entry.expr) /\ m.expr \in Expressions
        BY <1>1, EntryType DEF Inv, GroupsEquivalent
      <3> QED
        BY <1>1, <1>2, <1>3, <3>1, TransformEquivalent
    <2>5. MemoIsDag' /\ GroupsEquivalent'
      BY <1>4, <1>6, <2>1, <2>3, <2>4, InsertedGraph
    <2> QED
      BY <2>2, <2>5 DEF Inv
  <1> QED
    BY <1>2, <1>5, <1>6, InsertCases

LEMMA NextInv == Inv /\ [MemoNext]_memoVars => Inv'
  <1> SUFFICES ASSUME Inv, [MemoNext]_memoVars PROVE Inv'
    OBVIOUS
  <1>1. CASE \E op \in PlanOperators : \E children \in [1 .. Arity[op] -> GroupIds] :
               InsertPlan(GroupExpression(op, children))
    <2>1. PICK op \in PlanOperators : \E children \in [1 .. Arity[op] -> GroupIds] :
            InsertPlan(GroupExpression(op, children))
      BY <1>1
    <2>2. PICK children \in [1 .. Arity[op] -> GroupIds] : InsertPlan(GroupExpression(op, children))
      BY <2>1
    <2>3. PICK e : e = GroupExpression(op, children)
      OBVIOUS
    <2>4. e \in Expressions /\ \A i \in DOMAIN e.children : e.children[i] \in 1 .. Len(groups)
      BY <2>3, PlanExpression
    <2> QED
      BY <2>2, <2>3, <2>4, InsertPlanInv
  <1>2. CASE \E entry \in Entries, rule \in Rules : ApplyRule(entry, rule)
    BY <1>2, ApplyRuleInv
  <1>3. CASE UNCHANGED memoVars
    BY <1>3, KnownKept DEF memoVars, Inv
  <1> QED
    BY <1>1, <1>2, <1>3 DEF MemoNext
-----------------------------------------------------------------------------
(***************************************************************************)
(* The theorems.                                                           *)
(***************************************************************************)

\* InsertExpression, by plans and rules in any order and under any hash,
\* keeps the inductive invariant.
THEOREM Invariant == MemoSpec => []Inv
  BY InitInv, NextInv, PTL DEF MemoSpec

\* Every variable of the memo keeps its type: what the rules make are
\* expressions over groups that exist.
THEOREM TypeCorrect == MemoSpec => []MemoTypeOK
  <1>1. Inv => MemoTypeOK
    BY DEF Inv
  <1> QED
    BY <1>1, Invariant, PTL

\* De-duplication by hash_ never stores an expression twice, and expr_map_
\* and groups_ agree on where it is, whatever the hash collides on.
THEOREM StoredOnce == MemoSpec => []EachExpressionOnce
  <1>1. Inv => EachExpressionOnce
    BY DEF Inv
  <1> QED
    BY <1>1, Invariant, PTL

\* The children of an expression are groups older than its own, so the memo
\* is a directed acyclic graph.
THEOREM Acyclic == MemoSpec => []MemoIsDag
  <1>1. Inv => MemoIsDag
    BY DEF Inv
  <1> QED
    BY <1>1, Invariant, PTL

\* The expressions of a group compute the same result: the rules insert into
\* the group they explore, and a collision adds nothing to a group.
THEOREM SameResult == MemoSpec => []GroupsEquivalent
  <1>1. Inv => GroupsEquivalent
    BY DEF Inv
  <1> QED
    BY <1>1, Invariant, PTL

=============================================================================
