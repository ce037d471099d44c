----------------------------- MODULE GroupHash -----------------------------
(***************************************************************************)
(* GroupExpression::ComputeHash.  A size_t is kept in two limbs of 24 bits *)
(* since TLC's integers have 32; an expression has at most two children,   *)
(* which leaves the 64-bit result below 2^40, so nothing is cut off.       *)
(* std::hash of an integer is the integer itself (libstdc++).              *)
(***************************************************************************)
EXTENDS Integers, Bitwise, SequencesExt

Limb == 2 ^ 24
OperatorType == [LOGICAL_GET |-> 0, LOGICAL_FILTER |-> 1, LOGICAL_JOIN |-> 2,
                 LOGICAL_AGGREGATION |-> 3, PHYSICAL_HASH_JOIN |-> 6]

Size(n) == [hi |-> n \div Limb, lo |-> n % Limb]
Golden == [hi |-> 158, lo |-> 3635641]   \* 0x9e3779b9
ShiftLeft6(h) == [hi |-> h.hi * 64 + (h.lo * 64) \div Limb, lo |-> (h.lo * 64) % Limb]
ShiftRight2(h) == [hi |-> h.hi \div 4, lo |-> h.lo \div 4 + (h.hi % 4) * (Limb \div 4)]
Plus(g, h) == [hi |-> g.hi + h.hi + (g.lo + h.lo) \div Limb, lo |-> (g.lo + h.lo) % Limb]
XorSize(g, h) == [hi |-> g.hi ^^ h.hi, lo |-> g.lo ^^ h.lo]

Mix(h, child) ==
  XorSize(h, Plus(Plus(Size(child), Golden), Plus(ShiftLeft6(h), ShiftRight2(h))))

ComputeHash(e) == FoldLeft(Mix, Size(OperatorType[e.op]), e.children)

=============================================================================
