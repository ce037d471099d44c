------------------------------- MODULE MCParts -------------------------------
(***************************************************************************)
(* The parts of the server that share no state, in one model: the layout   *)
(* of a page, the transactions with their log and epochs, the searches of  *)
(* the indexes, the optimizer's memo, a query's arena and its batch of     *)
(* columns.  TLC lets each part run while the others are as they were      *)
(* made, instead of in every combination.                                  *)
(***************************************************************************)
EXTENDS SlottedPage, MCTransactions, BPlusTree, MCMemo, ArenaAllocator, ColumnBatch

\* Every size for which size + SLOT_SIZE fits a uint16_t, and one that does not
\* fit a uint16_t itself.  The sizes between are those of SlottedPage_wrap.cfg.
MCFittingSizes == (0 .. UINT16 - 1 - SLOT_SIZE) \cup {UINT16}
-----------------------------------------------------------------------------
vars == <<pageVars, txnSysVars, treeVars, memoVars, arenaVars, batchVars>>

Init == PageInit /\ TxnInit /\ TreeInit /\ MemoInit /\ ArenaInit /\ BatchInit

\* The parts as they were made.  Of an arena and of the trees' pages that can
\* be made in several ways, one stands for all while another part runs.
PageRests == PageInit /\ UNCHANGED pageVars
TxnRests == TxnInit /\ UNCHANGED txnSysVars
TreeRests == TreeInit /\ (\A p \in Pages : node_type[p] = "INVALID") /\ UNCHANGED treeVars
MemoRests == MemoInit /\ UNCHANGED memoVars
ArenaRests == ArenaInit /\ chunks[1] = (CHOOSE b \in BaseAddresses : TRUE) /\ UNCHANGED arenaVars
BatchRests == BatchInit /\ UNCHANGED batchVars

Next ==
  \/ TxnRests /\ TreeRests /\ MemoRests /\ ArenaRests /\ BatchRests /\ PageNext
  \/ PageRests /\ TreeRests /\ MemoRests /\ ArenaRests /\ BatchRests /\ TxnNext
  \/ PageRests /\ TxnRests /\ MemoRests /\ ArenaRests /\ BatchRests /\ TreeNext
  \/ PageRests /\ TxnRests /\ TreeRests /\ ArenaRests /\ BatchRests /\ MemoNext
  \/ PageRests /\ TxnRests /\ TreeRests /\ MemoRests /\ BatchRests /\ ArenaNext
  \/ PageRests /\ TxnRests /\ TreeRests /\ MemoRests /\ ArenaRests /\ BatchNext

\* A search that can go on does: nothing in FindLeafPage waits for others but
\* the pool's mutex and reader latches without writers.
Spec == Init /\ [][Next]_vars /\ \A t \in Callers : WF_treeVars(FindLeafPage(t))

=============================================================================
