------------------------------ MODULE Sessions ------------------------------
(***************************************************************************)
(* The statements of client connections: Connection's read handler, the    *)
(* Binder and CatalogManager, InsertExecutor and SeqScanExecutor.          *)
(*                                                                         *)
(* Handlers of different connections run at the same time on the threads   *)
(* of the io_context.  The buffer pool appears as the page store it        *)
(* implements (PageStore) and a transaction as one that begins and         *)
(* commits (Transactions); neither latches a page's contents, and nobody   *)
(* calls Page::WLock, so every access to TableInfo and to a page is a step *)
(* of its own.                                                             *)
(*                                                                         *)
(* A page is one array of cells that its header, its slots and its tuples  *)
(* share, so that stores made with a stale header may lay a tuple over     *)
(* slots and a slot over tuples.  A cell holds one field of the header or  *)
(* of a slot; a tuple is the TUPLE_SIZE zeros the code writes.  A tuple    *)
(* that starts in the middle of a field would clear only part of it; here  *)
(* it starts at a cell.                                                    *)
(***************************************************************************)
EXTENDS Integers, FiniteSets, Schema

CONSTANTS
  Connections,
  PAGE_SIZE,
  Columns,        \* lengths of the columns of 'users' (4 and 255 bytes)
  MaxStatements,  \* bound on the statements of a behaviour
  NoPage          \* INVALID_PAGE_ID

TUPLE_SIZE == TupleFixedLength(Columns)
LSN_OFFSET == 0
TUPLE_COUNT_OFFSET == 1
FREE_SPACE_OFFSET == 2
HEADER_SIZE == 3
SLOT_SIZE == 2
PageIds == 0 .. MaxStatements - 1
TxnIds == 1 .. MaxStatements
MaxSlots == (PAGE_SIZE - HEADER_SIZE - TUPLE_SIZE) \div SLOT_SIZE
Offsets == 0 .. PAGE_SIZE - 1

ASSUME SessionsAssumption ==
  /\ {TUPLE_SIZE, MaxStatements} \subseteq Nat \ {0}
  /\ PAGE_SIZE \in Nat /\ HEADER_SIZE + SLOT_SIZE + TUPLE_SIZE <= PAGE_SIZE
  /\ NoPage \notin PageIds /\ Columns \in Seq(Nat) /\ IsFiniteSet(Connections)

VARIABLES
  table_exists,   \* 'users' is in table_names_
  first_page_id,  \* TableInfo::first_page_id_
  next_page_id,   \* ids NewPage has handed out
  pages,          \* the cells of every page
  pins,           \* pin_count_ of every page
  next_lsn,       \* next_lsn_ of the LogManager
  issued,         \* statements begun so far; also the last TxnId
  active,         \* transactions in state ACTIVE
  session,        \* where the handler of each connection is
  inserted,       \* rows clients were told are inserted
  failed          \* transactions whose statement threw

vars == <<table_exists, first_page_id, next_page_id, pages, pins, next_lsn,
          issued, active, session, inserted, failed>>
tableVars == <<table_exists, first_page_id>>
storeVars == <<next_page_id, pages, pins>>
txnVars == <<next_lsn, issued, active>>
answerVars == <<inserted, failed>>

ZeroPage == [o \in Offsets |-> 0]

GetLSN(page) == page[LSN_OFFSET]
GetTupleCount(page) == page[TUPLE_COUNT_OFFSET]
GetFreeSpacePointer(page) == page[FREE_SPACE_OFFSET]
SlotOffset(slot_num) == HEADER_SIZE + slot_num * SLOT_SIZE

Reading == [pc |-> "read", stmt |-> "none", txn |-> 0, page |-> NoPage,
            tuple_count |-> 0, free_space |-> 0, lsn |-> 0, slot |-> 0]

Unaccepted == [Reading EXCEPT !.pc = "connect"]

PinnedAt == {"publish", "init", "insert", "space", "set_free", "copy", "set_slot", "set_count",
             "log", "set_lsn", "unpin", "scan"}

PageContents ==
  {page \in [Offsets -> Nat] :
     /\ GetTupleCount(page) \in 0 .. MaxSlots
     /\ GetFreeSpacePointer(page) \in 0 .. PAGE_SIZE
     /\ GetLSN(page) < next_lsn}

TypeOK ==
  /\ table_exists \in BOOLEAN
  /\ first_page_id \in PageIds \cup {NoPage}
  /\ next_page_id \in 0 .. MaxStatements
  /\ pages \in [PageIds -> PageContents]
  /\ pins \in [PageIds -> 0 .. Cardinality(Connections)]
  /\ next_lsn \in Nat \ {0}
  /\ issued \in 0 .. MaxStatements /\ active \subseteq TxnIds
  /\ session \in [Connections ->
       [pc : PinnedAt \cup {"connect", "read", "bind", "open", "locate",
                            "fetch", "commit", "answer", "closed"},
        stmt : {"none", "CREATE TABLE", "INSERT", "SELECT", "BEGIN", "other"},
        txn : TxnIds \cup {0}, page : PageIds \cup {NoPage},
        tuple_count : 0 .. MaxSlots, free_space : 0 .. PAGE_SIZE,
        lsn : 0 .. next_lsn - 1, slot : 0 .. MaxSlots]]
  /\ inserted \subseteq TxnIds /\ failed \subseteq TxnIds

Init ==
  /\ table_exists = FALSE
  /\ first_page_id = NoPage
  /\ next_page_id = 0
  /\ pages = [p \in PageIds |-> ZeroPage]
  /\ pins = [p \in PageIds |-> 0]
  /\ next_lsn = 1
  /\ issued = 0 /\ active = {}
  /\ session = [c \in Connections |-> Unaccepted]
  /\ inserted = {} /\ failed = {}

At(c, pc) == session[c].pc = pc
Goto(c, pc) == session' = [session EXCEPT ![c].pc = pc]
Page(c) == pages[session[c].page]
-----------------------------------------------------------------------------
(***************************************************************************)
(* The server accepts, and the read handler looks which statement it is.   *)
(***************************************************************************)
Accept(c) ==
  /\ At(c, "connect")
  /\ Goto(c, "read")
  /\ UNCHANGED <<tableVars, storeVars, txnVars, answerVars>>

\* A read that fails is not repeated: the last reference to the Connection
\* goes, and the socket with it.
ReadFails(c) ==
  /\ At(c, "read")
  /\ Goto(c, "closed")
  /\ UNCHANGED <<tableVars, storeVars, txnVars, answerVars>>

ReadUnsupported(c) ==
  /\ At(c, "read")
  /\ session' = [session EXCEPT ![c].pc = "answer", ![c].stmt = "other"]
  /\ UNCHANGED <<tableVars, storeVars, txnVars, answerVars>>

ReadCreate(c) ==
  /\ At(c, "read") /\ issued < MaxStatements
  /\ issued' = issued + 1
  /\ session' = [session EXCEPT ![c].pc = "bind", ![c].stmt = "CREATE TABLE"]
  /\ UNCHANGED <<tableVars, storeVars, next_lsn, active, answerVars>>

\* TransactionManager::Begin, whose BEGIN record takes an LSN.  A BEGIN
\* statement is answered at once and keeps no handle on its transaction.
BeginTxn(c, stmt) ==
  /\ At(c, "read") /\ issued < MaxStatements
  /\ issued' = issued + 1
  /\ active' = active \cup {issued'}
  /\ next_lsn' = next_lsn + 1
  /\ session' = [session EXCEPT ![c].stmt = stmt, ![c].txn = issued',
                                ![c].pc = IF stmt = "BEGIN" THEN "answer" ELSE "open"]
  /\ UNCHANGED <<tableVars, storeVars, answerVars>>

\* Binder::BindCreateTable and CatalogManager::CreateTable, which throws when
\* the table exists.
CreateTable(c) ==
  /\ At(c, "bind")
  /\ table_exists' = TRUE
  /\ first_page_id' = IF table_exists THEN first_page_id ELSE NoPage
  /\ Goto(c, "answer")
  /\ UNCHANGED <<storeVars, txnVars, answerVars>>

\* The executors' Init when GetTable finds nothing: the exception ends the
\* statement and nobody ends its transaction.
TableNotFound(c) ==
  /\ At(c, "open") /\ ~table_exists
  /\ failed' = failed \cup {session[c].txn}
  /\ Goto(c, "answer")
  /\ UNCHANGED <<tableVars, storeVars, txnVars, inserted>>

\* DoWriteAnswer; a failed write closes the socket.
Answer(c) ==
  /\ At(c, "answer")
  /\ session' = [session EXCEPT ![c] = Reading]
  /\ UNCHANGED <<tableVars, storeVars, txnVars, answerVars>>

AnswerFails(c) ==
  /\ At(c, "answer")
  /\ session' = [session EXCEPT ![c] = [Reading EXCEPT !.pc = "closed"]]
  /\ UNCHANGED <<tableVars, storeVars, txnVars, answerVars>>

\* TransactionManager::Commit, whose COMMIT record takes an LSN, and the
\* wording of the answer.
Mutant_StillActive(c) == active
Ended(c) == active \ {session[c].txn}

Commit(c) ==
  /\ At(c, "commit")
  /\ active' = Ended(c)
  /\ next_lsn' = next_lsn + 1
  /\ inserted' = IF session[c].stmt = "INSERT"
                 THEN inserted \cup {session[c].txn} ELSE inserted
  /\ Goto(c, "answer")
  /\ UNCHANGED <<tableVars, storeVars, issued, failed>>
-----------------------------------------------------------------------------
(***************************************************************************)
(* InsertExecutor.                                                         *)
(***************************************************************************)
FindTable(c) ==
  /\ At(c, "open") /\ table_exists /\ session[c].stmt = "INSERT"
  /\ session' = [session EXCEPT ![c].page = first_page_id,
                   ![c].pc = IF first_page_id = NoPage THEN "locate" ELSE "fetch"]
  /\ UNCHANGED <<tableVars, storeVars, txnVars, answerVars>>

\* bpm->NewPage and bpm->FetchPage throw when a read fails or the ring is
\* full: the statement ends, its page not pinned and its transaction left
\* active.
PoolThrows(c) ==
  /\ session[c].pc \in {"locate", "fetch"}
  /\ failed' = failed \cup {session[c].txn}
  /\ Goto(c, "answer")
  /\ UNCHANGED <<tableVars, storeVars, txnVars, inserted>>

\* bpm->NewPage
NewPage(c) ==
  /\ At(c, "locate")
  /\ next_page_id' = next_page_id + 1
  /\ pins' = [pins EXCEPT ![next_page_id] = 1]
  /\ session' = [session EXCEPT ![c].page = next_page_id, ![c].pc = "publish"]
  /\ UNCHANGED <<tableVars, pages, txnVars, answerVars>>

UpdateFirstPageId(c) ==
  /\ At(c, "publish")
  /\ first_page_id' = session[c].page
  /\ Goto(c, "init")
  /\ UNCHANGED <<table_exists, storeVars, txnVars, answerVars>>

\* SlottedPage::Init.  The page is zero until its last store.
InitPage(c) ==
  /\ At(c, "init")
  /\ pages' = [pages EXCEPT ![session[c].page] = [ZeroPage EXCEPT ![FREE_SPACE_OFFSET] = PAGE_SIZE]]
  /\ Goto(c, "insert")
  /\ UNCHANGED <<tableVars, next_page_id, pins, txnVars, answerVars>>

\* bpm->FetchPage
Mutant_NotPinned(c) ==
  /\ At(c, "fetch")
  /\ Goto(c, IF session[c].stmt = "INSERT" THEN "insert" ELSE "scan")
  /\ UNCHANGED <<tableVars, storeVars, txnVars, answerVars>>
FetchPage(c) ==
  /\ At(c, "fetch")
  /\ pins' = [pins EXCEPT ![session[c].page] = @ + 1]
  /\ Goto(c, IF session[c].stmt = "INSERT" THEN "insert" ELSE "scan")
  /\ UNCHANGED <<tableVars, next_page_id, pages, txnVars, answerVars>>

\* InsertTuple reads tuple_count, then the free space pointer; without room
\* it returns false and the loop over the rows breaks.
ReadTupleCount(c) ==
  /\ At(c, "insert")
  /\ session' = [session EXCEPT ![c].tuple_count = GetTupleCount(Page(c)), ![c].pc = "space"]
  /\ UNCHANGED <<tableVars, storeVars, txnVars, answerVars>>

EnoughSpace(free_space, tuple_count) ==
  free_space - SlotOffset(tuple_count) >= TUPLE_SIZE + SLOT_SIZE

ReadFreeSpacePointer(c) ==
  /\ At(c, "space")
  /\ \/ /\ EnoughSpace(GetFreeSpacePointer(Page(c)), session[c].tuple_count)
        /\ session' = [session EXCEPT ![c].free_space = GetFreeSpacePointer(Page(c)) - TUPLE_SIZE,
                                      ![c].pc = "set_free"]
     \/ /\ ~EnoughSpace(GetFreeSpacePointer(Page(c)), session[c].tuple_count)
        /\ Goto(c, "unpin")
  /\ UNCHANGED <<tableVars, storeVars, txnVars, answerVars>>

\* The stores of InsertTuple, in the order of the code.
Store(c, from, contents, to) ==
  /\ At(c, from)
  /\ pages' = [pages EXCEPT ![session[c].page] = contents]
  /\ Goto(c, to)
  /\ UNCHANGED <<tableVars, next_page_id, pins, txnVars, answerVars>>

SetFreeSpacePointer(c) ==
  Store(c, "set_free", [Page(c) EXCEPT ![FREE_SPACE_OFFSET] = session[c].free_space], "copy")

\* memcpy of the tuple, all zeros, over whatever is there.
TupleCells(c) == session[c].free_space .. session[c].free_space + TUPLE_SIZE - 1
CopyTuple(c) ==
  Store(c, "copy", [o \in Offsets |-> IF o \in TupleCells(c) THEN 0 ELSE Page(c)[o]], "set_slot")

\* The two memcpys of a slot: where the tuple is, and its size.
Mutant_TupleEnd(c) ==
  LET slot_offset == SlotOffset(session[c].tuple_count) IN
  Store(c, "set_slot",
        [Page(c) EXCEPT ![slot_offset] = session[c].free_space + TUPLE_SIZE,
                        ![slot_offset + 1] = TUPLE_SIZE],
        "set_count")
SetSlot(c) ==
  LET slot_offset == SlotOffset(session[c].tuple_count) IN
  Store(c, "set_slot",
        [Page(c) EXCEPT ![slot_offset] = session[c].free_space, ![slot_offset + 1] = TUPLE_SIZE],
        "set_count")

SetTupleCount(c) ==
  Store(c, "set_count", [Page(c) EXCEPT ![TUPLE_COUNT_OFFSET] = session[c].tuple_count + 1], "log")

LogInsert(c) ==
  /\ At(c, "log")
  /\ next_lsn' = next_lsn + 1
  /\ session' = [session EXCEPT ![c].lsn = next_lsn, ![c].pc = "set_lsn"]
  /\ UNCHANGED <<tableVars, storeVars, issued, active, answerVars>>

SetLSN(c) ==
  Store(c, "set_lsn", [Page(c) EXCEPT ![LSN_OFFSET] = session[c].lsn], "unpin")

UnpinPage(c) ==
  /\ At(c, "unpin")
  /\ pins' = [pins EXCEPT ![session[c].page] = @ - 1]
  /\ Goto(c, "commit")
  /\ UNCHANGED <<tableVars, next_page_id, pages, txnVars, answerVars>>
-----------------------------------------------------------------------------
(***************************************************************************)
(* SeqScanExecutor: Init, and Next until it returns false.                 *)
(***************************************************************************)
OpenScan(c) ==
  /\ At(c, "open") /\ table_exists /\ session[c].stmt = "SELECT"
  /\ session' = [session EXCEPT ![c].page = first_page_id, ![c].slot = 0,
                   ![c].pc = IF first_page_id = NoPage THEN "commit" ELSE "fetch"]
  /\ UNCHANGED <<tableVars, storeVars, txnVars, answerVars>>

\* The rest of Next, after FetchPage: another row counted, or the end.
Mutant_OneMore(c) == session[c].slot > GetTupleCount(Page(c))
PastLastSlot(c) == session[c].slot >= GetTupleCount(Page(c))
Mutant_SameSlot(c) == session[c].slot
NextSlot(c) == session[c].slot + 1
Mutant_PinKept(c) == pins
Unpinned(c) == [pins EXCEPT ![session[c].page] = @ - 1]

NextRow(c) ==
  /\ At(c, "scan") /\ ~PastLastSlot(c)
  /\ session' = [session EXCEPT ![c].slot = NextSlot(c), ![c].pc = "fetch"]
  /\ pins' = Unpinned(c)
  /\ UNCHANGED <<tableVars, next_page_id, pages, txnVars, answerVars>>

EndOfScan(c) ==
  /\ At(c, "scan") /\ PastLastSlot(c)
  /\ Goto(c, "commit")
  /\ pins' = Unpinned(c)
  /\ UNCHANGED <<tableVars, next_page_id, pages, txnVars, answerVars>>
-----------------------------------------------------------------------------
Statements(c) ==
  \/ Accept(c) \/ ReadFails(c) \/ ReadUnsupported(c)
  \/ ReadCreate(c) \/ \E stmt \in {"INSERT", "SELECT", "BEGIN"} : BeginTxn(c, stmt)

Insert(c) ==
  \/ FindTable(c) \/ NewPage(c) \/ UpdateFirstPageId(c) \/ InitPage(c)
  \/ ReadTupleCount(c) \/ ReadFreeSpacePointer(c) \/ SetFreeSpacePointer(c)
  \/ CopyTuple(c) \/ SetSlot(c) \/ SetTupleCount(c) \/ LogInsert(c) \/ SetLSN(c) \/ UnpinPage(c)

Select(c) == OpenScan(c) \/ NextRow(c) \/ EndOfScan(c)

\* What a handler does once it has read a statement.
Handle(c) ==
  \/ CreateTable(c) \/ TableNotFound(c) \/ PoolThrows(c) \/ Insert(c) \/ Select(c)
  \/ FetchPage(c) \/ Commit(c) \/ Answer(c) \/ AnswerFails(c)

Next == \E c \in Connections : Statements(c) \/ Handle(c)

Spec == Init /\ [][Next]_vars

\* A handler that has started runs on; clients need not send anything.
FairSpec == Spec /\ \A c \in Connections : WF_vars(Handle(c))
-----------------------------------------------------------------------------
(***************************************************************************)
(* Properties.                                                             *)
(***************************************************************************)
Quiet == \A c \in Connections : session[c].pc \in {"connect", "read", "closed"}

\* The rows a SELECT would count now.
VisibleRows == IF first_page_id = NoPage THEN 0 ELSE GetTupleCount(pages[first_page_id])

\* Every executor gives back the page it pinned, on each of its paths: a
\* page's pin count is the number of handlers at work on it.
PinsBalanced ==
  \A p \in PageIds :
    pins[p] = Cardinality({c \in Connections :
                session[c].page = p /\ session[c].pc \in PinnedAt})

\* A transaction is active while its statement runs; afterwards only those
\* of BEGIN statements and of statements that threw remain.
ActiveTransactions ==
  LET running == {session[c].txn : c \in
                    {d \in Connections : session[d].pc \notin {"connect", "read", "answer", "closed"}}}
  IN /\ running \ {0} \subseteq active
     /\ failed \subseteq active
     /\ inserted \cap active = {}
     /\ \A c \in Connections :
          At(c, "answer") /\ session[c].stmt = "SELECT"
            => session[c].txn \in failed \/ session[c].txn \notin active

InsertsBegun ==
  inserted \cup {session[c].txn : c \in {d \in Connections : session[d].stmt = "INSERT"}}

\* However inserts and scans of the same page interleave, a SELECT never
\* counts more rows than there are INSERTs done or under way.
ScanCountsRows ==
  \A c \in Connections : session[c].slot <= Cardinality(InsertsBegun)

\* GetTuple reads the offset of a slot and then its size while inserts lay
\* tuples over slots and slots over tuples: whatever it finds in a slot below
\* tuple_count, in whichever order, the tuple it copies lies inside the page.
TuplesReadable ==
  \A p \in PageIds : \A s \in 0 .. GetTupleCount(pages[p]) - 1 :
    /\ pages[p][SlotOffset(s)] + TUPLE_SIZE <= PAGE_SIZE
    /\ pages[p][SlotOffset(s) + 1] <= TUPLE_SIZE

\* Once there is nothing running, a SELECT counts as many rows as there are
\* INSERTs answered "Success: 1 row inserted".
InsertedRowsVisible == Quiet => VisibleRows = Cardinality(inserted)

\* Every statement is answered or its connection closed: a scan ends although
\* inserts go on, and no handler waits for another.
StatementsAnswered ==
  \A c \in Connections : At(c, "open") ~> session[c].pc \in {"read", "closed"}

=============================================================================
