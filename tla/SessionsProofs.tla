--------------------------- MODULE SessionsProofs ---------------------------
(***************************************************************************)
(* Proofs about Sessions, for every number of connections and statements   *)
(* and every size of pages and tuples.                                     *)
(***************************************************************************)
EXTENDS Sessions, FiniteSetTheorems, TLAPS
-----------------------------------------------------------------------------
(***************************************************************************)
(* Arithmetic of pages.                                                    *)
(***************************************************************************)
\* The sizes, as numbers.
LEMMA Sizes ==
  /\ HEADER_SIZE \in Nat \ {0} /\ SLOT_SIZE \in Nat \ {0} /\ TUPLE_SIZE \in Nat \ {0}
  /\ MaxStatements \in Nat \ {0} /\ PAGE_SIZE \in Nat
  /\ HEADER_SIZE + SLOT_SIZE + TUPLE_SIZE <= PAGE_SIZE
  BY SessionsAssumption DEF HEADER_SIZE, SLOT_SIZE

LEMMA Quotient ==
  ASSUME NEW x \in Nat, NEW a \in Nat \ {0}
  PROVE  x \div a \in Nat
  BY Z3

LEMMA QuotientBound ==
  ASSUME NEW x \in Nat, NEW a \in Nat \ {0}, NEW n \in Nat, n * a <= x
  PROVE  n <= x \div a
  BY Z3

LEMMA MaxSlotsNat == MaxSlots \in Nat
  <1>1. PICK x \in Nat : x = PAGE_SIZE - HEADER_SIZE - TUPLE_SIZE
    BY Sizes
  <1> QED
    BY <1>1, Quotient, Sizes DEF MaxSlots

\* Where InsertTuple finds room there is a slot to spare, and the tuple
\* starts inside the page.
LEMMA RoomForRow ==
  ASSUME NEW free_space \in 0 .. PAGE_SIZE, NEW tuple_count \in Nat, EnoughSpace(free_space, tuple_count)
  PROVE  /\ tuple_count + 1 <= MaxSlots
         /\ free_space - TUPLE_SIZE \in 0 .. PAGE_SIZE /\ free_space # 0
         /\ HEADER_SIZE <= free_space - TUPLE_SIZE /\ (free_space - TUPLE_SIZE) + TUPLE_SIZE <= PAGE_SIZE
  <1>1. PICK H \in Nat, S \in Nat \ {0}, T \in Nat \ {0}, P \in Nat :
          H = HEADER_SIZE /\ S = SLOT_SIZE /\ T = TUPLE_SIZE /\ P = PAGE_SIZE /\ H + S + T <= P
    BY Sizes
  <1>2. PICK m \in Nat : m = tuple_count * S
    OBVIOUS
  <1>3. free_space - (H + m) >= T + S
    BY <1>1, <1>2 DEF EnoughSpace, SlotOffset
  <1>4. (tuple_count + 1) * S = m + S
    BY <1>2, Z3
  <1>5. PICK x \in Nat : x = P - H - T
    BY <1>1
  <1>6. (tuple_count + 1) * S <= x
    BY <1>1, <1>3, <1>4, <1>5
  <1>7. tuple_count + 1 <= x \div S
    BY <1>6, QuotientBound
  <1> QED
    BY <1>1, <1>3, <1>5, <1>7 DEF MaxSlots
-----------------------------------------------------------------------------
(***************************************************************************)
(* The inductive invariant.                                                *)
(***************************************************************************)

\* Where a statement is inside InsertTuple: with a tuple_count of its own, with
\* room for its row as well, and on the way to a row that is there.
CountRead == {"space", "set_free", "copy", "set_slot", "set_count"}
RoomFound == {"set_free", "copy", "set_slot", "set_count"}
CountedAt == {"log", "set_lsn", "unpin", "commit"}
InsertAt == {"locate", "publish", "init", "insert", "log", "set_lsn", "unpin"} \cup CountRead

Working == PinnedAt \cup {"open", "locate", "fetch", "commit"}

PagesOut == 0 .. next_page_id - 1

\* What a handler has at hand, by where it is in its statement.
SessionOK(r) ==
  /\ r.pc \in {"connect", "read", "closed"} =>
       r.stmt = "none" /\ r.txn = 0 /\ r.page = NoPage /\ r.slot = 0 /\ r.tuple_count = 0
  /\ r.pc = "bind" => r.stmt = "CREATE TABLE" /\ r.txn = 0
  /\ r.pc \in InsertAt => r.stmt = "INSERT"
  /\ r.pc = "scan" => r.stmt = "SELECT"
  /\ r.pc \in {"open", "fetch", "commit"} => r.stmt \in {"INSERT", "SELECT"}
  /\ r.pc \in Working => r.txn # 0
  /\ r.pc \in PinnedAt \cup {"fetch"} => r.page # NoPage
  /\ r.page \in PagesOut \cup {NoPage}
  /\ r.txn <= issued
  /\ r.pc \in RoomFound =>
       /\ r.tuple_count + 1 <= MaxSlots
       /\ HEADER_SIZE <= r.free_space /\ r.free_space + TUPLE_SIZE <= PAGE_SIZE

\* Every slot there is room for holds what an insert stored in it, or zeros of
\* a tuple laid over it: nothing that leads out of the page.
SlotsInside(page) ==
  \A k \in 0 .. MaxSlots - 1 :
    /\ page[SlotOffset(k)] + TUPLE_SIZE <= PAGE_SIZE
    /\ page[SlotOffset(k) + 1] <= TUPLE_SIZE

PageType == {page \in PageContents : SlotsInside(page)}

Typed == TypeOK /\ pages \in [PageIds -> PageType]

\* A first page belongs to a table; pages not yet handed out are zero.
TableInv ==
  /\ first_page_id # NoPage => table_exists /\ first_page_id \in PagesOut
  /\ \A c \in Connections : session[c].pc \in {"locate", "publish"} => table_exists
  /\ \A p \in PageIds : p >= next_page_id => pages[p] = ZeroPage

\* Every page costs a statement of its own.
Requesting == {c \in Connections : session[c].pc \in {"open", "locate"}}
IssuedInv == next_page_id + Cardinality(Requesting) <= issued

\* Transactions are their statement's alone, and one at work on its table is
\* active.
TxnInv ==
  /\ inserted \cup failed \cup active \subseteq 1 .. issued
  /\ \A c, d \in Connections : c # d /\ session[c].txn # 0 => session[c].txn # session[d].txn
  /\ \A c \in Connections : session[c].pc \in Working =>
       session[c].txn \in active /\ session[c].txn \notin failed

\* A page that is published before it is initialised is zero until then, and
\* nobody else has found room in it.
LeavesFresh(r, p) ==
  r.page = p =>
    /\ r.pc \notin RoomFound \cup {"publish", "init", "log", "set_lsn"}
    /\ r.pc = "space" => r.tuple_count = 0

FreshInv ==
  \A c \in Connections : session[c].pc \in {"publish", "init"} =>
    /\ pages[session[c].page] = ZeroPage
    /\ \A d \in Connections \ {c} : LeavesFresh(session[d], session[c].page)

\* Rows whose INSERT is past the count it stores.
Doing(at) == {session[c].txn : c \in {d \in Connections : session[d].stmt = "INSERT" /\ session[d].pc \in at}}
Counted == inserted \cup Doing(CountedAt)

\* Every count of rows that anybody has read or stored is covered by inserts
\* that are past their own.
CountInv ==
  /\ \A p \in PageIds : GetTupleCount(pages[p]) <= Cardinality(Counted)
  /\ \A c \in Connections :
       session[c].tuple_count <= Cardinality(Counted) /\ session[c].slot <= Cardinality(Counted)


Inv ==
  /\ Typed /\ \A c \in Connections : SessionOK(session[c])
  /\ TableInv /\ IssuedInv /\ TxnInv /\ ActiveTransactions /\ PinsBalanced
  /\ FreshInv /\ CountInv
-----------------------------------------------------------------------------
(***************************************************************************)
(* The parts of a state and of a step.                                     *)
(***************************************************************************)
PCs == PinnedAt \cup {"connect", "read", "bind", "open", "locate", "fetch", "commit", "answer", "closed"}

SessionType ==
  [pc : PCs, stmt : {"none", "CREATE TABLE", "INSERT", "SELECT", "BEGIN", "other"},
   txn : TxnIds \cup {0}, page : PageIds \cup {NoPage},
   tuple_count : 0 .. MaxSlots, free_space : 0 .. PAGE_SIZE,
   lsn : 0 .. next_lsn - 1, slot : 0 .. MaxSlots]

\* The handler of c goes on to s; the others stay where they are.
Moved(c, s) == session' = [session EXCEPT ![c] = s]

LEMMA Types ==
  ASSUME Typed
  PROVE  /\ pages \in [PageIds -> PageType] /\ session \in [Connections -> SessionType]
         /\ pins \in [PageIds -> 0 .. Cardinality(Connections)]
         /\ first_page_id \in PageIds \cup {NoPage} /\ next_page_id \in 0 .. MaxStatements
         /\ next_lsn \in Nat \ {0} /\ issued \in 0 .. MaxStatements
         /\ active \subseteq TxnIds /\ inserted \subseteq TxnIds /\ failed \subseteq TxnIds
         /\ table_exists \in BOOLEAN
  BY DEF Typed, TypeOK, SessionType, PCs

LEMMA TypesNext ==
  ASSUME pages' \in [PageIds -> PageType'], session' \in [Connections -> SessionType'],
         pins' \in [PageIds -> 0 .. Cardinality(Connections)],
         first_page_id' \in PageIds \cup {NoPage}, next_page_id' \in 0 .. MaxStatements,
         next_lsn' \in Nat \ {0}, issued' \in 0 .. MaxStatements,
         active' \subseteq TxnIds, inserted' \subseteq TxnIds, failed' \subseteq TxnIds,
         table_exists' \in BOOLEAN
  PROVE  Typed'
  <1>1. pages' \in [PageIds -> PageContents']
    BY DEF PageType
  <1> QED
    BY <1>1 DEF Typed, TypeOK, SessionType, PCs

LEMMA Fields ==
  ASSUME Typed, NEW c \in Connections
  PROVE  /\ session[c].pc \in PCs /\ session[c].txn \in TxnIds \cup {0}
         /\ session[c].page \in PageIds \cup {NoPage}
         /\ session[c].tuple_count \in 0 .. MaxSlots /\ session[c].free_space \in 0 .. PAGE_SIZE
         /\ session[c].slot \in 0 .. MaxSlots
  BY Types DEF SessionType

LEMMA PageFields ==
  ASSUME Typed, NEW p \in PageIds
  PROVE  /\ GetTupleCount(pages[p]) \in 0 .. MaxSlots /\ GetFreeSpacePointer(pages[p]) \in 0 .. PAGE_SIZE
  BY Types DEF PageType, PageContents

\* Slots lie between the header and the last place of a tuple, two cells each.
LEMMA SlotCells ==
  ASSUME NEW k \in 0 .. MaxSlots - 1
  PROVE  /\ SlotOffset(k) = 3 + 2 * k /\ SlotOffset(k) + 1 \in Offsets /\ SlotOffset(k) \in Offsets
         /\ SlotOffset(k) \in Nat
  <1>1. PICK P \in Nat, T \in Nat \ {0} : P = PAGE_SIZE /\ T = TUPLE_SIZE /\ 3 + 2 + T <= P
    BY Sizes DEF HEADER_SIZE, SLOT_SIZE
  <1>2. PICK x \in Nat : x = P - 3 - T
    BY <1>1
  <1>3. MaxSlots = x \div 2
    BY <1>1, <1>2 DEF MaxSlots, HEADER_SIZE, SLOT_SIZE
  <1>4. 2 * (x \div 2) <= x /\ x \div 2 \in Nat
    BY Z3
  <1>5. k \in Nat /\ 2 * (k + 1) <= x
    BY <1>3, <1>4
  <1> QED
    BY <1>1, <1>2, <1>5 DEF SlotOffset, HEADER_SIZE, SLOT_SIZE, Offsets

LEMMA PageParts ==
  ASSUME NEW page
  PROVE  page \in PageType <=>
           /\ page \in [Offsets -> Nat] /\ SlotsInside(page)
           /\ page[1] \in 0 .. MaxSlots /\ page[2] \in 0 .. PAGE_SIZE /\ page[0] < next_lsn
  BY DEF PageType, PageContents, GetTupleCount, GetFreeSpacePointer, GetLSN,
         LSN_OFFSET, TUPLE_COUNT_OFFSET, FREE_SPACE_OFFSET

LEMMA HeaderCells == 0 \in Offsets /\ 1 \in Offsets /\ 2 \in Offsets
  BY Sizes DEF Offsets, HEADER_SIZE

LEMMA ZeroPageType ==
  ASSUME next_lsn \in Nat \ {0}
  PROVE  ZeroPage \in PageType /\ GetTupleCount(ZeroPage) = 0 /\ GetFreeSpacePointer(ZeroPage) = 0
  <1>1. ZeroPage \in [Offsets -> Nat] /\ \A o \in Offsets : ZeroPage[o] = 0
    BY DEF ZeroPage
  <1>2. SlotsInside(ZeroPage)
    <2> SUFFICES ASSUME NEW k \in 0 .. MaxSlots - 1
                 PROVE  /\ ZeroPage[SlotOffset(k)] + TUPLE_SIZE <= PAGE_SIZE
                        /\ ZeroPage[SlotOffset(k) + 1] <= TUPLE_SIZE
      BY DEF SlotsInside
    <2>1. ZeroPage[SlotOffset(k)] = 0 /\ ZeroPage[SlotOffset(k) + 1] = 0
      BY <1>1, SlotCells
    <2> QED
      BY <2>1, Sizes
  <1>3. 0 \in 0 .. MaxSlots /\ 0 \in 0 .. PAGE_SIZE /\ 0 < next_lsn
    BY MaxSlotsNat, Sizes
  <1> QED
    BY <1>1, <1>2, <1>3, HeaderCells, PageParts
       DEF GetTupleCount, GetFreeSpacePointer, TUPLE_COUNT_OFFSET, FREE_SPACE_OFFSET

\* A store into the header leaves the slots alone.
LEMMA HeaderStore ==
  ASSUME NEW page \in PageType, NEW o \in 0 .. HEADER_SIZE - 1, NEW v \in Nat,
         o = LSN_OFFSET => v < next_lsn, o = TUPLE_COUNT_OFFSET => v \in 0 .. MaxSlots,
         o = FREE_SPACE_OFFSET => v \in 0 .. PAGE_SIZE
  PROVE  /\ [page EXCEPT ![o] = v] \in PageType
         /\ o = TUPLE_COUNT_OFFSET => GetTupleCount([page EXCEPT ![o] = v]) = v
         /\ o # TUPLE_COUNT_OFFSET => GetTupleCount([page EXCEPT ![o] = v]) = GetTupleCount(page)
  <1>1. PICK q : q = [page EXCEPT ![o] = v]
    OBVIOUS
  <1>2. page \in [Offsets -> Nat] /\ SlotsInside(page) /\ page[1] \in 0 .. MaxSlots
        /\ page[2] \in 0 .. PAGE_SIZE /\ page[0] < next_lsn
    BY PageParts
  <1>3. o \in {0, 1, 2} /\ (o = 0 => v < next_lsn) /\ (o = 1 => v \in 0 .. MaxSlots) /\ (o = 2 => v \in 0 .. PAGE_SIZE)
    BY DEF HEADER_SIZE, LSN_OFFSET, TUPLE_COUNT_OFFSET, FREE_SPACE_OFFSET
  <1>4. q \in [Offsets -> Nat] /\ q[o] = v /\ \A x \in Offsets \ {o} : q[x] = page[x]
    BY <1>1, <1>2, <1>3, HeaderCells
  <1>5. SlotsInside(q)
    <2> SUFFICES ASSUME NEW k \in 0 .. MaxSlots - 1
                 PROVE  q[SlotOffset(k)] = page[SlotOffset(k)] /\ q[SlotOffset(k) + 1] = page[SlotOffset(k) + 1]
      BY <1>2 DEF SlotsInside
    <2>1. SlotOffset(k) \in Offsets \ {o} /\ SlotOffset(k) + 1 \in Offsets \ {o}
      BY <1>3, SlotCells
    <2> QED
      BY <1>4, <2>1
  <1>6. q[1] \in 0 .. MaxSlots /\ q[2] \in 0 .. PAGE_SIZE /\ q[0] < next_lsn
    BY <1>2, <1>3, <1>4, HeaderCells
  <1>7. (o = 1 => q[1] = v) /\ (o # 1 => q[1] = page[1])
    BY <1>4, HeaderCells
  <1> QED
    BY <1>1, <1>4, <1>5, <1>6, <1>7, PageParts DEF GetTupleCount, TUPLE_COUNT_OFFSET

\* A tuple laid over slots clears them and leaves the header alone.
LEMMA TupleStore ==
  ASSUME NEW page \in PageType, NEW f \in HEADER_SIZE .. PAGE_SIZE - TUPLE_SIZE, NEW q,
         q = [o \in Offsets |-> IF o \in f .. f + TUPLE_SIZE - 1 THEN 0 ELSE page[o]]
  PROVE  q \in PageType /\ GetTupleCount(q) = GetTupleCount(page)
  <1>1. page \in [Offsets -> Nat] /\ SlotsInside(page) /\ page[1] \in 0 .. MaxSlots
        /\ page[2] \in 0 .. PAGE_SIZE /\ page[0] < next_lsn
    BY PageParts
  <1>2. q \in [Offsets -> Nat] /\ \A o \in Offsets : q[o] = 0 \/ q[o] = page[o]
    BY <1>1
  <1>3. q[0] = page[0] /\ q[1] = page[1] /\ q[2] = page[2]
    <2>1. 0 \notin f .. f + TUPLE_SIZE - 1 /\ 1 \notin f .. f + TUPLE_SIZE - 1 /\ 2 \notin f .. f + TUPLE_SIZE - 1
      BY DEF HEADER_SIZE
    <2> QED
      BY <2>1, HeaderCells
  <1>4. SlotsInside(q)
    <2> SUFFICES ASSUME NEW k \in 0 .. MaxSlots - 1
                 PROVE  /\ q[SlotOffset(k)] + TUPLE_SIZE <= PAGE_SIZE
                        /\ q[SlotOffset(k) + 1] <= TUPLE_SIZE
      BY DEF SlotsInside
    <2>1. page[SlotOffset(k)] + TUPLE_SIZE <= PAGE_SIZE /\ page[SlotOffset(k) + 1] <= TUPLE_SIZE
      BY <1>1 DEF SlotsInside
    <2>2. /\ q[SlotOffset(k)] = 0 \/ q[SlotOffset(k)] = page[SlotOffset(k)]
          /\ q[SlotOffset(k) + 1] = 0 \/ q[SlotOffset(k) + 1] = page[SlotOffset(k) + 1]
      BY <1>2, SlotCells
    <2>3. 0 + TUPLE_SIZE <= PAGE_SIZE /\ 0 <= TUPLE_SIZE
      BY Sizes
    <2> QED
      BY <2>1, <2>2, <2>3
  <1> QED
    BY <1>1, <1>2, <1>3, <1>4, PageParts DEF GetTupleCount, TUPLE_COUNT_OFFSET

\* A slot is stored where no other slot is, after the header.
LEMMA SlotStore ==
  ASSUME NEW page \in PageType, NEW f \in HEADER_SIZE .. PAGE_SIZE - TUPLE_SIZE, NEW n \in 0 .. MaxSlots - 1, NEW q,
         q = [page EXCEPT ![SlotOffset(n)] = f, ![SlotOffset(n) + 1] = TUPLE_SIZE]
  PROVE  q \in PageType /\ GetTupleCount(q) = GetTupleCount(page)
  <1>1. page \in [Offsets -> Nat] /\ SlotsInside(page) /\ page[1] \in 0 .. MaxSlots
        /\ page[2] \in 0 .. PAGE_SIZE /\ page[0] < next_lsn
    BY PageParts
  <1>2. PICK a \in Nat, T \in Nat, P \in Nat :
          /\ a = SlotOffset(n) /\ a = 3 + 2 * n /\ a \in Offsets /\ a + 1 \in Offsets
          /\ T = TUPLE_SIZE /\ P = PAGE_SIZE /\ f \in Nat /\ f + T <= P
    BY SlotCells, Sizes
  <1>3. /\ q \in [Offsets -> Nat] /\ q[a] = f /\ q[a + 1] = T
        /\ \A o \in Offsets \ {a, a + 1} : q[o] = page[o]
    <2>1. q = [page EXCEPT ![a] = f, ![a + 1] = T] /\ a # a + 1
      BY <1>2
    <2> QED
      BY <1>1, <1>2, <2>1
  <1>4. q[0] = page[0] /\ q[1] = page[1] /\ q[2] = page[2]
    BY <1>2, <1>3, HeaderCells
  <1>5. SlotsInside(q)
    <2> SUFFICES ASSUME NEW k \in 0 .. MaxSlots - 1
                 PROVE  /\ q[SlotOffset(k)] + TUPLE_SIZE <= PAGE_SIZE
                        /\ q[SlotOffset(k) + 1] <= TUPLE_SIZE
      BY DEF SlotsInside
    <2>1. CASE k = n
      <3>1. q[SlotOffset(k)] = f /\ q[SlotOffset(k) + 1] = TUPLE_SIZE
        BY <1>2, <1>3, <2>1
      <3>2. f + TUPLE_SIZE <= PAGE_SIZE /\ TUPLE_SIZE <= TUPLE_SIZE
        BY <1>2
      <3> QED
        BY <3>1, <3>2
    <2>2. CASE k # n
      <3>1. SlotOffset(k) \in Offsets \ {a, a + 1} /\ SlotOffset(k) + 1 \in Offsets \ {a, a + 1}
        BY <1>2, <2>2, SlotCells
      <3>2. q[SlotOffset(k)] = page[SlotOffset(k)] /\ q[SlotOffset(k) + 1] = page[SlotOffset(k) + 1]
        BY <1>3, <3>1
      <3> QED
        BY <1>1, <3>2 DEF SlotsInside
    <2> QED
      BY <2>1, <2>2
  <1> QED
    BY <1>1, <1>3, <1>4, <1>5, PageParts DEF GetTupleCount, TUPLE_COUNT_OFFSET

\* LSNs only grow, so what was typed stays so.
LEMMA LsnGrows ==
  ASSUME Typed, next_lsn' \in {next_lsn, next_lsn + 1}
  PROVE  /\ \A r \in SessionType : r \in SessionType'
         /\ \A r \in PageType : r \in PageType'
         /\ pages \in [PageIds -> PageType']
  <1>1. \A n \in 0 .. next_lsn - 1 : n \in 0 .. next_lsn' - 1
    <2>1. next_lsn \in Nat /\ (next_lsn' = next_lsn \/ next_lsn' = next_lsn + 1)
      BY Types
    <2>2. CASE next_lsn' = next_lsn
      BY <2>2
    <2>3. CASE next_lsn' = next_lsn + 1
      BY <2>1, <2>3
    <2> QED
      BY <2>1, <2>2, <2>3
  <1>2. \A r \in SessionType : r \in SessionType'
    BY <1>1 DEF SessionType
  <1>3. \A r \in PageType : r \in PageType'
    <2> SUFFICES ASSUME NEW r \in PageType PROVE r \in PageType'
      OBVIOUS
    <2>1. r \in PageContents /\ SlotsInside(r) /\ r[0] < next_lsn /\ r[0] \in Nat
      BY PageParts, HeaderCells DEF PageType
    <2>2. r[0] < next_lsn'
      <3>1. next_lsn \in Nat /\ (next_lsn' = next_lsn \/ next_lsn' = next_lsn + 1)
        BY Types
      <3>2. CASE next_lsn' = next_lsn
        BY <2>1, <3>2
      <3>3. CASE next_lsn' = next_lsn + 1
        BY <2>1, <3>1, <3>3
      <3> QED
        BY <3>1, <3>2, <3>3
    <2> QED
      BY <2>1, <2>2 DEF PageType, PageContents, GetLSN, LSN_OFFSET
  <1> QED
    <2>1. pages \in [PageIds -> PageType]
      BY Types
    <2> QED
      BY <1>2, <1>3, <2>1

LEMMA MovedAt ==
  ASSUME Typed, NEW c \in Connections, NEW s, Moved(c, s)
  PROVE  session'[c] = s /\ \A d \in Connections \ {c} : session'[d] = session[d]
  BY Types DEF Moved

LEMMA MovedType ==
  ASSUME Typed, next_lsn' \in {next_lsn, next_lsn + 1},
         NEW c \in Connections, NEW s \in SessionType', Moved(c, s)
  PROVE  session' \in [Connections -> SessionType']
  BY Types, LsnGrows DEF Moved
-----------------------------------------------------------------------------
(***************************************************************************)
(* What a step has to respect, one conjunct of the invariant at a time.    *)
(***************************************************************************)
LEMMA TxnIssued ==
  ASSUME Typed, NEW d \in Connections, SessionOK(session[d])
  PROVE  session[d].txn \in Nat /\ session[d].txn <= issued /\ issued \in Nat
  <1>1. session[d].txn \in TxnIds \cup {0}
    BY Fields
  <1>2. session[d].txn <= issued
    BY DEF SessionOK
  <1>3. issued \in Nat
    BY Types, Sizes
  <1> QED
    BY <1>1, <1>2, <1>3, Sizes DEF TxnIds

LEMMA SessionsKept ==
  ASSUME Typed, \A d \in Connections : SessionOK(session[d]),
         NEW c \in Connections, NEW s, Moved(c, s), SessionOK(s)',
         next_page_id' \in {next_page_id, next_page_id + 1}, issued' \in {issued, issued + 1}
  PROVE  (\A d \in Connections : SessionOK(session[d]))'
  <1> SUFFICES ASSUME NEW d \in Connections PROVE SessionOK(session[d])'
    OBVIOUS
  <1>1. CASE d = c
    <2>1. session'[d] = s
      BY <1>1, MovedAt
    <2> QED
      BY <2>1 DEF SessionOK, PagesOut
  <1>2. CASE d # c
    <2>1. session'[d] = session[d]
      BY <1>2, MovedAt
    <2>2. issued \in Nat /\ next_page_id \in Nat
      BY Types, Sizes
    <2>3. \A p \in PagesOut : p \in PagesOut'
      <3>1. next_page_id' = next_page_id \/ next_page_id' = next_page_id + 1
        OBVIOUS
      <3>2. CASE next_page_id' = next_page_id
        BY <3>2 DEF PagesOut
      <3>3. CASE next_page_id' = next_page_id + 1
        BY <2>2, <3>3 DEF PagesOut
      <3> QED
        BY <3>1, <3>2, <3>3
    <2>4. session[d].txn <= issued'
      <3>1. issued' = issued \/ issued' = issued + 1
        OBVIOUS
      <3>2. session[d].txn \in Nat /\ session[d].txn <= issued
        BY TxnIssued
      <3>3. PICK t \in Nat : t = session[d].txn
        BY <3>2
      <3>4. t <= issued /\ t <= issued + 1
        BY <2>2, <3>2, <3>3
      <3>5. t <= issued'
        BY <3>1, <3>4
      <3> QED
        BY <3>3, <3>5
    <2>5. SessionOK(session[d])
      OBVIOUS
    <2>6. session[d].page \in PagesOut' \cup {NoPage}
      BY <2>3, <2>5 DEF SessionOK
    <2> QED
      BY <2>1, <2>4, <2>5, <2>6 DEF SessionOK
  <1> QED
    BY <1>1, <1>2

\* Handlers at work on a page.
On(r, p) == r.page = p /\ r.pc \in PinnedAt

LEMMA PinsStep ==
  ASSUME Typed, PinsBalanced, NEW c \in Connections, NEW s, Moved(c, s),
         pins' \in [PageIds -> Int],
         \A p \in PageIds :
           /\ On(s, p) /\ ~On(session[c], p) => pins'[p] = pins[p] + 1
           /\ ~On(s, p) /\ On(session[c], p) => pins'[p] = pins[p] - 1
           /\ (On(s, p) <=> On(session[c], p)) => pins'[p] = pins[p]
  PROVE  PinsBalanced' /\ pins' \in [PageIds -> 0 .. Cardinality(Connections)]
  <1>1. ASSUME NEW p \in PageIds
        PROVE  /\ pins'[p] = Cardinality({d \in Connections : On(session'[d], p)})
               /\ pins'[p] \in 0 .. Cardinality(Connections)
    <2>1. PICK W : W = {d \in Connections \ {c} : On(session[d], p)}
      OBVIOUS
    <2>2. PICK A : A = {d \in Connections : On(session[d], p)}
      OBVIOUS
    <2>3. PICK B : B = {d \in Connections : On(session'[d], p)}
      OBVIOUS
    <2>4. A = IF On(session[c], p) THEN W \cup {c} ELSE W
      BY <2>1, <2>2
    <2>5. B = IF On(s, p) THEN W \cup {c} ELSE W
      <3>1. session'[c] = s /\ \A d \in Connections \ {c} : session'[d] = session[d]
        BY MovedAt
      <3> QED
        BY <2>1, <2>3, <3>1
    <2>6. IsFiniteSet(W) /\ c \notin W
      <3>1. W \in SUBSET Connections /\ c \notin W
        BY <2>1
      <3> QED
        BY <3>1, FS_Subset, SessionsAssumption
    <2>7. Cardinality(W) \in Nat /\ Cardinality(W \cup {c}) = Cardinality(W) + 1
      BY <2>6, FS_CardinalityType, FS_AddElement
    <2>8. pins[p] = Cardinality(A)
      BY <2>2 DEF PinsBalanced, On
    <2>9. pins'[p] = Cardinality(B)
      BY <2>4, <2>5, <2>7, <2>8
    <2>10. Cardinality(B) \in 0 .. Cardinality(Connections)
      <3>1. B \in SUBSET Connections
        BY <2>3
      <3> QED
        BY <3>1, FS_Subset, FS_CardinalityType, SessionsAssumption
    <2> QED
      BY <2>3, <2>9, <2>10
  <1>2. PinsBalanced'
    BY <1>1 DEF PinsBalanced, On
  <1>3. pins' \in [PageIds -> 0 .. Cardinality(Connections)]
    BY <1>1
  <1> QED
    BY <1>2, <1>3

LEMMA PinsKept ==
  ASSUME Typed, PinsBalanced, NEW c \in Connections, NEW s, Moved(c, s), pins' = pins,
         s.pc \in PinnedAt <=> session[c].pc \in PinnedAt,
         s.pc \in PinnedAt => s.page = session[c].page
  PROVE  PinsBalanced' /\ pins' \in [PageIds -> 0 .. Cardinality(Connections)]
  <1>1. \A p \in PageIds : On(s, p) <=> On(session[c], p)
    BY DEF On
  <1>2. pins' \in [PageIds -> Int]
    BY Types
  <1> QED
    BY <1>1, <1>2, PinsStep

LEMMA PinTaken ==
  ASSUME Typed, PinsBalanced, NEW c \in Connections, NEW s, Moved(c, s),
         s.pc \in PinnedAt, session[c].pc \notin PinnedAt, s.page \in PageIds,
         pins' = [pins EXCEPT ![s.page] = @ + 1]
  PROVE  PinsBalanced' /\ pins' \in [PageIds -> 0 .. Cardinality(Connections)]
  <1>0. pins \in [PageIds -> Int]
    BY Types
  <1>1. pins' \in [PageIds -> Int] /\ pins'[s.page] = pins[s.page] + 1
        /\ \A p \in PageIds \ {s.page} : pins'[p] = pins[p]
    BY <1>0
  <1>2. \A p \in PageIds : ~On(session[c], p) /\ (On(s, p) <=> p = s.page)
    BY DEF On
  <1> QED
    BY <1>1, <1>2, PinsStep

LEMMA PinGiven ==
  ASSUME Typed, PinsBalanced, NEW c \in Connections, NEW s, Moved(c, s),
         s.pc \notin PinnedAt, session[c].pc \in PinnedAt, session[c].page \in PageIds,
         pins' = [pins EXCEPT ![session[c].page] = @ - 1]
  PROVE  PinsBalanced' /\ pins' \in [PageIds -> 0 .. Cardinality(Connections)]
  <1>0. pins \in [PageIds -> Int]
    BY Types
  <1>1. pins' \in [PageIds -> Int] /\ pins'[session[c].page] = pins[session[c].page] - 1
        /\ \A p \in PageIds \ {session[c].page} : pins'[p] = pins[p]
    BY <1>0
  <1>2. \A p \in PageIds : ~On(s, p) /\ (On(session[c], p) <=> p = session[c].page)
    BY DEF On
  <1> QED
    BY <1>1, <1>2, PinsStep

\* Statements that ask for a page: none more, or one more for a new statement,
\* or one less for a new page.
LEMMA RequestsStep ==
  ASSUME Typed, IssuedInv, NEW c \in Connections, NEW s, Moved(c, s),
         \/ /\ next_page_id' = next_page_id /\ issued' \in {issued, issued + 1}
            /\ s.pc \in {"open", "locate"} => session[c].pc \in {"open", "locate"}
         \/ next_page_id' = next_page_id /\ issued' = issued + 1
         \/ /\ next_page_id' = next_page_id + 1 /\ issued' = issued
            /\ session[c].pc = "locate" /\ s.pc \notin {"open", "locate"}
  PROVE  IssuedInv'
  <1>1. PICK A, B : A = Requesting /\ B = Requesting'
    OBVIOUS
  <1>2. session'[c] = s /\ \A d \in Connections \ {c} : session'[d] = session[d]
    BY MovedAt
  <1>3. IsFiniteSet(A) /\ Cardinality(A) \in Nat
    <2>1. A \in SUBSET Connections
      BY <1>1 DEF Requesting
    <2> QED
      BY <2>1, FS_Subset, FS_CardinalityType, SessionsAssumption
  <1>4. issued \in Nat /\ next_page_id \in Nat
    BY Types, Sizes
  <1>5. next_page_id + Cardinality(A) <= issued
    BY <1>1 DEF IssuedInv
  <1>6. CASE /\ next_page_id' = next_page_id /\ issued' \in {issued, issued + 1}
             /\ s.pc \in {"open", "locate"} => session[c].pc \in {"open", "locate"}
    <2>1. B \in SUBSET A
      BY <1>1, <1>2, <1>6 DEF Requesting
    <2>2. Cardinality(B) \in Nat /\ Cardinality(B) <= Cardinality(A)
      BY <1>3, <2>1, FS_Subset, FS_CardinalityType
    <2>3. next_page_id + Cardinality(B) <= issued /\ next_page_id + Cardinality(B) <= issued + 1
      BY <1>3, <1>4, <1>5, <2>2
    <2>4. issued' = issued \/ issued' = issued + 1
      BY <1>6
    <2> QED
      BY <1>1, <1>6, <2>3, <2>4 DEF IssuedInv
  <1>7. CASE next_page_id' = next_page_id /\ issued' = issued + 1
    <2>1. B \in SUBSET (A \cup {c})
      BY <1>1, <1>2 DEF Requesting
    <2>2. IsFiniteSet(A \cup {c}) /\ Cardinality(A \cup {c}) <= Cardinality(A) + 1 /\ Cardinality(A \cup {c}) \in Nat
      <3>1. /\ IsFiniteSet(A \cup {c})
            /\ Cardinality(A \cup {c}) = IF c \in A THEN Cardinality(A) ELSE Cardinality(A) + 1
        BY <1>3, FS_AddElement
      <3> QED
        BY <1>3, <3>1
    <2>3. Cardinality(B) \in Nat /\ Cardinality(B) <= Cardinality(A \cup {c})
      BY <2>1, <2>2, FS_Subset, FS_CardinalityType
    <2>4. next_page_id + Cardinality(B) <= issued + 1
      BY <1>3, <1>4, <1>5, <2>2, <2>3
    <2> QED
      BY <1>1, <1>7, <2>4 DEF IssuedInv
  <1>8. CASE /\ next_page_id' = next_page_id + 1 /\ issued' = issued
             /\ session[c].pc = "locate" /\ s.pc \notin {"open", "locate"}
    <2>1. B = A \ {c} /\ c \in A
      BY <1>1, <1>2, <1>8 DEF Requesting
    <2>2. Cardinality(B) = Cardinality(A) - 1
      BY <1>3, <2>1, FS_RemoveElement
    <2>3. (next_page_id + 1) + Cardinality(B) <= issued
      BY <1>3, <1>4, <1>5, <2>2
    <2> QED
      BY <1>1, <1>8, <2>3 DEF IssuedInv
  <1> QED
    BY <1>6, <1>7, <1>8

\* A step that leaves the transactions of the other handlers as they are.
LEMMA TxnsStep ==
  ASSUME Typed, \A d \in Connections : SessionOK(session[d]), TxnInv, ActiveTransactions,
         NEW c \in Connections, NEW s, Moved(c, s),
         inserted' \cup failed' \cup active' \subseteq 1 .. issued',
         failed' \subseteq active', inserted' \cap active' = {},
         s.txn \in {0, session[c].txn} \/ s.txn = issued + 1,
         \A d \in Connections \ {c} :
           /\ session[d].txn \in active <=> session[d].txn \in active'
           /\ session[d].txn \in failed <=> session[d].txn \in failed',
         s.pc \in PCs, s.pc \in Working => s.txn \in active' /\ s.txn \notin failed',
         s.pc = "bind" => s.txn = 0,
         s.pc = "answer" /\ s.stmt = "SELECT" => s.txn \in failed' \/ s.txn \notin active'
  PROVE  TxnInv' /\ ActiveTransactions'
  <1>1. session'[c] = s /\ \A d \in Connections \ {c} : session'[d] = session[d]
    BY MovedAt
  <1>2. \A d \in Connections : session[d].txn # issued + 1
    <2> SUFFICES ASSUME NEW d \in Connections PROVE session[d].txn # issued + 1
      OBVIOUS
    <2>1. session[d].txn \in Nat /\ session[d].txn <= issued /\ issued \in Nat
      BY TxnIssued
    <2> QED
      BY <2>1
  <1>3. \A a, b \in Connections : a # b /\ session'[a].txn # 0 => session'[a].txn # session'[b].txn
    <2>1. \A a, b \in Connections : a # b /\ session[a].txn # 0 => session[a].txn # session[b].txn
      BY DEF TxnInv
    <2>2. \A d \in Connections \ {c} : s.txn # 0 => s.txn # session[d].txn
      BY <1>2, <2>1
    <2> QED
      BY <1>1, <2>1, <2>2
  <1>4. \A d \in Connections : session'[d].pc \in Working =>
          session'[d].txn \in active' /\ session'[d].txn \notin failed'
    <2>1. \A d \in Connections : session[d].pc \in Working =>
            session[d].txn \in active /\ session[d].txn \notin failed
      BY DEF TxnInv
    <2> QED
      BY <1>1, <2>1
  <1>5. \A d \in Connections : session'[d].pc = "bind" => session'[d].txn = 0
    <2>1. \A d \in Connections : session[d].pc = "bind" => session[d].txn = 0
      BY DEF SessionOK
    <2> QED
      BY <1>1, <2>1
  <1>6. \A d \in Connections : session'[d].pc = "answer" /\ session'[d].stmt = "SELECT"
          => session'[d].txn \in failed' \/ session'[d].txn \notin active'
    <2>1. \A d \in Connections : session[d].pc = "answer" /\ session[d].stmt = "SELECT"
            => session[d].txn \in failed \/ session[d].txn \notin active
      BY DEF ActiveTransactions, At
    <2> QED
      BY <1>1, <2>1
  <1>7. \A d \in Connections : session'[d].pc \in PCs
    BY <1>1, Fields
  <1>8. \A d \in Connections : session'[d].pc \notin {"connect", "read", "answer", "closed"}
          => session'[d].txn \in active' \cup {0}
    BY <1>4, <1>5, <1>7 DEF PCs, Working
  <1>9. TxnInv'
    BY <1>3, <1>4 DEF TxnInv
  <1> QED
    BY <1>6, <1>8, <1>9 DEF ActiveTransactions, At

\* A step that leaves all transactions as they are.
LEMMA TxnsKept ==
  ASSUME Typed, \A d \in Connections : SessionOK(session[d]), TxnInv, ActiveTransactions,
         NEW c \in Connections, NEW s, Moved(c, s),
         issued' \in {issued, issued + 1}, active' = active, inserted' = inserted, failed' = failed,
         s.pc \in PCs, s.txn \in {0, session[c].txn},
         s.pc \in Working => session[c].pc \in Working /\ s.txn = session[c].txn,
         s.pc = "bind" => s.txn = 0,
         s.pc = "answer" => s.stmt # "SELECT"
  PROVE  TxnInv' /\ ActiveTransactions'
  <1>1. inserted \cup failed \cup active \subseteq 1 .. issued
    BY DEF TxnInv
  <1>2. inserted' \cup failed' \cup active' \subseteq 1 .. issued'
    <2>1. issued \in Nat /\ (issued' = issued \/ issued' = issued + 1)
      BY Types, Sizes
    <2>2. 1 .. issued \subseteq 1 .. issued'
      <3>1. CASE issued' = issued
        BY <3>1
      <3>2. CASE issued' = issued + 1
        BY <2>1, <3>2
      <3> QED
        BY <2>1, <3>1, <3>2
    <2> QED
      BY <1>1, <2>2, Zenon
  <1>3. failed' \subseteq active' /\ inserted' \cap active' = {}
    BY DEF ActiveTransactions
  <1>4. session[c].pc \in Working => session[c].txn \in active /\ session[c].txn \notin failed
    BY DEF TxnInv
  <1> QED
    BY <1>2, <1>3, <1>4, TxnsStep

\* An insert that is past a point stays so until its row is inserted.
LEMMA DoingGrows ==
  ASSUME Typed, NEW c \in Connections, NEW s, Moved(c, s), NEW at, inserted \subseteq inserted',
         session[c].stmt = "INSERT" /\ session[c].pc \in at =>
           session[c].txn \in inserted' \/ (s.stmt = "INSERT" /\ s.pc \in at /\ s.txn = session[c].txn)
  PROVE  inserted \cup Doing(at) \subseteq (inserted \cup Doing(at))'
  <1>1. session'[c] = s /\ \A d \in Connections \ {c} : session'[d] = session[d]
    BY MovedAt
  <1>2. ASSUME NEW t \in Doing(at) PROVE t \in inserted' \cup Doing(at)'
    <2>1. PICK d \in Connections : session[d].stmt = "INSERT" /\ session[d].pc \in at /\ t = session[d].txn
      BY DEF Doing
    <2>2. CASE d = c
      BY <1>1, <2>1, <2>2 DEF Doing
    <2>3. CASE d # c
      BY <1>1, <2>1, <2>3 DEF Doing
    <2> QED
      BY <2>2, <2>3
  <1> QED
    BY <1>2

LEMMA CountedTypes ==
  ASSUME Typed
  PROVE  IsFiniteSet(Counted) /\ Cardinality(Counted) \in Nat
  <1>1. Counted \subseteq 0 .. MaxStatements
    <2>1. \A t \in TxnIds \cup {0} : t \in 0 .. MaxStatements
      BY Sizes DEF TxnIds
    <2>2. \A d \in Connections : session[d].txn \in TxnIds \cup {0}
      BY Fields
    <2>3. inserted \subseteq TxnIds
      BY Types
    <2> QED
      BY <2>1, <2>2, <2>3 DEF Counted, Doing
  <1>2. IsFiniteSet(0 .. MaxStatements)
    BY FS_Interval, Sizes
  <1>3. PICK C, D : C = Counted /\ D = 0 .. MaxStatements
    OBVIOUS
  <1>4. C \in SUBSET D
    BY <1>1, <1>3
  <1>5. IsFiniteSet(C) /\ Cardinality(C) \in Nat
    BY <1>2, <1>3, <1>4, FS_Subset, FS_CardinalityType
  <1> QED
    BY <1>3, <1>5

\* What the types give in the state after a step.
LEMMA CountedTypesNext ==
  ASSUME inserted' \subseteq TxnIds, session' \in [Connections -> SessionType']
  PROVE  IsFiniteSet(Counted') /\ Cardinality(Counted') \in Nat
  <1>1. Counted' \subseteq 0 .. MaxStatements
    <2>1. \A t \in TxnIds \cup {0} : t \in 0 .. MaxStatements
      BY Sizes DEF TxnIds
    <2>2. \A d \in Connections : session'[d].txn \in TxnIds \cup {0}
      BY DEF SessionType
    <2> QED
      BY <2>1, <2>2 DEF Counted, Doing
  <1>2. IsFiniteSet(0 .. MaxStatements)
    BY FS_Interval, Sizes
  <1>3. PICK C, D : C = Counted' /\ D = 0 .. MaxStatements
    OBVIOUS
  <1>4. C \in SUBSET D
    BY <1>1, <1>3
  <1>5. IsFiniteSet(C) /\ Cardinality(C) \in Nat
    BY <1>2, <1>3, <1>4, FS_Subset, FS_CardinalityType
  <1> QED
    BY <1>3, <1>5

LEMMA CountedGrows ==
  ASSUME Typed, inserted' \subseteq TxnIds, session' \in [Connections -> SessionType'],
         Counted \subseteq Counted'
  PROVE  \E m, n \in Nat : m = Cardinality(Counted) /\ n = Cardinality(Counted') /\ m <= n
  <1>1. PICK C, D : C = Counted /\ D = Counted'
    OBVIOUS
  <1>2. IsFiniteSet(D) /\ Cardinality(D) \in Nat
    BY <1>1, CountedTypesNext
  <1>3. Cardinality(C) \in Nat
    BY <1>1, CountedTypes
  <1>4. C \in SUBSET D
    BY <1>1
  <1>5. Cardinality(C) <= Cardinality(D)
    BY <1>2, <1>4, FS_Subset
  <1> QED
    BY <1>1, <1>2, <1>3, <1>5

LEMMA CountStep ==
  ASSUME Typed, CountInv, NEW c \in Connections, NEW s \in SessionType', Moved(c, s),
         inserted' \subseteq TxnIds, session' \in [Connections -> SessionType'], Counted \subseteq Counted',
         \A p \in PageIds : GetTupleCount(pages'[p]) = GetTupleCount(pages[p])
                            \/ GetTupleCount(pages'[p]) <= Cardinality(Counted'),
         s.tuple_count <= Cardinality(Counted), s.slot <= Cardinality(Counted)
  PROVE  CountInv'
  <1>1. PICK m \in Nat, n \in Nat : m = Cardinality(Counted) /\ n = Cardinality(Counted') /\ m <= n
    BY CountedGrows
  <1>2. session'[c] = s /\ \A d \in Connections \ {c} : session'[d] = session[d]
    BY MovedAt
  <1>3. ASSUME NEW p \in PageIds PROVE GetTupleCount(pages'[p]) <= n
    <2>1. GetTupleCount(pages[p]) \in Nat /\ GetTupleCount(pages[p]) <= m
      BY <1>1, PageFields, MaxSlotsNat DEF CountInv
    <2>2. GetTupleCount(pages[p]) <= n
      BY <1>1, <2>1
    <2> QED
      BY <1>1, <2>2
  <1>4. ASSUME NEW d \in Connections PROVE session'[d].tuple_count <= n /\ session'[d].slot <= n
    <2>1. CASE d = c
      <3>1. s.tuple_count \in Nat /\ s.slot \in Nat
        <4>1. s.tuple_count \in 0 .. MaxSlots /\ s.slot \in 0 .. MaxSlots
          BY DEF SessionType
        <4> QED
          BY <4>1, MaxSlotsNat
      <3>2. s.tuple_count <= m /\ s.slot <= m
        BY <1>1
      <3>3. s.tuple_count <= n /\ s.slot <= n
        BY <1>1, <3>1, <3>2
      <3> QED
        BY <1>2, <2>1, <3>3
    <2>2. CASE d # c
      <3>1. session[d].tuple_count \in Nat /\ session[d].slot \in Nat
        BY Fields, MaxSlotsNat
      <3>2. session[d].tuple_count <= m /\ session[d].slot <= m
        BY <1>1 DEF CountInv
      <3>3. session[d].tuple_count <= n /\ session[d].slot <= n
        BY <1>1, <3>1, <3>2
      <3> QED
        BY <1>2, <2>2, <3>3
    <2> QED
      BY <2>1, <2>2
  <1> QED
    BY <1>1, <1>3, <1>4 DEF CountInv

LEMMA FreshStep ==
  ASSUME Typed, FreshInv, NEW c \in Connections, NEW s, Moved(c, s),
         \A d \in Connections \ {c} : session[d].pc \in {"publish", "init"} =>
           pages'[session[d].page] = pages[session[d].page] /\ LeavesFresh(s, session[d].page),
         s.pc \in {"publish", "init"} =>
           /\ pages'[s.page] = ZeroPage
           /\ \A d \in Connections \ {c} : LeavesFresh(session[d], s.page)
  PROVE  FreshInv'
  <1>1. session'[c] = s /\ \A d \in Connections \ {c} : session'[d] = session[d]
    BY MovedAt
  <1> SUFFICES ASSUME NEW a \in Connections, session'[a].pc \in {"publish", "init"}
               PROVE  /\ pages'[session'[a].page] = ZeroPage
                      /\ \A d \in Connections \ {a} : LeavesFresh(session'[d], session'[a].page)
    BY DEF FreshInv, LeavesFresh
  <1>2. CASE a = c
    BY <1>1, <1>2
  <1>3. CASE a # c
    <2>1. session'[a] = session[a]
      BY <1>1, <1>3
    <2>2. pages'[session[a].page] = ZeroPage /\ \A d \in Connections \ {a} : LeavesFresh(session[d], session[a].page)
      BY <1>3, <2>1 DEF FreshInv
    <2>3. LeavesFresh(s, session[a].page)
      BY <1>3, <2>1
    <2> QED
      BY <1>1, <2>1, <2>2, <2>3
  <1> QED
    BY <1>2, <1>3

-----------------------------------------------------------------------------
(***************************************************************************)
(* Steps of one kind.                                                      *)
(***************************************************************************)
LEMMA Parts ==
  ASSUME Inv
  PROVE  /\ Typed /\ \A c \in Connections : SessionOK(session[c])
         /\ TableInv /\ IssuedInv /\ TxnInv /\ ActiveTransactions /\ PinsBalanced
         /\ FreshInv /\ CountInv
  BY DEF Inv

LEMMA PartsNext ==
  ASSUME Typed', (\A c \in Connections : SessionOK(session[c]))',
         TableInv', IssuedInv', TxnInv', ActiveTransactions', PinsBalanced',
         FreshInv', CountInv'
  PROVE  Inv'
  BY DEF Inv

\* Everything of a session but where it is.
Carries(s, r) ==
  /\ s.stmt = r.stmt /\ s.txn = r.txn /\ s.page = r.page /\ s.tuple_count = r.tuple_count
  /\ s.free_space = r.free_space /\ s.lsn = r.lsn /\ s.slot = r.slot

LEMMA GotoMoved ==
  ASSUME Typed, NEW c \in Connections, NEW pc \in PCs, Goto(c, pc)
  PROVE  \E s \in SessionType : Moved(c, s) /\ s.pc = pc /\ Carries(s, session[c])
  <1>1. session \in [Connections -> SessionType]
    BY Types
  <1>2. PICK s : s = [session[c] EXCEPT !.pc = pc]
    OBVIOUS
  <1>3. s \in SessionType /\ s.pc = pc /\ Carries(s, session[c])
    BY <1>1, <1>2 DEF SessionType, Carries
  <1>4. Moved(c, s)
    BY <1>1, <1>2 DEF Goto, Moved
  <1> QED
    BY <1>3, <1>4

LEMMA CountedKept ==
  ASSUME Typed, NEW c \in Connections, NEW s, Moved(c, s), inserted \subseteq inserted',
         session[c].stmt = "INSERT" /\ session[c].pc \in CountedAt =>
           session[c].txn \in inserted' \/ (s.stmt = "INSERT" /\ s.pc \in CountedAt /\ s.txn = session[c].txn)
  PROVE  Counted \subseteq Counted'
  <1>1. inserted \cup Doing(CountedAt) \subseteq (inserted \cup Doing(CountedAt))'
    <2>1. PICK at : at = CountedAt
      OBVIOUS
    <2>2. inserted \cup Doing(at) \subseteq (inserted \cup Doing(at))'
      BY <2>1, DoingGrows
    <2> QED
      BY <2>1, <2>2
  <1> QED
    BY <1>1 DEF Counted

\* What holds of pages holds on while they stay as they are, and a handler
\* that is on no way into InsertTuple adds nothing to it.
LEMMA PagesKept ==
  ASSUME Typed, \A d \in Connections : SessionOK(session[d]), FreshInv, CountInv,
         NEW c \in Connections, NEW s \in SessionType', Moved(c, s),
         pages' = pages, inserted' \subseteq TxnIds, session' \in [Connections -> SessionType'],
         Counted \subseteq Counted',
         s.pc \notin CountRead \cup {"publish", "init", "log", "set_lsn"},
         s.tuple_count \in {0, session[c].tuple_count},
         s.slot \in {0, session[c].slot} \/ s.slot <= Cardinality(Counted)
  PROVE  FreshInv' /\ CountInv'
  <1>1. FreshInv'
    <2>1. \A p : LeavesFresh(s, p)
      BY DEF LeavesFresh, CountRead, RoomFound
    <2> QED
      BY <2>1, FreshStep
  <1>2. CountInv'
    <2>1. Cardinality(Counted) \in Nat
      BY CountedTypes
    <2>2. session[c].tuple_count <= Cardinality(Counted) /\ session[c].slot <= Cardinality(Counted)
      BY DEF CountInv
    <2>3. s.tuple_count <= Cardinality(Counted) /\ s.slot <= Cardinality(Counted)
      BY <2>1, <2>2
    <2> QED
      BY <2>3, CountStep
  <1> QED
    BY <1>1, <1>2

\* A step that touches no transaction, no table and no page's contents.
LEMMA QuietStep ==
  ASSUME Inv, NEW c \in Connections, NEW s \in SessionType, Moved(c, s), SessionOK(s)',
         UNCHANGED <<table_exists, first_page_id, next_page_id, pages, next_lsn, active, inserted, failed>>,
         issued' \in {issued, issued + 1}, issued' \in 0 .. MaxStatements,
         PinsBalanced' /\ pins' \in [PageIds -> 0 .. Cardinality(Connections)],
         s.pc \notin CountRead \cup {"publish", "init", "log", "set_lsn"},
         s.pc \in {"open", "locate"} => session[c].pc \in {"open", "locate"},
         s.pc = "locate" => table_exists,
         s.txn \in {0, session[c].txn},
         s.pc \in Working => session[c].pc \in Working /\ s.txn = session[c].txn,
         s.pc = "bind" => s.txn = 0,
         s.pc = "answer" => s.stmt # "SELECT",
         session[c].stmt = "INSERT" /\ session[c].pc \in CountedAt =>
           s.stmt = "INSERT" /\ s.pc = "commit" /\ s.txn = session[c].txn,
         s.tuple_count \in {0, session[c].tuple_count},
         s.slot \in {0, session[c].slot} \/ s.slot <= Cardinality(Counted)
  PROVE  Inv'
  <1>1. Typed /\ \A d \in Connections : SessionOK(session[d])
    BY Parts
  <1>2. s \in SessionType' /\ session' \in [Connections -> SessionType']
    BY <1>1, LsnGrows, MovedType
  <1>3. Typed'
    <2>1. pages' \in [PageIds -> PageType']
      BY <1>1, LsnGrows
    <2> QED
      BY <1>1, <1>2, <2>1, Types, TypesNext
  <1>4. (\A d \in Connections : SessionOK(session[d]))'
    BY <1>1, SessionsKept
  <1>5. TableInv'
    <2>1. session'[c] = s /\ \A d \in Connections \ {c} : session'[d] = session[d]
      BY <1>1, MovedAt
    <2>2. TableInv
      BY Parts
    <2>3. \A d \in Connections : session'[d].pc \in {"locate", "publish"} => table_exists
      BY <2>1, <2>2 DEF TableInv
    <2> QED
      BY <2>2, <2>3 DEF TableInv, PagesOut
  <1>6. IssuedInv'
    BY <1>1, Parts, RequestsStep
  <1>7. TxnInv' /\ ActiveTransactions'
    <2>1. s.pc \in PCs
      BY DEF SessionType
    <2> QED
      BY <1>1, <2>1, Parts, TxnsKept
  <1>8. Counted \subseteq Counted'
    BY <1>1, CountedKept DEF CountedAt
  <1>9. FreshInv' /\ CountInv'
    <2>1. inserted' \subseteq TxnIds
      BY <1>1, Types
    <2> QED
      BY <1>1, <1>2, <1>8, <2>1, Parts, PagesKept
  <1> QED
    BY <1>3, <1>4, <1>5, <1>6, <1>7, <1>9, PartsNext
-----------------------------------------------------------------------------
(***************************************************************************)
(* The actions: reading and answering statements.                          *)
(***************************************************************************)
LEMMA AcceptInv ==
  ASSUME Inv, NEW c \in Connections, Accept(c)
  PROVE  Inv'
  <1>1. Typed /\ SessionOK(session[c]) /\ PinsBalanced /\ session[c].pc = "connect"
    BY Parts DEF Accept, At
  <1>2. PICK s \in SessionType : Moved(c, s) /\ s.pc = "read" /\ Carries(s, session[c])
    BY <1>1, GotoMoved DEF Accept, PCs
  <1>3. SessionOK(s)'
    BY <1>1, <1>2 DEF Accept, SessionOK, Carries, InsertAt, CountRead, RoomFound, Working, PinnedAt,
      PagesOut, storeVars, txnVars
  <1>4. PinsBalanced' /\ pins' \in [PageIds -> 0 .. Cardinality(Connections)]
    BY <1>1, <1>2, PinsKept DEF Accept, PinnedAt, storeVars
  <1>5. s.txn = 0 /\ s.tuple_count = session[c].tuple_count /\ s.slot = session[c].slot
    BY <1>1, <1>2 DEF SessionOK, Carries
  <1>6. /\ UNCHANGED <<table_exists, first_page_id, next_page_id, pages, next_lsn, active, inserted, failed>>
        /\ issued' = issued /\ issued \in 0 .. MaxStatements
    BY <1>1, Types DEF Accept, tableVars, storeVars, txnVars, answerVars
  <1> QED
    BY <1>1, <1>2, <1>3, <1>4, <1>5, <1>6, QuietStep DEF CountRead, Working, PinnedAt, CountedAt

LEMMA ReadFailsInv ==
  ASSUME Inv, NEW c \in Connections, ReadFails(c)
  PROVE  Inv'
  <1>1. Typed /\ SessionOK(session[c]) /\ PinsBalanced /\ session[c].pc = "read"
    BY Parts DEF ReadFails, At
  <1>2. PICK s \in SessionType : Moved(c, s) /\ s.pc = "closed" /\ Carries(s, session[c])
    BY <1>1, GotoMoved DEF ReadFails, PCs
  <1>3. SessionOK(s)'
    BY <1>1, <1>2 DEF ReadFails, SessionOK, Carries, InsertAt, CountRead, RoomFound, Working, PinnedAt,
      PagesOut, storeVars, txnVars
  <1>4. PinsBalanced' /\ pins' \in [PageIds -> 0 .. Cardinality(Connections)]
    BY <1>1, <1>2, PinsKept DEF ReadFails, PinnedAt, storeVars
  <1>5. s.txn = 0 /\ s.tuple_count = session[c].tuple_count /\ s.slot = session[c].slot
    BY <1>1, <1>2 DEF SessionOK, Carries
  <1>6. /\ UNCHANGED <<table_exists, first_page_id, next_page_id, pages, next_lsn, active, inserted, failed>>
        /\ issued' = issued /\ issued \in 0 .. MaxStatements
    BY <1>1, Types DEF ReadFails, tableVars, storeVars, txnVars, answerVars
  <1> QED
    BY <1>1, <1>2, <1>3, <1>4, <1>5, <1>6, QuietStep DEF CountRead, Working, PinnedAt, CountedAt

LEMMA ReadUnsupportedInv ==
  ASSUME Inv, NEW c \in Connections, ReadUnsupported(c)
  PROVE  Inv'
  <1>1. Typed /\ SessionOK(session[c]) /\ PinsBalanced /\ session[c].pc = "read"
    BY Parts DEF ReadUnsupported, At
  <1>2. PICK s \in SessionType : /\ Moved(c, s) /\ s.pc = "answer" /\ s.stmt = "other"
                                 /\ s.txn = session[c].txn /\ s.page = session[c].page
                                 /\ s.tuple_count = session[c].tuple_count /\ s.slot = session[c].slot
    <2>1. session \in [Connections -> SessionType]
      BY <1>1, Types
    <2>2. PICK s : s = [session[c] EXCEPT !.pc = "answer", !.stmt = "other"]
      OBVIOUS
    <2>3. s \in SessionType
      BY <2>1, <2>2 DEF SessionType, PCs
    <2>4. Moved(c, s)
      BY <2>1, <2>2 DEF ReadUnsupported, Moved
    <2> QED
      BY <2>1, <2>2, <2>3, <2>4 DEF SessionType
  <1>3. SessionOK(s)'
    BY <1>1, <1>2 DEF ReadUnsupported, SessionOK, InsertAt, CountRead, RoomFound, Working, PinnedAt,
      PagesOut, storeVars, txnVars
  <1>4. PinsBalanced' /\ pins' \in [PageIds -> 0 .. Cardinality(Connections)]
    BY <1>1, <1>2, PinsKept DEF ReadUnsupported, PinnedAt, storeVars
  <1>5. /\ UNCHANGED <<table_exists, first_page_id, next_page_id, pages, next_lsn, active, inserted, failed>>
        /\ issued' = issued /\ issued \in 0 .. MaxStatements
    BY <1>1, Types DEF ReadUnsupported, tableVars, storeVars, txnVars, answerVars
  <1> QED
    BY <1>1, <1>2, <1>3, <1>4, <1>5, QuietStep DEF CountRead, Working, PinnedAt, CountedAt

LEMMA ReadCreateInv ==
  ASSUME Inv, NEW c \in Connections, ReadCreate(c)
  PROVE  Inv'
  <1>1. Typed /\ SessionOK(session[c]) /\ PinsBalanced /\ session[c].pc = "read"
    BY Parts DEF ReadCreate, At
  <1>2. PICK s \in SessionType : /\ Moved(c, s) /\ s.pc = "bind" /\ s.stmt = "CREATE TABLE"
                                 /\ s.txn = session[c].txn /\ s.page = session[c].page
                                 /\ s.tuple_count = session[c].tuple_count /\ s.slot = session[c].slot
    <2>1. session \in [Connections -> SessionType]
      BY <1>1, Types
    <2>2. PICK s : s = [session[c] EXCEPT !.pc = "bind", !.stmt = "CREATE TABLE"]
      OBVIOUS
    <2>3. s \in SessionType
      BY <2>1, <2>2 DEF SessionType, PCs
    <2>4. Moved(c, s)
      BY <2>1, <2>2 DEF ReadCreate, Moved
    <2> QED
      BY <2>1, <2>2, <2>3, <2>4 DEF SessionType
  <1>3. issued' = issued + 1 /\ issued' \in 0 .. MaxStatements /\ 0 <= issued'
    <2>1. issued \in 0 .. MaxStatements /\ issued < MaxStatements /\ issued' = issued + 1
      BY <1>1, Types DEF ReadCreate
    <2>2. issued + 1 \in 0 .. MaxStatements /\ 0 <= issued + 1
      BY <2>1, Sizes
    <2> QED
      BY <2>1, <2>2
  <1>4. s.txn = 0
    BY <1>1, <1>2 DEF SessionOK
  <1>5. SessionOK(s)'
    BY <1>1, <1>2, <1>3, <1>4 DEF ReadCreate, SessionOK, InsertAt, CountRead, RoomFound, Working, PinnedAt,
      PagesOut, storeVars
  <1>6. PinsBalanced' /\ pins' \in [PageIds -> 0 .. Cardinality(Connections)]
    BY <1>1, <1>2, PinsKept DEF ReadCreate, PinnedAt, storeVars
  <1>7. UNCHANGED <<table_exists, first_page_id, next_page_id, pages, next_lsn, active, inserted, failed>>
    BY DEF ReadCreate, tableVars, storeVars, answerVars
  <1> QED
    BY <1>1, <1>2, <1>3, <1>4, <1>5, <1>6, <1>7, QuietStep DEF CountRead, Working, PinnedAt, CountedAt

\* An answer, sent or not, forgets the statement.
LEMMA AnswerStep ==
  ASSUME Inv, NEW c \in Connections, At(c, "answer"), NEW s, Moved(c, s),
         s \in {Reading, [Reading EXCEPT !.pc = "closed"]},
         UNCHANGED <<tableVars, storeVars, txnVars, answerVars>>
  PROVE  Inv'
  <1>1. Typed /\ SessionOK(session[c]) /\ PinsBalanced /\ session[c].pc = "answer"
    BY Parts DEF At
  <1>2. /\ s.pc \in {"read", "closed"} /\ s.stmt = "none" /\ s.txn = 0 /\ s.page = NoPage
        /\ s.tuple_count = 0 /\ s.slot = 0 /\ s.free_space = 0 /\ s.lsn = 0
    BY DEF Reading
  <1>3. s \in SessionType
    <2>0. next_lsn \in Nat \ {0}
      BY <1>1, Types
    <2>1. 0 \in 0 .. MaxSlots /\ 0 \in 0 .. PAGE_SIZE /\ 0 \in 0 .. next_lsn - 1
      BY <2>0, MaxSlotsNat, Sizes
    <2>2. Reading \in SessionType
      BY <2>1 DEF Reading, SessionType, PCs
    <2>3. [Reading EXCEPT !.pc = "closed"] \in SessionType
      BY <2>2 DEF SessionType, PCs
    <2> QED
      BY <2>2, <2>3
  <1>4. SessionOK(s)'
    <2>1. 0 <= issued
      BY <1>1, Types, Sizes
    <2> QED
      BY <1>2, <2>1 DEF SessionOK, InsertAt, CountRead, RoomFound, Working, PinnedAt, txnVars
  <1>5. PinsBalanced' /\ pins' \in [PageIds -> 0 .. Cardinality(Connections)]
    BY <1>1, <1>2, PinsKept DEF PinnedAt, storeVars
  <1>6. /\ UNCHANGED <<table_exists, first_page_id, next_page_id, pages, next_lsn, active, inserted, failed>>
        /\ issued' = issued /\ issued \in 0 .. MaxStatements
    BY <1>1, Types DEF tableVars, storeVars, txnVars, answerVars
  <1> QED
    BY <1>1, <1>2, <1>3, <1>4, <1>5, <1>6, QuietStep DEF CountRead, Working, PinnedAt, CountedAt

LEMMA AnswerInv ==
  ASSUME Inv, NEW c \in Connections, Answer(c) \/ AnswerFails(c)
  PROVE  Inv'
  <1>1. PICK s : Moved(c, s) /\ s \in {Reading, [Reading EXCEPT !.pc = "closed"]}
    BY DEF Answer, AnswerFails, Moved
  <1>2. At(c, "answer") /\ UNCHANGED <<tableVars, storeVars, txnVars, answerVars>>
    BY DEF Answer, AnswerFails
  <1> QED
    BY <1>1, <1>2, AnswerStep

\* A statement that opens its table goes on with the first page there is.
LEMMA OpenInv ==
  ASSUME Inv, NEW c \in Connections, FindTable(c) \/ OpenScan(c)
  PROVE  Inv'
  <1>1. Typed /\ SessionOK(session[c]) /\ PinsBalanced /\ TableInv /\ session[c].pc = "open" /\ table_exists
    BY Parts DEF FindTable, OpenScan, At
  <1>2. PICK s \in SessionType :
          /\ Moved(c, s) /\ s.stmt = session[c].stmt /\ s.txn = session[c].txn /\ s.page = first_page_id
          /\ s.tuple_count = session[c].tuple_count /\ s.slot \in {0, session[c].slot}
          /\ s.pc = IF first_page_id # NoPage THEN "fetch"
                    ELSE IF session[c].stmt = "INSERT" THEN "locate" ELSE "commit"
    <2>1. session \in [Connections -> SessionType] /\ first_page_id \in PageIds \cup {NoPage}
      BY <1>1, Types
    <2>2. CASE FindTable(c)
      <3>1. PICK s : s = [session[c] EXCEPT !.page = first_page_id,
                            !.pc = IF first_page_id = NoPage THEN "locate" ELSE "fetch"]
        OBVIOUS
      <3>2. s \in SessionType
        BY <2>1, <3>1 DEF SessionType, PCs
      <3>3. Moved(c, s)
        BY <2>1, <2>2, <3>1 DEF FindTable, Moved
      <3> QED
        BY <2>1, <2>2, <3>1, <3>2, <3>3 DEF FindTable, SessionType
    <2>3. CASE OpenScan(c)
      <3>0. 0 \in 0 .. MaxSlots
        BY MaxSlotsNat
      <3>1. PICK s : s = [session[c] EXCEPT !.page = first_page_id, !.slot = 0,
                            !.pc = IF first_page_id = NoPage THEN "commit" ELSE "fetch"]
        OBVIOUS
      <3>2. s \in SessionType
        BY <2>1, <3>0, <3>1 DEF SessionType, PCs
      <3>3. Moved(c, s)
        BY <2>1, <2>3, <3>1 DEF OpenScan, Moved
      <3> QED
        BY <2>1, <2>3, <3>1, <3>2, <3>3 DEF OpenScan, SessionType
    <2> QED
      BY <2>2, <2>3
  <1>3. UNCHANGED <<tableVars, storeVars, txnVars, answerVars>>
    BY DEF FindTable, OpenScan
  <1>4. SessionOK(s)'
    <2>1. s.page \in PagesOut \cup {NoPage} /\ session[c].txn # 0 /\ session[c].txn <= issued
          /\ session[c].stmt \in {"INSERT", "SELECT"}
      BY <1>1, <1>2 DEF TableInv, SessionOK, Working
    <2>2. s.pc \in {"fetch", "locate", "commit"} /\ (s.pc = "fetch" => s.page # NoPage)
          /\ (s.pc = "locate" => s.stmt = "INSERT")
      BY <1>2
    <2> QED
      BY <1>2, <1>3, <2>1, <2>2 DEF SessionOK, InsertAt, CountRead, RoomFound, Working, PinnedAt,
        PagesOut, storeVars, txnVars
  <1>5. s.pc \in {"fetch", "locate", "commit"}
    BY <1>2
  <1>6. PinsBalanced' /\ pins' \in [PageIds -> 0 .. Cardinality(Connections)]
    BY <1>1, <1>2, <1>3, <1>5, PinsKept DEF PinnedAt, storeVars
  <1>7. /\ UNCHANGED <<table_exists, first_page_id, next_page_id, pages, next_lsn, active, inserted, failed>>
        /\ issued' = issued /\ issued \in 0 .. MaxStatements
    BY <1>1, <1>3, Types DEF tableVars, storeVars, txnVars, answerVars
  <1> QED
    BY <1>1, <1>2, <1>4, <1>5, <1>6, <1>7, QuietStep DEF CountRead, Working, PinnedAt, CountedAt

-----------------------------------------------------------------------------
(***************************************************************************)
(* The actions: pins taken and given back.                                 *)
(***************************************************************************)
LEMMA PageAtHand ==
  ASSUME Typed, NEW c \in Connections, SessionOK(session[c]), session[c].pc \in PinnedAt \cup {"fetch"}
  PROVE  session[c].page \in PageIds /\ session[c].txn # 0
  BY Fields DEF SessionOK, Working

LEMMA FetchPageInv ==
  ASSUME Inv, NEW c \in Connections, FetchPage(c)
  PROVE  Inv'
  <1>1. /\ Typed /\ SessionOK(session[c]) /\ PinsBalanced /\ session[c].pc = "fetch"
        /\ session[c].page \in PageIds /\ session[c].txn # 0
    BY Parts, PageAtHand DEF FetchPage, At
  <1>2. PICK pc \in PCs : pc = IF session[c].stmt = "INSERT" THEN "insert" ELSE "scan"
    BY DEF PCs, PinnedAt
  <1>3. PICK s \in SessionType : Moved(c, s) /\ s.pc = pc /\ Carries(s, session[c])
    <2>1. Goto(c, pc)
      BY <1>2 DEF FetchPage
    <2> QED
      BY <1>1, <2>1, GotoMoved
  <1>4. SessionOK(s)'
    BY <1>1, <1>2, <1>3 DEF FetchPage, SessionOK, Carries, InsertAt, CountRead, RoomFound, Working, PinnedAt,
      PagesOut, txnVars
  <1>5. PinsBalanced' /\ pins' \in [PageIds -> 0 .. Cardinality(Connections)]
    <2>1. s.page = session[c].page /\ s.pc \in PinnedAt /\ session[c].pc \notin PinnedAt
      BY <1>1, <1>2, <1>3 DEF Carries, PinnedAt
    <2>2. pins' = [pins EXCEPT ![s.page] = @ + 1]
      BY <2>1 DEF FetchPage
    <2> QED
      BY <1>1, <1>3, <2>1, <2>2, PinTaken
  <1>6. /\ UNCHANGED <<table_exists, first_page_id, next_page_id, pages, next_lsn, active, inserted, failed>>
        /\ issued' = issued /\ issued \in 0 .. MaxStatements
    BY <1>1, Types DEF FetchPage, tableVars, txnVars, answerVars
  <1>7. s.txn = session[c].txn /\ s.tuple_count = session[c].tuple_count /\ s.slot = session[c].slot
    BY <1>3 DEF Carries
  <1>8. s.pc \in {"insert", "scan"}
    BY <1>2, <1>3
  <1> QED
    BY <1>1, <1>3, <1>4, <1>5, <1>6, <1>7, <1>8, QuietStep DEF CountRead, Working, PinnedAt, CountedAt

\* A handler that gives its page back and goes on to the next row or the
\* commit.
LEMMA UnpinStep ==
  ASSUME Inv, NEW c \in Connections, session[c].pc \in {"unpin", "scan"},
         NEW s \in SessionType, Moved(c, s), s.pc \in {"commit", "fetch"},
         session[c].pc = "unpin" => s.pc = "commit",
         s.stmt = session[c].stmt, s.txn = session[c].txn, s.page = session[c].page,
         s.tuple_count = session[c].tuple_count,
         s.slot = session[c].slot \/ s.slot <= Cardinality(Counted),
         pins' = [pins EXCEPT ![session[c].page] = @ - 1],
         UNCHANGED <<tableVars, next_page_id, pages, txnVars, answerVars>>
  PROVE  Inv'
  <1>1. /\ Typed /\ SessionOK(session[c]) /\ PinsBalanced
        /\ session[c].page \in PageIds /\ session[c].txn # 0
    BY Parts, PageAtHand DEF PinnedAt
  <1>2. session[c].stmt \in {"INSERT", "SELECT"} /\ session[c].page # NoPage
    BY <1>1 DEF SessionOK, InsertAt, PinnedAt
  <1>3. SessionOK(s)'
    BY <1>1, <1>2 DEF SessionOK, InsertAt, CountRead, RoomFound, Working, PinnedAt, PagesOut, txnVars
  <1>4. PinsBalanced' /\ pins' \in [PageIds -> 0 .. Cardinality(Connections)]
    BY <1>1, PinGiven DEF PinnedAt
  <1>5. /\ UNCHANGED <<table_exists, first_page_id, next_page_id, pages, next_lsn, active, inserted, failed>>
        /\ issued' = issued /\ issued \in 0 .. MaxStatements
    BY <1>1, Types DEF tableVars, txnVars, answerVars
  <1>6. session[c].pc \in CountedAt => s.pc = "commit"
    BY DEF CountedAt
  <1> QED
    BY <1>1, <1>3, <1>4, <1>5, <1>6, QuietStep DEF CountRead, Working, PinnedAt

LEMMA UnpinPageInv ==
  ASSUME Inv, NEW c \in Connections, UnpinPage(c) \/ EndOfScan(c)
  PROVE  Inv'
  <1>1. Typed /\ Goto(c, "commit") /\ "commit" \in PCs /\ session[c].pc \in {"unpin", "scan"}
    BY Parts DEF UnpinPage, EndOfScan, At, PCs
  <1>2. PICK s \in SessionType : Moved(c, s) /\ s.pc = "commit" /\ Carries(s, session[c])
    BY <1>1, GotoMoved
  <1>3. /\ pins' = [pins EXCEPT ![session[c].page] = @ - 1]
        /\ UNCHANGED <<tableVars, next_page_id, pages, txnVars, answerVars>>
    BY DEF UnpinPage, EndOfScan, Unpinned
  <1> QED
    BY <1>1, <1>2, <1>3, UnpinStep DEF Carries

LEMMA NextRowInv ==
  ASSUME Inv, NEW c \in Connections, NextRow(c)
  PROVE  Inv'
  <1>1. Typed /\ SessionOK(session[c]) /\ CountInv /\ session[c].pc = "scan" /\ session[c].page \in PageIds
    BY Parts, PageAtHand DEF NextRow, At, PinnedAt
  <1>2. /\ session[c].slot + 1 \in 0 .. MaxSlots /\ session[c].slot + 1 <= Cardinality(Counted)
    <2>1. session[c].slot \in Nat /\ GetTupleCount(pages[session[c].page]) \in 0 .. MaxSlots
      BY <1>1, Fields, PageFields, MaxSlotsNat
    <2>2. ~(session[c].slot >= GetTupleCount(pages[session[c].page]))
      BY DEF NextRow, PastLastSlot, Page
    <2>3. GetTupleCount(pages[session[c].page]) <= Cardinality(Counted) /\ Cardinality(Counted) \in Nat
      BY <1>1, CountedTypes DEF CountInv
    <2> QED
      BY <2>1, <2>2, <2>3, MaxSlotsNat
  <1>3. PICK s \in SessionType :
          /\ Moved(c, s) /\ s.pc = "fetch" /\ s.slot = session[c].slot + 1
          /\ s.stmt = session[c].stmt /\ s.txn = session[c].txn /\ s.page = session[c].page
          /\ s.tuple_count = session[c].tuple_count
    <2>1. session \in [Connections -> SessionType]
      BY <1>1, Types
    <2>2. PICK n \in 0 .. MaxSlots : n = session[c].slot + 1
      BY <1>2
    <2>3. PICK s : s = [session[c] EXCEPT !.slot = n, !.pc = "fetch"]
      OBVIOUS
    <2>4. s \in SessionType
      BY <2>1, <2>3 DEF SessionType, PCs
    <2>5. Moved(c, s)
      BY <2>1, <2>2, <2>3 DEF NextRow, NextSlot, Moved
    <2> QED
      BY <2>1, <2>2, <2>3, <2>4, <2>5 DEF SessionType
  <1>4. s.slot <= Cardinality(Counted)
    BY <1>2, <1>3
  <1>5. /\ pins' = [pins EXCEPT ![session[c].page] = @ - 1]
        /\ UNCHANGED <<tableVars, next_page_id, pages, txnVars, answerVars>>
    BY DEF NextRow, Unpinned
  <1> QED
    BY <1>1, <1>3, <1>4, <1>5, UnpinStep
-----------------------------------------------------------------------------
(***************************************************************************)
(* The actions: the catalog's table, transactions that begin and end.      *)
(***************************************************************************)

\* A step between two statements' work on pages.
LEMMA PlainStep ==
  ASSUME Inv, NEW c \in Connections, NEW s \in SessionType', Moved(c, s), SessionOK(s)',
         UNCHANGED <<first_page_id, next_page_id, pages, pins>>,
         next_lsn' \in {next_lsn, next_lsn + 1},
         issued' \in {issued, issued + 1}, issued' \in 0 .. MaxStatements,
         table_exists' \in BOOLEAN, table_exists => table_exists',
         active' \subseteq TxnIds, inserted' \subseteq TxnIds, failed' \subseteq TxnIds,
         TxnInv', ActiveTransactions', inserted \subseteq inserted',
         session[c].pc \notin PinnedAt, s.pc \in {"open", "answer"},
         s.pc = "open" => issued' = issued + 1,
         session[c].stmt = "INSERT" /\ session[c].pc \in CountedAt => session[c].txn \in inserted',
         s.tuple_count = session[c].tuple_count, s.slot = session[c].slot
  PROVE  Inv'
  <1>1. Typed /\ \A d \in Connections : SessionOK(session[d])
    BY Parts
  <1>2. session' \in [Connections -> SessionType']
    BY <1>1, MovedType
  <1>3. PinsBalanced' /\ pins' \in [PageIds -> 0 .. Cardinality(Connections)]
    BY <1>1, Parts, PinsKept DEF PinnedAt
  <1>4. Typed'
    <2>1. pages' \in [PageIds -> PageType']
      BY <1>1, LsnGrows
    <2>2. next_lsn' \in Nat \ {0}
      <3>1. next_lsn \in Nat \ {0} /\ next_lsn + 1 \in Nat \ {0}
        BY <1>1, Types
      <3> QED
        BY <3>1
    <2> QED
      BY <1>1, <1>2, <1>3, <2>1, <2>2, Types, TypesNext
  <1>5. (\A d \in Connections : SessionOK(session[d]))'
    BY <1>1, SessionsKept
  <1>6. TableInv'
    <2>1. session'[c] = s /\ \A d \in Connections \ {c} : session'[d] = session[d]
      BY <1>1, MovedAt
    <2>2. TableInv
      BY Parts
    <2>3. \A d \in Connections : session'[d].pc \in {"locate", "publish"} => table_exists'
      BY <2>1, <2>2 DEF TableInv
    <2> QED
      BY <2>2, <2>3 DEF TableInv, PagesOut
  <1>7. IssuedInv'
    BY <1>1, Parts, RequestsStep
  <1>8. Counted \subseteq Counted'
    BY <1>1, CountedKept DEF CountedAt
  <1>9. FreshInv' /\ CountInv'
    BY <1>1, <1>2, <1>8, Parts, PagesKept DEF CountRead
  <1> QED
    BY <1>3, <1>4, <1>5, <1>6, <1>7, <1>9, PartsNext

LEMMA CreateTableInv ==
  ASSUME Inv, NEW c \in Connections, CreateTable(c)
  PROVE  Inv'
  <1>1. Typed /\ (\A d \in Connections : SessionOK(session[d])) /\ TxnInv /\ ActiveTransactions
        /\ TableInv /\ session[c].pc = "bind" /\ session[c].stmt = "CREATE TABLE" /\ session[c].txn = 0
    BY Parts DEF CreateTable, At, SessionOK
  <1>2. PICK s \in SessionType : Moved(c, s) /\ s.pc = "answer" /\ Carries(s, session[c])
    BY <1>1, GotoMoved DEF CreateTable, PCs
  <1>3. UNCHANGED <<storeVars, txnVars, answerVars>> /\ table_exists' = TRUE /\ first_page_id' = first_page_id
    BY <1>1 DEF CreateTable, TableInv
  <1>4. SessionOK(s)'
    BY <1>1, <1>2, <1>3 DEF SessionOK, Carries, InsertAt, CountRead, RoomFound, Working, PinnedAt,
      PagesOut, storeVars, txnVars
  <1>5. TxnInv' /\ ActiveTransactions'
    <2>1. s.pc \in PCs /\ s.txn = 0 /\ s.stmt = "CREATE TABLE"
      BY <1>1, <1>2 DEF PCs, Carries
    <2> QED
      BY <1>1, <1>2, <1>3, <2>1, TxnsKept DEF Working, PinnedAt, txnVars, answerVars
  <1>6. s \in SessionType'
    BY <1>1, <1>3, LsnGrows DEF txnVars
  <1>7. active' \subseteq TxnIds /\ inserted' \subseteq TxnIds /\ failed' \subseteq TxnIds /\ issued' \in 0 .. MaxStatements
    BY <1>1, <1>3, Types DEF txnVars, answerVars
  <1>8. /\ session[c].pc \notin PinnedAt \cup CountedAt
        /\ s.tuple_count = session[c].tuple_count /\ s.slot = session[c].slot
    BY <1>1, <1>2 DEF PinnedAt, CountedAt, Carries
  <1> QED
    BY <1>2, <1>3, <1>4, <1>5, <1>6, <1>7, <1>8, PlainStep DEF storeVars, txnVars, answerVars

\* The statement throws before it has pinned a page.
LEMMA ThrowInv ==
  ASSUME Inv, NEW c \in Connections, TableNotFound(c) \/ PoolThrows(c)
  PROVE  Inv'
  <1>1. Typed /\ (\A d \in Connections : SessionOK(session[d])) /\ TxnInv /\ ActiveTransactions
        /\ session[c].pc \in {"open", "locate", "fetch"}
    BY Parts DEF TableNotFound, PoolThrows, At
  <1>2. PICK s \in SessionType : Moved(c, s) /\ s.pc = "answer" /\ Carries(s, session[c])
    BY <1>1, GotoMoved DEF TableNotFound, PoolThrows, PCs
  <1>3. UNCHANGED <<tableVars, storeVars, txnVars, inserted>> /\ failed' = failed \cup {session[c].txn}
    BY DEF TableNotFound, PoolThrows
  <1>4. SessionOK(s)'
    BY <1>1, <1>2, <1>3 DEF SessionOK, Carries, InsertAt, CountRead, RoomFound, Working, PinnedAt,
      PagesOut, storeVars, txnVars
  <1>5. session[c].txn \in active /\ session[c].txn # 0
    BY <1>1 DEF TxnInv, SessionOK, Working
  <1>6. TxnInv' /\ ActiveTransactions'
    <2>1. s.pc \in PCs /\ s.txn = session[c].txn
      BY <1>2 DEF PCs, Carries
    <2>2. inserted' \cup failed' \cup active' \subseteq 1 .. issued'
      BY <1>1, <1>3, <1>5 DEF TxnInv, txnVars
    <2>3. failed' \subseteq active' /\ inserted' \cap active' = {}
      BY <1>1, <1>3, <1>5 DEF ActiveTransactions, txnVars
    <2>4. \A d \in Connections \ {c} : session[d].txn \in failed <=> session[d].txn \in failed'
      BY <1>1, <1>3, <1>5 DEF TxnInv
    <2>5. active' = active /\ s.txn \in failed'
      BY <1>3, <2>1 DEF txnVars
    <2> QED
      BY <1>1, <1>2, <2>1, <2>2, <2>3, <2>4, <2>5, TxnsStep DEF Working, PinnedAt
  <1>7. s \in SessionType'
    BY <1>1, <1>3, LsnGrows DEF txnVars
  <1>8. active' \subseteq TxnIds /\ inserted' \subseteq TxnIds /\ failed' \subseteq TxnIds
        /\ issued' \in 0 .. MaxStatements /\ table_exists' \in BOOLEAN
    <2>1. active \subseteq TxnIds /\ inserted \subseteq TxnIds /\ failed \subseteq TxnIds
          /\ issued \in 0 .. MaxStatements /\ table_exists \in BOOLEAN
      BY <1>1, Types
    <2> QED
      BY <1>3, <1>5, <2>1 DEF txnVars, tableVars
  <1>9. /\ session[c].pc \notin PinnedAt \cup CountedAt
        /\ s.tuple_count = session[c].tuple_count /\ s.slot = session[c].slot
    BY <1>1, <1>2 DEF PinnedAt, CountedAt, Carries
  <1> QED
    BY <1>2, <1>3, <1>4, <1>6, <1>7, <1>8, <1>9, PlainStep DEF tableVars, storeVars, txnVars

LEMMA BeginTxnInv ==
  ASSUME Inv, NEW c \in Connections, NEW stmt \in {"INSERT", "SELECT", "BEGIN"}, BeginTxn(c, stmt)
  PROVE  Inv'
  <1>1. Typed /\ (\A d \in Connections : SessionOK(session[d])) /\ TxnInv /\ ActiveTransactions
        /\ session[c].pc = "read"
    BY Parts DEF BeginTxn, At
  <1>2. PICK id \in TxnIds : id = issued + 1 /\ id \in 0 .. MaxStatements /\ id # 0
    <2>1. issued \in 0 .. MaxStatements /\ issued < MaxStatements
      BY <1>1, Types DEF BeginTxn
    <2> QED
      BY <2>1, Sizes DEF TxnIds
  <1>3. /\ issued' = id /\ active' = active \cup {id} /\ next_lsn' = next_lsn + 1
        /\ UNCHANGED <<tableVars, storeVars, answerVars>>
    BY <1>2 DEF BeginTxn
  <1>4. PICK s \in SessionType :
          /\ Moved(c, s) /\ s.pc = (IF stmt = "BEGIN" THEN "answer" ELSE "open") /\ s.stmt = stmt /\ s.txn = id
          /\ s.page = session[c].page /\ s.tuple_count = session[c].tuple_count /\ s.slot = session[c].slot
    <2>1. session \in [Connections -> SessionType]
      BY <1>1, Types
    <2>2. PICK s : s = [session[c] EXCEPT !.stmt = stmt, !.txn = id,
                                          !.pc = IF stmt = "BEGIN" THEN "answer" ELSE "open"]
      OBVIOUS
    <2>3. s \in SessionType
      BY <2>1, <2>2 DEF SessionType, PCs
    <2>4. Moved(c, s)
      BY <1>3, <2>1, <2>2 DEF BeginTxn, Moved
    <2> QED
      BY <2>1, <2>2, <2>3, <2>4 DEF SessionType
  <1>5. s.pc \in {"open", "answer"} /\ (s.pc = "open" => s.stmt \in {"INSERT", "SELECT"})
        /\ (s.pc = "answer" => s.stmt = "BEGIN")
    BY <1>4
  <1>6. SessionOK(s)'
    <2>1. s.txn <= issued' /\ s.txn # 0
      <3>1. id <= id
        BY <1>2, Sizes DEF TxnIds
      <3> QED
        BY <1>2, <1>3, <1>4, <3>1
    <2>2. session[c].page = NoPage
      BY <1>1 DEF SessionOK
    <2> QED
      BY <1>4, <1>5, <2>1, <2>2 DEF SessionOK, InsertAt, CountRead, RoomFound, PinnedAt
  <1>7. (\A d \in Connections : session[d].txn # id) /\ 1 .. issued \subseteq 1 .. id
        /\ id \in 1 .. id /\ id \notin 1 .. issued
    <2>1. \A d \in Connections : session[d].txn # id
      <3> SUFFICES ASSUME NEW d \in Connections PROVE session[d].txn # id
        OBVIOUS
      <3>1. session[d].txn \in Nat /\ session[d].txn <= issued /\ issued \in Nat
        BY <1>1, TxnIssued
      <3> QED
        BY <1>2, <3>1
    <2>2. issued \in Nat
      BY <1>1, Types, Sizes
    <2> QED
      BY <1>2, <2>1, <2>2
  <1>8. TxnInv' /\ ActiveTransactions'
    <2>1. inserted \cup failed \cup active \subseteq 1 .. issued
      BY <1>1 DEF TxnInv
    <2>2. inserted' \cup failed' \cup active' \subseteq 1 .. issued'
      BY <1>3, <1>7, <2>1, Zenon DEF answerVars
    <2>3. failed' \subseteq active' /\ inserted' \cap active' = {} /\ id \notin failed'
      <3>1. failed \subseteq active /\ inserted \cap active = {}
        BY <1>1 DEF ActiveTransactions
      <3> QED
        BY <1>3, <1>7, <2>1, <3>1 DEF answerVars
    <2>4. \A d \in Connections \ {c} :
            /\ session[d].txn \in active <=> session[d].txn \in active'
            /\ session[d].txn \in failed <=> session[d].txn \in failed'
      BY <1>3, <1>7 DEF answerVars
    <2>5. s.pc \in PCs /\ s.txn = issued + 1 /\ s.txn \in active' /\ s.txn \notin failed'
      BY <1>2, <1>3, <1>4, <1>5, <2>3 DEF PCs
    <2> QED
      BY <1>1, <1>4, <1>5, <2>2, <2>3, <2>4, <2>5, TxnsStep
  <1>9. s \in SessionType'
    BY <1>1, <1>3, LsnGrows
  <1>10. /\ active' \subseteq TxnIds /\ inserted' \subseteq TxnIds /\ failed' \subseteq TxnIds
         /\ table_exists' \in BOOLEAN
    <2>1. active \subseteq TxnIds /\ inserted \subseteq TxnIds /\ failed \subseteq TxnIds /\ table_exists \in BOOLEAN
      BY <1>1, Types
    <2> QED
      BY <1>3, <2>1 DEF tableVars, answerVars
  <1>11. session[c].pc \notin PinnedAt \cup CountedAt
    BY <1>1 DEF PinnedAt, CountedAt
  <1> QED
    BY <1>2, <1>3, <1>4, <1>5, <1>6, <1>8, <1>9, <1>10, <1>11, PlainStep DEF tableVars, storeVars, answerVars

LEMMA CommitInv ==
  ASSUME Inv, NEW c \in Connections, Commit(c)
  PROVE  Inv'
  <1>1. Typed /\ (\A d \in Connections : SessionOK(session[d])) /\ TxnInv /\ ActiveTransactions
        /\ session[c].pc = "commit"
    BY Parts DEF Commit, At
  <1>2. PICK s \in SessionType : Moved(c, s) /\ s.pc = "answer" /\ Carries(s, session[c])
    BY <1>1, GotoMoved DEF Commit, PCs
  <1>3. /\ UNCHANGED <<tableVars, storeVars, issued, failed>> /\ next_lsn' = next_lsn + 1
        /\ active' = active \ {session[c].txn}
        /\ inserted' \in {inserted, inserted \cup {session[c].txn}}
        /\ session[c].stmt = "INSERT" => session[c].txn \in inserted'
    BY DEF Commit, Ended
  <1>4. SessionOK(s)'
    BY <1>1, <1>2, <1>3 DEF SessionOK, Carries, InsertAt, CountRead, RoomFound, Working, PinnedAt,
      PagesOut, storeVars
  <1>5. session[c].txn \in active /\ session[c].txn # 0 /\ session[c].txn \notin failed
    BY <1>1 DEF TxnInv, SessionOK, Working
  <1>6. TxnInv' /\ ActiveTransactions'
    <2>1. s.pc \in PCs /\ s.txn = session[c].txn
      BY <1>2 DEF PCs, Carries
    <2>2. inserted' \cup failed' \cup active' \subseteq 1 .. issued'
      <3>1. inserted \cup failed \cup active \subseteq 1 .. issued
        BY <1>1 DEF TxnInv
      <3> QED
        BY <1>3, <1>5, <3>1
    <2>3. failed' \subseteq active' /\ inserted' \cap active' = {}
      <3>1. failed \subseteq active /\ inserted \cap active = {}
        BY <1>1 DEF ActiveTransactions
      <3> QED
        BY <1>3, <1>5, <3>1
    <2>4. \A d \in Connections \ {c} : session[d].txn # session[c].txn
      BY <1>1, <1>5 DEF TxnInv
    <2>5. \A d \in Connections \ {c} :
            /\ session[d].txn \in active <=> session[d].txn \in active'
            /\ session[d].txn \in failed <=> session[d].txn \in failed'
      BY <1>3, <2>4
    <2>6. s.txn \notin active'
      BY <1>3, <2>1
    <2> QED
      BY <1>1, <1>2, <2>1, <2>2, <2>3, <2>5, <2>6, TxnsStep DEF Working, PinnedAt
  <1>7. s \in SessionType'
    BY <1>1, <1>3, LsnGrows
  <1>8. active' \subseteq TxnIds /\ inserted' \subseteq TxnIds /\ failed' \subseteq TxnIds
        /\ issued' \in 0 .. MaxStatements /\ table_exists' \in BOOLEAN /\ inserted \subseteq inserted'
    <2>1. active \subseteq TxnIds /\ inserted \subseteq TxnIds /\ failed \subseteq TxnIds
          /\ issued \in 0 .. MaxStatements /\ table_exists \in BOOLEAN
      BY <1>1, Types
    <2> QED
      BY <1>3, <1>5, <2>1 DEF tableVars
  <1>9. /\ session[c].pc \notin PinnedAt
        /\ s.tuple_count = session[c].tuple_count /\ s.slot = session[c].slot
    BY <1>1, <1>2 DEF PinnedAt, Carries
  <1> QED
    BY <1>2, <1>3, <1>4, <1>6, <1>7, <1>8, <1>9, PlainStep DEF tableVars, storeVars
-----------------------------------------------------------------------------
(***************************************************************************)
(* The actions: InsertExecutor on a page it has pinned.                    *)
(***************************************************************************)

\* The handler stays on its page; the four conjuncts about pages are left to
\* the action.
LEMMA PinnedStep ==
  ASSUME Inv, NEW c \in Connections, NEW s \in SessionType', Moved(c, s), SessionOK(s)',
         session' \in [Connections -> SessionType'],
         UNCHANGED <<table_exists, next_page_id, pins, issued, active, inserted, failed>>,
         next_lsn' \in {next_lsn, next_lsn + 1},
         first_page_id' = first_page_id \/ (session[c].pc = "publish" /\ first_page_id' = session[c].page),
         pages' \in [PageIds -> PageType'], \A p \in PageIds \ {session[c].page} : pages'[p] = pages[p],
         session[c].pc \in PinnedAt, s.pc \in PinnedAt \ {"publish"},
         s.txn = session[c].txn, s.page = session[c].page,
         FreshInv', CountInv'
  PROVE  Inv'
  <1>1. Typed /\ (\A d \in Connections : SessionOK(session[d])) /\ session[c].page \in PageIds
    BY Parts, PageAtHand
  <1>2. session'[c] = s /\ \A d \in Connections \ {c} : session'[d] = session[d]
    BY <1>1, MovedAt
  <1>3. PinsBalanced' /\ pins' \in [PageIds -> 0 .. Cardinality(Connections)]
    BY <1>1, Parts, PinsKept
  <1>4. Typed'
    <2>1. next_lsn' \in Nat \ {0}
      <3>1. next_lsn \in Nat \ {0} /\ next_lsn + 1 \in Nat \ {0}
        BY <1>1, Types
      <3> QED
        BY <3>1
    <2>2. first_page_id' \in PageIds \cup {NoPage}
      BY <1>1, Types
    <2> QED
      BY <1>1, <1>3, <2>1, <2>2, Types, TypesNext
  <1>5. (\A d \in Connections : SessionOK(session[d]))'
    BY <1>1, SessionsKept
  <1>6. session[c].page \in PagesOut
    <2>1. NoPage \notin PageIds
      BY SessionsAssumption
    <2> QED
      BY <1>1, <2>1 DEF SessionOK
  <1>7. TableInv'
    <2>1. TableInv
      BY Parts
    <2>2. first_page_id' # NoPage => table_exists' /\ first_page_id' \in PagesOut'
      BY <1>6, <2>1 DEF TableInv, PagesOut
    <2>3. \A d \in Connections : session'[d].pc \in {"locate", "publish"} => table_exists'
      BY <1>2, <2>1 DEF TableInv, PinnedAt
    <2>4. \A p \in PageIds : p >= next_page_id => p # session[c].page
      <3>1. next_page_id \in Nat
        BY <1>1, Types, Sizes
      <3>2. \A p \in PageIds : p \in Nat
        BY Sizes DEF PageIds
      <3> QED
        BY <1>6, <3>1, <3>2 DEF PagesOut
    <2>5. \A p \in PageIds : p >= next_page_id' => pages'[p] = ZeroPage
      BY <2>1, <2>4 DEF TableInv
    <2> QED
      BY <2>2, <2>3, <2>5 DEF TableInv
  <1>8. IssuedInv'
    <2>1. s.pc \notin {"open", "locate"}
      BY DEF PinnedAt
    <2> QED
      BY <1>1, <2>1, Parts, RequestsStep
  <1>9. TxnInv' /\ ActiveTransactions'
    <2>1. /\ s.pc \in PCs /\ s.pc \in Working /\ session[c].pc \in Working
          /\ s.pc # "bind" /\ s.pc # "answer"
      BY DEF PCs, Working, PinnedAt
    <2> QED
      BY <1>1, <2>1, Parts, TxnsKept
  <1> QED
    BY <1>3, <1>4, <1>5, <1>7, <1>8, <1>9, PartsNext

\* The same for a step that only reads.
LEMMA ReadingStep ==
  ASSUME Inv, NEW c \in Connections, NEW s \in SessionType', Moved(c, s), SessionOK(s)',
         UNCHANGED <<table_exists, next_page_id, pins, pages, issued, active, inserted, failed>>,
         next_lsn' \in {next_lsn, next_lsn + 1},
         first_page_id' = first_page_id \/ (session[c].pc = "publish" /\ first_page_id' = session[c].page),
         session[c].pc \in PinnedAt, s.pc \in PinnedAt \ {"publish", "copy", "set_slot", "set_count"},
         s.stmt = session[c].stmt, s.txn = session[c].txn, s.page = session[c].page, s.slot = session[c].slot,
         session[c].pc \in CountedAt => s.pc \in CountedAt, session[c].pc \notin {"set_slot", "set_count"},
         s.tuple_count <= Cardinality(Counted),
         s.pc = "init" => session[c].pc = "publish",
         \A d \in Connections \ {c} : session[d].pc \in {"publish", "init"} => LeavesFresh(s, session[d].page)
  PROVE  Inv'
  <1>1. /\ Typed /\ (\A d \in Connections : SessionOK(session[d]))
        /\ FreshInv /\ CountInv
    BY Parts
  <1>2. session' \in [Connections -> SessionType'] /\ pages' \in [PageIds -> PageType']
    BY <1>1, LsnGrows, MovedType
  <1>3. Counted \subseteq Counted'
    BY <1>1, CountedKept DEF CountedAt
  <1>4. FreshInv'
    <2>1. s.pc = "init" => /\ pages'[s.page] = ZeroPage
                           /\ \A d \in Connections \ {c} : LeavesFresh(session[d], s.page)
      BY <1>1 DEF FreshInv
    <2> QED
      BY <1>1, <2>1, FreshStep
  <1>5. CountInv'
    <2>1. s.slot <= Cardinality(Counted) /\ inserted' \subseteq TxnIds
      BY <1>1, Types DEF CountInv
    <2> QED
      BY <1>1, <1>2, <1>3, <2>1, CountStep
  <1> QED
    BY <1>2, <1>4, <1>5, PinnedStep

\* A handler that is publishing or has found room keeps the others' fresh
\* pages alone: it is not on one.
LEMMA NotFresh ==
  ASSUME FreshInv, NEW c \in Connections,
         session[c].pc \in RoomFound \cup {"publish", "init", "log", "set_lsn"},
         NEW d \in Connections \ {c}, session[d].pc \in {"publish", "init"}
  PROVE  session[c].page # session[d].page
  BY DEF FreshInv, LeavesFresh

LEMMA UpdateFirstPageIdInv ==
  ASSUME Inv, NEW c \in Connections, UpdateFirstPageId(c)
  PROVE  Inv'
  <1>1. Typed /\ SessionOK(session[c]) /\ FreshInv /\ CountInv /\ session[c].pc = "publish"
    BY Parts DEF UpdateFirstPageId, At
  <1>2. PICK s \in SessionType : Moved(c, s) /\ s.pc = "init" /\ Carries(s, session[c])
    BY <1>1, GotoMoved DEF UpdateFirstPageId, PCs, PinnedAt
  <1>3. /\ UNCHANGED <<table_exists, storeVars, txnVars, answerVars>> /\ first_page_id' = session[c].page
        /\ s \in SessionType'
    BY <1>1, <1>2, LsnGrows DEF UpdateFirstPageId, txnVars
  <1>4. SessionOK(s)'
    BY <1>1, <1>2, <1>3 DEF SessionOK, Carries, InsertAt, CountRead, RoomFound, Working, PinnedAt,
      PagesOut, storeVars, txnVars
  <1>5. \A d \in Connections \ {c} : session[d].pc \in {"publish", "init"} => LeavesFresh(s, session[d].page)
    BY <1>1, <1>2, NotFresh DEF LeavesFresh, Carries
  <1>6. s.tuple_count <= Cardinality(Counted)
    BY <1>1, <1>2 DEF CountInv, Carries
  <1> QED
    BY <1>1, <1>2, <1>3, <1>4, <1>5, <1>6, ReadingStep
       DEF Carries, PinnedAt, CountRead, CountedAt, storeVars, txnVars, answerVars

LEMMA ReadTupleCountInv ==
  ASSUME Inv, NEW c \in Connections, ReadTupleCount(c)
  PROVE  Inv'
  <1>1. /\ Typed /\ SessionOK(session[c]) /\ FreshInv /\ CountInv
        /\ session[c].pc = "insert" /\ session[c].page \in PageIds
    BY Parts, PageAtHand DEF ReadTupleCount, At, PinnedAt
  <1>2. PICK n \in 0 .. MaxSlots : n = GetTupleCount(pages[session[c].page])
    BY <1>1, PageFields
  <1>3. PICK s \in SessionType :
          /\ Moved(c, s) /\ s.pc = "space" /\ s.tuple_count = n /\ s.stmt = session[c].stmt
          /\ s.txn = session[c].txn /\ s.page = session[c].page /\ s.slot = session[c].slot
    <2>1. session \in [Connections -> SessionType]
      BY <1>1, Types
    <2>2. PICK s : s = [session[c] EXCEPT !.tuple_count = n, !.pc = "space"]
      OBVIOUS
    <2>3. s \in SessionType
      <3>1. "space" \in PCs
        BY DEF PCs, PinnedAt
      <3> QED
        BY <2>1, <2>2, <3>1 DEF SessionType
    <2>4. Moved(c, s)
      BY <1>2, <2>1, <2>2 DEF ReadTupleCount, Page, Moved
    <2> QED
      BY <2>1, <2>2, <2>3, <2>4 DEF SessionType
  <1>4. UNCHANGED <<tableVars, storeVars, txnVars, answerVars>> /\ s \in SessionType'
    BY <1>1, <1>3, LsnGrows DEF ReadTupleCount, txnVars
  <1>5. SessionOK(s)'
    BY <1>1, <1>3, <1>4 DEF SessionOK, InsertAt, CountRead, RoomFound, Working, PinnedAt,
      PagesOut, storeVars, txnVars
  <1>6. \A d \in Connections \ {c} : session[d].pc \in {"publish", "init"} => LeavesFresh(s, session[d].page)
    <2> SUFFICES ASSUME NEW d \in Connections \ {c}, session[d].pc \in {"publish", "init"},
                        s.page = session[d].page
                 PROVE  s.tuple_count = 0
      BY <1>3 DEF LeavesFresh, RoomFound
    <2>1. pages[session[d].page] = ZeroPage
      BY <1>1 DEF FreshInv
    <2> QED
      BY <1>1, <1>2, <1>3, <2>1, Types, ZeroPageType
  <1>7. s.tuple_count <= Cardinality(Counted)
    BY <1>1, <1>2, <1>3 DEF CountInv
  <1> QED
    BY <1>1, <1>3, <1>4, <1>5, <1>6, <1>7, ReadingStep
       DEF PinnedAt, CountedAt, tableVars, storeVars, txnVars, answerVars

LEMMA ReadFreeSpacePointerInv ==
  ASSUME Inv, NEW c \in Connections, ReadFreeSpacePointer(c)
  PROVE  Inv'
  <1>1. /\ Typed /\ SessionOK(session[c]) /\ FreshInv /\ CountInv
        /\ session[c].pc = "space" /\ session[c].page \in PageIds
        /\ session[c].tuple_count <= Cardinality(Counted)
    BY Parts, PageAtHand DEF ReadFreeSpacePointer, At, PinnedAt, CountInv
  <1>2. UNCHANGED <<tableVars, storeVars, txnVars, answerVars>>
    BY DEF ReadFreeSpacePointer
  <1>3. CASE /\ EnoughSpace(GetFreeSpacePointer(Page(c)), session[c].tuple_count)
             /\ session' = [session EXCEPT ![c].free_space = GetFreeSpacePointer(Page(c)) - TUPLE_SIZE,
                                           ![c].pc = "set_free"]
    <2>1. PICK f \in 0 .. PAGE_SIZE : f = GetFreeSpacePointer(pages[session[c].page])
      BY <1>1, PageFields
    <2>2. session[c].tuple_count \in Nat /\ EnoughSpace(f, session[c].tuple_count)
      BY <1>1, <1>3, <2>1, Fields, MaxSlotsNat DEF Page
    <2>3. PICK g \in 0 .. PAGE_SIZE : /\ g = f - TUPLE_SIZE /\ f # 0 /\ session[c].tuple_count + 1 <= MaxSlots
                                      /\ HEADER_SIZE <= g /\ g + TUPLE_SIZE <= PAGE_SIZE
      <3>1. PICK n \in Nat : n = session[c].tuple_count
        BY <2>2
      <3>2. /\ n + 1 <= MaxSlots /\ f - TUPLE_SIZE \in 0 .. PAGE_SIZE /\ f # 0
            /\ HEADER_SIZE <= f - TUPLE_SIZE /\ (f - TUPLE_SIZE) + TUPLE_SIZE <= PAGE_SIZE
        BY <2>2, <3>1, RoomForRow
      <3> QED
        BY <3>1, <3>2
    <2>4. PICK s \in SessionType :
            /\ Moved(c, s) /\ s.pc = "set_free" /\ s.free_space = g
            /\ s.tuple_count = session[c].tuple_count /\ s.stmt = session[c].stmt
            /\ s.txn = session[c].txn /\ s.page = session[c].page /\ s.slot = session[c].slot
      <3>1. session \in [Connections -> SessionType] /\ "set_free" \in PCs
        BY <1>1, Types DEF PCs, PinnedAt
      <3>2. PICK s : s = [session[c] EXCEPT !.free_space = g, !.pc = "set_free"]
        OBVIOUS
      <3>3. s \in SessionType
        BY <3>1, <3>2 DEF SessionType
      <3>4. Moved(c, s)
        BY <1>3, <2>1, <2>3, <3>1, <3>2 DEF Page, Moved
      <3> QED
        BY <3>1, <3>2, <3>3, <3>4 DEF SessionType
    <2>5. SessionOK(s)' /\ s \in SessionType'
      <3>1. s \in SessionType'
        BY <1>1, <1>2, LsnGrows DEF txnVars
      <3> QED
        BY <1>1, <1>2, <2>3, <2>4, <3>1 DEF SessionOK, InsertAt, CountRead, RoomFound, Working, PinnedAt,
          PagesOut, storeVars, txnVars
    <2>7. \A d \in Connections \ {c} : session[d].pc \in {"publish", "init"} => LeavesFresh(s, session[d].page)
      <3> SUFFICES ASSUME NEW d \in Connections \ {c}, session[d].pc \in {"publish", "init"},
                          s.page = session[d].page
                   PROVE  FALSE
        BY DEF LeavesFresh
      <3>1. pages[session[d].page] = ZeroPage
        BY <1>1 DEF FreshInv
      <3> QED
        BY <1>1, <2>1, <2>3, <2>4, <3>1, Types, ZeroPageType
    <2> QED
      BY <1>1, <1>2, <2>4, <2>5, <2>7, ReadingStep
         DEF PinnedAt, CountedAt, tableVars, storeVars, txnVars, answerVars
  <1>4. CASE Goto(c, "unpin")
    <2>1. PICK s \in SessionType : Moved(c, s) /\ s.pc = "unpin" /\ Carries(s, session[c])
      BY <1>1, <1>4, GotoMoved DEF PCs, PinnedAt
    <2>2. SessionOK(s)' /\ s \in SessionType'
      <3>1. s \in SessionType'
        BY <1>1, <1>2, LsnGrows DEF txnVars
      <3> QED
        BY <1>1, <1>2, <2>1, <3>1 DEF SessionOK, Carries, InsertAt, CountRead, RoomFound, Working, PinnedAt,
          PagesOut, storeVars, txnVars
    <2>3. \A d \in Connections \ {c} : session[d].pc \in {"publish", "init"} => LeavesFresh(s, session[d].page)
      BY <2>1 DEF LeavesFresh, RoomFound
    <2> QED
      BY <1>1, <1>2, <2>1, <2>2, <2>3, ReadingStep
         DEF Carries, PinnedAt, CountRead, CountedAt, tableVars, storeVars, txnVars, answerVars
  <1> QED
    BY <1>3, <1>4 DEF ReadFreeSpacePointer

LEMMA LogInsertInv ==
  ASSUME Inv, NEW c \in Connections, LogInsert(c)
  PROVE  Inv'
  <1>1. /\ Typed /\ SessionOK(session[c]) /\ FreshInv /\ CountInv /\ session[c].pc = "log"
        /\ session[c].page \in PageIds /\ session[c].tuple_count <= Cardinality(Counted)
    BY Parts, PageAtHand DEF LogInsert, At, PinnedAt, CountInv
  <1>2. UNCHANGED <<tableVars, storeVars, issued, active, answerVars>> /\ next_lsn' = next_lsn + 1
    BY DEF LogInsert
  <1>3. PICK s \in SessionType' :
          /\ Moved(c, s) /\ s.pc = "set_lsn"
          /\ s.tuple_count = session[c].tuple_count /\ s.stmt = session[c].stmt
          /\ s.txn = session[c].txn /\ s.page = session[c].page /\ s.slot = session[c].slot
    <2>1. session \in [Connections -> SessionType] /\ "set_lsn" \in PCs /\ next_lsn \in Nat
      BY <1>1, Types DEF PCs, PinnedAt
    <2>2. session[c] \in SessionType'
      BY <1>1, <1>2, <2>1, LsnGrows
    <2>3. next_lsn \in 0 .. next_lsn' - 1
      BY <1>2, <2>1
    <2>4. PICK s : s = [session[c] EXCEPT !.lsn = next_lsn, !.pc = "set_lsn"]
      OBVIOUS
    <2>5. s \in SessionType'
      BY <2>1, <2>2, <2>3, <2>4 DEF SessionType
    <2>6. Moved(c, s)
      BY <2>1, <2>4 DEF LogInsert, Moved
    <2> QED
      BY <2>1, <2>4, <2>5, <2>6 DEF SessionType
  <1>4. SessionOK(s)'
    BY <1>1, <1>2, <1>3 DEF SessionOK, InsertAt, CountRead, RoomFound, Working, PinnedAt, PagesOut, storeVars
  <1>5. \A d \in Connections \ {c} : session[d].pc \in {"publish", "init"} => LeavesFresh(s, session[d].page)
    BY <1>1, <1>3, NotFresh DEF LeavesFresh
  <1> QED
    BY <1>1, <1>2, <1>3, <1>4, <1>5, ReadingStep
       DEF PinnedAt, CountRead, CountedAt, tableVars, storeVars, answerVars

\* The id NewPage hands out is one that no handler and no table knows yet: no
\* pin is on it and its page is zero.
LEMMA NewPageInv ==
  ASSUME Inv, NEW c \in Connections, NewPage(c)
  PROVE  Inv'
  <1>1. /\ Typed /\ (\A d \in Connections : SessionOK(session[d])) /\ TableInv /\ IssuedInv /\ PinsBalanced
        /\ TxnInv /\ ActiveTransactions /\ FreshInv /\ CountInv
        /\ session[c].pc = "locate"
    BY Parts DEF NewPage, At
  <1>2. UNCHANGED <<tableVars, pages, txnVars, answerVars>> /\ next_page_id' = next_page_id + 1
    BY DEF NewPage
  <1>3. next_page_id \in PageIds /\ next_page_id + 1 \in 0 .. MaxStatements
        /\ next_page_id \notin PagesOut \cup {NoPage} /\ next_page_id \in PagesOut'
    <2>1. PICK A : A = Requesting
      OBVIOUS
    <2>2. A \in SUBSET Connections /\ c \in A
      BY <1>1, <2>1 DEF Requesting
    <2>3. IsFiniteSet(A) /\ Cardinality(A) \in Nat /\ Cardinality(A) # 0
      <3>1. IsFiniteSet(A) /\ Cardinality(A) \in Nat
        BY <2>2, FS_Subset, FS_CardinalityType, SessionsAssumption
      <3>2. A # {}
        BY <2>2
      <3> QED
        BY <3>1, <3>2, FS_EmptySet
    <2>4. next_page_id \in Nat /\ issued \in Nat /\ issued <= MaxStatements
      BY <1>1, Types, Sizes
    <2>5. next_page_id + Cardinality(A) <= issued
      BY <1>1, <2>1 DEF IssuedInv
    <2>6. next_page_id \in PageIds /\ next_page_id + 1 \in 0 .. MaxStatements
      BY <2>3, <2>4, <2>5, Sizes DEF PageIds
    <2>7. next_page_id \notin PagesOut /\ next_page_id \in PagesOut'
      BY <1>2, <2>4 DEF PagesOut
    <2> QED
      BY <2>6, <2>7, SessionsAssumption
  <1>4. \A d \in Connections : session[d].page # next_page_id
    BY <1>1, <1>3 DEF SessionOK
  <1>5. PICK s \in SessionType :
          /\ Moved(c, s) /\ s.pc = "publish" /\ s.page = next_page_id /\ s.stmt = session[c].stmt
          /\ s.txn = session[c].txn /\ s.tuple_count = session[c].tuple_count /\ s.slot = session[c].slot
    <2>1. session \in [Connections -> SessionType] /\ "publish" \in PCs
      BY <1>1, Types DEF PCs, PinnedAt
    <2>2. PICK s : s = [session[c] EXCEPT !.page = next_page_id, !.pc = "publish"]
      OBVIOUS
    <2>3. s \in SessionType
      BY <1>3, <2>1, <2>2 DEF SessionType
    <2>4. Moved(c, s)
      BY <2>1, <2>2 DEF NewPage, Moved
    <2> QED
      BY <2>1, <2>2, <2>3, <2>4 DEF SessionType
  <1>6. s \in SessionType' /\ session' \in [Connections -> SessionType'] /\ pages' \in [PageIds -> PageType']
        /\ session'[c] = s /\ \A d \in Connections \ {c} : session'[d] = session[d]
    BY <1>1, <1>2, <1>5, LsnGrows, MovedType, MovedAt DEF txnVars
  <1>7. PinsBalanced' /\ pins' \in [PageIds -> 0 .. Cardinality(Connections)]
    <2>1. pins[next_page_id] = 0
      <3>1. {d \in Connections : session[d].page = next_page_id /\ session[d].pc \in PinnedAt} = {}
        BY <1>4
      <3>2. pins[next_page_id] = Cardinality({})
        BY <1>1, <1>3, <3>1 DEF PinsBalanced
      <3> QED
        BY <3>2, FS_EmptySet
    <2>2. pins' = [pins EXCEPT ![s.page] = @ + 1]
      BY <1>5, <2>1 DEF NewPage
    <2>3. s.pc \in PinnedAt /\ session[c].pc \notin PinnedAt /\ s.page \in PageIds
      BY <1>1, <1>3, <1>5 DEF PinnedAt
    <2> QED
      BY <1>1, <1>5, <2>2, <2>3, PinTaken
  <1>8. Typed'
    BY <1>1, <1>2, <1>3, <1>6, <1>7, Types, TypesNext DEF tableVars, txnVars, answerVars
  <1>9. (\A d \in Connections : SessionOK(session[d]))'
    <2>1. s.page # NoPage /\ s.page \in PagesOut'
      BY <1>3, <1>5
    <2>2. SessionOK(s)'
      BY <1>1, <1>2, <1>5, <2>1 DEF SessionOK, InsertAt, CountRead, RoomFound, Working, PinnedAt, txnVars
    <2> QED
      BY <1>1, <1>2, <1>5, <2>2, SessionsKept DEF txnVars
  <1>10. TableInv'
    <2>1. next_page_id \in Nat
      BY <1>1, Types, Sizes
    <2>2. PagesOut \subseteq PagesOut'
      BY <1>2, <2>1 DEF PagesOut
    <2>3. \A d \in Connections : session'[d].pc \in {"locate", "publish"} => table_exists
      BY <1>1, <1>6 DEF TableInv
    <2>4. \A p \in PageIds : p >= next_page_id + 1 => p >= next_page_id
      BY <2>1, Sizes DEF PageIds
    <2>5. \A p \in PageIds : p >= next_page_id' => pages'[p] = ZeroPage
      BY <1>1, <1>2, <2>4 DEF TableInv
    <2> QED
      BY <1>1, <1>2, <2>2, <2>3, <2>5 DEF TableInv, tableVars
  <1>11. IssuedInv'
    BY <1>1, <1>2, <1>5, RequestsStep DEF txnVars
  <1>12. TxnInv' /\ ActiveTransactions'
    <2>1. s.pc \in PCs /\ s.pc \in Working /\ session[c].pc \in Working
      BY <1>1, <1>5 DEF PCs, Working, PinnedAt
    <2> QED
      BY <1>1, <1>2, <1>5, <2>1, TxnsKept DEF txnVars, answerVars
  <1>13. Counted \subseteq Counted'
    BY <1>1, <1>2, <1>5, CountedKept DEF CountedAt, answerVars
  <1>14. FreshInv'
    <2>1. pages'[s.page] = ZeroPage
      <3>1. next_page_id >= next_page_id
        BY <1>1, Types, Sizes
      <3> QED
        BY <1>1, <1>2, <1>3, <1>5, <3>1 DEF TableInv
    <2> QED
      BY <1>1, <1>2, <1>4, <1>5, <2>1, FreshStep DEF LeavesFresh
  <1>15. CountInv'
    <2>1. inserted' \subseteq TxnIds
      BY <1>1, <1>2, Types DEF answerVars
    <2>2. s.tuple_count <= Cardinality(Counted) /\ s.slot <= Cardinality(Counted)
      BY <1>1, <1>5 DEF CountInv
    <2> QED
      BY <1>1, <1>2, <1>5, <1>6, <1>13, <2>1, <2>2, CountStep
  <1> QED
    BY <1>7, <1>8, <1>9, <1>10, <1>11, <1>12, <1>14, <1>15, PartsNext
-----------------------------------------------------------------------------
(***************************************************************************)
(* The actions: stores into the page.                                      *)
(***************************************************************************)
Follows(from, to) ==
  /\ from \in (RoomFound \cup {"init", "set_lsn"}) \cap InsertAt \cap PinnedAt
  /\ to \in (InsertAt \cap PinnedAt) \ {"publish", "init"}
  /\ to \in RoomFound => from \in RoomFound
  /\ from \in CountedAt => to \in CountedAt
  /\ from \in CountedAt => to \in CountedAt

LEMMA StoreOrder ==
  /\ Follows("init", "insert") /\ Follows("set_free", "copy") /\ Follows("copy", "set_slot")
  /\ Follows("set_slot", "set_count") /\ Follows("set_count", "log") /\ Follows("set_lsn", "unpin")
  BY DEF Follows, RoomFound, InsertAt, CountRead, PinnedAt, CountedAt

\* What a store leaves.
StoredAs(c, s, page, to) ==
  /\ Moved(c, s) /\ SessionOK(s)' /\ s.pc = to /\ Carries(s, session[c])
  /\ session' \in [Connections -> SessionType']
  /\ session'[c] = s /\ \A d \in Connections \ {c} : session'[d] = session[d]
  /\ pages' \in [PageIds -> PageType'] /\ session[c].page \in PageIds
  /\ pages'[session[c].page] = page /\ \A p \in PageIds \ {session[c].page} : pages'[p] = pages[p]
  /\ Counted \subseteq Counted' /\ FreshInv'

LEMMA Stored ==
  ASSUME Inv, NEW c \in Connections, NEW from, NEW page \in PageType, NEW to, Store(c, from, page, to),
         Follows(from, to)
  PROVE  \E s \in SessionType' : StoredAs(c, s, page, to)
  <1> USE DEF Follows
  <1>1. /\ Typed /\ SessionOK(session[c]) /\ FreshInv /\ session[c].pc = from
        /\ session[c].page \in PageIds /\ session[c].stmt = "INSERT"
    BY Parts, PageAtHand DEF Store, At, SessionOK
  <1>2. /\ pages' = [pages EXCEPT ![session[c].page] = page] /\ Goto(c, to)
        /\ UNCHANGED <<tableVars, next_page_id, pins, txnVars, answerVars>>
    BY DEF Store
  <1>3. PICK s \in SessionType : Moved(c, s) /\ s.pc = to /\ Carries(s, session[c])
    BY <1>1, <1>2, GotoMoved DEF PCs
  <1>4. s \in SessionType' /\ page \in PageType' /\ pages \in [PageIds -> PageType']
    BY <1>1, <1>2, LsnGrows DEF txnVars
  <1>5. session' \in [Connections -> SessionType'] /\ session'[c] = s
        /\ \A d \in Connections \ {c} : session'[d] = session[d]
    BY <1>1, <1>2, <1>3, <1>4, MovedType, MovedAt DEF txnVars
  <1>6. /\ pages' \in [PageIds -> PageType']
        /\ pages'[session[c].page] = page /\ \A p \in PageIds \ {session[c].page} : pages'[p] = pages[p]
    BY <1>1, <1>2, <1>4
  <1>7. SessionOK(s)'
    <2>1. to \notin {"connect", "read", "closed", "bind", "scan", "open", "fetch", "commit"}
      BY DEF InsertAt, CountRead
    <2> QED
      BY <1>1, <1>2, <1>3, <2>1 DEF SessionOK, Carries, Working, PagesOut, txnVars
  <1>8. Counted \subseteq Counted'
    <2>1. inserted' = inserted
      BY <1>2 DEF answerVars
    <2> QED
      BY <1>1, <1>3, <2>1, CountedKept DEF Carries
  <1>9. FreshInv'
    <2>1. \A d \in Connections \ {c} : session[d].pc \in {"publish", "init"} => session[c].page # session[d].page
      BY <1>1, NotFresh
    <2>2. \A d \in Connections \ {c} : session[d].pc \in {"publish", "init"} => session[d].page \in PageIds
      BY <1>1, Parts, PageAtHand DEF PinnedAt
    <2>3. \A d \in Connections \ {c} : session[d].pc \in {"publish", "init"} =>
            pages'[session[d].page] = pages[session[d].page] /\ LeavesFresh(s, session[d].page)
      BY <1>3, <1>6, <2>1, <2>2 DEF LeavesFresh, Carries
    <2> QED
      BY <1>1, <1>3, <2>3, FreshStep
  <1> QED
    BY <1>1, <1>3, <1>4, <1>5, <1>6, <1>7, <1>8, <1>9 DEF StoredAs

\* With the remaining conjuncts the step keeps the invariant.
LEMMA StoreInv ==
  ASSUME Inv, NEW c \in Connections, NEW from, NEW page, NEW to, Store(c, from, page, to),
         from \in PinnedAt, to \in PinnedAt \ {"publish"},
         NEW s \in SessionType', Moved(c, s), SessionOK(s)', s.pc = to, Carries(s, session[c]),
         session' \in [Connections -> SessionType'],
         pages' \in [PageIds -> PageType'], \A p \in PageIds \ {session[c].page} : pages'[p] = pages[p],
         FreshInv', CountInv'
  PROVE  Inv'
  <1>1. /\ UNCHANGED <<tableVars, next_page_id, pins, txnVars, answerVars>> /\ session[c].pc = from
    BY DEF Store, At
  <1> QED
    BY <1>1, PinnedStep DEF Carries, tableVars, txnVars, answerVars

\* A store that leaves the count as it is, or covers it, keeps CountInv.
LEMMA StoreCount ==
  ASSUME Inv, NEW c \in Connections, NEW s \in SessionType', Moved(c, s), Carries(s, session[c]),
         inserted' = inserted, session' \in [Connections -> SessionType'], Counted \subseteq Counted',
         session[c].page \in PageIds, \A p \in PageIds \ {session[c].page} : pages'[p] = pages[p],
         \/ GetTupleCount(pages'[session[c].page]) = GetTupleCount(pages[session[c].page])
         \/ GetTupleCount(pages'[session[c].page]) <= Cardinality(Counted')
  PROVE  CountInv'
  <1>1. Typed /\ CountInv
    BY Parts
  <1>2. s.tuple_count <= Cardinality(Counted) /\ s.slot <= Cardinality(Counted)
    BY <1>1 DEF CountInv, Carries
  <1>3. \A p \in PageIds : GetTupleCount(pages'[p]) = GetTupleCount(pages[p])
                           \/ GetTupleCount(pages'[p]) <= Cardinality(Counted')
    BY <1>1
  <1>4. inserted' \subseteq TxnIds
    BY <1>1, Types
  <1> QED
    BY <1>1, <1>2, <1>3, <1>4, CountStep

\* A store that leaves the count as it is keeps the invariant.
LEMMA StoreKeeps ==
  ASSUME Inv, NEW c \in Connections, NEW from, NEW page \in PageType, NEW to, Store(c, from, page, to),
         Follows(from, to), GetTupleCount(page) = GetTupleCount(Page(c))
  PROVE  Inv'
  <1>1. PICK s \in SessionType' : StoredAs(c, s, page, to)
    BY Stored
  <1>2. inserted' = inserted
    BY DEF Store, answerVars
  <1>3. CountInv'
    BY <1>1, <1>2, StoreCount DEF StoredAs, Page
  <1>4. from \in PinnedAt /\ to \in PinnedAt \ {"publish"}
    BY DEF Follows
  <1> QED
    BY <1>1, <1>3, <1>4, StoreInv DEF StoredAs

\* The page at hand, and what has been found out about it.
LEMMA AtStore ==
  ASSUME Inv, NEW c \in Connections, session[c].pc \in RoomFound \cup {"init", "set_lsn"}
  PROVE  /\ Typed /\ session[c].page \in PageIds /\ pages[session[c].page] \in PageType
         /\ session[c].pc \in RoomFound =>
              /\ session[c].tuple_count \in 0 .. MaxSlots - 1
              /\ session[c].free_space \in HEADER_SIZE .. PAGE_SIZE - TUPLE_SIZE
  <1>1. Typed /\ SessionOK(session[c]) /\ session[c].pc \in PinnedAt
    BY Parts DEF RoomFound, PinnedAt
  <1>2. session[c].page \in PageIds
    BY <1>1, PageAtHand
  <1>3. pages[session[c].page] \in PageType
    BY <1>1, <1>2, Types
  <1>4. session[c].tuple_count \in Nat /\ session[c].free_space \in Nat
    BY <1>1, Fields, MaxSlotsNat, Sizes
  <1>5. session[c].pc \in RoomFound =>
          /\ session[c].tuple_count + 1 <= MaxSlots /\ HEADER_SIZE <= session[c].free_space
          /\ session[c].free_space + TUPLE_SIZE <= PAGE_SIZE
    BY <1>1 DEF SessionOK
  <1>6. PICK n \in Nat, f \in Nat : n = session[c].tuple_count /\ f = session[c].free_space
    BY <1>4
  <1>7. session[c].pc \in RoomFound => n \in 0 .. MaxSlots - 1 /\ f \in HEADER_SIZE .. PAGE_SIZE - TUPLE_SIZE
    BY <1>5, <1>6, MaxSlotsNat, Sizes
  <1> QED
    BY <1>1, <1>2, <1>3, <1>6, <1>7

LEMMA InitPageInv ==
  ASSUME Inv, NEW c \in Connections, InitPage(c)
  PROVE  Inv'
  <1>1. PICK page : page = [ZeroPage EXCEPT ![FREE_SPACE_OFFSET] = PAGE_SIZE]
    OBVIOUS
  <1>2. Store(c, "init", page, "insert") /\ session[c].pc = "init"
    BY <1>1 DEF InitPage, Store, At
  <1>3. Typed
    BY Parts
  <1>4. page \in PageType /\ GetTupleCount(page) = GetTupleCount(ZeroPage)
    <2>1. ZeroPage \in PageType /\ FREE_SPACE_OFFSET \in 0 .. HEADER_SIZE - 1 /\ PAGE_SIZE \in 0 .. PAGE_SIZE
      <3>1. next_lsn \in Nat \ {0}
        BY <1>3, Types
      <3>2. FREE_SPACE_OFFSET \in 0 .. HEADER_SIZE - 1 /\ PAGE_SIZE \in 0 .. PAGE_SIZE
        BY Sizes DEF FREE_SPACE_OFFSET, HEADER_SIZE
      <3> QED
        BY <3>1, <3>2, ZeroPageType
    <2>2. PAGE_SIZE \in Nat
      BY Sizes
    <2>3. FREE_SPACE_OFFSET # LSN_OFFSET /\ FREE_SPACE_OFFSET # TUPLE_COUNT_OFFSET
      BY DEF FREE_SPACE_OFFSET, TUPLE_COUNT_OFFSET, LSN_OFFSET
    <2>4. PICK o \in 0 .. HEADER_SIZE - 1, v \in Nat : o = FREE_SPACE_OFFSET /\ v = PAGE_SIZE
      BY <2>1, <2>2
    <2>5. [ZeroPage EXCEPT ![o] = v] \in PageType /\ GetTupleCount([ZeroPage EXCEPT ![o] = v]) = GetTupleCount(ZeroPage)
      BY <2>1, <2>3, <2>4, HeaderStore
    <2> QED
      BY <1>1, <2>4, <2>5
  <1>5. Page(c) = ZeroPage
    BY <1>2, Parts DEF FreshInv, Page
  <1> QED
    BY <1>2, <1>4, <1>5, StoreKeeps, StoreOrder

LEMMA SetFreeSpacePointerInv ==
  ASSUME Inv, NEW c \in Connections, SetFreeSpacePointer(c)
  PROVE  Inv'
  <1>1. session[c].pc = "set_free"
    BY DEF SetFreeSpacePointer, Store, At
  <1>2. PICK page : page = [pages[session[c].page] EXCEPT ![FREE_SPACE_OFFSET] = session[c].free_space]
    OBVIOUS
  <1>3. Store(c, "set_free", page, "copy")
    BY <1>2 DEF SetFreeSpacePointer, Page
  <1>4. Typed /\ pages[session[c].page] \in PageType /\ session[c].free_space \in 0 .. PAGE_SIZE
    BY <1>1, AtStore, Fields DEF RoomFound
  <1>5. page \in PageType /\ GetTupleCount(page) = GetTupleCount(pages[session[c].page])
    <2>1. FREE_SPACE_OFFSET \in 0 .. HEADER_SIZE - 1 /\ session[c].free_space \in Nat
      BY <1>4, Sizes DEF FREE_SPACE_OFFSET, HEADER_SIZE
    <2> QED
      BY <1>2, <1>4, <2>1, HeaderStore DEF FREE_SPACE_OFFSET, TUPLE_COUNT_OFFSET, LSN_OFFSET
  <1> QED
    BY <1>3, <1>5, StoreKeeps, StoreOrder DEF Page

LEMMA SetLSNInv ==
  ASSUME Inv, NEW c \in Connections, SetLSN(c)
  PROVE  Inv'
  <1>1. session[c].pc = "set_lsn"
    BY DEF SetLSN, Store, At
  <1>2. PICK page : page = [pages[session[c].page] EXCEPT ![LSN_OFFSET] = session[c].lsn]
    OBVIOUS
  <1>3. Store(c, "set_lsn", page, "unpin")
    BY <1>2 DEF SetLSN, Page
  <1>4. Typed /\ pages[session[c].page] \in PageType
    BY <1>1, AtStore
  <1>5. session[c].lsn \in Nat /\ session[c].lsn < next_lsn
    <2>1. session[c].lsn \in 0 .. next_lsn - 1 /\ next_lsn \in Nat
      BY <1>4, Types DEF SessionType
    <2> QED
      BY <2>1
  <1>6. page \in PageType /\ GetTupleCount(page) = GetTupleCount(pages[session[c].page])
    <2>1. LSN_OFFSET \in 0 .. HEADER_SIZE - 1
      BY DEF LSN_OFFSET, HEADER_SIZE
    <2> QED
      BY <1>2, <1>4, <1>5, <2>1, HeaderStore DEF FREE_SPACE_OFFSET, TUPLE_COUNT_OFFSET, LSN_OFFSET
  <1> QED
    BY <1>3, <1>6, StoreKeeps, StoreOrder DEF Page

LEMMA CopyTupleInv ==
  ASSUME Inv, NEW c \in Connections, CopyTuple(c)
  PROVE  Inv'
  <1>1. session[c].pc = "copy"
    BY DEF CopyTuple, Store, At
  <1>2. PICK f \in HEADER_SIZE .. PAGE_SIZE - TUPLE_SIZE : f = session[c].free_space
    BY <1>1, AtStore DEF RoomFound
  <1>3. PICK page : page = [o \in Offsets |-> IF o \in f .. f + TUPLE_SIZE - 1 THEN 0 ELSE pages[session[c].page][o]]
    OBVIOUS
  <1>4. Store(c, "copy", page, "set_slot")
    BY <1>2, <1>3 DEF CopyTuple, TupleCells, Page
  <1>5. pages[session[c].page] \in PageType
    BY <1>1, AtStore DEF RoomFound
  <1>6. page \in PageType /\ GetTupleCount(page) = GetTupleCount(pages[session[c].page])
    BY <1>3, <1>5, TupleStore
  <1> QED
    BY <1>4, <1>6, StoreKeeps, StoreOrder DEF Page

LEMMA SetSlotInv ==
  ASSUME Inv, NEW c \in Connections, SetSlot(c)
  PROVE  Inv'
  <1>1. session[c].pc = "set_slot"
    BY DEF SetSlot, Store, At
  <1>2. PICK f \in HEADER_SIZE .. PAGE_SIZE - TUPLE_SIZE, n \in 0 .. MaxSlots - 1 :
          f = session[c].free_space /\ n = session[c].tuple_count
    BY <1>1, AtStore DEF RoomFound
  <1>3. PICK page : page = [pages[session[c].page] EXCEPT ![SlotOffset(n)] = f, ![SlotOffset(n) + 1] = TUPLE_SIZE]
    OBVIOUS
  <1>4. Store(c, "set_slot", page, "set_count")
    BY <1>2, <1>3 DEF SetSlot, Page
  <1>5. pages[session[c].page] \in PageType
    BY <1>1, AtStore DEF RoomFound
  <1>6. page \in PageType /\ GetTupleCount(page) = GetTupleCount(pages[session[c].page])
    BY <1>3, <1>5, SlotStore
  <1> QED
    BY <1>4, <1>6, StoreKeeps, StoreOrder DEF Page

LEMMA SetTupleCountInv ==
  ASSUME Inv, NEW c \in Connections, SetTupleCount(c)
  PROVE  Inv'
  <1>1. session[c].pc = "set_count"
    BY DEF SetTupleCount, Store, At
  <1>2. /\ Typed /\ (\A d \in Connections : SessionOK(session[d])) /\ CountInv
        /\ session[c].page \in PageIds /\ pages[session[c].page] \in PageType
    BY <1>1, Parts, AtStore DEF RoomFound
  <1>3. PICK n \in 0 .. MaxSlots : n = session[c].tuple_count + 1
    <2>1. session[c].tuple_count \in 0 .. MaxSlots - 1
      BY <1>1, AtStore DEF RoomFound
    <2> QED
      BY <2>1, MaxSlotsNat
  <1>4. PICK page : page = [pages[session[c].page] EXCEPT ![TUPLE_COUNT_OFFSET] = n]
    OBVIOUS
  <1>5. Store(c, "set_count", page, "log")
    BY <1>3, <1>4 DEF SetTupleCount, Page
  <1>6. page \in PageType /\ GetTupleCount(page) = session[c].tuple_count + 1
    <2>1. TUPLE_COUNT_OFFSET \in 0 .. HEADER_SIZE - 1 /\ n \in Nat
      BY MaxSlotsNat DEF TUPLE_COUNT_OFFSET, HEADER_SIZE
    <2> QED
      BY <1>2, <1>3, <1>4, <2>1, HeaderStore DEF TUPLE_COUNT_OFFSET, LSN_OFFSET, FREE_SPACE_OFFSET
  <1>7. PICK s \in SessionType' :
          /\ Moved(c, s) /\ SessionOK(s)' /\ s.pc = "log" /\ Carries(s, session[c])
          /\ session' \in [Connections -> SessionType']
          /\ session'[c] = s /\ \A d \in Connections \ {c} : session'[d] = session[d]
          /\ pages' \in [PageIds -> PageType'] /\ session[c].page \in PageIds
          /\ pages'[session[c].page] = page /\ \A p \in PageIds \ {session[c].page} : pages'[p] = pages[p]
          /\ Counted \subseteq Counted' /\ FreshInv'
    <2>1. \E s \in SessionType' : StoredAs(c, s, page, "log")
      BY <1>5, <1>6, Stored, StoreOrder
    <2> QED
      BY <2>1 DEF StoredAs
  <1>8. inserted' = inserted
    BY DEF SetTupleCount, Store, answerVars
  <1>9. CountInv'
    <2>1. PICK C, D : C = Counted /\ D = Counted'
      OBVIOUS
    <2>2. session[c].txn \notin C
      <3>1. session[c].txn \in active /\ session[c].txn # 0
        BY <1>1, <1>2, Parts, PageAtHand DEF TxnInv, Working, PinnedAt
      <3>2. session[c].txn \notin inserted
        BY <3>1, Parts DEF ActiveTransactions
      <3>3. \A d \in Connections \ {c} : session[d].txn # session[c].txn
        BY <3>1, Parts DEF TxnInv
      <3>4. session[c].pc \notin CountedAt
        BY <1>1 DEF CountedAt
      <3> QED
        BY <2>1, <3>2, <3>3, <3>4 DEF Counted, Doing
    <2>3. session[c].txn \in D
      <3>1. s.stmt = "INSERT" /\ s.pc \in CountedAt /\ s.txn = session[c].txn
        BY <1>1, <1>2, <1>7 DEF SessionOK, InsertAt, CountRead, CountedAt, Carries
      <3> QED
        BY <1>7, <2>1, <3>1 DEF Counted, Doing
    <2>4. IsFiniteSet(C) /\ Cardinality(C) \in Nat
      BY <1>2, <2>1, CountedTypes
    <2>5. IsFiniteSet(D) /\ Cardinality(D) \in Nat
      <3>1. inserted' \subseteq TxnIds
        BY <1>2, <1>8, Types
      <3> QED
        BY <1>7, <2>1, <3>1, CountedTypesNext
    <2>6. Cardinality(C) + 1 <= Cardinality(D)
      <3>1. PICK t : t = session[c].txn
        OBVIOUS
      <3>2. C \cup {t} \in SUBSET D /\ t \notin C
        BY <1>7, <2>1, <2>2, <2>3, <3>1
      <3>3. Cardinality(C \cup {t}) = Cardinality(C) + 1
        BY <2>4, <3>2, FS_AddElement
      <3>4. Cardinality(C \cup {t}) <= Cardinality(D)
        BY <2>5, <3>2, FS_Subset
      <3> QED
        BY <3>3, <3>4
    <2>7. GetTupleCount(page) <= Cardinality(D)
      <3>1. session[c].tuple_count \in Nat /\ session[c].tuple_count <= Cardinality(C)
        BY <1>2, <2>1, Fields, MaxSlotsNat DEF CountInv
      <3> QED
        BY <1>6, <2>4, <2>5, <2>6, <3>1
    <2>8. GetTupleCount(pages'[session[c].page]) <= Cardinality(Counted')
      BY <1>7, <2>1, <2>7
    <2> QED
      BY <1>7, <1>8, <2>8, StoreCount
  <1> QED
    BY <1>5, <1>7, <1>9, StoreInv DEF PinnedAt
-----------------------------------------------------------------------------
(***************************************************************************)
(* The invariant, and what follows from it.                                *)
(***************************************************************************)
LEMMA InitInv == Init => Inv
  <1> SUFFICES ASSUME Init PROVE Inv
    OBVIOUS
  <1>1. session = [c \in Connections |-> Unaccepted] /\ pages = [p \in PageIds |-> ZeroPage]
        /\ pins = [p \in PageIds |-> 0] /\ next_lsn = 1 /\ issued = 0 /\ next_page_id = 0
        /\ active = {} /\ inserted = {} /\ failed = {} /\ table_exists = FALSE /\ first_page_id = NoPage
    BY DEF Init
  <1>2. /\ Unaccepted.pc = "connect" /\ Unaccepted.stmt = "none" /\ Unaccepted.txn = 0
        /\ Unaccepted.page = NoPage /\ Unaccepted.slot = 0 /\ Unaccepted.tuple_count = 0
        /\ GetTupleCount(ZeroPage) = 0 /\ ZeroPage \in PageType
    BY <1>1, ZeroPageType DEF Unaccepted, Reading
  <1>3. 0 \in 0 .. MaxSlots /\ 0 \in 0 .. PAGE_SIZE /\ 0 \in 0 .. 1 - 1 /\ 0 \in Offsets /\ 0 \in 0 .. MaxStatements
        /\ 0 \in 0 .. Cardinality(Connections)
    BY MaxSlotsNat, Sizes, SessionsAssumption, FS_CardinalityType DEF Offsets
  <1>4. Unaccepted \in SessionType
    BY <1>1, <1>3 DEF Unaccepted, Reading, SessionType, PCs
  <1>6. Typed
    <2>1. pages \in [PageIds -> PageType] /\ session \in [Connections -> SessionType]
          /\ pins \in [PageIds -> 0 .. Cardinality(Connections)]
      BY <1>1, <1>2, <1>3, <1>4
    <2>2. /\ first_page_id \in PageIds \cup {NoPage} /\ next_page_id \in 0 .. MaxStatements
          /\ next_lsn \in Nat \ {0} /\ issued \in 0 .. MaxStatements
          /\ active \subseteq TxnIds /\ inserted \subseteq TxnIds /\ failed \subseteq TxnIds
      BY <1>1, <1>3
    <2>3. table_exists \in BOOLEAN
      BY <1>1, Zenon
    <2> QED
      BY <2>1, <2>2, <2>3 DEF Typed, TypeOK, PageType, SessionType, PCs
  <1>7. \A c \in Connections : session[c] = Unaccepted
    BY <1>1
  <1>8. SessionOK(Unaccepted)
    BY <1>1, <1>2 DEF SessionOK, InsertAt, CountRead, RoomFound, Working, PinnedAt
  <1>9. TableInv
    BY <1>1, <1>2, <1>7 DEF TableInv
  <1>10. IssuedInv
    <2>1. Requesting = {}
      BY <1>2, <1>7 DEF Requesting
    <2> QED
      BY <1>1, <2>1, FS_EmptySet DEF IssuedInv
  <1>11. TxnInv /\ ActiveTransactions
    BY <1>1, <1>2, <1>7 DEF TxnInv, ActiveTransactions, Working, PinnedAt, At
  <1>12. PinsBalanced
    <2>1. \A p \in PageIds : {c \in Connections : session[c].page = p /\ session[c].pc \in PinnedAt} = {}
      BY <1>2, <1>7 DEF PinnedAt
    <2>2. \A p \in PageIds : pins[p] = Cardinality({})
      BY <1>1, FS_EmptySet
    <2> QED
      BY <2>1, <2>2 DEF PinsBalanced
  <1>13. FreshInv
    BY <1>2, <1>7 DEF FreshInv
  <1>14. CountInv
    <2>1. Cardinality(Counted) \in Nat
      BY <1>6, CountedTypes
    <2>2. 0 <= Cardinality(Counted)
      BY <2>1
    <2> QED
      BY <1>1, <1>2, <1>7, <2>2 DEF CountInv
  <1> QED
    BY <1>6, <1>7, <1>8, <1>9, <1>10, <1>11, <1>12, <1>13, <1>14 DEF Inv

LEMMA NextInv ==
  ASSUME Inv, Next
  PROVE  Inv'
  <1>1. PICK c \in Connections : Statements(c) \/ Handle(c)
    BY DEF Next
  <1>2. CASE Statements(c)
    BY <1>2, AcceptInv, ReadFailsInv, ReadUnsupportedInv, ReadCreateInv, BeginTxnInv DEF Statements
  <1>3. CASE Insert(c)
    BY <1>3, OpenInv, NewPageInv, UpdateFirstPageIdInv, InitPageInv, ReadTupleCountInv,
       ReadFreeSpacePointerInv, SetFreeSpacePointerInv, CopyTupleInv, SetSlotInv, SetTupleCountInv,
       LogInsertInv, SetLSNInv, UnpinPageInv DEF Insert
  <1>4. CASE Select(c)
    BY <1>4, OpenInv, NextRowInv, UnpinPageInv DEF Select
  <1>5. CASE CreateTable(c) \/ TableNotFound(c) \/ PoolThrows(c) \/ FetchPage(c) \/ Commit(c) \/ Answer(c) \/ AnswerFails(c)
    BY <1>5, CreateTableInv, ThrowInv, FetchPageInv, CommitInv, AnswerInv
  <1> QED
    BY <1>1, <1>2, <1>3, <1>4, <1>5 DEF Handle

LEMMA StutterInv ==
  ASSUME Inv, UNCHANGED vars
  PROVE  Inv'
  <1>1. /\ UNCHANGED <<table_exists, first_page_id, next_page_id, pages, pins, next_lsn,
                       issued, active, session, inserted, failed>>
    BY DEF vars
  <1>2. /\ Typed /\ \A c \in Connections : SessionOK(session[c])
        /\ TableInv /\ IssuedInv /\ TxnInv /\ ActiveTransactions /\ PinsBalanced
        /\ FreshInv /\ CountInv
    BY Parts
  <1>3. Typed'
    BY <1>1, <1>2 DEF Typed, TypeOK, PageType, PageContents
  <1>4. (\A c \in Connections : SessionOK(session[c]))' /\ TableInv'
    BY <1>1, <1>2 DEF SessionOK, TableInv, PagesOut
  <1>5. IssuedInv' /\ TxnInv' /\ ActiveTransactions' /\ PinsBalanced'
    BY <1>1, <1>2 DEF IssuedInv, Requesting, TxnInv, ActiveTransactions, At, PinsBalanced
  <1>6. FreshInv'
    BY <1>1, <1>2 DEF FreshInv, LeavesFresh
  <1>7. Counted' = Counted
    BY <1>1 DEF Counted, Doing
  <1>8. CountInv'
    BY <1>1, <1>2, <1>7 DEF CountInv
  <1> QED
    BY <1>3, <1>4, <1>5, <1>6, <1>8, PartsNext

\* The inductive invariant holds however the statements of all connections
\* interleave.
THEOREM Invariant == Spec => []Inv
  <1>1. Inv /\ [Next]_vars => Inv'
    BY NextInv, StutterInv
  <1> QED
    BY <1>1, InitInv, PTL DEF Spec

\* Slots, offsets, ids and LSNs stay in their ranges: InsertTuple never writes
\* a slot or a tuple outside the page, however stale the header it read, and
\* NewPage never runs out of page ids.
THEOREM TypeCorrect == Spec => []TypeOK
  <1>1. Inv => TypeOK
    BY DEF Inv, Typed
  <1> QED
    BY <1>1, Invariant, PTL

\* However tuples and slots are laid over each other, what GetTuple finds in a
\* slot below tuple_count never leads it out of the page.
THEOREM TuplesAlwaysReadable == Spec => []TuplesReadable
  <1>1. Inv => TuplesReadable
    <2> SUFFICES ASSUME Inv, NEW p \in PageIds, NEW k \in 0 .. GetTupleCount(pages[p]) - 1
                 PROVE  /\ pages[p][SlotOffset(k)] + TUPLE_SIZE <= PAGE_SIZE
                        /\ pages[p][SlotOffset(k) + 1] <= TUPLE_SIZE
      BY DEF TuplesReadable
    <2>1. Typed
      BY Parts
    <2>2. SlotsInside(pages[p])
      BY <2>1, Types DEF PageType
    <2>3. k \in 0 .. MaxSlots - 1
      <3>1. GetTupleCount(pages[p]) \in 0 .. MaxSlots
        BY <2>1, PageFields
      <3> QED
        BY <3>1, MaxSlotsNat
    <2> QED
      BY <2>2, <2>3 DEF SlotsInside
  <1> QED
    BY <1>1, Invariant, PTL

\* A page's pin count is the number of handlers at work on it: FetchPage and
\* NewPage are matched by UnpinPage on each path of both executors.
THEOREM PinsReturned == Spec => []PinsBalanced
  <1>1. Inv => PinsBalanced
    BY DEF Inv
  <1> QED
    BY <1>1, Invariant, PTL

\* A running statement's transaction is active, one whose insert was answered
\* is not, and those of statements that threw stay active for ever.
THEOREM TransactionsTracked == Spec => []ActiveTransactions
  <1>1. Inv => ActiveTransactions
    BY DEF Inv
  <1> QED
    BY <1>1, Invariant, PTL

LEMMA RowsBegun ==
  ASSUME Inv
  PROVE  Counted \subseteq InsertsBegun
  BY DEF Counted, Doing, InsertsBegun

\* SeqScanExecutor never counts more rows than there are INSERTs done or
\* under way, however they interleave with it.
THEOREM ScansCountRows == Spec => []ScanCountsRows
  <1>1. Inv => ScanCountsRows
    <2> SUFFICES ASSUME Inv, NEW c \in Connections PROVE session[c].slot <= Cardinality(InsertsBegun)
      BY DEF ScanCountsRows
    <2>1. Typed /\ CountInv
      BY Parts
    <2>2. PICK C, B : C = Counted /\ B = InsertsBegun
      OBVIOUS
    <2>3. C \in SUBSET B
      BY <2>2, RowsBegun
    <2>4. IsFiniteSet(B)
      <3>1. InsertsBegun \subseteq 0 .. MaxStatements
        <4>1. \A t \in TxnIds \cup {0} : t \in 0 .. MaxStatements
          BY Sizes DEF TxnIds
        <4>2. inserted \subseteq TxnIds /\ \A d \in Connections : session[d].txn \in TxnIds \cup {0}
          BY <2>1, Types, Fields
        <4> QED
          BY <4>1, <4>2 DEF InsertsBegun
      <3>2. PICK D : D = 0 .. MaxStatements
        OBVIOUS
      <3>3. IsFiniteSet(D) /\ B \in SUBSET D
        BY <2>2, <3>1, <3>2, FS_Interval, Sizes
      <3> QED
        BY <3>3, FS_Subset
    <2>5. Cardinality(C) <= Cardinality(B) /\ Cardinality(B) \in Nat /\ Cardinality(C) \in Nat
      BY <2>1, <2>2, <2>3, <2>4, FS_Subset, FS_CardinalityType, CountedTypes
    <2>6. session[c].slot \in Nat /\ session[c].slot <= Cardinality(C)
      BY <2>1, <2>2, Fields, MaxSlotsNat DEF CountInv
    <2>7. session[c].slot <= Cardinality(B)
      BY <2>5, <2>6
    <2> QED
      BY <2>2, <2>7
  <1> QED
    BY <1>1, Invariant, PTL

=============================================================================
