---------------------------- MODULE DiskManager ----------------------------
(***************************************************************************)
(* The DiskManager of stingdb: the database file, the io_uring instance    *)
(* and the page-id counter.                                                *)
(*                                                                         *)
(* A page's bytes are abstracted to a member of Data; Zero is the page of  *)
(* 8192 zero bytes, which is also what a read past the end of the file     *)
(* returns.  A write is submitted with a POINTER to a frame of the buffer  *)
(* pool: the kernel takes the bytes at some later moment, so a submitted   *)
(* entry names the frame and not its contents.                             *)
(***************************************************************************)
EXTENDS Integers, FiniteSets

CONSTANTS
  MaxPages,     \* bound on the page ids handed out
  Frames,       \* frame ids of the buffer pool, the memory writes point to
  Data,         \* abstract page contents
  Zero,         \* the all-zero page
  RingEntries,  \* unreaped requests the ring holds (256 SQEs in the code)
  NoPage,       \* INVALID_PAGE_ID
  NoFrame       \* frame_id -1

PageIds == 0 .. MaxPages - 1

ASSUME MaxPagesAssumption == MaxPages \in Nat \ {0}
ASSUME RingEntriesAssumption == RingEntries \in Nat \ {0}
ASSUME ZeroAssumption == Zero \in Data
ASSUME NoPageAssumption == NoPage \notin PageIds
ASSUME NoFrameAssumption == NoFrame \notin Frames

VARIABLES
  disk,         \* the file: contents of every page
  ring,         \* ring_: one record per entry of the io_uring instance
  next_page_id  \* next_page_id_

diskVars == <<disk, ring, next_page_id>>

Entries == 1 .. RingEntries

FreeEntry == [state |-> "free", page |-> NoPage, frame |-> NoFrame]
DoneEntry == [state |-> "done", page |-> NoPage, frame |-> NoFrame]
Submitted(p, f) == [state |-> "submitted", page |-> p, frame |-> f]

RingEntry ==
  {FreeEntry, DoneEntry} \cup [state : {"submitted"}, page : PageIds, frame : Frames]

DiskTypeOK ==
  /\ disk \in [PageIds -> Data]
  /\ ring \in [Entries -> RingEntry]
  /\ next_page_id \in 0 .. MaxPages

(***************************************************************************)
(* Opening the file.  Nothing about the file is read: its contents are     *)
(* whatever an earlier run left there and page ids start again from 0.     *)
(***************************************************************************)
DiskInit ==
  /\ disk \in [PageIds -> Data]
  /\ ring = [i \in Entries |-> FreeEntry]
  /\ next_page_id = 0

\* io_uring_get_sqe returns NULL: WritePageAsync throws.
RingFull == \A i \in Entries : ring[i].state # "free"

\* The entry io_uring_get_sqe hands out (any free one serves).
NextEntry == CHOOSE i \in Entries : ring[i].state = "free"

\* WritePageAsync once it has an entry: prepare and submit.  No copy is made.
\* The result of io_uring_submit is ignored; an entry that was not submitted is
\* one that never completes, as no specification without fairness excludes.
WritePageAsync(p, f) ==
  ring' = [ring EXCEPT ![NextEntry] = Submitted(p, f)]

Completions == {i \in Entries : ring[i].state = "done"}

\* RetrieveAsyncCompletions: reap what has completed, without blocking, and
\* without looking at which page each completion is for.
RetrieveAsyncCompletions ==
  ring' = [i \in Entries |-> IF i \in Completions THEN FreeEntry ELSE ring[i]]

\* ReadPage: pread, zero filled when the file is shorter.
ReadPage(p) == disk[p]

AllocatePage == next_page_id' = next_page_id + 1

InFlight(p) == \E i \in Entries : ring[i].state = "submitted" /\ ring[i].page = p

(***************************************************************************)
(* The kernel's side of io_uring (not part of the repository): a submitted *)
(* write takes the bytes its pointer shows at this moment, in any order    *)
(* with the other writes.                                                  *)
(***************************************************************************)
KernelWrites(i, memory) ==
  /\ ring[i].state = "submitted"
  /\ disk' = [disk EXCEPT ![ring[i].page] = memory[ring[i].frame]]
  /\ ring' = [ring EXCEPT ![i] = DoneEntry]
  /\ UNCHANGED next_page_id

\* The write fails: the completion carries res < 0, which is only logged.
KernelFails(i) ==
  /\ ring[i].state = "submitted"
  /\ ring' = [ring EXCEPT ![i] = DoneEntry]
  /\ UNCHANGED <<disk, next_page_id>>

=============================================================================
