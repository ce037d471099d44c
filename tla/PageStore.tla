----------------------------- MODULE PageStore -----------------------------
(***************************************************************************)
(* What a buffer pool promises its callers: a store of pages that threads  *)
(* open, change while they have them open for writing, and close.  There   *)
(* are no frames, no eviction and no disk here; a page's contents change   *)
(* because a writer changed them or because the page was created, and for  *)
(* no other reason.                                                        *)
(***************************************************************************)
EXTENDS Integers

CONSTANTS Threads, MaxPages, Data, Zero, NoPage

VARIABLES
  content,  \* contents of every page
  open,     \* the page each thread has open, and whether for writing
  created   \* number of pages created so far; page ids are 0 .. created-1

storeVars == <<content, open, created>>

Ids == 0 .. MaxPages - 1
Closed == [page |-> NoPage, writer |-> FALSE]

Init ==
  /\ content \in [Ids -> Data]
  /\ open = [t \in Threads |-> Closed]
  /\ created = 0

Open(t, p, w) ==
  /\ open[t] = Closed
  /\ p < created
  /\ open' = [open EXCEPT ![t] = [page |-> p, writer |-> w]]
  /\ UNCHANGED <<content, created>>

Create(t) ==
  /\ open[t] = Closed
  /\ created < MaxPages
  /\ content' = [content EXCEPT ![created] = Zero]
  /\ open' = [open EXCEPT ![t] = [page |-> created, writer |-> TRUE]]
  /\ created' = created + 1

Modify(t, d) ==
  /\ open[t].writer
  /\ content' = [content EXCEPT ![open[t].page] = d]
  /\ UNCHANGED <<open, created>>

Close(t) ==
  /\ open[t] # Closed
  /\ open' = [open EXCEPT ![t] = Closed]
  /\ UNCHANGED <<content, created>>

Next ==
  \E t \in Threads :
    \/ \E p \in Ids, w \in BOOLEAN : Open(t, p, w)
    \/ Create(t)
    \/ \E d \in Data : Modify(t, d)
    \/ Close(t)

Spec == Init /\ [][Next]_storeVars

=============================================================================
