------------------------------ MODULE BPlusTree ------------------------------
(***************************************************************************)
(* Searches of B+ tree indexes: FindLeafPage with its lock coupling, under *)
(* Insert and FindValue, by several threads over one buffer pool.          *)
(*                                                                         *)
(* The latch of a Page belongs to the frame and not to the page in it: a   *)
(* frame that is evicted while somebody still latches it carries the latch *)
(* over to the next page.  The pool is reduced to frames, pins and which   *)
(* frames FetchPage may take (BufferPool has its insides), a node to its   *)
(* type.                                                                   *)
(*                                                                         *)
(* The code leaves the search inside an internal node out and goes on to   *)
(* INVALID_PAGE_ID, a page of zeroes beyond the file, which is no leaf     *)
(* either: such a descent ends only in an exception or a nullptr.          *)
(***************************************************************************)
EXTENDS Integers, FiniteSets

CONSTANTS
  Callers, Frames,
  Trees,         \* the indexes; a tree that has a root has its own root page
  EmptyTrees,    \* trees whose root_page_id_ is INVALID_PAGE_ID
  InvalidPage,   \* INVALID_PAGE_ID
  NoFrame,       \* a Page* that is nullptr
  MaxSearches    \* bound on the calls of a behaviour

ASSUME TreeAssumption ==
  /\ EmptyTrees \subseteq Trees /\ InvalidPage \notin Trees
  /\ NoFrame \notin Frames /\ MaxSearches \in Nat
  /\ IsFiniteSet(Callers)

Roots == Trees \ EmptyTrees
Pages == Roots \cup {InvalidPage}
NodeTypes == {"INVALID", "INTERNAL", "LEAF"}

VARIABLES
  node_type,  \* the first word of every page
  frame,      \* page_id_ (InvalidPage when free), whether the page table leads
              \* to it and one of the lists holds it, pin_count_, readers of rwlatch_
  search,     \* each thread's call
  begun,      \* calls so far
  found,      \* searches of each root that have returned a leaf
  abandoned   \* searches an exception ended while they stood on a frame

treeVars == <<node_type, frame, search, begun, found, abandoned>>

Idle == [pc |-> "idle", tree |-> InvalidPage, current |-> NoFrame, next |-> NoFrame]
Hands == {"current", "next"}

TreeTypeOK ==
  /\ node_type \in [Pages -> NodeTypes]
  /\ frame \in [Frames -> [page : Pages, mapped : BOOLEAN, listed : BOOLEAN,
                         pins : Nat, readers : Nat]]
  /\ search \in [Callers ->
       [pc : {"idle", "root", "lock_root", "test", "lock_next", "unlock", "unpin",
              "return", "nullptr"},
        tree : Pages, current : Frames \cup {NoFrame}, next : Frames \cup {NoFrame}]]
  /\ begun \in 0 .. MaxSearches /\ found \in [Roots -> 0 .. MaxSearches]
  /\ abandoned \in [Frames -> Nat]

\* A caller has made the roots with BPlusTreeNode::Init, or left them zero.
TreeInit ==
  /\ node_type \in {n \in [Pages -> NodeTypes] : n[InvalidPage] = "INVALID"}
  /\ frame = [f \in Frames |-> [page |-> InvalidPage, mapped |-> FALSE, listed |-> TRUE,
                                pins |-> 0, readers |-> 0]]
  /\ search = [t \in Callers |-> Idle]
  /\ begun = 0 /\ found = [i \in Roots |-> 0] /\ abandoned = [f \in Frames |-> 0]

SearchAt(t, pc) == search[t].pc = pc
SearchGoto(t, pc) == search' = [search EXCEPT ![t].pc = pc]
Root(tree) == IF tree \in EmptyTrees THEN InvalidPage ELSE tree
-----------------------------------------------------------------------------
(***************************************************************************)
(* The pool: FetchPage pins the page's frame, or one it takes from the     *)
(* lists.                                                                  *)
(***************************************************************************)
InPool(page) == {f \in Frames : frame[f].mapped /\ frame[f].page = page}
Takeable == {f \in Frames : frame[f].listed}

FetchPage(t, page, hand, pc) ==
  \/ \E f \in InPool(page) :
       /\ frame' = [frame EXCEPT ![f].listed = FALSE, ![f].pins = @ + 1]
       /\ search' = [search EXCEPT ![t][hand] = f, ![t].pc = pc]
  \/ /\ InPool(page) = {}
     /\ \E f \in Takeable :
          /\ frame' = [frame EXCEPT ![f] = [@ EXCEPT !.page = page, !.mapped = TRUE,
                                                     !.listed = FALSE, !.pins = 1]]
          /\ search' = [search EXCEPT ![t][hand] = f, ![t].pc = pc]
  \/ \* nullptr, which the caller dereferences
     /\ InPool(page) = {} /\ Takeable = {}
     /\ SearchGoto(t, "nullptr")
     /\ UNCHANGED frame

\* FetchPage throws, after it has taken a frame from its list: ReadPage cannot
\* read, which leaves the frame to nobody, or WritePageAsync of a dirty victim
\* finds the ring full, which leaves the victim in the page table.
FetchThrows(page) ==
  /\ InPool(page) = {}
  /\ \E f \in Takeable : \E mapped \in {FALSE, frame[f].mapped} :
       frame' = [frame EXCEPT ![f] = [@ EXCEPT !.listed = FALSE, !.mapped = mapped]]

RLock(f) == frame' = [frame EXCEPT ![f].readers = @ + 1]
RUnlock(f) == frame' = [frame EXCEPT ![f].readers = @ - 1]
UnpinPage(f) == frame' = [frame EXCEPT ![f].pins = @ - 1, ![f].listed = (frame[f].pins = 1)]
-----------------------------------------------------------------------------
(***************************************************************************)
(* FindLeafPage.                                                           *)
(***************************************************************************)
\* Insert answers true and FindValue false on a tree without a root; neither
\* touches a page.
CallOnEmpty(t, tree) ==
  /\ SearchAt(t, "idle") /\ begun < MaxSearches
  /\ Root(tree) = InvalidPage
  /\ begun' = begun + 1
  /\ UNCHANGED <<node_type, frame, search, found, abandoned>>

Call(t, tree) ==
  /\ SearchAt(t, "idle") /\ begun < MaxSearches
  /\ Root(tree) # InvalidPage
  /\ begun' = begun + 1
  /\ search' = [search EXCEPT ![t] = [Idle EXCEPT !.pc = "root", !.tree = tree]]
  /\ UNCHANGED <<node_type, frame, found, abandoned>>

FetchRoot(t) ==
  /\ SearchAt(t, "root")
  /\ FetchPage(t, Root(search[t].tree), "current", "lock_root")
  /\ UNCHANGED <<node_type, begun, found, abandoned>>

Mutant_RootUnlatched(t) ==
  /\ SearchAt(t, "lock_root")
  /\ SearchGoto(t, "test")
  /\ UNCHANGED <<node_type, frame, begun, found, abandoned>>
LockRoot(t) ==
  /\ SearchAt(t, "lock_root")
  /\ RLock(search[t].current)
  /\ SearchGoto(t, "test")
  /\ UNCHANGED <<node_type, begun, found, abandoned>>

Mutant_Never(f) == FALSE
IsLeafPage(f) == node_type[frame[f].page] = "LEAF"

\* The child is fetched and latched before its parent is let go.
FetchNext(t) ==
  /\ SearchAt(t, "test") /\ ~IsLeafPage(search[t].current)
  /\ FetchPage(t, InvalidPage, "next", "lock_next")
  /\ UNCHANGED <<node_type, begun, found, abandoned>>

\* The exception leaves FindLeafPage.  Below the root the context has no page
\* yet, so that its destructor does not know of the parent, which stays latched
\* and pinned.
RootThrows(t) ==
  /\ SearchAt(t, "root")
  /\ FetchThrows(Root(search[t].tree))
  /\ search' = [search EXCEPT ![t] = Idle]
  /\ UNCHANGED <<node_type, begun, found, abandoned>>

NextThrows(t) ==
  /\ SearchAt(t, "test") /\ ~IsLeafPage(search[t].current)
  /\ FetchThrows(InvalidPage)
  /\ abandoned' = [abandoned EXCEPT ![search[t].current] = @ + 1]
  /\ search' = [search EXCEPT ![t] = Idle]
  /\ UNCHANGED <<node_type, begun, found>>

LockNext(t) ==
  /\ SearchAt(t, "lock_next")
  /\ RLock(search[t].next)
  /\ SearchGoto(t, "unlock")
  /\ UNCHANGED <<node_type, begun, found, abandoned>>

\* Unlock the parent, then unpin it and step down.
Step(t) == search' = [search EXCEPT ![t].pc = "test", ![t].current = search[t].next,
                                    ![t].next = NoFrame]
Mutant_UnpinFirst(t) ==
  /\ \/ SearchAt(t, "unlock") /\ UnpinPage(search[t].current) /\ SearchGoto(t, "unpin")
     \/ SearchAt(t, "unpin") /\ RUnlock(search[t].current) /\ Step(t)
  /\ UNCHANGED <<node_type, begun, found, abandoned>>
ReleaseParent(t) ==
  /\ \/ SearchAt(t, "unlock") /\ RUnlock(search[t].current) /\ SearchGoto(t, "unpin")
     \/ SearchAt(t, "unpin") /\ UnpinPage(search[t].current) /\ Step(t)
  /\ UNCHANGED <<node_type, begun, found, abandoned>>

FoundLeaf(t) ==
  /\ SearchAt(t, "test") /\ IsLeafPage(search[t].current)
  /\ SearchGoto(t, "return")
  /\ UNCHANGED <<node_type, frame, begun, found, abandoned>>

\* ~SearchContext releases the latch; its unpin is only a comment.
Mutant_LatchKept(t) ==
  /\ SearchAt(t, "return")
  /\ found' = [found EXCEPT ![search[t].tree] = @ + 1]
  /\ search' = [search EXCEPT ![t] = Idle]
  /\ UNCHANGED <<node_type, frame, begun, abandoned>>
Return(t) ==
  /\ SearchAt(t, "return")
  /\ RUnlock(search[t].current)
  /\ found' = [found EXCEPT ![search[t].tree] = @ + 1]
  /\ search' = [search EXCEPT ![t] = Idle]
  /\ UNCHANGED <<node_type, begun, abandoned>>

FindLeafPage(t) ==
  \/ FetchRoot(t) \/ RootThrows(t) \/ LockRoot(t) \/ FetchNext(t) \/ NextThrows(t)
  \/ LockNext(t) \/ ReleaseParent(t) \/ FoundLeaf(t) \/ Return(t)

TreeNext ==
  \E t \in Callers :
    \/ \E tree \in Trees : CallOnEmpty(t, tree) \/ Call(t, tree)
    \/ FindLeafPage(t)

TreeSpec == TreeInit /\ [][TreeNext]_treeVars
-----------------------------------------------------------------------------
(***************************************************************************)
(* Properties.                                                             *)
(***************************************************************************)
\* The pins and latches a running search owes, by what it has in each hand and
\* where in FindLeafPage it is.
Pinning(f) == {h \in Callers \X Hands : search[h[1]][h[2]] = f}
Latching(f) ==
  {h \in Pinning(f) :
     IF h[2] = "current" THEN search[h[1]].pc \notin {"lock_root", "unpin"}
                         ELSE search[h[1]].pc # "lock_next"}

\* Lock coupling loses no latch and takes none it does not hand on or release:
\* the readers of a frame are the searches that stand on it, and those that an
\* exception of FetchPage tore away from it.
LatchesBalanced ==
  \A f \in Frames : frame[f].readers = Cardinality(Latching(f)) + abandoned[f]

\* The latch is on the page that was asked for: a frame someone latches is
\* pinned and on no list, so nobody evicts it under its reader, and the node a
\* thread is about to judge is its tree's root or the page it stepped down to.
LatchedPagesStay ==
  \A f \in Frames : frame[f].readers > 0 =>
    /\ frame[f].pins > 0 /\ ~frame[f].listed
    /\ \A h \in Latching(f) : frame[f].page \in {search[h[1]].tree, InvalidPage}


\* A search of a tree whose root is a leaf ends, if in an exception, whatever
\* the endless descents of others do; only a pool without frames stops it.
LeafSearchesEnd ==
  \A t \in Callers :
    SearchAt(t, "root") /\ node_type[search[t].tree] = "LEAF"
      ~> search[t].pc \in {"idle", "nullptr"}

=============================================================================
