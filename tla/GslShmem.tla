------------------------------ MODULE GslShmem ------------------------------
(***************************************************************************)
(* The allocator of memory shared with SPF (gsl/src/gsl_shmem_mgr.c) for   *)
(* one master processor: pages in bins, each divided into blocks kept in a *)
(* table whose entries are linked in the order of their addresses.         *)
(*                                                                         *)
(* Sizes and addresses count frames.  Every operation here runs under      *)
(* ctxt->mutex and is one action.  Mapping the pages to SPF is left out: a *)
(* page that cannot be allocated or mapped leaves everything as it was.    *)
(***************************************************************************)
EXTENDS Integers, Sequences, FiniteSets

CONSTANTS
  Page,            \* the pages that can exist at a time
  FramesPerPage,   \* GSL_SHMEM_MGR_PAGE_SZ
  MaxScratch,      \* GSL_SHMEM_MAX_SCRATCH_ALLOC_SZ
  PreAlloc,        \* GSL_SHMEM_PRE_ALLOC_SIZE
  MaxFrames        \* bound: the largest request, rounded up to pages

ASSUME SizesAssumption ==
  /\ FramesPerPage \in Nat \ {0} /\ MaxScratch \in Nat \ {0}
  /\ PreAlloc \in Nat \ {0} /\ MaxFrames \in Nat
  /\ PreAlloc <= MaxFrames

None == -1         \* no neighbour; as an address, an entry that is available
Index == 0 .. MaxFrames - 1

PRE == 0           \* the bins: pages allocated at init, ...
SCRATCH == 1       \* ... pages to grow into, ...
DEDICATED == 2     \* ... pages for one allocation each
Bin == {PRE, SCRATCH, DEDICATED}

VARIABLES
  up,        \* has gsl_shmem_init created the context?
  bins,      \* [Bin -> Seq(Page)]: the page lists
  pages,     \* the pages that exist: a function to [bin, frames, extern, blocks]
  owned      \* the struct gsl_shmem_alloc_data that clients hold

vars == <<up, bins, pages, owned>>

Init ==
  /\ up = FALSE /\ bins = [b \in Bin |-> <<>>]
  /\ pages = [p \in {} |-> 0] /\ owned = {}

-----------------------------------------------------------------------------
(* The block table of a page. *)

Available == [base |-> None, size |-> 0, used |-> FALSE, pred |-> None, succ |-> None]

\* One free block as large as the page; a dedicated page has no other entry.
NewBlocks(bin, frames) ==
  [i \in 0 .. (IF bin = DEDICATED THEN 0 ELSE frames - 1) |->
     IF i = 0 THEN [base |-> 0, size |-> frames, used |-> FALSE, pred |-> None, succ |-> None]
              ELSE Available]

InUse(blk) == {i \in DOMAIN blk : blk[i].base # None}

Lowest(S) == CHOOSE i \in S : \A j \in S : i <= j

\* The free blocks of n frames or more, and the one the walk along successor_idx
\* comes to first.
Fitting(blk, n) == {i \in InUse(blk) : ~blk[i].used /\ n <= blk[i].size}
FirstFit(blk, n) ==
  CHOOSE i \in Fitting(blk, n) : \A j \in Fitting(blk, n) : blk[i].base <= blk[j].base

\* Mutant of LinkBack: the block after the new one keeps its predecessor.
LinkBackForgotten(blk, s, i) == blk

\* Block i becomes the predecessor of block s, if there is one.
LinkBack(blk, s, i) ==
  [j \in DOMAIN blk |-> IF j = s THEN [blk[j] EXCEPT !.pred = i] ELSE blk[j]]

\* What is left of block i when n frames of it are used becomes a block of its own,
\* in entry k.
Split(blk, i, n, k) ==
  [LinkBack(blk, blk[i].succ, k) EXCEPT
     ![i] = [blk[i] EXCEPT !.size = n, !.used = TRUE, !.succ = k],
     ![k] = [base |-> blk[i].base + n, size |-> blk[i].size - n,
             used |-> FALSE, pred |-> i, succ |-> blk[i].succ]]

\* The rest goes to the first available entry; if there is none, it is lost.
DoAllocBlock(blk, i, n) ==
  LET available == DOMAIN blk \ InUse(blk)
  IN IF blk[i].size > n /\ available # {} THEN Split(blk, i, n, Lowest(available))
     ELSE [blk EXCEPT ![i].size = n, ![i].used = TRUE]

\* Mutant of FreeNeighbour: the used bit is not looked at.
FreeNeighbourAny(blk, j) == j # None

\* Is there a neighbour at index j, and is it free?
FreeNeighbour(blk, j) == j # None /\ ~blk[j].used

\* Block j, the successor of block i, becomes part of it.
Absorb(blk, i, j) ==
  [LinkBack(blk, blk[j].succ, i) EXCEPT
     ![i] = [blk[i] EXCEPT !.size = @ + blk[j].size, !.succ = blk[j].succ],
     ![j] = Available]

\* Mutant of MergeBack: a free predecessor is overlooked.
MergeBackNever(blk, i) == blk

MergeBack(blk, i) ==
  IF FreeNeighbour(blk, blk[i].pred) THEN Absorb(blk, blk[i].pred, i) ELSE blk

MergeOn(blk, i) ==
  IF FreeNeighbour(blk, blk[i].succ) THEN Absorb(blk, i, blk[i].succ) ELSE blk

DoFreeBlock(blk, i) == MergeBack(MergeOn([blk EXCEPT ![i].used = FALSE], i), i)

-----------------------------------------------------------------------------
(* Pages. *)

RoundUp(n) == ((n + FramesPerPage - 1) \div FramesPerPage) * FramesPerPage

NewPage(bin, frames, extern) ==
  [bin |-> bin, frames |-> frames, extern |-> extern, blocks |-> NewBlocks(bin, frames)]

With(p, page) == [q \in DOMAIN pages \cup {p} |-> IF q = p THEN page ELSE pages[q]]
Without(P) == [q \in DOMAIN pages \ P |-> pages[q]]

\* "We purposely dont search in the last bin."
Searched == bins[PRE] \o bins[SCRATCH]

\* The places in the search order whose pages have room for n frames.
Roomy(n) == {k \in 1 .. Len(Searched) : Fitting(pages[Searched[k]].blocks, n) # {}}

\* ar_list_delete.
Deleted(list, p) ==
  LET k == CHOOSE k \in 1 .. Len(list) : list[k] = p
  IN [j \in 1 .. Len(list) - 1 |-> IF j < k THEN list[j] ELSE list[j + 1]]

FreePage(p) ==
  /\ pages' = Without({p})
  /\ bins' = [bins EXCEPT ![pages[p].bin] = Deleted(@, p)]

-----------------------------------------------------------------------------
(* The operations. *)

\* gsl_shmem_init; it goes on without the first page if that fails.
ShmemInit == \E page_ok \in BOOLEAN, p \in Page :
  /\ ~up /\ p \notin DOMAIN pages /\ up' = TRUE
  /\ IF page_ok
       THEN /\ pages' = With(p, NewPage(PRE, PreAlloc, FALSE))
            /\ bins' = [bins EXCEPT ![PRE] = Append(@, p)]
       ELSE UNCHANGED <<pages, bins>>
  /\ UNCHANGED owned

\* gsl_shmem_deinit, once the clients have closed their graphs: only the pages
\* allocated at init are freed; the lists of the others go away with the context.
ShmemDeinit ==
  /\ up /\ owned = {} /\ up' = FALSE
  /\ pages' = Without({bins[PRE][k] : k \in 1 .. Len(bins[PRE])})
  /\ bins' = [b \in Bin |-> <<>>]
  /\ UNCHANGED owned

\* GSL_SHMEM_DEDICATED_PAGE, GSL_SHMEM_CMA and memory for more than the master
\* want a page of their own, and so does a large request.
OwnPage(n, own) == own \/ RoundUp(n) >= MaxScratch

\* gsl_shmem_alloc_ext where a block of n frames is found.
AllocInPage(n) ==
  /\ up /\ ~OwnPage(n, FALSE) /\ Roomy(n) # {}
  /\ LET p == Searched[Lowest(Roomy(n))]
         i == FirstFit(pages[p].blocks, n)
     IN /\ pages' = [pages EXCEPT ![p].blocks = DoAllocBlock(@, i, n)]
        /\ owned' = owned \cup {[page |-> p, base |-> pages[p].blocks[i].base, size |-> n]}
  /\ UNCHANGED <<up, bins>>

\* ... and where a new page has to be allocated.
AllocNewPage(n, own) == \E p \in Page :
  LET bin == IF OwnPage(n, own) THEN DEDICATED ELSE SCRATCH
      size == IF OwnPage(n, own) THEN RoundUp(n) ELSE n
      page == NewPage(bin, RoundUp(n), FALSE)
  IN /\ up /\ p \notin DOMAIN pages
     /\ OwnPage(n, own) \/ Roomy(n) = {}
     /\ pages' = With(p, [page EXCEPT !.blocks = DoAllocBlock(@, 0, size)])
     /\ bins' = [bins EXCEPT ![bin] = Append(@, p)]
     /\ owned' = owned \cup {[page |-> p, base |-> 0, size |-> size]}
     /\ UNCHANGED up

\* Mutant of PageIsFree: a page is given back as soon as a block of it is free.
PageIsFreeTooSoon(p, blk) == \E i \in InUse(blk) : ~blk[i].used

\* The block that results from freeing one is as large as the page.
PageIsFree(p, blk) == \E i \in InUse(blk) : ~blk[i].used /\ blk[i].size = pages[p].frames

\* gsl_shmem_free.
Free(a) == \E i \in InUse(pages[a.page].blocks) :
  LET p == a.page
      blk == DoFreeBlock(pages[p].blocks, i)
  IN /\ up /\ ~pages[p].extern /\ pages[p].blocks[i].base = a.base
     /\ IF pages[p].bin # PRE /\ PageIsFree(p, blk)
          THEN FreePage(p)
          ELSE pages' = [pages EXCEPT ![p].blocks = blk] /\ UNCHANGED bins
     /\ owned' = owned \ {a}
     /\ UNCHANGED up

\* gsl_shmem_map_extern_mem: the page keeps its one block, free.
MapExtern(n) == \E p \in Page :
  /\ up /\ p \notin DOMAIN pages
  /\ pages' = With(p, NewPage(DEDICATED, RoundUp(n), TRUE))
  /\ bins' = [bins EXCEPT ![DEDICATED] = Append(@, p)]
  /\ owned' = owned \cup {[page |-> p, base |-> 0, size |-> RoundUp(n)]}
  /\ UNCHANGED up

\* gsl_shmem_unmap_extern_mem.
UnmapExtern(a) ==
  /\ up /\ pages[a.page].extern
  /\ FreePage(a.page)
  /\ owned' = owned \ {a}
  /\ UNCHANGED up

Request == {n \in 1 .. MaxFrames : RoundUp(n) <= MaxFrames}

Next ==
  \/ ShmemInit \/ ShmemDeinit
  \/ \E n \in Request : AllocInPage(n) \/ MapExtern(n)
  \/ \E n \in Request, own \in BOOLEAN : AllocNewPage(n, own)
  \/ \E a \in owned : Free(a) \/ UnmapExtern(a)

Spec == Init /\ [][Next]_vars

-----------------------------------------------------------------------------
Block == [base : Int, size : Int, used : BOOLEAN, pred : Int, succ : Int]

PageOK(g) ==
  /\ g.bin \in Bin /\ g.frames \in 1 .. MaxFrames /\ g.extern \in BOOLEAN
  /\ g.blocks \in [0 .. (IF g.bin = DEDICATED THEN 0 ELSE g.frames - 1) -> Block]
  /\ g.extern => g.bin = DEDICATED

\* The type of every variable; a handle and a list name pages that exist.
TypeOK ==
  /\ up \in BOOLEAN
  /\ DOMAIN pages \subseteq Page /\ \A p \in DOMAIN pages : PageOK(pages[p])
  /\ bins \in [Bin -> Seq(DOMAIN pages)]
  /\ owned \subseteq [page : DOMAIN pages, base : Index, size : 1 .. MaxFrames]

\* The linked blocks of a table cover the page from its first frame to its last,
\* in the order of their addresses and without gap or overlap.
Tiled(blk, frames) ==
  /\ 0 \in InUse(blk) /\ blk[0].base = 0
  /\ \A i \in InUse(blk) :
       /\ 0 <= blk[i].base /\ 1 <= blk[i].size /\ blk[i].base + blk[i].size <= frames
       /\ IF blk[i].succ = None THEN blk[i].base + blk[i].size = frames
          ELSE /\ blk[i].succ \in InUse(blk)
               /\ blk[blk[i].succ].base = blk[i].base + blk[i].size
               /\ blk[blk[i].succ].pred = i
       /\ IF blk[i].pred = None THEN blk[i].base = 0
          ELSE blk[i].pred \in InUse(blk) /\ blk[blk[i].pred].succ = i
  /\ \A i, j \in InUse(blk) : i # j =>
       \/ blk[i].base + blk[i].size <= blk[j].base
       \/ blk[j].base + blk[j].size <= blk[i].base

\* No frame of a page is lost: whatever is allocated and freed in whatever order,
\* an entry is always available for what a split leaves over ("there is always an
\* entry available in blocks[] for the worst case fragmenation").
PagesTiled == \A p \in DOMAIN pages : Tiled(pages[p].blocks, pages[p].frames)

\* Free memory does not stay fragmented: two neighbours are never both free.
MergedIn(blk) == \A i \in InUse(blk) :
  ~blk[i].used /\ blk[i].succ # None => blk[blk[i].succ].used
Merged == \A p \in DOMAIN pages : MergedIn(pages[p].blocks)

\* The used blocks are those that clients hold, no more and no fewer; memory from
\* outside has the page to itself.
UsedIn(p, g) ==
  {[page |-> p, base |-> g.blocks[i].base, size |-> g.blocks[i].size] :
     i \in {j \in InUse(g.blocks) : g.blocks[j].used \/ g.extern}}
UsedExtents == UNION {UsedIn(p, pages[p]) : p \in DOMAIN pages}

OwnersMatchBlocks == owned = UsedExtents

\* No two allocations share a frame.
Apart(a, b) == a.page = b.page => a.base + a.size <= b.base \/ b.base + b.size <= a.base
NoOverlap == \A a, b \in owned : a # b => Apart(a, b)

\* Nothing but the pages allocated at init outlives its last allocation: after
\* gsl_shmem_deinit, which frees those alone, no page is left.
NoIdlePage == \A p \in DOMAIN pages :
  \/ up /\ pages[p].bin = PRE
  \/ \E a \in owned : a.page = p

Heap == INSTANCE SharedHeap WITH held <- UsedExtents

\* Every operation gives out or takes back one extent, which no other allocation
\* has, and moves none.
KeepsExtentsApart == Heap!Spec
=============================================================================
