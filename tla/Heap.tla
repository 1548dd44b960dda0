-------------------------------- MODULE Heap --------------------------------
(***************************************************************************)
(* The kernel heap (src/os/kernel/src/memory/heap/heap.c): an address-     *)
(* ordered doubly linked list of block headers from heap_start, block size *)
(* derived from the next header's address, first-fit search with split,    *)
(* growth and shrink by whole pages, and the kmalloc_pages path.           *)
(*                                                                         *)
(* Memory is modelled at the granularity of one unit (4 bytes): mem[a] is  *)
(* the header a read of address a would see.  A header occupies            *)
(* HeaderUnits units, so writing one at a destroys any header stored at an *)
(* overlapping address.  Headers that are unlinked stay in memory with     *)
(* their old contents (they are what a stale pointer reads).  A client     *)
(* either fills the buffer it gets, turning every header stored inside it  *)
(* into GARBAGE, or leaves it as it was.  Frames are not cleared when     *)
(* mapped: a page gets its old frame back or another one (zeros, or        *)
(* GARBAGE when frames are not known to be zero).                          *)
(***************************************************************************)
EXTENDS Naturals, FiniteSets

CONSTANTS
    PageUnits,        \* PAGE_SIZE in units
    HeaderUnits,      \* sizeof(heap_entry) in units
    MinBlock,         \* MIN_BLOCK_SIZE in units
    HeapPages,        \* (KERNEL_HEAP_END - heap_start) / PAGE_SIZE
    FramePool,        \* frames the physical allocator can hand to the heap
    Sizes,            \* kmalloc request sizes, in units (already aligned)
    PageCounts,       \* kmalloc_pages request sizes
    MaxLive,          \* bound on the number of live allocations
    FreshPagesZeroed, \* TRUE: a newly mapped frame reads as zeros
    FatSize,          \* size of the table fat_init allocates first and keeps
                      \* for ever (0: no such allocation)
    NULL, GARBAGE

ASSUME /\ {PageUnits, HeaderUnits, HeapPages, FramePool} \subseteq Nat \ {0}
       /\ Sizes \subseteq Nat \ {0} /\ PageCounts \subseteq Nat \ {0}
       /\ FreshPagesZeroed \in BOOLEAN /\ FatSize \in Nat

H == HeaderUnits
P == PageUnits
HeapStart == 0
HeapLimit == HeapPages * P   \* KERNEL_HEAP_END
Addr == 0..HeapLimit

Zero == [free |-> FALSE, next |-> NULL, prev |-> NULL]
Junk == [free |-> GARBAGE, next |-> GARBAGE, prev |-> GARBAGE]
\* The frame a page had before is mapped again, with its contents.
SameFrame == [same_frame |-> TRUE]
FreshContents == {SameFrame} \cup (IF FreshPagesZeroed THEN {Zero} ELSE {Zero, Junk})

VARIABLES
    mem,        \* header contents seen at every address
    heap_end,   \* curr_heap_end
    last_entry, \* last_entry
    live,       \* allocations handed out and not yet freed: [blk, size, pinned]
    op,         \* the kmalloc search in progress, or Idle
    fault,      \* "none", or why the kernel stopped: "read" (a garbage or
                \* unmapped header field) or "null" (a page fault at NULL)
    null_deref, \* the heap dereferenced a NULL header pointer
    clobbered   \* the heap wrote a header into a live buffer

\* No search in progress (request sizes are never 0).
Idle == [curr |-> HeapStart, w |-> 0, pin |-> FALSE]

\* fat_init (the first heap client in kmain) has its table.
FatDone == FatSize = 0 \/ \E l \in live : l.pinned

vars == <<mem, heap_end, last_entry, live, op, fault, null_deref, clobbered>>

-----------------------------------------------------------------------------
(* Memory helpers *)

Overlap(a, b) == a # b /\ a < b + H /\ b < a + H

\* Store one field of the header at a; headers overlapping it are destroyed.
SetField(m, a, f, v) ==
    [x \in Addr |-> IF x = a THEN [m[a] EXCEPT ![f] = v]
                    ELSE IF Overlap(x, a) THEN Junk ELSE m[x]]

SetHeader(m, a, rec) ==
    [x \in Addr |-> IF x = a THEN rec
                    ELSE IF Overlap(x, a) THEN Junk ELSE m[x]]

\* Unit of each field within a header: is_free, then next, then prev.
FieldUnit == [free |-> 0, next |-> 1, prev |-> 2]

\* The field f of the header at a is mapped when the heap ends at e.
MappedIn(e, a, f) == a # NULL /\ a # GARBAGE /\ a + FieldUnit[f] < e

\* A field read that neither faults (unmapped) nor sees garbage.
ReadableIn(m, e, a, f) == MappedIn(e, a, f) /\ m[a][f] # GARBAGE

Readable(m, a, f) == ReadableIn(m, heap_end, a, f)

DataOf(l) == (l.blk + H)..(l.blk + H + l.size - 1)

\* The client fills its buffer: headers overlapping it become garbage.
FillBuffer(m, blk, size) ==
    [x \in Addr |-> IF (x..(x + H - 1)) \cap ((blk + H)..(blk + H + size - 1)) # {}
                    THEN Junk ELSE m[x]]

\* A header written at a lands inside the buffer of a live allocation.
IntoLive(a) == \E l \in live : (a..(a + H - 1)) \cap DataOf(l) # {}

\* BLOCK_SIZE: next - block - sizeof(heap_entry), in uintptr_t arithmetic.
\* A next below the block wraps to a huge unsigned size, larger than any request.
BlockSize(m, a) == IF m[a].next >= a + H THEN m[a].next - a - H ELSE HeapLimit + 1

\* The test of line 50: this entry marks the end of the heap.
AtEnd(m, a) == IF m[a].next = NULL THEN TRUE ELSE m[a].next >= heap_end

\* The exit test of the while loop of line 48: a free block with a next
\* link whose size fits.  It is taken before the end test of line 50, so a
\* fitting block is returned even when its next lies past curr_heap_end.
Fits(m, a, w) == m[a].free /\ m[a].next # NULL /\ BlockSize(m, a) >= w

AlignUp(x) == ((x + P - 1) \div P) * P

\* Mutant: the window check of allocate_heap_page dropped.
CanGrowNoWindow(n) == heap_end \div P + n <= FramePool

\* allocate_heap_page: fails at the end of the window or without a frame.
CanGrow(n) == heap_end + n * P <= HeapLimit /\ heap_end \div P + n <= FramePool

\* Memory after mapping n pages at heap_end.  The frames are not cleared:
\* either they are the frames these pages had before (SameFrame: memory
\* reads as it did), or other frames, whose contents also replace the fields
\* of a header that straddles into the first new page.
MapPages(n, contents) ==
    IF contents = SameFrame THEN mem
    ELSE [x \in Addr |->
            IF x >= heap_end /\ x < heap_end + n * P THEN contents
            ELSE IF x < heap_end /\ x + H > heap_end
            THEN [f \in DOMAIN FieldUnit |->
                    IF x + FieldUnit[f] >= heap_end THEN contents[f] ELSE mem[x][f]]
            ELSE mem[x]]

-----------------------------------------------------------------------------
(* heap_init has run: one page, a free first block and the sentinel.       *)
Init ==
    /\ heap_end = P
    /\ last_entry = P - H
    /\ mem = [x \in Addr |->
                IF x = HeapStart THEN [free |-> TRUE, next |-> P - H, prev |-> NULL]
                ELSE IF x = P - H THEN [free |-> FALSE, next |-> NULL, prev |-> HeapStart]
                ELSE Zero]
    /\ live = {}
    /\ op = Idle
    /\ fault = "none"
    /\ null_deref = FALSE
    /\ clobbered = FALSE

Halt(reason) ==
    /\ fault' = reason
    /\ null_deref' = (null_deref \/ reason = "null")
    /\ op' = Idle
    /\ UNCHANGED <<mem, heap_end, last_entry, live, clobbered>>

(* kmalloc(size): heap_find_first_free_space starts at heap_start.  The   *)
(* first call is fat_init's, whose table is never freed.                   *)
FatInit ==
    /\ op = Idle /\ fault = "none"
    /\ ~FatDone
    /\ op' = [curr |-> HeapStart, w |-> FatSize, pin |-> TRUE]
    /\ UNCHANGED <<mem, heap_end, last_entry, live, fault, null_deref, clobbered>>

Kmalloc(w) ==
    /\ op = Idle /\ fault = "none"
    /\ FatDone
    /\ Cardinality(live) < MaxLive
    /\ op' = [curr |-> HeapStart, w |-> w, pin |-> FALSE]
    /\ UNCHANGED <<mem, heap_end, last_entry, live, fault, null_deref, clobbered>>

\* Mutant: the loop forgets to advance to the next block.
SearchNextStuck ==
    /\ op # Idle
    /\ LET c == op.curr IN
       IF ~Readable(mem, c, "free") \/ ~Readable(mem, c, "next") THEN Halt("read")
       ELSE /\ ~AtEnd(mem, c)
            /\ ~mem[c].free \/ BlockSize(mem, c) < op.w
            /\ UNCHANGED vars

(* One turn of the while loop of heap_find_first_free_space: the block at  *)
(* curr does not fit, and it is not the end of the heap.                   *)
SearchNext ==
    /\ op # Idle
    /\ LET c == op.curr IN
       IF ~Readable(mem, c, "free") \/ ~Readable(mem, c, "next") THEN Halt("read")
       ELSE /\ ~AtEnd(mem, c)
            /\ \/ ~mem[c].free
               \/ BlockSize(mem, c) < op.w
            /\ op' = [op EXCEPT !.curr = mem[c].next]
            /\ UNCHANGED <<mem, heap_end, last_entry, live, fault, null_deref, clobbered>>

(* The loop reached the sentinel: allocate_heap_page, then extend the      *)
(* previous free block (or turn the sentinel into a free block) up to a    *)
(* new sentinel at the end of the new page, and retry the same block.      *)
SearchGrow ==
    /\ op # Idle
    /\ LET c == op.curr IN
       IF ~Readable(mem, c, "free") \/ ~Readable(mem, c, "next") THEN Halt("read")
       ELSE
       /\ ~Fits(mem, c, op.w)
       /\ AtEnd(mem, c)
       /\ IF ~CanGrow(1)
          THEN /\ op' = Idle
               /\ UNCHANGED <<mem, heap_end, last_entry, live, fault, null_deref, clobbered>>
          ELSE
          \E fresh \in FreshContents :
            LET m0 == MapPages(1, fresh)
                end == heap_end + P
                pv == m0[c].prev
            IN
            IF ~ReadableIn(m0, end, c, "prev")
               \/ (pv # NULL /\ ~ReadableIn(m0, end, pv, "free")) THEN Halt("read")
            ELSE
            LET usePrev == pv # NULL /\ m0[pv].free
                nc == IF usePrev THEN pv ELSE c
                m1 == IF usePrev THEN m0 ELSE SetField(m0, c, "free", TRUE)
                nl == end - H
                m2 == SetField(m1, nc, "next", nl)
                m3 == SetHeader(m2, nl, [free |-> FALSE, next |-> NULL, prev |-> nc])
            IN /\ heap_end' = end
               /\ mem' = m3
               /\ last_entry' = nl
               /\ op' = [op EXCEPT !.curr = nc]
               /\ clobbered' = (clobbered \/ IntoLive(nc) \/ IntoLive(nl))
               /\ UNCHANGED <<live, fault, null_deref>>

\* Where a split puts the header of the remainder.
SplitAt(c, w) == c + w + H

(* The loop found a free block that fits: split it when the rest can hold  *)
(* a header and MIN_BLOCK_SIZE, mark it used and return it.  After a       *)
(* shrink the block's next may lie in the unmapped page: the split's write *)
(* of curr_end->prev then faults.                                          *)
SearchFound ==
    /\ op # Idle
    /\ LET c == op.curr IN
       /\ Readable(mem, c, "free") /\ Readable(mem, c, "next")
       /\ Fits(mem, c, op.w)
       /\ LET ce == mem[c].next
              nb == SplitAt(c, op.w)
              split == BlockSize(mem, c) >= op.w + H + MinBlock
              m1 == IF split
                    THEN SetField(SetHeader(SetField(mem, c, "next", nb), nb,
                                            [free |-> TRUE, next |-> ce, prev |-> c]),
                                  ce, "prev", nb)
                    ELSE mem
              m2 == SetField(m1, c, "free", FALSE)
          IN IF split /\ ~MappedIn(heap_end, ce, "prev") THEN Halt("read")
             ELSE /\ mem' \in {m2, FillBuffer(m2, c, op.w)}
                  /\ live' = live \cup {[blk |-> c, size |-> op.w, pinned |-> op.pin]}
                  /\ clobbered' = (clobbered \/ IntoLive(c)
                                   \/ (split /\ (IntoLive(nb) \/ IntoLive(ce))))
                  /\ op' = Idle
                  /\ UNCHANGED <<heap_end, last_entry, fault, null_deref>>

(* kfree -> free_block.                                                    *)
Kfree(l) ==
    /\ op = Idle /\ fault = "none"
    /\ l \in live /\ ~l.pinned
    /\ LET b == l.blk
           rest == live \ {l}
           Into(a) == \E k \in rest : (a..(a + H - 1)) \cap DataOf(k) # {}
       IN
       IF ~Readable(mem, b, "next") THEN Halt("read")
       ELSE IF mem[b].next = NULL
       THEN /\ live' = rest
            /\ UNCHANGED <<mem, heap_end, last_entry, op, fault, null_deref, clobbered>>
       ELSE LET n == mem[b].next IN
       IF ~Readable(mem, n, "next") THEN Halt("read")
       ELSE IF mem[n].next = NULL
       \* the last block becomes the last entry; shrink if it is not on the last page
       THEN LET m1 == SetField(SetField(mem, b, "next", NULL), b, "free", TRUE)
                shrink == AlignUp(b) < AlignUp(heap_end)
            IN /\ mem' = m1
               /\ last_entry' = b
               /\ heap_end' = IF shrink THEN heap_end - P ELSE heap_end
               /\ live' = rest
               /\ clobbered' = (clobbered \/ Into(b))
               /\ UNCHANGED <<op, fault, null_deref>>
       ELSE LET pv == mem[b].prev IN
       IF ~Readable(mem, b, "prev") \/ (pv # NULL /\ ~Readable(mem, pv, "free"))
       THEN Halt("read")
       ELSE IF pv # NULL /\ mem[pv].free /\ ~MappedIn(heap_end, pv, "next")
       THEN Halt("read")
       ELSE IF pv # NULL /\ mem[pv].free
       \* merge into the free predecessor
       THEN /\ mem' = SetField(mem, pv, "next", n)
            /\ live' = rest
            /\ clobbered' = (clobbered \/ Into(pv))
            /\ UNCHANGED <<heap_end, last_entry, op, fault, null_deref>>
       ELSE IF ~Readable(mem, n, "free") THEN Halt("read")
       \* absorb a free successor, then mark free
       ELSE LET m1 == IF mem[n].free THEN SetField(mem, b, "next", mem[n].next) ELSE mem
            IN /\ mem' = SetField(m1, b, "free", TRUE)
               /\ live' = rest
               /\ clobbered' = (clobbered \/ Into(b))
               /\ UNCHANGED <<heap_end, last_entry, op, fault, null_deref>>

\* The header the returned block is linked after: the last entry's
\* predecessor, or its predecessor when that block is free (and discarded).
LinkTarget(m, lp) == IF ~m[lp].free THEN lp ELSE m[lp].prev

(* kmalloc_pages(n): map n + 1 pages at the end (all or none), place the   *)
(* returned header at the old end minus one header, link it after the     *)
(* last entry's predecessor (or that predecessor's predecessor when it is  *)
(* free), and put a free block and a new last entry after it.  The new    *)
(* last entry's next field is never written.                              *)
KmallocPages(n) ==
    /\ op = Idle /\ fault = "none"
    /\ FatDone
    /\ Cardinality(live) < MaxLive
    /\ IF ~CanGrow(n + 1)
       THEN UNCHANGED vars
       ELSE
       \E fresh \in FreshContents :
         LET end == heap_end + (n + 1) * P
             ret == end - (n + 1) * P - H
             m0 == SetField(MapPages(n + 1, fresh), ret, "free", FALSE)
             lp == m0[last_entry].prev
         IN
         IF ~ReadableIn(m0, end, last_entry, "prev") \/ ~ReadableIn(m0, end, lp, "free")
         THEN Halt("read")
         ELSE IF m0[lp].free /\ ~ReadableIn(m0, end, lp, "prev") THEN Halt("read")
         ELSE
         \* Through a NULL prev the store goes to address 4, outside the heap:
         \* a page fault, or a silent write when page 0 is mapped.
         \E page0mapped \in BOOLEAN :
         LET link == LinkTarget(m0, lp)
             isNull == link = NULL
             m1 == SetField(IF isNull THEN m0 ELSE SetField(m0, link, "next", ret),
                            ret, "prev", link)
             rn == ret + n * P + H
             nl == end - H
             m2 == SetField(SetField(m1, ret, "next", rn), rn, "free", TRUE)
             m3 == SetField(SetField(m2, nl, "free", FALSE), nl, "prev", rn)
             m4 == SetField(SetField(m3, rn, "next", nl), rn, "prev", ret)
         IN IF isNull /\ ~page0mapped THEN Halt("null")
            ELSE IF ~isNull /\ ~MappedIn(end, link, "next") THEN Halt("read") ELSE
            /\ heap_end' = end
            /\ last_entry' = nl
            /\ mem' \in {m4, FillBuffer(m4, ret, n * P)}
            /\ live' = live \cup {[blk |-> ret, size |-> n * P, pinned |-> FALSE]}
            /\ clobbered' = (clobbered \/ \E a \in {ret, link, rn, nl} \ {NULL} : IntoLive(a))
            /\ null_deref' = (null_deref \/ isNull)
            /\ UNCHANGED <<op, fault>>

Next ==
    \/ FatInit
    \/ \E w \in Sizes : Kmalloc(w)
    \/ SearchNext \/ SearchGrow \/ SearchFound
    \/ \E l \in live : Kfree(l)
    \/ \E n \in PageCounts : KmallocPages(n)

\* The search loop runs to completion once started (single core, no
\* preemption inside the allocator).
Spec == Init /\ [][Next]_vars /\ WF_vars(SearchNext \/ SearchGrow \/ SearchFound)

-----------------------------------------------------------------------------
(* Properties *)

Header == [free : BOOLEAN \cup {GARBAGE}, next : Addr \cup {NULL, GARBAGE},
           prev : Addr \cup {NULL, GARBAGE}]

TypeOK ==
    /\ mem \in [Addr -> Header]
    /\ heap_end \in 0..HeapLimit /\ heap_end % P = 0
    /\ last_entry \in Addr
    /\ live \subseteq [blk : Addr, size : Nat, pinned : BOOLEAN]
    /\ op \in {Idle} \cup [curr : Addr \cup {NULL, GARBAGE}, w : Sizes \cup {FatSize},
                           pin : BOOLEAN]
    /\ fault \in {"none", "read", "null"}
    /\ null_deref \in BOOLEAN /\ clobbered \in BOOLEAN

Extent(l) == l.blk..(l.blk + H + l.size - 1)

\* kmalloc and kmalloc_pages never hand out memory that overlaps (header or
\* buffer) another live allocation, and every live allocation lies inside
\* the mapped heap [heap_start, curr_heap_end): splitting, growth, merging
\* in free_block and the page path must agree on where blocks begin and end.
LiveDisjoint ==
    /\ \A l \in live : l.blk + H + l.size <= heap_end
    /\ \A l, k \in live : l # k => Extent(l) \cap Extent(k) = {}

\* free_block and heap_find_first_free_space never store a header into the
\* buffer of a live allocation (through a stale prev or next link).
NoClobber == ~clobbered

\* kmalloc_pages never dereferences a NULL prev link (line 196): the list
\* from the last entry back to the pinned first block stays linked.
NoNullDeref == ~null_deref

\* The first-fit loop of heap_find_first_free_space always returns.
SearchTerminates == op # Idle ~> op = Idle

=============================================================================
