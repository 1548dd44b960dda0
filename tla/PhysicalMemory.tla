--------------------------- MODULE PhysicalMemory ---------------------------
(***************************************************************************)
(* The physical frame allocator                                            *)
(* (src/os/kernel/src/memory/physical/physical_memory_manager.c): a bitmap *)
(* with one bit per frame, set when the frame is unavailable, grouped in   *)
(* words of WordBits bits; pmm_init builds it from the multiboot memory    *)
(* map, pmm_allocate_page takes the first clear bit and                    *)
(* pmm_deallocate_page clears one.                                         *)
(*                                                                         *)
(* The bitmap is the set occ of frames whose bit is set.  set_bit_status   *)
(* works on the whole word that holds the bit, as the code does: set_free  *)
(* ANDs the word with the bit's mask.  The frames a client holds are owned.*)
(***************************************************************************)
EXTENDS Naturals, FiniteSets, SequencesExt

CONSTANTS
    WordBits,      \* PAGES_PER_DWORD
    Words,         \* BITMAP_SIZE, the words of the static bitmap
    MemsetWords,   \* the words memset(bitmap, 0xff, BITMAP_SIZE) reaches
    MaxPages,      \* pmm_info.max_pages, computed from mem_lower / mem_upper
    Regions,       \* the type-1 (usable) memory map entries, in frames
    ReservedPages, \* frames of the low region pmm_init re-reserves (24 MB)
    MaxOwned       \* bound on the frames clients hold at once

Frame == 0..(Words * WordBits - 1)

ASSUME /\ MemsetWords <= Words /\ MaxPages <= Words * WordBits
       /\ \A i \in DOMAIN Regions : Regions[i].addr + Regions[i].len - 1 \in Frame

VARIABLES
    initialized, \* is_initialized
    occ,         \* frames whose bitmap bit is set
    used_pages,  \* pmm_info.used_pages
    owned,       \* frames handed out and not yet freed
    reissued     \* pmm_allocate_page returned a frame a client still holds

vars == <<initialized, occ, used_pages, owned, reissued>>

WordOf(p) == {q \in Frame : q \div WordBits = p \div WordBits}

\* set_bit_status(p, MEMORY_FREE): bitmap[p / 32] &= (1 << p % 32).
SetFree(o, p) == (o \ WordOf(p)) \cup (o \cap {p})

\* set_bit_status(p, MEMORY_OCCUPIED): bitmap[p / 32] |= (1 << p % 32).
SetOccupied(o, p) == o \cup {p}

\* The frames of a region in the order the loops of pmm_init_region and
\* pmm_clear_region visit them.
RegionFrames(r) == [i \in 1..r.len |-> r.addr + i - 1]

\* pmm_init_region: set_free on every frame of the region, in order.
InitRegion(o, r) == FoldLeft(SetFree, o, RegionFrames(r))

\* pmm_clear_region: set_occupied on every frame of the region.
ClearRegion(o, r) == FoldLeft(SetOccupied, o, RegionFrames(r))

LenSum == FoldLeft(LAMBDA acc, r : acc + r.len, 0, Regions)

Low == [addr |-> 0, len |-> ReservedPages]

\* find_first_free_block on the bitmap o with used_pages u: -1 when u says
\* every page is used, otherwise the first clear bit among the
\* max_pages / 32 words scanned.
FirstFreeIn(o, u) ==
    LET scanned == {p \in Frame : p < (MaxPages \div WordBits) * WordBits /\ p \notin o}
    IN IF u = MaxPages \/ scanned = {} THEN -1
       ELSE CHOOSE p \in scanned : \A q \in scanned : p <= q

FindFirstFree == FirstFreeIn(occ, used_pages)

\* The allocator's state as a record, for callers that allocate and free
\* several frames within one kernel step.

\* pmm_allocate_page on a record m that carries the allocator's fields:
\* the frame returned is m.ret, 0 when find_first_free_block gave -1.
AllocateIn(m) ==
    LET p == FirstFreeIn(m.occ, m.used)
    IN IF p = -1 THEN [m EXCEPT !.ret = 0]
       ELSE [m EXCEPT !.occ = SetOccupied(@, p), !.used = @ + 1,
                      !.reissued = @ \/ p \in m.owned, !.owned = @ \cup {p},
                      !.ret = p]

\* pmm_deallocate_page(p) on such a record: no check that p is allocated.
DeallocateIn(m, p) ==
    [m EXCEPT !.used = @ - 1, !.occ = SetFree(@, p), !.owned = @ \ {p}]

-----------------------------------------------------------------------------
(* The static bitmap starts zeroed.                                        *)
Init ==
    /\ initialized = FALSE
    /\ occ = {}
    /\ used_pages = 0
    /\ owned = {}
    /\ reissued = FALSE

\* Mutant: the low region reserved before the usable regions are freed.
PmmInitClearFirst ==
    /\ ~initialized
    /\ LET set0 == {p \in Frame : p \div WordBits < MemsetWords}
           set1 == FoldLeft(InitRegion, ClearRegion(set0, Low), Regions)
       IN occ' = SetOccupied(set1, 0)
    /\ used_pages' = MaxPages - LenSum + ReservedPages
    /\ initialized' = TRUE
    /\ UNCHANGED <<owned, reissued>>

(* pmm_init: every page used, memset over BITMAP_SIZE bytes, free the     *)
(* usable regions, re-reserve the low region, then frame 0.               *)
PmmInit ==
    /\ ~initialized
    /\ LET set0 == {p \in Frame : p \div WordBits < MemsetWords}
           set1 == FoldLeft(InitRegion, set0, Regions)
       IN occ' = SetOccupied(ClearRegion(set1, Low), 0)
    /\ used_pages' = MaxPages - LenSum + ReservedPages
    /\ initialized' = TRUE
    /\ UNCHANGED <<owned, reissued>>

\* Mutant: the -1 of find_first_free_block used as a frame.
PmmAllocatePageNoCheck ==
    /\ initialized
    /\ Cardinality(owned) < MaxOwned
    /\ LET p == FindFirstFree IN
       /\ occ' = SetOccupied(occ, p)
       /\ used_pages' = used_pages + 1
       /\ reissued' = (reissued \/ p \in owned)
       /\ owned' = owned \cup {p}
    /\ UNCHANGED initialized

(* pmm_allocate_page: 0 (no state change) when no frame is found.          *)
PmmAllocatePage ==
    /\ initialized
    /\ Cardinality(owned) < MaxOwned
    /\ LET p == FindFirstFree IN
       /\ p # -1
       /\ occ' = SetOccupied(occ, p)
       /\ used_pages' = used_pages + 1
       /\ reissued' = (reissued \/ p \in owned)
       /\ owned' = owned \cup {p}
    /\ UNCHANGED initialized

(* pmm_deallocate_page(p) of a frame a client holds.                       *)
PmmDeallocatePage(p) ==
    /\ p \in owned
    /\ used_pages' = used_pages - 1
    /\ occ' = SetFree(occ, p)
    /\ owned' = owned \ {p}
    /\ UNCHANGED <<initialized, reissued>>

Next ==
    \/ PmmInit
    \/ PmmAllocatePage
    \/ \E p \in owned : PmmDeallocatePage(p)

Spec == Init /\ [][Next]_vars

-----------------------------------------------------------------------------
(* Properties *)

TypeOK ==
    /\ initialized \in BOOLEAN
    /\ occ \subseteq Frame
    /\ used_pages \in 0..MaxPages
    /\ owned \subseteq Frame
    /\ reissued \in BOOLEAN

\* No frame of the low reserved region (kernel image, bootstrap tables,
\* frame 0, which pmm_allocate_page also uses as its failure value) is ever
\* handed out, whatever sequence of allocations and frees has run.
ReservedNeverAllocated == \A p \in owned : p >= ReservedPages

\* pmm_allocate_page never returns a frame a client still holds.
NoDoubleAllocation == ~reissued

=============================================================================
