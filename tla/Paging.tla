------------------------------- MODULE Paging -------------------------------
(***************************************************************************)
(* The virtual memory manager (src/os/kernel/src/memory/paging/paging.c)   *)
(* for the user half of one address space, with its two clients there:    *)
(* elf_load_process (process/loader/elf_loader.c), which maps a new        *)
(* process's image and stack, and the _sbrk system call                    *)
(* (process/syscalls/handlers/proc/proc.c), which grows its break.  The    *)
(* frames come from the frame allocator of PhysicalMemory, whose other     *)
(* clients (the kernel heap) allocate and free frames in between.          *)
(*                                                                         *)
(* Sizes are scaled: a page is PageBytes bytes, a table has PPT entries,   *)
(* the user half has UserDirs directory entries.  A directory entry is a   *)
(* record [present, table], a page table entry [present, frame]; the      *)
(* physical memory that holds page tables is a set of blocks the kernel    *)
(* heap hands out (kmalloc_pages), plus block 0, the physical address      *)
(* get_physical_address returns for an unmapped address.  Page tables are  *)
(* kept by block: every directory entry that names a block shares its      *)
(* entries, as the hardware does.                                          *)
(*                                                                         *)
(* Each call is one step: system calls and process creation run with       *)
(* interrupts masked.                                                      *)
(***************************************************************************)
EXTENDS PhysicalMemory, Integers

CONSTANTS
    PageBytes,   \* PAGE_SIZE
    PPT,         \* PAGES_PER_TABLE
    UserDirs,    \* directory entries below HIGHER_HALF_START
    EntryPage,   \* header->e_entry / PAGE_SIZE, where the image is mapped
    StackPages,  \* DEFAULT_STACK_PAGE_AMOUNT
    Blocks,      \* kernel heap blocks kmalloc_pages can return for page tables
    ImageSizes,  \* elf_get_size_in_mem of the programs loaded
    Increments,  \* arguments of _sbrk
    HeapWindow,  \* (KERNEL_HEAP_END - heap_start) / PAGE_SIZE: kmalloc_pages' limit
    MaxBreak,    \* bound on the process break the model explores
    MaxLoads,    \* bound on the processes created
    MaxOther     \* bound on the frames the allocator's other clients hold

UserPages == UserDirs * PPT
VPage == 0..(UserPages - 1)
Dir == 0..(UserDirs - 1)
Slot == 0..(PPT - 1)
TableMem == Blocks \cup {0}
StackTopPage == UserPages - 1            \* USER_STACK_TOP / PAGE_SIZE
StackStart == StackTopPage - StackPages  \* the first stack page

ASSUME /\ {PageBytes, PPT, UserDirs} \subseteq Nat \ {0}
       /\ Blocks \subseteq Nat \ {0} /\ ImageSizes \subseteq Nat
       /\ EntryPage \in VPage /\ StackPages \in 1..StackTopPage
       /\ Increments \subseteq Int /\ HeapWindow \in Nat
       /\ LenSum < UserPages

VARIABLES
    pde,        \* the address space's page directory, user half
    pt,         \* page table entries, by the block of memory holding them
    heapFree,   \* blocks of page-table memory the kernel heap can hand out
    brk,        \* the process's process_break
    phase,      \* "none" (no process) or "running"
    loads,      \* processes created so far
    badFree,    \* kfree was given an address that no kmalloc returned
    kheld,      \* frames the allocator's other clients hold
    freedPd     \* user half of the page directory kfree'd last

pagingVars == <<pde, pt, heapFree, brk, phase, loads, badFree, kheld, freedPd>>
allVars == <<vars, pagingVars>>

NoPde == [present |-> FALSE, table |-> 0]
NoPte == [present |-> FALSE, frame |-> 0]

\* ALIGN_UP of proc.c, for a power-of-two alignment.
AlignUp(x, a) == ((x + a - 1) \div a) * a

\* The address space: the user half is three quarters of it, as
\* 0xC0000000 is of 2^32.  A uint32_t (an address, or the int page count
\* _sbrk passes as page_count) wraps modulo its size.
AddrSpace == (UserPages * PageBytes * 4) \div 3
U32(x) == x % AddrSpace

-----------------------------------------------------------------------------
(* The kernel state one step works on: the allocator's fields, the tables, *)
(* ret (the last frame pmm_allocate_page returned), ok (a result), got    *)
(* (the frames one kmalloc_pages call took) and tbl (the block it gave).  *)

K == [occ |-> occ, used |-> used_pages, owned |-> owned, reissued |-> reissued,
      ret |-> 0, pde |-> pde, pt |-> pt, ok |-> TRUE, got |-> <<>>, tbl |-> 0]

SetK(k) ==
    /\ occ' = k.occ /\ used_pages' = k.used /\ owned' = k.owned
    /\ reissued' = k.reissued /\ pde' = k.pde /\ pt' = k.pt
    /\ UNCHANGED kheld
    /\ UNCHANGED initialized

\* The entry get_pte(v) reaches through the recursive mapping: entry v % PPT
\* of the table the directory entry of v names.
PteOf(k, v) == k.pt[k.pde[v \div PPT].table][v % PPT]

\* get_physical_address of page v as a frame: 0 when the directory entry or
\* the table entry is not present.
Translate(k, v) ==
    IF k.pde[v \div PPT].present /\ PteOf(k, v).present THEN PteOf(k, v).frame ELSE 0

\* get_physical_address of the page-table window of page v
\* (get_page_table): the block the directory entry names, 0 if absent.
TablePhys(k, v) == IF k.pde[v \div PPT].present THEN k.pde[v \div PPT].table ELSE 0

\* paging_map_page(f, v, ...) in the user half: a missing directory entry
\* is created naming tphys, then the entry of v in the table that directory
\* entry names is set.
MapPage(k, f, v, tphys) ==
    LET d == v \div PPT
        pd2 == IF k.pde[d].present THEN k.pde
               ELSE [k.pde EXCEPT ![d] = [present |-> TRUE, table |-> tphys]]
    IN [k EXCEPT !.pde = pd2,
                 !.pt[pd2[d].table][v % PPT] = [present |-> TRUE, frame |-> f]]

\* deallocate_virtual_page(v): the frame in v's table entry is returned to
\* the allocator whether or not the entry is present, then the entry is
\* marked not present.
DeallocatePage(k, v) ==
    LET d == k.pde[v \div PPT].table
    IN [DeallocateIn(k, PteOf(k, v).frame) EXCEPT !.pt[d][v % PPT].present = FALSE]

\* The rollback loop of allocate_multiple_pages: pages start .. start+n-1.
RECURSIVE DeallocateRange(_, _, _)
DeallocateRange(k, start, n) ==
    IF n = 0 THEN k ELSE DeallocateRange(DeallocatePage(k, start), start + 1, n - 1)

\* allocate_multiple_pages(start, count, ..., tphys) from page start + i on.
\* With fewer usable frames than user pages (ASSUME below), a loop with a
\* wrapped count ends on an allocation failure before the kernel half.
RECURSIVE AllocateFrom(_, _, _, _, _), AllocateMapped(_, _, _, _, _)

\* Mutant: the page mapped before the test for 0, which then rolls back
\* only the pages before it.
AllocateMappedMapFirst(a, start, i, count, tphys) ==
    IF a.ret = 0 THEN [DeallocateRange(MapPage(a, 0, start + i, tphys), start, i) EXCEPT !.ok = FALSE]
    ELSE AllocateFrom(MapPage(a, a.ret, start + i, tphys), start, i + 1, count, tphys)

AllocateMapped(a, start, i, count, tphys) ==
    IF a.ret = 0 THEN [DeallocateRange(a, start, i) EXCEPT !.ok = FALSE]
    ELSE AllocateFrom(MapPage(a, a.ret, start + i, tphys), start, i + 1, count, tphys)

AllocateFrom(k, start, i, count, tphys) ==
    IF i = count THEN [k EXCEPT !.ok = TRUE]
    ELSE AllocateMapped(AllocateIn(k), start, i, count, tphys)

AllocateMultiplePages(k, start, count, tphys) == AllocateFrom(k, start, 0, count, tphys)

\* deallocate_last_heap_page for each page kmalloc_pages mapped, the last
\* one first.
RECURSIVE HeapRollback(_, _)
HeapRollback(k, s) == IF s = <<>> THEN k ELSE HeapRollback(DeallocateIn(k, Last(s)), Front(s))

\* The loop of kmalloc_pages(n): n + 1 heap pages, each a frame from
\* pmm_allocate_page; on a failure the pages mapped so far are unmapped and
\* NULL (0) is returned.
RECURSIVE KmallocGrow(_, _), KmallocGot(_, _)
KmallocGot(a, n) ==
    IF a.ret = 0 THEN [HeapRollback(a, a.got) EXCEPT !.tbl = 0]
    ELSE KmallocGrow([a EXCEPT !.got = Append(@, a.ret)], n)

KmallocGrow(k, n) ==
    IF Len(k.got) = n + 1 THEN [k EXCEPT !.tbl = Min(heapFree)] ELSE KmallocGot(AllocateIn(k), n)

\* kmalloc_pages(n) for page tables: NULL for a count of 0 or beyond the
\* heap's window, and when the window is used up (no block left).
KmallocTablesIn(k, n) ==
    IF n = 0 \/ n > HeapWindow \/ heapFree = {} THEN [k EXCEPT !.tbl = 0]
    ELSE KmallocGrow([k EXCEPT !.got = <<>>], n)

-----------------------------------------------------------------------------
(* Process creation: elf_load_process on the new process's directory      *)

PagingInit ==
    /\ Init
    /\ pde = [d \in Dir |-> NoPde]
    /\ pt = [b \in TableMem |-> [s \in Slot |-> NoPte]]
    /\ heapFree = Blocks
    /\ brk = 0
    /\ phase = "none"
    /\ loads = 0
    /\ badFree = FALSE
    /\ kheld = {}
    /\ freedPd = [d \in Dir |-> NoPde]

\* The end of create_process for a load that failed: kfree of the tables
\* and of the directory; the frames and the tables' contents stay.
LoadFailed(k) ==
    /\ SetK([k EXCEPT !.pde = [d \in Dir |-> NoPde]])
    /\ freedPd' = k.pde
    /\ UNCHANGED <<heapFree, brk, phase, badFree>>

\* After the stack mapping: a failure unmaps size / PAGE_SIZE + 1 pages of
\* the image; success sets the break at the end of the last section.
LoadStack(s, blk, size) ==
    IF ~s.ok THEN LoadFailed(DeallocateRange(s, EntryPage, size \div PageBytes + 1))
    ELSE /\ SetK(s)
         /\ heapFree' = heapFree \ {blk}
         /\ brk' = EntryPage * PageBytes + size
         /\ phase' = "running"
         /\ UNCHANGED <<badFree, freedPd>>

\* After the image mapping: the stack pages are mapped with the same tables.
LoadImage(a, blk, size) ==
    IF ~a.ok THEN LoadFailed(a)
    ELSE LoadStack(AllocateMultiplePages(a, StackStart, StackPages, blk), blk, size)

\* create_process with a valid image: a new directory from kmalloc_pages(1)
\* of which only the kernel half is written, so its user half is what the
\* memory held: empty, or the directory kfree'd last; then elf_load_process: kmalloc_pages for the tables (its NULL is
\* not checked; get_physical_address(NULL) is 0), the image's
\* size / PAGE_SIZE + 2 pages from the entry page, then the stack.
\* The sections are copied into mapped pages and change no mapping.
LoadProcess(k, size) ==
    LoadImage(AllocateMultiplePages(k, EntryPage, size \div PageBytes + 2, k.tbl), k.tbl, size)

CreateProcess(size) ==
    /\ phase = "none"
    /\ loads < MaxLoads
    /\ \E pd0 \in {[d \in Dir |-> NoPde], freedPd} :
           LoadProcess(KmallocTablesIn([K EXCEPT !.pde = pd0], (size \div PageBytes) \div PPT + 1), size)
    /\ loads' = loads + 1

\* exit_proc: free_proc_node frees the directory only; the page tables and
\* the frames mapped in them are never freed.
ExitProcess ==
    /\ phase = "running"
    /\ pde' = [d \in Dir |-> NoPde]
    /\ freedPd' = pde
    /\ brk' = 0
    /\ phase' = "none"
    /\ UNCHANGED <<vars, pt, heapFree, loads, badFree, kheld>>

-----------------------------------------------------------------------------
(* _sbrk(increment) of the running process                                *)

\* The end of _sbrk after the mapping below the boundary.
SbrkDone(r, nb, tables, blk) ==
    /\ SetK(r)
    /\ IF r.ok THEN /\ heapFree' = heapFree \ {blk}
                    /\ brk' = nb
                    /\ UNCHANGED badFree
       ELSE /\ badFree' = (badFree \/ tables > 1)
            /\ UNCHANGED <<heapFree, brk>>
    /\ UNCHANGED <<phase, loads, freedPd>>

\* The pages below the table boundary: (nb - current_page_end) / PAGE_SIZE
\* minus those already mapped past the boundary, as a uint32_t count, in
\* the table of current_page_end.  On failure, kfree(new_page_tables +
\* i * PAGE_SIZE) for every table: only i = 0 is an address kmalloc_pages
\* returned.
SbrkBelowBoundary(k, nb, cpe, tables, past, blk) ==
    LET r == AllocateMultiplePages(k, cpe \div PageBytes,
                                   U32((nb - cpe) \div PageBytes - past),
                                   TablePhys(k, cpe \div PageBytes))
    IN SbrkDone(r, nb, tables, blk)

SbrkPast(a, nb, cpe, tables, blk) ==
    IF ~a.ok THEN /\ SetK(a)
                  /\ UNCHANGED <<heapFree, brk, phase, loads, badFree, freedPd>>
    ELSE SbrkBelowBoundary(a, nb, cpe, tables, (tables - 1) * PPT + 1, blk)

\* Past the table boundary: (nb - boundary) / (PPT pages) + 1 tables from
\* kmalloc_pages, and (tables - 1) * PPT + 1 pages from the boundary on.
SbrkPastBoundary(k, nb, cpe, ptb, tables) ==
    IF k.tbl = 0 THEN /\ SetK(k)
                      /\ UNCHANGED <<heapFree, brk, phase, loads, badFree, freedPd>>
    ELSE SbrkPast(AllocateMultiplePages(k, ptb \div PageBytes, (tables - 1) * PPT + 1, k.tbl),
                  nb, cpe, tables, k.tbl)

\* _sbrk: -1 when the break's page is unmapped; no mapping when the new
\* break stays within the break's page; otherwise map up to it.  The break
\* is a uintptr_t; the model's breaks stay above 0, as the real one stays
\* above the image at 0x08048000.
Sbrk(inc) ==
    LET nb == U32(brk + inc)
        cpe == AlignUp(brk, PageBytes)
        ptb == AlignUp(brk, PageBytes * PPT)
        tables == (nb - ptb) \div (PageBytes * PPT) + 1
    IN /\ phase = "running"
       /\ brk + inc \in 0..MaxBreak
       /\ Translate(K, brk \div PageBytes) # 0
       /\ CASE nb <= cpe -> brk' = nb /\ UNCHANGED <<vars, pde, pt, heapFree, phase, loads, badFree, kheld, freedPd>>
             [] nb > ptb -> SbrkPastBoundary(KmallocTablesIn(K, tables), nb, cpe, ptb, tables)
             [] OTHER -> SbrkBelowBoundary(K, nb, cpe, 0, 0, 0)

-----------------------------------------------------------------------------
(* The other clients of the frame allocator (the kernel heap growing and *)
(* shrinking) take and return their own frames between these calls.      *)

OtherAllocate ==
    /\ Cardinality(kheld) < MaxOther
    /\ PmmAllocatePage
    /\ kheld' = kheld \cup {FindFirstFree}
    /\ UNCHANGED <<pde, pt, heapFree, brk, phase, loads, badFree, freedPd>>

OtherFree(p) ==
    /\ PmmDeallocatePage(p)
    /\ kheld' = kheld \ {p}
    /\ UNCHANGED <<pde, pt, heapFree, brk, phase, loads, badFree, freedPd>>

PagingNext ==
    \/ PmmInit /\ UNCHANGED pagingVars
    \/ OtherAllocate
    \/ \E p \in kheld : OtherFree(p)
    \/ initialized /\ \E size \in ImageSizes : CreateProcess(size)
    \/ ExitProcess
    \/ \E inc \in Increments : Sbrk(inc)

PagingSpec == PagingInit /\ [][PagingNext]_allVars

-----------------------------------------------------------------------------
(* Properties *)

TypeOKPaging ==
    /\ TypeOK
    /\ pde \in [Dir -> [present : BOOLEAN, table : TableMem]]
    /\ pt \in [TableMem -> [Slot -> [present : BOOLEAN, frame : Frame]]]
    /\ heapFree \subseteq Blocks /\ kheld \subseteq Frame
    /\ brk \in 0..(AddrSpace - 1) /\ phase \in {"none", "running"}
    /\ loads \in 0..MaxLoads /\ badFree \in BOOLEAN
    /\ freedPd \in [Dir -> [present : BOOLEAN, table : TableMem]]

\* No page of the user half is ever mapped to a frame of the reserved low
\* region, frame 0 included: pmm_allocate_page returns 0 when memory is
\* out, and allocate_multiple_pages must treat it as a failure instead of
\* mapping it, through every load, growth and rollback.
NoReservedMapped ==
    \A v \in VPage : pde[v \div PPT].present /\ PteOf(K, v).present => PteOf(K, v).frame >= ReservedPages

\* After every _sbrk that returned, each byte from the image's first page
\* up to the break is mapped: the break is the end of the memory malloc
\* may use.
BreakMapped == phase = "running" =>
    \A v \in VPage : EntryPage * PageBytes <= v * PageBytes /\ v * PageBytes < brk => Translate(K, v) # 0

\* The pages the running process uses: from the image's first page up to
\* the break, and the stack.
InUse == {v \in VPage : EntryPage * PageBytes <= v * PageBytes /\ v * PageBytes < brk}
         \cup StackStart..(StackStart + StackPages - 1)

\* Two distinct pages the running process uses never translate to the same
\* frame: a heap page written by malloc must not be the stack.  Every
\* paging_map_page call goes through the page directory entry of its page,
\* so this depends on what table each directory entry names after the ELF
\* loader and every _sbrk.
NoAlias == phase = "running" =>
    \A v, w \in InUse : v # w /\ Translate(K, v) # 0 => Translate(K, v) # Translate(K, w)
=============================================================================
