------------------------------ MODULE MCPaging ------------------------------
(* Instance of paging for TLC.  The frame allocator has 7 words of 2      *)
(* frames; word 0 plays the reserved low region, the memory map gives     *)
(* frame 0 and frames 2..13 as usable, and used_pages lets 11 frames be   *)
(* allocated: fewer than the 16 user pages, as RAM is smaller than the    *)
(* 3 GB user half.  Pages of 2 bytes, tables of 4 entries, four user      *)
(* directory entries.  As in the real layout (entry page 0x08048, stack   *)
(* just below 0xC0000000), the image starts at entry 0 of the first       *)
(* table and the one stack page is entry 2 of the last, past the image's  *)
(* two pages: the shared table gives them no common entry until the heap  *)
(* grows to entry 2.                                                      *)
EXTENDS Paging

MCRegions == << [addr |-> 0, len |-> 1], [addr |-> 2, len |-> 12] >>

\* _sbrk arguments: a shrink (to a break on a table boundary, from where a
\* growth of one byte wraps the page count), a growth within or across a
\* page, one across a table boundary.
MCIncrements == {-1, 1, 8}
=============================================================================
