------------------------------- MODULE MCHeap -------------------------------
(* Instance of the heap for TLC: a page of 8 units (32 bytes) holds two   *)
(* 12-byte headers and two units of payload, so requests of one and three *)
(* units exercise splitting and growth by a page; the runs with           *)
(* kmalloc_pages use requests of two units beside fat_init's table.       *)
EXTENDS Heap

MCSizes == {1, 3}
MCPageCounts == {1}
MCNoPages == {}
MCPageSizes == {2}
=============================================================================
