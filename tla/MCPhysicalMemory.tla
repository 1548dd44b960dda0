------------------------- MODULE MCPhysicalMemory -------------------------
(* Instance of the frame allocator for TLC: 8 words of 4 frames, the     *)
(* whole bitmap (4 GB).  Word 0 plays the reserved low 24 MB.  The memory *)
(* map reports frames 0..2 and 4..10 usable: a hole at frame 3, and RAM   *)
(* ends inside word 2.  The memset reaches the first 4 words (BITMAP_SIZE *)
(* bytes: 1 GB of frames), beyond the end of RAM; max_pages, computed     *)
(* with mem_upper * 64, covers the whole bitmap.                          *)
EXTENDS PhysicalMemory

MCRegions == << [addr |-> 0, len |-> 3], [addr |-> 4, len |-> 7] >>
=============================================================================
