-------------------------------- MODULE Fat --------------------------------
(***************************************************************************)
(* The FAT16 layer of DbolOS (filesystem/fat/fat.c): the in-memory FAT,    *)
(* the directory entries stored in the data clusters, and the operations   *)
(* the system calls reach: fat_create (mkdir, open O_CREAT), fat_delete    *)
(* (unlink, rmdir), fat_rename, fat_truncate (truncate) and fat_write      *)
(* (write), each one atomic step, since every system call runs with        *)
(* interrupts masked.                                                      *)
(*                                                                         *)
(* Data is abstracted to what the FAT and the directories depend on: a     *)
(* cluster's contents are the directory entries it holds when read as a    *)
(* directory; file bytes are not modelled, a file cluster reads as empty   *)
(* slots (fat_update_chain zeroes every cluster it hands out).  Names are  *)
(* model values, a path is the sequence of its names below the root.       *)
(***************************************************************************)
EXTENDS Integers, Sequences, SequencesExt, FiniteSets

CONSTANTS
    NumEntries,       \* FAT entries: sectors_per_fat * bytes_per_sector / 2
    SlotsPerCluster,  \* directory entries in a cluster
    BytesPerCluster,  \* bytes_per_sector * sectors_per_cluster
    Names             \* names check_file_name accepts

ASSUME NumEntries >= 3 /\ SlotsPerCluster >= 2 /\ BytesPerCluster >= 1

Cl == 0..(NumEntries - 1)
Slot == 1..SlotsPerCluster
FREE == 0                  \* FAT16_FREE_CLUSTER
END == 65528               \* FAT16_CLUSTER_CHAIN_END (0xFFF8), also the media byte mkfs puts in fat[0]
RESERVED == 65535          \* what mkfs puts in fat[1]
IsEnd(v) == v >= 65528 /\ v <= 65535    \* IS_END_OF_CLUSTER_CHAIN

(* FAT16_DirEntry, reduced to name, attr & FAT_ATTR_DIRECTORY,            *)
(* start_cluster and file_size.  An all-zero entry is a free slot.        *)
DirEntry == [name : Names \cup {"", ".", ".."}, dir : BOOLEAN, start : Cl, size : Nat]
Zero == [name |-> "", dir |-> FALSE, start |-> 0, size |-> 0]
ZeroCluster == [s \in Slot |-> Zero]

(* root_dir as fat_init sets it up; its file_size is read only by         *)
(* getdents, which is not modelled.                                       *)
RootDir == [name |-> "~", dir |-> TRUE, start |-> 0, size |-> 0]
NoEntry == [name |-> "?", dir |-> FALSE, start |-> 0, size |-> 0]

VARIABLES
    fat,     \* fat_table
    data     \* data[c][i]: the i-th directory entry of cluster c

Disk == [fat |-> fat, data |-> data]
SetDisk(d) == fat' = d.fat /\ data' = d.data

-----------------------------------------------------------------------------
(* Cluster chains *)

(* fat_find_free: the first FREE entry of the table, or -1. *)
FindFree(f) ==
    IF \E c \in Cl : f[c] = FREE THEN CHOOSE c \in Cl : f[c] = FREE /\ \A x \in 0..(c - 1) : f[x] # FREE
    ELSE -1

(* The clusters get_ith_cluster visits from s: s, then fat[s], while the  *)
(* entry is neither an end mark nor FREE.  n bounds the walk on a cycle.  *)
RECURSIVE Chain(_, _, _)
Chain(f, s, n) ==
    IF n = 0 \/ IsEnd(f[s]) \/ f[s] = FREE THEN <<s>> ELSE <<s>> \o Chain(f, f[s], n - 1)

ChainOf(f, s) == Chain(f, s, NumEntries)

(* fat_get_cluster_amount: the links followed, plus one if the walk ends  *)
(* on an end mark rather than on a FREE entry.                            *)
ClusterAmount(f, s) ==
    LET ch == ChainOf(f, s) IN Len(ch) - 1 + (IF IsEnd(f[Last(ch)]) THEN 1 ELSE 0)

(* fat_update_chain(start, new): link the last cluster of start's chain   *)
(* to new, end the chain at new and zero new's cluster.                   *)
UpdateChain(d, s, new) ==
    LET bl == Last(ChainOf(d.fat, s)) IN
    [fat |-> [d.fat EXCEPT ![bl] = new, ![new] = END],
     data |-> [d.data EXCEPT ![new] = ZeroCluster]]

(* fat_free_chain: every cluster of the chain becomes FREE. *)
FreeChain(d, c) ==
    LET ch == ToSet(ChainOf(d.fat, c)) IN
    [d EXCEPT !.fat = [x \in Cl |-> IF x \in ch THEN FREE ELSE d.fat[x]]]

(* fat_allocate_space: k times fat_find_free and fat_update_chain.  k is  *)
(* a uint32_t, so a negative amount runs until the table is full.         *)
RECURSIVE AllocateSpace(_, _, _)
AllocateSpace(d, k, s) ==
    IF k = 0 THEN [ok |-> TRUE, disk |-> d]
    ELSE LET i == FindFree(d.fat) IN
         IF i = -1 THEN [ok |-> FALSE, disk |-> d]
         ELSE AllocateSpace(UpdateChain(d, s, i), k - 1, s)

-----------------------------------------------------------------------------
(* Directories *)

(* The slots the directory loops scan, in order: each cluster of the      *)
(* chain from s, each entry of the cluster.                               *)
Positions(f, s) ==
    LET ch == ChainOf(f, s) IN
    [k \in 1..(Len(ch) * SlotsPerCluster) |->
        <<ch[(k - 1) \div SlotsPerCluster + 1], ((k - 1) % SlotsPerCluster) + 1>>]

At(d, p) == d.data[p[1]][p[2]]

(* The first slot of directory s named nm, or <<>>: the scan of           *)
(* fat_find_dir_entry, fat_update_dir_entry and fat_remove_dir_entry;     *)
(* nm = "" finds a free slot, as in fat_add_dir_entry.                    *)
FindPos(d, s, nm) ==
    LET ps == Positions(d.fat, s)
        k == SelectInSeq(ps, LAMBDA p : At(d, p).name = nm)
    IN IF k = 0 THEN <<>> ELSE ps[k]

(* fat_add_dir_entry: the first free slot, or a new cluster linked to the *)
(* directory's chain when it is full. *)
AddDirEntry(d, pe, e) ==
    LET p == FindPos(d, pe.start, "") IN
    IF p # <<>> THEN [ok |-> TRUE, disk |-> [d EXCEPT !.data[p[1]][p[2]] = e]]
    ELSE LET n == FindFree(d.fat) IN
         IF n = -1 THEN [ok |-> FALSE, disk |-> d]
         ELSE LET d2 == UpdateChain(d, pe.start, n)
              IN [ok |-> TRUE, disk |-> [d2 EXCEPT !.data[n][1] = e]]

(* fat_update_dir_entry: overwrite the first entry named nm. *)
UpdateDirEntry(d, pe, nm, e) ==
    LET p == FindPos(d, pe.start, nm) IN
    IF p = <<>> THEN d ELSE [d EXCEPT !.data[p[1]][p[2]] = e]

(* fat_remove_dir_entry(nm, parent, true): free the entry's chain, zero   *)
(* the slot. *)
RemoveDirEntry(d, pe, nm) ==
    LET p == FindPos(d, pe.start, nm) IN
    IF p = <<>> THEN d
    ELSE [FreeChain(d, At(d, p).start) EXCEPT !.data[p[1]][p[2]] = Zero]

(* fat_find_dir_entry_from_path: every name but the last must be found in *)
(* a directory; the last is looked up whatever the entry holding it is.   *)
RECURSIVE Walk(_, _, _)
Walk(d, cur, path) ==
    IF path = <<>> THEN cur
    ELSE IF Len(path) > 1 /\ ~cur.dir THEN NoEntry
    ELSE LET p == FindPos(d, cur.start, Head(path)) IN
         IF p = <<>> THEN NoEntry ELSE Walk(d, At(d, p), Tail(path))

Lookup(d, path) == Walk(d, RootDir, path)

(* get_parent_dir and get_base_name.  The path "/" + the components     *)
(* joined by "/" loses its last "/" and what follows; an empty rest, or   *)
(* the "/" left of "//a", is the root.                                    *)
Parent(path) == IF Len(path) <= 1 \/ Front(path) = <<"">> THEN <<>> ELSE Front(path)
Base(path) == IF path = <<>> THEN "" ELSE Last(path)

(* check_file_name: the names the model uses are legal characters; "",   *)
(* ".", ".." and "~" are refused.                                         *)
CheckFileName(nm) == nm \notin {"", ".", "..", "~"}

-----------------------------------------------------------------------------
(* File sizes *)

(* The while loop of fat_truncate's shrink branch: it frees k clusters    *)
(* from the head of the chain on, then ends the chain where it stopped.   *)
RECURSIVE ShrinkChain(_, _, _)
ShrinkChain(f, c, k) ==
    IF k <= 0 THEN [f EXCEPT ![c] = END]
    ELSE ShrinkChain([f EXCEPT ![c] = FREE], f[c], k - 1)

(* new_cluster_amount - curr_cluster_amount passed as a uint32_t. *)
Amount(k) == IF k >= 0 THEN k ELSE k + 2^32

(* fat_truncate on a FileData e (the entry) and pe (its parent): shrink,  *)
(* or allocate the missing clusters, then write the new size back into    *)
(* the parent.  The zero fill it passes to fat_write has length 0.        *)
TruncateDisk(d, e, pe, n) ==
    LET want == n \div BytesPerCluster + 1
        curr == ClusterAmount(d.fat, e.start)
        grown == AllocateSpace(d, Amount(want - curr), e.start)
    IN CASE e.dir -> d
         [] n < e.size ->
              UpdateDirEntry([d EXCEPT !.fat = ShrinkChain(d.fat, e.start, curr - want)],
                             pe, e.name, [e EXCEPT !.size = n])
         [] n > e.size /\ grown.ok ->
              UpdateDirEntry(grown.disk, pe, e.name, [e EXCEPT !.size = n])
         [] n > e.size -> grown.disk
         [] OTHER -> d

-----------------------------------------------------------------------------
(* Operations *)

(* The disk as fat_init reads it from a freshly formatted image. *)
Formatted ==
    [fat |-> [c \in Cl |-> CASE c = 0 -> END [] c = 1 -> RESERVED [] OTHER -> FREE],
     data |-> [c \in Cl |-> ZeroCluster]]

(* The "." and ".." entries fat_create adds to a new directory; a failed  *)
(* add frees the directory's chain.                                       *)
AddDots(d, e, pe) ==
    LET a1 == AddDirEntry(d, e, [Zero EXCEPT !.name = ".", !.dir = TRUE, !.start = e.start])
        a2 == AddDirEntry(a1.disk, e, [Zero EXCEPT !.name = "..", !.dir = TRUE, !.start = pe.start])
    IN CASE ~a1.ok -> [ok |-> FALSE, disk |-> FreeChain(a1.disk, e.start)]
         [] ~a2.ok -> [ok |-> FALSE, disk |-> FreeChain(a2.disk, e.start)]
         [] OTHER -> a2

(* The early returns of fat_create(path, is_directory): a legal name, a    *)
(* parent directory that does not hold it yet, a free cluster.            *)
CreateGuard(d, path) ==
    LET par == Lookup(d, Parent(path)) IN
    /\ CheckFileName(Base(path))
    /\ par # NoEntry
    /\ par.dir
    /\ FindPos(d, par.start, Base(path)) = <<>>
    /\ FindFree(d.fat) # -1

CreateDisk(d, path, isdir, inc) ==
    LET par == Lookup(d, Parent(path))
        s == FindFree(d.fat)
        e == [name |-> Base(path), dir |-> isdir, start |-> s, size |-> IF isdir THEN 2 ELSE 0]
        a == AddDirEntry(UpdateChain(d, s, s), par, e)
        dots == IF isdir THEN AddDots(a.disk, e, par) ELSE a
        gp == Lookup(dots.disk, Parent(Parent(path)))
    IN CASE ~a.ok -> [ok |-> FALSE, disk |-> FreeChain(a.disk, s)]
         [] ~dots.ok \/ gp = NoEntry -> [ok |-> FALSE, disk |-> dots.disk]
         [] OTHER -> [ok |-> TRUE,
                      disk |-> UpdateDirEntry(dots.disk, gp, par.name, [par EXCEPT !.size = @ + inc])]

(* fat_create in the kernel: the parent's size grows by one. *)
Create(path, isdir) ==
    /\ CreateGuard(Disk, path)
    /\ SetDisk(CreateDisk(Disk, path, isdir, 1).disk)

(* Mutant: fat_delete without parent_dir.file_size--. *)
DeleteNoCount(path, isdir) ==
    LET e == Lookup(Disk, path)
        par == Lookup(Disk, Parent(path))
        gp == Lookup(Disk, Parent(Parent(path)))
    IN /\ e # NoEntry
       /\ IF isdir THEN e.dir /\ e.size = 2 ELSE ~e.dir
       /\ par # NoEntry
       /\ gp # NoEntry
       /\ SetDisk(UpdateDirEntry(RemoveDirEntry(Disk, par, Base(path)), gp, par.name, par))

(* fat_delete(path, is_directory).  The directory test is                 *)
(* dir.attr && FAT_ATTR_DIRECTORY, which is attr # 0: the same for the    *)
(* entries fat_create makes, whose attr is 0 or FAT_ATTR_DIRECTORY.       *)
Delete(path, isdir) ==
    LET e == Lookup(Disk, path)
        par == Lookup(Disk, Parent(path))
        gp == Lookup(Disk, Parent(Parent(path)))
    IN /\ e # NoEntry
       /\ IF isdir THEN e.dir /\ e.size = 2 ELSE ~e.dir
       /\ par # NoEntry
       /\ gp # NoEntry
       /\ SetDisk(UpdateDirEntry(RemoveDirEntry(Disk, par, Base(path)),
                                 gp, par.name, [par EXCEPT !.size = @ - 1]))

(* Mutant: fat_rename without the check that new_name is free. *)
RenameNoExistCheck(path, nm) ==
    LET f == Lookup(Disk, path)
        par == Lookup(Disk, Parent(path))
    IN /\ f # NoEntry
       /\ par # NoEntry
       /\ par.dir
       /\ CheckFileName(nm)
       /\ SetDisk(UpdateDirEntry(Disk, par, f.name, [f EXCEPT !.name = nm]))

(* fat_rename(path, new_name), as _rename calls it with the base name of  *)
(* a path in the same directory. *)
Rename(path, nm) ==
    LET f == Lookup(Disk, path)
        par == Lookup(Disk, Parent(path))
    IN /\ f # NoEntry
       /\ par # NoEntry
       /\ par.dir
       /\ CheckFileName(nm)
       /\ FindPos(Disk, par.start, nm) = <<>>
       /\ SetDisk(UpdateDirEntry(Disk, par, f.name, [f EXCEPT !.name = nm]))

(* fat_get_file_data: the entry and its parent's entry, both found from  *)
(* the root; it succeeds for a directory too.                             *)
GetFileData(path) ==
    LET e == Lookup(Disk, path)
        pe == Lookup(Disk, Parent(path))
    IN [ok |-> e # NoEntry /\ pe # NoEntry, file |-> e, parent |-> pe]

(* _truncate(path, length): fat_get_file_data, then fat_truncate on that  *)
(* copy, which fails at once for a directory.                             *)
Truncate(path, n) ==
    LET fd == GetFileData(path) IN
    /\ fd.ok
    /\ ~fd.file.dir
    /\ n # fd.file.size
    /\ SetDisk(TruncateDisk(Disk, fd.file, fd.parent, n))

(* fat_write(file, parent, offset, size): when offset + size passes the   *)
(* file's size, it first calls fat_truncate on a copy of the entry; the   *)
(* bytes it then copies into the clusters are not modelled.  The entry is *)
(* the one cached at open, taken here as it is on disk.                   *)
Write(path, n) ==
    LET fd == GetFileData(path) IN
    /\ fd.ok
    /\ ~fd.file.dir
    /\ n > fd.file.size
    /\ SetDisk(TruncateDisk(Disk, fd.file, fd.parent, n))


-----------------------------------------------------------------------------
(* Properties *)

(* Every level of a directory tree takes a cluster of its own, so no     *)
(* entry lies deeper than the clusters fat_find_free can hand out.        *)
MaxDepth == NumEntries - 2

(* The slots of named entries reachable from directory s, n levels down. *)
RECURSIVE LiveIn(_, _)
LiveIn(s, n) ==
    LET own == {p \in ToSet(Positions(fat, s)) : At(Disk, p).name \notin {"", ".", ".."}}
    IN own \cup (IF n = 0 THEN {}
                 ELSE UNION {LiveIn(At(Disk, p).start, n - 1) : p \in {q \in own : At(Disk, q).dir}})

Live == LiveIn(0, MaxDepth - 1)
Owned(p) == ToSet(ChainOf(fat, At(Disk, p).start))
RootChain == ToSet(ChainOf(fat, 0))

(* Every cluster fat_find_free will not hand out belongs to exactly one   *)
(* chain: the root's or that of one entry reachable from it.  No chain    *)
(* runs into a FREE cluster, no two chains share one, and no allocated    *)
(* cluster is lost.  fat_create, fat_delete, fat_truncate and fat_write   *)
(* all rewrite chains; a cross-link means two files overwrite each        *)
(* other's data.  fat_create takes the entry's cluster before it knows    *)
(* the parent has room, and must give it back when the add fails.         *)
FatPartitionsClusters ==
    /\ \A p \in Live : \A c \in Owned(p) : fat[c] # FREE
    /\ \A p \in Live : Owned(p) \cap RootChain = {}
    /\ \A p, q \in Live : p # q => Owned(p) \cap Owned(q) = {}
    /\ \A c \in Cl \ {0, 1} : fat[c] # FREE => c \in RootChain \/ \E p \in Live : c \in Owned(p)

(* The file_size of every directory is the number of used slots in its    *)
(* chain, "." and ".." included.  fat_create and fat_delete keep it by    *)
(* rewriting the parent's entry in the grandparent; fat_delete trusts it  *)
(* (file_size != 2 means not empty) before freeing a directory.  _open    *)
(* and the FAT walks read the slots it counts.                            *)
DirSizeCountsEntries ==
    \A p \in Live :
        At(Disk, p).dir =>
            At(Disk, p).size = Cardinality({q \in ToSet(Positions(fat, At(Disk, p).start)) :
                                               At(Disk, q).name # ""})

(* The directories whose slots the invariants read: the root and every    *)
(* live directory entry.                                                  *)
LiveDirs == {0} \cup {At(Disk, p).start : p \in {q \in Live : At(Disk, q).dir}}

(* No directory holds two entries of the same name.  fat_find_dir_entry   *)
(* returns the first match, so the second could never be opened, renamed  *)
(* or deleted, and its clusters would be lost.  fat_create and fat_rename *)
(* each look the name up in the parent before writing it; the parent is  *)
(* found through a path that may go through "." and "..".                 *)
UniqueNames ==
    \A s \in LiveDirs :
        LET ps == Positions(fat, s) IN
        \A i, j \in DOMAIN ps :
            i < j /\ At(Disk, ps[i]).name # "" => At(Disk, ps[i]).name # At(Disk, ps[j]).name

=============================================================================
