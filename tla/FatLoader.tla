----------------------------- MODULE FatLoader -----------------------------
(***************************************************************************)
(* fs_loader (src/fs_loader/fat_loader.c), the host tool that puts the     *)
(* kernel's boot programs (/dummy and /main, kernel.c) into the disk image. *)
(* Each run of it opens a formatted image, creates one file with its own   *)
(* copy of fat_create, and writes the file's bytes with its own fat_write, *)
(* which links clusters as it goes instead of calling fat_truncate.        *)
(* The image it leaves is the disk the kernel's fat_init reads.            *)
(*                                                                         *)
(* The helpers the loader shares with the kernel (fat_find_free,           *)
(* fat_update_chain, the directory scans, the path walk) are Fat's.        *)
(***************************************************************************)
EXTENDS Fat

CONSTANT BootFiles   \* the runs of fs_loader: a sequence of [path, size]

ASSUME \A i \in DOMAIN BootFiles : BootFiles[i].size \in Nat

-----------------------------------------------------------------------------

(* The loader's fat_create for a file: the kernel's, except that the      *)
(* parent's file_size is incremented twice (L722 and L736).               *)
LoaderCreate(d, path) ==
    IF CreateGuard(d, path) THEN CreateDisk(d, path, FALSE, 2)
    ELSE [ok |-> FALSE, disk |-> d]

(* The write loop of the loader's fat_write after the cluster cur has     *)
(* been written: while bytes are left, link a free cluster after cur,     *)
(* end the chain there and write it; with no free cluster, stop early.    *)
(* The chain of a new file ends at cur, so the loop never follows an      *)
(* existing link.  File bytes are abstracted: a cluster written with them *)
(* reads as empty slots.                                                  *)
RECURSIVE WriteClusters(_, _, _, _)
WriteClusters(d, cur, left, done) ==
    LET nw == FindFree(d.fat)
        k == IF left < BytesPerCluster THEN left ELSE BytesPerCluster
    IN IF left = 0 \/ nw = -1 THEN [disk |-> d, written |-> done]
       ELSE WriteClusters([fat |-> [d.fat EXCEPT ![cur] = nw, ![nw] = END],
                           data |-> [d.data EXCEPT ![nw] = ZeroCluster]],
                          nw, left - k, done + k)

(* The loader's fat_write(file, parent, 0, n, buffer) on a file just      *)
(* created: start_cluster is not 0 and the offset is 0, so neither the    *)
(* first-cluster allocation nor the seek loop runs.  The first cluster is *)
(* written, the loop links the rest, and the size written back is the     *)
(* bytes written, fewer than n when the FAT is full.                      *)
LoaderWrite(d, e, pe, n) ==
    LET k == IF n < BytesPerCluster THEN n ELSE BytesPerCluster
        w == IF n = 0 THEN [disk |-> d, written |-> 0]
             ELSE WriteClusters([d EXCEPT !.data[e.start] = ZeroCluster], e.start, n - k, k)
    IN IF w.written > e.size
       THEN UpdateDirEntry(w.disk, pe, e.name, [e EXCEPT !.size = w.written])
       ELSE w.disk

(* The rest of fs_loader's main after fat_create_file returned c:         *)
(* fat_get_file_data, then fat_write of the whole local file.  A failed   *)
(* create exits with the image as it is.                                  *)
LoaderWriteCreated(c, f) ==
    IF ~c.ok THEN c.disk
    ELSE LoaderWrite(c.disk, Lookup(c.disk, f.path), Lookup(c.disk, Parent(f.path)), f.size)

(* One run of fs_loader's main: fat_init, then fat_create_file(path).   *)
LoaderMain(d, f) == LoaderWriteCreated(LoaderCreate(d, f.path), f)

(* The image after every run of fs_loader, in order, on a formatted disk. *)
RECURSIVE ImageAfter(_, _)
ImageAfter(d, fs) == IF fs = <<>> THEN d ELSE ImageAfter(LoaderMain(d, Head(fs)), Tail(fs))

Image == ImageAfter(Formatted, BootFiles)

=============================================================================
