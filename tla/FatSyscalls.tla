---------------------------- MODULE FatSyscalls ----------------------------
(***************************************************************************)
(* The file-system system calls of DbolOS above the FAT layer:             *)
(* handlers/dir/dir.c (_chdir, _mkdir, _rmdir, _rename, _unlink) and the   *)
(* parts of handlers/file/file.c that change the disk (_open with O_CREAT  *)
(* or O_TRUNC, _truncate), with the current process's working directory.   *)
(* Each call is one atomic step: system calls run with interrupts masked.  *)
(*                                                                         *)
(* A path string is a record: abs (it starts with '/') and comps, its      *)
(* components.  The string the FAT layer walks, "/" followed by the        *)
(* components joined by "/", is Fat's path: the sequence of components.    *)
(* Descriptors are FileDescriptors' state; here no global entry is open    *)
(* on the path a call names, so the EBUSY check of _unlink passes and     *)
(* _open reads the entry from disk.  _rmdir's check does not depend on    *)
(* descriptors at all: see Rmdir.                                          *)
(***************************************************************************)
EXTENDS FatLoader

CONSTANTS
    Args,         \* path arguments of _chdir, _mkdir, _rmdir, _unlink, _open, _truncate
    RenameArgs,   \* path arguments of _rename
    Paths,        \* files descriptors are open on, for _write
    Sizes,        \* lengths given to _truncate and sizes _write grows a file to
    MaxCwd        \* components of a working directory (cwd is a 256-byte buffer)

Arg == [abs : BOOLEAN, comps : Seq(Names \cup {".", ".."})]
ASSUME Args \cup RenameArgs \subseteq Arg /\ MaxCwd \in Nat
ASSUME Paths \subseteq Seq(Names) /\ Sizes \subseteq Nat

VARIABLE cwd    \* current_process->cwd, as the components of an absolute path

allVars == <<fat, data, cwd>>

-----------------------------------------------------------------------------
(* Path strings *)

(* join_path(cwd, pathname): an absolute pathname is copied; otherwise    *)
(* cwd "/" pathname, and a trailing "/." is cut off ("/." becomes "/").    *)
JoinPath(c, p) ==
    IF p.abs THEN p.comps
    ELSE LET j == c \o p.comps IN IF j # <<>> /\ Last(j) = "." THEN Front(j) ELSE j

(* The path the handlers build: an absolute argument is copied as it is,   *)
(* a relative one goes through join_path.                                  *)
FullPath(p) == JoinPath(cwd, p)

(* The components simplify_path splits off.  For an absolute path the     *)
(* first '/' is at i = 0, where end = i - 1 wraps to SIZE_MAX, start <= end *)
(* holds and an empty component is taken; later empty ones are skipped.    *)
SplitPath(abs, cs) == (IF abs THEN <<"">> ELSE <<>>) \o cs

(* simplify_path's stack: "." is dropped; ".." pops in an absolute path   *)
(* whenever the stack is not empty, in a relative one unless the top is   *)
(* "..", where it is pushed; any other component is pushed.               *)
RECURSIVE SimplifyStack(_, _, _)
SimplifyStack(cs, st, abs) ==
    IF cs = <<>> THEN st
    ELSE LET c == Head(cs)
             st2 == CASE c = "." -> st
                      [] c = ".." /\ abs -> IF st # <<>> THEN Front(st) ELSE st
                      [] c = ".." /\ st # <<>> /\ Last(st) # ".." -> Front(st)
                      [] OTHER -> Append(st, c)
         IN SimplifyStack(Tail(cs), st2, abs)

(* simplify_path of an absolute path: "/" followed by the stack joined by  *)
(* "/".  A stack <<"">> is the string "/"; <<"", a>> is "//a", which the  *)
(* FAT walk reads as the components "" and a.                              *)
SimplifyPath(comps) ==
    LET st == SimplifyStack(SplitPath(TRUE, comps), <<>>, TRUE)
    IN IF st = <<"">> THEN <<>> ELSE st

(* get_base_name_with_len of dir.c: the text after the last '/'; names    *)
(* are shorter than 11 characters.                                         *)
BaseName(path) == Base(path)

-----------------------------------------------------------------------------
(* System calls *)

(* A disk image img, and the first process's cwd, "/". *)
InitFrom(img) ==
    /\ fat = img.fat
    /\ data = img.data
    /\ cwd = <<>>

(* The image fs_loader left. *)
SysInit == InitFrom(Image)

(* _chdir: fat_get_dir_data must find a directory and its parent; cwd    *)
(* takes the joined path as it is, not simplified.                         *)
Chdir(p) ==
    LET np == FullPath(p)
        e == Lookup(Disk, np)
    IN /\ e # NoEntry
       /\ e.dir
       /\ Lookup(Disk, Parent(np)) # NoEntry
       /\ Len(np) <= MaxCwd
       /\ cwd' = np
       /\ UNCHANGED <<fat, data>>

(* _mkdir: fat_create_directory on the joined path. *)
Mkdir(p) == Create(FullPath(p), TRUE) /\ UNCHANGED cwd

(* _rmdir: the EBUSY test calls get_glob_fd(newPath), but get_glob_fd()  *)
(* of vfs/file.c takes no argument and returns the address of             *)
(* global_fd_table, which is never NULL.  Every _rmdir returns -EBUSY     *)
(* after joining the path, and fat_delete_dir is never reached.           *)
Rmdir(p) == UNCHANGED allVars

(* _unlink: fat_get_file_data, then fat_delete_file. *)
Unlink(p) ==
    /\ GetFileData(FullPath(p)).ok
    /\ Delete(FullPath(p), FALSE)
    /\ UNCHANGED cwd

(* _rename: both paths joined and simplified, EINVAL unless their parent  *)
(* strings are equal, then fat_rename with the new base name.  The         *)
(* descriptor path update is FileDescriptors' state.                       *)
RenameCall(o, n) ==
    LET op == SimplifyPath(JoinPath(cwd, o))
        np == SimplifyPath(JoinPath(cwd, n))
    IN /\ Parent(op) = Parent(np)
       /\ Rename(op, BaseName(np))
       /\ UNCHANGED cwd

(* _open(path, flags) without O_DIRECTORY: fat_get_file_data; a missing   *)
(* file is created when O_CREAT is set; O_TRUNC then calls fat_truncate   *)
(* to 0 on the entry just read.                                            *)
Open(p, creat, trunc) ==
    LET fp == FullPath(p)
        fd == GetFileData(fp)
    IN /\ \/ ~fd.ok /\ creat /\ Create(fp, FALSE)
          \/ fd.ok /\ trunc /\ SetDisk(TruncateDisk(Disk, fd.file, fd.parent, 0))
       /\ UNCHANGED cwd

(* _truncate(path, length): fat_truncate on a fresh copy of the entry. *)
TruncateCall(p, n) == Truncate(FullPath(p), n) /\ UNCHANGED cwd

(* _write through a descriptor opened on a path: fat_write's growth. *)
WriteCall(path, n) == Write(path, n) /\ UNCHANGED cwd

SysNext ==
    \/ \E p \in Args :
          \/ Chdir(p)
          \/ Mkdir(p)
          \/ Rmdir(p)
          \/ Unlink(p)
          \/ \E creat, trunc \in BOOLEAN : Open(p, creat, trunc)
          \/ \E n \in Sizes : TruncateCall(p, n)
    \/ \E o, n \in RenameArgs : RenameCall(o, n)
    \/ \E path \in Paths, n \in Sizes : WriteCall(path, n)

SysSpec == SysInit /\ [][SysNext]_allVars

=============================================================================
