--------------------------- MODULE FileDescriptors ---------------------------
(***************************************************************************)
(* File descriptors: the system-wide table global_fd_table                 *)
(* (filesystem/vfs/file.c), one entry per open path or terminal device     *)
(* with a ref_count, and the per-process fd_table of the PCB              *)
(* (process_manager.h), whose entries point into it.  The operations are   *)
(* create_terminal (its three device entries), process creation            *)
(* (init_proc_fd, attach_process_to_terminal), process exit                *)
(* (free_proc_node), and the open and close system calls                   *)
(* (process/syscalls/handlers/file/file.c).                                *)
(*                                                                         *)
(* The FAT volume is abstracted to the kind of each path; file contents,   *)
(* sizes and offsets are left out.  Every handler runs with interrupts     *)
(* masked, so each is one atomic step.                                     *)
(*                                                                         *)
(* Each local entry also carries ghost fields: the identity (path and      *)
(* device flag) of the global entry it was bound to, and whether the       *)
(* process itself bound it (init, attach or a successful open), as         *)
(* opposed to inheriting it from the uninitialised PCB memory.             *)
(***************************************************************************)
EXTENDS Integers, FiniteSets

CONSTANTS
    Pids,          \* the PCBs that may be created, each once (next_pid++)
    Paths,         \* full paths a program may open
    Dirs,          \* the paths that are directories on the volume
    Files0,        \* the paths that are regular files at boot
    NumGlobal,     \* MAX_FD, the size of global_fd_table
    NumLocal,      \* MAX_LOCAL_FD, the size of a PCB's fd_table
    OpenFlagSets,  \* the flag combinations programs pass to open
    StdCloses,     \* the standard descriptors programs pass to close
    MaxRef,        \* bound on a ref_count, which failed O_EXCL opens raise
    NoPath         \* the empty path of a zeroed or device entry

ASSUME /\ Dirs \subseteq Paths /\ Files0 \subseteq Paths /\ Dirs \cap Files0 = {}
       /\ NumLocal > 3 /\ NumGlobal >= 3 /\ StdCloses \subseteq {0, 1, 2}
       /\ OpenFlagSets \subseteq SUBSET {"O_CREAT", "O_EXCL", "O_DIRECTORY"}

Gfd == 0..(NumGlobal - 1)
Lfd == 0..(NumLocal - 1)
NULL == -1
Kinds == {"none", "file", "dir"}
\* The _read function pointer of a global entry: NULL after a memset,
\* read_fat_fs, or read_terminal_input.
ReadFns == {"null", "fat", "terminal"}

\* A global_file_descriptor: the fields the model tells apart.
GlobalEntry == [used : BOOLEAN, path : Paths \cup {NoPath}, ref : Int,
                dev : BOOLEAN, dir : BOOLEAN, rd : ReadFns]
\* A file_descriptor, with the ghost fields bpath, bdev and held.
LocalEntry == [used : BOOLEAN, g : Gfd \cup {NULL}, dir : BOOLEAN,
               bpath : Paths \cup {NoPath}, bdev : BOOLEAN, held : BOOLEAN]

ZeroGlobal == [used |-> FALSE, path |-> NoPath, ref |-> 0, dev |-> FALSE, dir |-> FALSE,
               rd |-> "null"]
ZeroLocal == [used |-> FALSE, g |-> NULL, dir |-> FALSE,
              bpath |-> NoPath, bdev |-> FALSE, held |-> FALSE]
EmptyTable == [i \in Lfd |-> ZeroLocal]

VARIABLES
    gfd,        \* global_fd_table
    fds,        \* fds[p]: the fd_table of PCB p
    alive,      \* PCBs on the process ring
    dead,       \* PCBs freed by exit
    freed,      \* the fd_table bytes last freed with a PCB, still in the heap
    terminal,   \* create_terminal has run
    kind,       \* what each path is on the FAT volume
    overrun,    \* _open wrote past the end of an fd_table
    null_global,\* _open wrote through the NULL allocate_global_fd returned
    null_call   \* _read called a NULL _read function pointer

vars == <<gfd, fds, alive, dead, freed, terminal, kind, overrun, null_global, null_call>>

Min(S) == CHOOSE x \in S : \A y \in S : x <= y

\* get_opened_fd: the first entry in use whose path matches, or NULL.
OpenedFd(path) ==
    LET m == {g \in Gfd : gfd[g].used /\ gfd[g].path = path}
    IN IF m = {} THEN NULL ELSE Min(m)

\* Mutant: the scan does not test is_used.
FreeGfdAnyEntry == Min(Gfd)

\* The first entry not in use, which allocate_global_fd and
\* allocate_device_fd take, or NULL when the table is full.
FreeGfd ==
    LET m == {g \in Gfd : ~gfd[g].used} IN IF m = {} THEN NULL ELSE Min(m)

\* Mutant: an open path is shared without raising its ref_count.
ShareNoRef(g) == gfd

\* _open of a path already open: global_fd->ref_count++.
Share(g) == [gfd EXCEPT ![g].ref = @ + 1]

\* allocate_global_fd: memset, path, ref_count = 1; is_used stays false.
GlobalAlloc(path) == [ZeroGlobal EXCEPT !.path = path, !.ref = 1, !.rd = "fat"]

\* allocate_device_fd: memset, ref_count = 1, is_device, is_used.
DeviceAlloc == [ZeroGlobal EXCEPT !.ref = 1, !.dev = TRUE, !.used = TRUE]

\* attach_process_to_terminal: standard descriptor i of a new process
\* points at terminal 1's device entry i; is_used came from init_proc_fd.
StdEntry(i) == [ZeroLocal EXCEPT !.used = TRUE, !.g = i, !.bdev = TRUE, !.held = TRUE]

-----------------------------------------------------------------------------
Init ==
    /\ gfd = [g \in Gfd |-> ZeroGlobal]
    /\ fds = [p \in Pids |-> EmptyTable]
    /\ alive = {}
    /\ dead = {}
    /\ freed = EmptyTable
    /\ terminal = FALSE
    /\ kind = [x \in Paths |-> IF x \in Dirs THEN "dir"
                               ELSE IF x \in Files0 THEN "file" ELSE "none"]
    /\ overrun = FALSE
    /\ null_global = FALSE
    /\ null_call = FALSE

\* create_terminal(1) from kmain: terminal 1 takes three device entries,
\* the first three of the zeroed table; only stdin gets a _read function.
CreateTerminal ==
    /\ ~terminal
    /\ terminal' = TRUE
    /\ gfd' = [g \in Gfd |-> CASE g = 0 -> [DeviceAlloc EXCEPT !.rd = "terminal"]
                               [] g \in {1, 2} -> DeviceAlloc
                               [] OTHER -> gfd[g]]
    /\ UNCHANGED <<fds, alive, dead, freed, kind, overrun, null_global, null_call>>

\* create_process_from_elf's descriptor part: the PCB is kmalloc'ed and not
\* cleared; init_proc_fd zeroes entries 0..2 and marks them used, and
\* attach_process_to_terminal points them at terminal 1's device entries,
\* 0..2, whatever those hold now.
\* Entries 3.. keep whatever the block held: fresh memory, or the table of
\* the PCB freed last when the first fit returns that block.
CreateProcess(p) ==
    /\ terminal
    /\ p \notin alive \cup dead
    /\ \E old \in {EmptyTable, [i \in Lfd |-> [freed[i] EXCEPT !.held = FALSE]]} :
          fds' = [fds EXCEPT ![p] =
                    [i \in Lfd |-> IF i < 3
                                   THEN StdEntry(i)
                                   ELSE old[i]]]
    /\ alive' = alive \cup {p}
    /\ UNCHANGED <<gfd, dead, freed, terminal, kind, overrun, null_global, null_call>>

\* Mutant: the PCB is freed but stays on the ring.
ExitNoUnlink(p) ==
    /\ p \in alive
    /\ alive # {p}
    /\ dead' = dead \cup {p}
    /\ freed' = fds[p]
    /\ UNCHANGED <<alive, gfd, fds, terminal, kind, overrun, null_global, null_call>>

\* exit_proc -> free_proc_node: the PCB is freed with its table as it is;
\* no descriptor is closed.  Another process stays on the ring: /dummy
\* never exits, and the exit of the last process is ProcessManager's.
Exit(p) ==
    /\ p \in alive
    /\ alive # {p}
    /\ alive' = alive \ {p}
    /\ dead' = dead \cup {p}
    /\ freed' = fds[p]
    /\ UNCHANGED <<gfd, fds, terminal, kind, overrun, null_global, null_call>>

\* The local slot _open takes: entries of fd_table not in use.
FreeLfd(p) == {i \in Lfd : ~fds[p][i].used}

\* An error return of _open after the slot was cleared and pointed at g:
\* the slot stays unused, and whatever was done to global entry g stays.
OpenFailed(p, i, g, gt) ==
    /\ gfd' = gt
    /\ fds' = [fds EXCEPT ![p][i] = [ZeroLocal EXCEPT !.g = g]]
    /\ UNCHANGED kind

\* The end of _open once global entry g is chosen (gt and kv are the table
\* and the volume as the earlier steps left them): O_EXCL fails after the
\* entry was allocated or its ref_count raised; otherwise the global and
\* the local entry are marked used and is_dir is taken from the entry.
OpenTail(p, i, path, flags, g, gt, kv, isdir) ==
    /\ kind' = kv
    /\ \/ /\ "O_DIRECTORY" \notin flags /\ "O_EXCL" \in flags
          /\ gfd' = gt
          /\ fds' = [fds EXCEPT ![p][i] = [ZeroLocal EXCEPT !.g = g]]
       \/ /\ "O_DIRECTORY" \in flags \/ "O_EXCL" \notin flags
          /\ gfd' = [gt EXCEPT ![g].used = TRUE, ![g].dir = isdir]
          /\ fds' = [fds EXCEPT ![p][i] =
                       [used |-> TRUE, g |-> g, dir |-> "O_DIRECTORY" \in flags \/ isdir,
                        bpath |-> path, bdev |-> FALSE, held |-> TRUE]]

\* _open with a free local slot i.  A path not open yet gets a fresh global
\* entry (a NULL one when the table is full), filled by fat_get_file_data,
\* fat_create_file (which may fail) or fat_get_dir_data; an open path
\* shares its entry after the EISDIR / ENOTDIR checks.
OpenIn(p, i, path, flags) ==
    LET g0 == OpenedFd(path)
        a == FreeGfd
        wantdir == "O_DIRECTORY" \in flags
        found == IF wantdir THEN kind[path] = "dir" ELSE kind[path] # "none"
        gt == [gfd EXCEPT ![a] = GlobalAlloc(path)]
    IN  \/ /\ g0 = NULL /\ a = NULL
           /\ null_global' = TRUE
           /\ fds' = [fds EXCEPT ![p][i] = ZeroLocal]
           /\ UNCHANGED <<gfd, kind>>
        \/ /\ g0 = NULL /\ a # NULL /\ found
           /\ OpenTail(p, i, path, flags, a, gt, kind, kind[path] = "dir")
           /\ UNCHANGED null_global
        \/ /\ g0 = NULL /\ a # NULL /\ ~found
           /\ ~wantdir /\ "O_CREAT" \in flags
           /\ OpenTail(p, i, path, flags, a, gt, [kind EXCEPT ![path] = "file"], FALSE)
           /\ UNCHANGED null_global
        \/ /\ g0 = NULL /\ a # NULL /\ ~found
           /\ OpenFailed(p, i, a, gt)
           /\ UNCHANGED null_global
        \/ /\ g0 # NULL /\ gfd[g0].dir # wantdir
           /\ OpenFailed(p, i, g0, gfd)
           /\ UNCHANGED null_global
        \/ /\ g0 # NULL /\ gfd[g0].dir = wantdir /\ gfd[g0].ref < MaxRef
           /\ OpenTail(p, i, path, flags, g0, Share(g0), kind, gfd[g0].dir)
           /\ UNCHANGED null_global

\* _open with every entry of fd_table in use: the loop runs on to MAX_FD,
\* reading is_used from the bytes past the table (the saved registers and
\* the ring pointers of the process node).  It returns -EMFILE if they all
\* read as used, and otherwise clears 16 bytes there and uses them.
OpenPastTable(p) ==
    /\ FreeLfd(p) = {}
    /\ overrun' \in {overrun, TRUE}
    /\ UNCHANGED <<gfd, fds, kind, null_global>>

\* The open system call (sys_open -> _open) of process p.
Open(p, path, flags) ==
    /\ p \in alive
    /\ \/ FreeLfd(p) # {} /\ OpenIn(p, Min(FreeLfd(p)), path, flags) /\ UNCHANGED overrun
       \/ OpenPastTable(p)
    /\ UNCHANGED <<alive, dead, freed, terminal, null_call>>

\* The descriptors programs pass to close: the standard ones of StdCloses,
\* those they opened, and numbers not in use.
CloseArgs(p) ==
    StdCloses \cup {i \in 3..(NumLocal - 1) : fds[p][i].held \/ ~fds[p][i].used}

\* _close: stdin and stdout are refused, stderr is not; the global entry's
\* ref_count is decremented and the entry cleared when it reaches 0.
Close(p, fd) ==
    /\ p \in alive
    /\ \/ /\ fd \in {0, 1}
          /\ UNCHANGED <<gfd, fds>>
       \/ /\ fd \notin {0, 1} /\ ~fds[p][fd].used
          /\ UNCHANGED <<gfd, fds>>
       \/ /\ fd \notin {0, 1} /\ fds[p][fd].used
          /\ LET g == fds[p][fd].g
             IN gfd' = IF gfd[g].ref - 1 = 0 THEN [gfd EXCEPT ![g] = ZeroGlobal]
                       ELSE [gfd EXCEPT ![g].ref = @ - 1]
          /\ fds' = [fds EXCEPT ![p][fd] = ZeroLocal]
    /\ UNCHANGED <<alive, dead, freed, terminal, kind, overrun, null_global, null_call>>

\* _read of a descriptor in use that is not a directory (the other early
\* returns change nothing): it calls the global entry's _read.  A file or
\* stdin only moves the offset, which is not modelled; stdout, stderr and
\* a cleared entry have a NULL _read, and the call jumps to address 0.
Read(p, fd) ==
    /\ p \in alive
    /\ fds[p][fd].used /\ ~fds[p][fd].dir /\ fds[p][fd].g # NULL
    /\ null_call' = (null_call \/ gfd[fds[p][fd].g].rd = "null")
    /\ UNCHANGED <<gfd, fds, alive, dead, freed, terminal, kind, overrun, null_global>>

Next ==
    \/ CreateTerminal
    \/ \E p \in Pids : CreateProcess(p) \/ Exit(p)
    \/ \E p \in Pids, path \in Paths, flags \in OpenFlagSets : Open(p, path, flags)
    \/ \E p \in Pids : \E fd \in CloseArgs(p) : Close(p, fd)
    \/ \E p \in Pids : \E fd \in {i \in Lfd : fds[p][i].held} : Read(p, fd)

Spec == Init /\ [][Next]_vars

-----------------------------------------------------------------------------
TypeOK ==
    /\ gfd \in [Gfd -> GlobalEntry]
    /\ fds \in [Pids -> [Lfd -> LocalEntry]]
    /\ alive \subseteq Pids /\ dead \subseteq Pids /\ alive \cap dead = {}
    /\ freed \in [Lfd -> LocalEntry]
    /\ kind \in [Paths -> Kinds]
    /\ terminal \in BOOLEAN /\ overrun \in BOOLEAN
    /\ null_global \in BOOLEAN /\ null_call \in BOOLEAN

\* The live descriptors bound to global entry g by the processes themselves.
Holders(g) ==
    {pi \in alive \X Lfd : LET e == fds[pi[1]][pi[2]] IN e.used /\ e.held /\ e.g = g}

\* _open and _close keep ref_count of an open file at least the number of
\* descriptors of live processes that refer to it, so no close clears an
\* entry another descriptor still uses.
RefCountCoversHolders ==
    \A g \in Gfd : gfd[g].used /\ ~gfd[g].dev => gfd[g].ref >= Cardinality(Holders(g))

\* Every descriptor a live process bound itself (its standard descriptors
\* from attach_process_to_terminal, and each successful _open) still refers
\* to a global entry in use for the same path or device.
NoDanglingDescriptor ==
    \A p \in alive, i \in Lfd :
        LET e == fds[p][i]
        IN  e.used /\ e.held =>
                /\ gfd[e.g].used
                /\ gfd[e.g].path = e.bpath
                /\ gfd[e.g].dev = e.bdev
=============================================================================
