# TLA+ models of the DbolOS kernel

This directory holds TLC-checkable models of the parts of the DbolOS kernel
(`src/os/kernel/src`) where the correctness question is about state:

- which frames, heap blocks and processes exist;
- who holds them;
- in which order handlers run.

Each module is translated from the C source. `PROJECT.json` maps every
definition to the lines it models and lists the runs, mutants, findings and
hazards.

## The system and how its parts interact

DbolOS is a single-core 32-bit kernel. `kmain` (`kernel.c`) initialises the
components in this order:

1. GDT, IDT and ATA.
2. The physical frame allocator (`pmm_init`).
3. The heap (`heap_init`).
4. The PIT.
5. FAT (`fat_init`, whose first `kmalloc` is a table kept for ever).
6. The keyboard and system calls.
7. The process manager and a terminal.
8. Two processes: `/dummy` in kernel mode and `/main` in user mode.
9. `sti` and `enable_processes`, then an idle loop.

From then on everything happens in interrupt or trap handlers:

- **Timer interrupt.** `timer_irq` calls `switch_process` on every tick.
- **Keyboard interrupt.** `keyboard_handler` keeps the modifier flags and appends each key's character to the active terminal's `input_buf`. The Enter key also sets `is_input_ready` and wakes terminal readers.
- **`int 0x80` system calls.** `handle_syscall` sets `is_kernel_mode` around the handler. `sys_read` blocks in `read_terminal_input` and yields with `int 0x69`. `sys_execve` creates a child and waits for it. `sys_exit` calls `exit_proc`.
- **Page faults.** These also call `exit_current_process`.

The user shell (`src/terminal/main.c`, run as `/main`) loops: `read` a line
from its stdin, which is the terminal, split it with `parse_input`, and run
the first command whose name the first word is a prefix of.

Every IDT entry is an interrupt gate (`idt.c:16`, type `0x8E`), so every
handler runs with interrupts masked, and on one CPU each handler is a single
atomic step. Interrupts are only taken while the CPU is in user code of the
current process, or in `kmain` before the first switch.

The heap sits on top of paging, which in turn sits on the frame allocator.
Process creation uses `kmalloc`/`kmalloc_pages` for PCBs, page directories and
kernel stacks.

## Inventory

| Part | Source | Model |
|---|---|---|
| Physical frame allocator | `memory/physical/physical_memory_manager.c` | `PhysicalMemory` |
| Kernel heap | `memory/heap/heap.c` | `Heap` |
| Scheduler and process lifecycle | `process/manager/process_manager.c`, `cpu/pit/pit.c`, `kernel.c` | `ProcessManager`, abstract `ProcessLifecycle` |
| System call dispatch (mode flag, read, execve, exit) | `process/syscalls/syscalls.c`, `handlers/proc/proc.c` | in `ProcessManager` |
| Terminal read and Enter key wake-up | `terminal/terminal_manager.c`, `drivers/keyboard/keyboard.c` | blocking and wake-up in `ProcessManager` |
| Keyboard handler, terminal input buffer, `read_terminal_input` | `drivers/keyboard/keyboard.c`, `terminal/terminal_manager.c` | `Terminal` |
| Paging, user half | `memory/paging/paging.c` | `Paging` (the kernel heap's own pages are abstracted in `Heap`) |
| ELF loader and `_sbrk` | `process/loader/elf_loader.c`, `handlers/proc/proc.c` | `Paging`; the ELF parser is not modelled, and `ProcessManager` uses the load's outcome only |
| Global and per-process file descriptors, `_open`/`_close`/`_read`, terminal std streams | `filesystem/vfs/file.c`, `handlers/file/file.c`, `terminal_manager.c` | `FileDescriptors` |
| FAT16 on-disk structures, create/delete/rename/truncate/write growth | `filesystem/fat/fat.c` | `Fat` |
| Directory system calls, path joining and simplification, the disk effects of `_open`/`_truncate` | `handlers/dir/dir.c`, `handlers/file/file.c` | `FatSyscalls` |
| GDT/IDT/PIC/VGA/ATA/port I/O | `cpu/`, `drivers/` | not modelled: hardware setup and I/O |
| FAT image builder: the boot image's files | `src/fs_loader` | `FatLoader` |
| User shell: the read/parse/dispatch loop | `src/terminal/main.c` | `Terminal`; the commands' bodies are their system calls, modelled elsewhere |
| libc (`itoa`, `memset`, `strncpy`) | `src/lib` | not modelled: pure data conversion |

## Modules

### `PhysicalMemory` (+ `MCPhysicalMemory`)

The bitmap is the set `occ` of frames whose bit is set. `set_bit_status` works
on the whole word that holds the bit, exactly as the code computes it:

- **Freeing.** `bitmap[i] &= mask` keeps only that bit of the word (`SetFree`).
- **`pmm_init`.** It is one action (`PmmInit`):
  1. `memset(bitmap, 0xff, BITMAP_SIZE)`, which covers `BITMAP_SIZE` *bytes*, so only `MemsetWords` of the words.
  2. `pmm_init_region` on each usable region, as a fold of `SetFree` over its frames.
  3. `pmm_clear_region` of the low 24 MB.
  4. `set_occupied(0)`.
  5. The `used_pages` arithmetic.
- **`PmmAllocatePage`.** Models `find_first_free_block` and its `used_pages == max_pages` early return.
- **`PmmDeallocatePage`.** Frees a held frame.

**Scaling.** The model uses 4-bit words. The relations of the real machine are
kept:

- RAM (frames 0–10) < the memset extent (16 frames) < the `max_pages` scan (32 frames).
- The reserved low region is exactly one word, as 24 MB is 192 words.

### `Paging` (+ `MCPaging`)

`Paging` extends `PhysicalMemory` and composes it with the user half of one
address space and its clients:

- `elf_load_process`, through `CreateProcess`;
- `_sbrk`, through `Sbrk`;
- the exit path, through `ExitProcess`;
- the kernel heap's page growth and shrink, through `OtherAllocate` and `OtherFree`.

**State.** `pde[d]` is a directory entry `[present, table]`. `pt[b][s]` is
entry `s` of the page table held in physical block `b`. The blocks are what
`kmalloc_pages` hands out, plus block 0, which is where
`get_physical_address(NULL)` points.

Tables are kept by block, as the hardware keeps them. Every directory entry
that names a block sees the same entries. This is how the shared-table bug
shows up: `PteOf` follows `get_pte` through the directory entry of the page,
and so does `Translate` (`get_physical_address`).

**One step per call.** Each system call and each process creation is one
action, because it runs with interrupts masked. The loops are RECURSIVE
operators over a record `K` of the allocator's and the tables' state:

- `AllocateMultiplePages`: `allocate_multiple_pages`, with the rollback through `deallocate_virtual_page`.
- `KmallocTablesIn`: `kmalloc_pages`, whose n + 1 heap pages take frames and are rolled back on failure.

The record is then assigned by `SetK`. Every frame therefore goes through
`AllocateIn`/`DeallocateIn`, the same `find_first_free_block` and `&= mask`
free as `PmmAllocatePage`.

**`CreateProcess`.** `create_process_from_elf` takes the new directory from
`kmalloc_pages(1)` and writes only its kernel half. The user half holds what
that memory held, which is either empty or the directory freed last
(`freedPd`); the model chooses between the two. `elf_load_process` then runs:

1. `kmalloc_pages` for the tables, whose NULL is not checked.
2. `size / PAGE_SIZE + 2` image pages from the entry page.
3. The stack pages with the same table address.
4. On a stack failure, the `+ 1` rollback of the image.
5. The break at the image's end.

**`ExitProcess`.** It frees the directory only (`free_proc_node`'s TODO).

**`Sbrk`.** It is `_sbrk` line by line:

- the check of the break's own page;
- the table boundary;
- `kmalloc_pages` for new tables;
- the pages past the boundary;
- the `int` count of pages below it, which wraps through `U32`;
- the `kfree` of `new_page_tables + i * PAGE_SIZE`.

**Scaling.** A page is 2 bytes, a table has 4 entries, and the user half has
4 directory entries (16 pages). The address space is 4/3 of the user half, as
2^32 is of 0xC0000000.

The image starts at entry 0 of the first table. The one stack page is entry 2
of the last table, just below the stack top's page. This mirrors the real
layout: entry 0x48 of directory 32 for the image, and entries 0x2FF–0x3FE of
directory 767 for the stack. The heap reaches the stack's entries of the
shared table after growing a quarter of a table here, and about 2.7 MB in the
kernel.

**The frame allocator.** It has 7 words of 2 frames, and lets 11 frames be
allocated. That is fewer than the 16 user pages, as RAM is smaller than the
3 GB user half, so a wrapped count ends in an allocation failure inside the
user half.

### `Heap` (+ `MCHeap`)

Memory is one unit per 4 bytes. `mem[a]` is the header a read at `a` sees,
with these rules:

- Writing a header destroys overlapping headers.
- A header read in unmapped memory or in a client-overwritten buffer is a fault.
- `allocate_kernel_virtual_page` does not clear frames. A page mapped again may get its old frame back, with memory reading as before (`SameFrame`). It may instead get another frame, zeroed or holding garbage, which also replaces the fields of a header straddling into it.
- A NULL dereference in `kmalloc_pages` faults, or, if page 0 happens to be mapped, writes silently.

The actions are:

- `Kmalloc`/`FatInit`: entry to `heap_find_first_free_space`.
- `SearchNext`, `SearchGrow`, `SearchFound`: one loop turn, the growth branch (`allocate_heap_page` included), and the exit with split. `Fits` is the loop's exit test (`heap.c:48`). It comes before the end test of line 50, so a fitting free block is taken even when its next header lies past `curr_heap_end` after a shrink. The split's write of `curr_end->prev` then faults.
- `Kfree`: the whole of `free_block`, with shrink and both merges.
- `KmallocPages`: the whole of `kmalloc_pages`.

Three modelling choices:

- **The search loop is split.** It is split into steps only so that `SearchTerminates` can be stated. No other action interleaves with a search, because the allocator is never preempted.
- **Client writes are nondeterministic.** After an allocation the client either fills its buffer, which turns headers inside it into garbage, or does not write it.
- **`fat_init`'s table.** It is allocated first and never freed (`FatSize`, `pinned`), as in the deployed kernel.

### `ProcessManager` (+ `MCProcessManager`) and `ProcessLifecycle`

**State.** The PCB list is a sequence of pids. The state also holds:

- `proc.state`, `waiting_for` and `is_kernel_mode` for each pid;
- `current_process_g`, `next_pid`, `run_processes`;
- the boot program counter and the terminal's `is_input_ready`;
- `ctx`: where each process's saved snapshot resumes (user code, the read loop, or `_execve` after `int 0x69`).

**Actions.** These are the handlers:

- `BootCreate` and `BootEnable` (`kmain`);
- `Tick` (`timer_irq` → `switch_process`);
- `KeyEnter`;
- `Read` (`read_terminal_input` under `handle_syscall`);
- `Exec` and `ExecReturn` (`_execve`);
- `Exit` (`exit_proc`).

`CreateProcess` covers the three outcomes of creation:

- invalid, before a pid is taken;
- failure after `next_pid++`;
- success, where a running parent starts WAITING.

**Abstract spec.** `ProcessLifecycle` is the lifecycle of spec section 4.4.
`ProcessManager` is checked to implement it through the refinement mapping
`AbsState` (`ImplementsLifecycle`).

### `FileDescriptors` (+ `MCFileDescriptors`)

**State.**
- `gfd`: the global table `global_fds[MAX_FD]`. Each entry holds `is_used`, the path (a model value), `ref_count`, the device flag, the directory flag and which `_read` pointer it has (`NULL`, `fat_read` or the terminal's).
- `fds[p]`: each PCB's `local_fds[MAX_LOCAL_FD]`. Each entry holds `is_used`, the index of its global entry (`-1` for `NULL`) and the directory flag.
- The local entries also carry ghost fields:
  - `bpath`/`bdev`: which file the entry was bound to;
  - `held`: whether this process bound it, or it is stale memory of a freed PCB.
- `alive`, `dead` and `freed`: the PCBs, and the memory `kmalloc` may hand back uninitialised to the next PCB.
- `kind`: which paths are files or directories.
- Three flags: `overrun` (the scan past `global_fds`), `null_global` (a `NULL` global entry used) and `null_call` (a `NULL` `_read` called).

**Actions.**
- `CreateTerminal`: `create_terminal`, which makes entries 0–2.
- `CreateProcess`: `create_process`'s std-stream wiring. The other local slots are either zero or left over from a freed PCB.
- `Exit`: `exit_proc`, which frees the PCB and closes nothing.
- `Open`: the whole of `_open`, through `get_free_lfd`, `allocate_global_file_descriptor` and `opened_fd`. It includes the `EEXIST`, `EISDIR`/`ENOTDIR` and allocation-failure paths, and the scan one past the global table.
- `Close`: the whole of `_close`.
- `Read`: `_read`'s dispatch through the global entry.

`Exit` is guarded so that one process stays alive: `/dummy` never exits, and the
last exit jumps into the freed PCB, a hazard listed in `PROJECT.json`. `MaxRef` caps `ref_count`,
because a failed `O_EXCL` open raises it for good.

### `Fat`

**State.** The disk, as two variables:
- `fat`: the FAT itself, one entry per cluster.
- `data[c]`: the directory slots of cluster `c`. Each slot is a `FatDirEntry` reduced to its name, directory bit, `start_cluster` and `file_size`.

File bytes are not modelled. A zeroed cluster is a cluster of empty slots.

**Actions.** `Fat` has no specification of its own. `FatSyscalls` drives its actions. Each action is a whole call, with every FAT and directory write it makes:
- `Create(path, isdir)`: `fat_create`, split into its early returns (`CreateGuard`) and the rest (`CreateDisk`), which `FatLoader` shares. It takes a free cluster and adds the entry to the parent. A directory gets its `.` and `..` entries and the parent's new size. A failed add frees the cluster again.
- `Delete(path, isdir)`: `fat_delete`. It includes the `ENOTDIR`/`EISDIR` and non-empty checks and the parent's size update.
- `Rename(path, nm)`: `fat_rename`.
- `Write(path, n)`: the growth part of `fat_write`, which calls `fat_truncate` when the write ends past `file_size`.
- `Truncate(path, n)`: `_truncate` of `handlers/file/file.c`, through `fat_truncate`. It shrinks, grows, or fails to grow when the disk is full.

**Helpers.** The helpers translate `fat.c`'s static functions:
- `FindFree`, `Chain`, `UpdateChain`, `FreeChain` and `AllocateSpace` for the chain.
- `FindPos`, `AddDirEntry`, `UpdateDirEntry` and `RemoveDirEntry` for directory slots. `AddDirEntry` includes extending a full directory by a cluster.
- `Walk`, `Parent` and `Base` for paths.

**Assumptions.**
- ATA reads and writes succeed.
- `Formatted` is the image `mkfs` writes: `fat[0]` is an end mark and `fat[1]` is reserved. `FatLoader` puts the boot programs on it.
- The kernel's `fat.h` is not in the repository. The values of the end mark and the free mark are taken from `fs_loader/fat_loader.h`, which describes the same on-disk format.
- The root directory is cluster 0. Cluster `n` is at `root_dir_start + n * sectors_per_cluster`, as both `fat.c` and the loader compute it.
- Writes go through the entry as it is on disk. The `FileData` a descriptor caches is not modelled, so its staleness after `_rename` or `_truncate` is listed as a hazard.

### `FatLoader`

`src/fs_loader` is the host tool that puts the boot programs, `/dummy` and `/main` (`kernel.c`), into the disk image. The kernel's first state is the image it leaves.

Each run of its `main` does three things, modelled as `LoaderMain`:
1. It creates the file with the loader's own `fat_create` (`LoaderCreate`). For a file, this differs from the kernel's only in incrementing the parent's size twice.
2. It reads the file's data.
3. It writes the bytes with the loader's own `fat_write` (`LoaderWrite`, `WriteClusters`). That function links one cluster at a time while writing, stops early when the FAT is full, and writes back the size it wrote.

`Image` applies the runs in order to `Formatted`. The loader's ATA emulation on a host file is pure I/O and is not modelled.

### `Terminal` (+ `MCTerminal`)

The path from a key press to the command the shell runs.

**State.**
- `kbd`: `keyboard_state`, the seven flags the handler writes.
- `buf`, `len` and `ready`: the active terminal's `input_buf`, `input_len` and `is_input_ready`.
- `input`: `start_shell`'s `input[]`, which is kept across iterations.
- `parsed`: what the last `parse_input` did (the `strlen`, the final `i`, `arg_count`, `buf_pos` and `args`).
- `last` and `status`: the command the last iteration ran, and `start_shell`'s `status`.

Scan codes are the real numbers. Characters are one-letter strings, and `NUL`
is the 0 byte.

**Actions.** One action per branch of `keyboard_handler`:
- `KeyRelease`: a code with bit 7 set clears the flag of its case. The cases `0x45`, `0x3A` and `0x46` of that switch are make codes, so they can never match: Num Lock and Scroll Lock stay set once pressed, as in the code.
- `KeyModifier`: a make code sets its flag, and `0x3A` toggles `caps_lock_pressed`.
- `KeyBackspace`: drops the last byte. `is_input_ready` is left as it is, also when that byte was the `'\n'`.
- `KeyChar`: appends `key_map_shift[sc]` or `key_map[sc]` by the code's caps/shift test. A key without a character appends a NUL. `'\n'` sets `is_input_ready`.
- `ShellRead`: one iteration of the `start_shell` loop, once `is_input_ready` holds. It runs `read_terminal_input` with `count = MAX_INPUT_LENGTH` (`ReadLine`): copy `min(count, input_len)` bytes, clear the buffer, reset the flag. Then comes `input[len-1] = '\0'` or "read error", then `parse_input` and `execute_command`. Between the read and the command the shell touches nothing the keyboard interrupt changes, so the iteration is one step.

**Helpers.**
- `parse_input` keeps its loops: `StrLen`, `SkipSpace`, `WordEnd`, `TakeWord` and `ParseInput`. Each loop is a recursive function of what it changes.
- `ExecuteCommand` is `execute_command`'s `strncmp(name, args[0], strlen(args[0]))`: the first command whose name `args[0]` is a prefix of.
- `CommandStatus`: every `cmd_*` returns 1, except `cmd_exit`, which returns 0.

**Assumptions.**
- A key is appended only while `input_len < INPUT_BUFFER_SIZE`. The code has no bound check, and the next byte would land in `input_len` itself.
- The terminal is active. `ProcessManager` covers a key before that.
- Blocking and waking the reader are `ProcessManager`'s.

**Reference definition.** `Words(LineOf(buf, len))` defines the words of the
line a read returns without the loop: the maximal runs of non-space
characters, found by their start positions. `ParseMatchesWords` checks the
loop against it.

### `FatSyscalls` (+ `MCFatSyscalls`)

**State.** `Fat`'s disk, plus `cwd`, the current process's working directory. The disk starts as `FatLoader`'s `Image`, and `create_process` starts `cwd` at `/`. A path argument is a record: whether it starts with `/`, and its components.

**Path helpers.**
- `JoinPath`: `join_path`. A relative argument is appended to `cwd`, and a trailing `/.` is cut off.
- `SplitPath`, `SimplifyStack` and `SimplifyPath`: `simplify_path`. This includes its first iteration, where `end = i - 1` wraps and an empty first component is taken, so `/a/b` comes back as `//a/b`.
- `BaseName`: `get_base_name_with_len`.

**Actions.** Each action is one system call:
- `Chdir`: `_chdir`. It stores the joined path as it is, so `cwd` can be `/a/..`.
- `Mkdir` and `Unlink`: `_mkdir` and `_unlink`, on the joined path.
- `Rmdir`: `_rmdir`, which changes nothing. Its `EBUSY` test calls `get_glob_fd(newPath)` (`dir.c:79`), but `get_glob_fd()` in `vfs/file.c` takes no argument and returns the address of `global_fd_table`, which is never NULL. So every `rmdir` fails with `-EBUSY`, and `fat_delete_dir` is unreachable from user space. `Fat`'s `Delete` keeps the directory case of `fat_delete`, but no call of this module reaches it.
- `RenameCall`: `_rename`. Both paths are joined and simplified, and the call fails unless their parent strings are equal.
- `Open`: the disk effects of `_open`, which are `fat_create_file` under `O_CREAT` and `fat_truncate` to 0 under `O_TRUNC`.
- `TruncateCall`: `_truncate`.
- `WriteCall`: `_write`'s growth, for a descriptor open on a path.

**Assumptions.** Descriptors are `FileDescriptors`' state, and here no descriptor is open on the path a call names. So `_unlink`'s `EBUSY` check passes, and `_open` reads the entry from disk.

**Consequence of `//a`.** The FAT walk resolves the empty component to the first free slot of the root. That slot is a zeroed entry and not a directory, so `_rename` below the root always fails, as it does in the code.

## Runs

| Run | Result | What it shows |
|---|---|---|
| `pm_boot` | pass | In the deployed configuration, after any sequence of ticks, reads, execs, exits and keys: one RUNNING process, no lost wake-up, the privilege flag matches the frame, the kernel stays alive, every READY process runs, and the lifecycle is refined. |
| `heap_pages` | pass | With the FAT table pinned, the heap stays inside its window, and every first-fit search returns. |
| `heap_clobber` | violation | A stale prev, left when `kfree` absorbs its free successor (`heap.c:133-136`), makes the growth path write a header into a live buffer. |
| `heap_overlap` | violation | The page-aligned shrink test unmaps a used page, and a live block is handed out twice. |
| `paging` | pass | The frame allocator composed with paging, the ELF loader, `_sbrk`, exits and the kernel heap's own frames. Through up to three loads, growth across a table boundary, shrinks, the wrapped page count, and every rollback, no reserved frame, frame 0 included, is handed out or mapped into a process. `pmm_allocate_page`'s 0 for out of memory is never taken for a frame. |
| `paging_alias` | violation | Load a process, then `_sbrk(8)`. The heap page in entry 2 of the image's table overwrites the stack's entry, because `elf_load_process` gave the image's and the stack's directory entries the same page table (`elf_loader.c:17`). Heap and stack then share a frame, and the stack's old frame leaks. |
| `pmm_double` | violation | The `&= mask` free makes the allocator return a frame still held. |
| `fd` | pass | If programs close only what they opened, every open file's `ref_count` stays at or above its live descriptors. No descriptor of a live process outlives its global entry. This holds through failed opens, `O_EXCL`, a full global table and stale PCB memory. |
| `fd_stderr` | violation | `close(2)` in one process frees the terminal's shared stderr entry. Every other process's fd 2 then dangles, and the next `open` reuses the entry. |
| `fat_sys` | pass | Through any sequence of `chdir`, `mkdir`, `rmdir` (always `EBUSY`), `unlink`, `open` with `O_CREAT`/`O_TRUNC`, `truncate`, `rename` and writes, with names as arguments, three things hold. Files stay within one cluster, so truncates and writes never free or allocate one. Clusters are taken by `mkdir` and `O_CREAT` and freed by `unlink`. Every owned chain is allocated and chains never share a cluster, so no allocated cluster is lost. Each directory's `file_size` equals its used slots. No directory holds a name twice. The run covers full directories, a full FAT where `fat_create` must give back the cluster of a failed add, and renames through `..`. |
| `fat_shrink` | violation | The image holds a `/main` of two clusters, as every real boot program does. One `open("/main", O_TRUNC)` frees its head cluster. The entry still names the freed cluster and the tail is leaked. |
| `terminal` | pass | Keys, backspaces, Enter and typed-ahead lines interleave with the shell's reads. Through all of them, three things hold. `parse_input` stays inside `input`, `arg_buffer` and `args`, including the exact fit of a line that fills the buffer. Its `args` are exactly the words of the line just read, whatever an earlier, longer line left in the reused arrays. With `MAX_ARGS = 2` only the first word is ever copied: that is the edge where the loop's `MAX_ARGS - 1` stop matters. |

`MCFatSyscalls_Dot.cfg` is kept beside the runs as a reproduction, not as a
run. It gives `fat_sys`'s model the arguments `./a` and `..`. TLC then finds
`DirSizeCountsEntries` violated after `mkdir a`, `chdir a` and `mkdir ./a`.
`_mkdir` does not simplify the path, so `fat_create` finds the parent through
`a`'s `.` entry and writes the new size there. `/a` keeps a `file_size` of 2
while holding three entries. `fat_delete_dir` would then take it for empty,
but `_rmdir` never reaches it (see `Rmdir`). The wrong size is what
`_open` and later creates and deletes then work from.
Each property of a passing run has a mutant in `PROJECT.json`. The mutant is a
plausible bug in the definition it replaces, and TLC finds the property
violated with it, so no passing property holds vacuously.

## Bounds

**Processes.** Five pids. This allows `/dummy`, `/main`, a child and a
grandchild, plus one failed creation, which consumes a pid.

**Heap.** A page is 8 units and a header is 3, so several blocks share a page
and headers can straddle pages. The rest of the heap configuration:

- 4 heap pages and 5 frames, so growth can fail at the window or at the frame pool.
- At most 3 live allocations.
- **Passing run.** It uses `kmalloc` of 2 units and `kmalloc_pages(1)` besides the 3-unit FAT table. A second request size multiplies the states past 800k without new behaviours of the page path.
- **Violation runs.** The `kmalloc`-only violation runs use sizes {1, 3}.

**Descriptors.** The descriptor instance has the following bounds:
- Three PCBs.
- Two files and one directory.
- 5 global entries: three go to the terminal, so two files fill the table and the next open takes the full-table path.
- 4 local entries, with one free slot after the std streams.
- `MaxRef` 3.
- Symmetry over the pids and over the two files.

Closes of fd 0 and 1 are allowed. Closing fd 2 is left to `fd_stderr`.

**FAT.** The FAT instance has the following bounds:
- 6 FAT entries, so 4 clusters can be allocated.
- 2 directory slots per cluster, so a directory with its dot entries is full and must be extended.
- 2 bytes per cluster.
- Names `{a, b}` and paths up to depth 2.
- `fat_sys` uses sizes {0, 1}: files of one cluster, where `fat_truncate` is correct. The disk still fills, through directories and their extensions.
- `fat_sys` arguments are `a`, `b` and `/`, so the working directory reaches depth 2 (`MaxCwd`). Its rename arguments add `../a`.
- `MCFatSyscalls_Dot.cfg` adds `./a` and `..`.
- Boot files: `/dummy` is `a`, 1 byte, and `/main` is `b`, 2 bytes, so each takes one cluster. Two clusters stay free for the system calls, and the root starts full.
- `fat_shrink` makes `/main` 3 bytes, two clusters, and TLC finds the violation in one step.

**Terminal.** The terminal instance has the following bounds:
- `INPUT_BUFFER_SIZE = MAX_INPUT_LENGTH = 4`. A line of three characters and its `'\n'` fills the buffer, so `strlen` ends at index 3 and `arg_buffer` is filled exactly.
- `MAX_ARGS = 2`, so a second word already meets the `MAX_ARGS - 1` limit.
- The keys are `e` and `x`, so `e` runs `echo` and `ex` runs `exit`. Then come space, Enter, Backspace, F1 (no character, so it appends a NUL), Ctrl make and break, and the break code of `e`, which no case matches.
- Shift, Caps Lock and Num Lock are in the model but not in this instance. They double the characters and push the run past the time budget, and no property here depends on case.
- The run reaches 552k states in about a minute.

**Frame allocator.** `pmm_double` (`MCPhysicalMemory`) allows up to 6 frames
held at once. This is enough to exhaust usable RAM and reach frames beyond it.

**Paging.** The instance has the following bounds:
- Up to 3 process creations (`MaxLoads`), so directories freed by an exit or a failed load are reused.
- Up to 2 frames held by the kernel heap (`MaxOther`), enough to reach the reissue of a held frame after a free.
- Two blocks of table memory.
- Breaks up to 18 bytes (`MaxBreak`), past the first table boundary at 8.
- `_sbrk` increments {-1, 1, 8}. These reach a growth across the boundary (1 to 9), a shrink onto the boundary (9 to 8), and a one-byte growth from there, whose page count is -1.
- The run reaches 857k states in about 30 s.
- `paging_alias` drops the heap's own frames, so its trace shows the paging code alone.

## Fairness

- **Timer.** `Tick` is weakly fair: the PIT fires for ever.
- **Kernel halves.** The halves of the kernel that run with interrupts masked once entered are weakly fair: the boot steps, the read loop's re-check, and the return of `_execve`.
- **Environment.** User programs' traps and key presses get no fairness.
- **Terminal.** `Terminal` has no fairness and no liveness property. Whether a blocked reader is woken and scheduled belongs to `ProcessManager`, whose `ReadyEventuallyRuns` is checked in `pm_boot`.
- **Heap search.** In `Heap`, the search steps are weakly fair, since a started `kmalloc` is never preempted.

## Not modelled yet

These are listed as hazards in `PROJECT.json`:

- **Kernel-half paging.** The kernel page tables, `paging_unmap_page`, `load_pd` and CR3 are boot code and hardware. The kernel heap's page mapping is abstracted in `Heap`, and in `Paging` as frames taken and returned.
- **`_sbrk` break property.** `BreakMapped` (every byte below the break is mapped) is violated by the floored page count at `proc.c:60`. It has no run, as the same `_sbrk` already shows the shared table.
- **Process-creation heap allocations.** The PCB, kernel stack and directory that `create_process_from_elf` takes from `kmalloc_pages` are not followed in `Paging`. Their frames are the kernel heap's, as `OtherAllocate`.
- **FAT reads and listing.** `fat_read`, `getdents` and the descriptor's cached `FileData` are not modelled. The stale-name bug after `_rename` is a hazard with no run yet.
- **FAT image builder.** Only the path `main` takes is modelled. The loader's rename, delete and read are never called, and its ATA emulation is host I/O.
- **Data-only descriptor calls.** `_write`, `_lseek`, `_stat`, `_fstat`, `_truncate` and `_ftruncate` change only data, offsets and the cached size. They do not change which descriptors exist.
- **Terminal.** Writes past `input_buf` (`input_len` is unbounded), `set_active_terminal`, and more than one terminal. The bytes past the buffer are `input_len` itself, and the `++` and the store are unsequenced, so the model stops keys at a full buffer.
- **Shell behaviours with no run.** These are reachable in `Terminal`, and each would need a violation run:
  - Backspace after Enter deletes the newline but keeps `is_input_ready`.
  - Type-ahead merges two lines into one command.
- **Shell output and command bodies.** `print_cwd` (its `getcwd` test is inverted, so it prints "Unknown path" on success), the text the commands print, and the `cmd_*` bodies, whose system calls are the other modules'.
- **VGA, ATA, port I/O, descriptor tables, libc.** These are hardware setup, I/O and pure conversions, with no state a property here tells apart.
- **Kernel-stack leak.** Modelling it needs the heap and the process manager composed.
