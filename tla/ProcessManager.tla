--------------------------- MODULE ProcessManager ---------------------------
(***************************************************************************)
(* The process scheduler and process lifecycle of the kernel               *)
(* (src/os/kernel/src/process/manager/process_manager.c), together with    *)
(* the callers that change process state: the boot sequence of kmain, the  *)
(* timer interrupt, the execve/exit/read system calls, the page-fault      *)
(* handler and the keyboard interrupt that wakes terminal readers.         *)
(*                                                                         *)
(* The ring of PCBs is a sequence of pids in list order (head first).      *)
(* One CPU executes: the kmain boot thread until the first switch, then    *)
(* the process current_process_g.  Interrupt and trap handlers run with    *)
(* interrupts masked (every IDT entry is an interrupt gate), so each       *)
(* handler is one atomic step, and the timer and keyboard can only fire    *)
(* while the CPU is in user code of the current process or in kmain.       *)
(***************************************************************************)
EXTENDS Naturals, Sequences, SequencesExt, FiniteSets

CONSTANTS
    MaxPid,         \* bound on next_pid: at most MaxPid processes are ever created
    IdleProgram,    \* TRUE: /dummy (pid 1) is an endless loop that never traps
    KeysDuringBoot, \* TRUE: the keyboard may fire before the first switch
    NULL

ASSUME MaxPid \in Nat \ {0} /\ IdleProgram \in BOOLEAN /\ KeysDuringBoot \in BOOLEAN

Pid == 1..MaxPid

\* process_state_t; "none" marks a pid that has no PCB on the ring
RUNNING == "RUNNING"
READY   == "READY"
BLOCKED == "BLOCKED"
WAITING == "WAITING"
States  == {RUNNING, READY, BLOCKED, WAITING, "none"}

\* Where a process's saved register snapshot resumes it: in its own code,
\* inside the read loop of read_terminal_input, or inside _execve after
\* force_switch_process.
Contexts == {"user", "read", "exec"}

\* Programs whose code never traps: the /dummy kernel process when it is idle.
Idle == IF IdleProgram THEN {1} ELSE {}

VARIABLES
    ring,          \* process_list_head .. process_list_tail, as pids
    pstate,        \* proc.state of each PCB
    waiting_for,   \* proc.waiting_for
    ctx,           \* where the saved snapshot of each process resumes
    kmode,         \* proc.is_kernel_mode (selects jump_kernelmode/jump_usermode)
    kprocs,        \* pids created by create_kernelmode_process
    current,       \* current_process_g
    next_pid,      \* next_pid
    run_processes, \* run_processes (enable_processes)
    boot,          \* program counter of kmain
    input_ready,   \* is_input_ready of the active terminal
    kernel         \* "ok", or how the kernel stopped making progress

vars == <<ring, pstate, waiting_for, ctx, kmode, kprocs, current, next_pid,
          run_processes, boot, input_ready, kernel>>

OnRing == ToSet(ring)

IndexOf(p) == CHOOSE i \in 1..Len(ring) : ring[i] = p

-----------------------------------------------------------------------------
(* Mutant: the scan starts at the head of the list instead of the         *)
(* successor of the interrupted process.                                   *)
ScanFromHead(cur, r) == r

(* switch_process: the candidates visited by its do-while loop, starting   *)
(* at the successor of cur and wrapping from the tail to the head, so that *)
(* cur itself is visited last.                                             *)
ScanOrder(cur, r) ==
    LET i == CHOOSE j \in 1..Len(r) : r[j] = cur
    IN  [k \in 1..Len(r) |-> r[((i + k - 1) % Len(r)) + 1]]

(* Mutant: a while loop that stops before wrapping back to cur.           *)
FirstReadySkipCurrent(cur, st, r) ==
    LET s == ScanOrder(cur, r)
        ks == {k \in 1..Len(s) - 1 : st[s[k]] = READY}
    IN  IF ks = {} THEN NULL ELSE s[CHOOSE k \in ks : \A j \in ks : k <= j]

FirstReady(cur, st, r) ==
    LET s == ScanOrder(cur, r)
        ks == {k \in 1..Len(s) : st[s[k]] = READY}
    IN  IF ks = {} THEN NULL ELSE s[CHOOSE k \in ks : \A j \in ks : k <= j]

(* Mutant: the interrupted RUNNING process is not demoted to READY.       *)
SwitchProcessNoDemote(cur, st, r) ==
    IF r = <<>> THEN [cur |-> cur, st |-> st, kernel |-> "ok"]
    ELSE IF cur = NULL
    THEN [cur |-> r[1], st |-> [st EXCEPT ![r[1]] = RUNNING], kernel |-> "ok"]
    ELSE LET q == FirstReady(cur, st, r)
         IN  IF q = NULL THEN [cur |-> cur, st |-> st, kernel |-> "spin"]
             ELSE [cur |-> q, st |-> [st EXCEPT ![q] = RUNNING], kernel |-> "ok"]

(* The whole of switch_process on an intermediate state: the resulting     *)
(* current process, state function and kernel status.  With no READY PCB   *)
(* the do-while loop never ends, and it runs with interrupts masked.       *)
SwitchProcess(cur, st, r) ==
    IF r = <<>> THEN [cur |-> cur, st |-> st, kernel |-> "ok"]
    ELSE IF cur = NULL
    THEN [cur |-> r[1], st |-> [st EXCEPT ![r[1]] = RUNNING], kernel |-> "ok"]
    ELSE LET st1 == IF st[cur] = RUNNING THEN [st EXCEPT ![cur] = READY] ELSE st
             q   == FirstReady(cur, st1, r)
         IN  IF q = NULL THEN [cur |-> cur, st |-> st1, kernel |-> "spin"]
             ELSE [cur |-> q, st |-> [st1 EXCEPT ![q] = RUNNING], kernel |-> "ok"]

ApplySwitch(cur, st, r) ==
    LET res == SwitchProcess(cur, st, r)
    IN  /\ current' = res.cur
        /\ pstate'  = res.st
        /\ kernel'  = res.kernel

(* Mutant: the waiting_for comparison is dropped.                         *)
WakeAllWaiting(pid, st, wf) ==
    LET woken == {q \in OnRing : st[q] = WAITING}
    IN  [st |-> [q \in Pid |-> IF q \in woken THEN READY ELSE st[q]],
         wf |-> [q \in Pid |-> IF q \in woken THEN 0 ELSE wf[q]]]

(* wake_up_waiting_processes(pid): every WAITING PCB on the ring that      *)
(* waits for pid becomes READY and its waiting_for is cleared.             *)
WakeWaiting(pid, st, wf) ==
    LET woken == {q \in OnRing : st[q] = WAITING /\ wf[q] = pid}
    IN  [st |-> [q \in Pid |-> IF q \in woken THEN READY ELSE st[q]],
         wf |-> [q \in Pid |-> IF q \in woken THEN 0 ELSE wf[q]]]

(* wake_up_terminal_processes: every BLOCKED PCB of the terminal becomes   *)
(* READY (there is one terminal).                                          *)
WakeTerminal(st) ==
    [q \in Pid |-> IF q \in OnRing /\ st[q] = BLOCKED THEN READY ELSE st[q]]

(* The PCB that exit_proc switches to: the exiting node's successor, or    *)
(* the head when it is the tail (read before the node is unlinked).        *)
ExitReplacement(p) ==
    IF IndexOf(p) < Len(ring) THEN ring[IndexOf(p) + 1] ELSE ring[1]

-----------------------------------------------------------------------------
Init ==
    /\ ring = <<>>
    /\ pstate = [p \in Pid |-> "none"]
    /\ waiting_for = [p \in Pid |-> 0]
    /\ ctx = [p \in Pid |-> "user"]
    /\ kmode = [p \in Pid |-> FALSE]
    /\ kprocs = {}
    /\ current = NULL
    /\ next_pid = 1
    /\ run_processes = FALSE
    /\ boot = "dummy"
    /\ input_ready = FALSE
    /\ kernel = "ok"

(* create_process / create_process_from_elf, called by a parent (NULL in   *)
(* kmain).  Outcome "invalid": the image fails elf_is_valid_and_loadable   *)
(* or the PCB kmalloc fails, before a pid is taken.  Outcome "late": the   *)
(* page directory allocation or elf_load_process fails after next_pid++.   *)
(* Outcome "ok": the PCB is READY at the tail and a running parent starts  *)
(* WAITING for it.  Returns the state for the caller to continue with.     *)
CreateProcess(parent, is_kernel, outcome) ==
    LET pid == next_pid
        ok  == outcome = "ok"
    IN [ring  |-> IF ok THEN Append(ring, pid) ELSE ring,
        st    |-> IF ~ok THEN pstate
                  ELSE [q \in Pid |-> IF q = pid THEN READY
                                      ELSE IF q = parent THEN WAITING ELSE pstate[q]],
        wf    |-> IF ok /\ parent # NULL THEN [waiting_for EXCEPT ![parent] = pid]
                  ELSE waiting_for,
        kmode |-> IF ok THEN [kmode EXCEPT ![pid] = is_kernel] ELSE kmode,
        npid  |-> IF outcome = "invalid" THEN next_pid ELSE next_pid + 1,
        kp    |-> IF ok /\ is_kernel THEN kprocs \cup {pid} ELSE kprocs]

Outcomes == {"invalid", "late", "ok"}

(* kmain: create_kernelmode_process("/dummy"), then                        *)
(* create_usermode_process("/main").                                       *)
BootCreate ==
    /\ boot \in {"dummy", "main"}
    /\ kernel = "ok"
    /\ \E outcome \in Outcomes :
         /\ (IdleProgram /\ boot = "dummy") => outcome = "ok"
         /\ LET c == CreateProcess(NULL, boot = "dummy", outcome)
            IN  /\ ring' = c.ring
                /\ pstate' = c.st
                /\ waiting_for' = c.wf
                /\ kmode' = c.kmode
                /\ next_pid' = c.npid
                /\ kprocs' = c.kp
    /\ boot' = IF boot = "dummy" THEN "main" ELSE "enable"
    /\ UNCHANGED <<ctx, current, run_processes, input_ready, kernel>>

(* kmain: sti; enable_processes(); then the idle while(1) loop.            *)
BootEnable ==
    /\ boot = "enable"
    /\ run_processes' = TRUE
    /\ boot' = "done"
    /\ UNCHANGED <<ring, pstate, waiting_for, ctx, kmode, kprocs, current,
                   next_pid, input_ready, kernel>>

(* The CPU is in user code of the current process, or in kmain before the *)
(* first switch: the only places where interrupts are enabled.            *)
InterruptsOn == IF current = NULL THEN TRUE ELSE ctx[current] = "user"

(* timer_irq: context_switch reaches 1 on every tick, so every tick calls *)
(* switch_process once scheduling is enabled; the interrupted snapshot is *)
(* saved by copy_registers (the process stays in "user" context).          *)
Tick ==
    /\ kernel = "ok"
    /\ run_processes
    /\ InterruptsOn
    /\ ring # <<>>
    /\ ApplySwitch(current, pstate, ring)
    /\ UNCHANGED <<ring, waiting_for, ctx, kmode, kprocs, next_pid,
                   run_processes, boot, input_ready>>

(* keyboard_handler on Enter: is_input_ready = true, then                  *)
(* wake_up_terminal_processes, whose loop starts at current_process_g and  *)
(* dereferences it without a NULL check.                                   *)
KeyEnter ==
    /\ kernel = "ok"
    /\ InterruptsOn
    /\ current = NULL => KeysDuringBoot
    /\ IF current = NULL
       THEN /\ kernel' = "null_deref"
            /\ UNCHANGED <<pstate, input_ready>>
       ELSE /\ input_ready' = TRUE
            /\ pstate' = WakeTerminal(pstate)
            /\ UNCHANGED kernel
    /\ UNCHANGED <<ring, waiting_for, ctx, kmode, kprocs, current, next_pid,
                   run_processes, boot>>

(* A step of the current process's own code, which must be a program that *)
(* traps (not the idle loop).                                              *)
UserStep(p) ==
    /\ kernel = "ok"
    /\ current = p
    /\ ctx[p] = "user"
    /\ p \notin Idle

(* Mutant: handle_syscall does not set is_kernel_mode before the handler. *)
ReadNoKernelMode(p) ==
    /\ \/ UserStep(p)
       \/ kernel = "ok" /\ current = p /\ ctx[p] = "read"
    /\ IF input_ready
       THEN /\ input_ready' = FALSE
            /\ kmode' = [kmode EXCEPT ![p] = FALSE]
            /\ ctx' = [ctx EXCEPT ![p] = "user"]
            /\ UNCHANGED <<current, pstate, kernel>>
       ELSE /\ ctx' = [ctx EXCEPT ![p] = "read"]
            /\ ApplySwitch(p, [pstate EXCEPT ![p] = BLOCKED], ring)
            /\ UNCHANGED <<input_ready, kmode>>
    /\ UNCHANGED <<ring, waiting_for, kprocs, next_pid, run_processes, boot>>

(* sys_read on the terminal's stdin: handle_syscall sets is_kernel_mode,   *)
(* then read_terminal_input loops: if no line is ready the process marks   *)
(* itself BLOCKED and raises int 0x69 (switch_process); once a line is     *)
(* ready it consumes it and handle_syscall clears is_kernel_mode.  The     *)
(* same action is the loop's re-check when the process is resumed inside   *)
(* it.                                                                     *)
Read(p) ==
    /\ \/ UserStep(p)
       \/ kernel = "ok" /\ current = p /\ ctx[p] = "read"
    /\ IF input_ready
       THEN /\ input_ready' = FALSE
            /\ kmode' = [kmode EXCEPT ![p] = FALSE]
            /\ ctx' = [ctx EXCEPT ![p] = "user"]
            /\ UNCHANGED <<current, pstate, kernel>>
       ELSE /\ kmode' = [kmode EXCEPT ![p] = TRUE]
            /\ ctx' = [ctx EXCEPT ![p] = "read"]
            /\ ApplySwitch(p, [pstate EXCEPT ![p] = BLOCKED], ring)
            /\ UNCHANGED input_ready
    /\ UNCHANGED <<ring, waiting_for, kprocs, next_pid, run_processes, boot>>

(* sys_execve: handle_syscall sets is_kernel_mode, _execve calls           *)
(* create_usermode_process (the caller WAITs for the child when it is      *)
(* created) and then force_switch_process.                                 *)
Exec(p) ==
    /\ UserStep(p)
    /\ next_pid <= MaxPid
    /\ \E outcome \in Outcomes :
         LET c == CreateProcess(p, FALSE, outcome)
         IN  /\ ring' = c.ring
             /\ waiting_for' = c.wf
             /\ kmode' = [c.kmode EXCEPT ![p] = TRUE]
             /\ next_pid' = c.npid
             /\ kprocs' = c.kp
             /\ ctx' = [ctx EXCEPT ![p] = "exec"]
             /\ ApplySwitch(p, c.st, c.ring)
    /\ UNCHANGED <<run_processes, boot, input_ready>>

(* Resumed after int 0x69 inside _execve: the syscall returns and          *)
(* handle_syscall clears is_kernel_mode.                                   *)
ExecReturn(p) ==
    /\ kernel = "ok"
    /\ current = p
    /\ ctx[p] = "exec"
    /\ kmode' = [kmode EXCEPT ![p] = FALSE]
    /\ ctx' = [ctx EXCEPT ![p] = "user"]
    /\ UNCHANGED <<ring, pstate, waiting_for, kprocs, current, next_pid,
                   run_processes, boot, input_ready, kernel>>

(* Mutant: the replacement is picked first and current_process_g (now the *)
(* replacement) is what wake_up_waiting_processes is called with.          *)
ExitWakesReplacement(p) ==
    /\ UserStep(p)
    /\ LET repl == ExitReplacement(p)
           w    == WakeWaiting(repl, pstate, waiting_for)
       IN  IF repl = p
           THEN /\ kernel' = "freed_jump"
                /\ UNCHANGED <<ring, pstate, waiting_for, ctx, kmode, kprocs, current>>
           ELSE /\ ring' = Remove(ring, p)
                /\ pstate' = [w.st EXCEPT ![p] = "none"]
                /\ waiting_for' = [w.wf EXCEPT ![p] = 0]
                /\ ctx' = [ctx EXCEPT ![p] = "user"]
                /\ kmode' = [kmode EXCEPT ![p] = FALSE]
                /\ kprocs' = kprocs \ {p}
                /\ current' = repl
                /\ UNCHANGED kernel
    /\ UNCHANGED <<next_pid, run_processes, boot, input_ready>>

(* Mutant: the PCB is freed without being unlinked from the list.        *)
ExitNoUnlink(p) ==
    /\ UserStep(p)
    /\ LET w    == WakeWaiting(p, pstate, waiting_for)
           repl == ExitReplacement(p)
       IN  IF repl = p
           THEN /\ kernel' = "freed_jump"
                /\ UNCHANGED <<ring, pstate, waiting_for, ctx, kmode, kprocs, current>>
           ELSE /\ ring' = ring
                /\ pstate' = [w.st EXCEPT ![p] = "none"]
                /\ waiting_for' = [w.wf EXCEPT ![p] = 0]
                /\ ctx' = [ctx EXCEPT ![p] = "user"]
                /\ kmode' = [kmode EXCEPT ![p] = FALSE]
                /\ kprocs' = kprocs \ {p}
                /\ current' = repl
                /\ UNCHANGED kernel
    /\ UNCHANGED <<next_pid, run_processes, boot, input_ready>>

(* sys_exit, or a page fault in the process (isr_wrapper calls             *)
(* exit_current_process): exit_proc wakes the processes waiting for it,    *)
(* picks the successor (or head) as replacement, unlinks and frees the     *)
(* PCB, and jumps into the replacement without looking at its state.  If   *)
(* the exiting PCB is the only one, the replacement is the freed PCB.      *)
Exit(p) ==
    /\ UserStep(p)
    /\ LET w    == WakeWaiting(p, pstate, waiting_for)
           repl == ExitReplacement(p)
       IN  IF repl = p
           THEN /\ kernel' = "freed_jump"
                /\ UNCHANGED <<ring, pstate, waiting_for, ctx, kmode, kprocs, current>>
           ELSE /\ ring' = Remove(ring, p)
                /\ pstate' = [w.st EXCEPT ![p] = "none"]
                /\ waiting_for' = [w.wf EXCEPT ![p] = 0]
                /\ ctx' = [ctx EXCEPT ![p] = "user"]
                /\ kmode' = [kmode EXCEPT ![p] = FALSE]
                /\ kprocs' = kprocs \ {p}
                /\ current' = repl
                /\ UNCHANGED kernel
    /\ UNCHANGED <<next_pid, run_processes, boot, input_ready>>

Next ==
    \/ BootCreate
    \/ BootEnable
    \/ Tick
    \/ KeyEnter
    \/ \E p \in Pid : Read(p) \/ Exec(p) \/ ExecReturn(p) \/ Exit(p)

(* The timer fires forever; kmain and the kernel halves of read and execve *)
(* run to completion with interrupts masked.  Traps made by programs and   *)
(* key presses are the environment's choice: no fairness.                  *)
Fairness ==
    /\ WF_vars(BootCreate)
    /\ WF_vars(BootEnable)
    /\ WF_vars(Tick)
    /\ \A p \in Pid : WF_vars(ExecReturn(p))
    /\ \A p \in Pid : WF_vars(ctx[p] = "read" /\ Read(p))

Spec == Init /\ [][Next]_vars /\ Fairness


-----------------------------------------------------------------------------
(* Properties *)

TypeOK ==
    /\ ring \in Seq(Pid) /\ Len(ring) = Cardinality(OnRing)
    /\ pstate \in [Pid -> States]
    /\ \A p \in Pid : (p \in OnRing) <=> (pstate[p] # "none")
    /\ waiting_for \in [Pid -> 0..MaxPid]
    /\ ctx \in [Pid -> Contexts]
    /\ kmode \in [Pid -> BOOLEAN]
    /\ kprocs \subseteq OnRing
    /\ current \in OnRing \cup {NULL}
    /\ next_pid \in 1..MaxPid + 1
    /\ run_processes \in BOOLEAN /\ input_ready \in BOOLEAN
    /\ boot \in {"dummy", "main", "enable", "done"}
    /\ kernel \in {"ok", "spin", "freed_jump", "null_deref"}

(* Only the process the CPU is executing (current_process_g) may be marked *)
(* RUNNING: switch_process demotes the interrupted process before it       *)
(* promotes the next one, and exit_proc removes the running PCB.           *)
RunningOnlyCurrent ==
    \A p \in OnRing : pstate[p] = RUNNING => p = current

(* No lost wake-up: a process WAITING in execve waits for a pid that is    *)
(* still on the ring, so the exit_proc of that pid will wake it.           *)
WaitingTargetsLive ==
    \A p \in OnRing : pstate[p] = WAITING => waiting_for[p] \in OnRing

(* jump_proc_wrapper picks jump_kernelmode exactly for the processes whose *)
(* saved snapshot is a kernel-level frame: kernel-mode processes, and      *)
(* processes suspended inside a system call (handle_syscall sets and       *)
(* clears is_kernel_mode around every handler).                           *)
PrivilegeMatchesFrame ==
    \A p \in OnRing : kmode[p] = (p \in kprocs \/ ctx[p] # "user")

(* The kernel keeps running: switch_process never spins without a READY   *)
(* process, exit_proc never jumps into the PCB it freed, and the keyboard  *)
(* never walks the ring from a NULL current process.                      *)
KernelAlive == kernel = "ok"

(* Round robin: a READY process is eventually dispatched (or has exited).  *)
ReadyEventuallyRuns ==
    \A p \in Pid : pstate[p] = READY ~> (pstate[p] = RUNNING \/ p \notin OnRing)

(* The scheduler implements the lifecycle of ProcessLifecycle: states      *)
(* change only along its edges, at most one process is RUNNING, and a      *)
(* WAITING parent is woken exactly when its child exits.                   *)
AbsState ==
    [p \in Pid |-> IF p \in OnRing
                   THEN CASE pstate[p] = RUNNING -> "Running"
                          [] pstate[p] = READY   -> "Ready"
                          [] pstate[p] = BLOCKED -> "Blocked"
                          [] pstate[p] = WAITING -> "Waiting"
                          [] OTHER -> "Unused"
                   ELSE IF p < next_pid THEN "Terminated" ELSE "Unused"]

Lifecycle == INSTANCE ProcessLifecycle WITH st <- AbsState, waits <- waiting_for

ImplementsLifecycle == Lifecycle!Spec

=============================================================================
