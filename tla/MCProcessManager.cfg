\* Boot configuration: /dummy is an idle loop, no key is pressed before
\* the first process is dispatched.
CONSTANTS
    MaxPid <- MCMaxPid
    IdleProgram = TRUE
    KeysDuringBoot = FALSE
    NULL = NULL
SPECIFICATION Spec
INVARIANTS
    TypeOK
    RunningOnlyCurrent
    WaitingTargetsLive
    PrivilegeMatchesFrame
    KernelAlive
PROPERTIES
    ReadyEventuallyRuns
    ImplementsLifecycle
