------------------------- MODULE MCProcessManager --------------------------
(***************************************************************************)
(* Model-checking instance of ProcessManager: five pids, so that /dummy,   *)
(* /main, a child of /main and a grandchild can all exist at once.         *)
(***************************************************************************)
EXTENDS ProcessManager

MCMaxPid == 5

=============================================================================
