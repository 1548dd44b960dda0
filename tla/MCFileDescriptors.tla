------------------------- MODULE MCFileDescriptors -------------------------
(* Instance of the descriptor tables for TLC: three PCBs, one directory   *)
(* and two paths that are no file at boot, fd_tables of 4 entries (the    *)
(* three standard ones and one more) and a global table of 5 entries, so  *)
(* that the terminal's three devices and two open paths fill it and a     *)
(* third path finds it full.  Programs open with the flags the shell's    *)
(* stdio uses ("r" is 0; "w+" and "a" add O_CREAT; opendir O_DIRECTORY)   *)
(* and with O_CREAT | O_EXCL.                                             *)
EXTENDS FileDescriptors, TLC

CONSTANTS p1, p2, p3, f1, f2, d

MCPids == {p1, p2, p3}
MCPaths == {f1, f2, d}
MCDirs == {d}
MCSymmetry == Permutations(MCPids) \cup Permutations({f1, f2})
MCFlagSets == {{}, {"O_CREAT"}, {"O_DIRECTORY"}, {"O_CREAT", "O_EXCL"}}
=============================================================================
