--------------------------- MODULE MCFatSyscalls ---------------------------
EXTENDS FatSyscalls

CONSTANTS a, b

MCNames == {a, b}
Rel(cs) == [abs |-> FALSE, comps |-> cs]
Abs(cs) == [abs |-> TRUE, comps |-> cs]

(* Names relative to the working directory, and "/" to go back to the root. *)
MCArgs == {Rel(<<a>>), Rel(<<b>>), Abs(<<>>)}

(* The same with "." and "..", as a shell passes them: "cd ..", "mkdir ./x". *)
MCDotArgs == {Rel(<<a>>), Rel(<<".", a>>), Rel(<<"..">>)}

(* _rename simplifies its paths, so ".." can name a file of the parent. *)
MCRenameArgs == {Rel(<<a>>), Rel(<<b>>), Rel(<<"..", a>>)}

(* kernel.c starts /dummy and /main from the image: here a and b.  Both  *)
(* fit one cluster, the one-byte /dummy and the two-byte /main.            *)
MCBootFiles == <<[path |-> <<a>>, size |-> 1], [path |-> <<b>>, size |-> 2]>>

(* A /main of three bytes takes two clusters. *)
MCBigBootFiles == <<[path |-> <<a>>, size |-> 1], [path |-> <<b>>, size |-> 3]>>

(* Files descriptors may be open on: every path up to depth 2. *)
MCPaths == {<<a>>, <<b>>, <<a, a>>, <<a, b>>, <<b, a>>, <<b, b>>}
=============================================================================
