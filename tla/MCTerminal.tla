----------------------------- MODULE MCTerminal -----------------------------
(***************************************************************************)
(* Model-checking instance of Terminal: a four-byte buffer, so that a line *)
(* of three characters and its '\n' fill it, and MAX_ARGS = 2, so that a   *)
(* second word already meets the args limit.                               *)
(***************************************************************************)
EXTENDS Terminal

\* Make and break codes of Ctrl; the letters e and x (so that "e" runs echo
\* and "ex" exit), the space bar, Enter, Backspace, F1 (a key without a
\* character, which appends a NUL), and the break code of e, which no case
\* of the release switch matches.  The shift and lock keys only choose
\* between the two tables and would double the characters; they are left
\* out of this instance.
MCScanCodes == {29, 157, 18, 45, 57, 28, 14, 59, 146}

====
