------------------------------ MODULE Terminal ------------------------------
(***************************************************************************)
(* The input path from the keyboard to the user shell:                     *)
(*   - keyboard_handler (drivers/keyboard/keyboard.c), run by IRQ 1 with   *)
(*     interrupts masked, which keeps the modifier flags and appends to    *)
(*     the active terminal's input_buf;                                    *)
(*   - read_terminal_input (terminal/terminal_manager.c), the _read of the *)
(*     terminal's stdin entry, which hands the buffer to the reader once   *)
(*     Enter has set is_input_ready;                                       *)
(*   - the loop of start_shell (src/terminal/main.c): read a line into the *)
(*     persistent array input, cut its last byte, split it with            *)
(*     parse_input into arg_buffer and args, and run the first command     *)
(*     whose name the first word is a prefix of.                           *)
(*                                                                         *)
(* Scan codes are the real numbers; the characters are one-letter strings. *)
(* Blocking in read and the wake-up belong to ProcessManager: here the     *)
(* shell's read step is enabled exactly when is_input_ready holds.  The    *)
(* commands' own effects (files, execve) belong to FatSyscalls and         *)
(* ProcessManager; here a command is its name and its return status.       *)
(***************************************************************************)
EXTENDS Integers, Sequences, SequencesExt

CONSTANTS
    B,          \* INPUT_BUFFER_SIZE = MAX_INPUT_LENGTH, the size of
                \* input_buf, of the shell's input and of its arg_buffer
    MaxArgs,    \* MAX_ARGS, the size of the shell's args array
    ScanCodes   \* the scan codes the keyboard controller delivers

ASSUME B >= 2 /\ MaxArgs >= 2 /\ ScanCodes \subseteq 0..255

NUL == "NUL"
BS  == "BS"
Lower == {"e", "x"}
IsSpace(c) == c \in {" ", "\n"}
Chars == {NUL, " ", "\n", "e", "x", "E", "X"}

\* key_map and key_map_shift for the keys of the model; every other make
\* code of the tables below 128 that the model uses is 0 (F1, Ctrl, ...).
KeyMap      == (18 :> "e") @@ (45 :> "x") @@ (57 :> " ") @@ (28 :> "\n") @@ (14 :> BS)
KeyMapShift == (18 :> "E") @@ (45 :> "X") @@ (57 :> " ") @@ (28 :> "\n") @@ (14 :> BS)
KeyOf(map, sc) == IF sc \in DOMAIN map THEN map[sc] ELSE NUL

Flags == {"left_shift_pressed", "right_shift_pressed", "ctrl_pressed", "alt_pressed",
          "num_lock_pressed", "caps_lock_pressed", "scroll_lock_pressed"}
\* The cases of the release switch (scan_code & 0x80).  0x45, 0x3A and 0x46
\* are make codes, so those three cases can never match.
ReleaseCase == (170 :> "left_shift_pressed") @@ (182 :> "right_shift_pressed")
               @@ (157 :> "ctrl_pressed") @@ (184 :> "alt_pressed")
               @@ (69 :> "num_lock_pressed") @@ (58 :> "caps_lock_pressed")
               @@ (70 :> "scroll_lock_pressed")
\* The cases of the make switch that set a flag; 0x3A toggles caps_lock.
SetCase == (42 :> "left_shift_pressed") @@ (54 :> "right_shift_pressed")
           @@ (29 :> "ctrl_pressed") @@ (56 :> "alt_pressed")
           @@ (69 :> "num_lock_pressed") @@ (70 :> "scroll_lock_pressed")
CapsCode == 58

\* supported_commands, in table order, as character sequences, and the
\* names the model reports them by.
SupportedCommands ==
    << <<"h", "e", "l", "p">>, <<"l", "s">>, <<"c", "d">>, <<"c", "a", "t">>,
       <<"e", "c", "h", "o">>, <<"m", "k", "d", "i", "r">>, <<"r", "m">>,
       <<"r", "m", "d", "i", "r">>, <<"r", "u", "n">>, <<"e", "x", "i", "t">> >>
CommandNames == <<"help", "ls", "cd", "cat", "echo", "mkdir", "rm", "rmdir", "run", "exit">>

Idx == 0..(B - 1)
Cleared == [j \in Idx |-> NUL]

VARIABLES
    kbd,      \* keyboard_state: flag name -> 0..1
    buf,      \* input_buf of the active terminal
    len,      \* its input_len
    ready,    \* its is_input_ready
    input,    \* start_shell's input[], kept across iterations
    parsed,   \* what the last parse_input did: strlen, i, arg_count, buf_pos, args
    last,     \* what the last loop iteration ran
    status    \* start_shell's status; the loop ends when it is 0

vars == <<kbd, buf, len, ready, input, parsed, last, status>>

NoParse == [n |-> 0, i |-> 0, argc |-> 0, pos |-> 0, args |-> <<>>]

Init ==
    /\ kbd = [f \in Flags |-> 0]
    /\ buf = Cleared /\ len = 0 /\ ready = FALSE
    /\ input = Cleared /\ parsed = NoParse
    /\ last = "none" /\ status = 1

-----------------------------------------------------------------------------
(* keyboard_handler, one action per branch of its two switches.            *)

\* A break code: clear the flag of its case, if it has one.
KeyRelease(sc) ==
    /\ sc >= 128
    /\ kbd' = IF sc \in DOMAIN ReleaseCase THEN [kbd EXCEPT ![ReleaseCase[sc]] = 0]
                                            ELSE kbd
    /\ UNCHANGED <<buf, len, ready, input, parsed, last, status>>

\* A make code of a modifier: set its flag, or toggle caps_lock.
KeyModifier(sc) ==
    /\ sc < 128 /\ sc \in DOMAIN SetCase \cup {CapsCode}
    /\ kbd' = IF sc = CapsCode THEN [kbd EXCEPT !.caps_lock_pressed = 1 - @]
                               ELSE [kbd EXCEPT ![SetCase[sc]] = 1]
    /\ UNCHANGED <<buf, len, ready, input, parsed, last, status>>

IsDefault(sc) == sc < 128 /\ sc \notin DOMAIN SetCase \cup {CapsCode}

\* Mutant: backspace without the input_len > 0 test.
KeyBackspaceNoCheck(sc) ==
    /\ IsDefault(sc) /\ KeyOf(KeyMap, sc) = BS
    /\ len' = len - 1
    /\ buf' = [j \in Idx |-> IF j = len - 1 THEN NUL ELSE buf[j]]
    /\ UNCHANGED <<kbd, ready, input, parsed, last, status>>

\* Backspace: drop the last byte if there is one.  is_input_ready is left
\* as it is, also when the byte dropped is the '\n' that set it.
KeyBackspace(sc) ==
    /\ IsDefault(sc) /\ KeyOf(KeyMap, sc) = BS
    /\ len > 0
    /\ len' = len - 1
    /\ buf' = [buf EXCEPT ![len - 1] = NUL]
    /\ UNCHANGED <<kbd, ready, input, parsed, last, status>>

Shifted == kbd.left_shift_pressed = 1 \/ kbd.right_shift_pressed = 1

\* Any other key: append key_map_shift[sc] when caps lock is on for a
\* lower-case letter and no shift is held, or when a shift is held, and
\* key_map[sc] otherwise (0 for keys without a character); on '\n' set
\* is_input_ready.  There is no bound check on input_len: the model lets a
\* key arrive only while the buffer has room (len < B).
KeyChar(sc) ==
    /\ IsDefault(sc) /\ KeyOf(KeyMap, sc) # BS
    /\ len < B
    /\ LET useShift == (kbd.caps_lock_pressed = 1 /\ KeyOf(KeyMap, sc) \in Lower /\ ~Shifted)
                       \/ Shifted
       IN buf' = [buf EXCEPT ![len] = IF useShift THEN KeyOf(KeyMapShift, sc)
                                                  ELSE KeyOf(KeyMap, sc)]
    /\ len' = len + 1
    /\ ready' = (ready \/ KeyOf(KeyMap, sc) = "\n")
    /\ UNCHANGED <<kbd, input, parsed, last, status>>

-----------------------------------------------------------------------------
(* parse_input, loop by loop.  s is the shell's input array, n its strlen. *)
(* Each while loop is a recursive function of what the loop changes.      *)

\* strlen(input): the index of the first NUL, or B when the array holds none
\* (strlen would then read past it).
StrLen(s) == LET f[i \in 0..B] == IF i < B /\ s[i] # NUL THEN f[i + 1] ELSE i IN f[0]

\* while (i < input_len && isspace(input[i])) i++;
SkipSpace(s, n, i) == LET f[k \in 0..B] == IF k < n /\ IsSpace(s[k]) THEN f[k + 1] ELSE k
                      IN f[i]

\* while (i < input_len && !isspace(input[i])) arg_buffer[buf_pos++] = input[i++];
WordEnd(s, n, i) == LET f[k \in 0..B] == IF k < n /\ ~IsSpace(s[k]) THEN f[k + 1] ELSE k
                    IN f[i]

\* One pass of the outer loop with the word s[p.i .. j-1]: copy it and its
\* NUL to arg_buffer at buf_pos, store it in args[arg_count], skip spaces.
TakeWord(s, n, p, j) ==
    [n |-> n, i |-> SkipSpace(s, n, j), argc |-> p.argc + 1,
     pos |-> p.pos + (j - p.i) + 1,
     args |-> Append(p.args, [k \in 1..(j - p.i) |-> s[p.i + k - 1]])]

ParseState == [n : 0..B, i : 0..B, argc : Nat, pos : Nat, args : Seq(Seq(Chars))]

\* Mutant: the outer loop bounded by arg_count < MAX_ARGS.
ParseInputNoReserve(s, n) ==
    LET loop[p \in ParseState] ==
            IF p.i < n /\ p.argc < MaxArgs THEN loop[TakeWord(s, n, p, WordEnd(s, n, p.i))]
                                          ELSE p
    IN loop[[n |-> n, i |-> SkipSpace(s, n, 0), argc |-> 0, pos |-> 0, args |-> <<>>]]

\* Mutant: no skip of leading whitespace.
ParseInputNoSkip(s, n) ==
    LET loop[p \in ParseState] ==
            IF p.i < n /\ p.argc < MaxArgs - 1 THEN loop[TakeWord(s, n, p, WordEnd(s, n, p.i))]
                                              ELSE p
    IN loop[[n |-> n, i |-> 0, argc |-> 0, pos |-> 0, args |-> <<>>]]

\* parse_input: skip leading spaces, then the outer loop
\* while (i < input_len && arg_count < MAX_ARGS - 1); args[arg_count] = NULL
\* is the write at index argc.
ParseInput(s, n) ==
    LET loop[p \in ParseState] ==
            IF p.i < n /\ p.argc < MaxArgs - 1 THEN loop[TakeWord(s, n, p, WordEnd(s, n, p.i))]
                                              ELSE p
    IN loop[[n |-> n, i |-> SkipSpace(s, n, 0), argc |-> 0, pos |-> 0, args |-> <<>>]]

\* execute_command: the first command for which
\* strncmp(supported_commands[i], args[0], strlen(args[0])) == 0, that is,
\* whose name args[0] is a prefix of.
Matches(a) == {i \in 1..Len(SupportedCommands) : IsPrefix(a, SupportedCommands[i])}
ExecuteCommand(a) == IF Matches(a) = {} THEN "unknown"
                                        ELSE CommandNames[Min(Matches(a))]
\* Every cmd_* returns 1 except cmd_exit, which returns 0.
CommandStatus(c) == IF c = "exit" THEN 0 ELSE 1

-----------------------------------------------------------------------------
(* One iteration of the start_shell loop, from read() to execute_command.  *)
(* Between the read and the command nothing the keyboard interrupt touches *)
(* is used, so the iteration is one step.                                  *)

\* The line, after input[len-1] = '\0', holds at least one word.
RunLine(p) ==
    /\ parsed' = p
    /\ IF parsed'.argc = 0
       THEN /\ last' = "empty" /\ UNCHANGED status
       ELSE /\ last' = ExecuteCommand(parsed'.args[1])
            /\ status' = CommandStatus(last')

\* len > 0: cut the last byte, parse, run.
ShellLine(s) ==
    /\ input' = s
    /\ RunLine(ParseInput(input', StrLen(input')))

\* read_terminal_input with count = MAX_INPUT_LENGTH: copy_len =
\* min(count, input_len) bytes are copied to input, the buffer is cleared
\* and is_input_ready reset; then the rest of the loop body.
ReadLine(copy) ==
    /\ ready' = FALSE /\ buf' = Cleared /\ len' = 0
    /\ IF copy > 0
       THEN ShellLine([j \in Idx |-> IF j = copy - 1 THEN NUL
                                     ELSE IF j < copy THEN buf[j] ELSE input[j]])
       ELSE /\ last' = "read_error"
            /\ UNCHANGED <<input, parsed, status>>

\* while (status): the read returns once is_input_ready holds.
ShellRead ==
    /\ status # 0 /\ ready
    /\ ReadLine(IF B > len THEN len ELSE B)
    /\ UNCHANGED kbd

Next ==
    \/ \E sc \in ScanCodes : KeyRelease(sc) \/ KeyModifier(sc) \/ KeyBackspace(sc)
                            \/ KeyChar(sc)
    \/ ShellRead

Spec == Init /\ [][Next]_vars

-----------------------------------------------------------------------------
(* Properties.                                                             *)

TypeOKTerminal ==
    /\ kbd \in [Flags -> 0..1]
    /\ buf \in [Idx -> Chars] /\ len \in 0..B /\ ready \in BOOLEAN
    /\ input \in [Idx -> Chars]
    /\ parsed \in [n : 0..B, i : 0..B, argc : 0..MaxArgs, pos : 0..(B + 1), args : Seq(Seq(Chars))]
    /\ last \in {"none", "read_error", "empty", "unknown"} \cup Range(CommandNames)
    /\ status \in {0, 1}

\* The words of a line, defined without the loop: the maximal runs of
\* non-space characters, left to right.
WordStarts(s) == {i \in 1..Len(s) : ~IsSpace(s[i]) /\ (i = 1 \/ IsSpace(s[i - 1]))}
WordAt(s, i) == SubSeq(s, i, Min({j \in i..(Len(s) + 1) : j = Len(s) + 1 \/ IsSpace(s[j])}) - 1)
Words(s) == LET st == SetToSortSeq(WordStarts(s), <) IN [k \in 1..Len(st) |-> WordAt(s, st[k])]

\* The line a read stands for: the first len bytes of input_buf without the
\* last one, up to the first NUL.
LineOf(b, n) == LET t == [k \in 1..(n - 1) |-> b[k - 1]]
                    k == SelectInSeq(t, LAMBDA c : c = NUL)
                IN IF k = 0 THEN t ELSE SubSeq(t, 1, k - 1)

\* parse_input stays inside its arrays: strlen finds the NUL that
\* start_shell wrote at input[len-1] inside input[], the copies and NULs
\* written to arg_buffer end at or before index MAX_INPUT_LENGTH - 1 (an
\* exact fit when the line is one word of MAX_INPUT_LENGTH - 1 characters),
\* and args[arg_count] = NULL is written below MAX_ARGS.
ParseInBounds ==
    /\ parsed.n < B
    /\ parsed.pos <= B
    /\ parsed.argc < MaxArgs

\* A read that returns a line leaves in args exactly the first
\* MAX_ARGS - 1 whitespace-separated words of what was typed into
\* input_buf, less the byte start_shell cuts: nothing of an earlier, longer
\* line left in the persistent input[] leaks in, and no word is lost, split
\* or merged by the parsing loop.
ArgsAreWords(w) == parsed'.args = SubSeq(w, 1, IF Len(w) < MaxArgs - 1 THEN Len(w) ELSE MaxArgs - 1)
ParseMatchesWords ==
    [][ready /\ ~ready' /\ len > 0 => ArgsAreWords(Words(LineOf(buf, len)))]_vars

====
