------------------------------ MODULE CmdLine ------------------------------
(***************************************************************************)
(* The command line of execute: how do_execute cuts it into the program's  *)
(* name and its arguments, and what do_getargs hands out of them.          *)
(*                                                                         *)
(* Text is a sequence of characters.  A command lies in a buffer that held *)
(* other lines before: memory is the buffer from the command's first       *)
(* character on, and what follows it is zero.  Words fit their buffers (31 *)
(* and 127 characters): the code does not check that they do.              *)
(***************************************************************************)
EXTENDS Integers, Sequences

NUL   == "NUL"
NL    == "NL"
SPACE == " "
Ends  == {NUL, NL}

Char(memory, i) == IF i <= Len(memory) THEN memory[i] ELSE NUL

\* The first place from i on that satisfies Test
Find(memory, i, Test(_)) ==
    LET found == {j \in i .. Len(memory) + 1 : Test(Char(memory, j))}
    IN  CHOOSE j \in found : \A k \in found : j <= k

NotSpace(c)   == c # SPACE
IsNul(c)      == c = NUL
IsEnd(c)      == c \in Ends
SpaceOrEnd(c) == c \in Ends \cup {SPACE}

(***************************************************************************)
(* One iteration of the loop of do_execute.  After a run of spaces it      *)
(* copies the next character without looking whether it is the end of the  *)
(* line.                                                                   *)
(***************************************************************************)
parse_round(memory, s) ==
    LET i     == Find(memory, s.i, NotSpace)
        gap   == i # s.i
        got   == s.gotProgramName \/ gap
        space == IF gap /\ s.gotProgramName THEN <<SPACE>> ELSE <<>>
        copy  == <<Char(memory, i)>>
    IN  IF Char(memory, s.i) \in Ends THEN s
        ELSE [i |-> i + 1,
              gotProgramName |-> got,
              programName |-> IF got THEN s.programName ELSE s.programName \o copy,
              argsBuffer  |-> IF got THEN s.argsBuffer \o space \o copy ELSE s.argsBuffer]

\* The state of the loop after each of its iterations
parse_loop(memory) ==
    LET loop[n \in 0 .. Len(memory) + 1] ==
            IF n = 0
            THEN [i |-> 1, programName |-> <<>>, argsBuffer |-> <<>>, gotProgramName |-> FALSE]
            ELSE parse_round(memory, loop[n - 1])
    IN  loop

\* Mutant: every space is copied
do_execute_parse_AllSpaces(memory) ==
    LET gap == Find(memory, 1, SpaceOrEnd)
        end == Find(memory, 1, IsEnd)
    IN  [programName |-> SubSeq(memory, 1, gap - 1),
         argsBuffer  |-> SubSeq(memory, gap + 1, end - 1) \o <<NUL>>]

do_execute_parse(memory) ==
    LET end == parse_loop(memory)[Len(memory) + 1]
    IN  [programName |-> end.programName, argsBuffer |-> Append(end.argsBuffer, NUL)]

\* do_getargs: the length is compared with nbytes - 1 for equality
do_getargs(args, nbytes) ==
    LET nul  == Find(args, 1, IsNul) - 1
        size == IF nul < nbytes THEN nul ELSE nbytes
    IN  IF size = nbytes - 1 THEN [ret |-> -1, buf |-> <<>>]
        ELSE [ret |-> 0, buf |-> [i \in 1 .. size + 1 |-> Char(args, i)]]

-----------------------------------------------------------------------------
(* The reference: what a command line means                                *)

\* The characters before the end of the line
TextOf(memory) == SubSeq(memory, 1, Find(memory, 1, IsEnd) - 1)

\* The line does not end with a space before a newline
Plain(memory) ==
    LET text == TextOf(memory)
    IN  Char(memory, Len(text) + 1) = NL => text = <<>> \/ text[Len(text)] # SPACE

\* The first word
ProgramOf(memory) ==
    LET text == TextOf(memory)
    IN  SubSeq(text, 1, Find(text, 1, SpaceOrEnd) - 1)

\* The first i characters of text without the ones up to gap and without every
\* space that follows a space, for each i
Squeezed(text, gap) ==
    LET kept[i \in 0 .. Len(text)] ==
            IF i <= gap THEN <<>>
            ELSE IF text[i] = SPACE /\ text[i - 1] = SPACE THEN kept[i - 1]
            ELSE Append(kept[i - 1], text[i])
    IN  kept

\* The rest, without its leading spaces and with one space for several
ArgumentsOf(memory) ==
    LET text == TextOf(memory)
    IN  Squeezed(text, Len(ProgramOf(memory)) + 1)[Len(text)]
=============================================================================
