------------------------------ MODULE Terminal ------------------------------
(***************************************************************************)
(* The line discipline: terminal_read (terminal.c) and its polling loop    *)
(* keyboard_wait_for_new_line (keyboard.c) on one side, the keyboard       *)
(* interrupt that edits the displayed terminal's buffer on the other.      *)
(*                                                                         *)
(* Every terminal has one thread of control, the active program of its     *)
(* process tree; a thread can be preempted, and the keyboard can interrupt *)
(* it, between any two of its steps.  A character is represented by the    *)
(* terminal at which it was typed, which is all the properties tell apart. *)
(* The echo on the screen and the history (which nothing reads) are left   *)
(* out.                                                                    *)
(***************************************************************************)
EXTENDS Integers, Sequences

CONSTANTS
    Terms,        \* terminal_list indices
    Readers,      \* the terminals whose programs read; the others are typed on
    BUFFER_SIZE,  \* 128 in terminal.h
    ReadSizes     \* the nbytes arguments of the reads

NL  == "nl"
NUL == "nul"

ASSUME TerminalAssumption ==
    /\ BUFFER_SIZE \in Nat /\ BUFFER_SIZE > 1
    /\ ReadSizes \subseteq Nat
    /\ Readers \subseteq Terms
    /\ NL \notin Terms /\ NUL \notin Terms

VARIABLES
    current_terminal_index,  \* the displayed terminal
    input,                   \* terminal -> line[0 .. input_pointer - 1] being edited
    previous_input,          \* terminal -> the last complete line
    state,                   \* terminal -> IDLE, READ, DONE_READ
    thread,                  \* terminal -> where its program is in terminal_read
    entered,                 \* history: terminal -> line ended while its read waited
    calm                     \* history: terminal -> nothing happened since then
                             \* that the read should not care about

lines   == <<input, previous_input, state>>
history == <<entered, calm>>
vars    == <<current_terminal_index, lines, thread, history>>

Chars == Terms \cup {NL, NUL}
Array == [1 .. BUFFER_SIZE -> Chars]

\* terminal_line: the whole array is there, also beyond input_pointer
Lines == [input_pointer : 0 .. BUFFER_SIZE, line : Array]

Points == {"run", "entered", "armed", "wait", "body", "copy", "done"}

\* got: the value of keyboard_wait_for_new_line; by: how it ended; out: buf
Threads == [at : Points, nbytes : Nat, old : 0 .. BUFFER_SIZE, got : Nat,
            by : {"newline", "count"}, out : Seq(Chars)]

Init ==
    /\ current_terminal_index \in Terms
    /\ input = [t \in Terms |-> <<>>]
    /\ previous_input = [t \in Terms |->
          [input_pointer |-> 0, line |-> [i \in 1 .. BUFFER_SIZE |-> NUL]]]
    /\ state = [t \in Terms |-> "IDLE"]
    /\ thread = [t \in Terms |-> [at |-> "run", nbytes |-> 0, old |-> 0,
                                  got |-> 0, by |-> "count", out |-> <<>>]]
    /\ entered = [t \in Terms |-> <<>>]
    /\ calm = [t \in Terms |-> FALSE]

-----------------------------------------------------------------------------
(* terminal_read by the program of terminal t = get_executing_terminal()   *)

\* Up to the clipping of nbytes; a read of no bytes returns at once
ReadEnter(t, nbytes) ==
    /\ thread[t].at \in {"run", "done"}
    /\ nbytes > 0
    /\ thread' = [thread EXCEPT ![t] =
          [at |-> "entered", old |-> 0, got |-> 0, by |-> "count", out |-> <<>>,
           nbytes |-> IF nbytes > BUFFER_SIZE THEN BUFFER_SIZE ELSE nbytes]]
    /\ UNCHANGED <<current_terminal_index, lines, history>>

\* Mutant: the state of an earlier line is not reset
ReadArm_KeepState(t) ==
    /\ thread[t].at = "entered"
    /\ entered' = [entered EXCEPT ![t] = <<NUL>>]
    /\ calm' = [calm EXCEPT ![t] = FALSE]
    /\ thread' = [thread EXCEPT ![t].at = "armed"]
    /\ UNCHANGED <<current_terminal_index, lines>>

ReadArm(t) ==
    /\ thread[t].at = "entered"
    /\ state' = [state EXCEPT ![t] = "READ"]
    /\ entered' = [entered EXCEPT ![t] = <<NUL>>]      \* no line yet
    /\ calm' = [calm EXCEPT ![t] = FALSE]
    /\ thread' = [thread EXCEPT ![t].at = "armed"]
    /\ UNCHANGED <<current_terminal_index, input, previous_input>>

\* keyboard_wait_for_new_line samples the input pointer
WaitStart(t) ==
    /\ thread[t].at = "armed"
    /\ thread' = [thread EXCEPT ![t].at = "wait", ![t].old = Len(input[t])]
    /\ UNCHANGED <<current_terminal_index, lines, history>>

\* It returns got; its local old is dead, here 0
Waited(t, by, got) ==
    [thread[t] EXCEPT !.at = "copy", !.by = by, !.got = got, !.old = 0]

\* The condition of its while loop
WaitCount(t) ==
    /\ thread[t].at = "wait"
    /\ thread' = [thread EXCEPT ![t] =
          IF thread[t].old > Len(input[t]) - thread[t].nbytes
          THEN [thread[t] EXCEPT !.at = "body"]
          ELSE Waited(t, "count", thread[t].nbytes)]
    /\ UNCHANGED <<current_terminal_index, lines, history>>

\* The line that get_last_terminal_line hands out: the displayed terminal's
last_terminal_line == previous_input[current_terminal_index]

\* Mutant: the test on the input pointer is inverted
WaitNewline_Inverted(t) ==
    /\ thread[t].at = "body"
    /\ thread' = [thread EXCEPT ![t] =
          IF state[t] = "DONE_READ" /\ Len(input[t]) >= BUFFER_SIZE - 1
          THEN Waited(t, "newline", last_terminal_line.input_pointer)
          ELSE [thread[t] EXCEPT !.at = "wait"]]
    /\ UNCHANGED <<current_terminal_index, lines, history>>

\* Its body
WaitNewline(t) ==
    /\ thread[t].at = "body"
    /\ thread' = [thread EXCEPT ![t] =
          IF state[t] = "DONE_READ" /\ Len(input[t]) < BUFFER_SIZE - 1
          THEN Waited(t, "newline", last_terminal_line.input_pointer)
          ELSE [thread[t] EXCEPT !.at = "wait"]]
    /\ UNCHANGED <<current_terminal_index, lines, history>>

\* One byte of the copy to buf
CopyByte(t) ==
    LET j == Len(thread[t].out) IN
    /\ thread[t].at = "copy"
    /\ j < thread[t].got - 1
    /\ thread' = [thread EXCEPT ![t].out = Append(@, last_terminal_line.line[j + 1])]
    /\ UNCHANGED <<current_terminal_index, lines, history>>

ReadReturn(t) ==
    /\ thread[t].at = "copy"
    /\ Len(thread[t].out) >= thread[t].got - 1
    /\ state' = [state EXCEPT ![t] = "IDLE"]
    /\ thread' = [thread EXCEPT ![t].at = "done", ![t].got = 0]
    /\ UNCHANGED <<current_terminal_index, input, previous_input, history>>

-----------------------------------------------------------------------------
(* The keyboard interrupt: process_keypress, which edits the buffer of the *)
(* displayed terminal t                                                    *)

Reading(t) == thread[t].at \in {"armed", "wait", "body", "copy"}

\* Mutant: the buffer's last byte is used too
BufferFull_OffByOne(t) == Len(input[t]) >= BUFFER_SIZE

\* terminal_add_to_buffer drops what does not fit, Enter included
BufferFull(t) == Len(input[t]) >= BUFFER_SIZE - 1

KeyChar ==
    LET t == current_terminal_index IN
    /\ ~BufferFull(t)
    /\ input' = [input EXCEPT ![t] = Append(@, t)]
    /\ UNCHANGED <<current_terminal_index, previous_input, state, thread, history>>

\* Mutant: input_pointer is reset before the line is copied
terminal_copy_to_history_Late(t) ==
    previous_input' = [previous_input EXCEPT ![t].input_pointer = 0]

\* terminal_copy_to_history overwrites the beginning of previous_input
terminal_copy_to_history(t) ==
    LET new == Append(input[t], NL) IN
    previous_input' = [previous_input EXCEPT ![t] =
        [input_pointer |-> Len(new),
         line |-> [i \in 1 .. BUFFER_SIZE |->
                      IF i <= Len(new) THEN new[i] ELSE @.line[i]]]]

KeyEnter ==
    LET t == current_terminal_index IN
    /\ ~BufferFull(t)
    /\ terminal_copy_to_history(t)
    /\ state' = [state EXCEPT ![t] = "DONE_READ"]
    /\ input' = [input EXCEPT ![t] = <<>>]
    /\ entered' = IF Reading(t) /\ state[t] = "READ"
                  THEN [entered EXCEPT ![t] = input[t]] ELSE entered
    /\ calm' = [u \in Terms |-> IF u = t THEN Reading(t) /\ state[t] = "READ" ELSE calm[u]]
    /\ UNCHANGED <<current_terminal_index, thread>>

\* terminal_backspace
KeyBackspace ==
    LET t == current_terminal_index IN
    /\ Len(input[t]) > 0
    /\ input' = [input EXCEPT ![t] = SubSeq(@, 1, Len(@) - 1)]
    /\ UNCHANGED <<current_terminal_index, previous_input, state, thread, history>>

\* Alt-Fn
set_current_terminal(t) ==
    /\ t # current_terminal_index
    /\ current_terminal_index' = t
    /\ calm' = [u \in Terms |-> FALSE]
    /\ UNCHANGED <<lines, thread, entered>>

-----------------------------------------------------------------------------
ThreadStep(t) ==
    \/ ReadArm(t) \/ WaitStart(t) \/ WaitCount(t) \/ WaitNewline(t)
    \/ CopyByte(t) \/ ReadReturn(t)

Keyboard ==
    \/ KeyChar \/ KeyEnter \/ KeyBackspace
    \/ \E t \in Terms : set_current_terminal(t)

Next ==
    \/ \E t \in Readers : ThreadStep(t) \/ \E n \in ReadSizes : ReadEnter(t, n)
    \/ Keyboard

Spec == Init /\ [][Next]_vars

\* The scheduler lets every terminal's thread run (Sched, EveryTreeRuns)
FairSpec == Spec /\ \A t \in Readers : WF_vars(ThreadStep(t))

-----------------------------------------------------------------------------
\* Buffers keep their bounds: the line being edited leaves room for one more
\* byte, so a complete line fits the array, and a read never copies more than
\* BUFFER_SIZE bytes.
TypeOK ==
    /\ current_terminal_index \in Terms
    /\ input \in [Terms -> Seq(Chars)]
    /\ \A t \in Terms : Len(input[t]) <= BUFFER_SIZE - 1
    /\ previous_input \in [Terms -> Lines]
    /\ state \in [Terms -> {"IDLE", "READ", "DONE_READ"}]
    /\ thread \in [Terms -> Threads]
    /\ \A t \in Terms : Len(thread[t].out) < BUFFER_SIZE
    /\ entered \in [Terms -> Seq(Chars)]
    /\ calm \in [Terms -> BOOLEAN]

\* A read that ends with a newline returns exactly the line that was being
\* typed when Enter was pressed, typed-ahead characters included, if the line
\* fits the nbytes that were asked for and if between Enter and the return of
\* terminal_read there was no second Enter and no Alt-Fn.
ReadReturnsLine ==
    \A t \in Terms :
        thread[t].at = "done" /\ thread[t].by = "newline" /\ calm[t]
                              /\ Len(entered[t]) <= thread[t].nbytes
            => thread[t].out = entered[t]

\* A read that ends with a newline was ended by an Enter on its own terminal
\* after it set TERMINAL_READ: the mark that an earlier Enter has left cannot
\* end it.  (Which bytes it returns is for ReadReturnsLine to say, and for a read
\* that the count ends nothing is claimed.)
NoStaleLine ==
    \A t \in Terms :
        thread[t].at = "done" /\ thread[t].by = "newline" => entered[t] # <<NUL>>

\* Once Enter has marked the terminal as done, the read returns, or the user
\* has filled the buffer again before the read looked at it.
LineDelivered ==
    \A t \in Terms :
        (thread[t].at \in {"wait", "body"} /\ state[t] = "DONE_READ")
            ~> (thread[t].at = "done" \/ BufferFull(t))

-----------------------------------------------------------------------------
(* What the code's comments promise of a read and terminal_read breaks:    *)
(* a run of its own refutes the first, TLC also the others.                *)

\* A read returns no byte that was typed on another terminal.
ReadsOwnTerminal ==
    \A t \in Terms :
        thread[t].at = "done" /\ thread[t].by = "newline"
            => \A i \in DOMAIN thread[t].out : thread[t].out[i] \notin Terms \ {t}

\* A read stores no more than the nbytes it was asked for.
ReadFitsBuffer == \A t \in Terms : Len(thread[t].out) <= thread[t].nbytes

\* A read that max_chars characters have ended returns characters that were typed.
ReadReturnsTyped ==
    \A t \in Terms :
        thread[t].at = "done" /\ thread[t].by = "count"
            => \A i \in DOMAIN thread[t].out : thread[t].out[i] # NUL
=============================================================================
