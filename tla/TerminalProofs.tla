--------------------------- MODULE TerminalProofs ---------------------------
(***************************************************************************)
(* Proofs about the line discipline, for any number of terminals, any      *)
(* buffer and any sizes of the reads.                                      *)
(***************************************************************************)
EXTENDS Terminal, SequenceTheorems, TLAPS

-----------------------------------------------------------------------------
(* The inductive invariant                                                 *)

\* What the user types: the characters of the terminals, so NUL in entered means
\* that no line has been entered
ITyped == input \in [Terms -> Seq(Terms)]

\* The bounds of a read, and what it has before it copies
IBounds(t) ==
    /\ thread[t].nbytes <= BUFFER_SIZE
    /\ thread[t].got <= BUFFER_SIZE
    /\ thread[t].at \notin {"copy", "done"} => thread[t].out = <<>> /\ thread[t].by = "count"

\* While a read is armed, its terminal is done only if a line has been entered
\* since, and a read that a newline has ended is on a terminal that is done.
IDone(t) ==
    /\ Reading(t) => state[t] \in {"READ", "DONE_READ"}
    /\ Reading(t) /\ state[t] = "DONE_READ" => entered[t] # <<NUL>>
    /\ thread[t].at = "copy" /\ thread[t].by = "newline" => state[t] = "DONE_READ"
    /\ thread[t].at \in {"copy", "done"} /\ thread[t].by = "newline" => entered[t] # <<NUL>>

\* previous_input of terminal t begins with the line and ends with its newline
Holds(t, line) ==
    /\ previous_input[t].input_pointer = Len(line) + 1
    /\ \A i \in 1 .. Len(line) : previous_input[t].line[i] = line[i]

\* While nothing has disturbed a read since Enter, its terminal is the displayed
\* one, previous_input holds the line, and what has been copied is its beginning.
Undisturbed(t) ==
    /\ current_terminal_index = t
    /\ Reading(t) => state[t] = "DONE_READ" /\ Holds(t, entered[t])
    /\ thread[t].at = "copy" /\ thread[t].by = "newline" =>
          /\ thread[t].got = Len(entered[t]) + 1
          /\ Len(thread[t].out) <= Len(entered[t])
          /\ \A i \in 1 .. Len(thread[t].out) : thread[t].out[i] = entered[t][i]
    /\ thread[t].at = "done" /\ thread[t].by = "newline" => thread[t].out = entered[t]

ICalm(t) == calm[t] => Undisturbed(t)

IRead(t) == IBounds(t) /\ IDone(t) /\ ICalm(t)

IInv == TypeOK /\ ITyped /\ \A t \in Terms : IRead(t)

-----------------------------------------------------------------------------
(* terminal_read                                                           *)

\* A step of the thread of terminal t, which leaves the other terminals, the lines
\* and the display alone
LEMMA ThreadKeeps ==
    ASSUME IInv, NEW t \in Terms, NEW r \in Threads, Len(r.out) < BUFFER_SIZE,
           thread' = [thread EXCEPT ![t] = r],
           UNCHANGED <<current_terminal_index, input, previous_input>>,
           state' \in [Terms -> {"IDLE", "READ", "DONE_READ"}],
           entered' \in [Terms -> Seq(Chars)],
           calm' \in [Terms -> BOOLEAN],
           \A u \in Terms \ {t} :
              state'[u] = state[u] /\ entered'[u] = entered[u] /\ calm'[u] = calm[u],
           IRead(t)'
    PROVE  IInv'
<1>1. thread \in [Terms -> Threads] /\ thread' \in [Terms -> Threads] /\ thread'[t] = r
      /\ \A u \in Terms \ {t} : thread'[u] = thread[u]
  BY DEF IInv, TypeOK
<1>2. TypeOK'
  <2>1. \A u \in Terms : Len(thread'[u].out) < BUFFER_SIZE
    BY <1>1 DEF IInv, TypeOK
  <2> QED
    BY <1>1, <2>1 DEF IInv, TypeOK
<1>3. ITyped'
  BY DEF IInv, ITyped
<1>4. ASSUME NEW u \in Terms \ {t} PROVE IRead(u)'
  <2>1. /\ thread'[u] = thread[u] /\ state'[u] = state[u]
        /\ entered'[u] = entered[u] /\ calm'[u] = calm[u]
        /\ IRead(u)
    BY <1>1 DEF IInv
  <2>2. IBounds(u)'
    BY <2>1 DEF IRead, IBounds
  <2>3. IDone(u)'
    BY <2>1 DEF IRead, IDone, Reading
  <2>4. ICalm(u)'
    <3>1. Undisturbed(u) => Undisturbed(u)'
      BY <2>1 DEF Undisturbed, Reading, Holds
    <3> QED
      BY <2>1, <3>1 DEF IRead, ICalm
  <2> QED
    BY <2>2, <2>3, <2>4 DEF IRead
<1> QED
  BY <1>2, <1>3, <1>4 DEF IInv

\* The fields of a thread
LEMMA ThreadFields ==
    ASSUME IInv, NEW t \in Terms
    PROVE  /\ thread[t] \in Threads
           /\ thread[t].at \in Points /\ thread[t].nbytes \in Nat
           /\ thread[t].old \in 0 .. BUFFER_SIZE /\ thread[t].got \in Nat
           /\ thread[t].by \in {"newline", "count"} /\ thread[t].out \in Seq(Chars)
           /\ Len(thread[t].out) \in Nat /\ Len(thread[t].out) < BUFFER_SIZE
           /\ IRead(t)
<1>1. thread[t] \in Threads /\ Len(thread[t].out) < BUFFER_SIZE /\ IRead(t)
  BY DEF IInv, TypeOK
<1>2. /\ thread[t].at \in Points /\ thread[t].nbytes \in Nat
      /\ thread[t].old \in 0 .. BUFFER_SIZE /\ thread[t].got \in Nat
      /\ thread[t].by \in {"newline", "count"} /\ thread[t].out \in Seq(Chars)
  BY <1>1 DEF Threads
<1> QED
  BY <1>1, <1>2

\* A step that changes nothing but the thread
LEMMA OnlyThread ==
    ASSUME IInv, NEW t \in Terms, NEW r \in Threads, Len(r.out) < BUFFER_SIZE,
           thread' = [thread EXCEPT ![t] = r],
           UNCHANGED <<current_terminal_index, lines, history>>,
           IRead(t)'
    PROVE  IInv'
<1>1. UNCHANGED <<current_terminal_index, input, previous_input, state, entered, calm>>
  BY DEF lines, history
<1>2. /\ state' \in [Terms -> {"IDLE", "READ", "DONE_READ"}]
      /\ entered' \in [Terms -> Seq(Chars)]
      /\ calm' \in [Terms -> BOOLEAN]
  BY <1>1 DEF IInv, TypeOK
<1> QED
  BY <1>1, <1>2, ThreadKeeps

\* terminal_read clips the count; the read of before is forgotten.
LEMMA EnterInv ==
    ASSUME IInv, NEW t \in Terms, NEW n \in ReadSizes, ReadEnter(t, n)
    PROVE  IInv'
<1> DEFINE r == [at |-> "entered", old |-> 0, got |-> 0, by |-> "count", out |-> <<>>,
                 nbytes |-> IF n > BUFFER_SIZE THEN BUFFER_SIZE ELSE n]
<1>1. BUFFER_SIZE \in Nat /\ BUFFER_SIZE > 1 /\ n \in Nat
  BY TerminalAssumption
<1>2. r \in Threads /\ Len(r.out) = 0 /\ r.nbytes <= BUFFER_SIZE
      /\ r.got = 0 /\ r.at = "entered" /\ r.by = "count" /\ r.out = <<>>
  BY <1>1 DEF Threads, Points
<1>3. thread' = [thread EXCEPT ![t] = r] /\ UNCHANGED <<current_terminal_index, lines, history>>
  BY DEF ReadEnter
<1> HIDE DEF r
<1>4. thread'[t] = r
  BY <1>3 DEF IInv, TypeOK
<1>5. IRead(t)'
  <2>1. IBounds(t)' /\ IDone(t)'
    BY <1>1, <1>2, <1>4 DEF IBounds, IDone, Reading
  <2>2. Undisturbed(t) => Undisturbed(t)'
    BY <1>2, <1>3, <1>4 DEF Undisturbed, Reading
  <2>3. ICalm(t)'
    BY <1>3, <2>2 DEF ICalm, IInv, IRead, history
  <2> QED
    BY <2>1, <2>3 DEF IRead
<1>6. Len(r.out) < BUFFER_SIZE
  BY <1>1, <1>2
<1> QED
  BY <1>2, <1>3, <1>5, <1>6, OnlyThread

\* TERMINAL_READ is set: a line entered before does not count.
LEMMA ArmInv == ASSUME IInv, NEW t \in Terms, ReadArm(t) PROVE IInv'
<1> DEFINE r == [thread[t] EXCEPT !.at = "armed"]
<1>1. /\ thread[t].at = "entered"
      /\ thread' = [thread EXCEPT ![t] = r]
      /\ state' = [state EXCEPT ![t] = "READ"]
      /\ entered' = [entered EXCEPT ![t] = <<NUL>>]
      /\ calm' = [calm EXCEPT ![t] = FALSE]
      /\ UNCHANGED <<current_terminal_index, input, previous_input>>
  BY DEF ReadArm
<1>2. /\ r \in Threads /\ Len(r.out) < BUFFER_SIZE
      /\ r.at = "armed" /\ r.nbytes <= BUFFER_SIZE /\ r.got <= BUFFER_SIZE
      /\ r.out = <<>> /\ r.by = "count"
  BY <1>1, ThreadFields DEF Threads, Points, IRead, IBounds
<1> HIDE DEF r
<1>3. <<NUL>> \in Seq(Chars)
  BY DEF Chars
<1>4. /\ state' \in [Terms -> {"IDLE", "READ", "DONE_READ"}]
      /\ entered' \in [Terms -> Seq(Chars)]
      /\ calm' \in [Terms -> BOOLEAN]
      /\ state'[t] = "READ" /\ ~calm'[t] /\ thread'[t] = r
      /\ \A u \in Terms \ {t} :
            state'[u] = state[u] /\ entered'[u] = entered[u] /\ calm'[u] = calm[u]
  BY <1>1, <1>3 DEF IInv, TypeOK
<1>5. IRead(t)'
  BY <1>2, <1>4 DEF IRead, IBounds, IDone, ICalm, Reading
<1> QED
  BY <1>1, <1>2, <1>4, <1>5, ThreadKeeps

\* The polling loop until it ends: the input pointer is sampled, the condition of
\* the loop holds, its body finds no line
LEMMA PollInv ==
    ASSUME IInv, NEW t \in Terms, NEW point \in {"wait", "body"}, NEW old \in 0 .. BUFFER_SIZE,
           thread[t].at \in {"armed", "wait", "body"},
           thread' = [thread EXCEPT ![t] = [thread[t] EXCEPT !.at = point, !.old = old]],
           UNCHANGED <<current_terminal_index, lines, history>>
    PROVE  IInv'
<1> DEFINE r == [thread[t] EXCEPT !.at = point, !.old = old]
<1>1. /\ r \in Threads /\ Len(r.out) < BUFFER_SIZE
      /\ r.at = point /\ r.nbytes <= BUFFER_SIZE /\ r.got <= BUFFER_SIZE
      /\ r.out = <<>> /\ r.by = "count"
  BY ThreadFields DEF Threads, Points, IRead, IBounds
<1>2. thread' = [thread EXCEPT ![t] = r]
  OBVIOUS
<1> HIDE DEF r
<1>3. thread'[t] = r
  BY <1>2 DEF IInv, TypeOK
<1>4. UNCHANGED <<current_terminal_index, input, previous_input, state, entered, calm>>
  BY DEF lines, history
<1>5. IRead(t)'
  <2>1. IBounds(t)'
    BY <1>1, <1>3 DEF IBounds
  <2>2. IDone(t)'
    BY <1>1, <1>3, <1>4, ThreadFields DEF IRead, IDone, Reading
  <2>3. Undisturbed(t) => Undisturbed(t)'
    BY <1>1, <1>3, <1>4 DEF Undisturbed, Reading, Holds
  <2>4. ICalm(t)'
    BY <1>4, <2>3, ThreadFields DEF IRead, ICalm
  <2> QED
    BY <2>1, <2>2, <2>4 DEF IRead
<1> QED
  BY <1>1, <1>2, <1>5, OnlyThread

\* keyboard_wait_for_new_line begins.
LEMMA StartInv == ASSUME IInv, NEW t \in Terms, WaitStart(t) PROVE IInv'
<1>1. Len(input[t]) \in 0 .. BUFFER_SIZE
  BY TerminalAssumption DEF IInv, TypeOK
<1>2. /\ thread[t].at = "armed"
      /\ thread' = [thread EXCEPT ![t] = [thread[t] EXCEPT !.at = "wait", !.old = Len(input[t])]]
      /\ UNCHANGED <<current_terminal_index, lines, history>>
  BY DEF WaitStart, IInv, TypeOK
<1> QED
  BY <1>1, <1>2, PollInv

\* The loop ends: with the count, or with a newline, and then got is the length of
\* the displayed terminal's line.
LEMMA EndInv ==
    ASSUME IInv, NEW t \in Terms, thread[t].at \in {"wait", "body"},
           NEW by \in {"count", "newline"}, NEW got \in Nat, got <= BUFFER_SIZE,
           by = "newline" => state[t] = "DONE_READ" /\ got = last_terminal_line.input_pointer,
           thread' = [thread EXCEPT ![t] = Waited(t, by, got)],
           UNCHANGED <<current_terminal_index, lines, history>>
    PROVE  IInv'
<1> DEFINE r == Waited(t, by, got)
<1>1. /\ r \in Threads /\ Len(r.out) < BUFFER_SIZE
      /\ r.at = "copy" /\ r.nbytes <= BUFFER_SIZE /\ r.got = got
      /\ r.out = <<>> /\ r.by = by
  <2>1. /\ thread[t] \in Threads /\ thread[t].out = <<>> /\ Len(thread[t].out) < BUFFER_SIZE
        /\ thread[t].out \in Seq(Chars)
    BY ThreadFields DEF IRead, IBounds
  <2>2. /\ r.at = "copy" /\ r.by = by /\ r.got = got /\ r.old = 0
        /\ r.nbytes = thread[t].nbytes /\ thread[t].nbytes <= BUFFER_SIZE
        /\ r.out = thread[t].out
    BY <2>1, ThreadFields DEF Waited, Threads, IRead, IBounds
  <2>3. r \in Threads
    <3>1. 0 \in 0 .. BUFFER_SIZE /\ 0 \in Nat /\ "copy" \in Points
      BY TerminalAssumption DEF Points
    <3> DEFINE r1 == [thread[t] EXCEPT !.at = "copy", !.by = by]
               r2 == [r1 EXCEPT !.got = got, !.old = 0]
    <3>2. r1 \in Threads
      BY <2>1, <3>1 DEF Threads
    <3>3. r = r2
      BY Zenon DEF Waited
    <3> HIDE DEF r1
    <3>4. r2 \in Threads
      BY <3>1, <3>2 DEF Threads
    <3> QED
      BY <3>3, <3>4
  <2> QED
    BY <2>1, <2>2, <2>3, TerminalAssumption
<1>2. thread' = [thread EXCEPT ![t] = r]
  OBVIOUS
<1> HIDE DEF r
<1>3. thread'[t] = r
  BY <1>2 DEF IInv, TypeOK
<1>4. UNCHANGED <<current_terminal_index, input, previous_input, state, entered, calm>>
  BY DEF lines, history
<1>5. IRead(t)'
  <2>1. IBounds(t)'
    BY <1>1, <1>3 DEF IBounds
  <2>2. IDone(t)'
    BY <1>1, <1>3, <1>4, ThreadFields DEF IRead, IDone, Reading
  <2>3. Undisturbed(t) => Undisturbed(t)'
    <3> SUFFICES ASSUME Undisturbed(t) PROVE Undisturbed(t)'
      OBVIOUS
    <3>1. Holds(t, entered[t]) /\ current_terminal_index = t /\ state[t] = "DONE_READ"
      BY DEF Undisturbed, Reading
    <3>2. by = "newline" => got = Len(entered[t]) + 1
      BY <3>1 DEF Holds, last_terminal_line
    <3>3. Holds(t, entered[t])'
      BY <1>4, <3>1 DEF Holds
    <3>4. Len(r.out) <= Len(entered[t]) /\ Len(r.out) = 0
      BY <1>1 DEF IInv, TypeOK
    <3> QED
      BY <1>1, <1>3, <1>4, <3>1, <3>2, <3>3, <3>4 DEF Undisturbed, Reading
  <2>4. ICalm(t)'
    BY <1>4, <2>3, ThreadFields DEF IRead, ICalm
  <2> QED
    BY <2>1, <2>2, <2>4 DEF IRead
<1> QED
  BY <1>1, <1>2, <1>5, OnlyThread

\* A turn of the polling loop
LEMMA WaitInv == ASSUME IInv, NEW t \in Terms, WaitCount(t) \/ WaitNewline(t) PROVE IInv'
<1>1. /\ thread[t].at \in {"wait", "body"} /\ thread[t].old \in 0 .. BUFFER_SIZE
      /\ thread[t].nbytes \in Nat /\ thread[t].nbytes <= BUFFER_SIZE
      /\ UNCHANGED <<current_terminal_index, lines, history>>
  BY ThreadFields DEF WaitCount, WaitNewline, IRead, IBounds
<1>2. last_terminal_line.input_pointer \in Nat /\ last_terminal_line.input_pointer <= BUFFER_SIZE
  BY TerminalAssumption DEF IInv, TypeOK, Lines, last_terminal_line
<1>3. CASE \/ thread' = [thread EXCEPT ![t] = [thread[t] EXCEPT !.at = "body"]]
           \/ thread' = [thread EXCEPT ![t] = [thread[t] EXCEPT !.at = "wait"]]
  <2>1. PICK point \in {"wait", "body"} :
           thread' = [thread EXCEPT ![t] = [thread[t] EXCEPT !.at = point]]
    BY <1>3
  <2>2. [thread[t] EXCEPT !.at = point] = [thread[t] EXCEPT !.at = point, !.old = thread[t].old]
    BY ThreadFields DEF Threads
  <2> QED
    BY <1>1, <2>1, <2>2, PollInv
<1>4. CASE thread' = [thread EXCEPT ![t] = Waited(t, "count", thread[t].nbytes)]
  BY <1>1, <1>4, EndInv
<1>5. CASE /\ thread' = [thread EXCEPT ![t] =
                          Waited(t, "newline", last_terminal_line.input_pointer)]
           /\ state[t] = "DONE_READ"
  BY <1>1, <1>2, <1>5, EndInv
<1> QED
  BY <1>3, <1>4, <1>5 DEF WaitCount, WaitNewline

\* One byte of the copy stays within buf and, in a calm read, within the line.
LEMMA CopyInv == ASSUME IInv, NEW t \in Terms, CopyByte(t) PROVE IInv'
<1> DEFINE j == Len(thread[t].out)
           c == last_terminal_line.line[j + 1]
           out == Append(thread[t].out, c)
           r == [thread[t] EXCEPT !.out = out]
<1>1. /\ thread[t].at = "copy" /\ j < thread[t].got - 1
      /\ thread' = [thread EXCEPT ![t] = r]
      /\ UNCHANGED <<current_terminal_index, lines, history>>
  BY DEF CopyByte
<1>2. /\ j \in Nat /\ thread[t].got \in Nat /\ thread[t].got <= BUFFER_SIZE
      /\ BUFFER_SIZE \in Nat /\ thread[t].out \in Seq(Chars) /\ thread[t] \in Threads
  BY ThreadFields, TerminalAssumption DEF IRead, IBounds
<1>3. j + 1 \in 1 .. BUFFER_SIZE /\ j + 1 < BUFFER_SIZE
  BY <1>1, <1>2
<1>4. c \in Chars
  <2>1. last_terminal_line \in Lines
    BY DEF IInv, TypeOK, last_terminal_line
  <2>2. last_terminal_line.line \in [1 .. BUFFER_SIZE -> Chars]
    BY <2>1 DEF Lines, Array
  <2> HIDE DEF j
  <2> QED
    BY <1>3, <2>2
<1>5. /\ out \in Seq(Chars) /\ Len(out) = j + 1
      /\ \A i \in 1 .. j : out[i] = thread[t].out[i]
      /\ out[j + 1] = c
  BY <1>2, <1>4, AppendProperties
<1> HIDE DEF out
<1>6. /\ r \in Threads /\ r.out = out /\ r.at = "copy" /\ r.by = thread[t].by
      /\ r.got = thread[t].got /\ r.nbytes = thread[t].nbytes
  BY <1>1, <1>2, <1>5 DEF Threads
<1>7. Len(r.out) < BUFFER_SIZE
  BY <1>3, <1>5, <1>6
<1> HIDE DEF r
<1>8. thread'[t] = r
  BY <1>1 DEF IInv, TypeOK
<1>9. UNCHANGED <<current_terminal_index, input, previous_input, state, entered, calm>>
  BY <1>1 DEF lines, history
<1>10. IRead(t)'
  <2>1. IBounds(t)'
    BY <1>1, <1>6, <1>8, ThreadFields DEF IRead, IBounds
  <2>2. IDone(t)'
    BY <1>1, <1>6, <1>8, <1>9, ThreadFields DEF IRead, IDone, Reading
  <2>3. Undisturbed(t) => Undisturbed(t)'
    <3> SUFFICES ASSUME Undisturbed(t) PROVE Undisturbed(t)'
      OBVIOUS
    <3>1. Holds(t, entered[t]) /\ current_terminal_index = t /\ state[t] = "DONE_READ"
      BY <1>1 DEF Undisturbed, Reading
    <3>2. Holds(t, entered[t])'
      BY <1>9, <3>1 DEF Holds
    <3>3. ASSUME r.by = "newline"
          PROVE  /\ r.got = Len(entered[t]) + 1
                 /\ Len(out) <= Len(entered[t])
                 /\ \A i \in 1 .. Len(out) : out[i] = entered[t][i]
      <4>1. /\ thread[t].got = Len(entered[t]) + 1
            /\ \A i \in 1 .. j : thread[t].out[i] = entered[t][i]
        BY <1>1, <1>6, <3>3 DEF Undisturbed
      <4>2. Len(entered[t]) \in Nat
        BY DEF IInv, TypeOK
      <4>3. j + 1 <= Len(entered[t]) /\ j + 1 \in 1 .. Len(entered[t])
        BY <1>1, <1>2, <4>1, <4>2
      <4>4. c = entered[t][j + 1]
        BY <3>1, <4>3 DEF Holds, last_terminal_line
      <4> HIDE DEF c, j
      <4>5. \A i \in 1 .. j + 1 : out[i] = entered[t][i]
        BY <1>2, <1>5, <4>1, <4>4
      <4> QED
        BY <1>5, <1>6, <4>1, <4>3, <4>5
    <3> QED
      BY <1>6, <1>8, <1>9, <3>1, <3>2, <3>3 DEF Undisturbed, Reading
  <2>4. ICalm(t)'
    BY <1>9, <2>3, ThreadFields DEF IRead, ICalm
  <2> QED
    BY <2>1, <2>2, <2>4 DEF IRead
<1> QED
  BY <1>1, <1>6, <1>7, <1>10, OnlyThread

\* The read returns when the whole line has been copied.
LEMMA ReturnInv == ASSUME IInv, NEW t \in Terms, ReadReturn(t) PROVE IInv'
<1> DEFINE r == [thread[t] EXCEPT !.at = "done", !.got = 0]
<1>1. /\ thread[t].at = "copy" /\ Len(thread[t].out) >= thread[t].got - 1
      /\ thread' = [thread EXCEPT ![t] = r]
      /\ state' = [state EXCEPT ![t] = "IDLE"]
      /\ UNCHANGED <<current_terminal_index, input, previous_input, entered, calm>>
  BY DEF ReadReturn, history
<1>2. /\ r \in Threads /\ r.at = "done" /\ r.got = 0 /\ r.nbytes <= BUFFER_SIZE
      /\ r.out = thread[t].out /\ r.by = thread[t].by /\ Len(r.out) < BUFFER_SIZE
  BY ThreadFields DEF Threads, Points, IRead, IBounds
<1> HIDE DEF r
<1>3. /\ state' \in [Terms -> {"IDLE", "READ", "DONE_READ"}]
      /\ thread'[t] = r
      /\ entered' \in [Terms -> Seq(Chars)] /\ calm' \in [Terms -> BOOLEAN]
      /\ \A u \in Terms \ {t} :
            state'[u] = state[u] /\ entered'[u] = entered[u] /\ calm'[u] = calm[u]
  BY <1>1 DEF IInv, TypeOK
<1>4. IRead(t)'
  <2>1. IBounds(t)'
    BY <1>2, <1>3, TerminalAssumption DEF IBounds
  <2>2. IDone(t)'
    BY <1>1, <1>2, <1>3, ThreadFields DEF IRead, IDone, Reading
  <2>3. Undisturbed(t) => Undisturbed(t)'
    <3> SUFFICES ASSUME Undisturbed(t) PROVE Undisturbed(t)'
      OBVIOUS
    <3>1. ASSUME r.by = "newline"
          PROVE  r.out = entered[t]
      <4>1. /\ thread[t].got = Len(entered[t]) + 1
            /\ Len(thread[t].out) <= Len(entered[t])
            /\ \A i \in 1 .. Len(thread[t].out) : thread[t].out[i] = entered[t][i]
        BY <1>1, <1>2, <3>1 DEF Undisturbed
      <4>2. /\ Len(entered[t]) \in Nat /\ Len(thread[t].out) \in Nat
            /\ thread[t].out \in Seq(Chars) /\ entered[t] \in Seq(Chars)
        BY ThreadFields DEF IInv, TypeOK
      <4>3. Len(thread[t].out) = Len(entered[t])
        BY <1>1, <4>1, <4>2
      <4>4. thread[t].out = entered[t]
        BY <4>1, <4>2, <4>3, SeqEqual
      <4> QED
        BY <1>2, <4>4
    <3> QED
      BY <1>1, <1>2, <1>3, <3>1 DEF Undisturbed, Reading
  <2>4. ICalm(t)'
    BY <1>1, <2>3, ThreadFields DEF IRead, ICalm
  <2> QED
    BY <2>1, <2>2, <2>4 DEF IRead
<1> QED
  BY <1>1, <1>2, <1>3, <1>4, ThreadKeeps

-----------------------------------------------------------------------------
(* The keyboard interrupt                                                  *)

\* A key that changes the line being edited and nothing else
LEMMA EditInv ==
    ASSUME IInv, NEW t \in Terms, NEW line \in Seq(Terms), Len(line) <= BUFFER_SIZE - 1,
           input' = [input EXCEPT ![t] = line],
           UNCHANGED <<current_terminal_index, previous_input, state, thread, history>>
    PROVE  IInv'
<1>1. UNCHANGED <<entered, calm>>
  BY DEF history
<1>2. input' \in [Terms -> Seq(Terms)] /\ \A u \in Terms : Len(input'[u]) <= BUFFER_SIZE - 1
  BY DEF IInv, ITyped, TypeOK
<1>3. input' \in [Terms -> Seq(Chars)]
  BY <1>2 DEF Chars
<1>4. TypeOK' /\ ITyped'
  BY <1>1, <1>2, <1>3 DEF IInv, TypeOK, ITyped
<1>5. \A u \in Terms : IRead(u)'
  BY <1>1 DEF IInv, IRead, IBounds, IDone, ICalm, Undisturbed, Holds, Reading
<1> QED
  BY <1>4, <1>5 DEF IInv

\* Characters and Backspace keep the bound of the line.
LEMMA KeyInv == ASSUME IInv, KeyChar \/ KeyBackspace PROVE IInv'
<1> DEFINE t == current_terminal_index
<1>1. /\ t \in Terms /\ input[t] \in Seq(Terms) /\ Len(input[t]) \in Nat
      /\ Len(input[t]) <= BUFFER_SIZE - 1
      /\ BUFFER_SIZE \in Nat
  BY TerminalAssumption DEF IInv, TypeOK, ITyped
<1>2. CASE KeyChar
  <2>1. /\ Append(input[t], t) \in Seq(Terms)
        /\ Len(Append(input[t], t)) <= BUFFER_SIZE - 1
    BY <1>1, <1>2, AppendProperties DEF KeyChar, BufferFull
  <2> QED
    BY <1>1, <1>2, <2>1, EditInv DEF KeyChar
<1>3. CASE KeyBackspace
  <2>1. Len(input[t]) > 0
    BY <1>3 DEF KeyBackspace
  <2>2. 1 \in Int /\ Len(input[t]) - 1 \in Int
        /\ \A i \in 1 .. Len(input[t]) - 1 : input[t][i] \in Terms
    BY <1>1, ElementOfSeq
  <2> DEFINE s == SubSeq(input[t], 1, Len(input[t]) - 1)
             n == Len(input[t])
  <2>3. s \in Seq(Terms) /\ Len(s) = IF 1 <= n - 1 THEN n - 1 - 1 + 1 ELSE 0
    BY <2>2, SubSeqProperties
  <2>4. input' = [input EXCEPT ![t] = s]
        /\ UNCHANGED <<current_terminal_index, previous_input, state, thread, history>>
    BY <1>3 DEF KeyBackspace
  <2> HIDE DEF s
  <2>5. Len(s) <= BUFFER_SIZE - 1
    <3> HIDE DEF n
    <3>1. n \in Nat /\ n > 0 /\ n <= BUFFER_SIZE - 1
      BY <1>1, <2>1 DEF n
    <3> QED
      BY <1>1, <2>3, <3>1
  <2> QED
    BY <1>1, <2>3, <2>4, <2>5, EditInv
<1> QED
  BY <1>2, <1>3

\* Alt-Fn disturbs every read.
LEMMA SwitchInv == ASSUME IInv, NEW t \in Terms, set_current_terminal(t) PROVE IInv'
<1>1. /\ current_terminal_index' = t /\ UNCHANGED <<input, previous_input, state, thread, entered>>
      /\ calm' = [u \in Terms |-> FALSE]
  BY DEF set_current_terminal, lines
<1>2. calm' \in [Terms -> BOOLEAN] /\ \A u \in Terms : ~calm'[u]
  BY <1>1
<1>3. TypeOK' /\ ITyped'
  BY <1>1, <1>2 DEF IInv, TypeOK, ITyped
<1>4. \A u \in Terms : IRead(u)'
  BY <1>1, <1>2 DEF IInv, IRead, IBounds, IDone, ICalm, Reading
<1> QED
  BY <1>3, <1>4 DEF IInv

\* Enter: the line goes to previous_input, and the read that waits has it.
LEMMA NewlineInv == ASSUME IInv, KeyEnter PROVE IInv'
<1>0. PICK t \in Terms : t = current_terminal_index
  BY DEF IInv, TypeOK
<1> DEFINE new == Append(input[t], NL)
           caught == Reading(t) /\ state[t] = "READ"
           p == [input_pointer |-> Len(new),
                 line |-> [i \in 1 .. BUFFER_SIZE |->
                              IF i <= Len(new) THEN new[i] ELSE previous_input[t].line[i]]]
<1>1. /\ t \in Terms /\ input[t] \in Seq(Terms) /\ Len(input[t]) \in Nat
      /\ input[t] \in Seq(Chars) /\ BUFFER_SIZE \in Nat /\ BUFFER_SIZE > 1 /\ NL \in Chars
  BY TerminalAssumption DEF IInv, TypeOK, ITyped, Chars
<1>2. Len(input[t]) < BUFFER_SIZE - 1
  BY <1>0, <1>1 DEF KeyEnter, BufferFull
<1>3. /\ new \in Seq(Chars) /\ Len(new) = Len(input[t]) + 1
      /\ \A i \in 1 .. Len(input[t]) : new[i] = input[t][i]
  BY <1>1, AppendProperties
<1>4. /\ previous_input' = [previous_input EXCEPT ![t] = p]
      /\ state' = [state EXCEPT ![t] = "DONE_READ"]
      /\ input' = [input EXCEPT ![t] = <<>>]
      /\ entered' = IF caught THEN [entered EXCEPT ![t] = input[t]] ELSE entered
      /\ calm' = [u \in Terms |-> IF u = t THEN caught ELSE calm[u]]
      /\ UNCHANGED <<current_terminal_index, thread>>
  BY <1>0 DEF KeyEnter, terminal_copy_to_history
<1> HIDE DEF new
<1>5. /\ p \in Lines /\ p.input_pointer = Len(input[t]) + 1
      /\ \A i \in 1 .. Len(input[t]) : p.line[i] = input[t][i]
  <2>1. previous_input[t] \in Lines
    BY <1>1 DEF IInv, TypeOK
  <2>2. \A i \in 1 .. BUFFER_SIZE : previous_input[t].line[i] \in Chars
    BY <2>1 DEF Lines, Array
  <2>3. \A i \in 1 .. BUFFER_SIZE : i <= Len(new) => new[i] \in Chars
    BY <1>1, <1>3, ElementOfSeq
  <2>4. p.line \in Array
    BY <2>2, <2>3 DEF Array
  <2>5. p.input_pointer \in 0 .. BUFFER_SIZE /\ p.input_pointer = Len(input[t]) + 1
    BY <1>1, <1>2, <1>3
  <2>6. \A i \in 1 .. Len(input[t]) : p.line[i] = input[t][i]
    <3> TAKE i \in 1 .. Len(input[t])
    <3>1. i \in 1 .. BUFFER_SIZE /\ i <= Len(new)
      BY <1>1, <1>2, <1>3
    <3> QED
      BY <1>3, <3>1
  <2>7. p \in Lines
    BY <2>4, <2>5 DEF Lines
  <2> QED
    BY <2>5, <2>6, <2>7
<1> HIDE DEF p
<1>6. /\ previous_input' \in [Terms -> Lines] /\ previous_input'[t] = p
      /\ state' \in [Terms -> {"IDLE", "READ", "DONE_READ"}] /\ state'[t] = "DONE_READ"
      /\ \A u \in Terms \ {t} : previous_input'[u] = previous_input[u] /\ state'[u] = state[u]
  BY <1>1, <1>4, <1>5 DEF IInv, TypeOK
<1>7. /\ input' \in [Terms -> Seq(Terms)] /\ input' \in [Terms -> Seq(Chars)]
      /\ \A u \in Terms : Len(input'[u]) <= BUFFER_SIZE - 1
  <2>1. PICK e \in Seq(Terms) : e = <<>> /\ Len(e) = 0
    BY EmptySeq, Zenon
  <2>2. input' = [input EXCEPT ![t] = e] /\ input \in [Terms -> Seq(Terms)]
    BY <1>4, <2>1 DEF IInv, ITyped
  <2>3. /\ input' \in [Terms -> Seq(Terms)]
        /\ input'[t] = e /\ \A u \in Terms \ {t} : input'[u] = input[u]
    BY <2>2
  <2>4. input' \in [Terms -> Seq(Chars)]
    BY <2>3 DEF Chars
  <2>5. ASSUME NEW u \in Terms PROVE Len(input'[u]) <= BUFFER_SIZE - 1
    <3>1. CASE u = t
      <4>1. Len(input'[u]) = 0
        BY <2>1, <2>3, <3>1
      <4> QED
        BY <1>1, <4>1
    <3>2. CASE u # t
      BY <2>3, <3>2 DEF IInv, TypeOK
    <3> QED
      BY <3>1, <3>2
  <2> QED
    BY <2>3, <2>4, <2>5
<1>8. /\ entered' \in [Terms -> Seq(Chars)]
      /\ entered'[t] = IF caught THEN input[t] ELSE entered[t]
      /\ \A u \in Terms \ {t} : entered'[u] = entered[u]
  BY <1>1, <1>4 DEF IInv, TypeOK
<1>9. /\ calm' \in [Terms -> BOOLEAN] /\ (calm'[t] <=> caught)
      /\ \A u \in Terms \ {t} : calm'[u] = calm[u]
  <2>1. caught \in BOOLEAN /\ calm \in [Terms -> BOOLEAN]
    BY DEF IInv, TypeOK
  <2> HIDE DEF caught
  <2> QED
    BY <1>1, <1>4, <2>1
<1>10. TypeOK' /\ ITyped'
  BY <1>4, <1>6, <1>7, <1>8, <1>9 DEF IInv, TypeOK, ITyped
<1>11. input[t] # <<NUL>>
  <2>1. ASSUME input[t] = <<NUL>> PROVE FALSE
    <3>1. input[t][1] = NUL /\ Len(input[t]) = 1
      BY <2>1
    <3>2. input[t][1] \in Terms
      BY <1>1, <3>1, ElementOfSeq
    <3> QED
      BY <3>1, <3>2, TerminalAssumption
  <2> QED
    BY <2>1
<1>12. IRead(t)'
  <2>0. IRead(t)
    BY <1>1 DEF IInv
  <2>1. IBounds(t)'
    BY <1>4, <2>0 DEF IRead, IBounds
  <2>2. IDone(t)'
    BY <1>4, <1>6, <1>8, <1>11, <2>0 DEF IRead, IDone, Reading
  <2>3. ICalm(t)'
    <3> SUFFICES ASSUME caught PROVE Undisturbed(t)'
      BY <1>9 DEF ICalm
    <3>1. Holds(t, entered[t])'
      BY <1>5, <1>6, <1>8 DEF Holds
    <3>2. Reading(t) /\ ~(thread[t].at = "copy" /\ thread[t].by = "newline") /\ thread[t].at # "done"
      BY <2>0 DEF IRead, IDone, Reading
    <3> QED
      BY <1>0, <1>4, <1>6, <3>1, <3>2 DEF Undisturbed, Reading
  <2> QED
    BY <2>1, <2>2, <2>3 DEF IRead
<1>13. ASSUME NEW u \in Terms \ {t} PROVE IRead(u)'
  <2>0. IRead(u) /\ ~calm[u]
    BY <1>0 DEF IInv, IRead, ICalm, Undisturbed
  <2>1. IBounds(u)' /\ ICalm(u)'
    BY <1>4, <1>9, <2>0 DEF IRead, IBounds, ICalm
  <2>2. IDone(u)'
    BY <1>4, <1>6, <1>8, <2>0 DEF IRead, IDone, Reading
  <2> QED
    BY <2>1, <2>2 DEF IRead
<1> QED
  BY <1>10, <1>12, <1>13 DEF IInv

-----------------------------------------------------------------------------
(* The theorems                                                            *)

\* No line has been typed and no program reads.
LEMMA InitInv == Init => IInv
<1> SUFFICES ASSUME Init PROVE IInv
  OBVIOUS
<1>1. BUFFER_SIZE \in Nat /\ BUFFER_SIZE > 1
  BY TerminalAssumption
<1>2. /\ input \in [Terms -> Seq(Terms)] /\ input \in [Terms -> Seq(Chars)]
      /\ \A t \in Terms : Len(input[t]) <= BUFFER_SIZE - 1
  BY <1>1 DEF Init
<1>3. previous_input \in [Terms -> Lines]
  BY <1>1 DEF Init, Lines, Array, Chars
<1>4. /\ thread \in [Terms -> Threads]
      /\ \A t \in Terms : /\ thread[t].at = "run" /\ thread[t].nbytes = 0 /\ thread[t].got = 0
                          /\ thread[t].by = "count" /\ thread[t].out = <<>>
  BY <1>1 DEF Init, Threads, Points
<1>5. \A t \in Terms : Len(thread[t].out) < BUFFER_SIZE
  <2>1. Len(<<>>) = 0 /\ 0 < BUFFER_SIZE
    BY <1>1
  <2> QED
    BY <1>4, <2>1
<1>6. /\ state \in [Terms -> {"IDLE", "READ", "DONE_READ"}]
      /\ entered \in [Terms -> Seq(Chars)]
      /\ current_terminal_index \in Terms
  BY DEF Init
<1>7. calm \in [Terms -> BOOLEAN] /\ \A t \in Terms : ~calm[t]
  BY DEF Init
<1>8. TypeOK /\ ITyped
  BY <1>2, <1>3, <1>4, <1>5, <1>6, <1>7 DEF TypeOK, ITyped
<1>9. \A t \in Terms : IRead(t)
  <2> TAKE t \in Terms
  <2>1. IBounds(t)
    BY <1>1, <1>4 DEF IBounds
  <2>2. IDone(t) /\ ICalm(t)
    BY <1>4, <1>7 DEF IDone, ICalm, Reading
  <2> QED
    BY <2>1, <2>2 DEF IRead
<1> QED
  BY <1>8, <1>9 DEF IInv

\* The invariant holds always.
LEMMA Always == Spec => []IInv
<1>1. IInv /\ [Next]_vars => IInv'
  <2> SUFFICES ASSUME IInv, [Next]_vars
               PROVE  IInv'
    OBVIOUS
  <2>1. ASSUME NEW t \in Readers, ThreadStep(t)
        PROVE  IInv'
    BY <2>1, TerminalAssumption, ArmInv, StartInv, WaitInv, CopyInv, ReturnInv DEF ThreadStep
  <2>2. ASSUME NEW t \in Readers, NEW n \in ReadSizes, ReadEnter(t, n)
        PROVE  IInv'
    BY <2>2, TerminalAssumption, EnterInv
  <2>3. CASE Keyboard
    BY <2>3, KeyInv, NewlineInv, SwitchInv DEF Keyboard
  <2>4. CASE UNCHANGED vars
    BY <2>4 DEF vars, lines, history, IInv, TypeOK, ITyped, IRead, IBounds, IDone, ICalm,
       Undisturbed, Holds, Reading
  <2> QED
    BY <2>1, <2>2, <2>3, <2>4 DEF Next
<1> QED
  BY <1>1, InitInv, PTL DEF Spec

\* Buffers keep their bounds for every BUFFER_SIZE and every size of the reads.
THEOREM TerminalTypeCorrect == Spec => []TypeOK
<1>1. IInv => TypeOK
  BY DEF IInv
<1> QED
  BY <1>1, Always, PTL

\* A read that ends with a newline was ended by an Enter that was pressed on its
\* own terminal after the read set TERMINAL_READ (terminal_read,
\* keyboard_wait_for_new_line).  Reads that the count ends are not covered.
THEOREM NoStale == Spec => []NoStaleLine
<1>1. IInv => NoStaleLine
  BY DEF IInv, IRead, IDone, NoStaleLine
<1> QED
  BY <1>1, Always, PTL

\* A read that ends with a newline, whose line fits the nbytes it asked for, and
\* that neither a second Enter nor Alt-Fn disturbs, returns exactly the line that
\* was entered (terminal_read, keyboard_wait_for_new_line,
\* terminal_copy_to_history).
THEOREM LineCorrect == Spec => []ReadReturnsLine
<1>1. IInv => ReadReturnsLine
  BY DEF IInv, IRead, ICalm, Undisturbed, ReadReturnsLine
<1> QED
  BY <1>1, Always, PTL
=============================================================================
