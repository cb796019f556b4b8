-------------------------------- MODULE Rtc --------------------------------
(***************************************************************************)
(* The RTC driver (rtc.c): processes that open, read, write and close the  *)
(* one real-time clock, and its interrupt.  There is one chip and one      *)
(* interrupt_received flag for all of them.                                *)
(*                                                                         *)
(* A register of the chip is reached in two port accesses, its index and   *)
(* then its value.  rtc_set_frequency and the interrupt make theirs with   *)
(* interrupts off; rtc_init, which every open calls, does not, so another  *)
(* process or the interrupt may select another register in between.        *)
(*                                                                         *)
(* The chip is external.  rtc.c says that a read resets the index; on the  *)
(* MC146818 it stays.  IndexResets chooses.                                *)
(***************************************************************************)
EXTENDS Integers

CONSTANTS
    Procs,     \* the processes that use the RTC
    Freqs,     \* the frequencies they write
    IndexResets   \* an access to the data port makes the next one go nowhere

INT_MAX == 2147483647
INT_MIN == -2147483647 - 1

ASSUME RtcAssumption == Freqs \subseteq -10 .. 4096 /\ IndexResets \in BOOLEAN

VARIABLES
    interrupt_received,  \* the flag that rtc_read polls
    index,               \* the register that the data port stands for
    regA,                \* divider in the high nibble, rate in the low one
    regB,                \* bit 6: periodic interrupts are on
    regC,                \* an interrupt is latched and register C not read
    prev,                \* process -> the byte that its rtc_init has read
    at,                  \* process -> where it is in the driver
    opened,              \* the processes with an RTC file descriptor
    granted,             \* history: the frequency for which rtc_set_frequency returned
                         \* 0 last
    ticked,              \* history: process -> an interrupt since its read began
    robbed               \* history: process -> another one cleared the flag
                         \* before it saw it

chip    == <<index, regA, regB, regC>>
history == <<ticked, robbed>>
vars    == <<interrupt_received, chip, prev, at, opened, granted, history>>

-----------------------------------------------------------------------------
\* 1 + n in 32 bits: gcc without optimisation wraps around
Inc(n) == IF n = INT_MAX THEN INT_MIN ELSE n + 1

\* The numbers that pass the range check, and their halves
PowerArgs == 1 .. 1024

\* The recursion of rtc_get_power_of_2
rtc_get_power_of_2[n \in PowerArgs] ==
    IF n = 1 THEN 0
    ELSE IF n % 2 = 1 THEN INT_MAX
    ELSE Inc(rtc_get_power_of_2[n \div 2])

\* (16 - power_of_2) & 0x0F
Rate(power) == (16 - (power % 16)) % 16

BIT6 == 64
DividerOn == 2                 \* the divider that the BIOS sets: 32768 Hz

OrBit6(byte) == IF (byte \div BIT6) % 2 = 1 THEN byte ELSE byte + BIT6

\* The frequency of the periodic interrupt: 0 if the rate is 0, the divider is not
\* the one of the BIOS or bit 6 of register B is off
Hz ==
    LET r == regA % 16 IN
    IF r = 0 \/ regA \div 16 # DividerOn \/ OrBit6(regB) # regB THEN 0
    ELSE 2^15 \div 2^(r - 1)

\* The index after an access to the data port.  Register D is read-only.
After(r) == IF IndexResets THEN "D" ELSE r

\* What a read returns.  Register C has just been read by the interrupt that
\* selected it; D says that the clock's time is valid.
Read(r) == [A |-> regA, B |-> regB, C |-> 0, D |-> 128][r]

\* Mutant: the lower bound is 1
rtc_set_frequency_From1(f) ==
    LET valid == f \in 1 .. 1024 /\ rtc_get_power_of_2[f] # INT_MAX IN
    /\ regA' = IF valid THEN 16 * (regA \div 16) + Rate(rtc_get_power_of_2[f]) ELSE regA
    /\ index' = IF valid THEN After("A") ELSE index
    /\ granted' = IF valid THEN f ELSE granted

\* rtc_set_frequency, all of it with interrupts off; the divider is kept
rtc_set_frequency(f) ==
    LET valid == f \in 2 .. 1024 /\ rtc_get_power_of_2[f] # INT_MAX IN
    /\ regA' = IF valid THEN 16 * (regA \div 16) + Rate(rtc_get_power_of_2[f]) ELSE regA
    /\ index' = IF valid THEN After("A") ELSE index
    /\ granted' = IF valid THEN f ELSE granted

\* Process p clears the flag; those who had not seen it yet wait on
Clear(p) ==
    /\ interrupt_received' = 0
    /\ robbed' = [q \in Procs |->
          \/ robbed[q] /\ q # p
          \/ q # p /\ at[q] = "wait" /\ interrupt_received = 1]

-----------------------------------------------------------------------------
\* kernel.c opens the RTC before it enables interrupts; the BIOS has set the
\* divider and, in register B, the 24-hour mode.
Init ==
    /\ interrupt_received = 0
    /\ index = After("A")
    /\ regA = 16 * DividerOn + Rate(rtc_get_power_of_2[2])
    /\ regB = OrBit6(2)
    /\ regC = FALSE
    /\ prev = [p \in Procs |-> 0]
    /\ at = [p \in Procs |-> "run"]
    /\ opened = {}
    /\ granted = 2
    /\ ticked = [p \in Procs |-> FALSE]
    /\ robbed = [p \in Procs |-> FALSE]

\* rtc_open calls rtc_init, which selects register B ...
OpenSelect(p) ==
    /\ at[p] = "run"
    /\ p \notin opened
    /\ index' = "B"
    /\ at' = [at EXCEPT ![p] = "selected"]
    /\ UNCHANGED <<interrupt_received, regA, regB, regC, prev, opened, granted, history>>

\* ... reads it ...
OpenRead(p) ==
    /\ at[p] = "selected"
    /\ prev' = [prev EXCEPT ![p] = Read(index)]
    /\ index' = After(index)
    /\ at' = [at EXCEPT ![p] = "read"]
    /\ UNCHANGED <<interrupt_received, regA, regB, regC, opened, granted, history>>

\* ... selects it again ...
OpenReselect(p) ==
    /\ at[p] = "read"
    /\ index' = "B"
    /\ at' = [at EXCEPT ![p] = "reselected"]
    /\ UNCHANGED <<interrupt_received, regA, regB, regC, prev, opened, granted, history>>

\* Mutant: the byte that was read is written back as it is
OpenWrite_NoMask(p) ==
    /\ at[p] = "reselected"
    /\ regA' = IF index = "A" THEN prev[p] ELSE regA
    /\ regB' = IF index = "B" THEN prev[p] ELSE regB
    /\ index' = After(index)
    /\ prev' = [prev EXCEPT ![p] = 0]
    /\ at' = [at EXCEPT ![p] = "written"]
    /\ UNCHANGED <<interrupt_received, regC, opened, granted, history>>

\* ... and turns bit 6 on in whatever register is selected now
OpenWrite(p) ==
    /\ at[p] = "reselected"
    /\ regA' = IF index = "A" THEN OrBit6(prev[p]) ELSE regA
    /\ regB' = IF index = "B" THEN OrBit6(prev[p]) ELSE regB
    /\ index' = After(index)
    /\ prev' = [prev EXCEPT ![p] = 0]
    /\ at' = [at EXCEPT ![p] = "written"]
    /\ UNCHANGED <<interrupt_received, regC, opened, granted, history>>

\* Then the flag is cleared; enable_irq(8) unmasks what boot has unmasked
OpenClear(p) ==
    /\ at[p] = "written"
    /\ Clear(p)
    /\ at' = [at EXCEPT ![p] = "open"]
    /\ UNCHANGED <<chip, prev, opened, granted, ticked>>

\* rtc_open ends with the default frequency
OpenFrequency(p) ==
    /\ at[p] = "open"
    /\ rtc_set_frequency(2)
    /\ at' = [at EXCEPT ![p] = "run"]
    /\ opened' = opened \cup {p}
    /\ UNCHANGED <<interrupt_received, regB, regC, prev, history>>

rtc_write(p, f) ==
    /\ at[p] \in {"run", "done"}
    /\ p \in opened
    /\ rtc_set_frequency(f)
    /\ UNCHANGED <<interrupt_received, regB, regC, prev, at, opened, history>>

\* Mutant: the flag of an earlier interrupt is still set
ReadStart_KeepFlag(p) ==
    /\ at[p] \in {"run", "done"}
    /\ p \in opened
    /\ at' = [at EXCEPT ![p] = "wait"]
    /\ ticked' = [ticked EXCEPT ![p] = FALSE]
    /\ UNCHANGED <<interrupt_received, chip, prev, opened, granted, robbed>>

\* rtc_read clears the flag ...
ReadStart(p) ==
    /\ at[p] \in {"run", "done"}
    /\ p \in opened
    /\ Clear(p)
    /\ at' = [at EXCEPT ![p] = "wait"]
    /\ ticked' = [ticked EXCEPT ![p] = FALSE]
    /\ UNCHANGED <<chip, prev, opened, granted>>

\* ... and polls until it is set
ReadReturn(p) ==
    /\ at[p] = "wait"
    /\ interrupt_received = 1
    /\ at' = [at EXCEPT ![p] = "done"]
    /\ UNCHANGED <<interrupt_received, chip, prev, opened, granted, history>>

\* rtc_close resets the frequency for everybody
rtc_close(p) ==
    /\ at[p] \in {"run", "done"}
    /\ p \in opened
    /\ rtc_set_frequency(2)
    /\ opened' = opened \ {p}
    /\ at' = [at EXCEPT ![p] = "run"]
    /\ UNCHANGED <<interrupt_received, regB, regC, prev, history>>

\* Mutant: register C is not read
rtc_process_interrupt_NoRegC ==
    /\ interrupt_received' = 1
    /\ regC' = TRUE
    /\ UNCHANGED index

rtc_process_interrupt ==
    /\ interrupt_received' = 1
    /\ regC' = FALSE
    /\ index' = After("C")

\* The chip interrupts, not again before register C has been read; the handler
\* runs with interrupts off
Interrupt ==
    /\ Hz # 0
    /\ ~regC
    /\ rtc_process_interrupt
    /\ ticked' = [p \in Procs |-> TRUE]
    /\ UNCHANGED <<regA, regB, prev, at, opened, granted, robbed>>

\* The steps of a call in progress
ProcStep(p) ==
    \/ OpenRead(p) \/ OpenReselect(p) \/ OpenWrite(p) \/ OpenClear(p) \/ OpenFrequency(p)
    \/ ReadReturn(p)

Next ==
    \/ \E p \in Procs :
          \/ ProcStep(p) \/ OpenSelect(p) \/ ReadStart(p) \/ rtc_close(p)
          \/ \E f \in Freqs : rtc_write(p, f)
    \/ Interrupt

Spec == Init /\ [][Next]_vars

\* The chip keeps ticking and the scheduler lets every process run
FairSpec ==
    /\ Spec
    /\ WF_vars(Interrupt)
    /\ \A p \in Procs : WF_vars(ProcStep(p))

-----------------------------------------------------------------------------
\* The rate always stands for 2 .. 1024 Hz.
TypeOK ==
    /\ interrupt_received \in {0, 1}
    /\ index \in {"A", "B", "C", "D"}
    /\ regA \in 0 .. 255 /\ regA % 16 \in 6 .. 15
    /\ regB \in 0 .. 255
    /\ regC \in BOOLEAN
    /\ prev \in [Procs -> 0 .. 255]
    /\ at \in [Procs -> {"run", "selected", "read", "reselected", "written", "open",
                         "wait", "done"}]
    /\ opened \subseteq Procs
    /\ granted \in 2 .. 1024
    /\ ticked \in [Procs -> BOOLEAN]
    /\ robbed \in [Procs -> BOOLEAN]

\* The chip interrupts at the frequency that the last successful call of
\* rtc_set_frequency asked for, whatever refused calls, interrupts and other
\* processes' opens do to the ports.
FrequencySet == Hz = granted

\* A read returns only after an interrupt that came after the read began,
\* although all readers share one flag.
NoEarlyReturn == \A p \in Procs : at[p] = "done" => ticked[p]

\* A read returns unless another process cleared the flag before it saw it.
ReadReturns == \A p \in Procs : at[p] = "wait" ~> (at[p] = "done" \/ robbed[p])
=============================================================================
