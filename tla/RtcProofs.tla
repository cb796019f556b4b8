----------------------------- MODULE RtcProofs -----------------------------
(***************************************************************************)
(* Proofs about the RTC driver, for every set of processes.  NoEarlyReturn *)
(* holds for all frequencies and for both readings of the index register.  *)
(* TypeOK and FrequencySet hold on a chip whose data port resets the index *)
(* (IndexResets; on the other one the run rtc_ports refutes FrequencySet)  *)
(* and for frequencies of which the even ones in range are powers of two   *)
(* (PlainWrites; RefusesOdd: the other even ones are not refused).         *)
(***************************************************************************)
EXTENDS Rtc, Induction

-----------------------------------------------------------------------------
(* rtc_get_power_of_2                                                      *)

Powers == {2, 4, 8, 16, 32, 64, 128, 256, 512, 1024}

PlainWrites == \A f \in Freqs \cap 2 .. 1024 : f \in Powers \/ f % 2 = 1

\* One step of the recursion over f, and the closed form: the number of trailing
\* zeros of a power of two, and otherwise INT_MAX plus that number, in 32 bits
PowerStep(f, n) ==
    IF n = 1 THEN 0
    ELSE IF n % 2 = 1 THEN INT_MAX
    ELSE Inc(f[n \div 2])

PowerOf(n) ==
    IF n % 2 = 1 THEN (IF n = 1 THEN 0 ELSE INT_MAX)
    ELSE IF n % 4 = 2 THEN (IF n = 2 THEN 1 ELSE INT_MIN)
    ELSE IF n % 8 = 4 THEN (IF n = 4 THEN 2 ELSE INT_MIN + 1)
    ELSE IF n % 16 = 8 THEN (IF n = 8 THEN 3 ELSE INT_MIN + 2)
    ELSE IF n % 32 = 16 THEN (IF n = 16 THEN 4 ELSE INT_MIN + 3)
    ELSE IF n % 64 = 32 THEN (IF n = 32 THEN 5 ELSE INT_MIN + 4)
    ELSE IF n % 128 = 64 THEN (IF n = 64 THEN 6 ELSE INT_MIN + 5)
    ELSE IF n % 256 = 128 THEN (IF n = 128 THEN 7 ELSE INT_MIN + 6)
    ELSE IF n % 512 = 256 THEN (IF n = 256 THEN 8 ELSE INT_MIN + 7)
    ELSE IF n % 1024 = 512 THEN (IF n = 512 THEN 9 ELSE INT_MIN + 8)
    ELSE 10

\* The closed form follows the recursion
LEMMA PowerHalf ==
    ASSUME NEW n \in PowerArgs
    PROVE  /\ n % 2 = 0 \/ n % 2 = 1
           /\ n % 2 = 1 => PowerOf(n) = IF n = 1 THEN 0 ELSE INT_MAX
           /\ n % 2 = 0 => /\ n \div 2 \in PowerArgs /\ n \div 2 < n /\ n # 1
                          /\ PowerOf(n) = Inc(PowerOf(n \div 2))
<1>0. n \in 1 .. 1024
  BY DEF PowerArgs
<1>1. n % 2 = 0 \/ n % 2 = 1
  BY <1>0
<1>2. CASE n % 2 = 1
  BY <1>2 DEF PowerOf
<1>3. CASE n % 2 = 0
  <2>1. n \div 2 \in 1 .. 1024 /\ n \div 2 < n /\ n # 1
    BY <1>0, <1>3
  <2>2. PowerOf(n) = Inc(PowerOf(n \div 2))
    BY <1>0, <1>3, <2>1, SMTT(60) DEF PowerOf, Inc, INT_MAX, INT_MIN
  <2> QED
    BY <1>3, <2>1, <2>2 DEF PowerArgs
<1> QED
  BY <1>1, <1>2, <1>3

\* The recursion of rtc_get_power_of_2 has a solution, so the function is one:
\* it satisfies its defining equation at every number that passes the range check.
LEMMA PowerEquation ==
    \A n \in PowerArgs : rtc_get_power_of_2[n] = PowerStep(rtc_get_power_of_2, n)
<1> DEFINE Power == [n \in PowerArgs |-> PowerOf(n)]
           Is(f) == f = [n \in PowerArgs |-> PowerStep(f, n)]
<1>1. ASSUME NEW n \in PowerArgs
      PROVE  PowerOf(n) = PowerStep(Power, n)
  <2>1. CASE n % 2 = 1
    BY <2>1, PowerHalf DEF PowerStep
  <2>2. CASE n % 2 = 0
    <3>1. Power[n \div 2] = PowerOf(n \div 2)
      BY <2>2, PowerHalf
    <3> QED
      BY <2>2, <3>1, PowerHalf DEF PowerStep
  <2> QED
    BY <2>1, <2>2, PowerHalf
<1>2. Is(Power)
  <2>1. Power = [n \in PowerArgs |-> PowerOf(n)]
    OBVIOUS
  <2> HIDE DEF Power
  <2>2. [n \in PowerArgs |-> PowerOf(n)] = [n \in PowerArgs |-> PowerStep(Power, n)]
    BY <1>1, SMT
  <2> QED
    BY <2>1, <2>2
<1>3. rtc_get_power_of_2 = CHOOSE f : Is(f)
  BY Zenon DEF rtc_get_power_of_2, PowerStep
<1>4. Is(rtc_get_power_of_2)
  <2> HIDE DEF Is, Power
  <2> QED
    BY <1>2, <1>3, Zenon
<1> HIDE DEF Power
<1> QED
  BY <1>4, Zenon

\* What the recursion computes: a number of the least value for which it did not
\* compute the closed form would be odd, or its half would be a lesser one
LEMMA PowerClosedForm == \A n \in PowerArgs : rtc_get_power_of_2[n] = PowerOf(n)
<1> DEFINE bad == {n \in PowerArgs : rtc_get_power_of_2[n] # PowerOf(n)}
<1> SUFFICES ASSUME bad # {} PROVE FALSE
  OBVIOUS
<1>1. bad \in SUBSET Nat /\ bad \subseteq PowerArgs
  BY SMTT(30) DEF PowerArgs
<1>2. PICK n \in bad : \A m \in bad : n <= m
  <2> HIDE DEF bad
  <2> QED
    BY <1>1, LeastNumber
<1>3. n \in PowerArgs /\ rtc_get_power_of_2[n] # PowerOf(n) /\ n \in Nat
  BY <1>1
<1>4. rtc_get_power_of_2[n] = PowerStep(rtc_get_power_of_2, n)
  BY <1>3, PowerEquation, Zenon
<1>5. CASE n % 2 = 1
  BY <1>3, <1>4, <1>5, PowerHalf DEF PowerStep
<1>6. CASE n % 2 = 0
  <2>1. PICK h : h = n \div 2
    OBVIOUS
  <2>2. h \in PowerArgs /\ h < n /\ n # 1 /\ PowerOf(n) = Inc(PowerOf(h)) /\ h \in Nat
    BY <1>3, <1>6, <2>1, PowerHalf DEF PowerArgs
  <2>3. rtc_get_power_of_2[h] = PowerOf(h)
    <3> SUFFICES ASSUME h \in bad PROVE FALSE
      BY <2>2
    <3> HIDE DEF bad
    <3>1. n <= h
      BY <1>2
    <3> QED
      BY <1>3, <2>2, <3>1
  <2>4. rtc_get_power_of_2[n] = Inc(rtc_get_power_of_2[h])
    BY <1>4, <1>6, <2>1, <2>2 DEF PowerStep
  <2> QED
    BY <1>3, <2>2, <2>3, <2>4, Zenon
<1> QED
  BY <1>3, <1>5, <1>6, PowerHalf

\* What the code computes for a power of two, and for an odd number.
LEMMA PowerValues ==
    /\ rtc_get_power_of_2[2] = 1
    /\ rtc_get_power_of_2[4] = 2
    /\ rtc_get_power_of_2[8] = 3
    /\ rtc_get_power_of_2[16] = 4
    /\ rtc_get_power_of_2[32] = 5
    /\ rtc_get_power_of_2[64] = 6
    /\ rtc_get_power_of_2[128] = 7
    /\ rtc_get_power_of_2[256] = 8
    /\ rtc_get_power_of_2[512] = 9
    /\ rtc_get_power_of_2[1024] = 10
    /\ \A n \in 2 .. 1024 : n % 2 = 1 => rtc_get_power_of_2[n] = INT_MAX
<1>1. /\ PowerOf(2) = 1 /\ PowerOf(4) = 2 /\ PowerOf(8) = 3 /\ PowerOf(16) = 4
      /\ PowerOf(32) = 5 /\ PowerOf(64) = 6 /\ PowerOf(128) = 7 /\ PowerOf(256) = 8
      /\ PowerOf(512) = 9 /\ PowerOf(1024) = 10
  BY SMT DEF PowerOf
<1>2. \A n \in Powers : n \in PowerArgs
  BY SMT DEF Powers, PowerArgs
<1>3. \A n \in Powers : rtc_get_power_of_2[n] = PowerOf(n)
  BY <1>2, PowerClosedForm, Zenon
<1>4. ASSUME NEW n \in 2 .. 1024, n % 2 = 1 PROVE rtc_get_power_of_2[n] = INT_MAX
  <2>1. n \in PowerArgs /\ n # 1
    BY SMT DEF PowerArgs
  <2>2. rtc_get_power_of_2[n] = PowerOf(n)
    BY <2>1, PowerClosedForm, Zenon
  <2> QED
    BY <1>4, <2>1, <2>2, PowerHalf, SMT
<1> QED
  BY <1>1, <1>3, <1>4, SMT DEF Powers

\* The recursion refuses odd numbers and no others: 1 + INT_MAX wraps around, so
\* the error value of the odd part of an even number is lost on the way back.
THEOREM RefusesOdd ==
    \A n \in 2 .. 1024 : rtc_get_power_of_2[n] = INT_MAX <=> n % 2 = 1
<1> TAKE n \in 2 .. 1024
<1>1. n \in PowerArgs /\ n # 1
  BY SMT DEF PowerArgs
<1>2. rtc_get_power_of_2[n] = PowerOf(n)
  BY <1>1, PowerClosedForm, Zenon
<1>3. n % 2 = 1 => PowerOf(n) = INT_MAX
  BY <1>1, PowerHalf, SMT
<1>4. n % 2 # 1 => PowerOf(n) # INT_MAX
  BY SMT DEF PowerOf, INT_MAX, INT_MIN
<1> QED
  BY <1>2, <1>3, <1>4, Zenon

-----------------------------------------------------------------------------
(* No early return, for all frequencies and both kinds of chip             *)

ControlOK ==
    /\ interrupt_received \in {0, 1}
    /\ at \in [Procs -> {"run", "selected", "read", "reselected", "written", "open",
                         "wait", "done"}]
    /\ ticked \in [Procs -> BOOLEAN]

\* What makes NoEarlyReturn inductive: while the flag is set every waiting read
\* has had an interrupt, because the read that begins clears the flag.
FlagIsFresh ==
    interrupt_received = 1 => \A p \in Procs : at[p] = "wait" => ticked[p]

ReadInv == ControlOK /\ FlagIsFresh /\ NoEarlyReturn

\* A read returns only after an interrupt that came after it began, however many
\* processes share the flag (rtc_read, rtc_process_interrupt).
THEOREM NoEarly == Spec => []NoEarlyReturn
<1>1. Init => ReadInv
  BY DEF Init, ReadInv, ControlOK, FlagIsFresh, NoEarlyReturn
<1>2. ReadInv /\ [Next]_vars => ReadInv'
  <2> SUFFICES ASSUME ReadInv, [Next]_vars
               PROVE  ReadInv'
    OBVIOUS
  <2> USE DEF ReadInv, ControlOK, FlagIsFresh, NoEarlyReturn
  <2>1. ASSUME NEW p \in Procs, \/ OpenSelect(p) \/ OpenRead(p) \/ OpenReselect(p)
                                \/ OpenWrite(p) \/ OpenFrequency(p) \/ rtc_close(p)
        PROVE  ReadInv'
    BY <2>1 DEF OpenSelect, OpenRead, OpenReselect, OpenWrite, OpenFrequency, rtc_close,
                history
  <2>2. ASSUME NEW p \in Procs, NEW f \in Freqs, rtc_write(p, f)
        PROVE  ReadInv'
    BY <2>2 DEF rtc_write, history
  <2>3. ASSUME NEW p \in Procs, OpenClear(p)
        PROVE  ReadInv'
    BY <2>3 DEF OpenClear, Clear
  <2>4. ASSUME NEW p \in Procs, ReadStart(p)
        PROVE  ReadInv'
    BY <2>4 DEF ReadStart, Clear
  <2>5. ASSUME NEW p \in Procs, ReadReturn(p)
        PROVE  ReadInv'
    BY <2>5 DEF ReadReturn, history
  <2>6. CASE Interrupt
    BY <2>6 DEF Interrupt, rtc_process_interrupt
  <2>7. CASE UNCHANGED vars
    BY <2>7 DEF vars, history
  <2> QED
    BY <2>1, <2>2, <2>3, <2>4, <2>5, <2>6, <2>7 DEF Next, ProcStep
<1>3. ReadInv => NoEarlyReturn
  BY DEF ReadInv
<1> QED
  BY <1>1, <1>2, <1>3, PTL DEF Spec

-----------------------------------------------------------------------------
(* Types and the granted frequency                                         *)

\* The frequencies and the values of register A that stand for them, with the
\* divider of the BIOS in the high nibble
Rates == {<<2, 47>>, <<4, 46>>, <<8, 45>>, <<16, 44>>, <<32, 43>>, <<64, 42>>,
          <<128, 41>>, <<256, 40>>, <<512, 39>>, <<1024, 38>>}

\* What makes TypeOK and FrequencySet inductive: register A always holds the rate
\* of the granted frequency, register B has bit 6, and no step leaves A or C
\* selected, so the write of rtc_init reaches B or nothing.
ChipInv ==
    /\ <<granted, regA>> \in Rates
    /\ OrBit6(regB) = regB
    /\ index \in {"B", "D"}

FrequencyInv == TypeOK /\ ChipInv

\* The bit that rtc_init sets keeps a byte a byte.
LEMMA OrBit6Byte ==
    \A byte \in 0 .. 255 : OrBit6(byte) \in 0 .. 255 /\ OrBit6(OrBit6(byte)) = OrBit6(byte)
BY DEF OrBit6, BIT6

\* The registers of the invariant make the chip interrupt at the granted frequency.
LEMMA RateOfGranted == FrequencyInv => FrequencySet
<1> SUFFICES ASSUME FrequencyInv
             PROVE  Hz = granted
  BY DEF FrequencySet
<1> USE DEF FrequencyInv, ChipInv, Hz, DividerOn
<1>1. CASE granted = 2 /\ regA = 47
  BY <1>1
<1>2. CASE granted = 4 /\ regA = 46
  BY <1>2
<1>3. CASE granted = 8 /\ regA = 45
  BY <1>3
<1>4. CASE granted = 16 /\ regA = 44
  BY <1>4
<1>5. CASE granted = 32 /\ regA = 43
  BY <1>5
<1>6. CASE granted = 64 /\ regA = 42
  BY <1>6
<1>7. CASE granted = 128 /\ regA = 41
  BY <1>7
<1>8. CASE granted = 256 /\ regA = 40
  BY <1>8
<1>9. CASE granted = 512 /\ regA = 39
  BY <1>9
<1>10. CASE granted = 1024 /\ regA = 38
  BY <1>10
<1> QED
  BY <1>1, <1>2, <1>3, <1>4, <1>5, <1>6, <1>7, <1>8, <1>9, <1>10 DEF Rates

\* rtc_set_frequency leaves a rate that stands for the frequency it grants, also
\* when it refuses its argument.
LEMMA SetFrequency ==
    ASSUME IndexResets, FrequencyInv,
           NEW f \in Int, f \in 2 .. 1024 => f \in Powers \/ f % 2 = 1,
           rtc_set_frequency(f)
    PROVE  /\ <<granted', regA'>> \in Rates
           /\ index' \in {"B", "D"}
<1>1. CASE f \notin 2 .. 1024
  BY <1>1 DEF rtc_set_frequency, FrequencyInv, ChipInv
<1>2. CASE f \in 2 .. 1024 /\ f % 2 = 1
  <2>1. rtc_get_power_of_2[f] = INT_MAX
    BY <1>2, PowerValues, ZenonT(40)
  <2> QED
    BY <2>1 DEF rtc_set_frequency, FrequencyInv, ChipInv
<1>3. CASE f \in Powers
  <2>1. regA \div 16 = 2
    BY DEF FrequencyInv, ChipInv, Rates
  <2>2. f \in 2 .. 1024 /\ <<f, 32 + Rate(rtc_get_power_of_2[f])>> \in Rates
    BY <1>3, PowerValues DEF Powers, Rates, Rate
  <2>3. rtc_get_power_of_2[f] # INT_MAX
    BY <1>3, PowerValues, SMT DEF Powers, INT_MAX
  <2>4. granted' = f /\ regA' = 32 + Rate(rtc_get_power_of_2[f]) /\ index' = "D"
    BY <2>1, <2>2, <2>3 DEF rtc_set_frequency, After
  <2> QED
    BY <2>2, <2>4
<1> QED
  BY <1>1, <1>2, <1>3

\* A pair of Rates has its two halves in the ranges of TypeOK.
LEMMA RatesType ==
    ASSUME NEW g, NEW a, <<g, a>> \in Rates
    PROVE  g \in 2 .. 1024 /\ a \in 0 .. 255 /\ a % 16 \in 6 .. 15
BY DEF Rates

\* Every step keeps the invariant.
LEMMA FrequencyStep ==
    ASSUME IndexResets, PlainWrites, FrequencyInv, [Next]_vars
    PROVE  FrequencyInv'
<1> USE DEF FrequencyInv, ChipInv, TypeOK
<1>1. ASSUME NEW p \in Procs, OpenSelect(p) \/ OpenReselect(p)
      PROVE  FrequencyInv'
  BY <1>1, SMTT(30) DEF OpenSelect, OpenReselect, history, OrBit6
<1>2. ASSUME NEW p \in Procs, OpenRead(p)
      PROVE  FrequencyInv'
  <2>1. Read(index) \in 0 .. 255
    BY DEF Read
  <2>2. index' = "D"
    BY <1>2 DEF OpenRead, After
  <2> QED
    BY <1>2, <2>1, <2>2 DEF OpenRead, history, OrBit6
<1>3. ASSUME NEW p \in Procs, OpenWrite(p)
      PROVE  FrequencyInv'
  <2>1. regB' \in 0 .. 255 /\ (OrBit6(regB) = regB)'
    BY <1>3, OrBit6Byte, ZenonT(40) DEF OpenWrite
  <2>2. regA' = regA /\ index' = "D"
    BY <1>3 DEF OpenWrite, After
  <2> QED
    BY <1>3, <2>1, <2>2, SMTT(30) DEF OpenWrite, history
<1>4. ASSUME NEW p \in Procs, OpenClear(p)
      PROVE  FrequencyInv'
  BY <1>4 DEF OpenClear, Clear, chip, OrBit6
<1>5. ASSUME NEW p \in Procs, OpenFrequency(p) \/ rtc_close(p)
      PROVE  FrequencyInv'
  <2>1. rtc_set_frequency(2)
    BY <1>5 DEF OpenFrequency, rtc_close
  <2>2. <<granted', regA'>> \in Rates /\ index' \in {"B", "D"}
    BY <2>1, SetFrequency DEF Powers
  <2>3. granted' \in 2 .. 1024 /\ regA' \in 0 .. 255 /\ regA' % 16 \in 6 .. 15
    BY <2>2, RatesType
  <2>4. regB' = regB /\ (OrBit6(regB) = regB)'
    BY <1>5 DEF OpenFrequency, rtc_close, OrBit6
  <2>5. /\ UNCHANGED <<interrupt_received, regC, prev, ticked, robbed>>
        /\ at' = [at EXCEPT ![p] = "run"]
        /\ opened' \subseteq Procs
    BY <1>5 DEF OpenFrequency, rtc_close, history
  <2> QED
    BY <2>2, <2>3, <2>4, <2>5, ZenonT(40)
<1>6. ASSUME NEW p \in Procs, NEW f \in Freqs, rtc_write(p, f)
      PROVE  FrequencyInv'
  <2>1. f \in Int /\ (f \in 2 .. 1024 => f \in Powers \/ f % 2 = 1)
    BY RtcAssumption DEF PlainWrites
  <2>2. <<granted', regA'>> \in Rates /\ index' \in {"B", "D"}
    BY <1>6, <2>1, SetFrequency DEF rtc_write
  <2>3. granted' \in 2 .. 1024 /\ regA' \in 0 .. 255 /\ regA' % 16 \in 6 .. 15
    BY <2>2, RatesType
  <2> QED
    BY <1>6, <2>2, <2>3, ZenonT(40) DEF rtc_write, history, OrBit6
<1>7. ASSUME NEW p \in Procs, ReadStart(p)
      PROVE  FrequencyInv'
  BY <1>7 DEF ReadStart, Clear, chip, OrBit6
<1>8. ASSUME NEW p \in Procs, ReadReturn(p)
      PROVE  FrequencyInv'
  BY <1>8 DEF ReadReturn, chip, history, OrBit6
<1>9. CASE Interrupt
  BY <1>9 DEF Interrupt, rtc_process_interrupt, After, OrBit6
<1>10. CASE UNCHANGED vars
  BY <1>10 DEF vars, chip, history, OrBit6
<1> QED
  BY <1>1, <1>2, <1>3, <1>4, <1>5, <1>6, <1>7, <1>8, <1>9, <1>10 DEF Next, ProcStep

\* kernel.c has opened the RTC once: 2 Hz, bit 6 on.
LEMMA FrequencyInit == ASSUME IndexResets, Init PROVE FrequencyInv
<1>1. regA = 47 /\ granted = 2 /\ index = "D"
  BY PowerValues DEF Init, After, Rate, DividerOn
<1>2. regB = 66 /\ OrBit6(regB) = regB
  BY DEF Init, OrBit6, BIT6
<1>3. ChipInv
  BY <1>1, <1>2 DEF ChipInv, Rates
<1>4. TypeOK
  <2>1. regA \in 0 .. 255 /\ regA % 16 \in 6 .. 15 /\ regB \in 0 .. 255
    BY <1>1, <1>2
  <2>2. prev \in [Procs -> 0 .. 255]
    BY DEF Init
  <2>3. /\ opened \subseteq Procs /\ regC \in BOOLEAN
        /\ ticked \in [Procs -> BOOLEAN] /\ robbed \in [Procs -> BOOLEAN]
        /\ at \in [Procs -> {"run"}]
    BY DEF Init
  <2>4. interrupt_received = 0
    BY DEF Init
  <2> QED
    BY <1>1, <2>1, <2>2, <2>3, <2>4 DEF TypeOK
<1> QED
  BY <1>3, <1>4 DEF FrequencyInv

\* The invariant holds always, on a chip that resets its index.
LEMMA FrequencyAlways ==
    ASSUME IndexResets, PlainWrites
    PROVE  Spec => []FrequencyInv
<1>1. Init => FrequencyInv
  BY FrequencyInit
<1>2. FrequencyInv /\ [Next]_vars => FrequencyInv'
  BY FrequencyStep
<1> QED
  BY <1>1, <1>2, PTL DEF Spec

\* The driver's state and the chip's registers are well typed, and the rate of
\* register A always stands for 2 .. 1024 Hz: rtc_set_frequency never writes a
\* rate of 0 (which would stop the clock) or a faster one.
THEOREM RtcTypeCorrect ==
    ASSUME IndexResets, PlainWrites
    PROVE  Spec => []TypeOK
<1>1. FrequencyInv => TypeOK
  BY DEF FrequencyInv
<1> QED
  BY <1>1, FrequencyAlways, PTL

\* The chip interrupts at the frequency of the last successful rtc_set_frequency,
\* whatever opens, closes, refused writes and interrupts happen in between.
THEOREM FrequencyCorrect ==
    ASSUME IndexResets, PlainWrites
    PROVE  Spec => []FrequencySet
BY RateOfGranted, FrequencyAlways, PTL
=============================================================================
