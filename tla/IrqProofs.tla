------------------------------ MODULE IrqProofs ------------------------------
(***************************************************************************)
(* Proofs about interrupts, for every number of terminals and every depth  *)
(* of the programs on them: no handler interrupts another one, and the     *)
(* interrupt flag is off exactly where the code means it to be.            *)
(***************************************************************************)
EXTENDS Irq, SequenceTheorems, TLAPS

-----------------------------------------------------------------------------
(* The inductive invariant                                                 *)

Handler == [irq : Irqs, at : {"entered", "processed", "eoi"}, flag : BOOLEAN]

\* Interrupts are off in a handler, so there is at most one.  The flag it will
\* return to is on.  The in-service bits are its own, and gone once it has sent
\* its end of interrupt.
INest ==
    \/ handlers = <<>> /\ isr = {}
    \/ \E h \in Handler :
          /\ handlers = <<h>>
          /\ ~IFlag
          /\ h.flag
          /\ isr \subseteq Bits(h.irq)
          /\ h.at = "eoi" => isr = {}

\* Until its sti the boot thread has the CPU, with interrupts off, and each step
\* has unmasked one more device.
IBoot ==
    /\ at[Boot] \in {"rtc_open", "keyboard_init", "pit_init", "sti", "hlt"}
    /\ section[Boot] = "none"
    /\ at[Boot] # "hlt" => cur = Boot /\ ~IFlag /\ handlers = <<>>
    /\ at[Boot] = "rtc_open" => mask = Lines
    /\ at[Boot] = "keyboard_init" => mask = Lines \ {RTC, CASCADE}
    /\ at[Boot] = "pit_init" => mask = Lines \ {RTC, CASCADE, KEYBOARD}
    /\ at[Boot] \in {"sti", "hlt"} => mask = Lines \ {RTC, CASCADE, KEYBOARD, PIT}

\* Where a thread is, the sections it can be in there, and its frames
IThread(t) ==
    /\ at[t] \in {"user", "sys", "exc", "dying", "created", "nopid", "ending"}
    /\ section[t] = "write" => at[t] \in {"sys", "dying"}
    /\ section[t] \in {"driver", "create"} => at[t] = "sys"
    /\ section[t] = "end" => at[t] = "ending"
    /\ section[t] \in {"driver", "create", "end"} => flags[t]
    /\ at[t] \in {"sys", "created", "nopid", "ending"} => frames[t] # <<>>
    /\ at[t] \in {"user", "exc", "dying"} => Len(frames[t]) <= MaxDepth

\* The thread runs with interrupts off
Off(t) == section[t] # "none" \/ at[t] \in {"exc", "nopid"}

\* The flag of each thread, wherever it is kept: on, unless the thread is where
\* the code turns it off, and then it has the CPU and no handler runs.
IFlags(t) ==
    /\ Off(t) => cur = t /\ handlers = <<>> /\ ~IFlag
    /\ cur = t /\ handlers = <<>> /\ ~Off(t) => IFlag
    /\ cur # t => eflags[t]

\* System calls are made with interrupts on, so every frame says so.
IFrames == frames \in [Threads -> Seq({TRUE})]

IInv ==
    /\ TypeOK /\ IFrames
    /\ INest /\ IBoot
    /\ \A t \in Trees : IThread(t)
    /\ \A t \in Trees : IFlags(t)

\* What the properties need of it
LEMMA InvImplies == IInv => NoNesting /\ FlagMatchesCode
<1> SUFFICES ASSUME IInv PROVE NoNesting /\ FlagMatchesCode
  OBVIOUS
<1>1. NoNesting
  <2>1. CASE handlers = <<>>
    BY <2>1 DEF IInv, INest, NoNesting
  <2>2. CASE handlers # <<>>
    BY <2>2 DEF IInv, INest, NoNesting, Innermost
  <2> QED
    BY <2>1, <2>2
<1>2. FlagMatchesCode
  <2>1. ASSUME NEW t \in Trees, section[t] # "none"
        PROVE  cur = t /\ handlers = <<>> /\ ~IFlag
    BY <2>1 DEF IInv, IFlags, Off
  <2>2. ASSUME NEW t \in Trees, section[t] = "none",
               at[t] \in {"user", "sys", "dying", "created", "ending"}
        PROVE  IF t # cur THEN eflags[t]
               ELSE IF handlers = <<>> THEN IFlag ELSE Innermost.flag
    <3>1. ~Off(t)
      BY <2>2 DEF Off
    <3>2. handlers # <<>> => Innermost.flag
      BY DEF IInv, INest, Innermost
    <3> QED
      BY <3>1, <3>2 DEF IInv, IFlags
  <2> QED
    BY <2>1, <2>2 DEF FlagMatchesCode
<1> QED
  BY <1>1, <1>2

-----------------------------------------------------------------------------
(* Boot                                                                    *)

\* The boot thread has the CPU; the others are ready to run.
LEMMA InitInv == Init => IInv
<1> SUFFICES ASSUME Init PROVE IInv
  OBVIOUS
<1> USE IrqAssumption DEF Init, i8259_init, Threads, Boot
<1>1. \A t \in Trees : /\ at[t] = "user" /\ section[t] = "none"
                       /\ frames[t] = <<>> /\ eflags[t] /\ t # Boot
  OBVIOUS
<1>2. at[Boot] = "rtc_open" /\ section[Boot] = "none"
  OBVIOUS
<1>3. TypeOK
  <2>1. \A t \in Threads : frames[t] = <<>>
    OBVIOUS
  <2>2. \A t \in Threads : frames[t] \in Seq(BOOLEAN) /\ Len(frames[t]) <= MaxDepth + 1
    BY <2>1
  <2>3. /\ irr \subseteq Irqs /\ isr \subseteq Irqs \cup {CASCADE} /\ mask \subseteq Lines
        /\ unread \subseteq {KEYBOARD, RTC} /\ busy \subseteq Irqs
        /\ cur \in Threads
        /\ at \in [Threads -> {"rtc_open", "keyboard_init", "pit_init", "sti", "hlt", "user",
                               "sys", "exc", "dying", "created", "nopid", "ending"}]
        /\ section \in [Threads -> {"none", "write", "driver", "create", "end"}]
    OBVIOUS
  <2>4. /\ IFlag \in BOOLEAN
        /\ flags \in [Threads -> BOOLEAN]
        /\ eflags \in [Threads -> BOOLEAN]
    BY Zenon
  <2>5. handlers \in Seq([irq : Irqs, at : {"entered", "processed", "eoi"}, flag : BOOLEAN])
    OBVIOUS
  <2> QED
    BY <1>2, <2>2, <2>3, <2>4, <2>5, Zenon DEF TypeOK
<1>4. IFrames
  BY DEF IFrames
<1>5. INest /\ IBoot
  BY <1>2 DEF INest, IBoot
<1>6. \A t \in Trees : IThread(t)
  <2> TAKE t \in Trees
  <2>1. Len(frames[t]) <= MaxDepth
    BY <1>1
  <2> QED
    BY <1>1, <2>1, Zenon DEF IThread
<1>7. \A t \in Trees : IFlags(t)
  BY <1>1 DEF IFlags, Off
<1> QED
  BY <1>3, <1>4, <1>5, <1>6, <1>7 DEF IInv

\* What the devices and the controllers do by themselves is not looked at.
LEMMA DeviceStep ==
    ASSUME IInv, (\E irq \in Irqs : Raise(irq)) \/ Lull \/ UNCHANGED vars
    PROVE  IInv'
<1>1. /\ UNCHANGED <<isr, mask, IFlag, cur, handlers, at, section, flags, frames, eflags>>
      /\ irr' \subseteq Irqs /\ unread' \subseteq {KEYBOARD, RTC} /\ busy' \subseteq Irqs
  BY DEF Raise, Lull, vars, pic, thread, IInv, TypeOK, Irqs
<1>2. TypeOK' /\ IFrames' /\ INest' /\ IBoot'
  BY <1>1 DEF IInv, TypeOK, IFrames, INest, IBoot
<1>3. \A t \in Trees : IThread(t)' /\ IFlags(t)'
  BY <1>1 DEF IInv, IThread, IFlags, Off
<1> QED
  BY <1>2, <1>3 DEF IInv

\* kernel.c unmasks the devices, then turns interrupts on.
LEMMA BootInv == ASSUME IInv, BootStep PROVE IInv'
<1>1. /\ UNCHANGED <<irr, isr, unread, busy, cur, handlers, section, flags, frames, eflags>>
      /\ at[Boot] # "hlt" /\ cur = Boot /\ ~IFlag /\ handlers = <<>>
      /\ \A t \in Trees : at'[t] = at[t] /\ t # Boot
  BY IrqAssumption DEF BootStep, BootEnable, BootSti, pic, IInv, IBoot, Boot, TypeOK, Threads
<1>2. /\ at' \in [Threads -> {"rtc_open", "keyboard_init", "pit_init", "sti", "hlt", "user",
                             "sys", "exc", "dying", "created", "nopid", "ending"}]
      /\ Boot \in Threads
  BY DEF BootStep, BootEnable, BootSti, IInv, TypeOK, Threads
<1>3. \/ /\ at'[Boot] \in {"keyboard_init", "pit_init", "sti"} /\ IFlag' = IFlag
      \/ at'[Boot] = "hlt" /\ IFlag' = TRUE /\ UNCHANGED mask
  BY <1>2 DEF BootStep, BootEnable, BootSti, pic, IInv, TypeOK
<1>4. IBoot'
  <2>1. CASE BootEnable("rtc_open", RTC, "keyboard_init")
    BY <1>1, <1>2, <2>1 DEF BootEnable, enable_irq, Bits, IInv, IBoot, RTC, CASCADE, TypeOK
  <2>2. CASE BootEnable("keyboard_init", KEYBOARD, "pit_init")
    BY <1>1, <1>2, <2>2 DEF BootEnable, enable_irq, Bits, IInv, IBoot, RTC, CASCADE, TypeOK,
       KEYBOARD
  <2>3. CASE BootEnable("pit_init", PIT, "sti")
    BY <1>1, <1>2, <2>3 DEF BootEnable, enable_irq, Bits, IInv, IBoot, RTC, CASCADE, TypeOK,
       KEYBOARD, PIT
  <2>4. CASE BootSti
    BY <1>1, <1>2, <2>4 DEF BootSti, IInv, IBoot, TypeOK, pic
  <2> QED
    BY <2>1, <2>2, <2>3, <2>4 DEF BootStep
<1>5. TypeOK'
  <2>1. IFlag' \in BOOLEAN /\ mask' \subseteq Lines
    BY <1>1, <1>4, <1>3 DEF IBoot, IInv, TypeOK
  <2>2. at'[Boot] = "hlt" => mask' = Lines \ (Irqs \cup {CASCADE})
    BY <1>4 DEF IBoot, Irqs
  <2> QED
    BY <1>1, <1>2, <2>1, <2>2 DEF IInv, TypeOK
<1>6. IFrames' /\ INest'
  BY <1>1 DEF IInv, IFrames, INest
<1>7. \A t \in Trees : IThread(t)'
  BY <1>1 DEF IInv, IThread
<1>8. \A t \in Trees : IFlags(t)'
  BY <1>1 DEF IInv, IFlags, Off
<1> QED
  BY <1>4, <1>5, <1>6, <1>7, <1>8 DEF IInv

-----------------------------------------------------------------------------
(* The handlers                                                            *)

\* A handler is entered only with interrupts on, so no other one is in progress.
LEMMA DeliverInv == ASSUME IInv, NEW irq \in Irqs, Deliver(irq) PROVE IInv'
<1> DEFINE h == [irq |-> irq, at |-> "entered", flag |-> IFlag]
<1>1. IFlag /\ handlers = <<>> /\ isr = {}
  BY DEF Deliver, IInv, INest
<1>2. h \in Handler /\ handlers' = <<h>> /\ ~IFlag' /\ IFlag' \in BOOLEAN
  <2>1. h \in Handler
    BY DEF Handler, IInv, TypeOK
  <2>2. handlers' = <<h>> /\ IFlag' = FALSE
    BY <1>1 DEF Deliver
  <2> QED
    BY <2>1, <2>2
<1>3. isr' = Bits(irq)
  BY <1>1 DEF Deliver
<1>4. UNCHANGED <<mask, unread, busy, cur, at, section, flags, frames, eflags>>
      /\ irr' \subseteq irr
  BY DEF Deliver, thread
<1>5. TypeOK' /\ IFrames'
  <2>1. isr' \subseteq Irqs \cup {CASCADE}
    BY <1>3 DEF Bits
  <2>2. handlers' \in Seq([irq : Irqs, at : {"entered", "processed", "eoi"}, flag : BOOLEAN])
    BY <1>2 DEF Handler
  <2> QED
    BY <1>2, <1>4, <2>1, <2>2 DEF IInv, TypeOK, IFrames
<1>6. INest'
  <2>1. h.flag /\ h.irq = irq /\ h.at = "entered"
    BY <1>1
  <2> HIDE DEF h
  <2> QED
    BY <1>2, <1>3, <2>1, Zenon DEF INest
<1>7. IBoot'
  BY <1>1, <1>2, <1>4 DEF IInv, IBoot
<1>8. \A t \in Trees : IThread(t)'
  BY <1>4 DEF IInv, IThread
<1>9. \A t \in Trees : IFlags(t)'
  <2> TAKE t \in Trees
  <2>1. ~Off(t)
    BY <1>1 DEF IInv, IFlags
  <2> QED
    BY <1>2, <1>4, <2>1 DEF IInv, IFlags, Off
<1> QED
  BY <1>5, <1>6, <1>7, <1>8, <1>9 DEF IInv

\* With one handler h in progress, it is the innermost one, and it is not Boot's
\* start any more: interrupts have been on.
LEMMA OneHandler ==
    ASSUME IInv, handlers # <<>>
    PROVE  \E h \in Handler :
              /\ handlers = <<h>> /\ Innermost = h
              /\ ~IFlag /\ h.flag
              /\ isr \subseteq Bits(h.irq)
              /\ h.at = "eoi" => isr = {}
              /\ at[Boot] = "hlt"
              /\ \A t \in Trees : ~Off(t)
              /\ \A x : Done(x) <=> handlers' = <<x>>
<1>1. PICK h \in Handler : /\ handlers = <<h>>
                           /\ ~IFlag
                           /\ h.flag
                           /\ isr \subseteq Bits(h.irq)
                           /\ h.at = "eoi" => isr = {}
  BY DEF IInv, INest
<1>2. Innermost = h
  BY <1>1 DEF Innermost
<1>3. at[Boot] = "hlt"
  BY <1>1 DEF IInv, IBoot
<1>4. \A t \in Trees : ~Off(t)
  BY <1>1 DEF IInv, IFlags
<1>5. \A x : Done(x) <=> handlers' = <<x>>
  <2>1. ASSUME NEW x PROVE [<<h>> EXCEPT ![1] = x] = <<x>>
    OBVIOUS
  <2> QED
    BY <1>1, <2>1 DEF Done
<1> QED
  BY <1>1, <1>2, <1>3, <1>4, <1>5

\* A step of the handler h to another point of it
LEMMA HandlerKeeps ==
    ASSUME IInv, handlers # <<>>,
           NEW h \in Handler, handlers' = <<h>>, h.flag,
           UNCHANGED <<irr, mask, busy, IFlag, at, section, flags, frames>>,
           unread' \subseteq unread,
           isr' \subseteq isr, isr' \subseteq Bits(h.irq), h.at = "eoi" => isr' = {},
           cur' \in Threads,
           eflags' \in [Threads -> BOOLEAN], \A t \in Trees : cur' # t => eflags'[t]
    PROVE  IInv'
<1>1. at[Boot] = "hlt" /\ ~IFlag /\ \A t \in Trees : ~Off(t)
  BY OneHandler
<1>2. TypeOK' /\ IFrames'
  <2>1. handlers' \in Seq([irq : Irqs, at : {"entered", "processed", "eoi"}, flag : BOOLEAN])
    BY DEF Handler
  <2> QED
    BY <2>1 DEF IInv, TypeOK, IFrames
<1>3. INest'
  BY <1>1 DEF INest
<1>4. IBoot'
  BY <1>1 DEF IInv, IBoot
<1>5. \A t \in Trees : IThread(t)'
  BY DEF IInv, IThread
<1>6. \A t \in Trees : IFlags(t)'
  BY <1>1 DEF IFlags, Off
<1> QED
  BY <1>2, <1>3, <1>4, <1>5, <1>6 DEF IInv

\* The tick keeps the flag of the thread it leaves and takes that of the next one.
LEMMA TickInv == ASSUME IInv, NEW next \in Trees, pit_process_interrupt(next) PROVE IInv'
<1>0. handlers # <<>>
  BY DEF pit_process_interrupt, In
<1>1. PICK h \in Handler :
         /\ Innermost = h /\ ~IFlag /\ h.flag
         /\ isr \subseteq Bits(h.irq)
         /\ \A x : Done(x) <=> handlers' = <<x>>
  BY <1>0, OneHandler
<1>2. /\ eflags' = [eflags EXCEPT ![cur] = h.flag]
      /\ cur' = next
      /\ handlers' = <<[h EXCEPT !.at = "processed", !.flag = eflags'[next]]>>
      /\ UNCHANGED <<pic, IFlag, thread>>
  BY <1>1 DEF pit_process_interrupt
<1> DEFINE g == [h EXCEPT !.at = "processed", !.flag = eflags'[next]]
<1>3. next \in Threads /\ cur \in Threads /\ eflags \in [Threads -> BOOLEAN] /\ h.flag \in BOOLEAN
  BY DEF Threads, IInv, TypeOK, Handler
<1>4. eflags' \in [Threads -> BOOLEAN] /\ eflags'[cur] /\ \A t \in Threads : t # cur => eflags'[t] = eflags[t]
  BY <1>1, <1>2, <1>3
<1>5. \A t \in Trees : eflags'[t]
  BY <1>4 DEF IInv, IFlags, Threads
<1>6. g \in Handler /\ g.flag /\ g.irq = h.irq /\ g.at = "processed"
  BY <1>3, <1>4, <1>5 DEF Handler
<1> HIDE DEF g
<1>7. handlers' = <<g>>
  BY <1>2 DEF g
<1>8. UNCHANGED <<irr, isr, mask, unread, busy, IFlag, at, section, flags, frames>>
  BY <1>2 DEF pic, thread
<1> QED
  BY <1>0, <1>1, <1>2, <1>3, <1>4, <1>5, <1>6, <1>7, <1>8, HandlerKeeps

\* The other handlers, and the end of interrupt, which leaves no bit in service
LEMMA HandlerInv ==
    ASSUME IInv, NEW irq \in Irqs,
           \/ rtc_process_interrupt \/ process_keypress \/ process_keypress_ctrl_c
           \/ HandlerEoi(irq)
    PROVE  IInv'
<1>0. handlers # <<>>
  BY DEF rtc_process_interrupt, process_keypress, process_keypress_ctrl_c, HandlerEoi, In
<1>1. PICK h \in Handler :
         /\ Innermost = h /\ ~IFlag /\ h.flag
         /\ isr \subseteq Bits(h.irq)
         /\ \A x : Done(x) <=> handlers' = <<x>>
  BY <1>0, OneHandler
<1>2. PICK point \in {"processed", "eoi"} :
         /\ Done([h EXCEPT !.at = point])
         /\ point = "eoi" => HandlerEoi(irq)
  BY <1>1 DEF rtc_process_interrupt, process_keypress, process_keypress_ctrl_c, HandlerEoi
<1> DEFINE g == [h EXCEPT !.at = point]
<1>3. g \in Handler /\ g.flag /\ g.irq = h.irq /\ g.at = point
  BY <1>1 DEF Handler
<1>4. handlers' = <<g>>
  BY <1>1, <1>2
<1> HIDE DEF g
<1>5. /\ UNCHANGED <<irr, mask, busy, IFlag, cur, at, section, flags, frames, eflags>>
      /\ unread' \subseteq unread /\ isr' \subseteq isr
  BY DEF rtc_process_interrupt, process_keypress, process_keypress_ctrl_c, HandlerEoi, thread,
     send_eoi
<1>6. point = "eoi" => isr' = {}
  <2> SUFFICES ASSUME HandlerEoi(irq) PROVE isr' = {}
    BY <1>2
  <2>1. h.irq = irq /\ isr' = isr \ Bits(irq)
    BY <1>1 DEF HandlerEoi, In, send_eoi
  <2> QED
    BY <1>1, <2>1
<1>7. cur \in Threads /\ eflags \in [Threads -> BOOLEAN] /\ \A t \in Trees : cur # t => eflags[t]
  BY DEF IInv, TypeOK, IFlags
<1> QED
  BY <1>0, <1>1, <1>3, <1>4, <1>5, <1>6, <1>7, HandlerKeeps

\* A handler returns to a thread that had interrupts on, with no bit in service.
LEMMA IretInv == ASSUME IInv, NEW irq \in Irqs, HandlerIret(irq) PROVE IInv'
<1>0. handlers # <<>>
  BY DEF HandlerIret, In
<1>1. PICK h \in Handler :
         /\ handlers = <<h>> /\ Innermost = h /\ h.flag
         /\ h.at = "eoi" => isr = {}
         /\ at[Boot] = "hlt"
         /\ \A t \in Trees : ~Off(t)
  BY <1>0, OneHandler
<1>2. /\ IFlag' = h.flag /\ IFlag' \in BOOLEAN /\ isr = {}
      /\ UNCHANGED <<pic, cur, thread, eflags>>
  BY <1>1 DEF HandlerIret, In, Handler
<1>3. handlers' = <<>>
  <2>1. Len(<<h>>) = 1
    OBVIOUS
  <2>2. SubSeq(<<h>>, 1, 0) = <<>>
    OBVIOUS
  <2> QED
    BY <1>1, <2>1, <2>2 DEF HandlerIret
<1>4. UNCHANGED <<irr, isr, mask, unread, busy, cur, at, section, flags, frames, eflags>>
  BY <1>2 DEF pic, thread
<1>5. TypeOK' /\ IFrames'
  <2>1. handlers' \in Seq([irq : Irqs, at : {"entered", "processed", "eoi"}, flag : BOOLEAN])
    BY <1>3
  <2> QED
    BY <1>2, <1>4, <2>1 DEF IInv, TypeOK, IFrames
<1>6. INest'
  BY <1>2, <1>3, <1>4 DEF INest
<1>7. IBoot'
  BY <1>1, <1>4 DEF IInv, IBoot
<1>8. \A t \in Trees : IThread(t)'
  BY <1>4 DEF IInv, IThread
<1>9. \A t \in Trees : IFlags(t)'
  <2>1. IFlag'
    BY <1>1, <1>2
  <2> QED
    BY <1>1, <1>4, <2>1 DEF IInv, IFlags, Off
<1> QED
  BY <1>5, <1>6, <1>7, <1>8, <1>9 DEF IInv

-----------------------------------------------------------------------------
(* The threads                                                             *)

Points == {"rtc_open", "keyboard_init", "pit_init", "sti", "hlt", "user",
           "sys", "exc", "dying", "created", "nopid", "ending"}

\* A sequence of frames without its last one, which is also one of its elements.
LEMMA FrontFacts ==
    ASSUME NEW S, NEW fr \in Seq(S), fr # <<>>
    PROVE  /\ Front(fr) \in Seq(S)
           /\ Len(Front(fr)) = Len(fr) - 1
           /\ fr[Len(fr)] \in S
<1>1. Len(fr) \in Nat /\ Len(fr) > 0
  BY EmptySeq
<1>2. 1 \in Int /\ Len(fr) - 1 \in Int /\ \A i \in 1 .. Len(fr) - 1 : fr[i] \in S
  BY <1>1, ElementOfSeq
<1>3. /\ SubSeq(fr, 1, Len(fr) - 1) \in Seq(S)
      /\ Len(SubSeq(fr, 1, Len(fr) - 1)) =
            IF 1 <= Len(fr) - 1 THEN Len(fr) - 1 - 1 + 1 ELSE 0
  BY <1>2, SubSeqProperties
<1>4. Len(SubSeq(fr, 1, Len(fr) - 1)) = Len(fr) - 1
  <2> DEFINE n == Len(fr)
             m == Len(SubSeq(fr, 1, Len(fr) - 1))
  <2>1. n \in Nat /\ n > 0 /\ m = IF 1 <= n - 1 THEN n - 1 - 1 + 1 ELSE 0
    BY <1>1, <1>3
  <2> HIDE DEF n, m
  <2>2. m = n - 1
    BY <2>1
  <2> QED
    BY <2>2 DEF n, m
<1>5. Len(fr) \in 1 .. Len(fr)
  BY <1>1
<1> QED
  BY <1>3, <1>4, <1>5, ElementOfSeq DEF Front

\* A sequence over a set is one over a larger set.
LEMMA SeqOfSubset ==
    ASSUME NEW S, NEW T, S \subseteq T, NEW s \in Seq(S)
    PROVE  s \in Seq(T)
<1>1. Len(s) \in Nat /\ s \in [1 .. Len(s) -> S]
  BY LenProperties
<1>2. s \in [1 .. Len(s) -> T]
  BY <1>1
<1> QED
  BY <1>1, <1>2

\* A step of the thread on the CPU that leaves the others and the controllers
\* alone: it is enough to look at the thread itself.
LEMMA ThreadKeeps ==
    ASSUME IInv, NEW t \in Trees, cur = t, handlers = <<>>,
           UNCHANGED <<pic, cur, handlers, eflags>>,
           NEW a \in Points, at' = [at EXCEPT ![t] = a],
           NEW s \in {"none", "write", "driver", "create", "end"},
           section' = [section EXCEPT ![t] = s],
           NEW fl \in BOOLEAN, flags' = [flags EXCEPT ![t] = fl],
           NEW fr \in Seq({TRUE}), frames' = [frames EXCEPT ![t] = fr],
           Len(fr) <= MaxDepth + 1,
           IFlag' \in BOOLEAN,
           IThread(t)', Off(t)' <=> ~IFlag'
    PROVE  IInv'
<1>1. t # Boot /\ t \in Threads /\ Boot \in Threads /\ isr = {}
  BY IrqAssumption DEF Boot, Threads, IInv, INest
<1>2. UNCHANGED <<irr, isr, mask, unread, busy>>
  BY DEF pic
<1>3. at[Boot] = "hlt" /\ at'[Boot] = "hlt" /\ section'[Boot] = section[Boot]
  BY <1>1 DEF IInv, IBoot, TypeOK
<1>4. \A u \in Threads : u # t => /\ at'[u] = at[u] /\ section'[u] = section[u]
                                  /\ flags'[u] = flags[u] /\ frames'[u] = frames[u]
  BY DEF IInv, TypeOK, IFrames
<1>5. IFrames' /\ frames'[t] = fr
  BY <1>1 DEF IInv, IFrames
<1>6. TypeOK'
  <2>1. at' \in [Threads -> Points] /\ section' \in [Threads -> {"none", "write", "driver", "create", "end"}]
    BY DEF IInv, TypeOK, Points
  <2>2. flags' \in [Threads -> BOOLEAN]
    BY DEF IInv, TypeOK
  <2>3. \A u \in Threads : frames'[u] \in Seq(BOOLEAN) /\ Len(frames'[u]) <= MaxDepth + 1
    <3> TAKE u \in Threads
    <3>1. {TRUE} \subseteq BOOLEAN
      BY Zenon
    <3>2. fr \in Seq(BOOLEAN)
      BY <3>1, SeqOfSubset
    <3> QED
      BY <1>4, <1>5, <3>2 DEF IInv, TypeOK
  <2> QED
    BY <1>2, <1>3, <2>1, <2>2, <2>3 DEF IInv, TypeOK, Points
<1>7. INest' /\ IBoot'
  BY <1>1, <1>2, <1>3 DEF IInv, INest, IBoot
<1>8. ASSUME NEW u \in Trees PROVE IThread(u)' /\ IFlags(u)'
  <2>1. CASE u = t
    BY <2>1 DEF IInv, IFlags
  <2>2. CASE u # t
    <3>1. u \in Threads
      BY DEF Threads
    <3>2. IThread(u)'
      BY <1>4, <2>2, <3>1 DEF IInv, IThread
    <3>3. IFlags(u)'
      BY <1>4, <2>2, <3>1 DEF IInv, IFlags, Off
    <3> QED
      BY <3>2, <3>3
  <2> QED
    BY <2>1, <2>2
<1> QED
  BY <1>5, <1>6, <1>7, <1>8 DEF IInv

\* What the invariant says of the thread that has the CPU
LEMMA OnCpu ==
    ASSUME IInv, NEW t \in Trees, cur = t, handlers = <<>>
    PROVE  /\ at = [at EXCEPT ![t] = at[t]] /\ section = [section EXCEPT ![t] = section[t]]
           /\ flags = [flags EXCEPT ![t] = flags[t]]
           /\ frames = [frames EXCEPT ![t] = frames[t]]
           /\ t \in Threads /\ IThread(t) /\ (~Off(t) <=> IFlag)
           /\ at[t] \in Points /\ section[t] \in {"none", "write", "driver", "create", "end"}
           /\ flags[t] \in BOOLEAN /\ IFlag \in BOOLEAN
           /\ frames[t] \in Seq({TRUE}) /\ Len(frames[t]) \in Nat /\ Len(frames[t]) <= MaxDepth + 1
           /\ at \in [Threads -> Points] /\ section \in [Threads -> {"none", "write", "driver", "create", "end"}]
           /\ flags \in [Threads -> BOOLEAN] /\ frames \in [Threads -> Seq({TRUE})]
<1>1. t \in Threads
  BY DEF Threads
<1>2. /\ at \in [Threads -> Points] /\ section \in [Threads -> {"none", "write", "driver", "create", "end"}]
      /\ flags \in [Threads -> BOOLEAN] /\ frames \in [Threads -> Seq({TRUE})]
      /\ IFlag \in BOOLEAN
  BY DEF IInv, TypeOK, IFrames, Points
<1>3. /\ at = [at EXCEPT ![t] = at[t]] /\ section = [section EXCEPT ![t] = section[t]]
      /\ flags = [flags EXCEPT ![t] = flags[t]]
      /\ frames = [frames EXCEPT ![t] = frames[t]]
  BY <1>2
<1>4. IThread(t) /\ (~Off(t) <=> IFlag)
  BY DEF IInv, IFlags
<1>5. Len(frames[t]) \in Nat /\ Len(frames[t]) <= MaxDepth + 1
  BY <1>1, <1>2 DEF IInv, TypeOK
<1> QED
  BY <1>1, <1>2, <1>3, <1>4, <1>5

\* int 0x80 and its iret
LEMMA SysInv == ASSUME IInv, NEW t \in Trees, SysCall(t) \/ SysReturn(t) PROVE IInv'
<1>0. cur = t /\ handlers = <<>> /\ section[t] = "none"
  BY DEF SysCall, SysReturn, Runs
<1>1. CASE SysCall(t)
  <2>1. at[t] = "user" /\ IFlag /\ IFlag = TRUE
    BY <1>0, <1>1, OnCpu DEF SysCall, Runs, Off
  <2> DEFINE fr == Append(frames[t], IFlag)
  <2>2. fr \in Seq({TRUE}) /\ Len(fr) = Len(frames[t]) + 1 /\ fr # <<>>
    <3>1. IFlag \in {TRUE}
      BY <2>1, Zenon
    <3>2. frames[t] \in Seq({TRUE})
      BY <1>0, OnCpu
    <3> QED
      BY <3>1, <3>2, AppendProperties
  <2>3. Len(fr) <= MaxDepth + 1
    BY <1>0, <2>1, <2>2, OnCpu, IrqAssumption DEF IThread
  <2>4. /\ frames' = [frames EXCEPT ![t] = fr] /\ at' = [at EXCEPT ![t] = "sys"]
        /\ UNCHANGED <<pic, IFlag, cur, handlers, section, flags, eflags>>
    BY <1>1 DEF SysCall, Goto
  <2> HIDE DEF fr
  <2>5. at'[t] = "sys" /\ section'[t] = "none" /\ frames'[t] = fr
    BY <1>0, <2>4, OnCpu
  <2>6. IThread(t)' /\ (Off(t)' <=> ~IFlag')
    BY <2>1, <2>2, <2>4, <2>5 DEF IThread, Off
  <2> QED
    BY <1>0, <2>2, <2>3, <2>4, <2>6, OnCpu, ThreadKeeps DEF Points
<1>2. CASE SysReturn(t)
  <2>1. frames[t] # <<>> /\ frames[t] \in Seq({TRUE})
    BY <1>0, <1>2, OnCpu DEF SysReturn, Runs, IThread
  <2> DEFINE fr == Front(frames[t])
  <2>2. fr \in Seq({TRUE}) /\ Len(fr) = Len(frames[t]) - 1 /\ frames[t][Len(frames[t])] = TRUE
    <3>1. /\ Front(frames[t]) \in Seq({TRUE}) /\ Len(Front(frames[t])) = Len(frames[t]) - 1
          /\ frames[t][Len(frames[t])] \in {TRUE}
      BY <2>1, FrontFacts, Zenon
    <3> QED
      BY <3>1, Zenon
  <2>3. Len(fr) <= MaxDepth
    BY <1>0, <2>2, OnCpu, IrqAssumption
  <2>4. /\ frames' = [frames EXCEPT ![t] = fr] /\ at' = [at EXCEPT ![t] = "user"]
        /\ IFlag' = TRUE
        /\ UNCHANGED <<pic, cur, handlers, section, flags, eflags>>
    BY <1>2, <2>2 DEF SysReturn, Goto
  <2> HIDE DEF fr
  <2>5. at'[t] = "user" /\ section'[t] = "none" /\ frames'[t] = fr
    BY <1>0, <2>4, OnCpu
  <2>6. IThread(t)' /\ (Off(t)' <=> ~IFlag')
    BY <2>3, <2>4, <2>5 DEF IThread, Off
  <2>7. Len(fr) <= MaxDepth + 1
    BY <1>0, <2>2, OnCpu, IrqAssumption
  <2> QED
    BY <1>0, <2>2, <2>4, <2>6, <2>7, OnCpu, ThreadKeeps DEF Points
<1> QED
  BY <1>1, <1>2

\* Steps that change where the thread is, its section, its saved flags and the
\* interrupt flag, and no frame
LEMMA FlagInv ==
    ASSUME IInv, NEW t \in Trees, cur = t, handlers = <<>>,
           UNCHANGED <<pic, cur, handlers, eflags, frames>>,
           NEW a \in Points, at' = [at EXCEPT ![t] = a],
           NEW s \in {"none", "write", "driver", "create", "end"},
           section' = [section EXCEPT ![t] = s],
           NEW fl \in BOOLEAN, flags' = [flags EXCEPT ![t] = fl],
           IFlag' \in BOOLEAN, IFlag' <=> s = "none" /\ a \notin {"exc", "nopid"},
           a \in {"user", "sys", "exc", "dying", "created", "nopid", "ending"},
           s = "write" => a \in {"sys", "dying"},
           s \in {"driver", "create"} => a = "sys" /\ fl,
           s = "end" => a = "ending" /\ fl,
           a \in {"sys", "created", "nopid", "ending"} => frames[t] # <<>>,
           a \in {"user", "exc", "dying"} => Len(frames[t]) <= MaxDepth
    PROVE  IInv'
<1>1. /\ at'[t] = a /\ section'[t] = s /\ flags'[t] = fl /\ frames'[t] = frames[t]
      /\ frames' = [frames EXCEPT ![t] = frames[t]]
      /\ frames[t] \in Seq({TRUE}) /\ Len(frames[t]) <= MaxDepth + 1
  BY OnCpu
<1>2. IThread(t)'
  BY <1>1 DEF IThread
<1>3. Off(t)' <=> ~IFlag'
  BY <1>1 DEF Off
<1> QED
  BY <1>1, <1>2, <1>3, ThreadKeeps

\* Exceptions: off until the report is done
LEMMA FaultInv == ASSUME IInv, NEW t \in Trees, Fault(t) \/ do_common_intr(t) PROVE IInv'
<1>1. cur = t /\ handlers = <<>> /\ section[t] = "none"
  BY DEF Fault, do_common_intr, Runs
<1>2. PICK a \in {"exc", "dying"} :
         /\ at' = [at EXCEPT ![t] = a]
         /\ at[t] \in {"user", "exc"}
         /\ IFlag' = IF a = "exc" THEN FALSE ELSE TRUE
         /\ UNCHANGED <<pic, cur, handlers, section, flags, eflags, frames>>
  BY DEF Fault, do_common_intr, Runs, Goto
<1>3. IFlag' \in BOOLEAN /\ (IFlag' <=> a \notin {"exc", "nopid"})
  BY <1>2
<1>4. Len(frames[t]) <= MaxDepth
  BY <1>1, <1>2, OnCpu DEF IThread
<1>5. section' = [section EXCEPT ![t] = "none"] /\ flags' = [flags EXCEPT ![t] = flags[t]]
      /\ flags[t] \in BOOLEAN
  BY <1>1, <1>2, OnCpu
<1> QED
  BY <1>1, <1>2, <1>3, <1>4, <1>5, FlagInv DEF Points

\* terminal_write turns interrupts off and on again; it is called only where
\* they are on.
LEMMA WriteInv == ASSUME IInv, NEW t \in Trees, WriteCli(t) \/ WriteSti(t) PROVE IInv'
<1>1. cur = t /\ handlers = <<>> /\ at[t] \in {"sys", "dying"}
  BY OnCpu DEF WriteCli, WriteSti, Runs, IThread
<1>2. PICK s \in {"none", "write"} :
         /\ section' = [section EXCEPT ![t] = s]
         /\ IFlag' = IF s = "none" THEN TRUE ELSE FALSE
         /\ UNCHANGED <<pic, cur, handlers, at, flags, eflags, frames>>
  BY DEF WriteCli, WriteSti
<1>3. IFlag' \in BOOLEAN /\ (IFlag' <=> s = "none")
  BY <1>2
<1>4. /\ at' = [at EXCEPT ![t] = at[t]] /\ flags' = [flags EXCEPT ![t] = flags[t]]
      /\ flags[t] \in BOOLEAN /\ at[t] \in Points
      /\ at[t] = "sys" => frames[t] # <<>>
      /\ at[t] = "dying" => Len(frames[t]) <= MaxDepth
  BY <1>1, <1>2, OnCpu DEF IThread
<1> QED
  BY <1>1, <1>2, <1>3, <1>4, FlagInv

\* cli_and_save: what is saved is on
LEMMA SaveInv ==
    ASSUME IInv, NEW t \in Trees, NEW sec \in {"driver", "create", "end"}, CliAndSave(t, sec)
    PROVE  IInv'
<1>1. /\ cur = t /\ handlers = <<>> /\ section[t] = "none"
      /\ at[t] = IF sec = "end" THEN "ending" ELSE "sys"
  BY DEF CliAndSave, Runs
<1>2. IFlag /\ IFlag \in BOOLEAN
  BY <1>1, OnCpu DEF Off
<1>3. /\ flags' = [flags EXCEPT ![t] = IFlag] /\ IFlag' = FALSE
      /\ section' = [section EXCEPT ![t] = sec]
      /\ UNCHANGED <<pic, cur, handlers, at, eflags, frames>>
  BY DEF CliAndSave
<1>4. IFlag' \in BOOLEAN /\ ~IFlag'
  BY <1>3
<1>5. at' = [at EXCEPT ![t] = at[t]] /\ at[t] \in Points /\ frames[t] # <<>>
  BY <1>1, <1>3, OnCpu DEF IThread
<1> QED
  BY <1>1, <1>2, <1>3, <1>4, <1>5, FlagInv

\* restore_flags restores the flag that was saved on.
LEMMA RestoreInv ==
    ASSUME IInv, NEW t \in Trees,
           \/ RestoreFlags(t, "driver", "sys") \/ RestoreFlags(t, "create", "sys")
           \/ RestoreFlags(t, "create", "created") \/ RestoreFlags(t, "end", "sys")
    PROVE  IInv'
<1>1. PICK a \in {"sys", "created"} :
         /\ cur = t /\ handlers = <<>> /\ section[t] \in {"driver", "create", "end"}
         /\ IFlag' = flags[t]
         /\ flags' = [flags EXCEPT ![t] = FALSE]
         /\ section' = [section EXCEPT ![t] = "none"]
         /\ at' = [at EXCEPT ![t] = a]
         /\ UNCHANGED <<pic, cur, handlers, eflags, frames>>
  BY DEF RestoreFlags, Goto
<1>2. flags[t] /\ flags[t] \in BOOLEAN /\ frames[t] # <<>>
  BY <1>1, OnCpu DEF IThread
<1>3. IFlag' /\ IFlag' \in BOOLEAN
  BY <1>1, <1>2
<1>4. FALSE \in BOOLEAN
  BY Zenon
<1> QED
  BY <1>1, <1>2, <1>3, <1>4, FlagInv DEF Points

\* create_task without a free pid: interrupts stay off until the return.
LEMMA NoPidInv == ASSUME IInv, NEW t \in Trees, CreateNoPid(t) PROVE IInv'
<1>1. /\ cur = t /\ handlers = <<>> /\ section[t] = "create"
      /\ flags' = [flags EXCEPT ![t] = FALSE]
      /\ section' = [section EXCEPT ![t] = "none"]
      /\ at' = [at EXCEPT ![t] = "nopid"]
      /\ UNCHANGED <<pic, IFlag, cur, handlers, eflags, frames>>
  BY DEF CreateNoPid, Goto
<1>2. ~IFlag /\ IFlag \in BOOLEAN /\ frames[t] # <<>>
  BY <1>1, OnCpu DEF IThread, Off
<1>3. ~IFlag' /\ IFlag' \in BOOLEAN /\ FALSE \in BOOLEAN
  BY <1>1, <1>2
<1> QED
  BY <1>1, <1>2, <1>3, FlagInv DEF Points

\* execute_task's iret starts the new program with interrupts on.
LEMMA ExecuteInv == ASSUME IInv, NEW t \in Trees, ExecuteIret(t) PROVE IInv'
<1>1. /\ cur = t /\ handlers = <<>> /\ section[t] = "none"
      /\ Len(frames[t]) <= MaxDepth
      /\ IFlag' = TRUE /\ at' = [at EXCEPT ![t] = "user"]
      /\ UNCHANGED <<pic, cur, handlers, section, flags, eflags, frames>>
  BY DEF ExecuteIret, Runs, Goto
<1>2. IFlag' /\ IFlag' \in BOOLEAN
  BY <1>1
<1>3. section' = [section EXCEPT ![t] = "none"] /\ flags' = [flags EXCEPT ![t] = flags[t]]
      /\ flags[t] \in BOOLEAN
  BY <1>1, OnCpu
<1> QED
  BY <1>1, <1>2, <1>3, FlagInv DEF Points

\* do_halt drops the frames above that of the execute; a shell starts again.
LEMMA HaltInv == ASSUME IInv, NEW t \in Trees, do_halt(t) \/ restart_shell(t) PROVE IInv'
<1>1. /\ cur = t /\ handlers = <<>> /\ section[t] = "none" /\ at[t] \in {"sys", "dying"}
      /\ frames[t] \in Seq({TRUE}) /\ Len(frames[t]) \in Nat
      /\ IFlag
  BY OnCpu DEF do_halt, restart_shell, Runs, Off
<1>2. HaltBase(t) \in Seq({TRUE}) /\ Len(HaltBase(t)) <= MaxDepth
  <2>1. CASE at[t] = "sys"
    <3>1. frames[t] # <<>> /\ Len(frames[t]) <= MaxDepth + 1
      BY <1>1, <2>1, OnCpu DEF IThread
    <3>2. /\ Front(frames[t]) \in Seq({TRUE})
          /\ Len(Front(frames[t])) = Len(frames[t]) - 1
      BY <1>1, <3>1, FrontFacts
    <3> QED
      BY <1>1, <2>1, <3>1, <3>2, IrqAssumption DEF HaltBase
  <2>2. CASE at[t] = "dying"
    <3>1. Len(frames[t]) <= MaxDepth
      BY <1>1, <2>2, OnCpu DEF IThread
    <3> QED
      BY <1>1, <2>2, <3>1 DEF HaltBase
  <2> QED
    BY <1>1, <2>1, <2>2
<1>3. PICK fr \in Seq({TRUE}), a \in {"ending", "user"} :
         /\ Len(fr) <= MaxDepth
         /\ a = "ending" => fr # <<>>
         /\ frames' = [frames EXCEPT ![t] = fr]
         /\ at' = [at EXCEPT ![t] = a]
         /\ IFlag' = IFlag \/ IFlag' = TRUE
         /\ UNCHANGED <<pic, cur, handlers, section, flags, eflags>>
  <2>1. CASE do_halt(t)
    BY <1>2, <2>1 DEF do_halt, Goto
  <2>2. CASE restart_shell(t)
    <3>1. <<>> \in Seq({TRUE}) /\ Len(<<>>) = 0 /\ Len(<<>>) <= MaxDepth
      BY IrqAssumption
    <3> QED
      BY <2>2, <3>1 DEF restart_shell, Goto
  <2> QED
    BY <2>1, <2>2
<1>4. IFlag' /\ IFlag' \in BOOLEAN
  BY <1>1, <1>3, OnCpu
<1>5. /\ at'[t] = a /\ frames'[t] = fr /\ section'[t] = "none"
      /\ section' = [section EXCEPT ![t] = "none"] /\ flags' = [flags EXCEPT ![t] = flags[t]]
      /\ flags[t] \in BOOLEAN
  BY <1>1, <1>3, OnCpu
<1>6. IThread(t)' /\ (Off(t)' <=> ~IFlag')
  BY <1>3, <1>4, <1>5 DEF IThread, Off
<1>7. Len(fr) <= MaxDepth + 1
  BY <1>3, IrqAssumption
<1> QED
  BY <1>1, <1>3, <1>4, <1>5, <1>6, <1>7, ThreadKeeps DEF Points

-----------------------------------------------------------------------------
(* The theorems                                                            *)

\* Every step keeps the invariant.
LEMMA StepInv == IInv /\ [Next]_vars => IInv'
<1> SUFFICES ASSUME IInv, [Next]_vars
             PROVE  IInv'
  OBVIOUS
<1>1. ASSUME NEW t \in Trees, ThreadStep(t)
      PROVE  IInv'
  BY <1>1, SysInv, FaultInv, WriteInv, SaveInv, RestoreInv, NoPidInv, ExecuteInv, HaltInv
     DEF ThreadStep, OffStep
<1>2. ASSUME NEW irq \in Irqs, HandlerStep(irq)
      PROVE  IInv'
  BY <1>2, TickInv, HandlerInv, IretInv DEF HandlerStep
<1>3. ASSUME NEW irq \in Irqs, Deliver(irq)
      PROVE  IInv'
  BY <1>3, DeliverInv
<1> QED
  BY <1>1, <1>2, <1>3, BootInv, DeviceStep DEF Next

\* The invariant holds always.
LEMMA Always == Spec => []IInv
BY InitInv, StepInv, PTL DEF Spec

\* The state is well typed, no stack of system call frames grows past the programs
\* that run on one another, and once booted the masks are those of i8259.c.
THEOREM IrqTypeCorrect == Spec => []TypeOK
<1>1. IInv => TypeOK
  BY DEF IInv
<1> QED
  BY <1>1, Always, PTL

\* No interrupt handler interrupts another one, and none leaves an in-service bit
\* behind (kernel.c's "dont want interrupt nesting", send_eoi).
THEOREM HandlersDoNotNest == Spec => []NoNesting
<1>1. IInv => NoNesting
  BY InvImplies
<1> QED
  BY <1>1, Always, PTL

\* Sections between cli_and_save or cli and their end are never interrupted, and
\* every other piece of code of a thread runs, and resumes after a tick, with
\* interrupts on.
THEOREM FlagCorrect == Spec => []FlagMatchesCode
<1>1. IInv => FlagMatchesCode
  BY InvImplies
<1> QED
  BY <1>1, Always, PTL
=============================================================================
