-------------------------------- MODULE Irq --------------------------------
(***************************************************************************)
(* Interrupts: the two 8259 controllers and their driver (i8259.c), the    *)
(* handlers of the timer, the keyboard and the RTC, and the interrupt flag *)
(* of the CPU through system calls, exceptions, context switches and the   *)
(* sections that run with interrupts off.                                  *)
(*                                                                         *)
(* What the handlers do to the rest of the kernel is in the other modules; *)
(* they are steps of no duration there, and that they are is checked here. *)
(* Which tree a tick resumes is Sched's matter: here it may be any.        *)
(***************************************************************************)
EXTENDS Integers, Sequences

CONSTANTS
    Trees,       \* the threads of control, one per terminal
    MaxDepth     \* bound on the programs that run on one another in a tree

ASSUME IrqAssumption ==
    Trees # {} /\ "boot" \notin Trees /\ MaxDepth \in Nat \ {0}

PIT      == 0
KEYBOARD == 1
CASCADE  == 2       \* the line of the master on which the slave hangs
RTC      == 8
Irqs     == {PIT, KEYBOARD, RTC}
Lines    == 0 .. 15
Boot     == "boot"  \* the thread of kernel.c's entry, which ends in hlt
Threads  == Trees \cup {Boot}

VARIABLES
    irr,       \* the requests latched in the controllers
    isr,       \* their in-service bits
    mask,      \* master_mask and slave_mask: the lines that are masked
    unread,    \* the devices whose last interrupt has not been acknowledged by
               \* a read of their port: they do not interrupt again
    busy,      \* the devices that have interrupted since the last lull
    IFlag,     \* the interrupt flag
    cur,       \* the thread on the CPU
    handlers,  \* the interrupt handlers in progress, the innermost one last
    at,        \* thread -> where it is
    section,   \* thread -> the section with interrupts off that it is in
    flags,     \* thread -> the flags that the section has saved
    eflags,    \* thread -> the flag in its tss, where a tick has left it
    frames     \* thread -> the flags in the system call frames on its stacks

pic    == <<irr, isr, mask, unread, busy>>
thread == <<at, section, flags, frames>>
vars   == <<pic, IFlag, cur, handlers, thread, eflags>>

-----------------------------------------------------------------------------
(* i8259.c and the controllers                                             *)

\* i8259_init: all lines masked
i8259_init == mask = Lines /\ irr = {} /\ isr = {}

\* The lines of a request: one of the slave goes through the cascade.
Bits(irq) == IF irq >= 8 THEN {irq, CASCADE} ELSE {irq}

\* Mutant: the cascade stays masked
enable_irq_NoCascade(irq) == mask' = mask \ {irq}

enable_irq(irq) == mask' = mask \ Bits(irq)

\* Mutant: only the slave is told
send_eoi_NoCascade(irq) == isr' = isr \ {irq}

\* The flag is saved and restored: it stays as it is.
send_eoi(irq) == isr' = isr \ Bits(irq)

\* Fully nested mode: a request waits for the lines of its own and of higher
\* priority, in service or requesting.  The slave's stand at line 2.
Priority(irq) == IF irq >= 8 THEN CASCADE ELSE irq

Deliverable(irq) ==
    /\ irq \in irr
    /\ Bits(irq) \cap mask = {}
    /\ \A l \in isr : Priority(l) > Priority(irq)
    /\ \A i \in irr : Bits(i) \cap mask = {} => Priority(i) >= Priority(irq)

\* A device interrupts when its last interrupt has been acknowledged.  Devices
\* are slow: one interrupts again only after a lull, in which nothing is served
\* or waits.
Raise(irq) ==
    /\ irq \notin unread \cup busy
    /\ irr' = irr \cup {irq}
    /\ unread' = unread \cup ({irq} \ {PIT})
    /\ busy' = busy \cup {irq}
    /\ UNCHANGED <<isr, mask, IFlag, cur, handlers, thread, eflags>>

Lull ==
    /\ IFlag /\ handlers = <<>>
    /\ \A i \in Irqs : ~Deliverable(i)
    /\ busy # {} /\ busy' = {}
    /\ UNCHANGED <<irr, isr, mask, unread, IFlag, cur, handlers, thread, eflags>>

-----------------------------------------------------------------------------
(* The handlers.  They are entered through interrupt gates, which clear    *)
(* the flag; iret restores it.                                             *)

Deliver(irq) ==
    /\ IFlag
    /\ Deliverable(irq)
    /\ irr' = irr \ {irq}
    /\ isr' = isr \cup Bits(irq)
    /\ handlers' = Append(handlers, [irq |-> irq, at |-> "entered", flag |-> IFlag])
    /\ IFlag' = FALSE
    /\ UNCHANGED <<mask, unread, busy, cur, thread, eflags>>

Innermost == handlers[Len(handlers)]
In(irq, point) ==
    Len(handlers) > 0 /\ Innermost.irq = irq /\ Innermost.at = point
Done(handler) == handlers' = [handlers EXCEPT ![Len(handlers)] = handler]

\* The tick saves the flag of the interrupted thread and takes that of the next.
pit_process_interrupt(next) ==
    /\ In(PIT, "entered")
    /\ eflags' = [eflags EXCEPT ![cur] = Innermost.flag]
    /\ cur' = next
    /\ Done([Innermost EXCEPT !.at = "processed", !.flag = eflags'[next]])
    /\ UNCHANGED <<pic, IFlag, thread>>

\* Mutant: rtc_process_interrupt ends with sti
rtc_process_interrupt_Sti ==
    /\ In(RTC, "entered")
    /\ unread' = unread \ {RTC}
    /\ Done([Innermost EXCEPT !.at = "processed"])
    /\ IFlag' = TRUE
    /\ UNCHANGED <<irr, isr, mask, busy, cur, thread, eflags>>

\* Register C is read; the flag is saved, cleared and restored
rtc_process_interrupt ==
    /\ In(RTC, "entered")
    /\ unread' = unread \ {RTC}
    /\ Done([Innermost EXCEPT !.at = "processed"])
    /\ UNCHANGED <<irr, isr, mask, busy, IFlag, cur, thread, eflags>>

process_keypress ==
    /\ In(KEYBOARD, "entered")
    /\ unread' = unread \ {KEYBOARD}
    /\ Done([Innermost EXCEPT !.at = "processed"])
    /\ UNCHANGED <<irr, isr, mask, busy, IFlag, cur, thread, eflags>>

\* With control-C process_shortcuts already sends the end of interrupt.
process_keypress_ctrl_c ==
    /\ In(KEYBOARD, "entered")
    /\ unread' = unread \ {KEYBOARD}
    /\ send_eoi(KEYBOARD)
    /\ Done([Innermost EXCEPT !.at = "processed"])
    /\ UNCHANGED <<irr, mask, busy, IFlag, cur, thread, eflags>>

\* do_idt_pit, do_idt_keyboard and do_idt_rtc end with their send_eoi.
HandlerEoi(irq) ==
    /\ In(irq, "processed")
    /\ send_eoi(irq)
    /\ Done([Innermost EXCEPT !.at = "eoi"])
    /\ UNCHANGED <<irr, mask, unread, busy, IFlag, cur, thread, eflags>>

HandlerIret(irq) ==
    /\ In(irq, "eoi")
    /\ IFlag' = Innermost.flag
    /\ handlers' = SubSeq(handlers, 1, Len(handlers) - 1)
    /\ UNCHANGED <<pic, cur, thread, eflags>>

-----------------------------------------------------------------------------
(* Boot: kernel.c from i8259_init on, with interrupts off until its sti    *)

Init ==
    /\ i8259_init
    /\ unread = {} /\ busy = {}
    /\ IFlag = FALSE
    /\ cur = Boot
    /\ handlers = <<>>
    /\ at = [t \in Threads |-> IF t = Boot THEN "rtc_open" ELSE "user"]
    /\ section = [t \in Threads |-> "none"]
    /\ flags = [t \in Threads |-> FALSE]
    /\ eflags = [t \in Threads |-> TRUE]       \* init_task: ELAGS_IF
    /\ frames = [t \in Threads |-> <<>>]

BootEnable(point, irq, next) ==
    /\ at[Boot] = point
    /\ enable_irq(irq)
    /\ at' = [at EXCEPT ![Boot] = next]
    /\ UNCHANGED <<irr, isr, unread, busy, IFlag, cur, handlers, section, flags, eflags, frames>>

BootSti ==
    /\ at[Boot] = "sti"
    /\ IFlag' = TRUE
    /\ at' = [at EXCEPT ![Boot] = "hlt"]
    /\ UNCHANGED <<pic, cur, handlers, section, flags, eflags, frames>>

BootStep ==
    \/ BootEnable("rtc_open", RTC, "keyboard_init")
    \/ BootEnable("keyboard_init", KEYBOARD, "pit_init")
    \/ BootEnable("pit_init", PIT, "sti")
    \/ BootSti

-----------------------------------------------------------------------------
(* The threads: system calls, exceptions, sections with interrupts off     *)

Front(s) == SubSeq(s, 1, Len(s) - 1)

\* Thread t is on the CPU, at one of the points, in no section
Runs(t, points) ==
    handlers = <<>> /\ cur = t /\ at[t] \in points /\ section[t] = "none"

Goto(t, point) == at' = [at EXCEPT ![t] = point]

\* int 0x80 goes through a system gate, which leaves the flag alone.
SysCall(t) ==
    /\ Runs(t, {"user"})
    /\ frames' = [frames EXCEPT ![t] = Append(@, IFlag)]
    /\ Goto(t, "sys")
    /\ UNCHANGED <<pic, IFlag, cur, handlers, section, flags, eflags>>

SysReturn(t) ==
    /\ Runs(t, {"sys", "nopid"})
    /\ IFlag' = frames[t][Len(frames[t])]
    /\ frames' = [frames EXCEPT ![t] = Front(@)]
    /\ Goto(t, "user")
    /\ UNCHANGED <<pic, cur, handlers, section, flags, eflags>>

\* Exceptions go through interrupt gates ...
Fault(t) ==
    /\ Runs(t, {"user"})
    /\ IFlag' = FALSE
    /\ Goto(t, "exc")
    /\ UNCHANGED <<pic, cur, handlers, section, flags, eflags, frames>>

\* ... and after the report wait for a key with interrupts on.
do_common_intr(t) ==
    /\ Runs(t, {"exc"})
    /\ IFlag' = TRUE
    /\ Goto(t, "dying")
    /\ UNCHANGED <<pic, cur, handlers, section, flags, eflags, frames>>

\* terminal_write: cli ...
WriteCli(t) ==
    /\ Runs(t, {"sys", "dying"})
    /\ IFlag' = FALSE
    /\ section' = [section EXCEPT ![t] = "write"]
    /\ UNCHANGED <<pic, cur, handlers, at, flags, eflags, frames>>

\* ... and sti, whatever the flag was
WriteSti(t) ==
    /\ handlers = <<>> /\ cur = t /\ section[t] = "write"
    /\ IFlag' = TRUE
    /\ section' = [section EXCEPT ![t] = "none"]
    /\ UNCHANGED <<pic, cur, handlers, at, flags, eflags, frames>>

\* cli_and_save in create_task, in end_task, and in the driver calls of an open,
\* write or close (rtc_set_frequency, enable_irq)
CliAndSave(t, sec) ==
    /\ Runs(t, IF sec = "end" THEN {"ending"} ELSE {"sys"})
    /\ flags' = [flags EXCEPT ![t] = IFlag]
    /\ IFlag' = FALSE
    /\ section' = [section EXCEPT ![t] = sec]
    /\ UNCHANGED <<pic, cur, handlers, at, eflags, frames>>

\* Mutant: the flag is not restored
RestoreFlags_Forgotten(t, sec, point) ==
    /\ handlers = <<>> /\ cur = t /\ section[t] = sec
    /\ flags' = [flags EXCEPT ![t] = FALSE]
    /\ section' = [section EXCEPT ![t] = "none"]
    /\ Goto(t, point)
    /\ UNCHANGED <<pic, IFlag, cur, handlers, eflags, frames>>

RestoreFlags(t, sec, point) ==
    /\ handlers = <<>> /\ cur = t /\ section[t] = sec
    /\ IFlag' = flags[t]
    /\ flags' = [flags EXCEPT ![t] = FALSE]
    /\ section' = [section EXCEPT ![t] = "none"]
    /\ Goto(t, point)
    /\ UNCHANGED <<pic, cur, handlers, eflags, frames>>

\* create_task without a free pid returns with interrupts off; do_execute then
\* does nothing but return.
CreateNoPid(t) ==
    /\ handlers = <<>> /\ cur = t /\ section[t] = "create"
    /\ flags' = [flags EXCEPT ![t] = FALSE]
    /\ section' = [section EXCEPT ![t] = "none"]
    /\ Goto(t, "nopid")
    /\ UNCHANGED <<pic, IFlag, cur, handlers, eflags, frames>>

\* The iret of execute_task, with the flags that init_task has set
ExecuteIret(t) ==
    /\ Runs(t, {"created"})
    /\ Len(frames[t]) <= MaxDepth
    /\ IFlag' = TRUE
    /\ Goto(t, "user")
    /\ UNCHANGED <<pic, cur, handlers, section, flags, eflags, frames>>

\* do_halt leaves the stack of the program: below its own frame is the one of
\* the execute that started it, if it is not the shell.
HaltBase(t) == IF at[t] = "sys" THEN Front(frames[t]) ELSE frames[t]

do_halt(t) ==
    /\ Runs(t, {"sys", "dying"})
    /\ HaltBase(t) # <<>>
    /\ frames' = [frames EXCEPT ![t] = HaltBase(t)]
    /\ Goto(t, "ending")
    /\ UNCHANGED <<pic, IFlag, cur, handlers, section, flags, eflags>>

\* A shell starts again, with ret_eflags
restart_shell(t) ==
    /\ Runs(t, {"sys", "dying"})
    /\ HaltBase(t) = <<>>
    /\ IFlag' = TRUE
    /\ frames' = [frames EXCEPT ![t] = <<>>]
    /\ Goto(t, "user")
    /\ UNCHANGED <<pic, cur, handlers, section, flags, eflags>>

\* Steps with interrupts off: nothing may hold them up
OffStep(t) ==
    \/ do_common_intr(t) \/ WriteSti(t)
    \/ RestoreFlags(t, "driver", "sys")
    \/ RestoreFlags(t, "create", "sys")
    \/ RestoreFlags(t, "create", "created")
    \/ RestoreFlags(t, "end", "sys")
    \/ at[t] = "nopid" /\ SysReturn(t)

ThreadStep(t) ==
    \/ OffStep(t)
    \/ SysCall(t) \/ SysReturn(t) \/ Fault(t) \/ WriteCli(t)
    \/ CliAndSave(t, "driver") \/ CliAndSave(t, "create") \/ CliAndSave(t, "end")
    \/ CreateNoPid(t) \/ ExecuteIret(t) \/ do_halt(t) \/ restart_shell(t)

HandlerStep(irq) ==
    \/ irq = PIT /\ \E next \in Trees : pit_process_interrupt(next)
    \/ irq = RTC /\ rtc_process_interrupt
    \/ irq = KEYBOARD /\ (process_keypress \/ process_keypress_ctrl_c)
    \/ HandlerEoi(irq)
    \/ HandlerIret(irq)

Next ==
    \/ BootStep
    \/ \E t \in Trees : ThreadStep(t)
    \/ \E irq \in Irqs : Raise(irq) \/ Deliver(irq) \/ HandlerStep(irq)
    \/ Lull

Spec == Init /\ [][Next]_vars

(***************************************************************************)
(* The CPU goes on when interrupts are off, and takes a request that is    *)
(* deliverable again and again.  Devices and programs may stop.            *)
(***************************************************************************)
Fairness ==
    /\ WF_vars(BootStep)
    /\ \A irq \in Irqs : SF_vars(Deliver(irq)) /\ WF_vars(HandlerStep(irq))
    /\ \A t \in Trees : WF_vars(OffStep(t))

FairSpec == Spec /\ Fairness

-----------------------------------------------------------------------------
\* Everything has its type, and once booted the controllers let through the
\* lines of the three devices and the cascade and no others.
TypeOK ==
    /\ irr \subseteq Irqs /\ isr \subseteq Irqs \cup {CASCADE} /\ mask \subseteq Lines
    /\ unread \subseteq {KEYBOARD, RTC} /\ busy \subseteq Irqs
    /\ IFlag \in BOOLEAN
    /\ cur \in Threads
    /\ handlers \in Seq([irq : Irqs, at : {"entered", "processed", "eoi"}, flag : BOOLEAN])
    /\ at \in [Threads -> {"rtc_open", "keyboard_init", "pit_init", "sti", "hlt", "user",
                           "sys", "exc", "dying", "created", "nopid", "ending"}]
    /\ section \in [Threads -> {"none", "write", "driver", "create", "end"}]
    /\ flags \in [Threads -> BOOLEAN]
    /\ eflags \in [Threads -> BOOLEAN]
    /\ \A t \in Threads : frames[t] \in Seq(BOOLEAN) /\ Len(frames[t]) <= MaxDepth + 1
    /\ at[Boot] = "hlt" => mask = Lines \ (Irqs \cup {CASCADE})

\* kernel.c's "dont want interrupt nesting": no handler interrupts another one,
\* although they send their end of interrupt before they return, and when none
\* runs no in-service bit is left, which would hold up lower requests for ever.
NoNesting ==
    /\ Len(handlers) <= 1
    /\ isr \subseteq (IF handlers = <<>> THEN {} ELSE Bits(Innermost.irq))

\* A section that turns interrupts off is never interrupted or preempted, and
\* everything else a thread does can be: user code, a system call that waits in
\* a loop, an exception handler that waits for a key.  The saved flags that say
\* so come from other steps: iret frames, the tss, a section's own variable.
FlagMatchesCode ==
    /\ \A t \in Trees : section[t] # "none" => cur = t /\ handlers = <<>> /\ ~IFlag
    /\ \A t \in Trees :
          at[t] \in {"user", "sys", "dying", "created", "ending"} /\ section[t] = "none" =>
              IF t # cur THEN eflags[t]
              ELSE IF handlers = <<>> THEN IFlag
              ELSE Innermost.flag

\* Every request that a controller has latched gets its handler, also one that
\* came while it was masked, while interrupts were off or during another one.
Served == \A irq \in Irqs : irq \in irr ~> irq \in isr
=============================================================================
