------------------------------- MODULE Sched -------------------------------
(***************************************************************************)
(* The process manager of the kernel: sched.c, task.c, the parts of        *)
(* sys_calls_handlers.c, intel_intr_handlers.c, pit.c and hardware_intr.S  *)
(* that create, run, preempt and end tasks.                                *)
(*                                                                         *)
(* There is one CPU.  Its position in the program is the record cpu; every *)
(* operation is cut at the points where interrupts are enabled, so that a  *)
(* PIT tick (action Tick) can land between two of its steps.  Code that    *)
(* runs with interrupts disabled is one step.  What the same operations do *)
(* to the video page of the page directories is in module SchedVideo.      *)
(***************************************************************************)
EXTENDS Integers, FiniteSets

CONSTANTS
    MaxTasks,    \* scheduler.max_tasks (10 in sched.c)
    NTerms,      \* scheduler.max_ptrees = MAX_SUPPORTED_TERMINALS (3)
    TickPoints   \* the kernel points at which a PIT tick may land

Pids   == 0 .. MaxTasks - 1
Trees  == 0 .. NTerms - 1
Shells == 1 .. NTerms          \* do_halt's "pid == 1 || pid == 2 || pid == 3"
None   == -1                   \* NULL parents and scheduler fields not yet set

\* execute_task from the store of cur_task to the push of the iret frame: the rest
\* of set_cur_task and the call of set_ptree_task up to its store, and from there
\* to setup_task_stack
ExecWindow == {"cur_set", "tree_set"}

\* Kernel points where the code runs with the interrupt flag set
KernelPoints ==
    {"hlt", "sys", "created", "armed", "framed", "exc", "halt",
     "halt_addr", "ending", "ended"} \cup ExecWindow

ASSUME ConstAssumption ==
    /\ NTerms \in Nat \ {0}
    /\ MaxTasks \in Nat
    /\ MaxTasks > NTerms
    /\ TickPoints \subseteq KernelPoints

VARIABLES
    task_vector,   \* scheduler.task_vector: the set of pids in use
    num_tasks,     \* scheduler.num_tasks
    cur_task,      \* scheduler.cur_task
    cur_ptree,     \* scheduler.cur_ptree
    ptree_tasks,   \* scheduler.ptree_tasks: tree -> pid the tree resumes
    parent_task,   \* task_t.parent_task
    ptid,          \* task_t.ptid
    state,         \* task_t.state
    ret_esp,       \* task_t.ret_*: the task on whose kernel stack halt continues
    tss,           \* task_t.tss: the position saved for the task
    cpu,           \* where the CPU is
    cr3,           \* the task whose page directory is loaded
    tss_loaded,    \* the task whose esp0 is in the hardware TSS
    left           \* history: tree -> where its thread of control was preempted

sched == <<task_vector, num_tasks, cur_task, cur_ptree, ptree_tasks>>
pcbs  == <<parent_task, ptid, state, ret_esp, tss>>
vars  == <<sched, pcbs, cpu, cr3, tss_loaded, left>>

(***************************************************************************)
(* A position of the CPU: the point at, the task on whose stack it is, the *)
(* pid argument kid of an execute_task in progress, whether the thread     *)
(* came through do_common_intr (exc) and the value execute_task returns.   *)
(***************************************************************************)
\* "nopid" is kernel code with interrupts off; "wild" is user code running on
\* another task's stack
Points == {"user", "nopid", "wild"} \cup KernelPoints

Positions == [at : Points, task : Pids, kid : Pids \cup {None},
              exc : BOOLEAN, ret : {0, 256}]

At(point, p) == [at |-> point, task |-> p, kid |-> None, exc |-> FALSE, ret |-> 0]
UserAt(p) == At("user", p)
Goto(point) == cpu' = [cpu EXCEPT !.at = point]

TaskStates == {"TASK_RUNNING", "TASK_SYS_CALL", "TASK_EXCEPTION"}

-----------------------------------------------------------------------------
(***************************************************************************)
(* Boot.  tasks_init runs before sti: pid 0 is the boot thread, which ends *)
(* in the hlt loop, and pids 1 .. NTerms are the shells, one per tree, all *)
(* created with cur_task = 0.  task_t fields that nothing assigns (ptid of *)
(* task 0, state of the shells) read as zeroed memory.                     *)
(***************************************************************************)
tasks_init ==
    /\ task_vector = {0} \cup Shells
    /\ num_tasks = NTerms + 1
    /\ cur_task = 0
    /\ cur_ptree = 0
    /\ ptree_tasks = [t \in Trees |-> t + 1]
    /\ parent_task = [p \in Pids |-> IF p \in Shells THEN 0 ELSE None]
    /\ ptid = [p \in Pids |-> IF p \in Shells THEN p - 1 ELSE 0]
    /\ state = [p \in Pids |-> "TASK_RUNNING"]
    /\ ret_esp = [p \in Pids |-> IF p \in Shells THEN p ELSE None]
    /\ tss = [p \in Pids |-> UserAt(p)]

Init ==
    /\ tasks_init
    /\ cpu = At("hlt", 0)
    /\ cr3 = 0
    /\ tss_loaded = 0
    /\ left = [t \in Trees |-> UserAt(t + 1)]

-----------------------------------------------------------------------------
(***************************************************************************)
(* System calls other than execute and halt (read, write, open, ...) keep  *)
(* no scheduler state; they are kernel code that can be preempted.         *)
(***************************************************************************)
SyscallEnter ==
    /\ cpu.at = "user"
    /\ Goto("sys")
    /\ UNCHANGED <<sched, pcbs, cr3, tss_loaded, left>>

SyscallReturn ==
    /\ cpu.at = "sys"
    /\ Goto("user")
    /\ UNCHANGED <<sched, pcbs, cr3, tss_loaded, left>>

-----------------------------------------------------------------------------
(* execute: do_execute, create_task and execute_task                       *)

\* get_new_pid scans task_vector from bit 0: pid is the lowest free one
get_new_pid(pid) ==
    /\ pid \notin task_vector
    /\ \A q \in Pids : q < pid => q \in task_vector

\* Mutant: a reused task_t keeps the parent of its previous life
init_task_KeepParent(pid) ==
    /\ UNCHANGED parent_task
    /\ ptid' = [ptid EXCEPT ![pid] = ptid[cur_task]]
    /\ ret_esp' = [ret_esp EXCEPT ![pid] = None]
    /\ tss' = [tss EXCEPT ![pid] = UserAt(pid)]

\* init_task and the parent assignments of create_task
init_task(pid) ==
    /\ parent_task' = [parent_task EXCEPT ![pid] = cur_task]
    /\ ptid' = [ptid EXCEPT ![pid] = ptid[cur_task]]
    /\ ret_esp' = [ret_esp EXCEPT ![pid] = None]
    /\ tss' = [tss EXCEPT ![pid] = UserAt(pid)]

\* No free pid: create_task returns -1 without restore_flags
CreateNoPid ==
    /\ cpu.at = "user"
    /\ Pids \subseteq task_vector
    /\ Goto("nopid")
    /\ UNCHANGED <<sched, pcbs, cr3, tss_loaded, left>>

\* execute returns -1; iret restores the interrupt flag of the user's eflags
NoPidReturn ==
    /\ cpu.at = "nopid"
    /\ Goto("user")
    /\ UNCHANGED <<sched, pcbs, cr3, tss_loaded, left>>

\* Mutant: the failure path forgets clear_pid
CreateLoadFails_KeepPid(pid) ==
    /\ cpu.at = "user"
    /\ get_new_pid(pid)
    /\ init_task(pid)
    /\ task_vector' = task_vector \cup {pid}
    /\ Goto("sys")
    /\ UNCHANGED <<num_tasks, cur_task, cur_ptree, ptree_tasks, state, cr3,
                   tss_loaded, left>>

\* load_program_to_task fails: clear_pid gives the pid back
CreateLoadFails(pid) ==
    /\ cpu.at = "user"
    /\ get_new_pid(pid)
    /\ init_task(pid)
    /\ Goto("sys")
    /\ UNCHANGED <<sched, state, cr3, tss_loaded, left>>

CreateTask(pid) ==
    /\ cpu.at = "user"
    /\ get_new_pid(pid)
    /\ init_task(pid)
    /\ task_vector' = task_vector \cup {pid}
    /\ num_tasks' = num_tasks + 1
    /\ cpu' = [cpu EXCEPT !.at = "created", !.kid = pid]
    /\ UNCHANGED <<cur_task, cur_ptree, ptree_tasks, state, cr3, tss_loaded, left>>

\* Mutant: the new task's state is not reset
ExecuteArm_KeepState ==
    /\ cpu.at = "created"
    /\ Goto("armed")
    /\ UNCHANGED <<sched, pcbs, cr3, tss_loaded, left>>

\* execute_task up to the store of ret_eip
ExecuteArm ==
    /\ cpu.at = "created"
    /\ state' = [state EXCEPT ![cpu.kid] = "TASK_RUNNING"]
    /\ Goto("armed")
    /\ UNCHANGED <<sched, parent_task, ptid, ret_esp, tss, cr3, tss_loaded, left>>

set_cur_task(pid) ==
    /\ cur_task' = pid
    /\ cur_ptree' = ptid[pid]

ExecuteSetCur ==
    /\ cpu.at = "armed"
    /\ set_cur_task(cpu.kid)
    /\ Goto("cur_set")
    /\ UNCHANGED <<task_vector, num_tasks, ptree_tasks, pcbs, cr3, tss_loaded, left>>

\* Mutant: execute_task without set_ptree_task
ExecuteSetTree_Skip ==
    /\ cpu.at = "cur_set"
    /\ Goto("tree_set")
    /\ UNCHANGED <<sched, pcbs, cr3, tss_loaded, left>>

ExecuteSetTree ==
    /\ cpu.at = "cur_set"
    /\ ptree_tasks' = [ptree_tasks EXCEPT ![ptid[cpu.kid]] = cpu.kid]
    /\ Goto("tree_set")
    /\ UNCHANGED <<task_vector, num_tasks, cur_task, cur_ptree, pcbs, cr3,
                   tss_loaded, left>>

\* What follows the push of a frame from the child's tss.  With the program's entry
\* point in it, execute_task goes on to its iret.  A tick in ExecWindow has put a
\* kernel position there, and then the iret, between equal privileges, restores
\* neither stack nor registers: in execute_task's own code it repeats the steps
\* after set_ptree_task, at the end of a function it called "leave; ret" pops
\* execute_task's own frame and returns to the caller, and inside load_tss the
\* argument is read from the wrong frame and the kernel faults.
Entered(frame) ==
    IF frame.at = "user" THEN {[cpu EXCEPT !.at = "framed"]}
    ELSE {frame, UserAt(cpu.task), [cpu EXCEPT !.at = "exc"]}

\* Mutant: execute_task without save_task_state
ExecuteFrame_NoSave ==
    /\ cpu.at = "tree_set"
    /\ tss_loaded' = cpu.kid
    /\ cpu' \in Entered(tss[cpu.kid])
    /\ cr3' = IF cpu'.at = "framed" THEN cr3 ELSE cpu.kid
    /\ UNCHANGED <<sched, pcbs, left>>

\* save_task_state, load_tss and setup_task_stack, which pushes the iret frame
\* from the child's tss; if the frame is a kernel position, set_task_cr3 and the
\* iret to it as well
ExecuteFrame ==
    /\ cpu.at = "tree_set"
    /\ ret_esp' = [ret_esp EXCEPT ![cpu.kid] = cpu.task]
    /\ tss_loaded' = cpu.kid
    /\ cpu' \in Entered(tss[cpu.kid])
    /\ cr3' = IF cpu'.at = "framed" THEN cr3 ELSE cpu.kid
    /\ UNCHANGED <<sched, parent_task, ptid, state, tss, left>>

\* set_task_cr3 and iret into the new program
ExecuteIret ==
    /\ cpu.at = "framed"
    /\ cr3' = cpu.kid
    /\ cpu' = UserAt(cpu.kid)
    /\ UNCHANGED <<sched, pcbs, tss_loaded, left>>

-----------------------------------------------------------------------------
(* Exceptions and halt                                                     *)

\* A fault in user code: the handler prints the error and waits for a key
Fault ==
    /\ cpu.at = "user"
    /\ Goto("exc")
    /\ UNCHANGED <<sched, pcbs, cr3, tss_loaded, left>>

\* do_common_intr after terminal_read: mark the task, call halt(0)
FaultHalt ==
    /\ cpu.at = "exc"
    /\ state' = [state EXCEPT ![cur_task] = "TASK_EXCEPTION"]
    /\ cpu' = [cpu EXCEPT !.at = "halt", !.exc = TRUE]
    /\ UNCHANGED <<sched, parent_task, ptid, ret_esp, tss, cr3, tss_loaded, left>>

Halt ==
    /\ cpu.at = "user"
    /\ Goto("halt")
    /\ UNCHANGED <<sched, pcbs, cr3, tss_loaded, left>>

\* do_halt of a shell: restart_shell irets to the shell's entry
HaltRestartShell ==
    /\ cpu.at = "halt"
    /\ cur_task \in Shells
    /\ tss' = [tss EXCEPT ![cur_task] = UserAt(ret_esp[cur_task])]
    /\ tss_loaded' = cur_task
    /\ cpu' = UserAt(ret_esp[cur_task])
    /\ UNCHANGED <<sched, parent_task, ptid, state, ret_esp, cr3, left>>

\* Mutant: return_from_halt does not restore the caller's esp
HaltReturn_OwnStack ==
    /\ cpu.at = "halt"
    /\ cur_task \notin Shells
    /\ Goto("halt_addr")
    /\ UNCHANGED <<sched, pcbs, cr3, tss_loaded, left>>

\* do_halt of any other task: return_from_halt jumps to halt_addr on the
\* kernel stack of the task that called execute
HaltReturn ==
    /\ cpu.at = "halt"
    /\ cur_task \notin Shells
    /\ cpu' = [cpu EXCEPT !.at = "halt_addr", !.task = ret_esp[cur_task]]
    /\ UNCHANGED <<sched, pcbs, cr3, tss_loaded, left>>

\* execute_task at halt_addr: choose the value to return
HaltStatus ==
    /\ cpu.at = "halt_addr"
    /\ cpu' = [cpu EXCEPT !.at = "ending",
                          !.ret = IF state[cur_task] = "TASK_EXCEPTION"
                                  THEN 256 ELSE 0]
    /\ UNCHANGED <<sched, pcbs, cr3, tss_loaded, left>>

\* Mutant: end_task without set_ptree_task
EndTask_KeepTree ==
    LET parent == parent_task[cur_task] IN
    /\ cpu.at = "ending"
    /\ cr3' = parent
    /\ task_vector' = task_vector \ {cur_task}
    /\ num_tasks' = num_tasks - 1
    /\ set_cur_task(parent)
    /\ Goto("ended")
    /\ UNCHANGED <<ptree_tasks, pcbs, tss_loaded, left>>

\* end_task, all of it with interrupts off
EndTask ==
    LET parent == parent_task[cur_task] IN
    /\ cpu.at = "ending"
    /\ cr3' = parent
    /\ task_vector' = task_vector \ {cur_task}
    /\ num_tasks' = num_tasks - 1
    /\ ptree_tasks' = [ptree_tasks EXCEPT ![ptid[parent]] = parent]
    /\ set_cur_task(parent)
    /\ Goto("ended")
    /\ UNCHANGED <<pcbs, tss_loaded, left>>

\* Mutant: execute_task returns without load_tss
ExecuteReturn_NoLoad ==
    /\ cpu.at = "ended"
    /\ cpu' = UserAt(cpu.task)
    /\ UNCHANGED <<sched, pcbs, cr3, tss_loaded, left>>

\* load_tss(get_cur_task()) and the return to the caller of execute
ExecuteReturn ==
    /\ cpu.at = "ended"
    /\ tss_loaded' = cur_task
    /\ cpu' = UserAt(cpu.task)
    /\ UNCHANGED <<sched, pcbs, cr3, left>>

-----------------------------------------------------------------------------
(* The PIT tick: idt_pit, save_state, pit_process_interrupt, switch_task,  *)
(* load_state                                                              *)

ptree_vector == Trees     \* create_ptree is called for every tree at boot

\* Mutant: the first scan starts at cur_ptree instead of after it
get_next_task_Same(t) ==
    LET after == {i \in ptree_vector : i >= cur_ptree}
    IN  t \in after /\ \A i \in after : t <= i

\* get_next_task: the next set bit after cur_ptree, else the first before it
get_next_task(t) ==
    LET after  == {i \in ptree_vector : i > cur_ptree}
        before == {i \in ptree_vector : i < cur_ptree}
        scan   == IF after # {} THEN after ELSE before
    IN  IF scan # {} THEN t \in scan /\ \A i \in scan : t <= i
                     ELSE t = cur_ptree

\* Mutant: every preempted task is marked as inside a system call
saved_state_SysCall == "TASK_SYS_CALL"

\* The code segment of the interrupted frame tells user from kernel code
saved_state == IF cpu.at = "user" THEN "TASK_RUNNING" ELSE "TASK_SYS_CALL"

\* What iret returns to.  A user code segment with a state other than
\* TASK_RUNNING leaves the old task's ss:esp in the frame.
Resumed(st, position) ==
    IF st = "TASK_RUNNING" \/ position.at # "user"
    THEN position
    ELSE [position EXCEPT !.at = "wild"]

switch_task(new) ==
    /\ set_cur_task(new)
    /\ tss_loaded' = new
    /\ cr3' = new

Tick(t) ==
    /\ cpu.at \in {"user"} \cup TickPoints
    /\ state' = [state EXCEPT ![cur_task] = saved_state]
    /\ tss' = [tss EXCEPT ![cur_task] = cpu]
    /\ left' = IF cpu.task = 0 THEN left
               ELSE [left EXCEPT ![ptid[cpu.task]] = cpu]
    /\ get_next_task(t)
    /\ switch_task(ptree_tasks[t])
    /\ cpu' = Resumed(state'[ptree_tasks[t]], tss'[ptree_tasks[t]])
    /\ UNCHANGED <<task_vector, num_tasks, ptree_tasks, parent_task, ptid,
                   ret_esp>>

-----------------------------------------------------------------------------
\* Kernel code that waits for nothing
RunStep ==
    \/ NoPidReturn
    \/ ExecuteArm \/ ExecuteSetCur \/ ExecuteSetTree
    \/ ExecuteFrame \/ ExecuteIret
    \/ HaltRestartShell \/ HaltReturn \/ HaltStatus
    \/ EndTask \/ ExecuteReturn

\* System calls may block, and the exception handler waits for a key
BlockingStep == SyscallReturn \/ FaultHalt

UserStep ==
    \/ SyscallEnter \/ CreateNoPid \/ Fault \/ Halt
    \/ \E pid \in Pids : CreateTask(pid) \/ CreateLoadFails(pid)

Next ==
    \/ UserStep
    \/ RunStep
    \/ BlockingStep
    \/ \E t \in Trees : Tick(t)

Spec == Init /\ [][Next]_vars

\* The PIC holds a tick that arrives while interrupts are off, so ticks keep
\* coming; a slice of 1/300 s is long enough for the running thread to take a step.
Fairness ==
    /\ SF_vars(\E t \in Trees : Tick(t))
    /\ \A t \in Trees : SF_vars(cur_ptree = t /\ RunStep)

FairSpec == Spec /\ Fairness

-----------------------------------------------------------------------------
(* Invariants                                                              *)

\* The scheduler's fields and every saved context have their types: a tss or
\* the CPU is always at a known point of some task's code.
TypeOK ==
    /\ task_vector \subseteq Pids
    /\ num_tasks \in Int
    /\ cur_task \in Pids
    /\ cur_ptree \in Trees
    /\ ptree_tasks \in [Trees -> Pids]
    /\ parent_task \in [Pids -> Pids \cup {None}]
    /\ ptid \in [Pids -> Trees]
    /\ state \in [Pids -> TaskStates]
    /\ ret_esp \in [Pids -> Pids \cup {None}]
    /\ tss \in [Pids -> Positions]
    /\ cpu \in Positions
    /\ cr3 \in Pids
    /\ tss_loaded \in Pids
    /\ left \in [Trees -> Positions]

\* Tasks that some program started with execute
Kids == task_vector \ ({0} \cup Shells)

OnCpu(t) == cpu.task # 0 /\ ptid[cpu.task] = t

\* Where tree t's thread of control is: on the CPU or in the tss it resumes
Thread(t) == IF OnCpu(t) THEN cpu ELSE tss[ptree_tasks[t]]

\* The child that tree t's thread has created and not yet entered
Starting(t) ==
    IF Thread(t).at \in {"created", "armed", "cur_set"}
    THEN {Thread(t).kid} ELSE {}

\* scheduler.num_tasks counts the pids in use, on every path through
\* create_task and end_task.
TaskCount == num_tasks = Cardinality(task_vector)

\* The live tasks of a tree are a chain from its shell: a child's parent is a
\* live task of the same tree, no task has two live children, and the task
\* that ptree_tasks makes the tree resume is the one at the end of the chain.
\* No pid is leaked: a live task is the active one, is being started, or
\* waits for a live child.
ProcessTree ==
    /\ \A k \in Kids : /\ parent_task[k] \in task_vector \ {0}
                       /\ ptid[parent_task[k]] = ptid[k]
    /\ \A j, k \in Kids : parent_task[j] = parent_task[k] => j = k
    /\ \A t \in Trees :
          /\ ptree_tasks[t] \in task_vector \ {0}
          /\ ptid[ptree_tasks[t]] = t
          /\ {k \in Kids : parent_task[k] = ptree_tasks[t]} = Starting(t)
    /\ \A p \in task_vector \ {0} :
          \/ p = ptree_tasks[ptid[p]]
          \/ p \in Starting(ptid[p])
          \/ \E k \in Kids : parent_task[k] = p

\* A program that called execute runs no user code until the program it
\* started has ended.
ParentSuspended ==
    cpu.at = "user" => \A k \in Kids : parent_task[k] # cpu.task

\* A preempted tree resumes exactly where it was left, in user or in kernel
\* code: the tick saves through cur_task and resumes through ptree_tasks, and
\* the frame it rebuilds is chosen by the task's state.
Resumable ==
    \A t \in Trees : ~OnCpu(t) =>
        Resumed(state[ptree_tasks[t]], tss[ptree_tasks[t]]) = left[t]

\* User code runs as the task the scheduler thinks is current, in its own page
\* directory, and its next trap lands on its own kernel stack.
RunsAsItself ==
    cpu.at = "user" =>
        /\ cur_task = cpu.task
        /\ cr3 = cpu.task
        /\ tss_loaded = cpu.task
        /\ cur_task \in task_vector

\* halt continues on the kernel stack of the program that executed the halting
\* one, and that program is the current task once end_task is done.
ReturnsToCaller ==
    /\ cpu.at \in {"halt_addr", "ending"} => cpu.task = parent_task[cur_task]
    /\ cpu.at = "ended" => cpu.task = cur_task

\* execute returns 256 only if the program died of an exception.
NoSpurious256 == cpu.ret = 256 => cpu.exc

\* The process tree that the scheduler keeps is the one ProcTree promises.
Abs == INSTANCE ProcTree WITH
    Task   <- Pids \ {0},
    Tree   <- Trees,
    Root   <- [t \in Trees |-> t + 1],
    live   <- task_vector \ {0},
    caller <- [p \in task_vector \ {0} |->
                  IF p \in Shells THEN None ELSE parent_task[p]],
    active <- ptree_tasks

\* As long as no tick lands in ExecWindow, pids and trees change only as
\* ProcTree allows:
\* a program is called by the active program of a tree, becomes active after
\* it was created, and returns to its caller when it ends.
ImplementsProcTree == Abs!Spec

-----------------------------------------------------------------------------
(* What the code's comments promise and ticks or Alt-Fn can break          *)

\* execute returns 256 whenever the program died of an exception.
ExceptionReported == cpu.at = "ended" /\ cpu.exc => cpu.ret = 256

-----------------------------------------------------------------------------
(* Liveness                                                                *)

\* Round robin: no process tree starves.
EveryTreeRuns == \A t \in Trees : []<>(OnCpu(t))

\* A program that create_task has loaded reaches its first instruction, as long as
\* no tick lands in ExecWindow.
ProgramStarts ==
    \A k \in Pids : (cpu.at = "created" /\ cpu.kid = k) ~> (cpu = UserAt(k))

\* When a program halts, the program that executed it runs again.
CallerResumes ==
    \A p \in Pids :
        (cpu.at = "halt" /\ cur_task \in Kids /\ parent_task[cur_task] = p)
            ~> (cpu = UserAt(p))
=============================================================================
