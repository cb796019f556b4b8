----------------------------- MODULE SchedVideo -----------------------------
(***************************************************************************)
(* The video page of the tasks.  Every page directory maps the page        *)
(* VIRTUAL_VID_MEM either to the screen or to a dummy frame, and the       *)
(* scheduler keeps remapping it so that only a task of the displayed       *)
(* terminal draws on the screen.  The keyboard interrupt (Alt-F1 .. F3)    *)
(* changes the displayed terminal at any moment.  Every action of Sched is  *)
(* an action here, so a run of this module checks Sched's properties too.  *)
(***************************************************************************)
EXTENDS Sched

VARIABLES
    video,       \* task -> what its page directory maps at VIRTUAL_VID_MEM
    displayed,   \* current_terminal_index
    swept,       \* history: live tasks that have lost the CPU to a tick
    settled      \* history: no Alt-Fn and no end_task since the last tick

videoVars == <<video, displayed, swept, settled>>
allVars   == <<vars, videoVars>>

\* map_page_directory on the page directory of task p
Map(p, frame) == video' = [video EXCEPT ![p] = frame]

VideoInit ==
    /\ Init
    /\ video = [p \in Pids |-> "VIDEO"]      \* init_task_pd
    /\ displayed = 0
    /\ swept = {}
    /\ settled = TRUE

\* init_task_pd of the new page directory, whether or not the load succeeds
VideoCreate(pid) ==
    /\ CreateTask(pid) \/ CreateLoadFails(pid)
    /\ Map(pid, "VIDEO")
    /\ swept' = swept \ {pid}
    /\ UNCHANGED <<displayed, settled>>

\* execute_task first takes the screen from the caller
VideoArm ==
    /\ ExecuteArm
    /\ Map(cr3, "GARBAGE")
    /\ UNCHANGED <<displayed, swept, settled>>

\* end_task gives it back, whichever terminal is displayed
VideoEnd ==
    /\ EndTask
    /\ Map(parent_task[cur_task], "VIDEO")
    /\ settled' = FALSE
    /\ UNCHANGED <<displayed, swept>>

\* Mutant: the old task keeps the screen
VideoTick_KeepOld(t) ==
    LET new == ptree_tasks[t] IN
    /\ Tick(t)
    /\ video' = [p \in Pids |->
                    IF p = new /\ ptid[new] = displayed THEN "VIDEO" ELSE video[p]]
    /\ swept' = swept \cup {cr3}
    /\ settled' = TRUE
    /\ UNCHANGED displayed

\* Mutant: the new task does not get the screen
VideoTick_NoNew(t) ==
    /\ Tick(t)
    /\ Map(cr3, "GARBAGE")
    /\ swept' = swept \cup {cr3}
    /\ settled' = TRUE
    /\ UNCHANGED displayed

\* switch_task: the old task loses the screen, then the new one gets it if its
\* terminal is displayed
VideoTick(t) ==
    LET new == ptree_tasks[t] IN
    /\ Tick(t)
    /\ video' = [p \in Pids |->
                    IF p = new /\ ptid[new] = displayed THEN "VIDEO"
                    ELSE IF p = cr3 THEN "GARBAGE" ELSE video[p]]
    /\ swept' = swept \cup {cr3}
    /\ settled' = TRUE
    /\ UNCHANGED displayed

\* Alt-Fn: set_current_terminal maps nothing.  "nopid" runs with interrupts off.
SwitchDisplay(t) ==
    /\ cpu.at # "nopid"
    /\ t # displayed
    /\ displayed' = t
    /\ settled' = FALSE
    /\ UNCHANGED <<vars, video, swept>>

VideoRest ==
    /\ \/ SyscallEnter \/ SyscallReturn \/ CreateNoPid \/ NoPidReturn
       \/ ExecuteSetCur \/ ExecuteSetTree \/ ExecuteFrame
       \/ ExecuteIret \/ Fault \/ FaultHalt \/ Halt \/ HaltRestartShell
       \/ HaltReturn \/ HaltStatus \/ ExecuteReturn
    /\ UNCHANGED videoVars

VideoNext ==
    \/ \E pid \in Pids : VideoCreate(pid)
    \/ VideoArm
    \/ VideoEnd
    \/ VideoRest
    \/ \E t \in Trees : VideoTick(t) \/ SwitchDisplay(t)

VideoSpec == VideoInit /\ [][VideoNext]_allVars

-----------------------------------------------------------------------------
\* Between a tick and the next Alt-Fn or end_task, a program on the displayed
\* terminal has the screen.
DisplayedHasScreen ==
    settled /\ cpu.at = "user" /\ ptid[cpu.task] = displayed
        => video[cr3] = "VIDEO"

\* In the same stretch, a program on a hidden terminal that has been preempted
\* before does not: switch_task took the screen from it and nothing gave it back.
PreemptedIsHidden ==
    settled /\ cpu.at = "user" /\ cr3 \in swept /\ ptid[cpu.task] # displayed
        => video[cr3] = "GARBAGE"
=============================================================================
