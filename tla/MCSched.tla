------------------------------ MODULE MCSched ------------------------------
(* Instances of Sched for TLC, by where a tick may land.                   *)
EXTENDS Sched

\* Every point of the code where interrupts are enabled but the window in which
\* execute_task has named the child and not yet used its entry point
NotWindow == KernelPoints \ ExecWindow

\* These points and the stretch from set_cur_task to set_ptree_task
WithCurSet == NotWindow \cup {"cur_set"}

\* These points and the stretch from set_ptree_task to setup_task_stack
WithTreeSet == NotWindow \cup {"tree_set"}
=============================================================================
