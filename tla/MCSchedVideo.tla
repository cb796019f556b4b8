---------------------------- MODULE MCSchedVideo ----------------------------
(* An instance of SchedVideo for TLC.                                      *)
EXTENDS SchedVideo

\* Every point of the code where interrupts are enabled but the window in which
\* execute_task has named the child and not yet used its entry point
NotWindow == KernelPoints \ ExecWindow
=============================================================================
