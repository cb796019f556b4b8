------------------------------ MODULE ProcTree ------------------------------
(***************************************************************************)
(* What execute and halt promise, without the machinery: every terminal    *)
(* has a tree of programs that is a chain of calls.  The active program is *)
(* the last of the chain; it may call another program and waits until that *)
(* program returns.                                                        *)
(***************************************************************************)
EXTENDS Integers

CONSTANTS
    Task,     \* identifiers of programs
    Tree,     \* the trees, one per terminal
    Root      \* Root[t]: the shell of tree t, which never returns

VARIABLES
    live,     \* the programs that exist
    caller,   \* live program -> the program that called it
    active    \* tree -> its active program

vars == <<live, caller, active>>

Roots == {Root[t] : t \in Tree}

Callees(p) == {q \in live \ Roots : caller[q] = p}

Init ==
    /\ live = Roots
    /\ caller = [r \in Roots |-> -1]
    /\ active = Root

\* The active program of t creates a program, which does not run yet
Create(t, q) ==
    /\ q \in Task \ live
    /\ Callees(active[t]) = {}
    /\ live' = live \cup {q}
    /\ caller' = [p \in live' |-> IF p = q THEN active[t] ELSE caller[p]]
    /\ UNCHANGED active

\* The program it created takes over
Enter(t, q) ==
    /\ q \in live \ Roots
    /\ caller[q] = active[t]
    /\ active' = [active EXCEPT ![t] = q]
    /\ UNCHANGED <<live, caller>>

\* The active program ends and its caller goes on
Return(t) ==
    /\ active[t] \notin Roots
    /\ Callees(active[t]) = {}
    /\ live' = live \ {active[t]}
    /\ caller' = [p \in live' |-> caller[p]]
    /\ active' = [active EXCEPT ![t] = caller[active[t]]]

Next ==
    \E t \in Tree :
        \/ \E q \in Task : Create(t, q) \/ Enter(t, q)
        \/ Return(t)

Spec == Init /\ [][Next]_vars
=============================================================================
