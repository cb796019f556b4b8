---------------------------- MODULE SchedProofs ----------------------------
(***************************************************************************)
(* Proofs about Sched, then about SchedVideo, for every number of tasks    *)
(* and terminals, under the assumption that no tick lands in ExecWindow.   *)
(***************************************************************************)
EXTENDS SchedVideo, FiniteSetTheorems, TLAPS

-----------------------------------------------------------------------------
\* The hypothesis of the theorems: no tick lands between the store of cur_task in
\* set_cur_task and setup_task_stack in execute_task
NoWindowTick == TickPoints \cap ExecWindow = {}

-----------------------------------------------------------------------------
(* The inductive invariant                                                 *)

\* Boot thread and shells are never ended; a shell restarts on its own stack
IShells ==
    /\ {0} \cup Shells \subseteq task_vector
    /\ \A s \in Shells : ret_esp[s] = s

IKids ==
    /\ \A k \in Kids : /\ parent_task[k] \in task_vector \ {0}
                       /\ ptid[parent_task[k]] = ptid[k]
    /\ \A j, k \in Kids : parent_task[j] = parent_task[k] => j = k

IActive ==
    \A t \in Trees : /\ ptree_tasks[t] \in task_vector \ {0}
                     /\ ptid[ptree_tasks[t]] = t

\* On whose stack a thread is, seen from the active task a of its tree
OwnPoints    == {"user", "nopid", "sys", "exc", "halt", "created", "armed",
                 "cur_set", "ended"}
CallerPoints == {"tree_set", "framed", "halt_addr", "ending"}
StartPoints  == {"created", "armed", "cur_set"}

ThreadOK(P, a) ==
    /\ P.at \in OwnPoints => P.task = a
    /\ P.at \in CallerPoints => a \in Kids /\ P.task = parent_task[a]
    /\ P.at \in {"tree_set", "framed"} => P.kid = a
    /\ P.at \in OwnPoints \cup CallerPoints
    /\ P.at \in StartPoints =>
          /\ P.kid \in Kids
          /\ parent_task[P.kid] = a
          /\ \A k \in Kids : parent_task[k] # P.kid
    /\ P.at \notin StartPoints => \A k \in Kids : parent_task[k] # a
    /\ P.ret = 256 => P.exc

IThreads == \A t \in Trees : ThreadOK(Thread(t), ptree_tasks[t])

IWaiting ==
    \A t \in Trees : \A p \in task_vector \ {0} : ptid[p] = t =>
        \/ p = ptree_tasks[t]
        \/ p \in Starting(t)
        \/ \E k \in Kids : parent_task[k] = p

IResume ==
    \A t \in Trees : ~OnCpu(t) =>
        /\ tss[ptree_tasks[t]] = left[t]
        /\ left[t].at = "user" => state[ptree_tasks[t]] = "TASK_RUNNING"
        /\ left[t].at \notin {"cur_set", "nopid"}

ICur ==
    /\ cpu.task = 0 => cpu.at = "hlt" /\ cur_task = 0 /\ cpu.ret = 0
    /\ cpu.task # 0 =>
          /\ cpu.at # "hlt"
          /\ cpu.task \in task_vector
          /\ cur_ptree = ptid[cpu.task]
          /\ cur_task = IF cpu.at = "cur_set" THEN cpu.kid
                        ELSE ptree_tasks[cur_ptree]

IRegs ==
    /\ cpu.at \in OwnPoints \ {"cur_set", "ended"} => tss_loaded = cpu.task
    /\ cpu.at \in OwnPoints \ {"cur_set"} => cr3 = cpu.task
    /\ cpu.at = "framed" => tss_loaded = cpu.kid

\* A child that is past setup_task_stack knows its caller's kernel stack
IRet ==
    \A t \in Trees : \A k \in Kids : ptid[k] = t =>
        \/ ret_esp[k] = parent_task[k]
        \/ /\ Thread(t).at \in StartPoints \cup {"tree_set"}
           /\ Thread(t).kid = k

\* A child that is being started still has its entry point in its tss
IFresh ==
    \A t \in Trees :
        /\ Thread(t).at \in StartPoints => tss[Thread(t).kid].at = "user"
        /\ Thread(t).at = "tree_set" => tss[Thread(t).kid].at = "user"

\* TASK_EXCEPTION is the state of a task that is dying of an exception, or what
\* the previous owner of a new pid has left
IExc ==
    \A t \in Trees : \A k \in Kids : ptid[k] = t /\ state[k] = "TASK_EXCEPTION" =>
        \/ k = cur_task /\ cpu.exc /\ cpu.at \in {"halt", "halt_addr", "ending"}
        \/ Thread(t).at = "created" /\ Thread(t).kid = k

IInv ==
    /\ TypeOK
    /\ IShells
    /\ IKids
    /\ IActive
    /\ IThreads
    /\ IWaiting
    /\ IResume
    /\ ICur
    /\ IRegs
    /\ IRet
    /\ IFresh
    /\ IExc

-----------------------------------------------------------------------------
\* What the proofs need to know of the constants
LEMMA ConstFacts ==
    /\ 0 \in Pids
    /\ 0 \notin Shells
    /\ Shells \subseteq Pids
    /\ None \notin Pids
    /\ 0 \in Trees
    /\ \A t \in Trees : t + 1 \in Shells
    /\ \A p \in Shells : p - 1 \in Trees
BY ConstAssumption DEF Pids, Shells, Trees, None

\* The points are distinct strings of the set Points
LEMMA PointFacts ==
    /\ \A q \in OwnPoints \cup CallerPoints \cup {"hlt", "wild"} : q \in Points
    /\ Points = OwnPoints \cup CallerPoints \cup {"hlt", "wild"}
BY DEF Points, KernelPoints, ExecWindow, OwnPoints, CallerPoints

\* What an update of a position does to its fields
LEMMA Moved ==
    ASSUME NEW P \in Positions, NEW q \in Points
    PROVE  /\ [P EXCEPT !.at = q] \in Positions
           /\ [P EXCEPT !.at = q].at = q
           /\ [P EXCEPT !.at = q].task = P.task
           /\ [P EXCEPT !.at = q].kid = P.kid
           /\ [P EXCEPT !.at = q].exc = P.exc
           /\ [P EXCEPT !.at = q].ret = P.ret
BY DEF Positions

LEMMA UserAtFacts ==
    ASSUME NEW p \in Pids
    PROVE  /\ UserAt(p) \in Positions
           /\ UserAt(p).at = "user" /\ UserAt(p).task = p
           /\ UserAt(p).exc = FALSE /\ UserAt(p).ret = 0
BY PointFacts DEF UserAt, At, Positions, OwnPoints

\* Outside the boot thread, the CPU is in the thread of the current tree
LEMMA OnTree ==
    ASSUME IInv, cpu.at # "hlt"
    PROVE  /\ cpu.task # 0 /\ cpu.task \in task_vector
           /\ cur_ptree \in Trees /\ cur_ptree = ptid[cpu.task]
           /\ OnCpu(cur_ptree) /\ Thread(cur_ptree) = cpu
           /\ \A t \in Trees : t # cur_ptree => ~OnCpu(t)
           /\ ThreadOK(cpu, ptree_tasks[cur_ptree])
           /\ cpu.at # "cur_set" => cur_task = ptree_tasks[cur_ptree]
           /\ ptree_tasks[cur_ptree] \in task_vector \ {0}
           /\ ptid[ptree_tasks[cur_ptree]] = cur_ptree
           /\ task_vector \subseteq Pids
           /\ Kids \subseteq task_vector /\ 0 \notin Kids
<1>1. TypeOK /\ ICur /\ IThreads /\ IActive
  BY DEF IInv
<1>2. /\ cpu.task # 0 /\ cpu.task \in task_vector
      /\ cur_ptree \in Trees /\ cur_ptree = ptid[cpu.task]
      /\ cpu.at # "cur_set" => cur_task = ptree_tasks[cur_ptree]
  BY <1>1 DEF ICur, TypeOK
<1>3. /\ OnCpu(cur_ptree) /\ Thread(cur_ptree) = cpu
      /\ \A t \in Trees : t # cur_ptree => ~OnCpu(t)
  BY <1>2 DEF OnCpu, Thread
<1>4. ThreadOK(cpu, ptree_tasks[cur_ptree])
  BY <1>1, <1>2, <1>3 DEF IThreads
<1> QED
  BY <1>1, <1>2, <1>3, <1>4 DEF IActive, TypeOK, Kids

\* A step of the running thread that stays in its tree moves no other thread
LEMMA OtherThreads ==
    ASSUME IInv, cpu.at # "hlt", NEW c \in Trees, c = cur_ptree,
           cpu'.task # 0, ptid'[cpu'.task] = c,
           \A t \in Trees : t # c =>
               /\ ptree_tasks'[t] = ptree_tasks[t]
               /\ tss'[ptree_tasks[t]] = tss[ptree_tasks[t]]
    PROVE  /\ OnCpu(c)' /\ Thread(c)' = cpu'
           /\ \A t \in Trees : t # c =>
                 /\ ~OnCpu(t)'
                 /\ Thread(t)' = Thread(t)
                 /\ ptree_tasks'[t] = ptree_tasks[t]
<1>1. OnCpu(c)'
  BY DEF OnCpu
<1>2. \A t \in Trees : t # c => ~(OnCpu(t)') /\ ~OnCpu(t)
  BY OnTree DEF OnCpu
<1>3. \A t \in Trees : t # c => Thread(t)' = Thread(t)
  BY <1>2 DEF Thread
<1>4. Thread(c)' = cpu'
  BY <1>1 DEF Thread
<1> QED
  BY <1>1, <1>2, <1>3, <1>4

\* A step of the running thread that changes no scheduler field and no live
\* task's place in the tree keeps the part of the invariant about the trees
LEMMA LocalStep ==
    ASSUME IInv, cpu.at # "hlt", TypeOK',
           UNCHANGED <<sched, left>>,
           \A k \in task_vector : parent_task'[k] = parent_task[k] /\ ptid'[k] = ptid[k],
           \A p \in Shells : ret_esp'[p] = ret_esp[p],
           \A t \in Trees : t # cur_ptree =>
               /\ tss'[ptree_tasks[t]] = tss[ptree_tasks[t]]
               /\ state'[ptree_tasks[t]] = state[ptree_tasks[t]],
           cpu'.task \in task_vector \ {0}, ptid[cpu'.task] = cur_ptree,
           cpu.at # "cur_set", cpu'.at # "cur_set",
           ThreadOK(cpu', ptree_tasks[cur_ptree]),
           cpu'.at \in StartPoints <=> cpu.at \in StartPoints,
           cpu.at \in StartPoints => cpu'.kid = cpu.kid
    PROVE  /\ IShells' /\ IKids' /\ IActive' /\ IThreads' /\ IWaiting'
           /\ IResume' /\ ICur'
           /\ Kids' = Kids
           /\ \A t \in Trees : Thread(t)' = IF t = cur_ptree THEN cpu' ELSE Thread(t)
<1> USE ConstFacts
<1>a. TypeOK /\ IShells /\ IKids /\ IActive /\ IThreads /\ IWaiting /\ IResume /\ ICur
  BY DEF IInv
<1> PICK tr \in Trees : tr = cur_ptree
  BY <1>a DEF TypeOK
<1>b. /\ Thread(tr) = cpu
      /\ \A t \in Trees : t # tr => ~OnCpu(t)
      /\ task_vector \subseteq Pids /\ Kids \subseteq task_vector /\ 0 \notin Kids
      /\ cur_task = ptree_tasks[tr]
  BY OnTree
<1>c. /\ Kids' = Kids /\ task_vector' = task_vector /\ ptree_tasks' = ptree_tasks
      /\ cur_ptree' = cur_ptree /\ cur_task' = cur_task /\ left' = left
  BY DEF Kids, sched
<1>d. \A k \in Kids : /\ k \in task_vector
                      /\ parent_task'[k] = parent_task[k] /\ ptid'[k] = ptid[k]
                      /\ parent_task[k] \in task_vector \ {0}
                      /\ ptid'[parent_task[k]] = ptid[parent_task[k]]
  BY <1>a, <1>b DEF IKids
<1>5. /\ OnCpu(tr)' /\ Thread(tr)' = cpu'
      /\ \A t \in Trees : t # tr => ~OnCpu(t)' /\ Thread(t)' = Thread(t)
  <2>1. ptid'[cpu'.task] = tr
    OBVIOUS
  <2> QED
    BY <1>c, <2>1, OtherThreads
<1>2. IShells'
  BY <1>a, <1>c DEF IShells
<1>3. IKids'
  BY <1>a, <1>c, <1>d DEF IKids
<1>4. IActive'
  BY <1>a, <1>c DEF IActive
<1>6. IThreads'
  <2> SUFFICES ASSUME NEW t \in Trees PROVE ThreadOK(Thread(t), ptree_tasks[t])'
    BY DEF IThreads
  <2>1. CASE t = tr
    BY <1>a, <1>b, <1>c, <1>d, <1>5, <2>1 DEF ThreadOK, IActive
  <2>2. CASE t # tr
    <3>1. ThreadOK(Thread(t), ptree_tasks[t])
      BY <1>a DEF IThreads
    <3> QED
      BY <1>a, <1>b, <1>c, <1>d, <1>5, <2>2, <3>1 DEF ThreadOK, IActive
  <2> QED BY <2>1, <2>2
<1>7. IWaiting'
  <2>1. \A t \in Trees : Starting(t)' = Starting(t)
    BY <1>b, <1>5 DEF Starting, StartPoints
  <2> SUFFICES ASSUME NEW t \in Trees, NEW p \in task_vector \ {0}, ptid'[p] = t
               PROVE  \/ p = ptree_tasks[t]
                      \/ p \in Starting(t)'
                      \/ \E k \in Kids : parent_task'[k] = p
    BY <1>c DEF IWaiting
  <2>2. ptid[p] = t
    BY <1>b
  <2> QED
    BY <1>a, <1>d, <2>1, <2>2 DEF IWaiting
<1>8. IResume'
  BY <1>a, <1>b, <1>c, <1>5 DEF IResume
<1>9. ICur'
  <2>1. cpu'.at # "hlt"
    BY DEF ThreadOK, OwnPoints, CallerPoints
  <2> QED
    BY <1>b, <1>c, <2>1 DEF ICur
<1> QED
  BY <1>2, <1>3, <1>4, <1>5, <1>6, <1>7, <1>8, <1>9, <1>c

\* The same for the halt return addresses ...
LEMMA LocalRet ==
    ASSUME IInv, cpu.at # "hlt", Kids' = Kids,
           \A k \in Kids : /\ parent_task'[k] = parent_task[k] /\ ptid'[k] = ptid[k]
                           /\ ret_esp'[k] = ret_esp[k],
           \A t \in Trees : Thread(t)' = IF t = cur_ptree THEN cpu' ELSE Thread(t),
           cpu.at \in StartPoints \cup {"tree_set"} =>
               cpu'.at \in StartPoints \cup {"tree_set"} /\ cpu'.kid = cpu.kid
    PROVE  IRet'
<1>1. IRet /\ Thread(cur_ptree) = cpu
  BY OnTree DEF IInv
<1> SUFFICES ASSUME NEW t \in Trees, NEW k \in Kids, ptid[k] = t
             PROVE  \/ ret_esp'[k] = parent_task'[k]
                    \/ /\ (Thread(t)').at \in StartPoints \cup {"tree_set"}
                       /\ (Thread(t)').kid = k
  BY DEF IRet
<1>2. \/ ret_esp[k] = parent_task[k]
      \/ /\ Thread(t).at \in StartPoints \cup {"tree_set"}
         /\ Thread(t).kid = k
  BY <1>1 DEF IRet
<1>3. CASE t = cur_ptree
  BY <1>1, <1>2, <1>3
<1>4. CASE t # cur_ptree
  BY <1>2, <1>4
<1> QED
  BY <1>3, <1>4

\* ... for the tss of a child being started ...
LEMMA LocalFresh ==
    ASSUME IInv, cpu.at # "hlt", NEW c \in Trees, c = cur_ptree,
           \A k \in Kids : tss'[k] = tss[k],
           \A t \in Trees : Thread(t)' = IF t = c THEN cpu' ELSE Thread(t),
           cpu'.at \in StartPoints => cpu.at \in StartPoints /\ cpu'.kid = cpu.kid,
           cpu'.at # "tree_set"
    PROVE  IFresh'
<1>1. IFresh /\ IThreads /\ Thread(c) = cpu
  BY OnTree DEF IInv
<1>2. \A t \in Trees :
         /\ Thread(t).at \in StartPoints => Thread(t).kid \in Kids
         /\ Thread(t).at = "tree_set" => Thread(t).kid \in Kids
  BY <1>1 DEF IThreads, ThreadOK, CallerPoints
<1> SUFFICES ASSUME NEW t \in Trees
             PROVE  /\ (Thread(t)').at \in StartPoints => tss'[(Thread(t)').kid].at = "user"
                    /\ (Thread(t)').at = "tree_set" => tss'[(Thread(t)').kid].at = "user"
  BY DEF IFresh
<1>3. CASE t = c
  BY <1>1, <1>2, <1>3 DEF IFresh
<1>4. CASE t # c
  BY <1>1, <1>2, <1>4 DEF IFresh
<1> QED
  BY <1>3, <1>4

\* ... and for the exception marks
LEMMA LocalExc ==
    ASSUME IInv, cpu.at # "hlt", Kids' = Kids, cur_task' = cur_task,
           \A k \in Kids : ptid'[k] = ptid[k],
           \A k \in Kids : state'[k] = "TASK_EXCEPTION" => state[k] = "TASK_EXCEPTION",
           \A t \in Trees : Thread(t)' = IF t = cur_ptree THEN cpu' ELSE Thread(t),
           cpu.at \in {"halt", "halt_addr", "ending"} /\ cur_task \in Kids =>
               /\ cpu'.at \in {"halt", "halt_addr", "ending"}
               /\ cpu'.exc = cpu.exc,
           cpu.at # "created"
    PROVE  IExc'
<1>1. IExc /\ Thread(cur_ptree) = cpu
  BY OnTree DEF IInv
<1> SUFFICES ASSUME NEW t \in Trees, NEW k \in Kids, ptid[k] = t,
                    state[k] = "TASK_EXCEPTION"
             PROVE  \/ k = cur_task /\ cpu'.exc /\ cpu'.at \in {"halt", "halt_addr", "ending"}
                    \/ (Thread(t)').at = "created" /\ (Thread(t)').kid = k
  BY DEF IExc
<1>2. \/ k = cur_task /\ cpu.exc /\ cpu.at \in {"halt", "halt_addr", "ending"}
      \/ Thread(t).at = "created" /\ Thread(t).kid = k
  BY <1>1 DEF IExc
<1>3. CASE k = cur_task /\ cpu.exc /\ cpu.at \in {"halt", "halt_addr", "ending"}
  BY <1>3
<1>4. CASE Thread(t).at = "created" /\ Thread(t).kid = k
  BY <1>1, <1>4
<1> QED
  BY <1>2, <1>3, <1>4

-----------------------------------------------------------------------------
(* One lemma per group of actions                                          *)

\* Steps that only move the CPU within the same task
LEMMA MoveInv ==
    ASSUME IInv,
           SyscallEnter \/ SyscallReturn \/ CreateNoPid \/ NoPidReturn \/ Fault \/ Halt
    PROVE  IInv'
<1> USE ConstFacts
<1>a. TypeOK /\ IShells /\ IKids /\ IActive /\ IThreads /\ IRegs
  BY DEF IInv
<1>b. PICK q \in {"user", "sys", "nopid", "exc", "halt"} :
        /\ cpu' = [cpu EXCEPT !.at = q]
        /\ cpu.at \in {"user", "sys", "nopid"}
        /\ UNCHANGED <<sched, pcbs, cr3, tss_loaded, left>>
  BY DEF SyscallEnter, SyscallReturn, CreateNoPid, NoPidReturn, Fault, Halt, Goto
<1>c. /\ cpu' \in Positions /\ cpu'.at = q /\ cpu'.task = cpu.task
      /\ cpu'.kid = cpu.kid /\ cpu'.exc = cpu.exc /\ cpu'.ret = cpu.ret
  <2>1. q \in Points
    BY PointFacts DEF OwnPoints
  <2> QED
    BY <1>a, <1>b, <2>1, Moved DEF TypeOK
<1>1. TypeOK'
  BY <1>a, <1>b, <1>c DEF TypeOK, sched, pcbs
<1>2. ThreadOK(cpu', ptree_tasks[cur_ptree])
  BY <1>b, <1>c, OnTree DEF ThreadOK, OwnPoints, CallerPoints, StartPoints
<1>3. /\ IShells' /\ IKids' /\ IActive' /\ IThreads' /\ IWaiting'
      /\ IResume' /\ ICur' /\ Kids' = Kids
      /\ \A t \in Trees : Thread(t)' = IF t = cur_ptree THEN cpu' ELSE Thread(t)
  BY <1>b, <1>c, <1>1, <1>2, OnTree, LocalStep DEF pcbs, StartPoints
<1>4. IRegs'
  BY <1>a, <1>b, <1>c DEF IRegs, OwnPoints
<1>5. IRet'
  BY <1>b, <1>3, LocalRet DEF pcbs, StartPoints
<1>6. IExc'
  BY <1>b, <1>3, LocalExc DEF sched, pcbs
<1>7. IFresh'
  BY <1>a, <1>b, <1>c, <1>3, LocalFresh DEF pcbs, TypeOK, StartPoints
<1> QED
  BY <1>1, <1>3, <1>4, <1>5, <1>6, <1>7 DEF IInv

\* A failed load initialises the task_t of a pid that is free again
LEMMA LoadFailsInv ==
    ASSUME IInv, NEW pid \in Pids, CreateLoadFails(pid)
    PROVE  IInv'
<1> USE ConstFacts
<1>a. TypeOK /\ IShells /\ IActive /\ IRegs /\ IKids
  BY DEF IInv
<1> PICK tr \in Trees : tr = cur_ptree
  BY <1>a DEF TypeOK
<1>b. /\ cpu' = [cpu EXCEPT !.at = "sys"] /\ cpu.at = "user"
      /\ UNCHANGED <<sched, state, cr3, tss_loaded, left>>
      /\ pid \notin task_vector
  BY DEF CreateLoadFails, Goto, get_new_pid
<1>c. /\ cpu' \in Positions /\ cpu'.at = "sys" /\ cpu'.task = cpu.task
      /\ cpu'.kid = cpu.kid /\ cpu'.exc = cpu.exc /\ cpu'.ret = cpu.ret
  <2>1. "sys" \in Points
    BY PointFacts DEF OwnPoints
  <2> QED
    BY <1>a, <1>b, <2>1, Moved DEF TypeOK
<1>d. \A k \in task_vector : /\ parent_task'[k] = parent_task[k] /\ ptid'[k] = ptid[k]
                             /\ ret_esp'[k] = ret_esp[k] /\ tss'[k] = tss[k]
  BY <1>a, <1>b DEF CreateLoadFails, init_task, TypeOK
<1>1. TypeOK'
  <2>1. cur_task \in Pids /\ ptid[cur_task] \in Trees /\ UserAt(pid) \in Positions
    BY <1>a, UserAtFacts DEF TypeOK
  <2>2. /\ parent_task' \in [Pids -> Pids \cup {None}]
        /\ ptid' \in [Pids -> Trees]
        /\ ret_esp' \in [Pids -> Pids \cup {None}]
        /\ tss' \in [Pids -> Positions]
    BY <1>a, <2>1 DEF TypeOK, CreateLoadFails, init_task
  <2> QED
    BY <1>a, <1>b, <1>c, <2>2 DEF TypeOK, sched
<1>2. ThreadOK(cpu', ptree_tasks[cur_ptree])
  BY <1>b, <1>c, OnTree DEF ThreadOK, OwnPoints, CallerPoints, StartPoints
<1>3. /\ IShells' /\ IKids' /\ IActive' /\ IThreads' /\ IWaiting'
      /\ IResume' /\ ICur' /\ Kids' = Kids
      /\ \A t \in Trees : Thread(t)' = IF t = cur_ptree THEN cpu' ELSE Thread(t)
  <2>1. \A t \in Trees : tss'[ptree_tasks[t]] = tss[ptree_tasks[t]]
    BY <1>a, <1>d DEF IActive
  <2>2. \A p \in Shells : ret_esp'[p] = ret_esp[p]
    BY <1>a, <1>d DEF IShells
  <2> QED
    BY <1>b, <1>c, <1>d, <1>1, <1>2, <2>1, <2>2, OnTree, LocalStep DEF StartPoints
<1>4. IRegs'
  BY <1>a, <1>b, <1>c DEF IRegs, OwnPoints
<1>k. Kids \subseteq task_vector
  BY DEF Kids
<1>5. IRet'
  BY <1>b, <1>d, <1>k, <1>3, LocalRet DEF StartPoints
<1>6. IExc'
  BY <1>b, <1>d, <1>k, <1>3, LocalExc DEF sched
<1>7. IFresh'
  BY <1>b, <1>c, <1>d, <1>k, <1>3, LocalFresh DEF StartPoints
<1> QED
  BY <1>1, <1>3, <1>4, <1>5, <1>6, <1>7 DEF IInv

LEMMA CreateTaskInv ==
    ASSUME IInv, NEW pid \in Pids, CreateTask(pid)
    PROVE  IInv'
<1> USE ConstFacts
<1>a. TypeOK /\ IShells /\ IKids /\ IActive /\ IThreads /\ IWaiting /\ IResume /\ ICur /\ IRegs /\ IRet /\ IFresh /\ IExc
  BY DEF IInv
<1> PICK tr \in Trees : tr = cur_ptree
  BY <1>a DEF TypeOK
<1>b. /\ cpu.at = "user" /\ cpu.task # 0 /\ cur_task = cpu.task /\ cpu.task \in task_vector
      /\ cpu.task = ptree_tasks[tr] /\ ptid[cpu.task] = tr
      /\ Thread(tr) = cpu
      /\ \A t \in Trees : t # tr => ~OnCpu(t)
      /\ \A k \in Kids : parent_task[k] # cur_task
      /\ task_vector \subseteq Pids /\ Kids \subseteq task_vector /\ 0 \notin Kids
  BY <1>a, OnTree DEF CreateTask, ThreadOK, OwnPoints, StartPoints
<1>c. /\ pid \notin task_vector /\ pid # 0 /\ pid \notin Shells
      /\ Kids' = Kids \cup {pid} /\ pid \notin Kids
      /\ task_vector' = task_vector \cup {pid}
      /\ UNCHANGED <<cur_task, cur_ptree, ptree_tasks, state, cr3, tss_loaded, left>>
  BY <1>a DEF CreateTask, init_task, get_new_pid, Kids, IShells
<1>d. /\ cpu' \in Positions
      /\ cpu'.at = "created" /\ cpu'.kid = pid /\ cpu'.task = cpu.task
      /\ cpu'.exc = cpu.exc /\ cpu'.ret = cpu.ret
  BY <1>a, PointFacts, ZenonT(40) DEF CreateTask, TypeOK, Positions, OwnPoints
<1>e. /\ \A k \in Pids \ {pid} : /\ parent_task'[k] = parent_task[k]
                                 /\ ptid'[k] = ptid[k]
                                 /\ ret_esp'[k] = ret_esp[k]
                                 /\ tss'[k] = tss[k]
      /\ parent_task'[pid] = cur_task
      /\ ptid'[pid] = tr
  BY <1>a, <1>b DEF CreateTask, init_task, TypeOK
<1>1. TypeOK'
  <2>1. num_tasks' \in Int
    BY <1>a DEF TypeOK, CreateTask
  <2>2. /\ parent_task' \in [Pids -> Pids \cup {None}]
        /\ ptid' \in [Pids -> Trees]
        /\ ret_esp' \in [Pids -> Pids \cup {None}]
        /\ tss' \in [Pids -> Positions]
    BY <1>a, <1>b, UserAtFacts DEF TypeOK, CreateTask, init_task
  <2> QED
    BY <1>a, <1>c, <1>d, <2>1, <2>2 DEF TypeOK
<1>2. IShells'
  BY <1>a, <1>c, <1>e DEF IShells
<1>3. IKids'
  BY <1>a, <1>b, <1>c, <1>e DEF IKids
<1>4. IActive'
  BY <1>a, <1>b, <1>c, <1>e DEF IActive
<1>5. /\ OnCpu(tr)' /\ Thread(tr)' = cpu'
      /\ \A t \in Trees : t # tr => ~OnCpu(t)' /\ Thread(t)' = Thread(t)
  <2>1. \A t \in Trees : tss'[ptree_tasks[t]] = tss[ptree_tasks[t]]
    BY <1>a, <1>b, <1>c, <1>e DEF IActive
  <2>2. ptid'[cpu'.task] = tr
    BY <1>b, <1>c, <1>d, <1>e
  <2> QED
    BY <1>b, <1>c, <1>d, <2>1, <2>2, OtherThreads
<1>6. IThreads'
  <2> SUFFICES ASSUME NEW t \in Trees PROVE ThreadOK(Thread(t), ptree_tasks[t])'
    BY DEF IThreads
  <2>1. CASE t = tr
    BY <1>a, <1>b, <1>c, <1>d, <1>e, <1>5, <2>1 DEF ThreadOK, IKids, IActive, IThreads, StartPoints, OwnPoints, CallerPoints
  <2>2. CASE t # tr
    BY <1>a, <1>b, <1>c, <1>d, <1>e, <1>5, <2>2 DEF ThreadOK, IKids, IActive, IThreads
  <2> QED BY <2>1, <2>2
<1>7. IWaiting'
  <2>1. \A t \in Trees : t # tr => Starting(t)' = Starting(t)
    BY <1>5 DEF Starting
  <2>2. Starting(tr)' = {pid} /\ Starting(tr) = {}
    BY <1>b, <1>d, <1>5 DEF Starting
  <2> SUFFICES ASSUME NEW t \in Trees, NEW p \in task_vector' \ {0}, ptid'[p] = t
               PROVE  \/ p = ptree_tasks'[t]
                      \/ p \in Starting(t)'
                      \/ \E k \in Kids' : parent_task'[k] = p
    BY DEF IWaiting
  <2>3. CASE p = pid
    BY <1>e, <2>2, <2>3
  <2>4. CASE p # pid
    <3>1. p \in task_vector \ {0} /\ ptid[p] = t
      BY <1>b, <1>c, <1>e, <2>4
    <3>2. p \in Starting(t) => p \in Starting(t)'
      BY <2>1, <2>2
    <3>3. (\E k \in Kids : parent_task[k] = p) => \E k \in Kids' : parent_task'[k] = p
      BY <1>b, <1>c, <1>e
    <3> QED
      BY <1>a, <1>c, <3>1, <3>2, <3>3 DEF IWaiting
  <2> QED
    BY <2>3, <2>4
<1>8. IResume'
  BY <1>a, <1>b, <1>c, <1>e, <1>5 DEF IResume, TypeOK, IActive
<1>9. ICur'
  BY <1>a, <1>b, <1>c, <1>d, <1>e, <1>5 DEF ICur
<1>10. IRegs'
  BY <1>a, <1>b, <1>c, <1>d DEF IRegs, OwnPoints
<1>11. IRet'
  <2> SUFFICES ASSUME NEW t \in Trees, NEW k \in Kids', ptid'[k] = t
               PROVE  \/ ret_esp'[k] = parent_task'[k]
                      \/ /\ (Thread(t)').at \in StartPoints \cup {"tree_set"}
                         /\ (Thread(t)').kid = k
    BY DEF IRet
  <2>1. CASE k = pid
    BY <1>d, <1>e, <1>5, <2>1 DEF StartPoints
  <2>2. CASE k # pid
    <3>1. k \in Kids /\ ptid[k] = t /\ k \in Pids
      BY <1>b, <1>c, <1>e, <2>2
    <3> QED
      BY <1>a, <1>b, <1>e, <1>5, <2>2, <3>1 DEF IRet, StartPoints
  <2> QED
    BY <2>1, <2>2
<1>12. IExc'
  <2> SUFFICES ASSUME NEW t \in Trees, NEW k \in Kids', ptid'[k] = t,
                      state'[k] = "TASK_EXCEPTION"
               PROVE  (Thread(t)').at = "created" /\ (Thread(t)').kid = k
    BY DEF IExc
  <2>1. CASE k = pid
    BY <1>d, <1>e, <1>5, <2>1
  <2>2. CASE k # pid
    <3>1. k \in Kids /\ ptid[k] = t /\ state[k] = "TASK_EXCEPTION"
      BY <1>b, <1>c, <1>e, <2>2
    <3>2. Thread(t).at = "created" /\ Thread(t).kid = k
      BY <1>a, <1>b, <3>1 DEF IExc
    <3> QED
      BY <1>b, <1>5, <3>2
  <2> QED
    BY <2>1, <2>2
<1>13. IFresh'
  <2>1. tss'[pid].at = "user"
    BY <1>a, UserAtFacts DEF TypeOK, CreateTask, init_task
  <2>2. \A t \in Trees :
           /\ Thread(t).at \in StartPoints => Thread(t).kid \in Kids
           /\ Thread(t).at = "tree_set" => Thread(t).kid \in Kids
    BY <1>a DEF IThreads, ThreadOK, CallerPoints
  <2>3. \A k \in Kids : tss'[k] = tss[k]
    BY <1>b, <1>c, <1>e
  <2> SUFFICES ASSUME NEW t \in Trees
               PROVE  /\ (Thread(t)').at \in StartPoints => tss'[(Thread(t)').kid].at = "user"
                      /\ (Thread(t)').at = "tree_set" => tss'[(Thread(t)').kid].at = "user"
    BY DEF IFresh
  <2>4. CASE t = tr
    BY <1>d, <1>5, <2>1, <2>4 DEF StartPoints
  <2>5. CASE t # tr
    BY <1>a, <1>5, <2>2, <2>3, <2>5 DEF IFresh
  <2> QED
    BY <2>4, <2>5
<1> QED
  BY <1>1, <1>2, <1>3, <1>4, <1>6, <1>7, <1>8, <1>9, <1>10, <1>11, <1>12, <1>13 DEF IInv

\* The child's stale state is overwritten before anything can read it
LEMMA ExecuteArmInv ==
    ASSUME IInv, ExecuteArm
    PROVE  IInv'
<1> USE ConstFacts
<1>a. TypeOK /\ IShells /\ IKids /\ IActive /\ IThreads /\ IRegs /\ IRet /\ IFresh /\ IExc
  BY DEF IInv
<1> PICK tr \in Trees : tr = cur_ptree
  BY <1>a DEF TypeOK
<1> DEFINE a == ptree_tasks[tr]
<1>b. /\ cpu' = [cpu EXCEPT !.at = "armed"] /\ cpu.at = "created"
      /\ state' = [state EXCEPT ![cpu.kid] = "TASK_RUNNING"]
      /\ UNCHANGED <<sched, parent_task, ptid, ret_esp, tss, cr3, tss_loaded, left>>
  BY DEF ExecuteArm, Goto
<1>c. /\ cpu' \in Positions /\ cpu'.at = "armed" /\ cpu'.task = cpu.task
      /\ cpu'.kid = cpu.kid /\ cpu'.exc = cpu.exc /\ cpu'.ret = cpu.ret
  <2>1. "armed" \in Points
    BY PointFacts DEF OwnPoints, CallerPoints
  <2> QED
    BY <1>a, <1>b, <2>1, Moved DEF TypeOK
<1>d. /\ ThreadOK(cpu, a) /\ Thread(tr) = cpu /\ cur_task = a
      /\ cpu.kid \in Kids /\ parent_task[cpu.kid] = a
  BY <1>b, OnTree DEF ThreadOK, StartPoints
<1>k. Kids \subseteq task_vector /\ Kids \subseteq Pids
  BY <1>a DEF Kids, TypeOK
<1>e. \A t \in Trees : t # tr => state'[ptree_tasks[t]] = state[ptree_tasks[t]]
  BY <1>a, <1>b, <1>d DEF IActive, IKids, TypeOK
<1>1. TypeOK'
  BY <1>a, <1>b, <1>c DEF TypeOK, sched, TaskStates
<1>2. ThreadOK(cpu', a)
  BY <1>b, <1>c, <1>d DEF ThreadOK, OwnPoints, CallerPoints, StartPoints
<1>3. /\ IShells' /\ IKids' /\ IActive' /\ IThreads' /\ IWaiting'
      /\ IResume' /\ ICur' /\ Kids' = Kids
      /\ \A t \in Trees : Thread(t)' = IF t = cur_ptree THEN cpu' ELSE Thread(t)
  BY <1>b, <1>c, <1>e, <1>1, <1>2, OnTree, LocalStep DEF StartPoints
<1>4. IRegs'
  BY <1>a, <1>b, <1>c DEF IRegs, OwnPoints
<1>5. IRet'
  BY <1>b, <1>c, <1>3, LocalRet DEF StartPoints
<1>7. IFresh'
  BY <1>b, <1>c, <1>3, LocalFresh DEF StartPoints
<1>6. IExc'
  <2> SUFFICES ASSUME NEW t \in Trees, NEW k \in Kids, ptid[k] = t,
                      state'[k] = "TASK_EXCEPTION"
               PROVE  (Thread(t)').at = "created" /\ (Thread(t)').kid = k
    BY <1>b, <1>3 DEF IExc
  <2>1. k # cpu.kid /\ state[k] = "TASK_EXCEPTION"
    BY <1>a, <1>b, <1>k, <1>d DEF TypeOK
  <2>2. Thread(t).at = "created" /\ Thread(t).kid = k
    BY <1>a, <1>b, <2>1 DEF IExc
  <2> QED
    BY <1>d, <1>3, <2>1, <2>2
<1> QED
  BY <1>1, <1>3, <1>4, <1>5, <1>6, <1>7 DEF IInv

\* The entry point is still in the child's tss, so execute_task goes on to its iret
LEMMA ExecuteFrameStep ==
    ASSUME IInv, ExecuteFrame
    PROVE  /\ cpu' = [cpu EXCEPT !.at = "framed"] /\ cpu.at = "tree_set"
           /\ ret_esp' = [ret_esp EXCEPT ![cpu.kid] = cpu.task]
           /\ tss_loaded' = cpu.kid
           /\ UNCHANGED <<sched, parent_task, ptid, state, tss, cr3, left>>
<1>1. cpu.at = "tree_set" /\ cpu \in Positions
  BY DEF ExecuteFrame, IInv, TypeOK
<1>2. tss[cpu.kid].at = "user"
  <2>1. cur_ptree \in Trees /\ Thread(cur_ptree) = cpu
    BY <1>1, OnTree
  <2> QED
    BY <1>1, <2>1 DEF IInv, IFresh
<1>3. cpu' = [cpu EXCEPT !.at = "framed"]
  BY <1>2 DEF ExecuteFrame, Entered
<1>4. cpu'.at = "framed"
  BY <1>1, <1>3 DEF Positions
<1> QED
  BY <1>3, <1>4 DEF ExecuteFrame

\* save_task_state records the stack on which halt will continue
LEMMA ExecuteFrameInv ==
    ASSUME IInv, ExecuteFrame
    PROVE  IInv'
<1> USE ConstFacts
<1>a. TypeOK /\ IShells /\ IKids /\ IActive /\ IThreads /\ IRegs /\ IRet /\ IFresh /\ IExc
  BY DEF IInv
<1> PICK tr \in Trees : tr = cur_ptree
  BY <1>a DEF TypeOK
<1> DEFINE a == ptree_tasks[tr]
<1>b. /\ cpu' = [cpu EXCEPT !.at = "framed"] /\ cpu.at = "tree_set"
      /\ ret_esp' = [ret_esp EXCEPT ![cpu.kid] = cpu.task]
      /\ tss_loaded' = cpu.kid
      /\ UNCHANGED <<sched, parent_task, ptid, state, tss, cr3, left>>
  BY ExecuteFrameStep
<1>c. /\ cpu' \in Positions /\ cpu'.at = "framed" /\ cpu'.task = cpu.task
      /\ cpu'.kid = cpu.kid /\ cpu'.exc = cpu.exc /\ cpu'.ret = cpu.ret
  <2>1. "framed" \in Points
    BY PointFacts DEF OwnPoints, CallerPoints
  <2> QED
    BY <1>a, <1>b, <2>1, Moved DEF TypeOK
<1>d. /\ ThreadOK(cpu, a) /\ Thread(tr) = cpu
      /\ cpu.kid = a /\ a \in Kids /\ cpu.task = parent_task[a] /\ ptid[a] = tr
      /\ a \in Pids /\ a \notin Shells
  BY <1>b, OnTree DEF ThreadOK, CallerPoints, Kids
<1>k. Kids \subseteq task_vector /\ Kids \subseteq Pids
  BY <1>a DEF Kids, TypeOK
<1>1. TypeOK'
  BY <1>a, <1>b, <1>c, <1>d DEF TypeOK, sched, Positions
<1>2. ThreadOK(cpu', a)
  BY <1>b, <1>c, <1>d DEF ThreadOK, OwnPoints, CallerPoints, StartPoints
<1>e. \A k \in Pids : ret_esp'[k] = IF k = a THEN parent_task[a] ELSE ret_esp[k]
  BY <1>a, <1>b, <1>d DEF TypeOK
<1>3. /\ IShells' /\ IKids' /\ IActive' /\ IThreads' /\ IWaiting'
      /\ IResume' /\ ICur' /\ Kids' = Kids
      /\ \A t \in Trees : Thread(t)' = IF t = cur_ptree THEN cpu' ELSE Thread(t)
  BY <1>b, <1>c, <1>d, <1>e, <1>1, <1>2, OnTree, LocalStep DEF StartPoints
<1>4. IRegs'
  BY <1>a, <1>b, <1>c DEF IRegs, OwnPoints
<1>5. IRet'
  <2> SUFFICES ASSUME NEW t \in Trees, NEW k \in Kids, ptid[k] = t
               PROVE  \/ ret_esp'[k] = parent_task[k]
                      \/ /\ (Thread(t)').at \in StartPoints \cup {"tree_set"}
                         /\ (Thread(t)').kid = k
    BY <1>b, <1>3 DEF IRet
  <2>1. CASE k = a
    BY <1>e, <1>d, <2>1
  <2>2. CASE k # a
    <3>1. \/ ret_esp[k] = parent_task[k]
          \/ /\ Thread(t).at \in StartPoints \cup {"tree_set"}
             /\ Thread(t).kid = k
      BY <1>a DEF IRet
    <3> QED
      BY <1>d, <1>e, <1>k, <1>3, <2>2, <3>1
  <2> QED
    BY <2>1, <2>2
<1>6. IExc'
  BY <1>b, <1>3, LocalExc DEF sched
<1>7. IFresh'
  BY <1>b, <1>c, <1>3, LocalFresh DEF StartPoints
<1> QED
  BY <1>1, <1>3, <1>4, <1>5, <1>6, <1>7 DEF IInv

\* The first instruction of the new program
LEMMA ExecuteIretInv ==
    ASSUME IInv, ExecuteIret
    PROVE  IInv'
<1> USE ConstFacts
<1>a. TypeOK /\ IShells /\ IKids /\ IActive /\ IThreads /\ IRegs
  BY DEF IInv
<1> PICK tr \in Trees : tr = cur_ptree
  BY <1>a DEF TypeOK
<1> DEFINE a == ptree_tasks[tr]
<1>b. /\ cpu.at = "framed" /\ cpu' = UserAt(cpu.kid) /\ cr3' = cpu.kid
      /\ UNCHANGED <<sched, pcbs, tss_loaded, left>>
  BY DEF ExecuteIret
<1>d. /\ ThreadOK(cpu, a) /\ Thread(tr) = cpu
      /\ cpu.kid = a /\ a \in task_vector \ {0} /\ ptid[a] = tr /\ a \in Pids
      /\ \A k \in Kids : parent_task[k] # a
  BY <1>b, OnTree DEF ThreadOK, StartPoints
<1>c. /\ cpu' \in Positions /\ cpu'.at = "user" /\ cpu'.task = a
      /\ cpu'.ret = 0
  BY <1>b, <1>d, UserAtFacts
<1>1. TypeOK'
  BY <1>a, <1>b, <1>c, <1>d DEF TypeOK, sched, pcbs
<1>2. ThreadOK(cpu', a)
  BY <1>c, <1>d DEF ThreadOK, OwnPoints, CallerPoints, StartPoints
<1>3. /\ IShells' /\ IKids' /\ IActive' /\ IThreads' /\ IWaiting'
      /\ IResume' /\ ICur' /\ Kids' = Kids
      /\ \A t \in Trees : Thread(t)' = IF t = cur_ptree THEN cpu' ELSE Thread(t)
  BY <1>b, <1>c, <1>d, <1>1, <1>2, OnTree, LocalStep DEF StartPoints, pcbs
<1>4. IRegs'
  BY <1>a, <1>b, <1>c, <1>d DEF IRegs, OwnPoints
<1>5. IRet'
  BY <1>b, <1>3, LocalRet DEF StartPoints, pcbs
<1>6. IExc'
  BY <1>b, <1>3, LocalExc DEF sched, pcbs
<1>7. IFresh'
  BY <1>b, <1>c, <1>3, LocalFresh DEF StartPoints, pcbs
<1> QED
  BY <1>1, <1>3, <1>4, <1>5, <1>6, <1>7 DEF IInv

\* do_common_intr marks the task that is about to halt
LEMMA FaultHaltInv ==
    ASSUME IInv, FaultHalt
    PROVE  IInv'
<1> USE ConstFacts
<1>a. TypeOK /\ IShells /\ IKids /\ IActive /\ IThreads /\ IRegs /\ IExc
  BY DEF IInv
<1> PICK tr \in Trees : tr = cur_ptree
  BY <1>a DEF TypeOK
<1> DEFINE a == ptree_tasks[tr]
<1>b. /\ cpu.at = "exc" /\ cpu' = [cpu EXCEPT !.at = "halt", !.exc = TRUE]
      /\ state' = [state EXCEPT ![cur_task] = "TASK_EXCEPTION"]
      /\ UNCHANGED <<sched, parent_task, ptid, ret_esp, tss, cr3, tss_loaded, left>>
  BY DEF FaultHalt
<1>c. /\ cpu' \in Positions /\ cpu'.at = "halt" /\ cpu'.task = cpu.task
      /\ cpu'.exc = TRUE
  BY <1>a, <1>b, PointFacts, ZenonT(40) DEF TypeOK, Positions, OwnPoints
<1>d. /\ ThreadOK(cpu, a) /\ Thread(tr) = cpu /\ cur_task = a /\ cpu.task = a
      /\ a \in task_vector \ {0} /\ ptid[a] = tr /\ a \in Pids
      /\ \A k \in Kids : parent_task[k] # a
  BY <1>b, OnTree DEF ThreadOK, StartPoints, OwnPoints
<1>e. \A k \in Pids : state'[k] = IF k = a THEN "TASK_EXCEPTION" ELSE state[k]
  BY <1>a, <1>b, <1>d DEF TypeOK
<1>f. \A t \in Trees : t # tr => state'[ptree_tasks[t]] = state[ptree_tasks[t]]
  BY <1>a, <1>d, <1>e DEF IActive, TypeOK
<1>1. TypeOK'
  BY <1>a, <1>b, <1>c DEF TypeOK, sched, TaskStates
<1>2. ThreadOK(cpu', a)
  BY <1>c, <1>d DEF ThreadOK, OwnPoints, CallerPoints, StartPoints
<1>3. /\ IShells' /\ IKids' /\ IActive' /\ IThreads' /\ IWaiting'
      /\ IResume' /\ ICur' /\ Kids' = Kids
      /\ \A t \in Trees : Thread(t)' = IF t = cur_ptree THEN cpu' ELSE Thread(t)
  BY <1>b, <1>c, <1>d, <1>f, <1>1, <1>2, OnTree, LocalStep DEF StartPoints
<1>4. IRegs'
  BY <1>a, <1>b, <1>c DEF IRegs, OwnPoints
<1>5. IRet'
  BY <1>b, <1>3, LocalRet DEF StartPoints
<1>6. IExc'
  <2> SUFFICES ASSUME NEW t \in Trees, NEW k \in Kids, ptid[k] = t,
                      state'[k] = "TASK_EXCEPTION"
               PROVE  \/ k = cur_task /\ cpu'.exc /\ cpu'.at \in {"halt", "halt_addr", "ending"}
                      \/ (Thread(t)').at = "created" /\ (Thread(t)').kid = k
    BY <1>b, <1>3 DEF IExc, sched
  <2>1. CASE k = a
    BY <1>c, <1>d, <2>1
  <2>2. CASE k # a
    <3>1. state[k] = "TASK_EXCEPTION"
      BY <1>a, <1>e, <2>2 DEF Kids, TypeOK
    <3>2. Thread(t).at = "created" /\ Thread(t).kid = k
      BY <1>a, <1>d, <2>2, <3>1 DEF IExc
    <3> QED
      BY <1>b, <1>d, <1>3, <3>2
  <2> QED
    BY <2>1, <2>2
<1>7. IFresh'
  BY <1>b, <1>c, <1>3, LocalFresh DEF StartPoints
<1> QED
  BY <1>1, <1>3, <1>4, <1>5, <1>6, <1>7 DEF IInv

\* A shell that halts starts again on its own stack
LEMMA HaltRestartShellInv ==
    ASSUME IInv, HaltRestartShell
    PROVE  IInv'
<1> USE ConstFacts
<1>a. TypeOK /\ IShells /\ IKids /\ IActive /\ IThreads /\ IRegs
  BY DEF IInv
<1> PICK tr \in Trees : tr = cur_ptree
  BY <1>a DEF TypeOK
<1> DEFINE a == ptree_tasks[tr]
<1>d. /\ cpu.at = "halt" /\ ThreadOK(cpu, a) /\ Thread(tr) = cpu
      /\ cur_task = a /\ cpu.task = a
      /\ a \in task_vector \ {0} /\ ptid[a] = tr /\ a \in Pids
      /\ \A k \in Kids : parent_task[k] # a
  BY OnTree DEF ThreadOK, StartPoints, OwnPoints, HaltRestartShell
<1>s. a \in Shells /\ a \notin Kids /\ ret_esp[a] = a
  BY <1>a, <1>d DEF HaltRestartShell, Kids, IShells
<1>b. /\ cpu' = UserAt(a)
      /\ tss' = [tss EXCEPT ![a] = UserAt(a)]
      /\ tss_loaded' = a
      /\ UNCHANGED <<sched, parent_task, ptid, state, ret_esp, cr3, left>>
  BY <1>d, <1>s DEF HaltRestartShell
<1>c. /\ cpu' \in Positions /\ cpu'.at = "user" /\ cpu'.task = a
      /\ cpu'.ret = 0
  BY <1>b, <1>d, UserAtFacts
<1>e. \A k \in Pids : k # a => tss'[k] = tss[k]
  BY <1>a, <1>b DEF TypeOK
<1>f. \A t \in Trees : t # tr => tss'[ptree_tasks[t]] = tss[ptree_tasks[t]]
  BY <1>a, <1>d, <1>e DEF IActive, TypeOK
<1>1. TypeOK'
  <2>1. tss' \in [Pids -> Positions]
    BY <1>a, <1>b, <1>c DEF TypeOK
  <2> QED
    BY <1>a, <1>b, <1>c, <1>d, <2>1 DEF TypeOK, sched
<1>2. ThreadOK(cpu', a)
  BY <1>c, <1>d DEF ThreadOK, OwnPoints, CallerPoints, StartPoints
<1>3. /\ IShells' /\ IKids' /\ IActive' /\ IThreads' /\ IWaiting'
      /\ IResume' /\ ICur' /\ Kids' = Kids
      /\ \A t \in Trees : Thread(t)' = IF t = cur_ptree THEN cpu' ELSE Thread(t)
  BY <1>b, <1>c, <1>d, <1>f, <1>1, <1>2, OnTree, LocalStep DEF StartPoints
<1>4. IRegs'
  BY <1>a, <1>b, <1>c, <1>d DEF IRegs, OwnPoints
<1>5. IRet'
  BY <1>b, <1>d, <1>3, LocalRet DEF StartPoints
<1>6. IExc'
  BY <1>b, <1>d, <1>s, <1>3, LocalExc DEF sched
<1>7. IFresh'
  <2>1. \A k \in Kids : tss'[k] = tss[k]
    BY <1>a, <1>e, <1>s DEF Kids, TypeOK
  <2> QED
    BY <1>c, <1>d, <1>3, <2>1, LocalFresh DEF StartPoints
<1> QED
  BY <1>1, <1>3, <1>4, <1>5, <1>6, <1>7 DEF IInv

\* halt of a child continues on its caller's kernel stack
LEMMA HaltReturnInv ==
    ASSUME IInv, HaltReturn
    PROVE  IInv'
<1> USE ConstFacts
<1>a. TypeOK /\ IShells /\ IKids /\ IActive /\ IThreads /\ IRegs /\ IRet
  BY DEF IInv
<1> PICK tr \in Trees : tr = cur_ptree
  BY <1>a DEF TypeOK
<1> DEFINE a == ptree_tasks[tr]
<1>d. /\ cpu.at = "halt" /\ ThreadOK(cpu, a) /\ Thread(tr) = cpu
      /\ cur_task = a /\ cpu.task = a
      /\ a \in task_vector \ {0} /\ ptid[a] = tr /\ a \in Pids
      /\ \A k \in Kids : parent_task[k] # a
  BY OnTree DEF ThreadOK, StartPoints, OwnPoints, HaltReturn
<1>s. a \in Kids /\ ret_esp[a] = parent_task[a]
  BY <1>a, <1>d DEF HaltReturn, Kids, IRet, StartPoints
<1>p. /\ parent_task[a] \in task_vector \ {0} /\ ptid[parent_task[a]] = tr
      /\ parent_task[a] \in Pids
  BY <1>a, <1>d, <1>s DEF IKids, TypeOK
<1>b. /\ cpu' = [cpu EXCEPT !.at = "halt_addr", !.task = parent_task[a]]
      /\ UNCHANGED <<sched, pcbs, cr3, tss_loaded, left>>
  BY <1>d, <1>s DEF HaltReturn
<1>c. /\ cpu' \in Positions /\ cpu'.at = "halt_addr" /\ cpu'.task = parent_task[a]
      /\ cpu'.exc = cpu.exc /\ cpu'.ret = cpu.ret
  <2>1. cpu \in Positions
    BY <1>a DEF TypeOK
  <2>2. "halt_addr" \in Points
    BY PointFacts DEF CallerPoints
  <2> PICK p \in Pids : p = parent_task[a]
    BY <1>p
  <2>3. cpu' = [cpu EXCEPT !.at = "halt_addr", !.task = p]
    BY <1>b
  <2> DEFINE Q == [cpu EXCEPT !.at = "halt_addr"]
  <2>4. Q \in Positions /\ Q.at = "halt_addr" /\ Q.exc = cpu.exc /\ Q.ret = cpu.ret
    BY <2>1, <2>2, Moved
  <2>5. cpu' = [Q EXCEPT !.task = p]
    BY <2>3
  <2> HIDE DEF Q
  <2>6. /\ cpu' \in Positions /\ cpu'.at = "halt_addr" /\ cpu'.task = p
        /\ cpu'.exc = cpu.exc /\ cpu'.ret = cpu.ret
    BY <2>4, <2>5 DEF Positions
  <2> QED
    BY <2>6
<1>1. TypeOK'
  BY <1>a, <1>b, <1>c DEF TypeOK, sched, pcbs
<1>2. ThreadOK(cpu', a)
  BY <1>c, <1>d, <1>s DEF ThreadOK, OwnPoints, CallerPoints, StartPoints
<1>3. /\ IShells' /\ IKids' /\ IActive' /\ IThreads' /\ IWaiting'
      /\ IResume' /\ ICur' /\ Kids' = Kids
      /\ \A t \in Trees : Thread(t)' = IF t = cur_ptree THEN cpu' ELSE Thread(t)
  BY <1>b, <1>c, <1>d, <1>p, <1>1, <1>2, OnTree, LocalStep DEF StartPoints, pcbs
<1>4. IRegs'
  BY <1>c DEF IRegs, OwnPoints
<1>5. IRet'
  BY <1>b, <1>d, <1>3, LocalRet DEF StartPoints, pcbs
<1>6. IExc'
  BY <1>b, <1>c, <1>d, <1>3, LocalExc DEF sched, pcbs
<1>7. IFresh'
  BY <1>b, <1>c, <1>d, <1>3, LocalFresh DEF StartPoints, pcbs
<1> QED
  BY <1>1, <1>3, <1>4, <1>5, <1>6, <1>7 DEF IInv

\* The value execute returns is 256 only for a task marked by an exception
LEMMA HaltStatusInv ==
    ASSUME IInv, HaltStatus
    PROVE  IInv'
<1> USE ConstFacts
<1>a. TypeOK /\ IShells /\ IKids /\ IActive /\ IThreads /\ IRegs /\ IExc
  BY DEF IInv
<1> PICK tr \in Trees : tr = cur_ptree
  BY <1>a DEF TypeOK
<1> DEFINE a == ptree_tasks[tr]
<1>d. /\ cpu.at = "halt_addr" /\ ThreadOK(cpu, a) /\ Thread(tr) = cpu
      /\ cur_task = a /\ a \in Kids /\ cpu.task = parent_task[a]
      /\ cpu.task \in task_vector \ {0} /\ ptid[cpu.task] = tr /\ ptid[a] = tr
      /\ \A k \in Kids : parent_task[k] # a
  BY OnTree DEF ThreadOK, StartPoints, CallerPoints, HaltStatus
<1>b. /\ cpu' = [cpu EXCEPT !.at = "ending",
                            !.ret = IF state[a] = "TASK_EXCEPTION" THEN 256 ELSE 0]
      /\ UNCHANGED <<sched, pcbs, cr3, tss_loaded, left>>
  BY <1>d DEF HaltStatus
<1>c. /\ cpu' \in Positions /\ cpu'.at = "ending" /\ cpu'.task = cpu.task
      /\ cpu'.exc = cpu.exc
      /\ cpu'.ret = IF state[a] = "TASK_EXCEPTION" THEN 256 ELSE 0
  <2> PICK r \in {0, 256} : r = IF state[a] = "TASK_EXCEPTION" THEN 256 ELSE 0
    OBVIOUS
  <2>1. cpu' = [cpu EXCEPT !.at = "ending", !.ret = r]
    BY <1>b
  <2>2. "ending" \in Points
    BY PointFacts DEF CallerPoints
  <2>3. /\ cpu' \in Positions /\ cpu'.at = "ending" /\ cpu'.task = cpu.task
        /\ cpu'.exc = cpu.exc /\ cpu'.ret = r
    <3> DEFINE Q == [cpu EXCEPT !.at = "ending"]
    <3>1. Q \in Positions /\ Q.at = "ending" /\ Q.task = cpu.task /\ Q.exc = cpu.exc
      BY <1>a, <2>2, Moved DEF TypeOK
    <3>2. cpu' = [Q EXCEPT !.ret = r]
      BY <2>1
    <3> HIDE DEF Q
    <3> QED
      BY <3>1, <3>2 DEF Positions
  <2> QED
    BY <2>3
<1>e. state[a] = "TASK_EXCEPTION" => cpu.exc
  BY <1>a, <1>d DEF IExc
<1>1. TypeOK'
  BY <1>a, <1>b, <1>c DEF TypeOK, sched, pcbs
<1>2. ThreadOK(cpu', a)
  BY <1>c, <1>d, <1>e DEF ThreadOK, OwnPoints, CallerPoints, StartPoints
<1>3. /\ IShells' /\ IKids' /\ IActive' /\ IThreads' /\ IWaiting'
      /\ IResume' /\ ICur' /\ Kids' = Kids
      /\ \A t \in Trees : Thread(t)' = IF t = cur_ptree THEN cpu' ELSE Thread(t)
  BY <1>b, <1>c, <1>d, <1>1, <1>2, OnTree, LocalStep DEF StartPoints, pcbs
<1>4. IRegs'
  BY <1>c DEF IRegs, OwnPoints
<1>5. IRet'
  BY <1>b, <1>d, <1>3, LocalRet DEF StartPoints, pcbs
<1>6. IExc'
  BY <1>b, <1>c, <1>d, <1>3, LocalExc DEF sched, pcbs
<1>7. IFresh'
  BY <1>b, <1>c, <1>d, <1>3, LocalFresh DEF StartPoints, pcbs
<1> QED
  BY <1>1, <1>3, <1>4, <1>5, <1>6, <1>7 DEF IInv

LEMMA ExecuteReturnInv ==
    ASSUME IInv, ExecuteReturn
    PROVE  IInv'
<1> USE ConstFacts
<1>a. TypeOK /\ IShells /\ IKids /\ IActive /\ IThreads /\ IRegs
  BY DEF IInv
<1> PICK tr \in Trees : tr = cur_ptree
  BY <1>a DEF TypeOK
<1> DEFINE a == ptree_tasks[tr]
<1>d. /\ cpu.at = "ended" /\ ThreadOK(cpu, a) /\ Thread(tr) = cpu
      /\ cur_task = a /\ cpu.task = a
      /\ a \in task_vector \ {0} /\ ptid[a] = tr /\ a \in Pids
      /\ \A k \in Kids : parent_task[k] # a
  BY OnTree DEF ThreadOK, StartPoints, OwnPoints, ExecuteReturn
<1>b. /\ cpu' = UserAt(a) /\ tss_loaded' = a
      /\ UNCHANGED <<sched, pcbs, cr3, left>>
  BY <1>d DEF ExecuteReturn
<1>c. /\ cpu' \in Positions /\ cpu'.at = "user" /\ cpu'.task = a
      /\ cpu'.ret = 0
  BY <1>b, <1>d, UserAtFacts
<1>1. TypeOK'
  BY <1>a, <1>b, <1>c, <1>d DEF TypeOK, sched, pcbs
<1>2. ThreadOK(cpu', a)
  BY <1>c, <1>d DEF ThreadOK, OwnPoints, CallerPoints, StartPoints
<1>3. /\ IShells' /\ IKids' /\ IActive' /\ IThreads' /\ IWaiting'
      /\ IResume' /\ ICur' /\ Kids' = Kids
      /\ \A t \in Trees : Thread(t)' = IF t = cur_ptree THEN cpu' ELSE Thread(t)
  BY <1>b, <1>c, <1>d, <1>1, <1>2, OnTree, LocalStep DEF StartPoints, pcbs
<1>4. IRegs'
  BY <1>a, <1>b, <1>c, <1>d DEF IRegs, OwnPoints
<1>5. IRet'
  BY <1>b, <1>d, <1>3, LocalRet DEF StartPoints, pcbs
<1>6. IExc'
  BY <1>b, <1>d, <1>3, LocalExc DEF sched, pcbs
<1>7. IFresh'
  BY <1>b, <1>c, <1>d, <1>3, LocalFresh DEF StartPoints, pcbs
<1> QED
  BY <1>1, <1>3, <1>4, <1>5, <1>6, <1>7 DEF IInv

-----------------------------------------------------------------------------
(* The steps that change the scheduler's view of the tree                  *)

LEMMA ExecuteSetCurInv ==
    ASSUME IInv, ExecuteSetCur
    PROVE  IInv'
<1> USE ConstFacts
<1>a. TypeOK /\ IShells /\ IKids /\ IActive /\ IThreads /\ IWaiting /\ IResume /\ ICur /\ IRegs /\ IRet /\ IFresh /\ IExc
  BY DEF IInv
<1> PICK tr \in Trees : tr = cur_ptree
  BY <1>a DEF TypeOK
<1> DEFINE a == ptree_tasks[tr]
           k0 == cpu.kid
<1>d. /\ cpu.at = "armed" /\ ThreadOK(cpu, a) /\ Thread(tr) = cpu /\ cpu.task = a
      /\ k0 \in Kids /\ parent_task[k0] = a
      /\ a \in task_vector \ {0} /\ ptid[a] = tr
      /\ \A t \in Trees : t # tr => ~OnCpu(t)
  BY OnTree DEF ThreadOK, StartPoints, OwnPoints, ExecuteSetCur
<1>e. /\ k0 \in Pids /\ ptid[k0] = tr
  BY <1>a, <1>d DEF IKids, Kids, TypeOK
<1>b. /\ cpu' = [cpu EXCEPT !.at = "cur_set"]
      /\ cur_task' = k0 /\ cur_ptree' = tr
      /\ UNCHANGED <<task_vector, num_tasks, ptree_tasks, pcbs, cr3, tss_loaded, left>>
  BY <1>e DEF ExecuteSetCur, set_cur_task, Goto
<1>c. /\ cpu' \in Positions /\ cpu'.at = "cur_set" /\ cpu'.task = cpu.task
      /\ cpu'.kid = cpu.kid /\ cpu'.exc = cpu.exc /\ cpu'.ret = cpu.ret
  <2>1. "cur_set" \in Points
    BY PointFacts DEF OwnPoints, CallerPoints
  <2> QED
    BY <1>a, <1>b, <2>1, Moved DEF TypeOK
<1>f. Kids' = Kids
  BY <1>b DEF Kids
<1>1. TypeOK'
  BY <1>a, <1>b, <1>c, <1>e DEF TypeOK, pcbs
<1>2. IShells' /\ IKids' /\ IActive'
  BY <1>a, <1>b, <1>f DEF IShells, IKids, IActive, pcbs
<1>5. /\ OnCpu(tr)' /\ Thread(tr)' = cpu'
      /\ \A t \in Trees : t # tr => ~OnCpu(t)' /\ Thread(t)' = Thread(t)
  <2>1. cpu'.task # 0 /\ ptid'[cpu'.task] = tr
    BY <1>b, <1>c, <1>d DEF pcbs
  <2> QED
    BY <1>b, <1>d, <2>1, OtherThreads DEF pcbs
<1>6. IThreads'
  <2> SUFFICES ASSUME NEW t \in Trees PROVE ThreadOK(Thread(t), ptree_tasks[t])'
    BY DEF IThreads
  <2>1. CASE t = tr
    <3>1. ThreadOK(cpu', a)
      BY <1>c, <1>d DEF ThreadOK, StartPoints, OwnPoints, CallerPoints
    <3> QED
      BY <1>b, <1>f, <1>5, <2>1, <3>1, ZenonT(40) DEF ThreadOK, pcbs
  <2>2. CASE t # tr
    BY <1>a, <1>b, <1>f, <1>5, <2>2 DEF ThreadOK, IThreads, pcbs
  <2> QED BY <2>1, <2>2
<1>7. IWaiting'
  <2>1. \A t \in Trees : Starting(t)' = Starting(t)
    BY <1>c, <1>d, <1>5 DEF Starting
  <2> QED
    BY <1>a, <1>b, <1>f, <2>1 DEF IWaiting, pcbs
<1>8. IResume'
  BY <1>a, <1>b, <1>d, <1>5 DEF IResume, pcbs
<1>9. ICur'
  BY <1>a, <1>b, <1>c, <1>d DEF ICur, pcbs
<1>10. IRegs'
  BY <1>c DEF IRegs, OwnPoints
<1>11. IRet'
  <2> SUFFICES ASSUME NEW t \in Trees, NEW k \in Kids, ptid[k] = t
               PROVE  \/ ret_esp[k] = parent_task[k]
                      \/ /\ (Thread(t)').at \in StartPoints \cup {"tree_set"}
                         /\ (Thread(t)').kid = k
    BY <1>b, <1>f DEF IRet, pcbs
  <2> QED
    BY <1>a, <1>c, <1>d, <1>5 DEF IRet, StartPoints
<1>12. IExc'
  <2> SUFFICES ASSUME NEW t \in Trees, NEW k \in Kids, ptid[k] = t,
                      state[k] = "TASK_EXCEPTION"
               PROVE  (Thread(t)').at = "created" /\ (Thread(t)').kid = k
    BY <1>b, <1>f DEF IExc, pcbs
  <2> QED
    BY <1>a, <1>d, <1>5 DEF IExc
<1>13. IFresh'
  <2> SUFFICES ASSUME NEW t \in Trees
               PROVE  /\ (Thread(t)').at \in StartPoints => tss[(Thread(t)').kid].at = "user"
                      /\ (Thread(t)').at = "tree_set" => tss[(Thread(t)').kid].at = "user"
    BY <1>b DEF IFresh, pcbs
  <2> QED
    BY <1>a, <1>c, <1>d, <1>5 DEF IFresh, StartPoints
<1> QED
  BY <1>1, <1>2, <1>6, <1>7, <1>8, <1>9, <1>10, <1>11, <1>12, <1>13 DEF IInv

\* From here on the tree resumes the child
LEMMA ExecuteSetTreeInv ==
    ASSUME IInv, ExecuteSetTree
    PROVE  IInv'
<1> USE ConstFacts
<1>a. TypeOK /\ IShells /\ IKids /\ IActive /\ IThreads /\ IWaiting /\ IResume /\ ICur /\ IRegs /\ IRet /\ IFresh /\ IExc
  BY DEF IInv
<1> PICK tr \in Trees : tr = cur_ptree
  BY <1>a DEF TypeOK
<1> DEFINE a == ptree_tasks[tr]
           k0 == cpu.kid
<1>d. /\ cpu.at = "cur_set" /\ ThreadOK(cpu, a) /\ Thread(tr) = cpu /\ cpu.task = a
      /\ k0 \in Kids /\ parent_task[k0] = a
      /\ \A k \in Kids : parent_task[k] # k0
      /\ a \in task_vector \ {0} /\ ptid[a] = tr
      /\ \A t \in Trees : t # tr => ~OnCpu(t)
  BY OnTree DEF ThreadOK, StartPoints, OwnPoints, ExecuteSetTree
<1>e. /\ k0 \in Pids /\ k0 \in task_vector \ {0} /\ ptid[k0] = tr
      /\ cur_task = k0
  BY <1>a, <1>d DEF IKids, Kids, TypeOK, ICur
<1>b. /\ cpu' = [cpu EXCEPT !.at = "tree_set"]
      /\ ptree_tasks' = [ptree_tasks EXCEPT ![tr] = k0]
      /\ UNCHANGED <<task_vector, num_tasks, cur_task, cur_ptree, pcbs, cr3,
                     tss_loaded, left>>
  BY <1>e DEF ExecuteSetTree, Goto
<1>c. /\ cpu' \in Positions /\ cpu'.at = "tree_set" /\ cpu'.task = cpu.task
      /\ cpu'.kid = cpu.kid /\ cpu'.exc = cpu.exc /\ cpu'.ret = cpu.ret
  <2>1. "tree_set" \in Points
    BY PointFacts DEF OwnPoints, CallerPoints
  <2> QED
    BY <1>a, <1>b, <2>1, Moved DEF TypeOK
<1>f. Kids' = Kids
  BY <1>b DEF Kids
<1>g. \A t \in Trees : ptree_tasks'[t] = IF t = tr THEN k0 ELSE ptree_tasks[t]
  BY <1>a, <1>b DEF TypeOK
<1>1. TypeOK'
  <2>1. ptree_tasks' \in [Trees -> Pids]
    BY <1>a, <1>b, <1>e DEF TypeOK
  <2> QED
    BY <1>a, <1>b, <1>c, <2>1 DEF TypeOK, pcbs
<1>2. IShells' /\ IKids'
  BY <1>a, <1>b, <1>f DEF IShells, IKids, pcbs
<1>3. IActive'
  BY <1>a, <1>b, <1>e, <1>g DEF IActive, pcbs
<1>5. /\ OnCpu(tr)' /\ Thread(tr)' = cpu'
      /\ \A t \in Trees : t # tr => ~OnCpu(t)' /\ Thread(t)' = Thread(t)
  <2>1. cpu'.task # 0 /\ ptid'[cpu'.task] = tr
    BY <1>b, <1>c, <1>d DEF pcbs
  <2> QED
    BY <1>b, <1>d, <1>g, <2>1, OtherThreads DEF pcbs
<1>6. IThreads'
  <2> SUFFICES ASSUME NEW t \in Trees PROVE ThreadOK(Thread(t), ptree_tasks[t])'
    BY DEF IThreads
  <2>1. CASE t = tr
    <3>1. ThreadOK(cpu', k0)
      BY <1>c, <1>d DEF ThreadOK, StartPoints, OwnPoints, CallerPoints
    <3>2. /\ Thread(t)' = cpu' /\ ptree_tasks'[t] = k0
          /\ Kids' = Kids /\ parent_task' = parent_task
      BY <1>b, <1>f, <1>g, <1>5, <2>1 DEF pcbs
    <3> HIDE DEF k0
    <3> QED
      BY <3>1, <3>2 DEF ThreadOK
  <2>2. CASE t # tr
    BY <1>a, <1>b, <1>f, <1>g, <1>5, <2>2 DEF ThreadOK, IThreads, pcbs
  <2> QED BY <2>1, <2>2
<1>7. IWaiting'
  <2>1. \A t \in Trees : t # tr => Starting(t)' = Starting(t)
    BY <1>5 DEF Starting
  <2>2. Starting(tr) = {k0}
    BY <1>d DEF Starting
  <2> SUFFICES ASSUME NEW t \in Trees, NEW p \in task_vector \ {0}, ptid[p] = t
               PROVE  \/ p = ptree_tasks'[t]
                      \/ p \in Starting(t)'
                      \/ \E k \in Kids : parent_task[k] = p
    BY <1>b, <1>f DEF IWaiting, pcbs
  <2>3. CASE t = tr
    BY <1>a, <1>d, <1>g, <2>2, <2>3 DEF IWaiting
  <2>4. CASE t # tr
    BY <1>a, <1>g, <2>1, <2>4 DEF IWaiting
  <2> QED
    BY <2>3, <2>4
<1>8. IResume'
  BY <1>a, <1>b, <1>d, <1>g, <1>5 DEF IResume, pcbs
<1>9. ICur'
  BY <1>a, <1>b, <1>c, <1>d, <1>e, <1>g DEF ICur, pcbs
<1>10. IRegs'
  BY <1>c DEF IRegs, OwnPoints
<1>11. IRet'
  <2> SUFFICES ASSUME NEW t \in Trees, NEW k \in Kids, ptid[k] = t
               PROVE  \/ ret_esp[k] = parent_task[k]
                      \/ /\ (Thread(t)').at \in StartPoints \cup {"tree_set"}
                         /\ (Thread(t)').kid = k
    BY <1>b, <1>f DEF IRet, pcbs
  <2> QED
    BY <1>a, <1>c, <1>d, <1>5 DEF IRet, StartPoints
<1>12. IExc'
  <2> SUFFICES ASSUME NEW t \in Trees, NEW k \in Kids, ptid[k] = t,
                      state[k] = "TASK_EXCEPTION"
               PROVE  (Thread(t)').at = "created" /\ (Thread(t)').kid = k
    BY <1>b, <1>f DEF IExc, pcbs
  <2> QED
    BY <1>a, <1>d, <1>5 DEF IExc
<1>13. IFresh'
  <2> SUFFICES ASSUME NEW t \in Trees
               PROVE  /\ (Thread(t)').at \in StartPoints => tss[(Thread(t)').kid].at = "user"
                      /\ (Thread(t)').at = "tree_set" => tss[(Thread(t)').kid].at = "user"
    BY <1>b DEF IFresh, pcbs
  <2> QED
    BY <1>a, <1>c, <1>d, <1>5 DEF IFresh, StartPoints
<1> QED
  BY <1>1, <1>2, <1>3, <1>6, <1>7, <1>8, <1>9, <1>10, <1>11, <1>12, <1>13 DEF IInv

\* end_task gives the tree back to the caller
LEMMA EndTaskInv ==
    ASSUME IInv, EndTask
    PROVE  IInv'
<1> USE ConstFacts
<1>a. TypeOK /\ IShells /\ IKids /\ IActive /\ IThreads /\ IWaiting /\ IResume /\ ICur /\ IRegs /\ IRet /\ IFresh /\ IExc
  BY DEF IInv
<1> PICK tr \in Trees : tr = cur_ptree
  BY <1>a DEF TypeOK
<1> DEFINE a == ptree_tasks[tr]
           q == parent_task[a]
<1>d. /\ cpu.at = "ending" /\ ThreadOK(cpu, a) /\ Thread(tr) = cpu
      /\ cpu.task = q /\ a \in Kids /\ cur_task = a /\ ptid[a] = tr
      /\ \A k \in Kids : parent_task[k] # a
      /\ \A t \in Trees : t # tr => ~OnCpu(t)
  BY OnTree DEF ThreadOK, StartPoints, CallerPoints, EndTask
<1>e. /\ a \in Pids /\ a # 0 /\ a \notin Shells /\ q # a
      /\ q \in Pids /\ q \in task_vector \ {0} /\ ptid[q] = tr
  BY <1>a, <1>d DEF IKids, Kids, TypeOK
<1>b. /\ cpu' = [cpu EXCEPT !.at = "ended"]
      /\ cr3' = q /\ cur_task' = q /\ cur_ptree' = tr
      /\ task_vector' = task_vector \ {a}
      /\ ptree_tasks' = [ptree_tasks EXCEPT ![tr] = q]
      /\ UNCHANGED <<pcbs, tss_loaded, left>>
  BY <1>d, <1>e DEF EndTask, set_cur_task, Goto
<1>c. /\ cpu' \in Positions /\ cpu'.at = "ended" /\ cpu'.task = cpu.task
      /\ cpu'.kid = cpu.kid /\ cpu'.exc = cpu.exc /\ cpu'.ret = cpu.ret
  <2>1. "ended" \in Points
    BY PointFacts DEF OwnPoints, CallerPoints
  <2> QED
    BY <1>a, <1>b, <2>1, Moved DEF TypeOK
<1>f. Kids' = Kids \ {a}
  BY <1>b DEF Kids
<1>g. \A t \in Trees : ptree_tasks'[t] = IF t = tr THEN q ELSE ptree_tasks[t]
  BY <1>a, <1>b DEF TypeOK
<1>1. TypeOK'
  <2>1. ptree_tasks' \in [Trees -> Pids]
    BY <1>a, <1>b, <1>e DEF TypeOK
  <2>2. num_tasks' \in Int
    BY <1>a DEF TypeOK, EndTask
  <2> QED
    BY <1>a, <1>b, <1>c, <1>e, <2>1, <2>2 DEF TypeOK, pcbs
<1>2. IShells' /\ IKids'
  BY <1>a, <1>b, <1>d, <1>e, <1>f DEF IShells, IKids, pcbs
<1>3. IActive'
  BY <1>a, <1>b, <1>d, <1>e, <1>g DEF IActive, pcbs
<1>5. /\ OnCpu(tr)' /\ Thread(tr)' = cpu'
      /\ \A t \in Trees : t # tr => ~OnCpu(t)' /\ Thread(t)' = Thread(t)
  <2>1. cpu'.task # 0 /\ ptid'[cpu'.task] = tr
    BY <1>b, <1>c, <1>d, <1>e DEF pcbs
  <2> QED
    BY <1>b, <1>d, <1>g, <2>1, OtherThreads DEF pcbs
<1>6. IThreads'
  <2> SUFFICES ASSUME NEW t \in Trees PROVE ThreadOK(Thread(t), ptree_tasks[t])'
    BY DEF IThreads
  <2>1. CASE t = tr
    <3>1. \A k \in Kids' : parent_task[k] # q
      BY <1>a, <1>d, <1>f DEF IKids
    <3>2. /\ cpu'.at = "ended" /\ cpu'.task = q /\ (cpu'.ret = 256 => cpu'.exc)
      BY <1>c, <1>d DEF ThreadOK
    <3> QED
      BY <1>b, <1>g, <1>5, <2>1, <3>1, <3>2, ZenonT(40) DEF ThreadOK, StartPoints, OwnPoints, CallerPoints, pcbs
  <2>2. CASE t # tr
    <3>1. ThreadOK(Thread(t), ptree_tasks[t]) /\ ptid[ptree_tasks[t]] = t
      BY <1>a DEF IThreads, IActive
    <3>2. ptree_tasks[t] \in Kids => ptree_tasks[t] \in Kids'
      BY <1>d, <1>f, <2>2, <3>1
    <3>3. Thread(t).at \in StartPoints => Thread(t).kid \in Kids'
      BY <1>a, <1>d, <1>f, <2>2, <3>1 DEF ThreadOK, IKids
    <3> QED
      BY <1>b, <1>f, <1>g, <1>5, <2>2, <3>1, <3>2, <3>3 DEF ThreadOK, pcbs
  <2> QED BY <2>1, <2>2
<1>7. IWaiting'
  <2>1. \A t \in Trees : t # tr => Starting(t)' = Starting(t)
    BY <1>5 DEF Starting
  <2>2. Starting(tr) = {}
    BY <1>d DEF Starting
  <2> SUFFICES ASSUME NEW t \in Trees, NEW p \in task_vector \ {0, a}, ptid[p] = t
               PROVE  \/ p = ptree_tasks'[t]
                      \/ p \in Starting(t)'
                      \/ \E k \in Kids' : parent_task[k] = p
    BY <1>b DEF IWaiting, pcbs
  <2>3. \/ p = ptree_tasks[t]
        \/ p \in Starting(t)
        \/ \E k \in Kids : parent_task[k] = p
    BY <1>a DEF IWaiting
  <2>4. CASE t = tr
    BY <1>d, <1>f, <1>g, <2>2, <2>3, <2>4
  <2>5. CASE t # tr
    BY <1>d, <1>e, <1>f, <1>g, <2>1, <2>3, <2>5
  <2> QED
    BY <2>4, <2>5
<1>8. IResume'
  BY <1>a, <1>b, <1>d, <1>g, <1>5 DEF IResume, pcbs
<1>9. ICur'
  BY <1>a, <1>b, <1>c, <1>d, <1>e, <1>g DEF ICur, pcbs
<1>10. IRegs'
  BY <1>b, <1>c, <1>d DEF IRegs, OwnPoints
<1>11. IRet'
  <2> SUFFICES ASSUME NEW t \in Trees, NEW k \in Kids \ {a}, ptid[k] = t
               PROVE  \/ ret_esp[k] = parent_task[k]
                      \/ /\ (Thread(t)').at \in StartPoints \cup {"tree_set"}
                         /\ (Thread(t)').kid = k
    BY <1>b, <1>f DEF IRet, pcbs
  <2> QED
    BY <1>a, <1>c, <1>d, <1>5 DEF IRet, StartPoints
<1>12. IExc'
  <2> SUFFICES ASSUME NEW t \in Trees, NEW k \in Kids \ {a}, ptid[k] = t,
                      state[k] = "TASK_EXCEPTION"
               PROVE  (Thread(t)').at = "created" /\ (Thread(t)').kid = k
    BY <1>b, <1>f DEF IExc, pcbs
  <2> QED
    BY <1>a, <1>d, <1>5 DEF IExc
<1>13. IFresh'
  <2> SUFFICES ASSUME NEW t \in Trees
               PROVE  /\ (Thread(t)').at \in StartPoints => tss[(Thread(t)').kid].at = "user"
                      /\ (Thread(t)').at = "tree_set" => tss[(Thread(t)').kid].at = "user"
    BY <1>b DEF IFresh, pcbs
  <2> QED
    BY <1>a, <1>c, <1>d, <1>5 DEF IFresh, StartPoints
<1> QED
  BY <1>1, <1>2, <1>3, <1>6, <1>7, <1>8, <1>9, <1>10, <1>11, <1>12, <1>13 DEF IInv

-----------------------------------------------------------------------------
(* The PIT tick                                                            *)

\* A tick that does not land in the window moves no thread: it puts the one it
\* takes off the CPU where the tree will look for it, and resumes the next
\* one exactly where it was left
LEMMA TickMovesNoThread ==
    ASSUME IInv, NoWindowTick, NEW t \in Trees, Tick(t)
    PROVE  /\ cpu' = Thread(t)
           /\ \A s \in Trees : /\ Thread(s)' = Thread(s)
                               /\ OnCpu(s)' <=> s = t
           /\ cpu'.at \notin {"cur_set", "hlt"}
           /\ cpu'.task \in task_vector \ {0} /\ ptid[cpu'.task] = t
           /\ IResume'
<1> USE ConstFacts
<1>a. TypeOK /\ IKids /\ IActive /\ IThreads /\ IResume /\ ICur
  BY DEF IInv
<1> DEFINE n == ptree_tasks[t]
<1>b. /\ \A s \in Trees : /\ ptree_tasks[s] \in task_vector \ {0}
                          /\ ptree_tasks[s] \in Pids
                          /\ ptid[ptree_tasks[s]] = s
                          /\ ThreadOK(Thread(s), ptree_tasks[s])
  BY <1>a DEF IActive, TypeOK, IThreads
<1>c. /\ \A k \in Pids : tss'[k] = IF k = cur_task THEN cpu ELSE tss[k]
      /\ \A k \in Pids : state'[k] = IF k = cur_task THEN saved_state ELSE state[k]
      /\ cpu' = Resumed(state'[n], tss'[n])
      /\ ptree_tasks' = ptree_tasks /\ ptid' = ptid
      /\ cpu.at \in {"user"} \cup TickPoints
  BY <1>a DEF Tick, TypeOK
<1>d. cpu.at \notin {"cur_set", "nopid"}
  BY <1>c, ConstAssumption DEF NoWindowTick, KernelPoints, ExecWindow
<1>1. \A s \in Trees : /\ tss'[ptree_tasks[s]] = Thread(s)
                       /\ left'[s] = IF OnCpu(s) THEN cpu ELSE left[s]
                       /\ Thread(s).at # "cur_set"
                       /\ Thread(s).at = "user" => state'[ptree_tasks[s]] = "TASK_RUNNING"
                       /\ Thread(s).at # "nopid"
  <2>1. CASE cpu.task = 0
    <3>1. cur_task = 0 /\ left' = left /\ \A s \in Trees : ~OnCpu(s)
      BY <1>a, <2>1 DEF ICur, OnCpu, Tick
    <3> QED
      BY <1>a, <1>b, <1>c, <3>1 DEF IResume, Thread
  <2>2. CASE cpu.task # 0
    <3> PICK tr \in Trees : tr = cur_ptree
      BY <1>a DEF TypeOK
    <3>1. /\ cur_task = ptree_tasks[tr] /\ ptid[cpu.task] = tr
          /\ Thread(tr) = cpu /\ OnCpu(tr)
          /\ \A s \in Trees : s # tr => ~OnCpu(s) /\ ptree_tasks[s] # cur_task
      BY <1>a, <1>b, <1>d, <2>2 DEF ICur, OnCpu, Thread
    <3>2. \A s \in Trees : left'[s] = IF s = tr THEN cpu ELSE left[s]
      BY <1>a, <2>2, <3>1 DEF Tick, TypeOK
    <3>3. cpu.at = "user" => saved_state = "TASK_RUNNING"
      BY DEF saved_state
    <3> SUFFICES ASSUME NEW s \in Trees
                 PROVE  /\ tss'[ptree_tasks[s]] = Thread(s)
                        /\ left'[s] = IF OnCpu(s) THEN cpu ELSE left[s]
                        /\ Thread(s).at # "cur_set"
                        /\ Thread(s).at = "user" => state'[ptree_tasks[s]] = "TASK_RUNNING"
                        /\ Thread(s).at # "nopid"
      OBVIOUS
    <3>4. CASE s = tr
      BY <1>b, <1>c, <1>d, <3>1, <3>2, <3>3, <3>4
    <3>5. CASE s # tr
      <4>1. /\ Thread(s) = tss[ptree_tasks[s]] /\ tss[ptree_tasks[s]] = left[s]
            /\ left[s].at = "user" => state[ptree_tasks[s]] = "TASK_RUNNING"
            /\ left[s].at \notin {"cur_set", "nopid"}
        BY <1>a, <3>1, <3>5 DEF IResume, Thread
      <4> QED
        BY <1>b, <1>c, <3>1, <3>2, <3>5, <4>1
    <3> QED
      BY <3>4, <3>5
  <2> QED
    BY <2>1, <2>2
<1>2. cpu' = Thread(t)
  <2>1. tss'[n] = Thread(t) /\ (Thread(t).at = "user" => state'[n] = "TASK_RUNNING")
    BY <1>1
  <2> QED
    BY <1>c, <2>1 DEF Resumed
<1>3. /\ cpu'.at \notin {"cur_set", "hlt"}
      /\ cpu'.task \in task_vector \ {0} /\ ptid[cpu'.task] = t
  <2>1. ThreadOK(cpu', n) /\ cpu'.at # "cur_set"
    BY <1>b, <1>1, <1>2
  <2>2. cpu'.at \in OwnPoints \cup CallerPoints /\ cpu'.at # "hlt"
    BY <2>1 DEF ThreadOK, OwnPoints, CallerPoints
  <2>3. CASE cpu'.at \in OwnPoints
    BY <1>b, <2>1, <2>2, <2>3 DEF ThreadOK
  <2>4. CASE cpu'.at \in CallerPoints
    BY <1>a, <1>b, <2>1, <2>2, <2>4 DEF ThreadOK, IKids
  <2> QED
    BY <2>2, <2>3, <2>4
<1>4. \A s \in Trees : OnCpu(s)' <=> s = t
  BY <1>c, <1>3 DEF OnCpu
<1>5. \A s \in Trees : Thread(s)' = Thread(s)
  BY <1>c, <1>1, <1>2, <1>4 DEF Thread
<1>6. IResume'
  <2> SUFFICES ASSUME NEW s \in Trees, s # t
               PROVE  /\ tss'[ptree_tasks[s]] = left'[s]
                      /\ left'[s].at = "user" => state'[ptree_tasks[s]] = "TASK_RUNNING"
                      /\ left'[s].at \notin {"cur_set", "nopid"}
    BY <1>c, <1>4 DEF IResume
  <2>1. left'[s] = Thread(s)
    BY <1>a, <1>1 DEF Thread, IResume
  <2> QED
    BY <1>1, <2>1
<1> QED
  BY <1>2, <1>3, <1>4, <1>5, <1>6

LEMMA TickInv ==
    ASSUME IInv, NoWindowTick, NEW t \in Trees, Tick(t)
    PROVE  IInv'
<1> USE ConstFacts
<1>a. TypeOK /\ IShells /\ IKids /\ IActive /\ IThreads /\ IWaiting /\ ICur /\ IRet /\ IFresh /\ IExc
  BY DEF IInv
<1> DEFINE n == ptree_tasks[t]
<1>b. /\ n \in Pids /\ ptid[n] = t
      /\ ThreadOK(Thread(t), n)
  BY <1>a DEF IActive, TypeOK, IThreads
<1>c. /\ cur_task' = n /\ cur_ptree' = t /\ tss_loaded' = n /\ cr3' = n
      /\ \A k \in Pids : tss'[k] = IF k = cur_task THEN cpu ELSE tss[k]
      /\ \A k \in Pids : state'[k] = IF k = cur_task THEN saved_state ELSE state[k]
      /\ UNCHANGED <<task_vector, num_tasks, ptree_tasks, parent_task, ptid, ret_esp>>
  BY <1>a, <1>b DEF Tick, TypeOK, switch_task, set_cur_task
<1>d. /\ cpu' = Thread(t)
      /\ \A s \in Trees : Thread(s)' = Thread(s)
      /\ cpu'.at \notin {"cur_set", "hlt"}
      /\ cpu'.task \in task_vector \ {0} /\ ptid[cpu'.task] = t
      /\ IResume'
  BY TickMovesNoThread
<1>f. Kids' = Kids
  BY <1>c DEF Kids
<1>1. TypeOK'
  <2>1. cpu' \in Positions
    BY <1>a, <1>d DEF TypeOK, Thread
  <2>2. saved_state \in TaskStates
    BY DEF saved_state, TaskStates
  <2>3. tss' \in [Pids -> Positions] /\ state' \in [Pids -> TaskStates]
    BY <1>a, <2>2 DEF TypeOK, Tick
  <2>4. left' \in [Trees -> Positions]
    BY <1>a DEF TypeOK, Tick, Positions
  <2> QED
    BY <1>a, <1>b, <1>c, <2>1, <2>3, <2>4 DEF TypeOK
<1>2. IShells' /\ IKids' /\ IActive'
  BY <1>a, <1>c, <1>f DEF IShells, IKids, IActive
<1>6. IThreads'
  BY <1>a, <1>c, <1>d, <1>f DEF IThreads, ThreadOK
<1>7. IWaiting'
  <2>1. \A s \in Trees : Starting(s)' = Starting(s)
    BY <1>d DEF Starting
  <2> QED
    BY <1>a, <1>c, <1>f, <2>1 DEF IWaiting
<1>9. ICur'
  BY <1>c, <1>d DEF ICur
<1>10. IRegs'
  <2>1. ThreadOK(cpu', n)
    BY <1>b, <1>d
  <2> QED
    BY <1>c, <1>d, <2>1 DEF IRegs, ThreadOK
<1>11. IRet'
  BY <1>a, <1>c, <1>d, <1>f DEF IRet
<1>12. IExc'
  <2> SUFFICES ASSUME NEW s \in Trees, NEW k \in Kids, ptid[k] = s,
                      state'[k] = "TASK_EXCEPTION"
               PROVE  Thread(s).at = "created" /\ Thread(s).kid = k
    BY <1>c, <1>d, <1>f DEF IExc
  <2>1. saved_state # "TASK_EXCEPTION"
    BY DEF saved_state
  <2>2. k # cur_task /\ state[k] = "TASK_EXCEPTION"
    BY <1>a, <1>c, <2>1 DEF Kids, TypeOK
  <2> QED
    BY <1>a, <2>2 DEF IExc
<1>13. IFresh'
  <2> SUFFICES ASSUME NEW s \in Trees
               PROVE  /\ Thread(s).at \in StartPoints => tss'[Thread(s).kid].at = "user"
                      /\ Thread(s).at = "tree_set" => tss'[Thread(s).kid].at = "user"
    BY <1>d DEF IFresh
  <2>1. /\ Thread(s).at \in StartPoints => tss[Thread(s).kid].at = "user"
        /\ Thread(s).at = "tree_set" => tss[Thread(s).kid].at = "user"
        /\ ThreadOK(Thread(s), ptree_tasks[s])
        /\ ptid[ptree_tasks[s]] = s /\ ptree_tasks[s] \in Pids /\ ptree_tasks[s] # 0
    BY <1>a DEF IFresh, IThreads, IActive, TypeOK
  <2>2. CASE Thread(s).at \in StartPoints
    <3>1. /\ Thread(s).kid \in Kids /\ parent_task[Thread(s).kid] = ptree_tasks[s]
          /\ \A k \in Kids : parent_task[k] # Thread(s).kid
      BY <2>1, <2>2 DEF ThreadOK
    <3>2. Thread(s).kid # cur_task
      <4>1. CASE cpu.at = "hlt"
        BY <1>a, <3>1, <4>1 DEF ICur, Kids
      <4>2. CASE cpu.at # "hlt"
        <5> PICK tr \in Trees : tr = cur_ptree
          BY <1>a DEF TypeOK
        <5>1. cpu.at # "cur_set"
          BY DEF Tick, NoWindowTick, ExecWindow
        <5>2. cur_task = ptree_tasks[tr] /\ ptid[cur_task] = tr
          BY <4>2, <5>1, OnTree
        <5>3. ptid[Thread(s).kid] = s
          BY <1>a, <2>1, <3>1 DEF IKids
        <5>4. CASE s = tr
          BY <3>1, <5>2, <5>4
        <5>5. CASE s # tr
          BY <5>2, <5>3, <5>5
        <5> QED
          BY <5>4, <5>5
      <4> QED
        BY <4>1, <4>2
    <3>3. Thread(s).kid \in Pids
      BY <1>a, <3>1 DEF Kids, TypeOK
    <3>4. Thread(s).at # "tree_set"
      BY <2>2 DEF StartPoints
    <3> QED
      BY <1>c, <2>1, <2>2, <3>2, <3>3, <3>4
  <2>3. CASE Thread(s).at = "tree_set"
    <3>1. Thread(s).kid = ptree_tasks[s] /\ Thread(s).at \notin StartPoints
      BY <2>1, <2>3 DEF ThreadOK, StartPoints
    <3>2. cpu.at \notin {"cur_set", "tree_set"}
      BY DEF Tick, NoWindowTick, ExecWindow
    <3>3. ptree_tasks[s] # cur_task
      <4> SUFFICES ASSUME ptree_tasks[s] = cur_task PROVE FALSE
        OBVIOUS
      <4>1. cpu.at # "hlt"
        BY <1>a, <2>1 DEF ICur
      <4>2. s = cur_ptree
        BY <2>1, <3>2, <4>1, OnTree
      <4>3. Thread(s) = cpu
        BY <4>1, <4>2, OnTree
      <4> QED
        BY <2>3, <3>2, <4>3
    <3> QED
      BY <1>c, <2>1, <2>3, <3>1, <3>3
  <2> QED
    BY <2>2, <2>3
<1> QED
  BY <1>1, <1>2, <1>6, <1>7, <1>9, <1>10, <1>11, <1>12, <1>13, <1>d DEF IInv

-----------------------------------------------------------------------------
(* The invariant holds                                                     *)

LEMMA InitInv == Init => IInv
<1> USE ConstFacts
<1> SUFFICES ASSUME Init PROVE IInv
  OBVIOUS
<1>a. /\ task_vector = {0} \cup Shells /\ num_tasks = NTerms + 1
      /\ cur_task = 0 /\ cur_ptree = 0
      /\ ptree_tasks = [t \in Trees |-> t + 1]
      /\ parent_task = [p \in Pids |-> IF p \in Shells THEN 0 ELSE None]
      /\ ptid = [p \in Pids |-> IF p \in Shells THEN p - 1 ELSE 0]
      /\ state = [p \in Pids |-> "TASK_RUNNING"]
      /\ ret_esp = [p \in Pids |-> IF p \in Shells THEN p ELSE None]
      /\ tss = [p \in Pids |-> UserAt(p)]
      /\ left = [t \in Trees |-> UserAt(t + 1)]
      /\ cr3 = 0 /\ tss_loaded = 0
  BY DEF Init, tasks_init
<1>b. /\ cpu.at = "hlt" /\ cpu.task = 0 /\ cpu \in Positions /\ cpu.ret = 0
  BY PointFacts DEF Init, At, Positions
<1>c. Kids = {}
  BY <1>a DEF Kids
<1>d. /\ \A t \in Trees : t + 1 \in Shells /\ t + 1 \in Pids /\ t + 1 # 0 /\ (t + 1) - 1 = t
      /\ \A p \in Shells : p - 1 \in Trees /\ p \in Pids
      /\ \A p \in Shells : (p - 1) + 1 = p
  BY ConstAssumption DEF Trees, Shells, Pids
<1>1. TypeOK
  <2>1. \A p \in Pids : UserAt(p) \in Positions
    BY UserAtFacts
  <2>2. NTerms + 1 \in Int
    BY ConstAssumption
  <2>3. tss \in [Pids -> Positions] /\ left \in [Trees -> Positions]
    BY <1>a, <1>d, <2>1
  <2>4. /\ ptid \in [Pids -> Trees] /\ ptree_tasks \in [Trees -> Pids]
    BY <1>a, <1>d
  <2>5. state \in [Pids -> TaskStates]
    BY <1>a DEF TaskStates
  <2>6. /\ parent_task \in [Pids -> Pids \cup {None}]
        /\ ret_esp \in [Pids -> Pids \cup {None}]
    BY <1>a, <1>d
  <2>7. task_vector \subseteq Pids
    BY <1>a
  <2> QED
    BY <1>a, <1>b, <2>2, <2>3, <2>4, <2>5, <2>6, <2>7 DEF TypeOK
<1>2. IShells /\ IKids /\ IRet /\ IExc
  BY <1>a, <1>c, <1>d DEF IShells, IKids, IRet, IExc
<1>3. IActive
  BY <1>a, <1>d DEF IActive
<1>4. \A t \in Trees : /\ ~OnCpu(t) /\ ptree_tasks[t] = t + 1
                       /\ Thread(t) = UserAt(t + 1)
                       /\ Thread(t).at = "user" /\ Thread(t).task = t + 1
                       /\ Thread(t).ret = 0
  BY <1>a, <1>b, <1>d, UserAtFacts DEF OnCpu, Thread
<1>5. IThreads
  BY <1>c, <1>4 DEF IThreads, ThreadOK, OwnPoints, CallerPoints, StartPoints
<1>6. IWaiting
  BY <1>a, <1>d DEF IWaiting
<1>7. IResume
  <2> SUFFICES ASSUME NEW t \in Trees
               PROVE  /\ tss[ptree_tasks[t]] = left[t]
                      /\ state[ptree_tasks[t]] = "TASK_RUNNING"
                      /\ left[t].at = "user"
    BY DEF IResume
  <2> QED
    BY <1>a, <1>d, <1>4, UserAtFacts DEF Thread
<1>8. ICur /\ IRegs
  BY <1>a, <1>b DEF ICur, IRegs, OwnPoints
<1>9. IFresh
  BY <1>4 DEF IFresh, StartPoints
<1> QED
  BY <1>1, <1>2, <1>3, <1>5, <1>6, <1>7, <1>8, <1>9 DEF IInv

\* One step per action
LEMMA NextInv ==
    ASSUME NoWindowTick, IInv, [Next]_vars
    PROVE  IInv'
<1>1. CASE SyscallEnter \/ SyscallReturn \/ CreateNoPid \/ NoPidReturn \/ Fault \/ Halt
  BY <1>1, MoveInv
<1>2. CASE \E pid \in Pids : CreateTask(pid)
  BY <1>2, CreateTaskInv
<1>3. CASE \E pid \in Pids : CreateLoadFails(pid)
  BY <1>3, LoadFailsInv
<1>4. CASE ExecuteArm
  BY <1>4, ExecuteArmInv
<1>5. CASE ExecuteSetCur
  BY <1>5, ExecuteSetCurInv
<1>6. CASE ExecuteSetTree
  BY <1>6, ExecuteSetTreeInv
<1>7. CASE ExecuteFrame
  BY <1>7, ExecuteFrameInv
<1>9. CASE ExecuteIret
  BY <1>9, ExecuteIretInv
<1>10. CASE FaultHalt
  BY <1>10, FaultHaltInv
<1>11. CASE HaltRestartShell
  BY <1>11, HaltRestartShellInv
<1>12. CASE HaltReturn
  BY <1>12, HaltReturnInv
<1>13. CASE HaltStatus
  BY <1>13, HaltStatusInv
<1>14. CASE EndTask
  BY <1>14, EndTaskInv
<1>15. CASE ExecuteReturn
  BY <1>15, ExecuteReturnInv
<1>16. CASE \E t \in Trees : Tick(t)
  BY <1>16, TickInv
<1>17. CASE UNCHANGED vars
  BY <1>17 DEF vars, sched, pcbs, IInv, TypeOK, IShells, IKids, IActive, IThreads,
               IWaiting, IResume, ICur, IRegs, IRet, IFresh, IExc, Kids, OnCpu,
               Thread, Starting, ThreadOK
<1> QED
  BY <1>1, <1>2, <1>3, <1>4, <1>5, <1>6, <1>7, <1>9, <1>10, <1>11, <1>12,
     <1>13, <1>14, <1>15, <1>16, <1>17 DEF Next, UserStep, RunStep, BlockingStep

\* The strengthened invariant holds in every state, for every number of tasks
\* and terminals, when no tick lands between set_cur_task and setup_task_stack.
THEOREM Invariance ==
    ASSUME NoWindowTick
    PROVE  Spec => []IInv
<1>1. Init => IInv
  BY InitInv
<1>2. IInv /\ [Next]_vars => IInv'
  BY NextInv
<1> QED
  BY <1>1, <1>2, PTL DEF Spec

-----------------------------------------------------------------------------
(* What the invariant says                                                 *)

LEMMA InvImpliesTree == IInv => ProcessTree
<1> USE ConstFacts
<1> SUFFICES ASSUME IInv PROVE ProcessTree
  OBVIOUS
<1>a. TypeOK /\ IKids /\ IActive /\ IThreads /\ IWaiting
  BY DEF IInv
<1>1. ASSUME NEW t \in Trees
      PROVE  {k \in Kids : parent_task[k] = ptree_tasks[t]} = Starting(t)
  <2>1. ThreadOK(Thread(t), ptree_tasks[t])
    BY <1>a DEF IThreads
  <2>2. CASE Thread(t).at \in StartPoints
    <3>1. Starting(t) = {Thread(t).kid}
      BY <2>2 DEF Starting, StartPoints
    <3>2. Thread(t).kid \in Kids /\ parent_task[Thread(t).kid] = ptree_tasks[t]
      BY <2>1, <2>2 DEF ThreadOK
    <3> QED
      BY <1>a, <3>1, <3>2 DEF IKids
  <2>3. CASE Thread(t).at \notin StartPoints
    <3>1. Starting(t) = {}
      BY <2>3 DEF Starting, StartPoints
    <3> QED
      BY <2>1, <2>3, <3>1 DEF ThreadOK
  <2> QED
    BY <2>2, <2>3
<1>2. ASSUME NEW p \in task_vector \ {0}
      PROVE  \/ p = ptree_tasks[ptid[p]]
             \/ p \in Starting(ptid[p])
             \/ \E k \in Kids : parent_task[k] = p
  BY <1>a DEF IWaiting, TypeOK
<1> QED
  BY <1>a, <1>1, <1>2 DEF ProcessTree, IKids, IActive

LEMMA InvImpliesSafety ==
    IInv => ParentSuspended /\ Resumable /\ RunsAsItself /\ ReturnsToCaller /\ NoSpurious256
<1> USE ConstFacts
<1> SUFFICES ASSUME IInv
             PROVE  ParentSuspended /\ Resumable /\ RunsAsItself /\ ReturnsToCaller /\ NoSpurious256
  OBVIOUS
<1>a. TypeOK /\ IResume /\ ICur /\ IRegs
  BY DEF IInv
<1>1. Resumable
  BY <1>a DEF Resumable, IResume, Resumed
<1>2. CASE cpu.at = "hlt"
  <2>1. cpu.task = 0 /\ cpu.ret = 0
    BY <1>a, <1>2 DEF ICur
  <2> QED
    BY <1>1, <1>2, <2>1 DEF ParentSuspended, RunsAsItself, ReturnsToCaller, NoSpurious256
<1>3. CASE cpu.at # "hlt"
  <2>1. /\ ThreadOK(cpu, ptree_tasks[cur_ptree])
        /\ cpu.at # "cur_set" => cur_task = ptree_tasks[cur_ptree]
        /\ cpu.task \in task_vector
    BY <1>3, OnTree
  <2> QED
    BY <1>a, <1>1, <2>1 DEF ParentSuspended, RunsAsItself, ReturnsToCaller, NoSpurious256,
       ThreadOK, OwnPoints, CallerPoints, StartPoints, IRegs
<1> QED
  BY <1>2, <1>3

-----------------------------------------------------------------------------
(* Theorems.  All assume that no tick lands between set_cur_task and       *)
(* setup_task_stack in execute_task.                                       *)

\* Every field of the scheduler and of the task structures keeps its type, and
\* the CPU never leaves the known positions.
THEOREM TypeCorrect ==
    ASSUME NoWindowTick
    PROVE  Spec => []TypeOK
<1>1. IInv => TypeOK
  BY DEF IInv
<1> QED
  BY <1>1, Invariance, PTL

\* The live tasks of every terminal are a chain of calls that ends in the task
\* the terminal resumes, whatever create_task, execute_task, halt, end_task and
\* the PIT do in which order.
THEOREM TreeShape ==
    ASSUME NoWindowTick
    PROVE  Spec => []ProcessTree
BY InvImpliesTree, Invariance, PTL

\* Unless a tick hits execute_task between set_cur_task and setup_task_stack, a
\* program that called execute runs no user code before the program it started
\* has ended.
THEOREM CallerWaits ==
    ASSUME NoWindowTick
    PROVE  Spec => []ParentSuspended
<1>1. IInv => ParentSuspended
  BY InvImpliesSafety
<1> QED
  BY <1>1, Invariance, PTL

\* save_state and load_state agree: a tick resumes a terminal exactly where it
\* was preempted, in user or in kernel code.
THEOREM ResumeCorrect ==
    ASSUME NoWindowTick
    PROVE  Spec => []Resumable
<1>1. IInv => Resumable
  BY InvImpliesSafety
<1> QED
  BY <1>1, Invariance, PTL

\* User code runs as the current task, on its own page directory, and traps to
\* its own kernel stack.
THEOREM Isolation ==
    ASSUME NoWindowTick
    PROVE  Spec => []RunsAsItself
<1>1. IInv => RunsAsItself
  BY InvImpliesSafety
<1> QED
  BY <1>1, Invariance, PTL

\* halt continues in the program that called execute.
THEOREM HaltCorrect ==
    ASSUME NoWindowTick
    PROVE  Spec => []ReturnsToCaller
<1>1. IInv => ReturnsToCaller
  BY InvImpliesSafety
<1> QED
  BY <1>1, Invariance, PTL

\* execute returns 256 only for a program that died of an exception.
THEOREM StatusCorrect ==
    ASSUME NoWindowTick
    PROVE  Spec => []NoSpurious256
<1>1. IInv => NoSpurious256
  BY InvImpliesSafety
<1> QED
  BY <1>1, Invariance, PTL

\* num_tasks counts the pids in use on every path through create_task and
\* end_task.
THEOREM CountCorrect ==
    ASSUME NoWindowTick
    PROVE  Spec => []TaskCount
<1> USE ConstFacts
<1>0. TypeOK => IsFiniteSet(task_vector)
  <2>1. IsFiniteSet(Pids)
    BY ConstAssumption, FS_Interval DEF Pids
  <2> QED
    BY <2>1, FS_Subset DEF TypeOK
<1>1. Init => TaskCount
  <2>1. IsFiniteSet(Shells) /\ Cardinality(Shells) = NTerms
    BY ConstAssumption, FS_Interval DEF Shells
  <2>2. Cardinality(Shells \cup {0}) = NTerms + 1
    BY <2>1, FS_AddElement
  <2>3. {0} \cup Shells = Shells \cup {0}
    OBVIOUS
  <2> QED
    BY <2>2, <2>3 DEF Init, tasks_init, TaskCount
<1>2. IInv /\ TaskCount /\ [Next]_vars => TaskCount'
  <2> SUFFICES ASSUME IInv, TaskCount, [Next]_vars
               PROVE  num_tasks' = Cardinality(task_vector')
    BY DEF TaskCount
  <2>a. /\ TypeOK /\ num_tasks = Cardinality(task_vector)
        /\ IsFiniteSet(task_vector)
    BY <1>0 DEF IInv, TaskCount
  <2>1. CASE \E pid \in Pids : CreateTask(pid)
    <3> PICK pid \in Pids : CreateTask(pid)
      BY <2>1
    <3>1. /\ pid \notin task_vector /\ task_vector' = task_vector \cup {pid}
          /\ num_tasks' = num_tasks + 1
      BY DEF CreateTask, get_new_pid
    <3> QED
      BY <2>a, <3>1, FS_AddElement
  <2>2. CASE EndTask
    <3>1. cpu.at = "ending" /\ cpu.at # "hlt" /\ cpu.at # "cur_set"
      BY <2>2 DEF EndTask
    <3>2. cur_task \in task_vector
      BY <3>1, OnTree
    <3>3. task_vector' = task_vector \ {cur_task} /\ num_tasks' = num_tasks - 1
      BY <2>2 DEF EndTask
    <3> QED
      BY <2>a, <3>2, <3>3, FS_RemoveElement
  <2>3. CASE UNCHANGED <<task_vector, num_tasks>>
    BY <2>a, <2>3
  <2> QED
    BY <2>1, <2>2, <2>3 DEF Next, UserStep, RunStep, BlockingStep, vars, sched,
       SyscallEnter, SyscallReturn, CreateNoPid, NoPidReturn, CreateLoadFails,
       ExecuteArm, ExecuteSetCur, ExecuteSetTree, ExecuteFrame,
       ExecuteIret, Fault, FaultHalt, Halt, HaltRestartShell, HaltReturn,
       HaltStatus, ExecuteReturn, Tick
<1> QED
  BY <1>1, <1>2, Invariance, PTL DEF Spec

-----------------------------------------------------------------------------
(* Refinement: every step of Sched is a step of ProcTree or a stutter      *)

\* The abstract tree seen through the refinement mapping
LEMMA AbsFacts ==
    /\ Abs!Roots = Shells
    /\ (task_vector \ {0}) \ Abs!Roots = Kids
    /\ \A k \in Kids : [p \in task_vector \ {0} |->
                           IF p \in Shells THEN None ELSE parent_task[p]][k] = parent_task[k]
    /\ \A p : Abs!Callees(p) = {k \in Kids : parent_task[k] = p}
<1>1. Abs!Roots = Shells
  <2>1. \A t \in Trees : [u \in Trees |-> u + 1][t] = t + 1
    OBVIOUS
  <2>2. \A p \in Shells : p - 1 \in Trees /\ (p - 1) + 1 = p
    BY ConstAssumption DEF Shells, Trees
  <2>3. \A t \in Trees : t + 1 \in Shells
    BY ConstFacts
  <2> QED
    BY <2>1, <2>2, <2>3 DEF Abs!Roots
<1>2. (task_vector \ {0}) \ Abs!Roots = Kids
  BY <1>1 DEF Kids
<1>3. \A k \in Kids : [p \in task_vector \ {0} |->
                          IF p \in Shells THEN None ELSE parent_task[p]][k] = parent_task[k]
  BY DEF Kids
<1> QED
  BY <1>1, <1>2, <1>3 DEF Abs!Callees

LEMMA AbsInit == Init => Abs!Init
<1> USE ConstFacts
<1> SUFFICES ASSUME Init PROVE Abs!Init
  OBVIOUS
<1>1. task_vector \ {0} = Shells
  BY DEF Init, tasks_init
<1>2. [p \in Shells |-> IF p \in Shells THEN None ELSE parent_task[p]] = [r \in Shells |-> -1]
  BY DEF None
<1>3. ptree_tasks = [t \in Trees |-> t + 1]
  BY DEF Init, tasks_init
<1> QED
  BY <1>1, <1>2, <1>3, AbsFacts DEF Abs!Init

\* create_task creates
LEMMA CreateTaskAbs ==
    ASSUME IInv, NEW pid \in Pids, CreateTask(pid)
    PROVE  \E t \in Trees : Abs!Create(t, pid)
<1> USE ConstFacts
<1>a. TypeOK /\ IShells
  BY DEF IInv
<1> PICK tr \in Trees : tr = cur_ptree
  BY <1>a DEF TypeOK
<1>1. /\ cpu.at = "user" /\ cur_task = ptree_tasks[tr]
      /\ \A k \in Kids : parent_task[k] # ptree_tasks[tr]
  BY OnTree DEF CreateTask, ThreadOK, StartPoints
<1>2. /\ pid \notin task_vector /\ pid # 0 /\ pid \notin Shells
      /\ task_vector' = task_vector \cup {pid} /\ ptree_tasks' = ptree_tasks
      /\ parent_task' = [parent_task EXCEPT ![pid] = cur_task]
  BY <1>a DEF CreateTask, init_task, get_new_pid, IShells
<1>3. \A p \in Pids : parent_task'[p] = IF p = pid THEN ptree_tasks[tr] ELSE parent_task[p]
  BY <1>a, <1>1, <1>2 DEF TypeOK
<1>4. task_vector' \ {0} = (task_vector \ {0}) \cup {pid}
  BY <1>2
<1>5. Abs!Callees(ptree_tasks[tr]) = {}
  BY <1>1, AbsFacts
<1>6. [p \in task_vector' \ {0} |-> IF p \in Shells THEN None ELSE parent_task'[p]]
        = [p \in task_vector' \ {0} |->
              IF p = pid THEN ptree_tasks[tr]
              ELSE [q \in task_vector \ {0} |->
                       IF q \in Shells THEN None ELSE parent_task[q]][p]]
  <2> SUFFICES ASSUME NEW p \in task_vector' \ {0}
               PROVE  (IF p \in Shells THEN None ELSE parent_task'[p])
                        = IF p = pid THEN ptree_tasks[tr]
                          ELSE [q \in task_vector \ {0} |->
                                   IF q \in Shells THEN None ELSE parent_task[q]][p]
    OBVIOUS
  <2>1. p \in Pids
    BY <1>a, <1>2 DEF TypeOK
  <2>2. CASE p = pid
    BY <1>2, <1>3, <2>1, <2>2
  <2>3. CASE p # pid
    BY <1>3, <1>4, <2>1, <2>3
  <2> QED
    BY <2>2, <2>3
<1>7. Abs!Create(tr, pid)
  BY <1>2, <1>4, <1>5, <1>6 DEF Abs!Create
<1> QED
  BY <1>7

\* set_ptree_task in execute_task enters
LEMMA ExecuteSetTreeAbs ==
    ASSUME IInv, ExecuteSetTree
    PROVE  \E t \in Trees : \E q \in Pids \ {0} : Abs!Enter(t, q)
<1> USE ConstFacts
<1>a. TypeOK /\ IKids
  BY DEF IInv
<1> PICK tr \in Trees : tr = cur_ptree
  BY <1>a DEF TypeOK
<1> PICK k0 : k0 = cpu.kid
  OBVIOUS
<1>1. k0 \in Kids /\ parent_task[k0] = ptree_tasks[tr] /\ ptid[ptree_tasks[tr]] = tr
  BY OnTree DEF ThreadOK, StartPoints, ExecuteSetTree
<1>2. ptid[k0] = tr /\ k0 \in Pids \ {0}
  BY <1>a, <1>1 DEF IKids, Kids, TypeOK
<1>3. /\ ptree_tasks' = [ptree_tasks EXCEPT ![tr] = k0]
      /\ task_vector' = task_vector /\ parent_task' = parent_task
  BY <1>2 DEF ExecuteSetTree, pcbs
<1>4. Abs!Enter(tr, k0)
  BY <1>1, <1>3, AbsFacts DEF Abs!Enter
<1> QED
  BY <1>2, <1>4

\* end_task returns
LEMMA EndTaskAbs ==
    ASSUME IInv, EndTask
    PROVE  \E t \in Trees : Abs!Return(t)
<1> USE ConstFacts
<1>a. TypeOK /\ IKids
  BY DEF IInv
<1> PICK tr \in Trees : tr = cur_ptree
  BY <1>a DEF TypeOK
<1> PICK a : a = ptree_tasks[tr]
  OBVIOUS
<1>1. /\ cpu.at = "ending" /\ cur_task = a /\ a \in Kids
      /\ \A k \in Kids : parent_task[k] # a
  BY OnTree DEF ThreadOK, StartPoints, CallerPoints, EndTask
<1>2. ptid[parent_task[a]] = tr /\ a \notin Shells /\ a # 0
  BY <1>a, <1>1, OnTree DEF IKids, Kids
<1>3. /\ ptree_tasks' = [ptree_tasks EXCEPT ![tr] = parent_task[a]]
      /\ task_vector' = task_vector \ {a} /\ parent_task' = parent_task
  BY <1>1, <1>2 DEF EndTask, pcbs
<1>4. Abs!Callees(a) = {} /\ a \notin Abs!Roots
  BY <1>1, <1>2, AbsFacts
<1>5. task_vector' \ {0} = (task_vector \ {0}) \ {a}
  BY <1>3
<1>6. [p \in task_vector' \ {0} |-> IF p \in Shells THEN None ELSE parent_task'[p]]
        = [p \in task_vector' \ {0} |->
              [q \in task_vector \ {0} |->
                  IF q \in Shells THEN None ELSE parent_task[q]][p]]
  BY <1>3, <1>5
<1>7. [q \in task_vector \ {0} |->
          IF q \in Shells THEN None ELSE parent_task[q]][a] = parent_task[a]
  BY <1>1, AbsFacts
<1>8. Abs!Return(tr)
  BY <1>3, <1>4, <1>5, <1>6, <1>7 DEF Abs!Return
<1> QED
  BY <1>8

\* Everything else leaves the tree alone
LEMMA StutterAbs ==
    ASSUME task_vector' = task_vector, ptree_tasks' = ptree_tasks,
           \A p \in task_vector : parent_task'[p] = parent_task[p]
    PROVE  UNCHANGED Abs!vars
<1>1. [p \in task_vector' \ {0} |-> IF p \in Shells THEN None ELSE parent_task'[p]]
        = [p \in task_vector \ {0} |-> IF p \in Shells THEN None ELSE parent_task[p]]
  OBVIOUS
<1> QED
  BY <1>1 DEF Abs!vars

\* The scheduler implements the process tree of ProcTree: create_task creates
\* a callee of an active program, execute_task makes it active, end_task returns
\* to the caller, and no other operation, fault or tick changes the tree.
THEOREM Refinement ==
    ASSUME NoWindowTick
    PROVE  Spec => ImplementsProcTree
<1> USE ConstFacts
<1>1. Init => Abs!Init
  BY AbsInit
<1>2. IInv /\ [Next]_vars => [Abs!Next]_Abs!vars
  <2> SUFFICES ASSUME IInv, [Next]_vars PROVE [Abs!Next]_Abs!vars
    OBVIOUS
  <2>0. TypeOK /\ {0} \subseteq task_vector
    BY DEF IInv, IShells
  <2>1. CASE \E pid \in Pids : CreateTask(pid)
    <3> PICK pid \in Pids : CreateTask(pid)
      BY <2>1
    <3>1. pid \in Pids \ {0}
      BY <2>0 DEF CreateTask, get_new_pid
    <3> QED
      BY <3>1, CreateTaskAbs DEF Abs!Next
  <2>2. CASE ExecuteSetTree
    BY <2>2, ExecuteSetTreeAbs DEF Abs!Next
  <2>3. CASE EndTask
    BY <2>3, EndTaskAbs DEF Abs!Next
  <2>4. CASE \E pid \in Pids : CreateLoadFails(pid)
    <3> PICK pid \in Pids : CreateLoadFails(pid)
      BY <2>4
    <3>1. /\ task_vector' = task_vector /\ ptree_tasks' = ptree_tasks
          /\ \A p \in task_vector : parent_task'[p] = parent_task[p]
      BY <2>0 DEF CreateLoadFails, get_new_pid, init_task, sched, TypeOK
    <3> QED
      BY <3>1, StutterAbs
  <2>5. CASE task_vector' = task_vector /\ ptree_tasks' = ptree_tasks /\ parent_task' = parent_task
    BY <2>5, StutterAbs
  <2> QED
    BY <2>1, <2>2, <2>3, <2>4, <2>5 DEF Next, UserStep, RunStep, BlockingStep, vars,
       sched, pcbs, SyscallEnter, SyscallReturn, CreateNoPid, NoPidReturn,
       ExecuteArm, ExecuteSetCur, ExecuteFrame, ExecuteIret, Fault,
       FaultHalt, Halt, HaltRestartShell, HaltReturn, HaltStatus, ExecuteReturn, Tick
<1> QED
  BY <1>1, <1>2, Invariance, PTL DEF Spec, ImplementsProcTree, Abs!Spec


-----------------------------------------------------------------------------
(* SchedVideo: the inductive invariant                                     *)

VType ==
    /\ video \in [Pids -> {"VIDEO", "GARBAGE"}]
    /\ displayed \in Trees
    /\ swept \subseteq Pids
    /\ settled \in BOOLEAN

\* The page directory in use is that of a task of the running tree: the active
\* task, or the caller of an active task that has not been preempted yet
VCr3 ==
    /\ cpu.at = "hlt" => cr3 = 0
    /\ cpu.at # "hlt" => cr3 \in task_vector /\ ptid[cr3] = cur_ptree
    /\ cpu.at \in CallerPoints =>
          \/ cr3 = ptree_tasks[cur_ptree]
          \/ cpu.at \in {"tree_set", "framed"} /\ ptree_tasks[cur_ptree] \notin swept

\* A child that is being started has the screen that init_task_pd gave it
VStartOK(P) ==
    P.at \in StartPoints => video[P.kid] = "VIDEO" /\ P.kid \notin swept

VStart == \A t \in Trees : VStartOK(Thread(t))

\* The points from which the running thread goes back to user code of its task
\* without a tick or an end_task
BackPoints == {"user", "nopid", "sys", "exc", "halt", "created", "ended"}

VShown ==
    settled /\ cpu.at # "hlt" /\ cur_ptree = displayed =>
        /\ cpu.at \in BackPoints => video[cr3] = "VIDEO"
        /\ cpu.at \in {"tree_set", "framed"} => video[ptree_tasks[cur_ptree]] = "VIDEO"

VHidden ==
    settled /\ cpu.at # "hlt" /\ cur_ptree # displayed /\ cr3 \in swept =>
        video[cr3] = "GARBAGE"

\* A tree that waits for the CPU has lost the screen, once it was preempted
VWaits ==
    \A t \in Trees : ~OnCpu(t) /\ ptree_tasks[t] \in swept =>
        video[ptree_tasks[t]] = "GARBAGE"

VInv == IInv /\ VType /\ VCr3 /\ VStart /\ VShown /\ VHidden /\ VWaits

-----------------------------------------------------------------------------
(* A step of the running thread                                            *)

\* A child being started belongs to the tree that starts it and is not the
\* active task
LEMMA StartingChild ==
    ASSUME IInv, NEW t \in Trees, Thread(t).at \in StartPoints
    PROVE  /\ Thread(t).kid \in Kids /\ Thread(t).kid \in Pids
           /\ Thread(t).kid \in task_vector /\ Thread(t).kid # 0
           /\ ptid[Thread(t).kid] = t
           /\ Thread(t).kid # ptree_tasks[t]
<1>1. TypeOK /\ IKids /\ IActive /\ ThreadOK(Thread(t), ptree_tasks[t])
  BY DEF IInv, IThreads
<1>2. /\ Thread(t).kid \in Kids /\ parent_task[Thread(t).kid] = ptree_tasks[t]
      /\ \A k \in Kids : parent_task[k] # Thread(t).kid
  BY <1>1 DEF ThreadOK
<1> QED
  BY <1>1, <1>2 DEF IKids, IActive, TypeOK, Kids

\* The thread on the CPU steps: what the other trees wait with stays as it is,
\* so the invariant is left to show for the running tree only
LEMMA RunningStep ==
    ASSUME VInv, IInv', cpu.at # "hlt", cpu'.at # "hlt",
           NEW c \in Trees, c = cur_ptree, cur_ptree' = c,
           \A t \in Trees : t # c =>
               /\ ptree_tasks'[t] = ptree_tasks[t]
               /\ tss'[ptree_tasks[t]] = tss[ptree_tasks[t]],
           \A p \in task_vector : ptid[p] # c => video'[p] = video[p],
           swept' \subseteq swept,
           VType', VCr3', VStartOK(cpu)', VShown', VHidden'
    PROVE  VInv'
<1>a. IInv /\ VStart /\ VWaits /\ IActive
  BY DEF VInv, IInv
<1>b. cpu'.task # 0 /\ ptid'[cpu'.task] = c
  BY DEF IInv, ICur
<1>c. /\ OnCpu(c)' /\ Thread(c)' = cpu'
      /\ \A t \in Trees : t # c =>
            /\ ~OnCpu(t)' /\ Thread(t)' = Thread(t)
            /\ ptree_tasks'[t] = ptree_tasks[t]
  BY <1>a, <1>b, OtherThreads
<1>d. \A t \in Trees : t # c => ~OnCpu(t)
  BY <1>a, OnTree
<1>1. VStart'
  <2> SUFFICES ASSUME NEW t \in Trees PROVE VStartOK(Thread(t))'
    BY DEF VStart
  <2>1. CASE t = c
    BY <1>c, <2>1 DEF VStartOK
  <2>2. CASE t # c
    <3>1. VStartOK(Thread(t)) /\ Thread(t)' = Thread(t)
      BY <1>a, <1>c, <2>2 DEF VStart
    <3>2. Thread(t).at \in StartPoints =>
            Thread(t).kid \in task_vector /\ ptid[Thread(t).kid] = t
      BY <1>a, StartingChild
    <3> QED
      BY <2>2, <3>1, <3>2 DEF VStartOK
  <2> QED
    BY <2>1, <2>2
<1>2. VWaits'
  <2> SUFFICES ASSUME NEW t \in Trees, t # c, ptree_tasks[t] \in swept
               PROVE  video'[ptree_tasks[t]] = "GARBAGE"
    BY <1>c DEF VWaits
  <2> QED
    BY <1>a, <1>d DEF VWaits, IActive
<1> QED
  BY <1>1, <1>2 DEF VInv

\* The same when the step keeps the page directory, the live tasks and the
\* video pages
LEMMA StillStep ==
    ASSUME VInv, IInv', cpu.at # "hlt", cpu'.at # "hlt",
           NEW c \in Trees, c = cur_ptree, cur_ptree' = c,
           UNCHANGED <<task_vector, ptid, cr3, videoVars>>,
           \A t \in Trees : t # c =>
               /\ ptree_tasks'[t] = ptree_tasks[t]
               /\ tss'[ptree_tasks[t]] = tss[ptree_tasks[t]],
           cpu'.at \in CallerPoints =>
               \/ cr3 = ptree_tasks'[c]
               \/ cpu'.at \in {"tree_set", "framed"} /\ ptree_tasks'[c] \notin swept,
           VStartOK(cpu'),
           settled /\ c = displayed =>
               /\ cpu'.at \in BackPoints => video[cr3] = "VIDEO"
               /\ cpu'.at \in {"tree_set", "framed"} => video[ptree_tasks'[c]] = "VIDEO"
    PROVE  VInv'
<1>1. /\ video' = video /\ displayed' = displayed /\ swept' = swept
      /\ settled' = settled
  BY DEF videoVars
<1>2. VType' /\ VStartOK(cpu)'
  BY <1>1 DEF VInv, VType, VStartOK
<1>3. VCr3' /\ VShown' /\ VHidden'
  BY <1>1 DEF VInv, VCr3, VShown, VHidden
<1> QED
  BY <1>1, <1>2, <1>3, RunningStep

\* What VInv says of the thread on the CPU
LEMMA VOnTree ==
    ASSUME VInv, cpu.at # "hlt", NEW c \in Trees, c = cur_ptree
    PROVE  /\ VStartOK(cpu) /\ cpu.task \in task_vector \ {0} /\ ptid[cpu.task] = c
           /\ cr3 \in task_vector /\ ptid[cr3] = c /\ cr3 \in Pids
           /\ ptree_tasks[c] \in task_vector \ {0}
           /\ ptid[ptree_tasks[c]] = c
           /\ ThreadOK(cpu, ptree_tasks[c])
           /\ cpu.at # "cur_set" => cur_task = ptree_tasks[c]
           /\ cpu.at \in OwnPoints \ {"cur_set"} => cr3 = ptree_tasks[c]
           /\ task_vector \subseteq Pids /\ Kids \subseteq task_vector
<1>1. IInv /\ VCr3 /\ VStart
  BY DEF VInv
<1>2. /\ Thread(c) = cpu /\ cpu.task \in task_vector \ {0} /\ ptid[cpu.task] = c
      /\ ptree_tasks[c] \in task_vector \ {0}
      /\ ptid[ptree_tasks[c]] = c
      /\ ThreadOK(cpu, ptree_tasks[c])
      /\ cpu.at # "cur_set" => cur_task = ptree_tasks[c]
      /\ task_vector \subseteq Pids /\ Kids \subseteq task_vector
  BY <1>1, OnTree
<1>3. VStartOK(cpu)
  BY <1>1, <1>2 DEF VStart
<1>4. cpu.at \in OwnPoints \ {"cur_set"} => cr3 = ptree_tasks[c]
  BY <1>1, <1>2 DEF IInv, IRegs, ThreadOK
<1> QED
  BY <1>1, <1>2, <1>3, <1>4 DEF VCr3

\* System calls, faults, the calls and the return of halt, the restart of a shell
LEMMA BackInv ==
    ASSUME VInv, IInv', UNCHANGED videoVars,
           \/ SyscallEnter \/ SyscallReturn \/ CreateNoPid \/ NoPidReturn
           \/ Fault \/ FaultHalt \/ Halt \/ HaltRestartShell \/ ExecuteReturn
    PROVE  VInv'
<1> USE ConstFacts
<1>a. IInv /\ TypeOK /\ TypeOK' /\ VShown
  BY DEF VInv, IInv
<1> PICK c \in Trees : c = cur_ptree
  BY <1>a DEF TypeOK
<1>1. /\ cpu.at \in BackPoints
      /\ UNCHANGED <<task_vector, ptid, cr3, ptree_tasks, cur_ptree>>
  BY DEF SyscallEnter, SyscallReturn, CreateNoPid, NoPidReturn, Fault, FaultHalt,
         Halt, HaltRestartShell, ExecuteReturn, BackPoints, sched, pcbs
<1>2. cpu'.at \in BackPoints \ {"created"}
  <2>1. CASE SyscallEnter \/ SyscallReturn \/ CreateNoPid \/ NoPidReturn \/ Fault \/ Halt
    <3>1. PICK q \in {"user", "sys", "nopid", "exc", "halt"} : cpu' = [cpu EXCEPT !.at = q]
      BY <2>1 DEF SyscallEnter, SyscallReturn, CreateNoPid, NoPidReturn, Fault, Halt, Goto
    <3> QED
      BY <1>a, <3>1 DEF BackPoints, TypeOK, Positions
  <2>2. CASE FaultHalt
    BY <1>a, <2>2 DEF FaultHalt, BackPoints, TypeOK, Positions
  <2>3. CASE HaltRestartShell \/ ExecuteReturn
    BY <2>3 DEF HaltRestartShell, ExecuteReturn, UserAt, At, BackPoints
  <2> QED
    BY <2>1, <2>2, <2>3
<1>3. /\ cpu.at # "hlt" /\ cpu.at # "cur_set" /\ cpu'.at # "hlt"
      /\ cpu'.at \notin CallerPoints \cup StartPoints
      /\ cpu'.at \notin {"tree_set", "framed"}
  BY <1>1, <1>2 DEF BackPoints, CallerPoints, StartPoints
<1>4. \A t \in Trees : t # c => tss'[ptree_tasks[t]] = tss[ptree_tasks[t]]
  <2>1. CASE HaltRestartShell
    <3>1. tss' = [tss EXCEPT ![cur_task] = UserAt(ret_esp[cur_task])]
      BY <2>1 DEF HaltRestartShell
    <3>2. cur_task = ptree_tasks[c] /\ ptid[cur_task] = c
      BY <1>3, VOnTree
    <3>3. \A t \in Trees : ptid[ptree_tasks[t]] = t /\ ptree_tasks[t] \in Pids
      BY <1>a DEF IInv, IActive, TypeOK
    <3> QED
      BY <1>a, <3>1, <3>2, <3>3 DEF TypeOK
  <2>2. CASE UNCHANGED tss
    BY <2>2
  <2> QED
    BY <2>1, <2>2 DEF SyscallEnter, SyscallReturn, CreateNoPid, NoPidReturn, Fault,
       FaultHalt, Halt, ExecuteReturn, pcbs
<1>5. VStartOK(cpu')
  BY <1>3 DEF VStartOK
<1>6. settled /\ c = displayed => video[cr3] = "VIDEO"
  BY <1>a, <1>1, <1>3 DEF VShown
<1> QED
  BY <1>1, <1>3, <1>4, <1>5, <1>6, StillStep

\* return_from_halt and halt_addr: still in the page directory of the halting
\* task
LEMMA HaltingInv ==
    ASSUME VInv, IInv', UNCHANGED videoVars, HaltReturn \/ HaltStatus
    PROVE  VInv'
<1>a. IInv /\ TypeOK /\ VCr3
  BY DEF VInv, IInv
<1> PICK c \in Trees : c = cur_ptree
  BY <1>a DEF TypeOK
<1>1. /\ cpu.at \in {"halt", "halt_addr"}
      /\ UNCHANGED <<task_vector, ptid, cr3, ptree_tasks, cur_ptree, tss>>
  BY DEF HaltReturn, HaltStatus, sched, pcbs
<1>2. cpu'.at \in {"halt_addr", "ending"}
  <2>1. CASE HaltReturn
    BY <1>a, <2>1 DEF HaltReturn, TypeOK, Positions
  <2>2. CASE HaltStatus
    BY <1>a, <2>2 DEF HaltStatus, TypeOK, Positions
  <2> QED
    BY <2>1, <2>2
<1>3. cr3 = ptree_tasks[c]
  BY <1>a, <1>1, VOnTree DEF VCr3, OwnPoints, CallerPoints
<1>4. /\ cpu.at # "hlt" /\ cpu'.at # "hlt" /\ VStartOK(cpu')
      /\ cpu'.at \notin BackPoints \cup {"tree_set", "framed"}
  BY <1>1, <1>2 DEF VStartOK, StartPoints, BackPoints
<1> QED
  BY <1>1, <1>3, <1>4, StillStep

\* execute_task from set_cur_task to the iret frame
LEMMA EnterInv ==
    ASSUME VInv, IInv', UNCHANGED videoVars,
           ExecuteSetCur \/ ExecuteSetTree \/ ExecuteFrame
    PROVE  VInv'
<1>a. IInv /\ TypeOK /\ VCr3 /\ VShown
  BY DEF VInv, IInv
<1> PICK c \in Trees : c = cur_ptree
  BY <1>a DEF TypeOK
<1>1. CASE ExecuteSetCur
  <2>1. /\ cpu.at = "armed" /\ cpu' = [cpu EXCEPT !.at = "cur_set"]
        /\ cur_ptree' = ptid[cpu.kid]
        /\ UNCHANGED <<task_vector, ptid, cr3, ptree_tasks, tss>>
    BY <1>1 DEF ExecuteSetCur, set_cur_task, Goto, pcbs
  <2>2. cpu'.at = "cur_set" /\ cpu'.kid = cpu.kid
    BY <1>a, <2>1 DEF TypeOK, Positions
  <2>3. cpu.at # "hlt" /\ cpu'.at # "hlt" /\ Thread(c) = cpu
    BY <1>a, <2>1, <2>2, OnTree
  <2>4. cur_ptree' = c
    BY <1>a, <2>1, <2>3, StartingChild DEF StartPoints
  <2>5. VStartOK(cpu')
    BY <2>1, <2>2, <2>3, VOnTree DEF VStartOK, StartPoints
  <2>6. cpu'.at \notin CallerPoints \cup BackPoints \cup {"tree_set", "framed"}
    BY <2>2 DEF CallerPoints, BackPoints
  <2> QED
    BY <2>1, <2>3, <2>4, <2>5, <2>6, StillStep
<1>2. CASE ExecuteSetTree
  <2>1. /\ cpu.at = "cur_set" /\ cpu' = [cpu EXCEPT !.at = "tree_set"]
        /\ ptree_tasks' = [ptree_tasks EXCEPT ![ptid[cpu.kid]] = cpu.kid]
        /\ UNCHANGED <<task_vector, ptid, cr3, cur_ptree, tss>>
    BY <1>2 DEF ExecuteSetTree, Goto, pcbs
  <2>2. cpu'.at = "tree_set" /\ cpu'.kid = cpu.kid
    BY <1>a, <2>1 DEF TypeOK, Positions
  <2>3. cpu.at # "hlt" /\ cpu'.at # "hlt" /\ Thread(c) = cpu
    BY <1>a, <2>1, <2>2, OnTree
  <2>4. ptid[cpu.kid] = c
    BY <1>a, <2>1, <2>3, StartingChild DEF StartPoints
  <2>5. \A t \in Trees : ptree_tasks'[t] = IF t = c THEN cpu.kid ELSE ptree_tasks[t]
    BY <1>a, <2>1, <2>4 DEF TypeOK
  <2>6. video[cpu.kid] = "VIDEO" /\ cpu.kid \notin swept
    BY <2>1, <2>3, VOnTree DEF VStartOK, StartPoints
  <2>7. VStartOK(cpu') /\ cpu'.at \notin BackPoints
    BY <2>2 DEF VStartOK, StartPoints, BackPoints
  <2> QED
    BY <2>1, <2>2, <2>3, <2>5, <2>6, <2>7, StillStep
<1>3. CASE ExecuteFrame
  <2>1. /\ cpu.at = "tree_set" /\ cpu' = [cpu EXCEPT !.at = "framed"]
        /\ UNCHANGED <<task_vector, ptid, cr3, cur_ptree, ptree_tasks, tss>>
    BY <1>3, <1>a, ExecuteFrameStep DEF sched
  <2>2. cpu'.at = "framed"
    BY <1>a, <2>1 DEF TypeOK, Positions
  <2>3. \/ cr3 = ptree_tasks[c]
        \/ ptree_tasks[c] \notin swept
    BY <1>a, <2>1 DEF VCr3, CallerPoints
  <2>4. settled /\ c = displayed => video[ptree_tasks[c]] = "VIDEO"
    BY <1>a, <2>1 DEF VShown
  <2>5. VStartOK(cpu') /\ cpu'.at \notin BackPoints
    BY <2>2 DEF VStartOK, StartPoints, BackPoints
  <2>6. cpu.at # "hlt" /\ cpu'.at # "hlt" /\ cpu'.at \in {"tree_set", "framed"}
    BY <2>1, <2>2
  <2> QED
    BY <2>1, <2>3, <2>4, <2>5, <2>6, StillStep
<1> QED
  BY <1>1, <1>2, <1>3

\* execute_task loads the page directory of the child
LEMMA LoadInv ==
    ASSUME VInv, IInv', UNCHANGED videoVars, ExecuteIret
    PROVE  VInv'
<1>a. IInv /\ TypeOK /\ VType /\ VCr3 /\ VShown /\ VHidden
  BY DEF VInv, IInv
<1> PICK c \in Trees : c = cur_ptree
  BY <1>a DEF TypeOK
<1>1. /\ cpu.at = "framed" /\ cpu.at # "hlt"
      /\ cr3' = cpu.kid
      /\ UNCHANGED <<task_vector, ptid, cur_ptree, ptree_tasks, tss>>
  BY DEF ExecuteIret, sched, pcbs
<1>2. /\ cpu.kid = ptree_tasks[c] /\ ptree_tasks[c] \in task_vector
      /\ ptid[ptree_tasks[c]] = c
  BY <1>1, VOnTree DEF ThreadOK
<1>3. cpu'.at = "user"
  BY DEF ExecuteIret, UserAt, At
<1>4. /\ video' = video /\ displayed' = displayed /\ swept' = swept
      /\ settled' = settled
  BY DEF videoVars
<1>5. settled /\ c = displayed => video[ptree_tasks[c]] = "VIDEO"
  BY <1>a, <1>1 DEF VShown
<1>6. settled /\ c # displayed /\ ptree_tasks[c] \in swept =>
        video[ptree_tasks[c]] = "GARBAGE"
  BY <1>a, <1>1 DEF VHidden, VCr3, CallerPoints
<1>7. VType' /\ VStartOK(cpu)'
  BY <1>a, <1>3, <1>4 DEF VType, VStartOK, StartPoints
<1>8. VCr3' /\ VShown' /\ VHidden'
  BY <1>1, <1>2, <1>3, <1>4, <1>5, <1>6 DEF VCr3, VShown, VHidden
<1>9. cpu'.at # "hlt"
  BY <1>3
<1> QED
  BY <1>1, <1>4, <1>7, <1>8, <1>9, RunningStep

\* create_task: init_task_pd writes the page directory of a pid that was free
LEMMA VideoCreateInv ==
    ASSUME VInv, IInv', NEW pid \in Pids, VideoCreate(pid)
    PROVE  VInv'
<1>a. IInv /\ TypeOK /\ IActive /\ VType /\ VShown /\ VHidden
  BY DEF VInv, IInv
<1> PICK c \in Trees : c = cur_ptree
  BY <1>a DEF TypeOK
<1>1. /\ cpu.at = "user" /\ pid \notin task_vector
      /\ cur_ptree' = cur_ptree /\ ptree_tasks' = ptree_tasks /\ cr3' = cr3
      /\ task_vector \subseteq task_vector'
      /\ ptid' = [ptid EXCEPT ![pid] = ptid[cur_task]]
      /\ tss' = [tss EXCEPT ![pid] = UserAt(pid)]
      /\ video' = [video EXCEPT ![pid] = "VIDEO"]
      /\ swept' = swept \ {pid}
      /\ displayed' = displayed /\ settled' = settled
  BY DEF VideoCreate, CreateTask, CreateLoadFails, get_new_pid, init_task, Map, sched
<1>2. \/ cpu'.at = "sys"
      \/ cpu'.at = "created" /\ cpu'.kid = pid
  <2>1. CASE CreateTask(pid)
    BY <1>a, <2>1 DEF CreateTask, TypeOK, Positions
  <2>2. CASE CreateLoadFails(pid)
    BY <1>a, <2>2 DEF CreateLoadFails, Goto, TypeOK, Positions
  <2> QED
    BY <2>1, <2>2 DEF VideoCreate
<1>3. /\ cpu.at # "hlt" /\ cpu'.at # "hlt" /\ cpu'.at \in BackPoints
      /\ cpu'.at \notin CallerPoints /\ cpu'.at \notin {"tree_set", "framed"}
  BY <1>1, <1>2 DEF BackPoints, CallerPoints
<1>4. \A p \in task_vector : /\ ptid'[p] = ptid[p] /\ tss'[p] = tss[p]
                             /\ video'[p] = video[p]
  BY <1>a, <1>1 DEF TypeOK, VType
<1>5. cr3 \in task_vector /\ ptid[cr3] = c
  BY <1>3, VOnTree
<1>6. VType'
  BY <1>a, <1>1 DEF VType
<1>7. VStartOK(cpu)'
  BY <1>a, <1>1, <1>2 DEF VStartOK, StartPoints, VType
<1>8. VCr3'
  BY <1>1, <1>3, <1>4, <1>5 DEF VCr3
<1>9. VShown'
  <2>1. settled /\ c = displayed => video[cr3] = "VIDEO"
    BY <1>a, <1>1, <1>3 DEF VShown, BackPoints
  <2> QED
    BY <1>1, <1>3, <1>4, <1>5, <2>1 DEF VShown
<1>10. VHidden'
  BY <1>a, <1>1, <1>3, <1>4, <1>5 DEF VHidden
<1>11. \A t \in Trees : tss'[ptree_tasks[t]] = tss[ptree_tasks[t]]
  BY <1>a, <1>4 DEF IActive
<1> QED
  BY <1>1, <1>3, <1>4, <1>6, <1>7, <1>8, <1>9, <1>10, <1>11, RunningStep

\* execute_task takes the screen from the caller
LEMMA VideoArmInv ==
    ASSUME VInv, IInv', VideoArm
    PROVE  VInv'
<1>a. IInv /\ TypeOK /\ VType
  BY DEF VInv, IInv
<1> PICK c \in Trees : c = cur_ptree
  BY <1>a DEF TypeOK
<1>1. /\ cpu.at = "created" /\ cpu' = [cpu EXCEPT !.at = "armed"]
      /\ UNCHANGED <<task_vector, cur_ptree, ptree_tasks, cr3, ptid, tss>>
      /\ video' = [video EXCEPT ![cr3] = "GARBAGE"]
      /\ UNCHANGED <<displayed, swept, settled>>
  BY DEF VideoArm, ExecuteArm, Goto, Map, sched
<1>2. cpu'.at = "armed" /\ cpu'.kid = cpu.kid
  BY <1>a, <1>1 DEF TypeOK, Positions
<1>3. /\ cpu.at # "hlt" /\ cpu'.at # "hlt" /\ cpu.at \in StartPoints
      /\ cpu.at \in OwnPoints \ {"cur_set"}
      /\ cpu'.at \notin CallerPoints \cup BackPoints \cup {"tree_set", "framed"}
  BY <1>1, <1>2 DEF BackPoints, CallerPoints, StartPoints, OwnPoints
<1>4. cr3 \in task_vector /\ ptid[cr3] = c /\ cr3 \in Pids /\ cr3 = ptree_tasks[c]
  BY <1>3, VOnTree
<1>5. Thread(c) = cpu /\ task_vector \subseteq Pids
  BY <1>a, <1>3, OnTree
<1>6. cpu.kid \in Pids /\ cpu.kid # cr3
  BY <1>a, <1>3, <1>4, <1>5, StartingChild
<1>7. \A p \in Pids : video'[p] = IF p = cr3 THEN "GARBAGE" ELSE video[p]
  BY <1>a, <1>1 DEF VType
<1>8. VType'
  BY <1>a, <1>1 DEF VType
<1>9. VStartOK(cpu)'
  <2>1. video[cpu.kid] = "VIDEO" /\ cpu.kid \notin swept
    BY <1>3, VOnTree DEF VStartOK
  <2> QED
    BY <1>1, <1>2, <1>6, <1>7, <2>1 DEF VStartOK
<1>10. VCr3' /\ VShown' /\ VHidden'
  BY <1>1, <1>3, <1>4, <1>7 DEF VCr3, VShown, VHidden
<1>11. \A p \in task_vector : ptid[p] # c => video'[p] = video[p]
  BY <1>4, <1>5, <1>7
<1> QED
  BY <1>1, <1>3, <1>8, <1>9, <1>10, <1>11, RunningStep

\* end_task gives the screen to the caller
LEMMA VideoEndInv ==
    ASSUME VInv, IInv', VideoEnd
    PROVE  VInv'
<1>a. IInv /\ TypeOK /\ IKids /\ VType
  BY DEF VInv, IInv
<1> PICK c \in Trees : c = cur_ptree
  BY <1>a DEF TypeOK
<1> PICK q : q = parent_task[cur_task]
  OBVIOUS
<1>1. /\ cpu.at = "ending" /\ cpu' = [cpu EXCEPT !.at = "ended"]
      /\ cr3' = q /\ cur_ptree' = ptid[q]
      /\ ptree_tasks' = [ptree_tasks EXCEPT ![ptid[q]] = q]
      /\ task_vector' = task_vector \ {cur_task}
      /\ UNCHANGED <<ptid, tss>>
      /\ video' = [video EXCEPT ![q] = "VIDEO"]
      /\ UNCHANGED <<displayed, swept>> /\ settled' = FALSE
  BY DEF VideoEnd, EndTask, set_cur_task, Goto, Map, pcbs
<1>2. /\ cpu'.at = "ended" /\ cpu.at # "hlt" /\ cpu'.at # "hlt" /\ cpu.at # "cur_set"
      /\ cpu.at \in CallerPoints
      /\ cpu'.at \notin CallerPoints \cup StartPoints
  BY <1>a, <1>1 DEF TypeOK, Positions, CallerPoints, StartPoints
<1>3. /\ cur_task = ptree_tasks[c] /\ cur_task \in Kids /\ ptid[cur_task] = c
      /\ \A k \in Kids : parent_task[k] # cur_task
      /\ task_vector \subseteq Pids
  <2>1. cpu.at \notin StartPoints
    BY <1>1 DEF StartPoints
  <2> QED
    BY <1>2, <2>1, VOnTree DEF ThreadOK
<1>4. q \in task_vector /\ ptid[q] = c /\ q \in Pids /\ q # cur_task
  BY <1>a, <1>3 DEF IKids
<1>5. \A p \in task_vector : ptid[p] # c => video'[p] = video[p]
  BY <1>a, <1>1, <1>3, <1>4 DEF VType
<1>6. \A t \in Trees : t # c => ptree_tasks'[t] = ptree_tasks[t]
  BY <1>a, <1>1, <1>4 DEF TypeOK
<1>7. VType' /\ VStartOK(cpu)'
  BY <1>a, <1>1, <1>2 DEF VType, VStartOK
<1>8. VCr3' /\ VShown' /\ VHidden'
  BY <1>1, <1>2, <1>4 DEF VCr3, VShown, VHidden
<1> QED
  BY <1>1, <1>2, <1>4, <1>5, <1>6, <1>7, <1>8, RunningStep

-----------------------------------------------------------------------------
(* The tick and Alt-Fn                                                     *)

\* switch_task takes the screen from the page directory in use, which is that of
\* the active task unless that one was never preempted, and gives it to the
\* next active task if its terminal is displayed
LEMMA VideoTickInv ==
    ASSUME VInv, NoWindowTick, NEW t \in Trees, VideoTick(t), IInv'
    PROVE  VInv'
<1> USE ConstFacts
<1>a. /\ IInv /\ TypeOK /\ IActive /\ ICur /\ VType /\ VCr3 /\ VStart /\ VWaits
  BY DEF VInv, IInv
<1> PICK n : n = ptree_tasks[t]
  OBVIOUS
<1>b. /\ Tick(t) /\ cpu.at # "cur_set"
      /\ \A p \in Pids : video'[p] = IF p = n /\ t = displayed THEN "VIDEO"
                                     ELSE IF p = cr3 THEN "GARBAGE" ELSE video[p]
      /\ swept' = swept \cup {cr3} /\ settled' = TRUE /\ displayed' = displayed
  BY <1>a DEF VideoTick, Tick, IActive, NoWindowTick, ExecWindow
<1>c. /\ cur_ptree' = t /\ cr3' = n
      /\ UNCHANGED <<task_vector, ptree_tasks, parent_task, ptid>>
  BY <1>a, <1>b DEF Tick, switch_task, set_cur_task, IActive
<1>d. /\ cpu' = Thread(t) /\ cpu'.at \notin {"cur_set", "hlt"}
      /\ \A s \in Trees : Thread(s)' = Thread(s) /\ (OnCpu(s)' <=> s = t)
  BY <1>a, <1>b, TickMovesNoThread
<1>e. \A s \in Trees : /\ ptree_tasks[s] \in task_vector \ {0}
                       /\ ptree_tasks[s] \in Pids /\ ptid[ptree_tasks[s]] = s
  BY <1>a DEF IActive, TypeOK
<1>f. cr3 \in Pids /\ n \in Pids
  BY <1>a, <1>e DEF TypeOK
\* The active task of a tree that has left the CPU, and the page directory that
\* was in use
<1>1. \A s \in Trees : \/ ~OnCpu(s) /\ ptree_tasks[s] # cr3
                       \/ ptree_tasks[s] = cr3
                       \/ ptree_tasks[s] \notin swept
  <2>1. CASE cpu.at = "hlt"
    BY <1>a, <1>e, <2>1 DEF VCr3, ICur, OnCpu
  <2>2. CASE cpu.at # "hlt"
    <3> PICK c \in Trees : c = cur_ptree
      BY <1>a DEF TypeOK
    <3>1. /\ ThreadOK(cpu, ptree_tasks[c]) /\ ptid[cr3] = c
          /\ cpu.at \in OwnPoints \ {"cur_set"} => cr3 = ptree_tasks[c]
      BY <2>2, VOnTree
    <3>2. cr3 = ptree_tasks[c] \/ ptree_tasks[c] \notin swept
      BY <1>a, <1>b, <3>1 DEF ThreadOK, VCr3
    <3>3. \A s \in Trees : s # c => ~OnCpu(s) /\ ptree_tasks[s] # cr3
      BY <1>a, <1>e, <2>2, <3>1, OnTree
    <3> QED
      BY <3>2, <3>3
  <2> QED
    BY <2>1, <2>2
<1>2. VType'
  <2>1. video' = [p \in Pids |->
                    IF p = n /\ ptid[n] = displayed THEN "VIDEO"
                    ELSE IF p = cr3 THEN "GARBAGE" ELSE video[p]]
    BY DEF VideoTick
  <2> QED
    BY <1>a, <1>b, <1>f, <2>1 DEF VType
<1>3. VCr3'
  BY <1>c, <1>d, <1>e DEF VCr3
<1>4. VStart'
  <2> SUFFICES ASSUME NEW s \in Trees, Thread(s).at \in StartPoints
               PROVE  video'[Thread(s).kid] = "VIDEO" /\ Thread(s).kid \notin swept'
    BY <1>d DEF VStart, VStartOK
  <2>1. /\ Thread(s).kid \in Pids /\ Thread(s).kid # 0 /\ ptid[Thread(s).kid] = s
        /\ Thread(s).kid # ptree_tasks[s]
    BY <1>a, StartingChild
  <2>2. video[Thread(s).kid] = "VIDEO" /\ Thread(s).kid \notin swept
    BY <1>a DEF VStart, VStartOK
  <2>3. Thread(s).kid # cr3
    <3>1. CASE cpu.at = "hlt"
      BY <1>a, <2>1, <3>1 DEF VCr3
    <3>2. CASE cpu.at # "hlt"
      <4> PICK c \in Trees : c = cur_ptree
        BY <1>a DEF TypeOK
      <4>1. /\ ptid[cr3] = c
            /\ cpu.at \in OwnPoints \ {"cur_set"} => cr3 = ptree_tasks[c]
        BY <3>2, VOnTree
      <4>2. CASE s = c
        <5>1. cpu.at \in OwnPoints
          BY <1>a, <3>2, <4>2, OnTree DEF StartPoints, OwnPoints
        <5> QED
          BY <1>b, <2>1, <4>1, <4>2, <5>1
      <4>3. CASE s # c
        BY <2>1, <4>1, <4>3
      <4> QED
        BY <4>2, <4>3
    <3> QED
      BY <3>1, <3>2
  <2>4. Thread(s).kid # n
    BY <1>e, <2>1
  <2> QED
    BY <1>b, <2>1, <2>2, <2>3, <2>4
<1>5. VShown'
  BY <1>b, <1>c, <1>f DEF VShown
<1>6. VHidden'
  BY <1>a, <1>b, <1>c, <1>1, <1>f DEF VHidden, VWaits
<1>7. VWaits'
  <2> SUFFICES ASSUME NEW s \in Trees, s # t, ptree_tasks[s] \in swept'
               PROVE  video'[ptree_tasks[s]] = "GARBAGE"
    BY <1>c, <1>d DEF VWaits
  <2>1. ptree_tasks[s] # n /\ ptree_tasks[s] \in Pids
    BY <1>e
  <2>2. \/ ptree_tasks[s] = cr3
        \/ ~OnCpu(s) /\ ptree_tasks[s] \in swept
    BY <1>b, <1>1
  <2> QED
    BY <1>a, <1>b, <2>1, <2>2 DEF VWaits
<1> QED
  BY <1>2, <1>3, <1>4, <1>5, <1>6, <1>7 DEF VInv

\* Alt-Fn maps nothing
LEMMA SwitchDisplayInv ==
    ASSUME VInv, NEW t \in Trees, SwitchDisplay(t), IInv'
    PROVE  VInv'
<1>1. /\ settled' = FALSE /\ displayed' = t /\ UNCHANGED <<video, swept>>
      /\ UNCHANGED vars
  BY DEF SwitchDisplay
<1>2. VType' /\ VCr3'
  BY <1>1 DEF VInv, VType, VCr3, vars, sched, pcbs
<1>3. VStart' /\ VWaits'
  BY <1>1 DEF VInv, VStart, VStartOK, VWaits, OnCpu, Thread, vars, sched, pcbs
<1>4. VShown' /\ VHidden'
  BY <1>1 DEF VShown, VHidden
<1> QED
  BY <1>2, <1>3, <1>4 DEF VInv

-----------------------------------------------------------------------------
(* The invariant holds                                                     *)

\* SchedVideo takes the steps of Sched and no others
LEMMA VideoStepIsStep == [VideoNext]_allVars => [Next]_vars
BY DEF VideoNext, VideoCreate, VideoArm, VideoEnd, VideoRest, VideoTick, SwitchDisplay,
       allVars, Next, UserStep, RunStep, BlockingStep

LEMMA VideoInitInv == VideoInit => VInv
<1> USE ConstFacts
<1> SUFFICES ASSUME VideoInit PROVE VInv
  OBVIOUS
<1>1. IInv
  BY InitInv DEF VideoInit
<1>2. /\ video = [p \in Pids |-> "VIDEO"] /\ displayed = 0 /\ swept = {}
      /\ settled = TRUE /\ cr3 = 0
  BY DEF VideoInit, Init
<1>3. cpu.at = "hlt" /\ cpu.task = 0
  BY DEF VideoInit, Init, At
<1>4. \A t \in Trees : Thread(t).at = "user"
  <2> SUFFICES ASSUME NEW t \in Trees PROVE Thread(t).at = "user"
    OBVIOUS
  <2>1. t + 1 \in Pids /\ ptree_tasks[t] = t + 1 /\ tss[t + 1] = UserAt(t + 1)
    BY DEF VideoInit, Init, tasks_init
  <2>2. UserAt(t + 1).at = "user"
    BY <2>1, UserAtFacts
  <2>3. Thread(t) = tss[ptree_tasks[t]]
    BY <1>3 DEF Thread, OnCpu
  <2> QED
    BY <2>1, <2>2, <2>3
<1>5. VType /\ VCr3 /\ VShown /\ VHidden /\ VWaits
  BY <1>2, <1>3 DEF VType, VCr3, VShown, VHidden, VWaits, CallerPoints
<1>6. VStart
  BY <1>4 DEF VStart, VStartOK, StartPoints
<1> QED
  BY <1>1, <1>5, <1>6 DEF VInv

\* One step per action
LEMMA VideoNextInv ==
    ASSUME NoWindowTick, VInv, [VideoNext]_allVars
    PROVE  VInv'
<1>1. IInv'
  BY VideoStepIsStep, NextInv DEF VInv
<1>2. CASE \E pid \in Pids : VideoCreate(pid)
  BY <1>1, <1>2, VideoCreateInv
<1>3. CASE VideoArm
  BY <1>1, <1>3, VideoArmInv
<1>4. CASE VideoEnd
  BY <1>1, <1>4, VideoEndInv
<1>5. CASE VideoRest
  BY <1>1, <1>5, BackInv, HaltingInv, EnterInv, LoadInv DEF VideoRest
<1>6. CASE \E t \in Trees : VideoTick(t)
  BY <1>1, <1>6, VideoTickInv
<1>7. CASE \E t \in Trees : SwitchDisplay(t)
  BY <1>1, <1>7, SwitchDisplayInv
<1>8. CASE UNCHANGED allVars
  BY <1>1, <1>8 DEF VInv, VType, VCr3, VStart, VStartOK, VShown, VHidden, VWaits,
     OnCpu, Thread, allVars, videoVars, vars, sched, pcbs
<1> QED
  BY <1>2, <1>3, <1>4, <1>5, <1>6, <1>7, <1>8 DEF VideoNext

\* The strengthened invariant holds in every state of SchedVideo.
LEMMA VideoInvariance ==
    ASSUME NoWindowTick
    PROVE  VideoSpec => []VInv
<1>1. VideoInit => VInv
  BY VideoInitInv
<1>2. VInv /\ [VideoNext]_allVars => VInv'
  BY VideoNextInv
<1> QED
  BY <1>1, <1>2, PTL DEF VideoSpec

-----------------------------------------------------------------------------
(* Theorems                                                                *)

\* The video pages and Alt-Fn change nothing in what create_task, execute_task,
\* halt and the PIT do to the scheduler: every behaviour of SchedVideo is one of
\* Sched, so what SchedProofs proves of Sched holds here.
THEOREM VideoImplementsSched == VideoSpec => Spec
<1>1. VideoInit => Init
  BY DEF VideoInit
<1>2. [VideoNext]_allVars => [Next]_vars
  BY VideoStepIsStep
<1> QED
  BY <1>1, <1>2, PTL DEF VideoSpec, Spec

\* switch_task and execute_task keep the screen mapped for the program that runs
\* on the displayed terminal: from a tick to the next Alt-Fn or end_task, its
\* video page is the screen, whatever system calls, programs it starts and
\* ticks come in between.
THEOREM ScreenForDisplayed ==
    ASSUME NoWindowTick
    PROVE  VideoSpec => []DisplayedHasScreen
<1>1. VInv => DisplayedHasScreen
  <2> SUFFICES ASSUME VInv, settled, cpu.at = "user", ptid[cpu.task] = displayed
               PROVE  video[cr3] = "VIDEO"
    BY DEF DisplayedHasScreen
  <2>1. cur_ptree = ptid[cpu.task]
    BY OnTree DEF VInv
  <2> QED
    BY <2>1 DEF VInv, VShown, BackPoints
<1> QED
  BY <1>1, VideoInvariance, PTL

\* In the same stretch a program on a hidden terminal that a tick has taken off
\* the CPU before cannot draw on the screen.
THEOREM HiddenFromScreen ==
    ASSUME NoWindowTick
    PROVE  VideoSpec => []PreemptedIsHidden
<1>1. VInv => PreemptedIsHidden
  <2> SUFFICES ASSUME VInv, settled, cpu.at = "user", cr3 \in swept,
                      ptid[cpu.task] # displayed
               PROVE  video[cr3] = "GARBAGE"
    BY DEF PreemptedIsHidden
  <2>1. cur_ptree = ptid[cpu.task]
    BY OnTree DEF VInv
  <2> QED
    BY <2>1 DEF VInv, VHidden
<1> QED
  BY <1>1, VideoInvariance, PTL
=============================================================================
