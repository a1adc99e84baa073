--------------------------- MODULE RepairScheduler ---------------------------
(***************************************************************************)
(* ./scheduler, which hands the tasks of a rebuild to the executers it is  *)
(* connected to, and ./taskexecuter on each of them.  An executer gets a   *)
(* task, does it and reports it before it gets another, so a connection    *)
(* carries at most one message.                                            *)
(***************************************************************************)
EXTENDS Integers, FiniteSets

CONSTANTS
    Executers,    \* number of executers: _total_task_executers
    QueueLen,     \* SCHEDULE_QUEUE_LEN
    Tasks,        \* _total_repair_tasks
    MaxRuns,      \* bound: starts of ./scheduler
    MaxCrashes    \* bound: crashes of executers

(* With fewer tasks than positions, tasks that do not exist are handed out. *)
ASSUME RepairSchedulerAssumption ==
    /\ Executers \in Nat \ {0}
    /\ QueueLen \in Nat /\ Executers <= QueueLen
    /\ Tasks \in Nat /\ QueueLen <= Tasks
    /\ MaxRuns \in Nat /\ MaxCrashes \in Nat

E == 0 .. Executers - 1
Positions == 0 .. QueueLen - 1
TaskIds == 0 .. Tasks - 1
None == -1

VARIABLES
    pc,        \* where the scheduler is
    i,         \* the loop over the executers when the first tasks are sent
    ready,     \* the executers select() found readable and not handled yet
    schedule,  \* task_schedule_queue
    status,    \* task_status_queue: 0 to do, 1 handed out, -1 done
    next,      \* next_task_to_schedule
    link,      \* by executer: what the connection carries
    exec,      \* by executer: what it does
    first,     \* by executer: first_execute
    executed,  \* tasks of this run that were executed and reported
    given,     \* by task: how often it was handed out in this run
    runs, crashes   \* numbers of starts and crashes so far

sched == <<pc, i, ready, schedule, status, next, given, runs>>
vars == <<sched, link, exec, first, executed, crashes>>

LinkStates == [at : {"down", "quiet", "sent", "working", "reported"},
               task : TaskIds \cup {None}]
ExecStates == [at : {"accept", "busy", "connected", "closed"}, task : TaskIds \cup {None}]

Down == [at |-> "down", task |-> None]
Quiet == [at |-> "quiet", task |-> None]
Accepting == [at |-> "accept", task |-> None]

(* The scheduler has gone: its connections are closed. *)
Hangup ==
    /\ link' = [e \in E |-> Down]
    /\ exec' = [e \in E |-> IF exec[e].at = "connected" THEN [exec[e] EXCEPT !.at = "closed"]
                             ELSE exec[e]]

-----------------------------------------------------------------------------
(* The program that does not wait for the tasks handed out. *)
finish_repairEarly(s) == \A p \in Positions : s[p] # 0

(* scheduler.cc *)
finish_repair(s) == \A p \in Positions : s[p] = -1

find_task_position(id) == CHOOSE p \in Positions : schedule[p] = id

(* The first position with a task to do. *)
find_available_task(s) ==
    LET S == {p \in Positions : s[p] = 0}
    IN  IF S = {} THEN None ELSE CHOOSE p \in S : \A x \in S : p <= x

(* The program with one task more. *)
TasksLeftAndOne(n) == n <= Tasks

(* There are tasks that have no position yet. *)
TasksLeft(n) == n < Tasks

(* The program that takes any task that is not done. *)
find_available_task_positionAny(s, start) ==
    IF \E p \in Positions : s[p] # -1
    THEN CHOOSE p \in Positions : s[p] # -1 ELSE None

(* The first position with a task to do, in a circle from the next one on. *)
find_available_task_position(s, start) ==
    LET steps == {d \in 1 .. QueueLen : s[(start + d) % QueueLen] = 0}
    IN  IF steps = {} THEN None
        ELSE (start + (CHOOSE d \in steps : \A x \in steps : d <= x)) % QueueLen

(* The start of main(): every executer is connected to, or the program     *)
(* goes straight to its report.                                            *)
Start ==
    /\ pc = "off"
    /\ runs < MaxRuns
    /\ runs' = runs + 1
    /\ \/ /\ pc' = "unconnected"
          /\ UNCHANGED link
       \/ /\ pc' = "init"
          /\ link' = [e \in E |-> Quiet]
    /\ i' = 0
    /\ ready' = {}
    /\ schedule' = [p \in Positions |-> p]
    /\ status' = [p \in Positions |-> 0]
    /\ next' = QueueLen
    /\ given' = [t \in TaskIds |-> 0]
    /\ executed' = {}
    /\ UNCHANGED <<exec, first, crashes>>

(* InitializeRepairTaskAllocation(): a task for executer i.  A connection  *)
(* that is down may still take the message.                                *)
InitialTask ==
    /\ pc = "init"
    /\ i < Executers
    /\ LET p == find_available_task(status)
       IN  IF p = None THEN UNCHANGED <<link, status, given>>
           ELSE /\ link' = IF link[i].at = "down" THEN link
                           ELSE [link EXCEPT ![i] = [at |-> "sent", task |-> schedule[p]]]
                /\ status' = [status EXCEPT ![i] = 1]
                /\ given' = [given EXCEPT ![schedule[p]] = @ + 1]
    /\ i' = i + 1
    /\ UNCHANGED <<pc, ready, schedule, next, exec, first, executed, runs, crashes>>

(* The loop of main(): select() until all tasks are done. *)
Select ==
    /\ \/ pc = "init" /\ i = Executers
       \/ pc = "select" /\ ready = {}
    /\ IF finish_repair(status) THEN pc' = "done" /\ UNCHANGED ready
       ELSE LET readable == {e \in E : link[e].at \in {"reported", "down"}}
            IN  /\ readable # {}
                /\ ready' = readable
                /\ pc' = "select"
    /\ UNCHANGED <<i, schedule, status, next, link, exec, first, executed, given, runs, crashes>>

(* The program that keeps the connection of an executer that has gone. *)
ExitNot(e) ==
    /\ pc = "select" /\ e \in ready /\ \A f \in ready : e <= f
    /\ link[e].at = "down"
    /\ ready' = ready \ {e}
    /\ UNCHANGED <<pc, i, schedule, status, next, link, exec, first, executed, given, runs, crashes>>

(* AllocateRepairTask(), for one executer that has reported: the position  *)
(* of its task gets the next one, and it is given one that is to do.       *)
AllocateRepairTask(e) ==
    /\ pc = "select"
    /\ e \in ready
    /\ \A f \in ready : e <= f
    /\ link[e].at = "reported"
    /\ ready' = ready \ {e}
    /\ LET done == find_task_position(link[e].task)
           more == TasksLeft(next)
           sch == IF more THEN [schedule EXCEPT ![done] = next] ELSE schedule
           st == [status EXCEPT ![done] = IF more THEN 0 ELSE -1]
           p == find_available_task_position(st, done)
       IN  /\ next' = IF more THEN next + 1 ELSE next
           /\ schedule' = sch
           /\ IF p = None
              THEN /\ status' = st
                   /\ link' = [link EXCEPT ![e] = Quiet]
                   /\ UNCHANGED given
              ELSE /\ status' = [st EXCEPT ![p] = 1]
                   /\ link' = [link EXCEPT ![e] = [at |-> "sent", task |-> sch[p]]]
                   /\ given' = [given EXCEPT ![sch[p]] = @ + 1]
    /\ UNCHANGED <<pc, i, exec, first, executed, runs, crashes>>

(* recv() returns 0 or fails, or send() fails: exit(). *)
Exit(e) ==
    /\ \/ pc = "select" /\ e \in ready /\ (\A f \in ready : e <= f)
       \/ pc = "init" /\ i = e
    /\ link[e].at = "down"
    /\ pc' = "exited"
    /\ Hangup
    /\ UNCHANGED <<i, ready, schedule, status, next, first, executed, given, runs, crashes>>

(* The operator reads the report and may start the program again. *)
Report ==
    /\ pc \in {"done", "unconnected", "exited"}
    /\ runs < MaxRuns
    /\ pc' = "off"
    /\ Hangup
    /\ UNCHANGED <<i, ready, schedule, status, next, first, executed, given, runs, crashes>>

-----------------------------------------------------------------------------
(* taskexecuter.cc.  accept() and recv(): the parameters of a task.        *)
Receive(e) ==
    /\ exec[e].at \in {"accept", "connected"}
    /\ link[e].at = "sent"
    /\ exec' = [exec EXCEPT ![e] = [at |-> "busy", task |-> link[e].task]]
    /\ link' = [link EXCEPT ![e].at = "working"]
    /\ first' = [first EXCEPT ![e] = FALSE]
    /\ UNCHANGED <<sched, executed, crashes>>

(* recover_interface() returns and the task is reported; when the          *)
(* scheduler is gone the executer waits for the next connection.           *)
Finish(e) ==
    /\ exec[e].at = "busy"
    /\ IF link[e] = [at |-> "working", task |-> exec[e].task]
       THEN /\ link' = [link EXCEPT ![e].at = "reported"]
            /\ exec' = [exec EXCEPT ![e] = [at |-> "connected", task |-> None]]
            /\ executed' = executed \cup {exec[e].task}
            /\ UNCHANGED first
       ELSE /\ exec' = [exec EXCEPT ![e] = Accepting]
            /\ first' = [first EXCEPT ![e] = TRUE]
            /\ UNCHANGED <<link, executed>>
    /\ UNCHANGED <<sched, crashes>>

(* recv() finds the connection closed. *)
Closed(e) ==
    /\ exec[e].at = "closed"
    /\ exec' = [exec EXCEPT ![e] = Accepting]
    /\ first' = [first EXCEPT ![e] = TRUE]
    /\ UNCHANGED <<sched, link, executed, crashes>>

(* An executer crashes and is started again.  A report the scheduler has   *)
(* not received goes with the connection; if it is received, the send()    *)
(* that follows or the next recv() has the same end.                       *)
Crash(e) ==
    /\ crashes < MaxCrashes
    /\ crashes' = crashes + 1
    /\ exec' = [exec EXCEPT ![e] = Accepting]
    /\ first' = [first EXCEPT ![e] = TRUE]
    /\ link' = [link EXCEPT ![e] = Down]
    /\ UNCHANGED <<sched, executed>>

-----------------------------------------------------------------------------
Init ==
    /\ pc = "off" /\ i = 0 /\ ready = {}
    /\ schedule = [p \in Positions |-> p]
    /\ status = [p \in Positions |-> 0]
    /\ next = QueueLen
    /\ link = [e \in E |-> Down]
    /\ exec = [e \in E |-> Accepting]
    /\ first = [e \in E |-> TRUE]
    /\ executed = {}
    /\ given = [t \in TaskIds |-> 0]
    /\ runs = 0 /\ crashes = 0

SchedulerStep ==
    InitialTask \/ Select \/ \E e \in E : AllocateRepairTask(e) \/ Exit(e)

ExecuterStep(e) == Receive(e) \/ Finish(e) \/ Closed(e)

Finished == pc \in {"done", "unconnected", "exited"} /\ UNCHANGED vars

Next ==
    \/ Start \/ Report
    \/ SchedulerStep
    \/ \E e \in E : ExecuterStep(e) \/ Crash(e)
    \/ Finished

Spec == Init /\ [][Next]_vars

(* Both programs go on when they can: nothing but the network and the      *)
(* rebuild itself holds them up.                                           *)
FairSpec == Spec /\ WF_vars(SchedulerStep) /\ \A e \in E : WF_vars(ExecuterStep(e))

-----------------------------------------------------------------------------
TypeOK ==
    /\ pc \in {"off", "unconnected", "init", "select", "done", "exited"}
    /\ i \in 0 .. Executers
    /\ ready \subseteq E
    /\ schedule \in [Positions -> TaskIds]
    /\ status \in [Positions -> -1 .. 1]
    /\ next \in QueueLen .. Tasks
    /\ link \in [E -> LinkStates]
    /\ exec \in [E -> ExecStates]
    /\ first \in [E -> BOOLEAN]
    /\ executed \subseteq TaskIds
    /\ given \in [TaskIds -> Nat]
    /\ runs \in 0 .. MaxRuns
    /\ crashes \in 0 .. MaxCrashes

(* No task is handed out twice in one run of ./scheduler: two executers    *)
(* never write the same part of the new disk.                              *)
GivenOnce == \A t \in TaskIds : given[t] <= 1

(* When the loop of main() ends, every task has been executed. *)
DoneMeansExecuted == pc = "done" => executed = TaskIds

(* Once it has connected, the scheduler comes to its report or exits,      *)
(* whatever executers crash.                                               *)
SchedulerEnds == (pc = "init") ~> (pc \in {"done", "exited"})
=============================================================================
