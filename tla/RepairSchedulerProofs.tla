------------------------ MODULE RepairSchedulerProofs ------------------------
(***************************************************************************)
(* GivenOnce and DoneMeansExecuted, for every number of executers, queue   *)
(* length and number of tasks.  The invariant says where every task is: to *)
(* come, at a position to do, handed out and on exactly one connection, or *)
(* executed.                                                               *)
(***************************************************************************)
EXTENDS RepairScheduler, WellFoundedInduction, TLAPS

Outstanding(e) == link[e].at \in {"sent", "working", "reported"}

(* Positions hold different tasks, all of them before the next one. *)
Distinct ==
    /\ \A p, q \in Positions : schedule[p] = schedule[q] => p = q
    /\ \A p \in Positions : schedule[p] < next

(* A task has been given unless it is to come or at a position to do. *)
GivenIff ==
    \A t \in TaskIds :
        given[t] = IF t >= next \/ (\E p \in Positions : schedule[p] = t /\ status[p] = 0)
                   THEN 0 ELSE 1

(* A task on a connection is at a position that is handed out, and on no   *)
(* other connection; before the program is started there is none.          *)
OnOneLink ==
    /\ pc = "off" => \A e \in E : ~ Outstanding(e)
    /\ \A e \in E : Outstanding(e) =>
          \E p \in Positions : schedule[p] = link[e].task /\ status[p] = 1
    /\ \A e, f \in E : Outstanding(e) /\ Outstanding(f) /\ link[e].task = link[f].task => e = f

(* The first tasks go out in the order of the positions. *)
InitOrder ==
    pc = "init" => \A p \in Positions : status[p] = IF p < i THEN 1 ELSE 0

(* A task that is no longer at a position, or at one that is done, has     *)
(* been executed, as has a reported one; positions are done at the end.    *)
WhereExecuted ==
    /\ \A t \in TaskIds : t < next =>
          t \in executed \/ \E p \in Positions : schedule[p] = t /\ status[p] # -1
    /\ \A e \in E : link[e].at = "reported" => link[e].task \in executed
    /\ \A p \in Positions : status[p] = -1 => next = Tasks
    /\ pc = "done" => \A p \in Positions : status[p] = -1

Inv == TypeOK /\ Distinct /\ GivenIff /\ OnOneLink /\ InitOrder /\ WhereExecuted

USE DEF E, Positions, TaskIds, None

-----------------------------------------------------------------------------
(* A set of natural numbers that is not empty has a least element. *)
LEMMA NatMinimum ==
    ASSUME NEW S, S \subseteq Nat, S # {}
    PROVE  \E p \in S : \A x \in S : p <= x
<1> DEFINE R == OpToRel(<, Nat)
<1>1. IsWellFoundedOn(R, Nat)
  BY NatLessThanWellFounded
<1>2. \A x, y \in Nat : <<x, y>> \in R <=> x < y
  BY DEF OpToRel
<1> HIDE DEF R
<1>3. PICK p \in S : \A y \in S : ~ (<<y, p>> \in R)
  BY <1>1, WFMin
<1>4. ASSUME NEW y \in S PROVE p <= y
  <2>1. p \in Nat /\ y \in Nat
    OBVIOUS
  <2>2. ~ (y < p)
    BY <1>2, <1>3, <2>1, Zenon
  <2> QED
    BY <2>1, <2>2
<1> QED
  BY <1>4

(* What the searches return. *)
LEMMA FirstAvailable ==
    ASSUME NEW s \in [Positions -> -1 .. 1]
    PROVE  \/ find_available_task(s) = -1
           \/ /\ find_available_task(s) \in Positions
              /\ s[find_available_task(s)] = 0
              /\ \A x \in Positions : s[x] = 0 => find_available_task(s) <= x
<1> DEFINE S == {p \in Positions : s[p] = 0}
<1>1. CASE S = {}
  BY <1>1 DEF find_available_task
<1>2. CASE S # {}
  <2>1. S \subseteq Nat
    BY RepairSchedulerAssumption
  <2>2. \E p \in S : \A x \in S : p <= x
    BY <1>2, <2>1, NatMinimum
  <2>3. find_available_task(s) = CHOOSE p \in S : \A x \in S : p <= x
    BY <1>2 DEF find_available_task
  <2> HIDE DEF S
  <2>4. find_available_task(s) \in S /\ \A x \in S : find_available_task(s) <= x
    BY <2>2, <2>3
  <2> QED
    BY <2>4 DEF S
<1> QED
  BY <1>1, <1>2

(* The next task to hand out. *)
LEMMA NextAvailable ==
    ASSUME NEW s \in [Positions -> -1 .. 1], NEW start \in Positions
    PROVE  \/ find_available_task_position(s, start) = -1
           \/ /\ find_available_task_position(s, start) \in Positions
              /\ s[find_available_task_position(s, start)] = 0
<1> DEFINE S == {d \in 1 .. QueueLen : s[(start + d) % QueueLen] = 0}
<1>1. CASE S = {}
  BY <1>1 DEF find_available_task_position
<1>2. CASE S # {}
  <2>1. S \subseteq Nat
    BY RepairSchedulerAssumption
  <2>2. \E p \in S : \A x \in S : p <= x
    BY <1>2, <2>1, NatMinimum
  <2> DEFINE d0 == CHOOSE d \in S : \A x \in S : d <= x
  <2>3. find_available_task_position(s, start) = (start + d0) % QueueLen
    BY <1>2 DEF find_available_task_position
  <2>4. d0 \in S
    BY <2>2
  <2> HIDE DEF d0
  <2>5. d0 \in 1 .. QueueLen /\ s[(start + d0) % QueueLen] = 0
    BY <2>4
  <2>6. (start + d0) % QueueLen \in Positions
    BY <2>5, RepairSchedulerAssumption
  <2> QED
    BY <2>3, <2>5, <2>6
<1> QED
  BY <1>1, <1>2

-----------------------------------------------------------------------------
(* The records of connections and executers. *)
LEMMA Records ==
    /\ Down \in LinkStates /\ Quiet \in LinkStates /\ Accepting \in ExecStates
    /\ Down.at = "down" /\ Quiet.at = "quiet"
    /\ \A t \in TaskIds : [at |-> "sent", task |-> t] \in LinkStates
    /\ \A t \in TaskIds : [at |-> "busy", task |-> t] \in ExecStates
    /\ [at |-> "connected", task |-> None] \in ExecStates
    /\ \A l \in LinkStates, a \in {"working", "reported"} :
          /\ [l EXCEPT !.at = a] \in LinkStates
          /\ [l EXCEPT !.at = a].at = a /\ [l EXCEPT !.at = a].task = l.task
    /\ \A x \in ExecStates : [x EXCEPT !.at = "closed"] \in ExecStates
    /\ \A l \in LinkStates : l.task \in TaskIds \cup {None}
    /\ \A x \in ExecStates : x.task \in TaskIds \cup {None}
  BY DEF Down, Quiet, Accepting, LinkStates, ExecStates

(* The start. *)
LEMMA InitInv == Init => Inv
<1> SUFFICES ASSUME Init PROVE Inv
  OBVIOUS
<1> USE RepairSchedulerAssumption DEF Init
<1>1. TypeOK
  BY Records DEF TypeOK
<1>2. Distinct
  BY DEF Distinct
<1>3. GivenIff
  BY DEF GivenIff
<1>4. OnOneLink
  BY Records DEF OnOneLink, Outstanding
<1>5. InitOrder
  BY DEF InitOrder
<1>6. WhereExecuted
  BY Records DEF WhereExecuted
<1> QED
  BY <1>1, <1>2, <1>3, <1>4, <1>5, <1>6 DEF Inv

(* The program is started: everything is to do. *)
LEMMA StartInv == Inv /\ Start => Inv'
<1> SUFFICES ASSUME Inv, Start PROVE Inv'
  OBVIOUS
<1> USE RepairSchedulerAssumption DEF Inv, Start
<1>1. TypeOK'
  BY Records, SMTT(30) DEF TypeOK
<1>2. Distinct'
  BY DEF Distinct
<1>3. GivenIff'
  BY DEF GivenIff
<1>4. OnOneLink'
  BY Records DEF OnOneLink, Outstanding
<1>5. InitOrder'
  BY DEF InitOrder, TypeOK
<1>6. WhereExecuted'
  <2>1. \A t \in TaskIds : t < next' => \E p \in Positions : schedule'[p] = t /\ status'[p] # -1
    OBVIOUS
  <2>2. \A e \in E : link'[e].at # "reported"
    BY Records DEF OnOneLink, Outstanding
  <2> QED
    BY <2>1, <2>2 DEF WhereExecuted
<1> QED
  BY <1>1, <1>2, <1>3, <1>4, <1>5, <1>6

(* A task goes out to executer i, from position i. *)
LEMMA InitialTaskInv == Inv /\ InitialTask => Inv'
<1> SUFFICES ASSUME Inv, InitialTask PROVE Inv'
  OBVIOUS
<1> USE RepairSchedulerAssumption DEF Inv
<1>1. i \in Positions /\ i \in E /\ status[i] = 0
  BY DEF InitialTask, InitOrder, TypeOK
<1>2. status \in [Positions -> -1 .. 1]
  BY DEF TypeOK
<1>a. i \in {p \in Positions : status[p] = 0}
  BY <1>1
<1>b. {p \in Positions : status[p] = 0} # {} /\ {p \in Positions : status[p] = 0} \subseteq Nat
  BY <1>a
<1>c. \E q \in {p \in Positions : status[p] = 0} :
          \A x \in {p \in Positions : status[p] = 0} : q <= x
  BY <1>b, NatMinimum
<1>3. find_available_task(status) = i
  BY <1>1, <1>2, <1>a, <1>c, FirstAvailable DEF InitialTask, InitOrder, find_available_task
<1>4. schedule[i] \in TaskIds /\ i # -1
  BY <1>1 DEF TypeOK
<1>5. /\ pc = "init" /\ i < Executers
      /\ link' = IF link[i].at = "down" THEN link
                 ELSE [link EXCEPT ![i] = [at |-> "sent", task |-> schedule[i]]]
      /\ status' = [status EXCEPT ![i] = 1]
      /\ given' = [given EXCEPT ![schedule[i]] = @ + 1]
      /\ i' = i + 1
      /\ UNCHANGED <<pc, ready, schedule, next, exec, first, executed, runs, crashes>>
  BY <1>3, <1>4 DEF InitialTask
<1>6. TypeOK'
  <2>1. i' \in 0 .. Executers
    BY <1>5 DEF TypeOK
  <2>2. link' \in [E -> LinkStates]
    BY <1>1, <1>4, <1>5, Records DEF TypeOK
  <2>3. given' \in [TaskIds -> Nat]
    <3>1. given \in [TaskIds -> Nat]
      BY DEF TypeOK
    <3>2. given[schedule[i]] + 1 \in Nat
      BY <3>1, <1>4
    <3> QED
      BY <3>1, <3>2, <1>5
  <2>4. status' \in [Positions -> -1 .. 1]
    BY <1>1, <1>5 DEF TypeOK
  <2> QED
    BY <1>5, <2>1, <2>2, <2>3, <2>4 DEF TypeOK
<1>7. Distinct'
  BY <1>5 DEF Distinct
<1>8. GivenIff'
  <2> SUFFICES ASSUME NEW t \in TaskIds
      PROVE given'[t] = IF t >= next \/ (\E p \in Positions : schedule[p] = t /\ status'[p] = 0)
                        THEN 0 ELSE 1
    BY <1>5 DEF GivenIff
  <2>1. \A p \in Positions : p # i => status'[p] = status[p]
    BY <1>5 DEF TypeOK
  <2>2. status'[i] = 1
    BY <1>1, <1>5 DEF TypeOK
  <2>3. CASE t = schedule[i]
    <3>1. given[t] = 0
      BY <1>1, <2>3 DEF GivenIff
    <3>2. given'[t] = 1
      BY <1>4, <1>5, <2>3, <3>1 DEF TypeOK
    <3>3. ~ (t >= next)
      BY <1>1, <1>4, <2>3 DEF Distinct, TypeOK
    <3>4. ~ \E p \in Positions : schedule[p] = t /\ status'[p] = 0
      BY <1>1, <2>2, <2>3 DEF Distinct
    <3> QED
      BY <3>2, <3>3, <3>4
  <2>4. CASE t # schedule[i]
    <3>1. given'[t] = given[t]
      BY <1>5, <2>4 DEF TypeOK
    <3> QED
      BY <2>1, <2>4, <3>1 DEF GivenIff
  <2> QED
    BY <2>3, <2>4
<1>9. OnOneLink'
  <2>1. \A e \in E : Outstanding(e) => link[e].task # schedule[i]
    BY <1>1 DEF OnOneLink, Distinct
  <2>2. ASSUME NEW e \in E, Outstanding(e)'
        PROVE  IF e = i THEN link'[e].task = schedule[i]
               ELSE Outstanding(e) /\ link'[e] = link[e]
    BY <1>1, <1>5, <2>2 DEF Outstanding, TypeOK
  <2>3. \A p \in Positions : status[p] = 1 => status'[p] = 1
    BY <1>5 DEF TypeOK
  <2>4. status'[i] = 1 /\ pc' = "init" /\ schedule' = schedule
    BY <1>1, <1>5 DEF TypeOK
  <2>5. ASSUME NEW e \in E, Outstanding(e)'
        PROVE  \E p \in Positions : schedule'[p] = link'[e].task /\ status'[p] = 1
    BY <1>1, <2>2, <2>3, <2>4, <2>5 DEF OnOneLink
  <2>6. ASSUME NEW e \in E, NEW f \in E, Outstanding(e)', Outstanding(f)',
               link'[e].task = link'[f].task
        PROVE  e = f
    BY <2>1, <2>2, <2>6 DEF OnOneLink
  <2> QED
    BY <2>4, <2>5, <2>6 DEF OnOneLink
<1>10. InitOrder'
  <2>1. ASSUME NEW p \in Positions
        PROVE  status'[p] = IF p < i' THEN 1 ELSE 0
    <3>1. status[p] = IF p < i THEN 1 ELSE 0
      BY <1>5 DEF InitOrder
    <3>2. status'[p] = IF p = i THEN 1 ELSE status[p]
      BY <1>2, <1>5
    <3>3. p \in Int /\ i \in Int
      BY <1>1 DEF Positions
    <3>4. p < i + 1 <=> p < i \/ p = i
      BY <3>3
    <3> QED
      BY <1>5, <3>1, <3>2, <3>4
  <2> QED
    BY <2>1 DEF InitOrder
<1>11. WhereExecuted'
  <2>1. \A p \in Positions : status'[p] = -1 <=> status[p] = -1
    BY <1>1, <1>5 DEF TypeOK
  <2>2. \A e \in E : link'[e].at = "reported" => link'[e] = link[e]
    BY <1>1, <1>5 DEF TypeOK
  <2> QED
    BY <1>5, <2>1, <2>2 DEF WhereExecuted
<1> QED
  BY <1>6, <1>7, <1>8, <1>9, <1>10, <1>11

(* The scheduler takes a message and answers. *)
LEMMA SelectInv == Inv /\ Select => Inv'
<1> SUFFICES ASSUME Inv, Select PROVE Inv'
  OBVIOUS
<1> USE RepairSchedulerAssumption DEF Inv, Select
<1>1. TypeOK'
  BY DEF TypeOK
<1>2. Distinct' /\ GivenIff'
  BY DEF Distinct, GivenIff
<1>3. OnOneLink'
  BY DEF OnOneLink, Outstanding
<1>4. InitOrder'
  BY DEF InitOrder
<1>5. WhereExecuted'
  BY DEF WhereExecuted, finish_repair
<1> QED
  BY <1>1, <1>2, <1>3, <1>4, <1>5

(* A report is received and a task handed out.  <1>5 is about the moment   *)
(* between the two, with the schedule, status and next task at that time.  *)
LEMMA AllocateInv ==
    ASSUME Inv, NEW e \in E, AllocateRepairTask(e)
    PROVE  Inv'
<1> USE RepairSchedulerAssumption DEF Inv
<1> DEFINE t == link[e].task
           done == find_task_position(t)
           more == TasksLeft(next)
<1>1. /\ pc = "select" /\ link[e].at = "reported" /\ Outstanding(e)
      /\ ready' = ready \ {e}
      /\ UNCHANGED <<pc, i, exec, first, executed, runs, crashes>>
  BY DEF AllocateRepairTask, Outstanding
<1>2. done \in Positions /\ schedule[done] = t /\ status[done] = 1
  <2>1. PICK p \in Positions : schedule[p] = t /\ status[p] = 1
    BY <1>1 DEF OnOneLink
  <2>2. done \in Positions /\ schedule[done] = t
    BY <2>1 DEF find_task_position
  <2> QED
    BY <2>1, <2>2 DEF Distinct
<1>3. t \in TaskIds /\ t \in executed /\ given[t] = 1 /\ t < next
  <2>1. t \in TaskIds /\ t \in executed /\ t < next
    BY <1>1, <1>2 DEF TypeOK, WhereExecuted, Distinct
  <2>2. ~ \E p \in Positions : schedule[p] = t /\ status[p] = 0
    BY <1>2 DEF Distinct
  <2>3. ~ (t >= next)
    BY <2>1 DEF TypeOK
  <2> QED
    BY <2>1, <2>2, <2>3 DEF GivenIff
<1>4. PICK nx, sch, st :
         /\ nx = IF more THEN next + 1 ELSE next
         /\ sch = IF more THEN [schedule EXCEPT ![done] = next] ELSE schedule
         /\ st = [status EXCEPT ![done] = IF more THEN 0 ELSE -1]
  OBVIOUS
<1> HIDE DEF done
<1>5. /\ nx \in QueueLen .. Tasks
      /\ sch \in [Positions -> TaskIds]
      /\ st \in [Positions -> -1 .. 1]
      /\ \A p, q \in Positions : sch[p] = sch[q] => p = q
      /\ \A p \in Positions : sch[p] < nx
      /\ \A x \in TaskIds :
            given[x] = IF x >= nx \/ (\E p \in Positions : sch[p] = x /\ st[p] = 0) THEN 0 ELSE 1
      /\ \A f \in E : f # e /\ Outstanding(f) =>
            \E p \in Positions : sch[p] = link[f].task /\ st[p] = 1
      /\ \A x \in TaskIds : x < nx =>
            x \in executed \/ \E p \in Positions : sch[p] = x /\ st[p] # -1
      /\ \A p \in Positions : st[p] = -1 => nx = Tasks
  <2>0. /\ next \in QueueLen .. Tasks /\ schedule \in [Positions -> TaskIds]
        /\ status \in [Positions -> -1 .. 1]
    BY DEF TypeOK
  <2>1. \A p \in Positions : p # done => sch[p] = schedule[p] /\ st[p] = status[p]
    BY <1>4, <2>0
  <2>2. \A f \in E : f # e /\ Outstanding(f) =>
            \E p \in Positions : p # done /\ sch[p] = link[f].task /\ st[p] = 1
    BY <1>1, <1>2, <2>1 DEF OnOneLink
  <2>3. CASE more
    <3>1. nx = next + 1 /\ next \in TaskIds /\ sch[done] = next /\ st[done] = 0
      BY <1>2, <1>4, <2>0, <2>3 DEF TasksLeft
    <3>2. nx \in QueueLen .. Tasks /\ sch \in [Positions -> TaskIds] /\ st \in [Positions -> -1 .. 1]
      BY <1>2, <1>4, <2>0, <2>3, <3>1 DEF TasksLeft
    <3>a. \A p \in Positions : p # done => schedule[p] < next /\ sch[p] # next /\ sch[p] < nx
      BY <2>0, <2>1, <3>1 DEF Distinct
    <3>3. /\ \A p, q \in Positions : sch[p] = sch[q] => p = q
          /\ \A p \in Positions : sch[p] < nx
      <4>1. \A p \in Positions : sch[p] < nx
        BY <2>0, <3>1, <3>a
      <4>2. \A p, q \in Positions : sch[p] = sch[q] => p = q
        BY <2>1, <3>1, <3>a DEF Distinct
      <4> QED
        BY <4>1, <4>2
    <3>4. ASSUME NEW x \in TaskIds
          PROVE given[x] = IF x >= nx \/ (\E p \in Positions : sch[p] = x /\ st[p] = 0) THEN 0 ELSE 1
      <4>1. CASE x = next
        <5>1. x >= next
          BY <2>0, <4>1
        <5>2. given[x] = 0
          BY <5>1 DEF GivenIff
        <5> QED
          BY <1>2, <3>1, <4>1, <5>2
      <4>2. CASE x = t
        <5>1. given[x] = 1 /\ ~ (x >= nx) /\ x # next
          BY <1>3, <2>0, <3>1, <4>2
        <5>2. ~ \E p \in Positions : sch[p] = x /\ st[p] = 0
          BY <1>2, <2>1, <3>1, <4>2, <5>1 DEF Distinct
        <5> QED
          BY <5>1, <5>2
      <4>3. CASE x # next /\ x # t
        <5>1. x >= nx <=> x >= next
          BY <2>0, <3>1, <4>3
        <5>2. (\E p \in Positions : sch[p] = x /\ st[p] = 0)
              <=> (\E p \in Positions : schedule[p] = x /\ status[p] = 0)
          BY <1>2, <2>1, <3>1, <4>3
        <5> QED
          BY <5>1, <5>2 DEF GivenIff
      <4> QED
        BY <4>1, <4>2, <4>3
    <3>5. ASSUME NEW x \in TaskIds, x < nx
          PROVE  x \in executed \/ \E p \in Positions : sch[p] = x /\ st[p] # -1
      <4>1. CASE x = next
        BY <1>2, <3>1, <4>1
      <4>2. CASE x # next
        <5>1. x < next
          BY <2>0, <3>1, <3>5, <4>2
        <5> QED
          BY <1>2, <1>3, <2>1, <5>1 DEF WhereExecuted
      <4> QED
        BY <4>1, <4>2
    <3>6. \A p \in Positions : st[p] # -1
      BY <1>2, <2>0, <2>1, <2>3, <3>1 DEF WhereExecuted, TasksLeft
    <3> QED
      BY <2>2, <3>2, <3>3, <3>4, <3>5, <3>6
  <2>4. CASE ~ more
    <3>1. nx = next /\ sch = schedule /\ st[done] = -1 /\ next = Tasks
      BY <1>2, <1>4, <2>0, <2>4 DEF TasksLeft
    <3>2. st \in [Positions -> -1 .. 1]
      BY <1>2, <1>4, <2>0, <2>4
    <3>3. \A x \in TaskIds :
             (\E p \in Positions : sch[p] = x /\ st[p] = 0)
              <=> (\E p \in Positions : schedule[p] = x /\ status[p] = 0)
      BY <1>2, <2>1, <3>1
    <3>4. ASSUME NEW x \in TaskIds, x < nx
          PROVE  x \in executed \/ \E p \in Positions : sch[p] = x /\ st[p] # -1
      BY <1>2, <1>3, <2>1, <3>1, <3>4 DEF WhereExecuted
    <3> QED
      BY <2>0, <2>2, <3>1, <3>2, <3>3, <3>4, SMTT(30) DEF Distinct, GivenIff
  <2> QED
    BY <2>3, <2>4
<1>6. PICK p : p = find_available_task_position(st, done)
  OBVIOUS
<1>7. p = -1 \/ (p \in Positions /\ st[p] = 0)
  BY <1>2, <1>5, <1>6, NextAvailable
<1>8. /\ next' = nx
      /\ schedule' = sch
      /\ IF p = -1
         THEN status' = st /\ link' = [link EXCEPT ![e] = Quiet] /\ given' = given
         ELSE /\ status' = [st EXCEPT ![p] = 1]
              /\ link' = [link EXCEPT ![e] = [at |-> "sent", task |-> sch[p]]]
              /\ given' = [given EXCEPT ![sch[p]] = @ + 1]
  BY <1>4, <1>6 DEF AllocateRepairTask, done
<1> HIDE DEF more, t
<1>9. InitOrder' /\ pc' = "select"
  BY <1>1 DEF InitOrder
<1>10. link \in [E -> LinkStates] /\ given \in [TaskIds -> Nat]
  BY DEF TypeOK
<1>11. \A f \in E : f # e => link'[f] = link[f]
  BY <1>8, <1>10
<1>12. CASE p = -1
  <2>1. link'[e] = Quiet /\ status' = st /\ given' = given
    BY <1>8, <1>10, <1>12
  <2>2. link' \in [E -> LinkStates]
    BY <1>8, <1>10, <1>12, Records
  <2>3. TypeOK'
    BY <1>1, <1>5, <1>8, <2>1, <2>2 DEF TypeOK
  <2>4. Distinct' /\ GivenIff'
    BY <1>5, <1>8, <2>1 DEF Distinct, GivenIff
  <2>5. \A f \in E : Outstanding(f)' => f # e /\ Outstanding(f) /\ link'[f] = link[f]
    BY <1>11, <2>1, Records DEF Outstanding
  <2>6. OnOneLink'
    <3>1. ASSUME NEW f \in E, Outstanding(f)'
          PROVE  \E q \in Positions : schedule'[q] = link'[f].task /\ status'[q] = 1
      <4>1. f # e /\ Outstanding(f) /\ link'[f] = link[f]
        BY <2>5, <3>1
      <4>2. PICK q \in Positions : sch[q] = link[f].task /\ st[q] = 1
        BY <1>5, <4>1
      <4> QED
        BY <1>8, <2>1, <4>1, <4>2
    <3>2. ASSUME NEW f \in E, NEW g \in E, Outstanding(f)', Outstanding(g)',
                 link'[f].task = link'[g].task
          PROVE  f = g
      BY <2>5, <3>2 DEF OnOneLink
    <3> QED
      BY <1>9, <3>1, <3>2 DEF OnOneLink
  <2>7. WhereExecuted'
    BY <1>1, <1>5, <1>8, <2>1, <2>5 DEF WhereExecuted, Outstanding
  <2> QED
    BY <1>9, <2>3, <2>4, <2>6, <2>7
<1>13. CASE p \in Positions /\ st[p] = 0
  <2>1. /\ link'[e] = [at |-> "sent", task |-> sch[p]] /\ sch[p] \in TaskIds
        /\ status' = [st EXCEPT ![p] = 1] /\ given' = [given EXCEPT ![sch[p]] = @ + 1]
        /\ p # -1
    BY <1>5, <1>8, <1>10, <1>13, SMTT(30)
  <2>2. link' \in [E -> LinkStates]
    BY <1>8, <1>10, <2>1, Records, SMTT(30)
  <2>3. given' \in [TaskIds -> Nat]
    <3>1. given[sch[p]] + 1 \in Nat
      BY <1>10, <2>1
    <3> QED
      BY <1>10, <2>1, <3>1
  <2>4. status' \in [Positions -> -1 .. 1] /\ status'[p] = 1
        /\ \A q \in Positions : q # p => status'[q] = st[q]
    BY <1>5, <1>13, <2>1
  <2>5. TypeOK'
    BY <1>1, <1>5, <1>8, <2>2, <2>3, <2>4 DEF TypeOK
  <2>6. Distinct'
    BY <1>5, <1>8 DEF Distinct
  <2>7. GivenIff'
    <3> SUFFICES ASSUME NEW x \in TaskIds
        PROVE given'[x] = IF x >= nx \/ (\E q \in Positions : sch[q] = x /\ status'[q] = 0)
                          THEN 0 ELSE 1
      BY <1>8 DEF GivenIff
    <3>1. CASE x = sch[p]
      <4>1. given[x] = 0
        BY <1>5, <1>13, <3>1
      <4>2. given'[x] = 1
        BY <1>10, <2>1, <3>1, <4>1
      <4>3. ~ (x >= nx)
        BY <1>5, <1>13, <3>1
      <4>4. ~ \E q \in Positions : sch[q] = x /\ status'[q] = 0
        BY <1>5, <1>13, <2>4, <3>1
      <4> QED
        BY <4>2, <4>3, <4>4
    <3>2. CASE x # sch[p]
      <4>1. given'[x] = given[x]
        BY <1>10, <2>1, <3>2
      <4> QED
        BY <1>5, <1>13, <2>4, <3>2, <4>1
    <3> QED
      BY <3>1, <3>2
  <2>8. \A f \in E : Outstanding(f)' /\ f # e => Outstanding(f) /\ link'[f] = link[f]
    BY <1>11 DEF Outstanding
  <2>9. \A f \in E : Outstanding(f) /\ f # e => link[f].task # sch[p]
    <3> SUFFICES ASSUME NEW f \in E, Outstanding(f), f # e PROVE link[f].task # sch[p]
      OBVIOUS
    <3>1. PICK q \in Positions : sch[q] = link[f].task /\ st[q] = 1
      BY <1>5
    <3> QED
      BY <1>5, <1>13, <3>1
  <2>10. OnOneLink'
    <3>1. ASSUME NEW f \in E, Outstanding(f)'
          PROVE  \E q \in Positions : schedule'[q] = link'[f].task /\ status'[q] = 1
      <4>1. CASE f = e
        BY <1>8, <1>13, <2>1, <2>4, <4>1
      <4>2. CASE f # e
        <5>1. PICK q \in Positions : sch[q] = link[f].task /\ st[q] = 1
          BY <1>5, <2>8, <3>1, <4>2
        <5> QED
          BY <1>8, <1>13, <2>4, <2>8, <3>1, <4>2, <5>1
      <4> QED
        BY <4>1, <4>2
    <3>2. ASSUME NEW f \in E, NEW g \in E, Outstanding(f)', Outstanding(g)',
                 link'[f].task = link'[g].task
          PROVE  f = g
      <4>1. CASE f # e /\ g # e
        BY <2>8, <3>2, <4>1 DEF OnOneLink
      <4>2. CASE f = e /\ g # e
        BY <2>1, <2>8, <2>9, <3>2, <4>2
      <4>3. CASE g = e /\ f # e
        BY <2>1, <2>8, <2>9, <3>2, <4>3
      <4> QED
        BY <4>1, <4>2, <4>3
    <3> QED
      BY <1>9, <3>1, <3>2 DEF OnOneLink
  <2>11. WhereExecuted'
    <3>1. \A q \in Positions : status'[q] = -1 <=> st[q] = -1
      BY <1>13, <2>4
    <3>2. \A f \in E : link'[f].at = "reported" => f # e /\ link'[f] = link[f]
      BY <1>11, <2>1
    <3>3. \A x \in TaskIds : x < next' =>
             x \in executed' \/ \E q \in Positions : schedule'[q] = x /\ status'[q] # -1
      BY <1>1, <1>5, <1>8, <3>1
    <3>4. \A f \in E : link'[f].at = "reported" => link'[f].task \in executed'
      BY <1>1, <3>2 DEF WhereExecuted
    <3>5. \A q \in Positions : status'[q] = -1 => next' = Tasks
      BY <1>5, <1>8, <3>1
    <3> QED
      BY <1>9, <3>3, <3>4, <3>5 DEF WhereExecuted
  <2> QED
    BY <1>9, <2>5, <2>6, <2>7, <2>10, <2>11
<1> QED
  BY <1>7, <1>12, <1>13

(* A step after which no connection carries more than before. *)
LEMMA FewerLinks ==
    ASSUME Inv, UNCHANGED <<schedule, status, next, given, executed>>,
           \A e \in E : Outstanding(e)' =>
               Outstanding(e) /\ link'[e].task = link[e].task
               /\ (link'[e].at = "reported" => link[e].at = "reported"),
           pc' = "init" => FALSE, pc' = "off" => \A e \in E : ~ Outstanding(e)',
           pc' = "done" => pc = "done"
    PROVE  Distinct' /\ GivenIff' /\ OnOneLink' /\ InitOrder' /\ WhereExecuted'
<1> USE DEF Inv
<1>1. Distinct' /\ GivenIff' /\ InitOrder'
  BY DEF Distinct, GivenIff, InitOrder
<1>2. OnOneLink'
  <2>1. \A e \in E : Outstanding(e)' =>
           \E p \in Positions : schedule'[p] = link'[e].task /\ status'[p] = 1
    BY DEF OnOneLink
  <2>2. \A e, f \in E : Outstanding(e)' /\ Outstanding(f)' /\ link'[e].task = link'[f].task => e = f
    BY DEF OnOneLink
  <2> QED
    BY <2>1, <2>2 DEF OnOneLink
<1>3. WhereExecuted'
  <2>1. \A e \in E : link'[e].at = "reported" => link'[e].task \in executed'
    BY DEF WhereExecuted, Outstanding
  <2> QED
    BY <2>1 DEF WhereExecuted
<1> QED
  BY <1>1, <1>2, <1>3

(* Everything is hung up. *)
LEMMA HangupInv ==
    ASSUME Inv, Report \/ \E e \in E : Exit(e)
    PROVE  Inv'
<1>1. /\ UNCHANGED <<i, ready, schedule, status, next, given, executed, first, crashes, runs>>
      /\ pc' \in {"off", "exited"}
      /\ Hangup
  BY DEF Report, Exit
<1>2. \A e \in E : ~ Outstanding(e)'
  BY <1>1, Records DEF Hangup, Outstanding
<1>3. TypeOK'
  <2>1. link' \in [E -> LinkStates] /\ exec' \in [E -> ExecStates]
    BY <1>1, Records DEF Hangup, Inv, TypeOK
  <2> QED
    BY <1>1, <2>1 DEF Inv, TypeOK
<1> QED
  BY <1>1, <1>2, <1>3, FewerLinks DEF Inv

(* The steps of an executer. *)
LEMMA ReceiveInv ==
    ASSUME Inv, NEW e \in E, Receive(e)
    PROVE  Inv'
<1> USE DEF Inv
<1>1. /\ UNCHANGED <<sched, executed, crashes>>
      /\ link[e].at = "sent" /\ link' = [link EXCEPT ![e] = [link[e] EXCEPT !.at = "working"]]
      /\ exec' = [exec EXCEPT ![e] = [at |-> "busy", task |-> link[e].task]]
      /\ first' = [first EXCEPT ![e] = FALSE]
  BY DEF Receive
<1>2. link \in [E -> LinkStates] /\ exec \in [E -> ExecStates] /\ first \in [E -> BOOLEAN]
  BY DEF TypeOK
<1>3. link[e].task \in TaskIds
  BY <1>1, <1>2 DEF OnOneLink, Outstanding, TypeOK
<1>4. link' \in [E -> LinkStates] /\ exec' \in [E -> ExecStates] /\ first' \in [E -> BOOLEAN]
  BY <1>1, <1>2, <1>3, Records
<1>5. TypeOK'
  BY <1>1, <1>4 DEF TypeOK, sched
<1>6. \A f \in E : link'[f].task = link[f].task /\ (f # e => link'[f] = link[f])
  BY <1>1, <1>2, Records
<1>7. link'[e].at = "working" /\ Outstanding(e)
  BY <1>1, <1>2, Records DEF Outstanding
<1>8. \A f \in E : /\ Outstanding(f)' <=> Outstanding(f)
                   /\ link'[f].at = "reported" <=> link[f].at = "reported"
  BY <1>1, <1>6, <1>7 DEF Outstanding
<1>9. Distinct' /\ GivenIff' /\ InitOrder'
  BY <1>1 DEF sched, Distinct, GivenIff, InitOrder
<1>10. OnOneLink'
  BY <1>1, <1>6, <1>8 DEF sched, OnOneLink
<1>11. WhereExecuted'
  BY <1>1, <1>6, <1>8 DEF sched, WhereExecuted
<1> QED
  BY <1>5, <1>9, <1>10, <1>11

(* An executer has done its task. *)
LEMMA FinishInv ==
    ASSUME Inv, NEW e \in E, Finish(e)
    PROVE  Inv'
<1> USE DEF Inv
<1>0. link \in [E -> LinkStates] /\ exec \in [E -> ExecStates] /\ first \in [E -> BOOLEAN]
  BY DEF TypeOK
<1>1. CASE link[e] = [at |-> "working", task |-> exec[e].task]
  <2>1. /\ UNCHANGED <<sched, crashes, first>>
        /\ link[e].at = "working" /\ link[e].task = exec[e].task
        /\ link' = [link EXCEPT ![e] = [link[e] EXCEPT !.at = "reported"]]
        /\ exec' = [exec EXCEPT ![e] = [at |-> "connected", task |-> None]]
        /\ executed' = executed \cup {link[e].task}
    BY <1>1 DEF Finish
  <2>2. link[e].task \in TaskIds /\ Outstanding(e)
    BY <2>1 DEF OnOneLink, Outstanding, TypeOK
  <2>3. link' \in [E -> LinkStates] /\ exec' \in [E -> ExecStates] /\ executed' \subseteq TaskIds
    BY <1>0, <2>1, <2>2, Records DEF TypeOK
  <2>4. TypeOK'
    BY <2>1, <2>3 DEF TypeOK, sched
  <2>5. \A f \in E : link'[f].task = link[f].task /\ (f # e => link'[f] = link[f])
    BY <1>0, <2>1, Records
  <2>6. link'[e].at = "reported"
    BY <1>0, <2>1, Records
  <2>7. \A f \in E : Outstanding(f)' <=> Outstanding(f)
    BY <2>2, <2>5, <2>6 DEF Outstanding
  <2>8. Distinct' /\ GivenIff' /\ InitOrder'
    BY <2>1 DEF sched, Distinct, GivenIff, InitOrder
  <2>9. OnOneLink'
    BY <2>1, <2>5, <2>7 DEF sched, OnOneLink
  <2>10. WhereExecuted'
    <3>1. \A f \in E : link'[f].at = "reported" => link'[f].task \in executed'
      BY <2>1, <2>5 DEF WhereExecuted
    <3>2. \A t \in TaskIds : t < next =>
             t \in executed' \/ \E p \in Positions : schedule[p] = t /\ status[p] # -1
      BY <2>1 DEF WhereExecuted
    <3> QED
      BY <2>1, <3>1, <3>2 DEF sched, WhereExecuted
  <2> QED
    BY <2>4, <2>8, <2>9, <2>10
<1>2. CASE link[e] # [at |-> "working", task |-> exec[e].task]
  <2>1. UNCHANGED <<sched, crashes, link, executed>>
        /\ exec' = [exec EXCEPT ![e] = Accepting] /\ first' = [first EXCEPT ![e] = TRUE]
    BY <1>2 DEF Finish
  <2>2. exec' \in [E -> ExecStates] /\ first' \in [E -> BOOLEAN]
    BY <1>0, <2>1, Records
  <2>3. TypeOK'
    BY <2>1, <2>2 DEF TypeOK, sched
  <2>4. Distinct' /\ GivenIff' /\ InitOrder' /\ WhereExecuted'
    BY <2>1 DEF sched, Distinct, GivenIff, InitOrder, WhereExecuted
  <2>5. OnOneLink'
    BY <2>1 DEF sched, OnOneLink, Outstanding
  <2> QED
    BY <2>3, <2>4, <2>5
<1> QED
  BY <1>1, <1>2

(* A connection has ended. *)
LEMMA GoneInv ==
    ASSUME Inv, NEW e \in E, Closed(e) \/ Crash(e)
    PROVE  Inv'
<1> USE RepairSchedulerAssumption DEF Inv
<1>1. /\ UNCHANGED <<sched, executed>>
      /\ exec' = [exec EXCEPT ![e] = Accepting] /\ first' = [first EXCEPT ![e] = TRUE]
      /\ link' = link \/ link' = [link EXCEPT ![e] = Down]
      /\ crashes' \in 0 .. MaxCrashes
  BY SMTT(30) DEF Closed, Crash, TypeOK
<1>2. /\ link \in [E -> LinkStates] /\ exec \in [E -> ExecStates] /\ first \in [E -> BOOLEAN]
  BY DEF TypeOK
<1>3. link' \in [E -> LinkStates] /\ exec' \in [E -> ExecStates] /\ first' \in [E -> BOOLEAN]
  BY <1>1, <1>2, Records
<1>4. TypeOK'
  BY <1>1, <1>3 DEF TypeOK, sched
<1>5. \A f \in E : link'[f] = link[f] \/ link'[f].at = "down"
  BY <1>1, <1>2, Records
<1>6. \A f \in E : /\ Outstanding(f)' => Outstanding(f) /\ link'[f] = link[f]
                   /\ link'[f].at = "reported" => link'[f] = link[f]
  BY <1>5 DEF Outstanding
<1>7. Distinct' /\ GivenIff' /\ InitOrder'
  BY <1>1 DEF sched, Distinct, GivenIff, InitOrder
<1>8. OnOneLink'
  BY <1>1, <1>6 DEF sched, OnOneLink
<1>9. WhereExecuted'
  BY <1>1, <1>6 DEF sched, WhereExecuted
<1> QED
  BY <1>4, <1>7, <1>8, <1>9

-----------------------------------------------------------------------------
(* Nothing changes. *)
LEMMA StutterInv == Inv /\ UNCHANGED vars => Inv'
  BY DEF Inv, vars, sched, TypeOK, Distinct, GivenIff, OnOneLink, Outstanding, InitOrder,
         WhereExecuted

(* Every step. *)
LEMMA NextInv == Inv /\ [Next]_vars => Inv'
<1> SUFFICES ASSUME Inv, [Next]_vars PROVE Inv'
  OBVIOUS
<1>1. CASE Start
  BY <1>1, StartInv
<1>2. CASE InitialTask
  BY <1>2, InitialTaskInv
<1>3. CASE Select
  BY <1>3, SelectInv
<1>4. CASE \E e \in E : AllocateRepairTask(e)
  BY <1>4, AllocateInv
<1>5. CASE Report \/ \E e \in E : Exit(e)
  BY <1>5, HangupInv
<1>6. CASE \E e \in E : Receive(e)
  BY <1>6, ReceiveInv
<1>7. CASE \E e \in E : Finish(e)
  BY <1>7, FinishInv
<1>8. CASE \E e \in E : Closed(e) \/ Crash(e)
  BY <1>8, GoneInv
<1>9. CASE Finished \/ UNCHANGED vars
  BY <1>9, StutterInv DEF Finished
<1> QED
  BY <1>1, <1>2, <1>3, <1>4, <1>5, <1>6, <1>7, <1>8, <1>9
     DEF Next, SchedulerStep, ExecuterStep

(* The invariant holds in every reachable state of scheduler.cc and        *)
(* taskexecuter.cc.                                                        *)
THEOREM InvHolds == Spec => []Inv
  BY InitInv, NextInv, PTL DEF Spec

(* TypeOK: the queue of the scheduler holds existing tasks, its status     *)
(* values and the states of connections and executers are legal.           *)
THEOREM TypeCorrect == Spec => []TypeOK
<1>1. Inv => TypeOK
  BY DEF Inv
<1> QED
  BY <1>1, InvHolds, PTL

(* GivenOnce: AllocateRepairTask() and InitializeRepairTaskAllocation()    *)
(* never hand out a task twice in a run.                                   *)
THEOREM TasksGivenOnce == Spec => []GivenOnce
<1>1. Inv => GivenOnce
  BY DEF Inv, GivenIff, GivenOnce
<1> QED
  BY <1>1, InvHolds, PTL

(* DoneMeansExecuted: when finish_repair() ends the loop of main(), every  *)
(* task has been executed.                                                 *)
THEOREM AllTasksExecuted == Spec => []DoneMeansExecuted
<1>1. Inv => DoneMeansExecuted
  <2> SUFFICES ASSUME Inv, pc = "done" PROVE executed = TaskIds
    BY DEF DoneMeansExecuted
  <2>1. \A p \in Positions : status[p] = -1
    BY DEF Inv, WhereExecuted
  <2>2. 0 \in Positions
    BY RepairSchedulerAssumption
  <2>3. next = Tasks
    BY <2>1, <2>2 DEF Inv, WhereExecuted
  <2>4. \A t \in TaskIds : t \in executed
    BY <2>1, <2>3, RepairSchedulerAssumption DEF Inv, WhereExecuted
  <2> QED
    BY <2>4 DEF Inv, TypeOK
<1> QED
  BY <1>1, InvHolds, PTL
=============================================================================
