------------------------------ MODULE Executor ------------------------------
(***************************************************************************)
(* The hybrid-staging executor of dummy_workflow_task.c.  Every MPI rank   *)
(* of an executor program runs the loop of its dummy_*_workflow:           *)
(* hstaging_request_task, hstaging_put_sync_all, exec_task_function.  The  *)
(* ranks that receive one task create a communicator over its rank table,  *)
(* run the registered task function (barriers, and calls made by the       *)
(* task's rank 0 only), meet at the barrier of task_done, and rank 0 marks *)
(* the task finished.                                                      *)
(*                                                                         *)
(* The hstaging runtime is not in the repository.  Its part is what the    *)
(* loop sees: hstaging_request_task hands a pending task to as many ranks  *)
(* blocked in it as the task has processes, and returns non-zero once      *)
(* nothing is pending or running.  hstaging_submit_task adds a pending     *)
(* task; hstaging_update_var and hstaging_set_task_finished are recorded.  *)
(* put_sync_all has nothing to wait for: the active task functions put no  *)
(* data (update_var_nodata only sends metadata).                           *)
(***************************************************************************)
EXTENDS Naturals, Sequences, SequencesExt, FiniteSets, TLC

CONSTANTS
    Ranks,       \* the MPI ranks of the executor program (origin_mpi_comm)
    Registry,    \* appid -> name of the task function, register_task_function
    Initial,     \* the tasks the workflow starts with
    SubmitApps,  \* appids of the .conf files s3d_task submits each step
    SubmitProcs, \* nproc of a submitted task (from its .conf)
    NumTs        \* s3d_num_ts and dns_les_num_ts, bounded

Task(tid, appid, nproc) == [tid |-> tid, appid |-> appid, nproc |-> nproc]

(* The steps of a task function: a barrier of all ranks of the task's     *)
(* communicator, or a call that only the task's rank 0 makes.             *)
Bar == [op |-> "barrier", root |-> FALSE]
Root(op) == [op |-> op, root |-> TRUE]
Times(s, n) == FlattenSeq([i \in 1..n |-> s])

dag_task == << Bar, Bar, Root("update") >>
xgc1_task == << Bar, Bar, Root("update") >>
xgca_task == << Bar, Bar, Root("update") >>
\* mutant: the MPI_Barrier of a step of s3d_task moved into the rank 0 branch
s3d_task_root_barrier ==
    << Bar >> \o Times(<< Root("submit"), Root("barrier") >>, NumTs) \o << Bar >>
s3d_task == << Bar >> \o Times(<< Root("submit"), Bar >>, NumTs) \o << Bar >>
s3d_analysis_task == << Bar, Bar >>
dns_task == << Bar >> \o Times(<< Bar >>, NumTs)
les_task == << Bar >> \o Times(<< Bar >>, NumTs)

TaskFunction(name) ==
    CASE name = "dag_task"  -> dag_task
      [] name = "xgc1_task" -> xgc1_task
      [] name = "xgca_task" -> xgca_task
      [] name = "s3d_task"  -> s3d_task
      [] name = "dns_task"  -> dns_task
      [] name = "les_task"  -> les_task
      [] name \in {"s3d_viz_task", "s3d_stat_task", "s3d_topo_task",
                    "s3d_indexing_task"} -> s3d_analysis_task

(* exec_task_function: create_parallel_comm (collective over the rank    *)
(* table), the task function, task_done (a barrier, then rank 0 calls     *)
(* hstaging_set_task_finished).                                           *)
create_parallel_comm == << Bar >>
\* mutant: task_done without its MPI_Barrier
task_done_no_barrier == << Root("finish") >>
task_done == << Bar, Root("finish") >>
Steps(t) == create_parallel_comm \o TaskFunction(Registry[t.appid]) \o task_done

VARIABLES
    pending,   \* tasks submitted and not yet handed out
    pc,        \* "request", "run", "wait" (in MPI_Barrier) or "exit"
    cur,       \* the task_descriptor of a rank, with its rank in the task
    ip,        \* next step of Steps(cur[r]); 0 is the appid lookup
    arrive,    \* arrive[<<tid, i>>]: barriers rank i of task tid has entered
    tid,       \* the local tid counter of s3d_task
    updated,   \* tasks whose rank 0 called update_var_nodata
    finished   \* tasks hstaging_set_task_finished was called for

vars == <<pending, pc, cur, ip, arrive, tid, updated, finished>>

\* Every task the workflow can run: its first tasks and s3d_task's
\* submissions, with tid from 2 on.
AllTasksOf ==
    Initial \cup {Task(n, a, SubmitProcs) : n \in 2..(1 + NumTs * Len(SubmitApps)),
                                           a \in Range(SubmitApps)}

NoTask == [tid |-> 0, appid |-> 0, nproc |-> 0, rank |-> 0]
Running == {r \in Ranks : pc[r] \in {"run", "wait"}}
Members(t) == 0..t.nproc-1

Init ==
    /\ pending = Initial
    /\ pc = [r \in Ranks |-> "request"]
    /\ cur = [r \in Ranks |-> NoTask]
    /\ ip = [r \in Ranks |-> 0]
    /\ arrive = << >>
    /\ tid = [r \in Ranks |-> 2]
    /\ updated = {}
    /\ finished = {}

AsTask(c) == Task(c.tid, c.appid, c.nproc)
Op(r) == Steps(cur[r])[ip[r]]
LastStep(r) == ip[r] = Len(Steps(cur[r]))
\* After a step: the next one, or, after the last, exec_task_function
\* frees the descriptor's tables and returns 0 to the loop, which asks
\* again (the stale descriptor is not read before it is overwritten).
\* mutant: the return to the loop that keeps the step counter
AdvanceNoReset(r) ==
    IF LastStep(r) THEN /\ pc' = [pc EXCEPT ![r] = "request"]
                        /\ ip' = [ip EXCEPT ![r] = @ + 1]
                        /\ cur' = [cur EXCEPT ![r] = NoTask]
                   ELSE /\ ip' = [ip EXCEPT ![r] = @ + 1]
                        /\ UNCHANGED <<pc, cur>>
Advance(r) ==
    IF LastStep(r) THEN /\ pc' = [pc EXCEPT ![r] = "request"]
                        /\ ip' = [ip EXCEPT ![r] = 0]
                        /\ cur' = [cur EXCEPT ![r] = NoTask]
                   ELSE /\ ip' = [ip EXCEPT ![r] = @ + 1]
                        /\ UNCHANGED <<pc, cur>>

(* The loop head of a dummy_*_workflow: hstaging_request_task returns t  *)
(* to the ranks f names (f[i] gets t->rank = i); each calls               *)
(* hstaging_put_sync_all and enters exec_task_function.                   *)
hstaging_request_task(t, f) ==
    /\ t \in pending
    /\ f \in [Members(t) -> {r \in Ranks : pc[r] = "request"}]
    /\ IsInjective(f)
    /\ pending' = pending \ {t}
    /\ pc' = [r \in Ranks |-> IF r \in Range(f) THEN "run" ELSE pc[r]]
    /\ cur' = [r \in Ranks |->
                 IF r \in Range(f)
                 THEN [tid |-> t.tid, appid |-> t.appid, nproc |-> t.nproc,
                       rank |-> CHOOSE i \in Members(t) : f[i] = r]
                 ELSE cur[r]]
    /\ ip' = [r \in Ranks |-> IF r \in Range(f) THEN 0 ELSE ip[r]]
    /\ arrive' = arrive @@ [p \in {t.tid} \X Members(t) |-> 0]
    /\ UNCHANGED <<tid, updated, finished>>

(* hstaging_request_task returns non-zero: nothing is left to run.  The  *)
(* rank calls hstaging_put_sync_all and communicator_free and returns 0.  *)
ExecutorExit(r) ==
    /\ pc[r] = "request"
    /\ pending = {}
    /\ Running = {}
    /\ pc' = [pc EXCEPT ![r] = "exit"]
    /\ UNCHANGED <<pending, cur, ip, arrive, tid, updated, finished>>

(* exec_task_function looks the appid up in ptasks.  An unknown appid    *)
(* logs an error and falls off the end of the function: err is whatever   *)
(* the return register holds, and a negative one ends the loop without   *)
(* put_sync_all.  The task is never marked finished.                      *)
\* mutant: the ptasks lookup stops one entry short (i < num_tasks - 1), so
\* the function registered last is never found
exec_task_function_skip_last(r) ==
    /\ pc[r] = "run"
    /\ ip[r] = 0
    /\ IF cur[r].appid \in DOMAIN Registry
          /\ \E a \in DOMAIN Registry : a > cur[r].appid
       THEN /\ ip' = [ip EXCEPT ![r] = 1]
            /\ UNCHANGED pc
       ELSE /\ \E err \in {-1, 0} :
                 pc' = [pc EXCEPT ![r] = IF err < 0 THEN "exit" ELSE "request"]
            /\ UNCHANGED ip
    /\ UNCHANGED <<pending, cur, arrive, tid, updated, finished>>
exec_task_function(r) ==
    /\ pc[r] = "run"
    /\ ip[r] = 0
    /\ IF cur[r].appid \in DOMAIN Registry
       THEN /\ ip' = [ip EXCEPT ![r] = 1]
            /\ UNCHANGED pc
       ELSE /\ \E err \in {-1, 0} :
                 pc' = [pc EXCEPT ![r] = IF err < 0 THEN "exit" ELSE "request"]
            /\ UNCHANGED ip
    /\ UNCHANGED <<pending, cur, arrive, tid, updated, finished>>

(* MPI_Barrier on the task's communicator (MPI_Comm_create_group is      *)
(* collective in the same way): the rank enters its k-th barrier and     *)
(* waits, unless every rank of the communicator has entered its k-th     *)
(* barrier already, whichever call site that was.                        *)
Passed(r, a) == \A i \in Members(cur[r]) :
                    a[<<cur[r].tid, i>>] >= a[<<cur[r].tid, cur[r].rank>>]

MPI_Barrier(r) ==
    /\ pc[r] = "run"
    /\ ip[r] >= 1
    /\ Op(r).op = "barrier"
    /\ ~Op(r).root \/ cur[r].rank = 0
    /\ arrive' = [arrive EXCEPT ![<<cur[r].tid, cur[r].rank>>] = @ + 1]
    /\ IF Passed(r, arrive')
       THEN ip' = [ip EXCEPT ![r] = @ + 1] /\ UNCHANGED pc
       ELSE pc' = [pc EXCEPT ![r] = "wait"] /\ UNCHANGED ip
    /\ UNCHANGED <<pending, cur, tid, updated, finished>>

(* A rank waiting in MPI_Barrier leaves once the others have entered.   *)
BarrierLeave(r) ==
    /\ pc[r] = "wait"
    /\ Passed(r, arrive)
    /\ pc' = [pc EXCEPT ![r] = "run"]
    /\ ip' = [ip EXCEPT ![r] = @ + 1]
    /\ UNCHANGED <<pending, cur, arrive, tid, updated, finished>>

(* The false branch of "if (t->rank == 0)": other ranks skip the call.   *)
NotRoot(r) ==
    /\ pc[r] = "run"
    /\ ip[r] >= 1
    /\ Op(r).root
    /\ cur[r].rank # 0
    /\ Advance(r)
    /\ UNCHANGED <<pending, arrive, tid, updated, finished>>

(* The true branch of "if (t->rank == 0)", one call into the runtime:   *)
(* update_var_nodata in dag_task, xgc1_task and xgca_task; one            *)
(* hstaging_submit_task per .conf, with tid++, in a step of s3d_task; and  *)
(* hstaging_set_task_finished after the barrier of task_done.             *)
RootCall(r) ==
    /\ pc[r] = "run"
    /\ ip[r] >= 1
    /\ Op(r).root
    /\ Op(r).op # "barrier"
    /\ cur[r].rank = 0
    /\ CASE Op(r).op = "update" ->
              /\ updated' = updated \cup {AsTask(cur[r])}
              /\ UNCHANGED <<pending, tid, finished>>
         [] Op(r).op = "submit" ->
              /\ pending' = pending \cup
                   {Task(tid[r] + k - 1, SubmitApps[k], SubmitProcs) : k \in 1..Len(SubmitApps)}
              /\ tid' = [tid EXCEPT ![r] = @ + Len(SubmitApps)]
              /\ UNCHANGED <<updated, finished>>
         [] Op(r).op = "finish" ->
              /\ finished' = finished \cup {AsTask(cur[r])}
              /\ UNCHANGED <<pending, tid, updated>>
    /\ Advance(r)
    /\ UNCHANGED arrive

\* The executor program has ended on every rank.
Terminated ==
    /\ \A r \in Ranks : pc[r] = "exit"
    /\ UNCHANGED vars

Next ==
    \/ \E t \in pending : \E f \in [Members(t) -> Ranks] : hstaging_request_task(t, f)
    \/ \E r \in Ranks :
          \/ ExecutorExit(r)
          \/ exec_task_function(r)
          \/ MPI_Barrier(r)
          \/ BarrierLeave(r)
          \/ NotRoot(r)
          \/ RootCall(r)
    \/ Terminated

Spec == Init /\ [][Next]_vars

(* The ranks poll in their own processes, and the runtime answers a rank *)
(* blocked in hstaging_request_task while a task is pending.             *)
FairSpec ==
    /\ Spec
    /\ \A t \in AllTasksOf : WF_vars(\E f \in [Members(t) -> Ranks] : hstaging_request_task(t, f))
    /\ \A r \in Ranks :
          /\ WF_vars(ExecutorExit(r))
          /\ WF_vars(exec_task_function(r))
          /\ WF_vars(MPI_Barrier(r))
          /\ WF_vars(BarrierLeave(r))
          /\ WF_vars(NotRoot(r))
          /\ WF_vars(RootCall(r))

Registered(c) == c.appid \in DOMAIN Registry

TypeOK ==
    /\ pending \subseteq AllTasksOf
    /\ pc \in [Ranks -> {"request", "run", "wait", "exit"}]
    /\ \A r \in Ranks :
          /\ pc[r] = "request" => ip[r] = 0
          /\ pc[r] \in {"run", "wait"} /\ Registered(cur[r]) =>
                ip[r] \in 0..Len(Steps(cur[r]))
    /\ updated \subseteq AllTasksOf
    /\ finished \subseteq AllTasksOf

\* A rank is still in create_parallel_comm or the task function (its
\* final MPI_Barrier included) of its task.
InFunction(r) ==
    /\ pc[r] \in {"run", "wait"}
    /\ Registered(cur[r])
    /\ ip[r] <= Len(create_parallel_comm \o TaskFunction(Registry[cur[r].appid]))

\* task_done: hstaging_set_task_finished is called for a task only when
\* every rank of its rank table has returned from the task function, so a
\* task the runtime starts on this news never runs beside a rank that is
\* still computing or waiting in the function's last MPI_Barrier.
FinishedAfterAllRanks ==
    \A t \in finished : \A r \in Ranks : cur[r].tid = t.tid => ~InFunction(r)

\* Every task the workflow starts with or that s3d_task submits is
\* eventually run to hstaging_set_task_finished: no rank of a task is left
\* in an MPI_Barrier the others never reach.
TasksEventuallyFinished ==
    \A t \in AllTasksOf : (t \in pending) ~> (t \in finished)

\* The executor loop of every rank ends: hstaging_request_task returns
\* non-zero once the workflow has nothing left.
ExecutorsEventuallyExit == <>(\A r \in Ranks : pc[r] = "exit")


=============================================================================
