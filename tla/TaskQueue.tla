----------------------------- MODULE TaskQueue ------------------------------
(***************************************************************************)
(* Distributed fuzzing (utils/queue): server.py hands tasks to workers,    *)
(* stores their results and, when no task is left, hands the directory of  *)
(* each target to a compare worker (lib/task.py, worker.py,                *)
(* compare-worker.py).  ZeroMQ is external: a worker's REQ socket sends    *)
(* one request and waits for its reply; the server's REP socket takes one  *)
(* request after the other and answers the one it has taken.               *)
(***************************************************************************)
EXTENDS Naturals, Sequences, FiniteSets, SequencesExt

CONSTANTS
    Tasks,      \* the tasks poll has queued, in their order
    Worker,     \* workers that ask for tasks
    Comparer,   \* workers that ask for comparisons
    SystemOf,   \* SystemOf[w]: platform.system() of a worker
    MaxDeaths   \* bound: how many workers are gone when another one dies

Node == Worker \cup Comparer
Task == ToSet(Tasks)
Target == {t.target : t \in Task}

\* A task is known by what worker.py is given; two may not be the same here.
ASSUME QueueConstants ==
    /\ \A t \in Task : DOMAIN t = {"target", "system", "seed"}
    /\ Tasks \in Seq(Task) /\ IsInjective(Tasks)
    /\ IsFiniteSet(Node) /\ Worker \cap Comparer = {}
    /\ DOMAIN SystemOf = Worker /\ MaxDeaths \in Nat

VARIABLES
    tasks,        \* TaskServer._tasks
    toCompare,    \* TaskServer._to_compare, by target
    targetsDone,  \* server.py's targets_done
    spc,          \* the server: "check", "recv", "store", "stopped"
    storing,      \* the result process_task has returned, or Nothing
    stored,       \* the files under RESULTS_DIR, one for each task's result
    request,      \* request[w]: sent by w and not yet taken
    reply,        \* reply[w]: sent to w and not yet received
    wpc,          \* where TaskWorker.start is
    job,          \* what w works on
    compared      \* the comparisons acknowledged

serverVars == <<tasks, toCompare, targetsDone, spc, storing, stored, compared>>
nodeVars == <<request, reply, wpc, job>>
queueVars == <<serverVars, nodeVars>>

Nothing == [type |-> "nothing"]

QueueInit ==
    /\ tasks = Tasks /\ toCompare = {} /\ targetsDone = {}
    /\ spc = "check" /\ storing = Nothing /\ stored = {} /\ compared = {}
    /\ request = [w \in Node |-> Nothing] /\ reply = [w \in Node |-> Nothing]
    /\ wpc = [w \in Node |-> "ask"] /\ job = [w \in Node |-> Nothing]

-----------------------------------------------------------------------------
(* The server *)

\* Mutant of CheckTasks: the target is marked but its path is not queued.
CheckTasksMarksOnly ==
    /\ spc = "check"
    /\ targetsDone' = IF tasks = <<>> THEN Target ELSE targetsDone
    /\ spc' = "recv"
    /\ UNCHANGED <<nodeVars, tasks, toCompare, storing, stored, compared>>

\* Mutant of CheckTasks: comparisons start while tasks are queued.
CheckTasksAlways ==
    /\ spc = "check"
    /\ toCompare' = toCompare \cup (Target \ targetsDone)
    /\ targetsDone' = Target
    /\ spc' = "recv"
    /\ UNCHANGED <<nodeVars, tasks, storing, stored, compared>>

\* The head of the main loop
CheckTasks ==
    /\ spc = "check"
    /\ IF tasks = <<>>
       THEN /\ toCompare' = toCompare \cup (Target \ targetsDone)
            /\ targetsDone' = Target
       ELSE UNCHANGED <<toCompare, targetsDone>>
    /\ spc' = "recv"
    /\ UNCHANGED <<nodeVars, tasks, storing, stored, compared>>

\* get_task: the first task for the worker's system, or 0
FirstFor(w) ==
    LET forIt(t) == t.system = SystemOf[w] IN SelectInSeq(tasks, forIt)

Takes(w, type) ==
    /\ spc = "recv" /\ request[w].type = type
    /\ request' = [request EXCEPT ![w] = Nothing]

Answers(w, message) ==
    /\ reply' = IF wpc[w] = "gone" THEN reply ELSE [reply EXCEPT ![w] = message]
    /\ UNCHANGED <<wpc, job>>

\* Mutant of HandOutTask: the first task of the list is removed, whatever it is.
HandOutTaskRemovesHead(w) ==
    /\ Takes(w, "task") /\ FirstFor(w) # 0
    /\ Answers(w, [type |-> "task", task |-> tasks[FirstFor(w)]])
    /\ tasks' = Tail(tasks)
    /\ spc' = "check"
    /\ UNCHANGED <<toCompare, targetsDone, storing, stored, compared>>

HandOutTask(w) ==
    /\ Takes(w, "task") /\ FirstFor(w) # 0
    /\ Answers(w, [type |-> "task", task |-> tasks[FirstFor(w)]])
    /\ tasks' = RemoveAt(tasks, FirstFor(w))
    /\ spc' = "check"
    /\ UNCHANGED <<toCompare, targetsDone, storing, stored, compared>>

\* Mutant of HandOutCompare: the path stays in the list.
HandOutCompareKeeps(w, target) ==
    /\ Takes(w, "compare") /\ target \in toCompare
    /\ Answers(w, [type |-> "compare", target |-> target])
    /\ spc' = "check"
    /\ UNCHANGED <<tasks, toCompare, targetsDone, storing, stored, compared>>

\* targets is a Python set: the paths were put into the list in any order.
HandOutCompare(w, target) ==
    /\ Takes(w, "compare") /\ target \in toCompare
    /\ Answers(w, [type |-> "compare", target |-> target])
    /\ toCompare' = toCompare \ {target}
    /\ spc' = "check"
    /\ UNCHANGED <<tasks, targetsDone, storing, stored, compared>>

QueueEmpty(w) ==
    /\ \/ Takes(w, "task") /\ FirstFor(w) = 0
       \/ Takes(w, "compare") /\ toCompare = {}
    /\ Answers(w, [type |-> "queue_empty"])
    /\ spc' = "check"
    /\ UNCHANGED <<tasks, toCompare, targetsDone, storing, stored, compared>>

\* Mutant of TakeResult: a result is not acknowledged.
TakeResultSilently(w) ==
    /\ Takes(w, "result") \/ Takes(w, "compare_result")
    /\ storing' = request[w]
    /\ spc' = "store"
    /\ UNCHANGED <<reply, wpc, job, tasks, toCompare, targetsDone, stored, compared>>

\* The result is acknowledged before it is stored.
TakeResult(w) ==
    /\ Takes(w, "result") \/ Takes(w, "compare_result")
    /\ Answers(w, [type |-> "ack"])
    /\ storing' = request[w]
    /\ spc' = "store"
    /\ UNCHANGED <<tasks, toCompare, targetsDone, stored, compared>>

Store ==
    /\ spc = "store"
    /\ IF storing.type = "result"
       THEN stored' = stored \cup {storing.task} /\ UNCHANGED compared
       ELSE compared' = compared \cup {storing} /\ UNCHANGED stored
    /\ storing' = Nothing
    /\ spc' = "check"
    /\ UNCHANGED <<nodeVars, tasks, toCompare, targetsDone>>

\* KeyboardInterrupt in process_task or while storing
StopServer ==
    /\ spc \in {"recv", "store"}
    /\ spc' = "stopped"
    /\ UNCHANGED <<nodeVars, tasks, toCompare, targetsDone, storing, stored, compared>>

Serve(w) ==
    \/ HandOutTask(w) \/ \E target \in Target : HandOutCompare(w, target)
    \/ QueueEmpty(w) \/ TakeResult(w)
Server == CheckTasks \/ Store \/ \E w \in Node : Serve(w)

-----------------------------------------------------------------------------
(* TaskWorker.start *)

Move(w, from, to) == wpc[w] = from /\ wpc' = [wpc EXCEPT ![w] = to]
Sends(w, message) == request' = [request EXCEPT ![w] = message]

Ask(w) ==
    /\ Move(w, "ask", "wait")
    /\ Sends(w, [type |-> IF w \in Worker THEN "task" ELSE "compare"])
    /\ UNCHANGED <<serverVars, reply, job>>

Receives(w) == reply[w] # Nothing /\ reply' = [reply EXCEPT ![w] = Nothing]

GetTask(w) ==
    /\ Receives(w) /\ reply[w].type \in {"task", "compare"}
    /\ Move(w, "wait", "work")
    /\ job' = [job EXCEPT ![w] = reply[w]]
    /\ UNCHANGED <<serverVars, request>>

\* sleep(1), then the next request
GetNothing(w) ==
    /\ Receives(w) /\ reply[w].type = "queue_empty"
    /\ Move(w, "wait", "ask")
    /\ UNCHANGED <<serverVars, request, job>>

\* process_task waits for the target, which worker.py starts without -i: its loop
\* has no bound (main.c:74, minerva_loop.c:37), and may never end.
Running(w) == wpc[w] = "work" /\ job[w].type = "task"

\* The target has crashed or was killed; its result is sent, whatever its status.
RunTask(w) ==
    /\ job[w].type = "task" /\ Move(w, "work", "ack")
    /\ Sends(w, [type |-> "result", task |-> job[w].task])
    /\ job' = [job EXCEPT ![w] = Nothing]
    /\ UNCHANGED <<serverVars, reply>>

ResultsOf(target) == {t \in stored : t.target = target}
SeedsOf(target) == {t.seed : t \in ResultsOf(target)}

\* compare_dir lists the seeds of the directory, then the files of each.
ListSeeds(w) ==
    /\ job[w].type = "compare" /\ Move(w, "work", "read")
    /\ SeedsOf(job[w].target) # {}
    /\ job' = [job EXCEPT ![w] = [type |-> "compare", target |-> job[w].target,
                                  seeds |-> SeedsOf(job[w].target), seen |-> {}]]
    /\ UNCHANGED <<serverVars, request, reply>>

ReadSeed(w, s) ==
    /\ wpc[w] = "read" /\ s \in job[w].seeds
    /\ job' = [job EXCEPT ![w].seeds = @ \ {s},
                          ![w].seen = @ \cup
                              {t \in ResultsOf(job[w].target) : t.seed = s}]
    /\ UNCHANGED <<serverVars, request, reply, wpc>>

SendCompared(w) ==
    /\ Move(w, "read", "ack") /\ job[w].seeds = {}
    /\ Sends(w, [type |-> "compare_result", target |-> job[w].target,
                 seen |-> job[w].seen])
    /\ job' = [job EXCEPT ![w] = Nothing]
    /\ UNCHANGED <<serverVars, reply>>

\* No result has been stored: there is no directory to list, and listdir raises.
NoDirectory(w) ==
    /\ job[w].type = "compare" /\ Move(w, "work", "gone")
    /\ SeedsOf(job[w].target) = {}
    /\ UNCHANGED <<serverVars, request, reply, job>>

GetAck(w) ==
    /\ Receives(w) /\ Move(w, "ack", "ask")
    /\ UNCHANGED <<serverVars, request, job>>

\* The worker's process ends; a request the server has not taken may go with it.
WorkerDies(w) ==
    /\ Cardinality({v \in Node : wpc[v] = "gone"}) < MaxDeaths
    /\ wpc[w] # "gone" /\ wpc' = [wpc EXCEPT ![w] = "gone"]
    /\ reply' = [reply EXCEPT ![w] = Nothing]
    /\ job' = [job EXCEPT ![w] = Nothing]
    /\ \/ UNCHANGED request
       \/ request[w] # Nothing /\ request' = [request EXCEPT ![w] = Nothing]
    /\ UNCHANGED serverVars

Work(w) ==
    \/ Ask(w) \/ GetTask(w) \/ GetNothing(w)
    \/ RunTask(w)
    \/ ListSeeds(w) \/ (wpc[w] = "read" /\ \E s \in job[w].seeds : ReadSeed(w, s))
    \/ SendCompared(w) \/ NoDirectory(w) \/ GetAck(w)

QueueHalted == spc = "stopped" /\ UNCHANGED queueVars

QueueNext ==
    \/ Server \/ StopServer
    \/ \E w \in Node : Work(w) \/ WorkerDies(w)
    \/ QueueHalted

QueueSpec == QueueInit /\ [][QueueNext]_queueVars

\* The server and the workers go on, except that a target need not end; the REP
\* socket takes the requests of its peers in turn, so that none is passed over
\* for ever.
FairQueueSpec ==
    /\ QueueSpec
    /\ WF_queueVars(CheckTasks) /\ WF_queueVars(Store)
    /\ \A w \in Node : SF_queueVars(Serve(w)) /\ WF_queueVars(~Running(w) /\ Work(w))

-----------------------------------------------------------------------------
(* Properties *)

\* The state is well-formed and the sockets keep step: a worker that waits has
\* one request or one reply on the way, one that does not wait has none.
QueueTypeOK ==
    /\ tasks \in Seq(Task) /\ toCompare \subseteq targetsDone
    /\ targetsDone \subseteq Target /\ stored \subseteq Task
    /\ spc \in {"check", "recv", "store", "stopped"}
    /\ spc = "store" => storing # Nothing
    /\ \A w \in Node :
          IF wpc[w] \in {"wait", "ack"} THEN (request[w] = Nothing) # (reply[w] = Nothing)
          ELSE reply[w] = Nothing /\ (wpc[w] # "gone" => request[w] = Nothing)

\* Where a task is
With(w) ==
    {t \in Task : [type |-> "task", task |-> t] \in {reply[w], job[w]}
                \/ [type |-> "result", task |-> t] = request[w]}
Out == UNION {With(w) : w \in Worker}
BeingStored == IF storing.type = "result" THEN {storing.task} ELSE {}
Places == <<ToSet(tasks), Out, BeingStored, stored>>
Lost == Task \ UNION ToSet(Places)
Gone == {w \in Worker : wpc[w] = "gone"}

\* Each task is in one place: queued, with one worker, on its way to the file,
\* or stored; and a worker that dies takes no more than one task with it, although
\* the server strikes a task off when it hands it out (task.py:78-84).
TasksAccounted ==
    /\ IsInjective(tasks)
    /\ \A i, j \in DOMAIN Places : i # j => Places[i] \cap Places[j] = {}
    /\ \A v, w \in Worker : v # w => With(v) \cap With(w) = {}
    /\ Cardinality(Lost) <= Cardinality(Gone)

\* A comparison is made of all results of its target but one for each worker
\* that could take the task: it starts when the list of tasks is empty, which
\* does not mean that the results are there (server.py:71-76,
\* compare-worker.py:22-32).
ComparisonMissesFew ==
    \A c \in compared, s \in {t.system : t \in Task} :
        Cardinality({t \in Task : t.target = c.target /\ t.system = s} \ c.seen)
            <= Cardinality({w \in Worker : SystemOf[w] = s})

Comparing(target) ==
    LET about(m, type) == m.type = type /\ m.target = target
    IN  {w \in Comparer : \/ about(reply[w], "compare") \/ about(job[w], "compare")
                         \/ about(request[w], "compare_result")}

\* No target is compared by two workers, nor again when it has been compared
\* (task.py:86-93, server.py:71-76).
ComparedOnce ==
    \A target \in Target :
        /\ target \in toCompare => Comparing(target) = {}
        /\ Cardinality(Comparing(target)) <= 1
        /\ \A c \in compared :
              c.target = target => target \notin toCompare /\ Comparing(target) = {}

\* Every target that w starts ends: no assumption of the specification.
TargetsEnd(w) == []<>~Running(w)

\* As long as the server runs and no worker dies, every result arrives, unless the
\* task's own target runs for ever, or each worker that could take the task is
\* held by a target that does (worker.py:10-11).
ResultsArrive ==
    [](spc # "stopped" /\ Gone = {}) =>
        \A t \in Task :
            \/ <>(t \in stored)
            \/ \E w \in Worker : <>[](Running(w) /\ job[w].task = t)
            \/ \A w \in Worker : SystemOf[w] = t.system => ~TargetsEnd(w)

Uncompared == Target \ {c.target : c \in compared}
ComparersGone == {w \in Comparer : wpc[w] = "gone"}

\* As long as the server runs, no worker dies and each system keeps one whose
\* targets all end, so that the list of tasks gets empty (server.py:71), the
\* targets that are never compared are not more than the compare workers that are
\* gone, unless all of these are: one that asks before the first result is stored
\* finds no directory, dies, and takes the comparison with it
\* (compare-worker.py:22).
TargetsCompared ==
    /\ [](spc # "stopped" /\ Gone = {})
    /\ \A t \in Task : \E w \in Worker : SystemOf[w] = t.system /\ TargetsEnd(w)
    => <>(\/ ComparersGone = Comparer
          \/ Cardinality(Uncompared) <= Cardinality(ComparersGone))
=============================================================================
