-------------------------- MODULE TaskQueue_proofs --------------------------
(***************************************************************************)
(* Machine-checked proofs about TaskQueue: for every list of tasks, every  *)
(* set of workers and every number of workers that die.                    *)
(***************************************************************************)
EXTENDS TaskQueue, SeqLemmas

-----------------------------------------------------------------------------
(* The inductive invariant: messages *)

TaskMsgs == [type : {"task"}, task : Task]
ResultMsgs == [type : {"result"}, task : Task]
CompareMsgs == [type : {"compare"}, target : Target]
ListedMsgs ==
    [type : {"compare"}, target : Target,
     seeds : SUBSET {t.seed : t \in Task}, seen : SUBSET Task]
ComparedMsgs == [type : {"compare_result"}, target : Target, seen : SUBSET Task]

Quiet(w) == request[w] = Nothing /\ reply[w] = Nothing

\* A worker sends one request, and has nothing else to do until its reply is there.
WorkerStep(w) ==
    \/ wpc[w] = "ask" /\ Quiet(w) /\ job[w] = Nothing
    \/ /\ wpc[w] = "wait" /\ job[w] = Nothing
       /\ \/ request[w] = [type |-> "task"] /\ reply[w] = Nothing
          \/ request[w] = Nothing /\ reply[w] \in TaskMsgs \cup {[type |-> "queue_empty"]}
    \/ wpc[w] = "work" /\ Quiet(w) /\ job[w] \in TaskMsgs
    \/ /\ wpc[w] = "ack" /\ job[w] = Nothing
       /\ \/ request[w] \in ResultMsgs /\ reply[w] = Nothing
          \/ request[w] = Nothing /\ reply[w] = [type |-> "ack"]
    \/ /\ wpc[w] = "gone" /\ reply[w] = Nothing /\ job[w] = Nothing
       /\ request[w] \in ResultMsgs \cup {Nothing, [type |-> "task"]}

\* So does a compare worker.
ComparerStep(w) ==
    \/ wpc[w] = "ask" /\ Quiet(w) /\ job[w] = Nothing
    \/ /\ wpc[w] = "wait" /\ job[w] = Nothing
       /\ \/ request[w] = [type |-> "compare"] /\ reply[w] = Nothing
          \/ request[w] = Nothing /\ reply[w] \in CompareMsgs \cup {[type |-> "queue_empty"]}
    \/ wpc[w] = "work" /\ Quiet(w) /\ job[w] \in CompareMsgs
    \/ wpc[w] = "read" /\ Quiet(w) /\ job[w] \in ListedMsgs
    \/ /\ wpc[w] = "ack" /\ job[w] = Nothing
       /\ \/ request[w] \in ComparedMsgs /\ reply[w] = Nothing
          \/ request[w] = Nothing /\ reply[w] = [type |-> "ack"]
    \/ /\ wpc[w] = "gone" /\ reply[w] = Nothing
       /\ \/ request[w] \in ComparedMsgs \cup {[type |-> "compare"]} /\ job[w] = Nothing
          \/ request[w] = Nothing /\ job[w] \in CompareMsgs \cup {Nothing}

Steps ==
    /\ DOMAIN request = Node /\ DOMAIN reply = Node /\ DOMAIN wpc = Node /\ DOMAIN job = Node
    /\ \A w \in Worker : WorkerStep(w)
    /\ \A w \in Comparer : ComparerStep(w)

ServerStep ==
    /\ tasks \in Seq(Task) /\ toCompare \subseteq targetsDone /\ targetsDone \subseteq Target
    /\ stored \subseteq Task /\ compared \subseteq ComparedMsgs
    /\ storing \in ResultMsgs \cup ComparedMsgs \cup {Nothing}
    /\ spc \in {"check", "recv", "store", "stopped"}
    /\ spc \in {"check", "recv"} => storing = Nothing
    /\ spc = "store" => storing # Nothing
    /\ targetsDone # {} => tasks = <<>>

-----------------------------------------------------------------------------
(* The inductive invariant: tasks *)

Outstanding == Task \ (stored \cup ToSet(tasks))

Apart ==
    /\ IsInjective(tasks) /\ stored \cap ToSet(tasks) = {}
    /\ \A w \in Worker : With(w) \subseteq Outstanding \ BeingStored
    /\ BeingStored \subseteq Outstanding

\* Every task that has been handed out and is not stored was taken by a worker
\* of its system, and no two by the same.  A task that is nowhere was taken by a
\* worker that is gone and has no request left.
Took(taker) ==
    /\ \A t \in Outstanding : taker[t] \in Worker /\ SystemOf[taker[t]] = t.system
    /\ \A t, u \in Outstanding : taker[t] = taker[u] => t = u
    /\ \A w \in Worker : \A t \in With(w) : taker[t] = w
    /\ \A t \in Outstanding : t \notin Out /\ t \notin BeingStored =>
          wpc[taker[t]] = "gone" /\ request[taker[t]] = Nothing
Takers == \E taker \in [Outstanding -> Worker] : Took(taker)

TaskInv == Apart /\ Takers

-----------------------------------------------------------------------------
(* The inductive invariant: comparisons *)

\* Each task in S was taken by another worker of its system.
Coverable(S) ==
    \E taker \in [S -> Worker] :
        /\ \A t \in S : SystemOf[taker[t]] = t.system
        /\ \A t, u \in S : taker[t] = taker[u] => t = u

About(target) == {t \in Task : t.target = target}
Unstored == Task \ stored

\* What a comparison that is under way has missed so far, and may still miss
Misses ==
    /\ \A w \in Comparer : wpc[w] = "read" =>
          Coverable(Unstored \cup {t \in About(job[w].target) \ job[w].seen :
                                      t.seed \notin job[w].seeds})
    /\ \A c \in compared \cup ({storing} \cap ComparedMsgs)
             \cup ({request[w] : w \in Comparer} \cap ComparedMsgs) :
          Coverable(About(c.target) \ c.seen)

\* A target is to be compared, being compared by one worker, or compared.
Comparisons ==
    /\ \A target \in Target :
          /\ target \in toCompare => Comparing(target) = {}
          /\ \A v, w \in Comparing(target) : v = w
          /\ Comparing(target) # {} => target \in targetsDone
    /\ \A c \in compared \cup ({storing} \cap ComparedMsgs) :
          /\ c.target \in targetsDone \ toCompare
          /\ Comparing(c.target) = {}

QueueInv == Steps /\ ServerStep /\ TaskInv /\ Misses /\ Comparisons

-----------------------------------------------------------------------------
(* The messages of one node *)

Words == {Nothing, [type |-> "task"], [type |-> "compare"], [type |-> "queue_empty"],
          [type |-> "ack"]}

\* The tasks in a reply p, a job j and a request q
Carried(p, j, q) ==
    {t \in Task : [type |-> "task", task |-> t] \in {p, j} \/ [type |-> "result", task |-> t] = q}

\* A reply p, a job j or a request q is about the comparison of g.
Doing(p, j, q, g) ==
    \/ p.type = "compare" /\ p.target = g
    \/ j.type = "compare" /\ j.target = g
    \/ q.type = "compare_result" /\ q.target = g

\* What the messages of a kind have in common
LEMMA MessageKinds ==
    /\ \A m \in TaskMsgs : m.type = "task" /\ m.task \in Task /\ m = [type |-> "task", task |-> m.task]
    /\ \A m \in ResultMsgs : m.type = "result" /\ m.task \in Task /\ m = [type |-> "result", task |-> m.task]
    /\ \A m \in CompareMsgs : m.type = "compare" /\ m.target \in Target
    /\ \A m \in ListedMsgs :
          /\ m.type = "compare" /\ m.target \in Target
          /\ m.seen \subseteq Task /\ m.seeds \subseteq {t.seed : t \in Task}
    /\ \A m \in ComparedMsgs :
          m.type = "compare_result" /\ m.target \in Target /\ m.seen \subseteq Task
    /\ Nothing.type = "nothing"
  BY DEF TaskMsgs, ResultMsgs, CompareMsgs, ListedMsgs, ComparedMsgs, Nothing

\* Which tasks a node's messages carry
LEMMA CarriedBy ==
    /\ \A p, j, q \in Words : Carried(p, j, q) = {}
    /\ \A m \in TaskMsgs : \A i, q \in Words :
          Carried(m, i, q) = {m.task} /\ Carried(i, m, q) = {m.task}
    /\ \A m \in ResultMsgs : \A p, j \in Words : Carried(p, j, m) = {m.task}
  <1>1. \A t, m : m \in Words => m # [type |-> "task", task |-> t] /\ m # [type |-> "result", task |-> t]
    BY DEF Words, Nothing
  <1>2. \A p, j, q \in Words : Carried(p, j, q) = {}
    BY <1>1 DEF Carried
  <1>3. ASSUME NEW m \in TaskMsgs, NEW i \in Words, NEW q \in Words
        PROVE  Carried(m, i, q) = {m.task} /\ Carried(i, m, q) = {m.task}
    <2>1. m.task \in Task /\ \A t : [type |-> "task", task |-> t] = m <=> t = m.task
      BY DEF TaskMsgs
    <2> QED BY <1>1, <2>1 DEF Carried
  <1>4. ASSUME NEW m \in ResultMsgs, NEW p \in Words, NEW j \in Words
        PROVE  Carried(p, j, m) = {m.task}
    <2>1. m.task \in Task /\ \A t : [type |-> "result", task |-> t] = m <=> t = m.task
      BY DEF ResultMsgs
    <2> QED BY <1>1, <2>1 DEF Carried
  <1> QED BY <1>2, <1>3, <1>4

\* With and Comparing look at the messages of a node only.
LEMMA NodeMessages ==
    /\ \A w : With(w) = Carried(reply[w], job[w], request[w])
    /\ \A g : Comparing(g) = {w \in Comparer : Doing(reply[w], job[w], request[w], g)}
  BY DEF With, Carried, Comparing, Doing

-----------------------------------------------------------------------------
(* Steps of one node *)

OthersKeep(w) ==
    /\ DOMAIN request' = Node /\ DOMAIN reply' = Node
    /\ DOMAIN wpc' = Node /\ DOMAIN job' = Node
    /\ \A v \in Node : v # w =>
          request'[v] = request[v] /\ reply'[v] = reply[v] /\ wpc'[v] = wpc[v] /\ job'[v] = job[v]

\* A step of a node, and an answer to it, leave the other nodes alone.
LEMMA OneNode ==
    ASSUME Steps, NEW w \in Node, Work(w) \/ WorkerDies(w) \/ Serve(w)
    PROVE  OthersKeep(w)
  <1> USE DEF Steps, OthersKeep
  <1>1. CASE Ask(w)
    BY <1>1 DEF Ask, Move, Sends
  <1>2. CASE GetTask(w) \/ GetNothing(w) \/ GetAck(w)
    BY <1>2 DEF GetTask, GetNothing, GetAck, Receives, Move
  <1>3. CASE RunTask(w) \/ SendCompared(w)
    BY <1>3 DEF RunTask, SendCompared, Move, Sends
  <1>4. CASE ListSeeds(w) \/ NoDirectory(w)
    BY <1>4 DEF ListSeeds, NoDirectory, Move
  <1>5. ASSUME NEW s, ReadSeed(w, s) PROVE OthersKeep(w)
    BY <1>5 DEF ReadSeed
  <1>6. CASE WorkerDies(w)
    BY <1>6 DEF WorkerDies
  <1>7. CASE HandOutTask(w) \/ QueueEmpty(w) \/ TakeResult(w)
    BY <1>7 DEF HandOutTask, QueueEmpty, TakeResult, Takes, Answers
  <1>8. ASSUME NEW g, HandOutCompare(w, g) PROVE OthersKeep(w)
    BY <1>8 DEF HandOutCompare, Takes, Answers
  <1> QED
    BY <1>1, <1>2, <1>3, <1>4, <1>5, <1>6, <1>7, <1>8 DEF Work, Serve

\* The tasks with w move on or are gone with w.
Hands(w) ==
    /\ With(w)' \subseteq With(w)
    /\ \A t \in With(w) \ With(w)' : wpc'[w] = "gone" /\ request'[w] = Nothing

\* A worker goes through its steps and keeps its task, until it dies.
LEMMA WorkerGoesOn ==
    ASSUME Steps, NEW w \in Worker, Work(w) \/ WorkerDies(w)
    PROVE  WorkerStep(w)' /\ Hands(w) /\ wpc[w] # "gone"
  <1>0. /\ w \in Node /\ WorkerStep(w)
        /\ With(w) = Carried(reply[w], job[w], request[w])
        /\ With(w)' = Carried(reply'[w], job'[w], request'[w])
    BY DEF Node, Steps, With, Carried
  <1>w. /\ Nothing \in Words /\ [type |-> "task"] \in Words
        /\ [type |-> "queue_empty"] \in Words /\ [type |-> "ack"] \in Words
    BY DEF Words
  <1>d. DOMAIN request = Node /\ DOMAIN reply = Node /\ DOMAIN wpc = Node /\ DOMAIN job = Node
    BY DEF Steps
  <1>t. /\ \A m \in TaskMsgs : m.type = "task"
        /\ \A m \in ResultMsgs : m.type = "result"
        /\ Nothing.type = "nothing" /\ Nothing \notin TaskMsgs
    BY MessageKinds
  <1>1. CASE Ask(w)
    <2>1. /\ wpc[w] = "ask" /\ wpc'[w] = "wait" /\ reply'[w] = reply[w] /\ job'[w] = job[w]
          /\ request'[w] = [type |-> "task"]
      BY <1>1, <1>0, <1>d DEF Ask, Move, Sends
    <2>2. reply[w] = Nothing /\ job[w] = Nothing /\ request[w] = Nothing
      BY <1>0, <2>1 DEF WorkerStep, Quiet
    <2>3. With(w) = {} /\ With(w)' = {}
      BY <1>0, <1>w, <2>1, <2>2, CarriedBy
    <2> QED BY <2>1, <2>2, <2>3 DEF WorkerStep, Hands
  <1>2. CASE GetTask(w)
    <2>1. /\ wpc[w] = "wait" /\ wpc'[w] = "work" /\ reply'[w] = Nothing /\ job'[w] = reply[w]
          /\ request'[w] = request[w] /\ reply[w].type \in {"task", "compare"}
          /\ reply[w] # Nothing
      BY <1>2, <1>0, <1>d DEF GetTask, Move, Receives
    <2>2. reply[w] \in TaskMsgs /\ job[w] = Nothing /\ request[w] = Nothing
      BY <1>0, <2>1 DEF WorkerStep
    <2>3. With(w) = {reply[w].task} /\ With(w)' = {reply[w].task}
      BY <1>0, <1>w, <2>1, <2>2, CarriedBy
    <2> QED BY <2>1, <2>2, <2>3 DEF WorkerStep, Hands, Quiet
  <1>3. CASE GetNothing(w)
    <2>1. /\ wpc[w] = "wait" /\ wpc'[w] = "ask" /\ reply'[w] = Nothing /\ job'[w] = job[w]
          /\ request'[w] = request[w] /\ reply[w].type = "queue_empty"
      BY <1>3, <1>0, <1>d DEF GetNothing, Move, Receives
    <2>2. reply[w] = [type |-> "queue_empty"] /\ job[w] = Nothing /\ request[w] = Nothing
      BY <1>0, <1>t, <2>1 DEF WorkerStep
    <2>3. With(w) = {} /\ With(w)' = {}
      BY <1>0, <1>w, <2>1, <2>2, CarriedBy
    <2> QED BY <2>1, <2>2, <2>3 DEF WorkerStep, Hands, Quiet
  <1>4. CASE RunTask(w)
    <2>1. /\ wpc[w] = "work" /\ wpc'[w] = "ack" /\ reply'[w] = reply[w] /\ job'[w] = Nothing
          /\ request'[w] = [type |-> "result", task |-> job[w].task]
      BY <1>4, <1>0, <1>d DEF RunTask, Move, Sends
    <2>2. reply[w] = Nothing /\ job[w] \in TaskMsgs /\ request[w] = Nothing
      BY <1>0, <2>1 DEF WorkerStep, Quiet
    <2>3. request'[w] \in ResultMsgs /\ request'[w].task = job[w].task
      BY <2>1, <2>2, MessageKinds DEF ResultMsgs
    <2>4. With(w) = {job[w].task} /\ With(w)' = {job[w].task}
      BY <1>0, <1>w, <2>1, <2>2, <2>3, CarriedBy
    <2> QED BY <2>1, <2>2, <2>3, <2>4 DEF WorkerStep, Hands
  <1>5. CASE GetAck(w)
    <2>1. /\ wpc[w] = "ack" /\ wpc'[w] = "ask" /\ reply'[w] = Nothing /\ job'[w] = job[w]
          /\ request'[w] = request[w] /\ reply[w] # Nothing
      BY <1>5, <1>0, <1>d DEF GetAck, Move, Receives
    <2>2. reply[w] = [type |-> "ack"] /\ job[w] = Nothing /\ request[w] = Nothing
      BY <1>0, <2>1 DEF WorkerStep
    <2>3. With(w) = {} /\ With(w)' = {}
      BY <1>0, <1>w, <2>1, <2>2, CarriedBy
    <2> QED BY <2>1, <2>2, <2>3 DEF WorkerStep, Hands, Quiet
  <1>6. CASE WorkerDies(w)
    <2>1. /\ wpc[w] # "gone" /\ wpc'[w] = "gone" /\ reply'[w] = Nothing /\ job'[w] = Nothing
          /\ request'[w] \in {request[w], Nothing}
      BY <1>6, <1>0, <1>d DEF WorkerDies
    <2>2. CASE request[w] \in {Nothing, [type |-> "task"]}
      <3>1. With(w)' = {}
        BY <1>0, <1>w, <2>1, <2>2, CarriedBy
      <3>2. request[w] # Nothing => With(w) = {}
        BY <1>0, <1>w, <1>t, <2>1, <2>2, CarriedBy, MessageKinds DEF WorkerStep, Quiet, Nothing
      <3>3. \A t \in With(w) \ With(w)' : wpc'[w] = "gone" /\ request'[w] = Nothing
        BY <2>1, <2>2, <3>2
      <3> QED BY <2>1, <2>2, <3>1, <3>3 DEF WorkerStep, Hands
    <2>3. CASE request[w] \in ResultMsgs
      <3>1. With(w) = {request[w].task}
        BY <1>0, <1>w, <1>t, <2>1, <2>3, CarriedBy DEF WorkerStep, Quiet, Nothing
      <3>2. request'[w] = Nothing => With(w)' = {}
        BY <1>0, <1>w, <2>1, CarriedBy
      <3>3. request'[w] = request[w] => With(w)' = {request[w].task}
        BY <1>0, <1>w, <2>1, <2>3, CarriedBy
      <3> QED BY <2>1, <2>3, <3>1, <3>2, <3>3 DEF WorkerStep, Hands
    <2>4. request[w] \in ResultMsgs \cup {Nothing, [type |-> "task"]}
      BY <1>0 DEF WorkerStep, Quiet
    <2> QED BY <2>2, <2>3, <2>4
  <1>7. ~ ListSeeds(w) /\ wpc[w] # "read" /\ ~ SendCompared(w) /\ ~ NoDirectory(w)
    <2>1. wpc[w] # "read" /\ (wpc[w] = "work" => job[w] \in TaskMsgs)
      BY <1>0 DEF WorkerStep
    <2> QED BY <2>1, <1>t DEF ListSeeds, SendCompared, NoDirectory, Move
  <1>8. wpc[w] # "gone"
    BY <1>1, <1>2, <1>3, <1>4, <1>5, <1>6, <1>7
    DEF Work, WorkerDies, Ask, GetTask, GetNothing, RunTask, GetAck, Move
  <1> QED
    BY <1>1, <1>2, <1>3, <1>4, <1>5, <1>6, <1>7, <1>8 DEF Work

\* What a compare worker asks for, does or reports is no task, and it starts no
\* comparison that it has not been given.
Reads(w) ==
    \A g : Doing(reply'[w], job'[w], request'[w], g) => Doing(reply[w], job[w], request[w], g)

\* A compare worker goes through its steps and keeps its comparison.
LEMMA ComparerGoesOn ==
    ASSUME Steps, stored \subseteq Task, stored' = stored,
           NEW w \in Comparer, Work(w) \/ WorkerDies(w)
    PROVE  ComparerStep(w)' /\ Reads(w)
  <1>0. w \in Node /\ w \notin Worker /\ ComparerStep(w)
    BY QueueConstants DEF Node, Steps
  <1>d. DOMAIN request = Node /\ DOMAIN reply = Node /\ DOMAIN wpc = Node /\ DOMAIN job = Node
    BY DEF Steps
  <1>t. /\ \A m \in CompareMsgs \cup ListedMsgs : m.type = "compare"
        /\ \A m \in ComparedMsgs : m.type = "compare_result"
        /\ Nothing.type = "nothing" /\ Nothing \notin CompareMsgs
    BY MessageKinds
  <1>1. CASE Ask(w)
    <2>1. /\ wpc[w] = "ask" /\ wpc'[w] = "wait" /\ reply'[w] = reply[w] /\ job'[w] = job[w]
          /\ request'[w] = [type |-> "compare"]
      BY <1>1, <1>0, <1>d DEF Ask, Move, Sends
    <2>2. reply[w] = Nothing /\ job[w] = Nothing
      BY <1>0, <2>1 DEF ComparerStep, Quiet
    <2> QED BY <2>1, <2>2, <1>t DEF ComparerStep, Reads, Doing
  <1>2. CASE GetTask(w)
    <2>1. /\ wpc[w] = "wait" /\ wpc'[w] = "work" /\ reply'[w] = Nothing /\ job'[w] = reply[w]
          /\ request'[w] = request[w] /\ reply[w].type \in {"task", "compare"}
          /\ reply[w] # Nothing
      BY <1>2, <1>0, <1>d DEF GetTask, Move, Receives
    <2>2. reply[w] \in CompareMsgs /\ request[w] = Nothing
      BY <1>0, <2>1 DEF ComparerStep
    <2> QED BY <2>1, <2>2, <1>t DEF ComparerStep, Reads, Doing, Quiet
  <1>3. CASE GetNothing(w)
    <2>1. /\ wpc[w] = "wait" /\ wpc'[w] = "ask" /\ reply'[w] = Nothing /\ job'[w] = job[w]
          /\ request'[w] = request[w] /\ reply[w].type = "queue_empty"
      BY <1>3, <1>0, <1>d DEF GetNothing, Move, Receives
    <2>2. job[w] = Nothing /\ request[w] = Nothing
      BY <1>0, <1>t, <2>1 DEF ComparerStep
    <2> QED BY <2>1, <2>2, <1>t DEF ComparerStep, Reads, Doing, Quiet
  <1>4. CASE ListSeeds(w)
    <2> DEFINE g == job[w].target
               S == SeedsOf(g)
    <2>1. /\ wpc[w] = "work" /\ wpc'[w] = "read" /\ reply'[w] = reply[w]
          /\ request'[w] = request[w]
          /\ job'[w] = [type |-> "compare", target |-> g, seeds |-> S, seen |-> {}]
      BY <1>4, <1>0, <1>d DEF ListSeeds, Move
    <2>2. Quiet(w) /\ job[w] \in CompareMsgs
      BY <1>0, <2>1 DEF ComparerStep
    <2>3. S \subseteq {t.seed : t \in Task} /\ g \in Target
      BY <2>2, MessageKinds DEF SeedsOf, ResultsOf
    <2> HIDE DEF S
    <2>4. job'[w] \in ListedMsgs
      BY <2>1, <2>3 DEF ListedMsgs
    <2>5. job'[w].type = "compare" /\ job'[w].target = job[w].target /\ job[w].type = "compare"
      BY <2>1, <2>2, <1>t
    <2>6. Reads(w)
      BY <2>1, <2>5 DEF Reads, Doing
    <2> QED BY <2>1, <2>2, <2>4, <2>6 DEF ComparerStep, Quiet
  <1>5. ASSUME wpc[w] = "read", NEW s \in job[w].seeds, ReadSeed(w, s)
        PROVE  ComparerStep(w)' /\ Reads(w)
    <2> DEFINE more == {t \in ResultsOf(job[w].target) : t.seed = s}
               left == job[w].seeds \ {s}
               seen == job[w].seen \cup more
    <2>1. Quiet(w) /\ job[w] \in ListedMsgs
      BY <1>0, <1>5 DEF ComparerStep
    <2>2. /\ wpc'[w] = "read" /\ reply'[w] = reply[w] /\ request'[w] = request[w]
          /\ job'[w] = [[job[w] EXCEPT !.seeds = left] EXCEPT !.seen = seen]
      BY <1>5, <1>0, <1>d, <2>1 DEF ReadSeed, ListedMsgs
    <2>3. left \subseteq {t.seed : t \in Task} /\ seen \subseteq Task
      BY <2>1, MessageKinds DEF ResultsOf
    <2> HIDE DEF left, seen
    <2>4. job'[w] \in ListedMsgs /\ job'[w].target = job[w].target
      BY <2>1, <2>2, <2>3 DEF ListedMsgs
    <2>5. Reads(w)
      BY <2>1, <2>2, <2>4, <1>t DEF Reads, Doing
    <2> QED BY <2>1, <2>2, <2>4, <2>5 DEF ComparerStep, Quiet
  <1>6. CASE SendCompared(w)
    <2>1. /\ wpc[w] = "read" /\ wpc'[w] = "ack" /\ reply'[w] = reply[w] /\ job'[w] = Nothing
          /\ request'[w] = [type |-> "compare_result", target |-> job[w].target,
                            seen |-> job[w].seen]
      BY <1>6, <1>0, <1>d DEF SendCompared, Move, Sends
    <2>2. Quiet(w) /\ job[w] \in ListedMsgs
      BY <1>0, <2>1 DEF ComparerStep
    <2>3. request'[w] \in ComparedMsgs /\ request'[w].target = job[w].target
      BY <2>1, <2>2, MessageKinds DEF ComparedMsgs
    <2> QED BY <2>1, <2>2, <2>3, <1>t DEF ComparerStep, Reads, Doing, Quiet
  <1>7. CASE NoDirectory(w)
    <2>1. /\ wpc[w] = "work" /\ wpc'[w] = "gone" /\ reply'[w] = reply[w] /\ job'[w] = job[w]
          /\ request'[w] = request[w]
      BY <1>7, <1>0, <1>d DEF NoDirectory, Move
    <2> QED BY <1>0, <2>1 DEF ComparerStep, Reads, Doing, Quiet
  <1>8. CASE GetAck(w)
    <2>1. /\ wpc[w] = "ack" /\ wpc'[w] = "ask" /\ reply'[w] = Nothing /\ job'[w] = job[w]
          /\ request'[w] = request[w] /\ reply[w] # Nothing
      BY <1>8, <1>0, <1>d DEF GetAck, Move, Receives
    <2>2. job[w] = Nothing /\ request[w] = Nothing
      BY <1>0, <2>1 DEF ComparerStep
    <2> QED BY <2>1, <2>2, <1>t DEF ComparerStep, Reads, Doing, Quiet
  <1>9. CASE WorkerDies(w)
    <2>1. /\ wpc[w] # "gone" /\ wpc'[w] = "gone" /\ reply'[w] = Nothing /\ job'[w] = Nothing
          /\ request'[w] \in {request[w], Nothing}
      BY <1>9, <1>0, <1>d DEF WorkerDies
    <2>2. request[w] \in ComparedMsgs \cup {Nothing, [type |-> "compare"]}
      BY <1>0 DEF ComparerStep, Quiet
    <2>3. Reads(w)
      BY <2>1, <1>t DEF Reads, Doing
    <2> QED BY <2>1, <2>2, <2>3 DEF ComparerStep
  <1>10. ~ RunTask(w)
    <2>1. wpc[w] = "work" => job[w] \in CompareMsgs
      BY <1>0 DEF ComparerStep
    <2> QED BY <2>1, <1>t DEF RunTask, Move
  <1> QED
    BY <1>1, <1>2, <1>3, <1>4, <1>5, <1>6, <1>7, <1>8, <1>9, <1>10 DEF Work

-----------------------------------------------------------------------------
(* Steps that leave a part of the invariant alone *)

\* The other nodes' steps are as before.
LEMMA StepsStay ==
    ASSUME Steps, NEW w \in Node, OthersKeep(w),
           w \in Worker => WorkerStep(w)', w \in Comparer => ComparerStep(w)'
    PROVE  Steps'
  <1>1. ASSUME NEW v \in Worker PROVE WorkerStep(v)'
    <2>1. CASE v # w
      BY <2>1 DEF Steps, OthersKeep, WorkerStep, Quiet, Node
    <2> QED BY <2>1
  <1>2. ASSUME NEW v \in Comparer PROVE ComparerStep(v)'
    <2>1. CASE v # w
      BY <2>1 DEF Steps, OthersKeep, ComparerStep, Quiet, Node
    <2> QED BY <2>1
  <1> QED
    BY <1>1, <1>2 DEF Steps, OthersKeep

\* The takers stay who they are when a task moves from one place to the next, or
\* goes with a worker that is gone.
LEMMA TakersStay ==
    ASSUME Takers, Outstanding' \subseteq Outstanding,
           \A v \in Worker : With(v)' \subseteq With(v) \cap Outstanding',
           \A v \in Worker : wpc[v] = "gone" /\ request[v] = Nothing =>
               wpc'[v] = "gone" /\ request'[v] = Nothing,
           \A t \in Outstanding' : t \in BeingStored => t \in BeingStored',
           \A v \in Worker : \A t \in Outstanding' : t \in With(v) /\ t \notin With(v)' =>
               t \in BeingStored' \/ (wpc'[v] = "gone" /\ request'[v] = Nothing)
    PROVE  Takers'
  <1>1. PICK taker \in [Outstanding -> Worker] : Took(taker)
    BY DEF Takers
  <1>2. PICK f \in [Outstanding' -> Worker] : \A t \in Outstanding' : f[t] = taker[t]
    <2> DEFINE g == [t \in Outstanding' |-> taker[t]]
    <2>1. g \in [Outstanding' -> Worker] /\ \A t \in Outstanding' : g[t] = taker[t]
      OBVIOUS
    <2> QED BY <2>1, Zenon
  <1>3. \A t \in Outstanding' : f[t] \in Worker /\ SystemOf[f[t]] = t.system
    BY <1>1, <1>2 DEF Took
  <1>4. \A t, u \in Outstanding' : f[t] = f[u] => t = u
    BY <1>1, <1>2 DEF Took
  <1>5. \A w \in Worker : \A t \in With(w)' : f[t] = w
    BY <1>1, <1>2 DEF Took
  <1>6. ASSUME NEW t \in Outstanding', t \notin Out', t \notin BeingStored'
        PROVE  wpc'[f[t]] = "gone" /\ request'[f[t]] = Nothing
    <2>1. \A v \in Worker : t \notin With(v)'
      BY <1>6 DEF Out
    <2>2. CASE t \in Out
      <3>1. PICK v \in Worker : t \in With(v)
        BY <2>2 DEF Out
      <3>2. f[t] = v
        BY <1>1, <1>2, <3>1 DEF Took
      <3> QED BY <1>6, <2>1, <3>1, <3>2
    <2>3. CASE t \notin Out
      <3>1. t \notin BeingStored
        BY <1>6
      <3>2. wpc[taker[t]] = "gone" /\ request[taker[t]] = Nothing /\ taker[t] \in Worker
        BY <1>1, <2>3, <3>1 DEF Took
      <3> QED BY <1>2, <3>2
    <2> QED BY <2>2, <2>3
  <1>7. Took(f)'
    BY <1>3, <1>4, <1>5, <1>6 DEF Took
  <1> QED
    BY <1>2, <1>7 DEF Takers

\* A step that touches no task with a worker, in the list or on its way
LEMMA TasksStay ==
    ASSUME TaskInv, tasks' = tasks, stored' = stored, storing' = storing,
           \A v \in Worker : With(v)' \subseteq With(v),
           \A v \in Worker : wpc[v] = "gone" /\ request[v] = Nothing =>
               wpc'[v] = "gone" /\ request'[v] = Nothing,
           \A v \in Worker : \A t \in With(v) \ With(v)' :
               wpc'[v] = "gone" /\ request'[v] = Nothing
    PROVE  TaskInv'
  <1>1. Outstanding' = Outstanding /\ BeingStored' = BeingStored
    BY DEF Outstanding, BeingStored
  <1>2. Apart'
    BY <1>1 DEF TaskInv, Apart
  <1>3. \A v \in Worker : With(v)' \subseteq With(v) \cap Outstanding'
    BY <1>1 DEF TaskInv, Apart
  <1>4. Takers'
    BY <1>1, <1>3, TakersStay DEF TaskInv
  <1> QED
    BY <1>2, <1>4 DEF TaskInv

\* What is part of a coverable set is coverable.
LEMMA CoverablePart ==
    ASSUME NEW S, Coverable(S), NEW T \in SUBSET S
    PROVE  Coverable(T)
  <1>1. PICK taker \in [S -> Worker] :
            /\ \A t \in S : SystemOf[taker[t]] = t.system
            /\ \A t, u \in S : taker[t] = taker[u] => t = u
    BY DEF Coverable
  <1> DEFINE f == [t \in T |-> taker[t]]
  <1>2. f \in [T -> Worker] /\ \A t \in T : f[t] = taker[t]
    OBVIOUS
  <1> HIDE DEF f
  <1> QED
    BY <1>1, <1>2 DEF Coverable

\* The comparisons that have been made or reported
Made ==
    compared \cup ({storing} \cap ComparedMsgs)
             \cup ({request[w] : w \in Comparer} \cap ComparedMsgs)

\* A step that neither begins nor continues a comparison
LEMMA MissesStay ==
    ASSUME Misses, stored \subseteq stored',
           \A v \in Comparer : wpc'[v] = "read" => wpc[v] = "read" /\ job'[v] = job[v],
           Made' \subseteq Made
    PROVE  Misses'
  <1>1. ASSUME NEW v \in Comparer, wpc'[v] = "read"
        PROVE  Coverable(Unstored' \cup {t \in About(job'[v].target) \ job'[v].seen :
                                             t.seed \notin job'[v].seeds})
    <2> DEFINE S == Unstored \cup {t \in About(job[v].target) \ job[v].seen :
                                             t.seed \notin job[v].seeds}
               T == Unstored' \cup {t \in About(job'[v].target) \ job'[v].seen :
                                             t.seed \notin job'[v].seeds}
    <2>1. Coverable(S)
      BY <1>1 DEF Misses
    <2>2. T \subseteq S
      BY <1>1 DEF Unstored
    <2> HIDE DEF S, T
    <2>3. Coverable(T)
      BY <2>1, <2>2, CoverablePart
    <2> QED BY <2>3 DEF T
  <1>2. \A c \in Made' : Coverable(About(c.target) \ c.seen)
    BY DEF Misses, Made
  <1> QED
    BY <1>1, <1>2 DEF Misses, Made, Unstored, About, Coverable

\* A step that hands out no comparison and stores none
LEMMA ComparisonsStay ==
    ASSUME Comparisons, toCompare' = toCompare, targetsDone' = targetsDone,
           compared' = compared, storing' = storing,
           \A v \in Comparer : Reads(v)
    PROVE  Comparisons'
  <1>1. ASSUME NEW g PROVE Comparing(g)' \subseteq Comparing(g)
    BY DEF Reads, Comparing, Doing
  <1>2. ASSUME NEW g \in Target
        PROVE  /\ g \in toCompare' => Comparing(g)' = {}
               /\ \A v, w \in Comparing(g)' : v = w
               /\ Comparing(g)' # {} => g \in targetsDone'
    BY <1>1 DEF Comparisons
  <1>3. ASSUME NEW c \in compared' \cup ({storing'} \cap ComparedMsgs)
        PROVE  c.target \in targetsDone' \ toCompare' /\ Comparing(c.target)' = {}
    BY <1>1 DEF Comparisons
  <1> QED
    BY <1>2, <1>3 DEF Comparisons

-----------------------------------------------------------------------------
(* The nodes' steps keep the invariant *)

\* The other workers have what they had.
LEMMA OthersHave ==
    ASSUME NEW w \in Node, OthersKeep(w), NEW v \in Node, v # w
    PROVE  With(v)' = With(v) /\ Reads(v)
  BY DEF With, OthersKeep, Reads

\* The server's variables are all that this part is about.
LEMMA ServerStays ==
    ASSUME ServerStep, UNCHANGED serverVars
    PROVE  ServerStep'
  BY DEF ServerStep, serverVars

\* A step of a worker
LEMMA WorkerKeeps ==
    ASSUME QueueInv, NEW w \in Worker, Work(w) \/ WorkerDies(w)
    PROVE  QueueInv'
  <1>0. w \in Node /\ w \notin Comparer /\ \A v \in Comparer : v \in Node /\ v # w
    BY QueueConstants DEF Node
  <1>1. UNCHANGED serverVars
    BY DEF Work, WorkerDies, Ask, GetTask, GetNothing, RunTask, ListSeeds, ReadSeed,
           SendCompared, NoDirectory, GetAck
  <1>2. WorkerStep(w)' /\ Hands(w) /\ wpc[w] # "gone" /\ OthersKeep(w)
    BY <1>0, OneNode, WorkerGoesOn DEF QueueInv
  <1>3. Steps' /\ ServerStep'
    BY <1>0, <1>1, <1>2, StepsStay, ServerStays DEF QueueInv
  <1>4. \A v \in Node : v # w => With(v)' = With(v) /\ Reads(v)
    BY <1>0, <1>2, OthersHave
  <1>5. TaskInv'
    <2>1. \A v \in Worker : With(v)' \subseteq With(v)
      BY <1>2, <1>4 DEF Hands, Node
    <2>2. \A v \in Worker : wpc[v] = "gone" /\ request[v] = Nothing =>
              wpc'[v] = "gone" /\ request'[v] = Nothing
      BY <1>2 DEF OthersKeep, Node
    <2>3. \A v \in Worker : \A t \in With(v) \ With(v)' :
              wpc'[v] = "gone" /\ request'[v] = Nothing
      BY <1>2, <1>4 DEF Hands, Node
    <2> QED BY <1>1, <2>1, <2>2, <2>3, TasksStay DEF QueueInv, serverVars
  <1>6. Misses'
    <2>1. \A v \in Comparer : wpc'[v] = wpc[v] /\ job'[v] = job[v] /\ request'[v] = request[v]
      BY <1>0, <1>2 DEF OthersKeep
    <2>2. Made' \subseteq Made
      BY <1>1, <2>1 DEF Made, serverVars
    <2> QED BY <1>1, <2>1, <2>2, MissesStay DEF QueueInv, serverVars
  <1>7. Comparisons'
    BY <1>0, <1>1, <1>4, ComparisonsStay DEF QueueInv, serverVars
  <1> QED
    BY <1>3, <1>5, <1>6, <1>7 DEF QueueInv

\* When comparisons may start, no task is queued, and each that is not stored was
\* taken by another worker: a comparison misses what is not stored when it lists.
LEMMA ListMisses ==
    ASSUME QueueInv, NEW w \in Comparer, ListSeeds(w)
    PROVE  Misses'
  <1> DEFINE g == job[w].target
  <1>0. w \in Node /\ ComparerStep(w)
    BY DEF Node, QueueInv, Steps
  <1>1. /\ wpc[w] = "work" /\ UNCHANGED <<serverVars, request>>
        /\ \A v \in Comparer : v # w => wpc'[v] = wpc[v] /\ job'[v] = job[v]
        /\ job'[w].target = g /\ job'[w].seeds = SeedsOf(g) /\ job'[w].seen = {}
    BY <1>0 DEF ListSeeds, Move, QueueInv, Steps, Node
  <1>2. job[w].type = "compare" /\ g \in Target
    BY <1>0, <1>1, MessageKinds DEF ComparerStep
  <1>3. g \in targetsDone
    <2>1. w \in Comparing(g)
      BY <1>2, NodeMessages DEF Doing
    <2> QED BY <1>2, <2>1 DEF QueueInv, Comparisons
  <1>4. Unstored = Outstanding
    <2>1. tasks = <<>>
      BY <1>3 DEF QueueInv, ServerStep
    <2>2. ToSet(tasks) = {}
      BY <2>1 DEF ToSet
    <2> QED BY <2>2 DEF Unstored, Outstanding
  <1>5. Coverable(Unstored)
    <2>1. PICK taker \in [Outstanding -> Worker] : Took(taker)
      BY DEF QueueInv, TaskInv, Takers
    <2> QED BY <1>4, <2>1 DEF Coverable, Took
  <1>6. ASSUME NEW v \in Comparer, wpc'[v] = "read"
        PROVE  Coverable(Unstored' \cup {t \in About(job'[v].target) \ job'[v].seen :
                                             t.seed \notin job'[v].seeds})
    <2>1. CASE v # w
      BY <1>1, <1>6, <2>1 DEF QueueInv, Misses, serverVars, Unstored
    <2>2. CASE v = w
      <3>1. Unstored' \cup {t \in About(g) \ {} : t.seed \notin SeedsOf(g)} \subseteq Unstored
        BY <1>1 DEF Unstored, About, SeedsOf, ResultsOf, serverVars
      <3>2. Coverable(Unstored' \cup {t \in About(g) \ {} : t.seed \notin SeedsOf(g)})
        BY <1>5, <3>1, CoverablePart
      <3> QED BY <1>1, <2>2, <3>2
    <2> QED BY <2>1, <2>2
  <1>7. \A c \in Made' : Coverable(About(c.target) \ c.seen)
    BY <1>1 DEF QueueInv, Misses, Made, serverVars
  <1> QED
    BY <1>6, <1>7 DEF Misses, Made, Unstored, About, Coverable

\* The comparison reads the files of one of the seeds that it has listed.
LEMMA ReadMisses ==
    ASSUME QueueInv, NEW w \in Comparer, wpc[w] = "read",
           NEW s \in job[w].seeds, ReadSeed(w, s)
    PROVE  Misses'
  <1> DEFINE g == job[w].target
             more == {t \in ResultsOf(g) : t.seed = s}
             S == Unstored \cup {t \in About(g) \ job[w].seen : t.seed \notin job[w].seeds}
             T == Unstored' \cup {t \in About(g) \ (job[w].seen \cup more) :
                                      t.seed \notin job[w].seeds \ {s}}
  <1>0. w \in Node /\ ComparerStep(w) /\ DOMAIN job = Node
    BY DEF Node, QueueInv, Steps
  <1>1. /\ UNCHANGED <<serverVars, request, wpc>>
        /\ job' = [job EXCEPT ![w] = job'[w]]
        /\ job'[w] = [[job[w] EXCEPT !.seeds = job[w].seeds \ {s}]
                              EXCEPT !.seen = job[w].seen \cup more]
    BY <1>0 DEF ReadSeed
  <1>2. job[w] \in ListedMsgs
    BY <1>0 DEF ComparerStep
  <1>3. /\ job'[w].target = g /\ job'[w].seeds = job[w].seeds \ {s}
        /\ job'[w].seen = job[w].seen \cup more
    BY <1>1, <1>2 DEF ListedMsgs
  <1>4. Coverable(T)
    <2>1. Coverable(S)
      BY DEF QueueInv, Misses
    <2>2. T \subseteq S
      BY <1>1 DEF Unstored, About, ResultsOf, serverVars
    <2> HIDE DEF S, T
    <2> QED BY <2>1, <2>2, CoverablePart
  <1>5. ASSUME NEW v \in Comparer, wpc'[v] = "read"
        PROVE  Coverable(Unstored' \cup {t \in About(job'[v].target) \ job'[v].seen :
                                             t.seed \notin job'[v].seeds})
    <2>1. CASE v # w
      <3>1. job'[v] = job[v] /\ v \in Node
        BY <1>0, <1>1, <2>1 DEF Node
      <3> QED BY <1>1, <1>5, <3>1 DEF QueueInv, Misses, serverVars, Unstored
    <2>2. CASE v = w
      BY <1>3, <1>4, <2>2
    <2> QED BY <2>1, <2>2
  <1>6. \A c \in Made' : Coverable(About(c.target) \ c.seen)
    BY <1>1 DEF QueueInv, Misses, Made, serverVars
  <1> QED
    BY <1>5, <1>6 DEF Misses, Made, Unstored, About, Coverable

\* The comparison that is reported has read all the seeds.
LEMMA SendMisses ==
    ASSUME QueueInv, NEW w \in Comparer, SendCompared(w)
    PROVE  Misses'
  <1> DEFINE m == [type |-> "compare_result", target |-> job[w].target, seen |-> job[w].seen]
  <1>0. w \in Node /\ DOMAIN request = Node /\ DOMAIN job = Node /\ DOMAIN wpc = Node
    BY DEF Node, QueueInv, Steps
  <1>1. /\ UNCHANGED serverVars /\ wpc[w] = "read" /\ job[w].seeds = {}
        /\ request' = [request EXCEPT ![w] = m]
        /\ wpc'[w] = "ack"
        /\ \A v \in Comparer : v # w => wpc'[v] = wpc[v] /\ job'[v] = job[v]
    BY <1>0 DEF SendCompared, Move, Sends, Node
  <1>2. m.target = job[w].target /\ m.seen = job[w].seen
    OBVIOUS
  <1> HIDE DEF m
  <1>3. Coverable(About(m.target) \ m.seen)
    <2> DEFINE S == Unstored \cup {t \in About(job[w].target) \ job[w].seen :
                                       t.seed \notin job[w].seeds}
    <2>1. Coverable(S)
      BY <1>1 DEF QueueInv, Misses
    <2>2. About(m.target) \ m.seen \subseteq S
      BY <1>1, <1>2
    <2> HIDE DEF S
    <2> QED BY <2>1, <2>2, CoverablePart
  <1>4. Made' \subseteq Made \cup {m}
    BY <1>0, <1>1 DEF Made, serverVars, Node
  <1>5. ASSUME NEW v \in Comparer, wpc'[v] = "read"
        PROVE  Coverable(Unstored' \cup {t \in About(job'[v].target) \ job'[v].seen :
                                             t.seed \notin job'[v].seeds})
    <2>1. v # w
      BY <1>1, <1>5
    <2> QED BY <1>1, <1>5, <2>1 DEF QueueInv, Misses, serverVars, Unstored
  <1>6. \A c \in Made' : Coverable(About(c.target) \ c.seen)
    BY <1>3, <1>4 DEF QueueInv, Misses, Made
  <1> QED
    BY <1>5, <1>6 DEF Misses, Made, Unstored, About, Coverable

\* A step of a compare worker
LEMMA ComparerKeeps ==
    ASSUME QueueInv, NEW w \in Comparer, Work(w) \/ WorkerDies(w)
    PROVE  QueueInv'
  <1>0. w \in Node /\ w \notin Worker /\ \A v \in Worker : v \in Node /\ v # w
    BY QueueConstants DEF Node
  <1>1. UNCHANGED serverVars
    BY DEF Work, WorkerDies, Ask, GetTask, GetNothing, RunTask, ListSeeds, ReadSeed,
           SendCompared, NoDirectory, GetAck
  <1>2. ComparerStep(w)' /\ Reads(w) /\ OthersKeep(w)
    BY <1>0, <1>1, OneNode, ComparerGoesOn DEF QueueInv, ServerStep, serverVars
  <1>3. Steps' /\ ServerStep'
    BY <1>0, <1>1, <1>2, StepsStay, ServerStays DEF QueueInv
  <1>4. \A v \in Node : v # w => With(v)' = With(v) /\ Reads(v)
    BY <1>0, <1>2, OthersHave
  <1>5. TaskInv'
    <2>1. \A v \in Worker : With(v)' = With(v)
      BY <1>0, <1>4
    <2>2. \A v \in Worker : wpc[v] = "gone" /\ request[v] = Nothing =>
              wpc'[v] = "gone" /\ request'[v] = Nothing
      BY <1>0, <1>2 DEF OthersKeep
    <2> QED BY <1>1, <2>1, <2>2, TasksStay DEF QueueInv, serverVars
  <1>6. Comparisons'
    BY <1>1, <1>2, <1>4, ComparisonsStay DEF QueueInv, serverVars, Node
  <1>7. Misses'
    <2>1. CASE ListSeeds(w)
      BY <2>1, ListMisses
    <2>2. CASE wpc[w] = "read" /\ \E s \in job[w].seeds : ReadSeed(w, s)
      BY <2>2, ReadMisses
    <2>3. CASE SendCompared(w)
      BY <2>3, SendMisses
    <2>4. CASE Ask(w) \/ GetTask(w) \/ GetNothing(w) \/ RunTask(w) \/ NoDirectory(w)
                 \/ GetAck(w) \/ WorkerDies(w)
      <3>0. DOMAIN wpc = Node /\ DOMAIN request = Node /\ ComparerStep(w)
        BY DEF QueueInv, Steps
      <3>1. wpc'[w] # "read"
        BY <1>0, <2>4, <3>0
        DEF Ask, GetTask, GetNothing, RunTask, NoDirectory, GetAck, WorkerDies, Move
      <3>2. request'[w] \in ComparedMsgs => request'[w] = request[w]
        <4>1. ~ RunTask(w)
          BY <3>0, MessageKinds DEF ComparerStep, RunTask, Move
        <4>2. CASE Ask(w)
          <5>1. request'[w] = [type |-> "compare"]
            BY <1>0, <3>0, <4>2 DEF Ask, Sends
          <5> QED BY <5>1, MessageKinds
        <4>3. CASE ~ Ask(w)
          BY <1>0, <2>4, <3>0, <4>1, <4>3, MessageKinds
          DEF GetTask, GetNothing, NoDirectory, GetAck, WorkerDies
        <4> QED BY <4>2, <4>3
      <3>3. Made' \subseteq Made
        BY <1>1, <1>2, <3>2 DEF Made, serverVars, OthersKeep, Node
      <3>4. \A v \in Comparer : wpc'[v] = "read" => wpc[v] = "read" /\ job'[v] = job[v]
        BY <1>2, <3>1 DEF OthersKeep, Node
      <3> QED BY <1>1, <3>3, <3>4, MissesStay DEF QueueInv, serverVars
    <2> QED BY <2>1, <2>2, <2>3, <2>4 DEF Work
  <1> QED
    BY <1>3, <1>5, <1>6, <1>7 DEF QueueInv

-----------------------------------------------------------------------------
(* The server's steps keep the invariant *)

\* The request that is taken is one that the node sends.
LEMMA Requests ==
    ASSUME Steps, NEW w \in Node
    PROVE  /\ request[w].type = "task" => w \in Worker /\ request[w] = [type |-> "task"]
           /\ request[w].type = "compare" => w \in Comparer /\ request[w] = [type |-> "compare"]
           /\ request[w].type = "result" => w \in Worker /\ request[w] \in ResultMsgs
           /\ request[w].type = "compare_result" => w \in Comparer /\ request[w] \in ComparedMsgs
           /\ request[w] # Nothing => reply[w] = Nothing
           /\ w \in Worker /\ request[w] # Nothing => job[w] = Nothing
           /\ w \in Comparer /\ request[w] # Nothing => job[w] = Nothing
           /\ request[w].type \in {"task", "compare"} /\ wpc[w] # "gone" => wpc[w] = "wait"
           /\ request[w].type \in {"result", "compare_result"} /\ wpc[w] # "gone" => wpc[w] = "ack"
  <1>1. w \in Worker => WorkerStep(w)
    BY DEF Steps
  <1>2. w \in Comparer => ComparerStep(w)
    BY DEF Steps
  <1>3. /\ \A m \in ResultMsgs : m.type = "result"
        /\ \A m \in ComparedMsgs : m.type = "compare_result"
        /\ Nothing.type = "nothing"
    BY MessageKinds
  <1>4. CASE w \in Worker
    BY <1>1, <1>3, <1>4, QueueConstants DEF WorkerStep, Quiet
  <1>5. CASE w \in Comparer
    BY <1>2, <1>3, <1>5, QueueConstants DEF ComparerStep, Quiet
  <1> QED BY <1>4, <1>5 DEF Node

\* The head of the loop begins the comparisons of targets that nobody compares.
LEMMA CheckKeeps ==
    ASSUME QueueInv, CheckTasks
    PROVE  QueueInv'
  <1>1. UNCHANGED <<nodeVars, tasks, storing, stored, compared>> /\ spc = "check" /\ spc' = "recv"
    BY DEF CheckTasks
  <1>2. Steps'
    BY <1>1 DEF QueueInv, Steps, WorkerStep, ComparerStep, Quiet, nodeVars
  <1>3. ServerStep'
    BY <1>1 DEF QueueInv, ServerStep, CheckTasks
  <1>4. TaskInv'
    <2>1. \A v \in Worker : With(v)' = With(v)
      BY <1>1 DEF With, nodeVars
    <2> QED BY <1>1, <2>1, TasksStay DEF QueueInv, nodeVars
  <1>5. Misses'
    <2>1. Made' = Made
      BY <1>1 DEF Made, nodeVars
    <2> QED BY <1>1, <2>1, MissesStay DEF QueueInv, nodeVars
  <1>6. Comparisons'
    <2>1. \A g : Comparing(g)' = Comparing(g)
      BY <1>1 DEF Comparing, nodeVars
    <2>2. /\ targetsDone \subseteq targetsDone'
          /\ \A g \in targetsDone : g \in toCompare' => g \in toCompare
      BY DEF CheckTasks, QueueInv, ServerStep
    <2>3. ASSUME NEW g \in Target
          PROVE  /\ g \in toCompare' => Comparing(g)' = {}
                 /\ \A v, w \in Comparing(g)' : v = w
                 /\ Comparing(g)' # {} => g \in targetsDone'
      BY <2>1, <2>2, <2>3 DEF QueueInv, Comparisons
    <2>4. ASSUME NEW c \in compared' \cup ({storing'} \cap ComparedMsgs)
          PROVE  c.target \in targetsDone' \ toCompare' /\ Comparing(c.target)' = {}
      BY <1>1, <2>1, <2>2, <2>4 DEF QueueInv, Comparisons
    <2> QED BY <2>3, <2>4 DEF Comparisons
  <1> QED
    BY <1>2, <1>3, <1>4, <1>5, <1>6 DEF QueueInv

\* The first task for the worker is a place in the list, and a task of its system.
LEMMA FirstIsThere ==
    ASSUME tasks \in Seq(Task), NEW w, FirstFor(w) # 0
    PROVE  FirstFor(w) \in DOMAIN tasks /\ tasks[FirstFor(w)].system = SystemOf[w]
  <1> DEFINE I == {i \in 1 .. Len(tasks) : tasks[i].system = SystemOf[w]}
  <1>1. FirstFor(w) = IF I # {} THEN Min(I) ELSE 0
    BY DEF FirstFor, SelectInSeq
  <1>2. I \in SUBSET Nat /\ I \subseteq DOMAIN tasks
    BY SeqIsFunction
  <1>3. I # {} => Min(I) \in I
    BY <1>2, MinElement
  <1> QED
    BY <1>1, <1>2, <1>3

\* An answer goes to the node unless it is gone.
LEMMA Answered ==
    ASSUME Steps, NEW w \in Node, NEW type, NEW m, Takes(w, type), Answers(w, m)
    PROVE  /\ request'[w] = Nothing /\ request[w].type = type
           /\ wpc'[w] = wpc[w] /\ job'[w] = job[w] /\ spc = "recv"
           /\ reply'[w] = IF wpc[w] = "gone" THEN reply[w] ELSE m
  BY DEF Steps, Takes, Answers

\* A task that is handed out leaves the list and is with the worker that asked,
\* or with nobody when the worker is gone: the worker has had no other.
LEMMA HandingOutTask ==
    ASSUME QueueInv, NEW w \in Node, HandOutTask(w)
    PROVE  QueueInv'
  <1> DEFINE n == FirstFor(w)
  <1> DEFINE x == tasks[n]
             m == [type |-> "task", task |-> x]
  <1>1. /\ UNCHANGED <<toCompare, targetsDone, storing, stored, compared, wpc, job>>
        /\ tasks' = RemoveAt(tasks, n) /\ spc = "recv" /\ spc' = "check"
        /\ Takes(w, "task") /\ Answers(w, m) /\ n # 0
    BY DEF HandOutTask, Answers, Takes
  <1>2. /\ request[w] = [type |-> "task"] /\ w \in Worker /\ reply[w] = Nothing
        /\ job[w] = Nothing /\ (wpc[w] # "gone" => wpc[w] = "wait")
    BY <1>1, Requests DEF QueueInv, Takes, Nothing
  <1>3. /\ request'[w] = Nothing /\ wpc'[w] = wpc[w] /\ job'[w] = Nothing
        /\ reply'[w] = IF wpc[w] = "gone" THEN Nothing ELSE m
    BY <1>1, <1>2, Answered DEF QueueInv
  <1>4. OthersKeep(w) /\ w \notin Comparer
    BY <1>2, OneNode, QueueConstants DEF QueueInv, Serve
  <1>5. tasks \in Seq(Task) /\ IsInjective(tasks) /\ n \in DOMAIN tasks
    BY <1>1, FirstIsThere DEF QueueInv, ServerStep, TaskInv, Apart
  <1>6. /\ x \in Task /\ x.system = SystemOf[w] /\ x \in ToSet(tasks)
        /\ tasks' \in Seq(Task) /\ IsInjective(tasks') /\ ToSet(tasks') = ToSet(tasks) \ {x}
    <2>1. x \in Task /\ x \in ToSet(tasks)
      BY <1>5, SeqIsFunction DEF ToSet
    <2>2. x.system = SystemOf[w]
      BY <1>1, <1>5, FirstIsThere
    <2>3. /\ RemoveAt(tasks, n) \in Seq(Task) /\ IsInjective(RemoveAt(tasks, n))
          /\ ToSet(RemoveAt(tasks, n)) = ToSet(tasks) \ {tasks[n]}
      <3> HIDE DEF n
      <3> QED BY <1>5, RemoveAtSet
    <2> HIDE DEF n
    <2> QED BY <1>1, <2>1, <2>2, <2>3
  <1> HIDE DEF x, n
  <1>7. m \in TaskMsgs /\ m.task = x
    BY <1>6 DEF TaskMsgs
  <1> HIDE DEF m
  <1>8. Steps'
    <2>1. WorkerStep(w)'
      BY <1>2, <1>3, <1>7 DEF WorkerStep
    <2> QED BY <1>4, <2>1, StepsStay DEF QueueInv
  <1>9. ServerStep'
    <2>1. targetsDone = {}
      BY <1>5, EmptySeq DEF QueueInv, ServerStep
    <2> QED BY <1>1, <1>6, <2>1 DEF QueueInv, ServerStep
  <1>10. With(w) = {} /\ With(w)' = IF wpc[w] = "gone" THEN {} ELSE {x}
    <2>1. Nothing \in Words /\ [type |-> "task"] \in Words
      BY DEF Words
    <2>2. With(w) = Carried(Nothing, Nothing, [type |-> "task"])
      BY <1>2 DEF With, Carried
    <2>3. wpc[w] = "gone" => With(w)' = Carried(Nothing, Nothing, Nothing)
      BY <1>3 DEF With, Carried
    <2>4. wpc[w] # "gone" => With(w)' = Carried(m, Nothing, Nothing)
      BY <1>3 DEF With, Carried
    <2> QED BY <1>7, <2>1, <2>2, <2>3, <2>4, CarriedBy
  <1>11. \A v \in Node : v # w => With(v)' = With(v) /\ Reads(v)
    BY <1>4, OthersHave
  <1>12. /\ Outstanding' = Outstanding \cup {x} /\ x \notin Outstanding
         /\ BeingStored = {} /\ BeingStored' = {}
    <2>1. storing = Nothing
      BY <1>1 DEF QueueInv, ServerStep
    <2> QED
      BY <1>1, <1>6, <2>1, MessageKinds DEF QueueInv, TaskInv, Apart, Outstanding, BeingStored
  <1>13. Apart'
    BY <1>1, <1>6, <1>10, <1>11, <1>12 DEF QueueInv, TaskInv, Apart, Node
  <1>14. Takers'
    <2>1. PICK taker \in [Outstanding -> Worker] : Took(taker)
      BY DEF QueueInv, TaskInv, Takers
    <2>2. PICK f \in [Outstanding' -> Worker] :
              f[x] = w /\ \A t \in Outstanding : f[t] = taker[t]
      <3> DEFINE g == [t \in Outstanding' |-> IF t = x THEN w ELSE taker[t]]
      <3>1. g \in [Outstanding' -> Worker] /\ g[x] = w /\ \A t \in Outstanding : g[t] = taker[t]
        BY <1>2, <1>12, <2>1
      <3> QED BY <3>1, Zenon
    <2>3. \A t \in Outstanding : taker[t] # w
      <3>1. SUFFICES ASSUME NEW t \in Outstanding, taker[t] = w PROVE FALSE
        OBVIOUS
      <3>2. CASE t \in Out
        <4>1. PICK v \in Worker : t \in With(v)
          BY <3>2 DEF Out
        <4> QED BY <1>10, <2>1, <3>1, <4>1 DEF Took
      <3>3. CASE t \notin Out
        BY <1>2, <1>12, <2>1, <3>1, <3>3, MessageKinds DEF Took
      <3> QED BY <3>2, <3>3
    <2>4. \A t \in Outstanding' : f[t] \in Worker /\ SystemOf[f[t]] = t.system
      BY <1>6, <1>12, <2>1, <2>2 DEF Took
    <2>5. \A t, u \in Outstanding' : f[t] = f[u] => t = u
      BY <1>12, <2>1, <2>2, <2>3 DEF Took
    <2>6. \A v \in Worker : \A t \in With(v)' : f[t] = v
      <3>1. \A v \in Worker : With(v) \subseteq Outstanding
        BY DEF QueueInv, TaskInv, Apart
      <3> QED BY <1>10, <1>11, <2>1, <2>2, <3>1 DEF Took, Node
    <2>7. ASSUME NEW t \in Outstanding', t \notin Out', t \notin BeingStored'
          PROVE  wpc'[f[t]] = "gone" /\ request'[f[t]] = Nothing
      <3>1. \A v \in Worker : t \notin With(v)'
        BY <2>7 DEF Out
      <3>2. CASE t = x
        BY <1>2, <1>3, <1>10, <2>2, <3>1, <3>2
      <3>3. CASE t # x
        <4>1. t \in Outstanding /\ f[t] = taker[t] /\ taker[t] \in Worker /\ taker[t] # w
          BY <1>12, <2>1, <2>2, <2>3, <3>3
        <4>2. t \notin Out
          BY <1>10, <1>11, <3>1 DEF Out, Node
        <4>3. wpc[taker[t]] = "gone" /\ request[taker[t]] = Nothing
          BY <1>12, <2>1, <4>1, <4>2 DEF Took
        <4> QED BY <1>4, <4>1, <4>3 DEF OthersKeep, Node
      <3> QED BY <3>2, <3>3
    <2>8. Took(f)'
      BY <2>4, <2>5, <2>6, <2>7 DEF Took
    <2> QED BY <2>2, <2>8 DEF Takers
  <1>15. \A v \in Comparer : v \in Node /\ v # w
    BY <1>4 DEF Node
  <1>16. Misses'
    <2>1. \A v \in Comparer : request'[v] = request[v]
      BY <1>4, <1>15 DEF OthersKeep
    <2>2. Made' \subseteq Made
      BY <1>1, <2>1 DEF Made
    <2> QED BY <1>1, <2>2, MissesStay DEF QueueInv
  <1>17. Comparisons'
    BY <1>1, <1>11, <1>15, ComparisonsStay DEF QueueInv
  <1> QED
    BY <1>8, <1>9, <1>13, <1>14, <1>16, <1>17 DEF QueueInv, TaskInv

\* A path that is handed out leaves the list for the compare worker that asked.
LEMMA HandingOutComparison ==
    ASSUME QueueInv, NEW w \in Node, NEW g \in Target, HandOutCompare(w, g)
    PROVE  QueueInv'
  <1> DEFINE m == [type |-> "compare", target |-> g]
  <1>1. /\ UNCHANGED <<tasks, targetsDone, storing, stored, compared, wpc, job>>
        /\ toCompare' = toCompare \ {g} /\ g \in toCompare /\ spc = "recv" /\ spc' = "check"
        /\ Takes(w, "compare") /\ Answers(w, m)
    BY DEF HandOutCompare, Answers, Takes
  <1>2. /\ request[w] = [type |-> "compare"] /\ w \in Comparer /\ reply[w] = Nothing
        /\ job[w] = Nothing /\ (wpc[w] # "gone" => wpc[w] = "wait")
    BY <1>1, Requests DEF QueueInv, Takes, Nothing
  <1>3. /\ request'[w] = Nothing /\ wpc'[w] = wpc[w] /\ job'[w] = Nothing
        /\ reply'[w] = IF wpc[w] = "gone" THEN Nothing ELSE m
    BY <1>1, <1>2, Answered DEF QueueInv
  <1>4. OthersKeep(w) /\ w \notin Worker /\ \A v \in Worker : v \in Node /\ v # w
    BY <1>1, <1>2, OneNode, QueueConstants DEF QueueInv, Serve, Node
  <1>5. m \in CompareMsgs /\ m.type = "compare" /\ m.target = g
    BY DEF CompareMsgs
  <1> HIDE DEF m
  <1>6. Steps'
    <2>1. ComparerStep(w)'
      BY <1>2, <1>3, <1>5 DEF ComparerStep
    <2> QED BY <1>4, <2>1, StepsStay DEF QueueInv
  <1>7. ServerStep'
    BY <1>1 DEF QueueInv, ServerStep
  <1>8. \A v \in Node : v # w => With(v)' = With(v) /\ Reads(v)
    BY <1>4, OthersHave
  <1>9. TaskInv'
    <2>1. \A v \in Worker : With(v)' = With(v) /\ request'[v] = request[v] /\ wpc'[v] = wpc[v]
      BY <1>4, <1>8 DEF OthersKeep
    <2> QED BY <1>1, <2>1, TasksStay DEF QueueInv
  <1>10. Misses'
    <2>1. Made' \subseteq Made
      BY <1>1, <1>3, <1>4, MessageKinds DEF Made, OthersKeep, Node
    <2> QED BY <1>1, <2>1, MissesStay DEF QueueInv
  <1>11. Comparisons'
    <2>1. \A h : h # g => Comparing(h)' \subseteq Comparing(h)
      <3>1. \A h : h # g => ~ Doing(reply'[w], job'[w], request'[w], h)
        BY <1>3, <1>5, MessageKinds DEF Doing
      <3>2. \A h : Comparing(h)' = {v \in Comparer : Doing(reply'[v], job'[v], request'[v], h)}
        BY DEF Comparing, Doing
      <3> QED BY <1>8, <3>1, <3>2, NodeMessages DEF Reads, Node
    <2>2. Comparing(g) = {} /\ g \in targetsDone
      BY <1>1 DEF QueueInv, Comparisons, ServerStep
    <2>3. Comparing(g)' \subseteq {w}
      <3>1. Comparing(g)' = {v \in Comparer : Doing(reply'[v], job'[v], request'[v], g)}
        BY DEF Comparing, Doing
      <3> QED BY <1>8, <2>2, <3>1, NodeMessages DEF Reads, Node
    <2>4. ASSUME NEW h \in Target
          PROVE  /\ h \in toCompare' => Comparing(h)' = {}
                 /\ \A v, u \in Comparing(h)' : v = u
                 /\ Comparing(h)' # {} => h \in targetsDone'
      <3>1. CASE h = g
        BY <1>1, <2>2, <2>3, <3>1
      <3>2. CASE h # g
        BY <1>1, <2>1, <3>2 DEF QueueInv, Comparisons
      <3> QED BY <3>1, <3>2
    <2>5. ASSUME NEW c \in compared' \cup ({storing'} \cap ComparedMsgs)
          PROVE  c.target \in targetsDone' \ toCompare' /\ Comparing(c.target)' = {}
      <3>1. c.target \in targetsDone \ toCompare /\ Comparing(c.target) = {}
        BY <1>1, <2>5 DEF QueueInv, Comparisons
      <3> QED BY <1>1, <2>1, <3>1
    <2> QED BY <2>4, <2>5 DEF Comparisons
  <1> QED
    BY <1>6, <1>7, <1>9, <1>10, <1>11 DEF QueueInv

\* A node that asks for something when there is nothing is told so.
LEMMA QueueEmptyKeeps ==
    ASSUME QueueInv, NEW w \in Node, QueueEmpty(w)
    PROVE  QueueInv'
  <1> DEFINE m == [type |-> "queue_empty"]
  <1>1. /\ UNCHANGED <<tasks, toCompare, targetsDone, storing, stored, compared, wpc, job>>
        /\ spc = "recv" /\ spc' = "check" /\ Answers(w, m)
        /\ Takes(w, "task") \/ Takes(w, "compare")
    BY DEF QueueEmpty, Answers, Takes
  <1>2. /\ request[w] \in {[type |-> "task"], [type |-> "compare"]} /\ reply[w] = Nothing
        /\ request[w] = [type |-> "task"] => w \in Worker
        /\ request[w] = [type |-> "compare"] => w \in Comparer
        /\ job[w] = Nothing /\ (wpc[w] # "gone" => wpc[w] = "wait")
    BY <1>1, Requests DEF QueueInv, Takes, Nothing, Node
  <1>3. /\ request'[w] = Nothing /\ wpc'[w] = wpc[w] /\ job'[w] = Nothing
        /\ reply'[w] = IF wpc[w] = "gone" THEN Nothing ELSE m
    BY <1>1, <1>2, Answered DEF QueueInv
  <1>4. OthersKeep(w)
    BY OneNode DEF QueueInv, Serve
  <1>5. Steps'
    BY <1>2, <1>3, <1>4, StepsStay DEF QueueInv, WorkerStep, ComparerStep, Quiet
  <1>6. ServerStep'
    BY <1>1 DEF QueueInv, ServerStep
  <1>7. \A v \in Node : v # w => With(v)' = With(v) /\ Reads(v)
    BY <1>4, OthersHave
  <1>8. With(w) = {} /\ With(w)' = {} /\ Reads(w)
    <2>1. {Nothing, [type |-> "task"], [type |-> "compare"], m} \subseteq Words
      BY DEF Words
    <2>2. With(w) = Carried(reply[w], job[w], request[w])
          /\ With(w)' = Carried(reply'[w], job'[w], request'[w])
      BY DEF With, Carried
    <2>3. reply'[w] \in Words /\ job'[w] \in Words /\ request'[w] \in Words
      BY <1>3, <2>1
    <2>4. reply[w] \in Words /\ job[w] \in Words /\ request[w] \in Words
      BY <1>2, <2>1
    <2> QED BY <1>3, <2>2, <2>3, <2>4, CarriedBy, MessageKinds DEF Reads, Doing
  <1>9. TaskInv'
    <2>1. \A v \in Worker : With(v)' = With(v)
      BY <1>7, <1>8 DEF Node
    <2>2. \A v \in Worker : request[v] = Nothing => request'[v] = Nothing
      BY <1>3, <1>4 DEF OthersKeep, Node
    <2> QED BY <1>1, <2>1, <2>2, TasksStay DEF QueueInv
  <1>10. Misses'
    <2>1. Made' \subseteq Made
      BY <1>1, <1>3, <1>4, MessageKinds DEF Made, OthersKeep, Node
    <2> QED BY <1>1, <2>1, MissesStay DEF QueueInv
  <1>11. Comparisons'
    BY <1>1, <1>7, <1>8, ComparisonsStay DEF QueueInv, Node
  <1> QED
    BY <1>5, <1>6, <1>9, <1>10, <1>11 DEF QueueInv

\* A result goes from the request of its worker to the server.
LEMMA TakingResult ==
    ASSUME QueueInv, NEW w \in Node, TakeResult(w)
    PROVE  QueueInv'
  <1> DEFINE m == [type |-> "ack"]
             r == request[w]
  <1>1. /\ UNCHANGED <<tasks, toCompare, targetsDone, stored, compared, wpc, job>>
        /\ spc = "recv" /\ spc' = "store" /\ storing' = r /\ Answers(w, m)
        /\ Takes(w, "result") \/ Takes(w, "compare_result")
    BY DEF TakeResult, Answers, Takes
  <1>2. /\ \/ w \in Worker /\ r \in ResultMsgs
           \/ w \in Comparer /\ r \in ComparedMsgs
        /\ r # Nothing /\ reply[w] = Nothing /\ job[w] = Nothing
        /\ wpc[w] # "gone" => wpc[w] = "ack"
    BY <1>1, Requests, MessageKinds DEF QueueInv, Takes, Node
  <1>3. /\ request'[w] = Nothing /\ wpc'[w] = wpc[w] /\ job'[w] = Nothing
        /\ reply'[w] = IF wpc[w] = "gone" THEN Nothing ELSE m
    BY <1>1, <1>2, Answered DEF QueueInv
  <1>4. OthersKeep(w)
    BY OneNode DEF QueueInv, Serve
  <1>5. Steps'
    BY <1>2, <1>3, <1>4, StepsStay DEF QueueInv, WorkerStep, ComparerStep, Quiet
  <1>6. ServerStep'
    BY <1>1, <1>2 DEF QueueInv, ServerStep
  <1>7. \A v \in Node : v # w => With(v)' = With(v) /\ Reads(v)
    BY <1>4, OthersHave
  <1>8. With(w)' = {} /\ Reads(w)
    <2>1. Nothing \in Words /\ m \in Words
      BY DEF Words
    <2>2. With(w)' = Carried(reply'[w], job'[w], request'[w])
      BY DEF With, Carried
    <2> QED BY <1>3, <2>1, <2>2, CarriedBy, MessageKinds DEF Reads, Doing
  <1>9. \A v \in Worker : request[v] = Nothing => request'[v] = Nothing
    BY <1>3, <1>4 DEF OthersKeep, Node
  <1>10. storing = Nothing /\ BeingStored = {}
    BY <1>1, MessageKinds DEF QueueInv, ServerStep, BeingStored
  <1>11. Outstanding' = Outstanding
    BY <1>1 DEF Outstanding
  <1>12. CASE r \in ResultMsgs
    <2>1. w \in Worker /\ w \notin Comparer /\ r \notin ComparedMsgs
      BY <1>2, <1>12, QueueConstants, MessageKinds
    <2>2. With(w) = {r.task} /\ BeingStored' = {r.task}
      <3>1. Nothing \in Words
        BY DEF Words
      <3>2. With(w) = Carried(Nothing, Nothing, r)
        BY <1>2 DEF With, Carried
      <3> QED BY <1>1, <1>12, <3>1, <3>2, CarriedBy, MessageKinds DEF BeingStored
    <2>3. TaskInv'
      <3>1. \A v \in Worker : v # w => r.task \notin With(v)
        <4>1. PICK taker \in [Outstanding -> Worker] : Took(taker)
          BY DEF QueueInv, TaskInv, Takers
        <4> QED BY <2>1, <2>2, <4>1 DEF Took
      <3>2. Apart'
        BY <1>1, <1>7, <1>8, <1>10, <1>11, <2>1, <2>2, <3>1 DEF QueueInv, TaskInv, Apart, Node
      <3>3. Takers'
        <4>1. \A v \in Worker : With(v)' \subseteq With(v) \cap Outstanding'
          BY <1>7, <1>8, <1>11 DEF QueueInv, TaskInv, Apart, Node
        <4>2. \A v \in Worker : \A t \in Outstanding' :
                  t \in With(v) /\ t \notin With(v)' => t \in BeingStored'
          BY <1>7, <2>2 DEF Node
        <4> QED BY <1>1, <1>9, <1>10, <1>11, <4>1, <4>2, TakersStay DEF QueueInv, TaskInv
      <3> QED BY <3>2, <3>3 DEF TaskInv
    <2>4. Misses'
      <3>1. Made' \subseteq Made
        BY <1>1, <1>4, <2>1 DEF Made, OthersKeep, Node
      <3> QED BY <1>1, <3>1, MissesStay DEF QueueInv
    <2>5. Comparisons'
      <3>1. \A g : Comparing(g)' \subseteq Comparing(g)
        BY <1>7, <1>8 DEF Reads, Comparing, Doing, Node
      <3>2. \A c \in compared' \cup ({storing'} \cap ComparedMsgs) : c \in compared
        BY <1>1, <2>1
      <3>3. ASSUME NEW g \in Target
            PROVE  /\ g \in toCompare' => Comparing(g)' = {}
                   /\ \A v, u \in Comparing(g)' : v = u
                   /\ Comparing(g)' # {} => g \in targetsDone'
        BY <1>1, <3>1 DEF QueueInv, Comparisons
      <3>4. ASSUME NEW c \in compared' \cup ({storing'} \cap ComparedMsgs)
            PROVE  c.target \in targetsDone' \ toCompare' /\ Comparing(c.target)' = {}
        BY <1>1, <3>1, <3>2, <3>4 DEF QueueInv, Comparisons
      <3> QED BY <3>3, <3>4 DEF Comparisons
    <2> QED BY <1>5, <1>6, <2>3, <2>4, <2>5 DEF QueueInv
  <1>13. CASE r \in ComparedMsgs
    <2>1. w \in Comparer /\ w \notin Worker /\ \A v \in Worker : v # w /\ v \in Node
      BY <1>2, <1>13, QueueConstants, MessageKinds DEF Node
    <2>2. r.type = "compare_result" /\ r.target \in Target /\ BeingStored' = {}
      BY <1>1, <1>13, MessageKinds DEF BeingStored
    <2>3. TaskInv'
      <3>1. \A v \in Worker : With(v)' = With(v)
        BY <1>7, <2>1
      <3>2. Apart'
        BY <1>1, <1>10, <1>11, <2>2, <3>1 DEF QueueInv, TaskInv, Apart
      <3>3. \A v \in Worker : With(v)' \subseteq With(v) \cap Outstanding'
        BY <1>11, <3>1 DEF QueueInv, TaskInv, Apart
      <3>4. Takers'
        BY <1>1, <1>9, <1>10, <1>11, <3>1, <3>3, TakersStay DEF QueueInv, TaskInv
      <3> QED BY <3>2, <3>4 DEF TaskInv
    <2>4. Misses'
      <3>1. Made' \subseteq Made
        BY <1>1, <1>3, <1>4, <2>1, MessageKinds DEF Made, OthersKeep, Node
      <3> QED BY <1>1, <3>1, MissesStay DEF QueueInv
    <2>5. Comparisons'
      <3>1. \A g : Comparing(g)' \subseteq Comparing(g)
        BY <1>7, <1>8 DEF Reads, Comparing, Doing, Node
      <3>2. PICK h : h = r.target
        OBVIOUS
      <3>3. w \in Comparing(h) /\ w \notin Comparing(h)'
        <4>1. Comparing(h)' = {v \in Comparer : Doing(reply'[v], job'[v], request'[v], h)}
          BY DEF Comparing, Doing
        <4>2. ~ Doing(reply'[w], job'[w], request'[w], h)
          BY <1>3, MessageKinds DEF Doing
        <4> QED BY <2>1, <2>2, <3>2, <4>1, <4>2, NodeMessages DEF Doing
      <3>4. h \in targetsDone \ toCompare /\ Comparing(h) = {w}
        BY <2>2, <3>2, <3>3 DEF QueueInv, Comparisons
      <3>5. ASSUME NEW g \in Target
            PROVE  /\ g \in toCompare' => Comparing(g)' = {}
                   /\ \A v, u \in Comparing(g)' : v = u
                   /\ Comparing(g)' # {} => g \in targetsDone'
        BY <1>1, <3>1 DEF QueueInv, Comparisons
      <3>6. ASSUME NEW c \in compared' \cup ({storing'} \cap ComparedMsgs)
            PROVE  c.target \in targetsDone' \ toCompare' /\ Comparing(c.target)' = {}
        <4>1. CASE c \in compared
          BY <1>1, <3>1, <4>1 DEF QueueInv, Comparisons
        <4>2. CASE c = r
          <5>1. Comparing(h)' = {}
            BY <3>1, <3>3, <3>4
          <5>2. c.target = h
            BY <3>2, <4>2
          <5> QED BY <1>1, <3>4, <5>1, <5>2
        <4> QED BY <1>1, <3>6, <4>1, <4>2
      <3> QED BY <3>5, <3>6 DEF Comparisons
    <2> QED BY <1>5, <1>6, <2>3, <2>4, <2>5 DEF QueueInv
  <1> QED
    BY <1>2, <1>12, <1>13

\* The server stores the result it has taken.
LEMMA StoreKeeps ==
    ASSUME QueueInv, Store
    PROVE  QueueInv'
  <1>1. /\ UNCHANGED <<request, reply, wpc, job, tasks, toCompare, targetsDone>>
        /\ spc = "store" /\ spc' = "check" /\ storing' = Nothing
        /\ storing.type = "result" =>
               stored' = stored \cup {storing.task} /\ compared' = compared
        /\ storing.type # "result" =>
               compared' = compared \cup {storing} /\ stored' = stored
    BY DEF Store, nodeVars
  <1>2. storing \in ResultMsgs \cup ComparedMsgs
    BY <1>1 DEF QueueInv, ServerStep
  <1>3. /\ storing \in ResultMsgs => storing.type = "result" /\ storing.task \in Task
        /\ storing \in ComparedMsgs => storing.type = "compare_result"
        /\ Nothing \notin ComparedMsgs /\ Nothing.type # "result"
    BY MessageKinds
  <1>4. Steps'
    BY <1>1 DEF QueueInv, Steps, WorkerStep, ComparerStep, Quiet
  <1>5. ServerStep'
    BY <1>1, <1>2, <1>3 DEF QueueInv, ServerStep
  <1>6. stored' = stored \cup BeingStored /\ BeingStored' = {} /\ stored \subseteq stored'
    BY <1>1, <1>3 DEF BeingStored
  <1>7. Outstanding' = Outstanding \ BeingStored
    BY <1>1, <1>6 DEF Outstanding
  <1>8. \A v \in Worker : With(v)' = With(v)
    BY <1>1 DEF With
  <1>9. TaskInv'
    <2>1. Apart'
      BY <1>1, <1>6, <1>7, <1>8 DEF QueueInv, TaskInv, Apart, Outstanding
    <2>2. \A v \in Worker : With(v)' \subseteq With(v) \cap Outstanding'
      BY <1>7, <1>8 DEF QueueInv, TaskInv, Apart
    <2>3. Takers'
      BY <1>1, <1>7, <1>8, <2>2, TakersStay DEF QueueInv, TaskInv
    <2> QED BY <2>1, <2>3 DEF TaskInv
  <1>10. compared' \cup ({storing'} \cap ComparedMsgs) = compared \cup ({storing} \cap ComparedMsgs)
    BY <1>1, <1>2, <1>3
  <1>11. Misses'
    <2>1. Made' = Made
      BY <1>1, <1>10 DEF Made
    <2> QED BY <1>1, <1>6, <2>1, MissesStay DEF QueueInv
  <1>12. Comparisons'
    <2>1. \A g : Comparing(g)' = Comparing(g)
      BY <1>1 DEF Comparing
    <2> QED BY <1>1, <1>10, <2>1 DEF QueueInv, Comparisons
  <1> QED
    BY <1>4, <1>5, <1>9, <1>11, <1>12 DEF QueueInv

\* The server stops, or has stopped, or nothing happens.
LEMMA StillKeeps ==
    ASSUME QueueInv,
           UNCHANGED <<nodeVars, tasks, toCompare, targetsDone, storing, stored, compared>>,
           spc' \in {spc, "stopped"}
    PROVE  QueueInv'
  <1>1. Steps'
    BY DEF QueueInv, Steps, WorkerStep, ComparerStep, Quiet, nodeVars
  <1>2. ServerStep'
    BY DEF QueueInv, ServerStep
  <1>3. TaskInv'
    <2>1. \A v \in Worker : With(v)' = With(v)
      BY DEF With, nodeVars
    <2> QED BY <2>1, TasksStay DEF QueueInv, nodeVars
  <1>4. Misses'
    <2>1. Made' = Made
      BY DEF Made, nodeVars
    <2> QED BY <2>1, MissesStay DEF QueueInv, nodeVars
  <1>5. Comparisons'
    BY ComparisonsStay DEF QueueInv, nodeVars, Reads
  <1> QED
    BY <1>1, <1>2, <1>3, <1>4, <1>5 DEF QueueInv

-----------------------------------------------------------------------------
(* QueueInv is inductive *)

\* Before the first step all tasks are in the list and nobody does anything.
LEMMA QueueInitInv ==
    ASSUME QueueInit
    PROVE  QueueInv
  <1> USE DEF QueueInit
  <1>1. Steps
    BY DEF Steps, WorkerStep, ComparerStep, Quiet, Node
  <1>2. ServerStep
    BY QueueConstants DEF ServerStep
  <1>3. Outstanding = {} /\ BeingStored = {}
    BY MessageKinds DEF Outstanding, BeingStored, Task
  <1>4. \A w \in Node : With(w) = {}
    <2>1. Nothing \in Words
      BY DEF Words
    <2> QED BY <2>1, CarriedBy, NodeMessages
  <1>5. TaskInv
    <2>1. Apart
      BY <1>3, <1>4, QueueConstants DEF Apart, Node
    <2> DEFINE taker == [t \in {} |-> t]
    <2>2. taker \in [Outstanding -> Worker]
      BY <1>3
    <2> HIDE DEF taker
    <2>3. Took(taker)
      BY <1>3, <1>4 DEF Took, Node
    <2> QED BY <2>1, <2>2, <2>3 DEF TaskInv, Takers
  <1>6. Misses
    BY MessageKinds DEF Misses, Node
  <1>7. Comparisons
    <2>1. \A g : Comparing(g) = {}
      BY NodeMessages, MessageKinds DEF Doing, Node
    <2> QED BY <2>1, MessageKinds DEF Comparisons
  <1> QED
    BY <1>1, <1>2, <1>5, <1>6, <1>7 DEF QueueInv

\* Every step keeps the invariant.
LEMMA QueueStepInv ==
    ASSUME QueueInv, [QueueNext]_queueVars
    PROVE  QueueInv'
  <1>1. CASE CheckTasks
    BY <1>1, CheckKeeps
  <1>2. CASE Store
    BY <1>2, StoreKeeps
  <1>3. ASSUME NEW w \in Node, HandOutTask(w) PROVE QueueInv'
    BY <1>3, HandingOutTask
  <1>4. ASSUME NEW w \in Node, NEW g \in Target, HandOutCompare(w, g) PROVE QueueInv'
    BY <1>4, HandingOutComparison
  <1>5. ASSUME NEW w \in Node, QueueEmpty(w) PROVE QueueInv'
    BY <1>5, QueueEmptyKeeps
  <1>6. ASSUME NEW w \in Node, TakeResult(w) PROVE QueueInv'
    BY <1>6, TakingResult
  <1>7. CASE StopServer
    BY <1>7, StillKeeps DEF StopServer
  <1>8. ASSUME NEW w \in Node, Work(w) \/ WorkerDies(w) PROVE QueueInv'
    BY <1>8, WorkerKeeps, ComparerKeeps DEF Node
  <1>9. CASE QueueHalted \/ UNCHANGED queueVars
    BY <1>9, StillKeeps DEF QueueHalted, queueVars, serverVars
  <1> QED
    BY <1>1, <1>2, <1>3, <1>4, <1>5, <1>6, <1>7, <1>8, <1>9 DEF QueueNext, Server, Serve

\* The invariant always holds.
LEMMA QueueAlways == QueueSpec => []QueueInv
  BY QueueInitInv, QueueStepInv, PTL DEF QueueSpec

-----------------------------------------------------------------------------
(* What the invariant says of the properties *)

\* An injective map into a finite set bounds the size of its domain.
LEMMA Bounded ==
    ASSUME NEW S, NEW T, IsFiniteSet(T), NEW f \in [S -> T],
           \A x, y \in S : f[x] = f[y] => x = y
    PROVE  Cardinality(S) <= Cardinality(T)
  <1>1. f \in Injection(S, T)
    BY DEF Injection, IsInjective
  <1> QED
    BY <1>1, FS_Injection

\* A set of which any two elements are equal has one at most.
LEMMA AtMostOne ==
    ASSUME NEW S, \A x, y \in S : x = y
    PROVE  Cardinality(S) <= 1
  <1>1. CASE S = {}
    BY <1>1, FS_EmptySet
  <1>2. CASE S # {}
    <2>1. PICK x \in S : TRUE
      BY <1>2
    <2>2. S = {x}
      BY <2>1
    <2> QED BY <2>2, FS_Singleton
  <1> QED
    BY <1>1, <1>2

\* A step that a node may be at is well-formed.
LEMMA InvImpliesType ==
    ASSUME QueueInv
    PROVE  QueueTypeOK
  <1>1. Nothing \notin TaskMsgs \cup CompareMsgs \cup ResultMsgs \cup ComparedMsgs
    BY MessageKinds
  <1>2. /\ Nothing # [type |-> "task"] /\ Nothing # [type |-> "compare"]
        /\ Nothing # [type |-> "queue_empty"] /\ Nothing # [type |-> "ack"]
    BY DEF Nothing
  <1>3. ASSUME NEW w \in Node
        PROVE  IF wpc[w] \in {"wait", "ack"}
               THEN (request[w] = Nothing) # (reply[w] = Nothing)
               ELSE reply[w] = Nothing /\ (wpc[w] # "gone" => request[w] = Nothing)
    <2>1. CASE w \in Worker
      BY <1>1, <1>2, <2>1 DEF QueueInv, Steps, WorkerStep, Quiet
    <2>2. CASE w \in Comparer
      BY <1>1, <1>2, <2>2 DEF QueueInv, Steps, ComparerStep, Quiet
    <2> QED BY <2>1, <2>2 DEF Node
  <1> QED
    BY <1>3 DEF QueueInv, ServerStep, QueueTypeOK

\* A task is in one place, and a worker that is gone has taken one at most.
LEMMA InvImpliesAccounted ==
    ASSUME QueueInv
    PROVE  TasksAccounted
  <1>1. PICK taker \in [Outstanding -> Worker] : Took(taker)
    BY DEF QueueInv, TaskInv, Takers
  <1>2. Apart
    BY DEF QueueInv, TaskInv
  <1>3. Out \subseteq Outstanding \ BeingStored
    BY <1>2 DEF Apart, Out
  <1>4. /\ DOMAIN Places = 1 .. 4 /\ Places[1] = ToSet(tasks) /\ Places[2] = Out
        /\ Places[3] = BeingStored /\ Places[4] = stored
    BY DEF Places
  <1>5. \A i, j \in DOMAIN Places : i # j => Places[i] \cap Places[j] = {}
    <2>1. /\ ToSet(tasks) \cap Out = {} /\ ToSet(tasks) \cap BeingStored = {}
          /\ ToSet(tasks) \cap stored = {} /\ Out \cap BeingStored = {}
          /\ Out \cap stored = {} /\ BeingStored \cap stored = {}
      BY <1>2, <1>3 DEF Apart, Outstanding
    <2>2. \A i, j \in {1, 2, 3, 4} : i # j => Places[i] \cap Places[j] = {}
      BY <1>4, <2>1
    <2>3. 1 .. 4 = {1, 2, 3, 4}
      OBVIOUS
    <2> QED BY <1>4, <2>2, <2>3
  <1>6. \A v, w \in Worker : v # w => With(v) \cap With(w) = {}
    BY <1>1 DEF Took
  <1>7. Cardinality(Lost) <= Cardinality(Gone)
    <2>1. IsFiniteSet(Gone)
      <3>1. Gone \in SUBSET Node
        BY DEF Gone, Node
      <3> QED BY <3>1, QueueConstants, FS_Subset
    <2>2. UNION ToSet(Places) = ToSet(tasks) \cup Out \cup BeingStored \cup stored
      <3>1. 1 .. 4 = {1, 2, 3, 4}
        OBVIOUS
      <3>2. ToSet(Places) = {Places[i] : i \in DOMAIN Places}
        BY DEF ToSet
      <3>3. ToSet(Places) = {ToSet(tasks), Out, BeingStored, stored}
        BY <1>4, <3>1, <3>2
      <3> QED BY <3>3
    <2>3. \A t \in Lost : t \in Outstanding /\ t \notin Out /\ t \notin BeingStored
      BY <2>2 DEF Lost, Outstanding
    <2> DEFINE f == [t \in Lost |-> taker[t]]
    <2>4. f \in [Lost -> Gone]
      BY <1>1, <2>3 DEF Took, Gone
    <2>5. \A t, u \in Lost : f[t] = f[u] => t = u
      BY <1>1, <2>3 DEF Took
    <2> HIDE DEF f
    <2> QED BY <2>1, <2>4, <2>5, Bounded
  <1> QED
    BY <1>2, <1>5, <1>6, <1>7 DEF TasksAccounted, Apart

\* A target is compared once.
LEMMA InvImpliesOnce ==
    ASSUME QueueInv
    PROVE  ComparedOnce
  <1>1. ASSUME NEW target \in Target
        PROVE  /\ target \in toCompare => Comparing(target) = {}
               /\ Cardinality(Comparing(target)) <= 1
               /\ \A c \in compared :
                     c.target = target => target \notin toCompare /\ Comparing(target) = {}
    BY AtMostOne DEF QueueInv, Comparisons
  <1> QED
    BY <1>1 DEF ComparedOnce

\* What a comparison has missed was taken by one worker each.
LEMMA InvImpliesMissesFew ==
    ASSUME QueueInv
    PROVE  ComparisonMissesFew
  <1> SUFFICES ASSUME NEW c \in compared, NEW s
               PROVE  Cardinality({t \in Task : t.target = c.target /\ t.system = s} \ c.seen)
                          <= Cardinality({w \in Worker : SystemOf[w] = s})
    BY DEF ComparisonMissesFew
  <1> DEFINE S == About(c.target) \ c.seen
             M == {t \in Task : t.target = c.target /\ t.system = s} \ c.seen
             W == {w \in Worker : SystemOf[w] = s}
  <1>1. PICK taker \in [S -> Worker] :
            /\ \A t \in S : SystemOf[taker[t]] = t.system
            /\ \A t, u \in S : taker[t] = taker[u] => t = u
    BY DEF QueueInv, Misses, Coverable
  <1>2. IsFiniteSet(W)
    <2>1. W \in SUBSET Node
      BY DEF Node
    <2> QED BY <2>1, QueueConstants, FS_Subset
  <1>3. \A t \in M : t \in S /\ t.system = s
    BY DEF About
  <1> DEFINE f == [t \in M |-> taker[t]]
  <1> HIDE DEF S
  <1>4. f \in [M -> W]
    BY <1>1, <1>3
  <1>5. \A t, u \in M : f[t] = f[u] => t = u
    BY <1>1, <1>3
  <1> HIDE DEF f, M, W
  <1>6. Cardinality(M) <= Cardinality(W)
    BY <1>2, <1>4, <1>5, Bounded
  <1> QED
    BY <1>6 DEF M, W

-----------------------------------------------------------------------------
(* The theorems *)

\* The server's and the workers' state is well-formed, and the sockets keep step:
\* a node that waits has one request or one reply on the way (worker.py's REQ
\* socket), for every number of workers.
THEOREM QueueTypeCorrect == QueueSpec => []QueueTypeOK
  BY QueueAlways, InvImpliesType, PTL

\* No task is ever in two places, and there are never more lost tasks than dead
\* workers, although the server forgets a task when it hands it out
\* (task.py:78-84).
THEOREM TasksAreAccounted == QueueSpec => []TasksAccounted
  BY QueueAlways, InvImpliesAccounted, PTL

\* A target is compared by one worker and once (task.py:86-93, server.py:71-76).
THEOREM TargetsComparedOnce == QueueSpec => []ComparedOnce
  BY QueueAlways, InvImpliesOnce, PTL

\* A comparison, which starts when the list of tasks is empty and not when the
\* results are there, misses no more results of a system than that system has
\* workers (server.py:71-76, compare-worker.py:22-32).
THEOREM ComparisonsMissFew == QueueSpec => []ComparisonMissesFew
  BY QueueAlways, InvImpliesMissesFew, PTL
=============================================================================
