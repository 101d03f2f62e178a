----------------------------- MODULE FullyAsync -----------------------------
(***************************************************************************)
(* examples/fully_async/fully_async_rollout.py: a worker thread keeps      *)
(* rollout_batch_size groups in generation and puts the finished ones into *)
(* an output queue; each call of the rollout function drains the queue     *)
(* until its batch is full.  Between two calls train_async.py may update   *)
(* the weights, which aborts what the engines are generating.              *)
(*                                                                         *)
(* The worker is an event loop in a thread of its own, the collector runs  *)
(* in the loop of slime/utils/async_utils.py; they share the queue and the *)
(* data source.  A group is the number of a prompt; a number is used again  *)
(* when its group was trained on or got lost.  Mut<Name> is a plausible    *)
(* bug in Name.                                                            *)
(***************************************************************************)
EXTENDS Integers, Sequences, FiniteSets

CONSTANTS
    MaxGroup,     \* bound: groups in the system at a time
    Target,       \* args.rollout_batch_size, also the limit of active tasks
    QueueSize,    \* output_queue.maxsize
    MaxWaited,    \* bound: updates counted while a result waits
    MaxFails      \* bound: tasks that end with an exception

ASSUME AsyncAssumption ==
    /\ {MaxGroup, Target, QueueSize, MaxWaited} \subseteq Nat \ {0} /\ MaxFails \in Nat

VARIABLES
    buffer,     \* data_buffer.buffer
    task,       \* active_tasks: each group's is none, running or done
    exposed,    \* running groups with a request at an engine when it was paused
    callbacks,  \* done tasks whose callback has not returned, in the order of the event loop
    stuck,      \* the first of them is inside a put that has to wait
    result,     \* what the last task of the group ended with
    waited,     \* updates since then, until the result is used
    late,       \* groups that were among the callbacks at an update
    queue,      \* output_queue
    call,       \* the rollout function: idle, collect, process
    completed,  \* completed_groups
    data,       \* data
    trainer,    \* updated: the weights have been updated since the last call
    fails

workerVars  == <<task, exposed, callbacks, stuck, fails>>
resultVars  == <<result, waited, late>>
collectVars == <<call, completed, data>>
vars == <<buffer, queue, workerVars, resultVars, collectVars, trainer>>

Group        == 1..MaxGroup
Elements(s)  == {s[i] : i \in DOMAIN s}
MinOf(a, b)  == IF a <= b THEN a ELSE b
TasksIn(p)   == {g \in Group : task[g] = p}
Kept         == Elements(buffer) \cup TasksIn("running") \cup Elements(callbacks)
                \cup Elements(queue) \cup Elements(completed) \cup data
Pending      == Elements(callbacks) \cup Elements(queue) \cup Elements(completed)
Unread       == Group \ (Kept \cup TasksIn("done"))

\* The result of groups that are trained on, lost, or handed back matters no more.  What a
\* group that is handed back keeps of it (complete samples, the prefixes of others) is left
\* out, and so is how old its tokens are: waited is the time of one result.
Forget(G) ==
    /\ result' = [g \in Group |-> IF g \in G THEN "complete" ELSE result[g]]
    /\ waited' = [g \in Group |-> IF g \in G THEN 0 ELSE waited[g]] /\ late' = late \ G

Init ==
    /\ buffer = <<>> /\ queue = <<>> /\ callbacks = <<>> /\ stuck = FALSE
    /\ task = [g \in Group |-> "none"] /\ exposed = {} /\ fails = 0
    /\ result = [g \in Group |-> "complete"] /\ waited = [g \in Group |-> 0] /\ late = {}
    /\ call = "idle" /\ completed = <<>> /\ data = {} /\ trainer = "idle"

-----------------------------------------------------------------------------
\* The worker thread, of which nothing runs while a callback waits in put.

\* active_tasks after the clean-up, and the room there is for new tasks.
MutCleaned == TasksIn("running") \cup TasksIn("done")
Cleaned    == TasksIn("running")
MutRoom    == Target - Cardinality(Cleaned) + 1     \* <= in place of <
Room       == Target - Cardinality(Cleaned)

\* get_samples(1) for each: the head of the buffer or else a new prompt.
FromBuffer  == MinOf(Room, Len(buffer))
MutRest     == buffer                    \* pop_first without its del
Rest        == SubSeq(buffer, FromBuffer + 1, Len(buffer))
Prompts     == {g \in Unread : Cardinality({h \in Unread : h < g}) < Room - FromBuffer}

\* A pass of the loop, which sleeps after it.  The callbacks of tasks that are done run in
\* the same round of the event loop, before the new tasks start.
Submit ==
    /\ callbacks = <<>>
    /\ LET begun == Prompts \cup Elements(SubSeq(buffer, 1, FromBuffer)) IN
       task' = [g \in Group |-> IF g \in begun THEN "running"
                                ELSE IF g \in Cleaned THEN task[g] ELSE "none"]
    /\ buffer' = Rest
    /\ UNCHANGED <<queue, exposed, callbacks, stuck, fails, resultVars, collectVars, trainer>>

\* generate_and_rm_group returns; a group that was exposed to an abort may be complete.
Finish(g) ==
    /\ ~stuck /\ task[g] = "running"
    /\ task' = [task EXCEPT ![g] = "done"] /\ callbacks' = Append(callbacks, g)
    /\ \E r \in IF g \in exposed THEN {"aborted", "complete"} ELSE {"complete"} :
           result' = [result EXCEPT ![g] = r]
    /\ waited' = [waited EXCEPT ![g] = 0] /\ exposed' = exposed \ {g}
    /\ UNCHANGED <<buffer, queue, stuck, fails, late, collectVars, trainer>>

\* It raises, then so does the callback, and the loop only logs it.
Fail(g) ==
    /\ ~stuck /\ task[g] = "running" /\ fails < MaxFails
    /\ task' = [task EXCEPT ![g] = "done"] /\ fails' = fails + 1
    /\ exposed' = exposed \ {g}
    /\ UNCHANGED <<buffer, queue, callbacks, stuck, resultVars, collectVars, trainer>>

\* task_done_callback: output_queue.put, which blocks the thread while the queue is full.
Put ==
    /\ callbacks # <<>> /\ Len(queue) < QueueSize
    /\ queue' = Append(queue, Head(callbacks)) /\ callbacks' = Tail(callbacks)
    /\ stuck' = FALSE
    /\ UNCHANGED <<buffer, task, exposed, fails, resultVars, collectVars, trainer>>

Block ==
    /\ callbacks # <<>> /\ Len(queue) = QueueSize
    /\ ~stuck /\ stuck' = TRUE
    /\ UNCHANGED <<buffer, queue, task, exposed, callbacks, fails, resultVars, collectVars,
                   trainer>>

-----------------------------------------------------------------------------
\* The rollout function.
Begin ==
    /\ call = "idle" /\ call' = "collect"
    /\ UNCHANGED <<buffer, queue, workerVars, resultVars, completed, data, trainer>>

\* get_completed_groups: get_nowait until the queue is empty.
Get ==
    /\ call = "collect" /\ queue # <<>>
    /\ completed' = Append(completed, Head(queue)) /\ queue' = Tail(queue)
    /\ UNCHANGED <<buffer, workerVars, resultVars, call, data, trainer>>

Empty ==
    /\ call = "collect" /\ queue = <<>>
    /\ call' = "process"
    /\ UNCHANGED <<buffer, queue, workerVars, resultVars, completed, data, trainer>>

\* An aborted group goes back to the buffer, another one into the batch.
MutRejected(g) == FALSE
Rejected(g)    == result[g] = "aborted"

Process ==
    /\ call = "process" /\ completed # <<>> /\ Cardinality(data) < Target
    /\ completed' = Tail(completed)
    /\ IF Rejected(Head(completed))
       THEN /\ buffer' = Append(buffer, Head(completed)) /\ Forget({Head(completed)})
            /\ UNCHANGED data
       ELSE data' = data \cup {Head(completed)} /\ UNCHANGED <<buffer, resultVars>>
    /\ UNCHANGED <<queue, workerVars, call, trainer>>

Again ==
    /\ call = "process" /\ completed = <<>> /\ Cardinality(data) < Target
    /\ call' = "collect"
    /\ UNCHANGED <<buffer, queue, workerVars, resultVars, completed, data, trainer>>

\* The batch is returned; what else was collected is in a local variable.
MutLeftover == completed
Leftover    == <<>>

Return ==
    /\ call = "process" /\ Cardinality(data) = Target
    /\ call' = "idle" /\ data' = {} /\ completed' = Leftover
    /\ trainer' = "idle" /\ Forget((data \cup Elements(completed)) \ Elements(completed'))
    /\ UNCHANGED <<buffer, queue, workerVars>>

-----------------------------------------------------------------------------
\* train_async.py awaits the next rollout before it updates the weights.  The engines
\* abort what they are generating.
Update ==
    /\ call = "idle" /\ trainer = "idle"
    /\ trainer' = "updated"
    /\ exposed' = TasksIn("running") /\ late' = late \cup Elements(callbacks)
    /\ waited' = [g \in Group |->
                     IF g \in Pending THEN MinOf(waited[g] + 1, MaxWaited) ELSE waited[g]]
    /\ UNCHANGED <<buffer, queue, task, callbacks, stuck, fails, result, collectVars>>

Worker  == Submit \/ Put \/ Block
Collect == Get \/ Empty \/ Process \/ Again \/ Return

Next == Worker \/ Collect \/ Begin \/ Update \/ \E g \in Group : Finish(g) \/ Fail(g)

Spec == Init /\ [][Next]_vars

\* Both threads and the engines go on; an update or a failure need not happen.
FairSpec ==
    /\ Spec /\ WF_vars(Submit) /\ WF_vars(Put) /\ WF_vars(Collect)
    /\ \A g \in Group : WF_vars(Finish(g))

-----------------------------------------------------------------------------
TypeOK ==
    /\ {Elements(buffer), Elements(queue), Elements(completed), Elements(callbacks)}
           \subseteq SUBSET Group
    /\ Len(queue) <= QueueSize /\ Cardinality(TasksIn("running")) <= Target
    /\ task \in [Group -> {"none", "running", "done"}]
    /\ {exposed, late, data} \subseteq SUBSET Group /\ stuck \in BOOLEAN
    /\ result \in [Group -> {"complete", "aborted"}] /\ waited \in [Group -> 0..MaxWaited]
    /\ call \in {"idle", "collect", "process"} /\ trainer \in {"idle", "updated"}
    /\ fails \in 0..MaxFails

\* Whatever the two threads do to the buffer, the queue and the tasks, a group is in one
\* place: no prompt is generated twice at a time or is twice in a batch.
OneOwner ==
    Cardinality(Kept) = Len(buffer) + Cardinality(TasksIn("running")) + Len(callbacks)
                        + Len(queue) + Len(completed) + Cardinality(data)

\* A batch has complete groups only, and no result waits for longer than one update until it
\* is used, or two if its callback had to wait: results never pile up over several calls.
\* (Samples and prefixes kept from an earlier, aborted task of the group may be older.)
ResultsTakenSoon ==
    \A g \in data : result[g] = "complete" /\ waited[g] <= IF g \in late THEN 2 ELSE 1

\* A call returns, although tasks fail, are aborted and put themselves back, and the
\* worker stands still while the queue is full.
CallEnds == call # "idle" ~> call = "idle"
=============================================================================
