----------------------------- MODULE EventLoop -----------------------------
(***************************************************************************)
(* The fiber runtime behind `async fn`, go(), await, sleep_async and       *)
(* read_file_async (src/src/te_evloop.c).  One interpreter thread runs the *)
(* script, the scheduler of evloop_run_until and every fiber, one at a     *)
(* time; a pool of I/O workers runs blocking reads beside it.              *)
(*                                                                         *)
(* Steps of the interpreter thread that no worker and no clock can observe *)
(* are joined to the step before them; every critical section of io_mu and *)
(* every wait is a step of its own.  A slot with in_use = 0 is FREE.       *)
(* Awaits are made by the script; FiberContext adds what a fiber leaves    *)
(* outside its snapshot.                                                   *)
(***************************************************************************)
EXTENDS Integers, Sequences, FiniteSets

CONSTANTS FiberMax,   \* TE_FIBER_MAX: slots of the fiber pool
          Workers,    \* the TE_IO_WORKERS threads
          Values,     \* what the variables of a scope may hold
          NoScope,    \* a snapshot after ctx_free
          MaxMs,      \* bound: longest sleep_async, in clock ticks
          MaxOps      \* bound: async operations a task body makes

ASSUME EventLoopAssumption ==
    /\ FiberMax \in Nat \ {0}
    /\ IsFiniteSet(Workers) /\ Workers # {}
    /\ Values # {} /\ NoScope \notin Values
    /\ MaxMs \in Nat
    /\ MaxOps \in Nat

Fibers == 0 .. FiberMax - 1
Script == -1                    \* the code that is not in a fiber
Contexts == Fibers \union {Script}

\* what a worker does when it does not execute the job of a fiber
Checking == -1                  \* about to lock io_mu and test io_q_head
Waiting == -2                   \* in pthread_cond_wait on io_cv

VARIABLES
    state,        \* Fiber.state, with FREE for in_use = 0
    ctx,          \* Fiber.ctx: the parked scope of each fiber
    wake_in,      \* SLEEPING: ticks until wake_at
    ops,          \* operations the body of each fiber may still make
    live,         \* the live interpreter scope g_vm.vars[]
    caller,       \* evloop_run_until's local snapshot of its caller
    current,      \* E()->current, Script for NULL
    pc,           \* where the interpreter thread is, see TypeOK
    targets,      \* ids: the fibers being awaited
    at,           \* index i of the scan over ready fibers
    ran,          \* the scan resumed some fiber
    io_q,         \* io_q_head .. io_q_tail
    io_pending,   \* E()->io_pending
    job_done,     \* fibers whose io_job has done = 1
    woken,        \* the cond_wait of the scheduler was signalled
    worker,       \* each worker: Checking, Waiting, or whose job it executes
    own           \* history: the scope each context last had as its own

vars == <<state, ctx, wake_in, ops, live, caller, current, pc, targets, at, ran,
          io_q, io_pending, job_done, woken, worker, own>>
loop == <<targets, at, ran, current, caller>>
io == <<io_q, io_pending, job_done, woken, worker>>

TypeOK ==
    /\ state \in [Fibers -> {"FREE", "READY", "SLEEPING", "DONE", "IO_WAIT"}]
    /\ ctx \in [Fibers -> Values \union {NoScope}]
    /\ wake_in \in [Fibers -> 0 .. MaxMs]
    /\ ops \in [Fibers -> 0 .. MaxOps]
    /\ live \in Values                \* never a snapshot that was freed
    /\ caller \in Values \union {NoScope}
    /\ current \in Contexts
    \* script: outside the loop; top, scan: the loop; fiber: inside a fiber;
    \* cvwait: in io_wait_and_collect's wait; sleep: in te_msleep
    /\ pc \in {"script", "top", "scan", "fiber", "cvwait", "sleep"}
    /\ targets \in SUBSET Fibers
    /\ at \in 0 .. FiberMax
    /\ ran \in BOOLEAN
    /\ io_q \in Seq(Fibers)
    /\ io_pending \in Int
    /\ job_done \in SUBSET Fibers
    /\ woken \in BOOLEAN
    /\ worker \in [Workers -> {Checking, Waiting} \union Fibers]
    /\ own \in [Contexts -> Values \union {NoScope}]

InState(s) == {f \in Fibers : state[f] = s}

Init ==
    /\ \E v \in Values :
           /\ live = v
           /\ own = [c \in Contexts |-> IF c = Script THEN v ELSE NoScope]
    /\ state = [f \in Fibers |-> "FREE"]
    /\ ctx = [f \in Fibers |-> NoScope]
    /\ wake_in = [f \in Fibers |-> 0]
    /\ ops = [f \in Fibers |-> 0]
    /\ caller = NoScope
    /\ current = Script
    /\ pc = "script"
    /\ targets = {}
    /\ at = 0
    /\ ran = FALSE
    /\ io_q = <<>>
    /\ io_pending = 0
    /\ job_done = {}
    /\ woken = FALSE
    /\ worker = [w \in Workers |-> Checking]

-----------------------------------------------------------------------------
(* go(): the scope may have changed to v since the last step. *)

(* fiber_find_free: the lowest slot not in use. *)
IsFirstFree(f) == f \in InState("FREE") /\ \A g \in InState("FREE") : f <= g

(* adapt_go with a slot left, called by context c. *)
Spawn(c, f, v) ==
    /\ IsFirstFree(f)
    /\ state' = [state EXCEPT ![f] = "READY"]
    /\ ctx' = [ctx EXCEPT ![f] = v]
    /\ live' = v
    /\ own' = [own EXCEPT ![c] = v, ![f] = v]

ScriptGo ==
    /\ pc = "script"
    /\ \E f \in Fibers, v \in Values :
           /\ Spawn(Script, f, v)
           /\ ops' = [ops EXCEPT ![f] = MaxOps]
    /\ UNCHANGED <<pc, wake_in, loop, io>>

(* With the pool full go returns -1: the operation is spent, nothing starts. *)
FiberGo ==
    /\ pc = "fiber"
    /\ ops[current] > 0
    /\ IF InState("FREE") = {}
       THEN /\ ops' = [ops EXCEPT ![current] = @ - 1]
            /\ UNCHANGED <<state, ctx, live, own>>
       ELSE \E f \in Fibers, v \in Values :
                /\ Spawn(current, f, v)
                /\ ops' = [ops EXCEPT ![f] = MaxOps, ![current] = @ - 1]
    /\ UNCHANGED <<pc, wake_in, loop, io>>

-----------------------------------------------------------------------------
(* Inside a fiber: what ends its turn. *)

(* Faulty variant: a yield that does not call ctx_save. *)
YieldUnsaved(v) ==
    /\ live' = v
    /\ own' = [own EXCEPT ![current] = v]
    /\ UNCHANGED ctx

(* fiber_yield: the turn left v in its variables, ctx_save keeps it. *)
Yield(v) ==
    /\ live' = v
    /\ own' = [own EXCEPT ![current] = v]
    /\ ctx' = [ctx EXCEPT ![current] = v]

(* The switch back to the scan: fiber_resume clears current. *)
BackToScan ==
    /\ pc' = "scan"
    /\ at' = current + 1
    /\ current' = Script
    /\ UNCHANGED <<ran, targets, caller>>

(* adapt_sleep_async in a fiber. *)
SleepAsync ==
    /\ pc = "fiber"
    /\ ops[current] > 0
    /\ state' = [state EXCEPT ![current] = "SLEEPING"]
    /\ \E ms \in 0 .. MaxMs : wake_in' = [wake_in EXCEPT ![current] = ms]
    /\ \E v \in Values : Yield(v)
    /\ ops' = [ops EXCEPT ![current] = @ - 1]
    /\ BackToScan
    /\ UNCHANGED io

(* Faulty variant: the job is queued, no worker is told. *)
SignalNobody == UNCHANGED worker

(* pthread_cond_signal(&io_cv): one waiting worker, if there is one. *)
SignalWorker ==
    LET asleep == {w \in Workers : worker[w] = Waiting} IN
    IF asleep = {}
    THEN UNCHANGED worker
    ELSE \E w \in asleep : worker' = [worker EXCEPT ![w] = Checking]

(* adapt_read_file_async in a fiber, with the critical section of io_submit. *)
ReadFileAsync ==
    /\ pc = "fiber"
    /\ ops[current] > 0
    /\ state' = [state EXCEPT ![current] = "IO_WAIT"]
    /\ io_q' = Append(io_q, current)
    /\ io_pending' = io_pending + 1
    /\ SignalWorker
    /\ \E v \in Values : Yield(v)
    /\ ops' = [ops EXCEPT ![current] = @ - 1]
    /\ BackToScan
    /\ UNCHANGED <<wake_in, job_done, woken>>

(* The lambda returns: fiber_body sets DONE and uc_link leads to the scan. *)
Finish ==
    /\ pc = "fiber"
    /\ state' = [state EXCEPT ![current] = "DONE"]
    /\ \E v \in Values : live' = v
    /\ BackToScan
    /\ UNCHANGED <<ctx, own, wake_in, ops, io>>

-----------------------------------------------------------------------------
(* evloop_run_until: the loop that an await of the script drives. *)

(* te_evloop_await_handles and its siblings, up to the head of the loop. *)
Await ==
    /\ pc = "script"
    /\ targets' \in SUBSET (Fibers \ InState("FREE")) \ {{}}
    /\ \E v \in Values :
           /\ live' = v
           /\ caller' = v
           /\ own' = [own EXCEPT ![Script] = v]
    /\ pc' = "top"
    /\ UNCHANGED <<state, ctx, wake_in, ops, at, ran, current, io>>

AllDone == targets \subseteq InState("DONE")

(* for (;;) { not all done: start a scan. *)
Top ==
    /\ pc = "top"
    /\ ~ AllDone
    /\ pc' = "scan"
    /\ at' = 0
    /\ ran' = FALSE
    /\ UNCHANGED <<state, ctx, wake_in, ops, live, caller, current, targets, own, io>>

(* The scan's next ready fiber. *)
NextReady(f) ==
    /\ f \in InState("READY") /\ at <= f
    /\ \A g \in InState("READY") : at <= g => f <= g

NoneReady == \A f \in InState("READY") : f < at

(* fiber_resume.  A fiber resumed after a read frees its job. *)
Resume ==
    /\ pc = "scan"
    /\ \E f \in Fibers :
           /\ NextReady(f)
           /\ live' = ctx[f]
           /\ current' = f
           /\ job_done' = job_done \ {f}
    /\ pc' = "fiber"
    /\ ran' = TRUE
    /\ UNCHANGED <<state, ctx, wake_in, ops, caller, targets, at,
                   io_q, io_pending, woken, worker, own>>

(* if (ran) continue; *)
ScanAgain ==
    /\ pc = "scan"
    /\ NoneReady
    /\ ran
    /\ pc' = "top"
    /\ UNCHANGED <<state, ctx, wake_in, ops, live, own, loop, io>>

(* Nothing ran: only now does the loop wait. *)
Idle == pc = "scan" /\ NoneReady /\ ~ ran

(* Faulty variant: the guard looks at the timers only. *)
NoProgressTimers == InState("SLEEPING") = {}

(* The deadlock guard: no timer and no read is outstanding. *)
NoProgress == InState("SLEEPING") = {} /\ InState("IO_WAIT") = {}

(* ctx_restore(&caller); ctx_free(&caller). *)
Leave ==
    /\ live' = caller
    /\ caller' = NoScope

(* The loop ends and fiber_take_result empties the slot of every target. *)
Return ==
    /\ (pc = "top" /\ AllDone) \/ (Idle /\ NoProgress)
    /\ Leave
    /\ state' = [f \in Fibers |-> IF f \in targets THEN "FREE" ELSE state[f]]
    /\ ctx' = [f \in Fibers |-> IF f \in targets THEN NoScope ELSE ctx[f]]
    /\ own' = [c \in Contexts |-> IF c \in targets THEN NoScope ELSE own[c]]
    /\ ops' = [f \in Fibers |-> IF f \in targets THEN 0 ELSE ops[f]]
    /\ wake_in' = [f \in Fibers |-> IF f \in targets THEN 0 ELSE wake_in[f]]
    /\ targets' = {}
    /\ pc' = "script"
    /\ UNCHANGED <<at, ran, current, io>>

(* Fibers whose timer is due. *)
Due == {f \in InState("SLEEPING") : wake_in[f] = 0}

Finished == InState("IO_WAIT") \intersect job_done

(* The end of io_wait_and_collect, under io_mu, and the promotion of due     *)
(* sleepers that follows it.                                                 *)
Collect ==
    /\ state' = [f \in Fibers |-> IF f \in Finished \union Due THEN "READY"
                                  ELSE state[f]]
    /\ io_pending' = io_pending - Cardinality(Finished)

(* Faulty variant: without any_done, wait whenever work is outstanding. *)
MustWaitAlways == io_pending > 0

(* io_wait_and_collect blocks only if no outstanding read has finished. *)
MustWait == io_pending > 0 /\ Finished = {}

(* io_wait_and_collect when something has finished already. *)
CollectNow ==
    /\ Idle
    /\ InState("IO_WAIT") # {}
    /\ ~ MustWait
    /\ Collect
    /\ pc' = "top"
    /\ UNCHANGED <<ctx, wake_in, ops, live, own, loop, io_q, job_done, woken, worker>>

(* io_wait_and_collect up to its wait on io_done_cv. *)
StartWait ==
    /\ Idle
    /\ InState("IO_WAIT") # {}
    /\ MustWait
    /\ pc' = "cvwait"
    /\ woken' = FALSE
    /\ UNCHANGED <<state, ctx, wake_in, ops, live, own, loop,
                   io_q, io_pending, job_done, worker>>

(* Back from the wait, with io_mu held again. *)
EndWait ==
    /\ pc = "cvwait"
    /\ Collect
    /\ pc' = "top"
    /\ UNCHANGED <<ctx, wake_in, ops, live, own, loop, io_q, job_done, woken, worker>>

(* Signalled, or the budget of the earliest timer has run out. *)
WaitOver == (woken \/ Due # {}) /\ EndWait

(* pthread_cond_wait may return for no reason. *)
SpuriousWakeup == ~ woken /\ Due = {} /\ EndWait

(* Only timers are pending: te_msleep. *)
StartSleep ==
    /\ Idle
    /\ InState("IO_WAIT") = {}
    /\ InState("SLEEPING") # {}
    /\ pc' = "sleep"
    /\ UNCHANGED <<state, ctx, wake_in, ops, live, own, loop, io>>

(* Faulty variant: back from te_msleep nobody is promoted. *)
EndSleepUnpromoted ==
    /\ pc = "sleep"
    /\ pc' = "top"
    /\ UNCHANGED <<state, ctx, wake_in, ops, live, own, loop, io>>

(* Back from te_msleep, due sleepers become ready. *)
EndSleep ==
    /\ pc = "sleep"
    /\ state' = [f \in Fibers |-> IF f \in Due THEN "READY" ELSE state[f]]
    /\ pc' = "top"
    /\ UNCHANGED <<ctx, wake_in, ops, live, own, loop, io>>

SleepOver == Due # {} /\ EndSleep

(* nanosleep stops at a signal and is not called again. *)
SleepInterrupted == Due = {} /\ EndSleep

(* CLOCK_MONOTONIC moves on. *)
Tick ==
    /\ \E f \in InState("SLEEPING") : wake_in[f] > 0
    /\ wake_in' = [f \in Fibers |-> IF wake_in[f] > 0 THEN wake_in[f] - 1 ELSE 0]
    /\ UNCHANGED <<state, ctx, ops, live, own, pc, loop, io>>

-----------------------------------------------------------------------------
(* io_worker_main: one action per critical section of io_mu. *)

(* The queue is empty: wait on io_cv. *)
WorkerWait(w) ==
    /\ worker[w] = Checking
    /\ io_q = <<>>
    /\ worker' = [worker EXCEPT ![w] = Waiting]
    /\ UNCHANGED <<state, ctx, wake_in, ops, live, own, pc, loop,
                   io_q, io_pending, job_done, woken>>

WorkerSpuriousWakeup(w) ==
    /\ worker[w] = Waiting
    /\ worker' = [worker EXCEPT ![w] = Checking]
    /\ UNCHANGED <<state, ctx, wake_in, ops, live, own, pc, loop,
                   io_q, io_pending, job_done, woken>>

(* Faulty variant: the job stays at the head of the queue. *)
WorkerPeek(w) ==
    /\ worker[w] = Checking
    /\ io_q # <<>>
    /\ worker' = [worker EXCEPT ![w] = Head(io_q)]
    /\ UNCHANGED <<state, ctx, wake_in, ops, live, own, pc, loop,
                   io_q, io_pending, job_done, woken>>

(* Unlink the head of the queue; io_execute begins. *)
WorkerTake(w) ==
    /\ worker[w] = Checking
    /\ io_q # <<>>
    /\ worker' = [worker EXCEPT ![w] = Head(io_q)]
    /\ io_q' = Tail(io_q)
    /\ UNCHANGED <<state, ctx, wake_in, ops, live, own, pc, loop,
                   io_pending, job_done, woken>>

(* io_execute is over: done = 1, pthread_cond_signal(&io_done_cv). *)
WorkerDone(w) ==
    /\ worker[w] \in Fibers
    /\ job_done' = job_done \union {worker[w]}
    /\ woken' = (woken \/ pc = "cvwait")
    /\ worker' = [worker EXCEPT ![w] = Checking]
    /\ UNCHANGED <<state, ctx, wake_in, ops, live, own, pc, loop, io_q, io_pending>>

-----------------------------------------------------------------------------
FiberStep == FiberGo \/ SleepAsync \/ ReadFileAsync \/ Finish

LoopStep ==
    \/ Top \/ Resume \/ ScanAgain \/ Return
    \/ CollectNow \/ StartWait \/ WaitOver \/ StartSleep \/ SleepOver

WorkerStep(w) == WorkerWait(w) \/ WorkerTake(w) \/ WorkerDone(w)

Next ==
    \/ ScriptGo \/ Await
    \/ FiberStep \/ LoopStep
    \/ SpuriousWakeup \/ SleepInterrupted
    \/ Tick
    \/ \E w \in Workers : WorkerStep(w) \/ WorkerSpuriousWakeup(w)

(* Task bodies terminate, the interpreter thread and the workers are         *)
(* scheduled, reads of files return and time passes.  Nobody owes a go(), an *)
(* await or a spurious wakeup.                                               *)
Fairness ==
    /\ WF_vars(FiberStep \/ LoopStep)
    /\ WF_vars(Tick)
    /\ \A w \in Workers : WF_vars(WorkerStep(w))

Spec == Init /\ [][Next]_vars /\ Fairness

-----------------------------------------------------------------------------
(* The context whose code runs sees the scope it had when it last ran (or    *)
(* was started with), whatever the other tasks did to theirs in between      *)
(* ("interleaved tasks do not clobber each other's locals",                  *)
(* src/src/te_evloop.c:18-22).                                               *)
ScopeIsolated ==
    /\ pc = "script" => live = own[Script]
    /\ pc = "fiber" => live = own[current]

(* The counter that decides whether to block is the number of reads that     *)
(* were submitted and whose fiber still waits: with one too few              *)
(* io_wait_and_collect would spin, with one too many it would wait for a     *)
(* signal nobody will send.                                                  *)
PendingExact == io_pending = Cardinality(InState("IO_WAIT"))

Queued(f) == \E i \in DOMAIN io_q : io_q[i] = f
Executed(f) == \E w \in Workers : worker[w] = f

(* Every fiber that waits for a read has one job, and it is in one place:    *)
(* queued, executed by one worker, or done.  No job outlives its fiber, none *)
(* is run twice and none is lost.                                            *)
OneJobEach ==
    /\ \A i, j \in DOMAIN io_q : io_q[i] = io_q[j] => i = j
    /\ \A w, x \in Workers : worker[w] \in Fibers /\ worker[w] = worker[x] => w = x
    /\ \A f \in Fibers : ~ (Queued(f) /\ Executed(f))
    /\ \A f \in job_done : ~ Queued(f) /\ ~ Executed(f)
    /\ \A f \in Fibers : Queued(f) \/ Executed(f) => state[f] = "IO_WAIT"
    /\ \A f \in job_done : state[f] \in {"IO_WAIT", "READY"}
    /\ \A f \in InState("IO_WAIT") : Queued(f) \/ Executed(f) \/ f \in job_done

(* The scheduler never sleeps through a finished read: a worker that was     *)
(* done before the wait began is seen by any_done, a later one signals       *)
(* (the comment of io_wait_and_collect, src/src/te_evloop.c:535-538).        *)
NoMissedDone == pc = "cvwait" /\ ~ woken => Finished = {}

(* Queued work never finds every worker asleep. *)
NoIdlePool == io_q # <<>> => \E w \in Workers : worker[w] # Waiting

(* An await returns only when every awaited task is DONE: the deadlock guard *)
(* never cuts one short.                                                     *)
AwaitReturnsFinished ==
    [][pc # "script" /\ pc' = "script" => AllDone]_vars

(* Every await returns, whatever sleeps and reads its tasks and the other    *)
(* tasks make.                                                               *)
AwaitCompletes == pc # "script" ~> pc = "script"
=============================================================================
