--------------------------- MODULE Threads_proofs ---------------------------
(***************************************************************************)
(* What goes on beside the interpreter's thread, the workers of the event  *)
(* loop and the debugger's two threads.                                    *)
(*                                                                         *)
(* EventLoop, for every number of slots and workers and every set of       *)
(* values: type correctness, isolation of the scopes, one job per waiting  *)
(* fiber, no missed completion, no idle pool, and that an await returns    *)
(* only when its tasks are done.                                           *)
(*                                                                         *)
(* Debugger, for any number of lines, calls, frames and commands on their  *)
(* way: a step does not stop in a method that is called, and also when an  *)
(* adapter attaches while a request runs (Quiet is not used).              *)
(***************************************************************************)
EXTENDS EventLoop, Debugger, FiniteSetTheorems, SequenceTheorems, TLAPS

(* The parked scope of every fiber that waits for its turn is its own; the   *)
(* interpreter thread is in a fiber exactly when current says so.            *)
ScopeInv ==
    /\ pc = "script" => live = own[Script]
    /\ pc # "script" => caller = own[Script] /\ caller \in Values
    /\ pc = "fiber" => /\ current \in Fibers
                       /\ live = own[current]
                       /\ state[current] = "READY"
    /\ pc # "fiber" => current = Script
    /\ \A f \in Fibers \ {current} : state[f] \in {"READY", "SLEEPING", "IO_WAIT"} =>
           ctx[f] = own[f] /\ ctx[f] \in Values

(* Awaited slots are in use, and a scan that ran nothing skipped nobody.     *)
AwaitInv ==
    /\ \A f \in targets : state[f] # "FREE"
    /\ pc = "scan" /\ ~ ran => at = 0
    /\ pc = "fiber" => ran

(* The fiber that runs has no job. *)
JobInv ==
    /\ OneJobEach
    /\ pc = "fiber" => current \notin job_done

IInv == TypeOK /\ ScopeInv /\ AwaitInv /\ JobInv /\ NoMissedDone /\ NoIdlePool

-----------------------------------------------------------------------------
(* Every set of slots is finite. *)
LEMMA SlotsFinite ==
    ASSUME EventLoopAssumption PROVE \A S \in SUBSET Fibers : IsFiniteSet(S)
  <1>1. 0 \in Int /\ FiberMax - 1 \in Int
    BY EventLoopAssumption DEF EventLoopAssumption
  <1>2. IsFiniteSet(Fibers)
    BY <1>1, FS_Interval, Zenon DEF Fibers
  <1> QED
    BY <1>2, FS_Subset

(* Steps that touch no job and let nobody begin or cease to wait for one.    *)
LEMMA JobsUntouched ==
    ASSUME OneJobEach, UNCHANGED <<io_q, worker, job_done>>,
           \A f \in Fibers : state'[f] = "IO_WAIT" <=> state[f] = "IO_WAIT",
           \A f \in job_done : state'[f] \in {"IO_WAIT", "READY"}
    PROVE  OneJobEach'
  BY DEF OneJobEach, Queued, Executed, InState

(* Steps after which the same fibers have a worker. *)
LEMMA SameExecuted ==
    ASSUME \A x \in Workers, f \in Fibers : worker'[x] = f <=> worker[x] = f
    PROVE  \A f \in Fibers : Executed(f)' <=> Executed(f)
  BY DEF Executed

(* A loop that is left has finished every fiber it waited for. *)
LEMMA ReturnAllDone == ASSUME IInv, Return PROVE AllDone
  <1>1. CASE pc = "top" /\ AllDone
    BY <1>1
  <1>2. CASE Idle /\ NoProgress
    <2>1. \A f \in Fibers : state[f] \in {"FREE", "DONE"}
      BY <1>2
         DEF IInv, TypeOK, AwaitInv, Idle, NoneReady, NoProgress, InState,
             Fibers
    <2> QED
      BY <2>1 DEF IInv, TypeOK, AwaitInv, AllDone, InState
  <1> QED
    BY <1>1, <1>2 DEF Return

LEMMA InitInv == ASSUME EventLoopAssumption, Init PROVE IInv
  <1>1. TypeOK
    <2>1. PICK v \in Values :
              live = v /\ own = [c \in Contexts |-> IF c = Script THEN v ELSE NoScope]
      BY DEF Init
    <2>2. live \in Values /\ own \in [Contexts -> Values \union {NoScope}]
      BY <2>1
    <2>3. /\ state \in [Fibers -> {"FREE", "READY", "SLEEPING", "DONE", "IO_WAIT"}]
          /\ ctx \in [Fibers -> Values \union {NoScope}]
          /\ worker \in [Workers -> {Checking, Waiting} \union Fibers]
      BY DEF Init
    <2>4. /\ wake_in \in [Fibers -> 0 .. MaxMs]
          /\ ops \in [Fibers -> 0 .. MaxOps]
          /\ at \in 0 .. FiberMax
      BY DEF Init, EventLoopAssumption
    <2>5. current \in Contexts /\ io_q \in Seq(Fibers)
      BY DEF Init, Contexts
    <2>6. /\ caller \in Values \union {NoScope}
          /\ pc \in {"script", "top", "scan", "fiber", "cvwait", "sleep"}
          /\ targets \in SUBSET Fibers /\ job_done \in SUBSET Fibers
          /\ ran \in BOOLEAN /\ woken \in BOOLEAN
      BY Zenon DEF Init
    <2>7. io_pending \in Int
      BY DEF Init
    <2> QED
      BY <2>2, <2>3, <2>4, <2>5, <2>6, <2>7, Zenon DEF TypeOK
  <1>2. ScopeInv /\ AwaitInv
    BY DEF Init, ScopeInv, AwaitInv, Contexts, Script
  <1>3. JobInv
    BY DEF Init, JobInv, OneJobEach, InState, Queued, Checking, Fibers
  <1>4. NoMissedDone /\ NoIdlePool
    BY DEF Init, NoMissedDone, NoIdlePool
  <1> QED
    BY <1>1, <1>2, <1>3, <1>4 DEF IInv

LEMMA TypeNext ==
    ASSUME EventLoopAssumption, IInv, [Next]_vars PROVE TypeOK'
  <1>1. CASE ScriptGo
    <2>1. PICK f \in Fibers, v \in Values : Spawn(Script, f, v) /\ ops' = [ops EXCEPT ![f] = MaxOps]
      BY <1>1 DEF ScriptGo
    <2>2. /\ state' \in [Fibers -> {"FREE", "READY", "SLEEPING", "DONE", "IO_WAIT"}]
          /\ ctx' \in [Fibers -> Values \union {NoScope}]
          /\ live' \in Values
          /\ own' \in [Contexts -> Values \union {NoScope}]
      BY <2>1 DEF Spawn, IInv, TypeOK
    <2>3. ops' \in [Fibers -> 0 .. MaxOps]
      BY <2>1 DEF IInv, TypeOK
    <2> QED
      BY <1>1, <2>2, <2>3 DEF ScriptGo, IInv, TypeOK, loop, io
  <1>2. CASE Await
    BY <1>2 DEF IInv, TypeOK, Waiting, Await, io
  <1>3. CASE FiberGo
    <2>1. current \in Fibers /\ ops[current] \in 0 .. MaxOps /\ ops[current] > 0
      BY <1>3 DEF FiberGo, IInv, ScopeInv, TypeOK
    <2>2. CASE InState("FREE") = {}
      <3>1. ops' \in [Fibers -> 0 .. MaxOps]
        <4>1. ops' = [ops EXCEPT ![current] = @ - 1]
          BY <1>3, <2>2 DEF FiberGo
        <4>2. ops[current] - 1 \in 0 .. MaxOps
          BY <2>1, EventLoopAssumption DEF EventLoopAssumption
        <4> QED
          BY <2>1, <4>1, <4>2 DEF IInv, TypeOK
      <3> QED
        BY <1>3, <2>2, <3>1 DEF FiberGo, IInv, TypeOK, loop, io
    <2>3. CASE InState("FREE") # {}
      <3>1. PICK f \in Fibers, v \in Values :
                /\ Spawn(current, f, v)
                /\ ops' = [ops EXCEPT ![f] = MaxOps, ![current] = @ - 1]
        BY <1>3, <2>3 DEF FiberGo
      <3>2. /\ state' \in [Fibers -> {"FREE", "READY", "SLEEPING", "DONE", "IO_WAIT"}]
            /\ ctx' \in [Fibers -> Values \union {NoScope}]
            /\ live' \in Values
            /\ own' \in [Contexts -> Values \union {NoScope}]
        BY <3>1 DEF Spawn, IInv, TypeOK
      <3>3. f # current
        BY <1>3, <3>1 DEF FiberGo, Spawn, IsFirstFree, InState, IInv, ScopeInv
      <3>4. ops' \in [Fibers -> 0 .. MaxOps]
        <4>1. ops[current] - 1 \in 0 .. MaxOps /\ MaxOps \in 0 .. MaxOps
          BY <2>1, EventLoopAssumption
        <4>2. [ops EXCEPT ![f] = MaxOps] \in [Fibers -> 0 .. MaxOps]
          BY <4>1 DEF IInv, TypeOK
        <4>3. ops' = [[ops EXCEPT ![f] = MaxOps] EXCEPT ![current] = ops[current] - 1]
          BY <2>1, <3>1, <3>3 DEF IInv, TypeOK
        <4> QED
          BY <2>1, <4>1, <4>2, <4>3
      <3> QED
        BY <1>3, <3>2, <3>4 DEF FiberGo, IInv, TypeOK, loop, io
    <2> QED
      BY <2>2, <2>3
  <1>4. CASE SleepAsync
    <2>1. current \in Fibers /\ ops[current] \in 0 .. MaxOps /\ ops[current] > 0
      BY <1>4 DEF SleepAsync, IInv, ScopeInv, TypeOK
    <2>2. PICK v \in Values : Yield(v)
      BY <1>4 DEF SleepAsync
    <2>3. /\ live' \in Values
          /\ ctx' \in [Fibers -> Values \union {NoScope}]
          /\ own' \in [Contexts -> Values \union {NoScope}]
          /\ state' \in [Fibers -> {"FREE", "READY", "SLEEPING", "DONE", "IO_WAIT"}]
      BY <1>4, <2>2 DEF SleepAsync, Yield, IInv, TypeOK
    <2>4. /\ ops' \in [Fibers -> 0 .. MaxOps]
          /\ at' \in 0 .. FiberMax
          /\ current' \in Contexts /\ pc' = "scan"
      BY <1>4, <2>1, EventLoopAssumption
         DEF SleepAsync, BackToScan, IInv, TypeOK, Fibers, Contexts
    <2>5. wake_in' \in [Fibers -> 0 .. MaxMs]
      BY <1>4, <2>1 DEF SleepAsync, IInv, TypeOK
    <2> QED
      BY <1>4, <2>3, <2>4, <2>5 DEF SleepAsync, BackToScan, IInv, TypeOK, io
  <1>5. CASE ReadFileAsync
    <2>1. current \in Fibers /\ ops[current] \in 0 .. MaxOps /\ ops[current] > 0
      BY <1>5 DEF ReadFileAsync, IInv, ScopeInv, TypeOK
    <2>2. PICK v \in Values : Yield(v)
      BY <1>5 DEF ReadFileAsync
    <2>3. /\ live' \in Values
          /\ ctx' \in [Fibers -> Values \union {NoScope}]
          /\ own' \in [Contexts -> Values \union {NoScope}]
          /\ state' \in [Fibers -> {"FREE", "READY", "SLEEPING", "DONE", "IO_WAIT"}]
      BY <1>5, <2>2 DEF ReadFileAsync, Yield, IInv, TypeOK
    <2>4. ops' \in [Fibers -> 0 .. MaxOps]
      <3>1. ops[current] - 1 \in 0 .. MaxOps
        BY <2>1, EventLoopAssumption
      <3>2. ops' = [ops EXCEPT ![current] = ops[current] - 1]
        BY <1>5 DEF ReadFileAsync
      <3> QED
        BY <2>1, <3>1, <3>2 DEF IInv, TypeOK
    <2>7. /\ at' \in 0 .. FiberMax
          /\ current' \in Contexts /\ pc' = "scan"
      BY <1>5, <2>1, EventLoopAssumption
         DEF ReadFileAsync, BackToScan, Fibers, Contexts
    <2>5. io_q' \in Seq(Fibers) /\ io_pending' \in Int
      BY <1>5, <2>1 DEF ReadFileAsync, IInv, TypeOK
    <2>6. worker' \in [Workers -> {Checking, Waiting} \union Fibers]
      BY <1>5 DEF ReadFileAsync, SignalWorker, IInv, TypeOK
    <2> QED
      BY <1>5, <2>3, <2>4, <2>5, <2>6, <2>7
         DEF ReadFileAsync, BackToScan, IInv, TypeOK
  <1>6. CASE Finish
    BY <1>6, EventLoopAssumption, SMTT(30)
       DEF IInv, TypeOK, ScopeInv, InState, Fibers, Contexts, Script,
           Checking, Waiting, Finish, BackToScan, loop, io,
           EventLoopAssumption
  <1>7. CASE Top
    <2>1. at' \in 0 .. FiberMax
      BY <1>7, EventLoopAssumption DEF Top, EventLoopAssumption
    <2>2. ran' \in BOOLEAN
      BY <1>7, Zenon DEF Top
    <2> QED
      BY <1>7, <2>1, <2>2 DEF Top, IInv, TypeOK, io
  <1>8. CASE Resume
    BY <1>8
       DEF IInv, TypeOK, ScopeInv, InState, Contexts, Script, Waiting, Resume,
           NextReady
  <1>9. CASE ScanAgain \/ StartSleep
    BY <1>9 DEF IInv, TypeOK, ScanAgain, StartSleep, Idle, loop, io
  <1>10. CASE Return
    <2>1. /\ state' \in [Fibers -> {"FREE", "READY", "SLEEPING", "DONE", "IO_WAIT"}]
          /\ ctx' \in [Fibers -> Values \union {NoScope}]
          /\ own' \in [Contexts -> Values \union {NoScope}]
      BY <1>10 DEF Return, IInv, TypeOK
    <2>2. /\ ops' \in [Fibers -> 0 .. MaxOps]
          /\ wake_in' \in [Fibers -> 0 .. MaxMs]
      BY <1>10 DEF Return, IInv, TypeOK
    <2>3. pc # "script"
      BY <1>10 DEF Return, Idle
    <2>4. live' \in Values /\ caller' = NoScope
      BY <1>10, <2>3 DEF Return, Leave, IInv, ScopeInv
    <2> QED
      BY <1>10, <2>1, <2>2, <2>4 DEF Return, IInv, TypeOK, io
  <1>11. CASE CollectNow
    <2>1. state' \in [Fibers -> {"FREE", "READY", "SLEEPING", "DONE", "IO_WAIT"}]
      BY <1>11 DEF CollectNow, Collect, IInv, TypeOK
    <2>2. io_pending' \in Int
      BY <1>11, SlotsFinite, FS_CardinalityType
         DEF CollectNow, Collect, Finished, InState, IInv
    <2> QED
      BY <1>11, <2>1, <2>2 DEF CollectNow, IInv, TypeOK, loop
  <1>12. CASE StartWait
    BY <1>12 DEF IInv, TypeOK, StartWait, MustWait, Idle, loop
  <1>13. CASE EndWait
    <2>1. state' \in [Fibers -> {"FREE", "READY", "SLEEPING", "DONE", "IO_WAIT"}]
      BY <1>13 DEF EndWait, Collect, IInv, TypeOK
    <2>2. io_pending' \in Int
      BY <1>13, SlotsFinite, FS_CardinalityType
         DEF EndWait, Collect, Finished, InState, IInv
    <2> QED
      BY <1>13, <2>1, <2>2 DEF EndWait, IInv, TypeOK, loop
  <1>14. CASE EndSleep
    BY <1>14 DEF IInv, TypeOK, EndSleep, Due, loop, io
  <1>15. CASE Tick
    <2>1. wake_in' \in [Fibers -> 0 .. MaxMs]
      BY <1>15 DEF Tick, IInv, TypeOK
    <2> QED
      BY <1>15, <2>1 DEF Tick, IInv, TypeOK, loop, io
  <1>16. CASE \E w \in Workers : WorkerWait(w)
    BY <1>16 DEF IInv, TypeOK, Waiting, WorkerWait, loop
  <1>17. CASE \E w \in Workers : WorkerSpuriousWakeup(w)
    BY <1>17 DEF IInv, TypeOK, Waiting, WorkerSpuriousWakeup, loop
  <1>18. CASE \E w \in Workers : WorkerTake(w)
    <2>1. PICK w \in Workers : WorkerTake(w)
      BY <1>18
    <2>2. Head(io_q) \in Fibers /\ Tail(io_q) \in Seq(Fibers)
      BY <2>1, HeadTailProperties DEF WorkerTake, IInv, TypeOK
    <2>3. /\ io_q' \in Seq(Fibers)
          /\ worker' \in [Workers -> {Checking, Waiting} \union Fibers]
      BY <2>1, <2>2 DEF WorkerTake, IInv, TypeOK
    <2> QED
      BY <2>1, <2>3 DEF WorkerTake, IInv, TypeOK, loop
  <1>19. CASE \E w \in Workers : WorkerDone(w)
    BY <1>19 DEF IInv, TypeOK, Waiting, WorkerDone, loop
  <1>20. CASE UNCHANGED vars
    BY <1>20
       DEF IInv, TypeOK, ScopeInv, InState, Fibers, Contexts, Script,
           Checking, Waiting, vars
  <1> QED
    BY <1>1, <1>2, <1>3, <1>4, <1>5, <1>6, <1>7, <1>8, <1>9, <1>10, <1>11,
       <1>12, <1>13, <1>14, <1>15, <1>16, <1>17, <1>18, <1>19, <1>20
       DEF Next, FiberStep, LoopStep, WorkerStep, WaitOver, SpuriousWakeup,
           SleepOver, SleepInterrupted

LEMMA ScopeNext ==
    ASSUME EventLoopAssumption, IInv, [Next]_vars PROVE ScopeInv'
  <1>1. CASE ScriptGo
    <2>1. PICK f \in Fibers, v \in Values : Spawn(Script, f, v)
      BY <1>1 DEF ScriptGo
    <2>2. f # Script /\ Script \notin Fibers /\ Script \in Contexts /\ Fibers \subseteq Contexts
      BY EventLoopAssumption DEF EventLoopAssumption, Fibers, Contexts, Script
    <2>3. live' = own'[Script] /\ pc' = "script" /\ current' = Script
      BY <1>1, <2>1, <2>2 DEF ScriptGo, Spawn, loop, IInv, TypeOK, ScopeInv
    <2>4. \A g \in Fibers \ {current} : state'[g] \in {"READY", "SLEEPING", "IO_WAIT"} =>
               ctx'[g] = own'[g] /\ ctx'[g] \in Values
      <3> SUFFICES ASSUME NEW g \in Fibers \ {current},
                          state'[g] \in {"READY", "SLEEPING", "IO_WAIT"}
                   PROVE  ctx'[g] = own'[g] /\ ctx'[g] \in Values
        OBVIOUS
      <3>1. CASE g = f
        BY <2>1, <2>2, <3>1 DEF Spawn, IInv, TypeOK
      <3>2. CASE g # f
        BY <2>1, <2>2, <3>2 DEF Spawn, IInv, TypeOK, ScopeInv
      <3> QED
        BY <3>1, <3>2
    <2>5. current' = current
      BY <1>1 DEF ScriptGo, loop
    <2> QED
      BY <2>3, <2>4, <2>5 DEF ScopeInv
  <1>2. CASE Await
    BY <1>2 DEF IInv, TypeOK, ScopeInv, Contexts, Script, Await
  <1>3. CASE FiberGo
    <2>1. /\ pc' = "fiber" /\ pc = "fiber" /\ current' = current /\ caller' = caller
          /\ current \in Fibers /\ state[current] = "READY"
      BY <1>3 DEF FiberGo, loop, IInv, ScopeInv
    <2>2. CASE InState("FREE") = {}
      BY <1>3, <2>1, <2>2 DEF FiberGo, IInv, ScopeInv
    <2>3. CASE InState("FREE") # {}
      <3>1. PICK f \in Fibers, v \in Values : Spawn(current, f, v)
        BY <1>3, <2>3 DEF FiberGo
      <3>2. f # Script /\ Script \in Contexts /\ Fibers \subseteq Contexts /\ current # Script
        BY <2>1, EventLoopAssumption
           DEF EventLoopAssumption, Fibers, Contexts, Script
      <3>3. f # current
        BY <2>1, <3>1 DEF Spawn, IsFirstFree, InState
      <3>4. /\ live' = own'[current] /\ state'[current] = "READY"
            /\ own'[Script] = own[Script]
        BY <2>1, <3>1, <3>2, <3>3 DEF Spawn, IInv, TypeOK
      <3>5. \A g \in Fibers \ {current} : state'[g] \in {"READY", "SLEEPING", "IO_WAIT"} =>
               ctx'[g] = own'[g] /\ ctx'[g] \in Values
        <4> SUFFICES ASSUME NEW g \in Fibers \ {current},
                            state'[g] \in {"READY", "SLEEPING", "IO_WAIT"}
                     PROVE  ctx'[g] = own'[g] /\ ctx'[g] \in Values
          OBVIOUS
        <4>1. CASE g = f
          BY <3>1, <3>2, <4>1 DEF Spawn, IInv, TypeOK
        <4>2. CASE g # f
          BY <3>1, <3>2, <4>2 DEF Spawn, IInv, TypeOK, ScopeInv
        <4> QED
          BY <4>1, <4>2
      <3> QED
        BY <2>1, <3>4, <3>5 DEF IInv, ScopeInv
    <2> QED
      BY <2>2, <2>3
  <1>4. CASE SleepAsync
    BY <1>4, SMTT(30)
       DEF IInv, TypeOK, ScopeInv, Fibers, Script, SleepAsync, Yield,
           BackToScan
  <1>5. CASE ReadFileAsync
    BY <1>5, SMTT(30)
       DEF IInv, TypeOK, ScopeInv, Fibers, Script, ReadFileAsync, Yield,
           BackToScan, SignalWorker
  <1>6. CASE Finish
    BY <1>6 DEF IInv, TypeOK, ScopeInv, Script, Finish, BackToScan
  <1>7. CASE Top \/ ScanAgain \/ StartWait \/ StartSleep
    BY <1>7
       DEF IInv, ScopeInv, Top, ScanAgain, StartWait, Idle, StartSleep, loop
  <1>8. CASE Resume
    BY <1>8 DEF IInv, ScopeInv, InState, Fibers, Script, Resume, NextReady
  <1>9. CASE Return
    <2>1. /\ pc # "script" /\ pc # "fiber" /\ pc' = "script" /\ current' = current
      BY <1>9 DEF Return, Idle
    <2>2. Script \notin targets /\ Script \in Contexts /\ Fibers \subseteq Contexts
      BY EventLoopAssumption DEF IInv, TypeOK, Fibers, Contexts, Script
    <2>3. live' = own'[Script]
      BY <1>9, <2>1, <2>2 DEF Return, Leave, IInv, ScopeInv, TypeOK
    <2>4. \A g \in Fibers \ {current} : state'[g] \in {"READY", "SLEEPING", "IO_WAIT"} =>
               ctx'[g] = own'[g] /\ ctx'[g] \in Values
      BY <1>9, <2>2 DEF Return, IInv, TypeOK, ScopeInv
    <2> QED
      BY <2>1, <2>3, <2>4 DEF IInv, ScopeInv
  <1>10. CASE CollectNow \/ EndWait \/ EndSleep
    BY <1>10
       DEF IInv, ScopeInv, InState, CollectNow, Collect, Finished, Due, Idle,
           EndWait, EndSleep, loop
  <1>11. CASE Tick \/ \E w \in Workers : WorkerWait(w) \/
            WorkerSpuriousWakeup(w) \/ WorkerTake(w) \/ WorkerDone(w)
    BY <1>11
       DEF IInv, ScopeInv, Tick, WorkerWait, WorkerSpuriousWakeup, WorkerTake,
           WorkerDone, loop
  <1>12. CASE UNCHANGED vars
    BY <1>12
       DEF IInv, TypeOK, ScopeInv, InState, Fibers, Contexts, Script, vars
  <1> QED
    BY <1>1, <1>2, <1>3, <1>4, <1>5, <1>6, <1>7, <1>8, <1>9, <1>10, <1>11,
       <1>12
       DEF Next, FiberStep, LoopStep, WorkerStep, WaitOver, SpuriousWakeup,
           SleepOver, SleepInterrupted

LEMMA AwaitNext ==
    ASSUME EventLoopAssumption, IInv, [Next]_vars PROVE AwaitInv'
  <1>1. CASE ScriptGo \/ FiberGo
    BY <1>1
       DEF IInv, TypeOK, AwaitInv, ScriptGo, Spawn, IsFirstFree, FiberGo, loop
  <1>2. CASE Await
    BY <1>2, EventLoopAssumption
       DEF IInv, TypeOK, AwaitInv, ScopeInv, InState, Fibers, Contexts,
           Script, Await, loop, io, EventLoopAssumption
  <1>3. CASE SleepAsync \/ ReadFileAsync \/ Finish
    BY <1>3
       DEF IInv, TypeOK, AwaitInv, SleepAsync, BackToScan, ReadFileAsync,
           SignalWorker, Finish
  <1>4. CASE Top \/ Resume \/ ScanAgain \/ StartWait \/ StartSleep
    BY <1>4
       DEF IInv, AwaitInv, Top, Resume, ScanAgain, StartWait, Idle,
           StartSleep, loop
  <1>5. CASE Return
    BY <1>5 DEF IInv, AwaitInv, Script, Return, Leave
  <1>6. CASE CollectNow \/ EndWait \/ EndSleep
    BY <1>6
       DEF IInv, TypeOK, AwaitInv, CollectNow, Collect, EndWait, EndSleep,
           loop
  <1>7. CASE Tick \/ \E w \in Workers : WorkerWait(w) \/
            WorkerSpuriousWakeup(w) \/ WorkerTake(w) \/ WorkerDone(w)
    BY <1>7
       DEF IInv, AwaitInv, Tick, WorkerWait, WorkerSpuriousWakeup, WorkerTake,
           WorkerDone, loop
  <1>8. CASE UNCHANGED vars
    BY <1>8
       DEF IInv, TypeOK, AwaitInv, ScopeInv, InState, Fibers, Contexts,
           Script, vars
  <1> QED
    BY <1>1, <1>2, <1>3, <1>4, <1>5, <1>6, <1>7, <1>8
       DEF Next, FiberStep, LoopStep, WorkerStep, WaitOver, SpuriousWakeup,
           SleepOver, SleepInterrupted

LEMMA JobNext ==
    ASSUME EventLoopAssumption, IInv, [Next]_vars PROVE JobInv'
  <1>1. CASE ScriptGo
    <2>1. PICK f \in Fibers, v \in Values : Spawn(Script, f, v)
      BY <1>1 DEF ScriptGo
    <2>2. f \notin job_done /\ state[f] = "FREE"
      BY <2>1 DEF Spawn, IsFirstFree, InState, IInv, JobInv, OneJobEach
    <2>3. /\ \A g \in Fibers : state'[g] = "IO_WAIT" <=> state[g] = "IO_WAIT"
          /\ \A g \in job_done : state'[g] \in {"IO_WAIT", "READY"}
      BY <2>1, <2>2 DEF Spawn, IInv, TypeOK, JobInv, OneJobEach
    <2>4. OneJobEach'
      BY <1>1, <2>3, JobsUntouched DEF ScriptGo, io, IInv, JobInv
    <2> QED
      BY <1>1, <2>4 DEF ScriptGo, JobInv
  <1>2. CASE Await
    BY <1>2
       DEF IInv, JobInv, OneJobEach, Queued, Executed, InState, Waiting,
           Await, io
  <1>3. CASE FiberGo
    <2>1. current' \notin job_done'
      BY <1>3 DEF FiberGo, loop, io, IInv, JobInv
    <2>2. CASE InState("FREE") = {}
      BY <1>3, <2>1, <2>2, JobsUntouched
         DEF FiberGo, io, IInv, JobInv, OneJobEach
    <2>3. CASE InState("FREE") # {}
      <3>1. PICK f \in Fibers, v \in Values : Spawn(current, f, v)
        BY <1>3, <2>3 DEF FiberGo
      <3>2. f \notin job_done /\ state[f] = "FREE"
        BY <3>1 DEF Spawn, IsFirstFree, InState, IInv, JobInv, OneJobEach
      <3>3. OneJobEach'
        BY <1>3, <3>1, <3>2, JobsUntouched
           DEF FiberGo, Spawn, io, IInv, JobInv, OneJobEach
      <3> QED
        BY <2>1, <3>3 DEF JobInv
    <2> QED
      BY <2>2, <2>3
  <1>4. CASE SleepAsync
    BY <1>4
       DEF IInv, JobInv, OneJobEach, Queued, Executed, InState, ScopeInv,
           Fibers, SleepAsync, Yield, BackToScan, io
  <1>5. CASE ReadFileAsync
    <2>1. /\ current \in Fibers /\ state[current] = "READY" /\ current \notin job_done
          /\ ~ Queued(current) /\ ~ Executed(current)
      BY <1>5 DEF ReadFileAsync, IInv, ScopeInv, JobInv, OneJobEach
    <2>2. /\ Len(io_q') = Len(io_q) + 1 /\ io_q' \in Seq(Fibers)
          /\ \A i \in 1 .. Len(io_q) : io_q'[i] = io_q[i]
          /\ io_q'[Len(io_q) + 1] = current
      BY <1>5, <2>1 DEF ReadFileAsync, IInv, TypeOK
    <2>3. /\ DOMAIN io_q = 1 .. Len(io_q) /\ DOMAIN io_q' = 1 .. Len(io_q')
          /\ Len(io_q) \in Nat
      BY <2>2 DEF IInv, TypeOK
    <2>4. \A f \in Fibers : Queued(f)' <=> Queued(f) \/ f = current
      BY <2>2, <2>3 DEF Queued
    <2>5. \A x \in Workers, f \in Fibers : worker'[x] = f <=> worker[x] = f
      BY <1>5
         DEF ReadFileAsync, SignalWorker, IInv, TypeOK, Fibers, Checking,
             Waiting
    <2>6. \A f \in Fibers : Executed(f)' <=> Executed(f)
      BY <2>5, SameExecuted
    <2>7. \A i, j \in DOMAIN io_q' : io_q'[i] = io_q'[j] => i = j
      BY <2>1, <2>2, <2>3 DEF Queued, IInv, JobInv, OneJobEach
    <2>8. \A w, x \in Workers : worker'[w] \in Fibers /\ worker'[w] = worker'[x] => w = x
      BY <2>5 DEF IInv, JobInv, OneJobEach
    <2>9. /\ job_done' = job_done /\ pc' = "scan"
          /\ state' = [state EXCEPT ![current] = "IO_WAIT"]
      BY <1>5 DEF ReadFileAsync, BackToScan
    <2> QED
      BY <2>1, <2>4, <2>6, <2>7, <2>8, <2>9
         DEF IInv, TypeOK, JobInv, OneJobEach, InState
  <1>6. CASE Finish
    BY <1>6
       DEF IInv, JobInv, OneJobEach, Queued, Executed, InState, ScopeInv,
           Fibers, Finish, BackToScan, io
  <1>7. CASE Top
    BY <1>7
       DEF IInv, JobInv, OneJobEach, Queued, Executed, InState, Waiting, Top,
           io
  <1>8. CASE Resume
    BY <1>8
       DEF IInv, JobInv, OneJobEach, Queued, Executed, InState, Waiting,
           Resume, NextReady
  <1>9. CASE ScanAgain
    BY <1>9
       DEF IInv, JobInv, OneJobEach, Queued, Executed, InState, Waiting,
           ScanAgain, io
  <1>10. CASE Return
    <2>1. AllDone
      BY <1>10, ReturnAllDone
    <2>2. \A f \in targets : state[f] = "DONE" /\ f \notin job_done
      BY <2>1 DEF AllDone, InState, IInv, JobInv, OneJobEach
    <2>3. OneJobEach'
      BY <1>10, <2>2, JobsUntouched
         DEF Return, io, IInv, TypeOK, JobInv, OneJobEach
    <2> QED
      BY <1>10, <2>3 DEF Return, JobInv
  <1>11. CASE CollectNow
    BY <1>11
       DEF IInv, TypeOK, JobInv, OneJobEach, Queued, Executed, InState,
           CollectNow, Collect, Finished, Due, Idle
  <1>12. CASE StartWait
    BY <1>12
       DEF IInv, JobInv, OneJobEach, Queued, Executed, InState, StartWait,
           MustWait, Idle
  <1>13. CASE EndWait
    BY <1>13
       DEF IInv, TypeOK, JobInv, OneJobEach, Queued, Executed, InState,
           EndWait, Collect, Finished, Due
  <1>14. CASE StartSleep
    BY <1>14
       DEF IInv, JobInv, OneJobEach, Queued, Executed, InState, StartSleep,
           Idle, io
  <1>15. CASE EndSleep
    BY <1>15
       DEF IInv, TypeOK, JobInv, OneJobEach, Queued, Executed, InState,
           EndSleep, Due, io
  <1>16. CASE Tick
    BY <1>16
       DEF IInv, JobInv, OneJobEach, Queued, Executed, InState, Tick, loop, io
  <1>17. CASE \E w \in Workers : WorkerWait(w)
    BY <1>17
       DEF IInv, TypeOK, JobInv, OneJobEach, Queued, Executed, InState,
           Fibers, Checking, Waiting, WorkerWait, loop
  <1>18. CASE \E w \in Workers : WorkerSpuriousWakeup(w)
    <2>1. PICK w \in Workers : WorkerSpuriousWakeup(w)
      BY <1>18
    <2>2. \A x \in Workers, f \in Fibers : worker'[x] = f <=> worker[x] = f
      BY <2>1
         DEF WorkerSpuriousWakeup, IInv, TypeOK, Fibers, Checking, Waiting
    <2>3. \A f \in Fibers : (Executed(f)' <=> Executed(f)) /\ (Queued(f)' <=> Queued(f))
      BY <2>1, <2>2, SameExecuted DEF WorkerSpuriousWakeup, Queued
    <2> QED
      BY <2>1, <2>2, <2>3
         DEF WorkerSpuriousWakeup, loop, IInv, TypeOK, JobInv, OneJobEach,
             InState
  <1>19. CASE \E w \in Workers : WorkerTake(w)
    <2>1. PICK w \in Workers : WorkerTake(w)
      BY <1>19
    <2>2. /\ io_q \in Seq(Fibers) /\ io_q # <<>> /\ io_q' = Tail(io_q)
          /\ worker' = [worker EXCEPT ![w] = Head(io_q)] /\ worker[w] = Checking
      BY <2>1 DEF WorkerTake, IInv, TypeOK
    <2>3. /\ Head(io_q) \in Fibers /\ Head(io_q) = io_q[1]
          /\ Len(io_q) \in Nat /\ Len(io_q) > 0
          /\ DOMAIN io_q = 1 .. Len(io_q) /\ DOMAIN io_q' = 1 .. Len(io_q) - 1
          /\ \A i \in 1 .. Len(io_q) - 1 : io_q'[i] = io_q[i + 1]
      BY <2>2, HeadTailProperties
    <2>4. Queued(Head(io_q)) /\ ~ Executed(Head(io_q)) /\ state[Head(io_q)] = "IO_WAIT"
      BY <2>3 DEF Queued, IInv, JobInv, OneJobEach
    <2>5. \A f \in Fibers : Queued(f)' <=> Queued(f) /\ f # Head(io_q)
      <3> SUFFICES ASSUME NEW f \in Fibers
                   PROVE  Queued(f)' <=> Queued(f) /\ f # Head(io_q)
        OBVIOUS
      <3>1. ASSUME NEW i \in 1 .. Len(io_q) - 1, io_q'[i] = f
            PROVE  Queued(f) /\ f # Head(io_q)
        <4>1. i + 1 \in DOMAIN io_q /\ 1 \in DOMAIN io_q /\ i + 1 # 1 /\ io_q[i + 1] = f
          BY <2>3, <3>1
        <4> QED
          BY <2>3, <4>1 DEF Queued, IInv, JobInv, OneJobEach
      <3>2. ASSUME NEW i \in 1 .. Len(io_q), io_q[i] = f, f # Head(io_q)
            PROVE  Queued(f)'
        <4>1. i - 1 \in 1 .. Len(io_q) - 1 /\ (i - 1) + 1 = i
          BY <2>3, <3>2
        <4>2. io_q'[i - 1] = f
          BY <2>3, <3>2, <4>1
        <4> QED
          BY <2>3, <4>1, <4>2 DEF Queued
      <3> QED
        BY <2>3, <3>1, <3>2 DEF Queued
    <2>6. \A x \in Workers, f \in Fibers :
              worker'[x] = f <=> worker[x] = f \/ (x = w /\ f = Head(io_q))
      BY <2>2, <2>3 DEF IInv, TypeOK, Fibers, Checking
    <2>7. \A f \in Fibers : Executed(f)' <=> Executed(f) \/ f = Head(io_q)
      BY <2>6 DEF Executed
    <2>8. \A i, j \in DOMAIN io_q' : io_q'[i] = io_q'[j] => i = j
      <3> SUFFICES ASSUME NEW i \in 1 .. Len(io_q) - 1, NEW j \in 1 .. Len(io_q) - 1,
                          io_q'[i] = io_q'[j]
                   PROVE  i = j
        BY <2>3
      <3>1. i + 1 \in DOMAIN io_q /\ j + 1 \in DOMAIN io_q /\ io_q[i + 1] = io_q[j + 1]
        BY <2>3
      <3>2. i + 1 = j + 1
        BY <3>1 DEF IInv, JobInv, OneJobEach
      <3> QED
        BY <2>3, <3>2
    <2>9. \A u, x \in Workers : worker'[u] \in Fibers /\ worker'[u] = worker'[x] => u = x
      BY <2>2, <2>3, <2>4 DEF Executed, IInv, TypeOK, JobInv, OneJobEach
    <2>10. job_done' = job_done /\ state' = state /\ pc' = pc /\ current' = current
      BY <2>1 DEF WorkerTake, loop
    <2> QED
      BY <2>3, <2>4, <2>5, <2>7, <2>8, <2>9, <2>10
         DEF IInv, TypeOK, JobInv, OneJobEach, InState
  <1>20. CASE \E w \in Workers : WorkerDone(w)
    <2>1. PICK w \in Workers : WorkerDone(w)
      BY <1>20
    <2>2. /\ worker[w] \in Fibers /\ Executed(worker[w]) /\ state[worker[w]] = "IO_WAIT"
      BY <2>1 DEF WorkerDone, Executed, IInv, JobInv, OneJobEach
    <2>3. /\ job_done' = job_done \union {worker[w]} /\ io_q' = io_q /\ state' = state
          /\ worker' = [worker EXCEPT ![w] = Checking]
          /\ pc' = pc /\ current' = current
      BY <2>1 DEF WorkerDone, loop
    <2>4. \A x \in Workers, f \in Fibers : worker'[x] = f <=> worker[x] = f /\ x # w
      BY <2>3 DEF IInv, TypeOK, Fibers, Checking
    <2>5. \A f \in Fibers : Executed(f)' <=> Executed(f) /\ f # worker[w]
      BY <2>2, <2>4 DEF Executed, IInv, JobInv, OneJobEach
    <2>6. \A f \in Fibers : Queued(f)' <=> Queued(f)
      BY <2>3 DEF Queued
    <2>7. \A u, x \in Workers : worker'[u] \in Fibers /\ worker'[u] = worker'[x] => u = x
      BY <2>4 DEF IInv, JobInv, OneJobEach
    <2>8. pc = "fiber" => current # worker[w]
      BY <2>2 DEF IInv, ScopeInv
    <2>9. OneJobEach'
      BY <2>2, <2>3, <2>5, <2>6, <2>7
         DEF IInv, TypeOK, JobInv, OneJobEach, InState
    <2> QED
      BY <2>3, <2>8, <2>9 DEF IInv, JobInv
  <1>21. CASE UNCHANGED vars
    BY <1>21
       DEF IInv, TypeOK, JobInv, OneJobEach, Queued, Executed, InState,
           ScopeInv, Fibers, Checking, Waiting, vars
  <1> QED
    BY <1>1, <1>2, <1>3, <1>4, <1>5, <1>6, <1>7, <1>8, <1>9, <1>10, <1>11,
       <1>12, <1>13, <1>14, <1>15, <1>16, <1>17, <1>18, <1>19, <1>20, <1>21
       DEF Next, FiberStep, LoopStep, WorkerStep, WaitOver, SpuriousWakeup,
           SleepOver, SleepInterrupted

LEMMA MissedNext ==
    ASSUME EventLoopAssumption, IInv, [Next]_vars PROVE NoMissedDone'
  <1>1. CASE ScriptGo \/ Await \/ FiberGo
    BY <1>1, EventLoopAssumption
       DEF IInv, TypeOK, NoMissedDone, Finished, InState, ScriptGo, Spawn,
           IsFirstFree, Await, FiberGo, loop, io, EventLoopAssumption
  <1>2. CASE SleepAsync \/ ReadFileAsync \/ Finish
    BY <1>2, EventLoopAssumption
       DEF IInv, TypeOK, NoMissedDone, Finished, InState, SleepAsync, Yield,
           BackToScan, ReadFileAsync, SignalWorker, Finish, loop, io,
           EventLoopAssumption
  <1>3. CASE Top \/ Resume \/ ScanAgain \/ Return \/ CollectNow \/ EndWait \/
            StartSleep \/ EndSleep
    BY <1>3, EventLoopAssumption
       DEF IInv, TypeOK, NoMissedDone, Finished, InState, Top, Resume,
           NextReady, ScanAgain, Return, Leave, CollectNow, Collect, Due,
           Idle, EndWait, StartSleep, EndSleep, loop, io, EventLoopAssumption
  <1>4. CASE StartWait
    BY <1>4, EventLoopAssumption
       DEF IInv, TypeOK, NoMissedDone, Finished, InState, StartWait, MustWait,
           Idle, loop, io, EventLoopAssumption
  <1>5. CASE Tick \/ \E w \in Workers : WorkerWait(w) \/
            WorkerSpuriousWakeup(w) \/ WorkerTake(w)
    BY <1>5
       DEF IInv, NoMissedDone, Finished, InState, Tick, WorkerWait,
           WorkerSpuriousWakeup, WorkerTake, io
  <1>6. CASE \E w \in Workers : WorkerDone(w)
    BY <1>6 DEF IInv, NoMissedDone, Finished, InState, WorkerDone
  <1>7. CASE UNCHANGED vars
    BY <1>7 DEF IInv, TypeOK, NoMissedDone, Finished, InState, vars
  <1> QED
    BY <1>1, <1>2, <1>3, <1>4, <1>5, <1>6, <1>7
       DEF Next, FiberStep, LoopStep, WorkerStep, WaitOver, SpuriousWakeup,
           SleepOver, SleepInterrupted

LEMMA PoolNext ==
    ASSUME EventLoopAssumption, IInv, [Next]_vars PROVE NoIdlePool'
  <1>1. CASE ScriptGo \/ Await \/ FiberGo \/ SleepAsync \/ Finish
    BY <1>1
       DEF IInv, NoIdlePool, ScriptGo, Await, FiberGo, SleepAsync, BackToScan,
           Finish, io
  <1>2. CASE ReadFileAsync
    BY <1>2
       DEF IInv, TypeOK, NoIdlePool, Checking, Waiting, ReadFileAsync, Yield,
           BackToScan, SignalWorker
  <1>3. CASE Top \/ Resume \/ ScanAgain \/ Return \/ CollectNow \/ StartWait
            \/ EndWait \/ StartSleep \/ EndSleep \/ Tick
    BY <1>3
       DEF IInv, NoIdlePool, Top, Resume, ScanAgain, Return, CollectNow,
           StartWait, EndWait, StartSleep, EndSleep, Tick, io
  <1>4. CASE \E w \in Workers : WorkerWait(w)
    BY <1>4 DEF IInv, NoIdlePool, Checking, Waiting, WorkerWait
  <1>5. CASE \E w \in Workers : WorkerSpuriousWakeup(w)
    BY <1>5 DEF IInv, NoIdlePool, Checking, Waiting, WorkerSpuriousWakeup
  <1>6. CASE \E w \in Workers : WorkerTake(w)
    <2>1. PICK w \in Workers : WorkerTake(w)
      BY <1>6
    <2>2. worker'[w] \in Fibers
      BY <2>1, HeadTailProperties DEF WorkerTake, IInv, TypeOK
    <2> QED
      BY <2>2 DEF NoIdlePool, Fibers, Waiting
  <1>7. CASE \E w \in Workers : WorkerDone(w)
    BY <1>7 DEF IInv, NoIdlePool, Checking, Waiting, WorkerDone
  <1>8. CASE UNCHANGED vars
    BY <1>8 DEF IInv, TypeOK, NoIdlePool, Checking, vars
  <1> QED
    BY <1>1, <1>2, <1>3, <1>4, <1>5, <1>6, <1>7, <1>8
       DEF Next, FiberStep, LoopStep, WorkerStep, WaitOver, SpuriousWakeup,
           SleepOver, SleepInterrupted

LEMMA NextInv == ASSUME EventLoopAssumption, IInv, [Next]_vars PROVE IInv'
  BY TypeNext, ScopeNext, AwaitNext, JobNext, MissedNext, PoolNext DEF IInv

-----------------------------------------------------------------------------
(* Reads that are counted in and out. *)

LEMMA PendingSame ==
    ASSUME PendingExact, io_pending' = io_pending,
           \A f \in Fibers : state'[f] = "IO_WAIT" <=> state[f] = "IO_WAIT"
    PROVE  PendingExact'
  BY DEF PendingExact, InState

LEMMA PendingCollect ==
    ASSUME EventLoopAssumption, TypeOK, PendingExact, Collect
    PROVE  PendingExact'
  <1> DEFINE W == InState("IO_WAIT")
  <1>1. W \in SUBSET Fibers /\ Finished \in SUBSET Fibers /\ Finished \subseteq W
    BY DEF InState, Finished
  <1>2. IsFiniteSet(W) /\ IsFiniteSet(Finished)
    BY <1>1, SlotsFinite
  <1>3. InState("IO_WAIT")' = W \ Finished
    <2>1. \A f \in Fibers : state'[f] = "IO_WAIT" <=> state[f] = "IO_WAIT" /\ f \notin Finished
      BY DEF Collect, Due, Finished, InState, TypeOK
    <2> QED
      BY <2>1 DEF InState
  <1>4. W \intersect Finished = Finished
    BY <1>1
  <1>5. Cardinality(W \ Finished) = Cardinality(W) - Cardinality(Finished)
    BY <1>2, <1>4, FS_Difference
  <1> QED
    BY <1>3, <1>5 DEF Collect, PendingExact

LEMMA PendingSubmit ==
    ASSUME EventLoopAssumption, IInv, PendingExact, ReadFileAsync
    PROVE  PendingExact'
  <1>1. current \in Fibers /\ current \notin InState("IO_WAIT")
    BY DEF ReadFileAsync, IInv, ScopeInv, InState
  <1>2. InState("IO_WAIT")' = InState("IO_WAIT") \union {current}
    BY <1>1 DEF ReadFileAsync, InState, IInv, TypeOK
  <1>3. IsFiniteSet(InState("IO_WAIT"))
    BY SlotsFinite DEF InState
  <1>4. Cardinality(InState("IO_WAIT") \union {current}) = Cardinality(InState("IO_WAIT")) + 1
    BY <1>1, <1>3, FS_AddElement
  <1> QED
    BY <1>2, <1>4 DEF ReadFileAsync, PendingExact

LEMMA PendingNext ==
    ASSUME EventLoopAssumption, IInv, PendingExact, [Next]_vars PROVE PendingExact'
  <1>1. CASE ScriptGo
    BY <1>1, PendingSame DEF ScriptGo, Spawn, IsFirstFree, InState, io
  <1>2. CASE FiberGo
    BY <1>2, PendingSame
       DEF FiberGo, Spawn, IsFirstFree, InState, io, IInv, TypeOK
  <1>3. CASE SleepAsync
    BY <1>3, PendingSame DEF SleepAsync, io, IInv, TypeOK, ScopeInv
  <1>4. CASE ReadFileAsync
    BY <1>4, PendingSubmit
  <1>5. CASE Finish
    BY <1>5, PendingSame DEF Finish, io, IInv, TypeOK, ScopeInv
  <1>6. CASE Return
    <2>1. \A f \in targets : state[f] = "DONE"
      BY <1>6, ReturnAllDone DEF AllDone, InState
    <2> QED
      BY <1>6, <2>1, PendingSame DEF Return, io, IInv, TypeOK
  <1>7. CASE CollectNow \/ EndWait
    BY <1>7, PendingCollect DEF CollectNow, EndWait, IInv
  <1>8. CASE EndSleep
    BY <1>8, PendingSame DEF EndSleep, Due, InState, io, IInv
  <1>9. CASE Await \/ Top \/ Resume \/ ScanAgain \/ StartWait \/ StartSleep \/ Tick
    BY <1>9, PendingSame
       DEF Await, Top, Resume, ScanAgain, StartWait, StartSleep, Tick, io
  <1>10. CASE \E w \in Workers : WorkerStep(w) \/ WorkerSpuriousWakeup(w)
    BY <1>10, PendingSame
       DEF WorkerStep, WorkerWait, WorkerTake, WorkerDone,
           WorkerSpuriousWakeup
  <1>11. CASE UNCHANGED vars
    BY <1>11, PendingSame DEF vars
  <1> QED
    BY <1>1, <1>2, <1>3, <1>4, <1>5, <1>6, <1>7, <1>8, <1>9, <1>10, <1>11
       DEF Next, FiberStep, LoopStep, WaitOver, SpuriousWakeup, SleepOver,
           SleepInterrupted

(* Only Return leaves the loop. *)
LEMMA AwaitStep ==
    ASSUME IInv, [Next]_vars PROVE [pc # "script" /\ pc' = "script" => AllDone]_vars
  <1>1. CASE Return
    BY <1>1, ReturnAllDone
  <1>2. CASE ScriptGo \/ Await
    BY <1>2 DEF ScriptGo, Await
  <1>3. CASE FiberStep
    BY <1>3
       DEF FiberStep, FiberGo, SleepAsync, ReadFileAsync, Finish, BackToScan
  <1>4. CASE Top \/ Resume \/ ScanAgain \/ CollectNow \/ StartWait \/ EndWait
    BY <1>4 DEF Top, Resume, ScanAgain, CollectNow, StartWait, EndWait
  <1>5. CASE StartSleep \/ EndSleep \/ Tick
    BY <1>5 DEF StartSleep, EndSleep, Tick
  <1>6. CASE \E w \in Workers : WorkerStep(w) \/ WorkerSpuriousWakeup(w)
    BY <1>6
       DEF WorkerStep, WorkerWait, WorkerTake, WorkerDone,
           WorkerSpuriousWakeup
  <1>7. CASE UNCHANGED vars
    BY <1>7
  <1> QED
    BY <1>1, <1>2, <1>3, <1>4, <1>5, <1>6, <1>7
       DEF Next, LoopStep, WaitOver, SpuriousWakeup, SleepOver,
           SleepInterrupted

-----------------------------------------------------------------------------
(* The inductive invariant, from which every result below follows.           *)
THEOREM LoopInvariant == Spec => []IInv
  <1>1. Init => IInv
    BY InitInv, EventLoopAssumption
  <1>2. IInv /\ [Next]_vars => IInv'
    BY NextInv, EventLoopAssumption
  <1> QED
    BY <1>1, <1>2, PTL DEF Spec

(* The variables keep their types: in particular the live scope is never a   *)
(* snapshot that ctx_free released.                                          *)
THEOREM LoopTypeCorrect == Spec => []TypeOK
  BY LoopInvariant, PTL DEF IInv

(* ctx_save and ctx_restore keep the tasks' scopes apart in every            *)
(* interleaving of yields, sleeps, reads and awaits.                         *)
THEOREM LoopScopeIsolated == Spec => []ScopeIsolated
  <1>1. IInv => ScopeIsolated
    BY DEF IInv, ScopeInv, ScopeIsolated
  <1> QED
    BY <1>1, LoopInvariant, PTL

(* No job of the I/O pool is lost, run twice or left behind by its fiber.    *)
THEOREM LoopOneJobEach == Spec => []OneJobEach
  <1>1. IInv => OneJobEach
    BY DEF IInv, JobInv
  <1> QED
    BY <1>1, LoopInvariant, PTL

(* io_wait_and_collect never sleeps through a finished read.                 *)
THEOREM LoopNoMissedDone == Spec => []NoMissedDone
  BY LoopInvariant, PTL DEF IInv

(* Queued jobs always have a worker that is awake.                           *)
THEOREM LoopNoIdlePool == Spec => []NoIdlePool
  BY LoopInvariant, PTL DEF IInv

(* io_pending counts the reads whose fiber still waits.                      *)
THEOREM LoopPendingExact == Spec => []PendingExact
  <1>1. Init => PendingExact
    <2>1. ASSUME Init PROVE InState("IO_WAIT") = {}
      BY <2>1 DEF Init, InState
    <2> QED
      BY <2>1, FS_EmptySet DEF Init, PendingExact
  <1>2. IInv /\ PendingExact /\ [Next]_vars => PendingExact'
    BY PendingNext, EventLoopAssumption
  <1> QED
    BY <1>1, <1>2, LoopInvariant, PTL DEF Spec

(* An await hands out results only of tasks that are done: the deadlock      *)
(* guard of evloop_run_until never ends a loop early.                        *)
THEOREM LoopAwaitReturnsFinished == Spec => AwaitReturnsFinished
  <1>1. IInv /\ [Next]_vars => [pc # "script" /\ pc' = "script" => AllDone]_vars
    BY AwaitStep
  <1> QED
    BY <1>1, LoopInvariant, PTL DEF Spec, AwaitReturnsFinished

-----------------------------------------------------------------------------
(* The debugger. *)
(* The types that the comparison of depths rests on.                       *)
DepthsOK == /\ depth \in Nat /\ frame_top \in Nat /\ step_depth \in Nat
            /\ fns \in Seq(Nat)
            /\ runner # "idle" => depth >= 1
            /\ asked \in [step : Steps \cup {"run"}, depth : Nat, fns : Nat, counted : Nat]

(* What the debugger compares belongs to the step that was asked for: a     *)
(* step over keeps the frames counted there, a step out becomes a step over *)
(* below them, and the step is over when the program stops or is told to    *)
(* go on.                                                                   *)
OverInv == asked.step = "over" => \/ step = "run"
                                  \/ step = "over" /\ step_depth = asked.counted
OutInv == asked.step = "out" => \/ step = "run"
                                \/ step = "out" /\ step_depth = asked.counted
                                \/ step = "over" /\ step_depth < asked.counted
DebugInv == DepthsOK /\ OverInv /\ OutInv

(* The debugger starts without a step.                                     *)
LEMMA DebugInitInv == DebugInit => DebugInv
BY DEF DebugInit, DebugInv, DepthsOK, OverInv, OutInv, NotAsked, Steps

(* What neither calls, returns nor touches the step keeps the invariant.   *)
LEMMA DebugFrameInv == DebugInv /\ UNCHANGED <<program, stepping>> => DebugInv'
BY DEF DebugInv, DepthsOK, OverInv, OutInv, program, stepping

(* A new adapter finds no step under way, and its handshake can only end    *)
(* one.                                                                     *)
LEMMA AcceptorInv == ASSUME DebugInv, Acceptor PROVE DebugInv'
<1>1. CASE Accept
  BY <1>1 DEF Accept, DebugInv, DepthsOK, OverInv, OutInv, NotAsked, Steps
<1>2. CASE Configures
  <2>1. step' \in {step, "run"} /\ UNCHANGED <<program, step_depth, asked>>
    BY <1>2 DEF Configures
  <2> QED BY <2>1 DEF DebugInv, DepthsOK, OverInv, OutInv, program
<1>3. CASE Watch
  BY <1>3, DebugFrameInv DEF Watch, program, stepping
<1> QED BY <1>1, <1>2, <1>3 DEF Acceptor

(* The fns and lambdas under way push no frame: what the debugger compares  *)
(* is as it was.                                                            *)
LEMMA FnInv == ASSUME DebugInv, CallsFn \/ ReturnsFn PROVE DebugInv'
<1>1. fns' \in Seq(Nat)
  <2>1. CASE CallsFn
    BY <2>1 DEF CallsFn, DebugInv, DepthsOK
  <2>2. CASE ReturnsFn
    <3>1. fns \in Seq(Nat) /\ fns # <<>> /\ fns' = SubSeq(fns, 1, Len(fns) - 1)
      BY <2>2 DEF ReturnsFn, InFn, Front, DebugInv, DepthsOK
    <3> HIDE DEF DebugInv
    <3> QED BY <3>1
  <2> QED BY <2>1, <2>2
<1>2. UNCHANGED <<runner, depth, frame_top, stepping>>
  BY DEF CallsFn, ReturnsFn
<1> QED BY <1>1, <1>2 DEF DebugInv, DepthsOK, OverInv, OutInv, stepping

(* Calls and returns: a return turns a step out into a step over with a     *)
(* smaller depth, and touches no other step.                                *)
LEMMA ProgramInv == ASSUME DebugInv, RequestBegins \/ Calls \/ Returns \/ Fails PROVE DebugInv'
<1>1. CASE RequestBegins \/ Calls
  <2>1. frame_top' \in Nat
    BY <1>1 DEF RequestBegins, Calls, Pushed, DebugInv, DepthsOK
  <2>2. depth' \in Nat /\ depth' >= 1 /\ UNCHANGED <<fns, stepping>>
    BY <1>1 DEF RequestBegins, Calls, DebugInv, DepthsOK
  <2> QED BY <2>1, <2>2 DEF DebugInv, DepthsOK, OverInv, OutInv, stepping
<1>2. CASE Returns
  <2> DEFINE top == IF frame_top > 0 THEN frame_top - 1 ELSE 0
  <2>1. top \in Nat /\ frame_top' = top
    BY <1>2 DEF Returns, Popped, DebugInv, DepthsOK
  <2>2. depth \in Nat /\ depth >= 1 /\ depth' = depth - 1 /\ (runner' # "idle" => depth # 1)
    BY <1>2 DEF Returns, DebugInv, DepthsOK
  <2>3. asked' \in {asked, NotAsked} /\ fns' = fns
    BY <1>2 DEF Returns, stepping
  <2>4. \/ step' = step /\ step_depth' = step_depth
        \/ step = "out" /\ step' = "over" /\ step_depth' = top /\ top < step_depth
    BY <1>2 DEF Returns, Popped
  <2>5. DepthsOK'
    BY <2>1, <2>2, <2>3, <2>4 DEF DebugInv, DepthsOK, NotAsked, Steps
  <2> QED BY <2>1, <2>3, <2>4, <2>5 DEF DebugInv, DepthsOK, OverInv, OutInv, NotAsked
<1>3. CASE Fails
  BY <1>3 DEF Fails, DebugInv, DepthsOK, OverInv, OutInv, NotAsked, Steps
<1> QED BY <1>1, <1>2, <1>3

(* What a drained statement does to the step: a pause ends the one under    *)
(* way, a stop too.                                                         *)
LEMMA DrainedStep ==
    ASSUME NEW line, Statement(line)
    PROVE  /\ step_depth' \in {step_depth, frame_top}
           /\ \/ asked' = NotAsked
              \/ asked' = asked /\ step' = step /\ step_depth' = step_depth
BY DEF Statement, Drained

LEMMA StatementInv == ASSUME DebugInv, NEW line, Statement(line) PROVE DebugInv'
<1>1. depth' = depth /\ frame_top' = frame_top /\ fns' = fns /\ depth >= 1
  BY DEF Statement, DebugInv, DepthsOK
<1> QED BY <1>1, DrainedStep DEF DebugInv, DepthsOK, OverInv, OutInv, NotAsked, Steps

(* A command that steps starts a step where the program stands; any other   *)
(* leaves the one before, which a stop has ended.                           *)
LEMMA WaitForResumeInv == ASSUME DebugInv, WaitForResume PROVE DebugInv'
<1>1. depth' = depth /\ frame_top' = frame_top /\ fns' = fns /\ depth >= 1
  BY DEF WaitForResume, DebugInv, DepthsOK
<1>2. \/ UNCHANGED stepping
      \/ \E c \in Steps : /\ step' = c /\ step_depth' = frame_top
                          /\ asked' = [step |-> c, depth |-> depth, fns |-> Len(fns), counted |-> frame_top]
  BY DEF WaitForResume, Obey
<1>3. CASE UNCHANGED stepping
  BY <1>1, <1>3 DEF DebugInv, DepthsOK, OverInv, OutInv, stepping
<1>4. ASSUME NEW c \in Steps,
             step' = c, step_depth' = frame_top,
             asked' = [step |-> c, depth |-> depth, fns |-> Len(fns), counted |-> frame_top]
      PROVE  DebugInv'
  <2>1. Len(fns) \in Nat
    BY DEF DebugInv, DepthsOK
  <2> QED BY <1>1, <1>4, <2>1 DEF DebugInv, DepthsOK, OverInv, OutInv, Steps
<1> QED BY <1>2, <1>3, <1>4

LEMMA DebugNextInv == DebugInv /\ [DebugNext]_debugVars => DebugInv'
<1> SUFFICES ASSUME DebugInv, [DebugNext]_debugVars PROVE DebugInv'
  OBVIOUS
<1>1. CASE Adapter
  BY <1>1, DebugFrameInv DEF Adapter, Connects, Sends, HangsUp, program, stepping
<1>2. CASE Acceptor
  BY <1>2, AcceptorInv
<1>3. CASE RequestBegins \/ Calls \/ Returns \/ Fails
  BY <1>3, ProgramInv
<1>4. CASE Iterates
  BY <1>4, DebugFrameInv DEF Iterates
<1>5. CASE WaitForResume
  BY <1>5, WaitForResumeInv
<1>6. CASE \E line \in Lines : Statement(line)
  BY <1>6, StatementInv
<1>7. CASE CallsFn \/ ReturnsFn
  BY <1>7, FnInv
<1>8. CASE UNCHANGED debugVars
  BY <1>8, DebugFrameInv DEF debugVars
<1> QED BY <1>1, <1>2, <1>3, <1>4, <1>5, <1>6, <1>7, <1>8 DEF DebugNext, Runner

(* The depth that the debugger compares is the one of the step that was     *)
(* asked for, whatever calls of methods, fns and lambdas, returns, fatal    *)
(* errors, pauses and adapters come between (debugger_push_frame,           *)
(* debugger_pop_frame).                                                     *)
THEOREM StepInvariant == DebugSpec => []DebugInv
<1>1. DebugInit => DebugInv
  BY DebugInitInv
<1>2. DebugInv /\ [DebugNext]_debugVars => DebugInv'
  BY DebugNextInv
<1> QED BY <1>1, <1>2, PTL DEF DebugSpec

(* Only a statement stops the program.                                     *)
LEMMA OnlyStatementsStop ==
    ASSUME DebugNext, runner = "running", runner' = "stopped"
    PROVE  \E line \in Lines : Statement(line)
BY DEF DebugNext, Adapter, Acceptor, Runner, Connects, Sends, HangsUp, Accept, Configures, Watch,
       adapter, program, dedup, stepping,
       RequestBegins, Calls, Returns, CallsFn, ReturnsFn, Fails, Iterates, WaitForResume

(* A step over does not stop in a method that the statement calls, and a    *)
(* step out stops in the calling method or above (debugger_on_statement).   *)
LEMMA StopAbove == DebugInv /\ [DebugNext]_debugVars => [StopsForStep => depth <= Deepest]_debugVars
<1> SUFFICES ASSUME DebugInv, DebugNext, StopsForStep PROVE depth <= Deepest
  OBVIOUS
<1>1. PICK line \in Lines : Statement(line)
  BY OnlyStatementsStop DEF StopsForStep
<1>2. line \notin Drained.bps /\ StopsAt(Drained, line)
  BY <1>1 DEF StopsForStep, Statement
<1>3. Drained.step = step /\ Drained.step_depth = step_depth
  BY DEF StopsForStep, Drained
<1>4. step \in {"in", "over"} /\ (step = "over" => frame_top <= step_depth)
  BY <1>2, <1>3 DEF StopsAt
<1>5. CASE asked.step = "over"
  <2>1. frame_top <= asked.counted
    BY <1>4, <1>5 DEF DebugInv, OverInv
  <2> QED BY <1>5, <2>1 DEF StopsForStep, Counted, Deepest, DebugInv, DepthsOK
<1>6. CASE asked.step = "out"
  <2>1. frame_top < asked.counted
    BY <1>4, <1>6 DEF DebugInv, DepthsOK, OutInv
  <2> QED BY <1>6, <2>1 DEF StopsForStep, Counted, Deepest, DebugInv, DepthsOK
<1> QED BY <1>5, <1>6 DEF StopsForStep

(* So steps stay above the methods that are called; of fns and lambdas,     *)
(* which push no frame, nothing is promised (debugger_on_statement).        *)
THEOREM StepsStayAboveCallees == DebugSpec => StepsStayAbove
<1>1. DebugInv /\ [DebugNext]_debugVars => [StopsForStep => depth <= Deepest]_debugVars
  BY StopAbove
<1> QED BY <1>1, StepInvariant, PTL DEF DebugSpec, StepsStayAbove
=============================================================================
