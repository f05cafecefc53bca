------------------------------ MODULE MCServers ------------------------------
(* The processes of a server, one kind to a behaviour: one process that      *)
(* serves (two connections that come again, two worker threads, a queue of   *)
(* one), the parent of a prefork pool of two, a supervisor of two workers,   *)
(* the invoke lock of a serving process: four threads, its counters wrap at  *)
(* five, the smallest value InvokeLockAssumption allows for four.            *)
EXTENDS ApiLifecycle, Supervisor, WorkerPool, InvokeLock

CONSTANTS c1, c2, w1, w2, p1, p2, p3, p4, t1, t2, t3, t4
VARIABLE front

vars == <<lifeVars, supVars, preforkVars, lockVars, front>>

MCConns == {c1, c2}
MCWorkers == {w1, w2}
MCModes == {"dev", "plain"}
MCClients == [m \in MCModes |-> IF m = "dev" THEN {c1} ELSE {c1, c2}]
MCSlots == 1..2
MCThreads == {t1, t2, t3, t4}
MCPids == {p1, p2, p3, p4}

Process(A) == front = "process" /\ A /\ UNCHANGED <<front, supVars, preforkVars, lockVars>>
Prefork(A) == front = "prefork" /\ A /\ UNCHANGED <<front, lifeVars, supVars, lockVars>>
Supervised(A) == front = "supervised" /\ A /\ UNCHANGED <<front, lifeVars, preforkVars, lockVars>>
Locking(A) == front = "lock" /\ A /\ UNCHANGED <<front, lifeVars, supVars, preforkVars>>

Init == /\ front \in {"process", "prefork", "supervised", "lock"}
        /\ LockInit /\ LifeInit /\ PreforkInit /\ SupInit
        /\ front # "process" => mode = "plain"
Next == Process(LifeNext) \/ Prefork(PreforkNext) \/ Supervised(SupNext) \/ Locking(LockNext)

(* Threads and processes go on, clients and scripts finish                   *)
(* (request_timeout_ms bounds a client; a handler that never ends is         *)
(* GetsStuck), and the main loops poll.                                      *)
Fairness ==
    /\ WF_vars(Process(Main)) /\ WF_vars(Process(ServerStep(MasterStep)))
    /\ \A w \in Workers : WF_vars(Process(ServerStep(WorkerStep(w))))
    /\ WF_vars(Prefork(ParentStep)) /\ WF_vars(Supervised(SupStep))
    /\ \A w \in Pool : WF_vars(Prefork(WorkerProcStep(w)))
    /\ LockFairness
    /\ \A p \in Pids : WF_vars(Supervised(SupWorkerStep(p)))

Spec == Init /\ [][Next]_vars /\ Fairness
=============================================================================
