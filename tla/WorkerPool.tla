----------------------------- MODULE WorkerPool -----------------------------
(***************************************************************************)
(* The prefork pool of typeeasy --api with several workers:                 *)
(* typeeasy_run_api_server_pool (src/src/typeeasy_api_server.c:1577-1676),  *)
(* on Linux.  A worker is a process; what it serves is in ApiLifecycle, it  *)
(* matters here only whether one of its handlers is stuck for good.         *)
(***************************************************************************)
EXTENDS Naturals, FiniteSets

CONSTANTS Pool,           \* worker indexes, 1..num_workers
          MaxTicks        \* rounds of 200 ms before SIGKILL: 25

ASSUME WorkerPoolAssumption ==
    IsFiniteSet(Pool) /\ Pool = 1..Cardinality(Pool) /\ MaxTicks \in Nat

VARIABLES
    parent,        \* what the parent is at
    forked,        \* workers forked so far
    pstop,         \* its g_stop_requested
    proc,          \* what each worker process is at
    term,          \* a SIGTERM is on its way to the worker
    stuck,         \* workers with a handler that never ends
    pids,          \* the entries of pids[] that are not 0
    ticks,
    killed         \* the parent was ended by a signal

preforkProcs == <<proc, term, stuck>>
preforkVars == <<parent, forked, pstop, proc, term, stuck, pids, ticks, killed>>

(* A process is alive until it is a zombie; a zombie is gone when somebody, *)
(* the parent or init, has waited for it.                                   *)
Dead == {"none", "zombie", "gone"}
Alive(w) == proc[w] \notin Dead

PreforkInit ==
    /\ parent = "fork" /\ forked = 0 /\ pstop = FALSE
    /\ proc = [w \in Pool |-> "none"]
    /\ term = [w \in Pool |-> FALSE] /\ stuck = {}
    /\ pids = {} /\ ticks = 0 /\ killed = FALSE

(* A signal to a zombie has no effect. *)
Signal(ws) == term' = [w \in Pool |-> IF w \in ws /\ Alive(w) THEN TRUE ELSE term[w]]

-----------------------------------------------------------------------------
(* The parent.                                                              *)

ForkWorker ==
    /\ parent = "fork" /\ forked < Cardinality(Pool)
    /\ forked' = forked + 1
    /\ proc' = [proc EXCEPT ![forked + 1] = "born"]
    /\ pids' = pids \union {forked + 1}
    /\ UNCHANGED <<parent, pstop, term, stuck, ticks, killed>>

WorkerForkFails ==
    /\ parent = "fork" /\ forked < Cardinality(Pool)
    /\ Signal(pids) /\ parent' = "abort"
    /\ UNCHANGED <<forked, pstop, proc, stuck, pids, ticks, killed>>

(* waitpid of each worker, in order, without a deadline. *)
AbortWait(w) ==
    /\ parent = "abort" /\ w \in pids /\ \A v \in pids : w <= v
    /\ proc[w] = "zombie"
    /\ proc' = [proc EXCEPT ![w] = "gone"] /\ pids' = pids \ {w}
    /\ UNCHANGED <<parent, forked, pstop, term, stuck, ticks, killed>>

WatchWorkers ==
    /\ parent = "fork" /\ forked = Cardinality(Pool)
    /\ parent' = "watch"
    /\ UNCHANGED <<forked, pstop, proc, term, stuck, pids, ticks, killed>>

(* Any worker that is gone stops the pool; its pid stays in the table. *)
SeeExit(w) ==
    /\ parent = "watch" /\ proc[w] = "zombie"
    /\ proc' = [proc EXCEPT ![w] = "gone"]
    /\ parent' = "stopping"
    /\ UNCHANGED <<forked, pstop, term, stuck, pids, ticks, killed>>

ParentSeesStop ==
    /\ parent = "watch" /\ pstop
    /\ parent' = "stopping"
    /\ UNCHANGED <<forked, pstop, proc, term, stuck, pids, ticks, killed>>

Stopping ==
    /\ parent = "stopping"
    /\ Signal(pids)
    /\ parent' = "reap" /\ ticks' = 0
    /\ UNCHANGED <<forked, pstop, proc, stuck, pids, killed>>

(* One round of the graceful window: zombies, and pids that are no child's  *)
(* any more, leave the table.                                               *)
ReapRound ==
    /\ parent = "reap" /\ ticks < MaxTicks
    /\ proc' = [w \in Pool |-> IF w \in pids /\ proc[w] = "zombie" THEN "gone" ELSE proc[w]]
    /\ pids' = {w \in pids : Alive(w)}
    /\ ticks' = ticks + 1
    /\ parent' = IF pids' = {} THEN "kill" ELSE "reap"
    /\ UNCHANGED <<forked, pstop, term, stuck, killed>>

WindowOver ==
    /\ parent = "reap" /\ ticks = MaxTicks
    /\ parent' = "kill"
    /\ UNCHANGED <<forked, pstop, proc, term, stuck, pids, ticks, killed>>

(* Faulty variant: stragglers are asked once more instead of killed. *)
KillPolitely == /\ \A w \in pids : ~ Alive(w)
                /\ proc' = [w \in Pool |-> IF w \in pids THEN "gone" ELSE proc[w]]

(* SIGKILL and waitpid. *)
KillStragglers == proc' = [w \in Pool |-> IF w \in pids THEN "gone" ELSE proc[w]]

Kill ==
    /\ parent = "kill"
    /\ KillStragglers
    /\ pids' = {} /\ parent' = "gone"
    /\ UNCHANGED <<forked, pstop, term, stuck, ticks, killed>>

AbortEnds ==
    /\ parent = "abort" /\ pids = {} /\ parent' = "gone"
    /\ UNCHANGED <<forked, pstop, proc, term, stuck, pids, ticks, killed>>

ParentStep == \/ ForkWorker \/ WorkerForkFails \/ WatchWorkers \/ ParentSeesStop \/ Stopping
              \/ ReapRound \/ WindowOver \/ Kill \/ AbortEnds
              \/ \E w \in Pool : AbortWait(w) \/ SeeExit(w)

-----------------------------------------------------------------------------
(* Signals from outside.  The death of the parent, whatever its cause,      *)
(* sends SIGTERM to the workers that have asked for it.                     *)

ParentDies ==
    /\ parent' = "gone" /\ killed' = TRUE
    /\ term' = [w \in Pool |-> IF proc[w] \in {"asked", "starting", "serving", "draining"}
                               THEN TRUE ELSE term[w]]
    /\ UNCHANGED <<forked, pstop, proc, stuck, pids, ticks>>

ParentKilled == parent # "gone" /\ ParentDies

(* SIGTERM finds the handler installed only after the last fork. *)
ParentTerminated ==
    /\ parent # "gone" /\ ~ pstop
    /\ IF parent \in {"fork", "abort"} THEN ParentDies
       ELSE /\ pstop' = TRUE
            /\ UNCHANGED <<parent, forked, proc, term, stuck, pids, ticks, killed>>

-----------------------------------------------------------------------------
(* A worker process.                                                        *)

Move(w, from, to) ==
    /\ proc[w] = from /\ proc' = [proc EXCEPT ![w] = to]
    /\ UNCHANGED <<parent, forked, pstop, term, stuck, pids, ticks, killed>>

(* prctl(PR_SET_PDEATHSIG, SIGTERM). *)
AskForSignal(w) == Move(w, "born", "asked")

(* Faulty variant: the request to the kernel is thought to be enough. *)
OutlivesParent(w) == Move(w, "asked", "starting")

(* getppid: the parent may have died before the request. *)
CheckParent(w) == \/ parent # "gone" /\ Move(w, "asked", "starting")
                  \/ parent = "gone" /\ Move(w, "asked", "zombie")

Serve(w) == Move(w, "starting", "serving")

(* SIGTERM ends a worker that has not installed its handler yet. *)
Terminated(w) ==
    /\ term[w] /\ proc[w] \in {"born", "asked", "starting", "serving"}
    /\ Move(w, proc[w], IF proc[w] = "serving" THEN "draining" ELSE "zombie")

(* mg_stop waits for every handler. *)
Exit(w) == w \notin stuck /\ Move(w, "draining", "zombie")

GetsStuck(w) ==
    /\ proc[w] = "serving" /\ stuck' = stuck \union {w}
    /\ UNCHANGED <<parent, forked, pstop, proc, term, pids, ticks, killed>>

Crash(w) == Move(w, "serving", "zombie")

(* init waits for the orphans. *)
Orphaned(w) == parent = "gone" /\ Move(w, "zombie", "gone")

WorkerProcStep(w) == \/ AskForSignal(w) \/ CheckParent(w) \/ Serve(w) \/ Terminated(w)
                 \/ Exit(w) \/ Orphaned(w)

PreforkNext == \/ ParentStep \/ ParentKilled \/ ParentTerminated
               \/ \E w \in Pool : WorkerProcStep(w) \/ GetsStuck(w) \/ Crash(w)

PreforkSpec == PreforkInit /\ [][PreforkNext]_preforkVars

-----------------------------------------------------------------------------
(* "Die with the parent (SIGKILL'd or crashed): otherwise orphaned workers  *)
(* keep the SO_REUSEPORT socket" (src/src/typeeasy_api_server.c:1624-1626): *)
(* whenever the parent dies, so do its workers, but for those with a stuck  *)
(* handler, which SIGTERM does not end.                                     *)
NoOrphans ==
    parent = "gone" ~> \A w \in Pool : proc[w] \in {"none", "gone"} \/ w \in stuck

(* SIGTERM, or the loss of a worker, ends the whole pool, stuck handlers or *)
(* not ("a worker stuck in a handler must not outlive the pool",            *)
(* src/src/typeeasy_api_server.c:1659-1660), unless the parent is killed.   *)
PoolEnds ==
    (parent \notin {"fork", "abort"} /\ (pstop \/ \E w \in Pool : proc[w] = "zombie"))
        ~> (killed \/ \A w \in Pool : proc[w] = "gone")
=============================================================================
