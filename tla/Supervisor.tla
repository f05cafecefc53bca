----------------------------- MODULE Supervisor -----------------------------
(***************************************************************************)
(* The supervisor of the separate API server and its rolling reload         *)
(* (src/api_server/servidor_api.c:1332-1440, 1547-1634).  A worker is a     *)
(* process that has parsed some version of the scripts; what it serves is   *)
(* in CivetPool and WebSocket.                                              *)
(***************************************************************************)
EXTENDS Naturals, FiniteSets

CONSTANTS Slots,          \* 1..g_num_workers
          Pids,           \* process numbers, used again once waited for
          NoPid,          \* 0
          MaxVersion,     \* bound: edits of the scripts
          MaxTrouble      \* bound: crashes and forks that fail

ASSUME SupervisorAssumption ==
    /\ IsFiniteSet(Slots) /\ Slots # {} /\ Slots = 1..Cardinality(Slots)
    /\ NoPid \notin Pids
    /\ MaxVersion \in Nat /\ MaxTrouble \in Nat

VARIABLES
    sup,           \* what the supervisor is at
    slot,          \* g_worker_pids
    olds, news,    \* old_pids, new_pids
    done,          \* workers its current loop has dealt with
    wproc,         \* what each process is at
    version,       \* the scripts it has parsed
    scripts,       \* the scripts on disk; every edit has its own mtime
    baseline,      \* g_scripts of the supervisor
    crashes, failures

supVars == <<sup, slot, olds, news, done, wproc, version, scripts, baseline,
             crashes, failures>>

Children == {p \in Pids : wproc[p] # "none"}
Running == {p \in Pids : wproc[p] \in {"loading", "serving"}}
Serving == {p \in Pids : wproc[p] = "serving"}
Trouble == crashes + failures

SupInit ==
    /\ sup = "init" /\ slot = [i \in Slots |-> NoPid]
    /\ olds = [i \in Slots |-> NoPid] /\ news = [i \in Slots |-> NoPid]
    /\ done = 0
    /\ wproc = [p \in Pids |-> "none"] /\ version = [p \in Pids |-> 0]
    /\ scripts = 0 /\ baseline = 0
    /\ crashes = 0 /\ failures = 0

(* fork gives a number that no process has. *)
Fork(p) == /\ wproc[p] = "none" /\ wproc' = [wproc EXCEPT ![p] = "loading"]
           /\ UNCHANGED failures
ForkFails == /\ Trouble < MaxTrouble /\ failures' = failures + 1
             /\ UNCHANGED wproc

-----------------------------------------------------------------------------
(* The supervisor.                                                          *)

SpawnInitial ==
    /\ sup = "init"
    /\ \/ \E p \in Pids :
             /\ Fork(p)
             /\ slot' = [slot EXCEPT ![done + 1] = p]
             /\ IF done + 1 = Cardinality(Slots) THEN sup' = "reap" /\ done' = 0
                ELSE done' = done + 1 /\ UNCHANGED sup
       \/ ForkFails /\ sup' = "gone" /\ UNCHANGED <<slot, done>>
    /\ UNCHANGED <<olds, news, version, scripts, baseline, crashes>>

(* Faulty variant: find_worker_slot passes over the last slot. *)
SlotsBeforeLast(p) == {i \in Slots : /\ slot[i] = p /\ i + 1 \in Slots
                                     /\ \A j \in Slots : slot[j] = p => i <= j}

(* The first slot with the number, if there is one. *)
SlotOf(p) == {i \in Slots : slot[i] = p /\ \A j \in Slots : slot[j] = p => i <= j}

(* waitpid(-1, WNOHANG) and the respawn in the slot of the dead worker. *)
Reap(z) ==
    /\ sup = "reap" /\ wproc[z] = "zombie"
    /\ \/ /\ SlotOf(z) = {}
          /\ wproc' = [wproc EXCEPT ![z] = "none"] /\ UNCHANGED <<slot, failures>>
       \/ \E i \in SlotOf(z), p \in Pids :
             /\ p = z \/ wproc[p] = "none"
             /\ wproc' = [wproc EXCEPT ![z] = "none", ![p] = "loading"]
             /\ slot' = [slot EXCEPT ![i] = p] /\ UNCHANGED failures
       \/ /\ SlotOf(z) # {} /\ Trouble < MaxTrouble
          /\ failures' = failures + 1
          /\ wproc' = [wproc EXCEPT ![z] = "none"] /\ UNCHANGED slot
    /\ UNCHANGED <<sup, olds, news, done, version, scripts, baseline, crashes>>

(* No zombie is left: hotreload_changed. *)
Check ==
    /\ sup = "reap" /\ \A p \in Pids : wproc[p] # "zombie"
    /\ scripts # baseline
    /\ olds' = slot /\ sup' = "spawn"
    /\ UNCHANGED <<slot, news, done, wproc, version, scripts, baseline, crashes, failures>>

SpawnNew ==
    /\ sup = "spawn"
    /\ \/ \E p \in Pids : Fork(p) /\ news' = [news EXCEPT ![done + 1] = p]
       \/ ForkFails /\ news' = [news EXCEPT ![done + 1] = NoPid]
    /\ IF done + 1 = Cardinality(Slots) THEN sup' = "settle" /\ done' = 0
       ELSE done' = done + 1 /\ UNCHANGED sup
    /\ UNCHANGED <<slot, olds, version, scripts, baseline, crashes>>

(* Faulty variant: the old workers are told at once. *)
NoSleep == TRUE

(* sleep(2) is taken to be longer than the start of a worker. *)
Bound == \A i \in Slots : news[i] # NoPid => wproc[news[i]] # "loading"

(* SIGTERM to the old workers: before its handler is installed it ends a    *)
(* worker, after that the worker drains.                                    *)
TermOld ==
    /\ sup = "settle" /\ Bound
    /\ LET told == {olds[i] : i \in Slots} \intersect Running IN
       \E unready \in SUBSET {p \in told : wproc[p] = "loading"} :
          wproc' = [p \in Pids |-> IF p \in unready THEN "zombie"
                                   ELSE IF p \in told THEN "draining" ELSE wproc[p]]
    /\ sup' = "wait"
    /\ UNCHANGED <<slot, olds, news, done, version, scripts, baseline, crashes,
                   failures>>

(* waitpid of each old worker in turn; a number that is no child's returns. *)
WaitOld ==
    /\ sup = "wait" /\ done < Cardinality(Slots)
    /\ LET p == olds[done + 1] IN
       IF p = NoPid \/ p \notin Children THEN UNCHANGED wproc
       ELSE wproc[p] = "zombie" /\ wproc' = [wproc EXCEPT ![p] = "none"]
    /\ done' = done + 1
    /\ UNCHANGED <<sup, slot, olds, news, version, scripts, baseline, crashes,
                   failures>>

AllWaited == done = Cardinality(Slots)

(* The new workers are promoted and the mtimes taken anew. *)
Promote ==
    /\ sup = "wait" /\ AllWaited
    /\ slot' = news /\ baseline' = scripts
    /\ olds' = [i \in Slots |-> NoPid] /\ news' = [i \in Slots |-> NoPid]
    /\ sup' = "reap" /\ done' = 0
    /\ UNCHANGED <<wproc, version, scripts, crashes, failures>>

SupStep == \/ SpawnInitial \/ Check \/ SpawnNew \/ TermOld \/ WaitOld \/ Promote
           \/ \E z \in Pids : Reap(z)

-----------------------------------------------------------------------------
(* The workers and the world.                                               *)

LoadScripts(p) ==
    /\ wproc[p] = "loading"
    /\ wproc' = [wproc EXCEPT ![p] = "serving"]
    /\ version' = [version EXCEPT ![p] = scripts]
    /\ UNCHANGED <<sup, slot, olds, news, done, scripts, baseline, crashes, failures>>

ExitDrained(p) ==
    /\ wproc[p] = "draining"
    /\ wproc' = [wproc EXCEPT ![p] = "zombie"]
    /\ UNCHANGED <<sup, slot, olds, news, done, version, scripts, baseline, crashes,
                   failures>>

WorkerCrash(p) ==
    /\ p \in Running /\ Trouble < MaxTrouble /\ crashes' = crashes + 1
    /\ wproc' = [wproc EXCEPT ![p] = "zombie"]
    /\ UNCHANGED <<sup, slot, olds, news, done, version, scripts, baseline, failures>>

EditScripts ==
    /\ scripts < MaxVersion /\ scripts' = scripts + 1
    /\ UNCHANGED <<sup, slot, olds, news, done, wproc, version, baseline, crashes,
                   failures>>

SupWorkerStep(p) == LoadScripts(p) \/ ExitDrained(p)

SupNext == \/ SupStep \/ EditScripts
           \/ \E p \in Pids : SupWorkerStep(p) \/ WorkerCrash(p)

SupSpec == SupInit /\ [][SupNext]_supVars

-----------------------------------------------------------------------------
(* The reload is rolling: without a crash or a failed fork, from the first  *)
(* reload on some worker serves at every moment.                            *)
SomeoneServes ==
    Trouble = 0 /\ sup \in {"settle", "wait"} /\ (\E p \in Pids : wproc[p] = "draining")
        => Serving # {}

(* Without a failed fork every slot has a running worker again. *)
SlotsRefilled ==
    \A i \in Slots : (sup = "reap" /\ slot[i] \notin Running)
                        ~> (slot[i] \in Running \/ failures > 0)

=============================================================================
