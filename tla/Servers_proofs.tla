--------------------------- MODULE Servers_proofs ---------------------------
(***************************************************************************)
(* Proofs about the life of a server, for any number of connections,        *)
(* worker threads, worker processes, edits and seconds: a rolling reload    *)
(* always has a worker that serves (Supervisor), a stop does not cut the    *)
(* answer of a handler it has waited for (ApiLifecycle), a connection is in *)
(* one place (CivetPool), no worker outlives the parent untold (WorkerPool).*)
(***************************************************************************)
EXTENDS ApiLifecycle, Supervisor, WorkerPool, FiniteSetTheorems, SequenceTheorems,
        TLAPS

-----------------------------------------------------------------------------
(* The supervisor.                                                          *)

SupStages == {"init", "reap", "spawn", "settle", "wait", "gone"}
ProcStages == {"none", "loading", "serving", "draining", "zombie"}
Table == [Slots -> Pids \union {NoPid}]

SupTypeOK ==
    /\ sup \in SupStages
    /\ slot \in Table /\ olds \in Table /\ news \in Table
    /\ done \in Nat
    /\ wproc \in [Pids -> ProcStages]
    /\ crashes \in Nat /\ failures \in Nat

Olds == {olds[i] : i \in Slots}
Filled == 1..done

(* Up to the reload nothing ends, and what the table names runs. *)
BeforeReload ==
    sup \in {"init", "reap", "spawn", "settle"} =>
        /\ \A p \in Pids : wproc[p] \notin {"draining", "zombie"}
        /\ \A i \in Slots : sup # "init" \/ i \in Filled => slot[i] \in Running

(* During it the new workers run and are none of the old ones; when the old  *)
(* ones have been told, the new ones serve.                                  *)
DuringReload ==
    /\ sup \in {"spawn", "settle"} => olds = slot
    /\ \A i \in Slots : sup = "settle" \/ (sup = "spawn" /\ i \in Filled) =>
           news[i] \in Running \ Olds
    /\ sup = "wait" => \A i \in Slots : news[i] \in Serving \ Olds

(* Who has been told and not yet waited for is an old worker whose turn is   *)
(* still to come, so none is left when the new ones are promoted.            *)
WaitedInTurn ==
    sup = "wait" => \A p \in Pids : wproc[p] \in {"draining", "zombie"} =>
        \E i \in Slots : i > done /\ olds[i] = p

Counting ==
    /\ sup \in {"reap", "settle"} => done = 0
    /\ sup \in {"init", "spawn"} => done + 1 \in Slots

SupInv ==
    /\ SupTypeOK
    /\ Trouble = 0 => BeforeReload /\ DuringReload /\ WaitedInTurn /\ Counting

LEMMA SlotsAre ==
    ASSUME SupervisorAssumption
    PROVE  /\ Cardinality(Slots) \in Nat \ {0}
           /\ Slots = 1..Cardinality(Slots)
  <1>1. Cardinality(Slots) \in Nat
    BY FS_CardinalityType DEF SupervisorAssumption
  <1> QED
    BY <1>1 DEF SupervisorAssumption

(* Trouble never goes away. *)
LEMMA TroubleGrows ==
    ASSUME SupTypeOK, [SupNext]_supVars
    PROVE  /\ crashes' \in Nat /\ failures' \in Nat
           /\ Trouble' = 0 => Trouble = 0 /\ UNCHANGED <<crashes, failures>>
  BY DEF SupNext, SupStep, SupWorkerStep, SpawnInitial, Check, SpawnNew, TermOld,
         WaitOld, Promote, Reap, LoadScripts, ExitDrained, WorkerCrash,
         EditScripts, Fork, ForkFails, Trouble, supVars, SupTypeOK

LEMMA SupInit_Inv == ASSUME SupervisorAssumption, SupInit PROVE SupInv
  <1>1. SupTypeOK
    BY DEF SupInit, SupTypeOK, Table, SupStages, ProcStages
  <1>2. BeforeReload /\ DuringReload /\ WaitedInTurn /\ Counting
    BY SlotsAre DEF SupInit, BeforeReload, DuringReload, WaitedInTurn, Counting, Filled
  <1> QED
    BY <1>1, <1>2 DEF SupInv

LEMMA SupTypeNext ==
    ASSUME SupervisorAssumption, SupTypeOK, [SupNext]_supVars
    PROVE  SupTypeOK'
  <1> USE DEF SupTypeOK, Table, SupStages, ProcStages
  <1> USE TroubleGrows
  <1>1. CASE UNCHANGED supVars
    BY <1>1 DEF supVars
  <1>2. CASE SpawnInitial
    BY <1>2 DEF SpawnInitial, Fork, ForkFails
  <1>3. CASE Check
    BY <1>3 DEF Check
  <1>4. CASE SpawnNew
    BY <1>4 DEF SpawnNew, Fork, ForkFails
  <1>5. CASE TermOld
    BY <1>5 DEF TermOld
  <1>6. CASE WaitOld
    BY <1>6 DEF WaitOld
  <1>7. CASE Promote
    BY <1>7 DEF Promote
  <1>8. ASSUME NEW z \in Pids, Reap(z) PROVE SupTypeOK'
    BY <1>8 DEF Reap
  <1>9. CASE EditScripts
    BY <1>9 DEF EditScripts
  <1>10. ASSUME NEW p \in Pids, SupWorkerStep(p) \/ WorkerCrash(p)
         PROVE  SupTypeOK'
    BY <1>10 DEF SupWorkerStep, LoadScripts, ExitDrained, WorkerCrash
  <1> QED
    BY <1>1, <1>2, <1>3, <1>4, <1>5, <1>6, <1>7, <1>8, <1>9, <1>10
       DEF SupNext, SupStep

(* A smooth step, of a run in which nothing crashed and every fork worked.   *)
Rolling == BeforeReload /\ DuringReload /\ WaitedInTurn /\ Counting
Smooth == SupervisorAssumption /\ SupTypeOK /\ SupTypeOK' /\ Rolling

LEMMA SpawnInitialRolls ==
    ASSUME Smooth, SpawnInitial, failures' = failures PROVE Rolling'
  <1> DEFINE N == Cardinality(Slots)
  <1>1. N \in Nat \ {0} /\ Slots = 1..N
    BY SlotsAre DEF Smooth
  <1>2. /\ sup = "init" /\ done \in Nat /\ done + 1 \in Slots
        /\ \A p \in Pids : wproc[p] \notin {"draining", "zombie"}
        /\ \A i \in Filled : slot[i] \in Running
    BY <1>1
       DEF Smooth, Rolling, BeforeReload, Counting, SpawnInitial, SupTypeOK, Filled
  <1>3. PICK p \in Pids :
           /\ wproc[p] = "none" /\ wproc' = [wproc EXCEPT ![p] = "loading"]
           /\ slot' = [slot EXCEPT ![done + 1] = p]
           /\ IF done + 1 = N THEN sup' = "reap" /\ done' = 0
              ELSE done' = done + 1 /\ UNCHANGED sup
    BY DEF SpawnInitial, Fork, ForkFails, Smooth, SupTypeOK
  <1>4. /\ \A q \in Pids : wproc'[q] \notin {"draining", "zombie"}
        /\ p \in Running' /\ Running \subseteq Running'
    BY <1>2, <1>3 DEF Smooth, SupTypeOK, Running
  <1>5. \A i \in 1..(done + 1) : slot'[i] \in Running'
    BY <1>1, <1>2, <1>3, <1>4 DEF Smooth, SupTypeOK, Table, Filled
  <1>6. CASE done + 1 = N
    BY <1>1, <1>2, <1>3, <1>4, <1>5, <1>6
       DEF Rolling, BeforeReload, DuringReload, WaitedInTurn, Counting, Filled
  <1>7. CASE done + 1 # N
    BY <1>1, <1>2, <1>3, <1>4, <1>5, <1>7
       DEF Rolling, BeforeReload, DuringReload, WaitedInTurn, Counting, Filled
  <1> QED
    BY <1>6, <1>7

(* Nothing is reaped in such a run. *)
LEMMA ReapRolls ==
    ASSUME Smooth, NEW z \in Pids, Reap(z), failures' = failures PROVE Rolling'
  BY DEF Smooth, Rolling, BeforeReload, Reap

LEMMA CheckRolls == ASSUME Smooth, Check PROVE Rolling'
  <1>1. 1 \in Slots
    BY SlotsAre DEF Smooth
  <1> QED
    BY <1>1, SlotsAre
       DEF Check, Smooth, Rolling, BeforeReload, DuringReload, WaitedInTurn,
           Counting, Filled, Running, SupTypeOK

(* The number a fork gives is of no worker, so of no old one. *)
LEMMA SpawnNewRolls ==
    ASSUME Smooth, SpawnNew, failures' = failures PROVE Rolling'
  <1> DEFINE N == Cardinality(Slots)
  <1>1. N \in Nat \ {0} /\ Slots = 1..N
    BY SlotsAre DEF Smooth
  <1>2. /\ sup = "spawn" /\ done \in Nat /\ done + 1 \in Slots /\ olds = slot
        /\ \A p \in Pids : wproc[p] \notin {"draining", "zombie"}
        /\ \A i \in Slots : slot[i] \in Running
        /\ \A i \in Filled : i \in Slots => news[i] \in Running \ Olds
    BY DEF Smooth, Rolling, BeforeReload, DuringReload, Counting, SpawnNew, SupTypeOK
  <1>3. PICK p \in Pids :
           /\ wproc[p] = "none" /\ wproc' = [wproc EXCEPT ![p] = "loading"]
           /\ news' = [news EXCEPT ![done + 1] = p]
    BY DEF SpawnNew, Fork, ForkFails, Smooth, SupTypeOK
  <1>4. /\ UNCHANGED <<slot, olds>>
        /\ IF done + 1 = N THEN sup' = "settle" /\ done' = 0
           ELSE done' = done + 1 /\ UNCHANGED sup
    BY DEF SpawnNew
  <1>5. /\ \A q \in Pids : wproc'[q] \notin {"draining", "zombie"}
        /\ p \in Running' /\ Running \subseteq Running' /\ p \notin Running
    BY <1>2, <1>3 DEF Smooth, SupTypeOK, Running
  <1>6. Olds' = Olds /\ p \notin Olds
    BY <1>2, <1>4, <1>5 DEF Olds
  <1>7. \A i \in 1..(done + 1) : i \in Slots => news'[i] \in Running' \ Olds'
    BY <1>1, <1>2, <1>3, <1>5, <1>6 DEF Smooth, SupTypeOK, Table, Filled
  <1>8. CASE done + 1 = N
    BY <1>1, <1>2, <1>4, <1>5, <1>7, <1>8
       DEF Rolling, BeforeReload, DuringReload, WaitedInTurn, Counting, Filled
  <1>9. CASE done + 1 # N
    BY <1>1, <1>2, <1>4, <1>5, <1>7, <1>9
       DEF Rolling, BeforeReload, DuringReload, WaitedInTurn, Counting, Filled
  <1> QED
    BY <1>8, <1>9

(* The new workers have bound their sockets when the old ones are told. *)
LEMMA TermOldRolls == ASSUME Smooth, TermOld PROVE Rolling'
  <1>1. /\ sup = "settle" /\ Bound /\ done = 0
        /\ \A p \in Pids : wproc[p] \notin {"draining", "zombie"}
        /\ \A i \in Slots : news[i] \in Running \ Olds
    BY DEF Smooth, Rolling, BeforeReload, DuringReload, Counting, TermOld
  <1>2. /\ sup' = "wait" /\ UNCHANGED <<slot, olds, news, done>>
        /\ \A p \in Pids : wproc'[p] # wproc[p] => p \in Olds
        /\ Olds' = Olds
    BY DEF TermOld, Olds, Smooth, SupTypeOK
  <1>3. \A i \in Slots : news[i] \in Serving
    BY <1>1 DEF Bound, Running, Serving, Smooth, SupervisorAssumption
  <1>4. \A i \in Slots : news'[i] \in Serving' \ Olds'
    BY <1>1, <1>2, <1>3 DEF Serving
  <1>5. WaitedInTurn'
    <2> SUFFICES ASSUME NEW p \in Pids, wproc'[p] \in {"draining", "zombie"}
                 PROVE  \E i \in Slots : i > done' /\ olds'[i] = p
      BY DEF WaitedInTurn
    <2>1. PICK i \in Slots : olds[i] = p
      BY <1>1, <1>2 DEF Olds
    <2>2. i > 0
      BY SlotsAre DEF Smooth
    <2> QED
      BY <1>1, <1>2, <2>1, <2>2
  <1> QED
    BY <1>1, <1>2, <1>4, <1>5 DEF Rolling, BeforeReload, DuringReload, Counting

LEMMA WaitOldRolls == ASSUME Smooth, WaitOld PROVE Rolling'
  <1>1. /\ sup = "wait" /\ done \in Nat /\ done + 1 \in Slots
        /\ UNCHANGED <<sup, slot, olds, news>> /\ done' = done + 1
        /\ \A i \in Slots : news[i] \in Serving \ Olds
    BY SlotsAre DEF Smooth, Rolling, DuringReload, WaitOld, SupTypeOK
  <1>2. /\ \A p \in Pids : p # olds[done + 1] => wproc'[p] = wproc[p]
        /\ olds[done + 1] \in Pids => wproc'[olds[done + 1]] = "none"
    BY DEF WaitOld, Smooth, SupTypeOK, Children, SupervisorAssumption
  <1>3. \A i \in Slots : news'[i] \in Serving' \ Olds'
    BY <1>1, <1>2 DEF Serving, Olds
  <1>4. WaitedInTurn'
    <2> SUFFICES ASSUME NEW p \in Pids, wproc'[p] \in {"draining", "zombie"}
                 PROVE  \E i \in Slots : i > done' /\ olds'[i] = p
      BY DEF WaitedInTurn
    <2>1. p # olds[done + 1] /\ wproc[p] \in {"draining", "zombie"}
      BY <1>2
    <2>2. PICK i \in Slots : i > done /\ olds[i] = p
      BY <1>1, <2>1 DEF Smooth, Rolling, WaitedInTurn
    <2>3. i \in Int
      BY SlotsAre DEF Smooth
    <2> QED
      BY <1>1, <2>1, <2>2, <2>3
  <1> QED
    BY <1>1, <1>3, <1>4 DEF Rolling, BeforeReload, DuringReload, Counting

(* All have been waited for: what is promoted is all that runs. *)
LEMMA PromoteRolls == ASSUME Smooth, Promote PROVE Rolling'
  <1>1. /\ sup' = "reap" /\ done' = 0 /\ slot' = news /\ UNCHANGED wproc
        /\ \A i \in Slots : news[i] \in Serving
    BY DEF Promote, Smooth, Rolling, DuringReload
  <1>2. \A p \in Pids : wproc[p] \notin {"draining", "zombie"}
    BY SlotsAre DEF Promote, AllWaited, Smooth, Rolling, WaitedInTurn
  <1>3. Serving \subseteq Running /\ Running' = Running
    BY <1>1 DEF Serving, Running
  <1> QED
    BY <1>1, <1>2, <1>3
       DEF Rolling, BeforeReload, DuringReload, WaitedInTurn, Counting

(* A worker that is ready goes on running, one that ends was draining. *)
LEMMA WorkersRoll ==
    ASSUME Smooth, NEW p \in Pids, SupWorkerStep(p) PROVE Rolling'
  <1>1. UNCHANGED <<sup, slot, olds, news, done>>
    BY DEF SupWorkerStep, LoadScripts, ExitDrained
  <1>2. /\ Running \subseteq Running' /\ Serving \subseteq Serving'
        /\ \A q \in Pids : wproc'[q] \in {"draining", "zombie"}
                             => wproc[q] \in {"draining", "zombie"}
    BY DEF SupWorkerStep, LoadScripts, ExitDrained, Smooth, SupTypeOK,
           Running, Serving
  <1>3. Olds' = Olds /\ Filled' = Filled
    BY <1>1 DEF Olds, Filled
  <1> QED
    BY <1>1, <1>2, <1>3
       DEF Smooth, Rolling, BeforeReload, DuringReload, WaitedInTurn, Counting

LEMMA StillRolls ==
    ASSUME Smooth, UNCHANGED <<sup, slot, olds, news, done, wproc>>
    PROVE  Rolling'
  BY DEF Smooth, Rolling, BeforeReload, DuringReload, WaitedInTurn, Counting,
         Olds, Filled, Running, Serving

LEMMA SupNext_Inv ==
    ASSUME SupervisorAssumption, SupInv, [SupNext]_supVars PROVE SupInv'
  <1>1. SupTypeOK'
    BY SupTypeNext DEF SupInv
  <1> SUFFICES ASSUME Trouble' = 0 PROVE Rolling'
    BY <1>1 DEF SupInv, Rolling
  <1>2. Trouble = 0 /\ crashes' = crashes /\ failures' = failures
        /\ crashes \in Nat
    BY TroubleGrows DEF SupInv, SupTypeOK
  <1>3. Smooth
    BY <1>1, <1>2 DEF SupInv, Smooth, Rolling
  <1>4. CASE UNCHANGED supVars
    BY <1>3, <1>4, StillRolls DEF supVars
  <1>5. CASE EditScripts
    BY <1>3, <1>5, StillRolls DEF EditScripts
  <1>6. ASSUME NEW p \in Pids PROVE ~ WorkerCrash(p)
    BY <1>2 DEF WorkerCrash
  <1>7. CASE SupStep
    BY <1>2, <1>3, <1>7, SpawnInitialRolls, CheckRolls, SpawnNewRolls,
       TermOldRolls, WaitOldRolls, PromoteRolls, ReapRolls DEF SupStep
  <1> QED
    BY <1>3, <1>4, <1>5, <1>6, <1>7, WorkersRoll DEF SupNext

(* The invariant of the supervisor, for every number of workers: in a run    *)
(* without a crash or a failed fork, old and new workers are apart, the new   *)
(* ones are ready before the old ones are told, and none is left unwaited.   *)
THEOREM SupervisorInvariant ==
    ASSUME SupervisorAssumption PROVE SupSpec => []SupInv
  <1>1. SupInit => SupInv
    BY SupInit_Inv
  <1>2. SupInv /\ [SupNext]_supVars => SupInv'
    BY SupNext_Inv
  <1> QED
    BY <1>1, <1>2, PTL DEF SupSpec

(* The reload is rolling (servidor_api.c:1593-1630): whenever an old worker   *)
(* drains, a new one serves, for every number of workers and of reloads.     *)
THEOREM ReloadIsRolling ==
    ASSUME SupervisorAssumption PROVE SupSpec => []SomeoneServes
  <1>1. SupInv => SomeoneServes
    <2> SUFFICES ASSUME SupInv, Trouble = 0, sup \in {"settle", "wait"},
                        NEW p \in Pids, wproc[p] = "draining"
                 PROVE  Serving # {}
      BY DEF SomeoneServes
    <2>1. 1 \in Slots
      BY SlotsAre
    <2> QED
      BY <2>1 DEF SupInv, BeforeReload, DuringReload
  <1> QED
    BY <1>1, SupervisorInvariant, PTL

-----------------------------------------------------------------------------
(* The process.                                                             *)

LifeStages == {"load", "watch", "start", "serve", "settle", "drain", "stop", "gone"}
MasterStages == {"none", "poll", "produce", "full", "spawn", "join", "done"}
WorkerStages == {"none", "born", "back", "asleep", "woken", "read", "handler",
                 "write", "late", "exited"}

LifeTypeOK ==
    /\ mode \in Modes /\ main \in LifeStages /\ flag \in 0..2 /\ drain \in Nat
    /\ master \in MasterStages /\ held \in Conns \union {NoConn}
    /\ squeue \in Seq(Conns)
    /\ worker \in [Workers -> WorkerStages]
    /\ serving \in [Workers -> Conns \union {NoConn}]
    /\ DOMAIN conn = Conns
    /\ inflight \in Nat /\ old \in SUBSET Conns
    /\ master \in {"produce", "full"} => held \in Conns

Busy(w) == worker[w] \in {"read", "handler", "write", "late"}
Inside == {w \in Workers : worker[w] \in {"handler", "write"}}

(* stop_flag is raised by mg_stop only, and the server is down when the      *)
(* process loads: no thread of the one before is left.                       *)
FlagInv ==
    /\ main \in {"serve", "settle", "drain"} => flag = 0
    /\ main = "stop" => flag # 0
    /\ main \in {"load", "watch", "start"} =>
           flag = 2 /\ master = "none" /\ \A w \in Workers : worker[w] = "none"
    /\ flag = 2 => /\ master \in {"none", "done"}
                   /\ \A w \in Workers : worker[w] \in {"none", "exited"}
    /\ master = "join" => flag = 1

(* A busy worker has a connection; no response is cut while the server runs. *)
ServingInv ==
    /\ \A w \in Workers : Busy(w) => serving[w] \in Conns
    /\ flag = 0 => \A w \in Workers : Busy(w) => conn[serving[w]] # "cut"

(* The count is of those inside, and a drain that ends early ends at zero.   *)
DrainInv ==
    /\ inflight = Cardinality(Inside)
    /\ main = "drain" => \A c \in old : conn[c] # "cut"
    /\ main = "stop" /\ drain > 0 =>
           /\ \A c \in old : conn[c] # "cut"
           /\ Inside = {}

LifeInv == LifeTypeOK /\ FlagInv /\ ServingInv /\ DrainInv

-----------------------------------------------------------------------------
(* The steps of the pool, one lemma each, from what a step is taken in.      *)
Pooled == PoolAssumption /\ LifeInv /\ Served /\ UNCHANGED <<mode, main, drain, old>>

LEMMA InsideFinite == ASSUME PoolAssumption PROVE IsFiniteSet(Inside)
  BY FS_Subset DEF PoolAssumption, Inside

(* The count follows a worker that comes inside and one that leaves. *)
LEMMA InsideCount ==
    ASSUME PoolAssumption, NEW w \in Workers
    PROVE  /\ Cardinality(Inside) \in Nat /\ Cardinality(Inside \ {w}) \in Nat
           /\ w \notin Inside => Cardinality(Inside \union {w}) = Cardinality(Inside) + 1
           /\ w \in Inside => Cardinality(Inside \ {w}) = Cardinality(Inside) - 1
  <1>1. IsFiniteSet(Inside \ {w})
    BY InsideFinite, FS_Subset
  <1> QED
    BY <1>1, InsideFinite, FS_CardinalityType, FS_AddElement, FS_RemoveElement

(* A step of the threads that leaves the flag, the connections served and    *)
(* who is inside alone.                                                      *)
LEMMA QuietStep ==
    ASSUME Pooled, LifeTypeOK', UNCHANGED <<flag, inflight, serving>>,
           master' = master \/ (flag # 2 /\ master' # "join"),
           \A w \in Workers : /\ Busy(w)' => Busy(w)
                              /\ worker'[w] \in {"handler", "write"} <=>
                                     worker[w] \in {"handler", "write"}
                              /\ worker[w] \in {"none", "exited"} /\ flag = 2 =>
                                     worker'[w] = worker[w],
           \A c \in Conns : conn'[c] = "cut" => conn[c] = "cut"
    PROVE  LifeInv'
  <1>1. Inside' = Inside
    BY DEF Inside
  <1>2. FlagInv'
    BY DEF Pooled, LifeInv, FlagInv, Served
  <1>3. ServingInv'
    BY DEF Pooled, LifeInv, ServingInv
  <1>4. DrainInv'
    BY <1>1 DEF Pooled, LifeInv, DrainInv, LifeTypeOK
  <1> QED
    BY <1>2, <1>3, <1>4 DEF LifeInv

LEMMA ConnectsKeeps ==
    ASSUME Pooled, NEW c \in Conns, Connects(c) PROVE LifeInv'
  <1>1. LifeTypeOK'
    BY DEF Pooled, LifeInv, LifeTypeOK, Connects, threads, queueing
  <1> QED
    BY <1>1, QuietStep DEF Connects, threads, Pooled, LifeInv, LifeTypeOK, Busy

LEMMA AcceptKeeps ==
    ASSUME Pooled, NEW c \in Conns, Accept(c) PROVE LifeInv'
  <1>1. LifeTypeOK'
    BY DEF Pooled, LifeInv, LifeTypeOK, Accept, queueing, MasterStages
  <1> QED
    BY <1>1, QuietStep DEF Accept, queueing, Pooled, LifeInv, LifeTypeOK, Busy

(* A signal wakes one worker at most, and none that is awake. *)
LEMMA Signalled ==
    ASSUME LifeTypeOK, SignalFull
    PROVE  /\ worker' \in [Workers -> WorkerStages]
           /\ \A w \in Workers : worker'[w] = worker[w]
                                 \/ (worker[w] = "asleep" /\ worker'[w] = "woken")
  BY DEF SignalFull, Asleep, Become, LifeTypeOK, WorkerStages

LEMMA ProduceKeeps == ASSUME Pooled, Produce PROVE LifeInv'
  <1>1. /\ LifeTypeOK /\ master = "produce" /\ held \in Conns /\ flag # 2
        /\ UNCHANGED <<flag, serving, inflight, mode, main, drain, old>>
    BY DEF Pooled, LifeInv, LifeTypeOK, FlagInv, Produce
  <1>2. \A w \in Workers : worker'[w] = worker[w]
                           \/ (worker[w] = "asleep" /\ worker'[w] = "woken")
    BY <1>1, Signalled DEF Produce
  <1>3. /\ worker' \in [Workers -> WorkerStages]
        /\ master' \in {"full", "spawn"}
        /\ held' \in Conns \union {NoConn}
        /\ master' = "full" => held' \in Conns
    BY <1>1, Signalled DEF Produce, LifeTypeOK
  <1>4. squeue' \in Seq(Conns)
    BY <1>1, AppendProperties DEF Produce, LifeTypeOK
  <1>5. /\ DOMAIN conn' = Conns
        /\ \A c \in Conns : conn'[c] = "cut" => conn[c] = "cut"
    BY <1>1 DEF Produce, LifeTypeOK
  <1>6. LifeTypeOK'
    BY <1>1, <1>3, <1>4, <1>5 DEF LifeTypeOK, MasterStages
  <1> QED
    BY <1>1, <1>2, <1>3, <1>5, <1>6, QuietStep DEF Busy

LEMMA SpuriousFullKeeps == ASSUME Pooled, SpuriousFull PROVE LifeInv'
  <1>1. LifeTypeOK'
    BY DEF Pooled, LifeInv, LifeTypeOK, SpuriousFull, queueing, MasterStages
  <1> QED
    BY <1>1, QuietStep DEF SpuriousFull, Pooled, LifeInv, FlagInv, Busy

LEMMA StartWorkerKeeps == ASSUME Pooled, StartWorker PROVE LifeInv'
  <1>1. LifeTypeOK'
    BY DEF Pooled, LifeInv, LifeTypeOK, StartWorker, MasterStages, Become,
           WorkerStages
  <1>2. flag # 2
    BY DEF Pooled, LifeInv, FlagInv, StartWorker
  <1>3. \A w \in Workers : worker'[w] = worker[w]
                           \/ (worker[w] = "none" /\ worker'[w] = "born")
    BY DEF Pooled, LifeInv, LifeTypeOK, StartWorker, Become
  <1> QED
    BY <1>1, <1>2, <1>3, QuietStep DEF StartWorker, Busy

LEMMA MasterStopsKeeps == ASSUME Pooled, MasterStops PROVE LifeInv'
  <1>1. LifeTypeOK'
    BY DEF Pooled, LifeInv, LifeTypeOK, MasterStops, queueing, MasterStages,
           WakeAllOnStop, WorkerStages
  <1>2. /\ \A w \in Workers : worker'[w] = worker[w]
                              \/ (worker[w] = "asleep" /\ worker'[w] = "woken")
        /\ \A c \in Conns : conn'[c] = "cut" => conn[c] = "cut"
        /\ UNCHANGED <<flag, serving, inflight>> /\ master' = "join" /\ flag = 1
    BY DEF Pooled, LifeInv, LifeTypeOK, MasterStops, WakeAllOnStop
  <1>3. Inside' = Inside
    BY <1>2 DEF Inside
  <1>4. FlagInv'
    BY <1>2 DEF Pooled, LifeInv, FlagInv, Served
  <1>5. ServingInv' /\ DrainInv'
    BY <1>2, <1>3 DEF Pooled, LifeInv, ServingInv, DrainInv, LifeTypeOK, Busy
  <1> QED
    BY <1>1, <1>4, <1>5 DEF LifeInv

LEMMA MasterJoinsKeeps == ASSUME Pooled, MasterJoins PROVE LifeInv'
  <1>1. LifeTypeOK'
    BY DEF Pooled, LifeInv, LifeTypeOK, MasterJoins, queueing, MasterStages
  <1>2. /\ UNCHANGED <<worker, serving, conn, inflight>>
        /\ flag = 1 /\ flag' = 2 /\ master' = "done" /\ Joined
    BY DEF Pooled, LifeInv, FlagInv, MasterJoins
  <1>3. Inside' = Inside
    BY <1>2 DEF Inside
  <1>4. FlagInv'
    BY <1>2 DEF Pooled, LifeInv, FlagInv, Served, Joined
  <1>5. ServingInv' /\ DrainInv'
    BY <1>2, <1>3 DEF Pooled, LifeInv, ServingInv, DrainInv, LifeTypeOK, Busy
  <1> QED
    BY <1>1, <1>4, <1>5 DEF LifeInv

LEMMA SpuriousWakeupKeeps ==
    ASSUME Pooled, NEW w \in Workers, SpuriousWakeup(w) PROVE LifeInv'
  <1>1. LifeTypeOK'
    BY DEF Pooled, LifeInv, LifeTypeOK, SpuriousWakeup, queueing, Become,
           WorkerStages
  <1> QED
    BY <1>1, QuietStep
       DEF SpuriousWakeup, Pooled, LifeInv, LifeTypeOK, Become, queueing, Busy

(* A worker takes a socket while the server runs only. *)
LEMMA ConsumeKeeps ==
    ASSUME Pooled, NEW w \in Workers, Consume(w) PROVE LifeInv'
  <1>1. /\ LifeTypeOK /\ worker[w] \in {"born", "back", "woken"}
        /\ UNCHANGED <<flag, held, inflight, mode, main, drain, old>>
        /\ flag # 2
    BY DEF Pooled, LifeInv, FlagInv, Consume
  <1>2. CASE squeue = <<>> /\ flag = 0
    <2>1. worker' = [worker EXCEPT ![w] = "asleep"]
          /\ UNCHANGED <<master, squeue, serving, conn>>
      BY <1>2 DEF Consume, Become
    <2>2. LifeTypeOK'
      BY <1>1, <2>1 DEF LifeTypeOK, WorkerStages
    <2> QED
      BY <1>1, <2>1, <2>2, QuietStep DEF LifeTypeOK, Busy
  <1>3. CASE squeue # <<>> /\ flag = 0
    <2>1. /\ worker' = [worker EXCEPT ![w] = "read"]
          /\ serving' = [serving EXCEPT ![w] = Head(squeue)]
          /\ conn' = [conn EXCEPT ![Head(squeue)] = "taken"]
          /\ squeue' = Tail(squeue)
          /\ master' = IF master = "full" THEN "produce" ELSE master
      BY <1>3 DEF Consume, Become
    <2>2. Head(squeue) \in Conns /\ Tail(squeue) \in Seq(Conns)
      BY <1>1, <1>3, HeadTailProperties DEF LifeTypeOK
    <2>3. LifeTypeOK'
      BY <1>1, <2>1, <2>2 DEF LifeTypeOK, WorkerStages, MasterStages
    <2>4. Inside' = Inside
      BY <1>1, <2>1 DEF Inside, LifeTypeOK
    <2>5. \A c \in Conns : conn'[c] = "cut" => conn[c] = "cut"
      BY <1>1, <2>1, <2>2 DEF LifeTypeOK
    <2>6. FlagInv'
      BY <1>1, <1>3, <2>1 DEF Pooled, LifeInv, FlagInv, Served
    <2>7. ServingInv'
      BY <1>1, <1>3, <2>1, <2>2, <2>5
         DEF Pooled, LifeInv, ServingInv, LifeTypeOK, Busy
    <2>8. DrainInv'
      BY <1>1, <2>4, <2>5 DEF Pooled, LifeInv, DrainInv, LifeTypeOK
    <2> QED
      BY <2>3, <2>6, <2>7, <2>8 DEF LifeInv
  <1>4. CASE flag # 0
    <2>1. /\ worker' = [worker EXCEPT ![w] = "exited"]
          /\ squeue' = IF squeue = <<>> THEN squeue ELSE Tail(squeue)
          /\ conn' = IF squeue = <<>> THEN conn
                     ELSE [conn EXCEPT ![Head(squeue)] = "closed"]
          /\ master' = IF master = "full" THEN "produce" ELSE master
          /\ UNCHANGED serving
      BY <1>4 DEF Consume, Become
    <2>2. squeue' \in Seq(Conns)
          /\ (squeue # <<>> => Head(squeue) \in Conns)
      BY <1>1, <2>1, HeadTailProperties DEF LifeTypeOK
    <2>3. LifeTypeOK'
      BY <1>1, <2>1, <2>2 DEF LifeTypeOK, WorkerStages, MasterStages
    <2>4. \A c \in Conns : conn'[c] = "cut" => conn[c] = "cut"
      BY <1>1, <2>1, <2>2 DEF LifeTypeOK
    <2>5. master' = master \/ master' # "join"
      BY <2>1
    <2> QED
      BY <1>1, <2>1, <2>3, <2>4, <2>5, QuietStep DEF LifeTypeOK, Busy
  <1> QED
    BY <1>2, <1>3, <1>4

LEMMA ReadKeeps ==
    ASSUME Pooled, NEW w \in Workers, ReadRequest(w) PROVE LifeInv'
  <1>1. /\ LifeTypeOK /\ worker[w] = "read" /\ serving[w] \in Conns /\ flag # 2
        /\ UNCHANGED <<flag, master, held, squeue, mode, main, drain, old>>
    BY DEF Pooled, LifeInv, FlagInv, ServingInv, Busy, ReadRequest, queueing
  <1>2. CASE /\ flag = 0 /\ worker' = [worker EXCEPT ![w] = "handler"]
             /\ inflight' = inflight + 1 /\ UNCHANGED <<serving, conn>>
    <2>1. LifeTypeOK'
      BY <1>1, <1>2 DEF LifeTypeOK, WorkerStages
    <2>2. Inside' = Inside \union {w} /\ w \notin Inside
      BY <1>1, <1>2 DEF Inside, LifeTypeOK
    <2>3. main # "stop"
      BY <1>2 DEF Pooled, LifeInv, FlagInv
    <2>4. DrainInv'
      BY <1>1, <1>2, <2>2, <2>3, InsideCount DEF Pooled, LifeInv, DrainInv
    <2>5. FlagInv'
      BY <1>1, <1>2 DEF Pooled, LifeInv, FlagInv, Served
    <2>6. ServingInv'
      BY <1>1, <1>2 DEF Pooled, LifeInv, ServingInv, LifeTypeOK, Busy
    <2> QED
      BY <2>1, <2>4, <2>5, <2>6 DEF LifeInv
  <1>3. CASE CloseConn(w, "closed") /\ UNCHANGED inflight
    <2>1. LifeTypeOK'
      BY <1>1, <1>3 DEF LifeTypeOK, WorkerStages, CloseConn, Become
    <2>2. \A c \in Conns : conn'[c] = "cut" => conn[c] = "cut"
      BY <1>1, <1>3 DEF CloseConn, LifeTypeOK
    <2>3. Inside' = Inside
      BY <1>1, <1>3 DEF CloseConn, Become, Inside, LifeTypeOK
    <2>4. FlagInv'
      BY <1>1, <1>3 DEF CloseConn, Become, Pooled, LifeInv, FlagInv, Served
    <2>5. \A v \in Workers : Busy(v)' => Busy(v) /\ v # w /\ serving'[v] = serving[v]
      BY <1>1, <1>3 DEF CloseConn, Become, LifeTypeOK, Busy
    <2>6. ServingInv'
      BY <1>1, <2>2, <2>5 DEF Pooled, LifeInv, ServingInv
    <2>7. DrainInv'
      BY <1>1, <1>3, <2>2, <2>3 DEF Pooled, LifeInv, DrainInv, LifeTypeOK
    <2> QED
      BY <2>1, <2>4, <2>6, <2>7 DEF LifeInv
  <1> QED
    BY <1>2, <1>3 DEF ReadRequest, Become

(* A handler that ends in an error is counted out there. *)
LEMMA HandlerEndsKeeps ==
    ASSUME Pooled, NEW w \in Workers, NEW how, HandlerEnds(w, how)
    PROVE  LifeInv'
  <1>1. /\ LifeTypeOK /\ worker[w] = "handler" /\ flag # 2 /\ w \in Inside
        /\ UNCHANGED <<flag, master, held, squeue, serving, conn, mode, main, drain, old>>
    BY DEF Pooled, LifeInv, FlagInv, HandlerEnds, queueing, Inside
  <1>2. /\ inflight - 1 \in Nat /\ inflight = Cardinality(Inside)
        /\ Cardinality(Inside \ {w}) = inflight - 1
    BY <1>1, InsideCount DEF Pooled, LifeInv, DrainInv
  <1>3. /\ worker' = [worker EXCEPT ![w] = IF CountedOut(how) THEN "late" ELSE "write"]
        /\ inflight' = IF CountedOut(how) THEN inflight - 1 ELSE inflight
    BY DEF HandlerEnds, Become
  <1>4. LifeTypeOK'
    BY <1>1, <1>2, <1>3 DEF LifeTypeOK, WorkerStages
  <1>5. Inside' = IF CountedOut(how) THEN Inside \ {w} ELSE Inside
    BY <1>1, <1>3 DEF Inside, LifeTypeOK
  <1>6. FlagInv'
    BY <1>1, <1>3 DEF Pooled, LifeInv, FlagInv, Served
  <1>7. ServingInv'
    BY <1>1, <1>3 DEF Pooled, LifeInv, ServingInv, LifeTypeOK, Busy
  <1>8. DrainInv'
    BY <1>1, <1>2, <1>3, <1>5 DEF Pooled, LifeInv, DrainInv
  <1> QED
    BY <1>4, <1>6, <1>7, <1>8 DEF LifeInv

(* A response is cut only once the flag is raised, and then nobody was       *)
(* inside when it was, or the window had run out.                            *)
LEMMA WriteKeeps ==
    ASSUME Pooled, NEW w \in Workers, WriteResponse(w) PROVE LifeInv'
  <1>1. /\ LifeTypeOK /\ worker[w] \in {"late", "write"} /\ flag # 2
        /\ serving[w] \in Conns
        /\ UNCHANGED <<flag, master, held, squeue, mode, main, drain, old>>
    BY DEF Pooled, LifeInv, FlagInv, ServingInv, Busy, WriteResponse, queueing
  <1>2. PICK outcome :
           /\ CloseConn(w, outcome)
           /\ outcome = "cut" => worker[w] = "write" /\ flag # 0
    BY DEF WriteResponse
  <1>3. /\ conn' = [conn EXCEPT ![serving[w]] = outcome]
        /\ serving' = [serving EXCEPT ![w] = NoConn]
        /\ worker' = [worker EXCEPT ![w] = "back"]
    BY <1>2 DEF CloseConn, Become
  <1>4. /\ inflight = Cardinality(Inside) /\ inflight \in Nat
        /\ w \in Inside <=> worker[w] = "write"
    BY <1>1 DEF Pooled, LifeInv, DrainInv, Inside, LifeTypeOK
  <1>5. inflight' \in Nat /\ inflight' = Cardinality(Inside \ {w})
    <2>1. CASE worker[w] = "write"
      BY <1>4, <2>1, InsideCount DEF WriteResponse, Pooled
    <2>2. CASE worker[w] = "late"
      <3>1. Inside \ {w} = Inside
        BY <1>4, <2>2
      <3> QED
        BY <1>4, <2>2, <3>1 DEF WriteResponse
    <2> QED
      BY <1>1, <2>1, <2>2
  <1>6. Inside' = Inside \ {w}
    BY <1>1, <1>3 DEF Inside, LifeTypeOK
  <1>7. LifeTypeOK'
    BY <1>1, <1>3, <1>5 DEF LifeTypeOK, WorkerStages
  <1>8. FlagInv'
    BY <1>1, <1>3 DEF Pooled, LifeInv, FlagInv, Served
  <1>9. \A v \in Workers : Busy(v)' => Busy(v) /\ v # w /\ serving'[v] = serving[v]
    BY <1>1, <1>3 DEF LifeTypeOK, Busy
  <1>10. outcome # "cut" => \A c \in Conns : conn'[c] = "cut" => conn[c] = "cut"
    BY <1>1, <1>3 DEF LifeTypeOK
  <1>11. ServingInv'
    BY <1>1, <1>2, <1>9, <1>10 DEF Pooled, LifeInv, ServingInv
  <1>12. DrainInv'
    <2>1. CASE outcome # "cut"
      BY <1>1, <1>5, <1>6, <1>10, <2>1 DEF Pooled, LifeInv, DrainInv, LifeTypeOK
    <2>2. CASE outcome = "cut"
      <3>1. main # "drain" /\ ~ (main = "stop" /\ drain > 0)
        BY <1>1, <1>2, <1>4, <2>2 DEF Pooled, LifeInv, DrainInv, FlagInv
      <3> QED
        BY <1>1, <1>5, <1>6, <3>1 DEF DrainInv
    <2> QED
      BY <2>1, <2>2
  <1> QED
    BY <1>7, <1>8, <1>11, <1>12 DEF LifeInv

LEMMA PoolKeeps ==
    ASSUME Pooled, PoolNext \/ \E c \in Conns : Connects(c) PROVE LifeInv'
  <1>1. ASSUME MasterStep PROVE LifeInv'
    BY <1>1, AcceptKeeps, ProduceKeeps, StartWorkerKeeps, MasterStopsKeeps,
       MasterJoinsKeeps DEF MasterStep
  <1>2. ASSUME NEW w \in Workers, WorkerStep(w) PROVE LifeInv'
    BY <1>2, ConsumeKeeps, ReadKeeps, WriteKeeps, HandlerEndsKeeps DEF WorkerStep
  <1> QED
    BY <1>1, <1>2, ConnectsKeeps, SpuriousWakeupKeeps, SpuriousFullKeeps
       DEF PoolNext

-----------------------------------------------------------------------------
(* The main thread, the editor, the clock and the signal.                    *)
Quiet == UNCHANGED <<mode, flag, master, held, squeue, worker, serving, conn, inflight>>

(* Where the main thread may go while the threads stand still. *)
LEMMA MainMoves ==
    ASSUME LifeInv, Quiet, main' \in LifeStages, drain' \in Nat,
           old' \in SUBSET Conns,
           main' \in {"serve", "settle", "drain"} => flag = 0,
           main' \in {"stop", "load"} => UNCHANGED main,
           main' \in {"watch", "start"} => main \in {"load", "watch", "start"},
           main' = "drain" => UNCHANGED <<main, old>> \/ old' = InsideNow,
           main' = "stop" => UNCHANGED <<drain, old>>
    PROVE  LifeInv'
  <1>1. Inside' = Inside
    BY DEF Inside, Quiet
  <1>2. LifeTypeOK'
    BY DEF LifeInv, LifeTypeOK, Quiet
  <1>3. FlagInv'
    BY DEF LifeInv, FlagInv, Quiet
  <1>4. ServingInv'
    BY DEF LifeInv, ServingInv, Quiet, Busy
  <1>5. flag = 0 => \A c \in InsideNow : conn[c] # "cut"
    BY DEF LifeInv, ServingInv, Busy, InsideNow
  <1>6. DrainInv'
    BY <1>1, <1>5 DEF LifeInv, DrainInv, Quiet
  <1> QED
    BY <1>2, <1>3, <1>4, <1>6 DEF LifeInv

LEMMA LifeInit_Inv ==
    ASSUME PoolAssumption, LifecycleAssumption, LifeInit PROVE LifeInv
  <1>1. LifeTypeOK
    BY EmptySeq DEF LifeInit, PoolInit, LifeTypeOK, LifeStages, MasterStages,
                   WorkerStages
  <1>2. FlagInv /\ ServingInv
    BY DEF LifeInit, PoolInit, FlagInv, ServingInv, Busy
  <1>3. Inside = {}
    BY DEF LifeInit, PoolInit, Inside
  <1>4. DrainInv
    BY <1>3, FS_EmptySet DEF LifeInit, PoolInit, DrainInv
  <1> QED
    BY <1>1, <1>2, <1>4 DEF LifeInv

(* The threads of the pool begin with none but the master. *)
LEMMA StartKeeps == ASSUME LifeInv, Start PROVE LifeInv'
  <1>1. /\ main = "start" /\ main' = "serve" /\ flag' = 0 /\ master' = "poll"
        /\ UNCHANGED <<mode, held, squeue, worker, serving, conn, inflight, drain,
                       old>>
        /\ \A w \in Workers : worker[w] = "none"
    BY DEF LifeInv, FlagInv, Start, StartPool
  <1>2. LifeTypeOK'
    BY <1>1 DEF LifeInv, LifeTypeOK, LifeStages, MasterStages
  <1>3. FlagInv' /\ ServingInv'
    BY <1>1 DEF FlagInv, ServingInv, Busy
  <1>4. DrainInv'
    BY <1>1 DEF LifeInv, DrainInv, Inside
  <1> QED
    BY <1>2, <1>3, <1>4 DEF LifeInv

(* A drain that is over with seconds left leaves nobody inside. *)
LEMMA StopServerKeeps == ASSUME PoolAssumption, LifeInv, StopServer PROVE LifeInv'
  <1>1. /\ main = "drain" /\ main' = "stop" /\ flag' = 1 /\ flag = 0
        /\ UNCHANGED <<mode, master, held, squeue, worker, serving, conn,
                       inflight, drain, old>>
        /\ drain = 0 \/ inflight = 0
    BY DEF LifeInv, FlagInv, StopServer, threads, queueing, DrainOver
  <1>2. LifeTypeOK'
    BY <1>1 DEF LifeInv, LifeTypeOK, LifeStages
  <1>3. FlagInv' /\ ServingInv'
    BY <1>1 DEF LifeInv, LifeTypeOK, FlagInv, ServingInv, Busy
  <1>4. drain > 0 => Inside = {}
    BY <1>1, InsideFinite, FS_EmptySet DEF LifeInv, LifeTypeOK, DrainInv
  <1>5. Inside' = Inside
    BY <1>1 DEF Inside
  <1>6. DrainInv'
    BY <1>1, <1>4, <1>5 DEF LifeInv, DrainInv
  <1> QED
    BY <1>2, <1>3, <1>6 DEF LifeInv

(* The server is down: the process ends, or its image is replaced. *)
LEMMA StoppedKeeps == ASSUME PoolAssumption, LifeInv, Stopped PROVE LifeInv'
  <1>1. CASE ~ reload
    BY <1>1, MainMoves
       DEF Stopped, pool, signals, Quiet, LifeInv, LifeTypeOK, LifeStages
  <1>2. CASE reload
    <2>1. /\ main' = "load" /\ drain' = 0 /\ old' = {} /\ squeue' = <<>>
          /\ flag = 2 /\ master' = "none"
          /\ worker' = [w \in Workers |-> "none"]
          /\ DOMAIN conn' = Conns
          /\ UNCHANGED <<mode, flag, held, serving, inflight>>
      BY <1>2 DEF Stopped
    <2>2. LifeTypeOK'
      BY <2>1, EmptySeq
         DEF LifeInv, LifeTypeOK, LifeStages, MasterStages, WorkerStages
    <2>3. FlagInv' /\ ServingInv'
      BY <2>1 DEF FlagInv, ServingInv, Busy
    <2>4. Inside' = {} /\ Inside = {}
      BY <2>1 DEF LifeInv, FlagInv, Inside
    <2>5. DrainInv'
      BY <2>1, <2>4 DEF LifeInv, DrainInv
    <2> QED
      BY <2>2, <2>3, <2>5 DEF LifeInv
  <1> QED
    BY <1>1, <1>2

LEMMA MainKeeps ==
    ASSUME PoolAssumption, LifecycleAssumption, LifeInv, Main PROVE LifeInv'
  <1> USE DEF LifeStages, signals, pool, Quiet, threads, queueing
  <1>1. LifeTypeOK /\ FlagInv /\ DrainSeconds \in Nat /\ InsideNow \in SUBSET Conns
    BY DEF LifeInv, ServingInv, Busy, InsideNow, LifecycleAssumption
  <1>2. CASE Load
    BY <1>1, <1>2, MainMoves DEF Load, LifeTypeOK
  <1>3. CASE Watch
    BY <1>1, <1>3, MainMoves DEF Watch, LifeTypeOK
  <1>4. CASE SeeStop
    BY <1>1, <1>4, MainMoves DEF SeeStop, BeginDrain, FlagInv
  <1>5. CASE SeeChange
    BY <1>1, <1>5, MainMoves DEF SeeChange, LifeTypeOK, FlagInv
  <1>6. CASE Settle
    BY <1>1, <1>6, MainMoves DEF Settle, BeginDrain, LifeTypeOK, FlagInv
  <1>7. CASE DrainTick
    BY <1>1, <1>7, MainMoves DEF DrainTick, LifeTypeOK, FlagInv
  <1> QED
    BY <1>2, <1>3, <1>4, <1>5, <1>6, <1>7, StartKeeps, StopServerKeeps,
       StoppedKeeps DEF Main

LEMMA LifeNext_Inv ==
    ASSUME PoolAssumption, LifecycleAssumption, LifeInv, [LifeNext]_lifeVars
    PROVE  LifeInv'
  <1>1. CASE UNCHANGED lifeVars
    <2>1. UNCHANGED <<mode, main, drain, old>> /\ Quiet
      BY <1>1 DEF lifeVars, pool, Quiet
    <2> QED
      BY <2>1, MainMoves DEF LifeInv, LifeTypeOK, FlagInv
  <1>2. CASE Edit \/ Tick
    <2>1. UNCHANGED <<mode, main, drain, old>> /\ Quiet
      BY <1>2 DEF Edit, Tick, pool, Quiet
    <2> QED
      BY <2>1, MainMoves DEF LifeInv, LifeTypeOK, FlagInv
  <1>3. CASE Terminate
    <2>1. (main' = "gone" \/ UNCHANGED main) /\ UNCHANGED <<drain, old>> /\ Quiet
      BY <1>3 DEF Terminate, pool, Quiet
    <2> QED
      BY <2>1, MainMoves DEF LifeInv, LifeTypeOK, FlagInv, LifeStages
  <1>4. CASE ServerStep(PoolNext \/ \E c \in Clients[mode] \ old : Connects(c))
    <2>1. Pooled
      BY <1>4 DEF ServerStep, Pooled
    <2>2. PoolNext \/ \E c \in Conns : Connects(c)
      <3>1. mode \in Modes
        BY DEF LifeInv, LifeTypeOK
      <3>2. Clients[mode] \subseteq Conns
        BY <3>1 DEF LifecycleAssumption
      <3> QED
        BY <1>4, <3>2 DEF ServerStep
    <2> QED
      BY <2>1, <2>2, PoolKeeps
  <1> QED
    BY <1>1, <1>2, <1>3, <1>4, MainKeeps DEF LifeNext

(* The invariant of the process, for any number of connections and threads,   *)
(* in both modes, through any number of reloads.                             *)
THEOREM LifeInvariant ==
    ASSUME PoolAssumption, LifecycleAssumption PROVE LifeSpec => []LifeInv
  <1>1. LifeInit => LifeInv
    BY LifeInit_Inv
  <1>2. LifeInv /\ [LifeNext]_lifeVars => LifeInv'
    BY LifeNext_Inv
  <1> QED
    BY <1>1, <1>2, PTL DEF LifeSpec

(* A stop does not cut a handler it has waited for                            *)
(* (typeeasy_api_server.c:1326-1337): when the drain ended before its window  *)
(* did, every handler that ran when it began has had its response written    *)
(* while the server still ran, unless it ended in an error.                  *)
THEOREM DrainWaits ==
    ASSUME PoolAssumption, LifecycleAssumption
    PROVE  LifeSpec => []DrainedAreAnswered
  <1>1. LifeInv => DrainedAreAnswered
    BY DEF LifeInv, DrainInv, DrainedAreAnswered, Inside
  <1> QED
    BY <1>1, LifeInvariant, PTL

-----------------------------------------------------------------------------
(* Where the connections are.                                               *)

(* The queue names each queued connection once, and no other. *)
QueuedOnce ==
    /\ \A i, j \in 1..Len(squeue) : squeue[i] = squeue[j] => i = j
    /\ \A i \in 1..Len(squeue) : conn[squeue[i]] = "queued"
    /\ \A c \in Conns : conn[c] = "queued" => \E i \in 1..Len(squeue) : squeue[i] = c
    /\ Len(squeue) <= QueueSize

(* The master holds, or one worker serves, each connection taken. *)
HeldBy(c) == c = held \/ \E w \in Workers : serving[w] = c

TakenOnce ==
    /\ held \in Conns => /\ master \in {"produce", "full"}
                         /\ \A w \in Workers : serving[w] # held
    /\ \A w \in Workers : serving[w] \in Conns => Busy(w)
    /\ \A v, w \in Workers : serving[v] = serving[w] /\ serving[v] \in Conns => v = w
    /\ \A c \in Conns : conn[c] = "taken" <=> HeldBy(c)

(* idle_worker_thread_count is of the threads in, or on their way to, the    *)
(* queue.                                                                   *)
IdleOnes == {w \in Workers : worker[w] \in {"born", "asleep", "woken"}}
IdleCounted == idle = Cardinality(IdleOnes)

PlacesInv == QueuedOnce /\ TakenOnce /\ IdleCounted

Placed == PoolAssumption /\ LifeInv /\ PlacesInv

LEMMA QueueStays ==
    ASSUME QueuedOnce, UNCHANGED squeue, squeue \in Seq(Conns),
           \A c \in Conns : conn'[c] = "queued" <=> conn[c] = "queued"
    PROVE  QueuedOnce'
  BY DEF QueuedOnce

LEMMA HoldersStay ==
    ASSUME TakenOnce, UNCHANGED <<held, serving>>,
           held \in Conns => master' \in {"produce", "full"},
           \A w \in Workers : Busy(w) => Busy(w)',
           \A c \in Conns : conn'[c] = "taken" <=> conn[c] = "taken"
    PROVE  TakenOnce'
  BY DEF TakenOnce, HeldBy

LEMMA IdleStays ==
    ASSUME IdleCounted, UNCHANGED idle,
           \A w \in Workers : worker'[w] \in {"born", "asleep", "woken"} <=>
                                  worker[w] \in {"born", "asleep", "woken"}
    PROVE  IdleCounted'
  <1>1. IdleOnes' = IdleOnes
    BY DEF IdleOnes
  <1> QED
    BY <1>1 DEF IdleCounted

(* One thread is counted, or no longer. *)
LEMMA IdleMoves ==
    ASSUME PoolAssumption, IdleCounted, NEW w \in Workers,
           \A v \in Workers \ {w} : worker'[v] = worker[v],
           idle' = idle + (IF w \in IdleOnes' /\ w \notin IdleOnes THEN 1 ELSE 0)
                        - (IF w \in IdleOnes /\ w \notin IdleOnes' THEN 1 ELSE 0)
    PROVE  IdleCounted'
  <1>1. IsFiniteSet(IdleOnes) /\ IsFiniteSet(IdleOnes \ {w})
    BY FS_Subset DEF PoolAssumption, IdleOnes
  <1>2. /\ Cardinality(IdleOnes) \in Nat /\ Cardinality(IdleOnes \ {w}) \in Nat
        /\ w \notin IdleOnes => Cardinality(IdleOnes \union {w}) = Cardinality(IdleOnes) + 1
        /\ w \in IdleOnes => Cardinality(IdleOnes \ {w}) = Cardinality(IdleOnes) - 1
    BY <1>1, FS_CardinalityType, FS_AddElement, FS_RemoveElement
  <1>3. IdleOnes' = IF w \in IdleOnes' THEN IdleOnes \union {w} ELSE IdleOnes \ {w}
    BY DEF IdleOnes
  <1>4. /\ w \in IdleOnes => IdleOnes \union {w} = IdleOnes
        /\ w \notin IdleOnes => IdleOnes \ {w} = IdleOnes
    OBVIOUS
  <1>5. idle = Cardinality(IdleOnes)
    BY DEF IdleCounted
  <1>6. idle' = Cardinality(IdleOnes')
    <2>1. CASE w \in IdleOnes'
      <3>1. IdleOnes' = IdleOnes \union {w}
        BY <1>3, <2>1
      <3>2. CASE w \in IdleOnes
        <4>1. IdleOnes' = IdleOnes
          BY <1>4, <3>1, <3>2
        <4> QED
          BY <1>2, <1>5, <2>1, <3>2, <4>1
      <3>3. CASE w \notin IdleOnes
        BY <1>2, <1>5, <2>1, <3>1, <3>3
      <3> QED
        BY <3>2, <3>3
    <2>2. CASE w \notin IdleOnes'
      <3>1. IdleOnes' = IdleOnes \ {w}
        BY <1>3, <2>2
      <3>2. CASE w \in IdleOnes
        BY <1>2, <1>5, <2>2, <3>1, <3>2
      <3>3. CASE w \notin IdleOnes
        <4>1. IdleOnes' = IdleOnes
          BY <1>4, <3>1, <3>3
        <4> QED
          BY <1>2, <1>5, <2>2, <3>3, <4>1
      <3> QED
        BY <3>2, <3>3
    <2> QED
      BY <2>1, <2>2
  <1> QED
    BY <1>6 DEF IdleCounted

-----------------------------------------------------------------------------
(* The steps, one lemma each.                                               *)

LEMMA ConnectsPlaces ==
    ASSUME Placed, NEW c \in Conns, Connects(c) PROVE PlacesInv'
  <1>1. /\ UNCHANGED <<master, worker, held, squeue, idle, serving>>
        /\ \A d \in Conns : /\ conn'[d] = "queued" <=> conn[d] = "queued"
                            /\ conn'[d] = "taken" <=> conn[d] = "taken"
    BY DEF Connects, threads, queueing, Placed, LifeInv, LifeTypeOK
  <1>2. held \in Conns => master' \in {"produce", "full"}
    BY <1>1 DEF Placed, PlacesInv, TakenOnce
  <1> QED
    BY <1>1, <1>2, QueueStays, HoldersStay, IdleStays
       DEF Placed, PlacesInv, LifeInv, LifeTypeOK, Busy

LEMMA AcceptPlaces ==
    ASSUME Placed, NEW c \in Conns, Accept(c) PROVE PlacesInv'
  <1>1. /\ UNCHANGED <<worker, squeue, idle, serving>> /\ held' = c
        /\ conn' = [conn EXCEPT ![c] = "taken"] /\ conn[c] = "backlog"
        /\ master = "poll" /\ master' = "produce" /\ LifeTypeOK
    BY DEF Accept, queueing, Placed, LifeInv
  <1>2. held \notin Conns /\ \A w \in Workers : serving[w] # c
    BY <1>1 DEF Placed, PlacesInv, TakenOnce, HeldBy
  <1>3. QueuedOnce'
    BY <1>1, QueueStays DEF Placed, PlacesInv, LifeTypeOK
  <1>4. TakenOnce'
    BY <1>1, <1>2 DEF Placed, PlacesInv, TakenOnce, HeldBy, Busy, LifeTypeOK
  <1>5. IdleCounted'
    BY <1>1, IdleStays DEF Placed, PlacesInv
  <1> QED
    BY <1>3, <1>4, <1>5 DEF PlacesInv

LEMMA ProducePlaces == ASSUME Placed, Produce PROVE PlacesInv'
  <1>1. /\ LifeTypeOK /\ master = "produce" /\ held \in Conns /\ NoConn \notin Conns
        /\ QueueSize \in Nat /\ UNCHANGED <<idle, serving>>
        /\ conn[held] = "taken"
    BY DEF Produce, Placed, LifeInv, LifeTypeOK, PoolAssumption, PlacesInv, TakenOnce,
           HeldBy
  <1>2. \A w \in Workers : worker'[w] = worker[w]
                           \/ (worker[w] = "asleep" /\ worker'[w] = "woken")
    BY <1>1, Signalled DEF Produce
  <1>3. IdleCounted'
    BY <1>1, <1>2, IdleStays DEF Placed, PlacesInv
  <1>4. CASE UNCHANGED <<held, squeue, worker, conn>> /\ master' = "full"
    BY <1>1, <1>3, <1>4, QueueStays, HoldersStay
       DEF Placed, PlacesInv, LifeTypeOK, Busy
  <1>5. ASSUME held' = NoConn, NEW place \in {"queued", "closed"},
               conn' = [conn EXCEPT ![held] = place]
        PROVE  TakenOnce'
    BY <1>1, <1>2, <1>5 DEF Placed, PlacesInv, TakenOnce, HeldBy, Busy, LifeTypeOK
  <1>6. CASE /\ Len(squeue) < QueueSize /\ squeue' = Append(squeue, held)
             /\ conn' = [conn EXCEPT ![held] = "queued"] /\ held' = NoConn
    <2>1. /\ Len(squeue') = Len(squeue) + 1 /\ squeue'[Len(squeue) + 1] = held
          /\ \A i \in 1..Len(squeue) : squeue'[i] = squeue[i] /\ squeue[i] # held
          /\ Len(squeue) \in Nat
      BY <1>1, <1>6 DEF LifeTypeOK, Placed, PlacesInv, QueuedOnce
    <2>2. \A d \in Conns : conn'[d] = IF d = held THEN "queued" ELSE conn[d]
      BY <1>1, <1>6 DEF LifeTypeOK
    <2>3. \A i \in 1..Len(squeue) : squeue[i] \in Conns
      BY <1>1 DEF LifeTypeOK
    <2>4. QueuedOnce'
      BY <1>1, <1>6, <2>1, <2>2, <2>3 DEF Placed, PlacesInv, QueuedOnce
    <2> QED
      BY <1>3, <1>5, <1>6, <2>4 DEF PlacesInv
  <1>7. CASE /\ conn' = [conn EXCEPT ![held] = "closed"] /\ UNCHANGED squeue
             /\ held' = NoConn
    <2>1. QueuedOnce'
      BY <1>1, <1>7, QueueStays DEF Placed, PlacesInv, LifeTypeOK
    <2> QED
      BY <1>3, <1>5, <1>7, <2>1 DEF PlacesInv
  <1> QED
    BY <1>4, <1>6, <1>7 DEF Produce

(* Steps that leave the connections where they are. *)
Settled == UNCHANGED <<held, squeue, serving, conn>>
              /\ (held \in Conns => master' \in {"produce", "full"})
              /\ \A w \in Workers : Busy(w) => Busy(w)'

LEMMA SettledPlaces ==
    ASSUME Placed, Settled PROVE QueuedOnce' /\ TakenOnce'
  BY QueueStays, HoldersStay DEF Settled, Placed, PlacesInv, LifeInv, LifeTypeOK

LEMMA StartWorkerPlaces == ASSUME Placed, StartWorker PROVE PlacesInv'
  <1>1. LifeTypeOK /\ master = "spawn" /\ UNCHANGED <<held, squeue, serving, conn>>
    BY DEF StartWorker, Placed, LifeInv
  <1>2. CASE UNCHANGED <<idle, worker>>
    BY <1>1, <1>2, SettledPlaces, IdleStays
       DEF Placed, PlacesInv, Settled, TakenOnce, Busy
  <1>3. ASSUME NEW w \in Workers, worker[w] = "none", Become(w, "born"), idle' = idle + 1
        PROVE  PlacesInv'
    <2>1. Settled
      BY <1>1, <1>3 DEF Become, Settled, Placed, PlacesInv, TakenOnce, Busy, LifeTypeOK
    <2>2. /\ w \in IdleOnes' /\ w \notin IdleOnes
          /\ \A v \in Workers \ {w} : worker'[v] = worker[v]
      BY <1>1, <1>3 DEF Become, IdleOnes, LifeTypeOK
    <2>3. idle \in Nat
      BY FS_Subset, FS_CardinalityType DEF Placed, PlacesInv, IdleCounted, PoolAssumption, IdleOnes
    <2>4. IdleCounted'
      BY <1>3, <2>2, <2>3, IdleMoves DEF Placed, PlacesInv
    <2> QED
      BY <2>1, <2>4, SettledPlaces DEF PlacesInv
  <1> QED
    BY <1>2, <1>3 DEF StartWorker

LEMMA SpuriousFullPlaces == ASSUME Placed, SpuriousFull PROVE PlacesInv'
  <1>1. Settled /\ UNCHANGED <<idle, worker>>
    BY DEF SpuriousFull, queueing, Settled, Placed, PlacesInv, TakenOnce, Busy
  <1> QED
    BY <1>1, SettledPlaces, IdleStays DEF Placed, PlacesInv

(* The master closes what was never accepted. *)
LEMMA MasterStopsPlaces == ASSUME Placed, MasterStops PROVE PlacesInv'
  <1>1. /\ LifeTypeOK /\ master = "poll" /\ UNCHANGED <<held, squeue, idle, serving>>
        /\ held \notin Conns
    BY DEF MasterStops, queueing, Placed, LifeInv, PlacesInv, TakenOnce
  <1>2. /\ \A c \in Conns : /\ conn'[c] = "queued" <=> conn[c] = "queued"
                            /\ conn'[c] = "taken" <=> conn[c] = "taken"
        /\ \A w \in Workers : worker'[w] = worker[w]
                              \/ (worker[w] = "asleep" /\ worker'[w] = "woken")
    BY DEF MasterStops, WakeAllOnStop
  <1>3. QueuedOnce'
    BY <1>1, <1>2, QueueStays DEF Placed, PlacesInv, LifeTypeOK
  <1>4. TakenOnce'
    BY <1>1, <1>2, HoldersStay DEF Placed, PlacesInv, Busy
  <1>5. IdleCounted'
    BY <1>1, <1>2, IdleStays DEF Placed, PlacesInv
  <1> QED
    BY <1>3, <1>4, <1>5 DEF PlacesInv

LEMMA MasterJoinsPlaces == ASSUME Placed, MasterJoins PROVE PlacesInv'
  <1>1. Settled /\ UNCHANGED <<idle, worker>>
    BY DEF MasterJoins, queueing, Settled, Placed, PlacesInv, TakenOnce, Busy
  <1> QED
    BY <1>1, SettledPlaces, IdleStays DEF Placed, PlacesInv

LEMMA SpuriousWakeupPlaces ==
    ASSUME Placed, NEW w \in Workers, SpuriousWakeup(w) PROVE PlacesInv'
  <1>1. /\ LifeTypeOK /\ worker[w] = "asleep" /\ worker' = [worker EXCEPT ![w] = "woken"]
        /\ UNCHANGED <<master, held, squeue, idle, serving, conn>>
    BY DEF SpuriousWakeup, queueing, Become, Placed, LifeInv
  <1>2. Settled
    BY <1>1 DEF Settled, Placed, PlacesInv, TakenOnce, Busy, LifeTypeOK
  <1>3. IdleCounted'
    BY <1>1, IdleStays DEF Placed, PlacesInv, LifeTypeOK
  <1> QED
    BY <1>2, <1>3, SettledPlaces DEF PlacesInv

(* The first of the queue leaves it. *)
LEMMA HeadLeaves ==
    ASSUME QueuedOnce, squeue \in Seq(Conns), squeue # <<>>, squeue' = Tail(squeue),
           QueueSize \in Nat, NEW place, place # "queued",
           DOMAIN conn = Conns, conn' = [conn EXCEPT ![Head(squeue)] = place]
    PROVE  QueuedOnce'
  <1> DEFINE n == Len(squeue)
  <1>1. /\ n \in Nat \ {0} /\ Len(squeue') = n - 1 /\ Head(squeue) = squeue[1]
        /\ \A i \in 1..(n - 1) : squeue'[i] = squeue[i + 1]
        /\ \A i \in 1..n : squeue[i] \in Conns
    OBVIOUS
  <1>2. \A d \in Conns : conn'[d] = IF d = squeue[1] THEN place ELSE conn[d]
    BY <1>1
  <1>3. /\ \A i, j \in 1..n : squeue[i] = squeue[j] => i = j
        /\ \A i \in 1..n : conn[squeue[i]] = "queued"
        /\ \A c \in Conns : conn[c] = "queued" => \E i \in 1..n : squeue[i] = c
        /\ n <= QueueSize
    BY DEF QueuedOnce
  <1> HIDE DEF n
  <1>4. \A i, j \in 1..(n - 1) : squeue'[i] = squeue'[j] => i = j
    BY <1>1, <1>3
  <1>5. \A i \in 1..(n - 1) : conn'[squeue'[i]] = "queued"
    <2> SUFFICES ASSUME NEW i \in 1..(n - 1) PROVE conn'[squeue'[i]] = "queued"
      OBVIOUS
    <2>1. i + 1 \in 1..n /\ 1 \in 1..n /\ i + 1 # 1
      BY <1>1
    <2>2. squeue[i + 1] # squeue[1] /\ squeue[i + 1] \in Conns
      BY <1>1, <1>3, <2>1
    <2> QED
      BY <1>1, <1>2, <1>3, <2>1, <2>2
  <1>6. \A c \in Conns : conn'[c] = "queued" => \E i \in 1..(n - 1) : squeue'[i] = c
    <2> SUFFICES ASSUME NEW c \in Conns, conn'[c] = "queued"
                 PROVE  \E i \in 1..(n - 1) : squeue'[i] = c
      OBVIOUS
    <2>1. PICK i \in 1..n : squeue[i] = c
      BY <1>2, <1>3
    <2>2. i # 1
      BY <1>2, <2>1
    <2>3. i - 1 \in 1..(n - 1) /\ (i - 1) + 1 = i
      BY <1>1, <2>2
    <2> QED
      BY <1>1, <2>1, <2>3
  <1> QED
    BY <1>1, <1>3, <1>4, <1>5, <1>6 DEF QueuedOnce

LEMMA ConsumePlaces ==
    ASSUME Placed, NEW w \in Workers, Consume(w) PROVE PlacesInv'
  <1>1. /\ LifeTypeOK /\ worker[w] \in {"born", "back", "woken"} /\ UNCHANGED held
        /\ QueueSize \in Nat /\ idle \in Nat /\ NoConn \notin Conns
        /\ w \in IdleOnes <=> worker[w] # "back"
        /\ serving[w] \notin Conns
    BY FS_Subset, FS_CardinalityType
       DEF Consume, Placed, LifeInv, PoolAssumption, PlacesInv, IdleCounted, IdleOnes,
           TakenOnce, Busy
  <1>2. held \in Conns => master' \in {"produce", "full"}
    BY DEF Consume, Placed, PlacesInv, TakenOnce
  <1>3. CASE squeue = <<>> /\ flag = 0
    <2>1. /\ worker' = [worker EXCEPT ![w] = "asleep"]
          /\ idle' = idle + (IF worker[w] = "back" THEN 1 ELSE 0)
          /\ UNCHANGED <<squeue, serving, conn>>
      BY <1>3 DEF Consume, Become, CountsIdle
    <2>2. Settled
      BY <1>1, <1>2, <2>1 DEF Settled, Busy, LifeTypeOK
    <2>3. w \in IdleOnes' /\ \A v \in Workers \ {w} : worker'[v] = worker[v]
      BY <1>1, <2>1 DEF IdleOnes, LifeTypeOK
    <2>4. IdleCounted'
      BY <1>1, <2>1, <2>3, IdleMoves DEF Placed, PlacesInv
    <2> QED
      BY <2>2, <2>4, SettledPlaces DEF PlacesInv
  <1>4. ASSUME ~ (squeue = <<>> /\ flag = 0) PROVE IdleCounted'
    <2>1. /\ \/ worker' = [worker EXCEPT ![w] = "read"]
             \/ worker' = [worker EXCEPT ![w] = "exited"]
          /\ idle' = idle + (IF worker[w] = "back" THEN 1 ELSE 0) - 1
      <3>1. \/ worker' = [worker EXCEPT ![w] = "read"]
            \/ worker' = [worker EXCEPT ![w] = "exited"]
        BY <1>4 DEF Consume, Become
      <3>2. idle' = idle + (IF worker[w] = "back" THEN 1 ELSE 0) - 1
        BY <1>1, <1>4 DEF Consume, CountsIdle
      <3> QED
        BY <3>1, <3>2
    <2>2. w \notin IdleOnes' /\ \A v \in Workers \ {w} : worker'[v] = worker[v]
      BY <1>1, <2>1 DEF IdleOnes, LifeTypeOK
    <2> QED
      BY <1>1, <2>1, <2>2, IdleMoves DEF Placed, PlacesInv
  <1>5. squeue # <<>> => Head(squeue) \in Conns /\ conn[Head(squeue)] = "queued"
    <2>1. squeue # <<>> => /\ Head(squeue) = squeue[1] /\ 1 \in 1..Len(squeue)
                           /\ squeue[1] \in Conns
      BY <1>1 DEF LifeTypeOK
    <2> QED
      BY <2>1 DEF Placed, PlacesInv, QueuedOnce
  <1>6. CASE squeue # <<>> /\ flag = 0
    <2>1. /\ worker' = [worker EXCEPT ![w] = "read"]
          /\ serving' = [serving EXCEPT ![w] = Head(squeue)]
          /\ conn' = [conn EXCEPT ![Head(squeue)] = "taken"]
          /\ squeue' = Tail(squeue)
      BY <1>6 DEF Consume, Become
    <2>2. QueuedOnce'
      BY <1>1, <1>6, <2>1, HeadLeaves DEF Placed, PlacesInv, LifeTypeOK
    <2>3. ~ HeldBy(Head(squeue))
      BY <1>5, <1>6 DEF Placed, PlacesInv, TakenOnce
    <2>4. TakenOnce'
      <3> DEFINE h == Head(squeue)
      <3>1. /\ h \in Conns /\ serving' = [serving EXCEPT ![w] = h]
            /\ conn' = [conn EXCEPT ![h] = "taken"] /\ ~ HeldBy(h)
        BY <1>5, <1>6, <2>1, <2>3
      <3> HIDE DEF h
      <3>2. \A v \in Workers : serving'[v] = IF v = w THEN h ELSE serving[v]
        BY <1>1, <3>1 DEF LifeTypeOK
      <3>3. \A c \in Conns : conn'[c] = IF c = h THEN "taken" ELSE conn[c]
        BY <1>1, <3>1 DEF LifeTypeOK
      <3>4. \A v \in Workers : Busy(v)' <=> (v = w \/ Busy(v))
        BY <1>1, <2>1 DEF LifeTypeOK, Busy
      <3>5. \A c \in Conns : HeldBy(c)' <=> c = h \/ HeldBy(c)
        BY <1>1, <3>2 DEF HeldBy
      <3> QED
        BY <1>1, <1>2, <3>1, <3>2, <3>3, <3>4, <3>5
           DEF Placed, PlacesInv, TakenOnce, HeldBy
    <2> QED
      BY <1>4, <1>6, <2>2, <2>4 DEF PlacesInv
  <1>7. CASE flag # 0
    <2>1. /\ worker' = [worker EXCEPT ![w] = "exited"] /\ UNCHANGED serving
          /\ squeue = <<>> => UNCHANGED <<squeue, conn>>
          /\ squeue # <<>> => /\ squeue' = Tail(squeue)
                              /\ conn' = [conn EXCEPT ![Head(squeue)] = "closed"]
      BY <1>7 DEF Consume, Become
    <2>2. QueuedOnce'
      BY <1>1, <2>1, HeadLeaves, QueueStays DEF Placed, PlacesInv, LifeTypeOK
    <2>3. /\ \A c \in Conns : conn'[c] = "taken" <=> conn[c] = "taken"
          /\ \A v \in Workers : Busy(v) => Busy(v)'
      BY <1>1, <1>5, <2>1 DEF LifeTypeOK, Busy
    <2>4. TakenOnce'
      BY <1>1, <1>2, <2>1, <2>3, HoldersStay DEF Placed, PlacesInv
    <2> QED
      BY <1>4, <1>7, <2>2, <2>4 DEF PlacesInv
  <1> QED
    BY <1>3, <1>6, <1>7

(* What a worker served is in nobody's hands. *)
LEMMA ClosedPlaces ==
    ASSUME Placed, NEW w \in Workers, NEW outcome, outcome \notin {"queued", "taken"},
           Busy(w), CloseConn(w, outcome), UNCHANGED <<master, held, queueing>>
    PROVE  PlacesInv'
  <1>1. /\ LifeTypeOK /\ serving[w] \in Conns /\ NoConn \notin Conns
        /\ serving' = [serving EXCEPT ![w] = NoConn]
        /\ conn' = [conn EXCEPT ![serving[w]] = outcome]
        /\ worker' = [worker EXCEPT ![w] = "back"]
        /\ UNCHANGED <<master, held, squeue, idle>>
    BY DEF Placed, LifeInv, ServingInv, PoolAssumption, CloseConn, Become, queueing
  <1>2. /\ HeldBy(serving[w]) /\ conn[serving[w]] = "taken"
    BY <1>1 DEF Placed, PlacesInv, TakenOnce, HeldBy
  <1>3. QueuedOnce'
    BY <1>1, <1>2, QueueStays DEF Placed, PlacesInv, LifeTypeOK
  <1>4. IdleCounted'
    BY <1>1, IdleStays DEF Placed, PlacesInv, LifeTypeOK, Busy
  <1>5. TakenOnce'
    <2> DEFINE h == serving[w]
    <2>1. /\ \A v \in Workers : serving'[v] = IF v = w THEN NoConn ELSE serving[v]
          /\ \A c \in Conns : conn'[c] = IF c = h THEN outcome ELSE conn[c]
          /\ \A v \in Workers \ {w} : Busy(v) => Busy(v)'
      BY <1>1 DEF LifeTypeOK, Busy
    <2>2. \A c \in Conns : HeldBy(c)' <=> HeldBy(c) /\ c # h
      BY <1>1, <2>1 DEF HeldBy, Placed, PlacesInv, TakenOnce
    <2> QED
      BY <1>1, <2>1, <2>2 DEF Placed, PlacesInv, TakenOnce
  <1> QED
    BY <1>3, <1>4, <1>5 DEF PlacesInv

LEMMA BusyPlaces ==
    ASSUME Placed, NEW w \in Workers, Busy(w), NEW phase,
           phase \in {"handler", "late", "write"}, Become(w, phase),
           UNCHANGED <<master, held, queueing, serving, conn>>
    PROVE  PlacesInv'
  <1>1. /\ LifeTypeOK /\ worker' = [worker EXCEPT ![w] = phase]
        /\ UNCHANGED <<held, squeue, idle, serving, conn, master>>
    BY DEF Become, queueing, Placed, LifeInv
  <1>2. Settled
    BY <1>1 DEF Settled, Placed, PlacesInv, TakenOnce, Busy, LifeTypeOK
  <1>3. IdleCounted'
    BY <1>1, IdleStays DEF Placed, PlacesInv, LifeTypeOK, Busy
  <1> QED
    BY <1>2, <1>3, SettledPlaces DEF PlacesInv

LEMMA WorkerPlaces ==
    ASSUME Placed, NEW w \in Workers, WorkerStep(w) PROVE PlacesInv'
  <1>1. CASE ReadRequest(w)
    <2>1. Busy(w) /\ UNCHANGED <<master, held, queueing>>
      BY <1>1 DEF ReadRequest, Busy
    <2> QED
      BY <1>1, <2>1, ClosedPlaces, BusyPlaces DEF ReadRequest
  <1>2. CASE WriteResponse(w)
    <2>1. Busy(w) /\ UNCHANGED <<master, held, queueing>>
      BY <1>2 DEF WriteResponse, Busy
    <2> QED
      BY <1>2, <2>1, ClosedPlaces DEF WriteResponse
  <1>3. ASSUME NEW how, HandlerEnds(w, how) PROVE PlacesInv'
    <2>1. Busy(w) /\ UNCHANGED <<master, held, queueing, serving, conn>>
      BY <1>3 DEF HandlerEnds, Busy
    <2> QED
      BY <1>3, <2>1, BusyPlaces DEF HandlerEnds
  <1> QED
    BY <1>1, <1>2, <1>3, ConsumePlaces DEF WorkerStep

LEMMA PoolPlaces ==
    ASSUME Placed, PoolNext \/ \E c \in Conns : Connects(c) PROVE PlacesInv'
  <1>1. ASSUME MasterStep PROVE PlacesInv'
    BY <1>1, AcceptPlaces, ProducePlaces, StartWorkerPlaces, MasterStopsPlaces,
       MasterJoinsPlaces DEF MasterStep
  <1> QED
    BY <1>1, WorkerPlaces, ConnectsPlaces, SpuriousWakeupPlaces, SpuriousFullPlaces
       DEF PoolNext

(* The fresh image knows none of the connections of the one before. *)
LEMMA StoppedPlaces == ASSUME Placed, Stopped PROVE PlacesInv'
  <1>1. CASE ~ reload
    <2>1. Settled /\ UNCHANGED <<idle, worker>>
      BY <1>1 DEF Stopped, pool, threads, queueing, Settled, Placed, PlacesInv, TakenOnce, Busy
    <2> QED
      BY <2>1, SettledPlaces, IdleStays DEF Placed, PlacesInv
  <1>2. CASE reload
    <2>1. /\ squeue' = <<>> /\ idle' = 0 /\ UNCHANGED <<held, serving>>
          /\ worker' = [w \in Workers |-> "none"]
          /\ conn' = [c \in Conns |-> IF conn[c] = "queued" THEN "closed" ELSE conn[c]]
          /\ flag = 2
      BY <1>2 DEF Stopped
    <2>2. /\ held \notin Conns /\ \A w \in Workers : serving[w] \notin Conns
          /\ QueueSize \in Nat
      BY <2>1 DEF Placed, PoolAssumption, LifeInv, FlagInv, PlacesInv, TakenOnce, Busy
    <2>3. QueuedOnce'
      BY <2>1, <2>2 DEF QueuedOnce
    <2>4. TakenOnce'
      BY <2>1, <2>2 DEF Placed, PlacesInv, TakenOnce, HeldBy
    <2>5. IdleOnes' = {}
      BY <2>1 DEF IdleOnes
    <2>6. IdleCounted'
      BY <2>1, <2>5, FS_EmptySet DEF IdleCounted
    <2> QED
      BY <2>3, <2>4, <2>6 DEF PlacesInv
  <1> QED
    BY <1>1, <1>2

LEMMA LifeInit_Places ==
    ASSUME PoolAssumption, LifeInit PROVE PlacesInv
  <1>1. /\ squeue = <<>> /\ idle = 0 /\ held = NoConn /\ NoConn \notin Conns
        /\ serving = [w \in Workers |-> NoConn] /\ conn = [c \in Conns |-> "none"]
        /\ worker = [w \in Workers |-> "none"] /\ QueueSize \in Nat
    BY DEF LifeInit, PoolInit, PoolAssumption
  <1>2. QueuedOnce /\ TakenOnce
    BY <1>1 DEF QueuedOnce, TakenOnce, HeldBy
  <1>3. IdleOnes = {}
    BY <1>1 DEF IdleOnes
  <1>4. IdleCounted
    BY <1>1, <1>3, FS_EmptySet DEF IdleCounted
  <1> QED
    BY <1>2, <1>4 DEF PlacesInv

LEMMA LifeNext_Places ==
    ASSUME PoolAssumption, LifecycleAssumption, LifeInv, PlacesInv,
           [LifeNext]_lifeVars
    PROVE  PlacesInv'
  <1>1. Placed
    BY DEF Placed
  <1>2. ASSUME Settled, UNCHANGED <<idle, worker>> PROVE PlacesInv'
    BY <1>1, <1>2, SettledPlaces, IdleStays DEF PlacesInv
  <1>3. CASE UNCHANGED pool
    BY <1>2, <1>3 DEF pool, threads, queueing, Settled, PlacesInv, TakenOnce, Busy
  <1>4. CASE Start
    BY <1>2, <1>4
       DEF Start, StartPool, Settled, LifeInv, FlagInv, PlacesInv, TakenOnce, Busy
  <1>5. CASE StopServer
    BY <1>2, <1>5
       DEF StopServer, threads, queueing, Settled, PlacesInv, TakenOnce, Busy
  <1>6. CASE ServerStep(PoolNext \/ \E c \in Clients[mode] \ old : Connects(c))
    <2>1. mode \in Modes /\ Clients \in [Modes -> SUBSET Conns]
      BY DEF LifeInv, LifeTypeOK, LifecycleAssumption
    <2>2. PoolNext \/ \E c \in Conns : Connects(c)
      BY <1>6, <2>1 DEF ServerStep
    <2> QED
      BY <1>1, <2>2, PoolPlaces
  <1>7. CASE Main
    <2>1. CASE Load \/ Watch \/ SeeStop \/ SeeChange \/ Settle \/ DrainTick
      BY <1>3, <2>1 DEF Load, Watch, SeeStop, SeeChange, Settle, DrainTick
    <2> QED
      BY <1>1, <1>4, <1>5, <1>7, <2>1, StoppedPlaces DEF Main
  <1>8. CASE Edit \/ Tick \/ Terminate \/ UNCHANGED lifeVars
    BY <1>3, <1>8 DEF Edit, Tick, Terminate, lifeVars
  <1> QED
    BY <1>6, <1>7, <1>8 DEF LifeNext

(* Every connection is in one place (produce_socket and consume_socket,      *)
(* civetweb.c): a queued one is in the queue once, one that was taken is with *)
(* the master or with one worker and no other, none is lost on the way, and  *)
(* the queue is never longer than its array; the count of idle threads that  *)
(* decides whether another one is started is exact.  For any number of       *)
(* connections, threads and places, through stops and reloads.               *)
THEOREM SocketsApart ==
    ASSUME PoolAssumption, LifecycleAssumption PROVE LifeSpec => []PlacesInv
  <1>1. LifeInit => PlacesInv
    BY LifeInit_Places
  <1>2. LifeInv /\ PlacesInv /\ [LifeNext]_lifeVars => PlacesInv'
    BY LifeNext_Places
  <1> QED
    BY <1>1, <1>2, LifeInvariant, PTL DEF LifeSpec

-----------------------------------------------------------------------------
(* The prefork pool.                                                        *)

PoolParent == {"fork", "abort", "watch", "stopping", "reap", "kill", "gone"}
PoolProcs == {"none", "born", "asked", "starting", "serving", "draining", "zombie", "gone"}

PreforkTypeOK ==
    /\ parent \in PoolParent /\ forked \in 0..Cardinality(Pool)
    /\ proc \in [Pool -> PoolProcs] /\ term \in [Pool -> BOOLEAN]
    /\ pids \in SUBSET Pool /\ killed \in BOOLEAN

(* The table names every worker that still runs while there is a parent. *)
Named == parent # "gone" => \A w \in Pool : Alive(w) => w \in pids

(* A worker that outlives the parent and has passed its test of getppid has  *)
(* a SIGTERM on its way: neither the death before prctl nor the one after it *)
(* is missed.                                                               *)
OrphansAreTold ==
    parent = "gone" =>
        \A w \in Pool : proc[w] \in {"starting", "serving", "draining"} => term[w]

(* A parent that ends by itself leaves no worker, stuck or not. *)
NoneLeft ==
    /\ killed => parent = "gone"
    /\ parent = "gone" /\ ~ killed => \A w \in Pool : ~ Alive(w)

PreforkInv == PreforkTypeOK /\ Named /\ OrphansAreTold /\ NoneLeft

LEMMA PreforkInit_Inv ==
    ASSUME WorkerPoolAssumption, PreforkInit PROVE PreforkInv
  <1>1. Cardinality(Pool) \in Nat
    BY FS_CardinalityType DEF WorkerPoolAssumption
  <1>2. PreforkTypeOK
    <2>1. forked \in 0..Cardinality(Pool)
      BY <1>1 DEF PreforkInit
    <2>2. term \in [Pool -> BOOLEAN] /\ killed \in BOOLEAN
      BY Zenon DEF PreforkInit
    <2>3. proc \in [Pool -> PoolProcs] /\ parent \in PoolParent /\ pids \in SUBSET Pool
      BY DEF PreforkInit, PoolParent, PoolProcs
    <2> QED
      BY <2>1, <2>2, <2>3 DEF PreforkTypeOK
  <1>3. Named /\ OrphansAreTold /\ NoneLeft
    BY DEF PreforkInit, Named, OrphansAreTold, NoneLeft, Alive, Dead
  <1> QED
    BY <1>2, <1>3 DEF PreforkInv

LEMMA ParentStep_Inv ==
    ASSUME WorkerPoolAssumption, PreforkInv, ParentStep PROVE PreforkInv'
  <1> USE DEF PreforkInv, PreforkTypeOK, PoolParent, PoolProcs, Named,
              OrphansAreTold, NoneLeft, Alive, Dead
  <1>1. CASE ForkWorker
    <2>1. Cardinality(Pool) \in Nat
      BY FS_CardinalityType DEF WorkerPoolAssumption
    <2>2. forked + 1 \in Pool /\ forked + 1 \in 0..Cardinality(Pool)
      BY <1>1, <2>1 DEF ForkWorker, WorkerPoolAssumption
    <2> QED
      BY <1>1, <2>2 DEF ForkWorker
  <1>2. CASE WorkerForkFails
    BY <1>2 DEF WorkerForkFails, Signal
  <1>3. CASE WatchWorkers \/ ParentSeesStop \/ WindowOver
    BY <1>3 DEF WatchWorkers, ParentSeesStop, WindowOver
  <1>4. CASE Stopping
    BY <1>4 DEF Stopping, Signal
  <1>5. CASE ReapRound
    BY <1>5 DEF ReapRound
  <1>6. CASE Kill
    BY <1>6 DEF Kill, KillStragglers
  <1>7. CASE AbortEnds
    BY <1>7 DEF AbortEnds
  <1>8. ASSUME NEW w \in Pool, AbortWait(w) PROVE PreforkInv'
    BY <1>8 DEF AbortWait
  <1>9. ASSUME NEW w \in Pool, SeeExit(w) PROVE PreforkInv'
    BY <1>9 DEF SeeExit
  <1> QED
    BY <1>1, <1>2, <1>3, <1>4, <1>5, <1>6, <1>7, <1>8, <1>9 DEF ParentStep

(* A process that ends, or goes on, on its own. *)
LEMMA WorkerMoves ==
    ASSUME PreforkInv, NEW w \in Pool, NEW from, NEW to \in PoolProcs \ {"none"},
           Move(w, from, to), from \notin {"none", "gone"},
           from = "zombie" => to = "gone",
           parent = "gone" /\ to \in {"starting", "serving", "draining"} =>
               from \in {"starting", "serving", "draining"}
    PROVE  PreforkInv'
  BY DEF Move, PreforkInv, PreforkTypeOK, PoolProcs, Named, OrphansAreTold,
         NoneLeft, Alive, Dead

LEMMA WorkerProc_Inv ==
    ASSUME PreforkInv, NEW w \in Pool, WorkerProcStep(w) PROVE PreforkInv'
  <1> USE WorkerMoves DEF PoolProcs
  <1>1. CASE AskForSignal(w)
    BY <1>1 DEF AskForSignal
  <1>2. CASE CheckParent(w)
    BY <1>2 DEF CheckParent
  <1>3. CASE Serve(w)
    BY <1>3 DEF Serve
  <1>4. CASE Terminated(w)
    BY <1>4 DEF Terminated
  <1>5. CASE Exit(w)
    BY <1>5 DEF Exit
  <1>6. CASE Orphaned(w)
    BY <1>6 DEF Orphaned
  <1> QED
    BY <1>1, <1>2, <1>3, <1>4, <1>5, <1>6 DEF WorkerProcStep

LEMMA PreforkNext_Inv ==
    ASSUME WorkerPoolAssumption, PreforkInv, [PreforkNext]_preforkVars
    PROVE  PreforkInv'
  <1> USE DEF PreforkInv, PreforkTypeOK, PoolParent, PoolProcs, Named,
              OrphansAreTold, NoneLeft, Alive, Dead
  <1>1. CASE UNCHANGED preforkVars
    BY <1>1 DEF preforkVars
  <1>2. ASSUME parent # "gone", ParentDies PROVE PreforkInv'
    BY <1>2 DEF ParentDies
  <1>3. CASE ParentTerminated
    BY <1>2, <1>3 DEF ParentTerminated
  <1>4. ASSUME NEW w \in Pool, GetsStuck(w) PROVE PreforkInv'
    BY <1>4 DEF GetsStuck
  <1>5. ASSUME NEW w \in Pool, Crash(w) PROVE PreforkInv'
    BY <1>5, WorkerMoves DEF Crash
  <1> QED
    BY <1>1, <1>2, <1>3, <1>4, <1>5, ParentStep_Inv, WorkerProc_Inv
       DEF PreforkNext, ParentKilled

(* "Die with the parent (SIGKILL'd or crashed)"                              *)
(* (typeeasy_api_server.c:1624-1626), for every number of workers: whenever   *)
(* the parent is gone, each worker that passed the test of getppid has been  *)
(* told, and one that has not will find the parent gone.  A parent that ends *)
(* by itself has ended every worker, stuck or not (:1659-1660).              *)
THEOREM OrphansTold ==
    ASSUME WorkerPoolAssumption
    PROVE  PreforkSpec => [](OrphansAreTold /\ NoneLeft)
  <1>1. PreforkInit => PreforkInv
    BY PreforkInit_Inv
  <1>2. PreforkInv /\ [PreforkNext]_preforkVars => PreforkInv'
    BY PreforkNext_Inv
  <1>3. PreforkInv => OrphansAreTold /\ NoneLeft
    BY DEF PreforkInv
  <1> QED
    BY <1>1, <1>2, <1>3, PTL DEF PreforkSpec
=============================================================================
