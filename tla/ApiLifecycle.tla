---------------------------- MODULE ApiLifecycle ----------------------------
(***************************************************************************)
(* One process of typeeasy --api from its start to its end or to its        *)
(* replacement: run_single_server (src/src/typeeasy_api_server.c:1173-1342) *)
(* and the hot reload of --dev (src/src/typeeasy_main.c:512-556), around    *)
(* the threads of CivetPool.                                                *)
(*                                                                         *)
(* The script on disk is a number, odd while an editor is writing it.       *)
(* st_mtime counts seconds: two writes may have the same one.               *)
(***************************************************************************)
EXTENDS CivetPool

CONSTANTS Modes,          \* "dev" and/or "plain"
          Clients,        \* bound: the connections that come in each mode
          DrainSeconds,   \* TYPEEASY_DRAIN_SECONDS
          MaxFile,        \* bound: last state of the script
          MaxClock        \* bound: seconds that pass

ASSUME LifecycleAssumption ==
    /\ Modes \subseteq {"dev", "plain"}
    /\ Clients \in [Modes -> SUBSET Conns]
    /\ DrainSeconds \in Nat /\ MaxFile \in Nat /\ MaxClock \in Nat

VARIABLES
    mode,
    main,          \* what the main thread is at
    stop, reload,  \* g_stop_requested, g_reload_requested
    ready,
    drain,         \* seconds left to the drain loop
    old,           \* connections whose handler ran when the drain began
    file, mtime,   \* the script on disk
    clock,         \* the current second
    watched,       \* S()->hotreload_mtime
    sample         \* the local m of the watcher, 0 outside its test

signals == <<stop, reload>>
disk == <<file, mtime, clock>>
watching == <<watched, sample>>
lifeVars == <<pool, mode, main, signals, ready, drain, old, disk, watching>>

Dev == mode = "dev"

LifeInit ==
    /\ PoolInit
    /\ mode \in Modes /\ main = "load"
    /\ stop = FALSE /\ reload = FALSE /\ ready = FALSE
    /\ drain = 0 /\ old = {}
    /\ file = 0 /\ mtime = 0 /\ clock = 0
    /\ watched = 0 /\ sample = 0

-----------------------------------------------------------------------------
(* The editor and the clock.                                                *)

Edit ==
    /\ Dev /\ file < MaxFile
    /\ file' = file + 1 /\ mtime' = clock
    /\ UNCHANGED <<pool, mode, main, signals, ready, drain, old, clock, watching>>

(* A second in which nothing was written, or after the last edit, is as     *)
(* good as the next one.                                                    *)
Tick ==
    /\ Dev /\ clock < MaxClock /\ mtime = clock /\ file < MaxFile
    /\ clock' = clock + 1
    /\ UNCHANGED <<pool, mode, main, signals, ready, drain, old, file, mtime,
                   watching>>

(* SIGTERM: on_signal is installed once the server is up; before that the   *)
(* default disposition ends the process.                                    *)
Terminate ==
    /\ main # "gone" /\ ~ stop
    /\ IF main \in {"load", "watch", "start"}
       THEN main' = "gone" /\ UNCHANGED stop
       ELSE stop' = TRUE /\ UNCHANGED main
    /\ UNCHANGED <<pool, mode, reload, ready, drain, old, disk, watching>>

-----------------------------------------------------------------------------
(* The main thread.                                                         *)

(* The script is parsed; one that is cut short may or may not parse. *)
Load ==
    /\ main = "load"
    /\ main' \in IF file % 2 = 0 THEN {IF Dev THEN "watch" ELSE "start"}
                ELSE {"watch", "gone"}
    /\ UNCHANGED <<pool, mode, signals, ready, drain, old, disk, watching>>

(* typeeasy_enable_hot_reload. *)
Watch ==
    /\ main = "watch"
    /\ watched' = mtime /\ main' = "start"
    /\ UNCHANGED <<pool, mode, signals, ready, drain, old, disk, sample>>

Start ==
    /\ main = "start"
    /\ StartPool
    /\ ready' = TRUE /\ main' = "serve"
    /\ UNCHANGED <<mode, signals, drain, old, disk, watching>>

InsideNow == {serving[w] : w \in {v \in Workers : worker[v] \in {"handler", "write"}}}

BeginDrain ==
    /\ main' = "drain" /\ ready' = FALSE
    /\ drain' = DrainSeconds
    /\ old' = InsideNow

(* The loop head after SIGTERM. *)
SeeStop ==
    /\ main = "serve" /\ stop
    /\ BeginDrain
    /\ UNCHANGED <<pool, mode, signals, disk, watching>>

(* The script has another mtime than the one this process started with. *)
SeeChange ==
    /\ main = "serve" /\ Dev /\ mtime # watched
    /\ sample' = mtime /\ main' = "settle"
    /\ UNCHANGED <<pool, mode, signals, ready, drain, old, disk, watched>>

(* Faulty variant: the baseline moves with every reading, so a change that  *)
(* has not settled is forgotten.                                            *)
BaselineMoves(settled) == mtime

Baseline(settled) == IF settled THEN sample ELSE watched

(* 150 ms later: two equal readings are taken for the end of the write. *)
Settle ==
    /\ main = "settle"
    /\ watched' = Baseline(mtime = sample) /\ sample' = 0
    /\ IF mtime = sample
       THEN reload' = TRUE /\ BeginDrain
       ELSE main' = "serve" /\ UNCHANGED <<reload, ready, drain, old>>
    /\ UNCHANGED <<pool, mode, stop, disk>>

DrainTick ==
    /\ main = "drain" /\ drain > 0 /\ inflight > 0
    /\ drain' = drain - 1
    /\ UNCHANGED <<pool, mode, main, signals, ready, old, disk, watching>>

(* Faulty variant: one request too few is waited for. *)
DrainOverEarly == drain = 0 \/ inflight <= 1

DrainOver == drain = 0 \/ inflight = 0

(* mg_stop raises the flag ... *)
StopServer ==
    /\ main = "drain" /\ DrainOver
    /\ main' = "stop" /\ flag' = 1
    /\ UNCHANGED <<listening, threads, held, queueing, serving, conn, inflight,
                   mode, signals, ready, drain, old, disk, watching>>

(* ... and waits for the master.  Then the process ends, or is replaced by  *)
(* a fresh image of itself.                                                 *)
Stopped ==
    /\ main = "stop" /\ flag = 2
    /\ IF ~ reload THEN main' = "gone" /\ UNCHANGED <<pool, signals, old, drain>>
       ELSE /\ main' = "load" /\ stop' = FALSE /\ reload' = FALSE
            /\ old' = {} /\ drain' = 0
            /\ squeue' = <<>> /\ idle' = 0 /\ master' = "none"
            /\ worker' = [w \in Workers |-> "none"]
            /\ conn' = [c \in Conns |-> IF conn[c] = "queued" THEN "closed" ELSE conn[c]]
            /\ UNCHANGED <<flag, listening, held, serving, inflight>>
    /\ UNCHANGED <<mode, ready, disk, watching>>

Main == \/ Load \/ Watch \/ Start \/ SeeStop \/ SeeChange
        \/ Settle \/ DrainTick \/ StopServer \/ Stopped

Served == main \notin {"load", "watch", "start", "gone"}

(* A thread of the pool goes on while the process lives.                    *)
ServerStep(A) == Served /\ A /\ UNCHANGED <<mode, main, signals, ready, drain, old, disk,
                                            watching>>

LifeNext == \/ Main \/ Edit \/ Tick \/ Terminate
            \/ ServerStep(PoolNext \/ \E c \in Clients[mode] \ old : Connects(c))

LifeSpec == LifeInit /\ [][LifeNext]_lifeVars

-----------------------------------------------------------------------------
(* A handler that was running when the drain began is answered whole unless *)
(* the window was too short: its response is not cut by the stop.  Handlers *)
(* that end in an error may lose theirs, they are counted out too early.    *)
DrainedAreAnswered ==
    main = "stop" /\ drain > 0 =>
        /\ \A c \in old : conn[c] # "cut"
        /\ \A w \in Workers : worker[w] = "write" => serving[w] \notin old

(* A queued connection is taken, or the server is going down. *)
QueuedAreTaken ==
    \A c \in Conns : conn[c] = "queued" ~> (conn[c] # "queued" \/ flag # 0)

(* SIGTERM ends the process.  In dev mode the watcher may see a change      *)
(* before the loop sees the signal, and the fresh image knows nothing of    *)
(* it; once the drain is for the stop, it ends there too.                   *)
StopHonoured ==
    (stop /\ ~ reload /\ (~ Dev \/ main \in {"drain", "stop"})) ~> main = "gone"

(* A script with a new mtime is noticed, settles, and is loaded. *)
ChangeDetected ==
    (main = "serve" /\ Dev /\ mtime # watched) ~> (main \in {"load", "gone"} \/ stop)
=============================================================================
