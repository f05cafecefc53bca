----------------------------- MODULE CivetPool ------------------------------
(***************************************************************************)
(* The thread pool of civetweb as the API servers use it: the master        *)
(* thread accepts connections into a queue of sockets, worker threads are   *)
(* started when no idle one is left, take a socket each and serve one       *)
(* request on it (src/api_server/civetweb.c, the default socket queue;      *)
(* enable_keep_alive is "no", prespawn_threads 0).                          *)
(*                                                                         *)
(* sq_full and sq_empty are condition variables under thread_mutex: every   *)
(* critical section is one action, a thread asleep on one is in the state   *)
(* asleep (full, for the master), and a signal moves it to woken.           *)
(***************************************************************************)
EXTENDS Naturals, FiniteSets, Sequences

CONSTANTS Conns,          \* connections of clients
          NoConn,
          Workers,        \* num_threads
          QueueSize       \* connection_queue

ASSUME PoolAssumption ==
    /\ IsFiniteSet(Conns) /\ NoConn \notin Conns /\ IsFiniteSet(Workers)
    /\ QueueSize \in Nat \ {0}

VARIABLES
    flag,          \* stop_flag: 0 running, 1 stopping, 2 stopped
    listening,
    master,        \* what the master thread is at
    held,          \* the socket it has accepted
    squeue,
    idle,          \* idle_worker_thread_count
    worker,        \* what each worker thread is at
    serving,       \* the connection it serves
    conn,          \* what became of each connection
    inflight       \* S()->inflight

threads == <<master, worker>>
queueing == <<squeue, idle>>
pool == <<flag, listening, master, held, squeue, idle, worker, serving, conn,
          inflight>>

PoolInit ==
    /\ flag = 2 /\ listening = FALSE
    /\ master = "none" /\ held = NoConn
    /\ squeue = <<>> /\ idle = 0
    /\ worker = [w \in Workers |-> "none"]
    /\ serving = [w \in Workers |-> NoConn]
    /\ conn = [c \in Conns |-> "none"]
    /\ inflight = 0

Become(w, phase) == worker' = [worker EXCEPT ![w] = phase]
Asleep == {w \in Workers : worker[w] = "asleep"}

(* Faulty variant: the producer leaves the workers to themselves. *)
SignalNobody == UNCHANGED worker

(* pthread_cond_signal(&sq_full). *)
SignalFull == IF Asleep = {} THEN UNCHANGED worker
              ELSE \E w \in Asleep : Become(w, "woken")

(* mg_start2: the context runs and no worker exists yet. *)
StartPool ==
    /\ flag' = 0 /\ listening' = TRUE /\ master' = "poll"
    /\ UNCHANGED <<held, squeue, idle, worker, serving, conn, inflight>>

-----------------------------------------------------------------------------
(* Clients, who come back at will, and the master thread.                   *)

Connects(c) ==
    /\ listening /\ conn[c] \in {"none", "answered", "closed", "cut", "lost"}
    /\ conn' = [conn EXCEPT ![c] = "backlog"]
    /\ UNCHANGED <<flag, listening, threads, held, queueing, serving, inflight>>

(* accept_new_connection. *)
Accept(c) ==
    /\ master = "poll" /\ flag = 0 /\ conn[c] = "backlog"
    /\ master' = "produce" /\ held' = c
    /\ conn' = [conn EXCEPT ![c] = "taken"]
    /\ UNCHANGED <<flag, listening, worker, queueing, serving, inflight>>

(* produce_socket as far as the unlock, or to the wait on sq_empty.  With   *)
(* the queue full when the server stops the socket is dropped.              *)
Produce ==
    /\ master = "produce"
    /\ IF flag = 0 /\ Len(squeue) >= QueueSize
       THEN master' = "full" /\ UNCHANGED <<held, squeue, worker, conn>>
       ELSE /\ IF Len(squeue) < QueueSize
               THEN /\ squeue' = Append(squeue, held)
                    /\ conn' = [conn EXCEPT ![held] = "queued"]
               ELSE /\ conn' = [conn EXCEPT ![held] = "closed"]
                    /\ UNCHANGED squeue
            /\ master' = "spawn" /\ held' = NoConn
            /\ SignalFull
    /\ UNCHANGED <<flag, listening, idle, serving, inflight>>

SpuriousFull ==
    /\ master = "full" /\ master' = "produce"
    /\ UNCHANGED <<flag, listening, held, queueing, worker, serving, conn, inflight>>

(* mg_start_worker_thread(ctx, 1): the new thread is counted idle before it *)
(* runs.  Nobody else reads the count, so the roll-back of a thread that    *)
(* cannot be created is not seen.                                           *)
StartWorker ==
    /\ master = "spawn" /\ master' = "poll"
    /\ \/ UNCHANGED <<idle, worker>>
          /\ \/ \A w \in Workers : worker[w] # "none"
             \/ idle > Len(squeue)
       \/ \E w \in Workers :
             /\ worker[w] = "none" /\ idle <= Len(squeue)
             /\ Become(w, "born") /\ idle' = idle + 1
    /\ UNCHANGED <<flag, listening, held, squeue, serving, conn, inflight>>

(* Only a thread that was not counted when it was started counts itself.    *)
CountsIdle(w) == worker[w] = "back"

(* Faulty variant: signal instead of broadcast. *)
WakeOneOnStop == IF Asleep = {} THEN worker
                 ELSE [worker EXCEPT ![CHOOSE w \in Asleep : TRUE] = "woken"]

(* The end of the accept loop: the listening sockets are closed, sleeping   *)
(* workers are woken.                                                       *)
WakeAllOnStop == [w \in Workers |-> IF worker[w] = "asleep" THEN "woken" ELSE worker[w]]

MasterStops ==
    /\ master = "poll" /\ flag = 1
    /\ master' = "join" /\ listening' = FALSE
    /\ conn' = [c \in Conns |-> IF conn[c] = "backlog" THEN "closed" ELSE conn[c]]
    /\ worker' = WakeAllOnStop
    /\ UNCHANGED <<flag, held, queueing, serving, inflight>>

Joined == \A w \in Workers : worker[w] \in {"none", "exited"}

MasterJoins ==
    /\ master = "join" /\ Joined
    /\ master' = "done" /\ flag' = 2
    /\ UNCHANGED <<listening, held, queueing, worker, serving, conn, inflight>>

-----------------------------------------------------------------------------
(* Worker threads.                                                          *)

(* One critical section of consume_socket: it goes to sleep, or it returns  *)
(* with a socket, or with none when the server stops.  A socket taken while *)
(* the server stops is taken and not served.                                *)
Consume(w) ==
    /\ worker[w] \in {"born", "back", "woken"}
    /\ LET counted == idle + (IF CountsIdle(w) THEN 1 ELSE 0) IN
       IF squeue = <<>> /\ flag = 0
       THEN Become(w, "asleep") /\ idle' = counted
            /\ UNCHANGED <<master, squeue, serving, conn>>
       ELSE /\ idle' = counted - 1
            /\ master' = IF master = "full" THEN "produce" ELSE master
            /\ IF flag = 0
               THEN /\ Become(w, "read")
                    /\ serving' = [serving EXCEPT ![w] = Head(squeue)]
                    /\ conn' = [conn EXCEPT ![Head(squeue)] = "taken"]
                    /\ squeue' = Tail(squeue)
               ELSE /\ Become(w, "exited")
                    /\ squeue' = IF squeue = <<>> THEN squeue ELSE Tail(squeue)
                    /\ conn' = IF squeue = <<>> THEN conn
                               ELSE [conn EXCEPT ![Head(squeue)] = "closed"]
                    /\ UNCHANGED serving
    /\ UNCHANGED <<flag, listening, held, inflight>>

SpuriousWakeup(w) ==
    /\ worker[w] = "asleep" /\ Become(w, "woken")
    /\ UNCHANGED <<flag, listening, master, held, queueing, serving, conn, inflight>>

CloseConn(w, outcome) ==
    /\ conn' = [conn EXCEPT ![serving[w]] = outcome]
    /\ serving' = [serving EXCEPT ![w] = NoConn]
    /\ Become(w, "back")

(* get_request: a request arrives whole, or the connection is closed, by    *)
(* the client, by request_timeout_ms, or because the server stops.          *)
ReadRequest(w) ==
    /\ worker[w] = "read"
    /\ \/ /\ flag = 0 /\ Become(w, "handler") /\ inflight' = inflight + 1
          /\ UNCHANGED <<serving, conn>>
       \/ CloseConn(w, "closed") /\ UNCHANGED inflight
    /\ UNCHANGED <<flag, listening, master, held, queueing>>

(* How request_handler ends: with a result, it is counted out after the     *)
(* response is written; with an error, before.                              *)
CountedOut(how) == how = "error"

HandlerEnds(w, how) ==
    /\ worker[w] = "handler"
    /\ Become(w, IF CountedOut(how) THEN "late" ELSE "write")
    /\ inflight' = IF CountedOut(how) THEN inflight - 1 ELSE inflight
    /\ UNCHANGED <<flag, listening, master, held, queueing, serving, conn>>

(* mg_write: push_all writes only while the server runs; the client may     *)
(* also have gone.                                                          *)
WriteResponse(w) ==
    /\ worker[w] \in {"late", "write"}
    /\ \/ CloseConn(w, IF flag = 0 THEN "answered"
                       ELSE IF worker[w] = "late" THEN "lost" ELSE "cut")
       \/ CloseConn(w, "closed")
    /\ inflight' = IF worker[w] = "write" THEN inflight - 1 ELSE inflight
    /\ UNCHANGED <<flag, listening, master, held, queueing>>

-----------------------------------------------------------------------------
MasterStep == \/ \E c \in Conns : Accept(c)
              \/ Produce \/ StartWorker \/ MasterStops \/ MasterJoins

WorkerStep(w) == \/ Consume(w) \/ ReadRequest(w) \/ WriteResponse(w)
                 \/ \E how \in {"result", "error"} : HandlerEnds(w, how)

PoolNext == \/ MasterStep
            \/ \E w \in Workers : WorkerStep(w) \/ SpuriousWakeup(w)
            \/ SpuriousFull

=============================================================================
