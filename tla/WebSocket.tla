----------------------------- MODULE WebSocket ------------------------------
(***************************************************************************)
(* WebSocket connections beside HTTP requests:                             *)
(* src/api_server/te_websocket.c, the guarded invocation of their handlers *)
(* (src/src/typeeasy_api.c:664-754) and the loop of civetweb that keeps a  *)
(* worker thread per connection (src/api_server/civetweb.c:13472-13858).   *)
(*                                                                         *)
(* Two locks are involved: the invoke lock, which the embedded server      *)
(* registers, and g_lock, the recursive mutex of the registry.  The        *)
(* separate API server registers no invoke lock and serialises its HTTP    *)
(* handlers with g_lock (src/api_server/servidor_api.c:602-610).           *)
(*                                                                         *)
(* A connection of civetweb belongs to the worker thread that serves it    *)
(* and its mg_connection is reused by the thread's next connection, so a   *)
(* thread names its connection.                                            *)
(***************************************************************************)
EXTENDS Naturals, FiniteSets, Sequences

CONSTANTS Threads,        \* worker threads of civetweb
          NoThread,
          Channels,
          Routes,         \* sets of lifecycle clauses; {} is a legacy route
          Servers,        \* "embedded" and/or "separate"
          MaxOps,         \* bound: operations of one handler body
          MaxPing         \* MG_MAX_UNANSWERED_PING

ASSUME WebSocketAssumption ==
    /\ IsFiniteSet(Threads) /\ NoThread \notin Threads
    /\ Routes \subseteq SUBSET {"open", "message", "close"}
    /\ Servers \subseteq {"embedded", "separate"}
    /\ MaxOps \in Nat /\ MaxPing \in Nat

VARIABLES
    queue, owner,  \* the invoke lock, see FifoLock
    server,        \* which of the two servers this is
    clauses,       \* on_open, on_message, on_close of the one [WebSocket]
    gl,            \* who holds g_lock
    at,            \* where each thread is
    event,         \* the request or callback it is in
    ops,           \* operations left to its handler body
    chan,          \* the channel it is broadcasting to
    targets,       \* the connections its broadcast has yet to write to
    client,        \* the peer: none, live, or gone without a word
    pings,         \* unanswered PINGs of the connection
    conns,         \* g_conns
    subs,          \* TeWsConn.channels
    body,          \* MethodNode.body of the route
    saved,         \* the local that keeps body while it is swapped
    running,       \* the body a thread interprets
    current,       \* thread-local current connection is set
    http,          \* whose request is in the req_* and resp_* of the VM
    recovery,      \* runtime_recovery: whose jmp_buf it is
    prior,         \* the local that keeps recovery in ws_invoke_guarded
    invoking       \* s_ws_invoking: an uncaught throw is not answered 500

lock == <<queue, owner>>
route == <<server, clauses>>
broadcast == <<chan, targets>>
socket == <<client, pings>>
registry == <<conns, subs>>
vm == <<body, running, http, recovery, invoking>>
locals == <<ops, saved, current, prior>>
wsVars == <<lock, route, gl, at, event, broadcast, socket, registry, vm, locals>>

Lock == INSTANCE FifoLock

(* What the parser leaves in MethodNode.body. *)
HomeBody == CASE clauses = {} -> "legacy"
              [] "message" \in clauses -> "message"
              [] OTHER -> "none"

WsInit ==
    /\ Lock!Init
    /\ server \in Servers /\ clauses \in Routes
    /\ gl = NoThread
    /\ at = [t \in Threads |-> "free"]
    /\ event = [t \in Threads |-> "none"]
    /\ ops = [t \in Threads |-> 0]
    /\ chan = [t \in Threads |-> "none"]
    /\ targets = [t \in Threads |-> {}]
    /\ client = [t \in Threads |-> "none"]
    /\ pings = [t \in Threads |-> 0]
    /\ conns = {} /\ subs = [t \in Threads |-> {}]
    /\ body = HomeBody /\ saved = [t \in Threads |-> "none"]
    /\ running = [t \in Threads |-> "none"]
    /\ current = [t \in Threads |-> FALSE]
    /\ http = NoThread /\ recovery = NoThread
    /\ prior = [t \in Threads |-> NoThread]
    /\ invoking = FALSE

Goto(t, place) == at' = [at EXCEPT ![t] = place]
Embedded == server = "embedded"

-----------------------------------------------------------------------------
(* Taking and giving back the locks of a request or of a callback.          *)

(* Faulty variant: callbacks take g_lock alone, as they did until 0.1.9. *)
TakesInvokeLockHttpOnly(e) == Embedded /\ e = "http"

(* te_interp_lock_enter: no lock is registered by the separate server. *)
TakesInvokeLock(e) == Embedded

TakesRegistryLock(e) == ~ (Embedded /\ e = "http")

AfterLine(e) == IF TakesRegistryLock(e) THEN "glock" ELSE "body"

(* The prologue of request_handler under the lock, up to the invocation. *)
OpenHttp(t) ==
    /\ http' = t /\ recovery' = t
    /\ ops' = [ops EXCEPT ![t] = MaxOps]
    /\ UNCHANGED <<body, running, invoking, saved, current, prior>>

(* An HTTP request or a callback of civetweb comes in and gets in line. *)
Call(t, e) ==
    /\ event' = [event EXCEPT ![t] = e]
    /\ IF TakesInvokeLock(e)
       THEN \/ Lock!Request(t) /\ Goto(t, "line")
               /\ UNCHANGED <<vm, locals>>
            \/ /\ Lock!Barge(t) /\ Goto(t, AfterLine(e))
               /\ IF e = "http" THEN OpenHttp(t) ELSE UNCHANGED <<vm, locals>>
       ELSE Goto(t, "glock") /\ UNCHANGED <<lock, vm, locals>>
    /\ UNCHANGED <<route, gl, broadcast, registry>>

Admitted(t) ==
    /\ at[t] = "line"
    /\ Lock!Enter(t)
    /\ Goto(t, AfterLine(event[t]))
    /\ IF event[t] = "http" THEN OpenHttp(t) ELSE UNCHANGED <<vm, locals>>
    /\ UNCHANGED <<route, gl, event, broadcast, socket, registry>>

Leave(t) ==
    /\ gl' = IF gl = t THEN NoThread ELSE gl
    /\ IF owner = t THEN Lock!Release(t) ELSE UNCHANGED lock

TakeGLock(t) == at[t] = "glock" /\ gl = NoThread

-----------------------------------------------------------------------------
(* The callbacks.                                                           *)

HttpRequest(t) ==
    /\ at[t] = "free"
    /\ Call(t, "http")
    /\ UNCHANGED socket

(* The separate server: manejadorApiDinamico holds g_lock. *)
HttpUnderGLock(t) ==
    /\ event[t] = "http" /\ TakeGLock(t)
    /\ gl' = t /\ Goto(t, "body")
    /\ OpenHttp(t)
    /\ UNCHANGED <<lock, route, event, broadcast, socket, registry>>

Handshake(t) ==
    /\ at[t] = "free"
    /\ Call(t, "connect")
    /\ client' = [client EXCEPT ![t] = "live"]
    /\ pings' = [pings EXCEPT ![t] = 0]

(* cb_connect: the whole callback is one critical section of both locks. *)
Connect(t) ==
    /\ event[t] = "connect" /\ TakeGLock(t)
    /\ event' = [event EXCEPT ![t] = "none"]
    /\ \/ \* the pattern does not match: 1 is returned, no handshake
          /\ http' = NoThread /\ Goto(t, "free")
          /\ client' = [client EXCEPT ![t] = "none"]
       \/ http' = t /\ Goto(t, "accepted") /\ UNCHANGED client
    /\ IF owner = t THEN Lock!Release(t) ELSE UNCHANGED lock
    /\ UNCHANGED <<route, gl, broadcast, pings, registry, body, running,
                   recovery, invoking, locals>>

(* handle_websocket_request: the 101 cannot be sent, no more callbacks. *)
HandshakeFails(t) ==
    /\ at[t] = "accepted"
    /\ Goto(t, "free")
    /\ client' = [client EXCEPT ![t] = "none"]
    /\ UNCHANGED <<lock, route, gl, event, broadcast, pings, registry, vm,
                   locals>>

CallReady(t) ==
    /\ at[t] = "accepted"
    /\ Call(t, "ready")
    /\ UNCHANGED <<socket>>

(* What typeeasy_ws_invoke_* interpret for an event: they swap the body of  *)
(* the route for on_open and on_close, and use it as it is for the others.  *)
Swaps(e) == (e = "ready" /\ "open" \in clauses) \/ (e = "close" /\ "close" \in clauses)
SwapFor(e) == IF e = "ready" THEN "open" ELSE "close"
Runs(e) == \/ Swaps(e)
           \/ e = "message" /\ body # "none"
           \/ e = "ready" /\ clauses = {}

(* ws_invoke_guarded up to the interpretation of the body. *)
Guarded(t) ==
    /\ body' = IF Swaps(event[t]) THEN SwapFor(event[t]) ELSE body
    /\ saved' = [saved EXCEPT ![t] = IF Swaps(event[t]) THEN body ELSE "none"]
    /\ prior' = [prior EXCEPT ![t] = recovery]
    /\ recovery' = t /\ invoking' = TRUE
    /\ running' = [running EXCEPT ![t] = body']
    /\ current' = [current EXCEPT ![t] = TRUE]
    /\ ops' = [ops EXCEPT ![t] = MaxOps]

NextPlace(e) == IF e = "close" THEN "free" ELSE "loop"

(* What a callback leaves: the connection is removed after on_close. *)
Unregister(t, base) ==
    IF event[t] = "close"
    THEN /\ conns' = base \ {t} /\ subs' = [subs EXCEPT ![t] = {}]
         /\ client' = [client EXCEPT ![t] = "none"]
    ELSE conns' = base /\ UNCHANGED <<subs, client>>

(* cb_ready, cb_data and cb_close up to the handler, or to their end when   *)
(* the route has no body for the event.                                     *)
Callback(t) ==
    /\ event[t] \in {"ready", "message", "close"} /\ TakeGLock(t)
    /\ LET base == IF event[t] = "ready" THEN conns \union {t} ELSE conns IN
       IF Runs(event[t])
       THEN /\ gl' = t /\ http' = t
            /\ Goto(t, "body") /\ Guarded(t)
            /\ conns' = base
            /\ UNCHANGED <<lock, event, subs, client>>
       ELSE /\ Unregister(t, base)
            /\ http' = IF event[t] = "close" /\ clauses = {} THEN http ELSE NoThread
            /\ event' = [event EXCEPT ![t] = "none"]
            /\ Goto(t, NextPlace(event[t]))
            /\ IF owner = t THEN Lock!Release(t) ELSE UNCHANGED lock
            /\ UNCHANGED <<gl, locals, body, running, recovery, invoking>>
    /\ UNCHANGED <<route, broadcast, pings>>

-----------------------------------------------------------------------------
(* Inside a handler body.                                                   *)

MayRun(t) == at[t] = "body" /\ ops[t] > 0
Spend(t) == ops' = [ops EXCEPT ![t] = @ - 1]

(* te_ws_subscribe_current: ignored outside a WebSocket handler. *)
Subscribe(t, c) ==
    /\ MayRun(t) /\ current[t] /\ c \notin subs[t]
    /\ Spend(t)
    /\ subs' = [subs EXCEPT ![t] = @ \union {c}]
    /\ UNCHANGED <<lock, route, gl, at, event, broadcast, socket, conns, vm,
                   saved, current, prior>>

(* te_ws_broadcast as far as pthread_mutex_lock(&g_lock). *)
Broadcast(t, c) ==
    /\ MayRun(t)
    /\ Spend(t) /\ Goto(t, "bcast")
    /\ chan' = [chan EXCEPT ![t] = c]
    /\ UNCHANGED <<lock, route, gl, event, targets, socket, registry, vm,
                   saved, current, prior>>

(* The snapshot; g_lock is recursive and released again when it was free. *)
Snapshot(t) ==
    /\ at[t] = "bcast" /\ gl \in {NoThread, t}
    /\ targets' = [targets EXCEPT ![t] = {u \in conns : chan[t] \in subs[u]}]
    /\ chan' = [chan EXCEPT ![t] = "none"]
    /\ Goto(t, "write")
    /\ UNCHANGED <<lock, route, gl, event, socket, registry, vm, locals>>

(* One mg_websocket_write of the broadcast, or its end. *)
Write(t) ==
    /\ at[t] = "write"
    /\ \/ \E u \in targets[t] :
             targets' = [targets EXCEPT ![t] = @ \ {u}] /\ UNCHANGED at
       \/ targets[t] = {} /\ Goto(t, "body") /\ UNCHANGED targets
    /\ UNCHANGED <<lock, route, gl, event, chan, socket, registry, vm, locals>>

(* The end of an HTTP request: a value, an uncaught throw or a fatal error. *)
EndHttp(t) ==
    /\ event[t] = "http" /\ at[t] = "body"
    /\ http' = NoThread /\ recovery' = NoThread
    /\ event' = [event EXCEPT ![t] = "none"]
    /\ Goto(t, "free") /\ Leave(t)
    /\ UNCHANGED <<route, broadcast, socket, registry, body, running, invoking,
                   locals>>

(* Faulty variant: the jump of a fatal error skips the line that puts the   *)
(* body back, as it would if the recovery point were one frame further out. *)
PutBackUnlessFatal(t, how) == IF how = "fatal" THEN body ELSE saved[t]

(* typeeasy_ws_invoke_open and _close put the body back on every way out.   *)
PutBack(t, how) == saved[t]

(* The end of a handler and of its callback.  A fatal error comes back      *)
(* through the jmp_buf of ws_invoke_guarded, to the same end.               *)
EndCallback(t, how) ==
    /\ event[t] \in {"ready", "message", "close"} /\ at[t] = "body"
    /\ body' = IF saved[t] = "none" /\ ~ Swaps(event[t]) THEN body
               ELSE PutBack(t, how)
    /\ saved' = [saved EXCEPT ![t] = "none"]
    /\ recovery' = prior[t] /\ prior' = [prior EXCEPT ![t] = NoThread]
    /\ invoking' = FALSE /\ http' = NoThread
    /\ running' = [running EXCEPT ![t] = "none"]
    /\ current' = [current EXCEPT ![t] = FALSE]
    /\ Unregister(t, conns)
    /\ event' = [event EXCEPT ![t] = "none"]
    /\ Goto(t, NextPlace(event[t])) /\ Leave(t)
    /\ UNCHANGED <<route, broadcast, pings, ops>>

-----------------------------------------------------------------------------
(* The read loop of civetweb.                                               *)

(* Waiting for a frame, or ("frame") for the rest of one whose header came. *)
Reading(t) == at[t] \in {"loop", "frame"}

(* The header and a part of the payload: an inner loop reads the rest, and  *)
(* to it a timeout is a retry.  It sends no PING and counts nothing.        *)
FrameBegins(t) ==
    /\ at[t] = "loop" /\ client[t] = "live"
    /\ Goto(t, "frame")
    /\ pings' = [pings EXCEPT ![t] = 0]
    /\ UNCHANGED <<lock, route, gl, event, broadcast, client, registry, vm,
                   locals>>

(* A text or binary frame is all there; cb_data ignores it on a legacy      *)
(* route.                                                                   *)
Receive(t) ==
    /\ Reading(t) /\ client[t] = "live" /\ clauses # {}
    /\ Call(t, "message")
    /\ pings' = [pings EXCEPT ![t] = 0]
    /\ UNCHANGED <<client>>

(* A PONG, or any other frame that no callback is made for. *)
Pong(t) ==
    /\ Reading(t) /\ client[t] = "live"
    /\ at[t] = "frame" \/ pings[t] > 0
    /\ Goto(t, "loop")
    /\ pings' = [pings EXCEPT ![t] = 0]
    /\ UNCHANGED <<lock, route, gl, event, broadcast, client, registry, vm,
                   locals>>

(* The peer vanishes without closing the connection, between frames or in   *)
(* the middle of one.                                                       *)
Vanish(t) ==
    /\ Reading(t) /\ client[t] = "live"
    /\ client' = [client EXCEPT ![t] = "gone"]
    /\ UNCHANGED <<lock, route, gl, at, event, broadcast, pings, registry, vm,
                   locals>>

(* Faulty variant: a PING that could be handed to the kernel counts as      *)
(* answered.                                                                *)
CountPingAnswered(t) == pings' = [pings EXCEPT ![t] = 0]
CountPing(t) == pings' = [pings EXCEPT ![t] = @ + 1]

(* websocket_timeout_ms without a byte between frames: one more PING, or    *)
(* the end.                                                                 *)
IdleTimeout(t) ==
    /\ at[t] = "loop"
    /\ IF pings[t] > MaxPing
       THEN Goto(t, "left") /\ UNCHANGED pings
       ELSE CountPing(t) /\ UNCHANGED at
    /\ UNCHANGED <<lock, route, gl, event, broadcast, client, registry, vm,
                   locals>>

(* A close frame, a reset, or a PING that cannot be sent. *)
LeaveLoop(t) ==
    /\ Reading(t)
    /\ Goto(t, "left")
    /\ UNCHANGED <<lock, route, gl, event, broadcast, socket, registry, vm,
                   locals>>

CallClose(t) ==
    /\ at[t] = "left"
    /\ Call(t, "close")
    /\ pings' = [pings EXCEPT ![t] = 0]
    /\ UNCHANGED <<client>>

-----------------------------------------------------------------------------
Outcomes == {"return", "throw", "fatal"}

(* The steps a thread owes: everything but what its peer decides. *)
Work(t) ==
    \/ Admitted(t) \/ HttpUnderGLock(t) \/ Connect(t) \/ CallReady(t)
    \/ Callback(t) \/ Snapshot(t) \/ Write(t)
    \/ EndHttp(t) \/ \E how \in Outcomes : EndCallback(t, how)
    \/ CallClose(t)

Peer(t) ==
    \/ HttpRequest(t) \/ Handshake(t) \/ HandshakeFails(t)
    \/ FrameBegins(t) \/ Receive(t) \/ Pong(t) \/ Vanish(t) \/ LeaveLoop(t)

Builtin(t) == \E c \in Channels : Subscribe(t, c) \/ Broadcast(t, c)

WsNext == \E t \in Threads : Work(t) \/ Peer(t) \/ Builtin(t) \/ IdleTimeout(t)

(* A thread goes on unless it waits for a lock, and the timeout of an idle  *)
(* connection is real time.                                                 *)
WsFairness == \A t \in Threads : WF_wsVars(Work(t)) /\ WF_wsVars(IdleTimeout(t))

WsSpec == WsInit /\ [][WsNext]_wsVars /\ WsFairness

-----------------------------------------------------------------------------
(* A broadcast writes outside the critical section in which it collected    *)
(* the connections: each of them is still registered, and not the next      *)
(* connection of its thread, when its turn comes.                           *)
TargetsStillOpen == \A t \in Threads : targets[t] \subseteq conns

(* Whoever interprets a handler has the process-wide set-up of its own      *)
(* event: request context, recovery point, current connection, body and the *)
(* flag that tells how an uncaught throw is reported.                       *)
HandlerSetUp ==
    \A t \in Threads : at[t] \in {"body", "bcast", "write"} =>
        /\ http = t /\ recovery = t
        /\ invoking = (event[t] # "http")
        /\ current[t] = (event[t] # "http")
        /\ event[t] # "http" =>
              running[t] = CASE event[t] = "message" -> "message"
                             [] event[t] = "close" -> "close"
                             [] clauses = {} -> "legacy"
                             [] OTHER -> "open"

(* Threads come back to the pool: callbacks and requests end, and a peer    *)
(* that vanished between two frames does not pin its thread for good        *)
(* (src/src/typeeasy_api_server.c:1210-1220).  One that vanished in the     *)
(* middle of a frame does: DeadAreDropped.                                  *)
ThreadsComeBack ==
    \A t \in Threads :
        (Embedded /\ (~ Reading(t) \/ (at[t] = "loop" /\ client[t] = "gone")))
            ~> (at[t] = "free" \/ (Reading(t) /\ client[t] = "live"))

(* "after MG_MAX_UNANSWERED_PING (5) unanswered PINGs the dead WS is        *)
(* dropped and its thread returns to the pool"                              *)
(* (src/src/typeeasy_api_server.c:1217-1219).  One that vanishes inside a    *)
(* frame is not (MCVanished.cfg refutes the property).                       *)
DeadAreDropped ==
    \A t \in Threads : (Embedded /\ client[t] = "gone") ~> at[t] = "free"
=============================================================================
