-------------------------- MODULE WebSocket_proofs --------------------------
(***************************************************************************)
(* Proofs about WebSocket for every set of threads, channels and routes,   *)
(* both servers and every bound: a handler runs with the process-wide      *)
(* set-up of its own event, and a broadcast writes to registered           *)
(* connections only although it holds no lock of the registry.             *)
(***************************************************************************)
EXTENDS WebSocket, FiniteSetTheorems, SequenceTheorems, TLAPS

Places == {"free", "line", "glock", "accepted", "loop", "frame", "left", "body",
           "bcast", "write"}
Events == {"http", "connect", "ready", "message", "close"}
Bodies == {"none", "legacy", "open", "message", "close"}

TypeOK ==
    /\ queue \in Seq(Threads) /\ owner \in Threads \union {NoThread}
    /\ server \in Servers /\ clauses \in Routes
    /\ gl \in Threads \union {NoThread}
    /\ at \in [Threads -> Places]
    /\ event \in [Threads -> Events \union {"none"}]
    /\ ops \in [Threads -> Int] /\ pings \in [Threads -> Int]
    /\ chan \in [Threads -> Channels \union {"none"}]
    /\ targets \in [Threads -> SUBSET Threads]
    /\ client \in [Threads -> {"none", "live", "gone"}]
    /\ conns \in SUBSET Threads /\ subs \in [Threads -> SUBSET Channels]
    /\ body \in Bodies
    /\ saved \in [Threads -> Bodies] /\ running \in [Threads -> Bodies]
    /\ current \in [Threads -> BOOLEAN] /\ invoking \in BOOLEAN
    /\ http \in Threads \union {NoThread} /\ recovery \in Threads \union {NoThread}
    /\ prior \in [Threads -> Threads \union {NoThread}]

Interpreting(t) == at[t] \in {"body", "bcast", "write"}

(* Which locks a thread holds at each place: handler code of the embedded    *)
(* server is inside the invoke lock, that of a callback and all of the       *)
(* separate server's is inside g_lock.                                       *)
HoldInv ==
    /\ owner # NoThread => queue # <<>> /\ Head(queue) = owner
    /\ \A t \in Threads : at[t] \in {"line", "glock"} => event[t] \in Events
    /\ \A t \in Threads : at[t] = "line" => Embedded
    /\ \A t \in Threads : at[t] = "glock" /\ Embedded => owner = t /\ event[t] # "http"
    /\ \A t \in Threads : Interpreting(t) =>
           /\ event[t] \in Events \ {"connect"}
           /\ Embedded => owner = t
           /\ TakesRegistryLock(event[t]) => gl = t
    /\ \A t \in Threads : event[t] = "message" => clauses # {}

(* A thread that runs no handler has no current connection; the body of the  *)
(* route is the parser's unless a handler has swapped it, and then that      *)
(* handler has the parser's in its local.                                    *)
SetUpInv ==
    /\ HandlerSetUp
    /\ \A t \in Threads : ~ Interpreting(t) => ~ current[t]
    /\ (\A t \in Threads : Interpreting(t) => event[t] = "http")
           => ~ invoking /\ body = HomeBody
    /\ \A t \in Threads : Interpreting(t) /\ event[t] # "http" =>
           IF Swaps(event[t]) THEN saved[t] = HomeBody
                              ELSE saved[t] = "none" /\ body = HomeBody

(* Only a thread that is writing has targets. *)
TargetInv ==
    /\ TargetsStillOpen
    /\ \A t \in Threads : at[t] # "write" => targets[t] = {}

IInv == TypeOK /\ HoldInv /\ SetUpInv /\ TargetInv

(* All steps of a thread. *)
Steps(t) == Work(t) \/ Peer(t) \/ Builtin(t) \/ IdleTimeout(t)

-----------------------------------------------------------------------------
(* What the steps of the lock do to the line, and that only a step of its    *)
(* owner takes the lock away.                                                *)
LEMMA LockSteps ==
    ASSUME WebSocketAssumption, TypeOK, HoldInv, NEW t \in Threads,
           Lock!Request(t) \/ Lock!Barge(t) \/ Lock!Enter(t) \/ Lock!Release(t)
    PROVE  /\ queue' \in Seq(Threads) /\ owner' \in Threads \union {NoThread}
           /\ owner' # NoThread => queue' # <<>> /\ Head(queue') = owner'
           /\ owner # NoThread /\ owner # t => owner' = owner
  <1>1. CASE Lock!Request(t)
    BY <1>1, AppendProperties, HeadTailAppend DEF Lock!Request, TypeOK, HoldInv
  <1>2. CASE Lock!Barge(t)
    BY <1>2 DEF Lock!Barge, TypeOK, HoldInv, WebSocketAssumption
  <1>3. CASE Lock!Enter(t)
    BY <1>3 DEF Lock!Enter, TypeOK, HoldInv
  <1>4. CASE Lock!Release(t)
    BY <1>4, HeadTailProperties
       DEF Lock!Release, TypeOK, HoldInv, WebSocketAssumption
  <1> QED
    BY <1>1, <1>2, <1>3, <1>4

(* Every step of a thread leaves the lock alone or is one of its steps, and  *)
(* no step changes the server or the clauses of the route.                   *)
LEMMA StepsOfTheLock ==
    ASSUME NEW t \in Threads, Steps(t)
    PROVE  \/ UNCHANGED <<queue, owner>>
           \/ Lock!Request(t) \/ Lock!Barge(t) \/ Lock!Enter(t) \/ Lock!Release(t)
  <1>1. CASE Work(t)
    BY <1>1
       DEF Work, Admitted, HttpUnderGLock, Connect, CallReady, Call, Callback,
           Snapshot, Write, EndHttp, EndCallback, CallClose, Leave, lock
  <1>2. CASE Peer(t)
    BY <1>2
       DEF Peer, HttpRequest, Handshake, HandshakeFails, FrameBegins, Receive,
           Pong, Vanish, LeaveLoop, Call, lock
  <1>3. CASE Builtin(t) \/ IdleTimeout(t)
    BY <1>3 DEF Builtin, Subscribe, Broadcast, IdleTimeout, lock
  <1> QED
    BY <1>1, <1>2, <1>3 DEF Steps

LEMMA RouteStays ==
    ASSUME NEW t \in Threads, Steps(t)
    PROVE  UNCHANGED <<server, clauses>>
  <1>1. CASE Work(t)
    BY <1>1
       DEF Work, Admitted, HttpUnderGLock, Connect, CallReady, Call, Callback,
           Snapshot, Write, EndHttp, EndCallback, CallClose, route
  <1>2. CASE Peer(t)
    BY <1>2
       DEF Peer, HttpRequest, Handshake, HandshakeFails, FrameBegins, Receive,
           Pong, Vanish, LeaveLoop, Call, route
  <1>3. CASE Builtin(t) \/ IdleTimeout(t)
    BY <1>3 DEF Builtin, Subscribe, Broadcast, IdleTimeout, route
  <1> QED
    BY <1>1, <1>2, <1>3 DEF Steps

LEMMA HomeBodyType == HomeBody \in Bodies
  BY DEF HomeBody, Bodies

LEMMA InitInv == ASSUME WebSocketAssumption, WsInit PROVE IInv
  <1>1. TypeOK
    <2>1. queue \in Seq(Threads) /\ owner \in Threads \union {NoThread}
      BY EmptySeq DEF WsInit, Lock!Init
    <2>2. body \in Bodies
      BY HomeBodyType DEF WsInit
    <2>3. /\ at \in [Threads -> Places] /\ event \in [Threads -> Events \union {"none"}]
          /\ ops \in [Threads -> Int] /\ pings \in [Threads -> Int]
          /\ chan \in [Threads -> Channels \union {"none"}]
          /\ client \in [Threads -> {"none", "live", "gone"}]
          /\ saved \in [Threads -> Bodies] /\ running \in [Threads -> Bodies]
      BY DEF WsInit, Places, Bodies
    <2>4. /\ targets \in [Threads -> SUBSET Threads]
          /\ conns \in SUBSET Threads /\ subs \in [Threads -> SUBSET Channels]
          /\ current \in [Threads -> BOOLEAN] /\ invoking \in BOOLEAN
          /\ prior \in [Threads -> Threads \union {NoThread}]
      BY DEF WsInit
    <2> QED
      BY <2>1, <2>2, <2>3, <2>4 DEF WsInit, TypeOK
  <1>2. HoldInv
    BY DEF WsInit, Lock!Init, HoldInv, Interpreting
  <1>3. SetUpInv
    BY DEF WsInit, SetUpInv, HandlerSetUp, Interpreting
  <1>4. TargetInv
    BY DEF WsInit, TargetInv, TargetsStillOpen
  <1> QED
    BY <1>1, <1>2, <1>3, <1>4 DEF IInv

(* A call gets in line, waits for g_lock, or (an HTTP request that finds     *)
(* nobody in line) begins its handler; nothing else of the call happens.     *)
LEMMA Calls ==
    ASSUME TypeOK, NEW t \in Threads, NEW e \in Events, Call(t, e)
    PROVE  /\ event' = [event EXCEPT ![t] = e]
           /\ UNCHANGED <<gl, chan, targets, conns, subs, body, running, invoking,
                          saved, current, prior>>
           /\ \/ /\ at' = [at EXCEPT ![t] = "line"] /\ Embedded
                 /\ Lock!Request(t) /\ UNCHANGED <<http, recovery, ops>>
              \/ /\ at' = [at EXCEPT ![t] = "glock"]
                 /\ IF Embedded THEN Lock!Barge(t) /\ e # "http"
                                ELSE UNCHANGED <<queue, owner>>
                 /\ UNCHANGED <<http, recovery, ops>>
              \/ /\ at' = [at EXCEPT ![t] = "body"]
                 /\ Embedded /\ e = "http" /\ Lock!Barge(t)
                 /\ http' = t /\ recovery' = t
                 /\ ops' = [ops EXCEPT ![t] = MaxOps]
  <1>1. CASE Embedded /\ Lock!Request(t) /\ Goto(t, "line") /\ UNCHANGED <<vm, locals>>
    BY <1>1 DEF Call, Goto, broadcast, registry, vm, locals
  <1>2. CASE ~ Embedded /\ Goto(t, "glock") /\ UNCHANGED <<lock, vm, locals>>
    BY <1>2 DEF Call, Goto, broadcast, registry, vm, locals, lock
  <1>3. CASE Embedded /\ Lock!Barge(t) /\ e = "http" /\ Goto(t, "body") /\ OpenHttp(t)
    BY <1>3 DEF Call, Goto, OpenHttp, broadcast, registry
  <1>4. CASE /\ Embedded /\ Lock!Barge(t) /\ e # "http" /\ Goto(t, "glock")
             /\ UNCHANGED <<vm, locals>>
    BY <1>4 DEF Call, Goto, broadcast, registry, vm, locals
  <1> QED
    BY <1>1, <1>2, <1>3, <1>4 DEF Call, TakesInvokeLock, AfterLine, TakesRegistryLock

(* The steps that call: who calls, from where, and for what. *)
Caller(t) ==
    \E e \in Events :
        /\ Call(t, e)
        /\ at[t] \in {"free", "accepted", "loop", "frame", "left"}
        /\ e = "message" => clauses # {}
        /\ client' \in [Threads -> {"none", "live", "gone"}]
        /\ pings' \in [Threads -> Int]

LEMMA Callers ==
    ASSUME TypeOK, NEW t \in Threads,
           \/ HttpRequest(t) \/ Handshake(t) \/ CallReady(t) \/ Receive(t)
           \/ CallClose(t)
    PROVE  Caller(t)
  <1>1. CASE HttpRequest(t)
    BY <1>1 DEF HttpRequest, Caller, TypeOK, socket, Events
  <1>2. CASE Handshake(t)
    BY <1>2 DEF Handshake, Caller, TypeOK, Events
  <1>3. CASE CallReady(t)
    BY <1>3 DEF CallReady, Caller, TypeOK, socket, Events
  <1>4. CASE Receive(t)
    BY <1>4 DEF Receive, Reading, Caller, TypeOK, Events
  <1>5. CASE CallClose(t)
    BY <1>5 DEF CallClose, Caller, TypeOK, Events
  <1> QED
    BY <1>1, <1>2, <1>3, <1>4, <1>5

(* The other steps that change none but the sockets or the places outside a  *)
(* handler.                                                                  *)
Quiet(t) ==
    \/ HandshakeFails(t) \/ FrameBegins(t) \/ Pong(t) \/ Vanish(t) \/ LeaveLoop(t)
    \/ IdleTimeout(t)

LEMMA Quiets ==
    ASSUME TypeOK, NEW t \in Threads, Quiet(t)
    PROVE  /\ UNCHANGED <<queue, owner, server, clauses, gl, event, ops, chan, targets,
                          conns, subs, body, saved, running, current, http,
                          recovery, prior, invoking>>
           /\ at[t] \in {"accepted", "loop", "frame"}
           /\ \/ at' = at
              \/ \E p \in {"free", "left", "loop", "frame"} : at' = [at EXCEPT ![t] = p]
           /\ client' \in [Threads -> {"none", "live", "gone"}]
           /\ pings' \in [Threads -> Int]
  <1>1. CASE HandshakeFails(t)
    BY <1>1
       DEF HandshakeFails, Goto, TypeOK, lock, route, broadcast, registry, vm,
           locals
  <1>2. CASE FrameBegins(t) \/ Pong(t)
    BY <1>2
       DEF FrameBegins, Pong, Reading, Goto, TypeOK, lock, route, broadcast,
           registry, vm, locals
  <1>3. CASE Vanish(t)
    BY <1>3
       DEF Vanish, Reading, TypeOK, lock, route, broadcast, registry, vm, locals
  <1>4. CASE LeaveLoop(t)
    BY <1>4
       DEF LeaveLoop, Reading, Goto, TypeOK, lock, route, broadcast, registry, vm, locals,
           socket
  <1>5. CASE IdleTimeout(t)
    BY <1>5
       DEF IdleTimeout, CountPing, Goto, TypeOK, lock, route, broadcast, registry,
           vm, locals
  <1> QED
    BY <1>1, <1>2, <1>3, <1>4, <1>5 DEF Quiet

(* Every step is one of these. *)
LEMMA StepKinds ==
    ASSUME TypeOK, NEW t \in Threads, Steps(t)
    PROVE  \/ Caller(t) \/ Quiet(t)
           \/ Admitted(t) \/ HttpUnderGLock(t) \/ Connect(t) \/ Callback(t)
           \/ Snapshot(t) \/ Write(t) \/ EndHttp(t)
           \/ \E how \in Outcomes : EndCallback(t, how)
           \/ \E c \in Channels : Subscribe(t, c)
           \/ \E c \in Channels : Broadcast(t, c)
  BY Callers DEF Steps, Work, Peer, Builtin, Quiet

(* What a callback leaves in the registry is a registry. *)
LEMMA RegistryTypes ==
    ASSUME TypeOK, NEW t \in Threads, NEW base \in SUBSET Threads,
           Unregister(t, base)
    PROVE  /\ conns' \in SUBSET Threads /\ subs' \in [Threads -> SUBSET Channels]
           /\ client' \in [Threads -> {"none", "live", "gone"}]
  <1>1. /\ subs \in [Threads -> SUBSET Channels]
        /\ client \in [Threads -> {"none", "live", "gone"}]
    BY DEF TypeOK
  <1>2. [subs EXCEPT ![t] = {}] \in [Threads -> SUBSET Channels]
    BY <1>1
  <1>3. [client EXCEPT ![t] = "none"] \in [Threads -> {"none", "live", "gone"}]
    BY <1>1
  <1> QED
    BY <1>1, <1>2, <1>3 DEF Unregister

LEMMA TypeNext ==
    ASSUME WebSocketAssumption, IInv, [WsNext]_wsVars PROVE TypeOK'
  <1>1. CASE UNCHANGED wsVars
    BY <1>1
       DEF IInv, TypeOK, wsVars, lock, route, broadcast, socket, registry, vm,
           locals
  <1> SUFFICES ASSUME NEW t \in Threads, Steps(t) PROVE TypeOK'
    BY <1>1 DEF WsNext, Steps
  <1>2. /\ queue' \in Seq(Threads) /\ owner' \in Threads \union {NoThread}
        /\ server' \in Servers /\ clauses' \in Routes
    BY LockSteps, StepsOfTheLock, RouteStays DEF IInv, TypeOK
  <1>3. TypeOK
    BY DEF IInv
  <1>4. MaxOps \in Int
    BY DEF WebSocketAssumption
  <1>a. \A p \in Places : [at EXCEPT ![t] = p] \in [Threads -> Places]
    BY <1>3 DEF TypeOK
  <1>b. [ops EXCEPT ![t] = MaxOps] \in [Threads -> Int]
    BY <1>3, <1>4 DEF TypeOK
  <1>5. CASE Caller(t)
    <2>1. PICK e \in Events : Call(t, e)
      BY <1>5 DEF Caller
    <2>2. /\ at' \in [Threads -> Places] /\ ops' \in [Threads -> Int]
          /\ http' \in Threads \union {NoThread}
          /\ recovery' \in Threads \union {NoThread}
      <3>1. /\ [at EXCEPT ![t] = "line"] \in [Threads -> Places]
            /\ [at EXCEPT ![t] = "glock"] \in [Threads -> Places]
            /\ [at EXCEPT ![t] = "body"] \in [Threads -> Places]
        BY <1>a DEF Places
      <3>2. at' \in [Threads -> Places]
        <4>1. at' \in {[at EXCEPT ![t] = "line"], [at EXCEPT ![t] = "glock"],
                       [at EXCEPT ![t] = "body"]}
          BY <1>3, <2>1, Calls
        <4> QED
          BY <3>1, <4>1
      <3>3. ops' \in [Threads -> Int]
        BY <1>3, <1>b, <2>1, Calls DEF TypeOK
      <3>4. http' \in {http, t} /\ recovery' \in {recovery, t}
        BY <1>3, <2>1, Calls
      <3> QED
        BY <1>3, <3>2, <3>3, <3>4 DEF TypeOK
    <2>3. event' \in [Threads -> Events \union {"none"}]
      BY <1>3, <2>1, Calls DEF TypeOK
    <2> QED
      BY <1>2, <1>3, <1>5, <2>1, <2>2, <2>3, Calls DEF TypeOK, Caller
  <1>6. CASE Quiet(t)
    <2>1. at' \in [Threads -> Places]
      <3>1. at \in [Threads -> Places]
        BY <1>3 DEF TypeOK
      <3>2. \/ at' = at
            \/ \E p \in {"free", "left", "loop", "frame"} : at' = [at EXCEPT ![t] = p]
        BY <1>3, <1>6, Quiets
      <3> QED
        BY <1>a, <3>1, <3>2 DEF Places
    <2> QED
      BY <1>2, <1>3, <1>6, <2>1, Quiets DEF TypeOK
  <1>7. CASE Admitted(t) \/ HttpUnderGLock(t)
    <2>1. at' \in [Threads -> Places]
      BY <1>7, <1>a DEF Admitted, HttpUnderGLock, Goto, AfterLine, Places
    <2>2. /\ gl' \in Threads \union {NoThread}
          /\ ops' \in [Threads -> Int]
          /\ http' \in Threads \union {NoThread}
          /\ recovery' \in Threads \union {NoThread}
          /\ UNCHANGED <<body, running, invoking, saved, current, prior>>
      BY <1>3, <1>7, <1>b
         DEF Admitted, HttpUnderGLock, OpenHttp, TypeOK, vm, locals
    <2> QED
      BY <1>2, <1>3, <1>7, <2>1, <2>2, ZenonT(60)
         DEF Admitted, HttpUnderGLock, TypeOK, broadcast, socket, registry
  <1>8. CASE Connect(t)
    BY <1>2, <1>3, <1>8, ZenonT(60)
       DEF Connect, Goto, TypeOK, Places, broadcast, registry, locals
  <1>9. CASE Callback(t)
    <2>1. at' \in [Threads -> Places]
      BY <1>9, <1>a DEF Callback, Goto, NextPlace, Places
    <2>2. /\ gl' \in Threads \union {NoThread}
          /\ event' \in [Threads -> Events \union {"none"}]
          /\ http' \in Threads \union {NoThread}
      <3>1. /\ gl' \in {gl, t} /\ http' \in {http, t, NoThread}
            /\ event' \in {event, [event EXCEPT ![t] = "none"]}
        BY <1>9 DEF Callback
      <3>2. /\ event \in [Threads -> Events \union {"none"}]
            /\ [event EXCEPT ![t] = "none"] \in [Threads -> Events \union {"none"}]
        BY <1>3 DEF TypeOK
      <3>3. event' \in [Threads -> Events \union {"none"}]
        BY <3>1, <3>2
      <3> QED
        BY <1>3, <3>1, <3>3 DEF TypeOK
    <2>3. /\ conns' \in SUBSET Threads /\ subs' \in [Threads -> SUBSET Channels]
          /\ client' \in [Threads -> {"none", "live", "gone"}]
      <3>1. PICK base \in SUBSET Threads :
                Unregister(t, base) \/ (conns' = base /\ UNCHANGED <<subs, client>>)
        BY <1>3, <1>9, ZenonT(60) DEF Callback, TypeOK
      <3> QED
        BY <1>3, <3>1, RegistryTypes DEF TypeOK
    <2>4. /\ ops' \in [Threads -> Int] /\ body' \in Bodies
          /\ saved' \in [Threads -> Bodies] /\ running' \in [Threads -> Bodies]
          /\ current' \in [Threads -> BOOLEAN] /\ invoking' \in BOOLEAN
          /\ recovery' \in Threads \union {NoThread}
          /\ prior' \in [Threads -> Threads \union {NoThread}]
      <3>1. CASE Guarded(t)
        <4>1. body' \in Bodies /\ "none" \in Bodies
          BY <1>3, <3>1 DEF Guarded, SwapFor, TypeOK, Bodies
        <4> QED
          BY <1>3, <1>b, <3>1, <4>1 DEF Guarded, TypeOK
      <3>2. CASE UNCHANGED <<locals, body, running, recovery, invoking>>
        BY <1>3, <3>2 DEF TypeOK, locals
      <3> QED
        BY <1>9, <3>1, <3>2 DEF Callback
    <2> QED
      BY <1>2, <1>3, <1>9, <2>1, <2>2, <2>3, <2>4 DEF Callback, TypeOK, broadcast
  <1>10. CASE Snapshot(t) \/ Write(t)
    <2>1. at' \in [Threads -> Places]
      <3>1. at \in [Threads -> Places]
        BY <1>3 DEF TypeOK
      <3>2. /\ [at EXCEPT ![t] = "write"] \in [Threads -> Places]
            /\ [at EXCEPT ![t] = "body"] \in [Threads -> Places]
        BY <1>a DEF Places
      <3>3. at' \in {at, [at EXCEPT ![t] = "write"], [at EXCEPT ![t] = "body"]}
        BY <1>10 DEF Snapshot, Write, Goto
      <3> QED
        BY <3>1, <3>2, <3>3
    <2>2. targets' \in [Threads -> SUBSET Threads]
      <3>1. targets \in [Threads -> SUBSET Threads] /\ conns \in SUBSET Threads
        BY <1>3 DEF TypeOK
      <3>2. [targets EXCEPT ![t] = {u \in conns : chan[t] \in subs[u]}]
                \in [Threads -> SUBSET Threads]
        BY <3>1
      <3>3. \A u : [targets EXCEPT ![t] = @ \ {u}] \in [Threads -> SUBSET Threads]
        BY <3>1
      <3> QED
        BY <1>10, <3>1, <3>2, <3>3 DEF Snapshot, Write
    <2>3. chan' \in [Threads -> Channels \union {"none"}]
      BY <1>3, <1>10 DEF Snapshot, Write, TypeOK
    <2> QED
      BY <1>2, <1>3, <1>10, <2>1, <2>2, <2>3, SMTT(20)
         DEF Snapshot, Write, TypeOK, socket, registry, vm, locals
  <1>11. CASE EndHttp(t)
    BY <1>2, <1>3, <1>11
       DEF EndHttp, Leave, Goto, TypeOK, Places, broadcast, socket, registry,
           locals
  <1>12. CASE \E how \in Outcomes : EndCallback(t, how)
    <2> PICK how \in Outcomes : EndCallback(t, how)
      BY <1>12
    <2>1. at' \in [Threads -> Places]
      BY <1>a DEF EndCallback, Goto, NextPlace, Places
    <2>2. /\ conns' \in SUBSET Threads /\ subs' \in [Threads -> SUBSET Channels]
          /\ client' \in [Threads -> {"none", "live", "gone"}]
      BY <1>3, RegistryTypes DEF EndCallback, TypeOK
    <2>3. /\ body' \in Bodies
          /\ saved' \in [Threads -> Bodies] /\ running' \in [Threads -> Bodies]
      <3>1. "none" \in Bodies
        BY DEF Bodies
      <3> QED
        BY <1>3, <3>1 DEF EndCallback, PutBack, TypeOK
    <2>4. /\ gl' \in Threads \union {NoThread}
          /\ current' \in [Threads -> BOOLEAN] /\ invoking' \in BOOLEAN
          /\ http' \in Threads \union {NoThread}
          /\ recovery' \in Threads \union {NoThread}
          /\ prior' \in [Threads -> Threads \union {NoThread}]
          /\ event' \in [Threads -> Events \union {"none"}]
      BY <1>3 DEF EndCallback, Leave, TypeOK
    <2> QED
      BY <1>2, <1>3, <2>1, <2>2, <2>3, <2>4
         DEF EndCallback, TypeOK, broadcast
  <1>13. CASE \E c \in Channels : Subscribe(t, c) \/ Broadcast(t, c)
    <2> PICK c \in Channels : Subscribe(t, c) \/ Broadcast(t, c)
      BY <1>13
    <2>1. at' \in [Threads -> Places]
      BY <1>3, <1>a, ZenonT(60) DEF Subscribe, Broadcast, Goto, TypeOK, Places
    <2>2. /\ ops \in [Threads -> Int] /\ subs \in [Threads -> SUBSET Channels]
          /\ chan \in [Threads -> Channels \union {"none"}]
      BY <1>3 DEF TypeOK
    <2>3. ops' \in [Threads -> Int]
      BY <2>2 DEF Subscribe, Broadcast, Spend
    <2>4. subs' \in [Threads -> SUBSET Channels]
      <3>1. [subs EXCEPT ![t] = @ \union {c}] \in [Threads -> SUBSET Channels]
        BY <2>2
      <3> QED
        BY <2>2, <3>1 DEF Subscribe, Broadcast, registry
    <2>5. chan' \in [Threads -> Channels \union {"none"}]
      <3>1. [chan EXCEPT ![t] = c] \in [Threads -> Channels \union {"none"}]
        BY <2>2
      <3> QED
        BY <2>2, <3>1 DEF Subscribe, Broadcast, broadcast
    <2>6. UNCHANGED <<gl, event, targets, client, pings, conns, vm, saved, current,
                      prior>>
      BY DEF Subscribe, Broadcast, broadcast, socket, registry
    <2> QED
      BY <1>2, <1>3, <2>1, <2>3, <2>4, <2>5, <2>6 DEF TypeOK, vm
  <1> QED
    BY <1>3, <1>5, <1>6, <1>7, <1>8, <1>9, <1>10, <1>11, <1>12, <1>13, StepKinds

-----------------------------------------------------------------------------
(* A step of one thread moves no other thread, and takes neither of the two  *)
(* locks from one that holds it.                                             *)
LEMMA OthersStay ==
    ASSUME WebSocketAssumption, TypeOK, NEW t \in Threads, Steps(t), NEW u \in Threads \ {t}
    PROVE  /\ at'[u] = at[u] /\ event'[u] = event[u] /\ targets'[u] = targets[u]
           /\ saved'[u] = saved[u] /\ running'[u] = running[u]
           /\ current'[u] = current[u]
           /\ gl = u => gl' = u
  <1>0. /\ at \in [Threads -> Places] /\ event \in [Threads -> Events \union {"none"}]
        /\ targets \in [Threads -> SUBSET Threads]
        /\ saved \in [Threads -> Bodies] /\ running \in [Threads -> Bodies]
        /\ current \in [Threads -> BOOLEAN]
    BY DEF TypeOK
  <1>1. CASE Caller(t)
    <2>1. PICK e \in Events : Call(t, e)
      BY <1>1 DEF Caller
    <2>2. /\ event' = [event EXCEPT ![t] = e]
          /\ UNCHANGED <<gl, targets, saved, running, current>>
      BY <2>1, Calls
    <2>3. \E p \in Places : at' = [at EXCEPT ![t] = p]
      BY <2>1, Calls DEF Places
    <2> QED
      BY <1>0, <2>2, <2>3
  <1>2. CASE Quiet(t)
    <2>1. /\ UNCHANGED <<gl, event, targets, saved, running, current>>
          /\ \/ at' = at
             \/ \E p \in {"free", "left", "loop", "frame"} : at' = [at EXCEPT ![t] = p]
      BY <1>2, Quiets
    <2> QED
      BY <1>0, <2>1
  <1>3. CASE Admitted(t) \/ HttpUnderGLock(t)
    <2>1. /\ UNCHANGED <<event, targets, saved, running, current>>
          /\ \E p \in {"glock", "body"} : at' = [at EXCEPT ![t] = p]
          /\ gl' = gl \/ gl = NoThread
      BY <1>3
         DEF Admitted, HttpUnderGLock, OpenHttp, TakeGLock, Goto, AfterLine,
             broadcast, vm, locals
    <2> QED
      BY <1>0, <2>1 DEF WebSocketAssumption
  <1>4. CASE Connect(t)
    BY <1>0, <1>4 DEF Connect, Goto, broadcast, locals
  <1>5. CASE Callback(t)
    <2>1. /\ UNCHANGED targets /\ gl = NoThread
          /\ event' \in {event, [event EXCEPT ![t] = "none"]}
          /\ \E p \in {"body", "free", "loop"} : at' = [at EXCEPT ![t] = p]
      BY <1>5 DEF Callback, TakeGLock, Goto, NextPlace, broadcast
    <2>2. Guarded(t) \/ UNCHANGED <<saved, running, current>>
      BY <1>5 DEF Callback, locals
    <2>3. /\ saved'[u] = saved[u] /\ running'[u] = running[u]
          /\ current'[u] = current[u]
      BY <1>0, <2>2 DEF Guarded
    <2> QED
      BY <1>0, <2>1, <2>3 DEF WebSocketAssumption
  <1>6. CASE Snapshot(t) \/ Write(t)
    BY <1>0, <1>6 DEF Snapshot, Write, Goto, vm, locals
  <1>7. CASE EndHttp(t)
    BY <1>0, <1>7 DEF EndHttp, Leave, Goto, broadcast, locals
  <1>8. CASE \E how \in Outcomes : EndCallback(t, how)
    BY <1>0, <1>8 DEF EndCallback, Leave, Goto, broadcast
  <1>9. CASE \E c \in Channels : Subscribe(t, c) \/ Broadcast(t, c)
    BY <1>0, <1>9 DEF Subscribe, Broadcast, Goto, broadcast, vm
  <1> QED
    BY <1>1, <1>2, <1>3, <1>4, <1>5, <1>6, <1>7, <1>8, <1>9, StepKinds

(* Where the thread that takes the step is afterwards, and what it holds. *)
LEMMA HoldsAfter ==
    ASSUME WebSocketAssumption, TypeOK, HoldInv, NEW t \in Threads, Steps(t)
    PROVE  /\ at'[t] \in {"line", "glock"} => event'[t] \in Events
           /\ at'[t] = "line" => Embedded
           /\ at'[t] = "glock" /\ Embedded => owner' = t /\ event'[t] # "http"
           /\ Interpreting(t)' =>
                 /\ event'[t] \in Events \ {"connect"}
                 /\ Embedded => owner' = t
                 /\ TakesRegistryLock(event'[t]) => gl' = t
           /\ event'[t] = "message" => clauses # {}
  <1>0. at \in [Threads -> Places] /\ event \in [Threads -> Events \union {"none"}]
    BY DEF TypeOK
  <1>1. CASE Caller(t)
    <2>1. PICK e \in Events : Call(t, e) /\ (e = "message" => clauses # {})
      BY <1>1 DEF Caller
    <2>2. event'[t] = e
      BY <1>0, <2>1, Calls
    <2>3. \/ at'[t] = "line" /\ Embedded
          \/ at'[t] = "glock" /\ (Embedded => owner' = t /\ e # "http")
          \/ at'[t] = "body" /\ Embedded /\ e = "http" /\ owner' = t
      BY <1>0, <2>1, Calls DEF Lock!Barge
    <2> QED
      BY <2>1, <2>2, <2>3 DEF Interpreting, TakesRegistryLock
  <1>2. CASE Quiet(t)
    <2>1. at'[t] \in {"accepted", "loop", "frame", "free", "left"} /\ event'[t] = event[t]
      BY <1>0, <1>2, Quiets
    <2> QED
      BY <2>1 DEF HoldInv, Interpreting
  <1>3. CASE Admitted(t)
    <2>1. /\ at[t] = "line" /\ owner' = t /\ event'[t] = event[t]
          /\ at'[t] = AfterLine(event[t])
      BY <1>0, <1>3 DEF Admitted, Lock!Enter, Goto
    <2> QED
      BY <2>1
         DEF HoldInv, Interpreting, AfterLine, TakesRegistryLock, Events
  <1>4. CASE HttpUnderGLock(t)
    <2>1. /\ at[t] = "glock" /\ event[t] = "http" /\ event' = event
          /\ at'[t] = "body" /\ gl' = t
      BY <1>0, <1>4 DEF HttpUnderGLock, TakeGLock, Goto
    <2> QED
      BY <2>1 DEF HoldInv, Interpreting, Events
  <1>5. CASE Connect(t)
    <2>1. event'[t] = "none" /\ at'[t] \in {"free", "accepted"}
      BY <1>0, <1>5 DEF Connect, Goto
    <2> QED
      BY <2>1 DEF Interpreting
  <1>6. CASE Callback(t)
    <2>1. \/ /\ event'[t] = event[t] /\ at'[t] = "body" /\ gl' = t
             /\ at[t] = "glock" /\ owner' = owner
          \/ event'[t] = "none" /\ at'[t] \in {"free", "loop"}
      BY <1>0, <1>6 DEF Callback, TakeGLock, Goto, NextPlace, lock
    <2>2. event[t] # "connect"
      BY <1>6 DEF Callback
    <2> QED
      BY <2>1, <2>2 DEF HoldInv, Interpreting
  <1>7. CASE Snapshot(t) \/ Write(t)
    <2>1. /\ Interpreting(t) /\ at'[t] \in {"write", "body"}
          /\ UNCHANGED <<owner, gl, event>>
      BY <1>0, <1>7 DEF Snapshot, Write, Goto, Interpreting, lock
    <2> QED
      BY <2>1 DEF HoldInv, Interpreting
  <1>8. CASE EndHttp(t) \/ \E how \in Outcomes : EndCallback(t, how)
    <2>1. event'[t] = "none" /\ at'[t] \in {"free", "loop"}
      BY <1>0, <1>8 DEF EndHttp, EndCallback, Goto, NextPlace
    <2> QED
      BY <2>1 DEF Interpreting
  <1>9. CASE \E c \in Channels : Subscribe(t, c) \/ Broadcast(t, c)
    <2>1. /\ Interpreting(t) /\ at'[t] \in {"body", "bcast"}
          /\ UNCHANGED <<owner, gl, event>>
      BY <1>0, <1>9 DEF Subscribe, Broadcast, MayRun, Goto, Interpreting, lock
    <2> QED
      BY <2>1 DEF HoldInv, Interpreting
  <1> QED
    BY <1>1, <1>2, <1>3, <1>4, <1>5, <1>6, <1>7, <1>8, <1>9, StepKinds

LEMMA HoldNext ==
    ASSUME WebSocketAssumption, IInv, [WsNext]_wsVars PROVE HoldInv'
  <1>1. CASE UNCHANGED wsVars
    BY <1>1
       DEF IInv, HoldInv, Interpreting, TakesRegistryLock, Embedded, wsVars, lock,
           route
  <1> SUFFICES ASSUME NEW t \in Threads, Steps(t) PROVE HoldInv'
    BY <1>1 DEF WsNext, Steps
  <1>2. TypeOK /\ HoldInv
    BY DEF IInv
  <1>3. owner' # NoThread => queue' # <<>> /\ Head(queue') = owner'
    BY <1>2, StepsOfTheLock, LockSteps DEF HoldInv
  <1>4. UNCHANGED <<server, clauses>>
    BY RouteStays
  <1>5. \A u \in Threads : owner = u /\ u # t => owner' = u
    BY <1>2, StepsOfTheLock, LockSteps DEF WebSocketAssumption
  <1>6. ASSUME NEW u \in Threads \ {t}
        PROVE  /\ at'[u] \in {"line", "glock"} => event'[u] \in Events
               /\ at'[u] = "line" => Embedded
               /\ at'[u] = "glock" /\ Embedded => owner' = u /\ event'[u] # "http"
               /\ Interpreting(u)' =>
                     /\ event'[u] \in Events \ {"connect"}
                     /\ Embedded => owner' = u
                     /\ TakesRegistryLock(event'[u]) => gl' = u
               /\ event'[u] = "message" => clauses # {}
    BY <1>2, <1>5, OthersStay DEF HoldInv, Interpreting
  <1> QED
    BY <1>2, <1>3, <1>4, <1>6, HoldsAfter
       DEF HoldInv, Embedded, TakesRegistryLock

-----------------------------------------------------------------------------
(* Who is inside the invoke lock of the embedded server, or finds or has     *)
(* taken g_lock in the separate one, is alone in handler code.               *)
LEMMA Alone ==
    ASSUME WebSocketAssumption, HoldInv, NEW t \in Threads,
           IF Embedded THEN owner \in {NoThread, t} ELSE gl \in {NoThread, t}
    PROVE  \A u \in Threads \ {t} : ~ Interpreting(u)
  <1> SUFFICES ASSUME NEW u \in Threads \ {t}, Interpreting(u) PROVE FALSE
    OBVIOUS
  <1>1. IF Embedded THEN owner = u ELSE gl = u
    BY DEF HoldInv, TakesRegistryLock
  <1> QED
    BY <1>1 DEF WebSocketAssumption

(* The steps that change the set-up of the handlers take place alone. *)
SetsUp(t) ==
    \/ HttpUnderGLock(t) \/ Connect(t) \/ Callback(t) \/ EndHttp(t)
    \/ \E how \in Outcomes : EndCallback(t, how)

LEMMA SetsUpAlone ==
    ASSUME WebSocketAssumption, IInv, NEW t \in Threads, SetsUp(t)
    PROVE  /\ \A u \in Threads \ {t} : ~ Interpreting(u)
           /\ at[t] \in {"glock", "body"}
  <1>1. CASE TakeGLock(t)
    BY <1>1, Alone DEF TakeGLock, IInv, HoldInv
  <1>2. CASE at[t] = "body"
    <2>1. IF Embedded THEN owner = t ELSE gl = t
      BY <1>2 DEF IInv, HoldInv, Interpreting, TakesRegistryLock
    <2> QED
      BY <1>2, <2>1, Alone DEF IInv
  <1> QED
    BY <1>1, <1>2
       DEF SetsUp, HttpUnderGLock, Connect, Callback, EndHttp, EndCallback,
           TakeGLock

(* Steps after which the same threads interpret the same events with the     *)
(* same set-up.                                                              *)
LEMMA SetUpUntouched ==
    ASSUME SetUpInv, NEW t \in Threads, UNCHANGED <<server, clauses>>,
           UNCHANGED <<body, running, invoking, saved, current, http, recovery>>,
           \A u \in Threads : Interpreting(u)' <=> Interpreting(u),
           \A u \in Threads : Interpreting(u) => event'[u] = event[u]
    PROVE  SetUpInv'
  BY DEF SetUpInv, HandlerSetUp, Interpreting, Swaps, HomeBody

(* When after a step one thread alone may interpret, the set-up has to be    *)
(* what that thread needs.                                                   *)
LEMMA SetUpOfOne ==
    ASSUME SetUpInv, NEW t \in Threads, UNCHANGED <<server, clauses>>,
           \A u \in Threads \ {t} : ~ Interpreting(u) /\ ~ Interpreting(u)',
           \A u \in Threads \ {t} : current'[u] = current[u],
           ~ Interpreting(t)' => ~ current'[t],
           Interpreting(t)' =>
               /\ http' = t /\ recovery' = t
               /\ invoking' = (event'[t] # "http")
               /\ current'[t] = (event'[t] # "http")
               /\ event'[t] # "http" =>
                     running'[t] = CASE event'[t] = "message" -> "message"
                                     [] event'[t] = "close" -> "close"
                                     [] clauses = {} -> "legacy"
                                     [] OTHER -> "open",
           Interpreting(t)' /\ event'[t] # "http" =>
               IF Swaps(event'[t]) THEN saved'[t] = HomeBody
                                   ELSE saved'[t] = "none" /\ body' = HomeBody,
           (Interpreting(t)' => event'[t] = "http") => ~ invoking' /\ body' = HomeBody
    PROVE  SetUpInv'
  <1>1. HomeBody' = HomeBody /\ \A e : Swaps(e)' <=> Swaps(e)
    BY DEF HomeBody, Swaps
  <1>2. HandlerSetUp'
    BY Zenon DEF HandlerSetUp, Interpreting
  <1>3. \A u \in Threads : ~ Interpreting(u)' => ~ current'[u]
    BY DEF SetUpInv
  <1>4. (\A u \in Threads : Interpreting(u)' => event'[u] = "http")
            => ~ invoking' /\ body' = HomeBody
    OBVIOUS
  <1>5. \A u \in Threads : Interpreting(u)' /\ event'[u] # "http" =>
            IF Swaps(event'[u]) THEN saved'[u] = HomeBody
                                ELSE saved'[u] = "none" /\ body' = HomeBody
    OBVIOUS
  <1> QED
    BY <1>1, <1>2, <1>3, <1>4, <1>5 DEF SetUpInv, Interpreting, Swaps

(* An HTTP request begins its handler when nobody else is in one. *)
LEMMA HttpBegins ==
    ASSUME WebSocketAssumption, IInv, NEW t \in Threads, Steps(t),
           \A u \in Threads \ {t} : ~ Interpreting(u), ~ Interpreting(t),
           at'[t] = "body", event'[t] = "http", http' = t, recovery' = t,
           UNCHANGED <<body, running, invoking, saved, current>>
    PROVE  SetUpInv'
  <1>1. UNCHANGED <<server, clauses>>
    BY RouteStays
  <1>2. \A u \in Threads \ {t} : ~ Interpreting(u)'
    BY OthersStay DEF IInv, Interpreting
  <1>3. invoking = FALSE /\ body = HomeBody /\ current[t] = FALSE
    BY DEF IInv, SetUpInv, TypeOK
  <1>4. SetUpInv
    BY DEF IInv
  <1> QED
    BY <1>1, <1>2, <1>3, <1>4, SetUpOfOne DEF Interpreting

(* A callback takes g_lock and sets up its handler, or ends at once. *)
LEMMA CallbackSetsUp ==
    ASSUME WebSocketAssumption, IInv, NEW t \in Threads, Steps(t), Callback(t)
    PROVE  SetUpInv'
  <1>1. UNCHANGED <<server, clauses>> /\ SetUpInv /\ TypeOK
    BY RouteStays DEF IInv
  <1>2. /\ \A u \in Threads \ {t} : ~ Interpreting(u) /\ ~ Interpreting(u)'
        /\ at[t] = "glock" /\ ~ Interpreting(t)
    BY <1>1, SetsUpAlone, OthersStay
       DEF SetsUp, Interpreting, Callback, TakeGLock
  <1>3. ~ invoking /\ body = HomeBody /\ ~ current[t]
    BY <1>1, <1>2 DEF SetUpInv
  <1>4. \A u \in Threads \ {t} : current'[u] = current[u]
    BY <1>1, OthersStay
  <1>5. /\ at \in [Threads -> Places] /\ saved \in [Threads -> Bodies]
        /\ running \in [Threads -> Bodies] /\ current \in [Threads -> BOOLEAN]
        /\ event \in [Threads -> Events \union {"none"}]
    BY <1>1 DEF TypeOK
  <1>6. CASE Runs(event[t])
    <2>1. /\ Guarded(t) /\ http' = t /\ event' = event
          /\ at' = [at EXCEPT ![t] = "body"]
      BY <1>6 DEF Callback, Goto
    <2>2. event[t] \in {"ready", "message", "close"}
      BY DEF Callback
    <2>3. running'[t] = CASE event[t] = "message" -> "message"
                          [] event[t] = "close" -> "close"
                          [] clauses = {} -> "legacy"
                          [] OTHER -> "open"
      <3>1. running'[t] = IF Swaps(event[t]) THEN SwapFor(event[t]) ELSE HomeBody
        BY <1>3, <1>5, <2>1 DEF Guarded
      <3>2. event[t] = "message" => clauses # {}
        BY DEF IInv, HoldInv
      <3> QED
        BY <1>3, <1>6, <2>2, <3>1, <3>2 DEF Runs, Swaps, SwapFor, HomeBody
    <2>4. IF Swaps(event[t]) THEN saved'[t] = HomeBody
                             ELSE saved'[t] = "none" /\ body' = HomeBody
      BY <1>3, <1>5, <2>1 DEF Guarded
    <2>5. recovery' = t /\ invoking' = TRUE /\ current'[t] = TRUE /\ at'[t] = "body"
      BY <1>5, <2>1 DEF Guarded
    <2> QED
      BY <1>1, <1>2, <1>4, <2>1, <2>2, <2>3, <2>4, <2>5, SetUpOfOne
         DEF Interpreting
  <1>7. CASE ~ Runs(event[t])
    <2>1. /\ UNCHANGED <<locals, body, running, recovery, invoking>>
          /\ at'[t] \in {"free", "loop"}
      BY <1>5, <1>7 DEF Callback, Goto, NextPlace
    <2> QED
      BY <1>1, <1>2, <1>3, <1>4, <2>1, SetUpOfOne DEF Interpreting, locals
  <1> QED
    BY <1>6, <1>7

(* A handler that ends puts everything back. *)
LEMMA HandlerEnds ==
    ASSUME WebSocketAssumption, IInv, NEW t \in Threads, Steps(t),
           EndHttp(t) \/ \E how \in Outcomes : EndCallback(t, how)
    PROVE  SetUpInv'
  <1>1. UNCHANGED <<server, clauses>> /\ SetUpInv /\ TypeOK
    BY RouteStays DEF IInv
  <1>2. /\ \A u \in Threads \ {t} : ~ Interpreting(u) /\ ~ Interpreting(u)'
        /\ Interpreting(t)
    BY <1>1, SetsUpAlone, OthersStay
       DEF SetsUp, Interpreting, EndHttp, EndCallback
  <1>3. \A u \in Threads \ {t} : current'[u] = current[u]
    BY <1>1, OthersStay
  <1>4. at \in [Threads -> Places] /\ current \in [Threads -> BOOLEAN]
    BY <1>1 DEF TypeOK
  <1>5. CASE EndHttp(t)
    <2>1. /\ at'[t] = "free" /\ event[t] = "http"
          /\ UNCHANGED <<body, invoking, current>>
      BY <1>4, <1>5 DEF EndHttp, Goto, locals
    <2>2. ~ invoking /\ body = HomeBody /\ ~ current[t]
      BY <1>1, <1>2, <2>1 DEF SetUpInv, HandlerSetUp, Interpreting
    <2> QED
      BY <1>1, <1>2, <1>3, <2>1, <2>2, SetUpOfOne DEF Interpreting
  <1>6. CASE \E how \in Outcomes : EndCallback(t, how)
    <2> PICK how \in Outcomes : EndCallback(t, how)
      BY <1>6
    <2>1. /\ at'[t] \in {"free", "loop"} /\ invoking' = FALSE /\ current'[t] = FALSE
          /\ event[t] # "http"
      BY <1>4 DEF EndCallback, Goto, NextPlace
    <2>2. body' = HomeBody
      BY <1>1, <1>2, <2>1 DEF EndCallback, PutBack, SetUpInv
    <2> QED
      BY <1>1, <1>2, <1>3, <2>1, <2>2, SetUpOfOne DEF Interpreting
  <1> QED
    BY <1>5, <1>6

LEMMA SetUpNext ==
    ASSUME WebSocketAssumption, IInv, [WsNext]_wsVars PROVE SetUpInv'
  <1>1. CASE UNCHANGED wsVars
    BY <1>1, SetUpUntouched
       DEF IInv, SetUpInv, HandlerSetUp, Interpreting, Swaps, HomeBody, wsVars,
           route, vm, locals
  <1> SUFFICES ASSUME NEW t \in Threads, Steps(t) PROVE SetUpInv'
    BY <1>1 DEF WsNext, Steps
  <1>2. SetUpInv /\ HoldInv /\ TypeOK /\ UNCHANGED <<server, clauses>>
    BY RouteStays DEF IInv
  <1>3. at \in [Threads -> Places] /\ event \in [Threads -> Events \union {"none"}]
    BY <1>2 DEF TypeOK
  <1>4. ASSUME UNCHANGED <<body, running, invoking, saved, current, http, recovery>>,
               Interpreting(t)' <=> Interpreting(t),
               Interpreting(t) => event'[t] = event[t]
        PROVE  SetUpInv'
    <2>1. \A u \in Threads : Interpreting(u)' <=> Interpreting(u)
      BY <1>2, <1>4, OthersStay DEF Interpreting
    <2>2. \A u \in Threads : Interpreting(u) => event'[u] = event[u]
      BY <1>2, <1>4, OthersStay
    <2> QED
      BY <1>2, <1>4, <2>1, <2>2, SetUpUntouched
  <1>5. CASE Caller(t)
    <2>1. PICK e \in Events : Call(t, e)
      BY <1>5 DEF Caller
    <2>2. ~ Interpreting(t) /\ UNCHANGED <<body, running, invoking, saved, current>>
      BY <1>2, <1>5, <2>1, Calls DEF Caller, Interpreting
    <2>3. CASE at'[t] \in {"line", "glock"}
      <3>1. UNCHANGED <<http, recovery>>
        BY <1>2, <1>3, <2>1, <2>3, Calls
      <3> QED
        BY <1>4, <2>2, <2>3, <3>1 DEF Interpreting
    <2>4. CASE at'[t] \notin {"line", "glock"}
      <3>1. /\ at'[t] = "body" /\ Embedded /\ e = "http" /\ Lock!Barge(t)
            /\ http' = t /\ recovery' = t /\ event'[t] = e
        BY <1>2, <1>3, <2>1, <2>4, Calls
      <3>2. owner = NoThread
        BY <1>2, <3>1 DEF HoldInv, Lock!Barge
      <3>3. \A u \in Threads \ {t} : ~ Interpreting(u)
        BY <1>2, <3>1, <3>2, Alone
      <3> QED
        BY <2>2, <3>1, <3>3, HttpBegins
    <2> QED
      BY <2>3, <2>4
  <1>6. CASE Quiet(t)
    <2>1. /\ at'[t] \in {"accepted", "loop", "frame", "free", "left"}
          /\ at[t] \in {"accepted", "loop", "frame"}
      BY <1>2, <1>3, <1>6, Quiets
    <2> QED
      BY <1>2, <1>4, <1>6, <2>1, Quiets DEF Interpreting
  <1>7. CASE Admitted(t)
    <2>1. /\ at[t] = "line" /\ owner = NoThread /\ event' = event
          /\ at'[t] = AfterLine(event[t]) /\ Embedded
      BY <1>2, <1>3, <1>7 DEF Admitted, Lock!Enter, Goto, HoldInv
    <2>2. \A u \in Threads \ {t} : ~ Interpreting(u)
      BY <1>2, <2>1, Alone
    <2>3. CASE event[t] = "http"
      <3>1. /\ at'[t] = "body" /\ http' = t /\ recovery' = t
            /\ UNCHANGED <<body, running, invoking, saved, current>>
        BY <1>7, <2>1, <2>3
           DEF Admitted, OpenHttp, AfterLine, TakesRegistryLock
      <3> QED
        BY <2>1, <2>2, <2>3, <3>1, HttpBegins DEF Interpreting
    <2>4. CASE event[t] # "http"
      <3>1. /\ at'[t] = "glock"
            /\ UNCHANGED <<body, running, invoking, saved, current, http, recovery>>
        BY <1>7, <2>1, <2>4
           DEF Admitted, AfterLine, TakesRegistryLock, vm, locals
      <3> QED
        BY <1>4, <2>1, <3>1 DEF Interpreting
    <2> QED
      BY <2>3, <2>4
  <1>8. CASE HttpUnderGLock(t)
    <2>1. /\ at[t] = "glock" /\ event'[t] = "http" /\ at'[t] = "body"
          /\ http' = t /\ recovery' = t
          /\ UNCHANGED <<body, running, invoking, saved, current>>
      BY <1>3, <1>8 DEF HttpUnderGLock, TakeGLock, OpenHttp, Goto
    <2>2. \A u \in Threads \ {t} : ~ Interpreting(u)
      BY <1>8, SetsUpAlone DEF SetsUp
    <2> QED
      BY <2>1, <2>2, HttpBegins DEF Interpreting
  <1>9. CASE Connect(t)
    <2>1. /\ at[t] = "glock" /\ at'[t] \in {"free", "accepted"}
          /\ UNCHANGED <<body, running, invoking, saved, current, recovery>>
      BY <1>3, <1>9 DEF Connect, TakeGLock, Goto, locals
    <2>2. /\ \A u \in Threads \ {t} : ~ Interpreting(u) /\ ~ Interpreting(u)'
          /\ \A u \in Threads \ {t} : current'[u] = current[u]
      BY <1>2, <1>9, SetsUpAlone, OthersStay DEF SetsUp, Interpreting
    <2>3. ~ invoking /\ body = HomeBody /\ ~ current[t]
      BY <1>2, <2>1, <2>2 DEF SetUpInv, Interpreting
    <2> QED
      BY <1>2, <2>1, <2>2, <2>3, SetUpOfOne DEF Interpreting
  <1>10. CASE Snapshot(t) \/ Write(t)
    <2>1. at[t] \in {"bcast", "write"} /\ at'[t] \in {"write", "body"}
      BY <1>3, <1>10 DEF Snapshot, Write, Goto
    <2> QED
      BY <1>4, <1>10, <2>1 DEF Snapshot, Write, Interpreting, vm, locals
  <1>11. CASE \E c \in Channels : Subscribe(t, c) \/ Broadcast(t, c)
    <2>1. at[t] = "body" /\ at'[t] \in {"body", "bcast"}
      BY <1>3, <1>11 DEF Subscribe, Broadcast, MayRun, Goto
    <2> QED
      BY <1>4, <1>11, <2>1 DEF Subscribe, Broadcast, Interpreting, vm
  <1> QED
    BY <1>2, <1>5, <1>6, <1>7, <1>8, <1>9, <1>10, <1>11, StepKinds, CallbackSetsUp,
       HandlerEnds

(* The registry loses a connection only while nobody writes to any. *)
LEMMA TargetNext ==
    ASSUME WebSocketAssumption, IInv, [WsNext]_wsVars PROVE TargetInv'
  <1>1. CASE UNCHANGED wsVars
    BY <1>1 DEF IInv, TargetInv, TargetsStillOpen, wsVars, broadcast, registry
  <1> SUFFICES ASSUME NEW t \in Threads, Steps(t) PROVE TargetInv'
    BY <1>1 DEF WsNext, Steps
  <1>2. TargetInv /\ TypeOK
    BY DEF IInv
  <1>3. /\ at \in [Threads -> Places] /\ targets \in [Threads -> SUBSET Threads]
    BY <1>2 DEF TypeOK
  <1>4. ASSUME targets'[t] \subseteq conns',
               at'[t] # "write" => targets'[t] = {},
               \/ conns \subseteq conns'
               \/ \A u \in Threads \ {t} : ~ Interpreting(u)
        PROVE  TargetInv'
    <2>1. ASSUME NEW u \in Threads \ {t}
          PROVE  targets'[u] \subseteq conns' /\ (at'[u] # "write" => targets'[u] = {})
      BY <1>2, <1>4, OthersStay DEF TargetInv, TargetsStillOpen, Interpreting
    <2> QED
      BY <1>4, <2>1 DEF TargetInv, TargetsStillOpen
  <1>5. CASE SetsUp(t)
    <2>1. /\ \A u \in Threads \ {t} : ~ Interpreting(u)
          /\ at[t] \in {"glock", "body"}
      BY <1>5, SetsUpAlone
    <2>2. UNCHANGED targets
      BY <1>5
         DEF SetsUp, HttpUnderGLock, Connect, Callback, EndHttp, EndCallback,
             broadcast
    <2>3. targets[t] = {}
      BY <1>2, <2>1 DEF TargetInv
    <2> QED
      BY <1>4, <2>1, <2>2, <2>3
  <1>6. CASE Caller(t) \/ Quiet(t)
    <2>1. UNCHANGED <<targets, conns>> /\ at[t] # "write"
      BY <1>2, <1>6, Calls, Quiets DEF Caller
    <2> QED
      BY <1>2, <1>4, <2>1 DEF TargetInv, TargetsStillOpen
  <1>7. CASE Admitted(t) \/ \E c \in Channels : Subscribe(t, c) \/ Broadcast(t, c)
    <2>1. UNCHANGED <<targets, conns>> /\ at[t] # "write"
      BY <1>7
         DEF Admitted, Subscribe, Broadcast, MayRun, broadcast, registry
    <2> QED
      BY <1>2, <1>4, <2>1 DEF TargetInv, TargetsStillOpen
  <1>8. CASE Snapshot(t)
    <2>1. /\ targets'[t] \subseteq conns /\ at'[t] = "write" /\ UNCHANGED conns
      BY <1>3, <1>8 DEF Snapshot, Goto, registry
    <2> QED
      BY <1>4, <2>1
  <1>9. CASE Write(t)
    <2>1. /\ targets'[t] \subseteq targets[t] /\ UNCHANGED conns
          /\ at'[t] # "write" => targets'[t] = {}
      BY <1>3, <1>9 DEF Write, Goto, registry
    <2> QED
      BY <1>2, <1>4, <2>1 DEF TargetInv, TargetsStillOpen
  <1> QED
    BY <1>2, <1>5, <1>6, <1>7, <1>8, <1>9, StepKinds DEF SetsUp

(* The inductive invariant holds in every reachable state. *)
LEMMA Invariant ==
    ASSUME WebSocketAssumption PROVE WsSpec => []IInv
  <1>1. WsInit => IInv
    BY InitInv
  <1>2. IInv /\ [WsNext]_wsVars => IInv'
    BY TypeNext, HoldNext, SetUpNext, TargetNext DEF IInv
  <1> QED
    BY <1>1, <1>2, PTL DEF WsSpec

(* Every variable keeps its type, and handler code holds the lock of its     *)
(* server: the invoke lock, or g_lock.                                       *)
THEOREM HandlersHoldLocks ==
    ASSUME WebSocketAssumption PROVE WsSpec => [](TypeOK /\ HoldInv)
  <1>1. IInv => TypeOK /\ HoldInv
    BY DEF IInv
  <1> QED
    BY <1>1, Invariant, PTL

(* A handler of an HTTP request or of a callback runs with the request       *)
(* context, the recovery point, the body and the flags of its own event,     *)
(* whatever other connections do meanwhile.                                  *)
THEOREM HandlersSetUp ==
    ASSUME WebSocketAssumption PROVE WsSpec => []HandlerSetUp
  <1>1. IInv => HandlerSetUp
    BY DEF IInv, SetUpInv
  <1> QED
    BY <1>1, Invariant, PTL

(* Every connection a broadcast has yet to write to is registered, although  *)
(* the broadcast released g_lock after it had collected them.                *)
THEOREM BroadcastsReachOpen ==
    ASSUME WebSocketAssumption PROVE WsSpec => []TargetsStillOpen
  <1>1. IInv => TargetsStillOpen
    BY DEF IInv, TargetInv
  <1> QED
    BY <1>1, Invariant, PTL
=============================================================================
