------------------------------- MODULE DbPool -------------------------------
(***************************************************************************)
(* The connection tables of the database bridges: ten slots an engine,      *)
(* numbers as handles, a close at the end of every request, and for MySQL   *)
(* with TYPEEASY_MYSQL_POOL=1 the reuse of idle connections                 *)
(* (src/src/mysql_bridge.c, postgres_bridge.c, sqlserver_bridge.c,          *)
(* plugins/sqlite).  One engine, requests one after the other; a connection *)
(* is the number of its socket.                                             *)
(***************************************************************************)
EXTENDS Naturals, FiniteSets, FiniteSetsExt

CONSTANTS Slots,       \* 0..9 in the code
          Keys,        \* host|user|db|port
          NoKey,
          MaxConns,    \* bound: sockets ever opened
          MaxRequests  \* bound: requests

ASSUME DbPoolAssumption ==
    /\ Slots \subseteq Nat /\ IsFiniteSet(Slots) /\ NoKey \notin Keys
    /\ MaxConns \in Nat /\ MaxRequests \in Nat

VARIABLES
    pooled,      \* TYPEEASY_MYSQL_POOL; the other engines have no pool
    phase,       \* db_request_phase
    req,         \* who runs: a request, Load, or Idle
    requests,
    slots,       \* connections, pool_keys, pool_in_use, conn_req_scoped
    opened,
    dead,        \* sockets the server has closed
    tx,          \* who has left a transaction open on a socket
    handles      \* what mysql_connect has returned, until it is closed

dbVars == <<pooled, phase, req, requests, slots, opened, dead, tx, handles>>

Load == 0
Idle == MaxRequests + 1
NoTx == MaxRequests + 2
Socket == 1..MaxConns
Empty == [conn |-> 0, key |-> NoKey, inUse |-> FALSE, scoped |-> FALSE]
Used == {i \in Slots : slots[i].conn # 0}

DbInit ==
    /\ pooled \in BOOLEAN /\ phase = FALSE /\ req = Load /\ requests = 0
    /\ slots = [i \in Slots |-> Empty]
    /\ opened = 0 /\ dead = {} /\ tx = [c \in Socket |-> NoTx]
    /\ handles = {}

(* Faulty variant: the transaction stays open. *)
KeepSession(cs) == tx

(* pool_reset_session: ROLLBACK and autocommit.  Closing a socket makes the  *)
(* server roll back too.                                                     *)
ResetSession(cs) == [c \in Socket |-> IF c \in cs THEN NoTx ELSE tx[c]]

-----------------------------------------------------------------------------
(* mysql_connect.                                                           *)

(* Faulty variant: a connection that is in use may be handed out. *)
AnyOfKey(k) == {i \in Used : pooled /\ slots[i].key = k}

IdleOfKey(k) == {i \in Used : pooled /\ slots[i].key = k /\ ~ slots[i].inUse}

Live(k) == {i \in IdleOfKey(k) : slots[i].conn \notin dead}

(* Idle connections that do not answer the ping are dropped on the way. *)
Dropped(k) == {i \in IdleOfKey(k) \ Live(k) : \A j \in Live(k) : i < j}

(* Faulty variant: only a new connection is marked as the request's. *)
ReuseOf(i) == [slots[i] EXCEPT !.inUse = TRUE]

Reused(i) == [slots[i] EXCEPT !.inUse = TRUE, !.scoped = phase]

Reuse(k) ==
    LET i == Min(Live(k)) IN
    /\ Live(k) # {}
    /\ slots' = [j \in Slots |-> IF j \in Dropped(k) THEN Empty
                                 ELSE IF j = i THEN Reused(i) ELSE slots[j]]
    /\ tx' = ResetSession({slots[i].conn})
    /\ handles' = handles \union {[owner |-> req, slot |-> i, conn |-> slots[i].conn]}
    /\ UNCHANGED opened

(* A new connection: no slot, or an error of the server, returns -1. *)
Open(k) ==
    LET kept == [j \in Slots |-> IF j \in Dropped(k) THEN Empty ELSE slots[j]]
        free == {j \in Slots : kept[j].conn = 0}
        c == opened + 1
    IN
    /\ Live(k) = {}
    /\ \/ /\ free # {} /\ c \in Socket
          /\ slots' = [kept EXCEPT ![Min(free)] =
                          [conn |-> c, key |-> IF pooled THEN k ELSE NoKey,
                           inUse |-> pooled, scoped |-> phase]]
          /\ opened' = c
          /\ handles' = handles \union {[owner |-> req, slot |-> Min(free), conn |-> c]}
       \/ slots' = kept /\ UNCHANGED <<opened, handles>>
    /\ UNCHANGED tx

DbConnect(k) ==
    /\ req # Idle
    /\ Reuse(k) \/ Open(k)
    /\ UNCHANGED <<pooled, phase, req, requests, dead>>

-----------------------------------------------------------------------------
(* mysql_query, mysql_close.  A script uses its own handles and the global  *)
(* ones, and closes a handle at most once.                                  *)

Mine == {h \in handles : h.owner \in {req, Load}}

(* A statement begins or ends a transaction, or does neither. *)
Query(h, after) ==
    /\ req # Idle /\ h \in Mine
    /\ slots[h.slot].conn \notin dead
    /\ tx' = [tx EXCEPT ![slots[h.slot].conn] = IF after = "open" THEN req
                                                 ELSE IF after = "closed" THEN NoTx ELSE @]
    /\ UNCHANGED <<pooled, phase, req, requests, slots, opened, dead, handles>>

(* Back to the pool, or closed. *)
Released(i) == IF pooled /\ slots[i].key # NoKey
               THEN [slots[i] EXCEPT !.inUse = FALSE, !.scoped = FALSE]
               ELSE Empty

Close(h) ==
    /\ req # Idle /\ h \in Mine
    /\ slots' = [slots EXCEPT ![h.slot] = Released(h.slot)]
    /\ tx' = ResetSession({slots[h.slot].conn})
    /\ handles' = handles \ {h}
    /\ UNCHANGED <<pooled, phase, req, requests, opened, dead>>

-----------------------------------------------------------------------------
(* The requests.                                                            *)

(* runtime_save_initial_var_count, once the script is loaded. *)
LoadEnds ==
    /\ req = Load /\ req' = Idle /\ phase' = TRUE
    /\ UNCHANGED <<pooled, requests, slots, opened, dead, tx, handles>>

BeginRequest ==
    /\ req = Idle /\ requests < MaxRequests
    /\ requests' = requests + 1 /\ req' = requests + 1
    /\ UNCHANGED <<pooled, phase, slots, opened, dead, tx, handles>>

LeftOpen == {i \in Used : slots[i].scoped}

(* mysql_close_request_conns, from runtime_reset_vars_to_initial_state: at   *)
(* a return, an uncaught throw and a fatal error alike.                      *)
EndRequest ==
    /\ req \notin {Load, Idle} /\ req' = Idle
    /\ slots' = [i \in Slots |-> IF i \in LeftOpen THEN Released(i) ELSE slots[i]]
    /\ tx' = ResetSession({slots[i].conn : i \in LeftOpen})
    /\ handles' = {h \in handles : h.owner = Load}
    /\ UNCHANGED <<pooled, phase, requests, opened, dead>>

(* wait_timeout, a restart of the server: the transaction is gone with it. *)
Dies(c) ==
    /\ c <= opened /\ c \notin dead
    /\ dead' = dead \union {c} /\ tx' = [tx EXCEPT ![c] = NoTx]
    /\ UNCHANGED <<pooled, phase, req, requests, slots, opened, handles>>

DbNext ==
    \/ LoadEnds \/ BeginRequest \/ EndRequest
    \/ \E k \in Keys : DbConnect(k)
    \/ \E h \in handles : Close(h) \/ \E after \in {"open", "closed", "same"} : Query(h, after)
    \/ \E c \in Socket : Dies(c)

DbSpec == DbInit /\ [][DbNext]_dbVars

-----------------------------------------------------------------------------
(* "una transacción que el script dejó abierta ... se descarta y nunca la    *)
(* hereda el siguiente request" (src/docs/API_BUILTINS.md:178-179): an open  *)
(* transaction is the running request's, or on a connection of the script's  *)
(* global variables, which no request has released.                          *)
TxNotInherited ==
    \A i \in Used : tx[slots[i].conn] \notin {NoTx, req}
        => \E h \in handles : h.owner = Load /\ h.conn = slots[i].conn

(* A handle names its own connection until it is closed, and nobody else's:  *)
(* neither a reuse, a dropped connection nor the end of a request takes it   *)
(* away ("Las conexiones globales no se tocan", mysql_bridge.c:1333).        *)
HandlesHold ==
    \A h \in handles :
        /\ slots[h.slot].conn = h.conn
        /\ \A g \in handles \ {h} : g.slot # h.slot
        /\ pooled => slots[h.slot].inUse

(* "Evita fugas que acumulan conexiones request-tras-request"                *)
(* (src/src/ast.c:2184): a slot is taken for good only by a connection of    *)
(* the load; every other is empty or idle when no request runs.              *)
NothingLeaks ==
    req = Idle => \A i \in Used : \/ pooled /\ ~ slots[i].inUse
                                  \/ \E h \in handles : h.conn = slots[i].conn
=============================================================================
