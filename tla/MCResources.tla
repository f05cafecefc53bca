---------------------------- MODULE MCResources -----------------------------
(* What scripts hold outside the VM, one kind to a behaviour: connections   *)
(* to a database, WebSocket connections, the rows of a file that threads    *)
(* read, the columns that mirror them.                                      *)
EXTENDS DbPool, MCCsvLoad, MCWebSocket, MCColCache

CONSTANTS k1, k2

MCSlots == 0..1
MCKeys == {k1, k2}

VARIABLE front

vars == <<dbVars, csvVars, wsVars, colVars, front>>

Db(A) == front = "db" /\ A /\ UNCHANGED <<front, csvVars, wsVars, colVars>>
Csv(A) == front = "csv" /\ A /\ UNCHANGED <<front, dbVars, wsVars, colVars>>
Ws(A) == front = "ws" /\ A /\ UNCHANGED <<front, dbVars, csvVars, colVars>>
Columns(A) == front = "columns" /\ A /\ UNCHANGED <<front, dbVars, csvVars, wsVars>>

FirstFile == file = <<"n">> /\ mode = "rows" /\ n = 1

FirstRows == /\ \A o \in Objects : value[o] = 0
             /\ \E o \in Objects : owning[o] = Base

Init == /\ front \in {"db", "csv", "ws", "columns"}
        /\ DbInit /\ CsvInit /\ WsInit /\ ColInit
        /\ front # "db" => ~pooled
        /\ front # "csv" => FirstFile
        /\ front # "ws" => server = "embedded" /\ clauses = {}
        /\ front # "columns" => FirstRows
Next == Db(DbNext) \/ Csv(CsvNext) \/ Ws(WsNext) \/ Columns(ColNext)

(* A connection that has not come owes no step.                             *)
Spec == Init /\ [][Next]_vars /\ WsFairness
=============================================================================
