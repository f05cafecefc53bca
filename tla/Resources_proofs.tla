-------------------------- MODULE Resources_proofs --------------------------
(***************************************************************************)
(* Proofs about DbPool for every set of slots and keys, every number of    *)
(* sockets and requests, with the pool on and off: a handle keeps its own  *)
(* connection, no transaction reaches the next request, and no slot leaks; *)
(* about ColCache for every file, every set of views and values: what the  *)
(* columns of a list say is what its rows hold; and about CsvLoad for      *)
(* every file, number of threads and schedule: columns and objects are the *)
(* same rows, and a dataframe has the rows of its file.                    *)
(***************************************************************************)
EXTENDS DbPool, ColCache, CsvLoad, Integers, SequenceTheorems, FiniteSetTheorems,
        WellFoundedInduction, TLAPS

-----------------------------------------------------------------------------
(* DbPool: the connections of a database.                                   *)
Slot == [conn : 0 .. MaxConns, key : Keys \union {NoKey}, inUse : BOOLEAN,
         scoped : BOOLEAN]
Handle == [owner : 0 .. MaxRequests, slot : Slots, conn : Socket]

TypeOK ==
    /\ pooled \in BOOLEAN /\ phase \in BOOLEAN
    /\ req \in 0 .. Idle /\ requests \in 0 .. MaxRequests
    /\ slots \in [Slots -> Slot]
    /\ opened \in 0 .. MaxConns /\ dead \in SUBSET Socket
    /\ tx \in [Socket -> 0 .. NoTx]
    /\ handles \in SUBSET Handle

(* A socket is in one slot; a slot of the pool has a key, and without the    *)
(* pool no slot has one or is marked as in use.                              *)
SlotsInv ==
    /\ \A i, j \in Used : i # j => slots[i].conn # slots[j].conn
    /\ \A i \in Used : slots[i].conn \in 1 .. opened
    /\ \A i \in Used : IF pooled THEN slots[i].key # NoKey
                                 ELSE slots[i].key = NoKey /\ ~ slots[i].inUse

(* Handles hold, those that are out are the load's and the running request's, *)
(* and only the running request's are marked for the close at its end.        *)
HandlesInv ==
    /\ HandlesHold
    /\ phase = (req # Load)
    /\ \A h \in handles : /\ h.owner \in {Load, req}
                          /\ slots[h.slot].scoped = (h.owner # Load)

(* A slot that is not idle in the pool has a handle. *)
TakenInv ==
    \A i \in Used : ~ pooled \/ slots[i].inUse => \E h \in handles : h.slot = i

(* A transaction is open on a connection with a handle, the load's or the    *)
(* one of the request that began it; a socket not yet opened has none.       *)
TxInv ==
    /\ \A c \in Socket : c > opened => tx[c] = NoTx
    /\ \A i \in Used : tx[slots[i].conn] # NoTx =>
           \E h \in handles : /\ h.slot = i
                              /\ h.owner = Load \/ tx[slots[i].conn] = req

IInv == TypeOK /\ SlotsInv /\ HandlesInv /\ TakenInv /\ TxInv

-----------------------------------------------------------------------------
(* A set of slots that is not empty has a first one. *)
LEMMA FirstSlot ==
    ASSUME DbPoolAssumption, NEW S \in SUBSET Slots, S # {}
    PROVE  Min(S) \in S
  <1>1. S \subseteq Nat
    BY DEF DbPoolAssumption
  <1>2. PICK x \in S : \A y \in S : ~ (<<y, x>> \in OpToRel(<, Nat))
    BY <1>1, WFMin, NatLessThanWellFounded, Zenon
  <1>3. \A y \in S : ~ (y < x)
    BY <1>1, <1>2, Zenon DEF OpToRel
  <1>4. \A y \in S : x <= y
    BY <1>1, <1>3
  <1> QED
    BY <1>4, Zenon DEF Min

(* What the end of a request and a close make of a slot: it goes back to     *)
(* the pool, idle, or becomes empty.                                         *)
LEMMA ReleasedSlot ==
    ASSUME DbPoolAssumption, IInv, NEW i \in Used
    PROVE  /\ Released(i) \in Slot
           /\ IF pooled
              THEN /\ Released(i).conn = slots[i].conn
                   /\ Released(i).key = slots[i].key
                   /\ ~ Released(i).inUse /\ ~ Released(i).scoped
              ELSE Released(i).conn = 0
  <1>1. slots[i] \in Slot /\ Empty \in Slot
    BY DEF IInv, TypeOK, Used, Empty, Slot, DbPoolAssumption
  <1>2. CASE pooled
    <2>1. slots[i].key # NoKey
      BY <1>2 DEF IInv, SlotsInv
    <2> QED
      BY <1>1, <1>2, <2>1 DEF Released, Slot
  <1>3. CASE ~ pooled
    BY <1>1, <1>3 DEF Released, Empty
  <1> QED
    BY <1>2, <1>3

(* A connect drops idle connections of the pool, and then nothing, or one    *)
(* slot is the new handle's: an idle one of the pool or an empty one.        *)
Idles == {i \in Used : pooled /\ ~ slots[i].inUse}

Unchanged(D) == \A j \in Slots : slots'[j] = IF j \in D THEN Empty ELSE slots[j]

Handed(D, i, c) ==
    /\ i \in Slots /\ c \in Socket
    /\ \A j \in Slots \ {i} : slots'[j] = IF j \in D THEN Empty ELSE slots[j]
    /\ slots'[i].conn = c /\ slots'[i].scoped = phase
    /\ slots'[i] \in Slot
    /\ IF pooled THEN slots'[i].key # NoKey /\ slots'[i].inUse
                 ELSE slots'[i].key = NoKey /\ ~ slots'[i].inUse
    /\ handles' = handles \union {[owner |-> req, slot |-> i, conn |-> c]}

LEMMA Connects ==
    ASSUME DbPoolAssumption, IInv, NEW k \in Keys, DbConnect(k)
    PROVE  \E D \in SUBSET Idles :
              /\ slots' \in [Slots -> Slot] /\ req # Idle
              /\ UNCHANGED <<pooled, phase, req, requests, dead>>
              /\ \/ Unchanged(D) /\ UNCHANGED <<opened, handles, tx>>
                 \/ \E i \in Idles \ D :
                       /\ Handed(D, i, slots[i].conn)
                       /\ tx' = ResetSession({slots[i].conn}) /\ UNCHANGED opened
                 \/ \E i \in Slots :
                       /\ i \notin Used \/ i \in D
                       /\ Handed(D, i, opened + 1)
                       /\ opened' = opened + 1 /\ UNCHANGED tx
  <1>0. /\ slots \in [Slots -> Slot] /\ Empty \in Slot /\ opened \in Nat
        /\ MaxConns \in Nat /\ phase \in BOOLEAN
    BY DEF IInv, TypeOK, Empty, Slot, DbPoolAssumption
  <1>1. /\ Dropped(k) \in SUBSET Idles /\ Live(k) \in SUBSET Idles
        /\ Dropped(k) \cap Live(k) = {} /\ Live(k) \in SUBSET Slots
    BY DEF Dropped, Live, IdleOfKey, Idles, Used
  <1>2. UNCHANGED <<pooled, phase, req, requests, dead>> /\ req # Idle
    BY DEF DbConnect
  <1>3. CASE Reuse(k)
    <2> DEFINE i == Min(Live(k))
    <2>1. i \in Live(k)
      BY <1>1, <1>3, FirstSlot DEF Reuse
    <2>2. i \in Idles \ Dropped(k) /\ i \in Slots /\ pooled /\ slots[i].key # NoKey
      BY <1>1, <2>1 DEF Idles, IInv, SlotsInv
    <2>3. /\ slots' = [j \in Slots |-> IF j \in Dropped(k) THEN Empty
                                       ELSE IF j = i THEN Reused(i) ELSE slots[j]]
          /\ tx' = ResetSession({slots[i].conn}) /\ UNCHANGED opened
          /\ handles' = handles \union
                 {[owner |-> req, slot |-> i, conn |-> slots[i].conn]}
      BY <1>3 DEF Reuse
    <2> HIDE DEF i
    <2>4. slots[i] \in Slot /\ slots[i].conn \in Socket
      BY <1>0, <2>2 DEF Idles, Used, Slot, Socket
    <2>5. /\ Reused(i) \in Slot /\ Reused(i).conn = slots[i].conn
          /\ Reused(i).key = slots[i].key /\ Reused(i).inUse = TRUE
          /\ Reused(i).scoped = phase
      BY <1>0, <2>4 DEF Reused, Slot
    <2>6. slots' \in [Slots -> Slot]
      BY <1>0, <2>3, <2>5
    <2>7. Handed(Dropped(k), i, slots[i].conn)
      BY <2>2, <2>3, <2>4, <2>5 DEF Handed
    <2> QED
      BY <1>1, <1>2, <2>2, <2>3, <2>6, <2>7
  <1>4. CASE Open(k)
    <2> DEFINE kept == [j \in Slots |-> IF j \in Dropped(k) THEN Empty ELSE slots[j]]
               free == {j \in Slots : kept[j].conn = 0}
               c == opened + 1
    <2>1. kept \in [Slots -> Slot]
      BY <1>0
    <2>2. CASE slots' = kept /\ UNCHANGED <<opened, handles>>
      <3>1. Unchanged(Dropped(k)) /\ UNCHANGED tx
        BY <1>4, <2>2 DEF Unchanged, Open
      <3> QED
        BY <1>1, <1>2, <2>1, <2>2, <3>1
    <2>3. CASE ~ (slots' = kept /\ UNCHANGED <<opened, handles>>)
      <3> DEFINE i == Min(free)
                 new == [conn |-> c, key |-> IF pooled THEN k ELSE NoKey,
                         inUse |-> pooled, scoped |-> phase]
      <3>1. /\ free # {} /\ c \in Socket /\ slots' = [kept EXCEPT ![i] = new]
            /\ opened' = c /\ UNCHANGED tx
            /\ handles' = handles \union {[owner |-> req, slot |-> i, conn |-> c]}
        BY <1>4, <2>3 DEF Open
      <3>2. i \in free /\ free \in SUBSET Slots
        BY <3>1, FirstSlot
      <3>3. new \in Slot
        BY <1>0, <3>1 DEF Slot, Socket, IInv, TypeOK
      <3>4. i \notin Used \/ i \in Dropped(k)
        BY <3>2 DEF Used
      <3> HIDE DEF i
      <3>5. /\ slots' \in [Slots -> Slot] /\ slots'[i] = new
            /\ \A j \in Slots \ {i} : slots'[j] = kept[j]
        BY <2>1, <3>1, <3>2, <3>3
      <3>6. Handed(Dropped(k), i, c)
        BY <3>1, <3>2, <3>3, <3>5 DEF Handed, DbPoolAssumption, IInv, TypeOK
      <3> QED
        BY <1>1, <1>2, <3>1, <3>2, <3>4, <3>5, <3>6
    <2> QED
      BY <2>2, <2>3
  <1> QED
    BY <1>3, <1>4 DEF DbConnect

-----------------------------------------------------------------------------
LEMMA InitInv == ASSUME DbPoolAssumption, DbInit PROVE IInv
  <1>1. TypeOK
    <2>1. Empty \in Slot
      BY DEF Empty, Slot, DbPoolAssumption
    <2>2. /\ slots \in [Slots -> Slot] /\ tx \in [Socket -> 0 .. NoTx]
          /\ handles \in SUBSET Handle /\ dead \in SUBSET Socket
      BY <2>1 DEF DbInit, NoTx, DbPoolAssumption
    <2>3. /\ req \in 0 .. Idle /\ requests \in 0 .. MaxRequests
          /\ opened \in 0 .. MaxConns
      BY DEF DbInit, Load, Idle, DbPoolAssumption
    <2> QED
      BY <2>2, <2>3 DEF DbInit, TypeOK
  <1>2. Used = {}
    BY DEF DbInit, Used, Empty
  <1>3. \A c \in Socket : tx[c] = NoTx
    BY DEF DbInit
  <1> QED
    BY <1>1, <1>2, <1>3
       DEF DbInit, IInv, SlotsInv, HandlesInv, HandlesHold, TakenInv, TxInv

(* What every action does to the variables that are not the slots. *)
LEMMA SessionReset ==
    ASSUME DbPoolAssumption, TypeOK, NEW cs
    PROVE  /\ ResetSession(cs) \in [Socket -> 0 .. NoTx]
           /\ \A c \in Socket :
                 ResetSession(cs)[c] = IF c \in cs THEN NoTx ELSE tx[c]
  <1>1. NoTx \in 0 .. NoTx
    BY DEF DbPoolAssumption, NoTx
  <1> QED
    BY <1>1 DEF ResetSession, TypeOK

(* The end of a request releases what it left open. *)
LEMMA RequestEnds ==
    ASSUME DbPoolAssumption, IInv, EndRequest
    PROVE  /\ req # Load /\ req' = Idle
           /\ \A i \in Slots : slots'[i] = IF i \in Used /\ slots[i].scoped
                                           THEN Released(i) ELSE slots[i]
           /\ slots' \in [Slots -> Slot]
           /\ handles' = {h \in handles : h.owner = Load}
           /\ tx' \in [Socket -> 0 .. NoTx]
           /\ \A i \in Used : tx'[slots[i].conn] =
                 IF slots[i].scoped THEN NoTx ELSE tx[slots[i].conn]
           /\ \A c \in Socket : tx'[c] \in {NoTx, tx[c]}
           /\ UNCHANGED <<pooled, phase, requests, opened, dead>>
  <1>1. /\ req # Load /\ req' = Idle
        /\ slots' = [i \in Slots |-> IF i \in LeftOpen THEN Released(i) ELSE slots[i]]
        /\ tx' = ResetSession({slots[i].conn : i \in LeftOpen})
        /\ handles' = {h \in handles : h.owner = Load}
        /\ UNCHANGED <<pooled, phase, requests, opened, dead>>
    BY DEF EndRequest
  <1>2. slots \in [Slots -> Slot] /\ TypeOK
    BY DEF IInv, TypeOK
  <1>3. \A i \in Slots : slots'[i] = IF i \in Used /\ slots[i].scoped
                                     THEN Released(i) ELSE slots[i]
    BY <1>1, <1>2 DEF LeftOpen, Used
  <1>4. slots' \in [Slots -> Slot]
    BY <1>1, <1>2, ReleasedSlot DEF LeftOpen
  <1>5. \A i \in Used : slots[i].conn \in Socket
    BY <1>2 DEF Used, Slot, Socket, DbPoolAssumption
  <1>6. \A i \in Used : slots[i].conn \in {slots[j].conn : j \in LeftOpen}
                            <=> slots[i].scoped
    BY DEF LeftOpen, IInv, SlotsInv
  <1>7. /\ tx' \in [Socket -> 0 .. NoTx]
        /\ \A c \in Socket : tx'[c] = IF c \in {slots[j].conn : j \in LeftOpen}
                                      THEN NoTx ELSE tx[c]
    BY <1>1, <1>2, SessionReset
  <1>8. \A i \in Used : tx'[slots[i].conn] =
            IF slots[i].scoped THEN NoTx ELSE tx[slots[i].conn]
    BY <1>5, <1>6, <1>7
  <1> QED
    BY <1>1, <1>3, <1>4, <1>7, <1>8

(* A close releases the slot of its handle and forgets the handle. *)
LEMMA Closes ==
    ASSUME DbPoolAssumption, IInv, NEW h \in handles, Close(h)
    PROVE  /\ h.slot \in Used /\ slots[h.slot].conn = h.conn /\ h.conn \in Socket
           /\ slots'[h.slot] = Released(h.slot)
           /\ \A i \in Slots \ {h.slot} : slots'[i] = slots[i]
           /\ slots' \in [Slots -> Slot]
           /\ tx' \in [Socket -> 0 .. NoTx]
           /\ \A c \in Socket : tx'[c] = IF c = h.conn THEN NoTx ELSE tx[c]
           /\ handles' = handles \ {h}
           /\ UNCHANGED <<pooled, phase, req, requests, opened, dead>>
  <1>1. h \in Handle /\ slots \in [Slots -> Slot] /\ TypeOK
    BY DEF IInv, TypeOK
  <1>2. slots[h.slot].conn = h.conn /\ h.slot \in Slots /\ h.conn \in Socket
    BY <1>1 DEF IInv, HandlesInv, HandlesHold, Handle
  <1>3. h.slot \in Used
    BY <1>2 DEF Used, Socket, DbPoolAssumption
  <1>4. Released(h.slot) \in Slot
    BY <1>3, ReleasedSlot
  <1>5. slots' = [slots EXCEPT ![h.slot] = Released(h.slot)]
    BY DEF Close
  <1>6. /\ slots'[h.slot] = Released(h.slot)
        /\ \A i \in Slots \ {h.slot} : slots'[i] = slots[i]
        /\ slots' \in [Slots -> Slot]
    BY <1>1, <1>2, <1>4, <1>5
  <1>7. /\ tx' \in [Socket -> 0 .. NoTx]
        /\ \A c \in Socket : tx'[c] = IF c = h.conn THEN NoTx ELSE tx[c]
    BY <1>1, <1>2, SessionReset DEF Close
  <1> QED
    BY <1>2, <1>3, <1>6, <1>7 DEF Close

(* A statement touches the transaction of its own handle's connection. *)
LEMMA Queries ==
    ASSUME DbPoolAssumption, IInv, NEW h \in handles,
           NEW after \in {"open", "closed", "same"}, Query(h, after)
    PROVE  /\ h.slot \in Used /\ slots[h.slot].conn = h.conn /\ h.conn \in Socket
           /\ req # Idle /\ tx' \in [Socket -> 0 .. NoTx]
           /\ tx'[h.conn] \in {req, NoTx, tx[h.conn]}
           /\ \A c \in Socket \ {h.conn} : tx'[c] = tx[c]
           /\ UNCHANGED <<pooled, phase, req, requests, slots, opened, dead, handles>>
  <1>1. /\ h \in Handle /\ slots \in [Slots -> Slot]
        /\ tx \in [Socket -> 0 .. NoTx] /\ req \in 0 .. NoTx
    BY DEF IInv, TypeOK, Idle, NoTx, DbPoolAssumption
  <1>2. slots[h.slot].conn = h.conn /\ h.slot \in Slots /\ h.conn \in Socket
    BY <1>1 DEF IInv, HandlesInv, HandlesHold, Handle
  <1>3. h.slot \in Used
    BY <1>2 DEF Used, Socket, DbPoolAssumption
  <1>4. NoTx \in 0 .. NoTx
    BY DEF DbPoolAssumption, NoTx
  <1>5. \E v \in {req, NoTx, tx[h.conn]} : tx' = [tx EXCEPT ![h.conn] = v]
    BY <1>1, <1>2 DEF Query
  <1> QED
    BY <1>1, <1>2, <1>3, <1>4, <1>5 DEF Query

(* A socket that dies takes its transaction with it. *)
LEMMA Deaths ==
    ASSUME DbPoolAssumption, IInv, NEW c \in Socket, Dies(c)
    PROVE  /\ tx' \in [Socket -> 0 .. NoTx]
           /\ \A d \in Socket : tx'[d] \in {NoTx, tx[d]}
           /\ dead' \in SUBSET Socket
           /\ UNCHANGED <<pooled, phase, req, requests, slots, opened, handles>>
  BY DEF Dies, IInv, TypeOK, NoTx, DbPoolAssumption

LEMMA TypeNext ==
    ASSUME DbPoolAssumption, IInv, [DbNext]_dbVars PROVE TypeOK'
  <1>1. TypeOK /\ MaxConns \in Nat /\ MaxRequests \in Nat
    BY DEF IInv, DbPoolAssumption
  <1>2. CASE UNCHANGED dbVars
    BY <1>1, <1>2 DEF TypeOK, dbVars
  <1>3. CASE LoadEnds \/ BeginRequest
    <2>1. req' \in 0 .. Idle /\ requests' \in 0 .. MaxRequests
      BY <1>1, <1>3 DEF LoadEnds, BeginRequest, TypeOK, Idle
    <2> QED
      BY <1>1, <1>3, <2>1 DEF LoadEnds, BeginRequest, TypeOK
  <1>4. CASE EndRequest
    BY <1>1, <1>4, RequestEnds DEF TypeOK, Idle
  <1>5. ASSUME NEW k \in Keys, DbConnect(k) PROVE TypeOK'
    <2>1. PICK D \in SUBSET Idles :
              /\ slots' \in [Slots -> Slot] /\ req # Idle
              /\ UNCHANGED <<pooled, phase, req, requests, dead>>
              /\ \/ UNCHANGED <<opened, handles, tx>>
                 \/ \E i \in Idles \ D :
                       /\ Handed(D, i, slots[i].conn)
                       /\ tx' = ResetSession({slots[i].conn}) /\ UNCHANGED opened
                 \/ \E i \in Slots :
                       /\ Handed(D, i, opened + 1)
                       /\ opened' = opened + 1 /\ UNCHANGED tx
      BY <1>5, Connects, Zenon
    <2>2. ASSUME NEW i, NEW c, Handed(D, i, c) PROVE handles' \in SUBSET Handle
      <3>1. req \in 0 .. MaxRequests
        BY <1>1, <2>1 DEF TypeOK, Idle
      <3> QED
        BY <1>1, <2>2, <3>1 DEF Handed, Handle, TypeOK
    <2>3. ASSUME NEW i, Handed(D, i, opened + 1), opened' = opened + 1
          PROVE  opened' \in 0 .. MaxConns
      BY <1>1, <2>3 DEF Handed, Socket, TypeOK
    <2>4. tx' \in [Socket -> 0 .. NoTx]
      <3>1. \A i : ResetSession({slots[i].conn}) \in [Socket -> 0 .. NoTx]
        BY <1>1, SessionReset
      <3> QED
        BY <1>1, <2>1, <3>1 DEF TypeOK
    <2>5. handles' \in SUBSET Handle
      BY <1>1, <2>1, <2>2 DEF TypeOK
    <2>6. opened' \in 0 .. MaxConns
      BY <1>1, <2>1, <2>3 DEF TypeOK
    <2> QED
      BY <1>1, <2>1, <2>4, <2>5, <2>6 DEF TypeOK
  <1>6. ASSUME NEW h \in handles, Close(h) PROVE TypeOK'
    BY <1>1, <1>6, Closes DEF TypeOK
  <1>7. ASSUME NEW h \in handles, NEW after \in {"open", "closed", "same"},
               Query(h, after)
        PROVE  TypeOK'
    BY <1>1, <1>7, Queries DEF TypeOK
  <1>8. ASSUME NEW c \in Socket, Dies(c) PROVE TypeOK'
    BY <1>1, <1>8, Deaths DEF TypeOK
  <1> QED
    BY <1>2, <1>3, <1>4, <1>5, <1>6, <1>7, <1>8 DEF DbNext

-----------------------------------------------------------------------------
(* The parts of the invariant after each action. *)
Parts == SlotsInv /\ HandlesInv /\ TakenInv /\ TxInv

(* The load ends, a request begins: every handle that is out is the load's.  *)
LEMMA ChangeOfRequest ==
    ASSUME DbPoolAssumption, IInv, LoadEnds \/ BeginRequest
    PROVE  Parts'
  <1>1. /\ req \in {Load, Idle} /\ req' # Load /\ phase' = TRUE
        /\ UNCHANGED <<pooled, slots, opened, tx, handles>>
    <2>1. requests \in Nat /\ Idle # Load /\ phase = (req # Load)
      BY DEF IInv, TypeOK, HandlesInv, Idle, Load, DbPoolAssumption
    <2>2. CASE LoadEnds
      BY <2>1, <2>2 DEF LoadEnds
    <2>3. CASE BeginRequest
      <3>1. requests + 1 # Load
        BY <2>1 DEF Load
      <3> QED
        BY <2>1, <2>3, <3>1 DEF BeginRequest
    <2> QED
      BY <2>2, <2>3
  <1>2. \A h \in handles : h.owner = Load
    <2>1. \A h \in handles : h.owner \in 0 .. MaxRequests
      BY DEF IInv, TypeOK, Handle
    <2> QED
      BY <1>1, <2>1 DEF IInv, HandlesInv, Idle, DbPoolAssumption
  <1>3. Used' = Used
    BY <1>1 DEF Used
  <1>4. SlotsInv' /\ TakenInv'
    BY <1>1, <1>3 DEF IInv, SlotsInv, TakenInv
  <1>5. HandlesInv'
    BY <1>1, <1>2 DEF IInv, HandlesInv, HandlesHold
  <1>6. TxInv'
    BY <1>1, <1>2, <1>3 DEF IInv, TxInv
  <1> QED
    BY <1>4, <1>5, <1>6 DEF Parts

LEMMA QueryKeeps ==
    ASSUME DbPoolAssumption, IInv, NEW h \in handles,
           NEW after \in {"open", "closed", "same"}, Query(h, after)
    PROVE  Parts'
  <1>1. Used' = Used
    BY Queries DEF Used
  <1>2. SlotsInv' /\ TakenInv' /\ HandlesInv'
    BY <1>1, Queries DEF IInv, SlotsInv, TakenInv, HandlesInv, HandlesHold
  <1>3. \A i \in Used : slots[i].conn \in Socket
    BY DEF IInv, TypeOK, Slot, Used, Socket, DbPoolAssumption
  <1>4. TxInv'
    <2>1. ASSUME NEW c \in Socket, c > opened PROVE tx'[c] = NoTx
      <3>1. h.conn \in 1 .. opened
        BY Queries DEF IInv, SlotsInv
      <3>2. opened \in Nat
        BY DEF IInv, TypeOK
      <3>3. c # h.conn
        BY <2>1, <3>1, <3>2 DEF Socket
      <3> QED
        BY <2>1, <3>3, Queries DEF IInv, TxInv
    <2>2. ASSUME NEW i \in Used, tx'[slots[i].conn] # NoTx
          PROVE  \E g \in handles : /\ g.slot = i
                                    /\ g.owner = Load \/ tx'[slots[i].conn] = req
      <3>1. CASE i = h.slot
        <4>1. tx'[h.conn] = req \/ tx'[h.conn] = tx[h.conn]
          BY <2>2, <3>1, Queries
        <4> QED
          BY <2>2, <3>1, <4>1, Queries DEF IInv, TxInv
      <3>2. CASE i # h.slot
        <4>1. slots[i].conn # h.conn
          BY <3>2, Queries DEF IInv, SlotsInv
        <4> QED
          BY <1>3, <2>2, <4>1, Queries DEF IInv, TxInv
      <3> QED
        BY <3>1, <3>2
    <2> QED
      BY <1>1, <2>1, <2>2, Queries DEF TxInv
  <1> QED
    BY <1>2, <1>4 DEF Parts

LEMMA DeathKeeps ==
    ASSUME DbPoolAssumption, IInv, NEW c \in Socket, Dies(c) PROVE Parts'
  <1>1. Used' = Used
    BY Deaths DEF Used
  <1>2. SlotsInv' /\ TakenInv' /\ HandlesInv'
    BY <1>1, Deaths DEF IInv, SlotsInv, TakenInv, HandlesInv, HandlesHold
  <1>3. \A i \in Used : slots[i].conn \in Socket
    BY DEF IInv, TypeOK, Slot, Used, Socket, DbPoolAssumption
  <1>4. \A i \in Used : tx'[slots[i].conn] \in {NoTx, tx[slots[i].conn]}
    BY <1>3, Deaths
  <1>5. TxInv'
    BY <1>1, <1>4, Deaths DEF IInv, TxInv
  <1> QED
    BY <1>2, <1>5 DEF Parts

(* The end of a request: the slots of its handles are released, the load's   *)
(* handles and their slots stay as they are.                                 *)
LEMMA EndKeeps ==
    ASSUME DbPoolAssumption, IInv, EndRequest PROVE Parts'
  <1>1. /\ slots \in [Slots -> Slot] /\ handles \in SUBSET Handle
        /\ Used \in SUBSET Slots
    BY DEF IInv, TypeOK, Used
  <1>2. \A i \in Slots : slots'[i] = IF i \in Used /\ slots[i].scoped
                                     THEN Released(i) ELSE slots[i]
    BY RequestEnds
  <1>3. ASSUME NEW i \in Used'
        PROVE  /\ i \in Used /\ slots'[i].conn = slots[i].conn
               /\ slots'[i].key = slots[i].key
               /\ slots[i].scoped => pooled /\ ~ slots'[i].inUse
               /\ ~ slots[i].scoped => slots'[i] = slots[i]
    BY <1>2, ReleasedSlot DEF Used
  <1>4. \A h \in handles' : /\ h \in handles /\ h.owner = Load /\ h.slot \in Slots
                            /\ slots'[h.slot] = slots[h.slot]
    <2> TAKE h \in handles'
    <2>1. h \in handles /\ h.owner = Load /\ h.slot \in Slots
      BY <1>1, RequestEnds DEF Handle
    <2>2. ~ slots[h.slot].scoped
      BY <2>1 DEF IInv, HandlesInv
    <2> QED
      BY <1>2, <2>1, <2>2
  <1>5. SlotsInv'
    BY <1>3, RequestEnds DEF IInv, SlotsInv
  <1>6. HandlesInv'
    <2>1. Idle # Load
      BY DEF Idle, Load, DbPoolAssumption
    <2> QED
      BY <1>4, <2>1, RequestEnds DEF IInv, HandlesInv, HandlesHold
  <1>7. TakenInv'
    <2> SUFFICES ASSUME NEW i \in Used', ~ pooled \/ slots'[i].inUse
                 PROVE  \E h \in handles' : h.slot = i
      BY RequestEnds DEF TakenInv
    <2>1. i \in Used /\ ~ slots[i].scoped /\ slots'[i] = slots[i]
      BY <1>3
    <2>2. PICK h \in handles : h.slot = i
      BY <2>1 DEF IInv, TakenInv
    <2>3. h.owner = Load
      BY <2>1, <2>2 DEF IInv, HandlesInv
    <2> QED
      BY <2>2, <2>3, RequestEnds
  <1>8. TxInv'
    <2>1. \A c \in Socket : c > opened' => tx'[c] = NoTx
      BY RequestEnds DEF IInv, TxInv
    <2>2. ASSUME NEW i \in Used', tx'[slots'[i].conn] # NoTx
          PROVE  \E h \in handles' : h.slot = i /\ h.owner = Load
      <3>1. i \in Used /\ slots'[i].conn = slots[i].conn
        BY <1>3
      <3>2. ~ slots[i].scoped /\ tx[slots[i].conn] # NoTx
        BY <2>2, <3>1, RequestEnds
      <3>3. PICK h \in handles : h.slot = i
        BY <3>1, <3>2 DEF IInv, TxInv
      <3>4. h.owner = Load
        BY <3>2, <3>3 DEF IInv, HandlesInv
      <3> QED
        BY <3>3, <3>4, RequestEnds
    <2> QED
      BY <2>1, <2>2 DEF TxInv
  <1> QED
    BY <1>5, <1>6, <1>7, <1>8 DEF Parts

(* A close releases one slot; the others and their handles stay. *)
LEMMA CloseKeeps ==
    ASSUME DbPoolAssumption, IInv, NEW h \in handles, Close(h) PROVE Parts'
  <1>1. /\ slots \in [Slots -> Slot] /\ handles \in SUBSET Handle
        /\ Used \in SUBSET Slots
    BY DEF IInv, TypeOK, Used
  <1>2. ASSUME NEW i \in Used'
        PROVE  /\ i \in Used /\ slots'[i].conn = slots[i].conn
               /\ slots'[i].key = slots[i].key
               /\ i = h.slot => pooled /\ ~ slots'[i].inUse
               /\ i # h.slot => slots'[i] = slots[i]
    BY <1>1, Closes, ReleasedSlot DEF Used
  <1>3. \A g \in handles' : /\ g \in handles /\ g.slot # h.slot /\ g.slot \in Slots
                            /\ slots'[g.slot] = slots[g.slot]
    <2> TAKE g \in handles'
    <2>1. g \in handles /\ g # h /\ g.slot \in Slots
      BY <1>1, Closes DEF Handle
    <2>2. g.slot # h.slot
      BY <2>1 DEF IInv, HandlesInv, HandlesHold
    <2> QED
      BY <2>1, <2>2, Closes
  <1>4. SlotsInv'
    BY <1>2, Closes DEF IInv, SlotsInv
  <1>5. HandlesInv'
    BY <1>3, Closes DEF IInv, HandlesInv, HandlesHold
  <1>6. TakenInv'
    <2> SUFFICES ASSUME NEW i \in Used', ~ pooled \/ slots'[i].inUse
                 PROVE  \E g \in handles' : g.slot = i
      BY Closes DEF TakenInv
    <2>1. i \in Used /\ i # h.slot /\ slots'[i] = slots[i]
      BY <1>2
    <2>2. PICK g \in handles : g.slot = i
      BY <2>1 DEF IInv, TakenInv
    <2> QED
      BY <2>1, <2>2, Closes
  <1>7. TxInv'
    <2>1. \A c \in Socket : c > opened' => tx'[c] = NoTx
      BY Closes DEF IInv, TxInv
    <2>2. ASSUME NEW i \in Used', tx'[slots'[i].conn] # NoTx
          PROVE  \E g \in handles' : /\ g.slot = i
                                     /\ g.owner = Load \/ tx'[slots'[i].conn] = req'
      <3>1. i \in Used /\ slots'[i].conn = slots[i].conn /\ slots[i].conn \in Socket
        <4>1. i \in Used /\ slots'[i].conn = slots[i].conn
          BY <1>2
        <4>2. slots[i].conn \in Socket
          BY <1>1, <4>1 DEF Slot, Used, Socket, DbPoolAssumption
        <4> QED
          BY <4>1, <4>2
      <3>2. i # h.slot /\ tx'[slots[i].conn] = tx[slots[i].conn]
        BY <2>2, <3>1, Closes
      <3>3. PICK g \in handles : /\ g.slot = i
                                 /\ g.owner = Load \/ tx[slots[i].conn] = req
        BY <2>2, <3>1, <3>2 DEF IInv, TxInv
      <3>4. g \in handles'
        BY <3>2, <3>3, Closes
      <3> QED
        BY <3>1, <3>2, <3>3, <3>4, Closes
    <2> QED
      BY <2>1, <2>2 DEF TxInv
  <1> QED
    BY <1>4, <1>5, <1>6, <1>7 DEF Parts

(* Slots that are idle in the pool, or empty, have no handle. *)
LEMMA NoHandleOfIdle ==
    ASSUME DbPoolAssumption, IInv, NEW h \in handles
    PROVE  /\ h.slot \in Used \ Idles /\ slots[h.slot].conn = h.conn
           /\ h.slot \in Slots
  <1>1. h \in Handle /\ slots[h.slot].conn = h.conn
    BY DEF IInv, TypeOK, HandlesInv, HandlesHold
  <1>2. h.slot \in Used
    BY <1>1 DEF Used, Handle, Socket, DbPoolAssumption
  <1>3. h.slot \notin Idles
    BY DEF IInv, HandlesInv, HandlesHold, Idles
  <1> QED
    BY <1>1, <1>2, <1>3 DEF Handle

(* A connect that returns no handle has at most dropped idle connections. *)
LEMMA DropKeeps ==
    ASSUME DbPoolAssumption, IInv, NEW D \in SUBSET Idles, Unchanged(D),
           UNCHANGED <<pooled, phase, req, opened, handles, tx>>
    PROVE  Parts'
  <1>1. \A i \in Used' : i \in Used /\ i \notin D /\ slots'[i] = slots[i]
    BY DEF Unchanged, Used, Empty
  <1>2. \A h \in handles : slots'[h.slot] = slots[h.slot]
    BY NoHandleOfIdle DEF Unchanged
  <1>3. SlotsInv'
    BY <1>1 DEF IInv, SlotsInv
  <1>4. HandlesInv'
    BY <1>2 DEF IInv, HandlesInv, HandlesHold
  <1>5. TakenInv' /\ TxInv'
    BY <1>1 DEF IInv, TakenInv, TxInv
  <1> QED
    BY <1>3, <1>4, <1>5 DEF Parts

(* A connect that returns a handle gives it a slot that had none and a       *)
(* connection that is in no other slot, on which no transaction is open.     *)
LEMMA HandKeeps ==
    ASSUME DbPoolAssumption, IInv, NEW D \in SUBSET Idles, NEW i, NEW c,
           Handed(D, i, c), req # Idle, opened' \in {opened, opened + 1},
           i \in Idles \/ i \notin Used, c \in 1 .. opened',
           \A j \in Used \ {i} : slots[j].conn # c,
           UNCHANGED <<pooled, phase, req>>,
           tx'[c] = NoTx, \A d \in Socket \ {c} : tx'[d] = tx[d]
    PROVE  Parts'
  <1> DEFINE new == [owner |-> req, slot |-> i, conn |-> c]
  <1>1. /\ slots'[i].conn = c /\ slots'[i].scoped = phase /\ i \in Slots
        /\ handles' = handles \union {new} /\ c \in Socket
        /\ IF pooled THEN slots'[i].key # NoKey /\ slots'[i].inUse
                     ELSE slots'[i].key = NoKey /\ ~ slots'[i].inUse
    BY DEF Handed
  <1>2. \A j \in Used' \ {i} : j \in Used \ D /\ slots'[j] = slots[j]
    BY DEF Handed, Used, Empty
  <1>3. \A h \in handles : /\ slots'[h.slot] = slots[h.slot]
                           /\ h.slot # i /\ h.slot \in Slots
    BY NoHandleOfIdle DEF Handed
  <1>4. opened \in Nat
    BY DEF IInv, TypeOK
  <1>5. SlotsInv'
    <2>1. \A j \in Used' \ {i} : slots'[j].conn \in 1 .. opened /\ slots'[j].conn # c
      BY <1>2 DEF IInv, SlotsInv
    <2>2. \A j, k \in Used' : j # k => slots'[j].conn # slots'[k].conn
      BY <1>1, <1>2, <2>1 DEF IInv, SlotsInv
    <2>3. \A j \in Used' : slots'[j].conn \in 1 .. opened'
      BY <1>1, <1>4, <2>1
    <2>4. \A j \in Used' : IF pooled THEN slots'[j].key # NoKey
                           ELSE slots'[j].key = NoKey /\ ~ slots'[j].inUse
      BY <1>1, <1>2 DEF IInv, SlotsInv
    <2> QED
      BY <2>2, <2>3, <2>4 DEF SlotsInv
  <1>6. HandlesInv'
    <2>1. /\ new.owner = req /\ new.slot = i /\ new.conn = c
      OBVIOUS
    <2> HIDE DEF new
    <2>2. HandlesHold'
      BY <1>1, <1>3, <2>1 DEF IInv, HandlesInv, HandlesHold
    <2>3. phase = (req # Load)
      BY DEF IInv, HandlesInv
    <2>4. \A h \in handles' : /\ h.owner \in {Load, req}
                              /\ slots'[h.slot].scoped = (h.owner # Load)
      BY <1>1, <1>3, <2>1, <2>3 DEF IInv, HandlesInv
    <2> QED
      BY <2>2, <2>3, <2>4 DEF HandlesInv
  <1>7. TakenInv'
    <2>1. new \in handles' /\ new.slot = i
      BY <1>1
    <2> HIDE DEF new
    <2> SUFFICES ASSUME NEW j \in Used', ~ pooled \/ slots'[j].inUse
                 PROVE  \E h \in handles' : h.slot = j
      BY DEF TakenInv
    <2>2. CASE j = i
      BY <2>1, <2>2
    <2>3. CASE j # i
      <3>1. j \in Used /\ slots'[j] = slots[j]
        BY <1>2, <2>3
      <3> QED
        BY <1>1, <3>1 DEF IInv, TakenInv
    <2> QED
      BY <2>2, <2>3
  <1>8. TxInv'
    <2>1. ASSUME NEW d \in Socket, d > opened' PROVE tx'[d] = NoTx
      <3>1. d > opened
        BY <1>4, <2>1 DEF Socket
      <3> QED
        BY <2>1, <3>1 DEF IInv, TxInv
    <2>2. ASSUME NEW j \in Used', tx'[slots'[j].conn] # NoTx
          PROVE  \E h \in handles' : /\ h.slot = j
                                     /\ h.owner = Load \/ tx'[slots'[j].conn] = req
      <3>1. j # i
        BY <1>1, <2>2
      <3>2. j \in Used /\ slots'[j] = slots[j] /\ slots[j].conn \in Socket \ {c}
        BY <1>2, <3>1 DEF IInv, TypeOK, Slot, Used, Socket, DbPoolAssumption
      <3>3. tx'[slots[j].conn] = tx[slots[j].conn]
        BY <3>2
      <3> QED
        BY <1>1, <2>2, <3>2, <3>3 DEF IInv, TxInv
    <2> QED
      BY <2>1, <2>2 DEF TxInv
  <1> QED
    BY <1>5, <1>6, <1>7, <1>8 DEF Parts

LEMMA ConnectKeeps ==
    ASSUME DbPoolAssumption, IInv, NEW k \in Keys, DbConnect(k) PROVE Parts'
  <1>1. PICK D \in SUBSET Idles :
            /\ slots' \in [Slots -> Slot] /\ req # Idle
            /\ UNCHANGED <<pooled, phase, req, requests, dead>>
            /\ \/ Unchanged(D) /\ UNCHANGED <<opened, handles, tx>>
               \/ \E i \in Idles \ D :
                     /\ Handed(D, i, slots[i].conn)
                     /\ tx' = ResetSession({slots[i].conn}) /\ UNCHANGED opened
               \/ \E i \in Slots :
                     /\ i \notin Used \/ i \in D
                     /\ Handed(D, i, opened + 1)
                     /\ opened' = opened + 1 /\ UNCHANGED tx
    BY Connects, Zenon
  <1>2. opened \in Nat /\ TypeOK
    BY DEF IInv, TypeOK
  <1>3. CASE Unchanged(D) /\ UNCHANGED <<opened, handles, tx>>
    BY <1>1, <1>3, DropKeeps
  <1>4. ASSUME NEW i \in Idles \ D, Handed(D, i, slots[i].conn),
               tx' = ResetSession({slots[i].conn}), UNCHANGED opened
        PROVE  Parts'
    <2>1. i \in Used /\ slots[i].conn \in 1 .. opened /\ slots[i].conn \in Socket
      BY <1>4 DEF Idles, Handed, IInv, SlotsInv
    <2>2. \A j \in Used \ {i} : slots[j].conn # slots[i].conn
      BY <2>1 DEF IInv, SlotsInv
    <2>3. /\ tx'[slots[i].conn] = NoTx
          /\ \A d \in Socket \ {slots[i].conn} : tx'[d] = tx[d]
      BY <1>2, <1>4, <2>1, SessionReset
    <2> QED
      BY <1>1, <1>4, <2>1, <2>2, <2>3, HandKeeps
  <1>5. ASSUME NEW i \in Slots, i \notin Used \/ i \in D, Handed(D, i, opened + 1),
               opened' = opened + 1, UNCHANGED tx
        PROVE  Parts'
    <2>1. opened + 1 \in Socket
      BY <1>5 DEF Handed
    <2>2. \A j \in Used : slots[j].conn # opened + 1
      BY <1>2 DEF IInv, SlotsInv
    <2>3. tx'[opened + 1] = NoTx
      BY <1>2, <1>5, <2>1 DEF IInv, TxInv
    <2>4. opened + 1 \in 1 .. opened'
      BY <1>2, <1>5
    <2> QED
      BY <1>1, <1>5, <2>2, <2>3, <2>4, HandKeeps
  <1> QED
    BY <1>1, <1>3, <1>4, <1>5

(* The inductive invariant holds in every reachable state. *)
LEMMA Invariant ==
    ASSUME DbPoolAssumption PROVE DbSpec => []IInv
  <1>1. DbInit => IInv
    BY InitInv
  <1>2. IInv /\ [DbNext]_dbVars => IInv'
    <2> SUFFICES ASSUME IInv, [DbNext]_dbVars PROVE IInv'
      OBVIOUS
    <2>1. CASE UNCHANGED dbVars
      BY <2>1
         DEF IInv, TypeOK, SlotsInv, HandlesInv, HandlesHold, TakenInv, TxInv,
             Used, dbVars
    <2>2. CASE DbNext
      <3>1. Parts'
        BY <2>2, ChangeOfRequest, QueryKeeps, DeathKeeps, EndKeeps, CloseKeeps,
           ConnectKeeps
           DEF DbNext
      <3> QED
        BY <3>1, TypeNext DEF IInv, Parts
    <2> QED
      BY <2>1, <2>2
  <1> QED
    BY <1>1, <1>2, PTL DEF DbSpec

(* Every variable keeps its type. *)
THEOREM TypeCorrect ==
    ASSUME DbPoolAssumption PROVE DbSpec => []TypeOK
  <1>1. IInv => TypeOK
    BY DEF IInv
  <1> QED
    BY <1>1, Invariant, PTL

(* A handle names its own connection until it is closed: no reuse, no        *)
(* dropped connection and no end of another request takes it away.           *)
THEOREM HandlesAreKept ==
    ASSUME DbPoolAssumption PROVE DbSpec => []HandlesHold
  <1>1. IInv => HandlesHold
    BY DEF IInv, HandlesInv
  <1> QED
    BY <1>1, Invariant, PTL

(* A transaction that a request leaves open is rolled back at its end, or    *)
(* is on a connection of the script's global variables.                      *)
THEOREM TransactionsEnd ==
    ASSUME DbPoolAssumption PROVE DbSpec => []TxNotInherited
  <1>1. IInv => TxNotInherited
    <2> SUFFICES ASSUME IInv, NEW i \in Used, tx[slots[i].conn] \notin {NoTx, req}
                 PROVE  \E h \in handles : h.owner = Load /\ h.conn = slots[i].conn
      BY DEF TxNotInherited
    <2>1. PICK h \in handles : h.slot = i /\ h.owner = Load
      BY DEF IInv, TxInv
    <2> QED
      BY <2>1 DEF IInv, HandlesInv, HandlesHold
  <1> QED
    BY <1>1, Invariant, PTL

(* Between two requests every slot is empty, idle in the pool or the load's. *)
THEOREM SlotsComeBack ==
    ASSUME DbPoolAssumption PROVE DbSpec => []NothingLeaks
  <1>1. IInv => NothingLeaks
    <2> SUFFICES ASSUME IInv, NEW i \in Used, ~ pooled \/ slots[i].inUse
                 PROVE  \E h \in handles : h.conn = slots[i].conn
      BY DEF NothingLeaks
    <2>1. PICK h \in handles : h.slot = i
      BY DEF IInv, TakenInv
    <2> QED
      BY <2>1 DEF IInv, HandlesInv, HandlesHold
  <1> QED
    BY <1>1, Invariant, PTL

-----------------------------------------------------------------------------
(* ColCache: the columns of lists.                                          *)

(* The scripts that the code serves right: no assignment to an object of a  *)
(* prebuilt cache, one view of a list at a time, no request that ends while *)
(* a list of its own has columns.  The gates of the run are the same.       *)
Served == Owned /\ OneView /\ ~Ends

CacheRec == [cols : Seq(Values), lazy : BOOLEAN, mask : SUBSET Nat,
             parent : Lists \cup {NoList}, children : Seq(Lists)]

ColTypeOK == /\ live \subseteq Lists /\ Base \in live
             /\ rows \in [Lists -> Seq(Objects)]
             /\ value \in [Objects -> Values]
             /\ owning \in [Objects -> {Base, NoList}]

(* The columns are those of the rows, by themselves or through the mask.    *)
Mirrors(c) ==
    \A l \in DOMAIN c :
        IF c[l].lazy
        THEN /\ c[l].parent \in DOMAIN c /\ ~c[c[l].parent].lazy
             /\ Column(l) = Selected(Column(c[l].parent), c[l].mask)
        ELSE Column(l) = c[l].cols

(* Views and parents name each other.                                      *)
Linked(c) ==
    \A l \in DOMAIN c :
        /\ c[l].parent \in DOMAIN c \cup {NoList}
        /\ Len(c[l].children) <= 1
        /\ \A m \in Lists : (\E i \in 1 .. Len(c[l].children) : c[l].children[i] = m)
                            <=> m \in DOMAIN c /\ c[m].parent = l

(* Every list with columns comes from the file's, by filters.              *)
Rooted(c) ==
    \A S \in SUBSET DOMAIN c :
        /\ Base \in DOMAIN c => Base \in S
        /\ \A m \in DOMAIN c : c[m].parent \in S => m \in S
        => S = DOMAIN c

Typed(c) == DOMAIN c \subseteq Lists /\ c \in [DOMAIN c -> CacheRec]

CacheOK(c) == Typed(c) /\ Mirrors(c) /\ Linked(c) /\ Rooted(c)

ColInv == ColTypeOK /\ DOMAIN cache \subseteq live /\ CacheOK(cache)

-----------------------------------------------------------------------------
(* Every mask over a sequence has an enumeration from its first row to its  *)
(* last.                                                                    *)
Increasing(at) == \A j, k \in DOMAIN at : j < k => at[j] < at[k]

LEMMA Smallest ==
    ASSUME NEW S \in SUBSET Nat, S # {}
    PROVE  \E x \in S : \A y \in S : x <= y
  <1>1. PICK x \in S : \A y \in S : ~ (<<y, x>> \in OpToRel(<, Nat))
    BY WFMin, NatLessThanWellFounded, Zenon
  <1>2. \A y \in S : ~ (y < x)
    BY <1>1, Zenon DEF OpToRel
  <1> QED
    BY <1>2

LEMMA MaskFinite ==
    ASSUME NEW size \in Nat, NEW mask \in SUBSET (1 .. size)
    PROVE  IsFiniteSet(mask) /\ Cardinality(mask) \in Nat
  <1>1. IsFiniteSet(1 .. size)
    BY FS_Interval
  <1> QED
    BY <1>1, FS_Subset, FS_CardinalityType

LEMMA Enumerated ==
    ASSUME NEW size \in Nat, NEW mask \in SUBSET (1 .. size)
    PROVE  \E at \in [1 .. Cardinality(mask) -> mask] : Increasing(at)
  <1> DEFINE Good(m) == \E at \in [1 .. Cardinality(m) -> m] : Increasing(at)
             bad == {k \in Nat : \E m \in SUBSET (1 .. k) : ~ Good(m)}
  <1> SUFFICES ASSUME bad # {} PROVE FALSE
    BY Zenon
  <1>1. PICK k \in bad : \A y \in bad : k <= y
    BY Smallest
  <1>2. PICK m \in SUBSET (1 .. k) : ~ Good(m)
    BY <1>1
  <1>3. k \in Nat
    BY <1>1
  <1>6. ASSUME NEW r \in SUBSET (1 .. k - 1), k - 1 \in Nat PROVE Good(r)
    <2> SUFFICES ASSUME ~ Good(r) PROVE FALSE
      OBVIOUS
    <2>1. k - 1 \in bad
      BY <1>6
    <2>2. k <= k - 1
      BY <1>1, <2>1, Zenon
    <2> QED
      BY <1>3, <2>2
  <1>4. CASE k \notin m
    <2>1. m \in SUBSET (1 .. k - 1)
      BY <1>3, <1>4
    <2>2. k # 0
      <3> SUFFICES ASSUME k = 0 PROVE FALSE
        OBVIOUS
      <3>1. m = {}
        BY <1>3
      <3>2. Cardinality(m) = 0
        BY <3>1, FS_EmptySet
      <3> DEFINE at == [i \in 1 .. 0 |-> 0]
      <3>3. at \in [1 .. 0 -> m] /\ Increasing(at)
        BY DEF Increasing
      <3> QED
        BY <1>2, <3>2, <3>3
    <2>3. k - 1 \in Nat
      BY <1>3, <2>2
    <2> QED
      BY <1>2, <1>6, <2>1, <2>3, Zenon
  <1>5. CASE k \in m
    <2> DEFINE r == m \ {k}
               c == Cardinality(r)
    <2>1. r \in SUBSET (1 .. k - 1) /\ k - 1 \in Nat
      BY <1>3, <1>5
    <2>2. Good(r)
      BY <1>6, <2>1, Zenon
    <2>3. PICK at \in [1 .. c -> r] : Increasing(at)
      BY <2>2
    <2>4. c \in Nat /\ Cardinality(m) = c + 1
      <3>1. IsFiniteSet(r) /\ c \in Nat
        BY <2>1, MaskFinite
      <3>2. m = r \cup {k} /\ k \notin r
        BY <1>5
      <3> HIDE DEF r
      <3>3. Cardinality(r \cup {k}) = Cardinality(r) + 1
        BY <3>1, <3>2, FS_AddElement
      <3> QED
        BY <3>1, <3>2, <3>3
    <2> DEFINE b == [i \in 1 .. c + 1 |-> IF i = c + 1 THEN k ELSE at[i]]
    <2>5. b \in [1 .. c + 1 -> m]
      <3>1. \A i \in 1 .. c + 1 : i # c + 1 => i \in 1 .. c
        <4> HIDE DEF c
        <4> QED
          BY <2>4
      <3>2. \A i \in 1 .. c : at[i] \in r
        BY <2>3
      <3> QED
        BY <1>5, <3>1, <3>2
    <2>6. Increasing(b)
      <3> SUFFICES ASSUME NEW i \in 1 .. c + 1, NEW j \in 1 .. c + 1, i < j
                   PROVE  b[i] < b[j]
        BY DEF Increasing
      <3> HIDE DEF r, c
      <3>5. i \in 1 .. c /\ (j # c + 1 => j \in 1 .. c)
        BY <2>4
      <3>1. b[i] = at[i] /\ at[i] \in r
        BY <2>3, <2>4, <3>5
      <3>2. at[i] < k /\ at[i] \in Nat
        <4>1. at[i] \in 1 .. k - 1
          BY <2>1, <3>1, Zenon
        <4> QED
          BY <1>3, <4>1
      <3>3. CASE j = c + 1
        BY <3>1, <3>2, <3>3
      <3>4. CASE j # c + 1
        <4>1. j \in 1 .. c /\ b[j] = at[j]
          BY <3>4, <3>5
        <4> HIDE DEF b
        <4> QED
          BY <2>3, <3>1, <3>5, <4>1 DEF Increasing
      <3> QED
        BY <3>3, <3>4
    <2> QED
      BY <1>2, <2>4, <2>5, <2>6
  <1> QED
    BY <1>4, <1>5

(* The rows of a mask are rows. *)
LEMMA AscendingIs ==
    ASSUME NEW size \in Nat, NEW mask \in SUBSET (1 .. size)
    PROVE  /\ Cardinality(mask) \in Nat
           /\ Ascending(mask) \in [1 .. Cardinality(mask) -> mask]
  <1>1. \E at \in [1 .. Cardinality(mask) -> mask] :
            \A j, k \in DOMAIN at : j < k => at[j] < at[k]
    BY Enumerated DEF Increasing
  <1>2. Ascending(mask) \in [1 .. Cardinality(mask) -> mask]
    BY <1>1, Zenon DEF Ascending
  <1> QED
    BY <1>2, MaskFinite

(* A view of rows has the view of their column. *)
Image(f, s) == [i \in DOMAIN s |-> f[s[i]]]

LEMMA ColumnOfSelected ==
    ASSUME NEW T, NEW s \in Seq(T), NEW mask \in SUBSET (1 .. Len(s)), NEW f
    PROVE  /\ Selected(s, mask) \in Seq(T)
           /\ Image(f, Selected(s, mask)) = Selected(Image(f, s), mask)
  <1> DEFINE at == Ascending(mask)
             size == Cardinality(mask)
  <1>1. size \in Nat /\ at \in [1 .. size -> mask]
    <2>1. Len(s) \in Nat
      OBVIOUS
    <2> QED
      BY <2>1, AscendingIs
  <1>2. \A i \in 1 .. size : at[i] \in DOMAIN s
    <2>1. DOMAIN s = 1 .. Len(s)
      OBVIOUS
    <2> HIDE DEF at, size
    <2>2. \A i \in 1 .. size : at[i] \in mask
      BY <1>1
    <2> QED
      BY <2>1, <2>2, Zenon
  <1>3. Selected(s, mask) = [i \in 1 .. size |-> s[at[i]]]
    BY DEF Selected
  <1>4. Selected([i \in DOMAIN s |-> f[s[i]]], mask)
        = [i \in 1 .. size |-> [j \in DOMAIN s |-> f[s[j]]][at[i]]]
    BY DEF Selected
  <1> HIDE DEF at, size
  <1>5. [i \in 1 .. size |-> s[at[i]]] \in Seq(T)
    <2>1. \A i \in 1 .. size : s[at[i]] \in T
      BY <1>2
    <2> QED
      BY <1>1, <2>1
  <1>6. [i \in 1 .. size |-> f[[j \in 1 .. size |-> s[at[j]]][i]]]
        = [i \in 1 .. size |-> [j \in DOMAIN s |-> f[s[j]]][at[i]]]
    BY <1>2
  <1> QED
    BY <1>3, <1>4, <1>5, <1>6 DEF size, Image

-----------------------------------------------------------------------------
(* Invalidation, where every list has one view at most. *)
LEMMA Shape ==
    ASSUME NEW c, Typed(c), NEW l \in DOMAIN c
    PROVE  /\ c[l] \in CacheRec
           /\ c[l] = [cols |-> c[l].cols, lazy |-> c[l].lazy, mask |-> c[l].mask,
                      parent |-> c[l].parent, children |-> c[l].children]
           /\ c[l].cols \in Seq(Values) /\ c[l].lazy \in BOOLEAN
           /\ c[l].mask \in SUBSET Nat /\ c[l].parent \in Lists \cup {NoList}
           /\ c[l].children \in Seq(Lists) /\ l \in Lists
  <1>1. c[l] \in CacheRec /\ l \in Lists
    BY DEF Typed
  <1> QED
    BY <1>1 DEF CacheRec

LEMMA OneReached ==
    ASSUME NEW children \in Seq(Lists), Len(children) <= 1, NEW m
    PROVE  m \in Reached(children)
           <=> \E i \in 1 .. Len(children) : children[i] = m
  <1>1. CASE Len(children) = 0
    <2>1. (Len(children) + 1) \div 2 = 0
      BY <1>1
    <2> QED
      BY <1>1, <2>1 DEF Reached
  <1>2. CASE Len(children) = 1
    <2>1. (Len(children) + 1) \div 2 = 1
      BY <1>2
    <2> QED
      BY <1>2, <2>1 DEF Reached
  <1>3. Len(children) = 0 \/ Len(children) = 1
    <2> DEFINE size == Len(children)
    <2>1. size \in Nat
      OBVIOUS
    <2> HIDE DEF size
    <2>2. size <= 1
      BY DEF size
    <2>3. size = 0 \/ size = 1
      BY <2>1, <2>2
    <2> QED
      BY <2>3 DEF size
  <1> QED
    BY <1>1, <1>2, <1>3, Zenon

LEMMA Rechilded ==
    ASSUME NEW r \in CacheRec, NEW w
    PROVE  [r EXCEPT !.children = w] = [cols |-> r.cols, lazy |-> r.lazy, mask |-> r.mask,
                                        parent |-> r.parent, children |-> w]
  BY DEF CacheRec

LEMMA Fields ==
    ASSUME NEW r \in CacheRec
    PROVE  /\ r.lazy \in BOOLEAN /\ r.mask \in SUBSET Nat
           /\ r.parent \in Lists \cup {NoList} /\ r.children \in Seq(Lists)
           /\ r.cols \in Seq(Values)
  BY DEF CacheRec

LEMMA NewColumns ==
    ASSUME NEW r \in CacheRec, NEW w
    PROVE  [r EXCEPT !.cols = w] = [cols |-> w, lazy |-> r.lazy, mask |-> r.mask,
                                    parent |-> r.parent, children |-> r.children]
  BY DEF CacheRec

LEMMA NotLazy ==
    ASSUME NEW r \in CacheRec, NEW w
    PROVE  [r EXCEPT !.lazy = w] = [cols |-> r.cols, lazy |-> w, mask |-> r.mask,
                                    parent |-> r.parent, children |-> r.children]
  BY DEF CacheRec

LEMMA Unmasked ==
    ASSUME NEW r \in CacheRec, NEW w
    PROVE  [r EXCEPT !.mask = w] = [cols |-> r.cols, lazy |-> r.lazy, mask |-> w,
                                    parent |-> r.parent, children |-> r.children]
  BY DEF CacheRec

LEMMA Recolumned ==
    ASSUME NEW r \in CacheRec, NEW w \in Seq(Values)
    PROVE  [[[r EXCEPT !.cols = w] EXCEPT !.lazy = FALSE] EXCEPT !.mask = {}]
           = [cols |-> w, lazy |-> FALSE, mask |-> {}, parent |-> r.parent,
              children |-> r.children]
  <1> DEFINE q1 == [r EXCEPT !.cols = w]
             q2 == [q1 EXCEPT !.lazy = FALSE]
             q3 == [q2 EXCEPT !.mask = {}]
  <1>1. q1 = [cols |-> w, lazy |-> r.lazy, mask |-> r.mask,
              parent |-> r.parent, children |-> r.children]
    BY NewColumns
  <1> HIDE DEF q1
  <1>2. /\ q1 \in CacheRec /\ q1.cols = w /\ q1.mask = r.mask
        /\ q1.parent = r.parent /\ q1.children = r.children
    BY <1>1, Fields DEF CacheRec
  <1>3. q2 = [cols |-> w, lazy |-> FALSE, mask |-> r.mask,
              parent |-> r.parent, children |-> r.children]
    BY <1>2, NotLazy
  <1> HIDE DEF q2
  <1>4. /\ q2 \in CacheRec /\ q2.cols = w /\ q2.lazy = FALSE
        /\ q2.parent = r.parent /\ q2.children = r.children
    BY <1>3, Fields DEF CacheRec
  <1>5. q3 = [cols |-> w, lazy |-> FALSE, mask |-> {},
              parent |-> r.parent, children |-> r.children]
    BY <1>4, Unmasked
  <1> QED
    BY <1>5, Zenon DEF q3, q2, q1

LEMMA CascadedIs ==
    ASSUME ColCacheAssumption, NEW c, Typed(c), Linked(c), NEW l \in DOMAIN c
    PROVE  /\ l \in Cascaded(c, l) /\ Cascaded(c, l) \subseteq DOMAIN c
           /\ \A m \in DOMAIN c :
                  c[m].parent \in Cascaded(c, l) => m \in Cascaded(c, l)
           /\ \A m \in Cascaded(c, l) : m # l => c[m].parent \in Cascaded(c, l)
  <1> DEFINE D == Cascaded(c, l)
             Closed(S) == \A k \in S : Reached(c[k].children) \cap DOMAIN c \subseteq S
  <1>1. \A m \in DOMAIN c : m \in D <=> \A S \in SUBSET DOMAIN c :
                                           l \in S /\ Closed(S) => m \in S
    BY Zenon DEF Cascaded
  <1>2. D \subseteq DOMAIN c
    BY Zenon DEF Cascaded
  <1>3. l \in D
    BY <1>1, Zenon
  <1>4. \A k \in DOMAIN c : \A m \in DOMAIN c :
            m \in Reached(c[k].children) <=> c[m].parent = k
    <2> SUFFICES ASSUME NEW k \in DOMAIN c, NEW m \in DOMAIN c
                 PROVE  m \in Reached(c[k].children) <=> c[m].parent = k
      OBVIOUS
    <2>1. /\ Len(c[k].children) <= 1
          /\ (\E i \in 1 .. Len(c[k].children) : c[k].children[i] = m) <=> c[m].parent = k
      BY Shape DEF Linked
    <2> QED
      BY <2>1, Shape, OneReached
  <1> HIDE DEF D
  <1>5. ASSUME NEW m \in DOMAIN c, c[m].parent \in D PROVE m \in D
    <2> SUFFICES ASSUME NEW S \in SUBSET DOMAIN c, l \in S, Closed(S) PROVE m \in S
      BY <1>1, Zenon
    <2>1. c[m].parent \in S /\ c[m].parent \in DOMAIN c
      BY <1>1, <1>2, <1>5, Zenon
    <2> QED
      BY <1>4, <2>1, Zenon
  <1>6. ASSUME NEW m \in D, m # l PROVE c[m].parent \in D
    <2> DEFINE S == {k \in D : k = l \/ c[k].parent \in D}
    <2>1. S \in SUBSET DOMAIN c /\ l \in S
      BY <1>2, <1>3
    <2>2. Closed(S)
      <3> SUFFICES ASSUME NEW k \in S, NEW x \in Reached(c[k].children), x \in DOMAIN c
                   PROVE  x \in S
        BY Zenon
      <3>1. k \in D /\ k \in DOMAIN c
        BY <1>2
      <3>2. c[x].parent = k
        BY <1>4, <3>1, Zenon
      <3>3. x \in D
        BY <1>5, <3>1, <3>2, Zenon
      <3> QED
        BY <3>1, <3>2, <3>3, Zenon
    <2>3. m \in S
      BY <1>1, <1>2, <2>1, <2>2, Zenon
    <2> QED
      BY <1>6, <2>3, Zenon
  <1> QED
    BY <1>2, <1>3, <1>5, <1>6 DEF D

LEMMA UnlinkedIs ==
    ASSUME ColCacheAssumption, NEW c, Typed(c), Linked(c), NEW l \in DOMAIN c
    PROVE  LET u == Unlinked(c, l) IN
           /\ Typed(u) /\ DOMAIN u = DOMAIN c
           /\ \A m \in DOMAIN c :
                  /\ u[m].cols = c[m].cols /\ u[m].lazy = c[m].lazy
                  /\ u[m].mask = c[m].mask /\ u[m].parent = c[m].parent
                  /\ m # c[l].parent => u[m].children = c[m].children
                  /\ m = c[l].parent => u[m].children = <<>>
  <1> DEFINE u == Unlinked(c, l)
             p == c[l].parent
  <1>1. c = [m \in DOMAIN c |-> c[m]]
    BY DEF Typed
  <1>2. CASE p \notin DOMAIN c
    <2>1. u = c
      BY <1>2 DEF Unlinked
    <2> QED
      BY <1>2, <2>1
  <1>3. CASE p \in DOMAIN c
    <2> DEFINE w == Without(c[p].children, l)
    <2>1. w = <<>>
      <3> DEFINE ch == c[p].children
                 i == CHOOSE i \in DOMAIN ch : ch[i] = l
                 s == [ch EXCEPT ![i] = Last(ch)]
      <3>1. ch \in Seq(Lists) /\ Len(ch) <= 1 /\ \E j \in 1 .. Len(ch) : ch[j] = l
        BY <1>3, Shape DEF Linked
      <3>3. w = Front(s)
        BY DEF Without
      <3>2. Len(ch) = 1
        <4> HIDE DEF ch
        <4>1. Len(ch) \in Nat /\ Len(ch) # 0 /\ Len(ch) <= 1
          BY <3>1
        <4> DEFINE size == Len(ch)
        <4> HIDE DEF size
        <4>2. size \in Nat /\ size # 0 /\ size <= 1
          BY <4>1 DEF size
        <4>3. size = 1
          BY <4>2
        <4> QED
          BY <4>3 DEF size
      <3> HIDE DEF ch, i, w
      <3>4. Len(s) = 1
        BY <3>1, <3>2
      <3> HIDE DEF s
      <3>5. SubSeq(s, 1, 0) = <<>>
        OBVIOUS
      <3> QED
        BY <3>3, <3>4, <3>5 DEF Front
    <2>2. u = [c EXCEPT ![p] = [c[p] EXCEPT !.children = w]]
      BY <1>3 DEF Unlinked
    <2> DEFINE r == [c[p] EXCEPT !.children = w]
    <2>3. /\ r = [cols |-> c[p].cols, lazy |-> c[p].lazy, mask |-> c[p].mask,
                  parent |-> c[p].parent, children |-> w]
      <3>1. c[p] \in CacheRec
        BY <1>3, Shape
      <3> HIDE DEF w, p
      <3> QED
        BY <3>1, Rechilded, Zenon
    <2> HIDE DEF p, w, r
    <2>4. /\ r.cols = c[p].cols /\ r.lazy = c[p].lazy /\ r.mask = c[p].mask
          /\ r.parent = c[p].parent /\ r.children = <<>> /\ r \in CacheRec
      BY <1>3, <2>1, <2>3, Shape DEF CacheRec
    <2>5. DOMAIN u = DOMAIN c /\ \A m \in DOMAIN c : u[m] = IF m = p THEN r ELSE c[m]
      BY <1>1, <1>3, <2>2 DEF r
    <2>6. u = [m \in DOMAIN u |-> u[m]]
      BY <1>1, <2>2 DEF r
    <2> HIDE DEF u
    <2>7. Typed(u)
      BY <2>4, <2>5, <2>6 DEF Typed
    <2> QED
      BY <2>4, <2>5, <2>7 DEF u, p
  <1> QED
    BY <1>2, <1>3

LEMMA InvalidatedIs ==
    ASSUME ColCacheAssumption, NEW c, Typed(c), Linked(c), Rooted(c), NEW l
    PROVE  LET d == Invalidated(c, l) IN
           /\ Typed(d) /\ Linked(d) /\ Rooted(d)
           /\ DOMAIN d \subseteq DOMAIN c /\ l \notin DOMAIN d
           /\ l = Base => DOMAIN d = {}
           /\ \A m \in DOMAIN d :
                  /\ d[m].cols = c[m].cols /\ d[m].lazy = c[m].lazy
                  /\ d[m].mask = c[m].mask /\ d[m].parent = c[m].parent
                  /\ c[m].parent \in DOMAIN c => c[m].parent \in DOMAIN d
  <1> DEFINE d == Invalidated(c, l)
             D == Cascaded(c, l)
             u == Unlinked(c, l)
  <1>1. CASE l \notin DOMAIN c
    <2>1. d = c
      BY <1>1 DEF Invalidated
    <2>2. l = Base => DOMAIN c = {}
      <3> SUFFICES ASSUME l = Base PROVE DOMAIN c = {}
        OBVIOUS
      <3>1. \A m \in DOMAIN c : c[m].parent \in {} => m \in {}
        OBVIOUS
      <3>2. {} \in SUBSET DOMAIN c
        OBVIOUS
      <3> QED
        BY <1>1, <3>1, <3>2, Zenon DEF Rooted
    <2> QED
      BY <1>1, <2>1, <2>2
  <1>2. CASE l \in DOMAIN c
    <2>1. /\ l \in D /\ D \subseteq DOMAIN c
          /\ \A m \in DOMAIN c : c[m].parent \in D => m \in D
          /\ \A m \in D : m # l => c[m].parent \in D
      BY <1>2, CascadedIs
    <2>2. /\ Typed(u) /\ DOMAIN u = DOMAIN c
          /\ \A m \in DOMAIN c :
                  /\ u[m].cols = c[m].cols /\ u[m].lazy = c[m].lazy
                  /\ u[m].mask = c[m].mask /\ u[m].parent = c[m].parent
                  /\ m # c[l].parent => u[m].children = c[m].children
                  /\ m = c[l].parent => u[m].children = <<>>
      BY <1>2, UnlinkedIs
    <2>3. d = [m \in DOMAIN c \ D |-> u[m]]
      BY <1>2 DEF Invalidated, Restrict
    <2>4. /\ DOMAIN d = DOMAIN c \ D
          /\ \A m \in DOMAIN d : d[m] = u[m]
          /\ d = [m \in DOMAIN d |-> d[m]]
      BY <2>3
    <2> HIDE DEF d, D, u
    <2>5. Typed(d)
      <3>1. \A m \in DOMAIN c \ D : u[m] \in CacheRec
        BY <2>2 DEF Typed
      <3>2. DOMAIN c \ D \subseteq Lists
        BY <2>2 DEF Typed
      <3>3. d \in [DOMAIN c \ D -> CacheRec]
        BY <2>3, <3>1
      <3> QED
        BY <2>4, <3>2, <3>3, Zenon DEF Typed
    <2>6. \A m \in DOMAIN d :
              /\ d[m].cols = c[m].cols /\ d[m].lazy = c[m].lazy
              /\ d[m].mask = c[m].mask /\ d[m].parent = c[m].parent
              /\ c[m].parent \in DOMAIN c => c[m].parent \in DOMAIN d
      BY <2>1, <2>2, <2>4
    <2>7. Linked(d)
      <3> SUFFICES ASSUME NEW k \in DOMAIN d
                   PROVE  /\ d[k].parent \in DOMAIN d \cup {NoList}
                          /\ Len(d[k].children) <= 1
                          /\ \A m \in Lists :
                                (\E i \in 1 .. Len(d[k].children) : d[k].children[i] = m)
                                <=> m \in DOMAIN d /\ d[m].parent = k
        BY DEF Linked
      <3>1. k \in DOMAIN c /\ k \notin D
        BY <2>4
      <3>2. /\ c[k].parent \in DOMAIN c \cup {NoList}
            /\ Len(c[k].children) <= 1
            /\ \A m \in Lists : (\E i \in 1 .. Len(c[k].children) : c[k].children[i] = m)
                                <=> m \in DOMAIN c /\ c[m].parent = k
        BY <3>1 DEF Linked
      <3>3. d[k].parent \in DOMAIN d \cup {NoList}
        BY <2>6, <3>2
      <3>4. CASE k = c[l].parent
        <4>1. d[k].children = <<>>
          BY <2>2, <2>4, <3>1, <3>4
        <4>2. \A m \in DOMAIN d : d[m].parent # k
          <5> SUFFICES ASSUME NEW m \in DOMAIN d, d[m].parent = k PROVE FALSE
            OBVIOUS
          <5>1. c[m].parent = k /\ m \in DOMAIN c /\ m # l
            BY <2>1, <2>4, <2>6
          <5>2. l \in Lists /\ m \in Lists /\ Len(c[k].children) \in Nat
            BY <1>2, <3>1, <5>1, Shape
          <5>3. PICK i \in 1 .. Len(c[k].children) : c[k].children[i] = m
            BY <3>2, <5>1, <5>2
          <5>4. PICK j \in 1 .. Len(c[k].children) : c[k].children[j] = l
            BY <1>2, <3>2, <3>4, <5>2
          <5>5. i = 1 /\ j = 1
            BY <3>2, <5>2
          <5> QED
            BY <5>1, <5>3, <5>4, <5>5
        <4> QED
          BY <3>3, <4>1, <4>2
      <3>5. CASE k # c[l].parent
        <4>1. d[k].children = c[k].children
          BY <2>2, <2>4, <3>1, <3>5
        <4>2. \A m \in Lists : m \in DOMAIN c /\ c[m].parent = k
                               <=> m \in DOMAIN d /\ d[m].parent = k
          BY <2>1, <2>4, <2>6, <3>1, <3>5
        <4> QED
          BY <3>2, <3>3, <4>1, <4>2
      <3> QED
        BY <3>4, <3>5
    <2>8. ASSUME NEW S \in SUBSET DOMAIN d,
                 Base \in DOMAIN d => Base \in S,
                 \A m \in DOMAIN d : d[m].parent \in S => m \in S
          PROVE  S = DOMAIN d
      <3> DEFINE W == S \cup D
      <3>1. W \in SUBSET DOMAIN c /\ (Base \in DOMAIN c => Base \in W)
        BY <2>1, <2>4, <2>8
      <3>2. \A m \in DOMAIN c : c[m].parent \in W => m \in W
        BY <2>1, <2>4, <2>6, <2>8
      <3>3. W = DOMAIN c
        <4> HIDE DEF W
        <4> QED
          BY <3>1, <3>2, Zenon DEF Rooted
      <3> QED
        BY <2>4, <3>3
    <2>9. Rooted(d)
      BY <2>8, Zenon DEF Rooted
    <2>10. ASSUME l = Base PROVE DOMAIN d = {}
      <3>1. {} \in SUBSET DOMAIN d /\ Base \notin DOMAIN d
        BY <2>1, <2>4, <2>10
      <3>2. \A m \in DOMAIN d : d[m].parent \in {} => m \in {}
        OBVIOUS
      <3> QED
        BY <2>9, <3>1, <3>2, Zenon DEF Rooted
    <2>11. l \notin DOMAIN d /\ DOMAIN d \subseteq DOMAIN c
      BY <2>1, <2>4
    <2> QED
      BY <2>5, <2>6, <2>7, <2>9, <2>10, <2>11 DEF d
  <1> QED
    BY <1>1, <1>2

(* A step that invalidates the list it changes. *)
LEMMA InvalidateKeeps ==
    ASSUME ColCacheAssumption, ColInv, NEW l, cache' = Invalidated(cache, l),
           live' = live, ColTypeOK',
           \A m \in DOMAIN cache' : rows'[m] = rows[m] /\ Column(m)' = Column(m)
    PROVE  ColInv'
  <1>1. /\ Typed(cache') /\ Linked(cache') /\ Rooted(cache')
        /\ DOMAIN cache' \subseteq DOMAIN cache
        /\ \A m \in DOMAIN cache' :
               /\ cache'[m].cols = cache[m].cols /\ cache'[m].lazy = cache[m].lazy
               /\ cache'[m].mask = cache[m].mask /\ cache'[m].parent = cache[m].parent
               /\ cache[m].parent \in DOMAIN cache => cache[m].parent \in DOMAIN cache'
    BY InvalidatedIs DEF ColInv, CacheOK
  <1> DEFINE Col(m) == [i \in DOMAIN rows'[m] |-> value'[rows'[m][i]]]
  <1>2. \A m \in DOMAIN cache' : rows'[m] = rows[m] /\ Col(m) = Column(m)
    BY DEF Column
  <1> HIDE DEF Col
  <1>3. ASSUME NEW m \in DOMAIN cache'
        PROVE  IF cache'[m].lazy
               THEN /\ cache'[m].parent \in DOMAIN cache'
                    /\ ~cache'[cache'[m].parent].lazy
                    /\ Col(m) = Selected(Col(cache'[m].parent), cache'[m].mask)
               ELSE Col(m) = cache'[m].cols
    <2>1. IF cache[m].lazy
          THEN /\ cache[m].parent \in DOMAIN cache /\ ~cache[cache[m].parent].lazy
               /\ Column(m) = Selected(Column(cache[m].parent), cache[m].mask)
          ELSE Column(m) = cache[m].cols
      BY <1>1 DEF ColInv, CacheOK, Mirrors
    <2>2. /\ cache'[m].cols = cache[m].cols /\ cache'[m].lazy = cache[m].lazy
          /\ cache'[m].mask = cache[m].mask /\ cache'[m].parent = cache[m].parent
      BY <1>1, Zenon
    <2>3. CASE cache[m].lazy
      <3>1. cache[m].parent \in DOMAIN cache'
        BY <1>1, <2>1, <2>3, Zenon
      <3>2. cache'[cache[m].parent].lazy = cache[cache[m].parent].lazy
        BY <1>1, <3>1, Zenon
      <3>3. Col(m) = Column(m) /\ Col(cache[m].parent) = Column(cache[m].parent)
        BY <1>2, <3>1, Zenon
      <3> QED
        BY <2>1, <2>2, <2>3, <3>1, <3>2, <3>3
    <2>4. CASE ~cache[m].lazy
      BY <1>2, <2>1, <2>2, <2>4
    <2> QED
      BY <2>3, <2>4
  <1>4. Mirrors(cache)'
    BY <1>3 DEF Mirrors, Column, Col
  <1> QED
    BY <1>1, <1>4 DEF ColInv, CacheOK, Typed, Linked, Rooted

-----------------------------------------------------------------------------
(* The operations of scripts. *)
LEMMA ObjectsAre == ColTypeOK => Reachable \subseteq Objects
  <1> SUFFICES ASSUME ColTypeOK, NEW l \in live, NEW o \in ToSet(rows[l]) PROVE o \in Objects
    BY DEF Reachable
  <1>1. rows[l] \in Seq(Objects)
    BY DEF ColTypeOK
  <1> QED
    BY <1>1 DEF ToSet

LEMMA Unreached ==
    ASSUME ColInv, NEW o \in Objects, o \notin Reachable, NEW v \in Values,
           value' = [value EXCEPT ![o] = v], NEW m \in live, rows'[m] = rows[m]
    PROVE  Column(m)' = Column(m)
  <1>1. rows[m] \in Seq(Objects) /\ value \in [Objects -> Values]
    BY DEF ColInv, ColTypeOK
  <1>2. \A i \in DOMAIN rows[m] : rows[m][i] # o /\ rows[m][i] \in Objects
    BY <1>1 DEF Reachable, ToSet
  <1>3. \A i \in DOMAIN rows[m] : value'[rows[m][i]] = value[rows[m][i]]
    BY <1>1, <1>2
  <1> QED
    BY <1>3 DEF Column

(* A list changes and drops its columns with those of its views.            *)
LEMMA ChangeKeeps ==
    ASSUME ColCacheAssumption, ColInv, NEW l \in live, NEW s \in Seq(Objects),
           rows' = [rows EXCEPT ![l] = s], Drops(l),
           \/ value' = value
           \/ \E o \in Objects \ Reachable, v \in Values : value' = [value EXCEPT ![o] = v]
    PROVE  ColInv'
  <1>1. /\ rows' \in [Lists -> Seq(Objects)]
        /\ \A m \in Lists : m # l => rows'[m] = rows[m]
    BY DEF ColInv, ColTypeOK
  <1>2. /\ cache' = Invalidated(cache, l) /\ live' = live /\ owning' = owning
    BY DEF Drops
  <1>3. /\ l \notin DOMAIN cache' /\ DOMAIN cache' \subseteq DOMAIN cache
    BY <1>2, InvalidatedIs DEF ColInv, CacheOK
  <1>4. ColTypeOK'
    <2>1. value' \in [Objects -> Values]
      BY DEF ColInv, ColTypeOK
    <2> QED
      BY <1>1, <1>2, <2>1 DEF ColInv, ColTypeOK
  <1>5. ASSUME NEW m \in DOMAIN cache' PROVE rows'[m] = rows[m] /\ Column(m)' = Column(m)
    <2>1. m \in live /\ m \in Lists /\ m # l
      BY <1>3 DEF ColInv, ColTypeOK
    <2>2. rows'[m] = rows[m]
      BY <1>1, <2>1
    <2>3. CASE value' = value
      BY <2>2, <2>3 DEF Column
    <2>4. CASE \E o \in Objects \ Reachable, v \in Values : value' = [value EXCEPT ![o] = v]
      BY <2>1, <2>2, <2>4, Unreached
    <2> QED
      BY <2>2, <2>3, <2>4
  <1> QED
    BY <1>2, <1>4, <1>5, InvalidateKeeps

LEMMA PushKeeps ==
    ASSUME ColCacheAssumption, ColInv, NEW l \in live, NEW o \in Spare, NEW v \in Values,
           Push(l, o, v)
    PROVE  ColInv'
  <1>1. rows[l] \in Seq(Objects) /\ o \in Objects
    BY DEF ColInv, ColTypeOK, Objects
  <1>2. Append(rows[l], o) \in Seq(Objects)
    BY <1>1
  <1>3. rows' = [rows EXCEPT ![l] = Append(rows[l], o)] /\ Drops(l)
    BY DEF Push
  <1>4. \E x \in Objects \ Reachable, w \in Values : value' = [value EXCEPT ![x] = w]
    BY <1>1 DEF Push
  <1> QED
    BY <1>2, <1>3, <1>4, ChangeKeeps

LEMMA PopKeeps ==
    ASSUME ColCacheAssumption, ColInv, NEW l \in live, Pop(l)
    PROVE  ColInv'
  <1>1. rows[l] \in Seq(Objects) /\ rows[l] # <<>>
    BY DEF Pop, ColInv, ColTypeOK
  <1>2. Front(rows[l]) \in Seq(Objects)
    <2>1. \A i \in 1 .. Len(rows[l]) - 1 : rows[l][i] \in Objects
      BY <1>1
    <2> QED
      BY <1>1, <2>1, SubSeqProperties DEF Front
  <1>3. rows' = [rows EXCEPT ![l] = Front(rows[l])] /\ Drops(l) /\ value' = value
    BY DEF Pop
  <1> QED
    BY <1>2, <1>3, ChangeKeeps

LEMMA ReorderKeeps ==
    ASSUME ColCacheAssumption, ColInv, NEW l \in live, Reorder(l)
    PROVE  ColInv'
  <1>1. rows[l] \in Seq(Objects) /\ rows \in [Lists -> Seq(Objects)] /\ l \in Lists
    BY DEF ColInv, ColTypeOK
  <1>2. Reverse(rows[l]) \in Seq(Objects)
    BY <1>1 DEF Reverse
  <1>3. Drops(l) /\ value' = value
    BY DEF Reorder
  <1>4. CASE rows' = [rows EXCEPT ![l] = Reverse(rows[l])]
    BY <1>2, <1>3, <1>4, ChangeKeeps
  <1>5. CASE rows' = rows
    <2>1. rows' = [rows EXCEPT ![l] = rows[l]]
      BY <1>1, <1>5
    <2> QED
      BY <1>1, <1>3, <2>1, ChangeKeeps
  <1> QED
    BY <1>4, <1>5 DEF Reorder

LEMMA SetItemKeeps ==
    ASSUME ColCacheAssumption, ColInv, NEW l \in live, NEW o \in Reachable, SetItem(l, o)
    PROVE  ColInv'
  <1>1. rows[l] \in Seq(Objects) /\ o \in Objects
    BY ObjectsAre DEF ColInv, ColTypeOK
  <1>2. PICK i \in DOMAIN rows[l] : rows' = [rows EXCEPT ![l][i] = o]
    BY DEF SetItem
  <1> DEFINE s == [rows[l] EXCEPT ![i] = o]
  <1>3. s \in Seq(Objects)
    BY <1>1
  <1>4. rows' = [rows EXCEPT ![l] = s]
    BY <1>2
  <1>5. Drops(l) /\ value' = value
    BY DEF SetItem
  <1> HIDE DEF s
  <1> QED
    BY <1>3, <1>4, <1>5, ChangeKeeps

LEMMA AssignAttrKeeps ==
    ASSUME ColCacheAssumption, Served, ColInv, NEW o \in Reachable, NEW v \in Values,
           AssignAttr(o, v)
    PROVE  ColInv'
  <1>1. /\ o \in Objects /\ value \in [Objects -> Values] /\ rows' = rows
        /\ value' = [value EXCEPT ![o] = v] /\ live' = live /\ owning' = owning
        /\ cache' = Invalidated(cache, owning[o]) /\ owning[o] \in {Base, NoList}
    BY ObjectsAre DEF AssignAttr, ColInv, ColTypeOK
  <1>2. ColTypeOK'
    BY <1>1 DEF ColInv, ColTypeOK
  <1>3. DOMAIN cache' \subseteq DOMAIN cache /\ (owning[o] = Base => DOMAIN cache' = {})
    BY <1>1, InvalidatedIs DEF ColInv, CacheOK
  <1>4. ASSUME NEW m \in DOMAIN cache' PROVE Column(m)' = Column(m)
    <2>1. owning[o] = NoList /\ m \in live \cap DOMAIN cache
      BY <1>1, <1>3 DEF ColInv
    <2>2. o \notin ToSet(rows[m])
      BY <2>1 DEF AssignAttr, Served, Mirrored
    <2>3. rows[m] \in Seq(Objects)
      BY <2>1 DEF ColInv, ColTypeOK
    <2>4. \A i \in DOMAIN rows[m] : rows[m][i] # o /\ rows[m][i] \in Objects
      BY <2>2, <2>3 DEF ToSet
    <2>5. \A i \in DOMAIN rows[m] : value'[rows[m][i]] = value[rows[m][i]]
      BY <1>1, <2>4
    <2> QED
      BY <1>1, <2>5 DEF Column
  <1> QED
    BY <1>1, <1>2, <1>4, InvalidateKeeps

(* The lists of a request that ends have no columns.                        *)
LEMMA FreeForestKeeps ==
    ASSUME ColCacheAssumption, Served, ColInv, FreeForest
    PROVE  ColInv'
  <1>1. /\ live' = {Base} /\ cache' = cache /\ value' = value /\ owning' = owning
        /\ rows' = [l \in Lists |-> IF l = Base THEN rows[l] ELSE <<>>]
        /\ (live \ {Base}) \cap DOMAIN cache = {}
    BY DEF FreeForest, Served
  <1>2. DOMAIN cache \subseteq {Base}
    BY <1>1 DEF ColInv
  <1>3. Base \in Lists /\ rows'[Base] = rows[Base]
    BY <1>1 DEF Lists
  <1>4. ColTypeOK'
    BY <1>1, <1>3 DEF ColInv, ColTypeOK
  <1> DEFINE Col(m) == [i \in DOMAIN rows'[m] |-> value'[rows'[m][i]]]
  <1>5. Col(Base) = Column(Base)
    BY <1>1, <1>3 DEF Column
  <1> HIDE DEF Col
  <1>6. \A l \in DOMAIN cache : l = Base
    BY <1>2
  <1>7. ASSUME NEW l \in DOMAIN cache'
        PROVE  IF cache'[l].lazy
               THEN /\ cache'[l].parent \in DOMAIN cache' /\ ~cache'[cache'[l].parent].lazy
                    /\ Col(l) = Selected(Col(cache'[l].parent), cache'[l].mask)
               ELSE Col(l) = cache'[l].cols
    <2>1. l \in DOMAIN cache /\ Col(l) = Column(l)
      BY <1>1, <1>5, <1>6
    <2>2. IF cache[l].lazy
          THEN /\ cache[l].parent \in DOMAIN cache /\ ~cache[cache[l].parent].lazy
               /\ Column(l) = Selected(Column(cache[l].parent), cache[l].mask)
          ELSE Column(l) = cache[l].cols
      BY <2>1 DEF ColInv, CacheOK, Mirrors
    <2>3. \A m \in DOMAIN cache : Col(m) = Column(m)
      BY <1>5, <1>6
    <2> QED
      BY <1>1, <2>1, <2>2, <2>3, Zenon
  <1>8. Mirrors(cache)'
    BY <1>7 DEF Mirrors, Column, Col
  <1> QED
    BY <1>1, <1>2, <1>4, <1>8 DEF ColInv, CacheOK, Typed, Linked, Rooted

-----------------------------------------------------------------------------
(* Filters: a view that gets columns of its own, and a new view. *)
LEMMA ColumnIs ==
    ASSUME ColTypeOK, NEW l \in Lists
    PROVE  /\ Column(l) \in Seq(Values) /\ DOMAIN Column(l) = DOMAIN rows[l]
           /\ DOMAIN rows[l] = 1 .. Len(rows[l]) /\ Len(rows[l]) \in Nat
           /\ rows[l] \in Seq(Objects)
  <1>1. rows[l] \in Seq(Objects) /\ value \in [Objects -> Values]
    BY DEF ColTypeOK
  <1>2. DOMAIN rows[l] = 1 .. Len(rows[l]) /\ Len(rows[l]) \in Nat
    BY <1>1
  <1>3. \A i \in 1 .. Len(rows[l]) : value[rows[l][i]] \in Values
    BY <1>1
  <1> QED
    BY <1>1, <1>2, <1>3 DEF Column

LEMMA MaterializedIs ==
    ASSUME ColCacheAssumption, ColTypeOK, NEW c, CacheOK(c), NEW l \in DOMAIN c
    PROVE  LET d == Materialized(c, l) IN
           /\ CacheOK(d) /\ DOMAIN d = DOMAIN c
           /\ d[l].cols = Column(l) /\ ~d[l].lazy
           /\ \A m \in DOMAIN c : /\ d[m].children = c[m].children
                                  /\ d[m].parent = c[m].parent
  <1> DEFINE d == Materialized(c, l)
  <1>1. CASE ~c[l].lazy
    <2>1. d = c
      BY <1>1 DEF Materialized
    <2>2. c[l].cols = Column(l)
      BY <1>1 DEF CacheOK, Mirrors
    <2> QED
      BY <1>1, <2>1, <2>2
  <1>2. CASE c[l].lazy
    <2> DEFINE p == c[l].parent
               r == [cols |-> Column(l), lazy |-> FALSE, mask |-> {},
                     parent |-> p, children |-> c[l].children]
    <2>1. /\ p \in DOMAIN c /\ ~c[p].lazy
          /\ Column(l) = Selected(Column(p), c[l].mask)
      BY <1>2 DEF CacheOK, Mirrors
    <2>2. c[p].cols = Column(p)
      BY <2>1 DEF CacheOK, Mirrors
    <2>3. Typed(c) /\ c[l] \in CacheRec /\ c = [m \in DOMAIN c |-> c[m]]
      BY Shape DEF CacheOK, Typed
    <2>4. d = [c EXCEPT ![l].cols = Column(l), ![l].lazy = FALSE, ![l].mask = {}]
      BY <1>2, <2>1, <2>2 DEF Materialized
    <2>5. d = [c EXCEPT ![l] = r]
      <3> HIDE DEF d
      <3> DEFINE e == [c EXCEPT ![l].cols = Column(l), ![l].lazy = FALSE, ![l].mask = {}]
                 x == [[[c[l] EXCEPT !.cols = Column(l)] EXCEPT !.lazy = FALSE]
                         EXCEPT !.mask = {}]
      <3>1. x = r
        <4> DEFINE w == Column(l)
        <4>2. w \in Seq(Values)
          BY <2>3, ColumnIs DEF Typed
        <4> HIDE DEF w
        <4>1. [[[c[l] EXCEPT !.cols = w] EXCEPT !.lazy = FALSE] EXCEPT !.mask = {}]
              = [cols |-> w, lazy |-> FALSE, mask |-> {}, parent |-> c[l].parent,
                 children |-> c[l].children]
          BY <2>3, <4>2, Recolumned, Zenon
        <4> QED
          BY <4>1 DEF w
      <3>2. e = [c EXCEPT ![l] = x]
        BY <2>3
      <3> QED
        BY <2>4, <3>1, <3>2, Zenon
    <2>6. /\ r.cols = Column(l) /\ r.lazy = FALSE /\ r.mask = {} /\ r.parent = p
          /\ r.children = c[l].children
      OBVIOUS
    <2>7. r \in CacheRec
      <3>1. Column(l) \in Seq(Values)
        BY <2>3, ColumnIs DEF Typed
      <3>2. p \in Lists \cup {NoList} /\ c[l].children \in Seq(Lists)
        BY <2>3, Shape
      <3> HIDE DEF p
      <3> QED
        BY <3>1, <3>2 DEF CacheRec
    <2> HIDE DEF r, d, p
    <2>8. DOMAIN d = DOMAIN c /\ \A m \in DOMAIN c : d[m] = IF m = l THEN r ELSE c[m]
      BY <2>3, <2>5
    <2>9. d \in [DOMAIN c -> CacheRec]
      BY <2>3, <2>5, <2>7 DEF Typed
    <2>10. Typed(d)
      BY <2>3, <2>8, <2>9 DEF Typed
    <2>11. \A m \in DOMAIN c : d[m].children = c[m].children /\ d[m].parent = c[m].parent
      BY <2>6, <2>8 DEF p
    <2>12. Linked(d) /\ Rooted(d)
      <3>1. Linked(c) /\ Rooted(c)
        BY DEF CacheOK
      <3>2. Linked(d)
        BY <2>8, <2>11, <3>1 DEF Linked
      <3>3. Rooted(d)
        BY <2>8, <2>11, <3>1 DEF Rooted
      <3> QED
        BY <3>2, <3>3
    <2>13. Mirrors(d)
      <3> SUFFICES ASSUME NEW m \in DOMAIN c
                   PROVE  IF d[m].lazy
                          THEN /\ d[m].parent \in DOMAIN d /\ ~d[d[m].parent].lazy
                               /\ Column(m) = Selected(Column(d[m].parent), d[m].mask)
                          ELSE Column(m) = d[m].cols
        BY <2>8 DEF Mirrors
      <3>1. IF c[m].lazy
            THEN /\ c[m].parent \in DOMAIN c /\ ~c[c[m].parent].lazy
                 /\ Column(m) = Selected(Column(c[m].parent), c[m].mask)
            ELSE Column(m) = c[m].cols
        BY DEF CacheOK, Mirrors
      <3>2. CASE m = l
        BY <2>6, <2>8, <3>2
      <3>3. CASE m # l /\ c[m].lazy
        <4>1. d[m] = c[m]
          BY <2>8, <3>3
        <4>2. ~d[c[m].parent].lazy /\ c[m].parent \in DOMAIN d
          BY <2>6, <2>8, <3>1, <3>3
        <4> QED
          BY <3>1, <3>3, <4>1, <4>2
      <3>4. CASE m # l /\ ~c[m].lazy
        BY <2>8, <3>1, <3>4
      <3> QED
        BY <3>2, <3>3, <3>4
    <2> QED
      BY <2>6, <2>8, <2>10, <2>11, <2>12, <2>13 DEF CacheOK, d
  <1> QED
    BY <1>1, <1>2

LEMMA CountWhereKeeps ==
    ASSUME ColCacheAssumption, ColInv, NEW l \in live, CountWhere(l)
    PROVE  ColInv'
  <1>1. /\ cache' = Materialized(cache, l) /\ l \in DOMAIN cache
        /\ UNCHANGED <<rows, live, value, owning>>
    BY DEF CountWhere, Usable
  <1>2. CacheOK(cache') /\ DOMAIN cache' = DOMAIN cache
    BY <1>1, MaterializedIs DEF ColInv
  <1>3. CacheOK(cache)'
    <2>1. Typed(cache)' /\ Linked(cache)' /\ Rooted(cache)'
      BY <1>2 DEF CacheOK, Typed, Linked, Rooted
    <2>2. Mirrors(cache)'
      BY <1>1, <1>2 DEF CacheOK, Mirrors, Column
    <2> QED
      BY <2>1, <2>2 DEF CacheOK
  <1> QED
    BY <1>1, <1>2, <1>3 DEF ColInv, ColTypeOK

(* The new view of a list without one, whose columns are there. *)
Extends(d, c, l, new, mask) ==
    /\ DOMAIN d = DOMAIN c \cup {new}
    /\ \A m \in DOMAIN c : /\ d[m].cols = c[m].cols /\ d[m].lazy = c[m].lazy
                           /\ d[m].mask = c[m].mask /\ d[m].parent = c[m].parent
    /\ d[new].lazy /\ d[new].mask = mask /\ d[new].parent = l

LEMMA ViewIs ==
    ASSUME ColCacheAssumption, ColTypeOK, NEW c, CacheOK(c), NEW l \in DOMAIN c,
           ~c[l].lazy, c[l].children = <<>>, NEW new \in Lists \ DOMAIN c, new # Base,
           NEW mask \in SUBSET Nat, NEW d, d = WithView(c, l, new, mask)
    PROVE  Typed(d) /\ Linked(d) /\ Rooted(d) /\ Extends(d, c, l, new, mask)
  <1> DEFINE r == [c[l] EXCEPT !.children = <<new>>]
             fresh == Cache(<<>>, TRUE, mask, l)
  <1>1. Typed(c) /\ Linked(c) /\ Rooted(c) /\ c[l] \in CacheRec /\ l \in Lists
    BY Shape DEF CacheOK
  <1>2. [c[l] EXCEPT !.children = Append(@, new)] = r
    <2>1. Append(c[l].children, new) = <<new>>
      OBVIOUS
    <2> QED
      BY <2>1
  <1>3. r = [cols |-> c[l].cols, lazy |-> c[l].lazy, mask |-> c[l].mask,
             parent |-> c[l].parent, children |-> <<new>>]
    BY <1>1, Rechilded, Zenon
  <1>4. fresh = [cols |-> <<>>, lazy |-> TRUE, mask |-> mask, parent |-> l, children |-> <<>>]
    BY DEF Cache
  <1>6. d = [m \in DOMAIN c \cup {new} |->
                 IF m = new THEN fresh ELSE IF m = l THEN r ELSE c[m]]
    BY <1>2, Zenon DEF WithView
  <1> HIDE DEF r, fresh
  <1>7. /\ DOMAIN d = DOMAIN c \cup {new}
        /\ \A m \in DOMAIN c : d[m] = IF m = l THEN r ELSE c[m]
        /\ d[new] = fresh
    BY <1>6
  <1>8. /\ r.cols = c[l].cols /\ r.lazy = c[l].lazy /\ r.mask = c[l].mask
        /\ r.parent = c[l].parent /\ r.children = <<new>>
        /\ fresh.lazy = TRUE /\ fresh.mask = mask /\ fresh.parent = l /\ fresh.children = <<>>
    BY <1>3, <1>4
  <1>9. r \in CacheRec /\ fresh \in CacheRec
    <2>1. <<new>> \in Seq(Lists) /\ <<>> \in Seq(Lists) /\ <<>> \in Seq(Values)
      OBVIOUS
    <2> QED
      BY <1>1, <1>3, <1>4, <2>1, Shape DEF CacheRec
  <1>10. Typed(d)
    <2>1. d \in [DOMAIN c \cup {new} -> CacheRec]
      BY <1>1, <1>6, <1>9 DEF Typed
    <2> QED
      BY <1>1, <1>7, <2>1 DEF Typed
  <1>11. \A m \in DOMAIN c :
             /\ d[m].cols = c[m].cols /\ d[m].lazy = c[m].lazy
             /\ d[m].mask = c[m].mask /\ d[m].parent = c[m].parent
    BY <1>7, <1>8
  <1>12. \A m \in DOMAIN c : c[m].parent # new /\ c[m].parent # l
    <2> SUFFICES ASSUME NEW m \in DOMAIN c PROVE c[m].parent # new /\ c[m].parent # l
      OBVIOUS
    <2>1. c[m].parent # new
      BY <1>1 DEF Linked, ColCacheAssumption
    <2>2. m \in Lists
      BY Shape, <1>1
    <2>3. c[m].parent = l => \E i \in 1 .. Len(c[l].children) : c[l].children[i] = m
      BY <1>1, <2>2 DEF Linked
    <2> QED
      BY <2>1, <2>3
  <1>13. Linked(d)
    <2> SUFFICES ASSUME NEW k \in DOMAIN d
                 PROVE  /\ d[k].parent \in DOMAIN d \cup {NoList}
                        /\ Len(d[k].children) <= 1
                        /\ \A m \in Lists :
                              (\E i \in 1 .. Len(d[k].children) : d[k].children[i] = m)
                              <=> m \in DOMAIN d /\ d[m].parent = k
      BY DEF Linked
    <2>1. CASE k = new
      <3>1. d[k].children = <<>> /\ d[k].parent = l
        BY <1>7, <1>8, <2>1
      <3>2. \A m \in DOMAIN d : d[m].parent # k
        BY <1>7, <1>8, <1>11, <1>12, <2>1
      <3> QED
        BY <1>7, <3>1, <3>2
    <2>2. CASE k = l
      <3>1. d[k].children = <<new>> /\ d[k].parent = c[l].parent
        BY <1>7, <1>8, <2>2
      <3>2. \A m \in DOMAIN d : d[m].parent = k <=> m = new
        BY <1>7, <1>8, <1>11, <1>12, <2>2
      <3>3. \A m : (\E i \in 1 .. Len(<<new>>) : <<new>>[i] = m) <=> m = new
        OBVIOUS
      <3>4. c[l].parent \in DOMAIN c \cup {NoList}
        BY <1>1 DEF Linked
      <3> QED
        BY <1>7, <3>1, <3>2, <3>3, <3>4
    <2>3. CASE k # new /\ k # l
      <3>1. k \in DOMAIN c /\ d[k] = c[k]
        BY <1>7, <2>3
      <3>2. \A m \in Lists : m \in DOMAIN d /\ d[m].parent = k
                             <=> m \in DOMAIN c /\ c[m].parent = k
        BY <1>7, <1>8, <1>11, <2>3
      <3> QED
        BY <1>1, <1>7, <3>1, <3>2 DEF Linked
    <2> QED
      BY <2>1, <2>2, <2>3
  <1>14. ASSUME NEW S \in SUBSET DOMAIN d,
                Base \in DOMAIN d => Base \in S,
                \A m \in DOMAIN d : d[m].parent \in S => m \in S
         PROVE  S = DOMAIN d
    <2> DEFINE W == S \ {new}
    <2>1. W \in SUBSET DOMAIN c /\ (Base \in DOMAIN c => Base \in W)
      BY <1>7, <1>14
    <2>2. \A m \in DOMAIN c : c[m].parent \in W => m \in W
      BY <1>7, <1>11, <1>14
    <2>3. W = DOMAIN c
      <3> HIDE DEF W
      <3> QED
        BY <1>1, <2>1, <2>2, Zenon DEF Rooted
    <2>4. new \in S
      BY <1>7, <1>8, <1>14, <2>3
    <2> QED
      BY <1>7, <2>3, <2>4
  <1>15. Rooted(d)
    BY <1>14, Zenon DEF Rooted
  <1> QED
    BY <1>7, <1>8, <1>10, <1>11, <1>13, <1>15 DEF Extends

(* A view of a list with columns: its column is the view of theirs.         *)
LEMMA ViewKeeps ==
    ASSUME ColCacheAssumption, ColInv, NEW c, CacheOK(c), DOMAIN c = DOMAIN cache,
           NEW l \in DOMAIN c, ~c[l].lazy, c[l].children = <<>>,
           NEW new \in Views \ live, NEW mask \in SUBSET (1 .. Len(rows[l])),
           cache' = WithView(c, l, new, mask), live' = live \cup {new},
           rows' = [rows EXCEPT ![new] = Selected(rows[l], mask)],
           value' = value, owning' = owning
    PROVE  ColInv'
  <1>1. /\ ColTypeOK /\ DOMAIN c \subseteq live /\ l \in Lists /\ new \in Lists
        /\ new \notin DOMAIN c /\ new # Base
    BY DEF ColInv, ColTypeOK, Lists, ColCacheAssumption
  <1>2. /\ rows[l] \in Seq(Objects) /\ Len(rows[l]) \in Nat
    BY <1>1, ColumnIs
  <1>3. mask \in SUBSET Nat
    BY <1>2
  <1>4. /\ Typed(cache') /\ Linked(cache') /\ Rooted(cache')
        /\ DOMAIN cache' = DOMAIN c \cup {new}
        /\ \A m \in DOMAIN c :
               /\ cache'[m].cols = c[m].cols /\ cache'[m].lazy = c[m].lazy
               /\ cache'[m].mask = c[m].mask /\ cache'[m].parent = c[m].parent
        /\ cache'[new].lazy /\ cache'[new].mask = mask /\ cache'[new].parent = l
    <2>1. new \in Lists \ DOMAIN c
      BY <1>1
    <2>2. Typed(cache') /\ Linked(cache') /\ Rooted(cache') /\ Extends(cache', c, l, new, mask)
      BY <1>1, <1>3, <2>1, ViewIs
    <2> QED
      BY <2>2 DEF Extends
  <1>5. /\ Selected(rows[l], mask) \in Seq(Objects)
        /\ Image(value, Selected(rows[l], mask)) = Selected(Image(value, rows[l]), mask)
    BY <1>2, ColumnOfSelected
  <1>6. /\ rows' \in [Lists -> Seq(Objects)] /\ rows'[new] = Selected(rows[l], mask)
        /\ \A m \in DOMAIN c : rows'[m] = rows[m]
    BY <1>1, <1>5 DEF ColTypeOK
  <1>7. ColTypeOK'
    BY <1>1, <1>6 DEF ColTypeOK
  <1> DEFINE Col(m) == [i \in DOMAIN rows'[m] |-> value'[rows'[m][i]]]
  <1>8. /\ Col(new) = Selected(Column(l), mask)
        /\ \A m \in DOMAIN c : Col(m) = Column(m)
    <2>1. Image(value, rows[l]) = Column(l)
      BY DEF Image, Column
    <2>2. Image(value, rows'[new]) = Col(new)
      BY DEF Image
    <2>3. Col(new) = Selected(Column(l), mask)
      BY <1>5, <1>6, <2>1, <2>2, Zenon
    <2>4. ASSUME NEW m \in DOMAIN c PROVE Col(m) = Column(m)
      <3>1. rows'[m] = rows[m]
        BY <1>6, Zenon
      <3> QED
        BY <3>1 DEF Column
    <2> QED
      BY <2>3, <2>4
  <1> HIDE DEF Col
  <1>9. ASSUME NEW m \in DOMAIN cache'
        PROVE  IF cache'[m].lazy
               THEN /\ cache'[m].parent \in DOMAIN cache'
                    /\ ~cache'[cache'[m].parent].lazy
                    /\ Col(m) = Selected(Col(cache'[m].parent), cache'[m].mask)
               ELSE Col(m) = cache'[m].cols
    <2>1. CASE m = new
      <3>1. l \in DOMAIN cache' /\ ~cache'[l].lazy /\ Col(l) = Column(l)
        BY <1>4, <1>8
      <3> QED
        BY <1>4, <1>8, <2>1, <3>1
    <2>2. CASE m # new
      <3>1. m \in DOMAIN c
        BY <1>4, <2>2
      <3>2. IF c[m].lazy
            THEN /\ c[m].parent \in DOMAIN c /\ ~c[c[m].parent].lazy
                 /\ Column(m) = Selected(Column(c[m].parent), c[m].mask)
            ELSE Column(m) = c[m].cols
        BY <3>1 DEF CacheOK, Mirrors
      <3>3. /\ cache'[m].cols = c[m].cols /\ cache'[m].lazy = c[m].lazy
            /\ cache'[m].mask = c[m].mask /\ cache'[m].parent = c[m].parent
        BY <1>4, <3>1, Zenon
      <3>4. CASE c[m].lazy
        <4>1. c[m].parent \in DOMAIN cache' /\ ~cache'[c[m].parent].lazy
          BY <1>4, <3>2, <3>4
        <4>2. Col(m) = Column(m) /\ Col(c[m].parent) = Column(c[m].parent)
          BY <1>8, <3>1, <3>2, <3>4
        <4> QED
          BY <3>2, <3>3, <3>4, <4>1, <4>2
      <3>5. CASE ~c[m].lazy
        BY <1>8, <3>1, <3>2, <3>3, <3>5
      <3> QED
        BY <3>4, <3>5
    <2> QED
      BY <2>1, <2>2
  <1>10. Mirrors(cache)'
    BY <1>9 DEF Mirrors, Column, Col
  <1>11. DOMAIN cache' \subseteq live'
    BY <1>1, <1>4
  <1> QED
    BY <1>4, <1>7, <1>10, <1>11 DEF ColInv, CacheOK, Typed, Linked, Rooted

(* A list without columns gives a list without columns. *)
LEMMA PlainKeeps ==
    ASSUME ColCacheAssumption, ColInv, NEW l \in Lists, NEW new \in Views \ live,
           NEW mask \in SUBSET (1 .. Len(rows[l])),
           rows' = [rows EXCEPT ![new] = Selected(rows[l], mask)],
           live' = live \cup {new}, value' = value, owning' = owning, cache' = cache
    PROVE  ColInv'
  <1>1. /\ ColTypeOK /\ DOMAIN cache \subseteq live /\ new \in Lists
    BY DEF ColInv, Lists
  <1>2. Selected(rows[l], mask) \in Seq(Objects)
    BY <1>1, ColumnIs, ColumnOfSelected
  <1>3. /\ rows' \in [Lists -> Seq(Objects)]
        /\ \A m \in DOMAIN cache : rows'[m] = rows[m]
    BY <1>1, <1>2 DEF ColTypeOK
  <1>4. ColTypeOK'
    BY <1>1, <1>3 DEF ColTypeOK
  <1> DEFINE Col(m) == [i \in DOMAIN rows'[m] |-> value'[rows'[m][i]]]
  <1>5. \A m \in DOMAIN cache : Col(m) = Column(m)
    BY <1>3 DEF Column
  <1> HIDE DEF Col
  <1>6. ASSUME NEW m \in DOMAIN cache'
        PROVE  IF cache'[m].lazy
               THEN /\ cache'[m].parent \in DOMAIN cache'
                    /\ ~cache'[cache'[m].parent].lazy
                    /\ Col(m) = Selected(Col(cache'[m].parent), cache'[m].mask)
               ELSE Col(m) = cache'[m].cols
    BY <1>5 DEF ColInv, CacheOK, Mirrors
  <1>7. Mirrors(cache)'
    BY <1>6 DEF Mirrors, Column, Col
  <1> QED
    BY <1>1, <1>4, <1>7 DEF ColInv, CacheOK, Typed, Linked, Rooted

LEMMA FilterKeeps ==
    ASSUME ColCacheAssumption, Served, ColInv, NEW l \in live, NEW new \in Views,
           NEW v \in Values, Filter(l, new, v)
    PROVE  ColInv'
  <1>1. /\ ColTypeOK /\ l \in Lists /\ new \in Views \ live
        /\ live' = live \cup {new} /\ value' = value /\ owning' = owning
    BY DEF Filter, ColInv, ColTypeOK
  <1>2. /\ Column(l) \in Seq(Values) /\ DOMAIN Column(l) = 1 .. Len(rows[l])
        /\ DOMAIN rows[l] = 1 .. Len(rows[l])
    BY <1>1, ColumnIs
  <1>3. CASE l \in DOMAIN cache
    <2> DEFINE c == Materialized(cache, l)
               mask == {i \in DOMAIN c[l].cols : c[l].cols[i] = v}
    <2>1. /\ CacheOK(c) /\ DOMAIN c = DOMAIN cache /\ c[l].cols = Column(l) /\ ~c[l].lazy
          /\ c[l].children = cache[l].children
      BY <1>1, <1>3, MaterializedIs DEF ColInv
    <2>2. cache[l].children = <<>>
      BY <1>3 DEF Filter, Served
    <2>3. /\ rows' = [rows EXCEPT ![new] = Selected(rows[l], mask)]
          /\ cache' = WithView(c, l, new, mask)
      BY <1>3 DEF Filter
    <2> HIDE DEF c
    <2>4. mask \in SUBSET (1 .. Len(rows[l]))
      BY <1>2, <2>1
    <2> HIDE DEF mask
    <2> QED
      BY <1>1, <1>3, <2>1, <2>2, <2>3, <2>4, ViewKeeps
  <1>4. CASE l \notin DOMAIN cache
    <2> DEFINE mask == {i \in DOMAIN rows[l] : value[rows[l][i]] = v}
    <2>1. rows' = [rows EXCEPT ![new] = Selected(rows[l], mask)] /\ cache' = cache
      BY <1>4 DEF Filter
    <2>2. mask \in SUBSET (1 .. Len(rows[l]))
      BY <1>2
    <2> HIDE DEF mask
    <2> QED
      BY <1>1, <2>1, <2>2, PlainKeeps
  <1> QED
    BY <1>3, <1>4

-----------------------------------------------------------------------------
LEMMA InitHolds ==
    ASSUME ColCacheAssumption, ColInit
    PROVE  ColInv
  <1>1. /\ live = {Base} /\ Base \in Lists /\ NoList \notin Lists
        /\ rows = [l \in Lists |-> IF l = Base THEN FileRows ELSE <<>>]
        /\ value \in [Objects -> Values]
        /\ cache = [l \in {Base} |-> Cache(Column(Base), FALSE, {}, NoList)]
    BY DEF ColInit, Lists, ColCacheAssumption
  <1>2. FileRows \in Seq(Objects)
    <2>1. ToSet(FileRows) \subseteq Objects /\ FileRows \in Seq(ToSet(FileRows))
      BY DEF Objects, ColCacheAssumption
    <2>2. DOMAIN FileRows = 1 .. Len(FileRows) /\ Len(FileRows) \in Nat
      BY <2>1
    <2>3. \A i \in 1 .. Len(FileRows) : FileRows[i] \in Objects
      BY <2>1, <2>2
    <2> QED
      BY <2>1, <2>3
  <1>3. rows \in [Lists -> Seq(Objects)]
    BY <1>1, <1>2
  <1>4. owning \in [Objects -> {Base, NoList}]
    BY DEF ColInit
  <1>5. ColTypeOK
    BY <1>1, <1>3, <1>4 DEF ColTypeOK
  <1> DEFINE fresh == Cache(Column(Base), FALSE, {}, NoList)
  <1>6. /\ fresh.cols = Column(Base) /\ fresh.lazy = FALSE /\ fresh.parent = NoList
        /\ fresh.children = <<>> /\ fresh \in CacheRec
    <2>1. Column(Base) \in Seq(Values)
      BY <1>1, <1>5, ColumnIs
    <2> QED
      BY <2>1 DEF Cache, CacheRec
  <1>7. DOMAIN cache = {Base} /\ cache[Base] = fresh /\ cache \in [{Base} -> {fresh}]
    BY <1>1
  <1> HIDE DEF fresh
  <1>8. Typed(cache)
    BY <1>1, <1>6, <1>7 DEF Typed
  <1>9. Mirrors(cache)
    BY <1>6, <1>7 DEF Mirrors
  <1>10. Linked(cache)
    <2> SUFFICES ASSUME NEW l \in {Base}
                 PROVE  /\ cache[l].parent = NoList /\ cache[l].children = <<>>
                        /\ \A m \in Lists : (\E i \in 1 .. Len(cache[l].children) :
                                                cache[l].children[i] = m)
                               <=> m \in DOMAIN cache /\ cache[m].parent = l
      BY <1>7 DEF Linked
    <2>1. cache[l].parent = NoList /\ cache[l].children = <<>>
      BY <1>6, <1>7
    <2>2. \A m \in DOMAIN cache : cache[m].parent # l
      BY <1>1, <1>6, <1>7
    <2> QED
      BY <2>1, <2>2
  <1>11. Rooted(cache)
    BY <1>7 DEF Rooted
  <1> QED
    BY <1>1, <1>5, <1>7, <1>8, <1>9, <1>10, <1>11 DEF ColInv, CacheOK

LEMMA NextKeeps ==
    ASSUME ColCacheAssumption, Served, ColInv, [ColNext]_colVars
    PROVE  ColInv'
  <1>1. ASSUME NEW l \in live, NEW new \in Views, NEW v \in Values, Filter(l, new, v)
        PROVE  ColInv'
    BY <1>1, FilterKeeps
  <1>2. ASSUME NEW l \in live, CountWhere(l) PROVE ColInv'
    BY <1>2, CountWhereKeeps
  <1>3. ASSUME NEW l \in live, Pop(l) PROVE ColInv'
    BY <1>3, PopKeeps
  <1>4. ASSUME NEW l \in live, Reorder(l) PROVE ColInv'
    BY <1>4, ReorderKeeps
  <1>5. ASSUME NEW l \in live, NEW o \in Spare, NEW v \in Values, Push(l, o, v)
        PROVE  ColInv'
    BY <1>5, PushKeeps
  <1>6. ASSUME NEW l \in live, NEW o \in Reachable, SetItem(l, o) PROVE ColInv'
    BY <1>6, SetItemKeeps
  <1>7. ASSUME NEW o \in Reachable, NEW v \in Values, AssignAttr(o, v) PROVE ColInv'
    BY <1>7, AssignAttrKeeps
  <1>8. CASE FreeForest
    BY <1>8, FreeForestKeeps
  <1>9. CASE UNCHANGED colVars
    <2>1. /\ rows' = rows /\ live' = live /\ value' = value /\ owning' = owning
          /\ cache' = cache
      BY <1>9 DEF colVars
    <2>3. Mirrors(cache)'
      BY <2>1 DEF Mirrors, Column, ColInv, CacheOK
    <2>4. ColTypeOK' /\ (DOMAIN cache \subseteq live)'
      BY <2>1 DEF ColInv, ColTypeOK
    <2>5. Typed(cache)' /\ Linked(cache)' /\ Rooted(cache)'
      <3>1. Typed(cache)'
        BY <2>1 DEF ColInv, CacheOK, Typed
      <3>2. Linked(cache)'
        BY <2>1 DEF ColInv, CacheOK, Linked
      <3>3. Rooted(cache)'
        BY <2>1 DEF ColInv, CacheOK, Rooted
      <3> QED
        BY <3>1, <3>2, <3>3
    <2> QED
      BY <2>3, <2>4, <2>5 DEF ColInv, CacheOK
  <1> QED
    BY <1>1, <1>2, <1>3, <1>4, <1>5, <1>6, <1>7, <1>8, <1>9 DEF ColNext

(* For every script of the served kind, any rows and any attribute values:  *)
(* every list with columns was made by filters from the file's list, which  *)
(* has them too, and its columns are those of its rows.                     *)
THEOREM ColumnsInvariant ==
    ASSUME ColCacheAssumption, Served
    PROVE  ColSpec => []ColInv
  <1>1. ColInit => ColInv
    BY InitHolds
  <1>2. ColInv /\ [ColNext]_colVars => ColInv'
    BY NextKeeps
  <1> QED
    BY <1>1, <1>2, PTL DEF ColSpec

(* For scripts of the served kind only: a sum over columns (te_lq_sumby and *)
(* its kin) is the sum over the rows, and te_colcache_invalidate follows    *)
(* links to live lists only, after every sequence of filters (each of a     *)
(* list without a view), changes to lists and assignments to objects that   *)
(* no prebuilt columns show.  Two views of one list, an assignment to an    *)
(* object of prebuilt columns and a request that ends with columned lists   *)
(* of its own each make it false.                                           *)
THEOREM SumsAreTheRows ==
    ASSUME ColCacheAssumption, Served
    PROVE  ColSpec => []CachesSound
  <1>1. ColInv => CachesSound
    <2> SUFFICES ASSUME ColInv PROVE ColumnsFollowRows /\ LinksHold
      BY DEF CachesSound
    <2>1. ASSUME NEW l \in live \cap DOMAIN cache
          PROVE  /\ Usable(l)
                 /\ Column(l) = IF cache[l].lazy
                                THEN Selected(cache[cache[l].parent].cols, cache[l].mask)
                                ELSE cache[l].cols
      BY DEF ColInv, CacheOK, Mirrors, Usable
    <2>2. ASSUME NEW l \in DOMAIN cache
          PROVE  /\ cache[l].parent # NoList => cache[l].parent \in DOMAIN cache
                 /\ ToSet(cache[l].children) \subseteq live
      <3>1. /\ cache[l].parent \in DOMAIN cache \cup {NoList}
            /\ \A m \in Lists : (\E i \in 1 .. Len(cache[l].children) :
                                     cache[l].children[i] = m)
                                => m \in DOMAIN cache
        BY DEF ColInv, CacheOK, Linked
      <3>2. cache[l].children \in Seq(Lists)
        BY Shape DEF ColInv, CacheOK
      <3>3. ToSet(cache[l].children) \subseteq DOMAIN cache
        BY <3>1, <3>2 DEF ToSet
      <3> QED
        BY <3>1, <3>3 DEF ColInv
    <2> QED
      BY <2>1, <2>2 DEF ColumnsFollowRows, LinksHold
  <1> QED
    BY <1>1, ColumnsInvariant, PTL

-----------------------------------------------------------------------------
(* CsvLoad: the threads that load a file.                                   *)
(* What a buffer holds, and where the chunks are cut.                       *)
Buffers == {b \in Seq({"x", "n", "0"}) : Len(b) = Len(file)}

Cut(i) == IF i = n + 1 THEN Eof ELSE Start(file, i)

Input == /\ file \in Seq({"x", "n"}) /\ file \in Buffers
         /\ n \in Nat \ {0} /\ n <= Len(file) /\ mode \in {"rows", "cols", "frame"}

LEMMA LeastOf ==
    ASSUME NEW S \in SUBSET Nat, S # {}
    PROVE  Min(S) \in S /\ \A y \in S : Min(S) <= y
  BY Smallest, Zenon DEF Min

LEMMA BufferIs ==
    ASSUME Input, NEW b \in Buffers
    PROVE  /\ Len(file) \in Nat \ {0} /\ Eof = Len(file) + 1 /\ Eof \in Nat
           /\ Len(b) = Len(file) /\ DOMAIN b = 1 .. Len(file)
           /\ \A k \in 1 .. Len(file) : b[k] \in {"x", "n", "0"}
  <1>1. b \in Seq({"x", "n", "0"}) /\ Len(b) = Len(file) /\ file \in Seq({"x", "n"})
    BY DEF Input, Buffers
  <1>2. Len(file) \in Nat /\ Len(file) # 0
    BY <1>1 DEF Input
  <1> QED
    BY <1>1, <1>2 DEF Eof

(* The scanners: the end of a line, the line after it, the next byte of a   *)
(* row, and the first row at or behind a cut.                               *)
LEMMA LineEndIs ==
    ASSUME Input, NEW b \in Buffers, NEW p \in 1 .. Eof
    PROVE  /\ LineEnd(b, p) \in p .. Eof
           /\ LineEnd(b, p) < Eof => b[LineEnd(b, p)] = "n"
           /\ \A k \in p .. Len(file) : k < LineEnd(b, p) => b[k] # "n"
  <1> DEFINE len == Len(file)
             S == {k \in p .. len : b[k] = "n"} \cup {len + 1}
  <1>1. len \in Nat /\ Eof = len + 1 /\ Len(b) = len
    BY BufferIs
  <1>2. LineEnd(b, p) = Min(S)
    BY <1>1 DEF LineEnd
  <1> HIDE DEF len
  <1>3. S \in SUBSET Nat /\ S # {}
    BY <1>1
  <1>4. Min(S) \in S /\ \A y \in S : Min(S) <= y
    BY <1>3, LeastOf
  <1> QED
    <2> DEFINE m == Min(S)
    <2>1. m \in S /\ \A y \in S : m <= y
      BY <1>4
    <2> HIDE DEF m
    <2>2. m \in p .. len + 1
      BY <1>1, <2>1
    <2>3. m < len + 1 => b[m] = "n"
      BY <1>1, <2>1
    <2>4. \A k \in p .. len : k < m => b[k] # "n"
      BY <1>1, <2>1, <2>2
    <2> QED
      BY <1>1, <1>2, <2>2, <2>3, <2>4 DEF m, len

LEMMA NextLineIs ==
    ASSUME Input, NEW b \in Buffers, NEW p \in 1 .. Eof
    PROVE  /\ NextLine(b, p) \in p .. Eof
           /\ p < Eof => NextLine(b, p) > p
           /\ NextLine(b, p) < Eof => b[NextLine(b, p) - 1] = "n" /\ NextLine(b, p) > 1
           /\ \A k \in p .. Len(file) : k + 1 < NextLine(b, p) => b[k] # "n"
  <1> DEFINE len == Len(file)
             e == LineEnd(b, p)
             S == {e + 1, len + 1}
  <1>1. len \in Nat /\ Eof = len + 1 /\ Len(b) = len
    BY BufferIs
  <1>2. /\ e \in p .. Eof
        /\ e < Eof => b[e] = "n"
        /\ \A k \in p .. len : k < e => b[k] # "n"
    BY LineEndIs
  <1>3. NextLine(b, p) = Min(S)
    BY <1>1 DEF NextLine
  <1> HIDE DEF len, e
  <1>4. S \in SUBSET Nat /\ S # {}
    BY <1>1, <1>2
  <1>5. Min(S) \in S /\ \A y \in S : Min(S) <= y
    BY <1>4, LeastOf
  <1>6. Min(S) = IF e < Eof THEN e + 1 ELSE Eof
    BY <1>1, <1>2, <1>5
  <1> QED
    <2> DEFINE m == Min(S)
    <2>1. m = IF e < Eof THEN e + 1 ELSE Eof
      BY <1>6
    <2> HIDE DEF m
    <2>2. m \in p .. Eof /\ (p < Eof => m > p)
      BY <1>1, <1>2, <2>1
    <2>3. m < Eof => b[m - 1] = "n" /\ m > 1
      BY <1>1, <1>2, <2>1
    <2>4. \A k \in p .. len : k + 1 < m => b[k] # "n"
      BY <1>1, <1>2, <2>1
    <2> QED
      BY <1>3, <2>2, <2>3, <2>4 DEF m, len

LEMMA SkipBlankIs ==
    ASSUME Input, NEW b \in Buffers, NEW p \in 1 .. Eof
    PROVE  /\ SkipBlank(b, p) \in p .. Eof
           /\ p < Eof /\ b[p] # "n" => SkipBlank(b, p) = p
  <1> DEFINE len == Len(file)
             S == {k \in p .. len : b[k] # "n"} \cup {len + 1}
  <1>1. len \in Nat /\ Eof = len + 1 /\ Len(b) = len
    BY BufferIs
  <1>2. SkipBlank(b, p) = Min(S)
    BY <1>1 DEF SkipBlank
  <1> HIDE DEF len
  <1>3. S \in SUBSET Nat /\ S # {}
    BY <1>1
  <1>4. Min(S) \in S /\ \A y \in S : Min(S) <= y
    BY <1>3, LeastOf
  <1> QED
    BY <1>1, <1>2, <1>4

LEMMA FirstRowIs ==
    ASSUME Input, NEW b \in Buffers, NEW p \in 2 .. Eof
    PROVE  /\ FirstRow(b, p) \in p .. Eof
           /\ FirstRow(b, p) < Eof => b[FirstRow(b, p) - 1] = "n"
           /\ \A k \in p .. Eof : k < FirstRow(b, p) => b[k - 1] # "n"
  <1>1. Eof \in Nat /\ Eof = Len(file) + 1 /\ p \in 1 .. Eof
    BY BufferIs
  <1>2. CASE b[p - 1] = "n"
    BY <1>1, <1>2 DEF FirstRow
  <1>3. CASE b[p - 1] # "n"
    <2> DEFINE r == NextLine(b, p)
    <2>1. FirstRow(b, p) = r
      BY <1>3 DEF FirstRow
    <2>2. /\ r \in p .. Eof
          /\ r < Eof => b[r - 1] = "n" /\ r > 1
          /\ \A k \in p .. Len(file) : k + 1 < r => b[k] # "n"
      BY <1>1, NextLineIs
    <2> HIDE DEF r
    <2>3. ASSUME NEW k \in p .. Eof, k < r PROVE b[k - 1] # "n"
      <3>1. CASE k = p
        BY <1>3, <3>1
      <3>2. CASE k > p
        <4>1. k - 1 \in p .. Len(file) /\ (k - 1) + 1 < r
          BY <1>1, <2>2, <2>3, <3>2
        <4> QED
          BY <2>2, <4>1
      <3> QED
        BY <1>1, <3>1, <3>2
    <2> QED
      BY <2>1, <2>2, <2>3
  <1> QED
    BY <1>2, <1>3

-----------------------------------------------------------------------------
(* The cuts. *)
LEMMA ChunkIs ==
    ASSUME Input, NEW i \in 1 .. n
    PROVE  /\ From(i) \in 1 .. Len(file) /\ (i = 1 => From(i) = 1) /\ (i > 1 => From(i) > 1)
           /\ i < n => To(i) = From(i + 1) /\ To(i) < Eof
           /\ i = n => To(i) = Eof
           /\ From(i) < To(i)
  <1> DEFINE len == Len(file)
             q == len \div n
  <1>1. len \in Nat /\ Eof = len + 1 /\ n \in Nat \ {0} /\ n <= len /\ i \in Nat
    BY BufferIs DEF Input
  <1>2. q \in Nat /\ q >= 1 /\ n * q <= len
    <2> HIDE DEF len
    <2> QED
      BY <1>1
  <1>3. /\ From(i) = (i - 1) * q + 1 /\ From(i + 1) = (i + 1 - 1) * q + 1
        /\ To(i) = IF i = n THEN Eof ELSE i * q + 1
    BY DEF From, To
  <1> HIDE DEF len, q
  <1>4. /\ i * q = (i - 1) * q + q /\ i * q <= n * q /\ (i - 1) * q \in Nat
        /\ i < n => (i + 1) * q <= n * q /\ (i + 1) * q = i * q + q
        /\ i = 1 => (i - 1) * q = 0
        /\ i > 1 => (i - 1) * q >= 1
    <2>1. i - 1 \in Nat /\ i * q = (i - 1) * q + q /\ (i - 1) * q \in Nat
      BY <1>1, <1>2
    <2>2. i * q <= n * q
      BY <1>1, <1>2
    <2>3. i < n => (i + 1) * q <= n * q /\ (i + 1) * q = i * q + q
      BY <1>1, <1>2
    <2>4. i > 1 => (i - 1) * q >= 1
      BY <1>1, <1>2
    <2>5. i = 1 => (i - 1) * q = 0
      BY <1>2
    <2> QED
      BY <2>1, <2>2, <2>3, <2>4, <2>5
  <1>5. i + 1 - 1 = i
    BY <1>1
  <1> DEFINE a == (i - 1) * q
             c == i * q
             d == (i + 1) * q
             z == n * q
  <1> HIDE DEF a, c, d, z
  <1> QED
    BY <1>1, <1>2, <1>3, <1>4, <1>5 DEF a, c, d, z, len

LEMMA CutIs ==
    ASSUME Input, NEW i \in 1 .. n
    PROVE  /\ Cut(i) \in 1 .. Eof /\ Cut(i) = Start(file, i) /\ Cut(1) = 1
           /\ Cut(n + 1) = Eof
           /\ Cut(i + 1) \in 1 .. Eof
           /\ Cut(i) <= Cut(i + 1)
           /\ To(i) <= Cut(i + 1)
           /\ Cut(i) >= From(i)
  <1>1. file \in Buffers /\ n \in Nat \ {0} /\ Eof \in Nat /\ Len(file) \in Nat /\ Eof = Len(file) + 1
    BY BufferIs DEF Input
  <1>2. ASSUME NEW j \in 1 .. n
        PROVE  /\ Cut(j) \in 1 .. Eof /\ Cut(j) = Start(file, j) /\ Cut(j) >= From(j)
               /\ j > 1 => /\ From(j) \in 2 .. Eof /\ Cut(j) = FirstRow(file, From(j))
    <2>1. From(j) \in 1 .. Len(file) /\ (j > 1 => From(j) > 1) /\ (j = 1 => From(j) = 1)
      BY ChunkIs
    <2>2. Cut(j) = Start(file, j)
      BY <1>1 DEF Cut
    <2>3. CASE j = 1
      BY <1>1, <2>1, <2>2, <2>3 DEF Start
    <2>4. CASE j > 1
      <3>1. From(j) \in 2 .. Eof
        BY <1>1, <2>1, <2>4
      <3>2. Start(file, j) = FirstRow(file, From(j))
        BY <2>4 DEF Start
      <3>3. FirstRow(file, From(j)) \in From(j) .. Eof
        BY <1>1, <3>1, FirstRowIs
      <3> QED
        BY <1>1, <2>1, <2>2, <3>1, <3>2, <3>3
    <2> QED
      BY <2>3, <2>4
  <1>3. Cut(1) = 1
    <2>1. 1 \in 1 .. n
      BY <1>1
    <2> QED
      BY <1>2, <2>1, ChunkIs DEF Start
  <1>4. Cut(n + 1) = Eof
    BY DEF Cut
  <1>5. CASE i = n
    <2>1. To(i) = Eof
      BY <1>5, ChunkIs
    <2> QED
      BY <1>1, <1>2, <1>3, <1>4, <1>5, <2>1
  <1>6. CASE i < n
    <2>1. i + 1 \in 1 .. n /\ i + 1 > 1
      BY <1>1, <1>6
    <2>2. To(i) = From(i + 1) /\ From(i) < To(i)
      BY <1>6, ChunkIs
    <2>3. Cut(i + 1) \in 1 .. Eof /\ Cut(i + 1) >= From(i + 1)
          /\ From(i + 1) \in 2 .. Eof /\ Cut(i + 1) = FirstRow(file, From(i + 1))
      BY <1>2, <2>1
    <2>4. Cut(i) <= Cut(i + 1)
      <3>1. CASE i = 1
        BY <1>3, <2>3, <3>1
      <3>2. CASE i > 1
        <4> DEFINE r == Cut(i)
                   s == Cut(i + 1)
        <4>1. /\ From(i) \in 2 .. Eof /\ r = FirstRow(file, From(i)) /\ r \in 1 .. Eof
          BY <1>2, <3>2
        <4>2. \A k \in From(i) .. Eof : k < r => file[k - 1] # "n"
          BY <1>1, <4>1, FirstRowIs
        <4>3. s < Eof => file[s - 1] = "n"
          BY <1>1, <2>3, FirstRowIs
        <4>4. s \in 1 .. Eof /\ s >= From(i) /\ From(i) \in Nat
          BY <2>2, <2>3, <4>1
        <4> HIDE DEF r, s
        <4>5. r <= s
          BY <1>1, <4>1, <4>2, <4>3, <4>4
        <4> QED
          BY <4>5 DEF r, s
      <3> QED
        BY <3>1, <3>2
    <2> QED
      BY <1>1, <1>2, <1>3, <1>4, <2>2, <2>3, <2>4
  <1> QED
    BY <1>1, <1>5, <1>6

-----------------------------------------------------------------------------
(* Places one worker after the other. *)
Counted(count) == count \in [Workers -> Nat]

LEMMA BeforeNext ==
    ASSUME Input, NEW count, Counted(count)
    PROVE  /\ Before(count, 1) = 0
           /\ \A i \in 1 .. n + 1 : Before(count, i) \in Nat
           /\ \A i \in Workers : Before(count, i + 1) = Before(count, i) + count[i]
  <1> DEFINE P(i) == UNION {{w} \X (1 .. count[w]) : w \in 1 .. i - 1}
             bad == {i \in 1 .. n + 1 : ~ IsFiniteSet(P(i))}
  <1>1. n \in Nat \ {0} /\ \A i \in Workers : count[i] \in Nat
    BY DEF Input, Counted, Workers
  <1>2. \A i \in 1 .. n + 1 : Before(count, i) = Cardinality(P(i))
    BY Zenon DEF Before
  <1>3. P(1) = {}
    OBVIOUS
  <1>4. ASSUME NEW i \in Workers
        PROVE  P(i + 1) = P(i) \cup ({i} \X (1 .. count[i]))
    <2>1. 1 .. (i + 1) - 1 = (1 .. i - 1) \cup {i}
      BY <1>1 DEF Workers
    <2> QED
      BY <2>1
  <1>5. ASSUME NEW i \in Workers
        PROVE  P(i) \cap ({i} \X (1 .. count[i])) = {}
    <2>1. i \notin 1 .. i - 1
      BY <1>1 DEF Workers
    <2> QED
      BY <2>1
  <1>6. ASSUME NEW i \in Workers
        PROVE  /\ IsFiniteSet({i} \X (1 .. count[i]))
               /\ Cardinality({i} \X (1 .. count[i])) = count[i]
    <2>1. count[i] \in Nat
      BY <1>1
    <2> DEFINE c == count[i]
    <2> HIDE DEF c
    <2>2. IsFiniteSet(1 .. c) /\ Cardinality(1 .. c) = c
      BY <2>1, FS_Interval DEF c
    <2>3. IsFiniteSet({i}) /\ Cardinality({i}) = 1
      BY FS_Singleton
    <2>4. IsFiniteSet({i} \X (1 .. c)) /\ Cardinality({i} \X (1 .. c)) = 1 * c
      BY <2>2, <2>3, FS_Product
    <2> QED
      BY <2>1, <2>4 DEF c
  <1> HIDE DEF P
  <1>7. bad = {}
    <2> SUFFICES ASSUME bad # {} PROVE FALSE
      OBVIOUS
    <2>1. PICK i \in bad : \A j \in bad : i <= j
      <3>1. bad \in SUBSET Nat
        BY <1>1
      <3> HIDE DEF bad
      <3> QED
        BY <3>1, Smallest
    <2>2. i # 1
      BY <1>3, <2>1, FS_EmptySet
    <2>3. i - 1 \in Workers /\ i - 1 \in 1 .. n + 1 /\ i - 1 \notin bad /\ (i - 1) + 1 = i
      BY <1>1, <2>1, <2>2 DEF Workers
    <2>4. IsFiniteSet(P(i - 1))
      BY <2>3
    <2> DEFINE k == i - 1
    <2>5. k \in Workers /\ IsFiniteSet(P(k)) /\ P(i) = P(k + 1)
      BY <2>3, <2>4
    <2> HIDE DEF k
    <2>6. IsFiniteSet(P(k + 1))
      <3> DEFINE Q == {k} \X (1 .. count[k])
      <3>1. P(k + 1) = P(k) \cup Q /\ IsFiniteSet(Q)
        BY <1>4, <1>6, <2>5
      <3> DEFINE A == P(k)
      <3>2. IsFiniteSet(A) /\ IsFiniteSet(Q)
        BY <2>5, <3>1
      <3> HIDE DEF A, Q
      <3>3. IsFiniteSet(A \cup Q)
        BY <3>2, FS_Union
      <3> QED
        BY <3>1, <3>3 DEF A
    <2> QED
      BY <2>1, <2>5, <2>6
  <1>8. \A i \in 1 .. n + 1 : IsFiniteSet(P(i)) /\ Before(count, i) \in Nat
    BY <1>2, <1>7, FS_CardinalityType
  <1>9. ASSUME NEW i \in Workers PROVE Before(count, i + 1) = Before(count, i) + count[i]
    <2> DEFINE Q == {i} \X (1 .. count[i])
    <2>1. i \in 1 .. n + 1 /\ i + 1 \in 1 .. n + 1
      BY <1>1 DEF Workers
    <2>2. /\ P(i + 1) = P(i) \cup Q /\ P(i) \cap Q = {}
          /\ IsFiniteSet(Q) /\ Cardinality(Q) = count[i] /\ IsFiniteSet(P(i))
      BY <1>4, <1>5, <1>6, <1>8, <2>1
    <2> HIDE DEF Q
    <2>3. Cardinality(P(i) \cup Q) = Cardinality(P(i)) + Cardinality(Q) - Cardinality(P(i) \cap Q)
      BY <2>2, FS_Union
    <2>4. Cardinality(P(i) \cap Q) = 0
      BY <2>2, FS_EmptySet
    <2> QED
      BY <1>1, <1>2, <1>8, <2>1, <2>2, <2>3, <2>4
  <1>10. Before(count, 1) = 0
    <2>1. 1 \in 1 .. n + 1
      BY <1>1
    <2> QED
      BY <1>2, <1>3, <2>1, FS_EmptySet
  <1> QED
    BY <1>8, <1>9, <1>10

LEMMA BeforeGrows ==
    ASSUME Input, NEW count, Counted(count), NEW i \in Workers, NEW j \in 1 .. n + 1, i < j
    PROVE  Before(count, i) + count[i] <= Before(count, j)
  <1> DEFINE B(k) == Before(count, k)
             bad == {k \in 1 .. n + 1 : i < k /\ ~ (B(i) + count[i] <= B(k))}
  <1>1. n \in Nat \ {0} /\ i \in Nat /\ \A k \in Workers : count[k] \in Nat
    BY DEF Input, Counted, Workers
  <1>2. /\ \A k \in 1 .. n + 1 : B(k) \in Nat
        /\ \A k \in Workers : B(k + 1) = B(k) + count[k]
    BY BeforeNext
  <1> HIDE DEF B
  <1> SUFFICES ASSUME bad # {} PROVE FALSE
    BY DEF B
  <1>3. PICK k \in bad : \A m \in bad : k <= m
    <2>1. bad \in SUBSET Nat
      BY <1>1
    <2> HIDE DEF bad
    <2> QED
      BY <2>1, Smallest
  <1>4. k - 1 \in Workers /\ k - 1 \in 1 .. n + 1 /\ (k - 1) + 1 = k /\ k - 1 \notin bad
        /\ k \in Nat /\ i \in 1 .. n + 1
    BY <1>1, <1>3 DEF Workers
  <1>5. B(k) = B(k - 1) + count[k - 1]
    BY <1>2, <1>4
  <1>6. CASE k - 1 = i
    BY <1>1, <1>2, <1>3, <1>5, <1>6
  <1>7. CASE k - 1 # i
    <2>1. i < k - 1
      BY <1>1, <1>3, <1>4, <1>7
    <2>2. B(i) + count[i] <= B(k - 1)
      BY <1>4, <2>1
    <2> QED
      BY <1>1, <1>2, <1>3, <1>4, <1>5, <2>2
  <1> QED
    BY <1>6, <1>7

(* Every place is some worker's, and of one worker only.                    *)
LEMMA PlaceIsOnes ==
    ASSUME Input, NEW count, Counted(count), NEW k \in 1 .. Before(count, n + 1)
    PROVE  \E i \in Workers : Before(count, i) < k /\ k <= Before(count, i + 1)
  <1> DEFINE B(j) == Before(count, j)
             S == {j \in 1 .. n + 1 : k <= B(j)}
  <1>1. n \in Nat \ {0}
    BY DEF Input
  <1>2. B(1) = 0 /\ \A j \in 1 .. n + 1 : B(j) \in Nat
    BY BeforeNext
  <1> HIDE DEF B
  <1>3. n + 1 \in S /\ S \in SUBSET Nat
    BY <1>1 DEF B
  <1>4. PICK j \in S : \A m \in S : j <= m
    BY <1>3, Smallest
  <1>5. k \in Nat \ {0}
    BY <1>1, <1>2 DEF B
  <1>6. j # 1
    BY <1>2, <1>4, <1>5
  <1>7. j - 1 \in Workers /\ j - 1 \in 1 .. n + 1 /\ (j - 1) + 1 = j /\ j - 1 \notin S
    BY <1>1, <1>4, <1>6 DEF Workers
  <1>8. B(j - 1) < k /\ k <= B((j - 1) + 1)
    BY <1>2, <1>4, <1>5, <1>7
  <1> QED
    BY <1>7, <1>8 DEF B

LEMMA PlaceIsHis ==
    ASSUME Input, NEW count, Counted(count), NEW i \in Workers, NEW j \in Workers,
           NEW k \in 1 .. count[i], NEW m \in 1 .. count[j],
           Before(count, i) + k = Before(count, j) + m
    PROVE  i = j /\ k = m
  <1> DEFINE B(l) == Before(count, l)
  <1>1. /\ n \in Nat \ {0} /\ i \in Nat /\ j \in Nat /\ i \in 1 .. n + 1 /\ j \in 1 .. n + 1
        /\ count[i] \in Nat /\ count[j] \in Nat
    BY DEF Input, Counted, Workers
  <1>2. B(i) \in Nat /\ B(j) \in Nat
    BY <1>1, BeforeNext
  <1>3. (i < j => B(i) + count[i] <= B(j)) /\ (j < i => B(j) + count[j] <= B(i))
    BY <1>1, BeforeGrows
  <1>4. B(i) + k = B(j) + m
    OBVIOUS
  <1> HIDE DEF B
  <1> QED
    BY <1>1, <1>2, <1>3, <1>4

LEMMA BeforeBounded ==
    ASSUME Input, NEW count, Counted(count),
           \A i \in Workers : count[i] <= Cut(i + 1) - Cut(i)
    PROVE  Before(count, n + 1) < Eof
  <1> DEFINE B(k) == Before(count, k)
             C(k) == Cut(k)
             bad == {k \in 1 .. n + 1 : ~ (B(k) < C(k))}
  <1>1. n \in Nat \ {0} /\ \A k \in Workers : count[k] \in Nat
    BY DEF Input, Counted, Workers
  <1>2. /\ B(1) = 0
        /\ \A k \in 1 .. n + 1 : B(k) \in Nat
        /\ \A k \in Workers : B(k + 1) = B(k) + count[k]
    BY BeforeNext
  <1>3. /\ C(1) = 1 /\ C(n + 1) = Eof
        /\ \A k \in Workers : C(k) \in Nat /\ C(k + 1) \in Nat /\ count[k] <= C(k + 1) - C(k)
    <2>1. 1 \in 1 .. n
      BY <1>1
    <2>2. Eof \in Nat
      BY BufferIs DEF Input
    <2> QED
      BY <2>1, <2>2, CutIs DEF Workers
  <1> HIDE DEF B, C
  <1>4. bad = {}
    <2> SUFFICES ASSUME bad # {} PROVE FALSE
      OBVIOUS
    <2>1. PICK k \in bad : \A m \in bad : k <= m
      <3>1. bad \in SUBSET Nat
        BY <1>1
      <3> HIDE DEF bad
      <3> QED
        BY <3>1, Smallest
    <2>2. k # 1
      BY <1>2, <1>3, <2>1
    <2>3. k - 1 \in Workers /\ k - 1 \in 1 .. n + 1 /\ (k - 1) + 1 = k /\ k - 1 \notin bad
      BY <1>1, <2>1, <2>2 DEF Workers
    <2>4. B(k - 1) < C(k - 1) /\ B(k) = B(k - 1) + count[k - 1]
          /\ count[k - 1] <= C(k) - C(k - 1) /\ C(k - 1) \in Nat /\ C(k) \in Nat
      BY <1>2, <1>3, <2>3
    <2> QED
      BY <1>1, <1>2, <2>1, <2>3, <2>4
  <1>5. n + 1 \in 1 .. n + 1
    BY <1>1
  <1> QED
    BY <1>3, <1>4, <1>5 DEF B, C

-----------------------------------------------------------------------------
(* What holds of every load. *)
WorkerRec == [pc : {"start", "counted", "scan", "done"}, pos : 1 .. Eof,
              rows : Seq(1 .. Len(file)), reserved : Nat]

CsvTypeOK == /\ Input /\ buf \in Buffers
             /\ worker \in [Workers -> WorkerRec]
             /\ cols \in [1 .. Eof -> 0 .. Len(file)]

(* No worker has more places than its chunk has bytes.                      *)
ReservedOK == \A i \in Workers : worker[i].reserved <= Cut(i + 1) - Cut(i)

(* While a worker of a dataframe has yet to count, none scans.              *)
PhaseOK ==
    mode = "frame" /\ (\E i \in Workers : worker[i].pc \in {"start", "counted"})
    => /\ \A i \in Workers : worker[i].pc \in {"start", "counted"} /\ worker[i].rows = <<>>
       /\ buf = file

(* As long as no worker wrote more than was reserved for it, the rows of    *)
(* each are at its places.                                                  *)
Within == \A i \in Workers : Len(worker[i].rows) <= worker[i].reserved

PlacesOK ==
    Within /\ HasColumns
    => \A i \in Workers : \A k \in 1 .. Len(worker[i].rows) :
           cols[Offset(i) + k] = worker[i].rows[k]

CsvInv == CsvTypeOK /\ ReservedOK /\ PhaseOK /\ PlacesOK /\ ColumnsMirrorList

LEMMA WorkerIs ==
    ASSUME CsvTypeOK, NEW i \in Workers
    PROVE  /\ worker[i].pc \in {"start", "counted", "scan", "done"}
           /\ worker[i].pos \in 1 .. Eof /\ worker[i].rows \in Seq(1 .. Len(file))
           /\ worker[i].reserved \in Nat /\ Len(worker[i].rows) \in Nat
           /\ worker[i] \in WorkerRec
  BY DEF CsvTypeOK, WorkerRec

(* A step of one worker. *)
Works(i, pc, pos, r, reserved) ==
    /\ \A w \in Workers : w # i => worker'[w] = worker[w]
    /\ worker'[i].pc = pc /\ worker'[i].pos = pos /\ worker'[i].rows = r
    /\ worker'[i].reserved = reserved
    /\ worker' \in [Workers -> WorkerRec]

LEMMA StartIs ==
    ASSUME Input, NEW b \in Buffers, NEW i \in Workers
    PROVE  Start(b, i) \in 1 .. Eof
  <1>1. i \in 1 .. n /\ Eof \in Nat /\ Eof = Len(file) + 1
    BY BufferIs DEF Workers
  <1>2. From(i) \in 1 .. Len(file) /\ (i > 1 => From(i) > 1)
    BY <1>1, ChunkIs
  <1>3. CASE i = 1
    BY <1>1, <1>2, <1>3 DEF Start
  <1>4. CASE i # 1
    <2>1. From(i) \in 2 .. Eof
      BY <1>1, <1>2, <1>4
    <2>2. FirstRow(b, From(i)) \in From(i) .. Eof
      BY <2>1, FirstRowIs
    <2> QED
      BY <1>1, <1>4, <2>1, <2>2 DEF Start
  <1> QED
    BY <1>3, <1>4

LEMMA FindStartWorks ==
    ASSUME CsvTypeOK, NEW i \in Workers, FindStart(i)
    PROVE  Works(i, "scan", Start(buf, i), worker[i].rows, worker[i].reserved)
  <1> DEFINE p == Start(buf, i)
  <1>1. p \in 1 .. Eof
    BY StartIs DEF CsvTypeOK
  <1> HIDE DEF p
  <1>2. worker' = [worker EXCEPT ![i].pc = "scan", ![i].pos = p]
    BY DEF FindStart, p
  <1>3. worker \in [Workers -> WorkerRec]
    BY DEF CsvTypeOK
  <1>4. worker' \in [Workers -> WorkerRec]
    BY <1>1, <1>2, <1>3 DEF WorkerRec
  <1>5. /\ \A w \in Workers : w # i => worker'[w] = worker[w]
        /\ worker'[i].pc = "scan" /\ worker'[i].pos = p /\ worker'[i].rows = worker[i].rows
        /\ worker'[i].reserved = worker[i].reserved
    BY <1>2, <1>3 DEF WorkerRec
  <1> QED
    BY <1>4, <1>5 DEF Works, p

LEMMA NewlinesIs ==
    ASSUME Input, NEW b \in Buffers, NEW lo \in 1 .. Eof, NEW hi \in 1 .. Eof
    PROVE  /\ IsFiniteSet({k \in lo .. hi - 1 : b[k] = "n"})
           /\ Newlines(b, lo, hi) \in Nat
           /\ lo <= hi => Newlines(b, lo, hi) <= hi - lo
           /\ lo < hi /\ hi = Eof /\ b[Len(file)] # "n" => Newlines(b, lo, hi) + 1 <= hi - lo
  <1> DEFINE S == {k \in lo .. hi - 1 : b[k] = "n"}
  <1>1. Eof \in Nat /\ Eof = Len(file) + 1 /\ lo \in Nat /\ hi \in Nat
    BY BufferIs
  <1>2. /\ IsFiniteSet(lo .. hi - 1)
        /\ Cardinality(lo .. hi - 1) = IF lo > hi - 1 THEN 0 ELSE hi - 1 - lo + 1
    <2> DEFINE h == hi - 1
    <2>1. h \in Int /\ lo \in Int
      BY <1>1
    <2> HIDE DEF h
    <2>2. IsFiniteSet(lo .. h) /\ Cardinality(lo .. h) = IF lo > h THEN 0 ELSE h - lo + 1
      BY <2>1, FS_Interval
    <2> QED
      BY <2>2 DEF h
  <1>3. IsFiniteSet(S) /\ Cardinality(S) <= Cardinality(lo .. hi - 1) /\ Cardinality(S) \in Nat
    BY <1>2, FS_Subset, FS_CardinalityType
  <1>4. Newlines(b, lo, hi) = Cardinality(S)
    BY DEF Newlines
  <1>5. ASSUME lo < hi, hi = Eof, b[Len(file)] # "n"
        PROVE  Newlines(b, lo, hi) + 1 <= hi - lo
    <2>1. /\ IsFiniteSet(lo .. hi - 2)
          /\ Cardinality(lo .. hi - 2) = IF lo > hi - 2 THEN 0 ELSE hi - 2 - lo + 1
      <3> DEFINE h == hi - 2
      <3>1. h \in Int /\ lo \in Int
        BY <1>1
      <3> HIDE DEF h
      <3>2. IsFiniteSet(lo .. h) /\ Cardinality(lo .. h) = IF lo > h THEN 0 ELSE h - lo + 1
        BY <3>1, FS_Interval
      <3> QED
        BY <3>2 DEF h
    <2>2. S \in SUBSET (lo .. hi - 2)
      BY <1>1, <1>5
    <2> HIDE DEF S
    <2>3. Cardinality(S) <= Cardinality(lo .. hi - 2)
      BY <2>1, <2>2, FS_Subset
    <2> QED
      BY <1>1, <1>3, <1>4, <1>5, <2>1, <2>3
  <1> HIDE DEF S
  <1>6. lo <= hi => Newlines(b, lo, hi) <= hi - lo
    BY <1>1, <1>2, <1>3, <1>4
  <1> QED
    BY <1>3, <1>4, <1>5, <1>6 DEF S

(* Where the next worker begins, in a buffer nobody has scanned.            *)
LEMMA StopIs ==
    ASSUME Input, buf = file, NEW i \in Workers
    PROVE  Stop(i) = Cut(i + 1)
  <1>1. i \in 1 .. n /\ n \in Nat
    BY DEF Workers, Input
  <1>2. CASE i = n
    <2>1. To(i) = Eof /\ Eof \in Nat
      BY <1>1, <1>2, ChunkIs, BufferIs DEF Input
    <2> QED
      BY <1>2, <2>1 DEF Stop, Cut
  <1>3. CASE i # n
    <2>1. To(i) = From(i + 1) /\ To(i) < Eof /\ i + 1 # 1 /\ i + 1 # n + 1
      BY <1>1, <1>3, ChunkIs
    <2> QED
      BY <2>1 DEF Stop, Cut, Start
  <1> QED
    BY <1>2, <1>3

LEMMA FrameRowsIs ==
    ASSUME Input, buf = file, NEW i \in Workers
    PROVE  FrameRows(i) \in Nat /\ FrameRows(i) <= Cut(i + 1) - Cut(i)
  <1> DEFINE lo == Cut(i)
             hi == Cut(i + 1)
             m == Newlines(file, lo, hi)
  <1>1. file \in Buffers /\ Len(file) \in Nat
    BY BufferIs DEF Input
  <1>2. /\ lo \in 1 .. Eof /\ hi \in 1 .. Eof /\ lo <= hi /\ lo = Start(buf, i)
        /\ hi = Stop(i) /\ Eof \in Nat
    BY <1>1, CutIs, StopIs, BufferIs DEF Workers
  <1>3. FrameRows(i) = m + (IF hi = Eof /\ lo < Eof /\ file[Len(file)] # "n" THEN 1 ELSE 0)
    BY <1>2 DEF FrameRows, Unfinished
  <1>4. /\ m \in Nat
        /\ m <= hi - lo
        /\ lo < hi /\ hi = Eof /\ file[Len(file)] # "n" => m + 1 <= hi - lo
    BY <1>1, <1>2, NewlinesIs
  <1> HIDE DEF m, lo, hi
  <1>5. FrameRows(i) \in Nat /\ FrameRows(i) <= hi - lo
    BY <1>2, <1>3, <1>4
  <1> QED
    BY <1>5 DEF lo, hi

LEMMA ListRowsIs ==
    ASSUME Input, buf = file, NEW i \in Workers
    PROVE  ListRows(i) \in Nat /\ ListRows(i) <= Cut(i + 1) - Cut(i)
  <1> DEFINE lo == Cut(i)
             hi == Cut(i + 1)
             m == Newlines(file, lo, hi)
  <1>1. file \in Buffers /\ Len(file) \in Nat
    BY BufferIs DEF Input
  <1>2. /\ lo \in 1 .. Eof /\ hi \in 1 .. Eof /\ lo <= hi /\ lo = Start(buf, i)
        /\ hi = Stop(i) /\ Eof \in Nat
    BY <1>1, CutIs, StopIs, BufferIs DEF Workers
  <1>3. ListRows(i) = IF n = 1 /\ file[Len(file)] # "n" /\ m > 0 THEN m + 1 ELSE m
    BY <1>2 DEF ListRows, Unfinished
  <1>4. /\ m \in Nat
        /\ m <= hi - lo
        /\ lo < hi /\ hi = Eof /\ file[Len(file)] # "n" => m + 1 <= hi - lo
    BY <1>1, <1>2, NewlinesIs
  <1>5. n = 1 => hi = Eof
    <2>1. i \in 1 .. n /\ n \in Nat
      BY DEF Workers, Input
    <2> QED
      BY <2>1, CutIs
  <1> HIDE DEF m, lo, hi
  <1>6. ListRows(i) \in Nat /\ ListRows(i) <= hi - lo
    BY <1>2, <1>3, <1>4, <1>5
  <1> QED
    BY <1>6 DEF lo, hi

LEMMA PhaseAWorks ==
    ASSUME CsvTypeOK, PhaseOK, NEW i \in Workers, PhaseA(i)
    PROVE  /\ buf = file
           /\ Works(i, "counted", Cut(i), worker[i].rows, FrameRows(i))
  <1>1. buf = file /\ Input
    BY DEF PhaseA, PhaseOK, CsvTypeOK
  <1> DEFINE p == Cut(i)
             m == FrameRows(i)
  <1>2. p \in 1 .. Eof /\ p = Start(buf, i) /\ m \in Nat
    BY <1>1, CutIs, FrameRowsIs DEF Workers
  <1> HIDE DEF p, m
  <1>3. worker' = [worker EXCEPT ![i].pc = "counted", ![i].pos = p, ![i].reserved = m]
    BY <1>2 DEF PhaseA, m
  <1>4. worker \in [Workers -> WorkerRec]
    BY DEF CsvTypeOK
  <1>5. worker' \in [Workers -> WorkerRec]
    <2> DEFINE r == [worker[i] EXCEPT !.pc = "counted", !.pos = p, !.reserved = m]
    <2>1. worker[i] \in WorkerRec
      BY <1>4
    <2>2. r \in WorkerRec
      BY <1>2, <2>1 DEF WorkerRec
    <2>3. worker' = [worker EXCEPT ![i] = r]
      BY <1>3, <1>4
    <2> HIDE DEF r
    <2> QED
      BY <1>4, <2>2, <2>3
  <1>6. /\ \A w \in Workers : w # i => worker'[w] = worker[w]
        /\ worker'[i].pc = "counted" /\ worker'[i].pos = p
        /\ worker'[i].rows = worker[i].rows /\ worker'[i].reserved = m
    BY <1>3, <1>4 DEF WorkerRec
  <1> QED
    BY <1>1, <1>5, <1>6 DEF Works, p, m

LEMMA ScanEndsWorks ==
    ASSUME CsvTypeOK, NEW i \in Workers, ScanEnds(i)
    PROVE  Works(i, "done", worker[i].pos, worker[i].rows, worker[i].reserved)
  <1>1. worker' = [worker EXCEPT ![i].pc = "done"]
    BY DEF ScanEnds
  <1>2. worker \in [Workers -> WorkerRec]
    BY DEF CsvTypeOK
  <1>3. worker' \in [Workers -> WorkerRec]
    BY <1>1, <1>2 DEF WorkerRec
  <1>4. /\ \A w \in Workers : w # i => worker'[w] = worker[w]
        /\ worker'[i].pc = "done" /\ worker'[i].pos = worker[i].pos
        /\ worker'[i].rows = worker[i].rows /\ worker'[i].reserved = worker[i].reserved
    BY <1>1, <1>2 DEF WorkerRec
  <1> QED
    BY <1>3, <1>4 DEF Works

LEMMA RecordWorks ==
    ASSUME CsvTypeOK, NEW i \in Workers, Record(i)
    PROVE  LET first == SkipBlank(buf, worker[i].pos)
               r == IF buf[first] = "0" THEN worker[i].rows ELSE Append(worker[i].rows, first)
           IN  /\ first \in 1 .. Len(file)
               /\ Works(i, "scan", NextLine(buf, first), r, worker[i].reserved)
               /\ buf' \in Buffers
               /\ cols' \in [1 .. Eof -> 0 .. Len(file)]
  <1> DEFINE first == SkipBlank(buf, worker[i].pos)
             end == LineEnd(buf, first)
             place == Offset(i) + Len(worker[i].rows) + 1
             empty == buf[first] = "0"
             next == NextLine(buf, first)
             r == IF empty THEN worker[i].rows ELSE Append(worker[i].rows, first)
  <1>1. /\ Input /\ buf \in Buffers /\ Eof \in Nat /\ Eof = Len(file) + 1
        /\ cols \in [1 .. Eof -> 0 .. Len(file)] /\ worker \in [Workers -> WorkerRec]
    BY BufferIs DEF CsvTypeOK
  <1>2. worker[i].pc = "scan" /\ first < Eof
    BY DEF Record
  <1>3. worker[i].pos \in 1 .. Eof /\ worker[i].rows \in Seq(1 .. Len(file))
    BY WorkerIs
  <1>4. first \in 1 .. Eof
    <2>1. first \in worker[i].pos .. Eof
      BY <1>1, <1>3, SkipBlankIs
    <2> HIDE DEF first
    <2> QED
      BY <1>1, <1>3, <2>1
  <1>5. first \in 1 .. Len(file)
    <2> HIDE DEF first
    <2> QED
      BY <1>1, <1>2, <1>4
  <1>6. next \in 1 .. Eof
    <2>1. next \in first .. Eof
      BY <1>1, <1>4, NextLineIs
    <2> HIDE DEF first, next
    <2> QED
      BY <1>1, <1>4, <2>1
  <1>7. r \in Seq(1 .. Len(file))
    <2> DEFINE s == worker[i].rows
    <2> HIDE DEF first, s
    <2>1. s \in Seq(1 .. Len(file)) /\ Append(s, first) \in Seq(1 .. Len(file))
      BY <1>3, <1>5 DEF s
    <2> QED
      BY <2>1 DEF s
  <1>8. /\ worker' = [worker EXCEPT ![i].pos = next, ![i].rows = r]
        /\ buf' = IF end < Eof THEN [buf EXCEPT ![end] = "0"] ELSE buf
        /\ cols' = IF empty \/ ~HasColumns THEN cols ELSE [cols EXCEPT ![place] = first]
    BY DEF Record
  <1> HIDE DEF next, r, end, place, empty
  <1>9. cols' \in [1 .. Eof -> 0 .. Len(file)]
    <2> HIDE DEF first
    <2>1. first \in 0 .. Len(file)
      BY <1>5
    <2>2. [cols EXCEPT ![place] = first] \in [1 .. Eof -> 0 .. Len(file)]
      BY <1>1, <2>1
    <2> QED
      BY <1>1, <1>8, <2>2
  <1>10. buf' \in Buffers
    <2>1. end < Eof => end \in 1 .. Len(file)
      BY <1>1, <1>4, LineEndIs DEF end
    <2>2. buf \in Seq({"x", "n", "0"}) /\ Len(buf) = Len(file)
      BY <1>1 DEF Buffers
    <2> HIDE DEF first
    <2>3. ASSUME end < Eof
          PROVE  LET b == [buf EXCEPT ![end] = "0"]
                 IN  b \in Seq({"x", "n", "0"}) /\ Len(b) = Len(file)
      BY <2>1, <2>2, <2>3
    <2> QED
      BY <1>1, <1>8, <2>3 DEF Buffers
  <1>11. worker' \in [Workers -> WorkerRec]
    BY <1>1, <1>6, <1>7, <1>8 DEF WorkerRec
  <1>12. /\ \A w \in Workers : w # i => worker'[w] = worker[w]
         /\ worker'[i].pc = "scan" /\ worker'[i].pos = next /\ worker'[i].rows = r
         /\ worker'[i].reserved = worker[i].reserved
    BY <1>1, <1>2, <1>8 DEF WorkerRec
  <1> QED
    BY <1>5, <1>9, <1>10, <1>11, <1>12 DEF Works, next, r, empty

(* What does not change while the file is read.                             *)
LEMMA InputStays ==
    ASSUME UNCHANGED input
    PROVE  /\ file' = file /\ n' = n /\ mode' = mode /\ Workers' = Workers
           /\ Eof' = Eof /\ Buffers' = Buffers /\ WorkerRec' = WorkerRec /\ Input' = Input
           /\ \A i : Cut(i)' = Cut(i)
  <1>1. file' = file /\ n' = n /\ mode' = mode
    BY DEF input
  <1>2. Eof' = Eof /\ Workers' = Workers
    BY <1>1 DEF Eof, Workers
  <1>3. Buffers' = Buffers
    BY <1>1 DEF Buffers
  <1>4. WorkerRec' = WorkerRec
    BY <1>1, <1>2 DEF WorkerRec
  <1>5. Input' = Input
    BY <1>1, <1>3 DEF Input
  <1>6. ASSUME NEW i PROVE Cut(i)' = Cut(i)
    BY <1>1, <1>2 DEF Cut, Start, From
  <1> QED
    BY <1>1, <1>2, <1>3, <1>4, <1>5, <1>6

LEMMA OffsetsStay ==
    ASSUME UNCHANGED input, \A w \in Workers : worker'[w].reserved = worker[w].reserved
    PROVE  /\ \A k : Offset(k)' = Offset(k)
           /\ Total' = Total /\ HasColumns' = HasColumns /\ Wrapped' = Wrapped
           /\ ReservedOK => ReservedOK'
  <1>1. n' = n /\ mode' = mode /\ Workers' = Workers /\ \A i : Cut(i)' = Cut(i)
    BY InputStays
  <1>2. [w \in Workers |-> worker[w].reserved]' = [w \in Workers |-> worker[w].reserved]
    BY <1>1
  <1>3. \A k : Offset(k)' = Offset(k)
    BY <1>2 DEF Offset
  <1>4. Total' = Total
    BY <1>1, <1>3 DEF Total
  <1>5. HasColumns' = HasColumns
    BY <1>4 DEF HasColumns
  <1>6. Wrapped' = Wrapped
    BY <1>1, <1>5 DEF Wrapped
  <1>7. ReservedOK => ReservedOK'
    BY <1>1 DEF ReservedOK
  <1> QED
    BY <1>3, <1>4, <1>5, <1>6, <1>7

LEMMA OffsetIs ==
    ASSUME CsvTypeOK
    PROVE  /\ Counted([w \in Workers |-> worker[w].reserved])
           /\ Offset(1) = 0
           /\ \A i \in 1 .. n + 1 : Offset(i) \in Nat
           /\ \A i \in Workers : Offset(i + 1) = Offset(i) + worker[i].reserved
           /\ Total \in Nat
           /\ ReservedOK => Total < Eof
  <1> DEFINE count == [w \in Workers |-> worker[w].reserved]
  <1>1. Counted(count) /\ Input /\ n \in Nat \ {0}
    BY WorkerIs DEF Counted, CsvTypeOK, Input
  <1>2. \A i : Offset(i) = Before(count, i)
    BY DEF Offset
  <1>3. \A i \in Workers : count[i] = worker[i].reserved
    OBVIOUS
  <1> HIDE DEF count
  <1>4. /\ Before(count, 1) = 0
        /\ \A i \in 1 .. n + 1 : Before(count, i) \in Nat
        /\ \A i \in Workers : Before(count, i + 1) = Before(count, i) + count[i]
    BY <1>1, BeforeNext
  <1>5. ReservedOK => Before(count, n + 1) < Eof
    BY <1>1, <1>3, BeforeBounded DEF ReservedOK
  <1>6. n + 1 \in 1 .. n + 1
    BY <1>1
  <1> QED
    BY <1>1, <1>2, <1>3, <1>4, <1>5, <1>6 DEF Total, count

(* The places of two workers are apart. *)
LEMMA PlacesApart ==
    ASSUME CsvTypeOK, NEW i \in Workers, NEW j \in Workers,
           NEW k \in 1 .. worker[i].reserved, NEW m \in 1 .. worker[j].reserved
    PROVE  /\ Offset(i) + k = Offset(j) + m => i = j /\ k = m
           /\ Offset(i) + k \in 1 .. Total
  <1> DEFINE count == [w \in Workers |-> worker[w].reserved]
  <1>1. Counted(count) /\ Input /\ n \in Nat \ {0}
    BY OffsetIs DEF CsvTypeOK, Input
  <1>2. \A l : Offset(l) = Before(count, l)
    BY DEF Offset
  <1>3. count[i] = worker[i].reserved /\ count[j] = worker[j].reserved
    OBVIOUS
  <1> HIDE DEF count
  <1>4. Offset(i) + k = Offset(j) + m => i = j /\ k = m
    BY <1>1, <1>2, <1>3, PlaceIsHis
  <1>5. Offset(i) + k \in 1 .. Total
    <2>1. i \in 1 .. n + 1 /\ n + 1 \in 1 .. n + 1 /\ i < n + 1
      BY <1>1 DEF Workers
    <2>2. Before(count, i) + count[i] <= Before(count, n + 1)
      BY <1>1, <2>1, BeforeGrows
    <2>3. Before(count, i) \in Nat /\ Before(count, n + 1) \in Nat /\ count[i] \in Nat
      BY <1>1, <2>1, BeforeNext DEF Counted
    <2> DEFINE a == Before(count, i)
               b == Before(count, n + 1)
               c == count[i]
    <2>4. Offset(i) = a /\ Total = b /\ k \in 1 .. c
      BY <1>2, <1>3 DEF Total
    <2> HIDE DEF a, b, c
    <2>5. a + k \in 1 .. b
      BY <2>2, <2>3, <2>4 DEF a, b, c
    <2> QED
      BY <2>4, <2>5
  <1> QED
    BY <1>4, <1>5

-----------------------------------------------------------------------------
(* The steps. *)
LEMMA QuietKeeps ==
    ASSUME CsvInv, UNCHANGED <<input, cols>>,
           \A w \in Workers : /\ worker'[w].reserved = worker[w].reserved
                              /\ worker'[w].rows = worker[w].rows
    PROVE  ReservedOK' /\ PlacesOK'
  <1>1. UNCHANGED input /\ cols' = cols
    OBVIOUS
  <1>2. Workers' = Workers
    BY <1>1, InputStays
  <1>3. HasColumns' = HasColumns /\ (\A k : Offset(k)' = Offset(k)) /\ ReservedOK'
    BY <1>1, OffsetsStay DEF CsvInv
  <1>4. Within' <=> Within
    BY <1>2 DEF Within
  <1> QED
    BY <1>1, <1>2, <1>3, <1>4 DEF CsvInv, PlacesOK

LEMMA FindStartKeeps ==
    ASSUME CsvInv, NEW i \in Workers, FindStart(i)
    PROVE  CsvInv'
  <1>1. /\ UNCHANGED input /\ buf' = buf /\ cols' = cols /\ list' = list /\ table' = table
        /\ mode # "frame"
    BY DEF FindStart
  <1>2. Works(i, "scan", Start(buf, i), worker[i].rows, worker[i].reserved)
    BY FindStartWorks DEF CsvInv
  <1>3. \A w \in Workers : /\ worker'[w].reserved = worker[w].reserved
                           /\ worker'[w].rows = worker[w].rows
    BY <1>2 DEF Works
  <1>4. ReservedOK' /\ PlacesOK'
    BY <1>1, <1>3, QuietKeeps
  <1>5. CsvTypeOK'
    BY <1>1, <1>2, InputStays DEF CsvInv, CsvTypeOK, Works
  <1>6. PhaseOK' /\ ColumnsMirrorList'
    <2>1. mode' = mode /\ Wrapped' = Wrapped
      BY <1>1, <1>3, OffsetsStay, InputStays
    <2> QED
      BY <1>1, <2>1 DEF CsvInv, PhaseOK, ColumnsMirrorList, Loaded, NoTable
  <1> QED
    BY <1>4, <1>5, <1>6 DEF CsvInv

LEMMA PhaseAKeeps ==
    ASSUME CsvInv, NEW i \in Workers, PhaseA(i)
    PROVE  CsvInv'
  <1>1. /\ UNCHANGED input /\ buf' = buf /\ cols' = cols /\ list' = list /\ table' = table
        /\ mode = "frame" /\ worker[i].pc = "start"
    BY DEF PhaseA
  <1>2. /\ buf = file
        /\ Works(i, "counted", Cut(i), worker[i].rows, FrameRows(i))
    BY PhaseAWorks DEF CsvInv
  <1>3. \A w \in Workers : worker[w].pc \in {"start", "counted"} /\ worker[w].rows = <<>>
    BY <1>1 DEF CsvInv, PhaseOK
  <1>4. /\ mode' = mode /\ Workers' = Workers /\ file' = file /\ \A k : Cut(k)' = Cut(k)
    BY <1>1, InputStays
  <1>5. CsvTypeOK'
    BY <1>1, <1>2, InputStays DEF CsvInv, CsvTypeOK, Works
  <1>6. ReservedOK'
    <2>1. FrameRows(i) <= Cut(i + 1) - Cut(i)
      BY <1>2, FrameRowsIs DEF CsvInv, CsvTypeOK
    <2>2. ASSUME NEW w \in Workers PROVE worker'[w].reserved <= Cut(w + 1) - Cut(w)
      BY <1>2, <2>1 DEF Works, CsvInv, ReservedOK
    <2> QED
      BY <1>4, <2>2 DEF ReservedOK
  <1>7. \A w \in Workers : worker'[w].pc \in {"start", "counted"} /\ worker'[w].rows = <<>>
    BY <1>2, <1>3 DEF Works
  <1>8. PhaseOK'
    BY <1>1, <1>2, <1>4, <1>7 DEF PhaseOK
  <1>9. PlacesOK'
    BY <1>4, <1>7 DEF PlacesOK
  <1>10. ColumnsMirrorList'
    BY <1>1, <1>4 DEF ColumnsMirrorList
  <1> QED
    BY <1>5, <1>6, <1>8, <1>9, <1>10 DEF CsvInv

LEMMA GoPhaseBKeeps ==
    ASSUME CsvInv, GoPhaseB
    PROVE  /\ \A w \in Workers : /\ worker'[w].pc = "scan" /\ worker'[w].pos = worker[w].pos
                                 /\ worker'[w].rows = worker[w].rows
                                 /\ worker'[w].reserved = worker[w].reserved
           /\ CsvInv'
  <1>1. /\ UNCHANGED input /\ buf' = buf /\ cols' = cols /\ list' = list /\ table' = table
        /\ worker' = [i \in Workers |-> [worker[i] EXCEPT !.pc = "scan"]]
    BY DEF GoPhaseB
  <1>2. worker \in [Workers -> WorkerRec]
    BY DEF CsvInv, CsvTypeOK
  <1>3. worker' \in [Workers -> WorkerRec]
    BY <1>1, <1>2 DEF WorkerRec
  <1>4. \A w \in Workers : /\ worker'[w].pc = "scan" /\ worker'[w].pos = worker[w].pos
                           /\ worker'[w].rows = worker[w].rows
                           /\ worker'[w].reserved = worker[w].reserved
    BY <1>1, <1>2 DEF WorkerRec
  <1>5. ReservedOK' /\ PlacesOK'
    BY <1>1, <1>4, QuietKeeps
  <1>6. CsvTypeOK'
    BY <1>1, <1>3, InputStays DEF CsvInv, CsvTypeOK
  <1>7. mode' = mode /\ Wrapped' = Wrapped /\ Workers' = Workers
    BY <1>1, <1>4, OffsetsStay, InputStays
  <1>8. PhaseOK'
    BY <1>4, <1>7 DEF PhaseOK
  <1>9. ColumnsMirrorList'
    BY <1>1, <1>7 DEF CsvInv, ColumnsMirrorList, Loaded, NoTable
  <1> QED
    BY <1>4, <1>5, <1>6, <1>8, <1>9 DEF CsvInv

LEMMA ScanEndsKeeps ==
    ASSUME CsvInv, NEW i \in Workers, ScanEnds(i)
    PROVE  CsvInv'
  <1>1. /\ UNCHANGED input /\ buf' = buf /\ cols' = cols /\ list' = list /\ table' = table
        /\ worker[i].pc = "scan"
    BY DEF ScanEnds
  <1>2. Works(i, "done", worker[i].pos, worker[i].rows, worker[i].reserved)
    BY ScanEndsWorks DEF CsvInv
  <1>3. \A w \in Workers : /\ worker'[w].reserved = worker[w].reserved
                           /\ worker'[w].rows = worker[w].rows
    BY <1>2 DEF Works
  <1>4. ReservedOK' /\ PlacesOK'
    BY <1>1, <1>3, QuietKeeps
  <1>5. CsvTypeOK'
    BY <1>1, <1>2, InputStays DEF CsvInv, CsvTypeOK, Works
  <1>6. mode' = mode /\ Wrapped' = Wrapped /\ Workers' = Workers
    BY <1>1, <1>3, OffsetsStay, InputStays
  <1>7. PhaseOK'
    <2> SUFFICES ASSUME mode = "frame", NEW w \in Workers, worker'[w].pc \in {"start", "counted"}
                 PROVE  FALSE
      BY <1>6 DEF PhaseOK
    <2>1. w # i /\ worker[w].pc \in {"start", "counted"}
      BY <1>2 DEF Works
    <2> QED
      BY <1>1, <2>1 DEF CsvInv, PhaseOK
  <1>8. ColumnsMirrorList'
    BY <1>1, <1>6 DEF CsvInv, ColumnsMirrorList, Loaded, NoTable
  <1> QED
    BY <1>4, <1>5, <1>7, <1>8 DEF CsvInv

LEMMA RecordPlaces ==
    ASSUME CsvInv, NEW i \in Workers, Record(i)
    PROVE  PlacesOK'
  <1> DEFINE first == SkipBlank(buf, worker[i].pos)
             empty == buf[first] = "0"
             s == worker[i].rows
             r == IF empty THEN s ELSE Append(s, first)
             place == Offset(i) + Len(s) + 1
  <1>1. /\ UNCHANGED input
        /\ cols' = IF empty \/ ~HasColumns THEN cols ELSE [cols EXCEPT ![place] = first]
    BY DEF Record
  <1>2. Works(i, "scan", NextLine(buf, first), r, worker[i].reserved)
    BY RecordWorks, Zenon DEF CsvInv
  <1>3. /\ \A w \in Workers : w # i => worker'[w].rows = worker[w].rows
        /\ worker'[i].rows = r
        /\ \A w \in Workers : worker'[w].reserved = worker[w].reserved
    BY <1>2 DEF Works
  <1>4. /\ Workers' = Workers /\ HasColumns' = HasColumns
        /\ \A k : Offset(k)' = Offset(k)
    BY <1>1, <1>3, InputStays, OffsetsStay
  <1>5. CASE empty
    <2>1. \A w \in Workers : worker'[w].rows = worker[w].rows
      BY <1>3, <1>5
    <2> QED
      BY <1>1, <1>3, <1>5, <2>1, QuietKeeps
  <1>6. CASE ~empty
    <2> SUFFICES ASSUME Within', HasColumns, NEW w \in Workers,
                        NEW k \in 1 .. Len(worker'[w].rows)
                 PROVE  cols'[Offset(w) + k] = worker'[w].rows[k]
      BY <1>4 DEF PlacesOK
    <2>1. CsvTypeOK /\ s \in Seq(1 .. Len(file)) /\ Len(s) \in Nat
          /\ cols \in [1 .. Eof -> 0 .. Len(file)]
      BY WorkerIs DEF CsvInv, CsvTypeOK
    <2> HIDE DEF first, empty
    <2>2. r = Append(s, first)
      BY <1>6
    <2> HIDE DEF s, r
    <2>3. Len(r) = Len(s) + 1 /\ r[Len(s) + 1] = first /\ \A j \in 1 .. Len(s) : r[j] = s[j]
      BY <2>1, <2>2
    <2>4. Len(s) + 1 <= worker[i].reserved /\ worker[i].reserved \in Nat
      <3>1. Len(r) <= worker[i].reserved
        BY <1>3, <1>4 DEF Within
      <3>2. worker[i].reserved \in Nat
        BY <2>1, WorkerIs
      <3> QED
        BY <2>3, <3>1, <3>2
    <2>5. ASSUME NEW v \in Workers
          PROVE  /\ Len(worker[v].rows) <= worker[v].reserved
                 /\ worker[v].reserved \in Nat /\ Len(worker[v].rows) \in Nat
      <3>1. worker[v].reserved \in Nat /\ Len(worker[v].rows) \in Nat
        BY <2>1, WorkerIs
      <3>2. CASE v = i
        BY <2>1, <2>4, <3>1, <3>2 DEF s
      <3>3. CASE v # i
        BY <1>3, <1>4, <3>1, <3>3 DEF Within
      <3> QED
        BY <3>1, <3>2, <3>3
    <2>6. Within
      BY <2>5 DEF Within
    <2>7. \A v \in Workers : \A j \in 1 .. Len(worker[v].rows) :
              cols[Offset(v) + j] = worker[v].rows[j]
      BY <2>6 DEF CsvInv, PlacesOK
    <2>8. cols' = [cols EXCEPT ![place] = first]
      BY <1>1, <1>6
    <2>9. Len(s) + 1 \in 1 .. worker[i].reserved
      BY <2>1, <2>4
    <2> DEFINE m == Len(s) + 1
    <2>10. place = Offset(i) + m
      <3>1. Offset(i) \in Nat
        BY <2>1, OffsetIs DEF Workers, CsvTypeOK, Input
      <3> QED
        BY <2>1, <3>1
    <2>11. m \in 1 .. worker[i].reserved
      BY <2>9
    <2> HIDE DEF m, place
    <2>12. place \in 1 .. Eof
      <3>1. place \in 1 .. Total
        BY <2>1, <2>10, <2>11, PlacesApart
      <3>2. Total < Eof /\ Total \in Nat /\ Eof \in Nat
        BY <2>1, OffsetIs, BufferIs DEF CsvInv, CsvTypeOK
      <3> QED
        BY <3>1, <3>2
    <2>13. CASE w = i /\ k = m
      <3>1. cols'[place] = first
        BY <2>1, <2>8, <2>12
      <3> QED
        BY <1>3, <2>3, <2>10, <2>13, <3>1 DEF m
    <2>14. CASE ~ (w = i /\ k = m)
      <3>1. k \in 1 .. Len(worker[w].rows) /\ worker'[w].rows[k] = worker[w].rows[k]
        <4>1. CASE w # i
          BY <1>3, <4>1
        <4>2. CASE w = i
          <5>1. k \in 1 .. Len(s) + 1 /\ k # Len(s) + 1
            BY <1>3, <2>3, <2>14, <4>2 DEF m
          <5>2. Len(s) \in Nat
            BY <2>1
          <5>3. k \in 1 .. Len(s)
            BY <5>1, <5>2
          <5> QED
            BY <1>3, <2>3, <4>2, <5>3 DEF s
        <4> QED
          BY <4>1, <4>2
      <3>2. k \in 1 .. worker[w].reserved
        BY <2>5, <3>1
      <3>3. Offset(w) + k # place
        BY <2>1, <2>10, <2>11, <2>14, <3>2, PlacesApart
      <3>4. Offset(w) + k \in 1 .. Eof
        <4>1. Offset(w) + k \in 1 .. Total
          BY <2>1, <3>2, PlacesApart
        <4>2. Total < Eof /\ Total \in Nat /\ Eof \in Nat
          BY <2>1, OffsetIs, BufferIs DEF CsvInv, CsvTypeOK
        <4> QED
          BY <4>1, <4>2
      <3>5. cols'[Offset(w) + k] = cols[Offset(w) + k]
        BY <2>1, <2>8, <3>3, <3>4
      <3> QED
        BY <2>7, <3>1, <3>5
    <2> QED
      BY <2>13, <2>14
  <1> QED
    BY <1>5, <1>6

LEMMA RecordKeeps ==
    ASSUME CsvInv, NEW i \in Workers, Record(i)
    PROVE  CsvInv'
  <1> DEFINE first == SkipBlank(buf, worker[i].pos)
             r == IF buf[first] = "0" THEN worker[i].rows ELSE Append(worker[i].rows, first)
  <1>1. UNCHANGED input /\ list' = list /\ table' = table /\ worker[i].pc = "scan"
    BY DEF Record
  <1>2. /\ Works(i, "scan", NextLine(buf, first), r, worker[i].reserved)
        /\ buf' \in Buffers /\ cols' \in [1 .. Eof -> 0 .. Len(file)]
    BY RecordWorks, Zenon DEF CsvInv
  <1> HIDE DEF first, r
  <1>3. \A w \in Workers : worker'[w].reserved = worker[w].reserved
    BY <1>2 DEF Works
  <1>4. PlacesOK'
    BY RecordPlaces
  <1>5. /\ mode' = mode /\ Wrapped' = Wrapped /\ Workers' = Workers /\ ReservedOK'
        /\ file' = file
    BY <1>1, <1>3, OffsetsStay, InputStays DEF CsvInv
  <1>6. CsvTypeOK'
    BY <1>1, <1>2, <1>5, InputStays DEF CsvInv, CsvTypeOK, Works
  <1>7. PhaseOK'
    <2> SUFFICES ASSUME mode = "frame", NEW w \in Workers, worker'[w].pc \in {"start", "counted"}
                 PROVE  FALSE
      BY <1>5 DEF PhaseOK
    <2>1. w # i /\ worker[w].pc \in {"start", "counted"}
      BY <1>2 DEF Works
    <2> QED
      BY <1>1, <2>1 DEF CsvInv, PhaseOK
  <1>8. ColumnsMirrorList'
    BY <1>1, <1>5 DEF CsvInv, ColumnsMirrorList, Loaded, NoTable
  <1> QED
    BY <1>4, <1>5, <1>6, <1>7, <1>8 DEF CsvInv

(* Main links the rows of the workers. *)
Lens == [w \in Workers |-> Len(worker[w].rows)]

LEMMA ParsedIs ==
    ASSUME CsvTypeOK
    PROVE  /\ Counted(Lens)
           /\ DOMAIN Parsed = 1 .. Before(Lens, n + 1) /\ Before(Lens, n + 1) \in Nat
           /\ Len(Parsed) = Before(Lens, n + 1) /\ Parsed \in Seq(1 .. Len(file))
           /\ \A p \in DOMAIN Parsed : \E i \in Workers : \E k \in 1 .. Len(worker[i].rows) :
                  p = Before(Lens, i) + k /\ Parsed[p] = worker[i].rows[k]
  <1> DEFINE B(i) == Before(Lens, i)
             at(p) == CHOOSE i \in Workers : B(i) < p /\ p <= B(i + 1)
  <1>1. Counted(Lens) /\ Input /\ n \in Nat \ {0}
    BY WorkerIs DEF Counted, Lens, CsvTypeOK, Input
  <1>2. /\ \A i \in 1 .. n + 1 : B(i) \in Nat
        /\ \A i \in Workers : B(i + 1) = B(i) + Lens[i]
    BY <1>1, BeforeNext
  <1>3. \A i \in Workers : Lens[i] = Len(worker[i].rows) /\ Len(worker[i].rows) \in Nat
    BY WorkerIs DEF Lens
  <1>4. Parsed = [p \in 1 .. B(n + 1) |-> worker[at(p)].rows[p - B(at(p))]]
    BY Zenon DEF Parsed, Lens
  <1>5. ASSUME NEW p \in 1 .. B(n + 1)
        PROVE  at(p) \in Workers /\ B(at(p)) < p /\ p <= B(at(p) + 1)
    <2>1. \E i \in Workers : B(i) < p /\ p <= B(i + 1)
      BY <1>1, PlaceIsOnes
    <2> HIDE DEF B
    <2> QED
      BY <2>1, Zenon
  <1> HIDE DEF B, at
  <1>6. n + 1 \in 1 .. n + 1 /\ \A i \in Workers : i \in 1 .. n + 1
    BY <1>1 DEF Workers
  <1>7. ASSUME NEW p \in DOMAIN Parsed
        PROVE  \E i \in Workers : \E k \in 1 .. Len(worker[i].rows) :
                  p = B(i) + k /\ Parsed[p] = worker[i].rows[k]
    <2> DEFINE i == at(p)
               k == p - B(i)
    <2>1. p \in 1 .. B(n + 1) /\ B(n + 1) \in Nat /\ Parsed[p] = worker[i].rows[k]
      BY <1>2, <1>4, <1>6
    <2>2. i \in Workers /\ B(i) < p /\ p <= B(i + 1)
      BY <1>5, <2>1
    <2>3. B(i) \in Nat /\ B(i + 1) = B(i) + Lens[i] /\ Lens[i] \in Nat
          /\ Lens[i] = Len(worker[i].rows)
      BY <1>2, <1>3, <1>6, <2>2
    <2> HIDE DEF i
    <2>4. k \in 1 .. Len(worker[i].rows) /\ p = B(i) + k
      BY <2>1, <2>2, <2>3
    <2> QED
      BY <2>1, <2>2, <2>4
  <1>8. DOMAIN Parsed = 1 .. B(n + 1) /\ B(n + 1) \in Nat
    BY <1>2, <1>4, <1>6
  <1>9. Len(Parsed) = B(n + 1)
    BY <1>4, <1>8
  <1>10. ASSUME NEW p \in 1 .. B(n + 1) PROVE Parsed[p] \in 1 .. Len(file)
    <2>1. PICK i \in Workers : \E k \in 1 .. Len(worker[i].rows) : Parsed[p] = worker[i].rows[k]
      BY <1>7, <1>8
    <2>2. worker[i].rows \in Seq(1 .. Len(file))
      BY WorkerIs
    <2> QED
      BY <2>1, <2>2
  <1>11. Parsed \in Seq(1 .. Len(file))
    BY <1>4, <1>8, <1>10
  <1> QED
    BY <1>1, <1>7, <1>8, <1>9, <1>11 DEF B

LEMMA ColsAreASequence ==
    ASSUME CsvTypeOK, ReservedOK
    PROVE  /\ DOMAIN SubSeq(cols, 1, Total) = 1 .. Total
           /\ \A p \in 1 .. Total : SubSeq(cols, 1, Total)[p] = cols[p]
           /\ SubSeq(cols, 1, Total) \in [1 .. Total -> 0 .. Len(file)]
  <1> DEFINE e == Eof
             t == Total
             S == 0 .. Len(file)
  <1>1. e \in Nat /\ t \in Nat /\ t < e /\ cols \in [1 .. e -> S]
    BY OffsetIs, BufferIs DEF CsvTypeOK
  <1> HIDE DEF e, t, S
  <1>2. cols \in Seq(S) /\ Len(cols) = e
    BY <1>1
  <1>3. SubSeq(cols, 1, t) \in Seq(S) /\ Len(SubSeq(cols, 1, t)) = t
    BY <1>1, <1>2
  <1>4. \A p \in 1 .. t : SubSeq(cols, 1, t)[p] = cols[p]
    BY <1>1, <1>2
  <1>5. DOMAIN SubSeq(cols, 1, t) = 1 .. t /\ SubSeq(cols, 1, t) \in [1 .. t -> S]
    BY <1>3, LenProperties
  <1> QED
    BY <1>4, <1>5 DEF t, S

(* Where each worker wrote as many rows as were reserved, the columns are   *)
(* the rows of the workers.                                                 *)
LEMMA ColumnsAreParsed ==
    ASSUME CsvInv, HasColumns, AsCounted
    PROVE  SubSeq(cols, 1, Total) = Parsed /\ Total = Before(Lens, n + 1)
  <1> DEFINE t == SubSeq(cols, 1, Total)
  <1>1. Lens = [w \in Workers |-> worker[w].reserved]
    BY DEF Lens, AsCounted
  <1>2. \A k : Before(Lens, k) = Offset(k)
    BY <1>1 DEF Offset
  <1>3. /\ Total = Before(Lens, n + 1) /\ CsvTypeOK
        /\ DOMAIN t = 1 .. Total /\ \A p \in 1 .. Total : t[p] = cols[p]
        /\ t \in [1 .. Total -> 0 .. Len(file)]
    BY <1>2, ColsAreASequence DEF Total, CsvInv
  <1>4. \A i \in Workers : \A k \in 1 .. Len(worker[i].rows) :
            cols[Offset(i) + k] = worker[i].rows[k]
    <2>1. Within
      BY <1>3, WorkerIs DEF Within, AsCounted
    <2> QED
      BY <2>1 DEF CsvInv, PlacesOK
  <1>5. /\ DOMAIN Parsed = 1 .. Total
        /\ \A p \in DOMAIN Parsed : \E i \in Workers : \E k \in 1 .. Len(worker[i].rows) :
               p = Offset(i) + k /\ Parsed[p] = worker[i].rows[k]
    BY <1>2, <1>3, ParsedIs
  <1>6. \A p \in 1 .. Total : Parsed[p] = t[p]
    BY <1>3, <1>4, <1>5
  <1>7. Parsed \in [1 .. Total -> 1 .. Len(file)]
    BY <1>3, <1>5, ParsedIs
  <1> HIDE DEF t
  <1>8. t = [p \in 1 .. Total |-> t[p]] /\ Parsed = [p \in 1 .. Total |-> Parsed[p]]
    BY <1>3, <1>7
  <1> QED
    BY <1>3, <1>6, <1>8 DEF t

LEMMA JoinListKeeps ==
    ASSUME CsvInv, JoinList
    PROVE  CsvInv'
  <1>1. /\ UNCHANGED <<input, buf, worker, cols>>
        /\ list' = IF Wrapped THEN Parsed ELSE <<>>
        /\ table' = IF HasColumns /\ AsCounted THEN SubSeq(cols, 1, Total) ELSE list'
    BY DEF JoinList
  <1>2. CsvTypeOK' /\ ReservedOK' /\ PlacesOK' /\ Wrapped' = Wrapped
    <2>1. Wrapped' = Wrapped
      BY <1>1, OffsetsStay
    <2>2. ReservedOK' /\ PlacesOK'
      BY <1>1, QuietKeeps
    <2> QED
      BY <1>1, <2>1, <2>2, InputStays DEF CsvInv, CsvTypeOK
  <1>3. PhaseOK'
    BY <1>1, InputStays DEF CsvInv, PhaseOK
  <1>4. HasColumns /\ AsCounted => SubSeq(cols, 1, Total) = Parsed
    BY ColumnsAreParsed
  <1>5. ColumnsMirrorList'
    BY <1>1, <1>2, <1>4 DEF ColumnsMirrorList
  <1> QED
    BY <1>2, <1>3, <1>5 DEF CsvInv

LEMMA JoinFrameKeeps ==
    ASSUME CsvInv, JoinFrame
    PROVE  CsvInv'
  <1>1. /\ UNCHANGED <<input, buf, worker, cols, list>> /\ mode = "frame"
    BY DEF JoinFrame
  <1>2. ReservedOK' /\ PlacesOK'
    BY <1>1, QuietKeeps
  <1>3. CsvTypeOK' /\ mode' = "frame" /\ Workers' = Workers
    BY <1>1, InputStays DEF CsvInv, CsvTypeOK
  <1> QED
    BY <1>1, <1>2, <1>3, InputStays DEF CsvInv, PhaseOK, ColumnsMirrorList

LEMMA CsvBegins ==
    ASSUME CsvAssumption, CsvInit
    PROVE  CsvInv
  <1>1. /\ file \in Files /\ n \in Counts /\ n <= Len(file) /\ mode \in Modes /\ buf = file
        /\ worker = [i \in Workers |->
               [pc |-> "start", pos |-> 1, rows |-> <<>>,
                reserved |-> IF mode = "frame" THEN 0 ELSE ListRows(i)]]
        /\ cols = [k \in 1 .. Eof |-> Blank] /\ table = NoTable
    BY DEF CsvInit
  <1>2. Input /\ buf \in Buffers
    <2>1. file \in Seq({"x", "n"}) /\ n \in Nat \ {0} /\ mode \in {"rows", "cols", "frame"}
      BY <1>1 DEF CsvAssumption
    <2>2. file \in Seq({"x", "n", "0"})
      BY <2>1
    <2> QED
      BY <1>1, <2>1, <2>2 DEF Input, Buffers
  <1>3. Eof \in Nat \ {0} /\ Len(file) \in Nat
    BY <1>2, BufferIs
  <1> DEFINE places(i) == IF mode = "frame" THEN 0 ELSE ListRows(i)
  <1>4. ASSUME NEW i \in Workers
        PROVE  places(i) \in Nat /\ places(i) <= Cut(i + 1) - Cut(i)
    <2>1. ListRows(i) \in Nat /\ ListRows(i) <= Cut(i + 1) - Cut(i)
      BY <1>1, <1>2, ListRowsIs
    <2>2. Cut(i) \in Nat /\ Cut(i + 1) \in Nat /\ Cut(i) <= Cut(i + 1)
      BY <1>2, <1>3, CutIs DEF Workers
    <2> QED
      BY <2>1, <2>2
  <1> HIDE DEF places
  <1>5. worker = [i \in Workers |-> [pc |-> "start", pos |-> 1, rows |-> <<>>,
                                     reserved |-> places(i)]]
    BY <1>1 DEF places
  <1>6. worker \in [Workers -> WorkerRec]
    BY <1>3, <1>4, <1>5 DEF WorkerRec
  <1>7. \A i \in Workers : /\ worker[i].pc = "start" /\ worker[i].rows = <<>>
                           /\ worker[i].reserved = places(i)
    BY <1>5
  <1>8. cols \in [1 .. Eof -> 0 .. Len(file)]
    BY <1>1, <1>3 DEF Blank
  <1>9. CsvTypeOK
    BY <1>2, <1>6, <1>8 DEF CsvTypeOK
  <1>10. ReservedOK
    BY <1>4, <1>7 DEF ReservedOK
  <1>11. PhaseOK /\ PlacesOK /\ ColumnsMirrorList
    BY <1>1, <1>7 DEF PhaseOK, PlacesOK, ColumnsMirrorList, Loaded
  <1> QED
    BY <1>9, <1>10, <1>11 DEF CsvInv

LEMMA CsvIdle ==
    ASSUME CsvInv, UNCHANGED csvVars
    PROVE  CsvInv'
  <1>1. /\ UNCHANGED input /\ buf' = buf /\ worker' = worker /\ cols' = cols
        /\ list' = list /\ table' = table
    BY DEF csvVars, input
  <1>2. ReservedOK' /\ PlacesOK'
    BY <1>1, QuietKeeps
  <1>3. Wrapped' = Wrapped /\ mode' = mode /\ file' = file /\ Workers' = Workers
    BY <1>1, OffsetsStay, InputStays
  <1>4. CsvTypeOK'
    BY <1>1, InputStays DEF CsvInv, CsvTypeOK
  <1> QED
    BY <1>1, <1>2, <1>3, <1>4 DEF CsvInv, PhaseOK, ColumnsMirrorList, Loaded, NoTable

LEMMA CsvStep ==
    ASSUME CsvInv, CsvNext
    PROVE  CsvInv'
  BY FindStartKeeps, PhaseAKeeps, GoPhaseBKeeps, ScanEndsKeeps, RecordKeeps,
     JoinListKeeps, JoinFrameKeeps, Zenon DEF CsvNext, Step

(* The inductive invariant of a load, for every file, number of workers and *)
(* mode.                                                                    *)
THEOREM LoadInvariant == CsvAssumption /\ CsvSpec => []CsvInv
  <1>1. CsvAssumption /\ CsvInit => CsvInv
    BY CsvBegins
  <1>2. CsvInv /\ [CsvNext]_csvVars => CsvInv'
    BY CsvStep, CsvIdle
  <1> QED
    BY <1>1, <1>2, PTL DEF CsvSpec

(* The columns and the objects of a loaded list are the same rows in the    *)
(* same order (csv_parse_parallel).                                         *)
THEOREM ColumnsAreTheList == CsvAssumption /\ CsvSpec => []ColumnsMirrorList
  <1>1. CsvInv => ColumnsMirrorList
    BY DEF CsvInv
  <1> QED
    BY <1>1, LoadInvariant, PTL

-----------------------------------------------------------------------------
(* What holds of a dataframe of a file without blank lines. *)
RowsIn(lo, hi) == {r \in RowStarts : lo <= r /\ r < hi}
RowOrEnd == RowStarts \cup {Eof}

(* Worker i is at p and has the rows s.                                     *)
ReadUpTo(i, p, s) ==
    /\ p \in RowOrEnd /\ Cut(i) <= p /\ p <= Cut(i + 1)
    /\ Increasing(s) /\ ToSet(s) = RowsIn(Cut(i), p)
    /\ Len(s) = Cardinality(RowsIn(Cut(i), p))

(* No worker has scanned what this one has yet to read.                     *)
Ahead(i) == \A k \in worker[i].pos .. Cut(i + 1) - 1 : buf[k] = file[k]

ReaderOK(i) ==
    worker[i].pc # "start"
    => /\ ReadUpTo(i, worker[i].pos, worker[i].rows)
       /\ Ahead(i)
       /\ worker[i].reserved = Cardinality(RowsIn(Cut(i), Cut(i + 1)))
       /\ worker[i].pc = "done" => worker[i].pos = Cut(i + 1)

FrameInv == mode = "frame" /\ Clean => \A i \in Workers : ReaderOK(i)

LEMMA RowIs ==
    ASSUME Input, Clean
    PROVE  /\ RowStarts \in SUBSET (1 .. Len(file)) /\ IsFiniteSet(RowStarts)
           /\ 1 \in RowStarts
           /\ \A r \in 2 .. Len(file) : r \in RowStarts <=> file[r - 1] = "n"
           /\ \A r \in RowStarts : file[r] = "x"
           /\ \A lo, hi \in 1 .. Eof : /\ IsFiniteSet(RowsIn(lo, hi))
                                       /\ Cardinality(RowsIn(lo, hi)) \in Nat
  <1>1. /\ file \in Seq({"x", "n"}) /\ Len(file) \in Nat \ {0} /\ Eof = Len(file) + 1
    BY BufferIs DEF Input
  <1>2. RowStarts \in SUBSET (1 .. Len(file)) /\ IsFiniteSet(RowStarts)
    <2> DEFINE h == Len(file)
    <2>1. h \in Int /\ RowStarts \in SUBSET (1 .. h)
      BY <1>1 DEF RowStarts
    <2> HIDE DEF h
    <2>2. IsFiniteSet(1 .. h)
      BY <2>1, FS_Interval
    <2> QED
      BY <2>1, <2>2, FS_Subset DEF h
  <1>3. 1 \in RowStarts
    BY <1>1 DEF RowStarts, Clean
  <1>4. ASSUME NEW r \in 2 .. Len(file) PROVE r \in RowStarts <=> file[r - 1] = "n"
    <2>1. r \in 1 .. Len(file) /\ r # 1 /\ file[r] \in {"x", "n"}
      BY <1>1
    <2>2. ~ (file[r - 1] = "n" /\ file[r] = "n")
      BY DEF Clean
    <2> QED
      BY <2>1, <2>2 DEF RowStarts
  <1>5. ASSUME NEW lo \in 1 .. Eof, NEW hi \in 1 .. Eof
        PROVE  IsFiniteSet(RowsIn(lo, hi)) /\ Cardinality(RowsIn(lo, hi)) \in Nat
    <2>1. RowsIn(lo, hi) \in SUBSET RowStarts
      BY DEF RowsIn
    <2> QED
      BY <1>2, <2>1, FS_Subset, FS_CardinalityType
  <1>6. \A r \in RowStarts : file[r] = "x"
    BY DEF RowStarts
  <1> QED
    BY <1>2, <1>3, <1>4, <1>5, <1>6

(* A chunk begins with a row, or nothing is left for it.                    *)
LEMMA CutIsRow ==
    ASSUME Input, Clean, NEW i \in 1 .. n + 1
    PROVE  /\ Cut(i) \in RowOrEnd /\ Cut(i) \in 1 .. Eof
           /\ i \in Workers => \A r \in RowOrEnd : r >= From(i) => Cut(i) <= r
  <1>1. /\ n \in Nat \ {0} /\ file \in Buffers /\ Eof \in Nat /\ Eof = Len(file) + 1
        /\ Len(file) \in Nat
    BY BufferIs DEF Input
  <1>2. CASE i = n + 1
    BY <1>1, <1>2 DEF Cut, RowOrEnd, Workers
  <1>3. CASE i = 1
    <2>1. i \in 1 .. n
      BY <1>1, <1>3
    <2>2. Cut(i) = 1 /\ Cut(i) \in 1 .. Eof /\ 1 \in RowStarts
      BY <1>3, <2>1, CutIs, RowIs
    <2>3. \A r \in RowOrEnd : 1 <= r
      BY <1>1, RowIs DEF RowOrEnd
    <2> QED
      BY <2>2, <2>3 DEF RowOrEnd
  <1>4. CASE i # 1 /\ i # n + 1
    <2> DEFINE c == Cut(i)
               p == From(i)
    <2>1. i \in 1 .. n /\ i > 1
      BY <1>1, <1>4
    <2>2. p \in 2 .. Eof
      BY <1>1, <2>1, ChunkIs
    <2>3. c = FirstRow(file, p) /\ c \in 1 .. Eof
      BY <1>4, <2>1, CutIs DEF Start
    <2>4. /\ c \in p .. Eof
          /\ c < Eof => file[c - 1] = "n"
          /\ \A k \in p .. Eof : k < c => file[k - 1] # "n"
      BY <1>1, <2>2, <2>3, FirstRowIs
    <2> HIDE DEF c, p
    <2>5. c \in RowOrEnd
      <3>1. c < Eof => c \in 2 .. Len(file)
        BY <1>1, <2>2, <2>4
      <3> QED
        BY <1>1, <2>3, <2>4, <3>1, RowIs DEF RowOrEnd
    <2>6. ASSUME NEW r \in RowOrEnd, r >= p PROVE c <= r
      <3>1. r \in 1 .. Eof /\ (r < Eof => r \in RowStarts)
        BY <1>1, RowIs DEF RowOrEnd
      <3>2. r < Eof => r \in 2 .. Len(file) /\ r \in p .. Eof
        BY <1>1, <2>2, <2>6, <3>1
      <3>3. r < Eof => file[r - 1] = "n"
        BY <3>1, <3>2, RowIs
      <3> QED
        BY <1>1, <2>3, <2>4, <3>1, <3>2, <3>3
    <2> QED
      BY <2>3, <2>5, <2>6 DEF c, p
  <1> QED
    BY <1>2, <1>3, <1>4

(* csv_df_count_rows counts rows: each line that ends before hi is followed *)
(* by the next row.                                                         *)
LEMMA LinesAreRows ==
    ASSUME Input, Clean, NEW lo \in 1 .. Eof, NEW hi \in 1 .. Eof, lo <= hi,
           lo \in RowOrEnd, hi \in RowOrEnd
    PROVE  Newlines(file, lo, hi)
             + (IF hi = Eof /\ lo < Eof /\ file[Len(file)] # "n" THEN 1 ELSE 0)
             = Cardinality(RowsIn(lo, hi))
  <1> DEFINE N == {k \in lo .. hi - 1 : file[k] = "n"}
             M == RowsIn(lo, hi)
             T == {r \in lo + 1 .. hi : file[r - 1] = "n"}
             f == [k \in N |-> k + 1]
             last == hi = Eof /\ lo < Eof /\ file[Len(file)] # "n"
  <1>1. Eof \in Nat /\ Eof = Len(file) + 1 /\ lo \in Nat /\ hi \in Nat /\ file \in Buffers
    BY BufferIs DEF Input
  <1>2. IsFiniteSet(N) /\ Newlines(file, lo, hi) = Cardinality(N) /\ Cardinality(N) \in Nat
    BY <1>1, NewlinesIs, FS_CardinalityType DEF Newlines
  <1>3. IsFiniteSet(M) /\ Cardinality(M) \in Nat
    BY RowIs
  <1>4. Cardinality(T) = Cardinality(N) /\ IsFiniteSet(T)
    <2>1. f \in [N -> T]
      BY <1>1
    <2>2. \A k, l \in N : f[k] = f[l] => k = l
      BY <1>1
    <2>3. \A r \in T : \E k \in N : f[k] = r
      <3> TAKE r \in T
      <3>1. r - 1 \in N /\ f[r - 1] = r
        BY <1>1
      <3> QED
        BY <3>1
    <2> HIDE DEF f, N, T
    <2>4. f \in Bijection(N, T)
      BY <2>1, <2>2, <2>3 DEF Bijection, Injection, Surjection, IsInjective
    <2> QED
      BY <1>2, <2>4, FS_Bijection DEF ExistsBijection
  <1>5. CASE lo = hi
    <2>1. N = {}
      BY <1>1, <1>5
    <2>2. M = {}
      <3>1. \A r \in RowStarts : r \in Nat
        BY RowIs
      <3> QED
        BY <1>1, <1>5, <3>1 DEF RowsIn
    <2>3. ~last
      BY <1>1, <1>5
    <2> QED
      BY <1>2, <2>1, <2>2, <2>3, FS_EmptySet
  <1>6. CASE lo < hi
    <2>1. lo \in M /\ lo \in RowStarts /\ lo \in 1 .. Len(file)
      BY <1>1, <1>6 DEF RowsIn, RowOrEnd
    <2>2. \A r \in 1 .. Len(file) : lo < r /\ r <= hi => (r \in T <=> r \in RowStarts)
      <3> TAKE r \in 1 .. Len(file)
      <3>1. lo < r => r \in 2 .. Len(file) /\ r \in lo + 1 .. Eof
        BY <1>1
      <3>2. lo < r => (r \in RowStarts <=> file[r - 1] = "n")
        BY <3>1, RowIs
      <3> QED
        BY <1>1, <3>1, <3>2
    <2>3. RowStarts \in SUBSET (1 .. Len(file)) /\ (hi # Eof => hi \in RowStarts)
      BY RowIs DEF RowOrEnd
    <2>4. (hi \in T <=> ~last) /\ hi \notin M /\ lo \notin T
      <3>1. CASE hi = Eof
        <4>1. hi - 1 = Len(file)
          BY <1>1, <3>1
        <4> QED
          BY <1>1, <1>6, <3>1, <4>1 DEF RowsIn
      <3>2. CASE hi # Eof
        <4>1. hi \in 1 .. Len(file)
          BY <1>1, <3>2
        <4> QED
          BY <1>1, <1>6, <2>2, <2>3, <3>2, <4>1 DEF RowsIn
      <3> QED
        BY <3>1, <3>2
    <2>5. M \ {lo} = T \ {hi}
      <3>1. ASSUME NEW r, r \in M, r # lo PROVE r \in T /\ r # hi
        <4>1. r \in 1 .. Len(file) /\ r \in RowStarts /\ lo < r /\ r < hi
          BY <1>1, <2>3, <3>1 DEF RowsIn
        <4> QED
          BY <1>1, <2>2, <4>1
      <3>2. ASSUME NEW r, r \in T, r # hi PROVE r \in M /\ r # lo
        <4>1. r \in 1 .. Len(file) /\ lo < r /\ r < hi
          BY <1>1, <3>2
        <4>2. r \in RowStarts
          BY <1>1, <2>2, <3>2, <4>1
        <4> QED
          BY <1>1, <4>1, <4>2 DEF RowsIn
      <3> QED
        BY <3>1, <3>2
    <2> HIDE DEF N, M, T, last
    <2>6. /\ Cardinality(M \ {lo}) = Cardinality(M) - 1
          /\ Cardinality(T \ {hi}) = IF last THEN Cardinality(T) ELSE Cardinality(T) - 1
      BY <1>3, <1>4, <2>1, <2>4, FS_RemoveElement
    <2>7. Cardinality(N) + (IF last THEN 1 ELSE 0) = Cardinality(M)
      BY <1>2, <1>3, <1>4, <2>5, <2>6
    <2> QED
      BY <1>2, <2>7 DEF M, last
  <1> QED
    BY <1>1, <1>5, <1>6

LEMMA CutsGrow ==
    ASSUME Input, NEW i \in Workers, NEW j \in 1 .. n + 1, i < j
    PROVE  Cut(i + 1) <= Cut(j)
  <1> DEFINE C(k) == Cut(k)
             bad == {k \in 1 .. n + 1 : i < k /\ ~ (C(i + 1) <= C(k))}
  <1>1. n \in Nat \ {0} /\ i \in Nat /\ Eof \in Nat
    BY BufferIs DEF Input, Workers
  <1>2. \A k \in Workers : C(k) \in Nat /\ C(k + 1) \in Nat /\ C(k) <= C(k + 1)
    BY <1>1, CutIs DEF Workers
  <1> HIDE DEF C
  <1> SUFFICES ASSUME bad # {} PROVE FALSE
    BY DEF C
  <1>3. PICK k \in bad : \A m \in bad : k <= m
    <2>1. bad \in SUBSET Nat
      BY <1>1
    <2> HIDE DEF bad
    <2> QED
      BY <2>1, Smallest
  <1>4. k - 1 \in Workers /\ k - 1 \in 1 .. n + 1 /\ (k - 1) + 1 = k /\ k - 1 \notin bad
        /\ k \in Nat
    BY <1>1, <1>3 DEF Workers
  <1>5. C(k - 1) <= C(k) /\ C(k - 1) \in Nat /\ C(k) \in Nat /\ C(i + 1) \in Nat
    BY <1>2, <1>4
  <1>6. k - 1 = i => C(k) = C(i + 1)
    BY <1>4
  <1>7. k - 1 # i => C(i + 1) <= C(k - 1)
    BY <1>1, <1>3, <1>4
  <1> QED
    BY <1>1, <1>2, <1>3, <1>5, <1>6, <1>7

(* The next record of a worker is the next row of its chunk.                *)
LEMMA NextRow ==
    ASSUME Input, Clean, NEW i \in Workers, NEW b \in Buffers, NEW p,
           NEW s \in Seq(1 .. Len(file)), ReadUpTo(i, p, s), p < Cut(i + 1),
           \A k \in p .. Cut(i + 1) - 1 : b[k] = file[k]
    PROVE  /\ p \in 1 .. Len(file) /\ SkipBlank(b, p) = p /\ b[p] = "x"
           /\ ReadUpTo(i, NextLine(b, p), Append(s, p))
           /\ LineEnd(b, p) < Eof => LineEnd(b, p) \in p .. NextLine(b, p) - 1
  <1> DEFINE c == Cut(i)
             d == Cut(i + 1)
             q == NextLine(b, p)
             e == LineEnd(b, p)
  <1>1. /\ Eof \in Nat /\ Eof = Len(file) + 1 /\ Len(file) \in Nat
        /\ n \in Nat \ {0} /\ i \in 1 .. n /\ i \in 1 .. n + 1 /\ i + 1 \in 1 .. n + 1
    BY BufferIs DEF Input, Workers
  <1>2. /\ c \in 1 .. Eof /\ d \in 1 .. Eof /\ d \in RowOrEnd
        /\ RowStarts \in SUBSET (1 .. Len(file))
    BY <1>1, CutIsRow, RowIs
  <1>3. /\ p \in RowOrEnd /\ c <= p /\ Increasing(s) /\ ToSet(s) = RowsIn(c, p)
        /\ Len(s) = Cardinality(RowsIn(c, p)) /\ p < d
    BY DEF ReadUpTo
  <1>4. \A k \in p .. d - 1 : b[k] = file[k]
    OBVIOUS
  <1> HIDE DEF c, d
  <1>5. p \in 1 .. Len(file) /\ p \in RowStarts /\ p \in p .. d - 1
    BY <1>1, <1>2, <1>3 DEF RowOrEnd
  <1>6. b[p] = "x"
    BY <1>4, <1>5, RowIs
  <1>7. SkipBlank(b, p) = p
    <2>1. p \in 1 .. Eof /\ p < Eof /\ b[p] # "n"
      BY <1>1, <1>5, <1>6
    <2> QED
      BY <2>1, SkipBlankIs
  <1>8. /\ q \in p .. Eof /\ q > p
        /\ q < Eof => b[q - 1] = "n" /\ q > 1
        /\ \A k \in p .. Len(file) : k + 1 < q => b[k] # "n"
    BY <1>1, <1>5, NextLineIs
  <1>9. /\ e \in p .. Eof
        /\ \A k \in p .. Len(file) : k < e => b[k] # "n"
    BY <1>1, <1>5, LineEndIs
  <1> HIDE DEF q, e
  <1>10. e < Eof => e \in p .. q - 1
    <2> SUFFICES ASSUME e < Eof, q <= e PROVE FALSE
      BY <1>1, <1>5, <1>8, <1>9
    <2>1. q < Eof /\ q - 1 \in p .. Len(file) /\ q - 1 < e
      BY <1>1, <1>5, <1>8, <1>9
    <2> QED
      BY <1>8, <1>9, <2>1
  <1>11. q <= d
    <2> SUFFICES ASSUME d < q PROVE FALSE
      BY <1>1, <1>2, <1>8
    <2>1. d - 1 \in p .. Len(file) /\ (d - 1) + 1 < q /\ d - 1 \in p .. d - 1
      BY <1>1, <1>2, <1>3, <1>5, <1>8
    <2>2. b[d - 1] # "n" /\ b[d - 1] = file[d - 1]
      BY <1>4, <1>8, <2>1
    <2>3. d \in 2 .. Len(file) /\ d \in RowStarts
      BY <1>1, <1>2, <1>5, <1>8, <2>1 DEF RowOrEnd
    <2> QED
      BY <2>2, <2>3, RowIs
  <1>12. q \in RowOrEnd
    <2> SUFFICES ASSUME q < Eof PROVE q \in RowStarts
      BY <1>1, <1>8 DEF RowOrEnd
    <2>1. q - 1 \in p .. d - 1 /\ q \in 2 .. Len(file) /\ b[q - 1] = "n"
      BY <1>1, <1>2, <1>5, <1>8, <1>11
    <2>2. file[q - 1] = "n"
      BY <1>4, <2>1
    <2> QED
      BY <2>1, <2>2, RowIs
  <1>13. RowsIn(c, q) = RowsIn(c, p) \cup {p} /\ p \notin RowsIn(c, p)
    <2>1. ASSUME NEW r \in RowStarts, c <= r, r < q PROVE r <= p
      <3> SUFFICES ASSUME p < r PROVE FALSE
        BY <1>2, <1>5
      <3>1. r \in 2 .. Len(file) /\ r - 1 \in p .. Len(file) /\ (r - 1) + 1 < q
            /\ r - 1 \in p .. d - 1
        BY <1>1, <1>2, <1>5, <1>8, <1>11, <2>1
      <3>2. file[r - 1] = "n"
        BY <3>1, RowIs
      <3> QED
        BY <1>4, <1>8, <3>1, <3>2
    <2>2. \A r \in RowStarts : c <= r /\ r < q <=> (c <= r /\ r < p) \/ r = p
      BY <1>1, <1>2, <1>3, <1>5, <1>8, <2>1
    <2>3. p \notin RowsIn(c, p)
      BY <1>5 DEF RowsIn
    <2>4. RowsIn(c, q) = RowsIn(c, p) \cup {p}
      <3>1. \A r : r \in RowsIn(c, q) <=> r \in RowStarts /\ c <= r /\ r < q
        BY DEF RowsIn
      <3>2. \A r : r \in RowsIn(c, p) <=> r \in RowStarts /\ c <= r /\ r < p
        BY DEF RowsIn
      <3> QED
        BY <1>5, <2>2, <3>1, <3>2
    <2> QED
      BY <2>3, <2>4
  <1> DEFINE t == Append(s, p)
             l == Len(s)
  <1>14. /\ l \in Nat /\ Len(t) = l + 1 /\ t[l + 1] = p /\ DOMAIN t = 1 .. l + 1
         /\ \A k \in 1 .. l : t[k] = s[k]
         /\ DOMAIN s = 1 .. l
    BY <1>5
  <1> HIDE DEF t, l
  <1>15. \A k \in 1 .. l : s[k] \in RowsIn(c, p)
    BY <1>3, <1>14 DEF ToSet
  <1>16. Increasing(t)
    <2> SUFFICES ASSUME NEW j \in 1 .. l + 1, NEW k \in 1 .. l + 1, j < k
                 PROVE  t[j] < t[k]
      BY <1>14 DEF Increasing
    <2>1. j \in 1 .. l /\ t[j] = s[j] /\ s[j] \in RowsIn(c, p)
      BY <1>14, <1>15
    <2>2. CASE k = l + 1
      BY <1>14, <2>1, <2>2 DEF RowsIn
    <2>3. CASE k # l + 1
      <3>1. k \in 1 .. l /\ t[k] = s[k]
        BY <1>14, <2>3
      <3> QED
        BY <1>3, <1>14, <2>1, <3>1 DEF Increasing
    <2> QED
      BY <2>2, <2>3
  <1>17. ToSet(t) = RowsIn(c, q)
    <2>1. ToSet(t) = {t[k] : k \in 1 .. l + 1} /\ ToSet(s) = {s[k] : k \in 1 .. l}
      BY <1>14 DEF ToSet
    <2>2. {t[k] : k \in 1 .. l + 1} = {s[k] : k \in 1 .. l} \cup {p}
      <3>1. 1 .. l + 1 = (1 .. l) \cup {l + 1}
        BY <1>14
      <3> QED
        BY <1>14, <3>1
    <2> QED
      BY <1>3, <1>13, <2>1, <2>2
  <1>18. Len(t) = Cardinality(RowsIn(c, q))
    <2>1. IsFiniteSet(RowsIn(c, p))
      BY <1>1, <1>2, <1>5, RowIs
    <2>2. Cardinality(RowsIn(c, p) \cup {p}) = Cardinality(RowsIn(c, p)) + 1
      BY <1>13, <2>1, FS_AddElement
    <2> QED
      BY <1>3, <1>13, <1>14, <2>2 DEF l
  <1>19. ReadUpTo(i, q, t)
    BY <1>1, <1>2, <1>3, <1>5, <1>8, <1>11, <1>12, <1>16, <1>17, <1>18 DEF ReadUpTo, c, d
  <1> QED
    BY <1>5, <1>6, <1>7, <1>10, <1>19 DEF q, e, t

(* What a step leaves of these facts. *)
LEMMA ReadersStay ==
    ASSUME UNCHANGED input
    PROVE  /\ Clean' = Clean /\ RowStarts' = RowStarts /\ Workers' = Workers /\ mode' = mode
           /\ file' = file /\ \A i : Cut(i)' = Cut(i)
           /\ \A lo, hi : RowsIn(lo, hi)' = RowsIn(lo, hi)
           /\ \A i, p, s : ReadUpTo(i, p, s)' = ReadUpTo(i, p, s)
  <1>1. /\ file' = file /\ Workers' = Workers /\ mode' = mode /\ Eof' = Eof
        /\ \A i : Cut(i)' = Cut(i)
    BY InputStays
  <1>2. Clean' = Clean
    BY <1>1 DEF Clean
  <1>3. RowStarts' = RowStarts
    BY <1>1 DEF RowStarts
  <1>4. ASSUME NEW lo, NEW hi PROVE RowsIn(lo, hi)' = RowsIn(lo, hi)
    BY <1>3 DEF RowsIn
  <1>5. ASSUME NEW i, NEW p, NEW s PROVE ReadUpTo(i, p, s)' = ReadUpTo(i, p, s)
    BY <1>1, <1>3, <1>4 DEF ReadUpTo, RowOrEnd
  <1> QED
    BY <1>1, <1>2, <1>3, <1>4, <1>5

LEMMA ReaderStays ==
    ASSUME UNCHANGED input, NEW w \in Workers, ReaderOK(w),
           \/ worker'[w] = worker[w]
           \/ /\ worker[w].pc # "start" /\ worker'[w].pc # "done"
              /\ worker'[w].pos = worker[w].pos /\ worker'[w].rows = worker[w].rows
              /\ worker'[w].reserved = worker[w].reserved,
           \A k \in worker[w].pos .. Cut(w + 1) - 1 : buf'[k] = buf[k]
    PROVE  ReaderOK(w)'
  <1> SUFFICES ASSUME worker'[w].pc # "start"
               PROVE  /\ ReadUpTo(w, worker[w].pos, worker[w].rows)'
                      /\ Ahead(w)'
                      /\ worker'[w].reserved = Cardinality(RowsIn(Cut(w), Cut(w + 1))')
                      /\ worker'[w].pc = "done" => worker'[w].pos = Cut(w + 1)'
    BY Zenon DEF ReaderOK
  <1>1. worker[w].pc # "start"
    OBVIOUS
  <1>2. /\ ReadUpTo(w, worker[w].pos, worker[w].rows) /\ Ahead(w)
        /\ worker[w].reserved = Cardinality(RowsIn(Cut(w), Cut(w + 1)))
        /\ worker[w].pc = "done" => worker[w].pos = Cut(w + 1)
    BY <1>1 DEF ReaderOK
  <1>3. /\ worker'[w].pos = worker[w].pos /\ worker'[w].rows = worker[w].rows
        /\ worker'[w].reserved = worker[w].reserved
        /\ worker'[w].pc = "done" => worker[w].pc = "done"
    OBVIOUS
  <1>4. ReadUpTo(w, worker[w].pos, worker[w].rows)'
    BY <1>2, <1>3, ReadersStay DEF ReadUpTo, RowOrEnd
  <1> QED
    BY <1>2, <1>3, <1>4, ReadersStay DEF Ahead

LEMMA PhaseAFrame ==
    ASSUME CsvInv, mode = "frame", Clean, \A w \in Workers : ReaderOK(w),
           NEW i \in Workers, PhaseA(i)
    PROVE  \A w \in Workers : ReaderOK(w)'
  <1>1. UNCHANGED input /\ buf' = buf
    BY DEF PhaseA
  <1>2. buf = file /\ Works(i, "counted", Cut(i), worker[i].rows, FrameRows(i))
    BY PhaseAWorks DEF CsvInv
  <1>3. worker[i].rows = <<>>
    BY DEF PhaseA, CsvInv, PhaseOK
  <1>4. ASSUME NEW w \in Workers, w # i PROVE ReaderOK(w)'
    BY <1>1, <1>2, <1>4, ReaderStays DEF Works
  <1> DEFINE c == Cut(i)
             d == Cut(i + 1)
  <1>5. /\ Input /\ i \in 1 .. n /\ i \in 1 .. n + 1 /\ i + 1 \in 1 .. n + 1 /\ Eof \in Nat
        /\ file \in Buffers
    BY BufferIs DEF Workers, Input, CsvInv, CsvTypeOK
  <1>6. c \in RowOrEnd /\ c \in 1 .. Eof /\ d \in RowOrEnd /\ d \in 1 .. Eof /\ c <= d
    BY <1>5, CutIsRow, CutIs
  <1>7. FrameRows(i) = Cardinality(RowsIn(c, d))
    <2>1. Stop(i) = d /\ Start(buf, i) = c
      BY <1>2, <1>5, StopIs, CutIs
    <2>2. FrameRows(i) = Newlines(file, c, d)
             + (IF d = Eof /\ c < Eof /\ file[Len(file)] # "n" THEN 1 ELSE 0)
      BY <1>2, <2>1 DEF FrameRows, Unfinished
    <2> HIDE DEF c, d
    <2> QED
      BY <1>5, <1>6, <2>2, LinesAreRows
  <1>8. ReadUpTo(i, c, <<>>)
    <2>1. RowsIn(c, c) = {}
      <3>1. \A r \in RowStarts : r \in Nat
        BY <1>5, RowIs
      <3> HIDE DEF c
      <3> QED
        BY <1>5, <1>6, <3>1 DEF RowsIn
    <2>2. ToSet(<<>>) = {} /\ Increasing(<<>>) /\ Len(<<>>) = 0
      BY DEF ToSet, Increasing
    <2> QED
      BY <1>5, <1>6, <2>1, <2>2, FS_EmptySet DEF ReadUpTo
  <1>9. ReaderOK(i)'
    <2>1. /\ worker'[i].pos = c /\ worker'[i].rows = <<>> /\ worker'[i].pc = "counted"
          /\ worker'[i].reserved = Cardinality(RowsIn(c, d))
      BY <1>2, <1>3, <1>7 DEF Works
    <2> HIDE DEF c, d
    <2>2. ReadUpTo(i, worker[i].pos, worker[i].rows)'
      BY <1>1, <1>8, <2>1, ReadersStay DEF ReadUpTo, RowOrEnd
    <2>3. Ahead(i)'
      BY <1>1, <1>2, ReadersStay DEF Ahead
    <2>4. RowsIn(Cut(i), Cut(i + 1))' = RowsIn(c, d)
      BY <1>1, ReadersStay DEF c, d, RowsIn
    <2> QED
      BY <2>1, <2>2, <2>3, <2>4 DEF ReaderOK
  <1> QED
    BY <1>4, <1>9

LEMMA GoPhaseBFrame ==
    ASSUME CsvInv, mode = "frame", Clean, \A w \in Workers : ReaderOK(w), GoPhaseB
    PROVE  \A w \in Workers : ReaderOK(w)'
  <1>1. UNCHANGED input /\ buf' = buf /\ \A w \in Workers : worker[w].pc = "counted"
    BY DEF GoPhaseB, AllCounted
  <1>2. \A w \in Workers : /\ worker'[w].pc = "scan" /\ worker'[w].pos = worker[w].pos
                           /\ worker'[w].rows = worker[w].rows
                           /\ worker'[w].reserved = worker[w].reserved
    BY GoPhaseBKeeps
  <1> QED
    BY <1>1, <1>2, ReaderStays

(* A worker ends where the next one began.                                  *)
LEMMA ScanEndsFrame ==
    ASSUME CsvInv, mode = "frame", Clean, \A w \in Workers : ReaderOK(w),
           NEW i \in Workers, ScanEnds(i)
    PROVE  \A w \in Workers : ReaderOK(w)'
  <1> DEFINE p == worker[i].pos
             s == worker[i].rows
             d == Cut(i + 1)
  <1>1. /\ UNCHANGED input /\ buf' = buf /\ worker[i].pc = "scan"
        /\ p >= To(i) \/ SkipBlank(buf, p) = Eof
    BY DEF ScanEnds
  <1>2. Works(i, "done", p, s, worker[i].reserved)
    BY ScanEndsWorks DEF CsvInv
  <1>3. ReadUpTo(i, p, s) /\ Ahead(i) /\ worker[i].reserved = Cardinality(RowsIn(Cut(i), d))
    BY <1>1 DEF ReaderOK
  <1>4. /\ Input /\ buf \in Buffers /\ Eof \in Nat /\ Eof = Len(file) + 1
        /\ Len(file) \in Nat /\ n \in Nat \ {0}
        /\ i \in 1 .. n /\ i + 1 \in 1 .. n + 1 /\ s \in Seq(1 .. Len(file))
    BY BufferIs, WorkerIs DEF Workers, Input, CsvInv, CsvTypeOK
  <1>5. p = d
    <2>1. p \in RowOrEnd /\ p <= d /\ d \in 1 .. Eof
      BY <1>3, <1>4, CutIsRow DEF ReadUpTo
    <2>2. p \in Nat
      BY <1>4, <2>1, RowIs DEF RowOrEnd
    <2>3. CASE p >= To(i)
      <3>1. CASE i = n
        <4>1. To(i) = Eof
          BY <1>4, <3>1, ChunkIs
        <4> HIDE DEF p, d
        <4> QED
          BY <1>4, <2>1, <2>2, <2>3, <4>1
      <3>2. CASE i # n
        <4>1. i + 1 \in Workers /\ To(i) = From(i + 1)
          BY <1>4, <3>2, ChunkIs DEF Workers
        <4>2. d <= p
          BY <1>4, <2>1, <2>3, <4>1, CutIsRow
        <4> QED
          BY <1>4, <2>1, <2>2, <4>2
      <3> QED
        BY <3>1, <3>2
    <2>4. CASE SkipBlank(buf, p) = Eof
      <3> SUFFICES ASSUME p < d PROVE FALSE
        BY <1>4, <2>1, <2>2
      <3>1. \A k \in p .. d - 1 : buf[k] = file[k]
        BY <1>3 DEF Ahead
      <3>2. /\ p \in 1 .. Len(file) /\ SkipBlank(buf, p) = p /\ buf[p] = "x"
            /\ ReadUpTo(i, NextLine(buf, p), Append(s, p))
            /\ LineEnd(buf, p) < Eof => LineEnd(buf, p) \in p .. NextLine(buf, p) - 1
        BY <1>3, <1>4, <3>1, NextRow
      <3> QED
        BY <1>4, <2>4, <3>2
    <2> QED
      BY <1>1, <2>3, <2>4
  <1>6. ASSUME NEW w \in Workers, w # i PROVE ReaderOK(w)'
    BY <1>1, <1>2, <1>6, ReaderStays DEF Works
  <1>7. ReaderOK(i)'
    <2>1. /\ worker'[i].pos = p /\ worker'[i].rows = s /\ worker'[i].pc = "done"
          /\ worker'[i].reserved = worker[i].reserved
      BY <1>2 DEF Works
    <2>2. ReadUpTo(i, worker[i].pos, worker[i].rows)'
      BY <1>1, <1>3, <2>1, ReadersStay DEF ReadUpTo, RowOrEnd
    <2>3. Ahead(i)'
      BY <1>1, <1>3, <2>1, ReadersStay DEF Ahead
    <2>4. RowsIn(Cut(i), Cut(i + 1))' = RowsIn(Cut(i), d) /\ Cut(i + 1)' = d
      BY <1>1, ReadersStay DEF RowsIn
    <2> QED
      BY <1>3, <1>5, <2>1, <2>2, <2>3, <2>4 DEF ReaderOK
  <1> QED
    BY <1>6, <1>7

(* A worker overwrites the end of a row of its own chunk only.              *)
LEMMA RecordFrame ==
    ASSUME CsvInv, mode = "frame", Clean, \A w \in Workers : ReaderOK(w),
           NEW i \in Workers, Record(i)
    PROVE  \A w \in Workers : ReaderOK(w)'
  <1> DEFINE p == worker[i].pos
             s == worker[i].rows
             c == Cut(i)
             d == Cut(i + 1)
             q == NextLine(buf, p)
             e == LineEnd(buf, p)
  <1>1. /\ UNCHANGED input /\ worker[i].pc = "scan" /\ p < To(i)
    BY DEF Record
  <1>2. ReadUpTo(i, p, s) /\ Ahead(i) /\ worker[i].reserved = Cardinality(RowsIn(c, d))
    BY <1>1 DEF ReaderOK
  <1>3. /\ Input /\ buf \in Buffers /\ Eof \in Nat /\ n \in Nat \ {0} /\ i \in 1 .. n
        /\ Eof = Len(file) + 1 /\ Len(file) \in Nat
        /\ i + 1 \in 1 .. n + 1 /\ s \in Seq(1 .. Len(file))
    BY BufferIs, WorkerIs DEF Workers, Input, CsvInv, CsvTypeOK
  <1>4. c <= p /\ p < d /\ p \in RowOrEnd /\ c \in 1 .. Eof /\ d \in 1 .. Eof
    <2>1. p \in RowOrEnd /\ c <= p /\ To(i) <= d /\ d \in 1 .. Eof /\ c \in 1 .. Eof
      BY <1>2, <1>3, CutIs DEF ReadUpTo
    <2>2. p \in Nat /\ To(i) \in Nat
      <3>1. p \in Nat
        BY <1>3, <2>1, RowIs DEF RowOrEnd
      <3>2. To(i) \in Nat
        <4>1. i = n => To(i) = Eof
          BY <1>3, ChunkIs
        <4>2. i # n => To(i) = From(i + 1) /\ From(i + 1) \in 1 .. Len(file)
          <5>1. i # n => i + 1 \in 1 .. n
            BY <1>3
          <5> QED
            BY <1>3, <5>1, ChunkIs
        <4> QED
          BY <1>3, <4>1, <4>2
      <3> QED
        BY <3>1, <3>2
    <2> QED
      BY <1>1, <2>1, <2>2
  <1>5. /\ p \in 1 .. Len(file) /\ SkipBlank(buf, p) = p /\ buf[p] = "x"
        /\ ReadUpTo(i, q, Append(s, p))
        /\ e < Eof => e \in p .. q - 1
    <2>1. \A k \in p .. d - 1 : buf[k] = file[k]
      BY <1>2 DEF Ahead
    <2> QED
      BY <1>2, <1>3, <1>4, <2>1, NextRow
  <1>6. /\ Works(i, "scan", q, Append(s, p), worker[i].reserved)
        /\ buf' = IF e < Eof THEN [buf EXCEPT ![e] = "0"] ELSE buf
    <2>1. LET first == SkipBlank(buf, worker[i].pos)
              r == IF buf[first] = "0" THEN worker[i].rows ELSE Append(worker[i].rows, first)
          IN  Works(i, "scan", NextLine(buf, first), r, worker[i].reserved)
      BY RecordWorks, Zenon DEF CsvInv
    <2>2. buf' = LET first == SkipBlank(buf, worker[i].pos)
                     end == LineEnd(buf, first)
                 IN  IF end < Eof THEN [buf EXCEPT ![end] = "0"] ELSE buf
      BY DEF Record
    <2>3. buf[p] # "0"
      BY <1>5
    <2> QED
      BY <1>5, <2>1, <2>2, <2>3
  <1>7. p <= q /\ q <= d /\ q \in Nat /\ e \in Nat
    <2>1. q \in p .. Eof /\ e \in p .. Eof /\ p \in 1 .. Eof
      BY <1>3, <1>5, NextLineIs, LineEndIs
    <2> HIDE DEF p, q, e, d, s
    <2> QED
      BY <1>3, <1>5, <2>1 DEF ReadUpTo, d
  <1> HIDE DEF p, s, c, d, q, e
  <1>8. \A k : k # e => buf'[k] = buf[k]
    BY <1>3, <1>6 DEF Buffers
  <1>9. ASSUME NEW w \in Workers, w # i PROVE ReaderOK(w)'
    <2>1. worker'[w] = worker[w]
      BY <1>6, <1>9 DEF Works
    <2>2. ASSUME NEW k \in worker[w].pos .. Cut(w + 1) - 1 PROVE buf'[k] = buf[k]
      <3> SUFFICES ASSUME e < Eof, k = e PROVE FALSE
        BY <1>6, <1>8
      <3>1. c <= k /\ k < d
        BY <1>4, <1>5, <1>7, <1>3
      <3>2. /\ w \in 1 .. n /\ w \in 1 .. n + 1 /\ i \in 1 .. n + 1
            /\ Cut(w) \in 1 .. Eof /\ Cut(w + 1) \in 1 .. Eof
        <4>1. w \in 1 .. n /\ w \in 1 .. n + 1 /\ i \in 1 .. n + 1
          BY <1>3 DEF Workers
        <4> QED
          BY <1>3, <4>1, CutIs
      <3>3. PhaseOK /\ worker[w].pc # "start"
        BY <1>1 DEF CsvInv, PhaseOK
      <3>4. Cut(w) <= worker[w].pos /\ worker[w].pos \in Nat
        BY <3>3, WorkerIs DEF ReaderOK, ReadUpTo, CsvInv
      <3>5. Cut(w) <= k /\ k < Cut(w + 1)
        BY <1>3, <3>2, <3>4
      <3>6. (i < w => d <= Cut(w)) /\ (w < i => Cut(w + 1) <= c)
        BY <1>3, <3>2, CutsGrow DEF c, d
      <3> QED
        BY <1>3, <1>4, <1>9, <3>1, <3>2, <3>5, <3>6
    <2> QED
      BY <1>1, <2>1, <2>2, ReaderStays
  <1>10. ReaderOK(i)'
    <2>1. /\ worker'[i].pos = q /\ worker'[i].rows = Append(s, p) /\ worker'[i].pc = "scan"
          /\ worker'[i].reserved = worker[i].reserved
      BY <1>6 DEF Works
    <2>2. ReadUpTo(i, worker[i].pos, worker[i].rows)'
      BY <1>1, <1>5, <2>1, ReadersStay DEF ReadUpTo, RowOrEnd
    <2>3. Ahead(i)'
      <3>1. \A k \in q .. d - 1 : buf'[k] = file[k]
        <4> TAKE k \in q .. d - 1
        <4>1. k \in p .. d - 1 /\ (e < Eof => k # e)
          BY <1>3, <1>4, <1>5, <1>7
        <4>2. buf[k] = file[k]
          BY <1>2, <4>1 DEF Ahead, p, d
        <4> QED
          BY <1>6, <1>8, <4>1, <4>2
      <3> QED
        BY <1>1, <2>1, <3>1, ReadersStay DEF Ahead, d
    <2>4. RowsIn(Cut(i), Cut(i + 1))' = RowsIn(c, d)
      BY <1>1, ReadersStay DEF RowsIn, c, d
    <2> QED
      BY <1>2, <2>1, <2>2, <2>3, <2>4 DEF ReaderOK
  <1> QED
    BY <1>9, <1>10

(* Main takes the rows of all the workers. *)
LEMMA ParsedHas ==
    ASSUME CsvTypeOK, NEW i \in Workers, NEW k \in 1 .. Len(worker[i].rows)
    PROVE  Before(Lens, i) + k \in DOMAIN Parsed
           /\ Parsed[Before(Lens, i) + k] = worker[i].rows[k]
  <1> DEFINE B(j) == Before(Lens, j)
             p == B(i) + k
  <1>1. /\ Counted(Lens) /\ Input /\ n \in Nat \ {0}
        /\ DOMAIN Parsed = 1 .. B(n + 1) /\ B(n + 1) \in Nat
        /\ \A q \in DOMAIN Parsed : \E j \in Workers : \E m \in 1 .. Len(worker[j].rows) :
               q = B(j) + m /\ Parsed[q] = worker[j].rows[m]
    BY ParsedIs DEF CsvTypeOK, Input
  <1>2. \A j \in Workers : Lens[j] = Len(worker[j].rows) /\ Len(worker[j].rows) \in Nat
    BY WorkerIs DEF Lens
  <1>3. p \in DOMAIN Parsed
    <2>1. i \in 1 .. n + 1 /\ n + 1 \in 1 .. n + 1 /\ i < n + 1
      BY <1>1 DEF Workers
    <2>2. B(i) \in Nat /\ B(i) + Lens[i] <= B(n + 1)
      BY <1>1, <2>1, BeforeNext, BeforeGrows
    <2> HIDE DEF B
    <2> QED
      BY <1>1, <1>2, <2>2
  <1>4. PICK j \in Workers : \E m \in 1 .. Len(worker[j].rows) :
            p = B(j) + m /\ Parsed[p] = worker[j].rows[m]
    <2> HIDE DEF p, B
    <2> QED
      BY <1>1, <1>3
  <1>5. PICK m \in 1 .. Len(worker[j].rows) : p = B(j) + m /\ Parsed[p] = worker[j].rows[m]
    BY <1>4
  <1>6. i = j /\ k = m
    BY <1>1, <1>2, <1>5, PlaceIsHis
  <1> QED
    BY <1>3, <1>5, <1>6

LEMMA RowIsOnes ==
    ASSUME Input, Clean, NEW r \in RowStarts
    PROVE  \E i \in Workers : r \in RowsIn(Cut(i), Cut(i + 1))
  <1> DEFINE C(j) == Cut(j)
             S == {j \in 1 .. n + 1 : r < C(j)}
  <1>1. n \in Nat \ {0} /\ r \in 1 .. Len(file) /\ Eof = Len(file) + 1 /\ Len(file) \in Nat
    BY BufferIs, RowIs DEF Input
  <1>2. /\ C(1) = 1 /\ C(n + 1) = Eof
        /\ \A j \in 1 .. n + 1 : C(j) \in Nat
    <2>1. 1 \in 1 .. n
      BY <1>1
    <2>2. \A j \in 1 .. n + 1 : C(j) \in 1 .. Eof
      BY CutIsRow
    <2> QED
      BY <1>1, <2>1, <2>2, CutIs
  <1> HIDE DEF C
  <1>3. n + 1 \in S /\ S \in SUBSET Nat
    BY <1>1, <1>2
  <1>4. PICK j \in S : \A m \in S : j <= m
    <2> HIDE DEF S
    <2> QED
      BY <1>3, Smallest
  <1>5. j # 1
    BY <1>1, <1>2, <1>4
  <1> DEFINE i == j - 1
  <1>6. i \in Workers /\ i \in 1 .. n + 1 /\ i \notin S /\ i + 1 = j
    BY <1>1, <1>4, <1>5 DEF Workers
  <1> HIDE DEF i
  <1>7. C(i) <= r /\ r < C(i + 1)
    BY <1>1, <1>2, <1>4, <1>6
  <1> QED
    BY <1>6, <1>7 DEF C, RowsIn

LEMMA FrameIsParsed ==
    ASSUME CsvInv, mode = "frame", Clean, \A w \in Workers : ReaderOK(w), JoinFrame
    PROVE  RowsOfFile(table')
  <1>1. AllDone /\ table' = SubSeq(cols, 1, Len(Parsed))
    BY DEF JoinFrame
  <1>2. /\ CsvTypeOK /\ Input /\ n \in Nat \ {0} /\ Eof \in Nat
        /\ Eof = Len(file) + 1 /\ Len(file) \in Nat
    BY BufferIs DEF CsvInv, CsvTypeOK, Input
  <1>3. ASSUME NEW i \in Workers
        PROVE  /\ Increasing(worker[i].rows)
               /\ ToSet(worker[i].rows) = RowsIn(Cut(i), Cut(i + 1))
               /\ Len(worker[i].rows) = worker[i].reserved
               /\ Len(worker[i].rows) \in Nat
               /\ DOMAIN worker[i].rows = 1 .. Len(worker[i].rows)
    <2>1. worker[i].pc = "done"
      BY <1>1 DEF AllDone
    <2>2. ReadUpTo(i, Cut(i + 1), worker[i].rows)
          /\ worker[i].reserved = Cardinality(RowsIn(Cut(i), Cut(i + 1)))
      BY <2>1 DEF ReaderOK
    <2>3. worker[i].rows \in Seq(1 .. Len(file))
      BY <1>2, WorkerIs
    <2> QED
      BY <2>2, <2>3 DEF ReadUpTo
  <1>4. AsCounted
    BY <1>3 DEF AsCounted
  <1> DEFINE B(i) == Before(Lens, i)
             D == DOMAIN Parsed
  <1>5. /\ Counted(Lens) /\ D = 1 .. B(n + 1) /\ B(n + 1) \in Nat /\ Len(Parsed) = B(n + 1)
        /\ \A p \in D : \E i \in Workers : \E k \in 1 .. Len(worker[i].rows) :
               p = B(i) + k /\ Parsed[p] = worker[i].rows[k]
    BY <1>2, ParsedIs
  <1>6. ToSet(Parsed) = RowStarts
    <2>1. ASSUME NEW p \in D PROVE Parsed[p] \in RowStarts
      <3>1. PICK i \in Workers : \E k \in 1 .. Len(worker[i].rows) : Parsed[p] = worker[i].rows[k]
        BY <1>5
      <3>2. Parsed[p] \in ToSet(worker[i].rows)
        BY <1>3, <3>1 DEF ToSet
      <3> QED
        BY <1>3, <3>1, <3>2 DEF RowsIn
    <2>2. ASSUME NEW r \in RowStarts PROVE \E p \in D : Parsed[p] = r
      <3>1. PICK i \in Workers : r \in RowsIn(Cut(i), Cut(i + 1))
        BY <1>2, RowIsOnes
      <3>2. PICK k \in 1 .. Len(worker[i].rows) : worker[i].rows[k] = r
        BY <1>3, <3>1 DEF ToSet
      <3> QED
        BY <1>2, <3>2, ParsedHas
    <2> HIDE DEF D
    <2> QED
      BY <2>1, <2>2 DEF ToSet, D
  <1>7. Increasing(Parsed)
    <2> SUFFICES ASSUME NEW p \in D, NEW q \in D, p < q PROVE Parsed[p] < Parsed[q]
      BY DEF Increasing
    <2> DEFINE At(v, i, k) == v = B(i) + k /\ Parsed[v] = worker[i].rows[k]
    <2>1. PICK i \in Workers : \E k \in 1 .. Len(worker[i].rows) : At(p, i, k)
      BY <1>5
    <2>2. PICK k \in 1 .. Len(worker[i].rows) : At(p, i, k)
      BY <2>1
    <2>3. PICK j \in Workers : \E m \in 1 .. Len(worker[j].rows) : At(q, j, m)
      BY <1>5
    <2>4. PICK m \in 1 .. Len(worker[j].rows) : At(q, j, m)
      BY <2>3
    <2>5. /\ i \in 1 .. n + 1 /\ j \in 1 .. n + 1
          /\ i \in Nat /\ j \in Nat
      BY <1>2 DEF Workers
    <2>6. /\ B(i) \in Nat /\ B(j) \in Nat
          /\ j < i => B(j) + Len(worker[j].rows) <= B(i)
      <3>1. Lens[j] = Len(worker[j].rows)
        BY DEF Lens
      <3> QED
        BY <1>2, <1>5, <2>5, <3>1, BeforeNext, BeforeGrows
    <2> HIDE DEF B
    <2>7. i <= j /\ (i = j => k < m)
      <3>1. Len(worker[i].rows) \in Nat /\ Len(worker[j].rows) \in Nat
        BY <1>3
      <3>2. B(i) + k < B(j) + m
        BY <2>2, <2>4
      <3>3. ~ (j < i)
        BY <2>6, <3>1, <3>2
      <3>4. i = j => k < m
        BY <2>6, <3>1, <3>2
      <3> QED
        BY <2>5, <3>3, <3>4
    <2>8. CASE i = j
      BY <1>3, <2>2, <2>4, <2>7, <2>8 DEF Increasing
    <2>9. CASE i < j
      <3> DEFINE a == worker[i].rows[k]
                 b == worker[j].rows[m]
      <3>1. a \in ToSet(worker[i].rows) /\ b \in ToSet(worker[j].rows)
        BY <1>3 DEF ToSet
      <3>2. a \in RowStarts /\ b \in RowStarts /\ a < Cut(i + 1) /\ Cut(j) <= b
        BY <1>3, <3>1 DEF RowsIn
      <3>3. Cut(i + 1) <= Cut(j) /\ Cut(j) \in 1 .. Eof /\ Cut(i + 1) \in 1 .. Eof
        <4>1. i \in 1 .. n
          BY DEF Workers
        <4> QED
          BY <1>2, <2>5, <2>9, <4>1, CutsGrow, CutIsRow, CutIs
      <3>4. a \in Nat /\ b \in Nat
        BY <1>2, <3>2, RowIs
      <3> HIDE DEF a, b
      <3>5. a < b
        BY <1>2, <3>2, <3>3, <3>4
      <3> QED
        BY <2>2, <2>4, <3>5 DEF a, b
    <2> QED
      BY <2>5, <2>7, <2>8, <2>9
  <1>8. SubSeq(cols, 1, Len(Parsed)) = Parsed
    <2>1. Total = B(n + 1)
      <3>1. Lens = [w \in Workers |-> worker[w].reserved]
        BY <1>3 DEF Lens
      <3> QED
        BY <3>1 DEF Total, Offset
    <2>2. HasColumns
      <3>1. 1 \in ToSet(Parsed)
        BY <1>2, <1>6, RowIs
      <3>2. B(n + 1) # 0
        BY <1>5, <3>1 DEF ToSet
      <3> QED
        BY <1>5, <2>1, <3>2 DEF HasColumns
    <2> QED
      BY <1>4, <1>5, <2>1, <2>2, ColumnsAreParsed
  <1> QED
    BY <1>1, <1>6, <1>7, <1>8 DEF RowsOfFile, Increasing

LEMMA FrameBegins ==
    ASSUME CsvInit
    PROVE  FrameInv /\ FrameIsFile
  <1>1. \A i \in Workers : worker[i].pc = "start"
    BY DEF CsvInit
  <1>2. table = NoTable
    BY DEF CsvInit
  <1> QED
    BY <1>1, <1>2 DEF FrameInv, ReaderOK, FrameIsFile, Loaded

LEMMA FrameStep ==
    ASSUME CsvInv, FrameInv, FrameIsFile, [CsvNext]_csvVars
    PROVE  FrameInv' /\ FrameIsFile'
  <1>1. UNCHANGED input
    BY DEF CsvNext, Step, csvVars, input, FindStart, PhaseA, Record, ScanEnds, GoPhaseB,
           JoinList, JoinFrame
  <1>2. SUFFICES ASSUME mode = "frame", Clean
                 PROVE  (\A w \in Workers : ReaderOK(w)') /\ (Loaded' => RowsOfFile(table)')
    BY <1>1, ReadersStay DEF FrameInv, FrameIsFile
  <1>3. \A w \in Workers : ReaderOK(w)
    BY <1>2 DEF FrameInv
  <1>4. ASSUME table' = table PROVE Loaded' => RowsOfFile(table)'
    <2>1. Loaded' => RowsOfFile(table)
      BY <1>2, <1>4 DEF FrameIsFile, Loaded, NoTable
    <2>2. RowsOfFile(table)' <=> RowsOfFile(table)
      BY <1>1, <1>4, ReadersStay DEF RowsOfFile
    <2> QED
      BY <2>1, <2>2
  <1>5. ASSUME UNCHANGED <<worker, buf>> PROVE \A w \in Workers : ReaderOK(w)'
    BY <1>1, <1>3, <1>5, ReaderStays
  <1>6. ASSUME NEW i \in Workers, Step(i)
        PROVE  (\A w \in Workers : ReaderOK(w)') /\ table' = table
    <2>1. ~FindStart(i)
      BY <1>2 DEF FindStart
    <2>2. CASE PhaseA(i)
      BY <1>2, <1>3, <2>2, PhaseAFrame DEF PhaseA
    <2>3. CASE Record(i)
      BY <1>2, <1>3, <2>3, RecordFrame DEF Record
    <2>4. CASE ScanEnds(i)
      BY <1>2, <1>3, <2>4, ScanEndsFrame DEF ScanEnds
    <2> QED
      BY <1>6, <2>1, <2>2, <2>3, <2>4 DEF Step
  <1>7. CASE GoPhaseB
    BY <1>2, <1>3, <1>4, <1>7, GoPhaseBFrame DEF GoPhaseB
  <1>8. CASE JoinFrame
    <2>1. RowsOfFile(table') /\ UNCHANGED <<worker, buf>>
      BY <1>2, <1>3, <1>8, FrameIsParsed DEF JoinFrame
    <2>2. RowsOfFile(table)' <=> RowsOfFile(table')
      BY <1>1, ReadersStay DEF RowsOfFile
    <2> QED
      BY <1>5, <2>1, <2>2
  <1>9. CASE UNCHANGED csvVars
    BY <1>4, <1>5, <1>9 DEF csvVars
  <1>10. ~JoinList
    BY <1>2 DEF JoinList
  <1> QED
    BY <1>4, <1>6, <1>7, <1>8, <1>9, <1>10 DEF CsvNext

(* A dataframe has the rows of the file, each once and in order, for every  *)
(* file without blank lines, every number of threads and every schedule     *)
(* (csv_build_dataframe).                                                   *)
THEOREM FrameIsTheFile == CsvAssumption /\ CsvSpec => []FrameIsFile
  <1>1. CsvInit => FrameInv /\ FrameIsFile
    BY FrameBegins
  <1>2. CsvInv /\ (FrameInv /\ FrameIsFile) /\ [CsvNext]_csvVars
        => (FrameInv /\ FrameIsFile)'
    BY FrameStep
  <1> QED
    BY <1>1, <1>2, LoadInvariant, PTL DEF CsvSpec
=============================================================================
