------------------------- MODULE InvokeLock_proofs -------------------------
(***************************************************************************)
(* The invoke lock is a lock, for any finite set of threads and any        *)
(* counter width above their number: only one thread is inside, although   *)
(* the counters wrap, and a wakeup is never lost.                          *)
(***************************************************************************)
EXTENDS InvokeLock, FiniteSetTheorems, SequenceTheorems, TLAPS

(* Who is inside holds the ticket being served. *)
InsideIsServed == \A t \in Threads : place[t] = "in" => my[t] = invoke_serv

(* The inductive invariant: with distinct tickets, InsideIsServed leaves    *)
(* room for one thread inside, and the ring arithmetic of                   *)
(* TicketsConsecutive keeps tickets distinct when the counters wrap.        *)
IInv == LockTypeOK /\ TicketsConsecutive /\ InsideIsServed /\ ServedIsAwake

-----------------------------------------------------------------------------
(* Counter steps stay in range, and move one place along the ring. *)
LEMMA SuccRange == ASSUME NEW n \in Tickets PROVE Succ(n) \in Tickets
  BY InvokeLockAssumption DEF Succ, Tickets

LEMMA DistanceRange ==
    ASSUME NEW a \in Tickets, NEW b \in Tickets
    PROVE  Distance(a, b) \in Tickets
  BY InvokeLockAssumption DEF Distance, Tickets

(* Taking a ticket makes the line one longer while a place is left. *)
LEMMA DistanceGrows ==
    ASSUME NEW a \in Tickets, NEW b \in Tickets,
           Distance(a, b) + 1 < TicketMod
    PROVE  Distance(a, Succ(b)) = Distance(a, b) + 1
  BY InvokeLockAssumption DEF Distance, Tickets, Succ

(* Serving the next ticket brings every other one a place nearer. *)
LEMMA DistanceShrinks ==
    ASSUME NEW a \in Tickets, NEW b \in Tickets, a # b
    PROVE  Distance(Succ(a), b) = Distance(a, b) - 1
  BY InvokeLockAssumption DEF Distance, Tickets, Succ

(* Places along the ring tell tickets apart. *)
LEMMA DistanceInjective ==
    ASSUME NEW a \in Tickets, NEW b \in Tickets, NEW c \in Tickets
    PROVE  /\ Distance(a, b) = Distance(a, c) => b = c
           /\ Distance(a, a) = 0
           /\ Distance(a, b) = 0 => a = b
  BY InvokeLockAssumption DEF Distance, Tickets

LEMMA HoldersFinite ==
    /\ IsFiniteSet(Holders)
    /\ Cardinality(Holders) \in Nat
    /\ Cardinality(Holders) <= Cardinality(Threads)
  BY InvokeLockAssumption, FS_Subset, FS_CardinalityType DEF Holders

-----------------------------------------------------------------------------
(* Initially nobody holds a ticket. *)
LEMMA InitInv == LockInit => IInv
  <1> SUFFICES ASSUME LockInit PROVE IInv
    OBVIOUS
  <1>1. LockTypeOK
    <2>1. 0 \in Tickets
      BY InvokeLockAssumption, FS_CardinalityType DEF Tickets
    <2> QED
      BY <2>1 DEF LockInit, LockTypeOK
  <1>2. Holders = {} /\ Cardinality(Holders) = 0
    BY FS_EmptySet DEF LockInit, Holders
  <1>3. TicketsConsecutive
    BY <1>2 DEF LockInit, TicketsConsecutive, Distance
  <1>4. QED
    BY <1>1, <1>3 DEF IInv, InsideIsServed, ServedIsAwake, LockInit

(* A thread that takes a ticket goes to the back of the line. *)
LEMMA TakeTicketInv ==
    ASSUME IInv, NEW t \in Threads, TakeTicket(t) PROVE IInv'
  <1> USE DEF IInv
  <1>1. LockTypeOK'
    BY SuccRange DEF LockTypeOK, TakeTicket
  <1>2. t \notin Holders /\ Holders' = Holders \union {t}
    BY DEF TakeTicket, Holders, LockTypeOK
  <1>3. Cardinality(Holders') = Cardinality(Holders) + 1
    BY <1>2, HoldersFinite, FS_AddElement
  <1>4. Cardinality(Holders') <= Cardinality(Threads)
    BY InvokeLockAssumption, FS_Subset DEF Holders
  <1>5. Distance(invoke_serv, invoke_next) + 1 < TicketMod
    BY <1>3, <1>4, HoldersFinite, InvokeLockAssumption, FS_CardinalityType
       DEF TicketsConsecutive
  <1>6. Distance(invoke_serv', invoke_next') = Distance(invoke_serv, invoke_next) + 1
    BY <1>5, DistanceGrows DEF LockTypeOK, TakeTicket
  <1>7. \A u \in Holders : my'[u] = my[u] /\ my[u] # invoke_next
    <2> SUFFICES ASSUME NEW u \in Holders
                 PROVE  my'[u] = my[u] /\ my[u] # invoke_next
      OBVIOUS
    <2>1. u \in Threads /\ u # t
      BY <1>2 DEF Holders
    <2>2. my'[u] = my[u]
      BY <2>1 DEF TakeTicket, LockTypeOK
    <2>3. Distance(invoke_serv, my[u]) < Distance(invoke_serv, invoke_next)
      BY DEF TicketsConsecutive
    <2> QED
      BY <2>1, <2>2, <2>3, DistanceRange DEF LockTypeOK, Tickets
  <1>8. my'[t] = invoke_next
    BY DEF TakeTicket, LockTypeOK
  <1>9. TicketsConsecutive'
    <2>1. \A u, v \in Holders' : my'[u] = my'[v] => u = v
      BY <1>2, <1>7, <1>8 DEF TicketsConsecutive
    <2>2. \A u \in Holders' : Distance(invoke_serv', my'[u])
                                < Distance(invoke_serv', invoke_next')
      <3> SUFFICES ASSUME NEW u \in Holders'
                   PROVE  Distance(invoke_serv', my'[u])
                            < Distance(invoke_serv', invoke_next')
        OBVIOUS
      <3>1. invoke_serv' = invoke_serv
        BY DEF TakeTicket
      <3>2. Distance(invoke_serv, invoke_next) \in Nat
        BY DistanceRange DEF LockTypeOK, Tickets
      <3>3. CASE u = t
        <4>1. Distance(invoke_serv', my'[u]) = Distance(invoke_serv, invoke_next)
          BY <1>8, <3>1, <3>3
        <4> QED
          BY <4>1, <1>6, <3>2
      <3>4. CASE u \in Holders
        <4>1. Distance(invoke_serv', my'[u]) = Distance(invoke_serv, my[u])
          BY <1>7, <3>1, <3>4
        <4>2. Distance(invoke_serv, my[u]) \in Nat
          BY <3>4, DistanceRange DEF LockTypeOK, Tickets, Holders
        <4>3. Distance(invoke_serv, my[u]) < Distance(invoke_serv, invoke_next)
          BY <3>4 DEF TicketsConsecutive
        <4> QED
          BY <4>1, <4>2, <4>3, <1>6, <3>2
      <3> QED
        BY <1>2, <3>3, <3>4
    <2>3. Distance(invoke_serv', invoke_next') = Cardinality(Holders')
      BY <1>3, <1>6 DEF TicketsConsecutive
    <2> QED
      BY <2>1, <2>2, <2>3 DEF TicketsConsecutive
  <1>10. InsideIsServed'
    BY <1>8 DEF InsideIsServed, TakeTicket, LockTypeOK, MyTurn
  <1>11. ServedIsAwake'
    BY <1>8 DEF ServedIsAwake, TakeTicket, LockTypeOK, MyTurn
  <1> QED
    BY <1>1, <1>9, <1>10, <1>11

(* Waking and testing again move no ticket. *)
LEMMA WakeInv ==
    ASSUME IInv, NEW t \in Threads, WakesUnasked(t) \/ Recheck(t) PROVE IInv'
  <1> USE DEF IInv, WakesUnasked, Recheck
  <1>1. LockTypeOK'
    BY DEF LockTypeOK
  <1>2. Holders' = Holders
    BY DEF Holders, LockTypeOK
  <1>3. TicketsConsecutive'
    BY <1>2 DEF TicketsConsecutive
  <1>4. InsideIsServed' /\ ServedIsAwake'
    BY DEF InsideIsServed, ServedIsAwake, LockTypeOK, MyTurn
  <1> QED
    BY <1>1, <1>3, <1>4

(* A release serves the next ticket and wakes every sleeper. *)
LEMMA ReleaseInv ==
    ASSUME IInv, NEW t \in Threads, Release(t) PROVE IInv'
  <1> USE DEF IInv
  <1>1. LockTypeOK'
    BY SuccRange DEF LockTypeOK, Release, WakeAll
  <1>2. /\ t \in Holders
        /\ Holders' = Holders \ {t}
        /\ my' = my
        /\ my[t] = invoke_serv
    BY DEF Release, WakeAll, Holders, LockTypeOK, InsideIsServed
  <1>3. Cardinality(Holders') = Cardinality(Holders) - 1
    BY <1>2, HoldersFinite, FS_RemoveElement
  <1>4. \A u \in Holders' : my[u] # invoke_serv
    BY <1>2 DEF TicketsConsecutive
  <1>5. \A u \in Holders' : Distance(invoke_serv', my[u]) = Distance(invoke_serv, my[u]) - 1
    BY <1>2, <1>4, DistanceShrinks DEF Release, LockTypeOK, Holders
  <1>6. invoke_serv # invoke_next
    <2>1. Distance(invoke_serv, my[t]) < Distance(invoke_serv, invoke_next)
      BY <1>2 DEF TicketsConsecutive
    <2> QED
      BY <2>1, <1>2, DistanceInjective DEF LockTypeOK
  <1>7. Distance(invoke_serv', invoke_next') = Distance(invoke_serv, invoke_next) - 1
    BY <1>6, DistanceShrinks DEF Release, LockTypeOK
  <1>8. TicketsConsecutive'
    <2>1. \A u, v \in Holders' : my'[u] = my'[v] => u = v
      BY <1>2 DEF TicketsConsecutive
    <2>2. \A u \in Holders' : Distance(invoke_serv', my'[u])
                                < Distance(invoke_serv', invoke_next')
      <3> SUFFICES ASSUME NEW u \in Holders'
                   PROVE  Distance(invoke_serv', my'[u])
                            < Distance(invoke_serv', invoke_next')
        OBVIOUS
      <3>1. Distance(invoke_serv, my[u]) < Distance(invoke_serv, invoke_next)
        BY <1>2 DEF TicketsConsecutive
      <3>2. Distance(invoke_serv, my[u]) \in Nat /\ Distance(invoke_serv, invoke_next) \in Nat
        BY <1>2, DistanceRange DEF LockTypeOK, Tickets, Holders
      <3>3. Distance(invoke_serv', my'[u]) = Distance(invoke_serv, my[u]) - 1
        BY <1>2, <1>5
      <3> QED
        BY <3>1, <3>2, <3>3, <1>7
    <2>3. Distance(invoke_serv', invoke_next') = Cardinality(Holders')
      BY <1>3, <1>7 DEF TicketsConsecutive
    <2> QED
      BY <2>1, <2>2, <2>3 DEF TicketsConsecutive
  <1>9. InsideIsServed'
    <2> SUFFICES ASSUME NEW u \in Threads, place'[u] = "in" PROVE FALSE
      BY DEF InsideIsServed
    <2>1. place[u] = "in" /\ u # t
      BY DEF Release, WakeAll, LockTypeOK
    <2>2. u \in Holders /\ my[u] = my[t]
      BY <2>1, <1>2 DEF Holders, InsideIsServed
    <2> QED
      BY <2>1, <2>2, <1>2 DEF TicketsConsecutive
  <1>10. ServedIsAwake'
    BY DEF ServedIsAwake, Release, WakeAll, LockTypeOK
  <1> QED
    BY <1>1, <1>8, <1>9, <1>10

(* The inductive invariant holds in every reachable state. *)
THEOREM LockInvariant == LockSpec => []IInv
  <1>1. LockInit => IInv
    BY InitInv
  <1>2. IInv /\ [LockNext]_lockVars => IInv'
    <2> SUFFICES ASSUME IInv, [LockNext]_lockVars PROVE IInv'
      OBVIOUS
    <2>1. CASE LockNext
      BY <2>1, TakeTicketInv, WakeInv, ReleaseInv DEF LockNext
    <2>2. CASE UNCHANGED lockVars
      BY <2>2 DEF lockVars, IInv, LockTypeOK, TicketsConsecutive, Holders,
                  InsideIsServed, ServedIsAwake
    <2> QED
      BY <2>1, <2>2
  <1> QED
    BY <1>1, <1>2, PTL DEF LockSpec

(* The counters stay in range and every thread is at a known place. *)
THEOREM LockTypeCorrect == LockSpec => []LockTypeOK
  BY LockInvariant, PTL DEF IInv

(* At most one thread runs the interpreter (invoke_lock_acquire returns     *)
(* only to the thread whose ticket is served).                              *)
THEOREM LockMutualExclusion == LockSpec => []MutualExclusion
  <1>1. IInv => MutualExclusion
    BY DEF IInv, MutualExclusion, InsideIsServed, TicketsConsecutive, Holders
  <1> QED
    BY <1>1, LockInvariant, PTL

(* The broadcast of invoke_lock_release reaches the next thread: no thread  *)
(* sleeps while its ticket is served.                                       *)
THEOREM LockNoLostWakeup == LockSpec => []ServedIsAwake
  BY LockInvariant, PTL DEF IInv

(* The tickets out are consecutive and distinct even when counters wrap.    *)
THEOREM LockTickets == LockSpec => []TicketsConsecutive
  BY LockInvariant, PTL DEF IInv

-----------------------------------------------------------------------------
(* The refinement of FifoLock.  What TicketsConsecutive says, of any        *)
(* counters s and n, tickets m and holders H, so that it can be used of a   *)
(* state and of the next one.                                               *)
Ring(s, n, m, H) ==
    /\ s \in Tickets /\ n \in Tickets
    /\ IsFiniteSet(H)
    /\ \A t \in H : m[t] \in Tickets
    /\ \A t, u \in H : m[t] = m[u] => t = u
    /\ \A t \in H : Distance(s, m[t]) < Distance(s, n)
    /\ Distance(s, n) = Cardinality(H)

LineOf(s, n, m, H) ==
    [i \in 1 .. Distance(s, n) |-> CHOOSE t \in H : Distance(s, m[t]) = i - 1]

(* Every place of the line is taken: as many holders as places, no two in   *)
(* the same one.                                                            *)
LEMMA PlacesTaken ==
    ASSUME NEW s, NEW n, NEW m, NEW H, Ring(s, n, m, H),
           NEW i \in 1 .. Distance(s, n)
    PROVE  \E t \in H : Distance(s, m[t]) = i - 1
  <1> DEFINE D == Distance(s, n)
             Places == 0 .. D - 1
             spot == [t \in H |-> Distance(s, m[t])]
  <1>1. D \in Nat
    BY DistanceRange DEF Ring, Tickets
  <1>2. spot \in [H -> Places]
    <2> SUFFICES ASSUME NEW t \in H PROVE Distance(s, m[t]) \in Places
      OBVIOUS
    <2>1. m[t] \in Tickets /\ Distance(s, m[t]) < D
      BY DEF Ring
    <2>2. Distance(s, m[t]) \in Tickets
      BY <2>1, DistanceRange DEF Ring
    <2>3. Distance(s, m[t]) \in Nat
      BY <2>2 DEF Tickets
    <2> QED
      BY <2>1, <2>3, <1>1
  <1>3. \A t, u \in H : spot[t] = spot[u] => t = u
    BY DistanceInjective DEF Ring
  <1>4. spot \in Injection(H, Places)
    BY <1>2, <1>3 DEF Injection, IsInjective
  <1>5. IsFiniteSet(Places) /\ Cardinality(Places) = D
    <2> HIDE DEF D
    <2>1. 0 \in Int /\ D - 1 \in Int /\ (0 > D - 1 <=> D = 0) /\ (D - 1) - 0 + 1 = D
      BY <1>1
    <2>2. IsFiniteSet(0 .. D - 1) /\ Cardinality(0 .. D - 1) = IF 0 > D - 1 THEN 0 ELSE (D - 1) - 0 + 1
      BY <2>1, FS_Interval
    <2> QED
      BY <2>1, <2>2
  <1>6. spot \in Surjection(H, Places)
    <2>1. Cardinality(H) = Cardinality(Places)
      BY <1>5 DEF Ring
    <2> QED
      BY <2>1, <1>4, <1>5, FS_Injection
  <1>7. i - 1 \in Places
    BY <1>1
  <1> QED
    BY <1>6, <1>7 DEF Surjection

(* The line is a sequence of holders, each in the place of its ticket, and  *)
(* the only one.                                                            *)
LEMMA LineFacts ==
    ASSUME NEW s, NEW n, NEW m, NEW H, Ring(s, n, m, H)
    PROVE  LET q == LineOf(s, n, m, H) IN
           /\ q \in Seq(H)
           /\ Len(q) = Distance(s, n)
           /\ \A i \in 1 .. Len(q) : Distance(s, m[q[i]]) = i - 1
  <1> DEFINE D == Distance(s, n)
             q == LineOf(s, n, m, H)
  <1>1. D \in Nat
    BY DistanceRange DEF Ring, Tickets
  <1>2. \A i \in 1 .. D : q[i] \in H /\ Distance(s, m[q[i]]) = i - 1
    BY PlacesTaken DEF LineOf
  <1>3. q \in [1 .. D -> H]
    BY <1>2 DEF LineOf
  <1>4. q \in Seq(H)
    BY <1>1, <1>3
  <1>5. Len(q) = D
    BY <1>1, <1>3, <1>4
  <1> QED
    BY <1>2, <1>4, <1>5

LEMMA LineUnique ==
    ASSUME NEW s, NEW n, NEW m, NEW H, Ring(s, n, m, H),
           NEW p \in Seq(H), Len(p) = Distance(s, n),
           \A i \in 1 .. Len(p) : Distance(s, m[p[i]]) = i - 1
    PROVE  p = LineOf(s, n, m, H)
  <1> DEFINE q == LineOf(s, n, m, H)
  <1>1. q \in Seq(H) /\ Len(q) = Len(p)
    BY LineFacts
  <1>2. ASSUME NEW i \in 1 .. Len(p) PROVE p[i] = q[i]
    <2>1. p[i] \in H /\ q[i] \in H
      BY <1>1, ElementOfSeq
    <2>2. Distance(s, m[p[i]]) = Distance(s, m[q[i]])
      BY <1>1, LineFacts
    <2> QED
      BY <2>1, <2>2, DistanceInjective DEF Ring
  <1> QED
    BY <1>1, <1>2, SeqEqual

LEMMA IsRing == IInv => Ring(invoke_serv, invoke_next, my, Holders)
  BY HoldersFinite DEF IInv, Ring, TicketsConsecutive, LockTypeOK, Holders

LEMMA IsRingNext == IInv' => Ring(invoke_serv', invoke_next', my', Holders')
  <1>1. IsFiniteSet(Holders')
    BY InvokeLockAssumption, FS_Subset DEF Holders
  <1> QED
    BY <1>1 DEF IInv, Ring, TicketsConsecutive, LockTypeOK, Holders

LEMMA LineNow ==
    ASSUME IInv
    PROVE  /\ Line = LineOf(invoke_serv, invoke_next, my, Holders)
           /\ Line \in Seq(Holders)
           /\ Len(Line) = Distance(invoke_serv, invoke_next)
           /\ \A i \in 1 .. Len(Line) : Distance(invoke_serv, my[Line[i]]) = i - 1
  <1>1. Line = LineOf(invoke_serv, invoke_next, my, Holders)
    BY DEF Line, LineOf
  <1> QED
    BY <1>1, IsRing, LineFacts

(* A sequence of the next holders in the order of their tickets is the next *)
(* line.                                                                    *)
LEMMA LineNext ==
    ASSUME IInv', NEW p \in Seq(Holders'),
           Len(p) = Distance(invoke_serv', invoke_next'),
           \A i \in 1 .. Len(p) : Distance(invoke_serv', my'[p[i]]) = i - 1
    PROVE  Line' = p
  <1>1. Line' = LineOf(invoke_serv', invoke_next', my', Holders')
    BY DEF Line, LineOf
  <1>2. p = LineOf(invoke_serv', invoke_next', my', Holders')
    BY IsRingNext, LineUnique
  <1> QED
    BY <1>1, <1>2

(* The thread inside is the owner, now and in the next state.               *)
LEMMA InsideNow ==
    ASSUME IInv
    PROVE  /\ \A t \in Threads : place[t] = "in" => Inside = t
           /\ (\A t \in Threads : place[t] # "in") => Inside = NoThread
  BY DEF IInv, Inside, InsideIsServed, TicketsConsecutive, Holders

LEMMA InsideNext ==
    ASSUME IInv'
    PROVE  /\ \A t \in Threads : place'[t] = "in" => Inside' = t
           /\ (\A t \in Threads : place'[t] # "in") => Inside' = NoThread
  BY DEF IInv, Inside, InsideIsServed, TicketsConsecutive, Holders

(* A step after which the same thread is inside leaves the owner alone.     *)
LEMMA InsideSame ==
    ASSUME IInv, IInv', \A t \in Threads : place'[t] = "in" <=> place[t] = "in"
    PROVE  Inside' = Inside
  BY InsideNow, InsideNext

(* Initially nobody is in line. *)
LEMMA InitRefines == LockInit => Fifo!Init
  <1> SUFFICES ASSUME LockInit PROVE Fifo!Init
    OBVIOUS
  <1>1. IInv /\ Distance(invoke_serv, invoke_next) = 0
    BY InitInv DEF LockInit, Distance
  <1>2. Line = <<>>
    BY <1>1, LineNow
  <1>3. Inside = NoThread
    BY DEF LockInit, Inside
  <1> QED
    BY <1>2, <1>3 DEF Fifo!Init

(* Who finds others in line stands at the back; who finds nobody goes in.   *)
LEMMA TakeTicketRefines ==
    ASSUME IInv, IInv', NEW t \in Threads, TakeTicket(t)
    PROVE  Fifo!Request(t) \/ Fifo!Barge(t)
  <1> DEFINE D == Distance(invoke_serv, invoke_next)
  <1>1. t \notin Holders /\ Holders' = Holders \union {t}
    BY DEF TakeTicket, Holders, IInv, LockTypeOK
  <1>2. /\ Line \in Seq(Holders) /\ Len(Line) = D
        /\ D \in Nat
        /\ invoke_serv \in Tickets /\ invoke_next \in Tickets
    <2>1. invoke_serv \in Tickets /\ invoke_next \in Tickets
      BY DEF IInv, LockTypeOK
    <2>2. D \in Nat
      BY <2>1, DistanceRange DEF Tickets
    <2> QED
      BY <2>1, <2>2, LineNow
  <1>3. Distance(invoke_serv', invoke_next') = D + 1
    <2>1. Cardinality(Holders') = Cardinality(Holders) + 1
      BY <1>1, HoldersFinite, FS_AddElement
    <2> QED
      BY <2>1 DEF IInv, TicketsConsecutive
  <1>4. /\ my'[t] = invoke_next
        /\ \A u \in Holders : my'[u] = my[u]
        /\ invoke_serv' = invoke_serv
    BY <1>1 DEF TakeTicket, IInv, LockTypeOK, Holders
  <1>5. Line' = Append(Line, t)
    <2> DEFINE p == Append(Line, t)
    <2>1. /\ p \in Seq(Holders')
          /\ Len(p) = D + 1
          /\ \A i \in 1 .. D : p[i] = Line[i]
          /\ p[D + 1] = t
      <3>1. Line \in Seq(Holders')
        BY <1>1, <1>2, SeqMonotonic
      <3> QED
        BY <1>1, <1>2, <3>1, AppendProperties
    <2>2. ASSUME NEW i \in 1 .. Len(p)
          PROVE  Distance(invoke_serv', my'[p[i]]) = i - 1
      <3>1. CASE i = D + 1
        BY <1>2, <1>4, <2>1, <3>1
      <3>2. CASE i \in 1 .. D
        <4>1. p[i] = Line[i] /\ Line[i] \in Holders
          BY <1>2, <2>1, <3>2, ElementOfSeq
        <4>2. Distance(invoke_serv, my[Line[i]]) = i - 1
          BY <1>2, <3>2, LineNow
        <4> QED
          BY <1>4, <4>1, <4>2
      <3> QED
        BY <1>2, <2>1, <3>1, <3>2
    <2> QED
      BY <1>3, <2>1, <2>2, LineNext
  <1>6. CASE D = 0
    <2>1. invoke_next = invoke_serv
      BY <1>2, <1>6, DistanceInjective
    <2>2. place'[t] = "in"
      BY <2>1 DEF TakeTicket, MyTurn, IInv, LockTypeOK
    <2>3. Line = <<>> /\ Line' = <<t>>
      BY <1>2, <1>5, <1>6
    <2> QED
      BY <2>2, <2>3, InsideNext DEF Fifo!Barge
  <1>7. CASE D # 0
    <2>1. invoke_next # invoke_serv
      BY <1>2, <1>7, DistanceInjective
    <2>2. Inside' = Inside
      <3>1. \A u \in Threads : place'[u] = "in" <=> place[u] = "in"
        BY <2>1 DEF TakeTicket, MyTurn, IInv, LockTypeOK
      <3> QED
        BY <3>1, InsideSame
    <2>3. Line # <<>>
      BY <1>2, <1>7, EmptySeq
    <2>4. ~ Fifo!Queued(t)
      BY <1>1, <1>2, ElementOfSeq, LenProperties DEF Fifo!Queued
    <2> QED
      BY <1>5, <2>2, <2>3, <2>4 DEF Fifo!Request
  <1> QED
    BY <1>6, <1>7

(* Testing again lets in the head of the line, or changes nothing.          *)
LEMMA WakeRefines ==
    ASSUME IInv, IInv', NEW t \in Threads, WakesUnasked(t) \/ Recheck(t)
    PROVE  Fifo!Enter(t) \/ UNCHANGED <<Line, Inside>>
  <1>1. Line' = Line
    <2>1. Holders' = Holders
      BY DEF WakesUnasked, Recheck, Holders, IInv, LockTypeOK
    <2>2. UNCHANGED <<invoke_next, invoke_serv, my>>
      BY DEF WakesUnasked, Recheck
    <2> QED
      BY <2>1, <2>2 DEF Line
  <1>2. CASE WakesUnasked(t) \/ (Recheck(t) /\ ~ MyTurn(my[t]))
    <2>1. \A u \in Threads : place'[u] = "in" <=> place[u] = "in"
      BY <1>2 DEF WakesUnasked, Recheck, IInv, LockTypeOK
    <2> QED
      BY <1>1, <2>1, InsideSame
  <1>3. CASE Recheck(t) /\ MyTurn(my[t])
    <2>1. t \in Holders /\ my[t] = invoke_serv /\ place[t] = "woken" /\ place'[t] = "in"
      BY <1>3 DEF Recheck, MyTurn, Holders, IInv, LockTypeOK
    <2>2. \A u \in Threads : place[u] # "in"
      BY <2>1 DEF IInv, InsideIsServed, TicketsConsecutive, Holders
    <2>3. Inside = NoThread /\ Inside' = t
      BY <2>1, <2>2, InsideNow, InsideNext
    <2>4. Line # <<>> /\ Head(Line) = t
      <3>1. /\ Line \in Seq(Holders) /\ Len(Line) = Distance(invoke_serv, invoke_next)
            /\ \A i \in 1 .. Len(Line) : Distance(invoke_serv, my[Line[i]]) = i - 1
        BY LineNow
      <3>2. Distance(invoke_serv, invoke_next) \in Nat
        BY DistanceRange DEF IInv, LockTypeOK, Tickets
      <3>3. Distance(invoke_serv, my[t]) = 0
        BY <2>1, DistanceInjective DEF IInv, LockTypeOK
      <3>4. 1 \in 1 .. Len(Line)
        BY <2>1, <3>1, <3>2, <3>3 DEF IInv, TicketsConsecutive
      <3>5. Line[1] \in Holders
        BY <3>1, <3>4, ElementOfSeq
      <3>6. Distance(invoke_serv, my[Line[1]]) = 0
        BY <3>1, <3>4
      <3>7. my[Line[1]] = invoke_serv
        BY <3>5, <3>6, DistanceInjective DEF IInv, LockTypeOK, Holders
      <3>8. Line[1] = t
        BY <2>1, <3>5, <3>7 DEF IInv, TicketsConsecutive
      <3> QED
        BY <3>1, <3>4, <3>8
    <2> QED
      BY <1>1, <2>3, <2>4 DEF Fifo!Enter
  <1> QED
    BY <1>2, <1>3

(* The release takes the head off the line and leaves nobody inside.        *)
LEMMA ReleaseRefines ==
    ASSUME IInv, IInv', NEW t \in Threads, Release(t)
    PROVE  Fifo!Release(t)
  <1> DEFINE D == Distance(invoke_serv, invoke_next)
  <1>1. /\ t \in Holders
        /\ Holders' = Holders \ {t}
        /\ my' = my
        /\ my[t] = invoke_serv
        /\ invoke_serv' = Succ(invoke_serv) /\ invoke_next' = invoke_next
    BY DEF Release, WakeAll, Holders, IInv, LockTypeOK, InsideIsServed
  <1>2. /\ Line \in Seq(Holders) /\ Len(Line) = D
        /\ \A i \in 1 .. D : Distance(invoke_serv, my[Line[i]]) = i - 1
    BY LineNow
  <1>3. /\ invoke_serv \in Tickets /\ invoke_next \in Tickets
        /\ \A u \in Holders : my[u] \in Tickets
    BY DEF IInv, LockTypeOK, Holders
  <1>4. D \in Nat /\ Distance(invoke_serv, my[t]) = 0
    <2>1. D \in Nat
      BY <1>3, DistanceRange DEF Tickets
    <2>2. Distance(invoke_serv, my[t]) = 0
      BY <1>1, <1>3, DistanceInjective
    <2> QED
      BY <2>1, <2>2
  <1>5. D > 0
    BY <1>1, <1>4 DEF IInv, TicketsConsecutive
  <1>6. Distance(invoke_serv', invoke_next') = D - 1
    <2>1. invoke_serv # invoke_next
      BY <1>3, <1>5, <1>4, DistanceInjective
    <2> QED
      BY <1>1, <1>3, <2>1, DistanceShrinks
  <1>7. Line # <<>>
    BY <1>2, <1>4, <1>5, EmptySeq
  <1>8. /\ Tail(Line) \in Seq(Holders) /\ Len(Tail(Line)) = D - 1
        /\ \A i \in 1 .. D - 1 : Tail(Line)[i] = Line[i + 1]
    BY <1>2, <1>7, HeadTailProperties
  <1>9. ASSUME NEW i \in 1 .. D - 1
        PROVE  /\ Tail(Line)[i] \in Holders'
               /\ Distance(invoke_serv', my'[Tail(Line)[i]]) = i - 1
    <2> DEFINE u == Line[i + 1]
    <2>1. i + 1 \in 1 .. D /\ (i + 1) - 1 = i /\ i # 0 /\ i \in Nat
      BY <1>4
    <2>2. u \in Holders /\ Distance(invoke_serv, my[u]) = i
      BY <1>2, <2>1, ElementOfSeq
    <2>3. u # t /\ my[u] # invoke_serv
      BY <1>1, <1>4, <2>1, <2>2
    <2>4. Distance(invoke_serv', my[u]) = i - 1
      BY <1>1, <1>3, <2>2, <2>3, DistanceShrinks
    <2> QED
      BY <1>1, <1>8, <2>2, <2>3, <2>4
  <1>10. Tail(Line) \in Seq(Holders')
    <2>1. Tail(Line) \in [1 .. D - 1 -> Holders']
      BY <1>8, <1>9, LenProperties
    <2>2. D - 1 \in Nat
      BY <1>4, <1>5
    <2>3. \A H : \A k \in Nat : \A q \in [1 .. k -> H] : q \in Seq(H)
      OBVIOUS
    <2> QED
      BY <2>1, <2>2, <2>3
  <1>11. Line' = Tail(Line)
    BY <1>6, <1>8, <1>9, <1>10, LineNext
  <1>12. Inside = t /\ Inside' = NoThread
    <2>1. place[t] = "in" /\ place'[t] = "out"
      BY DEF Release, WakeAll, IInv, LockTypeOK
    <2>2. \A u \in Threads : place'[u] # "in"
      <3> SUFFICES ASSUME NEW u \in Threads, place'[u] = "in" PROVE FALSE
        OBVIOUS
      <3>1. place[u] = "in" /\ u # t
        BY <2>1 DEF Release, WakeAll, IInv, LockTypeOK
      <3> QED
        BY <2>1, <3>1 DEF IInv, InsideIsServed, TicketsConsecutive, Holders
    <2> QED
      BY <2>1, <2>2, InsideNow, InsideNext
  <1> QED
    BY <1>11, <1>12 DEF Fifo!Release

(* The safety half of ImplementsFifo: every step of the ticket lock is a    *)
(* step of the FIFO lock or changes nothing of it, so threads enter in the  *)
(* order in which they called invoke_lock_acquire.  That they enter at all  *)
(* is left to the runs.                                                     *)
THEOREM LockRefinesFifo == LockSpec => Fifo!Init /\ [][Fifo!Next]_Fifo!vars
  <1>1. LockInit => Fifo!Init
    BY InitRefines
  <1>2. IInv /\ IInv' /\ [LockNext]_lockVars => [Fifo!Next]_Fifo!vars
    <2> SUFFICES ASSUME IInv, IInv', [LockNext]_lockVars
                 PROVE  Fifo!Next \/ UNCHANGED <<Line, Inside>>
      BY DEF Fifo!vars
    <2>1. ASSUME NEW t \in Threads, TakeTicket(t) PROVE Fifo!Next
      BY <2>1, TakeTicketRefines DEF Fifo!Next
    <2>2. ASSUME NEW t \in Threads, WakesUnasked(t) \/ Recheck(t)
          PROVE  Fifo!Next \/ UNCHANGED <<Line, Inside>>
      BY <2>2, WakeRefines DEF Fifo!Next
    <2>3. ASSUME NEW t \in Threads, Release(t) PROVE Fifo!Next
      BY <2>3, ReleaseRefines DEF Fifo!Next
    <2>4. CASE UNCHANGED lockVars
      BY <2>4 DEF lockVars, Line, Inside, Holders
    <2> QED
      BY <2>1, <2>2, <2>3, <2>4 DEF LockNext
  <1> QED
    BY <1>1, <1>2, LockInvariant, PTL DEF LockSpec
=============================================================================
