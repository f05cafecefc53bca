----------------------------- MODULE InvokeLock -----------------------------
(***************************************************************************)
(* The global invoke lock of the embedded API server on POSIX              *)
(* (src/src/typeeasy_api_server.c:133-165): a ticket lock built from a     *)
(* mutex, a condition variable and two counters.  Every thread that runs   *)
(* .te code calls it: HTTP workers (request_handler), WebSocket callbacks  *)
(* (te_interp_lock_enter) and async handlers that yield at an await        *)
(* (te_coop_yield_begin / te_coop_yield_end).                              *)
(*                                                                         *)
(* Each critical section of invoke_mtx is one action: the sections touch   *)
(* only the counters and never block except in pthread_cond_wait, which    *)
(* ends one section and starts another.                                    *)
(***************************************************************************)
EXTENDS Naturals, FiniteSets

CONSTANTS Threads,    \* the threads that may run .te code
          NoThread,
          TicketMod   \* the counters are unsigned longs and wrap at this value

ASSUME InvokeLockAssumption ==
    /\ IsFiniteSet(Threads)
    /\ NoThread \notin Threads
    /\ TicketMod \in Nat
    /\ Cardinality(Threads) < TicketMod

Tickets == 0 .. TicketMod - 1

VARIABLES invoke_next,   \* next ticket to hand out
          invoke_serv,   \* ticket being served
          my,            \* each thread's ticket (its local variable `my`)
          place          \* where each thread stands, see LockTypeOK

lockVars == <<invoke_next, invoke_serv, my, place>>

LockTypeOK ==
    /\ invoke_next \in Tickets
    /\ invoke_serv \in Tickets
    /\ my \in [Threads -> Tickets]
    \* out: not in the lock, in: runs .te code with g_te_lock_held = 1,
    \* waiting: inside pthread_cond_wait, woken: back from it, wants invoke_mtx
    /\ place \in [Threads -> {"out", "waiting", "woken", "in"}]

-----------------------------------------------------------------------------
(* Faulty variant: a counter that wraps one early. *)
SuccNarrow(n) == IF n + 2 >= TicketMod THEN 0 ELSE n + 1

(* n++ on an unsigned counter. *)
Succ(n) == IF n + 1 = TicketMod THEN 0 ELSE n + 1

LockInit ==
    /\ invoke_next = 0
    /\ invoke_serv = 0
    /\ my = [t \in Threads |-> 0]
    /\ place = [t \in Threads |-> "out"]

(* Faulty variant: an unfair mutex, open to whoever finds it free. *)
MyTurnUnfair(ticket) == \A u \in Threads : place[u] # "in"

(* The test of the while loop, made with invoke_mtx held: leave the loop or *)
(* (re)enter pthread_cond_wait.                                             *)
MyTurn(ticket) == ticket = invoke_serv

(* invoke_lock_acquire up to its first wait. *)
TakeTicket(t) ==
    /\ place[t] = "out"
    /\ my' = [my EXCEPT ![t] = invoke_next]
    /\ invoke_next' = Succ(invoke_next)
    /\ place' = [place EXCEPT ![t] = IF MyTurn(invoke_next) THEN "in" ELSE "waiting"]
    /\ UNCHANGED invoke_serv

(* pthread_cond_wait may return without a broadcast. *)
WakesUnasked(t) ==
    /\ place[t] = "waiting"
    /\ place' = [place EXCEPT ![t] = "woken"]
    /\ UNCHANGED <<invoke_next, invoke_serv, my>>

(* Faulty variant: `if` in place of `while`, the ticket is not tested again. *)
RecheckOnce(t) ==
    /\ place[t] = "woken"
    /\ place' = [place EXCEPT ![t] = "in"]
    /\ UNCHANGED <<invoke_next, invoke_serv, my>>

(* invoke_lock_acquire after a wakeup: one more turn of the while loop. *)
Recheck(t) ==
    /\ place[t] = "woken"
    /\ place' = [place EXCEPT ![t] = IF MyTurn(my[t]) THEN "in" ELSE "waiting"]
    /\ UNCHANGED <<invoke_next, invoke_serv, my>>

(* Faulty variant: the release forgets its waiters. *)
WakeNone(p) == p

(* pthread_cond_broadcast(&invoke_cv). *)
WakeAll(p) == [t \in Threads |-> IF p[t] = "waiting" THEN "woken" ELSE p[t]]

(* Faulty variant: pthread_cond_signal, which wakes one waiter, not the next. *)
ReleaseSignal(t) ==
    /\ place[t] = "in"
    /\ invoke_serv' = Succ(invoke_serv)
    /\ LET asleep == {u \in Threads : place[u] = "waiting"} IN
       IF asleep = {}
       THEN place' = [place EXCEPT ![t] = "out"]
       ELSE \E u \in asleep : place' = [place EXCEPT ![t] = "out", ![u] = "woken"]
    /\ UNCHANGED <<invoke_next, my>>

(* invoke_lock_release. *)
Release(t) ==
    /\ place[t] = "in"
    /\ invoke_serv' = Succ(invoke_serv)
    /\ place' = WakeAll([place EXCEPT ![t] = "out"])
    /\ UNCHANGED <<invoke_next, my>>

LockNext == \E t \in Threads :
            TakeTicket(t) \/ WakesUnasked(t) \/ Recheck(t) \/ Release(t)

(* A woken thread gets invoke_mtx in the end and handlers return: no more is *)
(* assumed.  Calling acquire and spurious wakeups are never owed.            *)
LockFairness == \A t \in Threads : WF_lockVars(Recheck(t)) /\ WF_lockVars(Release(t))

LockSpec == LockInit /\ [][LockNext]_lockVars /\ LockFairness

-----------------------------------------------------------------------------
(* Tickets handed out and not yet given back, oldest first. *)
Distance(a, b) == IF a <= b THEN b - a ELSE b + TicketMod - a

Holders == {t \in Threads : place[t] # "out"}

(* At most one thread runs the interpreter: the VM, its variables and the   *)
(* request context are process globals (src/src/ast.c:2661-2663).           *)
MutualExclusion == \A t, u \in Threads : place[t] = "in" /\ place[u] = "in" => t = u

(* The thread whose ticket is served is never asleep: the wakeup of         *)
(* invoke_lock_release is not lost however it interleaves with arrivals,    *)
(* so the lock never has waiters and no thread that could go in.            *)
ServedIsAwake ==
    \A t \in Threads : place[t] = "waiting" => my[t] # invoke_serv

(* No two threads hold the same ticket, even when the counters wrap, and    *)
(* the tickets out are exactly those from invoke_serv up to invoke_next.    *)
TicketsConsecutive ==
    /\ \A t, u \in Holders : my[t] = my[u] => t = u
    /\ \A t \in Holders :
           Distance(invoke_serv, my[t]) < Distance(invoke_serv, invoke_next)
    /\ Distance(invoke_serv, invoke_next) = Cardinality(Holders)

-----------------------------------------------------------------------------
(* The holders in ticket order are the abstract queue. *)
Line == [i \in 1 .. Distance(invoke_serv, invoke_next) |->
            CHOOSE t \in Holders : Distance(invoke_serv, my[t]) = i - 1]

Inside == IF \E t \in Threads : place[t] = "in"
          THEN CHOOSE t \in Threads : place[t] = "in"
          ELSE NoThread

Fifo == INSTANCE FifoLock WITH queue <- Line, owner <- Inside

(* The ticket lock is a FIFO lock: entries happen in the order of the calls *)
(* to invoke_lock_acquire, and every caller gets in (FifoLock's fairness).  *)
ImplementsFifo == Fifo!Spec

(* Nobody starves: every thread that took a ticket runs. *)
NoStarvation == \A t \in Threads : place[t] # "out" ~> place[t] = "in"
=============================================================================
