------------------------------ MODULE FifoLock ------------------------------
(***************************************************************************)
(* What the global invoke lock of the embedded API server promises to the  *)
(* threads that run .te code: they queue in the order of their calls, and  *)
(* only the head of the queue may run the interpreter.  The comment above  *)
(* invoke_lock_acquire (src/src/typeeasy_api_server.c:134-148) calls it a  *)
(* "fair FIFO ticket lock".  InvokeLock implements this module; ApiServer  *)
(* is built on it.                                                         *)
(***************************************************************************)
EXTENDS Sequences

CONSTANTS Threads, NoThread

VARIABLES queue,   \* the threads that called acquire and have not released
          owner    \* the thread inside, or NoThread

vars == <<queue, owner>>

Queued(t) == \E i \in DOMAIN queue : queue[i] = t

Init == queue = <<>> /\ owner = NoThread

(* A call that finds others in line stands at the back. *)
Request(t) ==
    /\ ~ Queued(t)
    /\ queue # <<>>
    /\ queue' = Append(queue, t)
    /\ UNCHANGED owner

(* A call that finds nobody in line goes straight in. *)
Barge(t) ==
    /\ queue = <<>>
    /\ queue' = <<t>>
    /\ owner' = t

(* The head of the line finds out that its turn has come. *)
Enter(t) ==
    /\ owner = NoThread
    /\ queue # <<>>
    /\ Head(queue) = t
    /\ owner' = t
    /\ UNCHANGED queue

Release(t) ==
    /\ owner = t
    /\ queue' = Tail(queue)
    /\ owner' = NoThread

Next == \E t \in Threads : Request(t) \/ Barge(t) \/ Enter(t) \/ Release(t)

(* Whoever is inside leaves, and the head of the line is let in. *)
Fairness == \A t \in Threads : WF_vars(Enter(t)) /\ WF_vars(Release(t))

Spec == Init /\ [][Next]_vars /\ Fairness
=============================================================================
