----------------------------- MODULE AsyncTasks -----------------------------
(***************************************************************************)
(* The cooperative task pool behind spawn, lang_call_async, await and      *)
(* await_all (src/src/te_async.c) over the child processes of the bridge   *)
(* (src/src/te_bridge.c).  The pool is one for the process, each task      *)
(* belongs to the request thread that created it, and whoever awaits       *)
(* drives its own tasks on its own C stack: a lambda that awaits starts a  *)
(* second loop on top of the first.                                        *)
(*                                                                         *)
(* Children answer their requests in order, one line each, while anything  *)
(* else goes on.  A line is known by the call whose request it answers; a  *)
(* call by what was left of its request's budget when it was made.         *)
(***************************************************************************)
EXTENDS Integers, FiniteSets, SequencesExt

CONSTANTS Owners,     \* request threads
          NoOwner,
          TaskMax,    \* TE_TASK_MAX: slots of the task pool
          Slots,      \* TE_PROC_MAX children
          Overlap,    \* TYPEEASY_ASYNC_OVERLAP
          OneCall,    \* scripts keep to one request at a time per child
          NoCross,    \* no code awaits a task that runs or is awaited already
          MaxOps      \* bound: tasks and children a request may start

ASSUME AsyncTasksAssumption ==
    /\ IsFiniteSet(Owners) /\ NoOwner \notin Owners
    /\ TaskMax \in Nat \ {0}
    /\ IsFiniteSet(Slots) /\ Slots \subseteq Nat
    /\ {Overlap, OneCall, NoCross} \subseteq BOOLEAN
    /\ MaxOps \in Nat

Ids == 0 .. TaskMax - 1
Script == -1      \* the code of a handler, outside every task
NoTask == -1      \* no lambda is running
NoSlot == -1      \* a task that is no call
Empty == 0        \* no line: the result "" of a call whose child is gone
Head0 == -1       \* a loop that is at its head, before a pass

VARIABLES
    holder,    \* the request that runs the interpreter, or NoOwner
    place,     \* each thread: idle, code (serving a request) or parked
    left,      \* what the request of each thread may still start
    loops,     \* run_until calls on the stack of each thread, see Loop
    state,     \* TeTask.state, with FREE for in_use = 0
    ownerOf,   \* TeTask.owner
    slot,      \* TeTask.slot
    call,      \* history: the call that made the task, Empty for a spawn
    result,    \* TeTask.result of a call: which call's line it took
    child,     \* each child: none, open or dead (its stdout is at EOF)
    user,      \* the request that has the child's handle
    asked,     \* requests written to the child, oldest first
    lines      \* answers of the child not read yet

taskVars == <<holder, place, left, loops, state, ownerOf, slot, call, result,
          child, user, asked, lines>>
pool == <<state, ownerOf, slot, call, result>>
procs == <<child, user, asked, lines>>

(* One te_async_run_until: what it awaits, its scan, the lambda it runs. *)
Loop == [targets : SUBSET Ids, at : Head0 .. TaskMax, progressed : BOOLEAN,
         running : Ids \union {NoTask}]

TaskInit ==
    /\ holder = NoOwner
    /\ place = [o \in Owners |-> "idle"]
    /\ left = [o \in Owners |-> 0]
    /\ loops = [o \in Owners |-> <<>>]
    /\ state = [i \in Ids |-> "FREE"]
    /\ ownerOf = [i \in Ids |-> NoOwner]
    /\ slot = [i \in Ids |-> NoSlot]
    /\ call = [i \in Ids |-> Empty]
    /\ result = [i \in Ids |-> Empty]
    /\ child = [s \in Slots |-> "none"]
    /\ user = [s \in Slots |-> NoOwner]
    /\ asked = [s \in Slots |-> <<>>]
    /\ lines = [s \in Slots |-> <<>>]

Owned(o) == {i \in Ids : state[i] # "FREE" /\ ownerOf[i] = o}
Waiting(s) == {i \in Ids : state[i] = "IO_WAIT" /\ slot[i] = s}

(* Code of request o runs: its handler, or the lambda of its innermost loop. *)
Runs(o) == /\ holder = o
           /\ loops[o] # <<>> => Last(loops[o]).running # NoTask

(* ... and may start one thing more. *)
Starts(o) == /\ Runs(o) /\ left[o] > 0
             /\ left' = [left EXCEPT ![o] = @ - 1]

(* Whose code it is. *)
Code(o) == IF loops[o] = <<>> THEN Script ELSE Last(loops[o]).running

SetLoop(o, l) == loops' = [loops EXCEPT ![o] = Append(Front(@), l)]

-----------------------------------------------------------------------------
(* Requests take the interpreter and give it back.  A handler awaits what it *)
(* started and closes its children before it returns: what it leaves behind  *)
(* nobody frees, and the next request of the thread goes on driving it.      *)
Begin(o) ==
    /\ place[o] = "idle" /\ holder = NoOwner
    /\ holder' = o
    /\ place' = [place EXCEPT ![o] = "code"]
    /\ left' = [left EXCEPT ![o] = MaxOps]
    /\ UNCHANGED <<loops, pool, procs>>

End(o) ==
    /\ holder = o /\ loops[o] = <<>>
    /\ Owned(o) = {} /\ \A s \in Slots : user[s] # o
    /\ holder' = NoOwner
    /\ place' = [place EXCEPT ![o] = "idle"]
    /\ UNCHANGED <<left, loops, pool, procs>>

-----------------------------------------------------------------------------
(* The builtins.  With the pool or the table full they return -1 and nothing *)
(* starts.                                                                   *)

(* te_task_find_free and te_proc_find_free: the lowest free slot. *)
IsFirst(i, free) == i \in free /\ \A j \in free : i <= j

FreeIds == {i \in Ids : state[i] = "FREE"}

NewTask(o, i, st, s) ==
    /\ IsFirst(i, FreeIds)
    /\ state' = [state EXCEPT ![i] = st]
    /\ ownerOf' = [ownerOf EXCEPT ![i] = o]
    /\ slot' = [slot EXCEPT ![i] = s]
    /\ call' = [call EXCEPT ![i] = IF s = NoSlot THEN Empty ELSE left[o]]
    /\ result' = [result EXCEPT ![i] = Empty]

(* adapt_spawn. *)
Spawn(o) ==
    /\ Starts(o)
    /\ \E i \in Ids : NewTask(o, i, "SPAWN_PENDING", NoSlot)
    /\ UNCHANGED <<holder, place, loops, procs>>

MayCall(o, s) == /\ user[s] = o
                 /\ OneCall => Waiting(s) = {}

(* adapt_lang_call_async; whether the write reached the child is ignored. *)
LangCallAsync(o) ==
    /\ Starts(o)
    /\ \E s \in Slots, i \in Ids :
           /\ MayCall(o, s)
           /\ NewTask(o, i, "IO_WAIT", s)
           /\ asked' = IF child[s] = "open" THEN [asked EXCEPT ![s] = Append(@, left[o])]
                       ELSE asked
    /\ UNCHANGED <<holder, place, loops, child, user, lines>>

(* adapt_lang_spawn. *)
LangSpawn(o) ==
    /\ Starts(o)
    /\ \E s \in Slots :
           /\ IsFirst(s, {r \in Slots : child[r] = "none"})
           /\ child' = [child EXCEPT ![s] = "open"]
           /\ user' = [user EXCEPT ![s] = o]
    /\ UNCHANGED <<holder, place, loops, pool, asked, lines>>

(* adapt_lang_close, when no call is outstanding on the child: the pipes are *)
(* closed, the process is reaped or killed, the slot is wiped.               *)
LangClose(o) ==
    /\ Runs(o)
    /\ \E s \in Slots :
           /\ user[s] = o /\ Waiting(s) = {}
           /\ child' = [child EXCEPT ![s] = "none"]
           /\ user' = [user EXCEPT ![s] = NoOwner]
           /\ asked' = [asked EXCEPT ![s] = <<>>]
           /\ lines' = [lines EXCEPT ![s] = <<>>]
    /\ UNCHANGED <<left, holder, place, loops, pool>>

(* The targets of the loops on the stack from depth d up. *)
AwaitedFrom(o, d) == UNION {loops[o][e].targets : e \in d .. Len(loops[o])}

(* await and await_all of tasks of the request.  Without NoCross a lambda    *)
(* may await a task that runs below it on the stack, but never in a circle:  *)
(* no lambda waits for one that does so.                                     *)
Await(o) ==
    /\ Runs(o)
    /\ \E T \in SUBSET (Owned(o) \ {Code(o)}) \ {{}} :
           LET running == {i \in T : state[i] = "RUNNING"} IN
           /\ NoCross => running = {} /\ T \intersect AwaitedFrom(o, 1) = {}
           /\ running # {} => Code(o) \notin AwaitedFrom(o, 2)
           /\ loops' = [loops EXCEPT ![o] =
                  Append(@, [targets |-> T, at |-> Head0, progressed |-> FALSE,
                             running |-> NoTask])]
    /\ UNCHANGED <<left, holder, place, pool, procs>>

-----------------------------------------------------------------------------
(* te_async_run_until and te_async_step, for the innermost loop of o. *)
Loops(o) == holder = o /\ loops[o] # <<>> /\ Last(loops[o]).running = NoTask

(* A handle whose slot is free counts as done. *)
AllDone(l) == \A i \in l.targets : state[i] \in {"FREE", "DONE"}

(* The loop ends; te_task_take_result frees each task that was awaited. *)
AwaitReturns(o) ==
    /\ Loops(o)
    /\ LET l == Last(loops[o]) IN
           /\ l.at = Head0 /\ AllDone(l)
           /\ state' = [i \in Ids |-> IF i \in l.targets THEN "FREE" ELSE state[i]]
    /\ loops' = [loops EXCEPT ![o] = Front(@)]
    /\ UNCHANGED <<left, holder, place, ownerOf, slot, call, result, procs>>

StartPass(o) ==
    /\ Loops(o)
    /\ LET l == Last(loops[o]) IN
           /\ l.at = Head0 /\ ~ AllDone(l)
           /\ SetLoop(o, [l EXCEPT !.at = 0, !.progressed = FALSE])
    /\ UNCHANGED <<left, holder, place, pool, procs>>

(* The task the pass comes to next: te_async_step skips the others. *)
IsNext(o, i) ==
    LET l == Last(loops[o])
        due == {j \in Owned(o) : state[j] \in {"SPAWN_PENDING", "IO_WAIT"} /\ j >= l.at} IN
    /\ l.at # Head0
    /\ IsFirst(i, due)

(* Where the pass goes on after slot i. *)
After(i) == i + 1

(* A task not begun: its lambda is called in the middle of the pass. *)
RunLambda(o) ==
    /\ Loops(o)
    /\ \E i \in Ids :
           /\ IsNext(o, i) /\ state[i] = "SPAWN_PENDING"
           /\ state' = [state EXCEPT ![i] = "RUNNING"]
           /\ SetLoop(o, [Last(loops[o]) EXCEPT !.at = After(i), !.running = i])
    /\ UNCHANGED <<left, holder, place, ownerOf, slot, call, result, procs>>

(* The lambda returns. *)
LambdaReturns(o) ==
    /\ Runs(o) /\ loops[o] # <<>>
    /\ LET l == Last(loops[o]) IN
           /\ state' = [state EXCEPT ![l.running] = "DONE"]
           /\ SetLoop(o, [l EXCEPT !.running = NoTask, !.progressed = TRUE])
    /\ UNCHANGED <<left, holder, place, ownerOf, slot, call, result, procs>>

(* Faulty variant: the end of a child's output is taken for "not yet". *)
NothingMoreNever(s) == FALSE

(* te_bridge_poll_line finds the slot free or its output at the end. *)
NothingMore(s) == lines[s] = <<>> /\ child[s] # "open"

(* Faulty variant: a line that was delivered stays in the buffer. *)
LinesKept(s) == lines[s]

(* te_rbuf_take_line takes the line out of the buffer. *)
LinesAfter(s) == Tail(lines[s])

(* te_bridge_poll_line on a task that waits for a line. *)
Poll(o) ==
    /\ Loops(o)
    /\ \E i \in Ids :
           LET s == slot[i]
               l == [Last(loops[o]) EXCEPT !.at = After(i)] IN
           /\ IsNext(o, i) /\ state[i] = "IO_WAIT"
           /\ \/ /\ lines[s] # <<>>
                 /\ lines' = [lines EXCEPT ![s] = LinesAfter(s)]
                 /\ result' = [result EXCEPT ![i] = Head(lines[s])]
                 /\ state' = [state EXCEPT ![i] = "DONE"]
                 /\ SetLoop(o, [l EXCEPT !.progressed = TRUE])
              \/ /\ NothingMore(s)
                 /\ result' = [result EXCEPT ![i] = Empty]
                 /\ state' = [state EXCEPT ![i] = "DONE"]
                 /\ SetLoop(o, [l EXCEPT !.progressed = TRUE])
                 /\ UNCHANGED lines
              \/ /\ lines[s] = <<>> /\ ~ NothingMore(s)
                 /\ SetLoop(o, l)
                 /\ UNCHANGED <<lines, result, state>>
    /\ UNCHANGED <<left, holder, place, ownerOf, slot, call, child, user, asked>>

PassOver(o) == Loops(o) /\ Last(loops[o]).at # Head0 /\ ~ \E i \in Ids : IsNext(o, i)

(* To the head of the loop: at once if a task progressed, else after waiting *)
(* for a line, at most 50 ms, with the interpreter held.                     *)
PassEnds(o) ==
    /\ PassOver(o)
    /\ SetLoop(o, [Last(loops[o]) EXCEPT !.at = Head0])
    /\ UNCHANGED <<left, holder, place, pool, procs>>

(* The same wait where te_coop_yield_begin gives the interpreter away. *)
WaitParked(o) ==
    /\ Overlap
    /\ PassOver(o) /\ ~ Last(loops[o]).progressed
    /\ SetLoop(o, [Last(loops[o]) EXCEPT !.at = Head0])
    /\ holder' = NoOwner
    /\ place' = [place EXCEPT ![o] = "parked"]
    /\ UNCHANGED <<left, pool, procs>>

Rejoin(o) ==
    /\ place[o] = "parked" /\ holder = NoOwner
    /\ holder' = o
    /\ place' = [place EXCEPT ![o] = "code"]
    /\ UNCHANGED <<left, loops, pool, procs>>

-----------------------------------------------------------------------------
(* The children. *)
Answer(s) ==
    /\ child[s] = "open" /\ asked[s] # <<>>
    /\ lines' = [lines EXCEPT ![s] = Append(@, Head(asked[s]))]
    /\ asked' = [asked EXCEPT ![s] = Tail(@)]
    /\ UNCHANGED <<left, holder, place, loops, pool, child, user>>

(* It exits or crashes; what it has written can still be read. *)
Die(s) ==
    /\ child[s] = "open"
    /\ child' = [child EXCEPT ![s] = "dead"]
    /\ asked' = [asked EXCEPT ![s] = <<>>]
    /\ UNCHANGED <<left, holder, place, loops, pool, user, lines>>
-----------------------------------------------------------------------------
OwnerStep(o) ==
    \/ End(o) \/ Spawn(o) \/ LangCallAsync(o) \/ LangSpawn(o) \/ LangClose(o)
    \/ Await(o) \/ AwaitReturns(o) \/ StartPass(o) \/ RunLambda(o) \/ LambdaReturns(o)
    \/ Poll(o) \/ PassEnds(o) \/ WaitParked(o)

TaskNext ==
    \/ \E o \in Owners : Begin(o) \/ OwnerStep(o) \/ Rejoin(o)
    \/ \E s \in Slots : Answer(s) \/ Die(s)

(* The thread that holds the interpreter goes on, the invoke lock is fair    *)
(* (InvokeLock!NoStarvation), and a child answers what it is asked or dies.  *)
TaskFairness ==
    /\ \A o \in Owners : WF_taskVars(OwnerStep(o)) /\ SF_taskVars(Rejoin(o))
    /\ \A s \in Slots : WF_taskVars(asked[s] # <<>> /\ (Answer(s) \/ Die(s)))

TaskSpec == TaskInit /\ [][TaskNext]_taskVars /\ TaskFairness

-----------------------------------------------------------------------------
(* A call gets the answer to its own request, or "" once the child is gone,  *)
(* however often task slots and children were used before                    *)
(* ([ASY-2], src/docs/SPEC.md:478-479).  It holds for scripts that send a    *)
(* child one request at a time: lines go to the lowest task slot that asks.  *)
ReplyIsItsOwn ==
    [][\A i \in Ids : state[i] = "IO_WAIT" /\ state'[i] = "DONE" =>
           \/ result'[i] = call[i]
           \/ result'[i] = Empty /\ child[slot[i]] # "open"]_taskVars

(* Every await returns, also one made inside the lambda of another task      *)
(* ("the lambda may itself await other tasks", src/src/te_async.c:108;       *)
(* [ASY-1], src/docs/SPEC.md:474-475).                                       *)
AwaitCompletes == \A o \in Owners : loops[o] # <<>> ~> loops[o] = <<>>
=============================================================================
