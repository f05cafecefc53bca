----------------------------- MODULE MCThreads ------------------------------
(* The fibers with their I/O workers, or the debugger beside the requests,  *)
(* one of the two to a behaviour.                                           *)
EXTENDS EventLoop, MCDebugger

(* Two fibers, two I/O workers, two operations a task: a full pool, tasks   *)
(* that start tasks, sleep and read in every order, jobs that queue up      *)
(* while both workers are busy or asleep, and slots that are used again.    *)
CONSTANTS w1, w2

MCWorkers == {w1, w2}

VARIABLE front

allVars == <<vars, debugVars, front>>

Scheduler(A) == front = "fibers" /\ A /\ UNCHANGED <<front, debugVars>>
Debugged(A) == front = "debugger" /\ A /\ UNCHANGED <<front, vars>>

InitT == /\ front \in {"fibers", "debugger"}
         /\ Init /\ DebugInit
         /\ front = "debugger" => live = 0
NextT == Scheduler(Next) \/ Debugged(DebugNext)

(* The threads of either go on: the fairness of EventLoop and of Debugger.  *)
SpecT == /\ InitT /\ [][NextT]_allVars
         /\ WF_allVars(Scheduler(FiberStep \/ LoopStep)) /\ WF_allVars(Scheduler(Tick))
         /\ \A w \in Workers : WF_allVars(Scheduler(WorkerStep(w)))
         /\ WF_allVars(Debugged(Acceptor)) /\ WF_allVars(Debugged(WaitForResume))
         /\ WF_allVars(Debugged(RequestBegins))
         /\ SF_allVars(Debugged(\E line \in Lines : Statement(line)))
=============================================================================
