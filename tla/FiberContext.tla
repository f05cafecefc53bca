---------------------------- MODULE FiberContext ----------------------------
(***************************************************************************)
(* The parts of the interpreter that a fiber uses and CtxSnapshot          *)
(* (src/src/te_evloop.c:77-85) leaves out, added to EventLoop: the chain   *)
(* of call frames g_vm.frame_top, an await made inside a fiber, and a      *)
(* fatal runtime error inside a fiber of the API server.                   *)
(***************************************************************************)
EXTENDS EventLoop

VARIABLES frame_top,   \* whose TeFrame g_vm.frame_top points to
          prev,        \* TeFrame.prev of the frame call_lambda pushed
          started,     \* Fiber.started
          awaiting     \* fibers inside an evloop_run_until of their own

fvars == <<vars, frame_top, prev, started, awaiting>>
extra == <<frame_top, prev, started, awaiting>>

FInit ==
    /\ Init
    /\ frame_top = Script
    /\ prev = [f \in Fibers |-> Script]
    /\ started = {}
    /\ awaiting = {}

(* A first turn enters call_lambda_impl, which pushes its TeFrame. *)
FResume ==
    /\ Resume
    /\ IF current' \in started
       THEN UNCHANGED <<frame_top, prev, started>>
       ELSE /\ prev' = [prev EXCEPT ![current'] = frame_top]
            /\ frame_top' = current'
            /\ started' = started \union {current'}
    /\ UNCHANGED awaiting

(* The lambda returns through te_frame_pop. *)
FFinish ==
    /\ Finish
    /\ frame_top' = prev[current]
    /\ UNCHANGED <<prev, started, awaiting>>

(* fiber_take_result frees the stack that holds the frame. *)
FReturn ==
    /\ awaiting = {}
    /\ Return
    /\ started' = started \ targets
    /\ UNCHANGED <<frame_top, prev, awaiting>>

(* await inside a fiber, of a task that is not done: a second               *)
(* evloop_run_until runs on the fiber's own stack.  The fiber stays READY.  *)
(* The behaviour after such a fiber has been resumed is undefined in C and  *)
(* not modelled.                                                            *)
NestedAwait ==
    /\ pc = "fiber"
    /\ awaiting = {}
    /\ \E f \in Fibers \ {current} :
           /\ state[f] \notin {"FREE", "DONE"}
           /\ targets' = {f}
    /\ awaiting' = {current}
    /\ pc' = "top"
    /\ UNCHANGED <<state, ctx, wake_in, ops, live, caller, current, at, ran, own, io,
                   frame_top, prev, started>>

(* te_runtime_fatal in a fiber, under the API server: longjmp to            *)
(* request_handler, te_rh_respond_fatal and runtime_reset_vars_to_initial_  *)
(* state; the next thing to run is the handler of the next request.         *)
Fatal ==
    /\ pc = "fiber"
    /\ pc' = "script"
    /\ \E v \in Values :
           /\ live' = v
           /\ own' = [own EXCEPT ![Script] = v]
    /\ caller' = NoScope
    /\ targets' = {}
    /\ frame_top' = Script
    /\ awaiting' = {}
    /\ UNCHANGED <<state, ctx, wake_in, ops, current, at, ran, io, prev, started>>

(* The steps that neither push nor pop a frame. *)
Framed ==
    \/ ScriptGo \/ Await \/ FiberGo \/ SleepAsync \/ ReadFileAsync
    \/ Top \/ ScanAgain \/ CollectNow \/ StartWait \/ WaitOver
    \/ StartSleep \/ SleepOver \/ SpuriousWakeup \/ SleepInterrupted \/ Tick
    \/ \E w \in Workers : WorkerStep(w) \/ WorkerSpuriousWakeup(w)

FNext ==
    \/ FResume \/ FFinish \/ FReturn \/ NestedAwait \/ Fatal
    \/ Framed /\ UNCHANGED extra

FSpec == FInit /\ [][FNext]_fvars

-----------------------------------------------------------------------------
(* What the loop promises its callers beyond their scope: "The caller's      *)
(* interpreter context is saved on entry and restored on exit so that        *)
(* resuming fibers [...] cannot corrupt it" (src/src/te_evloop.c:576-578).   *)
(* The script runs with the frame it had, not with one in the stack of a     *)
(* fiber; outside the loop no fiber is running ("fiber currently running,    *)
(* NULL = scheduler", src/src/te_evloop.c:214), a fatal error included; and  *)
(* a fiber is resumed where it parked ("resuming is switching back to it",   *)
(* src/src/te_evloop.c:10-11), so never while it runs a loop of its own.     *)
ContextKept ==
    [][/\ pc' = "script" => frame_top' = Script /\ current' = Script
       /\ pc = "scan" /\ pc' = "fiber" => current' \notin awaiting]_fvars
=============================================================================
