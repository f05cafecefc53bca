----------------------------- MODULE ApiServer ------------------------------
(***************************************************************************)
(* HTTP requests of the embedded API server over the one interpreter of    *)
(* the process: request_handler (src/src/typeeasy_api_server.c:813-1053),  *)
(* typeeasy_embedded_invoke_method (src/src/typeeasy_api.c:517-662), the   *)
(* recovery from a runtime fatal, and the cooperative yield of the invoke  *)
(* lock at an await (src/src/ast.c:2678-2899).                             *)
(*                                                                         *)
(* The VM is a process global.  What matters of each of its parts is WHOSE *)
(* data is there, so a part of the VM is a set of threads: {} is the clean *)
(* baseline, {t, u} a part where the data of two requests is mixed.  A     *)
(* thread of civetweb serves one request at a time and may serve any       *)
(* number of them.  The invoke lock is FifoLock, which InvokeLock          *)
(* implements.                                                             *)
(***************************************************************************)
EXTENDS Naturals, FiniteSets, Sequences

CONSTANTS Threads,    \* civetweb worker threads
          NoThread,
          Overlaps    \* values of TYPEEASY_ASYNC_OVERLAP, off unless it is set

ASSUME ApiServerAssumption ==
    /\ IsFiniteSet(Threads)
    /\ NoThread \notin Threads
    /\ Overlaps \subseteq BOOLEAN

VARIABLES
    overlap,        \* te_overlap_enabled, read once from the environment
    queue, owner,   \* the invoke lock, see FifoLock
    stage,          \* where each thread stands in request_handler; "late": it
                    \* is no longer counted, its response not yet written
    vm,             \* the per-request parts of g_vm: whose data each holds
    stash,          \* TeReqState of a request parked in an await
    active,         \* g_vm.te_request_active
    owned,          \* threads with entries in the request-owned registry
    objects,        \* what the request made: nothing, live or freed objects
    inflight,       \* S()->inflight
    reply,          \* whose data went into the thread's response
    printed         \* whose output went into it

lock == <<queue, owner, overlap>>
request == <<stash, active, owned, objects>>
answer == <<reply, printed>>
apiVars == <<lock, stage, vm, request, inflight, answer>>

Lock == INSTANCE FifoLock

Slices == {"http",       \* req_* and resp_*: the request and its response
           "vars",       \* variables above initial_var_count, frames, this,
                         \* return_flag, throw_flag, call_depth
           "ret",        \* __ret_var
           "claims",     \* current_claims, set by @auth
           "recovery",   \* runtime_recovery: a jmp_buf in a thread's frame
           "output",     \* stdout_buffer, and callstack, break_flag,
                         \* continue_flag and return_node
           "thrown"}     \* throw_value, kept while a finally runs

Unsaved == {"output", "thrown"}   \* not in TeReqState

Blank == [s \in Slices |-> {}]
Live == [Slices -> SUBSET Threads]

ApiInit ==
    /\ overlap \in Overlaps
    /\ Lock!Init
    /\ stage = [t \in Threads |-> "idle"]
    /\ vm = Blank
    /\ stash = [t \in Threads |-> Blank]
    /\ active = 0 /\ owned = {}
    /\ objects = [t \in Threads |-> "none"]
    /\ inflight = 0
    /\ reply = [t \in Threads |-> {}]
    /\ printed = [t \in Threads |-> {}]

Goto(t, s) == stage' = [stage EXCEPT ![t] = s]

Released(t) == Lock!Release(t) /\ UNCHANGED overlap

-----------------------------------------------------------------------------
(* Entry of request_handler: the request is counted before it waits. *)
Arrive(t) ==
    /\ stage[t] = "idle"
    /\ inflight' = inflight + 1
    /\ Goto(t, "arrived")
    /\ UNCHANGED <<lock, vm, request, answer>>

(* Faulty variant: a plain mutex, the last to come goes in first. *)
AcquireUnfair(t) ==
    /\ \/ stage[t] = "arrived" /\ Goto(t, "line")
       \/ stage[t] = "parked" /\ Goto(t, "rejoin")
    /\ \/ Lock!Barge(t)
       \/ /\ ~ Lock!Queued(t) /\ queue # <<>>
          /\ queue' = <<Head(queue), t>> \o Tail(queue)
          /\ UNCHANGED owner
    /\ UNCHANGED <<overlap, vm, request, inflight, answer>>

(* invoke_lock_acquire, from request_handler or from te_coop_yield_end. *)
Acquire(t) ==
    /\ \/ stage[t] = "arrived" /\ Goto(t, "line")
       \/ stage[t] = "parked" /\ Goto(t, "rejoin")
    /\ Lock!Request(t) \/ Lock!Barge(t)
    /\ UNCHANGED <<overlap, vm, request, inflight, answer>>

Enter(t) ==
    /\ Lock!Enter(t)
    /\ UNCHANGED <<overlap, stage, vm, request, inflight, answer>>

Holds(t, s) == owner = t /\ stage[t] = s

(* typeeasy_http_reset and the setters of method, path, query, headers. *)
Opened(t) == [vm EXCEPT !["http"] = {t}]

(* te_rh_respond_no_route: 404 or 405. *)
NoRoute(t) ==
    /\ Holds(t, "line")
    /\ vm' = [vm EXCEPT !["http"] = {}]
    /\ Released(t)
    /\ inflight' = inflight - 1
    /\ Goto(t, "late")
    /\ UNCHANGED <<request, answer>>

(* 413: what was set up for the request stays in the VM. *)
TooLarge(t) ==
    /\ Holds(t, "line")
    /\ vm' = Opened(t)
    /\ Released(t)
    /\ inflight' = inflight - 1
    /\ Goto(t, "late")
    /\ UNCHANGED <<request, answer>>

(* setjmp, then typeeasy_embedded_invoke_method up to the handler's body. *)
Invoke(t) ==
    /\ Holds(t, "line")
    /\ vm' = [Opened(t) EXCEPT !["recovery"] = {t}, !["ret"] = {},
                               !["claims"] = {}]
    /\ active' = active + 1
    /\ Goto(t, "handler")
    /\ UNCHANGED <<lock, stash, owned, objects, inflight, answer>>

-----------------------------------------------------------------------------
(* The handler's code.  It reads and writes the VM as if it were alone: it  *)
(* declares variables, returns a value, is given claims, sets headers,      *)
(* prints, has an exception put aside by a finally, and makes objects, JSON *)
(* trees, closures and DB connections that the end of the request releases  *)
(* (te_req_owned_register and its likes, which register nothing outside a   *)
(* request).                                                                *)
Run(t) ==
    /\ Holds(t, "handler")
    /\ objects[t] = "none"
    /\ vm' = [vm EXCEPT !["vars"] = @ \union {t}, !["ret"] = {t},
                        !["claims"] = {t}, !["http"] = @ \union {t},
                        !["output"] = @ \union {t}, !["thrown"] = {t}]
    /\ objects' = [objects EXCEPT ![t] = "live"]
    /\ owned' = IF active > 0 THEN owned \union {t} ELSE owned
    /\ UNCHANGED <<lock, stage, stash, active, inflight, answer>>

(* The gates of te_coop_yield_begin.  A handler not declared async keeps    *)
(* the lock: here, one that happens not to take Park.                       *)
MayYield == overlap

(* te_reqstate_save moves the request's parts out of the VM; the recovery   *)
(* point is copied and stays, and what TeReqState has no field for stays.   *)
Saved == [s \in Slices |-> IF s \in Unsaved \union {"recovery"} THEN vm[s] ELSE {}]
Stashed == [s \in Slices |-> IF s \in Unsaved THEN {} ELSE vm[s]]

(* te_coop_yield_begin in te_async_run_until: no task of the request is     *)
(* done and it waits for its child processes without the lock.              *)
Park(t) ==
    /\ Holds(t, "handler")
    /\ MayYield
    /\ stash' = [stash EXCEPT ![t] = Stashed]
    /\ vm' = Saved
    /\ Released(t)
    /\ Goto(t, "parked")
    /\ UNCHANGED <<active, owned, objects, inflight, answer>>

(* te_reqstate_restore frees what the VM holds and moves the stash back.    *)
Restored(t) == [s \in Slices |-> IF s \in Unsaved THEN vm[s] ELSE stash[t][s]]

(* Faulty variant: the recovery point of the parked request is forgotten. *)
UnparkNoRecovery(t) ==
    /\ Holds(t, "rejoin")
    /\ vm' = [Restored(t) EXCEPT !["recovery"] = vm["recovery"]]
    /\ stash' = [stash EXCEPT ![t] = Blank]
    /\ Goto(t, "handler")
    /\ UNCHANGED <<lock, active, owned, objects, inflight, answer>>

(* te_coop_yield_end, with the lock taken back. *)
Unpark(t) ==
    /\ Holds(t, "rejoin")
    /\ vm' = Restored(t)
    /\ stash' = [stash EXCEPT ![t] = Blank]
    /\ Goto(t, "handler")
    /\ UNCHANGED <<lock, active, owned, objects, inflight, answer>>

(* runtime_reset_vars_to_initial_state: variables, frames, flags, the       *)
(* return value and the captured output; the claims and the HTTP context    *)
(* stay.  A thrown value stays too, but no one reads it any more: a catch   *)
(* reads one that a throw of its own request has written.                   *)
Reset == [vm EXCEPT !["vars"] = {}, !["ret"] = {}, !["recovery"] = {},
                    !["output"] = {}, !["thrown"] = {}]

(* te_req_owned_free_all, the request-scoped connections that the reset     *)
(* closes, and te_request_active--: the whole registry, whosever it is.     *)
FreeAll(t) ==
    /\ objects' = [u \in Threads |->
           CASE u = t /\ (u \in owned \/ objects[u] = "freed") -> "none"
             [] u # t /\ u \in owned -> "freed"
             [] OTHER -> objects[u]]
    /\ owned' = {}
    /\ active' = active - 1

(* The end of typeeasy_embedded_invoke_method and of request_handler up to  *)
(* the release, with the response copied before it.  The body is a value,   *)
(* what the handler has printed (json() or xml() without an argument), or a *)
(* text of the server: an uncaught throw, a denied guard, a bind error.     *)
Return(t) ==
    /\ Holds(t, "handler")
    /\ \E body \in {"value", "output", "text"} :
           /\ reply' = [reply EXCEPT ![t] =
                          vm["http"] \union (IF body = "value" THEN vm["ret"] ELSE {})]
           /\ printed' = [printed EXCEPT ![t] = IF body = "output" THEN vm["output"] ELSE {}]
    /\ vm' = Reset
    /\ FreeAll(t)
    /\ Released(t)
    /\ Goto(t, "reply")
    /\ UNCHANGED <<stash, inflight>>

(* Faulty variant: the longjmp skips te_req_abort_cleanup. *)
FatalUnclean(t) ==
    /\ Holds(t, "handler")
    /\ vm' = Reset
    /\ UNCHANGED <<active, owned, objects>>
    /\ Released(t)
    /\ inflight' = inflight - 1
    /\ Goto(t, "late")
    /\ UNCHANGED <<stash, answer>>

(* te_runtime_fatal jumps to the recovery point, which HandlerSeesItsOwn    *)
(* shows to be this thread's, and te_rh_respond_fatal answers 500.          *)
Fatal(t) ==
    /\ Holds(t, "handler")
    /\ vm' = Reset
    /\ FreeAll(t)
    /\ Released(t)
    /\ inflight' = inflight - 1
    /\ Goto(t, "late")
    /\ UNCHANGED <<stash, answer>>

(* The response is written without the lock; the normal path is counted     *)
(* out here, the error paths were before.                                   *)
Write(t) ==
    /\ \/ stage[t] = "reply" /\ inflight' = inflight - 1
       \/ stage[t] = "late" /\ UNCHANGED inflight
    /\ reply' = [reply EXCEPT ![t] = {}]
    /\ printed' = [printed EXCEPT ![t] = {}]
    /\ Goto(t, "idle")
    /\ UNCHANGED <<lock, vm, request>>

Handler(t) == Run(t) \/ Park(t) \/ Unpark(t) \/ Return(t) \/ Fatal(t)

Step(t) == \/ Acquire(t) \/ Enter(t) \/ NoRoute(t) \/ TooLarge(t)
           \/ Invoke(t) \/ Handler(t) \/ Write(t)

ApiNext == \E t \in Threads : Arrive(t) \/ Step(t)

(* Every thread goes on, and the wait of a parked request is at most 50 ms  *)
(* long (src/src/te_async.c:172).  A handler ends however often it parks:   *)
(* what it awaits is answered in the end.  Requests need not come.          *)
ApiFairness == \A t \in Threads : WF_apiVars(Step(t)) /\ SF_apiVars(Return(t))

ApiSpec == ApiInit /\ [][ApiNext]_apiVars /\ ApiFairness

-----------------------------------------------------------------------------
InHandler == {t \in Threads : stage[t] \in {"handler", "parked", "rejoin"}}

(* While a handler's code runs, what TeReqState carries of the VM is its    *)
(* own, and a fatal would land in its own frame, however many requests ran  *)
(* or parked before; a parked request's stash holds nobody else's data, and *)
(* no value or header in a response is another's ("bleed between requests", *)
(* src/src/ast.c:2127).  What TeReqState has no field for, the captured     *)
(* output and a thrown value that waits, and the objects of the request are *)
(* its own when no request parks (the default): see OutputIsItsOwn.         *)
CarriedIsOwn ==
    /\ \A t \in Threads : Holds(t, "handler") =>
           /\ vm["recovery"] = {t} /\ vm["http"] = {t}
           /\ \A s \in Slices \ Unsaved : vm[s] \subseteq {t}
    /\ \A t \in Threads, s \in Slices : stash[t][s] \subseteq {t}
    /\ \A t \in Threads : reply[t] \subseteq {t}

UnsavedIsOwn == \A t \in Threads :
    /\ Holds(t, "handler") => /\ vm["output"] \subseteq {t} /\ objects[t] # "freed"
                              /\ objects[t] # "none" => vm["thrown"] = {t}
    /\ printed[t] \subseteq {t}

HandlerSeesItsOwn == CarriedIsOwn /\ (~overlap => UnsavedIsOwn)

(* A response carries what its own handler printed only, also when requests *)
(* overlap: "The interpreter never runs on two threads at once, so          *)
(* single-request behavior is byte-for-byte identical to the serialized     *)
(* model" (src/src/ast.c:2668-2669, te_reqstate_save).  stdout_buffer has no *)
(* field in TeReqState (MCParked.cfg refutes the property).                  *)
OutputIsItsOwn == \A t \in Threads : printed[t] \subseteq {t}

(* Every way out of the handler gives back what the request took: with no   *)
(* request in a handler the VM is at its baseline, no object of an          *)
(* answered request is alive; at all times te_request_active is the number  *)
(* of requests in a handler, and S()->inflight, which the drain waits on    *)
(* and /readyz reports, counts every request from its entry to its response *)
(* or error.                                                                *)
NothingLeftBehind ==
    /\ active = Cardinality(InHandler)
    /\ inflight = Cardinality({t \in Threads : stage[t] \notin {"idle", "late"}})
    /\ \A t \in Threads \ InHandler : objects[t] # "live"
    /\ InHandler = {} => /\ owned = {}
                         /\ \A s \in {"vars", "ret", "recovery", "output"} : vm[s] = {}

(* Every request that came in is answered, also when others park and come   *)
(* back in front of it.                                                     *)
EveryRequestAnswered ==
    \A t \in Threads : stage[t] = "arrived" ~> stage[t] = "idle"
=============================================================================
