# A verification of TypeEasy's runtime

TypeEasy is an interpreted language: a Flex/Bison front end, a tree-walking
interpreter in C with a bytecode accelerator, a runtime for asynchronous tasks,
and an HTTP/WebSocket server (`typeeasy --api`) built into the binary on top of
civetweb. All code of one process shares one interpreter, the global `g_vm`
(`src/src/te_vm.c:28-29`): everything concurrent in the program is about who
may use it and what they find there. This directory models that part.

Paths are relative to the repository's root as seen from here: `src/src/ast.c`
is the file `src/ast.c` of the repository.

## 1. Inventory

| component | where | state | operations |
|---|---|---|---|
| invoke lock | `typeeasy_api_server.c:133-165`, `ast.c:2816-2850` | mutex, condition variable, counters `invoke_next`, `invoke_serv`, per-thread `g_te_lock_held` | acquire, release; used by HTTP threads, WebSocket callbacks and parked handlers |
| HTTP request path | `typeeasy_api_server.c:655-1053`, `typeeasy_api.c:375-662` | `inflight`, request and response context in the VM, the registry of request-owned data, the recovery point | count in, lock, route, read body, invoke, recover from a fatal, copy the response, reset, release, write, count out |
| cooperative overlap | `ast.c:2678-2899` | `TeReqState`: the request's parts of the VM, moved aside while it waits | park at an await, come back |
| event loop, fibers | `te_evloop.c` | 256 fiber slots with a scope snapshot and a C stack, an I/O queue, `io_pending`, four I/O workers, two condition variables | `go` / `async fn`, `await`, `await_all`, `sleep_async`, `read_file_async` |
| async tasks | `te_async.c` | 256 task slots, the owner thread of each | `spawn`, `lang_call_async`, `await_task`, `await_all` |
| bridge to children | `te_bridge.c` | 32 child processes with pipes and a line buffer | `lang_spawn`, `lang_call`, `lang_send`, `lang_recv`, `lang_close`, the poll of a line |
| WebSocket | `api_server/te_websocket.c`, `typeeasy_api.c:664-754` | registry of connections and channels under `g_lock`, the swapped body, `s_ws_invoking` | connect, ready, data, close, subscribe, broadcast |
| worker pool | `typeeasy_api_server.c:1385-1676` | table of pids, stop flag | fork, forward signals, reap, kill |
| server life cycle | `typeeasy_api_server.c:1173-1342`, `typeeasy_main.c` | `ready`, stop and reload flags, mtime of the script | serve, hot reload, drain, stop, re-exec |
| database slots | `mysql_bridge.c`, `postgres_bridge.c`, `sqlserver_bridge.c`, `plugins/sqlite` | ten slots per driver, request scope, keys of pooled connections | connect, close, close at the end of a request |
| interpreter core | `ast.c`, `te_vm.c`, `te_interp_*.c` | variables, symbol hash, chain of call frames; the flags and values of a throw, a return, a break and a continue | statements, expressions, calls, loops, `try` |
| bytecode accelerator | `te_bytecode.c` | programs cached on AST nodes, guards | compile, check guards, run, invalidate |
| values and decimals | `te_value.c`, `te_decimal.c`, `te_num.h` | none | conversions, arithmetic |
| columnar cache, LINQ | `te_colcache.c`, `te_linq*.c` | cached columns | map, where, group, order |
| readers | `te_csv.c`, `te_xlsx.c` | arenas of parser threads | parallel parse, join |
| civetweb's threads | `api_server/civetweb.c:20400-21230` | socket queue, idle count, worker threads, `stop_flag` | accept, produce, consume, serve, stop |
| separate API server | `api_server/servidor_api.c` | table of worker pids, script mtimes | supervise, respawn, rolling reload; HTTP under `g_lock` |
| debugger | `debugger.c` | one socket and its buffer, `debug_enabled`, breakpoints, frames, the step under way, the last lines seen | accept, handshake, watch; the check of each statement, the wait for a command |
| parser, builtins, HTTP client, WASM backend | `parser.*`, `te_stdlib.c`, `te_http.c`, `wasm_backend.c` | little or none | sequential |
| agent server | `servidor_agent.c` | the interpreter, without a lock | webhooks |

**How they interact.** A civetweb thread takes a socket from the queue, runs
`request_handler`, takes the invoke lock and runs the handler's code on the VM.
An `await` in that code calls either the task loop (`te_async.c`, for `spawn`
and `lang_call_async`) or the fiber loop (`te_evloop.c`, for `async fn`), on the
stack of the caller. The task loop may give the invoke lock away while it waits
(`TYPEEASY_ASYNC_OVERLAP=1`, off by default): the VM's per-request parts are
then moved aside and another request runs over the same VM. The fiber loop
switches scopes through the live VM by copying, and shares a queue with real
threads that read files. A fatal error jumps with `longjmp` from anywhere in
that to the request handler. WebSocket callbacks come in on other civetweb
threads, take the same lock and then `g_lock`; a broadcast made by any handler
takes `g_lock` too. Statements of a handler are walked or, where a node has a
compiled program whose guards hold, run by the bytecode; both work on the one
array of variables that calls and loops grow and cut. Builtins load files with
threads of their own and keep database connections in process-wide tables. The
end of a request resets variables, programs, connections and owned objects. A
server process may be a child of a prefork parent or of a supervisor, or
replace itself when the script changes.

**What is hard.** Wakeups and tickets of a hand-made fair lock; one live scope
for many tasks; a scheduler that must not sleep through a completion;
bookkeeping that every exit of a request must undo, including the jump; state
that is not saved when a handler parks; loops nested on one stack; children
that die; two locks and callbacks; threads of a vendored library that stop while
they serve; parents, workers and signals that race with `fork`; connections
that outlive requests; pointers to slots that are used again; threads that
write into the buffer the others read; flags that one
construct sets and another is to clear; two threads that read one socket.
PROJECT.json lists each such place as a
hazard with its line and the properties that cover it.

**What makes each component correct.** Lock: exclusion, order, no lost wakeup,
no starvation. Requests: a handler sees its own data only, nothing of it is
left behind on any exit, everyone is answered. Fibers: scopes isolated, an
await returns finished tasks and always returns, one job per waiting fiber.
Tasks: an answer reaches the call that asked for it, awaits return done tasks
and return. WebSocket: no write to a connection that is gone, every handler
with the set-up of its own event, threads come back. Server processes: a queued
socket is taken, a stop ends the process and pulls nothing from under a
handler, a drained response is not cut, a changed script is noticed, a pool
ends as a whole, no orphans, slots are refilled. Database: handles keep their
connection, a transaction is nobody else's, slots come back. Interpreter: a
call leaves the caller's names alone, both engines compute the same, an
exception, a return and a break end what they belong to and nothing else.
Readers: columns, lists and frames hold the rows of the file, and columns
the rows of the list for as long as they live. Debugger: a step
stops where it says, a stopped request goes on, an adapter may come back.

## 2. Modules

| module | models | remarks |
|---|---|---|
| `FifoLock` | what the invoke lock promises: a queue whose head may run | abstract specification; used by `ApiServer` and `WebSocket` |
| `InvokeLock` | the ticket lock of `typeeasy_api_server.c` | one action per critical section of `invoke_mtx`; implements `FifoLock` through `Line` and `Inside` |
| `InvokeLock_proofs` | theorems of `InvokeLock` | with the safety half of its refinement of `FifoLock` |
| `EventLoop` | `te_evloop.c` | interpreter thread, fibers, I/O workers, both condition variables |
| `Threads_proofs` | theorems of `EventLoop` and of `Debugger` | |
| `FiberContext` | what a snapshot leaves out: frames, nested awaits, fatal errors | extends `EventLoop` |
| `ApiServer` | the request path and the overlap | composed with the lock through `INSTANCE FifoLock` |
| `AsyncTasks` | `te_async.c` and the bridge's asynchronous half | each thread has a stack of loops |
| `Requests_proofs` | theorems of `ApiServer` and of `AsyncTasks` | |
| `WebSocket` | connections, callbacks, broadcasts and HTTP requests over two locks, on both servers | composed with `FifoLock` |
| `WebSocket_proofs` | theorems of `WebSocket` | |
| `CivetPool` | master and worker threads of civetweb with their socket queue | |
| `ApiLifecycle` | `run_single_server`, the watcher of `--dev`, drain and re-exec | extends `CivetPool`: one action of main beside the threads |
| `WorkerPool` | `typeeasy_run_api_server_pool` | parent, workers, parent-death signal |
| `Supervisor` | the supervisor of `servidor_api.c` | respawn and rolling reload |
| `Servers_proofs` | theorems of `Supervisor`, of `WorkerPool`, and of `ApiLifecycle` with the threads of `CivetPool` | |
| `DbPool` | the connection tables of the bridges | with and without the MySQL pool |
| `Scopes` | variables, hash, frames, shadowed names | |
| `Scopes_proofs` | theorems of `Scopes` | |
| `Bytecode` | the accelerator beside the walker | extends `Scopes` |
| `Flow` | how `throw`, `return`, `break` and `continue` leave blocks, loops, `try`, methods and lambdas | the C stack as a sequence |
| `Flow_proofs` | theorems of `Flow` | |
| `CsvLoad` | the parallel loads of `te_csv.c` | |
| `ColCache` | the columns beside a list, views of it and who drops them | data: one attribute of two values |
| `Resources_proofs` | theorems of `DbPool`, `ColCache` and `CsvLoad` | |
| `Debugger` | the debugger of a server process, attach mode | adapter, accepting thread, thread of a request |
| `MC*` | the model values of the runs | `MCServers`, `MCRequests`, `MCResources`, `MCThreads` and `MCWalker` put models side by side |

How state and actions correspond to the code:

* `InvokeLock`. `pthread_cond_wait` ends a critical section, so the `place` of a
  thread is `waiting` (in the wait), `woken` (wants the mutex) or `in`.
* `EventLoop`. A scope is one value out of `Values`: `live` is `g_vm.vars`,
  `ctx[f]` the snapshot in the fiber, `caller` the local of
  `evloop_run_until`. A `Yield(v)` says that the turn left `v` in its
  variables and `ctx_save` kept it; `Resume` restores, `Leave` restores the
  caller. `wake_in` is the distance to `wake_at` in ticks, so time needs no
  bound. `own` is a history variable: what each context last had. Steps that
  neither a worker nor the clock can see are joined with the step before them;
  every critical section of `io_mu` and every wait is a step of its own. The
  wait of `io_wait_and_collect` is timed when something sleeps; both may end
  early (spurious wakeup, signal), which is allowed but never owed.
* `ApiServer`. A part of the VM is the *set of threads whose data it holds*:
  `{}` is the baseline, two members mean that the data of two requests was
  mixed. `vm` has the parts that differ in who resets and who saves them
  (`Slices`). `stash[t]` is the `TeReqState` of a parked request. Most parts are
  moved into it; the recovery point is copied; and what it has no field for
  stays live in the VM (`Unsaved`): `output` is the captured stdout, with
  `callstack`, `break_flag`, `continue_flag` and `return_node`, and `thrown` the
  `throw_value` of an exception that a `finally` put aside. (`bc_this` is not in
  the model: compiled bodies make no call that parks.) `reply[t]` is whose data
  went into a response, `printed[t]` whose output. `owned` and
  `objects` are the process-wide registry and the fate of what the request
  made. `late` stands for a request that was counted out before its error
  response was written. The probes and `OPTIONS` answer before the lock.
* `AsyncTasks`. `loops[o]` is the stack of `te_async_run_until` calls of
  thread `o`: the awaited tasks, the position of the pass, whether it
  progressed, and the lambda it has called. A call is named by the budget left
  when it was made, and a line by the call it answers.
* `WebSocket`. A connection is named by its thread, since civetweb gives it one
  for its whole life and reuses the `mg_connection` afterwards. `at` is the
  place in the thread's stack (line of the invoke lock, wait for `g_lock`, body
  of a handler, before and during the writes of a broadcast, read loop, and
  `frame`, the inner loop that reads the rest of a frame and in which a timeout
  is a retry).
  `http`, `recovery`, `invoking` and `body` are process globals of the
  interpreter; `saved` and `prior` the C locals that keep them over a guarded
  invocation. The separate server registers no invoke lock and holds `g_lock`
  over HTTP handlers: `server` chooses which of the two runs.
* `CivetPool`. Critical sections of `thread_mutex` are actions; a thread asleep
  on a condition variable needs a signal (or a spurious wakeup) to be `woken`.
  `conn` is what the client sees: `answered`, `cut` (the response of a counted
  request lost to the stop), `lost` (of one counted out before), `closed`.
* `ApiLifecycle`. `main` is the place of the main thread. The script is a
  number, odd while an editor is in the middle of writing; its mtime is the
  current second, so that two writes may share one. `old` remembers whose
  handlers ran when the drain began.
* `WorkerPool`, `Supervisor`. A process is `born`, `asked` (has called
  `prctl`), `starting`, `serving`, `draining`, `zombie` or `gone`; a signal
  that finds no handler installed ends it. Pids of the supervisor are reused.
* `DbPool`. A slot is the record of the parallel arrays `connections`,
  `pool_keys`, `pool_in_use`, `conn_req_scoped`; a connection is the number of
  its socket, so that a slot used again is seen to be another one.
* `Scopes`. A slot is a cell (name, kind, value) in a sequence; the hash is a
  function with 0 for no entry; a frame has its base and its shadowed names, and,
  as history, where its caller's names led (`seen`). A read fills the hash
  (`Indexed`), an assignment may declare. `ScopesSpec` is the walker alone, with
  what the accelerator does to a scope left to `Bytecode`.
* `Bytecode`. A compiled program is the tree with names bound to slots, since
  the flat opcodes evaluate exactly that tree on a stack. `Evaluate` runs one
  node of the script through both engines on the same scope.
* `CsvLoad`. A file is a sequence over "byte of a row" and "line end"; a
  scan overwrites line ends with NUL in the shared `buf`. A row is named by
  the place of its first byte; the places of a chunk are what the workers before it
  have reserved (`Before`). Fields, quotes and types are left out, they do
  not move the cuts. The read-only path of a dataframe is the same without NULs.

* `Flow`. `stack` is the C stack of the tree walker: blocks, loops, `try`,
  methods, lambdas, the `return` of a call, and the rest of a statement that has
  a call as an operand (`OperandOf`): it goes on when the call threw, and a
  `throw` or an arithmetic operator then raises its own exception over the one
  in flight. Calls inside a condition, an argument or the text of a `return`
  are not told apart from those: what `OperandReturned` does is what they do.
  The program is not given: a block runs any statement, `break` and `continue`
  with or without a loop. `thr`, `msg`, `val`, `ret`, `retNode`, `brk` and
  `cont` are the flags of `g_vm`; a message is the `TextOf(v)` of what was thrown
  and never the container itself. What is in flight, what it replaced and whom
  it belongs to is history (`exc`, `retHome`, `retDue`, `breakHome`). Scalars
  are bound by a `catch` as text, maps, lists and objects as values.
* `ColCache`. A cache that was freed is one no longer in `cache`; `freed` are
  lists a request took with it. `owning` is `owning_list`, which a load that writes
  the columns itself does not set. The invalidation is the recursion of the
  code in closed form: `Reached` is what the loop over the array of views gets
  to while each view takes itself out of it, `Cascaded` what is left. What a list shares with another are
  its objects; a list without columns never gets any again.
* `Debugger`. `queued` and `peer` are the connection in the backlog and the one
  accepted, `wire` the commands sent and not read (rx included, since both
  readers use the same). A call of a method pushes a frame; one of an `fn`, a
  lambda or a global function pushes none (`fns` has the depth at which each
  was called), although its statements pass the debugger like all others.
  `asked` is history: where the step under way was asked for. A client that goes away appends `disconnect` or only ends the
  stream.

**Abstracted in all modules.** Values, texts and formats; out-of-memory; the
logging. Operators introduced by "Faulty variant" in a comment are not part of the
specifications: each changes one definition the way a bug would, and stands
beside it so that the properties can be tested against it.

## 3. Runs

| run | what it asks | bounds | result |
|---|---|---|---|
| `threads` | fibers: scopes, jobs, missed completions, awaits; debugger: steps, resumption, reattaching | 2 fibers, 2 workers, 2 values, sleeps of 0 or 1 tick, 2 operations per task body; 2 lines, calls 2 deep, 3 frames counted, 1 command on its way | holds, 460 604 states |
| `requests` | every exit of a request, with and without the overlap, answers; tasks: replies of children, nested awaits | 3 threads; 2 requests, 2 task slots, 1 child, 4 operations per request | holds, 117 914 states |
| `servers` | stop, drain, queue, reload; prefork pool; supervisor; the invoke lock: exclusion, lost wakeups, tickets across the wrap, FIFO order (refinement), starvation | 2 workers each; 2 clients (1 in dev mode), a queue of 1; 2 edits over 3 seconds; 4 pids, 1 crash or failed fork; 4 threads at the lock, counters modulo 5 | holds, 226 414 states |
| `resources` | databases: inherited transactions, handles, leaks; files: columns against list, dataframe against file; WebSocket: targets of a broadcast, set-up of handlers, threads that come back; columns of a list and its views | 2 slots, 2 keys, 4 sockets, 2 requests; all files of up to 7 bytes, 1 to 4 threads; 2 threads, 1 channel, 3 kinds of route, both servers; 2 rows, 3 objects, 2 views | holds, 452 266 states |
| `walker` | agreement of the engines, names of the caller; whom exceptions, returns and breaks belong to | 5 slots, 2 frames, the method call and one of 2 other nodes, calls not inlined; a C stack of 7 frames, one scalar and one map | holds, 597 219 states |
| `fiber_context` | `ContextKept` | 2 fibers, 1 worker | violated |
| `csv_race` | `EveryRowLoaded` | clean files of up to 7 bytes, 1 to 3 threads | violated |
| `inlined` | `EnginesAgree` with calls inlined | 2 call sites of one method | violated |
| `handlers_skipped` | `HandlersRun` | a C stack of 6 frames | violated |
| `views` | `ColumnsFollowRows` | 2 rows, 2 views of one list | violated |
| `thrown_over` | `CatchesTheFirst` | a C stack of 7 frames | violated |
| `step_over` | `StepsOverCalls` | 2 lines, calls 2 deep | violated |

Five further configurations refute a property that no run above has: what they
show is in section 4, second list. They end at once with a counterexample.

| configuration, module | refutes | bounds |
|---|---|---|
| `MCFlowLate`, `MCFlow` | `CaughtWhereWritten` | a C stack of 6 frames |
| `MCValueLost`, `MCFlow` | `CatchesTheValue` | a C stack of 8 frames |
| `MCParked`, `MCApiServer` | `OutputIsItsOwn`, with the overlap on | 3 threads |
| `MCTwoCalls`, `MCRequests` | `ReplyIsItsOwn` without `OneCall` | 2 requests, 2 task slots, 1 child |
| `MCVanished`, `MCWebSocket` | `DeadAreDropped` | 2 threads, 1 PING left unanswered |

`servers`, `requests`, `resources`, `threads` and `walker` are sums: `front` chooses in the
initial state which of the models runs, the others keep their initial state. A
property of a component is checked in its behaviours, and holds in the others
because nothing of it moves; so does its fairness, since an action of a component
that has not begun is not enabled, or, where it would be, is owed only in its
own front (`Debugged` in `MCThreads`).

**Why the bounds are enough.** *Lock*: with four threads one runs, one is
served but still asleep, and two are behind it, the least in which a signal
can wake the wrong waiter; modulo five is the least modulus the assumption
allows, so tickets wrap again and again. *Event loop*: two fibers suffice for one
to sleep or read while the other runs, spawns or finishes, and for an await of
either or both; slots are reused without limit. Both workers can hold a job,
or one can hold it while the other goes to sleep. `MaxMs` 1 has a timer that is due at once and one
that is not. The number of operations per task bounds a single task, not the
run. *Requests*: two parked and one running is the least in which two stashes
coexist; threads serve any number of requests. *Tasks*: two requests with two
tasks between them interleave their loops, and one of them can run out of
slots; the child slot is opened and closed repeatedly. *WebSocket*: one thread
broadcasts while the other's connection opens, closes or is replaced; both
locks can be contended; three routes have no clause, only `on_open` and all
three. *Servers*: two workers and a queue of one fill the queue and let the
master sleep on it; three seconds allow a second write with another mtime
within the settling, and one with the same; connections come back without
limit. With two workers the parent can lose one while the other serves, hangs
or starts. Four pids allow a whole reload of two beside the two old ones, with
numbers used again. *Debugger*: two calls have a callee to step over and to step out of; three
frames let one be left behind by a fatal error without the limit being hit and
two with it. *Database*: two slots and two keys make a key wait for the
other's idle slots; four sockets let a dead connection be replaced within each
request. *Bytecode*: two frames over two globals reach shadowing of a
shadowed name and a freed slot used for another name and kind; a script evaluates
the method call and either the sum or the loop, since the programs of nodes meet in the
scope and in the body of the method only. *Flow*: seven
frames hold the body of the request, a `try` in the `catch` or `finally` of
another, and a loop, call or `try` in that with its block. *CSV*: seven
bytes hold two rows on each side of a cut, a cut inside a row, at its start,
at a line end, blank lines at either side and a last row without line end.
*Columns*: two rows let a filter keep none, one or all, two views are a view
of a view or two of one list, and the third object is one the file did not load.

**Parameters that are gates.** `Overlaps` is `TYPEEASY_ASYNC_OVERLAP`. With it
`HandlerSeesItsOwn` asks only for what `TeReqState` carries (`CarriedIsOwn`);
that the rest is a handler's own (`UnsavedIsOwn`) is asked without it, and is
false with it (`MCParked`). `OneCall` restricts
scripts to one outstanding request per child; without it `ReplyIsItsOwn` is
false, as lines are handed to the lowest task slot: `MCTwoCalls` is the same
model without the gate, and what it shows the run `requests` would not catch. `NoCross` excludes
awaiting a task that runs below on the same stack, which spins for ever. The
guard of `End` keeps requests from leaving tasks and children behind. `BcCall`
is the inlining of methods (off with `TYPEEASY_NO_BCCALL`); with it the
engines differ. `Clean` restricts two CSV properties to files without blank
lines, which the counts treat as rows. `Quiet` lets no statement run while an
adapter makes its handshake; without it `Resumes` is false. `OneView` allows
one view of a list at a time, `Owned` no assignment to an object of columns that
were written during the load (the code excludes it, te_colcache.c:249), and
without `Ends` a request ends only when its lists have no columns; outside
of these `CachesSound` is false. `StopsForStep` asks that every method under
way since the step has its frame (`Counted`: no fatal error and no call past
`MAX_FRAMES` in between) and speaks of methods; `step_over` shows what becomes
of steps over calls of functions.

### Fairness

* `InvokeLock`: a woken thread gets `invoke_mtx` in the end (`Recheck`), and
  whoever is inside leaves (`Release`): handlers are assumed to return. Nobody
  is obliged to call, and spurious wakeups are never owed, so the broadcast is what
  wakes sleepers.
* `EventLoop`: the interpreter thread goes on (weak fairness on the
  disjunction of its steps, which are its program order), time passes, and
  each worker goes on, which includes that a read of a file returns. A fiber
  body is bounded by `MaxOps`: task bodies are assumed to terminate.
* `ApiServer`: each thread goes on, and a handler ends however often it parks
  (strong fairness of `Return`): what it awaits answers in the end. The
  wait of a parked handler is at most 50 ms long, so coming back is owed.
* `AsyncTasks`: the thread that holds the interpreter goes on; taking it back
  is strongly fair, which is what `InvokeLock!NoStarvation` provides; a child
  that was asked answers or dies. A child that does neither is the one case in
  which an await may last for ever, in the code as well.
* `WebSocket`: weak fairness of each thread's own steps and of the timeout of
  an idle connection; peers owe nothing. A body is bounded by `MaxOps`. The
  invoke lock hands over in order, so weak fairness suffices there;
  `ThreadsComeBack` is stated of the embedded server only, as `g_lock` alone
  promises no order, and of peers that vanish between frames. The rest of a
  frame owes nothing: `MCVanished` has its counterexample with everything fair
  that the code has a timeout or a thread for.
* `MCServers`: threads, main loops and processes go on, `request_timeout_ms`
  bounds a silent client, handlers return, except those that a worker process
  is stuck in (`GetsStuck`). Signals, edits, crashes, clients and the clock
  owe nothing.
* `Debugger`: both threads go on. Requests come and execute a statement now
  and then (strong fairness of `Statement`), which `AcceptsAgain` needs; the
  adapter owes nothing, so `Resumes` asks only for what it has sent.
* `DbPool`, `Bytecode`, `Flow`, `CsvLoad` and `ColCache` have safety properties only.

`CHECK_DEADLOCK FALSE` stands where the system ends: processes that are gone,
requests that are used up, a load that is finished.

## 4. Findings

Seven runs refute what the code, its comments or its documents state, one property
each. PROJECT.json quotes the lines.

1. **Fatal in a fiber** (`ContextKept`). The jump leaves `E()->current` set and
   the caller's context unrestored; the next handler is taken for that fiber.
   Two more paths break the same promise: `CtxSnapshot` has no `frame_top`, and
   a fiber that awaits stays `READY` under its own nested loop.
2. **A row lost at a cut** (`EveryRowLoaded`). A parser thread decides whether
   it starts inside a row by a byte that the thread before it may have
   overwritten, and then skips a whole row. Dataframes are not affected
   (`FrameIsFile`): all threads find their first row before any scans.
3. **Inlined methods** (`EnginesAgree` in `inlined`). The cached program of a
   method skips the test that protects a caller's variable of the same name as
   the parameter.
4. **Handlers that do not run** (`HandlersRun`). A `finally` entered under a
   `return` runs no statement, and one entered under a `break` or `continue` only
   its first. `return f()` raises `return_flag` although `f` threw; the `catch`
   around it takes the exception and runs nothing.
5. **Columns of a list gone, not those of its view** (`ColumnsFollowRows` in
   `views`). `te_colcache_invalidate` loops over the views while each removes itself
   from the array: with two views the second is skipped, and later sums of it read
   the freed columns of its parent.
6. **An exception replaced in flight** (`CatchesTheFirst` in `thrown_over`).
   `throw f()` and `10 / f()` go on when `f` threw: neither `te_stmt_throw` nor
   `te_num_zero_div` looks at `throw_flag` before it writes its own message.
7. **A step over that steps in** (`StepsOverCalls` in `step_over`). Only methods
   and endpoints push a frame of the debugger; a step over a line that calls an
   `fn` or a lambda stops at its first statement.

Refuted by a configuration of their own, without a run:

* **A return evaluated late** (`CaughtWhereWritten`, `MCFlowLate`). The
  expression of a `return` is evaluated after the method has ended, so a `try`
  around the `return` does not catch its error (`docs/SPEC.md:279-281`).
* **A thrown map that arrives as text** (`CatchesTheValue`, `MCValueLost`). A
  `finally` saves the message of the exception it puts aside, not its value; a
  `throw` it catches itself clears that (`docs/SPEC.md:511`).
* **Output of another request** (`OutputIsItsOwn`, `MCParked`). With
  `TYPEEASY_ASYNC_OVERLAP=1`, off by default, the captured output stays in the
  VM while its request is parked: another adds to it or frees it
  (`src/src/ast.c:2668-2669`; the comment at 2857-2869 admits of the objects
  that saving isolates one parked request only).
* **Answers swapped between calls** (`ReplyIsItsOwn`, `MCTwoCalls`). With two
  requests outstanding on one child the task in the lower slot takes the first
  line, whichever request it answers (`docs/SPEC.md:478-479`).
* **A peer that vanishes inside a frame** (`DeadAreDropped`, `MCVanished`). The
  loop that reads the rest of a frame takes a timeout for a retry: no PING is
  sent or counted, and the thread is held until the server stops
  (`src/src/typeeasy_api_server.c:1217-1219`).

In the notes of the hazards only: objects of parked requests freed by the end
of others, crossed awaits, `&&` and `||` without short circuit in the
bytecode, blank lines in the counts of a parallel load, reloads that miss an
edit, a return of a concatenation that is evaluated twice, idle connections of
the MySQL pool that refuse a new key when all ten are of others, columns of
lists that a request freed, the agent server,
which runs the interpreter on several threads without a lock, and three of
the debugger: a handshake under load that leaves a request stopped, an
adapter that is not accepted until a request notices that the last one has
gone, a breakpoint in a one-line handler that stops only its first request.

## 5. Proofs

TLC checks the instances above; the theorems hold for every value of the
constants under the assumptions named in the modules.

**`InvokeLock_proofs`**, from `InvokeLockAssumption` (finitely many threads,
fewer than the counter has values: true of threads and an `unsigned long`).
`IInv` is `LockTypeOK /\ TicketsConsecutive /\ InsideIsServed /\ ServedIsAwake`.
Exclusion is not inductive by itself: a second thread could go in if it held
the ticket being served too. `InsideIsServed` (who is inside holds that
ticket) reduces exclusion to tickets being distinct, and distinct tickets
stay distinct across a wrap only because those in use are exactly the places
from `invoke_serv` to `invoke_next` on the ring and fewer than its length,
which is `TicketsConsecutive`. The lemmas on `Distance` and `Succ` are the ring
arithmetic. Theorems: `LockInvariant`, `LockTypeCorrect`,
`LockMutualExclusion`, `LockNoLostWakeup`, `LockTickets`.

`LockRefinesFifo` is the safety half of `ImplementsFifo`: the ticket lock
takes only steps of the queue (`Fifo!Init /\ [][Fifo!Next]_Fifo!vars`). `Line`
chooses, for each place behind `invoke_serv`, the holder of the ticket there.
That there is one needs counting (`PlacesTaken`: as many holders as places, on
different places, so every place is taken), and that there is only one needs
the tickets distinct (`LineUnique`). Each step of the code then gives a sequence
with the holders in ticket order, which can only be the next `Line`: one lemma
per action, the wait and its wakeup being stutters of the queue.

**`Threads_proofs`, on `EventLoop`**, from `EventLoopAssumption` (a positive number of
fibers, a finite non-empty set of workers, `NoScope` not a value). `IInv` is
`TypeOK /\ ScopeInv /\ AwaitInv /\ JobInv /\ NoMissedDone /\ NoIdlePool`.
`ScopeInv` adds to `ScopeIsolated` what makes the next restore right: every
fiber that waits for its turn has its own scope in its snapshot, the loop has
the caller's in its local, and `current` is a fiber exactly while one runs.
`AwaitInv` says that awaited slots are in use and that a scan which ran nobody
began at slot 0, so that `NoneReady` speaks of all slots: with it the deadlock guard
fires only when every awaited fiber is done. `JobInv` adds to `OneJobEach`
that the running fiber has no job left from its last read. `PendingExact` is proved on top of
`IInv`, with the cardinalities of the sets that a submission and a
collection change. Theorems: `LoopInvariant`, `LoopTypeCorrect`,
`LoopScopeIsolated`, `LoopOneJobEach`, `LoopNoMissedDone`, `LoopNoIdlePool`,
`LoopPendingExact` and the action property `LoopAwaitReturnsFinished`.

**`Threads_proofs`, on `Debugger`**, from no assumption at all: for any lines and frame
limits and for handshakes at any moment (`Quiet` is not used). Debugger compares
`frame_top` with `step_depth`; the property speaks of the depth of the program.
`IInv` ties the two through the history variable `asked`: while a step over is
under way `step_depth` is the number of frames counted where it was asked for,
and a step out is either still that or has become a step over with a smaller
depth (`Popped`). `DepthsOK` is the part of the types this rests on. Calls,
returns and fatal errors move `depth` and `frame_top`, and the guard of
`StopsForStep` (no frame uncounted or left behind since) carries the bound from one to
the other. Calls of functions and lambdas move neither, so the theorem says of a
step over that it stops in no method that the statement calls, directly or
through a function, and nothing of the functions themselves: there the claim
is false (`step_over`). Theorems: `StepInvariant` and `StepsStayAboveCallees`.

**`Requests_proofs`, on `ApiServer`**, from `ApiServerAssumption` (finitely
many threads, `NoThread` none of them), overlap on and off. `IInv` is
`TypeOK /\ LockInv /\ DataInv /\ CountInv`. That a handler sees its own data
is not inductive: nothing in it says that the stash a parked request restores
is its own, or that the VM was left clean for whoever enters next. `LockInv`
(whoever is inside is the head of the queue, and handler code is inside) makes
the VM one thread's at a time; `DataInv` follows the data, in the VM while the
code runs, in the stash while it is parked, and nowhere when no handler
runs. For what `te_reqstate_save` carries this holds with the overlap on and
off; for what it leaves in the VM, and for the objects, `DataInv` has it
without the overlap only, as in the property. `CountInv` ties the two counters to the sets they count and the registry to
the live objects. Theorems: `HandlersExclude`, `RequestsIsolated`
(`HandlerSeesItsOwn`), `RequestsCleanUp` (`NothingLeftBehind`).

**`Requests_proofs`, on `AsyncTasks`**, from `AsyncTasksAssumption` and
`OneCall`: for scripts that have one call outstanding per child. Without it
the code does swap answers (a hazard). `ReplyIsItsOwn` says what one step may
do, so it needs to be known what a child holds before that step: `ChildInv` says that
at most one call waits for it, and it has exactly that request, or exactly its
answer, or, being gone, nothing; and with nobody waiting nothing is left in the
pipe for the next. A call that is forgotten, in a slot used again, or awaited by a
nested loop must keep that true, which is what `RunInv` is for (a lambda runs in
one loop only, and its task does not look free meanwhile). Theorems:
`TaskInvariant` and the action property `AnswersAreTheirOwn`.

**`WebSocket_proofs`**, from `WebSocketAssumption`, for both servers. `IInv` is
`TypeOK /\ HoldInv /\ SetUpInv /\ TargetInv`. `HoldInv` says which locks are held
at each place of a thread's stack; it is what keeps two handlers that swap
process globals apart. `SetUpInv` says where the parser's body of the route is
(in place, or in the local of the one handler that swapped it), so that the way
back restores the right one. `TargetsStillOpen` holds although a broadcast keeps no lock of the registry:
the steps that take a connection out run while no other thread interprets. Theorems: `HandlersHoldLocks`,
`HandlersSetUp` (`HandlerSetUp`), `BroadcastsReachOpen` (`TargetsStillOpen`).

**`Servers_proofs`, on `ApiLifecycle`**, from `PoolAssumption` and
`LifecycleAssumption`, for any number of connections, workers, edits and
seconds. `LifeInv` is `LifeTypeOK /\ FlagInv /\ ServingInv /\ DrainInv`. A
response can only be cut with `stop_flag` up, and main raises it only when it leaves the drain:
`FlagInv` ties the flag and the threads to the place of main (none is left
from the server before a re-exec), `ServingInv` says that no busy worker's
response is cut while it is down, and `DrainInv` that `inflight` counts those inside, so a drain that
ends before its time ends with nobody in a handler. Theorems: `LifeInvariant`,
`DrainWaits` (`DrainedAreAnswered`). Each step of the threads of `CivetPool` has a
lemma of its own.

`PlacesInv`, inductive beside `LifeInv`, is about the connections: `QueuedOnce` (the
queue names each queued connection once, and is no longer than its array),
`TakenOnce` (one that was taken is with the master or with one worker) and
`IdleCounted` (the count that decides whether a thread is started is of the
threads born, asleep or woken, although who counts differs for a new and an
old one). Both directions are needed: that no connection is lost is what
keeps the holder of a new one from being a second one. Theorem: `SocketsApart`.

**`Servers_proofs`, on `WorkerPool`**, from `WorkerPoolAssumption`. `PreforkInv`
is `PreforkTypeOK /\ Named /\ OrphansAreTold /\ NoneLeft`: while there is a
parent its table names every worker that runs, so the SIGKILL at the end misses none;
when it dies a worker has either asked for the signal, and gets it, or has
not, and meets the test of `getppid` before it serves. Theorem: `OrphansTold`,
the safety half of `NoOrphans` and `PoolEnds`; that the signal is heeded stays with
TLC.

**`Servers_proofs`, on `Supervisor`**, from `SupervisorAssumption` (the slots are
`1..n` with `n` at least 1, what `detect_num_workers` returns). As in the
property, the claim is for histories without a crash or a failed fork
(`Trouble = 0`); pids are used again. `SupInv` follows the rolling reload:
`BeforeReload`, `DuringReload` (the new workers are none of the old ones, and
serve when the first old one is told), `WaitedInTurn` (who has been told is an
old worker whose turn to be waited for is to come, so a pid cannot come back
too early) and `Counting`. Theorems: `SupervisorInvariant`, `ReloadIsRolling`
(`SomeoneServes`).

**`Resources_proofs`, on `DbPool`**, from `DbPoolAssumption`, pool on and off, any number of
slots, sockets and requests. `IInv` is `TypeOK /\ SlotsInv /\ HandlesInv /\
TakenInv /\ TxInv`. The three properties lean on each other: a handle keeps its
connection because a used slot has a handle and is not chosen again
(`TakenInv`), a slot comes back because the handles that are out are the
load's and the running request's and those of the request are marked
(`HandlesInv`), and a transaction is not inherited because a connection with an
open one has a handle (`TxInv`), which ends with the request. Theorems:
`TypeCorrect`, `HandlesAreKept` (`HandlesHold`), `TransactionsEnd`
(`TxNotInherited`), `SlotsComeBack` (`NothingLeaks`).

**`Resources_proofs`, on `ColCache`**, from `ColCacheAssumption` and the gates
of the run (`Owned`, `OneView` and not `Ends`, see above: outside them
`CachesSound` is false), for any rows, objects, values and views. `ColInv` is
`ColTypeOK`, caches of live lists only, and `CacheOK`, which has the columns
(`Mirrors`: those of the rows, or of the parent's through the mask) and the
forest an invalidation walks (`Linked`, `Rooted`; `Typed`). With the soundness of
sums alone nothing would say that a change of an object finds every list that shows it,
nor that the walk from parent to view ends where it should. The lemmas say what
`Cascaded`, `Unlinked` and `Invalidated` leave of a cache and that a mask is
the enumeration of its rows. Theorems: `ColumnsInvariant`, `SumsAreTheRows`
(`CachesSound`); neither says anything of two views of one list, of an
assignment to an object whose columns the load wrote, or of a request that ends
with columned lists.

**`Resources_proofs`, on `CsvLoad`**, from `CsvAssumption`, for any file, any
number of threads, all modes and schedules. `CsvInv` is `CsvTypeOK /\
ReservedOK /\ PhaseOK /\ PlacesOK /\ ColumnsMirrorList`. The list is put
together in the end from what each thread has, the columns are written before,
at places counted in advance: `PlacesOK` says that the rows of each thread are at
its places while none has more than were reserved for it. That a place is one
thread's is the arithmetic of `Before` (the places before a chunk are the size
of a disjoint union, so it needs no induction over the pieces). For dataframes
`FrameInv` has a `ReaderOK` for each thread: it is at the start of a row
or at its end, has exactly the rows of its chunk up to there, what lies ahead
is as in the file, and what it reserved is the number of its rows (the ends of
lines and the rows after them correspond). What is by nature an induction over
the threads is a least counterexample (`Smallest`). Theorems:
`LoadInvariant`, `ColumnsAreTheList` (`ColumnsMirrorList`), `FrameIsTheFile`
(`FrameIsFile`).

**`Scopes_proofs`**, from `ScopesAssumption`, about `ScopesSpec`, for any names,
globals and number of slots and any depth of calls and loops. `ScopeInv` has
the types, `Hashed` (the hash leads to a slot of that name or nowhere),
`GlobalsStay` and `FramesKept`. The property compares the caller's view before
a call with the one after its return, which may be many steps and further calls
later. For each call in progress `Below` says that what it noted lies under its
base and keeps its name, and `Kept` that a name its caller could see leads where
it led, or that the first note of it says where; the view of a call that has
made another one is what that one saw (`View`). Theorems: `ScopeInvariant`
and the action property `CallersKeepTheirNames` (`CallerSeesItsOwn`). With the
accelerator beside the walker the property stays with TLC.

**`Flow_proofs`**, from `FlowAssumption` (scalars, containers, the error text
and no value are different things): any program, any depth, any values. `IInv`
is `TypeOK /\ FramesInv /\ ReturnInv /\ ThrowInv /\ JumpInv`. The properties
speak of the top of the stack at the moment something is caught or ends, but a
flag travels through frames long before that, so the invariants speak of every
frame it may come to: no handler lies between a throw and the one it is
heading for (also for exceptions put aside by a `finally`, however many), no
call between a return and its own, no loop between a jump and its own but
inside a `catch` or `finally`, which do spend it. `CatchReceivesTheThrown` is
about the exception raised last: that it may have replaced one in flight, and
that its value may be lost to its text, is what `thrown_over` and `MCValueLost`
show. Of a jump without a loop in its call nothing is claimed. Theorems: `FlowInvariant`, `ReturnEndsOneCall`
(`ReturnsToItsCaller`), `CatchReceivesTheThrown` (`CatchesTheThrown`),
`JumpsKeepTheirLoop` (`JumpsStayInLoop`).

TLC found each inductive invariant to hold on the instances of the runs
before it was proved.

**Only model-checked.** All liveness: fairness and ENABLED are beyond the
prover. That is `NoStarvation` and the liveness half of `ImplementsFifo`, the
completion of awaits and of requests, `Resumes` and `AcceptsAgain`,
`ThreadsComeBack`, and what the `servers` run asks of queues, stops, reloads,
slots and pools. `EnginesAgree`, the one safety property without a theorem:
`Bytecode` evaluates trees with RECURSIVE operators, and agreement on every
tree is an induction over trees. The scopes as the accelerator changes them.
The violations.

## 6. Not modelled

* The front end, the builtins, the HTTP client, the data transformations of
  LINQ, decimals, the WASM backend: sequential functions of their inputs,
  without state over time. With them most of the lines of the repository.
* Of the debugger: `stack`, `vars` and `eval`, which only show state, the
  events it sends, `--debug-port`, which accepts once before the script runs, and
  the file of a breakpoint, which `line_has_breakpoint` does not compare.
* The agent server: no lock at all around the interpreter, see the hazards.
* The Windows and Android variants: other primitives (`SwitchToFiber`, critical
  sections, a load balancer in place of `fork`, a synchronous fallback).
* Handles of tasks after their slot is free, tasks awaited by a foreign
  request, fibers left behind by a request, uncaught throws inside a task,
  handlers of a WebSocket that park: hazards with a note.
* The synchronous calls of the bridge and pipes of bounded capacity.
* Inside civetweb: parsing, TLS, files, CGI, Lua, keep-alive (the servers turn
  it off). Inside the databases' clients: everything but a dead connection.

## 7. Plan

The modules and theorems planned are there; what would come next:

1. The synchronous bridge with its timeout, and the registry of fibers and
   requests together.
2. An abstract specification of the request path (one request at a time, each
   answered once) that `ApiServer` and `CivetPool` together implement.
3. `EnginesAgree` for programs given as functions from positions instead of trees,
   which the prover could reason about.
