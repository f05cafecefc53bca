------------------------------ MODULE Debugger ------------------------------
(***************************************************************************)
(* The debugger of a server process (src/src/debugger.c, attach mode): a   *)
(* thread accepts one adapter at a time and makes the handshake, and the   *)
(* thread of the request that runs reads the commands of the adapter from  *)
(* the same socket, at each statement and while it is stopped.  Requests   *)
(* run one at a time.  A program is not given: it may execute any line,    *)
(* call, return and loop.                                                  *)
(*                                                                         *)
(* wire holds the commands that were sent and not read, in the socket or   *)
(* in rx.  What only shows state (stack, vars, eval) changes nothing and   *)
(* is left out.  asked is history: the step under way, the depth of the    *)
(* program where it was asked for and the frames that were counted there.  *)
(***************************************************************************)
EXTENDS Naturals, SequencesExt

CONSTANTS Lines,      \* lines with a statement
          NoLine,
          MaxFrames,  \* MAX_FRAMES
          Quiet,      \* TRUE: no statement runs during a handshake
          Marked,     \* bound: lines that may have a breakpoint
          MaxDepth,   \* bound: calls of the program
          MaxWire     \* bound: commands on their way

ASSUME DebuggerAssumption == /\ NoLine \notin Lines /\ Marked \subseteq Lines
                             /\ MaxFrames \in Nat \ {0}

VARIABLES queued,     \* a connection waits in the backlog
          peer,       \* the other end of client_fd: none, open, closed
          started,    \* the adapter has sent start
          wire,
          enabled,    \* debug_enabled
          acceptor,   \* accept, handshake, watch
          runner,     \* idle, running, stopped
          depth,      \* the methods of the request that are under way
          fns,        \* for each fn or lambda under way, the depth where it was called
          bps,        \* bp_lines
          frame_top, step, step_depth, last_line, last_stop_line, armed,
          asked

adapter == <<queued, peer, started>>
stepping == <<step, step_depth, asked>>
dedup == <<last_line, last_stop_line, armed>>
program == <<runner, depth, fns, frame_top>>
debugVars == <<adapter, wire, enabled, acceptor, program, bps, stepping, dedup>>

NotAsked == [step |-> "run", depth |-> 0, fns |-> 0, counted |-> 0]
Steps == {"over", "in", "out"}
Resuming == {"continue"} \cup Steps
Cmd(c) == [cmd |-> c, lines |-> {}]
SetBreakpoints(lines) == [cmd |-> "set_breakpoints", lines |-> lines]

Messages == {SetBreakpoints(lines) : lines \in SUBSET Marked}
            \cup {Cmd(c) : c \in {"start", "pause"} \cup Resuming}

DebugInit == /\ queued = FALSE /\ peer = "none" /\ started = FALSE /\ wire = <<>>
             /\ enabled = FALSE /\ acceptor = "accept"
             /\ runner = "idle" /\ depth = 0 /\ fns = <<>> /\ frame_top = 0
             /\ bps = {} /\ step = "run" /\ step_depth = 0 /\ asked = NotAsked
             /\ last_line = NoLine /\ last_stop_line = NoLine /\ armed = TRUE

-----------------------------------------------------------------------------
(* The adapter: it connects when it has no connection, sends breakpoints    *)
(* at any time, start once, pause while the program runs, one command to    *)
(* resume it when it is stopped, and it hangs up with or without saying so. *)
Connects == /\ ~queued /\ peer # "open"
            /\ queued' = TRUE
            /\ UNCHANGED <<peer, started, wire, enabled, acceptor, program, bps, stepping, dedup>>

Told == \E i \in DOMAIN wire : wire[i].cmd \in Resuming

Sends(m) == /\ peer = "open" /\ Len(wire) < MaxWire
            /\ CASE m.cmd = "start"        -> ~started
                 [] m.cmd = "pause"        -> started /\ runner # "stopped"
                 [] m.cmd \in Resuming     -> runner = "stopped" /\ ~Told
                 [] OTHER                  -> TRUE
            /\ wire' = Append(wire, m)
            /\ started' = (started \/ m.cmd = "start")
            /\ UNCHANGED <<queued, peer, enabled, acceptor, program, bps, stepping, dedup>>

HangsUp == /\ peer = "open"
           /\ peer' = "closed"
           /\ wire' \in {wire, Append(wire, Cmd("disconnect"))}
           /\ UNCHANGED <<queued, started, enabled, acceptor, program, bps, stepping, dedup>>

-----------------------------------------------------------------------------
(* dbg_acceptor_thread.                                                    *)
Accept == /\ acceptor = "accept" /\ queued
          /\ queued' = FALSE /\ peer' = "open" /\ started' = FALSE /\ wire' = <<>>
          /\ enabled' = TRUE
          /\ frame_top' = 0 /\ bps' = {} /\ step' = "run" /\ asked' = NotAsked
          /\ armed' = TRUE /\ last_line' = NoLine
          /\ acceptor' = "handshake"
          /\ UNCHANGED <<runner, depth, fns, step_depth, last_stop_line>>

(* One command of the handshake; at the end of the stream it gives up.     *)
Configures ==
    /\ acceptor = "handshake"
    /\ \/ /\ wire # <<>>
          /\ wire' = Tail(wire)
          /\ bps' = IF Head(wire).cmd = "set_breakpoints" THEN Head(wire).lines ELSE bps
          /\ step' = IF Head(wire).cmd = "start" THEN "run" ELSE step
          /\ enabled' = (enabled /\ Head(wire).cmd # "disconnect")
          /\ acceptor' = IF Head(wire).cmd \in {"start", "disconnect"} THEN "watch" ELSE acceptor
       \/ /\ wire = <<>> /\ peer = "closed"
          /\ acceptor' = "watch"
          /\ UNCHANGED <<wire, bps, step, enabled>>
    /\ UNCHANGED <<adapter, program, step_depth, asked, dedup>>

(* The second that passes between two looks at debug_enabled.              *)
Watch == /\ acceptor = "watch" /\ ~enabled
         /\ acceptor' = "accept" /\ peer' = "none"
         /\ UNCHANGED <<queued, started, wire, enabled, program, bps, stepping, dedup>>

-----------------------------------------------------------------------------
(* debugger_push_frame; debugger_pop_frame, where a step out becomes a step *)
(* over in the caller.                                                      *)
Pushed == frame_top' = IF frame_top < MaxFrames THEN frame_top + 1 ELSE frame_top

(* Faulty variant: the depth of the step stays that of the callee.         *)
PoppedDeep ==
    LET top == IF frame_top > 0 THEN frame_top - 1 ELSE 0
        out == enabled /\ step = "out" /\ top < step_depth
    IN  /\ frame_top' = top
        /\ step' = IF out THEN "over" ELSE step
        /\ UNCHANGED step_depth

Popped ==
    LET top == IF frame_top > 0 THEN frame_top - 1 ELSE 0
        out == enabled /\ step = "out" /\ top < step_depth
    IN  /\ frame_top' = top
        /\ step' = IF out THEN "over" ELSE step
        /\ step_depth' = IF out THEN top ELSE step_depth

RequestBegins == /\ runner = "idle"
                 /\ runner' = "running" /\ depth' = 1 /\ Pushed
                 /\ UNCHANGED <<adapter, wire, enabled, acceptor, fns, bps, stepping, dedup>>

Innermost == depth + Len(fns)   \* how deep the statement that runs is
InFn == fns # <<>> /\ Last(fns) = depth

(* A method or the endpoint: the call pushes a frame, its end pops one.     *)
Calls == /\ runner = "running" /\ Innermost < MaxDepth
         /\ depth' = depth + 1 /\ Pushed
         /\ UNCHANGED <<adapter, wire, enabled, acceptor, runner, fns, bps, stepping, dedup>>

Returns == /\ runner = "running" /\ ~InFn
           /\ depth' = depth - 1 /\ Popped
           /\ IF depth = 1 THEN runner' = "idle" /\ asked' = NotAsked ELSE UNCHANGED <<runner, asked>>
           /\ UNCHANGED <<adapter, wire, enabled, acceptor, fns, bps, dedup>>

(* An fn, a lambda or a global function: no frame is pushed, and the        *)
(* statements of the body go through debugger_on_statement like any other.  *)
CallsFn == /\ runner = "running" /\ Innermost < MaxDepth
           /\ fns' = Append(fns, depth)
           /\ UNCHANGED <<adapter, wire, enabled, acceptor, runner, depth, frame_top, bps, stepping, dedup>>

ReturnsFn == /\ runner = "running" /\ InFn
             /\ fns' = Front(fns)
             /\ UNCHANGED <<adapter, wire, enabled, acceptor, runner, depth, frame_top, bps, stepping, dedup>>

(* A fatal error jumps to the request: no frame is popped.                 *)
Fails == /\ runner = "running"
         /\ runner' = "idle" /\ depth' = 0 /\ fns' = <<>> /\ asked' = NotAsked
         /\ UNCHANGED <<adapter, wire, enabled, acceptor, frame_top, bps, step, step_depth, dedup>>

(* debugger_on_loop_iteration.                                             *)
Iterates == /\ runner = "running" /\ enabled
            /\ last_line' = NoLine /\ last_stop_line' = NoLine /\ armed' = TRUE
            /\ UNCHANGED <<adapter, wire, enabled, acceptor, program, bps, stepping>>

-----------------------------------------------------------------------------
(* drain_pending_commands: what the debugger is after all commands sent so  *)
(* far, the last breakpoints and a pause; the other commands mean something *)
(* only while the program is stopped.                                       *)
Sent(c) == {i \in DOMAIN wire : wire[i].cmd = c}
Paused == Sent("pause") # {}

Drained == [bps |-> IF Sent("set_breakpoints") = {} THEN bps
                    ELSE wire[Max(Sent("set_breakpoints"))].lines,
            step |-> IF Paused THEN "in" ELSE step,
            step_depth |-> IF Paused THEN frame_top ELSE step_depth,
            asked |-> IF Paused THEN NotAsked ELSE asked]

(* Whether the statement at a line stops, with the state s drained.        *)
Rearmed(line) == armed \/ line # last_stop_line
Moved(s, line) == line # last_line \/ frame_top # s.step_depth
StopsAt(s, line) ==
    IF line \in s.bps THEN Rearmed(line)
    ELSE /\ s.step \in {"in", "over"}
         /\ s.step = "over" => frame_top <= s.step_depth
         /\ Moved(s, line)

(* Faulty variant: nothing to read is taken for nothing pending.           *)
StillAttachedKept == TRUE

StillAttached == peer = "open"

(* debugger_on_statement.                                                  *)
Statement(line) ==
    /\ runner = "running" /\ enabled
    /\ Quiet => acceptor # "handshake"
    /\ wire' = <<>>
    /\ enabled' = StillAttached
    /\ bps' = Drained.bps /\ step_depth' = Drained.step_depth
    /\ IF enabled' /\ StopsAt(Drained, line)
       THEN /\ runner' = "stopped" /\ step' = "run" /\ asked' = NotAsked
            /\ last_stop_line' = line /\ armed' = FALSE
       ELSE /\ step' = Drained.step /\ asked' = Drained.asked
            /\ armed' = IF enabled' THEN Rearmed(line) ELSE armed
            /\ UNCHANGED <<runner, last_stop_line>>
    /\ last_line' = IF enabled' THEN line ELSE last_line
    /\ UNCHANGED <<adapter, acceptor, depth, fns, frame_top>>

(* Faulty variant: step_out is not among the commands that end the wait.   *)
EndsWaitButOut(m) == m.cmd \in {"continue", "over", "in", "disconnect"}

(* wait_for_resume: one command, or the end of the stream.                 *)
EndsWait(m) == m.cmd \in Resuming \cup {"disconnect"}

Obey(m) ==
    /\ runner' = IF EndsWait(m) THEN "running" ELSE "stopped"
    /\ bps' = IF m.cmd = "set_breakpoints" THEN m.lines ELSE bps
    /\ enabled' = (m.cmd # "disconnect")
    /\ IF m.cmd \in Steps
       THEN /\ step' = m.cmd /\ step_depth' = frame_top
            /\ asked' = [step |-> m.cmd, depth |-> depth, fns |-> Len(fns), counted |-> frame_top]
       ELSE UNCHANGED stepping

WaitForResume ==
    /\ runner = "stopped"
    /\ \/ wire # <<>> /\ wire' = Tail(wire) /\ Obey(Head(wire))
       \/ /\ wire = <<>> /\ peer = "closed"
          /\ runner' = "running" /\ enabled' = FALSE
          /\ UNCHANGED <<wire, bps, stepping>>
    /\ UNCHANGED <<adapter, acceptor, depth, fns, frame_top, dedup>>

-----------------------------------------------------------------------------
Adapter == Connects \/ HangsUp \/ \E m \in Messages : Sends(m)
Acceptor == Accept \/ Configures \/ Watch
Runner == \/ RequestBegins \/ Calls \/ Returns \/ CallsFn \/ ReturnsFn \/ Fails \/ Iterates
          \/ WaitForResume \/ \E line \in Lines : Statement(line)

DebugNext == Adapter \/ Acceptor \/ Runner

(* Threads go on, requests come and execute statements now and then; the    *)
(* adapter owes nothing, and a handler may run as long as it likes.         *)
Traffic == WF_debugVars(RequestBegins) /\ SF_debugVars(\E line \in Lines : Statement(line))

DebugFairness == WF_debugVars(Acceptor) /\ WF_debugVars(WaitForResume) /\ Traffic

DebugSpec == DebugInit /\ [][DebugNext]_debugVars /\ DebugFairness

-----------------------------------------------------------------------------
(* A step over does not stop in a method that the statement calls, directly *)
(* or through an fn, and a step out stops in the calling method or above,   *)
(* but at a breakpoint, although what the debugger compares is frame_top,   *)
(* which a fatal error leaves behind (debugger_push_frame,                  *)
(* debugger_pop_frame).  Frames past MAX_FRAMES are not counted and end the *)
(* promise; fns and lambdas are not part of it: see StepsOverCalls.         *)
Deepest == IF asked.step = "over" THEN asked.depth ELSE asked.depth - 1
Counted == frame_top + asked.depth = asked.counted + depth

StopsForStep == /\ runner = "running" /\ runner' = "stopped"
                /\ asked.step \in {"over", "out"}
                /\ last_line' \notin bps'
                /\ ~Paused
                /\ Counted

StepsStayAbove == [][StopsForStep => depth <= Deepest]_debugVars

(* A step over stops at the next line, not in what the statement calls,     *)
(* "Step Over (siguiente linea)" against "Step Into" (README.md:342-343),   *)
(* "next -- step over" (src/src/debugger.c:12), fns and lambdas included.   *)
StepsOverCalls ==
    [][StopsForStep /\ asked.step = "over" => Innermost <= asked.depth + asked.fns]_debugVars

(* A stopped request goes on after the adapter has told it to, and after    *)
(* the adapter has hung up or died: it holds the lock of the server         *)
(* (wait_for_resume).                                                       *)
Resumes == runner = "stopped" /\ (Told \/ peer = "closed") ~> runner # "stopped"

(* "Reconnect-friendly: when the client disconnects, the thread re-arms"    *)
(* (src/src/debugger.h:19): an adapter that connects is served.  Only a     *)
(* request can notice that the one before has gone, so it takes traffic.    *)
AcceptsAgain == queued ~> ~queued
=============================================================================
