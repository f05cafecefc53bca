-------------------------------- MODULE Flow --------------------------------
(***************************************************************************)
(* How the tree walker leaves a statement early.  A throw, a return, a     *)
(* break and a continue each set a flag of g_vm, and every construct on    *)
(* the C stack looks at the flags when its inner interpret_ast comes back. *)
(*                                                                         *)
(* stack is that C stack.  The program is not given: each time a block     *)
(* may run a statement it runs any, which is what a program with           *)
(* conditions can do.  A statement that only computes changes no flag and  *)
(* is left out, unless a call is an operand in it.  An exception is named  *)
(* by what was thrown; Error is what the runtime itself throws (a message  *)
(* and no value).                                                          *)
(*                                                                         *)
(* exc, retHome, retDue and breakHome are history: which exception is in   *)
(* flight, which one it replaced in flight, and which try is to catch it,  *)
(* which call the return belongs to, which loop the break belongs to.      *)
(***************************************************************************)
EXTENDS Naturals, Sequences, FiniteSetsExt, SequencesExt

CONSTANTS Scalars,      \* strings and numbers that are thrown
          Containers,   \* maps, lists and objects that are thrown
          Error,        \* a TypeError or an ArithmeticError
          None,
          MaxDepth      \* bound: frames on the C stack

ASSUME FlowAssumption == /\ Scalars \cap Containers = {}
                         /\ Error \notin Scalars \cup Containers
                         /\ None \notin Scalars \cup Containers \cup {Error}

VARIABLES stack,
          thr, msg, val,        \* throw_flag, throw_message, throw_value
          ret, retNode,         \* return_flag, what return_node is
          brk, cont,            \* break_flag, continue_flag
          exc, retHome, retDue, breakHome

throwing == <<thr, msg, val, exc>>
returning == <<ret, retNode, retHome, retDue>>
looping == <<brk, cont, breakHome>>
flowVars == <<stack, throwing, returning, looping>>

Values == Scalars \cup Containers
NoException == [v |-> None, home |-> 0, due |-> 0, first |-> None]

(* The message of an exception: te_var_to_string of what is thrown.  It is *)
(* a text, never the map, list or object itself.                           *)
TextOf(v) == <<"text", v>>

Block(fresh)   == [k |-> "block", fresh |-> fresh]
Loop           == [k |-> "loop"]
MethodFrame(type)   == [k |-> "method", type |-> type]
LambdaFrame(saved)  == [k |-> "lambda", saved |-> saved]
ReturnOf       == [k |-> "return"]
OperandOf      == [k |-> "operand"]
Try(catches, finally) ==
    [k |-> "try", at |-> "body", catches |-> catches, finally |-> finally,
     pending |-> FALSE, saved |-> None, kept |-> NoException]

CallFrames == {"method", "lambda"}
TopFrame == Last(stack)
At(k) == stack # <<>> /\ TopFrame.k = k
Below == Front(stack)
Push(s, frames) == s \o frames

(* The innermost frame of a stack that satisfies Test; 0 when none does.   *)
Innermost(s, Test(_)) == Max({0} \cup {i \in DOMAIN s : Test(s[i])})

CallOf(s) == LET IsCall(f) == f.k \in CallFrames IN Innermost(s, IsCall)
LoopOf(s) == LET IsLoop(f) == f.k = "loop" IN Innermost(s, IsLoop)
HandlerOf(s) == LET Catches(f) == f.k = "try" /\ f.at = "body" /\ f.catches
                IN  Innermost(s, Catches)

FlowInit == /\ stack = <<MethodFrame("dynamic"), Block(TRUE)>>
            /\ thr = FALSE /\ msg = None /\ val = None /\ exc = NoException
            /\ ret = FALSE /\ retNode = "none" /\ retHome = 0 /\ retDue = 0
            /\ brk = FALSE /\ cont = FALSE /\ breakHome = 0

-----------------------------------------------------------------------------
(* interpret_statement_list and the entry of interpret_ast.  The first     *)
(* statement of a block runs without a look at the flags of a loop; the    *)
(* others only when no flag is up.  A statement does nothing under a       *)
(* return or a throw.                                                      *)
MayRun == /\ At("block")
          /\ ~ret /\ ~thr
          /\ TopFrame.fresh \/ (~brk /\ ~cont)

(* The stack while the statement that runs has these frames of its own.    *)
Running(frames) == Push(Append(Below, Block(FALSE)), frames)

(* te_throw_set_message for an error of the runtime, te_stmt_throw for a   *)
(* value; s is the stack where the exception arises.  Neither looks at     *)
(* throw_flag: an exception in flight is replaced.                         *)
Raise(v, s, due) == /\ thr' = TRUE /\ msg' = TextOf(v)
                    /\ val' = IF v = Error THEN None ELSE v
                    /\ exc' = [v |-> v, home |-> HandlerOf(s), due |-> due,
                               first |-> IF thr THEN exc.first ELSE v]

Throw(v) == /\ MayRun
            /\ stack' = Running(<<>>)
            /\ Raise(v, stack, HandlerOf(stack))
            /\ UNCHANGED <<returning, looping>>

(* interpret_return_node: a call is evaluated now, any other expression    *)
(* only when the method has ended; what makes a text is evaluated now too, *)
(* and an error in it is raised, with the return flag up all the same.     *)
Returned(node, s) == /\ ret' = TRUE /\ retNode' = node
                     /\ retHome' = CallOf(s) /\ retDue' = HandlerOf(s)

Return == /\ MayRun
          /\ stack' = Running(<<>>)
          /\ Returned("expression", stack)
          /\ \/ UNCHANGED throwing
             \/ Raise(Error, stack, HandlerOf(stack))
          /\ UNCHANGED looping

(* NK_BREAK and NK_CONTINUE raise a flag wherever they stand: a method can *)
(* break without a loop of its own, and the flag outlives its call.  Such a *)
(* jump, and one out of a finally or a catch while another is under way,   *)
(* is not the jump of one loop.                                            *)
JumpHome == IF brk \/ cont \/ LoopOf(stack) < CallOf(stack) THEN 0 ELSE LoopOf(stack)

Break == /\ MayRun
         /\ brk' = TRUE /\ breakHome' = JumpHome
         /\ stack' = Running(<<>>)
         /\ UNCHANGED <<throwing, returning, cont>>

Continue == /\ MayRun
            /\ cont' = TRUE /\ breakHome' = JumpHome
            /\ stack' = Running(<<>>)
            /\ UNCHANGED <<throwing, returning, brk>>

(* The statements with frames of their own: if and match, the loops, try,  *)
(* a call, a throw or an expression with a call as an operand, and the     *)
(* return of a call.  interpret_call_method clears a return before it      *)
(* calls; a lambda saves it.                                               *)
Callee == {MethodFrame(type) : type \in {"void", "typed", "dynamic"}} \cup {LambdaFrame(ret)}

Enter(frames) == /\ MayRun
                 /\ Len(stack) + Len(frames) <= MaxDepth
                 /\ stack' = Running(frames)
                 /\ UNCHANGED <<throwing, returning, looping>>

If == Enter(<<Block(TRUE)>>)
LoopStatement == Enter(<<Loop>>)
EnterTry == \E catches, finally \in BOOLEAN :
                /\ catches \/ finally
                /\ Enter(<<Try(catches, finally), Block(TRUE)>>)
Call == \E callee \in Callee : Enter(<<callee, Block(TRUE)>>)
OperandCall == \E callee \in Callee : Enter(<<OperandOf, callee, Block(TRUE)>>)
ReturnCall == \E callee \in Callee : Enter(<<ReturnOf, callee, Block(TRUE)>>)

(* te_runtime_fatal: the C stack is unwound to the request.  An operand    *)
(* that returned nothing is fatal too, unless it threw.                    *)
Fatal == /\ MayRun \/ (At("operand") /\ ~thr)
         /\ stack' = <<>>
         /\ UNCHANGED <<throwing, returning, looping>>

EndBlock == /\ At("block")
            /\ stack' = Below
            /\ UNCHANGED <<throwing, returning, looping>>

-----------------------------------------------------------------------------
(* te_stmt_while, interpret_for, interpret_for_c and interpret_for_in after *)
(* a turn and before the next: a break is spent and ends the loop, a        *)
(* continue is spent, a throw and a return end the loop.                    *)
Spent(b, c) == brk' = b /\ cont' = c /\ breakHome' = IF b \/ c THEN breakHome ELSE 0

(* Faulty variant: a throw or a return ends the loop before the flags of   *)
(* the loop are looked at.                                                 *)
LoopBreakLast == /\ At("loop") /\ brk
                 /\ IF thr \/ ret THEN UNCHANGED looping ELSE Spent(FALSE, cont)
                 /\ stack' = Below
                 /\ UNCHANGED <<throwing, returning>>

LoopBreak == /\ At("loop") /\ brk
             /\ Spent(FALSE, cont)
             /\ stack' = Below
             /\ UNCHANGED <<throwing, returning>>

LoopLeft == /\ At("loop") /\ ~brk
            /\ thr \/ ret
            /\ Spent(FALSE, FALSE)
            /\ stack' = Below
            /\ UNCHANGED <<throwing, returning>>

(* The condition is evaluated: it may raise an error, which ends the loop. *)
LoopTest == /\ At("loop") /\ ~brk /\ ~thr /\ ~ret
            /\ Spent(FALSE, FALSE)
            /\ \/ /\ Len(stack) < MaxDepth
                  /\ stack' = Append(stack, Block(TRUE))
                  /\ UNCHANGED throwing
               \/ stack' = Below /\ UNCHANGED throwing
               \/ stack' = Below /\ Raise(Error, stack, HandlerOf(stack))
            /\ UNCHANGED returning

-----------------------------------------------------------------------------
(* te_stmt_try_catch.                                                      *)
AboutToCatch == At("try") /\ TopFrame.at = "body" /\ TopFrame.catches /\ thr

(* What the variable of the catch is bound to: a container as it is, the   *)
(* rest as the text of the message.                                        *)
Bound == IF val \in Containers THEN val ELSE msg

Catch == /\ AboutToCatch
         /\ thr' = FALSE /\ msg' = None /\ val' = None /\ exc' = NoException
         /\ stack' = Push(Below, <<[TopFrame EXCEPT !.at = "catch"], Block(TRUE)>>)
         /\ UNCHANGED <<returning, looping>>

(* An exception in flight is put aside, its message with it.               *)
Finally == /\ At("try") /\ TopFrame.at # "finally" /\ ~AboutToCatch
           /\ TopFrame.finally
           /\ stack' = Push(Below, <<[TopFrame EXCEPT !.at = "finally", !.pending = thr,
                                                      !.saved = msg, !.kept = exc],
                                     Block(TRUE)>>)
           /\ thr' = FALSE /\ msg' = None /\ exc' = NoException
           /\ UNCHANGED <<val, returning, looping>>

(* The exception put aside flies on, unless the finally threw its own.     *)
(* Faulty variant: the message put aside wins over that of the new one.    *)
ResumedAlways == IF TopFrame.pending
                 THEN thr' = TRUE /\ msg' = TopFrame.saved /\ exc' = IF thr THEN exc ELSE TopFrame.kept
                 ELSE UNCHANGED <<thr, msg, exc>>

Resumed == IF TopFrame.pending /\ ~thr
           THEN thr' = TRUE /\ msg' = TopFrame.saved /\ exc' = TopFrame.kept
           ELSE UNCHANGED <<thr, msg, exc>>

EndFinally == /\ At("try") /\ TopFrame.at = "finally"
              /\ Resumed
              /\ stack' = Below
              /\ UNCHANGED <<val, returning, looping>>

EndTry == /\ At("try") /\ TopFrame.at # "finally" /\ ~AboutToCatch
          /\ ~TopFrame.finally
          /\ stack' = Below
          /\ UNCHANGED <<throwing, returning, looping>>

-----------------------------------------------------------------------------
(* A call comes back.  te_cm_invoke: a throw drops the return; a void       *)
(* method must not return and a typed one must; then the return expression  *)
(* is evaluated (te_cm_materialize_return), and it may raise an error or    *)
(* not have the type declared.                                              *)
NoReturn == ret' = FALSE /\ retNode' = "none" /\ retHome' = 0 /\ retDue' = 0

(* Faulty variant: the flag survives a throw.                              *)
DroppedKept == UNCHANGED returning
Dropped == NoReturn

MethodThrew == /\ At("method") /\ thr
               /\ Dropped
               /\ stack' = Below
               /\ UNCHANGED <<throwing, looping>>

TypeError == /\ At("method") /\ ~thr
             /\ \/ TopFrame.type = "void" /\ ret
                \/ TopFrame.type = "typed" /\ (ret => retNode = "expression")
             /\ IF ret THEN NoReturn ELSE UNCHANGED returning
             /\ Raise(Error, Below, HandlerOf(Below))
             /\ stack' = Below
             /\ UNCHANGED looping

Materialize == \/ UNCHANGED throwing
               \/ retNode = "expression" /\ Raise(Error, Below, retDue)

MethodReturns == /\ At("method") /\ ~thr
                 /\ IF ret THEN TopFrame.type # "void" ELSE TopFrame.type # "typed"
                 /\ IF ret THEN Materialize /\ NoReturn ELSE UNCHANGED <<throwing, returning>>
                 /\ stack' = Below
                 /\ UNCHANGED looping

(* call_lambda_exec_body: the flag of the caller is put back first, then a *)
(* return expression is evaluated.                                         *)
LambdaReturns == /\ At("lambda")
                 /\ ret' = TopFrame.saved /\ retNode' = "none" /\ retHome' = 0 /\ retDue' = 0
                 /\ IF ret THEN Materialize ELSE UNCHANGED throwing
                 /\ stack' = Below
                 /\ UNCHANGED looping

(* eval_call and te_ev_call: the statement goes on with what __ret__ holds, *)
(* also when the call threw.  A throw then throws it; an arithmetic        *)
(* operator may raise its own error.                                       *)
OperandReturned == /\ At("operand")
                   /\ \/ UNCHANGED throwing
                      \/ \E v \in Values \cup {Error} : Raise(v, Below, HandlerOf(Below))
                   /\ stack' = Below
                   /\ UNCHANGED <<returning, looping>>

(* The end of interpret_return_node: the flag goes up whatever the call did. *)
ReturnCalled == /\ At("return")
                /\ Returned("call", Below)
                /\ stack' = Below
                /\ UNCHANGED <<throwing, looping>>

(* runtime_reset_vars_to_initial_state between two requests.               *)
NextRequest == /\ stack = <<>>
               /\ stack' = <<MethodFrame("dynamic"), Block(TRUE)>>
               /\ thr' = FALSE /\ exc' = NoException /\ UNCHANGED <<msg, val>>
               /\ ret' = FALSE /\ retNode' = "none" /\ retHome' = 0 /\ retDue' = 0
               /\ brk' = FALSE /\ cont' = FALSE /\ breakHome' = 0

FlowNext == \/ \E v \in Values \cup {Error} : Throw(v)
            \/ Return \/ Break \/ Continue \/ If \/ LoopStatement \/ EnterTry
            \/ Call \/ OperandCall \/ ReturnCall
            \/ EndBlock \/ LoopBreak \/ LoopLeft \/ LoopTest
            \/ Catch \/ Finally \/ EndFinally \/ EndTry
            \/ MethodThrew \/ TypeError \/ MethodReturns \/ LambdaReturns
            \/ OperandReturned \/ ReturnCalled
            \/ Fatal \/ NextRequest

FlowSpec == FlowInit /\ [][FlowNext]_flowVars

-----------------------------------------------------------------------------
(* A catch receives the exception that was raised last, never one that was *)
(* caught or put aside before, and it is the innermost try around the      *)
(* throw whose body was running: what a finally threw and caught, a call   *)
(* or a return in between do not change that (te_stmt_try_catch,           *)
(* te_throw_set_message).  A string or a number arrives as its text; a     *)
(* container as itself or, when a finally took the value away, its text.   *)
CatchesTheThrown == AboutToCatch =>
                      /\ exc.home = Len(stack)
                      /\ Bound \in {TextOf(exc.v)} \cup ({exc.v} \cap Containers)

(* return_flag is up only inside the call that returns: it never makes the *)
(* caller return, whatever was thrown, caught or called on the way.        *)
ReturnsToItsCaller == ret /\ stack # <<>> => retHome = CallOf(stack)

(* A break or a continue written in a loop of its call is under way while  *)
(* that loop runs, and the next loop to come back is that loop: no other   *)
(* one spends it (the checks of interpret_for and of its kin).  The one    *)
(* exception is a catch or a finally entered under it: a loop in there     *)
(* spends the jump of the loop outside (te_stmt_try_catch puts only the    *)
(* flag of a throw aside).                                                 *)
Interrupted(i) == \E j \in i + 1 .. Len(stack) :
                     stack[j].k = "try" /\ stack[j].at \in {"catch", "finally"}

JumpsStayInLoop == (brk \/ cont) /\ stack # <<>> =>
                      \/ breakHome = 0
                      \/ breakHome = LoopOf(stack)
                      \/ breakHome < LoopOf(stack) /\ Interrupted(breakHome)

-----------------------------------------------------------------------------
(* What docs/SPEC.md says of exceptions.                                   *)

(* [ERR-1] "catch (e) recibe el valor", "finally se ejecuta siempre": when  *)
(* the block of a catch or a finally is to run, no flag keeps its           *)
(* statements from running.                                                 *)
Starting(at) == /\ At("block") /\ TopFrame.fresh /\ Len(stack) > 1
                /\ stack[Len(stack) - 1].k = "try" /\ stack[Len(stack) - 1].at = at

HandlersRun == Starting("catch") \/ Starting("finally") => ~ret /\ ~brk /\ ~cont

(* [ERR-1] a throw in a function "se propaga al try que la llamo", [NUM-5]  *)
(* "el resto de la expresion" is aborted: what arrives at a catch is the   *)
(* exception that was thrown, not one raised while it was in flight.       *)
CatchesTheFirst == AboutToCatch => exc.v = exc.first

(* [ERR-4] the catch receives the value of a map, a list or an object that *)
(* was thrown.  A finally that throws and catches something of its own      *)
(* clears throw_value, of which te_stmt_try_catch keeps no copy             *)
(* (MCValueLost.cfg refutes the property).                                  *)
CatchesTheValue == AboutToCatch /\ exc.v \in Containers => Bound = exc.v

(* [NUM-5] a division by zero is an error "catcheable": by the try whose   *)
(* body holds the expression.  That of a return is evaluated after the try  *)
(* has ended (MCFlowLate.cfg refutes the property).                         *)
CaughtWhereWritten == thr => exc.home = exc.due
=============================================================================
