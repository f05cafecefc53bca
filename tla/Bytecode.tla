------------------------------ MODULE Bytecode ------------------------------
(***************************************************************************)
(* The two engines that evaluate numeric code: the tree walker             *)
(* (te_walk_expression, interpret_assign, te_stmt_while), which defines    *)
(* the language, and the accelerator of te_bytecode.c, which compiles a    *)
(* node the first time it is evaluated, keeps the program on the node and  *)
(* runs it afterwards whenever its guards hold.                            *)
(*                                                                         *)
(* A program is the node's tree with its names bound to slots: the flat    *)
(* opcodes evaluate that tree left to right on a stack.  The guards say    *)
(* which slot each name must still lead to and what it must hold.          *)
(*                                                                         *)
(* Numbers are naturals.  A double holds them exactly up to Exactly (2^53  *)
(* in the code) and rounds the odd ones above it.  Text stands for what a  *)
(* `+` of strings makes.  Errors of an operator, && and || are left out.   *)
(***************************************************************************)
EXTENDS Scopes

CONSTANTS Ast,          \* the nodes of the script that are evaluated, by name
          Method,       \* [param, body]: int m(int param) { return body; }
          BcCall,       \* TYPEEASY_NO_BCCALL is not set
          Exactly

VARIABLES bc,           \* node->bc
          body,         \* m->bc_body
          cachedVar     \* the slot in p->cached_var of the method's parameter

bvars == <<scope, frames, bc, body, cachedVar>>

Sites == DOMAIN Ast
NotCompiled   == [st |-> "none"]
NotCompilable == [st |-> "no"]
Text == -1

(* made: the slot is the compiler's, no statement of the script declared it. *)
Cell(x, t, n) == [id |-> x, t |-> t, n |-> n, made |-> FALSE]

-----------------------------------------------------------------------------
(* te_num.h: one arithmetic for both engines.                              *)

Double(n) == IF n > Exactly THEN n - (n % 2) ELSE n

BinOp(op, a, b) == CASE op = "add" -> a + b
                     [] op = "lt"  -> IF a < b THEN 1 ELSE 0

RECURSIVE Ids(_), Calls(_)
Ids(e) == CASE e.k = "id"   -> {e.x}
            [] e.k = "call" -> IF e.arg.k = "id" THEN {e.arg.x} ELSE {}
            [] e.k = "asg"  -> {e.x} \cup Ids(e.e)
            [] e.k = "op"   -> Ids(e.l) \cup Ids(e.r)
            [] e.k = "while" -> Ids(e.c) \cup Ids(e.b)
            [] OTHER -> {}
Calls(e) == CASE e.k = "call" -> {e.o}
              [] e.k = "op"   -> Calls(e.l) \cup Calls(e.r)
              [] e.k = "while" -> Calls(e.c) \cup Calls(e.b)
              [] OTHER -> {}

(* i64_eligible: integer names and literals under + are added as integers. *)
RECURSIVE IntegerOnly(_)
IntegerOnly(e) == \/ e.k \in {"num", "id"}
                  \/ e.k = "op" /\ IntegerOnly(e.l) /\ IntegerOnly(e.r)

IsNumber(s, x) == Find(s, x) # 0 /\ Binding(s, x).t = "num"
IsObject(s, x) == Find(s, x) # 0 /\ Binding(s, x).t = "obj"

-----------------------------------------------------------------------------
(* bc_exec: p is the program, vs the slots, th the attribute of `this`.    *)

Value(n, vs) == [v |-> n, vars |-> vs]

Stored(vs, i, n) == IF i \in DOMAIN vs THEN [vs EXCEPT ![i].t = "num", ![i].n = n] ELSE vs

RECURSIVE Exact(_, _), Exec(_, _, _, _)
Exact(e, env) == CASE e.k = "num" -> e.n
                   [] e.k = "id"  -> env[e.x]
                   [] e.k = "op"  -> BinOp(e.op, Exact(e.l, env), Exact(e.r, env))

(* do_add and the rest: the operands from the left, then the operator. *)
BothOperands(p, e, vs, th) ==
    LET Applied(l, r) == Value(Double(BinOp(e.op, l.v, r.v)), r.vars)
        AfterLeft(l)  == Applied(l, Exec(p, e.r, l.vars, th))
    IN  AfterLeft(Exec(p, e.l, vs, th))

(* bc_c_call_method: the argument into the parameter's slot, `this`, and   *)
(* the method's own program in line.                                       *)
InlinedCall(p, e, vs) ==
    LET Inlined(stored) == Exec([p EXCEPT !.at = p.bodyAt], Method.body, stored,
                                stored[p.at[e.o]].n)
    IN  Inlined(Stored(vs, p.par, Exec(p, e.arg, vs, 0).v))

Exec(p, e, vs, th) ==
    CASE e.k = "num"  -> Value(Double(e.n), vs)
      [] e.k = "id"   -> Value(IF p.at[e.x] \in DOMAIN vs /\ vs[p.at[e.x]].t = "num"
                               THEN Double(vs[p.at[e.x]].n) ELSE 0, vs)
      [] e.k = "this" -> Value(Double(th), vs)
      [] e.k = "op"   -> BothOperands(p, e, vs, th)
      [] e.k = "call" -> InlinedCall(p, e, vs)
      [] e.k = "asg"  ->
            LET Into(r) == Value(0, Stored(r.vars, p.at[e.x], r.v)) IN
            IF IntegerOnly(e.e)
            THEN Into(Value(Exact(e.e, [x \in Ids(e.e) |-> vs[p.at[x]].n]), vs))
            ELSE Into(Exec(p, e.e, vs, th))
      [] e.k = "while" ->
            LET Test(c) == IF c.v = 0 THEN c
                           ELSE Exec(p, e, Exec(p, e.b, c.vars, th).vars, th)
            IN  Test(Exec(p, e.c, vs, th))

-----------------------------------------------------------------------------
(* bc_guards_ok: each name still leads, by the hash, to the slot the       *)
(* program was compiled for, and the slot holds what it held.              *)
(* Faulty variant: a slot that is still there will do, whatever its name.  *)
AnySlot(g, s) == g.slot <= Len(s.vars)

SameSlot(g, s) == s.sym[g.x] = g.slot /\ g.slot <= Len(s.vars)
SameKind(g, s) == s.vars[g.slot].t = g.t

GuardsOk(p, s) == \A g \in p.guards : SameSlot(g, s) /\ SameKind(g, s)

Guards(xs, s, t) == {[x |-> x, slot |-> Find(s, x), t |-> t] : x \in xs}

(* bc_get_or_compile_method.  The parameter's slot is the one p->cached_var *)
(* remembers, if a slot of that name is there, or the one its name leads   *)
(* to; outside the method's own frame such a slot is a variable of the     *)
(* caller and the method is not compiled; when there is none it is made.   *)
ParamSlot(s, slot) ==
    IF slot \in DOMAIN s.vars /\ s.vars[slot].id = Method.param THEN slot
    ELSE Find(s, Method.param)

Made(s) == [vars |-> Append(s.vars, [Cell(Method.param, "num", 0) EXCEPT !.made = TRUE]),
            sym  |-> [s.sym EXCEPT ![Method.param] = Len(s.vars) + 1]]

MethodCode(s, slot) ==
    [s |-> s,
     m |-> [par  |-> slot,
            body |-> IF \A x \in Ids(Method.body) : IsNumber(s, x)
                     THEN [st |-> "code", at |-> [x \in Ids(Method.body) |-> Find(s, x)],
                           guards |-> Guards(Ids(Method.body), s, "num")]
                     ELSE NotCompilable]]

CompiledMethod(s, m, inFrame) ==
    LET For(slot) ==
          IF m.body # NotCompiled \/ (slot # 0 /\ ~inFrame) THEN [s |-> s, m |-> m]
          ELSE IF slot # 0 THEN MethodCode(Primed(s, Ids(Method.body)), slot)
          ELSE MethodCode(Primed(Made(s), Ids(Method.body)), Len(s.vars) + 1)
    IN  For(ParamSlot(s, m.par))

(* bc_get_or_compile and bc_get_or_compile_stmt for a node without a        *)
(* program; a node that does not compile is never tried again.             *)
Plain(e, s) == (\A x \in Ids(e) : IsNumber(s, x)) /\ (\A o \in Calls(e) : IsObject(s, o))

Program(e, s, slot, method) ==
    [st |-> "code", par |-> slot,
     at |-> [x \in Ids(e) \cup Calls(e) |-> Find(s, x)],
     bodyAt |-> IF Calls(e) = {} THEN <<>> ELSE method.at,
     guards |-> Guards(Ids(e), s, "num") \cup Guards(Calls(e), s, "obj")
                  \cup (IF Calls(e) = {} THEN {} ELSE method.guards)]

Compiled(e, s, m) ==
    LET Callee(t) == IF Calls(e) # {} /\ Plain(e, t) /\ BcCall
                     THEN CompiledMethod(t, m, FALSE) ELSE [s |-> t, m |-> m]
        Node(c, slot) ==
          IF Plain(e, c.s) /\ (Calls(e) # {} => BcCall /\ c.m.body.st = "code" /\ slot # 0)
          THEN [p |-> Program(e, c.s, slot, c.m.body), s |-> c.s,
                m |-> IF Calls(e) = {} THEN c.m ELSE [c.m EXCEPT !.par = slot]]
          ELSE [p |-> NotCompilable, s |-> c.s, m |-> c.m]
        WithCallee(c) == Node(c, ParamSlot(c.s, c.m.par))
    IN  WithCallee(Callee(Primed(s, Ids(e) \cup Calls(e))))

-----------------------------------------------------------------------------
(* The walker.  w carries the scope, `this`, what is known of the method   *)
(* and whether the accelerator may run the method's body (in the code it   *)
(* may, with TYPEEASY_NO_BC it may not).                                   *)

Walked(n, w) == [v |-> n, w |-> w]

RECURSIVE Walk(_, _)

WalkedOp(e, w) ==
    LET Applied(l, r) == Walked(IF Text \in {l.v, r.v} THEN Text
                                ELSE Double(BinOp(e.op, l.v, r.v)), r.w)
        AfterLeft(l)  == Applied(l, Walk(e.r, l.w))
    IN  AfterLeft(Walk(e.l, w))

(* interpret_call_method: a frame, the argument bound in it, `this`, the   *)
(* body by its program (te_cm_body_bytecode) or by the walker.             *)
WalkedBody(w, c, f, th) ==
    Walked(IF w.fast /\ c.m.body.st = "code" /\ GuardsOk(c.m.body, c.s)
           THEN Exec(c.m.body, Method.body, c.s.vars, th).v
           ELSE Walk(Method.body, [w EXCEPT !.s = c.s, !.this = th]).v,
           [w EXCEPT !.s = Popped(c.s, f), !.m = c.m])

WalkedCall(e, w) ==
    LET Called(s, f, v) ==
          LET Entered(t) == IF w.fast THEN CompiledMethod(t, w.m, TRUE) ELSE [s |-> t, m |-> w.m]
          IN  WalkedBody(w, Entered(Declared(s, f.base, Cell(Method.param, "num", v))),
                         Noted(f, s, Method.param), Binding(s, e.o).n)
        OnObject(s, v) == Called(s, NewFrame(s), v)
        Passed(a) == OnObject(Primed(a.w.s, {e.o}), a.v)
    IN  Passed(Walk(e.arg, w))

Walk(e, w) ==
    CASE e.k = "num"  -> Walked(Double(e.n), w)
      [] e.k = "id"   -> Walked(IF IsNumber(w.s, e.x) THEN Double(Binding(w.s, e.x).n) ELSE Text,
                                [w EXCEPT !.s = Primed(@, {e.x})])
      [] e.k = "this" -> Walked(Double(w.this), w)
      [] e.k = "op"   -> WalkedOp(e, w)
      [] e.k = "call" -> WalkedCall(e, w)
      [] e.k = "asg"  ->
            LET Into(r, xs) == Walked(0, [r.w EXCEPT !.s = [Primed(@, xs) EXCEPT
                                             !.vars[Find(w.s, e.x)].n = r.v]]) IN
            IF IntegerOnly(e.e)
            THEN Into(Walked(Exact(e.e, [x \in Ids(e.e) |-> Binding(w.s, x).n]), w), Ids(e))
            ELSE Into(Walk(e.e, w), {e.x})
      [] e.k = "while" ->
            LET Test(c) == IF c.v = 0 THEN c ELSE Walk(e, Walk(e.b, c.w).w) IN
            Test(Walk(e.c, w))

-----------------------------------------------------------------------------
(* evaluate_expression, te_stmt_while: the node's program if it has one    *)
(* and its guards hold, the walker otherwise.                              *)

Known == [par |-> cachedVar, body |-> body]
Walker(s, m, fast) == [s |-> s, this |-> 0, m |-> m, fast |-> fast]

Ran(e, c) ==
    LET Fast(r) == [v |-> r.v, p |-> c.p, m |-> c.m, s |-> [c.s EXCEPT !.vars = r.vars]]
        Slow(r) == [v |-> r.v, p |-> c.p, m |-> r.w.m, s |-> r.w.s]
    IN  IF c.p.st = "code" /\ GuardsOk(c.p, c.s)
        THEN Fast(Exec(c.p, e, c.s.vars, 0))
        ELSE Slow(Walk(e, Walker(c.s, c.m, TRUE)))

Evaluated(site) ==
    Ran(Ast[site], IF bc[site] = NotCompiled THEN Compiled(Ast[site], scope, Known)
                   ELSE [p |-> bc[site], s |-> scope, m |-> Known])

(* The node alone decides when the names it uses are declared, the objects *)
(* are objects, and what is assigned or passed is a number.                *)
RECURSIVE Assigned(_)
Assigned(e) == CASE e.k = "while" -> Ids(e)
                 [] e.k = "op"    -> Assigned(e.l) \cup Assigned(e.r)
                 [] e.k = "call"  -> Ids(e)
                 [] OTHER -> {}

Ready(site) == LET e == Ast[site] IN
    /\ Len(scope.vars) < MaxSlots
    /\ \A x \in Ids(e) : /\ Find(scope, x) # 0 /\ ~Binding(scope, x).made
                          /\ ~IsObject(scope, x)
    /\ \A x \in Assigned(e) : IsNumber(scope, x)
    /\ \A o \in Calls(e) : IsObject(scope, o)

-----------------------------------------------------------------------------
Script == ScopesInit /\ bc = [site \in Sites |-> NotCompiled]
          /\ body = NotCompiled /\ cachedVar = 0

Evaluate(site) ==
    /\ Ready(site)
    /\ \E r \in {Evaluated(site)} :
          /\ scope' = r.s
          /\ bc' = [bc EXCEPT ![site] = r.p]
          /\ body' = r.m.body /\ cachedVar' = r.m.par
    /\ UNCHANGED frames

(* bc_invalidate_all, which the end of a request calls: every program goes, *)
(* the nodes found not to compile stay marked.                             *)
Invalidated(p) == IF p = NotCompilable THEN p ELSE NotCompiled

EndRequest ==
    /\ ResetVars
    /\ bc' = [site \in Sites |-> Invalidated(bc[site])]
    /\ body' = Invalidated(body)
    /\ UNCHANGED cachedVar

ScopeStep == Run /\ UNCHANGED <<bc, body, cachedVar>>

Next == ScopeStep \/ EndRequest \/ \E site \in Sites : Evaluate(site)

Spec == Script /\ [][Next]_bvars

-----------------------------------------------------------------------------
(***************************************************************************)
(* The accelerator cannot be told from the walker ("stdout byte-identico   *)
(* con y sin TYPEEASY_NO_BC=1", te_bytecode.h:1-16): in whatever scope a   *)
(* node is evaluated, and whatever was compiled, declared, shadowed or     *)
(* unwound since it was first evaluated, the value and the variables the   *)
(* script could see are those the walker alone would leave.                *)
(***************************************************************************)
EnginesAgree ==
    LET Same(r, w) == /\ r.v = w.v
                      /\ \A x \in Names : Find(scope, x) # 0
                                            => Binding(r.s, x) = Binding(w.w.s, x)
    IN  \A site \in Sites :
            Ready(site) => Same(Evaluated(site), Walk(Ast[site], Walker(scope, Known, FALSE)))
=============================================================================
