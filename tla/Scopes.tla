------------------------------- MODULE Scopes -------------------------------
(***************************************************************************)
(* The variables of a running script (ast.c): one flat array vars[] for    *)
(* every scope, a hash from names to slots beside it, and a chain of       *)
(* frames on the C stack that say which part of the array a call owns and  *)
(* which names it shadowed.  Nothing in the array says to which scope a    *)
(* slot belongs: a call ends by cutting the array at its base and pointing *)
(* the hash back at the slots it had shadowed.                             *)
(*                                                                         *)
(* A slot is a cell with the name id, the type tag t and the value n.  The *)
(* hash is a function from names to slots, 0 for a name it does not hold.  *)
(* `this` and __ret__ are registers outside the array and are left out.    *)
(***************************************************************************)
EXTENDS Integers, Sequences, SequencesExt

CONSTANTS Names,        \* the names the script declares
          Cells,        \* the cells a declaration stores
          Globals,      \* the slots the script's load left behind, in order
          MaxSlots,     \* MAX_VARS, 4096 in the code
          MaxFrames     \* bound: calls in progress

(* The load declares the globals at base 0, where a name that is declared  *)
(* twice keeps its slot.                                                   *)
ASSUME ScopesAssumption ==
    /\ \A c \in Cells : c.id \in Names
    /\ Globals \in Seq(ToSet(Globals))
    /\ \A i \in 1 .. Len(Globals) : Globals[i].id \in Names
    /\ \A i, j \in 1 .. Len(Globals) : Globals[i].id = Globals[j].id => i = j
    /\ MaxSlots \in Nat /\ Len(Globals) < MaxSlots
    /\ MaxFrames \in Nat

VARIABLES scope,        \* [vars, sym]: vars[0..var_count) and the hash
          frames        \* the chain of TeFrame, the innermost last

-----------------------------------------------------------------------------
(* Lookup: the hash first; a name it does not hold is searched from slot 0 *)
(* up, and the hash remembers what was found.                              *)

Find(s, x) == IF s.sym[x] \in 1 .. Len(s.vars) THEN s.sym[x]
              ELSE SelectInSeq(s.vars, LAMBDA c : c.id = x)

Primed(s, xs) == [s EXCEPT !.sym = [x \in Names |-> IF x \in xs THEN Find(s, x) ELSE @[x]]]

Binding(s, x) == s.vars[Find(s, x)]

Base(fs) == IF fs = <<>> THEN Len(Globals) ELSE Last(fs).base

(* te_sym_reset_to: the hash built again from the slots.                   *)
Indexed(vars) == [x \in Names |-> SelectLastInSeq(vars, LAMBDA c : c.id = x)]

(* te_decl_slot: a name of this scope keeps its slot; a name of an outer   *)
(* scope, or a new one, gets a slot at the end.                            *)
Declared(s, base, c) ==
    LET i == Find(s, c.id) IN
    IF i > base THEN [Primed(s, {c.id}) EXCEPT !.vars[i] = c]
    ELSE [vars |-> Append(s.vars, c), sym |-> [s.sym EXCEPT ![c.id] = Len(s.vars) + 1]]

(* te_frame_note_shadow: the frame remembers the outer slot it hides.      *)
Noted(f, s, x) ==
    LET i == Find(s, x) IN
    IF i \in 1 .. f.base /\ \A k \in DOMAIN f.shadows : f.shadows[k].slot # i
    THEN [f EXCEPT !.shadows = Append(@, [name |-> x, slot |-> i])] ELSE f

(* te_scope_unwind_to: the slots past the mark go, with their hash entries. *)
Unwound(s, mark) ==
    [vars |-> SubSeq(s.vars, 1, mark),
     sym  |-> [x \in Names |-> IF s.sym[x] > mark THEN 0 ELSE s.sym[x]]]

NewFrame(s) == [base |-> Len(s.vars), shadows |-> <<>>, marks |-> <<>>,
                seen |-> [x \in Names |-> Find(s, x)]]

(* Faulty variant: the names are put back in the order they were noted. *)
RestoredForward(sym, shadows) ==
    [x \in Names |-> LET k == SelectLastInSeq(shadows, LAMBDA e : e.name = x)
                     IN  IF k = 0 THEN sym[x] ELSE shadows[k].slot]

(* te_frame_pop: the call's slots die, then the shadowed names are put     *)
(* back from the last note to the first, so that the first one counts.     *)
Restored(sym, shadows) ==
    [x \in Names |-> LET k == SelectInSeq(shadows, LAMBDA e : e.name = x)
                     IN  IF k = 0 THEN sym[x] ELSE shadows[k].slot]

Popped(s, f) ==
    LET u == Unwound(s, f.base) IN [u EXCEPT !.sym = Restored(@, f.shadows)]

-----------------------------------------------------------------------------
ScopesInit ==
    /\ scope = [vars |-> Globals, sym |-> Indexed(Globals)]
    /\ frames = <<>>

Top == Last(frames)
WithTop(f) == Front(frames) \o <<f>>

(* `let x = c`: in a call the frame notes what it hides. *)
Declare(c) ==
    /\ Len(scope.vars) < MaxSlots
    /\ scope' = Declared(scope, Base(frames), c)
    /\ frames' = IF frames = <<>> THEN frames ELSE WithTop(Noted(Top, scope, c.id))

(* call_lambda_impl and interpret_call_method_impl: a frame, then the      *)
(* parameter bound in it.                                                  *)
CallFunction(c) ==
    /\ Len(frames) < MaxFrames /\ Len(scope.vars) < MaxSlots
    /\ LET f == NewFrame(scope) IN
       /\ scope' = Declared(scope, f.base, c)
       /\ frames' = Append(frames, Noted(f, scope, c.id))

ReturnFromCall ==
    /\ frames # <<>>
    /\ scope' = Popped(scope, Top)
    /\ frames' = Front(frames)

(* A loop of the function: each iteration unwinds to the mark taken before *)
(* the first; leaving a `while` unwinds nothing.                           *)
EnterLoop ==
    /\ frames # <<>> /\ Top.marks = <<>>
    /\ frames' = WithTop([Top EXCEPT !.marks = <<Len(scope.vars)>>])
    /\ UNCHANGED scope

NextIteration ==
    /\ frames # <<>> /\ Top.marks # <<>>
    /\ Len(scope.vars) > Last(Top.marks)
    /\ scope' = Unwound(scope, Last(Top.marks))
    /\ UNCHANGED frames

LeaveLoop ==
    /\ frames # <<>> /\ Top.marks # <<>>
    /\ frames' = WithTop([Top EXCEPT !.marks = <<>>])
    /\ UNCHANGED scope

(* runtime_reset_vars_to_initial_state: the request is over, by its return *)
(* or by a fatal error that jumped over every te_frame_pop; the hash is    *)
(* built again from the globals.                                           *)
ResetVars ==
    /\ frames # <<>> \/ Len(scope.vars) > Len(Globals)
    /\ scope' = LET kept == SubSeq(scope.vars, 1, Len(Globals))
                IN  [vars |-> kept, sym |-> Indexed(kept)]
    /\ frames' = <<>>

(* find_variable: the hash remembers what a search of the array found. *)
Read(x) == scope' = Primed(scope, {x}) /\ UNCHANGED frames

(* te_assign_value: the slot the name leads to, or a new one at the end.   *)
Assign(c) ==
    /\ LET i == Find(scope, c.id) IN
       \/ i # 0 /\ scope' = [Primed(scope, {c.id}) EXCEPT !.vars[i] = c]
       \/ i = 0 /\ Len(scope.vars) < MaxSlots /\ scope' = Declared(scope, Base(frames), c)
    /\ UNCHANGED frames

Run == \/ \E c \in Cells : Declare(c) \/ Assign(c) \/ CallFunction(c)
       \/ \E x \in Names : Read(x)
       \/ ReturnFromCall \/ EnterLoop \/ NextIteration \/ LeaveLoop

ScopesNext == Run \/ ResetVars

ScopesSpec == ScopesInit /\ [][ScopesNext]_<<scope, frames>>

-----------------------------------------------------------------------------
(***************************************************************************)
(* A call leaves the caller's names alone: when it returns, every name the *)
(* caller could see leads to the slot it led to when the call was made,    *)
(* whatever the function declared, in loops or outside, and whatever it    *)
(* called (the comment above te_frame_push tells of the statement that     *)
(* updated no row because a callee had declared `id`).                     *)
(***************************************************************************)
CallerSeesItsOwn ==
    [][frames # <<>> /\ frames' = Front(frames) /\ Len(scope'.vars) = Top.base
          => \A x \in Names : Top.seen[x] # 0 => Find(scope', x) = Top.seen[x]]_<<scope, frames>>
=============================================================================
