--------------------------- MODULE Scopes_proofs ---------------------------
(***************************************************************************)
(* A call leaves its caller's names alone, for any names and globals, any  *)
(* number of slots and any depth of calls and loops.                       *)
(*                                                                         *)
(* The hash may know less than the array, never more: what it holds is a   *)
(* slot of the name.  A frame holds what its end needs: a name its caller  *)
(* could see still leads where it led, or the first note of it says where. *)
(***************************************************************************)
EXTENDS Scopes, SequenceTheorems, WellFoundedInduction, TLAPS

Slot == Cells \cup ToSet(Globals)
Note == [name : Names, slot : Nat]
Scope == [vars : Seq(Slot), sym : [Names -> Nat]]
CallFrame == [base : Nat, shadows : Seq(Note), marks : Seq(Nat), seen : [Names -> Nat]]

(* What the hash holds is a slot of that name. *)
Hashed(s) == \A x \in Names : /\ s.sym[x] <= Len(s.vars)
                              /\ s.sym[x] # 0 => s.vars[s.sym[x]].id = x

(* What a frame remembers lies below it: the slots the caller's names led   *)
(* to, and those that were noted; its marks lie above.                      *)
Below(f, s) ==
    /\ f.base <= Len(s.vars)
    /\ \A x \in Names :
           /\ f.seen[x] <= f.base
           /\ IF f.seen[x] = 0 THEN \A i \in 1 .. f.base : s.vars[i].id # x
                               ELSE s.vars[f.seen[x]].id = x
    /\ \A k \in 1 .. Len(f.shadows) : /\ f.shadows[k].slot \in 1 .. f.base
                                      /\ s.vars[f.shadows[k].slot].id = f.shadows[k].name
    /\ \A k \in 1 .. Len(f.marks) : f.marks[k] >= f.base

Noting(f, x) == SelectInSeq(f.shadows, LAMBDA e : e.name = x)

(* A name the caller could see leads where it led, or the first note of it  *)
(* says where.                                                              *)
Kept(f, view) ==
    \A x \in Names : f.seen[x] # 0 =>
        IF Noting(f, x) = 0 THEN view[x] = f.seen[x]
                            ELSE f.shadows[Noting(f, x)].slot = f.seen[x]

(* Where the names of call k lead: now, or when it made the next call.      *)
View(k) == IF k = Len(frames) THEN [x \in Names |-> Find(scope, x)]
                              ELSE frames[k + 1].seen

ScopeTypeOK == scope \in Scope /\ frames \in Seq(CallFrame)

FramesKept ==
    \A k \in 1 .. Len(frames) :
        /\ Below(frames[k], scope) /\ Kept(frames[k], View(k))
        /\ k < Len(frames) => frames[k].base <= frames[k + 1].base

(* Slots up to n keep their names. *)
SameNames(s, t, n) ==
    /\ n <= Len(s.vars) /\ n <= Len(t.vars)
    /\ \A i \in 1 .. n : t.vars[i].id = s.vars[i].id

(* The globals lie at the bottom, below every call. *)
GlobalsStay ==
    /\ SameNames([vars |-> Globals], scope, Len(Globals))
    /\ \A k \in 1 .. Len(frames) : Len(Globals) <= frames[k].base

ScopeInv == ScopeTypeOK /\ Hashed(scope) /\ GlobalsStay /\ FramesKept

-----------------------------------------------------------------------------
LEMMA Smallest ==
    ASSUME NEW S \in SUBSET Nat, S # {}
    PROVE  Min(S) \in S /\ \A y \in S : Min(S) <= y
  <1>1. PICK x \in S : \A y \in S : ~ (<<y, x>> \in OpToRel(<, Nat))
    BY WFMin, NatLessThanWellFounded, Zenon
  <1>2. \A y \in S : ~ (y < x)
    BY <1>1, Zenon DEF OpToRel
  <1>3. \A y \in S : x <= y
    BY <1>2
  <1> QED
    BY <1>3, Zenon DEF Min

LEMMA Largest ==
    ASSUME NEW n \in Nat, NEW S \in SUBSET (1 .. n), S # {}
    PROVE  Max(S) \in S /\ \A y \in S : y <= Max(S)
  <1> DEFINE T == {n - y : y \in S}
  <1>1. T \in SUBSET Nat /\ T # {}
    <2>1. \A y \in S : y \in 1 .. n /\ n - y \in Nat
      OBVIOUS
    <2> QED
      BY <2>1, Zenon
  <1>2. PICK m \in T : \A z \in T : ~ (<<z, m>> \in OpToRel(<, Nat))
    BY <1>1, WFMin, NatLessThanWellFounded, Zenon
  <1>3. \A z \in T : ~ (z < m)
    BY <1>1, <1>2, Zenon DEF OpToRel
  <1>4. PICK x \in S : m = n - x
    OBVIOUS
  <1>5. ASSUME NEW y \in S PROVE x >= y
    <2>1. n - y \in T /\ x \in Int /\ y \in Int
      OBVIOUS
    <2>2. ~ (n - y < n - x)
      BY <1>3, <1>4, <2>1
    <2> QED
      BY <2>1, <2>2
  <1> QED
    BY <1>5, Zenon DEF Max

LEMMA SlotNames ==
    ASSUME ScopesAssumption PROVE \A c \in Slot : c.id \in Names
  BY DEF ScopesAssumption, Slot, ToSet

(* The first slot of a name, and the first note of one. *)
LEMMA FirstSlot ==
    ASSUME NEW vars \in Seq(Slot), NEW x
    PROVE  LET i == SelectInSeq(vars, LAMBDA c : c.id = x) IN
           /\ i \in 0 .. Len(vars)
           /\ i # 0 => vars[i].id = x
           /\ \A j \in 1 .. Len(vars) : vars[j].id = x => i # 0 /\ i <= j
  <1> DEFINE i == SelectInSeq(vars, LAMBDA c : c.id = x)
             I == {j \in 1 .. Len(vars) : vars[j].id = x}
  <1>1. i = IF I # {} THEN Min(I) ELSE 0
    BY DEF SelectInSeq
  <1>2. I \in SUBSET (1 .. Len(vars)) /\ Len(vars) \in Nat /\ I \in SUBSET Nat
    OBVIOUS
  <1>3. I # {} => Min(I) \in I /\ \A y \in I : Min(I) <= y
    BY <1>2, Smallest
  <1>5. \A j : j \in I <=> j \in 1 .. Len(vars) /\ vars[j].id = x
    OBVIOUS
  <1> HIDE DEF i, I
  <1>4. /\ i \in 0 .. Len(vars)
        /\ i # 0 => vars[i].id = x
        /\ \A j \in 1 .. Len(vars) : vars[j].id = x => i # 0 /\ i <= j
    BY <1>1, <1>2, <1>3, <1>5
  <1> QED
    BY <1>4 DEF i

LEMMA LastSlot ==
    ASSUME NEW vars \in Seq(Slot), NEW x
    PROVE  LET i == SelectLastInSeq(vars, LAMBDA c : c.id = x) IN
           /\ i \in 0 .. Len(vars)
           /\ i # 0 => vars[i].id = x
           /\ \A j \in 1 .. Len(vars) : vars[j].id = x => i # 0 /\ j <= i
  <1> DEFINE i == SelectLastInSeq(vars, LAMBDA c : c.id = x)
             I == {j \in 1 .. Len(vars) : vars[j].id = x}
  <1>1. i = IF I # {} THEN Max(I) ELSE 0
    BY DEF SelectLastInSeq
  <1>2. I \in SUBSET (1 .. Len(vars)) /\ Len(vars) \in Nat /\ I \in SUBSET Nat
    OBVIOUS
  <1>3. I # {} => Max(I) \in I /\ \A y \in I : y <= Max(I)
    BY <1>2, Largest
  <1>5. \A j : j \in I <=> j \in 1 .. Len(vars) /\ vars[j].id = x
    OBVIOUS
  <1> HIDE DEF i, I
  <1>4. /\ i \in 0 .. Len(vars)
        /\ i # 0 => vars[i].id = x
        /\ \A j \in 1 .. Len(vars) : vars[j].id = x => i # 0 /\ j <= i
    BY <1>1, <1>2, <1>3, <1>5
  <1> QED
    BY <1>4 DEF i

LEMMA FirstNote ==
    ASSUME NEW f \in CallFrame, NEW x
    PROVE  /\ Noting(f, x) \in 0 .. Len(f.shadows)
           /\ Noting(f, x) # 0 => f.shadows[Noting(f, x)].name = x
           /\ \A j \in 1 .. Len(f.shadows) :
                  f.shadows[j].name = x => Noting(f, x) # 0 /\ Noting(f, x) <= j
  <1> DEFINE i == Noting(f, x)
             I == {j \in 1 .. Len(f.shadows) : f.shadows[j].name = x}
  <1>1. i = IF I # {} THEN Min(I) ELSE 0
    BY DEF SelectInSeq, Noting
  <1>2. I \in SUBSET Nat
    OBVIOUS
  <1>3. I # {} => Min(I) \in I /\ \A y \in I : Min(I) <= y
    BY <1>2, Smallest
  <1>4. \A j : j \in I <=> j \in 1 .. Len(f.shadows) /\ f.shadows[j].name = x
    OBVIOUS
  <1>5. Len(f.shadows) \in Nat
    BY DEF CallFrame
  <1> HIDE DEF i, I
  <1>6. /\ i \in 0 .. Len(f.shadows)
        /\ i # 0 => f.shadows[i].name = x
        /\ \A j \in 1 .. Len(f.shadows) : f.shadows[j].name = x => i # 0 /\ i <= j
    BY <1>1, <1>3, <1>4, <1>5
  <1> QED
    BY <1>6 DEF i

(* The slot a name leads to. *)
LEMMA Found ==
    ASSUME NEW s \in Scope, Hashed(s), NEW x \in Names
    PROVE  /\ Find(s, x) \in 0 .. Len(s.vars)
           /\ Find(s, x) # 0 => s.vars[Find(s, x)].id = x
           /\ Find(s, x) = 0 => \A i \in 1 .. Len(s.vars) : s.vars[i].id # x
           /\ s.sym[x] # 0 => Find(s, x) = s.sym[x]
           /\ s.sym[x] = 0 => \A i \in 1 .. Len(s.vars) :
                                  s.vars[i].id = x => Find(s, x) <= i
  <1>1. s.vars \in Seq(Slot) /\ s.sym \in [Names -> Nat] /\ s.sym[x] \in Nat
    BY DEF Scope
  <1> DEFINE i == SelectInSeq(s.vars, LAMBDA c : c.id = x)
  <1>2. /\ i \in 0 .. Len(s.vars)
        /\ i # 0 => s.vars[i].id = x
        /\ \A j \in 1 .. Len(s.vars) : s.vars[j].id = x => i # 0 /\ i <= j
    BY <1>1, FirstSlot
  <1>3. Find(s, x) = IF s.sym[x] \in 1 .. Len(s.vars) THEN s.sym[x] ELSE i
    BY DEF Find
  <1> HIDE DEF i
  <1> QED
    BY <1>1, <1>2, <1>3 DEF Hashed

-----------------------------------------------------------------------------
(* A name leads to the same slot after its hash entry is filled, and after  *)
(* slots of other names were added.                                        *)
LEMMA SameFind ==
    ASSUME NEW s \in Scope, Hashed(s), NEW t \in Scope, Hashed(t), NEW x \in Names,
           t.sym[x] \in {s.sym[x], Find(s, x)}, SameNames(s, t, Len(s.vars)),
           \A i \in Len(s.vars) + 1 .. Len(t.vars) : t.vars[i].id # x
    PROVE  Find(t, x) = Find(s, x)
  <1>1. /\ s.sym[x] \in Nat /\ t.sym[x] \in Nat
        /\ Len(s.vars) \in Nat /\ Len(t.vars) \in Nat
    BY DEF Scope
  <1>2. CASE t.sym[x] # 0
    BY <1>1, <1>2, Found
  <1>3. CASE t.sym[x] = 0
    <2>1. /\ Find(t, x) \in 0 .. Len(t.vars)
          /\ Find(t, x) # 0 => t.vars[Find(t, x)].id = x
          /\ Find(t, x) = 0 => \A i \in 1 .. Len(t.vars) : t.vars[i].id # x
          /\ \A i \in 1 .. Len(t.vars) : t.vars[i].id = x => Find(t, x) <= i
      BY <1>3, Found
    <2>2. /\ Find(s, x) \in 0 .. Len(s.vars)
          /\ Find(s, x) # 0 => s.vars[Find(s, x)].id = x
          /\ Find(s, x) = 0 => \A i \in 1 .. Len(s.vars) : s.vars[i].id # x
          /\ s.sym[x] # 0 => Find(s, x) = s.sym[x]
          /\ s.sym[x] = 0 => \A i \in 1 .. Len(s.vars) :
                                 s.vars[i].id = x => Find(s, x) <= i
      BY Found
    <2> QED
      BY <1>1, <1>3, <2>1, <2>2 DEF SameNames
  <1> QED
    BY <1>2, <1>3

LEMMA PrimedIs ==
    ASSUME NEW s \in Scope, Hashed(s), NEW xs
    PROVE  /\ Primed(s, xs) \in Scope /\ Hashed(Primed(s, xs))
           /\ Primed(s, xs).vars = s.vars
           /\ \A x \in Names : Find(Primed(s, xs), x) = Find(s, x)
  <1> DEFINE t == Primed(s, xs)
  <1> DEFINE h == [x \in Names |-> IF x \in xs THEN Find(s, x) ELSE s.sym[x]]
  <1>0. t = [s EXCEPT !.sym = h]
    BY DEF Primed
  <1> HIDE DEF h
  <1>1. /\ t.vars = s.vars /\ t.sym = h
        /\ t = [vars |-> t.vars, sym |-> t.sym]
    BY <1>0 DEF Scope
  <1>2. \A x \in Names : Find(s, x) \in 0 .. Len(s.vars)
                          /\ (Find(s, x) # 0 => s.vars[Find(s, x)].id = x)
    BY Found
  <1>3. s.vars \in Seq(Slot) /\ s.sym \in [Names -> Nat] /\ Len(s.vars) \in Nat
    BY DEF Scope
  <1> HIDE DEF t
  <1>4. t \in Scope
    <2>1. h \in [Names -> Nat]
      BY <1>2, <1>3 DEF h
    <2> QED
      BY <1>1, <1>3, <2>1 DEF Scope
  <1>5. Hashed(t)
    BY <1>1, <1>2 DEF Hashed, h
  <1>6. ASSUME NEW x \in Names PROVE Find(t, x) = Find(s, x)
    <2>1. t.sym[x] \in {s.sym[x], Find(s, x)} /\ SameNames(s, t, Len(s.vars))
          /\ Len(t.vars) = Len(s.vars)
      BY <1>1, <1>3 DEF SameNames, h
    <2> QED
      BY <1>3, <1>4, <1>5, <2>1, SameFind
  <1> QED
    BY <1>1, <1>4, <1>5, <1>6 DEF t

(* A store to a slot leaves the names where they were. *)
LEMMA StoredIs ==
    ASSUME ScopesAssumption, NEW s \in Scope, Hashed(s), NEW c \in Cells,
           Find(s, c.id) # 0
    PROVE  LET t == [Primed(s, {c.id}) EXCEPT !.vars[Find(s, c.id)] = c] IN
           /\ t \in Scope /\ Hashed(t)
           /\ Len(t.vars) = Len(s.vars) /\ SameNames(s, t, Len(s.vars))
           /\ \A x \in Names : Find(t, x) = Find(s, x)
  <1> DEFINE p == Primed(s, {c.id})
             i == Find(s, c.id)
             t == [p EXCEPT !.vars[i] = c]
  <1>1. c.id \in Names /\ c \in Slot
    BY SlotNames DEF Slot
  <1>2. /\ p \in Scope /\ Hashed(p) /\ p.vars = s.vars
        /\ \A x \in Names : Find(p, x) = Find(s, x)
    BY PrimedIs
  <1>3. i \in 1 .. Len(s.vars) /\ s.vars[i].id = c.id
    BY <1>1, Found
  <1>4. /\ t.vars = [s.vars EXCEPT ![i] = c] /\ t.sym = p.sym
        /\ t = [vars |-> t.vars, sym |-> t.sym]
    <2> HIDE DEF p, i
    <2>1. p = [vars |-> p.vars, sym |-> p.sym]
      BY <1>2 DEF Scope
    <2>2. t = [p EXCEPT !.vars = [p.vars EXCEPT ![i] = c]]
      BY <2>1
    <2> DEFINE w == [p.vars EXCEPT ![i] = c]
    <2> HIDE DEF t, w
    <2>3. t.vars = w /\ t.sym = p.sym /\ t = [vars |-> w, sym |-> p.sym]
      BY <2>1, <2>2 DEF w
    <2> QED
      BY <1>2, <2>3 DEF w
  <1> HIDE DEF i, t, p
  <1>5. s.vars \in Seq(Slot) /\ p.sym \in [Names -> Nat] /\ Len(s.vars) \in Nat
    BY <1>2 DEF Scope
  <1>6. t.vars \in Seq(Slot) /\ Len(t.vars) = Len(s.vars)
    BY <1>1, <1>3, <1>4, <1>5
  <1>7. \A j \in 1 .. Len(s.vars) : t.vars[j].id = s.vars[j].id
    BY <1>3, <1>4, <1>5
  <1>8. t \in Scope
    BY <1>4, <1>5, <1>6 DEF Scope
  <1>9. Hashed(t)
    BY <1>2, <1>4, <1>5, <1>6, <1>7 DEF Hashed
  <1>10. SameNames(s, t, Len(s.vars)) /\ SameNames(p, t, Len(p.vars))
    BY <1>2, <1>5, <1>6, <1>7 DEF SameNames
  <1>11. ASSUME NEW x \in Names PROVE Find(t, x) = Find(p, x)
    BY <1>2, <1>4, <1>5, <1>6, <1>8, <1>9, <1>10, SameFind
  <1> QED
    BY <1>2, <1>6, <1>8, <1>9, <1>10, <1>11 DEF i, t, p

LEMMA AddedIs ==
    ASSUME ScopesAssumption, NEW s \in Scope, Hashed(s), NEW c \in Cells
    PROVE  LET t == [vars |-> Append(s.vars, c),
                     sym |-> [s.sym EXCEPT ![c.id] = Len(s.vars) + 1]] IN
           /\ t \in Scope /\ Hashed(t)
           /\ Len(t.vars) = Len(s.vars) + 1 /\ SameNames(s, t, Len(s.vars))
           /\ Find(t, c.id) = Len(s.vars) + 1
           /\ \A x \in Names \ {c.id} : Find(t, x) = Find(s, x)
  <1> DEFINE v == Append(s.vars, c)
             h == [s.sym EXCEPT ![c.id] = Len(s.vars) + 1]
             t == [vars |-> v, sym |-> h]
  <1>1. c.id \in Names /\ c \in Slot
    BY SlotNames DEF Slot
  <1>2. s.vars \in Seq(Slot) /\ s.sym \in [Names -> Nat] /\ Len(s.vars) \in Nat
    BY DEF Scope
  <1>3. /\ v \in Seq(Slot) /\ Len(v) = Len(s.vars) + 1
        /\ \A j \in 1 .. Len(s.vars) : v[j] = s.vars[j]
        /\ v[Len(s.vars) + 1] = c
    BY <1>1, <1>2, AppendProperties
  <1>4. /\ h \in [Names -> Nat] /\ h[c.id] = Len(s.vars) + 1
        /\ \A x \in Names \ {c.id} : h[x] = s.sym[x]
    BY <1>1, <1>2
  <1>5. t.vars = v /\ t.sym = h
    OBVIOUS
  <1> HIDE DEF v, h
  <1>6. t \in Scope
    BY <1>3, <1>4 DEF Scope
  <1> HIDE DEF t
  <1>7. Hashed(t)
    <2> SUFFICES ASSUME NEW x \in Names
                 PROVE  h[x] <= Len(v) /\ (h[x] # 0 => v[h[x]].id = x)
      BY <1>5 DEF Hashed
    <2>1. CASE x = c.id
      BY <1>2, <1>3, <1>4, <2>1
    <2>2. CASE x # c.id
      <3>1. s.sym[x] \in Nat /\ s.sym[x] <= Len(s.vars)
            /\ (s.sym[x] # 0 => s.vars[s.sym[x]].id = x)
        BY <1>2 DEF Hashed
      <3> QED
        BY <1>2, <1>3, <1>4, <2>2, <3>1
    <2> QED
      BY <2>1, <2>2
  <1>8. SameNames(s, t, Len(s.vars))
    BY <1>2, <1>3, <1>5 DEF SameNames
  <1>9. Find(t, c.id) = Len(s.vars) + 1
    BY <1>1, <1>2, <1>4, <1>5, <1>6, <1>7, Found
  <1>10. ASSUME NEW x \in Names \ {c.id} PROVE Find(t, x) = Find(s, x)
    <2>1. \A i \in Len(s.vars) + 1 .. Len(t.vars) : t.vars[i].id # x
      BY <1>2, <1>3, <1>5
    <2> QED
      BY <1>4, <1>5, <1>6, <1>7, <1>8, <2>1, SameFind
  <1> QED
    BY <1>3, <1>5, <1>6, <1>7, <1>8, <1>9, <1>10 DEF t, v, h

LEMMA DeclaredIs ==
    ASSUME ScopesAssumption, NEW s \in Scope, Hashed(s), NEW c \in Cells,
           NEW base \in Nat
    PROVE  LET t == Declared(s, base, c) IN
           /\ t \in Scope /\ Hashed(t)
           /\ Len(s.vars) <= Len(t.vars) /\ SameNames(s, t, Len(s.vars))
           /\ \A x \in Names \ {c.id} : Find(t, x) = Find(s, x)
           /\ Find(s, c.id) > base => Find(t, c.id) = Find(s, c.id)
  <1>1. c.id \in Names /\ Find(s, c.id) \in Nat /\ Len(s.vars) \in Nat
    BY SlotNames, Found DEF Slot, Scope
  <1>2. CASE Find(s, c.id) > base
    <2> DEFINE t == [Primed(s, {c.id}) EXCEPT !.vars[Find(s, c.id)] = c]
    <2>1. Declared(s, base, c) = t
      BY <1>2 DEF Declared
    <2>2. /\ t \in Scope /\ Hashed(t)
          /\ Len(t.vars) = Len(s.vars) /\ SameNames(s, t, Len(s.vars))
          /\ \A x \in Names : Find(t, x) = Find(s, x)
      <3>1. Find(s, c.id) # 0
        BY <1>1, <1>2
      <3> QED
        BY <3>1, StoredIs, Zenon
    <2> HIDE DEF t
    <2> QED
      BY <1>1, <2>1, <2>2
  <1>3. CASE ~ (Find(s, c.id) > base)
    <2> DEFINE t == [vars |-> Append(s.vars, c),
                     sym |-> [s.sym EXCEPT ![c.id] = Len(s.vars) + 1]]
    <2>1. Declared(s, base, c) = t
      BY <1>3 DEF Declared
    <2>2. /\ t \in Scope /\ Hashed(t)
          /\ Len(t.vars) = Len(s.vars) + 1 /\ SameNames(s, t, Len(s.vars))
          /\ \A x \in Names \ {c.id} : Find(t, x) = Find(s, x)
      BY AddedIs
    <2> HIDE DEF t
    <2> QED
      BY <1>1, <1>3, <2>1, <2>2
  <1> QED
    BY <1>2, <1>3

LEMMA BelowStays ==
    ASSUME NEW f \in CallFrame, NEW s \in Scope, NEW t \in Scope, Below(f, s),
           SameNames(s, t, f.base)
    PROVE  Below(f, t)
  <1>1. f.base \in Nat /\ f.seen \in [Names -> Nat] /\ f.shadows \in Seq(Note)
    BY DEF CallFrame
  <1>2. ASSUME NEW x \in Names
        PROVE  IF f.seen[x] = 0 THEN \A i \in 1 .. f.base : t.vars[i].id # x
                                ELSE t.vars[f.seen[x]].id = x
    <2>1. f.seen[x] \in Nat /\ f.seen[x] <= f.base
      BY <1>1 DEF Below
    <2>2. \A i \in 1 .. f.base : t.vars[i].id = s.vars[i].id
      BY DEF SameNames
    <2>3. IF f.seen[x] = 0 THEN \A i \in 1 .. f.base : s.vars[i].id # x
                           ELSE s.vars[f.seen[x]].id = x
      BY DEF Below
    <2>4. CASE f.seen[x] = 0
      BY <2>2, <2>3, <2>4
    <2>5. CASE f.seen[x] # 0
      <3>1. f.seen[x] \in 1 .. f.base
        BY <1>1, <2>1, <2>5
      <3> QED
        BY <2>2, <2>3, <2>5, <3>1
    <2> QED
      BY <2>4, <2>5
  <1> QED
    BY <1>1, <1>2 DEF Below, SameNames

LEMMA Reshadowed ==
    ASSUME NEW f \in CallFrame, NEW sh
    PROVE  /\ [f EXCEPT !.shadows = sh] = [base |-> f.base, shadows |-> sh,
                                          marks |-> f.marks, seen |-> f.seen]
           /\ [f EXCEPT !.shadows = sh].base = f.base
           /\ [f EXCEPT !.shadows = sh].shadows = sh
           /\ [f EXCEPT !.shadows = sh].marks = f.marks
           /\ [f EXCEPT !.shadows = sh].seen = f.seen
  BY DEF CallFrame

LEMMA Remarked ==
    ASSUME NEW f \in CallFrame, NEW ms
    PROVE  /\ [f EXCEPT !.marks = ms] = [base |-> f.base, shadows |-> f.shadows,
                                        marks |-> ms, seen |-> f.seen]
           /\ [f EXCEPT !.marks = ms].base = f.base
           /\ [f EXCEPT !.marks = ms].shadows = f.shadows
           /\ [f EXCEPT !.marks = ms].seen = f.seen
           /\ [f EXCEPT !.marks = ms].marks = ms
  BY DEF CallFrame

(* The first note of a name stays the first. *)
LEMMA NotedIs ==
    ASSUME NEW f \in CallFrame, NEW s \in Scope, Hashed(s), Below(f, s), NEW x \in Names
    PROVE  LET g == Noted(f, s, x) IN
           /\ g \in CallFrame
           /\ g.base = f.base /\ g.seen = f.seen /\ g.marks = f.marks
           /\ Below(g, s)
           /\ \A y \in Names : Noting(f, y) # 0 =>
                  /\ Noting(g, y) # 0
                  /\ g.shadows[Noting(g, y)].slot = f.shadows[Noting(f, y)].slot
           /\ \A y \in Names \ {x} : Noting(f, y) = 0 => Noting(g, y) = 0
           /\ Noting(f, x) = 0 /\ Find(s, x) \in 1 .. f.base =>
                  /\ Noting(g, x) # 0
                  /\ g.shadows[Noting(g, x)].slot = Find(s, x)
  <1> DEFINE i == Find(s, x)
             note == [name |-> x, slot |-> i]
             sh == Append(f.shadows, note)
             g == [f EXCEPT !.shadows = sh]
  <1>1. /\ f.base \in Nat /\ f.seen \in [Names -> Nat] /\ f.shadows \in Seq(Note)
        /\ f.marks \in Seq(Nat) /\ Len(f.shadows) \in Nat
        /\ f = [base |-> f.base, shadows |-> f.shadows, marks |-> f.marks,
                seen |-> f.seen]
    BY DEF CallFrame
  <1>2. i \in Nat /\ (i # 0 => s.vars[i].id = x)
    BY Found
  <1>3. \A k \in 1 .. Len(f.shadows) :
            f.shadows[k].slot = i => f.shadows[k].name = x
    BY <1>2 DEF Below
  <1>4. CASE ~ (i \in 1 .. f.base /\ \A k \in DOMAIN f.shadows : f.shadows[k].slot # i)
    <2>1. Noted(f, s, x) = f
      BY <1>4 DEF Noted
    <2>2. Noting(f, x) = 0 => ~ (i \in 1 .. f.base)
      <3> SUFFICES ASSUME NEW k \in 1 .. Len(f.shadows), f.shadows[k].slot = i
                   PROVE  Noting(f, x) # 0
        <4>1. DOMAIN f.shadows = 1 .. Len(f.shadows)
          BY <1>1
        <4> QED
          BY <1>4, <4>1, Zenon
      <3> QED
        BY <1>3, FirstNote
    <2> QED
      BY <2>1, <2>2
  <1>5. CASE i \in 1 .. f.base /\ \A k \in DOMAIN f.shadows : f.shadows[k].slot # i
    <2>1. Noted(f, s, x) = g
      BY <1>5 DEF Noted
    <2>2. /\ sh \in Seq(Note) /\ Len(sh) = Len(f.shadows) + 1
          /\ \A k \in 1 .. Len(f.shadows) : sh[k] = f.shadows[k]
          /\ sh[Len(f.shadows) + 1] = note
          /\ note.name = x /\ note.slot = i
      BY <1>1, <1>2, AppendProperties DEF Note
    <2> HIDE DEF sh, note, i
    <2>3. /\ g = [base |-> f.base, shadows |-> sh, marks |-> f.marks, seen |-> f.seen]
          /\ g.base = f.base /\ g.shadows = sh /\ g.marks = f.marks /\ g.seen = f.seen
      BY Reshadowed, Zenon
    <2> HIDE DEF g
    <2>4. g \in CallFrame
      BY <1>1, <2>2, <2>3 DEF CallFrame
    <2>5. Below(g, s)
      <3>1. /\ g.base <= Len(s.vars)
            /\ \A y \in Names :
                   /\ g.seen[y] <= g.base
                   /\ IF g.seen[y] = 0 THEN \A k \in 1 .. g.base : s.vars[k].id # y
                                       ELSE s.vars[g.seen[y]].id = y
            /\ \A k \in 1 .. Len(g.marks) : g.marks[k] >= g.base
        BY <2>3 DEF Below
      <3>2. ASSUME NEW k \in 1 .. Len(sh)
            PROVE  sh[k].slot \in 1 .. f.base /\ s.vars[sh[k].slot].id = sh[k].name
        <4>1. CASE k \in 1 .. Len(f.shadows)
          BY <2>2, <4>1 DEF Below
        <4>2. CASE k = Len(f.shadows) + 1
          <5>1. i # 0
            BY <1>5
          <5> QED
            BY <1>2, <1>5, <2>2, <4>2, <5>1
        <4> QED
          BY <1>1, <2>2, <4>1, <4>2
      <3> QED
        BY <2>3, <3>1, <3>2 DEF Below
    <2>6. \A y \in Names :
              /\ Noting(f, y) # 0 => /\ Noting(g, y) # 0
                                     /\ sh[Noting(g, y)].slot = f.shadows[Noting(f, y)].slot
              /\ y # x /\ Noting(f, y) = 0 => Noting(g, y) = 0
              /\ y = x /\ Noting(f, y) = 0 => /\ Noting(g, y) # 0
                                              /\ sh[Noting(g, y)].slot = i
      <3> SUFFICES ASSUME NEW y \in Names
          PROVE  /\ Noting(f, y) # 0 => /\ Noting(g, y) # 0
                                     /\ sh[Noting(g, y)].slot = f.shadows[Noting(f, y)].slot
                 /\ y # x /\ Noting(f, y) = 0 => Noting(g, y) = 0
                 /\ y = x /\ Noting(f, y) = 0 => /\ Noting(g, y) # 0
                                              /\ sh[Noting(g, y)].slot = i
        OBVIOUS
      <3>1. /\ Noting(f, y) \in 0 .. Len(f.shadows)
            /\ Noting(f, y) # 0 => f.shadows[Noting(f, y)].name = y
            /\ \A j \in 1 .. Len(f.shadows) :
                   f.shadows[j].name = y => Noting(f, y) # 0 /\ Noting(f, y) <= j
        BY FirstNote
      <3>2. /\ Noting(g, y) \in 0 .. Len(sh)
            /\ Noting(g, y) # 0 => sh[Noting(g, y)].name = y
            /\ \A j \in 1 .. Len(sh) :
                   sh[j].name = y => Noting(g, y) # 0 /\ Noting(g, y) <= j
        BY <2>3, <2>4, FirstNote
      <3> QED
        BY <1>1, <2>2, <3>1, <3>2
    <2> QED
      BY <2>1, <2>3, <2>4, <2>5, <2>6 DEF g, i
  <1> QED
    BY <1>4, <1>5

(* What a declaration hides is noted. *)
LEMMA DeclareKeeps ==
    ASSUME ScopesAssumption, NEW s \in Scope, Hashed(s), NEW c \in Cells,
           NEW f \in CallFrame, Below(f, s), Kept(f, [x \in Names |-> Find(s, x)])
    PROVE  LET t == Declared(s, f.base, c)
               g == Noted(f, s, c.id)
           IN  /\ g \in CallFrame /\ g.base = f.base /\ g.seen = f.seen
               /\ Below(g, t) /\ Kept(g, [x \in Names |-> Find(t, x)])
  <1> DEFINE t == Declared(s, f.base, c)
             g == Noted(f, s, c.id)
  <1>1. c.id \in Names /\ f.base \in Nat /\ Len(s.vars) \in Nat /\ f.base <= Len(s.vars)
    BY SlotNames DEF Slot, CallFrame, Scope, Below
  <1>2. /\ t \in Scope /\ Hashed(t)
        /\ Len(s.vars) <= Len(t.vars) /\ SameNames(s, t, Len(s.vars))
        /\ \A x \in Names \ {c.id} : Find(t, x) = Find(s, x)
        /\ Find(s, c.id) > f.base => Find(t, c.id) = Find(s, c.id)
    BY <1>1, DeclaredIs
  <1>3. /\ g \in CallFrame
        /\ g.base = f.base /\ g.seen = f.seen /\ g.marks = f.marks
        /\ Below(g, s)
        /\ \A y \in Names : Noting(f, y) # 0 =>
               /\ Noting(g, y) # 0
               /\ g.shadows[Noting(g, y)].slot = f.shadows[Noting(f, y)].slot
        /\ \A y \in Names \ {c.id} : Noting(f, y) = 0 => Noting(g, y) = 0
        /\ Noting(f, c.id) = 0 /\ Find(s, c.id) \in 1 .. f.base =>
               /\ Noting(g, c.id) # 0
               /\ g.shadows[Noting(g, c.id)].slot = Find(s, c.id)
    BY <1>1, NotedIs
  <1> HIDE DEF t, g
  <1>4. SameNames(s, t, f.base)
    BY <1>1, <1>2 DEF SameNames, Scope
  <1>5. Below(g, t)
    BY <1>2, <1>3, <1>4, BelowStays
  <1>6. ASSUME NEW y \in Names, g.seen[y] # 0
        PROVE  IF Noting(g, y) = 0 THEN Find(t, y) = g.seen[y]
                                   ELSE g.shadows[Noting(g, y)].slot = g.seen[y]
    <2>1. /\ f.seen[y] \in 1 .. f.base
          /\ IF Noting(f, y) = 0 THEN Find(s, y) = f.seen[y]
                                 ELSE f.shadows[Noting(f, y)].slot = f.seen[y]
      BY <1>1, <1>3, <1>6 DEF Below, Kept, CallFrame
    <2> QED
      BY <1>2, <1>3, <2>1
  <1> QED
    BY <1>3, <1>5, <1>6 DEF Kept, t, g

LEMMA UnwoundIs ==
    ASSUME NEW s \in Scope, Hashed(s), NEW m \in Nat, m <= Len(s.vars)
    PROVE  LET t == Unwound(s, m) IN
           /\ t \in Scope /\ Hashed(t) /\ Len(t.vars) = m /\ SameNames(s, t, m)
           /\ \A x \in Names : t.sym[x] = IF s.sym[x] > m THEN 0 ELSE s.sym[x]
           /\ \A x \in Names : Find(s, x) \in 1 .. m => Find(t, x) = Find(s, x)
  <1> DEFINE v == SubSeq(s.vars, 1, m)
             h == [x \in Names |-> IF s.sym[x] > m THEN 0 ELSE s.sym[x]]
             t == [vars |-> v, sym |-> h]
  <1>1. s.vars \in Seq(Slot) /\ s.sym \in [Names -> Nat] /\ Len(s.vars) \in Nat
    BY DEF Scope
  <1>2. /\ v \in Seq(Slot) /\ Len(v) = m
        /\ \A i \in 1 .. m : v[i] = s.vars[i]
    <2>1. \A i \in 1 .. m : s.vars[i] \in Slot
      BY <1>1, ElementOfSeq
    <2>2. /\ v \in Seq(Slot)
          /\ Len(v) = IF 1 <= m THEN m - 1 + 1 ELSE 0
          /\ \A i \in 1 .. m - 1 + 1 : v[i] = s.vars[1 + i - 1]
      BY <2>1, SubSeqProperties
    <2> HIDE DEF v
    <2> QED
      BY <1>1, <2>2
  <1>3. h \in [Names -> Nat]
    BY <1>1
  <1>4. \A x \in Names : h[x] = IF s.sym[x] > m THEN 0 ELSE s.sym[x]
    OBVIOUS
  <1>5. t.vars = v /\ t.sym = h /\ Unwound(s, m) = t
    BY DEF Unwound
  <1> HIDE DEF v, h
  <1>6. t \in Scope
    BY <1>2, <1>3 DEF Scope
  <1> HIDE DEF t
  <1>7. Hashed(t)
    <2> SUFFICES ASSUME NEW x \in Names
                 PROVE  h[x] <= Len(v) /\ (h[x] # 0 => v[h[x]].id = x)
      BY <1>5 DEF Hashed
    <2>1. s.sym[x] \in Nat /\ (s.sym[x] # 0 => s.vars[s.sym[x]].id = x)
      BY <1>1 DEF Hashed
    <2> QED
      BY <1>2, <1>4, <2>1
  <1>8. SameNames(s, t, m)
    BY <1>2, <1>5 DEF SameNames
  <1>9. ASSUME NEW x \in Names, Find(s, x) \in 1 .. m PROVE Find(t, x) = Find(s, x)
    <2>1. /\ s.sym[x] \in Nat /\ h[x] = IF s.sym[x] > m THEN 0 ELSE s.sym[x]
      BY <1>1, <1>4
    <2>2. /\ Find(s, x) # 0 => s.vars[Find(s, x)].id = x
          /\ s.sym[x] # 0 => Find(s, x) = s.sym[x]
          /\ s.sym[x] = 0 => \A i \in 1 .. Len(s.vars) :
                                 s.vars[i].id = x => Find(s, x) <= i
      BY Found
    <2>3. /\ Find(t, x) \in 0 .. m
          /\ Find(t, x) # 0 => v[Find(t, x)].id = x
          /\ Find(t, x) = 0 => \A i \in 1 .. m : v[i].id # x
          /\ h[x] # 0 => Find(t, x) = h[x]
          /\ h[x] = 0 => \A i \in 1 .. m : v[i].id = x => Find(t, x) <= i
      BY <1>2, <1>5, <1>6, <1>7, Found
    <2> QED
      BY <1>1, <1>2, <1>9, <2>1, <2>2, <2>3
  <1> QED
    BY <1>2, <1>4, <1>5, <1>6, <1>7, <1>8, <1>9

(* The end of a call gives the caller its names back. *)
LEMMA PoppedIs ==
    ASSUME NEW s \in Scope, Hashed(s), NEW f \in CallFrame, Below(f, s),
           Kept(f, [x \in Names |-> Find(s, x)])
    PROVE  LET t == Popped(s, f) IN
           /\ t \in Scope /\ Hashed(t)
           /\ Len(t.vars) = f.base /\ SameNames(s, t, f.base)
           /\ \A x \in Names : Find(t, x) = f.seen[x]
  <1> DEFINE u == Unwound(s, f.base)
             h == Restored(u.sym, f.shadows)
             t == [vars |-> u.vars, sym |-> h]
  <1>1. /\ f.base \in Nat /\ f.base <= Len(s.vars) /\ f.seen \in [Names -> Nat]
        /\ f.shadows \in Seq(Note) /\ Len(s.vars) \in Nat
        /\ s.sym \in [Names -> Nat]
    BY DEF CallFrame, Below, Scope
  <1>2. /\ u \in Scope /\ Hashed(u) /\ Len(u.vars) = f.base /\ SameNames(s, u, f.base)
        /\ \A x \in Names : u.sym[x] = IF s.sym[x] > f.base THEN 0 ELSE s.sym[x]
        /\ \A x \in Names : Find(s, x) \in 1 .. f.base => Find(u, x) = Find(s, x)
    BY <1>1, UnwoundIs
  <1>3. Popped(s, f) = t
    <2>1. u = [vars |-> u.vars, sym |-> u.sym]
      BY <1>2 DEF Scope
    <2>2. Popped(s, f) = [u EXCEPT !.sym = h]
      BY DEF Popped
    <2> HIDE DEF u, h
    <2> QED
      BY <2>1, <2>2
  <1>4. \A x \in Names : h[x] = IF Noting(f, x) = 0 THEN u.sym[x]
                                ELSE f.shadows[Noting(f, x)].slot
    BY DEF Restored, Noting
  <1>5. \A x \in Names : /\ Noting(f, x) \in 0 .. Len(f.shadows)
                         /\ Noting(f, x) # 0 => f.shadows[Noting(f, x)].name = x
    BY FirstNote
  <1>6. u.vars \in Seq(Slot) /\ u.sym \in [Names -> Nat]
    BY <1>2 DEF Scope
  <1> HIDE DEF u
  <1>7. ASSUME NEW x \in Names
        PROVE  /\ h[x] \in 0 .. f.base
               /\ h[x] # 0 => u.vars[h[x]].id = x
    <2>1. CASE Noting(f, x) = 0
      BY <1>1, <1>2, <1>4, <1>6, <2>1 DEF Hashed
    <2>2. CASE Noting(f, x) # 0
      <3>1. /\ f.shadows[Noting(f, x)].slot \in 1 .. f.base
            /\ s.vars[f.shadows[Noting(f, x)].slot].id = x
        BY <1>1, <1>5, <2>2 DEF Below
      <3> QED
        <4>1. h[x] = f.shadows[Noting(f, x)].slot
          BY <1>4, <2>2
        <4>2. h[x] \in 1 .. f.base /\ s.vars[h[x]].id = x
          BY <3>1, <4>1, Zenon
        <4>3. u.vars[h[x]].id = s.vars[h[x]].id
          BY <1>2, <4>2 DEF SameNames
        <4> QED
          BY <1>1, <4>2, <4>3
    <2> QED
      BY <2>1, <2>2
  <1>8. h \in [Names -> Nat]
    <2>1. h = [x \in Names |-> h[x]]
      BY DEF Restored
    <2> HIDE DEF h
    <2> QED
      BY <1>1, <1>7, <2>1
  <1>9. t.vars = u.vars /\ t.sym = h
    OBVIOUS
  <1> HIDE DEF h
  <1>10. t \in Scope
    BY <1>6, <1>8 DEF Scope
  <1> HIDE DEF t
  <1>11. Hashed(t)
    BY <1>1, <1>2, <1>7, <1>9 DEF Hashed
  <1>12. SameNames(s, t, f.base)
    BY <1>2, <1>9 DEF SameNames
  <1>13. ASSUME NEW x \in Names PROVE Find(t, x) = f.seen[x]
    <2>1. /\ Find(t, x) \in 0 .. f.base
          /\ Find(t, x) # 0 => u.vars[Find(t, x)].id = x
          /\ Find(t, x) = 0 => \A i \in 1 .. f.base : u.vars[i].id # x
          /\ h[x] # 0 => Find(t, x) = h[x]
      BY <1>2, <1>9, <1>10, <1>11, Found
    <2>2. \A i \in 1 .. f.base : u.vars[i].id = s.vars[i].id
      BY <1>2 DEF SameNames
    <2>3. CASE f.seen[x] = 0
      <3>1. \A i \in 1 .. f.base : s.vars[i].id # x
        BY <2>3 DEF Below
      <3>2. Find(t, x) \notin 1 .. f.base
        <4> SUFFICES ASSUME Find(t, x) \in 1 .. f.base PROVE FALSE
          OBVIOUS
        <4>1. Find(t, x) # 0 /\ u.vars[Find(t, x)].id = s.vars[Find(t, x)].id
          BY <1>1, <2>2
        <4> QED
          BY <2>1, <3>1, <4>1, Zenon
      <3> QED
        BY <1>1, <2>1, <2>3, <3>2
    <2>4. CASE f.seen[x] # 0 /\ Noting(f, x) # 0
      BY <1>4, <2>1, <2>4 DEF Kept
    <2>5. CASE f.seen[x] # 0 /\ Noting(f, x) = 0
      <3>1. Find(s, x) = f.seen[x] /\ f.seen[x] \in 1 .. f.base
        BY <1>1, <2>5 DEF Kept, Below
      <3>2. Find(u, x) = f.seen[x]
        BY <1>2, <3>1
      <3>3. h[x] = u.sym[x]
        BY <1>4, <2>5
      <3>4. /\ u.sym[x] # 0 => Find(u, x) = u.sym[x]
            /\ u.sym[x] = 0 => \A i \in 1 .. f.base : u.vars[i].id = x => Find(u, x) <= i
            /\ Find(u, x) # 0 => u.vars[Find(u, x)].id = x
        BY <1>2, Found
      <3>5. h[x] = 0 => \A i \in 1 .. f.base : u.vars[i].id = x => Find(t, x) <= i
        BY <1>2, <1>9, <1>10, <1>11, Found
      <3> QED
        BY <1>1, <2>1, <3>1, <3>2, <3>3, <3>4, <3>5
    <2> QED
      BY <2>3, <2>4, <2>5
  <1> QED
    BY <1>2, <1>3, <1>9, <1>10, <1>11, <1>12, <1>13

LEMMA IndexedIs ==
    ASSUME NEW vars \in Seq(Slot)
    PROVE  LET t == [vars |-> vars, sym |-> Indexed(vars)] IN t \in Scope /\ Hashed(t)
  <1>1. Len(vars) \in Nat
    OBVIOUS
  <1>2. \A x \in Names : /\ Indexed(vars)[x] \in 0 .. Len(vars)
                         /\ Indexed(vars)[x] # 0 => vars[Indexed(vars)[x]].id = x
    <2> SUFFICES ASSUME NEW x \in Names
                 PROVE  /\ Indexed(vars)[x] \in 0 .. Len(vars)
                        /\ Indexed(vars)[x] # 0 => vars[Indexed(vars)[x]].id = x
      OBVIOUS
    <2> DEFINE i == SelectLastInSeq(vars, LAMBDA c : c.id = x)
    <2>1. Indexed(vars)[x] = i
      BY DEF Indexed
    <2>2. /\ i \in 0 .. Len(vars)
          /\ i # 0 => vars[i].id = x
          /\ \A j \in 1 .. Len(vars) : vars[j].id = x => i # 0 /\ j <= i
      BY LastSlot
    <2> HIDE DEF i
    <2> QED
      BY <2>1, <2>2
  <1>3. Indexed(vars) \in [Names -> Nat]
    <2>1. Indexed(vars) = [x \in Names |-> Indexed(vars)[x]]
      BY DEF Indexed
    <2> QED
      BY <1>1, <1>2, <2>1
  <1> QED
    BY <1>1, <1>2, <1>3 DEF Scope, Hashed

-----------------------------------------------------------------------------
(* Frames: the innermost is replaced, one is added, or the innermost goes.  *)
LEMMA WithTopIs ==
    ASSUME ScopeTypeOK, frames # <<>>, NEW g \in CallFrame
    PROVE  /\ WithTop(g) \in Seq(CallFrame) /\ Len(WithTop(g)) = Len(frames)
           /\ WithTop(g)[Len(frames)] = g
           /\ \A k \in 1 .. Len(frames) - 1 : WithTop(g)[k] = frames[k]
           /\ Top = frames[Len(frames)] /\ Top \in CallFrame /\ Len(frames) \in Nat \ {0}
  <1>1. frames \in Seq(CallFrame) /\ Len(frames) \in Nat \ {0}
    BY EmptySeq DEF ScopeTypeOK
  <1> DEFINE n == Len(frames)
             b == SubSeq(frames, 1, n - 1)
  <1>2. /\ b \in Seq(CallFrame) /\ Len(b) = n - 1
        /\ \A k \in 1 .. n - 1 : b[k] = frames[k]
    <2>1. \A i \in 1 .. n - 1 : frames[i] \in CallFrame
      BY <1>1, ElementOfSeq
    <2>2. /\ b \in Seq(CallFrame)
          /\ Len(b) = IF 1 <= n - 1 THEN (n - 1) - 1 + 1 ELSE 0
          /\ \A i \in 1 .. (n - 1) - 1 + 1 : b[i] = frames[1 + i - 1]
      BY <1>1, <2>1, SubSeqProperties
    <2>3. n \in Nat /\ n >= 1
      BY <1>1
    <2> HIDE DEF b, n
    <2>4. \A k \in 1 .. n - 1 : k \in 1 .. (n - 1) - 1 + 1 /\ 1 + k - 1 = k
      BY <2>3
    <2>5. Len(b) = n - 1
      BY <2>2, <2>3
    <2>6. ASSUME NEW k \in 1 .. n - 1 PROVE b[k] = frames[k]
      <3>1. b[k] = frames[1 + k - 1] /\ 1 + k - 1 = k
        BY <2>2, <2>4, Zenon
      <3> QED
        BY <3>1, Zenon
    <2> QED
      BY <2>2, <2>5, <2>6
  <1>3. Top = frames[n] /\ Top \in CallFrame
    BY <1>1, ElementOfSeq DEF Top, Last
  <1>4. WithTop(g) = b \o <<g>>
    BY DEF WithTop, Front
  <1> HIDE DEF b
  <1>5. /\ b \o <<g>> \in Seq(CallFrame) /\ Len(b \o <<g>>) = n
        /\ (b \o <<g>>)[n] = g
        /\ \A k \in 1 .. n - 1 : (b \o <<g>>)[k] = b[k]
    BY <1>1, <1>2
  <1> QED
    BY <1>1, <1>2, <1>3, <1>4, <1>5

LEMMA FrontIs ==
    ASSUME ScopeTypeOK, frames # <<>>
    PROVE  /\ Front(frames) \in Seq(CallFrame) /\ Len(Front(frames)) = Len(frames) - 1
           /\ \A k \in 1 .. Len(frames) - 1 : Front(frames)[k] = frames[k]
           /\ Top = frames[Len(frames)] /\ Top \in CallFrame /\ Len(frames) \in Nat \ {0}
  <1>1. frames \in Seq(CallFrame) /\ Len(frames) \in Nat \ {0}
    BY EmptySeq DEF ScopeTypeOK
  <1> DEFINE n == Len(frames)
             b == SubSeq(frames, 1, n - 1)
  <1>2. \A i \in 1 .. n - 1 : frames[i] \in CallFrame
    BY <1>1, ElementOfSeq
  <1>3. /\ b \in Seq(CallFrame)
        /\ Len(b) = IF 1 <= n - 1 THEN (n - 1) - 1 + 1 ELSE 0
        /\ \A i \in 1 .. (n - 1) - 1 + 1 : b[i] = frames[1 + i - 1]
    BY <1>1, <1>2, SubSeqProperties
  <1>4. Top = frames[n] /\ Top \in CallFrame
    BY <1>1, ElementOfSeq DEF Top, Last
  <1>5. Front(frames) = b
    BY DEF Front
  <1> HIDE DEF b
  <1> QED
    BY <1>1, <1>3, <1>4, <1>5

(* All bases lie within the slots, and below that of the innermost.         *)
LEMMA BasesGrow ==
    ASSUME ScopeInv, frames # <<>>
    PROVE  \A k \in 1 .. Len(frames) : frames[k].base <= Top.base
  <1> DEFINE n == Len(frames)
             bad == {n - k : k \in {k \in 1 .. n : ~ (frames[k].base <= Top.base)}}
  <1>1. n \in Nat \ {0} /\ Top = frames[n] /\ \A k \in 1 .. n : frames[k].base \in Nat
    <2>1. \A k \in 1 .. n : frames[k] \in CallFrame
      BY ElementOfSeq DEF ScopeInv, ScopeTypeOK
    <2> QED
      BY <2>1, FrontIs DEF ScopeInv, CallFrame
  <1>2. \A k \in 1 .. n : k < n => frames[k].base <= frames[k + 1].base
    BY DEF ScopeInv, FramesKept
  <1> HIDE DEF n
  <1> SUFFICES ASSUME NEW j \in 1 .. n, ~ (frames[j].base <= Top.base) PROVE FALSE
    BY DEF n
  <1>3. bad \in SUBSET Nat /\ n - j \in bad
    BY <1>1
  <1>4. Min(bad) \in bad /\ \A y \in bad : Min(bad) <= y
    BY <1>3, Smallest
  <1>5. PICK k \in 1 .. n : Min(bad) = n - k /\ ~ (frames[k].base <= Top.base)
    BY <1>4
  <1>6. k # n
    BY <1>1, <1>5
  <1>7. ~ (frames[k + 1].base <= Top.base)
    BY <1>1, <1>2, <1>5, <1>6
  <1>8. n - (k + 1) \in bad
    BY <1>1, <1>6, <1>7
  <1>9. Min(bad) <= n - (k + 1)
    BY <1>4, <1>8, Zenon
  <1> HIDE DEF bad
  <1> QED
    BY <1>1, <1>5, <1>9

(* Who changes the innermost frame only, and leaves the names of the slots  *)
(* below it alone.                                                          *)
LEMMA TopStep ==
    ASSUME ScopesAssumption, ScopeInv, frames # <<>>, scope' \in Scope, Hashed(scope'),
           NEW g \in CallFrame, frames' = WithTop(g),
           g.base = Top.base, SameNames(scope, scope', Top.base),
           Below(g, scope'), Kept(g, [x \in Names |-> Find(scope', x)]),
           g.seen = Top.seen
    PROVE  ScopeInv'
  <1> DEFINE n == Len(frames)
  <1>1. /\ frames' \in Seq(CallFrame) /\ Len(frames') = n /\ frames'[n] = g
        /\ \A k \in 1 .. n - 1 : frames'[k] = frames[k]
        /\ Top = frames[n] /\ Top \in CallFrame /\ n \in Nat \ {0}
    BY WithTopIs DEF ScopeInv
  <1>2. ScopeTypeOK'
    BY <1>1 DEF ScopeTypeOK
  <1>3. FramesKept'
    <2> SUFFICES ASSUME NEW k \in 1 .. n
                 PROVE  /\ Below(frames'[k], scope') /\ Kept(frames'[k], View(k)')
                        /\ k < n => frames'[k].base <= frames'[k + 1].base
      BY <1>1 DEF FramesKept
    <2>1. CASE k = n
      BY <1>1, <2>1 DEF View
    <2>2. CASE k < n
      <3>1. frames'[k] = frames[k] /\ frames[k] \in CallFrame /\ k \in 1 .. n
        BY <1>1, <2>2, ElementOfSeq DEF ScopeInv, ScopeTypeOK
      <3>2. /\ Below(frames[k], scope) /\ Kept(frames[k], View(k))
            /\ frames[k].base <= frames[k + 1].base
        BY <2>2 DEF ScopeInv, FramesKept
      <3>3. SameNames(scope, scope', frames[k].base)
        <4>1. frames[k].base <= Top.base /\ frames[k].base \in Nat /\ Top.base \in Nat
          BY <1>1, <3>1, BasesGrow DEF CallFrame
        <4>2. Len(scope.vars) \in Nat /\ Len(scope'.vars) \in Nat
          BY DEF Scope, ScopeInv, ScopeTypeOK
        <4> QED
          BY <4>1, <4>2 DEF SameNames
      <3>4. Below(frames[k], scope')
        BY <3>1, <3>2, <3>3, BelowStays DEF ScopeInv, ScopeTypeOK
      <3>5. frames'[k + 1].seen = frames[k + 1].seen /\ frames'[k + 1].base = frames[k + 1].base
        <4>1. CASE k + 1 = n
          BY <1>1, <4>1
        <4>2. CASE k + 1 # n
          BY <1>1, <2>2, <4>2
        <4> QED
          BY <4>1, <4>2
      <3>6. View(k)' = View(k)
        BY <1>1, <2>2, <3>5 DEF View
      <3> QED
        BY <3>1, <3>2, <3>4, <3>5, <3>6
    <2> QED
      BY <1>1, <2>1, <2>2
  <1>4. GlobalsStay'
    <2>1. Len(Globals) <= Top.base /\ Len(Globals) \in Nat /\ Top.base \in Nat
      BY <1>1 DEF ScopeInv, GlobalsStay, CallFrame, ScopesAssumption
    <2>2. \A k \in 1 .. n : Len(Globals) <= frames'[k].base
      <3> SUFFICES ASSUME NEW k \in 1 .. n PROVE Len(Globals) <= frames'[k].base
        OBVIOUS
      <3>1. CASE k = n
        BY <1>1, <2>1, <3>1
      <3>2. CASE k # n
        BY <1>1, <3>2 DEF ScopeInv, GlobalsStay
      <3> QED
        BY <3>1, <3>2
    <2>3. Len(scope.vars) \in Nat /\ Len(scope'.vars) \in Nat
      BY DEF Scope, ScopeInv, ScopeTypeOK
    <2>4. SameNames([vars |-> Globals], scope', Len(Globals))
      BY <2>1, <2>3 DEF SameNames, ScopeInv, GlobalsStay
    <2> QED
      BY <1>1, <2>2, <2>4 DEF GlobalsStay
  <1> QED
    BY <1>2, <1>3, <1>4 DEF ScopeInv

(* With no call in progress, the globals only have to stay. *)
LEMMA GlobalStep ==
    ASSUME ScopesAssumption, ScopeInv, frames' = <<>>, scope' \in Scope, Hashed(scope'),
           SameNames(scope, scope', Len(Globals))
    PROVE  ScopeInv'
  <1>1. Len(frames') = 0 /\ frames' \in Seq(CallFrame)
    OBVIOUS
  <1>2. Len(scope.vars) \in Nat /\ Len(scope'.vars) \in Nat
    BY DEF Scope, ScopeInv, ScopeTypeOK
  <1>3. SameNames([vars |-> Globals], scope', Len(Globals))
    BY <1>2 DEF SameNames, ScopeInv, GlobalsStay, ScopesAssumption
  <1> QED
    BY <1>1, <1>3 DEF ScopeInv, ScopeTypeOK, GlobalsStay, FramesKept

(* The globals of a state of the walker, and what its innermost call keeps. *)
LEMMA TopKept ==
    ASSUME ScopeInv, frames # <<>>
    PROVE  /\ Top \in CallFrame /\ Below(Top, scope)
           /\ Kept(Top, [x \in Names |-> Find(scope, x)])
           /\ Len(Globals) <= Top.base
           /\ Top.base \in Nat /\ Len(scope.vars) \in Nat /\ Top.base <= Len(scope.vars)
  <1>1. Top = frames[Len(frames)] /\ Top \in CallFrame /\ Len(frames) \in Nat \ {0}
    BY FrontIs DEF ScopeInv
  <1>2. View(Len(frames)) = [x \in Names |-> Find(scope, x)]
    BY DEF View
  <1>3. Len(frames) \in 1 .. Len(frames)
    BY <1>1
  <1>4. Below(Top, scope) /\ Kept(Top, [x \in Names |-> Find(scope, x)])
    BY <1>1, <1>2, <1>3 DEF ScopeInv, FramesKept
  <1>5. Len(Globals) <= Top.base
    BY <1>1, <1>3 DEF ScopeInv, GlobalsStay
  <1>6. Top.base \in Nat /\ Len(scope.vars) \in Nat
    BY <1>1 DEF ScopeInv, ScopeTypeOK, CallFrame, Scope
  <1>7. Top.base <= Len(scope.vars)
    BY <1>4 DEF Below
  <1> QED
    BY <1>1, <1>4, <1>5, <1>6, <1>7

LEMMA SameWhole ==
    ASSUME NEW s \in Scope, NEW t \in Scope, SameNames(s, t, Len(s.vars)),
           NEW n \in Nat, n <= Len(s.vars)
    PROVE  SameNames(s, t, n)
  BY DEF SameNames, Scope

(* Steps that change the slots and the hash only. *)
LEMMA ScopeStep ==
    ASSUME ScopesAssumption, ScopeInv, frames' = frames, scope' \in Scope,
           Hashed(scope'), SameNames(scope, scope', Len(Globals)),
           frames # <<>> => /\ SameNames(scope, scope', Top.base)
                            /\ \A x \in Names : Find(scope, x) \in 1 .. Top.base
                                   => Find(scope', x) = Find(scope, x)
    PROVE  ScopeInv'
  <1>1. CASE frames = <<>>
    BY <1>1, GlobalStep
  <1>2. CASE frames # <<>>
    <2>1. /\ Top \in CallFrame /\ Below(Top, scope)
          /\ Kept(Top, [x \in Names |-> Find(scope, x)])
          /\ Top.base \in Nat
      BY <1>2, TopKept
    <2>2. Below(Top, scope')
      BY <1>2, <2>1, BelowStays DEF ScopeInv, ScopeTypeOK
    <2>3. Kept(Top, [x \in Names |-> Find(scope', x)])
      <3> SUFFICES ASSUME NEW x \in Names, Top.seen[x] # 0
                   PROVE  IF Noting(Top, x) = 0 THEN Find(scope', x) = Top.seen[x]
                          ELSE Top.shadows[Noting(Top, x)].slot = Top.seen[x]
        BY DEF Kept
      <3>1. /\ Top.seen[x] \in 1 .. Top.base
            /\ IF Noting(Top, x) = 0 THEN Find(scope, x) = Top.seen[x]
               ELSE Top.shadows[Noting(Top, x)].slot = Top.seen[x]
        BY <2>1 DEF Below, Kept, CallFrame
      <3> QED
        BY <1>2, <3>1
    <2>4. frames' = WithTop(Top)
      <3>1. /\ WithTop(Top) \in Seq(CallFrame) /\ Len(WithTop(Top)) = Len(frames)
            /\ \A k \in 1 .. Len(frames) : WithTop(Top)[k] = frames[k]
        BY <1>2, <2>1, WithTopIs DEF ScopeInv
      <3> QED
        BY <3>1, SeqEqual DEF ScopeInv, ScopeTypeOK
    <2> HIDE DEF Top
    <2> QED
      BY <1>2, <2>1, <2>2, <2>3, <2>4, TopStep
  <1> QED
    BY <1>1, <1>2

-----------------------------------------------------------------------------
(* One lemma per operation.  Len(Globals) is at most every base. *)
LEMMA BaseIs ==
    ASSUME ScopesAssumption, ScopeInv
    PROVE  /\ Base(frames) \in Nat /\ Len(Globals) <= Base(frames)
           /\ Base(frames) <= Len(scope.vars)
           /\ Len(scope.vars) \in Nat /\ Len(Globals) \in Nat
           /\ frames # <<>> => Base(frames) = Top.base
  <1>1. Len(Globals) \in Nat /\ Len(scope.vars) \in Nat
    BY DEF ScopesAssumption, ScopeInv, ScopeTypeOK, Scope
  <1>2. CASE frames = <<>>
    BY <1>1, <1>2 DEF Base, ScopeInv, GlobalsStay, SameNames
  <1>3. CASE frames # <<>>
    <2>1. Base(frames) = Top.base
      BY <1>3 DEF Base, Top
    <2> QED
      BY <1>1, <1>3, <2>1, TopKept
  <1> QED
    BY <1>2, <1>3

LEMMA ReadKeeps ==
    ASSUME ScopesAssumption, ScopeInv, NEW x \in Names, Read(x)
    PROVE  ScopeInv'
  <1>1. scope \in Scope /\ Hashed(scope) /\ scope' = Primed(scope, {x}) /\ frames' = frames
    BY DEF Read, ScopeInv, ScopeTypeOK
  <1>2. /\ scope' \in Scope /\ Hashed(scope') /\ scope'.vars = scope.vars
        /\ \A y \in Names : Find(scope', y) = Find(scope, y)
    BY <1>1, PrimedIs
  <1>3. SameNames(scope, scope', Base(frames)) /\ SameNames(scope, scope', Len(Globals))
    BY <1>2, BaseIs DEF SameNames
  <1> QED
    BY <1>1, <1>2, <1>3, BaseIs, ScopeStep

LEMMA AssignKeeps ==
    ASSUME ScopesAssumption, ScopeInv, NEW c \in Cells, Assign(c)
    PROVE  ScopeInv'
  <1>1. scope \in Scope /\ Hashed(scope) /\ frames' = frames /\ c.id \in Names
    BY SlotNames DEF Assign, ScopeInv, ScopeTypeOK, Slot
  <1>2. /\ scope' \in Scope /\ Hashed(scope') /\ SameNames(scope, scope', Len(scope.vars))
        /\ \A y \in Names : Find(scope, y) # 0 => Find(scope', y) = Find(scope, y)
    <2>1. CASE Find(scope, c.id) # 0
      <3>1. scope' = [Primed(scope, {c.id}) EXCEPT !.vars[Find(scope, c.id)] = c]
        BY <2>1 DEF Assign
      <3>2. LET t == [Primed(scope, {c.id}) EXCEPT !.vars[Find(scope, c.id)] = c] IN
           /\ t \in Scope /\ Hashed(t)
           /\ Len(t.vars) = Len(scope.vars) /\ SameNames(scope, t, Len(scope.vars))
           /\ \A x \in Names : Find(t, x) = Find(scope, x)
        BY <1>1, <2>1, StoredIs
      <3> QED
        BY <3>1, <3>2, Zenon
    <2>2. CASE Find(scope, c.id) = 0
      <3>1. scope' = Declared(scope, Base(frames), c)
        BY <2>2 DEF Assign
      <3>2. LET t == Declared(scope, Base(frames), c) IN
           /\ t \in Scope /\ Hashed(t)
           /\ Len(scope.vars) <= Len(t.vars) /\ SameNames(scope, t, Len(scope.vars))
           /\ \A x \in Names \ {c.id} : Find(t, x) = Find(scope, x)
           /\ Find(scope, c.id) > Base(frames) => Find(t, c.id) = Find(scope, c.id)
        BY <1>1, BaseIs, DeclaredIs
      <3> QED
        BY <2>2, <3>1, <3>2
    <2> QED
      BY <2>1, <2>2
  <1>3. SameNames(scope, scope', Base(frames)) /\ SameNames(scope, scope', Len(Globals))
    <2>1. Len(Globals) <= Len(scope.vars)
      BY BaseIs
    <2> QED
      BY <1>1, <1>2, <2>1, BaseIs, SameWhole
  <1>4. \A y \in Names : Find(scope, y) \in 1 .. Top.base => Find(scope, y) # 0
    BY <1>1, Found
  <1> QED
    BY <1>1, <1>2, <1>3, <1>4, BaseIs, ScopeStep

LEMMA NextIterationKeeps ==
    ASSUME ScopesAssumption, ScopeInv, NextIteration
    PROVE  ScopeInv'
  <1> DEFINE m == Last(Top.marks)
  <1>1. /\ scope \in Scope /\ Hashed(scope) /\ frames' = frames /\ frames # <<>>
        /\ Top.marks # <<>> /\ Len(scope.vars) > m /\ scope' = Unwound(scope, m)
    BY DEF NextIteration, ScopeInv, ScopeTypeOK
  <1>2. /\ Top \in CallFrame /\ Below(Top, scope) /\ Len(Globals) <= Top.base
        /\ Top.base \in Nat /\ Len(scope.vars) \in Nat
    BY <1>1, TopKept
  <1>3. m \in Nat /\ Top.base <= m
    <2>1. Top.marks \in Seq(Nat) /\ Len(Top.marks) \in 1 .. Len(Top.marks)
      BY <1>1, <1>2, EmptySeq DEF CallFrame
    <2>2. m = Top.marks[Len(Top.marks)]
      BY DEF Last
    <2> QED
      BY <1>2, <2>1, <2>2 DEF Below
  <1>4. m <= Len(scope.vars)
    BY <1>1, <1>2, <1>3
  <1> HIDE DEF m
  <1>5. /\ scope' \in Scope /\ Hashed(scope') /\ Len(scope'.vars) = m
        /\ SameNames(scope, scope', m)
        /\ \A x \in Names : Find(scope, x) \in 1 .. m => Find(scope', x) = Find(scope, x)
    BY <1>1, <1>3, <1>4, UnwoundIs
  <1>6. SameNames(scope, scope', Top.base) /\ SameNames(scope, scope', Len(Globals))
    BY <1>2, <1>3, <1>4, <1>5, BaseIs DEF SameNames
  <1> QED
    BY <1>1, <1>2, <1>3, <1>5, <1>6, ScopeStep

LEMMA LoopKeeps ==
    ASSUME ScopesAssumption, ScopeInv, EnterLoop \/ LeaveLoop
    PROVE  ScopeInv'
  <1>1. /\ scope \in Scope /\ Hashed(scope) /\ scope' = scope /\ frames # <<>>
        /\ Len(scope.vars) \in Nat
    BY DEF EnterLoop, LeaveLoop, ScopeInv, ScopeTypeOK, Scope
  <1>2. /\ Top \in CallFrame /\ Below(Top, scope)
        /\ Kept(Top, [x \in Names |-> Find(scope, x)])
        /\ Top.base \in Nat /\ Top.base <= Len(scope.vars)
    BY <1>1, TopKept
  <1>3. PICK ms : /\ ms = <<Len(scope.vars)>> \/ ms = <<>>
                  /\ frames' = WithTop([Top EXCEPT !.marks = ms])
    BY DEF EnterLoop, LeaveLoop
  <1> DEFINE l == Len(scope.vars)
             b == Top.base
  <1>4. ms \in Seq(Nat) /\ \A k \in 1 .. Len(ms) : ms[k] >= b
    <2>1. l \in Nat /\ b \in Nat /\ l >= b
      BY <1>1, <1>2
    <2> HIDE DEF l, b
    <2>2. CASE ms = <<l>>
      BY <2>1, <2>2
    <2>3. CASE ms = <<>>
      BY <2>3
    <2> QED
      BY <1>3, <2>2, <2>3 DEF l
  <1> DEFINE f == Top
             g == [f EXCEPT !.marks = ms]
  <1>5. f \in CallFrame /\ frames' = WithTop(g)
    BY <1>2, <1>3
  <1> HIDE DEF f
  <1>6. /\ g = [base |-> f.base, shadows |-> f.shadows, marks |-> ms, seen |-> f.seen]
        /\ g.base = f.base /\ g.shadows = f.shadows /\ g.seen = f.seen /\ g.marks = ms
    BY <1>5, Remarked, Zenon
  <1>7. g \in CallFrame
    BY <1>4, <1>5, <1>6 DEF CallFrame
  <1> HIDE DEF g
  <1>8. Below(g, scope)
    <2>1. Below(f, scope) /\ \A k \in 1 .. Len(ms) : ms[k] >= f.base
      BY <1>2, <1>4 DEF f
    <2> QED
      BY <1>6, <2>1 DEF Below
  <1>9. Kept(g, [x \in Names |-> Find(scope, x)])
    <2>1. Kept(f, [x \in Names |-> Find(scope, x)])
      BY <1>2 DEF f
    <2>2. \A x \in Names : Noting(g, x) = Noting(f, x)
      BY <1>6 DEF Noting
    <2> QED
      BY <1>6, <2>1, <2>2 DEF Kept
  <1>10. SameNames(scope, scope', Top.base)
    BY <1>1, <1>2 DEF SameNames
  <1>11. g.base = Top.base /\ g.seen = Top.seen
    BY <1>6 DEF f
  <1> QED
    BY <1>1, <1>5, <1>7, <1>8, <1>9, <1>10, <1>11, TopStep

LEMMA DeclareStepKeeps ==
    ASSUME ScopesAssumption, ScopeInv, NEW c \in Cells, Declare(c)
    PROVE  ScopeInv'
  <1>1. scope \in Scope /\ Hashed(scope) /\ scope' = Declared(scope, Base(frames), c)
    BY DEF Declare, ScopeInv, ScopeTypeOK
  <1>2. /\ scope' \in Scope /\ Hashed(scope')
        /\ SameNames(scope, scope', Len(scope.vars))
    BY <1>1, BaseIs, DeclaredIs
  <1>3. CASE frames = <<>>
    <2>1. SameNames(scope, scope', Len(Globals))
      <3>1. Len(Globals) <= Len(scope.vars)
        BY BaseIs
      <3> QED
        BY <1>1, <1>2, <3>1, BaseIs, SameWhole
    <2> QED
      BY <1>2, <1>3, <2>1, GlobalStep DEF Declare
  <1>4. CASE frames # <<>>
    <2>1. /\ Top \in CallFrame /\ Below(Top, scope)
          /\ Kept(Top, [x \in Names |-> Find(scope, x)])
          /\ Top.base \in Nat /\ Top.base <= Len(scope.vars)
      BY <1>4, TopKept
    <2>2. frames' = WithTop(Noted(Top, scope, c.id)) /\ Base(frames) = Top.base
      BY <1>4, BaseIs DEF Declare
    <2> DEFINE g == Noted(Top, scope, c.id)
    <2>3. /\ g \in CallFrame /\ g.base = Top.base /\ g.seen = Top.seen
          /\ Below(g, scope') /\ Kept(g, [x \in Names |-> Find(scope', x)])
      BY <1>1, <2>1, <2>2, DeclareKeeps
    <2>4. SameNames(scope, scope', Top.base)
      BY <1>1, <1>2, <2>1, SameWhole
    <2> HIDE DEF g
    <2>5. frames' = WithTop(g)
      BY <2>2 DEF g
    <2> QED
      BY <1>2, <1>4, <2>3, <2>4, <2>5, TopStep
  <1> QED
    BY <1>3, <1>4

(* A new frame: what its maker's names lead to is what it has seen.         *)
LEMMA NewFrameIs ==
    ASSUME NEW s \in Scope, Hashed(s)
    PROVE  /\ NewFrame(s) \in CallFrame /\ NewFrame(s).base = Len(s.vars)
           /\ NewFrame(s).seen = [x \in Names |-> Find(s, x)]
           /\ Below(NewFrame(s), s) /\ Kept(NewFrame(s), [x \in Names |-> Find(s, x)])
  <1> DEFINE f == NewFrame(s)
             v == [x \in Names |-> Find(s, x)]
  <1>1. Len(s.vars) \in Nat
    BY DEF Scope
  <1>2. \A x \in Names : /\ v[x] \in 0 .. Len(s.vars)
                         /\ v[x] # 0 => s.vars[v[x]].id = x
                         /\ v[x] = 0 => \A i \in 1 .. Len(s.vars) : s.vars[i].id # x
    BY Found
  <1>3. v \in [Names -> Nat]
    BY <1>1, <1>2
  <1>4. f = [base |-> Len(s.vars), shadows |-> <<>>, marks |-> <<>>, seen |-> v]
    BY DEF NewFrame
  <1> HIDE DEF v, f
  <1>5. /\ f.base = Len(s.vars) /\ f.shadows = <<>> /\ f.marks = <<>> /\ f.seen = v
        /\ f \in CallFrame
    BY <1>1, <1>3, <1>4 DEF CallFrame
  <1>6. Below(f, s)
    BY <1>1, <1>2, <1>5 DEF Below
  <1>7. \A x \in Names : Noting(f, x) = 0
    BY <1>5, FirstNote
  <1>8. Kept(f, v)
    BY <1>5, <1>7 DEF Kept
  <1> QED
    BY <1>5, <1>6, <1>8 DEF f, v

LEMMA FrameIs ==
    ASSUME ScopeInv, NEW k \in 1 .. Len(frames)
    PROVE  /\ frames[k] \in CallFrame /\ frames[k].base \in Nat
           /\ Below(frames[k], scope) /\ Kept(frames[k], View(k))
           /\ frames[k].base <= Len(scope.vars)
           /\ k < Len(frames) => frames[k].base <= frames[k + 1].base
           /\ Len(Globals) <= frames[k].base
  <1>1. frames[k] \in CallFrame
    BY ElementOfSeq DEF ScopeInv, ScopeTypeOK
  <1>2. /\ Below(frames[k], scope) /\ Kept(frames[k], View(k))
        /\ k < Len(frames) => frames[k].base <= frames[k + 1].base
        /\ Len(Globals) <= frames[k].base
    BY DEF ScopeInv, FramesKept, GlobalsStay
  <1>3. frames[k].base \in Nat
    BY <1>1 DEF CallFrame
  <1>4. frames[k].base <= Len(scope.vars)
    BY <1>2 DEF Below
  <1> QED
    BY <1>1, <1>2, <1>3, <1>4

LEMMA CallKeeps ==
    ASSUME ScopesAssumption, ScopeInv, NEW c \in Cells, CallFunction(c)
    PROVE  ScopeInv'
  <1> DEFINE n == Len(frames)
             f == NewFrame(scope)
             g == Noted(f, scope, c.id)
  <1>1. /\ scope \in Scope /\ Hashed(scope) /\ frames \in Seq(CallFrame) /\ n \in Nat
        /\ scope' = Declared(scope, f.base, c) /\ frames' = Append(frames, g)
    BY DEF CallFunction, ScopeInv, ScopeTypeOK
  <1>2. /\ f \in CallFrame /\ f.base = Len(scope.vars)
        /\ f.seen = [x \in Names |-> Find(scope, x)]
        /\ Below(f, scope) /\ Kept(f, [x \in Names |-> Find(scope, x)])
    BY <1>1, NewFrameIs
  <1>3. Len(scope.vars) \in Nat
    BY <1>1 DEF Scope
  <1> HIDE DEF f
  <1>4. /\ scope' \in Scope /\ Hashed(scope')
        /\ SameNames(scope, scope', Len(scope.vars))
    BY <1>1, <1>2, <1>3, DeclaredIs
  <1>5. /\ g \in CallFrame /\ g.base = f.base /\ g.seen = f.seen
        /\ Below(g, scope') /\ Kept(g, [x \in Names |-> Find(scope', x)])
    BY <1>1, <1>2, DeclareKeeps
  <1> HIDE DEF g
  <1>6. /\ frames' \in Seq(CallFrame) /\ Len(frames') = n + 1 /\ frames'[n + 1] = g
        /\ \A k \in 1 .. n : frames'[k] = frames[k]
    BY <1>1, <1>5, AppendProperties
  <1> HIDE DEF n
  <1>7. \A k \in 1 .. n : /\ frames[k] \in CallFrame /\ frames[k].base \in Nat
                          /\ Below(frames[k], scope) /\ Kept(frames[k], View(k))
                          /\ frames[k].base <= Len(scope.vars)
                          /\ k < n => frames[k].base <= frames[k + 1].base
                          /\ Len(Globals) <= frames[k].base
    BY FrameIs DEF n
  <1>8. FramesKept'
    <2> SUFFICES ASSUME NEW k \in 1 .. n + 1
                 PROVE  /\ Below(frames'[k], scope') /\ Kept(frames'[k], View(k)')
                        /\ k < n + 1 => frames'[k].base <= frames'[k + 1].base
      BY <1>6 DEF FramesKept
    <2>1. CASE k = n + 1
      BY <1>1, <1>5, <1>6, <2>1 DEF View, n
    <2>2. CASE k # n + 1
      <3>1. k \in 1 .. n /\ frames'[k] = frames[k]
        BY <1>1, <1>6, <2>2 DEF n
      <3>2. SameNames(scope, scope', frames[k].base)
        BY <1>1, <1>4, <1>7, <3>1, SameWhole
      <3>3. Below(frames'[k], scope')
        BY <1>1, <1>4, <1>7, <3>1, <3>2, BelowStays
      <3>4. View(k)' = View(k)
        <4>1. CASE k = n
          <5>1. View(k) = [x \in Names |-> Find(scope, x)]
            BY <4>1 DEF View, n
          <5>2. View(k)' = frames'[k + 1].seen
            BY <1>1, <1>6, <4>1 DEF View, n
          <5> QED
            BY <1>2, <1>5, <1>6, <4>1, <5>1, <5>2
        <4>2. CASE k # n
          <5>1. k + 1 \in 1 .. n /\ frames'[k + 1] = frames[k + 1]
            BY <1>1, <1>6, <3>1, <4>2 DEF n
          <5> QED
            BY <1>1, <1>6, <3>1, <4>2, <5>1 DEF View, n
        <4> QED
          BY <4>1, <4>2
      <3>5. frames'[k].base <= frames'[k + 1].base
        <4>1. CASE k = n
          BY <1>2, <1>5, <1>6, <1>7, <3>1, <4>1
        <4>2. CASE k # n
          <5>1. k + 1 \in 1 .. n /\ k < n
            BY <1>1, <3>1, <4>2 DEF n
          <5> QED
            BY <1>6, <1>7, <3>1, <5>1
        <4> QED
          BY <4>1, <4>2
      <3> QED
        BY <1>7, <3>1, <3>3, <3>4, <3>5
    <2> QED
      BY <2>1, <2>2
  <1>9. GlobalsStay'
    <2>1. Len(Globals) \in Nat /\ Len(Globals) <= Len(scope.vars)
      BY BaseIs
    <2>2. \A k \in 1 .. n + 1 : Len(Globals) <= frames'[k].base
      <3> SUFFICES ASSUME NEW k \in 1 .. n + 1 PROVE Len(Globals) <= frames'[k].base
        OBVIOUS
      <3>1. CASE k = n + 1
        BY <1>2, <1>5, <1>6, <2>1, <3>1
      <3>2. CASE k # n + 1
        <4>1. k \in 1 .. n
          BY <1>1, <3>2 DEF n
        <4> QED
          BY <1>6, <1>7, <4>1
      <3> QED
        BY <3>1, <3>2
    <2>3. Len(scope'.vars) \in Nat
      BY <1>4 DEF Scope
    <2>4. SameNames([vars |-> Globals], scope', Len(Globals))
      BY <1>3, <1>4, <2>1, <2>3 DEF SameNames, ScopeInv, GlobalsStay
    <2> QED
      BY <1>6, <2>2, <2>4 DEF GlobalsStay
  <1> QED
    BY <1>4, <1>6, <1>8, <1>9 DEF ScopeInv, ScopeTypeOK

(* The caller's names lead where they led when it made the call. *)
LEMMA ReturnIs ==
    ASSUME ScopesAssumption, ScopeInv, ReturnFromCall
    PROVE  /\ scope' \in Scope /\ Hashed(scope') /\ Len(scope'.vars) = Top.base
           /\ SameNames(scope, scope', Top.base)
           /\ \A x \in Names : Find(scope', x) = Top.seen[x]
           /\ Top \in CallFrame
  <1>1. /\ scope \in Scope /\ Hashed(scope) /\ frames # <<>> /\ scope' = Popped(scope, Top)
    BY DEF ReturnFromCall, ScopeInv, ScopeTypeOK
  <1>2. /\ Top \in CallFrame /\ Below(Top, scope)
        /\ Kept(Top, [x \in Names |-> Find(scope, x)])
    BY <1>1, TopKept
  <1> QED
    BY <1>1, <1>2, PoppedIs

LEMMA ReturnKeeps ==
    ASSUME ScopesAssumption, ScopeInv, ReturnFromCall
    PROVE  ScopeInv'
  <1> DEFINE n == Len(frames)
  <1>1. /\ scope' \in Scope /\ Hashed(scope') /\ Len(scope'.vars) = Top.base
        /\ SameNames(scope, scope', Top.base)
        /\ \A x \in Names : Find(scope', x) = Top.seen[x]
        /\ Top \in CallFrame
    BY ReturnIs
  <1>2. /\ frames' \in Seq(CallFrame) /\ Len(frames') = n - 1
        /\ \A k \in 1 .. n - 1 : frames'[k] = frames[k]
        /\ Top = frames[n] /\ n \in Nat \ {0} /\ frames # <<>>
    BY FrontIs DEF ReturnFromCall, ScopeInv
  <1>3. \A k \in 1 .. n : /\ frames[k] \in CallFrame /\ frames[k].base \in Nat
                          /\ Below(frames[k], scope) /\ Kept(frames[k], View(k))
                          /\ frames[k].base <= Top.base
                          /\ k < n => frames[k].base <= frames[k + 1].base
                          /\ Len(Globals) <= frames[k].base
    BY <1>2, FrameIs, BasesGrow
  <1>4. Top.base \in Nat /\ Top.seen \in [Names -> Nat]
    BY <1>1 DEF CallFrame
  <1> HIDE DEF n
  <1>5. FramesKept'
    <2> SUFFICES ASSUME NEW k \in 1 .. n - 1
                 PROVE  /\ Below(frames'[k], scope') /\ Kept(frames'[k], View(k)')
                        /\ k < n - 1 => frames'[k].base <= frames'[k + 1].base
      BY <1>2 DEF FramesKept
    <2>1. k \in 1 .. n /\ k < n /\ frames'[k] = frames[k]
      BY <1>2
    <2>2. SameNames(scope, scope', frames[k].base)
      <3>1. Len(scope.vars) \in Nat /\ Len(scope'.vars) \in Nat
        BY <1>1 DEF ScopeInv, ScopeTypeOK, Scope
      <3> QED
        BY <1>1, <1>3, <1>4, <2>1, <3>1 DEF SameNames
    <2>3. Below(frames'[k], scope')
      BY <1>1, <1>3, <2>1, <2>2, BelowStays DEF ScopeInv, ScopeTypeOK
    <2>4. View(k)' = View(k)
      <3>1. View(k) = frames[k + 1].seen
        BY <2>1 DEF View, n
      <3>2. CASE k = n - 1
        <4>1. View(k)' = [x \in Names |-> Find(scope', x)]
          BY <1>2, <3>2 DEF View
        <4>2. View(k)' = [x \in Names |-> Top.seen[x]]
          BY <1>1, <4>1
        <4>3. k + 1 = n
          BY <1>2, <3>2
        <4> QED
          BY <1>2, <1>4, <3>1, <4>2, <4>3
      <3>3. CASE k # n - 1
        <4>1. k + 1 \in 1 .. n - 1 /\ View(k)' = frames'[k + 1].seen
          BY <1>2, <3>3 DEF View
        <4> QED
          BY <1>2, <3>1, <4>1
      <3> QED
        BY <3>2, <3>3
    <2>5. k < n - 1 => frames'[k].base <= frames'[k + 1].base
      <3> SUFFICES ASSUME k < n - 1 PROVE frames'[k].base <= frames'[k + 1].base
        OBVIOUS
      <3>1. k + 1 \in 1 .. n - 1
        BY <1>2
      <3>2. frames'[k + 1] = frames[k + 1]
        BY <1>2, <3>1
      <3>3. frames[k].base <= frames[k + 1].base
        BY <1>3, <2>1
      <3> QED
        BY <2>1, <3>2, <3>3
    <2> QED
      BY <1>3, <2>1, <2>3, <2>4, <2>5
  <1>6. GlobalsStay'
    <2>1. n \in 1 .. n /\ Len(Globals) <= Top.base /\ Len(Globals) \in Nat
      BY <1>2, <1>3 DEF ScopesAssumption
    <2>2. \A k \in 1 .. n - 1 : Len(Globals) <= frames'[k].base
      BY <1>2, <1>3
    <2>3. SameNames([vars |-> Globals], scope', Len(Globals))
      BY <1>1, <1>4, <2>1 DEF SameNames, ScopeInv, GlobalsStay
    <2> QED
      BY <1>2, <2>2, <2>3 DEF GlobalsStay
  <1> QED
    BY <1>1, <1>2, <1>5, <1>6 DEF ScopeInv, ScopeTypeOK

(* After a reset every global leads to its own slot again. *)
LEMMA ResetIs ==
    ASSUME ScopesAssumption, ScopeInv, ResetVars
    PROVE  /\ scope' \in Scope /\ Hashed(scope') /\ Len(scope'.vars) = Len(Globals)
           /\ SameNames(scope, scope', Len(Globals))
           /\ \A i \in 1 .. Len(Globals) : Find(scope', Globals[i].id) = i
  <1> DEFINE g == Len(Globals)
             v == SubSeq(scope.vars, 1, g)
             t == [vars |-> v, sym |-> Indexed(v)]
  <1>1. /\ scope' = t /\ scope.vars \in Seq(Slot) /\ g \in Nat /\ g <= Len(scope.vars)
        /\ Len(scope.vars) \in Nat
    BY BaseIs DEF ResetVars, ScopeInv, ScopeTypeOK, Scope
  <1>2. /\ v \in Seq(Slot) /\ Len(v) = g
        /\ \A i \in 1 .. g : v[i] = scope.vars[i]
    <2>1. \A i \in 1 .. g : scope.vars[i] \in Slot
      BY <1>1, ElementOfSeq
    <2>2. /\ v \in Seq(Slot)
          /\ Len(v) = IF 1 <= g THEN g - 1 + 1 ELSE 0
          /\ \A i \in 1 .. g - 1 + 1 : v[i] = scope.vars[1 + i - 1]
      BY <1>1, <2>1, SubSeqProperties
    <2> HIDE DEF v, g
    <2> QED
      BY <1>1, <2>2
  <1>3. t \in Scope /\ Hashed(t) /\ t.vars = v
    BY <1>2, IndexedIs
  <1> HIDE DEF v, t
  <1>4. SameNames(scope, scope', g)
    BY <1>1, <1>2, <1>3 DEF SameNames
  <1>5. ASSUME NEW i \in 1 .. g PROVE Find(scope', Globals[i].id) = i
    <2> DEFINE x == Globals[i].id
    <2>1. x \in Names /\ \A j \in 1 .. g : Globals[j].id = x => j = i
      BY DEF ScopesAssumption
    <2>2. \A j \in 1 .. g : scope'.vars[j].id = Globals[j].id
      BY <1>4 DEF ScopeInv, GlobalsStay, SameNames
    <2> HIDE DEF x
    <2>3. /\ Find(scope', x) \in 0 .. Len(scope'.vars)
          /\ Find(scope', x) # 0 => scope'.vars[Find(scope', x)].id = x
          /\ Find(scope', x) = 0 => \A j \in 1 .. Len(scope'.vars) : scope'.vars[j].id # x
      BY <1>1, <1>3, <2>1, Found
    <2>4. scope'.vars[i].id = x
      BY <2>2 DEF x
    <2>5. Len(scope'.vars) = g
      BY <1>1, <1>2, <1>3
    <2>6. Find(scope', x) = i
      BY <2>1, <2>2, <2>3, <2>4, <2>5
    <2> QED
      BY <2>6 DEF x
  <1> QED
    BY <1>1, <1>2, <1>3, <1>4, <1>5

-----------------------------------------------------------------------------
LEMMA ScopeInvInit ==
    ASSUME ScopesAssumption, ScopesInit PROVE ScopeInv
  <1>1. /\ scope = [vars |-> Globals, sym |-> Indexed(Globals)] /\ frames = <<>>
        /\ Len(Globals) \in Nat
    BY DEF ScopesInit, ScopesAssumption
  <1>2. Globals \in Seq(Slot)
    <2>1. Globals \in Seq(ToSet(Globals)) /\ ToSet(Globals) \subseteq Slot
      BY DEF ScopesAssumption, Slot
    <2> HIDE DEF Slot
    <2> QED
      BY <2>1
  <1>3. scope \in Scope /\ Hashed(scope) /\ scope.vars = Globals
    BY <1>1, <1>2, IndexedIs
  <1>4. Len(frames) = 0 /\ frames \in Seq(CallFrame)
    BY <1>1
  <1>5. SameNames([vars |-> Globals], scope, Len(Globals))
    BY <1>1, <1>3 DEF SameNames
  <1> QED
    BY <1>3, <1>4, <1>5 DEF ScopeInv, ScopeTypeOK, GlobalsStay, FramesKept

LEMMA ScopeInvNext ==
    ASSUME ScopesAssumption, ScopeInv, [ScopesNext]_<<scope, frames>> PROVE ScopeInv'
  <1>1. CASE ReturnFromCall
    BY <1>1, ReturnKeeps
  <1>2. CASE EnterLoop \/ LeaveLoop
    BY <1>2, LoopKeeps
  <1>3. CASE NextIteration
    BY <1>3, NextIterationKeeps
  <1>4. CASE ResetVars
    BY <1>4, ResetIs, GlobalStep DEF ResetVars
  <1>5. ASSUME NEW c \in Cells, Declare(c) \/ Assign(c) \/ CallFunction(c) PROVE ScopeInv'
    BY <1>5, DeclareStepKeeps, AssignKeeps, CallKeeps
  <1>6. ASSUME NEW x \in Names, Read(x) PROVE ScopeInv'
    BY <1>6, ReadKeeps
  <1>7. CASE UNCHANGED <<scope, frames>>
    BY <1>7 DEF ScopeInv, ScopeTypeOK, GlobalsStay, FramesKept, View
  <1> QED
    BY <1>1, <1>2, <1>3, <1>4, <1>5, <1>6, <1>7 DEF ScopesNext, Run

(* The hash leads no name to a slot of another or to one that is gone; what *)
(* every call in progress has noted lies below it; and either a name its    *)
(* maker could see leads where it led, or the first note says where         *)
(* (te_frame_push, te_frame_note_shadow, te_frame_pop, te_scope_unwind_to). *)
THEOREM ScopeInvariant ==
    ASSUME ScopesAssumption PROVE ScopesSpec => []ScopeInv
  <1>1. ScopesInit => ScopeInv
    BY ScopeInvInit
  <1>2. ScopeInv /\ [ScopesNext]_<<scope, frames>> => ScopeInv'
    BY ScopeInvNext
  <1> QED
    BY <1>1, <1>2, PTL DEF ScopesSpec

(* One step that ends a call, by its return or by the reset of the request. *)
LEMMA StepSeesItsOwn ==
    ASSUME ScopesAssumption, ScopeInv, [ScopesNext]_<<scope, frames>>,
           frames # <<>>, frames' = Front(frames), Len(scope'.vars) = Top.base,
           NEW x \in Names, Top.seen[x] # 0
    PROVE  Find(scope', x) = Top.seen[x]
  <1> DEFINE n == Len(frames)
  <1>1. /\ Len(frames') = n - 1 /\ n \in Nat \ {0} /\ Top \in CallFrame
        /\ frames \in Seq(CallFrame)
    BY FrontIs DEF ScopeInv, ScopeTypeOK
  <1>2. CASE ReturnFromCall
    BY <1>2, ReturnIs
  <1>3. CASE ResetVars
    <2>1. /\ Len(scope'.vars) = Len(Globals) /\ SameNames(scope, scope', Len(Globals))
          /\ \A i \in 1 .. Len(Globals) : Find(scope', Globals[i].id) = i
      BY <1>3, ResetIs
    <2>2. Below(Top, scope) /\ Top.base = Len(Globals)
      BY <2>1, TopKept
    <2>3. Top.seen[x] \in 1 .. Len(Globals) /\ scope.vars[Top.seen[x]].id = x
      BY <1>1, <2>2 DEF Below, CallFrame
    <2>4. Globals[Top.seen[x]].id = x
      BY <2>3 DEF ScopeInv, GlobalsStay, SameNames
    <2> QED
      BY <2>1, <2>3, <2>4
  <1>4. Len(frames') # n
    BY <1>1
  <1>5. ~ (EnterLoop \/ LeaveLoop)
    <2> SUFFICES ASSUME EnterLoop \/ LeaveLoop PROVE FALSE
      OBVIOUS
    <2>1. PICK ms : /\ ms = <<Len(scope.vars)>> \/ ms = <<>>
                    /\ frames' = WithTop([Top EXCEPT !.marks = ms])
      BY DEF EnterLoop, LeaveLoop
    <2> DEFINE g == [Top EXCEPT !.marks = ms]
    <2>2. Len(WithTop(g)) = n
      <3>1. WithTop(g) = Front(frames) \o <<g>>
        BY DEF WithTop
      <3>2. Front(frames) \in Seq(CallFrame) /\ Len(Front(frames)) = n - 1
        BY FrontIs DEF ScopeInv
      <3> HIDE DEF g
      <3>3. Len(Front(frames) \o <<g>>) = Len(Front(frames)) + 1
        BY <3>2
      <3> HIDE DEF n
      <3> QED
        BY <1>1, <3>1, <3>2, <3>3
    <2> QED
      BY <1>4, <2>1, <2>2
  <1>6. ASSUME NEW c \in Cells, Declare(c) \/ Assign(c) \/ CallFunction(c) PROVE FALSE
    <2>1. CASE Declare(c)
      <3>1. Top \in CallFrame /\ Below(Top, scope)
        BY TopKept
      <3>2. Noted(Top, scope, c.id) \in CallFrame
        BY <3>1, NotedIs, SlotNames DEF ScopeInv, ScopeTypeOK, Slot
      <3>3. frames' = WithTop(Noted(Top, scope, c.id))
        BY <2>1 DEF Declare
      <3>4. Len(WithTop(Noted(Top, scope, c.id))) = n
        BY <3>2, WithTopIs DEF ScopeInv
      <3> QED
        BY <1>4, <3>3, <3>4
    <2>2. CASE Assign(c)
      BY <1>4, <2>2 DEF Assign
    <2>3. CASE CallFunction(c)
      <3>1. PICK g : frames' = Append(frames, g)
        BY <2>3 DEF CallFunction
      <3>2. Len(frames') = n + 1
        BY <1>1, <3>1
      <3> QED
        BY <1>1, <3>2
    <2> QED
      BY <1>6, <2>1, <2>2, <2>3
  <1>7. ~ (NextIteration \/ UNCHANGED <<scope, frames>> \/ \E y \in Names : Read(y))
    BY <1>4 DEF NextIteration, Read
  <1> QED
    BY <1>2, <1>3, <1>5, <1>6, <1>7 DEF ScopesNext, Run

(* A call leaves its caller's names alone: when it returns, each leads to   *)
(* the slot it led to when the call was made, whatever the function, its    *)
(* loops and the calls it made declared (te_frame_pop, ast.c).              *)
THEOREM CallersKeepTheirNames ==
    ASSUME ScopesAssumption PROVE ScopesSpec => CallerSeesItsOwn
  <1>1. ScopeInv /\ [ScopesNext]_<<scope, frames>>
        => [frames # <<>> /\ frames' = Front(frames) /\ Len(scope'.vars) = Top.base
            => \A x \in Names : Top.seen[x] # 0 => Find(scope', x) = Top.seen[x]]_<<scope, frames>>
    BY StepSeesItsOwn
  <1> QED
    BY <1>1, ScopeInvariant, PTL DEF ScopesSpec, CallerSeesItsOwn
=============================================================================
