---------------------------- MODULE Flow_proofs ----------------------------
(***************************************************************************)
(* The flags of the tree walker go where they belong, in any program, at   *)
(* any depth and with any thrown values: a return ends its own call, a     *)
(* catch receives what was thrown under it, and a break or a continue is   *)
(* spent by its own loop.                                                  *)
(*                                                                         *)
(* Flow names a handler, a call and a loop by their place on the stack.    *)
(* The invariants say what the frames above that place are not, so that a  *)
(* step, which only touches the top of the stack, is looked at once.       *)
(***************************************************************************)
EXTENDS Flow, SequenceTheorems, WellFoundedInduction, TLAPS

Thrown == Values \cup {Error, None}
Messages == {TextOf(v) : v \in Thrown} \cup {None}
Exceptions == [v : Thrown, home : Nat, due : Nat, first : Thrown]

Blocks  == [k : {"block"}, fresh : BOOLEAN]
Loops   == [k : {"loop"}]
Methods == [k : {"method"}, type : {"void", "typed", "dynamic"}]
Lambdas == [k : {"lambda"}, saved : BOOLEAN]
Returns == [k : {"return", "operand"}]
Tries   == [k : {"try"}, at : {"body", "catch", "finally"}, catches : BOOLEAN,
            finally : BOOLEAN, pending : BOOLEAN, saved : Messages, kept : Exceptions]

Frame == Blocks \cup Loops \cup Methods \cup Lambdas \cup Returns \cup Tries

TypeOK ==
    /\ stack \in Seq(Frame)
    /\ thr \in BOOLEAN /\ msg \in Messages /\ val \in Thrown /\ exc \in Exceptions
    /\ ret \in BOOLEAN /\ retNode \in {"none", "expression", "call"}
    /\ retHome \in Nat /\ retDue \in Nat
    /\ brk \in BOOLEAN /\ cont \in BOOLEAN /\ breakHome \in Nat

(* The place h holds the innermost frame of its kind among the first n of  *)
(* s; it is 0 when there is none.  Sequence and length are parameters, so  *)
(* that what is said of a stack can be said of the next one.                *)
Catcher(f) == f.k = "try" /\ f.at = "body" /\ f.catches = TRUE
Handles(h, s, n) ==
    /\ h \in 0 .. n
    /\ h # 0 => Catcher(s[h])
    /\ \A j \in h + 1 .. n : ~ Catcher(s[j])

Calling(h, s, n) ==
    /\ h \in 0 .. n
    /\ h # 0 => s[h].k \in CallFrames
    /\ \A j \in h + 1 .. n : s[j].k \notin CallFrames

Looping(h, s, n) ==
    /\ h \in 0 .. n
    /\ h # 0 => s[h].k = "loop"
    /\ \A j \in h + 1 .. n : s[j].k # "loop"

(* Only the top block has yet to begin; no lambda was entered under a       *)
(* return, and an exception is put aside by a finally alone.                *)
Aside(f) == f.k = "try" /\ f.pending = TRUE
Frames(s, n) ==
    /\ \A i \in 1 .. n - 1 : s[i].k = "block" => s[i].fresh = FALSE
    /\ \A i \in 1 .. n : s[i].k = "lambda" => s[i].saved = FALSE
    /\ \A i \in 1 .. n : Aside(s[i]) => s[i].at = "finally"

(* The exception in flight is heading for the innermost handler, and so is  *)
(* one put aside by a finally, for the innermost below it.  While nothing   *)
(* is in flight, throw_value is that of the exception put aside last, or no *)
(* container.                                                               *)
Throws(s, n, t, m, v, e) ==
    /\ t = TRUE => /\ Handles(e.home, s, n)
                   /\ m = TextOf(e.v)
                   /\ v \in Containers => v = e.v
    /\ \A i \in 1 .. n : Aside(s[i]) =>
           /\ Handles(s[i].kept.home, s, i - 1)
           /\ s[i].saved = TextOf(s[i].kept.v)
           /\ t = FALSE /\ v \in Containers /\ (\A j \in i + 1 .. n : ~ Aside(s[j]))
                 => v = s[i].kept.v

(* The loop of the jump under way is still there; whatever loop lies above  *)
(* it, or may yet be entered, is inside a catch or a finally.               *)
Apart(h, s, n) == \E j \in h + 1 .. n :
                     s[j].k = "try" /\ s[j].at \in {"catch", "finally"}
Jumps(s, n, b, c, h) ==
    /\ b = TRUE /\ c = TRUE => h = 0
    /\ (b = TRUE \/ c = TRUE) /\ h # 0 /\ n # 0 =>
           /\ h \in 1 .. n
           /\ s[h].k = "loop"
           /\ \A i \in h + 1 .. n : s[i].k = "loop" => Apart(h, s, i - 1)
           /\ s[n].k = "block" /\ s[n].fresh = TRUE => Apart(h, s, n)

FramesInv == Frames(stack, Len(stack))
ReturnInv == ret /\ stack # <<>> => Calling(retHome, stack, Len(stack))
ThrowInv  == Throws(stack, Len(stack), thr, msg, val, exc)
JumpInv   == Jumps(stack, Len(stack), brk, cont, breakHome)

(* The inductive invariant.  ReturnsToItsCaller and CatchesTheThrown speak  *)
(* of the top of the stack only, JumpsStayInLoop of one loop; this speaks   *)
(* of every frame that the unwinding may come to.                           *)
IInv == TypeOK /\ FramesInv /\ ReturnInv /\ ThrowInv /\ JumpInv

-----------------------------------------------------------------------------
(* Innermost is the greatest index of a kind, or 0.                         *)
LEMMA Greatest ==
    ASSUME NEW n \in Nat, NEW S \in SUBSET (1 .. n)
    PROVE  /\ Max({0} \cup S) \in {0} \cup S
           /\ \A y \in S : y <= Max({0} \cup S)
  <1> DEFINE U == {0} \cup S
             T == {n - y : y \in U}
  <1>1. T \in SUBSET Nat /\ T # {}
    OBVIOUS
  <1>2. PICK m \in T : \A z \in T : ~ (<<z, m>> \in OpToRel(<, Nat))
    BY <1>1, WFMin, NatLessThanWellFounded, Zenon
  <1>3. \A z \in T : ~ (z < m)
    BY <1>1, <1>2, Zenon DEF OpToRel
  <1>4. PICK x \in U : m = n - x
    OBVIOUS
  <1>5. ASSUME NEW y \in U PROVE x >= y
    <2>1. n - y \in T /\ x \in Int /\ y \in Int
      OBVIOUS
    <2>2. ~ (n - y < n - x)
      BY <1>3, <1>4, <2>1
    <2> QED
      BY <2>1, <2>2
  <1>6. Max(U) \in U /\ \A y \in U : Max(U) >= y
    BY <1>5, Zenon DEF Max
  <1> QED
    BY <1>6

LEMMA HandlerIs ==
    ASSUME NEW s \in Seq(Frame)
    PROVE  /\ HandlerOf(s) \in Nat
           /\ Handles(HandlerOf(s), s, Len(s))
           /\ \A h \in Nat : Handles(h, s, Len(s)) => h = HandlerOf(s)
  <1> DEFINE n == Len(s)
             S == {i \in 1 .. n : Catcher(s[i])}
             h0 == Max({0} \cup S)
  <1>1. n \in Nat /\ DOMAIN s = 1 .. n
    BY LenProperties
  <1>2. HandlerOf(s) = h0
    BY <1>1 DEF HandlerOf, Innermost, Catcher
  <1>3. h0 \in {0} \cup S /\ \A y \in S : y <= h0
    BY <1>1, Greatest
  <1> HIDE DEF h0
  <1>4. Handles(h0, s, n)
    BY <1>1, <1>3 DEF Handles
  <1>5. ASSUME NEW h \in Nat, Handles(h, s, n) PROVE h = h0
    BY <1>1, <1>3, <1>4, <1>5 DEF Handles
  <1> QED
    BY <1>1, <1>2, <1>3, <1>4, <1>5

LEMMA CallIs ==
    ASSUME NEW s \in Seq(Frame)
    PROVE  /\ CallOf(s) \in Nat
           /\ Calling(CallOf(s), s, Len(s))
           /\ \A h \in Nat : Calling(h, s, Len(s)) => h = CallOf(s)
  <1> DEFINE n == Len(s)
             S == {i \in 1 .. n : s[i].k \in CallFrames}
             h0 == Max({0} \cup S)
  <1>1. n \in Nat /\ DOMAIN s = 1 .. n
    BY LenProperties
  <1>2. CallOf(s) = h0
    BY <1>1 DEF CallOf, Innermost
  <1>3. h0 \in {0} \cup S /\ \A y \in S : y <= h0
    BY <1>1, Greatest
  <1> HIDE DEF h0
  <1>4. Calling(h0, s, n)
    BY <1>1, <1>3 DEF Calling
  <1>5. ASSUME NEW h \in Nat, Calling(h, s, n) PROVE h = h0
    BY <1>1, <1>3, <1>4, <1>5 DEF Calling
  <1> QED
    BY <1>1, <1>2, <1>3, <1>4, <1>5

LEMMA LoopIs ==
    ASSUME NEW s \in Seq(Frame)
    PROVE  /\ LoopOf(s) \in Nat
           /\ Looping(LoopOf(s), s, Len(s))
           /\ \A h \in Nat : Looping(h, s, Len(s)) => h = LoopOf(s)
  <1> DEFINE n == Len(s)
             S == {i \in 1 .. n : s[i].k = "loop"}
             h0 == Max({0} \cup S)
  <1>1. n \in Nat /\ DOMAIN s = 1 .. n
    BY LenProperties
  <1>2. LoopOf(s) = h0
    BY <1>1 DEF LoopOf, Innermost
  <1>3. h0 \in {0} \cup S /\ \A y \in S : y <= h0
    BY <1>1, Greatest
  <1> HIDE DEF h0
  <1>4. Looping(h0, s, n)
    BY <1>1, <1>3 DEF Looping
  <1>5. ASSUME NEW h \in Nat, Looping(h, s, n) PROVE h = h0
    BY <1>1, <1>3, <1>4, <1>5 DEF Looping
  <1> QED
    BY <1>1, <1>2, <1>3, <1>4, <1>5

-----------------------------------------------------------------------------
(* What the operators on sequences do, element by element.                  *)
LEMMA FrontFacts ==
    ASSUME NEW F, NEW s \in Seq(F), NEW n \in Nat \ {0}, n = Len(s)
    PROVE  /\ SubSeq(s, 1, n - 1) \in Seq(F)
           /\ Len(SubSeq(s, 1, n - 1)) = n - 1
           /\ \A i \in 1 .. n - 1 : SubSeq(s, 1, n - 1)[i] = s[i]
  <1>1. \A i \in 1 .. n - 1 : s[i] \in F
    BY ElementOfSeq
  <1> DEFINE b == SubSeq(s, 1, n - 1)
  <1>2. /\ b \in Seq(F)
        /\ Len(b) = IF 1 <= n - 1 THEN (n - 1) - 1 + 1 ELSE 0
        /\ \A i \in 1 .. (n - 1) - 1 + 1 : b[i] = s[1 + i - 1]
    BY <1>1, SubSeqProperties
  <1> HIDE DEF b
  <1>3. (IF 1 <= n - 1 THEN (n - 1) - 1 + 1 ELSE 0) = n - 1
    OBVIOUS
  <1>4. Len(b) = n - 1
    BY <1>2, <1>3, Zenon
  <1>5. (n - 1) - 1 + 1 = n - 1 /\ \A i \in 1 .. n - 1 : 1 + i - 1 = i
    OBVIOUS
  <1>6. \A i \in 1 .. n - 1 : b[i] = s[i]
    BY <1>2, <1>5, Zenon
  <1> QED
    BY <1>2, <1>4, <1>6 DEF b

LEMMA AppendFacts ==
    ASSUME NEW F, NEW s \in Seq(F), NEW n \in Nat, n = Len(s), NEW e \in F
    PROVE  /\ Append(s, e) \in Seq(F)
           /\ Len(Append(s, e)) = n + 1
           /\ \A i \in 1 .. n : Append(s, e)[i] = s[i]
           /\ Append(s, e)[n + 1] = e
  BY AppendProperties, ZenonT(30)

LEMMA PairFacts ==
    ASSUME NEW F, NEW a \in F, NEW b \in F
    PROVE  <<a, b>> \in Seq(F) /\ Len(<<a, b>>) = 2 /\ <<a, b>>[1] = a /\ <<a, b>>[2] = b
  OBVIOUS

LEMMA TripleFacts ==
    ASSUME NEW F, NEW a \in F, NEW b \in F, NEW c \in F
    PROVE  /\ <<a, b, c>> \in Seq(F) /\ Len(<<a, b, c>>) = 3
           /\ <<a, b, c>>[1] = a /\ <<a, b, c>>[2] = b /\ <<a, b, c>>[3] = c
  OBVIOUS

LEMMA ConcatFacts ==
    ASSUME NEW F, NEW s \in Seq(F), NEW t \in Seq(F),
           NEW m \in Nat, m = Len(s), NEW n \in Nat, n = Len(t)
    PROVE  /\ s \o t \in Seq(F)
           /\ Len(s \o t) = m + n
           /\ \A i \in 1 .. m : (s \o t)[i] = s[i]
           /\ \A i \in 1 .. n : (s \o t)[m + i] = t[i]
  <1> DEFINE c == s \o t
  <1>1. /\ c \in Seq(F) /\ Len(c) = m + n
        /\ \A i \in 1 .. m + n : c[i] = IF i <= m THEN s[i] ELSE t[i - m]
    BY ConcatProperties, Zenon
  <1> HIDE DEF c
  <1>2. ASSUME NEW i \in 1 .. m PROVE c[i] = s[i]
    <2>1. i \in 1 .. m + n /\ i <= m
      OBVIOUS
    <2> QED
      BY <1>1, <2>1, Zenon
  <1>3. ASSUME NEW i \in 1 .. n PROVE c[m + i] = t[i]
    <2>1. m + i \in 1 .. m + n /\ ~ (m + i <= m) /\ (m + i) - m = i
      OBVIOUS
    <2> QED
      BY <1>1, <2>1, Zenon
  <1> QED
    BY <1>1, <1>2, <1>3, Zenon DEF c

-----------------------------------------------------------------------------
(* What a step makes of the stack.  A construct that ends takes the top     *)
(* frame off; n is the length before.                                       *)
Pop(s, n, s1) == \A i \in 1 .. n - 1 : s1[i] = s[i]

(* A statement leaves its block begun, with its own k frames f on top.      *)
Run(s, n, s1, f, k) ==
    /\ \A i \in 1 .. n - 1 : s1[i] = s[i]
    /\ s[n].k = "block" /\ s1[n] = Block(FALSE)
    /\ \A i \in 1 .. k : s1[n + i] = f[i]

(* A try turns to its catch or its finally.                                 *)
Turn(s, n, s1, f) ==
    /\ \A i \in 1 .. n - 1 : s1[i] = s[i]
    /\ s1[n] = f /\ s1[n + 1] = Block(TRUE)

(* The frames a statement may bring.                                        *)
Brings(f, k) ==
    /\ \A i \in 1 .. k - 1 : f[i].k = "block" => f[i].fresh = FALSE
    /\ \A i \in 1 .. k : f[i].k = "lambda" => f[i].saved = FALSE
    /\ \A i \in 1 .. k : ~ Aside(f[i])

LEMMA PopFrames ==
    ASSUME NEW s, NEW n \in Nat \ {0}, NEW s1, Pop(s, n, s1), Frames(s, n)
    PROVE  Frames(s1, n - 1)
  BY DEF Pop, Frames

LEMMA RunFrames ==
    ASSUME NEW s, NEW n \in Nat \ {0}, NEW s1, NEW f, NEW k \in Nat,
           Run(s, n, s1, f, k), Brings(f, k), Frames(s, n)
    PROVE  Frames(s1, n + k)
  <1>1. ASSUME NEW i \in 1 .. n + k
        PROVE  \/ i \in 1 .. n - 1 \/ i = n
               \/ i - n \in 1 .. k /\ (i < n + k => i - n \in 1 .. k - 1) /\ s1[i] = f[i - n]
    <2>1. i \in 1 .. n - 1 \/ i = n \/ (i - n \in 1 .. k /\ n + (i - n) = i)
      OBVIOUS
    <2> QED
      BY <2>1 DEF Run
  <1>2. s1[n].k = "block" /\ s1[n].fresh = FALSE /\ ~ Aside(s1[n])
    BY DEF Run, Block, Aside
  <1>3. ASSUME NEW i \in 1 .. (n + k) - 1, s1[i].k = "block" PROVE s1[i].fresh = FALSE
    <2>1. CASE i \in 1 .. n - 1
      BY <1>3, <2>1 DEF Run, Frames
    <2>2. CASE i = n
      BY <1>2, <2>2
    <2>3. CASE i - n \in 1 .. k - 1 /\ s1[i] = f[i - n]
      BY <1>3, <2>3 DEF Brings
    <2>4. i \in 1 .. n + k /\ i < n + k
      OBVIOUS
    <2> QED
      BY <1>1, <2>1, <2>2, <2>3, <2>4
  <1>4. ASSUME NEW i \in 1 .. n + k
        PROVE  /\ s1[i].k = "lambda" => s1[i].saved = FALSE
               /\ Aside(s1[i]) => s1[i].at = "finally"
    <2>1. CASE i \in 1 .. n - 1
      BY <2>1 DEF Run, Frames
    <2>2. CASE i = n
      BY <1>2, <2>2
    <2>3. CASE i - n \in 1 .. k /\ s1[i] = f[i - n]
      BY <2>3 DEF Brings
    <2> QED
      BY <1>1, <2>1, <2>2, <2>3
  <1> QED
    <2>1. \A i \in 1 .. (n + k) - 1 : s1[i].k = "block" => s1[i].fresh = FALSE
      BY <1>3
    <2>2. \A i \in 1 .. n + k : s1[i].k = "lambda" => s1[i].saved = FALSE
      BY <1>4
    <2>3. \A i \in 1 .. n + k : Aside(s1[i]) => s1[i].at = "finally"
      BY <1>4
    <2> QED
      BY <2>1, <2>2, <2>3, Zenon DEF Frames

LEMMA TurnFrames ==
    ASSUME NEW s, NEW n \in Nat \ {0}, NEW s1, NEW f,
           Turn(s, n, s1, f), Frames(s, n),
           f.k = "try", Aside(f) => f.at = "finally"
    PROVE  Frames(s1, n + 1)
  <1>1. ASSUME NEW i \in 1 .. n + 1 PROVE i \in 1 .. n - 1 \/ i = n \/ i = n + 1
    OBVIOUS
  <1>2. s1[n + 1].k = "block"
    BY DEF Turn, Block
  <1>3. ~ Aside(s1[n + 1])
    BY <1>2 DEF Aside
  <1>4. s1[n] = f /\ \A i \in 1 .. n - 1 : s1[i] = s[i]
    BY DEF Turn
  <1>5. ASSUME NEW i \in 1 .. n + 1
        PROVE  /\ s1[i].k = "lambda" => s1[i].saved = FALSE
               /\ Aside(s1[i]) => s1[i].at = "finally"
    BY <1>1, <1>2, <1>3, <1>4 DEF Frames
  <1>6. ASSUME NEW i \in 1 .. (n + 1) - 1, s1[i].k = "block" PROVE s1[i].fresh = FALSE
    <2>1. i \in 1 .. n - 1
      BY <1>4, <1>6
    <2> QED
      BY <1>4, <1>6, <2>1 DEF Frames
  <1> QED
    BY <1>5, <1>6, Zenon DEF Frames

-----------------------------------------------------------------------------
(* Innermost frames are found again after a step that touches other frames. *)
LEMMA PopHandles ==
    ASSUME NEW s, NEW n \in Nat \ {0}, NEW s1, Pop(s, n, s1),
           NEW h, Handles(h, s, n), ~ Catcher(s[n])
    PROVE  Handles(h, s1, n - 1)
  BY DEF Pop, Handles

LEMMA PopCalling ==
    ASSUME NEW s, NEW n \in Nat \ {0}, NEW s1, Pop(s, n, s1),
           NEW h, Calling(h, s, n), s[n].k \notin CallFrames
    PROVE  Calling(h, s1, n - 1)
  BY DEF Pop, Calling

(* Below a place that a step keeps, the handler is the same.                *)
LEMMA LowHandles ==
    ASSUME NEW s, NEW s1, NEW i \in Nat, \A j \in 1 .. i : s1[j] = s[j],
           NEW h, Handles(h, s, i)
    PROVE  Handles(h, s1, i)
  BY DEF Handles

LEMMA RunCatcher ==
    ASSUME NEW s, NEW n \in Nat \ {0}, NEW s1, NEW f, Run(s, n, s1, f, 0),
           NEW h, Handles(h, s, n)
    PROVE  Handles(h, s1, n)
  <1>1. ~ Catcher(s1[n]) /\ ~ Catcher(s[n])
    BY DEF Run, Catcher, Block
  <1> QED
    <2>1. h \in 0 .. n - 1 /\ (h # 0 => s1[h] = s[h])
      BY <1>1 DEF Handles, Run
    <2>2. ASSUME NEW j \in h + 1 .. n PROVE ~ Catcher(s1[j])
      <3>1. j = n \/ (j \in 1 .. n - 1 /\ j \in h + 1 .. n)
        BY <2>1
      <3> QED
        BY <1>1, <3>1 DEF Handles, Run
    <2> QED
      BY <2>1, <2>2 DEF Handles

LEMMA RunCalling ==
    ASSUME NEW s, NEW n \in Nat \ {0}, NEW s1, NEW f, Run(s, n, s1, f, 0),
           NEW h, Calling(h, s, n)
    PROVE  Calling(h, s1, n)
  <1>1. s1[n].k \notin CallFrames /\ s[n].k \notin CallFrames
    BY DEF Run, CallFrames, Block
  <1> QED
    <2>1. h \in 0 .. n - 1 /\ (h # 0 => s1[h] = s[h])
      BY <1>1 DEF Calling, Run
    <2>2. ASSUME NEW j \in h + 1 .. n PROVE s1[j].k \notin CallFrames
      <3>1. j = n \/ (j \in 1 .. n - 1 /\ j \in h + 1 .. n)
        BY <2>1
      <3> QED
        BY <1>1, <3>1 DEF Calling, Run
    <2> QED
      BY <2>1, <2>2 DEF Calling

LEMMA TurnCalling ==
    ASSUME NEW s, NEW n \in Nat \ {0}, NEW s1, NEW f, Turn(s, n, s1, f),
           s[n].k = "try", f.k = "try",
           NEW h, Calling(h, s, n)
    PROVE  Calling(h, s1, n + 1)
  <1>1. s[n].k \notin CallFrames /\ s1[n].k \notin CallFrames /\ s1[n + 1].k \notin CallFrames
    BY DEF Turn, CallFrames, Block
  <1>2. h \in 0 .. n - 1 /\ (h # 0 => s1[h] = s[h])
    BY <1>1 DEF Calling, Turn
  <1>3. ASSUME NEW j \in h + 1 .. n + 1 PROVE s1[j].k \notin CallFrames
    <2>1. j \in h + 1 .. n - 1 \/ j = n \/ j = n + 1
      BY <1>2
    <2>2. CASE j \in h + 1 .. n - 1
      BY <1>2, <2>2 DEF Calling, Turn
    <2> QED
      BY <1>1, <2>1, <2>2
  <1> QED
    BY <1>2, <1>3 DEF Calling

-----------------------------------------------------------------------------
(* Exceptions in flight and put aside.  A step that lets a frame go keeps   *)
(* what is below it; the frame is no handler of the exception in flight,    *)
(* and an exception it had put aside is in flight again.                    *)
LEMMA PopThrows ==
    ASSUME NEW s, NEW n \in Nat \ {0}, NEW s1, Pop(s, n, s1),
           NEW t, NEW m, NEW v, NEW e, Throws(s, n, t, m, v, e),
           t = TRUE => ~ Catcher(s[n]),
           Aside(s[n]) => t # FALSE
    PROVE  Throws(s1, n - 1, t, m, v, e)
  <1>1. t = TRUE => Handles(e.home, s1, n - 1) /\ m = TextOf(e.v) /\ (v \in Containers => v = e.v)
    BY PopHandles DEF Throws
  <1>2. ASSUME NEW i \in 1 .. n - 1, Aside(s1[i])
        PROVE  /\ Handles(s1[i].kept.home, s1, i - 1)
               /\ s1[i].saved = TextOf(s1[i].kept.v)
               /\ t = FALSE /\ v \in Containers /\ (\A j \in i + 1 .. n - 1 : ~ Aside(s1[j]))
                     => v = s1[i].kept.v
    <2>1. s1[i] = s[i] /\ i \in 1 .. n /\ i - 1 \in Nat /\ \A j \in 1 .. i - 1 : s1[j] = s[j]
      BY DEF Pop
    <2>2. Handles(s1[i].kept.home, s1, i - 1) /\ s1[i].saved = TextOf(s1[i].kept.v)
      BY <1>2, <2>1, LowHandles DEF Throws
    <2>3. ASSUME t = FALSE, v \in Containers, \A j \in i + 1 .. n - 1 : ~ Aside(s1[j])
          PROVE  v = s1[i].kept.v
      <3>1. ASSUME NEW j \in i + 1 .. n PROVE ~ Aside(s[j])
        <4>1. CASE j = n
          BY <2>3, <4>1
        <4>2. CASE j # n
          BY <2>3, <4>2 DEF Pop
        <4> QED
          BY <4>1, <4>2
      <3> QED
        BY <1>2, <2>1, <2>3, <3>1 DEF Throws
    <2> QED
      BY <2>2, <2>3
  <1> QED
    BY <1>1, <1>2, Zenon DEF Throws

(* A throw: what was put aside stays below it.                              *)
Kept(s, n) ==
    \A i \in 1 .. n : Aside(s[i]) =>
        Handles(s[i].kept.home, s, i - 1) /\ s[i].saved = TextOf(s[i].kept.v)

LEMMA ThrowsKept ==
    ASSUME NEW s, NEW n, NEW t, NEW m, NEW v, NEW e, Throws(s, n, t, m, v, e)
    PROVE  Kept(s, n)
  BY Zenon DEF Throws, Kept

LEMMA KeptAlong ==
    ASSUME NEW s, NEW n \in Nat, NEW s1, NEW n1 \in Nat, Kept(s, n), n1 <= n,
           \A i \in 1 .. n1 : s1[i] = s[i] \/ (i = n1 /\ ~ Aside(s1[i]))
    PROVE  Kept(s1, n1)
  <1>1. ASSUME NEW i \in 1 .. n1, Aside(s1[i])
        PROVE  Handles(s1[i].kept.home, s1, i - 1) /\ s1[i].saved = TextOf(s1[i].kept.v)
    <2>1. s1[i] = s[i] /\ i \in 1 .. n /\ i - 1 \in Nat /\ \A j \in 1 .. i - 1 : s1[j] = s[j]
      BY <1>1
    <2> QED
      BY <1>1, <2>1, LowHandles DEF Kept
  <1> QED
    BY <1>1 DEF Kept

LEMMA FlyingThrows ==
    ASSUME NEW s, NEW n, NEW m, NEW v, NEW e, Kept(s, n),
           Handles(e.home, s, n), m = TextOf(e.v), v \in Containers => v = e.v
    PROVE  Throws(s, n, TRUE, m, v, e)
  BY DEF Throws, Kept

(* A statement that brings frames begins under no exception.                *)
LEMMA RunThrows ==
    ASSUME NEW s, NEW n \in Nat \ {0}, NEW s1, NEW f, NEW k \in Nat,
           Run(s, n, s1, f, k), Brings(f, k),
           NEW m, NEW v, NEW e, Throws(s, n, FALSE, m, v, e)
    PROVE  Throws(s1, n + k, FALSE, m, v, e)
  <1>1. ASSUME NEW i \in n .. n + k PROVE ~ Aside(s1[i])
    <2>1. CASE i = n
      BY <2>1 DEF Run, Block, Aside
    <2>2. CASE i # n
      <3>1. i - n \in 1 .. k /\ n + (i - n) = i
        BY <2>2
      <3> QED
        BY <3>1 DEF Run, Brings
    <2> QED
      BY <2>1, <2>2
  <1>2. ~ Aside(s[n])
    BY DEF Run, Aside
  <1>3. ASSUME NEW i \in 1 .. n + k, Aside(s1[i])
        PROVE  /\ Handles(s1[i].kept.home, s1, i - 1)
               /\ s1[i].saved = TextOf(s1[i].kept.v)
               /\ v \in Containers /\ (\A j \in i + 1 .. n + k : ~ Aside(s1[j]))
                     => v = s1[i].kept.v
    <2>1. i \in 1 .. n - 1
      BY <1>1, <1>3
    <2>2. s1[i] = s[i] /\ i \in 1 .. n /\ i - 1 \in Nat /\ \A j \in 1 .. i - 1 : s1[j] = s[j]
      BY <2>1 DEF Run
    <2>3. Handles(s1[i].kept.home, s1, i - 1) /\ s1[i].saved = TextOf(s1[i].kept.v)
      BY <1>3, <2>2, LowHandles DEF Throws
    <2>4. ASSUME v \in Containers, \A j \in i + 1 .. n + k : ~ Aside(s1[j])
          PROVE  v = s1[i].kept.v
      <3>1. ASSUME NEW j \in i + 1 .. n PROVE ~ Aside(s[j])
        BY <1>2, <2>1, <2>4 DEF Run
      <3> QED
        BY <1>3, <2>2, <2>4, <3>1 DEF Throws
    <2> QED
      BY <2>3, <2>4
  <1>4. \A i \in 1 .. n + k : Aside(s1[i]) =>
               /\ Handles(s1[i].kept.home, s1, i - 1)
               /\ s1[i].saved = TextOf(s1[i].kept.v)
               /\ FALSE = FALSE /\ v \in Containers /\ (\A j \in i + 1 .. n + k : ~ Aside(s1[j]))
                     => v = s1[i].kept.v
    BY <1>3
  <1> QED
    BY <1>4, Zenon DEF Throws

(* A catch ends the exception and throw_value with it; a finally puts the   *)
(* exception aside and leaves throw_value alone.                            *)
LEMMA TurnThrows ==
    ASSUME NEW s, NEW n \in Nat \ {0}, NEW s1, NEW f, Turn(s, n, s1, f),
           NEW t, NEW m, NEW v, NEW e, Throws(s, n, t, m, v, e),
           ~ Aside(s[n]),
           Aside(f) => /\ t = TRUE /\ ~ Catcher(s[n])
                       /\ f.saved = m /\ f.kept = e,
           NEW m1, NEW e1, NEW v1,
           v1 \in Containers => v1 = v /\ (t = FALSE \/ Aside(f))
    PROVE  Throws(s1, n + 1, FALSE, m1, v1, e1)
  <1>1. /\ s1[n] = f /\ ~ Aside(s1[n + 1])
        /\ \A i \in 1 .. n - 1 : s1[i] = s[i]
    BY DEF Turn, Block, Aside
  <1>2. ASSUME NEW i \in 1 .. n + 1, Aside(s1[i])
        PROVE  /\ Handles(s1[i].kept.home, s1, i - 1)
               /\ s1[i].saved = TextOf(s1[i].kept.v)
               /\ v1 \in Containers /\ (\A j \in i + 1 .. n + 1 : ~ Aside(s1[j]))
                     => v1 = s1[i].kept.v
    <2>1. CASE i = n
      <3>1. t = TRUE /\ ~ Catcher(s[n]) /\ s1[i].saved = m /\ s1[i].kept = e
        BY <1>1, <1>2, <2>1
      <3>2. Handles(e.home, s, n) /\ m = TextOf(e.v) /\ (v \in Containers => v = e.v)
        BY <3>1 DEF Throws
      <3>3. Handles(e.home, s1, n - 1)
        BY <1>1, <3>1, <3>2, PopHandles DEF Pop
      <3> QED
        BY <2>1, <3>1, <3>2, <3>3
    <2>2. CASE i # n
      <3>1. i \in 1 .. n - 1
        BY <1>1, <1>2, <2>2
      <3>2. s1[i] = s[i] /\ i \in 1 .. n /\ i - 1 \in Nat /\ \A j \in 1 .. i - 1 : s1[j] = s[j]
        BY <1>1, <3>1
      <3>3. Handles(s1[i].kept.home, s1, i - 1) /\ s1[i].saved = TextOf(s1[i].kept.v)
        BY <1>2, <3>2, LowHandles DEF Throws
      <3>4. ASSUME v1 \in Containers, \A j \in i + 1 .. n + 1 : ~ Aside(s1[j])
            PROVE  v1 = s1[i].kept.v
        <4>1. ~ Aside(f) /\ v1 = v /\ t = FALSE
          BY <1>1, <3>1, <3>4
        <4>2. ASSUME NEW j \in i + 1 .. n PROVE ~ Aside(s[j])
          BY <1>1, <3>1, <3>4
        <4> QED
          BY <1>2, <3>2, <3>4, <4>1, <4>2 DEF Throws
      <3> QED
        BY <3>3, <3>4
    <2> QED
      BY <2>1, <2>2
  <1>3. \A i \in 1 .. n + 1 : Aside(s1[i]) =>
               /\ Handles(s1[i].kept.home, s1, i - 1)
               /\ s1[i].saved = TextOf(s1[i].kept.v)
               /\ FALSE = FALSE /\ v1 \in Containers /\ (\A j \in i + 1 .. n + 1 : ~ Aside(s1[j]))
                     => v1 = s1[i].kept.v
    BY <1>2
  <1> QED
    BY <1>3, Zenon DEF Throws

(* One more turn of a loop puts a block on top.                             *)
Grow(s, n, s1) == (\A i \in 1 .. n : s1[i] = s[i]) /\ s1[n + 1] = Block(TRUE)

LEMMA GrowFrames ==
    ASSUME NEW s, NEW n \in Nat \ {0}, NEW s1, Grow(s, n, s1), Frames(s, n),
           s[n].k # "block"
    PROVE  Frames(s1, n + 1)
  <1>1. s1[n + 1].k = "block" /\ ~ Aside(s1[n + 1])
    BY DEF Grow, Block, Aside
  <1>2. ASSUME NEW i \in 1 .. n + 1
        PROVE  /\ s1[i].k = "lambda" => s1[i].saved = FALSE
               /\ Aside(s1[i]) => s1[i].at = "finally"
    <2>1. i = n + 1 \/ i \in 1 .. n
      OBVIOUS
    <2> QED
      BY <1>1, <2>1 DEF Grow, Frames
  <1>3. ASSUME NEW i \in 1 .. (n + 1) - 1, s1[i].k = "block" PROVE s1[i].fresh = FALSE
    <2>1. i \in 1 .. n - 1
      BY <1>3 DEF Grow
    <2> QED
      BY <1>3, <2>1 DEF Grow, Frames
  <1> QED
    BY <1>2, <1>3, Zenon DEF Frames

LEMMA GrowThrows ==
    ASSUME NEW s, NEW n \in Nat \ {0}, NEW s1, Grow(s, n, s1),
           NEW m, NEW v, NEW e, Throws(s, n, FALSE, m, v, e)
    PROVE  Throws(s1, n + 1, FALSE, m, v, e)
  <1>1. ~ Aside(s1[n + 1]) /\ \A i \in 1 .. n : s1[i] = s[i]
    BY DEF Grow, Block, Aside
  <1>2. ASSUME NEW i \in 1 .. n + 1, Aside(s1[i])
        PROVE  /\ Handles(s1[i].kept.home, s1, i - 1)
               /\ s1[i].saved = TextOf(s1[i].kept.v)
               /\ v \in Containers /\ (\A j \in i + 1 .. n + 1 : ~ Aside(s1[j]))
                     => v = s1[i].kept.v
    <2>1. i \in 1 .. n
      BY <1>1, <1>2
    <2>2. s1[i] = s[i] /\ i - 1 \in Nat /\ \A j \in 1 .. i - 1 : s1[j] = s[j]
      BY <1>1, <2>1
    <2>3. Handles(s1[i].kept.home, s1, i - 1) /\ s1[i].saved = TextOf(s1[i].kept.v)
      BY <1>2, <2>1, <2>2, LowHandles DEF Throws
    <2>4. ASSUME v \in Containers, \A j \in i + 1 .. n + 1 : ~ Aside(s1[j])
          PROVE  v = s1[i].kept.v
      <3>1. ASSUME NEW j \in i + 1 .. n PROVE ~ Aside(s[j])
        BY <1>1, <2>1, <2>4
      <3> QED
        BY <1>2, <2>1, <2>2, <2>4, <3>1 DEF Throws
    <2> QED
      BY <2>3, <2>4
  <1>3. \A i \in 1 .. n + 1 : Aside(s1[i]) =>
               /\ Handles(s1[i].kept.home, s1, i - 1)
               /\ s1[i].saved = TextOf(s1[i].kept.v)
               /\ FALSE = FALSE /\ v \in Containers /\ (\A j \in i + 1 .. n + 1 : ~ Aside(s1[j]))
                     => v = s1[i].kept.v
    BY <1>2
  <1> QED
    BY <1>3, Zenon DEF Throws

-----------------------------------------------------------------------------
(* The jump under way.  Only its loop spends it; and a statement may run    *)
(* under it only inside a catch or a finally.                               *)
LEMMA PopJumps ==
    ASSUME NEW s, NEW n \in Nat \ {0}, NEW s1, Pop(s, n, s1), Frames(s, n),
           s[n].k # "loop",
           NEW b, NEW c, NEW h, Jumps(s, n, b, c, h)
    PROVE  Jumps(s1, n - 1, b, c, h)
  <1> SUFFICES ASSUME b = TRUE \/ c = TRUE, h # 0, n - 1 # 0
               PROVE  /\ h \in 1 .. n - 1
                      /\ s1[h].k = "loop"
                      /\ \A i \in h + 1 .. n - 1 : s1[i].k = "loop" => Apart(h, s1, i - 1)
                      /\ s1[n - 1].k = "block" /\ s1[n - 1].fresh = TRUE => Apart(h, s1, n - 1)
    BY DEF Jumps
  <1>1. /\ h \in 1 .. n - 1 /\ s[h].k = "loop"
        /\ \A i \in h + 1 .. n : s[i].k = "loop" => Apart(h, s, i - 1)
    BY DEF Jumps
  <1>2. ASSUME NEW i \in h + 1 .. n - 1, s1[i].k = "loop" PROVE Apart(h, s1, i - 1)
    BY <1>1, <1>2 DEF Pop, Apart
  <1>3. ~ (s1[n - 1].k = "block" /\ s1[n - 1].fresh = TRUE)
    BY DEF Pop, Frames
  <1> QED
    BY <1>1, <1>2, <1>3 DEF Pop

LEMMA RunJumps ==
    ASSUME NEW s, NEW n \in Nat \ {0}, NEW s1, NEW f, NEW k \in Nat,
           Run(s, n, s1, f, k),
           NEW b, NEW c, NEW h, Jumps(s, n, b, c, h),
           b = TRUE \/ c = TRUE => s[n].fresh = TRUE
    PROVE  Jumps(s1, n + k, b, c, h)
  <1> SUFFICES ASSUME b = TRUE \/ c = TRUE, h # 0
               PROVE  /\ h \in 1 .. n + k
                      /\ s1[h].k = "loop"
                      /\ \A i \in h + 1 .. n + k : s1[i].k = "loop" => Apart(h, s1, i - 1)
                      /\ s1[n + k].k = "block" /\ s1[n + k].fresh = TRUE => Apart(h, s1, n + k)
    BY DEF Jumps
  <1>1. /\ h \in 1 .. n /\ s[h].k = "loop"
        /\ \A i \in h + 1 .. n : s[i].k = "loop" => Apart(h, s, i - 1)
        /\ s[n].k = "block" /\ Apart(h, s, n)
    BY DEF Jumps, Run
  <1>2. PICK j \in h + 1 .. n : s[j].k = "try" /\ s[j].at \in {"catch", "finally"}
    BY <1>1 DEF Apart
  <1>3. j \in h + 1 .. n - 1 /\ h \in 1 .. n - 1
    BY <1>1, <1>2
  <1>4. ASSUME NEW i \in n .. n + k PROVE Apart(h, s1, i)
    BY <1>2, <1>3 DEF Run, Apart
  <1>5. ASSUME NEW i \in h + 1 .. n + k, s1[i].k = "loop" PROVE Apart(h, s1, i - 1)
    <2>1. CASE i \in h + 1 .. n - 1
      BY <1>1, <1>5, <2>1 DEF Run, Apart
    <2>2. CASE i = n
      BY <1>5, <2>2 DEF Run, Block
    <2>3. CASE i > n
      BY <1>4, <2>3
    <2> QED
      BY <1>3, <2>1, <2>2, <2>3
  <1> QED
    BY <1>1, <1>3, <1>4, <1>5 DEF Run

LEMMA TurnJumps ==
    ASSUME NEW s, NEW n \in Nat \ {0}, NEW s1, NEW f, Turn(s, n, s1, f),
           s[n].k = "try", f.k = "try", f.at \in {"catch", "finally"},
           NEW b, NEW c, NEW h, Jumps(s, n, b, c, h)
    PROVE  Jumps(s1, n + 1, b, c, h)
  <1> SUFFICES ASSUME b = TRUE \/ c = TRUE, h # 0
               PROVE  /\ h \in 1 .. n + 1
                      /\ s1[h].k = "loop"
                      /\ \A i \in h + 1 .. n + 1 : s1[i].k = "loop" => Apart(h, s1, i - 1)
                      /\ s1[n + 1].k = "block" /\ s1[n + 1].fresh = TRUE => Apart(h, s1, n + 1)
    BY DEF Jumps
  <1>1. /\ h \in 1 .. n - 1 /\ s[h].k = "loop"
        /\ \A i \in h + 1 .. n : s[i].k = "loop" => Apart(h, s, i - 1)
    BY DEF Jumps
  <1>2. s1[n] = f /\ s1[n + 1].k = "block" /\ \A i \in 1 .. n - 1 : s1[i] = s[i]
    BY DEF Turn, Block
  <1>3. Apart(h, s1, n + 1)
    BY <1>1, <1>2 DEF Apart
  <1>4. ASSUME NEW i \in h + 1 .. n + 1, s1[i].k = "loop" PROVE Apart(h, s1, i - 1)
    <2>1. i \in h + 1 .. n - 1
      BY <1>1, <1>2, <1>4
    <2> QED
      BY <1>1, <1>2, <1>4, <2>1 DEF Apart
  <1> QED
    BY <1>1, <1>2, <1>3, <1>4

(* A break or a continue that begins: its loop is the innermost one.        *)
LEMMA StartJumps ==
    ASSUME NEW s, NEW n \in Nat \ {0}, NEW s1, NEW f, Run(s, n, s1, f, 0),
           NEW b, NEW c, NEW h, h = 0 \/ (Looping(h, s, n) /\ ~ (b = TRUE /\ c = TRUE))
    PROVE  Jumps(s1, n, b, c, h)
  <1>1. s[n].k = "block" /\ s1[n] = Block(FALSE) /\ \A i \in 1 .. n - 1 : s1[i] = s[i]
    BY DEF Run
  <1>2. s1[n].k = "block" /\ s1[n].fresh = FALSE
    BY <1>1 DEF Block
  <1>3. CASE h = 0
    BY <1>3 DEF Jumps
  <1>4. CASE h # 0
    <2>1. h \in 1 .. n - 1 /\ s1[h].k = "loop"
      BY <1>1, <1>4 DEF Looping
    <2>2. ASSUME NEW i \in h + 1 .. n PROVE s1[i].k # "loop"
      <3>1. i = n \/ (i \in 1 .. n - 1 /\ i \in h + 1 .. n)
        BY <2>1
      <3> QED
        BY <1>1, <1>2, <1>4, <3>1 DEF Looping
    <2> QED
      BY <1>2, <1>4, <2>1, <2>2 DEF Jumps
  <1> QED
    BY <1>3, <1>4

-----------------------------------------------------------------------------
(* The types of the frames, and the shapes of the next stack.               *)
LEMMA FrameTypes ==
    /\ Block(TRUE) \in Frame /\ Block(FALSE) \in Frame /\ Loop \in Frame
    /\ ReturnOf \in Frame /\ OperandOf \in Frame
    /\ \A type \in {"void", "typed", "dynamic"} : MethodFrame(type) \in Frame
    /\ \A saved \in BOOLEAN : LambdaFrame(saved) \in Frame
    /\ \A catches, finally \in BOOLEAN : Try(catches, finally) \in Frame
  <1>1. NoException \in Exceptions /\ None \in Thrown /\ None \in Messages
    BY DEF NoException, Exceptions, Thrown, Messages
  <1>2. \A catches, finally \in BOOLEAN : Try(catches, finally) \in Tries
    BY <1>1 DEF Try, Tries
  <1> QED
    BY <1>2 DEF Frame, Block, Blocks, Loop, Loops, ReturnOf, OperandOf, Returns,
                MethodFrame, Methods, LambdaFrame, Lambdas

LEMMA TopShape ==
    ASSUME TypeOK, stack # <<>>
    PROVE  /\ Len(stack) \in Nat \ {0}
           /\ TopFrame = stack[Len(stack)] /\ TopFrame \in Frame
           /\ Below \in Seq(Frame) /\ Len(Below) = Len(stack) - 1
           /\ \A i \in 1 .. Len(stack) - 1 : Below[i] = stack[i]
  <1>1. stack \in Seq(Frame)
    BY DEF TypeOK
  <1>2. Len(stack) \in Nat \ {0}
    BY <1>1, EmptySeq, Zenon
  <1> DEFINE n == Len(stack)
  <1>3. n \in Nat \ {0} /\ n = Len(stack)
    BY <1>2
  <1> HIDE DEF n
  <1>4. n \in 1 .. n
    BY <1>3
  <1>5. stack[n] \in Frame
    BY <1>1, <1>3, <1>4, ElementOfSeq, Zenon
  <1>6. /\ SubSeq(stack, 1, n - 1) \in Seq(Frame)
        /\ Len(SubSeq(stack, 1, n - 1)) = n - 1
        /\ \A i \in 1 .. n - 1 : SubSeq(stack, 1, n - 1)[i] = stack[i]
    BY <1>1, <1>3, FrontFacts, Zenon
  <1> QED
    BY <1>3, <1>5, <1>6, Zenon DEF TopFrame, Last, Below, Front

LEMMA PopShape ==
    ASSUME TypeOK, stack # <<>>, stack' = Below
    PROVE  /\ stack' \in Seq(Frame) /\ Len(stack') = Len(stack) - 1
           /\ Pop(stack, Len(stack), stack')
  BY TopShape, Zenon DEF Pop

LEMMA RunShape ==
    ASSUME TypeOK, At("block"), NEW frames \in Seq(Frame), stack' = Running(frames)
    PROVE  /\ stack' \in Seq(Frame) /\ Len(stack') = Len(stack) + Len(frames)
           /\ Run(stack, Len(stack), stack', frames, Len(frames))
  <1> DEFINE n == Len(stack)
             k == Len(frames)
             e == Block(FALSE)
             low == Append(Below, e)
  <1>1. /\ n \in Nat \ {0} /\ k \in Nat
        /\ Below \in Seq(Frame) /\ Len(Below) = n - 1 /\ n - 1 \in Nat /\ (n - 1) + 1 = n
        /\ \A i \in 1 .. n - 1 : Below[i] = stack[i]
        /\ stack[n].k = "block"
        /\ e \in Frame
    <2>1. n \in Nat \ {0} /\ k \in Nat
      BY TopShape, LenProperties DEF At
    <2> HIDE DEF n, k
    <2>2. n - 1 \in Nat /\ (n - 1) + 1 = n
      BY <2>1
    <2> QED
      BY <2>1, <2>2, TopShape, FrameTypes, Zenon DEF n, At
  <1> HIDE DEF n, k, e
  <1>2. /\ low \in Seq(Frame) /\ Len(low) = n
        /\ \A i \in 1 .. n - 1 : low[i] = Below[i]
        /\ low[n] = e
    <2>1. /\ low \in Seq(Frame) /\ Len(low) = (n - 1) + 1
          /\ \A i \in 1 .. n - 1 : low[i] = Below[i]
          /\ low[(n - 1) + 1] = e
      BY <1>1, AppendFacts
    <2> HIDE DEF low
    <2> QED
      BY <1>1, <2>1, Zenon
  <1> HIDE DEF low
  <1>3. stack' = low \o frames
    BY DEF Running, Push, low, e
  <1>4. /\ stack' \in Seq(Frame) /\ Len(stack') = n + k
        /\ \A i \in 1 .. n : stack'[i] = low[i]
        /\ \A i \in 1 .. k : stack'[n + i] = frames[i]
    <2>1. /\ low \in Seq(Frame) /\ n \in Nat /\ n = Len(low)
          /\ frames \in Seq(Frame) /\ k \in Nat /\ k = Len(frames)
      BY <1>1, <1>2 DEF k
    <2>2. /\ low \o frames \in Seq(Frame) /\ Len(low \o frames) = n + k
          /\ \A i \in 1 .. n : (low \o frames)[i] = low[i]
          /\ \A i \in 1 .. k : (low \o frames)[n + i] = frames[i]
      BY <2>1, ConcatFacts
    <2> QED
      BY <1>3, <2>2, Zenon
  <1>5. n \in 1 .. n /\ \A i \in 1 .. n - 1 : i \in 1 .. n
    BY <1>1
  <1>6. Run(stack, n, stack', frames, k)
    BY <1>1, <1>2, <1>4, <1>5, Zenon DEF Run, e
  <1> QED
    BY <1>4, <1>6, Zenon DEF n, k

LEMMA TurnShape ==
    ASSUME TypeOK, stack # <<>>, NEW f \in Frame,
           stack' = Push(Below, <<f, Block(TRUE)>>)
    PROVE  /\ stack' \in Seq(Frame) /\ Len(stack') = Len(stack) + 1
           /\ Turn(stack, Len(stack), stack', f)
  <1> DEFINE n == Len(stack)
             top == <<f, Block(TRUE)>>
  <1>1. /\ n \in Nat \ {0}
        /\ Below \in Seq(Frame) /\ Len(Below) = n - 1
        /\ \A i \in 1 .. n - 1 : Below[i] = stack[i]
        /\ Block(TRUE) \in Frame
    BY TopShape, FrameTypes, Zenon
  <1>2. top \in Seq(Frame) /\ Len(top) = 2 /\ top[1] = f /\ top[2] = Block(TRUE)
    BY <1>1, PairFacts
  <1> HIDE DEF n, top
  <1>3. n - 1 \in Nat /\ (n - 1) + 1 = n /\ (n - 1) + 2 = n + 1 /\ 2 \in Nat
    BY <1>1
  <1>4. /\ stack' \in Seq(Frame) /\ Len(stack') = (n - 1) + 2
        /\ \A i \in 1 .. n - 1 : stack'[i] = Below[i]
        /\ \A i \in 1 .. 2 : stack'[(n - 1) + i] = top[i]
    <2>1. stack' = Below \o top
      BY DEF Push, top
    <2> DEFINE m == n - 1
               low == Below
               k == 2
    <2>2. /\ low \in Seq(Frame) /\ m \in Nat /\ m = Len(low)
          /\ top \in Seq(Frame) /\ k \in Nat /\ k = Len(top)
      BY <1>1, <1>2, <1>3
    <2> HIDE DEF m, k, low
    <2>3. /\ low \o top \in Seq(Frame) /\ Len(low \o top) = m + k
          /\ \A i \in 1 .. m : (low \o top)[i] = low[i]
          /\ \A i \in 1 .. k : (low \o top)[m + i] = top[i]
      BY <2>2, ConcatFacts
    <2> QED
      BY <2>1, <2>3, Zenon DEF m, k, low
  <1>5. 1 \in 1 .. 2 /\ 2 \in 1 .. 2
    OBVIOUS
  <1>6. Turn(stack, n, stack', f)
    BY <1>1, <1>2, <1>3, <1>4, <1>5, Zenon DEF Turn
  <1> QED
    BY <1>3, <1>4, <1>6, Zenon DEF n

LEMMA GrowShape ==
    ASSUME TypeOK, stack # <<>>, stack' = Append(stack, Block(TRUE))
    PROVE  /\ stack' \in Seq(Frame) /\ Len(stack') = Len(stack) + 1
           /\ Grow(stack, Len(stack), stack')
  <1> DEFINE e == Block(TRUE)
  <1>1. stack \in Seq(Frame) /\ e \in Frame
    BY FrameTypes DEF TypeOK
  <1> HIDE DEF e
  <1>2. /\ Append(stack, e) \in Seq(Frame) /\ Len(Append(stack, e)) = Len(stack) + 1
        /\ \A i \in 1 .. Len(stack) : Append(stack, e)[i] = stack[i]
        /\ Append(stack, e)[Len(stack) + 1] = e
    BY <1>1, AppendProperties
  <1> QED
    BY <1>2, Zenon DEF Grow, e

-----------------------------------------------------------------------------
(* The flags.  An exception that is raised heads for the innermost handler. *)
FlagTypes ==
    /\ thr \in BOOLEAN /\ msg \in Messages /\ val \in Thrown /\ exc \in Exceptions
    /\ ret \in BOOLEAN /\ retNode \in {"none", "expression", "call"}
    /\ retHome \in Nat /\ retDue \in Nat
    /\ brk \in BOOLEAN /\ cont \in BOOLEAN /\ breakHome \in Nat

LEMMA RaiseFacts ==
    ASSUME TypeOK, NEW v \in Values \cup {Error}, NEW s \in Seq(Frame), NEW due \in Nat,
           Raise(v, s, due)
    PROVE  /\ thr' = TRUE /\ msg' \in Messages /\ val' \in Thrown /\ exc' \in Exceptions
           /\ exc'.home = HandlerOf(s) /\ Handles(HandlerOf(s), s, Len(s))
           /\ msg' = TextOf(exc'.v) /\ (val' \in Containers => val' = exc'.v)
  <1>1. HandlerOf(s) \in Nat /\ Handles(HandlerOf(s), s, Len(s))
    BY HandlerIs
  <1> DEFINE h == HandlerOf(s)
  <1> HIDE DEF h
  <1>2. /\ thr' = TRUE /\ msg' = TextOf(v)
        /\ exc' = [v |-> v, home |-> h, due |-> due,
                   first |-> IF thr THEN exc.first ELSE v]
        /\ val' = IF v = Error THEN None ELSE v
    BY DEF Raise, h
  <1>3. /\ h \in Nat /\ v \in Thrown /\ None \in Thrown /\ None \notin Containers
        /\ TextOf(v) \in Messages /\ exc.first \in Thrown
    BY <1>1, FlowAssumption DEF h, Thrown, Messages, TypeOK, Exceptions
  <1>4. exc' \in Exceptions /\ exc'.home = h /\ exc'.v = v
    BY <1>2, <1>3 DEF Exceptions
  <1>5. val' \in Thrown /\ (val' \in Containers => val' = v)
    BY <1>2, <1>3
  <1> QED
    BY <1>1, <1>2, <1>3, <1>4, <1>5, Zenon DEF h

(* A frame comes off the stack.                                             *)
LEMMA PopInv ==
    ASSUME IInv, stack # <<>>, stack' = Below
    PROVE  /\ stack' \in Seq(Frame) /\ FramesInv'
           /\ UNCHANGED throwing /\ (thr => ~ Catcher(TopFrame)) /\ (Aside(TopFrame) => thr)
                 => ThrowInv'
           /\ UNCHANGED looping /\ TopFrame.k # "loop" => JumpInv'
           /\ UNCHANGED returning /\ TopFrame.k \notin CallFrames => ReturnInv'
  <1> DEFINE n == Len(stack)
  <1>1. /\ stack' \in Seq(Frame) /\ Len(stack') = n - 1 /\ Pop(stack, n, stack')
        /\ n \in Nat \ {0} /\ TopFrame = stack[n]
        /\ thr \in BOOLEAN
    BY PopShape, TopShape, Zenon DEF IInv, TypeOK
  <1>2. /\ Frames(stack, n) /\ Throws(stack, n, thr, msg, val, exc)
        /\ Jumps(stack, n, brk, cont, breakHome)
        /\ ret => Calling(retHome, stack, n)
    BY Zenon DEF IInv, FramesInv, ThrowInv, JumpInv, ReturnInv
  <1> HIDE DEF n
  <1>3. FramesInv'
    BY <1>1, <1>2, PopFrames, Zenon DEF FramesInv
  <1>4. ASSUME UNCHANGED throwing, thr => ~ Catcher(TopFrame), Aside(TopFrame) => thr
        PROVE  ThrowInv'
    <2>1. thr = TRUE => ~ Catcher(stack[n])
      BY <1>1, <1>4
    <2>2. Aside(stack[n]) => thr # FALSE
      BY <1>1, <1>4
    <2>3. Throws(stack', n - 1, thr, msg, val, exc)
      BY <1>1, <1>2, <2>1, <2>2, PopThrows, Zenon
    <2>4. thr' = thr /\ msg' = msg /\ val' = val /\ exc' = exc
      BY <1>4 DEF throwing
    <2> QED
      BY <1>1, <2>3, <2>4, Zenon DEF ThrowInv
  <1>5. ASSUME UNCHANGED looping, TopFrame.k # "loop" PROVE JumpInv'
    <2>1. Jumps(stack', n - 1, brk, cont, breakHome)
      BY <1>1, <1>2, <1>5, PopJumps, Zenon
    <2>2. brk' = brk /\ cont' = cont /\ breakHome' = breakHome
      BY <1>5 DEF looping
    <2> QED
      BY <1>1, <2>1, <2>2, Zenon DEF JumpInv
  <1>6. ASSUME UNCHANGED returning, TopFrame.k \notin CallFrames PROVE ReturnInv'
    <2>1. ret' = ret /\ retHome' = retHome
      BY <1>6 DEF returning
    <2>2. ret => Calling(retHome, stack', n - 1)
      BY <1>1, <1>2, <1>6, PopCalling, Zenon
    <2> QED
      BY <1>1, <2>1, <2>2, Zenon DEF ReturnInv
  <1> QED
    BY <1>1, <1>3, <1>4, <1>5, <1>6

(* The frame that comes off raises an exception.                            *)
LEMMA PopRaiseInv ==
    ASSUME IInv, stack # <<>>, stack' = Below, NEW due \in Nat,
           NEW v \in Values \cup {Error},
           \/ Raise(v, Below, due)
           \/ Raise(v, stack, due) /\ ~ Catcher(TopFrame)
    PROVE  ThrowInv' /\ thr' \in BOOLEAN /\ msg' \in Messages /\ val' \in Thrown /\ exc' \in Exceptions
  <1> DEFINE n == Len(stack)
  <1>1. /\ stack' \in Seq(Frame) /\ Len(stack') = n - 1 /\ Pop(stack, n, stack')
        /\ n \in Nat \ {0} /\ TopFrame = stack[n] /\ Below \in Seq(Frame) /\ stack \in Seq(Frame)
    BY PopShape, TopShape, Zenon DEF IInv, TypeOK
  <1>2. Throws(stack, n, thr, msg, val, exc)
    BY DEF IInv, ThrowInv
  <1>3. TypeOK
    BY DEF IInv
  <1>4. /\ thr' = TRUE /\ msg' \in Messages /\ val' \in Thrown /\ exc' \in Exceptions
        /\ msg' = TextOf(exc'.v) /\ (val' \in Containers => val' = exc'.v)
    BY <1>1, <1>3, RaiseFacts, Zenon
  <1> HIDE DEF n
  <1>5. Handles(exc'.home, stack', n - 1)
    <2>1. CASE Raise(v, Below, due)
      BY <1>1, <1>3, <2>1, RaiseFacts, Zenon
    <2>2. CASE Raise(v, stack, due) /\ ~ Catcher(TopFrame)
      BY <1>1, <1>3, <2>2, RaiseFacts, PopHandles, Zenon DEF n
    <2> QED
      BY <2>1, <2>2
  <1>6. /\ n \in Nat /\ n - 1 \in Nat /\ n - 1 <= n
        /\ \A i \in 1 .. n - 1 :
              stack'[i] = stack[i] \/ (i = n - 1 /\ ~ Aside(stack'[i]))
    BY <1>1 DEF Pop
  <1>7. Throws(stack', n - 1, TRUE, msg', val', exc')
    <2>1. Kept(stack', n - 1)
      BY <1>2, <1>6, ThrowsKept, KeptAlong
    <2> QED
      BY <1>4, <1>5, <2>1, FlyingThrows, Zenon
  <1> QED
    BY <1>1, <1>4, <1>7, Zenon DEF ThrowInv

(* A statement runs.                                                        *)
LEMMA RunInv ==
    ASSUME IInv, MayRun, NEW frames \in Seq(Frame), NEW k, k = Len(frames),
           stack' = Running(frames), Brings(frames, k)
    PROVE  /\ stack' \in Seq(Frame) /\ FramesInv'
           /\ UNCHANGED throwing => ThrowInv'
           /\ UNCHANGED looping => JumpInv'
           /\ UNCHANGED returning => ReturnInv'
  <1> DEFINE n == Len(stack)
  <1>1. At("block") /\ stack # <<>>
    BY DEF MayRun, At
  <1>2. /\ stack' \in Seq(Frame) /\ Len(stack') = n + k /\ Run(stack, n, stack', frames, k)
        /\ n \in Nat \ {0} /\ k \in Nat /\ TopFrame = stack[n] /\ TopFrame \in Frame
    <2>1. k \in Nat
      BY LenProperties
    <2> QED
      BY <1>1, <2>1, RunShape, TopShape, Zenon DEF IInv
  <1>3. /\ Frames(stack, n) /\ Throws(stack, n, thr, msg, val, exc)
        /\ Jumps(stack, n, brk, cont, breakHome)
    BY Zenon DEF IInv, FramesInv, ThrowInv, JumpInv
  <1>4. TypeOK
    BY DEF IInv
  <1>5. thr = FALSE /\ ret = FALSE
    BY <1>4 DEF MayRun, TypeOK
  <1>6. brk = TRUE \/ cont = TRUE => TopFrame.fresh = TRUE
    <2>1. brk \/ cont => TopFrame.fresh
      BY DEF MayRun
    <2>2. TopFrame.k = "block" /\ TopFrame \in Frame
      BY <1>1, <1>2 DEF At
    <2>3. TopFrame.fresh \in BOOLEAN
      BY <2>2 DEF Frame, Blocks, Loops, Methods, Lambdas, Returns, Tries
    <2> QED
      BY <2>1, <2>3
  <1> HIDE DEF n
  <1>7. FramesInv'
    BY <1>2, <1>3, RunFrames, Zenon DEF FramesInv
  <1>8. ASSUME UNCHANGED throwing PROVE ThrowInv'
    <2>1. Throws(stack', n + k, FALSE, msg, val, exc)
      BY <1>2, <1>3, <1>5, RunThrows, Zenon
    <2>2. thr' = FALSE /\ msg' = msg /\ val' = val /\ exc' = exc
      BY <1>5, <1>8 DEF throwing
    <2> QED
      BY <1>2, <2>1, <2>2, Zenon DEF ThrowInv
  <1>9. ASSUME UNCHANGED looping PROVE JumpInv'
    <2>1. Jumps(stack', n + k, brk, cont, breakHome)
      BY <1>2, <1>3, <1>6, RunJumps, Zenon
    <2>2. brk' = brk /\ cont' = cont /\ breakHome' = breakHome
      BY <1>9 DEF looping
    <2> QED
      BY <1>2, <2>1, <2>2, Zenon DEF JumpInv
  <1>10. ASSUME UNCHANGED returning PROVE ReturnInv'
    BY <1>5, <1>10 DEF ReturnInv, returning
  <1> QED
    BY <1>2, <1>7, <1>8, <1>9, <1>10

(* A statement without frames of its own.                                   *)
LEMMA NoFrames == <<>> \in Seq(Frame) /\ Len(<<>>) = 0 /\ Brings(<<>>, 0)
  BY DEF Brings

LEMMA RunPlain ==
    ASSUME IInv, MayRun, stack' = Running(<<>>)
    PROVE  /\ stack' \in Seq(Frame) /\ FramesInv'
           /\ UNCHANGED throwing => ThrowInv'
           /\ UNCHANGED looping => JumpInv'
           /\ UNCHANGED returning => ReturnInv'
           /\ Len(stack') = Len(stack) /\ Len(stack) \in Nat \ {0}
           /\ Run(stack, Len(stack), stack', <<>>, 0)
  <1>1. At("block") /\ stack # <<>> /\ TypeOK
    BY DEF MayRun, At, IInv
  <1>2. Len(stack') = Len(stack) + 0 /\ Run(stack, Len(stack), stack', <<>>, 0)
    BY <1>1, NoFrames, RunShape
  <1>3. Len(stack) \in Nat \ {0}
    BY <1>1, TopShape
  <1>4. Len(stack) + 0 = Len(stack)
    BY <1>3
  <1> QED
    BY <1>2, <1>3, <1>4, RunInv, NoFrames, Zenon

LEMMA RunRaiseInv ==
    ASSUME IInv, MayRun, stack' = Running(<<>>),
           NEW v \in Values \cup {Error}, NEW due \in Nat, Raise(v, stack, due)
    PROVE  ThrowInv' /\ thr' \in BOOLEAN /\ msg' \in Messages /\ val' \in Thrown /\ exc' \in Exceptions
  <1> DEFINE n == Len(stack)
  <1>1. /\ stack \in Seq(Frame) /\ Len(stack') = n /\ n \in Nat \ {0}
        /\ Run(stack, n, stack', <<>>, 0)
    BY RunPlain, Zenon DEF IInv, TypeOK
  <1>2. /\ thr' = TRUE /\ msg' \in Messages /\ val' \in Thrown /\ exc' \in Exceptions
        /\ exc'.home = HandlerOf(stack) /\ Handles(HandlerOf(stack), stack, n)
        /\ msg' = TextOf(exc'.v) /\ (val' \in Containers => val' = exc'.v)
    BY <1>1, RaiseFacts, Zenon DEF IInv
  <1>3. Kept(stack, n)
    BY ThrowsKept DEF IInv, ThrowInv, n
  <1> HIDE DEF n
  <1>4. Handles(exc'.home, stack', n)
    BY <1>1, <1>2, RunCatcher, Zenon
  <1>5. /\ n \in Nat /\ n <= n
        /\ \A i \in 1 .. n : stack'[i] = stack[i] \/ (i = n /\ ~ Aside(stack'[i]))
    BY <1>1 DEF Run, Block, Aside
  <1>6. Kept(stack', n)
    BY <1>3, <1>5, KeptAlong
  <1> QED
    BY <1>1, <1>2, <1>4, <1>6, FlyingThrows, Zenon DEF ThrowInv

LEMMA ThrowStep ==
    ASSUME IInv, NEW v \in Values \cup {Error}, Throw(v)
    PROVE  IInv'
  <1>1. /\ MayRun /\ stack' = Running(<<>>) /\ UNCHANGED <<returning, looping>>
        /\ Raise(v, stack, HandlerOf(stack))
        /\ TypeOK /\ stack \in Seq(Frame)
    BY DEF Throw, IInv, TypeOK
  <1>2. stack' \in Seq(Frame) /\ FramesInv' /\ JumpInv' /\ ReturnInv'
    BY <1>1, RunPlain
  <1>3. HandlerOf(stack) \in Nat
    BY <1>1, HandlerIs
  <1>4. ThrowInv' /\ thr' \in BOOLEAN /\ msg' \in Messages /\ val' \in Thrown /\ exc' \in Exceptions
    BY <1>1, <1>3, RunRaiseInv, Zenon
  <1>5. TypeOK'
    BY <1>1, <1>2, <1>4 DEF TypeOK, returning, looping
  <1> QED
    BY <1>2, <1>4, <1>5 DEF IInv

(* A return belongs to the innermost call, also when its text fails.        *)
LEMMA ReturnStep == ASSUME IInv, Return PROVE IInv'
  <1> DEFINE n == Len(stack)
  <1>1. /\ MayRun /\ stack' = Running(<<>>) /\ UNCHANGED looping
        /\ Returned("expression", stack)
        /\ UNCHANGED throwing \/ Raise(Error, stack, HandlerOf(stack))
        /\ TypeOK /\ stack \in Seq(Frame)
    BY DEF Return, IInv, TypeOK
  <1>2. /\ stack' \in Seq(Frame) /\ FramesInv' /\ JumpInv'
        /\ UNCHANGED throwing => ThrowInv'
        /\ Len(stack') = n /\ n \in Nat \ {0} /\ Run(stack, n, stack', <<>>, 0)
    BY <1>1, RunPlain, Zenon
  <1>3. HandlerOf(stack) \in Nat /\ CallOf(stack) \in Nat /\ Calling(CallOf(stack), stack, n)
    BY <1>1, HandlerIs, CallIs
  <1>4. ThrowInv' /\ thr' \in BOOLEAN /\ msg' \in Messages /\ val' \in Thrown /\ exc' \in Exceptions
    <2>1. CASE UNCHANGED throwing
      BY <1>1, <1>2, <2>1 DEF TypeOK, throwing
    <2>2. CASE Raise(Error, stack, HandlerOf(stack))
      <3>1. Error \in Values \cup {Error}
        OBVIOUS
      <3> QED
        BY <1>1, <1>3, <2>2, <3>1, RunRaiseInv, Zenon
    <2> QED
      BY <1>1, <2>1, <2>2
  <1>5. /\ ret' = TRUE /\ retNode' = "expression"
        /\ retHome' = CallOf(stack) /\ retDue' = HandlerOf(stack)
    BY <1>1 DEF Returned
  <1>6. ReturnInv'
    <2> HIDE DEF n
    <2>1. Calling(retHome', stack', n)
      BY <1>2, <1>3, <1>5, RunCalling, Zenon
    <2> QED
      BY <1>2, <2>1, Zenon DEF ReturnInv
  <1>7. TypeOK'
    BY <1>1, <1>2, <1>3, <1>4, <1>5 DEF TypeOK, looping
  <1> QED
    BY <1>2, <1>4, <1>6, <1>7 DEF IInv

(* A break and a continue belong to the innermost loop, unless it is of     *)
(* another call or another jump is under way.                               *)
LEMMA JumpStep == ASSUME IInv, Break \/ Continue PROVE IInv'
  <1> DEFINE n == Len(stack)
  <1>1. /\ MayRun /\ stack' = Running(<<>>) /\ UNCHANGED <<throwing, returning>>
        /\ breakHome' = JumpHome
        /\ (brk' = TRUE /\ cont' = cont) \/ (cont' = TRUE /\ brk' = brk)
        /\ TypeOK /\ stack \in Seq(Frame)
    BY DEF Break, Continue, IInv, TypeOK
  <1>2. /\ stack' \in Seq(Frame) /\ FramesInv' /\ ThrowInv' /\ ReturnInv'
        /\ Len(stack') = n /\ n \in Nat \ {0} /\ Run(stack, n, stack', <<>>, 0)
    BY <1>1, RunPlain, Zenon
  <1>3. LoopOf(stack) \in Nat /\ Looping(LoopOf(stack), stack, n)
    BY <1>1, LoopIs
  <1> HIDE DEF n
  <1>4. /\ breakHome' \in Nat /\ brk' \in BOOLEAN /\ cont' \in BOOLEAN
        /\ \/ breakHome' = 0
           \/ Looping(breakHome', stack, n) /\ ~ (brk' = TRUE /\ cont' = TRUE)
    <2>1. CASE brk \/ cont
      BY <1>1, <2>1 DEF JumpHome, TypeOK
    <2>2. CASE ~ (brk \/ cont)
      <3>1. breakHome' \in {0, LoopOf(stack)}
        BY <1>1, <2>2 DEF JumpHome
      <3>2. brk = FALSE /\ cont = FALSE
        BY <1>1, <2>2 DEF TypeOK
      <3>3. breakHome' \in Nat /\ brk' \in BOOLEAN /\ cont' \in BOOLEAN
        <4>1. 0 \in Nat
          OBVIOUS
        <4>2. breakHome' \in Nat
          BY <1>3, <3>1, <4>1, Zenon
        <4> QED
          BY <1>1, <3>2, <4>2, Zenon
      <3>4. ~ (brk' = TRUE /\ cont' = TRUE)
        BY <1>1, <3>2
      <3> QED
        BY <1>3, <3>1, <3>3, <3>4, Zenon
    <2> QED
      BY <2>1, <2>2
  <1>5. Jumps(stack', n, brk', cont', breakHome')
    BY <1>2, <1>4, StartJumps, Zenon
  <1>6. JumpInv'
    BY <1>2, <1>5, Zenon DEF JumpInv
  <1>7. TypeOK'
    BY <1>1, <1>2, <1>4 DEF TypeOK, throwing, returning
  <1> QED
    BY <1>2, <1>6, <1>7 DEF IInv

(* The statements with frames of their own.                                 *)
LEMMA EnterInv ==
    ASSUME IInv, NEW frames \in Seq(Frame), Brings(frames, Len(frames)), Enter(frames)
    PROVE  IInv'
  <1>1. /\ MayRun /\ stack' = Running(frames) /\ UNCHANGED <<throwing, returning, looping>>
        /\ TypeOK
    BY DEF Enter, IInv
  <1>2. stack' \in Seq(Frame) /\ FramesInv' /\ ThrowInv' /\ JumpInv' /\ ReturnInv'
    BY <1>1, RunInv
  <1>3. TypeOK'
    BY <1>1, <1>2 DEF TypeOK, throwing, returning, looping
  <1> QED
    BY <1>2, <1>3 DEF IInv

LEMMA OneFrame ==
    ASSUME NEW f \in Frame, f.k \notin {"lambda", "try"}
    PROVE  <<f>> \in Seq(Frame) /\ Brings(<<f>>, Len(<<f>>))
  <1>1. <<f>> \in Seq(Frame) /\ Len(<<f>>) = 1 /\ <<f>>[1] = f
    OBVIOUS
  <1> DEFINE q == <<f>>
  <1> HIDE DEF q
  <1>2. Brings(q, 1)
    <2>1. q[1] = f
      BY <1>1 DEF q
    <2> QED
      BY <2>1 DEF Brings, Aside
  <1> QED
    BY <1>1, <1>2 DEF q

LEMMA TwoFrames ==
    ASSUME NEW f \in Frame, NEW g \in Frame, f.k # "block", f.k = "lambda" => f.saved = FALSE,
           ~ Aside(f), g.k = "block"
    PROVE  <<f, g>> \in Seq(Frame) /\ Brings(<<f, g>>, Len(<<f, g>>))
  <1>1. <<f, g>> \in Seq(Frame) /\ Len(<<f, g>>) = 2 /\ <<f, g>>[1] = f /\ <<f, g>>[2] = g
    BY PairFacts
  <1> DEFINE q == <<f, g>>
  <1> HIDE DEF q
  <1>2. Brings(q, 2)
    <2>1. q[1] = f /\ q[2] = g
      BY <1>1 DEF q
    <2>2. \A i \in 1 .. 2 : i = 1 \/ i = 2
      OBVIOUS
    <2>3. \A i \in 1 .. 2 - 1 : i = 1
      OBVIOUS
    <2> QED
      BY <2>1, <2>2, <2>3 DEF Brings, Aside
  <1> QED
    BY <1>1, <1>2 DEF q

LEMMA ThreeFrames ==
    ASSUME NEW e \in Frame, NEW f \in Frame, NEW g \in Frame,
           e.k \in {"return", "operand"}, f.k # "block", f.k = "lambda" => f.saved = FALSE,
           ~ Aside(f), g.k = "block"
    PROVE  <<e, f, g>> \in Seq(Frame) /\ Brings(<<e, f, g>>, Len(<<e, f, g>>))
  <1>1. /\ <<e, f, g>> \in Seq(Frame) /\ Len(<<e, f, g>>) = 3
        /\ <<e, f, g>>[1] = e /\ <<e, f, g>>[2] = f /\ <<e, f, g>>[3] = g
    BY TripleFacts
  <1> DEFINE q == <<e, f, g>>
  <1> HIDE DEF q
  <1>2. Brings(q, 3)
    <2>1. q[1] = e /\ q[2] = f /\ q[3] = g
      BY <1>1 DEF q
    <2>2. \A i \in 1 .. 3 : i = 1 \/ i = 2 \/ i = 3
      OBVIOUS
    <2>3. \A i \in 1 .. 3 - 1 : i = 1 \/ i = 2
      OBVIOUS
    <2> QED
      BY <2>1, <2>2, <2>3 DEF Brings, Aside
  <1> QED
    BY <1>1, <1>2 DEF q

LEMMA EnterStep ==
    ASSUME IInv, If \/ LoopStatement \/ EnterTry \/ Call \/ OperandCall \/ ReturnCall
    PROVE  IInv'
  <1> DEFINE b == Block(TRUE)
  <1>1. b \in Frame /\ b.k = "block"
    BY FrameTypes DEF Block
  <1>2. CASE If
    <2>1. <<b>> \in Seq(Frame) /\ Brings(<<b>>, Len(<<b>>))
      <3> HIDE DEF b
      <3> QED
        BY <1>1, OneFrame
    <2> QED
      BY <1>2, <2>1, EnterInv DEF If
  <1>3. CASE LoopStatement
    <2>1. Loop \in Frame /\ Loop.k = "loop"
      BY FrameTypes DEF Loop
    <2>2. <<Loop>> \in Seq(Frame) /\ Brings(<<Loop>>, Len(<<Loop>>))
      BY <2>1, OneFrame
    <2> QED
      BY <1>3, <2>2, EnterInv DEF LoopStatement
  <1>4. CASE EnterTry
    <2>1. PICK catches \in BOOLEAN, finally \in BOOLEAN : Enter(<<Try(catches, finally), b>>)
      BY <1>4 DEF EnterTry
    <2> DEFINE f == Try(catches, finally)
    <2>2. f \in Frame /\ f.k = "try" /\ ~ Aside(f)
      BY FrameTypes DEF Try, Aside
    <2> HIDE DEF f, b
    <2>3. <<f, b>> \in Seq(Frame) /\ Brings(<<f, b>>, Len(<<f, b>>))
      BY <1>1, <2>2, TwoFrames
    <2> QED
      BY <2>1, <2>3, EnterInv DEF f
  <1>5. ASSUME NEW c \in Callee, MayRun
        PROVE  /\ c \in Frame /\ c.k # "block" /\ ~ Aside(c)
               /\ c.k = "lambda" => c.saved = FALSE
    <2>1. ret = FALSE
      BY <1>5 DEF MayRun, IInv, TypeOK
    <2>2. CASE c = LambdaFrame(ret)
      BY <2>1, <2>2, FrameTypes DEF LambdaFrame, Aside
    <2>3. CASE c \in {MethodFrame(type) : type \in {"void", "typed", "dynamic"}}
      BY <2>3, FrameTypes DEF MethodFrame, Aside
    <2> QED
      BY <2>2, <2>3 DEF Callee
  <1>6. CASE Call
    <2>1. PICK c \in Callee : Enter(<<c, b>>)
      BY <1>6 DEF Call
    <2>2. MayRun
      BY <2>1 DEF Enter
    <2> HIDE DEF b
    <2>3. <<c, b>> \in Seq(Frame) /\ Brings(<<c, b>>, Len(<<c, b>>))
      BY <1>1, <1>5, <2>2, TwoFrames
    <2> QED
      BY <2>1, <2>3, EnterInv
  <1>7. CASE OperandCall \/ ReturnCall
    <2>1. PICK e \in {OperandOf, ReturnOf}, c \in Callee : Enter(<<e, c, b>>)
      BY <1>7 DEF OperandCall, ReturnCall
    <2>2. MayRun
      BY <2>1 DEF Enter
    <2>3. e \in Frame /\ e.k \in {"return", "operand"}
      BY FrameTypes DEF OperandOf, ReturnOf
    <2> HIDE DEF b
    <2>4. <<e, c, b>> \in Seq(Frame) /\ Brings(<<e, c, b>>, Len(<<e, c, b>>))
      BY <1>1, <1>5, <2>2, <2>3, ThreeFrames
    <2> QED
      BY <2>1, <2>4, EnterInv
  <1> QED
    BY <1>2, <1>3, <1>4, <1>6, <1>7

-----------------------------------------------------------------------------
(* The constructs that end.                                                 *)
LEMMA NoJump == ASSUME breakHome' = 0 PROVE JumpInv'
  BY DEF JumpInv, Jumps

LEMMA TopFields ==
    ASSUME IInv, stack # <<>>
    PROVE  /\ TypeOK /\ TopFrame \in Frame
           /\ TopFrame.k = "try" => TopFrame \in Tries
           /\ TopFrame.k = "try" /\ Aside(TopFrame) => TopFrame.at = "finally"
           /\ TopFrame.k = "lambda" => TopFrame.saved = FALSE
  <1> DEFINE n == Len(stack)
  <1>1. TypeOK /\ TopFrame \in Frame /\ TopFrame = stack[n] /\ n \in Nat \ {0}
    BY TopShape DEF IInv
  <1>2. Frames(stack, n)
    BY DEF IInv, FramesInv
  <1> HIDE DEF n
  <1>3. n \in 1 .. n
    BY <1>1
  <1>4. /\ Aside(TopFrame) => TopFrame.at = "finally"
        /\ TopFrame.k = "lambda" => TopFrame.saved = FALSE
    BY <1>1, <1>2, <1>3, Zenon DEF Frames
  <1>5. TopFrame.k = "try" => TopFrame \in Tries
    BY <1>1 DEF Frame, Blocks, Loops, Methods, Lambdas, Returns
  <1> QED
    BY <1>1, <1>4, <1>5

LEMMA EndStep == ASSUME IInv, EndBlock \/ EndTry PROVE IInv'
  <1>1. /\ stack # <<>> /\ stack' = Below /\ UNCHANGED <<throwing, returning, looping>>
        /\ TopFrame.k \in {"block", "try"}
    BY DEF EndBlock, EndTry, At
  <1>2. TypeOK /\ (thr => ~ Catcher(TopFrame)) /\ ~ Aside(TopFrame)
    <2>1. CASE EndBlock
      BY <1>1, <2>1, TopFields DEF EndBlock, At, Catcher, Aside
    <2>2. CASE EndTry
      BY <1>1, <2>2, TopFields DEF EndTry, AboutToCatch, At, Catcher, Aside
    <2> QED
      BY <2>1, <2>2
  <1>3. TopFrame.k \notin CallFrames /\ TopFrame.k # "loop"
    BY <1>1 DEF CallFrames
  <1>4. stack' \in Seq(Frame) /\ FramesInv' /\ ThrowInv' /\ JumpInv' /\ ReturnInv'
    BY <1>1, <1>2, <1>3, PopInv
  <1>5. TypeOK'
    BY <1>1, <1>2, <1>4 DEF TypeOK, throwing, returning, looping
  <1> QED
    BY <1>4, <1>5 DEF IInv

(* A loop that ends spends the jump; a break that meets a continue belongs  *)
(* to no loop.                                                              *)
LEMMA LoopLeaves == ASSUME IInv, LoopBreak \/ LoopLeft PROVE IInv'
  <1>1. /\ stack # <<>> /\ stack' = Below /\ UNCHANGED <<throwing, returning>>
        /\ TopFrame.k = "loop" /\ TypeOK
    BY DEF LoopBreak, LoopLeft, At, IInv
  <1>2. brk' \in BOOLEAN /\ cont' \in BOOLEAN /\ breakHome' = 0
    <2>1. CASE LoopBreak
      <3>1. brk = TRUE /\ cont = TRUE => breakHome = 0
        BY DEF IInv, JumpInv, Jumps
      <3> QED
        BY <1>1, <2>1, <3>1 DEF LoopBreak, Spent, TypeOK
    <2>2. CASE LoopLeft
      BY <2>2 DEF LoopLeft, Spent
    <2> QED
      BY <2>1, <2>2
  <1>3. ~ Catcher(TopFrame) /\ ~ Aside(TopFrame) /\ TopFrame.k \notin CallFrames
    BY <1>1 DEF Catcher, Aside, CallFrames
  <1>4. stack' \in Seq(Frame) /\ FramesInv' /\ ThrowInv' /\ ReturnInv' /\ JumpInv'
    BY <1>1, <1>2, <1>3, PopInv, NoJump
  <1>5. TypeOK'
    BY <1>1, <1>2, <1>4 DEF TypeOK, throwing, returning
  <1> QED
    BY <1>4, <1>5 DEF IInv

LEMMA LoopTests == ASSUME IInv, LoopTest PROVE IInv'
  <1>1. /\ stack # <<>> /\ TopFrame.k = "loop" /\ TypeOK /\ UNCHANGED returning
        /\ brk' = FALSE /\ cont' = FALSE /\ breakHome' = 0
    BY DEF LoopTest, At, IInv, Spent
  <1>2. ret = FALSE /\ thr = FALSE
    BY <1>1 DEF LoopTest, TypeOK
  <1>3. ~ Catcher(TopFrame) /\ ~ Aside(TopFrame)
    BY <1>1 DEF Catcher, Aside
  <1>4. ReturnInv' /\ JumpInv'
    BY <1>1, <1>2, NoJump DEF ReturnInv, returning
  <1>5. /\ stack' \in Seq(Frame) /\ FramesInv' /\ ThrowInv'
        /\ thr' \in BOOLEAN /\ msg' \in Messages /\ val' \in Thrown /\ exc' \in Exceptions
    <2>1. CASE stack' = Append(stack, Block(TRUE)) /\ UNCHANGED throwing
      <3> DEFINE n == Len(stack)
      <3>1. /\ stack' \in Seq(Frame) /\ Len(stack') = n + 1 /\ Grow(stack, n, stack')
            /\ n \in Nat \ {0} /\ stack[n].k = "loop"
        BY <1>1, <2>1, GrowShape, TopShape, Zenon
      <3>2. Frames(stack, n) /\ Throws(stack, n, FALSE, msg, val, exc)
        BY <1>2, Zenon DEF IInv, FramesInv, ThrowInv
      <3> HIDE DEF n
      <3>3. stack[n].k # "block"
        BY <3>1
      <3>4. Frames(stack', n + 1) /\ Throws(stack', n + 1, FALSE, msg, val, exc)
        BY <3>1, <3>2, <3>3, GrowFrames, GrowThrows, Zenon
      <3>5. thr' = FALSE /\ msg' = msg /\ val' = val /\ exc' = exc
        BY <1>2, <2>1 DEF throwing
      <3>6. FramesInv' /\ ThrowInv'
        BY <3>1, <3>4, <3>5, Zenon DEF FramesInv, ThrowInv
      <3> QED
        BY <1>1, <3>1, <3>5, <3>6 DEF TypeOK
    <2>2. CASE stack' = Below /\ UNCHANGED throwing
      BY <1>1, <1>3, <2>2, PopInv DEF TypeOK, throwing
    <2>3. CASE stack' = Below /\ Raise(Error, stack, HandlerOf(stack))
      <3>1. HandlerOf(stack) \in Nat
        BY <1>1, HandlerIs DEF TypeOK
      <3> QED
        BY <1>1, <1>3, <2>3, <3>1, PopInv, PopRaiseInv
    <2> QED
      BY <2>1, <2>2, <2>3 DEF LoopTest
  <1>6. TypeOK'
    BY <1>1, <1>2, <1>5 DEF TypeOK, returning
  <1> QED
    BY <1>4, <1>5, <1>6 DEF IInv

(* A call that comes back takes the return with it.                         *)
LEMMA CallReturns ==
    ASSUME IInv, MethodThrew \/ TypeError \/ MethodReturns \/ LambdaReturns
    PROVE  IInv'
  <1>1. /\ stack # <<>> /\ stack' = Below /\ UNCHANGED looping
        /\ TopFrame.k \in CallFrames /\ TypeOK
    BY DEF MethodThrew, TypeError, MethodReturns, LambdaReturns, At, CallFrames, IInv
  <1>2. TopFrame.k # "loop" /\ ~ Catcher(TopFrame) /\ ~ Aside(TopFrame)
    BY <1>1 DEF CallFrames, Catcher, Aside
  <1>3. stack' \in Seq(Frame) /\ FramesInv' /\ JumpInv' /\ (UNCHANGED throwing => ThrowInv')
    BY <1>1, <1>2, PopInv
  <1>4. ret' = FALSE /\ retNode' \in {"none", "expression", "call"}
        /\ retHome' \in Nat /\ retDue' \in Nat
    <2>1. CASE NoReturn
      BY <2>1 DEF NoReturn
    <2>2. CASE ret = FALSE /\ UNCHANGED returning
      BY <1>1, <2>2 DEF TypeOK, returning
    <2>3. CASE MethodThrew
      BY <2>1, <2>3 DEF MethodThrew, Dropped
    <2>4. CASE TypeError \/ MethodReturns
      BY <1>1, <2>1, <2>2, <2>4 DEF TypeError, MethodReturns, TypeOK
    <2>5. CASE LambdaReturns
      BY <1>1, <2>5, TopFields DEF LambdaReturns, At
    <2> QED
      BY <2>3, <2>4, <2>5
  <1>5. ThrowInv' /\ thr' \in BOOLEAN /\ msg' \in Messages /\ val' \in Thrown /\ exc' \in Exceptions
    <2>1. \/ UNCHANGED throwing
          \/ \E due \in Nat : Raise(Error, Below, due)
      <3>1. CASE MethodThrew
        BY <3>1 DEF MethodThrew
      <3>2. CASE TypeError
        <4>1. HandlerOf(Below) \in Nat
          BY <1>1, TopShape, HandlerIs
        <4> QED
          BY <3>2, <4>1 DEF TypeError
      <3>3. CASE MethodReturns \/ LambdaReturns
        <4>1. retDue \in Nat
          BY <1>1 DEF TypeOK
        <4> QED
          BY <3>3, <4>1 DEF MethodReturns, LambdaReturns, Materialize
      <3> QED
        BY <3>1, <3>2, <3>3
    <2>2. CASE UNCHANGED throwing
      BY <1>1, <1>3, <2>2 DEF TypeOK, throwing
    <2>3. ASSUME NEW due \in Nat, Raise(Error, Below, due)
          PROVE  ThrowInv' /\ thr' \in BOOLEAN /\ msg' \in Messages /\ val' \in Thrown /\ exc' \in Exceptions
      BY <1>1, <2>3, PopRaiseInv
    <2> QED
      BY <2>1, <2>2, <2>3
  <1>6. ReturnInv'
    BY <1>4 DEF ReturnInv
  <1>7. TypeOK'
    BY <1>1, <1>3, <1>4, <1>5 DEF TypeOK, looping
  <1> QED
    BY <1>3, <1>5, <1>6, <1>7 DEF IInv

(* An operand that comes back leaves the exception or replaces it.          *)
LEMMA OperandStep == ASSUME IInv, OperandReturned PROVE IInv'
  <1>1. /\ stack # <<>> /\ stack' = Below /\ UNCHANGED <<returning, looping>>
        /\ TopFrame.k = "operand" /\ TypeOK
    BY DEF OperandReturned, At, IInv
  <1>2. /\ TopFrame.k # "loop" /\ ~ Catcher(TopFrame) /\ ~ Aside(TopFrame)
        /\ TopFrame.k \notin CallFrames
    BY <1>1 DEF Catcher, Aside, CallFrames
  <1>3. /\ stack' \in Seq(Frame) /\ FramesInv' /\ JumpInv' /\ ReturnInv'
        /\ UNCHANGED throwing => ThrowInv'
    BY <1>1, <1>2, PopInv
  <1>4. ThrowInv' /\ thr' \in BOOLEAN /\ msg' \in Messages /\ val' \in Thrown /\ exc' \in Exceptions
    <2>1. CASE UNCHANGED throwing
      BY <1>1, <1>3, <2>1 DEF TypeOK, throwing
    <2>2. ASSUME NEW v \in Values \cup {Error}, Raise(v, Below, HandlerOf(Below))
          PROVE  ThrowInv' /\ thr' \in BOOLEAN /\ msg' \in Messages /\ val' \in Thrown /\ exc' \in Exceptions
      <3>1. HandlerOf(Below) \in Nat
        BY <1>1, TopShape, HandlerIs
      <3> QED
        BY <1>1, <2>2, <3>1, PopRaiseInv
    <2> QED
      BY <2>1, <2>2 DEF OperandReturned
  <1>5. TypeOK'
    BY <1>1, <1>3, <1>4 DEF TypeOK, returning, looping
  <1> QED
    BY <1>3, <1>4, <1>5 DEF IInv

(* The return of a call goes up for the caller's own call.                  *)
LEMMA ReturnCalledStep == ASSUME IInv, ReturnCalled PROVE IInv'
  <1>1. /\ stack # <<>> /\ stack' = Below /\ UNCHANGED <<throwing, looping>>
        /\ TopFrame.k = "return" /\ TypeOK /\ Returned("call", Below)
    BY DEF ReturnCalled, At, IInv
  <1>2. TopFrame.k # "loop" /\ ~ Catcher(TopFrame) /\ ~ Aside(TopFrame)
    BY <1>1 DEF Catcher, Aside
  <1>3. stack' \in Seq(Frame) /\ FramesInv' /\ JumpInv' /\ ThrowInv'
    BY <1>1, <1>2, PopInv
  <1>4. /\ CallOf(Below) \in Nat /\ HandlerOf(Below) \in Nat
        /\ Calling(CallOf(Below), Below, Len(Below))
    BY <1>1, TopShape, CallIs, HandlerIs
  <1>5. ret' = TRUE /\ retNode' = "call" /\ retHome' = CallOf(Below) /\ retDue' = HandlerOf(Below)
    BY <1>1 DEF Returned
  <1>6. ReturnInv'
    BY <1>1, <1>4, <1>5, Zenon DEF ReturnInv
  <1>7. TypeOK'
    BY <1>1, <1>3, <1>4, <1>5 DEF TypeOK, throwing, looping
  <1> QED
    BY <1>3, <1>6, <1>7 DEF IInv

-----------------------------------------------------------------------------
(* te_stmt_try_catch: a catch ends the exception, a finally puts it aside,  *)
(* and the end of the finally lets it fly on.                               *)
LEMMA TurnInv ==
    ASSUME IInv, At("try"), NEW f \in Frame,
           stack' = Push(Below, <<f, Block(TRUE)>>),
           f.k = "try", f.at \in {"catch", "finally"}, Aside(f) => f.at = "finally",
           UNCHANGED <<returning, looping>>
    PROVE  /\ stack' \in Seq(Frame) /\ FramesInv' /\ JumpInv' /\ ReturnInv'
           /\ Len(stack') = Len(stack) + 1 /\ Len(stack) \in Nat \ {0}
           /\ Turn(stack, Len(stack), stack', f)
  <1> DEFINE n == Len(stack)
  <1>1. /\ stack' \in Seq(Frame) /\ Len(stack') = n + 1 /\ Turn(stack, n, stack', f)
        /\ n \in Nat \ {0} /\ stack[n].k = "try"
        /\ stack # <<>>
    BY TurnShape, TopShape, Zenon DEF At, IInv
  <1>2. /\ Frames(stack, n) /\ Jumps(stack, n, brk, cont, breakHome)
        /\ ret => Calling(retHome, stack, n)
    BY <1>1, Zenon DEF IInv, FramesInv, JumpInv, ReturnInv
  <1>3. brk' = brk /\ cont' = cont /\ breakHome' = breakHome /\ ret' = ret /\ retHome' = retHome
    BY DEF returning, looping
  <1> HIDE DEF n
  <1>4. Frames(stack', n + 1)
    BY <1>1, <1>2, TurnFrames, Zenon
  <1>5. Jumps(stack', n + 1, brk, cont, breakHome)
    BY <1>1, <1>2, TurnJumps, Zenon
  <1>6. ret => Calling(retHome, stack', n + 1)
    BY <1>1, <1>2, TurnCalling, Zenon
  <1>7. FramesInv' /\ JumpInv' /\ ReturnInv'
    BY <1>1, <1>3, <1>4, <1>5, <1>6, Zenon DEF FramesInv, JumpInv, ReturnInv
  <1> QED
    BY <1>1, <1>7 DEF n

LEMMA CatchStep == ASSUME IInv, Catch PROVE IInv'
  <1> DEFINE n == Len(stack)
             f == [TopFrame EXCEPT !.at = "catch"]
  <1>1. /\ At("try") /\ stack # <<>> /\ TopFrame.k = "try" /\ TopFrame.at = "body"
        /\ thr' = FALSE /\ msg' = None /\ val' = None /\ exc' = NoException
        /\ stack' = Push(Below, <<f, Block(TRUE)>>)
        /\ UNCHANGED <<returning, looping>> /\ TypeOK
    BY DEF Catch, AboutToCatch, At, IInv
  <1>2. TopFrame \in Tries /\ ~ Aside(TopFrame)
    BY <1>1, TopFields
  <1>3. f \in Frame /\ f.k = "try" /\ f.at = "catch" /\ ~ Aside(f)
    BY <1>2 DEF Tries, Frame, Aside
  <1> HIDE DEF f, n
  <1>4. /\ stack' \in Seq(Frame) /\ FramesInv' /\ JumpInv' /\ ReturnInv'
        /\ Len(stack') = n + 1 /\ n \in Nat \ {0} /\ Turn(stack, n, stack', f)
    BY <1>1, <1>3, TurnInv DEF n
  <1>5. Throws(stack, n, thr, msg, val, exc) /\ ~ Aside(stack[n])
    BY <1>1, <1>2, TopShape DEF IInv, ThrowInv, n
  <1>6. None \notin Containers
    BY FlowAssumption
  <1>7. Throws(stack', n + 1, FALSE, None, None, NoException)
    BY <1>3, <1>4, <1>5, <1>6, TurnThrows
  <1>8. ThrowInv'
    BY <1>1, <1>4, <1>7, Zenon DEF ThrowInv
  <1>9. NoException \in Exceptions /\ None \in Thrown /\ None \in Messages
    BY DEF NoException, Exceptions, Thrown, Messages
  <1>10. TypeOK'
    BY <1>1, <1>4, <1>9 DEF TypeOK, returning, looping
  <1> QED
    BY <1>4, <1>8, <1>10 DEF IInv

LEMMA FinallyStep == ASSUME IInv, Finally PROVE IInv'
  <1> DEFINE n == Len(stack)
             f == [TopFrame EXCEPT !.at = "finally", !.pending = thr, !.saved = msg, !.kept = exc]
  <1>1. /\ At("try") /\ stack # <<>> /\ TopFrame.k = "try" /\ TopFrame.at # "finally"
        /\ ~ AboutToCatch
        /\ thr' = FALSE /\ msg' = None /\ val' = val /\ exc' = NoException
        /\ stack' = Push(Below, <<f, Block(TRUE)>>)
        /\ UNCHANGED <<returning, looping>> /\ TypeOK
    BY DEF Finally, At, IInv
  <1>2. TopFrame \in Tries /\ ~ Aside(TopFrame)
    BY <1>1, TopFields
  <1>3. thr \in BOOLEAN /\ msg \in Messages /\ exc \in Exceptions
    BY <1>1 DEF TypeOK
  <1>4. /\ f \in Tries /\ f.k = "try" /\ f.at = "finally"
        /\ f.pending = thr /\ f.saved = msg /\ f.kept = exc
    BY <1>2, <1>3 DEF Tries
  <1>5. thr = TRUE => ~ Catcher(TopFrame)
    BY <1>1 DEF AboutToCatch, Catcher
  <1> HIDE DEF f, n
  <1>6. f \in Frame
    BY <1>4 DEF Frame
  <1>7. /\ stack' \in Seq(Frame) /\ FramesInv' /\ JumpInv' /\ ReturnInv'
        /\ Len(stack') = n + 1 /\ n \in Nat \ {0} /\ Turn(stack, n, stack', f)
    BY <1>1, <1>4, <1>6, TurnInv DEF n
  <1>8. /\ Throws(stack, n, thr, msg, val, exc) /\ ~ Aside(stack[n])
        /\ thr = TRUE => ~ Catcher(stack[n])
    BY <1>1, <1>2, <1>5, TopShape DEF IInv, ThrowInv, n
  <1>9. /\ Aside(f) => thr = TRUE /\ ~ Catcher(stack[n]) /\ f.saved = msg /\ f.kept = exc
        /\ thr = FALSE \/ Aside(f)
    BY <1>3, <1>4, <1>8 DEF Aside
  <1>10. Throws(stack', n + 1, FALSE, None, val, NoException)
    BY <1>7, <1>8, <1>9, TurnThrows
  <1>11. ThrowInv'
    BY <1>1, <1>7, <1>10, Zenon DEF ThrowInv
  <1>12. NoException \in Exceptions /\ None \in Thrown /\ None \in Messages
    BY DEF NoException, Exceptions, Thrown, Messages
  <1>13. TypeOK'
    BY <1>1, <1>7, <1>12 DEF TypeOK, returning, looping
  <1> QED
    BY <1>7, <1>11, <1>13 DEF IInv

LEMMA EndFinallyStep == ASSUME IInv, EndFinally PROVE IInv'
  <1> DEFINE n == Len(stack)
  <1>1. /\ stack # <<>> /\ TopFrame.k = "try" /\ TopFrame.at = "finally"
        /\ stack' = Below /\ val' = val /\ UNCHANGED <<returning, looping>>
        /\ Resumed /\ TypeOK
    BY DEF EndFinally, At, IInv
  <1>2. TopFrame \in Tries
    BY <1>1, TopFields
  <1>3. ~ Catcher(TopFrame) /\ TopFrame.k # "loop" /\ TopFrame.k \notin CallFrames
    BY <1>1 DEF Catcher, CallFrames
  <1>4. stack' \in Seq(Frame) /\ FramesInv' /\ JumpInv' /\ ReturnInv'
    BY <1>1, <1>3, PopInv
  <1>5. ThrowInv' /\ thr' \in BOOLEAN /\ msg' \in Messages /\ val' \in Thrown /\ exc' \in Exceptions
    <2>1. CASE TopFrame.pending /\ ~ thr
      <3>1. thr' = TRUE /\ msg' = TopFrame.saved /\ exc' = TopFrame.kept
        BY <1>1, <2>1 DEF Resumed
      <3>2. /\ Len(stack') = n - 1 /\ Pop(stack, n, stack') /\ n \in Nat \ {0}
            /\ TopFrame = stack[n] /\ Throws(stack, n, thr, msg, val, exc)
        BY <1>1, PopShape, TopShape, Zenon DEF IInv, ThrowInv
      <3> HIDE DEF n
      <3>3. thr = FALSE /\ Aside(stack[n]) /\ n \in 1 .. n
        BY <1>1, <1>2, <2>1, <3>2 DEF TypeOK, Tries, Aside
      <3>4. \A j \in n + 1 .. n : ~ Aside(stack[j])
        BY <3>2
      <3>5. /\ Handles(stack[n].kept.home, stack, n - 1)
            /\ stack[n].saved = TextOf(stack[n].kept.v)
            /\ val \in Containers => val = stack[n].kept.v
        BY <3>2, <3>3, <3>4 DEF Throws
      <3>6. /\ n \in Nat /\ n - 1 \in Nat /\ n - 1 <= n
            /\ \A i \in 1 .. n - 1 : stack'[i] = stack[i]
            /\ \A i \in 1 .. n - 1 :
                  stack'[i] = stack[i] \/ (i = n - 1 /\ ~ Aside(stack'[i]))
        BY <3>2 DEF Pop
      <3>7. Handles(exc'.home, stack', n - 1)
        BY <3>1, <3>2, <3>5, <3>6, LowHandles, Zenon
      <3>8. Kept(stack', n - 1)
        BY <3>2, <3>6, ThrowsKept, KeptAlong
      <3>9. msg' = TextOf(exc'.v) /\ (val' \in Containers => val' = exc'.v)
        BY <1>1, <3>1, <3>2, <3>5
      <3>10. Throws(stack', n - 1, TRUE, msg', val', exc')
        BY <3>7, <3>8, <3>9, FlyingThrows, Zenon
      <3>11. ThrowInv'
        BY <3>1, <3>2, <3>10, Zenon DEF ThrowInv
      <3>12. val' \in Thrown /\ msg' \in Messages /\ exc' \in Exceptions /\ thr' \in BOOLEAN
        BY <1>1, <1>2, <3>1 DEF TypeOK, Tries
      <3> QED
        BY <3>11, <3>12
    <2>2. CASE ~ (TopFrame.pending /\ ~ thr)
      <3>1. UNCHANGED throwing
        BY <1>1, <2>2 DEF Resumed, throwing
      <3>2. Aside(TopFrame) => thr
        BY <1>2, <2>2 DEF Aside
      <3> QED
        BY <1>1, <1>3, <3>1, <3>2, PopInv DEF TypeOK, throwing
    <2> QED
      BY <2>1, <2>2
  <1>6. TypeOK'
    BY <1>1, <1>4, <1>5 DEF TypeOK, returning, looping
  <1> QED
    BY <1>4, <1>5, <1>6 DEF IInv

-----------------------------------------------------------------------------
(* A request begins with two frames and no flag up.                         *)
FreshStack == stack = <<MethodFrame("dynamic"), Block(TRUE)>>
NoFlags == /\ thr = FALSE /\ ret = FALSE /\ brk = FALSE /\ cont = FALSE
           /\ exc = NoException /\ retNode = "none" /\ retHome = 0 /\ retDue = 0
           /\ breakHome = 0

LEMMA FreshFacts ==
    ASSUME NEW s, s = <<MethodFrame("dynamic"), Block(TRUE)>>
    PROVE  /\ s \in Seq(Frame) /\ Len(s) = 2 /\ Frames(s, 2)
           /\ \A m, v, e : Throws(s, 2, FALSE, m, v, e)
  <1> DEFINE a == MethodFrame("dynamic")
             b == Block(TRUE)
  <1>1. a \in Frame /\ b \in Frame
    BY FrameTypes
  <1>2. a.k = "method" /\ b.k = "block"
    BY DEF MethodFrame, Block
  <1> HIDE DEF a, b
  <1>3. <<a, b>> \in Seq(Frame) /\ Len(<<a, b>>) = 2 /\ <<a, b>>[1] = a /\ <<a, b>>[2] = b
    BY <1>1, PairFacts
  <1>4. s = <<a, b>>
    BY DEF a, b
  <1>5. s \in Seq(Frame) /\ Len(s) = 2 /\ s[1] = a /\ s[2] = b
    BY <1>3, <1>4
  <1>6. /\ \A i \in 1 .. 2 : i = 1 \/ i = 2
        /\ \A i \in 1 .. 2 - 1 : i = 1
    OBVIOUS
  <1>7. \A i \in 1 .. 2 : ~ Aside(s[i]) /\ s[i].k # "lambda"
    BY <1>2, <1>5, <1>6 DEF Aside
  <1>8. Frames(s, 2)
    BY <1>2, <1>5, <1>6, <1>7 DEF Frames
  <1>9. \A m, v, e : Throws(s, 2, FALSE, m, v, e)
    BY <1>7 DEF Throws
  <1> QED
    BY <1>5, <1>8, <1>9

LEMMA FreshInv == ASSUME FreshStack, NoFlags, msg \in Messages, val \in Thrown PROVE IInv
  <1>1. /\ stack \in Seq(Frame) /\ Len(stack) = 2 /\ Frames(stack, 2)
        /\ Throws(stack, 2, FALSE, msg, val, exc)
    BY FreshFacts DEF FreshStack
  <1>2. NoException \in Exceptions
    BY DEF NoException, Exceptions, Thrown
  <1>3. TypeOK
    BY <1>1, <1>2 DEF NoFlags, TypeOK
  <1>4. FramesInv /\ ThrowInv
    BY <1>1, Zenon DEF FramesInv, ThrowInv, NoFlags
  <1>5. ReturnInv /\ JumpInv
    BY DEF NoFlags, ReturnInv, JumpInv, Jumps
  <1> QED
    BY <1>3, <1>4, <1>5 DEF IInv

LEMMA FreshInvNext ==
    ASSUME FreshStack', NoFlags', msg' \in Messages, val' \in Thrown PROVE IInv'
  <1>1. /\ stack' \in Seq(Frame) /\ Len(stack') = 2 /\ Frames(stack', 2)
        /\ Throws(stack', 2, FALSE, msg', val', exc')
    BY FreshFacts DEF FreshStack
  <1>2. NoException \in Exceptions
    BY DEF NoException, Exceptions, Thrown
  <1>3. TypeOK'
    BY <1>1, <1>2 DEF NoFlags, TypeOK
  <1>4. FramesInv' /\ ThrowInv'
    BY <1>1, Zenon DEF FramesInv, ThrowInv, NoFlags
  <1>5. ReturnInv' /\ JumpInv'
    BY DEF NoFlags, ReturnInv, JumpInv, Jumps
  <1> QED
    BY <1>3, <1>4, <1>5 DEF IInv

LEMMA RequestSteps == ASSUME IInv, Fatal \/ NextRequest PROVE IInv'
  <1>1. CASE NextRequest
    <2>1. FreshStack' /\ NoFlags' /\ msg' \in Messages /\ val' \in Thrown
      BY <1>1 DEF NextRequest, FreshStack, NoFlags, IInv, TypeOK
    <2> QED
      BY <2>1, FreshInvNext
  <1>2. CASE Fatal
    <2>1. /\ stack' = <<>> /\ UNCHANGED <<throwing, returning, looping>> /\ thr = FALSE
          /\ TypeOK
      BY <1>2 DEF Fatal, MayRun, IInv, TypeOK
    <2>2. stack' \in Seq(Frame) /\ Len(stack') = 0
      BY <2>1
    <2>3. TypeOK'
      BY <2>1, <2>2 DEF TypeOK, throwing, returning, looping
    <2>4. FramesInv' /\ ReturnInv'
      BY <2>1, <2>2 DEF FramesInv, Frames, ReturnInv
    <2>5. ThrowInv'
      BY <2>1, <2>2 DEF ThrowInv, Throws, throwing
    <2>6. JumpInv'
      <3>1. brk = TRUE /\ cont = TRUE => breakHome = 0
        BY DEF IInv, JumpInv, Jumps
      <3> QED
        BY <2>1, <2>2, <3>1 DEF JumpInv, Jumps, looping
    <2> QED
      BY <2>3, <2>4, <2>5, <2>6 DEF IInv
  <1> QED
    BY <1>1, <1>2

-----------------------------------------------------------------------------
(* The inductive invariant holds in every reachable state.                  *)
THEOREM FlowInvariant == ASSUME FlowAssumption PROVE FlowSpec => []IInv
  <1>1. FlowInit => IInv
    <2> SUFFICES ASSUME FlowInit PROVE IInv
      OBVIOUS
    <2>1. FreshStack /\ NoFlags /\ msg \in Messages /\ val \in Thrown
      BY DEF FlowInit, FreshStack, NoFlags, Thrown, Messages
    <2> QED
      BY <2>1, FreshInv
  <1>2. IInv /\ [FlowNext]_flowVars => IInv'
    <2> SUFFICES ASSUME IInv, [FlowNext]_flowVars PROVE IInv'
      OBVIOUS
    <2>1. CASE UNCHANGED flowVars
      BY <2>1 DEF flowVars, throwing, returning, looping, IInv, TypeOK, FramesInv,
                  ReturnInv, ThrowInv, JumpInv
    <2>2. ASSUME NEW v \in Values \cup {Error}, Throw(v) PROVE IInv'
      BY <2>2, ThrowStep
    <2>3. CASE Return \/ Break \/ Continue
      BY <2>3, ReturnStep, JumpStep
    <2>4. CASE If \/ LoopStatement \/ EnterTry \/ Call \/ OperandCall \/ ReturnCall
      BY <2>4, EnterStep
    <2>5. CASE EndBlock \/ LoopBreak \/ LoopLeft \/ LoopTest
      BY <2>5, EndStep, LoopLeaves, LoopTests
    <2>6. CASE Catch \/ Finally \/ EndFinally \/ EndTry
      BY <2>6, CatchStep, FinallyStep, EndFinallyStep, EndStep
    <2>7. CASE MethodThrew \/ TypeError \/ MethodReturns \/ LambdaReturns
               \/ OperandReturned \/ ReturnCalled
      BY <2>7, CallReturns, OperandStep, ReturnCalledStep
    <2>8. CASE Fatal \/ NextRequest
      BY <2>8, RequestSteps
    <2> QED
      BY <2>1, <2>2, <2>3, <2>4, <2>5, <2>6, <2>7, <2>8 DEF FlowNext
  <1> QED
    BY <1>1, <1>2, PTL DEF FlowSpec

(* A return under way belongs to the innermost call: interpret_return_node  *)
(* raises the flag, and te_cm_invoke and call_lambda_exec_body take it down *)
(* before the caller goes on.                                               *)
THEOREM ReturnEndsOneCall ==
    ASSUME FlowAssumption PROVE FlowSpec => []ReturnsToItsCaller
  <1>1. IInv => ReturnsToItsCaller
    <2> SUFFICES ASSUME IInv, ret, stack # <<>> PROVE retHome = CallOf(stack)
      BY DEF ReturnsToItsCaller
    <2>1. Calling(retHome, stack, Len(stack)) /\ retHome \in Nat /\ stack \in Seq(Frame)
      BY DEF IInv, ReturnInv, TypeOK
    <2> QED
      BY <2>1, CallIs
  <1> QED
    BY <1>1, FlowInvariant, PTL

(* The try that is about to catch is the innermost whose body was running   *)
(* when the exception was raised, and what te_stmt_try_catch binds is that  *)
(* exception's value or its text, never another's: neither a finally that   *)
(* throws and catches in between, which overwrites throw_value and          *)
(* throw_message, nor an exception that te_stmt_throw and te_num_zero_div   *)
(* replaced in flight is seen.  That nothing is replaced, and that the      *)
(* value is not taken away, is not so: CatchesTheFirst, CatchesTheValue.    *)
THEOREM CatchReceivesTheThrown ==
    ASSUME FlowAssumption PROVE FlowSpec => []CatchesTheThrown
  <1>1. IInv => CatchesTheThrown
    <2> SUFFICES ASSUME IInv, AboutToCatch
                 PROVE  /\ exc.home = Len(stack)
                        /\ Bound \in {TextOf(exc.v)} \cup ({exc.v} \cap Containers)
      BY DEF CatchesTheThrown
    <2> DEFINE n == Len(stack)
    <2>1. stack # <<>> /\ TopFrame.k = "try" /\ thr
      BY DEF AboutToCatch, At
    <2>2. /\ n \in Nat \ {0} /\ TopFrame = stack[n]
          /\ TopFrame \in Tries /\ thr \in BOOLEAN
      BY <2>1, TopShape, TopFields DEF TypeOK
    <2>3. Catcher(stack[n])
      BY <2>1, <2>2 DEF AboutToCatch, Catcher, Tries
    <2>4. Throws(stack, n, thr, msg, val, exc)
      BY DEF IInv, ThrowInv
    <2> HIDE DEF n
    <2>5. Handles(exc.home, stack, n) /\ msg = TextOf(exc.v) /\ (val \in Containers => val = exc.v)
      BY <2>1, <2>2, <2>4 DEF Throws
    <2>6. exc.home = n
      BY <2>2, <2>3, <2>5 DEF Handles
    <2>7. Bound \in {TextOf(exc.v)} \cup ({exc.v} \cap Containers)
      BY <2>5 DEF Bound
    <2> QED
      BY <2>6, <2>7 DEF n
  <1> QED
    BY <1>1, FlowInvariant, PTL

(* From a break or a continue in a loop of its call until it is spent, that *)
(* loop runs and every loop above it is inside a catch or a finally: but    *)
(* for those, which do spend the jump of a loop outside, only its own loop  *)
(* spends it.  Of a jump without a loop in its call nothing is claimed.     *)
THEOREM JumpsKeepTheirLoop ==
    ASSUME FlowAssumption PROVE FlowSpec => []JumpsStayInLoop
  <1>1. IInv => JumpsStayInLoop
    <2> SUFFICES ASSUME IInv, brk \/ cont, stack # <<>>, breakHome # 0
                 PROVE  \/ breakHome = LoopOf(stack)
                        \/ breakHome < LoopOf(stack) /\ Interrupted(breakHome)
      BY DEF JumpsStayInLoop
    <2> DEFINE n == Len(stack)
               l == LoopOf(stack)
               h == breakHome
    <2>1. stack \in Seq(Frame) /\ n \in Nat \ {0} /\ brk \in BOOLEAN /\ cont \in BOOLEAN
      BY TopShape DEF IInv, TypeOK
    <2>2. l \in Nat /\ Looping(l, stack, n)
      BY <2>1, LoopIs
    <2>3. Jumps(stack, n, brk, cont, breakHome)
      BY DEF IInv, JumpInv
    <2> HIDE DEF n, l
    <2>4. /\ h \in 1 .. n /\ stack[h].k = "loop"
          /\ \A i \in h + 1 .. n : stack[i].k = "loop" => Apart(h, stack, i - 1)
      BY <2>1, <2>3 DEF Jumps
    <2>5. h <= l /\ l \in 1 .. n /\ stack[l].k = "loop"
      BY <2>1, <2>2, <2>4 DEF Looping
    <2>6. ASSUME h # l PROVE h < l /\ Interrupted(h)
      <3>1. Apart(h, stack, l - 1)
        BY <2>4, <2>5, <2>6
      <3>2. PICK j \in h + 1 .. l - 1 : stack[j].k = "try" /\ stack[j].at \in {"catch", "finally"}
        BY <3>1 DEF Apart
      <3>3. j \in h + 1 .. n
        BY <2>1, <2>4, <2>5, <3>2
      <3>4. Interrupted(h)
        BY <3>2, <3>3 DEF Interrupted, n
      <3> QED
        BY <2>4, <2>5, <2>6, <3>4
    <2> QED
      BY <2>6 DEF l
  <1> QED
    BY <1>1, FlowInvariant, PTL
=============================================================================
