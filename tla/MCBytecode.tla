----------------------------- MODULE MCBytecode -----------------------------
EXTENDS Bytecode

Num(n) == [k |-> "num", n |-> n]
Id(x) == [k |-> "id", x |-> x]
Op(op, l, r) == [k |-> "op", op |-> op, l |-> l, r |-> r]
CallNode(o, a) == [k |-> "call", o |-> o, arg |-> a]

Sum    == Op("add", Id("x"), Id("n"))
LoopNode   == [k |-> "while", c |-> Op("lt", Id("x"), Num(6)),
           b |-> [k |-> "asg", x |-> "x", e |-> Op("add", Id("x"), Num(1))]]
Method1 == Op("add", CallNode("o", Id("x")), Id("x"))
Method2 == Op("add", CallNode("o", Num(3)), Id("n"))

MCNames == {"x", "n", "o"}
MCGlobals == <<Cell("o", "obj", 2), Cell("x", "num", 1)>>
MCCells == {Cell("x", "num", 5), Cell("x", "str", 0), Cell("n", "num", 1)}
MCMethod == [param |-> "n", body |-> Op("add", [k |-> "this"], Id("n"))]
MCAst == [sum |-> Sum, loop |-> LoopNode, method |-> Method1]
MCAstInline == [first |-> Method1, second |-> Method2]
=============================================================================
