------------------------------- MODULE MCRpc -------------------------------
(* Instances of RpcSystem for TLC: three clients, or four.                 *)
EXTENDS RpcSystem, TLC

CONSTANTS a, b, c, d

MCPortOf == Restrict((a :> 1) @@ (b :> 2) @@ (c :> 0) @@ (d :> 3), Client)

OneEach == [x \in Client |-> 1]
TwoEach == [x \in Client |-> 2]
TwoFromC == [x \in Client |-> IF x = c THEN 2 ELSE 1]
NotFromA == [x \in Client |-> IF x = a THEN 0 ELSE 1]
OneFromB == [x \in Client |-> IF x = b THEN 1 ELSE 2]
NotFromC == [x \in Client |-> IF x = c THEN 0 ELSE 1]
OnlyFromD == [x \in Client |-> IF x = d THEN 1 ELSE 0]

Edge(from, to, ops) == {[from |-> from, to |-> to, opcode |-> op] : op \in ops}

(* a and b call each other, and c calls a.                                 *)
AnyEdge == Edge(a, b, RequestOp) \cup Edge(b, a, RequestOp) \cup Edge(c, a, Opcode)

(* Requests whose reply always parses may have it refused; the others, and *)
(* oneway calls, may be refused themselves.                                *)
SomeRefused == ((RequestOp \ UnreadableOp) \X {"reply"}) \cup (UnreadableOp \X {"request"})
                   \cup (OnewayOp \X {"oneway"})

(* One of b's receivers has a fixed id.                                    *)
FixedAt1 == {<<b, 1>>}
None == {}

(* a calls b and b calls c, some of the calls unknown to the receiver.      *)
LineEdge == Edge(a, b, RequestOp \cup UnknownOp) \cup Edge(b, c, RequestOp \cup OnewayOp)

(* Requests go from a to b and from b to c; c sends oneway calls back to b. *)
ChainEdge == Edge(a, b, RequestOp) \cup Edge(b, c, RequestOp)
                 \cup Edge(c, b, OnewayOp)

(* Everybody calls d: a and b wait for answers, c does not.                *)
StarEdge == Edge(a, d, RequestOp) \cup Edge(b, d, RequestOp) \cup Edge(c, d, OnewayOp)
=============================================================================
