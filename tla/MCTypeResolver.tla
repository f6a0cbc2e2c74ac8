--------------------------- MODULE MCTypeResolver ---------------------------
(* An instance of TypeResolver for TLC: three names a program may choose,  *)
(* one scalar, handle, and the two containers.                             *)
EXTENDS TypeResolver

MCBuiltin == {"u8", "handle", "vec", "optional"}
MCContainer == {"vec", "optional"}
MCName == MCBuiltin \cup {"A", "B", "C"}

Plain(v) == <<[value |-> v, generics |-> 0, depth |-> 0]>>
Deeper(t) == [i \in DOMAIN t |-> [t[i] EXCEPT !.depth = @ + 1]]
Of(v, t) == <<[value |-> v, generics |-> 1, depth |-> 0]>> \o Deeper(t)

(* Among them a container without its argument and a scalar with one.      *)
MCType ==
    {Plain(v) : v \in {"u8", "handle", "A", "B", "vec"}}
    \cup {Of("vec", Plain(v)) : v \in {"u8", "handle", "A", "B"}}
    \cup {Of("optional", Of("vec", Plain(v))) : v \in {"handle", "A"}}
    \cup {Of("u8", Plain("u8"))}

Var(name, t) == [name |-> name, type |-> t]

Fields ==
    {<<>>, <<Var("x", Plain("u8")), Var("x", Plain("u8"))>>}
    \cup {<<Var("x", t)>> : t \in MCType}
    \cup {<<Var("x", t), Var("y", Plain("u8"))>> : t \in MCType}

MCStruct ==
    {[name |-> n, fields |-> fs] : n \in {"A", "B", "C"}, fs \in Fields}
    \cup {[name |-> "vec", fields |-> <<>>]}

Signature(args, rets) ==
    [name |-> "f", arguments |-> args, return_values |-> rets, oneway |-> rets = <<>>]

Methods ==
    {<<Signature(<<Var("x", Plain("u8"))>>, <<Var("x", Plain("u8"))>>)>>,
     <<Signature(<<Var("x", Plain("u8"))>>, <<Var("y", Plain("handle"))>>),
       Signature(<<>>, <<>>)>>,
     <<Signature(<<Var("x", Of("vec", Plain("B")))>>, <<Var("y", Plain("A"))>>)>>}
    \cup {<<Signature(<<Var("x", t)>>, <<>>)>> : t \in {Plain("u8"), Plain("B")}}

MCInterface == {[name |-> n, methods |-> ms] : n \in {"A", "C"}, ms \in Methods}

=============================================================================
