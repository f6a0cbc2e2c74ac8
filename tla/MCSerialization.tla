--------------------------- MODULE MCSerialization ---------------------------
(* An instance of Serialization for TLC: size_t is two bytes of four       *)
(* values, the least significant first, and holds the sizes up to 15.      *)
EXTENDS Serialization

MCWord == [n \in 0..15 |-> <<n % 4, n \div 4>>]

T(kind, of) == [kind |-> kind, of |-> of]
U8 == T("u8", <<>>)
Usize == T("usize", <<>>)
Str == T("string", <<>>)
Handles == T("handle", <<>>)
Vec(t) == T("vec", <<t>>)
Opt(t) == T("optional", <<t>>)
Fields == T("struct", <<U8, Handles, Usize>>)

MCType == {U8, Usize, Str, Handles, Vec(U8), Vec(Str), Opt(Str), Fields}

V(type, values) == {[type |-> type, value |-> v] : v \in values}

(* Strings with and without a 0 inside, the greatest size, empty and       *)
(* nested containers, and a struct with a handle between two fields.       *)
MCValue ==
    V(U8, {1, 2, 3}) \cup V(Usize, {1, 4, 15}) \cup V(Handles, {"h1", "h2"})
    \cup V(Str, {<<>>, <<1>>, <<2>>, <<1, 2, 3>>, <<1, 0, 2>>})
    \cup V(Vec(U8), {<<2, 1>>}) \cup V(Vec(Str), {<<<<>>, <<1>>>>})
    \cup V(Opt(Str), {<<>>, <<<<2>>>>}) \cup V(Fields, {<<2, "h1", 4>>})
=============================================================================
