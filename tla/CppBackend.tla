------------------------------ MODULE CppBackend ------------------------------
(***************************************************************************)
(* sidl's C++ back end (sidl/sidl/backend/cpp.py) after its type resolver: *)
(* the code that SourceCompiler and HeaderCompiler write for an accepted   *)
(* idl, reduced to what passes values between a proxy and a receiver: the  *)
(* opcodes, the statements that write and read values, and the order of    *)
(* the declarations in the header.  The text around them is left out, the  *)
(* missing parenthesis of line 139 too, for which the proxy of a method    *)
(* that returns a handle does not compile.                                 *)
(***************************************************************************)
EXTENDS TypeResolver

VARIABLE root   \* the declarations accepted, structs and interfaces, in order

cppVars == <<vars, root>>

CppInit == Init /\ root = <<>>

Declares(kind, decl) == root' = Append(root, [kind |-> kind, decl |-> decl])

CppNext ==
    /\ ~raised
    /\ Len(root) < MaxDeclarations
    /\ \/ \E s \in Struct : VisitStruct(s) /\ Declares("struct", s)
       \/ \E f \in Interface : VisitInterface(f) /\ Declares("interface", f)
       \/ /\ \/ \E s \in Struct : Raise(StructAccepted(s))
             \/ \E f \in Interface : Raise(InterfaceAccepted(f))
          /\ UNCHANGED root

CppSpec == CppInit /\ [][CppNext]_cppVars

-----------------------------------------------------------------------------
(* The generated statements.  Only a variable whose type is handle itself  *)
(* is written with add_handle; all others go through serialize, which the  *)
(* compiler resolves by their type.                                        *)

Statement(variable, onHandle, onOther) ==
    [call |-> IF variable.type[1].value = Handle THEN onHandle ELSE onOther,
     name |-> variable.name, type |-> variable.type]

Writes(variables) ==
    [i \in DOMAIN variables |-> Statement(variables[i], "add_handle", "serialize")]

Reads(variables) ==
    [i \in DOMAIN variables |-> Statement(variables[i], "next_handle", "unserialize")]

(* The specialization of rpc::serializable or unserializable for a struct. *)
Specialization(kind, s) ==
    [kind |-> kind, decl |-> s,
     body |-> IF kind = "serializable" THEN Writes(s.fields) ELSE Reads(s.fields)]

-----------------------------------------------------------------------------
(* SourceCompiler: a proxy's methods, then the cases of the receiver's     *)
(* switch.  _current_opcode counts the methods from zero, twice.           *)

ProxyMethod(m, opcode) ==
    [opcode |-> opcode, method |-> m.name, sends |-> Writes(m.arguments),
     waits |-> ~m.oneway, receives |-> Reads(m.return_values)]

ReceiverCase(m, opcode) ==
    [opcode |-> opcode, calls |-> m.name, receives |-> Reads(m.arguments),
     replies |-> ~m.oneway, sends |-> Writes(m.return_values)]

Proxy(f) == [i \in DOMAIN f.methods |-> ProxyMethod(f.methods[i], i - 1)]

ReceiverGoesOn(f) ==   \* mutant: the opcode goes on from the proxy's
    [i \in DOMAIN f.methods |-> ReceiverCase(f.methods[i], i - 1 + Len(f.methods))]

Receiver(f) == [i \in DOMAIN f.methods |-> ReceiverCase(f.methods[i], i - 1)]

-----------------------------------------------------------------------------
(* HeaderCompiler: the declarations in order, then the specializations for *)
(* the pending structs, two for each.                                      *)

SpecializationAt(i, s) ==
    Specialization(IF i % 2 = 1 THEN "unserializable" ELSE "serializable", s)

PendingReversed ==   \* mutant: the last struct first
    [i \in 1..2 * Len(structs) |->
        SpecializationAt(i, structs[Len(structs) + 1 - (i + 1) \div 2])]

Pending == [i \in 1..2 * Len(structs) |-> SpecializationAt(i, structs[(i + 1) \div 2])]

Header == root \o Pending

-----------------------------------------------------------------------------
(* What the compiled code does: the items that a list of statements passes *)
(* through the message.  The path of an item is where it comes in the      *)
(* payload, or among the handles, and which variable it belongs to: the    *)
(* statement's number and variable and the node of its type, then the same *)
(* within the struct that node names.                                      *)

SpecializationOf(v, kind) ==
    (CHOOSE p \in {Header[i] : i \in DOMAIN Header} : p.kind = kind /\ p.decl.name = v).body

Traits == {"serializable", "unserializable"}
Library == [serialize |-> "serializable", unserialize |-> "unserializable"]

Item(at, v, by) == [path |-> <<at>>, type |-> v, by |-> by]
Within(at, item) == [path |-> <<at>> \o item.path, type |-> item.type, by |-> item.by]

(* The nodes of a type that are met: a container's size or flag is passed, *)
(* and then (here, one of) its elements.                                   *)
Met(type) == {n \in DOMAIN type : \A j \in 1..n - 1 : type[j].value \in Container}

(* serialize and unserialize on a value of type v: of one of the first k   *)
(* structs, what its specialization passes.                                *)
PassedValue(call, v, at, k, passed) ==
    IF \E j \in 1..k : structs[j].name = v
    THEN UNION {{Within(at, item) : item \in passed[<<Library[call], j>>]} :
                    j \in {i \in 1..k : structs[i].name = v}}
    ELSE {Item(at, v, "payload")}

PassedStatement(s, i, k, passed) ==
    IF s.call \in DOMAIN Library
    THEN UNION {PassedValue(s.call, s.type[n].value, <<i, s.name, n>>, k, passed) :
                    n \in Met(s.type)}
    ELSE {Item(<<i, s.name, 1>>, s.type[1].value, "handles")}

Passed(statements, k, passed) ==
    UNION {PassedStatement(statements[i], i, k, passed) : i \in DOMAIN statements}

(* What each specialization passes.                                        *)
PassedInStructs ==
    LET passed[d \in Traits \X DOMAIN structs] ==
            Passed(SpecializationOf(structs[d[2]].name, d[1]), d[2] - 1, passed)
    IN  passed

PassedBy(statements) == Passed(statements, Len(structs), PassedInStructs)

-----------------------------------------------------------------------------

(* A receiver takes a proxy's message for a call of the method the program *)
(* called, reads from it the arguments that were written, each into its    *)
(* own, and answers exactly when the proxy waits, with what the proxy      *)
(* reads: through every struct and container in between.                   *)
CallsAgree ==
    \A i \in DOMAIN services :
        LET proxy == Proxy(services[i])
            receiver == Receiver(services[i])
        IN  \A j \in DOMAIN proxy : \E k \in DOMAIN receiver :
                /\ {c \in DOMAIN receiver : receiver[c].opcode = proxy[j].opcode} = {k}
                /\ receiver[k].calls = proxy[j].method
                /\ PassedBy(receiver[k].receives) = PassedBy(proxy[j].sends)
                /\ receiver[k].replies <=> proxy[j].waits
                /\ PassedBy(receiver[k].sends) = PassedBy(proxy[j].receives)

(* The structs and specializations that a declaration of the header needs. *)
Needs(d) ==
    LET structsOf == Values(Nodes(d.decl.fields)) \ Builtin IN
    IF d.kind = "struct" THEN {"struct"} \X structsOf
    ELSE {<<"struct", d.decl.name>>} \cup {d.kind} \X structsOf

(* The header compiles: a struct is defined before it is a field's type,   *)
(* and specialized before another specialization makes the compiler use    *)
(* rpc::serializable for it, although each specialization is written long  *)
(* after its struct.                                                       *)
HeaderInOrder ==
    \A i \in DOMAIN Header : Header[i].kind # "interface" =>
        \A need \in Needs(Header[i]) :
            \E j \in 1..i - 1 : <<Header[j].kind, Header[j].decl.name>> = need

(* A handle inside a struct goes through the message's handles, where the  *)
(* kernel translates it, and never as the bytes of a number: the back end  *)
(* looks at the outermost type alone, and relies on the resolver for the   *)
(* rest.                                                                   *)
HandlesAreTranslated ==
    \A i \in DOMAIN structs :
        \A item \in PassedBy(SpecializationOf(structs[i].name, "serializable")) :
            item.type = Handle => item.by = "handles"

=============================================================================
