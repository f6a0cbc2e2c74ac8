---------------------------- MODULE TypeResolver ----------------------------
(***************************************************************************)
(* sidl's TypeResolver (sidl/sidl/type_resolver.py): one visit of the      *)
(* syntax tree of an idl, which ends at the first declaration it refuses.  *)
(* Namespaces only nest declarations: their names are not looked at, so    *)
(* an idl is the sequence of its structs and interfaces.                   *)
(*                                                                         *)
(* A type is the sequence of its nodes as visit_Type meets them, outermost *)
(* first: each node's name, its number of type arguments and its depth,    *)
(* which visit_Type counts in _type_depth.                                 *)
(***************************************************************************)
EXTENDS Naturals, Sequences

CONSTANTS Name,        \* names of types and interfaces
          Builtin,     \* the keys of CppTypeResolver's types
          Container,   \* container_types: those with one type argument
          Handle,      \* the type "handle"
          Struct,      \* the structs idls may declare
          Interface,   \* the interfaces idls may declare
          MaxDeclarations

Node == [value : Name, generics : Nat, depth : Nat]
Type == {t \in Seq(Node) : t # <<>> /\ \A i \in DOMAIN t : t[i].depth = 0 <=> i = 1}
Variable == [name : STRING, type : Type]
(* oneway: the idl has no return values at all, not even none: "()".       *)
Method == [name : STRING, arguments : Seq(Variable), return_values : Seq(Variable),
           oneway : BOOLEAN]

ASSUME NameAssumption == Builtin \subseteq Name /\ Container \subseteq Builtin /\ Handle \in Builtin
ASSUME StructAssumption == \A s \in Struct : s.name \in Name /\ s.fields \in Seq(Variable)
ASSUME InterfaceAssumption ==
    \A f \in Interface : f.name \in Name /\ f.methods \in Seq(Method)
ASSUME MaxDeclarationsAssumption == MaxDeclarations \in Nat

VARIABLES
    defined,      \* _defined_types
    interfaces,   \* _defined_interfaces
    tainted,      \* _handle_tainted: the structs that hold handles
    raised,       \* whether a declaration was refused
    structs,      \* the structs accepted, in order (history)
    services      \* the interfaces accepted, in order (history)

vars == <<defined, interfaces, tainted, raised, structs, services>>

Init ==
    /\ defined = Builtin
    /\ interfaces = {}
    /\ tainted = {}
    /\ raised = FALSE
    /\ structs = <<>>
    /\ services = <<>>

-----------------------------------------------------------------------------

(* visit_Type, at one node.                                                *)
NodeOkUnknown(n) ==   \* mutants: any name will do,
    /\ n.generics > 0 => n.value \in Container
    /\ n.depth > 0 => n.value # Handle /\ n.value \notin tainted
    /\ n.value \in Container => n.generics = 1

NodeOkContained(n) ==   \* handles may be contained,
    /\ n.value \in defined
    /\ n.generics > 0 => n.value \in Container
    /\ n.depth > 0 => n.value \notin tainted
    /\ n.value \in Container => n.generics = 1

NodeOkTainted(n) ==   \* structs with handles may be contained
    /\ n.value \in defined
    /\ n.generics > 0 => n.value \in Container
    /\ n.depth > 0 => n.value # Handle
    /\ n.value \in Container => n.generics = 1

NodeOk(n) ==
    /\ n.value \in defined
    /\ n.generics > 0 => n.value \in Container
    /\ n.depth > 0 => n.value # Handle /\ n.value \notin tainted
    /\ n.value \in Container => n.generics = 1

TypeAccepted(t) == \A i \in DOMAIN t : NodeOk(t[i])

Distinct(variables) ==
    \A i, j \in DOMAIN variables : variables[i].name = variables[j].name => i = j

StructAccepted(s) ==
    /\ s.name \notin defined
    /\ Distinct(s.fields)
    /\ \A i \in DOMAIN s.fields : TypeAccepted(s.fields[i].type)

(* What visit_Struct adds to _handle_tainted.                              *)
TaintDirect(s) ==   \* mutants: only a field of type handle counts,
    {s.name : i \in {j \in DOMAIN s.fields : s.fields[j].type[1].value = Handle}}
TaintField(s) ==    \* the field's type is added, not the struct's
    {s.fields[i].type[1].value :
        i \in {j \in DOMAIN s.fields : s.fields[j].type[1].value \in tainted \cup {Handle}}}

Taint(s) ==
    {s.name : i \in {j \in DOMAIN s.fields : s.fields[j].type[1].value \in tainted \cup {Handle}}}

VisitStruct(s) ==
    /\ StructAccepted(s)
    /\ defined' = defined \cup {s.name}
    /\ tainted' = tainted \cup Taint(s)
    /\ structs' = Append(structs, s)
    /\ UNCHANGED <<interfaces, raised, services>>

(* visit_Method looks at the names of a method's parameters.  It does not  *)
(* visit their types, nor record the method's name.                        *)
MethodAccepted(m) == Distinct(m.arguments \o m.return_values)

InterfaceAccepted(f) ==
    /\ f.name \notin defined \cup interfaces
    /\ \A i \in DOMAIN f.methods : MethodAccepted(f.methods[i])

VisitInterface(f) ==
    /\ InterfaceAccepted(f)
    /\ interfaces' = interfaces \cup {f.name}
    /\ services' = Append(services, f)
    /\ UNCHANGED <<defined, tainted, raised, structs>>

(* A SidlException ends the visit; nothing reads the sets after it.        *)
Raise(accepted) ==
    /\ ~accepted
    /\ raised' = TRUE
    /\ UNCHANGED <<defined, interfaces, tainted, structs, services>>

Next ==
    /\ ~raised
    /\ Len(structs) + Len(services) < MaxDeclarations
    /\ \/ \E s \in Struct : VisitStruct(s) \/ Raise(StructAccepted(s))
       \/ \E f \in Interface : VisitInterface(f) \/ Raise(InterfaceAccepted(f))

Spec == Init /\ [][Next]_vars

-----------------------------------------------------------------------------

TypeOK ==
    /\ defined \subseteq Name
    /\ interfaces \subseteq Name
    /\ tainted \subseteq defined \ Builtin
    /\ raised \in BOOLEAN
    /\ structs \in Seq(Struct)
    /\ services \in Seq(Interface)

(* The nodes of all the fields' types, or of some variables'.              *)
Nodes(variables) ==
    UNION {{variables[i].type[j] : j \in DOMAIN variables[i].type} : i \in DOMAIN variables}

Values(nodes) == {n.value : n \in nodes}

(* A struct is made of builtin types and of structs declared before it, so *)
(* that the C++ structs, printed in the same order, compile and none holds *)
(* itself.                                                                 *)
DefinedBeforeUse ==
    \A i \in DOMAIN structs : \A v \in Values(Nodes(structs[i].fields)) :
        v \in Builtin \/ \E j \in 1..i - 1 : structs[j].name = v

(* The names whose values hold a handle, at whatever depth: the least set  *)
(* with handle in it, and each struct that names one of its members.       *)
Closed(S) ==
    /\ Handle \in S
    /\ \A i \in DOMAIN structs :
         Values(Nodes(structs[i].fields)) \cap S # {} => structs[i].name \in S

HoldsHandle(v) == \A S \in SUBSET Name : Closed(S) => v \in S

(* _handle_tainted, filled from the outermost type of each field alone, is *)
(* all the structs that hold handles (lines 26-28) and no others.          *)
TaintIsExact == \A v \in Name : HoldsHandle(v) <=> v \in tainted \cup {Handle}

(* "These structures cannot be put inside containers" (lines 26-27):       *)
(* nothing inside a container's type holds a handle, however deep the      *)
(* structs nest.                                                           *)
NoHandleContained ==
    \A i \in DOMAIN structs : \A n \in Nodes(structs[i].fields) :
        n.depth > 0 => ~HoldsHandle(n.value)

(* type_resolver.py:8: "Type checks an idl (verifies that types exist)".   *)
TypesExist ==
    \A i \in DOMAIN services : \A j \in DOMAIN services[i].methods :
        LET m == services[i].methods[j] IN
        Values(Nodes(m.arguments \o m.return_values)) \subseteq defined

=============================================================================
