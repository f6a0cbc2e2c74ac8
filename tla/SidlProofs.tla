----------------------------- MODULE SidlProofs -----------------------------
(***************************************************************************)
(* Theorems about sidl's TypeResolver and its C++ back end, for any names, *)
(* builtin types, declarations and number of them.                         *)
(***************************************************************************)
EXTENDS CppBackend, CommonLemmas

(* What visit_Type has seen to in a field's type: its nodes are nodes of   *)
(* the struct's, and the outermost is the only one at depth 0.             *)
LEMMA FieldNodes ==
    ASSUME NEW s \in Struct
    PROVE  /\ \A n \in Nodes(s.fields) :
                \E i \in DOMAIN s.fields : \E j \in DOMAIN s.fields[i].type :
                    n = s.fields[i].type[j] /\ (n.depth = 0 <=> j = 1)
           /\ \A i \in DOMAIN s.fields : s.fields[i].type[1] \in Nodes(s.fields)
           /\ \A n \in Nodes(s.fields) : n.value \in Name /\ n.depth \in Nat
  <1>1. s.fields \in Seq(Variable)
    BY StructAssumption
  <1>2. \A i \in DOMAIN s.fields : s.fields[i].type \in Type
    <2>1. \A i \in DOMAIN s.fields : s.fields[i] \in Variable
      BY <1>1
    <2> QED
      BY <2>1 DEF Variable
  <1>3. \A t \in Type : /\ t \in Seq(Node) /\ 1 \in DOMAIN t
                        /\ \A j \in DOMAIN t : t[j] \in Node /\ (t[j].depth = 0 <=> j = 1)
    BY DEF Type
  <1> QED
    BY <1>2, <1>3 DEF Nodes, Node

(* Accepted structs are read back from the sequence they were added to.    *)
LEMMA AppendStruct ==
    ASSUME structs \in Seq(Struct), NEW s \in Struct
    PROVE  /\ Append(structs, s) \in Seq(Struct)
           /\ DOMAIN Append(structs, s) = DOMAIN structs \cup {Len(structs) + 1}
           /\ \A i \in DOMAIN structs : Append(structs, s)[i] = structs[i]
           /\ Append(structs, s)[Len(structs) + 1] = s
           /\ DOMAIN structs = 1..Len(structs)
           /\ Len(structs) \in Nat
  OBVIOUS

-----------------------------------------------------------------------------
(* The invariant.  NoHandleContained and TaintIsExact are not inductive:   *)
(* neither says that the names a struct uses were all defined before it,   *)
(* without which a struct accepted later could come to hold handles inside *)
(* one accepted earlier.                                                   *)

DefinedNames == defined = Builtin \cup {structs[i].name : i \in DOMAIN structs}

(* A node that names a handle, or a struct that holds one, is the          *)
(* outermost of its field's type, and its struct is known to hold one.     *)
TaintClosed ==
    \A i \in DOMAIN structs : \A n \in Nodes(structs[i].fields) :
        n.value \in tainted \cup {Handle} => n.depth = 0 /\ structs[i].name \in tainted

TaintSound == \A v \in tainted : HoldsHandle(v)

ResolverInv == TypeOK /\ DefinedNames /\ DefinedBeforeUse /\ TaintClosed /\ TaintSound

USE NameAssumption

LEMMA InitInv == Init => ResolverInv
  <1> SUFFICES ASSUME Init
               PROVE  ResolverInv
    OBVIOUS
  <1>1. structs \in Seq(Struct) /\ DOMAIN structs = {} /\ services \in Seq(Interface)
    BY DEF Init
  <1>2. TypeOK
    BY <1>1 DEF Init, TypeOK
  <1>3. DefinedNames
    BY <1>1 DEF Init, DefinedNames
  <1>4. DefinedBeforeUse /\ TaintClosed /\ TaintSound
    BY <1>1 DEF Init, DefinedBeforeUse, TaintClosed, TaintSound
  <1> QED
    BY <1>2, <1>3, <1>4 DEF ResolverInv

(* One more struct.                                                        *)
LEMMA VisitStructInv ==
    ASSUME ResolverInv, NEW s \in Struct, VisitStruct(s)
    PROVE  ResolverInv'
  <1> DEFINE k == Len(structs) + 1
  <1>1. /\ TypeOK /\ DefinedNames /\ DefinedBeforeUse /\ TaintClosed /\ TaintSound
        /\ structs \in Seq(Struct)
    BY DEF ResolverInv, TypeOK
  <1>2. /\ s.name \notin defined
        /\ \A n \in Nodes(s.fields) : NodeOk(n)
        /\ defined' = defined \cup {s.name}
        /\ tainted' = tainted \cup Taint(s)
        /\ structs' = Append(structs, s)
        /\ UNCHANGED <<interfaces, raised, services>>
    BY DEF VisitStruct, StructAccepted, TypeAccepted, Nodes
  <1>3. /\ structs' \in Seq(Struct)
        /\ DOMAIN structs' = DOMAIN structs \cup {k}
        /\ DOMAIN structs = 1..k - 1 /\ k \in Nat /\ k \notin DOMAIN structs
        /\ \A i \in DOMAIN structs : structs'[i] = structs[i]
        /\ structs'[k] = s
    BY <1>1, <1>2, AppendStruct
  <1>4. s.name \in Name
    BY StructAssumption
  <1>5. Taint(s) \subseteq {s.name}
    BY DEF Taint
  <1>6. TypeOK'
    BY <1>1, <1>2, <1>3, <1>4, <1>5 DEF TypeOK, DefinedNames
  <1>7. DefinedNames'
    BY <1>1, <1>2, <1>3 DEF DefinedNames
  <1>8. DefinedBeforeUse'
    <2>1. ASSUME NEW i \in DOMAIN structs, NEW v \in Values(Nodes(structs'[i].fields))
          PROVE  v \in Builtin \/ \E j \in 1..i - 1 : structs'[j].name = v
      <3>1. v \in Builtin \/ \E j \in 1..i - 1 : structs[j].name = v
        BY <1>1, <1>3, <2>1 DEF DefinedBeforeUse
      <3>2. 1..i - 1 \subseteq DOMAIN structs
        BY <1>3
      <3> QED
        BY <1>3, <3>1, <3>2
    <2>2. ASSUME NEW v \in Values(Nodes(s.fields))
          PROVE  v \in Builtin \/ \E j \in 1..k - 1 : structs'[j].name = v
      BY <1>1, <1>2, <1>3 DEF Values, NodeOk, DefinedNames
    <2> QED
      BY <1>3, <2>1, <2>2 DEF DefinedBeforeUse
  <1>9. s.name # Handle /\ \A i \in DOMAIN structs : \A n \in Nodes(structs[i].fields) :
            n.value # s.name
    BY <1>1, <1>2, <1>3 DEF DefinedBeforeUse, DefinedNames, Values
  <1>10. \A n \in Nodes(s.fields) : n.value # s.name
    BY <1>2 DEF NodeOk
  <1>11. TaintClosed'
    <2>1. ASSUME NEW n \in Nodes(s.fields), n.value \in tainted \cup {Handle}
          PROVE  n.depth = 0 /\ s.name \in tainted'
      <3>1. n.depth = 0
        BY <1>2, <2>1, FieldNodes DEF NodeOk
      <3>2. PICK i \in DOMAIN s.fields : n = s.fields[i].type[1]
        BY <3>1, FieldNodes
      <3>3. s.name \in Taint(s)
        BY <2>1, <3>2 DEF Taint
      <3> QED
        BY <1>2, <3>1, <3>3
    <2>2. ASSUME NEW i \in DOMAIN structs, NEW n \in Nodes(structs[i].fields),
                 n.value \in tainted' \cup {Handle}
          PROVE  n.depth = 0 /\ structs[i].name \in tainted'
      <3>1. n.value \in tainted \cup {Handle}
        BY <1>2, <1>5, <1>9, <2>2
      <3> QED
        BY <1>1, <1>2, <3>1 DEF TaintClosed
    <2>3. \A n \in Nodes(s.fields) :
            n.value \in tainted' \cup {Handle} => n.value \in tainted \cup {Handle}
      BY <1>2, <1>5, <1>10
    <2> QED
      BY <1>3, <2>1, <2>2, <2>3 DEF TaintClosed
  <1>12. TaintSound'
    <2>1. ASSUME NEW S \in SUBSET Name, Closed(S)'
          PROVE  Closed(S) /\ tainted' \subseteq S
      <3>1. Closed(S)
        BY <1>3, <2>1 DEF Closed
      <3>2. tainted \subseteq S /\ Handle \in S
        BY <1>1, <2>1, <3>1 DEF TaintSound, HoldsHandle, Closed
      <3>3. ASSUME NEW v \in Taint(s)
            PROVE  v \in S
        <4>1. PICK i \in DOMAIN s.fields : s.fields[i].type[1].value \in S
          BY <3>2, <3>3 DEF Taint
        <4>2. s.fields[i].type[1] \in Nodes(s.fields)
          BY FieldNodes
        <4>3. Values(Nodes(s.fields)) \cap S # {}
          BY <4>1, <4>2 DEF Values
        <4>4. s.name \in S
          BY <1>3, <2>1, <4>3 DEF Closed
        <4> QED
          BY <1>5, <3>3, <4>4
      <3> QED
        BY <1>2, <3>1, <3>2, <3>3
    <2> QED
      BY <2>1 DEF TaintSound, HoldsHandle
  <1> QED
    BY <1>6, <1>7, <1>8, <1>11, <1>12 DEF ResolverInv

(* Steps that accept no struct leave every part as it was.                 *)
LEMMA SameStructsInv ==
    ASSUME ResolverInv, UNCHANGED <<defined, tainted, structs>>, TypeOK'
    PROVE  ResolverInv'
  BY DEF ResolverInv, DefinedNames, DefinedBeforeUse, TaintClosed, TaintSound, HoldsHandle, Closed

(* Visits, by the resolver or with the back end behind it.                 *)
Visit ==
    \/ \E s \in Struct : VisitStruct(s)
    \/ \E f \in Interface : VisitInterface(f)
    \/ \E accepted : Raise(accepted)
    \/ UNCHANGED vars

LEMMA VisitInv == ResolverInv /\ Visit => ResolverInv'
  <1> SUFFICES ASSUME ResolverInv, Visit
               PROVE  ResolverInv'
    OBVIOUS
  <1>1. TypeOK
    BY DEF ResolverInv
  <1>2. ASSUME NEW f \in Interface, VisitInterface(f)
        PROVE  ResolverInv'
    <2>1. f.name \in Name
      BY InterfaceAssumption
    <2>2. services' \in Seq(Interface)
      BY <1>1, <1>2 DEF TypeOK, VisitInterface
    <2>3. TypeOK' /\ UNCHANGED <<defined, tainted, structs>>
      BY <1>1, <1>2, <2>1, <2>2 DEF TypeOK, VisitInterface
    <2> QED
      BY <2>3, SameStructsInv
  <1>3. ASSUME NEW accepted, Raise(accepted)
        PROVE  ResolverInv'
    <2>1. TypeOK' /\ UNCHANGED <<defined, tainted, structs>>
      BY <1>1, <1>3 DEF TypeOK, Raise
    <2> QED
      BY <2>1, SameStructsInv
  <1>4. CASE UNCHANGED vars
    <2>1. TypeOK' /\ UNCHANGED <<defined, tainted, structs>>
      BY <1>1, <1>4 DEF TypeOK, vars
    <2> QED
      BY <2>1, SameStructsInv
  <1> QED
    BY <1>2, <1>3, <1>4, VisitStructInv DEF Visit

LEMMA ResolverInvariant == Spec => []ResolverInv
  <1>1. [Next]_vars => Visit
    BY DEF Next, Visit
  <1> QED
    BY <1>1, InitInv, VisitInv, PTL DEF Spec

(* What the resolver has defined, tainted and accepted keeps its type.     *)
THEOREM TypeCorrect == Spec => []TypeOK
  <1>1. ResolverInv => TypeOK
    BY DEF ResolverInv
  <1> QED
    BY <1>1, ResolverInvariant, PTL

(* An accepted struct is made of builtin types and earlier structs.        *)
THEOREM UsesAreDefined == Spec => []DefinedBeforeUse
  <1>1. ResolverInv => DefinedBeforeUse
    BY DEF ResolverInv
  <1> QED
    BY <1>1, ResolverInvariant, PTL

(* The names TypeResolver takes for holders of handles are closed under    *)
(* use, so they include the least such set.                                *)
LEMMA TaintedClosed == ResolverInv => Closed(tainted \cup {Handle})
  BY DEF ResolverInv, TaintClosed, Closed, Values

LEMMA ExactTaint == ResolverInv => TaintIsExact
  <1> SUFFICES ASSUME ResolverInv, NEW v \in Name
               PROVE  HoldsHandle(v) <=> v \in tainted \cup {Handle}
    BY DEF TaintIsExact
  <1>1. tainted \cup {Handle} \in SUBSET Name
    BY DEF ResolverInv, TypeOK
  <1>2. HoldsHandle(v) => v \in tainted \cup {Handle}
    BY <1>1, TaintedClosed DEF HoldsHandle
  <1>3. v \in tainted => HoldsHandle(v)
    BY DEF ResolverInv, TaintSound
  <1>4. HoldsHandle(Handle)
    BY DEF HoldsHandle, Closed
  <1> QED
    BY <1>2, <1>3, <1>4

(* _handle_tainted is exactly the structs that hold handles at any depth.  *)
THEOREM TaintTheorem == Spec => []TaintIsExact
  BY ExactTaint, ResolverInvariant, PTL

(* No container's type in an accepted struct holds a handle at any depth.  *)
THEOREM NoHandleTheorem == Spec => []NoHandleContained
  <1>1. ResolverInv => NoHandleContained
    <2> SUFFICES ASSUME ResolverInv, NEW i \in DOMAIN structs,
                        NEW n \in Nodes(structs[i].fields), n.depth > 0
                 PROVE  ~HoldsHandle(n.value)
      BY DEF NoHandleContained
    <2>1. structs[i] \in Struct
      BY DEF ResolverInv, TypeOK
    <2>2. n.value \in Name /\ n.depth # 0
      BY <2>1, FieldNodes
    <2>3. n.value \notin tainted \cup {Handle}
      BY <2>2 DEF ResolverInv, TaintClosed
    <2> QED
      BY <2>2, <2>3, ExactTaint DEF TaintIsExact
  <1> QED
    BY <1>1, ResolverInvariant, PTL

-----------------------------------------------------------------------------
(* The back end.  HeaderInOrder needs to know how the header's two halves  *)
(* go together: every struct accepted is among the declarations, behind    *)
(* all the structs accepted before it, and no two have a name in common.   *)

NamesDiffer == \A i, j \in DOMAIN structs : structs[i].name = structs[j].name => i = j

(* Struct s is among the first n declarations.                             *)
Declared(s, n) == \E q \in 1..n : root[q].kind = "struct" /\ root[q].decl = s

Declaration == [kind : {"struct", "interface"}, decl : Struct \cup Interface]

RootInv ==
    /\ root \in Seq(Declaration)
    /\ \A i \in DOMAIN structs : Declared(structs[i], Len(root))
    /\ \A p \in DOMAIN root : root[p].kind = "struct" =>
         \E i \in DOMAIN structs :
             /\ root[p].decl = structs[i]
             /\ \A j \in 1..i - 1 : Declared(structs[j], p - 1)

CppInv == ResolverInv /\ NamesDiffer /\ RootInv

LEMMA CppInitInv == CppInit => CppInv
  <1> SUFFICES ASSUME CppInit
               PROVE  CppInv
    OBVIOUS
  <1>1. DOMAIN structs = {} /\ root \in Seq(Declaration) /\ DOMAIN root = {}
    BY DEF CppInit, Init
  <1> QED
    BY <1>1, InitInv DEF CppInit, CppInv, NamesDiffer, RootInv

(* One more declaration.                                                   *)
LEMMA AppendDeclaration ==
    ASSUME root \in Seq(Declaration), NEW d \in Declaration, root' = Append(root, d)
    PROVE  /\ root' \in Seq(Declaration) /\ Len(root') = Len(root) + 1
           /\ Len(root) \in Nat /\ DOMAIN root = 1..Len(root)
           /\ DOMAIN root' = 1..Len(root) + 1
           /\ \A q \in 1..Len(root) : root'[q] = root[q]
           /\ root'[Len(root) + 1] = d
  OBVIOUS

LEMMA DeclareStruct ==
    ASSUME CppInv, NEW s \in Struct, VisitStruct(s), Declares("struct", s)
    PROVE  CppInv'
  <1> DEFINE d == [kind |-> "struct", decl |-> s]
  <1>0. PICK k, n : k = Len(structs) + 1 /\ n = Len(root)
    OBVIOUS
  <1>1. /\ structs \in Seq(Struct) /\ structs' = Append(structs, s)
        /\ ResolverInv /\ NamesDiffer /\ RootInv /\ root \in Seq(Declaration)
    BY DEF CppInv, ResolverInv, TypeOK, RootInv, VisitStruct
  <1>2. /\ DOMAIN structs' = DOMAIN structs \cup {k} /\ DOMAIN structs = 1..k - 1 /\ k \in Nat
        /\ \A i \in DOMAIN structs : structs'[i] = structs[i]
        /\ structs'[k] = s
    BY <1>0, <1>1, AppendStruct
  <1>3. d \in Declaration /\ root' = Append(root, d)
    BY DEF Declaration, Declares
  <1>4. /\ root' \in Seq(Declaration) /\ Len(root') = n + 1 /\ n \in Nat /\ DOMAIN root = 1..n
        /\ DOMAIN root' = 1..n + 1
        /\ \A q \in 1..n : root'[q] = root[q]
        /\ root'[n + 1] = d
    BY ONLY <1>0, <1>1, <1>3, AppendDeclaration
  <1> HIDE DEF d
  <1>5. NamesDiffer'
    <2>1. \A i \in DOMAIN structs : structs[i].name # s.name
      BY <1>1 DEF VisitStruct, StructAccepted, ResolverInv, DefinedNames
    <2> QED
      BY <1>1, <1>2, <2>1 DEF NamesDiffer
  <1>7. \A i \in DOMAIN structs' : Declared(structs[i], Len(root))'
    <2>1. Declared(structs[k], Len(root))'
      BY <1>2, <1>4 DEF Declared, d
    <2>2. ASSUME NEW i \in DOMAIN structs
          PROVE  Declared(structs[i], Len(root))'
      <3>1. PICK q \in 1..n : root[q].kind = "struct" /\ root[q].decl = structs[i]
        BY <1>0, <1>1 DEF RootInv, Declared
      <3>2. q \in 1..n + 1 /\ root'[q] = root[q]
        BY <1>4
      <3> QED
        BY <1>2, <1>4, <3>1, <3>2 DEF Declared
    <2> QED
      BY <1>2, <2>1, <2>2
  <1>8. ASSUME NEW p \in DOMAIN root', root'[p].kind = "struct"
        PROVE  \E i \in DOMAIN structs' :
                   /\ root'[p].decl = structs'[i]
                   /\ \A j \in 1..i - 1 : Declared(structs[j], p - 1)'
    <2>1. CASE p = n + 1
      <3>1. root'[p].decl = structs'[k] /\ p - 1 = n
        BY <1>2, <1>4, <2>1 DEF d
      <3>2. ASSUME NEW j \in 1..k - 1
            PROVE  Declared(structs[j], p - 1)'
        <4>1. Declared(structs[j], n)
          BY <1>0, <1>1, <1>2 DEF RootInv
        <4>2. PICK q \in 1..n : root[q].kind = "struct" /\ root[q].decl = structs[j]
          BY <4>1 DEF Declared
        <4> QED
          BY <1>2, <1>4, <3>1, <4>2 DEF Declared
      <3> QED
        BY <1>2, <3>1, <3>2
    <2>2. CASE p # n + 1
      <3>1. p \in DOMAIN root /\ root'[p] = root[p] /\ p - 1 \in 0..n
        BY <1>4, <2>2
      <3>2. PICK i \in DOMAIN structs : /\ root[p].decl = structs[i]
                                        /\ \A j \in 1..i - 1 : Declared(structs[j], p - 1)
        BY <1>1, <1>8, <3>1 DEF RootInv
      <3>3. ASSUME NEW j \in 1..i - 1
            PROVE  Declared(structs[j], p - 1)'
        <4>1. PICK q \in 1..p - 1 : root[q].kind = "struct" /\ root[q].decl = structs[j]
          BY <3>2 DEF Declared
        <4>2. q \in 1..n /\ j \in DOMAIN structs
          BY <1>2, <1>4, <3>1
        <4> QED
          BY <1>2, <1>4, <4>1, <4>2 DEF Declared
      <3> QED
        BY <1>2, <3>1, <3>2, <3>3
    <2> QED
      BY <2>1, <2>2
  <1>9. RootInv'
    BY <1>4, <1>7, <1>8 DEF RootInv
  <1> QED
    BY <1>1, <1>5, <1>9, VisitStructInv DEF CppInv

LEMMA DeclareInterface ==
    ASSUME CppInv, NEW f \in Interface, VisitInterface(f), Declares("interface", f)
    PROVE  CppInv'
  <1> DEFINE d == [kind |-> "interface", decl |-> f]
  <1>0. PICK n : n = Len(root)
    OBVIOUS
  <1>1. ResolverInv' /\ structs' = structs /\ root \in Seq(Declaration)
    BY VisitInv DEF CppInv, RootInv, VisitInterface, Visit
  <1>2. d \in Declaration /\ root' = Append(root, d)
    BY DEF Declaration, Declares
  <1>3. /\ root' \in Seq(Declaration) /\ Len(root') = n + 1 /\ n \in Nat /\ DOMAIN root = 1..n
        /\ DOMAIN root' = 1..n + 1
        /\ \A q \in 1..n : root'[q] = root[q]
        /\ root'[n + 1] = d
    BY ONLY <1>0, <1>1, <1>2, AppendDeclaration
  <1>4. ASSUME NEW s, NEW m \in Nat, m <= n, Declared(s, m)
        PROVE  \A l \in {m, n + 1} : \E q \in 1..l : root'[q].kind = "struct" /\ root'[q].decl = s
    <2>1. PICK q \in 1..m : root[q].kind = "struct" /\ root[q].decl = s
      BY <1>4 DEF Declared
    <2>2. q \in 1..n /\ q \in 1..n + 1 /\ root'[q] = root[q]
      BY <1>3, <1>4
    <2> QED
      BY <2>1, <2>2
  <1>5. \A i \in DOMAIN structs' : Declared(structs[i], Len(root))'
    <2> SUFFICES ASSUME NEW i \in DOMAIN structs
                 PROVE  \E q \in 1..n + 1 : root'[q].kind = "struct" /\ root'[q].decl = structs[i]
      BY <1>1, <1>3 DEF Declared
    <2>1. Declared(structs[i], n)
      BY <1>0 DEF CppInv, RootInv
    <2> QED
      BY <1>3, <1>4, <2>1
  <1>6. ASSUME NEW p \in DOMAIN root', root'[p].kind = "struct"
        PROVE  \E i \in DOMAIN structs' :
                   /\ root'[p].decl = structs'[i]
                   /\ \A j \in 1..i - 1 : Declared(structs[j], p - 1)'
    <2>1. p # n + 1
      BY <1>3, <1>6
    <2>2. p \in DOMAIN root /\ root'[p] = root[p] /\ p - 1 \in Nat /\ p - 1 <= n
      BY <1>3, <2>1
    <2>3. PICK i \in DOMAIN structs : /\ root[p].decl = structs[i]
                                      /\ \A j \in 1..i - 1 : Declared(structs[j], p - 1)
      BY <1>6, <2>2 DEF CppInv, RootInv
    <2>4. \A j \in 1..i - 1 : \E q \in 1..p - 1 : root'[q].kind = "struct" /\ root'[q].decl = structs[j]
      BY <1>4, <2>2, <2>3
    <2> QED
      BY <1>1, <2>2, <2>3, <2>4 DEF Declared
  <1>7. RootInv'
    BY <1>3, <1>5, <1>6 DEF RootInv
  <1> QED
    BY <1>1, <1>7 DEF CppInv, NamesDiffer

LEMMA CppInductive == CppInv /\ [CppNext]_cppVars => CppInv'
  <1> SUFFICES ASSUME CppInv, [CppNext]_cppVars
               PROVE  CppInv'
    OBVIOUS
  <1>1. ASSUME UNCHANGED root, (\E accepted : Raise(accepted)) \/ UNCHANGED vars
        PROVE  CppInv'
    <2>1. ResolverInv' /\ structs' = structs
      BY <1>1, VisitInv DEF CppInv, Raise, Visit, vars
    <2> QED
      BY <1>1, <2>1 DEF CppInv, NamesDiffer, RootInv, Declared
  <1> QED
    BY <1>1, DeclareStruct, DeclareInterface DEF CppNext, cppVars

LEMMA CppInvariant == CppSpec => []CppInv
  BY CppInitInv, CppInductive, PTL DEF CppSpec

-----------------------------------------------------------------------------
(* The header: the declarations, then two specializations for each struct. *)

LEMMA HeaderParts ==
    ASSUME CppInv
    PROVE  /\ Len(root) \in Nat /\ DOMAIN root = 1..Len(root)
           /\ Len(structs) \in Nat /\ DOMAIN structs = 1..Len(structs)
           /\ DOMAIN Header = 1..Len(root) + 2 * Len(structs)
           /\ \A i \in 1..Len(root) : Header[i] = root[i]
           /\ \A i \in 1..2 * Len(structs) : Header[Len(root) + i] = Pending[i]
  <1>1. structs \in Seq(Struct) /\ root \in Seq(Declaration)
    BY DEF CppInv, RootInv, ResolverInv, TypeOK
  <1>2. PICK n : n = Len(structs)
    OBVIOUS
  <1>3. n \in Nat /\ 2 * n \in Nat
    BY <1>1, <1>2
  <1>4. Pending \in Seq(Range(Pending)) /\ Len(Pending) = 2 * n
    <2>1. Pending \in [1..2 * n -> Range(Pending)]
      BY <1>2 DEF Pending, Range
    <2> QED
      BY <1>3, <2>1
  <1>5. PICK p, T : p = Pending /\ p \in Seq(T)
    BY <1>4
  <1>6. /\ DOMAIN (root \o p) = 1..Len(root) + Len(p)
        /\ \A i \in 1..Len(root) : (root \o p)[i] = root[i]
        /\ \A i \in 1..Len(p) : (root \o p)[Len(root) + i] = p[i]
    BY <1>1, <1>5
  <1>7. Header = root \o p /\ Len(p) = 2 * Len(structs)
    BY <1>2, <1>4, <1>5 DEF Header
  <1>8. /\ Len(root) \in Nat /\ DOMAIN root = 1..Len(root)
        /\ Len(structs) \in Nat /\ DOMAIN structs = 1..Len(structs)
    BY <1>1
  <1> QED
    BY ONLY <1>5, <1>6, <1>7, <1>8

(* Where the two specializations of a struct are.                          *)
LEMMA PendingParts ==
    ASSUME CppInv, NEW i \in DOMAIN structs
    PROVE  /\ 2 * i - 1 \in 1..2 * Len(structs) /\ 2 * i \in 1..2 * Len(structs)
           /\ Pending[2 * i - 1] = Specialization("unserializable", structs[i])
           /\ Pending[2 * i] = Specialization("serializable", structs[i])
           /\ Pending[2 * i - 1].kind = "unserializable" /\ Pending[2 * i - 1].decl = structs[i]
           /\ Pending[2 * i].kind = "serializable" /\ Pending[2 * i].decl = structs[i]
  <1>1. i \in Nat /\ i >= 1 /\ i <= Len(structs) /\ Len(structs) \in Nat
    BY HeaderParts
  <1>2. (2 * i - 1) % 2 = 1 /\ (2 * i - 1 + 1) \div 2 = i /\ (2 * i) % 2 = 0 /\ (2 * i + 1) \div 2 = i
    BY <1>1
  <1>3. 2 * i - 1 \in 1..2 * Len(structs) /\ 2 * i \in 1..2 * Len(structs)
    BY <1>1
  <1>4. Pending[2 * i - 1] = SpecializationAt(2 * i - 1, structs[i])
    BY <1>2, <1>3 DEF Pending
  <1>5. Pending[2 * i] = SpecializationAt(2 * i, structs[i])
    BY <1>2, <1>3 DEF Pending
  <1>6. \A j, s : /\ j % 2 = 1 => SpecializationAt(j, s) = Specialization("unserializable", s)
                  /\ j % 2 = 0 => SpecializationAt(j, s) = Specialization("serializable", s)
    BY DEF SpecializationAt
  <1>7. Pending[2 * i - 1] = Specialization("unserializable", structs[i])
    BY ONLY <1>2, <1>4, <1>6
  <1>8. Pending[2 * i] = Specialization("serializable", structs[i])
    BY ONLY <1>2, <1>5, <1>6
  <1>9. \A kind, s : /\ Specialization(kind, s).kind = kind
                     /\ Specialization(kind, s).decl = s
    BY DEF Specialization
  <1> QED
    BY ONLY <1>3, <1>7, <1>8, <1>9

LEMMA PendingIndex ==
    ASSUME CppInv, NEW i \in 1..2 * Len(structs)
    PROVE  \E k \in DOMAIN structs : i = 2 * k - 1 \/ i = 2 * k
  <1>1. PICK k : k = (i + 1) \div 2
    OBVIOUS
  <1>2. Len(structs) \in Nat /\ DOMAIN structs = 1..Len(structs)
    BY HeaderParts
  <1>3. k \in Nat /\ (i = 2 * k - 1 \/ i = 2 * k)
    BY <1>1, <1>2
  <1>4. i \in Nat /\ i >= 1 /\ i <= 2 * Len(structs)
    BY <1>2
  <1>5. k \in 1..Len(structs)
    BY ONLY <1>2, <1>3, <1>4
  <1> QED
    BY <1>2, <1>3, <1>5

-----------------------------------------------------------------------------
(* HeaderInOrder.                                                          *)

(* A position at which the header has what a declaration needs.            *)
Provided(need, n) == \E j \in 1..n : <<Header[j].kind, Header[j].decl.name>> = need

LEMMA StructUses ==
    ASSUME CppInv, NEW k \in DOMAIN structs,
           NEW v \in Values(Nodes(structs[k].fields)) \ Builtin
    PROVE  \E j \in 1..k - 1 : j \in DOMAIN structs /\ structs[j].name = v
  <1>1. PICK j \in 1..k - 1 : structs[j].name = v
    BY DEF CppInv, ResolverInv, DefinedBeforeUse
  <1>2. j \in DOMAIN structs
    BY HeaderParts
  <1> QED
    BY <1>1, <1>2

(* A declaration of a struct is an entry of the header.                    *)
LEMMA DeclaredIsProvided ==
    ASSUME CppInv, NEW s, NEW n \in 0..Len(root), Declared(s, n)
    PROVE  Provided(<<"struct", s.name>>, n)
  <1>1. PICK q \in 1..n : root[q].kind = "struct" /\ root[q].decl = s
    BY DEF Declared
  <1>2. q \in 1..Len(root) /\ Header[q] = root[q]
    BY HeaderParts
  <1> QED
    BY <1>1, <1>2 DEF Provided

LEMMA StructInOrder ==
    ASSUME CppInv, NEW i \in 1..Len(root), root[i].kind = "struct",
           NEW need \in Needs(root[i])
    PROVE  Provided(need, i - 1)
  <1>1. PICK v \in Values(Nodes(root[i].decl.fields)) \ Builtin : need = <<"struct", v>>
    BY DEF Needs
  <1>2. PICK k \in DOMAIN structs : /\ root[i].decl = structs[k]
                                    /\ \A j \in 1..k - 1 : Declared(structs[j], i - 1)
    BY HeaderParts DEF CppInv, RootInv
  <1>3. PICK j \in 1..k - 1 : structs[j].name = v
    BY <1>1, <1>2, StructUses
  <1>4. i - 1 \in 0..Len(root)
    BY HeaderParts
  <1> QED
    BY <1>1, <1>2, <1>3, <1>4, DeclaredIsProvided

LEMMA SpecializationInOrder ==
    ASSUME CppInv, NEW i \in 1..2 * Len(structs), NEW need \in Needs(Pending[i])
    PROVE  Provided(need, Len(root) + i - 1)
  <1>1. PICK k \in DOMAIN structs : i = 2 * k - 1 \/ i = 2 * k
    BY PendingIndex
  <1>2. PICK kind \in {"serializable", "unserializable"} :
            Pending[i].kind = kind /\ Pending[i].decl = structs[k]
    BY <1>1, PendingParts
  <1>3. CASE need = <<"struct", structs[k].name>>
    <2>1. Declared(structs[k], Len(root)) /\ Len(root) \in 0..Len(root)
      BY HeaderParts DEF CppInv, RootInv
    <2>2. Provided(need, Len(root))
      BY <1>3, <2>1, DeclaredIsProvided
    <2>3. 1..Len(root) \subseteq 1..Len(root) + i - 1
      BY HeaderParts
    <2> QED
      BY <2>2, <2>3 DEF Provided
  <1>4. CASE need # <<"struct", structs[k].name>>
    <2>1. PICK v \in Values(Nodes(structs[k].fields)) \ Builtin : need = <<kind, v>>
      BY <1>2, <1>4 DEF Needs
    <2>2. PICK j \in 1..k - 1 : j \in DOMAIN structs /\ structs[j].name = v
      BY <2>1, StructUses
    <2>3. PICK t \in 1..2 * Len(structs) : /\ t <= 2 * k - 2
                                           /\ Pending[t].kind = kind /\ Pending[t].decl = structs[j]
      <3>1. 2 * j <= 2 * k - 2 /\ 2 * j - 1 <= 2 * k - 2
        BY <2>2, HeaderParts
      <3>2. CASE kind = "unserializable"
        BY <2>2, <3>1, <3>2, PendingParts
      <3>3. CASE kind = "serializable"
        BY <2>2, <3>1, <3>3, PendingParts
      <3> QED
        BY <3>2, <3>3
    <2>4. Len(root) + t \in 1..Len(root) + i - 1 /\ Header[Len(root) + t] = Pending[t]
      <3>1. t <= i - 1 /\ Len(root) \in Nat
        BY <1>1, <2>3, HeaderParts
      <3> QED
        BY <3>1, HeaderParts
    <2> QED
      BY <2>1, <2>2, <2>3, <2>4 DEF Provided
  <1> QED
    BY <1>3, <1>4

(* The header compiles: a struct is defined before it is the type of a     *)
(* field, and specialized before another specialization uses it, for any   *)
(* idl the resolver accepts.                                               *)
THEOREM HeaderCompiles == CppSpec => []HeaderInOrder
  <1>1. CppInv => HeaderInOrder
    <2> SUFFICES ASSUME CppInv, NEW i \in DOMAIN Header, Header[i].kind # "interface",
                        NEW need \in Needs(Header[i])
                 PROVE  Provided(need, i - 1)
      BY DEF HeaderInOrder, Provided
    <2>1. CASE i <= Len(root)
      <3>1. i \in 1..Len(root) /\ Header[i] = root[i]
        BY <2>1, HeaderParts
      <3>2. root[i].kind = "struct"
        <4>1. root \in Seq(Declaration) /\ i \in DOMAIN root
          BY <3>1, HeaderParts DEF CppInv, RootInv
        <4>2. root[i] \in Declaration
          BY <4>1
        <4>3. root[i].kind \in {"struct", "interface"}
          BY <4>2 DEF Declaration
        <4> QED
          BY <3>1, <4>3
      <3> QED
        BY <3>1, <3>2, StructInOrder
    <2>2. CASE ~(i <= Len(root))
      <3>1. PICK t \in 1..2 * Len(structs) : i = Len(root) + t
        <4>1. PICK t : t = i - Len(root)
          OBVIOUS
        <4>2. t \in 1..2 * Len(structs) /\ i = Len(root) + t
          BY <2>2, <4>1, HeaderParts
        <4> QED
          BY <4>2
      <3>2. Header[i] = Pending[t] /\ i - 1 = Len(root) + t - 1
        BY <3>1, HeaderParts
      <3> QED
        BY <3>2, SpecializationInOrder
    <2> QED
      BY <2>1, <2>2
  <1> QED
    BY <1>1, CppInvariant, PTL

-----------------------------------------------------------------------------
(* What the specializations pass.                                          *)

(* A specialization is found by its struct's name.                         *)
LEMMA SpecializationFound ==
    ASSUME CppInv, NEW k \in DOMAIN structs
    PROVE  /\ SpecializationOf(structs[k].name, "serializable") = Writes(structs[k].fields)
           /\ SpecializationOf(structs[k].name, "unserializable") = Reads(structs[k].fields)
  <1> DEFINE Found(kind) == {p \in {Header[i] : i \in DOMAIN Header} :
                                p.kind = kind /\ p.decl.name = structs[k].name}
  <1>1. ASSUME NEW kind \in Traits, NEW p \in Found(kind)
        PROVE  p = Specialization(kind, structs[k])
    <2>1. PICK i \in DOMAIN Header : p = Header[i] /\ p.kind = kind /\ p.decl.name = structs[k].name
      BY <1>1
    <2>2. ~(i \in 1..Len(root))
      <3> SUFFICES ASSUME i \in 1..Len(root)
                   PROVE  FALSE
        OBVIOUS
      <3>1. root \in Seq(Declaration) /\ i \in DOMAIN root /\ p = root[i]
        BY <2>1, HeaderParts DEF CppInv, RootInv
      <3>2. p \in Declaration
        BY <3>1
      <3>3. p.kind \in {"struct", "interface"}
        BY <3>2 DEF Declaration
      <3> QED
        BY <2>1, <3>3 DEF Traits
    <2>3. PICK t : t = i - Len(root)
      OBVIOUS
    <2>4. t \in 1..2 * Len(structs) /\ i = Len(root) + t
      BY <2>2, <2>3, HeaderParts
    <2>5. p = Pending[t]
      BY <2>1, <2>4, HeaderParts
    <2>6. PICK j \in DOMAIN structs : t = 2 * j - 1 \/ t = 2 * j
      BY <2>4, PendingIndex
    <2>7. p.decl = structs[j]
      BY <2>5, <2>6, PendingParts
    <2>8. j = k
      BY <2>1, <2>7 DEF CppInv, NamesDiffer
    <2>9. CASE t = 2 * k - 1
      <3>1. p = Specialization("unserializable", structs[k]) /\ p.kind = "unserializable"
        BY <2>5, <2>9, PendingParts
      <3> QED
        BY <2>1, <3>1
    <2>10. CASE t = 2 * k
      <3>1. p = Specialization("serializable", structs[k]) /\ p.kind = "serializable"
        BY <2>5, <2>10, PendingParts
      <3> QED
        BY <2>1, <3>1
    <2> QED
      BY <2>6, <2>8, <2>9, <2>10
  <1>2. \A kind \in Traits : \E p : p \in Found(kind)
    <2>1. /\ Len(root) + (2 * k - 1) \in DOMAIN Header /\ Len(root) + 2 * k \in DOMAIN Header
          /\ Header[Len(root) + (2 * k - 1)] = Pending[2 * k - 1]
          /\ Header[Len(root) + 2 * k] = Pending[2 * k]
      <3>1. 2 * k - 1 \in 1..2 * Len(structs) /\ 2 * k \in 1..2 * Len(structs)
        BY PendingParts
      <3>2. /\ DOMAIN Header = 1..Len(root) + 2 * Len(structs) /\ Len(root) \in Nat
            /\ \A i \in 1..2 * Len(structs) :
                 i + Len(root) \in DOMAIN Header /\ Header[Len(root) + i] = Pending[i]
        BY HeaderParts
      <3> QED
        BY <3>1, <3>2
    <2>2. Pending[2 * k - 1] \in Found("unserializable") /\ Pending[2 * k] \in Found("serializable")
      BY <2>1, PendingParts
    <2> QED
      BY <2>2 DEF Traits
  <1>3. \A kind \in Traits : SpecializationOf(structs[k].name, kind) = Specialization(kind, structs[k]).body
    <2> TAKE kind \in Traits
    <2>1. (CHOOSE p \in {Header[i] : i \in DOMAIN Header} :
             p.kind = kind /\ p.decl.name = structs[k].name) \in Found(kind)
      BY <1>2
    <2> QED
      BY <1>1, <2>1 DEF SpecializationOf
  <1> QED
    BY <1>3 DEF Traits, Specialization

(* What statements pass depends on the structs they may use alone.         *)
LEMMA PassedLocal ==
    ASSUME NEW statements, NEW k \in Nat, NEW f, NEW g,
           \A trait \in Traits : \A j \in 1..k : f[<<trait, j>>] = g[<<trait, j>>]
    PROVE  Passed(statements, k, f) = Passed(statements, k, g)
  <1>1. ASSUME NEW call \in DOMAIN Library, NEW v, NEW at
        PROVE  PassedValue(call, v, at, k, f) = PassedValue(call, v, at, k, g)
    <2>1. Library[call] \in Traits
      BY <1>1 DEF Library, Traits
    <2>2. \A j \in {i \in 1..k : structs[i].name = v} :
            {Within(at, item) : item \in f[<<Library[call], j>>]}
              = {Within(at, item) : item \in g[<<Library[call], j>>]}
      BY <2>1
    <2>3. UNION {{Within(at, item) : item \in f[<<Library[call], j>>]} :
                    j \in {i \in 1..k : structs[i].name = v}}
          = UNION {{Within(at, item) : item \in g[<<Library[call], j>>]} :
                    j \in {i \in 1..k : structs[i].name = v}}
      BY <2>2
    <2> QED
      BY <2>3 DEF PassedValue
  <1>2. ASSUME NEW s, NEW i
        PROVE  PassedStatement(s, i, k, f) = PassedStatement(s, i, k, g)
    <2>1. CASE s.call \in DOMAIN Library
      <3>1. \A n \in Met(s.type) : PassedValue(s.call, s.type[n].value, <<i, s.name, n>>, k, f)
                                    = PassedValue(s.call, s.type[n].value, <<i, s.name, n>>, k, g)
        BY <1>1, <2>1
      <3> QED
        BY <2>1, <3>1 DEF PassedStatement
    <2>2. CASE s.call \notin DOMAIN Library
      BY <2>2 DEF PassedStatement
    <2> QED
      BY <2>1, <2>2
  <1>3. \A i \in DOMAIN statements :
          PassedStatement(statements[i], i, k, f) = PassedStatement(statements[i], i, k, g)
    BY <1>2
  <1> QED
    BY <1>3 DEF Passed

(* The items of each struct are well defined: those of a struct need only  *)
(* those of earlier ones.                                                  *)
PassedIn(d, passed) == Passed(SpecializationOf(structs[d[2]].name, d[1]), d[2] - 1, passed)

LEMMA ItemsExist ==
    ASSUME NEW n \in Nat
    PROVE  \E passed : passed = [d \in Traits \X (1..n) |-> PassedIn(d, passed)]
  <1> DEFINE Has(m) == \E f : f = [d \in Traits \X (1..m) |-> PassedIn(d, f)]
             Bad == {m \in Nat : ~Has(m)}
  <1>1. Has(0)
    <2> DEFINE f == [d \in Traits \X (1..0) |-> {}]
    <2>1. Traits \X (1..0) = {}
      OBVIOUS
    <2>2. f = [d \in Traits \X (1..0) |-> PassedIn(d, f)]
      BY <2>1
    <2> QED
      BY <2>2
  <1>2. ASSUME NEW m \in Nat, Has(m)
        PROVE  Has(m + 1)
    <2>1. PICK g : g = [d \in Traits \X (1..m) |-> PassedIn(d, g)]
      BY <1>2
    <2> DEFINE f == [d \in Traits \X (1..m + 1) |-> PassedIn(d, g)]
    <2>2. \A d \in Traits \X (1..m) : f[d] = g[d]
      <3>1. Traits \X (1..m) \subseteq Traits \X (1..m + 1)
        OBVIOUS
      <3> QED
        BY <2>1, <3>1
    <2> HIDE DEF f
    <2>3. ASSUME NEW d \in Traits \X (1..m + 1)
          PROVE  PassedIn(d, f) = PassedIn(d, g)
      <3>1. d[2] - 1 \in Nat /\ 1..d[2] - 1 \subseteq 1..m
        OBVIOUS
      <3>2. \A trait \in Traits : \A j \in 1..d[2] - 1 : f[<<trait, j>>] = g[<<trait, j>>]
        BY <2>2, <3>1
      <3> QED
        BY <3>1, <3>2, PassedLocal DEF PassedIn
    <2>4. f = [d \in Traits \X (1..m + 1) |-> PassedIn(d, f)]
      BY <2>3 DEF f
    <2> QED
      BY <2>4
  <1> HIDE DEF Has
  <1>3. Bad = {}
    <2> SUFFICES ASSUME Bad # {}
                 PROVE  FALSE
      OBVIOUS
    <2>1. PICK m \in Bad : \A l \in Bad : m <= l
      BY Least
    <2>2. m # 0 /\ m \in Nat
      BY <1>1
    <2>3. m - 1 \in Nat /\ ~(m <= m - 1) /\ m - 1 + 1 = m
      BY <2>2
    <2>4. Has(m - 1)
      BY <2>1, <2>3
    <2> QED
      BY <1>2, <2>3, <2>4
  <1> QED
    BY <1>3 DEF Has

LEMMA ItemsAre ==
    ASSUME CppInv
    PROVE  PassedInStructs = [d \in Traits \X DOMAIN structs |-> PassedIn(d, PassedInStructs)]
  <1>1. DOMAIN structs = 1..Len(structs) /\ Len(structs) \in Nat
    BY HeaderParts
  <1>2. \E passed : passed = [d \in Traits \X DOMAIN structs |-> PassedIn(d, passed)]
    BY <1>1, ItemsExist
  <1>3. PassedInStructs = CHOOSE passed : passed = [d \in Traits \X DOMAIN structs |-> PassedIn(d, passed)]
    BY DEF PassedInStructs, PassedIn
  <1> QED
    BY ONLY <1>2, <1>3

-----------------------------------------------------------------------------
(* CallsAgree.                                                             *)

(* What one of the first k structs' serializable passes its unserializable *)
(* passes, too.                                                            *)
SameItems(k) ==
    \A j \in 1..k : PassedInStructs[<<"serializable", j>>] = PassedInStructs[<<"unserializable", j>>]

LEMMA WrittenIsRead ==
    ASSUME NEW k \in Nat, SameItems(k), NEW variables
    PROVE  Passed(Writes(variables), k, PassedInStructs)
             = Passed(Reads(variables), k, PassedInStructs)
  <1> DEFINE P == PassedInStructs
             W == Writes(variables)
             R == Reads(variables)
  <1>1. Library["serialize"] = "serializable" /\ Library["unserialize"] = "unserializable"
    BY DEF Library
  <1>2. /\ "serialize" \in DOMAIN Library /\ "unserialize" \in DOMAIN Library
        /\ "add_handle" \notin DOMAIN Library /\ "next_handle" \notin DOMAIN Library
    BY DEF Library
  <1>3. \A v, at : PassedValue("serialize", v, at, k, P) = PassedValue("unserialize", v, at, k, P)
    BY <1>1 DEF PassedValue, SameItems
  <1>4. DOMAIN W = DOMAIN variables /\ DOMAIN R = DOMAIN variables
    BY DEF Writes, Reads
  <1>5. ASSUME NEW i \in DOMAIN variables
        PROVE  PassedStatement(W[i], i, k, P) = PassedStatement(R[i], i, k, P)
    <2>1. /\ W[i].name = R[i].name /\ W[i].type = R[i].type
          /\ \/ W[i].call = "add_handle" /\ R[i].call = "next_handle"
             \/ W[i].call = "serialize" /\ R[i].call = "unserialize"
      BY DEF Writes, Reads, Statement
    <2> HIDE DEF W, R, P
    <2>2. CASE W[i].call = "add_handle" /\ R[i].call = "next_handle"
      BY <1>2, <2>1, <2>2 DEF PassedStatement
    <2>3. CASE W[i].call = "serialize" /\ R[i].call = "unserialize"
      BY <1>2, <1>3, <2>1, <2>3 DEF PassedStatement
    <2> QED
      BY <2>1, <2>2, <2>3
  <1> HIDE DEF W, R, P
  <1>6. Passed(W, k, P) = Passed(R, k, P)
    BY <1>4, <1>5 DEF Passed
  <1> QED
    BY <1>6 DEF W, R, P

LEMMA StructsAgree ==
    ASSUME CppInv
    PROVE  SameItems(Len(structs))
  <1> DEFINE Same(j) == PassedInStructs[<<"serializable", j>>] = PassedInStructs[<<"unserializable", j>>]
             Bad == {j \in 1..Len(structs) : ~Same(j)}
  <1>1. DOMAIN structs = 1..Len(structs) /\ Len(structs) \in Nat
    BY HeaderParts
  <1>2. Bad = {}
    <2> SUFFICES ASSUME Bad # {}
                 PROVE  FALSE
      OBVIOUS
    <2>1. PICK j \in Bad : \A l \in Bad : j <= l
      <3>1. Bad \in SUBSET Nat
        BY <1>1
      <3> HIDE DEF Bad
      <3> QED
        BY <3>1, Least
    <2>2. j \in DOMAIN structs /\ j - 1 \in Nat
      BY <1>1
    <2>3. \A l \in 1..j - 1 : Same(l)
      <3> TAKE l \in 1..j - 1
      <3>1. l \in 1..Len(structs) /\ ~(j <= l)
        BY <1>1, <2>2
      <3> HIDE DEF Same
      <3> QED
        BY <2>1, <3>1
    <2>4. SameItems(j - 1)
      BY <2>3 DEF SameItems
    <2>5. /\ PassedInStructs[<<"serializable", j>>]
               = Passed(Writes(structs[j].fields), j - 1, PassedInStructs)
          /\ PassedInStructs[<<"unserializable", j>>]
               = Passed(Reads(structs[j].fields), j - 1, PassedInStructs)
      <3>1. /\ <<"serializable", j>> \in Traits \X DOMAIN structs
            /\ <<"unserializable", j>> \in Traits \X DOMAIN structs
        BY <2>2 DEF Traits
      <3>2. \A d \in Traits \X DOMAIN structs : PassedInStructs[d] = PassedIn(d, PassedInStructs)
        BY ItemsAre
      <3> QED
        BY <2>2, <3>1, <3>2, SpecializationFound DEF PassedIn
    <2> QED
      BY <2>1, <2>2, <2>4, <2>5, WrittenIsRead
  <1> QED
    BY <1>2 DEF SameItems

(* What the two sides make of a method.                                    *)
LEMMA MethodSides ==
    ASSUME NEW m, NEW opcode
    PROVE  LET p == ProxyMethod(m, opcode)
               r == ReceiverCase(m, opcode)
           IN  /\ p.opcode = opcode /\ p.method = m.name
               /\ p.sends = Writes(m.arguments) /\ p.receives = Reads(m.return_values)
               /\ r.opcode = opcode /\ r.calls = m.name
               /\ r.receives = Reads(m.arguments) /\ r.sends = Writes(m.return_values)
               /\ p.waits = r.replies
  BY DEF ProxyMethod, ReceiverCase

(* A receiver takes a proxy's message for a call of the method that was    *)
(* called, reads what was written, each value into its own argument        *)
(* through every struct and container, and answers when the proxy waits,   *)
(* for any idl the resolver accepts.                                       *)
THEOREM ReceiversUnderstand == CppSpec => []CallsAgree
  <1>1. CppInv => CallsAgree
    <2> SUFFICES ASSUME CppInv, NEW i \in DOMAIN services, NEW j \in DOMAIN Proxy(services[i])
                 PROVE  LET proxy == Proxy(services[i])
                            receiver == Receiver(services[i])
                        IN  \E k \in DOMAIN receiver :
                              /\ {c \in DOMAIN receiver : receiver[c].opcode = proxy[j].opcode} = {k}
                              /\ receiver[k].calls = proxy[j].method
                              /\ PassedBy(receiver[k].receives) = PassedBy(proxy[j].sends)
                              /\ receiver[k].replies <=> proxy[j].waits
                              /\ PassedBy(receiver[k].sends) = PassedBy(proxy[j].receives)
      BY DEF CallsAgree
    <2> DEFINE methods == services[i].methods
               receiver == Receiver(services[i])
               proxy == Proxy(services[i])
    <2>1. services \in Seq(Interface) /\ services[i] \in Interface
      BY DEF CppInv, ResolverInv, TypeOK
    <2>2. DOMAIN methods \subseteq Nat /\ DOMAIN receiver = DOMAIN methods /\ DOMAIN proxy = DOMAIN methods
      BY <2>1, InterfaceAssumption DEF Receiver, Proxy
    <2>3. \A k \in DOMAIN methods : receiver[k] = ReceiverCase(methods[k], k - 1)
      BY DEF Receiver
    <2>4. \A k \in DOMAIN methods : proxy[k] = ProxyMethod(methods[k], k - 1)
      BY DEF Proxy
    <2>5. \A variables : PassedBy(Writes(variables)) = PassedBy(Reads(variables))
      BY HeaderParts, StructsAgree, WrittenIsRead DEF PassedBy
    <2> HIDE DEF receiver, proxy, methods
    <2>6. {c \in DOMAIN receiver : receiver[c].opcode = proxy[j].opcode} = {j}
      <3>1. j \in DOMAIN methods
        BY <2>2 DEF proxy
      <3>2. \A c \in DOMAIN methods : receiver[c].opcode = c - 1
        BY <2>3, MethodSides
      <3>3. proxy[j].opcode = j - 1
        BY <2>4, <3>1, MethodSides
      <3>4. \A c \in DOMAIN methods : c - 1 = j - 1 <=> c = j
        BY <2>2, <3>1
      <3> QED
        BY <2>2, <3>1, <3>2, <3>3, <3>4
    <2>7. /\ receiver[j].calls = proxy[j].method
          /\ PassedBy(receiver[j].receives) = PassedBy(proxy[j].sends)
          /\ receiver[j].replies <=> proxy[j].waits
          /\ PassedBy(receiver[j].sends) = PassedBy(proxy[j].receives)
      <3>1. j \in DOMAIN methods
        BY <2>2 DEF proxy
      <3> QED
        BY <2>3, <2>4, <2>5, <3>1, MethodSides
    <2>8. j \in DOMAIN receiver
      BY <2>6
    <2> QED
      BY <2>6, <2>7, <2>8 DEF receiver, proxy
  <1> QED
    BY <1>1, CppInvariant, PTL

-----------------------------------------------------------------------------
(* HandlesAreTranslated.                                                   *)

Translated(items) == \A item \in items : item.type = Handle => item.by = "handles"

(* A struct's serializable, which can use the first k structs, passes      *)
(* handles as handles if theirs do: a field is either a handle or nowhere  *)
(* names one (TaintClosed).                                                *)
LEMMA FieldsTranslated ==
    ASSUME CppInv, NEW i \in DOMAIN structs, NEW k \in Nat,
           \A j \in 1..k : Translated(PassedInStructs[<<"serializable", j>>])
    PROVE  Translated(Passed(Writes(structs[i].fields), k, PassedInStructs))
  <1> DEFINE fields == structs[i].fields
             P == PassedInStructs
  <1>1. structs[i] \in Struct
    BY DEF CppInv, ResolverInv, TypeOK
  <1>2. \A f \in DOMAIN fields : \A n \in DOMAIN fields[f].type :
          fields[f].type[n].value = Handle => fields[f].type[1].value = Handle
    <2> SUFFICES ASSUME NEW f \in DOMAIN fields, NEW n \in DOMAIN fields[f].type,
                        fields[f].type[n].value = Handle
                 PROVE  fields[f].type[1].value = Handle
      OBVIOUS
    <2>1. fields[f].type[n] \in Nodes(fields)
      BY DEF Nodes
    <2>2. fields[f].type[n].depth = 0
      BY <2>1 DEF CppInv, ResolverInv, TaintClosed
    <2>3. fields[f].type \in Type
      <3>1. fields \in Seq(Variable)
        BY <1>1, StructAssumption
      <3>2. fields[f] \in Variable
        BY <3>1
      <3> QED
        BY <3>2 DEF Variable
    <2>4. n = 1
      BY <2>2, <2>3 DEF Type
    <2> QED
      BY <2>4
  <1>3. Library["serialize"] = "serializable" /\ DOMAIN Library = {"serialize", "unserialize"}
    BY DEF Library
  <1>4. ASSUME NEW v, v # Handle, NEW at
        PROVE  Translated(PassedValue("serialize", v, at, k, P))
    <2>1. ASSUME NEW j \in 1..k, NEW item \in P[<<"serializable", j>>],
                 Within(at, item).type = Handle
          PROVE  Within(at, item).by = "handles"
      BY <2>1 DEF Within, Translated
    <2> HIDE DEF P
    <2>2. CASE \E j \in 1..k : structs[j].name = v
      <3>1. PassedValue("serialize", v, at, k, P)
              = UNION {{Within(at, item) : item \in P[<<"serializable", j>>]} :
                          j \in {l \in 1..k : structs[l].name = v}}
        BY <1>3, <2>2 DEF PassedValue
      <3>2. \A x \in PassedValue("serialize", v, at, k, P) :
              \E j \in 1..k : \E item \in P[<<"serializable", j>>] : x = Within(at, item)
        BY <3>1
      <3> QED
        BY <2>1, <3>2 DEF Translated
    <2>3. CASE ~\E j \in 1..k : structs[j].name = v
      <3>1. PassedValue("serialize", v, at, k, P) = {Item(at, v, "payload")}
        BY <2>3 DEF PassedValue
      <3>2. Item(at, v, "payload").type # Handle
        BY <1>4 DEF Item
      <3> QED
        BY <3>1, <3>2 DEF Translated
    <2> QED
      BY <2>2, <2>3
  <1>5. ASSUME NEW f \in DOMAIN fields
        PROVE  Translated(PassedStatement(Writes(fields)[f], f, k, P))
    <2> DEFINE s == Writes(fields)[f]
    <2>1. /\ s.type = fields[f].type
          /\ s.call = IF s.type[1].value = Handle THEN "add_handle" ELSE "serialize"
      BY DEF Writes, Statement
    <2> HIDE DEF s, P
    <2>2. CASE s.type[1].value = Handle
      <3>1. s.call \notin DOMAIN Library
        BY <1>3, <2>1, <2>2
      <3> QED
        BY <3>1 DEF PassedStatement, Translated, Item, s
    <2>3. CASE s.type[1].value # Handle
      <3>1. s.call = "serialize" /\ s.call \in DOMAIN Library
        BY <1>3, <2>1, <2>3
      <3>2. \A n \in Met(s.type) : s.type[n].value # Handle
        BY <1>2, <2>1, <2>3 DEF Met
      <3>3. \A n \in Met(s.type) :
              Translated(PassedValue("serialize", s.type[n].value, <<f, s.name, n>>, k, P))
        BY <1>4, <3>2
      <3>4. PassedStatement(s, f, k, P)
              = UNION {PassedValue("serialize", s.type[n].value, <<f, s.name, n>>, k, P) : n \in Met(s.type)}
        BY <3>1 DEF PassedStatement
      <3> QED
        BY <3>3, <3>4 DEF Translated, s
    <2> QED
      BY <2>2, <2>3
  <1>6. DOMAIN Writes(fields) = DOMAIN fields
    BY DEF Writes
  <1> HIDE DEF fields, P
  <1>7. Translated(Passed(Writes(fields), k, P))
    BY <1>5, <1>6 DEF Passed, Translated
  <1> QED
    BY <1>7 DEF fields, P

LEMMA StructsTranslated ==
    ASSUME CppInv
    PROVE  \A j \in 1..Len(structs) : Translated(PassedInStructs[<<"serializable", j>>])
  <1> DEFINE Good(j) == Translated(PassedInStructs[<<"serializable", j>>])
             Bad == {j \in 1..Len(structs) : ~Good(j)}
  <1>1. DOMAIN structs = 1..Len(structs) /\ Len(structs) \in Nat
    BY HeaderParts
  <1> SUFFICES ASSUME Bad # {}
               PROVE  FALSE
    OBVIOUS
  <1>2. PICK j \in Bad : \A l \in Bad : j <= l
    <2>1. Bad \in SUBSET Nat
      BY <1>1
    <2> HIDE DEF Bad
    <2> QED
      BY <2>1, Least
  <1>3. j \in DOMAIN structs /\ j - 1 \in Nat /\ ~Good(j)
    BY <1>1
  <1>4. \A l \in 1..j - 1 : Good(l)
    <2> TAKE l \in 1..j - 1
    <2>1. l \in 1..Len(structs) /\ ~(j <= l)
      BY <1>1, <1>3
    <2> HIDE DEF Good
    <2> QED
      BY <1>2, <2>1
  <1>5. Translated(Passed(Writes(structs[j].fields), j - 1, PassedInStructs))
    BY <1>3, <1>4, FieldsTranslated
  <1>6. PassedInStructs[<<"serializable", j>>]
          = Passed(Writes(structs[j].fields), j - 1, PassedInStructs)
    <2>1. <<"serializable", j>> \in Traits \X DOMAIN structs
      BY <1>3 DEF Traits
    <2>2. \A d \in Traits \X DOMAIN structs : PassedInStructs[d] = PassedIn(d, PassedInStructs)
      BY ItemsAre
    <2> QED
      BY <1>3, <2>1, <2>2, SpecializationFound DEF PassedIn
  <1> QED
    BY <1>3, <1>5, <1>6

(* No handle is written as the bytes of a number from within an accepted   *)
(* struct, however deep its structs and containers nest.                   *)
THEOREM StructHandlesTravel == CppSpec => []HandlesAreTranslated
  <1>1. CppInv => HandlesAreTranslated
    <2> SUFFICES ASSUME CppInv, NEW i \in DOMAIN structs
                 PROVE  Translated(PassedBy(SpecializationOf(structs[i].name, "serializable")))
      BY DEF HandlesAreTranslated, Translated
    <2>1. Len(structs) \in Nat
      BY HeaderParts
    <2>2. Translated(Passed(Writes(structs[i].fields), Len(structs), PassedInStructs))
      BY <2>1, StructsTranslated, FieldsTranslated
    <2> QED
      BY <2>2, SpecializationFound DEF PassedBy
  <1> QED
    BY <1>1, CppInvariant, PTL

=============================================================================
