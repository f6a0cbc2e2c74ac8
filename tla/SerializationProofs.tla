-------------------------- MODULE SerializationProofs --------------------------
(***************************************************************************)
(* Theorems of Serialization: the C buffer holds what is written to it,    *)
(* neither reader leaves the payload, what one end writes the other reads, *)
(* and the C and the C++ reader agree on every payload.                    *)
(*                                                                         *)
(* SerialInv holds what they rest on: the calls of serialize follow one    *)
(* another as the values nest, each call's bytes and handles are in the    *)
(* payload where it began, and a reader that is asked for the types        *)
(* written is before each call where the writer was.                       *)
(***************************************************************************)
EXTENDS Serialization, CommonLemmas, SequenceTheorems

-----------------------------------------------------------------------------
(* The invariant.                                                          *)

Position == [index : Nat, handle : Nat]
Start == [index |-> 0, handle |-> 0]
Returned == Nat \cup Seq(Byte) \cup Handle
Results == [outcome : {"ok", "failed", "threw", "overran", "unknown"},
            at : Position, value : Returned]

(* A call of serialize as the history has it.                             *)
CallType == [left : Seq(Value) \ {<<>>}, item : Nat, at : Position]

TypeInv ==
    /\ stage \in {"write", "read", "given up"} /\ writer \in {"cpp", "c"}
    /\ data \in Seq(Byte) /\ Len(data) <= MaxPayload
    /\ handles \in Seq(Handle)
    /\ capacity \in Nat /\ fdCapacity \in Nat
    /\ writing \in Seq(Value) /\ written \in Seq(Value)
    /\ calls \in Seq(CallType)
    /\ cpp \in Position /\ c \in Position
    /\ reading \in Seq(Type) /\ asked \in Seq(Type)
    /\ reads \in Seq([type : Type, cpp : Results, c : Results])

StageInv ==
    /\ stage # "read" => /\ reading = <<>> /\ asked = <<>> /\ reads = <<>>
                         /\ cpp = Start /\ c = Start
    /\ stage # "write" => writing = <<>>
    /\ writer = "c" => writing = <<>>

BufferInv ==
    writer = "c" => /\ Len(data) <= capacity /\ WordBytes <= capacity
                    /\ Len(handles) <= fdCapacity /\ 0 < fdCapacity

(* What call k left to write when it had written its own bytes.            *)
Passed(k) == Parts(Head(calls[k].left)) \o Tail(calls[k].left)

(* Call k + 1 is for what call k left, or for the next value of a program. *)
CallsInv ==
    /\ calls = <<>> => written = <<>> /\ writing = <<>> /\ End = Start
    /\ calls # <<>> => /\ calls[1].left = <<written[1]>>
                       /\ calls[1].item = 1 /\ calls[1].at = Start
                       /\ calls[Len(calls)].item = Len(written)
                       /\ Passed(Len(calls)) = writing
    /\ \A k \in DOMAIN calls : calls[k].item \in 1..Len(written)
    /\ \A k \in 1..Len(calls) - 1 :
         IF Passed(k) # <<>>
         THEN calls[k + 1].left = Passed(k) /\ calls[k + 1].item = calls[k].item
         ELSE /\ calls[k + 1].item = calls[k].item + 1
              /\ calls[k + 1].left = <<written[calls[k].item + 1]>>

EndOf(k) == IF k < Len(calls) THEN calls[k + 1].at ELSE End

(* The bytes and handles of x are in the payload, from begin to end.       *)
IsAt(x, begin, end) ==
    LET bytes == BytesOf(x)
        fds == HandlesOf(x.type.kind, Own(x))
    IN  /\ end.index = begin.index + Len(bytes) /\ end.index <= Len(data)
        /\ \A i \in DOMAIN bytes : data[begin.index + i] = bytes[i]
        /\ end.handle = begin.handle + Len(fds) /\ end.handle <= Len(handles)
        /\ \A i \in DOMAIN fds : handles[begin.handle + i] = fds[i]

PayloadInv == \A k \in DOMAIN calls : IsAt(Head(calls[k].left), calls[k].at, EndOf(k))

TypesOf(values) == [i \in DOMAIN values |-> values[i].type]

(* A reader asked for the types written is before its next call where the  *)
(* writer was before the same call, with the types of what it had left.    *)
SyncInv ==
    InStep /\ stage = "read" =>
        /\ Len(reads) <= Len(calls)
        /\ \A k \in DOMAIN reads :
             LET x == Head(calls[k].left) IN
             reads[k].type = x.type /\ reads[k].cpp.outcome = "ok" /\ reads[k].cpp.value = Own(x)
        /\ Len(reads) = Len(calls) =>
             reading = <<>> /\ Len(asked) = Len(written) /\ cpp = End
        /\ Len(reads) < Len(calls) =>
             LET call == calls[Len(reads) + 1] IN
             /\ cpp = call.at
             /\ reading # <<>> => reading = TypesOf(call.left) /\ call.item = Len(asked)
             /\ reading = <<>> => /\ call.item = Len(asked) + 1
                                  /\ call.left = <<written[call.item]>>

(* While the types are those C has, every call is a program's.             *)
AgreeInv ==
    /\ ReadersAgree
    /\ (\A j \in DOMAIN reads : reads[j].type.kind \in CKind) =>
         /\ reading = <<>>
         /\ (\A j \in DOMAIN reads : reads[j].cpp.outcome = "ok") => c = cpp

SerialInv ==
    /\ TypeInv /\ StageInv /\ OffsetsInBounds /\ BufferInv /\ AgreeInv
    /\ stage # "given up" => CallsInv /\ PayloadInv
    /\ SyncInv

-----------------------------------------------------------------------------
(* Words, strings and the values of programs.                              *)

(* Each size has a word of its own, and each word is a size's.             *)
LEMMA WordsAre ==
    /\ \A n \in Size : Word[n] \in Seq(Byte) /\ Len(Word[n]) = WordBytes
                       /\ Number(Word[n]) = n
    /\ \A s \in Seq(Byte) : Len(s) = WordBytes => Number(s) \in Size
    /\ \A s \in Seq(Byte) : Len(s) = 1 => Number(s) \in Byte
  <1>1. /\ Word \in [Size -> [1..WordBytes -> Byte]]
        /\ \A m, n \in Size : Word[m] = Word[n] => m = n
        /\ \A w \in [1..WordBytes -> Byte] : \E n \in Size : Word[n] = w
    BY WordAssumption DEF Bijection, Injection, Surjection, IsInjective
  <1>2. WordBytes \in Nat /\ WordBytes > 1
    BY WordAssumption
  <1>3. ASSUME NEW n \in Size
        PROVE  Word[n] \in Seq(Byte) /\ Len(Word[n]) = WordBytes /\ Number(Word[n]) = n
    <2>1. Word[n] \in [1..WordBytes -> Byte]
      BY <1>1, <1>3
    <2>2. Word[n] \in Seq(Byte) /\ Len(Word[n]) = WordBytes
      BY <2>1, <1>2
    <2>3. (CHOOSE m \in Size : Word[m] = Word[n]) = n
      BY <1>1, <1>3
    <2> QED
      BY <2>2, <2>3, <1>2 DEF Number
  <1>4. ASSUME NEW s \in Seq(Byte), Len(s) = WordBytes
        PROVE  Number(s) \in Size
    <2>1. s \in [1..WordBytes -> Byte]
      BY <1>4
    <2>2. \E n \in Size : Word[n] = s
      BY <1>1, <2>1
    <2>3. (CHOOSE n \in Size : Word[n] = s) \in Size
      BY <2>2
    <2> QED
      BY <2>3, <1>2, <1>4 DEF Number
  <1>5. ASSUME NEW s \in Seq(Byte), Len(s) = 1
        PROVE  Number(s) \in Byte
    <2>1. s[1] \in Byte
      BY <1>5
    <2> QED
      BY <2>1, <1>5 DEF Number
  <1> QED
    BY <1>3, <1>4, <1>5

(* C sees as much of a string as there is before its first 0.              *)
LEMMA StringInC ==
    ASSUME NEW s \in Seq(Byte)
    PROVE  CString(s) \in Seq(Byte) /\ Len(CString(s)) <= Len(s)
  <1> DEFINE Ends == {n \in 0..Len(s) : n < Len(s) => s[n + 1] = 0}
  <1>1. Ends \in SUBSET Nat /\ Len(s) \in Ends
    OBVIOUS
  <1> HIDE DEF Ends
  <1>2. PICK n \in Ends : \A m \in Ends : n <= m
    BY <1>1, Least
  <1>3. n \in 0..Len(s) /\ (n < Len(s) => s[n + 1] = 0)
    BY <1>2 DEF Ends
  <1>4. ASSUME NEW i \in 1..n
        PROVE  s[i] # 0
    <2>1. i - 1 \in 0..Len(s) /\ i - 1 < n /\ (i - 1) + 1 = i
      BY <1>3, <1>4
    <2>2. i - 1 \notin Ends
      <3> SUFFICES ASSUME i - 1 \in Ends
                   PROVE  FALSE
        OBVIOUS
      <3>1. n <= i - 1 /\ n \in Nat /\ i \in Nat
        BY <1>2, <1>3, <1>4
      <3> QED
        BY ONLY <2>1, <3>1
    <2> QED
      BY <2>1, <2>2 DEF Ends
  <1>5. StrLen(s) \in 0..Len(s)
    BY <1>3, <1>4 DEF StrLen
  <1> QED
    BY <1>5 DEF CString

(* What a program writes has the form its type says.                       *)
LEMMA ValuesAre ==
    ASSUME NEW x \in Value
    PROVE  /\ x = [type |-> x.type, value |-> x.value]
           /\ x.type \in Type /\ x.type.kind \in Kind
           /\ x.type.kind \in {"u8"} => x.value \in Byte
           /\ x.type.kind = "usize" => x.value \in Size
           /\ x.type.kind = "string" => x.value \in Seq(Byte) /\ Len(x.value) \in Size
           /\ x.type.kind = "handle" => x.value \in Handle
           /\ x.type.kind = "vec" => Len(x.value) \in Size
           /\ x.type.kind = "optional" => Len(x.value) \in {0, 1}
           /\ x.type.kind = "struct" => Len(x.value) = Len(x.type.of)
           /\ \A i \in DOMAIN Parts(x) : Parts(x)[i] \in Value
  <1>1. x.type \in Type /\ x.type.kind \in Kind
    BY ValueAssumption, TypeAssumption
  <1>2. x = [type |-> x.type, value |-> x.value] /\ \A i \in DOMAIN Parts(x) : Parts(x)[i] \in Value
    BY ValueAssumption
  <1>3. CASE x.type.kind \in CKind
    <2>1. x.value \in Plain(x.type.kind)
      BY <1>3, ValueAssumption
    <2>2. x.type.kind = "string" => Len(x.value) < Modulus
      BY ValueAssumption
    <2> QED
      BY <1>1, <1>2, <1>3, <2>1, <2>2, WordAssumption DEF CKind, Plain, Size
  <1>4. CASE x.type.kind \notin CKind
    <2>1. /\ Len(x.value) \in Nat
          /\ x.type.kind = "vec" => Len(x.value) < Modulus
          /\ x.type.kind = "optional" => Len(x.value) < 2
          /\ x.type.kind = "struct" => Len(x.value) = Len(x.type.of)
      BY <1>4, ValueAssumption
    <2>2. Len(x.value) \in {0, 1} \/ x.type.kind # "optional"
      <3>1. \A n \in Nat : n < 2 => n \in {0, 1}
        OBVIOUS
      <3> QED
        BY <2>1, <3>1
    <2>3. x.type.kind = "vec" => Len(x.value) \in Size
      BY <2>1, WordAssumption DEF Size
    <2>4. x.type.kind \notin {"u8", "usize", "string", "handle"}
      BY <1>4 DEF CKind
    <2> QED
      BY <1>1, <1>2, <2>1, <2>2, <2>3, <2>4
  <1> QED
    BY <1>3, <1>4

(* What a C program hands over is a value like another.                    *)
LEMMA FromCIsValue ==
    ASSUME NEW x \in Value, x.type.kind \in CKind
    PROVE  FromC(x) \in Value /\ FromC(x).type = x.type
  <1>1. CASE x.type.kind = "string"
    BY <1>1, ValueAssumption DEF FromC
  <1>2. CASE x.type.kind # "string"
    BY <1>2, ValuesAre DEF FromC, InC
  <1> QED
    BY <1>1, <1>2

(* What is left after a call is again made of types, or of values.         *)
LEMMA PartTypesAre ==
    ASSUME NEW t \in Type, NEW n, t.kind = "vec" => n \in Nat
    PROVE  PartTypes(t, n) \in Seq(Type)
  <1>1. t.kind \in Kind /\ t.of \in Seq(Type) /\ (t.kind = "vec" => Len(t.of) = 1)
    BY TypeAssumption
  <1>2. CASE t.kind = "vec"
    <2>1. t.of[1] \in Type
      BY <1>1, <1>2
    <2>2. PartTypes(t, n) = [i \in 1..n |-> t.of[1]]
      BY <1>2 DEF PartTypes
    <2> QED
      BY <2>1, <2>2, <1>2
  <1>3. CASE t.kind = "optional"
    <2>1. PartTypes(t, n) = <<>> \/ PartTypes(t, n) = t.of
      BY <1>3 DEF PartTypes
    <2>2. <<>> \in Seq(Type)
      OBVIOUS
    <2> QED
      BY <1>1, <2>1, <2>2
  <1>4. CASE t.kind \notin {"vec", "optional"}
    <2>1. PartTypes(t, n) = <<>> \/ PartTypes(t, n) = t.of
      BY <1>1, <1>4 DEF PartTypes, Kind
    <2>2. <<>> \in Seq(Type)
      OBVIOUS
    <2> QED
      BY <1>1, <2>1, <2>2
  <1> QED
    BY <1>2, <1>3, <1>4

LEMMA PartsAre ==
    ASSUME NEW x \in Value
    PROVE  /\ Parts(x) \in Seq(Value)
           /\ PartTypes(x.type, Own(x)) \in Seq(Type)
           /\ TypesOf(Parts(x)) = PartTypes(x.type, Own(x))
           /\ x.type.kind \in CKind => Parts(x) = <<>>
  <1>1. x.type \in Type /\ (x.type.kind = "vec" => Own(x) \in Nat)
    BY ValuesAre DEF Own, Size
  <1> DEFINE types == PartTypes(x.type, Own(x))
  <1>2. types \in Seq(Type)
    BY <1>1, PartTypesAre
  <1>3. Parts(x) = [i \in DOMAIN types |-> [type |-> types[i], value |-> x.value[i]]]
    BY DEF Parts
  <1>4. x.type.kind \in CKind => types = <<>>
    BY DEF PartTypes, CKind
  <1> HIDE DEF types
  <1>5. DOMAIN types = 1..Len(types) /\ Len(types) \in Nat
    BY <1>2
  <1>6. DOMAIN Parts(x) = 1..Len(types)
    BY <1>3, <1>5
  <1>7. \A i \in 1..Len(types) : Parts(x)[i] \in Value
    BY <1>6, ValuesAre
  <1>8. Parts(x) \in Seq(Value)
    <2>1. Parts(x) = [i \in 1..Len(types) |-> Parts(x)[i]]
      BY <1>3, <1>5
    <2> QED
      BY <2>1, <1>5, <1>7
  <1>9. TypesOf(Parts(x)) = types
    <2>1. \A i \in DOMAIN types : Parts(x)[i].type = types[i]
      BY <1>3
    <2>2. types = [i \in DOMAIN types |-> types[i]]
      BY <1>2
    <2> QED
      BY <2>1, <2>2, <1>5, <1>6 DEF TypesOf
  <1>10. x.type.kind \in CKind => Parts(x) = <<>>
    <2> SUFFICES ASSUME x.type.kind \in CKind
                 PROVE  Parts(x) = <<>>
      OBVIOUS
    <2>1. Len(types) = 0
      BY <1>4
    <2> QED
      BY <2>1, <1>6, <1>8
  <1> QED
    BY <1>2, <1>8, <1>9, <1>10 DEF types

(* The bytes and the handles of a call.                                    *)
LEMMA BytesAre ==
    ASSUME NEW x \in Value
    PROVE  /\ BytesOf(x) \in Seq(Byte)
           /\ HandlesOf(x.type.kind, Own(x)) \in Seq(Handle)
           /\ Own(x) \in Returned
  <1>1. /\ x.type.kind \in Kind
        /\ x.type.kind \in {"u8", "optional"} => Own(x) \in Byte
        /\ x.type.kind \in {"usize", "vec"} => Own(x) \in Size
        /\ x.type.kind = "string" => Own(x) \in Seq(Byte) /\ Len(Own(x)) \in Size
        /\ x.type.kind = "handle" => Own(x) \in Handle
        /\ x.type.kind = "struct" => Own(x) = 0
    <2>1. /\ x.type.kind \in {"vec", "optional"} => Own(x) = Len(x.value)
          /\ x.type.kind = "struct" => Own(x) = 0
          /\ x.type.kind \notin {"vec", "optional", "struct"} => Own(x) = x.value
      BY DEF Own
    <2>2. {0, 1} \subseteq Byte
      BY WordAssumption DEF Byte
    <2> QED
      BY <2>1, <2>2, ValuesAre
  <1>2. BytesOf(x) \in Seq(Byte)
    <2>1. CASE x.type.kind \in {"u8", "optional"}
      BY <1>1, <2>1 DEF BytesOf, Bytes
    <2>2. CASE x.type.kind \in {"usize", "vec"}
      BY <1>1, <2>2, WordsAre DEF BytesOf, Bytes
    <2>3. CASE x.type.kind = "string"
      <3>1. BytesOf(x) = Word[Len(Own(x))] \o Own(x)
        BY <2>3 DEF BytesOf, Bytes
      <3> QED
        BY <3>1, <1>1, <2>3, WordsAre
    <2>4. CASE x.type.kind \in {"struct", "handle"}
      BY <2>4 DEF BytesOf, Bytes
    <2> QED
      BY <1>1, <2>1, <2>2, <2>3, <2>4 DEF Kind
  <1>3. HandlesOf(x.type.kind, Own(x)) \in Seq(Handle)
    BY <1>1 DEF HandlesOf
  <1>4. Own(x) \in Returned
    BY <1>1 DEF Returned, Kind, Byte, Size
  <1> QED
    BY <1>2, <1>3, <1>4

-----------------------------------------------------------------------------
(* What the C library writes.                                              *)

(* The loop of write_raw finds a capacity that is enough.                  *)
LEMMA GrownIsEnough ==
    ASSUME NEW cap \in Nat, cap > 0, NEW need \in Nat
    PROVE  Grown(cap, need) \in Nat /\ Grown(cap, need) >= need /\ Grown(cap, need) >= cap
  <1> DEFINE Doubles(f, n) == f = [k \in 0..n |-> IF k = 0 THEN cap ELSE 2 * f[k - 1]]
             Bad == {n \in Nat : ~\E f : Doubles(f, n)}
  <1>1. ASSUME NEW n \in Nat, NEW f, Doubles(f, n)
        PROVE  \E g : Doubles(g, n + 1)
    <2> DEFINE g == [k \in 0..n + 1 |-> IF k = n + 1 THEN 2 * f[n] ELSE f[k]]
    <2>1. \A k \in 0..n : f[k] = IF k = 0 THEN cap ELSE 2 * f[k - 1]
      BY <1>1
    <2>2. \A k \in 0..n + 1 : g[k] = IF k = 0 THEN cap ELSE 2 * g[k - 1]
      <3> SUFFICES ASSUME NEW k \in 0..n + 1
                   PROVE  g[k] = IF k = 0 THEN cap ELSE 2 * g[k - 1]
        OBVIOUS
      <3>1. CASE k = n + 1
        <4>1. g[k - 1] = f[n] /\ k # 0 /\ k - 1 = n
          BY <3>1
        <4> QED
          BY <3>1, <4>1
      <3>2. CASE k # n + 1
        <4>1. k \in 0..n /\ g[k] = f[k]
          BY <3>2
        <4>2. k # 0 => k - 1 \in 0..n + 1 /\ k - 1 # n + 1 /\ g[k - 1] = f[k - 1]
          BY <4>1
        <4> QED
          BY <2>1, <4>1, <4>2
      <3> QED
        BY <3>1, <3>2
    <2>3. g = [k \in 0..n + 1 |-> g[k]]
      OBVIOUS
    <2> HIDE DEF g
    <2>4. Doubles(g, n + 1)
      BY <2>2, <2>3
    <2> QED
      BY <2>4
  <1>2. \E f : Doubles(f, 0)
    <2> DEFINE f == [k \in 0..0 |-> cap]
    <2>1. f = [k \in 0..0 |-> IF k = 0 THEN cap ELSE 2 * f[k - 1]]
      OBVIOUS
    <2> QED
      BY <2>1
  <1> HIDE DEF Doubles
  <1>3. Bad \in SUBSET Nat
    OBVIOUS
  <1>4. Bad = {}
    <2> HIDE DEF Bad
    <2> SUFFICES ASSUME Bad # {}
                 PROVE  FALSE
      OBVIOUS
    <2>1. PICK n \in Bad : \A m \in Bad : n <= m
      BY <1>3, Least
    <2>2. n \in Nat /\ n # 0
      BY <1>2, <1>3, <2>1 DEF Bad
    <2>3. n - 1 \in Nat /\ n - 1 < n /\ (n - 1) + 1 = n
      BY <2>2
    <2>4. n - 1 \notin Bad
      <3> SUFFICES ASSUME n - 1 \in Bad
                   PROVE  FALSE
        OBVIOUS
      <3>1. n <= n - 1
        BY <2>1
      <3> QED
        BY ONLY <2>2, <3>1
    <2>5. PICK f : Doubles(f, n - 1)
      BY <2>3, <2>4 DEF Bad
    <2>6. \E g : Doubles(g, n)
      BY <1>1, <2>3, <2>5
    <2> QED
      BY <2>1, <2>6 DEF Bad
  <1>5. need \notin Bad
    BY <1>4
  <1> DEFINE doubled == CHOOSE f : Doubles(f, need)
  <1>6. Doubles(doubled, need)
    BY <1>5 DEF Bad
  <1> HIDE DEF doubled
  <1>7. \A k \in 0..need : doubled[k] = IF k = 0 THEN cap ELSE 2 * doubled[k - 1]
    BY <1>6 DEF Doubles
  <1> DEFINE Low == {k \in 0..need : ~(doubled[k] \in Nat /\ doubled[k] > k /\ doubled[k] >= cap)}
  <1>8. Low \in SUBSET Nat
    OBVIOUS
  <1>9. Low = {}
    <2> HIDE DEF Low
    <2> SUFFICES ASSUME Low # {}
                 PROVE  FALSE
      OBVIOUS
    <2>1. PICK k \in Low : \A m \in Low : k <= m
      BY <1>8, Least
    <2>2. /\ k \in 0..need
          /\ ~(doubled[k] \in Nat /\ doubled[k] > k /\ doubled[k] >= cap)
      BY <2>1 DEF Low
    <2>3. k # 0
      BY <1>7, <2>2
    <2>4. k - 1 \in 0..need /\ k - 1 < k
      BY <2>2, <2>3
    <2>5. k - 1 \notin Low
      <3> SUFFICES ASSUME k - 1 \in Low
                   PROVE  FALSE
        OBVIOUS
      <3>1. k <= k - 1 /\ k \in Nat
        BY <2>1, <2>2
      <3> QED
        BY ONLY <3>1
    <2>6. doubled[k - 1] \in Nat /\ doubled[k - 1] > k - 1 /\ doubled[k - 1] >= cap
      BY <2>4, <2>5 DEF Low
    <2>7. doubled[k] = 2 * doubled[k - 1]
      BY <1>7, <2>2, <2>3
    <2> QED
      BY <2>2, <2>6, <2>7
  <1> DEFINE enough == {k \in 0..need : doubled[k] >= need}
  <1>10. need \in enough /\ enough \in SUBSET Nat
    <2>1. need \in 0..need
      OBVIOUS
    <2>2. doubled[need] \in Nat /\ doubled[need] > need
      BY <1>9, <2>1
    <2> QED
      BY <2>1, <2>2
  <1>11. \A k \in enough : doubled[k] \in Nat /\ doubled[k] >= need /\ doubled[k] >= cap
    BY <1>9
  <1>12. Grown(cap, need) = doubled[CHOOSE k \in enough : \A j \in enough : k <= j]
    BY DEF Grown, doubled, Doubles
  <1> HIDE DEF enough
  <1>13. PICK least \in enough : \A j \in enough : least <= j
    BY <1>10, Least
  <1>14. (CHOOSE k \in enough : \A j \in enough : k <= j) \in enough
    BY <1>13
  <1> QED
    BY <1>11, <1>12, <1>14

(* A buffer of sidl_serializer, with what it holds in its allocation.      *)
IsBuffer(b) ==
    /\ b.data \in Seq(Byte) /\ b.handles \in Seq(Handle)
    /\ b.capacity \in Nat /\ b.fdCapacity \in Nat
    /\ Len(b.data) <= b.capacity /\ WordBytes <= b.capacity
    /\ Len(b.handles) <= b.fdCapacity /\ 0 < b.fdCapacity

(* A write that returns 0 leaves bytes after what was there; one that does *)
(* not leaves the buffer as it was.                                        *)
Puts(b, bytes, d) ==
    /\ IsBuffer(d) /\ d.handles = b.handles
    /\ d.ok => d.data = b.data \o bytes
    /\ ~d.ok => d.data = b.data

(* What grows to a capacity that is enough is in the allocation.           *)
LEMMA AppendedIs ==
    ASSUME NEW b, IsBuffer(b), NEW bytes \in Seq(Byte), NEW cap \in Nat,
           cap >= b.capacity, Len(b.data) + Len(bytes) <= cap
    PROVE  Puts(b, bytes, Appended(b, bytes, cap))
  <1> DEFINE d == Appended(b, bytes, cap)
  <1>1. /\ d.data = b.data \o bytes /\ d.handles = b.handles
        /\ d.capacity = cap /\ d.fdCapacity = b.fdCapacity
    BY DEF Appended, Buffer
  <1>4. d.ok
    BY DEF Appended, Buffer
  <1>2. b.data \o bytes \in Seq(Byte) /\ Len(b.data \o bytes) = Len(b.data) + Len(bytes)
    BY DEF IsBuffer
  <1> HIDE DEF d
  <1>3. IsBuffer(d)
    BY <1>1, <1>2, WordAssumption DEF IsBuffer
  <1> QED
    BY <1>1, <1>3, <1>4 DEF Puts, d

LEMMA FailedIs ==
    ASSUME NEW b, IsBuffer(b), NEW bytes
    PROVE  Puts(b, bytes, Failed(b))
  <1> DEFINE d == Failed(b)
  <1>1. /\ d.data = b.data /\ d.handles = b.handles
        /\ d.capacity = b.capacity /\ d.fdCapacity = b.fdCapacity
    BY DEF Failed, Buffer
  <1>3. ~d.ok
    BY DEF Failed, Buffer
  <1> HIDE DEF d
  <1>2. IsBuffer(d)
    BY <1>1 DEF IsBuffer
  <1> QED
    BY <1>1, <1>2, <1>3 DEF Puts, d

LEMMA TypedPuts ==
    ASSUME NEW b, IsBuffer(b), NEW bytes \in Seq(Byte), Len(bytes) <= WordBytes
    PROVE  \A d \in CWriteTyped(b, bytes) : Puts(b, bytes, d)
  <1>1. Len(b.data) \in Nat /\ Len(bytes) \in Nat /\ b.capacity \in Nat
        /\ Len(b.data) <= b.capacity /\ WordBytes <= b.capacity /\ WordBytes \in Nat
    BY WordAssumption DEF IsBuffer
  <1>2. CASE Room(b, Len(bytes))
    <2>1. Puts(b, bytes, Appended(b, bytes, b.capacity))
      BY <1>1, <1>2, AppendedIs DEF Room
    <2> QED
      BY <1>2, <2>1 DEF CWriteTyped
  <1>3. CASE ~Room(b, Len(bytes))
    <2>1. /\ 2 * b.capacity \in Nat /\ 2 * b.capacity >= b.capacity
          /\ Len(b.data) + Len(bytes) <= 2 * b.capacity
      BY <1>1
    <2>2. Puts(b, bytes, Appended(b, bytes, 2 * b.capacity))
      BY <2>1, AppendedIs
    <2>3. Puts(b, bytes, Failed(b))
      BY FailedIs
    <2> QED
      BY <1>3, <2>2, <2>3 DEF CWriteTyped
  <1> QED
    BY <1>2, <1>3

LEMMA RawPuts ==
    ASSUME NEW b, IsBuffer(b), NEW bytes \in Seq(Byte)
    PROVE  \A d \in CWriteRaw(b, bytes) : Puts(b, bytes, d)
  <1>1. Len(b.data) \in Nat /\ Len(bytes) \in Nat /\ b.capacity \in Nat /\ b.capacity > 0
    BY WordAssumption DEF IsBuffer
  <1>2. CASE Room(b, Len(bytes))
    <2>1. Puts(b, bytes, Appended(b, bytes, b.capacity))
      BY <1>1, <1>2, AppendedIs DEF Room
    <2> QED
      BY <1>2, <2>1 DEF CWriteRaw
  <1>3. CASE ~Room(b, Len(bytes))
    <2> DEFINE cap == Grown(b.capacity, Len(b.data) + Len(bytes))
    <2>1. cap \in Nat /\ cap >= Len(b.data) + Len(bytes) /\ cap >= b.capacity
      <3>1. Len(b.data) + Len(bytes) \in Nat
        BY <1>1
      <3> QED
        BY <1>1, <3>1, GrownIsEnough
    <2> HIDE DEF cap
    <2>2. Puts(b, bytes, Appended(b, bytes, cap))
      BY <1>1, <2>1, AppendedIs
    <2>3. Puts(b, bytes, Failed(b))
      BY FailedIs
    <2> QED
      BY <1>3, <2>2, <2>3 DEF CWriteRaw, cap
  <1> QED
    BY <1>2, <1>3

(* A write of a value leaves all of it there, or less when it fails.       *)
LEMMA CWritesAre ==
    ASSUME NEW b, IsBuffer(b), NEW x \in Value, x.type.kind \in CKind,
           NEW d \in CWrite(b, x)
    PROVE  /\ IsBuffer(d)
           /\ Len(d.data) <= Len(b.data) + Len(BytesOf(x))
           /\ d.ok => /\ d.data = b.data \o BytesOf(x)
                      /\ d.handles = b.handles \o HandlesOf(x.type.kind, Own(x))
  <1> DEFINE bytes == BytesOf(x)
             fds == HandlesOf(x.type.kind, Own(x))
  <1>1. b.data \in Seq(Byte) /\ b.handles \in Seq(Handle) /\ bytes \in Seq(Byte)
    BY BytesAre DEF IsBuffer
  <1>2. Len(b.data) \in Nat /\ Len(bytes) \in Nat
        /\ Len(b.data \o bytes) = Len(b.data) + Len(bytes)
    BY <1>1
  <1>3. b.handles \o <<>> = b.handles
    BY <1>1
  <1>4. Own(x) = x.value
    BY DEF Own, CKind
  <1>5. CASE x.type.kind \in {"u8", "usize"}
    <2>1. d \in CWriteTyped(b, bytes) /\ fds = <<>>
      BY <1>5 DEF CWrite, HandlesOf
    <2>2. Len(bytes) <= WordBytes
      <3>1. WordBytes \in Nat /\ WordBytes > 1
        BY WordAssumption
      <3>2. CASE x.type.kind = "u8"
        <4>1. bytes = <<x.value>>
          BY <1>4, <3>2 DEF BytesOf, Bytes
        <4> QED
          BY <3>1, <4>1
      <3>3. CASE x.type.kind = "usize"
        <4>1. bytes = Word[x.value] /\ x.value \in Size
          BY <1>4, <3>3, ValuesAre DEF BytesOf, Bytes
        <4> QED
          BY <3>1, <4>1, WordsAre
      <3> QED
        BY <1>5, <3>2, <3>3
    <2>3. Puts(b, bytes, d)
      BY <1>1, <2>1, <2>2, TypedPuts
    <2> QED
      BY <1>2, <1>3, <2>1, <2>3 DEF Puts
  <1>6. CASE x.type.kind = "string"
    <2> DEFINE size == Word[Len(x.value)]
    <2>1. x.value \in Seq(Byte) /\ size \in Seq(Byte) /\ Len(size) = WordBytes
      BY <1>6, ValuesAre, WordsAre
    <2>2. bytes = size \o x.value /\ fds = <<>>
      BY <1>4, <1>6 DEF BytesOf, Bytes, HandlesOf
    <2>3. PICK e \in CWriteTyped(b, size) : d \in IF e.ok THEN CWriteRaw(e, x.value) ELSE {e}
      BY <1>6 DEF CWrite, CWriteString
    <2>4. WordBytes \in Nat
      BY WordAssumption
    <2> HIDE DEF size, bytes, fds
    <2>5. Puts(b, size, e)
      BY <2>1, <2>3, <2>4, TypedPuts
    <2>6. Len(bytes) = Len(size) + Len(x.value) /\ Len(size) \in Nat /\ Len(x.value) \in Nat
      BY <2>1, <2>2
    <2>7. CASE e.ok
      <3>1. IsBuffer(e) /\ e.handles = b.handles /\ e.data = b.data \o size
        BY <2>5, <2>7 DEF Puts
      <3>2. Puts(e, x.value, d)
        BY <2>1, <2>3, <2>7, <3>1, RawPuts
      <3>3. (b.data \o size) \o x.value = b.data \o (size \o x.value)
        <4>1. b.data \in Seq(Byte) /\ size \in Seq(Byte) /\ x.value \in Seq(Byte)
          BY <1>1, <2>1
        <4>2. \A s1, s2, s3 \in Seq(Byte) : (s1 \o s2) \o s3 = s1 \o (s2 \o s3)
          BY ConcatAssociative
        <4> QED
          BY ONLY <4>1, <4>2, Zenon
      <3>4. Len(b.data \o size) = Len(b.data) + Len(size)
        BY <1>1, <2>1, ConcatProperties
      <3>5. IsBuffer(d) /\ d.handles = b.handles
        BY <3>1, <3>2 DEF Puts
      <3>6. CASE d.ok
        <4>1. d.data = b.data \o bytes
          BY <2>2, <3>1, <3>2, <3>3, <3>6 DEF Puts
        <4> QED
          BY <1>2, <1>3, <2>2, <3>5, <4>1 DEF bytes, fds
      <3>7. CASE ~d.ok
        <4>1. d.data = b.data \o size
          BY <3>1, <3>2, <3>7 DEF Puts
        <4>2. Len(d.data) = Len(b.data) + Len(size)
          BY <3>4, <4>1
        <4>3. Len(d.data) <= Len(b.data) + Len(bytes)
          BY ONLY <1>2, <2>6, <4>2
        <4> QED
          BY <3>5, <3>7, <4>3 DEF bytes
      <3> QED
        BY <3>6, <3>7
    <2>8. CASE ~e.ok
      <3>1. IsBuffer(d) /\ ~d.ok
        BY <2>3, <2>5, <2>8 DEF Puts
      <3>2. d.data = b.data
        BY <2>3, <2>5, <2>8 DEF Puts
      <3>3. Len(d.data) = Len(b.data)
        BY ONLY <3>2
      <3>4. Len(d.data) <= Len(b.data) + Len(bytes)
        BY ONLY <1>2, <3>3
      <3> QED
        BY <3>1, <3>4 DEF bytes
    <2> QED
      BY <2>7, <2>8
  <1>7. CASE x.type.kind = "handle"
    <2> DEFINE more == Append(b.handles, x.value)
    <2>1. x.value \in Handle /\ fds = <<x.value>> /\ bytes = <<>>
      BY <1>4, <1>7, ValuesAre DEF BytesOf, Bytes, HandlesOf
    <2>2. more \in Seq(Handle) /\ Len(more) = Len(b.handles) + 1 /\ more = b.handles \o <<x.value>>
      <3>1. b.handles \in Seq(Handle) /\ x.value \in Handle
        BY <1>1, <2>1
      <3>2. more \in Seq(Handle) /\ Len(more) = Len(b.handles) + 1
        BY <3>1, AppendProperties
      <3>3. more = b.handles \o <<x.value>>
        BY <3>1, AppendIsConcat
      <3> QED
        BY <3>2, <3>3
    <2>3. b.data \o <<>> = b.data
      BY <1>1
    <2>4. d \in CWriteFd(b, x.value)
      BY <1>7 DEF CWrite
    <2> HIDE DEF more, bytes, fds
    <2>5. \/ d = Buffer(b.data, more, b.capacity, b.fdCapacity, TRUE) /\ Len(b.handles) # b.fdCapacity
          \/ d = Failed(b)
          \/ d = Buffer(b.data, more, b.capacity, 2 * b.fdCapacity, TRUE) /\ Len(b.handles) = b.fdCapacity
      BY <2>4 DEF CWriteFd, more
    <2>6. CASE d = Failed(b)
      <3>1. Puts(b, <<>>, d)
        BY <2>6, FailedIs
      <3>2. ~d.ok
        BY <2>6 DEF Failed, Buffer
      <3>3. IsBuffer(d)
        BY <3>1 DEF Puts
      <3>4. d.data = b.data
        BY <2>6 DEF Failed, Buffer
      <3>5. Len(d.data) <= Len(b.data) + Len(bytes)
        BY <1>2, <3>4
      <3> QED
        BY <3>2, <3>3, <3>5 DEF bytes
    <2>7. CASE \E cap \in Nat : d = Buffer(b.data, more, b.capacity, cap, TRUE) /\ Len(b.handles) + 1 <= cap
      <3>1. PICK cap \in Nat : d = Buffer(b.data, more, b.capacity, cap, TRUE) /\ Len(b.handles) + 1 <= cap
        BY <2>7
      <3>2. /\ d.data = b.data /\ d.handles = more /\ d.capacity = b.capacity
            /\ d.fdCapacity = cap
        BY <3>1 DEF Buffer
      <3>3. Len(d.handles) <= cap /\ 0 < cap
        <4>1. Len(b.handles) \in Nat /\ Len(more) = Len(b.handles) + 1
          BY <1>1, <2>2
        <4>2. Len(b.handles) + 1 <= cap /\ cap \in Nat
          BY <3>1
        <4>3. Len(d.handles) = Len(more)
          BY <3>2
        <4> QED
          BY ONLY <4>1, <4>2, <4>3
      <3>4. IsBuffer(d)
        BY <2>2, <3>2, <3>3 DEF IsBuffer
      <3> QED
        BY <1>2, <2>1, <2>2, <2>3, <3>2, <3>4 DEF bytes, fds
    <2>8. /\ b.fdCapacity \in Nat /\ 2 * b.fdCapacity \in Nat
          /\ Len(b.handles) # b.fdCapacity => Len(b.handles) + 1 <= b.fdCapacity
          /\ Len(b.handles) = b.fdCapacity => Len(b.handles) + 1 <= 2 * b.fdCapacity
      BY DEF IsBuffer
    <2> QED
      BY <2>5, <2>6, <2>7, <2>8
  <1> QED
    BY <1>5, <1>6, <1>7 DEF CKind

-----------------------------------------------------------------------------
(* What the readers read, in the payload as it is.                         *)

InPayload(at) == at \in Position /\ at.index <= Len(data) /\ at.handle <= Len(handles)

LEMMA PayloadIs ==
    ASSUME TypeInv
    PROVE  /\ data \in Seq(Byte) /\ Len(data) \in Nat /\ Len(data) <= MaxPayload
           /\ handles \in Seq(Handle) /\ Len(handles) \in Nat
  <1>1. data \in Seq(Byte) /\ Len(data) <= MaxPayload /\ handles \in Seq(Handle)
    BY DEF TypeInv
  <1> QED
    BY ONLY <1>1

(* The bounds check is exact for what fits a size_t with the index, and    *)
(* what wraps around is told by the sum.                                   *)
LEMMA FitsWhen ==
    ASSUME TypeInv, NEW at, InPayload(at), NEW n \in Size
    PROVE  Fits(at, n) /\ at.index + n < Modulus <=> at.index + n <= Len(data)
  <1>1. /\ Len(data) \in Nat /\ Len(data) < Modulus /\ Modulus \in Nat
        /\ at.index \in Nat /\ at.index <= Len(data) /\ n \in Nat
    BY PayloadIs, WordAssumption, PayloadAssumption DEF InPayload, Position, Size
  <1> QED
    BY <1>1 DEF Fits, Sum

LEMMA NumberFits ==
    ASSUME TypeInv, NEW at, InPayload(at), NEW n \in {1, WordBytes}
    PROVE  /\ n \in Size
           /\ Fits(at, n) <=> at.index + n <= Len(data)
           /\ at.index + n < Modulus
  <1>1. n \in Nat /\ n <= WordBytes /\ WordBytes \in Nat
    BY WordAssumption
  <1>2. /\ Len(data) \in Nat /\ Len(data) + WordBytes < Modulus /\ Modulus \in Nat
        /\ at.index \in Nat /\ at.index <= Len(data)
    <2>1. Len(data) \in Nat /\ Len(data) <= MaxPayload
      BY PayloadIs
    <2> QED
      BY <2>1, <1>1, WordAssumption, PayloadAssumption DEF InPayload, Position
  <1>3. n \in Size /\ at.index + n < Modulus
    BY <1>1, <1>2 DEF Size
  <1> QED
    BY <1>3, FitsWhen

(* What a read of fitting bytes takes.                                     *)
LEMMA BytesRead ==
    ASSUME TypeInv, NEW at, InPayload(at), NEW n \in Nat, at.index + n <= Len(data)
    PROVE  /\ Bytewise(at, n) \in Seq(Byte) /\ Len(Bytewise(at, n)) = n
           /\ \A i \in 1..n : Bytewise(at, n)[i] = data[at.index + i]
           /\ InPayload(Advanced(at, n))
           /\ Advanced(at, n).index = at.index + n
           /\ Advanced(at, n).handle = at.handle
  <1>1. data \in Seq(Byte) /\ at.index \in Nat /\ at.handle \in Nat /\ at.handle <= Len(handles)
    BY PayloadIs DEF InPayload, Position
  <1>2. /\ Bytewise(at, n) = SubSeq(data, at.index + 1, at.index + n)
        /\ Len(data) \in Nat
    BY <1>1 DEF Bytewise
  <1> DEFINE m == at.index + 1
             last == at.index + n
  <1>3. ASSUME NEW k \in Nat, NEW l \in Nat, k + n <= l
        PROVE  /\ k + 1 \in Int /\ k + n \in Int /\ (k + n) - (k + 1) + 1 = n
               /\ \A i \in (k + 1)..(k + n) : i \in 1..l
               /\ \A i \in 1..n : (k + 1) + i - 1 = k + i
               /\ (IF k + 1 <= k + n THEN (k + n) - (k + 1) + 1 ELSE 0) = n
    BY ONLY <1>3, n \in Nat
  <1>4. /\ m \in Int /\ last \in Int /\ last - m + 1 = n
        /\ \A i \in m..last : i \in 1..Len(data)
        /\ \A i \in 1..n : m + i - 1 = at.index + i
        /\ (IF m <= last THEN last - m + 1 ELSE 0) = n
    BY <1>1, <1>2, <1>3
  <1>5. \A i \in m..last : data[i] \in Byte
    BY <1>1, <1>4
  <1> HIDE DEF m, last
  <1>6. /\ SubSeq(data, m, last) \in Seq(Byte)
        /\ Len(SubSeq(data, m, last)) = IF m <= last THEN last - m + 1 ELSE 0
        /\ \A i \in 1..last - m + 1 : SubSeq(data, m, last)[i] = data[m + i - 1]
    BY <1>4, <1>5, SubSeqProperties
  <1>7. /\ Bytewise(at, n) \in Seq(Byte) /\ Len(Bytewise(at, n)) = n
        /\ \A i \in 1..n : Bytewise(at, n)[i] = data[at.index + i]
    BY <1>2, <1>4, <1>6 DEF m, last
  <1>8. /\ Advanced(at, n).index = at.index + n /\ Advanced(at, n).handle = at.handle
        /\ Advanced(at, n) \in Position
    BY <1>1 DEF Advanced, Position
  <1> QED
    BY <1>1, <1>7, <1>8 DEF InPayload

LEMMA ResultIs ==
    ASSUME NEW outcome, NEW at, NEW value
    PROVE  /\ Result(outcome, at, value).outcome = outcome
           /\ Result(outcome, at, value).at = at
           /\ Result(outcome, at, value).value = value
           /\ Result(outcome, at, value) \in [outcome : {outcome}, at : {at}, value : {value}]
  BY DEF Result

LEMMA ResultsAre ==
    ASSUME NEW outcome \in {"ok", "failed", "threw", "overran", "unknown"},
           NEW at \in Position, NEW value \in Returned
    PROVE  Result(outcome, at, value) \in Results
  BY DEF Result, Results

(* A read that ends in the payload.                                        *)
IsRead(r) == r \in Results /\ InPayload(r.at)

LEMMA NumberRead ==
    ASSUME TypeInv, NEW at, InPayload(at), NEW n \in {1, WordBytes}
    PROVE  LET r == ReadNumber(at, n) IN
           /\ IsRead(r)
           /\ r.outcome = "ok" <=> at.index + n <= Len(data)
           /\ r.outcome = "ok" => /\ r.at = Advanced(at, n)
                                  /\ r.value = Number(Bytewise(at, n))
                                  /\ r.value \in Nat
                                  /\ n = WordBytes => r.value \in Size
  <1> DEFINE r == ReadNumber(at, n)
  <1>1. n \in Nat /\ n \in Size
    BY NumberFits, WordAssumption
  <1>2. CASE at.index + n <= Len(data)
    <2>1. r = Result("ok", Advanced(at, n), Number(Bytewise(at, n)))
      BY <1>2, NumberFits DEF ReadNumber
    <2>2. /\ Bytewise(at, n) \in Seq(Byte) /\ Len(Bytewise(at, n)) = n
          /\ InPayload(Advanced(at, n))
      BY <1>1, <1>2, BytesRead
    <2>3. /\ n = WordBytes => Number(Bytewise(at, n)) \in Size
          /\ n = 1 => Number(Bytewise(at, n)) \in Byte
      BY <2>2, WordsAre
    <2>4. Number(Bytewise(at, n)) \in Nat
      BY <2>3 DEF Size, Byte
    <2>5. r \in Results
      BY <2>1, <2>2, <2>4, ResultsAre DEF InPayload, Returned
    <2>6. r.outcome = "ok" /\ r.at = Advanced(at, n) /\ r.value = Number(Bytewise(at, n))
      BY <2>1, ResultIs
    <2> HIDE DEF r
    <2> QED
      BY <1>2, <2>2, <2>3, <2>4, <2>5, <2>6 DEF IsRead, r
  <1>3. CASE ~(at.index + n <= Len(data))
    <2>1. r = Result("failed", Invalidated(at, n), 0)
      BY <1>3, NumberFits DEF ReadNumber
    <2>2. InPayload(Invalidated(at, n))
      <3>1. Len(data) \in Nat /\ at.handle \in Nat /\ at.handle <= Len(handles)
        BY PayloadIs DEF InPayload, Position
      <3> QED
        BY <3>1 DEF Invalidated, InPayload, Position
    <2>3. r \in Results
      BY <2>1, <2>2, ResultsAre DEF InPayload, Returned
    <2>4. r.outcome = "failed" /\ r.at = Invalidated(at, n)
      BY <2>1, ResultIs
    <2> HIDE DEF r
    <2> QED
      BY <1>3, <2>2, <2>3, <2>4 DEF IsRead, r
  <1> QED
    BY <1>2, <1>3

LEMMA CharsRead ==
    ASSUME TypeInv, NEW at, InPayload(at), NEW n \in Size
    PROVE  LET r == ReadChars(at, n)
               s == CReadRaw(at, n)
           IN
           /\ IsRead(r) /\ IsRead(s)
           /\ r.outcome = "ok" <=> at.index + n <= Len(data)
           /\ s.outcome = "ok" <=> at.index + n <= Len(data)
           /\ r.outcome = "ok" => /\ r = s /\ r.at = Advanced(at, n)
                                  /\ r.value = Bytewise(at, n)
  <1> DEFINE r == ReadChars(at, n)
             s == CReadRaw(at, n)
  <1>1. Fits(at, n) /\ at.index + n < Modulus <=> at.index + n <= Len(data)
    BY FitsWhen
  <1>2. /\ at.index + n >= Modulus <=> ~(at.index + n < Modulus)
        /\ n \in Nat
    BY WordAssumption DEF InPayload, Position, Size
  <1>3. CASE at.index + n <= Len(data)
    <2>1. /\ r = Result("ok", Advanced(at, n), Bytewise(at, n))
          /\ s = Result("ok", Advanced(at, n), Bytewise(at, n))
      BY <1>1, <1>2, <1>3 DEF ReadChars, CReadRaw
    <2>2. Bytewise(at, n) \in Seq(Byte) /\ InPayload(Advanced(at, n))
      BY <1>2, <1>3, BytesRead
    <2>3. r \in Results
      BY <2>1, <2>2, ResultsAre DEF InPayload, Returned
    <2>4. r.outcome = "ok" /\ r.at = Advanced(at, n) /\ r.value = Bytewise(at, n) /\ s = r
      BY <2>1, ResultIs
    <2> HIDE DEF r, s
    <2> QED
      BY <1>3, <2>2, <2>3, <2>4 DEF IsRead, r, s
  <1>4. CASE ~(at.index + n <= Len(data))
    <2>1. /\ r = Result("failed", at, 0) \/ r = Result("threw", at, 0)
          /\ s = Result("failed", at, 0) \/ s = Result("overran", at, 0)
      BY <1>1, <1>2, <1>4 DEF ReadChars, CReadRaw
    <2>2. at \in Position
      BY DEF InPayload
    <2>3. r \in Results /\ s \in Results
      BY <2>1, <2>2, ResultsAre DEF Returned
    <2>4. r.outcome # "ok" /\ r.at = at /\ s.outcome # "ok" /\ s.at = at
      BY <2>1, ResultIs
    <2> HIDE DEF r, s
    <2> QED
      BY <1>4, <2>3, <2>4 DEF IsRead, r, s
  <1> QED
    BY <1>3, <1>4

LEMMA CNumberRead ==
    ASSUME TypeInv, NEW at, InPayload(at), NEW n \in {1, WordBytes}
    PROVE  LET r == ReadNumber(at, n)
               s == CReadNumber(at, n)
           IN
           /\ IsRead(s)
           /\ r.outcome = "ok" <=> s.outcome = "ok"
           /\ r.outcome = "ok" => r.at = s.at /\ r.value = s.value
  <1> DEFINE r == ReadNumber(at, n)
             s == CReadNumber(at, n)
             raw == CReadRaw(at, n)
  <1>1. n \in Size
    BY NumberFits
  <1>2. /\ IsRead(r)
        /\ r.outcome = "ok" <=> at.index + n <= Len(data)
        /\ r.outcome = "ok" => /\ r.at = Advanced(at, n)
                               /\ r.value = Number(Bytewise(at, n))
                               /\ r.value \in Nat
    BY NumberRead
  <1>3. /\ IsRead(raw)
        /\ raw.outcome = "ok" <=> at.index + n <= Len(data)
        /\ raw.outcome = "ok" => raw.at = Advanced(at, n) /\ raw.value = Bytewise(at, n)
    BY <1>1, CharsRead
  <1> HIDE DEF r, raw
  <1>4. CASE raw.outcome = "ok"
    <2>1. s = Result("ok", raw.at, Number(raw.value))
      BY <1>4 DEF CReadNumber, raw
    <2>2. r.outcome = "ok" /\ raw.at = r.at /\ Number(raw.value) = r.value
      BY <1>2, <1>3, <1>4
    <2>3. s \in Results
      BY <1>2, <2>1, <2>2, ResultsAre DEF IsRead, InPayload, Returned
    <2>4. s.outcome = "ok" /\ s.at = r.at /\ s.value = r.value
      BY <2>1, <2>2, ResultIs
    <2> HIDE DEF s
    <2> QED
      BY <1>2, <2>2, <2>3, <2>4 DEF IsRead, r, s
  <1>5. CASE raw.outcome # "ok"
    <2>1. s = raw
      BY <1>5 DEF CReadNumber, raw
    <2>2. r.outcome # "ok"
      BY <1>2, <1>3, <1>5
    <2> HIDE DEF s
    <2> QED
      BY <1>3, <1>5, <2>1, <2>2 DEF r, s
  <1> QED
    BY <1>4, <1>5

(* A string is its size and, when that was read, its characters.           *)
LEMMA StringRead ==
    ASSUME TypeInv, NEW at, InPayload(at)
    PROVE  LET r == ReadString(at)
               s == CReadString(at)
           IN
           /\ IsRead(r) /\ IsRead(s)
           /\ r.outcome = "ok" <=> s.outcome = "ok"
           /\ r.outcome = "ok" => r = s
  <1> DEFINE r == ReadString(at)
             s == CReadString(at)
             size == ReadNumber(at, WordBytes)
             raw == CReadRaw(at, WordBytes)
             csize == CReadNumber(at, WordBytes)
  <1>1. /\ IsRead(size)
        /\ size.outcome = "ok" <=> at.index + WordBytes <= Len(data)
        /\ size.outcome = "ok" => /\ size.at = Advanced(at, WordBytes)
                                  /\ size.value = Number(Bytewise(at, WordBytes))
                                  /\ size.value \in Size
    BY NumberRead
  <1>2. /\ IsRead(csize)
        /\ csize.outcome = "ok" <=> size.outcome = "ok"
        /\ csize.outcome = "ok" => csize.at = size.at /\ csize.value = size.value
    BY CNumberRead
  <1> HIDE DEF size, csize
  <1>3. CASE size.outcome = "ok"
    <2>1. InPayload(size.at) /\ size.value \in Size
      BY <1>1, <1>3 DEF IsRead
    <2>2. r = ReadChars(size.at, size.value) /\ s = CReadRaw(size.at, size.value)
      BY <1>2, <1>3 DEF ReadString, CReadString, size, csize
    <2> HIDE DEF r, s
    <2>3. /\ IsRead(r) /\ IsRead(s)
          /\ r.outcome = "ok" <=> size.at.index + size.value <= Len(data)
          /\ s.outcome = "ok" <=> size.at.index + size.value <= Len(data)
          /\ r.outcome = "ok" => r = s
      BY <2>1, <2>2, CharsRead
    <2> QED
      BY <2>3 DEF r, s
  <1>4. CASE size.outcome # "ok"
    <2>1. r = size /\ s = csize
      BY <1>2, <1>4 DEF ReadString, CReadString, size, csize
    <2> QED
      BY <1>1, <1>2, <1>4, <2>1
  <1> QED
    BY <1>3, <1>4

(* Handles are read in order, while there are any.                         *)
LEMMA HandleRead ==
    ASSUME TypeInv, NEW at, InPayload(at)
    PROVE  LET r == ReadHandle(at) IN
           /\ IsRead(r)
           /\ at.handle < Len(handles) =>
                /\ r.outcome = "ok" /\ r.value = handles[at.handle + 1]
                /\ r.at = [index |-> at.index, handle |-> at.handle + 1]
  <1> DEFINE r == ReadHandle(at)
  <1>1. /\ at.index \in Nat /\ at.index <= Len(data) /\ at.handle \in Nat
        /\ at.handle <= Len(handles) /\ Len(handles) \in Nat /\ at \in Position
    BY PayloadIs DEF InPayload, Position
  <1>2. CASE at.handle < Len(handles)
    <2> DEFINE next == [index |-> at.index, handle |-> at.handle + 1]
    <2>1. r = Result("ok", next, handles[at.handle + 1])
      BY <1>2 DEF ReadHandle
    <2>2. at.handle + 1 \in 1..Len(handles)
      BY <1>1, <1>2
    <2>3. handles[at.handle + 1] \in Handle
      BY <2>2, PayloadIs
    <2>4. InPayload(next)
      BY <1>1, <2>2 DEF InPayload, Position
    <2> HIDE DEF next
    <2>5. r \in Results
      BY <2>1, <2>3, <2>4, ResultsAre DEF InPayload, Returned
    <2>6. r.outcome = "ok" /\ r.at = next /\ r.value = handles[at.handle + 1]
      BY <2>1, ResultIs
    <2> HIDE DEF r
    <2> QED
      BY <2>4, <2>5, <2>6 DEF IsRead, r, next
  <1>3. CASE ~(at.handle < Len(handles))
    <2>1. r = Result("failed", at, 0)
      BY <1>3 DEF ReadHandle
    <2>2. r \in Results
      BY <1>1, <2>1, ResultsAre DEF Returned
    <2>3. r.at = at
      BY <2>1, ResultIs
    <2> HIDE DEF r
    <2> QED
      BY <1>3, <2>2, <2>3 DEF IsRead, r
  <1> QED
    BY <1>2, <1>3

(* Whatever a C++ reader is asked for, it stays in the payload.            *)
LEMMA ReadIs ==
    ASSUME TypeInv, NEW at, InPayload(at), NEW kind \in Kind
    PROVE  LET r == Unserialize(kind, at) IN
           /\ IsRead(r)
           /\ kind = "vec" /\ r.outcome = "ok" => r.value \in Nat
  <1>1. CASE kind \in {"u8", "optional"}
    <2>1. Unserialize(kind, at) = ReadNumber(at, 1)
      BY <1>1 DEF Unserialize
    <2> QED
      BY <1>1, <2>1, NumberRead
  <1>2. CASE kind \in {"usize", "vec"}
    <2>1. Unserialize(kind, at) = ReadNumber(at, WordBytes)
      BY <1>2 DEF Unserialize
    <2> QED
      BY <2>1, NumberRead
  <1>3. CASE kind = "string"
    <2>1. Unserialize(kind, at) = ReadString(at)
      BY <1>3 DEF Unserialize
    <2> QED
      BY <1>3, <2>1, StringRead
  <1>4. CASE kind = "struct"
    <2>1. Unserialize(kind, at) = Result("ok", at, 0)
      BY <1>4 DEF Unserialize
    <2>2. Result("ok", at, 0) \in Results
      BY ResultsAre DEF InPayload, Returned
    <2> QED
      BY <1>4, <2>1, <2>2, ResultIs DEF IsRead
  <1>5. CASE kind = "handle"
    <2>1. Unserialize(kind, at) = ReadHandle(at)
      BY <1>5 DEF Unserialize
    <2> QED
      BY <1>5, <2>1, HandleRead
  <1> QED
    BY <1>1, <1>2, <1>3, <1>4, <1>5 DEF Kind

(* The C reader stays in the payload too, and reads what the C++ reader    *)
(* reads from the same place.                                              *)
LEMMA CReadIs ==
    ASSUME TypeInv, NEW at, InPayload(at), NEW kind \in Kind
    PROVE  LET r == Unserialize(kind, at)
               s == CRead(kind, at)
           IN
           /\ IsRead(s)
           /\ kind \in CKind => (r.outcome = "ok" <=> s.outcome = "ok")
           /\ kind \in CKind /\ r.outcome = "ok" => r.at = s.at /\ r.value = s.value
  <1>1. CASE kind = "u8"
    <2>1. Unserialize(kind, at) = ReadNumber(at, 1) /\ CRead(kind, at) = CReadNumber(at, 1)
      BY <1>1 DEF Unserialize, CRead
    <2> QED
      BY <2>1, CNumberRead
  <1>2. CASE kind = "usize"
    <2>1. /\ Unserialize(kind, at) = ReadNumber(at, WordBytes)
          /\ CRead(kind, at) = CReadNumber(at, WordBytes)
      BY <1>2 DEF Unserialize, CRead
    <2> QED
      BY <2>1, CNumberRead
  <1>3. CASE kind = "string"
    <2>1. Unserialize(kind, at) = ReadString(at) /\ CRead(kind, at) = CReadString(at)
      BY <1>3 DEF Unserialize, CRead
    <2> QED
      BY <2>1, StringRead
  <1>4. CASE kind = "handle"
    <2>1. Unserialize(kind, at) = ReadHandle(at) /\ CRead(kind, at) = ReadHandle(at)
      BY <1>4 DEF Unserialize, CRead
    <2> QED
      BY <2>1, HandleRead
  <1>5. CASE kind \notin CKind
    <2>1. CRead(kind, at) = Result("unknown", at, 0)
      BY <1>5 DEF CRead, CKind
    <2>2. Result("unknown", at, 0) \in Results
      BY ResultsAre DEF InPayload, Returned
    <2> QED
      BY <1>5, <2>1, <2>2, ResultIs DEF IsRead
  <1> QED
    BY <1>1, <1>2, <1>3, <1>4, <1>5 DEF CKind

(* What was written is read.                                               *)
LEMMA PieceRead ==
    ASSUME TypeInv, NEW at, InPayload(at), NEW bytes \in Seq(Byte),
           at.index + Len(bytes) <= Len(data),
           \A i \in 1..Len(bytes) : data[at.index + i] = bytes[i]
    PROVE  Bytewise(at, Len(bytes)) = bytes
  <1> DEFINE read == Bytewise(at, Len(bytes))
  <1>1. Len(bytes) \in Nat
    OBVIOUS
  <1>2. /\ read \in Seq(Byte) /\ Len(read) = Len(bytes)
        /\ \A i \in 1..Len(bytes) : read[i] = data[at.index + i]
    BY <1>1, BytesRead
  <1> HIDE DEF read
  <1>3. \A i \in 1..Len(read) : read[i] = bytes[i]
    BY <1>2
  <1> QED
    BY <1>2, <1>3, SeqEqual DEF read

LEMMA NumberReadBack ==
    ASSUME TypeInv, NEW at, InPayload(at), NEW bytes \in Seq(Byte),
           Len(bytes) \in {1, WordBytes}, at.index + Len(bytes) <= Len(data),
           \A i \in 1..Len(bytes) : data[at.index + i] = bytes[i]
    PROVE  /\ ReadNumber(at, Len(bytes)) = Result("ok", Advanced(at, Len(bytes)), Number(bytes))
           /\ InPayload(Advanced(at, Len(bytes)))
           /\ Advanced(at, Len(bytes)).index = at.index + Len(bytes)
           /\ Advanced(at, Len(bytes)).handle = at.handle
  <1>1. Bytewise(at, Len(bytes)) = bytes
    BY PieceRead
  <1>2. Fits(at, Len(bytes))
    BY NumberFits
  <1>3. Len(bytes) \in Nat
    OBVIOUS
  <1> QED
    BY <1>1, <1>2, <1>3, BytesRead DEF ReadNumber

LEMMA PositionsEqual ==
    ASSUME NEW p \in Position, NEW q \in Position, p.index = q.index, p.handle = q.handle
    PROVE  p = q
  BY DEF Position

LEMMA ReadBack ==
    ASSUME TypeInv, NEW x \in Value, NEW begin, NEW end \in Position,
           InPayload(begin), IsAt(x, begin, end)
    PROVE  Unserialize(x.type.kind, begin) = Result("ok", end, Own(x))
  <1> DEFINE bytes == BytesOf(x)
             fds == HandlesOf(x.type.kind, Own(x))
  <1>1. /\ bytes \in Seq(Byte)
        /\ end.index = begin.index + Len(bytes) /\ end.index <= Len(data)
        /\ \A i \in DOMAIN bytes : data[begin.index + i] = bytes[i]
    BY BytesAre DEF IsAt
  <1>2. /\ fds \in Seq(Handle)
        /\ end.handle = begin.handle + Len(fds) /\ end.handle <= Len(handles)
        /\ \A i \in DOMAIN fds : handles[begin.handle + i] = fds[i]
    BY BytesAre DEF IsAt
  <1>3. DOMAIN bytes = 1..Len(bytes) /\ Len(bytes) \in Nat
    BY <1>1
  <1>4. begin \in Position /\ begin.index \in Nat /\ begin.handle \in Nat
    BY DEF InPayload, Position
  <1>5. x.type.kind # "handle" => fds = <<>> /\ end.handle = begin.handle
    BY <1>2, <1>4 DEF HandlesOf
  <1>6. \A at \in Position : at.index = end.index /\ at.handle = end.handle => at = end
    BY PositionsEqual
  <1>7. ASSUME Len(bytes) \in {1, WordBytes}, x.type.kind # "handle", Number(bytes) = Own(x)
        PROVE  ReadNumber(begin, Len(bytes)) = Result("ok", end, Own(x))
    <2>1. /\ ReadNumber(begin, Len(bytes)) = Result("ok", Advanced(begin, Len(bytes)), Number(bytes))
          /\ Advanced(begin, Len(bytes)) \in Position
          /\ Advanced(begin, Len(bytes)).index = begin.index + Len(bytes)
          /\ Advanced(begin, Len(bytes)).handle = begin.handle
      BY <1>1, <1>3, <1>7, NumberReadBack DEF InPayload
    <2>2. Advanced(begin, Len(bytes)) = end
      BY <1>1, <1>5, <1>6, <1>7, <2>1
    <2> QED
      BY <1>7, <2>1, <2>2
  <1>8. CASE x.type.kind \in {"u8", "optional"}
    <2>1. bytes = <<Own(x)>>
      BY <1>8 DEF BytesOf, Bytes
    <2>2. Len(bytes) = 1 /\ Number(bytes) = Own(x)
      BY <2>1 DEF Number
    <2>3. ReadNumber(begin, 1) = Result("ok", end, Own(x))
      BY <1>7, <1>8, <2>2
    <2> QED
      BY <1>8, <2>3 DEF Unserialize
  <1>9. CASE x.type.kind \in {"usize", "vec"}
    <2>1. Own(x) \in Size
      BY <1>9, ValuesAre DEF Own
    <2>2. bytes = Word[Own(x)]
      BY <1>9 DEF BytesOf, Bytes
    <2>3. Len(bytes) = WordBytes /\ Number(bytes) = Own(x)
      BY <2>1, <2>2, WordsAre
    <2>4. ReadNumber(begin, WordBytes) = Result("ok", end, Own(x))
      BY <1>7, <1>9, <2>3
    <2> QED
      BY <1>9, <2>4 DEF Unserialize
  <1>10. CASE x.type.kind = "string"
    <2> DEFINE word == Word[Len(x.value)]
               mid == Advanced(begin, WordBytes)
    <2>1. x.value \in Seq(Byte) /\ Len(x.value) \in Size /\ Own(x) = x.value
      BY <1>10, ValuesAre DEF Own
    <2>2. word \in Seq(Byte) /\ Len(word) = WordBytes /\ Number(word) = Len(x.value)
      BY <2>1, WordsAre
    <2>3. bytes = word \o x.value
      BY <1>10, <2>1 DEF BytesOf, Bytes
    <2>4. WordBytes \in Nat /\ Len(x.value) \in Nat
      BY <2>1, WordAssumption DEF Size
    <2> HIDE DEF word, bytes
    <2>5. /\ Len(bytes) = WordBytes + Len(x.value)
          /\ \A i \in 1..WordBytes : bytes[i] = word[i]
          /\ \A i \in 1..Len(x.value) : bytes[WordBytes + i] = x.value[i]
      <3>1. /\ Len(bytes) = Len(word) + Len(x.value)
            /\ \A i \in 1..Len(word) + Len(x.value) :
                 bytes[i] = IF i <= Len(word) THEN word[i] ELSE x.value[i - Len(word)]
        BY <2>1, <2>2, <2>3, ConcatProperties
      <3>2. ASSUME NEW i \in 1..WordBytes
            PROVE  bytes[i] = word[i]
        <4>1. i \in 1..Len(word) + Len(x.value) /\ i <= Len(word)
          BY <2>2, <2>4
        <4> QED
          BY <3>1, <4>1
      <3>3. ASSUME NEW i \in 1..Len(x.value)
            PROVE  bytes[WordBytes + i] = x.value[i]
        <4>1. /\ WordBytes + i \in 1..Len(word) + Len(x.value) /\ ~(WordBytes + i <= Len(word))
              /\ (WordBytes + i) - Len(word) = i
          BY <2>2, <2>4
        <4> QED
          BY <3>1, <4>1
      <3> QED
        BY <2>2, <3>1, <3>2, <3>3
    <2>6. begin.index + WordBytes <= Len(data) /\ Len(data) \in Nat
      <3>1. Len(data) \in Nat
        BY PayloadIs
      <3> QED
        BY <1>1, <1>4, <2>4, <2>5, <3>1
    <2>7. ASSUME NEW i \in 1..Len(word)
          PROVE  data[begin.index + i] = word[i]
      <3>1. i \in 1..Len(bytes) /\ i \in 1..WordBytes
        BY <2>2, <2>4, <2>5
      <3> QED
        BY <1>1, <1>3, <2>5, <3>1
    <2>8. /\ ReadNumber(begin, WordBytes) = Result("ok", mid, Len(x.value))
          /\ InPayload(mid) /\ mid.index = begin.index + WordBytes /\ mid.handle = begin.handle
      BY <2>2, <2>6, <2>7, NumberReadBack
    <2> HIDE DEF mid
    <2>9. mid.index + Len(x.value) = end.index /\ mid.index + Len(x.value) <= Len(data)
      BY <1>1, <1>4, <2>4, <2>5, <2>8
    <2>10. ASSUME NEW i \in 1..Len(x.value)
           PROVE  data[mid.index + i] = x.value[i]
      <3>1. WordBytes + i \in 1..Len(bytes) /\ begin.index + (WordBytes + i) = mid.index + i
        BY <1>4, <2>4, <2>5, <2>8
      <3> QED
        BY <1>1, <1>3, <2>5, <3>1
    <2>11. Bytewise(mid, Len(x.value)) = x.value
      BY <2>1, <2>8, <2>9, <2>10, PieceRead
    <2>12. Fits(mid, Len(x.value)) /\ mid.index + Len(x.value) < Modulus
      BY <2>1, <2>8, <2>9, FitsWhen
    <2>13. Advanced(mid, Len(x.value)) = end
      <3>1. /\ InPayload(Advanced(mid, Len(x.value)))
            /\ Advanced(mid, Len(x.value)).index = mid.index + Len(x.value)
            /\ Advanced(mid, Len(x.value)).handle = mid.handle
        BY <2>4, <2>8, <2>9, BytesRead
      <3> QED
        BY <1>5, <1>6, <1>10, <2>8, <2>9, <3>1 DEF InPayload
    <2>14. ReadChars(mid, Len(x.value)) = Result("ok", end, x.value)
      <3>1. ~(mid.index + Len(x.value) >= Modulus)
        BY <2>4, <2>8, <2>12, WordAssumption DEF InPayload, Position
      <3> QED
        BY <2>11, <2>12, <2>13, <3>1 DEF ReadChars
    <2>15. ReadString(begin) = ReadChars(mid, Len(x.value))
      BY <2>8, ResultIs DEF ReadString
    <2> QED
      BY <1>10, <2>1, <2>14, <2>15 DEF Unserialize
  <1>11. CASE x.type.kind = "struct"
    <2>1. bytes = <<>> /\ Own(x) = 0
      BY <1>11 DEF BytesOf, Bytes, Own
    <2>2. begin = end
      BY <1>1, <1>4, <1>5, <1>6, <1>11, <2>1
    <2> QED
      BY <1>11, <2>1, <2>2 DEF Unserialize
  <1>12. CASE x.type.kind = "handle"
    <2>1. bytes = <<>> /\ fds = <<Own(x)>>
      BY <1>12 DEF BytesOf, Bytes, HandlesOf
    <2>2. /\ end.handle = begin.handle + 1 /\ end.handle <= Len(handles)
          /\ handles[begin.handle + 1] = Own(x) /\ end.index = begin.index
      BY <1>1, <1>2, <1>4, <2>1
    <2>3. begin.handle < Len(handles)
      BY <1>4, <2>2, PayloadIs
    <2>4. [index |-> begin.index, handle |-> begin.handle + 1] = end
      <3>1. [index |-> begin.index, handle |-> begin.handle + 1] \in Position
        BY <1>4 DEF Position
      <3> QED
        BY <1>6, <2>2, <3>1
    <2> QED
      BY <1>12, <2>2, <2>3, <2>4 DEF Unserialize, ReadHandle
  <1>13. x.type.kind \in Kind
    BY ValuesAre
  <1> QED
    BY <1>8, <1>9, <1>10, <1>11, <1>12, <1>13 DEF Kind

-----------------------------------------------------------------------------
(* The invariant holds from the start and is kept by every step.           *)

LEMMA InitInv == Init => SerialInv
  <1> SUFFICES ASSUME Init
               PROVE  SerialInv
    OBVIOUS
  <1>1. /\ stage = "write" /\ writer \in {"cpp", "c"}
        /\ data = <<>> /\ handles = <<>>
        /\ capacity = InitialCapacity /\ fdCapacity = InitialFdCapacity
        /\ writing = <<>> /\ written = <<>> /\ calls = <<>>
        /\ cpp = Start /\ c = Start
        /\ reading = <<>> /\ asked = <<>> /\ reads = <<>>
    BY DEF Init, Start
  <1>2. Start \in Position
    BY DEF Start, Position
  <1>3. Len(data) = 0 /\ Len(handles) = 0 /\ DOMAIN calls = {} /\ Len(calls) = 0 /\ DOMAIN reads = {}
    BY <1>1
  <1>4. TypeInv
    BY <1>1, <1>2, CapacityAssumption, PayloadAssumption DEF TypeInv
  <1>5. StageInv
    BY <1>1 DEF StageInv
  <1>6. OffsetsInBounds
    BY <1>1, <1>3 DEF OffsetsInBounds, Start
  <1>7. BufferInv
    BY <1>1, <1>3, CapacityAssumption, WordAssumption DEF BufferInv
  <1>8. AgreeInv
    BY <1>1, <1>3 DEF AgreeInv, ReadersAgree
  <1>9. CallsInv
    BY <1>1, <1>3 DEF CallsInv, End, Start
  <1>10. PayloadInv
    BY <1>3 DEF PayloadInv
  <1>11. SyncInv
    BY <1>1 DEF SyncInv
  <1> QED
    BY <1>4, <1>5, <1>6, <1>7, <1>8, <1>9, <1>10, <1>11 DEF SerialInv

(* What is written goes after what was.                                    *)
LEMMA Extended ==
    ASSUME NEW S, NEW s \in Seq(S), NEW t \in Seq(S)
    PROVE  /\ s \o t \in Seq(S) /\ Len(s \o t) = Len(s) + Len(t)
           /\ Len(s) \in Nat /\ Len(t) \in Nat
           /\ \A i \in 1..Len(s) : (s \o t)[i] = s[i]
           /\ \A i \in 1..Len(t) : (s \o t)[Len(s) + i] = t[i]
  <1>1. /\ s \o t \in Seq(S) /\ Len(s \o t) = Len(s) + Len(t)
        /\ \A i \in 1..Len(s) + Len(t) :
             (s \o t)[i] = IF i <= Len(s) THEN s[i] ELSE t[i - Len(s)]
    BY ConcatProperties
  <1>2. Len(s) \in Nat /\ Len(t) \in Nat
    OBVIOUS
  <1>3. ASSUME NEW i \in 1..Len(s)
        PROVE  (s \o t)[i] = s[i]
    <2>1. i \in 1..Len(s) + Len(t) /\ i <= Len(s)
      BY <1>2
    <2> QED
      BY <1>1, <2>1
  <1>4. ASSUME NEW i \in 1..Len(t)
        PROVE  (s \o t)[Len(s) + i] = t[i]
    <2>1. /\ Len(s) + i \in 1..Len(s) + Len(t) /\ ~(Len(s) + i <= Len(s))
          /\ (Len(s) + i) - Len(s) = i
      BY <1>2
    <2> QED
      BY <1>1, <2>1
  <1> QED
    BY <1>1, <1>2, <1>3, <1>4

(* A call of serialize, or a write of the C library that returned 0, for   *)
(* x, the first of left.                                                   *)
Wrote(left, x, item) ==
    /\ stage = "write"
    /\ left \in Seq(Value) /\ left # <<>> /\ x = Head(left)
    /\ \/ /\ writing = <<>> /\ left = <<x>> /\ item = Len(written) + 1
          /\ written' = Append(written, x)
       \/ /\ writing # <<>> /\ left = writing /\ item = Len(written)
          /\ written' = written
    /\ Len(data) + Len(BytesOf(x)) <= MaxPayload
    /\ data' = data \o BytesOf(x)
    /\ handles' = handles \o HandlesOf(x.type.kind, Own(x))
    /\ writing' = Parts(x) \o Tail(left)
    /\ writer = "c" => writing' = <<>>
    /\ calls' = Append(calls, Call(left, item))
    /\ capacity' \in Nat /\ fdCapacity' \in Nat /\ BufferInv'
    /\ UNCHANGED <<stage, writer, readers>>

LEMMA WriteStep ==
    ASSUME SerialInv, NEW left, NEW x \in Value, NEW item, Wrote(left, x, item)
    PROVE  SerialInv'
  <1> DEFINE bytes == BytesOf(x)
             fds == HandlesOf(x.type.kind, Own(x))
             call == Call(left, item)
  <1>1. TypeInv /\ StageInv /\ OffsetsInBounds /\ AgreeInv /\ CallsInv /\ PayloadInv
    BY DEF SerialInv, Wrote
  <1>2. /\ reading = <<>> /\ asked = <<>> /\ reads = <<>> /\ cpp = Start /\ c = Start
        /\ stage' = stage /\ writer' = writer /\ cpp' = cpp /\ c' = c
        /\ reading' = reading /\ asked' = asked /\ reads' = reads
    BY <1>1 DEF StageInv, readers, Wrote
  <1>3. /\ data \in Seq(Byte) /\ Len(data) \in Nat /\ Len(data) <= MaxPayload
        /\ handles \in Seq(Handle) /\ Len(handles) \in Nat
    BY <1>1, PayloadIs
  <1>4. bytes \in Seq(Byte) /\ fds \in Seq(Handle)
    BY BytesAre
  <1>5. /\ data' \in Seq(Byte) /\ Len(data') = Len(data) + Len(bytes) /\ Len(bytes) \in Nat
        /\ \A i \in 1..Len(data) : data'[i] = data[i]
        /\ \A i \in 1..Len(bytes) : data'[Len(data) + i] = bytes[i]
        /\ DOMAIN bytes = 1..Len(bytes)
    <2> HIDE DEF bytes
    <2>1. /\ data \o bytes \in Seq(Byte) /\ Len(data \o bytes) = Len(data) + Len(bytes)
          /\ Len(bytes) \in Nat
          /\ \A i \in 1..Len(data) : (data \o bytes)[i] = data[i]
          /\ \A i \in 1..Len(bytes) : (data \o bytes)[Len(data) + i] = bytes[i]
      BY <1>3, <1>4, Extended
    <2>2. data' = data \o bytes
      BY DEF bytes, Wrote
    <2>3. DOMAIN bytes = 1..Len(bytes)
      BY <1>4
    <2> QED
      BY <2>1, <2>2, <2>3
  <1>6. /\ handles' \in Seq(Handle) /\ Len(handles') = Len(handles) + Len(fds) /\ Len(fds) \in Nat
        /\ \A i \in 1..Len(handles) : handles'[i] = handles[i]
        /\ \A i \in 1..Len(fds) : handles'[Len(handles) + i] = fds[i]
        /\ DOMAIN fds = 1..Len(fds)
    <2> HIDE DEF fds
    <2>1. /\ handles \o fds \in Seq(Handle) /\ Len(handles \o fds) = Len(handles) + Len(fds)
          /\ Len(fds) \in Nat
          /\ \A i \in 1..Len(handles) : (handles \o fds)[i] = handles[i]
          /\ \A i \in 1..Len(fds) : (handles \o fds)[Len(handles) + i] = fds[i]
      BY <1>3, <1>4, Extended
    <2>2. handles' = handles \o fds
      BY DEF fds, Wrote
    <2>3. DOMAIN fds = 1..Len(fds)
      BY <1>4
    <2> QED
      BY <2>1, <2>2, <2>3
  <1>7. /\ left \in Seq(Value) /\ left # <<>> /\ x = Head(left)
        /\ writing' = Parts(x) \o Tail(left)
        /\ \/ /\ writing = <<>> /\ left = <<x>> /\ item = Len(written) + 1
              /\ written' = Append(written, x)
           \/ /\ writing # <<>> /\ left = writing /\ item = Len(written)
              /\ written' = written
    BY DEF Wrote
  <1>8. /\ writing \in Seq(Value) /\ written \in Seq(Value) /\ Len(written) \in Nat
        /\ writing' \in Seq(Value) /\ written' \in Seq(Value)
    <2>1. writing \in Seq(Value) /\ written \in Seq(Value)
      BY <1>1 DEF TypeInv
    <2>2. Parts(x) \in Seq(Value) /\ Tail(left) \in Seq(Value)
      BY <1>7, PartsAre
    <2>3. writing' \in Seq(Value)
      <3>1. Parts(x) \o Tail(left) \in Seq(Value)
        BY <2>2, ConcatProperties
      <3> QED
        BY <1>7, <3>1
    <2>4. written' \in Seq(Value)
      <3>1. Append(written, x) \in Seq(Value)
        BY <2>1
      <3> QED
        BY <1>7, <2>1, <3>1
    <2>5. Len(written) \in Nat
      BY <2>1
    <2> QED
      BY <2>1, <2>3, <2>4, <2>5
  <1>9. /\ item \in Nat /\ Len(written') \in Nat /\ item = Len(written') /\ 1 <= item
        /\ Len(written) <= Len(written')
        /\ \A i \in 1..Len(written) : written'[i] = written[i]
    <2>1. CASE writing = <<>>
      <3>1. item = Len(written) + 1 /\ written' = Append(written, x)
        BY <1>7, <2>1
      <3>2. /\ Len(Append(written, x)) = Len(written) + 1
            /\ \A i \in 1..Len(written) : Append(written, x)[i] = written[i]
        BY <1>8
      <3>3. Len(written') = Len(written) + 1
        BY <3>1, <3>2
      <3>4. \A i \in 1..Len(written) : written'[i] = written[i]
        BY <3>1, <3>2
      <3> QED
        BY <1>8, <3>1, <3>3, <3>4
    <2>2. CASE writing # <<>>
      <3>1. item = Len(written) /\ written' = written
        BY <1>7, <2>2
      <3>2. calls # <<>>
        BY <1>1, <2>2 DEF CallsInv
      <3>3. Len(calls) \in DOMAIN calls
        <4>1. calls \in Seq(CallType)
          BY <1>1 DEF TypeInv
        <4> QED
          BY <3>2, <4>1
      <3>4. calls[Len(calls)].item \in 1..Len(written)
        BY <1>1, <3>3 DEF CallsInv
      <3>5. Len(written) \in Nat /\ 1 <= Len(written)
        BY ONLY <1>8, <3>4
      <3> QED
        BY <3>1, <3>5
    <2> QED
      BY <2>1, <2>2
  <1>10. End \in Position /\ End.index = Len(data) /\ End.handle = Len(handles)
    BY <1>3 DEF End, Position
  <1>11. /\ call.left = left /\ call.item = item /\ call.at = End
         /\ call \in CallType
    BY <1>7, <1>9, <1>10 DEF Call, CallType
  <1>12. PICK n \in Nat : n = Len(calls)
    <2>1. calls \in Seq(CallType)
      BY <1>1 DEF TypeInv
    <2> QED
      BY <2>1
  <1> HIDE DEF call
  <1>13. /\ calls \in Seq(CallType)
         /\ calls' \in Seq(CallType)
         /\ Len(calls') = n + 1
         /\ \A k \in 1..n : calls'[k] = calls[k]
         /\ calls'[n + 1] = call
         /\ DOMAIN calls' = 1..n + 1 /\ DOMAIN calls = 1..n
    <2>1. calls \in Seq(CallType)
      BY <1>1 DEF TypeInv
    <2>2. calls' = Append(calls, call)
      BY DEF call, Wrote
    <2> QED
      BY <1>11, <1>12, <2>1, <2>2
  <1> HIDE DEF bytes, fds
  <1>14. TypeInv'
    <2>1. /\ Len(data') <= MaxPayload
          /\ capacity' \in Nat /\ fdCapacity' \in Nat
      BY <1>5 DEF bytes, Wrote
    <2>2. /\ stage' \in {"write", "read", "given up"} /\ writer' \in {"cpp", "c"}
          /\ cpp' \in Position /\ c' \in Position /\ reading' \in Seq(Type)
          /\ asked' \in Seq(Type) /\ reads' \in Seq([type : Type, cpp : Results, c : Results])
      BY <1>1, <1>2 DEF TypeInv
    <2> QED
      BY <1>5, <1>6, <1>8, <1>13, <2>1, <2>2 DEF TypeInv
  <1>15. StageInv' /\ BufferInv'
    BY <1>2 DEF StageInv, Wrote
  <1>16. OffsetsInBounds'
    <2>1. 0 <= Len(data') /\ 0 <= Len(handles')
      BY <1>3, <1>5, <1>6
    <2> QED
      BY <1>2, <2>1 DEF OffsetsInBounds, Start
  <1>17. AgreeInv'
    BY <1>1, <1>2 DEF AgreeInv, ReadersAgree
  <1>18. SyncInv'
    BY <1>2 DEF SyncInv, Wrote
  <1>19. \A k \in 1..n : Passed(k)' = Passed(k)
    BY <1>13 DEF Passed
  <1>20. Passed(n + 1)' = writing'
    <2>1. calls'[n + 1].left = left
      BY <1>11, <1>13
    <2> QED
      BY <1>7, <2>1 DEF Passed
  <1>21. n # 0 => /\ calls[1].left = <<written[1]>> /\ calls[1].item = 1 /\ calls[1].at = Start
                  /\ calls[n].item = Len(written) /\ Passed(n) = writing
                  /\ 1 \in 1..Len(written)
    <2> SUFFICES ASSUME n # 0
                 PROVE  /\ calls[1].left = <<written[1]>> /\ calls[1].item = 1 /\ calls[1].at = Start
                        /\ calls[n].item = Len(written) /\ Passed(n) = writing
                        /\ 1 \in 1..Len(written)
      OBVIOUS
    <2>1. calls # <<>>
      BY <1>12
    <2>2. 1 \in DOMAIN calls
      BY <1>13
    <2> QED
      BY <1>1, <1>12, <2>1, <2>2 DEF CallsInv
  <1>22. n = 0 => written = <<>> /\ writing = <<>> /\ End = Start
    <2>1. n = 0 => calls = <<>>
      BY <1>12, <1>13
    <2> QED
      BY <1>1, <2>1 DEF CallsInv
  <1>23. CallsInv'
    <2>1. calls' # <<>>
      <3>1. Len(calls') # 0
        BY <1>13
      <3> QED
        BY <3>1
    <2>2. calls'[1].left = <<written'[1]>> /\ calls'[1].item = 1 /\ calls'[1].at = Start
      <3>1. CASE n = 0
        <4>1. writing = <<>> /\ left = <<x>> /\ item = Len(written) + 1 /\ written' = Append(written, x)
          BY <1>7, <1>22, <3>1
        <4>2. item = 1 /\ written'[1] = x
          BY <1>22, <3>1, <4>1
        <4> QED
          BY <1>11, <1>13, <1>22, <3>1, <4>1, <4>2
      <3>2. CASE n # 0
        <4>1. 1 \in 1..n /\ 1 \in 1..Len(written)
          BY <1>21, <3>2
        <4> QED
          BY <1>9, <1>13, <1>21, <3>2, <4>1
      <3> QED
        BY <3>1, <3>2
    <2>3. calls'[Len(calls')].item = Len(written') /\ Passed(Len(calls))' = writing'
      <3>1. Len(calls') = n + 1 /\ calls'[n + 1].item = item
        BY <1>11, <1>13
      <3>2. Passed(Len(calls))' = writing'
        BY <1>20, <3>1 DEF Passed
      <3> QED
        BY <1>9, <3>1, <3>2
    <2>4. \A k \in DOMAIN calls' : calls'[k].item \in 1..Len(written')
      <3> SUFFICES ASSUME NEW k \in 1..n + 1
                   PROVE  calls'[k].item \in 1..Len(written')
        BY <1>13
      <3>1. CASE k \in 1..n
        <4>1. calls[k].item \in 1..Len(written)
          BY <1>1, <1>13, <3>1 DEF CallsInv
        <4>2. calls'[k] = calls[k]
          BY <1>13, <3>1
        <4>3. calls[k].item \in 1..Len(written')
          BY ONLY <1>8, <1>9, <4>1
        <4> QED
          BY <4>2, <4>3
      <3>2. CASE k = n + 1
        <4>1. calls'[k].item = item
          BY <1>11, <1>13, <3>2
        <4>2. item \in 1..Len(written')
          BY ONLY <1>9
        <4> QED
          BY <4>1, <4>2
      <3> QED
        BY <3>1, <3>2
    <2>5. ASSUME NEW k \in 1..Len(calls') - 1
          PROVE  IF Passed(k)' # <<>>
                 THEN calls'[k + 1].left = Passed(k)' /\ calls'[k + 1].item = calls'[k].item
                 ELSE /\ calls'[k + 1].item = calls'[k].item + 1
                      /\ calls'[k + 1].left = <<written'[calls'[k].item + 1]>>
      <3>1. k \in 1..n /\ Passed(k)' = Passed(k) /\ calls'[k] = calls[k]
        BY <1>13, <1>19
      <3>2. CASE k = n
        <4>1. n # 0 /\ calls'[k + 1] = call
          BY <1>13, <3>1, <3>2
        <4>2. Passed(k)' = writing /\ calls'[k].item = Len(written)
          BY <1>21, <3>1, <3>2, <4>1
        <4>3. CASE writing # <<>>
          <5>1. left = writing /\ item = Len(written)
            BY <1>7, <4>3
          <5> QED
            BY <1>11, <4>1, <4>2, <4>3, <5>1
        <4>4. CASE writing = <<>>
          <5>1. left = <<x>> /\ item = Len(written) + 1 /\ written' = Append(written, x)
            BY <1>7, <4>4
          <5>2. written'[Len(written) + 1] = x
            BY <1>8, <5>1
          <5> QED
            BY <1>11, <4>1, <4>2, <4>4, <5>1, <5>2
        <4> QED
          BY <4>3, <4>4
      <3>3. CASE k # n
        <4>1. k \in 1..Len(calls) - 1 /\ k + 1 \in 1..n
          BY <1>12, <3>1, <3>3
        <4>2. calls'[k + 1] = calls[k + 1]
          BY <1>13, <4>1
        <4>3. IF Passed(k) # <<>>
              THEN calls[k + 1].left = Passed(k) /\ calls[k + 1].item = calls[k].item
              ELSE /\ calls[k + 1].item = calls[k].item + 1
                   /\ calls[k + 1].left = <<written[calls[k].item + 1]>>
          BY <1>1, <4>1 DEF CallsInv
        <4>4. calls[k + 1].item \in 1..Len(written)
          BY <1>1, <1>13, <4>1 DEF CallsInv
        <4>5. written'[calls[k + 1].item] = written[calls[k + 1].item]
          BY <1>9, <4>4
        <4> QED
          BY <3>1, <4>2, <4>3, <4>5
      <3> QED
        BY <3>2, <3>3
    <2> QED
      BY <2>1, <2>2, <2>3, <2>4, <2>5 DEF CallsInv
  <1>24. PayloadInv'
    <2> SUFFICES ASSUME NEW k \in 1..n + 1
                 PROVE  IsAt(Head(calls[k].left), calls[k].at, EndOf(k))'
      BY <1>13 DEF PayloadInv
    <2>1. CASE k \in 1..n
      <3>1. IsAt(Head(calls[k].left), calls[k].at, EndOf(k))
        BY <1>1, <1>13, <2>1 DEF PayloadInv
      <3>2. calls'[k] = calls[k]
        BY <1>13, <2>1
      <3>3. EndOf(k)' = EndOf(k)
        <4>1. EndOf(k)' = calls'[k + 1].at
          BY <1>13, <2>1 DEF EndOf
        <4>2. CASE k = n
          <5>1. EndOf(k) = End
            BY <1>12, <4>2 DEF EndOf
          <5> QED
            BY <1>11, <1>13, <4>1, <4>2, <5>1
        <4>3. CASE k # n
          <5>1. k + 1 \in 1..n
            BY <2>1, <4>3
          <5>2. EndOf(k) = calls[k + 1].at
            BY <1>12, <2>1, <4>3 DEF EndOf
          <5> QED
            BY <1>13, <4>1, <5>1, <5>2
        <4> QED
          BY <4>2, <4>3
      <3>4. PICK y, begin, end : /\ y = Head(calls[k].left) /\ begin = calls[k].at
                                 /\ end = EndOf(k)
        OBVIOUS
      <3>5. y \in Value /\ begin \in Position
        <4>1. calls[k] \in CallType
          BY <1>13, <2>1
        <4>2. calls[k].left \in Seq(Value) /\ calls[k].left # <<>> /\ calls[k].at \in Position
          BY <4>1 DEF CallType
        <4>3. Head(calls[k].left) \in Value
          BY <4>2
        <4> QED
          BY <3>4, <4>2, <4>3
      <3>6. IsAt(y, begin, end)
        BY <3>1, <3>4
      <3>7. IsAt(y, begin, end)'
        <4> DEFINE ybytes == BytesOf(y)
                   yfds == HandlesOf(y.type.kind, Own(y))
        <4>1. ybytes \in Seq(Byte) /\ yfds \in Seq(Handle)
          BY <3>5, BytesAre
        <4>2. /\ end.index = begin.index + Len(ybytes) /\ end.index <= Len(data)
              /\ \A i \in DOMAIN ybytes : data[begin.index + i] = ybytes[i]
              /\ end.handle = begin.handle + Len(yfds) /\ end.handle <= Len(handles)
              /\ \A i \in DOMAIN yfds : handles[begin.handle + i] = yfds[i]
          BY <3>6 DEF IsAt
        <4> HIDE DEF ybytes, yfds
        <4>3. begin.index \in Nat /\ begin.handle \in Nat
          BY <3>5 DEF Position
        <4>4. /\ Len(ybytes) \in Nat /\ DOMAIN ybytes = 1..Len(ybytes)
              /\ Len(yfds) \in Nat /\ DOMAIN yfds = 1..Len(yfds)
          BY <4>1
        <4>5. end.index <= Len(data') /\ end.handle <= Len(handles')
          <5>1. end.index \in Nat /\ end.handle \in Nat
            BY <4>2, <4>3, <4>4
          <5>2. end.index <= Len(data) /\ end.handle <= Len(handles)
            BY <4>2
          <5>3. /\ Len(data') = Len(data) + Len(bytes) /\ Len(bytes) \in Nat /\ Len(data) \in Nat
                /\ Len(handles') = Len(handles) + Len(fds) /\ Len(fds) \in Nat
                /\ Len(handles) \in Nat
            BY <1>3, <1>5, <1>6
          <5> QED
            BY ONLY <5>1, <5>2, <5>3
        <4>6. ASSUME NEW i \in DOMAIN ybytes
              PROVE  data'[begin.index + i] = ybytes[i]
          <5>1. begin.index + i \in 1..Len(data)
            <6>1. /\ i \in 1..Len(ybytes) /\ end.index = begin.index + Len(ybytes)
                  /\ end.index <= Len(data) /\ Len(data) \in Nat
              BY <1>3, <4>2, <4>4
            <6> QED
              BY ONLY <4>3, <4>4, <6>1
          <5> QED
            BY <1>5, <4>2, <5>1
        <4>7. ASSUME NEW i \in DOMAIN yfds
              PROVE  handles'[begin.handle + i] = yfds[i]
          <5>1. begin.handle + i \in 1..Len(handles)
            <6>1. /\ i \in 1..Len(yfds) /\ end.handle = begin.handle + Len(yfds)
                  /\ end.handle <= Len(handles) /\ Len(handles) \in Nat
              BY <1>3, <4>2, <4>4
            <6> QED
              BY ONLY <4>3, <4>4, <6>1
          <5> QED
            BY <1>6, <4>2, <5>1
        <4> QED
          BY <4>2, <4>5, <4>6, <4>7 DEF IsAt, ybytes, yfds
      <3> QED
        BY <3>2, <3>3, <3>4, <3>7
    <2>2. CASE k = n + 1
      <3>1. Head(calls'[k].left) = x /\ calls'[k].at = End
        BY <1>7, <1>11, <1>13, <2>2
      <3>2. EndOf(k)' = End'
        BY <1>13, <2>2 DEF EndOf
      <3>3. End'.index = Len(data') /\ End'.handle = Len(handles')
        BY DEF End
      <3>4. PICK begin, end : begin = End /\ end = End'
        OBVIOUS
      <3>5. IsAt(x, begin, end)'
        <4>1. /\ begin.index = Len(data) /\ end.index = Len(data')
              /\ begin.handle = Len(handles) /\ end.handle = Len(handles')
          BY <1>10, <3>3, <3>4
        <4>2. /\ end.index = begin.index + Len(bytes) /\ end.index <= Len(data')
              /\ end.handle = begin.handle + Len(fds) /\ end.handle <= Len(handles')
          BY <1>3, <1>5, <1>6, <4>1
        <4> QED
          BY <1>5, <1>6, <4>1, <4>2 DEF IsAt, bytes, fds
      <3> QED
        BY <3>1, <3>2, <3>4, <3>5
    <2> QED
      BY <2>1, <2>2
  <1> QED
    BY <1>14, <1>15, <1>16, <1>17, <1>18, <1>23, <1>24 DEF SerialInv

LEMMA CppWriteInv ==
    ASSUME SerialInv, NEW x \in Value, CppWrite(x)
    PROVE  SerialInv'
  <1>1. <<x>> \in Seq(Value) /\ <<x>> # <<>> /\ x = Head(<<x>>)
    OBVIOUS
  <1>2. writer = "cpp" /\ writer' = "cpp" /\ capacity' = capacity /\ fdCapacity' = fdCapacity
    BY DEF CppWrite
  <1>3. capacity' \in Nat /\ fdCapacity' \in Nat
    BY <1>2 DEF SerialInv, TypeInv
  <1>4. BufferInv'
    BY <1>2 DEF BufferInv
  <1>5. Wrote(<<x>>, x, Len(written) + 1)
    BY <1>1, <1>2, <1>3, <1>4 DEF CppWrite, Serialize, CanWrite, Wrote
  <1> QED
    BY <1>5, WriteStep

LEMMA CppWritePartInv ==
    ASSUME SerialInv, CppWritePart
    PROVE  SerialInv'
  <1>1. writing \in Seq(Value) /\ writing # <<>>
    BY DEF CppWritePart, SerialInv, TypeInv
  <1>2. PICK x \in Value : x = Head(writing)
    BY <1>1
  <1>3. /\ writer \in {"cpp", "c"} /\ writer # "c"
        /\ writer' = writer /\ capacity' = capacity /\ fdCapacity' = fdCapacity
    BY <1>1 DEF CppWritePart, SerialInv, TypeInv, StageInv
  <1>4. capacity' \in Nat /\ fdCapacity' \in Nat
    BY <1>3 DEF SerialInv, TypeInv
  <1>5. BufferInv'
    BY <1>3 DEF BufferInv
  <1>6. Wrote(writing, x, Len(written))
    BY <1>1, <1>2, <1>3, <1>4, <1>5 DEF CppWritePart, Serialize, CanWrite, Wrote
  <1> QED
    BY <1>6, WriteStep

(* A write of the C library that fails is the last.                        *)
LEMMA CWritesInv ==
    ASSUME SerialInv, NEW x \in Value, CWrites(x)
    PROVE  SerialInv'
  <1>1. TypeInv /\ StageInv /\ OffsetsInBounds /\ BufferInv /\ AgreeInv
    BY DEF SerialInv
  <1>2. /\ writer = "c" /\ x.type.kind \in CKind /\ stage = "write"
        /\ Len(data) + Len(BytesOf(FromC(x))) <= MaxPayload
        /\ UNCHANGED <<writer, writing, readers>>
    BY DEF CWrites, CanWrite
  <1>3. PICK y \in Value : y = FromC(x) /\ y.type.kind \in CKind
    BY <1>2, FromCIsValue
  <1> DEFINE b == Buffer(data, handles, capacity, fdCapacity, TRUE)
  <1>4. PICK d \in CWrite(b, y) :
          /\ data' = d.data /\ handles' = d.handles
          /\ capacity' = d.capacity /\ fdCapacity' = d.fdCapacity
          /\ \/ /\ d.ok
                /\ written' = Append(written, y)
                /\ calls' = Append(calls, Call(<<y>>, Len(written) + 1))
                /\ UNCHANGED stage
             \/ /\ ~d.ok
                /\ stage' = "given up"
                /\ UNCHANGED <<written, calls>>
    BY <1>3 DEF CWrites
  <1>5. /\ b.data = data /\ b.handles = handles
        /\ b.capacity = capacity /\ b.fdCapacity = fdCapacity
    BY DEF Buffer
  <1> HIDE DEF b
  <1>6. IsBuffer(b)
    <2>1. /\ data \in Seq(Byte) /\ handles \in Seq(Handle)
          /\ capacity \in Nat /\ fdCapacity \in Nat
      BY <1>1 DEF TypeInv
    <2>2. /\ Len(data) <= capacity /\ WordBytes <= capacity
          /\ Len(handles) <= fdCapacity /\ 0 < fdCapacity
      BY <1>1, <1>2 DEF BufferInv
    <2> QED
      BY <1>5, <2>1, <2>2 DEF IsBuffer
  <1>7. /\ IsBuffer(d)
        /\ Len(d.data) <= Len(b.data) + Len(BytesOf(y))
        /\ d.ok => /\ d.data = b.data \o BytesOf(y)
                   /\ d.handles = b.handles \o HandlesOf(y.type.kind, Own(y))
    BY <1>3, <1>6, CWritesAre
  <1>8. capacity' \in Nat /\ fdCapacity' \in Nat /\ BufferInv'
    <2>1. /\ d.capacity \in Nat /\ d.fdCapacity \in Nat
          /\ Len(d.data) <= d.capacity /\ WordBytes <= d.capacity
          /\ Len(d.handles) <= d.fdCapacity /\ 0 < d.fdCapacity
      BY <1>7 DEF IsBuffer
    <2>2. /\ data' = d.data /\ handles' = d.handles
          /\ capacity' = d.capacity /\ fdCapacity' = d.fdCapacity
      BY <1>4
    <2> QED
      BY <2>1, <2>2 DEF BufferInv
  <1>9. writing = <<>>
    BY <1>1, <1>2 DEF StageInv
  <1>10. CASE d.ok
    <2>1. /\ written' = Append(written, y)
          /\ calls' = Append(calls, Call(<<y>>, Len(written) + 1))
          /\ stage' = stage
      BY <1>4, <1>10
    <2>2. /\ data' = data \o BytesOf(y)
          /\ handles' = handles \o HandlesOf(y.type.kind, Own(y))
      BY <1>4, <1>5, <1>7, <1>10
    <2>3. Parts(y) = <<>>
      BY <1>3, PartsAre
    <2>4. <<y>> \in Seq(Value) /\ <<y>> # <<>> /\ y = Head(<<y>>) /\ Tail(<<y>>) = <<>>
      OBVIOUS
    <2>5. Parts(y) \o Tail(<<y>>) = <<>>
      BY <2>3, <2>4
    <2>6. writing' = Parts(y) \o Tail(<<y>>) /\ writing' = <<>>
      BY <1>2, <1>9, <2>5
    <2>7. UNCHANGED <<stage, writer, readers>>
      BY <1>2, <2>1
    <2>8. Len(data) + Len(BytesOf(y)) <= MaxPayload
      BY <1>2, <1>3
    <2>9. Wrote(<<y>>, y, Len(written) + 1)
      BY <1>2, <1>8, <1>9, <2>1, <2>2, <2>4, <2>6, <2>7, <2>8 DEF Wrote
    <2> QED
      BY <2>9, WriteStep
  <1>11. CASE ~d.ok
    <2>1. stage' = "given up" /\ written' = written /\ calls' = calls
      BY <1>4, <1>11
    <2>2. /\ reading = <<>> /\ asked = <<>> /\ reads = <<>> /\ cpp = Start /\ c = Start
      BY <1>1, <1>2 DEF StageInv
    <2>3. /\ writer' = writer /\ writing' = writing /\ cpp' = cpp /\ c' = c
          /\ reading' = reading /\ asked' = asked /\ reads' = reads
      BY <1>2 DEF readers
    <2>4. d.data \in Seq(Byte) /\ d.handles \in Seq(Handle)
      BY <1>7 DEF IsBuffer
    <2>5. data' = d.data /\ handles' = d.handles
      BY <1>4
    <2>6. /\ data' \in Seq(Byte) /\ Len(data') \in Nat /\ Len(data') <= MaxPayload
          /\ handles' \in Seq(Handle) /\ Len(handles') \in Nat
      <3>1. Len(d.data) \in Nat /\ Len(d.handles) \in Nat
        BY <2>4
      <3>2. Len(d.data) <= Len(data) + Len(BytesOf(y)) /\ Len(data) + Len(BytesOf(y)) <= MaxPayload
        BY <1>2, <1>3, <1>5, <1>7
      <3>3. Len(data) \in Nat /\ Len(BytesOf(y)) \in Nat /\ MaxPayload \in Nat
        <4>1. BytesOf(y) \in Seq(Byte)
          BY BytesAre
        <4> QED
          BY <1>1, <4>1, PayloadIs, PayloadAssumption
      <3>4. Len(d.data) <= MaxPayload
        BY ONLY <3>1, <3>2, <3>3
      <3> QED
        BY <2>4, <2>5, <3>1, <3>4
    <2>7. TypeInv'
      <3>1. /\ writer \in {"cpp", "c"} /\ writing \in Seq(Value) /\ written \in Seq(Value)
            /\ calls \in Seq(CallType) /\ cpp \in Position /\ c \in Position
            /\ reading \in Seq(Type) /\ asked \in Seq(Type)
            /\ reads \in Seq([type : Type, cpp : Results, c : Results])
        BY <1>1 DEF TypeInv
      <3> QED
        BY <1>8, <2>1, <2>3, <2>6, <3>1 DEF TypeInv
    <2>8. StageInv'
      BY <1>9, <2>2, <2>3 DEF StageInv
    <2>9. OffsetsInBounds'
      <3>1. 0 <= Len(data') /\ 0 <= Len(handles')
        BY <2>6
      <3> QED
        BY <2>2, <2>3, <3>1 DEF OffsetsInBounds, Start
    <2>10. AgreeInv'
      BY <1>1, <2>3 DEF AgreeInv, ReadersAgree
    <2>11. SyncInv' /\ stage' = "given up"
      BY <2>1 DEF SyncInv
    <2> QED
      BY <1>8, <2>7, <2>8, <2>9, <2>10, <2>11 DEF SerialInv
  <1> QED
    BY <1>10, <1>11

(* The reader begins where the writer began.                               *)
LEMMA GetPayloadInv ==
    ASSUME SerialInv, GetPayload
    PROVE  SerialInv'
  <1>1. /\ stage = "write" /\ stage' = "read" /\ writing = <<>>
        /\ UNCHANGED <<writer, data, handles, capacity, fdCapacity, writing, written, calls>>
        /\ UNCHANGED <<cpp, c, reading, asked, reads>>
    BY DEF GetPayload, writes, buffer, readers
  <1>2. TypeInv /\ StageInv /\ OffsetsInBounds /\ BufferInv /\ AgreeInv /\ CallsInv /\ PayloadInv
    BY <1>1 DEF SerialInv
  <1>3. TypeInv'
    BY <1>1, <1>2 DEF TypeInv
  <1>4. StageInv'
    BY <1>1 DEF StageInv
  <1>5. OffsetsInBounds' /\ BufferInv'
    BY <1>1, <1>2 DEF OffsetsInBounds, BufferInv
  <1>6. AgreeInv'
    BY <1>1, <1>2 DEF AgreeInv, ReadersAgree
  <1>7. End' = End
    BY <1>1 DEF End
  <1>8. CallsInv'
    BY <1>1, <1>2, <1>7 DEF CallsInv, Passed
  <1>9. PayloadInv'
    BY <1>1, <1>2, <1>7 DEF PayloadInv, IsAt, EndOf
  <1>10. SyncInv
    BY <1>1 DEF SyncInv
  <1>11. /\ reading = <<>> /\ asked = <<>> /\ reads = <<>> /\ cpp = Start /\ c = Start
    BY <1>1, <1>2 DEF StageInv
  <1>12. Len(reads) = 0 /\ Len(asked) = 0 /\ DOMAIN reads = {} /\ Len(written) \in Nat
    <2>1. written \in Seq(Value)
      BY <1>2 DEF TypeInv
    <2>2. Len(written) \in Nat
      BY <2>1
    <2> QED
      BY <1>11, <2>2
  <1>13. CASE calls = <<>>
    <2>1. Len(calls) = 0 /\ Len(written) = 0 /\ cpp = End
      BY <1>2, <1>11, <1>13 DEF CallsInv
    <2> QED
      BY <1>1, <1>3, <1>4, <1>5, <1>6, <1>7, <1>8, <1>9, <1>11, <1>12, <2>1
         DEF SyncInv, SerialInv
  <1>14. CASE calls # <<>>
    <2>1. Len(calls) \in Nat /\ Len(calls) > 0
      <3>1. calls \in Seq(CallType)
        BY <1>2 DEF TypeInv
      <3> QED
        BY <1>14, <3>1
    <2>2. calls[1].left = <<written[1]>> /\ calls[1].item = 1 /\ calls[1].at = Start
      BY <1>2, <1>14 DEF CallsInv
    <2>3. SyncInv'
      BY <1>1, <1>11, <1>12, <2>1, <2>2 DEF SyncInv
    <2> QED
      BY <1>1, <1>3, <1>4, <1>5, <1>6, <1>8, <1>9, <2>3 DEF SerialInv
  <1> QED
    BY <1>13, <1>14

(* A call of unserialize for t, the first of left, next to which the C     *)
(* reader is at inC.                                                       *)
WasRead(left, t, inC) ==
    /\ stage = "read"
    /\ left \in Seq(Type) /\ left # <<>> /\ t = Head(left)
    /\ inC \in Results /\ InPayload(inC.at)
    /\ \/ /\ reading = <<>> /\ left = <<t>> /\ asked' = Append(asked, t)
          /\ inC = CRead(t.kind, c)
       \/ reading # <<>> /\ left = reading /\ asked' = asked
    /\ ReadFirst(left, inC)
    /\ UNCHANGED <<stage, writes>>

(* The types of what a call of serialize leaves are the types a reader     *)
(* that read it is left with.                                              *)
LEMMA LeftTypes ==
    ASSUME NEW left \in Seq(Value), left # <<>>, NEW x \in Value, x = Head(left)
    PROVE  /\ TypesOf(left) \in Seq(Type) /\ TypesOf(left) # <<>>
           /\ Head(TypesOf(left)) = x.type
           /\ TypesOf(Parts(x) \o Tail(left))
                = PartTypes(x.type, Own(x)) \o Tail(TypesOf(left))
  <1> DEFINE n == Len(left)
             m == Len(Parts(x))
             all == Parts(x) \o Tail(left)
             types == PartTypes(x.type, Own(x)) \o Tail(TypesOf(left))
  <1>1. \A y \in Value : y.type \in Type
    BY ValuesAre
  <1>2. n \in Nat /\ n > 0 /\ DOMAIN left = 1..n /\ left[1] = x
        /\ \A i \in 1..n : left[i] \in Value
    OBVIOUS
  <1>3. /\ TypesOf(left) \in Seq(Type) /\ Len(TypesOf(left)) = n
        /\ \A i \in 1..n : TypesOf(left)[i] = left[i].type
    <2>1. TypesOf(left) = [i \in 1..n |-> left[i].type]
      BY <1>2 DEF TypesOf
    <2> QED
      BY <1>1, <1>2, <2>1
  <1>4. /\ Tail(left) \in Seq(Value) /\ Len(Tail(left)) = n - 1
        /\ \A i \in 1..n - 1 : Tail(left)[i] = left[i + 1]
    BY <1>2
  <1>5. TypesOf(left) # <<>>
    BY <1>2, <1>3
  <1>6. /\ Tail(TypesOf(left)) \in Seq(Type) /\ Len(Tail(TypesOf(left))) = n - 1
        /\ \A i \in 1..n - 1 : Tail(TypesOf(left))[i] = TypesOf(left)[i + 1]
    BY <1>2, <1>3, <1>5
  <1>7. /\ Parts(x) \in Seq(Value) /\ PartTypes(x.type, Own(x)) \in Seq(Type)
        /\ TypesOf(Parts(x)) = PartTypes(x.type, Own(x))
    BY PartsAre
  <1>8. /\ m \in Nat /\ DOMAIN Parts(x) = 1..m
        /\ Len(PartTypes(x.type, Own(x))) = m
        /\ \A i \in 1..m : PartTypes(x.type, Own(x))[i] = Parts(x)[i].type
    <2>1. m \in Nat /\ DOMAIN Parts(x) = 1..m
      BY <1>7
    <2>2. PartTypes(x.type, Own(x)) = [i \in 1..m |-> Parts(x)[i].type]
      BY <1>7, <2>1 DEF TypesOf
    <2> QED
      BY <2>1, <2>2
  <1> HIDE DEF n, m, all, types
  <1>9. /\ all \in Seq(Value) /\ Len(all) = m + (n - 1)
        /\ \A i \in 1..m : all[i] = Parts(x)[i]
        /\ \A i \in 1..n - 1 : all[m + i] = Tail(left)[i]
    BY <1>4, <1>7, Extended DEF all, m
  <1>10. /\ types \in Seq(Type) /\ Len(types) = m + (n - 1)
         /\ \A i \in 1..m : types[i] = PartTypes(x.type, Own(x))[i]
         /\ \A i \in 1..n - 1 : types[m + i] = Tail(TypesOf(left))[i]
    <2> DEFINE p == PartTypes(x.type, Own(x))
               q == Tail(TypesOf(left))
    <2>1. p \in Seq(Type) /\ q \in Seq(Type) /\ Len(p) = m /\ Len(q) = n - 1 /\ types = p \o q
      BY <1>6, <1>7, <1>8 DEF types
    <2> HIDE DEF p, q
    <2>2. /\ p \o q \in Seq(Type) /\ Len(p \o q) = Len(p) + Len(q)
          /\ \A i \in 1..Len(p) : (p \o q)[i] = p[i]
          /\ \A i \in 1..Len(q) : (p \o q)[Len(p) + i] = q[i]
      BY <2>1, Extended
    <2>3. types \in Seq(Type) /\ Len(types) = Len(p) + Len(q)
      BY <2>1, <2>2
    <2>4. Len(types) = m + (n - 1)
      BY ONLY <2>1, <2>3
    <2>5. /\ \A i \in 1..m : types[i] = p[i]
          /\ \A i \in 1..n - 1 : types[m + i] = q[i]
      BY ONLY <2>1, <2>2
    <2> QED
      BY <2>3, <2>4, <2>5 DEF p, q
  <1>11. TypesOf(all) \in Seq(Type) /\ Len(TypesOf(all)) = m + (n - 1)
         /\ \A i \in 1..m + (n - 1) : TypesOf(all)[i] = all[i].type
    <2>1. m + (n - 1) \in Nat /\ \A i \in 1..m + (n - 1) : all[i] \in Value
      BY <1>2, <1>8, <1>9
    <2>2. DOMAIN all = 1..m + (n - 1)
      BY <1>9
    <2>3. TypesOf(all) = [i \in 1..m + (n - 1) |-> all[i].type]
      BY <2>2 DEF TypesOf
    <2> QED
      BY <1>1, <2>1, <2>3
  <1>12. ASSUME NEW i \in 1..m + (n - 1)
         PROVE  TypesOf(all)[i] = types[i]
    <2>1. CASE i \in 1..m
      BY <1>8, <1>9, <1>10, <1>11, <2>1
    <2>2. CASE i \notin 1..m
      <3>1. PICK j \in 1..n - 1 : i = m + j
        <4>1. i - m \in 1..n - 1 /\ i = m + (i - m)
          BY <1>2, <1>8, <2>2
        <4> QED
          BY <4>1
      <3>2. all[i] = Tail(left)[j] /\ types[i] = Tail(TypesOf(left))[j]
        BY <1>9, <1>10, <3>1
      <3>3. j + 1 \in 1..n
        BY <1>2
      <3>4. all[i] = left[j + 1] /\ types[i] = left[j + 1].type
        BY <1>3, <1>4, <1>6, <3>2, <3>3
      <3> QED
        BY <1>11, <3>4
    <2> QED
      BY <2>1, <2>2
  <1>13. TypesOf(all) = types
    <2>1. \A i \in 1..Len(TypesOf(all)) : TypesOf(all)[i] = types[i]
      BY <1>11, <1>12
    <2> QED
      BY <1>10, <1>11, <2>1, SeqEqual
  <1> QED
    BY <1>2, <1>3, <1>5, <1>13 DEF all, types

(* In step, the call of unserialize is for what the writer wrote there.    *)
LEMMA NextInStep ==
    ASSUME SerialInv, NEW left, NEW t \in Type, NEW inC, WasRead(left, t, inC), InStep'
    PROVE  /\ InStep /\ Len(reads) < Len(calls)
           /\ left = TypesOf(calls[Len(reads) + 1].left)
           /\ calls[Len(reads) + 1].item = Len(asked')
           /\ cpp = calls[Len(reads) + 1].at
  <1>1. /\ TypeInv /\ SyncInv /\ CallsInv /\ stage = "read"
        /\ written' = written /\ calls' = calls
        /\ reads \in Seq([type : Type, cpp : Results, c : Results])
        /\ calls \in Seq(CallType) /\ asked \in Seq(Type) /\ written \in Seq(Value)
    BY DEF SerialInv, WasRead, TypeInv, writes
  <1>2. Len(asked) \in Nat /\ Len(written) \in Nat /\ Len(reads) \in Nat /\ Len(calls) \in Nat
        /\ DOMAIN asked = 1..Len(asked)
    BY <1>1
  <1>3. CASE reading = <<>>
    <2>1. left = <<t>> /\ asked' = Append(asked, t)
      BY <1>3 DEF WasRead
    <2>2. /\ Len(Append(asked, t)) = Len(asked) + 1
          /\ \A i \in 1..Len(asked) : Append(asked, t)[i] = asked[i]
          /\ Append(asked, t)[Len(asked) + 1] = t
          /\ DOMAIN Append(asked, t) = 1..Len(asked) + 1
      BY <1>1, <1>2
    <2>3. /\ Len(asked') = Len(asked) + 1 /\ DOMAIN asked' = 1..Len(asked) + 1
          /\ \A i \in 1..Len(asked) : asked'[i] = asked[i]
          /\ asked'[Len(asked) + 1] = t
      BY <2>1, <2>2
    <2>4. /\ Len(asked) + 1 <= Len(written)
          /\ \A i \in 1..Len(asked) + 1 : asked'[i] = written[i].type
      BY <1>1, <2>3 DEF InStep
    <2>5. \A i \in 1..Len(asked) : i \in 1..Len(asked) + 1
      BY <1>2
    <2>6. InStep
      BY <1>2, <2>3, <2>4, <2>5 DEF InStep
    <2>7. /\ Len(reads) <= Len(calls)
          /\ Len(reads) = Len(calls) => Len(asked) = Len(written)
          /\ Len(reads) < Len(calls) =>
               /\ cpp = calls[Len(reads) + 1].at
               /\ calls[Len(reads) + 1].item = Len(asked) + 1
               /\ calls[Len(reads) + 1].left = <<written[calls[Len(reads) + 1].item]>>
      BY <1>1, <1>3, <2>6 DEF SyncInv
    <2>8. Len(reads) < Len(calls)
      BY <1>2, <2>4, <2>7
    <2>9. Len(asked) + 1 \in 1..Len(asked) + 1
      BY <1>2
    <2>10. t = written[Len(asked) + 1].type
      BY <2>3, <2>4, <2>9
    <2>11. calls[Len(reads) + 1].left = <<written[Len(asked) + 1]>>
      BY <2>7, <2>8
    <2>12. TypesOf(<<written[Len(asked) + 1]>>) = <<t>>
      BY <2>10 DEF TypesOf
    <2> QED
      BY <2>1, <2>3, <2>6, <2>7, <2>8, <2>11, <2>12
  <1>4. CASE reading # <<>>
    <2>1. left = reading /\ asked' = asked
      BY <1>4 DEF WasRead
    <2>2. InStep
      BY <1>1, <2>1 DEF InStep
    <2>3. /\ Len(reads) <= Len(calls)
          /\ Len(reads) # Len(calls)
          /\ Len(reads) < Len(calls) =>
               /\ cpp = calls[Len(reads) + 1].at
               /\ calls[Len(reads) + 1].item = Len(asked)
               /\ reading = TypesOf(calls[Len(reads) + 1].left)
      BY <1>1, <1>4, <2>2 DEF SyncInv
    <2>4. Len(reads) < Len(calls)
      BY <1>2, <2>3
    <2> QED
      BY <2>1, <2>2, <2>3, <2>4
  <1> QED
    BY <1>3, <1>4

LEMMA ReadStep ==
    ASSUME SerialInv, NEW left, NEW t \in Type, NEW inC, WasRead(left, t, inC)
    PROVE  SerialInv'
  <1>1. /\ TypeInv /\ StageInv /\ OffsetsInBounds /\ BufferInv /\ AgreeInv
        /\ CallsInv /\ PayloadInv /\ SyncInv /\ stage = "read"
    BY DEF SerialInv, WasRead
  <1>2. /\ stage' = stage /\ writer' = writer /\ data' = data /\ handles' = handles
        /\ capacity' = capacity /\ fdCapacity' = fdCapacity /\ writing' = writing
        /\ written' = written /\ calls' = calls
    BY DEF WasRead, writes, buffer
  <1>3. /\ left \in Seq(Type) /\ left # <<>> /\ t = Head(left)
        /\ inC \in Results /\ InPayload(inC.at)
        /\ \/ /\ reading = <<>> /\ left = <<t>> /\ asked' = Append(asked, t)
              /\ inC = CRead(t.kind, c)
           \/ reading # <<>> /\ left = reading /\ asked' = asked
    BY DEF WasRead
  <1>4. PICK u : u = Unserialize(t.kind, cpp)
    OBVIOUS
  <1>5. /\ cpp' = u.at /\ c' = inC.at
        /\ reading' = IF u.outcome = "ok" THEN PartTypes(t, u.value) \o Tail(left) ELSE <<>>
        /\ reads' = Append(reads, [type |-> t, cpp |-> u, c |-> inC])
    BY <1>3, <1>4 DEF WasRead, ReadFirst
  <1>6. /\ InPayload(cpp) /\ InPayload(c) /\ t.kind \in Kind
    BY <1>1, TypeAssumption DEF InPayload, OffsetsInBounds, TypeInv
  <1>7. IsRead(u) /\ (t.kind = "vec" /\ u.outcome = "ok" => u.value \in Nat)
    BY <1>1, <1>4, <1>6, ReadIs
  <1>8. u \in Results /\ InPayload(u.at)
    BY <1>7 DEF IsRead
  <1>9. PICK r : r = [type |-> t, cpp |-> u, c |-> inC]
    OBVIOUS
  <1>10. r \in [type : Type, cpp : Results, c : Results] /\ r.type = t /\ r.cpp = u /\ r.c = inC
    BY <1>3, <1>8, <1>9
  <1>11. PICK n \in Nat : n = Len(reads)
    <2>1. reads \in Seq([type : Type, cpp : Results, c : Results])
      BY <1>1 DEF TypeInv
    <2> QED
      BY <2>1
  <1>12. /\ reads' \in Seq([type : Type, cpp : Results, c : Results]) /\ Len(reads') = n + 1
         /\ DOMAIN reads' = 1..n + 1 /\ DOMAIN reads = 1..n
         /\ \A k \in 1..n : reads'[k] = reads[k]
         /\ reads'[n + 1] = r
    <2>1. reads \in Seq([type : Type, cpp : Results, c : Results])
      BY <1>1 DEF TypeInv
    <2>2. reads' = Append(reads, r)
      BY <1>5, <1>9
    <2> QED
      BY <1>10, <1>11, <2>1, <2>2
  <1>13. u.outcome = "ok" => PartTypes(t, u.value) \in Seq(Type)
    BY <1>7, PartTypesAre
  <1>14. reading' \in Seq(Type)
    <2>1. Tail(left) \in Seq(Type) /\ <<>> \in Seq(Type)
      BY <1>3
    <2>2. CASE u.outcome = "ok"
      <3>1. PartTypes(t, u.value) \o Tail(left) \in Seq(Type)
        BY <1>13, <2>1, <2>2, ConcatProperties
      <3> QED
        BY <1>5, <2>2, <3>1
    <2>3. CASE u.outcome # "ok"
      BY <1>5, <2>1, <2>3
    <2> QED
      BY <2>2, <2>3
  <1>15. asked' \in Seq(Type)
    <2>1. asked \in Seq(Type)
      BY <1>1 DEF TypeInv
    <2>2. Append(asked, t) \in Seq(Type)
      BY <2>1
    <2> QED
      BY <1>3, <2>1, <2>2
  <1>16. TypeInv'
    <2>1. cpp' \in Position /\ c' \in Position
      BY <1>3, <1>5, <1>8 DEF InPayload
    <2> QED
      BY <1>1, <1>2, <1>12, <1>14, <1>15, <2>1 DEF TypeInv
  <1>17. StageInv' /\ BufferInv'
    BY <1>1, <1>2 DEF StageInv, BufferInv
  <1>18. OffsetsInBounds'
    BY <1>2, <1>3, <1>5, <1>8 DEF OffsetsInBounds, InPayload
  <1>19. End' = End
    BY <1>2 DEF End
  <1>20. CallsInv' /\ PayloadInv'
    <2>1. CallsInv'
      BY <1>1, <1>2, <1>19 DEF CallsInv, Passed
    <2>2. PayloadInv'
      BY <1>1, <1>2, <1>19 DEF PayloadInv, IsAt, EndOf
    <2> QED
      BY <2>1, <2>2
  <1>21. AgreeInv'
    <2>1. reading = <<>> => left = <<t>> /\ inC = CRead(t.kind, c)
      BY <1>3
    <2> DEFINE OnlyC(k) == \A j \in 1..k : reads[j].type.kind \in CKind
               Ok(k) == \A j \in 1..k : reads[j].cpp.outcome = "ok"
    <2>2. OnlyC(n) => reading = <<>> /\ (Ok(n) => c = cpp)
      BY <1>1, <1>12 DEF AgreeInv
    <2>3. t.kind \in CKind /\ c = cpp /\ inC = CRead(t.kind, c) =>
            /\ u.outcome = "ok" <=> inC.outcome = "ok"
            /\ u.outcome = "ok" => u.at = inC.at /\ u.value = inC.value
      BY <1>1, <1>4, <1>6, CReadIs
    <2>4. ReadersAgree'
      <3> SUFFICES ASSUME NEW i \in 1..n + 1,
                          \A j \in 1..i : reads'[j].type.kind \in CKind,
                          \A j \in 1..i - 1 : reads'[j].cpp.outcome = "ok"
                   PROVE  /\ reads'[i].cpp.outcome = "ok" <=> reads'[i].c.outcome = "ok"
                          /\ reads'[i].cpp.outcome = "ok" =>
                               /\ reads'[i].cpp.at = reads'[i].c.at
                               /\ InC(reads'[i].type, reads'[i].cpp.value)
                                    = InC(reads'[i].type, reads'[i].c.value)
        BY <1>12 DEF ReadersAgree
      <3>1. CASE i \in 1..n
        <4>1. \A j \in 1..i : j \in 1..n /\ reads'[j] = reads[j]
          BY <1>12, <3>1
        <4>2. \A j \in 1..i - 1 : j \in 1..i
          OBVIOUS
        <4>3. i \in 1..i
          BY <3>1
        <4>4. /\ \A j \in 1..i : reads[j].type.kind \in CKind
              /\ \A j \in 1..i - 1 : reads[j].cpp.outcome = "ok"
          BY <4>1, <4>2
        <4>5. ReadersAgree /\ i \in DOMAIN reads
          BY <1>1, <1>12, <3>1 DEF AgreeInv
        <4>6. reads'[i] = reads[i]
          BY <4>1, <4>3
        <4>7. /\ reads[i].cpp.outcome = "ok" <=> reads[i].c.outcome = "ok"
              /\ reads[i].cpp.outcome = "ok" =>
                   /\ reads[i].cpp.at = reads[i].c.at
                   /\ InC(reads[i].type, reads[i].cpp.value) = InC(reads[i].type, reads[i].c.value)
          BY <4>4, <4>5 DEF ReadersAgree
        <4> QED
          BY <4>6, <4>7
      <3>2. CASE i = n + 1
        <4>1. \A j \in 1..n : j \in 1..i /\ j \in 1..i - 1 /\ reads'[j] = reads[j]
          BY <1>12, <3>2
        <4>2. OnlyC(n) /\ Ok(n)
          BY <4>1
        <4>3. reads'[i] = r /\ i \in 1..i
          BY <1>12, <3>2
        <4>4. t.kind \in CKind
          BY <1>10, <4>3
        <4>5. /\ u.outcome = "ok" <=> inC.outcome = "ok"
              /\ u.outcome = "ok" => u.at = inC.at /\ u.value = inC.value
          BY <2>1, <2>2, <2>3, <4>2, <4>4
        <4> QED
          BY <1>10, <4>3, <4>5
      <3> QED
        BY <3>1, <3>2
    <2>5. ASSUME \A j \in DOMAIN reads' : reads'[j].type.kind \in CKind
          PROVE  reading' = <<>> /\ ((\A j \in DOMAIN reads' : reads'[j].cpp.outcome = "ok") => c' = cpp')
      <3>1. \A j \in 1..n : j \in DOMAIN reads' /\ reads'[j] = reads[j]
        BY <1>12
      <3>2. n + 1 \in DOMAIN reads' /\ reads'[n + 1] = r
        BY <1>12
      <3>3. OnlyC(n) /\ t.kind \in CKind
        BY <1>10, <2>5, <3>1, <3>2
      <3>4. left = <<t>> /\ inC = CRead(t.kind, c)
        BY <2>1, <2>2, <3>3
      <3>5. PartTypes(t, u.value) = <<>> /\ Tail(left) = <<>>
        BY <3>3, <3>4 DEF PartTypes, CKind
      <3>6. <<>> \o <<>> = <<>>
        OBVIOUS
      <3>7. reading' = <<>>
        BY <1>5, <3>5, <3>6
      <3>8. ASSUME \A j \in DOMAIN reads' : reads'[j].cpp.outcome = "ok"
            PROVE  c' = cpp'
        <4>1. Ok(n) /\ u.outcome = "ok"
          BY <1>10, <3>1, <3>2, <3>8
        <4> QED
          BY <1>5, <2>2, <2>3, <3>3, <3>4, <4>1
      <3> QED
        BY <3>7, <3>8
    <2> QED
      BY <2>4, <2>5 DEF AgreeInv
  <1>22. SyncInv'
    <2> SUFFICES ASSUME InStep'
                 PROVE  SyncInv'
      BY DEF SyncInv
    <2>1. /\ InStep /\ n < Len(calls)
          /\ left = TypesOf(calls[n + 1].left)
          /\ calls[n + 1].item = Len(asked')
          /\ cpp = calls[n + 1].at
      BY <1>11, NextInStep
    <2>2. calls \in Seq(CallType) /\ Len(calls) \in Nat
      <3>1. calls \in Seq(CallType)
        BY <1>1 DEF TypeInv
      <3> QED
        BY <3>1
    <2>3. n + 1 \in DOMAIN calls /\ n + 1 \in 1..Len(calls)
      BY <2>1, <2>2
    <2>4. calls[n + 1] \in CallType
      BY <2>2, <2>3
    <2>5. PICK values : values = calls[n + 1].left
      OBVIOUS
    <2>6. values \in Seq(Value) /\ values # <<>>
      BY <2>4, <2>5 DEF CallType
    <2>7. PICK x \in Value : x = Head(values)
      BY <2>6
    <2>8. /\ Head(TypesOf(values)) = x.type
          /\ TypesOf(Parts(x) \o Tail(values)) = PartTypes(x.type, Own(x)) \o Tail(TypesOf(values))
      BY <2>6, <2>7, LeftTypes
    <2>9. t = x.type /\ left = TypesOf(values)
      BY <1>3, <2>1, <2>5, <2>8
    <2>10. EndOf(n + 1) \in Position
      <3>1. CASE n + 1 < Len(calls)
        <4>1. (n + 1) + 1 \in DOMAIN calls
          BY <2>2, <2>3, <3>1
        <4>2. calls[(n + 1) + 1] \in CallType
          BY <2>2, <4>1
        <4> QED
          BY <3>1, <4>2 DEF EndOf, CallType
      <3>2. CASE ~(n + 1 < Len(calls))
        <4>1. End \in Position
          BY <1>1, PayloadIs DEF End, Position
        <4> QED
          BY <3>2, <4>1 DEF EndOf
      <3> QED
        BY <3>1, <3>2
    <2>11. IsAt(x, cpp, EndOf(n + 1))
      BY <1>1, <2>1, <2>3, <2>5, <2>7 DEF PayloadInv
    <2>12. u = Result("ok", EndOf(n + 1), Own(x))
      BY <1>1, <1>4, <1>6, <2>9, <2>10, <2>11, ReadBack
    <2>13. u.outcome = "ok" /\ u.at = EndOf(n + 1) /\ u.value = Own(x)
      BY <2>12, ResultIs
    <2>14. Passed(n + 1) = Parts(x) \o Tail(values)
      BY <2>5, <2>7 DEF Passed
    <2>15. reading' = TypesOf(Passed(n + 1))
      BY <1>5, <2>8, <2>9, <2>13, <2>14
    <2>16. ASSUME NEW k \in DOMAIN reads'
           PROVE  LET y == Head(calls[k].left) IN
                  reads'[k].type = y.type /\ reads'[k].cpp.outcome = "ok" /\ reads'[k].cpp.value = Own(y)
      <3>1. CASE k \in 1..n
        <4>1. reads'[k] = reads[k] /\ k \in DOMAIN reads
          BY <1>12, <3>1
        <4> QED
          BY <1>1, <2>1, <4>1 DEF SyncInv
      <3>2. CASE k = n + 1
        <4>1. reads'[k] = r
          BY <1>12, <3>2
        <4> QED
          BY <1>10, <2>5, <2>7, <2>9, <2>13, <3>2, <4>1
      <3> QED
        BY <1>12, <3>1, <3>2
    <2>17. n + 1 <= Len(calls)
      BY <2>1, <2>2
    <2>18. ASSUME n + 1 = Len(calls)
           PROVE  reading' = <<>> /\ Len(asked') = Len(written) /\ cpp' = End
      <3>1. calls # <<>> /\ writing = <<>>
        BY <1>1, <2>2, <2>18 DEF StageInv
      <3>2. calls[n + 1].item = Len(written) /\ Passed(n + 1) = <<>>
        BY <1>1, <2>18, <3>1 DEF CallsInv
      <3>3. TypesOf(<<>>) = <<>>
        BY DEF TypesOf
      <3>4. EndOf(n + 1) = End
        BY <2>18 DEF EndOf
      <3> QED
        BY <1>5, <2>1, <2>13, <2>15, <3>2, <3>3, <3>4
    <2>19. ASSUME n + 1 < Len(calls)
           PROVE  LET call == calls[(n + 1) + 1] IN
                  /\ cpp' = call.at
                  /\ reading' # <<>> => reading' = TypesOf(call.left) /\ call.item = Len(asked')
                  /\ reading' = <<>> => /\ call.item = Len(asked') + 1
                                        /\ call.left = <<written[call.item]>>
      <3>1. cpp' = calls[(n + 1) + 1].at
        BY <1>5, <2>13, <2>19 DEF EndOf
      <3>2. n + 1 \in 1..Len(calls) - 1
        BY <2>2, <2>19
      <3>3. IF Passed(n + 1) # <<>>
            THEN calls[(n + 1) + 1].left = Passed(n + 1) /\ calls[(n + 1) + 1].item = calls[n + 1].item
            ELSE /\ calls[(n + 1) + 1].item = calls[n + 1].item + 1
                 /\ calls[(n + 1) + 1].left = <<written[calls[n + 1].item + 1]>>
        BY <1>1, <3>2 DEF CallsInv
      <3>4. Passed(n + 1) \in Seq(Value)
        <4>1. Parts(x) \in Seq(Value) /\ Tail(values) \in Seq(Value)
          BY <2>6, PartsAre
        <4> QED
          BY <2>14, <4>1, ConcatProperties
      <3>5. CASE Passed(n + 1) # <<>>
        <4>1. TypesOf(Passed(n + 1)) # <<>>
          <5>1. 1 \in DOMAIN Passed(n + 1)
            BY <3>4, <3>5
          <5>2. 1 \in DOMAIN TypesOf(Passed(n + 1))
            BY <5>1 DEF TypesOf
          <5> QED
            BY <5>2
        <4> QED
          BY <2>1, <2>15, <3>1, <3>3, <3>5, <4>1
      <3>6. CASE Passed(n + 1) = <<>>
        <4>1. TypesOf(<<>>) = <<>>
          BY DEF TypesOf
        <4> QED
          BY <2>1, <2>15, <3>1, <3>3, <3>6, <4>1
      <3> QED
        BY <3>5, <3>6
    <2> QED
      BY <1>2, <1>12, <1>19, <2>16, <2>17, <2>18, <2>19 DEF SyncInv
  <1> QED
    BY <1>16, <1>17, <1>18, <1>20, <1>21, <1>22 DEF SerialInv

LEMMA ReadInv ==
    ASSUME SerialInv, NEW t \in Type, Read(t)
    PROVE  SerialInv'
  <1>1. /\ TypeInv /\ InPayload(c) /\ t.kind \in Kind
    BY TypeAssumption DEF SerialInv, InPayload, OffsetsInBounds, TypeInv
  <1>2. IsRead(CRead(t.kind, c))
    BY <1>1, CReadIs
  <1>3. <<t>> \in Seq(Type) /\ <<t>> # <<>> /\ t = Head(<<t>>)
    OBVIOUS
  <1>4. WasRead(<<t>>, t, CRead(t.kind, c))
    BY <1>2, <1>3 DEF Read, WasRead, IsRead
  <1> QED
    BY <1>4, ReadStep

LEMMA ReadPartInv ==
    ASSUME SerialInv, ReadPart
    PROVE  SerialInv'
  <1>1. TypeInv /\ InPayload(c) /\ c \in Position /\ reading \in Seq(Type) /\ reading # <<>>
    BY DEF SerialInv, InPayload, OffsetsInBounds, TypeInv, ReadPart
  <1>2. PICK t \in Type : t = Head(reading)
    BY <1>1
  <1>3. stage = "read"
    BY <1>1 DEF SerialInv, StageInv
  <1>4. /\ Result("unknown", c, 0) \in Results
        /\ Result("unknown", c, 0).at = c
    BY <1>1, ResultsAre, ResultIs DEF Returned
  <1>5. WasRead(reading, t, Result("unknown", c, 0))
    BY <1>1, <1>2, <1>3, <1>4 DEF ReadPart, WasRead
  <1> QED
    BY <1>5, ReadStep

LEMMA StutterInv ==
    ASSUME SerialInv, UNCHANGED vars
    PROVE  SerialInv'
  <1>1. UNCHANGED <<stage, writer, data, handles, capacity, fdCapacity, writing, written, calls,
                    cpp, c, reading, asked, reads>>
    BY DEF vars, writes, buffer, readers
  <1>2. End' = End
    BY <1>1 DEF End
  <1>3. TypeInv' = TypeInv /\ StageInv' = StageInv /\ BufferInv' = BufferInv
    BY <1>1 DEF TypeInv, StageInv, BufferInv
  <1>4. OffsetsInBounds' = OffsetsInBounds /\ AgreeInv' = AgreeInv
    BY <1>1 DEF OffsetsInBounds, AgreeInv, ReadersAgree
  <1>5. CallsInv' = CallsInv
    BY <1>1, <1>2 DEF CallsInv, Passed
  <1>6. PayloadInv' = PayloadInv
    BY <1>1, <1>2 DEF PayloadInv, IsAt, EndOf
  <1>7. SyncInv' = SyncInv
    BY <1>1, <1>2 DEF SyncInv, InStep
  <1> QED
    BY <1>1, <1>3, <1>4, <1>5, <1>6, <1>7 DEF SerialInv

LEMMA NextInv == SerialInv /\ [Next]_vars => SerialInv'
  <1> SUFFICES ASSUME SerialInv, [Next]_vars
               PROVE  SerialInv'
    OBVIOUS
  <1>1. ASSUME NEW x \in Value, CppWrite(x)
        PROVE  SerialInv'
    BY <1>1, CppWriteInv
  <1>2. ASSUME NEW x \in Value, CWrites(x)
        PROVE  SerialInv'
    BY <1>2, CWritesInv
  <1>3. CASE CppWritePart
    BY <1>3, CppWritePartInv
  <1>4. CASE GetPayload
    BY <1>4, GetPayloadInv
  <1>5. ASSUME NEW t \in Type, Read(t)
        PROVE  SerialInv'
    BY <1>5, ReadInv
  <1>6. CASE ReadPart
    BY <1>6, ReadPartInv
  <1>7. CASE UNCHANGED vars
    BY <1>7, StutterInv
  <1> QED
    BY <1>1, <1>2, <1>3, <1>4, <1>5, <1>6, <1>7 DEF Next

(* SerialInv holds in every state.                                         *)
THEOREM AlwaysSerial == Spec => []SerialInv
  <1> QED
    BY InitInv, NextInv, PTL DEF Spec

-----------------------------------------------------------------------------
(* The theorems.                                                           *)

(* What is in the C buffer is in its allocation, whatever the capacities   *)
(* it begins with, as long as a size_t fits, and whatever is written: a    *)
(* typed write needs no loop.                                              *)
THEOREM BufferHolds == Spec => []WritesInBounds
  <1>1. SerialInv => WritesInBounds
    BY DEF SerialInv, BufferInv, WritesInBounds
  <1> QED
    BY <1>1, AlwaysSerial, PTL

(* Neither reader leaves the payload, whatever the payload is and whatever *)
(* it is asked for, though size_t's wrap around.                           *)
THEOREM ReadersStayInside == Spec => []OffsetsInBounds
  <1>1. SerialInv => OffsetsInBounds
    BY DEF SerialInv
  <1> QED
    BY <1>1, AlwaysSerial, PTL

(* A reader asked for the types written gets the values written, however   *)
(* they nest, and nothing is left over.                                    *)
THEOREM WrittenIsRead == Spec => []RoundTrip
  <1>1. SerialInv => RoundTrip
    <2> SUFFICES ASSUME SerialInv, InStep, stage = "read"
                 PROVE  RoundTrip
      BY DEF RoundTrip
    <2>1. SyncInv /\ CallsInv /\ TypeInv
      BY DEF SerialInv
    <2>2. /\ calls \in Seq(CallType) /\ reads \in Seq([type : Type, cpp : Results, c : Results])
      BY <2>1 DEF TypeInv
    <2>3. /\ Len(calls) \in Nat /\ Len(reads) \in Nat
          /\ DOMAIN calls = 1..Len(calls) /\ DOMAIN reads = 1..Len(reads)
      BY <2>2
    <2>4. Len(reads) <= Len(calls)
      BY <2>1 DEF SyncInv
    <2>5. \A k \in DOMAIN reads : k \in DOMAIN calls
      BY <2>3, <2>4
    <2>6. ASSUME reading = <<>>, Len(asked) = Len(written)
          PROVE  Len(reads) = Len(calls)
      <3> SUFFICES ASSUME ~(Len(reads) = Len(calls))
                   PROVE  FALSE
        OBVIOUS
      <3>0. Len(calls) \in Nat /\ Len(reads) \in Nat /\ DOMAIN calls = 1..Len(calls)
        BY <2>3
      <3>1. Len(reads) < Len(calls) /\ Len(reads) + 1 \in 1..Len(calls)
        <4>1. ASSUME NEW m \in Nat, NEW n \in Nat, m <= n, m # n
              PROVE  m < n /\ m + 1 \in 1..n
          BY ONLY <4>1
        <4> QED
          BY ONLY <2>4, <3>0, <4>1, ~(Len(reads) = Len(calls))
      <3>2. calls[Len(reads) + 1].item = Len(asked) + 1
        BY <2>1, <2>6, <3>1 DEF SyncInv
      <3>3. Len(reads) + 1 \in DOMAIN calls
        BY <3>0, <3>1
      <3>4. calls[Len(reads) + 1].item \in 1..Len(written)
        BY <2>1, <3>3 DEF CallsInv
      <3>5. written \in Seq(Value)
        BY <2>1 DEF TypeInv
      <3>6. Len(written) \in Nat
        BY <3>5
      <3>7. Len(written) + 1 \in 1..Len(written)
        BY <2>6, <3>2, <3>4
      <3> QED
        BY ONLY <3>6, <3>7
    <2> QED
      BY <2>1, <2>5, <2>6 DEF SyncInv, RoundTrip
  <1> QED
    BY <1>1, AlwaysSerial, PTL

(* The C and the C++ reader succeed and fail together on every payload,    *)
(* return the same and go the same way.                                    *)
THEOREM ReadersAlike == Spec => []ReadersAgree
  <1>1. SerialInv => ReadersAgree
    BY DEF SerialInv, AgreeInv
  <1> QED
    BY <1>1, AlwaysSerial, PTL

=============================================================================
