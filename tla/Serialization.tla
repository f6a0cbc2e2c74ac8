---------------------------- MODULE Serialization ----------------------------
(***************************************************************************)
(* The arguments of a call on their way through a payload: written by      *)
(* rpc::Serializer or by libcprotorpc's sidl_serializer, read back by      *)
(* rpc::Unserializer and by sidl_unserializer.  The two readers go through *)
(* the same payload side by side, with the same types, which may be others *)
(* than those written: the two ends may know different versions of an      *)
(* interface.                                                              *)
(*                                                                         *)
(* A type is [kind, of], of being its arguments or its fields' types.  A   *)
(* string is a sequence of bytes, 0 being the one that ends C strings; an  *)
(* optional is a sequence of one value or none.  serialize and unserialize *)
(* call themselves for the elements of a vector, the value of an optional  *)
(* and the fields of a struct: each such call is a step, and writing and   *)
(* reading hold what the calls under way have still to pass on.            *)
(***************************************************************************)
EXTENDS Naturals, Sequences, Functions

CONSTANTS Base,                \* how many values a byte has
          WordBytes, Modulus,  \* sizeof(std::size_t), and how many values it has
          Word,                \* the bytes of each, in the machine's order
          InitialCapacity,     \* SIDL_SERIALIZER_CAPACITY
          InitialFdCapacity,   \* SIDL_SERIALIZER_FD_CAPACITY
          Type,                \* the types programs know, and their parts'
          Handle,
          Value,               \* [type, value]: what programs write, and its parts
          MaxItems, MaxReads,
          MaxPayload           \* bytes of a payload, far from what size_t holds

Byte == 0..Base - 1
Size == 0..Modulus - 1

ASSUME WordAssumption ==
    /\ Base \in Nat /\ Base > 1
    /\ WordBytes \in Nat /\ WordBytes > 1 /\ Modulus \in Nat
    /\ Word \in Bijection(Size, [1..WordBytes -> Byte])

ASSUME CapacityAssumption ==
    /\ InitialCapacity \in Nat /\ InitialCapacity >= WordBytes
    /\ InitialFdCapacity \in Nat /\ InitialFdCapacity > 0

ASSUME PayloadAssumption == MaxPayload \in Nat /\ MaxPayload + WordBytes < Modulus

Kind == {"u8", "usize", "string", "vec", "optional", "struct", "handle"}
CKind == {"u8", "usize", "string", "handle"}

(* What a call passes on, once it has written or read n itself: sidl has   *)
(* no vectors and optionals of handles.                                    *)
PartTypes(t, n) ==
    CASE t.kind = "vec"                   -> [i \in 1..n |-> t.of[1]]
      [] t.kind = "optional" /\ n = 0     -> <<>>
      [] t.kind = "optional" /\ n # 0     -> t.of
      [] t.kind = "struct"                -> t.of
      [] OTHER                            -> <<>>

ASSUME TypeAssumption ==
    /\ Type \subseteq [kind : Kind, of : Seq(Type)]
    /\ \A t \in Type : t.kind \in {"vec", "optional"} =>
         Len(t.of) = 1 /\ t.of[1].kind # "handle"

(* What a call writes itself, and the calls it makes.                      *)
Own(x) == CASE x.type.kind \in {"vec", "optional"} -> Len(x.value)
            [] x.type.kind = "struct"              -> 0
            [] OTHER                               -> x.value

Parts(x) == LET types == PartTypes(x.type, Own(x)) IN
            [i \in DOMAIN types |-> [type |-> types[i], value |-> x.value[i]]]

(* strlen, and the string a C program hands over or is given.              *)
StrLen(s) == CHOOSE n \in 0..Len(s) : (\A i \in 1..n : s[i] # 0) /\ (n < Len(s) => s[n + 1] = 0)
CString(s) == SubSeq(s, 1, StrLen(s))
InC(t, v) == IF t.kind = "string" THEN CString(v) ELSE v
FromC(x) == [type |-> x.type, value |-> InC(x.type, x.value)]

Plain(kind) == CASE kind = "u8"     -> Byte
                 [] kind = "usize"  -> Size
                 [] kind = "string" -> Seq(Byte)
                 [] kind = "handle" -> Handle

ASSUME ValueAssumption ==
    /\ \A x \in Value :
         /\ x = [type |-> x.type, value |-> x.value] /\ x.type \in Type
         /\ IF x.type.kind \in CKind THEN x.value \in Plain(x.type.kind)
            ELSE /\ Len(x.value) \in Nat /\ x.value = [i \in 1..Len(x.value) |-> x.value[i]]
                 /\ x.type.kind = "optional" => Len(x.value) < 2
                 /\ x.type.kind = "struct" => Len(x.value) = Len(x.type.of)
         /\ x.type.kind \in {"vec", "string"} => Len(x.value) < Modulus
         /\ \A i \in DOMAIN Parts(x) : Parts(x)[i] \in Value
    /\ \A x \in Value : x.type.kind = "string" => FromC(x) \in Value

VARIABLES
    stage,       \* "write", then "read"
    writer,      \* "cpp" or "c"
    data,        \* data_, or the data of the C buffer
    handles,     \* handles_, or its fds
    capacity,    \* data_capacity
    fdCapacity,  \* fd_capacity
    writing,     \* what the serialize under way has still to write
    written,     \* the values programs wrote (history)
    calls,       \* each call's value and what is to be written after it, which
                 \* of written it is about, where it begins (history)
    cpp, c,      \* index_ and handle_index_; data_offset and fd_index
    reading,     \* the types the unserialize under way has still to read
    asked,       \* the types programs read (history)
    reads        \* what each unserialize was for and returned (history)

buffer == <<data, handles, capacity, fdCapacity>>
writes == <<writer, buffer, writing, written, calls>>
readers == <<cpp, c, reading, asked, reads>>
vars == <<stage, writes, readers>>

End == [index |-> Len(data), handle |-> Len(handles)]

-----------------------------------------------------------------------------
(* rpc::Serializer, with the serialize sidl generates for structs.         *)

Bytes(kind, n) ==
    CASE kind \in {"u8", "optional"} -> <<n>>
      [] kind \in {"usize", "vec"}   -> Word[n]
      [] kind = "string"             -> Word[Len(n)] \o n
      [] OTHER                       -> <<>>

HandlesOf(kind, n) == IF kind = "handle" THEN <<n>> ELSE <<>>

BytesOf(x) == Bytes(x.type.kind, Own(x))

-----------------------------------------------------------------------------
(* sidl_serializer: what may become of a buffer b, b.ok telling whether    *)
(* the write returned 0; realloc may fail.                                 *)

Buffer(d, h, cap, fdCap, ok) ==
    [data |-> d, handles |-> h, capacity |-> cap, fdCapacity |-> fdCap, ok |-> ok]

Room(b, n) == Len(b.data) + n <= b.capacity

Appended(b, bytes, cap) == Buffer(b.data \o bytes, b.handles, cap, b.fdCapacity, TRUE)
Failed(b) == Buffer(b.data, b.handles, b.capacity, b.fdCapacity, FALSE)

CWriteTyped(b, bytes) ==
    IF Room(b, Len(bytes)) THEN {Appended(b, bytes, b.capacity)}
    ELSE {Failed(b), Appended(b, bytes, 2 * b.capacity)}

(* Mutant: write_raw doubles once, like the typed writes.                  *)
GrownOnce(cap, need) == 2 * cap

(* The first of cap, 2 * cap, 4 * cap... that is enough.                   *)
Grown(cap, need) ==
    LET doubled[k \in 0..need] == IF k = 0 THEN cap ELSE 2 * doubled[k - 1]
        enough == {k \in 0..need : doubled[k] >= need}
    IN  doubled[CHOOSE k \in enough : \A j \in enough : k <= j]

CWriteRaw(b, bytes) ==
    IF Room(b, Len(bytes)) THEN {Appended(b, bytes, b.capacity)}
    ELSE {Failed(b), Appended(b, bytes, Grown(b.capacity, Len(b.data) + Len(bytes)))}

(* The length stays in the buffer when the characters do not fit.          *)
CWriteString(b, s) ==
    UNION {IF x.ok THEN CWriteRaw(x, s) ELSE {x} : x \in CWriteTyped(b, Word[Len(s)])}

CWriteFd(b, fd) ==
    LET fds == Append(b.handles, fd) IN
    IF Len(b.handles) # b.fdCapacity
    THEN {Buffer(b.data, fds, b.capacity, b.fdCapacity, TRUE)}
    ELSE {Failed(b), Buffer(b.data, fds, b.capacity, 2 * b.fdCapacity, TRUE)}

CWrite(b, x) ==
    CASE x.type.kind = "string" -> CWriteString(b, x.value)
      [] x.type.kind = "handle" -> CWriteFd(b, x.value)
      [] OTHER                  -> CWriteTyped(b, BytesOf(x))

-----------------------------------------------------------------------------
(* The readers: what a read at position at makes of a payload.             *)

Result(outcome, at, value) == [outcome |-> outcome, at |-> at, value |-> value]

(* size_t's wrap around.                                                   *)
Sum(m, n) == IF m + n < Modulus THEN m + n ELSE m + n - Modulus

(* "index_ + size > data_.size()".                                         *)
FitsBefore(at, n) == Sum(at.index, n) < Len(data)   \* mutant: >= for >

Fits(at, n) == Sum(at.index, n) <= Len(data)

Bytewise(at, n) == SubSeq(data, at.index + 1, at.index + n)
Advanced(at, n) == [index |-> at.index + n, handle |-> at.handle]
Number(bytes) == IF Len(bytes) = 1 THEN bytes[1]
                 ELSE CHOOSE n \in Size : Word[n] = bytes

(* A failed read of a number moves the index to the end.                   *)
InvalidatedPast(at, n) == Advanced(at, n)   \* mutant: past what was missing

Invalidated(at, n) == [index |-> Len(data), handle |-> at.handle]

ReadNumber(at, n) ==
    IF Fits(at, n) THEN Result("ok", Advanced(at, n), Number(Bytewise(at, n)))
    ELSE Result("failed", Invalidated(at, n), 0)

(* A string's does not.  std::string refuses a size beyond its max_size.   *)
ReadChars(at, n) ==
    CASE ~Fits(at, n)                              -> Result("failed", at, 0)
      [] Fits(at, n) /\ at.index + n >= Modulus    -> Result("threw", at, 0)
      [] Fits(at, n) /\ at.index + n < Modulus     -> Result("ok", Advanced(at, n), Bytewise(at, n))

ReadString(at) ==
    LET size == ReadNumber(at, WordBytes) IN
    IF size.outcome = "ok" THEN ReadChars(size.at, size.value) ELSE size

ReadHandle(at) ==
    IF at.handle < Len(handles)
    THEN Result("ok", [index |-> at.index, handle |-> at.handle + 1], handles[at.handle + 1])
    ELSE Result("failed", at, 0)

(* What an unserialize reads itself.                                       *)
Unserialize(kind, at) ==
    CASE kind \in {"u8", "optional"} -> ReadNumber(at, 1)
      [] kind \in {"usize", "vec"}   -> ReadNumber(at, WordBytes)
      [] kind = "string"             -> ReadString(at)
      [] kind = "struct"             -> Result("ok", at, 0)
      [] kind = "handle"             -> ReadHandle(at)

(* sidl_unserializer_read_raw and the typed reads move the offset only     *)
(* when they succeed; memcpy is not told of a sum that wrapped.            *)
CReadRaw(at, n) ==
    CASE ~Fits(at, n)                              -> Result("failed", at, 0)
      [] Fits(at, n) /\ at.index + n >= Modulus    -> Result("overran", at, 0)
      [] Fits(at, n) /\ at.index + n < Modulus     -> Result("ok", Advanced(at, n), Bytewise(at, n))

CReadNumber(at, n) ==
    LET raw == CReadRaw(at, n) IN
    IF raw.outcome = "ok" THEN Result("ok", raw.at, Number(raw.value)) ELSE raw

CReadStringSkipsNone(at) ==   \* mutant: the offset stays before the characters
    LET size == CReadNumber(at, WordBytes)
        chars == CReadRaw(size.at, size.value)
    IN  IF size.outcome = "ok" THEN Result(chars.outcome, size.at, chars.value) ELSE size

(* The caller sees the characters up to the first 0.                       *)
CReadString(at) ==
    LET size == CReadNumber(at, WordBytes) IN
    IF size.outcome = "ok" THEN CReadRaw(size.at, size.value) ELSE size

CRead(kind, at) ==
    CASE kind = "u8"     -> CReadNumber(at, 1)
      [] kind = "usize"  -> CReadNumber(at, WordBytes)
      [] kind = "string" -> CReadString(at)
      [] kind = "handle" -> ReadHandle(at)
      [] OTHER           -> Result("unknown", at, 0)

-----------------------------------------------------------------------------

Init ==
    /\ stage = "write"
    /\ writer \in {"cpp", "c"}
    /\ data = <<>> /\ handles = <<>>
    /\ capacity = InitialCapacity /\ fdCapacity = InitialFdCapacity
    /\ writing = <<>> /\ written = <<>> /\ calls = <<>>
    /\ cpp = [index |-> 0, handle |-> 0] /\ c = [index |-> 0, handle |-> 0]
    /\ reading = <<>> /\ asked = <<>> /\ reads = <<>>

CanWrite(x) == stage = "write" /\ Len(data) + Len(BytesOf(x)) <= MaxPayload

Call(left, item) == [left |-> left, item |-> item, at |-> End]

(* The call for the first of left, which is about written[item].           *)
Serialize(left, item) ==
    LET x == Head(left) IN
    /\ CanWrite(x)
    /\ data' = data \o BytesOf(x)
    /\ handles' = handles \o HandlesOf(x.type.kind, Own(x))
    /\ writing' = Parts(x) \o Tail(left)
    /\ calls' = Append(calls, Call(left, item))

CppWrite(x) ==
    /\ writer = "cpp" /\ writing = <<>>
    /\ Len(written) < MaxItems
    /\ Serialize(<<x>>, Len(written) + 1)
    /\ written' = Append(written, x)
    /\ UNCHANGED <<stage, writer, capacity, fdCapacity, readers>>

CppWritePart ==
    /\ writing # <<>>
    /\ Serialize(writing, Len(written))
    /\ UNCHANGED <<stage, writer, capacity, fdCapacity, written, readers>>

(* A program that is told that a write failed does not send the payload.   *)
CWrites(x) ==
    /\ writer = "c"
    /\ x.type.kind \in CKind
    /\ Len(written) < MaxItems
    /\ CanWrite(FromC(x))
    /\ \E b \in CWrite(Buffer(data, handles, capacity, fdCapacity, TRUE), FromC(x)) :
         /\ data' = b.data /\ handles' = b.handles
         /\ capacity' = b.capacity /\ fdCapacity' = b.fdCapacity
         /\ \/ /\ b.ok
               /\ written' = Append(written, FromC(x))
               /\ calls' = Append(calls, Call(<<FromC(x)>>, Len(written) + 1))
               /\ UNCHANGED stage
            \/ /\ ~b.ok
               /\ stage' = "given up"
               /\ UNCHANGED <<written, calls>>
    /\ UNCHANGED <<writer, writing, readers>>

GetPayload ==
    /\ stage = "write" /\ writing = <<>>
    /\ stage' = "read"
    /\ UNCHANGED <<writes, readers>>

(* The unserialize for the first of left, and what C makes of its type: a  *)
(* failure or an exception ends the calls it was made by.                  *)
ReadFirst(left, inC) ==
    LET t == Head(left)
        u == Unserialize(t.kind, cpp)
    IN  /\ cpp' = u.at
        /\ c' = inC.at
        /\ reading' = IF u.outcome = "ok" THEN PartTypes(t, u.value) \o Tail(left) ELSE <<>>
        /\ reads' = Append(reads, [type |-> t, cpp |-> u, c |-> inC])

(* Both readers read a t; only one of them knows the types C lacks.        *)
Read(t) ==
    /\ stage = "read" /\ reading = <<>>
    /\ Len(asked) < MaxReads
    /\ ReadFirst(<<t>>, CRead(t.kind, c))
    /\ asked' = Append(asked, t)
    /\ UNCHANGED <<stage, writes>>

ReadPart ==
    /\ reading # <<>>
    /\ ReadFirst(reading, Result("unknown", c, 0))
    /\ UNCHANGED <<stage, writes, asked>>

Next ==
    \/ \E x \in Value : CppWrite(x) \/ CWrites(x)
    \/ CppWritePart
    \/ GetPayload
    \/ \E t \in Type : Read(t)
    \/ ReadPart

Spec == Init /\ [][Next]_vars

-----------------------------------------------------------------------------

(* What is in the C buffer is in its allocation, whatever was written in   *)
(* whatever order: a typed write doubles once, without a loop.             *)
WritesInBounds ==
    writer = "c" => Len(data) <= capacity /\ Len(handles) <= fdCapacity

(* Neither reader is ever beyond the end, whatever types it is asked for   *)
(* and however many of its reads have failed.                              *)
OffsetsInBounds ==
    /\ cpp.index <= Len(data) /\ c.index <= Len(data)
    /\ cpp.handle <= Len(handles) /\ c.handle <= Len(handles)

InStep == Len(asked) <= Len(written)
            /\ \A i \in DOMAIN asked : asked[i] = written[i].type

(* What one end writes the other reads, if it reads the types written:     *)
(* each call of unserialize returns what the call of serialize as far from *)
(* the first wrote, for the same type, and nothing is left over at the     *)
(* end; handles come out in the order they went in.                        *)
RoundTrip ==
    InStep /\ stage = "read" =>
        /\ \A k \in DOMAIN reads :
             /\ k \in DOMAIN calls
             /\ LET x == Head(calls[k].left) IN
                  /\ reads[k].type = x.type
                  /\ reads[k].cpp.outcome = "ok" /\ reads[k].cpp.value = Own(x)
        /\ reading = <<>> /\ Len(asked) = Len(written) =>
             cpp = End /\ Len(reads) = Len(calls)

(* The C and the C++ reader, given the same payload and types, succeed and *)
(* fail together up to and including the first failure, return the same    *)
(* values, and are at the same place until then.                           *)
ReadersAgree ==
    \A i \in DOMAIN reads :
        (\A j \in 1..i : reads[j].type.kind \in CKind)
          /\ (\A j \in 1..i - 1 : reads[j].cpp.outcome = "ok") =>
            LET r == reads[i] IN
            /\ r.cpp.outcome = "ok" <=> r.c.outcome = "ok"
            /\ r.cpp.outcome = "ok" =>
                 r.cpp.at = r.c.at /\ InC(r.type, r.cpp.value) = InC(r.type, r.c.value)

=============================================================================
