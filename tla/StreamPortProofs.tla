--------------------------- MODULE StreamPortProofs ---------------------------
(***************************************************************************)
(* Two theorems about StreamPort, for any messages, chunks and room in the *)
(* socket, up to the first message that is spoiled: receive returns what   *)
(* send was given, and the stream implements Port's queue of messages.     *)
(***************************************************************************)
EXTENDS StreamPort, SequenceTheorems, FiniteSetTheorems, TLAPS

USE MessageAssumption, RoomAssumption

-----------------------------------------------------------------------------
(* ReadAsSent speaks of what has been returned; what makes it inductive is *)
(* where the reader, the chunks and the writer are in the messages.        *)

Cell == Nat \X Nat
Chunk == [cells : Seq(Cell), handles : Seq(Cell)]
Receive == [header : Nat, size : Nat, handles : Nat, cells : Seq(Cell), got : Seq(Cell)]
Outcome == {"Ok", "IncompleteMessage", "TooManyHandles", "threw"}
Result == [result : Outcome, header : Nat, cells : Seq(Cell), handles : Seq(Cell)]

Last == Len(begun)

Types ==
    /\ begun \in Seq(Message) /\ received \in Seq(Result) /\ socket \in Seq(Chunk)
    /\ open \in BOOLEAN
    /\ writing # {} => open /\ Last > 0 /\ \E k \in 1..begun[Last].size + 1 :
                          writing = {[message |-> Last, next |-> k]}
    /\ reading # {} => \E r \in Receive : reading = {r} /\ Len(r.cells) <= r.size

(* The message a chunk is of, and the parts of it that are in the chunk.   *)
Of(c) == c.cells[1][1]
From(c) == c.cells[1][2]
To(c) == From(c) + Len(c.cells)

IsChunk(c) ==
    /\ Of(c) \in DOMAIN begun
    /\ Len(c.cells) > 0 /\ To(c) <= begun[Of(c)].size + 1
    /\ \A i \in DOMAIN c.cells : c.cells[i] = <<Of(c), From(c) + i - 1>>
    /\ IF From(c) = 0 THEN c.handles = HandlesOf(Of(c)) /\ To(c) = Min({ChunkCells, begun[Of(c)].size + 1})
       ELSE c.handles = <<>>

(* Part j of message i is what the stream has after part k - 1 of m.       *)
Meets(m, k, i, j) ==
    \/ i = m /\ j = k
    \/ i > m /\ j = 0 /\ (k = begun[m].size + 1 \/ m \in cut) /\ m+1..i-1 \subseteq cut

MeetsWriter(m, k) ==
    IF writing = {} THEN Meets(m, k, Last + 1, 0)
    ELSE \A w \in writing : Meets(m, k, w.message, w.next - 1)

Chained ==
    /\ \A i \in DOMAIN socket : IsChunk(socket[i])
    /\ \A i \in 1..Len(socket) - 1 :
         Meets(Of(socket[i]), To(socket[i]), Of(socket[i + 1]), From(socket[i + 1]))
    /\ socket # <<>> =>
         MeetsWriter(Of(socket[Len(socket)]), To(socket[Len(socket)]))

(* Part k of m is the next to be read.                                     *)
NextRead(m, k) ==
    IF socket # <<>> THEN Of(socket[1]) = m /\ From(socket[1]) = k
    ELSE IF writing = {} THEN m = Last + 1 /\ k = 0
    ELSE \A w \in writing : w.message = m /\ w.next - 1 = k

Follows(r, m) ==
    /\ r.header = m /\ r.size = begun[m].size /\ r.handles = begun[m].handles
    /\ \A i \in DOMAIN r.cells : r.cells[i] = <<m, i - 1>>
    /\ r.got = <<>>
    /\ r.cells # <<>> => r.handles = 0

Current == Len(received) + 1

ReaderInStep ==
    InStep(Current) =>
        IF Current <= Last
        THEN /\ reading = {} => NextRead(Current, 0)
             /\ \A r \in reading : Follows(r, Current) /\ NextRead(Current, Len(r.cells))
        ELSE /\ socket = <<>> /\ writing = {}
             /\ open => reading = {} /\ Current = Last + 1

ReturnedAsSent ==
    \A m \in DOMAIN received \cap DOMAIN begun : InStep(m) => received[m] = Whole(m)

StreamInvariant == Types /\ Chained /\ ReaderInStep /\ ReturnedAsSent

-----------------------------------------------------------------------------
(* Sequences of parts, and the smaller of two numbers.                     *)

LEMMA MinOfTwo ==
    ASSUME NEW a \in Int, NEW b \in Int
    PROVE  Min({a, b}) = IF a <= b THEN a ELSE b
  BY DEF Min

LEMMA MessageFacts ==
    ASSUME Types
    PROVE  /\ Last \in Nat /\ DOMAIN begun = 1..Last
           /\ \A m \in DOMAIN begun : /\ begun[m] \in Message
                                     /\ begun[m].size \in Nat /\ begun[m].handles \in Nat
  BY DEF Types, Last

LEMMA FunctionIsSeq ==
    ASSUME NEW S, NEW n \in Nat, NEW f \in [1..n -> S]
    PROVE  f \in Seq(S) /\ Len(f) = n
  OBVIOUS

LEMMA PartsOf ==
    ASSUME Types, NEW m \in DOMAIN begun
    PROVE  /\ CellsOf(m) \in Seq(Cell) /\ Len(CellsOf(m)) = begun[m].size + 1
           /\ \A i \in 1..begun[m].size + 1 : CellsOf(m)[i] = <<m, i - 1>>
           /\ HandlesOf(m) \in Seq(Cell) /\ Len(HandlesOf(m)) = begun[m].handles
  <1>1. begun[m].size + 1 \in Nat /\ begun[m].handles \in Nat /\ m \in Nat
    BY MessageFacts
  <1>2. \A i \in 1..begun[m].size + 1 : <<m, i - 1>> \in Cell
    BY <1>1 DEF Cell
  <1>3. \A i \in 1..begun[m].handles : <<m, i>> \in Cell
    BY <1>1 DEF Cell
  <1>4. CellsOf(m) \in [1..begun[m].size + 1 -> Cell] /\ HandlesOf(m) \in [1..begun[m].handles -> Cell]
    BY <1>2, <1>3 DEF CellsOf, HandlesOf
  <1>5. \A i \in 1..begun[m].size + 1 : CellsOf(m)[i] = <<m, i - 1>>
    BY DEF CellsOf
  <1>6. CellsOf(m) \in Seq(Cell) /\ Len(CellsOf(m)) = begun[m].size + 1
    BY <1>1, <1>4, FunctionIsSeq
  <1>7. HandlesOf(m) \in Seq(Cell) /\ Len(HandlesOf(m)) = begun[m].handles
    BY <1>1, <1>4, FunctionIsSeq
  <1> QED
    BY <1>5, <1>6, <1>7

(* What sendmsg puts in a chunk is the message's next parts, at least one. *)
LEMMA ChunkSent ==
    ASSUME Types, NEW w \in writing
    PROVE  LET c == [cells |-> SubSeq(CellsOf(w.message), w.next, ChunkEnd(w) - 1),
                     handles |-> HandlesWith(w)]
           IN  /\ c \in Chunk /\ IsChunk(c)
               /\ Of(c) = Last /\ From(c) = w.next - 1 /\ To(c) = ChunkEnd(w) - 1
               /\ w.message = Last /\ Last \in DOMAIN begun
               /\ w.next \in 1..begun[Last].size + 1
               /\ ChunkEnd(w) \in w.next + 1..begun[Last].size + 2
  <1> DEFINE size == begun[Last].size
             cells == SubSeq(CellsOf(w.message), w.next, ChunkEnd(w) - 1)
             c == [cells |-> cells, handles |-> HandlesWith(w)]
  <1>1. Last \in DOMAIN begun /\ w.message = Last /\ w.next \in 1..size + 1 /\ size \in Nat
    BY MessageFacts DEF Types
  <1>2. ChunkEnd(w) = IF w.next + ChunkCells <= size + 2 THEN w.next + ChunkCells ELSE size + 2
    BY <1>1, MinOfTwo DEF ChunkEnd
  <1>3. ChunkEnd(w) \in w.next + 1..size + 2
    BY <1>1, <1>2
  <1>4. \A i \in w.next..ChunkEnd(w) - 1 : CellsOf(Last)[i] \in Cell /\ CellsOf(Last)[i] = <<Last, i - 1>>
    <2> TAKE i \in w.next..ChunkEnd(w) - 1
    <2>1. i \in 1..size + 1
      BY <1>1, <1>3
    <2>2. CellsOf(Last)[i] = <<Last, i - 1>>
      BY <1>1, <2>1, PartsOf
    <2> QED
      BY <1>1, <2>1, <2>2, MessageFacts DEF Cell
  <1>5. /\ cells \in Seq(Cell) /\ Len(cells) = ChunkEnd(w) - w.next
        /\ \A i \in 1..ChunkEnd(w) - w.next : cells[i] = CellsOf(Last)[w.next + i - 1]
    <2>1. w.next \in Int /\ ChunkEnd(w) - 1 \in Int
      BY <1>1, <1>3
    <2>2. /\ cells \in Seq(Cell)
          /\ Len(cells) = IF w.next <= ChunkEnd(w) - 1 THEN ChunkEnd(w) - 1 - w.next + 1 ELSE 0
          /\ \A i \in 1..ChunkEnd(w) - 1 - w.next + 1 : cells[i] = CellsOf(Last)[w.next + i - 1]
      BY <1>1, <1>4, <2>1, SubSeqProperties
    <2>3. /\ w.next <= ChunkEnd(w) - 1 /\ ChunkEnd(w) - 1 - w.next + 1 = ChunkEnd(w) - w.next
      BY <1>1, <1>3
    <2> QED
      BY ONLY <2>2, <2>3
  <1> HIDE DEF cells
  <1>6. \A i \in 1..Len(cells) : cells[i] = <<Last, w.next - 1 + i - 1>>
    <2> TAKE i \in 1..Len(cells)
    <2> DEFINE j == w.next + i - 1
    <2>1. j \in w.next..ChunkEnd(w) - 1 /\ j - 1 = w.next - 1 + i - 1
      BY <1>1, <1>3, <1>5
    <2>2. cells[i] = CellsOf(Last)[j]
      BY <1>1, <1>3, <1>5
    <2> HIDE DEF j
    <2>3. CellsOf(Last)[j] = <<Last, j - 1>>
      BY <1>4, <2>1
    <2> QED
      BY <2>1, <2>2, <2>3
  <1>7. cells[1] = <<Last, w.next - 1>> /\ Len(cells) > 0
    <2>1. 1 \in 1..Len(cells) /\ w.next - 1 + 1 - 1 = w.next - 1
      BY <1>1, <1>3, <1>5
    <2> QED
      BY ONLY <1>6, <2>1
  <1>8. c.cells = cells /\ c.handles = HandlesWith(w)
    OBVIOUS
  <1>9. Of(c) = Last /\ From(c) = w.next - 1 /\ To(c) = ChunkEnd(w) - 1
    <2>1. c.cells[1][1] = Last /\ c.cells[1][2] = w.next - 1
      BY <1>7, <1>8
    <2>2. w.next - 1 + Len(c.cells) = ChunkEnd(w) - 1
      BY <1>1, <1>3, <1>5, <1>8
    <2> QED
      BY ONLY <2>1, <2>2 DEF Of, From, To
  <1>10. c \in Chunk
    <2>1. HandlesWith(w) \in Seq(Cell)
      BY <1>1, PartsOf DEF HandlesWith
    <2> QED
      BY <1>5, <2>1 DEF Chunk
  <1> HIDE DEF c
  <1>11. IF From(c) = 0 THEN c.handles = HandlesOf(Of(c)) /\ To(c) = Min({ChunkCells, size + 1})
         ELSE c.handles = <<>>
    <2>1. CASE w.next = 1
      <3>1. Min({ChunkCells, size + 1}) = IF ChunkCells <= size + 1 THEN ChunkCells ELSE size + 1
        BY <1>1, MinOfTwo
      <3>2. ChunkEnd(w) - 1 = Min({ChunkCells, size + 1})
        BY <1>1, <1>2, <2>1, <3>1
      <3>3. HandlesWith(w) = HandlesOf(Last)
        BY <1>1, <2>1 DEF HandlesWith
      <3> QED
        BY <1>8, <1>9, <2>1, <3>2, <3>3
    <2>2. CASE w.next # 1
      <3>1. HandlesWith(w) = <<>> /\ w.next - 1 # 0
        BY <1>1, <2>2 DEF HandlesWith
      <3> QED
        BY <1>8, <1>9, <3>1
    <2> QED
      BY <2>1, <2>2
  <1>12. IsChunk(c)
    <2>1. DOMAIN c.cells = 1..Len(cells) /\ Len(c.cells) > 0
      BY <1>5, <1>7, <1>8
    <2>2. \A i \in DOMAIN c.cells : c.cells[i] = <<Of(c), From(c) + i - 1>>
      BY <1>6, <1>8, <1>9, <2>1
    <2>3. To(c) <= size + 1
      BY <1>1, <1>3, <1>9
    <2> QED
      BY <1>1, <1>9, <1>11, <2>1, <2>2, <2>3 DEF IsChunk
  <1> QED
    BY <1>1, <1>3, <1>9, <1>10, <1>12 DEF c, cells

(* What recvmsg takes of the first chunk is at least a part and not more   *)
(* than it asked for; what it leaves is the rest of the chunk.             *)
Asked(r) == Min({Len(socket[1].cells), r.size + 1 - Len(r.cells)})
Rest(r) == SubSeq(socket[1].cells, Asked(r) + 1, Len(socket[1].cells))
Left(r) == [cells |-> Rest(r), handles |-> <<>>]

LEMMA FirstChunk ==
    ASSUME Types, Chained, socket # <<>>
    PROVE  /\ Len(socket) \in Nat \ {0} /\ 1 \in DOMAIN socket /\ IsChunk(socket[1])
           /\ socket[1] \in Chunk /\ socket[1] = Head(socket)
           /\ Len(socket[1].cells) \in Nat \ {0} /\ Of(socket[1]) \in Nat /\ From(socket[1]) \in Nat
           /\ DOMAIN socket[1].cells = 1..Len(socket[1].cells)
  <1>1. Len(socket) \in Nat \ {0} /\ 1 \in DOMAIN socket
    BY DEF Types
  <1>2. IsChunk(socket[1]) /\ socket[1] \in Chunk
    BY <1>1 DEF Types, Chained
  <1>3. socket[1].cells \in Seq(Cell) /\ Len(socket[1].cells) > 0
    BY <1>2 DEF Chunk, IsChunk
  <1>4. Len(socket[1].cells) \in Nat \ {0} /\ DOMAIN socket[1].cells = 1..Len(socket[1].cells)
    BY <1>3
  <1>5. socket[1].cells[1] \in Cell
    BY <1>3, <1>4
  <1>6. Of(socket[1]) \in Nat /\ From(socket[1]) \in Nat
    BY <1>5 DEF Of, From, Cell
  <1> QED
    BY <1>1, <1>2, <1>4, <1>6 DEF Types

LEMMA TakenFromChunk ==
    ASSUME Types, Chained, socket # <<>>, NEW r \in reading
    PROVE  /\ Asked(r) \in 1..Len(socket[1].cells)
           /\ Asked(r) + Len(r.cells) <= r.size + 1
           /\ Asked(r) = IF Len(socket[1].cells) <= r.size + 1 - Len(r.cells)
                         THEN Len(socket[1].cells) ELSE r.size + 1 - Len(r.cells)
           /\ SubSeq(socket[1].cells, 1, Asked(r)) \in Seq(Cell)
           /\ Len(SubSeq(socket[1].cells, 1, Asked(r))) = Asked(r)
           /\ \A i \in 1..Asked(r) : SubSeq(socket[1].cells, 1, Asked(r))[i] = socket[1].cells[i]
           /\ Taken(r, Asked(r)) \in Receive
           /\ Len(Taken(r, Asked(r)).cells) = Len(r.cells) + Asked(r)
  <1> DEFINE cells == socket[1].cells
             n == Asked(r)
             part == SubSeq(cells, 1, n)
  <1>1. r \in Receive /\ Len(r.cells) <= r.size
    BY DEF Types
  <1>2. Len(r.cells) \in Nat /\ r.size \in Nat /\ r.cells \in Seq(Cell) /\ r.got \in Seq(Cell)
    BY <1>1 DEF Receive
  <1>3. Len(cells) \in Nat \ {0} /\ cells \in Seq(Cell) /\ socket[1].handles \in Seq(Cell)
    BY FirstChunk DEF Chunk
  <1>4. n = IF Len(cells) <= r.size + 1 - Len(r.cells) THEN Len(cells) ELSE r.size + 1 - Len(r.cells)
    <2>1. n = Min({Len(cells), r.size + 1 - Len(r.cells)})
      BY DEF Asked
    <2>2. Len(cells) \in Int /\ r.size + 1 - Len(r.cells) \in Int
      BY <1>2, <1>3
    <2> QED
      BY ONLY <2>1, <2>2, MinOfTwo
  <1> HIDE DEF n, cells
  <1>5. n \in 1..Len(cells) /\ n + Len(r.cells) <= r.size + 1
    BY <1>1, <1>2, <1>3, <1>4
  <1>6. \A i \in 1..n : cells[i] \in Cell
    BY <1>3, <1>5
  <1>7. /\ part \in Seq(Cell) /\ Len(part) = n
        /\ \A i \in 1..n : part[i] = cells[i]
    <2>1. n \in Int /\ 1 \in Int /\ n - 1 + 1 = n
      BY <1>5
    <2>2. /\ part \in Seq(Cell) /\ Len(part) = IF 1 <= n THEN n - 1 + 1 ELSE 0
          /\ \A i \in 1..n - 1 + 1 : part[i] = cells[1 + i - 1]
      BY <1>6, <2>1, SubSeqProperties
    <2>3. \A i \in 1..n : part[i] = cells[i]
      <3> TAKE i \in 1..n
      <3>1. 1 + i - 1 = i
        BY <1>5
      <3> QED
        BY <2>1, <2>2, <3>1
    <2> QED
      BY <1>5, <2>1, <2>2, <2>3
  <1> HIDE DEF part
  <1>8. /\ r.cells \o part \in Seq(Cell) /\ Len(r.cells \o part) = Len(r.cells) + n
    BY <1>2, <1>5, <1>7, ConcatProperties
  <1>9. r.got \o socket[1].handles \in Seq(Cell)
    BY <1>2, <1>3, ConcatProperties
  <1>10. Taken(r, n) = [r EXCEPT !.cells = r.cells \o part, !.got = r.got \o socket[1].handles]
    BY DEF Taken, part, cells
  <1>11. Taken(r, n) \in Receive /\ Taken(r, n).cells = r.cells \o part
    BY <1>1, <1>8, <1>9, <1>10 DEF Receive
  <1> QED
    BY <1>4, <1>5, <1>7, <1>8, <1>11 DEF n, part, cells

LEMMA LeftInChunk ==
    ASSUME Types, Chained, socket # <<>>, NEW r \in reading
    PROVE  /\ Rest(r) = <<>> <=> Asked(r) = Len(socket[1].cells)
           /\ Rest(r) # <<>> =>
                /\ Left(r) \in Chunk /\ IsChunk(Left(r))
                /\ Of(Left(r)) = Of(socket[1]) /\ To(Left(r)) = To(socket[1])
                /\ From(Left(r)) > 0
  <1> DEFINE c == socket[1]
             n == Asked(r)
             rest == Rest(r)
             left == Left(r)
  <1>1. /\ Len(c.cells) \in Nat \ {0} /\ n \in 1..Len(c.cells) /\ From(c) \in Nat /\ Of(c) \in Nat
        /\ IsChunk(c) /\ c \in Chunk /\ DOMAIN c.cells = 1..Len(c.cells)
    BY FirstChunk, TakenFromChunk
  <1>2. rest = SubSeq(c.cells, n + 1, Len(c.cells))
    BY DEF Rest
  <1>3. left.cells = rest /\ left.handles = <<>>
    BY DEF Left
  <1> HIDE DEF c, n
  <1>4. \A i \in n + 1..Len(c.cells) : c.cells[i] \in Cell
    BY <1>1 DEF Chunk
  <1>5. /\ rest \in Seq(Cell) /\ Len(rest) = Len(c.cells) - n
        /\ \A i \in 1..Len(c.cells) - n : rest[i] = c.cells[n + i]
    <2>1. n + 1 \in Int /\ Len(c.cells) \in Int
      BY <1>1
    <2>2. /\ rest \in Seq(Cell)
          /\ Len(rest) = IF n + 1 <= Len(c.cells) THEN Len(c.cells) - (n + 1) + 1 ELSE 0
          /\ \A i \in 1..Len(c.cells) - (n + 1) + 1 : rest[i] = c.cells[n + 1 + i - 1]
      BY <1>2, <1>4, <2>1, SubSeqProperties
    <2>3. Len(rest) = Len(c.cells) - n
      BY <1>1, <2>2
    <2>4. \A i \in 1..Len(c.cells) - n : rest[i] = c.cells[n + i]
      <3> TAKE i \in 1..Len(c.cells) - n
      <3>1. i \in 1..Len(c.cells) - (n + 1) + 1 /\ n + 1 + i - 1 = n + i
        BY <1>1
      <3> QED
        BY <2>2, <3>1
    <2> QED
      BY <2>2, <2>3, <2>4
  <1>6. rest = <<>> <=> n = Len(c.cells)
    BY <1>1, <1>5
  <1> HIDE DEF rest, left
  <1>7. ASSUME rest # <<>>
        PROVE  /\ left \in Chunk /\ IsChunk(left)
               /\ Of(left) = Of(c) /\ To(left) = To(c) /\ From(left) > 0
    <2>1. n < Len(c.cells)
      BY <1>1, <1>6, <1>7
    <2>2. \A i \in 1..Len(rest) : rest[i] = <<Of(c), From(c) + n + i - 1>>
      <3> TAKE i \in 1..Len(rest)
      <3> DEFINE j == n + i
      <3>1. j \in DOMAIN c.cells /\ From(c) + j - 1 = From(c) + n + i - 1 /\ rest[i] = c.cells[j]
        BY <1>1, <1>5
      <3> HIDE DEF j
      <3>2. c.cells[j] = <<Of(c), From(c) + j - 1>>
        BY <1>1, <3>1 DEF IsChunk
      <3> QED
        BY <3>1, <3>2
    <2>3. rest[1] = <<Of(c), From(c) + n>>
      <3>1. 1 \in 1..Len(rest) /\ From(c) + n + 1 - 1 = From(c) + n
        BY <1>1, <1>5, <2>1
      <3> QED
        BY ONLY <2>2, <3>1
    <2>4. Of(left) = Of(c) /\ From(left) = From(c) + n
      BY <1>3, <2>3 DEF Of, From
    <2>5. To(left) = To(c)
      BY <1>1, <1>3, <1>5, <2>4 DEF To
    <2>6. From(left) > 0 /\ From(left) # 0
      BY <1>1, <2>4
    <2>7. \A i \in DOMAIN left.cells : left.cells[i] = <<Of(left), From(left) + i - 1>>
      <3>1. DOMAIN left.cells = 1..Len(rest)
        BY <1>3, <1>5
      <3> QED
        BY ONLY <1>3, <2>2, <2>4, <3>1
    <2>8. left \in Chunk
      <3>1. left = [cells |-> rest, handles |-> <<>>]
        BY DEF left, rest, Left
      <3> QED
        BY <1>5, <3>1 DEF Chunk
    <2>9. IsChunk(left)
      <3>1. Of(left) \in DOMAIN begun /\ To(left) <= begun[Of(left)].size + 1
        BY <1>1, <2>4, <2>5 DEF IsChunk
      <3>2. Len(left.cells) > 0
        BY <1>1, <1>3, <1>5, <2>1
      <3> QED
        BY <1>3, <2>6, <2>7, <3>1, <3>2 DEF IsChunk
    <2> QED
      BY <2>4, <2>5, <2>6, <2>8, <2>9
  <1> QED
    BY <1>6, <1>7 DEF c, n, rest, left

-----------------------------------------------------------------------------
(* Types.                                                                  *)

LEMMA ReturnedResult ==
    ASSUME Types, NEW result \in Outcome, NEW r \in Receive, Returned(result, r)
    PROVE  LET e == [result |-> result, header |-> r.header, cells |-> r.cells, handles |-> r.got]
           IN  /\ received' \in Seq(Result) /\ Len(received') = Current
               /\ received'[Current] = e
               /\ \A i \in 1..Len(received) : received'[i] = received[i]
  <1> DEFINE e == [result |-> result, header |-> r.header, cells |-> r.cells, handles |-> r.got]
  <1>1. e \in Result
    BY DEF Receive, Result
  <1>2. received' = Append(received, e) /\ received \in Seq(Result)
    BY DEF Returned, Types
  <1> HIDE DEF e
  <1>3. /\ received' \in Seq(Result) /\ Len(received') = Len(received) + 1
        /\ received'[Len(received) + 1] = e
        /\ \A i \in 1..Len(received) : received'[i] = received[i]
    BY <1>1, <1>2, AppendProperties
  <1> QED
    BY <1>3 DEF e, Current

LEMMA BegunGrows ==
    ASSUME Types, NEW x \in Message, begun' = Append(begun, x)
    PROVE  /\ begun' \in Seq(Message) /\ Last' = Last + 1 /\ DOMAIN begun' = 1..Last + 1
           /\ begun'[Last + 1] = x
           /\ \A m \in DOMAIN begun : m \in DOMAIN begun' /\ begun'[m] = begun[m]
  <1>1. begun \in Seq(Message) /\ Len(begun) \in Nat
    BY DEF Types
  <1> QED
    BY <1>1, AppendProperties DEF Last

LEMMA ExpectingType ==
    ASSUME NEW m \in Nat, NEW x \in Message \cup Garbage
    PROVE  /\ Expecting(m, x) \in Receive
           /\ Len(Expecting(m, x).cells) <= Expecting(m, x).size
  <1>1. x.size \in Nat /\ x.handles \in Nat /\ <<>> \in Seq(Cell) /\ Len(<<>>) = 0
    OBVIOUS
  <1> QED
    BY <1>1 DEF Expecting, Receive

LEMMA SocketSend ==
    ASSUME Types, NEW c \in Chunk, socket' = Append(socket, c)
    PROVE  /\ socket' \in Seq(Chunk) /\ socket' # <<>> /\ Len(socket') = Len(socket) + 1
           /\ socket'[Len(socket) + 1] = c
           /\ \A i \in 1..Len(socket) : socket'[i] = socket[i]
           /\ Len(socket) \in Nat
  BY AppendProperties DEF Types

LEMMA SocketTail ==
    ASSUME Types, socket # <<>>, socket' = Tail(socket)
    PROVE  /\ socket' \in Seq(Chunk) /\ Len(socket') = Len(socket) - 1
           /\ \A i \in 1..Len(socket) - 1 : socket'[i] = socket[i + 1]
  BY HeadTailProperties DEF Types

LEMMA SocketLeft ==
    ASSUME Types, socket # <<>>, NEW c \in Chunk, socket' = <<c>> \o Tail(socket)
    PROVE  /\ socket' \in Seq(Chunk) /\ Len(socket') = Len(socket) /\ socket'[1] = c
           /\ \A i \in 2..Len(socket) : socket'[i] = socket[i]
           /\ socket' # <<>>
  <1>1. /\ Tail(socket) \in Seq(Chunk) /\ Len(Tail(socket)) = Len(socket) - 1
        /\ \A i \in 1..Len(socket) - 1 : Tail(socket)[i] = socket[i + 1]
    BY HeadTailProperties DEF Types
  <1>2. <<c>> \in Seq(Chunk) /\ Len(<<c>>) = 1 /\ <<c>>[1] = c
    OBVIOUS
  <1>3. Len(socket) \in Nat \ {0}
    BY DEF Types
  <1> DEFINE one == <<c>>
             rest == Tail(socket)
  <1> HIDE DEF one, rest
  <1>4. /\ socket' \in Seq(Chunk) /\ Len(socket') = 1 + (Len(socket) - 1)
        /\ \A i \in 1..1 + (Len(socket) - 1) :
             socket'[i] = IF i <= 1 THEN one[i] ELSE rest[i - 1]
    BY <1>1, <1>2, ConcatProperties DEF one, rest
  <1>5. \A i \in 2..Len(socket) : rest[i - 1] = socket[i]
    <2> TAKE i \in 2..Len(socket)
    <2>1. i - 1 \in 1..Len(socket) - 1 /\ i - 1 + 1 = i
      BY <1>3
    <2> QED
      BY <1>1, <2>1 DEF rest
  <1>6. 1 \in 1..1 + (Len(socket) - 1) /\ 1 + (Len(socket) - 1) = Len(socket)
    BY <1>3
  <1>7. \A i \in 2..Len(socket) : i \in 1..1 + (Len(socket) - 1) /\ ~(i <= 1)
    BY <1>3
  <1>8. socket'[1] = c
    BY <1>2, <1>4, <1>6 DEF one
  <1>9. \A i \in 2..Len(socket) : socket'[i] = socket[i]
    BY <1>4, <1>5, <1>7
  <1>10. socket' # <<>>
    BY <1>3, <1>4, <1>6
  <1> QED
    BY <1>4, <1>6, <1>8, <1>9, <1>10

LEMMA FinishResult ==
    ASSUME Types, NEW r \in Receive, Finish(r)
    PROVE  /\ reading' = {} /\ received' \in Seq(Result) /\ Len(received') = Current
           /\ received'[Current] =
                [result |-> IF r.handles > 0 /\ r.got = <<>> THEN "IncompleteMessage" ELSE "Ok",
                 header |-> r.header, cells |-> r.cells, handles |-> r.got]
           /\ \A i \in 1..Len(received) : received'[i] = received[i]
  <1> DEFINE result == IF r.handles > 0 /\ r.got = <<>> THEN "IncompleteMessage" ELSE "Ok"
  <1>1. result \in Outcome
    BY DEF Outcome
  <1>2. Returned(result, r) /\ reading' = {}
    BY DEF Finish
  <1> HIDE DEF result
  <1>3. /\ received' \in Seq(Result) /\ Len(received') = Current
        /\ received'[Current] = [result |-> result, header |-> r.header,
                                 cells |-> r.cells, handles |-> r.got]
        /\ \A i \in 1..Len(received) : received'[i] = received[i]
    BY <1>1, <1>2, ReturnedResult
  <1> QED
    BY <1>2, <1>3 DEF result

(* A step that reads leaves the rest of the first chunk, or the others.    *)
LEMMA SocketRead ==
    ASSUME Types, Chained, socket # <<>>, NEW r \in reading,
           socket' = IF Rest(r) = <<>> THEN Tail(socket) ELSE <<Left(r)>> \o Tail(socket)
    PROVE  socket' \in Seq(Chunk)
  <1>1. CASE Rest(r) = <<>>
    BY <1>1, SocketTail
  <1>2. CASE Rest(r) # <<>>
    BY <1>2, LeftInChunk, SocketLeft
  <1> QED
    BY <1>1, <1>2

(* ReadChunk, in the terms above.                                          *)
LEMMA ReadChunkSteps ==
    ASSUME ReadChunk
    PROVE  /\ socket # <<>>
           /\ \E r \in reading :
                /\ socket' = IF Rest(r) = <<>> THEN Tail(socket) ELSE <<Left(r)>> \o Tail(socket)
                /\ IF Enough(Taken(r, Asked(r)), Rest(r)) THEN Finish(Taken(r, Asked(r)))
                   ELSE reading' = {Taken(r, Asked(r))} /\ UNCHANGED received
           /\ UNCHANGED <<begun, writing, open, cut>>
  BY DEF ReadChunk, HasBytes, Rest, Left, Asked

LEMMA TypesInductive == Types /\ Chained /\ [Next]_vars => Types'
  <1> SUFFICES ASSUME Types, Chained, [Next]_vars
               PROVE  Types'
    OBVIOUS
  <1>1. ASSUME NEW x \in Message, SendBegins(x)
        PROVE  Types'
    <2>1. /\ begun' = Append(begun, x) /\ writing' = {[message |-> Last + 1, next |-> 1]} /\ open
          /\ UNCHANGED <<socket, open, reading, received, cut>>
      BY <1>1 DEF SendBegins, Last
    <2>2. begun' \in Seq(Message) /\ Last' = Last + 1 /\ begun'[Last + 1] = x
      BY <2>1, BegunGrows
    <2>3. 1 \in 1..x.size + 1 /\ Last \in Nat /\ Last + 1 > 0
      BY MessageFacts
    <2>4. open' /\ Last' > 0 /\ \E k \in 1..begun'[Last'].size + 1 : writing' = {[message |-> Last', next |-> k]}
      BY <2>1, <2>2, <2>3
    <2> QED
      BY <2>1, <2>2, <2>4 DEF Types
  <1>2. ASSUME SendChunk
        PROVE  Types'
    <2>1. PICK w \in writing :
            /\ socket' = Append(socket, [cells |-> SubSeq(CellsOf(w.message), w.next, ChunkEnd(w) - 1),
                                         handles |-> HandlesWith(w)])
            /\ writing' = IF ChunkEnd(w) > begun[w.message].size + 1 THEN {}
                          ELSE {[w EXCEPT !.next = ChunkEnd(w)]}
            /\ UNCHANGED <<begun, open, reading, received, cut>>
      BY <1>2 DEF SendChunk
    <2>2. /\ [cells |-> SubSeq(CellsOf(w.message), w.next, ChunkEnd(w) - 1),
              handles |-> HandlesWith(w)] \in Chunk
          /\ w.message = Last /\ Last \in DOMAIN begun
          /\ w.next \in 1..begun[Last].size + 1
          /\ ChunkEnd(w) \in w.next + 1..begun[Last].size + 2
      BY <2>1, ChunkSent
    <2>3. socket' \in Seq(Chunk)
      BY <2>1, <2>2, SocketSend
    <2>4. /\ open /\ Last > 0 /\ w = [message |-> Last, next |-> w.next]
          /\ begun[Last].size \in Nat
      BY MessageFacts DEF Types
    <2>5. writing' # {} => \E k \in 1..begun[Last].size + 1 : writing' = {[message |-> Last, next |-> k]}
      <3> SUFFICES ASSUME writing' # {}
                   PROVE  \E k \in 1..begun[Last].size + 1 : writing' = {[message |-> Last, next |-> k]}
        OBVIOUS
      <3>1. ~(ChunkEnd(w) > begun[Last].size + 1) /\ writing' = {[w EXCEPT !.next = ChunkEnd(w)]}
        BY <2>1, <2>2
      <3>2. ChunkEnd(w) \in 1..begun[Last].size + 1
        BY <2>2, <2>4, <3>1
      <3>3. [w EXCEPT !.next = ChunkEnd(w)] = [message |-> Last, next |-> ChunkEnd(w)]
        BY <2>4
      <3> QED
        BY <3>1, <3>2, <3>3
    <2> QED
      BY <2>1, <2>3, <2>4, <2>5 DEF Types, Last
  <1>3. ASSUME SendCut \/ WriterCloses
        PROVE  Types'
    BY <1>3 DEF SendCut, WriterCloses, Types, Last
  <1>4. ASSUME Peek
        PROVE  Types'
    <2>1. /\ socket # <<>> /\ reading' = {Expecting(Of(socket[1]), begun[Of(socket[1])])}
          /\ UNCHANGED <<begun, writing, socket, open, received, cut>>
      BY <1>4 DEF Peek, AtHeader, Of
    <2>2. Of(socket[1]) \in Nat /\ begun[Of(socket[1])] \in Message
      BY <2>1, FirstChunk, MessageFacts DEF IsChunk
    <2>3. \E r \in Receive : reading' = {r} /\ Len(r.cells) <= r.size
      BY <2>1, <2>2, ExpectingType
    <2> QED
      BY <2>1, <2>3 DEF Types, Last
  <1>5. ASSUME PeekGarbage
        PROVE  Types'
    <2>1. PICK x \in Garbage :
            IF x.handles > MaxHandles
            THEN Returned("TooManyHandles", Expecting(0, x)) /\ UNCHANGED reading
            ELSE reading' = {Expecting(0, x)} /\ UNCHANGED received
      BY <1>5 DEF PeekGarbage
    <2>2. reading = {} /\ UNCHANGED <<begun, writing, socket, open, cut>>
      BY <1>5 DEF PeekGarbage, Free
    <2>3. Expecting(0, x) \in Receive /\ Len(Expecting(0, x).cells) <= Expecting(0, x).size
      BY ExpectingType
    <2>4. received' \in Seq(Result)
      <3>1. CASE x.handles > MaxHandles
        BY <2>1, <2>3, <3>1, ReturnedResult DEF Outcome
      <3> QED
        BY <2>1, <3>1 DEF Types
    <2>5. reading' # {} => \E r \in Receive : reading' = {r} /\ Len(r.cells) <= r.size
      BY <2>1, <2>2, <2>3
    <2> QED
      BY <2>2, <2>4, <2>5 DEF Types, Last
  <1>6. ASSUME ResizeThrows
        PROVE  Types'
    <2>1. PICK r \in reading : Returned("threw", r)
      BY <1>6 DEF ResizeThrows
    <2>2. r \in Receive /\ reading' = {} /\ UNCHANGED <<begun, writing, socket, open, cut>>
      BY <1>6 DEF ResizeThrows, Types
    <2>3. received' \in Seq(Result)
      BY <2>1, <2>2, ReturnedResult DEF Outcome
    <2> QED
      BY <2>2, <2>3 DEF Types, Last
  <1>7. ASSUME ReadChunk
        PROVE  Types'
    <2>1. PICK r \in reading :
            /\ socket' = IF Rest(r) = <<>> THEN Tail(socket) ELSE <<Left(r)>> \o Tail(socket)
            /\ IF Enough(Taken(r, Asked(r)), Rest(r)) THEN Finish(Taken(r, Asked(r)))
               ELSE reading' = {Taken(r, Asked(r))} /\ UNCHANGED received
      BY <1>7, ReadChunkSteps
    <2>2. socket # <<>> /\ UNCHANGED <<begun, writing, open, cut>>
      BY <1>7, ReadChunkSteps
    <2>3. socket' \in Seq(Chunk)
      BY <2>1, <2>2, SocketRead
    <2> DEFINE t == Taken(r, Asked(r))
    <2>4. /\ t \in Receive /\ Len(t.cells) = Len(r.cells) + Asked(r)
          /\ Asked(r) + Len(r.cells) <= r.size + 1 /\ t.size = r.size
          /\ Asked(r) \in Nat /\ Len(r.cells) \in Nat /\ r.size \in Nat
      <3>1. r \in Receive
        BY DEF Types
      <3>2. Len(r.cells) \in Nat /\ r.size \in Nat /\ t.size = r.size
        BY <3>1 DEF Receive, Taken
      <3>3. Asked(r) \in Nat
        BY <2>2, TakenFromChunk, FirstChunk
      <3> QED
        BY <2>2, <3>2, <3>3, TakenFromChunk
    <2> HIDE DEF t
    <2>5. CASE Enough(t, Rest(r))
      <3>1. Finish(t)
        BY <2>1, <2>5 DEF t
      <3>2. reading' = {} /\ received' \in Seq(Result)
        BY <2>4, <3>1, FinishResult
      <3> QED
        BY <2>2, <2>3, <3>2 DEF Types, Last
    <2>6. CASE ~Enough(t, Rest(r))
      <3>1. reading' = {t} /\ UNCHANGED received
        BY <2>1, <2>6 DEF t
      <3>2. Len(t.cells) # t.size + 1
        BY <2>6 DEF Enough
      <3>3. Len(t.cells) <= t.size
        BY <2>4, <3>2
      <3> QED
        BY <2>2, <2>3, <2>4, <3>1, <3>3 DEF Types, Last
    <2> QED
      BY <2>5, <2>6
  <1>8. ASSUME ReadCut \/ ReadEnds
        PROVE  Types'
    <2>1. PICK r \in reading : Finish(r)
      BY <1>8 DEF ReadCut, ReadEnds
    <2>2. r \in Receive /\ UNCHANGED <<begun, writing, socket, open>>
      BY <1>8 DEF ReadCut, ReadEnds, Types
    <2>3. reading' = {} /\ received' \in Seq(Result)
      BY <2>1, <2>2, FinishResult
    <2> QED
      BY <2>2, <2>3 DEF Types, Last
  <1>9. CASE UNCHANGED vars
    BY <1>9 DEF vars, Types, Last
  <1> QED
    BY <1>1, <1>2, <1>3, <1>4, <1>5, <1>6, <1>7, <1>8, <1>9 DEF Next, Writer, Reader

-----------------------------------------------------------------------------
(* The chunks.                                                             *)

BegunKept == \A m \in DOMAIN begun : m \in DOMAIN begun' /\ begun'[m] = begun[m]

LEMMA ChunkKept ==
    ASSUME BegunKept, NEW c, IsChunk(c)
    PROVE  IsChunk(c)'
  BY DEF BegunKept, IsChunk, Of, From, To, HandlesOf

LEMMA MeetsKept ==
    ASSUME BegunKept, cut \subseteq cut',
           NEW m \in DOMAIN begun, NEW k, NEW i, NEW j, Meets(m, k, i, j)
    PROVE  Meets(m, k, i, j)'
  BY DEF BegunKept, Meets

LEMMA WriterKept ==
    ASSUME UNCHANGED <<begun, writing, cut>>, NEW m, NEW k, MeetsWriter(m, k)
    PROVE  MeetsWriter(m, k)'
  BY DEF MeetsWriter, Meets, Last

LEMMA SocketLength ==
    ASSUME Types
    PROVE  /\ Len(socket) \in Nat /\ DOMAIN socket = 1..Len(socket)
           /\ socket # <<>> <=> Len(socket) > 0
  <1>1. socket \in Seq(Chunk)
    BY DEF Types
  <1> QED
    BY <1>1

LEMMA SendBeginsChained ==
    ASSUME Types, Chained, NEW x \in Message, SendBegins(x)
    PROVE  Chained'
  <1>1. /\ begun' = Append(begun, x) /\ writing' = {[message |-> Last + 1, next |-> 1]}
        /\ writing = {} /\ UNCHANGED <<socket, cut>>
    BY DEF SendBegins, Last
  <1>2. BegunKept
    BY <1>1, BegunGrows DEF BegunKept
  <1>3. \A i \in DOMAIN socket' : IsChunk(socket[i])'
    BY <1>1, <1>2, ChunkKept DEF Chained
  <1>4. /\ Len(socket) \in Nat /\ DOMAIN socket = 1..Len(socket)
        /\ \A i \in DOMAIN socket : Of(socket[i]) \in DOMAIN begun
    BY SocketLength DEF Chained, IsChunk
  <1>5. \A i \in 1..Len(socket') - 1 :
          Meets(Of(socket[i]), To(socket[i]), Of(socket[i + 1]), From(socket[i + 1]))'
    <2> TAKE i \in 1..Len(socket') - 1
    <2>1. Meets(Of(socket[i]), To(socket[i]), Of(socket[i + 1]), From(socket[i + 1]))
      BY <1>1 DEF Chained
    <2>2. Of(socket[i]) \in DOMAIN begun
      BY <1>1, <1>4
    <2> QED
      BY <1>1, <1>2, <2>1, <2>2, MeetsKept
  <1>6. ASSUME socket # <<>>
        PROVE  MeetsWriter(Of(socket[Len(socket)]), To(socket[Len(socket)]))'
    <2>1. PICK c, l : c = socket[Len(socket)] /\ l = Last + 1
      OBVIOUS
    <2>2. Meets(Of(c), To(c), l, 0)
      BY <1>1, <1>6, <2>1 DEF Chained, MeetsWriter
    <2>3. Of(c) \in DOMAIN begun
      BY <1>4, <1>6, <2>1, SocketLength
    <2>4. Meets(Of(c), To(c), l, 0)'
      BY <1>1, <1>2, <2>2, <2>3, MeetsKept
    <2>5. MeetsWriter(Of(c), To(c))'
      <3>1. writing' # {} /\ \A w \in writing' : w.message = l /\ w.next - 1 = 0
        BY <1>1, <2>1
      <3> QED
        BY <2>4, <3>1 DEF MeetsWriter
    <2> QED
      BY <1>1, <2>1, <2>5
  <1> QED
    BY <1>1, <1>3, <1>5, <1>6 DEF Chained

(* After a chunk the writer has sent, the stream has what it sends next.   *)
LEMMA SendChunkChained ==
    ASSUME Types, Chained, SendChunk
    PROVE  Chained'
  <1>1. PICK w \in writing :
          /\ socket' = Append(socket, [cells |-> SubSeq(CellsOf(w.message), w.next, ChunkEnd(w) - 1),
                                       handles |-> HandlesWith(w)])
          /\ writing' = IF ChunkEnd(w) > begun[w.message].size + 1 THEN {}
                        ELSE {[w EXCEPT !.next = ChunkEnd(w)]}
          /\ UNCHANGED <<begun, open, reading, received, cut>>
    BY DEF SendChunk
  <1>2. PICK c, e, l :
          /\ c = [cells |-> SubSeq(CellsOf(w.message), w.next, ChunkEnd(w) - 1),
                  handles |-> HandlesWith(w)]
          /\ e = ChunkEnd(w) /\ l = Last
    OBVIOUS
  <1>3. /\ c \in Chunk /\ IsChunk(c)
        /\ Of(c) = l /\ From(c) = w.next - 1 /\ To(c) = e - 1
        /\ w.message = l /\ l \in DOMAIN begun
        /\ w.next \in 1..begun[l].size + 1
        /\ e \in w.next + 1..begun[l].size + 2
    BY <1>2, ChunkSent
  <1>4. /\ Len(socket) \in Nat /\ Len(socket') = Len(socket) + 1 /\ socket' # <<>>
        /\ socket'[Len(socket) + 1] = c
        /\ \A i \in 1..Len(socket) : socket'[i] = socket[i]
        /\ DOMAIN socket' = 1..Len(socket) + 1 /\ DOMAIN socket = 1..Len(socket)
    <2>1. /\ socket' \in Seq(Chunk) /\ socket' # <<>> /\ Len(socket') = Len(socket) + 1
          /\ socket'[Len(socket) + 1] = c
          /\ \A i \in 1..Len(socket) : socket'[i] = socket[i]
      BY <1>1, <1>2, <1>3, SocketSend
    <2>2. DOMAIN socket' = 1..Len(socket')
      BY <2>1
    <2> QED
      BY <2>1, <2>2, SocketLength
  <1>5. BegunKept /\ begun[l].size \in Nat /\ l \in Nat /\ l = Last'
    BY <1>1, <1>2, <1>3, MessageFacts DEF BegunKept, Last
  <1>6. \A i \in DOMAIN socket' : IsChunk(socket[i])'
    <2> TAKE i \in DOMAIN socket'
    <2>1. PICK d : d = socket'[i]
      OBVIOUS
    <2>2. IsChunk(d)
      BY <1>3, <1>4, <2>1 DEF Chained
    <2>3. IsChunk(d)'
      BY <1>5, <2>2, ChunkKept
    <2> QED
      BY <2>1, <2>3
  <1>7. \A i \in 1..Len(socket') - 1 :
          Meets(Of(socket[i]), To(socket[i]), Of(socket[i + 1]), From(socket[i + 1]))'
    <2> TAKE i \in 1..Len(socket') - 1
    <2>1. PICK d, f : d = socket'[i] /\ f = socket'[i + 1]
      OBVIOUS
    <2>2. i \in 1..Len(socket) /\ d = socket[i] /\ Of(d) \in DOMAIN begun
      <3>1. i \in 1..Len(socket)
        BY <1>4
      <3>2. IsChunk(socket[i])
        BY <1>4, <3>1 DEF Chained
      <3> QED
        BY <1>4, <2>1, <3>1, <3>2 DEF IsChunk
    <2>3. Meets(Of(d), To(d), Of(f), From(f))
      <3>1. CASE i < Len(socket)
        <4>1. i \in 1..Len(socket) - 1 /\ f = socket[i + 1]
          BY <1>4, <2>1, <2>2, <3>1
        <4>2. Meets(Of(socket[i]), To(socket[i]), Of(socket[i + 1]), From(socket[i + 1]))
          BY <4>1 DEF Chained
        <4> QED
          BY <2>2, <4>1, <4>2
      <3>2. CASE i = Len(socket)
        <4>1. f = c /\ socket # <<>>
          BY <1>4, <2>1, <2>2, <3>2
        <4>2. MeetsWriter(Of(d), To(d))
          BY <2>2, <3>2, <4>1 DEF Chained
        <4>3. Meets(Of(d), To(d), w.message, w.next - 1)
          BY <4>2 DEF MeetsWriter
        <4> QED
          BY <1>3, <4>1, <4>3
      <3>3. i < Len(socket) \/ i = Len(socket)
        <4>1. i \in 1..Len(socket) /\ Len(socket) \in Nat
          BY <1>4, <2>2
        <4> QED
          BY ONLY <4>1
      <3> QED
        BY <3>1, <3>2, <3>3
    <2>4. Meets(Of(d), To(d), Of(f), From(f))'
      BY <1>1, <1>5, <2>2, <2>3, MeetsKept
    <2> QED
      BY <2>1, <2>4
  <1>8. MeetsWriter(Of(c), To(c))'
    <2>1. CASE e > begun[l].size + 1
      <3>1. writing' = {} /\ To(c) = begun[l].size + 1
        BY <1>1, <1>2, <1>3, <1>5, <2>1
      <3>2. l + 1 > l /\ l + 1..l + 1 - 1 = {}
        <4>1. l \in Int
          BY <1>5
        <4> QED
          BY ONLY <4>1
      <3>3. begun' = begun
        BY <1>1
      <3> QED
        BY <1>3, <1>5, <3>1, <3>2, <3>3 DEF MeetsWriter, Meets
    <2>2. CASE ~(e > begun[l].size + 1)
      <3>1. writing' = {[w EXCEPT !.next = e]}
        BY <1>1, <1>2, <1>3, <2>2
      <3>2. w = [message |-> l, next |-> w.next]
        BY <1>2 DEF Types
      <3>3. writing' # {} /\ \A v \in writing' : v.message = l /\ v.next - 1 = e - 1
        BY <3>1, <3>2
      <3> QED
        BY <1>3, <3>3 DEF MeetsWriter, Meets
    <2> QED
      BY <2>1, <2>2
  <1>9. c = socket'[Len(socket')]
    BY <1>4
  <1> QED
    BY <1>6, <1>7, <1>8, <1>9 DEF Chained

(* Steps that leave the chunks as they are.                                *)
LEMMA SameSocketChained ==
    ASSUME Types, Chained, UNCHANGED <<begun, socket>>, cut \subseteq cut',
           \A m \in DOMAIN begun : \A k : MeetsWriter(m, k) => MeetsWriter(m, k)'
    PROVE  Chained'
  <1>1. BegunKept
    BY DEF BegunKept
  <1>2. \A i \in DOMAIN socket' : IsChunk(socket[i])'
    BY <1>1, ChunkKept DEF Chained
  <1>3. /\ Len(socket) \in Nat /\ DOMAIN socket = 1..Len(socket)
        /\ \A i \in DOMAIN socket : Of(socket[i]) \in DOMAIN begun
    BY SocketLength DEF Chained, IsChunk
  <1>4. \A i \in 1..Len(socket') - 1 :
          Meets(Of(socket[i]), To(socket[i]), Of(socket[i + 1]), From(socket[i + 1]))'
    <2> TAKE i \in 1..Len(socket') - 1
    <2>1. Meets(Of(socket[i]), To(socket[i]), Of(socket[i + 1]), From(socket[i + 1]))
      BY DEF Chained
    <2>2. Of(socket[i]) \in DOMAIN begun
      BY <1>3
    <2> QED
      BY <1>1, <2>1, <2>2, MeetsKept
  <1>5. ASSUME socket # <<>>
        PROVE  MeetsWriter(Of(socket[Len(socket)]), To(socket[Len(socket)]))'
    <2>1. PICK c : c = socket[Len(socket)]
      OBVIOUS
    <2>2. MeetsWriter(Of(c), To(c)) /\ Of(c) \in DOMAIN begun
      BY <1>3, <1>5, <2>1, SocketLength DEF Chained
    <2>3. MeetsWriter(Of(c), To(c))'
      BY <2>2
    <2> QED
      BY <2>1, <2>3
  <1> QED
    BY <1>2, <1>4, <1>5 DEF Chained

(* A send that ends early leaves its message in cut: what follows in the   *)
(* stream is the next message.                                             *)
LEMMA WriterStopsChained ==
    ASSUME Types, Chained, UNCHANGED <<begun, socket>>, cut \subseteq cut',
           writing' = {}, \A w \in writing : w.message \in cut'
    PROVE  Chained'
  <1>1. ASSUME NEW m \in DOMAIN begun, NEW k, MeetsWriter(m, k)
        PROVE  MeetsWriter(m, k)'
    <2>1. PICK l : l = Last
      OBVIOUS
    <2>2. l = Last' /\ l \in Nat /\ m \in Nat
      BY <2>1, MessageFacts DEF Last
    <2>3. CASE writing = {}
      BY <1>1, <2>1, <2>2, <2>3 DEF MeetsWriter, Meets
    <2>4. CASE writing # {}
      <3>1. PICK w \in writing : w.message = l
        BY <2>1, <2>4 DEF Types
      <3>2. Meets(m, k, l, w.next - 1) /\ l \in cut'
        BY <1>1, <2>4, <3>1 DEF MeetsWriter
      <3>3. CASE l = m
        <4>1. m + 1 > m /\ m + 1..m + 1 - 1 = {}
          BY ONLY <2>2
        <4> QED
          BY <2>2, <3>2, <3>3, <4>1 DEF Meets, MeetsWriter
      <3>4. CASE l # m
        <4>1. l > m /\ (k = begun[m].size + 1 \/ m \in cut) /\ m + 1..l - 1 \subseteq cut
          BY <3>2, <3>4 DEF Meets
        <4>2. m + 1..l + 1 - 1 = (m + 1..l - 1) \cup {l} /\ l + 1 > m
          BY ONLY <2>2, <4>1
        <4>3. m + 1..l + 1 - 1 \subseteq cut'
          BY <3>2, <4>1, <4>2
        <4>4. Meets(m, k, l + 1, 0)'
          BY <4>1, <4>2, <4>3 DEF Meets
        <4> QED
          BY <2>2, <4>4 DEF MeetsWriter
      <3> QED
        BY <3>3, <3>4
    <2> QED
      BY <2>3, <2>4
  <1> QED
    BY <1>1, SameSocketChained

(* A read takes the first chunk, or its first part: k chunks are gone, and *)
(* the first that is left has its end.                                     *)
LEMMA SocketAfterRead ==
    ASSUME Types, Chained, ReadChunk
    PROVE  \E k \in {0, 1} :
             /\ socket' \in Seq(Chunk) /\ Len(socket') = Len(socket) - k
             /\ \A i \in 1..Len(socket) - k :
                  /\ IsChunk(socket'[i])
                  /\ Of(socket'[i]) = Of(socket[i + k]) /\ To(socket'[i]) = To(socket[i + k])
                  /\ i > 1 => From(socket'[i]) = From(socket[i + k])
  <1>1. /\ socket # <<>> /\ UNCHANGED <<begun, writing, open, cut>>
        /\ \E r \in reading :
             socket' = IF Rest(r) = <<>> THEN Tail(socket) ELSE <<Left(r)>> \o Tail(socket)
    BY ReadChunkSteps
  <1>2. PICK r \in reading :
          socket' = IF Rest(r) = <<>> THEN Tail(socket) ELSE <<Left(r)>> \o Tail(socket)
    BY <1>1
  <1>3. /\ Len(socket) \in Nat \ {0} /\ DOMAIN socket = 1..Len(socket)
        /\ \A i \in DOMAIN socket : IsChunk(socket[i]) /\ Of(socket[i]) \in DOMAIN begun
    <2>1. Len(socket) \in Nat \ {0} /\ DOMAIN socket = 1..Len(socket)
      BY <1>1, SocketLength
    <2> QED
      BY <2>1 DEF Chained, IsChunk
  <1>4. CASE Rest(r) = <<>>
    <2>1. /\ socket' \in Seq(Chunk) /\ Len(socket') = Len(socket) - 1
          /\ \A i \in 1..Len(socket) - 1 : socket'[i] = socket[i + 1]
      BY <1>1, <1>2, <1>4, SocketTail
    <2>2. \A i \in 1..Len(socket) - 1 : i + 1 \in DOMAIN socket
      BY <1>3
    <2> QED
      BY <1>3, <2>1, <2>2
  <1>5. CASE Rest(r) # <<>>
    <2>1. PICK c : c = Left(r)
      OBVIOUS
    <2>2. /\ c \in Chunk /\ IsChunk(c)
          /\ Of(c) = Of(socket[1]) /\ To(c) = To(socket[1])
      BY <1>1, <1>5, <2>1, LeftInChunk
    <2>3. /\ socket' \in Seq(Chunk) /\ Len(socket') = Len(socket) /\ socket'[1] = c
          /\ \A i \in 2..Len(socket) : socket'[i] = socket[i]
      BY <1>1, <1>2, <1>5, <2>1, <2>2, SocketLeft
    <2>4. \A i \in 1..Len(socket) - 0 :
            /\ IsChunk(socket'[i])
            /\ Of(socket'[i]) = Of(socket[i + 0]) /\ To(socket'[i]) = To(socket[i + 0])
            /\ i > 1 => From(socket'[i]) = From(socket[i + 0])
      <3> TAKE i \in 1..Len(socket) - 0
      <3>1. i + 0 = i /\ (i = 1 \/ i \in 2..Len(socket)) /\ i \in DOMAIN socket
        BY <1>3
      <3>2. CASE i = 1
        BY <2>2, <2>3, <3>1, <3>2
      <3>3. CASE i \in 2..Len(socket)
        BY <1>3, <2>3, <3>1, <3>3
      <3> QED
        BY <3>1, <3>2, <3>3
    <2>5. Len(socket') = Len(socket) - 0
      BY <1>3, <2>3
    <2> QED
      BY <2>3, <2>4, <2>5
  <1> QED
    BY <1>4, <1>5

(* So what it leaves is chained as before.                                 *)
LEMMA ReadChunkChained ==
    ASSUME Types, Chained, ReadChunk
    PROVE  Chained'
  <1>1. socket # <<>> /\ UNCHANGED <<begun, writing, open, cut>>
    BY ReadChunkSteps
  <1>2. BegunKept
    BY <1>1 DEF BegunKept
  <1>3. /\ Len(socket) \in Nat \ {0} /\ DOMAIN socket = 1..Len(socket)
        /\ \A i \in DOMAIN socket : IsChunk(socket[i]) /\ Of(socket[i]) \in DOMAIN begun
    <2>1. Len(socket) \in Nat \ {0} /\ DOMAIN socket = 1..Len(socket)
      BY <1>1, SocketLength
    <2> QED
      BY <2>1 DEF Chained, IsChunk
  <1>4. PICK k \in {0, 1} :
          /\ socket' \in Seq(Chunk) /\ Len(socket') = Len(socket) - k
          /\ \A i \in 1..Len(socket) - k :
               /\ IsChunk(socket'[i])
               /\ Of(socket'[i]) = Of(socket[i + k]) /\ To(socket'[i]) = To(socket[i + k])
               /\ i > 1 => From(socket'[i]) = From(socket[i + k])
    BY SocketAfterRead
  <1>5. DOMAIN socket' = 1..Len(socket) - k
    BY <1>4
  <1>6. \A i \in DOMAIN socket' : IsChunk(socket[i])'
    <2> TAKE i \in DOMAIN socket'
    <2>1. PICK d : d = socket'[i]
      OBVIOUS
    <2>2. IsChunk(d)'
      BY <1>2, <1>4, <1>5, <2>1, ChunkKept
    <2> QED
      BY <2>1, <2>2
  <1>7. \A i \in 1..Len(socket') - 1 :
          Meets(Of(socket[i]), To(socket[i]), Of(socket[i + 1]), From(socket[i + 1]))'
    <2> TAKE i \in 1..Len(socket') - 1
    <2>1. PICK d, e : d = socket'[i] /\ e = socket'[i + 1]
      OBVIOUS
    <2>2. /\ i \in 1..Len(socket) - k /\ i + 1 \in 1..Len(socket) - k /\ i + 1 > 1
          /\ i + k \in 1..Len(socket) - 1 /\ i + 1 + k = i + k + 1
      BY <1>3, <1>4
    <2>3. Meets(Of(socket[i + k]), To(socket[i + k]), Of(socket[i + k + 1]), From(socket[i + k + 1]))
      BY <2>2 DEF Chained
    <2>4. /\ Of(d) = Of(socket[i + k]) /\ To(d) = To(socket[i + k])
          /\ Of(e) = Of(socket[i + k + 1]) /\ From(e) = From(socket[i + k + 1])
      BY <1>4, <2>1, <2>2
    <2>5. Meets(Of(d), To(d), Of(e), From(e)) /\ Of(d) \in DOMAIN begun
      BY <1>3, <2>2, <2>3, <2>4
    <2>6. Meets(Of(d), To(d), Of(e), From(e))'
      BY <1>1, <1>2, <2>5, MeetsKept
    <2> QED
      BY <2>1, <2>6
  <1>8. ASSUME socket' # <<>>
        PROVE  MeetsWriter(Of(socket[Len(socket)]), To(socket[Len(socket)]))'
    <2>1. PICK d : d = socket'[Len(socket')]
      OBVIOUS
    <2>2. Len(socket') \in 1..Len(socket) - k /\ Len(socket') + k = Len(socket)
      BY <1>3, <1>4, <1>8
    <2>3. Of(d) = Of(socket[Len(socket)]) /\ To(d) = To(socket[Len(socket)])
      BY <1>4, <2>1, <2>2
    <2>4. MeetsWriter(Of(d), To(d))
      BY <1>1, <2>3 DEF Chained
    <2>5. MeetsWriter(Of(d), To(d))'
      BY <1>1, <2>4, WriterKept
    <2> QED
      BY <2>1, <2>5
  <1> QED
    BY <1>6, <1>7, <1>8 DEF Chained

LEMMA ChainedInductive == Types /\ Chained /\ [Next]_vars => Chained'
  <1> SUFFICES ASSUME Types, Chained, [Next]_vars
               PROVE  Chained'
    OBVIOUS
  <1>1. ASSUME SendCut
        PROVE  Chained'
    <2>1. /\ UNCHANGED <<begun, socket>> /\ cut \subseteq cut' /\ writing' = {}
          /\ \E w \in writing : w.message \in cut'
      BY <1>1 DEF SendCut
    <2>2. \A w \in writing : w.message \in cut'
      BY <2>1 DEF Types
    <2> QED
      BY <2>1, <2>2, WriterStopsChained
  <1>2. ASSUME WriterCloses
        PROVE  Chained'
    <2>1. /\ UNCHANGED <<begun, socket>> /\ cut \subseteq cut' /\ writing' = {}
          /\ \A w \in writing : w.message \in cut'
      BY <1>2 DEF WriterCloses
    <2> QED
      BY <2>1, WriterStopsChained
  <1>3. ASSUME ReadCut
        PROVE  Chained'
    <2>1. socket' = <<>>
      BY <1>3 DEF ReadCut
    <2> QED
      BY <2>1 DEF Chained
  <1>4. ASSUME UNCHANGED <<begun, writing, socket, cut>>
        PROVE  Chained'
    BY <1>4, WriterKept, SameSocketChained
  <1>5. Peek \/ PeekGarbage \/ ResizeThrows \/ ReadEnds \/ UNCHANGED vars
        => UNCHANGED <<begun, writing, socket, cut>>
    BY DEF Peek, PeekGarbage, ResizeThrows, ReadEnds, vars
  <1> QED
    BY <1>1, <1>2, <1>3, <1>4, <1>5, SendBeginsChained, SendChunkChained, ReadChunkChained
       DEF Next, Writer, Reader

-----------------------------------------------------------------------------
(* The reader.                                                             *)

(* A message that was in step stays what it was, or is spoiled.            *)
LEMMA InStepBefore ==
    ASSUME BegunKept, cut \subseteq cut', NEW m, InStep(m)'
    PROVE  InStep(m)
  BY DEF BegunKept, InStep, Spoiled

LEMMA InStepFacts ==
    ASSUME Types, NEW m \in Nat, InStep(m)
    PROVE  /\ \A k \in 1..m : InStep(k)
           /\ m \in DOMAIN begun => /\ m \notin cut
                                    /\ begun[m].handles = 0 \/ begun[m].size + 1 <= ChunkCells
  <1>1. ASSUME NEW k \in 1..m
        PROVE  InStep(k)
    BY <1>1 DEF InStep
  <1>2. ASSUME m \in DOMAIN begun
        PROVE  m \notin cut /\ (begun[m].handles = 0 \/ begun[m].size + 1 <= ChunkCells)
    <2>1. begun[m].handles \in Nat /\ begun[m].size \in Nat /\ m \in 1..m
      BY <1>2, MessageFacts
    <2>2. ~Spoiled(m)
      BY <2>1 DEF InStep
    <2> QED
      BY <1>2, <2>1, <2>2 DEF Spoiled
  <1> QED
    BY <1>1, <1>2

(* Until a message is spoiled, nothing is returned that was not sent.      *)
LEMMA NothingElse ==
    ASSUME Types, ReaderInStep, open, InStep(Last)
    PROVE  Len(received) <= Last
  <1> SUFFICES ASSUME ~(Len(received) <= Last)
               PROVE  FALSE
    OBVIOUS
  <1>1. Last \in Nat /\ DOMAIN begun = 1..Last /\ Len(received) \in Nat
    BY MessageFacts DEF Types
  <1>2. InStep(Current)
    BY <1>1 DEF InStep, Spoiled, Current
  <1>3. Current = Last + 1
    BY <1>1, <1>2 DEF ReaderInStep, Current
  <1> QED
    BY <1>1, <1>3 DEF Current

LEMMA ReturnedKept ==
    ASSUME Types, ReturnedAsSent, UNCHANGED <<begun, received>>, cut \subseteq cut'
    PROVE  ReturnedAsSent'
  <1>1. BegunKept
    BY DEF BegunKept
  <1>2. ASSUME NEW m \in DOMAIN received \cap DOMAIN begun, InStep(m)'
        PROVE  received[m] = Whole(m)
    BY <1>1, <1>2, InStepBefore DEF ReturnedAsSent
  <1>3. \A m : Whole(m)' = Whole(m)
    BY DEF Whole, CellsOf, HandlesOf
  <1> QED
    BY <1>2, <1>3 DEF ReturnedAsSent

(* A receive that returns something else returns it out of step, or at the *)
(* end of the file.                                                        *)
LEMMA ReturnsOutOfStep ==
    ASSUME Types, ReturnedAsSent,
           begun' = begun, cut \subseteq cut', received' \in Seq(Result), Len(received') = Current,
           \A i \in 1..Len(received) : received'[i] = received[i],
           NEW n, n = Current, InStep(n)' => n > Last /\ ~open' /\ socket' = <<>> /\ writing' = {}
    PROVE  ReaderInStep' /\ ReturnedAsSent'
  <1>1. Last \in Nat /\ DOMAIN begun = 1..Last /\ Len(received) \in Nat /\ Last' = Last
    BY MessageFacts DEF Types, Last
  <1>2. n \in Nat /\ Current' = n + 1 /\ DOMAIN received = 1..n - 1 /\ DOMAIN received' = 1..n
    BY <1>1 DEF Types, Current
  <1>3. ReaderInStep'
    <2> SUFFICES ASSUME InStep(Current)'
                 PROVE  /\ ~(Current <= Last)' /\ socket' = <<>> /\ writing' = {} /\ ~open'
      BY DEF ReaderInStep
    <2>1. InStep(n + 1)'
      BY <1>2
    <2>2. InStep(n)'
      BY <1>2, <2>1 DEF InStep
    <2> QED
      BY <1>1, <1>2, <2>2
  <1>4. ReturnedAsSent'
    <2>1. BegunKept
      BY DEF BegunKept
    <2>2. ASSUME NEW m \in DOMAIN received' \cap DOMAIN begun, InStep(m)'
          PROVE  received'[m] = Whole(m)
      <3>1. m # n
        BY <1>1, <1>2, <2>2
      <3>2. m \in 1..Len(received) /\ m \in DOMAIN received
        BY <1>1, <1>2, <2>2, <3>1 DEF Current
      <3>3. InStep(m)
        BY <2>1, <2>2, InStepBefore
      <3> QED
        BY <2>2, <3>2, <3>3 DEF ReturnedAsSent
    <2>3. \A m : Whole(m)' = Whole(m)
      BY DEF Whole, CellsOf, HandlesOf
    <2> QED
      BY <2>2, <2>3 DEF ReturnedAsSent
  <1> QED
    BY <1>3, <1>4

LEMMA SendBeginsRead ==
    ASSUME StreamInvariant, NEW x \in Message, SendBegins(x)
    PROVE  ReaderInStep' /\ ReturnedAsSent'
  <1> USE DEF StreamInvariant
  <1>1. /\ begun' = Append(begun, x) /\ writing' = {[message |-> Last + 1, next |-> 1]}
        /\ writing = {} /\ open /\ UNCHANGED <<socket, open, reading, received, cut>>
    BY DEF SendBegins, Last
  <1>2. BegunKept /\ Last' = Last + 1 /\ Last \in Nat /\ DOMAIN begun = 1..Last /\ DOMAIN begun' = 1..Last + 1
    BY <1>1, BegunGrows, MessageFacts DEF BegunKept
  <1>3. PICK n : n = Current
    OBVIOUS
  <1>4. n = Current' /\ n \in Nat \ {0} /\ n = Len(received) + 1 /\ DOMAIN received = 1..n - 1
    BY <1>1, <1>3 DEF Current, Types
  <1>5. \A m : InStep(m)' => InStep(m)
    BY <1>1, <1>2, InStepBefore
  <1>6. InStep(Last) => Len(received) <= Last
    BY <1>1, NothingElse
  <1>7. ASSUME InStep(n)'
        PROVE  IF n <= Last + 1
               THEN /\ reading = {} => NextRead(n, 0)'
                    /\ \A r \in reading : Follows(r, n)' /\ NextRead(n, Len(r.cells))'
               ELSE FALSE
    <2>1. InStep(n)
      BY <1>5, <1>7
    <2>2. CASE n <= Last
      <3>1. /\ reading = {} => NextRead(n, 0)
            /\ \A r \in reading : Follows(r, n) /\ NextRead(n, Len(r.cells))
        BY <1>3, <2>1, <2>2 DEF ReaderInStep
      <3>2. n \in DOMAIN begun
        BY <1>2, <1>4, <2>2
      <3>3. \A r : Follows(r, n) => Follows(r, n)'
        BY <1>2, <3>2 DEF Follows, BegunKept
      <3>4. \A k : NextRead(n, k) => NextRead(n, k)'
        BY <1>1, <1>2, <1>4, <2>2 DEF NextRead
      <3> QED
        BY <1>2, <1>4, <2>2, <3>1, <3>3, <3>4
    <2>3. CASE ~(n <= Last)
      <3>1. socket = <<>> /\ reading = {} /\ n = Last + 1
        BY <1>1, <1>3, <2>1, <2>3 DEF ReaderInStep
      <3>2. NextRead(n, 0)'
        <4>1. writing' # {} /\ \A w \in writing' : w.message = n /\ w.next - 1 = 0
          BY <1>1, <3>1
        <4> QED
          BY <1>1, <3>1, <4>1 DEF NextRead
      <3> QED
        BY <1>2, <3>1, <3>2
    <2> QED
      BY <2>2, <2>3
  <1>8. ReaderInStep'
    BY <1>1, <1>2, <1>4, <1>7 DEF ReaderInStep
  <1>9. ReturnedAsSent'
    <2>1. ASSUME NEW m \in DOMAIN received \cap DOMAIN begun', InStep(m)'
          PROVE  m \in DOMAIN begun /\ received[m] = Whole(m)
      <3>1. m \in 1..n - 1 /\ m \in 1..Last + 1
        BY <1>2, <1>4, <2>1
      <3>2. InStep(m)
        BY <1>5, <2>1
      <3>3. CASE m = Last + 1
        <4>1. Last \in 1..m \/ Last = 0
          BY <1>2, <3>3
        <4>2. InStep(Last)
          BY <1>2, <3>2, <4>1, <3>3 DEF InStep
        <4> QED
          BY <1>2, <1>4, <1>6, <3>1, <3>3, <4>2
      <3>4. CASE m # Last + 1
        BY <1>2, <2>1, <3>1, <3>2, <3>4 DEF ReturnedAsSent
      <3> QED
        BY <3>3, <3>4
    <2>2. \A m \in DOMAIN begun : Whole(m)' = Whole(m)
      BY <1>2 DEF BegunKept, Whole, CellsOf, HandlesOf
    <2> QED
      BY <1>1, <2>1, <2>2 DEF ReturnedAsSent
  <1> QED
    BY <1>8, <1>9

(* SendCut and WriterCloses: a reader in step is not at a message cut.     *)
LEMMA WriterStopsRead ==
    ASSUME StreamInvariant, UNCHANGED <<begun, socket, reading, received>>, cut \subseteq cut',
           writing' = {}, \A w \in writing : w.message \in cut', open' => open
    PROVE  ReaderInStep' /\ ReturnedAsSent'
  <1> USE DEF StreamInvariant
  <1>1. BegunKept /\ Last' = Last /\ Last \in Nat /\ DOMAIN begun = 1..Last
    BY MessageFacts DEF BegunKept, Last
  <1>2. PICK n : n = Current
    OBVIOUS
  <1>3. n = Current' /\ n \in Nat \ {0}
    BY <1>2 DEF Current, Types
  <1>4. ASSUME InStep(n)', n <= Last
        PROVE  /\ reading = {} => NextRead(n, 0)'
               /\ \A r \in reading : Follows(r, n)' /\ NextRead(n, Len(r.cells))'
    <2>1. InStep(n) /\ n \notin cut'
      BY <1>1, <1>3, <1>4, InStepBefore DEF InStep, Spoiled
    <2>2. /\ reading = {} => NextRead(n, 0)
          /\ \A r \in reading : Follows(r, n) /\ NextRead(n, Len(r.cells))
      BY <1>2, <1>4, <2>1 DEF ReaderInStep
    <2>3. \A k : NextRead(n, k) => NextRead(n, k)'
      BY <1>1, <2>1 DEF NextRead
    <2>4. \A r : Follows(r, n) => Follows(r, n)'
      BY DEF Follows
    <2> QED
      BY <2>2, <2>3, <2>4
  <1>5. ASSUME InStep(n)', ~(n <= Last)
        PROVE  socket = <<>> /\ (open => reading = {} /\ n = Last + 1)
    <2>1. InStep(n)
      BY <1>1, <1>5, InStepBefore
    <2> QED
      BY <1>2, <1>5, <2>1 DEF ReaderInStep
  <1>6. ReaderInStep'
    BY <1>1, <1>3, <1>4, <1>5 DEF ReaderInStep
  <1> QED
    BY <1>6, ReturnedKept

LEMMA SendChunkRead ==
    ASSUME StreamInvariant, SendChunk
    PROVE  ReaderInStep' /\ ReturnedAsSent'
  <1> USE DEF StreamInvariant
  <1>1. PICK w \in writing :
          /\ socket' = Append(socket, [cells |-> SubSeq(CellsOf(w.message), w.next, ChunkEnd(w) - 1),
                                       handles |-> HandlesWith(w)])
          /\ UNCHANGED <<begun, open, reading, received, cut>>
    BY DEF SendChunk
  <1>2. PICK c :
          c = [cells |-> SubSeq(CellsOf(w.message), w.next, ChunkEnd(w) - 1),
               handles |-> HandlesWith(w)]
    OBVIOUS
  <1>3. c \in Chunk /\ Of(c) = w.message /\ From(c) = w.next - 1
    BY <1>2, ChunkSent
  <1>4. /\ socket' # <<>> /\ socket'[Len(socket) + 1] = c
        /\ \A i \in 1..Len(socket) : socket'[i] = socket[i]
    BY <1>1, <1>2, <1>3, SocketSend
  <1>5. BegunKept /\ Last' = Last
    BY <1>1 DEF BegunKept, Last
  <1>6. PICK n : n = Current
    OBVIOUS
  <1>7. n = Current'
    BY <1>1, <1>6 DEF Current
  <1>8. \A k : NextRead(n, k) => NextRead(n, k)'
    <2> SUFFICES ASSUME NEW k, NextRead(n, k)
                 PROVE  Of(socket'[1]) = n /\ From(socket'[1]) = k
      BY <1>4 DEF NextRead
    <2>1. CASE socket # <<>>
      <3>1. socket'[1] = socket[1]
        BY <1>4, <2>1, SocketLength
      <3> QED
        BY <2>1, <3>1 DEF NextRead
    <2>2. CASE socket = <<>>
      <3>1. socket'[1] = c
        BY <1>4, <2>2
      <3>2. w.message = n /\ w.next - 1 = k
        BY <1>1, <2>2 DEF NextRead
      <3> QED
        BY <1>3, <3>1, <3>2
    <2> QED
      BY <2>1, <2>2
  <1>9. InStep(n)' => InStep(n)
    BY <1>1, <1>5, InStepBefore
  <1>10. \A r : Follows(r, n) => Follows(r, n)'
    BY <1>1 DEF Follows
  <1>11. ReaderInStep'
    <2>1. ASSUME InStep(n)
          PROVE  n <= Last
      BY <1>6, <2>1 DEF ReaderInStep
    <2>2. ASSUME InStep(n)
          PROVE  /\ reading = {} => NextRead(n, 0)'
                 /\ \A r \in reading : Follows(r, n)' /\ NextRead(n, Len(r.cells))'
      BY <1>6, <1>8, <1>10, <2>1, <2>2 DEF ReaderInStep
    <2> QED
      BY <1>1, <1>5, <1>7, <1>9, <2>1, <2>2 DEF ReaderInStep
  <1>12. ReturnedAsSent'
    BY <1>1, ReturnedKept
  <1> QED
    BY <1>11, <1>12

LEMMA PeekRead ==
    ASSUME StreamInvariant, Peek
    PROVE  ReaderInStep' /\ ReturnedAsSent'
  <1> USE DEF StreamInvariant
  <1>1. /\ reading = {} /\ socket # <<>> /\ From(socket[1]) = 0
        /\ reading' = {Expecting(Of(socket[1]), begun[Of(socket[1])])}
        /\ UNCHANGED <<begun, writing, socket, open, received, cut>>
    BY DEF Peek, Free, AtHeader, Of, From
  <1>2. PICK n : n = Current
    OBVIOUS
  <1>3. n = Current' /\ Last' = Last /\ BegunKept
    BY <1>1, <1>2 DEF Current, Last, BegunKept
  <1>4. ASSUME InStep(n)'
        PROVE  /\ n <= Last /\ reading' # {}
               /\ \A r \in reading' : Follows(r, n)' /\ NextRead(n, Len(r.cells))'
    <2>1. InStep(n)
      BY <1>1, <1>3, <1>4, InStepBefore
    <2>2. n <= Last /\ NextRead(n, 0)
      BY <1>1, <1>2, <2>1 DEF ReaderInStep
    <2>3. Of(socket[1]) = n
      BY <1>1, <2>2 DEF NextRead
    <2>4. PICK r : r = Expecting(n, begun[n])
      OBVIOUS
    <2>5. reading' = {r} /\ r.cells = <<>> /\ Len(r.cells) = 0 /\ DOMAIN r.cells = {}
      BY <1>1, <2>3, <2>4 DEF Expecting
    <2>6. Follows(r, n)
      BY <2>4, <2>5 DEF Follows, Expecting
    <2>7. Follows(r, n)'
      BY <1>1, <2>6 DEF Follows
    <2>8. NextRead(n, 0)'
      BY <1>1, <2>2 DEF NextRead
    <2> QED
      BY <2>2, <2>5, <2>7, <2>8
  <1>5. ReaderInStep'
    BY <1>3, <1>4 DEF ReaderInStep
  <1>6. ReturnedAsSent'
    BY <1>1, ReturnedKept
  <1> QED
    BY <1>5, <1>6

(* A header is read where there is none only out of step or at the end.    *)
LEMMA GarbageRead ==
    ASSUME StreamInvariant, PeekGarbage
    PROVE  ReaderInStep' /\ ReturnedAsSent'
  <1> USE DEF StreamInvariant
  <1>1. PICK x \in Garbage :
          IF x.handles > MaxHandles
          THEN Returned("TooManyHandles", Expecting(0, x)) /\ UNCHANGED reading
          ELSE reading' = {Expecting(0, x)} /\ UNCHANGED received
    BY DEF PeekGarbage
  <1>2. /\ reading = {} /\ ~AtHeader /\ (socket # <<>> \/ ~open)
        /\ UNCHANGED <<begun, writing, socket, open, cut>>
    BY DEF PeekGarbage, Free
  <1>3. PICK n : n = Current
    OBVIOUS
  <1>4. Last' = Last /\ Last \in Nat /\ n \in Nat /\ BegunKept
    BY <1>2, <1>3, MessageFacts DEF Current, Last, BegunKept, Types
  <1>5. ASSUME InStep(n)'
        PROVE  n > Last /\ ~open' /\ socket' = <<>> /\ writing' = {}
    <2>1. InStep(n)
      BY <1>2, <1>4, <1>5, InStepBefore
    <2>2. ~(n <= Last)
      <3> SUFFICES ASSUME n <= Last
                   PROVE  FALSE
        OBVIOUS
      <3>1. NextRead(n, 0)
        BY <1>2, <1>3, <2>1 DEF ReaderInStep
      <3>2. socket = <<>>
        BY <1>2, <3>1 DEF NextRead, AtHeader, From
      <3>3. writing = {}
        BY <1>2, <3>2 DEF Types
      <3> QED
        BY <1>4, <3>1, <3>2, <3>3 DEF NextRead
    <2>3. socket = <<>> /\ writing = {}
      BY <1>3, <2>1, <2>2 DEF ReaderInStep
    <2> QED
      BY <1>2, <1>4, <2>2, <2>3
  <1>6. Expecting(0, x) \in Receive
    BY ExpectingType
  <1>7. CASE x.handles > MaxHandles
    <2>1. Returned("TooManyHandles", Expecting(0, x))
      BY <1>1, <1>7
    <2>2. "TooManyHandles" \in Outcome
      BY DEF Outcome
    <2>3. /\ received' \in Seq(Result) /\ Len(received') = Current
          /\ \A i \in 1..Len(received) : received'[i] = received[i]
      BY <1>6, <2>1, <2>2, ReturnedResult
    <2> QED
      BY <1>2, <1>3, <1>5, <2>3, ReturnsOutOfStep
  <1>8. CASE ~(x.handles > MaxHandles)
    <2>1. UNCHANGED received
      BY <1>1, <1>8
    <2>2. n = Current'
      BY <1>3, <2>1 DEF Current
    <2>3. ReaderInStep'
      BY <1>4, <1>5, <2>2 DEF ReaderInStep
    <2>4. ReturnedAsSent'
      BY <1>2, <2>1, ReturnedKept
    <2> QED
      BY <2>3, <2>4
  <1> QED
    BY <1>7, <1>8

(* A receive that ends early is not in step, or was at the end.            *)
LEMMA EarlyEndRead ==
    ASSUME StreamInvariant, ResizeThrows \/ ReadCut \/ ReadEnds
    PROVE  ReaderInStep' /\ ReturnedAsSent'
  <1> USE DEF StreamInvariant
  <1>1. PICK r \in reading :
          /\ Finish(r) \/ Returned("threw", r)
          /\ \/ r.header = 0
             \/ r.header \in cut'
             \/ socket = <<>> /\ ~open
    BY DEF ResizeThrows, ReadCut, ReadEnds
  <1>2. UNCHANGED <<begun, writing, socket, open>> /\ cut \subseteq cut'
    BY DEF ResizeThrows, ReadCut, ReadEnds
  <1>3. PICK n : n = Current
    OBVIOUS
  <1>4. Last' = Last /\ Last \in Nat /\ n \in Nat \ {0} /\ BegunKept /\ DOMAIN begun = 1..Last
    BY <1>2, <1>3, MessageFacts DEF Current, Last, BegunKept, Types
  <1>5. ASSUME InStep(n)'
        PROVE  n > Last /\ ~open' /\ socket' = <<>> /\ writing' = {}
    <2>1. InStep(n)
      BY <1>2, <1>4, <1>5, InStepBefore
    <2>2. ~(n <= Last)
      <3> SUFFICES ASSUME n <= Last
                   PROVE  FALSE
        OBVIOUS
      <3>1. Follows(r, n) /\ NextRead(n, Len(r.cells))
        BY <1>3, <2>1 DEF ReaderInStep
      <3>2. r.header = n
        BY <3>1 DEF Follows
      <3>3. n \notin cut'
        BY <1>2, <1>4, <1>5 DEF InStep, Spoiled
      <3>4. socket = <<>> /\ ~open
        BY <1>1, <1>4, <3>2, <3>3
      <3>5. writing = {}
        BY <3>4 DEF Types
      <3> QED
        BY <1>4, <3>1, <3>4, <3>5 DEF NextRead
    <2>3. socket = <<>> /\ writing = {} /\ ~open
      BY <1>3, <2>1, <2>2 DEF ReaderInStep
    <2> QED
      BY <1>2, <1>4, <2>2, <2>3
  <1>6. r \in Receive
    BY DEF Types
  <1>7. /\ received' \in Seq(Result) /\ Len(received') = Current
        /\ \A i \in 1..Len(received) : received'[i] = received[i]
    <2>1. CASE Finish(r)
      BY <1>6, <2>1, FinishResult
    <2>2. CASE Returned("threw", r)
      <3>1. "threw" \in Outcome
        BY DEF Outcome
      <3> QED
        BY <1>6, <2>2, <3>1, ReturnedResult
    <2> QED
      BY <1>1, <2>1, <2>2
  <1> QED
    BY <1>2, <1>3, <1>5, <1>7, ReturnsOutOfStep

(* When the first chunk has been read, the next part to read is what comes *)
(* after it in the stream.                                                 *)
LEMMA NextAfterChunk ==
    ASSUME Types, Chained, socket # <<>>, socket' = Tail(socket), UNCHANGED <<begun, writing, cut>>,
           NEW m, NEW e, m = Of(socket[1]), e = To(socket[1]), NEW n, NEW k,
           \A i \in 1..Last + 1, j \in Nat :
             Meets(m, e, i, j) /\ (i \in DOMAIN begun => j <= begun[i].size) => i = n /\ j = k
    PROVE  NextRead(n, k)'
  <1>1. /\ socket' \in Seq(Chunk) /\ Len(socket') = Len(socket) - 1
        /\ \A i \in 1..Len(socket) - 1 : socket'[i] = socket[i + 1]
    BY SocketTail
  <1>2. /\ Len(socket) \in Nat \ {0} /\ DOMAIN socket = 1..Len(socket)
        /\ Last \in Nat /\ DOMAIN begun = 1..Last
    BY SocketLength, MessageFacts
  <1>3. CASE Len(socket) > 1
    <2>1. PICK c : c = socket[2]
      OBVIOUS
    <2>2. socket' # <<>> /\ socket'[1] = c
      <3>1. 1 \in 1..Len(socket) - 1 /\ Len(socket') # 0
        BY <1>1, <1>2, <1>3
      <3>2. socket'[1] = socket[1 + 1] /\ 1 + 1 = 2
        BY <1>1, <3>1
      <3>3. socket' # <<>>
        BY <3>1
      <3> QED
        BY <2>1, <3>2, <3>3
    <2>3. 1 \in 1..Len(socket) - 1 /\ 2 \in DOMAIN socket /\ 1 + 1 = 2
      BY <1>2, <1>3
    <2>4. Meets(m, e, Of(c), From(c))
      BY <2>1, <2>3 DEF Chained
    <2>5. IsChunk(c) /\ c \in Chunk
      BY <2>1, <2>3 DEF Chained, Types
    <2>6. Of(c) \in DOMAIN begun /\ From(c) \in Nat /\ From(c) <= begun[Of(c)].size
      <3>1. c.cells \in Seq(Cell) /\ Len(c.cells) > 0
        BY <2>5 DEF Chunk, IsChunk
      <3>2. Len(c.cells) \in Nat \ {0} /\ c.cells[1] \in Cell
        BY <3>1
      <3>3. From(c) \in Nat
        BY <3>2 DEF From, Cell
      <3>4. Of(c) \in DOMAIN begun /\ From(c) + Len(c.cells) <= begun[Of(c)].size + 1
        BY <2>5 DEF IsChunk, To
      <3>5. begun[Of(c)].size \in Nat
        BY <3>4, MessageFacts
      <3> QED
        BY <3>2, <3>3, <3>4, <3>5
    <2>7. Of(c) \in 1..Last + 1
      BY <1>2, <2>6
    <2>8. Of(c) = n /\ From(c) = k
      BY <2>4, <2>6, <2>7
    <2> QED
      BY <2>2, <2>8 DEF NextRead
  <1>4. CASE Len(socket) = 1
    <2>1. socket' = <<>> /\ socket[Len(socket)] = socket[1] /\ Last' = Last
      BY <1>1, <1>4 DEF Last
    <2>2. MeetsWriter(m, e)
      BY <2>1 DEF Chained
    <2>3. CASE writing = {}
      <3>1. Meets(m, e, Last + 1, 0)
        BY <2>2, <2>3 DEF MeetsWriter
      <3>2. Last + 1 \in 1..Last + 1 /\ Last + 1 \notin DOMAIN begun /\ 0 \in Nat
        BY <1>2
      <3>3. Last + 1 = n /\ 0 = k
        BY <3>1, <3>2
      <3> QED
        BY <2>1, <2>3, <3>3 DEF NextRead
    <2>4. CASE writing # {}
      <3>1. ASSUME NEW w \in writing
            PROVE  w.message = n /\ w.next - 1 = k
        <4>1. PICK i, j : i = w.message /\ j = w.next - 1
          OBVIOUS
        <4>2. Meets(m, e, i, j)
          BY <2>2, <2>4, <4>1 DEF MeetsWriter
        <4>3. i = Last /\ w.next \in 1..begun[Last].size + 1 /\ Last > 0
          BY <4>1 DEF Types
        <4>4. begun[Last].size \in Nat /\ Last \in DOMAIN begun /\ Last \in 1..Last + 1
          BY <1>2, <4>3, MessageFacts
        <4>5. j \in Nat /\ j <= begun[i].size
          BY <4>1, <4>3, <4>4
        <4>6. i = n /\ j = k
          BY <4>2, <4>3, <4>4, <4>5
        <4> QED
          BY <4>1, <4>6
      <3> QED
        BY <2>1, <2>4, <3>1 DEF NextRead
    <2> QED
      BY <2>3, <2>4
  <1> QED
    BY <1>2, <1>3, <1>4

(* A read in step takes the whole of the first chunk.                      *)
LEMMA ReadInStep ==
    ASSUME Types, Chained, socket # <<>>, NEW r \in reading, NEW n \in DOMAIN begun,
           Follows(r, n), NextRead(n, Len(r.cells))
    PROVE  LET t == Taken(r, Asked(r))
           IN  /\ Asked(r) = Len(socket[1].cells) /\ Rest(r) = <<>>
               /\ t \in Receive /\ Len(t.cells) = To(socket[1])
               /\ t.header = n /\ t.size = begun[n].size /\ t.handles = begun[n].handles
               /\ \A i \in DOMAIN t.cells : t.cells[i] = <<n, i - 1>>
               /\ t.got = socket[1].handles
               /\ To(socket[1]) \in Nat \ {0} /\ To(socket[1]) <= begun[n].size + 1
  <1> DEFINE part == SubSeq(socket[1].cells, 1, Asked(r))
             t == Taken(r, Asked(r))
  <1>0. PICK c, k, size, len :
          c = socket[1] /\ k = Len(r.cells) /\ size = begun[n].size /\ len = Len(c.cells)
    OBVIOUS
  <1>1. Of(c) = n /\ From(c) = k
    BY <1>0 DEF NextRead
  <1>2. IsChunk(c) /\ c \in Chunk /\ len \in Nat \ {0} /\ DOMAIN c.cells = 1..len
    BY <1>0, FirstChunk
  <1>3. r \in Receive /\ k <= size /\ r.size = size /\ size \in Nat
    BY <1>0, MessageFacts DEF Types, Follows
  <1>4. k \in Nat /\ r.cells \in Seq(Cell) /\ DOMAIN r.cells = 1..k
    BY <1>0, <1>3 DEF Receive
  <1>5. To(c) = k + len /\ To(c) <= size + 1
    BY <1>0, <1>1, <1>2 DEF IsChunk, To
  <1>6. Asked(r) = len
    <2>1. Asked(r) = IF len <= size + 1 - k THEN len ELSE size + 1 - k
      BY <1>0, <1>3, TakenFromChunk
    <2>2. len <= size + 1 - k
      BY <1>2, <1>3, <1>4, <1>5
    <2> QED
      BY <2>1, <2>2
  <1>7. Rest(r) = <<>>
    BY <1>0, <1>6, LeftInChunk
  <1>8. t \in Receive /\ Len(t.cells) = k + len
    BY <1>0, <1>6, TakenFromChunk
  <1>9. /\ part \in Seq(Cell) /\ Len(part) = len
        /\ \A i \in 1..len : part[i] = c.cells[i]
    BY <1>0, <1>6, TakenFromChunk
  <1>10. /\ t.header = n /\ t.size = size /\ t.handles = begun[n].handles
         /\ t.cells = r.cells \o part /\ t.got = r.got \o c.handles
    BY <1>0, <1>3 DEF Taken, Receive, Follows
  <1> HIDE DEF part, t
  <1>11. \A i \in DOMAIN t.cells : t.cells[i] = <<n, i - 1>>
    <2>1. \A i \in 1..k + len : t.cells[i] = IF i <= k THEN r.cells[i] ELSE part[i - k]
      <3>1. \A i \in 1..Len(r.cells) + Len(part) :
              (r.cells \o part)[i] = IF i <= Len(r.cells) THEN r.cells[i] ELSE part[i - Len(r.cells)]
        BY <1>4, <1>9, ConcatProperties
      <3> QED
        BY <1>0, <1>9, <1>10, <3>1
    <2>2. DOMAIN t.cells = 1..k + len
      <3>1. t.cells \in Seq(Cell)
        BY <1>8 DEF Receive
      <3> QED
        BY <1>8, <3>1
    <2> TAKE i \in DOMAIN t.cells
    <2>3. CASE i <= k
      <3>1. i \in DOMAIN r.cells
        BY <1>4, <2>2, <2>3
      <3> QED
        BY <2>1, <2>2, <2>3, <3>1 DEF Follows
    <2>4. CASE ~(i <= k)
      <3>1. PICK j : j = i - k
        OBVIOUS
      <3>2. i \in Int /\ i <= k + len
        BY <1>2, <1>4, <2>2
      <3>3. j \in 1..len /\ k + j - 1 = i - 1
        <4>1. k \in Nat /\ len \in Nat
          BY <1>2, <1>4
        <4> QED
          BY ONLY <2>4, <3>1, <3>2, <4>1
      <3>4. t.cells[i] = part[j]
        BY <2>1, <2>2, <2>4, <3>1
      <3>5. part[j] = c.cells[j]
        BY <1>9, <3>3
      <3>6. c.cells[j] = <<n, k + j - 1>>
        BY <1>1, <1>2, <3>3 DEF IsChunk
      <3> QED
        BY <3>3, <3>4, <3>5, <3>6
    <2> QED
      BY <2>3, <2>4
  <1>12. t.got = c.handles
    <2>1. r.got = <<>> /\ c.handles \in Seq(Cell)
      BY <1>2 DEF Follows, Chunk
    <2> QED
      BY <1>10, <2>1, ConcatEmptySeq
  <1>13. To(c) \in Nat \ {0}
    BY <1>2, <1>4, <1>5
  <1> QED
    BY <1>0, <1>5, <1>6, <1>7, <1>8, <1>10, <1>11, <1>12, <1>13 DEF t

LEMMA ReadChunkRead ==
    ASSUME StreamInvariant, ReadChunk
    PROVE  ReaderInStep' /\ ReturnedAsSent'
  <1> USE DEF StreamInvariant
  <1>1. socket # <<>> /\ UNCHANGED <<begun, writing, open, cut>>
    BY ReadChunkSteps
  <1>2. PICK r \in reading :
          /\ socket' = IF Rest(r) = <<>> THEN Tail(socket) ELSE <<Left(r)>> \o Tail(socket)
          /\ IF Enough(Taken(r, Asked(r)), Rest(r)) THEN Finish(Taken(r, Asked(r)))
             ELSE reading' = {Taken(r, Asked(r))} /\ UNCHANGED received
    BY ReadChunkSteps
  <1>3. PICK n, t, size, top :
          n = Current /\ t = Taken(r, Asked(r)) /\ size = begun[n].size /\ top = To(socket[1])
    OBVIOUS
  <1>4. /\ Last' = Last /\ Last \in Nat /\ n \in Nat \ {0} /\ BegunKept /\ DOMAIN begun = 1..Last
        /\ n = Len(received) + 1 /\ Len(received) \in Nat
    BY <1>1, <1>3, MessageFacts DEF Current, Last, BegunKept, Types
  <1>5. t \in Receive
    BY <1>1, <1>3, TakenFromChunk
  <1>6. \A m : InStep(m)' => InStep(m)
    BY <1>1, <1>4, InStepBefore
  <1>7. \A m : Whole(m)' = Whole(m)
    BY <1>1 DEF Whole, CellsOf, HandlesOf
  <1>8. CASE ~InStep(n)
    <2>1. ~InStep(n)'
      BY <1>6, <1>8
    <2>2. CASE Enough(t, Rest(r))
      <3>1. Finish(t)
        BY <1>2, <1>3, <2>2
      <3>2. /\ received' \in Seq(Result) /\ Len(received') = Current
            /\ \A i \in 1..Len(received) : received'[i] = received[i]
        BY <1>5, <3>1, FinishResult
      <3> QED
        BY <1>1, <1>3, <2>1, <3>2, ReturnsOutOfStep
    <2>3. CASE ~Enough(t, Rest(r))
      <3>1. UNCHANGED received
        BY <1>2, <1>3, <2>3
      <3>2. ReaderInStep'
        BY <1>3, <2>1, <3>1 DEF ReaderInStep, Current
      <3> QED
        BY <1>1, <3>1, <3>2, ReturnedKept
    <2> QED
      BY <2>2, <2>3
  <1>9. CASE InStep(n)
    <2>1. n <= Last /\ Follows(r, n) /\ NextRead(n, Len(r.cells))
      BY <1>1, <1>3, <1>9 DEF ReaderInStep
    <2>2. /\ n \in DOMAIN begun /\ n \notin cut /\ size \in Nat /\ begun[n].handles \in Nat
          /\ begun[n].handles = 0 \/ size + 1 <= ChunkCells
      BY <1>3, <1>4, <1>9, <2>1, InStepFacts, MessageFacts
    <2>3. /\ Rest(r) = <<>> /\ socket' = Tail(socket)
          /\ Len(t.cells) = top /\ top \in Nat \ {0} /\ top <= size + 1
          /\ t.header = n /\ t.size = size /\ t.handles = begun[n].handles
          /\ \A i \in DOMAIN t.cells : t.cells[i] = <<n, i - 1>>
          /\ t.got = socket[1].handles
      BY <1>1, <1>2, <1>3, <2>1, <2>2, ReadInStep
    <2>4. /\ HandlesOf(n) \in Seq(Cell) /\ Len(HandlesOf(n)) = begun[n].handles
          /\ HandlesOf(n) = <<>> <=> begun[n].handles = 0
      BY <2>2, PartsOf
    (* The handles came with the first part, and with nothing else. *)
    <2>5. /\ t.got = HandlesOf(n)
          /\ top < size + 1 => begun[n].handles = 0
      <3>1. /\ IsChunk(socket[1]) /\ From(socket[1]) = Len(r.cells) /\ Of(socket[1]) = n
        BY <1>1, <2>1, FirstChunk DEF NextRead
      <3>2. CASE From(socket[1]) = 0
        <4>1. t.got = HandlesOf(n) /\ top = Min({ChunkCells, size + 1})
          BY <1>3, <2>3, <3>1, <3>2 DEF IsChunk
        <4>2. top = IF ChunkCells <= size + 1 THEN ChunkCells ELSE size + 1
          BY <2>2, <4>1, MinOfTwo
        <4> QED
          BY <2>2, <4>1, <4>2
      <3>3. CASE From(socket[1]) # 0
        <4>1. t.got = <<>>
          BY <2>3, <3>1, <3>3 DEF IsChunk
        <4>2. r.cells # <<>>
          BY <3>1, <3>3
        <4>3. begun[n].handles = 0
          BY <2>1, <4>2 DEF Follows
        <4> QED
          BY <2>4, <4>1, <4>3
      <3> QED
        BY <3>2, <3>3
    <2>6. CASE top = size + 1
      <3>1. Finish(t)
        BY <1>2, <1>3, <2>3, <2>6 DEF Enough
      <3>2. /\ reading' = {} /\ received' \in Seq(Result) /\ Len(received') = n
            /\ received'[n] =
                 [result |-> IF t.handles > 0 /\ t.got = <<>> THEN "IncompleteMessage" ELSE "Ok",
                  header |-> t.header, cells |-> t.cells, handles |-> t.got]
            /\ \A i \in 1..Len(received) : received'[i] = received[i]
        BY <1>3, <1>5, <3>1, FinishResult
      <3>3. t.cells = CellsOf(n)
        <4>1. /\ CellsOf(n) \in Seq(Cell) /\ Len(CellsOf(n)) = size + 1
              /\ \A i \in 1..size + 1 : CellsOf(n)[i] = <<n, i - 1>>
          BY <1>3, <2>2, PartsOf
        <4>2. t.cells \in Seq(Cell) /\ DOMAIN t.cells = 1..size + 1
          BY <1>5, <2>3, <2>6 DEF Receive
        <4>3. Len(t.cells) = size + 1 /\ \A i \in 1..size + 1 : t.cells[i] = <<n, i - 1>>
          BY <2>3, <2>6, <4>2
        <4>4. Len(t.cells) = Len(CellsOf(n)) /\ \A i \in 1..Len(t.cells) : t.cells[i] = CellsOf(n)[i]
          BY <4>1, <4>3
        <4> QED
          BY <4>1, <4>2, <4>4, SeqEqual
      <3>4. received'[n] = Whole(n)
        <4>1. ~(t.handles > 0 /\ t.got = <<>>)
          BY <2>2, <2>3, <2>4, <2>5
        <4> QED
          BY <2>3, <2>5, <3>2, <3>3, <4>1 DEF Whole
      <3>5. ReturnedAsSent'
        <4>1. ASSUME NEW m \in DOMAIN received' \cap DOMAIN begun, InStep(m)'
              PROVE  received'[m] = Whole(m)
          <5>1. CASE m = n
            BY <3>4, <5>1
          <5>2. CASE m # n
            <6>1. m \in 1..n
              BY <3>2
            <6>2. m \in 1..Len(received) /\ m \in DOMAIN received
              BY <1>4, <5>2, <6>1 DEF Types
            <6> QED
              BY <1>6, <3>2, <4>1, <6>2 DEF ReturnedAsSent
          <5> QED
            BY <5>1, <5>2
        <4> QED
          BY <1>1, <1>7, <4>1 DEF ReturnedAsSent
      <3>6. ASSUME InStep(n + 1)'
            PROVE  NextRead(n + 1, 0)'
        <4>1. InStep(n + 1)
          BY <1>6, <3>6
        <4>2. n + 1 <= Last => n + 1 \notin cut
          BY <1>4, <4>1 DEF InStep, Spoiled
        <4>3. ASSUME NEW i \in 1..Last + 1, NEW j \in Nat, Meets(n, top, i, j),
                     i \in DOMAIN begun => j <= begun[i].size
              PROVE  i = n + 1 /\ j = 0
          <5>1. ~(i = n /\ j = top)
            BY <1>3, <2>2, <2>6, <4>3
          <5>2. i > n /\ j = 0 /\ n + 1..i - 1 \subseteq cut
            BY <4>3, <5>1 DEF Meets
          <5>3. ~(i > n + 1)
            BY <1>4, <4>2, <5>2
          <5> QED
            BY <1>4, <5>2, <5>3
        <4>4. Of(socket[1]) = n
          BY <1>1, <2>1 DEF NextRead
        <4> QED
          BY <1>1, <1>3, <2>3, <4>3, <4>4, NextAfterChunk
      <3>7. ReaderInStep'
        <4>1. Current' = n + 1
          BY <3>2 DEF Current
        <4>2. CASE n + 1 <= Last
          BY <1>4, <3>2, <3>6, <4>1, <4>2 DEF ReaderInStep
        <4>3. CASE ~(n + 1 <= Last)
          <5>1. n + 1 = Last + 1
            BY <1>4, <2>1, <4>3
          <5>2. ASSUME NextRead(n + 1, 0)'
                PROVE  socket' = <<>> /\ writing' = {}
            <6>1. Types' /\ Chained'
              BY TypesInductive, ChainedInductive DEF Next, Reader
            <6>2. socket' = <<>>
              <7> SUFFICES ASSUME socket' # <<>>
                           PROVE  FALSE
                OBVIOUS
              <7>1. 1 \in DOMAIN socket' /\ IsChunk(socket[1])'
                BY <6>1 DEF Types, Chained
              <7>2. Of(socket'[1]) \in DOMAIN begun
                BY <1>1, <7>1 DEF IsChunk
              <7> QED
                BY <1>4, <5>1, <5>2, <7>2 DEF NextRead
            <6>3. \A w \in writing : w.message = Last
              BY DEF Types
            <6> QED
              BY <1>1, <1>4, <5>1, <5>2, <6>2, <6>3 DEF NextRead
          <5> QED
            BY <1>4, <3>2, <3>6, <4>1, <4>3, <5>1, <5>2 DEF ReaderInStep
        <4> QED
          BY <4>2, <4>3
      <3> QED
        BY <3>5, <3>7
    <2>7. CASE top # size + 1
      <3>1. top < size + 1 /\ begun[n].handles = 0 /\ t.got = <<>>
        BY <2>2, <2>3, <2>4, <2>5, <2>7
      <3>2. ~Enough(t, Rest(r))
        BY <2>3, <3>1, <2>7 DEF Enough
      <3>3. reading' = {t} /\ UNCHANGED received
        BY <1>2, <1>3, <3>2
      <3>4. Follows(t, n)'
        BY <1>1, <1>3, <2>3, <3>1 DEF Follows
      <3>5. ASSUME NEW i \in 1..Last + 1, NEW j \in Nat, Meets(n, top, i, j),
                   i \in DOMAIN begun => j <= begun[i].size
            PROVE  i = n /\ j = top
        BY <1>3, <2>2, <2>7, <3>5 DEF Meets
      <3>6. Of(socket[1]) = n
        BY <1>1, <2>1 DEF NextRead
      <3>7. NextRead(n, top)'
        BY <1>1, <1>3, <2>3, <3>5, <3>6, NextAfterChunk
      <3>8. n = Current'
        BY <1>3, <3>3 DEF Current
      <3>9. ReaderInStep'
        BY <1>4, <2>1, <2>3, <3>3, <3>4, <3>7, <3>8 DEF ReaderInStep
      <3> QED
        BY <1>1, <3>3, <3>9, ReturnedKept
    <2> QED
      BY <2>6, <2>7
  <1> QED
    BY <1>8, <1>9

LEMMA StreamInductive == StreamInvariant /\ [Next]_vars => StreamInvariant'
  <1> SUFFICES ASSUME StreamInvariant, [Next]_vars
               PROVE  StreamInvariant'
    OBVIOUS
  <1>1. Types' /\ Chained'
    BY TypesInductive, ChainedInductive DEF StreamInvariant
  <1>2. ASSUME SendCut
        PROVE  ReaderInStep' /\ ReturnedAsSent'
    <2>1. /\ UNCHANGED <<begun, socket, open, reading, received>> /\ cut \subseteq cut' /\ writing' = {}
          /\ \E w \in writing : w.message \in cut'
      BY <1>2 DEF SendCut
    <2>2. \A w \in writing : w.message \in cut'
      BY <2>1 DEF StreamInvariant, Types
    <2> QED
      BY <2>1, <2>2, WriterStopsRead
  <1>3. ASSUME WriterCloses
        PROVE  ReaderInStep' /\ ReturnedAsSent'
    <2>1. /\ UNCHANGED <<begun, socket, reading, received>> /\ cut \subseteq cut' /\ writing' = {}
          /\ open /\ \A w \in writing : w.message \in cut'
      BY <1>3 DEF WriterCloses
    <2> QED
      BY <2>1, WriterStopsRead
  <1>4. ASSUME UNCHANGED vars
        PROVE  ReaderInStep' /\ ReturnedAsSent'
    <2>1. ReturnedAsSent'
      BY <1>4, ReturnedKept DEF vars, StreamInvariant
    <2>2. ReaderInStep'
      BY <1>4 DEF vars, StreamInvariant, ReaderInStep, InStep, Spoiled, NextRead, Follows, Current, Last
    <2> QED
      BY <2>1, <2>2
  <1>5. ReaderInStep' /\ ReturnedAsSent'
    BY <1>2, <1>3, <1>4, SendBeginsRead, SendChunkRead, PeekRead, GarbageRead, EarlyEndRead, ReadChunkRead
       DEF Next, Writer, Reader
  <1> QED
    BY <1>1, <1>5 DEF StreamInvariant

LEMMA StreamInit == Init => StreamInvariant
  <1> SUFFICES ASSUME Init
               PROVE  StreamInvariant
    OBVIOUS
  <1>1. /\ begun = <<>> /\ socket = <<>> /\ received = <<>> /\ writing = {} /\ reading = {} /\ open = TRUE
        /\ Last = 0 /\ Current = 1 /\ DOMAIN received = {}
    BY DEF Init, Last, Current
  <1>2. Types
    BY <1>1 DEF Types
  <1>3. Chained
    BY <1>1 DEF Chained
  <1>4. ReaderInStep
    BY <1>1 DEF ReaderInStep
  <1>5. ReturnedAsSent
    BY <1>1 DEF ReturnedAsSent
  <1> QED
    BY <1>2, <1>3, <1>4, <1>5 DEF StreamInvariant

(* For any messages, garbage, chunks and room in the socket, and for any   *)
(* schedule of the two ends, their signals and the close: the receives     *)
(* return what the sends were given, up to the first spoiled message.      *)
THEOREM StreamIsFramed == Spec => []ReadAsSent
  <1>1. Spec => []StreamInvariant
    BY StreamInit, StreamInductive, PTL DEF Spec
  <1>2. StreamInvariant => ReadAsSent
    BY NothingElse DEF StreamInvariant, ReadAsSent, ReturnedAsSent, Last
  <1> QED
    BY <1>1, <1>2, PTL

-----------------------------------------------------------------------------
(* The stream as Port's queue.  The messages that wait in it are at most   *)
(* as many as the chunks, and the one being sent: that there is room for   *)
(* another follows from no message being without a chunk.                  *)

Dense ==
    InStep(Last) =>
        \A j \in 1..Len(socket) : \A i \in 1..j : Of(socket[j]) <= Of(socket[i]) + (j - i)

LEMMA NoMessageSkipped ==
    ASSUME Types, InStep(Last), NEW m \in DOMAIN begun, NEW k, NEW i \in Nat, NEW j, i <= Last,
           Meets(m, k, i, j)
    PROVE  i <= m + 1
  <1> SUFFICES ASSUME i > m + 1
               PROVE  FALSE
    BY MessageFacts
  <1>1. Last \in Nat /\ DOMAIN begun = 1..Last /\ m \in Nat \ {0}
    BY MessageFacts
  <1>2. m + 1 \in cut /\ m + 1 \in 1..Last
    BY <1>1 DEF Meets
  <1> QED
    BY <1>1, <1>2 DEF InStep, Spoiled

LEMMA DenseInit == Init => Dense
  <1> SUFFICES ASSUME Init
               PROVE  Dense
    OBVIOUS
  <1>1. 1..Len(socket) = {}
    BY DEF Init
  <1> QED
    BY <1>1 DEF Dense

(* In step, the last chunk is of the message being sent or of the one      *)
(* before it.                                                              *)
LEMMA LastChunk ==
    ASSUME StreamInvariant, InStep(Last), NEW w \in writing, socket # <<>>
    PROVE  /\ Len(socket) \in Nat \ {0} /\ Len(socket) \in DOMAIN socket
           /\ Of(socket[Len(socket)]) \in DOMAIN begun
           /\ Last <= Of(socket[Len(socket)]) + 1
  <1>1. Len(socket) \in Nat \ {0} /\ Len(socket) \in DOMAIN socket
    BY SocketLength DEF StreamInvariant
  <1>2. Of(socket[Len(socket)]) \in DOMAIN begun
    BY <1>1 DEF StreamInvariant, Chained, IsChunk
  <1>3. Meets(Of(socket[Len(socket)]), To(socket[Len(socket)]), w.message, w.next - 1)
    BY DEF StreamInvariant, Chained, MeetsWriter
  <1>4. w.message = Last /\ Last \in Nat
    BY MessageFacts DEF StreamInvariant, Types
  <1>5. Last <= Last
    BY <1>4
  <1>6. Last <= Of(socket[Len(socket)]) + 1
    BY <1>2, <1>3, <1>4, <1>5, NoMessageSkipped DEF StreamInvariant
  <1> QED
    BY <1>1, <1>2, <1>6

(* If all that was sent is in step after a step, it was before.            *)
LEMMA AllInStepBefore ==
    ASSUME Types, BegunKept, cut \subseteq cut', Last' = Last \/ Last' = Last + 1, InStep(Last)'
    PROVE  InStep(Last)
  <1>1. \A k \in 1..Last : k \in 1..Last'
    BY MessageFacts
  <1>2. \A k \in 1..Last' : ~Spoiled(k)'
    BY DEF InStep
  <1>3. \A k : Spoiled(k) => Spoiled(k)'
    BY DEF BegunKept, Spoiled
  <1> QED
    BY <1>1, <1>2, <1>3 DEF InStep

LEMMA DenseInductive == StreamInvariant /\ Dense /\ [Next]_vars => Dense'
  <1> SUFFICES ASSUME StreamInvariant, Dense, [Next]_vars
               PROVE  Dense'
    OBVIOUS
  <1>1. /\ Last \in Nat /\ DOMAIN begun = 1..Last
        /\ Len(socket) \in Nat /\ DOMAIN socket = 1..Len(socket)
        /\ \A i \in DOMAIN socket : Of(socket[i]) \in Nat
    <2>1. /\ Last \in Nat /\ DOMAIN begun = 1..Last
          /\ Len(socket) \in Nat /\ DOMAIN socket = 1..Len(socket)
      BY MessageFacts, SocketLength DEF StreamInvariant
    <2>2. ASSUME NEW i \in DOMAIN socket
          PROVE  Of(socket[i]) \in Nat
      <3>1. Of(socket[i]) \in DOMAIN begun
        BY DEF StreamInvariant, Chained, IsChunk
      <3> QED
        BY <2>1, <3>1
    <2> QED
      BY <2>1, <2>2
  <1>2. ASSUME UNCHANGED socket, InStep(Last)' => InStep(Last)
        PROVE  Dense'
    BY <1>2 DEF Dense
  <1>3. ASSUME UNCHANGED begun, cut \subseteq cut'
        PROVE  InStep(Last)' => InStep(Last)
    <2>1. BegunKept /\ Last' = Last
      BY <1>3 DEF BegunKept, Last
    <2> QED
      BY <1>3, <2>1, AllInStepBefore DEF StreamInvariant
  <1>4. ASSUME NEW x \in Message, SendBegins(x)
        PROVE  Dense'
    <2>1. begun' = Append(begun, x) /\ UNCHANGED <<socket, cut>>
      BY <1>4 DEF SendBegins
    <2>2. BegunKept /\ Last' = Last + 1
      BY <2>1, BegunGrows DEF BegunKept, StreamInvariant
    <2>3. InStep(Last)' => InStep(Last)
      BY <2>1, <2>2, AllInStepBefore DEF StreamInvariant
    <2> QED
      BY <1>2, <2>1, <2>3
  <1>5. ASSUME SendChunk
        PROVE  Dense'
    <2>1. PICK w \in writing :
            /\ socket' = Append(socket, [cells |-> SubSeq(CellsOf(w.message), w.next, ChunkEnd(w) - 1),
                                         handles |-> HandlesWith(w)])
            /\ UNCHANGED <<begun, cut>>
      BY <1>5 DEF SendChunk
    <2>2. PICK c : c = [cells |-> SubSeq(CellsOf(w.message), w.next, ChunkEnd(w) - 1),
                        handles |-> HandlesWith(w)]
      OBVIOUS
    <2>3. c \in Chunk /\ Of(c) = Last
      BY <2>2, ChunkSent DEF StreamInvariant
    <2>4. /\ Len(socket') = Len(socket) + 1 /\ socket'[Len(socket) + 1] = c
          /\ \A i \in 1..Len(socket) : socket'[i] = socket[i]
      BY <2>1, <2>2, <2>3, SocketSend DEF StreamInvariant
    <2> SUFFICES ASSUME InStep(Last)',
                        NEW j \in 1..Len(socket'), NEW i \in 1..j
                 PROVE  Of(socket'[j]) <= Of(socket'[i]) + (j - i)
      BY DEF Dense
    <2>5. InStep(Last)
      BY <1>3, <2>1
    <2>6. CASE j <= Len(socket)
      <3>1. j \in 1..Len(socket) /\ socket'[j] = socket[j] /\ socket'[i] = socket[i]
        BY <1>1, <2>4, <2>6
      <3> QED
        BY <2>5, <3>1 DEF Dense
    <2>7. CASE j = Len(socket) + 1 /\ i = j
      <3>1. socket'[j] = c /\ socket'[i] = c /\ j - i = 0
        BY <1>1, <2>4, <2>7
      <3> QED
        BY <1>1, <2>3, <3>1
    <2>8. CASE j = Len(socket) + 1 /\ i # j
      <3>1. PICK k, p, q : k = Len(socket) /\ p = Of(socket[i]) /\ q = Of(socket[k])
        OBVIOUS
      <3>2. i \in 1..k /\ k \in 1..Len(socket) /\ k \in Nat \ {0} /\ socket # <<>>
        BY <1>1, <2>8, <3>1
      <3>3. q <= p + (k - i)
        BY <2>5, <3>1, <3>2 DEF Dense
      <3>4. Last <= q + 1
        BY <2>5, <3>1, <3>2, LastChunk
      <3>5. p \in Nat /\ q \in Nat
        BY <1>1, <3>1, <3>2
      <3>6. Last <= p + (j - i)
        BY <1>1, <2>8, <3>1, <3>2, <3>3, <3>4, <3>5
      <3> QED
        BY <2>3, <2>4, <2>8, <3>1, <3>2, <3>6
    <2> QED
      BY <1>1, <2>4, <2>6, <2>7, <2>8
  <1>6. ASSUME ReadChunk
        PROVE  Dense'
    <2>1. UNCHANGED <<begun, cut>>
      BY <1>6, ReadChunkSteps
    <2>2. PICK k \in {0, 1} :
            /\ Len(socket') = Len(socket) - k
            /\ \A i \in 1..Len(socket) - k : Of(socket'[i]) = Of(socket[i + k])
      BY <1>6, SocketAfterRead DEF StreamInvariant
    <2> SUFFICES ASSUME InStep(Last)',
                        NEW j \in 1..Len(socket'), NEW i \in 1..j
                 PROVE  Of(socket'[j]) <= Of(socket'[i]) + (j - i)
      BY DEF Dense
    <2>3. InStep(Last)
      BY <1>3, <2>1
    <2>4. /\ j \in 1..Len(socket) - k /\ i \in 1..Len(socket) - k
          /\ j + k \in 1..Len(socket) /\ i + k \in 1..j + k /\ (j + k) - (i + k) = j - i
      BY <1>1, <2>2
    <2>5. Of(socket[j + k]) <= Of(socket[i + k]) + ((j + k) - (i + k))
      BY <2>3, <2>4 DEF Dense
    <2> QED
      BY <2>2, <2>4, <2>5
  <1>7. ASSUME SendCut \/ WriterCloses \/ Peek \/ PeekGarbage \/ ResizeThrows
               \/ ReadCut \/ ReadEnds \/ UNCHANGED vars
        PROVE  Dense'
    <2>1. UNCHANGED <<begun, socket>> /\ cut \subseteq cut'
      BY <1>7 DEF SendCut, WriterCloses, Peek, PeekGarbage, ResizeThrows, ReadCut, ReadEnds, vars
    <2> QED
      BY <1>2, <1>3, <2>1
  <1> QED
    BY <1>4, <1>5, <1>6, <1>7 DEF Next, Writer, Reader
LEMMA SentIs == Types => Sent = IF writing = {} THEN Last ELSE Last - 1
  <1> SUFFICES ASSUME Types
               PROVE  Sent = IF writing = {} THEN Last ELSE Last - 1
    OBVIOUS
  <1>1. Last \in Nat
    BY MessageFacts
  <1>2. writing # {} => Cardinality(writing) = 1
    BY FS_Singleton DEF Types
  <1>3. writing = {} => Cardinality(writing) = 0
    BY FS_EmptySet
  <1> QED
    BY <1>1, <1>2, <1>3 DEF Sent, Last

LEMMA SentIsNext == Types' => (Sent = IF writing = {} THEN Last ELSE Last - 1)'
  BY SentIs, PTL

(* NothingElse, of the next state.                                         *)
LEMMA NothingElseNext ==
    (StreamInvariant /\ open /\ InStep(Last))' => (Len(received) <= Last)'
  <1>1. StreamInvariant /\ open /\ InStep(Last) => Len(received) <= Last
    BY NothingElse DEF StreamInvariant
  <1> QED
    BY <1>1, PTL

LEMMA SendsAsPort ==
    ASSUME NEW m, Len(Unread) < SocketChunks + 1, Unread' = Append(Unread, m)
    PROVE  AsPort!ClientSends("writer", m)
  <1> DEFINE queue == [c \in {"writer"} |-> Unread]
  <1>1. queue["writer"] = Unread /\ queue' = [c \in {"writer"} |-> Unread']
    OBVIOUS
  <1>2. [queue EXCEPT !["writer"] = Append(@, m)] = [c \in {"writer"} |-> Append(Unread, m)]
    OBVIOUS
  <1> QED
    BY <1>1, <1>2 DEF AsPort!ClientSends

LEMMA ReceivesAsPort ==
    ASSUME Unread # <<>>, Unread' = Tail(Unread)
    PROVE  AsPort!RouterReceives("writer")
  <1> DEFINE queue == [c \in {"writer"} |-> Unread]
  <1>1. queue["writer"] = Unread /\ queue' = [c \in {"writer"} |-> Unread']
    OBVIOUS
  <1>2. [queue EXCEPT !["writer"] = Tail(@)] = [c \in {"writer"} |-> Tail(Unread)]
    OBVIOUS
  <1> QED
    BY <1>1, <1>2 DEF AsPort!RouterReceives

(* The reader is at most one past the message being sent: as many messages *)
(* wait as there are between them, and each of them has a chunk.           *)
LEMMA RoomForAnother ==
    ASSUME StreamInvariant, Dense, InStep(Last), writing # {}, Len(socket) < SocketChunks
    PROVE  Current \in 1..Last /\ Last - Current <= Len(socket)
  <1>1. /\ Last \in Nat /\ DOMAIN begun = 1..Last /\ Len(received) \in Nat /\ Len(socket) \in Nat
    BY MessageFacts, SocketLength DEF StreamInvariant, Types
  <1>2. PICK n : n = Current
    OBVIOUS
  <1>3. n \in Nat \ {0}
    BY <1>1, <1>2 DEF Current
  <1>4. InStep(n)
    BY <1>1, <1>3 DEF InStep, Spoiled
  <1>5. n <= Last
    BY <1>2, <1>4 DEF StreamInvariant, ReaderInStep
  <1>6. \E k : NextRead(n, k)
    BY <1>2, <1>4, <1>5 DEF StreamInvariant, ReaderInStep
  <1>7. PICK w \in writing : w.message = Last
    BY DEF StreamInvariant, Types
  <1>8. CASE socket = <<>>
    <2>1. n = Last
      BY <1>6, <1>7, <1>8 DEF NextRead
    <2> QED
      BY <1>1, <1>2, <1>3, <2>1
  <1>9. CASE socket # <<>>
    <2>1. PICK k, q : k = Len(socket) /\ q = Of(socket[k])
      OBVIOUS
    <2>2. k \in Nat \ {0} /\ q \in Nat /\ Last <= q + 1
      BY <1>1, <1>9, <2>1, LastChunk
    <2>3. Of(socket[1]) = n
      BY <1>6, <1>9 DEF NextRead
    <2>4. q <= n + (k - 1)
      BY <2>1, <2>2, <2>3 DEF Dense
    <2>5. n \in 1..Last /\ Last - n <= k
      BY <1>1, <1>3, <1>5, <2>2, <2>4
    <2> QED
      BY <1>2, <2>1, <2>5
  <1> QED
    BY <1>8, <1>9

LEMMA SendImplementsPort ==
    ASSUME StreamInvariant, Dense, SendChunk, writing' = {}, InStep(Last)'
    PROVE  \E m \in Message : AsPort!ClientSends("writer", m)
  <1>1. writing # {} /\ Len(socket) < SocketChunks /\ UNCHANGED <<begun, received, cut>>
    BY DEF SendChunk
  <1>2. InStep(Last)
    BY <1>1 DEF InStep, Spoiled, Last
  <1>3. PICK n, l : n = Current /\ l = Last
    OBVIOUS
  <1>4. n \in 1..l /\ l - n <= Len(socket) /\ Len(socket) \in Nat /\ l \in Nat /\ n \in Nat
    BY <1>1, <1>2, <1>3, RoomForAnother, MessageFacts, SocketLength DEF StreamInvariant
  <1>5. begun \in Seq(Message) /\ l = Len(begun) /\ begun[l] \in Message
    BY <1>3, <1>4, MessageFacts DEF StreamInvariant, Types, Last
  <1>6. Sent = l - 1
    BY <1>1, <1>3, SentIs DEF StreamInvariant
  <1>7. Sent' = l
    <2>1. Cardinality(writing') = 0
      BY FS_EmptySet
    <2> QED
      BY <1>1, <1>4, <1>5, <2>1 DEF Sent
  <1>8. Unread = SubSeq(begun, n, l - 1) /\ Unread' = SubSeq(begun, n, l)
    BY <1>1, <1>3, <1>6, <1>7 DEF Unread, Current
  <1>9. /\ Unread \in Seq(Message)
        /\ Len(Unread) = l - n
    <2>1. \A i \in n..l - 1 : begun[i] \in Message
      BY <1>4, <1>5
    <2>2. n \in Int /\ l - 1 \in Int
      BY <1>4
    <2>3. /\ SubSeq(begun, n, l - 1) \in Seq(Message)
          /\ Len(SubSeq(begun, n, l - 1)) = IF n <= l - 1 THEN l - 1 - n + 1 ELSE 0
      BY <2>1, <2>2, SubSeqProperties
    <2> QED
      BY <1>4, <1>8, <2>3
  <1>10. Unread' = Append(Unread, begun[l])
    <2>1. n \in 1..Len(begun) /\ l \in n..Len(begun)
      BY <1>4, <1>5
    <2>2. SubSeq(begun, n, l) = SubSeq(begun, n, l - 1) \o <<begun[l]>>
      BY <1>5, <2>1, SubSeqRecursiveSecond
    <2>3. Append(Unread, begun[l]) = Unread \o <<begun[l]>>
      BY <1>5, <1>9, AppendIsConcat
    <2> QED
      BY <1>8, <2>2, <2>3
  <1>11. Len(Unread) < SocketChunks + 1
    BY <1>1, <1>4, <1>9
  <1> QED
    BY <1>5, <1>10, <1>11, SendsAsPort

LEMMA ReceiveImplementsPort ==
    ASSUME StreamInvariant, StreamInvariant', open', InStep(Last)',
           UNCHANGED <<begun, writing>>, Len(received') = Current
    PROVE  AsPort!RouterReceives("writer")
  <1>1. PICK n, l : n = Current /\ l = Last
    OBVIOUS
  <1>2. /\ begun \in Seq(Message) /\ l = Len(begun) /\ l \in Nat /\ l = Last'
        /\ n \in Nat \ {0} /\ n = Len(received) + 1 /\ DOMAIN begun = 1..l
    BY <1>1, MessageFacts DEF StreamInvariant, Types, Last, Current
  <1>3. n <= l
    <2>1. Len(received') <= Last'
      BY NothingElseNext
    <2> QED
      BY <1>1, <1>2, <2>1
  <1>4. n = l => writing = {}
    <2> SUFFICES ASSUME n = l
                 PROVE  writing' = {}
      OBVIOUS
    <2>1. Current' = l + 1
      BY <1>1, <1>2 DEF Current
    <2>2. InStep(l + 1)'
      BY <1>2 DEF InStep, Spoiled
    <2> QED
      BY <1>2, <2>1, <2>2 DEF StreamInvariant, ReaderInStep
  <1>5. PICK s : s = Sent
    OBVIOUS
  <1>6. s \in n..l /\ Sent' = s
    <2>1. s = IF writing = {} THEN l ELSE l - 1
      BY <1>1, <1>5, SentIs DEF StreamInvariant
    <2>2. Sent' = Sent
      BY DEF Sent
    <2>3. n \in Nat /\ l \in Nat
      BY <1>2
    <2>4. s \in n..l
      BY ONLY <1>3, <1>4, <2>1, <2>3
    <2> QED
      BY <1>5, <2>2, <2>4
  <1>7. Unread = SubSeq(begun, n, s) /\ Unread' = SubSeq(begun, n + 1, s)
    BY <1>1, <1>2, <1>5, <1>6 DEF Unread
  <1>8. Tail(SubSeq(begun, n, s)) = SubSeq(begun, n + 1, s)
    <2>1. n \in 1..Len(begun) /\ s \in n..Len(begun)
      BY <1>2, <1>3, <1>6
    <2> QED
      BY <1>2, <2>1, HeadTailOfSubSeq
  <1>9. SubSeq(begun, n, s) # <<>>
    <2>1. \A i \in n..s : begun[i] \in Message
      BY <1>2, <1>6
    <2>2. n \in Int /\ s \in Int
      BY <1>2, <1>6
    <2>3. /\ SubSeq(begun, n, s) \in Seq(Message)
          /\ Len(SubSeq(begun, n, s)) = IF n <= s THEN s - n + 1 ELSE 0
      BY <2>1, <2>2, SubSeqProperties
    <2>4. n \in Nat /\ l \in Nat
      BY <1>2
    <2>5. Len(SubSeq(begun, n, s)) > 0
      BY ONLY <1>6, <2>3, <2>4
    <2>6. PICK q : q = SubSeq(begun, n, s)
      OBVIOUS
    <2>7. q \in Seq(Message) /\ Len(q) > 0
      BY ONLY <2>3, <2>5, <2>6
    <2>8. q # <<>>
      BY ONLY <2>7
    <2> QED
      BY <2>6, <2>8
  <1> QED
    BY <1>7, <1>8, <1>9, ReceivesAsPort

(* A step of the reader returns a message or none.                         *)
LEMMA ReaderSteps ==
    ASSUME StreamInvariant, Reader
    PROVE  /\ UNCHANGED <<begun, writing>>
           /\ UNCHANGED received \/ Len(received') = Current
  <1>1. Types
    BY DEF StreamInvariant
  <1>2. \A r \in reading : r \in Receive
    BY <1>1 DEF Types
  <1>3. CASE Peek
    BY <1>3 DEF Peek
  <1>4. CASE PeekGarbage
    <2>1. PICK x \in Garbage : (Returned("TooManyHandles", Expecting(0, x)) /\ UNCHANGED reading) \/ UNCHANGED received
      BY <1>4 DEF PeekGarbage
    <2>2. Expecting(0, x) \in Receive /\ "TooManyHandles" \in Outcome
      BY ExpectingType DEF Outcome
    <2>3. UNCHANGED received \/ Len(received') = Current
      BY <1>1, <2>1, <2>2, ReturnedResult
    <2> QED
      BY <1>4, <2>3 DEF PeekGarbage
  <1>5. CASE ResizeThrows
    <2>1. PICK r \in reading : Returned("threw", r)
      BY <1>5 DEF ResizeThrows
    <2>2. "threw" \in Outcome
      BY DEF Outcome
    <2>3. Len(received') = Current
      BY <1>1, <1>2, <2>1, <2>2, ReturnedResult
    <2> QED
      BY <1>5, <2>3 DEF ResizeThrows
  <1>6. CASE ReadChunk
    <2>1. UNCHANGED <<begun, writing>> /\ socket # <<>>
      BY <1>6, ReadChunkSteps
    <2>2. PICK r \in reading : Finish(Taken(r, Asked(r))) \/ UNCHANGED received
      BY <1>6, ReadChunkSteps
    <2>3. Taken(r, Asked(r)) \in Receive
      BY <2>1, TakenFromChunk DEF StreamInvariant
    <2> QED
      BY <1>1, <2>1, <2>2, <2>3, FinishResult
  <1>7. CASE ReadCut
    <2>1. PICK r \in reading : Finish(r)
      BY <1>7 DEF ReadCut
    <2>2. Len(received') = Current
      BY <1>1, <1>2, <2>1, FinishResult
    <2> QED
      BY <1>7, <2>2 DEF ReadCut
  <1>8. CASE ReadEnds
    <2>1. PICK r \in reading : Finish(r)
      BY <1>8 DEF ReadEnds
    <2>2. Len(received') = Current
      BY <1>1, <1>2, <2>1, FinishResult
    <2> QED
      BY <1>8, <2>2 DEF ReadEnds
  <1> QED
    BY <1>3, <1>4, <1>5, <1>6, <1>7, <1>8 DEF Reader

PortStep ==
    \/ ~open' \/ ~InStep(Last)'
    \/ \E m \in Message : AsPort!ClientSends("writer", m)
    \/ AsPort!RouterReceives("writer")

LEMMA StreamSteps ==
    ASSUME StreamInvariant, Dense, StreamInvariant', [Next]_vars
    PROVE  PortStep \/ UNCHANGED <<Sent, received>>
  <1> SUFFICES ASSUME open', InStep(Last)'
               PROVE  PortStep \/ UNCHANGED <<Sent, received>>
    BY DEF PortStep
  <1>1. Types /\ Types'
    BY DEF StreamInvariant
  <1>2. CASE UNCHANGED vars
    BY <1>2 DEF vars, Sent
  <1>3. CASE Reader
    <2>1. UNCHANGED received => UNCHANGED <<Sent, received>>
      BY <1>3, ReaderSteps DEF Sent
    <2> QED
      BY <1>3, <2>1, ReaderSteps, ReceiveImplementsPort DEF PortStep
  <1>4. ASSUME NEW x \in Message, SendBegins(x)
        PROVE  UNCHANGED <<Sent, received>>
    <2>1. begun' = Append(begun, x) /\ writing = {} /\ writing' # {} /\ UNCHANGED received
      BY <1>4 DEF SendBegins
    <2>2. Last' = Last + 1 /\ Last \in Nat
      BY <1>1, <2>1, BegunGrows, MessageFacts
    <2>3. Sent' = Last' - 1
      BY <1>1, <2>1, SentIsNext
    <2>4. Sent = Last
      BY <1>1, <2>1, SentIs
    <2> QED
      BY <2>1, <2>2, <2>3, <2>4
  <1>5. CASE SendChunk
    <2>1. UNCHANGED <<begun, received>> /\ writing # {}
      BY <1>5 DEF SendChunk
    <2>2. CASE writing' = {}
      BY <1>5, <2>2, SendImplementsPort DEF PortStep
    <2>3. CASE writing' # {}
      <3>1. Sent' = Last' - 1
        BY <1>1, <2>3, SentIsNext
      <3>2. Sent = Last - 1
        BY <1>1, <2>1, SentIs
      <3> QED
        BY <2>1, <3>1, <3>2 DEF Last
    <2> QED
      BY <2>2, <2>3
  <1>6. CASE SendCut
    <2>1. PICK w \in writing : w.message \in cut'
      BY <1>6 DEF SendCut
    <2>2. w.message = Last /\ Last \in DOMAIN begun /\ begun' = begun
      BY <1>1, <1>6, MessageFacts DEF SendCut, Types
    <2>3. Last \in cut' /\ Last \in 1..Last /\ Last \in DOMAIN begun' /\ Last' = Last
      BY <1>1, <2>1, <2>2, MessageFacts DEF Last
    <2> QED
      BY <2>3 DEF InStep, Spoiled
  <1>7. CASE WriterCloses
    BY <1>7 DEF WriterCloses
  <1> QED
    BY <1>2, <1>3, <1>4, <1>5, <1>6, <1>7 DEF Next, Writer

(* Until a message is spoiled or the writer closes, StreamPort implements  *)
(* Port's queue, of one message more than the socket holds chunks: a send  *)
(* that returns is Port's send, and a receive that returns Port's receive. *)
THEOREM StreamImplementsPort == Spec => ImplementsPort
  <1>1. PortStep \/ UNCHANGED <<Sent, received>> <=>
          [\/ ~open' \/ ~InStep(Len(begun))'
           \/ \E m \in Message : AsPort!ClientSends("writer", m)
           \/ AsPort!RouterReceives("writer")]_<<Sent, received>>
    BY DEF PortStep, Last
  <1>2. Spec => [](StreamInvariant /\ Dense)
    BY StreamInit, StreamInductive, DenseInit, DenseInductive, PTL DEF Spec
  <1>3. ASSUME StreamInvariant, Dense, StreamInvariant', [Next]_vars
        PROVE  [\/ ~open' \/ ~InStep(Len(begun))'
                \/ \E m \in Message : AsPort!ClientSends("writer", m)
                \/ AsPort!RouterReceives("writer")]_<<Sent, received>>
    BY <1>1, <1>3, StreamSteps
  <1> QED
    BY <1>2, <1>3, PTL DEF Spec, ImplementsPort

=============================================================================
