------------------------------ MODULE StreamPort ------------------------------
(***************************************************************************)
(* One direction of the pair that ipc::Port::create_pair makes, a stream   *)
(* socket (libprotoipc/src/linux_port.cpp): send writes a header and a     *)
(* payload, receive peeks at a header and then reads as much as it says.   *)
(* Where messages begin and end is not in the stream.                      *)
(*                                                                         *)
(* A cell is as many bytes as a header; cell <<m, k>> is part k of message *)
(* m, counted from 0, the header, and messages are numbered as their sends *)
(* began.  The kernel keeps the stream in chunks, with the handles of a    *)
(* message on its first one.  A sendmsg or recvmsg that waits for room or  *)
(* for bytes is ended by a signal: it fails with EINTR if nothing has been *)
(* written or read, and returns the smaller count otherwise, which neither *)
(* send nor receive compares with what it asked for.                       *)
(***************************************************************************)
EXTENDS Naturals, Sequences, FiniteSetsExt

CONSTANTS Message,       \* [size, handles]: cells of payload and count of handles
          Garbage,       \* the same, as read from what is not a header
          ChunkCells,    \* what the kernel puts in one chunk
          SocketChunks,  \* what it holds before sendmsg waits
          MaxHandles,    \* IPC_MAX_HANDLES
          MaxSends, MaxReceives

ASSUME MessageAssumption == Message \cup Garbage \subseteq [size : Nat, handles : Nat]
ASSUME RoomAssumption == ChunkCells \in Nat \ {0} /\ SocketChunks \in Nat \ {0}

VARIABLES
    begun,      \* the messages given to send (history)
    writing,    \* the send that has not returned: its message and next cell
    socket,     \* the chunks in the socket, [cells, handles]
    open,       \* whether the writer's end is open
    reading,    \* the receive that has peeked: what it expects and has
    received,   \* what each receive returned (history)
    cut         \* the messages whose send or receive ended early (history)

vars == <<begun, writing, socket, open, reading, received, cut>>

Init ==
    /\ begun = <<>> /\ writing = {}
    /\ socket = <<>> /\ open = TRUE
    /\ reading = {} /\ received = <<>>
    /\ cut = {}

-----------------------------------------------------------------------------
(* send().                                                                 *)

CellsOf(m) == [k \in 1..begun[m].size + 1 |-> <<m, k - 1>>]
HandlesOf(m) == [i \in 1..begun[m].handles |-> <<m, i>>]

(* Too many handles are refused before anything is written.                *)
SendBegins(x) ==
    /\ open /\ writing = {}
    /\ Len(begun) < MaxSends
    /\ x.handles <= MaxHandles
    /\ begun' = Append(begun, x)
    /\ writing' = {[message |-> Len(begun) + 1, next |-> 1]}
    /\ UNCHANGED <<socket, open, reading, received, cut>>

ChunkEnd(w) == Min({w.next + ChunkCells, begun[w.message].size + 2})

HandlesWith(w) == IF w.next = 1 THEN HandlesOf(w.message) ELSE <<>>

(* sendmsg, one chunk after the other; send returns with the last.         *)
SendChunk ==
    \E w \in writing :
        /\ Len(socket) < SocketChunks
        /\ socket' = Append(socket, [cells |-> SubSeq(CellsOf(w.message), w.next, ChunkEnd(w) - 1),
                                     handles |-> HandlesWith(w)])
        /\ writing' = IF ChunkEnd(w) > begun[w.message].size + 1 THEN {}
                      ELSE {[w EXCEPT !.next = ChunkEnd(w)]}
        /\ UNCHANGED <<begun, open, reading, received, cut>>

(* A signal while sendmsg waits for room, with part of the message sent.   *)
SendCut ==
    \E w \in writing :
        /\ Len(socket) = SocketChunks
        /\ w.next > 1
        /\ writing' = {}
        /\ cut' = cut \cup {w.message}
        /\ UNCHANGED <<begun, socket, open, reading, received>>

(* The writer closes its end, or its process ends, in a send or not.       *)
WriterCloses ==
    /\ open
    /\ open' = FALSE
    /\ writing' = {}
    /\ cut' = cut \cup {w.message : w \in writing}
    /\ UNCHANGED <<begun, socket, reading, received>>

-----------------------------------------------------------------------------
(* receive().                                                              *)

Expecting(header, x) ==
    [header |-> header, size |-> x.size, handles |-> x.handles, cells |-> <<>>, got |-> <<>>]

Returned(result, r) ==
    received' = Append(received, [result |-> result, header |-> r.header,
                                  cells |-> r.cells, handles |-> r.got])

Free == reading = {} /\ Len(received) < MaxReceives

AtHeader == socket # <<>> /\ socket[1].cells[1][2] = 0

Peek ==
    /\ Free /\ AtHeader
    /\ LET m == socket[1].cells[1][1] IN reading' = {Expecting(m, begun[m])}
    /\ UNCHANGED <<begun, writing, socket, open, received, cut>>

(* In the middle of a message the header is bytes of a payload; at the end *)
(* of the file, whatever the stack held.                                   *)
PeekGarbage ==
    /\ Free /\ ~AtHeader
    /\ socket # <<>> \/ ~open
    /\ \E x \in Garbage :
         IF x.handles > MaxHandles
         THEN Returned("TooManyHandles", Expecting(0, x)) /\ UNCHANGED reading
         ELSE reading' = {Expecting(0, x)} /\ UNCHANGED received
    /\ UNCHANGED <<begun, writing, socket, open, cut>>

(* The size is too great to be allocated.                                  *)
ResizeThrows ==
    /\ \E r \in reading : r.header = 0 /\ r.cells = <<>> /\ Returned("threw", r)
    /\ reading' = {}
    /\ UNCHANGED <<begun, writing, socket, open, cut>>

(* Lines 140-150: the count of bytes is not looked at; the handles are,    *)
(* but not how many they are.                                              *)
Finish(r) ==
    /\ Returned(IF r.handles > 0 /\ r.got = <<>> THEN "IncompleteMessage" ELSE "Ok", r)
    /\ reading' = {}

EnoughAtOnce(r, rest) == TRUE   \* mutant: no MSG_WAITALL

(* recvmsg goes on until it has all it asked for, or has finished a chunk  *)
(* that came with handles.                                                 *)
Enough(r, rest) == Len(r.cells) = r.size + 1 \/ (r.got # <<>> /\ rest = <<>>)

Taken(r, n) == [r EXCEPT !.cells = @ \o SubSeq(socket[1].cells, 1, n),
                         !.got = @ \o socket[1].handles]

HasAll(r) ==   \* mutant: waits until all it asked for is in the socket
    MapThenSumSet(LAMBDA i : Len(socket[i].cells), DOMAIN socket) >= r.size + 1 - Len(r.cells)

HasBytes(r) == socket # <<>>

ReadChunk ==
    \E r \in reading :
        /\ HasBytes(r)
        /\ LET cells == socket[1].cells
               n == Min({Len(cells), r.size + 1 - Len(r.cells)})
               rest == SubSeq(cells, n + 1, Len(cells))
           IN  /\ socket' = IF rest = <<>> THEN Tail(socket)
                            ELSE <<[cells |-> rest, handles |-> <<>>]>> \o Tail(socket)
               /\ IF Enough(Taken(r, n), rest) THEN Finish(Taken(r, n))
                  ELSE reading' = {Taken(r, n)} /\ UNCHANGED received
        /\ UNCHANGED <<begun, writing, open, cut>>

(* A signal while recvmsg waits for more, and the end of the file.         *)
ReadCut ==
    \E r \in reading :
        /\ socket = <<>> /\ open
        /\ r.cells # <<>>
        /\ Finish(r)
        /\ cut' = cut \cup {r.header}
        /\ UNCHANGED <<begun, writing, socket, open>>

ReadEnds ==
    \E r \in reading :
        /\ socket = <<>> /\ ~open
        /\ Finish(r)
        /\ UNCHANGED <<begun, writing, socket, open, cut>>

-----------------------------------------------------------------------------

Writer == (\E x \in Message : SendBegins(x)) \/ SendChunk \/ SendCut \/ WriterCloses
Reader == Peek \/ PeekGarbage \/ ResizeThrows \/ ReadChunk \/ ReadCut \/ ReadEnds

Next == Writer \/ Reader

(* sendmsg goes on when there is room, and the reader keeps receiving.     *)
Spec == Init /\ [][Next]_vars /\ WF_vars(SendChunk)
             /\ WF_vars(Peek \/ PeekGarbage) /\ WF_vars(ReadChunk \/ ReadEnds)

-----------------------------------------------------------------------------

(* A message that a signal or the writer's end cut short, or one that has  *)
(* handles and needs several chunks, does not arrive whole, and takes what *)
(* comes after it along.                                                   *)
Spoiled(m) ==
    /\ m \in DOMAIN begun
    /\ m \in cut \/ (begun[m].handles > 0 /\ begun[m].size + 1 > ChunkCells)

InStep(m) == \A k \in 1..m : ~Spoiled(k)

Whole(m) ==
    [result |-> "Ok", header |-> m, cells |-> CellsOf(m), handles |-> HandlesOf(m)]

(* Up to the first spoiled message, what receive returns is what send was  *)
(* given, whole, in order, with its handles, although every read ends      *)
(* where only the header says; and nothing else is returned before the end *)
(* of the file.                                                            *)
ReadAsSent ==
    /\ \A m \in DOMAIN received \cap DOMAIN begun : InStep(m) => received[m] = Whole(m)
    /\ open /\ InStep(Len(begun)) => Len(received) <= Len(begun)

Sent == Len(begun) - Cardinality(writing)
Unread == SubSeq(begun, Len(received) + 1, Sent)

AsPort == INSTANCE Port WITH
    Client <- {"writer"}, Capacity <- SocketChunks + 1, FdsRunOut <- FALSE,
    toRouter <- [c \in {"writer"} |-> Unread], toClient <- [c \in {"writer"} |-> <<>>],
    closed <- {}, gone <- {}

(* Until a message is spoiled or the writer closes its end, the stream is  *)
(* the queue of whole messages that Port has: a send that returns puts one *)
(* in it, and a receive that returns takes one.                            *)
ImplementsPort ==
    [][\/ ~open' \/ ~InStep(Len(begun))'
       \/ \E m \in Message : AsPort!ClientSends("writer", m)
       \/ AsPort!RouterReceives("writer")]_<<Sent, received>>

(* A message larger than the socket holds is sent and received piece by    *)
(* piece, and arrives.                                                     *)
SentIsRead ==
    \A m \in 1..MaxSends :
        m \in DOMAIN begun ~> m \in DOMAIN received \/ ~InStep(m)

=============================================================================
