-------------------------------- MODULE Port --------------------------------
(***************************************************************************)
(* ipc::Port (libprotoipc/src/linux_port.cpp) at the level of whole        *)
(* messages.  The tests of the rpc layer and the examples join each client *)
(* to the router with socketpair(AF_UNIX, SOCK_DGRAM): each direction of a *)
(* pair is a FIFO queue of messages, bounded by the sender's socket        *)
(* buffer, a message is read whole or not at all, and Port::send blocks in *)
(* sendmsg while there is no room.  ipc_tests.cpp also routes over the     *)
(* stream pairs of create_pair, which StreamPort models.                   *)
(*                                                                         *)
(* One pair per client: toRouter[c] is what c wrote and the router has not *)
(* read, toClient[c] what the router wrote and c has not read.  A client   *)
(* is in closed when the router's end of its pair is closed, in gone when  *)
(* its own end is.  A datagram pair signals no end of file: reading after  *)
(* the peer closed blocks, writing fails with ECONNREFUSED, which send     *)
(* reports as PortError::Unknown.  The queue into a closed end keeps what  *)
(* it held, which nobody will read.                                        *)
(*                                                                         *)
(* A message's handles are not modelled, but for what they can do to it: a *)
(* process with no descriptor left takes a message with handles out of the *)
(* queue and receive reports IncompleteMessage (lines 144-145), or, when   *)
(* there was room for some of them, returns numbers that are not           *)
(* descriptors.  No code of the repository closes a handle it received, so *)
(* a process runs out of them in the end; any message may be one with      *)
(* handles when FdsRunOut.                                                 *)
(***************************************************************************)
EXTENDS Naturals, Sequences

CONSTANTS Client,    \* the clients, one socket pair each
          Capacity,  \* messages one direction of a pair holds
          FdsRunOut  \* whether receivers of handles may be out of descriptors

ASSUME CapacityAssumption == Capacity \in Nat \ {0}
ASSUME FdsRunOutAssumption == FdsRunOut \in BOOLEAN

VARIABLES toRouter, toClient, closed, gone

portVars == <<toRouter, toClient, closed, gone>>

PortInit ==
    /\ toRouter = [c \in Client |-> <<>>]
    /\ toClient = [c \in Client |-> <<>>]
    /\ closed = {}
    /\ gone = {}

-----------------------------------------------------------------------------
(* The client's end.                                                       *)

ClientSends(c, m) ==
    /\ c \notin closed \cup gone
    /\ Len(toRouter[c]) < Capacity
    /\ toRouter' = [toRouter EXCEPT ![c] = Append(@, m)]
    /\ UNCHANGED <<toClient, closed, gone>>

(* ECONNREFUSED: the kernel disconnects the socket and purges its receive  *)
(* queue, so what the router had already written to c is lost.             *)
ClientSendFails(c) ==
    /\ c \in closed \ gone
    /\ toClient' = [toClient EXCEPT ![c] = <<>>]
    /\ UNCHANGED <<toRouter, closed, gone>>

(* TooManyHandles (lines 38-39), or a message larger than the socket's     *)
(* buffer (EMSGSIZE, lines 76-77): nothing was sent.                       *)
ClientSendRefused(c) ==
    /\ c \notin gone
    /\ UNCHANGED portVars

(* The message leaves the queue, whether receive returns Ok or             *)
(* IncompleteMessage.  TooManyHandles (lines 120-121) is not for a message *)
(* that send let pass: the limit is the same.                              *)
ClientReceives(c) ==
    /\ c \notin gone
    /\ toClient[c] # <<>>
    /\ toClient' = [toClient EXCEPT ![c] = Tail(@)]
    /\ UNCHANGED <<toRouter, closed, gone>>

ClientCloses(c) ==
    /\ c \notin gone
    /\ gone' = gone \cup {c}
    /\ UNCHANGED <<toRouter, toClient, closed>>

-----------------------------------------------------------------------------
(* The router's end.  RouterSends does not ask that the end be open: a     *)
(* sendmsg that already blocks keeps the socket alive when another thread  *)
(* closes the descriptor, and goes through when the client reads.  The     *)
(* router sends what it received: a port that let a message pass once does *)
(* not refuse it for its size or its number of handles.                    *)

RouterSends(c, m) ==
    /\ c \notin gone
    /\ Len(toClient[c]) < Capacity
    /\ toClient' = [toClient EXCEPT ![c] = Append(@, m)]
    /\ UNCHANGED <<toRouter, closed, gone>>

(* ECONNREFUSED: what c had written and the router not read is purged.     *)
RouterSendFails(c) ==
    /\ c \in gone
    /\ toRouter' = [toRouter EXCEPT ![c] = <<>>]
    /\ UNCHANGED <<toClient, closed, gone>>

(* Mutant: the message read stays in the queue, as after MSG_PEEK.         *)
RouterPeeks(c) ==
    /\ toRouter[c] # <<>>
    /\ UNCHANGED portVars

RouterReceives(c) ==
    /\ toRouter[c] # <<>>
    /\ toRouter' = [toRouter EXCEPT ![c] = Tail(@)]
    /\ UNCHANGED <<toClient, closed, gone>>

RouterCloses(cs) ==
    /\ closed' = closed \cup cs
    /\ UNCHANGED <<toRouter, toClient, gone>>

=============================================================================
