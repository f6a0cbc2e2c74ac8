---------------------------- MODULE RouterClients ----------------------------
(***************************************************************************)
(* The router between clients that may do anything: write to any id, known *)
(* or not, before their port is added, while it is in the table and after  *)
(* it was removed, read or not, and close their end.  Each message carries *)
(* its sender, the id the sender wrote to and the sender's count of        *)
(* messages, which the router never looks at.  received remembers what     *)
(* each client took from its queue, and purged what the kernel took from   *)
(* it, after the router had closed its end, when the client wrote again.   *)
(***************************************************************************)
EXTENDS Router, Functions

CONSTANTS Destination,   \* the ids clients write to
          MaxSends       \* messages each client writes

ASSUME DestinationAssumption == Destination \subseteq Nat
ASSUME MaxSendsAssumption == MaxSends \in Nat

VARIABLES sent,      \* messages each client has written
          received,  \* the payloads each client has read
          purged     \* the payloads each client's failing sends made it lose

history == <<sent, received, purged>>
vars == <<portVars, routerVars, history>>

Payload == [from : Client, to : Destination, seq : 1..MaxSends]
Message == [destination : Nat, payload : Payload]

Init ==
    /\ PortInit
    /\ RouterInit
    /\ sent = [c \in Client |-> 0]
    /\ received = [c \in Client |-> {}]
    /\ purged = [c \in Client |-> {}]

-----------------------------------------------------------------------------

Routed(c) == Range(toClient[c])

(* A message the port refuses (ClientSendRefused) leaves everything as it  *)
(* was: that is a stuttering step.                                         *)
ClientSend(c, d) ==
    /\ sent[c] < MaxSends
    /\ ClientSends(c, [destination |-> d,
                       payload |-> [from |-> c, to |-> d, seq |-> sent[c] + 1]])
    /\ sent' = [sent EXCEPT ![c] = @ + 1]
    /\ UNCHANGED <<routerVars, received, purged>>

(* send to a port that remove_port closed: whatever it was, it is not sent. *)
ClientSendFail(c) ==
    /\ ClientSendFails(c)
    /\ purged' = [purged EXCEPT ![c] = @ \cup {m.payload : m \in Routed(c)}]
    /\ UNCHANGED <<routerVars, sent, received>>

ClientReceive(c) ==
    /\ ClientReceives(c)
    /\ received' = [received EXCEPT ![c] = @ \cup {Head(toClient[c]).payload}]
    /\ UNCHANGED <<routerVars, sent, purged>>

ClientLeave(c) ==
    /\ ClientCloses(c)
    /\ UNCHANGED <<routerVars, history>>

Next ==
    \/ Control /\ UNCHANGED history
    \/ Loop /\ UNCHANGED history
    \/ \E c \in Client, d \in Destination : ClientSend(c, d)
    \/ \E c \in Client : ClientSendFail(c)
    \/ \E c \in Client : ClientReceive(c)
    \/ \E c \in Client : ClientLeave(c)

Spec == Init /\ [][Next]_vars

(* The thread of loop() runs when it can.  Nothing makes a client write,   *)
(* read or leave, or the control thread add or remove a port.              *)
Fairness == WF_vars(LoopGoesOn /\ UNCHANGED history)

FairSpec == Spec /\ Fairness

-----------------------------------------------------------------------------

TypeOK ==
    /\ toRouter \in [Client -> Seq(Message)]
    /\ toClient \in [Client -> Seq(Message)]
    /\ closed \subseteq Client
    /\ gone \subseteq Client
    /\ currentId \in Nat
    /\ DOMAIN ports \subseteq Nat
    /\ ports \in [DOMAIN ports -> Client]
    /\ DOMAIN epoll \subseteq Client
    /\ epoll \in [DOMAIN epoll -> Nat]
    /\ adding \subseteq Client
    /\ removing \subseteq Client
    /\ pc \in {"wait", "handle", "send", "stopped", "exited"}
    /\ batch \subseteq Nat
    /\ held \subseteq [id : Nat, port : Client, message : Message]
    /\ sent \in [Client -> 0..MaxSends]
    /\ received \in [Client -> SUBSET Payload]
    /\ purged \in [Client -> SUBSET Payload]

Routing == {h.message : h \in held}

(* The id a message carries to its receiver, "to know to who reply"        *)
(* (linux_router.cpp:91-93), is its sender's for as long as it is in the   *)
(* table: a reply never reaches a third client, whatever ports were added  *)
(* and removed since.                                                      *)
ReplyReachesSender ==
    \A m \in Routing \cup UNION {Routed(c) : c \in Client} :
        m.destination \in DOMAIN ports => ports[m.destination] = m.payload.from

(* A message is put in the queue of the client its sender wrote to, and of *)
(* no other, although the table changes between look-up and send (lines 86 *)
(* and 94).                                                                *)
DeliveredToAddressee ==
    \A c \in Client : \A m \in Routed(c) :
        m.payload.to \in DOMAIN ports => ports[m.payload.to] = c

(* receive (line 81), called on each port epoll_wait reported, finds a     *)
(* message: it would otherwise block and hold up every other port.  This   *)
(* is said of datagram pairs; on a stream pair receive waits for the rest  *)
(* of a message whose writing has begun.                                   *)
ReceiveNeverBlocks ==
    \A i \in batch \cap DOMAIN ports : toRouter[ports[i]] # <<>>

Earlier(p, q) == p.from = q.from => p.seq < q.seq

Delivered(c) == received[c] \cup {m.payload : m \in Routed(c)}

Ordered(q) ==
    \A i, j \in DOMAIN q : i < j => Earlier(q[i].payload, q[j].payload)

(* What one client writes is read in the order it was written, and read    *)
(* once, by way of both queues and the message loop() holds while its send *)
(* blocks.                                                                 *)
PairOrder ==
    /\ \A c \in Client : Ordered(toRouter[c]) /\ Ordered(toClient[c])
    /\ \A c \in Client : \A p \in received[c], m \in Routed(c) : Earlier(p, m.payload)
    /\ \A h \in held : \A p \in Delivered(h.port) : Earlier(p, h.message.payload)
    /\ \A c, d \in Client : \A m \in Range(toRouter[d]) :
         \A p \in Delivered(c) \cup {r.payload : r \in Routing} : Earlier(p, m.payload)

Everywhere ==
    {m.payload : m \in Routing \cup UNION {Range(toRouter[c]) : c \in Client}}
      \cup UNION {Delivered(c) : c \in Client}

Traced == Everywhere \cup UNION {purged[d] : d \in closed}

(* While loop() runs, what a client wrote is in its queue, in the loop's   *)
(* hands, in its receiver's queue, or read: nothing is lost but with a     *)
(* queue whose reader closed its end, or by a client that was removed and  *)
(* writes again before it has read.                                        *)
NothingLost ==
    Running => \A c \in Client : \A n \in 1..sent[c] :
                   \E p \in Traced : p.from = c /\ p.seq = n

Waiting(c, n) == \E m \in Range(toRouter[c]) : m.payload.from = c /\ m.payload.seq = n

Arrived(c, n) == \E d \in Client : \E p \in Delivered(d) \cup purged[d] :
                    p.from = c /\ p.seq = n

(* loop() is in a send to a client that has not closed its end and does    *)
(* not read.                                                               *)
HeldUp ==
    pc = "send" /\ \E h \in held : h.port \notin gone /\ Len(toClient[h.port]) = Capacity

(* What waits on a known port is put in its receiver's queue in the end,   *)
(* however the ports' messages share batches and whatever the control      *)
(* thread does meanwhile, unless loop() returns or the port is removed.    *)
(* One thing alone holds it up for ever: one and the same client, any of   *)
(* them, that never reads.                                                 *)
MessagesArrive ==
    \A c \in Client, n \in 1..MaxSends :
        Waiting(c, n) /\ c \in Range(ports)
            ~> Arrived(c, n) \/ ~Running \/ c \notin Range(ports) \/ []HeldUp

(* router.hh:34-35, "Messages with unknown desintation are dropped": a     *)
(* message read from a port, written to an id that no port has, leaves     *)
(* loop() running.                                                         *)
UnknownDestinationDropped ==
    [][\A c \in Client :
          /\ Len(toRouter'[c]) < Len(toRouter[c])
          /\ Head(toRouter[c]).destination \notin DOMAIN ports
          => Running']_vars

=============================================================================
