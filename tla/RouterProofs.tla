---------------------------- MODULE RouterProofs ----------------------------
(***************************************************************************)
(* Theorems about the router between arbitrary clients (RouterClients),    *)
(* for any clients, queue capacity, size of epoll_wait's report and number *)
(* of messages.                                                            *)
(***************************************************************************)
EXTENDS RouterClients, CommonLemmas, TLAPS

-----------------------------------------------------------------------------
(* Types.                                                                  *)

USE DestinationAssumption, MaxSendsAssumption

(* Every queue, the tables and the loop's state stay of their type.        *)
LEMMA TypeInductive == TypeOK /\ [Next]_vars => TypeOK'
  <1> SUFFICES ASSUME TypeOK, [Next]_vars
               PROVE  TypeOK'
    OBVIOUS
  <1> USE DEF TypeOK, portVars, routerVars, history
  <1>1. ASSUME NEW c \in Client, AddPortRegister(c), UNCHANGED history
        PROVE  TypeOK'
    BY <1>1 DEF AddPortRegister
  <1>2. ASSUME NEW c \in Client, AddPortStore(c), UNCHANGED history
        PROVE  TypeOK'
    <2>1. DOMAIN ports' \subseteq Nat /\ ports' \in [DOMAIN ports' -> Client] /\ currentId' \in Nat
      BY <1>2 DEF AddPortStore
    <2>2. /\ DOMAIN epoll' \subseteq Client /\ epoll' \in [DOMAIN epoll' -> Nat]
          /\ adding' \subseteq Client /\ removing' \subseteq Client
      BY <1>2 DEF AddPortStore
    <2>3. /\ pc' = pc /\ batch' = batch /\ held' = held /\ UNCHANGED portVars
          /\ UNCHANGED history
      BY <1>2 DEF AddPortStore
    <2> QED
      BY <2>1, <2>2, <2>3
  <1>3. ASSUME NEW i \in DOMAIN ports, RemovePortErase(i), UNCHANGED history
        PROVE  TypeOK'
    BY <1>3 DEF RemovePortErase
  <1>4. ASSUME NEW c \in Client, RemovePortClose(c), UNCHANGED history
        PROVE  TypeOK'
    BY <1>4 DEF RemovePortClose, RouterCloses
  <1>5. ASSUME NEW some \in SUBSET Ready, EpollWait(some), UNCHANGED history
        PROVE  TypeOK'
    BY <1>5 DEF EpollWait, Ready
  <1>6. ASSUME NEW i \in batch, HandleUnknownSource(i), UNCHANGED history
        PROVE  TypeOK'
    BY <1>6 DEF HandleUnknownSource
  <1>7. ASSUME NEW i \in batch, HandleUnknownDestination(i), UNCHANGED history
        PROVE  TypeOK'
    <2>1. ports[i] \in Client /\ toRouter[ports[i]] \in Seq(Message)
      BY <1>7 DEF HandleUnknownDestination
    <2>2. Tail(toRouter[ports[i]]) \in Seq(Message)
      BY <1>7, <2>1, TailRange DEF HandleUnknownDestination, RouterReceives
    <2> QED
      BY <1>7, <2>1, <2>2 DEF HandleUnknownDestination, RouterReceives
  <1>70. ASSUME NEW i \in batch, HandleIncomplete(i), UNCHANGED history
         PROVE  TypeOK'
    <2>1. ports[i] \in Client /\ toRouter[ports[i]] \in Seq(Message)
      BY <1>70 DEF HandleIncomplete
    <2>2. Tail(toRouter[ports[i]]) \in Seq(Message)
      BY <1>70, <2>1, TailRange DEF HandleIncomplete, RouterReceives
    <2> QED
      BY <1>70, <2>1, <2>2 DEF HandleIncomplete, RouterReceives
  <1>8. ASSUME NEW i \in batch, HandleMessage(i), UNCHANGED history
        PROVE  TypeOK'
    <2> DEFINE m == Head(toRouter[ports[i]])
    <2>1. ports[i] \in Client /\ toRouter[ports[i]] \in Seq(Message)
      BY <1>8 DEF HandleMessage
    <2>2. m \in Message /\ Tail(toRouter[ports[i]]) \in Seq(Message)
      BY <1>8, <2>1, TailRange DEF HandleMessage, RouterReceives
    <2>3. Stamped(m, i) \in Message
      BY <2>2 DEF Stamped, Message
    <2>4. held' \subseteq [id : Nat, port : Client, message : Message]
      BY <1>8, <2>3 DEF HandleMessage
    <2>5. toRouter' \in [Client -> Seq(Message)]
      BY <1>8, <2>1, <2>2 DEF HandleMessage, RouterReceives
    <2> QED
      BY <1>8, <2>4, <2>5 DEF HandleMessage, RouterReceives, LaterEvents
  <1>9. ASSUME Forward, UNCHANGED history
        PROVE  TypeOK'
    <2>1. PICK h \in held : RouterSends(h.port, h.message)
      BY <1>9 DEF Forward
    <2>2. h.port \in Client /\ h.message \in Message /\ toClient[h.port] \in Seq(Message)
      OBVIOUS
    <2>3. Append(toClient[h.port], h.message) \in Seq(Message)
      BY <2>2, AppendRange
    <2> QED
      BY <1>9, <2>1, <2>2, <2>3 DEF Forward, RouterSends, AfterEvent
  <1>10. ASSUME ForwardFails, UNCHANGED history
         PROVE  TypeOK'
    BY <1>10 DEF ForwardFails, RouterSendFails
  <1>101. ASSUME ForwardBadDescriptor, UNCHANGED history
          PROVE  TypeOK'
    BY <1>101 DEF ForwardBadDescriptor
  <1>11. ASSUME NEW c \in Client, NEW d \in Destination, ClientSend(c, d)
         PROVE  TypeOK'
    <2> DEFINE m == [destination |-> d, payload |-> [from |-> c, to |-> d, seq |-> sent[c] + 1]]
    <2>1. sent[c] + 1 \in 1..MaxSends
      BY <1>11 DEF ClientSend
    <2>2. m \in Message
      BY <2>1 DEF Message, Payload
    <2>3. Append(toRouter[c], m) \in Seq(Message)
      BY <2>2, AppendRange
    <2>4. /\ toRouter' = [toRouter EXCEPT ![c] = Append(@, m)]
          /\ sent' = [sent EXCEPT ![c] = @ + 1]
          /\ UNCHANGED <<toClient, closed, gone, routerVars, received, purged>>
      BY <1>11 DEF ClientSend, ClientSends
    <2> HIDE DEF m
    <2>5. toRouter' \in [Client -> Seq(Message)]
      BY <2>3, <2>4
    <2>6. sent' \in [Client -> 0..MaxSends]
      BY <2>1, <2>4
    <2> QED
      BY <2>4, <2>5, <2>6
  <1>111. ASSUME NEW c \in Client, ClientSendFail(c)
          PROVE  TypeOK'
    <2>0. toClient[c] \in Seq(Message)
      OBVIOUS
    <2>00. \A m \in Routed(c) : m \in Message
      BY <2>0 DEF Routed, Range
    <2>1. {m.payload : m \in Routed(c)} \subseteq Payload
      BY <2>00 DEF Message
    <2>2. purged' \in [Client -> SUBSET Payload]
      BY <1>111, <2>1 DEF ClientSendFail
    <2> QED
      BY <1>111, <2>2 DEF ClientSendFail, ClientSendFails
  <1>12. ASSUME NEW c \in Client, ClientReceive(c)
         PROVE  TypeOK'
    <2>1. Head(toClient[c]) \in Message /\ Tail(toClient[c]) \in Seq(Message)
      BY <1>12, TailRange DEF ClientReceive, ClientReceives
    <2>2. Head(toClient[c]).payload \in Payload
      BY <2>1 DEF Message
    <2> QED
      BY <1>12, <2>1, <2>2 DEF ClientReceive, ClientReceives
  <1>13. ASSUME NEW c \in Client, ClientLeave(c)
         PROVE  TypeOK'
    BY <1>13 DEF ClientLeave, ClientCloses
  <1>14. CASE UNCHANGED vars
    BY <1>14 DEF vars
  <1> QED
    BY <1>1, <1>2, <1>3, <1>4, <1>5, <1>6, <1>7, <1>70, <1>8, <1>9, <1>10, <1>101, <1>11,
       <1>111, <1>12, <1>13, <1>14
       DEF Next, Control, Loop, LoopGoesOn

(* The state has its types in every reachable state.                       *)
THEOREM TypeCorrect == Spec => []TypeOK
  <1>1. Init => TypeOK
    BY DEF Init, PortInit, RouterInit, TypeOK
  <1> QED
    BY <1>1, TypeInductive, PTL DEF Spec

-----------------------------------------------------------------------------
(* Who an id stands for.  ReplyReachesSender and DeliveredToAddressee are  *)
(* not inductive: they speak only of ids now in the table, and an id       *)
(* beyond the last one given could still be given to anybody.              *)

(* Id i was given, and to nobody but client c.                             *)
Denotes(i, c) ==
    /\ i < currentId
    /\ i \in DOMAIN ports => ports[i] = c

IdInv ==
    /\ \A i \in DOMAIN ports : i < currentId
    /\ \A c \in Client : \A m \in Range(toRouter[c]) :
         m.payload.from = c /\ m.payload.to = m.destination
    /\ \A h \in held :
         /\ Denotes(h.message.destination, h.message.payload.from)
         /\ Denotes(h.message.payload.to, h.port)
    /\ \A c \in Client : \A m \in Routed(c) :
         Denotes(m.destination, m.payload.from) /\ Denotes(m.payload.to, c)

(* Adding and removing ports changes nobody's id: an id is given once.     *)
LEMMA DenotesStable ==
    ASSUME TypeOK, IdInv, Control
    PROVE  /\ \A i \in DOMAIN ports' : i < currentId'
           /\ \A i \in Nat, c \in Client : Denotes(i, c) => Denotes(i, c)'
  <1> DEFINE Stable == /\ \A i \in DOMAIN ports' : i < currentId'
                       /\ \A i \in Nat, c \in Client : Denotes(i, c) => Denotes(i, c)'
  <1>1. ASSUME NEW d \in Client, AddPortRegister(d)
        PROVE  Stable
    BY <1>1 DEF AddPortRegister, Denotes, IdInv
  <1>2. ASSUME NEW d \in Client, AddPortStore(d)
        PROVE  Stable
    <2>1. currentId \in Nat /\ DOMAIN ports \subseteq Nat
      BY DEF TypeOK
    <2>2. /\ ports' = [j \in DOMAIN ports \cup {currentId} |->
                         IF j = currentId THEN d ELSE ports[j]]
          /\ currentId' = currentId + 1
      BY <1>2 DEF AddPortStore
    <2> QED
      BY <2>1, <2>2 DEF Denotes, IdInv
  <1>3. ASSUME NEW d \in DOMAIN ports, RemovePortErase(d)
        PROVE  Stable
    BY <1>3 DEF RemovePortErase, Denotes, IdInv
  <1>4. ASSUME NEW d \in Client, RemovePortClose(d)
        PROVE  Stable
    BY <1>4 DEF RemovePortClose, Denotes, IdInv
  <1> QED
    BY <1>1, <1>2, <1>3, <1>4 DEF Control

(* The control thread leaves the queues and the loop's message alone.      *)
LEMMA ControlKeepsMessages ==
    Control => UNCHANGED <<toRouter, toClient, held>>
  BY DEF Control, AddPortRegister, AddPortStore, RemovePortErase, RemovePortClose,
         RouterCloses, portVars

LEMMA IdInductive == TypeOK /\ IdInv /\ [Next]_vars => IdInv'
  <1> SUFFICES ASSUME TypeOK, IdInv, [Next]_vars
               PROVE  IdInv'
    OBVIOUS
  <1>0. /\ \A c \in Client : toRouter[c] \in Seq(Message) /\ toClient[c] \in Seq(Message)
        /\ held \subseteq [id : Nat, port : Client, message : Message]
        /\ \A m \in Message : /\ m.destination \in Nat
                              /\ m.payload.from \in Client
                              /\ m.payload.to \in Nat
    BY DEF TypeOK, Message, Payload
  <1>01. \A c \in Client : Range(toRouter[c]) \subseteq Message /\ Range(toClient[c]) \subseteq Message
    BY <1>0 DEF Range
  <1>1. CASE Control
    <2>1. UNCHANGED <<toRouter, toClient, held>>
      BY <1>1, ControlKeepsMessages
    <2>2. \A i \in Nat, c \in Client : Denotes(i, c) => Denotes(i, c)'
      BY <1>1, DenotesStable
    <2>3. \A i \in DOMAIN ports' : i < currentId'
      BY <1>1, DenotesStable
    <2>4. \A h \in held' : /\ Denotes(h.message.destination, h.message.payload.from)'
                           /\ Denotes(h.message.payload.to, h.port)'
      BY <1>0, <2>1, <2>2 DEF IdInv
    <2>5. \A c \in Client : \A m \in Routed(c)' :
            Denotes(m.destination, m.payload.from)' /\ Denotes(m.payload.to, c)'
      BY <1>0, <1>01, <2>1, <2>2 DEF IdInv, Routed
    <2> QED
      BY <2>1, <2>3, <2>4, <2>5 DEF IdInv
  <1>2. ASSUME UNCHANGED <<ports, currentId>>
        PROVE  \A i, c : Denotes(i, c)' <=> Denotes(i, c)
    BY <1>2 DEF Denotes
  <1>3. ASSUME UNCHANGED <<ports, currentId, toRouter, toClient, held>>
        PROVE  IdInv'
    BY <1>2, <1>3 DEF IdInv, Routed
  <1>4. ASSUME NEW i \in batch, HandleUnknownDestination(i)
        PROVE  IdInv'
    <2>1. /\ ports[i] \in Client /\ toRouter[ports[i]] # <<>>
          /\ toRouter' = [toRouter EXCEPT ![ports[i]] = Tail(@)]
          /\ UNCHANGED <<ports, currentId, toClient, held>>
      BY <1>4 DEF HandleUnknownDestination, RouterReceives, TypeOK
    <2>2. \A c \in Client : Range(toRouter'[c]) \subseteq Range(toRouter[c])
      BY <1>0, <2>1, TailRange DEF TypeOK
    <2> QED
      BY <1>2, <2>1, <2>2 DEF IdInv, Routed
  <1>40. ASSUME NEW i \in batch, HandleIncomplete(i)
         PROVE  IdInv'
    <2>1. /\ ports[i] \in Client /\ toRouter[ports[i]] # <<>>
          /\ toRouter' = [toRouter EXCEPT ![ports[i]] = Tail(@)]
          /\ UNCHANGED <<ports, currentId, toClient, held>>
      BY <1>40 DEF HandleIncomplete, RouterReceives, TypeOK
    <2>2. \A c \in Client : Range(toRouter'[c]) \subseteq Range(toRouter[c])
      BY <1>0, <2>1, TailRange DEF TypeOK
    <2> QED
      BY <1>2, <2>1, <2>2 DEF IdInv, Routed
  <1>5. ASSUME NEW i \in batch, HandleMessage(i)
        PROVE  IdInv'
    <2> DEFINE m == Head(toRouter[ports[i]])
    <2>1. /\ i \in DOMAIN ports /\ ports[i] \in Client /\ toRouter[ports[i]] # <<>>
          /\ toRouter' = [toRouter EXCEPT ![ports[i]] = Tail(@)]
          /\ m.destination \in DOMAIN ports
          /\ held' = {[id |-> m.destination, port |-> ports[m.destination],
                       message |-> Stamped(m, i)]}
          /\ UNCHANGED <<ports, currentId, toClient>>
      BY <1>5 DEF HandleMessage, RouterReceives, TypeOK
    <2>2. \A c \in Client : Range(toRouter'[c]) \subseteq Range(toRouter[c])
      BY <1>0, <2>1, TailRange DEF TypeOK
    <2>3. m \in Range(toRouter[ports[i]]) /\ m \in Message
      BY <1>0, <2>1, TailRange
    <2>4. m.payload.from = ports[i] /\ m.payload.to = m.destination
      BY <2>1, <2>3 DEF IdInv
    <2>5. Stamped(m, i).destination = i /\ Stamped(m, i).payload = m.payload
      BY <2>3 DEF Stamped, Message
    <2>6. Denotes(i, m.payload.from) /\ Denotes(m.payload.to, ports[m.destination])
      BY <2>1, <2>4 DEF Denotes, IdInv
    <2>7. \A h \in held' : /\ Denotes(h.message.destination, h.message.payload.from)'
                           /\ Denotes(h.message.payload.to, h.port)'
      BY <1>2, <2>1, <2>5, <2>6
    <2>8. \A c \in Client : \A l \in Range(toRouter'[c]) :
             l.payload.from = c /\ l.payload.to = l.destination
      BY <2>2 DEF IdInv
    <2>9. \A c \in Client : \A l \in Routed(c)' :
             Denotes(l.destination, l.payload.from)' /\ Denotes(l.payload.to, c)'
      BY <1>2, <2>1 DEF IdInv, Routed
    <2>10. \A j \in DOMAIN ports' : j < currentId'
      BY <2>1 DEF IdInv
    <2> QED
      BY <2>7, <2>8, <2>9, <2>10 DEF IdInv
  <1>6. ASSUME Forward
        PROVE  IdInv'
    <2>1. PICK h \in held : RouterSends(h.port, h.message)
      BY <1>6 DEF Forward
    <2>2. /\ toClient' = [toClient EXCEPT ![h.port] = Append(@, h.message)]
          /\ held' = {}
          /\ UNCHANGED <<ports, currentId, toRouter>>
      BY <1>6, <2>1 DEF Forward, RouterSends
    <2>3. \A c \in Client : \A m \in Routed(c)' :
            m \in Routed(c) \/ (c = h.port /\ m = h.message)
      BY <1>0, <2>2, AppendRange DEF Routed, TypeOK
    <2> QED
      BY <1>0, <1>2, <2>2, <2>3 DEF IdInv
  <1>7. ASSUME ForwardFails
        PROVE  IdInv'
    <2>1. PICK h \in held : toRouter' = [toRouter EXCEPT ![h.port] = <<>>]
      BY <1>7 DEF ForwardFails, RouterSendFails
    <2>2. \A c \in Client : Range(toRouter'[c]) \subseteq Range(toRouter[c])
      BY <2>1 DEF TypeOK, Range
    <2>3. UNCHANGED <<ports, currentId, toClient>> /\ held' = {}
      BY <1>7 DEF ForwardFails, RouterSendFails
    <2> QED
      BY <1>2, <2>2, <2>3 DEF IdInv, Routed
  <1>70. ASSUME ForwardBadDescriptor
         PROVE  IdInv'
    BY <1>2, <1>70 DEF ForwardBadDescriptor, IdInv, portVars, Routed
  <1>8. ASSUME NEW c \in Client, NEW d \in Destination, ClientSend(c, d)
        PROVE  IdInv'
    <2> DEFINE m == [destination |-> d, payload |-> [from |-> c, to |-> d, seq |-> sent[c] + 1]]
    <2>1. /\ toRouter' = [toRouter EXCEPT ![c] = Append(@, m)]
          /\ UNCHANGED <<ports, currentId, toClient, held>>
      BY <1>8 DEF ClientSend, ClientSends, routerVars
    <2>2. m \in Message
      BY <1>8 DEF ClientSend, Message, Payload, TypeOK
    <2>3. \A b \in Client : \A n \in Range(toRouter'[b]) :
            n \in Range(toRouter[b]) \/ (b = c /\ n = m)
      BY <1>0, <2>1, <2>2, AppendRange DEF TypeOK
    <2>4. \A b \in Client : \A n \in Range(toRouter'[b]) :
            n.payload.from = b /\ n.payload.to = n.destination
      BY <2>3 DEF IdInv
    <2>5. \A b \in Client : \A n \in Routed(b)' :
            Denotes(n.destination, n.payload.from)' /\ Denotes(n.payload.to, b)'
      BY <1>2, <2>1 DEF IdInv, Routed
    <2> QED
      BY <1>2, <2>1, <2>4, <2>5 DEF IdInv
  <1>80. ASSUME NEW c \in Client, ClientSendFail(c)
         PROVE  IdInv'
    <2>1. /\ toClient' = [toClient EXCEPT ![c] = <<>>]
          /\ UNCHANGED <<ports, currentId, toRouter, held>>
      BY <1>80 DEF ClientSendFail, ClientSendFails, routerVars
    <2>2. \A b \in Client : Routed(b)' \subseteq Routed(b)
      BY <2>1 DEF Routed, Range, TypeOK
    <2> QED
      BY <1>2, <2>1, <2>2 DEF IdInv
  <1>9. ASSUME NEW c \in Client, ClientReceive(c)
        PROVE  IdInv'
    <2>1. /\ toClient[c] # <<>>
          /\ toClient' = [toClient EXCEPT ![c] = Tail(@)]
          /\ UNCHANGED <<ports, currentId, toRouter, held>>
      BY <1>9 DEF ClientReceive, ClientReceives, routerVars
    <2>2. \A b \in Client : Routed(b)' \subseteq Routed(b)
      BY <1>0, <2>1, TailRange DEF Routed, TypeOK
    <2> QED
      BY <1>2, <2>1, <2>2 DEF IdInv
  <1> QED
    <2>1. CASE Loop
      <3>1. ASSUME NEW some \in SUBSET Ready, EpollWait(some)
            PROVE  IdInv'
        BY <1>3, <3>1 DEF EpollWait, portVars
      <3>2. ASSUME NEW i \in batch, HandleUnknownSource(i)
            PROVE  IdInv'
        BY <1>3, <3>2 DEF HandleUnknownSource, portVars
      <3> QED
        BY <2>1, <1>4, <1>40, <1>5, <1>6, <1>7, <1>70, <3>1, <3>2 DEF Loop, LoopGoesOn
    <2>2. ASSUME NEW c \in Client, ClientLeave(c)
          PROVE  IdInv'
      BY <1>3, <2>2 DEF ClientLeave, ClientCloses, routerVars
    <2>3. CASE UNCHANGED vars
      BY <1>3, <2>3 DEF vars, portVars, routerVars
    <2> QED
      BY <1>1, <1>8, <1>80, <1>9, <2>1, <2>2, <2>3 DEF Next

LEMMA IdInvariant == Spec => [](TypeOK /\ IdInv)
  <1>1. Init => TypeOK /\ IdInv
    BY DEF Init, PortInit, RouterInit, TypeOK, IdInv, Routed, Range
  <1> QED
    BY <1>1, TypeInductive, IdInductive, PTL DEF Spec

(* A reply written to the id a message was stamped with reaches the client *)
(* that sent the message, or nobody.                                       *)
THEOREM RepliesReachSenders == Spec => []ReplyReachesSender
  <1>1. IdInv => ReplyReachesSender
    BY DEF IdInv, ReplyReachesSender, Routing, Denotes
  <1> QED
    BY <1>1, IdInvariant, PTL

(* A message is only ever queued for the client it was written to.         *)
THEOREM MessagesReachAddressees == Spec => []DeliveredToAddressee
  <1>1. IdInv => DeliveredToAddressee
    BY DEF IdInv, DeliveredToAddressee, Denotes
  <1> QED
    BY <1>1, IdInvariant, PTL

-----------------------------------------------------------------------------
(* What epoll_wait reports.  ReceiveNeverBlocks is not inductive: an id    *)
(* that epoll_wait reported may enter ports_ afterwards, and the interest  *)
(* list and the table are not changed together.                            *)

EpollInv ==
    /\ \A i \in DOMAIN ports : ports[i] \in DOMAIN epoll /\ epoll[ports[i]] = i
    /\ \A c, d \in DOMAIN epoll : epoll[c] = epoll[d] => c = d
    /\ \A c \in DOMAIN epoll : epoll[c] < currentId \/ (adding # {} /\ epoll[c] = currentId)
    /\ \A i \in batch : i < currentId \/ (adding # {} /\ i = currentId)
    /\ \A c \in adding : c \in DOMAIN epoll /\ epoll[c] = currentId
    /\ adding = {} \/ removing = {}
    /\ \A c \in removing : \A i \in DOMAIN ports : ports[i] # c
    /\ \A c \in DOMAIN epoll : epoll[c] \in batch => toRouter[c] # <<>>

(* The two halves of add_port and of remove_port keep the list and the     *)
(* table in step.                                                          *)
LEMMA ControlKeepsEpoll == TypeOK /\ IdInv /\ EpollInv /\ Control => EpollInv'
  <1> SUFFICES ASSUME TypeOK, IdInv, EpollInv, Control
               PROVE  EpollInv'
    OBVIOUS
  <1>0. currentId \in Nat /\ DOMAIN ports \subseteq Nat /\ batch \subseteq Nat
        /\ \A c \in DOMAIN epoll : epoll[c] \in Nat
    BY DEF TypeOK
  <1>1. ASSUME NEW c \in Client, AddPortRegister(c)
        PROVE  EpollInv'
    BY <1>0, <1>1 DEF AddPortRegister, ControlIdle, EpollInv, portVars
  <1>2. ASSUME NEW c \in Client, AddPortStore(c)
        PROVE  EpollInv'
    <2>1. /\ ports' = [j \in DOMAIN ports \cup {currentId} |->
                         IF j = currentId THEN c ELSE ports[j]]
          /\ currentId' = currentId + 1
          /\ adding = {c} /\ adding' = {}
          /\ UNCHANGED <<epoll, removing, batch, toRouter>>
      BY <1>2 DEF AddPortStore, portVars
    <2>2. removing = {} /\ c \in DOMAIN epoll /\ epoll[c] = currentId
      BY <2>1 DEF EpollInv
    <2>3. \A i \in DOMAIN ports' : ports'[i] \in DOMAIN epoll /\ epoll[ports'[i]] = i
      BY <2>1, <2>2 DEF EpollInv
    <2>4. \A d \in DOMAIN epoll : epoll[d] < currentId'
      <3> TAKE d \in DOMAIN epoll
      <3>1. epoll[d] \in Nat /\ (epoll[d] < currentId \/ epoll[d] = currentId)
        BY <1>0 DEF EpollInv
      <3> QED
        BY <1>0, <2>1, <3>1
    <2>5. \A i \in batch : i < currentId'
      <3> TAKE i \in batch
      <3>1. i \in Nat /\ (i < currentId \/ i = currentId)
        BY <1>0 DEF EpollInv
      <3> QED
        BY <1>0, <2>1, <3>1
    <2>6. /\ \A d, e \in DOMAIN epoll' : epoll'[d] = epoll'[e] => d = e
          /\ \A d \in DOMAIN epoll' : epoll'[d] \in batch' => toRouter'[d] # <<>>
      BY <2>1 DEF EpollInv
    <2>7. adding' = {} /\ removing' = {} /\ epoll' = epoll /\ batch' = batch
      BY <2>1, <2>2
    <2> QED
      BY <2>3, <2>4, <2>5, <2>6, <2>7 DEF EpollInv
  <1>3. ASSUME NEW i \in DOMAIN ports, RemovePortErase(i)
        PROVE  EpollInv'
    BY <1>0, <1>3 DEF RemovePortErase, ControlIdle, EpollInv, portVars
  <1>4. ASSUME NEW c \in Client, RemovePortClose(c)
        PROVE  EpollInv'
    BY <1>0, <1>4 DEF RemovePortClose, RouterCloses, EpollInv
  <1> QED
    BY <1>1, <1>2, <1>3, <1>4 DEF Control

(* The ids epoll_wait reports are of clients with something to read.       *)
LEMMA WaitKeepsEpoll ==
    ASSUME TypeOK, EpollInv, NEW some \in SUBSET Ready, EpollWait(some)
    PROVE  EpollInv'
  <1>1. /\ batch' = {epoll[c] : c \in some}
        /\ UNCHANGED <<ports, currentId, epoll, adding, removing, toRouter>>
    BY DEF EpollWait, portVars
  <1>2. \A c \in some : c \in DOMAIN epoll /\ toRouter[c] # <<>>
    BY DEF Ready
  <1>3. \A i \in batch' : i < currentId \/ (adding # {} /\ i = currentId)
    BY <1>1, <1>2 DEF EpollInv
  <1>4. \A c \in DOMAIN epoll : epoll[c] \in batch' => toRouter[c] # <<>>
    BY <1>1, <1>2 DEF EpollInv
  <1> QED
    BY <1>1, <1>3, <1>4 DEF EpollInv

(* A read empties no queue but that of the id just handled.                *)
LEMMA MessageKeepsEpoll ==
    ASSUME TypeOK, EpollInv, NEW i \in batch, HandleMessage(i)
    PROVE  EpollInv'
  <1>1. /\ i \in DOMAIN ports /\ batch' = batch \ {i}
        /\ toRouter' = [toRouter EXCEPT ![ports[i]] = Tail(@)]
        /\ UNCHANGED <<ports, currentId, epoll, adding, removing>>
    BY DEF HandleMessage, LaterEvents, RouterReceives
  <1>2. epoll[ports[i]] = i
    BY <1>1 DEF EpollInv
  <1>3. \A c \in DOMAIN epoll : epoll[c] \in batch' => toRouter'[c] = toRouter[c]
    BY <1>1, <1>2 DEF TypeOK
  <1> QED
    BY <1>1, <1>3 DEF EpollInv

(* What a client writes is a message of its own, the next one.             *)
LEMMA SentIsMessage ==
    ASSUME TypeOK, NEW c \in Client, NEW d \in Destination, ClientSend(c, d)
    PROVE  [destination |-> d, payload |-> [from |-> c, to |-> d, seq |-> sent[c] + 1]] \in Message
  <1>1. sent[c] \in 0..MaxSends /\ sent[c] < MaxSends
    BY DEF ClientSend, TypeOK
  <1>2. sent[c] + 1 \in 1..MaxSends /\ d \in Nat
    BY <1>1, MaxSendsAssumption, DestinationAssumption
  <1> QED
    BY <1>2 DEF Message, Payload

LEMMA EpollInductive == TypeOK /\ IdInv /\ EpollInv /\ [Next]_vars => EpollInv'
  <1> SUFFICES ASSUME TypeOK, IdInv, EpollInv, [Next]_vars
               PROVE  EpollInv'
    OBVIOUS
  <1>1. ASSUME UNCHANGED <<ports, currentId, epoll, adding, removing>>,
               batch' = batch \/ batch' = {},
               \A c \in Client : toRouter[c] # <<>> => toRouter'[c] # <<>> \/ batch' = {}
        PROVE  EpollInv'
    BY <1>1 DEF EpollInv, TypeOK
  <1>2. CASE Loop
    <2>1. ASSUME NEW i \in batch, HandleUnknownSource(i)
          PROVE  EpollInv'
      BY <1>1, <2>1 DEF HandleUnknownSource, portVars
    <2>2. ASSUME NEW i \in batch, HandleUnknownDestination(i)
          PROVE  EpollInv'
      BY <1>1, <2>2 DEF HandleUnknownDestination
    <2>20. ASSUME NEW i \in batch, HandleIncomplete(i)
           PROVE  EpollInv'
      BY <1>1, <2>20 DEF HandleIncomplete
    <2>3. CASE Forward
      BY <1>1, <2>3 DEF Forward, RouterSends
    <2>4. CASE ForwardFails
      BY <1>1, <2>4 DEF ForwardFails
    <2>5. CASE ForwardBadDescriptor
      BY <1>1, <2>5 DEF ForwardBadDescriptor
    <2> QED
      BY <1>2, <2>1, <2>2, <2>20, <2>3, <2>4, <2>5, WaitKeepsEpoll, MessageKeepsEpoll
         DEF Loop, LoopGoesOn
  <1>3. ASSUME NEW c \in Client, NEW d \in Destination, ClientSend(c, d)
        PROVE  EpollInv'
    <2> DEFINE m == [destination |-> d, payload |-> [from |-> c, to |-> d, seq |-> sent[c] + 1]]
    <2>1. toRouter' = [toRouter EXCEPT ![c] = Append(@, m)] /\ UNCHANGED routerVars
      BY <1>3 DEF ClientSend, ClientSends
    <2>2. m \in Message /\ toRouter[c] \in Seq(Message)
      BY <1>3, SentIsMessage DEF TypeOK
    <2>3. Append(toRouter[c], m) # <<>>
      BY <2>2, AppendNotEmpty
    <2>4. \A b \in Client : toRouter[b] # <<>> => toRouter'[b] # <<>>
      BY <2>1, <2>3 DEF TypeOK
    <2> QED
      BY <1>1, <2>1, <2>4 DEF routerVars
  <1>30. ASSUME NEW c \in Client, ClientSendFail(c)
         PROVE  EpollInv'
    BY <1>1, <1>30 DEF ClientSendFail, ClientSendFails, routerVars
  <1>4. ASSUME NEW c \in Client, ClientReceive(c)
        PROVE  EpollInv'
    BY <1>1, <1>4 DEF ClientReceive, ClientReceives, routerVars
  <1>5. ASSUME NEW c \in Client, ClientLeave(c)
        PROVE  EpollInv'
    BY <1>1, <1>5 DEF ClientLeave, ClientCloses, routerVars
  <1>6. CASE UNCHANGED vars
    BY <1>1, <1>6 DEF vars, portVars, routerVars
  <1> QED
    BY <1>2, <1>3, <1>30, <1>4, <1>5, <1>6, ControlKeepsEpoll DEF Next

(* loop() never blocks in the receive of a port that epoll_wait reported,  *)
(* whatever the other thread adds and removes meanwhile.                   *)
THEOREM ReceivesDoNotBlock == Spec => []ReceiveNeverBlocks
  <1>1. Init => EpollInv
    BY DEF Init, PortInit, RouterInit, EpollInv
  <1>2. EpollInv => ReceiveNeverBlocks
    BY DEF EpollInv, ReceiveNeverBlocks
  <1> QED
    BY <1>1, <1>2, EpollInductive, IdInvariant, PTL DEF Spec

-----------------------------------------------------------------------------
(* Queues, once more.                                                      *)

(* Reading the first message of an ordered queue leaves an ordered queue,  *)
(* of later messages.                                                      *)
LEMMA OrderedTail ==
    ASSUME NEW S, NEW q \in Seq(S), q # <<>>, Ordered(q)
    PROVE  /\ Ordered(Tail(q))
           /\ \A m \in Range(Tail(q)) : Earlier(Head(q).payload, m.payload)
  <1>1. /\ DOMAIN q = 1..Len(q) /\ Len(q) \in Nat \ {0}
        /\ DOMAIN Tail(q) = 1..(Len(q) - 1)
        /\ \A i \in DOMAIN Tail(q) : Tail(q)[i] = q[i + 1]
        /\ Head(q) = q[1]
    OBVIOUS
  <1>2. \A i, j \in DOMAIN q : i < j => Earlier(q[i].payload, q[j].payload)
    BY DEF Ordered
  <1>3. ASSUME NEW i \in DOMAIN Tail(q), NEW j \in DOMAIN Tail(q), i < j
        PROVE  Earlier(Tail(q)[i].payload, Tail(q)[j].payload)
    <2>1. i + 1 \in DOMAIN q /\ j + 1 \in DOMAIN q /\ i + 1 < j + 1
      BY <1>1, <1>3
    <2> QED
      BY <1>1, <1>2, <2>1
  <1>4. ASSUME NEW j \in DOMAIN Tail(q)
        PROVE  Earlier(Head(q).payload, Tail(q)[j].payload)
    <2>1. 1 \in DOMAIN q /\ j + 1 \in DOMAIN q /\ 1 < j + 1
      BY <1>1
    <2> QED
      BY <1>1, <1>2, <2>1
  <1> QED
    BY <1>3, <1>4 DEF Ordered, Range

(* Writing what is later than the whole of an ordered queue keeps it so.   *)
LEMMA OrderedAppend ==
    ASSUME NEW S, NEW q \in Seq(S), NEW e \in S, Ordered(q),
           \A m \in Range(q) : Earlier(m.payload, e.payload)
    PROVE  Ordered(Append(q, e))
  <1>1. /\ DOMAIN q = 1..Len(q) /\ Len(q) \in Nat
        /\ DOMAIN Append(q, e) = 1..(Len(q) + 1)
        /\ \A i \in DOMAIN q : Append(q, e)[i] = q[i]
        /\ Append(q, e)[Len(q) + 1] = e
    OBVIOUS
  <1>2. ASSUME NEW i \in DOMAIN Append(q, e), NEW j \in DOMAIN Append(q, e), i < j
        PROVE  Earlier(Append(q, e)[i].payload, Append(q, e)[j].payload)
    <2>1. i \in DOMAIN q /\ Append(q, e)[i] = q[i] /\ q[i] \in Range(q)
      BY <1>1, <1>2 DEF Range
    <2>2. CASE j \in DOMAIN q
      BY <1>1, <1>2, <2>1, <2>2 DEF Ordered
    <2>3. CASE j \notin DOMAIN q
      <3>1. j = Len(q) + 1
        BY <1>1, <2>3
      <3> QED
        BY <1>1, <2>1, <3>1
    <2> QED
      BY <2>2, <2>3
  <1> QED
    BY <1>2 DEF Ordered

-----------------------------------------------------------------------------
(* What the loop holds: one message, and only between its receive and its  *)
(* send.                                                                   *)

HeldInv ==
    /\ held # {} => pc = "send"
    /\ \A h, g \in held : h = g

LEMMA HeldInductive == HeldInv /\ [Next]_vars => HeldInv'
  <1> SUFFICES ASSUME HeldInv, [Next]_vars
               PROVE  HeldInv'
    OBVIOUS
  <1>1. CASE Control
    BY <1>1 DEF Control, AddPortRegister, AddPortStore, RemovePortErase, RemovePortClose, HeldInv
  <1>2. CASE Loop
    BY <1>2 DEF Loop, LoopGoesOn, EpollWait, HandleUnknownSource, HandleIncomplete,
                HandleUnknownDestination, HandleMessage, Forward, ForwardFails,
                ForwardBadDescriptor, HeldInv
  <1>3. ASSUME UNCHANGED routerVars
        PROVE  HeldInv'
    BY <1>3 DEF routerVars, HeldInv
  <1> QED
    BY <1>1, <1>2, <1>3 DEF Next, vars, ClientSend, ClientSendFail, ClientReceive, ClientLeave

LEMMA HeldInvariant == Spec => [](TypeOK /\ IdInv /\ HeldInv)
  <1>1. Init => HeldInv
    BY DEF Init, RouterInit, HeldInv
  <1> QED
    BY <1>1, HeldInductive, IdInvariant, PTL DEF Spec

-----------------------------------------------------------------------------
(* How the steps that move a message move it, whatever loop() does next.   *)

(* A read takes the first message of its sender's queue into held.         *)
LEMMA MessageMoves ==
    ASSUME TypeOK, HeldInv, NEW i \in batch, HandleMessage(i)
    PROVE  /\ held = {} /\ UNCHANGED toClient
           /\ \E h \in held' :
                /\ held' = {h} /\ h.port \in Client
                /\ \E c \in Client :
                     /\ toRouter[c] # <<>>
                     /\ toRouter' = [toRouter EXCEPT ![c] = Tail(@)]
                     /\ h.message.payload = Head(toRouter[c]).payload
  <1> DEFINE c == ports[i]
             m == Head(toRouter[c])
             h == [id |-> m.destination, port |-> ports[m.destination], message |-> Stamped(m, i)]
  <1>1. /\ i \in DOMAIN ports /\ toRouter[c] # <<>> /\ m.destination \in DOMAIN ports
        /\ toRouter' = [toRouter EXCEPT ![c] = Tail(@)]
        /\ held' = {h} /\ pc = "handle" /\ UNCHANGED toClient
    BY DEF HandleMessage, RouterReceives
  <1>2. c \in Client /\ h.port \in Client /\ toRouter[c] \in Seq(Message)
    BY <1>1 DEF TypeOK
  <1>3. m \in Message
    BY <1>1, <1>2, TailRange
  <1>4. h.message.payload = m.payload
    BY <1>3 DEF Stamped, Message
  <1>5. held = {}
    BY <1>1 DEF HeldInv
  <1> QED
    BY <1>1, <1>2, <1>4, <1>5

(* A send adds what is held to its destination's queue.                    *)
LEMMA ForwardMoves ==
    ASSUME TypeOK, HeldInv, Forward
    PROVE  \E h \in held : /\ held = {h} /\ held' = {}
                           /\ h.port \in Client /\ h.message \in Message
                           /\ toClient' = [toClient EXCEPT ![h.port] = Append(@, h.message)]
                           /\ UNCHANGED toRouter
  <1>1. PICK h \in held : RouterSends(h.port, h.message)
    BY DEF Forward
  <1>2. held = {h} /\ held' = {}
    BY DEF HeldInv, Forward
  <1>3. h.port \in Client /\ h.message \in Message
    BY DEF TypeOK
  <1> QED
    BY <1>1, <1>2, <1>3 DEF RouterSends

(* A queue that lost its first message, or all of them.                    *)
Fewer(q, r) == r = q \/ r = <<>> \/ (q # <<>> /\ r = Tail(q))

LEMMA FewerMessages ==
    ASSUME NEW S, NEW q \in Seq(S), NEW r, Fewer(q, r)
    PROVE  Range(r) \subseteq Range(q) /\ (Ordered(q) => Ordered(r))
  <1>1. CASE r = q
    BY <1>1
  <1>2. CASE r = <<>>
    BY <1>2 DEF Range, Ordered
  <1>3. CASE q # <<>> /\ r = Tail(q)
    BY <1>3, OrderedTail, TailRange
  <1> QED
    BY <1>1, <1>2, <1>3 DEF Fewer

(* Every other step of loop() that leaves it running moves no message, and *)
(* a step that stops it only loses one.                                    *)
LEMMA OtherLoopSteps ==
    ASSUME TypeOK, HeldInv, Loop, ~Forward, \A i \in batch : ~HandleMessage(i)
    PROVE  /\ UNCHANGED toClient
           /\ held' \subseteq held
           /\ \/ UNCHANGED <<toRouter, held>>
              \/ ~Running'
           /\ \A d \in Client : Fewer(toRouter[d], toRouter'[d])
  <1>0. \A d \in Client : Fewer(toRouter[d], toRouter[d])
    BY DEF Fewer
  <1>1. ASSUME NEW some \in SUBSET Ready, EpollWait(some)
        PROVE  UNCHANGED <<toRouter, toClient, held>>
    BY <1>1 DEF EpollWait, portVars
  <1>2. ASSUME NEW i \in batch, HandleUnknownSource(i)
        PROVE  UNCHANGED <<toRouter, toClient, held>>
    BY <1>2 DEF HandleUnknownSource, portVars
  <1>3. ASSUME NEW i \in batch, HandleUnknownDestination(i) \/ HandleIncomplete(i)
        PROVE  /\ UNCHANGED <<toClient, held>> /\ ~Running'
               /\ \A d \in Client : Fewer(toRouter[d], toRouter'[d])
    <2>1. /\ ports[i] \in Client /\ toRouter[ports[i]] # <<>>
          /\ toRouter' = [toRouter EXCEPT ![ports[i]] = Tail(@)]
          /\ UNCHANGED <<toClient, held>> /\ ~Running'
      BY <1>3 DEF HandleUnknownDestination, HandleIncomplete, RouterReceives, Running, TypeOK
    <2>2. \A d \in Client :
            toRouter'[d] = IF d = ports[i] THEN Tail(toRouter[ports[i]]) ELSE toRouter[d]
      BY <2>1 DEF TypeOK
    <2> QED
      BY <2>1, <2>2 DEF Fewer
  <1>4. ASSUME ForwardFails
        PROVE  /\ UNCHANGED toClient /\ held' = {} /\ ~Running'
               /\ \A d \in Client : Fewer(toRouter[d], toRouter'[d])
    <2>1. PICK h \in held : toRouter' = [toRouter EXCEPT ![h.port] = <<>>] /\ UNCHANGED toClient
      BY <1>4 DEF ForwardFails, RouterSendFails
    <2>2. \A d \in Client : toRouter'[d] = <<>> \/ toRouter'[d] = toRouter[d]
      BY <2>1 DEF TypeOK
    <2> QED
      BY <1>4, <2>1, <2>2 DEF ForwardFails, Running, Fewer
  <1>5. ASSUME ForwardBadDescriptor
        PROVE  UNCHANGED <<toClient, toRouter>> /\ held' = {} /\ ~Running'
    BY <1>5 DEF ForwardBadDescriptor, portVars, Running
  <1> QED
    BY <1>0, <1>1, <1>2, <1>3, <1>4, <1>5 DEF Loop, LoopGoesOn

-----------------------------------------------------------------------------
(* Nothing is lost.  NothingLost with HeldInv is inductive: a receive      *)
(* would overwrite what is held if the loop could read again before its    *)
(* send.                                                                   *)

(* What is somewhere stays somewhere for as long as loop() runs, or is      *)
(* purged from the queue of a client whose port was closed.                *)
LEMMA TracedGrows ==
    ASSUME TypeOK, HeldInv, [Next]_vars, Running'
    PROVE  Traced \subseteq Traced'
  <1>0. \A c \in Client : toRouter[c] \in Seq(Message) /\ toClient[c] \in Seq(Message)
    BY DEF TypeOK
  <1>01. closed \subseteq closed'
    <2>1. CASE Control
      BY <2>1 DEF Control, AddPortRegister, AddPortStore, RemovePortErase, RemovePortClose,
             RouterCloses, portVars
    <2>2. CASE Loop
      BY <2>2 DEF Loop, LoopGoesOn, EpollWait, HandleUnknownSource, HandleIncomplete,
             HandleUnknownDestination, HandleMessage, Forward, ForwardFails,
             ForwardBadDescriptor, RouterReceives, RouterSends, RouterSendFails, portVars
    <2> QED
      BY <2>1, <2>2 DEF Next, ClientSend, ClientSends, ClientSendFail, ClientSendFails,
             ClientReceive, ClientReceives, ClientLeave, ClientCloses, vars, portVars
  <1>02. ASSUME Everywhere \subseteq Everywhere', UNCHANGED purged
         PROVE  Traced \subseteq Traced'
    BY <1>01, <1>02 DEF Traced
  <1> USE DEF Everywhere, Delivered, Routed, Routing
  <1>1. ASSUME UNCHANGED <<toRouter, toClient, held, received, purged>>
        PROVE  Traced \subseteq Traced'
    BY <1>1, <1>02
  <1>2. ASSUME NEW i \in batch, HandleMessage(i), UNCHANGED <<received, purged>>
        PROVE  Everywhere \subseteq Everywhere'
    <2>1. held = {} /\ UNCHANGED toClient
      BY <1>2, MessageMoves
    <2>2. PICK h \in held', c \in Client :
            /\ toRouter[c] # <<>>
            /\ toRouter' = [toRouter EXCEPT ![c] = Tail(@)]
            /\ h.message.payload = Head(toRouter[c]).payload
      BY <1>2, MessageMoves
    <2>3. Range(toRouter[c]) = {Head(toRouter[c])} \cup Range(Tail(toRouter[c]))
      BY <1>0, <2>2, HeadAndTail
    <2>4. \A d \in Client : \A m \in Range(toRouter[d]) :
            m \in Range(toRouter'[d]) \/ m.payload = h.message.payload
      BY <1>0, <2>2, <2>3 DEF TypeOK
    <2>5. \A d \in Client : \A m \in Range(toRouter[d]) : m.payload \in Everywhere'
      BY <2>4
    <2> QED
      BY <1>2, <2>1, <2>5
  <1>3. ASSUME Forward, UNCHANGED <<received, purged>>
        PROVE  Everywhere \subseteq Everywhere'
    <2>1. PICK h \in held : /\ held = {h} /\ held' = {}
                            /\ h.port \in Client /\ h.message \in Message
                            /\ toClient' = [toClient EXCEPT ![h.port] = Append(@, h.message)]
                            /\ UNCHANGED toRouter
      BY <1>3, ForwardMoves
    <2>2. Range(Append(toClient[h.port], h.message)) = Range(toClient[h.port]) \cup {h.message}
      BY <1>0, <2>1, AppendRange
    <2>3. /\ \A d \in Client : Range(toClient[d]) \subseteq Range(toClient'[d])
          /\ h.message \in Range(toClient'[h.port])
      BY <2>1, <2>2 DEF TypeOK
    <2> QED
      BY <1>3, <2>1, <2>3
  <1>4. ASSUME NEW c \in Client, NEW d \in Destination, ClientSend(c, d)
        PROVE  Everywhere \subseteq Everywhere'
    <2> DEFINE m == [destination |-> d, payload |-> [from |-> c, to |-> d, seq |-> sent[c] + 1]]
    <2>1. /\ toRouter' = [toRouter EXCEPT ![c] = Append(@, m)]
          /\ UNCHANGED <<toClient, held, received>>
      BY <1>4 DEF ClientSend, ClientSends, routerVars
    <2>2. m \in Message
      BY <1>4, SentIsMessage
    <2>3. Range(Append(toRouter[c], m)) = Range(toRouter[c]) \cup {m}
      BY <1>0, <2>2, AppendRange
    <2> HIDE DEF m
    <2>4. \A b \in Client : Range(toRouter[b]) \subseteq Range(toRouter'[b])
      BY <2>1, <2>3 DEF TypeOK
    <2>5. UNCHANGED toClient /\ UNCHANGED held /\ UNCHANGED received
      BY <2>1
    <2> HIDE DEF TypeOK
    <2> QED
      BY <2>4, <2>5
  <1>5. ASSUME NEW c \in Client, ClientReceive(c)
        PROVE  Everywhere \subseteq Everywhere'
    <2>1. /\ toClient[c] # <<>>
          /\ toClient' = [toClient EXCEPT ![c] = Tail(@)]
          /\ received' = [received EXCEPT ![c] = @ \cup {Head(toClient[c]).payload}]
          /\ UNCHANGED <<toRouter, held>>
      BY <1>5 DEF ClientReceive, ClientReceives, routerVars
    <2>2. Range(toClient[c]) = {Head(toClient[c])} \cup Range(Tail(toClient[c]))
      BY <1>0, <2>1, HeadAndTail
    <2>3. \A d \in Client : Delivered(d) \subseteq Delivered(d)'
      BY <2>1, <2>2 DEF TypeOK
    <2> HIDE DEF Delivered
    <2> QED
      BY <2>1, <2>3
  <1>6. ASSUME NEW c \in Client, ClientSendFail(c)
        PROVE  Traced \subseteq Traced'
    <2>1. /\ c \in closed
          /\ toClient' = [toClient EXCEPT ![c] = <<>>]
          /\ purged' = [purged EXCEPT ![c] = @ \cup {m.payload : m \in Routed(c)}]
          /\ UNCHANGED <<toRouter, held, received>>
      BY <1>6 DEF ClientSendFail, ClientSendFails, routerVars
    <2>2. \A d \in Client : purged[d] \subseteq purged'[d]
      BY <2>1 DEF TypeOK
    <2>3. {m.payload : m \in Routed(c)} \subseteq purged'[c]
      BY <2>1 DEF TypeOK
    <2>4. \A d \in Client \ {c} : toClient'[d] = toClient[d]
      BY <2>1 DEF TypeOK
    <2>5. \A p \in Everywhere : p \in Everywhere' \/ p \in purged'[c]
      BY <2>1, <2>3, <2>4
    <2>6. closed \subseteq Client
      BY DEF TypeOK
    <2> HIDE DEF Everywhere
    <2> QED
      BY <1>01, <2>1, <2>2, <2>5, <2>6 DEF Traced
  <1> QED
    <2>0. UNCHANGED history => UNCHANGED received /\ UNCHANGED purged
      BY DEF history
    <2> HIDE DEF Everywhere
    <2>1. CASE Control /\ UNCHANGED history
      BY <1>1, <2>0, <2>1, ControlKeepsMessages
    <2>2. CASE Loop /\ UNCHANGED history
      BY <1>02, <1>1, <1>2, <1>3, <2>0, <2>2, OtherLoopSteps
    <2>3. ASSUME NEW c \in Client, ClientLeave(c)
          PROVE  Traced \subseteq Traced'
      BY <1>1, <2>0, <2>3 DEF ClientLeave, ClientCloses, routerVars
    <2>4. CASE UNCHANGED vars
      BY <1>1, <2>0, <2>4 DEF vars, portVars, routerVars
    <2>5. ASSUME NEW c \in Client, NEW d \in Destination, ClientSend(c, d)
          PROVE  Traced \subseteq Traced'
      BY <1>02, <1>4, <2>5 DEF ClientSend
    <2>6. ASSUME NEW c \in Client, ClientReceive(c)
          PROVE  Traced \subseteq Traced'
      BY <1>02, <1>5, <2>6 DEF ClientReceive
    <2> QED
      BY <1>6, <2>1, <2>2, <2>3, <2>4, <2>5, <2>6 DEF Next

LEMMA LossInductive == TypeOK /\ HeldInv /\ NothingLost /\ [Next]_vars => NothingLost'
  <1> SUFFICES ASSUME TypeOK, HeldInv, NothingLost, [Next]_vars, Running',
                      NEW c \in Client, NEW n \in 1..sent'[c]
               PROVE  \E p \in Traced' : p.from = c /\ p.seq = n
    BY DEF NothingLost
  <1>1. Traced \subseteq Traced'
    BY TracedGrows
  <1>2. Running
    BY DEF Next, Control, AddPortRegister, AddPortStore, RemovePortErase, RemovePortClose,
           Loop, LoopGoesOn, EpollWait, HandleUnknownSource, HandleIncomplete,
           HandleUnknownDestination, HandleMessage, Forward, ForwardFails, ForwardBadDescriptor,
           ClientSend, ClientSendFail, ClientReceive, ClientLeave, routerVars, vars, Running
  <1>3. CASE n \in 1..sent[c]
    BY <1>1, <1>2, <1>3 DEF NothingLost
  <1>4. CASE n \notin 1..sent[c]
    <2>1. sent'[c] # sent[c]
      BY <1>4
    <2>2. PICK d \in Destination : ClientSend(c, d)
      <3>1. \A b \in Client, d \in Destination :
              ClientSend(b, d) => sent' = [sent EXCEPT ![b] = @ + 1]
        BY DEF ClientSend
      <3>2. PICK b \in Client, d \in Destination : ClientSend(b, d)
        BY <2>1 DEF Next, ClientSendFail, ClientReceive, ClientLeave, history, vars
      <3>3. b = c
        BY <2>1, <3>1, <3>2 DEF TypeOK
      <3> QED
        BY <3>2, <3>3
    <2> DEFINE m == [destination |-> d, payload |-> [from |-> c, to |-> d, seq |-> sent[c] + 1]]
    <2>3. /\ toRouter' = [toRouter EXCEPT ![c] = Append(@, m)]
          /\ sent'[c] = sent[c] + 1 /\ sent[c] \in Nat
      BY <2>2, MaxSendsAssumption DEF ClientSend, ClientSends, TypeOK
    <2>4. n = sent[c] + 1
      BY <1>4, <2>3
    <2>5. m \in Range(toRouter'[c])
      <3>1. m \in Message
        BY <2>2, SentIsMessage
      <3>2. toRouter[c] \in Seq(Message) /\ toRouter'[c] = Append(toRouter[c], m)
        BY <2>3 DEF TypeOK
      <3> HIDE DEF m
      <3> QED
        BY <3>1, <3>2, AppendRange
    <2>6. m.payload \in Traced'
      BY <2>5 DEF Traced, Everywhere
    <2> QED
      BY <2>4, <2>6
  <1> QED
    BY <1>3, <1>4

(* Whatever clients write, and however often ports come and go, no message *)
(* is lost before loop() returns, but from the queue of a client that was  *)
(* removed and writes again.                                               *)
THEOREM NoMessageLost == Spec => []NothingLost
  <1>1. Init => NothingLost
    BY DEF Init, NothingLost
  <1> QED
    BY <1>1, LossInductive, HeldInvariant, PTL DEF Spec

-----------------------------------------------------------------------------
(* What one client writes is read in order, and once.  PairOrder is not    *)
(* inductive: the next message must be later than all there are, so no     *)
(* count may be beyond its sender's; that queues keep to one sender is in  *)
(* IdInv.                                                                  *)

OrderInv ==
    /\ PairOrder
    /\ \A p \in Everywhere : p.seq <= sent[p.from]

(* Losing messages keeps the others in order.                              *)
LEMMA OrderOfFewer ==
    ASSUME TypeOK, OrderInv, UNCHANGED <<sent, received>>, held' \subseteq held,
           \A d \in Client : Fewer(toRouter[d], toRouter'[d]) /\ Fewer(toClient[d], toClient'[d])
    PROVE  OrderInv'
  <1>1. \A d \in Client :
          /\ Ordered(toRouter'[d]) /\ Range(toRouter'[d]) \subseteq Range(toRouter[d])
          /\ Ordered(toClient'[d]) /\ Range(toClient'[d]) \subseteq Range(toClient[d])
    <2> TAKE d \in Client
    <2>1. toRouter[d] \in Seq(Message) /\ toClient[d] \in Seq(Message)
      BY DEF TypeOK
    <2>2. Ordered(toRouter[d]) /\ Ordered(toClient[d])
      BY DEF OrderInv, PairOrder
    <2>3. Ordered(toRouter'[d]) /\ Range(toRouter'[d]) \subseteq Range(toRouter[d])
      BY <2>1, <2>2, FewerMessages
    <2>4. Ordered(toClient'[d]) /\ Range(toClient'[d]) \subseteq Range(toClient[d])
      BY <2>1, <2>2, FewerMessages
    <2> QED
      BY <2>3, <2>4
  <1>2. \A c \in Client : Routed(c)' \subseteq Routed(c) /\ Delivered(c)' \subseteq Delivered(c)
    BY <1>1 DEF Routed, Delivered
  <1>3. Routing' \subseteq Routing
    BY DEF Routing
  <1>4. PairOrder'
    <2>1. \A c \in Client : Ordered(toRouter[c]') /\ Ordered(toClient[c]')
      BY <1>1 DEF OrderInv, PairOrder
    <2>2. \A c \in Client : \A p \in received'[c], m \in Routed(c)' : Earlier(p, m.payload)
      BY <1>2 DEF OrderInv, PairOrder
    <2>3. \A h \in held' : \A p \in Delivered(h.port)' : Earlier(p, h.message.payload)
      <3>1. \A h \in held' : h \in held /\ h.port \in Client
        BY DEF TypeOK
      <3> QED
        BY <1>2, <3>1 DEF OrderInv, PairOrder
    <2>4. \A c, d \in Client : \A m \in Range(toRouter'[d]) :
            \A p \in Delivered(c)' \cup {r.payload : r \in Routing'} : Earlier(p, m.payload)
      BY <1>1, <1>2, <1>3 DEF OrderInv, PairOrder
    <2> QED
      BY <2>1, <2>2, <2>3, <2>4 DEF PairOrder
  <1>5. Everywhere' \subseteq Everywhere
    BY <1>1, <1>2, <1>3 DEF Everywhere
  <1> QED
    BY <1>4, <1>5 DEF OrderInv

(* The loop takes the first of its sender's messages, which is earlier     *)
(* than those left and later than those before it.                         *)
LEMMA OrderOfRead ==
    ASSUME TypeOK, IdInv, HeldInv, OrderInv, NEW i \in batch, HandleMessage(i),
           UNCHANGED <<sent, received>>
    PROVE  OrderInv'
  <1>1. held = {} /\ UNCHANGED toClient
    BY MessageMoves
  <1>2. PICK h \in held', c \in Client :
          /\ held' = {h} /\ h.port \in Client
          /\ toRouter[c] # <<>>
          /\ toRouter' = [toRouter EXCEPT ![c] = Tail(@)]
          /\ h.message.payload = Head(toRouter[c]).payload
    BY MessageMoves
  <1> DEFINE m == Head(toRouter[c])
  <1>3. toRouter[c] \in Seq(Message) /\ Ordered(toRouter[c])
    BY DEF TypeOK, OrderInv, PairOrder
  <1>4. /\ m \in Range(toRouter[c])
        /\ Range(Tail(toRouter[c])) \subseteq Range(toRouter[c])
        /\ Ordered(Tail(toRouter[c]))
        /\ \A n \in Range(Tail(toRouter[c])) : Earlier(m.payload, n.payload)
    BY <1>2, <1>3, OrderedTail, TailRange
  <1>5. \A d \in Client : toRouter'[d] = IF d = c THEN Tail(toRouter[c]) ELSE toRouter[d]
    BY <1>2 DEF TypeOK
  <1>6. \A d \in Client : /\ Ordered(toRouter'[d])
                          /\ Range(toRouter'[d]) \subseteq Range(toRouter[d])
    BY <1>4, <1>5 DEF OrderInv, PairOrder
  <1>7. \A d \in Client : Routed(d)' = Routed(d) /\ Delivered(d)' = Delivered(d)
    BY <1>1 DEF Routed, Delivered
  <1>8. \A r \in Routing' : r.payload = m.payload
    BY <1>2 DEF Routing
  <1>9. \A d \in Client : \A n \in Range(toRouter'[d]) : Earlier(m.payload, n.payload)
    <2>1. m.payload.from = c
      BY <1>4 DEF IdInv
    <2>2. \A d \in Client : \A n \in Range(toRouter'[d]) : n.payload.from = d
      BY <1>6 DEF IdInv
    <2> QED
      BY <1>4, <1>5, <2>1, <2>2 DEF Earlier
  <1>10. \A d \in Client : \A p \in Delivered(d) : Earlier(p, m.payload)
    BY <1>4 DEF OrderInv, PairOrder
  <1>11. PairOrder'
    <2>1. \A d \in Client : Ordered(toRouter[d]') /\ Ordered(toClient[d]')
      BY <1>1, <1>6 DEF OrderInv, PairOrder
    <2>2. \A d \in Client : \A p \in received'[d], n \in Routed(d)' : Earlier(p, n.payload)
      BY <1>7 DEF OrderInv, PairOrder
    <2>3. \A g \in held' : \A p \in Delivered(g.port)' : Earlier(p, g.message.payload)
      BY <1>2, <1>7, <1>10
    <2>4. \A b, d \in Client : \A n \in Range(toRouter'[d]) : \A p \in Delivered(b)' :
            Earlier(p, n.payload)
      BY <1>6, <1>7 DEF OrderInv, PairOrder
    <2>5. \A d \in Client : \A n \in Range(toRouter'[d]) : \A r \in Routing' :
            Earlier(r.payload, n.payload)
      BY <1>8, <1>9
    <2> QED
      BY <2>1, <2>2, <2>3, <2>4, <2>5 DEF PairOrder
  <1>12. Everywhere' \subseteq Everywhere
    BY <1>4, <1>6, <1>7, <1>8 DEF Everywhere
  <1> QED
    BY <1>11, <1>12 DEF OrderInv

(* What is held is later than all its receiver has.                        *)
LEMMA OrderOfForward ==
    ASSUME TypeOK, HeldInv, OrderInv, Forward, UNCHANGED <<sent, received>>
    PROVE  OrderInv'
  <1>1. PICK h \in held : /\ held = {h} /\ held' = {}
                          /\ h.port \in Client /\ h.message \in Message
                          /\ toClient' = [toClient EXCEPT ![h.port] = Append(@, h.message)]
                          /\ UNCHANGED toRouter
    BY ForwardMoves
  <1> DEFINE c == h.port
             m == h.message
  <1>2. toClient[c] \in Seq(Message) /\ Ordered(toClient[c])
    BY <1>1 DEF TypeOK, OrderInv, PairOrder
  <1>3. \A p \in Delivered(c) : Earlier(p, m.payload)
    BY DEF OrderInv, PairOrder
  <1>4. \A n \in Range(toClient[c]) : Earlier(n.payload, m.payload)
    BY <1>3 DEF Delivered, Routed
  <1>5. Ordered(Append(toClient[c], m)) /\ Range(Append(toClient[c], m)) = Range(toClient[c]) \cup {m}
    BY <1>1, <1>2, <1>4, OrderedAppend, AppendRange
  <1>6. \A d \in Client : toClient'[d] = IF d = c THEN Append(toClient[c], m) ELSE toClient[d]
    BY <1>1 DEF TypeOK
  <1>7. \A d \in Client : /\ Routed(d)' \subseteq Routed(d) \cup (IF d = c THEN {m} ELSE {})
                          /\ Delivered(d)' \subseteq Delivered(d) \cup {m.payload}
    BY <1>5, <1>6 DEF Routed, Delivered
  <1>8. m \in Routing /\ Routing' = {}
    BY <1>1 DEF Routing
  <1>9. PairOrder'
    <2>1. \A d \in Client : Ordered(toRouter[d]') /\ Ordered(toClient[d]')
      BY <1>1, <1>5, <1>6 DEF OrderInv, PairOrder
    <2>2. \A p \in received[c] : Earlier(p, m.payload)
      BY <1>3 DEF Delivered
    <2>3. \A d \in Client : \A p \in received'[d], n \in Routed(d)' : Earlier(p, n.payload)
      BY <1>7, <2>2 DEF OrderInv, PairOrder
    <2>4. \A b, d \in Client : \A n \in Range(toRouter'[d]) : \A p \in Delivered(b)' :
            Earlier(p, n.payload)
      <3>1. \A d \in Client : \A n \in Range(toRouter[d]) : Earlier(m.payload, n.payload)
        BY <1>1, <1>8 DEF OrderInv, PairOrder
      <3> QED
        BY <1>1, <1>7, <3>1 DEF OrderInv, PairOrder
    <2> QED
      BY <1>1, <1>8, <2>1, <2>3, <2>4 DEF PairOrder
  <1>10. Everywhere' \subseteq Everywhere
    BY <1>1, <1>7, <1>8 DEF Everywhere
  <1> QED
    BY <1>9, <1>10 DEF OrderInv

(* A client's next message is later than all it has written.               *)
LEMMA OrderOfSend ==
    ASSUME TypeOK, IdInv, OrderInv, NEW c \in Client, NEW d \in Destination, ClientSend(c, d)
    PROVE  OrderInv'
  <1> DEFINE m == [destination |-> d, payload |-> [from |-> c, to |-> d, seq |-> sent[c] + 1]]
  <1>1. /\ toRouter' = [toRouter EXCEPT ![c] = Append(@, m)]
        /\ sent' = [sent EXCEPT ![c] = @ + 1]
        /\ UNCHANGED <<toClient, held, received>>
    BY DEF ClientSend, ClientSends, routerVars
  <1>2. m \in Message /\ toRouter[c] \in Seq(Message) /\ Ordered(toRouter[c])
    BY SentIsMessage DEF TypeOK, OrderInv, PairOrder
  <1>3. sent \in [Client -> Nat]
    BY MaxSendsAssumption DEF TypeOK
  <1>4. \A p \in Everywhere : p \in Payload
    <2>1. /\ \A b \in Client : Range(toRouter[b]) \subseteq Message /\ Routed(b) \subseteq Message
          /\ Routing \subseteq Message
          /\ \A b \in Client : received[b] \subseteq Payload
      BY DEF TypeOK, Range, Routed, Routing
    <2>2. \A n \in Message : n.payload \in Payload
      BY DEF Message
    <2> QED
      BY <2>1, <2>2 DEF Everywhere, Delivered
  <1>5. \A p \in Everywhere : Earlier(p, m.payload)
    BY <1>3, <1>4 DEF OrderInv, Earlier, Payload
  <1>6. \A n \in Range(toRouter[c]) : Earlier(n.payload, m.payload)
    BY <1>5 DEF Everywhere
  <1>7. Ordered(Append(toRouter[c], m)) /\ Range(Append(toRouter[c], m)) = Range(toRouter[c]) \cup {m}
    BY <1>2, <1>6, OrderedAppend, AppendRange
  <1>8. \A b \in Client : toRouter'[b] = IF b = c THEN Append(toRouter[c], m) ELSE toRouter[b]
    BY <1>1 DEF TypeOK
  <1>9. \A b \in Client : /\ Ordered(toRouter'[b])
                          /\ Range(toRouter'[b]) \subseteq Range(toRouter[b]) \cup {m}
    BY <1>7, <1>8 DEF OrderInv, PairOrder
  <1>10. /\ \A b \in Client : Routed(b)' = Routed(b) /\ Delivered(b)' = Delivered(b)
         /\ Routing' = Routing
    BY <1>1 DEF Routed, Delivered, Routing
  <1>11. /\ \A b \in Client : \A p \in Delivered(b) : Earlier(p, m.payload)
         /\ \A r \in Routing : Earlier(r.payload, m.payload)
    BY <1>5 DEF Everywhere
  <1>12. PairOrder'
    <2>1. \A b \in Client : Ordered(toRouter[b]') /\ Ordered(toClient[b]')
      BY <1>1, <1>9 DEF OrderInv, PairOrder
    <2>2. \A b \in Client : \A p \in received'[b], n \in Routed(b)' : Earlier(p, n.payload)
      BY <1>1, <1>10 DEF OrderInv, PairOrder
    <2>3. \A h \in held' : \A p \in Delivered(h.port)' : Earlier(p, h.message.payload)
      <3>1. \A h \in held : h.port \in Client
        BY DEF TypeOK
      <3> QED
        BY <1>1, <1>10, <3>1 DEF OrderInv, PairOrder
    <2>4. \A b, e \in Client : \A n \in Range(toRouter'[e]) :
            \A p \in Delivered(b)' \cup {r.payload : r \in Routing'} : Earlier(p, n.payload)
      BY <1>9, <1>10, <1>11 DEF OrderInv, PairOrder
    <2> QED
      BY <2>1, <2>2, <2>3, <2>4 DEF PairOrder
  <1>13. \A p \in Everywhere' : p.seq <= sent'[p.from]
    <2>1. Everywhere' \subseteq Everywhere \cup {m.payload}
      BY <1>9, <1>10 DEF Everywhere
    <2>2. \A p \in Everywhere : p.seq <= sent'[p.from]
      BY <1>1, <1>3, <1>4 DEF OrderInv, Payload
    <2>3. m.payload.seq <= sent'[m.payload.from]
      BY <1>1, <1>3
    <2> QED
      BY <2>1, <2>2, <2>3
  <1> QED
    BY <1>12, <1>13 DEF OrderInv

(* A client reads the earliest of its queue.                               *)
LEMMA OrderOfReceive ==
    ASSUME TypeOK, OrderInv, NEW c \in Client, ClientReceive(c)
    PROVE  OrderInv'
  <1> DEFINE m == Head(toClient[c])
  <1>1. /\ toClient[c] # <<>>
        /\ toClient' = [toClient EXCEPT ![c] = Tail(@)]
        /\ received' = [received EXCEPT ![c] = @ \cup {m.payload}]
        /\ UNCHANGED <<toRouter, held, sent>>
    BY DEF ClientReceive, ClientReceives, routerVars
  <1>2. toClient[c] \in Seq(Message) /\ Ordered(toClient[c])
    BY DEF TypeOK, OrderInv, PairOrder
  <1>3. /\ Ordered(Tail(toClient[c]))
        /\ \A n \in Range(Tail(toClient[c])) : Earlier(m.payload, n.payload)
        /\ Range(toClient[c]) = {m} \cup Range(Tail(toClient[c]))
    BY <1>1, <1>2, OrderedTail, HeadAndTail
  <1>4. \A d \in Client :
          /\ toClient'[d] = IF d = c THEN Tail(toClient[c]) ELSE toClient[d]
          /\ received'[d] = IF d = c THEN received[c] \cup {m.payload} ELSE received[d]
    BY <1>1 DEF TypeOK
  <1>5. \A d \in Client : Routed(d)' \subseteq Routed(d) /\ Delivered(d)' = Delivered(d)
    BY <1>3, <1>4 DEF Routed, Delivered
  <1>6. Routing' = Routing
    BY <1>1 DEF Routing
  <1>7. PairOrder'
    <2>1. \A d \in Client : Ordered(toRouter[d]') /\ Ordered(toClient[d]')
      BY <1>1, <1>3, <1>4 DEF OrderInv, PairOrder
    <2>2. \A n \in Routed(c)' : Earlier(m.payload, n.payload)
      BY <1>3, <1>4 DEF Routed
    <2>3. \A d \in Client : \A p \in received'[d], n \in Routed(d)' : Earlier(p, n.payload)
      BY <1>4, <1>5, <2>2 DEF OrderInv, PairOrder
    <2>4. \A h \in held' : \A p \in Delivered(h.port)' : Earlier(p, h.message.payload)
      <3>1. \A h \in held : h.port \in Client
        BY DEF TypeOK
      <3> QED
        BY <1>1, <1>5, <3>1 DEF OrderInv, PairOrder
    <2>5. \A b, e \in Client : \A n \in Range(toRouter'[e]) :
            \A p \in Delivered(b)' \cup {r.payload : r \in Routing'} : Earlier(p, n.payload)
      BY <1>1, <1>5, <1>6 DEF OrderInv, PairOrder
    <2> QED
      BY <2>1, <2>3, <2>4, <2>5 DEF PairOrder
  <1>8. Everywhere' \subseteq Everywhere
    BY <1>1, <1>5, <1>6 DEF Everywhere
  <1> QED
    BY <1>1, <1>7, <1>8 DEF OrderInv

LEMMA OrderInductive == TypeOK /\ IdInv /\ HeldInv /\ OrderInv /\ [Next]_vars => OrderInv'
  <1> SUFFICES ASSUME TypeOK, IdInv, HeldInv, OrderInv, [Next]_vars
               PROVE  OrderInv'
    OBVIOUS
  <1>0. UNCHANGED history => UNCHANGED sent /\ UNCHANGED received
    BY DEF history
  <1>00. ASSUME UNCHANGED <<toRouter, toClient, held, sent, received>>
         PROVE  OrderInv'
    BY <1>00, OrderOfFewer DEF Fewer
  <1>1. CASE Control /\ UNCHANGED history
    BY <1>0, <1>00, <1>1, ControlKeepsMessages
  <1>2. CASE Loop /\ UNCHANGED history
    <2>1. CASE ~Forward /\ \A i \in batch : ~HandleMessage(i)
      <3>1. \A d \in Client : Fewer(toClient[d], toClient'[d])
        BY <1>2, <2>1, OtherLoopSteps DEF Fewer
      <3> QED
        BY <1>0, <1>2, <2>1, <3>1, OtherLoopSteps, OrderOfFewer
    <2> QED
      BY <1>0, <1>2, <2>1, OrderOfForward, OrderOfRead
  <1>3. ASSUME NEW c \in Client, ClientLeave(c)
        PROVE  OrderInv'
    BY <1>0, <1>00, <1>3 DEF ClientLeave, ClientCloses, routerVars
  <1>4. CASE UNCHANGED vars
    BY <1>0, <1>00, <1>4 DEF vars, portVars, routerVars
  <1>5. ASSUME NEW c \in Client, ClientSendFail(c)
        PROVE  OrderInv'
    <2>1. /\ toClient' = [toClient EXCEPT ![c] = <<>>]
          /\ UNCHANGED <<toRouter, held, sent, received>>
      BY <1>5 DEF ClientSendFail, ClientSendFails, routerVars
    <2>2. \A d \in Client : Fewer(toClient[d], toClient'[d]) /\ Fewer(toRouter[d], toRouter'[d])
      BY <2>1 DEF Fewer, TypeOK
    <2> QED
      BY <2>1, <2>2, OrderOfFewer
  <1> QED
    BY <1>1, <1>2, <1>3, <1>4, <1>5, OrderOfSend, OrderOfReceive DEF Next

(* What one client writes is read in the order it was written, and once,   *)
(* whatever ports are added and removed meanwhile.                         *)
THEOREM PairsInOrder == Spec => []PairOrder
  <1>1. Init => OrderInv
    BY DEF Init, PortInit, RouterInit, OrderInv, PairOrder, Ordered, Everywhere, Delivered,
           Routed, Routing, Range
  <1>2. OrderInv => PairOrder
    BY DEF OrderInv
  <1> QED
    BY <1>1, <1>2, OrderInductive, HeldInvariant, PTL DEF Spec

=============================================================================
