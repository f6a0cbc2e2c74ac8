---------------------------- MODULE RpcTypeProofs ----------------------------
(***************************************************************************)
(* Remote calls over any number of programs: the inductive invariant of    *)
(* RpcSystem, part by part, for this module and RpcCallProofs; then the    *)
(* types, the wiring and the ids of objects, and what the steps of         *)
(* RpcSystem do to the letters on their way: which one is taken from the   *)
(* head of a track, which one is put at the end of another, and what that  *)
(* leaves of the letters and of the uniqueness of their tags.  WiringInv   *)
(* and IdsInv say what the other proofs take from the router and from      *)
(* next_id_.                                                               *)
(*                                                                         *)
(* A message is seen as a letter: what it says, the program it comes from  *)
(* and the one it goes to.  A letter stays the same while the router and   *)
(* the channels pass it on, though the messages that carry it differ.      *)
(* Track lists the letters of each place where messages wait, in order, so *)
(* that every step takes a letter from the head of a track, puts one at    *)
(* the end of another, does both, or clears a track.                       *)
(***************************************************************************)
EXTENDS RpcSystem, CommonLemmas, FiniteSetTheorems, TLAPS

(* The wiring is fixed: each port has its id, nobody leaves, and only the  *)
(* end of the router's process closes anything.  Its loop() returns only   *)
(* for want of descriptors.                                                *)
WiringInv ==
    /\ DOMAIN ports = Range(PortOf)
    /\ \A c \in Client : ports[PortOf[c]] = c
    /\ epoll = PortOf
    /\ gone = {}
    /\ pc \in {"wait", "handle", "send", "exited"} \/ (FdsRunOut /\ pc = "stopped")
    /\ closed # {} => pc = "exited"
    /\ batch \subseteq DOMAIN ports
    /\ pc # "send" => held = {}
    /\ \A h, g \in held : h = g
    /\ \A h \in held : h.id \in DOMAIN ports /\ h.port = ports[h.id]

(* Every message, and every proxy, names a port the router knows.          *)
AddressInv ==
    /\ \A c \in Client : \A m \in Range(toRouter[c]) : m.destination \in DOMAIN ports
    /\ \A h \in held : h.message.destination \in DOMAIN ports
    /\ \A c \in Client : \A m \in Range(toClient[c]) : m.destination \in DOMAIN ports
    /\ \A c \in Client : \A p \in Range(queue[c]) : p.source_port \in DOMAIN ports
    /\ \A c \in Client : \A o \in out[c] : o.port \in DOMAIN ports
    /\ \A c \in Client : \A p \in proxies[c] : p.port \in DOMAIN ports

-----------------------------------------------------------------------------
(* Objects.                                                                *)

ProxyIds(c) == {p.id : p \in proxies[c]}

(* What a proxy may be connected to.                                       *)
Objects(c) == receivers[c] \cup WrongId

(* An id stands for a receiver or for a proxy, never for both.             *)
IdsInv ==
    \A c \in Client :
        /\ receivers[c] \cup ProxyIds(c) \subseteq allocated[c]
        /\ receivers[c] \cap ProxyIds(c) = {}
        /\ \A p \in proxies[c] : p.remote \in Objects(ports[p.port])

(* A wrong id that some proxy happens to have makes the peer take that     *)
(* proxy's request for an answer (channel.cpp:110-111): the theorems       *)
(* exclude it.                                                             *)
WrongIdsAreFree == \A c \in Client : ProxyIds(c) \cap WrongId = {}

-----------------------------------------------------------------------------
(* Threads.                                                                *)

(* The head of the queue is being handled.                                 *)
Handling(c) == inLoop[c] /\ phase[c] \in {"app", "send", "await"}

(* It is, or an exception may have left its handler.                       *)
Entered(c) == Handling(c) \/ phase[c] = "dead"

ThreadInv(c) ==
    /\ phase[c] \in {"read", "dispatch"} => inLoop[c]
    /\ phase[c] = "dispatch" \/ Handling(c) => queue[c] # <<>>
    /\ phase[c] \notin {"send", "await"} => out[c] = {}
    /\ phase[c] \in {"send", "await"} => \E o \in out[c] : out[c] = {o}
    /\ phase[c] = "await" => \A o \in out[c] : o.message.kind = "request"
    /\ \A o \in out[c] : o.message.kind = "reply" => Handling(c)

PhaseInv == \A c \in Client : ThreadInv(c)

-----------------------------------------------------------------------------
(* Letters.                                                                *)

LetterSet == [from : Client, to : Client, payload : RpcMessage]

Letter(from, to, payload) == [from |-> from, to |-> to, payload |-> payload]

TagOf(l) == l.payload.tag
IsCall(l) == l.payload.kind # "reply"

(* The answer to a request, and back (Channel's HandlerReplies).           *)
Reply(l) ==
    Letter(l.to, l.from, [l.payload EXCEPT !.source = l.payload.destination,
                                           !.destination = l.payload.source, !.kind = "reply"])

RequestOf(l) ==
    Letter(l.to, l.from, [l.payload EXCEPT !.source = l.payload.destination,
                                           !.destination = l.payload.source, !.kind = "request"])

(* As it was before next_message_ swapped its source and destination.      *)
Unpacked(p) ==
    [p.message EXCEPT !.source = p.message.destination, !.destination = p.destination_object]

-----------------------------------------------------------------------------
(* Tracks.                                                                 *)

Place == {"toRouter", "held", "toClient", "queue"} \X Client

Addressed == {m \in Message : m.destination \in DOMAIN ports}
AddressedPending == {p \in Pending : p.source_port \in DOMAIN ports}

Sent(c) == [m \in Addressed |-> Letter(c, ports[m.destination], m.payload)]
Routed(h) == Letter(ports[h.message.destination], h.port, h.message.payload)
Incoming(c) == [m \in Addressed |-> Letter(ports[m.destination], c, m.payload)]
Waiting(c) == [p \in AddressedPending |-> Letter(ports[p.source_port], c, Unpacked(p))]

Over(f, q) == [i \in DOMAIN q |-> f[q[i]]]

HeldFor(c) == {h \in held : h.port = c}

HeldTrack(c) ==
    IF HeldFor(c) = {} THEN <<>> ELSE <<Routed(CHOOSE h \in HeldFor(c) : TRUE)>>

Track ==
    [p \in Place |->
        LET c == p[2] IN
        IF p[1] = "toRouter" THEN Over(Sent(c), toRouter[c])
        ELSE IF p[1] = "held" THEN HeldTrack(c)
        ELSE IF p[1] = "toClient" THEN Over(Incoming(c), toClient[c])
        ELSE Over(Waiting(c), queue[c])]

QueueTrack(c) == Track[<<"queue", c>>]

(* What the steps do to the tracks.                                        *)
Take(track, p) == [track EXCEPT ![p] = Tail(@)]
Put(track, p, l) == [track EXCEPT ![p] = Append(@, l)]
Clear(track, p) == [track EXCEPT ![p] = <<>>]

On(track) == UNION {Range(track[p]) : p \in Place}
Mail == On(Track)

OnTrack(track, t) == \E l \in On(track) : TagOf(l) = t

(* No tag is in two places, or twice in one.                               *)
Unique(track) ==
    \A p, q \in Place : \A i \in DOMAIN track[p], j \in DOMAIN track[q] :
        TagOf(track[p][i]) = TagOf(track[q][j]) => p = q /\ i = j

-----------------------------------------------------------------------------
(* Calls.                                                                  *)

IssuedTags == {t \in Tag : t[2] <= made[t[1]]}

(* What a thread sends, or waits an answer to: the latest call of its      *)
(* program, which is nowhere else before it is sent, or the reply to the   *)
(* call it is handling.                                                    *)
CallOut(c, o) ==
    /\ o.message.tag = <<c, made[c]>>
    /\ o.message.kind = IF o.message.opcode \in OnewayOp THEN "oneway" ELSE "request"
    /\ o.message.source \in ProxyIds(c)
    /\ o.message.destination \in Objects(ports[o.port])
    /\ phase[c] = "send" => ~OnTrack(Track, o.message.tag)

ReplyOut(c, o) ==
    /\ Head(QueueTrack(c)).payload.opcode \in RequestOp
    /\ Letter(c, ports[o.port], o.message) = Reply(Head(QueueTrack(c)))

SendInv(c) == \A o \in out[c] : IF o.message.kind = "reply" THEN ReplyOut(c, o) ELSE CallOut(c, o)

OutInv == \A c \in Client : SendInv(c)

(* A call comes from a proxy of its program and goes to an object of the   *)
(* other.  While a request, or its reply, is under way, its caller waits   *)
(* for it, unless an exception has ended the caller.                       *)
Awaits(l) ==
    \/ phase[l.from] = "dead"
    \/ /\ phase[l.from] = "await"
       /\ out[l.from] = {[port |-> PortOf[l.to], message |-> l.payload]}

CallLetter(l) ==
    /\ l.payload.kind = IF l.payload.opcode \in OnewayOp THEN "oneway" ELSE "request"
    /\ l.from = TagOf(l)[1]
    /\ l.payload.source \in ProxyIds(l.from)
    /\ l.payload.destination \in Objects(l.to)
    /\ l.payload.kind = "request" => Awaits(l)

ReplyLetter(l) ==
    /\ l.to = TagOf(l)[1]
    /\ l.payload.opcode \in RequestOp
    /\ Awaits(RequestOf(l))

LetterInv(l) ==
    /\ TagOf(l) \in IssuedTags
    /\ IF IsCall(l) THEN CallLetter(l) ELSE ReplyLetter(l)

MailInv == \A l \in Mail : LetterInv(l)

(* send_request takes a reply for what it is, and loop() meets none.       *)
QueueInv == \A c \in Client : \A l \in Range(QueueTrack(c)) : IsCall(l)

UniqueInv == Unique(Track)

(* While the router runs, the message a caller waits for is somewhere, or  *)
(* an exception has ended the one it called.                               *)
AwaitedInv ==
    \A c \in Client : \A o \in out[c] :
        phase[c] = "await" /\ Running /\ Answerable(o.message.opcode)
            => \/ \E l \in Mail : TagOf(l) = o.message.tag /\ Answerable(l.payload.opcode)
               \/ phase[ports[o.port]] = "dead"

-----------------------------------------------------------------------------
(* Histories.                                                              *)

HandledBy(c) == Range(handled[c])
Handled(t) == \E c \in Client : t \in HandledBy(c)

(* A call that has failed is nowhere, and one that has failed or returned  *)
(* is not waited for.                                                      *)
HistoryInv ==
    /\ \A t \in Tag : Handled(t) => t \in IssuedTags
    /\ failed \cup DOMAIN returned \subseteq IssuedTags
    /\ \A t \in failed : ~OnTrack(Track, t) /\ ~Handled(t)
    /\ \A c \in Client : \A o \in out[c] :
         o.message.kind # "reply" =>
             /\ o.message.tag \notin failed \cup DOMAIN returned
             /\ phase[c] = "send" => ~Handled(o.message.tag)

(* A call is handled once, and one whose message is still there has been   *)
(* handled if it is at the head of a queue and its handler was entered and *)
(* is not done.                                                            *)
HandledInv ==
    /\ \A c, d \in Client : \A i \in DOMAIN handled[c], j \in DOMAIN handled[d] :
         handled[c][i] = handled[d][j] => c = d /\ i = j
    /\ \A c \in Client : Handling(c) => Handled(TagOf(Head(QueueTrack(c))))
    /\ \A l \in Mail :
         IF IsCall(l) THEN Handled(TagOf(l)) => Entered(l.to) /\ l = Head(QueueTrack(l.to))
                      ELSE Handled(TagOf(l))

-----------------------------------------------------------------------------
(* Order.                                                                  *)

(* The way of a call, from its end.                                        *)
Stage == [queue |-> 1, toClient |-> 2, held |-> 3, toRouter |-> 4]

SameWay(l, k) == IsCall(l) /\ IsCall(k) /\ l.from = k.from /\ l.to = k.to

Ordered(track) ==
    \A p, q \in Place : \A i \in DOMAIN track[p], j \in DOMAIN track[q] :
        /\ Stage[p[1]] < Stage[q[1]] \/ (p = q /\ i < j)
        /\ SameWay(track[p][i], track[q][j])
        => TagOf(track[p][i])[2] < TagOf(track[q][j])[2]

(* A call on its way was made after those of its caller that its receiver  *)
(* has handled.                                                            *)
LaterInv ==
    \A c \in Client : \A t \in HandledBy(c) : \A l \in Mail :
        IsCall(l) /\ l.from = t[1] /\ l.to = c /\ ~Handled(TagOf(l)) => t[2] < TagOf(l)[2]

(* Of one caller's calls to one receiver, those further on were made       *)
(* before, and those handled were made before those that are not.          *)
OrderInv == Ordered(Track) /\ LaterInv /\ HandledInOrder

-----------------------------------------------------------------------------
(* next_id_ finds an id.                                                   *)

(* A finite set of numbers does not hold all of an interval as long as it  *)
(* is large: the loop of next_id_ ends within it, at the first id free.    *)
LEMMA NextIdIsFree ==
    ASSUME NEW c \in Client, nextId[c] \in Nat, IsFiniteSet(allocated[c])
    PROVE  NextId(c) \in Nat /\ NextId(c) \notin allocated[c]
  <1> DEFINE n == nextId[c]
             k == Cardinality(allocated[c])
             Free == {i \in n..n + k : i \notin allocated[c]}
  <1>1. k \in Nat
    BY FS_CardinalityType
  <1>2. Free # {}
    <2> SUFFICES ASSUME n..n + k \subseteq allocated[c]
                 PROVE  FALSE
      OBVIOUS
    <2>1. Cardinality(n..n + k) = k + 1
      BY <1>1, FS_Interval
    <2>2. Cardinality(n..n + k) <= k
      BY FS_Subset
    <2> QED
      BY <1>1, <2>1, <2>2
  <1>3. \E i \in Free : \A j \in Free : ~(j < i)
    <2> DEFINE R == OpToRel(<, Nat)
    <2>1. IsWellFoundedOn(R, Nat)
      BY NatLessThanWellFounded
    <2>2. Free \subseteq Nat
      BY <1>1
    <2>3. \E i \in Free : \A j \in Free : ~(<<j, i>> \in R)
      <3> HIDE DEF R, Free
      <3> QED
        BY <1>2, <2>1, <2>2, WFMin
    <2>4. \A i, j \in Nat : j < i => <<j, i>> \in R
      BY DEF OpToRel
    <2> QED
      BY <2>2, <2>3, <2>4
  <1>4. \E i \in n..n + k : /\ i \notin allocated[c]
                            /\ \A j \in n..i - 1 : j \in allocated[c]
    <2>1. PICK i \in Free : \A j \in Free : ~(j < i)
      BY <1>3
    <2>2. \A j \in n..i - 1 : j \in n..n + k /\ j < i
      BY <1>1, <2>1
    <2> QED
      BY <2>1, <2>2
  <1> QED
    BY <1>1, <1>4 DEF NextId

-----------------------------------------------------------------------------
(* Types.  The queue of a thread that sends a reply or is done with a      *)
(* handler is not empty, and the ids of programs are numbers: TypeInv adds *)
(* what TypeOK needs.                                                      *)

TypeInv ==
    /\ TypeOK
    /\ DOMAIN ports \subseteq Nat
    /\ epoll = PortOf
    /\ batch \subseteq Nat
    /\ \A i \in DOMAIN ports : ports[i] \in Client
    /\ \A c \in Client : IsFiniteSet(allocated[c])
    /\ PhaseInv

LEMMA PortsAreNumbers == PortOf \in [Client -> Nat]
  <1>1. Cardinality(Client) \in Nat
    BY ClientAssumption, FS_CardinalityType
  <1> QED
    BY <1>1, PortOfAssumption

(* A message that next_message_ has taken apart is a pending one.          *)
LEMMA NextMessageType ==
    ASSUME NEW c \in Client, NEW m \in Message, m = Head(toClient[c])
    PROVE  NextMessage(c) \in Pending
  BY DEF NextMessage, Pending, Message, RpcMessage

(* A step of one program's thread leaves the others where they are.        *)
LEMMA OtherThread ==
    ASSUME NEW d \in Client, PhaseInv,
           UNCHANGED <<phase[d], queue[d], inLoop[d], out[d]>>
    PROVE  ThreadInv(d)'
  BY DEF PhaseInv, ThreadInv, Handling

LEMMA InitTypes == Init => TypeInv
  <1> SUFFICES ASSUME Init
               PROVE  TypeInv
    OBVIOUS
  <1> USE PortsAreNumbers DEF Init
  <1>1. DOMAIN ports \subseteq Nat /\ \A i \in DOMAIN ports : ports[i] \in Client
    BY DEF Range
  <1>2. TypeOK
    BY DEF TypeOK, PortInit, ChannelInit, Phase
  <1>3. PhaseInv
    BY DEF PhaseInv, ThreadInv, Handling, ChannelInit
  <1> QED
    BY <1>1, <1>2, <1>3, FS_EmptySet DEF TypeInv, ChannelInit

(* A step of the router's loop, or the end of its process.                 *)
LEMMA RouterKeepsTypes ==
    ASSUME TypeInv, RouterStep, UNCHANGED <<channelVars, history>>
    PROVE  TypeInv'
  <1> USE DEF TypeInv, TypeOK, portVars, channelVars, history
  <1>0. PhaseInv'
    BY DEF PhaseInv, ThreadInv, Handling
  <1>1. ASSUME NEW some \in SUBSET Ready, EpollWait(some)
        PROVE  TypeInv'
    <2>1. /\ batch' = {epoll[c] : c \in some} /\ some \subseteq Client
          /\ UNCHANGED <<ports, epoll, held, portVars>>
      BY <1>1, PortsAreNumbers DEF EpollWait, Ready
    <2>2. batch' \subseteq Nat
      BY <2>1, PortsAreNumbers
    <2> QED
      BY <1>0, <2>1, <2>2
  <1>2. ASSUME NEW i \in batch, HandleUnknownSource(i)
        PROVE  TypeInv'
    BY <1>0, <1>2 DEF HandleUnknownSource
  <1>3. ASSUME NEW i \in batch, HandleUnknownDestination(i)
        PROVE  TypeInv'
    <2>1. ports[i] \in Client /\ toRouter[ports[i]] \in Seq(Message)
      BY <1>3 DEF HandleUnknownDestination
    <2>2. Tail(toRouter[ports[i]]) \in Seq(Message)
      BY <1>3, <2>1, TailRange DEF HandleUnknownDestination, RouterReceives
    <2> QED
      BY <1>0, <1>3, <2>1, <2>2 DEF HandleUnknownDestination, RouterReceives
  <1>4. ASSUME NEW i \in batch, HandleMessage(i)
        PROVE  TypeInv'
    <2> DEFINE m == Head(toRouter[ports[i]])
    <2>1. ports[i] \in Client /\ toRouter[ports[i]] \in Seq(Message) /\ i \in Nat
      BY <1>4 DEF HandleMessage
    <2>2. m \in Message /\ Tail(toRouter[ports[i]]) \in Seq(Message)
      BY <1>4, <2>1, TailRange DEF HandleMessage, RouterReceives
    <2>3. Stamped(m, i) \in Message
      BY <2>1, <2>2 DEF Stamped, Message
    <2>4. held' \subseteq [id : Nat, port : Client, message : Message]
      BY <1>4, <2>3 DEF HandleMessage
    <2>5. toRouter' \in [Client -> Seq(Message)]
      BY <1>4, <2>1, <2>2 DEF HandleMessage, RouterReceives
    <2>6. batch' \subseteq Nat
      BY <1>4 DEF HandleMessage, LaterEvents
    <2>7. UNCHANGED <<ports, epoll, toClient>>
      BY <1>4 DEF HandleMessage, RouterReceives
    <2> QED
      BY <1>0, <2>4, <2>5, <2>6, <2>7
  <1>5. ASSUME Forward
        PROVE  TypeInv'
    <2>1. PICK h \in held : RouterSends(h.port, h.message)
      BY <1>5 DEF Forward
    <2>2. h.port \in Client /\ h.message \in Message /\ toClient[h.port] \in Seq(Message)
      OBVIOUS
    <2>3. Append(toClient[h.port], h.message) \in Seq(Message)
      BY <2>2, AppendRange
    <2> QED
      BY <1>0, <1>5, <2>1, <2>2, <2>3 DEF Forward, RouterSends
  <1>6. ASSUME ForwardFails \/ ForwardBadDescriptor \/ RouterExit
        PROVE  TypeInv'
    <2>1. CASE ForwardFails
      BY <1>0, <2>1 DEF ForwardFails, RouterSendFails
    <2>2. CASE ForwardBadDescriptor
      BY <1>0, <2>2 DEF ForwardBadDescriptor
    <2>3. CASE RouterExit
      BY <1>0, <2>3 DEF RouterExit, RouterCloses
    <2> QED
      BY <1>6, <2>1, <2>2, <2>3
  <1>7. ASSUME NEW i \in batch, HandleIncomplete(i)
        PROVE  TypeInv'
    <2>1. ports[i] \in Client /\ toRouter[ports[i]] \in Seq(Message)
      BY <1>7 DEF HandleIncomplete
    <2>2. Tail(toRouter[ports[i]]) \in Seq(Message)
      BY <1>7, <2>1, TailRange DEF HandleIncomplete, RouterReceives
    <2> QED
      BY <1>0, <1>7, <2>1, <2>2 DEF HandleIncomplete, RouterReceives
  <1> QED
    BY <1>1, <1>2, <1>3, <1>4, <1>5, <1>6, <1>7 DEF RouterStep, Loop, LoopGoesOn

(* The programs bind, connect and call.                                    *)
LEMMA ProgramKeepsTypes ==
    ASSUME TypeInv, NEW c \in Client, Program(c), UNCHANGED routerVars
    PROVE  TypeInv'
  <1> USE DEF TypeInv, TypeOK, portVars, routerVars, objectVars, history
  <1>1. NextId(c) \in Nat
    BY NextIdIsFree
  <1>2. ASSUME Bind(c), UNCHANGED history
        PROVE  TypeInv'
    <2>1. IsFiniteSet(allocated[c] \cup {NextId(c)})
      BY FS_AddElement
    <2>2. PhaseInv'
      BY <1>2 DEF Bind, PhaseInv, ThreadInv, Handling
    <2> QED
      BY <1>1, <1>2, <2>1, <2>2 DEF Bind
  <1>3. ASSUME NEW i \in Nat, BindStatic(c, i), UNCHANGED history
        PROVE  TypeInv'
    <2>1. IsFiniteSet(allocated[c] \cup {i})
      BY FS_AddElement
    <2>2. PhaseInv'
      BY <1>3 DEF BindStatic, PhaseInv, ThreadInv, Handling
    <2> QED
      BY <1>3, <2>1, <2>2 DEF BindStatic
  <1>4. ASSUME NEW port \in Nat, NEW remote \in Nat, Connect(c, port, remote), UNCHANGED history
        PROVE  TypeInv'
    <2>1. IsFiniteSet(allocated[c] \cup {NextId(c)})
      BY FS_AddElement
    <2>2. PhaseInv'
      BY <1>4 DEF Connect, PhaseInv, ThreadInv, Handling
    <2>3. nextId'[c] = NextId(c)
      BY <1>4 DEF Connect
    <2>4. [id |-> nextId'[c], port |-> port, remote |-> remote] \in [id : Nat, port : Nat, remote : Nat]
      BY <1>1, <1>4, <2>3
    <2>5. proxies' \in [Client -> SUBSET [id : Nat, port : Nat, remote : Nat]]
      BY <1>4, <2>4 DEF Connect
    <2>6. allocated' = [allocated EXCEPT ![c] = @ \cup {NextId(c)}]
          /\ nextId' = [nextId EXCEPT ![c] = NextId(c)]
      BY <1>4, <2>3 DEF Connect
    <2>7. UNCHANGED <<receivers, queue, phase, inLoop, out, portVars, history>>
      BY <1>4 DEF Connect
    <2> QED
      BY <1>1, <2>1, <2>2, <2>5, <2>6, <2>7
  <1>5. ASSUME NEW e \in CallEdge, NEW p \in proxies[c], made[c] < MaxCalls[c],
               Call(c, p, e.opcode, <<c, made[c] + 1>>),
               made' = [made EXCEPT ![c] = @ + 1], UNCHANGED <<handled, failed, returned>>
        PROVE  TypeInv'
    <2> DEFINE t == <<c, made[c] + 1>>
               m == [source |-> p.id, destination |-> p.remote, opcode |-> e.opcode,
                     kind |-> IF e.opcode \in OnewayOp THEN "oneway" ELSE "request", tag |-> t]
    <2>1. t \in Tag
      <3>1. made[c] \in Nat /\ MaxCalls[c] \in Nat
        BY MaxCallsAssumption
      <3>2. made[c] + 1 \in 1..MaxCalls[c]
        BY <1>5, <3>1
      <3> QED
        BY <3>2 DEF Tag
    <2>2. m \in RpcMessage /\ p.port \in Nat
      <3>1. p.id \in Nat /\ p.remote \in Nat /\ p.port \in Nat
        BY <1>5
      <3>2. e.opcode \in Opcode
        BY CallEdgeAssumption
      <3>3. m.kind \in Kind
        BY DEF Kind
      <3> QED
        BY <2>1, <3>1, <3>2, <3>3 DEF RpcMessage
    <2>3. /\ out' = [out EXCEPT ![c] = {[port |-> p.port, message |-> m]}]
          /\ phase[c] = "app" /\ phase' = [phase EXCEPT ![c] = "send"]
          /\ UNCHANGED <<objectVars, queue, inLoop, portVars>>
      BY <1>5 DEF Call
    <2>4. m.kind # "reply"
      OBVIOUS
    <2> HIDE DEF m
    <2>5. \A o \in out'[c] : o.message = m
      BY <2>3
    <2>6. PhaseInv'
      BY <2>3, <2>4, <2>5 DEF PhaseInv, ThreadInv, Handling
    <2>7. out' \in [Client -> SUBSET [port : Nat, message : RpcMessage]]
      BY <2>2, <2>3
    <2>8. phase' \in [Client -> Phase] /\ made' \in [Client -> Nat]
      BY <1>5, <2>3 DEF Phase
    <2>9. UNCHANGED <<objectVars, queue, inLoop, portVars, handled, failed, returned>>
      BY <1>5, <2>3
    <2> QED
      BY <2>6, <2>7, <2>8, <2>9
  <1> QED
    <2>1. ASSUME Binds(c) \/ BindsStatic(c), UNCHANGED history
          PROVE  TypeInv'
      BY <1>2, <1>3, <2>1, IdAssumption DEF Binds, BindsStatic
    <2>2. ASSUME Connects(c), UNCHANGED history
          PROVE  TypeInv'
      <3>1. PICK e \in CallEdge : \E i \in receivers[e.to] \cup WrongId :
                Connect(c, PortOf[e.to], i)
        BY <2>2 DEF Connects
      <3>2. e.to \in Client /\ PortOf[e.to] \in Nat /\ receivers[e.to] \cup WrongId \subseteq Nat
        BY CallEdgeAssumption, IdAssumption, PortsAreNumbers
      <3> QED
        BY <1>4, <2>2, <3>1, <3>2
    <2> QED
      BY <1>5, <2>1, <2>2 DEF Program, Calls

(* Port::send returns; a reply ends a handler, whose message is popped.    *)
LEMMA SendKeepsTypes ==
    ASSUME TypeInv, NEW c \in Client, Sends(c) \/ Refused(c), UNCHANGED <<made, handled, returned>>,
           UNCHANGED routerVars
    PROVE  TypeInv'
  <1> USE DEF TypeInv, TypeOK, portVars, routerVars, objectVars
  <1>1. PICK o \in out[c] : out[c] = {o} /\ phase[c] = "send"
    BY DEF Sends, Refused, SendSucceeds, SendFails, SendRefused, PhaseInv, ThreadInv
  <1>2. o.message \in RpcMessage /\ o.port \in Nat /\ o.message.tag \in Tag
    BY DEF RpcMessage
  <1>3. /\ \E sent \in BOOLEAN : AfterSend(c, o.message.kind, sent)
        /\ UNCHANGED <<objectVars, inLoop, closed, gone>>
    <2>1. CASE SendSucceeds(c)
      BY <1>1, <2>1 DEF SendSucceeds, ClientSends
    <2>2. CASE SendFails(c)
      BY <1>1, <2>2 DEF SendFails, ClientSendFails
    <2>3. CASE SendRefused(c)
      BY <1>1, <2>3 DEF SendRefused, ClientSendRefused
    <2> QED
      BY <2>1, <2>2, <2>3 DEF Sends, Refused
  <1>4. toRouter' \in [Client -> Seq(Message)] /\ toClient' \in [Client -> Seq(Message)]
    <2>1. CASE SendSucceeds(c)
      <3> DEFINE m == [destination |-> o.port, payload |-> o.message]
      <3>1. m \in Message
        BY <1>2 DEF Message
      <3>2. Append(toRouter[c], m) \in Seq(Message)
        BY <3>1, AppendRange
      <3> QED
        BY <1>1, <2>1, <3>2 DEF SendSucceeds, ClientSends
    <2>2. CASE SendFails(c)
      BY <2>2 DEF SendFails, ClientSendFails
    <2>3. CASE SendRefused(c)
      BY <2>3 DEF SendRefused, ClientSendRefused
    <2> QED
      BY <2>1, <2>2, <2>3 DEF Sends, Refused
  <1>5. failed' \subseteq Tag
    <2>1. CASE SendSucceeds(c) /\ UNCHANGED failed
      BY <2>1
    <2>2. CASE failed' = failed \cup {x.message.tag : x \in {y \in out[c] : y.message.kind # "reply"}}
      BY <1>1, <1>2, <2>2
    <2> QED
      BY <2>1, <2>2 DEF Sends, Refused, CallFails
  <1>6. CASE o.message.kind = "reply"
    <2>1. queue[c] \in Seq(Pending) /\ queue[c] # <<>> /\ Handling(c)
      BY <1>1, <1>6 DEF PhaseInv, ThreadInv
    <2>2. Tail(queue[c]) \in Seq(Pending)
      BY <2>1, TailRange
    <2>3. /\ out' = [out EXCEPT ![c] = {}]
          /\ queue' = [queue EXCEPT ![c] = Tail(queue[c])]
          /\ phase' = [phase EXCEPT ![c] = IF Tail(queue[c]) = <<>> THEN "read" ELSE "dispatch"]
      BY <1>3, <1>6 DEF AfterSend, Waits, AfterHandler, Popped
    <2>4. PhaseInv'
      BY <1>3, <2>1, <2>3 DEF PhaseInv, ThreadInv, Handling
    <2> QED
      BY <1>3, <1>4, <1>5, <2>2, <2>3, <2>4 DEF Phase
  <1>7. CASE o.message.kind # "reply"
    <2>1. /\ UNCHANGED queue
          /\ \/ /\ out' = out /\ phase' = [phase EXCEPT ![c] = "await"]
                /\ o.message.kind = "request"
             \/ out' = [out EXCEPT ![c] = {}] /\ phase' = [phase EXCEPT ![c] = "app"]
      BY <1>3, <1>7 DEF AfterSend, Waits
    <2>2. queue[c] = queue'[c] /\ (inLoop[c] => queue[c] # <<>>) /\ inLoop'[c] = inLoop[c]
      BY <1>1, <1>3, <2>1 DEF PhaseInv, ThreadInv, Handling
    <2>3. ASSUME NEW d \in Client
          PROVE  ThreadInv(d)'
      <3>1. CASE d = c
        BY <1>1, <1>3, <1>7, <2>1, <2>2, <3>1 DEF ThreadInv, Handling
      <3>2. CASE d # c
        <4>1. UNCHANGED <<phase[d], queue[d], inLoop[d], out[d]>>
          BY <1>3, <2>1, <3>2
        <4> QED
          BY <4>1, OtherThread
      <3> QED
        BY <3>1, <3>2
    <2>4. PhaseInv'
      BY <2>3 DEF PhaseInv
    <2>5. /\ phase' \in [Client -> Phase]
          /\ out' \in [Client -> SUBSET [port : Nat, message : RpcMessage]]
      BY <2>1 DEF Phase
    <2> QED
      BY <1>3, <1>4, <1>5, <2>1, <2>4, <2>5
  <1> QED
    BY <1>6, <1>7

(* A message is read: taken for the answer, queued, or lost with the       *)
(* thread.                                                                 *)
LEMMA ReceiveKeepsTypes ==
    ASSUME TypeInv, NEW c \in Client, UNCHANGED <<made, handled, failed>>, UNCHANGED routerVars,
           Answers(c) \/ ((Defer(c) \/ LoopReceive(c) \/ ReceiveFails(c)) /\ UNCHANGED returned)
    PROVE  TypeInv'
  <1> USE DEF TypeInv, TypeOK, portVars, routerVars, objectVars
  <1>1. toClient[c] \in Seq(Message) /\ toClient[c] # <<>>
        /\ toClient' = [toClient EXCEPT ![c] = Tail(@)]
        /\ UNCHANGED <<toRouter, closed, gone, receivers, allocated, nextId, proxies, inLoop>>
    BY DEF Answers, Answer, Defer, LoopReceive, ReceiveFails, ClientReceives
  <1>2. Head(toClient[c]) \in Message /\ Tail(toClient[c]) \in Seq(Message)
    BY <1>1, TailRange
  <1>3. toClient' \in [Client -> Seq(Message)]
    BY <1>1, <1>2
  <1>4. CASE Answers(c)
    <2>1. PICK o \in out[c] : out[c] = {o}
      BY <1>4 DEF Answers, Answer, PhaseInv, ThreadInv
    <2>2. Head(toClient[c]).payload.tag \in Tag
      BY <1>2 DEF Message, RpcMessage
    <2>3. PICK r \in Tag \cup {NoResult} :
              returned' = [t \in DOMAIN returned \cup {o.message.tag} |->
                             IF t = o.message.tag THEN r ELSE returned[t]]
      <3>1. Results(o, Head(toClient[c]).payload) \subseteq Tag \cup {NoResult}
        BY <2>2 DEF Results
      <3>2. \E r \in Results(o, Head(toClient[c]).payload) :
                returned' = [t \in DOMAIN returned \cup {o.message.tag} |->
                               IF t = o.message.tag THEN r ELSE returned[t]]
        BY <1>4, <2>1 DEF Answers
      <3> QED
        BY <3>1, <3>2
    <2>4. returned' \in [DOMAIN returned' -> Tag \cup {NoResult}]
      BY <2>2, <2>3
    <2>5. /\ phase[c] = "await" /\ phase' = [phase EXCEPT ![c] = "app"]
          /\ out' = [out EXCEPT ![c] = {}]
          /\ UNCHANGED queue
      BY <1>4 DEF Answers, Answer
    <2>6. PhaseInv'
      BY <1>1, <2>5 DEF PhaseInv, ThreadInv, Handling
    <2> QED
      BY <1>1, <1>3, <2>4, <2>5, <2>6 DEF Phase
  <1>5. ASSUME Defer(c) \/ LoopReceive(c), UNCHANGED returned
        PROVE  TypeInv'
    <2> DEFINE p == NextMessage(c)
    <2>1. p \in Pending
      BY <1>2, NextMessageType
    <2>2. queue[c] \in Seq(Pending)
      OBVIOUS
    <2> HIDE DEF p
    <2>3. Append(queue[c], p) \in Seq(Pending) /\ Append(queue[c], p) # <<>>
      BY <2>1, <2>2, AppendRange, AppendNotEmpty
    <2>4. queue' = [queue EXCEPT ![c] = Append(queue[c], p)]
      BY <1>5 DEF Defer, LoopReceive, Queued, p
    <2>5. /\ UNCHANGED out /\ UNCHANGED inLoop
          /\ \/ UNCHANGED phase
             \/ phase[c] = "read" /\ phase' = [phase EXCEPT ![c] = "dispatch"]
      BY <1>5 DEF Defer, LoopReceive
    <2>6. queue'[c] # <<>>
      BY <2>3, <2>4
    <2>7. ASSUME NEW d \in Client
          PROVE  ThreadInv(d)'
      <3>1. CASE d = c
        <4>1. ThreadInv(c) /\ phase \in [Client -> Phase] /\ inLoop' = inLoop
          BY <1>1 DEF PhaseInv
        <4> HIDE DEF TypeInv, TypeOK
        <4> QED
          BY <2>5, <2>6, <3>1, <4>1 DEF ThreadInv, Handling
      <3>2. CASE d # c
        <4>1. UNCHANGED <<phase[d], queue[d], inLoop[d], out[d]>>
          BY <1>1, <2>4, <2>5, <3>2
        <4> QED
          BY <4>1, OtherThread
      <3> QED
        BY <3>1, <3>2
    <2>8. PhaseInv'
      BY <2>7 DEF PhaseInv
    <2>9. /\ queue' \in [Client -> Seq(Pending)]
          /\ phase' \in [Client -> Phase]
      BY <2>3, <2>4, <2>5 DEF Phase
    <2> QED
      BY <1>1, <1>3, <1>5, <2>5, <2>8, <2>9
  <1>6. ASSUME ReceiveFails(c), UNCHANGED returned
        PROVE  TypeInv'
    <2>1. /\ phase' = [phase EXCEPT ![c] = "dead"] /\ out' = [out EXCEPT ![c] = {}]
          /\ UNCHANGED queue
      BY <1>6 DEF ReceiveFails
    <2>2. PhaseInv'
      BY <1>1, <2>1 DEF PhaseInv, ThreadInv, Handling
    <2> QED
      BY <1>1, <1>3, <1>6, <2>1, <2>2 DEF Phase
  <1> QED
    BY <1>4, <1>5, <1>6

(* loop() handles its queue.                                               *)
LEMMA LoopingKeepsTypes ==
    ASSUME TypeInv, NEW c \in Client, Looping(c), UNCHANGED routerVars
    PROVE  TypeInv'
  <1> USE DEF TypeInv, TypeOK, portVars, routerVars, objectVars, history
  <1> DEFINE p == Head(queue[c])
  <1>0. ThreadInv(c)
    BY DEF PhaseInv
  <1>1. CASE Dispatches(c) /\ UNCHANGED <<made, failed, returned>>
    <2>1. /\ phase[c] = "dispatch" /\ phase' = [phase EXCEPT ![c] = "app"]
          /\ handled' = [handled EXCEPT ![c] = Append(@, p.message.tag)]
          /\ UNCHANGED <<objectVars, queue, inLoop, out, portVars>>
      BY <1>1 DEF Dispatches, Dispatch
    <2>2. p \in Pending
      BY <1>0, <2>1, TailRange DEF ThreadInv
    <2>3. Append(handled[c], p.message.tag) \in Seq(Tag)
      BY <2>2, AppendRange DEF Pending, RpcMessage
    <2>4. PhaseInv'
      BY <1>0, <2>1 DEF PhaseInv, ThreadInv, Handling
    <2> QED
      BY <1>1, <2>1, <2>3, <2>4 DEF Phase
  <1>2. CASE EnterLoop(c) /\ UNCHANGED history
    <2>1. PhaseInv'
      BY <1>0, <1>2 DEF EnterLoop, PhaseInv, ThreadInv, Handling
    <2> QED
      BY <1>2, <2>1 DEF EnterLoop, Phase
  <1>3. CASE DispatchUnknown(c) /\ UNCHANGED history
    <2>1. PhaseInv'
      BY <1>0, <1>3 DEF DispatchUnknown, PhaseInv, ThreadInv, Handling
    <2> QED
      BY <1>3, <2>1 DEF DispatchUnknown, Phase
  <1>4. CASE HandlerReplies(c) /\ UNCHANGED history
    <2> DEFINE r == [port |-> p.source_port,
                     message |-> [p.message EXCEPT !.source = p.destination_object,
                                                   !.kind = "reply"]]
    <2>1. /\ phase[c] = "app" /\ inLoop[c]
          /\ out' = [out EXCEPT ![c] = {r}]
          /\ phase' = [phase EXCEPT ![c] = "send"]
          /\ UNCHANGED <<objectVars, queue, inLoop, portVars>>
      BY <1>4 DEF HandlerReplies
    <2>2. p \in Pending
      BY <1>0, <2>1, TailRange DEF ThreadInv, Handling
    <2>3. r \in [port : Nat, message : RpcMessage] /\ r.message.kind = "reply"
      BY <2>2 DEF Pending, RpcMessage, Kind
    <2>4. PhaseInv'
      <3> HIDE DEF r
      <3> QED
        BY <1>0, <2>1, <2>3 DEF PhaseInv, ThreadInv, Handling
    <2> QED
      BY <1>4, <2>1, <2>3, <2>4 DEF Phase
  <1>5. CASE HandlerReturns(c) /\ UNCHANGED history
    <2>1. /\ phase[c] = "app" /\ inLoop[c]
          /\ queue' = [queue EXCEPT ![c] = Tail(queue[c])]
          /\ phase' = [phase EXCEPT ![c] = IF Tail(queue[c]) = <<>> THEN "read" ELSE "dispatch"]
          /\ UNCHANGED <<objectVars, out, inLoop, portVars>>
      BY <1>5 DEF HandlerReturns, AfterHandler, Popped
    <2>2. Tail(queue[c]) \in Seq(Pending)
      BY <1>0, <2>1, TailRange DEF ThreadInv, Handling
    <2>3. PhaseInv'
      BY <1>0, <2>1 DEF PhaseInv, ThreadInv, Handling
    <2> QED
      BY <1>5, <2>1, <2>2, <2>3 DEF Phase
  <1> QED
    BY <1>1, <1>2, <1>3, <1>4, <1>5 DEF Looping

LEMMA TypeInductive == TypeInv /\ [Next]_vars => TypeInv'
  <1> SUFFICES ASSUME TypeInv, [Next]_vars
               PROVE  TypeInv'
    OBVIOUS
  <1>1. CASE RouterStep /\ UNCHANGED <<channelVars, history>>
    BY <1>1, RouterKeepsTypes
  <1>2. ASSUME NEW c \in Client, Program(c) \/ Blocking(c) \/ Refused(c) \/ Looping(c),
               UNCHANGED routerVars
        PROVE  TypeInv'
    <2>1. CASE Program(c)
      BY <1>2, <2>1, ProgramKeepsTypes
    <2>2. CASE Looping(c)
      BY <1>2, <2>2, LoopingKeepsTypes
    <2>3. CASE Blocking(c)
      <3>1. CASE Sends(c) /\ UNCHANGED <<made, handled, returned>>
        BY <1>2, <3>1, SendKeepsTypes
      <3>2. CASE (Answers(c) /\ UNCHANGED <<made, handled, failed>>)
                 \/ ((Defer(c) \/ LoopReceive(c) \/ ReceiveFails(c)) /\ UNCHANGED history)
        BY <1>2, <3>2, ReceiveKeepsTypes DEF history
      <3> QED
        BY <2>3, <3>1, <3>2 DEF Blocking
    <2>4. CASE Refused(c)
      BY <1>2, <2>4, SendKeepsTypes DEF Refused
    <2> QED
      BY <1>2, <2>1, <2>2, <2>3, <2>4
  <1>3. CASE UNCHANGED vars
    BY <1>3 DEF vars, portVars, routerVars, channelVars, history, TypeInv, TypeOK, PhaseInv,
                ThreadInv, Handling
  <1> QED
    BY <1>1, <1>2, <1>3 DEF Next

(* Whatever the programs and however many they are, the variables keep     *)
(* their types: what is in the queues are messages, what a thread is       *)
(* sending is one message, and what is handled are calls.                  *)
THEOREM TypeCorrect == Spec => []TypeOK
  <1>1. TypeInv => TypeOK
    BY DEF TypeInv
  <1> QED
    BY <1>1, InitTypes, TypeInductive, PTL DEF Spec

-----------------------------------------------------------------------------
(* The wiring.                                                             *)

WireInv == TypeInv /\ WiringInv /\ AddressInv

(* ports_ is PortOf turned round.                                          *)
LEMMA PortsInverse ==
    ASSUME WiringInv
    PROVE  /\ \A c \in Client : PortOf[c] \in DOMAIN ports /\ ports[PortOf[c]] = c
           /\ \A i \in DOMAIN ports : ports[i] \in Client /\ PortOf[ports[i]] = i
  BY PortsAreNumbers DEF WiringInv, Range

LEMMA InitWire == Init => WireInv
  <1> SUFFICES ASSUME Init
               PROVE  WireInv
    OBVIOUS
  <1>1. TypeInv
    BY InitTypes
  <1>2. \A c \in Client : ports[PortOf[c]] = c
    <2>1. \A c, d \in Client : PortOf[c] = PortOf[d] => c = d
      BY PortOfAssumption DEF IsInjective
    <2>2. \A c \in Client : PortOf[c] \in Range(PortOf)
      BY PortsAreNumbers DEF Range
    <2>3. ports = [i \in Range(PortOf) |-> CHOOSE c \in Client : PortOf[c] = i]
      BY DEF Init
    <2> QED
      BY <2>1, <2>2, <2>3
  <1>3. WiringInv
    BY <1>2 DEF WiringInv, Init, PortInit
  <1>4. AddressInv
    BY DEF AddressInv, Init, PortInit, ChannelInit, Range
  <1> QED
    BY <1>1, <1>3, <1>4 DEF WireInv

LEMMA RouterKeepsWire ==
    ASSUME WireInv, RouterStep, UNCHANGED <<channelVars, history>>
    PROVE  WiringInv' /\ AddressInv'
  <1> USE DEF WireInv, portVars, channelVars
  <1> HIDE DEF TypeInv
  <1>1. ASSUME NEW some \in SUBSET Ready, EpollWait(some)
        PROVE  WiringInv' /\ AddressInv'
    <2>1. batch' \subseteq DOMAIN ports
      BY <1>1, PortsAreNumbers DEF EpollWait, Ready, WiringInv, Range
    <2> QED
      BY <1>1, <2>1 DEF EpollWait, WiringInv, AddressInv
  <1>2. ASSUME NEW i \in batch, HandleUnknownSource(i)
        PROVE  FALSE
    BY <1>2 DEF HandleUnknownSource, WiringInv
  <1>3. ASSUME NEW i \in batch, RouterReceives(ports[i])
        PROVE  /\ i \in DOMAIN ports
               /\ Head(toRouter[ports[i]]).destination \in DOMAIN ports
               /\ \A c \in Client : Range(toRouter'[c]) \subseteq Range(toRouter[c])
    <2>1. i \in DOMAIN ports /\ ports[i] \in Client
      BY PortsInverse DEF WiringInv
    <2>2. toRouter \in [Client -> Seq(Message)] /\ toRouter[ports[i]] # <<>>
      BY <1>3 DEF TypeInv, TypeOK, RouterReceives
    <2>3. /\ Head(toRouter[ports[i]]) \in Range(toRouter[ports[i]])
          /\ Range(Tail(toRouter[ports[i]])) \subseteq Range(toRouter[ports[i]])
      BY <2>1, <2>2, TailRange
    <2> QED
      BY <1>3, <2>1, <2>2, <2>3 DEF RouterReceives, AddressInv
  <1>4. ASSUME NEW i \in batch, HandleUnknownDestination(i)
        PROVE  FALSE
    BY <1>3, <1>4 DEF HandleUnknownDestination
  <1>5. ASSUME NEW i \in batch, HandleMessage(i)
        PROVE  WiringInv' /\ AddressInv'
    <2> DEFINE m == Head(toRouter[ports[i]])
    <2>1. /\ RouterReceives(ports[i])
          /\ held' = {[id |-> m.destination, port |-> ports[m.destination], message |-> Stamped(m, i)]}
          /\ pc = "handle" /\ pc' = "send" /\ batch' \subseteq batch
          /\ UNCHANGED <<ports, epoll, toClient, closed, gone>>
      BY <1>5 DEF HandleMessage, LaterEvents, RouterReceives
    <2>2. /\ i \in DOMAIN ports /\ m.destination \in DOMAIN ports
          /\ \A c \in Client : Range(toRouter'[c]) \subseteq Range(toRouter[c])
      BY <1>3, <2>1
    <2>3. m \in Message
      <3>1. ports[i] \in Client
        BY <2>2, PortsInverse
      <3> QED
        BY <2>1, <3>1, TailRange DEF TypeInv, TypeOK, RouterReceives
    <2>4. Stamped(m, i).destination = i
      BY <2>3 DEF Stamped, Message
    <2> HIDE DEF m
    <2>5. WiringInv'
      BY <2>1, <2>2 DEF WiringInv
    <2> QED
      BY <2>1, <2>2, <2>4, <2>5 DEF AddressInv
  <1>6. ASSUME Forward
        PROVE  WiringInv' /\ AddressInv'
    <2>1. PICK h \in held : RouterSends(h.port, h.message)
      BY <1>6 DEF Forward
    <2>2. /\ h.port \in Client /\ h.message \in Message
          /\ toClient \in [Client -> Seq(Message)]
      BY DEF TypeInv, TypeOK
    <2>3. Range(Append(toClient[h.port], h.message)) = Range(toClient[h.port]) \cup {h.message}
      BY <2>2, AppendRange
    <2>4. AddressInv'
      BY <1>6, <2>1, <2>2, <2>3 DEF AddressInv, Forward, RouterSends
    <2> QED
      BY <1>6, <2>1, <2>4 DEF WiringInv, Forward, RouterSends, AfterEvent
  <1>7. CASE ForwardFails
    BY <1>7 DEF ForwardFails, RouterSendFails, WiringInv
  <1>8. CASE RouterExit
    BY <1>8 DEF RouterExit, RouterCloses, WiringInv, AddressInv
  <1>9. ASSUME NEW i \in batch, HandleIncomplete(i)
        PROVE  WiringInv' /\ AddressInv'
    <2>1. /\ FdsRunOut /\ pc = "handle" /\ pc' = "stopped" /\ batch' = {}
          /\ UNCHANGED <<ports, epoll, held, toClient, closed, gone>>
      BY <1>9 DEF HandleIncomplete, RouterReceives
    <2>2. \A c \in Client : Range(toRouter'[c]) \subseteq Range(toRouter[c])
      BY <1>3, <1>9 DEF HandleIncomplete
    <2>3. WiringInv'
      BY <2>1 DEF WiringInv
    <2> QED
      BY <2>1, <2>2, <2>3 DEF AddressInv
  <1>10. CASE ForwardBadDescriptor
    <2>1. FdsRunOut
      BY <1>10 DEF ForwardBadDescriptor, WiringInv
    <2> QED
      BY <1>10, <2>1 DEF ForwardBadDescriptor, WiringInv, AddressInv
  <1> QED
    BY <1>1, <1>2, <1>4, <1>5, <1>6, <1>7, <1>8, <1>9, <1>10 DEF RouterStep, Loop, LoopGoesOn

LEMMA ProgramKeepsWire ==
    ASSUME WireInv, NEW c \in Client, Program(c) \/ Looping(c), UNCHANGED routerVars
    PROVE  WiringInv' /\ AddressInv'
  <1> USE DEF WireInv, portVars, routerVars, objectVars
  <1> HIDE DEF TypeInv
  <1>0. /\ queue \in [Client -> Seq(Pending)] /\ ThreadInv(c)
        /\ out \in [Client -> SUBSET [port : Nat, message : RpcMessage]]
        /\ DOMAIN proxies = Client
    BY DEF TypeInv, TypeOK, PhaseInv
  <1>1. UNCHANGED portVars
    BY DEF Program, Looping, Binds, BindsStatic, Connects, Calls, Bind, BindStatic, Connect, Call,
           Dispatches, Dispatch, EnterLoop, DispatchUnknown, HandlerReplies, HandlerReturns
  <1>2. WiringInv'
    BY <1>1 DEF WiringInv
  <1>3. CASE Binds(c) \/ BindsStatic(c) \/ Dispatches(c) \/ EnterLoop(c) \/ DispatchUnknown(c)
    <2>1. UNCHANGED <<queue, out, proxies>>
      BY <1>3 DEF Binds, BindsStatic, Bind, BindStatic, Dispatches, Dispatch, EnterLoop,
                  DispatchUnknown
    <2> QED
      BY <1>1, <1>2, <2>1 DEF AddressInv
  <1>4. CASE Connects(c)
    <2>1. PICK e \in CallEdge : \E i \in receivers[e.to] \cup WrongId : Connect(c, PortOf[e.to], i)
      BY <1>4 DEF Connects
    <2>2. PortOf[e.to] \in DOMAIN ports
      BY PortsInverse, CallEdgeAssumption
    <2>3. /\ UNCHANGED <<queue, out>>
          /\ \A d \in Client : \A p \in proxies'[d] : p \in proxies[d] \/ p.port = PortOf[e.to]
      BY <1>0, <2>1 DEF Connect
    <2> QED
      BY <1>1, <1>2, <2>2, <2>3 DEF AddressInv
  <1>5. CASE Calls(c)
    <2>1. PICK e \in CallEdge, p \in proxies[c] : Call(c, p, e.opcode, <<c, made[c] + 1>>)
      BY <1>5 DEF Calls
    <2>2. /\ UNCHANGED <<queue, proxies>>
          /\ \A d \in Client : \A o \in out'[d] : o \in out[d] \/ o.port = p.port
      BY <1>0, <2>1 DEF Call
    <2> QED
      BY <1>1, <1>2, <2>2 DEF AddressInv
  <1>6. CASE HandlerReplies(c)
    <2>1. Head(queue[c]) \in Range(queue[c])
      BY <1>0, <1>6, TailRange DEF HandlerReplies, ThreadInv, Handling
    <2>2. /\ UNCHANGED <<queue, proxies>>
          /\ \A d \in Client : \A o \in out'[d] : o \in out[d] \/ o.port = Head(queue[c]).source_port
      BY <1>0, <1>6 DEF HandlerReplies
    <2> QED
      BY <1>1, <1>2, <2>1, <2>2 DEF AddressInv
  <1>7. CASE HandlerReturns(c)
    <2>1. Range(Tail(queue[c])) \subseteq Range(queue[c])
      BY <1>0, <1>7, TailRange DEF HandlerReturns, ThreadInv, Handling
    <2>2. /\ UNCHANGED <<out, proxies>>
          /\ \A d \in Client : Range(queue'[d]) \subseteq Range(queue[d])
      BY <1>0, <1>7, <2>1 DEF HandlerReturns, Popped
    <2> QED
      BY <1>1, <1>2, <2>2 DEF AddressInv
  <1> QED
    BY <1>3, <1>4, <1>5, <1>6, <1>7 DEF Program, Looping

LEMMA BlockingKeepsWire ==
    ASSUME WireInv, NEW c \in Client, Blocking(c) \/ Refused(c), UNCHANGED routerVars
    PROVE  WiringInv' /\ AddressInv'
  <1> USE DEF WireInv, portVars, routerVars, objectVars
  <1> HIDE DEF TypeInv
  <1>0. /\ queue \in [Client -> Seq(Pending)] /\ ThreadInv(c)
        /\ out \in [Client -> SUBSET [port : Nat, message : RpcMessage]]
        /\ toClient \in [Client -> Seq(Message)]
        /\ toRouter \in [Client -> Seq(Message)]
    BY DEF TypeInv, TypeOK, PhaseInv
  <1>1. WiringInv'
    BY DEF WiringInv, Blocking, Refused, Sends, SendSucceeds, SendFails, SendRefused, Answers, Answer,
           Defer, LoopReceive, ReceiveFails, ClientSends, ClientSendFails, ClientSendRefused,
           ClientReceives
  <1>2. CASE Sends(c) \/ Refused(c)
    <2>1. PICK o \in out[c] : out[c] = {o} /\ phase[c] = "send"
      BY <1>0, <1>2 DEF Sends, Refused, SendSucceeds, SendFails, SendRefused, ThreadInv
    <2>2. \E sent \in BOOLEAN : AfterSend(c, o.message.kind, sent)
      BY <1>2, <2>1 DEF Sends, Refused, SendSucceeds, SendFails, SendRefused
    <2>3. UNCHANGED proxies /\ \A d \in Client : out'[d] \subseteq out[d]
      BY <1>0, <1>2, <2>2 DEF AfterSend, Sends, Refused, SendSucceeds, SendFails, SendRefused
    <2>4. \A d \in Client : Range(queue'[d]) \subseteq Range(queue[d])
      <3>1. CASE o.message.kind = "reply"
        <4>1. queue[c] # <<>>
          BY <1>0, <2>1, <3>1 DEF ThreadInv
        <4>2. Range(Tail(queue[c])) \subseteq Range(queue[c])
          BY <1>0, <4>1, TailRange
        <4> QED
          BY <1>0, <2>2, <3>1, <4>2 DEF AfterSend, Popped
      <3> QED
        BY <2>2, <3>1 DEF AfterSend
    <2>5. \A d \in Client : \A m \in Range(toRouter'[d]) : m \in Range(toRouter[d]) \/ m.destination = o.port
      <3> DEFINE m == [destination |-> o.port, payload |-> o.message]
      <3>1. m \in Message /\ m.destination = o.port
        BY <1>0 DEF Message
      <3>2. Range(Append(toRouter[c], m)) = Range(toRouter[c]) \cup {m}
        BY <1>0, <3>1, AppendRange
      <3>3. UNCHANGED toRouter \/ toRouter' = [toRouter EXCEPT ![c] = Append(@, m)]
        BY <1>2, <2>1 DEF Sends, Refused, SendSucceeds, SendFails, SendRefused, ClientSends,
                          ClientSendFails, ClientSendRefused
      <3>4. \A d \in Client : toRouter'[d] = toRouter[d]
                             \/ (d = c /\ toRouter'[d] = Append(toRouter[c], m))
        BY <1>0, <3>3
      <3>5. m.destination = o.port
        BY <3>1
      <3> HIDE DEF m
      <3> SUFFICES ASSUME NEW d \in Client, NEW x \in Range(toRouter'[d]), x \notin Range(toRouter[d])
                   PROVE  x.destination = o.port
        OBVIOUS
      <3> QED
        BY <3>2, <3>4, <3>5
    <2>6. \A d \in Client : Range(toClient'[d]) \subseteq Range(toClient[d])
      <3>1. UNCHANGED toClient \/ toClient' = [toClient EXCEPT ![c] = <<>>]
        BY <1>2 DEF Sends, Refused, SendSucceeds, SendFails, SendRefused, ClientSends,
                    ClientSendFails, ClientSendRefused
      <3>2. Range(<<>>) = {}
        BY DEF Range
      <3> QED
        BY <1>0, <3>1, <3>2
    <2> QED
      BY <1>1, <2>3, <2>4, <2>5, <2>6 DEF AddressInv, WiringInv
  <1>3. CASE Answers(c) \/ Defer(c) \/ LoopReceive(c) \/ ReceiveFails(c)
    <2> DEFINE m == Head(toClient[c])
    <2>1. /\ toClient[c] # <<>> /\ toClient' = [toClient EXCEPT ![c] = Tail(@)]
          /\ UNCHANGED <<toRouter, proxies>>
          /\ \A d \in Client : out'[d] \subseteq out[d]
      BY <1>0, <1>3 DEF Answers, Answer, Defer, LoopReceive, ReceiveFails, ClientReceives
    <2>2. m \in Message /\ m \in Range(toClient[c]) /\ Range(Tail(toClient[c])) \subseteq Range(toClient[c])
      BY <1>0, <2>1, TailRange
    <2>3. Range(Append(queue[c], NextMessage(c))) = Range(queue[c]) \cup {NextMessage(c)}
      <3>1. NextMessage(c) \in Pending
        BY <2>2, NextMessageType
      <3> QED
        BY <1>0, <3>1, AppendRange
    <2>4. NextMessage(c).source_port = m.destination
      BY DEF NextMessage
    <2>5. \A d \in Client : \A p \in Range(queue'[d]) :
              p \in Range(queue[d]) \/ (d = c /\ p.source_port = m.destination)
      <3>1. UNCHANGED queue \/ queue' = [queue EXCEPT ![c] = Append(queue[c], NextMessage(c))]
        BY <1>3 DEF Answers, Answer, Defer, LoopReceive, ReceiveFails, Queued
      <3>2. \A d \in Client : queue'[d] = queue[d]
                             \/ (d = c /\ queue'[d] = Append(queue[c], NextMessage(c)))
        BY <1>0, <3>1
      <3> HIDE DEF m
      <3> QED
        BY <2>3, <2>4, <3>2
    <2>6. \A d \in Client : Range(toClient'[d]) \subseteq Range(toClient[d])
      BY <1>0, <2>1, <2>2
    <2> HIDE DEF m
    <2> QED
      BY <1>1, <2>1, <2>2, <2>5, <2>6 DEF AddressInv, WiringInv
  <1> QED
    BY <1>2, <1>3 DEF Blocking

LEMMA WireInductive == WireInv /\ [Next]_vars => WireInv'
  <1> SUFFICES ASSUME WireInv, [Next]_vars
               PROVE  WireInv'
    OBVIOUS
  <1>1. TypeInv'
    BY TypeInductive DEF WireInv
  <1>2. CASE Next
    BY <1>1, <1>2, RouterKeepsWire, ProgramKeepsWire, BlockingKeepsWire DEF Next, WireInv
  <1>3. CASE UNCHANGED vars
    BY <1>1, <1>3 DEF vars, portVars, routerVars, channelVars, WireInv, WiringInv, AddressInv
  <1> QED
    BY <1>2, <1>3

(* Once every port has been added, and as long as the router's process has *)
(* descriptors for the handles it receives, no message makes its loop()    *)
(* return: not one from an unknown source (linux_router.cpp:77-78), nor to *)
(* an unknown destination (88-89), nor one that cannot be sent (96-97).    *)
THEOREM LoopNeverReturns ==
    ASSUME ~FdsRunOut
    PROVE  Spec => []RouterKeepsRunning
  <1>1. WireInv => RouterKeepsRunning
    BY DEF WireInv, WiringInv, RouterKeepsRunning
  <1> QED
    BY <1>1, InitWire, WireInductive, PTL DEF Spec

-----------------------------------------------------------------------------
(* The ids of objects.                                                     *)

LEMMA InitIds == Init => IdsInv
  BY DEF Init, ChannelInit, IdsInv, ProxyIds

LEMMA IdsInductive == WireInv /\ IdsInv /\ [Next]_vars => IdsInv'
  <1> SUFFICES ASSUME WireInv, IdsInv, [Next]_vars
               PROVE  IdsInv'
    OBVIOUS
  <1> USE DEF routerVars, objectVars
  <1>0. /\ \A c \in Client : nextId[c] \in Nat /\ IsFiniteSet(allocated[c])
        /\ receivers \in [Client -> SUBSET Nat]
        /\ allocated \in [Client -> SUBSET Nat]
        /\ nextId \in [Client -> Nat]
        /\ proxies \in [Client -> SUBSET [id : Nat, port : Nat, remote : Nat]]
    BY DEF WireInv, TypeInv, TypeOK
  <1>1. \A c \in Client : NextId(c) \notin allocated[c]
    BY <1>0, NextIdIsFree
  <1>2. ASSUME UNCHANGED <<receivers, allocated, proxies, ports>>
        PROVE  IdsInv'
    BY <1>2 DEF IdsInv, ProxyIds, Objects
  <1>3. ASSUME NEW c \in Client, NEW new, UNCHANGED <<proxies, ports>>,
               receivers' = [receivers EXCEPT ![c] = @ \cup {new}],
               allocated' = [allocated EXCEPT ![c] = @ \cup {new}],
               new \notin ProxyIds(c)
        PROVE  IdsInv'
    <2>1. \A d \in Client : ProxyIds(d)' = ProxyIds(d) /\ receivers[d] \subseteq receivers'[d]
      BY <1>0, <1>3 DEF ProxyIds
    <2> QED
      BY <1>0, <1>3, <2>1 DEF IdsInv, Objects
  <1>4. ASSUME NEW c \in Client, NEW p, UNCHANGED <<receivers, ports>>,
               proxies' = [proxies EXCEPT ![c] = @ \cup {p}],
               allocated' = [allocated EXCEPT ![c] = @ \cup {p.id}],
               p.id \notin allocated[c], p.remote \in Objects(ports[p.port])
        PROVE  IdsInv'
    <2>1. \A d \in Client : ProxyIds(d)' = IF d = c THEN ProxyIds(c) \cup {p.id} ELSE ProxyIds(d)
      BY <1>0, <1>4 DEF ProxyIds
    <2> QED
      BY <1>0, <1>4, <2>1 DEF IdsInv, Objects
  <1>5. CASE RouterStep /\ UNCHANGED <<channelVars, history>>
    BY <1>2, <1>5 DEF RouterStep, Loop, LoopGoesOn, EpollWait, HandleUnknownSource,
                      HandleIncomplete, HandleUnknownDestination, HandleMessage, Forward,
                      ForwardFails, ForwardBadDescriptor, RouterExit, channelVars
  <1>6. ASSUME NEW c \in Client, Blocking(c) \/ Refused(c) \/ Looping(c), UNCHANGED routerVars
        PROVE  IdsInv'
    BY <1>2, <1>6 DEF Blocking, Refused, Looping, Sends, SendSucceeds, SendFails, SendRefused, Answers,
                      Answer, Defer, LoopReceive, ReceiveFails, Dispatches, Dispatch, EnterLoop,
                      DispatchUnknown, HandlerReplies, HandlerReturns
  <1>7. ASSUME NEW c \in Client, Program(c), UNCHANGED routerVars
        PROVE  IdsInv'
    <2>1. CASE Calls(c)
      BY <1>2, <1>7, <2>1 DEF Calls, Call
    <2>2. CASE Binds(c)
      BY <1>0, <1>1, <1>3, <1>7, <2>2 DEF Binds, Bind, IdsInv
    <2>3. CASE BindsStatic(c)
      BY <1>3, <1>7, <2>3 DEF BindsStatic, BindStatic, ProxyIds
    <2>4. CASE Connects(c)
      <3>1. PICK e \in CallEdge : \E i \in receivers[e.to] \cup WrongId : Connect(c, PortOf[e.to], i)
        BY <2>4 DEF Connects
      <3>2. PICK i \in receivers[e.to] \cup WrongId : Connect(c, PortOf[e.to], i)
        BY <3>1
      <3> DEFINE p == [id |-> NextId(c), port |-> PortOf[e.to], remote |-> i]
      <3>3. /\ UNCHANGED <<receivers, ports>>
            /\ proxies' = [proxies EXCEPT ![c] = @ \cup {p}]
            /\ allocated' = [allocated EXCEPT ![c] = @ \cup {p.id}]
        BY <1>0, <1>7, <3>2 DEF Connect
      <3>4. ports[p.port] = e.to
        BY PortsInverse, CallEdgeAssumption DEF WireInv
      <3>5. p.remote \in Objects(ports[p.port]) /\ p.id \notin allocated[c]
        BY <1>1, <3>4 DEF Objects
      <3> HIDE DEF p
      <3> QED
        BY <1>4, <3>3, <3>5
    <2> QED
      BY <1>7, <2>1, <2>2, <2>3, <2>4 DEF Program
  <1>8. CASE UNCHANGED vars
    BY <1>2, <1>8 DEF vars, channelVars
  <1> QED
    BY <1>5, <1>6, <1>7, <1>8 DEF Next

-----------------------------------------------------------------------------
(* The letters on their way.                                               *)

Tracks == [Place -> Seq(LetterSet)]

-----------------------------------------------------------------------------
(* A queue of messages and the track of its letters.                       *)

LEMMA SameInterval == ASSUME NEW a \in Nat, NEW b \in Nat, 1..a = 1..b PROVE a = b
  <1>1. CASE a < b
    <2>1. b \in 1..b /\ b \notin 1..a
      BY <1>1
    <2> QED
      BY <2>1
  <1>2. CASE b < a
    <2>1. a \in 1..a /\ a \notin 1..b
      BY <1>2
    <2> QED
      BY <2>1
  <1> QED
    BY <1>1, <1>2

LEMMA OverType ==
    ASSUME NEW S, NEW T, NEW f \in [S -> T], NEW q \in Seq(S)
    PROVE  Over(f, q) \in Seq(T)
  <1>1. DOMAIN q = 1..Len(q) /\ Len(q) \in Nat /\ \A i \in DOMAIN q : f[q[i]] \in T
    OBVIOUS
  <1>2. Over(f, q) \in [1..Len(q) -> T]
    BY <1>1 DEF Over
  <1> QED
    BY <1>1, <1>2

LEMMA OverLength ==
    ASSUME NEW S, NEW T, NEW f \in [S -> T], NEW q \in Seq(S)
    PROVE  Len(Over(f, q)) = Len(q)
  <1>1. DOMAIN q = 1..Len(q) /\ Len(q) \in Nat /\ DOMAIN Over(f, q) = DOMAIN q
    BY DEF Over
  <1>2. Over(f, q) \in Seq(T)
    BY OverType
  <1> QED
    BY <1>1, <1>2

LEMMA OverTail ==
    ASSUME NEW S, NEW T, NEW f \in [S -> T], NEW q \in Seq(S), q # <<>>
    PROVE  /\ Over(f, q) # <<>>
           /\ Head(Over(f, q)) = f[Head(q)]
           /\ Over(f, Tail(q)) = Tail(Over(f, q))
  <1>1. /\ Len(q) \in Nat \ {0} /\ Head(q) = q[1] /\ Tail(q) \in Seq(S)
        /\ Len(Tail(q)) = Len(q) - 1
        /\ \A i \in 1..Len(q) - 1 : Tail(q)[i] = q[i + 1]
    OBVIOUS
  <1>2. Over(f, q) \in Seq(T)
    BY OverType
  <1>2a. Len(Over(f, q)) = Len(q)
    BY OverLength
  <1>3. Over(f, Tail(q)) \in Seq(T)
    BY <1>1, OverType
  <1>3a. Len(Over(f, Tail(q))) = Len(q) - 1
    <2>1. DOMAIN Over(f, Tail(q)) = DOMAIN Tail(q)
      BY DEF Over
    <2>2. DOMAIN Over(f, Tail(q)) = 1..Len(Over(f, Tail(q))) /\ DOMAIN Tail(q) = 1..Len(Tail(q))
      BY <1>1, <1>3
    <2>3. Len(Over(f, Tail(q))) \in Nat /\ Len(Tail(q)) \in Nat
      BY <1>1, <1>3
    <2>4. Len(Over(f, Tail(q))) = Len(Tail(q))
      BY <2>1, <2>2, <2>3, SameInterval
    <2> QED
      BY <1>1, <2>4
  <1>4. \A i \in 1..Len(q) : Over(f, q)[i] = f[q[i]]
    BY DEF Over
  <1>5. \A i \in 1..Len(q) - 1 : Over(f, Tail(q))[i] = f[Tail(q)[i]]
    BY <1>1 DEF Over
  <1>6. /\ Over(f, q) # <<>> /\ Tail(Over(f, q)) \in Seq(T) /\ Head(Over(f, q)) = Over(f, q)[1]
        /\ Len(Tail(Over(f, q))) = Len(q) - 1
        /\ \A i \in 1..Len(q) - 1 : Tail(Over(f, q))[i] = Over(f, q)[i + 1]
    BY <1>1, <1>2, <1>2a
  <1>7. \A i \in 1..Len(q) - 1 : Over(f, Tail(q))[i] = Tail(Over(f, q))[i]
    BY <1>1, <1>4, <1>5, <1>6
  <1> QED
    BY <1>1, <1>3, <1>3a, <1>4, <1>6, <1>7

LEMMA OverAppend ==
    ASSUME NEW S, NEW T, NEW f \in [S -> T], NEW q \in Seq(S), NEW e \in S
    PROVE  Over(f, Append(q, e)) = Append(Over(f, q), f[e])
  <1>1. /\ Append(q, e) \in Seq(S) /\ Len(Append(q, e)) = Len(q) + 1 /\ Len(q) \in Nat
        /\ Append(q, e)[Len(q) + 1] = e
        /\ \A i \in 1..Len(q) : Append(q, e)[i] = q[i]
    OBVIOUS
  <1>2. Over(f, q) \in Seq(T)
    BY OverType
  <1>2a. Len(Over(f, q)) = Len(q)
    BY OverLength
  <1>3. Over(f, Append(q, e)) \in Seq(T)
    BY <1>1, OverType
  <1>3a. Len(Over(f, Append(q, e))) = Len(q) + 1
    <2>1. DOMAIN Over(f, Append(q, e)) = DOMAIN Append(q, e)
      BY DEF Over
    <2>2. DOMAIN Over(f, Append(q, e)) = 1..Len(Over(f, Append(q, e))) /\ DOMAIN Append(q, e) = 1..Len(Append(q, e))
      BY <1>1, <1>3
    <2>3. Len(Over(f, Append(q, e))) \in Nat /\ Len(Append(q, e)) \in Nat
      BY <1>1, <1>3
    <2>4. Len(Over(f, Append(q, e))) = Len(Append(q, e))
      BY <2>1, <2>2, <2>3, SameInterval
    <2> QED
      BY <1>1, <2>4
  <1>4. \A i \in 1..Len(q) : Over(f, q)[i] = f[q[i]]
    BY DEF Over
  <1>5. \A i \in 1..Len(q) + 1 : Over(f, Append(q, e))[i] = f[Append(q, e)[i]]
    BY <1>1 DEF Over
  <1>6. /\ Append(Over(f, q), f[e]) \in Seq(T) /\ Len(Append(Over(f, q), f[e])) = Len(q) + 1
        /\ Append(Over(f, q), f[e])[Len(q) + 1] = f[e]
        /\ \A i \in 1..Len(q) : Append(Over(f, q), f[e])[i] = Over(f, q)[i]
    BY <1>1, <1>2, <1>2a
  <1>7. \A i \in 1..Len(q) + 1 : Over(f, Append(q, e))[i] = Append(Over(f, q), f[e])[i]
    BY <1>1, <1>4, <1>5, <1>6
  <1> QED
    BY <1>1, <1>3, <1>3a, <1>6, <1>7

-----------------------------------------------------------------------------
(* Tracks.                                                                 *)

LEMMA OneLetter ==
    ASSUME NEW track \in Tracks, Unique(track), NEW l \in On(track), NEW k \in On(track),
           TagOf(l) = TagOf(k)
    PROVE  l = k
  <1>1. PICK p \in Place : l \in Range(track[p])
    BY DEF On
  <1>2. PICK q \in Place : k \in Range(track[q])
    BY DEF On
  <1>3. PICK i \in DOMAIN track[p] : l = track[p][i]
    BY <1>1 DEF Range
  <1>4. PICK j \in DOMAIN track[q] : k = track[q][j]
    BY <1>2 DEF Range
  <1> QED
    BY <1>3, <1>4 DEF Unique

(* The tag of a letter that is taken is nowhere any more.                  *)
LEMMA TakeEffect ==
    ASSUME NEW track \in Tracks, NEW p \in Place, track[p] # <<>>, Unique(track)
    PROVE  /\ Take(track, p) \in Tracks
           /\ Head(track[p]) \in LetterSet /\ Head(track[p]) \in On(track)
           /\ Unique(Take(track, p))
           /\ On(Take(track, p)) = {l \in On(track) : TagOf(l) # TagOf(Head(track[p]))}
  <1> DEFINE h == Head(track[p])
             new == Take(track, p)
  <1>1. /\ track[p] \in Seq(LetterSet) /\ h \in LetterSet /\ h \in Range(track[p])
        /\ Tail(track[p]) \in Seq(LetterSet)
        /\ Range(track[p]) = {h} \cup Range(Tail(track[p]))
    BY TailRange, HeadAndTail DEF Tracks
  <1>2. /\ 1 \in DOMAIN track[p] /\ h = track[p][1]
        /\ \A i \in DOMAIN Tail(track[p]) : /\ i \in Nat \ {0} /\ i + 1 \in DOMAIN track[p]
                                            /\ Tail(track[p])[i] = track[p][i + 1]
    BY <1>1
  <1>3. new \in Tracks /\ new[p] = Tail(track[p]) /\ \A q \in Place \ {p} : new[q] = track[q]
    BY <1>1 DEF Take, Tracks
  <1> HIDE DEF new
  <1>4. \A q \in Place : \A i \in DOMAIN new[q] :
            \E j \in DOMAIN track[q] : new[q][i] = track[q][j] /\ (IF q = p THEN j = i + 1 ELSE j = i)
    BY <1>2, <1>3
  <1>5. Unique(new)
    <2> SUFFICES ASSUME NEW q \in Place, NEW r \in Place, NEW i \in DOMAIN new[q], NEW j \in DOMAIN new[r],
                        TagOf(new[q][i]) = TagOf(new[r][j])
                 PROVE  q = r /\ i = j
      BY DEF Unique
    <2>1. PICK k \in DOMAIN track[q] :
              new[q][i] = track[q][k] /\ (IF q = p THEN k = i + 1 ELSE k = i)
      BY <1>4
    <2>2. PICK m \in DOMAIN track[r] :
              new[r][j] = track[r][m] /\ (IF r = p THEN m = j + 1 ELSE m = j)
      BY <1>4
    <2>3. q = r /\ k = m
      BY <2>1, <2>2 DEF Unique
    <2>4. CASE q = p
      <3>1. i \in Nat /\ j \in Nat
        BY <1>2, <1>3, <2>3, <2>4
      <3> QED
        BY <2>1, <2>2, <2>3, <2>4, <3>1
    <2> QED
      BY <2>1, <2>2, <2>3, <2>4
  <1>6. ASSUME NEW q \in Place, NEW i \in DOMAIN new[q]
        PROVE  TagOf(new[q][i]) # TagOf(h)
    <2>1. PICK k \in DOMAIN track[q] :
              new[q][i] = track[q][k] /\ (IF q = p THEN k = i + 1 ELSE k = i)
      BY <1>4
    <2>2. CASE q = p
      <3>1. k # 1
        <4>1. i \in Nat \ {0} /\ k = i + 1
          BY <1>2, <1>3, <2>1, <2>2
        <4> QED
          BY <4>1
      <3> QED
        BY <1>2, <2>1, <2>2, <3>1 DEF Unique
    <2>3. CASE q # p
      BY <1>2, <2>1, <2>3 DEF Unique
    <2> QED
      BY <2>2, <2>3
  <1>7. On(track) = On(new) \cup {h}
    <2>1. \A q \in Place : Range(new[q]) \subseteq Range(track[q])
      BY <1>1, <1>3
    <2>2. \A q \in Place : Range(track[q]) \subseteq Range(new[q]) \cup {h}
      BY <1>1, <1>3
    <2>3. h \in On(track)
      BY <1>1 DEF On
    <2> HIDE DEF h
    <2> QED
      BY <2>1, <2>2, <2>3 DEF On
  <1>8. \A l \in On(new) : TagOf(l) # TagOf(h)
    BY <1>6 DEF On, Range
  <1> QED
    BY <1>1, <1>3, <1>5, <1>7, <1>8 DEF new

LEMMA PutEffect ==
    ASSUME NEW track \in Tracks, NEW p \in Place, NEW l \in LetterSet, Unique(track),
           ~OnTrack(track, TagOf(l))
    PROVE  /\ Put(track, p, l) \in Tracks
           /\ Unique(Put(track, p, l))
           /\ On(Put(track, p, l)) = On(track) \cup {l}
  <1> DEFINE new == Put(track, p, l)
  <1>1. /\ track[p] \in Seq(LetterSet) /\ Append(track[p], l) \in Seq(LetterSet)
        /\ Range(Append(track[p], l)) = Range(track[p]) \cup {l}
    BY AppendRange DEF Tracks
  <1>2. /\ DOMAIN Append(track[p], l) = DOMAIN track[p] \cup {Len(track[p]) + 1}
        /\ Append(track[p], l)[Len(track[p]) + 1] = l
        /\ \A i \in DOMAIN track[p] : Append(track[p], l)[i] = track[p][i]
    BY <1>1
  <1>3. /\ new \in Tracks /\ new[p] = Append(track[p], l)
        /\ \A q \in Place \ {p} : new[q] = track[q]
    BY <1>1 DEF Put, Tracks
  <1> HIDE DEF new
  <1>4. ASSUME NEW q \in Place, NEW i \in DOMAIN new[q]
        PROVE  \/ i \in DOMAIN track[q] /\ new[q][i] = track[q][i]
               \/ q = p /\ i = Len(track[p]) + 1 /\ new[q][i] = l
    BY <1>2, <1>3
  <1>5. \A q \in Place : \A i \in DOMAIN track[q] : TagOf(track[q][i]) # TagOf(l)
    BY DEF OnTrack, On, Range
  <1>6. Unique(new)
    BY <1>4, <1>5 DEF Unique
  <1>7. On(new) = On(track) \cup {l}
    <2>1. \A q \in Place : Range(new[q]) = IF q = p THEN Range(track[q]) \cup {l} ELSE Range(track[q])
      BY <1>1, <1>3
    <2> QED
      BY <2>1 DEF On
  <1> QED
    BY <1>3, <1>6, <1>7 DEF new

LEMMA ClearEffect ==
    ASSUME NEW track \in Tracks, NEW p \in Place, Unique(track)
    PROVE  /\ Clear(track, p) \in Tracks
           /\ Unique(Clear(track, p))
           /\ On(Clear(track, p)) \subseteq On(track)
  <1> DEFINE new == Clear(track, p)
  <1>1. /\ new \in Tracks /\ new[p] = <<>> /\ \A q \in Place \ {p} : new[q] = track[q]
    BY DEF Clear, Tracks
  <1> HIDE DEF new
  <1>2. \A q \in Place : \A i \in DOMAIN new[q] : i \in DOMAIN track[q] /\ new[q][i] = track[q][i]
    BY <1>1
  <1>3. Unique(new)
    BY <1>2 DEF Unique
  <1>4. On(new) \subseteq On(track)
    BY <1>2 DEF On, Range
  <1> QED
    BY <1>1, <1>3, <1>4 DEF new

(* A letter that moves is the same letter elsewhere.                       *)
LEMMA MoveEffect ==
    ASSUME NEW track \in Tracks, NEW p \in Place, NEW q \in Place, track[p] # <<>>, Unique(track)
    PROVE  LET new == Put(Take(track, p), q, Head(track[p])) IN
           new \in Tracks /\ Unique(new) /\ On(new) = On(track)
  <1> DEFINE h == Head(track[p])
             rest == Take(track, p)
  <1>1. /\ rest \in Tracks /\ h \in LetterSet /\ h \in On(track) /\ Unique(rest)
        /\ On(rest) = {l \in On(track) : TagOf(l) # TagOf(h)}
    BY TakeEffect
  <1>2. \A l \in On(track) : TagOf(l) = TagOf(h) => l = h
    BY <1>1, OneLetter
  <1> HIDE DEF h, rest
  <1>3. ~OnTrack(rest, TagOf(h))
    BY <1>1 DEF OnTrack
  <1>4. Put(rest, q, h) \in Tracks /\ Unique(Put(rest, q, h)) /\ On(Put(rest, q, h)) = On(rest) \cup {h}
    BY <1>1, <1>3, PutEffect
  <1>5. On(rest) \cup {h} = On(track)
    BY <1>1, <1>2
  <1> QED
    BY <1>4, <1>5 DEF h, rest

-----------------------------------------------------------------------------
(* The letters of the state.                                               *)

(* Every message is addressed, so that each is some letter.                *)
LEMMA LetterTypes ==
    ASSUME WireInv, NEW c \in Client
    PROVE  /\ Sent(c) \in [Addressed -> LetterSet]
           /\ Incoming(c) \in [Addressed -> LetterSet]
           /\ Waiting(c) \in [AddressedPending -> LetterSet]
           /\ \A h \in held : Routed(h) \in LetterSet
           /\ toRouter[c] \in Seq(Addressed)
           /\ toClient[c] \in Seq(Addressed)
           /\ queue[c] \in Seq(AddressedPending)
  <1> USE DEF WireInv
  <1>1. \A i \in DOMAIN ports : ports[i] \in Client
    BY PortsInverse
  <1>2. \A p \in Pending : Unpacked(p) \in RpcMessage
    BY DEF Pending, Unpacked, RpcMessage
  <1>3. \A m \in Message : m.payload \in RpcMessage
    BY DEF Message
  <1>4. Sent(c) \in [Addressed -> LetterSet] /\ Incoming(c) \in [Addressed -> LetterSet]
    BY <1>1, <1>3 DEF Sent, Incoming, Addressed, Letter, LetterSet
  <1>5. Waiting(c) \in [AddressedPending -> LetterSet]
    BY <1>1, <1>2 DEF Waiting, AddressedPending, Letter, LetterSet
  <1>6. ASSUME NEW h \in held
        PROVE  Routed(h) \in LetterSet
    <2>1. h.message \in Message /\ h.port \in Client /\ h.message.destination \in DOMAIN ports
      BY DEF TypeInv, TypeOK, AddressInv
    <2> QED
      BY <1>1, <1>3, <2>1 DEF Routed, Letter, LetterSet
  <1>7. ASSUME NEW S, NEW T, NEW q \in Seq(S), Range(q) \subseteq T
        PROVE  q \in Seq(T)
    <2>1. DOMAIN q = 1..Len(q) /\ Len(q) \in Nat /\ \A i \in DOMAIN q : q[i] \in Range(q)
      BY DEF Range
    <2>2. q \in [1..Len(q) -> T]
      BY <1>7, <2>1
    <2> QED
      BY <2>1, <2>2
  <1>8. ASSUME NEW S, NEW q \in Seq(S)
        PROVE  Range(q) \subseteq S
    BY DEF Range
  <1>9. ASSUME NEW q \in Seq(Message), \A m \in Range(q) : m.destination \in DOMAIN ports
        PROVE  q \in Seq(Addressed)
    <2>1. Range(q) \subseteq Addressed
      BY <1>8, <1>9 DEF Addressed
    <2> QED
      BY <1>7, <2>1
  <1>10. queue[c] \in Seq(AddressedPending)
    <2>1. queue[c] \in Seq(Pending) /\ \A p \in Range(queue[c]) : p.source_port \in DOMAIN ports
      BY DEF TypeInv, TypeOK, AddressInv
    <2>2. Range(queue[c]) \subseteq AddressedPending
      BY <1>8, <2>1 DEF AddressedPending
    <2> QED
      BY <1>7, <2>1, <2>2
  <1>11. toRouter[c] \in Seq(Message) /\ toClient[c] \in Seq(Message)
    BY DEF TypeInv, TypeOK
  <1>12. toRouter[c] \in Seq(Addressed) /\ toClient[c] \in Seq(Addressed)
    BY <1>9, <1>11 DEF AddressInv
  <1> QED
    BY <1>4, <1>5, <1>6, <1>10, <1>12

LEMMA Places ==
    \A p \in Place : \E c \in Client : \/ p = <<"toRouter", c>> \/ p = <<"held", c>>
                                       \/ p = <<"toClient", c>> \/ p = <<"queue", c>>
  BY DEF Place

(* Track, place by place.                                                  *)
LEMMA TrackAt ==
    /\ DOMAIN Track = Place
    /\ \A c \in Client : /\ Track[<<"toRouter", c>>] = Over(Sent(c), toRouter[c])
                         /\ Track[<<"held", c>>] = HeldTrack(c)
                         /\ Track[<<"toClient", c>>] = Over(Incoming(c), toClient[c])
                         /\ Track[<<"queue", c>>] = Over(Waiting(c), queue[c])
  BY DEF Track, Place

LEMMA TracksType == WireInv => Track \in Tracks
  <1> SUFFICES ASSUME WireInv
               PROVE  Track \in Tracks
    OBVIOUS
  <1>1. ASSUME NEW c \in Client
        PROVE  HeldTrack(c) \in Seq(LetterSet)
    <2>1. CASE HeldFor(c) = {}
      BY <2>1 DEF HeldTrack
    <2>2. CASE HeldFor(c) # {}
      <3>1. (CHOOSE h \in HeldFor(c) : TRUE) \in held
        BY <2>2 DEF HeldFor
      <3>2. Routed(CHOOSE h \in HeldFor(c) : TRUE) \in LetterSet
        BY <3>1, LetterTypes
      <3> QED
        BY <2>2, <3>2 DEF HeldTrack
    <2> QED
      BY <2>1, <2>2
  <1>2. ASSUME NEW c \in Client
        PROVE  /\ Over(Sent(c), toRouter[c]) \in Seq(LetterSet)
               /\ Over(Incoming(c), toClient[c]) \in Seq(LetterSet)
               /\ Over(Waiting(c), queue[c]) \in Seq(LetterSet)
    BY LetterTypes, OverType
  <1>3. \A p \in Place : Track[p] \in Seq(LetterSet)
    BY <1>1, <1>2 DEF Track, Place
  <1>4. Track = [p \in Place |-> Track[p]]
    BY DEF Track
  <1> QED
    BY <1>3, <1>4 DEF Tracks

(* Two tracks are the same if they are at every place.                     *)
LEMMA SameTrack ==
    ASSUME NEW s, NEW t, DOMAIN s = Place, DOMAIN t = Place,
           s = [p \in Place |-> s[p]], t = [p \in Place |-> t[p]],
           \A c \in Client : /\ s[<<"toRouter", c>>] = t[<<"toRouter", c>>]
                             /\ s[<<"held", c>>] = t[<<"held", c>>]
                             /\ s[<<"toClient", c>>] = t[<<"toClient", c>>]
                             /\ s[<<"queue", c>>] = t[<<"queue", c>>]
    PROVE  s = t
  <1>1. \A p \in Place : s[p] = t[p]
    BY Places
  <1> QED
    BY <1>1

LEMMA TrackNext ==
    ASSUME UNCHANGED ports
    PROVE  /\ DOMAIN Track' = Place
           /\ Track' = [p \in Place |-> Track'[p]]
           /\ \A c \in Client : /\ Track'[<<"toRouter", c>>] = Over(Sent(c), toRouter'[c])
                                /\ Track'[<<"held", c>>] = HeldTrack(c)'
                                /\ Track'[<<"toClient", c>>] = Over(Incoming(c), toClient'[c])
                                /\ Track'[<<"queue", c>>] = Over(Waiting(c), queue'[c])
  <1>1. Addressed' = Addressed /\ AddressedPending' = AddressedPending
    BY DEF Addressed, AddressedPending
  <1>2. \A c \in Client : Sent(c)' = Sent(c) /\ Incoming(c)' = Incoming(c) /\ Waiting(c)' = Waiting(c)
    BY <1>1 DEF Sent, Incoming, Waiting
  <1>3. /\ DOMAIN Track' = Place
        /\ Track' = [p \in Place |-> Track'[p]]
    BY DEF Track
  <1>4. \A c \in Client : /\ Track'[<<"toRouter", c>>] = Over(Sent(c)', toRouter'[c])
                          /\ Track'[<<"held", c>>] = HeldTrack(c)'
                          /\ Track'[<<"toClient", c>>] = Over(Incoming(c)', toClient'[c])
                          /\ Track'[<<"queue", c>>] = Over(Waiting(c)', queue'[c])
    BY DEF Track, Place
  <1> QED
    BY <1>2, <1>3, <1>4

(* What a step does to the tracks, from what it does to each of them.      *)
LEMMA TrackChange ==
    ASSUME UNCHANGED ports, NEW t, t = [p \in Place |-> t[p]],
           \A c \in Client : /\ t[<<"toRouter", c>>] = Over(Sent(c), toRouter'[c])
                             /\ t[<<"held", c>>] = HeldTrack(c)'
                             /\ t[<<"toClient", c>>] = Over(Incoming(c), toClient'[c])
                             /\ t[<<"queue", c>>] = Over(Waiting(c), queue'[c])
    PROVE  Track' = t
  <1>1. /\ DOMAIN Track' = Place
        /\ Track' = [p \in Place |-> Track'[p]]
        /\ \A c \in Client : /\ Track'[<<"toRouter", c>>] = t[<<"toRouter", c>>]
                             /\ Track'[<<"held", c>>] = t[<<"held", c>>]
                             /\ Track'[<<"toClient", c>>] = t[<<"toClient", c>>]
                             /\ Track'[<<"queue", c>>] = t[<<"queue", c>>]
    BY TrackNext
  <1>2. DOMAIN t = Place
    OBVIOUS
  <1> QED
    BY <1>1, <1>2, SameTrack

LEMMA HeldSame == UNCHANGED <<held, ports>> => \A c \in Client : HeldTrack(c)' = HeldTrack(c)
  BY DEF HeldTrack, HeldFor, Routed

LEMMA QuietTrack == UNCHANGED <<ports, toRouter, held, toClient, queue>> => Track' = Track
  <1> SUFFICES ASSUME UNCHANGED <<ports, toRouter, held, toClient, queue>>
               PROVE  Track' = Track
    OBVIOUS
  <1>1. Track = [p \in Place |-> Track[p]]
    BY DEF Track
  <1> QED
    BY <1>1, TrackAt, HeldSame, TrackChange

(* The head of a queue that is not empty, and the rest, as letters.        *)
LEMMA RouterHead ==
    ASSUME WireInv, NEW c \in Client, toRouter[c] # <<>>
    PROVE  /\ Head(toRouter[c]) \in Addressed
           /\ Track[<<"toRouter", c>>] # <<>>
           /\ Head(Track[<<"toRouter", c>>]) = Sent(c)[Head(toRouter[c])]
           /\ Tail(Track[<<"toRouter", c>>]) = Over(Sent(c), Tail(toRouter[c]))
  <1>1. toRouter[c] \in Seq(Addressed) /\ Sent(c) \in [Addressed -> LetterSet]
    BY LetterTypes
  <1>2. Track[<<"toRouter", c>>] = Over(Sent(c), toRouter[c])
    BY TrackAt
  <1>3. /\ Over(Sent(c), toRouter[c]) # <<>>
        /\ Head(Over(Sent(c), toRouter[c])) = Sent(c)[Head(toRouter[c])]
        /\ Over(Sent(c), Tail(toRouter[c])) = Tail(Over(Sent(c), toRouter[c]))
    BY <1>1, OverTail
  <1>4. Head(toRouter[c]) \in Addressed
    BY <1>1
  <1> QED
    BY <1>2, <1>3, <1>4

LEMMA ClientHead ==
    ASSUME WireInv, NEW c \in Client, toClient[c] # <<>>
    PROVE  /\ Head(toClient[c]) \in Addressed
           /\ Track[<<"toClient", c>>] # <<>>
           /\ Head(Track[<<"toClient", c>>]) = Incoming(c)[Head(toClient[c])]
           /\ Tail(Track[<<"toClient", c>>]) = Over(Incoming(c), Tail(toClient[c]))
  <1>1. toClient[c] \in Seq(Addressed) /\ Incoming(c) \in [Addressed -> LetterSet]
    BY LetterTypes
  <1>2. Track[<<"toClient", c>>] = Over(Incoming(c), toClient[c])
    BY TrackAt
  <1>3. /\ Over(Incoming(c), toClient[c]) # <<>>
        /\ Head(Over(Incoming(c), toClient[c])) = Incoming(c)[Head(toClient[c])]
        /\ Over(Incoming(c), Tail(toClient[c])) = Tail(Over(Incoming(c), toClient[c]))
    BY <1>1, OverTail
  <1>4. Head(toClient[c]) \in Addressed
    BY <1>1
  <1> QED
    BY <1>2, <1>3, <1>4

LEMMA QueueHead ==
    ASSUME WireInv, NEW c \in Client, queue[c] # <<>>
    PROVE  /\ Head(queue[c]) \in AddressedPending
           /\ Track[<<"queue", c>>] # <<>>
           /\ Head(Track[<<"queue", c>>]) = Waiting(c)[Head(queue[c])]
           /\ Tail(Track[<<"queue", c>>]) = Over(Waiting(c), Tail(queue[c]))
  <1>1. queue[c] \in Seq(AddressedPending) /\ Waiting(c) \in [AddressedPending -> LetterSet]
    BY LetterTypes
  <1>2. Track[<<"queue", c>>] = Over(Waiting(c), queue[c])
    BY TrackAt
  <1>3. /\ Over(Waiting(c), queue[c]) # <<>>
        /\ Head(Over(Waiting(c), queue[c])) = Waiting(c)[Head(queue[c])]
        /\ Over(Waiting(c), Tail(queue[c])) = Tail(Over(Waiting(c), queue[c]))
    BY <1>1, OverTail
  <1>4. Head(queue[c]) \in AddressedPending
    BY <1>1
  <1> QED
    BY <1>2, <1>3, <1>4

(* The letter at the head of p goes to the end of q.                       *)
Moves(p, q) ==
    /\ Track[p] # <<>>
    /\ Track' = Put(Take(Track, p), q, Head(Track[p]))

(* The router reads a message.                                             *)
LEMMA HandleMessageMoves ==
    ASSUME WireInv, NEW i \in batch, HandleMessage(i), UNCHANGED queue
    PROVE  \E s, d \in Client : Moves(<<"toRouter", s>>, <<"held", d>>)
  <1>1. PICK s \in Client : s = ports[i] /\ i \in DOMAIN ports
    BY PortsInverse DEF HandleMessage, WireInv, WiringInv
  <1>2. /\ toRouter[s] # <<>> /\ toRouter' = [toRouter EXCEPT ![s] = Tail(@)]
        /\ held = {} /\ UNCHANGED <<ports, toClient>>
    BY <1>1 DEF HandleMessage, RouterReceives, WireInv, WiringInv
  <1>3. PICK m \in Addressed : m = Head(toRouter[s])
    BY <1>2, RouterHead
  <1>4. PICK d \in Client : d = ports[m.destination] /\ m \in Message /\ m.destination \in DOMAIN ports
    BY PortsInverse DEF WireInv, Addressed
  <1>5. PICK h : h = [id |-> m.destination, port |-> d, message |-> Stamped(m, i)]
    OBVIOUS
  <1>6. PICK l : l = Letter(s, d, m.payload)
    OBVIOUS
  <1>7. /\ Track[<<"toRouter", s>>] # <<>> /\ Head(Track[<<"toRouter", s>>]) = l
        /\ Tail(Track[<<"toRouter", s>>]) = Over(Sent(s), Tail(toRouter[s]))
    BY <1>2, <1>3, <1>4, <1>6, RouterHead DEF Sent
  <1>8. Letter(ports'[h.message.destination], h.port, h.message.payload) = l
    BY <1>1, <1>2, <1>4, <1>5, <1>6 DEF Stamped, Message
  <1>9. \A c \in Client : /\ HeldTrack(c) = <<>>
                          /\ HeldTrack(c)' = IF c = d THEN <<l>> ELSE <<>>
    <2>1. held' = {h} /\ h.port = d
      BY <1>1, <1>3, <1>4, <1>5 DEF HandleMessage
    <2>2. \A c \in Client : HeldFor(c) = {} /\ HeldFor(c)' = IF c = d THEN {h} ELSE {}
      BY <1>2, <2>1 DEF HeldFor
    <2>3. (CHOOSE g \in {h} : TRUE) = h
      OBVIOUS
    <2>4. HeldFor(d)' = {h} /\ HeldFor(d)' # {}
      BY <2>2
    <2>5. HeldTrack(d)' = <<l>>
      BY <1>8, <2>3, <2>4 DEF HeldTrack, Routed
    <2> QED
      BY <2>2, <2>5 DEF HeldTrack
  <1> DEFINE t == Put(Take(Track, <<"toRouter", s>>), <<"held", d>>, l)
  <1>10. Track' = t
    <2>1. t = [p \in Place |-> t[p]]
      BY TrackAt DEF Take, Put
    <2>2. \A c \in Client :
            /\ t[<<"toRouter", c>>] = IF c = s THEN Tail(Track[<<"toRouter", s>>])
                                               ELSE Track[<<"toRouter", c>>]
            /\ t[<<"held", c>>] = IF c = d THEN Append(Track[<<"held", d>>], l)
                                           ELSE Track[<<"held", c>>]
            /\ t[<<"toClient", c>>] = Track[<<"toClient", c>>]
            /\ t[<<"queue", c>>] = Track[<<"queue", c>>]
      BY TrackAt DEF Take, Put, Place
    <2>3. Append(<<>>, l) = <<l>>
      OBVIOUS
    <2>4. toRouter'[s] = Tail(toRouter[s]) /\ \A c \in Client \ {s} : toRouter'[c] = toRouter[c]
      BY <1>2 DEF WireInv, TypeInv, TypeOK
    <2> HIDE DEF t
    <2>5. ASSUME NEW c \in Client
          PROVE  /\ t[<<"toRouter", c>>] = Over(Sent(c), toRouter'[c])
                 /\ t[<<"held", c>>] = HeldTrack(c)'
                 /\ t[<<"toClient", c>>] = Over(Incoming(c), toClient'[c])
                 /\ t[<<"queue", c>>] = Over(Waiting(c), queue'[c])
      <3>1. t[<<"toRouter", c>>] = Over(Sent(c), toRouter'[c])
        BY <1>7, <2>2, <2>4, TrackAt
      <3>2. t[<<"held", c>>] = HeldTrack(c)'
        <4>1. Track[<<"held", c>>] = <<>>
          BY <1>9, TrackAt
        <4>2. CASE c = d
          <5>1. t[<<"held", c>>] = <<l>>
            BY <2>2, <2>3, <4>1, <4>2
          <5> QED
            BY <1>9, <4>2, <5>1
        <4>3. CASE c # d
          BY <1>9, <2>2, <4>1, <4>3
        <4> QED
          BY <4>2, <4>3
      <3> QED
        BY <1>2, <2>2, <3>1, <3>2, TrackAt
    <2> QED
      BY <1>2, <2>1, <2>5, TrackChange
  <1> QED
    BY <1>7, <1>10 DEF Moves

(* The router sends the message it holds.                                  *)
LEMMA HeldIsOne ==
    ASSUME WireInv, NEW h \in held
    PROVE  /\ held = {h} /\ h.port \in Client
           /\ \A c \in Client : HeldTrack(c) = IF c = h.port THEN <<Routed(h)>> ELSE <<>>
  <1>1. held = {h} /\ h.port \in Client
    BY DEF WireInv, WiringInv, TypeInv, TypeOK
  <1>2. \A c \in Client : HeldFor(c) = IF c = h.port THEN {h} ELSE {}
    BY <1>1 DEF HeldFor
  <1>3. (CHOOSE g \in {h} : TRUE) = h
    OBVIOUS
  <1>4. HeldTrack(h.port) = <<Routed(h)>>
    BY <1>1, <1>2, <1>3 DEF HeldTrack
  <1>5. \A c \in Client : c # h.port => HeldTrack(c) = <<>>
    BY <1>2 DEF HeldTrack
  <1> QED
    BY <1>1, <1>4, <1>5

LEMMA ForwardMoves ==
    ASSUME WireInv, Forward, UNCHANGED queue
    PROVE  \E d \in Client : Moves(<<"held", d>>, <<"toClient", d>>)
  <1>1. PICK h \in held : RouterSends(h.port, h.message)
    BY DEF Forward
  <1>2. PICK d \in Client : d = h.port
    BY <1>1, HeldIsOne
  <1>3. PICK m \in Addressed : m = h.message
    BY DEF WireInv, TypeInv, TypeOK, AddressInv, Addressed
  <1>4. toClient[d] \in Seq(Addressed) /\ Incoming(d) \in [Addressed -> LetterSet]
    BY LetterTypes
  <1>5. /\ toClient' = [toClient EXCEPT ![d] = Append(@, m)]
        /\ held' = {} /\ UNCHANGED <<ports, toRouter>>
    BY <1>1, <1>2, <1>3 DEF Forward, RouterSends
  <1>6. PICK l : l = Routed(h)
    OBVIOUS
  <1>7. Incoming(d)[m] = l
    BY <1>2, <1>3, <1>6 DEF Incoming, Routed
  <1>8. /\ \A c \in Client : Track[<<"held", c>>] = IF c = d THEN <<l>> ELSE <<>>
        /\ \A c \in Client : HeldTrack(c)' = <<>>
    <2>1. \A c \in Client : HeldFor(c)' = {}
      BY <1>5 DEF HeldFor
    <2>2. \A c \in Client : HeldTrack(c)' = <<>>
      BY <2>1 DEF HeldTrack
    <2>3. HeldFor(d) = {h} /\ \A c \in Client \ {d} : HeldFor(c) = {}
      BY <1>1, <1>2, HeldIsOne DEF HeldFor
    <2>4. HeldTrack(d) = <<l>>
      BY <1>6, <2>3 DEF HeldTrack
    <2>5. \A c \in Client \ {d} : HeldTrack(c) = <<>>
      BY <2>3 DEF HeldTrack
    <2>6. \A c \in Client : Track[<<"held", c>>] = HeldTrack(c)
      BY TrackAt
    <2> QED
      BY <2>2, <2>4, <2>5, <2>6
  <1>9. Track[<<"held", d>>] # <<>> /\ Head(Track[<<"held", d>>]) = l /\ Tail(Track[<<"held", d>>]) = <<>>
    <2>1. <<l>> # <<>> /\ Head(<<l>>) = l /\ Tail(<<l>>) = <<>>
      OBVIOUS
    <2> QED
      BY <1>8, <2>1
  <1>10. Over(Incoming(d), toClient'[d]) = Append(Track[<<"toClient", d>>], l)
    <2>1. toClient'[d] = Append(toClient[d], m)
      BY <1>5 DEF WireInv, TypeInv, TypeOK
    <2>2. Over(Incoming(d), Append(toClient[d], m)) = Append(Over(Incoming(d), toClient[d]), Incoming(d)[m])
      BY <1>4, OverAppend
    <2> QED
      BY <1>7, <2>1, <2>2, TrackAt
  <1> DEFINE t == Put(Take(Track, <<"held", d>>), <<"toClient", d>>, l)
  <1>11. Track' = t
    <2>1. t = [p \in Place |-> t[p]]
      BY TrackAt DEF Take, Put
    <2>2. \A c \in Client :
            /\ t[<<"toRouter", c>>] = Track[<<"toRouter", c>>]
            /\ t[<<"held", c>>] = IF c = d THEN Tail(Track[<<"held", d>>]) ELSE Track[<<"held", c>>]
            /\ t[<<"toClient", c>>] = IF c = d THEN Append(Track[<<"toClient", d>>], l)
                                               ELSE Track[<<"toClient", c>>]
            /\ t[<<"queue", c>>] = Track[<<"queue", c>>]
      BY TrackAt DEF Take, Put, Place
    <2>3. \A c \in Client \ {d} : toClient'[c] = toClient[c]
      BY <1>5 DEF WireInv, TypeInv, TypeOK
    <2> HIDE DEF t
    <2>4. \A c \in Client : t[<<"held", c>>] = HeldTrack(c)'
      BY <1>8, <1>9, <2>2
    <2>5. \A c \in Client : t[<<"toClient", c>>] = Over(Incoming(c), toClient'[c])
      BY <1>10, <2>2, <2>3, TrackAt
    <2>6. \A c \in Client : /\ t[<<"toRouter", c>>] = Over(Sent(c), toRouter'[c])
                            /\ t[<<"queue", c>>] = Over(Waiting(c), queue'[c])
      BY <1>5, <2>2, TrackAt
    <2> QED
      BY <1>5, <2>1, <2>4, <2>5, <2>6, TrackChange
  <1> QED
    BY <1>9, <1>11 DEF Moves

(* The end of the router's process, or of its loop(), takes what it held.  *)
LEMMA ExitClears ==
    ASSUME WireInv, RouterExit \/ ForwardBadDescriptor, UNCHANGED queue
    PROVE  Track' = Track \/ \E d \in Client : Track' = Clear(Track, <<"held", d>>)
  <1>1. held' = {} /\ UNCHANGED <<ports, toRouter, toClient>>
    BY DEF RouterExit, RouterCloses, ForwardBadDescriptor, portVars
  <1>2. CASE held = {}
    BY <1>1, <1>2, QuietTrack
  <1>3. CASE held # {}
    <2>1. PICK h \in held : TRUE
      BY <1>3
    <2>2. PICK d \in Client : d = h.port
      BY HeldIsOne
    <2> DEFINE t == Clear(Track, <<"held", d>>)
    <2>3. t = [p \in Place |-> t[p]]
      BY TrackAt DEF Clear
    <2>4. \A c \in Client : HeldTrack(c)' = <<>>
      BY <1>1 DEF HeldTrack, HeldFor
    <2>5. \A c \in Client :
            /\ t[<<"toRouter", c>>] = Track[<<"toRouter", c>>]
            /\ t[<<"held", c>>] = IF c = d THEN <<>> ELSE Track[<<"held", c>>]
            /\ t[<<"toClient", c>>] = Track[<<"toClient", c>>]
            /\ t[<<"queue", c>>] = Track[<<"queue", c>>]
      BY TrackAt DEF Clear, Place
    <2> HIDE DEF t
    <2>6. \A c \in Client : t[<<"held", c>>] = HeldTrack(c)'
      <3>1. \A c \in Client \ {d} : HeldTrack(c) = <<>>
        BY <2>2, HeldIsOne
      <3> QED
        BY <2>4, <2>5, <3>1, TrackAt
    <2>7. Track' = t
      BY <1>1, <2>3, <2>5, <2>6, TrackAt, TrackChange
    <2> QED
      BY <2>7 DEF t
  <1> QED
    BY <1>2, <1>3

(* A message whose handles cannot be received is lost.                     *)
LEMMA IncompleteTakes ==
    ASSUME WireInv, NEW i \in batch, HandleIncomplete(i), UNCHANGED queue
    PROVE  \E s \in Client : /\ Track[<<"toRouter", s>>] # <<>>
                             /\ Track' = Take(Track, <<"toRouter", s>>)
  <1>1. PICK s \in Client : s = ports[i]
    BY PortsInverse DEF HandleIncomplete, WireInv, WiringInv
  <1>2. /\ toRouter[s] # <<>> /\ toRouter' = [toRouter EXCEPT ![s] = Tail(@)]
        /\ UNCHANGED <<ports, held, toClient, queue>>
    BY <1>1 DEF HandleIncomplete, RouterReceives
  <1> DEFINE t == Take(Track, <<"toRouter", s>>)
  <1>3. t = [x \in Place |-> t[x]]
    BY TrackAt DEF Take
  <1>4. \A d \in Client :
          /\ t[<<"toRouter", d>>] = IF d = s THEN Tail(Track[<<"toRouter", s>>])
                                             ELSE Track[<<"toRouter", d>>]
          /\ t[<<"held", d>>] = Track[<<"held", d>>]
          /\ t[<<"toClient", d>>] = Track[<<"toClient", d>>]
          /\ t[<<"queue", d>>] = Track[<<"queue", d>>]
    BY TrackAt DEF Take, Place
  <1>5. toRouter'[s] = Tail(toRouter[s]) /\ \A d \in Client \ {s} : toRouter'[d] = toRouter[d]
    BY <1>2 DEF WireInv, TypeInv, TypeOK
  <1> HIDE DEF t
  <1>6. \A d \in Client : t[<<"toRouter", d>>] = Over(Sent(d), toRouter'[d])
    <2>1. Tail(Track[<<"toRouter", s>>]) = Over(Sent(s), Tail(toRouter[s]))
      BY <1>2, RouterHead
    <2> QED
      BY <1>4, <1>5, <2>1, TrackAt
  <1>7. \A d \in Client : /\ t[<<"toClient", d>>] = Over(Incoming(d), toClient'[d])
                          /\ t[<<"held", d>>] = HeldTrack(d)'
                          /\ t[<<"queue", d>>] = Over(Waiting(d), queue'[d])
    BY <1>2, <1>4, HeldSame, TrackAt
  <1>8. Track' = t
    BY <1>2, <1>3, <1>6, <1>7, TrackChange
  <1> QED
    BY <1>2, <1>8, RouterHead DEF t

(* A step of the router's loop moves one letter at most, or loses it and   *)
(* is the last.                                                            *)
LEMMA RouterTrack ==
    ASSUME WireInv, RouterStep, UNCHANGED <<channelVars, history>>
    PROVE  \/ Track' = Track
           \/ \E d \in Client : Track' = Clear(Track, <<"held", d>>) /\ ~Running'
           \/ \E s \in Client : /\ Track[<<"toRouter", s>>] # <<>>
                                /\ Track' = Take(Track, <<"toRouter", s>>) /\ ~Running'
           \/ \E s, d \in Client : Moves(<<"toRouter", s>>, <<"held", d>>)
           \/ \E d \in Client : Moves(<<"held", d>>, <<"toClient", d>>)
  <1> USE DEF channelVars
  <1>1. CASE \E some \in SUBSET Ready : EpollWait(some)
    <2>1. UNCHANGED <<ports, toRouter, held, toClient, queue>>
      BY <1>1 DEF EpollWait, portVars
    <2> QED
      BY <2>1, QuietTrack
  <1>2. CASE (\E i \in batch : HandleUnknownSource(i) \/ HandleUnknownDestination(i)) \/ ForwardFails
    <2>1. ~(\E j \in batch : HandleUnknownSource(j)) /\ ~ForwardFails
      BY DEF HandleUnknownSource, ForwardFails, RouterSendFails, WireInv, WiringInv
    <2>2. PICK j \in batch : HandleUnknownDestination(j)
      BY <1>2, <2>1
    <2>3. /\ ports[j] \in Client /\ toRouter[ports[j]] # <<>>
          /\ Head(toRouter[ports[j]]).destination \notin DOMAIN ports
      BY <2>2, PortsInverse DEF HandleUnknownDestination, RouterReceives, WireInv, WiringInv
    <2>4. Head(toRouter[ports[j]]) \in Addressed
      BY <2>3, RouterHead
    <2> QED
      BY <2>3, <2>4 DEF Addressed
  <1>3. CASE \E i \in batch : HandleMessage(i)
    BY <1>3, HandleMessageMoves
  <1>4. CASE Forward
    BY <1>4, ForwardMoves
  <1>5. CASE RouterExit \/ ForwardBadDescriptor
    <2>1. ~Running'
      BY <1>5 DEF RouterExit, ForwardBadDescriptor, Running
    <2> QED
      BY <1>5, <2>1, ExitClears
  <1>6. ASSUME NEW i \in batch, HandleIncomplete(i)
        PROVE  \E s \in Client : /\ Track[<<"toRouter", s>>] # <<>>
                                 /\ Track' = Take(Track, <<"toRouter", s>>) /\ ~Running'
    <2>1. ~Running'
      BY <1>6 DEF HandleIncomplete, Running
    <2> QED
      BY <1>6, <2>1, IncompleteTakes
  <1> QED
    BY <1>1, <1>2, <1>3, <1>4, <1>5, <1>6 DEF RouterStep, Loop, LoopGoesOn

(* A message is read and set aside, or read by loop().                     *)
LEMMA ReceiveMoves ==
    ASSUME WireInv, NEW c \in Client, Defer(c) \/ LoopReceive(c), UNCHANGED routerVars
    PROVE  /\ Moves(<<"toClient", c>>, <<"queue", c>>)
           /\ QueueTrack(c)' = Append(QueueTrack(c), Head(Track[<<"toClient", c>>]))
  <1>1. /\ toClient[c] # <<>> /\ toClient' = [toClient EXCEPT ![c] = Tail(@)]
        /\ queue' = [queue EXCEPT ![c] = Append(queue[c], NextMessage(c))]
        /\ UNCHANGED <<ports, toRouter, held>>
    BY DEF Defer, LoopReceive, ClientReceives, Queued, routerVars
  <1>2. PICK m \in Addressed : m = Head(toClient[c])
    BY <1>1, ClientHead
  <1>3. PICK p : p = NextMessage(c)
    OBVIOUS
  <1>4. p \in AddressedPending
    <2>1. p \in Pending
      BY <1>2, <1>3, NextMessageType DEF Addressed
    <2>2. p.source_port = m.destination
      BY <1>2, <1>3 DEF NextMessage
    <2> QED
      BY <2>1, <2>2 DEF Addressed, AddressedPending
  <1>5. PICK l : l = Incoming(c)[m]
    OBVIOUS
  <1>6. Waiting(c)[p] = l
    <2>1. m.payload \in RpcMessage
      BY DEF Addressed, Message
    <2>2. /\ p.source_port = m.destination /\ p.destination_object = m.payload.destination
          /\ p.message = [m.payload EXCEPT !.source = m.payload.destination,
                                           !.destination = m.payload.source]
      BY <1>2, <1>3 DEF NextMessage
    <2>3. Unpacked(p) = m.payload
      BY <2>1, <2>2 DEF Unpacked, RpcMessage
    <2> QED
      BY <1>4, <1>5, <2>2, <2>3 DEF Waiting, Incoming
  <1>7. /\ Track[<<"toClient", c>>] # <<>> /\ Head(Track[<<"toClient", c>>]) = l
        /\ Tail(Track[<<"toClient", c>>]) = Over(Incoming(c), Tail(toClient[c]))
    BY <1>1, <1>2, <1>5, ClientHead
  <1>8. Over(Waiting(c), queue'[c]) = Append(Track[<<"queue", c>>], l)
    <2>1. queue'[c] = Append(queue[c], p)
      BY <1>1, <1>3 DEF WireInv, TypeInv, TypeOK
    <2>2. queue[c] \in Seq(AddressedPending) /\ Waiting(c) \in [AddressedPending -> LetterSet]
      BY LetterTypes
    <2>3. Over(Waiting(c), Append(queue[c], p)) = Append(Over(Waiting(c), queue[c]), Waiting(c)[p])
      BY <1>4, <2>2, OverAppend
    <2> QED
      BY <1>6, <2>1, <2>3, TrackAt
  <1> DEFINE t == Put(Take(Track, <<"toClient", c>>), <<"queue", c>>, l)
  <1>9. Track' = t
    <2>1. t = [x \in Place |-> t[x]]
      BY TrackAt DEF Take, Put
    <2>2. \A d \in Client :
            /\ t[<<"toRouter", d>>] = Track[<<"toRouter", d>>]
            /\ t[<<"held", d>>] = Track[<<"held", d>>]
            /\ t[<<"toClient", d>>] = IF d = c THEN Tail(Track[<<"toClient", c>>])
                                               ELSE Track[<<"toClient", d>>]
            /\ t[<<"queue", d>>] = IF d = c THEN Append(Track[<<"queue", c>>], l)
                                            ELSE Track[<<"queue", d>>]
      BY TrackAt DEF Take, Put, Place
    <2>3. \A d \in Client \ {c} : toClient'[d] = toClient[d] /\ queue'[d] = queue[d]
      BY <1>1 DEF WireInv, TypeInv, TypeOK
    <2>4. toClient'[c] = Tail(toClient[c])
      BY <1>1 DEF WireInv, TypeInv, TypeOK
    <2> HIDE DEF t
    <2>5. \A d \in Client : t[<<"toClient", d>>] = Over(Incoming(d), toClient'[d])
      BY <1>7, <2>2, <2>3, <2>4, TrackAt
    <2>6. \A d \in Client : t[<<"queue", d>>] = Over(Waiting(d), queue'[d])
      BY <1>8, <2>2, <2>3, TrackAt
    <2>7. \A d \in Client : /\ t[<<"toRouter", d>>] = Over(Sent(d), toRouter'[d])
                            /\ t[<<"held", d>>] = HeldTrack(d)'
      BY <1>1, <2>2, HeldSame, TrackAt
    <2> QED
      BY <1>1, <2>1, <2>5, <2>6, <2>7, TrackChange
  <1>10. QueueTrack(c)' = Append(QueueTrack(c), l)
    BY <1>1, <1>8, TrackNext DEF QueueTrack
  <1> QED
    BY <1>7, <1>9, <1>10 DEF Moves

(* What IsAnswer compares, of the letter read.                             *)
LEMMA AnswerTakes ==
    ASSUME WireInv, NEW c \in Client, ClientReceives(c), UNCHANGED <<queue, routerVars>>
    PROVE  /\ Track[<<"toClient", c>>] # <<>>
           /\ Track' = Take(Track, <<"toClient", c>>)
  <1>1. /\ toClient[c] # <<>> /\ toClient' = [toClient EXCEPT ![c] = Tail(@)]
        /\ UNCHANGED <<ports, toRouter, held, queue>>
    BY DEF ClientReceives, routerVars
  <1> DEFINE t == Take(Track, <<"toClient", c>>)
  <1>2. t = [x \in Place |-> t[x]]
    BY TrackAt DEF Take
  <1>3. \A d \in Client :
          /\ t[<<"toRouter", d>>] = Track[<<"toRouter", d>>]
          /\ t[<<"held", d>>] = Track[<<"held", d>>]
          /\ t[<<"toClient", d>>] = IF d = c THEN Tail(Track[<<"toClient", c>>])
                                             ELSE Track[<<"toClient", d>>]
          /\ t[<<"queue", d>>] = Track[<<"queue", d>>]
    BY TrackAt DEF Take, Place
  <1>4. toClient'[c] = Tail(toClient[c]) /\ \A d \in Client \ {c} : toClient'[d] = toClient[d]
    BY <1>1 DEF WireInv, TypeInv, TypeOK
  <1> HIDE DEF t
  <1>5. \A d \in Client : t[<<"toClient", d>>] = Over(Incoming(d), toClient'[d])
    <2>1. Tail(Track[<<"toClient", c>>]) = Over(Incoming(c), Tail(toClient[c]))
      BY <1>1, ClientHead
    <2> QED
      BY <1>3, <1>4, <2>1, TrackAt
  <1>6. \A d \in Client : /\ t[<<"toRouter", d>>] = Over(Sent(d), toRouter'[d])
                          /\ t[<<"held", d>>] = HeldTrack(d)'
                          /\ t[<<"queue", d>>] = Over(Waiting(d), queue'[d])
    BY <1>1, <1>3, HeldSame, TrackAt
  <1>7. Track' = t
    BY <1>1, <1>2, <1>5, <1>6, TrackChange
  <1> QED
    BY <1>1, <1>7, ClientHead DEF t

LEMMA IsAnswerLetter ==
    ASSUME WireInv, NEW c \in Client, toClient[c] # <<>>, NEW o \in out[c]
    PROVE  LET l == Head(Track[<<"toClient", c>>]) IN
           /\ l \in LetterSet /\ l.to = c /\ l.payload = Head(toClient[c]).payload
           /\ IsAnswer(NextMessage(c), o) <=>
                /\ l.payload.source = o.message.destination
                /\ l.payload.opcode = o.message.opcode
                /\ PortOf[l.from] = o.port
  <1>1. PICK m \in Addressed : m = Head(toClient[c])
    BY ClientHead
  <1>2. Head(Track[<<"toClient", c>>]) = Letter(ports[m.destination], c, m.payload)
    BY <1>1, ClientHead DEF Incoming
  <1>3. /\ m.payload \in RpcMessage /\ m.destination \in DOMAIN ports
        /\ ports[m.destination] \in Client /\ PortOf[ports[m.destination]] = m.destination
    BY PortsInverse DEF WireInv, Addressed, Message
  <1>4. /\ NextMessage(c).source_port = m.destination
        /\ NextMessage(c).message.destination = m.payload.source
        /\ NextMessage(c).message.opcode = m.payload.opcode
    BY <1>1, <1>3 DEF NextMessage, RpcMessage
  <1> QED
    BY <1>1, <1>2, <1>3, <1>4 DEF IsAnswer, Letter, LetterSet

(* The handled message leaves the queue.                                   *)
LEMMA PopTakes ==
    ASSUME WireInv, NEW c \in Client, queue[c] # <<>>,
           queue' = [queue EXCEPT ![c] = Tail(queue[c])], UNCHANGED ports
    PROVE  /\ QueueTrack(c) # <<>>
           /\ \A d \in Client : Over(Waiting(d), queue'[d]) = Take(Track, <<"queue", c>>)[<<"queue", d>>]
  <1>1. queue'[c] = Tail(queue[c]) /\ \A d \in Client \ {c} : queue'[d] = queue[d]
    BY DEF WireInv, TypeInv, TypeOK
  <1>2. \A d \in Client : Take(Track, <<"queue", c>>)[<<"queue", d>>]
                            = IF d = c THEN Tail(Track[<<"queue", c>>]) ELSE Track[<<"queue", d>>]
    BY TrackAt DEF Take, Place
  <1>3. /\ Track[<<"queue", c>>] # <<>>
        /\ Tail(Track[<<"queue", c>>]) = Over(Waiting(c), Tail(queue[c]))
    BY QueueHead
  <1>4. \A d \in Client : Track[<<"queue", d>>] = Over(Waiting(d), queue[d])
    BY TrackAt
  <1>5. QueueTrack(c) # <<>>
    BY <1>3 DEF QueueTrack
  <1>6. Over(Waiting(c), queue'[c]) = Tail(Track[<<"queue", c>>])
    BY <1>1, <1>3
  <1>7. \A d \in Client \ {c} : Over(Waiting(d), queue'[d]) = Track[<<"queue", d>>]
    BY <1>1, <1>4
  <1> QED
    BY ONLY <1>2, <1>5, <1>6, <1>7

LEMMA ReturnTakes ==
    ASSUME WireInv, NEW c \in Client, HandlerReturns(c), UNCHANGED routerVars
    PROVE  QueueTrack(c) # <<>> /\ Track' = Take(Track, <<"queue", c>>)
  <1>1. /\ queue[c] # <<>> /\ queue' = [queue EXCEPT ![c] = Tail(queue[c])]
        /\ UNCHANGED <<ports, toRouter, held, toClient>>
    BY DEF HandlerReturns, Popped, portVars, routerVars, WireInv, TypeInv, PhaseInv, ThreadInv, Handling
  <1> DEFINE t == Take(Track, <<"queue", c>>)
  <1>2. t = [x \in Place |-> t[x]]
    BY TrackAt DEF Take
  <1>3. \A d \in Client :
          /\ t[<<"toRouter", d>>] = Track[<<"toRouter", d>>]
          /\ t[<<"held", d>>] = Track[<<"held", d>>]
          /\ t[<<"toClient", d>>] = Track[<<"toClient", d>>]
    BY TrackAt DEF Take, Place
  <1>4. \A d \in Client : t[<<"queue", d>>] = Over(Waiting(d), queue'[d])
    BY <1>1, PopTakes
  <1> HIDE DEF t
  <1>5. \A d \in Client : /\ t[<<"toRouter", d>>] = Over(Sent(d), toRouter'[d])
                          /\ t[<<"held", d>>] = HeldTrack(d)'
                          /\ t[<<"toClient", d>>] = Over(Incoming(d), toClient'[d])
    BY <1>1, <1>3, HeldSame, TrackAt
  <1>6. Track' = t
    BY <1>1, <1>2, <1>4, <1>5, TrackChange
  <1> QED
    BY <1>1, <1>6, PopTakes DEF t

(* What Port::send leaves: the letter with the router, and what was being  *)
(* answered out of the queue.                                              *)
Rest(c, o) ==
    IF o.message.kind = "reply" THEN Take(Track, <<"queue", c>>) ELSE Track

LEMMA SendEffect ==
    ASSUME WireInv, NEW c \in Client, SendSucceeds(c) \/ SendFails(c) \/ SendRefused(c),
           UNCHANGED routerVars
    PROVE  \E o \in out[c] :
             /\ phase[c] = "send"
             /\ out[c] = {o}
             /\ o.message \in RpcMessage /\ o.port \in DOMAIN ports
             /\ Letter(c, ports[o.port], o.message) \in LetterSet
             /\ o.message.kind = "reply" => Handling(c) /\ QueueTrack(c) # <<>>
             /\ \A d \in Client : Over(Waiting(d), queue'[d]) = Rest(c, o)[<<"queue", d>>]
             /\ SendSucceeds(c) => AfterSend(c, o.message.kind, TRUE)
             /\ SendFails(c) \/ SendRefused(c) => AfterSend(c, o.message.kind, FALSE)
  <1>1. PICK o \in out[c] : out[c] = {o} /\ phase[c] = "send"
    BY DEF SendSucceeds, SendFails, SendRefused, WireInv, TypeInv, PhaseInv, ThreadInv
  <1>2. o.message \in RpcMessage /\ o.port \in DOMAIN ports
    BY DEF WireInv, TypeInv, TypeOK, AddressInv
  <1>3. Letter(c, ports[o.port], o.message) \in LetterSet
    BY <1>2, PortsInverse DEF WireInv, Letter, LetterSet
  <1>4. o.message.kind = "reply" => Handling(c) /\ queue[c] # <<>>
    BY <1>1 DEF WireInv, TypeInv, PhaseInv, ThreadInv
  <1>5. /\ SendSucceeds(c) => AfterSend(c, o.message.kind, TRUE)
        /\ SendFails(c) \/ SendRefused(c) => AfterSend(c, o.message.kind, FALSE)
    BY <1>1 DEF SendSucceeds, SendFails, SendRefused
  <1>6. UNCHANGED ports
    BY DEF routerVars
  <1>7. \A d \in Client : Over(Waiting(d), queue'[d]) = Rest(c, o)[<<"queue", d>>]
    <2>1. CASE o.message.kind = "reply"
      <3>1. queue' = [queue EXCEPT ![c] = Tail(queue[c])]
        BY <1>5, <2>1 DEF AfterSend, Popped
      <3> QED
        BY <1>4, <1>6, <2>1, <3>1, PopTakes DEF Rest
    <2>2. CASE o.message.kind # "reply"
      BY <1>5, <2>2, TrackAt DEF AfterSend, Rest
    <2> QED
      BY <2>1, <2>2
  <1>8. o.message.kind = "reply" => QueueTrack(c) # <<>>
    BY <1>4, QueueHead DEF QueueTrack
  <1> QED
    BY <1>1, <1>2, <1>3, <1>4, <1>5, <1>7, <1>8

LEMMA SentAppend ==
    ASSUME WireInv, NEW c \in Client, NEW m \in Addressed
    PROVE  Over(Sent(c), Append(toRouter[c], m)) = Append(Over(Sent(c), toRouter[c]), Sent(c)[m])
  <1>1. toRouter[c] \in Seq(Addressed)
    BY LetterTypes
  <1>2. Sent(c) \in [Addressed -> LetterSet]
    BY LetterTypes
  <1> QED
    BY <1>1, <1>2, OverAppend

LEMMA SendPuts ==
    ASSUME WireInv, NEW c \in Client, SendSucceeds(c), UNCHANGED routerVars,
           NEW o \in out[c], out[c] = {o}
    PROVE  Track' = Put(Rest(c, o), <<"toRouter", c>>, Letter(c, ports[o.port], o.message))
  <1>1. /\ o.message \in RpcMessage /\ o.port \in DOMAIN ports
        /\ \A d \in Client : Over(Waiting(d), queue'[d]) = Rest(c, o)[<<"queue", d>>]
    BY SendEffect
  <1>2. PICK m : m = [destination |-> o.port, payload |-> o.message]
    OBVIOUS
  <1>3. /\ toRouter' = [toRouter EXCEPT ![c] = Append(@, m)]
        /\ UNCHANGED <<toClient, held, ports>>
    BY <1>2 DEF SendSucceeds, ClientSends, routerVars
  <1>4. m \in Addressed
    <2>1. m \in Message
      <3>1. o.port \in Nat
        BY <1>1 DEF WireInv, TypeInv
      <3> QED
        BY <1>1, <1>2, <3>1 DEF Message
    <2> QED
      BY <1>1, <1>2, <2>1 DEF Addressed
  <1>5. PICK l : l = Letter(c, ports[o.port], o.message)
    OBVIOUS
  <1>6. Sent(c)[m] = l
    BY <1>2, <1>4, <1>5 DEF Sent
  <1>7. Over(Sent(c), toRouter'[c]) = Append(Track[<<"toRouter", c>>], l)
    <2>1. toRouter'[c] = Append(toRouter[c], m)
      BY <1>3 DEF WireInv, TypeInv, TypeOK
    <2> QED
      BY <1>4, <1>6, <2>1, SentAppend, TrackAt
  <1> DEFINE t == Put(Rest(c, o), <<"toRouter", c>>, l)
  <1>8. t = [p \in Place |-> t[p]]
    BY TrackAt DEF Take, Put, Rest
  <1>9. \A d \in Client :
          /\ t[<<"toRouter", d>>] = IF d = c THEN Append(Track[<<"toRouter", c>>], l)
                                             ELSE Track[<<"toRouter", d>>]
          /\ t[<<"held", d>>] = Track[<<"held", d>>]
          /\ t[<<"toClient", d>>] = Track[<<"toClient", d>>]
          /\ t[<<"queue", d>>] = Rest(c, o)[<<"queue", d>>]
    BY TrackAt DEF Take, Put, Rest, Place
  <1>10. \A d \in Client \ {c} : toRouter'[d] = toRouter[d]
    BY <1>3 DEF WireInv, TypeInv, TypeOK
  <1> HIDE DEF t
  <1>11. \A d \in Client : t[<<"toRouter", d>>] = Over(Sent(d), toRouter'[d])
    BY <1>7, <1>9, <1>10, TrackAt
  <1>12. \A d \in Client : /\ t[<<"held", d>>] = HeldTrack(d)'
                           /\ t[<<"toClient", d>>] = Over(Incoming(d), toClient'[d])
                           /\ t[<<"queue", d>>] = Over(Waiting(d), queue'[d])
    BY <1>1, <1>3, <1>9, HeldSame, TrackAt
  <1>13. Track' = t
    BY <1>3, <1>8, <1>11, <1>12, TrackChange
  <1> QED
    BY <1>5, <1>13 DEF t

LEMMA SendFailsClears ==
    ASSUME WireInv, NEW c \in Client, SendFails(c), UNCHANGED routerVars,
           NEW o \in out[c], out[c] = {o}
    PROVE  Track' = Clear(Rest(c, o), <<"toClient", c>>)
  <1>1. \A d \in Client : Over(Waiting(d), queue'[d]) = Rest(c, o)[<<"queue", d>>]
    BY SendEffect
  <1>2. /\ toClient' = [toClient EXCEPT ![c] = <<>>]
        /\ UNCHANGED <<toRouter, held, ports>>
    BY DEF SendFails, ClientSendFails, routerVars
  <1> DEFINE t == Clear(Rest(c, o), <<"toClient", c>>)
  <1>3. t = [p \in Place |-> t[p]]
    BY TrackAt DEF Take, Clear, Rest
  <1>4. \A d \in Client :
          /\ t[<<"toRouter", d>>] = Track[<<"toRouter", d>>]
          /\ t[<<"held", d>>] = Track[<<"held", d>>]
          /\ t[<<"toClient", d>>] = IF d = c THEN <<>> ELSE Track[<<"toClient", d>>]
          /\ t[<<"queue", d>>] = Rest(c, o)[<<"queue", d>>]
    BY TrackAt DEF Take, Clear, Rest, Place
  <1>5. toClient'[c] = <<>> /\ \A d \in Client \ {c} : toClient'[d] = toClient[d]
    BY <1>2 DEF WireInv, TypeInv, TypeOK
  <1>6. Over(Incoming(c), <<>>) = <<>>
    <2>1. <<>> \in Seq(Addressed) /\ Incoming(c) \in [Addressed -> LetterSet] /\ Len(<<>>) = 0
      BY LetterTypes
    <2>2. Over(Incoming(c), <<>>) \in Seq(LetterSet)
      BY <2>1, OverType
    <2>3. Len(Over(Incoming(c), <<>>)) = 0
      BY <2>1, OverLength
    <2> QED
      BY <2>2, <2>3
  <1> HIDE DEF t
  <1>7. \A d \in Client : t[<<"toClient", d>>] = Over(Incoming(d), toClient'[d])
    BY <1>4, <1>5, <1>6, TrackAt
  <1>8. \A d \in Client : /\ t[<<"toRouter", d>>] = Over(Sent(d), toRouter'[d])
                          /\ t[<<"held", d>>] = HeldTrack(d)'
                          /\ t[<<"queue", d>>] = Over(Waiting(d), queue'[d])
    BY <1>1, <1>2, <1>4, HeldSame, TrackAt
  <1>9. Track' = t
    BY <1>2, <1>3, <1>7, <1>8, TrackChange
  <1> QED
    BY <1>9 DEF t

LEMMA RefusedLeaves ==
    ASSUME WireInv, NEW c \in Client, SendRefused(c), UNCHANGED routerVars,
           NEW o \in out[c], out[c] = {o}
    PROVE  Track' = Rest(c, o)
  <1>1. \A d \in Client : Over(Waiting(d), queue'[d]) = Rest(c, o)[<<"queue", d>>]
    BY SendEffect
  <1>2. UNCHANGED <<toRouter, toClient, held, ports>>
    BY DEF SendRefused, ClientSendRefused, portVars, routerVars
  <1> DEFINE t == Rest(c, o)
  <1>3. t = [p \in Place |-> t[p]]
    <2>1. Track = [p \in Place |-> Track[p]]
      BY DEF Track
    <2>2. Take(Track, <<"queue", c>>) = [p \in Place |-> Take(Track, <<"queue", c>>)[p]]
      BY TrackAt DEF Take
    <2> QED
      BY <2>1, <2>2 DEF Rest
  <1>4. \A d \in Client :
          /\ t[<<"toRouter", d>>] = Track[<<"toRouter", d>>]
          /\ t[<<"held", d>>] = Track[<<"held", d>>]
          /\ t[<<"toClient", d>>] = Track[<<"toClient", d>>]
    BY TrackAt DEF Take, Rest, Place
  <1> HIDE DEF t
  <1>5. \A d \in Client : /\ t[<<"toRouter", d>>] = Over(Sent(d), toRouter'[d])
                          /\ t[<<"held", d>>] = HeldTrack(d)'
                          /\ t[<<"toClient", d>>] = Over(Incoming(d), toClient'[d])
                          /\ t[<<"queue", d>>] = Over(Waiting(d), queue'[d])
    BY <1>1, <1>2, <1>4, HeldSame, TrackAt DEF t
  <1>6. Track' = t
    BY <1>2, <1>3, <1>5, TrackChange
  <1> QED
    BY <1>6 DEF t

(* What moves no letter.                                                   *)
LEMMA QuietSteps ==
    ASSUME NEW c \in Client, UNCHANGED routerVars,
           \/ Program(c) \/ Dispatches(c) \/ EnterLoop(c) \/ DispatchUnknown(c) \/ HandlerReplies(c)
    PROVE  Track' = Track
  <1>1. UNCHANGED <<ports, toRouter, held, toClient, queue>>
    BY DEF Program, Binds, BindsStatic, Connects, Calls, Bind, BindStatic, Connect, Call, Dispatches,
           Dispatch, EnterLoop, DispatchUnknown, HandlerReplies, routerVars, portVars
  <1> QED
    BY <1>1, QuietTrack

=============================================================================
