------------------------------ MODULE RpcSystem ------------------------------
(***************************************************************************)
(* The whole system as the tests and the examples build it: the ports are  *)
(* added before the router's thread starts, each client has one channel,   *)
(* and programs bind, connect, call and enter loop() as they like within   *)
(* the constants below.                                                    *)
(*                                                                         *)
(* The history variables feed the properties alone: made counts the calls  *)
(* of each client, handled lists the calls whose handlers it entered,      *)
(* failed holds the calls whose message could not be sent, and returned    *)
(* what each call whose send_request returned gave the program: the call   *)
(* whose results it was, or NoResult if the proxy could not parse them.    *)
(***************************************************************************)
EXTENDS Router, Channel, Functions

CONSTANTS PortOf,       \* the id add_port returned for each client
          CallEdge,     \* [from, to, opcode]: the calls the programs may make
          MaxCalls,     \* how many calls each program makes
          MaxBinds,     \* how many receivers each program binds
          MaxProxies,   \* how many proxies of one object each program connects
          StaticObject, \* <<program, id>>: the ids programs give to bind_static
          WrongId,      \* ids no object has that proxies are connected to
          LoopFirst,    \* whether a program that others call makes calls from
                        \* its handlers alone
          MayExit       \* whether the router's process may end

Opcode == RequestOp \cup OnewayOp \cup UnknownOp
NoResult == <<>>

ASSUME ClientAssumption == IsFiniteSet(Client)

ASSUME CallEdgeAssumption == CallEdge \subseteq [from : Client, to : Client, opcode : Opcode]

ASSUME IdAssumption == StaticObject \subseteq Client \X Nat /\ WrongId \subseteq Nat

ASSUME MaxCallsAssumption == MaxCalls \in [Client -> Nat] /\ MaxBinds \in [Client -> Nat]

ASSUME MaxProxiesAssumption == MaxProxies \in [Client -> Nat]

ASSUME PortOfAssumption ==
    PortOf \in [Client -> 0..Cardinality(Client) - 1] /\ IsInjective(PortOf)

VARIABLES made, handled, failed, returned

history == <<made, handled, failed, returned>>
vars == <<portVars, routerVars, channelVars, history>>

Tag == UNION {{c} \X (1..MaxCalls[c]) : c \in Client}

Init ==
    /\ PortInit
    /\ ports = [i \in Range(PortOf) |-> CHOOSE c \in Client : PortOf[c] = i]
    /\ epoll = PortOf
    /\ currentId = Cardinality(Client)
    /\ adding = {} /\ removing = {}
    /\ pc = "wait" /\ batch = {} /\ held = {}
    /\ ChannelInit
    /\ made = [c \in Client |-> 0]
    /\ handled = [c \in Client |-> <<>>]
    /\ failed = {}
    /\ returned = [t \in {} |-> t]

-----------------------------------------------------------------------------
(* The programs.                                                           *)

Binds(c) ==
    /\ Cardinality(receivers[c]) < MaxBinds[c]
    /\ Bind(c)

(* bind_static does not look at the proxies: the programs do not give it   *)
(* the id of one of their own, whose requests and replies it would share.  *)
BindsStatic(c) ==
    \E i \in {o[2] : o \in {s \in StaticObject : s[1] = c}} \ receivers[c] :
        /\ i \notin {p.id : p \in proxies[c]}
        /\ BindStatic(c, i)

(* The remote object's id was published by the channel that bound it, or   *)
(* is wrong.                                                               *)
Connects(c) ==
    \E e \in CallEdge : \E i \in receivers[e.to] \cup WrongId :
        /\ e.from = c
        /\ Cardinality({p \in proxies[c] : p.port = PortOf[e.to] /\ p.remote = i}) < MaxProxies[c]
        /\ Connect(c, PortOf[e.to], i)

Calls(c) ==
    \E e \in CallEdge, p \in proxies[c] :
        /\ e.from = c /\ p.port = PortOf[e.to]
        /\ made[c] < MaxCalls[c]
        /\ LoopFirst /\ c \in {f.to : f \in CallEdge} => inLoop[c]
        /\ Call(c, p, e.opcode, <<c, made[c] + 1>>)

Program(c) ==
    \/ (Binds(c) \/ BindsStatic(c) \/ Connects(c)) /\ UNCHANGED history
    \/ Calls(c) /\ made' = [made EXCEPT ![c] = @ + 1] /\ UNCHANGED <<handled, failed, returned>>

(* What the channel does once the program has called it.                   *)

CallFails(c) ==
    failed' = failed \cup {o.message.tag : o \in {x \in out[c] : x.message.kind # "reply"}}

Sends(c) ==
    \/ SendSucceeds(c) /\ UNCHANGED failed
    \/ SendFails(c) /\ CallFails(c)

Refused(c) == SendRefused(c) /\ CallFails(c) /\ UNCHANGED <<made, handled, returned>>

(* What the proxy makes of answer m.                                       *)
Results(o, m) ==
    {m.tag} \cup (IF o.message.opcode \in UnreadableOp THEN {NoResult} ELSE {})

Answers(c) ==
    /\ Answer(c)
    /\ \E o \in out[c] : \E r \in Results(o, Head(toClient[c]).payload) :
         returned' = [t \in DOMAIN returned \cup {o.message.tag} |->
                        IF t = o.message.tag THEN r ELSE returned[t]]

Dispatches(c) ==
    /\ Dispatch(c)
    /\ handled' = [handled EXCEPT ![c] = Append(@, Head(queue[c]).message.tag)]

Blocking(c) ==
    \/ Sends(c) /\ UNCHANGED <<made, handled, returned>>
    \/ Answers(c) /\ UNCHANGED <<made, handled, failed>>
    \/ (Defer(c) \/ LoopReceive(c) \/ ReceiveFails(c)) /\ UNCHANGED history

Looping(c) ==
    \/ Dispatches(c) /\ UNCHANGED <<made, failed, returned>>
    \/ (EnterLoop(c) \/ DispatchUnknown(c) \/ HandlerReplies(c)
          \/ HandlerReturns(c)) /\ UNCHANGED history

RouterStep ==
    \/ Loop
    \/ MayExit /\ RouterExit

Next ==
    \/ RouterStep /\ UNCHANGED <<channelVars, history>>
    \/ \E c \in Client : /\ Program(c) \/ Blocking(c) \/ Refused(c) \/ Looping(c)
                         /\ UNCHANGED routerVars

Spec == Init /\ [][Next]_vars

(* Every thread runs when it can, handlers return, and every program enters *)
(* loop() in the end.  No program has to bind, connect or call, and the    *)
(* router's process need not end.  Whether a port refuses a message is its *)
(* size's matter, not the schedule's.                                      *)
Fairness ==
    /\ WF_vars(LoopGoesOn /\ UNCHANGED <<channelVars, history>>)
    /\ \A c \in Client : WF_vars((Blocking(c) \/ Looping(c)) /\ UNCHANGED routerVars)

FairSpec == Spec /\ Fairness

-----------------------------------------------------------------------------

Kind == {"request", "oneway", "reply"}
RpcMessage == [source : Nat, destination : Nat, opcode : Opcode, kind : Kind, tag : Tag]
Message == [destination : Nat, payload : RpcMessage]
Pending == [source_port : Nat, destination_object : Nat, message : RpcMessage]

TypeOK ==
    /\ toRouter \in [Client -> Seq(Message)]
    /\ toClient \in [Client -> Seq(Message)]
    /\ held \subseteq [id : Nat, port : Client, message : Message]
    /\ receivers \in [Client -> SUBSET Nat]
    /\ allocated \in [Client -> SUBSET Nat]
    /\ nextId \in [Client -> Nat]
    /\ proxies \in [Client -> SUBSET [id : Nat, port : Nat, remote : Nat]]
    /\ queue \in [Client -> Seq(Pending)]
    /\ phase \in [Client -> Phase]
    /\ inLoop \in [Client -> BOOLEAN]
    /\ out \in [Client -> SUBSET [port : Nat, message : RpcMessage]]
    /\ made \in [Client -> Nat]
    /\ handled \in [Client -> Seq(Tag)]
    /\ failed \subseteq Tag
    /\ returned \in [DOMAIN returned -> Tag \cup {NoResult}]

(* The times call t was handled.                                           *)
Handlings(t) == UNION {{c} \X {i \in DOMAIN handled[c] : handled[c][i] = t} : c \in Client}

(* The calls, as the programs see them, are remote calls.                  *)
Abstract == INSTANCE RemoteCalls WITH
    CallId <- Tag,
    issued <- {t \in Tag : t[2] <= made[t[1]]},
    executions <- [t \in Tag |-> Cardinality(Handlings(t))],
    result <- returned

(* A call is executed at most once and never after its sending failed; one *)
(* that returns was executed and gets its own result, or none.             *)
ImplementsRemoteCalls == Abstract!CallsSpec

(* A receiver's handlers run in the order one caller made the calls,       *)
(* deferred (channel.cpp:117) or not.                                      *)
HandledInOrder ==
    \A c \in Client : \A i, j \in DOMAIN handled[c] :
        i < j /\ handled[c][i][1] = handled[c][j][1] => handled[c][i][2] < handled[c][j][2]

Tagged(q, t) == {i \in DOMAIN q : q[i].payload.tag = t}

(* Where call t's message or its reply is.  The message a handler is given *)
(* stays at the head of the queue until the reply has left.                *)
Carriers(t) ==
    (UNION {{<<"toRouter", c, i>> : i \in Tagged(toRouter[c], t)} : c \in Client})
    \cup (UNION {{<<"toClient", c, i>> : i \in Tagged(toClient[c], t)} : c \in Client})
    \cup {<<"held", h.port, 0>> : h \in {g \in held : g.message.payload.tag = t}}
    \cup (UNION {{<<"queue", c, i>> : i \in {j \in DOMAIN queue[c] : queue[c][j].message.tag = t}}
                  : c \in Client})

(* While the router runs, a caller that waits waits for something: exactly *)
(* one message, on its way to the receiver, in the receiver's hands or on  *)
(* its way back, or gone with the receiver, whose port could not receive   *)
(* it.  A method the receiver does not know or cannot parse is never       *)
(* answered (cpp.py:177-186, 260-263), nor is one whose reply its port     *)
(* refuses.                                                                *)
Answerable(opcode) == opcode \in RequestOp /\ <<opcode, "reply">> \notin Refusable

NoOrphanedWait ==
    \A c \in Client : \A o \in out[c] :
        phase[c] = "await" /\ Running /\ Answerable(o.message.opcode) =>
            LET n == Cardinality(Carriers(o.message.tag)) IN
            \/ n = 1
            \/ n = 0 /\ \E d \in Client : PortOf[d] = o.port /\ phase[d] = "dead"

Replies(c) == {m.payload : m \in Range(toRouter[c]) \cup Range(toClient[c])}
                \cup {o.message : o \in out[c]} \cup {p.message : p \in Range(queue[c])}

(* A reply, wherever it is, is the answer its caller is waiting for: none  *)
(* is late, second, or deferred to a loop() that would not know its object *)
(* (channel.cpp:65-66).  Only a caller that an exception ended waits no    *)
(* more.                                                                   *)
Awaited(m) ==
    \/ phase[m.tag[1]] = "dead"
    \/ /\ phase[m.tag[1]] = "await"
       /\ \E o \in out[m.tag[1]] : o.message.tag = m.tag /\ o.message.source = m.destination

RepliesAreAwaited ==
    \A m \in (UNION {Replies(c) : c \in Client}) \cup {h.message.payload : h \in held} :
        m.kind = "reply" => Awaited(m)

(* Proxies connected to ids that were bound never make the exception of    *)
(* channel.cpp:65-66 end a loop().                                         *)
ChannelNeverDies == \A c \in Client : phase[c] # "dead"

(* With every port added before the router starts, loop() never returns.   *)
RouterKeepsRunning == pc # "stopped"

(* A call whose message has been sent returns.                             *)
RequestsComplete == \A c \in Client : phase[c] = "await" ~> phase[c] # "await"

(* A message that send_request set aside is handled: "Blocks the event     *)
(* loop while waiting for an answer" (channel.hh:75-76), and no longer.    *)
DeferredAreHandled ==
    \A c \in Client, t \in Tag :
        (\E p \in Range(queue[c]) : p.message.tag = t) ~> t \in Range(handled[c])

(* A oneway call is handled once its sender's send_message has returned.   *)
Posted(t) ==
    /\ t[2] <= made[t[1]]
    /\ t \notin failed
    /\ \A o \in out[t[1]] : o.message.tag # t

CallsAreHandled ==
    \A t \in Tag : Posted(t) ~> \E c \in Client : t \in Range(handled[c])

=============================================================================
