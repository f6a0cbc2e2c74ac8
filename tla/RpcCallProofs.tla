---------------------------- MODULE RpcCallProofs ----------------------------
(***************************************************************************)
(* Every letter is a call that goes to an object of another program, or    *)
(* the answer its caller is waiting for: the invariant behind replies that *)
(* are awaited and a loop() that meets no unknown object.  Then what       *)
(* becomes of a call: while its caller waits its message is in one place,  *)
(* it is handled once, in the order of its caller's calls, and the system  *)
(* implements RemoteCalls.                                                 *)
(***************************************************************************)
EXTENDS RpcTypeProofs

CallsInv == WireInv /\ IdsInv /\ OutInv /\ MailInv /\ QueueInv /\ UniqueInv

(* What the steps of a program's thread do to the letters.                 *)

Others(tag) == {l \in Mail : TagOf(l) # tag}

QueuesStay == \A d \in Client : QueueTrack(d)' = QueueTrack(d)
OtherQueuesStay(c) == \A d \in Client \ {c} : QueueTrack(d)' = QueueTrack(d)

SentCall(c, o) ==
    /\ o.message.kind # "reply"
    /\ \/ SendSucceeds(c) /\ Mail' = Mail \cup {Letter(c, ports[o.port], o.message)}
       \/ SendFails(c) /\ Mail' \subseteq Mail
       \/ SendRefused(c) /\ Mail' = Mail
    /\ QueuesStay

SentReply(c, o) ==
    LET h == Head(QueueTrack(c)) IN
    /\ o.message.kind = "reply"
    /\ h \in Mail /\ IsCall(h) /\ h.payload.opcode \in RequestOp
    /\ \/ SendSucceeds(c) /\ Mail' = Others(TagOf(h)) \cup {Reply(h)}
       \/ SendFails(c) /\ Mail' \subseteq Others(TagOf(h))
       \/ /\ SendRefused(c) /\ Mail' = Others(TagOf(h))
          /\ <<h.payload.opcode, "reply">> \in Refusable
    /\ QueueTrack(c) # <<>> /\ QueueTrack(c)' = Tail(QueueTrack(c)) /\ OtherQueuesStay(c)

Received(c) ==
    \E l \in Mail : /\ IsCall(l) /\ l.to = c
                    /\ Mail' = Mail
                    /\ QueueTrack(c)' = Append(QueueTrack(c), l) /\ OtherQueuesStay(c)

Answered(c) ==
    \E o \in out[c], l \in Mail : /\ ~IsCall(l) /\ TagOf(l) = o.message.tag
                                  /\ l.payload = Head(toClient[c]).payload
                                  /\ Mail' = Others(TagOf(l))
                                  /\ QueuesStay

(* The port could not receive the message.                                 *)
Lost(c) ==
    \E l \in Mail : /\ l.to = c
                    /\ Mail' = Others(TagOf(l))
                    /\ QueuesStay

Returned(c) ==
    LET h == Head(QueueTrack(c)) IN
    /\ h \in Mail /\ h.payload.opcode \notin RequestOp
    /\ Mail' = Others(TagOf(h))
    /\ QueueTrack(c) # <<>> /\ QueueTrack(c)' = Tail(QueueTrack(c)) /\ OtherQueuesStay(c)

LEMMA MailTypes ==
    ASSUME WireInv
    PROVE  /\ Mail \subseteq LetterSet
           /\ \A c \in Client : QueueTrack(c) \in Seq(LetterSet) /\ Range(QueueTrack(c)) \subseteq Mail
           /\ \A c \in Client : QueueTrack(c) # <<>> => Head(QueueTrack(c)) \in Range(QueueTrack(c))
  <1>1. Track \in Tracks
    BY TracksType
  <1>2. \A p \in Place : Track[p] \in Seq(LetterSet) /\ Range(Track[p]) \subseteq Mail
    BY <1>1 DEF Tracks, Mail, On
  <1>3. \A p \in Place : Range(Track[p]) \subseteq LetterSet
    BY <1>2 DEF Range
  <1>4. Mail \subseteq LetterSet
    BY <1>3 DEF Mail, On
  <1>5. \A c \in Client : <<"queue", c>> \in Place
    BY DEF Place
  <1>6. \A c \in Client : QueueTrack(c) \in Seq(LetterSet) /\ Range(QueueTrack(c)) \subseteq Mail
    BY <1>2, <1>5 DEF QueueTrack
  <1>7. \A c \in Client : QueueTrack(c) # <<>> => Head(QueueTrack(c)) \in Range(QueueTrack(c))
    BY <1>6, TailRange
  <1> QED
    BY <1>4, <1>6, <1>7

LEMMA InitCalls == Init => CallsInv
  <1> SUFFICES ASSUME Init
               PROVE  CallsInv
    OBVIOUS
  <1>1. \A f : Over(f, <<>>) = <<>>
    <2> TAKE f
    <2>1. DOMAIN <<>> = {} /\ Over(f, <<>>) = [i \in {} |-> f[<<>>[i]]]
      BY DEF Over
    <2> QED
      BY <2>1
  <1>2. \A c \in Client : HeldTrack(c) = <<>>
    BY DEF Init, HeldTrack, HeldFor
  <1>3. \A c \in Client : /\ Track[<<"toRouter", c>>] = <<>> /\ Track[<<"held", c>>] = <<>>
                          /\ Track[<<"toClient", c>>] = <<>> /\ Track[<<"queue", c>>] = <<>>
    BY <1>1, <1>2, TrackAt DEF Init, PortInit, ChannelInit
  <1>4. \A p \in Place : Track[p] = <<>>
    BY <1>3, Places
  <1>5. Range(<<>>) = {} /\ DOMAIN <<>> = {}
    BY DEF Range
  <1>6. Mail = {}
    BY <1>4, <1>5 DEF Mail, On
  <1>7. QueueInv
    BY <1>3, <1>5 DEF QueueInv, QueueTrack
  <1>8. UniqueInv
    BY <1>4, <1>5 DEF UniqueInv, Unique
  <1>9. OutInv
    BY DEF OutInv, SendInv, Init, ChannelInit
  <1> QED
    BY <1>6, <1>7, <1>8, <1>9, InitWire, InitIds DEF CallsInv, MailInv

-----------------------------------------------------------------------------
(* What keeps a letter, or what a thread is sending, as it should be.      *)

(* Nothing is unbound or disconnected, and no call is unmade.              *)
Grows ==
    /\ UNCHANGED ports
    /\ \A c \in Client : /\ ProxyIds(c) \subseteq ProxyIds(c)'
                         /\ receivers[c] \subseteq receivers'[c]
                         /\ made[c] \in Nat /\ made'[c] \in Nat /\ made[c] <= made'[c]

(* A letter whose caller does not wait for it has nothing to lose.         *)
LEMMA LetterStays ==
    ASSUME NEW l \in LetterSet, LetterInv(l), Grows, NEW a \in Client, a = TagOf(l)[1],
           \/ UNCHANGED <<phase[a], out[a]>>
           \/ phase'[a] = "dead"
           \/ phase[a] \notin {"await", "dead"}
           \/ phase[a] # "dead" /\ \A o \in out[a] : o.message.tag # TagOf(l)
    PROVE  LetterInv(l)'
  <1>1. l.from \in Client /\ l.to \in Client /\ TagOf(l) \in Tag /\ l.payload \in RpcMessage
    BY DEF LetterSet, TagOf, RpcMessage
  <1>2. TagOf(l) \in IssuedTags'
    <2>1. \A t \in Tag : t[1] \in Client /\ t[2] \in Nat
      BY DEF Tag
    <2> QED
      BY <1>1, <2>1 DEF LetterInv, IssuedTags, Grows
  <1>3. ASSUME NEW k, Awaits(k), k.from = a, k.payload.tag = TagOf(l)
        PROVE  Awaits(k)'
    <2>1. CASE phase[a] = "await" /\ [port |-> PortOf[k.to], message |-> k.payload] \in out[a]
      <3>1. UNCHANGED <<phase[a], out[a]>> \/ phase'[a] = "dead"
        BY <1>3, <2>1
      <3> QED
        BY <1>3, <3>1 DEF Awaits
    <2>2. CASE phase[a] = "dead"
      BY <1>3, <2>2 DEF Awaits
    <2> QED
      BY <1>3, <2>1, <2>2 DEF Awaits
  <1>4. CASE IsCall(l)
    BY <1>1, <1>2, <1>3, <1>4 DEF LetterInv, CallLetter, Grows, Objects, TagOf
  <1>5. CASE ~IsCall(l)
    <2>1. RequestOf(l).from = l.to /\ RequestOf(l).payload.tag = TagOf(l)
      BY <1>1 DEF RequestOf, Letter, TagOf, RpcMessage
    <2> QED
      BY <1>1, <1>2, <1>3, <1>5, <2>1 DEF LetterInv, ReplyLetter
  <1> QED
    BY <1>4, <1>5

(* A thread goes on sending, or waiting for the answer to, what it was.    *)
LEMMA OutStays ==
    ASSUME WireInv, NEW d \in Client, SendInv(d), Grows, UNCHANGED <<phase[d], out[d], made[d]>>,
           (\E o \in out[d] : o.message.kind = "reply")
               => Head(QueueTrack(d))' = Head(QueueTrack(d)),
           \A l \in Mail' : (\E k \in Mail : TagOf(k) = TagOf(l)) \/ TagOf(l)[1] # d
    PROVE  SendInv(d)'
  <1> SUFFICES ASSUME NEW o \in out'[d]
               PROVE  IF o.message.kind = "reply" THEN ReplyOut(d, o)' ELSE CallOut(d, o)'
    BY DEF SendInv
  <1>1. o \in out[d]
    OBVIOUS
  <1>2. CASE o.message.kind = "reply"
    BY <1>1, <1>2 DEF SendInv, ReplyOut, Grows
  <1>3. CASE o.message.kind # "reply"
    <2>1. CallOut(d, o)
      BY <1>1, <1>3 DEF SendInv
    <2>2. phase'[d] = "send" => ~OnTrack(Track, o.message.tag)'
      BY <2>1 DEF CallOut, OnTrack, Mail
    <2>3. ports[o.port] \in Client
      BY <1>1 DEF WireInv, TypeInv, AddressInv
    <2>4. /\ o.message.destination \in receivers[ports[o.port]] \cup WrongId
          /\ ports' = ports
          /\ receivers[ports[o.port]] \subseteq receivers'[ports[o.port]]
      BY <2>1, <2>3 DEF CallOut, Objects, Grows
    <2>5. o.message.destination \in Objects(ports[o.port])'
      BY <2>4 DEF Objects
    <2>6. o.message.source \in ProxyIds(d)'
      BY <2>1 DEF CallOut, Grows
    <2> QED
      BY <1>3, <2>1, <2>2, <2>5, <2>6 DEF CallOut
  <1> QED
    BY <1>2, <1>3

-----------------------------------------------------------------------------
(* The router.                                                             *)

LEMMA RouterMail ==
    ASSUME WireInv, UniqueInv, RouterStep, UNCHANGED <<channelVars, history>>
    PROVE  /\ Mail' \subseteq Mail
           /\ Running' => Mail' = Mail
           /\ UniqueInv'
           /\ \A c \in Client : QueueTrack(c)' = QueueTrack(c)
  <1>1. Track \in Tracks /\ Unique(Track)
    BY TracksType DEF UniqueInv
  <1>2. Mail = On(Track) /\ Mail' = On(Track') /\ (UniqueInv' <=> Unique(Track'))
    BY DEF Mail, UniqueInv
  <1>3. \A c \in Client : QueueTrack(c)' = Track'[<<"queue", c>>] /\ QueueTrack(c) = Track[<<"queue", c>>]
    BY DEF QueueTrack
  <1>4. CASE Track' = Track
    BY <1>1, <1>2, <1>3, <1>4
  <1>5. ASSUME NEW p \in Place, NEW q \in Place, p[1] # "queue", q[1] # "queue", Moves(p, q)
        PROVE  /\ Mail' = Mail /\ UniqueInv'
               /\ \A c \in Client : QueueTrack(c)' = QueueTrack(c)
    <2>1. On(Track') = On(Track) /\ Unique(Track')
      BY <1>1, <1>5, MoveEffect DEF Moves
    <2>2. \A c \in Client : <<"queue", c>> \in Place /\ <<"queue", c>> # p /\ <<"queue", c>> # q
      BY <1>5 DEF Place
    <2>3. \A c \in Client : Track'[<<"queue", c>>] = Track[<<"queue", c>>]
      BY <1>1, <1>5, <2>2 DEF Moves, Put, Take, Tracks
    <2> QED
      BY <1>2, <1>3, <2>1, <2>3
  <1>6. ASSUME NEW d \in Client, Track' = Clear(Track, <<"held", d>>)
        PROVE  /\ Mail' \subseteq Mail /\ UniqueInv'
               /\ \A c \in Client : QueueTrack(c)' = QueueTrack(c)
    <2>1. <<"held", d>> \in Place
      BY DEF Place
    <2>2. On(Track') \subseteq On(Track) /\ Unique(Track')
      BY <1>1, <1>6, <2>1, ClearEffect
    <2>3. \A c \in Client : <<"queue", c>> \in Place /\ <<"queue", c>> # <<"held", d>>
      BY DEF Place
    <2>4. \A c \in Client : Track'[<<"queue", c>>] = Track[<<"queue", c>>]
      BY <1>1, <1>6, <2>3 DEF Clear, Tracks
    <2> QED
      BY <1>2, <1>3, <2>2, <2>4
  <1>7. \A s, d \in Client : /\ <<"toRouter", s>> \in Place /\ <<"held", d>> \in Place
                             /\ <<"toClient", d>> \in Place
    BY DEF Place
  <1>8. ASSUME NEW s \in Client, NEW d \in Client, Moves(<<"toRouter", s>>, <<"held", d>>)
        PROVE  /\ Mail' = Mail /\ UniqueInv'
               /\ \A c \in Client : QueueTrack(c)' = QueueTrack(c)
    BY <1>5, <1>7, <1>8
  <1>9. ASSUME NEW d \in Client, Moves(<<"held", d>>, <<"toClient", d>>)
        PROVE  /\ Mail' = Mail /\ UniqueInv'
               /\ \A c \in Client : QueueTrack(c)' = QueueTrack(c)
    BY <1>5, <1>7, <1>9
  <1>10. ASSUME NEW s \in Client, Track[<<"toRouter", s>>] # <<>>,
                Track' = Take(Track, <<"toRouter", s>>)
         PROVE  /\ Mail' \subseteq Mail /\ UniqueInv'
                /\ \A c \in Client : QueueTrack(c)' = QueueTrack(c)
    <2>1. On(Track') \subseteq On(Track) /\ Unique(Track')
      BY <1>1, <1>7, <1>10, TakeEffect
    <2>2. \A c \in Client : <<"queue", c>> \in Place /\ <<"queue", c>> # <<"toRouter", s>>
      BY DEF Place
    <2>3. \A c \in Client : Track'[<<"queue", c>>] = Track[<<"queue", c>>]
      BY <1>1, <1>10, <2>2 DEF Take, Tracks
    <2> QED
      BY <1>2, <1>3, <2>1, <2>3
  <1> QED
    BY <1>4, <1>6, <1>8, <1>9, <1>10, RouterTrack

LEMMA RouterKeepsCalls ==
    ASSUME CallsInv, RouterStep, UNCHANGED <<channelVars, history>>
    PROVE  OutInv' /\ MailInv' /\ QueueInv' /\ UniqueInv'
  <1> USE DEF CallsInv
  <1>1. /\ Mail' \subseteq Mail /\ UniqueInv'
        /\ \A c \in Client : QueueTrack(c)' = QueueTrack(c)
    BY RouterMail
  <1>2. UNCHANGED <<phase, out, made, proxies, receivers, ports>>
    BY DEF channelVars, history, RouterStep, Loop, EpollWait, HandleUnknownSource,
           HandleUnknownDestination, HandleMessage, Forward, ForwardFails, RouterExit, LoopGoesOn,
           HandleIncomplete, ForwardBadDescriptor
  <1>3. Grows
    BY <1>2 DEF Grows, ProxyIds, WireInv, TypeInv, TypeOK
  <1>4. MailInv'
    <2> SUFFICES ASSUME NEW l \in Mail'
                 PROVE  LetterInv(l)'
      BY DEF MailInv
    <2>1. l \in LetterSet /\ LetterInv(l)
      BY <1>1, MailTypes DEF MailInv
    <2>2. TagOf(l)[1] \in Client
      BY <2>1 DEF LetterSet, RpcMessage, Tag, TagOf
    <2> QED
      BY <1>2, <1>3, <2>1, <2>2, LetterStays
  <1>5. OutInv'
    <2> SUFFICES ASSUME NEW d \in Client
                 PROVE  SendInv(d)'
      BY DEF OutInv
    <2>1. Head(QueueTrack(d))' = Head(QueueTrack(d))
      BY <1>1
    <2> QED
      BY <1>1, <1>2, <1>3, <2>1, OutStays DEF OutInv
  <1> QED
    BY <1>1, <1>4, <1>5 DEF QueueInv

-----------------------------------------------------------------------------
(* A program's thread.                                                     *)

(* What the thread of c does to the objects, the threads and the counts.   *)
LEMMA ClientGrows ==
    ASSUME WireInv, NEW c \in Client, Program(c) \/ Blocking(c) \/ Refused(c) \/ Looping(c),
           UNCHANGED routerVars
    PROVE  /\ Grows
           /\ \A d \in Client \ {c} : UNCHANGED <<phase[d], out[d], made[d]>>
           /\ ~Calls(c) => UNCHANGED made
           /\ phase[c] # "dead"
  <1> USE DEF routerVars, objectVars, history
  <1>1. /\ receivers \in [Client -> SUBSET Nat] /\ made \in [Client -> Nat]
        /\ proxies \in [Client -> SUBSET [id : Nat, port : Nat, remote : Nat]]
        /\ phase \in [Client -> Phase] /\ out \in [Client -> SUBSET [port : Nat, message : RpcMessage]]
    BY DEF WireInv, TypeInv, TypeOK
  <1>2. CASE Blocking(c) \/ Refused(c) \/ Looping(c)
    <2>1. /\ UNCHANGED <<ports, made, proxies, receivers>>
          /\ \E x, y : phase' = [phase EXCEPT ![c] = x] /\ out' = [out EXCEPT ![c] = y]
          /\ phase[c] # "dead"
      <3>1. out = [out EXCEPT ![c] = out[c]] /\ phase = [phase EXCEPT ![c] = phase[c]]
        BY <1>1
      <3>2. CASE Sends(c) /\ UNCHANGED <<made, handled, returned>>
        BY <3>1, <3>2 DEF Sends, SendSucceeds, SendFails, AfterSend
      <3>6. CASE Refused(c)
        BY <3>1, <3>6 DEF Refused, SendRefused, AfterSend
      <3>3. CASE Answers(c) /\ UNCHANGED <<made, handled, failed>>
        BY <3>1, <3>3 DEF Answers, Answer
      <3>4. CASE (Defer(c) \/ LoopReceive(c) \/ ReceiveFails(c)) /\ UNCHANGED history
        BY <3>1, <3>4 DEF Defer, LoopReceive, ReceiveFails
      <3>5. CASE Looping(c)
        BY <3>1, <3>5 DEF Looping, Dispatches, Dispatch, EnterLoop, DispatchUnknown, HandlerReplies,
                          HandlerReturns
      <3> QED
        BY <1>2, <3>2, <3>3, <3>4, <3>5, <3>6 DEF Blocking
    <2> QED
      BY <1>1, <2>1 DEF Grows, ProxyIds
  <1>3. CASE Calls(c) /\ made' = [made EXCEPT ![c] = @ + 1]
    <2>1. /\ UNCHANGED <<ports, proxies, receivers>> /\ phase[c] # "dead"
          /\ \E x, y : phase' = [phase EXCEPT ![c] = x] /\ out' = [out EXCEPT ![c] = y]
      <3>1. PICK e \in CallEdge, p \in proxies[c] : Call(c, p, e.opcode, <<c, made[c] + 1>>)
        BY <1>3 DEF Calls
      <3> QED
        BY <3>1 DEF Call
    <2> QED
      BY <1>1, <1>3, <2>1 DEF Grows, ProxyIds
  <1>4. CASE (Binds(c) \/ BindsStatic(c) \/ Connects(c)) /\ UNCHANGED history
    <2>1. UNCHANGED <<ports, phase, out, made>> /\ phase[c] # "dead"
      BY <1>4 DEF Binds, Bind, BindsStatic, BindStatic, Connects, Connect
    <2>2. \A d \in Client : receivers[d] \subseteq receivers'[d] /\ proxies[d] \subseteq proxies'[d]
      BY <1>1, <1>4 DEF Binds, Bind, BindsStatic, BindStatic, Connects, Connect
    <2> QED
      BY <1>1, <2>1, <2>2 DEF Grows, ProxyIds
  <1> QED
    BY <1>2, <1>3, <1>4 DEF Program

(* What is left to show of such a step.                                    *)
LEMMA ClientKeepsCalls ==
    ASSUME CallsInv, NEW c \in Client, Program(c) \/ Blocking(c) \/ Refused(c) \/ Looping(c),
           UNCHANGED routerVars,
           \A l \in Mail' : \/ l \in Mail
                            \/ /\ LetterInv(l)'
                               /\ TagOf(l)[1] = c \/ \E k \in Mail : TagOf(k) = TagOf(l),
           \/ phase[c] # "await"
           \/ UNCHANGED <<phase[c], out[c]>>
           \/ phase'[c] = "dead"
           \/ \A l \in Mail', o \in out[c] : o.message.tag # TagOf(l),
           \A d \in Client \ {c} : QueueTrack(d)' = QueueTrack(d),
           \A l \in Range(QueueTrack(c)') : IsCall(l),
           SendInv(c)'
    PROVE  OutInv' /\ MailInv' /\ QueueInv'
  <1> USE DEF CallsInv
  <1>1. /\ Grows /\ phase[c] # "dead"
        /\ \A d \in Client \ {c} : UNCHANGED <<phase[d], out[d], made[d]>>
    BY ClientGrows
  <1>2. ASSUME NEW l \in Mail'
        PROVE  LetterInv(l)'
    <2>1. CASE l \in Mail
      <3>1. l \in LetterSet /\ LetterInv(l)
        BY <2>1, MailTypes DEF MailInv
      <3>2. TagOf(l)[1] \in Client
        BY <3>1 DEF LetterSet, RpcMessage, Tag, TagOf
      <3>3. CASE TagOf(l)[1] = c
        BY <1>1, <1>2, <3>1, <3>2, <3>3, LetterStays
      <3>4. CASE TagOf(l)[1] # c
        BY <1>1, <3>1, <3>2, <3>4, LetterStays
      <3> QED
        BY <3>3, <3>4
    <2> QED
      BY <2>1
  <1>3. ASSUME NEW d \in Client, d # c
        PROVE  SendInv(d)'
    <2>1. Head(QueueTrack(d))' = Head(QueueTrack(d))
      BY <1>3
    <2>2. \A l \in Mail' : (\E k \in Mail : TagOf(k) = TagOf(l)) \/ TagOf(l)[1] # d
      BY <1>3
    <2> QED
      BY <1>1, <1>3, <2>1, <2>2, OutStays DEF OutInv
  <1>4. OutInv'
    BY <1>3 DEF OutInv
  <1>5. QueueInv'
    <2>1. \A d \in Client : d # c => QueueTrack(d)' = QueueTrack(d)
      OBVIOUS
    <2> QED
      BY <2>1 DEF QueueInv
  <1> QED
    BY <1>2, <1>4, <1>5 DEF MailInv

(* What binds, connects or enters loop() leaves the letters.               *)
LEMMA IdleKeepsCalls ==
    ASSUME CallsInv, NEW c \in Client, UNCHANGED routerVars,
           \/ (Binds(c) \/ BindsStatic(c) \/ Connects(c)) /\ UNCHANGED history
           \/ Looping(c) /\ (Dispatches(c) \/ EnterLoop(c) \/ DispatchUnknown(c))
    PROVE  OutInv' /\ MailInv' /\ QueueInv' /\ UniqueInv'
  <1> USE DEF CallsInv
  <1>1. Program(c) \/ Looping(c)
    BY DEF Program
  <1>2. Track' = Track
    BY QuietSteps DEF Program
  <1>3. Mail' = Mail /\ (UniqueInv' <=> UniqueInv) /\ \A d \in Client : QueueTrack(d)' = QueueTrack(d)
    BY <1>2 DEF Mail, UniqueInv, QueueTrack
  <1>4. phase[c] \in {"app", "dispatch"} /\ UNCHANGED out
    BY DEF Binds, Bind, BindsStatic, BindStatic, Connects, Connect, Dispatches, Dispatch, EnterLoop,
           DispatchUnknown
  <1>5. out'[c] = {}
    BY <1>4 DEF WireInv, TypeInv, PhaseInv, ThreadInv
  <1>6. SendInv(c)'
    BY <1>5 DEF SendInv
  <1>7. \A l \in Range(QueueTrack(c)') : IsCall(l)
    BY <1>3 DEF QueueInv
  <1> QED
    BY <1>1, <1>3, <1>4, <1>6, <1>7, ClientKeepsCalls

(* A proxy is called: the call has been made nowhere before.               *)
LEMMA CallKeepsCalls ==
    ASSUME CallsInv, NEW c \in Client, UNCHANGED routerVars,
           Calls(c), made' = [made EXCEPT ![c] = @ + 1], UNCHANGED <<handled, failed, returned>>
    PROVE  OutInv' /\ MailInv' /\ QueueInv' /\ UniqueInv'
  <1> USE DEF CallsInv
  <1>1. Program(c)
    BY DEF Program
  <1>2. Track' = Track
    BY <1>1, QuietSteps
  <1>3. Mail' = Mail /\ (UniqueInv' <=> UniqueInv) /\ \A d \in Client : QueueTrack(d)' = QueueTrack(d)
    BY <1>2 DEF Mail, UniqueInv, QueueTrack
  <1>4. PICK e \in CallEdge, p \in proxies[c] :
          e.from = c /\ p.port = PortOf[e.to] /\ Call(c, p, e.opcode, <<c, made[c] + 1>>)
    BY DEF Calls
  <1>5. phase[c] = "app"
    BY <1>4 DEF Call
  <1>6. SendInv(c)'
    <2>1. ASSUME NEW o \in out'[c]
          PROVE  o.message.kind # "reply" /\ CallOut(c, o)'
      <3>1. /\ o.port = p.port /\ o.message.tag = <<c, made[c] + 1>>
            /\ o.message.kind = IF e.opcode \in OnewayOp THEN "oneway" ELSE "request"
            /\ o.message.opcode = e.opcode
            /\ o.message.source = p.id /\ o.message.destination = p.remote
            /\ UNCHANGED <<proxies, receivers>>
        BY <1>4, <2>1 DEF Call, objectVars, WireInv, TypeInv, TypeOK
      <3>2. made'[c] = made[c] + 1 /\ made[c] \in Nat
        BY DEF WireInv, TypeInv, TypeOK
      <3>3. p.remote \in Objects(ports[p.port])' /\ p.id \in ProxyIds(c)'
        <4>1. UNCHANGED ports
          BY DEF routerVars
        <4> QED
          BY <3>1, <4>1 DEF IdsInv, Objects, ProxyIds
      <3>4. ASSUME NEW l \in Mail
            PROVE  TagOf(l) # o.message.tag
        <4>1. TagOf(l) \in IssuedTags
          BY DEF MailInv, LetterInv
        <4> QED
          BY <3>1, <3>2, <4>1 DEF IssuedTags
      <3>5. ~OnTrack(Track, o.message.tag)'
        BY <1>2, <3>4 DEF OnTrack, Mail
      <3> QED
        BY <3>1, <3>2, <3>3, <3>5 DEF CallOut
    <2> QED
      BY <2>1 DEF SendInv
  <1>7. \A l \in Range(QueueTrack(c)') : IsCall(l)
    BY <1>3 DEF QueueInv
  <1> QED
    BY <1>1, <1>3, <1>5, <1>6, <1>7, ClientKeepsCalls

-----------------------------------------------------------------------------
(* Sending.                                                                *)

(* A call that leaves, or fails to.                                        *)
LEMMA SendCall ==
    ASSUME CallsInv, NEW c \in Client, Blocking(c) \/ Refused(c), Sends(c) \/ Refused(c),
           UNCHANGED routerVars,
           NEW o \in out[c], out[c] = {o}, phase[c] = "send", o.message.kind # "reply",
           o.message \in RpcMessage, o.port \in DOMAIN ports,
           Letter(c, ports[o.port], o.message) \in LetterSet,
           SendSucceeds(c) => AfterSend(c, o.message.kind, TRUE),
           SendFails(c) \/ SendRefused(c) => AfterSend(c, o.message.kind, FALSE)
    PROVE  OutInv' /\ MailInv' /\ QueueInv' /\ UniqueInv' /\ SentCall(c, o)
  <1> USE DEF CallsInv
  <1>0. PICK L \in LetterSet : L = Letter(c, ports[o.port], o.message)
    OBVIOUS
  <1>1. /\ Track \in Tracks /\ Unique(Track) /\ Mail = On(Track)
        /\ Mail' = On(Track') /\ (UniqueInv' <=> Unique(Track'))
    BY TracksType DEF Mail, UniqueInv
  <1>2. \A d \in Client : QueueTrack(d) = Track[<<"queue", d>>] /\ QueueTrack(d)' = Track'[<<"queue", d>>]
    BY DEF QueueTrack
  <1>3. CallOut(c, o)
    BY DEF OutInv, SendInv
  <1>4. Grows /\ UNCHANGED made
    BY ClientGrows DEF Blocking, Refused, history
  <1>5. Rest(c, o) = Track
    BY DEF Rest
  <1>6. \A d \in Client : /\ <<"queue", d>> \in Place /\ <<"toRouter", d>> \in Place
                          /\ <<"toClient", d>> \in Place
    BY DEF Place
  <1>7. TagOf(L) = o.message.tag /\ L.from = c /\ L.to = ports[o.port] /\ L.payload = o.message
    BY <1>0 DEF TagOf, Letter
  <1>8. phase \in [Client -> Phase] /\ out \in [Client -> SUBSET [port : Nat, message : RpcMessage]]
    BY DEF WireInv, TypeInv, TypeOK
  <1>9. CASE SendSucceeds(c)
    <2>1. Track' = Put(Track, <<"toRouter", c>>, L)
      BY <1>0, <1>5, <1>9, SendPuts
    <2>2. ~OnTrack(Track, TagOf(L))
      BY <1>3, <1>7 DEF CallOut
    <2>3. Mail' = Mail \cup {L} /\ UniqueInv'
      BY <1>1, <1>6, <2>1, <2>2, PutEffect
    <2>4. \A d \in Client : QueueTrack(d)' = QueueTrack(d)
      <3>1. \A d \in Client : <<"queue", d>> # <<"toRouter", c>>
        OBVIOUS
      <3> QED
        BY <1>1, <1>2, <1>6, <2>1, <3>1 DEF Put, Tracks
    <2>5. /\ out' = IF o.message.kind = "request" THEN out ELSE [out EXCEPT ![c] = {}]
          /\ phase'[c] = IF o.message.kind = "request" THEN "await" ELSE "app"
      BY <1>8, <1>9 DEF AfterSend, Waits
    <2>6. o.message.source \in ProxyIds(c)' /\ o.message.destination \in Objects(ports[o.port])'
      <3>1. ports[o.port] \in Client /\ UNCHANGED ports
        BY DEF WireInv, TypeInv, routerVars
      <3>2. receivers[ports[o.port]] \subseteq receivers'[ports[o.port]]
        BY <1>4, <3>1 DEF Grows
      <3> QED
        BY <1>3, <1>4, <3>1, <3>2 DEF CallOut, Grows, Objects
    <2>7. LetterInv(L)'
      <3>1. TagOf(L) \in IssuedTags'
        <4>1. o.message.tag \in Tag /\ o.message.tag = <<c, made[c]>> /\ made[c] \in Nat
          BY <1>3 DEF CallOut, RpcMessage, WireInv, TypeInv, TypeOK
        <4> QED
          BY <1>4, <1>7, <4>1 DEF IssuedTags
      <3>2. IsCall(L)
        BY <1>7 DEF IsCall
      <3>3. o.message.kind = "request" => Awaits(L)'
        <4>1. PortOf[L.to] = o.port
          BY <1>7, PortsInverse DEF WireInv
        <4>2. o = [port |-> o.port, message |-> o.message]
          BY <1>8
        <4> QED
          BY <1>7, <2>5, <4>1, <4>2 DEF Awaits
      <3>4. UNCHANGED ports
        BY DEF routerVars
      <3>5. CallLetter(L)'
        BY <1>3, <1>7, <2>6, <3>3, <3>4 DEF CallLetter, CallOut
      <3> QED
        BY <3>1, <3>2, <3>5 DEF LetterInv
    <2>8. SendInv(c)'
      <3>1. CASE o.message.kind = "request"
        <4>1. out'[c] = {o} /\ phase'[c] # "send"
          BY <2>5, <3>1
        <4>2. CallOut(c, o)'
          BY <1>3, <1>4, <2>6, <4>1 DEF CallOut
        <4> QED
          BY <3>1, <4>1, <4>2 DEF SendInv
      <3>2. CASE o.message.kind # "request"
        <4>1. out'[c] = {}
          BY <1>8, <2>5, <3>2
        <4> QED
          BY <4>1 DEF SendInv
      <3> QED
        BY <3>1, <3>2
    <2>9. TagOf(L)[1] = c
      BY <1>3, <1>7 DEF CallOut
    <2>10. \A l \in Range(QueueTrack(c)') : IsCall(l)
      BY <2>4 DEF QueueInv
    <2> QED
      BY <1>0, <1>9, <2>3, <2>4, <2>7, <2>8, <2>9, <2>10, ClientKeepsCalls DEF SentCall, QueuesStay
  <1>10. CASE SendFails(c)
    <2>1. Track' = Clear(Track, <<"toClient", c>>)
      BY <1>5, <1>10, SendFailsClears
    <2>2. Mail' \subseteq Mail /\ UniqueInv'
      BY <1>1, <1>6, <2>1, ClearEffect
    <2>3. \A d \in Client : QueueTrack(d)' = QueueTrack(d)
      <3>1. \A d \in Client : <<"queue", d>> # <<"toClient", c>>
        OBVIOUS
      <3> QED
        BY <1>1, <1>2, <1>6, <2>1, <3>1 DEF Clear, Tracks
    <2>4. out'[c] = {}
      BY <1>8, <1>10 DEF AfterSend, Waits
    <2>5. SendInv(c)'
      BY <2>4 DEF SendInv
    <2>6. \A l \in Range(QueueTrack(c)') : IsCall(l)
      BY <2>3 DEF QueueInv
    <2> QED
      BY <1>10, <2>2, <2>3, <2>5, <2>6, ClientKeepsCalls DEF SentCall, QueuesStay
  <1>11. CASE SendRefused(c)
    <2>1. Track' = Track
      BY <1>5, <1>11, RefusedLeaves
    <2>2. Mail' = Mail /\ UniqueInv' /\ \A d \in Client : QueueTrack(d)' = QueueTrack(d)
      BY <1>1, <1>2, <2>1
    <2>3. out'[c] = {}
      BY <1>8, <1>11 DEF AfterSend, Waits
    <2>4. SendInv(c)'
      BY <2>3 DEF SendInv
    <2>5. \A l \in Range(QueueTrack(c)') : IsCall(l)
      BY <2>2 DEF QueueInv
    <2> QED
      BY <1>11, <2>2, <2>4, <2>5, ClientKeepsCalls DEF SentCall, QueuesStay
  <1> QED
    BY <1>9, <1>10, <1>11 DEF Sends, Refused

(* A reply that leaves, or fails to: the request it answers is popped.     *)
LEMMA SendReply ==
    ASSUME CallsInv, NEW c \in Client, Blocking(c) \/ Refused(c), Sends(c) \/ Refused(c),
           UNCHANGED routerVars,
           NEW o \in out[c], out[c] = {o}, phase[c] = "send", o.message.kind = "reply",
           Letter(c, ports[o.port], o.message) \in LetterSet,
           QueueTrack(c) # <<>>,
           \A d \in Client : Over(Waiting(d), queue'[d]) = Rest(c, o)[<<"queue", d>>],
           SendSucceeds(c) => AfterSend(c, o.message.kind, TRUE),
           SendFails(c) \/ SendRefused(c) => AfterSend(c, o.message.kind, FALSE)
    PROVE  OutInv' /\ MailInv' /\ QueueInv' /\ UniqueInv' /\ SentReply(c, o)
  <1> USE DEF CallsInv
  <1>0. PICK L \in LetterSet : L = Letter(c, ports[o.port], o.message)
    OBVIOUS
  <1>1. /\ Track \in Tracks /\ Unique(Track) /\ Mail = On(Track)
        /\ Mail' = On(Track') /\ (UniqueInv' <=> Unique(Track'))
    BY TracksType DEF Mail, UniqueInv
  <1>2. \A d \in Client : QueueTrack(d) = Track[<<"queue", d>>] /\ QueueTrack(d)' = Track'[<<"queue", d>>]
    BY DEF QueueTrack
  <1>3. PICK h \in Mail : h = Head(QueueTrack(c))
    BY MailTypes
  <1>4. h \in LetterSet /\ h \in Range(QueueTrack(c)) /\ IsCall(h) /\ LetterInv(h)
    BY <1>3, MailTypes DEF QueueInv, MailInv
  <1>5. h.payload.opcode \in RequestOp /\ L = Reply(h)
    BY <1>0, <1>3 DEF OutInv, SendInv, ReplyOut
  <1>6. h.payload.kind = "request" /\ h.from = TagOf(h)[1] /\ Awaits(h) /\ TagOf(h) \in IssuedTags
    BY <1>4, <1>5, OpcodeAssumption DEF LetterInv, CallLetter
  <1>7. h.from \in Client /\ h.from # c /\ h.to \in Client
    BY <1>4, <1>6 DEF Awaits, LetterSet
  <1>8. /\ TagOf(L) = TagOf(h) /\ L.to = h.from /\ L.payload.opcode = h.payload.opcode
        /\ ~IsCall(L) /\ RequestOf(L) = h
    <2>1. h = [from |-> h.from, to |-> h.to, payload |-> h.payload] /\ h.payload \in RpcMessage
      BY <1>4 DEF LetterSet
    <2>2. PICK m \in RpcMessage : m = h.payload
      BY <2>1
    <2>3. /\ L.from = h.to /\ L.to = h.from
          /\ L.payload = [m EXCEPT !.source = m.destination, !.destination = m.source, !.kind = "reply"]
      BY <1>5, <2>2 DEF Reply, Letter
    <2>4. /\ L.payload.tag = m.tag /\ L.payload.opcode = m.opcode /\ L.payload.kind = "reply"
          /\ L.payload.source = m.destination /\ L.payload.destination = m.source
      BY <2>3 DEF RpcMessage
    <2>5. [L.payload EXCEPT !.source = L.payload.destination,
                            !.destination = L.payload.source, !.kind = "request"] = m
      <3> DEFINE r == [L.payload EXCEPT !.source = L.payload.destination,
                                        !.destination = L.payload.source, !.kind = "request"]
      <3>1. L.payload \in RpcMessage
        BY <2>2, <2>3 DEF RpcMessage, Kind
      <3>2. /\ r \in RpcMessage /\ r.source = m.source /\ r.destination = m.destination
            /\ r.kind = "request" /\ r.tag = m.tag /\ r.opcode = m.opcode
        BY <2>4, <3>1 DEF RpcMessage, Kind
      <3>3. m.kind = "request"
        BY <1>6, <2>2
      <3> HIDE DEF r
      <3>4. r = m
        BY <3>2, <3>3 DEF RpcMessage
      <3> QED
        BY <3>4 DEF r
    <2>6. RequestOf(L) = Letter(h.from, h.to, m)
      BY <2>3, <2>5 DEF RequestOf
    <2> QED
      BY <2>1, <2>2, <2>3, <2>4, <2>6 DEF TagOf, IsCall, Letter
  <1>9. Grows /\ UNCHANGED made /\ UNCHANGED <<phase[h.from], out[h.from]>>
    BY <1>7, ClientGrows DEF Blocking, Refused, history
  <1>10. LetterInv(L)'
    <2>1. Awaits(h)'
      BY <1>6, <1>9 DEF Awaits
    <2>2. TagOf(L) \in IssuedTags'
      BY <1>6, <1>8, <1>9 DEF IssuedTags
    <2> QED
      BY <1>5, <1>6, <1>8, <2>1, <2>2 DEF LetterInv, ReplyLetter
  <1>11. PICK rest \in Tracks : /\ rest = Take(Track, <<"queue", c>>) /\ rest = Rest(c, o)
                                /\ Unique(rest)
                                /\ On(rest) = {l \in Mail : TagOf(l) # TagOf(h)}
    <2>1. <<"queue", c>> \in Place
      BY DEF Place
    <2> QED
      BY <1>1, <1>2, <1>3, <2>1, TakeEffect DEF Rest
  <1>12. \A d \in Client : /\ <<"queue", d>> \in Place /\ <<"toRouter", d>> \in Place
                           /\ <<"toClient", d>> \in Place
    BY DEF Place
  <1>13. /\ Mail' \subseteq On(rest) \cup {L} /\ UniqueInv'
         /\ \/ SendSucceeds(c) /\ Mail' = On(rest) \cup {L}
            \/ SendFails(c) /\ Mail' \subseteq On(rest)
            \/ /\ SendRefused(c) /\ Mail' = On(rest)
               /\ <<h.payload.opcode, "reply">> \in Refusable
    <2>1. CASE SendSucceeds(c)
      <3>1. Track' = Put(rest, <<"toRouter", c>>, L)
        BY <1>0, <1>11, <2>1, SendPuts
      <3>2. ~OnTrack(rest, TagOf(L))
        BY <1>8, <1>11 DEF OnTrack
      <3> QED
        BY <1>1, <1>11, <1>12, <2>1, <3>1, <3>2, PutEffect
    <2>2. CASE SendFails(c)
      <3>1. Track' = Clear(rest, <<"toClient", c>>)
        BY <1>11, <2>2, SendFailsClears
      <3> QED
        BY <1>1, <1>11, <1>12, <2>2, <3>1, ClearEffect
    <2>3. CASE SendRefused(c)
      <3>1. Track' = rest
        BY <1>11, <2>3, RefusedLeaves
      <3>2. <<o.message.opcode, o.message.kind>> \in Refusable
        BY <2>3 DEF SendRefused
      <3>3. L.payload = o.message
        BY <1>0 DEF Letter
      <3> QED
        BY <1>1, <1>8, <1>11, <2>3, <3>1, <3>2, <3>3
    <2> QED
      BY <2>1, <2>2, <2>3 DEF Sends, Refused
  <1>14. \A d \in Client : QueueTrack(d)' = rest[<<"queue", d>>]
    <2>1. UNCHANGED ports
      BY DEF routerVars
    <2> QED
      BY <1>2, <1>11, <2>1, TrackNext
  <1>15. \A d \in Client \ {c} : QueueTrack(d)' = QueueTrack(d)
    <2> TAKE d \in Client \ {c}
    <2>1. <<"queue", d>> # <<"queue", c>> /\ <<"queue", d>> \in Place
      BY <1>12
    <2>2. rest[<<"queue", d>>] = Track[<<"queue", d>>]
      BY <1>1, <1>11, <2>1 DEF Take, Tracks
    <2> QED
      BY <1>2, <1>14, <2>2
  <1>16. (\A l \in Range(QueueTrack(c)') : IsCall(l)) /\ QueueTrack(c)' = Tail(QueueTrack(c))
    <2>1. QueueTrack(c)' = Tail(QueueTrack(c))
      BY <1>1, <1>2, <1>11, <1>12, <1>14 DEF Take, Tracks
    <2>2. QueueTrack(c) \in Seq(LetterSet)
      BY MailTypes
    <2> QED
      BY <2>1, <2>2, TailRange DEF QueueInv
  <1>17. SendInv(c)'
    <2>1. out'[c] = {}
      BY DEF Sends, Refused, AfterSend, Waits, WireInv, TypeInv, TypeOK
    <2> QED
      BY <2>1 DEF SendInv
  <1>18. \A l \in Mail' : \/ l \in Mail
                          \/ LetterInv(l)' /\ \E k \in Mail : TagOf(k) = TagOf(l)
    BY <1>8, <1>10, <1>11, <1>13
  <1>19. SentReply(c, o)
    BY <1>3, <1>4, <1>5, <1>11, <1>13, <1>15, <1>16 DEF SentReply, Others, OtherQueuesStay
  <1> QED
    BY <1>13, <1>15, <1>16, <1>17, <1>18, <1>19, ClientKeepsCalls

LEMMA SendKeepsCalls ==
    ASSUME CallsInv, NEW c \in Client, Sends(c) \/ Refused(c),
           UNCHANGED <<made, handled, returned>>, UNCHANGED routerVars
    PROVE  /\ OutInv' /\ MailInv' /\ QueueInv' /\ UniqueInv'
           /\ \E o \in out[c] : out[c] = {o} /\ (SentCall(c, o) \/ SentReply(c, o))
  <1>1. Blocking(c) \/ Refused(c)
    BY DEF Blocking
  <1>2. PICK o \in out[c] :
             /\ phase[c] = "send" /\ out[c] = {o}
             /\ o.message \in RpcMessage /\ o.port \in DOMAIN ports
             /\ Letter(c, ports[o.port], o.message) \in LetterSet
             /\ o.message.kind = "reply" => QueueTrack(c) # <<>>
             /\ \A d \in Client : Over(Waiting(d), queue'[d]) = Rest(c, o)[<<"queue", d>>]
             /\ SendSucceeds(c) => AfterSend(c, o.message.kind, TRUE)
             /\ SendFails(c) \/ SendRefused(c) => AfterSend(c, o.message.kind, FALSE)
    BY SendEffect DEF Sends, Refused, CallsInv
  <1> QED
    BY <1>1, <1>2, SendCall, SendReply

-----------------------------------------------------------------------------
(* Receiving.                                                              *)

(* The letter a program reads next.                                        *)
LEMMA NextLetter ==
    ASSUME CallsInv, NEW c \in Client, toClient[c] # <<>>
    PROVE  LET l == Head(Track[<<"toClient", c>>]) IN
           /\ l \in Mail /\ l \in LetterSet /\ LetterInv(l) /\ l.to = c
           /\ l.payload = Head(toClient[c]).payload
           /\ \A o \in out[c] : IsAnswer(NextMessage(c), o) <=>
                /\ l.payload.source = o.message.destination
                /\ l.payload.opcode = o.message.opcode
                /\ PortOf[l.from] = o.port
  <1> USE DEF CallsInv
  <1>1. <<"toClient", c>> \in Place /\ Track[<<"toClient", c>>] # <<>> /\ Track \in Tracks
    BY ClientHead, TracksType DEF Place
  <1>2. PICK l : l = Head(Track[<<"toClient", c>>])
    OBVIOUS
  <1>3. l \in Mail /\ l \in LetterSet
    BY <1>1, <1>2, TakeEffect DEF Mail, UniqueInv
  <1>4. LetterInv(l)
    BY <1>3 DEF MailInv
  <1>5. l.to = c /\ l.payload = Head(toClient[c]).payload
    <2>1. PICK m \in Addressed : l = Incoming(c)[m] /\ m = Head(toClient[c])
      BY <1>2, ClientHead
    <2> QED
      BY <2>1 DEF Incoming, Letter
  <1>6. \A o \in out[c] : IsAnswer(NextMessage(c), o) <=>
                /\ l.payload.source = o.message.destination
                /\ l.payload.opcode = o.message.opcode
                /\ PortOf[l.from] = o.port
    BY <1>2, IsAnswerLetter
  <1> QED
    BY <1>2, <1>3, <1>4, <1>5, <1>6

(* A reply that reaches a program is the answer it waits for.              *)
LEMMA ReplyIsAnswer ==
    ASSUME CallsInv, NEW c \in Client, toClient[c] # <<>>,
           phase[c] # "dead", ~IsCall(Head(Track[<<"toClient", c>>]))
    PROVE  /\ phase[c] = "await"
           /\ \A o \in out[c] : /\ IsAnswer(NextMessage(c), o)
                                /\ TagOf(Head(Track[<<"toClient", c>>])) = o.message.tag
  <1>1. PICK l \in LetterSet :
           /\ l = Head(Track[<<"toClient", c>>]) /\ LetterInv(l) /\ l.to = c
           /\ \A o \in out[c] : IsAnswer(NextMessage(c), o) <=>
                /\ l.payload.source = o.message.destination
                /\ l.payload.opcode = o.message.opcode
                /\ PortOf[l.from] = o.port
    BY NextLetter
  <1>2. PICK m \in RpcMessage : m = l.payload
    BY DEF LetterSet
  <1>3. PICK k : k = [m EXCEPT !.source = m.destination, !.destination = m.source, !.kind = "request"]
    OBVIOUS
  <1>4. phase[c] = "await" /\ out[c] = {[port |-> PortOf[l.from], message |-> k]}
    BY <1>1, <1>2, <1>3 DEF LetterInv, ReplyLetter, Awaits, RequestOf, Letter
  <1>5. k.destination = m.source /\ k.opcode = m.opcode /\ k.tag = m.tag
    BY <1>3 DEF RpcMessage
  <1>6. \A o \in out[c] : o.port = PortOf[l.from] /\ o.message = k
    BY <1>4
  <1> QED
    BY <1>1, <1>2, <1>4, <1>5, <1>6 DEF TagOf

(* What IsAnswer accepts is the reply to the call that waits: a call from  *)
(* the same port comes from a proxy, whose id is no receiver's.            *)
LEMMA AnswerIsReply ==
    ASSUME CallsInv, WrongIdsAreFree, NEW c \in Client, toClient[c] # <<>>,
           phase[c] = "await", NEW o \in out[c], IsAnswer(NextMessage(c), o)
    PROVE  ~IsCall(Head(Track[<<"toClient", c>>]))
  <1>1. PICK l \in LetterSet :
           /\ l = Head(Track[<<"toClient", c>>]) /\ LetterInv(l)
           /\ l.payload.source = o.message.destination
           /\ PortOf[l.from] = o.port
    BY NextLetter
  <1> SUFFICES ASSUME IsCall(l)
               PROVE  FALSE
    BY <1>1
  <1>2. l.from \in Client /\ l.payload.source \in ProxyIds(l.from)
    BY <1>1 DEF LetterInv, CallLetter, LetterSet
  <1>3. CallOut(c, o)
    BY DEF CallsInv, OutInv, SendInv, WireInv, TypeInv, PhaseInv, ThreadInv
  <1>4. ports[o.port] = l.from
    BY <1>1, <1>2, PortsInverse DEF CallsInv, WireInv
  <1>5. l.payload.source \in receivers[l.from] \cup WrongId
    BY <1>1, <1>3, <1>4 DEF CallOut, Objects
  <1> QED
    BY <1>2, <1>5 DEF CallsInv, IdsInv, WrongIdsAreFree

(* A message is set aside, or read by loop().                              *)
LEMMA ReceiveKeepsCalls ==
    ASSUME CallsInv, NEW c \in Client, Defer(c) \/ LoopReceive(c), UNCHANGED history,
           UNCHANGED routerVars
    PROVE  OutInv' /\ MailInv' /\ QueueInv' /\ UniqueInv' /\ Received(c)
  <1> USE DEF CallsInv
  <1>1. Blocking(c)
    BY DEF Blocking
  <1>2. PICK l : l = Head(Track[<<"toClient", c>>])
    OBVIOUS
  <1>3. /\ Track[<<"toClient", c>>] # <<>>
        /\ Track' = Put(Take(Track, <<"toClient", c>>), <<"queue", c>>, l)
        /\ QueueTrack(c)' = Append(QueueTrack(c), l)
    BY <1>2, ReceiveMoves DEF Moves
  <1>4. /\ Track \in Tracks /\ Unique(Track) /\ Mail = On(Track)
        /\ Mail' = On(Track') /\ (UniqueInv' <=> Unique(Track'))
    BY TracksType DEF Mail, UniqueInv
  <1>5. \A d \in Client : <<"queue", d>> \in Place /\ <<"toClient", d>> \in Place
    BY DEF Place
  <1>6. Mail' = Mail /\ UniqueInv'
    BY <1>2, <1>3, <1>4, <1>5, MoveEffect
  <1>7. \A d \in Client \ {c} : QueueTrack(d)' = QueueTrack(d)
    <2> TAKE d \in Client \ {c}
    <2>1. /\ <<"queue", d>> # <<"queue", c>> /\ <<"queue", d>> # <<"toClient", c>>
          /\ <<"queue", d>> \in Place
      BY <1>5
    <2> QED
      BY <1>3, <1>4, <2>1 DEF Put, Take, Tracks, QueueTrack
  <1>8. toClient[c] # <<>>
    BY DEF Defer, LoopReceive, ClientReceives
  <1>9. IsCall(l)
    <2>1. CASE Defer(c)
      <3>1. \E o \in out[c] : ~IsAnswer(NextMessage(c), o)
        BY <2>1 DEF Defer, WireInv, TypeInv, PhaseInv, ThreadInv
      <3> QED
        BY <1>2, <1>8, <2>1, <3>1, ReplyIsAnswer DEF Defer
    <2>2. CASE LoopReceive(c)
      BY <1>2, <1>8, <2>2, ReplyIsAnswer DEF LoopReceive
    <2> QED
      BY <2>1, <2>2
  <1>10. \A k \in Range(QueueTrack(c)') : IsCall(k)
    <2>1. QueueTrack(c) \in Seq(LetterSet) /\ l \in LetterSet
      BY <1>2, <1>8, NextLetter, MailTypes
    <2>2. Range(Append(QueueTrack(c), l)) = Range(QueueTrack(c)) \cup {l}
      BY <2>1, AppendRange
    <2> QED
      BY <1>3, <1>9, <2>2 DEF QueueInv
  <1>11. SendInv(c)'
    <2>1. CASE Defer(c)
      <3>1. UNCHANGED <<phase[c], out[c], made[c]>> /\ \A o \in out[c] : o.message.kind # "reply"
        BY <2>1 DEF Defer, history, WireInv, TypeInv, PhaseInv, ThreadInv
      <3>2. \A k \in Mail' : \E j \in Mail : TagOf(j) = TagOf(k)
        BY <1>6
      <3>3. Grows
        BY <1>1, ClientGrows
      <3> QED
        BY <3>1, <3>2, <3>3, OutStays DEF OutInv
    <2>2. CASE LoopReceive(c)
      <3>1. out'[c] = {}
        BY <2>2 DEF LoopReceive, WireInv, TypeInv, PhaseInv, ThreadInv
      <3> QED
        BY <3>1 DEF SendInv
    <2> QED
      BY <2>1, <2>2
  <1>12. phase[c] # "await" \/ UNCHANGED <<phase[c], out[c]>>
    BY DEF Defer, LoopReceive
  <1>13. Received(c)
    <2>1. l \in Mail /\ l.to = c
      BY <1>2, <1>8, NextLetter
    <2> QED
      BY <1>3, <1>6, <1>7, <1>9, <2>1 DEF Received, OtherQueuesStay
  <1> QED
    BY <1>1, <1>6, <1>7, <1>10, <1>11, <1>12, <1>13, ClientKeepsCalls

(* A message is lost, and the exception ends the program.                  *)
LEMMA LossKeepsCalls ==
    ASSUME CallsInv, NEW c \in Client, ReceiveFails(c), UNCHANGED history, UNCHANGED routerVars
    PROVE  /\ OutInv' /\ MailInv' /\ QueueInv' /\ UniqueInv' /\ Lost(c)
           /\ out'[c] = {} /\ phase'[c] = "dead"
  <1> USE DEF CallsInv
  <1>1. Blocking(c)
    BY DEF Blocking
  <1>2. toClient[c] # <<>> /\ ClientReceives(c) /\ UNCHANGED queue
    BY DEF ReceiveFails, ClientReceives
  <1>3. PICK l : l = Head(Track[<<"toClient", c>>])
    OBVIOUS
  <1>4. Track[<<"toClient", c>>] # <<>> /\ Track' = Take(Track, <<"toClient", c>>)
    BY <1>2, AnswerTakes
  <1>5. /\ Track \in Tracks /\ Unique(Track) /\ Mail = On(Track)
        /\ Mail' = On(Track') /\ (UniqueInv' <=> Unique(Track'))
    BY TracksType DEF Mail, UniqueInv
  <1>6. \A d \in Client : <<"queue", d>> \in Place /\ <<"toClient", d>> \in Place
    BY DEF Place
  <1>7. UniqueInv' /\ Mail' = {k \in Mail : TagOf(k) # TagOf(l)}
    BY <1>3, <1>4, <1>5, <1>6, TakeEffect
  <1>8. \A d \in Client : QueueTrack(d)' = QueueTrack(d)
    <2> TAKE d \in Client
    <2>1. <<"queue", d>> # <<"toClient", c>> /\ <<"queue", d>> \in Place
      BY <1>6
    <2> QED
      BY <1>4, <1>5, <2>1 DEF Take, Tracks, QueueTrack
  <1>9. out'[c] = {} /\ phase'[c] = "dead"
    BY DEF ReceiveFails, WireInv, TypeInv, TypeOK
  <1>10. SendInv(c)'
    BY <1>9 DEF SendInv
  <1>11. \A k \in Range(QueueTrack(c)') : IsCall(k)
    BY <1>8 DEF QueueInv
  <1>12. Lost(c)
    <2>1. l \in Mail /\ l.to = c
      BY <1>2, <1>3, NextLetter
    <2> QED
      BY <1>7, <1>8, <2>1 DEF Lost, Others, QueuesStay
  <1> QED
    BY <1>1, <1>7, <1>8, <1>9, <1>10, <1>11, <1>12, ClientKeepsCalls

(* The answer is taken: no other letter has its tag.                       *)
LEMMA AnswerKeepsCalls ==
    ASSUME CallsInv, WrongIdsAreFree, NEW c \in Client, Answers(c), UNCHANGED <<made, handled, failed>>,
           UNCHANGED routerVars
    PROVE  OutInv' /\ MailInv' /\ QueueInv' /\ UniqueInv' /\ Answered(c)
  <1> USE DEF CallsInv
  <1>1. Blocking(c) /\ Answer(c)
    BY DEF Blocking, Answers
  <1>2. /\ toClient[c] # <<>> /\ phase[c] = "await" /\ ClientReceives(c) /\ UNCHANGED queue
        /\ \A o \in out[c] : IsAnswer(NextMessage(c), o)
    BY <1>1 DEF Answer, ClientReceives
  <1>3. PICK l : l = Head(Track[<<"toClient", c>>])
    OBVIOUS
  <1>4. \A o \in out[c] : o.message.tag = TagOf(l)
    BY <1>2, <1>3, AnswerIsReply, ReplyIsAnswer
  <1>5. Track[<<"toClient", c>>] # <<>> /\ Track' = Take(Track, <<"toClient", c>>)
    BY <1>2, AnswerTakes
  <1>6. /\ Track \in Tracks /\ Unique(Track) /\ Mail = On(Track)
        /\ Mail' = On(Track') /\ (UniqueInv' <=> Unique(Track'))
    BY TracksType DEF Mail, UniqueInv
  <1>7. \A d \in Client : <<"queue", d>> \in Place /\ <<"toClient", d>> \in Place
    BY DEF Place
  <1>8. UniqueInv' /\ Mail' = {k \in Mail : TagOf(k) # TagOf(l)}
    BY <1>3, <1>5, <1>6, <1>7, TakeEffect
  <1>9. \A d \in Client : QueueTrack(d)' = QueueTrack(d)
    <2> TAKE d \in Client
    <2>1. <<"queue", d>> # <<"toClient", c>> /\ <<"queue", d>> \in Place
      BY <1>7
    <2> QED
      BY <1>5, <1>6, <2>1 DEF Take, Tracks, QueueTrack
  <1>10. SendInv(c)'
    <2>1. out'[c] = {}
      BY <1>1 DEF Answer, WireInv, TypeInv, TypeOK
    <2> QED
      BY <2>1 DEF SendInv
  <1>11. \A k \in Range(QueueTrack(c)') : IsCall(k)
    BY <1>9 DEF QueueInv
  <1>12. Answered(c)
    <2>1. l \in Mail /\ l.payload = Head(toClient[c]).payload
      BY <1>2, <1>3, NextLetter
    <2>2. PICK o \in out[c] : out[c] = {o}
      BY <1>2 DEF WireInv, TypeInv, PhaseInv, ThreadInv
    <2>3. ~IsCall(l)
      BY <1>2, <1>3, <2>2, AnswerIsReply
    <2> QED
      BY <1>4, <1>8, <1>9, <2>1, <2>2, <2>3 DEF Answered, Others, QueuesStay
  <1> QED
    BY <1>1, <1>4, <1>8, <1>9, <1>10, <1>11, <1>12, ClientKeepsCalls

-----------------------------------------------------------------------------
(* loop().                                                                 *)

(* A handler replies to the request it was given.                          *)
LEMMA ReplyKeepsCalls ==
    ASSUME CallsInv, NEW c \in Client, HandlerReplies(c), UNCHANGED history, UNCHANGED routerVars
    PROVE  OutInv' /\ MailInv' /\ QueueInv' /\ UniqueInv'
  <1> USE DEF CallsInv
  <1>1. Looping(c)
    BY DEF Looping
  <1>2. Track' = Track
    BY QuietSteps
  <1>3. Mail' = Mail /\ (UniqueInv' <=> UniqueInv) /\ \A d \in Client : QueueTrack(d)' = QueueTrack(d)
    BY <1>2 DEF Mail, UniqueInv, QueueTrack
  <1>4. queue[c] # <<>> /\ phase[c] = "app"
    BY DEF HandlerReplies, WireInv, TypeInv, PhaseInv, ThreadInv, Handling
  <1>5. PICK p \in AddressedPending : p = Head(queue[c])
    BY <1>4, QueueHead
  <1>6. PICK m \in RpcMessage : m = p.message
    BY DEF AddressedPending, Pending
  <1>7. Head(QueueTrack(c)) = Letter(ports[p.source_port], c, [m EXCEPT !.source = m.destination,
                                                                        !.destination = p.destination_object])
    BY <1>4, <1>5, <1>6, QueueHead DEF QueueTrack, Waiting, Unpacked
  <1>8. out'[c] = {[port |-> p.source_port,
                    message |-> [m EXCEPT !.source = p.destination_object, !.kind = "reply"]]}
        /\ m.opcode \in RequestOp
    BY <1>5, <1>6 DEF HandlerReplies, HasReply, WireInv, TypeInv, TypeOK
  <1>9. SendInv(c)'
    <2> SUFFICES ASSUME NEW o \in out'[c]
                 PROVE  o.message.kind = "reply" /\ ReplyOut(c, o)'
      BY DEF SendInv
    <2>1. o.port = p.source_port /\ o.message = [m EXCEPT !.source = p.destination_object, !.kind = "reply"]
      BY <1>8
    <2>2. PICK h : h = Head(QueueTrack(c))
      OBVIOUS
    <2>3. PICK u : u = [m EXCEPT !.source = m.destination, !.destination = p.destination_object]
      OBVIOUS
    <2>4. u \in RpcMessage /\ u.opcode = m.opcode
      BY <2>3 DEF AddressedPending, Pending, RpcMessage
    <2>5. [u EXCEPT !.source = u.destination, !.destination = u.source, !.kind = "reply"] = o.message
      BY <2>1, <2>3 DEF RpcMessage
    <2>6. h.from = ports[p.source_port] /\ h.to = c /\ h.payload = u
      BY <1>7, <2>2, <2>3 DEF Letter
    <2>7. Letter(c, ports[o.port], o.message) = Reply(h)
      BY <2>1, <2>5, <2>6 DEF Reply
    <2>8. Head(QueueTrack(c))' = h /\ UNCHANGED ports
      BY <1>3, <2>2 DEF routerVars
    <2> QED
      BY <1>8, <2>1, <2>4, <2>6, <2>7, <2>8 DEF ReplyOut, Reply, RpcMessage
  <1>10. \A l \in Range(QueueTrack(c)') : IsCall(l)
    BY <1>3 DEF QueueInv
  <1> QED
    BY <1>1, <1>3, <1>4, <1>9, <1>10, ClientKeepsCalls

(* A handler of a oneway call is done.                                     *)
LEMMA ReturnKeepsCalls ==
    ASSUME CallsInv, NEW c \in Client, HandlerReturns(c), UNCHANGED history, UNCHANGED routerVars
    PROVE  OutInv' /\ MailInv' /\ QueueInv' /\ UniqueInv' /\ Returned(c)
  <1> USE DEF CallsInv
  <1>1. Looping(c)
    BY DEF Looping
  <1>2. QueueTrack(c) # <<>> /\ Track' = Take(Track, <<"queue", c>>)
    BY ReturnTakes
  <1>3. /\ Track \in Tracks /\ Unique(Track) /\ Mail = On(Track)
        /\ Mail' = On(Track') /\ (UniqueInv' <=> Unique(Track'))
    BY TracksType DEF Mail, UniqueInv
  <1>4. \A d \in Client : <<"queue", d>> \in Place
    BY DEF Place
  <1>5. UniqueInv' /\ Mail' = Others(TagOf(Head(QueueTrack(c)))) /\ Head(QueueTrack(c)) \in Mail
    BY <1>2, <1>3, <1>4, TakeEffect DEF QueueTrack, Others
  <1>6. \A d \in Client \ {c} : QueueTrack(d)' = QueueTrack(d)
    <2> TAKE d \in Client \ {c}
    <2>1. <<"queue", d>> # <<"queue", c>> /\ <<"queue", d>> \in Place
      BY <1>4
    <2> QED
      BY <1>2, <1>3, <2>1 DEF Take, Tracks, QueueTrack
  <1>7. (\A l \in Range(QueueTrack(c)') : IsCall(l)) /\ QueueTrack(c)' = Tail(QueueTrack(c))
    <2>1. QueueTrack(c)' = Tail(QueueTrack(c))
      BY <1>2, <1>3, <1>4 DEF Take, Tracks, QueueTrack
    <2>2. QueueTrack(c) \in Seq(LetterSet)
      BY MailTypes
    <2> QED
      BY <1>2, <2>1, <2>2, TailRange DEF QueueInv
  <1>8. phase[c] = "app" /\ UNCHANGED out
    BY DEF HandlerReturns
  <1>9. SendInv(c)'
    <2>1. out'[c] = {}
      BY <1>8 DEF WireInv, TypeInv, PhaseInv, ThreadInv
    <2> QED
      BY <2>1 DEF SendInv
  <1>10. Head(QueueTrack(c)).payload.opcode \notin RequestOp
    <2>1. queue[c] # <<>>
      BY <1>8 DEF HandlerReturns, WireInv, TypeInv, PhaseInv, ThreadInv, Handling
    <2>2. PICK p \in AddressedPending : p = Head(queue[c]) /\ Head(QueueTrack(c)) = Waiting(c)[p]
      BY <2>1, QueueHead DEF QueueTrack
    <2>3. p.message.opcode \notin RequestOp /\ p.message \in RpcMessage
      BY <2>2 DEF HandlerReturns, HasReply, AddressedPending, Pending
    <2>4. Unpacked(p).opcode = p.message.opcode
      BY <2>3 DEF Unpacked, RpcMessage
    <2> QED
      BY <2>2, <2>3, <2>4 DEF Waiting, Letter
  <1>11. Returned(c)
    BY <1>2, <1>5, <1>6, <1>7, <1>10 DEF Returned, OtherQueuesStay
  <1> QED
    BY <1>1, <1>5, <1>6, <1>7, <1>8, <1>9, <1>11, ClientKeepsCalls DEF Others

-----------------------------------------------------------------------------

LEMMA CallsInductive == CallsInv /\ WrongIdsAreFree /\ [Next]_vars => CallsInv'
  <1> SUFFICES ASSUME CallsInv, WrongIdsAreFree, [Next]_vars
               PROVE  CallsInv'
    OBVIOUS
  <1>1. WireInv' /\ IdsInv'
    BY WireInductive, IdsInductive DEF CallsInv
  <1>2. ASSUME OutInv' /\ MailInv' /\ QueueInv' /\ UniqueInv'
        PROVE  CallsInv'
    BY <1>1, <1>2 DEF CallsInv
  <1>3. CASE RouterStep /\ UNCHANGED <<channelVars, history>>
    BY <1>2, <1>3, RouterKeepsCalls
  <1>4. ASSUME NEW c \in Client, Program(c), UNCHANGED routerVars
        PROVE  CallsInv'
    BY <1>2, <1>4, IdleKeepsCalls, CallKeepsCalls DEF Program
  <1>5. ASSUME NEW c \in Client, Blocking(c) \/ Refused(c), UNCHANGED routerVars
        PROVE  CallsInv'
    <2>1. CASE (Sends(c) \/ Refused(c)) /\ UNCHANGED <<made, handled, returned>>
      BY <1>2, <1>5, <2>1, SendKeepsCalls
    <2>2. CASE Answers(c) /\ UNCHANGED <<made, handled, failed>>
      BY <1>2, <1>5, <2>2, AnswerKeepsCalls
    <2>3. CASE (Defer(c) \/ LoopReceive(c) \/ ReceiveFails(c)) /\ UNCHANGED history
      BY <1>2, <1>5, <2>3, ReceiveKeepsCalls, LossKeepsCalls
    <2> QED
      BY <1>5, <2>1, <2>2, <2>3 DEF Blocking, Refused
  <1>6. ASSUME NEW c \in Client, Looping(c), UNCHANGED routerVars
        PROVE  CallsInv'
    <2>1. CASE Dispatches(c) \/ EnterLoop(c) \/ DispatchUnknown(c)
      BY <1>2, <1>6, <2>1, IdleKeepsCalls
    <2>2. CASE (HandlerReplies(c) \/ HandlerReturns(c)) /\ UNCHANGED history
      BY <1>2, <1>6, <2>2, ReplyKeepsCalls, ReturnKeepsCalls
    <2> QED
      BY <1>6, <2>1, <2>2 DEF Looping
  <1>7. CASE UNCHANGED vars
    <2>1. Track' = Track
      BY <1>7, QuietTrack DEF vars, portVars, routerVars, channelVars
    <2>2. UNCHANGED <<phase, out, made, proxies, receivers, ports>>
      BY <1>7 DEF vars, routerVars, channelVars, history
    <2>3. OutInv' <=> OutInv
      BY <2>1, <2>2 DEF OutInv, SendInv, CallOut, ReplyOut, QueueTrack, OnTrack, On, Objects, ProxyIds
    <2>4. \A l : LetterInv(l)' <=> LetterInv(l)
      BY <2>2 DEF LetterInv, CallLetter, ReplyLetter, Awaits, IssuedTags, Objects, ProxyIds
    <2>5. Mail' = Mail
      BY <2>1 DEF Mail
    <2> QED
      BY <1>2, <2>1, <2>3, <2>4, <2>5 DEF CallsInv, MailInv, QueueInv, UniqueInv, QueueTrack
  <1> QED
    BY <1>3, <1>4, <1>5, <1>6, <1>7 DEF Next

(* Programs whose proxies' wrong ids are no id of the peer's own proxies   *)
(* keep the invariant.                                                     *)
LEMMA CallsHold == Spec /\ []WrongIdsAreFree => []CallsInv
  <1> QED
    BY InitCalls, CallsInductive, PTL DEF Spec

(* The messages behind the letters.                                        *)
LEMMA TrackMessages ==
    ASSUME WireInv, NEW c \in Client
    PROVE  /\ DOMAIN Track[<<"toRouter", c>>] = DOMAIN toRouter[c]
           /\ \A i \in DOMAIN toRouter[c] : Track[<<"toRouter", c>>][i].payload = toRouter[c][i].payload
           /\ DOMAIN Track[<<"toClient", c>>] = DOMAIN toClient[c]
           /\ \A i \in DOMAIN toClient[c] : Track[<<"toClient", c>>][i].payload = toClient[c][i].payload
           /\ DOMAIN Track[<<"queue", c>>] = DOMAIN queue[c]
           /\ \A i \in DOMAIN queue[c] :
                /\ TagOf(Track[<<"queue", c>>][i]) = queue[c][i].message.tag
                /\ Track[<<"queue", c>>][i].payload.kind = queue[c][i].message.kind
  <1>1. /\ Track[<<"toRouter", c>>] = Over(Sent(c), toRouter[c])
        /\ Track[<<"toClient", c>>] = Over(Incoming(c), toClient[c])
        /\ Track[<<"queue", c>>] = Over(Waiting(c), queue[c])
    BY TrackAt
  <1>2. /\ toRouter[c] \in Seq(Addressed) /\ toClient[c] \in Seq(Addressed)
        /\ queue[c] \in Seq(AddressedPending)
    BY LetterTypes
  <1>3. \A m \in Addressed : Sent(c)[m].payload = m.payload /\ Incoming(c)[m].payload = m.payload
    BY DEF Sent, Incoming, Letter
  <1>4. \A p \in AddressedPending : /\ TagOf(Waiting(c)[p]) = p.message.tag
                                    /\ Waiting(c)[p].payload.kind = p.message.kind
    <2> TAKE p \in AddressedPending
    <2>1. p.message \in RpcMessage
      BY DEF AddressedPending, Pending
    <2>2. Unpacked(p).tag = p.message.tag /\ Unpacked(p).kind = p.message.kind
      BY <2>1 DEF Unpacked, RpcMessage
    <2> QED
      BY <2>2 DEF Waiting, Letter, TagOf
  <1>5. /\ \A i \in DOMAIN toRouter[c] : toRouter[c][i] \in Addressed
        /\ \A i \in DOMAIN toClient[c] : toClient[c][i] \in Addressed
        /\ \A i \in DOMAIN queue[c] : queue[c][i] \in AddressedPending
    BY <1>2
  <1> QED
    BY <1>1, <1>3, <1>4, <1>5 DEF Over

LEMMA HeldMessage ==
    ASSUME WireInv, NEW h \in held
    PROVE  /\ h.port \in Client /\ Track[<<"held", h.port>>] = <<Routed(h)>>
           /\ Routed(h).payload = h.message.payload
  BY HeldIsOne, TrackAt DEF Routed, Letter

LEMMA OnMail ==
    ASSUME WireInv, NEW p \in Place, NEW i \in DOMAIN Track[p]
    PROVE  Track[p][i] \in Mail
  BY TracksType DEF Mail, On, Tracks, Range

LEMMA IsAwaited ==
    ASSUME NEW m, NEW k, NEW p, k.tag = m.tag, k.source = m.destination,
           \/ phase[m.tag[1]] = "dead"
           \/ phase[m.tag[1]] = "await" /\ out[m.tag[1]] = {[port |-> p, message |-> k]}
    PROVE  Awaited(m)
  <1>1. CASE phase[m.tag[1]] = "dead"
    BY <1>1 DEF Awaited
  <1>2. CASE phase[m.tag[1]] = "await" /\ out[m.tag[1]] = {[port |-> p, message |-> k]}
    <2>1. PICK o : o = [port |-> p, message |-> k]
      OBVIOUS
    <2>2. o \in out[m.tag[1]] /\ o.message = k
      BY <1>2, <2>1
    <2> QED
      BY <1>2, <2>2 DEF Awaited
  <1> QED
    BY <1>1, <1>2

(* A reply, wherever it is, goes to the call its sender waits on, or to a  *)
(* program that an exception has ended: none is late, second, or read by   *)
(* loop(), and what send_request takes for its answer (channel.cpp:110-111) *)
(* is its answer.                                                          *)
THEOREM AnswersAreAwaited == Spec /\ []WrongIdsAreFree => []RepliesAreAwaited
  <1>1. CallsInv => RepliesAreAwaited
    <2> SUFFICES ASSUME CallsInv
                 PROVE  RepliesAreAwaited
      OBVIOUS
    <2> USE DEF CallsInv
    <2>1. \A l \in Mail : l.payload.kind = "reply" => Awaited(l.payload)
      <3> SUFFICES ASSUME NEW l \in Mail, l.payload.kind = "reply"
                   PROVE  Awaited(l.payload)
        OBVIOUS
      <3>1. l \in LetterSet /\ l.to = l.payload.tag[1] /\ Awaits(RequestOf(l))
        BY MailTypes DEF MailInv, LetterInv, IsCall, ReplyLetter, TagOf
      <3>2. PICK m \in RpcMessage : m = l.payload
        BY <3>1 DEF LetterSet
      <3>3. PICK k : k = [m EXCEPT !.source = m.destination, !.destination = m.source, !.kind = "request"]
        OBVIOUS
      <3>4. \/ phase[l.to] = "dead"
            \/ phase[l.to] = "await" /\ out[l.to] = {[port |-> PortOf[l.from], message |-> k]}
        BY <3>1, <3>2, <3>3 DEF Awaits, RequestOf, Letter
      <3>5. k.tag = m.tag /\ k.source = m.destination
        BY <3>3 DEF RpcMessage
      <3>6. \/ phase[m.tag[1]] = "dead"
            \/ phase[m.tag[1]] = "await" /\ out[m.tag[1]] = {[port |-> PortOf[l.from], message |-> k]}
        BY <3>1, <3>2, <3>4
      <3>7. Awaited(m)
        BY <3>5, <3>6, IsAwaited
      <3> QED
        BY <3>2, <3>7
    <2>2. \A c \in Client : \A o \in out[c] : o.message.kind = "reply" => Awaited(o.message)
      <3> SUFFICES ASSUME NEW c \in Client, NEW o \in out[c], o.message.kind = "reply"
                   PROVE  Awaited(o.message)
        OBVIOUS
      <3>1. QueueTrack(c) # <<>>
        BY QueueHead DEF QueueTrack, WireInv, TypeInv, PhaseInv, ThreadInv
      <3>2. PICK h \in Mail : h = Head(QueueTrack(c)) /\ IsCall(h)
        BY <3>1, MailTypes DEF QueueInv
      <3>3. h.payload.opcode \in RequestOp /\ Letter(c, ports[o.port], o.message) = Reply(h)
        BY <3>2 DEF OutInv, SendInv, ReplyOut
      <3>4. h \in LetterSet /\ h.from = TagOf(h)[1] /\ Awaits(h)
        BY <3>2, <3>3, MailTypes, OpcodeAssumption DEF MailInv, LetterInv, CallLetter
      <3>5. PICK m \in RpcMessage : m = h.payload
        BY <3>4 DEF LetterSet
      <3>6. o.message = [m EXCEPT !.source = m.destination, !.destination = m.source, !.kind = "reply"]
        BY <3>3, <3>5 DEF Letter, Reply
      <3>7. o.message.tag = m.tag /\ o.message.destination = m.source
        BY <3>6 DEF RpcMessage
      <3>8. \/ phase[h.from] = "dead"
            \/ phase[h.from] = "await" /\ out[h.from] = {[port |-> PortOf[h.to], message |-> m]}
        BY <3>4, <3>5 DEF Awaits
      <3>9. h.from = o.message.tag[1]
        BY <3>4, <3>5, <3>7 DEF TagOf
      <3>10. PICK r : r = o.message
        OBVIOUS
      <3>11. /\ r.tag = m.tag /\ m.source = r.destination
             /\ \/ phase[r.tag[1]] = "dead"
                \/ /\ phase[r.tag[1]] = "await"
                   /\ out[r.tag[1]] = {[port |-> PortOf[h.to], message |-> m]}
        BY <3>7, <3>8, <3>9, <3>10
      <3>13. Awaited(r)
        BY <3>11, IsAwaited
      <3> QED
        BY <3>10, <3>13
    <2>3. \A c \in Client : \A m \in {x.payload : x \in Range(toRouter[c]) \cup Range(toClient[c])} :
            \E l \in Mail : l.payload = m
      <3> SUFFICES ASSUME NEW c \in Client, NEW x \in Range(toRouter[c]) \cup Range(toClient[c])
                   PROVE  \E l \in Mail : l.payload = x.payload
        OBVIOUS
      <3>1. <<"toRouter", c>> \in Place /\ <<"toClient", c>> \in Place
        BY DEF Place
      <3>2. ASSUME NEW i \in DOMAIN toRouter[c], x = toRouter[c][i]
            PROVE  \E l \in Mail : l.payload = x.payload
        <4>1. i \in DOMAIN Track[<<"toRouter", c>>] /\ Track[<<"toRouter", c>>][i].payload = x.payload
          BY <3>2, TrackMessages
        <4> QED
          BY <3>1, <4>1, OnMail
      <3>3. ASSUME NEW i \in DOMAIN toClient[c], x = toClient[c][i]
            PROVE  \E l \in Mail : l.payload = x.payload
        <4>1. i \in DOMAIN Track[<<"toClient", c>>] /\ Track[<<"toClient", c>>][i].payload = x.payload
          BY <3>3, TrackMessages
        <4> QED
          BY <3>1, <4>1, OnMail
      <3> QED
        BY <3>2, <3>3 DEF Range
    <2>4. \A h \in held : \E l \in Mail : l.payload = h.message.payload
      <3> TAKE h \in held
      <3>1. <<"held", h.port>> \in Place /\ 1 \in DOMAIN Track[<<"held", h.port>>]
        BY HeldMessage DEF Place
      <3>2. Track[<<"held", h.port>>][1] \in Mail /\ Track[<<"held", h.port>>][1] = Routed(h)
        BY <3>1, HeldMessage, OnMail
      <3> QED
        BY <3>2, HeldMessage
    <2>5. \A c \in Client : \A p \in Range(queue[c]) : p.message.kind # "reply"
      <3> SUFFICES ASSUME NEW c \in Client, NEW i \in DOMAIN queue[c]
                   PROVE  queue[c][i].message.kind # "reply"
        BY DEF Range
      <3>1. QueueTrack(c)[i] \in Range(QueueTrack(c)) /\ QueueTrack(c)[i].payload.kind = queue[c][i].message.kind
        BY TrackMessages DEF QueueTrack, Range
      <3> QED
        BY <3>1 DEF QueueInv, IsCall
    <2>6. \A c \in Client : \A m \in Replies(c) : m.kind = "reply" => Awaited(m)
      <3> SUFFICES ASSUME NEW c \in Client, NEW m \in Replies(c), m.kind = "reply"
                   PROVE  Awaited(m)
        OBVIOUS
      <3>1. CASE m \in {x.payload : x \in Range(toRouter[c]) \cup Range(toClient[c])}
        BY <2>1, <2>3, <3>1
      <3>2. CASE m \in {o.message : o \in out[c]}
        BY <2>2, <3>2
      <3>3. CASE m \in {p.message : p \in Range(queue[c])}
        BY <2>5, <3>3
      <3> QED
        BY <3>1, <3>2, <3>3 DEF Replies
    <2>7. \A h \in held : h.message.payload.kind = "reply" => Awaited(h.message.payload)
      BY <2>1, <2>4
    <2>8. ASSUME NEW m \in (UNION {Replies(c) : c \in Client}) \cup {h.message.payload : h \in held},
                 m.kind = "reply"
          PROVE  Awaited(m)
      <3>1. CASE m \in {h.message.payload : h \in held}
        BY <2>7, <2>8, <3>1
      <3>2. CASE m \in UNION {Replies(c) : c \in Client}
        <4>1. PICK c \in Client : m \in Replies(c)
          BY <3>2
        <4> QED
          BY <2>6, <2>8, <4>1
      <3> QED
        BY <2>8, <3>1, <3>2
    <2> QED
      BY <2>8 DEF RepliesAreAwaited
  <1> QED
    BY <1>1, CallsHold, PTL

(* With no wrong id, and descriptors to receive handles in, no exception   *)
(* leaves a channel: what reaches the head of a queue is a call, and its   *)
(* object is bound (channel.cpp:65-66).                                    *)
THEOREM LoopFindsItsObjects ==
    ASSUME WrongId = {}, ~FdsRunOut
    PROVE  Spec => []ChannelNeverDies
  <1>1. WrongIdsAreFree
    BY DEF WrongIdsAreFree
  <1>2. CallsInv /\ ChannelNeverDies /\ [Next]_vars => ChannelNeverDies'
    <2> SUFFICES ASSUME CallsInv, ChannelNeverDies, [Next]_vars
                 PROVE  ChannelNeverDies'
      OBVIOUS
    <2> USE DEF CallsInv
    <2>1. phase \in [Client -> Phase]
      BY DEF WireInv, TypeInv, TypeOK
    <2>2. ASSUME NEW c \in Client, DispatchUnknown(c)
          PROVE  FALSE
      <3>1. queue[c] # <<>>
        BY <2>2 DEF DispatchUnknown, WireInv, TypeInv, PhaseInv, ThreadInv
      <3>2. PICK p \in AddressedPending : p = Head(queue[c]) /\ Head(QueueTrack(c)) = Waiting(c)[p]
        BY <3>1, QueueHead DEF QueueTrack
      <3>3. PICK h \in Mail : h = Head(QueueTrack(c)) /\ IsCall(h)
        BY <3>1, QueueHead, MailTypes DEF QueueInv, QueueTrack
      <3>4. p.message \in RpcMessage
        BY DEF AddressedPending, Pending
      <3>5. Unpacked(p).destination = p.destination_object
        BY <3>4 DEF Unpacked, RpcMessage
      <3>6. h.to = c /\ h.payload.destination = p.destination_object
        BY <3>2, <3>3, <3>5 DEF Waiting, Letter
      <3>7. h.payload.destination \in receivers[c]
        BY <3>3, <3>6 DEF MailInv, LetterInv, CallLetter, Objects
      <3> QED
        BY <2>2, <3>2, <3>6, <3>7 DEF DispatchUnknown
    <2>3. CASE RouterStep /\ UNCHANGED <<channelVars, history>>
      BY <2>3 DEF channelVars, ChannelNeverDies
    <2>4. ASSUME NEW c \in Client, Program(c) \/ Blocking(c) \/ Refused(c) \/ Looping(c),
                 UNCHANGED routerVars
          PROVE  ChannelNeverDies'
      <3>1. \A d \in Client \ {c} : phase'[d] = phase[d]
        BY <2>4, ClientGrows
      <3>2. phase'[c] # "dead"
        <4>1. CASE Program(c)
          BY <2>1, <4>1 DEF Program, Binds, Bind, BindsStatic, BindStatic, Connects, Connect, Calls,
                            Call, ChannelNeverDies
        <4>2. CASE Blocking(c) \/ Refused(c)
          BY <2>1, <4>2 DEF Blocking, Refused, Sends, SendSucceeds, SendFails, SendRefused, AfterSend,
                            AfterHandler, Answers, Answer, Defer, LoopReceive, ReceiveFails,
                            ChannelNeverDies
        <4>3. CASE Looping(c)
          BY <2>1, <2>2, <4>3 DEF Looping, Dispatches, Dispatch, EnterLoop, HandlerReplies,
                                  HandlerReturns, AfterHandler
        <4> QED
          BY <2>4, <4>1, <4>2, <4>3
      <3> QED
        BY <3>1, <3>2 DEF ChannelNeverDies
    <2>5. CASE UNCHANGED vars
      BY <2>5 DEF vars, channelVars, ChannelNeverDies
    <2> QED
      BY <2>3, <2>4, <2>5 DEF Next
  <1>3. Init => ChannelNeverDies
    BY DEF Init, ChannelInit, ChannelNeverDies
  <1>4. CallsInv /\ [Next]_vars => CallsInv'
    BY <1>1, CallsInductive
  <1> QED
    BY <1>2, <1>3, <1>4, InitCalls, PTL DEF Spec

-----------------------------------------------------------------------------
(* The message a caller waits for.                                         *)

(* What a waiting thread sent is a call of its own.                        *)
LEMMA AwaitingCall ==
    ASSUME CallsInv, NEW c \in Client, phase[c] = "await", NEW o \in out[c]
    PROVE  out[c] = {o} /\ CallOut(c, o) /\ o.message.tag[1] = c
  BY DEF CallsInv, OutInv, SendInv, CallOut, WireInv, TypeInv, PhaseInv, ThreadInv

(* A failed send shows that the router has gone.                           *)
LEMMA FailureIsFinal ==
    ASSUME WireInv, NEW c \in Client, SendFails(c)
    PROVE  ~Running
  BY DEF SendFails, ClientSendFails, WireInv, WiringInv, Running

(* A message that the port took was not refused.                           *)
LEMMA SentIsSent ==
    ASSUME WireInv, NEW c \in Client, SendSucceeds(c)
    PROVE  ~SendFails(c) /\ ~SendRefused(c)
  <1>1. PICK q \in Seq(Message) : q = toRouter[c]
    BY DEF WireInv, TypeInv, TypeOK
  <1>2. \E m : toRouter'[c] = Append(q, m)
    BY <1>1 DEF SendSucceeds, ClientSends, WireInv, TypeInv, TypeOK
  <1>3. \A m : Len(Append(q, m)) = Len(q) + 1 /\ Len(q) \in Nat
    OBVIOUS
  <1>4. \A m : Append(q, m) # q
    BY <1>3
  <1>5. SendFails(c) \/ SendRefused(c) => toRouter' = toRouter
    BY DEF SendFails, ClientSendFails, SendRefused, ClientSendRefused, portVars
  <1> QED
    BY <1>1, <1>2, <1>4, <1>5

(* The letter a waiting thread waits for, lost, was in the hands of the    *)
(* thread it called.                                                       *)
LEMMA LostIsDead ==
    ASSUME CallsInv, NEW d \in Client, phase[d] = "await", NEW o \in out[d],
           NEW l \in Mail, TagOf(l) = o.message.tag, Answerable(l.payload.opcode), l.to # d
    PROVE  ports[o.port] = l.to
  <1> USE DEF CallsInv
  <1>1. TagOf(l)[1] = d /\ l \in LetterSet /\ LetterInv(l)
    BY AwaitingCall, MailTypes DEF MailInv
  <1>2. IsCall(l) /\ CallLetter(l)
    BY <1>1 DEF LetterInv, ReplyLetter
  <1>3. l.payload.kind = "request" /\ l.from = d
    BY <1>1, <1>2, OpcodeAssumption DEF CallLetter, Answerable
  <1>4. out[d] = {[port |-> PortOf[l.to], message |-> l.payload]}
    BY <1>2, <1>3 DEF CallLetter, Awaits
  <1>5. o.port = PortOf[l.to]
    BY <1>4
  <1>6. l.to \in Client
    BY <1>1 DEF LetterSet
  <1> QED
    BY <1>5, <1>6, PortsInverse DEF WireInv

LEMMA AwaitedInductive == CallsInv /\ WrongIdsAreFree /\ AwaitedInv /\ [Next]_vars => AwaitedInv'
  <1> SUFFICES ASSUME CallsInv, WrongIdsAreFree, AwaitedInv, [Next]_vars
               PROVE  AwaitedInv'
    OBVIOUS
  <1> USE DEF CallsInv
  <1> DEFINE Found(mail, t) == \E l \in mail : TagOf(l) = t /\ Answerable(l.payload.opcode)
  <1>1. ASSUME Mail \subseteq Mail', UNCHANGED <<phase, out, ports>>, Running' => Running
        PROVE  AwaitedInv'
    BY <1>1 DEF AwaitedInv, TagOf
  <1>2. CASE RouterStep /\ UNCHANGED <<channelVars, history>>
    <2>1. UNCHANGED <<phase, out, ports>>
      BY <1>2 DEF channelVars, RouterStep, Loop, EpollWait, HandleUnknownSource, HandleUnknownDestination,
                  HandleMessage, Forward, ForwardFails, RouterExit, LoopGoesOn, HandleIncomplete,
                  ForwardBadDescriptor
    <2>2. Running' => Running /\ pc' # "exited"
      BY <1>2 DEF Running, RouterStep, Loop, EpollWait, HandleUnknownSource, HandleUnknownDestination,
                  HandleMessage, Forward, ForwardFails, RouterExit, LoopGoesOn, HandleIncomplete,
                  ForwardBadDescriptor
    <2>3. CASE Running'
      BY <1>1, <1>2, <2>1, <2>2, <2>3, RouterMail
    <2>4. CASE ~Running'
      BY <2>4 DEF AwaitedInv
    <2> QED
      BY <2>3, <2>4
  <1>3. ASSUME NEW c \in Client, Program(c) \/ Blocking(c) \/ Refused(c) \/ Looping(c),
               UNCHANGED routerVars, NEW d \in Client, d # c, NEW o \in out'[d],
               phase'[d] = "await", Running', Answerable(o.message.opcode)
        PROVE  Found(Mail', o.message.tag) \/ phase'[ports'[o.port]] = "dead"
    <2>1. /\ o \in out[d] /\ phase[d] = "await" /\ Running /\ ports' = ports
          /\ phase[c] # "dead" /\ \A e \in Client \ {c} : phase'[e] = phase[e]
      BY <1>3, ClientGrows DEF routerVars, Running
    <2>9. CASE phase[ports[o.port]] = "dead"
      <3>1. ports[o.port] \in Client
        BY <2>1 DEF WireInv, TypeInv, AddressInv
      <3> QED
        BY <2>1, <2>9, <3>1
    <2>10. ASSUME NEW l \in Mail, TagOf(l) = o.message.tag, Answerable(l.payload.opcode)
           PROVE  Found(Mail', o.message.tag) \/ phase'[ports'[o.port]] = "dead"
      <3>1. \A h \in Mail : TagOf(h) = TagOf(l) => h = l
        BY OneLetter, TracksType DEF UniqueInv, Mail
      <3>2. CASE Mail \subseteq Mail'
        BY <2>10, <3>2
      <3>3. CASE (Sends(c) \/ Refused(c)) /\ UNCHANGED <<made, handled, returned>>
        <4>1. PICK p \in out[c] : SentCall(c, p) \/ SentReply(c, p)
          BY <1>3, <3>3, SendKeepsCalls
        <4>2. ~SendFails(c)
          BY <2>1, FailureIsFinal
        <4>3. CASE SentCall(c, p)
          BY <3>2, <4>2, <4>3 DEF SentCall
        <4>4. CASE SentReply(c, p)
          <5>1. PICK h \in Mail : /\ h.payload.opcode \in RequestOp
                                  /\ \/ Mail' = Others(TagOf(h)) \cup {Reply(h)}
                                     \/ /\ Mail' = Others(TagOf(h))
                                        /\ <<h.payload.opcode, "reply">> \in Refusable
            BY <4>2, <4>4 DEF SentReply
          <5>2. h \in LetterSet
            BY MailTypes
          <5>3. TagOf(Reply(h)) = TagOf(h) /\ Reply(h).payload.opcode = h.payload.opcode
            BY <5>2 DEF Reply, Letter, TagOf, LetterSet, RpcMessage
          <5>4. CASE TagOf(h) = TagOf(l)
            <6>1. h = l
              BY <3>1, <5>4
            <6>2. Mail' = Others(TagOf(h)) \cup {Reply(h)}
              BY <2>10, <5>1, <6>1 DEF Answerable
            <6> QED
              BY <2>10, <5>3, <6>1, <6>2
          <5>5. CASE TagOf(h) # TagOf(l)
            BY <2>10, <5>1, <5>5 DEF Others
          <5> QED
            BY <5>4, <5>5
        <4> QED
          BY <4>1, <4>3, <4>4
      <3>4. CASE Answers(c) /\ UNCHANGED <<made, handled, failed>>
        <4>1. Answered(c) /\ phase[c] = "await"
          BY <1>3, <3>4, AnswerKeepsCalls DEF Answers, Answer
        <4>2. PICK p \in out[c], k \in Mail : TagOf(k) = p.message.tag /\ Mail' = Others(TagOf(k))
          BY <4>1 DEF Answered
        <4>3. p.message.tag[1] = c /\ o.message.tag[1] = d
          BY <2>1, <4>1, AwaitingCall
        <4> QED
          BY <1>3, <2>10, <4>2, <4>3 DEF Others
      <3>5. CASE (Defer(c) \/ LoopReceive(c)) /\ UNCHANGED history
        BY <1>3, <3>2, <3>5, ReceiveKeepsCalls DEF Received
      <3>6. CASE ReceiveFails(c) /\ UNCHANGED history
        <4>1. PICK k \in Mail : k.to = c /\ Mail' = Others(TagOf(k)) /\ phase'[c] = "dead"
          BY <1>3, <3>6, LossKeepsCalls DEF Lost
        <4>2. CASE TagOf(k) = TagOf(l)
          <5>1. l.to = c /\ l.to # d
            BY <1>3, <3>1, <4>1, <4>2
          <5>2. ports[o.port] = c
            BY <2>1, <2>10, <5>1, LostIsDead
          <5> QED
            BY <2>1, <4>1, <5>2
        <4>3. CASE TagOf(k) # TagOf(l)
          BY <2>10, <4>1, <4>3 DEF Others
        <4> QED
          BY <4>2, <4>3
      <3>7. CASE HandlerReturns(c) /\ UNCHANGED history
        <4>1. PICK h \in Mail : h.payload.opcode \notin RequestOp /\ Mail' = Others(TagOf(h))
          BY <1>3, <3>7, ReturnKeepsCalls DEF Returned
        <4>2. TagOf(l) # TagOf(h)
          BY <2>10, <3>1, <4>1 DEF Answerable
        <4> QED
          BY <2>10, <4>1, <4>2 DEF Others
      <3>8. CASE \/ Program(c) \/ Dispatches(c) \/ EnterLoop(c) \/ DispatchUnknown(c) \/ HandlerReplies(c)
        BY <1>3, <3>2, <3>8, QuietSteps DEF Mail
      <3> QED
        BY <1>3, <3>3, <3>4, <3>5, <3>6, <3>7, <3>8 DEF Blocking, Refused, Looping
    <2>11. Found(Mail, o.message.tag) \/ phase[ports[o.port]] = "dead"
      BY <1>3, <2>1 DEF AwaitedInv
    <2> QED
      BY <2>9, <2>10, <2>11
  <1>4. ASSUME NEW c \in Client, Program(c) \/ Blocking(c) \/ Refused(c) \/ Looping(c),
               UNCHANGED routerVars, NEW o \in out'[c], phase'[c] = "await", Running',
               Answerable(o.message.opcode)
        PROVE  Found(Mail', o.message.tag) \/ phase'[ports'[o.port]] = "dead"
    <2>1. phase \in [Client -> Phase] /\ out \in [Client -> SUBSET [port : Nat, message : RpcMessage]]
      BY DEF WireInv, TypeInv, TypeOK
    <2>2. Running /\ ports' = ports
      BY <1>4 DEF routerVars, Running
    <2>3. CASE (Sends(c) \/ Refused(c)) /\ UNCHANGED <<made, handled, returned>>
      <3>1. PICK p \in out[c] : out[c] = {p} /\ (SentCall(c, p) \/ SentReply(c, p))
        BY <1>4, <2>3, SendKeepsCalls
      <3>2. SendSucceeds(c)
        <4>1. ~SendFails(c)
          BY <2>2, FailureIsFinal
        <4>2. SendRefused(c) => AfterSend(c, p.message.kind, FALSE)
          BY <3>1 DEF SendRefused
        <4>3. ~SendRefused(c)
          BY <1>4, <2>1, <4>2 DEF AfterSend, Waits, AfterHandler
        <4> QED
          BY <2>3, <4>1, <4>3 DEF Sends, Refused
      <3>3. AfterSend(c, p.message.kind, TRUE)
        BY <3>1, <3>2 DEF SendSucceeds
      <3>4. o = p /\ p.message.kind = "request"
        BY <1>4, <2>1, <3>1, <3>3 DEF AfterSend, Waits, AfterHandler
      <3>5. Mail' = Mail \cup {Letter(c, ports[p.port], p.message)}
        BY <3>1, <3>2, <3>4, SentIsSent DEF SentCall, SentReply
      <3>6. LET l == Letter(c, ports[p.port], p.message) IN
            TagOf(l) = p.message.tag /\ l.payload = p.message
        BY DEF Letter, TagOf
      <3> QED
        BY <1>4, <3>4, <3>5, <3>6
    <2>4. CASE Defer(c) /\ UNCHANGED history
      <3>1. Mail' = Mail /\ o \in out[c] /\ phase[c] = "await" /\ phase' = phase
        BY <1>4, <2>4, ReceiveKeepsCalls DEF Received, Defer
      <3> QED
        BY <1>4, <2>2, <3>1 DEF AwaitedInv
    <2>5. CASE Answers(c) \/ LoopReceive(c) \/ ReceiveFails(c)
      BY <1>4, <2>1, <2>5 DEF Answers, Answer, LoopReceive, ReceiveFails
    <2>6. CASE Program(c)
      BY <1>4, <2>1, <2>6 DEF Program, Binds, Bind, BindsStatic, BindStatic, Connects, Connect, Calls, Call
    <2>7. CASE Looping(c)
      BY <1>4, <2>1, <2>7 DEF Looping, Dispatches, Dispatch, EnterLoop, DispatchUnknown, HandlerReplies,
                              HandlerReturns, AfterHandler
    <2> QED
      BY <1>4, <2>3, <2>4, <2>5, <2>6, <2>7 DEF Blocking, Refused
  <1>5. CASE UNCHANGED vars
    <2>1. Track' = Track
      BY <1>5, QuietTrack DEF vars, portVars, routerVars, channelVars
    <2> QED
      BY <1>1, <1>5, <2>1 DEF vars, channelVars, routerVars, Mail, Running
  <1>6. ASSUME NEW c \in Client, Program(c) \/ Blocking(c) \/ Refused(c) \/ Looping(c),
               UNCHANGED routerVars
        PROVE  AwaitedInv'
    BY <1>3, <1>4, <1>6 DEF AwaitedInv
  <1> QED
    BY <1>2, <1>5, <1>6 DEF Next

(* The carriers of a tag are the letters that have it.                     *)
Carrier(p, i) == <<p[1], p[2], IF p[1] = "held" THEN 0 ELSE i>>

LEMMA CarrierIsLetter ==
    ASSUME WireInv, NEW t, NEW x \in Carriers(t)
    PROVE  \E p \in Place : \E i \in DOMAIN Track[p] : TagOf(Track[p][i]) = t /\ x = Carrier(p, i)
  <1>1. ASSUME NEW c \in Client, NEW i \in Tagged(toRouter[c], t), x = <<"toRouter", c, i>>
        PROVE  \E p \in Place : \E j \in DOMAIN Track[p] : TagOf(Track[p][j]) = t /\ x = Carrier(p, j)
    <2>1. <<"toRouter", c>> \in Place /\ x = Carrier(<<"toRouter", c>>, i)
      BY <1>1 DEF Place, Carrier
    <2>2. i \in DOMAIN Track[<<"toRouter", c>>] /\ TagOf(Track[<<"toRouter", c>>][i]) = t
      BY TrackMessages DEF Tagged, TagOf
    <2> QED
      BY <2>1, <2>2
  <1>2. ASSUME NEW c \in Client, NEW i \in Tagged(toClient[c], t), x = <<"toClient", c, i>>
        PROVE  \E p \in Place : \E j \in DOMAIN Track[p] : TagOf(Track[p][j]) = t /\ x = Carrier(p, j)
    <2>1. <<"toClient", c>> \in Place /\ x = Carrier(<<"toClient", c>>, i)
      BY <1>2 DEF Place, Carrier
    <2>2. i \in DOMAIN Track[<<"toClient", c>>] /\ TagOf(Track[<<"toClient", c>>][i]) = t
      BY TrackMessages DEF Tagged, TagOf
    <2> QED
      BY <2>1, <2>2
  <1>3. ASSUME NEW h \in held, h.message.payload.tag = t, x = <<"held", h.port, 0>>
        PROVE  \E p \in Place : \E j \in DOMAIN Track[p] : TagOf(Track[p][j]) = t /\ x = Carrier(p, j)
    <2>1. <<"held", h.port>> \in Place /\ x = Carrier(<<"held", h.port>>, 1)
      BY <1>3, HeldMessage DEF Place, Carrier
    <2>2. 1 \in DOMAIN Track[<<"held", h.port>>] /\ TagOf(Track[<<"held", h.port>>][1]) = t
      BY <1>3, HeldMessage DEF TagOf
    <2> QED
      BY <2>1, <2>2
  <1>4. ASSUME NEW c \in Client, NEW i \in DOMAIN queue[c], queue[c][i].message.tag = t,
               x = <<"queue", c, i>>
        PROVE  \E p \in Place : \E j \in DOMAIN Track[p] : TagOf(Track[p][j]) = t /\ x = Carrier(p, j)
    <2>1. <<"queue", c>> \in Place /\ x = Carrier(<<"queue", c>>, i)
      BY <1>4 DEF Place, Carrier
    <2>2. i \in DOMAIN Track[<<"queue", c>>] /\ TagOf(Track[<<"queue", c>>][i]) = t
      BY <1>4, TrackMessages
    <2> QED
      BY <2>1, <2>2
  <1>5. \/ \E c \in Client : \E i \in Tagged(toRouter[c], t) : x = <<"toRouter", c, i>>
        \/ \E c \in Client : \E i \in Tagged(toClient[c], t) : x = <<"toClient", c, i>>
        \/ \E h \in held : h.message.payload.tag = t /\ x = <<"held", h.port, 0>>
        \/ \E c \in Client : \E i \in DOMAIN queue[c] :
             queue[c][i].message.tag = t /\ x = <<"queue", c, i>>
    BY DEF Carriers
  <1> QED
    BY <1>1, <1>2, <1>3, <1>4, <1>5

LEMMA LetterHasCarrier ==
    ASSUME WireInv, NEW p \in Place, NEW i \in DOMAIN Track[p]
    PROVE  Carrier(p, i) \in Carriers(TagOf(Track[p][i]))
  <1>1. PICK t : t = TagOf(Track[p][i])
    OBVIOUS
  <1>2. ASSUME NEW c \in Client, p = <<"toRouter", c>>
        PROVE  Carrier(p, i) \in Carriers(t)
    <2>1. i \in Tagged(toRouter[c], t) /\ Carrier(p, i) = <<"toRouter", c, i>>
      BY <1>1, <1>2, TrackMessages DEF Tagged, TagOf, Carrier
    <2> QED
      BY <2>1 DEF Carriers
  <1>3. ASSUME NEW c \in Client, p = <<"toClient", c>>
        PROVE  Carrier(p, i) \in Carriers(t)
    <2>1. i \in Tagged(toClient[c], t) /\ Carrier(p, i) = <<"toClient", c, i>>
      BY <1>1, <1>3, TrackMessages DEF Tagged, TagOf, Carrier
    <2> QED
      BY <2>1 DEF Carriers
  <1>4. ASSUME NEW c \in Client, p = <<"held", c>>
        PROVE  Carrier(p, i) \in Carriers(t)
    <2>1. HeldFor(c) # {}
      <3>1. Track[p] = HeldTrack(c)
        BY <1>4, TrackAt
      <3> QED
        BY <3>1 DEF HeldTrack
    <2>2. PICK h \in held : h.port = c
      BY <2>1 DEF HeldFor
    <2>3. Track[p] = <<Routed(h)>> /\ Routed(h).payload = h.message.payload
      BY <1>4, <2>2, HeldMessage
    <2>4. h.message.payload.tag = t
      BY <1>1, <2>3 DEF TagOf
    <2>5. Carrier(p, i) = <<"held", h.port, 0>>
      BY <1>4, <2>2 DEF Carrier
    <2> QED
      BY <2>4, <2>5 DEF Carriers
  <1>5. ASSUME NEW c \in Client, p = <<"queue", c>>
        PROVE  Carrier(p, i) \in Carriers(t)
    <2>1. i \in DOMAIN queue[c] /\ queue[c][i].message.tag = t /\ Carrier(p, i) = <<"queue", c, i>>
      BY <1>1, <1>5, TrackMessages DEF Carrier
    <2> QED
      BY <2>1 DEF Carriers
  <1> QED
    BY <1>1, <1>2, <1>3, <1>4, <1>5, Places

(* A caller that waits while the router runs waits for something: one      *)
(* message, which no router and no channel drops, answers twice or leaves  *)
(* behind, however the threads interleave.  The only message that goes is  *)
(* the one that a receiver's port could not receive, and the receiver with *)
(* it (channel.cpp:20-21).                                                 *)
THEOREM WaitsAreNotOrphaned == Spec /\ []WrongIdsAreFree => []NoOrphanedWait
  <1>1. CallsInv /\ AwaitedInv => NoOrphanedWait
    <2> SUFFICES ASSUME CallsInv, AwaitedInv, NEW c \in Client, NEW o \in out[c],
                        phase[c] = "await", Running, Answerable(o.message.opcode)
                 PROVE  \/ Cardinality(Carriers(o.message.tag)) = 1
                        \/ /\ Cardinality(Carriers(o.message.tag)) = 0
                           /\ \E d \in Client : PortOf[d] = o.port /\ phase[d] = "dead"
      BY DEF NoOrphanedWait
    <2> USE DEF CallsInv
    <2> DEFINE S == Carriers(o.message.tag)
    <2>1. ASSUME NEW x \in S
          PROVE  S = {x}
      <3>1. PICK p \in Place : \E i \in DOMAIN Track[p] :
              TagOf(Track[p][i]) = o.message.tag /\ x = Carrier(p, i)
        BY <2>1, CarrierIsLetter
      <3>2. PICK i \in DOMAIN Track[p] : TagOf(Track[p][i]) = o.message.tag /\ x = Carrier(p, i)
        BY <3>1
      <3>3. ASSUME NEW y \in S
            PROVE  y = x
        <4>1. PICK q \in Place : \E j \in DOMAIN Track[q] :
                TagOf(Track[q][j]) = o.message.tag /\ y = Carrier(q, j)
          BY CarrierIsLetter
        <4>2. PICK j \in DOMAIN Track[q] : TagOf(Track[q][j]) = o.message.tag /\ y = Carrier(q, j)
          BY <4>1
        <4> QED
          BY <3>2, <4>2 DEF UniqueInv, Unique
      <3> QED
        BY <2>1, <3>3
    <2>2. CASE S # {}
      <3>1. PICK x : x \in S /\ S = {x}
        BY <2>1, <2>2
      <3>2. Cardinality(S) = 1
        BY <3>1, FS_Singleton
      <3> QED
        BY <3>2
    <2>3. CASE S = {}
      <3>1. ~\E l \in Mail : TagOf(l) = o.message.tag
        <4> SUFFICES ASSUME NEW l \in Mail, TagOf(l) = o.message.tag
                     PROVE  FALSE
          OBVIOUS
        <4>1. PICK p \in Place : \E i \in DOMAIN Track[p] : Track[p][i] = l
          BY DEF Mail, On, Range
        <4>2. PICK i \in DOMAIN Track[p] : Track[p][i] = l
          BY <4>1
        <4> QED
          BY <2>3, <4>2, LetterHasCarrier
      <3>2. phase[ports[o.port]] = "dead"
        BY <3>1 DEF AwaitedInv
      <3>3. o.port \in DOMAIN ports
        BY DEF WireInv, AddressInv
      <3>4. ports[o.port] \in Client /\ PortOf[ports[o.port]] = o.port
        BY <3>3, PortsInverse DEF WireInv
      <3>5. Cardinality(S) = 0
        BY <2>3, FS_EmptySet
      <3> QED
        BY <3>2, <3>4, <3>5
    <2> QED
      BY <2>2, <2>3
  <1>2. Init => AwaitedInv
    BY DEF Init, ChannelInit, AwaitedInv
  <1> QED
    BY <1>1, <1>2, CallsHold, AwaitedInductive, PTL DEF Spec

-----------------------------------------------------------------------------
(* Calls are handled once.                                                 *)

CountedInv == CallsInv /\ HistoryInv /\ HandledInv

LEMMA InitCounted == Init => CountedInv
  <1> SUFFICES ASSUME Init
               PROVE  CountedInv
    OBVIOUS
  <1>1. CallsInv
    BY InitCalls
  <1>2. \A c \in Client : handled[c] = <<>> /\ out[c] = {} /\ ~inLoop[c]
    BY DEF Init, ChannelInit
  <1>3. \A t : ~Handled(t)
    BY <1>2 DEF Handled, HandledBy, Range
  <1>4. failed = {} /\ DOMAIN returned = {}
    BY DEF Init
  <1>5. HistoryInv
    BY <1>2, <1>3, <1>4 DEF HistoryInv
  <1>6. \A l \in Mail : IsCall(l)
    <2> SUFFICES ASSUME NEW l \in Mail, ~IsCall(l)
                 PROVE  FALSE
      OBVIOUS
    <2>1. l \in LetterSet /\ ReplyLetter(l)
      BY <1>1, MailTypes DEF CallsInv, MailInv, LetterInv
    <2>2. \E d : phase[d] \in {"await", "dead"} /\ d \in Client
      <3>1. RequestOf(l).from \in Client
        BY <2>1 DEF RequestOf, Letter, LetterSet
      <3> QED
        BY <2>1, <3>1 DEF ReplyLetter, Awaits
    <2> QED
      BY <2>2 DEF Init, ChannelInit
  <1>7. HandledInv
    BY <1>2, <1>3, <1>6 DEF HandledInv, Handling
  <1> QED
    BY <1>1, <1>5, <1>7 DEF CountedInv

(* What keeps the histories true when they do not change.                  *)
LEMMA HistoryStays ==
    ASSUME CallsInv, HistoryInv, Grows, UNCHANGED <<handled, failed, returned>>,
           \A l \in Mail' : (\E k \in Mail : TagOf(k) = TagOf(l)) \/ TagOf(l) \notin failed,
           \A d \in Client : \A o \in out'[d] :
             o.message.kind # "reply" =>
                 \/ o \in out[d] /\ (phase'[d] = "send" => phase[d] = "send")
                 \/ o.message.tag \in Tag \ IssuedTags
    PROVE  HistoryInv'
  <1>1. \A t : Handled(t)' <=> Handled(t)
    BY DEF Handled, HandledBy
  <1>2. IssuedTags \subseteq IssuedTags'
    <2>1. \A t \in Tag : t[1] \in Client /\ t[2] \in Nat
      BY DEF Tag
    <2> QED
      BY <2>1 DEF IssuedTags, Grows
  <1>3. \A t \in Tag : Handled(t)' => t \in IssuedTags'
    BY <1>1, <1>2 DEF HistoryInv
  <1>4. (failed \cup DOMAIN returned)' \subseteq IssuedTags'
    BY <1>2 DEF HistoryInv
  <1>5. \A t \in failed' : ~OnTrack(Track, t)' /\ ~Handled(t)'
    <2> SUFFICES ASSUME NEW t \in failed
                 PROVE  ~OnTrack(Track, t)'
      BY <1>1 DEF HistoryInv
    <2>1. ~\E k \in Mail : TagOf(k) = t
      BY DEF HistoryInv, OnTrack, Mail
    <2> QED
      BY <2>1 DEF OnTrack, Mail
  <1>6. ASSUME NEW d \in Client, NEW o \in out'[d], o.message.kind # "reply"
        PROVE  /\ o.message.tag \notin failed \cup DOMAIN returned
               /\ phase'[d] = "send" => ~Handled(o.message.tag)
    <2>1. CASE o \in out[d] /\ (phase'[d] = "send" => phase[d] = "send")
      BY <1>6, <2>1 DEF HistoryInv
    <2>2. CASE o.message.tag \in Tag \ IssuedTags
      BY <2>2 DEF HistoryInv
    <2> QED
      BY <1>6, <2>1, <2>2
  <1> QED
    BY <1>1, <1>3, <1>4, <1>5, <1>6 DEF HistoryInv

LEMMA HandledStays ==
    ASSUME CallsInv, HandledInv, UNCHANGED handled,
           \A d \in Client : Handling(d)' => Handling(d),
           \A d \in Client : Entered(d)' => Head(QueueTrack(d))' = Head(QueueTrack(d)),
           \A l \in Mail' : IsCall(l) /\ Handled(TagOf(l)) => l \in Mail /\ Entered(l.to)',
           \A l \in Mail' : ~IsCall(l) => l \in Mail \/ Handled(TagOf(l))
    PROVE  HandledInv'
  <1>1. \A t : Handled(t)' <=> Handled(t)
    BY DEF Handled, HandledBy
  <1>2. \A l \in Mail : l.to \in Client
    BY MailTypes DEF CallsInv, LetterSet
  <1>3. \A c, d \in Client : \A i \in DOMAIN handled'[c], j \in DOMAIN handled'[d] :
          handled'[c][i] = handled'[d][j] => c = d /\ i = j
    BY DEF HandledInv
  <1>4. ASSUME NEW c \in Client, Handling(c)'
        PROVE  Handled(TagOf(Head(QueueTrack(c))))'
    <2>1. Handled(TagOf(Head(QueueTrack(c))))
      BY <1>4 DEF HandledInv
    <2>2. PICK h : h = Head(QueueTrack(c))
      OBVIOUS
    <2>3. Head(QueueTrack(c))' = h
      BY <1>4, <2>2 DEF Entered
    <2> QED
      BY <1>1, <2>1, <2>2, <2>3 DEF TagOf, Handled, HandledBy
  <1>5. ASSUME NEW l \in Mail'
        PROVE  IF IsCall(l) THEN Handled(TagOf(l)) => Entered(l.to)' /\ l = Head(QueueTrack(l.to))'
                            ELSE Handled(TagOf(l))
    BY <1>2, <1>5 DEF HandledInv
  <1> QED
    BY <1>1, <1>3, <1>4, <1>5 DEF HandledInv

LEMMA RouterKeepsCounts ==
    ASSUME CountedInv, RouterStep, UNCHANGED <<channelVars, history>>
    PROVE  HistoryInv' /\ HandledInv'
  <1> USE DEF CountedInv, CallsInv
  <1>1. Mail' \subseteq Mail /\ \A c \in Client : QueueTrack(c)' = QueueTrack(c)
    BY RouterMail
  <1>2. UNCHANGED <<phase, inLoop, out, made, proxies, receivers, ports, handled, failed, returned>>
    BY DEF channelVars, history, RouterStep, Loop, EpollWait, HandleUnknownSource,
           HandleUnknownDestination, HandleMessage, Forward, ForwardFails, RouterExit, LoopGoesOn,
           HandleIncomplete, ForwardBadDescriptor
  <1>3. Grows
    BY <1>2 DEF Grows, ProxyIds, WireInv, TypeInv, TypeOK
  <1>4. \A d \in Client : /\ (Handling(d)' <=> Handling(d)) /\ (Entered(d)' <=> Entered(d))
                          /\ Head(QueueTrack(d))' = Head(QueueTrack(d))
    BY <1>1, <1>2 DEF Handling, Entered
  <1>5. \A l \in Mail : l.to \in Client
    BY MailTypes DEF LetterSet
  <1>6. HistoryInv'
    BY <1>1, <1>2, <1>3, HistoryStays
  <1>7. \A l \in Mail' : IsCall(l) /\ Handled(TagOf(l)) => l \in Mail /\ Entered(l.to)'
    BY <1>1, <1>4, <1>5 DEF HandledInv
  <1> QED
    BY <1>1, <1>2, <1>4, <1>6, <1>7, HandledStays

(* What leaves the letters, and lists no call as handled.                  *)
LEMMA QuietKeepsCounts ==
    ASSUME CountedInv, NEW c \in Client, UNCHANGED routerVars,
           \/ Program(c)
           \/ (EnterLoop(c) \/ DispatchUnknown(c) \/ HandlerReplies(c)) /\ UNCHANGED history
    PROVE  HistoryInv' /\ HandledInv'
  <1> USE DEF CountedInv, CallsInv
  <1>1. Program(c) \/ Looping(c)
    BY DEF Looping
  <1>2. Track' = Track
    BY QuietSteps
  <1>3. Mail' = Mail /\ \A d \in Client : QueueTrack(d)' = QueueTrack(d)
    BY <1>2 DEF Mail, QueueTrack
  <1>4. Grows /\ \A d \in Client \ {c} : UNCHANGED <<phase[d], out[d]>>
    BY <1>1, ClientGrows
  <1>5. UNCHANGED <<handled, failed, returned>>
    BY DEF Program, history
  <1>6. /\ phase \in [Client -> Phase] /\ inLoop \in [Client -> BOOLEAN]
        /\ out \in [Client -> SUBSET [port : Nat, message : RpcMessage]]
        /\ made \in [Client -> Nat]
    BY DEF WireInv, TypeInv, TypeOK
  <1>7. \A d \in Client : Handling(d)' <=> Handling(d)
    <2>1. Handling(c)' <=> Handling(c)
      <3>1. CASE Program(c)
        <4>1. phase[c] = "app" /\ UNCHANGED inLoop
          BY <3>1 DEF Program, Binds, Bind, BindsStatic, BindStatic, Connects, Connect, Calls, Call
        <4>2. UNCHANGED phase \/ phase' = [phase EXCEPT ![c] = "send"]
          BY <3>1 DEF Program, Binds, Bind, BindsStatic, BindStatic, Connects, Connect, Calls, Call
        <4> QED
          BY <1>6, <4>1, <4>2 DEF Handling
      <3>2. CASE EnterLoop(c) \/ DispatchUnknown(c) \/ HandlerReplies(c)
        BY <1>6, <3>2 DEF Handling, EnterLoop, DispatchUnknown, HandlerReplies
      <3> QED
        BY <3>1, <3>2
    <2>2. \A d \in Client \ {c} : inLoop'[d] = inLoop[d]
      BY <1>6 DEF Program, Binds, Bind, BindsStatic, BindStatic, Connects, Connect, Calls, Call,
                  EnterLoop, DispatchUnknown, HandlerReplies
    <2> QED
      BY <1>4, <2>1, <2>2 DEF Handling
  <1>8. ASSUME NEW o \in out'[c], o.message.kind # "reply"
        PROVE  \/ o \in out[c] /\ (phase'[c] = "send" => phase[c] = "send")
               \/ o.message.tag \in Tag \ IssuedTags
    <2>1. CASE Calls(c) /\ made' = [made EXCEPT ![c] = @ + 1]
      <3>1. PICK e \in CallEdge, p \in proxies[c] :
              made[c] < MaxCalls[c] /\ Call(c, p, e.opcode, <<c, made[c] + 1>>)
        BY <2>1 DEF Calls
      <3>2. o.message.tag = <<c, made[c] + 1>>
        BY <1>6, <1>8, <3>1 DEF Call
      <3>3. made[c] \in Nat /\ MaxCalls[c] \in Nat
        BY <1>6, MaxCallsAssumption
      <3>4. made[c] + 1 \in 1..MaxCalls[c] /\ ~(made[c] + 1 <= made[c])
        BY <3>1, <3>3
      <3> QED
        BY <3>2, <3>4 DEF IssuedTags, Tag
    <2>2. CASE HandlerReplies(c)
      <3>1. o.message.kind = "reply"
        <4>1. queue[c] # <<>>
          BY <2>2 DEF HandlerReplies, WireInv, TypeInv, PhaseInv, ThreadInv, Handling
        <4>2. PICK p \in AddressedPending : p = Head(queue[c])
          BY <4>1, QueueHead
        <4>3. p.message \in RpcMessage
          BY DEF AddressedPending, Pending
        <4>4. o.message = [p.message EXCEPT !.source = p.destination_object, !.kind = "reply"]
          BY <1>6, <1>8, <2>2, <4>2 DEF HandlerReplies
        <4> QED
          BY <4>3, <4>4 DEF RpcMessage
      <3> QED
        BY <1>8, <3>1
    <2>3. CASE Binds(c) \/ BindsStatic(c) \/ Connects(c)
      BY <1>8, <2>3 DEF Binds, Bind, BindsStatic, BindStatic, Connects, Connect
    <2>4. CASE EnterLoop(c) \/ DispatchUnknown(c)
      BY <1>6, <1>8, <2>4 DEF EnterLoop, DispatchUnknown
    <2> QED
      BY <2>1, <2>2, <2>3, <2>4 DEF Program
  <1>9. \A d \in Client : \A o \in out'[d] :
             o.message.kind # "reply" =>
                 \/ o \in out[d] /\ (phase'[d] = "send" => phase[d] = "send")
                 \/ o.message.tag \in Tag \ IssuedTags
    BY <1>4, <1>8
  <1>10. HistoryInv'
    BY <1>3, <1>4, <1>5, <1>9, HistoryStays
  <1>11. \A l \in Mail : l.to \in Client
    BY MailTypes DEF LetterSet
  <1>12. \A l \in Mail' : IsCall(l) /\ Handled(TagOf(l)) => l \in Mail /\ Entered(l.to)'
    <2>1. phase[c] # "dead"
      BY <1>1, ClientGrows
    <2>2. \A d \in Client : Entered(d) => Entered(d)'
      BY <1>4, <1>7, <2>1 DEF Entered
    <2> QED
      BY <1>3, <1>11, <2>2 DEF HandledInv
  <1>13. \A d \in Client : Head(QueueTrack(d))' = Head(QueueTrack(d))
    BY <1>3
  <1> QED
    BY <1>3, <1>5, <1>7, <1>10, <1>12, <1>13, HandledStays

(* A handler is entered: its call is at the head of the queue, and no      *)
(* handler is running there.                                               *)
LEMMA DispatchedCall ==
    ASSUME CountedInv, NEW c \in Client, Dispatches(c)
    PROVE  /\ queue[c] # <<>>
           /\ Head(QueueTrack(c)) \in Mail /\ IsCall(Head(QueueTrack(c))) /\ Head(QueueTrack(c)).to = c
           /\ TagOf(Head(QueueTrack(c))) = Head(queue[c]).message.tag
           /\ Head(queue[c]).message.tag \in Tag
           /\ ~Handled(Head(queue[c]).message.tag)
           /\ ~Entered(c)
  <1> USE DEF CountedInv, CallsInv
  <1>1. phase[c] = "dispatch" /\ queue[c] # <<>>
    BY DEF Dispatches, Dispatch, WireInv, TypeInv, PhaseInv, ThreadInv
  <1>2. PICK p \in AddressedPending : p = Head(queue[c]) /\ Head(QueueTrack(c)) = Waiting(c)[p]
    BY <1>1, QueueHead DEF QueueTrack
  <1>3. PICK h \in Mail : h = Head(QueueTrack(c)) /\ IsCall(h)
    BY <1>1, QueueHead, MailTypes DEF QueueInv, QueueTrack
  <1>4. p.message \in RpcMessage
    BY DEF AddressedPending, Pending
  <1>5. Unpacked(p).tag = p.message.tag
    BY <1>4 DEF Unpacked, RpcMessage
  <1>6. h.to = c /\ TagOf(h) = p.message.tag
    BY <1>2, <1>3, <1>5 DEF Waiting, Letter, TagOf
  <1>7. ~Entered(c)
    BY <1>1 DEF Entered, Handling
  <1>8. ~Handled(TagOf(h))
    BY <1>3, <1>6, <1>7 DEF HandledInv
  <1> QED
    BY <1>1, <1>2, <1>3, <1>4, <1>6, <1>7, <1>8 DEF RpcMessage

LEMMA HandledNext ==
    ASSUME TypeOK, NEW c \in Client, Dispatches(c)
    PROVE  LET t == Head(queue[c]).message.tag IN
           /\ handled' = [handled EXCEPT ![c] = Append(handled[c], t)]
           /\ handled[c] \in Seq(Tag)
           /\ t \in Tag => \A u : Handled(u)' <=> (u = t \/ Handled(u))
  <1>1. PICK t : t = Head(queue[c]).message.tag
    OBVIOUS
  <1>2. handled' = [handled EXCEPT ![c] = Append(handled[c], t)] /\ handled \in [Client -> Seq(Tag)]
    BY <1>1 DEF Dispatches, TypeOK
  <1>3. ASSUME t \in Tag
        PROVE  \A u : Handled(u)' <=> (u = t \/ Handled(u))
    <2>1. Range(Append(handled[c], t)) = Range(handled[c]) \cup {t}
      BY <1>2, <1>3, AppendRange
    <2>2. \A d \in Client : HandledBy(d)' = IF d = c THEN HandledBy(c) \cup {t} ELSE HandledBy(d)
      BY <1>2, <2>1 DEF HandledBy
    <2> QED
      BY <2>2 DEF Handled
  <1> QED
    BY <1>1, <1>2, <1>3

LEMMA DispatchKeepsCounts ==
    ASSUME CountedInv, NEW c \in Client, Dispatches(c), UNCHANGED <<made, failed, returned>>,
           UNCHANGED routerVars
    PROVE  HistoryInv' /\ HandledInv'
  <1> USE DEF CountedInv, CallsInv
  <1>1. PICK t \in Tag : t = Head(queue[c]).message.tag
    BY DispatchedCall
  <1>2. PICK h \in Mail : h = Head(QueueTrack(c)) /\ IsCall(h) /\ TagOf(h) = t /\ h.to = c
    BY <1>1, DispatchedCall
  <1>3. ~Handled(t) /\ ~Entered(c)
    BY <1>1, DispatchedCall
  <1>4. /\ handled' = [handled EXCEPT ![c] = Append(handled[c], t)]
        /\ handled \in [Client -> Seq(Tag)]
        /\ \A u : Handled(u)' <=> (u = t \/ Handled(u))
    BY <1>1, HandledNext DEF WireInv, TypeInv, TypeOK
  <1>5. Track' = Track
    BY QuietSteps
  <1>6. Mail' = Mail /\ \A d \in Client : QueueTrack(d)' = QueueTrack(d)
    BY <1>5 DEF Mail, QueueTrack
  <1>7. /\ \A d \in Client \ {c} : phase'[d] = phase[d]
        /\ phase'[c] = "app" /\ UNCHANGED <<out, inLoop>> /\ inLoop[c] /\ out[c] = {}
    BY DEF Dispatches, Dispatch, WireInv, TypeInv, TypeOK, PhaseInv, ThreadInv
  <1>8. t \in IssuedTags /\ OnTrack(Track, t)
    BY <1>2 DEF MailInv, LetterInv, OnTrack, Mail
  <1>9. HistoryInv'
    <2>1. IssuedTags' = IssuedTags
      BY DEF IssuedTags
    <2>2. \A u \in Tag : Handled(u)' => u \in IssuedTags'
      BY <1>4, <1>8, <2>1 DEF HistoryInv
    <2>3. (failed \cup DOMAIN returned)' \subseteq IssuedTags'
      BY <2>1 DEF HistoryInv
    <2>4. \A u \in failed' : ~OnTrack(Track, u)' /\ ~Handled(u)'
      BY <1>4, <1>5, <1>8 DEF HistoryInv, OnTrack
    <2>5. ASSUME NEW d \in Client, NEW o \in out'[d], o.message.kind # "reply"
          PROVE  /\ o.message.tag \notin failed' \cup DOMAIN returned'
                 /\ phase'[d] = "send" => ~Handled(o.message.tag)'
      <3>1. o \in out[d] /\ d # c /\ phase'[d] = phase[d]
        BY <1>7, <2>5
      <3>2. phase[d] = "send" => o.message.tag # t
        BY <1>8, <2>5, <3>1 DEF OutInv, SendInv, CallOut
      <3>3. \A u : Handled(u)' => u = t \/ Handled(u)
        BY <1>4
      <3>4. /\ o.message.tag \notin failed \cup DOMAIN returned
            /\ phase[d] = "send" => ~Handled(o.message.tag)
        BY <2>5, <3>1 DEF HistoryInv
      <3> QED
        BY <3>1, <3>2, <3>3, <3>4
    <2> QED
      BY <2>2, <2>3, <2>4, <2>5 DEF HistoryInv
  <1>10. \A d, e \in Client : \A i \in DOMAIN handled'[d], j \in DOMAIN handled'[e] :
           handled'[d][i] = handled'[e][j] => d = e /\ i = j
    <2>1. /\ DOMAIN handled'[c] = DOMAIN handled[c] \cup {Len(handled[c]) + 1}
          /\ \A i \in DOMAIN handled[c] : handled'[c][i] = handled[c][i]
          /\ handled'[c][Len(handled[c]) + 1] = t
      BY <1>4
    <2>2. \A d \in Client \ {c} : handled'[d] = handled[d]
      BY <1>4
    <2>3. \A d \in Client : \A i \in DOMAIN handled[d] : handled[d][i] # t
      BY <1>3 DEF Handled, HandledBy, Range
    <2>4. ASSUME NEW d \in Client, NEW i \in DOMAIN handled'[d]
          PROVE  \/ i \in DOMAIN handled[d] /\ handled'[d][i] = handled[d][i] /\ handled'[d][i] # t
                 \/ d = c /\ i = Len(handled[c]) + 1 /\ handled'[d][i] = t
      BY <2>1, <2>2, <2>3, <2>4
    <2> QED
      BY <2>4 DEF HandledInv
  <1>11. ASSUME NEW d \in Client, Handling(d)'
         PROVE  Handled(TagOf(Head(QueueTrack(d))))'
    <2>1. PICK k : k = Head(QueueTrack(d))
      OBVIOUS
    <2>2. Head(QueueTrack(d))' = k
      BY <1>6, <2>1
    <2>3. Handled(TagOf(k))'
      <3>1. CASE d = c
        BY <1>2, <1>4, <2>1, <3>1 DEF TagOf
      <3>2. CASE d # c
        <4>1. Handled(TagOf(k))
          BY <1>7, <1>11, <2>1, <3>2 DEF HandledInv, Handling
        <4> QED
          BY <1>4, <4>1 DEF TagOf
      <3> QED
        BY <3>1, <3>2
    <2> QED
      BY <2>2, <2>3 DEF Handled, TagOf, HandledBy
  <1>12. ASSUME NEW l \in Mail'
         PROVE  IF IsCall(l) THEN Handled(TagOf(l))' => Entered(l.to)' /\ l = Head(QueueTrack(l.to))'
                             ELSE Handled(TagOf(l))'
    <2>1. l \in Mail /\ l.to \in Client
      BY <1>6, MailTypes DEF LetterSet
    <2>2. Handled(TagOf(l))' <=> (TagOf(l) = t \/ Handled(TagOf(l)))
      BY <1>4 DEF TagOf
    <2>3. CASE TagOf(l) = t
      <3>1. l = h
        BY <1>2, <2>1, <2>3, OneLetter, TracksType DEF UniqueInv, Mail
      <3>2. Entered(c)'
        BY <1>7 DEF Entered, Handling
      <3> QED
        BY <1>2, <1>6, <3>1, <3>2
    <2>4. CASE TagOf(l) # t
      <3>1. CASE IsCall(l) /\ Handled(TagOf(l))
        <4>1. Entered(l.to) /\ l = Head(QueueTrack(l.to))
          BY <2>1, <3>1 DEF HandledInv
        <4>2. l.to # c
          BY <1>3, <4>1
        <4> QED
          BY <1>6, <1>7, <2>1, <3>1, <4>1, <4>2 DEF Entered, Handling
      <3>2. CASE ~IsCall(l)
        BY <2>1, <2>2, <3>2 DEF HandledInv
      <3> QED
        BY <2>2, <2>4, <3>1, <3>2
    <2> QED
      BY <2>3, <2>4
  <1> QED
    BY <1>9, <1>10, <1>11, <1>12 DEF HandledInv

(* A handler that is done leaves no letter of its call to handle again.    *)
LEMMA DoneKeepsCounts ==
    ASSUME CountedInv, NEW c \in Client, UNCHANGED <<handled, inLoop>>, Handling(c), phase'[c] \in {"read", "dispatch"},
           \A d \in Client \ {c} : phase'[d] = phase[d],
           QueueTrack(c) # <<>>, OtherQueuesStay(c),
           \A l \in Mail' : \/ l \in Others(TagOf(Head(QueueTrack(c))))
                            \/ ~IsCall(l) /\ TagOf(l) = TagOf(Head(QueueTrack(c)))
    PROVE  HandledInv'
  <1> USE DEF CountedInv, CallsInv
  <1>1. Handled(TagOf(Head(QueueTrack(c))))
    BY DEF HandledInv
  <1>2. \A d \in Client : Handling(d)' => Handling(d)
    BY DEF Handling
  <1>3. \A d \in Client : Entered(d)' => Head(QueueTrack(d))' = Head(QueueTrack(d))
    <2>1. \A d \in Client : Entered(d)' => d # c
      BY DEF Entered, Handling
    <2> QED
      BY <2>1 DEF OtherQueuesStay
  <1>4. ASSUME NEW l \in Mail', IsCall(l), Handled(TagOf(l))
        PROVE  l \in Mail /\ Entered(l.to)'
    <2>1. l \in Mail /\ TagOf(l) # TagOf(Head(QueueTrack(c)))
      BY <1>4 DEF Others
    <2>2. l.to \in Client
      BY <2>1, MailTypes DEF LetterSet
    <2>3. Entered(l.to) /\ l = Head(QueueTrack(l.to))
      BY <1>4, <2>1 DEF HandledInv
    <2>4. l.to # c
      BY <2>1, <2>3
    <2> QED
      BY <2>1, <2>2, <2>3, <2>4 DEF Entered, Handling
  <1>5. \A l \in Mail' : ~IsCall(l) => l \in Mail \/ Handled(TagOf(l))
    BY <1>1 DEF Others
  <1> QED
    BY <1>2, <1>3, <1>4, <1>5, HandledStays

LEMMA ReturnKeepsCounts ==
    ASSUME CountedInv, NEW c \in Client, HandlerReturns(c), UNCHANGED history, UNCHANGED routerVars
    PROVE  HistoryInv' /\ HandledInv'
  <1> USE DEF CountedInv, CallsInv
  <1>1. Returned(c)
    BY ReturnKeepsCalls
  <1>2. Looping(c) /\ Grows /\ UNCHANGED <<handled, failed, returned>>
    BY ClientGrows DEF Looping, history
  <1>3. /\ Handling(c) /\ UNCHANGED <<inLoop, out>> /\ phase'[c] \in {"read", "dispatch"}
        /\ \A d \in Client \ {c} : phase'[d] = phase[d]
    BY DEF HandlerReturns, AfterHandler, Handling, WireInv, TypeInv, TypeOK
  <1>4. \A l \in Mail' : l \in Others(TagOf(Head(QueueTrack(c)))) /\ l \in Mail
    BY <1>1 DEF Returned, Others
  <1>5. HandledInv'
    BY <1>1, <1>2, <1>3, <1>4, DoneKeepsCounts DEF Returned
  <1>6. HistoryInv'
    BY <1>2, <1>3, <1>4, HistoryStays
  <1> QED
    BY <1>5, <1>6

LEMMA ReceiveKeepsCounts ==
    ASSUME CountedInv, NEW c \in Client, Defer(c) \/ LoopReceive(c), UNCHANGED history,
           UNCHANGED routerVars
    PROVE  HistoryInv' /\ HandledInv'
  <1> USE DEF CountedInv, CallsInv
  <1>1. PICK l \in Mail : /\ Mail' = Mail
                          /\ QueueTrack(c)' = Append(QueueTrack(c), l) /\ OtherQueuesStay(c)
    BY ReceiveKeepsCalls DEF Received
  <1>2. Blocking(c) /\ Grows /\ UNCHANGED <<handled, failed, returned>>
    BY ClientGrows DEF Blocking, history
  <1>3. /\ UNCHANGED <<inLoop, out>> /\ \A d \in Client \ {c} : phase'[d] = phase[d]
        /\ phase'[c] = phase[c] \/ (phase[c] = "read" /\ phase'[c] = "dispatch")
    BY DEF Defer, LoopReceive, WireInv, TypeInv, TypeOK
  <1>4. \A d \in Client : (Handling(d)' <=> Handling(d)) /\ (Entered(d)' <=> Entered(d))
    BY <1>3 DEF Entered, Handling
  <1>5. ASSUME NEW d \in Client, Entered(d)
        PROVE  Head(QueueTrack(d))' = Head(QueueTrack(d))
    <2>1. CASE d = c
      <3>1. QueueTrack(c) # <<>> /\ QueueTrack(c) \in Seq(LetterSet) /\ l \in LetterSet
        <4>1. Handling(c)
          BY <1>2, <1>5, <2>1, ClientGrows DEF Entered
        <4> QED
          BY <4>1, QueueHead, MailTypes DEF QueueTrack, WireInv, TypeInv, PhaseInv, ThreadInv
      <3>2. PICK q \in Seq(LetterSet) : q = QueueTrack(c) /\ q # <<>>
        BY <3>1
      <3>3. Head(Append(q, l)) = Head(q)
        BY <3>1, <3>2
      <3> QED
        BY <1>1, <2>1, <3>2, <3>3
    <2>2. CASE d # c
      BY <1>1, <2>2 DEF OtherQueuesStay
    <2> QED
      BY <2>1, <2>2
  <1>6. HistoryInv'
    BY <1>1, <1>2, <1>3, HistoryStays
  <1>7. \A k \in Mail : k.to \in Client
    BY MailTypes DEF LetterSet
  <1>8. \A k \in Mail' : IsCall(k) /\ Handled(TagOf(k)) => k \in Mail /\ Entered(k.to)'
    BY <1>1, <1>4, <1>7 DEF HandledInv
  <1>9. HandledInv'
    BY <1>1, <1>2, <1>4, <1>5, <1>8, HandledStays
  <1> QED
    BY <1>6, <1>9

(* A call leaves once, and one that fails to leave is never handled.       *)
LEMMA SendKeepsCounts ==
    ASSUME CountedInv, NEW c \in Client, Sends(c) \/ Refused(c), UNCHANGED <<made, handled, returned>>,
           UNCHANGED routerVars
    PROVE  HistoryInv' /\ HandledInv'
  <1> USE DEF CountedInv, CallsInv
  <1>1. PICK o \in out[c] : out[c] = {o} /\ (SentCall(c, o) \/ SentReply(c, o))
    BY SendKeepsCalls
  <1>2. /\ Grows /\ phase[c] = "send"
        /\ \A d \in Client \ {c} : UNCHANGED <<phase[d], out[d]>>
    BY ClientGrows DEF Blocking, Sends, SendSucceeds, SendFails, Refused, SendRefused
  <1>3. /\ phase \in [Client -> Phase]
        /\ out \in [Client -> SUBSET [port : Nat, message : RpcMessage]]
    BY DEF WireInv, TypeInv, TypeOK
  <1>4. UNCHANGED inLoop
    BY DEF Sends, SendSucceeds, SendFails, Refused, SendRefused
  <1>5. \E sent \in BOOLEAN : AfterSend(c, o.message.kind, sent)
    BY <1>1 DEF Sends, SendSucceeds, SendFails, Refused, SendRefused
  <1>6. /\ \A d \in Client \ {c} : phase'[d] = phase[d] /\ out'[d] = out[d]
        /\ out'[c] \subseteq out[c] /\ phase'[c] # "send"
    BY <1>3, <1>5 DEF AfterSend, AfterHandler
  <1>7. CASE SentReply(c, o)
    <2>1. /\ Handling(c) /\ phase'[c] \in {"read", "dispatch"}
      BY <1>1, <1>3, <1>5, <1>7 DEF SentReply, AfterSend, Waits, AfterHandler, WireInv, TypeInv, PhaseInv,
                                    ThreadInv
    <2>2. PICK h \in Mail : h = Head(QueueTrack(c)) /\ h \in LetterSet
      BY <1>7, MailTypes DEF SentReply
    <2>3. TagOf(Reply(h)) = TagOf(h) /\ ~IsCall(Reply(h))
      BY <2>2 DEF Reply, Letter, TagOf, IsCall, LetterSet, RpcMessage
    <2>4. \A l \in Mail' : l \in Others(TagOf(h)) \/ (~IsCall(l) /\ TagOf(l) = TagOf(h))
      BY <1>7, <2>2, <2>3 DEF SentReply
    <2>5. HandledInv'
      BY <1>4, <1>6, <1>7, <2>1, <2>2, <2>4, DoneKeepsCounts DEF SentReply
    <2>6. UNCHANGED failed
      BY <1>1, <1>7 DEF SentReply, Sends, Refused, CallFails
    <2>7. \A l \in Mail' : \E k \in Mail : TagOf(k) = TagOf(l)
      BY <2>2, <2>4 DEF Others
    <2> QED
      BY <1>2, <1>6, <2>5, <2>6, <2>7, HistoryStays
  <1>8. CASE SentCall(c, o)
    <2>1. CallOut(c, o) /\ o.message.kind # "reply"
      BY <1>8 DEF SentCall, OutInv, SendInv
    <2>2. /\ o.message.tag = <<c, made[c]>> /\ ~OnTrack(Track, o.message.tag)
          /\ o.message.tag \notin failed \cup DOMAIN returned /\ ~Handled(o.message.tag)
      BY <1>2, <2>1 DEF CallOut, HistoryInv
    <2>3. \A d \in Client : (Handling(d)' <=> Handling(d)) /\ (Entered(d)' <=> Entered(d))
      <3>1. phase'[c] \in {"await", "app"}
        BY <1>3, <1>5, <2>1 DEF AfterSend
      <3> QED
        BY <1>2, <1>4, <1>6, <3>1 DEF Entered, Handling
    <2>4. \A d \in Client : Head(QueueTrack(d))' = Head(QueueTrack(d))
      BY <1>8 DEF SentCall, QueuesStay
    <2>5. PICK L : L = Letter(c, ports[o.port], o.message)
      OBVIOUS
    <2>6. TagOf(L) = o.message.tag /\ IsCall(L) /\ ~Handled(TagOf(L)) /\ TagOf(L) \notin failed
      BY <2>1, <2>2, <2>5 DEF Letter, TagOf, IsCall
    <2>7. \A l \in Mail : l.to \in Client
      BY MailTypes DEF LetterSet
    <2>8. \A l \in Mail' : l \in Mail \/ (SendSucceeds(c) /\ l = L)
      BY <1>8, <2>5 DEF SentCall
    <2>9. HandledInv'
      <3>1. \A l \in Mail' : IsCall(l) /\ Handled(TagOf(l)) => l \in Mail /\ Entered(l.to)'
        BY <2>3, <2>6, <2>7, <2>8 DEF HandledInv
      <3>2. \A l \in Mail' : ~IsCall(l) => l \in Mail
        BY <2>6, <2>8
      <3> QED
        BY <2>3, <2>4, <3>1, <3>2, HandledStays
    <2>10. CASE UNCHANGED failed
      <3>1. \A l \in Mail' : (\E k \in Mail : TagOf(k) = TagOf(l)) \/ TagOf(l) \notin failed
        BY <2>6, <2>8
      <3> QED
        BY <1>2, <1>6, <2>9, <2>10, <3>1, HistoryStays
    <2>11. CASE (SendFails(c) \/ SendRefused(c)) /\ CallFails(c)
      <3>1. failed' = failed \cup {o.message.tag}
        BY <1>1, <2>1, <2>11 DEF CallFails
      <3>2. \A t : Handled(t)' <=> Handled(t)
        BY DEF Handled, HandledBy
      <3>3. IssuedTags' = IssuedTags
        BY DEF IssuedTags
      <3>4. o.message.tag \in IssuedTags
        <4>1. o.message.tag \in Tag /\ made[c] \in Nat
          BY <1>3 DEF RpcMessage, WireInv, TypeInv, TypeOK
        <4> QED
          BY <2>2, <4>1 DEF IssuedTags
      <3>5. Mail' \subseteq Mail
        <4>1. ~SendSucceeds(c)
          BY <2>11, SentIsSent
        <4> QED
          BY <1>8, <4>1 DEF SentCall
      <3>6. \A t \in failed' : ~OnTrack(Track, t)' /\ ~Handled(t)'
        <4> SUFFICES ASSUME NEW t \in failed'
                     PROVE  ~OnTrack(Track, t)' /\ ~Handled(t)'
          OBVIOUS
        <4>1. ~OnTrack(Track, t) /\ ~Handled(t)
          BY <2>2, <3>1 DEF HistoryInv
        <4> QED
          BY <3>2, <3>5, <4>1 DEF OnTrack, Mail
      <3>7. out'[c] = {}
        <4>1. AfterSend(c, o.message.kind, FALSE)
          BY <1>1, <2>11 DEF SendFails, SendRefused
        <4> QED
          BY <1>3, <4>1 DEF AfterSend, Waits
      <3>8. ASSUME NEW d \in Client, NEW x \in out'[d], x.message.kind # "reply"
            PROVE  /\ x.message.tag \notin failed' \cup DOMAIN returned'
                   /\ phase'[d] = "send" => ~Handled(x.message.tag)'
        <4>1. d # c /\ x \in out[d] /\ phase'[d] = phase[d]
          BY <1>6, <3>7, <3>8
        <4>2. x.message.tag = <<d, made[d]>>
          BY <3>8, <4>1 DEF OutInv, SendInv, CallOut
        <4>3. /\ x.message.tag \notin failed \cup DOMAIN returned
              /\ phase[d] = "send" => ~Handled(x.message.tag)
          BY <3>8, <4>1 DEF HistoryInv
        <4> QED
          BY <2>2, <3>1, <3>2, <4>1, <4>2, <4>3
      <3>9. \A t \in Tag : Handled(t)' => t \in IssuedTags'
        BY <3>2, <3>3 DEF HistoryInv
      <3>10. (failed \cup DOMAIN returned)' \subseteq IssuedTags'
        BY <3>1, <3>3, <3>4 DEF HistoryInv
      <3> QED
        BY <2>9, <3>6, <3>8, <3>9, <3>10 DEF HistoryInv
    <2> QED
      BY <2>10, <2>11 DEF Sends, Refused
  <1> QED
    BY <1>1, <1>7, <1>8

(* A message that the port could not receive goes with its receiver.       *)
LEMMA LossKeepsCounts ==
    ASSUME CountedInv, NEW c \in Client, ReceiveFails(c), UNCHANGED history, UNCHANGED routerVars
    PROVE  HistoryInv' /\ HandledInv'
  <1> USE DEF CountedInv, CallsInv
  <1>1. Lost(c) /\ out'[c] = {} /\ phase'[c] = "dead"
    BY LossKeepsCalls
  <1>2. /\ Grows /\ UNCHANGED <<handled, failed, returned>>
        /\ \A d \in Client \ {c} : UNCHANGED <<phase[d], out[d]>>
    BY ClientGrows DEF Blocking, history
  <1>3. UNCHANGED inLoop
    BY DEF ReceiveFails
  <1>4. Mail' \subseteq Mail /\ \A d \in Client : QueueTrack(d)' = QueueTrack(d)
    BY <1>1 DEF Lost, Others, QueuesStay
  <1>5. \A d \in Client : (Handling(d)' => Handling(d)) /\ (Entered(d) => Entered(d)')
    BY <1>1, <1>2, <1>3 DEF Entered, Handling
  <1>6. \A d \in Client : Head(QueueTrack(d))' = Head(QueueTrack(d))
    BY <1>4
  <1>7. HistoryInv'
    BY <1>1, <1>2, <1>4, HistoryStays
  <1>8. \A l \in Mail : l.to \in Client
    BY MailTypes DEF LetterSet
  <1>9. \A l \in Mail' : IsCall(l) /\ Handled(TagOf(l)) => l \in Mail /\ Entered(l.to)'
    BY <1>4, <1>5, <1>8 DEF HandledInv
  <1> QED
    BY <1>2, <1>4, <1>5, <1>6, <1>7, <1>9, HandledStays

(* An answer is the result of the one execution of its call, which the     *)
(* proxy may fail to parse.                                                *)
LEMMA AnswerKeepsCounts ==
    ASSUME CountedInv, WrongIdsAreFree, NEW c \in Client, Answers(c), UNCHANGED <<made, handled, failed>>,
           UNCHANGED routerVars
    PROVE  /\ HistoryInv' /\ HandledInv'
           /\ \E t \in Tag : \E r \in {t, NoResult} :
                /\ Handled(t) /\ t \notin DOMAIN returned
                /\ returned' = [u \in DOMAIN returned \cup {t} |-> IF u = t THEN r ELSE returned[u]]
  <1> USE DEF CountedInv, CallsInv
  <1>1. PICK o \in out[c], l \in Mail : /\ ~IsCall(l) /\ TagOf(l) = o.message.tag
                                        /\ l.payload = Head(toClient[c]).payload
                                        /\ Mail' = Others(TagOf(l)) /\ QueuesStay
    BY AnswerKeepsCalls DEF Answered
  <1>2. phase[c] = "await" /\ Answer(c)
    BY DEF Answers, Answer
  <1>3. out[c] = {o} /\ CallOut(c, o) /\ o.message.tag[1] = c
    BY <1>2, AwaitingCall
  <1>4. PICK t \in Tag : t = o.message.tag
    BY DEF WireInv, TypeInv, TypeOK, RpcMessage
  <1>5. o.message.kind = "request"
    BY <1>2 DEF WireInv, TypeInv, PhaseInv, ThreadInv
  <1>6. Handled(t) /\ t \notin failed \cup DOMAIN returned
    BY <1>1, <1>4, <1>5 DEF HandledInv, HistoryInv
  <1>7. PICK r \in {t, NoResult} :
               returned' = [u \in DOMAIN returned \cup {t} |-> IF u = t THEN r ELSE returned[u]]
    <2>1. PICK m : m = Head(toClient[c]).payload
      OBVIOUS
    <2>2. m.tag = t
      BY <1>1, <1>4, <2>1 DEF TagOf
    <2>3. \E x \in out[c] : \E r \in Results(x, m) :
            returned' = [u \in DOMAIN returned \cup {x.message.tag} |->
                           IF u = x.message.tag THEN r ELSE returned[u]]
      BY <2>1 DEF Answers
    <2>4. PICK r \in Results(o, m) :
            returned' = [u \in DOMAIN returned \cup {t} |-> IF u = t THEN r ELSE returned[u]]
      BY <1>3, <1>4, <2>3
    <2>5. r \in {t, NoResult}
      BY <2>2, <2>4 DEF Results
    <2> QED
      BY <2>4, <2>5
  <1>8. /\ \A d \in Client \ {c} : phase'[d] = phase[d] /\ out'[d] = out[d]
        /\ phase'[c] = "app" /\ out'[c] = {} /\ UNCHANGED inLoop
    BY <1>2 DEF Answer, WireInv, TypeInv, TypeOK
  <1>9. \A u : Handled(u)' <=> Handled(u)
    BY DEF Handled, HandledBy
  <1>10. HandledInv'
    <2>1. \A d \in Client : (Handling(d)' <=> Handling(d)) /\ (Entered(d)' <=> Entered(d))
      BY <1>2, <1>8 DEF Entered, Handling
    <2>2. \A d \in Client : Head(QueueTrack(d))' = Head(QueueTrack(d))
      BY <1>1 DEF QueuesStay
    <2>3. \A k \in Mail' : k \in Mail /\ k.to \in Client
      BY <1>1, MailTypes DEF Others, LetterSet
    <2>4. \A k \in Mail' : IsCall(k) /\ Handled(TagOf(k)) => k \in Mail /\ Entered(k.to)'
      BY <2>1, <2>3 DEF HandledInv
    <2> QED
      BY <2>1, <2>2, <2>3, <2>4, HandledStays
  <1>11. HistoryInv'
    <2>1. IssuedTags' = IssuedTags
      BY DEF IssuedTags
    <2>2. t \in IssuedTags
      BY <1>6 DEF HistoryInv
    <2>3. DOMAIN returned' = DOMAIN returned \cup {t}
      BY <1>7
    <2>4. \A u \in Tag : Handled(u)' => u \in IssuedTags'
      BY <1>9, <2>1 DEF HistoryInv
    <2>5. (failed \cup DOMAIN returned)' \subseteq IssuedTags'
      BY <2>1, <2>2, <2>3 DEF HistoryInv
    <2>6. \A u \in failed' : ~OnTrack(Track, u)' /\ ~Handled(u)'
      <3> SUFFICES ASSUME NEW u \in failed
                   PROVE  ~OnTrack(Track, u)' /\ ~Handled(u)'
        OBVIOUS
      <3>1. ~OnTrack(Track, u) /\ ~Handled(u)
        BY DEF HistoryInv
      <3> QED
        BY <1>1, <1>9, <3>1 DEF OnTrack, Mail, Others
    <2>7. ASSUME NEW d \in Client, NEW x \in out'[d], x.message.kind # "reply"
          PROVE  /\ x.message.tag \notin failed' \cup DOMAIN returned'
                 /\ phase'[d] = "send" => ~Handled(x.message.tag)'
      <3>1. d # c /\ x \in out[d] /\ phase'[d] = phase[d]
        BY <1>8, <2>7
      <3>2. x.message.tag = <<d, made[d]>>
        BY <2>7, <3>1 DEF OutInv, SendInv, CallOut
      <3>3. /\ x.message.tag \notin failed \cup DOMAIN returned
            /\ phase[d] = "send" => ~Handled(x.message.tag)
        BY <2>7, <3>1 DEF HistoryInv
      <3> QED
        BY <1>3, <1>4, <1>9, <2>3, <3>1, <3>2, <3>3
    <2> QED
      BY <2>4, <2>5, <2>6, <2>7 DEF HistoryInv
  <1> QED
    BY <1>6, <1>7, <1>10, <1>11

LEMMA CountedInductive == CountedInv /\ WrongIdsAreFree /\ [Next]_vars => CountedInv'
  <1> SUFFICES ASSUME CountedInv, WrongIdsAreFree, [Next]_vars
               PROVE  HistoryInv' /\ HandledInv'
    BY CallsInductive DEF CountedInv
  <1>1. CASE RouterStep /\ UNCHANGED <<channelVars, history>>
    BY <1>1, RouterKeepsCounts
  <1>2. ASSUME NEW c \in Client, Program(c), UNCHANGED routerVars
        PROVE  HistoryInv' /\ HandledInv'
    BY <1>2, QuietKeepsCounts
  <1>3. ASSUME NEW c \in Client, Blocking(c), UNCHANGED routerVars
        PROVE  HistoryInv' /\ HandledInv'
    BY <1>3, SendKeepsCounts, AnswerKeepsCounts, ReceiveKeepsCounts, LossKeepsCounts DEF Blocking
  <1>6. ASSUME NEW c \in Client, Refused(c), UNCHANGED routerVars
        PROVE  HistoryInv' /\ HandledInv'
    BY <1>6, SendKeepsCounts DEF Refused
  <1>4. ASSUME NEW c \in Client, Looping(c), UNCHANGED routerVars
        PROVE  HistoryInv' /\ HandledInv'
    BY <1>4, DispatchKeepsCounts, ReturnKeepsCounts, QuietKeepsCounts DEF Looping
  <1>5. CASE UNCHANGED vars
    <2>1. Track' = Track
      BY <1>5, QuietTrack DEF vars, portVars, routerVars, channelVars
    <2>2. UNCHANGED <<phase, inLoop, out, made, proxies, receivers, ports, handled, failed, returned>>
      BY <1>5 DEF vars, channelVars, history, routerVars
    <2>3. Mail' = Mail /\ \A d \in Client : QueueTrack(d)' = QueueTrack(d)
      BY <2>1 DEF Mail, QueueTrack
    <2>4. \A l : (IsCall(l)' <=> IsCall(l)) /\ TagOf(l)' = TagOf(l)
      BY DEF IsCall, TagOf
    <2>5. Grows
      BY <2>2 DEF Grows, ProxyIds, CountedInv, CallsInv, WireInv, TypeInv, TypeOK
    <2>6. HistoryInv'
      BY <2>2, <2>3, <2>5, HistoryStays DEF CountedInv
    <2>7. \A d \in Client : /\ (Handling(d)' <=> Handling(d)) /\ (Entered(d)' <=> Entered(d))
                            /\ Head(QueueTrack(d))' = Head(QueueTrack(d))
      BY <2>2, <2>3 DEF Handling, Entered
    <2>8. \A l \in Mail : l.to \in Client
      BY MailTypes DEF LetterSet, CountedInv, CallsInv
    <2>9. \A l \in Mail' : IsCall(l) /\ Handled(TagOf(l)) => l \in Mail /\ Entered(l.to)'
      BY <2>3, <2>7, <2>8 DEF HandledInv, CountedInv
    <2> QED
      BY <2>2, <2>3, <2>6, <2>7, <2>9, HandledStays DEF CountedInv
  <1> QED
    BY <1>1, <1>2, <1>3, <1>4, <1>5, <1>6 DEF Next

-----------------------------------------------------------------------------
(* The system implements RemoteCalls.                                      *)

(* How often a call was handled.                                           *)
LEMMA HandlingsCount ==
    ASSUME HandledInv, NEW t
    PROVE  Cardinality(Handlings(t)) = IF Handled(t) THEN 1 ELSE 0
  <1>1. \A x : x \in Handlings(t) <=>
                 \E c \in Client : \E i \in DOMAIN handled[c] : x = <<c, i>> /\ handled[c][i] = t
    BY DEF Handlings
  <1>2. CASE Handled(t)
    <2>1. PICK c \in Client : \E i \in DOMAIN handled[c] : handled[c][i] = t
      BY <1>2 DEF Handled, HandledBy, Range
    <2>2. PICK i \in DOMAIN handled[c] : handled[c][i] = t
      BY <2>1
    <2>3. Handlings(t) = {<<c, i>>}
      BY <1>1, <2>2 DEF HandledInv
    <2> QED
      BY <1>2, <2>3, FS_Singleton
  <1>3. CASE ~Handled(t)
    <2>1. Handlings(t) = {}
      BY <1>1, <1>3 DEF Handled, HandledBy, Range
    <2> QED
      BY <1>3, <2>1, FS_EmptySet
  <1> QED
    BY <1>2, <1>3

Executions == [t \in Tag |-> Cardinality(Handlings(t))]

ExecutionsCount == \A t \in Tag : Executions[t] = IF Handled(t) THEN 1 ELSE 0

LEMMA ExecutionsStay ==
    ASSUME UNCHANGED handled
    PROVE  Executions' = Executions
  BY DEF Executions, Handlings

(* The system is a system of remote calls: however many programs there are *)
(* and whatever they bind, connect and call, a call is executed at most    *)
(* once, never after its sending was reported to have failed, and one that *)
(* returns was executed and has its own result, or none if the proxy could *)
(* not parse it (cpp.py:133-151).                                          *)
THEOREM Implementation == Spec /\ []WrongIdsAreFree => ImplementsRemoteCalls
  <1> USE DEF Abstract!callVars
  <1>1. Init => Abstract!CallsInit
    <2> SUFFICES ASSUME Init
                 PROVE  Abstract!CallsInit
      OBVIOUS
    <2>1. HandledInv
      BY InitCounted DEF CountedInv
    <2>2. \A c \in Client : handled[c] = <<>> /\ made[c] = 0
      BY DEF Init
    <2>3. \A t : ~Handled(t)
      BY <2>2 DEF Handled, HandledBy, Range
    <2>4. \A t \in Tag : Cardinality(Handlings(t)) = 0
      BY <2>1, <2>3, HandlingsCount
    <2>5. {t \in Tag : t[2] <= made[t[1]]} = {}
      <3>1. \A t \in Tag : t[1] \in Client /\ t[2] \in Nat /\ t[2] >= 1
        BY DEF Tag
      <3> QED
        BY <2>2, <3>1
    <2>6. failed = {} /\ returned = [t \in {} |-> t]
      BY DEF Init
    <2> QED
      BY <2>4, <2>5, <2>6 DEF Abstract!CallsInit
  <1>2. HandledInv => ExecutionsCount
    BY HandlingsCount DEF Executions, ExecutionsCount
  <1>3. HandledInv' => ExecutionsCount'
    BY <1>2, PTL
  <1>4. CountedInv /\ CountedInv' /\ WrongIdsAreFree /\ [Next]_vars => [Abstract!CallsNext]_(Abstract!callVars)
    <2> SUFFICES ASSUME CountedInv, CountedInv', WrongIdsAreFree, [Next]_vars
                 PROVE  [Abstract!CallsNext]_(Abstract!callVars)
      OBVIOUS
    <2> USE DEF CountedInv, CallsInv
    <2>1. ASSUME UNCHANGED history
          PROVE  UNCHANGED Abstract!callVars
      <3>1. Executions' = Executions /\ IssuedTags' = IssuedTags
        BY <2>1, ExecutionsStay DEF history, IssuedTags
      <3> QED
        BY <2>1, <3>1 DEF history, Executions, IssuedTags
    <2>2. ASSUME NEW c \in Client, Calls(c), made' = [made EXCEPT ![c] = @ + 1],
                 UNCHANGED <<handled, failed, returned>>
          PROVE  Abstract!CallsNext
      <3>1. made \in [Client -> Nat] /\ made[c] < MaxCalls[c] /\ MaxCalls[c] \in Nat
        BY <2>2, MaxCallsAssumption DEF Calls, WireInv, TypeInv, TypeOK
      <3>2. PICK t : t = <<c, made[c] + 1>>
        OBVIOUS
      <3>3. t \in Tag
        <4>1. made[c] + 1 \in 1..MaxCalls[c]
          BY <3>1
        <4> QED
          BY <3>2, <4>1 DEF Tag
      <3>4. \A u \in Tag : u[1] \in Client /\ u[2] \in Nat /\ u = <<u[1], u[2]>>
        BY DEF Tag
      <3>5. t \notin IssuedTags /\ IssuedTags' = IssuedTags \cup {t}
        BY <2>2, <3>1, <3>2, <3>3, <3>4 DEF IssuedTags
      <3>6. Executions' = Executions
        BY <2>2, ExecutionsStay
      <3>7. Abstract!Issue(t)
        BY <2>2, <3>5, <3>6 DEF Abstract!Issue, Executions, IssuedTags
      <3> QED
        BY <3>3, <3>7 DEF Abstract!CallsNext
    <2>3. ASSUME NEW c \in Client, Dispatches(c), UNCHANGED <<made, failed, returned>>
          PROVE  Abstract!CallsNext
      <3>1. PICK t \in Tag : t = Head(queue[c]).message.tag
        BY <2>3, DispatchedCall
      <3>2. ~Handled(t) /\ \A u : Handled(u)' <=> (u = t \/ Handled(u))
        BY <2>3, <3>1, DispatchedCall, HandledNext DEF WireInv, TypeInv
      <3>3. t \in IssuedTags \ failed
        <4>1. Handled(t)'
          BY <3>2
        <4> QED
          BY <2>3, <4>1 DEF HistoryInv, IssuedTags
      <3>4. \A u \in Tag : /\ Executions[u] = IF Handled(u) THEN 1 ELSE 0
                           /\ Executions'[u] = IF Handled(u)' THEN 1 ELSE 0
        BY <1>2, <1>3 DEF ExecutionsCount
      <3>5. Executions[t] = 0 /\ Executions' = [Executions EXCEPT ![t] = 1]
        <4>1. Executions' = [u \in Tag |-> Executions'[u]] /\ Executions = [u \in Tag |-> Executions[u]]
          BY DEF Executions
        <4> QED
          BY <3>1, <3>2, <3>4, <4>1
      <3>6. IssuedTags' = IssuedTags
        BY <2>3 DEF IssuedTags
      <3>7. Abstract!Execute(t)
        BY <2>3, <3>3, <3>5, <3>6 DEF Abstract!Execute, Executions, IssuedTags
      <3> QED
        BY <3>1, <3>7 DEF Abstract!CallsNext
    <2>4. ASSUME NEW c \in Client, Sends(c) \/ Refused(c), UNCHANGED <<made, handled, returned>>,
                 UNCHANGED routerVars
          PROVE  Abstract!CallsNext \/ UNCHANGED Abstract!callVars
      <3>1. Executions' = Executions /\ IssuedTags' = IssuedTags
        BY <2>4, ExecutionsStay DEF IssuedTags
      <3>2. CASE UNCHANGED failed
        BY <2>4, <3>1, <3>2 DEF Executions, IssuedTags
      <3>3. CASE (SendFails(c) \/ SendRefused(c)) /\ CallFails(c)
        <4>1. PICK o \in out[c] : out[c] = {o} /\ phase[c] = "send"
          BY <3>3 DEF SendFails, SendRefused, WireInv, TypeInv, PhaseInv, ThreadInv
        <4>2. CASE o.message.kind = "reply"
          BY <3>2, <3>3, <4>1, <4>2 DEF CallFails
        <4>3. CASE o.message.kind # "reply"
          <5>1. PICK t \in Tag : t = o.message.tag
            <6>1. o \in [port : Nat, message : RpcMessage]
              BY <2>4, <4>1 DEF WireInv, TypeInv, TypeOK
            <6> QED
              BY <6>1 DEF RpcMessage
          <5>2. failed' = failed \cup {t}
            BY <3>3, <4>1, <4>3, <5>1 DEF CallFails
          <5>3. t \notin failed /\ ~Handled(t)
            BY <4>1, <4>3, <5>1 DEF HistoryInv
          <5>4. t \in IssuedTags
            BY <3>1, <5>2 DEF HistoryInv
          <5>5. Executions[t] = 0
            BY <1>2, <5>3 DEF ExecutionsCount
          <5>6. Abstract!Fail(t)
            BY <2>4, <3>1, <5>2, <5>3, <5>4, <5>5 DEF Abstract!Fail, Executions, IssuedTags
          <5> QED
            BY <5>6 DEF Abstract!CallsNext
        <4> QED
          BY <4>2, <4>3
      <3> QED
        BY <2>4, <3>2, <3>3 DEF Sends, Refused
    <2>5. ASSUME NEW c \in Client, Answers(c), UNCHANGED <<made, handled, failed>>, UNCHANGED routerVars
          PROVE  Abstract!CallsNext
      <3>1. PICK t \in Tag : \E r \in {t, NoResult} :
              /\ Handled(t) /\ t \notin DOMAIN returned
              /\ returned' = [u \in DOMAIN returned \cup {t} |-> IF u = t THEN r ELSE returned[u]]
        BY <2>5, AnswerKeepsCounts
      <3>2. Executions[t] = 1
        BY <3>1, HandlingsCount DEF Executions
      <3>3. Executions' = Executions /\ IssuedTags' = IssuedTags
        BY <2>5, ExecutionsStay DEF IssuedTags
      <3>4. Abstract!Return(t)
        BY <2>5, <3>1, <3>2, <3>3 DEF Abstract!Return, Executions, IssuedTags
      <3> QED
        BY <3>1, <3>4 DEF Abstract!CallsNext
    <2> QED
      BY <2>1, <2>2, <2>3, <2>4, <2>5 DEF Next, Program, Blocking, Refused, Looping, vars, history
  <1> QED
    BY <1>1, <1>4, InitCounted, CountedInductive, PTL DEF Spec, ImplementsRemoteCalls, Abstract!CallsSpec

-----------------------------------------------------------------------------
(* Order on the tracks.                                                    *)

LEMMA Stages ==
    /\ \A p \in Place : Stage[p[1]] \in 1..4
    /\ \A p, q \in Place : Stage[p[1]] = Stage[q[1]] => p[1] = q[1]
    /\ \A c \in Client : /\ Stage[<<"toRouter", c>>[1]] = 4 /\ Stage[<<"held", c>>[1]] = 3
                         /\ Stage[<<"toClient", c>>[1]] = 2 /\ Stage[<<"queue", c>>[1]] = 1
  <1>1. /\ Stage["queue"] = 1 /\ Stage["toClient"] = 2 /\ Stage["held"] = 3 /\ Stage["toRouter"] = 4
    BY DEF Stage
  <1>2. \A p \in Place : p[1] \in {"toRouter", "held", "toClient", "queue"}
    BY DEF Place
  <1> QED
    BY <1>1, <1>2

(* Letters taken from the front of tracks leave the others in order.       *)
LEMMA OrderedRest ==
    ASSUME NEW track \in Tracks, NEW new \in Tracks, NEW shift \in [Place -> Nat], Ordered(track),
           \A p \in Place : \A i \in DOMAIN new[p] :
             i + shift[p] \in DOMAIN track[p] /\ new[p][i] = track[p][i + shift[p]]
    PROVE  Ordered(new)
  <1> SUFFICES ASSUME NEW p \in Place, NEW q \in Place, NEW i \in DOMAIN new[p], NEW j \in DOMAIN new[q],
                      Stage[p[1]] < Stage[q[1]] \/ (p = q /\ i < j),
                      SameWay(new[p][i], new[q][j])
               PROVE  TagOf(new[p][i])[2] < TagOf(new[q][j])[2]
    BY DEF Ordered
  <1>1. /\ i + shift[p] \in DOMAIN track[p] /\ new[p][i] = track[p][i + shift[p]]
        /\ j + shift[q] \in DOMAIN track[q] /\ new[q][j] = track[q][j + shift[q]]
    OBVIOUS
  <1>2. p = q /\ i < j => i + shift[p] < j + shift[q]
    <2>1. new[p] \in Seq(LetterSet) /\ new[q] \in Seq(LetterSet)
      BY DEF Tracks
    <2>2. i \in Nat /\ j \in Nat /\ shift[p] \in Nat
      BY <2>1
    <2> QED
      BY <2>2
  <1> QED
    BY <1>1, <1>2 DEF Ordered

LEMMA OrderedTake ==
    ASSUME NEW track \in Tracks, NEW p \in Place, track[p] # <<>>, Unique(track), Ordered(track)
    PROVE  Ordered(Take(track, p))
  <1>1. Take(track, p) \in Tracks
    BY TakeEffect
  <1>2. PICK n \in [Place -> Nat] : n = [q \in Place |-> IF q = p THEN 1 ELSE 0]
    OBVIOUS
  <1>3. ASSUME NEW q \in Place, NEW i \in DOMAIN Take(track, p)[q]
        PROVE  i + n[q] \in DOMAIN track[q] /\ Take(track, p)[q][i] = track[q][i + n[q]]
    <2>1. track[q] \in Seq(LetterSet)
      BY DEF Tracks
    <2>2. CASE q = p
      <3>1. Take(track, p)[q] = Tail(track[q]) /\ n[q] = 1
        BY <1>2, <2>2 DEF Take, Tracks
      <3> QED
        BY <1>3, <2>1, <2>2, <3>1
    <2>3. CASE q # p
      <3>1. Take(track, p)[q] = track[q] /\ n[q] = 0
        BY <1>2, <2>3 DEF Take, Tracks
      <3>2. i \in Nat
        BY <1>3, <2>1, <3>1
      <3> QED
        BY <1>3, <3>1, <3>2
    <2> QED
      BY <2>2, <2>3
  <1> QED
    BY <1>1, <1>3, OrderedRest

LEMMA OrderedClear ==
    ASSUME NEW track \in Tracks, NEW p \in Place, Unique(track), Ordered(track)
    PROVE  Ordered(Clear(track, p))
  <1>1. Clear(track, p) \in Tracks
    BY ClearEffect
  <1>2. \A q \in Place : Clear(track, p)[q] = IF q = p THEN <<>> ELSE track[q]
    BY DEF Clear, Tracks
  <1>3. DOMAIN <<>> = {}
    OBVIOUS
  <1> QED
    BY <1>2, <1>3 DEF Ordered

LEMMA OrderedPut ==
    ASSUME NEW track \in Tracks, NEW q \in Place, NEW l \in LetterSet, Ordered(track),
           \A p \in Place : \A i \in DOMAIN track[p] :
             SameWay(track[p][i], l) =>
                 /\ Stage[p[1]] < Stage[q[1]] \/ p = q => TagOf(track[p][i])[2] < TagOf(l)[2]
                 /\ Stage[q[1]] < Stage[p[1]] => TagOf(l)[2] < TagOf(track[p][i])[2]
    PROVE  Ordered(Put(track, q, l))
  <1>1. PICK new : new = Put(track, q, l)
    OBVIOUS
  <1>2. \A p \in Place : new[p] = IF p = q THEN Append(track[q], l) ELSE track[p]
    BY <1>1 DEF Put, Tracks
  <1>3. track[q] \in Seq(LetterSet)
    BY DEF Tracks
  <1>4. PICK n \in Nat : n = Len(track[q])
    BY <1>3
  <1>5. ASSUME NEW p \in Place, NEW i \in DOMAIN new[p]
        PROVE  \/ i \in DOMAIN track[p] /\ new[p][i] = track[p][i] /\ (p = q => i <= n)
               \/ p = q /\ i = n + 1 /\ new[p][i] = l
    <2>1. CASE p = q
      <3>1. new[p] = Append(track[q], l)
        BY <1>2, <2>1
      <3>2. /\ DOMAIN Append(track[q], l) = 1..n + 1 /\ DOMAIN track[q] = 1..n
            /\ \A k \in 1..n : Append(track[q], l)[k] = track[q][k]
            /\ Append(track[q], l)[n + 1] = l
        BY <1>3, <1>4
      <3>3. i \in 1..n \/ i = n + 1
        BY <1>5, <3>1, <3>2
      <3> QED
        BY <2>1, <3>1, <3>2, <3>3
    <2>2. CASE p # q
      BY <1>2, <1>5, <2>2
    <2> QED
      BY <2>1, <2>2
  <1>6. ASSUME NEW p \in Place, NEW r \in Place, NEW i \in DOMAIN new[p], NEW j \in DOMAIN new[r],
               Stage[p[1]] < Stage[r[1]] \/ (p = r /\ i < j), SameWay(new[p][i], new[r][j])
        PROVE  TagOf(new[p][i])[2] < TagOf(new[r][j])[2]
    <2>1. CASE i \in DOMAIN track[p] /\ new[p][i] = track[p][i]
      <3>1. CASE j \in DOMAIN track[r] /\ new[r][j] = track[r][j]
        BY <1>6, <2>1, <3>1 DEF Ordered
      <3>2. CASE r = q /\ new[r][j] = l
        BY <1>6, <2>1, <3>2
      <3> QED
        BY <1>5, <3>1, <3>2
    <2>2. CASE p = q /\ i = n + 1 /\ new[p][i] = l
      <3>1. CASE j \in DOMAIN track[r] /\ new[r][j] = track[r][j] /\ (r = q => j <= n)
        <4>1. p # r
          <5>1. p = r => i <= n
            <6>1. p = r => j \in Nat
              BY <1>3, <2>2, <3>1
            <6> QED
              BY <1>4, <1>6, <2>2, <3>1, <6>1, Stages
          <5> QED
            BY <1>4, <2>2, <5>1
        <4>2. SameWay(track[r][j], l)
          BY <1>6, <2>2, <3>1 DEF SameWay
        <4> QED
          BY <1>6, <2>2, <3>1, <4>1, <4>2
      <3>2. CASE r = q /\ j = n + 1
        BY <1>4, <1>6, <2>2, <3>2, Stages
      <3> QED
        BY <1>5, <3>1, <3>2
    <2> QED
      BY <1>5, <2>1, <2>2
  <1> QED
    BY <1>1, <1>6 DEF Ordered

(* A letter's place says whom it is from, or whom it is for.               *)
Placed(track) ==
    \A p \in Place : \A i \in DOMAIN track[p] :
        IF p[1] = "toRouter" THEN track[p][i].from = p[2] ELSE track[p][i].to = p[2]

LEMMA TrackPlaced == WireInv => Placed(Track)
  <1> SUFFICES ASSUME WireInv, NEW p \in Place, NEW i \in DOMAIN Track[p]
               PROVE  IF p[1] = "toRouter" THEN Track[p][i].from = p[2] ELSE Track[p][i].to = p[2]
    BY DEF Placed
  <1>1. PICK c \in Client : \/ p = <<"toRouter", c>> \/ p = <<"held", c>>
                            \/ p = <<"toClient", c>> \/ p = <<"queue", c>>
    BY Places
  <1>2. /\ \A j \in DOMAIN toRouter[c] : toRouter[c][j] \in Addressed
        /\ \A j \in DOMAIN toClient[c] : toClient[c][j] \in Addressed
        /\ \A j \in DOMAIN queue[c] : queue[c][j] \in AddressedPending
    BY LetterTypes
  <1>3. CASE p = <<"toRouter", c>>
    <2>1. i \in DOMAIN toRouter[c] /\ Track[p][i] = Sent(c)[toRouter[c][i]]
      BY <1>3, TrackAt, TrackMessages DEF Over
    <2> QED
      BY <1>2, <1>3, <2>1 DEF Sent, Letter
  <1>4. CASE p = <<"held", c>>
    <2>1. HeldFor(c) # {} /\ Track[p] = HeldTrack(c)
      <3>1. Track[p] = HeldTrack(c)
        BY <1>4, TrackAt
      <3> QED
        BY <3>1 DEF HeldTrack
    <2>2. PICK h \in held : h.port = c
      BY <2>1 DEF HeldFor
    <2>3. Track[p] = <<Routed(h)>> /\ Routed(h).to = c
      BY <1>4, <2>2, HeldMessage DEF Routed, Letter
    <2> QED
      BY <1>4, <2>3
  <1>5. CASE p = <<"toClient", c>>
    <2>1. i \in DOMAIN toClient[c] /\ Track[p][i] = Incoming(c)[toClient[c][i]]
      BY <1>5, TrackAt, TrackMessages DEF Over
    <2> QED
      BY <1>2, <1>5, <2>1 DEF Incoming, Letter
  <1>6. CASE p = <<"queue", c>>
    <2>1. i \in DOMAIN queue[c] /\ Track[p][i] = Waiting(c)[queue[c][i]]
      BY <1>6, TrackAt, TrackMessages DEF Over
    <2> QED
      BY <1>2, <1>6, <2>1 DEF Waiting, Letter
  <1> QED
    BY <1>1, <1>3, <1>4, <1>5, <1>6

(* A letter that moves one place on stays in its order.                    *)
LEMMA OrderedMove ==
    ASSUME NEW track \in Tracks, NEW p \in Place, NEW q \in Place, track[p] # <<>>,
           Unique(track), Ordered(track), Placed(track), Stage[p[1]] = Stage[q[1]] + 1
    PROVE  Ordered(Put(Take(track, p), q, Head(track[p])))
  <1>1. PICK l \in LetterSet : l = Head(track[p])
    BY TakeEffect
  <1>2. PICK rest \in Tracks : rest = Take(track, p) /\ Ordered(rest)
    BY TakeEffect, OrderedTake
  <1>3. track[p] \in Seq(LetterSet) /\ 1 \in DOMAIN track[p] /\ l = track[p][1]
    BY <1>1 DEF Tracks
  <1>4. ASSUME NEW r \in Place, NEW i \in DOMAIN rest[r], SameWay(rest[r][i], l)
        PROVE  /\ Stage[r[1]] < Stage[q[1]] \/ r = q => TagOf(rest[r][i])[2] < TagOf(l)[2]
               /\ Stage[q[1]] < Stage[r[1]] => TagOf(l)[2] < TagOf(rest[r][i])[2]
    <2>1. PICK k \in DOMAIN track[r] : rest[r][i] = track[r][k] /\ (r = p => 1 < k)
      <3>1. CASE r = p
        <4>1. rest[r] = Tail(track[p])
          BY <1>2, <3>1 DEF Take, Tracks
        <4>2. i + 1 \in DOMAIN track[p] /\ Tail(track[p])[i] = track[p][i + 1] /\ 1 < i + 1
          BY <1>3, <1>4, <4>1
        <4> QED
          BY <3>1, <4>1, <4>2
      <3>2. CASE r # p
        <4>1. rest[r] = track[r]
          BY <1>2, <3>2 DEF Take, Tracks
        <4> QED
          BY <1>4, <3>2, <4>1
      <3> QED
        BY <3>1, <3>2
    <2>2. SameWay(track[r][k], l) /\ SameWay(l, track[r][k])
      BY <1>4, <2>1 DEF SameWay
    <2>3. Stage[p[1]] \in 1..4 /\ Stage[q[1]] \in 1..4 /\ Stage[r[1]] \in 1..4
      BY Stages
    <2>4. CASE Stage[r[1]] < Stage[q[1]] \/ r = q
      <3>1. Stage[r[1]] < Stage[p[1]] /\ ~(Stage[q[1]] < Stage[r[1]])
        BY <2>3, <2>4
      <3> QED
        BY <1>3, <2>1, <2>2, <3>1 DEF Ordered
    <2>5. CASE Stage[p[1]] < Stage[r[1]]
      <3>1. ~(Stage[r[1]] < Stage[q[1]]) /\ r # q
        BY <2>3, <2>5
      <3> QED
        BY <1>3, <2>1, <2>2, <2>5, <3>1 DEF Ordered
    <2>6. CASE Stage[r[1]] = Stage[p[1]]
      <3>1. r[1] = p[1]
        BY <2>6, Stages
      <3>2. r[2] = p[2]
        <4>1. l.from = track[r][k].from /\ l.to = track[r][k].to
          BY <2>2 DEF SameWay
        <4> QED
          BY <1>3, <3>1, <4>1 DEF Placed
      <3>3. r = p
        BY <3>1, <3>2 DEF Place
      <3>4. TagOf(l)[2] < TagOf(track[r][k])[2]
        BY <1>3, <2>1, <2>2, <3>3 DEF Ordered
      <3>5. ~(Stage[r[1]] < Stage[q[1]]) /\ r # q
        BY <2>3, <2>6
      <3> QED
        BY <2>1, <3>4, <3>5
    <2> QED
      BY <2>3, <2>4, <2>5, <2>6
  <1>5. \A r \in Place : \A i \in DOMAIN rest[r] :
          SameWay(rest[r][i], l) =>
            /\ Stage[r[1]] < Stage[q[1]] \/ r = q => TagOf(rest[r][i])[2] < TagOf(l)[2]
            /\ Stage[q[1]] < Stage[r[1]] => TagOf(l)[2] < TagOf(rest[r][i])[2]
    BY <1>4
  <1> QED
    BY <1>1, <1>2, <1>5, OrderedPut

-----------------------------------------------------------------------------
(* Calls are handled in the order their caller made them.                  *)

LEMMA MoveKeepsOrder ==
    ASSUME WireInv, UniqueInv, Ordered(Track), NEW p \in Place, NEW q \in Place, Moves(p, q),
           Stage[p[1]] = Stage[q[1]] + 1
    PROVE  Ordered(Track')
  BY TracksType, TrackPlaced, OrderedMove DEF Moves, UniqueInv

LEMMA EarlierTag ==
    ASSUME NEW c \in Client, made[c] \in Nat, NEW t \in IssuedTags, t[1] = c, t # <<c, made[c]>>
    PROVE  t[2] < made[c]
  <1>1. t = <<t[1], t[2]>> /\ t[2] \in Nat /\ t[2] <= made[c]
    BY DEF IssuedTags, Tag
  <1>2. t[2] # made[c]
    BY <1>1
  <1> QED
    BY <1>1, <1>2

(* A call is put behind those of its caller that are still on their way.   *)
LEMMA SendKeepsOrder ==
    ASSUME CallsInv, Ordered(Track), NEW c \in Client, Sends(c) \/ Refused(c), UNCHANGED routerVars
    PROVE  Ordered(Track')
  <1> USE DEF CallsInv
  <1>1. Track \in Tracks /\ Unique(Track)
    BY TracksType DEF UniqueInv
  <1>2. PICK o \in out[c] :
             /\ phase[c] = "send" /\ out[c] = {o}
             /\ Letter(c, ports[o.port], o.message) \in LetterSet
             /\ o.message.kind = "reply" => QueueTrack(c) # <<>>
    BY SendEffect DEF Sends, Refused
  <1>3. PICK L \in LetterSet : L = Letter(c, ports[o.port], o.message)
    BY <1>2
  <1>4. \A d \in Client : <<"queue", d>> \in Place /\ <<"toRouter", d>> \in Place /\ <<"toClient", d>> \in Place
    BY DEF Place
  <1>5. PICK rest \in Tracks : rest = Rest(c, o) /\ Unique(rest) /\ Ordered(rest) /\ On(rest) \subseteq Mail
    <2>1. CASE o.message.kind = "reply"
      BY <1>1, <1>2, <1>4, <2>1, TakeEffect, OrderedTake DEF Rest, QueueTrack, Mail
    <2>2. CASE o.message.kind # "reply"
      BY <1>1, <2>2 DEF Rest, Mail
    <2> QED
      BY <2>1, <2>2
  <1>6. CASE SendFails(c)
    BY <1>2, <1>4, <1>5, <1>6, SendFailsClears, OrderedClear
  <1>8. CASE SendRefused(c)
    BY <1>2, <1>5, <1>8, RefusedLeaves
  <1>7. CASE SendSucceeds(c)
    <2>1. Track' = Put(rest, <<"toRouter", c>>, L)
      BY <1>2, <1>3, <1>5, <1>7, SendPuts
    <2>2. ASSUME NEW p \in Place, NEW i \in DOMAIN rest[p], SameWay(rest[p][i], L)
          PROVE  TagOf(rest[p][i])[2] < TagOf(L)[2]
      <3>1. PICK k \in Mail : k = rest[p][i]
        BY <1>5 DEF On, Range
      <3>2. IsCall(L) /\ IsCall(k) /\ k.from = c
        BY <1>3, <2>2, <3>1 DEF SameWay, Letter
      <3>3. CallOut(c, o) /\ TagOf(L) = o.message.tag
        BY <1>3, <3>2 DEF OutInv, SendInv, IsCall, Letter, TagOf
      <3>4. TagOf(L) = <<c, made[c]>> /\ TagOf(k) # TagOf(L)
        BY <1>2, <3>3 DEF CallOut, OnTrack, Mail
      <3>5. TagOf(k) \in IssuedTags /\ TagOf(k)[1] = c
        BY <3>2 DEF MailInv, LetterInv, CallLetter
      <3>6. made[c] \in Nat
        BY DEF WireInv, TypeInv, TypeOK
      <3> QED
        BY <3>1, <3>4, <3>5, <3>6, EarlierTag
    <2>3. \A p \in Place : ~(Stage[<<"toRouter", c>>[1]] < Stage[p[1]])
      BY Stages
    <2> QED
      BY <1>4, <1>5, <2>1, <2>2, <2>3, OrderedPut
  <1> QED
    BY <1>6, <1>7, <1>8 DEF Sends, Refused

LEMMA TrackKeepsOrder ==
    ASSUME CallsInv, Ordered(Track), [Next]_vars
    PROVE  Ordered(Track')
  <1> USE DEF CallsInv
  <1>1. Track \in Tracks /\ Unique(Track)
    BY TracksType DEF UniqueInv
  <1>2. \A d \in Client : /\ <<"queue", d>> \in Place /\ <<"toRouter", d>> \in Place
                          /\ <<"toClient", d>> \in Place /\ <<"held", d>> \in Place
    BY DEF Place
  <1>3. CASE RouterStep /\ UNCHANGED <<channelVars, history>>
    <2>1. ASSUME NEW d \in Client, Track' = Clear(Track, <<"held", d>>)
          PROVE  Ordered(Track')
      BY <1>1, <1>2, <2>1, OrderedClear
    <2>2. ASSUME NEW s \in Client, NEW d \in Client, Moves(<<"toRouter", s>>, <<"held", d>>)
          PROVE  Ordered(Track')
      <3>1. PICK p \in Place, q \in Place : p = <<"toRouter", s>> /\ q = <<"held", d>>
        BY <1>2
      <3>2. Moves(p, q) /\ Stage[p[1]] = Stage[q[1]] + 1
        BY <2>2, <3>1, Stages
      <3> QED
        BY <3>2, MoveKeepsOrder
    <2>3. ASSUME NEW d \in Client, Moves(<<"held", d>>, <<"toClient", d>>)
          PROVE  Ordered(Track')
      <3>1. PICK p \in Place, q \in Place : p = <<"held", d>> /\ q = <<"toClient", d>>
        BY <1>2
      <3>2. Moves(p, q) /\ Stage[p[1]] = Stage[q[1]] + 1
        BY <2>3, <3>1, Stages
      <3> QED
        BY <3>2, MoveKeepsOrder
    <2>4. ASSUME NEW s \in Client, Track[<<"toRouter", s>>] # <<>>, Track' = Take(Track, <<"toRouter", s>>)
          PROVE  Ordered(Track')
      BY <1>1, <1>2, <2>4, OrderedTake
    <2> QED
      BY <1>3, <2>1, <2>2, <2>3, <2>4, RouterTrack
  <1>4. ASSUME NEW c \in Client, Program(c) \/ Blocking(c) \/ Refused(c) \/ Looping(c),
               UNCHANGED routerVars
        PROVE  Ordered(Track')
    <2>1. CASE Sends(c) \/ Refused(c)
      BY <1>4, <2>1, SendKeepsOrder
    <2>2. CASE Answers(c) \/ ReceiveFails(c)
      <3>1. ClientReceives(c) /\ UNCHANGED queue
        BY <2>2 DEF Answers, Answer, ReceiveFails
      <3> QED
        BY <1>1, <1>2, <1>4, <3>1, AnswerTakes, OrderedTake
    <2>3. CASE Defer(c) \/ LoopReceive(c)
      <3>1. PICK p \in Place, q \in Place : p = <<"toClient", c>> /\ q = <<"queue", c>>
        BY <1>2
      <3>2. Moves(p, q) /\ Stage[p[1]] = Stage[q[1]] + 1
        BY <1>4, <2>3, <3>1, ReceiveMoves, Stages
      <3> QED
        BY <3>2, MoveKeepsOrder
    <2>4. CASE HandlerReturns(c)
      BY <1>1, <1>2, <1>4, <2>4, ReturnTakes, OrderedTake DEF QueueTrack
    <2>5. CASE \/ Program(c) \/ Dispatches(c) \/ EnterLoop(c) \/ DispatchUnknown(c) \/ HandlerReplies(c)
      BY <1>4, <2>5, QuietSteps
    <2> QED
      BY <1>4, <2>1, <2>2, <2>3, <2>4, <2>5 DEF Blocking, Looping
  <1>5. CASE UNCHANGED vars
    BY <1>5, QuietTrack DEF vars, portVars, routerVars, channelVars
  <1> QED
    BY <1>3, <1>4, <1>5 DEF Next

(* Of its way's calls, the one at the head of the queue was made first.    *)
LEMMA HeadIsFirst ==
    ASSUME WireInv, Ordered(Track), NEW c \in Client, QueueTrack(c) # <<>>,
           NEW l \in Mail, l # Head(QueueTrack(c)), SameWay(Head(QueueTrack(c)), l), l.to = c
    PROVE  TagOf(Head(QueueTrack(c)))[2] < TagOf(l)[2]
  <1>1. PICK p \in Place : p = <<"queue", c>>
    BY DEF Place
  <1>2. QueueTrack(c) = Track[p] /\ Track[p] \in Seq(LetterSet)
    BY <1>1, MailTypes DEF QueueTrack
  <1>3. 1 \in DOMAIN Track[p] /\ Head(QueueTrack(c)) = Track[p][1]
    BY <1>2
  <1>4. PICK q \in Place : \E j \in DOMAIN Track[q] : Track[q][j] = l
    BY DEF Mail, On, Range
  <1>5. PICK j \in DOMAIN Track[q] : Track[q][j] = l
    BY <1>4
  <1>6. CASE q[1] = "queue"
    <2>1. q[2] = c
      BY <1>5, <1>6, TrackPlaced DEF Placed
    <2>2. q = p
      BY <1>1, <1>6, <2>1 DEF Place
    <2>3. j \in Nat \ {0} /\ j # 1
      BY <1>2, <1>3, <1>5, <2>2
    <2>4. 1 < j
      BY <2>3
    <2> QED
      BY <1>3, <1>5, <2>2, <2>4 DEF Ordered
  <1>7. CASE q[1] # "queue"
    <2>1. Stage[p[1]] = 1 /\ Stage[q[1]] \in 1..4 /\ Stage[q[1]] # Stage[p[1]]
      BY <1>1, <1>7, Stages
    <2>2. Stage[p[1]] < Stage[q[1]]
      BY <2>1
    <2> QED
      BY <1>3, <1>5, <2>2 DEF Ordered
  <1> QED
    BY <1>6, <1>7

(* Steps that enter no handler, and post no call.                          *)
LEMMA LaterStays ==
    ASSUME LaterInv, HandledInOrder, UNCHANGED handled, \A l \in Mail' : IsCall(l) => l \in Mail
    PROVE  LaterInv' /\ HandledInOrder'
  <1>1. \A t : Handled(t)' <=> Handled(t)
    BY DEF Handled, HandledBy
  <1>2. LaterInv'
    <2> SUFFICES ASSUME NEW c \in Client, NEW t \in HandledBy(c), NEW l \in Mail',
                        IsCall(l), l.from = t[1], l.to = c, ~Handled(TagOf(l))'
                 PROVE  t[2] < TagOf(l)[2]
      BY DEF LaterInv, HandledBy, IsCall, TagOf
    <2> QED
      BY <1>1 DEF LaterInv, TagOf
  <1> QED
    BY <1>2 DEF HandledInOrder

LEMMA SendKeepsLater ==
    ASSUME CountedInv, LaterInv, HandledInOrder, NEW c \in Client, Sends(c) \/ Refused(c),
           UNCHANGED <<made, handled, returned>>, UNCHANGED routerVars
    PROVE  LaterInv' /\ HandledInOrder'
  <1> USE DEF CountedInv, CallsInv
  <1>1. PICK o \in out[c] : out[c] = {o} /\ (SentCall(c, o) \/ SentReply(c, o))
    BY SendKeepsCalls
  <1>2. CASE SentReply(c, o)
    <2>1. PICK h \in Mail : h = Head(QueueTrack(c)) /\ h \in LetterSet
      BY <1>2, MailTypes DEF SentReply
    <2>2. ~IsCall(Reply(h))
      BY <2>1 DEF Reply, Letter, IsCall, LetterSet, RpcMessage
    <2>3. \A l \in Mail' : IsCall(l) => l \in Mail
      BY <1>2, <2>1, <2>2 DEF SentReply, Others
    <2> QED
      BY <2>3, LaterStays
  <1>3. CASE SentCall(c, o)
    <2>1. PICK L : L = Letter(c, ports[o.port], o.message)
      OBVIOUS
    <2>2. L.from = c /\ TagOf(L) = o.message.tag
      BY <2>1 DEF Letter, TagOf
    <2>3. CallOut(c, o) /\ phase[c] = "send" /\ o.message.kind # "reply"
      BY <1>3 DEF SentCall, OutInv, SendInv, Sends, SendSucceeds, SendFails, Refused, SendRefused
    <2>4. TagOf(L) = <<c, made[c]>> /\ made[c] \in Nat
      BY <2>2, <2>3 DEF CallOut, WireInv, TypeInv, TypeOK
    <2>5. \A l \in Mail' : l \in Mail \/ l = L
      BY <1>3, <2>1 DEF SentCall
    <2>6. \A t : Handled(t)' <=> Handled(t)
      BY DEF Handled, HandledBy
    <2>7. ASSUME NEW d \in Client, NEW t \in HandledBy(d), NEW l \in Mail',
                 IsCall(l), l.from = t[1], l.to = d, ~Handled(TagOf(l))'
          PROVE  t[2] < TagOf(l)[2]
      <3>1. CASE l \in Mail
        BY <2>6, <2>7, <3>1 DEF LaterInv, TagOf
      <3>2. CASE l = L
        <4>1. Handled(t) /\ ~Handled(TagOf(L))
          BY <2>6, <2>7, <3>2 DEF Handled, TagOf
        <4>2. handled[d] \in Seq(Tag)
          BY DEF WireInv, TypeInv, TypeOK
        <4>3. t \in Tag
          BY <2>7, <4>2 DEF HandledBy, Range
        <4>4. t \in IssuedTags /\ t # <<c, made[c]>> /\ t[1] = c
          BY <2>2, <2>4, <2>7, <3>2, <4>1, <4>3 DEF HistoryInv
        <4>5. t[2] < made[c]
          BY <2>4, <4>4, EarlierTag
        <4> QED
          BY <2>4, <3>2, <4>5
      <3> QED
        BY <2>5, <2>7, <3>1, <3>2
    <2>8. LaterInv'
      BY <2>7 DEF LaterInv, HandledBy, IsCall, TagOf
    <2> QED
      BY <2>8 DEF HandledInOrder
  <1> QED
    BY <1>1, <1>2, <1>3

LEMMA DispatchKeepsLater ==
    ASSUME CountedInv, Ordered(Track), LaterInv, HandledInOrder, NEW c \in Client, Dispatches(c),
           UNCHANGED routerVars
    PROVE  LaterInv' /\ HandledInOrder'
  <1> USE DEF CountedInv, CallsInv
  <1>1. PICK h \in Mail : /\ h = Head(QueueTrack(c)) /\ IsCall(h) /\ h.to = c
                          /\ TagOf(h) = Head(queue[c]).message.tag
    BY DispatchedCall
  <1>2. PICK t \in Tag : t = TagOf(h) /\ ~Handled(t)
    BY <1>1, DispatchedCall
  <1>3. QueueTrack(c) # <<>> /\ h.from = t[1]
    BY <1>1, <1>2, DispatchedCall, QueueHead DEF QueueTrack, MailInv, LetterInv, CallLetter
  <1>4. /\ handled' = [handled EXCEPT ![c] = Append(handled[c], t)]
        /\ handled \in [Client -> Seq(Tag)]
        /\ \A u : Handled(u)' <=> (u = t \/ Handled(u))
    BY <1>1, <1>2, HandledNext DEF WireInv, TypeInv, TypeOK
  <1>5. Mail' = Mail
    BY QuietSteps DEF Mail
  <1>6. \A d \in Client : HandledBy(d)' = IF d = c THEN HandledBy(c) \cup {t} ELSE HandledBy(d)
    <2>1. Range(Append(handled[c], t)) = Range(handled[c]) \cup {t}
      BY <1>4, AppendRange
    <2> QED
      BY <1>4, <2>1 DEF HandledBy
  <1>7. ASSUME NEW d \in Client, NEW u \in HandledBy(d)', NEW l \in Mail,
               IsCall(l), l.from = u[1], l.to = d, ~Handled(TagOf(l))'
        PROVE  u[2] < TagOf(l)[2]
    <2>1. TagOf(l) # t /\ ~Handled(TagOf(l))
      BY <1>4, <1>7 DEF TagOf
    <2>2. CASE u \in HandledBy(d)
      BY <1>7, <2>1, <2>2 DEF LaterInv
    <2>3. CASE d = c /\ u = t
      <3>1. l # h /\ SameWay(h, l)
        BY <1>1, <1>2, <1>3, <1>7, <2>1, <2>3 DEF SameWay
      <3> QED
        BY <1>1, <1>2, <1>3, <1>7, <2>3, <3>1, HeadIsFirst
    <2> QED
      BY <1>6, <1>7, <2>2, <2>3
  <1>8. LaterInv'
    BY <1>5, <1>7 DEF LaterInv, IsCall, TagOf
  <1>9. ASSUME NEW d \in Client, NEW i \in DOMAIN handled'[d], NEW j \in DOMAIN handled'[d],
               i < j, handled'[d][i][1] = handled'[d][j][1]
        PROVE  handled'[d][i][2] < handled'[d][j][2]
    <2>1. CASE d # c
      <3>1. handled'[d] = handled[d]
        BY <1>4, <2>1
      <3> QED
        BY <1>9, <3>1 DEF HandledInOrder
    <2>2. CASE d = c
      <3>1. handled'[c] = Append(handled[c], t) /\ handled[c] \in Seq(Tag)
        BY <1>4
      <3>2. PICK n \in Nat : n = Len(handled[c])
        BY <3>1
      <3>3. /\ DOMAIN handled'[c] = 1..n + 1 /\ DOMAIN handled[c] = 1..n
            /\ handled'[c][n + 1] = t
            /\ \A k \in 1..n : handled'[c][k] = handled[c][k]
        BY <3>1, <3>2
      <3>4. i \in 1..n /\ (j \in 1..n \/ j = n + 1)
        BY <1>9, <2>2, <3>3
      <3>5. CASE j \in 1..n
        BY <1>9, <2>2, <3>3, <3>4, <3>5 DEF HandledInOrder
      <3>6. CASE j = n + 1
        <4>1. handled[c][i] \in HandledBy(c)
          BY <3>3, <3>4 DEF HandledBy, Range
        <4>2. handled[c][i][1] = t[1]
          BY <1>9, <2>2, <3>3, <3>4, <3>6
        <4>3. handled[c][i][2] < t[2]
          BY <1>1, <1>2, <1>3, <4>1, <4>2 DEF LaterInv
        <4> QED
          BY <2>2, <3>3, <3>4, <3>6, <4>3
      <3> QED
        BY <3>4, <3>5, <3>6
    <2> QED
      BY <2>1, <2>2
  <1> QED
    BY <1>8, <1>9 DEF HandledInOrder

LEMMA LaterInductive ==
    CountedInv /\ WrongIdsAreFree /\ OrderInv /\ [Next]_vars => LaterInv' /\ HandledInOrder'
  <1> SUFFICES ASSUME CountedInv, WrongIdsAreFree, OrderInv, [Next]_vars
               PROVE  LaterInv' /\ HandledInOrder'
    OBVIOUS
  <1> USE DEF CountedInv, CallsInv, OrderInv
  <1>1. CASE RouterStep /\ UNCHANGED <<channelVars, history>>
    <2>1. Mail' \subseteq Mail /\ UNCHANGED handled
      BY <1>1, RouterMail DEF history
    <2> QED
      BY <2>1, LaterStays
  <1>2. ASSUME NEW c \in Client, Program(c) \/ Blocking(c) \/ Refused(c) \/ Looping(c),
               UNCHANGED routerVars
        PROVE  LaterInv' /\ HandledInOrder'
    <2>1. CASE (Sends(c) \/ Refused(c)) /\ UNCHANGED <<made, handled, returned>>
      BY <1>2, <2>1, SendKeepsLater
    <2>2. CASE Answers(c) /\ UNCHANGED <<made, handled, failed>>
      <3>1. \A l \in Mail' : l \in Mail
        BY <1>2, <2>2, AnswerKeepsCalls DEF Answered, Others
      <3> QED
        BY <2>2, <3>1, LaterStays
    <2>3. CASE (Defer(c) \/ LoopReceive(c)) /\ UNCHANGED history
      <3>1. \A l \in Mail' : l \in Mail
        BY <1>2, <2>3, ReceiveKeepsCalls DEF Received
      <3> QED
        BY <2>3, <3>1, LaterStays DEF history
    <2>4. CASE HandlerReturns(c) /\ UNCHANGED history
      <3>1. \A l \in Mail' : l \in Mail
        BY <1>2, <2>4, ReturnKeepsCalls DEF Returned, Others
      <3> QED
        BY <2>4, <3>1, LaterStays DEF history
    <2>5. CASE Dispatches(c)
      BY <1>2, <2>5, DispatchKeepsLater
    <2>6. CASE \/ Program(c)
               \/ (EnterLoop(c) \/ DispatchUnknown(c) \/ HandlerReplies(c)) /\ UNCHANGED history
      <3>1. Mail' = Mail /\ UNCHANGED handled
        BY <1>2, <2>6, QuietSteps DEF Mail, Program, history
      <3> QED
        BY <3>1, LaterStays
    <2>7. CASE ReceiveFails(c) /\ UNCHANGED history
      <3>1. \A l \in Mail' : l \in Mail
        BY <1>2, <2>7, LossKeepsCalls DEF Lost, Others
      <3> QED
        BY <2>7, <3>1, LaterStays DEF history
    <2> QED
      BY <1>2, <2>1, <2>2, <2>3, <2>4, <2>5, <2>6, <2>7 DEF Blocking, Refused, Looping
  <1>3. CASE UNCHANGED vars
    <2>1. Mail' = Mail /\ UNCHANGED handled
      BY <1>3, QuietTrack DEF Mail, vars, portVars, routerVars, channelVars, history
    <2> QED
      BY <2>1, LaterStays
  <1> QED
    BY <1>1, <1>2, <1>3 DEF Next

LEMMA InitOrder == Init => OrderInv
  <1> SUFFICES ASSUME Init
               PROVE  OrderInv
    OBVIOUS
  <1>1. \A c \in Client : handled[c] = <<>>
    BY DEF Init
  <1>2. HandledInOrder /\ LaterInv
    BY <1>1 DEF HandledInOrder, LaterInv, HandledBy, Range
  <1>3. \A p \in Place : DOMAIN Track[p] = {}
    <2>1. \A c \in Client : /\ toRouter[c] = <<>> /\ toClient[c] = <<>> /\ queue[c] = <<>>
                            /\ HeldTrack(c) = <<>>
      BY DEF Init, PortInit, ChannelInit, HeldTrack, HeldFor
    <2>2. DOMAIN <<>> = {} /\ \A f : DOMAIN Over(f, <<>>) = {}
      BY DEF Over
    <2>3. \A c \in Client : /\ DOMAIN Track[<<"toRouter", c>>] = {} /\ DOMAIN Track[<<"held", c>>] = {}
                            /\ DOMAIN Track[<<"toClient", c>>] = {} /\ DOMAIN Track[<<"queue", c>>] = {}
      <3> TAKE c \in Client
      <3>1. /\ Track[<<"toRouter", c>>] = Over(Sent(c), <<>>) /\ Track[<<"held", c>>] = <<>>
            /\ Track[<<"toClient", c>>] = Over(Incoming(c), <<>>)
            /\ Track[<<"queue", c>>] = Over(Waiting(c), <<>>)
        BY <2>1, TrackAt
      <3> QED
        BY <2>2, <3>1
    <2> QED
      BY <2>3, Places
  <1> QED
    BY <1>2, <1>3 DEF OrderInv, Ordered

(* However the router and the channels interleave, and whatever            *)
(* send_request sets aside for loop(), a receiver handles the calls of one *)
(* program in the order that program made them.                            *)
THEOREM CallsAreInOrder == Spec /\ []WrongIdsAreFree => []HandledInOrder
  <1>1. CountedInv /\ OrderInv /\ WrongIdsAreFree /\ [Next]_vars => OrderInv'
    BY TrackKeepsOrder, LaterInductive DEF OrderInv, CountedInv
  <1>2. OrderInv => HandledInOrder
    BY DEF OrderInv
  <1> QED
    BY <1>1, <1>2, InitOrder, InitCounted, CountedInductive, PTL DEF Spec

=============================================================================
