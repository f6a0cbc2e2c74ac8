------------------------------- MODULE Channel -------------------------------
(***************************************************************************)
(* rpc::Channel (libprotorpc/include/protorpc/channel.hh, src/channel.cpp) *)
(* and what sidl generates on top of it (sidl/sidl/backend/cpp.py): one    *)
(* channel per client, each used by one thread.  The thread first runs the *)
(* program's own code, which binds receivers, connects proxies and calls   *)
(* them, then loop(), whose handlers run program code again.               *)
(*                                                                         *)
(* An rpc message holds its source and destination objects, its opcode,    *)
(* and two fields no code reads: kind, the message's role, and tag, the    *)
(* call it belongs to.                                                     *)
(***************************************************************************)
EXTENDS Port, FiniteSets

CONSTANTS RequestOp,   \* opcodes whose method has return values
          OnewayOp,    \* opcodes whose method has none
          UnknownOp,   \* opcodes of requests the receiver's interface lacks,
                       \* or whose arguments it cannot parse
          UnreadableOp,\* opcodes whose replies the proxy may not be able to parse
          Refusable    \* <<opcode, kind>>: messages that may be too large, or
                       \* have too many handles, for the port

ASSUME OpcodeAssumption == RequestOp \cap OnewayOp = {}

VARIABLES
    receivers,   \* receivers_: the ids bound
    allocated,   \* allocated_objects_
    nextId,      \* current_id_
    proxies,     \* the proxies connected: their id, remote port and remote id
    queue,       \* message_queue_
    phase,       \* where the thread stands: see Phase
    inLoop,      \* whether loop() is on the thread's stack
    out          \* the message the thread is sending or waits an answer to

channelVars == <<receivers, allocated, nextId, proxies, queue, phase, inLoop, out>>
objectVars == <<receivers, allocated, nextId, proxies>>

(* "app": the program's own code, in a handler when inLoop; "send": in     *)
(* Port::send; "await": in send_request, for the answer; "read": in        *)
(* loop(), for a message; "dispatch": about to handle the queue's head;    *)
(* "dead": an exception left loop() or a proxy's method.                   *)
Phase == {"app", "send", "await", "read", "dispatch", "dead"}

ChannelInit ==
    /\ receivers = [c \in Client |-> {}]
    /\ allocated = [c \in Client |-> {}]
    /\ nextId = [c \in Client |-> 0]
    /\ proxies = [c \in Client |-> {}]
    /\ queue = [c \in Client |-> <<>>]
    /\ phase = [c \in Client |-> "app"]
    /\ inLoop = [c \in Client |-> FALSE]
    /\ out = [c \in Client |-> {}]

-----------------------------------------------------------------------------
(* Objects.  next_id_ moves current_id_ to the first free id; an id once   *)
(* allocated is never released.                                            *)

(* Mutant: the id after the last one, used or not.                         *)
NextIdOnly(c) == IF nextId[c] \in allocated[c] THEN nextId[c] + 1 ELSE nextId[c]

NextId(c) ==
    CHOOSE i \in nextId[c] .. nextId[c] + Cardinality(allocated[c]) :
        /\ i \notin allocated[c]
        /\ \A j \in nextId[c] .. i - 1 : j \in allocated[c]

Bind(c) ==
    /\ phase[c] = "app"
    /\ nextId' = [nextId EXCEPT ![c] = NextId(c)]
    /\ receivers' = [receivers EXCEPT ![c] = @ \cup {nextId'[c]}]
    /\ allocated' = [allocated EXCEPT ![c] = @ \cup {nextId'[c]}]
    /\ UNCHANGED <<proxies, queue, phase, inLoop, out>>
    /\ UNCHANGED portVars

(* bind_static does not look whether the id is a proxy's.                  *)
BindStatic(c, i) ==
    /\ phase[c] = "app"
    /\ receivers' = [receivers EXCEPT ![c] = @ \cup {i}]
    /\ allocated' = [allocated EXCEPT ![c] = @ \cup {i}]
    /\ UNCHANGED <<nextId, proxies, queue, phase, inLoop, out>>
    /\ UNCHANGED portVars

Connect(c, port, remote) ==
    /\ phase[c] = "app"
    /\ nextId' = [nextId EXCEPT ![c] = NextId(c)]
    /\ proxies' = [proxies EXCEPT ![c] =
                      @ \cup {[id |-> nextId'[c], port |-> port, remote |-> remote]}]
    /\ allocated' = [allocated EXCEPT ![c] = @ \cup {nextId'[c]}]
    /\ UNCHANGED <<receivers, queue, phase, inLoop, out>>
    /\ UNCHANGED portVars

-----------------------------------------------------------------------------
(* Sending.  A generated proxy method calls send_request when the method   *)
(* has return values and send_message otherwise.  It returns false when    *)
(* the message is not sent, and when the reply, of an opcode in            *)
(* UnreadableOp, cannot be parsed.                                         *)

Call(c, proxy, opcode, tag) ==
    /\ phase[c] = "app"
    /\ proxy \in proxies[c]
    /\ out' = [out EXCEPT ![c] =
          {[port |-> proxy.port,
            message |-> [source |-> proxy.id, destination |-> proxy.remote, opcode |-> opcode,
                         kind |-> IF opcode \in OnewayOp THEN "oneway" ELSE "request",
                         tag |-> tag]]}]
    /\ phase' = [phase EXCEPT ![c] = "send"]
    /\ UNCHANGED <<objectVars, queue, inLoop>>
    /\ UNCHANGED portVars

(* The message being handled is popped when its handler is done, and the   *)
(* inner while of loop() goes on until the queue is empty.                 *)
NotPopped(c) == queue[c]   \* mutant: it is handled again

Popped(c) == Tail(queue[c])

ReadsAfterHandler(c) == "read"   \* mutant: loop() handles one message a turn

AfterHandler(c) == IF Popped(c) = <<>> THEN "read" ELSE "dispatch"

NeverWaits(kind, sent) == FALSE   \* mutant: send_request returns at once

Waits(kind, sent) == kind = "request" /\ sent

(* What follows a send that returned: send_request waits if the message    *)
(* left and returns false otherwise; a handler that replied is done, its   *)
(* reply sent or not.                                                      *)
AfterSend(c, kind, sent) ==
    /\ out' = IF Waits(kind, sent) THEN out ELSE [out EXCEPT ![c] = {}]
    /\ queue' = IF kind = "reply" THEN [queue EXCEPT ![c] = Popped(c)] ELSE queue
    /\ phase' = [phase EXCEPT ![c] = IF Waits(kind, sent) THEN "await"
                                     ELSE IF kind = "reply" THEN AfterHandler(c) ELSE "app"]

SendSucceeds(c) ==
    /\ phase[c] = "send"
    /\ \E o \in out[c] :
         /\ ClientSends(c, [destination |-> o.port, payload |-> o.message])
         /\ AfterSend(c, o.message.kind, TRUE)
    /\ UNCHANGED <<objectVars, inLoop>>

SendFails(c) ==
    /\ phase[c] = "send"
    /\ ClientSendFails(c)
    /\ \E o \in out[c] : AfterSend(c, o.message.kind, FALSE)
    /\ UNCHANGED <<objectVars, inLoop>>

SendRefused(c) ==
    /\ phase[c] = "send"
    /\ ClientSendRefused(c)
    /\ \E o \in out[c] : /\ <<o.message.opcode, o.message.kind>> \in Refusable
                         /\ AfterSend(c, o.message.kind, FALSE)
    /\ UNCHANGED <<objectVars, inLoop>>

-----------------------------------------------------------------------------
(* Receiving.  next_message_ notes the port and the object a message came  *)
(* from and for, and swaps its source and destination.                     *)

NextMessage(c) ==
    LET m == Head(toClient[c]) IN
    [source_port |-> m.destination,
     destination_object |-> m.payload.destination,
     message |-> [m.payload EXCEPT !.source = m.payload.destination,
                                   !.destination = m.payload.source]]

(* Lines 20-21: the port could not receive a message's handles, and nothing *)
(* catches the exception.  That of lines 40-41, for a header that cannot   *)
(* be parsed, is not met between channels, which write whole headers.      *)
ReceiveFails(c) ==
    /\ phase[c] \in {"await", "read"}
    /\ FdsRunOut
    /\ ClientReceives(c)
    /\ phase' = [phase EXCEPT ![c] = "dead"]
    /\ out' = [out EXCEPT ![c] = {}]
    /\ UNCHANGED <<objectVars, queue, inLoop>>

(* The message read, at the back of message_queue_.                        *)
QueuedRaw(c) == Append(queue[c], Head(toClient[c]))   \* mutants: not unpacked,
QueuedInFront(c) == <<NextMessage(c)>> \o queue[c]    \* push_front,
NotQueued(c) == queue[c]                              \* dropped

Queued(c) == Append(queue[c], NextMessage(c))

(* Mutants: the port is not compared; the object compared is the sender's, *)
(* as it stood before the swap.                                            *)
IsAnswerOfAnyPort(pending, o) ==
    /\ pending.message.destination = o.message.destination
    /\ pending.message.opcode = o.message.opcode

IsAnswerUnswapped(pending, o) ==
    /\ pending.message.source = o.message.destination
    /\ pending.message.opcode = o.message.opcode
    /\ pending.source_port = o.port

(* The test of lines 110-111: the object called, the opcode and the port.  *)
(* It does not compare the proxy that called.                              *)
IsAnswer(pending, o) ==
    /\ pending.message.destination = o.message.destination
    /\ pending.message.opcode = o.message.opcode
    /\ pending.source_port = o.port

Answer(c) ==
    /\ phase[c] = "await"
    /\ ClientReceives(c)
    /\ \A o \in out[c] : IsAnswer(NextMessage(c), o)
    /\ out' = [out EXCEPT ![c] = {}]
    /\ phase' = [phase EXCEPT ![c] = "app"]
    /\ UNCHANGED <<objectVars, queue, inLoop>>

Defer(c) ==
    /\ phase[c] = "await"
    /\ ClientReceives(c)
    /\ \A o \in out[c] : ~IsAnswer(NextMessage(c), o)
    /\ queue' = [queue EXCEPT ![c] = Queued(c)]
    /\ UNCHANGED <<objectVars, phase, inLoop, out>>

-----------------------------------------------------------------------------
(* loop().  Each turn reads a message before it looks at the queue, then   *)
(* handles the queue until it is empty; the message being handled stays at *)
(* its head.  The queue is never empty in "dispatch".                      *)

EnterLoop(c) ==
    /\ phase[c] = "app"
    /\ ~inLoop[c]
    /\ inLoop' = [inLoop EXCEPT ![c] = TRUE]
    /\ phase' = [phase EXCEPT ![c] = "read"]
    /\ UNCHANGED <<objectVars, queue, out>>
    /\ UNCHANGED portVars

LoopReceive(c) ==
    /\ phase[c] = "read"
    /\ ClientReceives(c)
    /\ queue' = [queue EXCEPT ![c] = Queued(c)]
    /\ phase' = [phase EXCEPT ![c] = "dispatch"]
    /\ UNCHANGED <<objectVars, inLoop, out>>

Dispatch(c) ==
    /\ phase[c] = "dispatch"
    /\ Head(queue[c]).destination_object \in receivers[c]
    /\ phase' = [phase EXCEPT ![c] = "app"]
    /\ UNCHANGED <<objectVars, queue, inLoop, out>>
    /\ UNCHANGED portVars

(* Mutant: a message for an unknown object is dropped and loop() goes on.  *)
DispatchUnknownGoesOn(c) ==
    /\ phase[c] = "dispatch"
    /\ Head(queue[c]).destination_object \notin receivers[c]
    /\ queue' = [queue EXCEPT ![c] = Popped(c)]
    /\ phase' = [phase EXCEPT ![c] = AfterHandler(c)]
    /\ UNCHANGED <<objectVars, inLoop, out>>
    /\ UNCHANGED portVars

(* "Destination object not found": nothing catches the exception.          *)
DispatchUnknown(c) ==
    /\ phase[c] = "dispatch"
    /\ Head(queue[c]).destination_object \notin receivers[c]
    /\ phase' = [phase EXCEPT ![c] = "dead"]
    /\ UNCHANGED <<objectVars, queue, inLoop, out>>
    /\ UNCHANGED portVars

(* The generated on_message: it replies to an opcode whose method has      *)
(* return values, once it has parsed the arguments and run the method, and *)
(* returns without a word from any other.                                  *)
HasReplyAlways(c) == TRUE   \* mutant: oneway methods are answered too

HasReply(c) == Head(queue[c]).message.opcode \in RequestOp

HandlerReplies(c) ==
    /\ phase[c] = "app"
    /\ inLoop[c]
    /\ HasReply(c)
    /\ LET pending == Head(queue[c]) IN
         out' = [out EXCEPT ![c] =
            {[port |-> pending.source_port,
              message |-> [pending.message EXCEPT !.source = pending.destination_object,
                                                  !.kind = "reply"]]}]
    /\ phase' = [phase EXCEPT ![c] = "send"]
    /\ UNCHANGED <<objectVars, queue, inLoop>>
    /\ UNCHANGED portVars

HandlerReturns(c) ==
    /\ phase[c] = "app"
    /\ inLoop[c]
    /\ ~HasReply(c)
    /\ queue' = [queue EXCEPT ![c] = Popped(c)]
    /\ phase' = [phase EXCEPT ![c] = AfterHandler(c)]
    /\ UNCHANGED <<objectVars, inLoop, out>>
    /\ UNCHANGED portVars

=============================================================================
