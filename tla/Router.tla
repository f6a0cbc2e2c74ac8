------------------------------- MODULE Router -------------------------------
(***************************************************************************)
(* ipc::Router (libprotoipc/src/linux_router.cpp): one thread runs loop(), *)
(* another, the control thread, calls add_port and remove_port.  router.hh *)
(* asks whether ports_ should be under a mutex; here every access to       *)
(* ports_, epoll_wait, epoll_ctl and one receive-and-look-up are each one  *)
(* step, and the two threads interleave between them.                      *)
(***************************************************************************)
EXTENDS Port, FiniteSets

CONSTANTS MaxEvents   \* EPOLL_MAX_EVENTS: what one epoll_wait may report

ASSUME MaxEventsAssumption == MaxEvents \in Nat \ {0}

VARIABLES
    ports,       \* ports_: the client behind each known id
    currentId,   \* current_id_
    epoll,       \* the interest list: the id in the data of each client's entry
    adding,      \* the client whose add_port has registered it but not stored it
    removing,    \* the client whose remove_port has erased it but not closed it
    pc,          \* where loop() stands
    batch,       \* ids epoll_wait reported and the loop has not come to
    held         \* the message loop() is sending, with its destination's port

routerVars == <<ports, currentId, epoll, adding, removing, pc, batch, held>>

RouterInit ==
    /\ ports = [i \in {} |-> i]
    /\ epoll = [c \in {} |-> c]
    /\ currentId = 0
    /\ adding = {}
    /\ removing = {}
    /\ pc = "wait"
    /\ batch = {}
    /\ held = {}

Running == pc \in {"wait", "handle", "send"}

-----------------------------------------------------------------------------
(* The control thread.  The socket is in the interest list before its id   *)
(* is in ports_ (lines 28 and 34), and out of ports_ before it is closed,  *)
(* which is what takes it out of the interest list (lines 47 and 50).      *)

ControlIdle == adding = {} /\ removing = {}

AddPortRegister(c) ==
    /\ ControlIdle
    /\ c \notin DOMAIN epoll \cup closed \cup gone
    /\ epoll' = [d \in DOMAIN epoll \cup {c} |-> IF d = c THEN currentId ELSE epoll[d]]
    /\ adding' = {c}
    /\ UNCHANGED <<ports, currentId, removing, pc, batch, held>>
    /\ UNCHANGED portVars

(* Mutant: current_id_ is not incremented, so that the next port takes the *)
(* entry of this one.                                                      *)
AddPortStoreSameId(c) ==
    /\ adding = {c}
    /\ ports' = [i \in DOMAIN ports \cup {currentId} |->
                    IF i = currentId THEN c ELSE ports[i]]
    /\ adding' = {}
    /\ UNCHANGED <<currentId, epoll, removing, pc, batch, held>>
    /\ UNCHANGED portVars

AddPortStore(c) ==
    /\ adding = {c}
    /\ ports' = [i \in DOMAIN ports \cup {currentId} |->
                    IF i = currentId THEN c ELSE ports[i]]
    /\ currentId' = currentId + 1
    /\ adding' = {}
    /\ UNCHANGED <<epoll, removing, pc, batch, held>>
    /\ UNCHANGED portVars

RemovePortErase(i) ==
    /\ ControlIdle
    /\ i \in DOMAIN ports
    /\ ports' = [j \in DOMAIN ports \ {i} |-> ports[j]]
    /\ removing' = {ports[i]}
    /\ UNCHANGED <<currentId, epoll, adding, pc, batch, held>>
    /\ UNCHANGED portVars

RemovePortClose(c) ==
    /\ removing = {c}
    /\ RouterCloses({c})
    /\ epoll' = [d \in DOMAIN epoll \ {c} |-> epoll[d]]
    /\ removing' = {}
    /\ UNCHANGED <<ports, currentId, adding, pc, batch, held>>

-----------------------------------------------------------------------------
(* loop().                                                                 *)

Ready == {c \in DOMAIN epoll : toRouter[c] # <<>>}

(* epoll_wait reports the ready sockets, MaxEvents of them when more are   *)
(* ready; the loop below it meets them in an order the kernel chose.       *)
EpollWait(some) ==
    /\ pc = "wait"
    /\ some # {}
    /\ some \subseteq Ready
    /\ IF Cardinality(Ready) <= MaxEvents THEN some = Ready
                                          ELSE Cardinality(some) = MaxEvents
    /\ batch' = {epoll[c] : c \in some}
    /\ pc' = "handle"
    /\ UNCHANGED <<ports, currentId, epoll, adding, removing, held>>
    /\ UNCHANGED portVars

(* The for loop over the events: what is left after one, and where it goes. *)
LaterEventsKeepI(i) == batch    \* mutant: i is handled again

LaterEvents(i) == batch \ {i}

AfterEventStays(rest) == "handle"   \* mutant: never back to epoll_wait

AfterEvent(rest) == IF rest = {} THEN "wait" ELSE "handle"

(* Line 93: the id of a message's destination becomes its sender's.        *)
NotStamped(m, i) == m                                         \* mutants: no stamp,
StampedWithPort(m, i) == [m EXCEPT !.destination = ports[i]]  \* the port for its id,
StampedWithNext(m, i) == [m EXCEPT !.destination = currentId] \* the next id

Stamped(m, i) == [m EXCEPT !.destination = i]

(* Lines 77-78: the event's id is not in ports_, loop() returns.           *)
HandleUnknownSource(i) ==
    /\ pc = "handle"
    /\ i \in batch
    /\ i \notin DOMAIN ports
    /\ pc' = "stopped"
    /\ batch' = {}
    /\ UNCHANGED <<ports, currentId, epoll, adding, removing, held>>
    /\ UNCHANGED portVars

(* Lines 83-84: the router's process has no descriptor left for the        *)
(* message's handles, loop() returns and the message is lost.  Every       *)
(* handle routed before left a descriptor open here: loop() sends          *)
(* duplicates on and closes none.                                          *)
HandleIncomplete(i) ==
    /\ pc = "handle"
    /\ i \in batch \cap DOMAIN ports
    /\ FdsRunOut
    /\ RouterReceives(ports[i])
    /\ pc' = "stopped"
    /\ batch' = {}
    /\ UNCHANGED <<ports, currentId, epoll, adding, removing, held>>

(* Lines 88-89: the message's destination is not in ports_, loop() returns *)
(* and the message, already read, is lost.                                 *)
HandleUnknownDestination(i) ==
    /\ pc = "handle"
    /\ i \in batch \cap DOMAIN ports
    /\ RouterReceives(ports[i])
    /\ Head(toRouter[ports[i]]).destination \notin DOMAIN ports
    /\ pc' = "stopped"
    /\ batch' = {}
    /\ UNCHANGED <<ports, currentId, epoll, adding, removing, held>>

(* Lines 80-93: read a message, find its destination, stamp it with its    *)
(* sender's id.                                                            *)
HandleMessage(i) ==
    /\ pc = "handle"
    /\ i \in batch \cap DOMAIN ports
    /\ RouterReceives(ports[i])
    /\ LET m == Head(toRouter[ports[i]]) IN
         /\ m.destination \in DOMAIN ports
         /\ held' = {[id |-> m.destination, port |-> ports[m.destination],
                      message |-> Stamped(m, i)]}
    /\ pc' = "send"
    /\ batch' = LaterEvents(i)
    /\ UNCHANGED <<ports, currentId, epoll, adding, removing>>

(* Line 94: the blocking send, which holds up every other port.            *)
Forward ==
    /\ pc = "send"
    /\ \E h \in held : RouterSends(h.port, h.message)
    /\ held' = {}
    /\ pc' = AfterEvent(batch)
    /\ UNCHANGED <<ports, currentId, epoll, adding, removing, batch>>

(* Mutant: a message that cannot be sent is dropped and loop() goes on.    *)
ForwardFailsGoesOn ==
    /\ pc = "send"
    /\ \E h \in held : RouterSendFails(h.port)
    /\ held' = {}
    /\ pc' = AfterEvent(batch)
    /\ UNCHANGED <<ports, currentId, epoll, adding, removing, batch>>

(* Lines 96-97: the destination closed its end (Unknown).                  *)
ForwardFails ==
    /\ pc = "send"
    /\ \E h \in held : RouterSendFails(h.port)
    /\ held' = {}
    /\ pc' = "stopped"
    /\ batch' = {}
    /\ UNCHANGED <<ports, currentId, epoll, adding, removing>>

(* Lines 96-97: remove_port erased the entry the iterator points to, which *)
(* reads a freed node, whose descriptor may be the old one, closed or not, *)
(* or no socket at all; or only some of the message's handles could be     *)
(* received, and sendmsg finds numbers that are not descriptors (EBADF).   *)
ForwardBadDescriptor ==
    /\ pc = "send"
    /\ \E h \in held : h.id \notin DOMAIN ports \/ FdsRunOut
    /\ held' = {}
    /\ pc' = "stopped"
    /\ batch' = {}
    /\ UNCHANGED <<ports, currentId, epoll, adding, removing>>
    /\ UNCHANGED portVars

(* The process that runs the router ends, whatever it was doing.           *)
RouterExit ==
    /\ pc # "exited"
    /\ pc' = "exited"
    /\ RouterCloses(Client)
    /\ batch' = {}
    /\ held' = {}
    /\ UNCHANGED <<ports, currentId, epoll, adding, removing>>

-----------------------------------------------------------------------------

Control ==
    \/ \E c \in Client : AddPortRegister(c)
    \/ \E c \in Client : AddPortStore(c)
    \/ \E i \in DOMAIN ports : RemovePortErase(i)
    \/ \E c \in Client : RemovePortClose(c)

(* What the thread of loop() does whenever it can.  It cannot be counted   *)
(* on to meet a bad descriptor: the send may as well go on waiting.        *)
LoopGoesOn ==
    \/ \E some \in SUBSET Ready : EpollWait(some)
    \/ \E i \in batch : HandleUnknownSource(i)
    \/ \E i \in batch : HandleIncomplete(i)
    \/ \E i \in batch : HandleUnknownDestination(i)
    \/ \E i \in batch : HandleMessage(i)
    \/ Forward
    \/ ForwardFails

Loop == LoopGoesOn \/ ForwardBadDescriptor

=============================================================================
