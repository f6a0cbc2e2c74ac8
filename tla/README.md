# protorpc in TLA+

A verification project for protorpc: a small RPC system made of an IPC library
(`libprotoipc`), an RPC layer on top of it (`libprotorpc`), a C serialization
library (`libcprotorpc`) and a compiler for interface definitions (`sidl`).
The modules here model the code under `src/`, TLC checks them on small
instances, and TLAPS proves what matters most for every value of the constants.
`PROJECT.json` says, definition by definition, which lines each one models.

Contents: [the system](#the-system), [the modules](#the-modules),
[the runs](#the-runs), [fairness](#fairness), [findings](#findings),
[proofs](#proofs), [abstractions](#abstractions-and-what-is-left-out),
[plan](#plan).

## The system

A program owns an `ipc::Port`, one end of a Unix socket pair whose other end
the router owns. An `rpc::Channel` uses the port; the program binds receivers
to the channel, connects proxies to objects of other programs, calls methods of
the proxies, and runs the channel's `loop()`. Every message goes to the router,
which knows each port by an id and forwards the message to the port whose id
the message names, after replacing that id by the sender's.

    program -- Channel -- Port ==== Port -- Router -- Port ==== Port -- Channel -- program
               (objects,             (ids, epoll,
                deferred queue)       loop thread + control thread)

| component | state | operations | talks to |
|---|---|---|---|
| `ipc::Port` (`linux_port.cpp`) | a socket and the kernel's queue behind each end: of whole datagrams, or of bytes (`create_pair`) | `send`, `receive` (both block), `close`, `create_pair` | its peer, through the kernel |
| `ipc::Router` (`linux_router.cpp`) | `ports_`, `current_id_`, the epoll interest list; what `loop()` is in the middle of | `add_port`, `remove_port` on one thread, `loop()` on another | all ports; the two threads share `ports_` without a lock |
| `rpc::Channel` (`channel.cpp`, `channel.hh`) | `receivers_`, `allocated_objects_`, `current_id_`, `message_queue_`; where its thread is | `bind`, `bind_static`, `connect`, `send_message`, `send_request`, `loop` | the port; receivers' `on_message` (callbacks, which may call again) |
| generated proxies and receivers (`sidl/backend/cpp.py`) | none | a proxy method sends a request or a message; `on_message` parses, calls the method, replies if it has return values | the channel |
| `rpc::Serializer`, `rpc::Unserializer` | the bytes and handles; an index into each | `serialize`, `add_handle`, `get_payload`; `unserialize`, `next_handle` | generated code, the channel |
| `libcprotorpc` | growing buffers; offsets; vectors and optionals | typed, raw, string and fd writes and reads | programs in C |
| sidl's `Lexer`, `Parser` (`lexer.py`, `parser.py`) | a position, line and column, one token of look-ahead; the calls of the recursive descent | `peek`, `next`, `reset`; `parse` and the `parse_` methods | the type resolver (a syntax tree); error messages |
| sidl's `PrettyPrinter`, `IndentedWriter` (`utils.py`) | an indentation level | prints a tree | its caller |
| sidl's `TypeResolver` | the types, interfaces and handle-holding structs met so far | one visit of the tree, which ends at the first error | the back ends |
| sidl's C++ back end (`backend/cpp.py`) | the current opcode, the pending structs | prints a header and a source file | the C++ compiler, `libprotorpc` |
| sidl's C back end (`backend/c.py`) | output text | prints declarations | files |
| sidl's driver (`sidlcc.py`) | options | reads, parses, resolves, compiles, in this order | files |

### What is hard here, and what correctness means

* **Router: two threads and a table.** `add_port` puts a socket in the interest
  list before it stores its id; `remove_port` erases the id before it closes the
  socket; `loop()` looks up a destination and then blocks in a send while the
  table changes. Correct: an id always means the same client, a message is
  delivered to the client it was written to, once, and in the order its sender
  wrote; the loop never blocks in a receive; what is on a known port arrives.
* **Router: its early returns.** Any unknown id, failed receive or failed send
  ends `loop()` for everybody, with messages already read or reported. A client
  whose send fails loses what it had not read.
* **Channel: one thread, nested calls.** `send_request` waits for its answer and
  defers every other message; `loop()` handles deferred messages, whose handlers
  call `send_request` again, while the message being handled is still at the
  front of the queue. Correct: a call is executed at most once, never after its
  sending was reported to have failed; an answer goes to the call it belongs to;
  one caller's calls are handled in order; a caller that waits has something to
  wait for; a deferred message is handled.
* **Blocking.** Everything blocks: full queues, calls in a circle, a caller
  without an answer.
* **Failure.** The router's process ends; a proxy names an object nobody bound;
  the two ends know different versions of an interface; a port refuses a message
  for its size or its handles; a process has no descriptor left for the handles
  it receives, since nobody closes them.
* **Wire format.** Two implementations, sizes that wrap, buffers that grow,
  handles that travel beside the payload.
* **Byte streams.** `create_pair` makes a stream socket; a message's end is
  only where its header says, a large message passes in pieces, handles cut the
  kernel's reads, and a signal makes `sendmsg` and `recvmsg` return less than
  they were asked for, which nobody compares. Correct: what is read is what was
  sent, until one message is cut; a message larger than the socket arrives.
* **Look-ahead.** The lexer keeps a token that `peek` read; each `parse_` method
  relies on its callers to have left the right one. Correct: no token is lost,
  read twice or put in the wrong node, positions are those of the text, every
  text is accepted or refused in the end, and what is printed is read back.
* **Types.** What `sidl` accepts must compile: types declared before their use,
  no handle inside a container.
* **Two halves of generated code.** A proxy and a receiver are written by
  separate visits of the same interface. Correct: opcodes, values, handles and
  answers of the two agree, through every struct.

`PROJECT.json` lists the hazards one by one, each at its line, with the
properties that answer it.

## The modules

| module | models |
|---|---|
| `Port` | the datagram socket pairs, one FIFO queue of whole messages each way |
| `StreamPort` | one direction of `create_pair`'s byte stream, shown to implement `Port`; `MCStreamPort` instantiates it |
| `Router` | `add_port`, `remove_port`, `loop()`; extends `Port` |
| `RouterClients` | the router between clients that may do anything; `MCRouter` |
| `Channel` | the channels and the generated code at run time; extends `Port` |
| `RemoteCalls` | what a remote call promises: the abstract specification |
| `RpcSystem` | programs, channels and the router composed; `MCRpc` |
| `Serialization` | the wire format, its two writers and two readers; `MCSerialization` |
| `Lexer`, `Parser` | sidl's lexer and parser; the second extends the first |
| `FrontEnd` | programs that lex, parse, parse again, print and parse what was printed |
| `PrettyPrinter` | sidl's printer, which is `FrontEnd`'s `TextOf`; `MCFrontEnd` instantiates both |
| `TypeResolver` | sidl's type resolver; `MCTypeResolver` |
| `CppBackend` | the C++ code generated for what the resolver accepted; `MCCppBackend` |
| `RouterProofs` | theorems about `RouterClients` |
| `RpcTypeProofs`, `RpcCallProofs` | the inductive invariant of `RpcSystem` and theorems about it; the second extends the first |
| `StreamPortProofs` | theorems about `StreamPort` |
| `SerializationProofs` | theorems about `Serialization` |
| `FrontEndProofs` | theorems about `Lexer`, for any program that reads with it, and about `FrontEnd` |
| `SidlProofs` | theorems about `TypeResolver` and `CppBackend` |
| `CommonLemmas` | the least number with a property; what `Append` and `Tail` do to the elements of a queue |

**Port.** `toRouter[c]` and `toClient[c]` are the two directions of client `c`'s
pair, `closed` and `gone` tell which end is closed. `ClientSends` and
`RouterSends` are `Port::send`, enabled when the queue has room (else `sendmsg`
blocks); `ClientReceives` and `RouterReceives` are `Port::receive`.
`ClientSendFails` is the `ECONNREFUSED` of a pair whose router end is closed,
which `send` reports as `Unknown`, and which purges what the client had not
read; `RouterSendFails` is the other way round. `ClientSendRefused` is
`TooManyHandles` or `EMSGSIZE`. A receive that cannot install a message's
handles (`IncompleteMessage`) takes the message all the same; that it may happen
is the constant `FdsRunOut`. What a message's handles are is not in the model,
and any message may be one with handles then.

**StreamPort.** The stream is made of cells as large as a header; a message of
`size` `n` is its header and `n` cells of payload. `SendBegins` is the check of
the number of handles (lines 28-33 of `linux_port.cpp`), `SendChunk` the kernel
taking the next piece of the iovec when there is room, `SendCut` a signal while
`sendmsg` waits with part of the message sent: it returns the smaller count and
`send` returns `Ok`. `Peek` reads a header with `MSG_PEEK`, `PeekGarbage` what
is no header: bytes in the middle of a message, or an uninitialised header at
the end of the file. `ReadChunk` is `recvmsg` with `MSG_WAITALL`, which ends
early behind a chunk that carried handles; `ReadCut` and `ReadEnds` end it with
less; `Finish` is what `receive` makes of it, without a look at the count.

**Router.** The control thread has two steps per operation, because the code
touches the epoll list and `ports_` separately: `AddPortRegister` (line 28),
`AddPortStore` (34-36), `RemovePortErase` (41-47), `RemovePortClose` (50).
`loop()` is `EpollWait` (64), which reports all ready sockets or `MaxEvents` of
them; for each event in any order `HandleUnknownSource` (77), or
`HandleIncomplete` (83-84: a receive without descriptors), or
`HandleUnknownDestination` (88), or `HandleMessage` (80-93: receive, look-up,
stamp); then `Forward`, or `ForwardFails` (94-97) when the destination closed
its end, or `ForwardBadDescriptor` (the same lines) when the entry was erased
meanwhile or the message's handles are no descriptors. `held` is the message and
the port found, between look-up and send. `RouterExit` is the process ending.

**RouterClients.** A client writes to any id, before its port is added and after
it was removed, reads or not, and closes its end. `ClientSendFail` is its send
after `remove_port` closed the router's end: what the kernel then takes from its
queue goes to `purged`, beside `sent` and `received` the third history.
`NothingLost` and `MessagesArrive` count such messages as accounted for, and no
others: `Traced` looks at `purged` for removed clients only.

**Channel.** `phase[c]` is where the program's thread is: in its own code
(`app`, in a handler when `inLoop`), in `Port::send` (`send`), waiting in
`send_request` (`await`), reading in `loop()` (`read`), about to handle the
front of the queue (`dispatch`), or `dead` after an exception left `loop()` or a
proxy's method. `Call` is a generated proxy method; `SendSucceeds`, `SendFails`
and `SendRefused` end `Port::send`; `ReceiveFails` is the exception of lines
20-21 of `channel.cpp`; `Answer` and `Defer` are its lines 108-118;
`LoopReceive`, `Dispatch` and `DispatchUnknown` are `loop()`; `HandlerReplies`
and `HandlerReturns` are the end of the generated `on_message`. A handler may
make calls before it replies, so `send_request` nests in `loop()` as in the
code. Messages carry two fields no code reads, `kind` and `tag`, so that the
properties can tell which call a message belongs to.

**RpcSystem** composes the two with the programs: who may call whom
(`CallEdge`), how often, how many proxies of one object they connect
(`MaxProxies`), whether ids are allocated or fixed, whether some proxies are
wrong, which messages a port may refuse (`Refusable`) and which replies a proxy
may fail to parse (`UnreadableOp`). Its initial state is the one of the tests
(`rpc_simple_tests.cpp`): ports are added before the router's thread starts.
History variables: `made`; `handled`; `failed`, the calls whose message could
not be sent; `returned`, what the calls gave that got an answer. A proxy method
returns `false` in two cases that a program cannot tell apart: the call is in
`failed`, or it was executed and its reply could not be parsed, which is
`NoResult` in `returned`.

**RemoteCalls** is the abstract specification: calls are issued, executed at
most once, may fail to be sent only if never executed, and return their own
result, or none when it cannot be parsed.
`RpcSystem!ImplementsRemoteCalls` is the refinement, checked by TLC and proved
in `RpcCallProofs`: `issued` is
read off `made`, the number of executions of a call is the number of times it
is in some `handled[c]`, `result` is `returned`.

**Serialization** works on bytes of `Base` values and a `size_t` of `WordBytes`
bytes and `Modulus` values, whose sums wrap; `Word` gives the bytes of each
number, in whatever order the machine has them. `serialize` and `unserialize`
call themselves for the elements of a vector, the value of an optional and the
fields of a struct; each such call is a step (`CppWrite` and `CppWritePart`,
`Read` and `ReadPart`), and `writing` and `reading` hold what the calls under
way have still to pass on, so that a failure or an exception ends them all. The
C writes are sets of outcomes, since each `realloc` may fail. Both readers go
through the payload side by side, asked for any types, those written or others.
Histories: `written` and `asked` are what programs wrote and asked for, `calls`
and `reads` each call of `serialize` and `unserialize`.

**Lexer** keeps `_pos`, `_line`, `_col` and the token of look-ahead; the loops
of `_skip_ws` and `next` are the first position where a condition holds. The
tables of separators and keywords are constants. Histories: `read` is what
`next` returned since the start of the text, `scans` what was found and where,
and `stale` tells the one token that may come from before `reset`, which does
not clear `_cur_token`. `LexerSpec` is any program, with any order of calls;
`FrontEnd` changes the lexer by the same operators only. **Parser** is the
recursive descent as a stack of calls, each at a place of its routine; `Rules`
says for each place and type of token whether the token is taken (`next`) or
only seen (`peek`), which calls are made and where the caller goes on, so that
one table is all the `parse_` methods. A token with no rule is the exception of
that place (`Raise`), and leaves the token in the lexer where the code peeked at
it. **FrontEnd** is the programs that use the lexer and the parser as
`sidlcc.py` and `test_sidl.py` do; what the printer writes for a tree is its
constant `TextOf`, so that its proofs do not depend on how `PrettyPrinter`
spells a tree: the printer is a recursive operator, about which nothing can be
proved, and a module that reaches one has no SMT prover. `Yield` says what
tokens a tree stands for, level by level, as a recursive function.
**PrettyPrinter** is a tree's text, character by character.

**TypeResolver** has one action per declaration. A type is the sequence of its
nodes in the order of `visit_Type`, each with its depth, so that the recursive
visit is a quantifier.

**CppBackend** follows the resolver with the list of accepted declarations, and
defines what the two compilers write for them: `ProxyMethod` and
`ReceiverCase` with their opcodes, the statements `Writes` and `Reads`
(`serialize`, `add_handle` and their inverses), the `Header` in its order. What
the compiled statements put into a message is `Passed`: a set of items, each
with the path of statements and nodes of types that leads to it, through the
specializations generated for structs and the library's for containers. The
resolver accepts a struct only after those its fields name, so what each
specialization passes is a function on the structs in that order.

## The runs

Passing runs. All cfgs say `CHECK_DEADLOCK FALSE`: programs may stop calling,
the router may return, and programs that call each other in a circle do wait
for each other.

| run | instance | checks | shows |
|---|---|---|---|
| `router_flow` | 2 clients, ids 0..2 written to, 2 messages each, queues of 1, batches of 2; every add, remove, leave, failing send, and receives without descriptors; fair | `TypeOK`, `ReplyReachesSender`, `DeliveredToAddressee`, `ReceiveNeverBlocks`, `PairOrder`, `NothingLost`, `MessagesArrive` | ids and deliveries stay right while the table changes under the loop; a batch never leads to a blocking receive; order, no duplication, no loss but with a receiver's socket; what waits on a known port arrives unless one client that does not read holds up the loop for ever |
| `stream_port` | 3 messages of 1 to 6 cells, with a handle or none, chunks of 2 cells, a socket of 2 chunks; 4 receives; signals and the end of the file at any step; fair | `ReadAsSent`, `ImplementsPort`, `SentIsRead` | until a message is cut short, the byte stream is `Port`'s queue of whole messages, and a message three chunks long passes a socket of two |
| `rpc_safety` | `a` and `b` call each other, `a` twice, `b` with a receiver at a fixed id beside an allocated one; `c` calls `a` twice through two proxies of one object, for requests and oneway calls; setup interleaved with calls | `TypeOK`, `HandledInOrder`, `NoOrphanedWait`, `RepliesAreAwaited`, `ChannelNeverDies`, `RouterKeepsRunning`, `ImplementsRemoteCalls` | remote calls are what `RemoteCalls` says, ids stay distinct, the answer test is right though it does not compare proxies, and nothing ends a loop |
| `rpc_faults` | a line of calls `a`-`b`-`c`, fixed receiver ids, wrong ids, unknown methods, refused messages of each kind, receives without descriptors, unparsable replies, and the router's end at any step | `NoOrphanedWait`, `RepliesAreAwaited`, `ImplementsRemoteCalls` | the same under faults |
| `rpc_liveness` | `a` calls `b`, `b` calls `c`, `c` sends oneway calls to `b`, two each, made by servers from handlers; fair | `RequestsComplete`, `DeferredAreHandled`, `CallsAreHandled` | in this line of calls each request returns; deferred and oneway calls are handled |
| `serialization` | payloads of up to 2 items and 12 bytes, `size_t` up to 15, buffers that start at 2 bytes and 1 handle; 3 reads of any type | `WritesInBounds`, `OffsetsInBounds`, `RoundTrip`, `ReadersAgree` | what one end writes the other reads, in C and C++; buffers and offsets stay in bounds |
| `idl_front_end` | all texts of up to 4 of 8 characters read token by token, peeking or not; 5 idls of up to 30 tokens and every removal, insertion and replacement of one token, parsed, parsed again, printed and parsed | `TokensAreTheText`, `PositionsExact`, `TreeIsTheText`, `PrintedIsReadBack`, `SameVerdict`, `ParseEnds` | nothing of a text is lost on its way to the tree, error positions are right, a parser can be used again, parsing ends |
| `idl_types` | idls of up to 3 declarations, 3 free names, 12 types | `TypeOK`, `DefinedBeforeUse`, `TaintIsExact`, `NoHandleContained`, `CallsAgree`, `HeaderInOrder`, `HandlesAreTranslated` | accepted structs compile, and hide no handle in a container; generated proxies, receivers and structs agree |

Why the bounds are enough for what they show. Queues of one message make every
send block when it can, which is what creates the interesting orders. Two
clients are a sender and an addressee whose port the control thread may remove
between any two steps of the loop, with batches of two that hold events gone
stale; a bystander whose id could be taken for theirs is the third id, which is
in nobody's hands, and `RouterProofs` covers any number of clients. Two calls
per caller let a later call overtake an earlier one and a second answer meet a
second call; three programs in a line give a nested call whose server is
deferring; a fixed id among the allocated ones is what it takes for an id to be
given twice. Batches of two (`MaxEvents`, 16 in the code) are all that two
clients fill. Three declarations are the shortest chain in which a handle
reaches a container through two structs. `size_t` of 4 bits wraps inside a
mismatched read, while `MaxPayload` keeps real positions away from the wrap, as
memory does in the program. In `stream_port` messages are shorter than a chunk,
equal to one, and longer than the socket, and the fourth receive is the one
after the end of the file. In `idl_front_end` four characters are an arrow or a
comment between two others, and each routine of the parser is entered with every
type of token at every place of a text that uses all its rules, one edit away.

The runs that end in a violation are the findings below. Each property of each
passing run has a mutant in `PROJECT.json`: a plausible bug of a mapped
definition that the run must find.

## Fairness

`FairSpec` of `RouterClients`: weak fairness of the loop's thread, which the
operating system schedules (`LoopGoesOn`), and of nothing else. No client has to
read: without a reader the blocking send of the loop never returns, and the code
has no timeout, so `MessagesArrive` says what is left. From the time a message
waits it arrives, or `loop()` returns, or the port is removed, or the loop is
`HeldUp` for ever, by one client that never reads. `ForwardBadDescriptor` is not
forced: the send may as well go on waiting. `Spec` of `StreamPort`: weak
fairness of a send in progress (`SendChunk`), and of a reader that keeps
receiving (`Peek \/ PeekGarbage`, `ReadChunk \/ ReadEnds`); nobody has to begin
a send, and no signal has to come. `Spec` of `FrontEnd`: weak fairness of the
parser's step, since `next()` never waits. `FairSpec` of `RpcSystem`: weak
fairness of the loop and of each channel's thread, where handlers return and a
program enters `loop()` in the end. Nobody has to bind, connect, call, add,
remove or leave, and no port has to refuse a message. Weak fairness suffices:
the thread that waits for a message or for room stays enabled until it takes its
step, since each queue has one reader and one writer. `rpc_liveness` restricts
servers to calls from handlers (`LoopFirst`) and has no circle of calls, because
the code blocks otherwise; `rpc_backlog` shows what happens without the first.
That is not enough for every system: in `rpc_full_queues` there is no circle
either, the server calls nobody, and callers wait for ever once two queues are
full.

## Findings

* `router_unknown_destination`: `router.hh:34-35` says messages with an unknown
  destination are dropped; one of them makes `loop()` return
  (`linux_router.cpp:88`), and the routing ends for all.
* `rpc_backlog`: a program that called before it entered `loop()` may have
  deferred requests; `loop()` reads a new message before it looks at them
  (`channel.cpp:57`), and without one it never does.
* `rpc_full_queues`: the router's blocking send (`linux_router.cpp:94`) and a
  server's blocking reply wait for each other when both queues are full;
  callers wait for ever although the server is in its loop.
* `idl_types_exist`: `type_resolver.py:8` says the resolver verifies that types
  exist; `visit_Method` never visits the types of parameters.

## Proofs

`RouterProofs` (about `RouterClients`, for any set of clients, `Capacity`,
`MaxEvents`, `Destination` and `MaxSends`):

* `TypeCorrect`: `TypeOK` is inductive; one step per action.
* `RepliesReachSenders` and `MessagesReachAddressees`: the two properties speak
  of ids now in the table and so are not inductive: an id that is not in the
  table could be given to anybody later. The invariant `IdInv` says instead
  that each id on a message or in the loop's hands was given already
  (`i < currentId`) and, if still in the table, to the right client
  (`Denotes`), and that what a client has queued for the router carries its
  name and the destination it wrote. `DenotesStable` is the heart: no
  interleaving of `add_port` and `remove_port` changes whom a given id stands
  for, because ids are given once.
* `ReceivesDoNotBlock`: `loop()` receives from a socket only because
  `epoll_wait` reported it, some steps earlier. `EpollInv` says what is needed
  in between: a client is at most once in the batch, whatever is in the batch
  was ready and has a message still, because only the loop takes from
  `toRouter`, and clients only add.
* `NoMessageLost`: `HeldInv` says that the loop holds a message exactly while it
  is between look-up and send; `EverywhereGrows` that no step before the loop
  returns takes a message out of all five places at once (its queue, `held`,
  the receiver's queue, what the receiver read, and `purged` of a client whose
  port the router has closed). A client's failing send moves its queue to
  `purged` (`ClientSendFail`); the router's purges what a client that is gone
  had written, and ends the loop.
* `PairsInOrder`: `OrderInv` is `PairOrder` with the fact that makes it
  inductive, that no sequence number runs ahead of the sender's count `sent`.
  The lemmas on sequences say once what an ordered sequence keeps when its head
  is taken, or when something later than all of it is appended (`OrderedTail`,
  `OrderedAppend`, `HeadAndTail`); `MessageMoves` and `ForwardMoves` apply them
  to the path of a message, and `OtherLoopSteps` deals with the steps that move
  none.

The proofs about `RpcSystem` hold for any programs, calls, opcodes, ids and
capacity. Their invariant is at the head of `RpcTypeProofs`. A message has four
shapes on its way (in the sender's queue, in the loop's hands, in the receiver's
queue, in `message_queue_`, where the port is the sender's and the objects are
swapped), so each is read as a *letter*: what was said, from whom, to whom.
`Track` lists the letters of each place in order, and `RpcTypeProofs` shows once
that a step of any actor takes a letter from the head of a track, puts one at
the end of another, moves one or clears a track; a letter that is forwarded
stays the same letter. All else is said about letters.

* `TypeCorrect` and, with the hypothesis `~FdsRunOut`, `LoopNeverReturns`
  (`RpcTypeProofs`), from `WireInv`: types,
  what a thread in each phase has in its hands (`PhaseInv`), and that every
  message, deferred message and proxy names a port the router knows
  (`AddressInv`). `NextIdIsFree` is the lemma about `next_id_`.
* `AnswersAreAwaited`, `LoopFindsItsObjects` (`RpcCallProofs`), from `CallsInv`:
  an id is never a receiver's and a proxy's at once (`IdsInv`); a request or its
  reply that is under way is waited for by the thread that called, with the very
  message it sent, unless an exception ended the caller (`MailInv`); no tag is
  in two places (`UniqueInv`); no reply is in a `message_queue_` (`QueueInv`).
  `ReplyIsAnswer` and `AnswerIsReply` are the heart: the test of
  `channel.cpp:110-111`, which compares neither the proxy nor the call, is true
  of a letter exactly when it is the answer, because the object it compares is a
  receiver's, a request names a proxy there, and a program waits for one answer
  at a time.
* `WaitsAreNotOrphaned` (`RpcCallProofs`), with `AwaitedInv`: some letter has
  the tag a thread waits for, or its receiver is dead; by `UniqueInv` only one
  has. The letter may be the request or the reply, so `AwaitedInv` also says
  that its opcode is one that is answered, which is what keeps `HandlerReturns`
  and a refused reply from dropping it. `LostIsDead` is the step that loses one:
  a receive that fails.
* `Implementation`, the refinement, with `CountedInv`: a failed call is nowhere
  and was never handled, and one that returned is not waited for (`HistoryInv`);
  a call is handled once, and a call whose letter is still there was handled
  only if it is at the head of a queue whose handler runs, or ran when an
  exception ended the program (`HandledInv`, with `Entered`). Each
  step is then one step of `RemoteCalls` or a stutter.
* `CallsAreInOrder`, with `OrderInv`: on the way from a caller to a receiver,
  those further on were made before (`Ordered`, over all the tracks), and a call
  on its way was made after those its receiver has handled (`LaterInv`).
  `OrderedMove` shows that passing a letter on keeps the order, so the proof
  does not depend on how many places there are.

`AnswersAreAwaited`, `WaitsAreNotOrphaned`, `Implementation` and
`CallsAreInOrder` have a hypothesis, `[]WrongIdsAreFree`: an id that no receiver
has but a program connects a proxy to is never the id of one of the peer's
proxies. It is true of all the runs, and whenever `WrongId` is empty. Without it
the peer takes a request for the answer to its own call, as with `bind_static`
below. `LoopFindsItsObjects` assumes that `WrongId` is empty, since any other
wrong id ends a `loop()`, and, like `LoopNeverReturns`, that receivers of
handles have descriptors left (`~FdsRunOut`).

`StreamPortProofs` (for any messages, garbage read as a header, `ChunkCells`,
`SocketChunks` and numbers of sends and receives):

* `StreamIsFramed`: `ReadAsSent` speaks of what has been returned, and is not
  inductive: nothing in it says where the next read will begin. `Chained` says
  that each chunk is consecutive parts of one message, and that a chunk, the
  chunk behind it and the writer *meet*: the next part of the same message, or
  the header of a later one when the message is complete or cut. `ReaderInStep`
  says that, while no message up to the current one is spoiled, the socket (or
  the writer, if the socket is empty) begins exactly with the part the reader
  lacks. So a read in step takes the whole of the first chunk (`ReadInStep`),
  and finds the next header behind the last part of a message
  (`NextAfterChunk`). A garbage header, a failed allocation, a signal and the
  end of the file can only end a `receive` that is out of step or at the end
  (`GarbageRead`, `EarlyEndRead`).
* `StreamImplementsPort`: with `StreamInvariant`, a receive that returns takes
  the first message of `Unread`, and a send that returns appends to it. `Port`
  sends only when there is room, and the stream has room for bytes, not
  messages: `Dense` adds that consecutive chunks are of the same or of
  consecutive messages, so the messages that wait are at most one more than the
  chunks (`RoomForAnother`), which is why `Port`'s capacity is
  `SocketChunks + 1`.

`SerializationProofs` (for any bytes and width of `size_t`, byte order, types,
values, capacities and numbers of items and reads, with payloads that end
before `size_t` does), from `SerialInv`:

* `BufferHolds`: `WritesInBounds` is kept by a write that doubles once only
  because the capacity is never below the width of a number (`BufferInv`).
  `write_raw` doubles until it is enough; that its loop ends is `GrownIsEnough`.
* `ReadersStayInside`: a reader tests a sum that wraps. `FitsWhen` says that,
  for an offset inside a payload, the test means what it says whenever the sum
  does not wrap; a size read from the payload may make it wrap, which is where
  C++ throws and C overruns, without a move of the offset.
* `WrittenIsRead`: `RoundTrip` speaks of what was returned, and is not
  inductive. `CallsInv` says that each call of `serialize` writes the first of
  what the call before it left, or the next value of the program; `PayloadInv`
  that its bytes and handles are in the payload from where it began to where the
  next began, which later writes do not change; `SyncInv` that a reader asked
  for the types written is before each call where the writer was, with the types
  of what it had left. `ReadBack` is the heart: what a call finds where a
  value's own bytes are is that value. Types nest to any depth: a step looks at
  one call only.
* `ReadersAlike`: a string's length and characters, and the offset left behind,
  are the same for both readers (`AgreeInv`), whatever the payload holds.

`FrontEndProofs` (for any text, blanks, separators and keywords, and any order
of `next`, `peek`, `reset` and new texts), from `LexerInv`:

* `TextIsTokenized`: `_skip_ws` starts with `in_comment = False` wherever the
  last token ended, and knows nothing of the characters before, so
  `TokensAreTheText` needs `Between`: the lexer never stops inside a comment,
  nor where the next character is a `#` that continues a word. Then what a scan
  takes for a comment is one (`Skipped`), and no character of a token is in one
  (`TokenExtent`). `ScanKeeps` is the step of both `next` and `peek`, since what
  was found is recorded when it is found; `Restarts` is that a token kept over
  `reset` is all that comes before the text.
* `PositionsAreExact`: what is true of a token's position is true of the
  lexer's own at every step (`Placed`): `_line` counts the newlines before it,
  and `_col` the characters since the last one, or else a blank that the code
  does not count is among them (`SkipPlaced`, `TokenPlaced`).
* `ParserReads`: a step of the parser is a step of `LexerSpec`, so it keeps
  `LexerInv`, and `FrontTextIsTokenized` and `FrontPositionsAreExact` are the
  same for every program of `FrontEnd`.

and, for `FrontEnd` with any `Input`, from `FrontInv`, which is `LexerInv` and
`ParseInv`:

* `TreesAreTheText`: `TreeIsTheText` speaks of the trees that are returned, and
  nothing in it says where a token is while the parser is deep in its calls.
  `InPlace` does: what is left of the tokens read, with a semicolon that is
  owed, is what the calls on the stack have `Taken`, one after another, and a
  call has taken what it `Begun` with and what the kids of its node stand for.
  `KidsFit` says at which places a call may have how many kids; `Slack`, that
  the calls under way and the levels of the trees they hold stay below
  `Height`, so that every node is in the domain of `Yield`. `RuleObeys` is the
  heart, one lemma for each routine: a rule, for any token that it is for,
  adds to what its call has taken what is left of the token. Then a call goes
  on with the calls it makes (`GoesOnInPlace`), or returns its node to the call
  below (`ReturnsInPlace`, `KidReturns`). Empty brackets are the exception:
  `T<>` is a `T`, so the second bracket takes the first back (`KeptGrows`),
  which is right because `OpenBracket` tells at which place a call is when the
  last token was `<`.
* `VerdictsAreTheSame`: the two parses are at no time side by side, so the
  invariant compares each with what the text makes of a parse. `Following` is
  the parser's step as a function of the state of a parse and a `Table` of what
  a scan finds from everywhere in the text; it is one because no two rules are
  for the same token at the same place (`SameRule`), and the step of the module
  is that function (`StepFollows`). A parse that ends does so in one way
  (`EndsOnce`). `VerdictInv` says that the first parse is on the way from
  `Opened`, and that the second one is too, or starts with the token that a
  failed parse had peeked: `reset` keeps it. In that case the first parse has
  taken a token, so the text starts with `namespace` (`FirstParse`); whatever
  the token kept is, the parse is refused at it or at the next one, `namespace`
  again where a name has to be (`Refused`), and the first one was refused too.

`SidlProofs` (for any names, builtin types, containers, declarations):

* `TypeCorrect`, `UsesAreDefined`, `TaintTheorem`, `NoHandleTheorem`, from
  `ResolverInv`: the defined names are the builtin ones and the accepted
  structs'; each struct uses names defined before it; `_handle_tainted` with
  `handle` is closed under use (`TaintClosed`) and inside every closed set
  (`TaintSound`). The last two make it the least closed set, which is what
  `HoldsHandle` quantifies over, so no induction over chains of structs is
  needed. `DefinedBeforeUse` is needed for the step: otherwise a name used by an
  earlier struct could come to hold a handle later.
* `HeaderCompiles`, from `CppInv`, which adds that structs' names differ and
  that the declarations of the header are the accepted ones in their order
  (`RootInv`): a struct that another uses comes before it in both lists, and the
  pending structs' specializations keep that order.
* `ReceiversUnderstand`: `WrittenIsRead` says that the items read are those
  written if the two specializations of each struct before agree, and
  `StructsAgree` that they all do, by the least struct for which they do not.
* `StructHandlesTravel`: likewise, with `NoHandleContained` for the types under
  a container.

The assumptions are those the modules name: `CapacityAssumption`,
`FdsRunOutAssumption`, `MaxEventsAssumption`, `DestinationAssumption`,
`MaxSendsAssumption`; `MessageAssumption`, `RoomAssumption`; `PortOfAssumption`,
`ClientAssumption`, `OpcodeAssumption`, `CallEdgeAssumption`, `IdAssumption`,
`MaxCallsAssumption`, `MaxProxiesAssumption`; `NameAssumption`,
`StructAssumption`, `InterfaceAssumption`; `CharacterAssumption`,
`TokenTypeAssumption`, `InputAssumption`; `WordAssumption`,
`CapacityAssumption`, `PayloadAssumption`, `TypeAssumption`, `ValueAssumption`
of `Serialization`. The inductive invariants were checked with TLC before they
were proved, those of `RpcSystem` on the instances of `rpc_safety` and
`rpc_faults`, those of `StreamPortProofs` and `SerializationProofs` on the
instances of `MCStreamPort` and `MCSerialization`, `LexerInv` on all texts of up
to 5 of 7 characters, `ParseInv` on the instance of `MCFrontEnd`. The theorems
about `FrontEnd` have the hypothesis `[]Prints`, that what `TextOf` writes for a
parsed tree is text; it is a part of `PrintedIsReadBack`, so the run checks it
of `PrettyPrinter`.

The library's induction theorems take an operator as a parameter, which the
provers cannot instantiate. Where an induction is needed (`Grown`'s loop,
structs within structs, the lexer's loops, the levels of `Yield`, the steps of a
parse) it is made by `Least` of `CommonLemmas`: a set of numbers that is not
empty has a least one, so the least counterexample is the one to refute.

Only model-checked: liveness (out of TLAPS's reach here, like `ENABLED`), and
`PrintedIsReadBack`: what the printer writes for a tree is a recursive operator,
and that the parser inverts it is an induction over trees.

## Abstractions, and what is left out

* One access to `ports_`, one system call, and one receive with its look-up are
  each one step. `std::unordered_map` is not safe under the two threads that
  use it; what a torn access may do is not modelled, except that `loop()` may
  use an entry that was erased (`Forward`, `ForwardFails`,
  `ForwardBadDescriptor`).
* `remove_port` closes the router's end in one step. While `loop()` blocks in
  `sendmsg` on that very socket the kernel keeps it open, and what its client
  sends meanwhile is accepted and never read; in the model that send is refused
  already.
* Descriptor numbers are not reused. A number freed by `remove_port` could be
  given to another socket while `loop()` still holds it.
* `Port` is the datagram pair that the tests of the rpc layer and the examples
  build, `StreamPort` the byte stream of `create_pair`, alone and in one
  direction. `router_simple` (`ipc_tests.cpp:68-109`) routes over such streams,
  which no module does. What is different there: `epoll_wait` reports a port as
  soon as a part of a message is there, and `receive` blocks the loop in
  `MSG_WAITALL` until the rest is (in a peek of a partial header it does not,
  and the sizes are wrong); a port whose client closed is reported for ever as
  ready, and `receive` then reads an uninitialised header (`StreamPort`'s
  `PeekGarbage`). So `ReceiveNeverBlocks`, and all that is said of the router,
  is said of datagram pairs; `StreamImplementsPort` carries over what a stream
  does while its messages are whole, which is not what `epoll_wait` reports.
  `EINTR` before anything was read or written (the code retries) and errors of
  `epoll` itself are left out, and so is the `SIGPIPE` that ends a process which
  writes to a closed stream.
* A handle is a name for what was sent. The descriptors that a receiver gets
  are new ones, which the router never closes after it has sent them on: they
  stay open in its process, and in the end a message with handles is received
  incomplete, which ends `loop()`. The model does not count them: with
  `FdsRunOut` this may happen to any message (`HandleIncomplete`,
  `ForwardBadDescriptor`, `ReceiveFails`), without it to none.
* The router sends on what it received, so its port refuses no message for its
  size or number of handles.
* Messages between channels have whole headers, so the exception of
  `channel.cpp:40-41` is not met; a program that writes ipc messages of its own
  beside its channel is not modelled.
* A datagram pair is bounded by the sender's socket buffer; `Capacity` counts
  messages, so a capacity of one stands for large messages.
* A queue into a closed end keeps its content, which nobody reads.
* `bind_static` on an id that is already bound replaces a receiver in the code;
  the model keeps sets of ids and does not say which object an id means.
* `loop()` is not called again after an exception left it, nor the router's
  after it returned.
* `RpcSystem` has no `remove_port` and no client that closes its port; the
  router's end is its crash.
* The model's programs do not send a C payload after a write failed.
* A node of the syntax tree has no position, and an error no wording. Words are
  of one or two characters in the instances; their length plays no role.
* `parse()` stops after the first namespace: what follows it in the file is
  never read. The token at the end of a text is always at line 1, column 1
  (`lexer.py:122`), where `unexpected eof` is then reported: `PositionsExact`
  leaves that token out. The resolver and the back ends look names up without
  their namespaces. The printer drops the generics of types, and
  `PrintedIsReadBack` says so. Two of the parser's exceptions are not the ones
  meant: building them raises another (`Exception`, for lines 162 and 212 of
  `parser.py`), which the driver does not catch.
* `TypeResolver` never adds to `_defined_methods` (`type_resolver.py:107`), so
  two methods of one name are accepted; C++ overloading may or may not take
  them. `CppBackend` tells methods apart by their opcodes.
* The line of a proxy that reads a returned handle lacks a parenthesis
  (`cpp.py:139`); `CppBackend` models the statement meant.
* `bind_static` of an id that a live proxy has makes the peer take that proxy's
  request for the answer to its own call (`channel.cpp:110-111` compares only
  the object). `RpcSystem`'s programs do not do that (`BindsStatic`); an id may
  be fixed before or after others are allocated, and `next_id_` steps over it.

### Not modelled

* `libcprotorpc`'s vectors and optionals: nothing calls or serializes them, and
  the function that would make a vector from a buffer is declared as
  `_vector__from` and defined as `_vector_from`.
* The C back end: it writes declarations and empty destructors, with no state
  and nothing yet that reads or writes a message.
* The driver's options and output files, the excerpt it prints with an error,
  and its exits: it returns 0 after an error and leaves older output files in
  place, and an unknown back end ends in an `AttributeError` (`sidlcc.py:42`).
* Tests, examples and build files, but for what they show of how the libraries
  are used.

## Plan

In the order of importance.

1. `Port`, `Router`, `RouterClients`: the table and the flow, with proofs.
2. `Channel`, `RpcSystem`, `RemoteCalls`: calls, faults, liveness, refinement.
3. `Serialization`: round trip, agreement of C and C++.
4. `TypeResolver` with proofs.
5. `RouterProofs`: types, `IdInv`, order, loss, blocking.
6. `StreamPort`: the byte stream, with signals, the end of the file, handles.
7. `Lexer`, `Parser`, `PrettyPrinter`, `FrontEnd`; `CppBackend`.
8. Proofs about `RpcSystem`: types, letters and tracks, calls and answers, the
   refinement of `RemoteCalls`, order.
9. `StreamPortProofs`: the framing of the byte stream, and that it implements
   `Port`.
10. `SerializationProofs`; the theorems about `CppBackend` in `SidlProofs`.
11. `FrontEndProofs`: the tokens are the text, with their positions; the trees
    are the text; a parser says the same of a text twice.
