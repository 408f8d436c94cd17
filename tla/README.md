# R2CP: models, checks and proofs

R2CP runs on a robot. An operator's browser connects to it over WebSocket and sends R2CP packets, byte
sequences that hold commands; robot modules react to the commands, and their responses go back as packets.
This directory models the program's own code in TLA+, checks it with TLC on small instances, and proves
theorems about it with TLAPS for every value of the constants.

The program's own code is about 2400 lines of C++ under `src/`, in `src/Base64/` and in `src/Logger/`. `src/ASIO/`
and `src/WebSocketPP/` are vendored, 213 thousand lines of which the server uses one class of connection and one
event loop. The only documentation of the program is the drawings in
`src/Architecture/R2CPArchitecture.drawio`. There are no tests.

## 1. Inventory

### Components, their state and operations

| Component | State | Operations | What makes it correct |
|---|---|---|---|
| `R2CPTransceiverQueue` (singleton) | two queues (reception, transmission): a vector of packets, a `uint32_t` byte count, a maximum, a mutex each | `pushto...queue`, `popfrom...queue`, `setmax...queuesize`, `get...queuesize`, `get...count` | first in first out, nothing lost or doubled; byte count exact; bytes bounded by the maximum; a pop of an empty queue says so with `underflow_error` |
| `R2CPWebSocketServer` | `isrunning`, `hasconnection`, `operatorconnectionhandle`, pointers to two threads, the websocketpp endpoint | `run`, `halt`; handlers `onopen`, `onclose`, `onmessage` in the reception thread; the loop of the transmission thread | one operator at a time; only the operator's packets are queued; responses leave in order, once, for the operator; `halt` returns and leaves no connection |
| `R2CPPacketProcessor` | `isrunning`, a pointer to its thread, a map from command codes to robot modules, a set of modules | `run`, `halt`, four ways to register and unregister modules; `executetask` in the thread's loop | a response packet answers one packet, in order; nothing happens after `halt`; faults of a packet or module stay with it |
| `R2CPRuntimeBroker` | a server and a processor | `run` (start both, wait for `q`, halt both), destructor (halt both again) | operators are answered in order and once, and not after `run` has returned; both come to an end |
| `R2CPParser` | a stack of offsets | `validater2cppacket`, `parser2cppacket` | what is accepted parses; what is parsed is what was sent |
| `R2CPSerializer` | a stack of offsets | `serializecommands` | what is serialized parses to the same commands |
| `R2CPCommandDictionary` (singleton) | tables fixed at construction | three getters | the tables agree with each other |
| `R2CPCommand`, `R2CPParameter` | a code with parameters; a code with data | getters, deep copies | copies are equal |
| `Base64` | none | `encode`, `decode` | decode undoes encode, and an early end gives no byte that is wrong |
| `Logger` (singleton) | file loggers, severities, a mutex | `log`, `addfilelogger`, `removefileloggerat`, `clearfileloggers` | every file has the entries of its severity, in one order; logging returns |
| websocketpp `connection` (vendored) | a session state, a send queue with a write flag, a timer of the handshake in progress; two mutexes | `send`, `close`; in the reception thread `start`, the handlers of reads, writes and timers, `terminate` | frames leave in order, none after the last; every handshake and every close ends; the handlers of the server are called in the right order |

### How they interact

    operator ==websocket==> reception thread --push--> reception queue --pop--> processing thread
    (browser)               (onopen, onclose,                                   parse, react, act,
       ^                     onmessage)                                         serialize
       |                                                                           |
       +====websocket======= transmission thread <--pop-- transmission queue <--push--+

Four threads: the one that runs the broker and calls `run` and `halt`; the reception thread, in which the
websocketpp endpoint runs every handler; the transmission thread; the processing thread. Robot modules may be
registered from any thread. The threads share the two queues (a mutex for each, taken twice in every call), the
members of the server and of the processor (no lock at all), the connections of websocketpp (a mutex for
the state, taken in some of the functions that change it), and the logger (a mutex, taken in some of its functions).

### What is hard

* **Between two locked sections of one call.** A push reads the size under the mutex, compares outside, and
  takes the mutex again to append; a pop counts, then erases.
* **Locks that some take.** websocketpp's `terminate` changes the state that `close` has tested under a mutex; the logger's
  removals change the vector that `log` goes through under a mutex.
* **Members shared with no lock.** `hasconnection` and the handle are two members, set one after the other; the
  transmission thread tests one and uses the other; `halt` reads them while handlers run.
* **Exceptions.** websocketpp's `send`, `close` and `stop_listening` throw, so do the parser, the serializer and robot
  modules, and each caller catches some types only. An exception that leaves a thread ends the process.
* **Ends.** `halt` joins threads that end only when something else has happened.
* **Sequences of calls.** run, halt, run again; halt before run; destructors that halt a second and a third time.
* **Numbers.** 32-bit sums of sizes that wrap; offsets cut to 8 bits in the serializer.

`PROJECT.json` lists every hazard at its line with the properties that are there for it.

## 2. What is modelled

| Module | Models | Grain |
|---|---|---|
| `PacketChannel` | abstract: the bounded channel a queue promises to be | one action for a put, one for a take |
| `MemoryQueue` | one queue of `R2CPTransceiverQueue`, any threads on it | a section under the mutex is one action |
| `ConnectionLife` | abstract: what websocketpp promises the server of one connection | one action for each change the server can see |
| `Connection` | websocketpp's `connection` with its asio transport, three threads and a peer | a section under a mutex, or one access to shared state, is one action |
| `WebSocketServer` | `R2CPWebSocketServer`, and the endpoint as far as it relies on it | one access to a shared member is one action |
| `PacketProcessor` | `R2CPPacketProcessor`, robot modules, registration | one step of `executetask` is one action |
| `CommandService` | abstract: what the broker promises operators | one action for an operator, a packet, an answer |
| `RuntimeBroker` | `R2CPRuntimeBroker`: server, processor and both queues under its calls | that of its parts |
| `Logger` | `Logger`, any threads | what is under the mutex is one action for each file |
| `CommandDictionary` | the dictionary's tables and getters | operators |
| `PacketFormat` | reference: the byte layout in the drawings | operators |
| `Parser`, `Serializer` | `R2CPParser`, `R2CPSerializer` | operators, one for each function or loop body |
| `Base64` | `base64_encode`, `base64_decode` | operators |
| `PacketCodec` | parser and serializer against the format, Base64 against itself | packets as clients may build them |
| `MC...` | the instances for TLC | |
| `MemoryQueueProofs`, `ConnectionProofs`, `WebSocketServerProofs`, `PacketProcessorProofs`, `RuntimeBrokerProofs`, `LoggerProofs`, `PacketCodecProofs` | theorems about the module each is named for | |
| `SequenceLemmas` | lemmas on sequences, sums and loops that three of those share | |

Which module stands on which:

    CommandService  <--implements--  RuntimeBroker
                                       |-- INSTANCE WebSocketServer --behaves by--> ConnectionLife
                                       |-- INSTANCE PacketProcessor                      ^
                                       `-- queues, as PacketChannel has them         implements
                                                     ^                                   |
    PacketCodec -- Parser, Serializer, Base64        `--implements-- MemoryQueue     Connection

### `MemoryQueue`

The reception and the transmission half of the class are the same code on different members; the module is
either. `queue`, `queuesize` and `maxqueuesize` are the members. `packet` and `seen` are the locals of a push: its argument
and the size it has read. A push is `ReadSize` (under the mutex), then `Admit` or `Refuse` (the comparison, outside, with the maximum then
in force), then `Push` (under the mutex, with no second look). A pop is `ReadCount`, then `Pop`, or `PopEmptied` if others
have emptied the queue meanwhile: `at(0)` throws `out_of_range`, which no caller handles. All sums are modulo `WordModulus`, 2^32 in
the code.

### `WebSocketServer`

Members have the names they have in the code. `main`, `rx` and `tx` say where the caller of `run` and `halt`, the reception
thread and the transmission thread are; `maincon`, `rxcon` and `txcon` are the connections they have in hand. Of websocketpp's endpoint
there is its state (`uninitialized`, `ready`, `listening`), what `init_asio`, `listen` and `stop_listening` throw on it, and when its `run` returns: when it does not
listen and no connection is left. A connection is in one of the states of `ConnectionLife`, and the property `ConnectionsLive` checks that it changes only
as that module has it. So `close` is two steps here as well: `CheckOpen`, then `CloseOperator`, which makes it a closing one whatever has become of it.
The close handler runs in the reception thread right after the connection is `closed`, before anything else is handled.

An unsynchronised `bool` is read and written as a single access, which is what the supported
compilers make of it. The handle is a `weak_ptr`, two words and a reference count: an assignment is `BeginAssign` and
`EndAssign`, and a copy in between is undefined behaviour: `TornHandle` ends the behaviour with
`fault = "undefined"`. The constructor leaves the thread pointers uninitialised, so `Init` lets them be null or wild; `WildPointer` is what `halt` does with
a wild one. An exception that leaves a thread, or `halt`, is `fault = "terminate"`, after which nothing happens.
`accepted`, `heard` and `sent` are history variables.

### `Connection` and `ConnectionLife`

`Connection` is one connection of websocketpp from `start` to its end, as `R2CPWebSocketServer` uses it. The members `m_state`, `m_internal_state`, `m_was_clean`,
`m_send_queue`, `m_current_msgs`, `m_write_flag` and `m_handshake_timer` have the values they have in the code. The io_service is what it has under way: one read
(`reading`), one write (`m_current_msgs`), the `write_frame` calls dispatched (`posted`), the timer the pointer names and those it has left (`orphans`), which fire
all the same. The reception thread (`rx`) runs one handler at a time, in steps where another thread can come between: `send_close_frame` is
`Closing`, `Arm`, `PushClose`, and `terminate` is `TerminateCancels`, `Terminate`, `OnClose`. The transmission thread tests the state (`SendChecks`) and pushes later
(`SendPushes`); the thread in `halt` closes with `m_connection_state_lock` held from the test to the push. `terminate` and the answer to the peer's close frame take no lock, as
in the code. A peer may send data, pings, close frames (with a code that is valid or not) and frames against the protocol, and vanish at any time. An assignment of the timer's pointer that
overlaps another is undefined behaviour: `TimerRace`.

`ConnectionLife` is what the server may know of that: `none`, `connecting`, `open`, `closing`, `closed` (the close handler is due), `gone`; and, when `close` in another thread
has tested the state before the connection ended, `reclosing` and `zombie`, a connection that has ended and is closing again. The property `ImplementsLife` is the refinement: `Connection`
takes a step of `ConnectionLife` or stutters. `life` reads the state of `ConnectionLife` off the members of the connection and the calls its handlers have seen, `checked` off the position of
the thread in `halt`.

### `PacketProcessor`

A packet stands for what the parser makes of it: rejected, a header only (which the validation accepts and the
parse throws on), or a sequence of command codes. A response stands for the packet and the command it answers.
`position` is the iterator of the loop over commands, `toact` the rest of the loop over modules, `responses` is
`responsecommands`. Modules may answer, not answer, or throw one of `ModuleThrows`; where each exception is caught is as in
the code: `out_of_range` in the reactive part means no more than a missing module, `invalid_argument` and `underflow_error` abandon the
packet, anything else ends the thread. `SerializerOutcomes` says what `serializecommands` may do: at this commit it always throws (run `codec_serialized`);
the documented outcome, a packet, is kept beside it so that what the processor does with response packets is checked too. A registration that races with the processing
thread, and the iterator that `unregisterrobotmodule` uses after erasing it, are undefined behaviour (`RegistryUndefined`).

### `RuntimeBroker` and `CommandService`

`RuntimeBroker` instantiates both components on one set of variables. `Program` is the sequence of calls that `run`, the broker's destructor and
those of its members make, and `next` how many were made; the call after the second waits for the user to type `q`, and nothing obliges them to. What `onmessage` pushes is what
the processor receives (`Receive`), and what the end of `executetask` pushes is what the transmission thread may pop (`Respond`); both may be refused by a full queue. The queues are the
sequences of `PacketChannel`, which `MemoryQueue` is shown and proved to implement. `fault` is shared, since an uncaught exception ends both.

`CommandService` states the promise: operators take over from each other, packets are answered in the order they came, each at most once, to the operator who asked or to
one who came after, and nothing happens once `run` has returned. `ImplementsService` is the refinement.

### `Logger`

`log` makes the text of its entry and then takes the mutex: `Log`, `Lock`, one `WriteFile` for each file logger, `Unlock`. The time in the text is any of `Times`. `gettimestring` runs before the mutex is
taken and formats the one `tm` that `std::localtime` has for all threads (`src/Logger/Logger.cpp:24`), so that another thread's call can give an entry the seconds of a later or an earlier one beside its own
milliseconds, or of neither when the calls overlap; and `system_clock` may be set back between the two readings. Nothing is claimed of the time, and what is claimed of the files holds for any. `removefileloggerat` reads the size (`BeginRemove`) and then
erases (`EndRemove`) or logs a warning (`Warn`, `IndexOutOfRange`), which goes through the same steps. Neither it nor `clearfileloggers` takes the mutex, so `Race`, when
another thread goes through the vector or changes it, is undefined behaviour, after which nothing is claimed. What a file has received is a history variable that outlives its logger.

### `Parser`, `Serializer`, `CommandDictionary`, `PacketFormat`, `Base64`, `PacketCodec`

Each function of the two classes is an operator of its name. Each level of the offset stack belongs to one function at a time, so it is passed on
as a value; a result carries the exception thrown. Reading past the end throws before or in `at`, whichever: `CanRead`. Skipping is
unchecked and wraps: `Skip`. A loop is `Repeat`, whose turns are operators of their own (`ParseCommand`, `ValidateParameter`); it, the sums of the serializer (`DataSize`,
`precomputer2cppacketsize`) and the weights of a word's bytes (`Weight`) are recursive functions, so that they can be reasoned about. `PacketFormat` is written from the drawings (drawio:910-1426) and is the reference. `Base64` has a byte as four groups of bits with `Q` values each (4 in the code)
and a digit as three, since that is how the shifts and masks cut them; a character that is not in the alphabet, `=` among them, is any number that is no digit. `PacketCodec` has no component of
its own: its steps are a client that builds a packet from commands and then gets some bytes wrong. `R2CPCommand` and `R2CPParameter` are the values of the two classes of these names.

## 3. What is checked

| Run | Shows |
|---|---|
| `queue_wired` | One pusher and one popper, as each queue has in the broker: `TypeOK`; the byte count is the bytes held (`SizeIsBytesHeld`); never above the largest maximum (`BytesWithinLimit`); a pop never meets an emptied queue (`NoPopOutOfRange`); the queue implements `PacketChannel` (`ImplementsChannel`). |
| `queue_shared` | Three pushers and two poppers, since the class says its object "can be used everywhere in code": the maximum is exceeded by at most a longest packet for each pusher but one (`BytesWithinCapacity`). |
| `connection_session` | A connection under three threads and any peer: frames are written in the order they were pushed, once (`WrittenInOrder`); none after a terminal one, no message after the close frame of `halt` (`NothingAfterClose`); messages reach the server between the open and the close handler of the operator's connection only (`MessagesInSession`); `ImplementsLife`; what is queued is written unless the connection closes (`OutputDrains`); handshakes and closes end (`ExchangesEnd`). |
| `connection_twice` | violated: the close handler is called twice (finding 2). |
| `server_serving` | Three clients while the server runs, transmits and halts: the flag vouches for the handle (`FlagVouchesForHandle`), no rejected client is heard (`OnlyOperatorsHeard`), packets leave in order and once (`SentInOrder`), the server never sends on a connection it has closed itself (`SendNeverMeetsOwnClose`), no connection outlives `halt` (`HaltLeavesNoConnection`), and connections behave by `ConnectionLife` (`ConnectionsLive`). |
| `server_halting` | `halt` comes to an end (`HaltReturns`) and queued packets are taken with or without an operator (`QueueDrains`), through restarts, failing listens and exceptions, if clients leave some day. |
| `server_displaced` | violated: two operators are connected (finding 1). |
| `processor_wired` | Packets of every kind, modules that throw, registrations at any time, two halts: a response packet answers one packet, in the order of its commands (`ResponseOfOnePacket`, `ResponsesInOrder`); nothing happens without the thread (`StoppedIsQuiet`); `halt` returns (`HaltReturns`); the queue is worked off (`ReceptionDrains`). |
| `broker_service` | The whole composition implements `CommandService` (`ImplementsService`), and after `q` the calls of `run` and of all destructors come to an end (`QuitEnds`). |
| `codec_packets` | Ten lists of commands and all packets up to two differences away: what is accepted parses (`AcceptedParses`), re-encoding what was parsed gives the packet back (`NothingLost`), commands of the dictionary arrive whole and in order whatever others are between them (`CommandsArrive`), modules see commands and parameters of the dictionary only, and never `INVALIDCOMMAND` (`OnlyKnownCommands`; for both see below what the drawings say of codes), the serializer's size formula is the format's (`SizeIsTheFormats`), and Base64 carries every such packet there and back (`TextCarriesPacket`). |
| `codec_serialized` | violated: the serializer throws on every list of commands (finding 3). |
| `logger_files` | Two threads log, add and remove file loggers: files have the entries of their severity in one order, complete (`OutputsAgree`), and a call that logs returns (`LogReturns`). |

Each property of a passing run has a mutant in `PROJECT.json`: a definition of the model changed as a plausible bug would change
the code, under which TLC finds the property violated.

### Findings

1. `onclose` of a client that was turned away clears `hasconnection`, and a third client is accepted beside the operator (`src/R2CPWebSocketServer.cpp:117`).
2. websocketpp says that the close handler is called exactly once (`src/WebSocketPP/websocketpp/connection.hpp:66-67`). `halt` tests that the connection is open, the reception thread
   terminates it and calls the handler, `halt` sets it to closing again, and the timer's `terminate` calls the handler a second time (`connection_impl.hpp:2124`). Until then `halt` waits for that timer.
3. The first write of `serializecommands` asks for room in an empty vector and throws (`src/R2CPSerializer.cpp:173`).

Met while modelling, and in the modules as the code has them, without a run of their own:

* The operator leaves between the test of `hasconnection` and `send`: the exception ends the transmission thread and the process (`src/R2CPWebSocketServer.cpp:178`; `SendThrows`).
* `halt` closes the operator's connection only, and only if `onopen` has set the flag by then; it then waits until other clients leave (`:200`; `HaltReturns` needs `LeavingSpec`).
* `halt` on a connection that has just left, or right after `run`, throws (`:60`, `:202`; `HaltThrows`).
* The drawings call the packet of a header only valid. The validation agrees, the parse throws `out_of_range` (`src/R2CPParser.cpp:25`; `ParseThrows`, and `HeaderOnly` in `AcceptedParses`).
* The drawings leave it to the robot modules which command and parameter codes are valid; the parser's job is "only to consider a valid R2CP packet structure" (drawio:913). The parser asks the dictionary: it skips a
  command whose code is not there (`src/R2CPParser.cpp:31`) and discards one with a parameter the dictionary does not give the command (`:163`), as an `IMAGESEND` with an `IMAGEHEIGHT`, and no module is asked. `ParseCommand` does as
  the code does. `CommandsArrive` is about commands of the dictionary and leaves open whether others arrive, so it holds by either reading; `OnlyKnownCommands` states what the code does (its warnings: "Faulty command discarded"),
  and would have to go if the drawings were followed.
* The validation counts an unknown command code as one without content, so one with content invalidates its whole packet (`src/R2CPParser.cpp:241`; `ContentIsExpected` in `CommandsArrive`).
* The image parameters go into the set meant for the motor's (`src/R2CPCommandDictionary.cpp:37`), and a module registered for two codes stops being active when one of them is unregistered (`src/R2CPPacketProcessor.cpp:79`).

### Bounds, and why they are enough

* Queue: packets of 0, 1 and 2 bytes tell apart what sizes do (free entry, fit, does not fit); at most four packets queued;
  words modulo 8 in the wired run so that the sums come close to the modulus. Two pushers already overshoot; the third shows that the bound grows with them. Maxima change at any time.
* Connection: two messages are sent and two frames read. Two messages have an order and can wait while a write is under way, and one can be pushed on each side of a close frame; two
  frames of the peer are a close frame and what follows it, or a message and what ends the connection. Pongs and close frames come on top. The violation needs neither.
* Server: three clients are the fewest for finding 1. Two calls (a run and a halt) for the safety run; three for liveness, for
  a restart, with two clients, since symmetry is unsound there. Two packets have an order.
* Broker: its own eight calls, all of them. Two clients are an operator and one who is turned away or takes over; two packets of one command, to be answered in order;
  one module and one change of the registry. Faults of modules and serializer are in `processor_wired`, and are left out here, for they end every behaviour.
* Processor: one code suffices for the dispatch; two modules for replacement and for order within a packet; a packet each of no command, of two,
  invalid, and of a header. Two packets received have an order, and the second meets what the first has left behind. Three calls: run, halt, run; three
  registry changes: register, unregister, register.
* Codec: words of two bytes of eight values, so words wrap at 64, within reach of a packet, and bytes can be misaligned against words.
  Two differences suffice for a size and a count that are wrong together, or for a size that wraps. For Base64 a group of bits has two values, a byte sixteen: a packet is tried with
  bytes in the lower and in the upper half, and packets of all lengths modulo three occur.
* Logger: two threads, two entries from outside, two file loggers of which one may be silent (severity 0) or pass warnings only, one removal; two times, so that the later of two entries can bear
  the earlier one. A third thread would only wait for the same mutex.

`CHECK_DEADLOCK FALSE` is set where the system really stops: after a fault, when the calls of the bound are made and the clients gone,
when the packet is as different as the bound allows.

### Fairness

Weak fairness of each thread's own steps: the scheduler runs every thread that can run. For the endpoint in `WebSocketServer`, weak fairness
of the step that ends a handshake or a closing: websocketpp has a timer on both, and `ExchangesEnd` of `Connection` shows that they do end. No fairness of anything a
client or a caller decides: connecting, sending, calling `run`, `halt` or a registration. `LeavingSpec` adds that clients leave; `server_halting` and `broker_service`
need it, because `halt` waits for clients it does not close. In `RuntimeBroker` the call that follows `q` is up to the user, the others are fair. The liveness properties count a
fault as an end: a process that has ended does not hang.

In `Connection` timers have strong fairness: the peer's frames, handled in the same thread, disable a timer's handler for a while again and again, but the io_service runs handlers
in the order they became ready, so they cannot keep it waiting for ever. Writes come to an end, well or not: TCP gives up on a peer that takes nothing. In `Logger`, weak fairness of each thread
suffices for `LogReturns`, as the number of entries is bounded; a mutex that starves a thread among endless others is beyond it.

## 4. What is proved

Each state machine has a module of proofs, and every theorem in it holds for every value of the constants: any clients, packets, commands, modules, threads, words and bounds.

| Module | Theorem | States |
|---|---|---|
| `MemoryQueueProofs` | `TypeCorrect` | `Spec => []TypeOK` |
| | `BytesBounded` | `NoWrap` implies `Spec => []BytesWithinCapacity` |
| | `SizeExact` | `NoWrap` implies `Spec => []SizeIsBytesHeld` |
| | `SoleProducerWithinLimit` | with one producer and `NoWrap`, `Spec => []BytesWithinLimit` |
| | `SoleConsumerSafe` | with one consumer, `Spec => []NoPopOutOfRange` |
| | `QueueImplementsChannel` | `NoWrap` implies `Spec => ImplementsChannel` |
| `WebSocketServerProofs` | `Typing` | `Spec => []TypeOK` |
| | `FlagVouches` | `Spec => []FlagVouchesForHandle` |
| | `StrangersUnheard` | `Spec => []OnlyOperatorsHeard` |
| | `SendingOrder` | `Spec => []SentInOrder` |
| | `NoOwnClose` | `Spec => []SendNeverMeetsOwnClose` |
| | `HaltIsComplete` | `Spec => []HaltLeavesNoConnection` |
| | `ConnectionsBehave` | `Spec => ConnectionsLive` |
| `PacketProcessorProofs` | `Typing` | `Spec => []TypeOK` |
| | `OneResponse` | `Spec => []ResponseOfOnePacket` |
| | `ResponseOrder` | `Spec => []ResponsesInOrder` |
| | `Quiet` | `Spec => StoppedIsQuiet` |
| `ConnectionProofs` | `Typing` | `Spec => []TypeOK` |
| | `FramesInOrder` | `Spec => []WrittenInOrder` |
| | `CloseIsLast` | `Spec => []NothingAfterClose` |
| | `MessagesHaveSession` | `Spec => []MessagesInSession` |
| | `LifeImplemented` | `Spec => ImplementsLife` |
| `RuntimeBrokerProofs` | `ServiceImplemented` | `Spec => ImplementsService` |
| `LoggerProofs` | `Typing` | `Spec => []TypeOK` |
| | `OutputsInAgreement` | `Spec => []OutputsAgree` |
| `PacketCodecProofs` | `ValidationVouches` | `Spec => []AcceptedParses` |
| | `NothingIsLost` | `Spec => []NothingLost` |
| | `CommandsComeThrough` | `Spec => []CommandsArrive` |
| | `KnownOnly` | `Spec => []OnlyKnownCommands` |
| | `SizeAgrees` | `Spec => []SizeIsTheFormats` |
| | `TextCarriesPackets` | `Spec => []TextCarriesPacket` |

The assumptions are the types of the constants (`QueueAssumption`, `ServerAssumption`, `ProcessorAssumption`, `ConnectionAssumption`, `BrokerAssumption`, `LoggerAssumption`, `FormatAssumption`, `Base64Assumption`,
`CodecAssumption`), `ClientAssumption` of the codec (below), all of which TLC evaluates in every run, and `NoWrap` where it is named. So every invariant, action property and refinement that the passing runs check is
proved as well, and only liveness is not. In the modules of concurrent components the argument has the same shape: an inductive invariant `IInv`, of parts that are named for what they say; a lemma for each
part, with a step for each action, or for a group of actions that leave the part alone; and the theorems, which are corollaries. TLC checked each `IInv` as an invariant before it was proved. `PacketCodec` differs: its
state is a packet, its `IInv` says no more than that it consists of bytes and is the format's as long as the client has made no error, and the work is in what the operators return.

### `MemoryQueue`

`NoWrap` says that the maximum, plus a longest packet for each producer, is below 2^32. The setters of the code admit
maxima for which it fails; the default, 16 MiB, satisfies it for any packet a client can get through in practice.

The bound on the bytes held is not inductive: a push that has passed its test appends whatever has happened
since. The inductive invariant `IInv` counts the pushes that are committed: those that have passed the test, and those that
would pass it at the largest maximum. Each may add a longest packet. One of them, the one that read the size last, needs no
allowance: its own reading left room for its packet. That is `Credit`: either the bytes held plus an allowance for every
committed push are within capacity, or there is one whose own bytes plus an allowance for the others are. A read renews the credit (`CreditRenewed`), a push spends its
own allowance (`CreditSpent`), everything else keeps it (`CreditKept`). That the counter is exact needs it too, since the sums
must not wrap, and so does the refinement. The sole consumer's theorem rests on an invariant of its own: a
thread about to pop sees a queue that is not empty.

`queue_shared` checks the bound of `BytesBounded` with many threads; that the counter is exact then, too, is `SizeExact`.

### `WebSocketServer`

`FlagVouchesForHandle` fails to be inductive in two places: where `onopen` sets the flag, two steps after it has assigned the handle and with `halt` at work in between, and where the caller of `halt` changes a
connection it has tested earlier. `HandlerMeets` has what a handler of the reception thread meets: the connection of `onopen` is open and not yet the operator's, that of `onclose` has ended. `AcceptedLive` has the life of
the connections accepted: one of them is closing only when `halt` has closed it, and an open one is accepted unless `onopen` has it in hand, which is why no stranger is heard. `HandleAccepted` says that the handle is never
empty where it is used, `CloseMeets` that a late close does not meet a connection brought back already. `ThreadsJoined` ties the pointers to the threads' positions; from the join of the transmission thread on `tx` is `none`, so
`SendNeverMeetsOwnClose`. `RunHasAll`: outside the endpoint's `run` no connection is left, so `HaltLeavesNoConnection`. `PacketsOrdered` orders the numbers of what is sent, in hand and queued. `ConnectionsBehave` takes from
`HandlerMeets` and `CloseMeets` where each step on a connection starts.

### `PacketProcessor`

What is in the transmission queue says nothing of the next packet to be pushed. `PacketsOrdered` orders the numbers of the packets waiting behind the one in hand, `ResponsesOrdered` ties the responses gathered to the
packet and the command in hand, `AnsweredBefore` puts every response queued before both. `InHand` says what `executetask` has in hand at each of its positions, in particular that `responsecommands` is empty when a packet is
popped: the point at which an abandoned packet could leave something behind. `ThreadJoined` gives `Quiet`.

### `Connection`

`Flow` has the frames written, being written and waiting as stretches of the frames pushed, with a gap only after a write that failed, and then the write flag stays set for good. `TerminalLast` keeps the terminal frame
at the end of its batch, after which the flag is never taken back. `MessagesFirst`: a close frame that is not terminal is that of a rejected connection, or that of `halt`, which has joined the transmission thread. The session needs who may do what when: `OthersUse`, `NotStarted`,
`Opening`, `FrameSet`, and `Told`, what the handlers were told against the state, including the connection that `halt` has brought back from the dead. From those every step is one of `ConnectionLife` or a stutter.

### `RuntimeBroker`

`RuntimeBrokerProofs` instantiates the proofs about server and processor, and uses their theorems for the parts. `Steps` sorts the steps of the composition: the server alone, the processor alone, a packet received
by both, a response pushed by both. Each of them is a step of the one and no step, or a change of the shared call counter only, of the other, so both keep their invariants (`PartsInductive`, with `OthersStep` of each).
What ties them is `Coupled`: the handle is that of the last connection accepted, and none is accepted twice (`HandleIsLast`); packets came from accepted connections (`AskedByOperators`); a response in the transmission
thread's hand goes to an operator not before the one who asked (`ToLaterOperator`), although the handle may have changed since; and where the calls of `Program` are, the server's threads are (`Phases`). The refinement then maps the assignment of the handle to
`Connect`, the reception of a packet to `Request`, and a send to `Answer`; that answers follow the order of requests is `PacketsOrdered` of the server put together with `ResponsesInOrder` of the processor, and that
none comes after `run` has returned is `Phases` with `ThreadsJoined`.

### `Logger`

`Written` says of every file what it lacks: nothing, or the entry that a thread is writing and has not come to it with. What a file should have, `Due`, is a function by recursion over the entries since it was
added (`PassingAfter`). The library's induction theorems take an operator, which no installed prover instantiates; that the recursion defines a function (`PassingExists`), that it depends on the entries it reaches only
(`PassingAgrees`), and how it grows with one more entry (`PassingAppend`) is proved through a smallest counterexample instead (`SmallestOf` of `SequenceLemmas`). `Logging` has an entry for each thread that logs, `MutexHeld` has one
thread at the files, `Numbered` keeps the loggers in the order they were added.

### `PacketCodec`

The theorems hold for bytes of any number of values, words of any number of bytes, and packets of any length and content, so for the 256, the 4 and the clients of the code. `ClientAssumption` is about what a client puts into a
packet, not about the program: a command has the content its code takes (`WellFormed`: parameters are not disguised as raw data, nor raw data as parameters), and a packet is shorter than 2^32 bytes, or no size field could state its length. `CodecAssumption` has the types, and that a byte is
not more than four pairs of bits.

*Loops.* Everything the parser and the serializer compute is a loop, and induction over data is not to be had (see `Logger`). In its place stand two lemmas of `SequenceLemmas`. `UpTo`: a set of numbers that has 0, and with each number up to n the next, has n; it is the smallest counterexample again, for a set where induction has a
predicate. `Iterates`, which follows: for a start in a set and turns that stay in it there is the function from 0, 1, ... n to the states between the turns, so the recursive definition of the loop defines it. From `Iterates`
each loop gets its states by name (`IsParameterOffsets`, `IsCommandStates`, ...); from `UpTo`, an invariant of its turns holds at its end.

*Validation against parse* (`ValidationVouches`). The two walk a packet with different code, and where the parse skips what it does not know the validation may have read it. `CommandsFollow` and `ParametersFollow`: as long as the parse throws nothing its offset is the
validation's. `ParametersInside`: where the validation of parameters ends at the end of the content, no offset on the way has wrapped, which is where `WordsFit` is needed, as `skipbytesfromr2cppacket` tests nothing. Then whatever the parse wants to read is there (`ContentReads`, `PacketReads`).

*Bytes back* (`NothingIsLost`). Reading a word and writing it gives its bytes back, for any number of digits (`WordBack`). Then, turn by turn: what was read so far, written again, is the packet up to the offset (`ParametersBack`,
`CommandsBack`). The number of commands that are left must be the number in the packet, or one was discarded; the end of the last is the end of the packet because the validation has said so.

*Commands there* (`CommandsComeThrough`). The other direction: `Holds` says that a packet has given bytes at a given place, `IsLayout` where each of a list of pieces begins in their concatenation (`HoldsFlatten`). A packet built from commands holds each at its place, so
both the validation (`PacketHeld`) and the parse (`PacketArrives`) go from one to the next; a command that is discarded half read leaves the parse at the same place as one that is kept, since the offset is computed from the size field.

*The size* (`SizeAgrees`). The serializer's nested sums and the length of the format's concatenations are both sums over the same list; they agree at every prefix of it, and since the packet fits a word, no sum on the way is cut.

*Base64* (`TextCarriesPackets`). `GroupBack` has the arithmetic of one group: three bytes are cut where the code cuts them and put together again, with quotients and remainders by `Q` and its products, which are named
(`PairValues`, `DigitValues`, `ByteValues`) since the provers know nothing of powers. A text cut short decodes to a prefix because the digits that are missing are only read for bytes that `ByteCount` does not count (`PrefixDecodes`): what `DigitAt` makes of them does not matter.

### Model-checked only

* Liveness: the proof system does not reason about fairness or ENABLED. `OutputDrains`, `ExchangesEnd`, the two `HaltReturns`, `QueueDrains`, `ReceptionDrains`, `QuitEnds`, `LogReturns`.
* What a `violation` run shows.

## 5. What is not modelled, and why

* `R2CPCommand` and `R2CPParameter` are records; their deep copies, which write past the size of a reserved vector, are called by nothing and left out.
* `run` on a server or processor that already runs, `halt` from inside a robot module, the public `waituntilfinished`: the broker does none of it.
* `Logger`'s stream operators, `logstream` and `setstdoutlogseverity`: nothing in the repository calls them. Which entries standard output shows is left out with the severity of it.
* The wait for `q`: `std::cin >> userinput` at the end of input fails for ever and the loop spins (`src/R2CPRuntimeBroker.cpp:33`); the model only says that the user need not type `q`.
* Addresses, ports, poll times, log texts: no property is about them. Sleeping is a stutter.
* What logging does beside its entries: `convertformattostring` has a buffer whose size does not count the strings among its arguments (`src/Logger/Logger.hpp:151`), and the message for a discarded command
  (`src/R2CPParser.cpp:46`) can be longer, which is undefined behaviour. The parser is modelled as if its warnings were always written in full.
* Most of ASIO and websocketpp. These are 213 of the 216 thousand lines of the repository: buffers, executors, sockets of all platforms, TLS, serial ports, clients, extensions. The server runs one `io_service` in one
  thread and connections without TLS. Of that the project has the connection's state machine, send queue, timers and handlers, and the endpoint's states, listening and accepting. The parsers of HTTP and of frames are a
  choice of what they may deliver; pause and resume, deferred HTTP responses, pings of the server's own and the limit on the send buffer are not used. The order in which asio runs handlers is stated as fairness
  and not modelled. The share of the repository's lines that the modules stand for stays small for this reason; of the program's own 2400 lines they have nearly all.

## 6. Plan

Done, in this order: `PacketChannel`, `MemoryQueue` and its proofs (every packet passes through it twice); `WebSocketServer`;
`PacketProcessor`; dictionary, format, parser, serializer and their comparison; `Connection` and `ConnectionLife`; `CommandService` and `RuntimeBroker`; `Logger`; `Base64`.
Then the proofs, in the order of section 4 but for `RuntimeBroker`, which stands on those of its parts.

To come, if the code changes: a serializer that writes must be checked against the parser as `PacketFormat` is now (that what is serialized parses to the same commands), and with an `onclose` that tells connections apart `OneOperator` would become an
invariant of `server_serving`. Liveness stays with TLC.
