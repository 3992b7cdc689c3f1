# A TLA+ model of the Minecraft TCP proxy

The program is a TCP proxy for Minecraft servers, written in C++20 on
standalone Asio. It accepts clients, reads the first packet (the handshake),
answers a status request itself, and for a login rewrites the handshake,
connects upstream and relays bytes both ways. Its own code is about a thousand
lines in `src/src/code` and `src/src/headers`; everything under
`src/src/external` is vendored. Paths below are relative to `src/src/code`.

## Inventory

| Part | State | Operations | Interacts with |
| --- | --- | --- | --- |
| `Session.cpp` | two sockets, a deadline timer and its generation, two relay buffers, `shutdown_initiated` | `Start` (coroutine), the connect handler, `WriteSource`, `ReadSource`, `WriteDest`, `ReadDest`, `ArmDeadline`, `End` | awaits `MCPacketReader`; `on_closed_` posts to the server's strand |
| `Server.cpp`, acceptance | acceptor, retry timer, signal set, registry `sessions_`, `stopping_` | `accept_connections` and its handlers, `Stop` | spawns `Session::Start`, calls `Session::End` |
| `Server.cpp`, threads | `failed_`, worker threads, `io_context` | `Run`, `RunContext` | catches what leaves a handler, calls `Stop` |
| `Server.cpp`, `get_endpoints` | - | one blocking DNS query before the loop | its result goes to every session |
| `MCPacketReader.cpp` | 1024-byte buffer, `read_pos`, `write_pos`, `total_written` | `InterceptHandshake`, `WriteCustomStatusRequest`, `ReadVarInt`, `FillPacket`, `CurrentByte`, `BlockRead` | reads the client's socket, fills the session's `outgoing_buffer` |
| `Protocol.cpp`, `VarInt.cpp` | - | parsing and serialising | called by the reader |
| `ServerConfig.cpp`, `main.cpp` | the configuration | `parse_config`, start-up | read-only afterwards |

Handlers of one session run on that session's strand, handlers of the server
on the server's strand, and any number of threads run the event loop. What is
hard: completions that were queued before `End()` and run after it; a deadline
that expires while it is being replaced or cancelled; state read before an
await and relied on after it; sessions that end while `Stop()` iterates over
the registry; an accept that completed just before `Stop()`; exceptions out of
handlers; and the shutdown, which works by letting every pending handler drain.
`PROJECT.json` lists these hazards with their lines.

What makes each part correct:

* a session: both peers get exactly the bytes they should; it cannot wait for a
  silent peer for ever; an established relay is not timed; after `End()` it is
  silent and is eventually freed;
* the reader and the codecs: a client that sends a proper login or status
  exchange is served whatever way it frames it, any other is refused, not a byte
  more than the exchange is taken, and upstream can read what it is sent;
* the configuration: what is accepted is what the other parts rely on;
* the accept loop: it never stops by itself, never runs twice, and keeps the
  number of running sessions within the limit;
* shutdown: whatever caused it, it ends with no session left, and the exit code
  tells whether an exception was seen.

## Modules

### `Session.tla`

One session. A handler is one action, since the strand runs one at a time. The
coroutine is cut at its awaits: `at` says what it awaits, `io["co"]` whether
that operation is pending, done (`"ok"`, `"error"`) and so waiting for the
strand. `io["connect"]`, `io["up"]` and `io["down"]` are the same for the
connect and the two relay directions (`up` is client to upstream). A completed
operation keeps its result when the socket is closed; a pending one is aborted:
this is what makes late completions possible.

| Code | Model |
| --- | --- |
| `Start`, up to the first await | `Start` |
| `InterceptHandshake`, one awaited byte after another | `ReceiveByte`, then `ContinueHandshake`, `StartConnect` or `InterceptEnds` |
| `WriteCustomStatusRequest` | `ContinueStatus`, `SendReply`, `InterceptEnds` |
| an exception in the coroutine and the handler of `co_spawn` | `AwaitThrows` (an I/O error), `InterceptEnds` (a malformed packet) |
| the rest of `Start` | `StartConnect` |
| `asio::async_connect` | `Connected`, `Fail`, `NextEndpoint` |
| the connect handler | `ConnectAfterEnd`, `ConnectFails`, `StartRelay` |
| `ReadSource`, `WriteDest`, `ReadDest`, `WriteSource` and their handlers | `Read`, `Write`, `RelayHandler(d)` |
| `ArmDeadline` and its handler | `ArmDeadline(t)`, `Expire(t)`, `DeadlineHandler(t)` |
| `End` | `End(ops, ws)`, inside its callers; `RunPostedEnd` when `Stop()` dispatched it |
| `on_closed_` and the posted erase | `registry`, `Erase` |

Bytes are numbers: `i` is the i-th byte read from a socket and `-i` the i-th of
the rewritten handshake, so a lost, repeated or overwritten byte is visible in
`delivered`. `async_read_some` delivers any number of bytes up to the buffer's
size; `async_write` hands over one byte at a time and completes with the last.
What packets contain is left to `PacketReader`: here, after each byte, the
coroutine may go on, end, ask for the status or connect.

### `Tunnel.tla`, `SessionTunnel.tla`

`Tunnel` is what a session promises, in six actions and without timers, buffers
or handlers: it is established, takes a chunk only when the last one has been
given to the receiver, closes once, is erased, then freed. `SessionTunnel` maps
`Session` to it: `phase` comes from `shutdown_initiated` and the length of the
first write, `taken` and `given` count bytes, `freed` is the absence of every
reference. It is also the view that `Server` has of a session.

### `PacketReader.tla`, `MCPacketReader.tla`

The same coroutine with its data: the bytes on the wire, the reader's buffer
with `read_pos` and `write_pos`, the VarInt and the packet being put together,
the replies and the rewritten handshake. Each action is what happens between two
awaited bytes (`ReadVarInt`, `FillPacket`, and the code behind the last byte of a
packet: `InterceptHandshake`, `WriteCustomStatusRequest`). `ImplementsSession`
maps it to `Session`, so the choices that `Session` leaves open after each byte
are those the real reader makes. `Utf8` says which configurations are tried: those
whose texts are UTF-8, and those for which `status.dump()` throws behind the status
request and the exchange is `"undumped"`. A reader runs without its session's deadline and
`End()`, which only abort the operation it awaits (`Fail`). `MCPacketReader` has
the clients: every frame of good and bad packets, with lengths that are longer
than need be, too small, too large or no VarInt, and with bytes behind.

### `VarInt.tla`, `Protocol.tla`, `Codec.tla`, `MCProtocol.tla`

The codecs as operators on sequences of bytes; an exception is `Refused`,
`Malformed` or the empty sequence. The payload bits of a byte and the width of a
value are constants: with a byte of 2+1 bits and values of 5 bits, the longest
encoding has three bytes, the last of which carries one bit, as the fifth byte
of the code's encoding carries four. `Codec` compares `read` and `write` with
the number an encoding stands for, and `parse_handshake` with a grammar that says
where fields may end instead of reading them one after the other, and which values
lie between these ends, over a set of packets and all their prefixes; `MCProtocol` gives TLC that set.
`ProtocolAssumption` says that the largest handshake fits the vector of
`serialize_handshake` and the limit of `frame_packet`, and that a ping does; with
the code's constants (266 and 9 bytes of 4096) both hold by far.

### `ServerConfig.tla`, `MCServerConfig.tla`

`parse_config`, option by option, in any order and more than once. `NumberOptions`
and `TextOptions` are the chain of `if`s: the field that each option sets, and the
limits of a number. A text is its length and a number itself; the values to try (`Numbers`) are a constant, and
TLC tries each numeric option around both limits.
The limit of a favicon file counts the line ends that are stripped afterwards
(`TooLong`), so a URI of exactly 64 KiB with a line end behind it is refused.

### `Server.tla`, `MCServer.tla`

From `main()` to its exit code: start-up, the accept loop, the registry, `Stop()`
and the threads. `start` is how far `main()` has come (`Decline`, `Construct`,
`get_endpoints`, `Start`, each of which may fail, `StartFails`); a signal that
arrives before the wait for it is `queued`. A session object is `free`, `held`
(an accept will fill it), `running` or `closed`; closed objects become free and
are used again. `StrandFree` says that the server's strand is not inside the loop
of `Stop()`. That loop is the one handler modelled step by step, because
`session->End()` may run at once, here or on another thread, while it iterates.
`Throw` is an exception that leaves a handler: the thread is `caught` until
`CatchHandler` calls `Stop()` and runs the loop again. It may come out of
`accept_connections`, `co_spawn`, the handler of an accept before it is done with
its session (`AcceptThrows`: the dispatch in `End()`, the entry in `sessions_`), a
session's handler and, if `StopMayThrow`, the loop of `Stop()`. If `EndMayThrow`, the post
of the erase may fail inside `Close`: then nobody erases the session, and once its
handlers are done it is `leaked`. When the coroutine called `End()`, the exception
is only logged. `Work` is what keeps `context_.run()` from returning. `MCServer`
adds the symmetry of identities for TLC.

A definition whose comment begins with `Broken:` is not part of a specification.
It is a wrong variant of the definition after it; `PROJECT.json` (`mutants`) says
which property fails when it takes that definition's place.

### The proofs

| Module | About | Theorems |
| --- | --- | --- |
| `SessionProofs` | `Session` | types, deadlines, streams, silence after `End()` |
| `SessionTunnelProofs` | `SessionTunnel` | `Session` implements `Tunnel` |
| `ServerProofs` | `Server` | types, limit, accept loop, threads, exit code, iteration |
| `PacketReaderProofs` | `PacketReader` | types, room, outcome, rewritten login, replies |
| `VarIntProofs`, `ProtocolProofs` | `VarInt`, `Protocol` | lemmas, and `WrittenIsRead` |
| `CodecProofs` | `Codec` | the five codec properties |
| `ServerConfigProofs` | `ServerConfig` | accepted configurations |

`PacketReaderProofs` and `CodecProofs` rest on `ProtocolProofs`, which rests on
`VarIntProofs`; `SessionTunnelProofs` rests on `SessionProofs`.

## Runs

| Run | Specification | Bounds | Checks |
| --- | --- | --- | --- |
| `session` | `FairSpec` | buffer 2, handshake 2, 2 endpoints, 3 bytes per socket | `TypeOK`, `DeadlineArmed`, `RelayUntimed`, `StreamIntact`, `NothingLostAtEof`, `NoTrafficAfterEnd`, `ImplementsTunnel`, `NegotiationEnds`, `ClosedIsFreed`, `ImplementsTunnelFair` |
| `session_end_closes` | `Spec` | 1, 1, 2 endpoints, 2 bytes | `EndClosesSockets`, violated |
| `session_connect_ends` | `FairSpec` | 1, 1, 1, 1 | `ConnectEnds`, violated |
| `server` | `Spec` | limit 2, 4 session objects, 1 worker and the main thread, 2 exceptions, `EndMayThrow` | `TypeOK`, `ActiveBounded`, `AcceptLoopAlive`, `NoThreadLost`, `ExitHonest`, `IterationStable` |
| `server_accepts` | `FairSpec` | limit 1, 3 objects, 1 exception | `SlotReclaimed`, `AcceptResumes` |
| `server_stops` | `FairSpec` | limit 2, 3 objects, 1 exception, `EndMayThrow` | `ExitClean`, `StopEnds` |
| `server_stop_throws` | `FairSpec` | limit 1, 3 objects, 1 exception, in the loop of `Stop()` too | `StopEnds`, violated |
| `server_slot_lost` | `FairSpec` | no exception but the one of `EndMayThrow` | `SlotReclaimed`, violated |
| `packet_reader` | `Spec` | byte of 2+1 bits, values of 5 bits, reader's buffer 4 | `TypeOK`, `ReadHasRoom`, `OutcomeRight`, `RewriteRight`, `RepliesReadable`, `ImplementsSession` |
| `packet_reader_answers` | `Spec` | as `packet_reader` | `StatusAnswered`, violated |
| `codec` | inputs of up to 4 bytes, packets and their prefixes | byte of 2+1 bits, values of 5 bits, hostnames of up to 2 bytes | `ReadMeansValue`, `WriteReadsBack`, `ParsesHandshakes`, `RewriteReadsBack`, `RewriteFits` |
| `server_config` | `Spec` | 2 options, all limits of the code | `AcceptedIsUsable` |

Why the bounds are enough. With a buffer of two bytes and three bytes per socket
a direction makes several rounds of reading and writing, with full and partial
buffers, after a handshake of one to three bytes (the safety properties are proved
for every size); two endpoints give a first and a last one. The generation counter is not bounded: a session adds to it a fixed
number of times. With a limit of two and four objects the server is at its
limit while a third client is accepted and turned away, and `Stop()` iterates
over two sessions while others end; `MaxThrows` bounds exceptions, since the
first one already stops the server and the second can only meet the shutdown.
`AcceptCompletes` and `RetryExpires` wait for a free identity
(`Spare`), which bounds the model, not the program. The reader's buffer of four
bytes starts again several times within a login and at every place of a status
exchange. The widths of the codecs are scaled so that all inputs can be tried; in
each, the last byte of the longest encoding is only partly used and one more
byte is too many. Two options are enough to meet each pair of limits and each
option twice. Deadlock is not checked: a session and a server may finish.

Fairness. `LoopFairness` and `Fairness` say that the threads run every handler
that is ready and that a timer expires; a strand runs its handlers in the order
they were posted, so each posted erase and each dispatched `End()` has a
fairness of its own. Nothing is assumed of clients, upstream, signals or
exceptions. Two properties have a premise of their own. `OSGivesUp`: the operating
system ends a connect attempt that nobody answers; without it a session closed at
the wrong moment is not freed, which is the second finding. `PeersRead`: a receiver
reads on or its connection fails; the code has no deadline on a relay, so without
it a write may be pending for ever. `WF_vars(StartUp)` says that the DNS query of
`get_endpoints` comes back. `Free(s)` is fair in `Server` because `ClosedIsFreed`
holds of `Session`, given `OSGivesUp`.

## What disagrees with the documentation

1. `session_end_closes`. README.md:85 says that on shutdown "active sockets and
   timers are canceled". `Session::Start` tests `shutdown_initiated` before it
   awaits the handshake and not afterwards. When `End()` runs while the
   completion of the last handshake byte is waiting for the strand, the
   coroutine goes on to `async_connect`, which opens `dest` again.
2. `session_connect_ends`. README.md:79 calls `--connect-timeout-ms` the
   "Deadline for all upstream connection attempts combined". In the case above
   the deadline's `End()` returns at its `compare_exchange`, so nothing but the
   operating system ends the attempt; until then the process cannot exit.
3. `server_stop_throws`. README.md:85 also says "pending handlers finish, and
   worker threads join". `Stop()` sets `stopping_` before it ends the sessions.
   If ending one of them throws, `RunContext()` calls `Stop()` again, which
   returns at once, and the remaining sessions keep the process running.
4. `server_slot_lost`. README.md:100 says "The server removes a session from its
   registry when it closes". `End()` moves `on_closed_` away and then calls it; if
   the post inside it runs out of memory, nobody calls it again. When the
   coroutine called `End()`, the exception is only logged, and the server goes on
   with one place less. Shutdown is not affected (`server_stops`).
5. `packet_reader_answers`. README.md:3 says that the program "answers server-list
   status requests locally" and README.md:96 that `ServerConfig` "Parses and validates
   command-line settings". `parse_config` looks at the length of `--motd` and
   `--version-name` and at the length and the first bytes of a favicon. If one of them
   is not UTF-8, `status.dump()` throws behind every status request, and every client
   that asks for the status is disconnected without an answer. Logins are not affected
   (`OutcomeRight`), and with texts that are UTF-8 every status exchange is answered
   (`StatusIsAnswered`).

A test of `shutdown_initiated` after the await would repair the first two.

## What is proved

Every safety invariant of a passing run, the action properties and the refinement
`ImplementsTunnel` are theorems, for every value of the constants that satisfies
the assumptions of the modules. The one safety property left to TLC is the
refinement `ImplementsSession`, see below.

### A session (`SessionProofs`, `SessionTunnelProofs`)

For every buffer size, handshake size, number of endpoints and number of bytes
(`SizesAssumption`: the sizes are positive and the rewritten handshake fits the
buffer, which `InterceptHandshake` enforces): `TypeOK`, `DeadlineArmed`,
`RelayUntimed`, `StreamIntact`, `NothingLostAtEof` as invariants and
`NoTrafficAfterEnd` as an action property. None of these is inductive alone. The
invariant `IInv` adds:

* `Stages`: coroutine, connect and relay follow one another, so at most one of
  them has operations outstanding, and the relay's state is untouched before it
  starts;
* `Deadlines`: captured generations never exceed the current one, the handshake
  wait is live while the coroutine runs, the connect wait while the connect
  does, and in a relay every captured generation is in the past. This gives
  `DeadlineArmed` and `RelayUntimed`;
* `Alternation`: a pending write has bytes left, a pending read has none before
  it. Even the types need it, since `Transmit` advances `offset`;
* `Reader`: every byte taken off the client's socket has been seen by the
  reader, except the one in hand, so the relay starts exactly after the
  handshake;
* `Buffers`: the unwritten part of a buffer continues what was delivered. With
  `Alternation` it gives `StreamIntact` and `NothingLostAtEof`;
* `Quiet`: after `End()` the client's socket is closed and nothing but a connect
  is pending.

`Closing` and its lemmas state once what `End()` does, for the four actions that
call it. `StreamChanges` names the few actions that touch the streams.

`Refinement` (`Spec => ImplementsTunnel`) goes through the steps of `Session`. Each
is a step of `Tunnel` or none: `Alternation` and `Reader` give that a chunk is taken
only when the last was given, `Quiet` that a closed session takes and gives nothing
more, and `OnlyAliveActs` that no handler touches a session without references.

### The server (`ServerProofs`)

For any finite set of session objects, any set of worker threads, any limit and any
number of exceptions: `TypeOK`, `ActiveBounded`, `AcceptLoopAlive`, `NoThreadLost`,
`ExitHonest` and the action property `IterationStable`; and `ExitClean` if ending a
session does not throw inside `Stop()` (`~StopMayThrow`: otherwise it is false, which
is the third finding). `IInv` has one conjunct per argument:

* `Registry`: what runs is registered, and what is registered can be neither handed
  out again nor admitted twice. With `Limited`, a bound on the size of the registry,
  it gives `ActiveBounded`;
* `Acceptor`: there is one incoming session exactly while an accept is under way,
  and no retry then;
* `Cancelled`, `NotStarted`: only `Stop()` cancels, and before `Start()` has returned
  nothing but a signal can have happened;
* `HeldVisited`: a session whose coroutine was never spawned is in somebody's hands.
  Without this `ExitClean` fails for an exception between the insertion and the
  spawn;
* `Drained`: `run()` has returned anywhere only when `Stop()` was called and nothing
  is left. This gives `NoThreadLost` and most of `ExitClean`;
* `Failures`, `Exits`: an exception is being caught or recorded in `failed_`, and the
  exit code is taken after the joins. Together they give `ExitHonest`.

### The codecs (`VarIntProofs`, `ProtocolProofs`, `CodecProofs`)

For any number of payload bits, any width, any set of packets: `ReadMeansValue`,
`WriteReadsBack`, `ParsesHandshakes`, `RewriteReadsBack` and `RewriteFits`; so also for
the code's bytes of 7+1 bits and values of 32 bits, which TLC cannot enumerate.

`read`, `required`, `groups` and the reference `Meaning` are recursive functions. The
library's induction theorems take a predicate as a parameter; `Induction` and
`StrongInduction` are stated for a set instead and proved from the fact that a set of
numbers has a least one. That each recursive definition has the value it says
(`GroupsDef`, `RequiredDef`, `LoopDef`) is proved from the theorems on recursively
defined functions. Powers of two are handled by counting: `Power(n)` is the number of
subsets of a set of n elements (`PowerCounts`), which gives `PowerSum` and with it all
the arithmetic of groups and weights. The loop of `read` then agrees with `Meaning` as
long as no byte overflows, and `LastGroup` says that the code's test of the last byte
is exact. `ProtocolProofs` has the layout of a handshake: `Laid` says where each field
of a payload is, `PayloadIsParsed` that `parse_handshake` finds it there, and
`ParsedIsHandshake` that it finds nothing else.

### The reader (`PacketReaderProofs`)

For every set of client streams, every buffer size of at least one byte, every host,
port and status text that `ReaderAssumption` admits: `TypeOK`, `ReadHasRoom`,
`OutcomeRight`, `RewriteRight` and `RepliesReadable`; and `StatusAnswered` if every
text is UTF-8 (`FALSE \notin Utf8`: otherwise it is false, which is the fifth finding).
The assumption asks for the host and port that `parse_config` has checked and for a session buffer that holds `LargestFrame` (268 of
4096 bytes in the code). `IInv` adds:

* `Positions`: the buffer holds the byte in hand or none. With the restart at the
  end of the buffer it gives `ReadHasRoom`;
* `Awaits`: where the coroutine is says whether an operation is outstanding;
* `Stages`: the bytes taken so far are the frames that the stage follows
  (`Follows`), then a part of one frame, which is what `encoded`, `packet_length` and
  `packet` hold (`Assembled`);
* `DumpFails`: only a text that is not UTF-8 ends an exchange as `"undumped"`. With
  `OutcomeRight` it gives `StatusAnswered`;
* `Replies`: how many replies were written in which stage, and what is in them.

That nobody is wrongly refused needs a look at bytes that were never read: `Hopeless`
says that the whole stream, however it goes on, holds neither a login nor a status
exchange. `FrameIs` and `SameFrame` show that at most one frame begins at a byte, so a
length or a packet that the stage does not take settles it (`BadLength`, `BadPacket`).

### The configuration (`ServerConfigProofs`)

For command lines of any number of options with any values: `AcceptedIsUsable`, which
is about numbers and lengths, not about the characters of a text. `IInv` says that every
field a numeric option sets is within that option's limits from the defaults on
(`Ranges`), that favicons are within theirs, and that what was accepted passed the
checks behind the last option. `OwnFields` says that no two options share a numeric field:
without it a value within the limits of one option would not be within those of
another.

### Only model-checked

* All liveness (`NegotiationEnds`, `ClosedIsFreed`, `StopEnds`, `SlotReclaimed`,
  `AcceptResumes`, `ImplementsTunnelFair`): it needs fairness and `ENABLED`, which are
  out of the prover's reach.
* `ImplementsSession`. `Session` has one size for the rewritten handshake
  (`RewrittenSize`) and a bound on the bytes of a socket (`MaxBytes`), so the
  refinement holds for streams whose logins all have a protocol number of one
  encoded size, as those of the run do. A proof would need both as assumptions on
  `Streams`. That the rewritten handshake is read back and fits the buffer, for
  every size, is `RewriteRight`.
* The five findings, which are violations.

## Not modelled

* The JSON text of a status, base64 and UTF-8: `StatusText` is any sequence of bytes,
  and a text is UTF-8 or is not.
* Failures of `set_option` are part of `ConnectFails`; failures of `shutdown` and
  `close` are ignored by the code and by the model.
* An exception out of `End()` is in `Server` only (`EndMayThrow`, `StopMayThrow`);
  in `Session`, `End()` succeeds. An exception out of the `Stop()` that
  `RunContext()` or `Run()` calls, which ends the process at once, is in neither.
* In `Session`, an exception out of a handler other than the coroutine (the relay
  running out of memory): `Server` has it, as `SessionThrows`, and the session
  then lives until `Stop()`.
* In `Session`, connections that are never admitted: `Server` has them, as
  `Reject` and `AcceptFailed`. `Session` begins with `co_spawn`.
* Logging, the usage text, addresses and the texts of exceptions. Null pointers in
  `varint`: no caller passes one.
* Vendored Asio and nlohmann/json: Asio is modelled from outside, by how the code
  uses it; these definitions are marked external.

## Plan

1. Done: `Session`, `Server` from `main()` to its exit code, `PacketReader`, the
   codecs, `ServerConfig`, the refinements `PacketReader` to `Session` and `Session`
   to `Tunnel`, and the proofs above.
2. `ImplementsSession` by proof, under the two assumptions on `Streams` named above:
   `Positions` gives that the byte in hand is the one `Session` counts, and
   `LoginIs` what is put into its buffer.
3. Further action properties as theorems: a closed session's registry entry is
   erased once, the reader never takes back a byte.
4. A composition of `Server` with `Tunnel` per session, instead of `Server`'s own
   view of a session's life.
