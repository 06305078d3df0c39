# TLA+ models of FASST-LLM

This directory holds TLA+ modules and TLC configurations for this
repository. They cover two parts of it:

* the concurrent core: the SSH client handshake transport, its algorithm
  negotiation, channel flow control and the client's channel multiplexer in
  `src/lib/ssh`;
* the scanners of `src/modules` and `src/unnamed`, one Scan call each
  against every server reply of a small set.

`PROJECT.json` lists the components, the runs, the mutants, the mapping from
definitions to source lines, the findings and the hazards.

## The system

The repository is a set of network scanners. `src/modules/*/scanner.go` and
`src/unnamed/part_001` and `part_002` are one scanner each: AMQP, Bolt,
Cassandra, DNS-over-QUIC, IRC, LDAP, LPD, Memcached, MQTT, RADIUS, RethinkDB,
RFB, RTSP, SIP, TACACS+, Terraria, TFTP, X11 and XMPP. Each scanner sends a
probe over one connection and parses the answer in sequence, and no scanner
shares state with another. What makes a scanner hard to test is its input:
a server that answers anything, answers in pieces (TCP may return any
prefix of what was sent to one `Read`), closes early or never answers. The
SSH library `src/lib/ssh` is where threads interact:

* **handshakeTransport** (common.go 406-890). The *read loop* goroutine
  (`readLoop`, `readOnePacket`) is the only reader of the connection. When
  the server sends KEXINIT, the read loop runs the whole key exchange inline
  while holding `t.mu` (`enterKeyExchangeLocked`). Only then does it release
  the writers blocked in `writePacket` on `t.cond`. It passes every other
  packet to the consumer through the channel `t.incoming`, which holds 16
  packets. A writer whose byte count passes `RekeyThreshold` sends our
  KEXINIT itself. Any key exchange then blocks all writers until the read
  loop has exchanged NEWKEYS. The first exchange delivers a `msgNewKeys`
  marker to `requestInitialKeyChange`, and later exchanges deliver
  `msgIgnore`, which is dropped. The session ID is set by the first exchange
  only.
* **Negotiation** (`findCommon`, `findAgreedAlgorithms`, common.go 111-195).
  These pure functions pick, in each of the eight categories, the client's
  most preferred algorithm that the server also offers.
* **Client connection** (`NewClientConn`, `clientHandshake`, `Dial`,
  client.go). These run the initial handshake and cache the session ID. On
  failure they close the connection. Afterwards the multiplexer consumes
  `t.incoming`.
* **Client multiplexer registry** (`HandleChannelOpen`, `handleChannelOpens`,
  `handleGlobalRequests`, client.go 29-63 and 186-214). The dispatcher
  goroutine receives each channel open from the transport, looks its type up
  under `c.mu`, and hands it to the registered queue (capacity 16) with a
  blocking send, or rejects it. When the transport closes, it closes every
  registered queue and sets the registry to nil; a later `HandleChannelOpen`
  gets an already-closed channel. Global requests are all answered
  negatively.
* **window** (common.go 335-405). This is per-channel flow-control credit
  with blocking `reserve`.

`exchangeVersions`, the kex algorithms, `mux.go` and the cipher transport are
named by the spec but are not in this repository's sources.

## Modules

| module | models | state and actions |
|---|---|---|
| `Negotiation` | `findCommon`, `findAgreedAlgorithms` | operators only. `FindCommonFrom` is the nested loop, written recursively over the client list. `FindAgreedAlgorithms` makes the eight lookups in source order and returns on the first failure. |
| `MC_Negotiation` | checks them (instantiated by `MC_Scanners`) | the inputs are the initial state, one of three kinds chosen there: a pair of name-lists without repeats; a pair of KEXINITs over two lists per field; a pair of KEXINITs whose kex and host-key lists are any lists of up to two of three names. Each result is compared with a declarative reference, `RefCommon`. `GuessedWrong` is the test at line 803, which `HandshakeTransport` also uses. |
| `HandshakeTransport` | client side of `handshakeTransport` and `clientHandshake` | See below. |
| `Window` | `window.add`, `close`, `reserve` | `win`, `writeWaiters`, `closed` as in the struct, a location per reserver (idle, waiting in `Wait`, woken by a broadcast), the reserve's argument and result, and the history variable `granted`. `Add` refuses a wrapping increment. `ReserveEnter` is the lock, the count, the broadcast and the first loop test, and it completes at once when the window is usable. `ReserveWoken` is the re-test after a broadcast. |
| `CreditCounter` | the promise of `window` | an abstract credit in 0..2^Width-1 with grants, takes and a close. `Window` implements it under `credit <- win`. |
| `MC_HandshakeTransport` | instance for TLC | two writers and three server offers: one agreeing, one with a wrong guess, and one with no common kex. |
| `ClientMux` | `HandleChannelOpen`, `handleChannelOpens`, `handleGlobalRequests`, teardown | See below. |
| `MC_ClientMux` | instance for the stuck-handler run | three handlers, two of them for the same type, and a custom type nobody registers. |
| `MC_Channels` | `Window` and `ClientMux` for TLC | `which` picks one of the two in the initial state; the other keeps its initial state. `W` is two reservers over a 2-bit window, `M` the three handlers of `MC_ClientMux`, all receiving. Each keeps its own fairness, applied to its own steps. |
| `Probe` | the scanners' environment | zgrab2's statuses and `TryGetScanStatus`, the dial and I/O errors, what one TCP `Read` may return (`ReadChunks`), UDP read errors, `io.ReadFull`, zero-filled buffers, big- and little-endian integers. None of it is code of this repository. `WrappedStatus` is the status of an error wrapped with `fmt.Errorf("...: %w", err)`: `TryGetScanStatus` recognises an error by comparison and type assertion, not by unwrapping, so a wrapped error is unknown-error. |
| `MQTT`, `AMQP`, `Bolt`, `X11`, `TFTP`, `Memcached`, `Terraria`, `RTSP`, `TACACS`, `RADIUS`, `RethinkDB`, `XMPP`, `SIP`, `LDAP`, `LPD`, `RFB`, `Cassandra`, `IRC`, `IPMI`, `DoQ` | one scanner each | See below. |
| `MC_Scanners` | all scanners for TLC | one behaviour is one Scan of one scanner; see below. |

### HandshakeTransport

* **Variables.** The fields of `handshakeTransport` are `sentInit`,
  `writtenSinceKex`, `readSinceKex`, `writeError`, `readError`, `sessionID`,
  `incoming` and `incomingClosed`. The model adds:
  * the read loop's program counter `rl`, the packet it holds, and `firstKex`;
  * per writer, the program counter `wpc` (idle, waiting on `t.cond`, or
    woken) and the number of calls it still has to make;
  * the application thread `app`;
  * the wire in both directions;
  * the state of the server.

  Packets are reduced to their message type. A KEXINIT carries its
  `KexInitMsg`. Byte counters count packets.
* **Read loop.** Each branch of the code is an action:
  * `RLTop`: the threshold check that calls `requestKeyChange`.
  * `RLRead`: `conn.readPacket`; it either returns a packet or takes the
    error exit.
  * `RLDeliver`: the blocking send on `t.incoming`.
  * `RLKexLock`: takes `t.mu`, sends our KEXINIT if none is outstanding,
    and negotiates.
  * `RLKexGuess`: discards a wrongly guessed kex packet.
  * `RLKexReply`: the kex reply and the host key check (`HostKeyVerdicts`).
  * `RLKexNewKeys`: the NEWKEYS exchange.
  * `RLExit`: the exit path that sets `writeError` and broadcasts.

  `KexFinish` is the tail of `readOnePacket`: the broadcast, the reset, and
  the marker. It is part of whichever step ends the exchange, whether that
  step succeeds or fails. `t.mu` is held exactly while `rl` is inside the
  exchange (`MuHeld`). Every other critical section is one atomic step that
  requires `~MuHeld`.
* **Writers.**
  * `WriteEnter` is `writePacket` up to the `cond.Wait` loop, including the
    threshold-triggered `sendKexInitLocked`.
  * `WriteWoken` is the re-check after a broadcast: wait again, fail, or
    write.
* **Application.**
  * `AppRequestKex` and `AppWaitNewKeys` are `sendKexInit(firstKeyExchange)`:
    the `sessionID` check at line 645 and the wait for `msgNewKeys`.
  * `AppFails` is `NewClientConn` closing the connection.
  * `AppConsume` is `readPacket` by the multiplexer.
  * `AppClose` is `Close`.
* **Server.** The server follows RFC 4253 and is the environment:
  * it sends data or ignore packets;
  * it starts a key exchange from any of `PeerInits`, with its guessed
    packet if `FirstKexFollows` is set;
  * it answers our KEXINIT, KEXDH and NEWKEYS in order (`PeerRecv`);
  * it may hang up at any time.

### ClientMux

* **Variables.** `handlerOf` is `c.channelHandlers` (for each type, the
  handler whose call made the registered channel, or `None`) and `torn`
  whether the map is nil. `queue[h]` and `qclosed[h]` are the buffer of the
  channel made by handler `h` and whether it is closed. Per handler: its
  location `hpc` and what its call returned, `hq` (its own channel, the
  closed channel of lines 34-35, or nil). The dispatcher has its location
  `dpc`, the open it holds `dcur` and the channel its lookup found `dch`.
  The transport's side is the channel `in` of channel opens, `inClosed`,
  and the global requests `reqs`. `opens`, `regAtSend`, `rejected` and
  `reqsSent` are history for the properties.
* **Actions.** `HandleChannelOpen(h)` is the whole call under `c.mu`: the
  closed channel after teardown, nil for a registered type (`Registered`),
  else a new channel of `QueueCap` entered in the map. `HandlerRecv(h)` is
  the user's receive loop (`Stoppers` never receive). The dispatcher's loop
  is three steps, in the code's order: `DispatchRecv` (range over `chans`),
  `DispatchLookup` (the lookup under `c.mu` into `dch`, and the rejection
  when nothing is registered, `HasHandler`) and `DispatchSend` (the
  blocking send outside the lock, enabled while `HasRoom`). `Teardown`
  closes every channel still in the map (`CloseRegistered`) and sets the
  map to nil. `GlobalRequest` takes one request and answers it with
  `Reply(false)`. `PeerOpen`, `PeerRequest` and `TransportClose` are the
  transport.

### Scanners

Every scanner module has the same shape: `pc` walks the steps of `Scan`,
`reply` is what the server sends and `srv` what it has not yet delivered,
`status` and `err` are Scan's return values, `results` what it records and
`resNil` whether it returns nil results. `Open` is `t.Open` with its dial
errors; each write and read step has its error exits, each returning what
the code returns at that point. The server's bytes are natural numbers,
except where a scanner compares text: there a character, or for
RethinkDB a JSON token, is a short string.

| module | source | what is modelled |
|---|---|---|
| `MQTT` | `memcached/scanner.go` 265-528 | the CONNECT packet with its length bytes, the v3.1.1 and v5 readers, `readVariableByteInteger` byte by byte, `processConnAck` and `processDisconnect`, and TLS. |
| `AMQP` | `amqp/scanner.go` 117-191 | the TLS setup and the read of the 8-byte protocol header. |
| `Bolt` | `amqp/scanner.go` 300-377 | the identification and version messages and the 4-byte version answer. |
| `X11` | `unnamed/part_001` | the initial message, the read of the setup reply and its decoding. |
| `TFTP` | `tftp/scanner.go` | the RRQ datagram and `decodeTFTPResponse`, including its slice bounds. |
| `Memcached` | `memcached/scanner.go` 104-152 | `version\r\n` with its write error ignored, one Read of 256 bytes, and `^VERSION (\S+)\r\n$`. |
| `Terraria` | `terraria/scanner.go` 104-190 | the Connect Request, one Read of 1024 bytes, and `ValidateResponse`. |
| `RTSP` | `rtsp/scanner.go` 100-139 | OPTIONS, one Read of 4096 bytes, and the `RTSP/1.0` prefix test. |
| `TACACS` | `tacacs/scanner.go` 109-157 | the START header and one Read of 1024 bytes. |
| `RADIUS` | `radius/scanner.go` 16-270 | the Access-Request's bytes, one UDP datagram, the 20-byte test, the header parse and the code check. |
| `XMPP` | `unnamed/part_002` 108-188 | implicit TLS, the stream header, `zgrab2.ReadUntilRegex` one Read per step until `</stream:stream>` (its contract is the comment in `src/code/default_generation_prompt.txt`), and the `<stream:stream` test, over XML pieces. |
| `RethinkDB` | `rethinkdb/scanner.go` 112-170 | the magic number, the one-byte Read loop up to NUL, `json.Unmarshal` over tokens (a recursive recogniser of the object grammar) and the `success` test. |
| `RFB` | `rethinkdb/scanner.go` 164-324 | `ReadUntilRegex` one Read per step until `^RFB \d{3}\.\d{3}\n$` matches, and the two tests of the banner, over word tokens. |
| `SIP` | `sip/scanner.go` 124-237 | OPTIONS over UDP, TCP or implicit TLS, one Read (4096 bytes over TCP), UTF-8 decoding, and `parseResponse`: the status code from the leftmost `SIP/2.0 ddd`, the headers up to the empty line, and `Allow`. Over word tokens. |
| `LDAP` | `ldap/scanner.go` 93-158 | the anonymous bind request, `ber.ReadPacket`, and every check of the bind response, including the index at line 146 that panics. A BER packet is a tree of integer or string nodes. |
| `LPD` | `ldap/scanner.go` 164-336 | the job or queue-state command, one Read of 1024 bytes, and the `IsLPD` verdict on the first byte. |
| `Cassandra` | `cassandra/scanner.go` 1-163 | the STARTUP frame byte for byte and `ReadAvailable` as the banner. |
| `DoQ` | `cassandra/scanner.go` 164-347 | QUIC dial and stream, the query write, and the two `io.ReadFull`s of the length prefix and the body. A reply is abstracted to its prefix bytes, the length they state, the length of the body and whether it is a DNS message. |
| `IPMI` | `cassandra/scanner.go` 348-492 | the RMCP ping, one UDP Read, and both recorded in hex digit by digit. |
| `IRC` | `cassandra/scanner.go` 493-725 | implicit TLS, the one-Read banner, `SetupTLS` under `--authtls`, NICK and USER, and the one-Read response judged by `isValidIRCResponse`. Server text is abstracted to words. |

`MC_Scanners` instantiates every module with its set of replies. `which`
picks the scanner in the initial state, so the state spaces add up; the
modules share the names of their common variables, and those a module does
not have keep a fixed value. The properties are wrapped as
`which = "x" => X!Property`. Where the reply is TCP, `ShortReads` lets a
Read return any prefix. The pass run leaves out exactly the inputs of the
findings (a 120-byte MQTT password, a 132-byte v5 CONNACK, TFTP datagrams
of 2 or 3 bytes); the violation runs start from those under the same
next-state relation (`InitMQTT3LongPass`, `InitMQTT5Long`,
`InitTFTPShort`). One more choice of `which`, `"negotiation"`, takes its
initial states from `MC_Negotiation` and makes no step: the negotiation
checks are invariants of pure functions of the initial state, and they
share the run with the scans, whose own negotiation variables hold one
fixed call.

## Runs

| run | cfg | expect | what it shows |
|---|---|---|---|
| transport_safety | `MC_HandshakeTransport.cfg` | pass | `NoDataDuringKex`: no application packet is written between our KEXINIT and our NEWKEYS. `SessionIDStable`: the session ID is the first exchange hash and equals the copy that `clientHandshake` cached. Two writers, a threshold of 1, server-started rekeys with wrong guesses, failed negotiation, hang-ups and the Dial deadline passing at any point (3.1M states under writer symmetry, about 2 minutes). |
| transport_liveness | `MC_HandshakeTransport_live.cfg` | pass | `WritersEventuallyReturn`: every blocked `writePacket` returns. `HandshakeEventuallyEnds`: `requestInitialKeyChange` always ends, including when the exchange fails at any step. |
| transport_readloop_leak | `MC_HandshakeTransport_leak.cfg` | violation | `ReadLoopEndsAfterClose` is violated. See the finding below. |
| channels | `MC_Channels.cfg` | pass | Window: `NeverEmptyHanded`: `reserve` never returns zero credit without `io.EOF`, although two woken reservers race for one add. `ImplementsCreditCounter`: `Window` implements `CreditCounter`: overflowing adjustments are refused and nothing takes more than the window holds. `ReserversReturnAfterClose`: `close` releases every blocked reserver. ClientMux: `RegisteredNeverRejected`: an open of a type registered when it was sent is never rejected, although two handlers race to register it. `HandlersObserveClosure`: when every handler keeps receiving, each sees its channel closed after the transport closes (192k states, under 3 minutes). |
| clientmux_stuck_handler | `MC_ClientMux_stuck.cfg` | violation | `HandlersObserveClosure` is violated when one handler stops receiving. See the finding below. |
| scanners | `MC_Scanners.cfg` | pass | Negotiation: `findCommon` equals the reference on all 16x16 pairs of lists of up to three of three names; `findAgreedAlgorithms` matches each field against the same field, keeps the directions apart, and names the first failing category, on all 65,536 KEXINIT pairs; `GuessKeptOnlyIfAgreed`: a guessed kex packet is kept at line 803 only when the server's first kex and host-key algorithms are the agreed ones, on 10,000 pairs whose first choices differ in every way. Scanners: one Scan of each of twenty scanners against every reply of its set, with every dial, TLS, write and read failure and, for TCP, every way of splitting the reply, with the four properties below (84k states, seconds). |
| dial_deadline | `MC_HandshakeTransport_deadline.cfg` | violation | `TimeoutBoundsOnlyHandshake` is violated: the deadline Dial sets outlives the first handshake. See the finding below. |
| x11_status_byte | `MC_Scanners_x11_status_byte.cfg` | violation | `X11RefusalRecordedIffRefused` is violated by every setup reply. |
| tftp_short_datagram | `MC_Scanners_tftp_short_datagram.cfg` | violation | `TFTPScanReturns` is violated by a DATA datagram of 2 or 3 bytes. |
| xmpp_open_stream | `MC_Scanners_xmpp_open_stream.cfg` | violation | `XMPPStreamHeaderIsSuccess` is violated by a server that accepts the stream and keeps it open. |
| mqtt_long_password | `MC_Scanners_mqtt_long_password.cfg` | violation | `MQTTConnectLengthEncoded` is violated by a 120-byte password. |
| mqtt_long_connack | `MC_Scanners_mqtt_long_connack.cfg` | violation | `MQTTRecordsConnAck` is violated by a v5 CONNACK of 132 bytes. |

The scanner properties of the scanners run:

* `MQTTRemainingLengthDecoded`: the v5 reader decodes the remaining length
  the server encoded, against a fold over the 7-bit groups, for variable
  byte integers of one to five bytes.
* `RADIUSRequestWellFormed`: the Access-Request's length field is its
  length, and its attributes tile it exactly, as a server walks them.
* `RFBRecordsRFBBanner`: a success records exactly a 6-token RFB banner,
  and a server that sends one always gets a success, however TCP splits it.
* `CassandraStartupThenBanner`: a success sent a STARTUP frame that a
  decoder of the CQL frame and string map reads as {CQL_VERSION: 3.0.0}.

The other scanners have no property of their own: what they record on
success is a direct reading of the one reply, and stating it would repeat
the code. Their runs still take every step and every error exit, and
their hazards in `PROJECT.json` say what the state space shows.

## Findings

**Finding (common.go:548).** In the trace, the server sends two packets and
hangs up. The read loop puts the first into `t.incoming`, which holds one
packet in this model, and blocks sending the second. Meanwhile the KEXINIT
write of `requestInitialKeyChange` fails. `NewClientConn` closes the
connection and returns the error, so nobody reads `t.incoming` again, and
the read loop goroutine blocks at line 548 forever. With the real capacity of
16, the server needs to send 17 packets before the client's first KEXINIT
fails, which a hostile server can do. The spec says that closing the
connection unblocks the read loop. That covers a loop blocked in `readPacket`,
not one blocked sending on the channel.

**Finding (client.go:202).** Spec 4.4 says all registered queues are closed
when the transport closes, so that handlers blocked on them observe it. The
code closes them only after `handleChannelOpens` has handed every earlier
open to its queue, and that send blocks on a full queue. One handler that
stops receiving therefore keeps every other handler from ever seeing its
queue closed.

**Finding (client.go:228, Dial).** The spec says the connection timeout
bounds only the connect and the first handshake. `Dial` sets the absolute
deadline `now + Timeout` on the connection before `NewClientConn` and never
clears it. `DeadlinePasses` models the clock reaching it; from then on every
read and write of the conn fails. In the trace the first handshake
completes, the session ID is cached, the deadline passes, and the read loop
dies with an I/O error, closing `t.incoming`, although neither side closed
the connection.

**Finding (memcached/scanner.go:434, MQTT; run mqtt_long_connack).**
`processConnAck` reads the session-present flag and the return code at
fixed offsets 2 and 3, right only while the remaining length fits in one
byte. A v5 CONNACK with 128 bytes or more of properties is recorded with
the second length byte as the flag and the flags byte as the return code:
TLC finds `MQTTRecordsConnAck` violated by a CONNACK of 132 bytes.

**Finding (part_002:113, XMPP).** `readResponse` reads until the data
matches `</stream:stream>`, the server's *closing* tag, and drops what it
read on an error. A server that accepts the stream sends its header and
features and waits, so the scan ends when the deadline passes or the
server closes, with an empty banner and, since `GetXMPPBanner` wraps the
read error with `%w`, the status unknown-error; only a server that refuses the stream and closes it is
a success. Scan's comment (line 181) says any valid information, even with
an error, is a success.

**Finding (part_001:190, X11).** `ReadServerResponse` tests `buf[1] == 1`
as the status, but the X11 status is byte 0; byte 1 is the refusal
reason's length. An accepting server is recorded as a refusal, and a
refusal with a 1-byte reason as an acceptance.

**Finding (tftp/scanner.go:147).** `decodeTFTPResponse` rejects only
datagrams shorter than 2 bytes; for a DATA datagram of 2 or 3 bytes
`response[4:]` panics, and a short ERROR datagram is reported as code 0.

**Finding (memcached/scanner.go:325, MQTT; run mqtt_long_password).** The
CONNECT's remaining length is written as `byte(remainingLength)`, not as a
variable byte integer: with a long username or password the server reads
a different length than the packet has. With a 120-byte password TLC finds
`MQTTConnectLengthEncoded` violated.

**Not a run, noted.** The comment on `memcachedEndRegex`
(memcached/scanner.go:105) says it matches zero or more lines followed by
VERSION, but `^` and `$` without `(?m)` anchor at the ends of the whole
response, so any reply with another line is rejected. The scanners run
includes such a reply; it fails, and nothing wrong is recorded.

**Not a run, noted (ldap/scanner.go:146, LDAP).** `readBindResponse`
checks that the packet has two children but reads
`packet.Children[1].Children[0]` without checking that the second has any.
A bind response with an empty protocolOp panics the scan. The LDAP module
steps to `pc = "panic"` there, and the scanners run reaches that state.

**Not a run, noted (cassandra/scanner.go:702, IRC).** With `--authtls`,
`SetupTLS` starts the TLS handshake on the plain session without sending
`STARTTLS` and waiting for 670; a standard server answers the ClientHello
as an unknown command. Its error is wrapped and reported as unknown-error.

**Not a run, noted (rethinkdb/scanner.go:319, RFB).** `ReadUntilRegex`
returns only when the banner regex matches, so the `!isValidBanner` branch
is unreachable: a server that is not RFB is reported as a timeout or a
closed connection, never as an application error.

**Not a run, noted (DoQ).** Every error of `SendAndReceive` is wrapped with
`%w` or made with `fmt.Errorf`, so every DoQ failure, a dial timeout
included, is reported as unknown-error.

## Mutants

Each property of a passing run is broken by a plausible bug in the
definition it is about (see `PROJECT.json`):

| mutant | property it breaks |
|---|---|
| `writePacket` re-checks with `if` instead of `for` | `NoDataDuringKex` |
| the session ID is overwritten on every exchange | `SessionIDStable` |
| the capacity guard on `t.incoming` is dropped | `TypeOK` (transport) |
| the read loop exits without copying its error to `t.writeError` | `WritersEventuallyReturn` |
| the first exchange sends `msgIgnore` | `HandshakeEventuallyEnds` |
| the `findCommon` loops are swapped | `FindCommonMeetsReference` |
| the cipher directions are crossed | `AgreedAlgorithmsMeetReference` |
| the guess test compares only the kex | `GuessKeptOnlyIfAgreed` |
| `add` without the overflow check | `ImplementsCreditCounter` |
| `close` without the broadcast | `ReserversReturnAfterClose` |
| `reserve` drops the test of its `Wait` loop and never waits | `NeverEmptyHanded` |
| a woken reserver skips `writeWaiters--` | `WindowTypeOK` |
| the dispatcher's send ignores the channel's capacity | `MuxTypeOK` |
| the dispatcher rejects when the channel is full | `RegisteredNeverRejected` |
| `HandleChannelOpen` replaces a registered channel in the map, so teardown never closes the first | `HandlersObserveClosure` |
| the 7-bit groups are taken most significant first | `MQTTRemainingLengthDecoded` |
| RADIUS never writes the final length | `RADIUSRequestWellFormed` |
| the RFB regex is not anchored at the end | `RFBRecordsRFBBanner` |
| the CQL length field counts the 9 header bytes | `CassandraStartupThenBanner` |

## Bounds

* **Two writers and a threshold of 1.** A write can trigger a rekey while
  the other writer is blocked or already woken. That is the interleaving the
  `for` loop at line 722 exists for.
* **`IncomingCap` of 1 or 2 instead of 16.** A full channel is reachable with
  a few packets. The behaviour depends only on whether the channel is full.
* **`MaxPeerData` of 2 and `MaxPeerKex` of 1.** The server can start one
  rekey and interleave data with it.
* **Three server offers.** These reach every outcome of
  `enterKeyExchangeLocked`: success, a discarded guess, and a negotiation
  error.
* **Deadline.** `Timeout = TRUE` in the safety run lets the deadline pass
  before, during and after every exchange; the writers are symmetric (same
  number of calls, no property names one), so `SYMMETRY Symm` is sound for
  its invariants. The liveness and leak runs keep `Timeout = FALSE`: with it
  the liveness tableau exceeds five minutes, and the deadline only adds
  failures, which end blocked calls sooner.
* **Transport liveness.** One write per writer keeps the tableau small. The
  rekey cases come from the server and from the threshold on reads.
* **Window.** Two bits make overflow reachable in one add (3 + 1). Two
  reservers with two calls each, and three adds, let a broadcast wake a
  reserver that finds the credit gone.
* **ClientMux.** A queue capacity of 1 instead of 16 makes a full queue
  reachable with two opens; the dispatcher behaves the same whenever the
  queue is full. Three opens over three types let two handlers race for one
  type, an open arrive for a type nobody registers, and a queue fill; one
  global request lets the request goroutine run against the closure.
* **Scanners.** Each reply set holds the answer a correct server gives and
  the boundary cases of the parser: too short by one, a wrong magic or
  packet ID, a length field of the other byte order, trailing bytes, a
  second packet or line, silence, and (for MQTT) variable byte integers of
  one to five bytes and packets of 128 bytes or more. `ShortReads` makes
  every split of each reply reachable.

All these systems stop: writers run out of calls, the server stops and
hangs up, the transport closes the multiplexer's channels, and a scan
returns. A stopped state is therefore legitimate, and every cfg says
`CHECK_DEADLOCK FALSE`. The negotiation checks are functions of the
initial state, so nothing ever happens after it.

## Fairness

* The read loop and the application are goroutines that run whenever they
  are enabled. The read loop gets weak fairness.
* The application and woken writers get strong fairness. They must take
  `t.mu`, which the read loop takes and releases repeatedly, and Go's
  `sync.Mutex` switches to starvation mode to hand the lock to a waiter
  that has waited over 1 ms.
* In `Window`, a woken reserver gets weak fairness: it waits only for
  `w.L`, which every other step holds for one step.
* The server gets weak fairness only on answering what we sent (`PeerRecv`),
  as an RFC 4253 server does.
* In `ClientMux`, the dispatcher, the global-request goroutine and each
  handler's calls get weak fairness: they are goroutines that run when they
  can. The transport eventually closes (every connection ends), but is never
  forced to send anything. `Stoppers` are handlers the user's code never
  lets receive again.
* `MC_Channels` keeps the fairness of `Window` and of `ClientMux`, each
  conjunct applied to that component's steps only, so a behaviour of one
  is fair exactly as in that component's own specification.
* The clock passing the deadline (`DeadlinePasses`) is never forced.
* Sending data, starting exchanges, hanging up and calling `writePacket` are
  never forced. The scanner runs check invariants only.

## Not modelled, and the plan

1. **Window.** Compose it with a channel writer once the channel code is
   modelled (the channel code is not in this repository).
2. **ClientMux with HandshakeTransport.** The global-request deadlock at
   client.go:190 (a reply blocked in `writePacket` during a rekey while the
   read loop is blocked on a full `t.incoming`) runs through the
   multiplexer between `t.incoming` and the request channel. That code
   (mux.go) is not in this repository, so the composition cannot be
   modelled from source.
3. **HelloOnly run.** `RLKexLock` models the HelloOnly branch (line 587:
   `sentInitMsg` cleared without an exchange), but every cfg sets
   `HelloOnly = FALSE`. Checking it needs a run of its own, and the twelve
   runs are spent on the questions above.
4. **Scanner violation runs.** The LDAP panic, the IRC STARTTLS omission,
   the unreachable RFB branch (see the noted items) and a reply split
   across reads in MQTT v3.1.1 and Bolt (`ShortReads = FALSE` in the
   scanners run; the zero padding is modelled by `Filled`) each make a
   violation run once the run budget allows; every scanner is modelled.
5. **Outside TLC's reach or of no behavioural interest.** The server role of
   the transport, `SetDefaults`, the wire encoding helpers, the BSD terminal
   constants, and the generation prompts and docs.
