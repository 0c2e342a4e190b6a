# TLA+ models of the EtherSia protocol engine

This directory holds TLA+ specifications of EtherSia, an IPv6 stack for
microcontrollers, and the TLC configurations that check them. The source is
under `src/` of the repository and the design description is in `spec.md`.

## 1. The system

The parts named by `spec.md` and the source:

| part | source in `src/` | what it does |
|---|---|---|
| Checksum utility | not in `src/` (util.c) | one's-complement running sum |
| IPv6 packet view | `IPv6Packet.cpp` | header template, `payload()`, pseudo-header checksum over the shared frame buffer |
| ICMPv6 engine | declarations only (`src/EtherSia.h`) | neighbour and router discovery, echo |
| Socket base | not in `src/` | remote endpoint; `send(len)` calls the subclass's `sendInternal` |
| TCP client | `src/TCPClient.cpp`, `src/TCPClient.h` | active open, data, passive close, reset handling, retransmission, RTT estimation |
| Ping client | `src/PingClient.cpp` | echo requests with a sequence number; matches the reply |
| MQTT-SN client | declaration only (`src/MQTTSNClient.h`) | out of scope |
| drivers | `src/w5100.h`, `tests/libarduino/SPI.h` | chip registers and SPI I/O |

**How the parts interact.** There is one thread of control and one frame
buffer. The application loop reads a frame into the buffer and then calls
`havePacket()` on a client. The client reads the frame, updates its fields,
and may build a reply *in the same buffer* and send it before returning. The
next send by the application (`Socket::send` → `sendInternal`) writes its
header into the buffer over whatever the last frame or reply left there. Only
the fields that sending rewrites are fresh. Everything else (for example, the
TCP control-bit byte and the IPv6 payload length) is whatever the last frame
held.

### TCP client: state and operations

The state is the fields of the object (`TCPClient.h`):
- `_state`: one of `DISCONNECTED`, `WAIT_SYN_ACK`, `CONNECTED` or `LAST_ACK`, plus the `TIMEDOUT` bit;
- `_appliFlags`: what the last poll did;
- `_localSeqNum` and `_remoteSeqNum`, both uint32;
- `_unAckLen`, uint16;
- the retransmission timer `_timer`, uint8;
- the estimator `_rto`, `_sa` and `_sv`, all uint8;
- `_nrtx`, uint8;
- `_localPort`;
- the two millisecond stamps `_periodic` and `_inactivity`.

The operations:
- the constructor: `_state = DISCONNECTED` on a zero-initialised object.
- `connect()`: new port, random initial sequence number, sends a SYN with the MSS option.
- `havePacket()`, one poll:
  1. the inactivity watchdog;
  2. the `TIMEDOUT` → `DISCONNECTED` step;
  3. the 250 ms tick, which decrements `_timer` while bytes are outstanding;
  4. frame filtering;
  5. for another local port: drop a SYN, ignore a RST, answer anything else with RST+ACK (label `reset:`);
  6. for our port (label `found:`): RST aborts; an unexpected sequence number is answered with an ACK; the ACKING TEST with the RTT estimator; the handling for each state;
  7. the label `check_for_retransmit`, reached only by the paths that send nothing.
- `Socket::send(len)` → `sendInternal()`: builds the data segment. A fresh send adds to `_unAckLen`, reloads the timer and clears `_nrtx`. A send made while the last poll reported `UIP_REXMIT` leaves the counters alone.
- `payloadLength()`: the IPv6 payload length minus 20.

### What is hard here

- **The shared buffer.** State read from the buffer after a send is stale.
  `sendInternal()` never writes the control bits.
- **Fixed-width arithmetic.** `_timer` is decremented at the tick, but the check
  for zero is skipped when the same poll handles a segment, so the timer can
  wrap from 0 to 255. The Van Jacobson estimator runs in uint8 and signed char.
- **Retries and limits.** The give-up test compares `_nrtx` for equality with a
  limit that depends on the state. Giving up only ORs `TIMEDOUT` into
  `_state`: until the next poll the state bits still show the state the
  client gave up in, and `connected()` still returns true.
- **What the application cannot see.** `sendInternal()` tells a resend from
  new data only by the `UIP_REXMIT` flag of the last poll, every segment goes
  out at `_localSeqNum`, and there is no accessor for `UIP_ACKDATA`. The
  application must keep one segment outstanding and resend it in the same
  pass of its loop that reported `rexmit()`.
- **Loss, duplication and reordering.** A lost final ACK of the handshake, a
  SYN-ACK slower than the first retransmission, a FIN deferred while data is
  outstanding, late segments answered as unexpected.

### Ping client and checksum

`PingClient` stamps an echo request with `_identifier` (from `random()`) and
`htons(_sequenceNumber++)`, both uint16. `havePacket()` accepts a frame only
when it is an ICMPv6 echo reply to our address, from the remote host (when
one is set), with our identifier and `ntohs(seq) == _sequenceNumber-1`.
`sendInternal()` zeroes the checksum field and stores
`htons(calculateChecksum())`. `calculateChecksum()` (`IPv6Packet.cpp`) sums
the pseudo-header (length and protocol, the two addresses) and
`ntohs(length)` bytes from `payload()` with `chksum()` of util.c, then
complements.

The `htons`/`ntohs` macro of `EtherSia.h` is `((x)<<8) | (((x)>>8)&0xFF)`.
It is a correct byte swap only when the shift is done in a 16-bit int (AVR);
with a wider int the result is not reduced to 16 bits.

## 2. Modules

| module | models | state |
|---|---|---|
| `TCPTimer.tla` | timer constants, uint8/signed char conversions, the RTT estimator, backoff and give-up tests | operators only |
| `TCPClient.tla` | the TCP client | `tcp` (the fields), `buf` (control bits and payload length of the shared buffer), `out` (segment sent by the last step) |
| `MC_TCPClient.tla` | the client against an unconstrained remote endpoint | as `TCPClient` |
| `RttEstimator.tla` | the estimator on its own, over any number of samples | `est` = `_sa`, `_sv`, `_rto` |
| `TCPSystem.tla` | the client, its application, an RFC 9293 server and a lossy network | adds `peer`, `c2p`, `p2c`, `app`, `faults` |
| `MC_TCPSystem.tla` | state constraint for the system runs | |
| `TCPConnection.tla` | what the client promises its application: the connection states the accessors show and a reliable byte stream each way | `st`, `note`, `cSent`, `cRcvd`, `sSent`, `sRcvd` |
| `PingClient.tla` | the ping client, with the int width of the build as a constant | `seq`, `ident`, `net`, `buf`, `ret` |
| `IPv6Checksum.tla` | `chksum()`, `payload()` and `calculateChecksum()` | `data` (the segment), `junk` (memory outside it) |
| `MC_IPv6Checksum.tla` | the 32 address bytes for the checksum runs | |

### TCPClient.tla

One action per entry point:
- `Connect`;
- `HavePacket(f, tick, idle)`, one poll with frame `f` in the buffer;
- `Send(len, data)`.

`HavePacket` follows the code's `goto` structure with operators:
- `Process`: frame filtering and the other-port paths;
- `Found`: label `found:`, then `SynAckStep`, `ConnectedStep` and `LastAckStep`, one per state;
- `AckTest` with `RttUpdate` of `TCPTimer`: the ACKING TEST and the estimator;
- `CheckForRetransmit`: label `check_for_retransmit`, with `Backoff` and `GiveUp`;
- `SendAck`, `ResetReply` and `FillTCPHeader`: the replies.

The accessors of `TCPClient.h` the application calls after a poll
(`connected()`, `synacked()`, `rexmit()`, `timedout()`, `aborted()`,
`closing()`) are the operators `Connected`, `Synacked`, `Rexmit`, `Timedout`,
`Aborted` and `Closing`. The applications of `MC_TCPClient` and `TCPSystem`
read the client's flags only through them. They also send new data only when
`_unAckLen` is 0, which a real application can only ensure through its own
request/response protocol, since no accessor reports `UIP_ACKDATA`.
`Constructed` is the object after its constructor, and `Init` starts from it.

Each operator returns a `Result` record: the new fields, the segment sent and
the new buffer. A path of the code is therefore one expression, and every
`goto` becomes a call of the operator for its label.

**Abstractions.**
- Sequence numbers are taken modulo `SeqMod`, because the code only adds to
  them and tests them for equality.
- The millisecond clock becomes two booleans per poll: has the tick elapsed
  (`tick`), and have ten minutes passed without activity (`idle`).
- Payload bytes are abstracted to lengths in `MC_TCPClient`, and to byte
  numbers (byte i of a stream is i) in `TCPSystem`. Statistics counters and
  tracing are left out.
- The uint8 fields keep their width (`Uint8`, `Char`), and `htons` of the
  port is modelled by what it does on the 16-bit-int build.

### MC_TCPClient.tla

Each poll may find one of:
- no frame;
- a frame not for the client;
- a SYN, RST or FIN+ACK from the remote port to another local port;
- any segment to our port, with sequence and acknowledgement numbers equal to the expected one or to one off, control bits from `InFlags`, and a payload of 0 or `DataLens` bytes.

The code only tests those numbers for equality, so two values each cover
every branch. The application sends new data only when nothing is
outstanding, and resends the outstanding bytes when the last poll reported
`UIP_REXMIT`: the uIP application discipline.

### TCPSystem.tla

The client (`ClientPoll`, `ClientReceive`, `ClientTick` are polls of
`HavePacket`) and its application (`AppConnect`, `AppSend`, `AppResend`, which
read what the poll reported) face a server written from RFC 9293: passive
open, in-order receive, one segment outstanding, an active close with
TIME-WAIT, and the challenge ACK (`PeerReceive`, `PeerSend`, `PeerClose`,
`PeerRetransmit`, `PeerTimeWaitEnd`). The server is the environment, not code
of this repository. Each direction of the network is a set of at most
`NetCap` segments. Delivery is in any order. `Lose` drops up to `MaxLoss`
segments, and a delivery may leave a copy behind, up to `MaxDup` times.
`DupSynReply` is what the server answers to a retransmitted SYN in
SYN-RECEIVED: the SYN-ACK again, or a bare ACK as RFC 9293 3.10.7.4 has it.

**Fairness** (`LiveSpec`). The application loop polls forever, so
`ClientReceive` is weakly fair. The clock advances whatever arrives, so
`ClientTick` is strongly fair: the server's retransmissions cannot keep the
period from ever elapsing. The application and the server are weakly fair.
`Lose` has no fairness. The liveness run uses the fast network
(`SlowNetwork = FALSE`): a segment is delivered or lost within a tick, and
TIME-WAIT outlasts the client's FIN retransmissions. On a slower network the
client may legitimately give up, and `ConnectionEnds` still covers that end.

### TCPConnection.tla and the refinement

`TCPConnection` is the abstract client: `Open`, `Established`, `Write`,
`Read`, `PassiveClose`, `CloseDone`, `Abort` and `Quiet` for the application's
side, `ServerRead` and `ServerWrite` for the server's. Byte i of a stream is
the value i, so a stream that lost, duplicated or reordered a byte is not a
prefix of 1..n. `PassiveClose` is allowed only when each side holds every byte
the other sent.

`TCPSystem` maps its state onto it (`Conn == INSTANCE TCPConnection WITH ...`):
- `st` is `AbsState`, the client's state, with a timed-out connection shown as
  `DISCONNECTED` as `connected()` reports it;
- `note` is `Note`, what the accessors report after the last poll, the
  `TIMEDOUT` bit first;
- the streams are the application's and the server's counters and sequences.

`ImplementsConnection` checks `Conn!Spec` as a temporal property of the system.
It covers stream integrity in both directions and that `UIP_CLOSE` is reported
only once everything is delivered.

### PingClient.tla

`Init` is the constructor. `Send` is `send()`/`sendInternal()`: the remote
host's reply is delivered or lost, and replies older than `MaxAge` requests
are gone. `Receive` puts a frame in the buffer and evaluates `HavePacket`,
which has one conjunct per early return. Frames come from the network or from
`Foreign`, five frames that each fail one test. `IntWidth` selects the C int
width: `Ntohs` and `LastSent` are computed modulo 2^16 on 16 bits and exactly
on 32 bits.

### IPv6Checksum.tla

`WordSum`, `Fold` and `ChkSum` are `chksum()` as spec.md 4.1 describes it;
util.c is not in `src/`. `CalculateChecksum` follows `calculateChecksum()`.
`Read` reads the bytes at `PayloadOffset`: the segment where it lies after the
IPv6 header, and `junk` elsewhere, since reading other memory is undefined.
`Write` builds the segment byte by byte up to `MaxLen` bytes.

## 3. Runs

| run | cfg | expect | shows |
|---|---|---|---|
| client_control | `MC_TCPClient.cfg` | pass | every path of `havePacket` keeps `_nrtx` within `UIP_MAXRTX`, and within `UIP_MAXSYNRTX` during the handshake; once the client has given up (`TIMEDOUT`) or is `DISCONNECTED`, it sends nothing until the next `connect()` (`SilentAfterGiveUp`) |
| rst_port | `MC_TCPClient_SentToRemotePort.cfg` | violation | the `reset:` RST+ACK goes to port `htons(80)` = 20480 |
| stale_data_flags | `MC_TCPClient_DataCarriesOnlyAck.cfg` | violation | a data segment goes out with the SYN bit left by a dropped frame |
| newdata_length | `MC_TCPClient_NewDataReadable.cfg` | violation | after `havePacket()` returns true, `payloadLength()` is 0 |
| timer_wrap | `MC_TCPClient_TimerWithinLoad.cfg` | violation | a poll that empties `_timer` and then handles a segment lets the next tick wrap it to 255 |
| rtt_overflow | `RttEstimator.cfg` | violation | seven slow samples overflow the uint8 estimator to `_rto` = 0 |
| system | `MC_TCPSystem.cfg` | pass | with loss, duplication and reordering the sequence spaces agree, and the client implements `TCPConnection`: both streams intact, every state change and accessor report one the abstract client allows, and a close reported only after everything is delivered |
| dup_syn_ack | `MC_TCPSystem_DupSyn.cfg` | violation | a server that answers the retransmitted SYN with an ACK makes the client connect on the wrong sequence number |
| system_liveness | `MC_TCPSystem_Live.cfg` | pass | every connection ends with both sides closed, and the server's close ends in `UIP_CLOSE` with every byte delivered |
| ping | `PingClient.cfg` | pass | on 16-bit int, `havePacket()` accepts exactly the reply to the latest request, over the whole 16-bit wrap |
| checksum | `MC_IPv6Checksum.cfg` | pass | `chksum()` is the RFC 1071 one's-complement sum, and the completed checksum verifies to 0xFFFF |
| payload_offset | `MC_IPv6Checksum_Payload.cfg` | violation | `calculateChecksum()` sums memory past the packet, so the stored checksum does not verify |

Every property of a passing run has a mutant in `PROJECT.json`: a plausible
bug in a mapped definition, for example a dropped SYN retry limit, a
missing `TIMEDOUT` test at the top of `havePacket()`, a missing
FIN resend in `LAST_ACK`, a 16-bit accumulator that drops the carries, or an
unwrapped sequence number. TLC finds each mutant's property violated.

**Bounds.**
- `SeqMod = 2` in `MC_TCPClient`, 4 in the `TCPSystem` liveness and
  `dup_syn_ack` runs, and 5 in `system`. Two values distinguish the expected
  number from an unexpected one. Four keep the ISS, the bytes and the FIN of
  both sides apart; five do so with two client bytes.
- `MaxLocalPort = 1`: one `connect()`. Late segments of a previous connection
  are still sent to `localPort - 1`.
- One byte each way (`MaxData`, `MaxPeerData`) in the liveness run, so that
  the FIN is deferred behind outstanding data and data crosses a
  retransmission. The `system` run sends two client bytes, so that a second
  send follows an acknowledged one and the refinement sees a stream of length
  two (961,009 states in under 2 minutes).
- `NetCap` 2 or 3, `MaxLoss` 1 or 2, `MaxDup` 1. One loss reaches every
  retransmission path. The liveness run needs two, so that a lost FIN and a
  lost reply both happen.
- `client_control` and `system` use a state constraint (`OneRttSample`,
  `SysOneRttSample`) that stops once the estimator has taken a second sample.
  `SysOneRttSample` also stops once a segment has been retransmitted twice
  (`_nrtx <= 1`). The system runs therefore never reach the give-up,
  which `client_control` explores against any remote segment.
  The whole estimator is explored separately by `RttEstimator`, which needs no
  bound.
- `PingClient` runs the full 16-bit sequence space (2,097,152 states in about
  30 s), so the wrap from 65535 to 0 happens. `MaxAge = 1` lets a reply arrive
  one request late.
- The checksum runs use segments of up to 3 bytes after the field, with byte
  values {0, 128, 255}. This covers odd and even lengths and sums that carry
  more than once.
- Running times: `client_control` takes about 2.2 minutes, `system_liveness`
  about 2.5 minutes, and the other runs under 30 s.

## 4. Findings

1. **`reset:` destination port in host order** (`TCPClient.cpp:158`). Late segments and failed handshakes are answered with a RST to port 20480 instead of 80.
2. **Stale control bits in data segments** (`TCPClient.cpp:388-396`). `sendInternal()` does not set the flags. After a dropped SYN to another port a data segment is sent as a SYN, and after a `reset:` reply it is sent as RST+ACK.
3. **`payloadLength()` after new data** (`TCPClient.cpp:288-297`). The ACK is built in the receive buffer before `havePacket()` returns, so the length of the received data is lost.
4. **Timer wrap** (`TCPClient.cpp:84`). The tick decrements `_timer`, but the zero test is skipped when the same poll handles a segment. The next tick turns 0 into 255, so the retransmission comes about 64 s late.
5. **Estimator overflow** (`TCPClient.cpp:214`). Seven samples acknowledged just before their timeout drive `_rto` through 3, 12, 18, 33, 59, 104 and 183 to 0.
6. **A pure ACK accepted as SYN-ACK** (`TCPClient.cpp:233`). When the SYN-ACK is slower than the first retransmission, the server's ACK of the duplicate SYN connects the client with `_remoteSeqNum` one too far. The server's data is then dropped as unexpected.
7. **`payload()` pointer arithmetic** (`IPv6Packet.cpp:24`). The header length is added to an `IPv6Packet*`, so the checksum covers memory 54·sizeof(IPv6Packet) bytes away. spec.md 4.1 says `payload()` points right after the IPv6 header.

## 5. Not modelled

- **ICMPv6 engine, Socket base, UDP and MQTT-SN.** Their code is not in
  `src/`, apart from declarations (EtherSia.cpp, Socket.cpp, UDPSocket.cpp and
  the MQTT-SN client are absent). Modelling them from spec.md alone would make
  most of such a module spec-modelled with nothing in `src/` to check it
  against. `Socket::send` is modelled only as the call of `sendInternal`.
- **`send()` before the handshake.** `sendInternal()` has no state guard
  (`TCPClient.cpp:398`); data sent in `WAIT_SYN_ACK` makes the SYN-ACK fail the
  ACKING TEST. The modelled applications send only when `connected()`, the
  uIP discipline, so this is a hazard without a property.
- **TCP options after the handshake.** `payloadLength()` ignores the data
  offset (`TCPClient.cpp:416`). The model keeps that, so a retransmitted
  SYN-ACK is taken as 4 bytes of data; the RFC server sends no other options.
- **Drivers** (`w5100.h`, SPI). They are register and bus I/O, with no
  protocol state TLC could check.
- **The IPv6 packet constructor and `init()`.** They store constant header
  fields.
- **Builds with a 32-bit int.** The `htons`/`ntohs` macro of `EtherSia.h:20`
  is then not reduced to 16 bits. With `IntWidth = 32`, `PingClient` shows the
  reply to the first request rejected. The library targets AVR, so the runs
  use 16 bits and this is kept as a hazard, as is the TCP source-port test at
  `TCPClient.cpp:112`.
- **Application misuse the code does not check.** `connect()` on an open
  connection (`TCPClient.cpp:45`), a resend after an extra poll, and a second
  segment before the first is acknowledged (`TCPClient.cpp:398`, `:363`). The
  modelled applications follow the uIP discipline, so these are hazards
  without a property.
- **A reboot of the board**, which `reset()` recommends. A restart runs the
  constructors again. The new connection's local port comes from
  `Socket`, which is not in `src/`. Modelling it would also need a server
  that keeps the half-open connection beside a new one, and the server model
  keeps one connection record. It is kept as a crash-recovery hazard.
- **The server's user timeout (RFC 9293 R2).** The server model retransmits
  forever. After the client gives up, it drops the server's segments without
  answering (`TCPClient.cpp:73`), so on the slow network the server would
  stay half-open. For that reason the liveness run uses the fast network.
- **The inactivity watchdog in the runs.** `HavePacket` models it (`idle`),
  but the runs set `Idle = {FALSE}`: `UIP_RESET` only reports and never changes
  the connection, and enabling it would double the flag states of
  `client_control`.
- **Ping replies with a bad length.** `havePacket()` does not check the
  ICMPv6 length, so `payloadLength()` (`PingClient.cpp:105`) wraps for a short
  reply. `PingClient` abstracts frame lengths, and showing the wrap would need
  a violation run; the check's cap of twelve runs is reached, and every run
  is a finding or the passing run of a component.
- **Larger instances of the liveness run.** Two client bytes (with `SeqMod`
  5) do not finish in ten minutes, so the run keeps one byte each way.
- **Wall-clock timing.** A poll counts at most one 250 ms tick
  (`TCPClient.cpp:79`). The models see the same per-poll fact as the code, so
  a slow application loop stretching the timeouts is a hazard without a
  property.
- **Blind RST injection.** The client accepts any RST for its port without a
  sequence test (`TCPClient.cpp:177`). The network model only carries segments
  of the two endpoints, so this is listed as a hazard without a property.
