# A TLA+ model of the IoTMakers device SDK (C, TCP)

The repository is a device SDK in C: an application on a device connects to the
IoTMakers platform over TCP, authenticates, sends measurements, and is sent
controls and last-value queries. This directory models the SDK in TLA+, checks
the models with TLC and proves the most important invariants with TLAPS. Paths
below are relative to
`SDK_v4_geri/5G_ICT_Open_Platform_device_sdk_4.5.6_C_TCP/project/src`.

## 1. The system

A client is one `im_client_t` and one thread. In the TCP build nothing inside the
SDK runs beside it; what interleaves with it is the platform, the network and the
clock, and the user's functions, which are called back from the middle of SDK calls
and may call the SDK again. Two parts do have a second thread: with MQTT the
library's callback thread fills the buffer that the client reads, and the DLL and
Java interfaces are called by any thread of the host. Neither takes a lock.

| Component | State it keeps | Operations | Talks to | Model |
|---|---|---|---|---|
| Device session (`client/client.c`, `client/packet_io.c`) | socket, `isChAthnSuccess`, `head_len_bytes`, switches, the C call stack of waits and callbacks | connect, disconnect, authenticate, transact, poll, keep alive; dispatch of 525 (control) and 711 (last value) | user callbacks, the channel, the platform | `DeviceSession` |
| Pacing (`im_poll` in `client/client.c`, `circuit_breaker` in `client/simple_api.c`) | three timestamps, two counters, a switch | the keep-alive decision, the breaker's wait | the session, the wall clock | `Pacing` |
| Channels (`deps/netio/netio.c`) | `netChannelType` | send, read, wait for data, on the channel chosen at connect | one of the following | `NetIo` |
| TCP transport (`deps/netio/tcp_io.c`, `fd_util.c`) | socket, send and receive buffers | open, connect, send all, read a framed packet, wait for data | the kernel | `TcpRecv`, `TcpSend`; at packet level `DeviceSession` |
| MQTT and HTTP channel (`mqtt_io.c`, `http_io.c`) | the static mailbox `__data_recv` | a callback fills it, a read takes it | paho, http-client-c | `Mailbox` |
| Control walk (`client/simple_api.c:838-1142`, `packet/body/body_525_req.c`) | indices of device, row and datum; the report's result code | a handler for each datum, the end handler for each row, the report | user callbacks, data bodies | `ControlWalk`, `ControlReport` |
| Last-value walk (`client/simple_api.c:1344-1439`) | an index | a handler for each device, the answer | user callbacks, data bodies | `LastValue` |
| Data bodies (`packet/body/body_411_req.c`, `body_525_rep.c`, `body_711_res.c`, `body_util.c`, `json_wrap.c`) | a JSON document and two indices into it | append a device, a row, a datum | parson | `DataBody` |
| JSON field encoding (three functions of `client/simple_api.c`) | a loop index shared by two loops, the body built so far | encode a document into a 411, 525 or 711 body | parson, data bodies | `JsonFields` |
| Packet codec (`packet/`) | head, extensions and body of a packet, its memory | make, serialise, parse, release | parson | `Packet` |
| DLL interface (`dynamic-library/`) | a process-wide table of sessions | handles, and a wrapper for each call | the host's threads, the session | `SessionPool` |
| Java interface (`java-jni/`) | the same, a `JNIEnv` per session | the same, callbacks into Java | the JVM | `JavaSession` |
| UDP and TLS channel, ciphers, vendored libraries, ports and samples | | | | not modelled, section 6 |

### What is hard here

- **Waits that read for everybody.** A transaction waits for its answer by
  reading whatever comes and comparing one number. Controls that come meanwhile
  are acknowledged, carried out and reported in the middle of it, and a callback
  that sends starts a wait inside the wait.
- **Late and missing answers.** A wait ends after three seconds; the answer may
  come later and be read by another call.
- **A stream, not packets.** TCP cuts the stream anywhere; reads and sends have
  time-outs of three seconds and can end half-way.
- **One buffer, two threads.** The MQTT callback writes bytes and length into the
  mailbox while the client may be copying out of it.
- **A table without a lock.** The pool of the DLL looks for a free place and takes it
  in two steps, and pointers read from it are used long after.
- **Two clocks in one.** Keep-alive and breaker compare wall-clock seconds, and
  the keep-alive compares packet counts of different widths.
- **Indices far from what they index.** JSON encoding and the control walk run nested
  loops over indices that are shared or kept in the packet; the device and row a
  datum goes to are two counters beside the document.
- **Ownership by hand.** Extension, body and serialised text of a packet are
  freed by different functions on success and failure.

`PROJECT.json` lists each of these hazards at its line, with the properties that
watch it, and those that nothing covers yet with the reason.

### What makes each component correct

- *Session*: the answer a call gets is its own; a control is acknowledged at
  most once, and reported at most once and after that; every call returns; no
  awaited answer is thrown away; a control that arrives is reported.
- *Pacing*: the session is never silent for long; data calls are paced and not
  held for longer than the breaker's time, as far as the wall clock allows.
- *Transport*: the stream of packets that leaves one side is the one that comes
  out at the other, or the call says that it failed.
- *Mailbox*: messages are taken in order; one that meets no other in the mailbox is taken
  whole and once; a wait does not miss its answer.
- *Control walk*: each control is carried out once and in order, and the report
  says how it went and names what was controlled.
- *Last values*: the answer has the query's devices, in its order.
- *Data bodies*: what is appended goes to the end, where the caller thinks it does.
- *JSON encoding*: each field is sent once, and the function returns.
- *Codec*: the packet on the wire is the one that was made, and what is parsed is what
  came; no block of memory is freed twice or left behind.
- *Interfaces*: a handle leads to its own session and to live memory; no session,
  socket or Java string is lost.

## 2. The modules

| Module | What it is |
|---|---|
| `DeviceSession` | the session, the platform and the network, packet by packet |
| `DeviceSessionProofs` | transaction ids and `MatchIsAnswer`, the dialogue about a control, `NoAnswerDropped` |
| `Pacing`, `PacingProofs` | keep-alive and circuit breaker on one clock, and their bounds |
| `NetIo`, `NetIoProofs` | composes `TcpRecv`, `TcpSend` and `Mailbox`: the channel is chosen by `netChannelType`; the reads (with their refinement of `PacketStream`), the send loop and the mailbox are proved here |
| `PacketStream` | abstract: what the session takes for granted of its connection |
| `TcpRecv` | the framed reads, byte by byte |
| `TcpSend` | the send loop, byte by byte |
| `Mailbox` | the buffer of the MQTT and HTTP channels, its callback and its reader |
| `RequestBodies`, `RequestBodiesProofs` | composes `ControlReport` (525), `LastValue` (711) and the collecting calls (411) over one `DataBody` |
| `ControlWalk`, `ControlReport` | the walk over a control request, and what its end handler reports |
| `LastValue` | the walk over a last-value query |
| `BodyLog` | abstract: a document to whose end things are appended |
| `DataBody`, `DataBodyProofs` | the three data bodies with their indices, and that they implement `BodyLog` |
| `JsonFields`, `JsonFieldsProofs` | the encoding loops |
| `Packet`, `PacketProofs` | a packet from its making to its release |
| `SessionPool` | the table of sessions under several threads |
| `JavaSession`, `JavaSessionProofs` | extends it by the `JNIEnv`, callbacks and strings of the Java interface; the proofs are of both |
| `MC*` | instances for TLC with their `.cfg` files |

Operators whose comment begins with *Variant* are mistakes somebody might make in
the code beside which they stand (a dropped guard, a missing reset). The
specifications do not use them: each is put in the place of the definition it
varies to see that a property notices.

### DeviceSession

`sock`, `uniq`, `authed` (`isChAthnSuccess`), `framed` (`head_len_bytes` is 4)
and `response_wait_sw` are the client's fields. `stack` is the C call stack as far
as it matters: a frame for every `im_transact_packet_with_response_handler` in its
wait, for `im_poll`, and for a user callback under a 525 or 711 handler. A packet
is its message type, method type and transaction id.

| Action | Code |
|---|---|
| `Connect`, `Disconnect`, `TurnResponseWaitOff` | `im_connect_to`, `im_disconnect` (which resets neither authentication nor framing), `im_turn_response_wait_off` |
| `AuthDevice`, `SendData`, `PollWithKeepAlive` | `Transact`: a head takes the next number, the packet is sent, the caller waits if it gave a handler |
| `Poll`, `PollReturn` | `im_poll` and its check_again loop |
| `Receive` | one read in a wait or in the poll loop: the awaited answer (`ResponseHandler`), a control (`ControlHandler`: acknowledge, then the callback), a query (`QueryHandler`), or a packet that is logged and dropped |
| `GiveUp` | a wait ends by time-out or error, and with it an `im_poll` that waits for its keep-alive |
| `CallbackReturn` | the report of a control or the answer to a query |
| `SrvRead`, `SrvAnswer`, `SrvRequest`, `SrvClose`, `Reset` | the platform and the network |
| `Tick` | `tv_sec`, from which transaction ids start |

Every head takes a number, also the ones that are parsed: `NextUniq(1)`, `(2)` and
`(3)` in the handlers count them. Until the first authentication is answered one
read takes whatever has come, and packets behind the first are lost with it
(`Taken`).

### Pacing

`now` is real time and `Start + now + ahead - back` the wall clock, which `SetBack` and
`SetForward` move. `packet_count_out` is the code's `unsigned long`; the copy `im_poll` keeps of
it is an `int` (`Narrow`). `PollEarly`, `PollAsks` and `PollNotes` are the three
ways through the keep-alive part of `im_poll`; `SleepInBreaker`, `Tick` and
`LeaveBreaker` are the loop of one-second sleeps. An application whose send failed is
taken to give the connection up at once (`SendFail`); in the code it stays connected until
the application disconnects.

### PacketStream, TcpRecv, TcpSend

In `TcpRecv` a byte is its position, and the stream is the list of positions where
its packets end. `ReadHead`, `Recv`, `RecvZero` and `RecvTimeOut` are the calls of
`recv` under `netio_recv_buffer`, with any number of bytes, none, or a time-out.
`got` is what is handed to the parser. The refinement mapping to `PacketStream`
takes the packets sent and not handed over for the queue, `got` for the log and
`failed` for the break. What the program does after a failed read of a body is
undefined (it parses a packet of length -1), and the model stops there (`pc` is
"lost").

`TcpSend` follows calls of `im_conn_send_packet`; a byte of the stream is the call
that wrote it and its place. `send` takes any part, or fails and takes one from the
unsigned count (`SendError`), wrapping at `Modulus`.

### NetIo, Mailbox

`Mailbox` follows `__data_recv`: `data` and `length` are its two fields, which
the MQTT callback sets one after the other (`BytesArrive`, `LengthArrives`, the
library's thread) and `net_mqtt_recv_buffer` copies and resets (`Available`, `Copied`,
`Cleared`, the client's). Where bytes are copied while the callback writes, what the copy
is, is undefined in the code and open in the model (`Copies`): any message that was there
meanwhile, its head with other bytes behind it, or bytes with no head at all. Such a copy
may be parsed or not, and may by chance carry the awaited id (`MHandle`). A message that is
put in before the client resets the length goes with it. `collided` has the messages that
came while another was in the mailbox; the properties say what holds for all of them, and
what more for the others. With
HTTP the callback runs inside `MSend`. `MHandle` is the end of
`im_transact_packet_with_response_handler` and of `im_poll`: ids are compared with
MQTT and, as the code has it under `HAVE_HTTP`, not with HTTP.

`NetIo` puts the channels behind one Next, and gives them one fairness. The two
directions of TCP share no variable, so an instance looks at one of them.

### ControlWalk, ControlReport, LastValue, DataBody, BodyLog, RequestBodies

A request is a sequence of devices, each a sequence of rows, each the number of
data of every kind. `Datum`, `NextKind`, `RowHandled`, `DeviceDone` and `WalkDone`
are the steps of the nested loops. A row or a device ends where nothing was
handled, so the walk also stops at a row without data *for a handler that is set*;
`Due` says what it reaches. The code's branch for a report that cannot be built is
left out: `im_packet525_rep_init` never fails.

`DataBody` is `IMPacketBody` with `devColecDataIdx` and `colecRowIdx`: `AppendDevice`,
`AppendRow` and `AppendDatum` are what the functions of the three bodies have in
common, with the checks of `json_wrap.c` (`HasDevice`, `HasRow`). A function that makes several calls
(`im_set_report_data_on_dev`, the default device and row of `im_send_numdata` and its
kind) puts them into `todo`, and `Fill` makes them one by one. A value that JSON cannot
hold is dropped from its list (`Held`). `BodyLog` says what this amounts to,
without an index: the refinement maps `body.root` to the document.

`ControlReport` lets the end handler fill the report between two rows, `LastValue` lets the
handler of each device of a query fill the answer, and `RequestBodies` takes one of the
three methods and leaves the variables of the others alone.

### JsonFields

`ScalarField`, `ArrayField`, `Element` and `ArrayEnd` are the loop bodies, `i` the
one index both loops use. `method` says which of the three copies runs; they differ
in the types they accept.

### Packet

`kind` is one of the `*_all_init` functions, `HeadOf` what it makes of the head's bit
fields. `Make`, `AddField`, `Send`, `TimeOut`, `Arrive`, `ReadField`, `ReadExtEnds`,
`ReadBody`, `Handle` and `Return` follow a transaction; `Poll` begins a read of its own. The extension is written field by
field with lengths cut to a byte (`Written`); what is read was laid out by the platform
(`Layout`), with fields whose lengths one byte and two can say (`Fits`). `heap` counts the
blocks of each sort a call has, `ptrs` which of them a packet still points to:
`Release` frees what it points to and clears the pointer.

### SessionPool, JavaSession

Each access of `sess_pool` is an action: `Scan` and `Take` of `sesspool_alloc`, `Free`
and `Clear` of `sesspool_free`, `Lookup` at the head of every call. `own` is the host's
part: a handle belongs to the thread whose `ImInit` returned it. `overlap` and `untidy`
note that the host left the discipline under which the pool promises anything: two
threads in `ImInit` together, or a session connected again or released without
`ImDisconnect`. `JavaSession` adds `host_evn`, `pinned` (strings got with
`GetStringUTFChars`) and `lost` (those a call left behind), and `CallJava`, a callback
from inside a call that reads packets.

## 3. The runs

| Run | Bounds | What it shows |
|---|---|---|
| `nested` | ids 10..16, no tick, 3 packets under way, one control, callbacks send, sends fail anywhere | an id that is waited for is carried by the call's own answer only; one acknowledgement and one report at most, in this order |
| `live` | ids 10..13, one tick, one control and one query, callbacks do not send, sends do not time out | the inductive invariant `IInv`; no awaited answer is dropped; every call returns; every control that arrives is reported, or the connection is gone |
| `pacing` | 6 seconds, keep-alive 1, breaker 1, counter of 3 bits, 5 packets, clock set back by one and forward by two in all | the inductive invariant, silence, breaker and pace |
| `comment` | as `pacing` | **violated**: the promise of the comment in `im_poll` |
| `json` | all objects of up to 3 fields, arrays of up to 3 elements | under which array lengths no field is repeated or skipped, and the loop ends |
| `sample` | two documents of the repository | **violated**: encoding them returns |
| `netio` | TCP in: 3 packets of 1 or 2 bytes behind heads of 4; TCP out: 2 packets of 4 bytes, 4 failing sends, 4-bit count; mailbox: 3 messages, 2 requests, one more connect | the reads implement `PacketStream`; a call without a failed send puts its packet into the stream whole, and what is counted has arrived; the mailbox gives messages in order, and loses, mixes or repeats only those that collide; no wait is passed by its answer; calls return |
| `recv_fail` | TCP in, 2 packets | **violated**: a read that fails says so |
| `send_fail` | TCP out | **violated**: a call in which a send fails, fails |
| `control` | all control requests of up to 2 devices with up to 2 rows of 4 sorts, 3 sets of handlers, at most 2 data of a kind; queries for up to 2 devices; at most 6 calls on a body, one of whose lists begins with a value JSON cannot hold | which data are carried out, once and in order; end handler, report and answer; the bodies implement `BodyLog`; every request is answered |
| `pool` | 2 threads, 3 places, memory for 2, 2 descriptors | handles, memory, sockets, `JNIEnv` and strings |
| `packet` | all kinds, bytes below 4, 5 extension fields of which 2 are set, 3 lengths of body (and none) around the buffer's end, 2 answers | what goes over the wire is the packet, what is read is the answer; memory |

**Why the bounds are enough.** In `nested` three calls can wait inside each other
while a control runs and a late answer of a call that timed out is under way; one
id more or one packet more adds repetitions, not new situations. `pacing` is two
rounds of the keep-alive long, which is what `SilenceBound` speaks of, and its
counter wraps within the run. `netio` cuts a stream of three packets at every byte,
so a piece can span the end of one packet, all of the next, and the beginning of
the third; sends fail before, within and behind a partial send, more than once; and
the mailbox can hold an answer nobody waits for when the next request is sent,
while a third message is being written, and a message can be copied between two others. `control` has rows with nothing, with more
data than the limit and with several kinds, in every combination of two devices, and
a body gets a second device after rows of the first, which is where the indices could
go wrong. `pool` has fewer blocks than places, so that malloc fails while a place is
free, and two threads that release and take the same place. A byte of `packet` ends at
4 instead of 256 so that the length of a value passes it, and its bodies are the
last that fits, the first that does not, and a short one. What matters
most is proved for every bound.

`pool` has the CONSTRAINT `Careful`, `~overlap /\ ~untidy`: its properties promise
nothing once the host has left the discipline, and states behind that are not
explored (the last state checked is the first in which it is broken). Threads and blocks are interchangeable
there and are a symmetry set; the run has no liveness property.

`CHECK_DEADLOCK FALSE` stands where the system may stop: in `pacing` at the end of
time, in the others when the function has returned or the bounded input is used up.

**Fairness.** `DeviceSession`: a call in progress goes on (`WF(SdkStep)`: the thread
is scheduled, `select` returns by its timeout, the user's functions return), the
platform reads what it is sent (`WF(SrvRead)`), and the application polls again and
again (`SF(Poll)`: the main loops of the samples; strong, because `Poll` is not
possible while another call runs). `NetIo`: the client's thread goes on within a
call (a `recv` returns when bytes have come, at the end of the stream, or after
SO_RCVTIMEO, a `send` by SO_SNDTIMEO at the latest; a poll of the mailbox, and its copy, end), and
the callback of the MQTT library, once called, sets the length; the platform need not
do anything. `RequestBodies`: a function that runs goes on, and the application's
handlers return. `JsonFields`: the same.

### Findings

- `comment` (`client/client.c:284-297`): the comment promises a keep-alive when
  nothing was sent within the keep-alive time. The code compares packet counts
  between two checks, so the session can be silent for almost twice that time.
  `SilenceBound` is what does hold.
- `sample` (`client/simple_api.c:353`): the loop over an array's elements uses the
  index of the loop over the fields. With an array shorter than the number of
  fields before it, the function never returns; the documents of the test and of
  the sample application are such. Longer ones skip fields (`NoFieldMissing`).
- `recv_fail` (`deps/netio/tcp_io.c:456-465`): when the body of a packet does not
  come, -1 is added to the length of the head and 3 is returned, which the caller
  takes for a packet.
- `send_fail` (`deps/netio/tcp_io.c:311-318`): the result of `send` is unsigned, so
  its error branch is dead. After a partial send a failure moves the position back
  by one, a byte goes out twice, and the call may succeed.

### Seen while modelling

These are in the models as the code has them; a property says what holds all the
same, or a hazard names the line.

- A body longer than the buffer adds -1 to the length; the packet is sent without its
  body and the call succeeds (`packet/packet.c:59-64`). `SentIsPacket` holds for bodies that fit.
- The length of an extension value is cut to a byte (`packet/head/head.c:289`), and a key that is
  set twice is counted twice (`head.c:234`). `SentIsPacket` holds for short fields, and the
  count is only asked whether it is 0.
- A transaction whose receive fails leaves the extension it has read in memory
  (`client/client.c:367-372`): the exception in `NothingLeft`.
- 731 asks for a one-time password without the authentication token
  (`packet/head/head_all_init.c:97-102`).
- An HTTP answer that comes in parts keeps the last only (`deps/netio/http_io.c:27`), and
  an HTTP transaction takes any answer for its own (`client/client.c:374`): when its own had
  no body, that of an earlier call that did not wait. No property asks for more.
- An MQTT message that comes between the client's copy and its reset of the length is
  lost, mixed with the one before, or taken twice (`deps/netio/mqtt_io.c:45`, `261-262`).
  `LostByCollision` and `TakenInOrder` say that it is only those two.
- A wall clock that is set forward lets the next data call pass the breaker at once
  (`client/simple_api.c:38`): the exception in `DataPaced`.
- Past 2^31 packets the copy of the counter never equals the counter, and no keep-alive is
  sent any more (`client/client.h:86`): the premise of `SilenceBound`.
- `IMPacketBody` drops a value of a list that JSON cannot hold: later values move up.
- Java: a string callback keeps its string pinned (`java-jni/iotmakers_jni.c:238-240`), and so does
  `ImConnectTo` with a bad handle (`479-484`); `StringsReleased` has these two
  exceptions and no third. `host_object` is a local reference that is kept past `ImInit`. The
  number callback passes the property's name before the resource's, where
  `IoTMakersDeviceClient.java:8` declares them the other way round.

## 4. The proofs

They are in the eight modules whose names end in `Proofs`, and hold for every value
of the constants that meets the modules' assumptions. Of the properties of the runs, what is
not proved is named at the end of this section.

**DeviceSession.** *Ids.* `AnswersMatch`: a packet that carries an id somebody waits for is
the answer to that request, for any number of requests, nested waits, late answers
and requests of the platform. By itself `MatchIsAnswer` is not inductive: an answer
may still be in the platform's hands, or not even asked for. `IInv` follows an id
through all the places where it can be, waiting call, request on its way, pending
request and answer (`Claims`): two claims on the same id stand for the same method
(`ClaimsAgree`), all are below the next number (`ClaimsBelow`), and what the
platform sends on its own is numbered apart (`ServerIdsApart`). The assumption
`ServerIdsAssumption`, that the platform's own ids are below the device's clock, is
needed and cannot be checked by the code: it matches by the number alone. The
type invariant is `TypeCorrect`.

*Dialogue.* `ControlsAnsweredOnce`: the platform sees one acknowledgement and behind it
one report of a control at most. That needs to know where each of the platform's requests is. In
`DialogueInv`, `AskedOnce` has it on its way once or in one handler; `SentSoFar`
ties that to what has been sent: nothing while it is on its way, nothing but the acknowledgement while
its handler runs, and the acknowledgement for certain if the connection is still the same.
`CallsTell` says that an answer to the client never starts a handler. It rests on `IInv`: a request
of the client has a number that no packet in the dialogue has. Losing packets
(`DialogueLoses`, `DialogueCut`) and taking a request out of the middle (`DialogueRead`) keep the
order of what is left, which is one lemma about leaving out (`DialoguePart`).

*Answers are not dropped.* `AnswersReachCalls` is the action property `NoAnswerDropped`. It
follows from `NestsOnce`: when callbacks do not send, a callback is the innermost call and
nothing else runs inside a wait, so the call that reads is the one that waits.

**Pacing.** `NeverSilent` and `BreakerPaces` follow from `PInv`, and `BreakerHolds` from
`PacingInv`, which adds its own bound. The heart is `CountsTell`: counts that differ tell of a
packet since the last check, counts that are equal of one in the round before it, as long as
the count fits the `int` it is copied to. No bound on differences of timestamps is inductive
by itself, so the invariant notes where the clock was when one was taken: `checkedBack` for
the check (setting the clock forward only makes the next one earlier), `passedForwards` for
the breaker. `BreakerTimes` ties the breaker's timestamp to the moment of the last data
packet for as long as the clock is not set forward; each time it is costs one packet,
whence the bound of `DataPaced` for any `Breaker` (`TimesBreaker`, `PassPaced`).

**TcpRecv.** `ReadInvariant`: `RInv` is inductive. `AtPacket` says where the read in
progress stands: at the end of the last packet handed over, with exactly the bytes
up to the end of the head, or of this packet, still wanted; `EndsGrow` gives the
length found there to this packet and no other (`LenIsOwn`). `ReadsPacketsWhole`
follows, and `ReadsImplementStream`: `Spec => StreamSpec`. In it sending a packet
is `Put`, the `recv` that completes a body is `Take`, a failing `recv` is `Break`,
and every other step stutters.

**NetIo, TcpSend, Mailbox.** `ChannelsAlone`: the composition implements the specification of
each channel, so what is proved of one alone holds behind `netio_*`; `NetReadsStream` takes the
reads over. *Sends* (`SendInv`): while no send of a call has failed, what it has sent
is the end of the stream and the next byte is the next one of the packet (`SentSoFar`), whence
`PacketsSentWhole`. When sends fail, all that is left is `BelowIsSent` and
`LastIsMissing`: the bytes below the position have been taken at least once, and the last byte not
at all, because the position only reaches the end with it. That is enough for
`CountedAreReached`: the counter is the number of packets that are there entirely. The
proof needs `Modulus > Length + 1`: with a packet one byte shorter than `size_t` counts, a position
that has wrapped around would be taken for a full one. *Mailbox* (`MailInv`):
`Filling` says what the callback and the client can be doing to the mailbox at the same time,
and that all messages since the one the client is copying collided. `TakenBelow` has all that was
taken below the message the next copy may begin with (`Upcoming`), or equal to it, but once and
after a collision; with it a copy that is mixed or repeated is one of two neighbours
that collided, and `TakenInOrder` is inductive. `ClearLeaves` says that resetting the length throws
away only what collided or was just copied, which is `LostByCollision`;
`MessagesTakenInOrder` is both. `AnswerKept` follows the answer to the awaited request through copy and
reset, and `AnswersEndWaits` is what it says of a call in its wait.

**ControlWalk, ControlReport, LastValue, RequestBodies** (`RequestInv`). The heart is `SeenBehind`: the
handlers have seen exactly the data that are due and stand before the place of the walk, in the
lexical order of device, row, kind and index. For the walk to leave a
row or a device without losing due data it needs `WalkedOn`, that what is behind it had
something in it, and for the counters `Counters`. `WalkReachesAllDue`, `WalkOnceInOrder`,
`WalkEndsRows` and `WalkReportsLast` follow, for requests of any size and any set of handlers;
`EndedBehind` and `ReportSoFar` carry the end handler's calls and the code of the report. `ReportBehind` and
`AnswerSoFar` relate the body that is being filled to the walk: the report's devices are those the
walk has been at, in its order, and the answer's are the query's, one by one (`ReportFollowsWalk`,
`AnswerNamesQuery`).

**DataBody.** `BodyInvariant`: `BodyInv` is inductive. Its heart is `IndicesAtEnd`: the
device index is that of the last device (-1 without one), and the row index that of the last
row of it. `AppendDevice` resets the row index, without which a row would go to the wrong place
as soon as there are two devices. Where the indices stand at the end, an append through
them is an append to the last row of the last device, and a check that finds nothing is
the log's lost call (`CASE ... OTHER`); so every `Fill` is a step of `BodyLog`, and
`BodyImplementsLog` follows: `BodySpec => BodyIsLog`. `BodySpec` has callers that ask for
any call at any time; `RequestsFillLog` says the same of the callers there are, collecting
calls, end handlers and last-value handlers.

**JsonFields** (`FieldsInv`). The index both loops share is a place of the array in the
inner loop (`InArray`). Where no array is shorter than the number of fields before it, the outer loop never
turns back, so what is ahead is not yet in the body (`NothingAhead`, for `FieldsOnce`); where none is
longer, it never leaps, so what is behind is in it (`NothingBehind`, for `FieldsAll`).

**SessionPool, JavaSession** (`PoolInv`, `JavaInv`). While no two threads are in `ImInit` together
a place belongs to one thread (`ClaimsApart`), which covers the places it holds and the one it is
about to take or clear; the heap is what the table points to (`HeapIsLive`, `SessionsApart`), and a
call works on the session at its handle (`CalledIsHeld`). From this come
`PoolOnePlaceEach`, `PoolNoUseAfterFree` and `PoolNoSessionLost`, for any number of
threads and places. `PoolNoSocketLost` needs a host that disconnects what it has connected as well:
`IdleHasNoSocket` says that a session not connected has no socket. `OwnEnv` follows from
`OwnsEnv`: the `JNIEnv` in a session is that of the thread that holds it, which is stronger than what a callback sees,
because memory is used again. `JavaIsPool` is a refinement: `JSpec => Spec`, so the
pool's promises carry over (`JavaKeepsPool`).

**Packet** (`PacketInv`). *Heads.* `Or` is the code's `|=`, bit by bit; `HeadsSay` computes the two
bytes of each kind and shows that the three fields read back from them are what was asked for.
*Extension.* `FieldIsRead` is the codec's round trip: at the place of a field in the bytes, reading a
length, a key, two bytes of length and a value gives back that field and the place
of the next. It rests on where the pieces of a flattened sequence stand (`FieldsStand`), and on
byte arithmetic (`Divided`). `ReadingFields` says that the loop stands before some field
with exactly the texts of the fields behind it kept, the last of each key (`TextsMore`, `PutPuts`);
at the end of the bytes there is no field left, and `ReadIsWritten` follows. `SentAreWhole` follows
from `ShortIsLayout`, that short fields are written as the protocol has them, and from the sizes.
*Memory.* `Held` says that a block is allocated exactly as long as it is pointed to, which
`Memory` keeps when what is allocated was not there and what is freed was (`MemoryHeld`).
`Owned` says which blocks a packet points to at each point, by the counts and the fields that decide it;
for what is left of an answer that could not be read it needs `HasRead`: a wait
that times out has read nothing without a body.

*Recursion.* `FlattenSeq` is a recursive function, and the induction theorems of the library take an
operator. `InductionOn` states induction as a fact about a set and is
proved from `LeastOfNat`, which follows from < being well-founded on the naturals; with it the
function that `FlattenSeq` chooses is shown to exist (`FlattenExists`) and to be unique (`FlattensAgree`), and that
one element more appends it (`FlattenAppends`).

**What the proofs changed.** `TcpSend` allowed a packet as long as `size_t` can count, see above.
`EndedBehind` was not inductive before it said that without an end handler nothing has ended. `SInv`
and `TakenInOrder` were stated with selections from a sequence, which the prover cannot see into; they
now speak of positions, and `SInv` says more, namely that a packet is one contiguous piece.
What queries, requests and reported objects look like was said in the instance only; it is
`QueryAssumption` and `ReportAssumption` now. `Packet` let the platform write a field longer than its
two bytes of length can say, which only the instance ruled out: `Fits` does now.

**Only model-checked.** Liveness (`CallsReturn`, `ControlReported`, `NetCallsReturn`,
`ReturnsWhenNotShort`, `RequestsAreAnswered`): liveness under fairness is
out of the prover's reach. Every invariant and action property of the runs is proved.

## 5. How the parts fit together

The modules meet where one takes for granted what another shows. `DeviceSession` has
a connection that carries packets whole and in order or breaks: `PacketStream`, which
`TcpRecv` implements, up to the failed read of a body (finding `recv_fail`). The MQTT and
HTTP channel implement it only for messages that do not collide (`TakenInOrder`,
`LostByCollision`, `AnswerEndsWait`).
`DeviceSession` runs a callback for a control or a query and then sends a report or an
answer; what happens inside is `RequestBodies`. `JsonFields` says which
fields a document is turned into, `DataBody` where they go. `SessionPool` gives each call the
session that `DeviceSession` is about, and keeps threads apart.

## 6. What is not modelled

- In `DeviceSession` a packet is read whole or not at all. A packet that is split
  over two segments *before* the framing is on, and the crash after a failed body
  read, are not in it; `TcpRecv` stops where the latter begins. The clock only
  goes forward there, and a refused authentication is not distinguished
  (the code does not look at the result code).
- The branch of `packet/head/head.c:40-47` that gives several requests one shared transaction
  id: the function that turns it on is in no header and nothing calls it.
- What an overrun buffer does to the memory behind it: the length of a packet is read into
  `recv_buff` without a look at `IOBUFF_MAX_SIZE` (`deps/netio/tcp_io.c:456`), and
  the extension is copied into `send_buff` before its bound is checked
  (`packet/head/head.c:273-305`), so that the -1 of `HasRoom` may come too late.
- In `SessionPool` a disconnect closes the socket and sets `sock` to 0 in one step
  (`deps/netio/tcp_io.c:281-283` are two). Two threads in `ImInit` together, and a host that connects
  again or releases without `ImDisconnect`, are in the model but outside what the
  properties promise: the first gives one place to two sessions, the second leaves sockets open.
- SIGPIPE on a send after a reset: whether the process ends is the application's
  signal disposition.
- `Pacing` assumes that the application is back in `im_poll` within `PollGap`.
- Whether a string is a date or a number an integer is data of `JsonFields`; arrays
  of more than 100 elements, or of mixed types, are left out.
- The group tags and names of a control, which `ControlWalk` only hands through.
- Requests 121 (server time), 332 (device information) and 731 (one-time
  password) are transactions like the data call: `Packet` has their heads, and their bodies,
  and that of the authentication, are a length.
- Versions, flags and the result code of a head, and the ciphers: functions on bytes
  without state.
- Two sessions on MQTT or HTTP: they share one mailbox and one MQTT client id, so one
  takes the other's messages. There is nothing they promise that could be checked.
- The TLS channel: the framed reads of TCP over a library that buffers; `select` does
  not see bytes that are already decrypted, so such a packet waits for the next.
  How much the library reads ahead is not in this repository.
- The UDP channel: no build of the repository selects it.
- In `JavaSession` the strings of `ImSetReportDataOnDev` and the local references of a callback;
  and that a callback gets the characters of a string it does not check for null
  (`java-jni/iotmakers_jni.c:238`) and calls a method that returns an int as one that returns a
  boolean (`394`).
- `packet/body/json_stub.c`: not used. Vendored libraries, Makefiles, samples and
  the test program.

## 7. Plan

What is left, in the order of its worth:

1. `RequestPromise`: an abstract specification of what a call promises (asked,
   answered at most once with its own answer, or given up), implemented by
   `DeviceSession`.
2. Refused authentication, split reads before the framing and the clock set back in
   `DeviceSession`.

To check: `tlc -config <cfg> <module>` for each run of `PROJECT.json`, and
`tlapm <module>` for each proof module.
