# A TLA+ model of the DongLoRa client

The repository is the Rust host library for DongLoRa radio dongles: it finds a
device (over USB serial, or through a mux daemon over a Unix or TCP socket),
speaks a framed, tagged request/response protocol with it, and offers
applications a `Dongle` with `tx`, `recv` and configuration.  This directory
holds its specification: what is modelled, what TLC checks, what is proved.

Paths such as `session.rs:366` are relative to `src/src/`.

## Inventory

| Part | State it keeps | Operations | Hard because | Correct when |
|---|---|---|---|---|
| session (`session.rs`) | `next_tag`, the map `pending` from tags to waiting commands, the writer mutex, `closed`, the queues of RX events and asynchronous errors, the reader task | `send_command` under the typed helpers, `recv_rx`, `next_rx`, `drain_async_errors`, `close`, and the reader's `reader_loop` and `dispatch` | any number of callers, the reader and `close` interleave at every lock and await; timeouts race answers; futures are dropped anywhere; tags wrap; a TX is answered twice | an answer decides the call it is for; Ok means done; no entry leaks; events are delivered once, in order; everybody returns |
| dongle (`dongle.rs`) | `applied_config`, `rx_started`, `last_write_at`, `closed`, the keepalive task | `tx`, `tx_with_retry`, `rx_start`, `rx_stop`, `recv`, `next_rx`, `set_config`, `ping`, `close` | the caches describe a device that forgets its configuration after a second of silence and that several tasks command at once; a recovery is several commands; the keepalive recovers on its own | the caches agree with the device; a packet is sent at most once per call; every operation returns |
| retry policy (`retry.rs`) | none | `jitter_ms`, the loop of `tx_with_retry` | boundaries: zero attempts, a first delay above the cap | bounded attempts, bounded delays |
| connect (`connect.rs`) | the process-wide flag `USED_MUX` | `connect_with`, `try_connect_with`, `connect_mux_auto_with`, `mux_unix_connect`, `mux_tcp_connect`, `finalize` | the flag outlives connections; endpoints come and go between a look and an open; a connect may fail or be dropped half way | once on a mux, never on USB; a connect returns unless there is nothing to wait for |
| configuration check (`connect.rs`) | none | `prepare_config` | bit shifts and clamps at the edges | the result is within the device's capabilities, and only the power differs, as little as possible |
| discovery (`discovery.rs`) | none | `find_port`, `wait_for_device` | devices appear and vanish between a scan and an open | the native device wins over a bridge |
| transport (`transport.rs`), errors (`errors.rs`), `lib.rs`, `examples/` | none | adapters, error mapping, re-exports, sample programs | | |

Interaction: `connect` builds a `Session` on a transport, probes it and wraps it
in a `Dongle`.  All `Dongle` operations and its keepalive task call the session,
which shares the `pending` map with its reader task; the reader fills the two
queues.  The frame codec (`donglora-protocol`), tokio and the device's firmware
are outside the repository.

## Modules

* `Session` - the session.  One action per stretch of code between two points
  where another task can be seen (a lock, an await, the atomic flag).
* `CommandService` - what the session promises the callers of `send_command`: an
  abstract specification, which `Session` implements (`IsService`).
* `Dongle` - the dongle above the session: caches, operations, recovery, retry
  loop, keepalive, close, and the device as those see it.
* `Keepalive` - the keepalive task against the clock and the device's inactivity
  timer.
* `Connect` - the connect functions, with discovery and the opening of transports,
  and what holds a transport open.  It extends
* `PrepareConfig` - the configuration check, pure operators.
* `MCSession`, `MCDongle`, `MCKeepalive`, `MCConnect` - what TLC needs beside the
  `.cfg` files: symmetry sets, small sets of records.
* `SessionProofs`, `SessionServiceProofs`, `SessionEventsProofs` - theorems about
  `Session`: types and correlation, what calls return and the refinement, events.
* `DongleProofs`, `DongleStateProofs` - theorems about `Dongle`: packets and backoff, the
  two caches.
* `KeepaliveProofs`, `PrepareConfigProofs`, `ConnectProofs` - theorems about the modules
  they are named after.

`Connect` ends where `Dongle` begins (`Dongle!Init` is `Dongle::new` as `finalize`
calls it); `Dongle` and `Connect` take a session call for what `CommandService`
says; `Keepalive` is the clock that `Dongle` leaves open.

### Session

| Code | Model |
|---|---|
| `Session.next_tag`, `alloc_tag` | `next_tag`, `alloc_tag`, `next_tag_after` (u16 becomes `1 .. MaxTag`) |
| `pending`, `Pending { cmd_type, waker }` | `pending[tag]` is the call whose entry it is; `oneshot[call]` is the channel its waker sends on |
| `send_command` | `SendCommand`, `SendCommandClosed`, `TransmitEmpty`, `InsertPending`, `LockWriter`, `WriteFrame`, `WriteFails`, `Resolved`, `SenderDropped`, `Timeout`, `RemovePending`; `Cancel` is a future dropped at an await |
| typed helpers | `Outcome` |
| `reader_loop` | `ReaderTop`, `ReaderRead`, `ReaderEof`, `ReaderLeave`, `ReaderAbort` |
| `dispatch` | `DispatchAsync`, `DispatchUnknown`, `DispatchTxAck` and `Reinsert`, `DispatchResolve` with `Response` |
| `recv_rx`, `next_rx`, `drain_async_errors` | `RxCall`, `RxLock`, `RxTake`, `RxNone`, `RxCancel`, `DrainAsyncErrors` |
| `close` | `CloseFlag`, `CloseTake`, `CloseAbort` |

A call is one invocation of `send_command`, made at most once.  Frames carry the
name of the call they belong to beside the tag: the code never sees the name, the
properties do.  Their bytes are abstracted to a type, a tag and a kind of payload,
with `"Malformed"` for a payload that does not parse and `"GARBLED"` for bytes that
fail CRC or COBS.  Failure to encode a frame is left out.  The transport holds at
most `WireCap` command frames and then blocks the writer; inbound it is a FIFO,
from which one read returns any number of frames.  A write abandoned half way
(`Cancel` while writing) may destroy the frame after it.

`issued`, `serial`, `served`, `at_close`, `rx_got` and `err_got` are history
variables; no guard reads them.

What may go wrong is chosen per run by `Env`: `close`, `cancel` (futures are
dropped), `link` (the transport fails), `event` (the device sends events), `lost`,
`garble`, `malformed`.  A timeout
may always come before an answer.

### CommandService

A call is issued, may be carried out by the device (in time or too late), and ends
once, refused, finished or abandoned.  Its outcome is honest: Ok only for a command
that was carried out, Io only when the transport is gone, TransportClosed only when
it is gone or the session closed, ReaderExited only when the session was closed.
The concession is the 16-bit tag: a call may be taken for one that is `Window` or
more commands away.  The refinement mapping is at the end of `Session`: `phase` is
`pc` without its inner stages, `outcome` the result once it is returned, `place` and
`count` the order in which tags were allocated, `carried` the calls the device served,
`shut` and `down` the flag `closed` and the state of the link.

### Dongle

| Code | Model |
|---|---|
| `check_open` and the start of a method | `Begin`, `RecvOpen` |
| `tx`, `tx_with_timeout`, `recover_and_retry_tx`, `reapply_config` | `FirstSend`, `TxDone`, `Reapply` (the copy), `Resend`, `Reapplied`, `Again`, `AgainDone` |
| `tx_with_retry` | `FirstSend`, `RetryDone`, `BackoffOver`, `NoAttempt`, `is_retryable`, `spread` and `next_delay`; the multiplier is a multiple of 1/2, and `f32` rounds as the type does |
| `rx_start` | `RxLock`, `RxStarted`, the recovery as above, `RxSet`; `rx_guard` is the holder of the mutex of `rx_started` |
| `rx_stop`, `set_config`, `ping` | `FirstSend`, `StopDone` / `ConfigDone` / `PingDone`, `ClearRx` |
| `recv`, `next_rx` | `RecvRead`, then `rx_start`; the wait for an event itself is in `Session` |
| `close` | `CloseBegin`, `CloseRest` |
| the keepalive task | `KaWake`, `KaPinged`, `KaReapply`, `Resend`, `KaReapplied` |

A session call is a frame on a FIFO to the device and one answer, which reaches its
caller only while that one waits for it.  That an answer is never mistaken for
another's is what `Session` shows.  The transport takes at most `WireCap` frames before
the device has read one; the callers of the others wait for the writer mutex or in the
write, and run into no deadline there (`Writing`, `WriteStep`), since that of
`send_command` begins after the write.  When the link fails, writes fail and those who
wait are told (`LinkFails`) or run into their deadline.  The device executes commands one by one,
forgets its configuration at any time (`DevLapse`, at most `MaxLapses` times),
answers NotConfigured without one (to a PING it may answer OK), and stops receiving on
SET_CONFIG; it is modelled
from what `dongle.rs` says of it and reacts to (lines 18-21, 135, 191, 243, 295-298).
The keepalive may wake at any time: `last_write_at` only delays it, which is the
matter of `Keepalive`.  `aired`, `overlap` and `recovered` are history variables.

### Keepalive

Time is counted in ticks, and `Tick` is only taken when nothing is due.  `KaWake`,
`KaAnswered` and `KaTimeout` are the three ends of an await in the task's loop;
`UserWrite` is `mark_write` with its frame, `UserHollow` one without (`rx_start` when
it is started already, `tx` of nothing).  A frame and an answer take up to `MaxDelay`
ticks each, and at most `MaxLost` of them are lost.  Users' writes are bounded by
`MaxWrites`; a user who writes for ever less than an interval apart keeps the task
from ever asking, so that it never learns of a lapse: the user does, by his own
answers.  A device without a configuration answers a PING by NotConfigured, as the task
expects, or by OK, as `finalize` needs before the first SET_CONFIG (`connect.rs:377`).

### Connect and PrepareConfig

| Code | Model |
|---|---|
| `default_socket_path`, `find_mux_socket`, `parse_tcp_endpoint`, `find_port` | operators of these names |
| `connect_with`, `try_connect_with`, `connect_mux_auto_with` | `BeginAuto`, then by `call[c].entry`: `TryTcpEnv`, `FindMux`, `Scan`, `WaitForDevice`, `StickyPoll`, `Open` |
| a port in the options, `mux_unix_connect`, `mux_tcp_connect` | `BeginNamed`, `Open` |
| `USED_MUX` | `used_mux`, set in `Spawn` through `MarkMux`, read once, in `Start` |
| `finalize` | `Spawn`, `Ping`, `GetInfo`, `SetConfig`, `Ready`, `Abandon` |
| `ConnectOptions` | `NewOptions`, `config`, `auto_configure`; chosen where `finalize` first reads them |
| `Dongle::close`, `Drop`, the reader task | `Close`, `DropDongle`, `ReaderEnds` |
| `prepare_config`, `prepare_lora_config` | the same in `PrepareConfig`; a bitmap is the set of its bits, `1u16 << n` the bit `n % 16`, or a panic |

A transport is held by the Session (its write half) and by the reader task (its read
half).  A session dropped without `close` leaves the task behind, and with it an
exclusive serial port, until the peer goes away.  Devices and muxes appear and vanish
(`MaxFlips` times), a mux that crashes leaves its socket file.

## Runs

| Run | Checks | Bounds |
|---|---|---|
| `session_tags` | `Correlated`, `IsService` | 3 PINGs, 2 tags; dropped futures, lost answers, link failure |
| `session_faults` | `TypeOK`, `OkMeansServed`, `NoSlotLeak`, `ReaderExitedHonest`, `CloseWakesPending`, `IsService` | GET_INFO or TX twice, 2 tags; close, dropped futures |
| `session_events` | `EventsExact`, `EveryRecvReturns`, `CloseEndsListeners` | a `recv_rx` and a `next_rx`, 2 events, well-formed, malformed or corrupted; close, link failure, dropped futures |
| `session_returns` | `OkMeansServed`, `EveryCallReturns` | 2 PINGs; dropped futures, link failure, malformed answers and a corrupted one |
| `dongle_state` | `TypeOK`, `RxStateKept`, `ConfigKept` | two tasks, 2 of `recv`, `rx_stop`, `set_config`, `close` each, 2 configurations, a lapse, a keepalive wake-up, refusals, a shared device |
| `dongle_tx` | `AiredOnce`, `OkMeansAired`, `BackoffBounded`, `EveryOpReturns` | two tasks, one of `tx`, `tx_with_retry`, `recv`, `ping`, `close` each, a transport that takes one frame, a lapse, timeouts, link failure; policies with 3 attempts or none, that outgrow the cap, begin above it, or are beyond what an f32 holds exactly |
| `keepalive_times` | `TypeOK`, `SilenceBounded`, `LapseRecovered` | interval 3, inactivity 6, timeout 12 ticks (the code's 500 ms, 1 s, 2 s); delays up to 2; 3 writes, 2 losses |
| `connect_calls` | `TypeOK`, `StaysOnMux`, `ConfigFits`, `OnlyWaitsForNothing` | two calls, any function; two environments, two ports, a change of the surroundings; failures and dropped futures |

Three calls over two tags is the smallest instance in which a tag comes round
again while the call that had it before is still known.  Two calls suffice for the
races with close: one whose entry is disturbed and one that disturbs it.  Two
events suffice to lose, repeat or swap one.  Two intervals of three ticks, with delays
of two, are the smallest in which a write may fall before, at and after every instant
of the task's.  Two connects are one that sets `USED_MUX` and one that meets it, in
any order of their steps; one change of the surroundings is what may come between a
look and an open.  `dongle_tx` leaves the keepalive out to stay small: it sends no packet
and holds no lock of the dongle during a session call.  The theorems about packets have
it in; that operations return beside it is not checked.  All runs allow the system to stop: calls and operations are finite
in number.

What the runs show: for calls less than a cycle of tags apart, nothing
that is late, lost, reordered, timed out or abandoned makes a call believe another's
answer; Ok is only returned for what was carried out, TX included;
events are exact until the reader stops; and nobody waits for ever, given a device
that reads and apart from what follows.  A packet is on the air at most once per call.
A process that has used a mux stays off USB.  The device never waits for a frame longer
than `2 * Interval - 1 + MaxDelay` ticks, and TLC reaches that bound: with an
inactivity time of two intervals the keepalive has no margin (`keepalive_margin`).  A
configuration that lapsed is recovered (`LapseRecovered`).

Some properties make an exception where the code does, and say so:

* `NoSlotLeak` and `CloseWakesPending` except TX: while `dispatch` has taken the entry
  of a TX out to put it back (`session.rs:366-375`), a timeout or `close` finds nothing.
  The entry then stays in the map, or the caller sees ReaderExited or a timeout
  instead of TransportClosed (documented at `session.rs:181`).
* `EveryRecvReturns` excepts a `recv` behind a `next_rx`: the mutex of the queue is taken
  before the timeout starts (`session.rs:161-170`), so it waits as long as that one.
* `RxStateKept` ends with the first recovery, `ConfigKept` with the first overlap of two
  calls that send SET_CONFIG: `dongle_deaf` and `dongle_stale_config` show why.  Both end
  with `close`, which wakes callers before the device has done what they asked for.
* `BackoffBounded` holds the cap against every backoff but the first: a policy whose
  `backoff_ms_min` is above its `backoff_cap_ms` sleeps the former once (`dongle.rs:203,
  221-225`), although `retry.rs:33` calls the cap the "Absolute ceiling on the backoff
  floor".  Its lower bound is for delays that an f32 multiplies exactly; above 2^24 ms the
  conversion at `dongle.rs:224` may round a delay below the first.
* `EveryCallReturns` and `EveryOpReturns` are for a device that goes on reading:
  `session_close_hang` shows why.
* `LapseRecovered` is for a device that does not answer OK to every PING.  The keepalive
  learns of a lapse from nothing else (`dongle.rs:131-135`): over a device that does, it
  recovers nothing, and the users' calls do.
* `SilenceBounded` excepts calls that mark a write and make none (`dongle.rs:237-240`):
  made often enough they keep the keepalive asleep.
* `OnlyWaitsForNothing` lets a sticky `connect_with` wait while its one path is missing.
  It polls `default_socket_path` (`connect.rs:325`), not the path at which the mux was
  found: with XDG_RUNTIME_DIR set and the mux at /tmp, the second connect waits while the
  mux is up, although the repository's README (line 78) says that "subsequent reconnects
  commit to that path".
* `ConfigFits` excepts spreading factors of 16 and more, for which the shift at
  `connect.rs:430` overflows.

After a connect that failed in `finalize`, or a drop without `close`, the detached reader
task holds the port until the peer goes away: `Connect` has it so, no document promises
otherwise, and no property speaks of it.

### Where the code and its documents disagree

Four runs are expected to end in a counterexample.

* `session_close_hang`: the write is under the writer mutex and under no timeout
  (`session.rs:155-157`).  A device that stops reading blocks its caller and all
  callers behind it, and `close` does not release them.
* `dongle_deaf`: recovery sends SET_CONFIG, which ends reception on the device, and
  leaves `rx_started` set (`dongle.rs:135-146, 351-356`).
* `dongle_stale_config`: the keepalive may undo a `set_config` on the device while the
  cache reports it (`dongle.rs:136-138`).
* `keepalive_margin`: the keepalive is said to ping "for 2x margin" (`dongle.rs:18-19`, and
  the README and CHANGELOG of the repository).  A write just after a wake-up makes it skip
  the next PING and sleep a whole interval more (`dongle.rs:128-130`): the device hears
  nothing for 950 ms, and a frame that takes another 50 ms is too late for a timer of
  1000 ms.  Interval and timer are 10 and 20 ticks in this run, so that a delay may be a
  small part of an interval.

Met on the way, and not a matter of behaviour over time: the comment on
`ConnectOptions::keepalive` (`connect.rs:101`) says that it is on by default, which
holds for `ConnectOptions::new()` and not for `ConnectOptions::default()`.

### Fairness

`Fairness` (Session) says that the runtime polls every task that can go on and that
timers fire: weak fairness of each call's own steps, the reader, `close` once begun,
and each receiver.  tokio guarantees that much.  Nobody is obliged to call, cancel or
close, and the device owes no answer.  `EveryCallReturns` also needs a device that
goes on reading (`DrainedSpec`); `session_close_hang` shows that it does.  In `Dongle`
each task's steps are weakly fair, the deadline of a session call whose frame is written
among them; `EveryOpReturns` needs, there too, that frames are written when there is room
and that the device reads (`DrainedSpec`), while it owes no answer and the keepalive task
nothing.  In `Keepalive` time passes, the task is polled and what is on the wire arrives
or is lost; and a device that is asked again and again tells some time that it has no
configuration (strong fairness of `DevTells`, which is about the firmware and not about
the code: see the exceptions above).  In `Connect` each call's steps are weakly fair,
while devices, muxes and callers owe nothing.

## Proofs

Every invariant that a run checks is also a theorem, for every value of the constants
that the named assumptions allow: any number of calls, tasks, receivers and events, any
tag space, any policy, any bounds and any environment (with a hypothesis for the two
invariants about the dongle's caches, see below).  So is the refinement.  Each
theorem rests on an inductive invariant, given at the top of its module.  None of the
properties is inductive by itself: they speak of what callers see, and what they will
see depends on what is on the wire, in the map and in somebody's hands.  The proof that
steps preserve an invariant has one lemma per conjunct, split by component and action.

### Session

| Theorem | States |
|---|---|
| `SessionTypes` | `Spec => []TypeOK`; the counter stays in `1 .. MaxTag`, so no command goes out under tag 0, which would make its answer an event |
| `ResponsesCorrelate` | `Spec => []Correlated` |
| `OkIsServed`, `ReaderExitedIsHonest`, `SlotsDoNotLeak`, `CloseWakes` | `[]OkMeansServed`, `[]ReaderExitedHonest`, `[]NoSlotLeak`, `[]CloseWakesPending` |
| `SessionIsService` | `Spec => IsService` |
| `EventsAreExact` | `[]EventsExact` |

*Correlation* (`IInv`).  Every entry, frame and answer is filed under the tag of the
call it belongs to (`CmdInv`, `HostInv`, `SlotInv`, `OutcomeInv`), so a call can only be
decided by an answer to a call with the same tag; and calls with the same tag are at
least `MaxTag` allocations apart (`PairInv`), since within one cycle the distance between
`next_tag` and a call's tag is the number of allocations since, less `MaxTag` if the
counter wrapped (`DistanceInv`, with `SerialInv`).

*What calls return* (`SInv`, on top of `IInv`).  Frames say the truth about the call they
are for (`TruthInv`), so a channel that was decided by its own call's answer holds an
outcome that was earned (`ChannelInv`), and so does a result (`ResultInv`).  As long as a
call listens, its waker is in the map or in `dispatch`'s hand, or its channel tells that
it is not; of the calls that have returned only a TX can be in the map (`LifeInv`).  Those
that waited when `close` began are out of the map once it was taken, except a TX that was
put back (`CloseInv`).  The tag-sharing exceptions of the properties come from `PairInv`:
a call is only disturbed by one that has its tag.

*Refinement.*  `SInv` gives what the guards of `CommandService` ask for: a call that
returns does so with an `Honest` outcome.  Every action of `Session` is then matched with
the one action of the service it is, or with a stutter (`CallImplements`,
`DevImplements`, `CloseImplements`).

*Events* (`EvInv`).  `Exact` is `InOrder` for arbitrary sequences, and its four lemmas say
what sending, receiving, skipping and stopping do to it, without reference to the
session; the steps of the session are then read as one of these on `works \o toHost` and
on each queue with what was taken from it.

### Dongle

| Theorem | States |
|---|---|
| `DongleTypes` | `Spec => []TypeOK` |
| `PacketsAiredOnce`, `OkIsAired` | `[]AiredOnce`, `[]OkMeansAired` |
| `BackoffIsBounded` | `[]BackoffBounded` |
| `RxStateIsKept`, `ConfigIsKept` | `Undisturbed` implies `Spec => []RxStateKept`, `Spec => []ConfigKept` |

*Packets* (`DInv`).  A task is at a place its method has (`PlaceInv`), and a frame on the
wire has the number and the command its sender waits for, or an older number
(`FrameInv`).  A packet is on the wire or was on the air, never both, and neither while its
call may still send it (`PacketInv`): a call sends again only after an answer that says
that the packet was refused.  This is why a timeout, which says nothing, must not be
retried, and `tx_with_retry` does not.  The backoff needs the floor of the delay from
attempt to attempt (`BackoffInv`), since the first one may be above the cap, and that an
f32 rounds no number it has the bits for (`Rounding`).

*Caches* (`EInv`, on top of `DInv`).  Here two hypotheses on the constants are needed,
together `Undisturbed`: no session call times out and the link does not fail.  They are
those of the run `dongle_state`.  A caller that gives up does not learn what the device
did, and its cache may differ from then on (see the hazard at `dongle.rs:261`).  `EInv`
holds until somebody begins to close the dongle, as do the properties; the theorem behind
them is `Spec => [](closed \/ EInv)`.  Under the hypotheses every frame on the wire has its caller waiting for it and every caller has at most
one (`FlightInv`).  `rx_started` is ahead of the device only if a recovery took place, the
device has lapsed, or somebody has an answer on which he will clear it (`RxInv`).  While
calls that send SET_CONFIG do not overlap, a recovery sends what is still cached, and the
configuration in force is cached or in an answer about to be stored (`ConfigInv`).

### Keepalive

`KeepaliveTypes` and `SilenceIsBounded`, from `KInv`: as long as nothing was lost and no
write was marked that was not made, the task's request is in one place (`TurnInv`), and
the silence is bounded by the age of what is under way or, when nothing is, by the two
clocks of the task: a sleep that ends within an interval of the last write goes on for
another interval, any other ends in a PING (`SilenceInv`).  The bound
`2 * Interval - 1 + MaxDelay` holds for all values of both.

### Connect and PrepareConfig

| Theorem | States |
|---|---|
| `PrepareIsRight` | `PreparedRight` of what `prepare_config` returns, for every device and every LoRa request with a spreading factor below 16 |
| `ConnectTypes` | `Spec => []TypeOK` |
| `ProcessStaysOnMux` | `Spec => []StaysOnMux` |
| `SentConfigFits` | `Spec => []ConfigFits`, from `PrepInv` and `PrepareIsRight` |

The facts behind `PrepareIsRight` are that the shift of a small number picks its own bit
(`ShlSmall`) and that a clamp is the nearest point of its range (`ClampNearest`).  Types
need that a call which probes is at a place (`SomewhereInv`), so that a winner is one; they
say when a Session exists, which holds the write half of its transport.
`StaysOnMux` needs that a call which is past opening a mux, and a process with a winner,
have `used_mux` set (`MuxInv`); that a call which began after a win read the flag as true
(`AfterInv`); and that such a call, unless it named a place, is never at a step that leads
to USB, and looks for a socket only in the functions that give up when there is none
(`StickyInv`).

### Model-checked only

`EveryCallReturns`, `EveryRecvReturns`, `CloseEndsListeners`, `EveryOpReturns`,
`LapseRecovered` and `OnlyWaitsForNothing`: liveness under fairness, out of the
prover's reach.  The four counterexamples are TLC's.

## Not modelled

* The poll functions of the transports: they hand bytes on.
* `lib.rs` and the examples have no state.
* The accessors of the dongle, the labels of transports, `TxOutcome`'s record of
  attempts, the texts of errors.
* The length of a packet: `transmit` panics on data longer than its buffer
  (`session.rs:250`).
* Connecting on targets other than Unix.
* Bytes: COBS, CRC and payloads belong to `donglora-protocol`, outside the repository.

## Plan

1. `Session`, `Dongle` with their runs, `SessionProofs` with types and correlation: done.
2. `Connect` with `PrepareConfig`, `Keepalive`, the delays of `RetryPolicy`,
   `CommandService` and the refinement: done.
3. `ConnectProofs`, `PrepareConfigProofs`: done.
4. The inductive invariants of all components, every safety invariant of the runs and the
   refinement: done.
5. Left: what becomes of the caches once a session call has timed out, that is, how much of
   `RxStateKept` and `ConfigKept` holds without `Undisturbed`; safety steps towards the
   liveness properties (what can still keep a caller waiting), as invariants.
