------------------------------- MODULE Session -------------------------------
(****************************************************************************)
(* The session of src/src/session.rs: tag allocation, the map of            *)
(* outstanding commands, the background reader task, the queues of          *)
(* asynchronous events, and close().                                        *)
(*                                                                          *)
(* A member of Calls is one invocation of send_command (through one of the  *)
(* typed helpers ping, get_info, set_config, rx_start, rx_stop, transmit);  *)
(* it is made at most once, and any number of them overlap.  A task that    *)
(* issues commands one after the other is the case where they do not.       *)
(*                                                                          *)
(* A waker (the Sender half of a oneshot channel) is named by the call that *)
(* holds the Receiver, and the Pending record {cmd_type, waker} by the same *)
(* call, whose command type does not change.                                *)
(*                                                                          *)
(* Grain.  A step lasts from one point where another thread can be seen to  *)
(* the next: a lock, an await or the atomic flag.  Taking a slot out of the *)
(* map and sending on its waker are one step: nobody else can reach the     *)
(* waker in between, and a receiver that gives up there is a receiver that  *)
(* gave up before.                                                          *)
(*                                                                          *)
(* The transport, the codec and the device are not under src/: they are     *)
(* modelled from what session.rs and its tests rely on.                     *)
(****************************************************************************)
EXTENDS Integers, Sequences, FiniteSets

CONSTANTS
  Calls,      \* invocations of send_command
  Recvs,      \* invocations of recv_rx, which takes a timeout
  Nexts,      \* invocations of next_rx, which does not
  CmdTypes,   \* the command types the calls may use
  MaxTag,     \* the largest tag: u16::MAX in the code
  WireCap,    \* command frames the transport buffers before a write blocks
  MaxAsync,   \* bound on the frames the device sends outside any command
  Env,        \* what the environment may do: a subset of EnvEvents
  Nil

Commands == {"PING", "GET_INFO", "SET_CONFIG", "TX", "RX_START", "RX_STOP"}

EnvEvents == {"close", "cancel", "link", "event", "garble", "malformed", "lost"}

ASSUME CallsAssumption == Nil \notin Calls /\ Nil \notin Recvs \cup Nexts
ASSUME TagAssumption   == MaxTag \in Nat \ {0}
ASSUME CmdAssumption   == CmdTypes \subseteq Commands
ASSUME BoundAssumption == WireCap \in Nat \ {0} /\ MaxAsync \in Nat
ASSUME EnvAssumption   == Env \subseteq EnvEvents /\ Recvs \cap Nexts = {}

Tags      == 1 .. MaxTag
Receivers == Recvs \cup Nexts

VARIABLES
  next_tag,   \* Session.next_tag
  pending,    \* Session.pending: tag -> the call whose slot it is, or Nil
  writer,     \* holder of the Session.writer mutex
  closed,     \* Session.closed
  close_pc,   \* progress of Session.close
  pc,         \* per call: progress of send_command
  cmd,        \* per call: type_id
  tag,        \* per call: the tag it was given, 0 before
  oneshot,    \* per call: what its oneshot channel holds
  result,     \* per call: what it returned
  rpc,        \* progress of reader_loop
  works,      \* frames of the current read not yet dispatched
  held,       \* the call whose slot dispatch has in hand (TX ack), or Nil
  aborted,    \* reader_handle.abort() was called
  rx_q,       \* the rx channel
  async_q,    \* the async error channel
  rx_lock,    \* holder of the Session.rx_rx mutex
  rcv,        \* per receiver: progress of recv_rx / next_rx
  toDev,      \* bytes on their way to the device, as frames
  toHost,     \* bytes on their way to the host, as frames
  link,       \* the transport is up
  torn,       \* an abandoned write left part of a frame on the wire
  accepted,   \* device: commands read and not answered
  airing,     \* device: TX commands acknowledged and not completed
  async_sent, \* device: the frames sent outside any command, in order
  \* History, read by no guard:
  issued,     \* how many tags were allocated
  serial,     \* per call: its place in that order, 0 before
  served,     \* calls whose command the device carried out
  at_close,   \* calls waiting on their oneshot when close() began
  rx_got,     \* RX events handed to receivers, in order
  err_got     \* asynchronous errors drained, in order

tagVars   == <<next_tag, tag, issued, serial>>
callVars  == <<pc, cmd, result>>
closeVars == <<closed, close_pc, aborted, at_close>>
rdrVars   == <<rpc, works, held>>
queueVars == <<rx_q, async_q, err_got>>
rcvVars   == <<rx_lock, rcv, rx_got>>
wireVars  == <<toDev, toHost, link, torn>>
devVars   == <<accepted, airing, async_sent, served>>

vars == <<tagVars, callVars, closeVars, rdrVars, queueVars, rcvVars, wireVars,
          devVars, pending, writer, oneshot>>

(****************************************************************************)
(* Frames and responses                                                     *)
(****************************************************************************)

\* What an OK answers with, by command (OkPayload::parse_for).
OkKind(k) ==
  CASE k = "GET_INFO"   -> "Info"
    [] k = "SET_CONFIG" -> "SetConfig"
    [] OTHER            -> "Empty"

TxResults == {"Transmitted", "ChannelBusy", "Cancelled"}
Bodies    == {"Empty", "Info", "SetConfig", "Code", "Rx", "Malformed"} \cup TxResults

\* Command frames; "of" is the call that wrote it.
CmdFrames == [cmd : Commands, tag : Tags, of : Calls]

\* A reply echoes the tag of its command; "of" is the command it answers.
Replies == [type : {"OK", "ERR", "TX_DONE", "OTHER"}, tag : Tags, of : Calls, body : Bodies]

\* Frames with tag 0, and inbound bytes that fail CRC or COBS; "of" numbers them.
Asyncs == [type : {"RX", "ERR", "OTHER", "GARBLED"}, tag : {0}, of : Nat, body : Bodies]

Reply(f, t, b) == [type |-> t, tag |-> f.tag, of |-> f.of, body |-> b]
Async(n, t, b) == [type |-> t, tag |-> 0, of |-> n, body |-> b]

\* Outbound bytes the device cannot decode.
Garbled == [cmd |-> "Garbled", tag |-> 0, of |-> Nil]

\* States of a oneshot channel and results of a call: a kind, and the call the
\* deciding frame was sent for when a frame decided it.
Kinds    == {"none", "open", "dropped", "Empty", "Info", "SetConfig", "WireErr", "BadFrame",
             "Closed", "Ok", "Unexpected", "Length", "Io", "ReaderExited", "Timeout"} \cup TxResults
Outcomes == [kind : Kinds, of : Calls \cup {Nil}]

Plain(k) == [kind |-> k, of |-> Nil]

\* dispatch, from the OK arm on: the SessionResponse a frame makes for a command k.
Response(k, f) ==
  IF \/ f.type = "OK"      /\ f.body = OkKind(k)
     \/ f.type = "TX_DONE" /\ f.body \in TxResults
  THEN f.body
  ELSE IF f.type = "ERR" /\ f.body = "Code" THEN "WireErr" ELSE "BadFrame"

\* The typed helpers: what the caller of a command k returns for a SessionResponse.
Outcome(k, r) ==
  IF r \in {"WireErr", "BadFrame", "Closed"} THEN r
  ELSE IF k = "TX"
       THEN IF r = "Transmitted" THEN "Ok"
            ELSE IF r \in TxResults THEN r ELSE "Unexpected"
       ELSE IF r = OkKind(k) THEN "Ok" ELSE "Unexpected"

\* Senders of the calls in S are dropped / used to send Err(TransportClosed).
DropWakers(S) ==
  [c \in Calls |-> IF c \in S /\ oneshot[c].kind = "open" THEN Plain("dropped") ELSE oneshot[c]]
WakeClosed(S) ==
  [c \in Calls |-> IF c \in S /\ oneshot[c].kind = "open" THEN Plain("Closed") ELSE oneshot[c]]

InMap == {c \in Calls : \E t \in Tags : pending[t] = c}

FlagTypes ==
  closed \in BOOLEAN /\ aborted \in BOOLEAN /\ link \in BOOLEAN /\ torn \in BOOLEAN

TagTypes ==
  /\ next_tag \in Tags /\ tag \in [Calls -> 0 .. MaxTag]
  /\ issued \in Nat /\ serial \in [Calls -> Nat]

CallTypes ==
  /\ pc \in [Calls -> {"idle", "insert", "lock", "write", "wait", "remove", "done", "cancelled"}]
  /\ cmd \in [Calls -> Commands] /\ result \in [Calls -> Outcomes]
  /\ writer \in Calls \cup {Nil}
  /\ close_pc \in {"idle", "take", "abort", "done"} /\ at_close \in SUBSET Calls

MapTypes ==
  /\ pending \in [Tags -> Calls \cup {Nil}] /\ oneshot \in [Calls -> Outcomes]
  /\ rpc \in {"top", "read", "dispatch", "reinsert", "leaving", "done"}
  /\ held \in Calls \cup {Nil}

QueueTypes ==
  /\ rx_q \in Seq(Nat) /\ async_q \in Seq(Nat) /\ rx_got \in Seq(Nat) /\ err_got \in Seq(Nat)
  /\ rx_lock \in Receivers \cup {Nil}
  /\ rcv \in [Receivers -> {"idle", "lock", "recv", "some", "none"}]

WireTypes ==
  /\ works \in Seq(Replies \cup Asyncs) /\ toHost \in Seq(Replies \cup Asyncs)
  /\ toDev \in Seq(CmdFrames \cup {Garbled})
  /\ accepted \in SUBSET CmdFrames /\ airing \in SUBSET CmdFrames
  /\ async_sent \in Seq(Asyncs) /\ served \in SUBSET Calls

TypeOK == FlagTypes /\ TagTypes /\ CallTypes /\ MapTypes /\ QueueTypes /\ WireTypes

(****************************************************************************)
(* Session::spawn                                                           *)
(****************************************************************************)

Init ==
  /\ next_tag = 1 /\ tag = [c \in Calls |-> 0]
  /\ issued = 0 /\ serial = [c \in Calls |-> 0]
  /\ pending = [t \in Tags |-> Nil]
  /\ writer = Nil
  /\ closed = FALSE /\ close_pc = "idle" /\ aborted = FALSE /\ at_close = {}
  /\ pc = [c \in Calls |-> "idle"]
  /\ cmd \in [Calls -> CmdTypes]
  /\ oneshot = [c \in Calls |-> Plain("none")] /\ result = [c \in Calls |-> Plain("none")]
  /\ rpc = "top" /\ works = <<>> /\ held = Nil
  /\ rx_q = <<>> /\ async_q = <<>> /\ rx_got = <<>> /\ err_got = <<>>
  /\ rx_lock = Nil /\ rcv = [r \in Receivers |-> "idle"]
  /\ toDev = <<>> /\ toHost = <<>> /\ link = TRUE /\ torn = FALSE
  /\ accepted = {} /\ airing = {} /\ async_sent = <<>> /\ served = {}

(****************************************************************************)
(* send_command                                                             *)
(****************************************************************************)

\* u16::wrapping_add(1), for a counter whose largest value is MaxTag.
wrapping_inc(t) == IF t = MaxTag THEN 0 ELSE t + 1

\* Mutant of next_tag_after: the counter never moves.
next_tag_stuck(t) == t

\* alloc_tag's update of next_tag: zero is never handed out.
next_tag_after(t) == IF wrapping_inc(t) = 0 THEN 1 ELSE wrapping_inc(t)

alloc_tag(c) ==
  /\ tag' = [tag EXCEPT ![c] = next_tag]
  /\ next_tag' = next_tag_after(next_tag)
  /\ issued' = issued + 1
  /\ serial' = [serial EXCEPT ![c] = issued + 1]

\* send_command returns k, which no frame decided.
Return(c, k) ==
  /\ pc' = [pc EXCEPT ![c] = "done"]
  /\ result' = [result EXCEPT ![c] = Plain(k)]

Goto(c, l) == pc' = [pc EXCEPT ![c] = l]

\* Mutant of SendCommand: the closed flag is not asked.
SendCommandUnchecked(c) ==
  /\ pc[c] = "idle"
  /\ alloc_tag(c) /\ Goto(c, "insert")
  /\ UNCHANGED <<cmd, result, closeVars, rdrVars, queueVars, rcvVars, wireVars, devVars,
                 pending, writer, oneshot>>

SendCommand(c) ==
  /\ pc[c] = "idle" /\ ~closed
  /\ alloc_tag(c) /\ Goto(c, "insert")
  /\ UNCHANGED <<cmd, result, closeVars, rdrVars, queueVars, rcvVars, wireVars, devVars,
                 pending, writer, oneshot>>

SendCommandClosed(c) ==
  /\ pc[c] = "idle" /\ closed
  /\ Return(c, "Closed")
  /\ UNCHANGED <<cmd, tagVars, closeVars, rdrVars, queueVars, rcvVars, wireVars, devVars,
                 pending, writer, oneshot>>

\* transmit refuses an empty packet before send_command.
TransmitEmpty(c) ==
  /\ pc[c] = "idle" /\ cmd[c] = "TX"
  /\ Return(c, "Length")
  /\ UNCHANGED <<cmd, tagVars, closeVars, rdrVars, queueVars, rcvVars, wireVars, devVars,
                 pending, writer, oneshot>>

\* HashMap::insert drops the entry it replaces, and with it the entry's waker.
InsertPending(c) ==
  /\ pc[c] = "insert"
  /\ pending' = [pending EXCEPT ![tag[c]] = c]
  /\ oneshot' = [DropWakers({pending[tag[c]]}) EXCEPT ![c] = Plain("open")]
  /\ Goto(c, "lock")
  /\ UNCHANGED <<cmd, result, tagVars, closeVars, rdrVars, queueVars, rcvVars, wireVars,
                 devVars, writer>>

LockWriter(c) ==
  /\ pc[c] = "lock" /\ writer = Nil
  /\ writer' = c /\ Goto(c, "write")
  /\ UNCHANGED <<cmd, result, tagVars, closeVars, rdrVars, queueVars, rcvVars, wireVars,
                 devVars, pending, oneshot>>

\* write_all and flush return once the transport took the bytes.  A frame that
\* follows the rest of an abandoned one is decoded together with it, and fails.
\* A write may still succeed, and go nowhere, once the link is down.
WriteFrame(c) ==
  /\ pc[c] = "write"
  /\ \/ /\ link /\ Len(toDev) < WireCap
        /\ toDev' = Append(toDev, IF torn THEN Garbled
                                  ELSE [cmd |-> cmd[c], tag |-> tag[c], of |-> c])
        /\ torn' = FALSE
     \/ ~link /\ UNCHANGED <<toDev, torn>>
  /\ writer' = Nil /\ Goto(c, "wait")
  /\ UNCHANGED <<cmd, result, tagVars, closeVars, rdrVars, queueVars, rcvVars, toHost, link,
                 devVars, pending, oneshot>>

WriteFails(c) ==
  /\ pc[c] = "write" /\ ~link
  /\ writer' = Nil /\ Goto(c, "remove")
  /\ result' = [result EXCEPT ![c] = Plain("Io")]
  /\ UNCHANGED <<cmd, tagVars, closeVars, rdrVars, queueVars, rcvVars, wireVars, devVars,
                 pending, oneshot>>

\* The receiver is gone: later sends on the waker find nobody.
Hangup(c) == oneshot' = [oneshot EXCEPT ![c] = Plain("none")]

\* timeout(.., rx) polls the channel before the clock, so an answer that is
\* there wins.
Resolved(c) ==
  /\ pc[c] = "wait" /\ oneshot[c].kind \notin {"open", "dropped"}
  /\ Goto(c, "done") /\ Hangup(c)
  /\ result' = [result EXCEPT ![c] = [oneshot[c] EXCEPT !.kind = Outcome(cmd[c], @)]]
  /\ UNCHANGED <<cmd, tagVars, closeVars, rdrVars, queueVars, rcvVars, wireVars, devVars,
                 pending, writer>>

SenderDropped(c) ==
  /\ pc[c] = "wait" /\ oneshot[c].kind = "dropped"
  /\ Goto(c, "remove") /\ Hangup(c)
  /\ result' = [result EXCEPT ![c] = Plain("ReaderExited")]
  /\ UNCHANGED <<cmd, tagVars, closeVars, rdrVars, queueVars, rcvVars, wireVars, devVars,
                 pending, writer>>

\* Mutant of Timeout: the wait has no deadline.
NoTimeout(c) == FALSE

\* Mutant of Timeout: the two error arms are swapped.
TimeoutAsExit(c) ==
  /\ pc[c] = "wait" /\ oneshot[c].kind = "open"
  /\ Goto(c, "remove") /\ Hangup(c)
  /\ result' = [result EXCEPT ![c] = Plain("ReaderExited")]
  /\ UNCHANGED <<cmd, tagVars, closeVars, rdrVars, queueVars, rcvVars, wireVars, devVars,
                 pending, writer>>

Timeout(c) ==
  /\ pc[c] = "wait" /\ oneshot[c].kind = "open"
  /\ Goto(c, "remove") /\ Hangup(c)
  /\ result' = [result EXCEPT ![c] = Plain("Timeout")]
  /\ UNCHANGED <<cmd, tagVars, closeVars, rdrVars, queueVars, rcvVars, wireVars, devVars,
                 pending, writer>>

\* Mutant of RemovePending: the error arms return without cleaning up.
RemoveNothing(c) ==
  /\ pc[c] = "remove" /\ Goto(c, "done")
  /\ UNCHANGED <<cmd, result, tagVars, closeVars, rdrVars, queueVars, rcvVars, wireVars,
                 devVars, pending, writer, oneshot>>

\* The three error arms remove the entry under the tag, whoever's it is.
RemovePending(c) ==
  /\ pc[c] = "remove"
  /\ pending' = [pending EXCEPT ![tag[c]] = Nil]
  /\ oneshot' = DropWakers({pending[tag[c]]})
  /\ Goto(c, "done")
  /\ UNCHANGED <<cmd, result, tagVars, closeVars, rdrVars, queueVars, rcvVars, wireVars,
                 devVars, writer>>

\* The caller drops the future at an await (select!, an abort, Dongle::close for
\* the keepalive's ping).  Nothing cleans up: the entry stays in the map, and a
\* write that was under way may have put part of the frame on the wire.
Cancel(c) ==
  /\ "cancel" \in Env
  /\ pc[c] \in {"insert", "lock", "write", "wait", "remove"}
  /\ Goto(c, "cancelled") /\ Hangup(c)
  /\ result' = [result EXCEPT ![c] = Plain("none")]
  /\ writer' = IF pc[c] = "write" THEN Nil ELSE writer
  /\ \/ pc[c] = "write" /\ torn' = TRUE
     \/ UNCHANGED torn
  /\ UNCHANGED <<cmd, tagVars, closeVars, rdrVars, queueVars, rcvVars, toDev, toHost, link,
                 devVars, pending>>

(****************************************************************************)
(* reader_loop and dispatch                                                 *)
(****************************************************************************)

ReaderTop ==
  /\ rpc = "top"
  /\ rpc' = IF closed THEN "leaving" ELSE "read"
  /\ UNCHANGED <<works, held, tagVars, callVars, closeVars, queueVars, rcvVars, wireVars,
                 devVars, pending, writer, oneshot>>

\* Mutant of Unread: a decoder made anew for each read forgets a frame in progress.
UnreadForgetful(n) == SubSeq(toHost, n + 2, Len(toHost))

\* What feed() has not seen of the inbound bytes after a read of n frames.
Unread(n) == SubSeq(toHost, n + 1, Len(toHost))

\* One read returns some of the bytes that have arrived; feed() makes frames of
\* them.  A read that completes no frame changes nothing here.
ReaderRead ==
  /\ rpc = "read"
  /\ \E n \in 1 .. Len(toHost) :
       /\ works' = SubSeq(toHost, 1, n)
       /\ toHost' = Unread(n)
  /\ rpc' = "dispatch"
  /\ UNCHANGED <<held, tagVars, callVars, closeVars, queueVars, rcvVars, toDev, link, torn,
                 devVars, pending, writer, oneshot>>

\* Ok(0) or Err(_).
ReaderEof ==
  /\ rpc = "read" /\ ~link
  /\ rpc' = "leaving"
  /\ UNCHANGED <<works, held, tagVars, callVars, closeVars, queueVars, rcvVars, wireVars,
                 devVars, pending, writer, oneshot>>

\* The next work item, and what is left to do after it.
Dispatching == rpc = "dispatch" /\ works # <<>>
Dispatched  == works' = Tail(works) /\ rpc' = IF Len(works) = 1 THEN "top" ELSE "dispatch"

\* Frames of tag 0 and undecodable ones: where they go.
IsRx(f)       == f.tag = 0 /\ f.type = "RX" /\ f.body = "Rx"
IsAsyncErr(f) == f.tag = 0 /\ (f.type \in {"GARBLED", "ERR"} \/ (f.type = "RX" /\ f.body # "Rx"))

DispatchAsync ==
  /\ Dispatching /\ Head(works).tag = 0
  /\ rx_q'    = IF IsRx(Head(works)) THEN Append(rx_q, Head(works).of) ELSE rx_q
  /\ async_q' = IF IsAsyncErr(Head(works)) THEN Append(async_q, Head(works).of) ELSE async_q
  /\ Dispatched
  /\ UNCHANGED <<held, err_got, tagVars, callVars, closeVars, rcvVars, wireVars, devVars,
                 pending, writer, oneshot>>

DispatchUnknown ==
  /\ Dispatching /\ Head(works).tag # 0
  /\ pending[Head(works).tag] = Nil
  /\ Dispatched
  /\ UNCHANGED <<held, tagVars, callVars, closeVars, queueVars, rcvVars, wireVars, devVars,
                 pending, writer, oneshot>>

\* Mutant of IsTxAck: the first OK completes a TX as it does the other commands.
TxAckCompletes(c, f) == FALSE

\* The intermediate OK of a TX: the entry is out of the map until Reinsert.
IsTxAck(c, f) == cmd[c] = "TX" /\ f.type = "OK"

DispatchTxAck ==
  /\ Dispatching /\ Head(works).tag # 0
  /\ LET t == Head(works).tag IN
     /\ pending[t] # Nil /\ IsTxAck(pending[t], Head(works))
     /\ held' = pending[t]
     /\ pending' = [pending EXCEPT ![t] = Nil]
  /\ rpc' = "reinsert"
  /\ UNCHANGED <<works, tagVars, callVars, closeVars, queueVars, rcvVars, wireVars, devVars,
                 writer, oneshot>>

\* Mutant of Reinsert: the entry is not put back, and its waker is dropped.
ReinsertForgotten ==
  /\ rpc = "reinsert"
  /\ oneshot' = DropWakers({held})
  /\ held' = Nil /\ Dispatched
  /\ UNCHANGED <<tagVars, callVars, closeVars, queueVars, rcvVars, wireVars, devVars, pending,
                 writer>>

Reinsert ==
  /\ rpc = "reinsert"
  /\ LET t == Head(works).tag IN
     /\ pending' = [pending EXCEPT ![t] = held]
     /\ oneshot' = DropWakers({pending[t]})
  /\ held' = Nil /\ Dispatched
  /\ UNCHANGED <<tagVars, callVars, closeVars, queueVars, rcvVars, wireVars, devVars, writer>>

DispatchResolve ==
  /\ Dispatching /\ Head(works).tag # 0
  /\ LET f == Head(works)
         c == pending[f.tag] IN
     /\ c # Nil /\ ~IsTxAck(c, f)
     /\ pending' = [pending EXCEPT ![f.tag] = Nil]
     /\ oneshot' = IF oneshot[c].kind = "open"
                   THEN [oneshot EXCEPT ![c] = [kind |-> Response(cmd[c], f), of |-> f.of]]
                   ELSE oneshot
  /\ Dispatched
  /\ UNCHANGED <<held, tagVars, callVars, closeVars, queueVars, rcvVars, wireVars, devVars,
                 writer>>

ReaderLeave ==
  /\ rpc = "leaving"
  /\ pending' = [t \in Tags |-> Nil]
  /\ oneshot' = WakeClosed(InMap)
  /\ rpc' = "done"
  /\ UNCHANGED <<works, held, tagVars, callVars, closeVars, queueVars, rcvVars, wireVars,
                 devVars, writer>>

\* abort() takes effect where the task is suspended: the read, or a wait for the
\* pending mutex.  What the task owns is dropped, a waker in hand included.
ReaderAbort ==
  /\ aborted
  /\ \/ rpc \in {"read", "reinsert", "leaving"}
     \/ Dispatching /\ Head(works).tag # 0
  /\ oneshot' = DropWakers({held})
  /\ held' = Nil /\ works' = <<>> /\ rpc' = "done"
  /\ UNCHANGED <<tagVars, callVars, closeVars, queueVars, rcvVars, wireVars, devVars,
                 pending, writer>>

(****************************************************************************)
(* close (Dongle::close calls it at most once)                              *)
(****************************************************************************)

Waiting == {c \in Calls : pc[c] = "wait" /\ oneshot[c].kind = "open"}

CloseFlag ==
  /\ "close" \in Env /\ close_pc = "idle"
  /\ closed' = TRUE /\ close_pc' = "take" /\ at_close' = Waiting
  /\ UNCHANGED <<aborted, tagVars, callVars, rdrVars, queueVars, rcvVars, wireVars, devVars,
                 pending, writer, oneshot>>

\* Mutant of CloseTake: waking the callers is left to the reader's own exit.
CloseLeavesMap ==
  /\ close_pc = "take" /\ close_pc' = "abort"
  /\ UNCHANGED <<closed, aborted, at_close, tagVars, callVars, rdrVars, queueVars, rcvVars,
                 wireVars, devVars, pending, writer, oneshot>>

CloseTake ==
  /\ close_pc = "take" /\ close_pc' = "abort"
  /\ pending' = [t \in Tags |-> Nil]
  /\ oneshot' = WakeClosed(InMap)
  /\ UNCHANGED <<closed, aborted, at_close, tagVars, callVars, rdrVars, queueVars, rcvVars,
                 wireVars, devVars, writer>>

\* Mutant of CloseAbort: the reader is left to notice the flag by itself.
CloseNoAbort ==
  /\ close_pc = "abort" /\ close_pc' = "done"
  /\ UNCHANGED <<closed, aborted, at_close, tagVars, callVars, rdrVars, queueVars, rcvVars,
                 wireVars, devVars, pending, writer, oneshot>>

CloseAbort ==
  /\ close_pc = "abort" /\ close_pc' = "done"
  /\ aborted' = TRUE
  /\ UNCHANGED <<closed, at_close, tagVars, callVars, rdrVars, queueVars, rcvVars, wireVars,
                 devVars, pending, writer, oneshot>>

(****************************************************************************)
(* recv_rx, next_rx, drain_async_errors                                     *)
(****************************************************************************)

RxCall(r) ==
  /\ rcv[r] = "idle" /\ rcv' = [rcv EXCEPT ![r] = "lock"]
  /\ UNCHANGED <<rx_lock, rx_got, tagVars, callVars, closeVars, rdrVars, queueVars, wireVars,
                 devVars, pending, writer, oneshot>>

RxLock(r) ==
  /\ rcv[r] = "lock" /\ rx_lock = Nil
  /\ rx_lock' = r /\ rcv' = [rcv EXCEPT ![r] = "recv"]
  /\ UNCHANGED <<rx_got, tagVars, callVars, closeVars, rdrVars, queueVars, wireVars, devVars,
                 pending, writer, oneshot>>

RxTake(r) ==
  /\ rcv[r] = "recv" /\ rx_q # <<>>
  /\ rx_got' = Append(rx_got, Head(rx_q)) /\ rx_q' = Tail(rx_q)
  /\ rx_lock' = Nil /\ rcv' = [rcv EXCEPT ![r] = "some"]
  /\ UNCHANGED <<async_q, err_got, tagVars, callVars, closeVars, rdrVars, wireVars, devVars,
                 pending, writer, oneshot>>

\* Mutant of RxNone: recv_rx has no deadline.
RxNoneClosed(r) ==
  /\ rcv[r] = "recv" /\ rx_q = <<>> /\ rpc = "done"
  /\ rcv' = [rcv EXCEPT ![r] = "none"] /\ rx_lock' = Nil
  /\ UNCHANGED <<rx_got, tagVars, callVars, closeVars, rdrVars, queueVars, wireVars, devVars,
                 pending, writer, oneshot>>

\* None: the channel is empty and its only sender, the reader's, is gone; or the
\* timeout of recv_rx, which starts once the mutex is held.
RxNone(r) ==
  /\ rcv[r] = "recv" /\ rx_q = <<>> /\ (rpc = "done" \/ r \in Recvs)
  /\ rcv' = [rcv EXCEPT ![r] = "none"] /\ rx_lock' = Nil
  /\ UNCHANGED <<rx_got, tagVars, callVars, closeVars, rdrVars, queueVars, wireVars, devVars,
                 pending, writer, oneshot>>

\* The future is dropped while it waits; a mutex it holds is released.
RxCancel(r) ==
  /\ "cancel" \in Env /\ rcv[r] \in {"lock", "recv"}
  /\ rcv' = [rcv EXCEPT ![r] = "none"]
  /\ rx_lock' = IF rx_lock = r THEN Nil ELSE rx_lock
  /\ UNCHANGED <<rx_got, tagVars, callVars, closeVars, rdrVars, queueVars, wireVars, devVars,
                 pending, writer, oneshot>>

DrainAsyncErrors ==
  /\ async_q # <<>>
  /\ err_got' = err_got \o async_q /\ async_q' = <<>>
  /\ UNCHANGED <<rx_q, tagVars, callVars, closeVars, rdrVars, rcvVars, wireVars, devVars,
                 pending, writer, oneshot>>

(****************************************************************************)
(* The device and the wire                                                  *)
(****************************************************************************)

DevRead ==
  /\ link /\ toDev # <<>>
  /\ toDev' = Tail(toDev)
  /\ accepted' = IF Head(toDev).cmd = "Garbled" THEN accepted ELSE accepted \cup {Head(toDev)}
  /\ UNCHANGED <<toHost, link, torn, airing, async_sent, served, tagVars, callVars, closeVars,
                 rdrVars, queueVars, rcvVars, pending, writer, oneshot>>

SendAsync(a) ==
  /\ Len(async_sent) < MaxAsync
  /\ async_sent' = Append(async_sent, a) /\ toHost' = Append(toHost, a)

\* A reply f leaves the device: it arrives, or is lost, or arrives corrupted.
SendReply(f) ==
  \/ toHost' = Append(toHost, f) /\ UNCHANGED async_sent
  \/ "lost" \in Env /\ UNCHANGED <<toHost, async_sent>>
  \/ "garble" \in Env /\ SendAsync(Async(Len(async_sent) + 1, "GARBLED", f.body))
  \/ /\ "malformed" \in Env
     /\ \E t \in {f.type, "OTHER"} : toHost' = Append(toHost, [f EXCEPT !.type = t, !.body = "Malformed"])
     /\ UNCHANGED async_sent

\* The first answer: OK, once the command is carried out (a TX only starts), or ERR.
DevAnswer ==
  /\ link
  /\ \E f \in accepted :
       /\ accepted' = accepted \ {f}
       /\ \/ /\ SendReply(Reply(f, "OK", OkKind(f.cmd)))
             /\ airing' = IF f.cmd = "TX" THEN airing \cup {f} ELSE airing
             /\ served' = IF f.cmd = "TX" THEN served ELSE served \cup {f.of}
          \/ SendReply(Reply(f, "ERR", "Code")) /\ UNCHANGED <<airing, served>>
  /\ UNCHANGED <<toDev, link, torn, tagVars, callVars, closeVars, rdrVars, queueVars, rcvVars,
                 pending, writer, oneshot>>

DevTxDone ==
  /\ link
  /\ \E f \in airing, r \in TxResults :
       /\ airing' = airing \ {f}
       /\ SendReply(Reply(f, "TX_DONE", r))
       /\ served' = IF r = "Transmitted" THEN served \cup {f.of} ELSE served
  /\ UNCHANGED <<accepted, toDev, link, torn, tagVars, callVars, closeVars, rdrVars, queueVars,
                 rcvVars, pending, writer, oneshot>>

DevAsync ==
  /\ link /\ "event" \in Env
  /\ \E t \in {"RX", "ERR", "OTHER"} \cup IF "garble" \in Env THEN {"GARBLED"} ELSE {} :
       SendAsync(Async(Len(async_sent) + 1, t, IF t = "RX" THEN "Rx" ELSE "Code"))
  /\ UNCHANGED <<accepted, airing, served, toDev, link, torn, tagVars, callVars, closeVars,
                 rdrVars, queueVars, rcvVars, pending, writer, oneshot>>

DevAsyncMalformed ==
  /\ link /\ {"event", "malformed"} \subseteq Env
  /\ \E t \in {"RX", "ERR"} : SendAsync(Async(Len(async_sent) + 1, t, "Malformed"))
  /\ UNCHANGED <<accepted, airing, served, toDev, link, torn, tagVars, callVars, closeVars,
                 rdrVars, queueVars, rcvVars, pending, writer, oneshot>>

LinkDown ==
  /\ "link" \in Env /\ link /\ link' = FALSE
  /\ UNCHANGED <<toDev, toHost, torn, tagVars, callVars, closeVars, rdrVars, queueVars, rcvVars,
                 devVars, pending, writer, oneshot>>

(****************************************************************************)
(* The specification                                                        *)
(****************************************************************************)

\* What send_command does once called, apart from its caller's choices.
CallStep(c) ==
  \/ InsertPending(c) \/ LockWriter(c) \/ WriteFrame(c) \/ WriteFails(c)
  \/ Resolved(c) \/ SenderDropped(c) \/ Timeout(c) \/ RemovePending(c)

CallNext(c) == SendCommand(c) \/ SendCommandClosed(c) \/ TransmitEmpty(c) \/ CallStep(c) \/ Cancel(c)

ReaderNext ==
  \/ ReaderTop \/ ReaderRead \/ ReaderEof
  \/ DispatchAsync \/ DispatchUnknown \/ DispatchTxAck \/ Reinsert \/ DispatchResolve
  \/ ReaderLeave \/ ReaderAbort

CloseNext == CloseFlag \/ CloseTake \/ CloseAbort

RxStep(r) == RxLock(r) \/ RxTake(r) \/ RxNone(r)

DevNext == DevRead \/ DevAnswer \/ DevTxDone \/ DevAsync \/ DevAsyncMalformed \/ LinkDown

Next ==
  \/ \E c \in Calls : CallNext(c)
  \/ ReaderNext
  \/ CloseNext
  \/ \E r \in Receivers : RxCall(r) \/ RxStep(r) \/ RxCancel(r)
  \/ DrainAsyncErrors
  \/ DevNext

Spec == Init /\ [][Next]_vars

\* The runtime polls every task that can make progress, and timers fire.  Nobody
\* is obliged to call, cancel or close, and the device owes nothing.
Fairness ==
  /\ \A c \in Calls : WF_vars(CallStep(c))
  /\ WF_vars(ReaderNext)
  /\ WF_vars(CloseTake \/ CloseAbort)
  /\ \A r \in Receivers : WF_vars(RxStep(r))

FairSpec == Spec /\ Fairness

\* The same, with a device that goes on reading what it is sent.
DrainedSpec == FairSpec /\ WF_vars(DevRead)

(****************************************************************************)
(* Properties                                                               *)
(****************************************************************************)

\* Tags repeat every MaxTag allocations.
FarApart(c, d) == serial[c] - serial[d] >= MaxTag \/ serial[d] - serial[c] >= MaxTag

SharesTag(c) == \E d \in Calls \ {c} : tag[d] = tag[c] /\ FarApart(c, d)

\* send_command with dispatch: the frame that decided a call was sent by the
\* device in answer to that very call, however late, reordered or lost the
\* answers to other calls (timed out and cancelled ones included) are.  Two calls
\* can only be confused when a whole cycle of alloc_tag lies between them.
Correlated ==
  \A c \in Calls : result[c].of \notin {Nil, c} => FarApart(c, result[c].of)

\* The two-phase completion of TX and the typed helpers: a call that returned Ok
\* was carried out by the device (a TX was on the air, not just acknowledged), and
\* an answer to the call itself is never of a kind the helper does not expect.
OkMeansServed ==
  \A c \in Calls :
    /\ result[c].kind = "Ok" => c \in served \/ SharesTag(c)
    /\ result[c].kind = "Unexpected" => SharesTag(c)

\* The Ok(Err(_)) arm of send_command: ReaderExited is only returned when the
\* reader task is gone, or when another call a cycle of tags away displaced the
\* entry of this one.
ReaderExitedHonest ==
  \A c \in Calls : result[c].kind = "ReaderExited" => rpc = "done" \/ SharesTag(c)

\* Every arm of send_command leaves no entry behind: an entry in the map, or in
\* dispatch's hand, belongs to a call still under way or to one whose future was
\* dropped.  Not so for TX: a timeout between DispatchTxAck and Reinsert finds
\* nothing to remove, and the entry comes back.
NoSlotLeak ==
  \A c \in Calls : c \in InMap \/ held = c => pc[c] # "done" \/ cmd[c] = "TX"

\* close: "Wakes any pending commands with TransportClosed".  When both close and
\* the reader are through, no command that was waiting when close began still waits
\* or has seen its waker dropped, whoever took its entry out of the map: close, the
\* reader on its way out, or an answer.  Not so for a TX, whose entry dispatch may
\* have in hand when the task is aborted, nor for a call that shared its tag.
CloseWakesPending ==
  close_pc = "done" /\ rpc = "done" =>
    \A c \in at_close : oneshot[c].kind \in {"open", "dropped"} => cmd[c] = "TX" \/ SharesTag(c)

\* got, followed by what Q selects of the frames inbound, is exactly what Q selects of
\* async_sent, in order; once the reader has stopped, got is a beginning of it.  The
\* frames of async_sent are numbered in the order they were sent.
InOrder(got, Q(_)) ==
  LET inbound == works \o toHost
      sent    == {n \in DOMAIN async_sent : Q(async_sent[n])}
      coming  == {k \in DOMAIN inbound : Q(inbound[k])}
  IN /\ \A i \in DOMAIN got : got[i] \in sent
     /\ \A k \in coming : inbound[k].of \in sent
     /\ \A i, j \in DOMAIN got : i < j => got[i] < got[j]
     /\ \A i, j \in coming : i < j => inbound[i].of < inbound[j].of
     /\ \A i \in DOMAIN got, k \in coming : got[i] < inbound[k].of
     /\ \A n \in sent : \/ \E i \in DOMAIN got : got[i] = n
                        \/ /\ \A i \in DOMAIN got : got[i] < n
                           /\ rpc # "done" => \E k \in coming : inbound[k].of = n

\* reader_loop, dispatch, recv_rx, next_rx and drain_async_errors: what has been
\* handed out, what is queued and what is still in the reader's hands and on the
\* wire is, in that order, exactly what the device sent: no event is lost,
\* duplicated, reordered or put in the wrong queue, through any mix of receivers,
\* timeouts and dropped futures.  Once the reader stops, a prefix of it.
EventsExact == InOrder(rx_got \o rx_q, IsRx) /\ InOrder(err_got \o async_q, IsAsyncErr)

\* send_command's timeout: a call that was begun returns (or its future is
\* dropped), whatever is lost, as long as the device drains the transport.
EveryCallReturns ==
  \A c \in Calls : pc[c] = "insert" ~> pc[c] \in {"done", "cancelled"}

\* recv_rx's timeout: a receiver that was called returns, or a next_rx is what it
\* waits for.
EveryRecvReturns ==
  \A r \in Recvs : rcv[r] = "lock" ~> rcv[r] \in {"some", "none"} \/ rx_lock \in Nexts

\* close with next_rx: a listener without a timeout is released once the session
\* is closed, since the reader's end of the channel goes away.
CloseEndsListeners ==
  \A r \in Nexts : close_pc = "done" /\ rcv[r] \in {"lock", "recv"} ~> rcv[r] \in {"some", "none"}

(****************************************************************************)
(* The service the session provides                                         *)
(****************************************************************************)

Phase(c) == IF pc[c] \in {"idle", "done", "cancelled"} THEN pc[c] ELSE "open"

Service ==
  INSTANCE CommandService WITH
    Window  <- MaxTag,
    phase   <- [c \in Calls |-> Phase(c)],
    outcome <- [c \in Calls |-> IF pc[c] = "done" THEN result[c].kind ELSE "none"],
    place   <- serial,
    count   <- issued,
    carried <- served,
    shut    <- closed,
    down    <- ~link

\* send_command, dispatch, reader_loop and close together implement CommandService:
\* every call returns at most once and its result stands; Ok only for a command the
\* device carried out; TransportClosed, Io and ReaderExited only when the session was
\* closed or the transport is gone; nothing is issued once the session is closed.
IsService == Service!Spec

(****************************************************************************)
(* What the repository says and the code does not keep                      *)
(****************************************************************************)

\* close: "so no caller hangs forever".
NobodyHangsAfterClose ==
  \A c \in Calls : close_pc = "done" /\ pc[c] \notin {"idle", "done", "cancelled"}
                     ~> pc[c] \in {"done", "cancelled"}

=============================================================================
