------------------------ MODULE SessionServiceProofs ------------------------
(****************************************************************************)
(* Session implements CommandService, and the safety properties of Session  *)
(* that speak of what a call returns and of what becomes of its waker: for  *)
(* every set of calls, every largest tag and every environment.             *)
(****************************************************************************)
EXTENDS SessionProofs

(****************************************************************************)
(* The inductive invariant, on top of IInv                                  *)
(****************************************************************************)

\* A call in one of these waits on its oneshot channel, or will.
Listening == {"lock", "write", "wait"}

\* The command in a frame is the command of its call.
TrueCmds == {f \in GoodCmds : f.cmd = cmd[f.of]}

\* An OK says that the command was carried out, or that a TX was begun; a TX_DONE
\* how that went.
TrueReply(f) ==
  /\ f.type = "OK" => /\ f.body \in {OkKind(cmd[f.of]), "Malformed"}
                      /\ cmd[f.of] # "TX" => f.of \in served
  /\ f.type = "TX_DONE" => /\ f.body \in TxResults \cup {"Malformed"} /\ cmd[f.of] = "TX"
                           /\ f.body = "Transmitted" => f.of \in served

TrueReplies == {f \in GoodReplies : TrueReply(f)}

TruthInv ==
  /\ toDev \in Seq(TrueCmds \cup {Garbled})
  /\ accepted \subseteq TrueCmds /\ airing \subseteq {f \in TrueCmds : f.cmd = "TX"}
  /\ toHost \in Seq(TrueReplies \cup Asyncs) /\ works \in Seq(TrueReplies \cup Asyncs)

\* A result k of call c that the answer to c itself decided.
Earned(c, k) == k # "Unexpected" /\ (k = "Ok" => c \in served)

\* close() was called, or the transport is gone; close() was called, and the reader
\* task is gone.
Gone  == closed \/ ~link
Ended == closed /\ rpc = "done"

\* What a channel holds: a state of the channel, or a response.
ChannelInv ==
  \A c \in Calls :
    /\ oneshot[c].of = Nil => oneshot[c].kind \in {"none", "open", "dropped", "Closed"}
    /\ oneshot[c].of # Nil =>
         oneshot[c].kind \in {"Empty", "Info", "SetConfig", "WireErr", "BadFrame"} \cup TxResults
    /\ oneshot[c].of = c => Earned(c, Outcome(cmd[c], oneshot[c].kind))
    /\ oneshot[c].kind = "Closed" => Gone

\* The calls that another one, a cycle of tags away, can be taken for.
Sharers == {c \in Calls : SharesTag(c)}

\* What a call may return, or be about to return once it has removed its entry.
ResultFits(c, r) ==
  /\ r.of = Nil => r.kind \in {"none", "Closed", "Length", "Io", "ReaderExited", "Timeout"}
  /\ r.of # Nil => r.kind \in {"Ok", "Unexpected", "WireErr", "BadFrame"} \cup TxResults
  /\ r.of = c => Earned(c, r.kind)
  /\ r.kind = "Closed" => Gone
  /\ r.kind = "Io" => ~link
  /\ r.kind = "ReaderExited" => c \in Sharers \/ Ended

ResultInv ==
  \A c \in Calls :
    /\ ResultFits(c, result[c])
    /\ pc[c] = "remove" => result[c].kind \in {"Io", "ReaderExited", "Timeout"}

\* A waker is in the map or in dispatch's hand for as long as its channel is open, and
\* a call that listens learns when it is not.  Only a TX comes back into the map.
LifeInv ==
  \A c \in Calls :
    /\ pc[c] \in {"idle", "insert"} => oneshot[c].kind = "none" /\ c \notin InMap /\ held # c
    /\ pc[c] \in Listening => /\ oneshot[c].kind # "none"
                              /\ oneshot[c].kind = "open" <=> c \in InMap \/ held = c
                              /\ oneshot[c].kind = "dropped" =>
                                   c \in Sharers \/ (cmd[c] = "TX" /\ Ended)
    /\ held = c => cmd[c] = "TX" /\ rpc = "reinsert" /\ c \notin InMap
    /\ c \in InMap /\ pc[c] = "done" => cmd[c] = "TX"

\* How far close() is, and what is left of the calls that waited when it began.
CloseInv ==
  /\ closed <=> close_pc # "idle"
  /\ aborted => close_pc = "done"
  /\ rpc = "leaving" => Gone
  /\ \A c \in at_close :
       /\ closed /\ pc[c] \in {"wait", "remove", "done", "cancelled"}
       /\ pc[c] # "wait" => oneshot[c].kind = "none"
       /\ close_pc \in {"abort", "done"} /\ c \in InMap => cmd[c] = "TX"

SInv == IInv /\ TruthInv /\ ChannelInv /\ ResultInv /\ LifeInv /\ CloseInv

(****************************************************************************)
(* What any step keeps                                                      *)
(****************************************************************************)

USE DEF tagVars, callVars, closeVars, rdrVars, queueVars, rcvVars, wireVars, devVars

\* The command of a call does not change, and what was carried out stays so.
LEMMA ServedKept ==
  ASSUME [Next]_vars
  PROVE  cmd' = cmd /\ served \subseteq served'
<1>1. CASE DevNext
  <2>1. served' = served \/ \E S : served' = served \cup S
    <3>1. CASE DevAnswer
      BY <3>1 DEF DevAnswer
    <3>2. CASE DevTxDone
      BY <3>2 DEF DevTxDone
    <3> QED
      BY <1>1, <3>1, <3>2, Zenon DEF DevNext, DevRead, DevAsync, DevAsyncMalformed, LinkDown
  <2> QED
    BY <1>1, <2>1, DevLeaves
<1>2. CASE UNCHANGED vars
  BY <1>2 DEF vars
<1> QED
  BY <1>1, <1>2, Components, CallLeaves, ReaderLeaves, CloseLeaves, RecvLeaves

\* Two calls with one tag can be taken for each other.
LEMMA OneTagShared ==
  ASSUME IInv, NEW c \in Calls, NEW d \in Calls, c # d, tag[c] = tag[d], tag[c] # 0
  PROVE  c \in Sharers /\ d \in Sharers
<1>1. serial[c] > 0 /\ serial[d] > 0
  BY DEF IInv, SerialInv, TypeOK, TagTypes
<1>2. FarApart(c, d) /\ FarApart(d, c)
  BY <1>1 DEF IInv, PairInv
<1> QED
  BY <1>2 DEF Sharers, SharesTag

\* And that does not change: tags stay.
LEMMA SharersKept ==
  ASSUME IInv, [Next]_vars
  PROVE  Sharers \subseteq Sharers'
<1>1. SUFFICES ASSUME NEW c \in Calls, NEW d \in Calls, c # d, tag[c] = tag[d], FarApart(c, d)
               PROVE  tag'[c] = tag'[d] /\ FarApart(c, d)'
  BY DEF Sharers, SharesTag
<1>2. serial[c] > 0 /\ serial[d] > 0
  BY <1>1, TagAssumption DEF FarApart, IInv, SerialInv, TypeOK, TagTypes
<1> QED
  BY <1>1, <1>2, TagsKept DEF FarApart

\* True frames stay true.
LEMMA TruthKept ==
  ASSUME IInv, [Next]_vars
  PROVE  TrueCmds \subseteq TrueCmds' /\ TrueReplies \subseteq TrueReplies'
<1>1. \A f \in GoodReplies : TrueReply(f) => TrueReply(f)'
  BY ServedKept DEF TrueReply, OkKind, TxResults
<1> QED
  BY <1>1, ServedKept, TagsKept DEF TrueCmds, TrueReplies

\* A call has at most one entry, under its own tag.
LEMMA MapHas ==
  ASSUME IInv, NEW c \in Calls
  PROVE  /\ c \in InMap => tag[c] \in Tags /\ pending[tag[c]] = c
         /\ \A t \in Tags : pending[t] = c => t = tag[c] /\ c \in InMap
BY CallsAssumption DEF InMap, IInv, SlotInv

\* How a change of the map changes the calls in it.
LEMMA MapSet ==
  ASSUME IInv, NEW u \in Tags, NEW x \in Calls \cup {Nil}, pending' = [pending EXCEPT ![u] = x]
  PROVE  InMap' = (InMap \ {pending[u]}) \cup ({x} \cap Calls)
<1>1. pending \in [Tags -> Calls \cup {Nil}]
  BY DEF IInv, TypeOK, MapTypes
<1>2. \A t \in Tags : pending'[t] = IF t = u THEN x ELSE pending[t]
  BY <1>1
<1>3. InMap' = {c \in Calls : \E t \in Tags : pending'[t] = c}
  BY DEF InMap, Tags
<1>4. ASSUME NEW c \in Calls PROVE c \in InMap' <=> c \in (InMap \ {pending[u]}) \cup ({x} \cap Calls)
  <2>1. CASE c = x
    BY <1>2, <1>3, <2>1
  <2>2. CASE c # x
    <3>1. c \in InMap' <=> \E t \in Tags : t # u /\ pending[t] = c
      BY <1>2, <1>3, <2>2
    <3> QED
      BY <2>2, <3>1, MapHas DEF InMap
  <2> QED
    BY <2>1, <2>2
<1> QED
  BY <1>3, <1>4 DEF InMap

\* A map that was taken has nobody in it.
LEMMA MapEmpty ==
  ASSUME pending' = [t \in Tags |-> Nil]
  PROVE  InMap' = {}
BY CallsAssumption DEF InMap, Tags

\* What dropping and waking do to a channel.
LEMMA WakersAt ==
  ASSUME NEW S, NEW d \in Calls
  PROVE  /\ DropWakers(S)[d] = IF d \in S /\ oneshot[d].kind = "open" THEN Plain("dropped") ELSE oneshot[d]
         /\ WakeClosed(S)[d] = IF d \in S /\ oneshot[d].kind = "open" THEN Plain("Closed") ELSE oneshot[d]
BY DEF DropWakers, WakeClosed

\* What no frame decided names no call.
LEMMA PlainIs == \A k : Plain(k).kind = k /\ Plain(k).of = Nil
BY DEF Plain

(****************************************************************************)
(* The frames stay true                                                     *)
(****************************************************************************)

\* The device answers a true command with a true reply.
LEMMA DevSendsTruth ==
  ASSUME IInv, TruthInv, DevNext
  PROVE  toHost' = toHost \/ \E x \in TrueReplies' \cup Asyncs : toHost' = Append(toHost, x)
<1> DEFINE Goal == toHost' = toHost \/ \E x \in TrueReplies' \cup Asyncs : toHost' = Append(toHost, x)
<1>0. cmd' = cmd /\ tag' = tag /\ serial' = serial
  BY DevLeaves
<1>1. TrueReplies' = {f \in Replies : f.tag = tag[f.of] /\ serial[f.of] > 0 /\ TrueReply(f)'}
  BY <1>0 DEF TrueReplies, GoodReplies, Replies, Tags, Bodies, TxResults
<1>2. ASSUME NEW f \in TrueReplies', SendReply(f) PROVE Goal
  <2>1. \A t \in {f.type, "OTHER"} : [f EXCEPT !.type = t, !.body = "Malformed"] \in TrueReplies'
    <3>1. SUFFICES ASSUME NEW t \in {f.type, "OTHER"}
                   PROVE  [f EXCEPT !.type = t, !.body = "Malformed"] \in TrueReplies'
      OBVIOUS
    <3> DEFINE g == [f EXCEPT !.type = t, !.body = "Malformed"]
    <3>2. f \in Replies /\ f.tag = tag[f.of] /\ serial[f.of] > 0 /\ TrueReply(f)'
      BY <1>1, <1>2
    <3>3. g \in Replies /\ g.type = t /\ g.body = "Malformed" /\ g.of = f.of /\ g.tag = f.tag
      BY <3>2 DEF Replies, Bodies
    <3>4. TrueReply(g)'
      <4> HIDE DEF g
      <4> QED
        BY <3>2, <3>3 DEF TrueReply
    <3> QED
      BY <1>1, <3>2, <3>3, <3>4
  <2>2. f.body \in Bodies /\ Len(async_sent) + 1 \in Nat
    BY <1>1, <1>2, LenProperties DEF Replies, IInv, TypeOK, WireTypes
  <2>3. Async(Len(async_sent) + 1, "GARBLED", f.body) \in Asyncs
    BY <2>2, RepliesTyped
  <2> QED
    BY <1>2, <2>1, <2>3 DEF SendReply, SendAsync
<1>3. ASSUME NEW f \in TrueCmds, NEW t \in {"OK", "ERR", "TX_DONE"}, NEW b \in Bodies,
             t = "OK" => b = OkKind(f.cmd) /\ (f.cmd # "TX" => f.of \in served'),
             t = "TX_DONE" => b \in TxResults /\ f.cmd = "TX" /\ (b = "Transmitted" => f.of \in served')
      PROVE  Reply(f, t, b) \in TrueReplies'
  <2>1. f \in CmdFrames /\ f.tag = tag[f.of] /\ serial[f.of] > 0 /\ f.cmd = cmd[f.of]
    BY <1>3 DEF TrueCmds, GoodCmds
  <2>2. Reply(f, t, b) \in Replies
    BY <2>1, RepliesTyped
  <2>3. Reply(f, t, b) = [type |-> t, tag |-> f.tag, of |-> f.of, body |-> b]
    BY DEF Reply
  <2>4. TrueReply(Reply(f, t, b))'
    BY <1>0, <1>3, <2>1, <2>3 DEF TrueReply, TxResults, OkKind
  <2> QED
    BY <1>1, <2>1, <2>2, <2>3, <2>4
<1>4. CASE DevAnswer
  <2>1. PICK f \in accepted :
             \/ /\ SendReply(Reply(f, "OK", OkKind(f.cmd)))
                /\ served' = IF f.cmd = "TX" THEN served ELSE served \cup {f.of}
             \/ SendReply(Reply(f, "ERR", "Code"))
    BY <1>4 DEF DevAnswer
  <2>2. f \in TrueCmds /\ f.cmd \in Commands
    BY DEF TruthInv, TrueCmds, GoodCmds, CmdFrames
  <2>3. OkKind(f.cmd) \in Bodies /\ "Code" \in Bodies
    BY <2>2, RepliesTyped DEF Bodies
  <2>4. CASE /\ SendReply(Reply(f, "OK", OkKind(f.cmd)))
             /\ served' = IF f.cmd = "TX" THEN served ELSE served \cup {f.of}
    BY <1>2, <1>3, <2>2, <2>3, <2>4
  <2>5. CASE SendReply(Reply(f, "ERR", "Code"))
    BY <1>2, <1>3, <2>2, <2>3, <2>5
  <2> QED
    BY <2>1, <2>4, <2>5
<1>5. CASE DevTxDone
  <2>1. PICK f \in airing, r \in TxResults :
             /\ SendReply(Reply(f, "TX_DONE", r))
             /\ served' = IF r = "Transmitted" THEN served \cup {f.of} ELSE served
    BY <1>5 DEF DevTxDone
  <2>2. f \in TrueCmds /\ f.cmd = "TX" /\ r \in Bodies
    BY DEF TruthInv, Bodies
  <2> QED
    BY <1>2, <1>3, <2>1, <2>2
<1>6. CASE DevAsync \/ DevAsyncMalformed
  <2>1. PICK t \in {"RX", "ERR", "OTHER", "GARBLED"}, b \in {"Rx", "Code", "Malformed"} :
             SendAsync(Async(Len(async_sent) + 1, t, b))
    BY <1>6 DEF DevAsync, DevAsyncMalformed
  <2>2. b \in Bodies /\ Len(async_sent) + 1 \in Nat
    BY LenProperties DEF Bodies, IInv, TypeOK, WireTypes
  <2>3. Async(Len(async_sent) + 1, t, b) \in Asyncs
    BY <2>2, RepliesTyped
  <2> QED
    BY <2>1, <2>3 DEF SendAsync
<1>7. CASE DevRead \/ LinkDown
  BY <1>7, Zenon DEF DevRead, LinkDown
<1> QED
  BY <1>4, <1>5, <1>6, <1>7 DEF DevNext

\* So do what is on the wire, in the device and in the reader's hands.
LEMMA TruthPreserved ==
  ASSUME IInv, TruthInv, [Next]_vars
  PROVE  TruthInv'
<1> DEFINE C == TrueCmds' \cup {Garbled}
           R == TrueReplies' \cup Asyncs
<1>1. /\ toDev \in Seq(C) /\ toHost \in Seq(R) /\ works \in Seq(R)
      /\ accepted \subseteq TrueCmds' /\ airing \subseteq {f \in TrueCmds' : f.cmd = "TX"}
  <2>1. TrueCmds \cup {Garbled} \subseteq C /\ TrueReplies \cup Asyncs \subseteq R
    BY TruthKept
  <2> QED
    BY <2>1, TruthKept, SeqGrows DEF TruthInv
<1>2. SUFFICES /\ toDev' \in Seq(C) /\ toHost' \in Seq(R) /\ works' \in Seq(R)
               /\ accepted' \subseteq TrueCmds' /\ airing' \subseteq {f \in TrueCmds' : f.cmd = "TX"}
  <2>1. Garbled' = Garbled /\ Asyncs' = Asyncs
    BY DEF Garbled, Asyncs, Bodies, TxResults
  <2> QED
    BY <2>1 DEF TruthInv
<1> HIDE DEF C, R
<1>3. ASSUME NEW c \in Calls, CallNext(c) PROVE toDev' \in Seq(C)
  <2>1. CASE WriteFrame(c)
    <3>1. serial[c] > 0 /\ tag[c] \in Tags
      BY <2>1 DEF WriteFrame, IInv, SerialInv, Active, TypeOK, TagTypes, Tags
    <3>2. [cmd |-> cmd[c], tag |-> tag[c], of |-> c] \in TrueCmds
      BY <3>1 DEF TrueCmds, GoodCmds, CmdFrames, IInv, TypeOK, CallTypes
    <3>3. toDev' = toDev \/ \E f \in C : toDev' = Append(toDev, f)
      BY <2>1, <3>2, TruthKept DEF WriteFrame, C
    <3> QED
      BY <1>1, <3>3, AppendProperties
  <2>2. CASE ~WriteFrame(c)
    <3>1. UNCHANGED toDev
      BY <1>3, <2>2, Zenon DEF CallNext, CallStep, SendCommand, SendCommandClosed, TransmitEmpty,
        InsertPending, LockWriter, WriteFails, Resolved, SenderDropped, Timeout, RemovePending, Cancel
    <3> QED
      BY <1>1, <3>1
  <2> QED
    BY <2>1, <2>2
<1>4. CASE ReaderNext
  <2>1. CASE ReaderRead
    <3>1. PICK n \in 1 .. Len(toHost) : works' = SubSeq(toHost, 1, n) /\ toHost' = Unread(n)
      BY <2>1 DEF ReaderRead
    <3>2. Len(toHost) \in Nat
      BY <1>1, LenProperties
    <3>3. works' \in Seq(R) /\ toHost' \in Seq(R)
      BY <1>1, <3>1, <3>2, PartIn DEF Unread
    <3> QED
      BY <1>1, <1>4, <3>3, ReaderLeaves
  <2>2. CASE ~ReaderRead
    <3>1. /\ toHost' = toHost
          /\ \/ works' = works
             \/ works' = <<>>
             \/ (rpc = "reinsert" \/ works # <<>>) /\ works' = Tail(works)
      BY <1>4, <2>2, Zenon DEF ReaderNext, ReaderTop, ReaderEof, DispatchAsync, DispatchUnknown,
        DispatchTxAck, Reinsert, DispatchResolve, ReaderLeave, ReaderAbort, Dispatching, Dispatched
    <3>2. <<>> \in Seq(R)
      BY EmptySeq
    <3>3. works' \in Seq(R)
      BY <1>1, <3>1, <3>2, TailIn DEF IInv, SlotInv
    <3> QED
      BY <1>1, <1>4, <3>1, <3>3, ReaderLeaves
  <2> QED
    BY <2>1, <2>2
<1>5. CASE DevNext
  <2>1. toHost' \in Seq(R)
    <3>1. toHost' = toHost \/ \E x \in R : toHost' = Append(toHost, x)
      BY <1>5, DevSendsTruth DEF R
    <3>2. toHost \in Seq(R)
      BY <1>1
    <3> HIDE DEF R
    <3> QED
      BY <3>1, <3>2, AppendProperties
  <2>2. toDev' = toDev \/ (toDev # <<>> /\ toDev' = Tail(toDev))
    BY <1>5, Zenon DEF DevNext, DevRead, DevAnswer, DevTxDone, DevAsync, DevAsyncMalformed, LinkDown
  <2>3. toDev' \in Seq(C)
    BY <1>1, <2>2, TailIn
  <2>4. accepted' \subseteq TrueCmds' /\ airing' \subseteq {f \in TrueCmds' : f.cmd = "TX"}
    <3>1. CASE DevRead
      <4>1. Head(toDev) \in C /\ Garbled.cmd = "Garbled"
        BY <1>1, <3>1, TailIn DEF DevRead, Garbled
      <4> QED
        BY <1>1, <3>1, <4>1 DEF DevRead, C
    <3>2. CASE DevAnswer
      <4>1. accepted' \subseteq accepted /\ airing' \subseteq airing \cup {f \in accepted : f.cmd = "TX"}
        BY <3>2 DEF DevAnswer
      <4> QED
        BY <1>1, <4>1
    <3>3. CASE DevTxDone
      <4>1. accepted' = accepted /\ airing' \subseteq airing
        BY <3>3 DEF DevTxDone
      <4> QED
        BY <1>1, <4>1
    <3>4. CASE DevAsync \/ DevAsyncMalformed \/ LinkDown
      <4>1. accepted' = accepted /\ airing' = airing
        BY <3>4, Zenon DEF DevAsync, DevAsyncMalformed, LinkDown
      <4> QED
        BY <1>1, <4>1
    <3> QED
      BY <1>5, <3>1, <3>2, <3>3, <3>4 DEF DevNext
  <2> QED
    BY <1>1, <1>5, <2>1, <2>3, <2>4, DevLeaves
<1>6. CASE UNCHANGED vars
  BY <1>1, <1>6 DEF vars
<1> QED
  BY <1>1, <1>3, <1>4, <1>5, <1>6, Components, CallLeaves, CloseLeaves, RecvLeaves

(****************************************************************************)
(* Channels and results                                                     *)
(****************************************************************************)

\* There is no way back from a closed session, a lost transport or an ended task.
LEMMA GoneKept ==
  ASSUME [Next]_vars
  PROVE  (closed => closed') /\ (~link => ~link') /\ (Gone => Gone') /\ (Ended => Ended')
<1>1. closed => closed'
  <2>1. CASE CloseNext
    BY <2>1, Zenon DEF CloseNext, CloseFlag, CloseTake, CloseAbort
  <2>2. CASE UNCHANGED vars
    BY <2>2, Zenon DEF vars
  <2> QED
    BY <2>1, <2>2, Components, CallLeaves, ReaderLeaves, RecvLeaves, DevLeaves, Zenon
<1>2. ~link => ~link'
  <2>1. CASE DevNext
    BY <2>1, Zenon DEF DevNext, DevRead, DevAnswer, DevTxDone, DevAsync, DevAsyncMalformed, LinkDown
  <2>2. CASE UNCHANGED vars
    BY <2>2, Zenon DEF vars
  <2> QED
    BY <2>1, <2>2, Components, CallLeaves, ReaderLeaves, CloseLeaves, RecvLeaves, Zenon
<1>3. rpc = "done" => rpc' = "done"
  <2>1. CASE ReaderNext
    BY <2>1 DEF ReaderNext, ReaderTop, ReaderRead, ReaderEof, DispatchAsync, DispatchUnknown,
      DispatchTxAck, Reinsert, DispatchResolve, ReaderLeave, ReaderAbort, Dispatching
  <2>2. CASE UNCHANGED vars
    BY <2>2 DEF vars
  <2> QED
    BY <2>1, <2>2, Components, CallLeaves, CloseLeaves, RecvLeaves, DevLeaves, Zenon
<1> QED
  BY <1>1, <1>2, <1>3, Zenon DEF Gone, Ended

\* The kinds of response, and what the helpers make of them.
LEMMA Responses ==
  ASSUME NEW k \in Commands, NEW f
  PROVE  Response(k, f) \in {"Empty", "Info", "SetConfig", "WireErr", "BadFrame"} \cup TxResults
BY DEF Response, OkKind, TxResults

\* The answer to the call itself: what the helpers make of it is earned.
LEMMA OwnResponse ==
  ASSUME NEW c \in Calls, cmd[c] \in Commands, NEW f, TrueReply(f), f.of = c, ~IsTxAck(c, f)
  PROVE  Earned(c, Outcome(cmd[c], Response(cmd[c], f)))
<1>1. CASE Response(cmd[c], f) \in {"WireErr", "BadFrame"}
  BY <1>1 DEF Outcome, Earned
<1>2. CASE f.type = "OK" /\ f.body = OkKind(cmd[c])
  <2>1. cmd[c] # "TX" /\ c \in served
    BY <1>2 DEF IsTxAck, TrueReply
  <2>2. Response(cmd[c], f) = OkKind(cmd[c])
    BY <1>2 DEF Response
  <2> QED
    BY <2>1, <2>2 DEF Outcome, Earned, OkKind
<1>3. CASE f.type = "TX_DONE" /\ f.body \in TxResults
  <2>1. cmd[c] = "TX" /\ (f.body = "Transmitted" => c \in served)
    BY <1>3 DEF TrueReply
  <2>2. Response(cmd[c], f) = f.body
    BY <1>3 DEF Response
  <2> QED
    BY <1>3, <2>1, <2>2 DEF Outcome, Earned, TxResults
<1> QED
  BY <1>1, <1>2, <1>3 DEF Response

\* What a step may do to the channel of call d.
ChannelMoves(d) ==
  \/ oneshot'[d] = oneshot[d]
  \/ oneshot'[d] \in {Plain("none"), Plain("open"), Plain("dropped")}
  \/ oneshot'[d] = Plain("Closed") /\ Gone
  \/ \E f \in TrueReplies : /\ ~IsTxAck(d, f)
                            /\ oneshot'[d] = [kind |-> Response(cmd[d], f), of |-> f.of]

\* What a step may do to a channel.
LEMMA ChannelStep ==
  ASSUME IInv, TruthInv, CloseInv, [Next]_vars
  PROVE  \A d \in Calls : ChannelMoves(d)
<1> DEFINE P == \A d \in Calls : ChannelMoves(d)
<1>0. oneshot \in [Calls -> Outcomes]
  BY DEF IInv, TypeOK, MapTypes
<1>1. ASSUME NEW S, oneshot' = DropWakers(S) \/ (Gone /\ oneshot' = WakeClosed(S)) \/ oneshot' = oneshot PROVE P
  BY <1>1, WakersAt DEF ChannelMoves
<1>2. ASSUME NEW c \in Calls, CallNext(c) PROVE P
  <2>1. CASE InsertPending(c)
    <3>1. \A d \in Calls : oneshot'[d] = IF d = c THEN Plain("open") ELSE DropWakers({pending[tag[c]]})[d]
      BY <2>1, WakersTyped, <1>0 DEF InsertPending
    <3> QED
      BY <3>1, WakersAt DEF ChannelMoves
  <2>2. CASE RemovePending(c)
    BY <1>1, <2>2 DEF RemovePending
  <2>3. CASE Hangup(c)
    BY <1>0, <2>3 DEF Hangup, ChannelMoves
  <2>4. CASE UNCHANGED oneshot
    BY <1>1, <2>4
  <2> QED
    BY <1>2, <2>1, <2>2, <2>3, <2>4, Zenon DEF CallNext, CallStep, SendCommand, SendCommandClosed,
      TransmitEmpty, LockWriter, WriteFrame, WriteFails, Resolved, SenderDropped, Timeout, Cancel
<1>3. CASE ReaderNext
  <2>1. CASE DispatchResolve
    <3> DEFINE f == Head(works)
               c == pending[f.tag]
    <3>1. f \in TrueReplies \cup Asyncs /\ f.tag # 0
      BY <2>1, TailIn DEF DispatchResolve, Dispatching, TruthInv
    <3>2. f \in TrueReplies
      BY <3>1 DEF Asyncs
    <3>3. ~IsTxAck(c, f)
      BY <2>1 DEF DispatchResolve
    <3>4. oneshot' = oneshot \/ oneshot' = [oneshot EXCEPT ![c] = [kind |-> Response(cmd[c], f), of |-> f.of]]
      BY <2>1 DEF DispatchResolve
    <3> HIDE DEF f, c
    <3> QED
      BY <1>0, <3>2, <3>3, <3>4 DEF ChannelMoves
  <2>2. CASE ReaderLeave
    BY <1>1, <2>2 DEF ReaderLeave, CloseInv
  <2>3. CASE ~DispatchResolve /\ ~ReaderLeave
    <3>1. oneshot' = oneshot \/ \E S : oneshot' = DropWakers(S)
      BY <1>3, <2>3, Zenon DEF ReaderNext, ReaderTop, ReaderRead, ReaderEof, DispatchAsync,
        DispatchUnknown, DispatchTxAck, Reinsert, ReaderAbort
    <3> QED
      BY <1>1, <3>1
  <2> QED
    BY <2>1, <2>2, <2>3
<1>4. CASE CloseNext
  <2>1. CASE CloseTake
    <3>1. Gone
      BY <2>1 DEF CloseTake, CloseInv, Gone
    <3> QED
      BY <1>1, <2>1, <3>1 DEF CloseTake
  <2>2. CASE CloseFlag \/ CloseAbort
    <3>1. oneshot' = oneshot
      BY <2>2, Zenon DEF CloseFlag, CloseAbort
    <3> QED
      BY <1>1, <3>1
  <2> QED
    BY <1>4, <2>1, <2>2 DEF CloseNext
<1>5. CASE UNCHANGED vars
  BY <1>1, <1>5 DEF vars
<1> QED
  BY <1>1, <1>2, <1>3, <1>4, <1>5, Components, RecvLeaves, DevLeaves

\* Every step keeps the channels truthful.
LEMMA ChannelPreserved ==
  ASSUME IInv, TruthInv, CloseInv, ChannelInv, [Next]_vars
  PROVE  ChannelInv'
<1>0. cmd \in [Calls -> Commands] /\ cmd' = cmd /\ served \subseteq served' /\ (Gone => Gone')
  BY ServedKept, GoneKept DEF IInv, TypeOK, CallTypes
<1>1. \A c, k : Earned(c, k) => Earned(c, k)'
  BY <1>0 DEF Earned
<1>2. SUFFICES ASSUME NEW c \in Calls
               PROVE  /\ oneshot'[c].of = Nil => oneshot'[c].kind \in {"none", "open", "dropped", "Closed"}
                      /\ oneshot'[c].of # Nil =>
                           oneshot'[c].kind \in {"Empty", "Info", "SetConfig", "WireErr", "BadFrame"} \cup TxResults
                      /\ oneshot'[c].of = c => Earned(c, Outcome(cmd[c], oneshot'[c].kind))
                      /\ oneshot'[c].kind = "Closed" => Gone'
  BY <1>0, <1>1 DEF ChannelInv, TxResults, Outcome, Earned, OkKind
<1>3. CASE oneshot'[c] = oneshot[c]
  BY <1>0, <1>3 DEF ChannelInv
<1>4. CASE oneshot'[c] \in {Plain("none"), Plain("open"), Plain("dropped")}
  BY <1>4, PlainIs, CallsAssumption
<1>5. CASE oneshot'[c] = Plain("Closed") /\ Gone
  BY <1>0, <1>5, PlainIs, CallsAssumption
<1>6. ASSUME NEW f \in TrueReplies, ~IsTxAck(c, f),
             oneshot'[c] = [kind |-> Response(cmd[c], f), of |-> f.of]
      PROVE  /\ oneshot'[c].of # Nil
             /\ oneshot'[c].kind \in {"Empty", "Info", "SetConfig", "WireErr", "BadFrame"} \cup TxResults
             /\ oneshot'[c].of = c => Earned(c, Outcome(cmd[c], oneshot'[c].kind))
             /\ oneshot'[c].kind # "Closed"
  <2>1. f.of \in Calls /\ TrueReply(f)
    BY <1>6 DEF TrueReplies, GoodReplies, Replies
  <2>2. oneshot'[c].of = f.of /\ oneshot'[c].kind = Response(cmd[c], f)
    BY <1>6
  <2>3. Response(cmd[c], f) \in {"Empty", "Info", "SetConfig", "WireErr", "BadFrame"} \cup TxResults
    BY <1>0, Responses
  <2> QED
    BY <1>0, <1>6, <2>1, <2>2, <2>3, OwnResponse, CallsAssumption DEF TxResults
<1> QED
  BY <1>3, <1>4, <1>5, <1>6, ChannelStep DEF ChannelMoves

\* What a step may do to the result of call d.
ResultMoves(d) ==
  \/ result'[d] = result[d] /\ (pc'[d] = "remove" => pc[d] = "remove")
  \/ \E k \in {"none", "Length"} : result'[d] = Plain(k) /\ pc'[d] # "remove"
  \/ result'[d] = Plain("Timeout")
  \/ result'[d] = Plain("Closed") /\ closed /\ pc'[d] # "remove"
  \/ result'[d] = Plain("Io") /\ ~link
  \/ result'[d] = Plain("ReaderExited") /\ pc[d] = "wait" /\ oneshot[d].kind = "dropped"
  \/ /\ pc[d] = "wait" /\ pc'[d] = "done" /\ oneshot[d].kind \notin {"open", "dropped"}
     /\ result'[d].of = oneshot[d].of /\ result'[d].kind = Outcome(cmd[d], oneshot[d].kind)

\* What a step may do to a result.
LEMMA ResultStep ==
  ASSUME IInv, [Next]_vars
  PROVE  \A d \in Calls : ResultMoves(d)
<1> DEFINE P == \A d \in Calls : ResultMoves(d)
<1>0. result \in [Calls -> Outcomes] /\ oneshot \in [Calls -> Outcomes] /\ DOMAIN pc = Calls
  BY DEF IInv, TypeOK, MapTypes, CallTypes
<1>1. ASSUME NEW c \in Calls, NEW l, Goto(c, l)
      PROVE  pc'[c] = l /\ \A d \in Calls \ {c} : pc'[d] = pc[d]
  BY <1>0, <1>1 DEF Goto
<1>2. ASSUME NEW c \in Calls, NEW o, result' = [result EXCEPT ![c] = o]
      PROVE  result'[c] = o /\ \A d \in Calls \ {c} : result'[d] = result[d]
  BY <1>0, <1>2
<1>3. ASSUME NEW c \in Calls, CallNext(c) PROVE P
  <2>1. CASE result' = result /\ \E l : l # "remove" /\ Goto(c, l)
    BY <1>1, <2>1 DEF ResultMoves
  <2>2. CASE SendCommandClosed(c)
    BY <1>1, <1>2, <2>2 DEF SendCommandClosed, Return, Goto, ResultMoves
  <2>3. CASE TransmitEmpty(c)
    BY <1>1, <1>2, <2>3 DEF TransmitEmpty, Return, Goto, ResultMoves
  <2>4. CASE WriteFails(c)
    <3>1. /\ result'[c] = Plain("Io") /\ ~link
          /\ \A d \in Calls \ {c} : result'[d] = result[d] /\ pc'[d] = pc[d]
      BY <1>1, <1>2, <2>4 DEF WriteFails
    <3> QED
      BY <3>1, Zenon DEF ResultMoves
  <2>5. CASE Resolved(c)
    <3>1. result'[c] = [oneshot[c] EXCEPT !.kind = Outcome(cmd[c], @)]
      BY <1>2, <2>5 DEF Resolved
    <3>2. result'[c].of = oneshot[c].of /\ result'[c].kind = Outcome(cmd[c], oneshot[c].kind)
      BY <1>0, <3>1 DEF Outcomes
    <3> QED
      BY <1>1, <1>2, <2>5, <3>2 DEF Resolved, ResultMoves
  <2>6. CASE SenderDropped(c)
    BY <1>1, <1>2, <2>6 DEF SenderDropped, ResultMoves
  <2>7. CASE Timeout(c)
    BY <1>1, <1>2, <2>7 DEF Timeout, ResultMoves
  <2>8. CASE Cancel(c)
    BY <1>1, <1>2, <2>8 DEF Cancel, ResultMoves
  <2>9. CASE SendCommand(c) \/ InsertPending(c) \/ LockWriter(c) \/ WriteFrame(c) \/ RemovePending(c)
    BY <2>1, <2>9 DEF SendCommand, InsertPending, LockWriter, WriteFrame, RemovePending
  <2> QED
    BY <1>3, <2>2, <2>3, <2>4, <2>5, <2>6, <2>7, <2>8, <2>9 DEF CallNext, CallStep
<1>4. ASSUME UNCHANGED callVars PROVE P
  BY <1>4 DEF ResultMoves
<1>5. CASE UNCHANGED vars
  BY <1>4, <1>5 DEF vars
<1> QED
  BY <1>3, <1>4, <1>5, Components, ReaderLeaves, CloseLeaves, RecvLeaves, DevLeaves

\* A result that a step stores fits what its call may return.
LEMMA ResultStepFits ==
  ASSUME IInv, ChannelInv, LifeInv, ResultInv, [Next]_vars, NEW c \in Calls
  PROVE  /\ ResultFits(c, result'[c])
         /\ pc'[c] = "remove" => result'[c].kind \in {"Io", "ReaderExited", "Timeout"}
<1> USE DEF ResultFits
<1>3. CASE result'[c] = result[c] /\ (pc'[c] = "remove" => pc[c] = "remove")
  BY <1>3 DEF ResultInv
<1>4. CASE \E k \in {"none", "Length"} : result'[c] = Plain(k) /\ pc'[c] # "remove"
  BY <1>4, PlainIs, CallsAssumption
<1>5. CASE result'[c] = Plain("Timeout")
  BY <1>5, PlainIs, CallsAssumption
<1>6. CASE result'[c] = Plain("Closed") /\ closed /\ pc'[c] # "remove"
  BY <1>6, PlainIs, CallsAssumption DEF Gone
<1>7. CASE result'[c] = Plain("Io") /\ ~link
  BY <1>7, PlainIs, CallsAssumption
<1>8. CASE result'[c] = Plain("ReaderExited") /\ pc[c] = "wait" /\ oneshot[c].kind = "dropped"
  <2>1. c \in Sharers \/ Ended
    BY <1>8 DEF LifeInv, Listening
  <2> QED
    BY <1>8, <2>1, PlainIs, CallsAssumption
<1>9. CASE /\ pc[c] = "wait" /\ pc'[c] = "done" /\ oneshot[c].kind \notin {"open", "dropped"}
           /\ result'[c].of = oneshot[c].of /\ result'[c].kind = Outcome(cmd[c], oneshot[c].kind)
  <2>1. oneshot[c].kind # "none"
    BY <1>9 DEF LifeInv, Listening
  <2>2. CASE oneshot[c].of = Nil
    <3>1. oneshot[c].kind = "Closed" /\ Gone
      BY <1>9, <2>1, <2>2 DEF ChannelInv
    <3>2. Outcome(cmd[c], "Closed") = "Closed"
      BY DEF Outcome
    <3> QED
      BY <1>9, <2>2, <3>1, <3>2, CallsAssumption
  <2>3. CASE oneshot[c].of # Nil
    <3>1. /\ oneshot[c].kind \in {"Empty", "Info", "SetConfig", "WireErr", "BadFrame"} \cup TxResults
          /\ oneshot[c].of = c => Earned(c, Outcome(cmd[c], oneshot[c].kind))
      BY <2>3 DEF ChannelInv
    <3>2. Outcome(cmd[c], oneshot[c].kind) \in {"Ok", "Unexpected", "WireErr", "BadFrame"} \cup TxResults
      BY <3>1 DEF Outcome, TxResults
    <3> QED
      BY <1>9, <2>3, <3>1, <3>2 DEF TxResults
  <2> QED
    BY <2>2, <2>3
<1> QED
  BY <1>3, <1>4, <1>5, <1>6, <1>7, <1>8, <1>9, ResultStep DEF ResultMoves

\* Every step keeps the results fitting.
LEMMA ResultPreserved ==
  ASSUME IInv, ChannelInv, LifeInv, ResultInv, [Next]_vars
  PROVE  ResultInv'
<1>1. /\ served \subseteq served' /\ Sharers \subseteq Sharers'
      /\ (Gone => Gone') /\ (Ended => Ended') /\ (~link => ~link')
  BY ServedKept, GoneKept, SharersKept
<1>2. ASSUME NEW c \in Calls PROVE ResultFits(c, result[c])'
  BY <1>1, ResultStepFits DEF ResultFits, Earned, TxResults
<1> QED
  BY <1>2, ResultStepFits DEF ResultInv

(****************************************************************************)
(* The life of a waker                                                      *)
(****************************************************************************)

\* The steps of the callers.  An entry that is displaced or removed by another call
\* is that of a call with the same tag.
LEMMA LifeOfCalls ==
  ASSUME IInv, LifeInv, NEW c \in Calls, CallNext(c)
  PROVE  LifeInv'
<1>0. /\ oneshot \in [Calls -> Outcomes] /\ pending \in [Tags -> Calls \cup {Nil}] /\ DOMAIN pc = Calls
      /\ tag \in [Calls -> 0 .. MaxTag] /\ cmd' = cmd /\ held' = held /\ rpc' = rpc /\ closed' = closed
  BY CallLeaves DEF IInv, TypeOK, MapTypes, CallTypes, TagTypes
<1>1. Sharers \subseteq Sharers' /\ (Ended => Ended')
  <2>1. [Next]_vars
    BY Zenon DEF Next
  <2> QED
    BY <2>1, SharersKept, GoneKept
<1> DEFINE Q(d) ==
      /\ pc'[d] \in {"idle", "insert"} => oneshot'[d].kind = "none" /\ d \notin InMap' /\ held # d
      /\ pc'[d] \in Listening => /\ oneshot'[d].kind # "none"
                                 /\ oneshot'[d].kind = "open" <=> d \in InMap' \/ held = d
                                 /\ oneshot'[d].kind = "dropped" => d \in Sharers \/ (cmd[d] = "TX" /\ Ended)
      /\ held = d => cmd[d] = "TX" /\ rpc = "reinsert" /\ d \notin InMap'
      /\ d \in InMap' /\ pc'[d] = "done" => cmd[d] = "TX"
<1>2. SUFFICES \A d \in Calls : Q(d)
  BY <1>0, <1>1 DEF LifeInv, Listening
<1> HIDE DEF Q
<1>3. ASSUME NEW d \in Calls, pc'[d] = pc[d], oneshot'[d] = oneshot[d], d \in InMap' <=> d \in InMap PROVE Q(d)
  BY <1>3 DEF LifeInv, Q
<1>4. ASSUME NEW l, Goto(c, l) PROVE pc'[c] = l /\ \A d \in Calls \ {c} : pc'[d] = pc[d]
  BY <1>0, <1>4 DEF Goto
<1>5. ASSUME Hangup(c) PROVE oneshot'[c].kind = "none" /\ \A d \in Calls \ {c} : oneshot'[d] = oneshot[d]
  BY <1>0, <1>5, PlainIs DEF Hangup
<1>6. ASSUME pending' = pending PROVE InMap' = InMap
  BY <1>6 DEF InMap, Tags
<1>7. CASE InsertPending(c)
  <2> DEFINE p == pending[tag[c]]
  <2>1. pc[c] = "insert" /\ c \notin InMap /\ held # c /\ serial[c] > 0
    BY <1>7 DEF InsertPending, LifeInv, IInv, SerialInv, Active
  <2>2. tag[c] \in Tags /\ tag[c] # 0
    BY <1>0, <2>1, TagAssumption DEF Tags, IInv, SerialInv
  <2>3. InMap' = (InMap \ {p}) \cup {c}
    <3>1. pending' = [pending EXCEPT ![tag[c]] = c]
      BY <1>7 DEF InsertPending
    <3>2. InMap' = (InMap \ {p}) \cup ({c} \cap Calls)
      BY <2>2, <3>1, MapSet
    <3> QED
      BY <3>2
  <2>4. pc'[c] = "lock" /\ \A d \in Calls \ {c} : pc'[d] = pc[d]
    BY <1>4, <1>7 DEF InsertPending
  <2>5. \A d \in Calls : oneshot'[d] = IF d = c THEN Plain("open") ELSE DropWakers({p})[d]
    BY <1>0, <1>7, WakersTyped DEF InsertPending
  <2>6. Q(c)
    BY <2>1, <2>3, <2>4, <2>5, PlainIs DEF Q, Listening
  <2>7. p \in Calls => p \in InMap /\ p \in Sharers
    <3>1. p \in Calls => p \in InMap /\ tag[p] = tag[c] /\ p # c
      BY <2>1, <2>2, MapHas
    <3> QED
      BY <2>2, <3>1, OneTagShared
  <2> HIDE DEF p
  <2>8. ASSUME NEW d \in Calls, d # c, d = p PROVE Q(d)
    <3>1. oneshot'[d] = IF oneshot[d].kind = "open" THEN Plain("dropped") ELSE oneshot[d]
      BY <2>5, <2>8, WakersAt
    <3>2. d \notin InMap' /\ d \in InMap /\ d \in Sharers /\ pc'[d] = pc[d]
      BY <2>3, <2>4, <2>7, <2>8
    <3> QED
      BY <3>1, <3>2, PlainIs DEF Q, LifeInv, Listening
  <2>9. ASSUME NEW d \in Calls, d # c, d # p PROVE Q(d)
    <3>1. oneshot'[d] = oneshot[d]
      BY <2>5, <2>9, WakersAt
    <3> QED
      BY <1>3, <2>3, <2>4, <2>9, <3>1
  <2> QED
    BY <2>6, <2>8, <2>9
<1>8. CASE RemovePending(c)
  <2> DEFINE p == pending[tag[c]]
  <2>1. pc[c] = "remove" /\ serial[c] > 0
    BY <1>8 DEF RemovePending, IInv, SerialInv, Active
  <2>2. tag[c] \in Tags /\ tag[c] # 0
    BY <1>0, <2>1, TagAssumption DEF Tags, IInv, SerialInv
  <2>3. InMap' = InMap \ {p}
    <3>1. pending' = [pending EXCEPT ![tag[c]] = Nil]
      BY <1>8 DEF RemovePending
    <3>2. InMap' = (InMap \ {p}) \cup ({Nil} \cap Calls)
      BY <2>2, <3>1, MapSet
    <3> QED
      BY <3>2, CallsAssumption
  <2>4. pc'[c] = "done" /\ \A d \in Calls \ {c} : pc'[d] = pc[d]
    BY <1>4, <1>8 DEF RemovePending
  <2>5. \A d \in Calls : oneshot'[d] = DropWakers({p})[d]
    BY <1>8 DEF RemovePending
  <2>6. c \notin InMap'
    BY <2>3, MapHas
  <2>7. Q(c)
    BY <2>4, <2>6 DEF Q, LifeInv, Listening
  <2>8. p \in Calls /\ p # c => p \in InMap /\ p \in Sharers
    <3>1. p \in Calls => p \in InMap /\ tag[p] = tag[c]
      BY <2>2, MapHas
    <3> QED
      BY <2>2, <3>1, OneTagShared
  <2> HIDE DEF p
  <2>9. ASSUME NEW d \in Calls, d # c, d = p PROVE Q(d)
    <3>1. oneshot'[d] = IF oneshot[d].kind = "open" THEN Plain("dropped") ELSE oneshot[d]
      BY <2>5, <2>9, WakersAt
    <3>2. d \notin InMap' /\ d \in InMap /\ d \in Sharers /\ pc'[d] = pc[d]
      BY <2>3, <2>4, <2>8, <2>9
    <3> QED
      BY <3>1, <3>2, PlainIs DEF Q, LifeInv, Listening
  <2>10. ASSUME NEW d \in Calls, d # c, d # p PROVE Q(d)
    <3>1. oneshot'[d] = oneshot[d]
      BY <2>5, <2>10, WakersAt
    <3> QED
      BY <1>3, <2>3, <2>4, <2>10, <3>1
  <2> QED
    BY <2>7, <2>9, <2>10
<1>9. CASE Resolved(c)
  <2>1. pc[c] = "wait" /\ pc'[c] = "done" /\ oneshot[c].kind # "open" /\ InMap' = InMap
    BY <1>4, <1>6, <1>9 DEF Resolved
  <2>2. Q(c)
    BY <2>1 DEF Q, LifeInv, Listening
  <2> QED
    BY <1>3, <1>4, <1>5, <1>9, <2>1, <2>2 DEF Resolved
<1>10. CASE SenderDropped(c) \/ Timeout(c) \/ Cancel(c)
  <2>1. /\ pc'[c] \in {"remove", "cancelled"} /\ Hangup(c) /\ InMap' = InMap
        /\ \A d \in Calls \ {c} : pc'[d] = pc[d]
    BY <1>4, <1>6, <1>10 DEF SenderDropped, Timeout, Cancel
  <2>2. Q(c)
    BY <2>1 DEF Q, LifeInv, Listening
  <2> QED
    BY <1>3, <1>5, <2>1, <2>2
<1>11. CASE \/ SendCommand(c) \/ SendCommandClosed(c) \/ TransmitEmpty(c)
            \/ LockWriter(c) \/ WriteFrame(c) \/ WriteFails(c)
  <2>1. InMap' = InMap /\ oneshot' = oneshot
    BY <1>6, <1>11 DEF SendCommand, SendCommandClosed, TransmitEmpty, LockWriter, WriteFrame, WriteFails
  <2>2. \/ pc[c] = "idle" /\ Goto(c, "insert")
        \/ pc[c] = "idle" /\ Goto(c, "done")
        \/ pc[c] = "lock" /\ Goto(c, "write")
        \/ pc[c] = "write" /\ Goto(c, "wait")
        \/ pc[c] = "write" /\ Goto(c, "remove")
    BY <1>11, Zenon DEF SendCommand, SendCommandClosed, TransmitEmpty, Return, Goto, LockWriter, WriteFrame,
      WriteFails
  <2>3. /\ \/ pc[c] = "idle" /\ pc'[c] \in {"insert", "done"}
           \/ pc[c] \in Listening /\ pc'[c] \in {"write", "wait", "remove"}
        /\ \A d \in Calls \ {c} : pc'[d] = pc[d]
    BY <1>4, <2>2 DEF Listening
  <2>4. Q(c)
    BY <2>1, <2>3 DEF Q, LifeInv, Listening
  <2> QED
    BY <1>3, <2>1, <2>3, <2>4
<1> QED
  BY <1>7, <1>8, <1>9, <1>10, <1>11 DEF CallNext, CallStep

\* The steps of the reader and of close().  The calls do not move.
LEMMA LifeOfReader ==
  ASSUME IInv, LifeInv, CloseInv, ReaderNext \/ CloseNext
  PROVE  LifeInv'
<1>0. /\ oneshot \in [Calls -> Outcomes] /\ pending \in [Tags -> Calls \cup {Nil}]
      /\ pc' = pc /\ cmd' = cmd /\ cmd \in [Calls -> Commands] /\ tag \in [Calls -> 0 .. MaxTag]
  BY ReaderLeaves, CloseLeaves DEF IInv, TypeOK, MapTypes, CallTypes, TagTypes
<1>1. Sharers \subseteq Sharers' /\ (Ended => Ended')
  <2>1. [Next]_vars
    BY Zenon DEF Next
  <2> QED
    BY <2>1, SharersKept, GoneKept
<1> DEFINE Q(d) ==
      /\ pc[d] \in {"idle", "insert"} => oneshot'[d].kind = "none" /\ d \notin InMap' /\ held' # d
      /\ pc[d] \in Listening => /\ oneshot'[d].kind # "none"
                                /\ oneshot'[d].kind = "open" <=> d \in InMap' \/ held' = d
                                /\ oneshot'[d].kind = "dropped" => d \in Sharers \/ (cmd[d] = "TX" /\ Ended')
      /\ held' = d => cmd[d] = "TX" /\ rpc' = "reinsert" /\ d \notin InMap'
      /\ d \in InMap' /\ pc[d] = "done" => cmd[d] = "TX"
<1>2. SUFFICES \A d \in Calls : Q(d)
  BY <1>0, <1>1 DEF LifeInv, Listening
<1> HIDE DEF Q
<1>3. ASSUME NEW d \in Calls, oneshot'[d] = oneshot[d], d \in InMap' <=> d \in InMap,
             held' = d <=> held = d, held = d => rpc' = rpc
      PROVE  Q(d)
  BY <1>1, <1>3 DEF LifeInv, Q
<1>4. ASSUME pending' = pending PROVE InMap' = InMap
  BY <1>4 DEF InMap, Tags
<1>5. rpc # "reinsert" => \A d \in Calls : held # d
  BY DEF LifeInv
<1>6. CASE DispatchTxAck
  <2> DEFINE t == Head(works).tag
             p == pending[t]
  <2>1. t \in Tags
    BY <1>6, HeadTagged DEF DispatchTxAck, Dispatching
  <2>2. /\ p \in Calls /\ cmd[p] = "TX" /\ held' = p /\ rpc # "reinsert" /\ rpc' = "reinsert" /\ oneshot' = oneshot
        /\ pending' = [pending EXCEPT ![t] = Nil]
    BY <1>0, <1>6, <2>1 DEF DispatchTxAck, Dispatching, IsTxAck
  <2>3. InMap' = (InMap \ {p}) \cup ({Nil} \cap Calls)
    BY <2>1, <2>2, MapSet
  <2>4. InMap' = InMap \ {p} /\ p \in InMap
    BY <2>1, <2>2, <2>3, MapHas, CallsAssumption
  <2> HIDE DEF t, p
  <2>5. Q(p)
    BY <2>2, <2>4 DEF Q, LifeInv, Listening
  <2>6. ASSUME NEW d \in Calls, d # p PROVE Q(d)
    BY <1>3, <1>5, <2>2, <2>4, <2>6
  <2> QED
    BY <2>5, <2>6
<1>7. CASE Reinsert
  <2> DEFINE t == Head(works).tag
             q == pending[t]
             h == held
  <2>1. t \in Tags /\ h \in Calls /\ tag[h] = t /\ tag[h] # 0
    BY <1>7, HeadTagged DEF Reinsert, IInv, SlotInv
  <2>2. h \notin InMap /\ cmd[h] = "TX"
    BY <2>1 DEF LifeInv
  <2>3. /\ pending' = [pending EXCEPT ![t] = held] /\ oneshot' = DropWakers({q})
        /\ held' = Nil /\ rpc' # "reinsert"
    BY <1>7 DEF Reinsert, Dispatched
  <2>4. InMap' = (InMap \ {q}) \cup ({held} \cap Calls)
    BY <2>1, <2>3, MapSet
  <2>5. InMap' = (InMap \ {q}) \cup {h} /\ q # h
    BY <2>1, <2>2, <2>4, MapHas
  <2>6. q \in Calls => q \in InMap /\ q \in Sharers
    <3>1. q \in Calls => q \in InMap /\ tag[q] = tag[h]
      BY <2>1, MapHas
    <3> QED
      BY <2>1, <2>5, <3>1, OneTagShared
  <2>7. Nil \notin Calls
    BY CallsAssumption
  <2>8. \A d \in Calls : oneshot'[d] = IF d = q /\ oneshot[d].kind = "open" THEN Plain("dropped") ELSE oneshot[d]
    BY <2>3, WakersAt
  <2> HIDE DEF t, q
  <2>9. Q(h)
    BY <2>1, <2>2, <2>3, <2>5, <2>7, <2>8 DEF Q, LifeInv, Listening
  <2>10. ASSUME NEW d \in Calls, d = q PROVE Q(d)
    <3>1. d \in InMap /\ d \in Sharers /\ d \notin InMap' /\ held # d /\ held' # d
      BY <2>3, <2>5, <2>6, <2>7, <2>10
    <3>2. oneshot'[d] = IF oneshot[d].kind = "open" THEN Plain("dropped") ELSE oneshot[d]
      BY <2>8, <2>10
    <3> QED
      BY <3>1, <3>2, PlainIs DEF Q, LifeInv, Listening
  <2>11. ASSUME NEW d \in Calls, d # q, d # h PROVE Q(d)
    <3>1. oneshot'[d] = oneshot[d]
      BY <2>8, <2>11
    <3> QED
      BY <1>3, <2>3, <2>5, <2>7, <2>11, <3>1
  <2> QED
    BY <2>9, <2>10, <2>11
<1>8. CASE DispatchResolve
  <2> DEFINE f == Head(works)
             p == pending[f.tag]
             k == Response(cmd[p], f)
  <2>1. f.tag \in Tags
    BY <1>8, HeadTagged DEF DispatchResolve, Dispatching
  <2>2. /\ p \in Calls /\ held' = held /\ rpc # "reinsert"
        /\ pending' = [pending EXCEPT ![f.tag] = Nil]
        /\ oneshot' = IF oneshot[p].kind = "open" THEN [oneshot EXCEPT ![p] = [kind |-> k, of |-> f.of]]
                      ELSE oneshot
    BY <1>0, <1>8, <2>1 DEF DispatchResolve, Dispatching
  <2>3. InMap' = (InMap \ {p}) \cup ({Nil} \cap Calls)
    BY <2>1, <2>2, MapSet
  <2>4. InMap' = InMap \ {p} /\ p \in InMap
    BY <2>1, <2>2, <2>3, MapHas, CallsAssumption
  <2>5. k \notin {"none", "open", "dropped"}
    BY <1>0, <2>2, Responses DEF TxResults
  <2> HIDE DEF f, p, k
  <2>6. /\ oneshot[p].kind = "open" => oneshot'[p].kind = k
        /\ oneshot[p].kind # "open" => oneshot'[p] = oneshot[p]
        /\ \A d \in Calls \ {p} : oneshot'[d] = oneshot[d]
    BY <1>0, <2>2
  <2>7. Q(p)
    BY <1>5, <2>2, <2>4, <2>5, <2>6 DEF Q, LifeInv, Listening
  <2>8. ASSUME NEW d \in Calls, d # p PROVE Q(d)
    BY <1>3, <1>5, <2>2, <2>4, <2>6, <2>8
  <2> QED
    BY <2>7, <2>8
<1>9. CASE ReaderLeave \/ CloseTake
  <2>1. /\ oneshot' = WakeClosed(InMap) /\ pending' = [t \in Tags |-> Nil] /\ held' = held
        /\ rpc = "reinsert" => rpc' = rpc
    BY <1>9 DEF ReaderLeave, CloseTake
  <2>2. InMap' = {}
    BY <2>1, MapEmpty
  <2>3. ASSUME NEW d \in Calls PROVE Q(d)
    <3>1. oneshot'[d] = IF d \in InMap /\ oneshot[d].kind = "open" THEN Plain("Closed") ELSE oneshot[d]
      BY <2>1, WakersAt
    <3>2. /\ d \in InMap /\ oneshot[d].kind = "open" => oneshot'[d].kind = "Closed"
          /\ ~(d \in InMap /\ oneshot[d].kind = "open") => oneshot'[d] = oneshot[d]
      BY <3>1, PlainIs
    <3> QED
      BY <1>1, <2>1, <2>2, <3>2 DEF Q, LifeInv, Listening
  <2> QED
    BY <2>3
<1>10. CASE ReaderAbort
  <2>1. /\ oneshot' = DropWakers({held}) /\ pending' = pending /\ held' = Nil /\ rpc' = "done"
        /\ closed' = closed
    BY <1>10 DEF ReaderAbort
  <2>2. Ended'
    BY <1>10, <2>1 DEF ReaderAbort, CloseInv, Ended
  <2>3. ASSUME NEW d \in Calls, d = held PROVE Q(d)
    <3>1. oneshot'[d] = IF oneshot[d].kind = "open" THEN Plain("dropped") ELSE oneshot[d]
      BY <2>1, <2>3, WakersAt
    <3>2. held' # d /\ d \notin InMap /\ InMap' = InMap
      BY <1>4, <2>1, <2>3, CallsAssumption DEF LifeInv
    <3> QED
      BY <2>2, <2>3, <3>1, <3>2, PlainIs DEF Q, LifeInv, Listening
  <2>4. ASSUME NEW d \in Calls, d # held PROVE Q(d)
    <3>1. oneshot'[d] = oneshot[d]
      BY <2>1, <2>4, WakersAt
    <3> QED
      BY <1>3, <1>4, <2>1, <2>4, <3>1, CallsAssumption
  <2> QED
    BY <2>3, <2>4
<1>11. CASE \/ ReaderTop \/ ReaderRead \/ ReaderEof \/ DispatchAsync \/ DispatchUnknown
            \/ CloseFlag \/ CloseAbort
  <2>1. oneshot' = oneshot /\ pending' = pending /\ held' = held /\ (rpc = "reinsert" => rpc' = rpc)
    BY <1>11 DEF ReaderTop, ReaderRead, ReaderEof, DispatchAsync, DispatchUnknown, Dispatching, CloseFlag,
      CloseAbort
  <2> QED
    BY <1>3, <1>4, <1>5, <2>1
<1> QED
  BY <1>6, <1>7, <1>8, <1>9, <1>10, <1>11, Zenon DEF ReaderNext, CloseNext

\* Every step keeps wakers where their calls can be woken, or wakes them.
LEMMA LifePreserved ==
  ASSUME IInv, LifeInv, CloseInv, [Next]_vars
  PROVE  LifeInv'
<1>1. ASSUME UNCHANGED <<pc, cmd, oneshot, pending, held, rpc>> PROVE LifeInv'
  <2>1. InMap' = InMap
    BY <1>1 DEF InMap, Tags
  <2>2. Sharers \subseteq Sharers' /\ (Ended => Ended')
    BY SharersKept, GoneKept
  <2> QED
    BY <1>1, <2>1, <2>2 DEF LifeInv, Listening
<1>2. CASE UNCHANGED vars
  BY <1>1, <1>2 DEF vars
<1> QED
  BY <1>1, <1>2, Components, LifeOfCalls, LifeOfReader, RecvLeaves, DevLeaves

(****************************************************************************)
(* close()                                                                  *)
(****************************************************************************)

\* The calls that waited when close() began: where they go, and what they leave.
LEMMA AtCloseStep ==
  ASSUME IInv, LifeInv, CloseInv, [Next]_vars, NEW d \in at_close
  PROVE  /\ pc'[d] \in {"wait", "remove", "done", "cancelled"}
         /\ pc'[d] # "wait" => oneshot'[d].kind = "none"
         /\ d \in InMap' => d \in InMap \/ cmd[d] = "TX"
<1> DEFINE P == /\ pc'[d] \in {"wait", "remove", "done", "cancelled"}
                /\ pc'[d] # "wait" => oneshot'[d].kind = "none"
                /\ d \in InMap' => d \in InMap \/ cmd[d] = "TX"
<1>0. /\ d \in Calls /\ pc[d] \in {"wait", "remove", "done", "cancelled"}
      /\ pc[d] # "wait" => oneshot[d].kind = "none"
      /\ oneshot \in [Calls -> Outcomes] /\ pending \in [Tags -> Calls \cup {Nil}] /\ DOMAIN pc = Calls
      /\ tag \in [Calls -> 0 .. MaxTag]
  BY DEF CloseInv, IInv, TypeOK, CallTypes, MapTypes, TagTypes
<1>1. ASSUME pending' = pending PROVE InMap' = InMap
  BY <1>1 DEF InMap, Tags
<1>2. ASSUME NEW S, oneshot' \in {oneshot, DropWakers(S), WakeClosed(S)}
      PROVE  pc[d] # "wait" => oneshot'[d].kind = "none"
  BY <1>0, <1>2, WakersAt
<1>3. ASSUME NEW c \in Calls, CallNext(c) PROVE P
  <2>1. ASSUME NEW l, Goto(c, l) PROVE pc'[c] = l /\ \A e \in Calls \ {c} : pc'[e] = pc[e]
    BY <1>0, <2>1 DEF Goto
  <2>2. CASE InsertPending(c)
    <3>1. pc[c] = "insert" /\ serial[c] > 0 /\ pending' = [pending EXCEPT ![tag[c]] = c]
      BY <2>2 DEF InsertPending, IInv, SerialInv, Active
    <3>2. tag[c] \in Tags
      BY <1>0, <3>1, TagAssumption DEF Tags, IInv, SerialInv
    <3>3. InMap' = (InMap \ {pending[tag[c]]}) \cup ({c} \cap Calls)
      BY <3>1, <3>2, MapSet
    <3>4. d # c
      BY <1>0, <3>1
    <3>5. pc'[d] = pc[d]
      BY <1>0, <2>1, <2>2, <3>4 DEF InsertPending
    <3>6. oneshot'[d] = DropWakers({pending[tag[c]]})[d]
      BY <1>0, <2>2, <3>4, WakersTyped DEF InsertPending
    <3>7. pc[d] # "wait" => oneshot'[d].kind = "none"
      BY <1>0, <3>6, WakersAt
    <3> QED
      BY <1>0, <3>3, <3>4, <3>5, <3>7
  <2>3. CASE RemovePending(c)
    <3>1. pc[c] = "remove" /\ serial[c] > 0 /\ pending' = [pending EXCEPT ![tag[c]] = Nil]
      BY <2>3 DEF RemovePending, IInv, SerialInv, Active
    <3>2. tag[c] \in Tags
      BY <1>0, <3>1, TagAssumption DEF Tags, IInv, SerialInv
    <3>3. InMap' = (InMap \ {pending[tag[c]]}) \cup ({Nil} \cap Calls)
      BY <3>1, <3>2, MapSet
    <3>4. pc'[c] = "done" /\ \A e \in Calls \ {c} : pc'[e] = pc[e]
      BY <2>1, <2>3 DEF RemovePending
    <3>5. pc[d] # "wait" => oneshot'[d].kind = "none"
      BY <1>2, <2>3 DEF RemovePending
    <3> QED
      BY <1>0, <3>1, <3>3, <3>4, <3>5, CallsAssumption
  <2>4. CASE Resolved(c) \/ SenderDropped(c) \/ Timeout(c) \/ Cancel(c)
    <3>1. /\ pc'[c] \in {"done", "remove", "cancelled"} /\ Hangup(c) /\ pending' = pending
          /\ \A e \in Calls \ {c} : pc'[e] = pc[e]
      BY <2>1, <2>4 DEF Resolved, SenderDropped, Timeout, Cancel
    <3>2. oneshot'[c].kind = "none" /\ \A e \in Calls \ {c} : oneshot'[e] = oneshot[e]
      BY <1>0, <3>1, PlainIs DEF Hangup
    <3> QED
      BY <1>0, <1>1, <3>1, <3>2
  <2>5. CASE \/ SendCommand(c) \/ SendCommandClosed(c) \/ TransmitEmpty(c)
             \/ LockWriter(c) \/ WriteFrame(c) \/ WriteFails(c)
    <3>1. oneshot' = oneshot /\ pending' = pending /\ pc[c] \in {"idle", "lock", "write"} /\ \E l : Goto(c, l)
      BY <2>5 DEF SendCommand, SendCommandClosed, TransmitEmpty, Return, Goto, LockWriter, WriteFrame, WriteFails
    <3>2. d # c
      BY <1>0, <3>1
    <3> QED
      BY <1>0, <1>1, <2>1, <3>1, <3>2
  <2> QED
    BY <1>3, <2>2, <2>3, <2>4, <2>5 DEF CallNext, CallStep
<1>4. CASE ReaderNext \/ CloseNext
  <2>0. pc' = pc
    BY <1>4, ReaderLeaves, CloseLeaves
  <2>1. pc[d] # "wait" => oneshot'[d].kind = "none"
    <3>1. CASE DispatchResolve
      <4> DEFINE f == Head(works)
                 c == pending[f.tag]
      <4>1. oneshot' = IF oneshot[c].kind = "open"
                       THEN [oneshot EXCEPT ![c] = [kind |-> Response(cmd[c], f), of |-> f.of]]
                       ELSE oneshot
        BY <3>1 DEF DispatchResolve
      <4> HIDE DEF f, c
      <4> QED
        BY <1>0, <4>1
    <3>2. CASE ~DispatchResolve
      <4>1. \E S : oneshot' \in {oneshot, DropWakers(S), WakeClosed(S)}
        BY <1>4, <3>2, Zenon DEF ReaderNext, ReaderTop, ReaderRead, ReaderEof, DispatchAsync,
          DispatchUnknown, DispatchTxAck, Reinsert, ReaderLeave, ReaderAbort, CloseNext, CloseFlag, CloseTake,
          CloseAbort
      <4> QED
        BY <1>2, <4>1
    <3> QED
      BY <3>1, <3>2
  <2>2. d \in InMap' => d \in InMap \/ cmd[d] = "TX"
    <3>1. ASSUME NEW t \in Tags, pending' = [pending EXCEPT ![t] = Nil] PROVE InMap' \subseteq InMap
      <4>1. InMap' = (InMap \ {pending[t]}) \cup ({Nil} \cap Calls)
        BY <3>1, MapSet
      <4> QED
        BY <4>1, CallsAssumption
    <3>2. CASE Reinsert
      <4>1. Head(works).tag \in Tags /\ held \in Calls /\ cmd[held] = "TX"
        BY <3>2, HeadTagged DEF Reinsert, IInv, SlotInv, LifeInv
      <4>2. pending' = [pending EXCEPT ![Head(works).tag] = held]
        BY <3>2 DEF Reinsert
      <4>3. InMap' = (InMap \ {pending[Head(works).tag]}) \cup ({held} \cap Calls)
        BY <4>1, <4>2, MapSet
      <4> QED
        BY <4>1, <4>3
    <3>3. CASE DispatchTxAck \/ DispatchResolve
      <4>1. Head(works).tag \in Tags /\ pending' = [pending EXCEPT ![Head(works).tag] = Nil]
        BY <3>3, HeadTagged DEF DispatchTxAck, DispatchResolve, Dispatching
      <4> QED
        BY <3>1, <4>1
    <3>4. CASE ~(Reinsert \/ DispatchTxAck \/ DispatchResolve)
      <4>1. pending' = pending \/ pending' = [t \in Tags |-> Nil]
        BY <1>4, <3>4, Zenon DEF ReaderNext, ReaderTop, ReaderRead, ReaderEof, DispatchAsync,
          DispatchUnknown, ReaderLeave, ReaderAbort, CloseNext, CloseFlag, CloseTake, CloseAbort
      <4> QED
        BY <1>1, <4>1, MapEmpty
    <3> QED
      BY <3>2, <3>3, <3>4
  <2> QED
    BY <1>0, <2>0, <2>1, <2>2
<1>5. ASSUME UNCHANGED <<pc, oneshot, pending>> PROVE P
  BY <1>0, <1>1, <1>5
<1>6. CASE UNCHANGED vars
  BY <1>5, <1>6 DEF vars
<1> QED
  BY <1>3, <1>4, <1>5, <1>6, Components, RecvLeaves, DevLeaves

\* Every step keeps close's promise to those that waited.
LEMMA ClosePreserved ==
  ASSUME IInv, LifeInv, CloseInv, [Next]_vars
  PROVE  CloseInv'
<1>0. cmd' = cmd /\ (Gone => Gone') /\ (closed => closed')
  BY ServedKept, GoneKept
<1>1. UNCHANGED closeVars \/ CloseFlag \/ CloseTake \/ CloseAbort
  <2>1. CASE UNCHANGED vars
    BY <2>1, Zenon DEF vars
  <2> QED
    BY <2>1, Components, CallLeaves, ReaderLeaves, RecvLeaves, DevLeaves, Zenon DEF CloseNext
<1>2. /\ closed' <=> close_pc' # "idle"
      /\ aborted' => close_pc' = "done"
  BY <1>1 DEF CloseInv, CloseFlag, CloseTake, CloseAbort
<1>3. rpc' = "leaving" => Gone'
  <2>1. CASE ReaderNext
    BY <1>0, <2>1 DEF ReaderNext, ReaderTop, ReaderRead, ReaderEof, DispatchAsync, DispatchUnknown,
      DispatchTxAck, Reinsert, DispatchResolve, ReaderLeave, ReaderAbort, Dispatching, Dispatched, CloseInv, Gone
  <2>2. CASE rpc' = rpc
    BY <1>0, <2>2 DEF CloseInv
  <2>3. CASE UNCHANGED vars
    BY <2>2, <2>3 DEF vars
  <2> QED
    BY <2>1, <2>2, <2>3, Components, CallLeaves, CloseLeaves, RecvLeaves, DevLeaves
<1>4. ASSUME NEW d \in at_close'
      PROVE  /\ closed' /\ pc'[d] \in {"wait", "remove", "done", "cancelled"}
             /\ pc'[d] # "wait" => oneshot'[d].kind = "none"
             /\ close_pc' \in {"abort", "done"} /\ d \in InMap' => cmd[d] = "TX"
  <2>1. CASE CloseFlag
    <3>1. closed' /\ close_pc' = "take" /\ pc'[d] = "wait"
      BY <1>4, <2>1 DEF CloseFlag, Waiting
    <3> QED
      BY <3>1
  <2>2. CASE ~CloseFlag
    <3>1. d \in at_close
      BY <1>1, <1>4, <2>2, Zenon DEF CloseTake, CloseAbort
    <3>2. closed'
      BY <1>0, <3>1 DEF CloseInv
    <3>3. close_pc' \in {"abort", "done"} /\ d \in InMap' => cmd[d] = "TX"
      <4>1. CASE CloseTake
        <5>1. InMap' = {}
          BY <4>1, MapEmpty DEF CloseTake
        <5> QED
          BY <5>1
      <4>2. CASE ~CloseTake
        <5>1. close_pc' \in {"abort", "done"} => close_pc \in {"abort", "done"}
          BY <1>1, <2>2, <4>2 DEF CloseAbort
        <5> QED
          BY <3>1, <5>1, AtCloseStep DEF CloseInv
      <4> QED
        BY <4>1, <4>2
    <3> QED
      BY <3>1, <3>2, <3>3, AtCloseStep
  <2> QED
    BY <2>1, <2>2
<1> QED
  BY <1>0, <1>2, <1>3, <1>4 DEF CloseInv

(****************************************************************************)
(* The theorems                                                             *)
(****************************************************************************)

\* The invariant holds of a session that was just spawned,
LEMMA ServiceInvInit == Init => SInv
<1> SUFFICES ASSUME Init PROVE SInv
  OBVIOUS
<1>1. IInv
  BY InitInv
<1>2. InMap = {}
  BY CallsAssumption DEF Init, InMap
<1>3. \A c \in Calls : oneshot[c] = Plain("none") /\ result[c] = Plain("none") /\ pc[c] = "idle"
  BY DEF Init
<1>4. TruthInv
  BY EmptySeq DEF Init, TruthInv
<1>5. ChannelInv /\ ResultInv
  BY <1>3, PlainIs, CallsAssumption DEF ChannelInv, ResultInv, ResultFits
<1>6. LifeInv
  BY <1>2, <1>3, PlainIs, CallsAssumption DEF Init, LifeInv, Listening
<1>7. CloseInv
  BY DEF Init, CloseInv
<1> QED
  BY <1>1, <1>4, <1>5, <1>6, <1>7 DEF SInv

\* and every step keeps it.
LEMMA ServiceInvNext == SInv /\ [Next]_vars => SInv'
BY NextInv, TruthPreserved, ChannelPreserved, ResultPreserved, LifePreserved, ClosePreserved DEF SInv

\* The invariant of the channels, the results, the map and close() holds throughout
\* every behaviour of the session.
THEOREM SessionServiceInvariant == Spec => []SInv
BY ServiceInvInit, ServiceInvNext, PTL DEF Spec

\* What a call may return under its own tag is earned, or the call shares the tag.
LEMMA DecidedByOther ==
  ASSUME IInv, NEW c \in Calls, NEW r \in Outcomes, Fits(r, c), ResultFits(c, r), r.kind \in {"Ok", "Unexpected"}
  PROVE  c \in Sharers \/ (r.kind = "Ok" /\ c \in served)
<1>1. r.of \in Calls
  BY DEF Outcomes, ResultFits
<1>2. CASE r.of = c
  BY <1>2 DEF ResultFits, Earned
<1>3. CASE r.of # c
  <2>1. tag[r.of] = tag[c] /\ tag[c] # 0
    BY <1>1, CallsAssumption DEF Fits, IInv, SerialInv
  <2> QED
    BY <1>1, <1>3, <2>1, OneTagShared
<1> QED
  BY <1>2, <1>3

\* dispatch's two-phase completion of TX and the typed helpers: for every set of calls,
\* Ok is only returned for a command the device carried out, and UnexpectedResponse
\* only to a call that shares its tag.
THEOREM OkIsServed == Spec => []OkMeansServed
<1>1. SInv => OkMeansServed
  <2>1. SUFFICES ASSUME SInv, NEW c \in Calls, result[c].kind \in {"Ok", "Unexpected"}
                 PROVE  c \in Sharers \/ (result[c].kind = "Ok" /\ c \in served)
    BY DEF OkMeansServed, Sharers
  <2>2. result[c] \in Outcomes /\ Fits(result[c], c) /\ ResultFits(c, result[c])
    BY <2>1 DEF SInv, ResultInv, IInv, TypeOK, CallTypes, OutcomeInv, Fits
  <2> QED
    BY <2>1, <2>2, DecidedByOther DEF SInv
<1> QED
  BY <1>1, SessionServiceInvariant, PTL

\* The Ok(Err(_)) arm of send_command: ReaderExited means that the reader task is gone,
\* or that a call a cycle of tags away displaced the entry of this one.
THEOREM ReaderExitedIsHonest == Spec => []ReaderExitedHonest
<1>1. SInv => ReaderExitedHonest
  BY DEF SInv, ResultInv, ResultFits, Ended, Sharers, ReaderExitedHonest
<1> QED
  BY <1>1, SessionServiceInvariant, PTL

\* The error arms of send_command clean up: no entry outlives its call, a dropped
\* future's and a TX's apart.
THEOREM SlotsDoNotLeak == Spec => []NoSlotLeak
<1>1. SInv => NoSlotLeak
  BY DEF SInv, LifeInv, NoSlotLeak
<1> QED
  BY <1>1, SessionServiceInvariant, PTL

\* close() with the reader's own exit: whoever takes the entries out of the map, every
\* command that was waiting when close began is woken.
THEOREM CloseWakes == Spec => []CloseWakesPending
<1>1. SInv => CloseWakesPending
  <2>1. SUFFICES ASSUME SInv, close_pc = "done", rpc = "done", NEW c \in at_close,
                        oneshot[c].kind \in {"open", "dropped"}
                 PROVE  cmd[c] = "TX" \/ c \in Sharers
    BY DEF CloseWakesPending, Sharers
  <2>2. c \in Calls /\ pc[c] = "wait" /\ (c \in InMap => cmd[c] = "TX")
    BY <2>1 DEF SInv, CloseInv, IInv, TypeOK, CallTypes
  <2>3. held # c
    BY <2>1, <2>2 DEF SInv, LifeInv
  <2> QED
    BY <2>1, <2>2, <2>3 DEF SInv, LifeInv, Listening
<1> QED
  BY <1>1, SessionServiceInvariant, PTL

(****************************************************************************)
(* Session implements CommandService                                        *)
(****************************************************************************)

\* The abstract variables that are not variables of the session.
AbsPhase   == [c \in Calls |-> Phase(c)]
AbsOutcome == [c \in Calls |-> IF pc[c] = "done" THEN result[c].kind ELSE "none"]

\* A sharer of the tag is a twin of the service.
LEMMA SharerIsTwin ==
  ASSUME IInv, NEW c \in Sharers
  PROVE  Service!Twin(c)
<1>1. PICK d \in Calls \ {c} : tag[d] = tag[c] /\ FarApart(c, d)
  BY DEF Sharers, SharesTag
<1>2. serial[c] \in Nat /\ serial[d] \in Nat /\ c \in Calls
  BY DEF IInv, TypeOK, TagTypes, Sharers
<1>3. serial[d] # 0
  BY <1>1, <1>2, TagAssumption DEF FarApart, IInv, SerialInv
<1> QED
  BY <1>1, <1>3 DEF Service!Twin, FarApart

\* What a call returns is an honest outcome of the service.
LEMMA ResultIsHonest ==
  ASSUME IInv, NEW c \in Calls, NEW r \in Outcomes, Fits(r, c), ResultFits(c, r), r.kind # "none"
  PROVE  r.kind \in Service!Outcomes /\ Service!Honest(c, r.kind)
<1>1. r.kind \in Service!Outcomes
  BY DEF ResultFits, Service!Outcomes, TxResults
<1>2. r.kind \in {"Ok", "Unexpected"} => c \in Sharers \/ (r.kind = "Ok" /\ c \in served)
  BY DecidedByOther
<1>3. /\ r.kind = "Closed" => closed \/ ~link
      /\ r.kind = "Io" => ~link
      /\ r.kind = "ReaderExited" => closed \/ c \in Sharers
  BY Zenon DEF ResultFits, Gone, Ended
<1>4. c \in Sharers => Service!Twin(c)
  BY SharerIsTwin
<1> QED
  BY <1>1, <1>2, <1>3, <1>4 DEF Service!Honest

\* The actions of the service, in terms of the session's variables.
LEMMA ToIssue ==
  ASSUME NEW c \in Calls, AbsPhase[c] = "idle", ~closed, AbsPhase' = [AbsPhase EXCEPT ![c] = "open"],
         issued' = issued + 1, serial' = [serial EXCEPT ![c] = issued + 1],
         UNCHANGED <<served, AbsOutcome, closed, link>>
  PROVE  Service!Issue(c)
BY DEF AbsPhase, AbsOutcome, Phase, Service!Issue

\* A call that is turned down at once is refused.
LEMMA ToRefuse ==
  ASSUME NEW c \in Calls, AbsPhase[c] = "idle", AbsPhase' = [AbsPhase EXCEPT ![c] = "done"],
         NEW k, k = "Length" \/ (closed /\ k = "Closed"), AbsOutcome' = [AbsOutcome EXCEPT ![c] = k],
         UNCHANGED <<serial, issued, served, closed, link>>
  PROVE  Service!Refuse(c)
<1>1. k \in {"Length"} \cup IF closed THEN {"Closed"} ELSE {}
  OBVIOUS
<1>2. \E o \in {"Length"} \cup IF closed THEN {"Closed"} ELSE {} : AbsOutcome' = [AbsOutcome EXCEPT ![c] = o]
  BY <1>1
<1> QED
  BY <1>2 DEF AbsPhase, AbsOutcome, Phase, Service!Refuse

\* A call that returns finishes, with an honest outcome.
LEMMA ToFinish ==
  ASSUME NEW c \in Calls, AbsPhase[c] = "open", AbsPhase' = [AbsPhase EXCEPT ![c] = "done"],
         NEW k \in Service!Outcomes \ {"Length"}, Service!Honest(c, k), AbsOutcome' = [AbsOutcome EXCEPT ![c] = k],
         UNCHANGED <<serial, issued, served, closed, link>>
  PROVE  Service!Finish(c)
<1>1. \E o \in Service!Outcomes \ {"Length"} : Service!Honest(c, o) /\ AbsOutcome' = [AbsOutcome EXCEPT ![c] = o]
  OBVIOUS
<1> QED
  BY <1>1 DEF AbsPhase, AbsOutcome, Phase, Service!Finish

\* A future that is dropped is abandoned.
LEMMA ToAbandon ==
  ASSUME NEW c \in Calls, AbsPhase[c] = "open", AbsPhase' = [AbsPhase EXCEPT ![c] = "cancelled"],
         UNCHANGED <<serial, issued, served, AbsOutcome, closed, link>>
  PROVE  Service!Abandon(c)
BY DEF AbsPhase, AbsOutcome, Phase, Service!Abandon

\* A command the device serves is carried out.
LEMMA ToCarryOut ==
  ASSUME NEW c \in Calls, serial[c] # 0, c \notin served, served' = served \cup {c},
         UNCHANGED <<AbsPhase, AbsOutcome, serial, issued, closed, link>>
  PROVE  Service!CarryOut(c)
BY DEF AbsPhase, AbsOutcome, Phase, Service!CarryOut

\* How the abstract variables follow a step of call c.
LEMMA CallMovesAbs ==
  ASSUME IInv, NEW c \in Calls, NEW l, Goto(c, l), \A d \in Calls \ {c} : result'[d] = result[d]
  PROVE  /\ AbsPhase' = [AbsPhase EXCEPT ![c] = IF l \in {"idle", "done", "cancelled"} THEN l ELSE "open"]
         /\ AbsOutcome' = [AbsOutcome EXCEPT ![c] = IF l = "done" THEN result'[c].kind ELSE "none"]
<1>1. pc'[c] = l /\ \A d \in Calls \ {c} : pc'[d] = pc[d]
  BY DEF Goto, IInv, TypeOK, CallTypes
<1> QED
  BY <1>1 DEF AbsPhase, AbsOutcome, Phase

\* Steps that move no call are invisible to it.
LEMMA AbsUnchanged ==
  ASSUME UNCHANGED <<pc, result>>
  PROVE  UNCHANGED <<AbsPhase, AbsOutcome>>
BY DEF AbsPhase, AbsOutcome, Phase

\* The steps of a caller: it is issued, refused, finished or abandoned; the others are
\* the session's own business.
LEMMA CallImplements ==
  ASSUME SInv, NEW c \in Calls, CallNext(c)
  PROVE  \/ Service!Issue(c) \/ Service!Refuse(c) \/ Service!Finish(c) \/ Service!Abandon(c)
         \/ UNCHANGED <<AbsPhase, AbsOutcome, serial, issued, served, closed, link>>
<1>0. /\ IInv /\ ResultInv /\ result \in [Calls -> Outcomes] /\ DOMAIN pc = Calls
      /\ UNCHANGED <<served, closed, link>>
  BY CallLeaves DEF SInv, IInv, TypeOK, CallTypes
<1>1. [Next]_vars
  BY Zenon DEF Next
<1>2. result' \in [Calls -> Outcomes] /\ Fits(result'[c], c) /\ ResultFits(c, result'[c])
  BY <1>1, CallsPreserved, ResultsPreserved, ResultStepFits DEF SInv, CallTypes, Outcomes, Kinds, TxResults
<1>3. \A d \in Calls \ {c} : result'[d] = result[d]
  <2>1. result' = result \/ \E o : result' = [result EXCEPT ![c] = o]
    BY Zenon DEF CallNext, CallStep, SendCommand, SendCommandClosed, TransmitEmpty, InsertPending, Return,
      LockWriter, WriteFrame, WriteFails, Resolved, SenderDropped, Timeout, RemovePending, Cancel
  <2> QED
    BY <1>0, <2>1
<1>4. /\ AbsPhase[c] = Phase(c) /\ DOMAIN AbsPhase = Calls /\ DOMAIN AbsOutcome = Calls
      /\ pc[c] # "done" => AbsOutcome[c] = "none"
      /\ AbsPhase = [AbsPhase EXCEPT ![c] = Phase(c)]
      /\ pc[c] # "done" => AbsOutcome = [AbsOutcome EXCEPT ![c] = "none"]
  BY DEF AbsPhase, AbsOutcome
<1>5. CASE SendCommand(c)
  <2>1. pc[c] = "idle" /\ ~closed /\ Goto(c, "insert") /\ alloc_tag(c)
    BY <1>5 DEF SendCommand
  <2>2. AbsPhase' = [AbsPhase EXCEPT ![c] = "open"] /\ UNCHANGED AbsOutcome /\ AbsPhase[c] = "idle"
    BY <1>0, <1>3, <1>4, <2>1, CallMovesAbs DEF Phase
  <2>3. Service!Issue(c)
    BY <1>0, <2>1, <2>2, ToIssue DEF alloc_tag
  <2> QED
    BY <2>3
<1>6. CASE SendCommandClosed(c) \/ TransmitEmpty(c)
  <2>1. PICK k : Return(c, k) /\ (k = "Length" \/ (closed /\ k = "Closed"))
    BY <1>6 DEF SendCommandClosed, TransmitEmpty
  <2>2. pc[c] = "idle" /\ UNCHANGED <<serial, issued>>
    BY <1>6 DEF SendCommandClosed, TransmitEmpty
  <2>3. Goto(c, "done") /\ result'[c].kind = k
    BY <1>0, <2>1, PlainIs DEF Return, Goto
  <2>4. /\ AbsPhase' = [AbsPhase EXCEPT ![c] = "done"] /\ AbsOutcome' = [AbsOutcome EXCEPT ![c] = k]
        /\ AbsPhase[c] = "idle"
    BY <1>0, <1>3, <1>4, <2>2, <2>3, CallMovesAbs DEF Phase
  <2>5. Service!Refuse(c)
    BY <1>0, <2>1, <2>2, <2>4, ToRefuse
  <2> QED
    BY <2>5
<1>7. CASE Resolved(c) \/ RemovePending(c)
  <2>1. pc[c] \in {"wait", "remove"} /\ Goto(c, "done") /\ UNCHANGED <<serial, issued>>
    BY <1>7 DEF Resolved, RemovePending
  <2>2. result'[c].kind \notin {"none", "Length"}
    <3>1. CASE Resolved(c)
      <4>1. result'[c] = [oneshot[c] EXCEPT !.kind = Outcome(cmd[c], @)]
        BY <1>0, <3>1 DEF Resolved
      <4>2. result'[c].kind = Outcome(cmd[c], oneshot[c].kind)
        BY <4>1 DEF SInv, IInv, TypeOK, MapTypes, Outcomes
      <4>3. Outcome(cmd[c], oneshot[c].kind) \in {"WireErr", "BadFrame", "Closed", "Ok", "Unexpected"} \cup TxResults
        BY DEF Outcome
      <4> QED
        BY <4>2, <4>3 DEF TxResults
    <3>2. CASE RemovePending(c)
      BY <1>0, <3>2 DEF RemovePending, ResultInv
    <3> QED
      BY <1>7, <3>1, <3>2
  <2>3. /\ AbsPhase' = [AbsPhase EXCEPT ![c] = "done"] /\ AbsPhase[c] = "open"
        /\ AbsOutcome' = [AbsOutcome EXCEPT ![c] = result'[c].kind]
    BY <1>0, <1>3, <1>4, <2>1, CallMovesAbs DEF Phase
  <2>4. result'[c].kind \in Service!Outcomes \ {"Length"} /\ Service!Honest(c, result'[c].kind)
    BY <1>0, <1>2, <2>2, ResultIsHonest
  <2>5. Service!Finish(c)
    BY <1>0, <2>1, <2>3, <2>4, ToFinish
  <2> QED
    BY <2>5
<1>8. CASE Cancel(c)
  <2>1. pc[c] \in Active /\ Goto(c, "cancelled") /\ UNCHANGED <<serial, issued>>
    BY <1>8 DEF Cancel, Active
  <2>2. AbsPhase' = [AbsPhase EXCEPT ![c] = "cancelled"] /\ AbsPhase[c] = "open" /\ UNCHANGED AbsOutcome
    BY <1>0, <1>3, <1>4, <2>1, CallMovesAbs DEF Phase, Active
  <2>3. Service!Abandon(c)
    BY <1>0, <2>1, <2>2, ToAbandon
  <2> QED
    BY <2>3
<1>9. CASE InsertPending(c) \/ LockWriter(c) \/ WriteFrame(c) \/ WriteFails(c) \/ SenderDropped(c) \/ Timeout(c)
  <2>1. /\ pc[c] \in {"insert", "lock", "write", "wait"} /\ UNCHANGED <<serial, issued>>
        /\ \E l \in {"lock", "write", "wait", "remove"} : Goto(c, l)
    BY <1>9 DEF InsertPending, LockWriter, WriteFrame, WriteFails, SenderDropped, Timeout
  <2>2. Phase(c) = "open" /\ pc[c] # "done"
    BY <2>1 DEF Phase
  <2>3. UNCHANGED <<AbsPhase, AbsOutcome>>
    BY <1>0, <1>3, <1>4, <2>1, <2>2, CallMovesAbs
  <2> QED
    BY <1>0, <2>1, <2>3
<1> QED
  BY <1>5, <1>6, <1>7, <1>8, <1>9 DEF CallNext, CallStep

\* A command the device carries out was issued.
LEMMA DevImplements ==
  ASSUME SInv, DevNext
  PROVE  \/ Service!Break
         \/ \E c \in Calls : Service!CarryOut(c)
         \/ UNCHANGED <<AbsPhase, AbsOutcome, serial, issued, served, closed, link>>
<1>0. UNCHANGED <<AbsPhase, AbsOutcome, serial, issued, closed>>
  BY DevLeaves, AbsUnchanged
<1>1. ASSUME NEW f \in TrueCmds, served' = served \cup {f.of}, link' = link
      PROVE  served' = served \/ \E c \in Calls : Service!CarryOut(c)
  <2>1. f.of \in Calls /\ serial[f.of] # 0
    BY <1>1 DEF TrueCmds, GoodCmds, CmdFrames
  <2>2. CASE f.of \in served
    BY <1>1, <2>2
  <2>3. CASE f.of \notin served
    BY <1>0, <1>1, <2>1, <2>3, ToCarryOut
  <2> QED
    BY <2>2, <2>3
<1>2. CASE DevAnswer
  <2>1. PICK f \in accepted : served' = served \/ served' = served \cup {f.of}
    BY <1>2 DEF DevAnswer
  <2>2. f \in TrueCmds /\ link' = link
    BY <1>2 DEF SInv, TruthInv, DevAnswer
  <2> QED
    BY <1>0, <1>1, <2>1, <2>2
<1>3. CASE DevTxDone
  <2>1. PICK f \in airing : served' = served \/ served' = served \cup {f.of}
    BY <1>3 DEF DevTxDone
  <2>2. f \in TrueCmds /\ link' = link
    BY <1>3 DEF SInv, TruthInv, DevTxDone
  <2> QED
    BY <1>0, <1>1, <2>1, <2>2
<1>4. CASE LinkDown
  <2>1. link /\ ~link' /\ served' = served
    BY <1>4, Zenon DEF LinkDown
  <2>2. (~link)' = TRUE
    BY <2>1
  <2> QED
    BY <1>0, <2>1, <2>2 DEF Service!Break, AbsPhase, AbsOutcome, Phase
<1>5. CASE DevRead \/ DevAsync \/ DevAsyncMalformed
  <2>1. UNCHANGED <<served, link>>
    BY <1>5, Zenon DEF DevRead, DevAsync, DevAsyncMalformed
  <2> QED
    BY <1>0, <2>1
<1> QED
  BY <1>2, <1>3, <1>4, <1>5 DEF DevNext

\* close shuts the service when it sets its flag.
LEMMA CloseImplements ==
  ASSUME SInv, CloseNext
  PROVE  Service!Shut \/ UNCHANGED <<AbsPhase, AbsOutcome, serial, issued, served, closed, link>>
<1>0. UNCHANGED <<AbsPhase, AbsOutcome, serial, issued, served, link>>
  BY CloseLeaves, AbsUnchanged
<1>1. CASE CloseFlag
  <2>1. closed' = TRUE /\ ~closed
    BY <1>1 DEF CloseFlag, SInv, CloseInv
  <2> QED
    BY <1>0, <2>1 DEF Service!Shut, AbsPhase, AbsOutcome, Phase
<1>2. CASE CloseTake \/ CloseAbort
  <2>1. closed' = closed
    BY <1>2, Zenon DEF CloseTake, CloseAbort
  <2> QED
    BY <1>0, <2>1
<1> QED
  BY <1>1, <1>2 DEF CloseNext

\* Every step of the session is a step of the service, or none.
LEMMA ServiceStep == SInv /\ [Next]_vars => [Service!Next]_(Service!vars)
<1> SUFFICES ASSUME SInv, [Next]_vars PROVE [Service!Next]_(Service!vars)
  OBVIOUS
<1>1. ASSUME UNCHANGED <<AbsPhase, AbsOutcome, serial, issued, served, closed, link>>
      PROVE  UNCHANGED Service!vars
  BY <1>1 DEF Service!vars, AbsPhase, AbsOutcome, Phase
<1>2. ASSUME NEW c \in Calls, CallNext(c) PROVE Service!Next \/ UNCHANGED Service!vars
  BY <1>1, <1>2, CallImplements, Zenon DEF Service!Next
<1>3. CASE DevNext
  BY <1>1, <1>3, DevImplements, Zenon DEF Service!Next
<1>4. CASE CloseNext
  BY <1>1, <1>4, CloseImplements, Zenon DEF Service!Next
<1>5. CASE ReaderNext \/ RecvNext
  <2>1. UNCHANGED <<AbsPhase, AbsOutcome>>
    BY <1>5, ReaderLeaves, RecvLeaves, AbsUnchanged
  <2> QED
    BY <1>1, <1>5, <2>1, ReaderLeaves, RecvLeaves
<1>6. CASE UNCHANGED vars
  <2>1. UNCHANGED <<AbsPhase, AbsOutcome>>
    BY <1>6, AbsUnchanged DEF vars
  <2> QED
    BY <1>1, <1>6, <2>1 DEF vars
<1> QED
  BY <1>2, <1>3, <1>4, <1>5, <1>6, Components, Zenon

\* A session that was just spawned is a service that was just started.
LEMMA ServiceInit == Init => Service!Init
<1> SUFFICES ASSUME Init PROVE Service!Init
  OBVIOUS
<1>1. [c \in Calls |-> Phase(c)] = [c \in Calls |-> "idle"]
  BY DEF Init, Phase
<1>2. [c \in Calls |-> IF pc[c] = "done" THEN result[c].kind ELSE "none"] = [c \in Calls |-> "none"]
  BY DEF Init
<1> QED
  BY <1>1, <1>2 DEF Init, Service!Init

\* send_command, dispatch, reader_loop and close implement CommandService, for every set
\* of calls and every largest tag: a call ends once and its result stands; Ok, Closed,
\* Io and ReaderExited are honest about the command, the session and the transport.
THEOREM SessionIsService == Spec => IsService
<1>1. Init /\ [][Next]_vars /\ []SInv => Service!Init /\ [][Service!Next]_(Service!vars)
  BY ServiceInit, ServiceStep, PTL
<1> QED
  BY <1>1, SessionServiceInvariant, PTL DEF Spec, IsService, Service!Spec

=============================================================================
