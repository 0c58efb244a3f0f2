--------------------------- MODULE SessionProofs ---------------------------
(****************************************************************************)
(* Proofs about Session, for every set of calls, every largest tag and      *)
(* every environment: its type invariant, and that a response reaches the   *)
(* call it was sent for.                                                    *)
(****************************************************************************)
EXTENDS Session, SequenceTheorems, TLAPS

(****************************************************************************)
(* The inductive invariant                                                  *)
(****************************************************************************)

Active == {"insert", "lock", "write", "wait", "remove"}

\* Frames that carry the tag of the call they belong to.
GoodCmds    == {f \in CmdFrames : f.tag = tag[f.of] /\ serial[f.of] > 0}
GoodReplies == {f \in Replies : f.tag = tag[f.of] /\ serial[f.of] > 0}

\* Serial numbers go with tags and with the progress of the call.
SerialInv ==
  \A c \in Calls :
    /\ serial[c] <= issued
    /\ serial[c] = 0 <=> tag[c] = 0
    /\ pc[c] = "idle" => serial[c] = 0
    /\ pc[c] \in Active => serial[c] > 0

\* How far next_tag has moved since a call got its tag, less than a cycle ago.
DistanceInv ==
  \A c \in Calls :
    serial[c] > 0 /\ issued + 1 - serial[c] < MaxTag =>
      \/ next_tag - tag[c] = issued + 1 - serial[c]
      \/ next_tag - tag[c] = issued + 1 - serial[c] - MaxTag

\* Calls with one tag are a cycle apart.
PairInv ==
  \A c, d \in Calls :
    c # d /\ serial[c] > 0 /\ serial[d] > 0 /\ tag[c] = tag[d] => FarApart(c, d)

CmdInv ==
  /\ toDev \in Seq(GoodCmds \cup {Garbled})
  /\ accepted \subseteq GoodCmds /\ airing \subseteq GoodCmds

HostInv ==
  /\ toHost \in Seq(GoodReplies \cup Asyncs)
  /\ works \in Seq(GoodReplies \cup Asyncs)

\* A slot is filed under the tag of its call, in the map and in dispatch's hand.
SlotInv ==
  /\ \A t \in Tags : pending[t] # Nil => tag[pending[t]] = t
  /\ rpc = "reinsert" => /\ works # <<>> /\ Head(works).tag # 0
                         /\ held \in Calls /\ tag[held] = Head(works).tag

\* What a call was sent or returned came under its own tag.
OutcomeInv ==
  \A c \in Calls :
    /\ oneshot[c].of # Nil => tag[oneshot[c].of] = tag[c] /\ serial[oneshot[c].of] > 0 /\ serial[c] > 0
    /\ result[c].of # Nil => tag[result[c].of] = tag[c] /\ serial[result[c].of] > 0 /\ serial[c] > 0

IInv ==
  /\ TypeOK /\ SerialInv /\ DistanceInv /\ PairInv
  /\ CmdInv /\ HostInv /\ SlotInv /\ OutcomeInv

(****************************************************************************)
(* Sequences and responses                                                  *)
(****************************************************************************)

\* The rest of a sequence, and any part of it, has elements of the same set.
LEMMA TailIn ==
  ASSUME NEW S, NEW s \in Seq(S), s # <<>>
  PROVE  Head(s) \in S /\ Tail(s) \in Seq(S)
BY HeadTailProperties

\* A part of a sequence has elements of the same set.
LEMMA PartIn ==
  ASSUME NEW S, NEW s \in Seq(S), NEW m \in Nat \ {0}, NEW n \in Nat, n <= Len(s)
  PROVE  SubSeq(s, m, n) \in Seq(S)
<1>1. \A i \in m .. n : s[i] \in S
  BY ElementOfSeq
<1> QED
  BY <1>1, SubSeqProperties

\* A larger set has more sequences.
LEMMA SeqGrows ==
  ASSUME NEW S, NEW T, S \subseteq T, NEW s \in Seq(S)
  PROVE  s \in Seq(T)
BY SeqMonotonic

\* A frame with a tag other than 0 is a reply.
LEMMA TaggedIsReply ==
  ASSUME NEW f \in Replies \cup Asyncs, f.tag # 0
  PROVE  f \in Replies /\ f.tag \in Tags /\ f.of \in Calls
BY DEF Replies, Asyncs

\* dispatch and the typed helpers produce values of the declared kinds.
LEMMA KindsClosed ==
  /\ \A k, f : Response(k, f) \in Kinds
  /\ \A k : \A r \in Kinds : Outcome(k, r) \in Kinds
<1>1. ASSUME NEW k, NEW f PROVE Response(k, f) \in Kinds
  BY DEF Response, Kinds, OkKind, TxResults
<1>2. ASSUME NEW k, NEW r \in Kinds PROVE Outcome(k, r) \in Kinds
  BY <1>2 DEF Outcome, Kinds, TxResults
<1> QED
  BY <1>1, <1>2

\* Dropping or waking wakers keeps the channels well formed.
LEMMA WakersTyped ==
  ASSUME oneshot \in [Calls -> Outcomes], NEW S
  PROVE  DropWakers(S) \in [Calls -> Outcomes] /\ WakeClosed(S) \in [Calls -> Outcomes]
BY DEF DropWakers, WakeClosed, Outcomes, Plain, Kinds

\* What the device sends is a reply or an asynchronous frame.
LEMMA RepliesTyped ==
  /\ \A k \in Commands : OkKind(k) \in Bodies
  /\ \A f \in CmdFrames, t \in {"OK", "ERR", "TX_DONE", "OTHER"}, b \in Bodies : Reply(f, t, b) \in Replies
  /\ \A n \in Nat, t \in {"RX", "ERR", "OTHER", "GARBLED"}, b \in Bodies : Async(n, t, b) \in Asyncs
<1>1. \A k \in Commands : OkKind(k) \in Bodies
  BY DEF OkKind, Bodies
<1>2. \A f \in CmdFrames, t \in {"OK", "ERR", "TX_DONE", "OTHER"}, b \in Bodies : Reply(f, t, b) \in Replies
  BY DEF Reply, Replies, CmdFrames
<1>3. \A n \in Nat, t \in {"RX", "ERR", "OTHER", "GARBLED"}, b \in Bodies : Async(n, t, b) \in Asyncs
  BY DEF Async, Asyncs
<1> QED
  BY <1>1, <1>2, <1>3

(****************************************************************************)
(* The type invariant is preserved                                          *)
(****************************************************************************)

USE DEF tagVars, callVars, closeVars, rdrVars, queueVars, rcvVars, wireVars, devVars

\* What each component leaves alone.
LEMMA CallLeaves ==
  ASSUME NEW c \in Calls, CallNext(c)
  PROVE  UNCHANGED <<cmd, closeVars, rdrVars, queueVars, rcvVars, toHost, link, devVars>>
BY Zenon DEF CallNext, CallStep, SendCommand, SendCommandClosed, TransmitEmpty, InsertPending,
  LockWriter, WriteFrame, WriteFails, Resolved, SenderDropped, Timeout, RemovePending, Cancel

\* What the reader leaves alone.
LEMMA ReaderLeaves ==
  ASSUME ReaderNext
  PROVE  UNCHANGED <<tagVars, callVars, closeVars, rcvVars, err_got, toDev, link, torn, devVars, writer>>
BY Zenon DEF ReaderNext, ReaderTop, ReaderRead, ReaderEof, DispatchAsync, DispatchUnknown,
  DispatchTxAck, Reinsert, DispatchResolve, ReaderLeave, ReaderAbort

\* What close leaves alone.
LEMMA CloseLeaves ==
  ASSUME CloseNext
  PROVE  UNCHANGED <<tagVars, callVars, rdrVars, queueVars, rcvVars, wireVars, devVars, writer>>
BY Zenon DEF CloseNext, CloseFlag, CloseTake, CloseAbort

RecvNext == (\E r \in Receivers : RxCall(r) \/ RxStep(r) \/ RxCancel(r)) \/ DrainAsyncErrors

\* What the receivers leave alone.
LEMMA RecvLeaves ==
  ASSUME RecvNext
  PROVE  UNCHANGED <<tagVars, callVars, closeVars, rdrVars, wireVars, devVars, pending, writer, oneshot>>
BY Zenon DEF RecvNext, RxCall, RxStep, RxLock, RxTake, RxNone, RxCancel, DrainAsyncErrors

\* What the device leaves alone.
LEMMA DevLeaves ==
  ASSUME DevNext
  PROVE  UNCHANGED <<tagVars, callVars, closeVars, rdrVars, queueVars, rcvVars, torn, pending, writer,
                     oneshot>>
BY Zenon DEF DevNext, DevRead, DevAnswer, DevTxDone, DevAsync, DevAsyncMalformed, LinkDown

\* A step is one of some component's.
LEMMA Components ==
  ASSUME [Next]_vars
  PROVE  \/ \E c \in Calls : CallNext(c)
         \/ ReaderNext \/ CloseNext \/ RecvNext \/ DevNext \/ UNCHANGED vars
BY Zenon DEF Next, RecvNext

\* The flags only take the constants TRUE and FALSE.
LEMMA FlagsPreserved ==
  ASSUME FlagTypes, [Next]_vars
  PROVE  FlagTypes'
<1> USE DEF FlagTypes
<1>1. ASSUME NEW c \in Calls, CallNext(c) PROVE FlagTypes'
  BY <1>1, Zenon DEF CallNext, CallStep, SendCommand, SendCommandClosed, TransmitEmpty, InsertPending,
    LockWriter, WriteFrame, WriteFails, Resolved, SenderDropped, Timeout, RemovePending, Cancel
<1>2. CASE ReaderNext
  BY <1>2, ReaderLeaves, Zenon
<1>3. CASE CloseNext
  BY <1>3, Zenon DEF CloseNext, CloseFlag, CloseTake, CloseAbort
<1>4. CASE RecvNext
  BY <1>4, RecvLeaves, Zenon
<1>5. CASE DevNext
  BY <1>5, Zenon DEF DevNext, DevRead, DevAnswer, DevTxDone, DevAsync, DevAsyncMalformed, LinkDown
<1>6. CASE UNCHANGED vars
  BY <1>6, Zenon DEF vars
<1> QED
  BY <1>1, <1>2, <1>3, <1>4, <1>5, <1>6, Components, Zenon

\* Only SendCommand touches the tag counter and the tags.
LEMMA TagStep ==
  ASSUME [Next]_vars
  PROVE  UNCHANGED tagVars \/ \E c \in Calls : SendCommand(c)
<1>1. ASSUME NEW c \in Calls, CallNext(c) PROVE UNCHANGED tagVars \/ SendCommand(c)
  BY <1>1, Zenon DEF CallNext, CallStep, SendCommandClosed, TransmitEmpty, InsertPending,
    LockWriter, WriteFrame, WriteFails, Resolved, SenderDropped, Timeout, RemovePending, Cancel
<1>2. CASE UNCHANGED vars
  BY <1>2, Zenon DEF vars
<1> QED
  BY <1>1, <1>2, Components, ReaderLeaves, CloseLeaves, RecvLeaves, DevLeaves, Zenon

\* The tag counter stays in range, moves by one per call, and comes round after
\* MaxTag calls.
LEMMA TagsPreserved ==
  ASSUME IInv, [Next]_vars
  PROVE  TagTypes' /\ DistanceInv' /\ PairInv'
<1> USE TagAssumption DEF IInv, TypeOK, TagTypes, Tags
<1>1. CASE UNCHANGED tagVars
  BY <1>1 DEF DistanceInv, PairInv, FarApart
<1>2. ASSUME NEW c \in Calls, SendCommand(c) PROVE TagTypes' /\ DistanceInv' /\ PairInv'
  <2>1. /\ next_tag' = IF next_tag = MaxTag THEN 1 ELSE next_tag + 1
        /\ tag' = [tag EXCEPT ![c] = next_tag]
        /\ issued' = issued + 1
        /\ serial' = [serial EXCEPT ![c] = issued + 1]
        /\ pc[c] = "idle"
    BY <1>2 DEF SendCommand, alloc_tag, next_tag_after, wrapping_inc
  <2>2. TagTypes'
    BY <2>1
  <2>3. DistanceInv'
    <3>1. SUFFICES ASSUME NEW d \in Calls, serial'[d] > 0, issued' + 1 - serial'[d] < MaxTag
                   PROVE  \/ next_tag' - tag'[d] = issued' + 1 - serial'[d]
                          \/ next_tag' - tag'[d] = issued' + 1 - serial'[d] - MaxTag
      BY DEF DistanceInv
    <3>2. CASE d = c
      BY <2>1, <3>1, <3>2
    <3>3. CASE d # c
      <4>1. \/ next_tag - tag[d] = issued + 1 - serial[d]
            \/ next_tag - tag[d] = issued + 1 - serial[d] - MaxTag
        BY <2>1, <3>1, <3>3 DEF DistanceInv
      <4>2. tag[d] >= 1 /\ tag[d] <= MaxTag /\ serial[d] <= issued
        BY <2>1, <3>1, <3>3 DEF SerialInv
      <4> QED
        BY <2>1, <3>1, <3>3, <4>1, <4>2
    <3> QED
      BY <3>2, <3>3
  <2>4. PairInv'
    <3>1. ASSUME NEW d \in Calls, d # c, serial[d] > 0, tag[d] = next_tag
          PROVE  issued + 1 - serial[d] >= MaxTag
      BY <3>1 DEF DistanceInv, SerialInv
    <3>2. \A d \in Calls : d # c => tag'[d] = tag[d] /\ serial'[d] = serial[d]
      BY <2>1
    <3>3. tag'[c] = next_tag /\ serial'[c] = issued + 1
      BY <2>1
    <3>4. SUFFICES ASSUME NEW d \in Calls, NEW e \in Calls, d # e, serial'[d] > 0, serial'[e] > 0,
                          tag'[d] = tag'[e]
                   PROVE  serial'[d] - serial'[e] >= MaxTag \/ serial'[e] - serial'[d] >= MaxTag
      BY DEF PairInv, FarApart
    <3>5. CASE d = c
      BY <3>1, <3>2, <3>3, <3>4, <3>5
    <3>6. CASE e = c
      BY <3>1, <3>2, <3>3, <3>4, <3>6
    <3>7. CASE d # c /\ e # c
      BY <3>2, <3>4, <3>7 DEF PairInv, FarApart
    <3> QED
      BY <3>5, <3>6, <3>7
  <2> QED
    BY <2>2, <2>3, <2>4
<1> QED
  BY <1>1, <1>2, TagStep

\* How a step moves the program counters of the calls.
Moves ==
  \A d \in Calls : /\ pc'[d] = "idle" => pc[d] = "idle" /\ tag'[d] = tag[d] /\ serial'[d] = serial[d]
                   /\ pc'[d] \in Active => pc[d] \in Active \/ SendCommand(d)

\* The steps of send_command and of close keep the state of the calls well formed;
\* no other step touches it.
LEMMA CallsPreserved ==
  ASSUME IInv, [Next]_vars
  PROVE  CallTypes' /\ Moves
<1> USE DEF IInv, TypeOK, CallTypes, TagTypes
<1>0. \A k \in Kinds : Plain(k) \in Outcomes
  BY DEF Plain, Outcomes
<1>1. ASSUME UNCHANGED <<tagVars, callVars, writer>>, close_pc' \in {"idle", "take", "abort", "done"},
             at_close' \in SUBSET Calls
      PROVE  CallTypes' /\ Moves
  BY <1>1 DEF Moves
<1>2. ASSUME NEW c \in Calls, CallNext(c) PROVE CallTypes' /\ Moves
  <2>1. UNCHANGED <<cmd, close_pc, at_close>>
    BY <1>2, CallLeaves
  <2>2. ASSUME NEW l \in {"done", "cancelled", "remove", "wait", "write", "lock"}, NEW r \in Outcomes,
               NEW w \in Calls \cup {Nil}, pc' = [pc EXCEPT ![c] = l],
               l \notin {"done", "cancelled"} => pc[c] \in Active,
               result' = [result EXCEPT ![c] = r] \/ result' = result, writer' = w, UNCHANGED tagVars
        PROVE  CallTypes' /\ Moves
    BY <2>1, <2>2 DEF Moves, Active
  <2>3. CASE SendCommand(c)
    <3>1. pc' = [pc EXCEPT ![c] = "insert"] /\ result' = result /\ writer' = writer
      BY <2>3 DEF SendCommand, Goto
    <3>2. \A d \in Calls : d # c => tag'[d] = tag[d] /\ serial'[d] = serial[d]
      BY <2>3 DEF SendCommand, alloc_tag
    <3> QED
      BY <2>1, <2>3, <3>1, <3>2 DEF Moves, Active
  <2>4. CASE SendCommandClosed(c)
    BY <1>0, <2>2, <2>4 DEF SendCommandClosed, Return, Kinds
  <2>5. CASE TransmitEmpty(c)
    BY <1>0, <2>2, <2>5 DEF TransmitEmpty, Return, Kinds
  <2>6. CASE InsertPending(c)
    BY <2>2, <2>6 DEF InsertPending, Goto, Active
  <2>7. CASE LockWriter(c)
    BY <2>2, <2>7 DEF LockWriter, Goto, Active
  <2>8. CASE WriteFrame(c)
    BY <2>2, <2>8 DEF WriteFrame, Goto, Active
  <2>9. CASE WriteFails(c)
    BY <1>0, <2>2, <2>9 DEF WriteFails, Goto, Active, Kinds
  <2>10. CASE Resolved(c)
    <3>1. [oneshot[c] EXCEPT !.kind = Outcome(cmd[c], @)] \in Outcomes
      BY KindsClosed DEF Outcomes, MapTypes
    <3> QED
      BY <2>2, <2>10, <3>1 DEF Resolved, Goto, Active
  <2>11. CASE SenderDropped(c)
    BY <1>0, <2>2, <2>11 DEF SenderDropped, Goto, Active, Kinds
  <2>12. CASE Timeout(c)
    BY <1>0, <2>2, <2>12 DEF Timeout, Goto, Active, Kinds
  <2>13. CASE RemovePending(c)
    BY <2>2, <2>13 DEF RemovePending, Goto, Active
  <2>14. CASE Cancel(c)
    BY <1>0, <2>2, <2>14 DEF Cancel, Goto, Active, Kinds
  <2> QED
    BY <1>2, <2>3, <2>4, <2>5, <2>6, <2>7, <2>8, <2>9, <2>10, <2>11, <2>12, <2>13, <2>14, Zenon
      DEF CallNext, CallStep
<1>3. CASE ReaderNext
  BY <1>1, <1>3, ReaderLeaves
<1>4. CASE CloseNext
  <2>1. close_pc' \in {"take", "abort", "done"} /\ (at_close' = at_close \/ at_close' = Waiting)
    BY <1>4, Zenon DEF CloseNext, CloseFlag, CloseTake, CloseAbort
  <2> QED
    BY <1>1, <1>4, <2>1, CloseLeaves DEF Waiting
<1>5. CASE RecvNext
  BY <1>1, <1>5, RecvLeaves
<1>6. CASE DevNext
  BY <1>1, <1>6, DevLeaves
<1>7. CASE UNCHANGED vars
  BY <1>1, <1>7 DEF vars
<1> QED
  BY <1>2, <1>3, <1>4, <1>5, <1>6, <1>7, Components

\* Serial numbers are given with the tag, when the call leaves "idle".
LEMMA SerialPreserved ==
  ASSUME IInv, [Next]_vars
  PROVE  SerialInv'
<1> USE TagAssumption DEF IInv, TypeOK, TagTypes, Tags, SerialInv
<1>1. Moves
  BY CallsPreserved
<1>2. \A c \in Calls : SendCommand(c) => serial'[c] = issued + 1 /\ pc'[c] = "insert"
  BY DEF SendCommand, alloc_tag, Goto, CallTypes
<1>3. CASE UNCHANGED tagVars
  BY <1>1, <1>2, <1>3 DEF Moves
<1>4. ASSUME NEW c \in Calls, SendCommand(c) PROVE SerialInv'
  <2>1. /\ issued' = issued + 1 /\ tag'[c] = next_tag /\ serial'[c] = issued + 1
        /\ \A d \in Calls : d # c => tag'[d] = tag[d] /\ serial'[d] = serial[d]
    BY <1>4 DEF SendCommand, alloc_tag
  <2>2. pc'[c] = "insert" /\ \A d \in Calls : d # c => pc'[d] = pc[d]
    BY <1>4 DEF SendCommand, Goto, CallTypes
  <2> QED
    BY <2>1, <2>2
<1> QED
  BY <1>3, <1>4, TagStep

\* A tag once given stays, so good frames stay good.
LEMMA TagsKept ==
  ASSUME IInv, [Next]_vars
  PROVE  /\ \A c \in Calls : serial[c] > 0 => tag'[c] = tag[c] /\ serial'[c] = serial[c]
         /\ GoodCmds \subseteq GoodCmds' /\ GoodReplies \subseteq GoodReplies'
<1>1. \A c \in Calls : serial[c] > 0 => tag'[c] = tag[c] /\ serial'[c] = serial[c]
  <2>1. ASSUME NEW c \in Calls, SendCommand(c), NEW d \in Calls, serial[d] > 0
        PROVE  tag'[d] = tag[d] /\ serial'[d] = serial[d]
    BY <2>1 DEF SendCommand, alloc_tag, IInv, TypeOK, TagTypes, SerialInv
  <2> QED
    BY <2>1, TagStep
<1>2. \A f \in CmdFrames \cup Replies : f.of \in Calls
  BY DEF CmdFrames, Replies
<1> QED
  BY <1>1, <1>2 DEF GoodCmds, GoodReplies

\* The frames on the wire and in the device carry the tag of their call.
LEMMA CmdsPreserved ==
  ASSUME IInv, [Next]_vars
  PROVE  CmdInv'
<1> DEFINE S == GoodCmds \cup {Garbled}
<1> USE DEF IInv, CmdInv
<1>1. SUFFICES toDev' \in Seq(S) /\ accepted' \subseteq GoodCmds /\ airing' \subseteq GoodCmds
  <2>1. S \subseteq GoodCmds' \cup {Garbled'}
    BY TagsKept DEF Garbled
  <2>2. toDev' \in Seq(S) => toDev' \in Seq(GoodCmds' \cup {Garbled'})
    BY <2>1, SeqGrows
  <2> QED
    BY <2>2, TagsKept
<1>2. ASSUME NEW c \in Calls, CallNext(c)
      PROVE  toDev' \in Seq(S) /\ accepted' \subseteq GoodCmds /\ airing' \subseteq GoodCmds
  <2>1. CASE WriteFrame(c)
    <3>1. serial[c] > 0 /\ tag[c] \in Tags
      BY <2>1 DEF WriteFrame, SerialInv, Active, TypeOK, TagTypes, Tags
    <3>2. [cmd |-> cmd[c], tag |-> tag[c], of |-> c] \in GoodCmds
      BY <3>1 DEF GoodCmds, CmdFrames, TypeOK, CallTypes
    <3>3. toDev' = toDev \/ \E f \in S : toDev' = Append(toDev, f)
      BY <2>1, <3>2 DEF WriteFrame
    <3> QED
      BY <1>2, <3>3, CallLeaves, AppendProperties
  <2>2. CASE ~WriteFrame(c)
    <3>1. UNCHANGED toDev
      BY <1>2, <2>2, Zenon DEF CallNext, CallStep, SendCommand, SendCommandClosed, TransmitEmpty,
        InsertPending, LockWriter, WriteFails, Resolved, SenderDropped, Timeout, RemovePending, Cancel
    <3> QED
      BY <1>2, <3>1, CallLeaves
  <2> QED
    BY <2>1, <2>2
<1>3. CASE DevNext
  <2>1. toDev' = toDev \/ (toDev # <<>> /\ toDev' = Tail(toDev))
    BY <1>3, Zenon DEF DevNext, DevRead, DevAnswer, DevTxDone, DevAsync, DevAsyncMalformed, LinkDown
  <2>2. toDev' \in Seq(S)
    BY <2>1, TailIn
  <2>3. CASE DevRead
    <3>1. Head(toDev) \in S /\ Garbled.cmd = "Garbled"
      BY <2>3, TailIn DEF DevRead, Garbled
    <3> QED
      BY <2>2, <2>3, <3>1 DEF DevRead
  <2>4. CASE DevAnswer
    <3>1. accepted' \subseteq accepted /\ airing' \subseteq airing \cup accepted
      BY <2>4 DEF DevAnswer
    <3> QED
      BY <2>2, <3>1
  <2>5. CASE DevTxDone
    <3>1. accepted' = accepted /\ airing' \subseteq airing
      BY <2>5 DEF DevTxDone
    <3> QED
      BY <2>2, <3>1
  <2>6. CASE DevAsync \/ DevAsyncMalformed \/ LinkDown
    <3>1. accepted' = accepted /\ airing' = airing
      BY <2>6, Zenon DEF DevAsync, DevAsyncMalformed, LinkDown
    <3> QED
      BY <2>2, <3>1
  <2> QED
    BY <1>3, <2>3, <2>4, <2>5, <2>6 DEF DevNext
<1>4. CASE UNCHANGED vars
  BY <1>4 DEF vars
<1> QED
  BY <1>2, <1>3, <1>4, Components, ReaderLeaves, CloseLeaves, RecvLeaves

\* The device answers a good command with a good reply.
LEMMA DevSends ==
  ASSUME IInv, DevNext
  PROVE  /\ toHost' = toHost \/ \E x \in GoodReplies \cup Asyncs : toHost' = Append(toHost, x)
         /\ async_sent' = async_sent \/ \E x \in Asyncs : async_sent' = Append(async_sent, x)
<1> DEFINE Goal == /\ toHost' = toHost \/ \E x \in GoodReplies \cup Asyncs : toHost' = Append(toHost, x)
                   /\ async_sent' = async_sent \/ \E x \in Asyncs : async_sent' = Append(async_sent, x)
<1>0. Len(async_sent) + 1 \in Nat
  BY LenProperties DEF IInv, TypeOK, WireTypes
<1>1. ASSUME NEW x \in Asyncs, SendAsync(x) PROVE Goal
  BY <1>1 DEF SendAsync
<1>2. ASSUME NEW f \in GoodReplies, SendReply(f) PROVE Goal
  <2>1. Async(Len(async_sent) + 1, "GARBLED", f.body) \in Asyncs
    BY <1>0, RepliesTyped DEF GoodReplies, Replies
  <2>2. \A t \in {f.type, "OTHER"} : [f EXCEPT !.type = t, !.body = "Malformed"] \in GoodReplies
    BY DEF GoodReplies, Replies, Bodies
  <2> QED
    BY <1>1, <1>2, <2>1, <2>2 DEF SendReply
<1>3. ASSUME NEW f \in GoodCmds, NEW t \in {"OK", "ERR", "TX_DONE"}, NEW b \in Bodies
      PROVE  Reply(f, t, b) \in GoodReplies
  BY <1>3 DEF GoodCmds, GoodReplies, Reply, Replies, CmdFrames
<1>4. CASE DevRead \/ LinkDown
  BY <1>4, Zenon DEF DevRead, LinkDown
<1>5. CASE DevAnswer
  <2>1. PICK f \in accepted : \/ SendReply(Reply(f, "OK", OkKind(f.cmd)))
                              \/ SendReply(Reply(f, "ERR", "Code"))
    BY <1>5 DEF DevAnswer
  <2>2. f \in GoodCmds /\ f.cmd \in Commands
    BY DEF IInv, CmdInv, GoodCmds, CmdFrames
  <2>3. OkKind(f.cmd) \in Bodies /\ "Code" \in Bodies
    BY <2>2, RepliesTyped DEF Bodies
  <2> QED
    BY <1>2, <1>3, <2>1, <2>2, <2>3
<1>6. CASE DevTxDone
  <2>1. PICK f \in airing, r \in TxResults : SendReply(Reply(f, "TX_DONE", r))
    BY <1>6 DEF DevTxDone
  <2>2. f \in GoodCmds /\ r \in Bodies
    BY DEF IInv, CmdInv, Bodies
  <2> QED
    BY <1>2, <1>3, <2>1, <2>2
<1>7. CASE DevAsync
  <2>1. PICK t \in {"RX", "ERR", "OTHER", "GARBLED"} :
             SendAsync(Async(Len(async_sent) + 1, t, IF t = "RX" THEN "Rx" ELSE "Code"))
    BY <1>7 DEF DevAsync
  <2>2. Async(Len(async_sent) + 1, t, IF t = "RX" THEN "Rx" ELSE "Code") \in Asyncs
    BY <1>0, RepliesTyped DEF Bodies
  <2> QED
    BY <1>1, <2>1, <2>2
<1>8. CASE DevAsyncMalformed
  <2>1. PICK t \in {"RX", "ERR"} : SendAsync(Async(Len(async_sent) + 1, t, "Malformed"))
    BY <1>8 DEF DevAsyncMalformed
  <2>2. Async(Len(async_sent) + 1, t, "Malformed") \in Asyncs
    BY <1>0, RepliesTyped DEF Bodies
  <2> QED
    BY <1>1, <2>1, <2>2
<1> QED
  BY <1>4, <1>5, <1>6, <1>7, <1>8 DEF DevNext

\* What the reader takes over, and what it has left, was sent by the device.
LEMMA HostPreserved ==
  ASSUME IInv, [Next]_vars
  PROVE  HostInv'
<1> DEFINE S == GoodReplies \cup Asyncs
<1> USE DEF IInv, HostInv
<1>1. SUFFICES toHost' \in Seq(S) /\ works' \in Seq(S)
  <2>1. S \subseteq GoodReplies' \cup Asyncs'
    BY TagsKept DEF Asyncs, Bodies, TxResults
  <2>2. \A q : q \in Seq(S) => q \in Seq(GoodReplies' \cup Asyncs')
    BY <2>1, SeqGrows
  <2> QED
    BY <2>2
<1>2. CASE ReaderNext
  <2>1. CASE ReaderRead
    <3>1. PICK n \in 1 .. Len(toHost) : works' = SubSeq(toHost, 1, n) /\ toHost' = Unread(n)
      BY <2>1 DEF ReaderRead
    <3>2. Len(toHost) \in Nat
      BY LenProperties
    <3> QED
      BY <3>1, <3>2, PartIn DEF Unread
  <2>2. CASE ~ReaderRead
    <3>1. /\ toHost' = toHost
          /\ \/ works' = works
             \/ works' = <<>>
             \/ (rpc = "reinsert" \/ works # <<>>) /\ works' = Tail(works)
      BY <1>2, <2>2, Zenon DEF ReaderNext, ReaderTop, ReaderEof, DispatchAsync, DispatchUnknown,
        DispatchTxAck, Reinsert, DispatchResolve, ReaderLeave, ReaderAbort, Dispatching, Dispatched
    <3>2. <<>> \in Seq(S)
      BY EmptySeq
    <3> QED
      BY <3>1, <3>2, TailIn DEF SlotInv
  <2> QED
    BY <2>1, <2>2
<1>3. CASE DevNext
  BY <1>3, DevSends, DevLeaves, AppendProperties
<1>4. CASE UNCHANGED vars
  BY <1>4 DEF vars
<1> QED
  BY <1>2, <1>3, <1>4, Components, CallLeaves, CloseLeaves, RecvLeaves

\* The wire and the device stay well typed.
LEMMA WirePreserved ==
  ASSUME IInv, [Next]_vars
  PROVE  WireTypes'
<1> USE DEF IInv, TypeOK, WireTypes
<1>1. works' \in Seq(Replies \cup Asyncs) /\ toHost' \in Seq(Replies \cup Asyncs)
  <2>1. GoodReplies' \cup Asyncs' \subseteq Replies \cup Asyncs
    BY DEF GoodReplies, Asyncs, Replies, Tags, Bodies, TxResults
  <2> QED
    BY <2>1, HostPreserved, SeqGrows DEF HostInv
<1>2. toDev' \in Seq(CmdFrames \cup {Garbled}) /\ accepted' \subseteq CmdFrames /\ airing' \subseteq CmdFrames
  <2>1. GoodCmds' \subseteq CmdFrames /\ Garbled' = Garbled
    BY DEF GoodCmds, CmdFrames, Garbled, Tags, Commands
  <2>2. GoodCmds' \cup {Garbled'} \subseteq CmdFrames \cup {Garbled}
    BY <2>1
  <2> QED
    BY <2>1, <2>2, CmdsPreserved, SeqGrows DEF CmdInv
<1>3. async_sent' \in Seq(Asyncs) /\ served' \in SUBSET Calls
  <2>1. CASE DevNext
    <3>1. \A f \in CmdFrames : f.of \in Calls
      BY DEF CmdFrames
    <3>2. served' = served \/ \E f \in accepted \cup airing : served' = served \cup {f.of}
      <4>1. CASE DevAnswer
        BY <4>1 DEF DevAnswer
      <4>2. CASE DevTxDone
        BY <4>2 DEF DevTxDone
      <4>3. CASE ~DevAnswer /\ ~DevTxDone
        BY <2>1, <4>3, Zenon DEF DevNext, DevRead, DevAsync, DevAsyncMalformed, LinkDown
      <4> QED
        BY <4>1, <4>2, <4>3
    <3>3. served' \in SUBSET Calls
      BY <3>1, <3>2
    <3>4. async_sent' \in Seq(Asyncs)
      <4> HIDE DEF WireTypes
      <4>1. async_sent \in Seq(Asyncs)
        BY DEF WireTypes
      <4> QED
        BY <2>1, <4>1, DevSends, AppendProperties
    <3> QED
      BY <3>3, <3>4
  <2>2. CASE UNCHANGED vars
    BY <2>2 DEF vars
  <2> QED
    BY <2>1, <2>2, Components, CallLeaves, ReaderLeaves, CloseLeaves, RecvLeaves
<1> QED
  BY <1>1, <1>2, <1>3 DEF WireTypes, Replies, Asyncs, CmdFrames, Garbled, Tags, Bodies, TxResults, Commands

\* The event queues and the receivers stay well typed.
LEMMA QueuesPreserved ==
  ASSUME IInv, [Next]_vars
  PROVE  QueueTypes'
<1> USE DEF IInv, TypeOK, QueueTypes
<1>1. CASE ReaderNext
  <2>1. CASE DispatchAsync
    <3>1. Head(works) \in GoodReplies \cup Asyncs
      BY <2>1, TailIn DEF DispatchAsync, Dispatching, HostInv
    <3>2. Head(works).tag = 0
      BY <2>1 DEF DispatchAsync
    <3>3. Head(works) \in Asyncs
      BY <3>1, <3>2 DEF GoodReplies, Replies, Tags
    <3>4. Head(works).of \in Nat
      BY <3>3 DEF Asyncs
    <3>5. rx_q' \in Seq(Nat) /\ async_q' \in Seq(Nat)
      BY <2>1, <3>4, AppendProperties DEF DispatchAsync
    <3> QED
      BY <1>1, <3>5, ReaderLeaves DEF Receivers
  <2>2. CASE ~DispatchAsync
    <3>1. UNCHANGED <<rx_q, async_q>>
      BY <1>1, <2>2, Zenon DEF ReaderNext, ReaderTop, ReaderRead, ReaderEof, DispatchUnknown,
        DispatchTxAck, Reinsert, DispatchResolve, ReaderLeave, ReaderAbort
    <3> QED
      BY <1>1, <3>1, ReaderLeaves DEF Receivers
  <2> QED
    BY <2>1, <2>2
<1>2. ASSUME NEW r \in Receivers, RxCall(r) \/ RxLock(r) \/ RxNone(r) \/ RxCancel(r) PROVE QueueTypes'
  BY <1>2 DEF RxCall, RxLock, RxNone, RxCancel, Receivers
<1>3. ASSUME NEW r \in Receivers, RxTake(r) PROVE QueueTypes'
  <2>1. Head(rx_q) \in Nat /\ Tail(rx_q) \in Seq(Nat)
    BY <1>3, TailIn DEF RxTake
  <2> QED
    BY <1>3, <2>1, AppendProperties DEF RxTake, Receivers
<1>4. CASE DrainAsyncErrors
  <2>1. err_got' \in Seq(Nat) /\ async_q' \in Seq(Nat)
    BY <1>4, ConcatProperties, EmptySeq DEF DrainAsyncErrors
  <2> QED
    BY <1>4, <2>1 DEF DrainAsyncErrors, Receivers
<1>5. CASE UNCHANGED vars
  BY <1>5 DEF vars, Receivers
<1>6. CASE RecvNext
  BY <1>2, <1>3, <1>4, <1>6 DEF RecvNext, RxStep
<1>7. ASSUME UNCHANGED <<queueVars, rcvVars>> PROVE QueueTypes'
  BY <1>7 DEF Receivers
<1> QED
  BY <1>1, <1>5, <1>6, <1>7, Components, CallLeaves, CloseLeaves, DevLeaves

\* The frame being dispatched, when it carries a tag.
LEMMA HeadTagged ==
  ASSUME IInv, works # <<>>, Head(works).tag # 0
  PROVE  /\ Head(works) \in GoodReplies /\ Head(works).tag \in Tags /\ Head(works).of \in Calls
         /\ Head(works).tag = tag[Head(works).of] /\ serial[Head(works).of] > 0
<1>1. Head(works) \in GoodReplies \cup Asyncs
  BY TailIn DEF IInv, HostInv
<1>2. Head(works) \in GoodReplies
  BY <1>1 DEF Asyncs
<1> QED
  BY <1>2 DEF GoodReplies, Replies

\* Slots are added under the tag of their call: by send_command, and by dispatch
\* when it puts back the one it has in hand.
LEMMA SlotsPreserved ==
  ASSUME IInv, [Next]_vars
  PROVE  /\ pending' \in [Tags -> Calls \cup {Nil}]
         /\ \A t \in Tags : pending'[t] # Nil => tag[pending'[t]] = t
<1> DEFINE P == /\ pending' \in [Tags -> Calls \cup {Nil}]
                /\ \A t \in Tags : pending'[t] # Nil => tag[pending'[t]] = t
<1>0. pending \in [Tags -> Calls \cup {Nil}] /\ \A t \in Tags : pending[t] # Nil => tag[pending[t]] = t
  BY DEF IInv, TypeOK, MapTypes, SlotInv
<1>1. ASSUME NEW u, NEW x \in Calls \cup {Nil}, x # Nil => tag[x] = u, pending' = [pending EXCEPT ![u] = x]
      PROVE  P
  BY <1>0, <1>1
<1>2. ASSUME pending' = pending \/ pending' = [t \in Tags |-> Nil] PROVE P
  BY <1>0, <1>2
<1>3. ASSUME NEW c \in Calls, CallNext(c) PROVE P
  <2>1. CASE InsertPending(c)
    BY <1>1, <2>1 DEF InsertPending
  <2>2. CASE RemovePending(c)
    BY <1>1, <2>2 DEF RemovePending
  <2>3. CASE ~InsertPending(c) /\ ~RemovePending(c)
    <3>1. UNCHANGED pending
      BY <1>3, <2>3, Zenon DEF CallNext, CallStep, SendCommand, SendCommandClosed, TransmitEmpty,
        LockWriter, WriteFrame, WriteFails, Resolved, SenderDropped, Timeout, Cancel
    <3> QED
      BY <1>2, <3>1
  <2> QED
    BY <2>1, <2>2, <2>3
<1>4. CASE ReaderNext
  <2>1. CASE DispatchTxAck
    BY <1>1, <2>1 DEF DispatchTxAck
  <2>2. CASE DispatchResolve
    BY <1>1, <2>2 DEF DispatchResolve
  <2>3. CASE Reinsert
    BY <1>1, <2>3 DEF Reinsert, IInv, SlotInv
  <2>4. CASE ~DispatchTxAck /\ ~DispatchResolve /\ ~Reinsert
    <3>1. pending' = pending \/ pending' = [t \in Tags |-> Nil]
      BY <1>4, <2>4, Zenon DEF ReaderNext, ReaderTop, ReaderRead, ReaderEof, DispatchAsync,
        DispatchUnknown, ReaderLeave, ReaderAbort
    <3> QED
      BY <1>2, <3>1
  <2> QED
    BY <2>1, <2>2, <2>3, <2>4
<1>5. CASE CloseNext
  <2>1. pending' = pending \/ pending' = [t \in Tags |-> Nil]
    BY <1>5, Zenon DEF CloseNext, CloseFlag, CloseTake, CloseAbort
  <2> QED
    BY <1>2, <2>1
<1>6. CASE UNCHANGED vars
  BY <1>2, <1>6 DEF vars
<1> QED
  BY <1>2, <1>3, <1>4, <1>5, <1>6, Components, RecvLeaves, DevLeaves

\* The slot in dispatch's hand is the one of the frame it dispatches.
LEMMA HeldPreserved ==
  ASSUME IInv, [Next]_vars
  PROVE  /\ rpc' \in {"top", "read", "dispatch", "reinsert", "leaving", "done"} /\ held' \in Calls \cup {Nil}
         /\ rpc' = "reinsert" => /\ works' # <<>> /\ Head(works').tag # 0
                                 /\ held' \in Calls /\ tag[held'] = Head(works').tag
<1> DEFINE P == /\ rpc' \in {"top", "read", "dispatch", "reinsert", "leaving", "done"} /\ held' \in Calls \cup {Nil}
                /\ rpc' = "reinsert" => /\ works' # <<>> /\ Head(works').tag # 0
                                        /\ held' \in Calls /\ tag[held'] = Head(works').tag
<1>1. ASSUME UNCHANGED rdrVars PROVE P
  BY <1>1 DEF IInv, TypeOK, MapTypes, SlotInv
<1>2. CASE ReaderNext
  <2>1. CASE DispatchTxAck
    <3>1. Head(works).tag \in Tags
      BY <2>1, HeadTagged DEF DispatchTxAck, Dispatching
    <3> QED
      BY <2>1, <3>1 DEF DispatchTxAck, Dispatching, IInv, TypeOK, MapTypes, SlotInv
  <2>2. CASE ~DispatchTxAck
    <3>1. rpc' \in {"top", "read", "dispatch", "leaving", "done"} /\ (held' = held \/ held' = Nil)
      BY <1>2, <2>2 DEF ReaderNext, ReaderTop, ReaderRead, ReaderEof, DispatchAsync, DispatchUnknown,
        Reinsert, DispatchResolve, ReaderLeave, ReaderAbort, Dispatched
    <3> QED
      BY <3>1 DEF IInv, TypeOK, MapTypes
  <2> QED
    BY <2>1, <2>2
<1>3. CASE UNCHANGED vars
  BY <1>1, <1>3 DEF vars
<1> QED
  BY <1>1, <1>2, <1>3, Components, CallLeaves, CloseLeaves, RecvLeaves, DevLeaves

\* A frame's call shares the tag of the call whose channel or result it is in.
Fits(o, c) == o.of # Nil => tag[o.of] = tag[c] /\ serial[o.of] > 0 /\ serial[c] > 0

\* Wakers are dropped, told of the end, or sent the response to their own tag.
LEMMA ChannelsPreserved ==
  ASSUME IInv, [Next]_vars
  PROVE  oneshot' \in [Calls -> Outcomes] /\ \A c \in Calls : Fits(oneshot'[c], c)
<1> DEFINE P == oneshot' \in [Calls -> Outcomes] /\ \A c \in Calls : Fits(oneshot'[c], c)
<1>0. oneshot \in [Calls -> Outcomes] /\ \A c \in Calls : Fits(oneshot[c], c)
  BY DEF IInv, TypeOK, MapTypes, OutcomeInv, Fits
<1>1. \A k \in Kinds : Plain(k) \in Outcomes /\ \A c : Fits(Plain(k), c)
  BY DEF Plain, Outcomes, Fits
<1>2. ASSUME NEW S PROVE /\ DropWakers(S) \in [Calls -> Outcomes] /\ \A c \in Calls : Fits(DropWakers(S)[c], c)
                         /\ WakeClosed(S) \in [Calls -> Outcomes] /\ \A c \in Calls : Fits(WakeClosed(S)[c], c)
  <2>1. \A c \in Calls : DropWakers(S)[c] \in {oneshot[c], Plain("dropped")}
                         /\ WakeClosed(S)[c] \in {oneshot[c], Plain("Closed")}
    BY DEF DropWakers, WakeClosed
  <2>2. \A c \in Calls : Fits(Plain("dropped"), c) /\ Fits(Plain("Closed"), c)
    BY <1>1 DEF Kinds
  <2> QED
    BY <1>0, <2>1, <2>2, WakersTyped
<1>3. ASSUME NEW w \in [Calls -> Outcomes], \A d \in Calls : Fits(w[d], d), NEW c \in Calls,
             NEW o \in Outcomes, Fits(o, c), oneshot' = [w EXCEPT ![c] = o]
      PROVE  P
  BY <1>3
<1>4. ASSUME oneshot' = oneshot \/ (\E S : oneshot' = DropWakers(S) \/ oneshot' = WakeClosed(S)) PROVE P
  BY <1>0, <1>2, <1>4
<1>5. Plain("open") \in Outcomes /\ Plain("none") \in Outcomes
      /\ \A c \in Calls : Fits(Plain("open"), c) /\ Fits(Plain("none"), c)
  BY <1>1 DEF Kinds
<1>6. ASSUME NEW c \in Calls, CallNext(c) PROVE P
  <2>1. CASE InsertPending(c)
    BY <1>2, <1>3, <1>5, <2>1 DEF InsertPending
  <2>2. CASE RemovePending(c)
    BY <1>4, <2>2 DEF RemovePending
  <2>3. CASE Hangup(c)
    BY <1>0, <1>3, <1>5, <2>3 DEF Hangup
  <2>4. CASE UNCHANGED oneshot
    BY <1>4, <2>4
  <2> QED
    BY <1>6, <2>1, <2>2, <2>3, <2>4, Zenon DEF CallNext, CallStep, SendCommand, SendCommandClosed,
      TransmitEmpty, LockWriter, WriteFrame, WriteFails, Resolved, SenderDropped, Timeout, Cancel
<1>7. CASE ReaderNext
  <2>1. CASE DispatchResolve
    <3> DEFINE f == Head(works)
               c == pending[f.tag]
               o == [kind |-> Response(cmd[c], f), of |-> f.of]
    <3>1. f.tag \in Tags /\ f.of \in Calls /\ f.tag = tag[f.of] /\ serial[f.of] > 0
      BY <2>1, HeadTagged DEF DispatchResolve, Dispatching
    <3>2. c \in Calls /\ tag[c] = f.tag
      BY <2>1, <3>1 DEF DispatchResolve, IInv, TypeOK, MapTypes, SlotInv
    <3>3. serial[c] > 0
      BY <3>1, <3>2 DEF IInv, SerialInv, TypeOK, TagTypes, Tags
    <3>4. o \in Outcomes /\ Fits(o, c)
      BY <3>1, <3>2, <3>3, KindsClosed DEF Outcomes, Fits
    <3>5. oneshot' = oneshot \/ oneshot' = [oneshot EXCEPT ![c] = o]
      BY <2>1 DEF DispatchResolve
    <3> QED
      BY <1>0, <1>3, <1>4, <3>2, <3>4, <3>5
  <2>2. CASE ~DispatchResolve
    <3>1. oneshot' = oneshot \/ \E S : oneshot' = DropWakers(S) \/ oneshot' = WakeClosed(S)
      BY <1>7, <2>2, Zenon DEF ReaderNext, ReaderTop, ReaderRead, ReaderEof, DispatchAsync,
        DispatchUnknown, DispatchTxAck, Reinsert, ReaderLeave, ReaderAbort
    <3> QED
      BY <1>4, <3>1
  <2> QED
    BY <2>1, <2>2
<1>8. CASE CloseNext
  <2>1. oneshot' = oneshot \/ \E S : oneshot' = WakeClosed(S)
    BY <1>8, Zenon DEF CloseNext, CloseFlag, CloseTake, CloseAbort
  <2> QED
    BY <1>4, <2>1
<1>9. CASE UNCHANGED vars
  BY <1>4, <1>9 DEF vars
<1> QED
  BY <1>4, <1>6, <1>7, <1>8, <1>9, Components, RecvLeaves, DevLeaves

\* A call returns what its channel held, or something no frame decided.
LEMMA ResultsPreserved ==
  ASSUME IInv, [Next]_vars
  PROVE  \A c \in Calls : Fits(result'[c], c)
<1>0. result \in [Calls -> Outcomes] /\ \A c \in Calls : Fits(result[c], c) /\ Fits(oneshot[c], c)
  BY DEF IInv, TypeOK, CallTypes, OutcomeInv, Fits
<1>1. CASE result' = result
  BY <1>0, <1>1
<1>2. ASSUME NEW c \in Calls, CallNext(c) PROVE \A d \in Calls : Fits(result'[d], d)
  <2>1. ASSUME NEW k, result' = [result EXCEPT ![c] = Plain(k)] PROVE \A d \in Calls : Fits(result'[d], d)
    <3>1. Fits(Plain(k), c)
      BY DEF Fits, Plain
    <3> QED
      BY <1>0, <2>1, <3>1
  <2>2. CASE Resolved(c)
    <3>1. Fits([oneshot[c] EXCEPT !.kind = Outcome(cmd[c], @)], c)
      BY <1>0 DEF Fits, IInv, TypeOK, MapTypes, Outcomes
    <3> QED
      BY <1>0, <2>2, <3>1 DEF Resolved
  <2>3. CASE ~Resolved(c)
    <3>1. result' = result \/ \E k : result' = [result EXCEPT ![c] = Plain(k)]
      BY <1>2, <2>3, Zenon DEF CallNext, CallStep, SendCommand, SendCommandClosed, TransmitEmpty, Return,
        InsertPending, LockWriter, WriteFrame, WriteFails, SenderDropped, Timeout, RemovePending, Cancel
    <3> QED
      BY <1>1, <2>1, <3>1
  <2> QED
    BY <2>2, <2>3
<1>3. CASE UNCHANGED vars
  BY <1>1, <1>3 DEF vars
<1> QED
  BY <1>1, <1>2, <1>3, Components, ReaderLeaves, CloseLeaves, RecvLeaves, DevLeaves

(****************************************************************************)
(* The theorems                                                             *)
(****************************************************************************)

\* The session starts in the invariant.
LEMMA InitInv == Init => IInv
<1> SUFFICES ASSUME Init PROVE IInv
  OBVIOUS
<1> USE DEF Init
<1>0. Plain("none") \in Outcomes /\ Plain("none").of = Nil
  BY DEF Plain, Outcomes, Kinds
<1>1. FlagTypes
  BY Zenon DEF FlagTypes
<1>2. TagTypes /\ MapTypes
  BY <1>0, TagAssumption DEF TagTypes, MapTypes, Tags
<1>3. CallTypes
  BY <1>0, CmdAssumption DEF CallTypes
<1>4. QueueTypes
  BY EmptySeq DEF QueueTypes, Receivers
<1>5. WireTypes /\ CmdInv /\ HostInv
  BY EmptySeq DEF WireTypes, CmdInv, HostInv
<1>6. SerialInv /\ DistanceInv /\ PairInv
  BY DEF SerialInv, DistanceInv, PairInv, Active
<1>7. SlotInv /\ OutcomeInv
  BY <1>0 DEF SlotInv, OutcomeInv
<1> QED
  BY <1>1, <1>2, <1>3, <1>4, <1>5, <1>6, <1>7 DEF IInv, TypeOK

\* Every step of the session, of its callers and of the device keeps it.
LEMMA NextInv == IInv /\ [Next]_vars => IInv'
<1> SUFFICES ASSUME IInv, [Next]_vars PROVE IInv'
  OBVIOUS
<1>1. FlagTypes'
  BY FlagsPreserved DEF IInv, TypeOK
<1>2. MapTypes'
  BY SlotsPreserved, HeldPreserved, ChannelsPreserved
    DEF MapTypes, Tags, Outcomes, Kinds, TxResults
<1>3. TypeOK'
  BY <1>1, <1>2, TagsPreserved, CallsPreserved, QueuesPreserved, WirePreserved DEF TypeOK
<1>4. \A c \in Calls : serial[c] > 0 => tag'[c] = tag[c] /\ serial'[c] = serial[c]
  BY TagsKept
<1>5. \A c \in Calls : tag[c] # 0 => serial[c] > 0
  BY DEF IInv, SerialInv, TypeOK, TagTypes
<1>6. SlotInv'
  <2>1. ASSUME NEW t \in Tags, pending'[t] # Nil PROVE tag'[pending'[t]] = t
    <3>1. pending'[t] \in Calls \cup {Nil} /\ tag[pending'[t]] = t
      BY <2>1, SlotsPreserved
    <3>2. t # 0
      BY DEF Tags
    <3> QED
      BY <1>4, <1>5, <2>1, <3>1, <3>2
  <2>2. ASSUME rpc' = "reinsert"
        PROVE  works' # <<>> /\ Head(works').tag # 0 /\ held' \in Calls /\ tag'[held'] = Head(works').tag
    BY <1>4, <1>5, <2>2, HeldPreserved
  <2> QED
    BY <2>1, <2>2 DEF SlotInv, Tags
<1>7. OutcomeInv'
  <2>1. \A c \in Calls : oneshot'[c].of \in Calls \cup {Nil} /\ result'[c].of \in Calls \cup {Nil}
    BY ChannelsPreserved, CallsPreserved DEF CallTypes, Outcomes
  <2>2. \A c \in Calls : Fits(oneshot'[c], c) /\ Fits(result'[c], c)
    BY ChannelsPreserved, ResultsPreserved
  <2> QED
    BY <1>4, <2>1, <2>2 DEF OutcomeInv, Fits
<1> QED
  BY <1>3, <1>6, <1>7, TagsPreserved, SerialPreserved, CmdsPreserved, HostPreserved DEF IInv

\* The invariant holds throughout every behaviour of the session.
THEOREM SessionInvariant == Spec => []IInv
BY InitInv, NextInv, PTL DEF Spec

\* The tag counter is never 0, the map is keyed by tags, queues and wire only carry
\* well formed frames, and so on: alloc_tag, send_command, reader_loop and dispatch
\* keep every variable in its type.
THEOREM SessionTypes == Spec => []TypeOK
<1>1. IInv => TypeOK
  BY DEF IInv
<1> QED
  BY <1>1, SessionInvariant, PTL

\* alloc_tag, send_command and dispatch: whatever is late, lost, reordered,
\* corrupted, cancelled or closed, the frame that decides a call is the device's
\* answer to that call, or to one a whole cycle of tags away.
THEOREM ResponsesCorrelate == Spec => []Correlated
<1>1. IInv => Correlated
  <2>1. SUFFICES ASSUME IInv, NEW c \in Calls, result[c].of \notin {Nil, c}
                 PROVE  FarApart(c, result[c].of)
    BY DEF Correlated
  <2>2. result[c].of \in Calls
    BY <2>1 DEF IInv, TypeOK, CallTypes, Outcomes
  <2> QED
    BY <2>1, <2>2 DEF IInv, OutcomeInv, PairInv
<1> QED
  BY <1>1, SessionInvariant, PTL

=============================================================================
