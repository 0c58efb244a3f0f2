------------------------ MODULE SessionEventsProofs ------------------------
(****************************************************************************)
(* Session delivers events exactly: proof of EventsExact, for every number  *)
(* of receivers and of events, and every environment.                       *)
(****************************************************************************)
EXTENDS SessionProofs

(****************************************************************************)
(* A queue fed from a sequence                                              *)
(****************************************************************************)

\* InOrder, for any sequences: got, and then what is in P of the frames under way, is what
\* is in P of the frames sent.
Exact(got, way, sent, P, alive) ==
  /\ \A i \in DOMAIN got : got[i] \in DOMAIN sent /\ sent[got[i]] \in P
  /\ \A k \in DOMAIN way : way[k] \in P => way[k].of \in DOMAIN sent /\ sent[way[k].of] \in P
  /\ \A i, j \in DOMAIN got : i < j => got[i] < got[j]
  /\ \A i, j \in DOMAIN way : way[i] \in P /\ way[j] \in P /\ i < j => way[i].of < way[j].of
  /\ \A i \in DOMAIN got, k \in DOMAIN way : way[k] \in P => got[i] < way[k].of
  /\ \A n \in DOMAIN sent :
       sent[n] \in P =>
         \/ \E i \in DOMAIN got : got[i] = n
         \/ /\ \A i \in DOMAIN got : got[i] < n
            /\ alive => \E k \in DOMAIN way : way[k] \in P /\ way[k].of = n

\* The elements of a sequence with one appended.
LEMMA AppendAt ==
  ASSUME NEW S, NEW s \in Seq(S), NEW e
  PROVE  /\ DOMAIN s = 1 .. Len(s) /\ Len(s) \in Nat
         /\ DOMAIN Append(s, e) = 1 .. Len(s) + 1
         /\ \A i \in 1 .. Len(s) : Append(s, e)[i] = s[i]
         /\ Append(s, e)[Len(s) + 1] = e
<1>1. s \in Seq(S \cup {e}) /\ e \in S \cup {e}
  BY SeqMonotonic
<1> QED
  BY <1>1, AppendProperties, LenProperties

\* The elements of a sequence without its first.
LEMMA TailAt ==
  ASSUME NEW S, NEW s \in Seq(S), s # <<>>
  PROVE  /\ DOMAIN s = 1 .. Len(s) /\ Len(s) \in Nat \ {0} /\ Head(s) = s[1]
         /\ DOMAIN Tail(s) = 1 .. Len(s) - 1
         /\ \A i \in 1 .. Len(s) - 1 : Tail(s)[i] = s[i + 1]
  BY HeadTailProperties, LenProperties, EmptySeq

\* A frame is sent, and is last on its way.
LEMMA ExactSend ==
  ASSUME NEW F, NEW G, NEW got \in Seq(Nat), NEW way \in Seq(F), NEW sent \in Seq(G), NEW P, NEW alive \in BOOLEAN,
         NEW a, a.of = Len(sent) + 1, Exact(got, way, sent, P, alive)
  PROVE  Exact(got, Append(way, a), Append(sent, a), P, alive)
<1> DEFINE way2 == Append(way, a)
           sent2 == Append(sent, a)
<1>1. /\ DOMAIN got = 1 .. Len(got) /\ Len(got) \in Nat
      /\ DOMAIN way = 1 .. Len(way) /\ Len(way) \in Nat
      /\ DOMAIN sent = 1 .. Len(sent) /\ Len(sent) \in Nat
  BY LenProperties
<1>2. /\ DOMAIN way2 = 1 .. Len(way) + 1 /\ \A i \in 1 .. Len(way) : way2[i] = way[i]
      /\ way2[Len(way) + 1] = a
  BY AppendAt
<1>3. /\ DOMAIN sent2 = 1 .. Len(sent) + 1 /\ \A i \in 1 .. Len(sent) : sent2[i] = sent[i]
      /\ sent2[Len(sent) + 1] = a
  BY AppendAt
<1> HIDE DEF way2, sent2
<1>4. \A i \in DOMAIN got : got[i] \in DOMAIN sent2 /\ sent2[got[i]] \in P
  BY <1>1, <1>3 DEF Exact
<1>5. ASSUME NEW k \in DOMAIN way2, way2[k] \in P
      PROVE  way2[k].of \in DOMAIN sent2 /\ sent2[way2[k].of] \in P
  <2>1. CASE k \in DOMAIN way
    <3>1. way[k] = way2[k]
      BY <1>1, <1>2, <2>1
    <3>2. way[k].of \in DOMAIN sent /\ sent[way[k].of] \in P
      BY <1>5, <2>1, <3>1 DEF Exact
    <3> QED
      BY <1>1, <1>3, <3>1, <3>2
  <2>2. CASE k = Len(way) + 1
    BY <1>1, <1>2, <1>3, <1>5, <2>2
  <2> QED
    BY <1>1, <1>2, <2>1, <2>2
<1>6. \A i, j \in DOMAIN way2 : way2[i] \in P /\ way2[j] \in P /\ i < j => way2[i].of < way2[j].of
  BY <1>1, <1>2 DEF Exact
<1>7. \A i \in DOMAIN got, k \in DOMAIN way2 : way2[k] \in P => got[i] < way2[k].of
  BY <1>1, <1>2 DEF Exact
<1>8. ASSUME NEW n \in DOMAIN sent2, sent2[n] \in P
      PROVE  \/ \E i \in DOMAIN got : got[i] = n
             \/ /\ \A i \in DOMAIN got : got[i] < n
                /\ alive => \E k \in DOMAIN way2 : way2[k] \in P /\ way2[k].of = n
  <2>1. CASE n = Len(sent) + 1
    BY <1>1, <1>2, <1>3, <1>8, <2>1 DEF Exact
  <2>2. CASE n \in DOMAIN sent
    <3>1. sent[n] \in P
      BY <1>1, <1>3, <1>8, <2>2
    <3>2. \A k \in DOMAIN way : k \in DOMAIN way2 /\ way2[k] = way[k]
      BY <1>1, <1>2
    <3> QED
      BY <2>2, <3>1, <3>2 DEF Exact
  <2> QED
    BY <1>1, <1>3, <2>1, <2>2
<1> QED
  BY <1>4, <1>5, <1>6, <1>7, <1>8 DEF Exact, way2, sent2

\* A frame of no interest joins those under way.
LEMMA ExactOther ==
  ASSUME NEW F, NEW G, NEW got \in Seq(Nat), NEW way \in Seq(F), NEW sent \in Seq(G), NEW P, NEW alive \in BOOLEAN,
         NEW a, a \notin P, Exact(got, way, sent, P, alive)
  PROVE  Exact(got, Append(way, a), sent, P, alive)
<1> DEFINE way2 == Append(way, a)
<1>1. DOMAIN way = 1 .. Len(way) /\ Len(way) \in Nat
  BY LenProperties
<1>2. /\ DOMAIN way2 = 1 .. Len(way) + 1 /\ \A i \in 1 .. Len(way) : way2[i] = way[i]
      /\ way2[Len(way) + 1] = a
  BY AppendAt
<1> HIDE DEF way2
<1>3. \A k \in DOMAIN way2 : way2[k] \in P => k \in DOMAIN way /\ way[k] = way2[k]
  BY <1>1, <1>2
<1>4. \A k \in DOMAIN way : k \in DOMAIN way2 /\ way[k] = way2[k]
  BY <1>1, <1>2
<1> QED
  BY <1>3, <1>4 DEF Exact, way2

\* The first frame under way is taken, or passed over if it is of no interest.
LEMMA ExactTake ==
  ASSUME NEW F, NEW G, NEW got \in Seq(Nat), NEW way \in Seq(F), NEW sent \in Seq(G), NEW P,
         way # <<>>, Exact(got, way, sent, P, TRUE)
  PROVE  /\ Head(way) \notin P => Exact(got, Tail(way), sent, P, TRUE)
         /\ Head(way) \in P => Exact(Append(got, Head(way).of), Tail(way), sent, P, TRUE)
<1> DEFINE way2 == Tail(way)
<1>1. /\ DOMAIN got = 1 .. Len(got) /\ Len(got) \in Nat
      /\ DOMAIN way = 1 .. Len(way) /\ Len(way) \in Nat \ {0} /\ Head(way) = way[1]
      /\ DOMAIN sent = 1 .. Len(sent) /\ Len(sent) \in Nat
  BY LenProperties, TailAt
<1>2. DOMAIN way2 = 1 .. Len(way) - 1 /\ \A i \in 1 .. Len(way) - 1 : way2[i] = way[i + 1]
  BY TailAt
<1> HIDE DEF way2
<1>3. \A k \in DOMAIN way2 : k + 1 \in DOMAIN way /\ way2[k] = way[k + 1] /\ 1 < k + 1 /\ k \in Int
  BY <1>1, <1>2
<1>4. \A k \in DOMAIN way : k # 1 => k - 1 \in DOMAIN way2 /\ way2[k - 1] = way[k]
  <2> SUFFICES ASSUME NEW k \in DOMAIN way, k # 1 PROVE k - 1 \in DOMAIN way2 /\ way2[k - 1] = way[k]
    OBVIOUS
  <2>1. k \in Int /\ k - 1 \in 1 .. Len(way) - 1 /\ (k - 1) + 1 = k
    BY <1>1
  <2> QED
    BY <1>2, <2>1
<1>5. /\ \A k \in DOMAIN way2 : way2[k] \in P => way2[k].of \in DOMAIN sent /\ sent[way2[k].of] \in P
      /\ \A i \in DOMAIN got, k \in DOMAIN way2 : way2[k] \in P => got[i] < way2[k].of
  BY <1>3 DEF Exact
<1>6. ASSUME NEW i \in DOMAIN way2, NEW j \in DOMAIN way2, way2[i] \in P, way2[j] \in P, i < j
      PROVE  way2[i].of < way2[j].of
  <2>1. i + 1 < j + 1
    BY <1>3, <1>6
  <2> QED
    BY <1>3, <1>6, <2>1 DEF Exact
<1>7. ASSUME Head(way) \notin P PROVE Exact(got, way2, sent, P, TRUE)
  <2>1. ASSUME NEW n \in DOMAIN sent, sent[n] \in P, NEW k \in DOMAIN way, way[k] \in P, way[k].of = n
        PROVE  \E l \in DOMAIN way2 : way2[l] \in P /\ way2[l].of = n
    <3>1. k # 1
      BY <1>1, <1>7, <2>1
    <3> QED
      BY <1>4, <2>1, <3>1
  <2> QED
    BY <1>5, <1>6, <2>1 DEF Exact
<1>8. ASSUME Head(way) \in P PROVE Exact(Append(got, Head(way).of), way2, sent, P, TRUE)
  <2> DEFINE m == Head(way).of
             got2 == Append(got, m)
  <2>1. m \in DOMAIN sent /\ sent[m] \in P /\ m \in Nat
    BY <1>1, <1>8 DEF Exact
  <2>2. /\ DOMAIN got2 = 1 .. Len(got) + 1 /\ \A i \in 1 .. Len(got) : got2[i] = got[i]
        /\ got2[Len(got) + 1] = m
    BY AppendAt
  <2>3. \A i \in DOMAIN got : got[i] < m /\ got[i] \in DOMAIN sent
    BY <1>1, <1>8 DEF Exact
  <2>4. ASSUME NEW k \in DOMAIN way2, way2[k] \in P PROVE m < way2[k].of
    <3>1. 1 \in DOMAIN way /\ k + 1 \in DOMAIN way /\ 1 < k + 1 /\ way[1] \in P /\ way[k + 1] \in P
      BY <1>1, <1>3, <1>8, <2>4
    <3>2. way[1].of < way[k + 1].of
      BY <3>1 DEF Exact
    <3> QED
      BY <1>1, <1>3, <3>2
  <2> HIDE DEF got2, m
  <2>5. \A i \in DOMAIN got2 : (i \in DOMAIN got /\ got2[i] = got[i]) \/ (i = Len(got) + 1 /\ got2[i] = m)
    BY <1>1, <2>2
  <2>6. \A i \in DOMAIN got2 : got2[i] \in DOMAIN sent /\ sent[got2[i]] \in P
    BY <2>1, <2>5 DEF Exact
  <2>7. \A i, j \in DOMAIN got2 : i < j => got2[i] < got2[j]
    <3> SUFFICES ASSUME NEW i \in DOMAIN got2, NEW j \in DOMAIN got2, i < j PROVE got2[i] < got2[j]
      OBVIOUS
    <3>1. i \in DOMAIN got /\ got2[i] = got[i]
      BY <1>1, <2>2
    <3>2. CASE j \in DOMAIN got /\ got2[j] = got[j]
      BY <3>1, <3>2 DEF Exact
    <3>3. CASE got2[j] = m
      BY <2>3, <3>1, <3>3
    <3> QED
      BY <2>5, <3>2, <3>3
  <2>8. \A i \in DOMAIN got2, k \in DOMAIN way2 : way2[k] \in P => got2[i] < way2[k].of
    BY <1>5, <2>4, <2>5
  <2>9. ASSUME NEW n \in DOMAIN sent, sent[n] \in P
        PROVE  \/ \E i \in DOMAIN got2 : got2[i] = n
               \/ /\ \A i \in DOMAIN got2 : got2[i] < n
                  /\ \E k \in DOMAIN way2 : way2[k] \in P /\ way2[k].of = n
    <3>1. CASE \E i \in DOMAIN got : got[i] = n
      BY <1>1, <2>2, <3>1
    <3>2. CASE n = m
      BY <1>1, <2>2, <3>2
    <3>3. ASSUME \A i \in DOMAIN got : got[i] < n, NEW k \in DOMAIN way, way[k] \in P, way[k].of = n, n # m
          PROVE  /\ \A i \in DOMAIN got2 : got2[i] < n
                 /\ \E l \in DOMAIN way2 : way2[l] \in P /\ way2[l].of = n
      <4>1. k # 1
        BY <1>1, <3>3 DEF m
      <4>2. \E l \in DOMAIN way2 : way2[l] \in P /\ way2[l].of = n
        BY <1>4, <3>3, <4>1
      <4> QED
        BY <2>4, <2>5, <3>3, <4>2
    <3> QED
      BY <2>9, <3>1, <3>2, <3>3 DEF Exact
  <2> QED
    BY <1>5, <1>6, <2>6, <2>7, <2>8, <2>9 DEF Exact, got2, m
<1> QED
  BY <1>7, <1>8 DEF way2

\* When the reader stops, what it has in its hands may go with it.
LEMMA ExactStop ==
  ASSUME NEW F, NEW got, NEW hand \in Seq(F), NEW rest \in Seq(F), NEW sent, NEW P, NEW alive,
         Exact(got, hand \o rest, sent, P, alive)
  PROVE  Exact(got, rest, sent, P, FALSE) /\ Exact(got, hand \o rest, sent, P, FALSE)
<1> DEFINE way == hand \o rest
<1>1. /\ DOMAIN way = 1 .. Len(hand) + Len(rest) /\ DOMAIN rest = 1 .. Len(rest)
      /\ Len(hand) \in Nat /\ Len(rest) \in Nat
      /\ \A k \in 1 .. Len(hand) + Len(rest) : way[k] = IF k <= Len(hand) THEN hand[k] ELSE rest[k - Len(hand)]
  BY ConcatProperties, LenProperties
<1> HIDE DEF way
<1>2. ASSUME NEW k \in DOMAIN rest PROVE k + Len(hand) \in DOMAIN way /\ way[k + Len(hand)] = rest[k] /\ k \in Int
  <2>1. k \in 1 .. Len(rest) /\ k + Len(hand) \in 1 .. Len(hand) + Len(rest) /\ ~(k + Len(hand) <= Len(hand)) /\ (k + Len(hand)) - Len(hand) = k
    BY <1>1
  <2> QED
    BY <1>1, <2>1
<1>3. ASSUME NEW i \in DOMAIN rest, NEW j \in DOMAIN rest, rest[i] \in P, rest[j] \in P, i < j
      PROVE  rest[i].of < rest[j].of
  <2>1. i + Len(hand) < j + Len(hand)
    BY <1>1, <1>2, <1>3
  <2> QED
    BY <1>2, <1>3, <2>1 DEF Exact, way
<1>4. Exact(got, way, sent, P, alive)
  BY DEF way
<1> QED
  BY <1>2, <1>3, <1>4 DEF Exact, way

(****************************************************************************)
(* The invariant                                                            *)
(****************************************************************************)

Frames    == Replies \cup Asyncs
RxFrames  == {f \in Frames : IsRx(f)}
ErrFrames == {f \in Frames : IsAsyncErr(f)}

Inbound == works \o toHost

RxInv  == Exact(rx_got \o rx_q, Inbound, async_sent, RxFrames, rpc # "done")
ErrInv == Exact(err_got \o async_q, Inbound, async_sent, ErrFrames, rpc # "done")

\* Between two rounds of the loop nothing is left to dispatch.
IdleInv == rpc \in {"top", "read"} => works = <<>>

EvInv == RxInv /\ ErrInv /\ IdleInv

\* What the sequences consist of.
LEMMA EventTypes ==
  ASSUME TypeOK
  PROVE  /\ works \in Seq(Frames) /\ toHost \in Seq(Frames) /\ Inbound \in Seq(Frames)
         /\ async_sent \in Seq(Asyncs) /\ rx_got \o rx_q \in Seq(Nat) /\ err_got \o async_q \in Seq(Nat)
  BY ConcatProperties DEF TypeOK, WireTypes, QueueTypes, Frames, Inbound

\* The invariant is what the property says.
LEMMA ExactIsInOrder ==
  ASSUME TypeOK, RxInv, ErrInv
  PROVE  EventsExact
<1>1. /\ \A k \in DOMAIN Inbound : Inbound[k] \in Frames
      /\ \A n \in DOMAIN async_sent : async_sent[n] \in Frames
  BY EventTypes, ElementOfSeq, LenProperties DEF Frames
<1>2. InOrder(rx_got \o rx_q, IsRx)
  <2> DEFINE got == rx_got \o rx_q
  <2>1. Exact(got, Inbound, async_sent, RxFrames, rpc # "done")
    BY DEF RxInv
  <2>2. /\ \A k \in DOMAIN Inbound : Inbound[k] \in RxFrames <=> IsRx(Inbound[k])
        /\ \A n \in DOMAIN async_sent : async_sent[n] \in RxFrames <=> IsRx(async_sent[n])
    BY <1>1 DEF RxFrames
  <2> HIDE DEF got
  <2>3. InOrder(got, IsRx)
    BY <2>1, <2>2 DEF InOrder, Exact, Inbound
  <2> QED
    BY <2>3 DEF got
<1>3. InOrder(err_got \o async_q, IsAsyncErr)
  <2> DEFINE got == err_got \o async_q
  <2>1. Exact(got, Inbound, async_sent, ErrFrames, rpc # "done")
    BY DEF ErrInv
  <2>2. /\ \A k \in DOMAIN Inbound : Inbound[k] \in ErrFrames <=> IsAsyncErr(Inbound[k])
        /\ \A n \in DOMAIN async_sent : async_sent[n] \in ErrFrames <=> IsAsyncErr(async_sent[n])
    BY <1>1 DEF ErrFrames
  <2> HIDE DEF got
  <2>3. InOrder(got, IsAsyncErr)
    BY <2>1, <2>2 DEF InOrder, Exact, Inbound
  <2> QED
    BY <2>3 DEF got
<1> QED
  BY <1>2, <1>3 DEF EventsExact

(****************************************************************************)
(* Sequences in two parts                                                   *)
(****************************************************************************)

\* What is taken off the front of the second part and put at the end of the first.
LEMMA MoveOver ==
  ASSUME NEW S, NEW s \in Seq(S), NEW t \in Seq(S), t # <<>>
  PROVE  Append(s, Head(t)) \o Tail(t) = s \o t
<1>1. /\ Head(t) \in S /\ Tail(t) \in Seq(S) /\ t = <<Head(t)>> \o Tail(t)
  BY HeadTailProperties, ConcatProperties
<1>2. Append(s, Head(t)) = s \o <<Head(t)>> /\ <<Head(t)>> \in Seq(S)
  BY <1>1, AppendIsConcat
<1> QED
  BY <1>1, <1>2, ConcatAssociative

\* What is put at the end of the second part is at the end of the whole.
LEMMA PutLast ==
  ASSUME NEW S, NEW s \in Seq(S), NEW t \in Seq(S), NEW e \in S
  PROVE  s \o Append(t, e) = Append(s \o t, e)
<1>1. Append(t, e) = t \o <<e>> /\ <<e>> \in Seq(S) /\ s \o t \in Seq(S)
  BY AppendIsConcat, ConcatProperties
<1>2. Append(s \o t, e) = (s \o t) \o <<e>>
  BY <1>1, AppendIsConcat
<1> QED
  BY <1>1, <1>2, ConcatAssociative

\* The front of the first part is the front of the whole.
LEMMA TakeFirst ==
  ASSUME NEW S, NEW s \in Seq(S), NEW t \in Seq(S), s # <<>>
  PROVE  s \o t # <<>> /\ Head(s \o t) = Head(s) /\ Tail(s) \o t = Tail(s \o t)
  BY ConcatProperties, HeadTailProperties, EmptySeq, LenProperties

\* A sequence cut in two.
LEMMA CutInTwo ==
  ASSUME NEW S, NEW t \in Seq(S), NEW n \in 1 .. Len(t)
  PROVE  SubSeq(t, 1, n) \o SubSeq(t, n + 1, Len(t)) = <<>> \o t
  BY ConcatAdjacentSubSeq, SubSeqFull, ConcatEmptySeq, LenProperties

(****************************************************************************)
(* Every step keeps it                                                      *)
(****************************************************************************)

USE DEF tagVars, callVars, closeVars, rdrVars, queueVars, rcvVars, wireVars, devVars

\* The receivers and the errors drained: queued before, handed out after.
LEMMA HandedOut ==
  ASSUME TypeOK, EvInv, \/ \E r \in Receivers : RxCall(r) \/ RxStep(r) \/ RxCancel(r)
                        \/ DrainAsyncErrors
  PROVE  EvInv'
<1>1. UNCHANGED <<rpc, works, toHost, async_sent>>
  BY Zenon DEF RxCall, RxStep, RxLock, RxTake, RxNone, RxCancel, DrainAsyncErrors
<1>2. (rx_got \o rx_q)' = rx_got \o rx_q
  <2>1. CASE UNCHANGED <<rx_got, rx_q>>
    BY <2>1
  <2>2. CASE rx_q # <<>> /\ rx_got' = Append(rx_got, Head(rx_q)) /\ rx_q' = Tail(rx_q)
    BY <2>2, MoveOver DEF TypeOK, QueueTypes
  <2> QED
    BY <2>1, <2>2 DEF RxCall, RxStep, RxLock, RxTake, RxNone, RxCancel, DrainAsyncErrors
<1>3. (err_got \o async_q)' = err_got \o async_q
  <2>1. CASE UNCHANGED <<err_got, async_q>>
    BY <2>1
  <2>2. CASE err_got' = err_got \o async_q /\ async_q' = <<>>
    BY <2>2, ConcatEmptySeq, ConcatProperties DEF TypeOK, QueueTypes
  <2> QED
    BY <2>1, <2>2 DEF RxCall, RxStep, RxLock, RxTake, RxNone, RxCancel, DrainAsyncErrors
<1>4. Inbound' = Inbound
  BY <1>1 DEF Inbound
<1> QED
  BY <1>1, <1>2, <1>3, <1>4 DEF EvInv, RxInv, ErrInv, IdleInv

\* A frame that is sent outside any command is numbered, and last on its way.
LEMMA AsyncSent ==
  ASSUME TypeOK, EvInv, UNCHANGED <<rpc, works, queueVars, rcvVars>>,
         NEW t \in {"RX", "ERR", "OTHER", "GARBLED"}, NEW b \in Bodies, SendAsync(Async(Len(async_sent) + 1, t, b))
  PROVE  EvInv'
<1> DEFINE a == Async(Len(async_sent) + 1, t, b)
<1>1. a \in Frames /\ a.of = Len(async_sent) + 1
  BY RepliesTyped, LenProperties, EventTypes DEF Frames, Async
<1> HIDE DEF a
<1>2. async_sent' = Append(async_sent, a) /\ toHost' = Append(toHost, a)
  BY DEF SendAsync, a
<1>3. Inbound' = Append(Inbound, a)
  BY <1>1, <1>2, PutLast, EventTypes DEF Inbound
<1>4. Exact(rx_got \o rx_q, Append(Inbound, a), Append(async_sent, a), RxFrames, rpc # "done")
  BY <1>1, ExactSend, EventTypes DEF EvInv, RxInv
<1>5. Exact(err_got \o async_q, Append(Inbound, a), Append(async_sent, a), ErrFrames, rpc # "done")
  BY <1>1, ExactSend, EventTypes DEF EvInv, ErrInv
<1> QED
  BY <1>2, <1>3, <1>4, <1>5 DEF EvInv, RxInv, ErrInv, IdleInv

\* An answer to a command is no event.
LEMMA ReplySent ==
  ASSUME TypeOK, EvInv, UNCHANGED <<rpc, works, queueVars, rcvVars>>,
         NEW f \in Replies, SendReply(f)
  PROVE  EvInv'
<1>1. CASE UNCHANGED <<toHost, async_sent>>
  BY <1>1 DEF EvInv, RxInv, ErrInv, IdleInv, Inbound
<1>2. CASE SendAsync(Async(Len(async_sent) + 1, "GARBLED", f.body))
  BY <1>2, AsyncSent DEF Replies
<1>3. ASSUME NEW g \in Replies, toHost' = Append(toHost, g), UNCHANGED async_sent
      PROVE  EvInv'
  <2>1. g \in Frames /\ g \notin RxFrames /\ g \notin ErrFrames
    BY TagAssumption DEF Frames, RxFrames, ErrFrames, IsRx, IsAsyncErr, Replies, Tags
  <2>2. Inbound' = Append(Inbound, g)
    BY <1>3, <2>1, PutLast, EventTypes DEF Inbound
  <2>3. Exact(rx_got \o rx_q, Append(Inbound, g), async_sent, RxFrames, rpc # "done")
    BY <2>1, ExactOther, EventTypes DEF EvInv, RxInv
  <2>4. Exact(err_got \o async_q, Append(Inbound, g), async_sent, ErrFrames, rpc # "done")
    BY <2>1, ExactOther, EventTypes DEF EvInv, ErrInv
  <2> QED
    BY <1>3, <2>2, <2>3, <2>4 DEF EvInv, RxInv, ErrInv, IdleInv
<1>4. ASSUME NEW t \in {f.type, "OTHER"} PROVE [f EXCEPT !.type = t, !.body = "Malformed"] \in Replies
  BY DEF Replies, Bodies
<1> QED
  BY <1>1, <1>2, <1>3, <1>4 DEF SendReply

\* Whatever the device does.
LEMMA DevEvents ==
  ASSUME TypeOK, EvInv, DevNext
  PROVE  EvInv'
<1>1. UNCHANGED <<rpc, works, queueVars, rcvVars>>
  BY DevLeaves
<1>2. CASE DevRead \/ LinkDown
  BY <1>1, <1>2 DEF DevRead, LinkDown, EvInv, RxInv, ErrInv, IdleInv, Inbound
<1>3. CASE DevAnswer
  <2>1. PICK f \in accepted : SendReply(Reply(f, "OK", OkKind(f.cmd))) \/ SendReply(Reply(f, "ERR", "Code"))
    BY <1>3 DEF DevAnswer
  <2>2. f \in CmdFrames
    BY DEF TypeOK, WireTypes
  <2>3. Reply(f, "OK", OkKind(f.cmd)) \in Replies /\ Reply(f, "ERR", "Code") \in Replies
    BY <2>2, RepliesTyped DEF CmdFrames, Bodies
  <2> QED
    BY <1>1, <2>1, <2>3, ReplySent
<1>4. CASE DevTxDone
  <2>1. PICK f \in airing, r \in TxResults : SendReply(Reply(f, "TX_DONE", r))
    BY <1>4 DEF DevTxDone
  <2>2. f \in CmdFrames /\ r \in Bodies
    BY DEF TypeOK, WireTypes, Bodies
  <2>3. Reply(f, "TX_DONE", r) \in Replies
    BY <2>2, RepliesTyped
  <2> QED
    BY <1>1, <2>1, <2>3, ReplySent
<1>5. CASE DevAsync
  <2>1. \E t \in {"RX", "ERR", "OTHER", "GARBLED"}, b \in {"Rx", "Code"} : SendAsync(Async(Len(async_sent) + 1, t, b))
    BY <1>5 DEF DevAsync
  <2> QED
    BY <1>1, <2>1, AsyncSent DEF Bodies
<1>6. CASE DevAsyncMalformed
  <2>1. \E t \in {"RX", "ERR"} : SendAsync(Async(Len(async_sent) + 1, t, "Malformed"))
    BY <1>6 DEF DevAsyncMalformed
  <2> QED
    BY <1>1, <2>1, AsyncSent DEF Bodies
<1> QED
  BY <1>2, <1>3, <1>4, <1>5, <1>6 DEF DevNext

\* dispatch takes the next frame: an event goes to its queue, and only there.
LEMMA NextFrame ==
  ASSUME TypeOK, EvInv, works # <<>>, rpc # "done", Dispatched, UNCHANGED <<toHost, async_sent, rx_got, err_got>>,
         rx_q' = IF Head(works) \in RxFrames THEN Append(rx_q, Head(works).of) ELSE rx_q,
         async_q' = IF Head(works) \in ErrFrames THEN Append(async_q, Head(works).of) ELSE async_q
  PROVE  EvInv'
<1> DEFINE f == Head(works)
<1>1. Inbound # <<>> /\ Head(Inbound) = f /\ Inbound' = Tail(Inbound)
  BY TakeFirst, EventTypes DEF Inbound, Dispatched
<1>2. f \in RxFrames \cup ErrFrames => f.of \in Nat
  BY TailIn, EventTypes, TagAssumption DEF RxFrames, ErrFrames, IsRx, IsAsyncErr, Frames, Replies, Asyncs, Tags
<1>3. rpc' \in {"top", "dispatch"} /\ (rpc' = "top" => works' = <<>>)
  <2>1. Tail(works) \in Seq(Frames) /\ Len(Tail(works)) = Len(works) - 1
    BY EventTypes, HeadTailProperties
  <2>2. ASSUME Len(works) = 1 PROVE Tail(works) = <<>>
    <3>1. Len(Tail(works)) = 0
      BY <2>1, <2>2
    <3> QED
      BY <2>1, <3>1, EmptySeq
  <2> QED
    BY <2>2 DEF Dispatched
<1> HIDE DEF f
<1>4. Exact((rx_got \o rx_q)', Tail(Inbound), async_sent, RxFrames, TRUE)
  <2>1. Exact(rx_got \o rx_q, Inbound, async_sent, RxFrames, TRUE)
    BY DEF EvInv, RxInv, Exact
  <2>2. f \in RxFrames => (rx_got \o rx_q)' = Append(rx_got \o rx_q, f.of)
    <3>1. rx_got \in Seq(Nat) /\ rx_q \in Seq(Nat)
      BY DEF TypeOK, QueueTypes
    <3>2. f \in RxFrames => UNCHANGED rx_got /\ rx_q' = Append(rx_q, f.of)
      BY DEF f
    <3>3. ASSUME NEW e \in Nat PROVE rx_got \o Append(rx_q, e) = Append(rx_got \o rx_q, e)
      BY <3>1, PutLast
    <3> QED
      BY <1>2, <3>2, <3>3
  <2>3. f \notin RxFrames => (rx_got \o rx_q)' = rx_got \o rx_q
    BY DEF f
  <2> QED
    BY <1>1, <2>1, <2>2, <2>3, ExactTake, EventTypes
<1>5. Exact((err_got \o async_q)', Tail(Inbound), async_sent, ErrFrames, TRUE)
  <2>1. Exact(err_got \o async_q, Inbound, async_sent, ErrFrames, TRUE)
    BY DEF EvInv, ErrInv, Exact
  <2>2. f \in ErrFrames => (err_got \o async_q)' = Append(err_got \o async_q, f.of)
    <3>1. err_got \in Seq(Nat) /\ async_q \in Seq(Nat)
      BY DEF TypeOK, QueueTypes
    <3>2. f \in ErrFrames => UNCHANGED err_got /\ async_q' = Append(async_q, f.of)
      BY DEF f
    <3>3. ASSUME NEW e \in Nat PROVE err_got \o Append(async_q, e) = Append(err_got \o async_q, e)
      BY <3>1, PutLast
    <3> QED
      BY <1>2, <3>2, <3>3
  <2>3. f \notin ErrFrames => (err_got \o async_q)' = err_got \o async_q
    BY DEF f
  <2> QED
    BY <1>1, <2>1, <2>2, <2>3, ExactTake, EventTypes
<1>6. RxInv'
  BY <1>1, <1>3, <1>4 DEF RxInv, Exact
<1>7. ErrInv'
  BY <1>1, <1>3, <1>5 DEF ErrInv, Exact
<1> QED
  BY <1>3, <1>6, <1>7 DEF EvInv, IdleInv

\* Whatever the reader does.
LEMMA ReaderEvents ==
  ASSUME IInv, EvInv, ReaderNext
  PROVE  EvInv'
<1>1. TypeOK /\ UNCHANGED <<async_sent, rx_got, err_got>>
  BY ReaderLeaves DEF IInv
<1>2. CASE ReaderTop \/ ReaderEof
  <2>1. UNCHANGED <<works, toHost, rx_q, async_q>> /\ rpc # "done" /\ rpc' # "done"
        /\ (rpc' \in {"top", "read"} => rpc \in {"top", "read"})
    BY <1>2 DEF ReaderTop, ReaderEof
  <2> QED
    BY <1>1, <2>1 DEF EvInv, RxInv, ErrInv, IdleInv, Inbound, Exact
<1>3. CASE ReaderRead
  <2>1. PICK n \in 1 .. Len(toHost) : works' = SubSeq(toHost, 1, n) /\ toHost' = SubSeq(toHost, n + 1, Len(toHost))
    BY <1>3 DEF ReaderRead, Unread
  <2>2. rpc = "read" /\ rpc' = "dispatch" /\ works = <<>> /\ UNCHANGED <<rx_q, async_q>>
    BY <1>3 DEF ReaderRead, EvInv, IdleInv
  <2>3. Inbound' = Inbound
    BY <1>1, <2>1, <2>2, CutInTwo, EventTypes DEF Inbound
  <2> QED
    BY <1>1, <2>2, <2>3 DEF EvInv, RxInv, ErrInv, IdleInv, Exact
<1>4. CASE DispatchAsync
  <2>1. Head(works) \in Frames
    BY <1>1, <1>4, TailIn, EventTypes DEF DispatchAsync, Dispatching
  <2> QED
    BY <1>1, <1>4, <2>1, NextFrame DEF DispatchAsync, Dispatching, RxFrames, ErrFrames
<1>5. CASE DispatchUnknown \/ Reinsert \/ DispatchResolve
  <2>1. works # <<>> /\ rpc # "done" /\ Head(works).tag # 0 /\ Dispatched /\ UNCHANGED <<toHost, rx_q, async_q>>
    BY <1>5 DEF DispatchUnknown, Reinsert, DispatchResolve, Dispatching, IInv, SlotInv
  <2>2. Head(works) \notin RxFrames /\ Head(works) \notin ErrFrames
    BY <2>1 DEF RxFrames, ErrFrames, IsRx, IsAsyncErr
  <2> QED
    BY <1>1, <2>1, <2>2, NextFrame
<1>6. CASE DispatchTxAck
  <2>1. UNCHANGED <<works, toHost, rx_q, async_q>> /\ rpc # "done" /\ rpc' = "reinsert"
    BY <1>6 DEF DispatchTxAck, Dispatching
  <2> QED
    BY <1>1, <2>1 DEF EvInv, RxInv, ErrInv, IdleInv, Inbound, Exact
<1>7. CASE ReaderLeave \/ ReaderAbort
  <2>1. rpc' = "done" /\ UNCHANGED <<toHost, rx_q, async_q>> /\ (works' = works \/ works' = <<>>)
    BY <1>7 DEF ReaderLeave, ReaderAbort
  <2>2. Inbound' = works \o toHost \/ Inbound' = toHost
    BY <1>1, <2>1, ConcatEmptySeq, EventTypes DEF Inbound
  <2>3. /\ Exact(rx_got \o rx_q, toHost, async_sent, RxFrames, FALSE)
        /\ Exact(rx_got \o rx_q, works \o toHost, async_sent, RxFrames, FALSE)
    BY <1>1, ExactStop, EventTypes DEF EvInv, RxInv, Inbound
  <2>4. /\ Exact(err_got \o async_q, toHost, async_sent, ErrFrames, FALSE)
        /\ Exact(err_got \o async_q, works \o toHost, async_sent, ErrFrames, FALSE)
    BY <1>1, ExactStop, EventTypes DEF EvInv, ErrInv, Inbound
  <2>5. Exact(rx_got \o rx_q, Inbound', async_sent, RxFrames, FALSE) /\ Exact(err_got \o async_q, Inbound', async_sent, ErrFrames, FALSE)
    BY <2>2, <2>3, <2>4
  <2>6. RxInv' /\ ErrInv'
    BY <1>1, <2>1, <2>5 DEF RxInv, ErrInv, Exact
  <2> QED
    BY <2>1, <2>6 DEF EvInv, IdleInv
<1> QED
  BY <1>2, <1>3, <1>4, <1>5, <1>6, <1>7 DEF ReaderNext

\* Callers, close and stuttering touch none of it.
LEMMA EventsKept ==
  ASSUME EvInv, UNCHANGED <<rpc, works, toHost, async_sent, queueVars, rx_got>>
  PROVE  EvInv'
  BY DEF EvInv, RxInv, ErrInv, IdleInv, Inbound

\* Every step keeps the invariant.
LEMMA EventsNext == IInv /\ EvInv /\ [Next]_vars => EvInv'
<1> SUFFICES ASSUME IInv, EvInv, [Next]_vars PROVE EvInv'
  OBVIOUS
<1>1. TypeOK
  BY DEF IInv
<1>2. CASE \E c \in Calls : CallNext(c)
  BY <1>2, CallLeaves, EventsKept
<1>3. CASE ReaderNext
  BY <1>3, ReaderEvents
<1>4. CASE CloseNext
  BY <1>4, CloseLeaves, EventsKept
<1>5. CASE (\E r \in Receivers : RxCall(r) \/ RxStep(r) \/ RxCancel(r)) \/ DrainAsyncErrors
  BY <1>1, <1>5, HandedOut
<1>6. CASE DevNext
  BY <1>1, <1>6, DevEvents
<1>7. CASE UNCHANGED vars
  BY <1>7, EventsKept DEF vars
<1> QED
  BY <1>2, <1>3, <1>4, <1>5, <1>6, <1>7 DEF Next

\* Events are delivered exactly: nothing the reader, the queues, the receivers, timeouts,
\* dropped futures and close can do loses, repeats, reorders or misdirects an event while
\* the reader runs, and once it has stopped what was delivered is a beginning of what was sent.
THEOREM EventsAreExact == Spec => []EventsExact
<1>1. Init => EvInv
  <2> SUFFICES ASSUME Init PROVE EvInv
    OBVIOUS
  <2>1. Inbound = <<>> /\ rx_got \o rx_q = <<>> /\ err_got \o async_q = <<>> /\ async_sent = <<>> /\ works = <<>>
    BY ConcatEmptySeq, EmptySeq DEF Init, Inbound
  <2>2. \A P : Exact(<<>>, <<>>, <<>>, P, rpc # "done")
    BY DEF Exact
  <2> QED
    BY <2>1, <2>2 DEF EvInv, RxInv, ErrInv, IdleInv
<1>2. IInv /\ EvInv /\ [Next]_vars => EvInv'
  BY EventsNext
<1>3. IInv /\ EvInv => EventsExact
  BY ExactIsInOrder DEF IInv, EvInv
<1> QED
  BY <1>1, <1>2, <1>3, SessionInvariant, PTL DEF Spec

============================================================================
