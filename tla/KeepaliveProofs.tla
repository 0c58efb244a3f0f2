-------------------------- MODULE KeepaliveProofs --------------------------
(****************************************************************************)
(* Proofs about Keepalive, for every interval, timeout and delay that       *)
(* TimeAssumption allows: its type invariant, and how long the device may   *)
(* hear nothing.                                                            *)
(****************************************************************************)
EXTENDS Keepalive, SequenceTheorems, TLAPS

(****************************************************************************)
(* The inductive invariant                                                  *)
(****************************************************************************)

NoPing == \A j \in 1 .. Len(wire) : wire[j].from = "user"

\* The task's request is under way, and the only one.
Asking ==
  /\ back = <<>>
  /\ \E i \in 1 .. Len(wire) :
       /\ wire[i].from = "ka" /\ wire[i].age = waited
       /\ \A j \in 1 .. Len(wire) : j # i => wire[j].from = "user"

\* The device has heard it, and the answer is under way.
Answering == Len(back) = 1 /\ NoPing /\ waited <= MaxDelay + back[1].age

\* Where the task's request is.
TurnInv == IF ka = "sleep" THEN back = <<>> /\ NoPing ELSE Asking \/ Answering

\* The device's silence, told from what is under way and, when nothing is, from the
\* task's clocks: a sleep that ends within an interval of the last write goes on for
\* another, any other ends in a PING.
SilenceInv ==
  /\ wire # <<>> => silence <= 2 * Interval - 1 + wire[1].age
  /\ back # <<>> => silence <= back[1].age
  /\ ka = "sleep" /\ wire = <<>> =>
       IF quiet + nap < Interval THEN silence <= quiet ELSE silence + nap <= 2 * Interval - 1

KInv == TypeOK /\ (lost = 0 /\ hollow = 0 => TurnInv /\ SilenceInv)

(****************************************************************************)
(* Sequences of frames and answers                                          *)
(****************************************************************************)

USE DEF kaVars, devVars, countVars

\* The elements of a sequence with one appended.
LEMMA AppendAt ==
  ASSUME NEW S, NEW s \in Seq(S), NEW x \in S
  PROVE  /\ Append(s, x) \in Seq(S) /\ Append(s, x) # <<>> /\ Len(Append(s, x)) = Len(s) + 1 /\ Len(s) \in Nat
         /\ \A i \in 1 .. Len(s) : Append(s, x)[i] = s[i]
         /\ Append(s, x)[Len(s) + 1] = x
BY AppendProperties, LenProperties

\* The elements of a sequence without its first.
LEMMA TailAt ==
  ASSUME NEW S, NEW s \in Seq(S), s # <<>>
  PROVE  /\ Tail(s) \in Seq(S) /\ Len(s) \in Nat \ {0} /\ Len(Tail(s)) = Len(s) - 1 /\ Head(s) = s[1] /\ Head(s) \in S
         /\ \A i \in 1 .. Len(s) - 1 : Tail(s)[i] = s[i + 1]
BY HeadTailProperties, LenProperties, EmptySeq

\* A frame or an answer grows older, up to MaxDelay.
LEMMA Aged ==
  /\ \A x \in Frames : x.age # MaxDelay => /\ [x EXCEPT !.age = @ + 1] \in Frames
                                           /\ [x EXCEPT !.age = @ + 1].age = x.age + 1
                                           /\ [x EXCEPT !.age = @ + 1].from = x.from
  /\ \A x \in Answers : x.age # MaxDelay => /\ [x EXCEPT !.age = @ + 1] \in Answers
                                            /\ [x EXCEPT !.age = @ + 1].age = x.age + 1
<1>1. ASSUME NEW x \in Frames, x.age # MaxDelay
      PROVE  /\ [x EXCEPT !.age = @ + 1] \in Frames
             /\ [x EXCEPT !.age = @ + 1].age = x.age + 1
             /\ [x EXCEPT !.age = @ + 1].from = x.from
  BY <1>1, TimeAssumption DEF Frames
<1>2. ASSUME NEW x \in Answers, x.age # MaxDelay
      PROVE  [x EXCEPT !.age = @ + 1] \in Answers /\ [x EXCEPT !.age = @ + 1].age = x.age + 1
  BY <1>2, TimeAssumption DEF Answers
<1> QED
  BY <1>1, <1>2

\* A tick makes everything under way older; it is not taken when something is due.
LEMMA OlderAt ==
  ASSUME NEW S, S = Frames \/ S = Answers, NEW s \in Seq(S), \A i \in DOMAIN s : s[i].age # MaxDelay
  PROVE  /\ Older(s) \in Seq(S) /\ Len(Older(s)) = Len(s) /\ Len(s) \in Nat
         /\ \A i \in 1 .. Len(s) : Older(s)[i].age = s[i].age + 1
         /\ S = Frames => \A i \in 1 .. Len(s) : Older(s)[i].from = s[i].from
<1>1. DOMAIN s = 1 .. Len(s) /\ Len(s) \in Nat /\ \A i \in 1 .. Len(s) : s[i] \in S
  BY LenProperties, ElementOfSeq
<1>2. \A i \in 1 .. Len(s) : /\ [s[i] EXCEPT !.age = @ + 1] \in S
                             /\ [s[i] EXCEPT !.age = @ + 1].age = s[i].age + 1
                             /\ S = Frames => [s[i] EXCEPT !.age = @ + 1].from = s[i].from
  <2>1. SUFFICES ASSUME NEW i \in 1 .. Len(s)
                 PROVE  /\ [s[i] EXCEPT !.age = @ + 1] \in S
                        /\ [s[i] EXCEPT !.age = @ + 1].age = s[i].age + 1
                        /\ S = Frames => [s[i] EXCEPT !.age = @ + 1].from = s[i].from
    OBVIOUS
  <2>2. s[i] \in S /\ s[i].age # MaxDelay
    BY <1>1
  <2> QED
    BY <2>2, Aged
<1>3. Older(s) = [i \in 1 .. Len(s) |-> [s[i] EXCEPT !.age = @ + 1]]
  BY <1>1 DEF Older
<1>4. Older(s) \in Seq(S)
  BY <1>1, <1>2, <1>3, IsASeq
<1>5. DOMAIN Older(s) = 1 .. Len(Older(s)) /\ Len(Older(s)) \in Nat
  BY <1>4, LenProperties
<1>6. Len(Older(s)) = Len(s)
  BY <1>1, <1>3, <1>5
<1> QED
  BY <1>2, <1>3, <1>4, <1>6, <1>1

\* What is sent is a frame, of age 0.
LEMMA FrameIn ==
  \A w \in {"user", "ka"}, k \in {"OTHER", "PING", "SET_CONFIG"} :
    Frame(w, k) \in Frames /\ Frame(w, k).from = w /\ Frame(w, k).age = 0
BY TimeAssumption DEF Frame, Frames

(****************************************************************************)
(* The type invariant is preserved                                          *)
(****************************************************************************)

\* Every step keeps the types.
LEMMA TypesPreserved ==
  ASSUME TypeOK, [Next]_vars
  PROVE  TypeOK'
<1>0. Limit \in Nat /\ Interval \in Nat /\ PingTimeout \in Nat /\ MaxDelay \in Nat
  BY TimeAssumption DEF Limit
<1>1. CASE KaWake
  <2>1. wire' = wire \/ wire' = Append(wire, Frame("ka", "PING"))
    BY <1>1 DEF KaWake, Request
  <2>2. wire' \in Seq(Frames)
    <3>1. wire \in Seq(Frames) /\ Frame("ka", "PING") \in Frames
      BY FrameIn DEF TypeOK
    <3> QED
      BY <2>1, <3>1, AppendAt
  <2>3. ka' \in {"sleep", "PING", "SET_CONFIG"} /\ nap' \in 0 .. Interval /\ waited' \in 0 .. PingTimeout
        /\ has_config' = has_config
    BY <1>0, <1>1 DEF KaWake, Request, Sleep
  <2> QED
    BY <1>1, <2>2, <2>3 DEF KaWake, TypeOK, Frames, Answers, Limit
<1>2. CASE KaAnswered
  <2>1. wire' = wire \/ wire' = Append(wire, Frame("ka", "SET_CONFIG"))
    BY <1>2 DEF KaAnswered, Request
  <2>2. wire' \in Seq(Frames)
    <3>1. wire \in Seq(Frames) /\ Frame("ka", "SET_CONFIG") \in Frames
      BY FrameIn DEF TypeOK
    <3> QED
      BY <2>1, <3>1, AppendAt
  <2>3. ka' \in {"sleep", "PING", "SET_CONFIG"} /\ nap' \in 0 .. Interval /\ waited' \in 0 .. PingTimeout
        /\ has_config' = has_config
    BY <1>0, <1>2 DEF KaAnswered, Request, Sleep
  <2>4. back' \in Seq(Answers)
    BY <1>2, TailAt DEF KaAnswered, TypeOK
  <2>5. quiet' \in 0 .. Interval + 1
    BY <1>0, <1>2 DEF KaAnswered, TypeOK
  <2> QED
    BY <1>2, <2>2, <2>3, <2>4, <2>5 DEF KaAnswered, TypeOK, Frames, Answers, Limit
<1>3. CASE KaTimeout
  BY <1>0, <1>3 DEF KaTimeout, Sleep, TypeOK, Frames, Answers, Limit
<1>4. CASE UserWrite
  <2>1. wire' \in Seq(Frames)
    BY <1>4, FrameIn, AppendAt DEF UserWrite, TypeOK
  <2>2. writes' \in 0 .. MaxWrites /\ quiet' \in 0 .. Interval + 1
    BY <1>0, <1>4, BoundAssumption DEF UserWrite, TypeOK
  <2> QED
    BY <1>4, <2>1, <2>2 DEF UserWrite, TypeOK, Frames, Answers, Limit
<1>5. CASE UserHollow
  <2>1. hollow' \in 0 .. MaxHollow /\ quiet' \in 0 .. Interval + 1
    BY <1>0, <1>5, BoundAssumption DEF UserHollow, TypeOK
  <2> QED
    BY <1>5, <2>1 DEF UserHollow, TypeOK, Frames, Answers, Limit
<1>6. CASE DevHear
  <2>1. wire' \in Seq(Frames)
    BY <1>6, TailAt DEF DevHear, Hear, TypeOK
  <2>2. PICK k \in {"Ok", "NotConfigured"} : back' = back \/ back' = Append(back, [kind |-> k, age |-> 0])
    BY <1>6 DEF DevHear, Hear
  <2>3. [kind |-> k, age |-> 0] \in Answers
    BY <1>0 DEF Answers
  <2>4. back' \in Seq(Answers)
    <3>1. back \in Seq(Answers)
      BY DEF TypeOK
    <3> QED
      BY <2>2, <2>3, <3>1, AppendAt
  <2>5. configured' \in BOOLEAN /\ silence' \in 0 .. Limit + 1
    BY <1>0, <1>6 DEF DevHear, Hear
  <2> QED
    BY <1>6, <2>1, <2>4, <2>5 DEF DevHear, Hear, TypeOK, Frames, Answers, Limit
<1>7. CASE Lose
  <2>1. wire' \in Seq(Frames) /\ back' \in Seq(Answers)
    BY <1>7, TailAt DEF Lose, TypeOK
  <2>2. lost' \in 0 .. MaxLost
    BY <1>7, BoundAssumption DEF Lose, TypeOK
  <2> QED
    BY <1>7, <2>1, <2>2 DEF Lose, TypeOK, Frames, Answers, Limit
<1>8. CASE Tick
  <2>1. /\ \A i \in DOMAIN wire : wire[i].age # MaxDelay
        /\ \A i \in DOMAIN back : back[i].age # MaxDelay
        /\ ka = "sleep" => nap # 0
        /\ ka # "sleep" => waited # PingTimeout
    BY <1>8 DEF Tick, Due
  <2>2. wire' \in Seq(Frames) /\ back' \in Seq(Answers)
    BY <1>8, <2>1, OlderAt DEF Tick, TypeOK
  <2>3. nap' \in 0 .. Interval /\ waited' \in 0 .. PingTimeout
    BY <1>0, <1>8, <2>1 DEF Tick, TypeOK
  <2>4. quiet' \in 0 .. Interval + 1 /\ silence' \in 0 .. Limit + 1
    BY <1>0, <1>8 DEF Tick, TypeOK, UpTo
  <2>5. configured' \in BOOLEAN
    BY <1>8 DEF Tick
  <2> QED
    BY <1>8, <2>2, <2>3, <2>4, <2>5 DEF Tick, TypeOK, Frames, Answers, Limit
<1>9. CASE UNCHANGED vars
  BY <1>9 DEF vars, TypeOK, Frames, Answers, Limit
<1> QED
  BY <1>1, <1>2, <1>3, <1>4, <1>5, <1>6, <1>7, <1>8, <1>9 DEF Next, KaStep

(****************************************************************************)
(* The turns of the task and the silence of the device                      *)
(****************************************************************************)

\* The clocks when a sleep begins after an answer, and from one tick to the next.
LEMMA NewSleep ==
  \A q, s, n, m, i \in Nat : m < i /\ s <= m /\ n = i => ~(q + n < i) /\ s + n <= 2 * i - 1
OBVIOUS

\* A tick of a sleep: what is added to the silence is taken from the nap.
LEMMA OneTick ==
  \A i, n, q, s, n2, q2, s2 \in Nat :
    /\ n # 0 /\ n2 = n - 1 /\ s2 <= s + 1 /\ q <= i + 1 /\ q2 = IF q = i + 1 THEN i + 1 ELSE q + 1
    /\ IF q + n < i THEN s <= q ELSE s + n <= 2 * i - 1
    => IF q2 + n2 < i THEN s2 <= q2 ELSE s2 + n2 <= 2 * i - 1
OBVIOUS

\* A task that is awake has its request or the answer under way, so it never times out.
LEMMA AwakeUnderWay ==
  ASSUME TypeOK, TurnInv, SilenceInv, ka # "sleep"
  PROVE  /\ waited < PingTimeout
         /\ back # <<>> => Answering /\ silence <= MaxDelay
         /\ wire = <<>> => silence <= MaxDelay
<1>1. /\ Len(wire) \in Nat /\ \A i \in 1 .. Len(wire) : wire[i].age \in 0 .. MaxDelay
      /\ Len(back) \in Nat /\ \A i \in 1 .. Len(back) : back[i].age \in 0 .. MaxDelay
      /\ MaxDelay \in Nat /\ PingTimeout > 2 * MaxDelay /\ PingTimeout \in Nat /\ waited \in Nat /\ silence \in Nat
  <2>1. /\ Len(wire) \in Nat /\ \A i \in 1 .. Len(wire) : wire[i] \in Frames
        /\ Len(back) \in Nat /\ \A i \in 1 .. Len(back) : back[i] \in Answers
    <3>1. wire \in Seq(Frames) /\ back \in Seq(Answers)
      BY DEF TypeOK
    <3> QED
      BY <3>1, ElementOfSeq, LenProperties
  <2>2. (\A f \in Frames : f.age \in 0 .. MaxDelay) /\ (\A a \in Answers : a.age \in 0 .. MaxDelay)
    BY DEF Frames, Answers
  <2>3. MaxDelay \in Nat /\ PingTimeout > 2 * MaxDelay /\ PingTimeout \in Nat
    BY TimeAssumption
  <2>4. waited \in Nat /\ silence \in Nat
    BY TimeAssumption DEF TypeOK
  <2> QED
    BY <2>1, <2>2, <2>3, <2>4
<1>2. CASE Asking
  BY <1>1, <1>2, EmptySeq DEF Asking
<1>3. CASE Answering
  <2>1. back # <<>> /\ back[1].age \in 0 .. MaxDelay
    <3>1. Len(back) = 1
      BY <1>3 DEF Answering
    <3>2. back # <<>>
      BY <3>1
    <3> QED
      BY <1>1, <3>1, <3>2
  <2> QED
    BY <1>1, <1>3, <2>1 DEF Answering, SilenceInv
<1> QED
  BY <1>2, <1>3 DEF TurnInv

\* What a new frame finds on the wire, or the device's silence when it finds nothing.
LEMMA SilenceAtWrite ==
  ASSUME TypeOK, TurnInv, SilenceInv, wire = <<>>
  PROVE  silence <= 2 * Interval - 1
<1>1. /\ Interval \in Nat \ {0} /\ MaxDelay \in Nat /\ MaxDelay < Interval
      /\ nap \in 0 .. Interval /\ quiet \in 0 .. Interval + 1 /\ silence \in Nat
  BY TimeAssumption DEF TypeOK, Limit
<1>2. CASE ka = "sleep"
  BY <1>1, <1>2 DEF SilenceInv
<1>3. CASE ka # "sleep"
  BY <1>1, <1>3, AwakeUnderWay
<1> QED
  BY <1>2, <1>3

\* A frame x is put on the wire.
LEMMA SilenceAtAppend ==
  ASSUME TypeOK, SilenceInv, NEW x \in Frames, x.age = 0, wire' = Append(wire, x), silence' = silence,
         wire = <<>> => silence <= 2 * Interval - 1
  PROVE  wire' # <<>> /\ silence' <= 2 * Interval - 1 + wire'[1].age
<1>1. /\ Len(wire) \in Nat /\ wire' # <<>> /\ \A i \in 1 .. Len(wire) : wire'[i] = wire[i]
      /\ wire'[Len(wire) + 1] = x
  BY AppendAt DEF TypeOK
<1>2. wire # <<>> => Len(wire) \in Nat \ {0}
  BY EmptySeq DEF TypeOK
<1>3. wire = <<>> => Len(wire) = 0
  OBVIOUS
<1>4. Interval \in Nat /\ silence \in Nat
  BY TimeAssumption DEF TypeOK, Limit
<1>5. CASE wire = <<>>
  BY <1>1, <1>3, <1>4, <1>5
<1>6. CASE wire # <<>>
  <2>1. wire'[1] = wire[1]
    BY <1>1, <1>2, <1>6
  <2> QED
    BY <1>1, <1>6, <2>1 DEF SilenceInv
<1> QED
  BY <1>5, <1>6

\* A step that loses nothing and writes what it marks keeps the task's turn and the bound.
LEMMA TurnPreserved ==
  ASSUME TypeOK, TurnInv, SilenceInv, Next, lost' = 0, hollow' = 0
  PROVE  TurnInv' /\ SilenceInv'
<1>0. /\ Interval \in Nat \ {0} /\ MaxDelay \in Nat /\ MaxDelay < Interval /\ PingTimeout \in Nat
      /\ PingTimeout > 2 * MaxDelay /\ Limit \in Nat
      /\ nap \in 0 .. Interval /\ quiet \in 0 .. Interval + 1 /\ silence \in Nat /\ waited \in 0 .. PingTimeout
      /\ lost \in Nat /\ hollow \in Nat
      /\ wire \in Seq(Frames) /\ back \in Seq(Answers) /\ Len(wire) \in Nat /\ Len(back) \in Nat
  BY TimeAssumption, LenProperties DEF TypeOK, Limit
<1>1. /\ \A i \in 1 .. Len(wire) : wire[i] \in Frames /\ wire[i].age \in 0 .. MaxDelay
      /\ \A i \in 1 .. Len(back) : back[i] \in Answers /\ back[i].age \in 0 .. MaxDelay
  <2>1. (\A i \in 1 .. Len(wire) : wire[i] \in Frames) /\ (\A i \in 1 .. Len(back) : back[i] \in Answers)
    BY <1>0, ElementOfSeq
  <2> QED
    BY <2>1 DEF Frames, Answers
<1>2. /\ wire # <<>> => Len(wire) \in Nat \ {0}
      /\ back # <<>> => Len(back) \in Nat \ {0}
  BY <1>0, EmptySeq
\* A request of the task goes out.
<1>3. ASSUME NEW k \in {"PING", "SET_CONFIG"}, Request(k), NoPing, back' = <<>>, silence' = silence
      PROVE  TurnInv' /\ SilenceInv'
  <2> DEFINE x == Frame("ka", k)
  <2>1. x \in Frames /\ x.from = "ka" /\ x.age = 0
    BY FrameIn
  <2>2. wire' = Append(wire, x) /\ ka' # "sleep" /\ waited' = 0
    BY <1>3 DEF Request
  <2>3. Len(wire') = Len(wire) + 1 /\ (\A i \in 1 .. Len(wire) : wire'[i] = wire[i]) /\ wire'[Len(wire) + 1] = x
    BY <1>0, <2>1, <2>2, AppendAt
  <2> HIDE DEF x
  <2>4. Asking'
    BY <1>0, <1>3, <2>1, <2>2, <2>3 DEF Asking, NoPing
  <2>5. wire = <<>> => silence <= 2 * Interval - 1
    BY SilenceAtWrite
  <2>6. wire' # <<>> /\ silence' <= 2 * Interval - 1 + wire'[1].age
    BY <1>3, <2>1, <2>2, <2>5, SilenceAtAppend
  <2> QED
    BY <1>3, <2>2, <2>4, <2>6 DEF TurnInv, SilenceInv
<1>4. CASE KaWake
  <2>1. ka = "sleep" /\ nap = 0 /\ back = <<>> /\ NoPing /\ UNCHANGED <<quiet, back, silence>>
    BY <1>4 DEF KaWake, TurnInv
  <2>2. CASE quiet < Interval
    <3>1. ka' = "sleep" /\ nap' = Interval /\ wire' = wire
      BY <1>4, <2>2 DEF KaWake, Sleep
    <3>2. TurnInv'
      BY <2>1, <3>1 DEF TurnInv, NoPing
    <3>3. wire = <<>> => silence <= quiet
      BY <1>0, <2>1, <2>2 DEF SilenceInv
    <3> QED
      BY <1>0, <2>1, <2>2, <3>1, <3>2, <3>3 DEF SilenceInv
  <2>3. CASE ~(quiet < Interval)
    BY <1>3, <1>4, <2>1, <2>3 DEF KaWake
  <2> QED
    BY <2>2, <2>3
<1>5. CASE KaAnswered
  <2>1. ka # "sleep" /\ back # <<>> /\ back' = Tail(back) /\ silence' = silence
    BY <1>5 DEF KaAnswered
  <2>2. Len(back) = 1 /\ NoPing /\ silence <= MaxDelay
    BY <2>1, AwakeUnderWay DEF Answering
  <2>3. back' = <<>>
    <3>1. Tail(back) \in Seq(Answers) /\ Len(Tail(back)) = 0
      BY <1>0, <2>1, <2>2, TailAt
    <3> QED
      BY <2>1, <3>1
  <2>4. CASE Sleep /\ wire' = wire
    <3>1. ka' = "sleep" /\ nap' = Interval /\ wire' = wire /\ quiet' \in 0 .. Interval + 1
      BY <1>0, <1>5, <2>4 DEF Sleep, KaAnswered
    <3>2. TurnInv'
      BY <2>2, <2>3, <3>1 DEF TurnInv, NoPing
    <3>3. ~(quiet' + nap' < Interval) /\ silence' + nap' <= 2 * Interval - 1
      <4>1. Interval \in Nat /\ MaxDelay \in Nat /\ MaxDelay < Interval /\ silence \in Nat
        BY <1>0
      <4>2. silence' <= MaxDelay /\ nap' = Interval /\ quiet' \in Nat /\ silence' \in Nat
        BY <2>1, <2>2, <3>1, <4>1
      <4> QED
        BY <4>1, <4>2, NewSleep
    <3>4. wire' # <<>> => silence' <= 2 * Interval - 1 + wire'[1].age
      BY <2>1, <3>1 DEF SilenceInv
    <3> QED
      BY <2>3, <3>2, <3>3, <3>4 DEF SilenceInv
  <2>5. CASE Request("SET_CONFIG")
    BY <1>3, <2>1, <2>2, <2>3, <2>5
  <2> QED
    BY <1>5, <2>4, <2>5 DEF KaAnswered
<1>6. CASE KaTimeout
  BY <1>0, <1>6, AwakeUnderWay DEF KaTimeout
<1>7. CASE UserWrite
  <2> DEFINE x == Frame("user", "OTHER")
  <2>1. x \in Frames /\ x.from = "user" /\ x.age = 0
    BY FrameIn
  <2>2. wire' = Append(wire, x) /\ UNCHANGED <<ka, waited, back, silence>>
    BY <1>7 DEF UserWrite
  <2>3. Len(wire') = Len(wire) + 1 /\ (\A i \in 1 .. Len(wire) : wire'[i] = wire[i]) /\ wire'[Len(wire) + 1] = x
    BY <1>0, <2>1, <2>2, AppendAt
  <2> HIDE DEF x
  <2>4. NoPing => NoPing'
    BY <1>0, <2>1, <2>3 DEF NoPing
  <2>5. Asking => Asking'
    BY <1>0, <2>1, <2>2, <2>3 DEF Asking
  <2>6. Answering => Answering'
    BY <2>2, <2>4 DEF Answering
  <2>7. wire' # <<>> /\ silence' <= 2 * Interval - 1 + wire'[1].age
    BY <2>1, <2>2, SilenceAtWrite, SilenceAtAppend
  <2> QED
    BY <2>2, <2>4, <2>5, <2>6, <2>7 DEF TurnInv, SilenceInv
<1>8. CASE DevHear
  <2>1. wire # <<>> /\ wire' = Tail(wire) /\ silence' = 0 /\ UNCHANGED <<ka, nap, waited, quiet>>
    BY <1>8 DEF DevHear, Hear
  <2>2. /\ Len(wire) \in Nat \ {0} /\ Len(wire') = Len(wire) - 1 /\ Head(wire) = wire[1]
        /\ \A i \in 1 .. Len(wire) - 1 : wire'[i] = wire[i + 1]
        /\ wire' \in Seq(Frames)
    BY <1>0, <2>1, TailAt
  <2>3. NoPing => NoPing'
    BY <2>2 DEF NoPing
  <2>4. \A i \in 1 .. Len(wire') : wire'[i].age \in 0 .. MaxDelay
    BY <1>1, <2>2
  <2>5. TurnInv' /\ (back' # <<>> => 0 <= back'[1].age)
    <3>1. CASE wire[1].from = "ka"
      <4>1. ~NoPing
        BY <2>2, <3>1 DEF NoPing
      <4>2. ka # "sleep" /\ Asking
        BY <4>1 DEF TurnInv, Answering
      <4>3. NoPing' /\ waited <= MaxDelay
        <5>1. PICK i \in 1 .. Len(wire) : /\ wire[i].age = waited
                                          /\ \A j \in 1 .. Len(wire) : j # i => wire[j].from = "user"
          BY <4>2 DEF Asking
        <5>2. i = 1
          BY <2>2, <3>1, <5>1
        <5>3. waited <= MaxDelay
          BY <1>0, <1>1, <5>1
        <5>4. \A j \in 1 .. Len(wire') : wire'[j].from = "user"
          BY <2>2, <5>1, <5>2
        <5> QED
          BY <5>3, <5>4 DEF NoPing
      <4>4. PICK k \in {"Ok", "NotConfigured"} : back' = Append(back, [kind |-> k, age |-> 0])
        BY <1>8, <2>2, <3>1 DEF DevHear, Hear
      <4>5. [kind |-> k, age |-> 0] \in Answers
        BY <1>0 DEF Answers
      <4>6. Len(back) = 0
        BY <4>2 DEF Asking
      <4>7. Len(back') = 1 /\ back'[1] = [kind |-> k, age |-> 0]
        BY <1>0, <4>4, <4>5, <4>6, AppendAt
      <4>8. back'[1].age = 0
        BY <4>7
      <4> QED
        BY <1>0, <2>1, <4>2, <4>3, <4>7, <4>8 DEF TurnInv, Answering
    <3>2. CASE wire[1].from # "ka"
      <4>1. back' = back
        BY <1>8, <2>2, <3>2 DEF DevHear, Hear
      <4>2. Asking => Asking'
        <5>1. SUFFICES ASSUME Asking PROVE Asking'
          OBVIOUS
        <5>2. PICK i \in 1 .. Len(wire) : /\ wire[i].from = "ka" /\ wire[i].age = waited
                                          /\ \A j \in 1 .. Len(wire) : j # i => wire[j].from = "user"
          BY <5>1 DEF Asking
        <5>3. i - 1 \in 1 .. Len(wire') /\ wire'[i - 1] = wire[i]
          BY <2>2, <3>2, <5>2
        <5>4. \A j \in 1 .. Len(wire') : j # i - 1 => wire'[j].from = "user"
          BY <2>2, <5>2
        <5> QED
          BY <2>1, <4>1, <5>1, <5>2, <5>3, <5>4 DEF Asking
      <4>3. Answering => Answering'
        BY <2>1, <2>3, <4>1 DEF Answering
      <4>4. back # <<>> => 0 <= back[1].age
        BY <1>0, <1>1, <1>2
      <4> QED
        BY <2>1, <2>3, <4>1, <4>2, <4>3, <4>4 DEF TurnInv
    <3> QED
      BY <3>1, <3>2
  <2>6. wire' # <<>> => 0 <= 2 * Interval - 1 + wire'[1].age
    <3>1. wire' # <<>> => Len(wire') \in Nat \ {0}
      BY <2>2, EmptySeq
    <3> QED
      BY <1>0, <2>4, <3>1
  <2> QED
    BY <1>0, <2>1, <2>5, <2>6 DEF SilenceInv
<1>9. CASE Tick
  <2>1. /\ \A i \in DOMAIN wire : wire[i].age # MaxDelay
        /\ \A i \in DOMAIN back : back[i].age # MaxDelay
        /\ ka = "sleep" => nap # 0
    BY <1>9 DEF Tick, Due
  <2>2. /\ wire' = Older(wire) /\ back' = Older(back) /\ ka' = ka
        /\ ka # "sleep" => waited' = waited + 1
        /\ ka = "sleep" => nap' = nap - 1
        /\ silence' <= silence + 1
        /\ quiet' = IF quiet = Interval + 1 THEN Interval + 1 ELSE quiet + 1
    BY <1>0, <1>9 DEF Tick, UpTo
  <2>3. /\ Len(wire') = Len(wire) /\ Len(back') = Len(back)
        /\ \A i \in 1 .. Len(wire) : wire'[i].age = wire[i].age + 1 /\ wire'[i].from = wire[i].from
        /\ \A i \in 1 .. Len(back) : back'[i].age = back[i].age + 1
        /\ wire' \in Seq(Frames) /\ back' \in Seq(Answers)
    BY <1>0, <2>1, <2>2, OlderAt
  <2>4. (wire' = <<>> <=> wire = <<>>) /\ (back' = <<>> <=> back = <<>>)
    BY <1>0, <1>2, <2>3, EmptySeq
  <2>5. NoPing => NoPing'
    BY <2>3 DEF NoPing
  <2>6. ka # "sleep" /\ Asking => Asking'
    <3>1. ASSUME ka # "sleep", back = <<>>, NEW i \in 1 .. Len(wire), wire[i].from = "ka", wire[i].age = waited,
                 \A j \in 1 .. Len(wire) : j # i => wire[j].from = "user"
          PROVE  Asking'
      <4>1. back' = <<>> /\ i \in 1 .. Len(wire') /\ wire'[i].from = "ka" /\ wire'[i].age = waited'
        BY <2>2, <2>3, <2>4, <3>1
      <4>2. \A j \in 1 .. Len(wire') : j # i => wire'[j].from = "user"
        BY <2>3, <3>1
      <4> QED
        BY <4>1, <4>2 DEF Asking
    <3> QED
      BY <3>1 DEF Asking
  <2>7. ka # "sleep" /\ Answering => Answering'
    <3> SUFFICES ASSUME ka # "sleep", Answering PROVE Answering'
      OBVIOUS
    <3>1. Len(back') = 1 /\ NoPing' /\ back'[1].age = back[1].age + 1 /\ waited' = waited + 1
      BY <2>2, <2>3, <2>5 DEF Answering
    <3>2. waited' <= MaxDelay + back'[1].age
      BY <1>0, <1>1, <3>1 DEF Answering
    <3> QED
      BY <3>1, <3>2 DEF Answering
  <2>8. TurnInv'
    BY <2>2, <2>4, <2>5, <2>6, <2>7 DEF TurnInv
  <2>9. silence' \in Nat
    BY <1>0, <1>9 DEF Tick, UpTo
  <2>10. wire' # <<>> => silence' <= 2 * Interval - 1 + wire'[1].age
    BY <1>0, <1>1, <1>2, <2>2, <2>3, <2>4, <2>9 DEF SilenceInv
  <2>11. back' # <<>> => silence' <= back'[1].age
    BY <1>0, <1>1, <1>2, <2>2, <2>3, <2>4, <2>9 DEF SilenceInv
  <2>12. ka' = "sleep" /\ wire' = <<>> =>
           IF quiet' + nap' < Interval THEN silence' <= quiet' ELSE silence' + nap' <= 2 * Interval - 1
    <3>1. SUFFICES ASSUME ka = "sleep", wire = <<>>
                   PROVE  IF quiet' + nap' < Interval THEN silence' <= quiet'
                          ELSE silence' + nap' <= 2 * Interval - 1
      BY <2>2, <2>4
    <3>2. IF quiet + nap < Interval THEN silence <= quiet ELSE silence + nap <= 2 * Interval - 1
      BY <3>1 DEF SilenceInv
    <3>3. nap' = nap - 1 /\ nap # 0 /\ silence' <= silence + 1
      BY <2>1, <2>2, <3>1
    <3>4. /\ Interval \in Nat /\ nap \in Nat /\ quiet \in Nat /\ quiet <= Interval + 1
          /\ silence \in Nat /\ silence' \in Nat /\ nap' \in Nat /\ quiet' \in Nat
      BY <1>0, <2>2, <2>9, <3>3
    <3> QED
      BY <2>2, <3>2, <3>3, <3>4, OneTick
  <2> QED
    BY <2>8, <2>10, <2>11, <2>12 DEF SilenceInv
<1>10. CASE UserHollow \/ Lose
  BY <1>0, <1>10 DEF UserHollow, Lose
<1> QED
  BY <1>4, <1>5, <1>6, <1>7, <1>8, <1>9, <1>10 DEF Next, KaStep

(****************************************************************************)
(* The theorems                                                             *)
(****************************************************************************)

\* The invariant holds when the task starts,
LEMMA KInvInit == Init => KInv
<1> SUFFICES ASSUME Init PROVE KInv
  OBVIOUS
<1>1. Limit \in Nat /\ Interval \in Nat \ {0} /\ PingTimeout \in Nat
  BY TimeAssumption DEF Limit
<1>2. TypeOK
  BY <1>1, BoundAssumption, EmptySeq DEF Init, TypeOK
<1>3. TurnInv /\ SilenceInv
  BY <1>1 DEF Init, TurnInv, NoPing, SilenceInv
<1> QED
  BY <1>2, <1>3 DEF KInv

\* and every step keeps it.
LEMMA KInvNext == KInv /\ [Next]_vars => KInv'
<1> SUFFICES ASSUME KInv, [Next]_vars PROVE KInv'
  OBVIOUS
<1>1. TypeOK'
  BY TypesPreserved DEF KInv
<1>2. ASSUME lost' = 0, hollow' = 0 PROVE lost = 0 /\ hollow = 0
  <2>1. /\ lost \in Nat /\ hollow \in Nat /\ lost' \in {lost, lost + 1} /\ hollow' \in {hollow, hollow + 1}
    BY DEF KInv, TypeOK, Next, KaStep, KaWake, KaAnswered, KaTimeout, UserWrite, UserHollow, DevHear, Hear, Lose,
      Tick, vars
  <2> QED
    BY <1>2, <2>1
<1>3. ASSUME lost' = 0, hollow' = 0 PROVE TurnInv' /\ SilenceInv'
  <2>1. TypeOK /\ TurnInv /\ SilenceInv
    BY <1>2, <1>3 DEF KInv
  <2>2. CASE Next
    BY <1>3, <2>1, <2>2, TurnPreserved
  <2>3. CASE UNCHANGED vars
    BY <2>1, <2>3 DEF vars, TurnInv, NoPing, Asking, Answering, SilenceInv
  <2> QED
    BY <2>2, <2>3
<1> QED
  BY <1>1, <1>3 DEF KInv

\* The invariant of the task's turns and the device's silence holds throughout.
THEOREM KeepaliveInvariant == Spec => []KInv
BY KInvInit, KInvNext, PTL DEF Spec

\* The clocks of the task, of last_write_at and of the device stay in their ranges, and
\* nothing is under way for longer than MaxDelay.
THEOREM KeepaliveTypes == Spec => []TypeOK
<1>1. KInv => TypeOK
  BY DEF KInv
<1> QED
  BY <1>1, KeepaliveInvariant, PTL

\* The keepalive loop with last_write_at: for every interval, timeout and delay, however
\* users' writes fall between the task's wake-ups, the device never hears nothing for
\* two intervals and the delay of a frame, as long as nothing is lost.
THEOREM SilenceIsBounded == Spec => []SilenceBounded
<1>1. KInv => SilenceBounded
  <2>1. SUFFICES ASSUME TypeOK, TurnInv, SilenceInv PROVE silence <= Limit
    BY DEF KInv, SilenceBounded
  <2>2. /\ Interval \in Nat \ {0} /\ MaxDelay \in Nat /\ MaxDelay < Interval
        /\ nap \in 0 .. Interval /\ quiet \in 0 .. Interval + 1 /\ silence \in Nat
    BY <2>1, TimeAssumption DEF TypeOK, Limit
  <2>3. CASE wire # <<>>
    <3>1. wire[1] \in Frames
      BY <2>1, <2>3, EmptySeq, ElementOfSeq DEF TypeOK
    <3>2. wire[1].age \in 0 .. MaxDelay /\ silence <= 2 * Interval - 1 + wire[1].age
      BY <2>1, <2>3, <3>1 DEF Frames, SilenceInv
    <3> QED
      BY <2>2, <3>2 DEF Limit
  <2>4. CASE wire = <<>>
    <3>1. silence <= 2 * Interval - 1
      BY <2>1, <2>4, SilenceAtWrite
    <3> QED
      BY <2>2, <3>1 DEF Limit
  <2> QED
    BY <2>3, <2>4
<1> QED
  BY <1>1, KeepaliveInvariant, PTL

=============================================================================
