---------------------------- MODULE DongleProofs ----------------------------
(****************************************************************************)
(* Proofs about Dongle, for every set of tasks, configurations and retry    *)
(* policies, and any number of calls: its type invariant, that a call's     *)
(* packet is on the air at most once and an Ok means that it was, and the   *)
(* bounds of the backoff.                                                   *)
(****************************************************************************)
EXTENDS Dongle, SequenceTheorems, TLAPS

(****************************************************************************)
(* The inductive invariant                                                  *)
(****************************************************************************)

TxOps    == {"tx", "tx_with_retry"}
Recovery == {"reapply", "resend", "reapplied", "again", "again_wait"}

\* Which method may be at which place, and with which argument.
PlaceAt(t) ==
  /\ pc[t] # "off"
  /\ pc[t] \in {"send", "wait"} => op[t] \in TxOps \cup {"rx_stop", "set_config", "ping"}
  /\ pc[t] \in {"send", "wait", "sleep"} => arg[t] \in IF op[t] = "set_config" THEN Configs ELSE {Nil}
  /\ pc[t] = "sleep" => op[t] = "tx_with_retry"
  /\ pc[t] \in {"rx_lock", "rx_wait", "rx_set"} => op[t] \in {"rx_start", "recv"}
  /\ pc[t] \in Recovery => op[t] \in {"tx", "rx_start", "recv"}
  /\ pc[t] = "resend" => arg[t] \in Configs
  /\ pc[t] \in {"recv_read", "recv_open"} => op[t] = "recv"
  /\ pc[t] = "clear" => op[t] \in {"rx_stop", "set_config"}
  /\ pc[t] = "close" => op[t] = "close"

KaPlace ==
  /\ pc[Ka] \in {"idle", "wait", "reapply", "resend", "reapplied", "off"}
  /\ pc[Ka] = "resend" => arg[Ka] \in Configs

PlaceInv == KaPlace /\ \A t \in Tasks : PlaceAt(t)

\* tx_with_retry: the floor of the backoff, from attempt to attempt.
Retrying(t) == op[t] = "tx_with_retry" /\ pc[t] \in {"send", "wait", "sleep"}

FloorFits(t) ==
  LET p == policy[t]
  IN p.mul >= 2 /\ Exact(p) => delay_ms[t] >= p.backoff_ms_min \/ delay_ms[t] >= p.backoff_cap_ms

\* The floor of the backoff that follows attempt n.
FloorAt(t, n) ==
  LET p == policy[t] IN IF n = 1 THEN delay_ms[t] = p.backoff_ms_min ELSE delay_ms[t] <= p.backoff_cap_ms

BackoffAt(t) ==
  Retrying(t) =>
    LET p     == policy[t]
        tried == p.max_attempts - left[t]
    IN /\ p \in Policies /\ left[t] <= p.max_attempts
       /\ FloorFits(t)
       /\ pc[t] # "sleep" => FloorAt(t, tried + 1)
       /\ pc[t] = "sleep" => /\ tried >= 1 /\ FloorAt(t, tried)
                             /\ nap[t] >= delay_ms[t] /\ nap[t] <= delay_ms[t] + spread(p)

BackoffInv == \A t \in Tasks : BackoffAt(t)

OInv == TypeOK /\ PlaceInv /\ BackoffInv

\* A call under way, or a result, is that of a numbered call.
CallInv ==
  \A t \in Tasks : pc[t] # "idle" \/ result[t] # "none" => ops[t] \in 1 .. MaxOps

\* The frames on the wire: how they are numbered, and what a task that waits waits for.
OnWire(f) == \E i \in 1 .. Len(toDev) : toDev[i] = f

Awaited(t) == IF pc[t] = "reapplied" THEN "SET_CONFIG" ELSE Command(op[t])

FrameOk(f) ==
  /\ f.n <= req[f.who]
  /\ f.cmd = "TX" => f.who \in Tasks
  /\ f.who \in Tasks => f.call \in 1 .. ops[f.who]
  /\ f.who \in Tasks /\ Waits(f.who) /\ f.n = req[f.who] => f.call = ops[f.who] /\ f.cmd = Awaited(f.who)

FrameInv == \A f \in Frames : OnWire(f) => FrameOk(f)

\* The packet of the call under way may still have to be sent.
Fresh(t) ==
  /\ op[t] \in TxOps
  /\ \/ pc[t] \in {"send", "sleep", "reapply", "resend", "reapplied", "again"}
     \/ pc[t] = "wait" /\ ans[t].kind \in {"Busy", "NotConfigured"}

\* It was sent, and the answer says it was on the air.
Confirmed(t) ==
  /\ op[t] \in TxOps
  /\ \/ pc[t] \in {"wait", "again_wait"} /\ ans[t].kind = "Ok"
     \/ pc[t] = "idle" /\ result[t] = "Ok"

\* The packet of call c of task t is on the wire.
Packet(f, t, c) == f.cmd = "TX" /\ f.who = t /\ f.call = c
Carried(t, c)   == \E f \in Frames : OnWire(f) /\ Packet(f, t, c)

\* No packet is on the wire twice.
WireInv ==
  \A i, j \in 1 .. Len(toDev) :
    i # j /\ toDev[i].cmd = "TX" /\ toDev[j].cmd = "TX" /\ toDev[i].who = toDev[j].who
      => toDev[i].call # toDev[j].call

\* A packet is on the wire or was on the air, not both, and once.
AirInv ==
  \A t \in Tasks, c \in 1 .. MaxOps :
    aired[<<t, c>>] <= 1 /\ (c > ops[t] \/ Carried(t, c) => aired[<<t, c>>] = 0)

PacketAt(t) ==
  /\ Fresh(t) => aired[<<t, ops[t]>>] = 0 /\ ~Carried(t, ops[t])
  /\ Confirmed(t) => aired[<<t, ops[t]>>] = 1

PacketInv == WireInv /\ AirInv /\ \A t \in Tasks : PacketAt(t)

DInv == OInv /\ CallInv /\ FrameInv /\ PacketInv

(****************************************************************************)
(* Types                                                                    *)
(****************************************************************************)

\* The conjuncts of TypeOK one by one, as the provers take them best.
Types ==
  /\ closed \in BOOLEAN /\ sess_closed \in BOOLEAN /\ rx_started \in BOOLEAN
  /\ dev_rx \in BOOLEAN /\ overlap \in BOOLEAN /\ recovered \in BOOLEAN
  /\ rx_guard \in Tasks \cup {Nil}
  /\ applied_config \in Configs \cup {Nil} /\ dev_cfg \in Configs \cup {Nil}
  /\ pc \in [Actors -> Labels]
  /\ op \in [Tasks -> AllOps \cup {Nil}] /\ arg \in [Actors -> Configs \cup {Nil}]
  /\ policy \in [Tasks -> Policies \cup {Nil}]
  /\ left \in [Tasks -> Nat] /\ delay_ms \in [Tasks -> Nat] /\ nap \in [Tasks -> Nat]
  /\ ops \in [Tasks -> 0 .. MaxOps]
  /\ result \in [Tasks -> Kinds \cup {"none", "Other"}]
  /\ req \in [Actors -> Nat] /\ ans \in [Actors -> [kind : Kinds, cfg : Configs \cup {Nil}]]
  /\ toDev \in Seq(Frames)
  /\ wakes \in 0 .. MaxWakes /\ lapses \in 0 .. MaxLapses
  /\ aired \in [Tasks \X (1 .. MaxOps) -> Nat]

\* The transport, and how many of the frames it has taken.
WireTypes == link \in BOOLEAN /\ wired \in 0 .. Len(toDev)

\* The two statements of the types say the same.
LEMMA TypeParts == TypeOK <=> Types /\ WireTypes
  BY Zenon DEF TypeOK, Types, WireTypes

\* The bounds, one by one.
LEMMA Bounds == MaxOps \in Nat /\ MaxWakes \in Nat /\ MaxLapses \in Nat
  BY BoundsAssumption

\* The numbers of a RetryPolicy.
LEMMA PolicyParts ==
  ASSUME NEW p \in Policies
  PROVE  /\ p.max_attempts \in Nat /\ p.backoff_ms_min \in Nat /\ p.backoff_ms_max \in Nat
         /\ p.mul \in Nat /\ p.backoff_cap_ms \in Nat /\ spread(p) \in Nat
<1>1. IsPolicy(p)
  BY PolicyAssumption
<1>2. /\ p.max_attempts \in Nat /\ p.backoff_ms_min \in Nat /\ p.backoff_ms_max \in Nat
      /\ p.mul \in Nat /\ p.backoff_cap_ms \in Nat
  BY <1>1 DEF IsPolicy
<1>. QED
  BY <1>2 DEF spread

\* An f32 is a number, and what it has the bits for is not rounded.
LEMMA Rounding ==
  ASSUME NEW n \in Nat
  PROVE  f32(n) \in Nat /\ (n < F32 => f32(n) = n)
<1>. DEFINE Fits(v) == (v = 1 \/ n \div (v \div 2) >= F32) /\ (v = 512 \/ n \div v < F32)
            u == CHOOSE v \in Ulps : Fits(v)
            q == n \div u
            r == n % u
<1>1. \E v \in Ulps : Fits(v)
  <2>1. CASE n < F32
    BY <2>1 DEF Ulps, F32
  <2>2. CASE n \div 512 >= F32
    BY <2>2 DEF Ulps, F32
  <2>3. CASE ~(n < F32) /\ ~(n \div 512 >= F32)
    BY <2>3 DEF Ulps, F32
  <2>. QED
    BY <2>1, <2>2, <2>3
<1>2. u \in Ulps /\ Fits(u)
  BY <1>1
<1>3. f32(n) = IF 2 * r > u \/ (2 * r = u /\ q % 2 = 1) THEN (q + 1) * u ELSE q * u
  BY DEF f32
<1>4. n < F32 => u = 1
  BY <1>2 DEF Ulps, F32
<1>. HIDE DEF u
<1>5. u \in Nat \ {0}
  BY <1>2 DEF Ulps
<1>6. q \in Nat /\ (u = 1 => q = n /\ r = 0)
  BY <1>5
<1>. HIDE DEF q, r
<1>7. q * u \in Nat /\ (q + 1) * u \in Nat
  BY <1>5, <1>6
<1>8. f32(n) \in Nat
  BY <1>3, <1>7
<1>9. u = 1 => f32(n) = n
  BY <1>3, <1>6
<1>. QED
  BY <1>4, <1>8, <1>9

\* A larger floor grows to more.
LEMMA Growth ==
  ASSUME NEW d \in Nat, NEW c \in Nat, NEW mul \in Nat
  PROVE  d * mul \in Nat /\ (d <= c => d * mul <= c * mul) /\ (mul >= 2 => d * mul >= d * 2)
<1>1. d * mul \in Nat
  OBVIOUS
<1>2. ASSUME d <= c PROVE d * mul <= c * mul
  <2>1. c - d \in Nat
    BY <1>2
  <2>2. (c - d) * mul \in Nat
    BY <2>1
  <2>3. c * mul = (c - d) * mul + d * mul
    OBVIOUS
  <2>. QED
    BY <1>1, <2>2, <2>3
<1>3. ASSUME mul >= 2 PROVE d * mul >= d * 2
  <2>1. mul - 2 \in Nat
    BY <1>3
  <2>2. d * (mul - 2) \in Nat
    BY <2>1
  <2>3. d * mul = d * (mul - 2) + d * 2
    OBVIOUS
  <2>. QED
    BY <1>1, <2>2, <2>3
<1>. QED
  BY <1>1, <1>2, <1>3

\* A floor is a number, and with a multiplier of at least one (mul is in halves) and no
\* rounding it does not shrink.
LEMMA GrownFloor ==
  ASSUME NEW d \in Nat, NEW mul \in Nat
  PROVE  scaled(d, mul) \in Nat /\ (mul >= 2 /\ d * mul < F32 => scaled(d, mul) >= d)
<1>1. f32(d) \in Nat /\ f32(d) * mul \in Nat
  BY Rounding
<1>2. f32(f32(d) * mul) \in Nat
  BY <1>1, Rounding
<1>3. \A x \in Nat : x \div 2 \in Nat /\ (x >= d * 2 => x \div 2 >= d)
  OBVIOUS
<1>4. ASSUME mul >= 2, d * mul < F32
      PROVE  f32(f32(d) * mul) >= d * 2
  <2>1. d * mul \in Nat /\ d * mul >= d * 2
    BY <1>4, Growth
  <2>2. d < F32
    BY <1>4, <2>1 DEF F32
  <2>3. f32(d) = d
    BY <2>2, Rounding
  <2>4. f32(d * mul) = d * mul
    BY <1>4, <2>1, Rounding
  <2>. QED
    BY <2>1, <2>3, <2>4
<1>. QED
  BY <1>2, <1>3, <1>4 DEF scaled

\* The floor of the backoff stays under the cap, and without rounding it grows.
LEMMA NextDelay ==
  ASSUME NEW p \in Policies, NEW d \in Nat
  PROVE  /\ next_delay(d, p) \in Nat /\ next_delay(d, p) <= p.backoff_cap_ms
         /\ p.mul >= 2 /\ d * p.mul < F32
              => next_delay(d, p) >= d \/ next_delay(d, p) >= p.backoff_cap_ms
<1>. DEFINE grown == scaled(d, p.mul)
<1>1. grown \in Nat /\ (p.mul >= 2 /\ d * p.mul < F32 => grown >= d)
  BY GrownFloor, PolicyParts
<1>2. next_delay(d, p) = IF grown < p.backoff_cap_ms THEN grown ELSE p.backoff_cap_ms
  BY DEF next_delay
<1>. HIDE DEF grown
<1>. QED
  BY <1>1, <1>2, PolicyParts

\* What a call of the session leaves behind has its type.
SessTypes ==
  /\ overlap \in BOOLEAN /\ recovered \in BOOLEAN
  /\ req \in [Actors -> Nat] /\ ans \in [Actors -> [kind : Kinds, cfg : Configs \cup {Nil}]]
  /\ toDev \in Seq(Frames)

\* The commands with their arguments.
Sendable(k, m) ==
  IF k = "SET_CONFIG" THEN m \in Configs ELSE k \in {"TX", "RX_START", "RX_STOP", "PING"} /\ m = Nil

\* An answer without a configuration is an answer.
LEMMA AnswerTypes ==
  ASSUME NEW k \in Kinds
  PROVE  Answer(k) \in [kind : Kinds, cfg : Configs \cup {Nil}]
  BY DEF Answer

\* send_command keeps the types of what the session holds.
LEMMA SendTypes ==
  ASSUME Types, NEW a \in Actors, NEW k, NEW m, Sendable(k, m), Send(a, k, m)
  PROVE  SessTypes'
<1>. DEFINE f == [who |-> a, n |-> req[a] + 1, cmd |-> k, cfg |-> m,
                  call |-> IF a = Ka THEN 0 ELSE ops[a]]
<1>1. Answer("Closed") \in [kind : Kinds, cfg : Configs \cup {Nil}]
  /\ Answer("waiting") \in [kind : Kinds, cfg : Configs \cup {Nil}]
  BY AnswerTypes DEF Kinds
<1>2. f \in Frames
  <2>1. req[a] + 1 \in Nat
    BY DEF Types
  <2>2. (IF a = Ka THEN 0 ELSE ops[a]) \in Nat
    BY Bounds DEF Types, Actors
  <2>. QED
    BY <2>1, <2>2 DEF Frames, Sendable
<1>3. CASE sess_closed
  <2>1. ans' = [ans EXCEPT ![a] = Answer("Closed")] /\ UNCHANGED <<req, toDev, overlap, recovered>>
    BY <1>3 DEF Send, histVars
  <2>. QED
    BY <2>1, <1>1 DEF Types, SessTypes
<1>4. CASE ~sess_closed
  <2>1. /\ overlap' = IF k = "SET_CONFIG" THEN Overlaps(a) ELSE overlap
        /\ recovered' = (recovered \/ pc[a] = "resend")
        /\ req' = [req EXCEPT ![a] = @ + 1]
        /\ ans' = [ans EXCEPT ![a] = Answer("waiting")]
        /\ toDev' = Append(toDev, f)
    BY <1>4, Zenon DEF Send
  <2>. HIDE DEF f
  <2>2. toDev' \in Seq(Frames)
    BY <2>1, <1>2 DEF Types
  <2>3. overlap' \in BOOLEAN /\ recovered' \in BOOLEAN
    BY <2>1 DEF Types, Overlaps
  <2>4. req' \in [Actors -> Nat] /\ ans' \in [Actors -> [kind : Kinds, cfg : Configs \cup {Nil}]]
    BY <2>1, <1>1 DEF Types
  <2>. QED
    BY <2>2, <2>3, <2>4 DEF SessTypes
<1>. QED
  BY <1>3, <1>4

\* So does a caller that stops waiting.
LEMMA ForgetTypes ==
  ASSUME Types, NEW a \in Actors, Forget(a)
  PROVE  SessTypes'
<1>1. Answer("Ok") \in [kind : Kinds, cfg : Configs \cup {Nil}]
  BY AnswerTypes DEF Kinds
<1>. QED
  BY <1>1 DEF Forget, Types, SessTypes, histVars

\* A session call ends without an answer of the device.
Fails(a) == GiveUp(a) \/ LinkFails(a)

\* That too keeps the types.
LEMMA FailsTypes ==
  ASSUME Types, NEW a \in Actors, Fails(a)
  PROVE  SessTypes'
<1>1. PICK k \in Kinds : ans' = [ans EXCEPT ![a] = Answer(k)]
  BY DEF Fails, GiveUp, LinkFails, Kinds
<1>2. Answer(k) \in [kind : Kinds, cfg : Configs \cup {Nil}]
  BY AnswerTypes
<1>3. UNCHANGED <<req, toDev, overlap, recovered>>
  BY DEF Fails, GiveUp, LinkFails, histVars
<1>. QED
  BY <1>1, <1>2, <1>3 DEF Types, SessTypes

\* Everything a step may change beside the calls of the session.
OwnTypes ==
  /\ closed \in BOOLEAN /\ sess_closed \in BOOLEAN /\ rx_started \in BOOLEAN
  /\ rx_guard \in Tasks \cup {Nil} /\ applied_config \in Configs \cup {Nil}
  /\ pc \in [Actors -> Labels]
  /\ op \in [Tasks -> AllOps \cup {Nil}] /\ arg \in [Actors -> Configs \cup {Nil}]
  /\ policy \in [Tasks -> Policies \cup {Nil}]
  /\ left \in [Tasks -> Nat] /\ delay_ms \in [Tasks -> Nat] /\ nap \in [Tasks -> Nat]
  /\ ops \in [Tasks -> 0 .. MaxOps]
  /\ result \in [Tasks -> Kinds \cup {"none", "Other"}]
  /\ wakes \in 0 .. MaxWakes

DevTypes ==
  /\ dev_rx \in BOOLEAN /\ dev_cfg \in Configs \cup {Nil}
  /\ lapses \in 0 .. MaxLapses /\ aired \in [Tasks \X (1 .. MaxOps) -> Nat]

\* The types, grouped by who changes them.
LEMMA TypesSplit == Types <=> OwnTypes /\ SessTypes /\ DevTypes
  BY Zenon DEF Types, OwnTypes, SessTypes, DevTypes

\* A step that leaves the session's variables alone keeps their types,
LEMMA SessKeptTypes ==
  ASSUME Types, UNCHANGED sessVars
  PROVE  SessTypes'
  BY DEF Types, SessTypes, sessVars, histVars

\* and one that leaves the device's alone keeps theirs.
LEMMA DevKeptTypes ==
  ASSUME Types, UNCHANGED devVars
  PROVE  DevTypes'
  BY DEF Types, DevTypes, devVars

\* What a task sends.
LEMMA TaskSends ==
  ASSUME PlaceInv, NEW t \in Tasks
  PROVE  /\ pc[t] = "send" => Sendable(Command(op[t]), arg[t])
         /\ pc[t] = "again" => Sendable(Command(op[t]), Nil)
  BY DEF PlaceInv, PlaceAt, Command, Sendable, TxOps, Recovery

\* The groups together are all of them, also after a step.
LEMMA TypesJoin == OwnTypes' /\ SessTypes' /\ DevTypes' => Types'
  BY Zenon DEF Types, OwnTypes, SessTypes, DevTypes

\* A task that goes on, or returns what it was answered, keeps the types.
LEMMA MovesOn ==
  ASSUME Types, NEW t \in Tasks, t \in Actors, ans[t].kind \in Kinds,
         \E l \in {"idle", "reapply", "clear"} : Goto(t, l),
         result' = result \/ result' = [result EXCEPT ![t] = ans[t].kind],
         UNCHANGED <<op, arg, ops, retryVars, rx_started, rx_guard, endVars>>,
         applied_config' \in Configs \cup {Nil}
  PROVE  OwnTypes'
<1>1. pc' \in [Actors -> Labels]
  <2>1. pc \in [Actors -> Labels]
    BY DEF Types
  <2>2. {"idle", "reapply", "clear"} \subseteq Labels
    BY DEF Labels
  <2>. QED
    BY <2>1, <2>2 DEF Goto
<1>2. result' \in [Tasks -> Kinds \cup {"none", "Other"}]
  <2>1. result \in [Tasks -> Kinds \cup {"none", "Other"}]
    BY DEF Types
  <2>. QED
    BY <2>1
<1>3. UNCHANGED <<op, arg, ops, policy, left, delay_ms, nap, rx_started, rx_guard, closed, sess_closed, wakes>>
  BY DEF retryVars, endVars
<1>. QED
  BY <1>1, <1>2, <1>3, Zenon DEF Types, OwnTypes

\* A step of a task keeps the types.
LEMMA TaskTypes ==
  ASSUME Types, PlaceInv, BackoffInv, NEW t \in Tasks, Begin(t) \/ CloseBegin(t) \/ OpStep(t)
  PROVE  Types'
<1>0. t \in Actors /\ t # Ka
  BY TasksAssumption DEF Actors
<1>a. ans[t].kind \in Kinds /\ ans[t].cfg \in Configs \cup {Nil}
  BY <1>0 DEF Types
<1>b. pc \in [Actors -> Labels] /\ result \in [Tasks -> Kinds \cup {"none", "Other"}]
  BY DEF Types
<1>1. CASE Begin(t)
  <2>1. DevTypes'
    BY <1>1, DevKeptTypes DEF Begin
  <2>2. OwnTypes'
    <3>1. pc' \in [Actors -> Labels] /\ result' \in [Tasks -> Kinds \cup {"none", "Other"}]
      BY <1>1, <1>0, <1>a, <1>b DEF Begin, Return, Goto, Entry, Kinds, Labels
    <3>2. PICK o \in OpKinds \ {"close"} :
            /\ op' = [op EXCEPT ![t] = o]
            /\ \E m \in IF o = "set_config" THEN Configs ELSE {Nil} : arg' = [arg EXCEPT ![t] = m]
            /\ IF o = "tx_with_retry"
               THEN \E p \in Policies :
                      /\ policy' = [policy EXCEPT ![t] = p]
                      /\ left' = [left EXCEPT ![t] = p.max_attempts]
                      /\ delay_ms' = [delay_ms EXCEPT ![t] = p.backoff_ms_min]
               ELSE UNCHANGED <<policy, left, delay_ms>>
      BY <1>1 DEF Begin
    <3>3. op' \in [Tasks -> AllOps \cup {Nil}] /\ arg' \in [Actors -> Configs \cup {Nil}]
      BY <3>2, <1>0, OpsAssumption DEF Types
    <3>4. policy' \in [Tasks -> Policies \cup {Nil}] /\ left' \in [Tasks -> Nat] /\ delay_ms' \in [Tasks -> Nat]
      <4>1. CASE o = "tx_with_retry"
        <5>1. PICK p \in Policies : /\ policy' = [policy EXCEPT ![t] = p]
                                    /\ left' = [left EXCEPT ![t] = p.max_attempts]
                                    /\ delay_ms' = [delay_ms EXCEPT ![t] = p.backoff_ms_min]
          BY <3>2, <4>1
        <5>2. p.max_attempts \in Nat /\ p.backoff_ms_min \in Nat
          BY PolicyParts
        <5>. QED
          BY <5>1, <5>2 DEF Types
      <4>2. CASE o # "tx_with_retry"
        BY <3>2, <4>2 DEF Types
      <4>. QED
        BY <4>1, <4>2
    <3>5. ops' \in [Tasks -> 0 .. MaxOps]
      BY <1>1, Bounds DEF Begin, Types
    <3>. QED
      BY <1>1, <3>1, <3>3, <3>4, <3>5 DEF Begin, Types, OwnTypes, stVars, endVars
  <2>3. SessTypes'
    BY <1>1, <1>0, ForgetTypes DEF Begin
  <2>. QED
    BY <2>1, <2>2, <2>3, TypesJoin
<1>2. CASE CloseBegin(t)
  <2>1. DevTypes'
    BY <1>2, DevKeptTypes DEF CloseBegin
  <2>2. OwnTypes'
    <3>1. pc' \in [Actors -> Labels] /\ result' \in [Tasks -> Kinds \cup {"none", "Other"}]
      BY <1>2, <1>0, <1>a, <1>b DEF CloseBegin, Return, Goto, Kinds, Labels
    <3>2. ops' \in [Tasks -> 0 .. MaxOps]
      BY <1>2, Bounds DEF CloseBegin, Types
    <3>3. op' \in [Tasks -> AllOps \cup {Nil}]
      BY <1>2 DEF CloseBegin, Types, AllOps
    <3>. QED
      BY <1>2, <3>1, <3>2, <3>3 DEF CloseBegin, Types, OwnTypes, stVars, retryVars
  <2>3. SessTypes'
    BY <1>2, <1>0, SessKeptTypes DEF CloseBegin
  <2>. QED
    BY <2>1, <2>2, <2>3, TypesJoin
<1>3. CASE FirstSend(t)
  <2>1. DevTypes'
    BY <1>3, DevKeptTypes DEF FirstSend
  <2>2. OwnTypes'
    BY <1>3, <1>0, Bounds DEF FirstSend, Types, OwnTypes, opVars, stVars, endVars, retryVars, Goto, Labels
  <2>3. SessTypes'
    BY <1>3, <1>0, SendTypes, TaskSends DEF FirstSend
  <2>. QED
    BY <2>1, <2>2, <2>3, TypesJoin
<1>4. CASE NoAttempt(t)
  <2>1. DevTypes'
    BY <1>4, DevKeptTypes DEF NoAttempt
  <2>2. OwnTypes'
    BY <1>4, <1>0, Bounds DEF NoAttempt, Types, OwnTypes, opVars, stVars, endVars, retryVars, Return, Goto, Labels
  <2>3. SessTypes'
    BY <1>4, <1>0, SessKeptTypes DEF NoAttempt
  <2>. QED
    BY <2>1, <2>2, <2>3, TypesJoin
<1>5. CASE TxDone(t)
  <2>1. DevTypes'
    BY <1>5, DevKeptTypes DEF TxDone
  <2>2. OwnTypes'
    <3>1. /\ \E l \in {"idle", "reapply", "clear"} : Goto(t, l)
          /\ result' = result \/ result' = [result EXCEPT ![t] = ans[t].kind]
      BY <1>5 DEF TxDone, Return
    <3>2. UNCHANGED <<op, arg, ops, retryVars, rx_started, rx_guard, endVars>>
      BY <1>5 DEF TxDone, stVars
    <3>3. applied_config' \in Configs \cup {Nil}
      BY <1>5 DEF TxDone, stVars, Types
    <3>. QED
      BY <1>0, <1>a, <3>1, <3>2, <3>3, MovesOn
  <2>3. SessTypes'
    BY <1>5, <1>0, SessKeptTypes DEF TxDone
  <2>. QED
    BY <2>1, <2>2, <2>3, TypesJoin
<1>6. CASE RetryDone(t)
  <2>1. DevTypes'
    BY <1>6, DevKeptTypes DEF RetryDone
  <2>2. OwnTypes'
    <3>1. pc' \in [Actors -> Labels] /\ result' \in [Tasks -> Kinds \cup {"none", "Other"}]
      BY <1>6, <1>0, <1>a, <1>b DEF RetryDone, Return, Goto, Labels
    <3>2. policy[t] \in Policies
      BY <1>6 DEF RetryDone, At, BackoffInv, BackoffAt, Retrying
    <3>3. \A j \in 0 .. spread(policy[t]) : delay_ms[t] + j \in Nat
      BY <3>2, PolicyParts DEF Types
    <3>4. nap' \in [Tasks -> Nat]
      <4>1. nap' = nap \/ \E j \in 0 .. spread(policy[t]) : nap' = [nap EXCEPT ![t] = delay_ms[t] + j]
        BY <1>6, Zenon DEF RetryDone
      <4>2. nap' = nap \/ \E d \in Nat : nap' = [nap EXCEPT ![t] = d]
        BY <4>1, <3>3, Zenon
      <4>. QED
        BY <4>2 DEF Types
    <3>5. left' \in [Tasks -> Nat] /\ delay_ms' \in [Tasks -> Nat] /\ policy' \in [Tasks -> Policies \cup {Nil}]
      <4>1. \/ left[t] > 1 /\ left' = [left EXCEPT ![t] = @ - 1] /\ UNCHANGED <<policy, delay_ms>>
            \/ /\ policy' = [policy EXCEPT ![t] = Nil] /\ left' = [left EXCEPT ![t] = 0]
               /\ delay_ms' = [delay_ms EXCEPT ![t] = 0]
        BY <1>6, Zenon DEF RetryDone
      <4>2. left[t] \in Nat /\ left \in [Tasks -> Nat]
        BY DEF Types
      <4>3. left' \in [Tasks -> Nat]
        BY <4>1, <4>2
      <4>. QED
        BY <4>1, <4>3 DEF Types
    <3>. QED
      BY <1>6, <3>1, <3>4, <3>5 DEF RetryDone, Types, OwnTypes, stVars, endVars
  <2>3. SessTypes'
    BY <1>6, <1>0, SessKeptTypes DEF RetryDone
  <2>. QED
    BY <2>1, <2>2, <2>3, TypesJoin
<1>7. CASE BackoffOver(t)
  <2>1. DevTypes'
    BY <1>7, DevKeptTypes DEF BackoffOver
  <2>2. OwnTypes'
    <3>1. policy[t] \in Policies
      BY <1>7 DEF BackoffOver, PlaceInv, PlaceAt, BackoffInv, BackoffAt, Retrying
    <3>2. next_delay(delay_ms[t], policy[t]) \in Nat
      BY <3>1, NextDelay DEF Types
    <3>. QED
      BY <1>7, <1>0, <3>2 DEF BackoffOver, Goto, Labels, Types, OwnTypes, stVars, endVars
  <2>3. SessTypes'
    BY <1>7, <1>0, SessKeptTypes DEF BackoffOver
  <2>. QED
    BY <2>1, <2>2, <2>3, TypesJoin
<1>8. CASE RxLock(t)
  <2>1. DevTypes'
    BY <1>8, DevKeptTypes DEF RxLock
  <2>2. OwnTypes'
    BY <1>8, <1>0, Bounds DEF RxLock, Types, OwnTypes, opVars, stVars, endVars, retryVars, Return, Goto, Labels, Kinds
  <2>3. SessTypes'
    <3>1. Sendable("RX_START", Nil)
      BY DEF Sendable
    <3>. QED
      BY <1>8, <1>0, <3>1, SendTypes, SessKeptTypes DEF RxLock
  <2>. QED
    BY <2>1, <2>2, <2>3, TypesJoin
<1>9. CASE RxStarted(t)
  <2>1. DevTypes'
    BY <1>9, DevKeptTypes DEF RxStarted
  <2>2. OwnTypes'
    <3>1. pc' \in [Actors -> Labels] /\ result' \in [Tasks -> Kinds \cup {"none", "Other"}]
      BY <1>9, <1>0, <1>a, <1>b DEF RxStarted, Return, Goto, Labels
    <3>. QED
      BY <1>9, <1>0, <1>a, <3>1, Bounds DEF RxStarted, Types, OwnTypes, opVars, stVars, endVars, retryVars, AllOps
  <2>3. SessTypes'
    BY <1>9, <1>0, SessKeptTypes DEF RxStarted
  <2>. QED
    BY <2>1, <2>2, <2>3, TypesJoin
<1>10. CASE Reapply(t)
  <2>1. DevTypes'
    BY <1>10, DevKeptTypes DEF Reapply
  <2>2. OwnTypes'
    BY <1>10, <1>0, Bounds DEF Reapply, Types, OwnTypes, opVars, stVars, endVars, retryVars, Return, Goto, Labels, Kinds
  <2>3. SessTypes'
    BY <1>10, <1>0, AnswerTypes DEF Reapply, Types, SessTypes, histVars, Kinds, Overlaps
  <2>. QED
    BY <2>1, <2>2, <2>3, TypesJoin
<1>11. CASE Resend(t)
  <2>1. DevTypes'
    BY <1>11, DevKeptTypes DEF Resend
  <2>2. OwnTypes'
    BY <1>11, <1>0, Bounds DEF Resend, Types, OwnTypes, opVars, stVars, endVars, retryVars, Goto, Labels
  <2>3. SessTypes'
    <3>1. Sendable("SET_CONFIG", arg[t])
      BY <1>11 DEF Resend, PlaceInv, PlaceAt, Sendable
    <3>. QED
      BY <1>11, <1>0, <3>1, SendTypes DEF Resend
  <2>. QED
    BY <2>1, <2>2, <2>3, TypesJoin
<1>12. CASE Reapplied(t)
  <2>1. DevTypes'
    BY <1>12, DevKeptTypes DEF Reapplied
  <2>2. OwnTypes'
    <3>1. pc' \in [Actors -> Labels] /\ result' \in [Tasks -> Kinds \cup {"none", "Other"}]
      BY <1>12, <1>0, <1>a, <1>b DEF Reapplied, Return, Goto, Labels
    <3>. QED
      BY <1>12, <1>0, <1>a, <3>1, Bounds DEF Reapplied, Types, OwnTypes, opVars, stVars, endVars, retryVars, AllOps
  <2>3. SessTypes'
    BY <1>12, <1>0, SessKeptTypes DEF Reapplied
  <2>. QED
    BY <2>1, <2>2, <2>3, TypesJoin
<1>13. CASE Again(t)
  <2>1. DevTypes'
    BY <1>13, DevKeptTypes DEF Again
  <2>2. OwnTypes'
    BY <1>13, <1>0, Bounds DEF Again, Types, OwnTypes, opVars, stVars, endVars, retryVars, Goto, Labels
  <2>3. SessTypes'
    BY <1>13, <1>0, SendTypes, TaskSends DEF Again
  <2>. QED
    BY <2>1, <2>2, <2>3, TypesJoin
<1>14. CASE AgainDone(t)
  <2>1. DevTypes'
    BY <1>14, DevKeptTypes DEF AgainDone
  <2>2. OwnTypes'
    <3>1. pc' \in [Actors -> Labels] /\ result' \in [Tasks -> Kinds \cup {"none", "Other"}]
      BY <1>14, <1>0, <1>a, <1>b DEF AgainDone, Return, Goto, Labels
    <3>. QED
      BY <1>14, <1>0, <1>a, <3>1, Bounds DEF AgainDone, Types, OwnTypes, opVars, stVars, endVars, retryVars, AllOps
  <2>3. SessTypes'
    BY <1>14, <1>0, SessKeptTypes DEF AgainDone
  <2>. QED
    BY <2>1, <2>2, <2>3, TypesJoin
<1>15. CASE RxSet(t)
  <2>1. DevTypes'
    BY <1>15, DevKeptTypes DEF RxSet
  <2>2. OwnTypes'
    BY <1>15, <1>0, Bounds DEF RxSet, Types, OwnTypes, opVars, stVars, endVars, retryVars, Return, Goto, Labels, Kinds
  <2>3. SessTypes'
    BY <1>15, <1>0, SessKeptTypes DEF RxSet
  <2>. QED
    BY <2>1, <2>2, <2>3, TypesJoin
<1>16. CASE StopDone(t)
  <2>1. DevTypes'
    BY <1>16, DevKeptTypes DEF StopDone
  <2>2. OwnTypes'
    <3>1. /\ \E l \in {"idle", "reapply", "clear"} : Goto(t, l)
          /\ result' = result \/ result' = [result EXCEPT ![t] = ans[t].kind]
      BY <1>16 DEF StopDone, Return
    <3>2. UNCHANGED <<op, arg, ops, retryVars, rx_started, rx_guard, endVars>>
      BY <1>16 DEF StopDone, stVars
    <3>3. applied_config' \in Configs \cup {Nil}
      BY <1>16 DEF StopDone, stVars, Types
    <3>. QED
      BY <1>0, <1>a, <3>1, <3>2, <3>3, MovesOn
  <2>3. SessTypes'
    BY <1>16, <1>0, SessKeptTypes DEF StopDone
  <2>. QED
    BY <2>1, <2>2, <2>3, TypesJoin
<1>17. CASE ConfigDone(t)
  <2>1. DevTypes'
    BY <1>17, DevKeptTypes DEF ConfigDone
  <2>2. OwnTypes'
    <3>1. /\ \E l \in {"idle", "reapply", "clear"} : Goto(t, l)
          /\ result' = result \/ result' = [result EXCEPT ![t] = ans[t].kind]
      BY <1>17 DEF ConfigDone, Return
    <3>2. UNCHANGED <<op, arg, ops, retryVars, rx_started, rx_guard, endVars>>
      BY <1>17 DEF ConfigDone, stVars
    <3>3. applied_config' \in Configs \cup {Nil}
      BY <1>17, <1>a DEF ConfigDone, CurrentConfig, Types
    <3>. QED
      BY <1>0, <1>a, <3>1, <3>2, <3>3, MovesOn
  <2>3. SessTypes'
    BY <1>17, <1>0, SessKeptTypes DEF ConfigDone
  <2>. QED
    BY <2>1, <2>2, <2>3, TypesJoin
<1>18. CASE ClearRx(t)
  <2>1. DevTypes'
    BY <1>18, DevKeptTypes DEF ClearRx
  <2>2. OwnTypes'
    BY <1>18, <1>0, Bounds DEF ClearRx, Types, OwnTypes, opVars, stVars, endVars, retryVars, Return, Goto, Labels, Kinds
  <2>3. SessTypes'
    BY <1>18, <1>0, SessKeptTypes DEF ClearRx
  <2>. QED
    BY <2>1, <2>2, <2>3, TypesJoin
<1>19. CASE PingDone(t)
  <2>1. DevTypes'
    BY <1>19, DevKeptTypes DEF PingDone
  <2>2. OwnTypes'
    BY <1>19, <1>0, Bounds DEF PingDone, Types, OwnTypes, opVars, stVars, endVars, retryVars, Return, Goto, Labels
  <2>3. SessTypes'
    BY <1>19, <1>0, SessKeptTypes DEF PingDone
  <2>. QED
    BY <2>1, <2>2, <2>3, TypesJoin
<1>20. CASE RecvRead(t)
  <2>1. DevTypes'
    BY <1>20, DevKeptTypes DEF RecvRead
  <2>2. OwnTypes'
    BY <1>20, <1>0, Bounds DEF RecvRead, Types, OwnTypes, opVars, stVars, endVars, retryVars, Return, Goto, Labels, Kinds
  <2>3. SessTypes'
    BY <1>20, <1>0, SessKeptTypes DEF RecvRead
  <2>. QED
    BY <2>1, <2>2, <2>3, TypesJoin
<1>21. CASE RecvOpen(t)
  <2>1. DevTypes'
    BY <1>21, DevKeptTypes DEF RecvOpen
  <2>2. OwnTypes'
    BY <1>21, <1>0, Bounds DEF RecvOpen, Types, OwnTypes, opVars, stVars, endVars, retryVars, Return, Goto, Labels, Kinds
  <2>3. SessTypes'
    BY <1>21, <1>0, SessKeptTypes DEF RecvOpen
  <2>. QED
    BY <2>1, <2>2, <2>3, TypesJoin
<1>22. CASE CloseRest(t)
  <2>1. DevTypes'
    BY <1>22, DevKeptTypes DEF CloseRest
  <2>2. OwnTypes'
    BY <1>22, <1>0, Bounds DEF CloseRest, Types, OwnTypes, opVars, stVars, endVars, retryVars, Labels, Kinds
  <2>3. SessTypes'
    BY <1>22, <1>0, AnswerTypes DEF CloseRest, Types, SessTypes, histVars, Kinds, Overlaps
  <2>. QED
    BY <2>1, <2>2, <2>3, TypesJoin
<1>23. CASE GiveUp(t) \/ LinkFails(t)
  <2>1. DevTypes'
    BY <1>23, DevKeptTypes DEF GiveUp, LinkFails
  <2>2. OwnTypes'
    BY <1>23, <1>0, Bounds DEF GiveUp, LinkFails, Types, OwnTypes, opVars, stVars, endVars, retryVars
  <2>3. SessTypes'
    BY <1>23, <1>0, FailsTypes DEF Fails
  <2>. QED
    BY <2>1, <2>2, <2>3, TypesJoin
<1>. QED
  BY <1>1, <1>2, <1>3, <1>4, <1>5, <1>6, <1>7, <1>8, <1>9, <1>10, <1>11, <1>12, <1>13, <1>14, <1>15, <1>16, <1>17, <1>18, <1>19, <1>20, <1>21, <1>22, <1>23 DEF OpStep

\* A step of the keepalive keeps the types.
LEMMA KaTypes ==
  ASSUME Types, PlaceInv, KaStep
  PROVE  Types'
<1>0. Ka \in Actors
  BY DEF Actors
<1>1. CASE KaWake
  <2>1. DevTypes'
    BY <1>1, DevKeptTypes DEF KaWake
  <2>2. OwnTypes'
    <3>1. wakes' \in 0 .. MaxWakes
      BY <1>1, Bounds DEF KaWake, Types
    <3>2. pc' \in [Actors -> Labels]
      <4>1. pc \in [Actors -> Labels] /\ {"off", "wait"} \subseteq Labels
        BY DEF Types, Labels
      <4>2. \E l \in {"off", "wait"} : pc' = [pc EXCEPT ![Ka] = l]
        BY <1>1 DEF KaWake, Goto
      <4>. QED
        BY <1>0, <4>1, <4>2
    <3>. QED
      <4>1. UNCHANGED <<op, arg, ops, result, policy, left, delay_ms, nap, rx_started, rx_guard, applied_config, closed, sess_closed>>
        BY <1>1 DEF KaWake, opVars, stVars, retryVars
      <4>. QED
        BY <3>1, <3>2, <4>1, Zenon DEF Types, OwnTypes
  <2>3. SessTypes'
    <3>1. Sendable("PING", Nil)
      BY DEF Sendable
    <3>. QED
      BY <1>1, <1>0, <3>1, SendTypes, SessKeptTypes DEF KaWake
  <2>. QED
    BY <2>1, <2>2, <2>3, TypesJoin
<1>2. CASE KaPinged
  <2>1. DevTypes'
    BY <1>2, DevKeptTypes DEF KaPinged
  <2>2. OwnTypes'
    BY <1>2, <1>0 DEF KaPinged, Goto, Labels, Types, OwnTypes, opVars, stVars, endVars, retryVars
  <2>3. SessTypes'
    BY <1>2, <1>0, ForgetTypes DEF KaPinged
  <2>. QED
    BY <2>1, <2>2, <2>3, TypesJoin
<1>3. CASE KaReapply
  <2>1. DevTypes'
    BY <1>3, DevKeptTypes DEF KaReapply
  <2>2. OwnTypes'
    BY <1>3, <1>0 DEF KaReapply, Goto, Labels, Types, OwnTypes, stVars, endVars, retryVars
  <2>3. SessTypes'
    BY <1>3, <1>0 DEF KaReapply, Types, SessTypes, Overlaps
  <2>. QED
    BY <2>1, <2>2, <2>3, TypesJoin
<1>4. CASE Resend(Ka)
  <2>1. DevTypes'
    BY <1>4, DevKeptTypes DEF Resend
  <2>2. OwnTypes'
    BY <1>4, <1>0 DEF Resend, Goto, Labels, Types, OwnTypes, opVars, stVars, endVars, retryVars
  <2>3. SessTypes'
    <3>1. Sendable("SET_CONFIG", arg[Ka])
      BY <1>4 DEF Resend, PlaceInv, KaPlace, Sendable
    <3>. QED
      BY <1>4, <1>0, <3>1, SendTypes DEF Resend
  <2>. QED
    BY <2>1, <2>2, <2>3, TypesJoin
<1>5. CASE KaReapplied
  <2>1. DevTypes'
    BY <1>5, DevKeptTypes DEF KaReapplied
  <2>2. OwnTypes'
    BY <1>5, <1>0 DEF KaReapplied, Goto, Labels, Types, OwnTypes, stVars, endVars, retryVars
  <2>3. SessTypes'
    BY <1>5, <1>0, ForgetTypes DEF KaReapplied
  <2>. QED
    BY <2>1, <2>2, <2>3, TypesJoin
<1>6. CASE GiveUp(Ka) \/ LinkFails(Ka)
  <2>1. DevTypes'
    BY <1>6, DevKeptTypes DEF GiveUp, LinkFails
  <2>2. OwnTypes'
    BY <1>6 DEF GiveUp, LinkFails, Types, OwnTypes, opVars, stVars, endVars, retryVars
  <2>3. SessTypes'
    BY <1>6, <1>0, FailsTypes DEF Fails
  <2>. QED
    BY <2>1, <2>2, <2>3, TypesJoin
<1>. QED
  BY <1>1, <1>2, <1>3, <1>4, <1>5, <1>6 DEF KaStep

\* The first frame is taken off the wire.
LEMMA WireTail ==
  ASSUME NEW s \in Seq(Frames), s # <<>>
  PROVE  /\ Head(s) \in Frames /\ Head(s) = s[1] /\ Len(s) >= 1
         /\ Tail(s) \in Seq(Frames) /\ Len(Tail(s)) = Len(s) - 1
         /\ \A i \in 1 .. Len(Tail(s)) : Tail(s)[i] = s[i + 1] /\ i + 1 \in 1 .. Len(s)
<1>1. Len(s) \in Nat /\ Len(s) # 0
  OBVIOUS
<1>. QED
  BY <1>1

\* Where the device's answer goes.
Reaches(f) == link /\ Waits(f.who) /\ req[f.who] = f.n

\* What the device reads is there.
DevReads == DevStep /\ toDev # <<>>

\* A step of a task, of the keepalive or of the device.
Acts ==
  (\E t \in Tasks : Begin(t) \/ CloseBegin(t) \/ OpStep(t)) \/ KaStep \/ DevReads \/ DevLapse

\* The others are the transport's.
LEMMA StepKinds ==
  ASSUME Types, WireTypes, Next
  PROVE  Acts \/ WriteStep \/ LinkDown
<1>1. DevStep => toDev # <<>>
  BY DEF DevStep, Types, WireTypes
<1>. QED
  BY <1>1 DEF Next, Acts, DevReads

\* What the device does with the first frame on the wire.
LEMMA DevStepParts ==
  ASSUME Types, DevReads
  PROVE  /\ toDev # <<>> /\ toDev' = Tail(toDev) /\ Head(toDev) \in Frames
         /\ UNCHANGED <<opVars, stVars, req, histVars, endVars, lapses, pc>>
         /\ \E k \in {"Ok", "NotConfigured", "Busy", "Err"} :
              /\ Execute(Head(toDev), k)
              /\ \/ /\ Reaches(Head(toDev))
                    /\ ans' = [ans EXCEPT ![Head(toDev).who] = [kind |-> k, cfg |-> dev_cfg']]
                 \/ ans' = ans /\ (Reaches(Head(toDev)) => "timeout" \in Env)
<1>1. Head(toDev) \in Frames
  BY WireTail DEF DevReads, DevStep, Types
<1>. QED
  BY <1>1, Zenon DEF DevReads, DevStep, Reaches

\* A step of the device keeps the types.
LEMMA DeviceTypes ==
  ASSUME Types, FrameInv, DevReads \/ DevLapse
  PROVE  Types'
<1>1. CASE DevReads
  <2>1. PICK k \in {"Ok", "NotConfigured", "Busy", "Err"} :
          /\ Execute(Head(toDev), k)
          /\ \/ /\ Reaches(Head(toDev))
                /\ ans' = [ans EXCEPT ![Head(toDev).who] = [kind |-> k, cfg |-> dev_cfg']]
             \/ ans' = ans
    BY <1>1, DevStepParts
  <2>. DEFINE f == Head(toDev)
  <2>2. /\ f \in Frames /\ f.who \in Actors /\ f.cfg \in Configs \cup {Nil}
        /\ f.cmd = "SET_CONFIG" => f.cfg \in Configs
    BY <1>1, DevStepParts DEF Frames
  <2>3. f = toDev[1] /\ 1 \in 1 .. Len(toDev)
    BY <1>1, WireTail DEF DevReads, DevStep, Types
  <2>4. f.cmd = "TX" => <<f.who, f.call>> \in Tasks \X (1 .. MaxOps)
    <3>1. f.cmd = "TX" => f.who \in Tasks /\ f.call \in 1 .. ops[f.who]
      BY <2>2, <2>3 DEF FrameInv, OnWire, FrameOk
    <3>2. \A t \in Tasks : ops[t] \in 0 .. MaxOps
      BY DEF Types
    <3>. HIDE DEF f
    <3>. QED
      BY <3>1, <3>2, Bounds
  <2>5. Execute(f, k)
    BY <2>1
  <2>. HIDE DEF f
  <2>6. DevTypes'
    <3>1. dev_cfg' \in Configs \cup {Nil} /\ dev_rx' \in BOOLEAN
      BY <2>5, <2>2 DEF Execute, Types
    <3>2. aired' \in [Tasks \X (1 .. MaxOps) -> Nat]
      <4>1. aired' = aired \/ \E i \in Tasks \X (1 .. MaxOps) : aired' = [aired EXCEPT ![i] = @ + 1]
        BY <2>5, <2>4, Zenon DEF Execute
      <4>2. aired \in [Tasks \X (1 .. MaxOps) -> Nat]
        BY DEF Types
      <4>3. CASE aired' = aired
        BY <4>2, <4>3
      <4>4. ASSUME NEW i \in Tasks \X (1 .. MaxOps), aired' = [aired EXCEPT ![i] = @ + 1]
            PROVE  aired' \in [Tasks \X (1 .. MaxOps) -> Nat]
        <5>1. aired[i] + 1 \in Nat
          BY <4>2
        <5>. QED
          BY <4>2, <4>4, <5>1, Zenon
      <4>. QED
        BY <4>1, <4>3, <4>4
    <3>. QED
      BY <3>1, <3>2, <1>1 DEF DevReads, DevStep, DevTypes, Types
  <2>7. OwnTypes'
    BY <1>1 DEF DevReads, DevStep, Types, OwnTypes, opVars, stVars, endVars, retryVars
  <2>8. SessTypes'
    <3>1. toDev' \in Seq(Frames)
      BY <1>1, WireTail DEF DevReads, DevStep, Types
    <3>2. [kind |-> k, cfg |-> dev_cfg'] \in [kind : Kinds, cfg : Configs \cup {Nil}]
      BY <2>6 DEF DevTypes, Kinds
    <3>3. ans' = ans \/ \E r \in [kind : Kinds, cfg : Configs \cup {Nil}] : ans' = [ans EXCEPT ![f.who] = r]
      BY <2>1, <3>2 DEF f
    <3>4. ans' \in [Actors -> [kind : Kinds, cfg : Configs \cup {Nil}]]
      BY <3>3 DEF Types
    <3>. QED
      BY <1>1, <3>1, <3>4 DEF DevReads, DevStep, Types, SessTypes, histVars
  <2>. QED
    BY <2>6, <2>7, <2>8, TypesJoin
<1>2. CASE DevLapse
  <2>1. DevTypes' /\ OwnTypes'
    <3>1. lapses' \in 0 .. MaxLapses
      BY <1>2, Bounds DEF DevLapse, Types
    <3>. QED
      BY <1>2, <3>1 DEF DevLapse, Types, DevTypes, OwnTypes, opVars, stVars, endVars, retryVars
  <2>2. SessTypes'
    BY <1>2, SessKeptTypes DEF DevLapse
  <2>. QED
    BY <2>1, <2>2, TypesJoin
<1>. QED
  BY <1>1, <1>2

(****************************************************************************)
(* What a step leaves alone                                                 *)
(****************************************************************************)

\* A step of a task writes its own entries only; close ends the keepalive as well
\* and answers everybody who waits.
LEMMA TaskShape ==
  ASSUME NEW t \in Tasks, Begin(t) \/ CloseBegin(t) \/ OpStep(t)
  PROVE  /\ \/ pc' = pc \/ \E l : pc' = [pc EXCEPT ![t] = l]
            \/ pc[t] = "close" /\ pc' = [pc EXCEPT ![t] = "idle", ![Ka] = "off"]
         /\ op' = op \/ \E o : op' = [op EXCEPT ![t] = o]
         /\ arg' = arg \/ \E m : arg' = [arg EXCEPT ![t] = m]
         /\ policy' = policy \/ \E p : policy' = [policy EXCEPT ![t] = p]
         /\ left' = left \/ \E n : left' = [left EXCEPT ![t] = n]
         /\ delay_ms' = delay_ms \/ \E n : delay_ms' = [delay_ms EXCEPT ![t] = n]
         /\ nap' = nap \/ \E n : nap' = [nap EXCEPT ![t] = n]
         /\ ops' = ops \/ \E n : ops' = [ops EXCEPT ![t] = n]
         /\ result' = result \/ \E r : result' = [result EXCEPT ![t] = r]
         /\ req' = req \/ \E n : req' = [req EXCEPT ![t] = n]
         /\ \/ ans' = ans \/ \E r : ans' = [ans EXCEPT ![t] = r]
            \/ pc[t] = "close" /\ ans' = [a \in Actors |-> IF Waits(a) THEN Answer("Closed") ELSE ans[a]]
         /\ UNCHANGED devVars
  BY Zenon DEF Begin, CloseBegin, OpStep, FirstSend, NoAttempt, TxDone, RetryDone, BackoffOver, RxLock,
    RxStarted, Reapply, Resend, Reapplied, Again, AgainDone, RxSet, StopDone, ConfigDone, ClearRx,
    PingDone, RecvRead, RecvOpen, CloseRest, GiveUp, LinkFails, Send, Forget, Return, Goto,
    opVars, retryVars, stVars, sessVars, histVars, endVars

\* The entries of a task that an invariant of its own speaks about.
SameTask(b) ==
  /\ pc'[b] = pc[b] /\ op'[b] = op[b] /\ arg'[b] = arg[b] /\ policy'[b] = policy[b]
  /\ left'[b] = left[b] /\ delay_ms'[b] = delay_ms[b] /\ nap'[b] = nap[b]
  /\ ops'[b] = ops[b] /\ result'[b] = result[b] /\ req'[b] = req[b]

\* A step of a task leaves the other tasks alone; close ends their waits.
LEMMA OthersKept ==
  ASSUME Types, NEW t \in Tasks, Begin(t) \/ CloseBegin(t) \/ OpStep(t),
         NEW b \in Tasks, b # t
  PROVE  /\ SameTask(b)
         /\ ans'[b] = ans[b] \/ (pc[t] = "close" /\ Waits(b) /\ ans'[b] = Answer("Closed"))
<1>0. b \in Actors /\ t \in Actors /\ b # Ka
  BY TasksAssumption DEF Actors
<1>1. pc'[b] = pc[b]
  <2>1. \/ pc' = pc \/ \E l : pc' = [pc EXCEPT ![t] = l]
        \/ pc' = [pc EXCEPT ![t] = "idle", ![Ka] = "off"]
    BY TaskShape, Zenon
  <2>. QED
    BY <2>1, <1>0 DEF Types
<1>2. op'[b] = op[b] /\ arg'[b] = arg[b] /\ policy'[b] = policy[b]
  <2>1. op' = op \/ \E o : op' = [op EXCEPT ![t] = o]
    BY TaskShape, Zenon
  <2>2. arg' = arg \/ \E m : arg' = [arg EXCEPT ![t] = m]
    BY TaskShape, Zenon
  <2>3. policy' = policy \/ \E p : policy' = [policy EXCEPT ![t] = p]
    BY TaskShape, Zenon
  <2>. QED
    BY <2>1, <2>2, <2>3, <1>0 DEF Types
<1>3. left'[b] = left[b] /\ delay_ms'[b] = delay_ms[b] /\ nap'[b] = nap[b]
  <2>1. left' = left \/ \E n : left' = [left EXCEPT ![t] = n]
    BY TaskShape, Zenon
  <2>2. delay_ms' = delay_ms \/ \E n : delay_ms' = [delay_ms EXCEPT ![t] = n]
    BY TaskShape, Zenon
  <2>3. nap' = nap \/ \E n : nap' = [nap EXCEPT ![t] = n]
    BY TaskShape, Zenon
  <2>. QED
    BY <2>1, <2>2, <2>3 DEF Types
<1>4. ops'[b] = ops[b] /\ result'[b] = result[b] /\ req'[b] = req[b]
  <2>1. ops' = ops \/ \E n : ops' = [ops EXCEPT ![t] = n]
    BY TaskShape, Zenon
  <2>2. result' = result \/ \E r : result' = [result EXCEPT ![t] = r]
    BY TaskShape, Zenon
  <2>3. req' = req \/ \E n : req' = [req EXCEPT ![t] = n]
    BY TaskShape, Zenon
  <2>. QED
    BY <2>1, <2>2, <2>3, <1>0 DEF Types
<1>5. ans'[b] = ans[b] \/ (pc[t] = "close" /\ Waits(b) /\ ans'[b] = Answer("Closed"))
  <2>1. \/ ans' = ans \/ \E r : ans' = [ans EXCEPT ![t] = r]
        \/ pc[t] = "close" /\ ans' = [a \in Actors |-> IF Waits(a) THEN Answer("Closed") ELSE ans[a]]
    BY TaskShape, Zenon
  <2>. QED
    BY <2>1, <1>0 DEF Types
<1>. QED
  BY <1>1, <1>2, <1>3, <1>4, <1>5 DEF SameTask

\* A step of a task leaves the keepalive alone, or close aborts it.
LEMMA KaKept ==
  ASSUME Types, NEW t \in Tasks, Begin(t) \/ CloseBegin(t) \/ OpStep(t)
  PROVE  (pc'[Ka] = pc[Ka] \/ pc'[Ka] = "off") /\ arg'[Ka] = arg[Ka] /\ req'[Ka] = req[Ka]
<1>0. Ka \in Actors /\ t \in Actors /\ t # Ka
  BY TasksAssumption DEF Actors
<1>1. \/ pc' = pc \/ \E l : pc' = [pc EXCEPT ![t] = l]
      \/ pc' = [pc EXCEPT ![t] = "idle", ![Ka] = "off"]
  BY TaskShape, Zenon
<1>2. arg' = arg \/ \E m : arg' = [arg EXCEPT ![t] = m]
  BY TaskShape, Zenon
<1>3. req' = req \/ \E n : req' = [req EXCEPT ![t] = n]
  BY TaskShape, Zenon
<1>. QED
  BY <1>0, <1>1, <1>2, <1>3 DEF Types

\* A step of the keepalive changes its own entries only.
LEMMA KaShape ==
  ASSUME KaStep
  PROVE  /\ pc' = pc \/ \E l : pc' = [pc EXCEPT ![Ka] = l]
         /\ arg' = arg \/ \E m : arg' = [arg EXCEPT ![Ka] = m]
         /\ req' = req \/ \E n : req' = [req EXCEPT ![Ka] = n]
         /\ ans' = ans \/ \E r : ans' = [ans EXCEPT ![Ka] = r]
         /\ UNCHANGED <<op, ops, result, retryVars, devVars>>
  BY Zenon DEF KaStep, KaWake, KaPinged, KaReapply, Resend, KaReapplied, GiveUp, LinkFails, Send, Forget, Goto,
    opVars, retryVars, stVars, sessVars, histVars, endVars

\* The keepalive task and the device leave the tasks' entries alone, but for the
\* device's answers.
LEMMA TasksKept ==
  ASSUME Types, KaStep \/ DevReads \/ DevLapse, NEW b \in Tasks
  PROVE  SameTask(b) /\ (KaStep \/ DevLapse => ans'[b] = ans[b])
<1>0. b \in Actors /\ Ka \in Actors /\ b # Ka
  BY TasksAssumption DEF Actors
<1>1. CASE KaStep
  <2>1. pc' = pc \/ \E l : pc' = [pc EXCEPT ![Ka] = l]
    BY <1>1, KaShape, Zenon
  <2>2. arg' = arg \/ \E m : arg' = [arg EXCEPT ![Ka] = m]
    BY <1>1, KaShape, Zenon
  <2>3. req' = req \/ \E n : req' = [req EXCEPT ![Ka] = n]
    BY <1>1, KaShape, Zenon
  <2>4. ans' = ans \/ \E r : ans' = [ans EXCEPT ![Ka] = r]
    BY <1>1, KaShape, Zenon
  <2>5. pc'[b] = pc[b] /\ arg'[b] = arg[b] /\ req'[b] = req[b] /\ ans'[b] = ans[b]
    BY <2>1, <2>2, <2>3, <2>4, <1>0 DEF Types
  <2>6. UNCHANGED <<op, ops, result, policy, left, delay_ms, nap>>
    BY <1>1, KaShape DEF retryVars
  <2>. QED
    BY <2>5, <2>6 DEF SameTask
<1>2. CASE DevReads \/ DevLapse
  <2>1. UNCHANGED <<op, arg, ops, result, policy, left, delay_ms, nap, req, pc>>
    BY <1>2 DEF DevReads, DevStep, DevLapse, opVars, retryVars, sessVars
  <2>2. DevLapse => UNCHANGED ans
    BY DEF DevLapse, sessVars
  <2>3. KaStep \/ DevLapse => ans'[b] = ans[b]
    BY <2>2, <1>1
  <2>. QED
    BY <2>1, <2>3 DEF SameTask
<1>. QED
  BY <1>1, <1>2

(****************************************************************************)
(* Places                                                                   *)
(****************************************************************************)

\* A task goes from a place of its method to another.
LEMMA TaskPlace ==
  ASSUME Types, PlaceInv, NEW t \in Tasks, Begin(t) \/ CloseBegin(t) \/ OpStep(t)
  PROVE  PlaceAt(t)'
<1>0. t \in Actors /\ t # Ka
  BY TasksAssumption DEF Actors
<1>a. pc \in [Actors -> Labels] /\ op \in [Tasks -> AllOps \cup {Nil}] /\ arg \in [Actors -> Configs \cup {Nil}]
  BY DEF Types
<1>b. PlaceAt(t)
  BY DEF PlaceInv
<1>1. CASE Begin(t)
  BY <1>1, <1>0, <1>a, <1>b, OpsAssumption DEF Begin, PlaceAt, Recovery, Return, Goto, Entry, AllOps, TxOps
<1>2. CASE CloseBegin(t)
  BY <1>2, <1>0, <1>a, <1>b DEF CloseBegin, PlaceAt, Recovery, Return, Goto, TxOps
<1>3. CASE FirstSend(t)
  BY <1>3, <1>0, <1>a, <1>b DEF FirstSend, PlaceAt, Recovery, Goto, opVars, TxOps
<1>4. CASE NoAttempt(t)
  BY <1>4, <1>0, <1>a, <1>b DEF NoAttempt, PlaceAt, Recovery, Return, Goto, TxOps
<1>5. CASE TxDone(t)
  BY <1>5, <1>0, <1>a, <1>b DEF TxDone, PlaceAt, Recovery, Return, Goto, At, TxOps
<1>6. CASE RetryDone(t)
  BY <1>6, <1>0, <1>a, <1>b DEF RetryDone, PlaceAt, Recovery, Return, Goto, At, TxOps
<1>7. CASE BackoffOver(t)
  BY <1>7, <1>0, <1>a, <1>b DEF BackoffOver, PlaceAt, Recovery, Return, Goto, TxOps
<1>8. CASE RxLock(t)
  BY <1>8, <1>0, <1>a, <1>b DEF RxLock, PlaceAt, Recovery, Return, Goto, TxOps
<1>9. CASE RxStarted(t)
  BY <1>9, <1>0, <1>a, <1>b DEF RxStarted, PlaceAt, Recovery, Return, Goto, At, TxOps
<1>10. CASE Reapply(t)
  <2>1. applied_config \in Configs \cup {Nil}
    BY DEF Types
  <2>. QED
    BY <1>10, <1>0, <1>a, <1>b, <2>1 DEF Reapply, PlaceAt, Recovery, Return, Goto, TxOps
<1>11. CASE Resend(t)
  BY <1>11, <1>0, <1>a, <1>b DEF Resend, PlaceAt, Recovery, Goto, opVars, TxOps
<1>12. CASE Reapplied(t)
  BY <1>12, <1>0, <1>a, <1>b DEF Reapplied, PlaceAt, Recovery, Return, Goto, At, TxOps
<1>13. CASE Again(t)
  BY <1>13, <1>0, <1>a, <1>b DEF Again, PlaceAt, Recovery, Goto, opVars, TxOps
<1>14. CASE AgainDone(t)
  BY <1>14, <1>0, <1>a, <1>b DEF AgainDone, PlaceAt, Recovery, Return, Goto, At, TxOps
<1>15. CASE RxSet(t)
  BY <1>15, <1>0, <1>a, <1>b DEF RxSet, PlaceAt, Recovery, Return, Goto, TxOps
<1>16. CASE StopDone(t)
  BY <1>16, <1>0, <1>a, <1>b DEF StopDone, PlaceAt, Recovery, Return, Goto, At, TxOps
<1>17. CASE ConfigDone(t)
  BY <1>17, <1>0, <1>a, <1>b DEF ConfigDone, PlaceAt, Recovery, Return, Goto, At, TxOps
<1>18. CASE ClearRx(t)
  BY <1>18, <1>0, <1>a, <1>b DEF ClearRx, PlaceAt, Recovery, Return, Goto, TxOps
<1>19. CASE PingDone(t)
  BY <1>19, <1>0, <1>a, <1>b DEF PingDone, PlaceAt, Recovery, Return, Goto, At, TxOps
<1>20. CASE RecvRead(t)
  BY <1>20, <1>0, <1>a, <1>b DEF RecvRead, PlaceAt, Recovery, Return, Goto, TxOps
<1>21. CASE RecvOpen(t)
  BY <1>21, <1>0, <1>a, <1>b DEF RecvOpen, PlaceAt, Recovery, Return, Goto, TxOps
<1>22. CASE CloseRest(t)
  BY <1>22, <1>0, <1>a, <1>b DEF CloseRest, PlaceAt, Recovery, TxOps
<1>23. CASE GiveUp(t) \/ LinkFails(t)
  BY <1>23, <1>0, <1>a, <1>b DEF GiveUp, LinkFails, PlaceAt, Recovery, opVars, TxOps
<1>. QED
  BY <1>1, <1>2, <1>3, <1>4, <1>5, <1>6, <1>7, <1>8, <1>9, <1>10, <1>11, <1>12, <1>13, <1>14, <1>15, <1>16, <1>17, <1>18, <1>19, <1>20, <1>21, <1>22, <1>23 DEF OpStep

\* So does the keepalive.
LEMMA KaPlaced ==
  ASSUME Types, PlaceInv, KaStep
  PROVE  KaPlace'
<1>0. /\ Ka \in Actors /\ pc \in [Actors -> Labels] /\ arg \in [Actors -> Configs \cup {Nil}]
      /\ applied_config \in Configs \cup {Nil}
  BY DEF Actors, Types
<1>1. KaPlace
  BY DEF PlaceInv
<1>. QED
  BY <1>0, <1>1 DEF KaStep, KaWake, KaPinged, KaReapply, Resend, KaReapplied, GiveUp, LinkFails, Goto, KaPlace, opVars

\* Every step keeps everybody at a place of his method.
LEMMA PlaceKept ==
  ASSUME Types, PlaceInv, Acts
  PROVE  PlaceInv'
<1>1. ASSUME NEW t \in Tasks, Begin(t) \/ CloseBegin(t) \/ OpStep(t)
      PROVE  PlaceInv'
  <2>1. KaPlace'
    BY <1>1, KaKept DEF PlaceInv, KaPlace
  <2>2. ASSUME NEW b \in Tasks PROVE PlaceAt(b)'
    <3>1. CASE b = t
      BY <3>1, <1>1, TaskPlace
    <3>2. CASE b # t
      BY <3>2, <1>1, OthersKept DEF SameTask, PlaceInv, PlaceAt
    <3>. QED
      BY <3>1, <3>2
  <2>. QED
    BY <2>1, <2>2 DEF PlaceInv
<1>2. CASE KaStep \/ DevReads \/ DevLapse
  <2>1. KaPlace'
    <3>1. CASE KaStep
      BY <3>1, KaPlaced
    <3>2. CASE DevReads \/ DevLapse
      BY <3>2 DEF DevReads, DevStep, DevLapse, opVars, PlaceInv, KaPlace
    <3>. QED
      BY <1>2, <3>1, <3>2
  <2>2. ASSUME NEW b \in Tasks PROVE PlaceAt(b)'
    BY <1>2, TasksKept DEF SameTask, PlaceInv, PlaceAt
  <2>. QED
    BY <2>1, <2>2 DEF PlaceInv
<1>. QED
  BY <1>1, <1>2 DEF Acts

(****************************************************************************)
(* Backoff                                                                  *)
(****************************************************************************)

\* The first floor of a call is the policy's.
LEMMA BeginBackoff ==
  ASSUME Types, NEW t \in Tasks, Begin(t)
  PROVE  BackoffAt(t)'
<1>1. PICK o \in OpKinds \ {"close"} :
        /\ op' = [op EXCEPT ![t] = o]
        /\ o = "tx_with_retry" =>
             \E p \in Policies : /\ policy' = [policy EXCEPT ![t] = p]
                                 /\ left' = [left EXCEPT ![t] = p.max_attempts]
                                 /\ delay_ms' = [delay_ms EXCEPT ![t] = p.backoff_ms_min]
        /\ closed \/ pc' = [pc EXCEPT ![t] = Entry(o)]
        /\ closed => pc' = [pc EXCEPT ![t] = "idle"]
  BY DEF Begin, Goto, Return
<1>2. t \in Actors
  BY DEF Actors
<1>3. op'[t] = o
  BY <1>1 DEF Types
<1>4. CASE o # "tx_with_retry"
  BY <1>3, <1>4 DEF BackoffAt, Retrying
<1>5. CASE o = "tx_with_retry"
  <2>1. PICK p \in Policies : /\ policy' = [policy EXCEPT ![t] = p]
                              /\ left' = [left EXCEPT ![t] = p.max_attempts]
                              /\ delay_ms' = [delay_ms EXCEPT ![t] = p.backoff_ms_min]
    BY <1>1, <1>5
  <2>2. policy'[t] = p /\ left'[t] = p.max_attempts /\ delay_ms'[t] = p.backoff_ms_min
    BY <2>1 DEF Types
  <2>3. pc'[t] # "sleep"
    BY <1>1, <1>2, <1>5 DEF Types, Entry
  <2>4. p.max_attempts \in Nat /\ p.backoff_ms_min \in Nat
    BY PolicyParts
  <2>. QED
    BY <2>2, <2>3, <2>4 DEF BackoffAt, Retrying, FloorFits, FloorAt
<1>. QED
  BY <1>4, <1>5

\* A backoff lasts from its floor to the floor and the jitter.
LEMMA RetryBackoff ==
  ASSUME Types, BackoffInv, NEW t \in Tasks, RetryDone(t)
  PROVE  BackoffAt(t)'
<1>0. t \in Actors
  BY DEF Actors
<1>1. CASE is_retryable(ans[t].kind) /\ left[t] > 1
  <2>. DEFINE p == policy[t]
              d == delay_ms[t]
  <2>1. /\ pc' = [pc EXCEPT ![t] = "sleep"] /\ left' = [left EXCEPT ![t] = @ - 1]
        /\ \E j \in 0 .. spread(p) : nap' = [nap EXCEPT ![t] = d + j]
        /\ UNCHANGED <<op, policy, delay_ms>>
        /\ pc[t] = "wait" /\ op[t] = "tx_with_retry"
    BY <1>1 DEF RetryDone, Goto, At
  <2>2. PICK j \in 0 .. spread(p) : nap' = [nap EXCEPT ![t] = d + j]
    BY <2>1
  <2>3. /\ p \in Policies /\ left[t] <= p.max_attempts /\ FloorFits(t)
        /\ FloorAt(t, p.max_attempts - left[t] + 1)
    BY <2>1 DEF BackoffInv, BackoffAt, Retrying
  <2>4. /\ pc'[t] = "sleep" /\ left'[t] = left[t] - 1 /\ nap'[t] = d + j
        /\ op'[t] = "tx_with_retry" /\ policy'[t] = p /\ delay_ms'[t] = d
    BY <2>1, <2>2, <1>0 DEF Types
  <2>5. left[t] \in Nat /\ d \in Nat
    BY DEF Types
  <2>6. FloorFits(t)'
    BY <2>3, <2>4 DEF FloorFits
  <2>7. p.max_attempts \in Nat /\ spread(p) \in Nat /\ j \in Nat /\ j <= spread(p)
    BY <2>3, PolicyParts
  <2>. HIDE DEF d, p
  <2>8. /\ p.max_attempts - left'[t] = p.max_attempts - left[t] + 1
        /\ p.max_attempts - left'[t] >= 1 /\ left'[t] <= p.max_attempts
        /\ nap'[t] >= d /\ nap'[t] <= d + spread(p)
    BY <2>3, <2>4, <2>5, <2>7
  <2>9. FloorAt(t, policy[t].max_attempts - left[t])'
    BY <2>3, <2>4, <2>8 DEF FloorAt, p, d
  <2>. QED
    BY <2>3, <2>4, <2>6, <2>8, <2>9 DEF BackoffAt, p, d
<1>2. CASE ~(is_retryable(ans[t].kind) /\ left[t] > 1)
  <2>1. pc' = [pc EXCEPT ![t] = "idle"]
    BY <1>2 DEF RetryDone, Return, Goto
  <2>2. pc'[t] = "idle"
    BY <2>1, <1>0 DEF Types
  <2>. QED
    BY <2>2 DEF BackoffAt, Retrying
<1>. QED
  BY <1>1, <1>2

\* The next floor is the last one grown, up to the cap.
LEMMA OverBackoff ==
  ASSUME Types, PlaceInv, BackoffInv, NEW t \in Tasks, BackoffOver(t)
  PROVE  BackoffAt(t)'
<1>0. t \in Actors
  BY DEF Actors
<1>. DEFINE p == policy[t]
            d == delay_ms[t]
<1>1. /\ pc[t] = "sleep" /\ pc' = [pc EXCEPT ![t] = "send"]
      /\ delay_ms' = [delay_ms EXCEPT ![t] = next_delay(d, p)]
      /\ UNCHANGED <<op, policy, left>>
  BY DEF BackoffOver, Goto, Types
<1>2. op[t] = "tx_with_retry"
  BY <1>1 DEF PlaceInv, PlaceAt
<1>3. /\ p \in Policies /\ left[t] <= p.max_attempts /\ FloorFits(t)
      /\ p.max_attempts - left[t] >= 1 /\ FloorAt(t, p.max_attempts - left[t])
  BY <1>1, <1>2 DEF BackoffInv, BackoffAt, Retrying
<1>4. /\ pc'[t] = "send" /\ delay_ms'[t] = next_delay(d, p)
      /\ op'[t] = "tx_with_retry" /\ policy'[t] = p /\ left'[t] = left[t]
  BY <1>0, <1>1, <1>2 DEF Types
<1>5. left[t] \in Nat /\ d \in Nat
  BY DEF Types
<1>6. /\ p.max_attempts \in Nat /\ p.backoff_ms_min \in Nat /\ p.backoff_cap_ms \in Nat
      /\ p.mul \in Nat
  BY <1>3, PolicyParts
<1>7. /\ next_delay(d, p) \in Nat /\ next_delay(d, p) <= p.backoff_cap_ms
      /\ p.mul >= 2 /\ d * p.mul < F32 => next_delay(d, p) >= d \/ next_delay(d, p) >= p.backoff_cap_ms
  BY <1>3, <1>5, NextDelay
<1>8. p.mul >= 2 /\ Exact(p) => d >= p.backoff_ms_min \/ d >= p.backoff_cap_ms
  BY <1>3 DEF FloorFits
<1>a. d <= p.backoff_ms_min \/ d <= p.backoff_cap_ms
  BY <1>3, <1>5, <1>6 DEF FloorAt
<1>. HIDE DEF d, p
<1>b. Exact(p) => d * p.mul < F32
  <2>1. /\ d * p.mul \in Nat /\ p.backoff_ms_min * p.mul \in Nat /\ p.backoff_cap_ms * p.mul \in Nat
        /\ d <= p.backoff_ms_min => d * p.mul <= p.backoff_ms_min * p.mul
        /\ d <= p.backoff_cap_ms => d * p.mul <= p.backoff_cap_ms * p.mul
    BY <1>5, <1>6, Growth
  <2>. QED
    BY <1>a, <2>1 DEF Exact, F32
<1>9. p.mul >= 2 /\ Exact(p) => next_delay(d, p) >= p.backoff_ms_min \/ next_delay(d, p) >= p.backoff_cap_ms
  BY <1>5, <1>6, <1>7, <1>8, <1>b
<1>10. FloorFits(t)'
  BY <1>4, <1>9 DEF FloorFits
<1>11. p.max_attempts - left[t] + 1 # 1
  BY <1>3, <1>5, <1>6
<1>12. FloorAt(t, policy[t].max_attempts - left[t] + 1)'
  BY <1>4, <1>7, <1>11 DEF FloorAt
<1>. QED
  BY <1>3, <1>4, <1>10, <1>12 DEF BackoffAt

\* The other operations leave the backoff alone.
LEMMA PlainBackoff ==
  ASSUME Types, PlaceInv, BackoffInv, NEW t \in Tasks, CloseBegin(t) \/ OpStep(t),
         ~RetryDone(t), ~BackoffOver(t)
  PROVE  BackoffAt(t)'
<1>0. t \in Actors /\ t # Ka /\ pc \in [Actors -> Labels] /\ PlaceAt(t)
  BY TasksAssumption DEF Actors, Types, PlaceInv
<1>1. UNCHANGED <<policy, left, delay_ms, nap>>
  BY DEF CloseBegin, OpStep, FirstSend, NoAttempt, TxDone, RxLock, RxStarted, Reapply, Resend, Reapplied,
    Again, AgainDone, RxSet, StopDone, ConfigDone, ClearRx, PingDone, RecvRead, RecvOpen, CloseRest,
    GiveUp, LinkFails, opVars, retryVars
<1>2. op' = op \/ CloseBegin(t)
  BY DEF OpStep, FirstSend, NoAttempt, TxDone, RxLock, RxStarted, Reapply, Resend, Reapplied,
    Again, AgainDone, RxSet, StopDone, ConfigDone, ClearRx, PingDone, RecvRead, RecvOpen, CloseRest,
    GiveUp, LinkFails, opVars, retryVars
<1>3. pc'[t] = pc[t] \/ pc'[t] \notin {"send", "wait", "sleep"} \/ (pc[t] = "send" /\ pc'[t] = "wait")
  BY <1>0 DEF CloseBegin, OpStep, FirstSend, NoAttempt, TxDone, RxLock, RxStarted, Reapply, Resend, Reapplied,
    Again, AgainDone, RxSet, StopDone, ConfigDone, ClearRx, PingDone, RecvRead, RecvOpen, CloseRest,
    GiveUp, LinkFails, Return, Goto, opVars, retryVars
<1>4. CloseBegin(t) => pc'[t] \notin {"send", "wait", "sleep"}
  BY <1>0 DEF CloseBegin, Return, Goto
<1>5. BackoffAt(t)
  BY DEF BackoffInv
<1>. QED
  BY <1>1, <1>2, <1>3, <1>4, <1>5 DEF BackoffAt, Retrying, FloorFits, FloorAt

\* Every step keeps the delays within the bounds of the policy.
LEMMA BackoffKept ==
  ASSUME Types, PlaceInv, BackoffInv, Acts
  PROVE  BackoffInv'
<1>1. ASSUME NEW t \in Tasks, Begin(t) \/ CloseBegin(t) \/ OpStep(t), NEW b \in Tasks
      PROVE  BackoffAt(b)'
  <2>1. CASE b = t
    BY <2>1, <1>1, BeginBackoff, RetryBackoff, OverBackoff, PlainBackoff
  <2>2. CASE b # t
    <3>1. SameTask(b) /\ BackoffAt(b)
      BY <2>2, <1>1, OthersKept DEF BackoffInv
    <3>. QED
      BY <3>1 DEF SameTask, BackoffAt, Retrying, FloorFits, FloorAt
  <2>. QED
    BY <2>1, <2>2
<1>2. ASSUME KaStep \/ DevReads \/ DevLapse, NEW b \in Tasks
      PROVE  BackoffAt(b)'
  <2>1. SameTask(b) /\ BackoffAt(b)
    BY <1>2, TasksKept DEF BackoffInv
  <2>. QED
    BY <2>1 DEF SameTask, BackoffAt, Retrying, FloorFits, FloorAt
<1>. QED
  BY <1>1, <1>2 DEF Acts, BackoffInv

(****************************************************************************)
(* Calls and frames                                                         *)
(****************************************************************************)

\* Every step keeps calls numbered.
LEMMA CallsKept ==
  ASSUME Types, CallInv, Acts
  PROVE  CallInv'
<1>1. ASSUME NEW t \in Tasks, Begin(t) \/ CloseBegin(t) \/ OpStep(t), NEW b \in Tasks,
             (pc[b] # "idle" \/ result[b] # "none")'
      PROVE  (ops[b] \in 1 .. MaxOps)'
  <2>1. CASE b # t
    <3>1. SameTask(b)
      BY <1>1, <2>1, OthersKept
    <3>. QED
      BY <3>1, <1>1 DEF SameTask, CallInv
  <2>2. CASE b = t /\ (Begin(t) \/ CloseBegin(t))
    <3>1. ops' = [ops EXCEPT ![t] = @ + 1] /\ ops[t] < MaxOps
      BY <2>2 DEF Begin, CloseBegin
    <3>. QED
      BY <3>1, <2>2, Bounds DEF Types
  <2>3. CASE b = t /\ OpStep(t)
    <3>1. ops' = ops
      BY <2>3 DEF OpStep, FirstSend, NoAttempt, TxDone, RetryDone, BackoffOver, RxLock, RxStarted, Reapply,
        Resend, Reapplied, Again, AgainDone, RxSet, StopDone, ConfigDone, ClearRx, PingDone, RecvRead,
        RecvOpen, CloseRest, GiveUp, LinkFails, opVars
    <3>2. pc[t] # "idle"
      BY <2>3 DEF OpStep, FirstSend, NoAttempt, TxDone, RetryDone, BackoffOver, RxLock, RxStarted, Reapply,
        Resend, Reapplied, Again, AgainDone, RxSet, StopDone, ConfigDone, ClearRx, PingDone, RecvRead,
        RecvOpen, CloseRest, GiveUp, LinkFails, At, Waits
    <3>. QED
      BY <3>1, <3>2, <2>3 DEF CallInv
  <2>. QED
    BY <1>1, <2>1, <2>2, <2>3
<1>2. ASSUME KaStep \/ DevReads \/ DevLapse, NEW b \in Tasks, (pc[b] # "idle" \/ result[b] # "none")'
      PROVE  (ops[b] \in 1 .. MaxOps)'
  <2>1. SameTask(b)
    BY <1>2, TasksKept
  <2>. QED
    BY <2>1, <1>2 DEF SameTask, CallInv
<1>. QED
  BY <1>1, <1>2 DEF Acts, CallInv

\* The frame actor a puts on the wire.
NewFrame(a, k, m) ==
  [who |-> a, n |-> req[a] + 1, cmd |-> k, cfg |-> m, call |-> IF a = Ka THEN 0 ELSE ops[a]]

\* A call of the session is refused, or it is a frame and a wait for its answer.
LEMMA SendParts ==
  ASSUME Types, NEW a \in Actors, NEW k, NEW m, Send(a, k, m)
  PROVE  \/ UNCHANGED <<req, toDev>> /\ ans'[a].kind = "Closed"
         \/ /\ req' = [req EXCEPT ![a] = @ + 1] /\ ans'[a].kind = "waiting"
            /\ toDev' = Append(toDev, NewFrame(a, k, m))
<1>1. CASE sess_closed
  <2>1. ans' = [ans EXCEPT ![a] = Answer("Closed")] /\ UNCHANGED <<req, toDev>>
    BY <1>1 DEF Send
  <2>. QED
    BY <2>1 DEF Types, Answer
<1>2. CASE ~sess_closed
  <2>1. /\ req' = [req EXCEPT ![a] = @ + 1] /\ ans' = [ans EXCEPT ![a] = Answer("waiting")]
        /\ toDev' = Append(toDev, NewFrame(a, k, m))
    BY <1>2, Zenon DEF Send, NewFrame
  <2>2. ans'[a].kind = "waiting"
    BY <2>1 DEF Types, Answer
  <2>. QED
    BY <2>1, <2>2
<1>. QED
  BY <1>1, <1>2

\* A task sends one frame, for the call under way, and waits for what it asked for;
\* or it sends none and does not wait.
Sent(t, m) ==
  /\ pc[t] \in {"send", "rx_lock", "resend", "again"} /\ UNCHANGED <<op, ops, result>>
  /\ pc'[t] = CASE pc[t] = "send" -> "wait" [] pc[t] = "rx_lock" -> "rx_wait"
                [] pc[t] = "resend" -> "reapplied" [] pc[t] = "again" -> "again_wait"
  /\ pc[t] = "resend" => m = arg[t] /\ UNCHANGED arg
  /\ req' = [req EXCEPT ![t] = @ + 1] /\ ans'[t].kind = "waiting"
  /\ toDev' = Append(toDev, NewFrame(t, Awaited(t)', m))

\* A step of a task sends one frame and waits for it, or none.
LEMMA TaskSent ==
  ASSUME Types, PlaceInv, NEW t \in Tasks, Begin(t) \/ CloseBegin(t) \/ OpStep(t)
  PROVE  (UNCHANGED <<req, toDev>> /\ ~Waits(t)') \/ \E m : Sent(t, m)
<1>0. t \in Actors /\ t # Ka /\ pc \in [Actors -> Labels] /\ ans \in [Actors -> [kind : Kinds, cfg : Configs \cup {Nil}]]
  BY TasksAssumption DEF Actors, Types
<1>1. CASE FirstSend(t)
  <2>1. pc' = [pc EXCEPT ![t] = "wait"] /\ UNCHANGED <<op, ops, result>> /\ pc[t] = "send"
    BY <1>1 DEF FirstSend, Goto, opVars
  <2>2. pc'[t] = "wait" /\ Awaited(t)' = Command(op[t])
    BY <2>1, <1>0 DEF Awaited, Command
  <2>3. \/ UNCHANGED <<req, toDev>> /\ ans'[t].kind = "Closed"
        \/ /\ req' = [req EXCEPT ![t] = @ + 1] /\ ans'[t].kind = "waiting"
           /\ toDev' = Append(toDev, NewFrame(t, Command(op[t]), arg[t]))
    BY <1>0, <1>1, SendParts DEF FirstSend
  <2>4. CASE UNCHANGED <<req, toDev>> /\ ans'[t].kind = "Closed"
    BY <2>4 DEF Waits
  <2>5. CASE ans'[t].kind = "waiting"
    <3>1. Sent(t, arg[t])
      BY <2>1, <2>2, <2>3, <2>5 DEF Sent
    <3>. QED
      BY <3>1
  <2>. QED
    BY <2>3, <2>4, <2>5
<1>2. CASE RxLock(t) /\ ~rx_started
  <2>1. pc' = [pc EXCEPT ![t] = "rx_wait"] /\ UNCHANGED <<op, ops, result>> /\ pc[t] = "rx_lock"
    BY <1>2 DEF RxLock, Goto
  <2>2. pc'[t] = "rx_wait" /\ Awaited(t)' = "RX_START"
    BY <2>1, <1>0 DEF Awaited, Command, PlaceInv, PlaceAt
  <2>3. \/ UNCHANGED <<req, toDev>> /\ ans'[t].kind = "Closed"
        \/ /\ req' = [req EXCEPT ![t] = @ + 1] /\ ans'[t].kind = "waiting"
           /\ toDev' = Append(toDev, NewFrame(t, "RX_START", Nil))
    BY <1>0, <1>2, SendParts DEF RxLock
  <2>4. CASE UNCHANGED <<req, toDev>> /\ ans'[t].kind = "Closed"
    BY <2>4 DEF Waits
  <2>5. CASE ans'[t].kind = "waiting"
    <3>1. Sent(t, Nil)
      BY <2>1, <2>2, <2>3, <2>5 DEF Sent
    <3>. QED
      BY <3>1
  <2>. QED
    BY <2>3, <2>4, <2>5
<1>3. CASE Resend(t)
  <2>1. pc' = [pc EXCEPT ![t] = "reapplied"] /\ UNCHANGED <<op, arg, ops, result>> /\ pc[t] = "resend"
    BY <1>3 DEF Resend, Goto, opVars
  <2>2. pc'[t] = "reapplied" /\ Awaited(t)' = "SET_CONFIG"
    BY <2>1, <1>0 DEF Awaited
  <2>3. \/ UNCHANGED <<req, toDev>> /\ ans'[t].kind = "Closed"
        \/ /\ req' = [req EXCEPT ![t] = @ + 1] /\ ans'[t].kind = "waiting"
           /\ toDev' = Append(toDev, NewFrame(t, "SET_CONFIG", arg[t]))
    BY <1>0, <1>3, SendParts DEF Resend
  <2>4. CASE UNCHANGED <<req, toDev>> /\ ans'[t].kind = "Closed"
    BY <2>4 DEF Waits
  <2>5. CASE ans'[t].kind = "waiting"
    <3>1. Sent(t, arg[t])
      BY <2>1, <2>2, <2>3, <2>5 DEF Sent
    <3>. QED
      BY <3>1
  <2>. QED
    BY <2>3, <2>4, <2>5
<1>4. CASE Again(t)
  <2>1. pc' = [pc EXCEPT ![t] = "again_wait"] /\ UNCHANGED <<op, ops, result>> /\ pc[t] = "again"
    BY <1>4 DEF Again, Goto, opVars
  <2>2. pc'[t] = "again_wait" /\ Awaited(t)' = Command(op[t])
    BY <2>1, <1>0 DEF Awaited, Command
  <2>3. \/ UNCHANGED <<req, toDev>> /\ ans'[t].kind = "Closed"
        \/ /\ req' = [req EXCEPT ![t] = @ + 1] /\ ans'[t].kind = "waiting"
           /\ toDev' = Append(toDev, NewFrame(t, Command(op[t]), Nil))
    BY <1>0, <1>4, SendParts DEF Again
  <2>4. CASE UNCHANGED <<req, toDev>> /\ ans'[t].kind = "Closed"
    BY <2>4 DEF Waits
  <2>5. CASE ans'[t].kind = "waiting"
    <3>1. Sent(t, Nil)
      BY <2>1, <2>2, <2>3, <2>5 DEF Sent
    <3>. QED
      BY <3>1
  <2>. QED
    BY <2>3, <2>4, <2>5
<1>5. CASE ~FirstSend(t) /\ ~(RxLock(t) /\ ~rx_started) /\ ~Resend(t) /\ ~Again(t)
  <2>1. UNCHANGED <<req, toDev>>
    BY <1>5 DEF Begin, CloseBegin, OpStep, NoAttempt, TxDone, RetryDone, BackoffOver, RxLock, RxStarted, Reapply,
      Reapplied, AgainDone, RxSet, StopDone, ConfigDone, ClearRx, PingDone, RecvRead, RecvOpen, CloseRest,
      GiveUp, LinkFails, Forget, sessVars
  <2>2. pc'[t] \notin {"wait", "rx_wait", "reapplied", "again_wait"} \/ Fails(t)
    BY <1>0, <1>5 DEF Fails, Begin, CloseBegin, OpStep, NoAttempt, TxDone, RetryDone, BackoffOver, RxLock, RxStarted,
      Reapply, Reapplied, AgainDone, RxSet, StopDone, ConfigDone, ClearRx, PingDone, RecvRead, RecvOpen,
      CloseRest, Return, Goto, Entry
  <2>3. Fails(t) => ans'[t].kind \in {"Timeout", "Io", "Closed"}
    BY <1>0 DEF Fails, GiveUp, LinkFails, Answer
  <2>. QED
    BY <2>1, <2>2, <2>3 DEF Waits
<1>. QED
  BY <1>1, <1>2, <1>3, <1>4, <1>5

\* The wire after a frame is sent.
LEMMA WireAppended ==
  ASSUME Types, NEW x \in Frames, toDev' = Append(toDev, x)
  PROVE  /\ Len(toDev') = Len(toDev) + 1 /\ toDev'[Len(toDev) + 1] = x
         /\ \A i \in 1 .. Len(toDev) : toDev'[i] = toDev[i]
         /\ Len(toDev) \in Nat
         /\ \A f : OnWire(f)' <=> OnWire(f) \/ f = x
<1>1. toDev \in Seq(Frames) /\ Len(toDev) \in Nat
  BY DEF Types
<1>2. /\ Len(toDev') = Len(toDev) + 1 /\ toDev'[Len(toDev) + 1] = x
      /\ \A i \in 1 .. Len(toDev) : toDev'[i] = toDev[i]
  BY <1>1, AppendProperties
<1>3. \A i : i \in 1 .. Len(toDev) + 1 <=> i \in 1 .. Len(toDev) \/ i = Len(toDev) + 1
  BY <1>1
<1>. QED
  BY <1>1, <1>2, <1>3 DEF OnWire

\* The wire after the device has read a frame.
LEMMA WireDropped ==
  ASSUME Types, DevReads
  PROVE  /\ OnWire(Head(toDev)) /\ Head(toDev) = toDev[1] /\ Head(toDev) \in Frames
         /\ Len(toDev) \in Nat /\ Len(toDev') = Len(toDev) - 1 /\ 1 \in 1 .. Len(toDev)
         /\ \A i \in 1 .. Len(toDev') : toDev'[i] = toDev[i + 1] /\ i + 1 \in 1 .. Len(toDev)
         /\ \A f : OnWire(f)' => OnWire(f)
<1>1. toDev \in Seq(Frames) /\ toDev # <<>> /\ toDev' = Tail(toDev) /\ Len(toDev) \in Nat
  BY DEF Types, DevReads, DevStep
<1>2. /\ Head(toDev) \in Frames /\ Head(toDev) = toDev[1] /\ Len(toDev) >= 1
      /\ Len(toDev') = Len(toDev) - 1
      /\ \A i \in 1 .. Len(toDev') : toDev'[i] = toDev[i + 1] /\ i + 1 \in 1 .. Len(toDev)
  BY <1>1, WireTail
<1>3. 1 \in 1 .. Len(toDev)
  BY <1>1, <1>2
<1>4. \A f : OnWire(f)' => OnWire(f)
  BY <1>2 DEF OnWire
<1>. QED
  BY <1>1, <1>2, <1>3, <1>4 DEF OnWire

\* The new frame of a task.
LEMMA SentFrame ==
  ASSUME Types, PlaceInv, NEW t \in Tasks, NEW m, Sent(t, m), Types'
  PROVE  LET x == NewFrame(t, Awaited(t)', m) IN
         x \in Frames /\ x.who = t /\ x.n = req[t] + 1 /\ x.call = ops[t] /\ x.cmd = Awaited(t)'
<1>. DEFINE x == NewFrame(t, Awaited(t)', m)
<1>0. t # Ka
  BY TasksAssumption
<1>1. toDev' = Append(toDev, x)
  BY DEF Sent
<1>2. x.who = t /\ x.n = req[t] + 1 /\ x.call = ops[t] /\ x.cmd = Awaited(t)'
  BY <1>0 DEF NewFrame
<1>. HIDE DEF x
<1>3. x \in Frames
  <2>1. toDev' \in Seq(Frames) /\ toDev \in Seq(Frames)
    BY DEF Types
  <2>2. Len(toDev') = Len(toDev) + 1 /\ toDev'[Len(toDev) + 1] = x /\ Len(toDev) \in Nat
    BY <1>1, <2>1
  <2>3. Len(toDev) + 1 \in 1 .. Len(toDev')
    BY <2>2
  <2>. QED
    BY <2>1, <2>2, <2>3
<1>. QED
  BY <1>2, <1>3 DEF x

\* The new frame of the keepalive task is never a packet.
LEMMA KaSent ==
  ASSUME Types, PlaceInv, KaStep, Types'
  PROVE  \/ UNCHANGED <<req, toDev>>
         \/ \E x \in Frames : /\ toDev' = Append(toDev, x) /\ req' = [req EXCEPT ![Ka] = @ + 1]
                              /\ x.who = Ka /\ x.n = req[Ka] + 1 /\ x.cmd # "TX"
<1>0. Ka \in Actors
  BY DEF Actors
<1>1. ASSUME NEW k \in {"PING", "SET_CONFIG"}, NEW m, Sendable(k, m), Send(Ka, k, m)
      PROVE  \/ UNCHANGED <<req, toDev>>
             \/ \E x \in Frames : /\ toDev' = Append(toDev, x) /\ req' = [req EXCEPT ![Ka] = @ + 1]
                                  /\ x.who = Ka /\ x.n = req[Ka] + 1 /\ x.cmd # "TX"
  <2>. DEFINE x == NewFrame(Ka, k, m)
  <2>1. UNCHANGED <<req, toDev>> \/ (req' = [req EXCEPT ![Ka] = @ + 1] /\ toDev' = Append(toDev, x))
    BY <1>0, <1>1, SendParts
  <2>0. req \in [Actors -> Nat]
    BY DEF Types
  <2>2. req[Ka] + 1 \in Nat
    BY <1>0, <2>0
  <2>3. x \in Frames /\ x.who = Ka /\ x.n = req[Ka] + 1 /\ x.cmd # "TX"
    BY <1>0, <1>1, <2>2 DEF NewFrame, Frames, Sendable
  <2>. HIDE DEF x
  <2>. QED
    BY <2>1, <2>3
<1>2. CASE KaWake /\ ~closed
  <2>1. Send(Ka, "PING", Nil) /\ Sendable("PING", Nil)
    BY <1>2 DEF KaWake, Sendable
  <2>. QED
    BY <2>1, <1>1
<1>3. CASE Resend(Ka)
  <2>1. Send(Ka, "SET_CONFIG", arg[Ka]) /\ Sendable("SET_CONFIG", arg[Ka])
    BY <1>3 DEF Resend, Sendable, PlaceInv, KaPlace
  <2>. QED
    BY <2>1, <1>1
<1>4. CASE ~(KaWake /\ ~closed) /\ ~Resend(Ka)
  BY <1>4 DEF KaStep, KaWake, KaPinged, KaReapply, KaReapplied, GiveUp, LinkFails, Forget, sessVars
<1>. QED
  BY <1>2, <1>3, <1>4

\* A task's calls are counted one by one, as they begin.
LEMMA CountsGrow ==
  ASSUME Types, Acts
  PROVE  \A t \in Tasks : ops'[t] = ops[t] \/ (ops'[t] = ops[t] + 1 /\ (Begin(t) \/ CloseBegin(t)))
<1>1. ASSUME NEW t \in Tasks, Begin(t) \/ CloseBegin(t) \/ OpStep(t)
      PROVE  ops'[t] = ops[t] \/ (ops'[t] = ops[t] + 1 /\ (Begin(t) \/ CloseBegin(t)))
  <2>1. Begin(t) \/ CloseBegin(t) => ops' = [ops EXCEPT ![t] = @ + 1]
    BY DEF Begin, CloseBegin
  <2>2. OpStep(t) => ops' = ops
    BY DEF OpStep, FirstSend, NoAttempt, TxDone, RetryDone, BackoffOver, RxLock, RxStarted, Reapply,
      Resend, Reapplied, Again, AgainDone, RxSet, StopDone, ConfigDone, ClearRx, PingDone, RecvRead,
      RecvOpen, CloseRest, GiveUp, LinkFails, opVars
  <2>. QED
    BY <1>1, <2>1, <2>2 DEF Types
<1>2. ASSUME NEW t \in Tasks, Begin(t) \/ CloseBegin(t) \/ OpStep(t), NEW b \in Tasks, b # t
      PROVE  ops'[b] = ops[b]
  BY <1>2, OthersKept DEF SameTask
<1>3. ASSUME KaStep \/ DevReads \/ DevLapse, NEW b \in Tasks
      PROVE  ops'[b] = ops[b]
  BY <1>3, TasksKept DEF SameTask
<1>. QED
  BY <1>1, <1>2, <1>3 DEF Acts

\* A number within a bound is within the next one.
LEMMA UpTo ==
  \A c, n, m \in Nat : (m = n \/ m = n + 1) /\ c \in 1 .. n => c \in 1 .. m
  OBVIOUS

\* What stays on the wire while its sender does not wait again.
LEMMA OldFrame ==
  ASSUME Types, Types', Acts, NEW f \in Frames, FrameOk(f),
         req'[f.who] = req[f.who],
         f.who \in Tasks /\ Waits(f.who)' =>
           /\ Waits(f.who) /\ pc'[f.who] = pc[f.who] /\ op'[f.who] = op[f.who] /\ ops'[f.who] = ops[f.who]
  PROVE  FrameOk(f)'
<1>1. f.call \in Nat
  BY DEF Frames
<1>2. f.who \in Tasks => f.call \in 1 .. ops'[f.who]
  <2>1. \A t \in Tasks : ops[t] \in Nat /\ ops'[t] \in Nat
    BY Bounds DEF Types
  <2>2. \A t \in Tasks : ops'[t] = ops[t] \/ ops'[t] = ops[t] + 1
    BY CountsGrow
  <2>. QED
    BY <1>1, <2>1, <2>2, UpTo DEF FrameOk
<1>3. f.who \in Tasks /\ Waits(f.who)' => Awaited(f.who)' = Awaited(f.who)
  <2>. SUFFICES ASSUME f.who \in Tasks, Waits(f.who)' PROVE Awaited(f.who)' = Awaited(f.who)
    OBVIOUS
  <2>1. pc'[f.who] = pc[f.who] /\ op'[f.who] = op[f.who]
    OBVIOUS
  <2>2. Awaited(f.who)' = IF pc'[f.who] = "reapplied" THEN "SET_CONFIG" ELSE Command(op'[f.who])
    BY DEF Awaited
  <2>. QED
    BY <2>1, <2>2 DEF Awaited
<1>. QED
  BY <1>2, <1>3 DEF FrameOk

\* A new frame outdates the sender's older ones.
LEMMA OutdatedFrame ==
  ASSUME Types, NEW f \in Frames, FrameOk(f), f.who \in Actors, req'[f.who] = req[f.who] + 1,
         f.who \in Tasks => ops'[f.who] = ops[f.who]
  PROVE  FrameOk(f)'
<1>1. f.n \in Nat /\ req[f.who] \in Nat
  BY DEF Frames, Types
<1>2. f.n <= req[f.who]
  BY DEF FrameOk
<1>3. \A x, y, z \in Nat : x <= y /\ z = y + 1 => x <= z /\ x # z
  OBVIOUS
<1>4. f.n <= req'[f.who] /\ f.n # req'[f.who]
  BY <1>1, <1>2, <1>3
<1>. QED
  BY <1>4 DEF FrameOk

\* Every step keeps the frames on the wire numbered, and the one a task waits for its own.
LEMMA FramesKept ==
  ASSUME Types, Types', PlaceInv, CallInv, FrameInv, Acts
  PROVE  FrameInv'
<1>. SUFFICES ASSUME NEW f \in Frames, OnWire(f)' PROVE FrameOk(f)'
  BY DEF FrameInv
<1>0. f.who \in Actors /\ f.n \in Nat /\ f.call \in Nat
  BY DEF Frames
<1>1. ASSUME NEW t \in Tasks, Begin(t) \/ CloseBegin(t) \/ OpStep(t)
      PROVE  FrameOk(f)'
  <2>0. t \in Actors /\ t # Ka /\ req \in [Actors -> Nat]
    BY TasksAssumption DEF Actors, Types
  <2>1. ASSUME f.who # t, FrameOk(f) PROVE FrameOk(f)'
    <3>1. f.who \in Tasks => SameTask(f.who) /\ (Waits(f.who)' => Waits(f.who))
      <4>. SUFFICES ASSUME f.who \in Tasks PROVE SameTask(f.who) /\ (Waits(f.who)' => Waits(f.who))
        OBVIOUS
      <4>1. SameTask(f.who) /\ (ans'[f.who] = ans[f.who] \/ (Waits(f.who) /\ ans'[f.who] = Answer("Closed")))
        BY <1>1, <2>1, OthersKept
      <4>. QED
        BY <4>1 DEF SameTask, Waits
    <3>2. req'[f.who] = req[f.who]
      BY <1>0, <1>1, <2>1, <3>1, KaKept DEF SameTask, Actors
    <3>. QED
      BY <2>1, <3>1, <3>2, OldFrame DEF SameTask
  <2>2. CASE UNCHANGED <<req, toDev>> /\ ~Waits(t)'
    <3>1. FrameOk(f)
      BY <2>2 DEF FrameInv, OnWire
    <3>2. CASE f.who = t
      BY <3>1, <3>2, <2>2, OldFrame
    <3>. QED
      BY <3>1, <3>2, <2>1
  <2>3. ASSUME NEW m, Sent(t, m) PROVE FrameOk(f)'
    <3>. DEFINE x == NewFrame(t, Awaited(t)', m)
    <3>1. x \in Frames /\ x.who = t /\ x.n = req[t] + 1 /\ x.call = ops[t] /\ x.cmd = Awaited(t)'
      BY <2>3, SentFrame
    <3>2. toDev' = Append(toDev, x) /\ req' = [req EXCEPT ![t] = @ + 1] /\ ops' = ops /\ pc[t] # "idle"
      BY <2>3 DEF Sent
    <3>. HIDE DEF x
    <3>3. OnWire(f) \/ f = x
      BY <3>1, <3>2, WireAppended
    <3>4. req'[t] = req[t] + 1 /\ req[t] \in Nat
      BY <3>2, <2>0
    <3>5. CASE f = x
      <4>1. f.who = t /\ f.n = req'[t] /\ f.call = ops'[t] /\ f.cmd = Awaited(t)'
        BY <3>5, <3>1, <3>2, <3>4
      <4>2. ops[t] \in 1 .. MaxOps
        BY <3>2 DEF CallInv
      <4>3. f.call \in 1 .. ops'[t]
        BY <4>1, <4>2, <3>2, Bounds
      <4>4. f.n <= req'[t]
        BY <4>1, <1>0
      <4>. QED
        BY <4>1, <4>3, <4>4 DEF FrameOk
    <3>6. CASE OnWire(f) /\ f.who = t
      BY <3>6, <3>2, <3>4, <2>0, OutdatedFrame DEF FrameInv
    <3>7. CASE OnWire(f) /\ f.who # t
      BY <3>7, <2>1 DEF FrameInv
    <3>. QED
      BY <3>3, <3>5, <3>6, <3>7
  <2>. QED
    BY <1>1, <2>2, <2>3, TaskSent
<1>2. CASE KaStep
  <2>0. Ka \in Actors /\ req \in [Actors -> Nat] /\ Ka \notin Tasks
    BY TasksAssumption DEF Actors, Types
  <2>1. ASSUME f.who # Ka, FrameOk(f) PROVE FrameOk(f)'
    <3>1. SameTask(f.who) /\ ans'[f.who] = ans[f.who]
      BY <1>0, <1>2, <2>1, TasksKept DEF Actors
    <3>. QED
      BY <2>1, <3>1, OldFrame DEF SameTask, Waits
  <2>2. CASE UNCHANGED <<req, toDev>>
    <3>1. FrameOk(f)
      BY <2>2 DEF FrameInv, OnWire
    <3>2. CASE f.who = Ka
      BY <2>0, <2>2, <3>1, <3>2, OldFrame
    <3>. QED
      BY <3>1, <3>2, <2>1
  <2>3. ASSUME NEW x \in Frames, toDev' = Append(toDev, x), req' = [req EXCEPT ![Ka] = @ + 1],
               x.who = Ka, x.n = req[Ka] + 1, x.cmd # "TX"
        PROVE  FrameOk(f)'
    <3>1. OnWire(f) \/ f = x
      BY <2>3, WireAppended
    <3>2. req'[Ka] = req[Ka] + 1 /\ req[Ka] \in Nat
      BY <2>0, <2>3
    <3>3. CASE f = x
      BY <3>2, <3>3, <2>3, <2>0 DEF FrameOk
    <3>4. CASE OnWire(f) /\ f.who = Ka
      BY <3>2, <3>4, <2>0, OutdatedFrame DEF FrameInv
    <3>5. CASE OnWire(f) /\ f.who # Ka
      BY <3>5, <2>1 DEF FrameInv
    <3>. QED
      BY <3>1, <3>3, <3>4, <3>5
  <2>. QED
    BY <1>2, <2>2, <2>3, KaSent
<1>3. CASE DevReads \/ DevLapse
  <2>1. OnWire(f)
    <3>1. DevLapse => toDev' = toDev
      BY DEF DevLapse, sessVars
    <3>. QED
      BY <1>3, <3>1, WireDropped DEF OnWire
  <2>2. FrameOk(f)
    BY <2>1 DEF FrameInv
  <2>3. UNCHANGED <<req, pc, op, ops>>
    BY <1>3 DEF DevReads, DevStep, DevLapse, opVars, sessVars
  <2>4. ASSUME NEW b \in Tasks, Waits(b)' PROVE Waits(b)
    <3>1. ans'[b].kind = "waiting" => ans[b].kind = "waiting"
      <4>1. CASE DevReads
        <5>0. b \in Actors /\ ans \in [Actors -> [kind : Kinds, cfg : Configs \cup {Nil}]]
          BY DEF Actors, Types
        <5>1. PICK k \in {"Ok", "NotConfigured", "Busy", "Err"} :
                \/ ans' = [ans EXCEPT ![Head(toDev).who] = [kind |-> k, cfg |-> dev_cfg']]
                \/ ans' = ans
          BY <4>1, DevStepParts
        <5>. QED
          BY <5>0, <5>1
      <4>2. CASE DevLapse
        BY <4>2 DEF DevLapse, sessVars
      <4>. QED
        BY <1>3, <4>1, <4>2
    <3>. QED
      BY <2>3, <2>4, <3>1 DEF Waits
  <2>. QED
    BY <2>2, <2>3, <2>4, OldFrame
<1>. QED
  BY <1>1, <1>2, <1>3 DEF Acts

(****************************************************************************)
(* Packets                                                                  *)
(****************************************************************************)

\* The steps of a call: its packet stays to be sent, and stays confirmed.
LEMMA TaskPacket ==
  ASSUME Types, PlaceInv, NEW t \in Tasks, CloseBegin(t) \/ OpStep(t)
  PROVE  /\ Fresh(t)' => Fresh(t) /\ UNCHANGED ops /\ \A m : Sent(t, m) => Awaited(t)' # "TX"
         /\ Confirmed(t)' => Confirmed(t) /\ UNCHANGED ops
<1>0. t \in Actors /\ t # Ka /\ pc \in [Actors -> Labels] /\ op \in [Tasks -> AllOps \cup {Nil}]
      /\ ans \in [Actors -> [kind : Kinds, cfg : Configs \cup {Nil}]]
      /\ result \in [Tasks -> Kinds \cup {"none", "Other"}] /\ PlaceAt(t)
  BY TasksAssumption DEF Actors, Types, PlaceInv
<1>1. CASE CloseBegin(t)
  <2>1. op'[t] = "close"
    BY <1>0, <1>1 DEF CloseBegin
  <2>. QED
    BY <2>1 DEF Fresh, Confirmed, TxOps
<1>2. CASE OpStep(t)
  <2>1. UNCHANGED <<op, ops>>
    BY <1>2 DEF OpStep, FirstSend, NoAttempt, TxDone, RetryDone, BackoffOver, RxLock, RxStarted, Reapply,
      Resend, Reapplied, Again, AgainDone, RxSet, StopDone, ConfigDone, ClearRx, PingDone, RecvRead,
      RecvOpen, CloseRest, GiveUp, LinkFails, opVars
  <2>2. Fresh(t)' => Fresh(t)
    <3>. SUFFICES ASSUME Fresh(t)' PROVE Fresh(t)
      OBVIOUS
    <3>1. CASE FirstSend(t) \/ Resend(t) \/ Again(t)
      <4>1. pc[t] \in {"send", "resend", "again"}
        BY <3>1 DEF FirstSend, Resend, Again
      <4>. QED
        BY <2>1, <4>1 DEF Fresh
    <3>2. CASE Fails(t)
      <4>1. ans'[t].kind \in {"Timeout", "Io", "Closed"} /\ pc' = pc
        BY <1>0, <3>2 DEF Fails, GiveUp, LinkFails, Answer
      <4>. QED
        BY <2>1, <4>1 DEF Fresh
    <3>3. CASE ~(FirstSend(t) \/ Resend(t) \/ Again(t)) /\ ~Fails(t)
      BY <1>0, <1>2, <2>1, <3>3 DEF Fails, OpStep, NoAttempt, TxDone, RetryDone, BackoffOver, RxLock, RxStarted, Reapply,
        Reapplied, AgainDone, RxSet, StopDone, ConfigDone, ClearRx, PingDone, RecvRead,
        RecvOpen, CloseRest, At, Return, Goto, Fresh, PlaceAt, TxOps, Recovery, is_retryable
    <3>. QED
      BY <3>1, <3>2, <3>3
  <2>3. Fresh(t)' => \A m : Sent(t, m) => Awaited(t)' # "TX"
    <3>. SUFFICES ASSUME Fresh(t)', NEW m, Sent(t, m) PROVE Awaited(t)' # "TX"
      OBVIOUS
    <3>1. pc'[t] \in {"wait", "rx_wait", "reapplied", "again_wait"} /\ ans'[t].kind = "waiting"
      BY DEF Sent
    <3>2. pc'[t] = "reapplied"
      BY <3>1 DEF Fresh
    <3>. QED
      BY <3>2 DEF Awaited
  <2>4. Confirmed(t)' => Confirmed(t)
    <3>. SUFFICES ASSUME Confirmed(t)' PROVE Confirmed(t)
      OBVIOUS
    <3>1. CASE FirstSend(t) \/ Resend(t) \/ Again(t) \/ (RxLock(t) /\ ~rx_started)
      <4>1. ans'[t].kind \in {"waiting", "Closed"}
        BY <1>0, <3>1, SendParts DEF FirstSend, Resend, Again, RxLock
      <4>2. pc'[t] # "idle"
        BY <1>0, <3>1 DEF FirstSend, Resend, Again, RxLock, Goto
      <4>. QED
        BY <4>1, <4>2 DEF Confirmed
    <3>2. CASE Fails(t)
      <4>1. ans'[t].kind \in {"Timeout", "Io", "Closed"} /\ pc' = pc /\ result' = result
        BY <1>0, <3>2 DEF Fails, GiveUp, LinkFails, Answer, opVars
      <4>. QED
        BY <2>1, <4>1 DEF Confirmed
    <3>3. CASE ~(FirstSend(t) \/ Resend(t) \/ Again(t) \/ (RxLock(t) /\ ~rx_started)) /\ ~Fails(t)
      BY <1>0, <1>2, <2>1, <3>3 DEF Fails, OpStep, NoAttempt, TxDone, RetryDone, BackoffOver, RxLock, RxStarted, Reapply,
        Reapplied, AgainDone, RxSet, StopDone, ConfigDone, ClearRx, PingDone, RecvRead,
        RecvOpen, CloseRest, At, Return, Goto, Confirmed, PlaceAt, TxOps, Recovery, sessVars
    <3>. QED
      BY <3>1, <3>2, <3>3
  <2>. QED
    BY <2>1, <2>2, <2>3, <2>4
<1>. QED
  BY <1>1, <1>2

\* A call that begins has a new number, and nothing is confirmed.
LEMMA BeginPacket ==
  ASSUME Types, NEW t \in Tasks, Begin(t)
  PROVE  /\ ~Confirmed(t)' /\ ops'[t] = ops[t] + 1 /\ ops[t] < MaxOps /\ UNCHANGED toDev
<1>0. t \in Actors /\ pc \in [Actors -> Labels] /\ result \in [Tasks -> Kinds \cup {"none", "Other"}]
      /\ ops \in [Tasks -> 0 .. MaxOps]
  BY DEF Actors, Types
<1>1. pc'[t] \notin {"wait", "again_wait"} /\ result'[t] # "Ok"
  BY <1>0 DEF Begin, Return, Goto, Entry
<1>. QED
  BY <1>0, <1>1 DEF Begin, Confirmed, Forget

\* While the wire stays, so do the packets on it.
LEMMA CarriedKept ==
  ASSUME UNCHANGED toDev, NEW b, NEW c
  PROVE  Carried(b, c)' <=> Carried(b, c)
  BY DEF Carried, OnWire

\* A frame that is sent puts its packet on the wire.
LEMMA CarriedAppended ==
  ASSUME Types, NEW x \in Frames, toDev' = Append(toDev, x), NEW b, NEW c
  PROVE  Carried(b, c)' <=> Carried(b, c) \/ Packet(x, b, c)
<1>1. \A f : OnWire(f)' <=> OnWire(f) \/ f = x
  BY WireAppended
<1>. QED
  BY <1>1, Zenon DEF Carried

\* A packet that is sent was still to be sent.
LEMMA SentIsFresh ==
  ASSUME Types, PlaceInv, NEW t \in Tasks, NEW m, Sent(t, m), Awaited(t)' = "TX"
  PROVE  Fresh(t)
<1>1. PlaceAt(t) /\ op' = op
  BY DEF PlaceInv, Sent
<1>2. pc[t] \in {"send", "rx_lock", "resend", "again"}
  BY DEF Sent
<1>3. pc'[t] = "reapplied" => Awaited(t)' = "SET_CONFIG"
  BY DEF Awaited
<1>4. pc'[t] # "reapplied" => Awaited(t)' = Command(op[t])
  BY <1>1 DEF Awaited
<1>5. Command(op[t]) = "TX" /\ pc[t] # "resend"
  BY <1>3, <1>4 DEF Sent
<1>. QED
  BY <1>1, <1>2, <1>5 DEF PlaceAt, Command, Fresh, TxOps, Recovery

\* A number beyond a bound is beyond the one before.
LEMMA Succ == \A c, n, m \in Nat : (m = n \/ m = n + 1) /\ c > m => c > n
  OBVIOUS

\* The positions of a sequence with one more.
LEMMA SeqRange ==
  ASSUME NEW n \in Nat, NEW i \in 1 .. n + 1
  PROVE  i \in 1 .. n \/ i = n + 1
  OBVIOUS

\* A frame without a packet, or the packet of a call that had none yet.
LEMMA WireGrows ==
  ASSUME Types, WireInv, NEW x \in Frames, toDev' = Append(toDev, x),
         x.cmd = "TX" => ~Carried(x.who, x.call)
  PROVE  WireInv'
<1>1. /\ Len(toDev') = Len(toDev) + 1 /\ toDev'[Len(toDev) + 1] = x /\ Len(toDev) \in Nat
      /\ \A i \in 1 .. Len(toDev) : toDev'[i] = toDev[i]
  BY WireAppended
<1>2. \A i \in 1 .. Len(toDev) : toDev[i] \in Frames
  BY DEF Types
<1>3. \A i \in 1 .. Len(toDev) : ~(x.cmd = "TX" /\ Packet(toDev[i], x.who, x.call))
  BY <1>2 DEF Carried, OnWire
<1>. SUFFICES ASSUME NEW i \in 1 .. Len(toDev'), NEW j \in 1 .. Len(toDev'), i # j,
                     toDev'[i].cmd = "TX", toDev'[j].cmd = "TX", toDev'[i].who = toDev'[j].who
              PROVE  toDev'[i].call # toDev'[j].call
  BY DEF WireInv
<1>4. i \in 1 .. Len(toDev) \/ i = Len(toDev) + 1
  BY <1>1, SeqRange
<1>5. j \in 1 .. Len(toDev) \/ j = Len(toDev) + 1
  BY <1>1, SeqRange
<1>6. CASE i \in 1 .. Len(toDev) /\ j \in 1 .. Len(toDev)
  BY <1>1, <1>6 DEF WireInv
<1>7. CASE i = Len(toDev) + 1 /\ j \in 1 .. Len(toDev)
  BY <1>1, <1>3, <1>7 DEF Packet
<1>8. CASE j = Len(toDev) + 1 /\ i \in 1 .. Len(toDev)
  BY <1>1, <1>3, <1>8 DEF Packet
<1>. QED
  BY <1>4, <1>5, <1>6, <1>7, <1>8

\* What a new call finds: nothing of its number was on the air or is on the wire.
LEMMA NewCall ==
  ASSUME Types, FrameInv, AirInv, NEW t \in Tasks, ops[t] < MaxOps
  PROVE  aired[<<t, ops[t] + 1>>] = 0 /\ ~Carried(t, ops[t] + 1)
<1>1. ops[t] \in Nat /\ ops[t] + 1 \in 1 .. MaxOps /\ ops[t] + 1 > ops[t]
  BY Bounds DEF Types
<1>2. aired[<<t, ops[t] + 1>>] = 0
  BY <1>1 DEF AirInv
<1>3. ASSUME NEW f \in Frames, OnWire(f), Packet(f, t, ops[t] + 1) PROVE FALSE
  BY <1>1, <1>3 DEF FrameInv, FrameOk, Packet
<1>. QED
  BY <1>2, <1>3 DEF Carried

\* Steps that air nothing: of the tasks and of the keepalive task.
LEMMA TaskPackets ==
  ASSUME Types, Types', PlaceInv, FrameInv, PacketInv, Acts,
         NEW t \in Tasks, Begin(t) \/ CloseBegin(t) \/ OpStep(t)
  PROVE  PacketInv'
<1>0. aired' = aired
  BY TaskShape DEF devVars
<1>1. \A b \in Tasks : ops[b] \in Nat /\ ops'[b] \in Nat /\ (ops'[b] = ops[b] \/ ops'[b] = ops[b] + 1)
  <2>1. \A b \in Tasks : ops[b] \in 0 .. MaxOps /\ ops'[b] \in 0 .. MaxOps
    BY DEF Types
  <2>. QED
    BY <2>1, CountsGrow, Bounds
<1>2. (UNCHANGED toDev) \/ \E m : Sent(t, m)
  BY TaskSent
<1>3. ASSUME NEW m, Sent(t, m)
      PROVE  \E x \in Frames : /\ toDev' = Append(toDev, x) /\ x.who = t /\ x.call = ops[t] /\ x.cmd = Awaited(t)'
                               /\ x.cmd = "TX" => Fresh(t)
  <2>. DEFINE x == NewFrame(t, Awaited(t)', m)
  <2>1. x \in Frames /\ x.who = t /\ x.call = ops[t] /\ x.cmd = Awaited(t)'
    BY <1>3, SentFrame
  <2>2. toDev' = Append(toDev, x)
    BY <1>3 DEF Sent
  <2>3. x.cmd = "TX" => Fresh(t)
    BY <2>1, <1>3, SentIsFresh
  <2>. HIDE DEF x
  <2>. QED
    BY <2>1, <2>2, <2>3
<1>4. Fresh(t) => aired[<<t, ops[t]>>] = 0 /\ ~Carried(t, ops[t])
  BY DEF PacketInv, PacketAt
\* What the step adds to the wire is a packet of t that was not there.
<1>5. \A b, c : Carried(b, c)' => Carried(b, c) \/ (b = t /\ c = ops[t] /\ Fresh(t) /\ \E m : Sent(t, m) /\ Awaited(t)' = "TX")
  <2>1. CASE UNCHANGED toDev
    BY <2>1, CarriedKept
  <2>2. ASSUME NEW m, Sent(t, m), NEW b, NEW c, Carried(b, c)', ~Carried(b, c)
        PROVE  b = t /\ c = ops[t] /\ Fresh(t) /\ Awaited(t)' = "TX"
    <3>1. PICK x \in Frames : /\ toDev' = Append(toDev, x) /\ x.who = t /\ x.call = ops[t] /\ x.cmd = Awaited(t)'
                              /\ x.cmd = "TX" => Fresh(t)
      BY <2>2, <1>3
    <3>2. Packet(x, b, c)
      BY <3>1, <2>2, CarriedAppended
    <3>. QED
      BY <3>1, <3>2 DEF Packet
  <2>. QED
    BY <1>2, <2>1, <2>2
<1>6. WireInv'
  <2>1. CASE UNCHANGED toDev
    BY <2>1 DEF PacketInv, WireInv
  <2>2. ASSUME NEW m, Sent(t, m) PROVE WireInv'
    <3>1. PICK x \in Frames : /\ toDev' = Append(toDev, x) /\ x.who = t /\ x.call = ops[t]
                              /\ x.cmd = "TX" => Fresh(t)
      BY <2>2, <1>3
    <3>. QED
      BY <3>1, <1>4, WireGrows DEF PacketInv
  <2>. QED
    BY <1>2, <2>1, <2>2
<1>7. AirInv'
  <2>. SUFFICES ASSUME NEW b \in Tasks, NEW c \in 1 .. MaxOps
                PROVE  aired'[<<b, c>>] <= 1 /\ (c > ops'[b] \/ Carried(b, c)' => aired'[<<b, c>>] = 0)
    BY DEF AirInv
  <2>1. aired[<<b, c>>] <= 1 /\ (c > ops[b] \/ Carried(b, c) => aired[<<b, c>>] = 0)
    BY DEF PacketInv, AirInv
  <2>2. c > ops'[b] => c > ops[b]
    BY <1>1, Succ, Bounds
  <2>3. Carried(b, c)' => aired[<<b, c>>] = 0
    BY <2>1, <1>4, <1>5
  <2>. QED
    BY <1>0, <2>1, <2>2, <2>3
<1>8. ASSUME NEW b \in Tasks PROVE PacketAt(b)'
  <2>0. PacketAt(b)
    BY DEF PacketInv
  <2>1. CASE b = t /\ Begin(t)
    <3>1. ~Confirmed(t)' /\ ops'[t] = ops[t] + 1 /\ ops[t] < MaxOps /\ UNCHANGED toDev
      BY <2>1, BeginPacket
    <3>2. aired[<<t, ops[t] + 1>>] = 0 /\ ~Carried(t, ops[t] + 1)
      BY <3>1, NewCall DEF PacketInv
    <3>3. aired'[<<t, ops'[t]>>] = 0
      BY <1>0, <3>1, <3>2
    <3>4. ~Carried(t, ops[t])'
      BY <3>1, <3>2 DEF Carried, OnWire
    <3>. QED
      BY <2>1, <3>1, <3>3, <3>4 DEF PacketAt
  <2>2. CASE b = t /\ (CloseBegin(t) \/ OpStep(t))
    <3>1. /\ Fresh(t)' => Fresh(t) /\ ops' = ops /\ \A m : Sent(t, m) => Awaited(t)' # "TX"
          /\ Confirmed(t)' => Confirmed(t) /\ ops' = ops
      BY <2>2, TaskPacket
    <3>2. Fresh(t)' => ~Carried(t, ops[t])'
      <4>. SUFFICES ASSUME Fresh(t)' PROVE ~Carried(t, ops[t])'
        OBVIOUS
      <4>1. ~Carried(t, ops[t]) /\ ops' = ops
        BY <3>1, <1>4
      <4>2. (UNCHANGED toDev) \/ \E x \in Frames : toDev' = Append(toDev, x) /\ x.cmd # "TX"
        BY <3>1, <1>2, <1>3
      <4>3. ASSUME NEW x \in Frames, toDev' = Append(toDev, x), x.cmd # "TX" PROVE ~Carried(t, ops[t])'
        <5>1. \A f : OnWire(f)' <=> OnWire(f) \/ f = x
          BY <4>3, WireAppended
        <5>. QED
          BY <4>1, <4>3, <5>1, Zenon DEF Carried, Packet
      <4>4. CASE UNCHANGED toDev
        BY <4>1, <4>4 DEF Carried, OnWire
      <4>. QED
        BY <4>2, <4>3, <4>4
    <3>. QED
      BY <1>0, <2>0, <2>2, <3>1, <3>2 DEF PacketAt
  <2>3. CASE b # t
    <3>1. SameTask(b) /\ (ans'[b] = ans[b] \/ (Waits(b) /\ ans'[b] = Answer("Closed")))
      BY <2>3, OthersKept
    <3>2. (Fresh(b)' => Fresh(b)) /\ (Confirmed(b)' => Confirmed(b))
      BY <3>1 DEF SameTask, Fresh, Confirmed, Answer
    <3>3. Carried(b, ops[b])' => Carried(b, ops[b])
      <4>1. ops'[b] = ops[b]
        BY <3>1 DEF SameTask
      <4>2. Carried(b, ops[b])' => \E f \in Frames : OnWire(f)' /\ Packet(f, b, ops[b])
        BY <4>1 DEF Carried
      <4>3. ASSUME NEW f \in Frames, OnWire(f)', f.who = b PROVE OnWire(f)
        <5>1. CASE UNCHANGED toDev
          BY <4>3, <5>1 DEF OnWire
        <5>2. ASSUME NEW m, Sent(t, m) PROVE OnWire(f)
          BY <5>2, <4>3, <1>3, <2>3, WireAppended
        <5>. QED
          BY <1>2, <5>1, <5>2
      <4>. QED
        BY <4>2, <4>3 DEF Carried, Packet
    <3>. QED
      BY <1>0, <2>0, <3>1, <3>2, <3>3 DEF PacketAt, SameTask
  <2>. QED
    BY <2>1, <2>2, <2>3
<1>. QED
  BY <1>6, <1>7, <1>8 DEF PacketInv

\* The keepalive and a lapse of the device concern no packet.
LEMMA KaPackets ==
  ASSUME Types, Types', PlaceInv, PacketInv, KaStep \/ DevLapse
  PROVE  PacketInv'
<1>0. UNCHANGED <<aired, ops>>
  BY KaShape DEF devVars, DevLapse, opVars
<1>1. (UNCHANGED toDev) \/ \E x \in Frames : toDev' = Append(toDev, x) /\ x.cmd # "TX"
  <2>1. DevLapse => UNCHANGED toDev
    BY DEF DevLapse, sessVars
  <2>. QED
    BY <2>1, KaSent
<1>2. \A b, c : Carried(b, c)' => Carried(b, c)
  <2>1. CASE UNCHANGED toDev
    BY <2>1, CarriedKept
  <2>2. ASSUME NEW x \in Frames, toDev' = Append(toDev, x), x.cmd # "TX", NEW b, NEW c, Carried(b, c)'
        PROVE  Carried(b, c)
    <3>1. ~Packet(x, b, c)
      BY <2>2 DEF Packet
    <3>. QED
      BY <2>2, <3>1, CarriedAppended
  <2>. QED
    BY <1>1, <2>1, <2>2
<1>3. WireInv'
  <2>1. CASE UNCHANGED toDev
    BY <2>1 DEF PacketInv, WireInv
  <2>2. ASSUME NEW x \in Frames, toDev' = Append(toDev, x), x.cmd # "TX" PROVE WireInv'
    BY <2>2, WireGrows DEF PacketInv
  <2>. QED
    BY <1>1, <2>1, <2>2
<1>4. AirInv'
  BY <1>0, <1>2 DEF PacketInv, AirInv
<1>5. ASSUME NEW b \in Tasks PROVE PacketAt(b)'
  <2>1. SameTask(b) /\ ans'[b] = ans[b]
    BY TasksKept
  <2>2. (Fresh(b)' => Fresh(b)) /\ (Confirmed(b)' => Confirmed(b))
    BY <2>1 DEF SameTask, Fresh, Confirmed
  <2>3. Carried(b, ops[b])' => Carried(b, ops[b])
    <3>1. Carried(b, ops[b])' => \E f \in Frames : OnWire(f)' /\ Packet(f, b, ops[b])
      BY <1>0 DEF Carried
    <3>2. \A c : (\E f \in Frames : OnWire(f)' /\ Packet(f, b, c)) => Carried(b, c)
      BY <1>2 DEF Carried
    <3>. QED
      BY <3>1, <3>2
  <2>. QED
    BY <1>0, <2>2, <2>3 DEF PacketAt, PacketInv
<1>. QED
  BY <1>3, <1>4, <1>5 DEF PacketInv

\* The count of what was never on the air becomes one.
LEMMA OneMore == \A x \in Nat : x = 0 => x + 1 <= 1 /\ x + 1 = 1
  OBVIOUS

\* The device takes the first frame; a packet may be aired, once.
LEMMA DevPackets ==
  ASSUME Types, Types', PlaceInv, FrameInv, PacketInv, DevReads
  PROVE  PacketInv'
<1>. DEFINE f == Head(toDev)
<1>1. /\ OnWire(f) /\ f = toDev[1] /\ f \in Frames /\ 1 \in 1 .. Len(toDev)
      /\ Len(toDev) \in Nat /\ Len(toDev') = Len(toDev) - 1
      /\ \A i \in 1 .. Len(toDev') : toDev'[i] = toDev[i + 1] /\ i + 1 \in 1 .. Len(toDev)
      /\ \A g : OnWire(g)' => OnWire(g)
  BY WireDropped
<1>2. PICK k \in {"Ok", "NotConfigured", "Busy", "Err"} :
        /\ Execute(f, k)
        /\ \/ Reaches(f) /\ ans' = [ans EXCEPT ![f.who] = [kind |-> k, cfg |-> dev_cfg']]
           \/ ans' = ans
  BY DevStepParts
<1>3. UNCHANGED <<op, ops, result, pc, req>>
  BY DEF DevReads, DevStep, opVars
<1>. HIDE DEF f
<1>4. aired' = IF k = "Ok" /\ f.cmd = "TX" THEN [aired EXCEPT ![<<f.who, f.call>>] = @ + 1] ELSE aired
  BY <1>2 DEF Execute
<1>5. FrameOk(f)
  BY <1>1 DEF FrameInv
<1>6. f.cmd = "TX" => /\ f.who \in Tasks /\ f.call \in 1 .. MaxOps /\ f.call <= ops[f.who]
                      /\ aired[<<f.who, f.call>>] = 0 /\ Carried(f.who, f.call)
  <2>. SUFFICES ASSUME f.cmd = "TX"
                PROVE  /\ f.who \in Tasks /\ f.call \in 1 .. MaxOps /\ f.call <= ops[f.who]
                       /\ aired[<<f.who, f.call>>] = 0 /\ Carried(f.who, f.call)
    OBVIOUS
  <2>1. f.who \in Tasks /\ f.call \in 1 .. ops[f.who]
    BY <1>5 DEF FrameOk
  <2>2. ops[f.who] \in 0 .. MaxOps
    BY <2>1 DEF Types
  <2>3. f.call \in 1 .. MaxOps /\ f.call <= ops[f.who]
    BY <2>1, <2>2, Bounds
  <2>4. Carried(f.who, f.call)
    BY <1>1 DEF Carried, Packet
  <2>. QED
    BY <2>1, <2>3, <2>4 DEF PacketInv, AirInv
\* The frames behind it carry other packets.
<1>7. \A b, c : Carried(b, c)' => Carried(b, c) /\ ~Packet(f, b, c)
  <2>. SUFFICES ASSUME NEW b, NEW c, NEW g \in Frames, OnWire(g)', Packet(g, b, c)
                PROVE  Carried(b, c) /\ ~Packet(f, b, c)
    BY DEF Carried
  <2>1. PICK i \in 1 .. Len(toDev') : toDev'[i] = g
    BY DEF OnWire
  <2>2. toDev[i + 1] = g /\ i + 1 \in 1 .. Len(toDev) /\ i + 1 # 1
    BY <1>1, <2>1
  <2>3. ~Packet(f, b, c)
    BY <1>1, <2>2 DEF PacketInv, WireInv, Packet
  <2>4. Carried(b, c)
    BY <1>1 DEF Carried
  <2>. QED
    BY <2>3, <2>4
\* Only the packet of f can come on the air.
<1>8. ASSUME NEW b \in Tasks, NEW c \in 1 .. MaxOps
      PROVE  /\ ~Packet(f, b, c) => aired'[<<b, c>>] = aired[<<b, c>>]
             /\ Packet(f, b, c) /\ k # "Ok" => aired'[<<b, c>>] = 0
             /\ Packet(f, b, c) /\ k = "Ok" => aired'[<<b, c>>] = 1
  <2>1. aired \in [Tasks \X (1 .. MaxOps) -> Nat] /\ <<b, c>> \in Tasks \X (1 .. MaxOps)
    BY DEF Types
  <2>2. CASE Packet(f, b, c)
    <3>1. f.cmd = "TX" /\ f.who = b /\ f.call = c /\ aired[<<b, c>>] = 0
      BY <1>6, <2>2 DEF Packet
    <3>2. k = "Ok" => aired' = [aired EXCEPT ![<<b, c>>] = @ + 1]
      BY <3>1, <1>4
    <3>3. k # "Ok" => aired' = aired
      BY <1>4
    <3>4. k = "Ok" => aired'[<<b, c>>] = aired[<<b, c>>] + 1
      BY <3>2, <2>1
    <3>. QED
      BY <2>1, <2>2, <3>1, <3>3, <3>4, OneMore
  <2>3. CASE ~Packet(f, b, c)
    <3>1. f.cmd = "TX" => <<f.who, f.call>> # <<b, c>>
      BY <2>3 DEF Packet
    <3>. QED
      BY <1>4, <2>1, <2>3, <3>1
  <2>. QED
    BY <2>2, <2>3
<1>9. WireInv'
  <2>. SUFFICES ASSUME NEW i \in 1 .. Len(toDev'), NEW j \in 1 .. Len(toDev'), i # j,
                       toDev'[i].cmd = "TX", toDev'[j].cmd = "TX", toDev'[i].who = toDev'[j].who
                PROVE  toDev'[i].call # toDev'[j].call
    BY DEF WireInv
  <2>1. i + 1 # j + 1
    OBVIOUS
  <2>. QED
    BY <1>1, <2>1 DEF PacketInv, WireInv
<1>10. AirInv'
  <2>. SUFFICES ASSUME NEW b \in Tasks, NEW c \in 1 .. MaxOps
                PROVE  aired'[<<b, c>>] <= 1 /\ (c > ops'[b] \/ Carried(b, c)' => aired'[<<b, c>>] = 0)
    BY DEF AirInv
  <2>1. aired[<<b, c>>] <= 1 /\ (c > ops[b] \/ Carried(b, c) => aired[<<b, c>>] = 0)
    BY DEF PacketInv, AirInv
  <2>2. CASE ~Packet(f, b, c)
    BY <1>3, <1>7, <1>8, <2>1, <2>2
  <2>3. CASE Packet(f, b, c)
    <3>1. ~(c > ops'[b])
      <4>1. c <= ops[b] /\ c \in Nat /\ ops[b] \in 0 .. MaxOps
        BY <1>6, <2>3 DEF Packet, Types
      <4>2. ops[b] \in Nat
        BY <4>1, Bounds
      <4>3. ~(c > ops[b])
        BY <4>1, <4>2
      <4>. QED
        BY <4>3, <1>3
    <3>2. aired'[<<b, c>>] \in {0, 1}
      BY <1>8, <2>3
    <3>. QED
      BY <1>7, <2>3, <3>1, <3>2
  <2>. QED
    BY <2>2, <2>3
<1>11. ASSUME NEW b \in Tasks PROVE PacketAt(b)'
  <2>0. b \in Actors /\ b # Ka /\ ans \in [Actors -> [kind : Kinds, cfg : Configs \cup {Nil}]]
        /\ ops[b] \in 0 .. MaxOps
    BY TasksAssumption DEF Actors, Types
  <2>1. PacketAt(b) /\ PlaceAt(b)
    BY DEF PacketInv, PlaceInv
  \* What the answer can have been to.
  <2>2. ans'[b] # ans[b] => /\ f.who = b /\ Waits(b) /\ ans'[b].kind = k
                            /\ f.call = ops[b] /\ f.cmd = Awaited(b)
    <3>. SUFFICES ASSUME ans'[b] # ans[b]
                  PROVE  /\ f.who = b /\ Waits(b) /\ ans'[b].kind = k
                         /\ f.call = ops[b] /\ f.cmd = Awaited(b)
      OBVIOUS
    <3>1. Reaches(f) /\ ans' = [ans EXCEPT ![f.who] = [kind |-> k, cfg |-> dev_cfg']]
      BY <1>2
    <3>2. f.who = b
      BY <3>1, <2>0
    <3>3. ans'[b].kind = k
      BY <3>1, <3>2, <2>0
    <3>. QED
      BY <3>1, <3>2, <3>3, <1>5 DEF Reaches, FrameOk
  \* A call whose packet is to be sent, or is confirmed, has none on the wire.
  <2>3. CASE ans'[b] = ans[b]
    <3>1. (Fresh(b)' => Fresh(b)) /\ (Confirmed(b)' => Confirmed(b))
      BY <1>3, <2>3 DEF Fresh, Confirmed
    <3>2. Fresh(b) => ~Carried(b, ops[b]) /\ aired[<<b, ops[b]>>] = 0
      BY <2>1 DEF PacketAt
    <3>3. Confirmed(b) => aired[<<b, ops[b]>>] = 1
      BY <2>1 DEF PacketAt
    <3>4. Fresh(b) \/ Confirmed(b) => ~Packet(f, b, ops[b])
      BY <3>2, <3>3, <1>6 DEF Packet
    <3>5. Fresh(b) \/ Confirmed(b) => aired'[<<b, ops[b]>>] = aired[<<b, ops[b]>>]
      <4>1. aired \in [Tasks \X (1 .. MaxOps) -> Nat]
        BY DEF Types
      <4>2. f.cmd = "TX" => <<f.who, f.call>> \in Tasks \X (1 .. MaxOps)
        BY <1>6
      <4>3. ~Packet(f, b, ops[b]) => aired'[<<b, ops[b]>>] = aired[<<b, ops[b]>>]
        BY <1>4, <4>1, <4>2 DEF Packet
      <4>. QED
        BY <3>4, <4>3
    <3>6. Fresh(b) => ~Carried(b, ops[b])'
      BY <1>1, <1>3, <3>2 DEF Carried
    <3>. QED
      BY <1>3, <3>1, <3>2, <3>3, <3>5, <3>6 DEF PacketAt
  <2>4. CASE ans'[b] # ans[b]
    <3>1. /\ f.who = b /\ Waits(b) /\ ans'[b].kind = k /\ f.call = ops[b] /\ f.cmd = Awaited(b)
      BY <2>2, <2>4
    <3>2. CASE op[b] \in TxOps /\ pc[b] \in {"wait", "again_wait"}
      <4>1. f.cmd = "TX"
        BY <3>1, <3>2 DEF Awaited, Command, TxOps
      <4>2. Packet(f, b, ops[b]) /\ ops[b] \in 1 .. MaxOps
        BY <3>1, <4>1, <1>6 DEF Packet
      <4>3. aired'[<<b, ops[b]>>] = IF k = "Ok" THEN 1 ELSE 0
        BY <1>8, <4>2
      <4>4. ~Carried(b, ops[b])'
        <5>1. Carried(b, ops[b])' => \E g \in Frames : OnWire(g)' /\ Packet(g, b, ops[b])
          BY <1>3 DEF Carried
        <5>2. \A c : (\E g \in Frames : OnWire(g)' /\ Packet(g, b, c)) => ~Packet(f, b, c)
          BY <1>7 DEF Carried
        <5>. QED
          BY <5>1, <5>2, <4>2
      <4>5. (Fresh(b)' => k # "Ok") /\ (Confirmed(b)' => k = "Ok")
        BY <1>3, <3>1, <3>2 DEF Fresh, Confirmed
      <4>. QED
        BY <1>3, <4>3, <4>4, <4>5 DEF PacketAt
    <3>3. CASE op[b] \in TxOps /\ pc[b] = "reapplied"
      <4>1. Fresh(b) /\ ~Confirmed(b)'
        BY <1>3, <3>3 DEF Fresh, Confirmed
      <4>2. f.cmd # "TX"
        BY <3>1, <3>3 DEF Awaited
      <4>3. aired' = aired
        BY <4>2, <1>4
      <4>4. aired[<<b, ops[b]>>] = 0 /\ ~Carried(b, ops[b])
        BY <4>1, <2>1 DEF PacketAt
      <4>5. ~Carried(b, ops[b])'
        BY <1>1, <1>3, <4>4 DEF Carried
      <4>. QED
        BY <1>3, <4>1, <4>3, <4>4, <4>5 DEF PacketAt
    <3>4. CASE op[b] \notin TxOps \/ pc[b] \notin {"wait", "again_wait", "reapplied"}
      <4>1. op[b] \notin TxOps
        BY <2>1, <3>1, <3>4 DEF Waits, PlaceAt, TxOps
      <4>. QED
        BY <1>3, <4>1 DEF PacketAt, Fresh, Confirmed
    <3>. QED
      BY <3>2, <3>3, <3>4
  <2>. QED
    BY <2>3, <2>4
<1>. QED
  BY <1>9, <1>10, <1>11 DEF PacketInv

(****************************************************************************)
(* The theorems                                                             *)
(****************************************************************************)

\* The invariant holds of a Dongle that was just connected,
LEMMA DInit == Init => DInv
<1>. SUFFICES ASSUME Init PROVE DInv
  OBVIOUS
<1>0. toDev = <<>> /\ Len(toDev) = 0 /\ 1 .. Len(toDev) = {}
  BY DEF Init
<1>1. Types
  <2>1. Answer("Ok") \in [kind : Kinds, cfg : Configs \cup {Nil}]
    BY AnswerTypes DEF Kinds
  <2>2. /\ closed \in BOOLEAN /\ sess_closed \in BOOLEAN /\ rx_started \in BOOLEAN
        /\ dev_rx \in BOOLEAN /\ overlap \in BOOLEAN /\ recovered \in BOOLEAN
        /\ rx_guard \in Tasks \cup {Nil} /\ applied_config \in Configs \cup {Nil}
    BY ConfigAssumption DEF Init
  <2>3. dev_cfg \in Configs \cup {Nil}
    BY <2>2 DEF Init
  <2>4. /\ pc \in [Actors -> Labels] /\ op \in [Tasks -> AllOps \cup {Nil}]
        /\ arg \in [Actors -> Configs \cup {Nil}] /\ policy \in [Tasks -> Policies \cup {Nil}]
        /\ result \in [Tasks -> Kinds \cup {"none", "Other"}]
        /\ ans \in [Actors -> [kind : Kinds, cfg : Configs \cup {Nil}]]
    BY <2>1 DEF Init, Labels
  <2>5. /\ left \in [Tasks -> Nat] /\ delay_ms \in [Tasks -> Nat] /\ nap \in [Tasks -> Nat]
        /\ ops \in [Tasks -> 0 .. MaxOps] /\ req \in [Actors -> Nat]
        /\ wakes \in 0 .. MaxWakes /\ lapses \in 0 .. MaxLapses
        /\ aired \in [Tasks \X (1 .. MaxOps) -> Nat] /\ toDev \in Seq(Frames)
    BY Bounds DEF Init
  <2>. QED
    BY <2>2, <2>3, <2>4, <2>5 DEF Types
<1>2. \A t \in Tasks : t \in Actors /\ pc[t] = "idle" /\ result[t] = "none" /\ ops[t] = 0
  BY TasksAssumption DEF Init, Actors
<1>3. PlaceInv
  <2>1. KaPlace
    BY DEF Init, KaPlace, Actors
  <2>. QED
    BY <1>2, <2>1 DEF PlaceInv, PlaceAt, Recovery
<1>4. BackoffInv
  BY <1>2 DEF BackoffInv, BackoffAt, Retrying
<1>5. CallInv /\ FrameInv /\ WireInv
  BY <1>0, <1>2 DEF CallInv, FrameInv, OnWire, WireInv
<1>6. AirInv
  <2>. SUFFICES ASSUME NEW t \in Tasks, NEW c \in 1 .. MaxOps
                PROVE  aired[<<t, c>>] <= 1 /\ (c > ops[t] \/ Carried(t, c) => aired[<<t, c>>] = 0)
    BY DEF AirInv
  <2>1. aired[<<t, c>>] = 0
    BY DEF Init
  <2>. QED
    BY <2>1
<1>7. \A t \in Tasks : PacketAt(t)
  BY <1>2 DEF PacketAt, Fresh, Confirmed
<1>8. WireTypes
  BY <1>0 DEF Init, WireTypes
<1>. QED
  BY <1>1, <1>3, <1>4, <1>5, <1>6, <1>7, <1>8, TypeParts DEF DInv, OInv, PacketInv

\* The transport has taken no more frames than there are.
LEMMA WireKept ==
  ASSUME Types, WireTypes, PlaceInv, Acts, Types'
  PROVE  WireTypes'
<1>0. Len(toDev) \in Nat
  BY DEF Types
<1>1. ASSUME UNCHANGED <<wired, link>>, toDev' = toDev \/ \E x \in Frames : toDev' = Append(toDev, x)
      PROVE  WireTypes'
  <2>1. toDev' = toDev \/ Len(toDev') = Len(toDev) + 1
    BY <1>1, WireAppended
  <2>. QED
    BY <1>0, <1>1, <2>1 DEF WireTypes
<1>2. ASSUME NEW t \in Tasks, Begin(t) \/ CloseBegin(t) \/ OpStep(t) PROVE WireTypes'
  <2>1. UNCHANGED <<wired, link>>
    BY <1>2, TaskShape DEF devVars
  <2>2. toDev' = toDev \/ \E x \in Frames : toDev' = Append(toDev, x)
    <3>1. CASE \E m : Sent(t, m)
      <4>1. PICK m : Sent(t, m)
        BY <3>1
      <4>. DEFINE x == NewFrame(t, Awaited(t)', m)
      <4>2. x \in Frames
        BY <4>1, SentFrame
      <4>3. toDev' = Append(toDev, x)
        BY <4>1 DEF Sent
      <4>. HIDE DEF x
      <4>. QED
        BY <4>2, <4>3
    <3>. QED
      BY <1>2, <3>1, TaskSent
  <2>. QED
    BY <1>1, <2>1, <2>2
<1>3. CASE KaStep
  <2>1. UNCHANGED <<wired, link>>
    BY <1>3, KaShape DEF devVars
  <2>2. toDev' = toDev \/ \E x \in Frames : toDev' = Append(toDev, x)
    BY <1>3, KaSent
  <2>. QED
    BY <1>1, <2>1, <2>2
<1>4. CASE DevReads
  <2>1. wired > 0 /\ wired' = wired - 1 /\ UNCHANGED link /\ toDev # <<>> /\ toDev' = Tail(toDev)
    BY <1>4 DEF DevReads, DevStep
  <2>2. Len(toDev') = Len(toDev) - 1
    BY <2>1, WireTail DEF Types
  <2>. QED
    BY <1>0, <2>1, <2>2 DEF WireTypes
<1>5. CASE DevLapse
  BY <1>5 DEF DevLapse, sessVars, WireTypes
<1>. QED
  BY <1>2, <1>3, <1>4, <1>5 DEF Acts

\* every step keeps it,
LEMMA ActsKept == DInv /\ Acts => DInv'
<1>. SUFFICES ASSUME DInv, Acts PROVE DInv'
  OBVIOUS
<1>1. Types /\ WireTypes /\ PlaceInv /\ BackoffInv /\ CallInv /\ FrameInv /\ PacketInv
  BY TypeParts DEF DInv, OInv
<1>2. Types'
  BY <1>1, TaskTypes, KaTypes, DeviceTypes DEF Acts
<1>3. PlaceInv' /\ BackoffInv' /\ CallInv'
  BY <1>1, PlaceKept, BackoffKept, CallsKept
<1>4. FrameInv'
  BY <1>1, <1>2, FramesKept
<1>5. PacketInv'
  BY <1>1, <1>2, TaskPackets, KaPackets, DevPackets DEF Acts
<1>6. TypeOK'
  BY <1>1, <1>2, WireKept, Zenon DEF TypeOK, Types, WireTypes
<1>. QED
  BY <1>3, <1>4, <1>5, <1>6 DEF DInv, OInv

\* Nothing but the state of the transport is changed.
Rests ==
  UNCHANGED <<closed, sess_closed, rx_started, rx_guard, applied_config, pc, op, arg, policy, left,
              delay_ms, nap, ops, result, req, ans, wakes, toDev, dev_cfg, dev_rx, lapses, aired,
              overlap, recovered>>

\* which keeps the invariant,
LEMMA RestKept == DInv /\ Rests /\ WireTypes' => DInv'
<1>. SUFFICES ASSUME DInv, Rests, WireTypes' PROVE DInv'
  OBVIOUS
<1>1. Rests /\ Types
  BY TypeParts DEF DInv, OInv
<1>2. Types' /\ CallInv'
  BY <1>1 DEF DInv, Rests, Types, CallInv
<1>3. PlaceInv'
  BY <1>1 DEF DInv, OInv, Rests, PlaceInv, KaPlace, PlaceAt
<1>4. BackoffInv'
  BY <1>1 DEF DInv, OInv, Rests, BackoffInv, BackoffAt, Retrying, FloorFits, FloorAt
<1>5. FrameInv'
  BY <1>1 DEF DInv, Rests, FrameInv, OnWire, FrameOk, Waits, Awaited
<1>6. PacketInv'
  BY <1>1 DEF DInv, Rests, PacketInv, WireInv, AirInv, PacketAt, Fresh, Confirmed, Carried, OnWire
<1>7. TypeOK'
  BY <1>2, Zenon DEF TypeOK, Types, WireTypes
<1>. QED
  BY <1>2, <1>3, <1>4, <1>5, <1>6, <1>7 DEF DInv, OInv

\* is all that a step of the transport does,
LEMMA LinkKept == DInv /\ (WriteStep \/ LinkDown) => DInv'
<1>. SUFFICES ASSUME DInv, WriteStep \/ LinkDown PROVE DInv'
  OBVIOUS
<1>1. Rests
  BY DEF WriteStep, LinkDown, Rests, opVars, retryVars, stVars, sessVars, histVars, endVars
<1>2. Len(toDev) \in Nat /\ WireTypes
  BY TypeParts DEF DInv, OInv, Types
<1>3. link' \in BOOLEAN
  BY <1>2 DEF WriteStep, LinkDown, WireTypes
<1>4. wired' \in 0 .. Len(toDev)
  BY <1>2 DEF WriteStep, LinkDown, WireTypes
<1>5. WireTypes'
  BY <1>1, <1>3, <1>4 DEF Rests, WireTypes
<1>. QED
  BY <1>1, <1>5, RestKept

\* and no step at all.
LEMMA DNext == DInv /\ [Next]_vars => DInv'
<1>1. DInv /\ UNCHANGED vars => DInv'
  <2>. SUFFICES ASSUME DInv, UNCHANGED vars PROVE DInv'
    OBVIOUS
  <2>1. Rests /\ UNCHANGED <<wired, link>>
    BY DEF vars, Rests, opVars, retryVars, stVars, sessVars, histVars, endVars, devVars
  <2>2. WireTypes
    BY TypeParts DEF DInv, OInv
  <2>. QED
    BY <2>1, <2>2, RestKept DEF WireTypes, Rests
<1>2. DInv /\ Next => DInv'
  BY StepKinds, ActsKept, LinkKept, TypeParts DEF DInv, OInv
<1>. QED
  BY <1>1, <1>2

\* Dongle: the inductive invariant holds, whatever the number of tasks and calls.
THEOREM DongleInvariant == Spec => []DInv
BY DInit, DNext, PTL DEF Spec

\* Dongle: every variable keeps its type; no frame without a command the device
\* knows is sent, and no backoff is computed from a policy that is not there.
THEOREM DongleTypes == Spec => []TypeOK
<1>1. DInv => TypeOK
  BY DEF DInv, OInv
<1>. QED
  BY <1>1, DongleInvariant, PTL

\* tx, tx_with_retry and the recovery: the packet of one call is on the air at most
\* once, with any number of calls, timeouts, late answers and lapses.
THEOREM PacketsAiredOnce == Spec => []AiredOnce
<1>1. DInv => AiredOnce
  <2>. SUFFICES ASSUME DInv, NEW t \in Tasks, NEW c \in 1 .. MaxOps PROVE aired[<<t, c>>] <= 1
    BY DEF AiredOnce
  <2>. QED
    BY DEF DInv, PacketInv, AirInv
<1>. QED
  BY <1>1, DongleInvariant, PTL

\* tx and tx_with_retry: when they return Ok the packet was on the air, also when the
\* device's answer to an earlier command of the task comes late.
THEOREM OkIsAired == Spec => []OkMeansAired
<1>1. DInv => OkMeansAired
  BY DEF DInv, PacketInv, PacketAt, Confirmed, TxOps, OkMeansAired
<1>. QED
  BY <1>1, DongleInvariant, PTL

\* tx_with_retry: every backoff but the first is within the cap and the jitter, whatever the
\* policy and however an f32 rounds; and where it does not round, none falls below the first
\* floor or the cap.
THEOREM BackoffIsBounded == Spec => []BackoffBounded
<1>1. DInv => BackoffBounded
  <2>. SUFFICES ASSUME DInv, NEW t \in Tasks, pc[t] = "sleep"
                PROVE  LET p     == policy[t]
                           first == left[t] = p.max_attempts - 1
                       IN /\ nap[t] <= spread(p) + IF first THEN p.backoff_ms_min ELSE p.backoff_cap_ms
                          /\ p.mul >= 2 /\ Exact(p) => nap[t] >= p.backoff_ms_min \/ nap[t] >= p.backoff_cap_ms
    BY DEF BackoffBounded
  <2>. DEFINE p == policy[t]
              d == delay_ms[t]
  <2>1. Types /\ PlaceAt(t) /\ BackoffAt(t)
    BY TypeParts DEF DInv, OInv, PlaceInv, BackoffInv
  <2>2. Retrying(t)
    BY <2>1 DEF PlaceAt, Retrying
  <2>3. /\ p \in Policies /\ left[t] <= p.max_attempts /\ p.max_attempts - left[t] >= 1
        /\ FloorFits(t) /\ FloorAt(t, p.max_attempts - left[t])
        /\ nap[t] >= d /\ nap[t] <= d + spread(p)
    BY <2>1, <2>2 DEF BackoffAt
  <2>4. /\ left[t] \in Nat /\ d \in Nat /\ nap[t] \in Nat
    BY <2>1 DEF Types
  <2>5. /\ p.max_attempts \in Nat /\ p.backoff_ms_min \in Nat /\ p.backoff_cap_ms \in Nat /\ spread(p) \in Nat
    BY <2>3, PolicyParts
  <2>6. IF p.max_attempts - left[t] = 1 THEN d = p.backoff_ms_min ELSE d <= p.backoff_cap_ms
    BY <2>3 DEF FloorAt
  <2>7. p.mul >= 2 /\ Exact(p) => d >= p.backoff_ms_min \/ d >= p.backoff_cap_ms
    BY <2>3 DEF FloorFits
  <2>8. left[t] = p.max_attempts - 1 <=> p.max_attempts - left[t] = 1
    BY <2>4, <2>5
  <2>. HIDE DEF p, d
  <2>9. /\ nap[t] <= spread(p) + IF left[t] = p.max_attempts - 1 THEN p.backoff_ms_min ELSE p.backoff_cap_ms
        /\ p.mul >= 2 /\ Exact(p) => nap[t] >= p.backoff_ms_min \/ nap[t] >= p.backoff_cap_ms
    BY <2>3, <2>4, <2>5, <2>6, <2>7, <2>8
  <2>. QED
    BY <2>9 DEF p
<1>. QED
  BY <1>1, DongleInvariant, PTL

=============================================================================
