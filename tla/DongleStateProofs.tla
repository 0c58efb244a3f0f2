-------------------------- MODULE DongleStateProofs --------------------------
(****************************************************************************)
(* Proofs about the two caches of Dongle, rx_started and applied_config,    *)
(* for every set of tasks and configurations and any number of calls, until *)
(* the Dongle is closed and as long as no session call times out and the    *)
(* link holds: a call that is given up does not know what the device did.   *)
(****************************************************************************)
EXTENDS DongleProofs

Undisturbed == "timeout" \notin Env /\ "link" \notin Env

(****************************************************************************)
(* The inductive invariant                                                  *)
(****************************************************************************)

OpenInv == ~closed /\ ~sess_closed /\ link /\ \A t \in Tasks : pc[t] # "close"

\* Every frame has its caller waiting for it, and every caller has one.
InFlight(f) ==
  /\ Waits(f.who) /\ f.n = req[f.who]
  /\ f.cmd = "SET_CONFIG" => Configuring(f.who)
  /\ f.who = Ka => f.cmd \in {"PING", "SET_CONFIG"}
  /\ pc[f.who] = "reapplied" => f.cfg = arg[f.who]

FlightInv ==
  /\ \A f \in Frames : OnWire(f) => InFlight(f)
  /\ \A i, j \in 1 .. Len(toDev) : i # j => toDev[i].who # toDev[j].who

\* The recovery has sent SET_CONFIG.
RecoveredInv ==
  \A a \in Actors : pc[a] \in {"reapplied", "again", "again_wait", "rx_set"} => recovered

\* rx_started is going to be cleared: the device has answered.
Clears(t) ==
  /\ op[t] \in {"rx_stop", "set_config"}
  /\ pc[t] = "clear" \/ (pc[t] = "wait" /\ ans[t].kind = "Ok")

\* rx_started is set or going to be set.
RxClaimed == rx_started \/ \E t \in Tasks : pc[t] = "rx_wait" /\ ans[t].kind = "Ok"

RxInv ==
  /\ \A t \in Tasks : pc[t] = "rx_wait" => rx_guard = t
  /\ RxClaimed => dev_rx \/ dev_cfg = Nil \/ recovered \/ \E t \in Tasks : Clears(t)

\* The answer to a SET_CONFIG is going to be stored.
Stores(t) == Configuring(t) /\ pc[t] # "resend" /\ ans[t].kind = "Ok"

\* One actor configures the device at a time,
Alone == \A a, b \in Actors : Configuring(a) /\ Configuring(b) => a = b

\* a recovery sends what is still cached,
Copied == \A a \in Actors : pc[a] \in {"resend", "reapplied"} => arg[a] = applied_config /\ applied_config # Nil

\* and the configuration in force is cached or about to be.
InForce ==
  dev_cfg # Nil =>
    /\ applied_config \in {Nil, dev_cfg} \/ \E t \in Tasks : Stores(t)
    /\ \A t \in Tasks : Stores(t) => ans[t].cfg = dev_cfg

ConfigInv == ~overlap => Alone /\ Copied /\ InForce

EInv == OpenInv /\ FlightInv /\ RecoveredInv /\ RxInv /\ ConfigInv

(****************************************************************************)
(* What a step does                                                         *)
(****************************************************************************)

\* Only close closes the Dongle, and the link holds.
LEMMA OpenKept ==
  ASSUME Undisturbed, ~closed', Types, PlaceInv, OpenInv, Acts
  PROVE  OpenInv'
<1>1. ASSUME NEW t \in Tasks, Begin(t) \/ CloseBegin(t) \/ OpStep(t) PROVE OpenInv'
  <2>0. t \in Actors /\ pc \in [Actors -> Labels] /\ pc[t] # "close"
    BY DEF Actors, Types, OpenInv
  <2>1. ~CloseBegin(t) /\ ~CloseRest(t)
    BY <2>0 DEF CloseBegin, CloseRest
  <2>2. sess_closed' = sess_closed
    BY <1>1, <2>1 DEF Begin, OpStep, FirstSend, NoAttempt, TxDone, RetryDone, BackoffOver, RxLock, RxStarted,
      Reapply, Resend, Reapplied, Again, AgainDone, RxSet, StopDone, ConfigDone, ClearRx, PingDone,
      RecvRead, RecvOpen, GiveUp, LinkFails, endVars
  <2>3. pc'[t] # "close"
    BY <1>1, <2>0, <2>1 DEF Begin, OpStep, FirstSend, NoAttempt, TxDone, RetryDone, BackoffOver, RxLock, RxStarted,
      Reapply, Resend, Reapplied, Again, AgainDone, RxSet, StopDone, ConfigDone, ClearRx, PingDone,
      RecvRead, RecvOpen, GiveUp, LinkFails, Return, Goto, Entry
  <2>4. \A b \in Tasks : b # t => pc'[b] = pc[b]
    BY <1>1, OthersKept DEF SameTask
  <2>5. link' = link
    BY <1>1, TaskShape DEF devVars
  <2>. QED
    BY <2>2, <2>3, <2>4, <2>5 DEF OpenInv
<1>2. CASE KaStep \/ DevReads \/ DevLapse
  <2>1. \A b \in Tasks : pc'[b] = pc[b]
    BY <1>2, TasksKept DEF SameTask
  <2>2. UNCHANGED <<sess_closed, link>>
    BY <1>2 DEF KaStep, KaWake, KaPinged, KaReapply, Resend, KaReapplied, GiveUp, LinkFails,
      DevReads, DevStep, DevLapse, endVars, devVars
  <2>. QED
    BY <2>1, <2>2 DEF OpenInv
<1>. QED
  BY <1>1, <1>2 DEF Acts

\* Nobody else notices a step of a task, unless it closes the Dongle.
LEMMA OthersSame ==
  ASSUME Types, OpenInv, NEW t \in Tasks, Begin(t) \/ CloseBegin(t) \/ OpStep(t),
         NEW a \in Actors, a # t
  PROVE  /\ pc'[a] = pc[a] /\ arg'[a] = arg[a] /\ req'[a] = req[a] /\ ans'[a] = ans[a]
         /\ a \in Tasks => op'[a] = op[a]
<1>0. pc[t] # "close"
  BY DEF OpenInv
<1>1. pc' = pc \/ \E l : pc' = [pc EXCEPT ![t] = l]
  BY <1>0, TaskShape, Zenon
<1>2. ans' = ans \/ \E r : ans' = [ans EXCEPT ![t] = r]
  BY <1>0, TaskShape, Zenon
<1>3. arg' = arg \/ \E m : arg' = [arg EXCEPT ![t] = m]
  BY TaskShape, Zenon
<1>4. req' = req \/ \E n : req' = [req EXCEPT ![t] = n]
  BY TaskShape, Zenon
<1>5. op' = op \/ \E o : op' = [op EXCEPT ![t] = o]
  BY TaskShape, Zenon
<1>. QED
  BY <1>1, <1>2, <1>3, <1>4, <1>5 DEF Types

\* An open session takes the call.
LEMMA OpenSend ==
  ASSUME Types, OpenInv, NEW a \in Actors, NEW k, NEW m, Send(a, k, m)
  PROVE  /\ overlap' = (IF k = "SET_CONFIG" THEN Overlaps(a) ELSE overlap)
         /\ recovered' = (recovered \/ pc[a] = "resend")
         /\ req' = [req EXCEPT ![a] = @ + 1] /\ ans' = [ans EXCEPT ![a] = Answer("waiting")]
         /\ ans'[a].kind = "waiting" /\ toDev' = Append(toDev, NewFrame(a, k, m))
<1>1. /\ overlap' = (IF k = "SET_CONFIG" THEN Overlaps(a) ELSE overlap)
      /\ recovered' = (recovered \/ pc[a] = "resend")
      /\ req' = [req EXCEPT ![a] = @ + 1] /\ ans' = [ans EXCEPT ![a] = Answer("waiting")]
      /\ toDev' = Append(toDev, NewFrame(a, k, m))
  BY Zenon DEF OpenInv, Send, NewFrame
<1>2. ans'[a].kind = "waiting"
  BY <1>1 DEF Types, Answer
<1>. QED
  BY <1>1, <1>2

\* A task that waits takes no step, and one that has taken a step waits only for
\* what it has just sent.
LEMMA TaskWaits ==
  ASSUME Undisturbed, ~closed', Types, PlaceInv, OpenInv, NEW t \in Tasks, Begin(t) \/ CloseBegin(t) \/ OpStep(t)
  PROVE  /\ ~Waits(t) /\ ~GiveUp(t) /\ ~LinkFails(t) /\ ~CloseBegin(t) /\ ~CloseRest(t)
         /\ pc'[t] \in {"wait", "rx_wait", "reapplied", "again_wait"} => ans'[t].kind = "waiting"
<1>0. t \in Actors /\ t # Ka /\ pc \in [Actors -> Labels] /\ pc[t] # "close"
  BY TasksAssumption DEF Actors, Types, OpenInv
<1>1. ~GiveUp(t) /\ ~LinkFails(t) /\ ~CloseBegin(t) /\ ~CloseRest(t)
  BY <1>0 DEF Undisturbed, OpenInv, GiveUp, LinkFails, CloseBegin, CloseRest
<1>2. ~Waits(t)
  BY <1>1 DEF Begin, OpStep, FirstSend, NoAttempt, TxDone, RetryDone, BackoffOver, RxLock, RxStarted,
    Reapply, Resend, Reapplied, Again, AgainDone, RxSet, StopDone, ConfigDone, ClearRx, PingDone,
    RecvRead, RecvOpen, Waits, At
<1>3. CASE FirstSend(t) \/ Resend(t) \/ Again(t) \/ (RxLock(t) /\ ~rx_started)
  BY <1>0, <1>1, <1>2, <1>3, OpenSend DEF FirstSend, Resend, Again, RxLock
<1>4. CASE ~(FirstSend(t) \/ Resend(t) \/ Again(t) \/ (RxLock(t) /\ ~rx_started))
  <2>1. pc'[t] \notin {"wait", "rx_wait", "reapplied", "again_wait"}
    BY <1>0, <1>1, <1>4 DEF Begin, OpStep, NoAttempt, TxDone, RetryDone, BackoffOver, RxLock, RxStarted,
      Reapply, Reapplied, AgainDone, RxSet, StopDone, ConfigDone, ClearRx, PingDone,
      RecvRead, RecvOpen, Return, Goto, Entry
  <2>. QED
    BY <1>1, <1>2, <2>1
<1>. QED
  BY <1>3, <1>4

(****************************************************************************)
(* Every frame has its caller                                               *)
(****************************************************************************)

\* A frame joins those on the wire, as the only one of its sender.
LEMMA FlightGrows ==
  ASSUME Types, FlightInv, NEW x \in Frames, toDev' = Append(toDev, x), InFlight(x)',
         \A f \in Frames : OnWire(f) => f.who # x.who /\ InFlight(f)'
  PROVE  FlightInv'
<1>1. /\ Len(toDev') = Len(toDev) + 1 /\ toDev'[Len(toDev) + 1] = x /\ Len(toDev) \in Nat
      /\ \A i \in 1 .. Len(toDev) : toDev'[i] = toDev[i]
      /\ \A f : OnWire(f)' <=> OnWire(f) \/ f = x
  BY WireAppended
<1>2. \A i \in 1 .. Len(toDev) : toDev[i] \in Frames /\ OnWire(toDev[i])
  BY DEF Types, OnWire
<1>3. ASSUME NEW i \in 1 .. Len(toDev'), NEW j \in 1 .. Len(toDev'), i # j
      PROVE  toDev'[i].who # toDev'[j].who
  <2>1. i \in 1 .. Len(toDev) \/ i = Len(toDev) + 1
    BY <1>1, SeqRange
  <2>2. j \in 1 .. Len(toDev) \/ j = Len(toDev) + 1
    BY <1>1, SeqRange
  <2>. QED
    BY <1>1, <1>2, <1>3, <2>1, <2>2 DEF FlightInv
<1>4. \A f \in Frames : OnWire(f)' => InFlight(f)'
  BY <1>1
<1>. QED
  BY <1>3, <1>4 DEF FlightInv

\* A task sends when it has nothing on the wire, and then waits for it.
LEMMA TaskFlight ==
  ASSUME Undisturbed, ~closed', Types, Types', PlaceInv, OpenInv, FlightInv,
         NEW t \in Tasks, Begin(t) \/ CloseBegin(t) \/ OpStep(t)
  PROVE  FlightInv'
<1>0. t \in Actors /\ t # Ka /\ req \in [Actors -> Nat] /\ ~Waits(t)
  BY TasksAssumption, TaskWaits DEF Actors, Types
\* The older frames are not of t.
<1>1. ASSUME NEW f \in Frames, OnWire(f) PROVE f.who # t /\ InFlight(f)'
  <2>1. InFlight(f) /\ f.who # t /\ f.who \in Actors
    BY <1>0, <1>1 DEF FlightInv, InFlight, Frames
  <2>2. /\ pc'[f.who] = pc[f.who] /\ arg'[f.who] = arg[f.who] /\ req'[f.who] = req[f.who]
        /\ ans'[f.who] = ans[f.who] /\ (f.who \in Tasks => op'[f.who] = op[f.who])
    BY <2>1, OthersSame
  <2>3. f.who # Ka => f.who \in Tasks
    BY <2>1 DEF Actors
  <2>. QED
    BY <2>1, <2>2, <2>3 DEF InFlight, Waits, Configuring
<1>2. CASE UNCHANGED toDev
  <2>1. \A f \in Frames : OnWire(f)' => OnWire(f)
    BY <1>2 DEF OnWire
  <2>. QED
    BY <1>1, <1>2, <2>1 DEF FlightInv
<1>3. ASSUME NEW m, Sent(t, m) PROVE FlightInv'
  <2>1. PICK x \in Frames : /\ x.who = t /\ x.n = req[t] + 1 /\ x.cmd = Awaited(t)' /\ x.cfg = m
                            /\ toDev' = Append(toDev, x)
    <3>. DEFINE y == NewFrame(t, Awaited(t)', m)
    <3>1. y \in Frames /\ y.who = t /\ y.n = req[t] + 1 /\ y.cmd = Awaited(t)' /\ y.cfg = m
      BY <1>3, SentFrame DEF NewFrame
    <3>2. toDev' = Append(toDev, y)
      BY <1>3 DEF Sent
    <3>. HIDE DEF y
    <3>. QED
      BY <3>1, <3>2
  <2>2. /\ req' = [req EXCEPT ![t] = @ + 1] /\ ans'[t].kind = "waiting"
        /\ pc[t] = "resend" => m = arg[t] /\ UNCHANGED arg
        /\ op' = op /\ pc[t] \in {"send", "rx_lock", "resend", "again"}
        /\ pc[t] = "send" => pc'[t] = "wait"
        /\ pc[t] = "rx_lock" => pc'[t] = "rx_wait"
        /\ pc[t] = "resend" => pc'[t] = "reapplied"
        /\ pc[t] = "again" => pc'[t] = "again_wait"
    BY <1>3 DEF Sent
  <2>3. InFlight(x)'
    <3>1. Waits(t)'
      BY <2>2 DEF Waits
    <3>2. x.n = req'[t]
      BY <1>0, <2>1, <2>2
    <3>3. Awaited(t)' = IF pc'[t] = "reapplied" THEN "SET_CONFIG" ELSE Command(op[t])
      BY <2>2 DEF Awaited
    <3>4. x.cmd = "SET_CONFIG" => Configuring(t)'
      BY <1>0, <2>1, <2>2, <3>3 DEF PlaceInv, PlaceAt, Command, Configuring, TxOps, Recovery
    <3>5. pc'[t] = "reapplied" => x.cfg = arg'[t]
      BY <2>1, <2>2
    <3>. QED
      BY <1>0, <2>1, <3>1, <3>2, <3>4, <3>5 DEF InFlight
  <2>. QED
    BY <1>1, <2>1, <2>3, FlightGrows DEF FlightInv
<1>. QED
  BY <1>2, <1>3, TaskSent

\* The keepalive task: a step that sends, and one that does not.
LEMMA KaSteps ==
  ASSUME Undisturbed, Types, PlaceInv, OpenInv, KaStep
  PROVE  /\ ~Waits(Ka) /\ ~GiveUp(Ka) /\ ~LinkFails(Ka) /\ UNCHANGED stVars
         /\ \/ UNCHANGED <<req, toDev, recovered>> /\ pc'[Ka] \notin {"wait", "reapplied"}
            \/ /\ KaWake /\ Send(Ka, "PING", Nil) /\ pc'[Ka] = "wait"
            \/ /\ Resend(Ka) /\ Send(Ka, "SET_CONFIG", arg[Ka]) /\ pc'[Ka] = "reapplied" /\ UNCHANGED arg
<1>0. Ka \in Actors /\ pc \in [Actors -> Labels]
  BY DEF Actors, Types
<1>1. ~GiveUp(Ka) /\ ~LinkFails(Ka)
  BY DEF Undisturbed, OpenInv, GiveUp, LinkFails
<1>2. ~Waits(Ka)
  BY <1>1 DEF KaStep, KaWake, KaPinged, KaReapply, Resend, KaReapplied, Waits, At
<1>3. UNCHANGED stVars
  BY <1>1 DEF KaStep, KaWake, KaPinged, KaReapply, Resend, KaReapplied
<1>4. CASE KaWake
  BY <1>0, <1>1, <1>2, <1>3, <1>4 DEF KaWake, Goto, OpenInv
<1>5. CASE Resend(Ka)
  BY <1>0, <1>1, <1>2, <1>3, <1>5 DEF Resend, Goto, opVars
<1>6. CASE KaPinged \/ KaReapply \/ KaReapplied
  <2>1. UNCHANGED <<req, toDev, recovered>>
    BY <1>6 DEF KaPinged, KaReapply, KaReapplied, Forget, histVars
  <2>2. pc'[Ka] \notin {"wait", "reapplied"}
    BY <1>0, <1>6 DEF KaPinged, KaReapply, KaReapplied, Goto
  <2>. QED
    BY <1>1, <1>2, <1>3, <2>1, <2>2
<1>. QED
  BY <1>1, <1>4, <1>5, <1>6 DEF KaStep

\* So does the keepalive.
LEMMA KaFlight ==
  ASSUME Undisturbed, Types, PlaceInv, OpenInv, FlightInv, KaStep
  PROVE  FlightInv'
<1>0. Ka \in Actors /\ req \in [Actors -> Nat] /\ ~Waits(Ka)
  BY KaSteps DEF Actors, Types
<1>1. ASSUME NEW f \in Frames, OnWire(f) PROVE f.who # Ka /\ InFlight(f)'
  <2>1. InFlight(f) /\ f.who # Ka /\ f.who \in Tasks
    BY <1>0, <1>1 DEF FlightInv, InFlight, Frames, Actors
  <2>2. SameTask(f.who) /\ ans'[f.who] = ans[f.who]
    BY <2>1, TasksKept
  <2>. QED
    BY <2>1, <2>2 DEF InFlight, Waits, Configuring, SameTask
<1>2. CASE UNCHANGED toDev
  <2>1. \A f \in Frames : OnWire(f)' => OnWire(f)
    BY <1>2 DEF OnWire
  <2>. QED
    BY <1>1, <1>2, <2>1 DEF FlightInv
<1>3. ASSUME NEW k, NEW m, Send(Ka, k, m), Sendable(k, m),
             \/ k = "PING" /\ pc'[Ka] = "wait"
             \/ k = "SET_CONFIG" /\ m = arg'[Ka] /\ pc'[Ka] = "reapplied"
      PROVE  FlightInv'
  <2>. DEFINE y == NewFrame(Ka, k, m)
  <2>1. /\ req' = [req EXCEPT ![Ka] = @ + 1] /\ ans'[Ka].kind = "waiting"
        /\ toDev' = Append(toDev, y)
    BY <1>0, <1>3, OpenSend
  <2>2. req[Ka] + 1 \in Nat /\ req'[Ka] = req[Ka] + 1
    BY <1>0, <2>1
  <2>3. y \in Frames /\ y.who = Ka /\ y.n = req'[Ka] /\ y.cmd = k /\ y.cfg = m
    BY <1>0, <1>3, <2>2 DEF NewFrame, Frames, Sendable
  <2>. HIDE DEF y
  <2>4. PICK x \in Frames : x = y
    BY <2>3
  <2>5. Waits(Ka)'
    BY <1>3, <2>1 DEF Waits
  <2>6. InFlight(x)'
    BY <1>3, <2>3, <2>4, <2>5 DEF InFlight, Configuring
  <2>. QED
    BY <1>1, <2>1, <2>3, <2>4, <2>6, FlightGrows
<1>4. CASE KaWake /\ Send(Ka, "PING", Nil) /\ pc'[Ka] = "wait"
  <2>1. Sendable("PING", Nil)
    BY DEF Sendable
  <2>. QED
    BY <1>3, <1>4, <2>1
<1>5. CASE Resend(Ka) /\ Send(Ka, "SET_CONFIG", arg[Ka]) /\ pc'[Ka] = "reapplied" /\ UNCHANGED arg
  <2>1. Sendable("SET_CONFIG", arg[Ka]) /\ arg[Ka] = arg'[Ka]
    BY <1>5 DEF Sendable, Resend, PlaceInv, KaPlace
  <2>. QED
    BY <1>3, <1>5, <2>1
<1>. QED
  BY <1>2, <1>4, <1>5, KaSteps

\* The device's answer: to the caller of the first frame, and to nobody else.
LEMMA DevAnswers ==
  ASSUME Undisturbed, Types, OpenInv, FlightInv, DevReads
  PROVE  LET f == Head(toDev) IN
         /\ f \in Frames /\ OnWire(f) /\ InFlight(f) /\ f.who \in Actors
         /\ \E k \in {"Ok", "NotConfigured", "Busy", "Err"} :
              Execute(f, k) /\ ans' = [ans EXCEPT ![f.who] = [kind |-> k, cfg |-> dev_cfg']]
         /\ \A g \in Frames : OnWire(g)' => OnWire(g) /\ g.who # f.who
         /\ \A a \in Actors : a # f.who => ans'[a] = ans[a]
         /\ UNCHANGED <<opVars, stVars, req, histVars, pc>>
<1>. DEFINE f == Head(toDev)
<1>1. /\ OnWire(f) /\ f = toDev[1] /\ f \in Frames /\ 1 \in 1 .. Len(toDev) /\ Len(toDev) \in Nat
      /\ Len(toDev') = Len(toDev) - 1
      /\ \A i \in 1 .. Len(toDev') : toDev'[i] = toDev[i + 1] /\ i + 1 \in 1 .. Len(toDev)
      /\ \A g : OnWire(g)' => OnWire(g)
  BY WireDropped
<1>2. /\ UNCHANGED <<opVars, stVars, req, histVars, endVars, lapses, pc>>
      /\ \E k \in {"Ok", "NotConfigured", "Busy", "Err"} :
           /\ Execute(f, k)
           /\ \/ Reaches(f) /\ ans' = [ans EXCEPT ![f.who] = [kind |-> k, cfg |-> dev_cfg']]
              \/ ans' = ans /\ (Reaches(f) => "timeout" \in Env)
  BY DevStepParts
<1>. HIDE DEF f
<1>3. InFlight(f) /\ f.who \in Actors
  BY <1>1 DEF FlightInv, Frames
<1>4. Reaches(f)
  BY <1>3 DEF OpenInv, InFlight, Reaches
<1>5. PICK k \in {"Ok", "NotConfigured", "Busy", "Err"} :
        Execute(f, k) /\ ans' = [ans EXCEPT ![f.who] = [kind |-> k, cfg |-> dev_cfg']]
  BY <1>2, <1>4 DEF Undisturbed
<1>6. \A a \in Actors : a # f.who => ans'[a] = ans[a]
  BY <1>5 DEF Types
<1>7. ASSUME NEW g \in Frames, OnWire(g)' PROVE g.who # f.who
  <2>1. PICK i \in 1 .. Len(toDev') : toDev'[i] = g
    BY <1>7 DEF OnWire
  <2>2. toDev[i + 1] = g /\ i + 1 \in 1 .. Len(toDev) /\ i + 1 # 1
    BY <1>1, <2>1
  <2>. QED
    BY <1>1, <2>2 DEF FlightInv
<1>. QED
  BY <1>1, <1>2, <1>3, <1>5, <1>6, <1>7 DEF f

\* The device reads a frame, and its caller has his answer.
LEMMA DevFlight ==
  ASSUME Undisturbed, Types, OpenInv, FlightInv, DevReads \/ DevLapse
  PROVE  FlightInv'
<1>1. CASE DevLapse
  BY <1>1 DEF DevLapse, FlightInv, InFlight, OnWire, Waits, Configuring, sessVars, opVars
<1>2. CASE DevReads
  <2>. DEFINE f == Head(toDev)
  <2>1. /\ \A g \in Frames : OnWire(g)' => OnWire(g) /\ g.who # f.who
        /\ \A a \in Actors : a # f.who => ans'[a] = ans[a]
        /\ UNCHANGED <<op, arg, req, pc>>
    BY <1>2, DevAnswers DEF opVars
  <2>. HIDE DEF f
  <2>2. ASSUME NEW g \in Frames, OnWire(g)' PROVE InFlight(g)'
    <3>1. InFlight(g) /\ ans'[g.who] = ans[g.who]
      BY <2>1, <2>2 DEF FlightInv, Frames
    <3>. QED
      BY <2>1, <3>1 DEF InFlight, Waits, Configuring
  <2>3. ASSUME NEW i \in 1 .. Len(toDev'), NEW j \in 1 .. Len(toDev'), i # j
        PROVE  toDev'[i].who # toDev'[j].who
    <3>1. \A n \in 1 .. Len(toDev') : toDev'[n] = toDev[n + 1] /\ n + 1 \in 1 .. Len(toDev)
      BY <1>2, WireDropped
    <3>2. i + 1 # j + 1
      BY <2>3
    <3>. QED
      BY <3>1, <3>2 DEF FlightInv
  <2>. QED
    BY <2>2, <2>3 DEF FlightInv
<1>. QED
  BY <1>1, <1>2

(****************************************************************************)
(* rx_started                                                               *)
(****************************************************************************)

\* What a step of a task does to what RecoveredInv and RxInv speak about.
LEMMA TaskRx ==
  ASSUME Undisturbed, ~closed', Types, PlaceInv, OpenInv, NEW t \in Tasks, Begin(t) \/ CloseBegin(t) \/ OpStep(t)
  PROVE  /\ recovered => recovered'
         /\ pc'[t] \in {"reapplied", "again", "again_wait", "rx_set"} =>
              recovered' \/ pc[t] \in {"reapplied", "again", "again_wait", "rx_set"}
         /\ rx_started' => rx_started \/ pc[t] = "rx_set" \/ (pc[t] = "rx_wait" /\ ans[t].kind = "Ok")
         /\ Clears(t) => Clears(t)' \/ ClearRx(t)
         /\ pc'[t] = "rx_wait" => rx_guard' = t /\ rx_guard = Nil
         /\ rx_guard' = rx_guard \/ pc[t] = "rx_wait" \/ pc'[t] = "rx_wait"
<1>0. t \in Actors /\ t # Ka /\ pc \in [Actors -> Labels] /\ PlaceAt(t) /\ ~GiveUp(t) /\ ~LinkFails(t) /\ ~CloseBegin(t) /\ ~CloseRest(t)
  BY TasksAssumption, TaskWaits DEF Actors, Types, PlaceInv
<1>1. CASE FirstSend(t) \/ Resend(t) \/ Again(t) \/ (RxLock(t) /\ ~rx_started)
  <2>1. recovered' = (recovered \/ pc[t] = "resend")
    BY <1>0, <1>1, OpenSend DEF FirstSend, Resend, Again, RxLock
  <2>2. ~Clears(t)
    BY <1>1 DEF FirstSend, Resend, Again, RxLock, Clears
  <2>3. /\ rx_started' = rx_started
        /\ rx_guard' = rx_guard \/ (RxLock(t) /\ ~rx_started)
    BY <1>1 DEF FirstSend, Resend, Again, RxLock, stVars
  <2>4. /\ pc'[t] = "wait" \/ (pc[t] = "resend" /\ pc'[t] = "reapplied") \/ (pc[t] = "again" /\ pc'[t] = "again_wait")
           \/ (RxLock(t) /\ ~rx_started)
    BY <1>0, <1>1 DEF FirstSend, Resend, Again, Goto
  <2>5. RxLock(t) /\ ~rx_started => pc'[t] = "rx_wait" /\ rx_guard = Nil /\ rx_guard' = t
    BY <1>0 DEF RxLock, Goto
  <2>. QED
    BY <2>1, <2>2, <2>3, <2>4, <2>5
<1>2. CASE ~(FirstSend(t) \/ Resend(t) \/ Again(t) \/ (RxLock(t) /\ ~rx_started))
  <2>1. recovered' = recovered
    BY <1>0, <1>2 DEF Begin, OpStep, NoAttempt, TxDone, RetryDone, BackoffOver, RxLock, RxStarted,
      Reapply, Reapplied, AgainDone, RxSet, StopDone, ConfigDone, ClearRx, PingDone,
      RecvRead, RecvOpen, Forget, sessVars, histVars
  <2>2. pc'[t] \in {"reapplied", "again", "again_wait", "rx_set"} =>
              pc[t] \in {"reapplied", "again", "again_wait", "rx_set"}
    BY <1>0, <1>2 DEF Begin, OpStep, NoAttempt, TxDone, RetryDone, BackoffOver, RxLock, RxStarted,
      Reapply, Reapplied, AgainDone, RxSet, StopDone, ConfigDone, ClearRx, PingDone,
      RecvRead, RecvOpen, Return, Goto, Entry, At
  <2>3. rx_started' => rx_started \/ pc[t] = "rx_set" \/ (pc[t] = "rx_wait" /\ ans[t].kind = "Ok")
    BY <1>0, <1>2 DEF Begin, OpStep, NoAttempt, TxDone, RetryDone, BackoffOver, RxLock, RxStarted,
      Reapply, Reapplied, AgainDone, RxSet, StopDone, ConfigDone, ClearRx, PingDone,
      RecvRead, RecvOpen, At, stVars
  <2>4. Clears(t) => Clears(t)' \/ ClearRx(t)
    <3>. SUFFICES ASSUME Clears(t), ~ClearRx(t) PROVE Clears(t)'
      OBVIOUS
    <3>1. StopDone(t) \/ ConfigDone(t)
      BY <1>0, <1>2 DEF Clears, Begin, OpStep, NoAttempt, TxDone, RetryDone, BackoffOver, RxLock, RxStarted,
      Reapply, Reapplied, AgainDone, RxSet, PingDone, RecvRead, RecvOpen, At, ClearRx
    <3>2. op' = op /\ pc'[t] = "clear"
      BY <1>0, <3>1 DEF Clears, StopDone, ConfigDone, At, Goto
    <3>. QED
      BY <3>2 DEF Clears
  <2>5. pc'[t] # "rx_wait"
    BY <1>0, <1>2 DEF Begin, OpStep, NoAttempt, TxDone, RetryDone, BackoffOver, RxLock, RxStarted,
      Reapply, Reapplied, AgainDone, RxSet, StopDone, ConfigDone, ClearRx, PingDone,
      RecvRead, RecvOpen, Return, Goto, Entry, At
  <2>6. rx_guard' = rx_guard \/ pc[t] = "rx_wait"
    BY <1>0, <1>2 DEF Begin, OpStep, NoAttempt, TxDone, RetryDone, BackoffOver, RxLock, RxStarted,
      Reapply, Reapplied, AgainDone, RxSet, StopDone, ConfigDone, ClearRx, PingDone,
      RecvRead, RecvOpen, At, stVars
  <2>. QED
    BY <2>1, <2>2, <2>3, <2>4, <2>5, <2>6
<1>. QED
  BY <1>1, <1>2

\* A recovery is remembered from its SET_CONFIG on.
LEMMA RecoveredKept ==
  ASSUME Undisturbed, ~closed', Types, PlaceInv, OpenInv, FlightInv, RecoveredInv, Acts
  PROVE  RecoveredInv' /\ (recovered => recovered')
<1>1. ASSUME NEW t \in Tasks, Begin(t) \/ CloseBegin(t) \/ OpStep(t)
      PROVE  RecoveredInv' /\ (recovered => recovered')
  <2>1. ASSUME NEW a \in Actors, pc'[a] \in {"reapplied", "again", "again_wait", "rx_set"} PROVE recovered'
    <3>1. a # t => pc'[a] = pc[a]
      BY <1>1, <2>1, OthersSame
    <3>. QED
      BY <1>1, <2>1, <3>1, TaskRx DEF RecoveredInv
  <2>. QED
    BY <1>1, <2>1, TaskRx DEF RecoveredInv
<1>2. CASE KaStep
  <2>0. Ka \in Actors
    BY DEF Actors
  <2>1. (recovered => recovered') /\ (pc'[Ka] = "reapplied" => recovered')
    <3>1. CASE UNCHANGED recovered /\ pc'[Ka] \notin {"wait", "reapplied"}
      BY <3>1
    <3>2. ASSUME NEW k, NEW m, Send(Ka, k, m), pc'[Ka] = "reapplied" => pc[Ka] = "resend"
          PROVE  (recovered => recovered') /\ (pc'[Ka] = "reapplied" => recovered')
      <4>1. recovered' = (recovered \/ pc[Ka] = "resend")
        BY <2>0, <3>2, OpenSend
      <4>. QED
        BY <3>2, <4>1
    <3>3. CASE Send(Ka, "PING", Nil) /\ pc'[Ka] = "wait"
      BY <3>2, <3>3
    <3>4. CASE Resend(Ka) /\ Send(Ka, "SET_CONFIG", arg[Ka])
      BY <3>2, <3>4 DEF Resend
    <3>. QED
      BY <1>2, <3>1, <3>3, <3>4, KaSteps
  <2>2. pc'[Ka] \in {"idle", "wait", "reapply", "resend", "reapplied", "off"}
    BY <1>2, KaPlaced DEF KaPlace
  <2>3. \A b \in Tasks : pc'[b] = pc[b]
    BY <1>2, TasksKept DEF SameTask
  <2>. QED
    BY <2>1, <2>2, <2>3 DEF RecoveredInv, Actors
<1>3. CASE DevReads \/ DevLapse
  BY <1>3 DEF DevReads, DevStep, DevLapse, RecoveredInv, histVars, sessVars
<1>. QED
  BY <1>1, <1>2, <1>3 DEF Acts

\* Tasks set rx_started on an Ok to RX_START and clear it on one to RX_STOP or SET_CONFIG.
LEMMA TaskRxKept ==
  ASSUME Undisturbed, ~closed', Types, PlaceInv, OpenInv, RecoveredInv, RxInv,
         NEW t \in Tasks, Begin(t) \/ CloseBegin(t) \/ OpStep(t)
  PROVE  RxInv'
<1>0. t \in Actors /\ t # Nil /\ UNCHANGED <<dev_rx, dev_cfg>>
  BY TasksAssumption, TaskShape DEF Actors, devVars
<1>1. \A b \in Tasks : b # t => pc'[b] = pc[b] /\ ans'[b] = ans[b] /\ op'[b] = op[b]
  BY OthersSame DEF Actors
<1>2. ASSUME NEW b \in Tasks, pc'[b] = "rx_wait" PROVE rx_guard' = b
  <2>1. CASE b = t
    BY <1>2, <2>1, TaskRx
  <2>2. CASE b # t
    <3>1. rx_guard = b /\ b # Nil
      BY <1>1, <1>2, <2>2, TasksAssumption DEF RxInv
    <3>2. pc[t] # "rx_wait" /\ pc'[t] # "rx_wait"
      BY <2>2, <3>1, TaskRx DEF RxInv
    <3>. QED
      BY <3>1, <3>2, TaskRx
  <2>. QED
    BY <2>1, <2>2
<1>3. ASSUME RxClaimed' PROVE (dev_rx \/ dev_cfg = Nil \/ recovered \/ \E b \in Tasks : Clears(b))'
  <2>1. recovered => recovered'
    BY TaskRx
  <2>2. pc'[t] = "rx_wait" => ans'[t].kind # "Ok"
    BY TaskWaits
  <2>3. RxClaimed \/ recovered
    <3>1. CASE rx_started'
      BY <3>1, <1>0, TaskRx DEF RxClaimed, RecoveredInv
    <3>2. CASE \E b \in Tasks : pc'[b] = "rx_wait" /\ ans'[b].kind = "Ok"
      BY <3>2, <1>1, <2>2 DEF RxClaimed
    <3>. QED
      BY <1>3, <3>1, <3>2 DEF RxClaimed
  <2>4. CASE ClearRx(t)
    <3>1. rx_guard = Nil /\ rx_started' = FALSE
      BY <2>4 DEF ClearRx
    <3>2. \A b \in Tasks : pc[b] # "rx_wait"
      BY <3>1, TasksAssumption DEF RxInv
    <3>3. pc'[t] # "rx_wait"
      BY <1>0, <2>4 DEF ClearRx, Return, Goto, Types
    <3>. QED
      BY <1>1, <1>3, <3>1, <3>2, <3>3 DEF RxClaimed
  <2>5. CASE ~ClearRx(t)
    <3>1. \A b \in Tasks : Clears(b) => Clears(b)'
      <4>1. Clears(t) => Clears(t)'
        BY <2>5, TaskRx
      <4>2. \A b \in Tasks : b # t => (Clears(b) => Clears(b)')
        BY <1>1 DEF Clears
      <4>. QED
        BY <4>1, <4>2
    <3>. QED
      BY <1>0, <2>1, <2>3, <3>1 DEF RxInv
  <2>. QED
    BY <2>4, <2>5
<1>. QED
  BY <1>2, <1>3 DEF RxInv

\* The keepalive and a lapse leave rx_started to the exceptions of RxInv.
LEMMA KaRxKept ==
  ASSUME Undisturbed, ~closed', Types, PlaceInv, OpenInv, FlightInv, RecoveredInv, RxInv, KaStep \/ DevLapse
  PROVE  RxInv'
<1>1. recovered => recovered'
  BY RecoveredKept DEF Acts
<1>2. \A b \in Tasks : pc'[b] = pc[b] /\ ans'[b] = ans[b] /\ op'[b] = op[b]
  BY TasksKept DEF SameTask
<1>3. UNCHANGED <<rx_started, rx_guard>>
  BY KaSteps DEF stVars, DevLapse
<1>4. (UNCHANGED <<dev_rx, dev_cfg>>) \/ dev_cfg' = Nil
  BY KaShape DEF devVars, DevLapse
<1>5. RxClaimed' => RxClaimed
  BY <1>2, <1>3 DEF RxClaimed
<1>6. \A b \in Tasks : Clears(b) => Clears(b)'
  BY <1>2 DEF Clears
<1>7. \A b \in Tasks : pc'[b] = "rx_wait" => rx_guard' = b
  BY <1>2, <1>3 DEF RxInv
<1>8. RxClaimed' => (dev_rx \/ dev_cfg = Nil \/ recovered \/ \E t \in Tasks : Clears(t))'
  BY <1>1, <1>4, <1>5, <1>6 DEF RxInv
<1>. QED
  BY <1>7, <1>8 DEF RxInv

\* The device stops receiving only for somebody who is going to clear rx_started, or in a recovery.
LEMMA DevRxKept ==
  ASSUME Undisturbed, Types, PlaceInv, OpenInv, FrameInv, FlightInv, RecoveredInv, RxInv, DevReads
  PROVE  RxInv'
<1>0. PICK f \in Frames : f = Head(toDev)
  BY WireDropped
<1>1. /\ f \in Frames /\ OnWire(f) /\ InFlight(f) /\ f.who \in Actors
      /\ \E k \in {"Ok", "NotConfigured", "Busy", "Err"} :
           Execute(f, k) /\ ans' = [ans EXCEPT ![f.who] = [kind |-> k, cfg |-> dev_cfg']]
      /\ \A a \in Actors : a # f.who => ans'[a] = ans[a]
      /\ UNCHANGED <<opVars, stVars, req, histVars, pc>>
  BY <1>0, DevAnswers
<1>2. PICK k \in {"Ok", "NotConfigured", "Busy", "Err"} :
        Execute(f, k) /\ ans' = [ans EXCEPT ![f.who] = [kind |-> k, cfg |-> dev_cfg']]
  BY <1>1
<1>3. UNCHANGED <<op, pc, rx_started, rx_guard, recovered>>
  BY <1>1 DEF opVars, stVars, histVars
<1>4. FrameOk(f) /\ ans[f.who].kind = "waiting" /\ ans'[f.who].kind = k
      /\ pc[f.who] \in {"wait", "rx_wait", "reapplied", "again_wait"}
  BY <1>1, <1>2 DEF FrameInv, InFlight, Waits, Types
<1>5. f.who \in Tasks => f.cmd = Awaited(f.who)
  BY <1>1, <1>4 DEF FrameOk, InFlight
\* Nobody who was answered before loses that answer.
<1>6. \A b \in Tasks : Clears(b) => Clears(b)'
  <2>. SUFFICES ASSUME NEW b \in Tasks, Clears(b) PROVE Clears(b)'
    OBVIOUS
  <2>1. b # f.who \/ pc[b] = "clear"
    BY <1>4 DEF Clears
  <2>2. b # f.who
    BY <2>1, <1>4
  <2>3. ans'[b] = ans[b]
    BY <1>1, <2>2 DEF Actors
  <2>. QED
    BY <1>3, <2>3 DEF Clears
\* What the device does, and who is told.
<1>7. CASE ~(k = "Ok" /\ f.cmd \in {"RX_START", "RX_STOP", "SET_CONFIG"})
  <2>1. UNCHANGED <<dev_cfg, dev_rx>>
    BY <1>2, <1>7 DEF Execute
  <2>2. RxClaimed' => RxClaimed
    <3>1. ASSUME NEW b \in Tasks, pc[b] = "rx_wait", ans'[b].kind = "Ok" PROVE ans[b].kind = "Ok"
      <4>1. CASE b = f.who
        <5>1. f.cmd = "RX_START" /\ k = "Ok"
          BY <3>1, <4>1, <1>4, <1>5 DEF Awaited, Command, PlaceInv, PlaceAt
        <5>. QED
          BY <5>1, <1>7
      <4>2. CASE b # f.who
        BY <1>1, <3>1, <4>2 DEF Actors
      <4>. QED
        BY <4>1, <4>2
    <3>. QED
      BY <1>3, <3>1 DEF RxClaimed
  <2>. QED
    BY <1>3, <1>6, <2>1, <2>2 DEF RxInv
<1>8. CASE k = "Ok" /\ f.cmd = "RX_START"
  <2>1. dev_rx' = TRUE
    BY <1>2, <1>8 DEF Execute
  <2>. QED
    BY <1>3, <2>1 DEF RxInv
<1>9. CASE k = "Ok" /\ f.cmd = "RX_STOP"
  <2>1. f.who \in Tasks
    <3>1. f.who # Ka
      BY <1>1, <1>9 DEF InFlight
    <3>. QED
      BY <1>1, <3>1 DEF Actors
  <2>2. Clears(f.who)'
    BY <1>3, <1>4, <1>5, <1>9, <2>1 DEF Clears, Awaited, Command, PlaceInv, PlaceAt, Recovery, TxOps
  <2>. QED
    BY <1>3, <2>1, <2>2 DEF RxInv
<1>10. CASE k = "Ok" /\ f.cmd = "SET_CONFIG"
  <2>1. Configuring(f.who)
    BY <1>1, <1>10 DEF InFlight
  <2>2. CASE pc[f.who] = "reapplied"
    BY <1>1, <1>3, <2>2 DEF RecoveredInv, RxInv
  <2>3. CASE pc[f.who] # "reapplied"
    <3>1. f.who \in Tasks /\ pc[f.who] = "wait" /\ op[f.who] = "set_config"
      BY <1>1, <1>4, <2>1, <2>3 DEF Configuring, Actors
    <3>2. Clears(f.who)'
      BY <1>3, <1>4, <1>10, <3>1 DEF Clears
    <3>. QED
      BY <1>3, <3>1, <3>2 DEF RxInv
  <2>. QED
    BY <2>2, <2>3
<1>. QED
  BY <1>7, <1>8, <1>9, <1>10

(****************************************************************************)
(* applied_config                                                           *)
(****************************************************************************)

\* What a step of a task does to what ConfigInv speaks about.
LEMMA TaskConfig ==
  ASSUME Undisturbed, ~closed', Types, PlaceInv, OpenInv, NEW t \in Tasks, Begin(t) \/ CloseBegin(t) \/ OpStep(t)
  PROVE  /\ overlap => overlap'
         /\ Configuring(t)' => Configuring(t) \/ overlap' = Overlaps(t)
         /\ ~Stores(t)'
         /\ Stores(t) => applied_config' = ans[t].cfg
         /\ ~Stores(t) => applied_config' = applied_config
         /\ pc'[t] \in {"resend", "reapplied"} =>
              /\ applied_config' = applied_config
              /\ \/ arg'[t] = applied_config /\ applied_config # Nil
                 \/ pc[t] = "resend" /\ arg'[t] = arg[t]
<1>0. /\ t \in Actors /\ t # Ka /\ pc \in [Actors -> Labels] /\ arg \in [Actors -> Configs \cup {Nil}] /\ PlaceAt(t)
      /\ ~GiveUp(t) /\ ~LinkFails(t) /\ ~CloseBegin(t) /\ ~CloseRest(t) /\ ~Waits(t) /\ overlap \in BOOLEAN
  BY TasksAssumption, TaskWaits DEF Actors, Types, PlaceInv
<1>1. ~Stores(t)'
  <2>1. pc'[t] \in {"wait", "reapplied"} => ans'[t].kind = "waiting"
    BY TaskWaits
  <2>. QED
    BY <2>1 DEF Stores, Configuring
<1>2. CASE FirstSend(t) \/ Resend(t) \/ Again(t) \/ (RxLock(t) /\ ~rx_started)
  <2>1. /\ pc[t] \in {"send", "resend", "again", "rx_lock"} /\ UNCHANGED <<op, arg, applied_config>>
        /\ pc'[t] = "reapplied" => pc[t] = "resend"
        /\ pc'[t] # "resend"
        /\ pc'[t] = "wait" => FirstSend(t)
    BY <1>0, <1>2 DEF FirstSend, Resend, Again, RxLock, Goto, opVars, stVars
  <2>2. ~Stores(t)
    BY <2>1 DEF Stores, Configuring
  <2>3. \E k, m : Send(t, k, m) /\ (FirstSend(t) => k = Command(op[t]))
    BY <1>0, <1>2 DEF FirstSend, Resend, Again, RxLock
  <2>4. PICK k, m : Send(t, k, m) /\ (FirstSend(t) => k = Command(op[t]))
    BY <2>3
  <2>5. overlap' = (IF k = "SET_CONFIG" THEN Overlaps(t) ELSE overlap)
    BY <1>0, <2>4, OpenSend
  <2>6. overlap => overlap'
    BY <2>5 DEF Overlaps
  <2>7. Configuring(t)' => Configuring(t) \/ k = "SET_CONFIG"
    BY <1>0, <2>1, <2>4 DEF Configuring, Command
  <2>. QED
    BY <1>1, <2>1, <2>2, <2>5, <2>6, <2>7
<1>3. CASE Reapply(t)
  <2>1. ~Stores(t) /\ applied_config' = applied_config
    BY <1>3 DEF Reapply, Stores, Configuring, stVars
  <2>2. CASE applied_config = Nil
    <3>1. pc'[t] = "idle" /\ overlap' = overlap
      BY <1>0, <1>3, <2>2 DEF Reapply, Return, Goto
    <3>. QED
      BY <1>1, <2>1, <3>1 DEF Configuring
  <2>3. CASE applied_config # Nil
    <3>1. pc'[t] = "resend" /\ overlap' = Overlaps(t) /\ arg'[t] = applied_config
      BY <1>0, <1>3, <2>3 DEF Reapply, Goto
    <3>2. overlap => overlap'
      BY <3>1 DEF Overlaps
    <3>. QED
      BY <1>1, <2>1, <2>3, <3>1, <3>2
  <2>. QED
    BY <2>2, <2>3
<1>4. CASE ~(FirstSend(t) \/ Resend(t) \/ Again(t) \/ (RxLock(t) /\ ~rx_started)) /\ ~Reapply(t)
  <2>1. overlap' = overlap
    BY <1>0, <1>4 DEF Begin, OpStep, NoAttempt, TxDone, RetryDone, BackoffOver, RxLock, RxStarted,
      Reapplied, AgainDone, RxSet, StopDone, ConfigDone, ClearRx, PingDone,
      RecvRead, RecvOpen, Forget, sessVars, histVars
  <2>2. pc'[t] \notin {"resend", "reapplied", "wait"}
    BY <1>0, <1>4 DEF Begin, OpStep, NoAttempt, TxDone, RetryDone, BackoffOver, RxLock, RxStarted,
      Reapplied, AgainDone, RxSet, StopDone, ConfigDone, ClearRx, PingDone,
      RecvRead, RecvOpen, Return, Goto, Entry
  <2>3. Stores(t) => Reapplied(t) \/ ConfigDone(t)
    BY <1>0, <1>4 DEF Begin, OpStep, NoAttempt, TxDone, RetryDone, BackoffOver, RxLock, RxStarted,
      AgainDone, RxSet, StopDone, ClearRx, PingDone, RecvRead, RecvOpen, At, Stores, Configuring
  <2>4. Stores(t) => applied_config' = ans[t].cfg
    BY <2>3 DEF Reapplied, ConfigDone, CurrentConfig, Stores
  <2>5. ~Stores(t) => applied_config' = applied_config
    BY <1>0, <1>4 DEF Begin, OpStep, NoAttempt, TxDone, RetryDone, BackoffOver, RxLock, RxStarted,
      Reapplied, AgainDone, RxSet, StopDone, ConfigDone, ClearRx, PingDone, RecvRead, RecvOpen, At,
      Stores, Configuring, stVars
  <2>. QED
    BY <1>1, <2>1, <2>2, <2>4, <2>5 DEF Configuring
<1>. QED
  BY <1>2, <1>3, <1>4

\* A task that configures the device alone stores what the device answered.
LEMMA TaskConfigKept ==
  ASSUME Undisturbed, ~closed', Types, PlaceInv, OpenInv, ConfigInv,
         NEW t \in Tasks, Begin(t) \/ CloseBegin(t) \/ OpStep(t), ~overlap'
  PROVE  (Alone /\ Copied /\ InForce)'
<1>0. t \in Actors /\ t # Ka /\ dev_cfg' = dev_cfg /\ ~overlap /\ Alone /\ Copied /\ InForce
  BY TasksAssumption, TaskShape, TaskConfig DEF Actors, devVars, ConfigInv
<1>1. \A a \in Actors : a # t => /\ pc'[a] = pc[a] /\ arg'[a] = arg[a] /\ ans'[a] = ans[a]
                                 /\ a \in Tasks => op'[a] = op[a]
  BY OthersSame
<1>2. \A a \in Actors : a # t => (Configuring(a)' <=> Configuring(a))
  BY <1>1 DEF Configuring, Actors
<1>3. \A b \in Tasks : b # t => (Stores(b)' <=> Stores(b))
  BY <1>1, <1>2 DEF Stores, Actors
<1>4. Alone'
  <2>. SUFFICES ASSUME NEW a \in Actors, a # t, Configuring(a)', Configuring(t)' PROVE FALSE
    BY <1>0, <1>2 DEF Alone
  <2>1. Configuring(a)
    BY <1>2
  <2>2. CASE Configuring(t)
    BY <1>0, <2>1, <2>2 DEF Alone
  <2>3. CASE overlap' = Overlaps(t)
    BY <2>1, <2>3 DEF Overlaps
  <2>. QED
    BY <2>2, <2>3, TaskConfig
<1>5. Copied'
  <2>. SUFFICES ASSUME NEW a \in Actors, pc'[a] \in {"resend", "reapplied"}
                PROVE  arg'[a] = applied_config' /\ applied_config' # Nil
    BY DEF Copied
  <2>1. CASE a = t
    BY <1>0, <2>1, TaskConfig DEF Copied
  <2>2. CASE a # t
    <3>1. Configuring(a)
      BY <1>1, <2>2 DEF Configuring
    <3>2. ~Stores(t)
      BY <1>0, <2>2, <3>1 DEF Alone, Stores
    <3>3. applied_config' = applied_config
      BY <3>2, TaskConfig
    <3>. QED
      BY <1>0, <1>1, <2>2, <3>3 DEF Copied
  <2>. QED
    BY <2>1, <2>2
<1>6. InForce'
  <2>. SUFFICES ASSUME dev_cfg # Nil
                PROVE  /\ applied_config' \in {Nil, dev_cfg} \/ \E b \in Tasks : Stores(b)'
                       /\ \A b \in Tasks : Stores(b)' => ans'[b].cfg = dev_cfg
    BY <1>0 DEF InForce
  <2>1. \A b \in Tasks : Stores(b)' => b # t /\ Stores(b) /\ ans'[b] = ans[b]
    BY <1>1, <1>3, TaskConfig DEF Actors
  <2>2. \A b \in Tasks : Stores(b)' => ans'[b].cfg = dev_cfg
    BY <1>0, <2>1 DEF InForce
  <2>3. applied_config' \in {Nil, dev_cfg} \/ \E b \in Tasks : Stores(b)'
    <3>1. CASE Stores(t)
      BY <1>0, <3>1, TaskConfig DEF InForce
    <3>2. CASE ~Stores(t)
      BY <1>0, <1>3, <3>2, TaskConfig DEF InForce
    <3>. QED
      BY <3>1, <3>2
  <2>. QED
    BY <2>2, <2>3
<1>. QED
  BY <1>4, <1>5, <1>6

\* The keepalive, configuring the device alone, sends what is cached.
LEMMA KaConfigKept ==
  ASSUME Undisturbed, Types, PlaceInv, OpenInv, ConfigInv, KaStep, ~overlap'
  PROVE  (Alone /\ Copied /\ InForce)'
<1>0. /\ Ka \in Actors /\ Ka \notin Tasks /\ dev_cfg' = dev_cfg /\ applied_config' = applied_config
      /\ ~GiveUp(Ka) /\ ~LinkFails(Ka) /\ pc \in [Actors -> Labels] /\ arg \in [Actors -> Configs \cup {Nil}]
  BY TasksAssumption, KaShape, KaSteps DEF Actors, devVars, stVars, Types
<1>1. \A b \in Tasks : /\ pc'[b] = pc[b] /\ arg'[b] = arg[b] /\ ans'[b] = ans[b] /\ op'[b] = op[b]
  BY TasksKept DEF SameTask
\* Only KaReapply begins to configure, and it asks whether another does.
<1>2. /\ overlap => overlap'
      /\ Configuring(Ka)' => Configuring(Ka) \/ overlap' = Overlaps(Ka)
      /\ pc'[Ka] \in {"resend", "reapplied"} =>
           \/ arg'[Ka] = applied_config /\ applied_config # Nil
           \/ pc[Ka] = "resend" /\ arg'[Ka] = arg[Ka]
  <2>1. CASE KaWake
    <3>1. overlap' = overlap
      BY <1>0, <2>1, OpenSend DEF KaWake, sessVars, histVars
    <3>2. pc'[Ka] \in {"off", "wait"}
      BY <1>0, <2>1 DEF KaWake, Goto
    <3>. QED
      BY <3>1, <3>2 DEF Configuring
  <2>2. CASE Resend(Ka)
    <3>1. overlap' = Overlaps(Ka) /\ pc[Ka] = "resend" /\ arg' = arg
      BY <1>0, <2>2, OpenSend DEF Resend, opVars
    <3>. QED
      BY <3>1 DEF Overlaps
  <2>3. CASE KaReapply
    <3>1. CASE applied_config = Nil
      <4>1. overlap' = overlap /\ pc'[Ka] = "idle"
        BY <1>0, <2>3, <3>1 DEF KaReapply, Goto
      <4>. QED
        BY <4>1 DEF Configuring
    <3>2. CASE applied_config # Nil
      <4>1. overlap' = Overlaps(Ka) /\ arg'[Ka] = applied_config
        BY <1>0, <2>3, <3>2 DEF KaReapply
      <4>. QED
        BY <3>2, <4>1 DEF Overlaps
    <3>. QED
      BY <3>1, <3>2
  <2>4. CASE KaPinged \/ KaReapplied
    <3>1. overlap' = overlap
      BY <2>4 DEF KaPinged, KaReapplied, Forget, histVars
    <3>2. pc'[Ka] \in {"idle", "reapply"}
      BY <1>0, <2>4 DEF KaPinged, KaReapplied, Goto
    <3>. QED
      BY <3>1, <3>2 DEF Configuring
  <2>. QED
    BY <1>0, <2>1, <2>2, <2>3, <2>4 DEF KaStep
<1>3. ~overlap /\ Alone /\ Copied /\ InForce
  BY <1>2 DEF ConfigInv
<1>4. \A b \in Tasks : (Configuring(b)' <=> Configuring(b)) /\ (Stores(b)' <=> Stores(b))
  BY <1>1 DEF Configuring, Stores
<1>5. Alone'
  <2>. SUFFICES ASSUME NEW b \in Tasks, Configuring(b)', Configuring(Ka)' PROVE FALSE
    BY <1>3, <1>4 DEF Alone, Actors
  <2>1. Configuring(b) /\ b \in Actors /\ b # Ka
    BY <1>0, <1>4 DEF Actors
  <2>2. CASE Configuring(Ka)
    BY <1>0, <1>3, <2>1, <2>2 DEF Alone
  <2>3. CASE overlap' = Overlaps(Ka)
    BY <2>1, <2>3 DEF Overlaps
  <2>. QED
    BY <1>2, <2>2, <2>3
<1>6. Copied'
  BY <1>0, <1>1, <1>2, <1>3 DEF Copied, Actors
<1>7. InForce'
  BY <1>0, <1>1, <1>3, <1>4 DEF InForce
<1>. QED
  BY <1>5, <1>6, <1>7

\* The device puts in force what its one configuring caller sent, and answers with it.
LEMMA DevConfigKept ==
  ASSUME Undisturbed, Types, PlaceInv, OpenInv, FrameInv, FlightInv, ConfigInv, DevReads, ~overlap'
  PROVE  (Alone /\ Copied /\ InForce)'
<1>0. PICK f \in Frames : f = Head(toDev)
  BY WireDropped
<1>1. /\ OnWire(f) /\ InFlight(f) /\ f.who \in Actors
      /\ \E k \in {"Ok", "NotConfigured", "Busy", "Err"} :
           Execute(f, k) /\ ans' = [ans EXCEPT ![f.who] = [kind |-> k, cfg |-> dev_cfg']]
      /\ \A a \in Actors : a # f.who => ans'[a] = ans[a]
      /\ UNCHANGED <<opVars, stVars, req, histVars, pc>>
  BY <1>0, DevAnswers
<1>2. PICK k \in {"Ok", "NotConfigured", "Busy", "Err"} :
        Execute(f, k) /\ ans' = [ans EXCEPT ![f.who] = [kind |-> k, cfg |-> dev_cfg']]
  BY <1>1
<1>3. UNCHANGED <<op, arg, pc, applied_config, overlap>>
  BY <1>1 DEF opVars, stVars, histVars
<1>4. FrameOk(f) /\ ans[f.who].kind = "waiting" /\ ans'[f.who].kind = k /\ ans'[f.who].cfg = dev_cfg'
      /\ pc[f.who] \in {"wait", "rx_wait", "reapplied", "again_wait"}
  BY <1>1, <1>2 DEF FrameInv, InFlight, Waits, Types
<1>5. ~overlap /\ Alone /\ Copied /\ InForce
  BY <1>3 DEF ConfigInv
<1>6. Alone' /\ Copied'
  BY <1>3, <1>5 DEF Alone, Copied, Configuring
<1>7. ~Stores(f.who)
  BY <1>4 DEF Stores
<1>8. \A b \in Tasks : b # f.who => (Stores(b)' <=> Stores(b)) /\ ans'[b] = ans[b]
  BY <1>1, <1>3 DEF Stores, Configuring, Actors
<1>9. CASE ~(k = "Ok" /\ f.cmd = "SET_CONFIG")
  <2>1. dev_cfg' = dev_cfg
    BY <1>2, <1>9 DEF Execute
  <2>2. f.who \in Tasks => ~Stores(f.who)'
    <3>. SUFFICES ASSUME f.who \in Tasks, Stores(f.who)' PROVE FALSE
      OBVIOUS
    <3>1. k = "Ok" /\ Configuring(f.who) /\ pc[f.who] # "resend"
      BY <1>3, <1>4 DEF Stores, Configuring
    <3>2. f.cmd = Awaited(f.who)
      BY <1>1, <1>4 DEF FrameOk, InFlight
    <3>3. f.cmd = "SET_CONFIG"
      BY <3>1, <3>2 DEF Awaited, Command, Configuring
    <3>. QED
      BY <1>9, <3>1, <3>3
  <2>3. \A b \in Tasks : (Stores(b)' <=> Stores(b)) /\ (Stores(b) => ans'[b] = ans[b])
    BY <1>7, <1>8, <2>2
  <2>4. InForce'
    BY <1>3, <1>5, <2>1, <2>3 DEF InForce
  <2>. QED
    BY <1>6, <2>4
<1>10. CASE k = "Ok" /\ f.cmd = "SET_CONFIG"
  <2>1. Configuring(f.who) /\ pc[f.who] # "resend"
    BY <1>1, <1>4, <1>10 DEF InFlight
  <2>2. dev_cfg' = f.cfg \/ (dev_cfg' = dev_cfg /\ dev_cfg # Nil)
    BY <1>2, <1>10 DEF Execute
  <2>3. \A b \in Tasks : b # f.who => ~Stores(b) /\ ~Stores(b)'
    BY <1>1, <1>5, <1>8, <2>1 DEF Alone, Stores, Actors
  <2>4. CASE f.who \in Tasks
    <3>1. Stores(f.who)'
      BY <1>3, <1>4, <1>10, <2>1 DEF Stores, Configuring
    <3>2. InForce'
      BY <1>4, <2>3, <2>4, <3>1 DEF InForce
    <3>. QED
      BY <1>6, <3>2
  <2>5. CASE f.who \notin Tasks
    <3>1. f.who = Ka /\ pc[Ka] = "reapplied"
      BY <1>1, <2>1, <2>5 DEF Actors, Configuring
    <3>2. f.cfg = applied_config
      BY <1>1, <1>5, <3>1 DEF InFlight, Copied
    <3>3. \A b \in Tasks : ~Stores(b) /\ ~Stores(b)'
      BY <2>3, <2>5
    <3>4. applied_config \in {Nil, dev_cfg'}
      BY <1>5, <2>2, <3>2, <3>3 DEF InForce
    <3>5. InForce'
      BY <1>3, <3>3, <3>4 DEF InForce
    <3>. QED
      BY <1>6, <3>5
  <2>. QED
    BY <2>4, <2>5
<1>. QED
  BY <1>9, <1>10

\* A device that has forgotten its configuration contradicts no cache.
LEMMA LapseConfigKept ==
  ASSUME ConfigInv, DevLapse
  PROVE  ConfigInv'
<1>1. UNCHANGED <<op, arg, pc, applied_config, overlap, ans>> /\ dev_cfg' = Nil
  BY DEF DevLapse, opVars, stVars, sessVars, histVars
<1>. QED
  BY <1>1 DEF ConfigInv, Alone, Copied, InForce, Configuring

(****************************************************************************)
(* The theorems                                                             *)
(****************************************************************************)

\* The invariant holds of a Dongle that was just connected,
LEMMA EInit == Init => EInv
<1>. SUFFICES ASSUME Init PROVE EInv
  OBVIOUS
<1>1. \A a \in Actors : pc[a] \in {"idle", "off"}
  BY DEF Init
<1>2. \A t \in Tasks : pc[t] = "idle"
  BY TasksAssumption DEF Init, Actors
<1>3. toDev = <<>> /\ Len(toDev) = 0 /\ 1 .. Len(toDev) = {}
  BY DEF Init
<1>4. OpenInv
  BY <1>2 DEF Init, OpenInv
<1>5. FlightInv
  BY <1>3 DEF FlightInv, OnWire
<1>6. RecoveredInv
  BY <1>1 DEF RecoveredInv
<1>7. RxInv
  <2>1. ~RxClaimed
    BY <1>2 DEF Init, RxClaimed
  <2>. QED
    BY <1>2, <2>1 DEF RxInv
<1>8. ConfigInv
  <2>1. \A a \in Actors : ~Configuring(a)
    BY <1>1 DEF Configuring
  <2>2. applied_config \in {Nil, dev_cfg}
    BY DEF Init
  <2>. QED
    BY <1>1, <2>1, <2>2 DEF ConfigInv, Alone, Copied, InForce, Stores, Actors
<1>. QED
  BY <1>4, <1>5, <1>6, <1>7, <1>8 DEF EInv

\* every step of a task, the keepalive or the device keeps it until close,
LEMMA ActsKeep ==
  ASSUME Undisturbed, ~closed', DInv, DInv', EInv, Acts
  PROVE  EInv'
<1>0. /\ Types /\ Types' /\ PlaceInv /\ FrameInv
      /\ OpenInv /\ FlightInv /\ RecoveredInv /\ RxInv /\ ConfigInv
  <2>1. Types'
    BY Zenon DEF DInv, OInv, TypeOK, Types
  <2>. QED
    BY <2>1, TypeParts DEF DInv, OInv, EInv
<1>1. OpenInv' /\ RecoveredInv'
  BY <1>0, OpenKept, RecoveredKept
<1>2. FlightInv'
  BY <1>0, TaskFlight, KaFlight, DevFlight DEF Acts
<1>3. RxInv'
  BY <1>0, TaskRxKept, KaRxKept, DevRxKept DEF Acts
<1>4. ConfigInv'
  <2>1. CASE DevLapse
    BY <1>0, <2>1, LapseConfigKept
  <2>2. CASE ~DevLapse
    <3>1. ASSUME ~overlap' PROVE (Alone /\ Copied /\ InForce)'
      BY <1>0, <2>2, <3>1, TaskConfigKept, KaConfigKept, DevConfigKept DEF Acts
    <3>. QED
      BY <3>1 DEF ConfigInv
  <2>. QED
    BY <2>1, <2>2
<1>. QED
  BY <1>1, <1>2, <1>3, <1>4 DEF EInv

\* and so does a step of the transport, or none.
LEMMA RestKeeps ==
  ASSUME EInv, Rests, link' = link
  PROVE  EInv'
<1>1. UNCHANGED <<closed, sess_closed, link, rx_started, rx_guard, applied_config, pc, op, arg, req, ans, toDev,
                  dev_cfg, dev_rx, overlap, recovered>>
  BY DEF Rests
<1>2. OpenInv' /\ RecoveredInv'
  BY <1>1 DEF EInv, OpenInv, RecoveredInv
<1>3. FlightInv'
  BY <1>1 DEF EInv, FlightInv, OnWire, InFlight, Waits, Configuring
<1>4. RxInv'
  BY <1>1 DEF EInv, RxInv, RxClaimed, Clears
<1>5. ConfigInv'
  BY <1>1 DEF EInv, ConfigInv, Alone, Copied, InForce, Configuring, Stores
<1>. QED
  BY <1>2, <1>3, <1>4, <1>5 DEF EInv

\* A closed Dongle stays closed.
LEMMA ClosedStays ==
  ASSUME closed, [Next]_vars
  PROVE  closed'
<1>1. ASSUME NEW t \in Tasks, Begin(t) \/ CloseBegin(t) \/ OpStep(t) PROVE closed'
  BY <1>1 DEF Begin, CloseBegin, OpStep, FirstSend, NoAttempt, TxDone, RetryDone, BackoffOver, RxLock, RxStarted,
    Reapply, Resend, Reapplied, Again, AgainDone, RxSet, StopDone, ConfigDone, ClearRx, PingDone,
    RecvRead, RecvOpen, CloseRest, GiveUp, LinkFails, endVars
<1>2. ASSUME KaStep PROVE closed'
  BY <1>2 DEF KaStep, KaWake, KaPinged, KaReapply, Resend, KaReapplied, GiveUp, LinkFails, endVars
<1>3. ASSUME WriteStep \/ LinkDown \/ DevStep \/ DevLapse \/ UNCHANGED vars PROVE closed'
  BY <1>3 DEF WriteStep, LinkDown, DevStep, DevLapse, vars, endVars
<1>. QED
  BY <1>1, <1>2, <1>3 DEF Next

\* The invariant, step by step.
LEMMA ENext ==
  ASSUME Undisturbed, DInv, DInv', closed \/ EInv, [Next]_vars
  PROVE  closed' \/ EInv'
<1>. SUFFICES ASSUME ~closed' PROVE EInv'
  OBVIOUS
<1>0. EInv /\ Types /\ WireTypes
  BY ClosedStays, TypeParts DEF DInv, OInv
<1>1. CASE Acts
  BY <1>0, <1>1, ActsKeep
<1>2. CASE WriteStep \/ UNCHANGED vars
  <2>1. Rests /\ link' = link
    BY <1>2 DEF WriteStep, Rests, vars, opVars, retryVars, stVars, sessVars, histVars, endVars, devVars
  <2>. QED
    BY <1>0, <2>1, RestKeeps
<1>3. ~LinkDown
  BY DEF Undisturbed, LinkDown
<1>. QED
  BY <1>0, <1>1, <1>2, <1>3, StepKinds

\* Dongle, undisturbed and not closed: what is on the wire, in the answers and in the
\* two caches belongs together at every step.
THEOREM DongleStateInvariant ==
  ASSUME Undisturbed
  PROVE  Spec => [](closed \/ EInv)
<1>1. DInv /\ DInv' /\ (closed \/ EInv) /\ [Next]_vars => (closed \/ EInv)'
  BY ENext
<1>. QED
  BY <1>1, EInit, DongleInvariant, PTL DEF Spec

\* rx_start, rx_stop, set_config, recv and next_rx of any number of tasks, undisturbed:
\* when they are all through and nobody has closed the Dongle, rx_started is not set on a
\* configured device that is not receiving, unless a recovery re-sent SET_CONFIG.
THEOREM RxStateIsKept ==
  ASSUME Undisturbed
  PROVE  Spec => []RxStateKept
<1>1. closed \/ EInv => RxStateKept
  <2>. SUFFICES ASSUME EInv, Quiet PROVE rx_started /\ dev_cfg # Nil => dev_rx \/ recovered
    BY DEF RxStateKept
  <2>1. \A t \in Tasks : pc[t] \in {"idle", "off"}
    BY DEF Quiet, Actors
  <2>2. \A t \in Tasks : ~Clears(t)
    BY <2>1 DEF Clears
  <2>. QED
    BY <2>2 DEF EInv, RxInv, RxClaimed
<1>. QED
  BY <1>1, DongleStateInvariant, PTL

\* set_config, reapply_config and the keepalive's recovery, undisturbed: when they are
\* through, no two of them overlapped and nobody has closed the Dongle, the cached
\* configuration is the one in force, for any number of tasks, configurations, lapses and
\* shared devices.
THEOREM ConfigIsKept ==
  ASSUME Undisturbed
  PROVE  Spec => []ConfigKept
<1>1. closed \/ EInv => ConfigKept
  <2>. SUFFICES ASSUME EInv, Quiet, ~overlap
                PROVE  dev_cfg # Nil /\ applied_config # Nil => applied_config = dev_cfg
    BY DEF ConfigKept
  <2>1. \A t \in Tasks : pc[t] \in {"idle", "off"}
    BY DEF Quiet, Actors
  <2>2. \A t \in Tasks : ~Stores(t)
    BY <2>1 DEF Stores, Configuring
  <2>. QED
    BY <2>2 DEF EInv, ConfigInv, InForce
<1>. QED
  BY <1>1, DongleStateInvariant, PTL

=============================================================================
