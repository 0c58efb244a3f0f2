------------------------------- MODULE Dongle -------------------------------
(****************************************************************************)
(* The Dongle of src/src/dongle.rs: the cached state rx_started and         *)
(* applied_config, the operations that keep it, the recovery from an        *)
(* unconfigured device, tx_with_retry, the keepalive task and close.        *)
(*                                                                          *)
(* A member of Tasks is a user task that makes up to MaxOps calls on the    *)
(* shared Dongle, one after the other.                                      *)
(*                                                                          *)
(* A session call is one frame and one answer, as Session provides: an      *)
(* answer reaches the request it is for, and only while somebody waits for  *)
(* it.  The frames called for are one FIFO, toDev: the transport has taken  *)
(* the first few, and the rest wait for the writer mutex or for the         *)
(* transport, under no deadline.  When the keepalive task wakes is left     *)
(* open here (module Keepalive has the clock).                              *)
(*                                                                          *)
(* The device is not under src/: what it does with a command is taken from  *)
(* what dongle.rs says about it and reacts to.                              *)
(****************************************************************************)
EXTENDS Integers, Sequences

CONSTANTS
  Tasks,      \* user tasks
  Ka,         \* the keepalive task
  Configs,    \* Modulation values
  AtConnect,  \* what connect() may have left configured: members of Configs, or Nil
  Nil,
  OpKinds,    \* the methods the tasks may call
  Policies,   \* RetryPolicy values (see IsPolicy)
  MaxOps,     \* bound on the calls of one task
  MaxWakes,   \* bound on the keepalive's wake-ups; 0 is keepalive = false
  MaxLapses,  \* bound on the device's inactivity timeouts
  WireCap,    \* frames the transport takes before a write blocks
  Env         \* what else may happen: a subset of EnvEvents

AllOps == {"tx", "tx_with_retry", "rx_start", "rx_stop", "recv", "set_config", "ping", "close"}

\* "timeout": a session call runs into its deadline.  "error": the device refuses
\* a command.  "shared": a SET_CONFIG may be answered by another configuration,
\* which is the one in force.  "link": the transport fails.
EnvEvents == {"timeout", "error", "shared", "link"}

\* A RetryPolicy; backoff_multiplier is the fraction mul / 2.
IsPolicy(p) ==
  /\ {p.max_attempts, p.backoff_ms_min, p.backoff_ms_max, p.mul, p.backoff_cap_ms} \subseteq Nat

ASSUME TasksAssumption   == Ka \notin Tasks /\ Nil \notin Tasks \cup Configs \cup {Ka}
ASSUME OpsAssumption     == OpKinds \subseteq AllOps /\ Env \subseteq EnvEvents
ASSUME ConfigAssumption  == AtConnect \subseteq Configs \cup {Nil}
ASSUME BoundsAssumption  == {MaxOps, MaxWakes, MaxLapses} \subseteq Nat /\ WireCap \in Nat \ {0}
ASSUME PolicyAssumption  == \A p \in Policies : IsPolicy(p)

Actors == Tasks \cup {Ka}

VARIABLES
  closed,          \* Inner.closed
  sess_closed,     \* Session.closed
  rx_started,      \* Inner.rx_started
  rx_guard,        \* who holds its mutex, or Nil
  applied_config,  \* Inner.applied_config
  pc,              \* per actor: where it is
  op,              \* per task: the method being called
  arg,             \* per actor: the configuration it sends
  policy,          \* per task: the RetryPolicy of its tx_with_retry
  left,            \* per task: attempts tx_with_retry may still make
  delay_ms,        \* per task: the floor of its next backoff
  nap,             \* per task: how long it backs off
  ops,             \* per task: how many calls it has made
  result,          \* per task: what its last call returned
  req,             \* per actor: number of its last session call
  ans,             \* per actor: the answer to it
  wakes,           \* keepalive wake-ups so far
  toDev,           \* frames called for that the device has not read
  dev_cfg,         \* device: configuration, or Nil
  dev_rx,          \* device: in continuous receive
  lapses,          \* device: inactivity timeouts so far
  wired,           \* how many of toDev the transport has taken
  link,            \* the transport is up
  \* History, read by no guard:
  aired,           \* <<task, call>> -> times its packet was on the air
  overlap,         \* two calls that send SET_CONFIG overlapped
  recovered        \* a recovery sent the cached configuration again

retryVars == <<policy, left, delay_ms, nap>>
opVars    == <<op, arg, ops, result, retryVars>>
stVars    == <<rx_started, rx_guard, applied_config>>
histVars  == <<overlap, recovered>>
sessVars  == <<req, ans, toDev, histVars>>
endVars  == <<closed, sess_closed, wakes>>
devVars  == <<dev_cfg, dev_rx, lapses, wired, link, aired>>

vars == <<opVars, stVars, sessVars, endVars, devVars, pc>>

Kinds == {"waiting", "Ok", "NotConfigured", "Busy", "Err", "Timeout", "Closed", "Io"}
Frames ==
  [who : Actors, n : Nat, call : Nat, cmd : {"SET_CONFIG"}, cfg : Configs] \cup
  [who : Actors, n : Nat, call : Nat, cmd : {"TX", "RX_START", "RX_STOP", "PING"}, cfg : {Nil}]

Labels == {"idle", "send", "wait", "sleep", "rx_lock", "rx_wait", "reapply", "resend", "reapplied", "again",
           "again_wait", "rx_set", "clear", "recv_read", "recv_open", "close", "off"}

Answer(k) == [kind |-> k, cfg |-> Nil]

TypeOK ==
  /\ {closed, sess_closed, rx_started, dev_rx, link, overlap, recovered} \subseteq BOOLEAN
  /\ rx_guard \in Tasks \cup {Nil}
  /\ {applied_config, dev_cfg} \subseteq Configs \cup {Nil}
  /\ pc \in [Actors -> Labels]
  /\ op \in [Tasks -> AllOps \cup {Nil}] /\ arg \in [Actors -> Configs \cup {Nil}]
  /\ policy \in [Tasks -> Policies \cup {Nil}]
  /\ {left, delay_ms, nap} \subseteq [Tasks -> Nat] /\ ops \in [Tasks -> 0 .. MaxOps]
  /\ result \in [Tasks -> Kinds \cup {"none", "Other"}]
  /\ req \in [Actors -> Nat] /\ ans \in [Actors -> [kind : Kinds, cfg : Configs \cup {Nil}]]
  /\ toDev \in Seq(Frames) /\ wired \in 0 .. Len(toDev)
  /\ wakes \in 0 .. MaxWakes /\ lapses \in 0 .. MaxLapses
  /\ aired \in [Tasks \X (1 .. MaxOps) -> Nat]

\* Dongle::new, after connect() applied a configuration; or did not, and the device
\* is as its last user left it.
Init ==
  /\ closed = FALSE /\ sess_closed = FALSE
  /\ rx_started = FALSE /\ rx_guard = Nil
  /\ applied_config \in AtConnect
  /\ dev_cfg \in IF applied_config = Nil THEN Configs \cup {Nil} ELSE {applied_config}
  /\ dev_rx \in BOOLEAN /\ (dev_rx => applied_config = Nil /\ dev_cfg # Nil)
  /\ pc = [a \in Actors |-> IF a = Ka /\ MaxWakes = 0 THEN "off" ELSE "idle"]
  /\ op = [t \in Tasks |-> Nil] /\ arg = [a \in Actors |-> Nil]
  /\ policy = [t \in Tasks |-> Nil] /\ left = [t \in Tasks |-> 0]
  /\ delay_ms = [t \in Tasks |-> 0] /\ nap = [t \in Tasks |-> 0]
  /\ ops = [t \in Tasks |-> 0]
  /\ result = [t \in Tasks |-> "none"]
  /\ req = [a \in Actors |-> 0] /\ ans = [a \in Actors |-> Answer("Ok")]
  /\ wakes = 0 /\ toDev = <<>> /\ wired = 0 /\ link = TRUE
  /\ lapses = 0
  /\ aired = [i \in Tasks \X (1 .. MaxOps) |-> 0]
  /\ overlap = FALSE /\ recovered = FALSE

(****************************************************************************)
(* Session calls                                                            *)
(****************************************************************************)

\* Between the first step of a call that sends SET_CONFIG and the one that stores
\* the answer.
Configuring(a) ==
  pc[a] \in {"resend", "reapplied"} \/ (a # Ka /\ pc[a] = "wait" /\ op[a] = "set_config")

\* Another actor is there when a takes its first step.
Overlaps(a) == overlap \/ \E b \in Actors \ {a} : Configuring(b)

\* Actor a calls the session with command k and gets in line for the writer mutex;
\* a closed session answers at once.
Send(a, k, m) ==
  IF sess_closed
  THEN ans' = [ans EXCEPT ![a] = Answer("Closed")] /\ UNCHANGED <<req, toDev, histVars>>
  ELSE /\ overlap' = IF k = "SET_CONFIG" THEN Overlaps(a) ELSE overlap
       /\ recovered' = (recovered \/ pc[a] = "resend")
       /\ req' = [req EXCEPT ![a] = @ + 1]
       /\ ans' = [ans EXCEPT ![a] = Answer("waiting")]
       /\ toDev' = Append(toDev, [who |-> a, n |-> req[a] + 1, cmd |-> k, cfg |-> m,
                                  call |-> IF a = Ka THEN 0 ELSE ops[a]])

Waits(a)      == pc[a] \in {"wait", "rx_wait", "reapplied", "again_wait"} /\ ans[a].kind = "waiting"

\* Its frame is not written: send_command looks at no answer before that.
Writing(a)    == link /\ \E i \in DOMAIN toDev : i > wired /\ toDev[i].who = a /\ toDev[i].n = req[a]
At(a, l)      == pc[a] = l /\ ans[a].kind # "waiting" /\ ~Writing(a)
Goto(a, l)    == pc' = [pc EXCEPT ![a] = l]
Return(t, k)  == Goto(t, "idle") /\ result' = [result EXCEPT ![t] = k]

\* The answer to an earlier call is of no more use.
Forget(a)     == ans' = [ans EXCEPT ![a] = Answer("Ok")] /\ UNCHANGED <<req, toDev, histVars>>

\* The deadline, which begins when the frame is written, passes before an answer is
\* there.  Over a link that is down a write may succeed and go nowhere.
GiveUp(a) ==
  /\ "timeout" \in Env /\ Waits(a) /\ ~Writing(a)
  /\ ans' = [ans EXCEPT ![a] = Answer("Timeout")]
  /\ UNCHANGED <<opVars, stVars, req, toDev, histVars, endVars, devVars, pc>>

\* The link is down: the write fails, or the reader task tells who waits.
LinkFails(a) ==
  /\ ~link /\ Waits(a)
  /\ \E k \in {"Io", "Closed"} : ans' = [ans EXCEPT ![a] = Answer(k)]
  /\ UNCHANGED <<opVars, stVars, req, toDev, histVars, endVars, devVars, pc>>

(****************************************************************************)
(* Operations                                                               *)
(****************************************************************************)

\* Where each method goes once check_open has passed.
Entry(o) ==
  CASE o = "rx_start" -> "rx_lock"
    [] o = "recv"     -> "recv_read"
    [] OTHER          -> "send"

Command(o) ==
  CASE o \in {"tx", "tx_with_retry"} -> "TX"
    [] o \in {"rx_start", "recv"}    -> "RX_START"
    [] o = "rx_stop"                 -> "RX_STOP"
    [] o = "set_config"              -> "SET_CONFIG"
    [] o = "ping"                    -> "PING"

Begin(t) ==
  /\ pc[t] = "idle" /\ ops[t] < MaxOps
  /\ ops' = [ops EXCEPT ![t] = @ + 1]
  /\ \E o \in OpKinds \ {"close"} :
       /\ op' = [op EXCEPT ![t] = o]
       /\ \E m \in IF o = "set_config" THEN Configs ELSE {Nil} : arg' = [arg EXCEPT ![t] = m]
       /\ IF o = "tx_with_retry"
          THEN \E p \in Policies :
                 /\ policy' = [policy EXCEPT ![t] = p]
                 /\ left' = [left EXCEPT ![t] = p.max_attempts]
                 /\ delay_ms' = [delay_ms EXCEPT ![t] = p.backoff_ms_min]
          ELSE UNCHANGED <<policy, left, delay_ms>>
       /\ IF closed THEN Return(t, "Closed")
                    ELSE Goto(t, Entry(o)) /\ result' = [result EXCEPT ![t] = "none"]
  /\ Forget(t)
  /\ UNCHANGED <<nap, stVars, endVars, devVars>>

\* The first session call of tx, rx_stop, set_config and ping, and every one of
\* tx_with_retry.
FirstSend(t) ==
  /\ pc[t] = "send" /\ (op[t] = "tx_with_retry" => left[t] > 0)
  /\ Send(t, Command(op[t]), arg[t]) /\ Goto(t, "wait")
  /\ UNCHANGED <<opVars, stVars, endVars, devVars>>

\* tx_with_retry with max_attempts = 0: the loop body never runs, and the error the
\* code calls unreachable is returned.
NoAttempt(t) ==
  /\ pc[t] = "send" /\ op[t] = "tx_with_retry" /\ left[t] = 0
  /\ Return(t, "Other")
  /\ UNCHANGED <<op, arg, ops, retryVars, stVars, sessVars, endVars, devVars>>

TxDone(t) ==
  /\ At(t, "wait") /\ op[t] = "tx"
  /\ IF ans[t].kind = "NotConfigured" THEN Goto(t, "reapply") /\ UNCHANGED result
                                      ELSE Return(t, ans[t].kind)
  /\ UNCHANGED <<op, arg, ops, retryVars, stVars, sessVars, endVars, devVars>>

\* Mutant of is_retryable: a timed out attempt is tried again.
RetryTimeouts(k) == k \in {"Busy", "Timeout"}

\* CHANNEL_BUSY and EBUSY.
is_retryable(k) == k = "Busy"

spread(p) == IF p.backoff_ms_max > p.backoff_ms_min THEN p.backoff_ms_max - p.backoff_ms_min ELSE 0

\* An f32 has 24 bits, so that its neighbours are a power of two apart.
F32  == 16777216
Ulps == {1, 2, 4, 8, 16, 32, 64, 128, 256, 512}

\* n rounded to an f32, ties to even.  Above 2^33 the distance is taken too short, which
\* the cap, a u32, does not let anybody see.
f32(n) ==
  LET u == CHOOSE v \in Ulps : /\ v = 1 \/ n \div (v \div 2) >= F32
                               /\ v = 512 \/ n \div v < F32
      q == n \div u
      r == n % u
  IN IF 2 * r > u \/ (2 * r = u /\ q % 2 = 1) THEN (q + 1) * u ELSE q * u

\* (d as f32 * multiplier) as u32.
scaled(d, mul) == f32(f32(d) * mul) \div 2

\* Mutant of next_delay: the cap is forgotten.
GrowDelay(d, p) == scaled(d, p.mul)

\* The floor of the backoff after d.
next_delay(d, p) ==
  IF scaled(d, p.mul) < p.backoff_cap_ms THEN scaled(d, p.mul) ELSE p.backoff_cap_ms

RetryDone(t) ==
  /\ At(t, "wait") /\ op[t] = "tx_with_retry"
  /\ IF is_retryable(ans[t].kind) /\ left[t] > 1
     THEN /\ Goto(t, "sleep") /\ left' = [left EXCEPT ![t] = @ - 1]
          /\ \E jitter_ms \in 0 .. spread(policy[t]) : nap' = [nap EXCEPT ![t] = delay_ms[t] + jitter_ms]
          /\ UNCHANGED <<policy, delay_ms, result>>
     ELSE /\ Return(t, ans[t].kind)
          /\ policy' = [policy EXCEPT ![t] = Nil] /\ left' = [left EXCEPT ![t] = 0]
          /\ delay_ms' = [delay_ms EXCEPT ![t] = 0] /\ UNCHANGED nap
  /\ UNCHANGED <<op, arg, ops, stVars, sessVars, endVars, devVars>>

BackoffOver(t) ==
  /\ pc[t] = "sleep" /\ Goto(t, "send")
  /\ nap' = [nap EXCEPT ![t] = 0]
  /\ delay_ms' = [delay_ms EXCEPT ![t] = next_delay(@, policy[t])]
  /\ UNCHANGED <<op, arg, ops, result, policy, left, stVars, sessVars, endVars, devVars>>

\* Mutant of RxLock: the mutex is released before the session call.
RxLockShort(t) ==
  /\ pc[t] = "rx_lock" /\ rx_guard = Nil
  /\ IF rx_started
     THEN Return(t, "Ok") /\ UNCHANGED sessVars
     ELSE Send(t, "RX_START", Nil) /\ Goto(t, "rx_wait") /\ UNCHANGED result
  /\ UNCHANGED <<op, arg, ops, retryVars, stVars, endVars, devVars>>

\* rx_start keeps the mutex of rx_started while it waits for the device.
RxLock(t) ==
  /\ pc[t] = "rx_lock" /\ rx_guard = Nil
  /\ IF rx_started
     THEN Return(t, "Ok") /\ UNCHANGED <<sessVars, rx_guard>>
     ELSE Send(t, "RX_START", Nil) /\ Goto(t, "rx_wait") /\ rx_guard' = t /\ UNCHANGED result
  /\ UNCHANGED <<op, arg, ops, retryVars, rx_started, applied_config, endVars, devVars>>

\* The first answer to rx_start; the mutex is released on every path.
RxStarted(t) ==
  /\ At(t, "rx_wait")
  /\ rx_guard' = Nil
  /\ rx_started' = (rx_started \/ ans[t].kind = "Ok")
  /\ IF ans[t].kind = "NotConfigured" THEN Goto(t, "reapply") /\ UNCHANGED result
                                      ELSE Return(t, ans[t].kind)
  /\ UNCHANGED <<op, arg, ops, retryVars, applied_config, sessVars, endVars, devVars>>

\* Mutant of Reapply: nobody asks whether anything is cached.
ReapplyBlindly(t) ==
  /\ pc[t] = "reapply"
  /\ Goto(t, "resend") /\ arg' = [arg EXCEPT ![t] = applied_config] /\ overlap' = Overlaps(t)
  /\ UNCHANGED <<op, ops, result, retryVars, stVars, req, ans, toDev, recovered, endVars, devVars>>

\* reapply_config, for tx and rx_start: the cached configuration is copied.
Reapply(t) ==
  /\ pc[t] = "reapply"
  /\ IF applied_config = Nil
     THEN Return(t, "NotConfigured") /\ UNCHANGED <<arg, overlap>>
     ELSE /\ Goto(t, "resend") /\ arg' = [arg EXCEPT ![t] = applied_config]
          /\ overlap' = Overlaps(t) /\ UNCHANGED result
  /\ UNCHANGED <<op, ops, retryVars, stVars, req, ans, toDev, recovered, endVars, devVars>>

\* The copy is sent; the cache may have changed since, in the keepalive task too.
Resend(a) ==
  /\ pc[a] = "resend"
  /\ Send(a, "SET_CONFIG", arg[a]) /\ Goto(a, "reapplied")
  /\ UNCHANGED <<opVars, stVars, endVars, devVars>>

\* Mutant of Reapplied: the recovered call returns without being made again.
ReappliedIsAll(t) ==
  /\ At(t, "reapplied") /\ Return(t, ans[t].kind)
  /\ UNCHANGED <<op, arg, ops, retryVars, stVars, sessVars, endVars, devVars>>

Reapplied(t) ==
  /\ At(t, "reapplied")
  /\ IF ans[t].kind = "Ok"
     THEN Goto(t, "again") /\ applied_config' = ans[t].cfg /\ UNCHANGED result
     ELSE Return(t, ans[t].kind) /\ UNCHANGED applied_config
  /\ UNCHANGED <<op, arg, ops, retryVars, rx_started, rx_guard, sessVars, endVars, devVars>>

Again(t) ==
  /\ pc[t] = "again"
  /\ Send(t, Command(op[t]), Nil) /\ Goto(t, "again_wait")
  /\ UNCHANGED <<opVars, stVars, endVars, devVars>>

AgainDone(t) ==
  /\ At(t, "again_wait")
  /\ IF op[t] # "tx" /\ ans[t].kind = "Ok" THEN Goto(t, "rx_set") /\ UNCHANGED result
                                           ELSE Return(t, ans[t].kind)
  /\ UNCHANGED <<op, arg, ops, retryVars, stVars, sessVars, endVars, devVars>>

RxSet(t) ==
  /\ pc[t] = "rx_set" /\ rx_guard = Nil
  /\ rx_started' = TRUE /\ Return(t, "Ok")
  /\ UNCHANGED <<op, arg, ops, retryVars, rx_guard, applied_config, sessVars, endVars, devVars>>

StopDone(t) ==
  /\ At(t, "wait") /\ op[t] = "rx_stop"
  /\ IF ans[t].kind = "Ok" THEN Goto(t, "clear") /\ UNCHANGED result ELSE Return(t, ans[t].kind)
  /\ UNCHANGED <<op, arg, ops, retryVars, stVars, sessVars, endVars, devVars>>

\* Mutant of CurrentConfig: the cache takes what was asked for.
RequestedConfig(t) == arg[t]

\* The configuration the answer reports.
CurrentConfig(t) == ans[t].cfg

ConfigDone(t) ==
  /\ At(t, "wait") /\ op[t] = "set_config"
  /\ IF ans[t].kind = "Ok"
     THEN Goto(t, "clear") /\ applied_config' = CurrentConfig(t) /\ UNCHANGED result
     ELSE Return(t, ans[t].kind) /\ UNCHANGED applied_config
  /\ UNCHANGED <<op, arg, ops, retryVars, rx_started, rx_guard, sessVars, endVars, devVars>>

\* rx_stop and set_config end by clearing rx_started.
ClearRx(t) ==
  /\ pc[t] = "clear" /\ rx_guard = Nil
  /\ rx_started' = FALSE /\ Return(t, "Ok")
  /\ UNCHANGED <<op, arg, ops, retryVars, rx_guard, applied_config, sessVars, endVars, devVars>>

PingDone(t) ==
  /\ At(t, "wait") /\ op[t] = "ping"
  /\ Return(t, ans[t].kind)
  /\ UNCHANGED <<op, arg, ops, retryVars, stVars, sessVars, endVars, devVars>>

\* Mutant of RecvRead: the guard of the test is still held when rx_start locks.
RecvReadHolding(t) ==
  /\ pc[t] = "recv_read" /\ rx_guard = Nil
  /\ IF rx_started THEN Return(t, "Ok") /\ UNCHANGED rx_guard
                   ELSE Goto(t, "recv_open") /\ rx_guard' = t /\ UNCHANGED result
  /\ UNCHANGED <<op, arg, ops, retryVars, rx_started, applied_config, sessVars, endVars, devVars>>

\* recv and next_rx, up to the session's recv_rx / next_rx (module Session): "Ok"
\* stands for going on to it.  The mutex is released before rx_start takes it.
RecvRead(t) ==
  /\ pc[t] = "recv_read" /\ rx_guard = Nil
  /\ IF rx_started THEN Return(t, "Ok") ELSE Goto(t, "recv_open") /\ UNCHANGED result
  /\ UNCHANGED <<op, arg, ops, retryVars, stVars, sessVars, endVars, devVars>>

\* rx_start, called from recv or next_rx, asks check_open again.
RecvOpen(t) ==
  /\ pc[t] = "recv_open"
  /\ IF closed THEN Return(t, "Closed") ELSE Goto(t, "rx_lock") /\ UNCHANGED result
  /\ UNCHANGED <<op, arg, ops, retryVars, stVars, sessVars, endVars, devVars>>

(****************************************************************************)
(* close                                                                    *)
(****************************************************************************)

CloseBegin(t) ==
  /\ "close" \in OpKinds /\ pc[t] = "idle" /\ ops[t] < MaxOps
  /\ ops' = [ops EXCEPT ![t] = @ + 1] /\ op' = [op EXCEPT ![t] = "close"]
  /\ IF closed THEN Return(t, "Ok") ELSE Goto(t, "close") /\ UNCHANGED result
  /\ closed' = TRUE
  /\ UNCHANGED <<arg, retryVars, stVars, sessVars, sess_closed, wakes, devVars>>

\* abort_keepalive, then Session::close: whoever waits is told.
CloseRest(t) ==
  /\ pc[t] = "close"
  /\ pc' = [pc EXCEPT ![t] = "idle", ![Ka] = "off"]
  /\ result' = [result EXCEPT ![t] = "Ok"]
  /\ sess_closed' = TRUE
  /\ ans' = [a \in Actors |-> IF Waits(a) THEN Answer("Closed") ELSE ans[a]]
  /\ UNCHANGED <<op, arg, ops, retryVars, stVars, req, toDev, histVars, closed, wakes, devVars>>

(****************************************************************************)
(* The keepalive task                                                       *)
(****************************************************************************)

KaWake ==
  /\ pc[Ka] = "idle" /\ wakes < MaxWakes
  /\ wakes' = wakes + 1
  /\ IF closed THEN Goto(Ka, "off") /\ UNCHANGED sessVars
               ELSE Goto(Ka, "wait") /\ Send(Ka, "PING", Nil)
  /\ UNCHANGED <<opVars, stVars, closed, sess_closed, devVars>>

KaPinged ==
  /\ At(Ka, "wait")
  /\ Goto(Ka, IF ans[Ka].kind = "NotConfigured" THEN "reapply" ELSE "idle")
  /\ Forget(Ka)
  /\ UNCHANGED <<opVars, stVars, endVars, devVars>>

KaReapply ==
  /\ pc[Ka] = "reapply"
  /\ IF applied_config = Nil
     THEN Goto(Ka, "idle") /\ UNCHANGED <<arg, overlap>>
     ELSE /\ Goto(Ka, "resend") /\ arg' = [arg EXCEPT ![Ka] = applied_config]
          /\ overlap' = Overlaps(Ka)
  /\ UNCHANGED <<op, ops, result, retryVars, stVars, req, ans, toDev, recovered, endVars, devVars>>

\* The answer is logged or forgotten: neither cache changes.
KaReapplied ==
  /\ At(Ka, "reapplied") /\ Goto(Ka, "idle")
  /\ arg' = [arg EXCEPT ![Ka] = Nil] /\ Forget(Ka)
  /\ UNCHANGED <<op, ops, result, retryVars, stVars, endVars, devVars>>

(****************************************************************************)
(* The device                                                               *)
(****************************************************************************)

\* What the device answers to frame f, and does; a TX that is busy is not aired, and what
\* the keepalive task was writing when it was aborted may be cut short.
Execute(f, k) ==
  /\ k = "Ok" => (dev_cfg # Nil \/ f.cmd \in {"PING", "SET_CONFIG"})
  /\ k = "NotConfigured" => dev_cfg = Nil /\ f.cmd # "SET_CONFIG"
  /\ k = "Busy" => dev_cfg # Nil /\ f.cmd = "TX"
  /\ k = "Err" => "error" \in Env \/ pc[f.who] = "off"
  /\ IF k = "Ok" /\ f.cmd = "SET_CONFIG"
     THEN \/ dev_cfg' = f.cfg /\ dev_rx' = FALSE
          \/ "shared" \in Env /\ dev_cfg # Nil /\ UNCHANGED <<dev_cfg, dev_rx>>
     ELSE /\ UNCHANGED dev_cfg
          /\ dev_rx' = IF k = "Ok" /\ f.cmd = "RX_START" THEN TRUE
                       ELSE IF k = "Ok" /\ f.cmd = "RX_STOP" THEN FALSE ELSE dev_rx
  /\ aired' = IF k = "Ok" /\ f.cmd = "TX" THEN [aired EXCEPT ![<<f.who, f.call>>] = @ + 1] ELSE aired

\* The transport takes the next frame.
WriteStep ==
  /\ link /\ wired < WireCap /\ wired < Len(toDev) /\ wired' = wired + 1
  /\ UNCHANGED <<opVars, stVars, sessVars, endVars, dev_cfg, dev_rx, lapses, link, aired, pc>>

LinkDown ==
  /\ "link" \in Env /\ link /\ link' = FALSE
  /\ UNCHANGED <<opVars, stVars, sessVars, endVars, dev_cfg, dev_rx, lapses, wired, aired, pc>>

\* The device reads a frame.  The answer reaches its caller if that one still waits for
\* it, unless it is lost.
DevStep ==
  /\ wired > 0 /\ wired' = wired - 1 /\ toDev' = Tail(toDev)
  /\ LET f == Head(toDev) IN
     \E k \in {"Ok", "NotConfigured", "Busy", "Err"} :
       /\ Execute(f, k)
       /\ \/ ans' = IF link /\ Waits(f.who) /\ req[f.who] = f.n
                    THEN [ans EXCEPT ![f.who] = [kind |-> k, cfg |-> dev_cfg']] ELSE ans
          \/ "timeout" \in Env /\ UNCHANGED ans
  /\ UNCHANGED <<opVars, stVars, req, histVars, endVars, lapses, link, pc>>

\* The inactivity timer: the device forgets its configuration.
DevLapse ==
  /\ lapses < MaxLapses /\ lapses' = lapses + 1
  /\ dev_cfg # Nil /\ dev_cfg' = Nil /\ dev_rx' = FALSE
  /\ UNCHANGED <<opVars, stVars, sessVars, endVars, wired, link, aired, pc>>

(****************************************************************************)
(* The specification                                                        *)
(****************************************************************************)

OpStep(t) ==
  \/ FirstSend(t) \/ NoAttempt(t) \/ TxDone(t) \/ RetryDone(t) \/ BackoffOver(t)
  \/ RxLock(t) \/ RxStarted(t) \/ Reapply(t) \/ Resend(t) \/ Reapplied(t) \/ Again(t) \/ AgainDone(t)
  \/ RxSet(t) \/ StopDone(t) \/ ConfigDone(t) \/ ClearRx(t) \/ PingDone(t) \/ RecvRead(t)
  \/ RecvOpen(t) \/ CloseRest(t) \/ GiveUp(t) \/ LinkFails(t)

KaStep == KaWake \/ KaPinged \/ KaReapply \/ Resend(Ka) \/ KaReapplied \/ GiveUp(Ka) \/ LinkFails(Ka)

Next ==
  \/ \E t \in Tasks : Begin(t) \/ CloseBegin(t) \/ OpStep(t)
  \/ KaStep
  \/ WriteStep \/ LinkDown \/ DevStep \/ DevLapse

Spec == Init /\ [][Next]_vars

\* Tasks are polled, writes go on when there is room and deadlines pass.  The device
\* goes on reading, and owes no answer.
DrainedSpec ==
  Spec /\ (\A t \in Tasks : WF_vars(OpStep(t))) /\ WF_vars(WriteStep) /\ WF_vars(DevStep)

(****************************************************************************)
(* Properties                                                               *)
(****************************************************************************)

\* tx, tx_with_retry and the recovery: one call puts its packet on the air at
\* most once, whatever times out, is refused, is retried or is answered late.
AiredOnce == \A i \in Tasks \X (1 .. MaxOps) : aired[i] <= 1

\* tx and tx_with_retry: Ok means that the packet was on the air.
OkMeansAired ==
  \A t \in Tasks :
    pc[t] = "idle" /\ op[t] \in {"tx", "tx_with_retry"} /\ result[t] = "Ok" => aired[<<t, ops[t]>>] = 1

\* Nothing is under way.
Quiet == toDev = <<>> /\ \A a \in Actors : pc[a] \in {"idle", "off"}

\* rx_start, rx_stop and set_config on a shared Dongle: when they are all through,
\* rx_started is only set if the configured device is receiving, so that recv and
\* next_rx never wait on a deaf radio.  As long as no recovery re-sent SET_CONFIG, and
\* until close, which lets calls end before the device has done what they asked for.
RxStateKept == ~closed /\ Quiet /\ rx_started /\ dev_cfg # Nil => dev_rx \/ recovered

\* set_config, reapply_config and the keepalive's recovery: when they are through,
\* the cached configuration (if any) is the one in force, unless the device lost its
\* own.  As long as no two of them overlapped, and until close.
ConfigKept ==
  ~closed /\ Quiet /\ dev_cfg # Nil /\ applied_config # Nil => applied_config = dev_cfg \/ overlap

\* Every delay of policy p is within what an f32 multiplies without rounding.
Exact(p) == p.backoff_ms_min * p.mul < F32 /\ p.backoff_cap_ms * p.mul < F32

\* tx_with_retry and jitter_ms, attempt after attempt: the cap, with the jitter, bounds
\* every backoff but the first, also when the first is above it (which backoff_cap_ms is
\* documented not to allow); and where no rounding interferes a multiplier of 1 or more
\* never lets a backoff fall below the lesser of the first floor and the cap.
BackoffBounded ==
  \A t \in Tasks :
    pc[t] = "sleep" =>
      LET p     == policy[t]
          first == left[t] = p.max_attempts - 1
      IN /\ nap[t] <= spread(p) + IF first THEN p.backoff_ms_min ELSE p.backoff_cap_ms
         /\ p.mul >= 2 /\ Exact(p) => nap[t] >= p.backoff_ms_min \/ nap[t] >= p.backoff_cap_ms

\* Every operation returns, whether or not the device answers, the link fails or the
\* dongle is closed, and the mutex that rx_start holds while it writes and waits is given
\* back: as long as the device reads, since the write of a frame is under no timeout.
EveryOpReturns == \A t \in Tasks : pc[t] # "idle" ~> pc[t] = "idle"

(****************************************************************************)
(* What the repository says and the code does not keep                      *)
(****************************************************************************)

\* set_config: "SET_CONFIG aborts any continuous RX on the device side", which is
\* why rx_started is cleared; recoveries send SET_CONFIG too.
RxStateTrue == Quiet /\ rx_started /\ dev_cfg # Nil => dev_rx

\* config: "The most recently applied config".
ConfigTrue == Quiet /\ dev_cfg # Nil /\ applied_config # Nil => applied_config = dev_cfg

=============================================================================
