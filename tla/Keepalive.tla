------------------------------ MODULE Keepalive ------------------------------
(****************************************************************************)
(* The keepalive task of Dongle::new (src/src/dongle.rs) against the        *)
(* clock: its sleep, last_write_at, which mark_write and the task itself    *)
(* set, its PING with the answer or the timeout, and the recovery of a      *)
(* device that lost its configuration.                                      *)
(*                                                                          *)
(* Time is counted in ticks.  Tick is taken when nothing is due.  A frame   *)
(* takes at most MaxDelay ticks to the device, and so does an answer; tasks *)
(* are polled within the tick, and no write blocks (in Dongle one may).     *)
(*                                                                          *)
(* What users' calls do beyond writing is in module Dongle.  The device is  *)
(* not under src/: it forgets its configuration when it has heard nothing   *)
(* for Inactivity ticks.  Asked by a PING it may say so, which is what the  *)
(* task's recovery waits for, or answer OK, which is what the PING of       *)
(* connect() needs of a device nobody has configured.                       *)
(****************************************************************************)
EXTENDS Integers, Sequences

CONSTANTS
  Interval,     \* KEEPALIVE_INTERVAL
  Inactivity,   \* the device's inactivity timer
  PingTimeout,  \* the timeout of the task's PING and SET_CONFIG
  MaxDelay,     \* the longest a frame or an answer is under way
  MaxWrites,    \* bound on the users' writes
  MaxHollow,    \* bound on the users' calls that mark a write and make none
  MaxLost,      \* bound on the frames and answers that are lost
  WireCap       \* bound on the frames under way

ASSUME TimeAssumption ==
  /\ Interval \in Nat \ {0} /\ MaxDelay \in Nat /\ MaxDelay < Interval
  /\ PingTimeout \in Nat /\ PingTimeout > 2 * MaxDelay
  /\ Inactivity \in Nat \ {0}
ASSUME BoundAssumption ==
  {MaxWrites, MaxHollow, MaxLost} \subseteq Nat /\ WireCap \in Nat \ {0}

VARIABLES
  ka,          \* where the task is: asleep, or waiting for one of its two calls
  nap,         \* ticks left of its sleep
  waited,      \* ticks since its session call began
  quiet,       \* last_write_at.elapsed(), no more than Interval + 1 of it
  has_config,  \* applied_config is Some
  wire,        \* frames on their way to the device: whose, what, for how long
  back,        \* answers to the task on their way: what, for how long
  configured,  \* device: has a configuration
  silence,     \* device: ticks since it heard something, no more than Limit + 1
  writes,      \* users' writes so far
  hollow,      \* users' calls that marked a write and made none
  lost         \* frames and answers lost so far

kaVars    == <<ka, nap, waited, has_config>>
devVars   == <<configured, silence>>
countVars == <<writes, hollow, lost>>

vars == <<kaVars, quiet, wire, back, devVars, countVars>>

\* The longest silence of a link that loses nothing.
Limit == 2 * Interval - 1 + MaxDelay

Frames  == [from : {"user", "ka"}, cmd : {"OTHER", "PING", "SET_CONFIG"}, age : 0 .. MaxDelay]
Answers == [kind : {"Ok", "NotConfigured"}, age : 0 .. MaxDelay]

TypeOK ==
  /\ ka \in {"sleep", "PING", "SET_CONFIG"}
  /\ nap \in 0 .. Interval /\ waited \in 0 .. PingTimeout /\ quiet \in 0 .. Interval + 1
  /\ has_config \in BOOLEAN /\ configured \in BOOLEAN
  /\ wire \in Seq(Frames) /\ back \in Seq(Answers)
  /\ silence \in 0 .. Limit + 1
  /\ writes \in 0 .. MaxWrites /\ hollow \in 0 .. MaxHollow /\ lost \in 0 .. MaxLost

\* Dongle::new sets last_write_at; the device has just answered GET_INFO or
\* SET_CONFIG.
Init ==
  /\ ka = "sleep" /\ nap = Interval /\ waited = 0 /\ quiet = 0
  /\ has_config \in BOOLEAN /\ configured \in BOOLEAN /\ (has_config => configured)
  /\ wire = <<>> /\ back = <<>> /\ silence = 0
  /\ writes = 0 /\ hollow = 0 /\ lost = 0

Frame(w, k) == [from |-> w, cmd |-> k, age |-> 0]

(****************************************************************************)
(* The keepalive task                                                       *)
(****************************************************************************)

\* Mutant of Sleep: one tick too long.
SleepLonger == ka' = "sleep" /\ nap' = Interval + 1 /\ waited' = 0 /\ UNCHANGED has_config

Sleep == ka' = "sleep" /\ nap' = Interval /\ waited' = 0 /\ UNCHANGED has_config

Request(k) ==
  /\ ka' = k /\ nap' = 0 /\ waited' = 0 /\ UNCHANGED has_config
  /\ wire' = Append(wire, Frame("ka", k))

\* Mutant of KaWake: an interval that has just passed is not enough.
KaWakeStrict ==
  /\ ka = "sleep" /\ nap = 0
  /\ IF quiet <= Interval THEN Sleep /\ UNCHANGED wire ELSE Request("PING")
  /\ UNCHANGED <<quiet, back, devVars, countVars>>

\* A write less than an interval ago stands for a PING.
KaWake ==
  /\ ka = "sleep" /\ nap = 0
  /\ IF quiet < Interval THEN Sleep /\ UNCHANGED wire ELSE Request("PING")
  /\ UNCHANGED <<quiet, back, devVars, countVars>>

\* Mutant of KaAnswered: any answer is as good as Ok.
KaAnsweredAny ==
  /\ ka # "sleep" /\ back # <<>> /\ back' = Tail(back)
  /\ Sleep /\ quiet' = 0
  /\ UNCHANGED <<wire, devVars, countVars>>

\* The answer to the call the task waits for: there is time for no other.
KaAnswered ==
  /\ ka # "sleep" /\ back # <<>> /\ back' = Tail(back)
  /\ IF Head(back).kind = "Ok" THEN Sleep /\ quiet' = 0 /\ UNCHANGED wire
     ELSE /\ IF ka = "PING" /\ has_config THEN Request("SET_CONFIG") ELSE Sleep /\ UNCHANGED wire
          /\ UNCHANGED quiet
  /\ UNCHANGED <<devVars, countVars>>

KaTimeout ==
  /\ ka # "sleep" /\ waited = PingTimeout
  /\ Sleep
  /\ UNCHANGED <<quiet, wire, back, devVars, countVars>>

(****************************************************************************)
(* Users                                                                    *)
(****************************************************************************)

\* mark_write, and the frame of tx, rx_start, rx_stop or ping; none of them
\* configures the device.
UserWrite ==
  /\ writes < MaxWrites /\ writes' = writes + 1 /\ Len(wire) < WireCap
  /\ quiet' = 0
  /\ wire' = Append(wire, Frame("user", "OTHER"))
  /\ UNCHANGED <<kaVars, back, devVars, hollow, lost>>

\* mark_write, and no frame: rx_start when it is started already, tx of nothing.
UserHollow ==
  /\ hollow < MaxHollow /\ hollow' = hollow + 1
  /\ quiet' = 0
  /\ UNCHANGED <<kaVars, wire, back, devVars, writes, lost>>

(****************************************************************************)
(* The device and the wire                                                  *)
(****************************************************************************)

\* The device hears a frame, and answers the task's by k.
Hear(k) ==
  /\ wire # <<>> /\ wire' = Tail(wire)
  /\ LET f == Head(wire) IN
     /\ silence' = 0
     /\ configured' = (configured \/ f.cmd = "SET_CONFIG")
     /\ back' = IF f.from = "ka" THEN Append(back, [kind |-> k, age |-> 0]) ELSE back
  /\ k = "NotConfigured" => ~configured'
  /\ UNCHANGED <<kaVars, quiet, countVars>>

DevHear == \E k \in {"Ok", "NotConfigured"} : Hear(k)

\* The task hears that the configuration is gone.
DevTells == wire # <<>> /\ Head(wire).from = "ka" /\ Hear("NotConfigured")

Lose ==
  /\ lost < MaxLost /\ lost' = lost + 1
  /\ \/ wire # <<>> /\ wire' = Tail(wire) /\ UNCHANGED back
     \/ back # <<>> /\ back' = Tail(back) /\ UNCHANGED wire
  /\ UNCHANGED <<kaVars, quiet, devVars, writes, hollow>>

(****************************************************************************)
(* Time                                                                     *)
(****************************************************************************)

Due ==
  \/ ka = "sleep" /\ nap = 0
  \/ ka # "sleep" /\ waited = PingTimeout
  \/ \E i \in DOMAIN wire : wire[i].age = MaxDelay
  \/ \E i \in DOMAIN back : back[i].age = MaxDelay

Older(s) == [i \in DOMAIN s |-> [s[i] EXCEPT !.age = @ + 1]]

UpTo(n, max) == IF n > max THEN max ELSE n

\* The device forgets when it has heard nothing for too long.
Tick ==
  /\ ~Due
  /\ nap' = IF ka = "sleep" THEN nap - 1 ELSE nap
  /\ waited' = IF ka = "sleep" THEN waited ELSE waited + 1
  /\ quiet' = UpTo(quiet + 1, Interval + 1)
  /\ wire' = Older(wire) /\ back' = Older(back)
  /\ silence' = UpTo(silence + 1, Limit + 1)
  /\ configured' = (configured /\ silence + 1 < Inactivity)
  /\ UNCHANGED <<ka, has_config, countVars>>

(****************************************************************************)
(* The specification                                                        *)
(****************************************************************************)

KaStep == KaWake \/ KaAnswered \/ KaTimeout

Next == KaStep \/ UserWrite \/ UserHollow \/ DevHear \/ Lose \/ Tick

Spec == Init /\ [][Next]_vars

\* Time passes, the task is polled, and what is under way arrives or is lost.  A device
\* that is asked again and again does not hide for ever that it lost its configuration.
FairSpec ==
  Spec /\ WF_vars(KaStep) /\ WF_vars(DevHear) /\ WF_vars(Tick) /\ SF_vars(DevTells)

(****************************************************************************)
(* Properties                                                               *)
(****************************************************************************)

\* The keepalive task and mark_write: while nothing is lost and every marked write
\* is one, the device never waits longer than two intervals, less a tick, and the
\* delay of a frame, whatever users do and when.
SilenceBounded == lost = 0 /\ hollow = 0 => silence <= Limit

\* The recovery arm of the keepalive task: a device that lost its configuration, and
\* does not answer OK to every PING, gets it back, though frames and answers were lost,
\* once users leave the task time to notice.
LapseRecovered == has_config /\ ~configured ~> configured

(****************************************************************************)
(* What the repository says and the code does not keep                      *)
(****************************************************************************)

\* KEEPALIVE_INTERVAL: "Spec 3.4 sets the inactivity timer to 1000 ms - we ping at 500 ms
\* for 2x margin".  A timer of two intervals never takes the configuration away while
\* nothing is lost and every marked write is one.
MarginKept ==
  lost = 0 /\ hollow = 0 /\ Inactivity >= 2 * Interval /\ has_config => configured

=============================================================================
