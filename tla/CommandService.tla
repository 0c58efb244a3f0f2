--------------------------- MODULE CommandService ---------------------------
(****************************************************************************)
(* What Session::send_command promises its callers, without tags, frames,   *)
(* channels or a reader task: a command is issued, the device may carry it  *)
(* out, and the call ends once, for good, with an outcome that is honest    *)
(* about the command, the session and the transport.                        *)
(*                                                                          *)
(* The one concession is the 16-bit tag: a call may be taken for another    *)
(* that was issued Window or more commands before or after it.              *)
(****************************************************************************)
EXTENDS Integers

CONSTANTS
  Calls,    \* invocations of send_command
  Window    \* how many commands are issued before a tag comes round again, at least 1

VARIABLES
  phase,    \* per call: "idle", "open", "done" or "cancelled"
  place,    \* per call: its place in the order of issue, 0 before
  count,    \* how many were issued
  carried,  \* calls whose command the device carried out
  outcome,  \* per call: what it returned, "none" before
  shut,     \* the session was closed
  down      \* the transport is gone

vars == <<phase, place, count, carried, outcome, shut, down>>

\* Named after ClientError and what the typed helpers make of a SessionResponse.
Outcomes == {"Ok", "WireErr", "BadFrame", "Unexpected", "Transmitted", "ChannelBusy", "Cancelled",
             "Closed", "Length", "Io", "ReaderExited", "Timeout"}

Init ==
  /\ phase = [c \in Calls |-> "idle"] /\ outcome = [c \in Calls |-> "none"]
  /\ place = [c \in Calls |-> 0] /\ count = 0
  /\ carried = {} /\ shut = FALSE /\ down = FALSE

Twin(c) ==
  \E d \in Calls \ {c} :
    place[d] # 0 /\ (place[c] - place[d] >= Window \/ place[d] - place[c] >= Window)

\* The device did it; the session is closed or the transport gone; and so on.
Honest(c, k) ==
  /\ k = "Ok"           => c \in carried \/ Twin(c)
  /\ k = "Unexpected"   => Twin(c)
  /\ k = "Closed"       => shut \/ down
  /\ k = "Io"           => down
  /\ k = "ReaderExited" => shut \/ Twin(c)

\* A closed session issues nothing any more.
Issue(c) ==
  /\ phase[c] = "idle" /\ ~shut
  /\ phase' = [phase EXCEPT ![c] = "open"]
  /\ count' = count + 1 /\ place' = [place EXCEPT ![c] = count + 1]
  /\ UNCHANGED <<carried, outcome, shut, down>>

Refuse(c) ==
  /\ phase[c] = "idle" /\ phase' = [phase EXCEPT ![c] = "done"]
  /\ \E k \in {"Length"} \cup IF shut THEN {"Closed"} ELSE {} : outcome' = [outcome EXCEPT ![c] = k]
  /\ UNCHANGED <<place, count, carried, shut, down>>

\* The device carries out a command that was issued, once, in time or too late.
CarryOut(c) ==
  /\ place[c] # 0 /\ c \notin carried /\ carried' = carried \cup {c}
  /\ UNCHANGED <<phase, place, count, outcome, shut, down>>

Finish(c) ==
  /\ phase[c] = "open" /\ phase' = [phase EXCEPT ![c] = "done"]
  /\ \E k \in Outcomes \ {"Length"} : Honest(c, k) /\ outcome' = [outcome EXCEPT ![c] = k]
  /\ UNCHANGED <<place, count, carried, shut, down>>

\* The caller drops the future.
Abandon(c) ==
  /\ phase[c] = "open" /\ phase' = [phase EXCEPT ![c] = "cancelled"]
  /\ UNCHANGED <<place, count, carried, outcome, shut, down>>

Shut ==
  /\ ~shut /\ shut' = TRUE
  /\ UNCHANGED <<phase, place, count, carried, outcome, down>>

Break ==
  /\ ~down /\ down' = TRUE
  /\ UNCHANGED <<phase, place, count, carried, outcome, shut>>

Next ==
  \/ \E c \in Calls : Issue(c) \/ Refuse(c) \/ CarryOut(c) \/ Finish(c) \/ Abandon(c)
  \/ Shut \/ Break

Spec == Init /\ [][Next]_vars

=============================================================================
