---------------------------- MODULE ConnectProofs ----------------------------
(****************************************************************************)
(* Theorems about Connect, for any number of calls, any ports, endpoints    *)
(* and environments, and any coming and going of devices and muxes.         *)
(****************************************************************************)
EXTENDS Connect, PrepareConfigProofs

\* The variables that the proofs update at a call are functions of the calls.
DomainInv ==
  DOMAIN pc = Calls /\ DOMAIN call = Calls /\ DOMAIN place = Calls /\ DOMAIN prep = Calls

\* finalize is under way, on an open transport.
Probing == {"ping", "info", "prepared"}

\* Who has a transport to a mux has set USED_MUX, and so has who won.
MuxInv ==
  /\ used_mux \in BOOLEAN
  /\ winner # Nil => used_mux
  /\ \A c \in Calls : pc[c] \in Probing /\ place[c] \notin Serial => used_mux

\* A call that began after a mux had won read USED_MUX as true.
AfterInv ==
  \A c \in Calls : call[c] # Nil /\ call[c].after # Nil => call[c].sticky = TRUE

\* A call that read it as true, and named no place, is on none of the ways to USB:
\* connect_with polls, the other two stop where no socket is found.
StickyInv ==
  \A c \in Calls :
    /\ pc[c] = "idle" => place[c] = Nil
    /\ call[c] # Nil /\ call[c].named = FALSE =>
         call[c].entry \in {"connect_with", "try_connect_with", "connect_mux_auto_with"}
    /\ call[c] # Nil /\ call[c].sticky = TRUE /\ call[c].named = FALSE =>
         /\ pc[c] \notin {"scan", "wait"} /\ place[c] \notin Serial
         /\ pc[c] = "find" => call[c].entry \in {"try_connect_with", "connect_mux_auto_with"}

\* What was prepared was made from what the device reported and the caller asked.
PrepInv ==
  \A c \in Calls :
    prep[c] # Nil => /\ prep[c].info \in Infos /\ prep[c].asked \in Modulations
                     /\ prep[c].out = prepare_config(prep[c].info, prep[c].asked)

\* A Session exists for the calls that probe and for the Dongles that are not dropped.
SessionInv == \A c \in Calls : writer[c] <=> pc[c] \in HasSession

\* Who probes has an open transport, which leads somewhere.
SomewhereInv ==
  \A c \in Calls : pc[c] \in Probing => place[c] \in Places

\* A socket or an endpoint is no serial port, and neither is Nil.
LEMMA NotSerial ==
  /\ \A x : <<"unix", x>> \notin Serial /\ <<"tcp", x>> \notin Serial
  /\ Nil \notin Serial
<1>1. \A x : <<"unix", x>> \notin Serial /\ <<"tcp", x>> \notin Serial
  BY DEF Serial
<1>2. Nil \notin Serial
  BY PlaceAssumption DEF Places
<1> QED
  BY <1>1, <1>2

\* Options with a configuration have one of the callers'.
LEMMA OptionsConfig ==
  ASSUME NEW e, NEW o \in OptionsOf(e), o.config # Nil
  PROVE  o.config \in Modulations
<1> DEFINE Opts == [config : Modulations \cup {Nil}, auto_configure : BOOLEAN]
<1>1. NewOptions \in Opts
  BY DEF NewOptions
<1>2. \A m \in Modulations : config(NewOptions, m) \in Opts
  BY <1>1 DEF config
<1>3. \A q \in Opts, on \in BOOLEAN : auto_configure(q, on) \in Opts
  BY DEF auto_configure
<1> HIDE DEF Opts
<1>4. OptionsOf(e) \subseteq Opts
  BY <1>1, <1>2, <1>3 DEF OptionsOf
<1> QED
  BY <1>4 DEF Opts

\* No step changes the domain of a function.
LEMMA DomainStep ==
  ASSUME DomainInv, [Next]_vars
  PROVE  DomainInv'
<1> USE DEF DomainInv
<1>1. ASSUME NEW c \in Calls, BeginNamed(c) PROVE DomainInv'
  BY <1>1 DEF BeginNamed, Start, Dial, Goto
<1>2. ASSUME NEW c \in Calls, BeginAuto(c) PROVE DomainInv'
  BY <1>2 DEF BeginAuto, Start, Goto
<1>3. ASSUME NEW c \in Calls, TryTcpEnv(c) PROVE DomainInv'
  BY <1>3 DEF TryTcpEnv, Spawn, MarkMux, Goto, trVars
<1>4. ASSUME NEW c \in Calls, FindMux(c) PROVE DomainInv'
  BY <1>4 DEF FindMux, Dial, Abandon, Goto, trVars
<1>5. ASSUME NEW c \in Calls, StickyPoll(c) PROVE DomainInv'
  BY <1>5 DEF StickyPoll, Dial, Goto
<1>6. ASSUME NEW c \in Calls, Scan(c) PROVE DomainInv'
  BY <1>6 DEF Scan, Dial, Abandon, Goto, trVars
<1>7. ASSUME NEW c \in Calls, WaitForDevice(c) PROVE DomainInv'
  BY <1>7 DEF WaitForDevice, Dial, Goto
<1>8. ASSUME NEW c \in Calls, Open(c) PROVE DomainInv'
  BY <1>8 DEF Open, Spawn, MarkMux, Abandon, Goto
<1>9. ASSUME NEW c \in Calls, Ping(c) PROVE DomainInv'
  BY <1>9 DEF Ping, Fails, Abandon, Goto, trVars
<1>10. ASSUME NEW c \in Calls, GetInfo(c) PROVE DomainInv'
  BY <1>10 DEF GetInfo, Ready, Fails, Abandon, Goto, trVars
<1>11. ASSUME NEW c \in Calls, SetConfig(c) PROVE DomainInv'
  BY <1>11 DEF SetConfig, Ready, Fails, Abandon, Goto, trVars
<1>12. ASSUME NEW c \in Calls, Cancel(c) PROVE DomainInv'
  BY <1>12 DEF Cancel, Abandon, Goto
<1>13. ASSUME NEW c \in Calls, Close(c) PROVE DomainInv'
  BY <1>13 DEF Close, Goto, trVars
<1>14. ASSUME NEW c \in Calls, DropDongle(c) PROVE DomainInv'
  BY <1>14 DEF DropDongle, Goto
<1>15. ASSUME NEW c \in Calls, ReaderEnds(c) PROVE DomainInv'
  BY <1>15 DEF ReaderEnds
<1>16. ASSUME NEW x \in Places, Appear(x) \/ Vanish(x) PROVE DomainInv'
  BY <1>16 DEF Appear, Vanish, trVars
<1>17. ASSUME UNCHANGED vars PROVE DomainInv'
  BY <1>17 DEF vars, trVars
<1> QED
  BY <1>1, <1>2, <1>3, <1>4, <1>5, <1>6, <1>7, <1>8, <1>9, <1>10, <1>11, <1>12, <1>13, <1>14, <1>15, <1>16, <1>17 DEF Next, CallStep

\* USED_MUX is set when the transport is open and never cleared.
LEMMA MuxStep ==
  ASSUME DomainInv, MuxInv, [Next]_vars
  PROVE  MuxInv'
<1> USE DEF DomainInv, MuxInv, Probing
<1>1. ASSUME NEW c \in Calls, BeginNamed(c) PROVE MuxInv'
  BY <1>1 DEF BeginNamed, Start, Dial, Goto
<1>2. ASSUME NEW c \in Calls, BeginAuto(c) PROVE MuxInv'
  BY <1>2 DEF BeginAuto, Start, Goto
<1>3. ASSUME NEW c \in Calls, TryTcpEnv(c) PROVE MuxInv'
  BY <1>3 DEF TryTcpEnv, Spawn, MarkMux, Goto, trVars
<1>4. ASSUME NEW c \in Calls, FindMux(c) PROVE MuxInv'
  BY <1>4 DEF FindMux, Dial, Abandon, Goto, trVars
<1>5. ASSUME NEW c \in Calls, StickyPoll(c) PROVE MuxInv'
  BY <1>5 DEF StickyPoll, Dial, Goto
<1>6. ASSUME NEW c \in Calls, Scan(c) PROVE MuxInv'
  BY <1>6 DEF Scan, Dial, Abandon, Goto, trVars
<1>7. ASSUME NEW c \in Calls, WaitForDevice(c) PROVE MuxInv'
  BY <1>7 DEF WaitForDevice, Dial, Goto
<1>8. ASSUME NEW c \in Calls, Open(c) PROVE MuxInv'
  BY <1>8 DEF Open, Spawn, MarkMux, Abandon, Goto
<1>9. ASSUME NEW c \in Calls, Ping(c) PROVE MuxInv'
  BY <1>9 DEF Ping, Fails, Abandon, Goto, trVars
<1>10. ASSUME NEW c \in Calls, GetInfo(c) PROVE MuxInv'
  BY <1>10 DEF GetInfo, Ready, Fails, Abandon, Goto, trVars
<1>11. ASSUME NEW c \in Calls, SetConfig(c) PROVE MuxInv'
  BY <1>11 DEF SetConfig, Ready, Fails, Abandon, Goto, trVars
<1>12. ASSUME NEW c \in Calls, Cancel(c) PROVE MuxInv'
  BY <1>12 DEF Cancel, Abandon, Goto
<1>13. ASSUME NEW c \in Calls, Close(c) PROVE MuxInv'
  BY <1>13 DEF Close, Goto, trVars
<1>14. ASSUME NEW c \in Calls, DropDongle(c) PROVE MuxInv'
  BY <1>14 DEF DropDongle, Goto
<1>15. ASSUME NEW c \in Calls, ReaderEnds(c) PROVE MuxInv'
  BY <1>15 DEF ReaderEnds
<1>16. ASSUME NEW x \in Places, Appear(x) \/ Vanish(x) PROVE MuxInv'
  BY <1>16 DEF Appear, Vanish, trVars
<1>17. ASSUME UNCHANGED vars PROVE MuxInv'
  BY <1>17 DEF vars, trVars
<1> QED
  BY <1>1, <1>2, <1>3, <1>4, <1>5, <1>6, <1>7, <1>8, <1>9, <1>10, <1>11, <1>12, <1>13, <1>14, <1>15, <1>16, <1>17 DEF Next, CallStep

\* What a call read at its start stays with it.
LEMMA AfterStep ==
  ASSUME DomainInv, MuxInv, AfterInv, [Next]_vars
  PROVE  AfterInv'
<1> USE DEF DomainInv, MuxInv, AfterInv
<1>1. ASSUME NEW c \in Calls, BeginNamed(c) PROVE AfterInv'
  BY <1>1 DEF BeginNamed, Start, Dial, Goto
<1>2. ASSUME NEW c \in Calls, BeginAuto(c) PROVE AfterInv'
  BY <1>2 DEF BeginAuto, Start, Goto
<1>3. ASSUME NEW c \in Calls, TryTcpEnv(c) PROVE AfterInv'
  BY <1>3 DEF TryTcpEnv, Spawn, MarkMux, Goto, trVars
<1>4. ASSUME NEW c \in Calls, FindMux(c) PROVE AfterInv'
  BY <1>4 DEF FindMux, Dial, Abandon, Goto, trVars
<1>5. ASSUME NEW c \in Calls, StickyPoll(c) PROVE AfterInv'
  BY <1>5 DEF StickyPoll, Dial, Goto
<1>6. ASSUME NEW c \in Calls, Scan(c) PROVE AfterInv'
  BY <1>6 DEF Scan, Dial, Abandon, Goto, trVars
<1>7. ASSUME NEW c \in Calls, WaitForDevice(c) PROVE AfterInv'
  BY <1>7 DEF WaitForDevice, Dial, Goto
<1>8. ASSUME NEW c \in Calls, Open(c) PROVE AfterInv'
  BY <1>8 DEF Open, Spawn, MarkMux, Abandon, Goto
<1>9. ASSUME NEW c \in Calls, Ping(c) PROVE AfterInv'
  BY <1>9 DEF Ping, Fails, Abandon, Goto, trVars
<1>10. ASSUME NEW c \in Calls, GetInfo(c) PROVE AfterInv'
  BY <1>10 DEF GetInfo, Ready, Fails, Abandon, Goto, trVars
<1>11. ASSUME NEW c \in Calls, SetConfig(c) PROVE AfterInv'
  BY <1>11 DEF SetConfig, Ready, Fails, Abandon, Goto, trVars
<1>12. ASSUME NEW c \in Calls, Cancel(c) PROVE AfterInv'
  BY <1>12 DEF Cancel, Abandon, Goto
<1>13. ASSUME NEW c \in Calls, Close(c) PROVE AfterInv'
  BY <1>13 DEF Close, Goto, trVars
<1>14. ASSUME NEW c \in Calls, DropDongle(c) PROVE AfterInv'
  BY <1>14 DEF DropDongle, Goto
<1>15. ASSUME NEW c \in Calls, ReaderEnds(c) PROVE AfterInv'
  BY <1>15 DEF ReaderEnds
<1>16. ASSUME NEW x \in Places, Appear(x) \/ Vanish(x) PROVE AfterInv'
  BY <1>16 DEF Appear, Vanish, trVars
<1>17. ASSUME UNCHANGED vars PROVE AfterInv'
  BY <1>17 DEF vars, trVars
<1> QED
  BY <1>1, <1>2, <1>3, <1>4, <1>5, <1>6, <1>7, <1>8, <1>9, <1>10, <1>11, <1>12, <1>13, <1>14, <1>15, <1>16, <1>17 DEF Next, CallStep

\* Past the TCP endpoint a sticky connect_with polls, and the others look for a socket.
LEMMA TcpSticky ==
  ASSUME DomainInv, StickyInv, NEW c \in Calls, TryTcpEnv(c)
  PROVE  StickyInv'
<1>1. CASE Spawn(c, <<"tcp", TcpEndpoint>>)
  BY <1>1, NotSerial DEF DomainInv, StickyInv, Spawn, Goto
<1>2. CASE UNCHANGED <<call, trVars>> /\ Goto(c, IF call[c].entry = "connect_with" /\ call[c].sticky THEN "poll" ELSE "find")
  <2> DEFINE l == IF call[c].entry = "connect_with" /\ call[c].sticky THEN "poll" ELSE "find"
  <2>1. l \in {"poll", "find"}
    OBVIOUS
  <2>2. call[c].entry = "connect_with" /\ call[c].sticky = TRUE => l = "poll"
    OBVIOUS
  <2> HIDE DEF l
  <2>3. pc' = [pc EXCEPT ![c] = l]
    BY <1>2 DEF l, Goto
  <2>4. UNCHANGED <<call, place>>
    BY <1>2 DEF trVars
  <2> QED
    BY <2>1, <2>2, <2>3, <2>4, TryTcpEnv(c) DEF DomainInv, StickyInv, TryTcpEnv
<1> QED
  BY <1>1, <1>2 DEF TryTcpEnv

\* Where no socket is found a sticky call stops.
LEMMA FindSticky ==
  ASSUME DomainInv, StickyInv, NEW c \in Calls, FindMux(c)
  PROVE  StickyInv'
<1>1. CASE Dial(c, <<"unix", find_mux_socket>>) /\ UNCHANGED call
  BY <1>1, NotSerial DEF DomainInv, StickyInv, Dial, Goto
<1>2. CASE Abandon(c)
  BY <1>2, NotSerial DEF DomainInv, StickyInv, Abandon, Goto
<1>3. CASE /\ ~(\/ call[c].entry = "connect_mux_auto_with"
                \/ call[c].entry = "try_connect_with" /\ call[c].sticky)
           /\ Goto(c, "scan") /\ UNCHANGED <<call, trVars>>
  <2>1. ~(call[c].entry = "try_connect_with" /\ call[c].sticky = TRUE) /\ call[c].entry # "connect_mux_auto_with"
    BY <1>3
  <2>2. pc' = [pc EXCEPT ![c] = "scan"] /\ UNCHANGED <<call, place>>
    BY <1>3 DEF Goto, trVars
  <2> QED
    BY <2>1, <2>2, FindMux(c) DEF DomainInv, StickyInv, FindMux
<1> QED
  BY <1>1, <1>2, <1>3 DEF FindMux

\* No step leads a sticky call to USB.
LEMMA StickyStep ==
  ASSUME DomainInv, MuxInv, StickyInv, [Next]_vars
  PROVE  StickyInv'
<1> USE DEF DomainInv, StickyInv
<1>1. ASSUME NEW c \in Calls, BeginNamed(c) PROVE StickyInv'
  BY <1>1, NotSerial DEF BeginNamed, Start, Dial, Goto
<1>2. ASSUME NEW c \in Calls, BeginAuto(c) PROVE StickyInv'
  BY <1>2, NotSerial DEF BeginAuto, Start, Goto
<1>3. ASSUME NEW c \in Calls, TryTcpEnv(c) PROVE StickyInv'
  BY <1>3, TcpSticky
<1>4. ASSUME NEW c \in Calls, FindMux(c) PROVE StickyInv'
  BY <1>4, FindSticky
<1>5. ASSUME NEW c \in Calls, StickyPoll(c) PROVE StickyInv'
  BY <1>5, NotSerial DEF StickyPoll, Dial, Goto
<1>6. ASSUME NEW c \in Calls, Scan(c) PROVE StickyInv'
  BY <1>6, NotSerial DEF Scan, Dial, Abandon, Goto, trVars
<1>7. ASSUME NEW c \in Calls, WaitForDevice(c) PROVE StickyInv'
  BY <1>7, NotSerial DEF WaitForDevice, Dial, Goto
<1>8. ASSUME NEW c \in Calls, Open(c) PROVE StickyInv'
  BY <1>8, NotSerial DEF Open, Spawn, MarkMux, Abandon, Goto
<1>9. ASSUME NEW c \in Calls, Ping(c) PROVE StickyInv'
  BY <1>9, NotSerial DEF Ping, Fails, Abandon, Goto, trVars
<1>10. ASSUME NEW c \in Calls, GetInfo(c) PROVE StickyInv'
  BY <1>10, NotSerial DEF GetInfo, Ready, Fails, Abandon, Goto, trVars
<1>11. ASSUME NEW c \in Calls, SetConfig(c) PROVE StickyInv'
  BY <1>11, NotSerial DEF SetConfig, Ready, Fails, Abandon, Goto, trVars
<1>12. ASSUME NEW c \in Calls, Cancel(c) PROVE StickyInv'
  BY <1>12, NotSerial DEF Cancel, Abandon, Goto
<1>13. ASSUME NEW c \in Calls, Close(c) PROVE StickyInv'
  BY <1>13, NotSerial DEF Close, Goto, trVars
<1>14. ASSUME NEW c \in Calls, DropDongle(c) PROVE StickyInv'
  BY <1>14, NotSerial DEF DropDongle, Goto
<1>15. ASSUME NEW c \in Calls, ReaderEnds(c) PROVE StickyInv'
  BY <1>15, NotSerial DEF ReaderEnds
<1>16. ASSUME NEW x \in Places, Appear(x) \/ Vanish(x) PROVE StickyInv'
  BY <1>16 DEF Appear, Vanish, trVars
<1>17. ASSUME UNCHANGED vars PROVE StickyInv'
  BY <1>17 DEF vars, trVars
<1> QED
  BY <1>1, <1>2, <1>3, <1>4, <1>5, <1>6, <1>7, <1>8, <1>9, <1>10, <1>11, <1>12, <1>13, <1>14, <1>15, <1>16, <1>17 DEF Next, CallStep

\* The check is made once, in GetInfo.
LEMMA PrepStep ==
  ASSUME DomainInv, PrepInv, [Next]_vars
  PROVE  PrepInv'
<1> USE DEF DomainInv, PrepInv
<1>1. ASSUME NEW c \in Calls, BeginNamed(c) PROVE PrepInv'
  BY <1>1 DEF BeginNamed, Start, Dial, Goto
<1>2. ASSUME NEW c \in Calls, BeginAuto(c) PROVE PrepInv'
  BY <1>2 DEF BeginAuto, Start, Goto
<1>3. ASSUME NEW c \in Calls, TryTcpEnv(c) PROVE PrepInv'
  BY <1>3 DEF TryTcpEnv, Spawn, MarkMux, Goto, trVars
<1>4. ASSUME NEW c \in Calls, FindMux(c) PROVE PrepInv'
  BY <1>4 DEF FindMux, Dial, Abandon, Goto, trVars
<1>5. ASSUME NEW c \in Calls, StickyPoll(c) PROVE PrepInv'
  BY <1>5 DEF StickyPoll, Dial, Goto
<1>6. ASSUME NEW c \in Calls, Scan(c) PROVE PrepInv'
  BY <1>6 DEF Scan, Dial, Abandon, Goto, trVars
<1>7. ASSUME NEW c \in Calls, WaitForDevice(c) PROVE PrepInv'
  BY <1>7 DEF WaitForDevice, Dial, Goto
<1>8. ASSUME NEW c \in Calls, Open(c) PROVE PrepInv'
  BY <1>8 DEF Open, Spawn, MarkMux, Abandon, Goto
<1>9. ASSUME NEW c \in Calls, Ping(c) PROVE PrepInv'
  BY <1>9 DEF Ping, Fails, Abandon, Goto, trVars
<1>10. ASSUME NEW c \in Calls, GetInfo(c) PROVE PrepInv'
  BY <1>10, OptionsConfig DEF GetInfo, Ready, Fails, Abandon, Goto, trVars
<1>11. ASSUME NEW c \in Calls, SetConfig(c) PROVE PrepInv'
  BY <1>11 DEF SetConfig, Ready, Fails, Abandon, Goto, trVars
<1>12. ASSUME NEW c \in Calls, Cancel(c) PROVE PrepInv'
  BY <1>12 DEF Cancel, Abandon, Goto
<1>13. ASSUME NEW c \in Calls, Close(c) PROVE PrepInv'
  BY <1>13 DEF Close, Goto, trVars
<1>14. ASSUME NEW c \in Calls, DropDongle(c) PROVE PrepInv'
  BY <1>14 DEF DropDongle, Goto
<1>15. ASSUME NEW c \in Calls, ReaderEnds(c) PROVE PrepInv'
  BY <1>15 DEF ReaderEnds
<1>16. ASSUME NEW x \in Places, Appear(x) \/ Vanish(x) PROVE PrepInv'
  BY <1>16 DEF Appear, Vanish, trVars
<1>17. ASSUME UNCHANGED vars PROVE PrepInv'
  BY <1>17 DEF vars, trVars
<1> QED
  BY <1>1, <1>2, <1>3, <1>4, <1>5, <1>6, <1>7, <1>8, <1>9, <1>10, <1>11, <1>12, <1>13, <1>14, <1>15, <1>16, <1>17 DEF Next, CallStep

\* The inductive invariant of Connect, for StaysOnMux and ConfigFits.
THEOREM ConnectInvariant == Spec => [](DomainInv /\ MuxInv /\ AfterInv /\ StickyInv /\ PrepInv)
<1> DEFINE I == DomainInv /\ MuxInv /\ AfterInv /\ StickyInv /\ PrepInv
<1>1. Init => I
  BY NotSerial DEF Init, DomainInv, MuxInv, Probing, AfterInv, StickyInv, PrepInv
<1>2. I /\ [Next]_vars => I'
  BY DomainStep, MuxStep, AfterStep, StickyStep, PrepStep
<1> QED
  BY <1>1, <1>2, PTL DEF Spec

\* The conjuncts of TypeOK, grouped by what changes them.
SurroundTypes ==
  /\ used_mux \in BOOLEAN /\ environ \in Environs
  /\ up \subseteq Places /\ files \subseteq SocketPaths /\ flips \in 0 .. MaxFlips

CallTypes ==
  /\ pc \in [Calls -> {"idle"} \cup Dialing \cup Returned]
  /\ call \in [Calls -> CallRecords \cup {Nil}]
  /\ winner \in Unix \cup Tcp \cup {Nil}

TransportTypes ==
  /\ writer \in [Calls -> BOOLEAN] /\ reader \in [Calls -> BOOLEAN] /\ link \in [Calls -> BOOLEAN]
  /\ place \in [Calls -> Places \cup {Nil}]
  /\ \A c \in Calls : reader[c] => place[c] # Nil
  /\ SomewhereInv

\* What the connect functions look for are places.
LEMMA LooksForPlaces ==
  /\ <<"unix", default_socket_path>> \in Places
  /\ find_mux_socket # Nil => <<"unix", find_mux_socket>> \in Places
  /\ \A p \in find_port : <<"serial", p>> \in Places
  /\ Nil \notin Places
<1>1. default_socket_path \in SocketPaths
  BY DEF default_socket_path, SocketPaths
<1>2. ASSUME find_mux_socket # Nil PROVE find_mux_socket \in SocketPaths
  <2> DEFINE candidates == IF "DONGLORA_MUX" \in environ.set THEN <<"DONGLORA_MUX">>
                           ELSE IF "XDG_RUNTIME_DIR" \in environ.set THEN <<"XDG_RUNTIME_DIR", "/tmp">>
                           ELSE <<"/tmp">>
             present    == {i \in DOMAIN candidates : candidates[i] \in files}
             first      == CHOOSE i \in present : \A j \in present : i <= j
  <2>1. DOMAIN candidates \in {{1}, {1, 2}} /\ \A i \in DOMAIN candidates : candidates[i] \in SocketPaths
    BY DEF SocketPaths
  <2>2. present # {} /\ find_mux_socket = candidates[first]
    BY <1>2 DEF find_mux_socket
  <2>3. \E i \in present : \A j \in present : i <= j
    <3>1. present \in {{1}, {2}, {1, 2}}
      BY <2>1, <2>2
    <3> HIDE DEF present
    <3> QED
      BY <3>1
  <2>4. first \in present
    BY <2>3
  <2> QED
    BY <2>1, <2>2, <2>4
<1>3. \A p \in find_port : p \in Ports
  BY DEF find_port, Usb
<1> QED
  BY <1>1, <1>2, <1>3, PlaceAssumption DEF Places, Unix, Serial

\* Devices and muxes come and go at places, socket files at their paths.
LEMMA SurroundStep ==
  ASSUME SurroundTypes, [Next]_vars
  PROVE  SurroundTypes'
<1> USE DEF SurroundTypes
<1>1. ASSUME NEW c \in Calls, BeginNamed(c) PROVE SurroundTypes'
  BY <1>1 DEF BeginNamed, Start, Dial, Goto, envVars, Entries
<1>2. ASSUME NEW c \in Calls, BeginAuto(c) PROVE SurroundTypes'
  BY <1>2 DEF BeginAuto, Start, Goto, envVars
<1>3. ASSUME NEW c \in Calls, TryTcpEnv(c) PROVE SurroundTypes'
  BY <1>3 DEF TryTcpEnv, Spawn, MarkMux, Goto, trVars, envVars
<1>4. ASSUME NEW c \in Calls, FindMux(c) PROVE SurroundTypes'
  BY <1>4 DEF FindMux, Dial, Abandon, Goto, trVars, envVars
<1>5. ASSUME NEW c \in Calls, StickyPoll(c) PROVE SurroundTypes'
  BY <1>5 DEF StickyPoll, Dial, Goto, envVars
<1>6. ASSUME NEW c \in Calls, Scan(c) PROVE SurroundTypes'
  BY <1>6 DEF Scan, Dial, Abandon, Goto, trVars, envVars
<1>7. ASSUME NEW c \in Calls, WaitForDevice(c) PROVE SurroundTypes'
  BY <1>7 DEF WaitForDevice, Dial, Goto, envVars
<1>8. ASSUME NEW c \in Calls, Open(c) PROVE SurroundTypes'
  BY <1>8 DEF Open, Spawn, MarkMux, CanOpen, Abandon, Goto, envVars
<1>9. ASSUME NEW c \in Calls, Ping(c) PROVE SurroundTypes'
  BY <1>9 DEF Ping, Fails, Abandon, Goto, trVars, envVars
<1>10. ASSUME NEW c \in Calls, GetInfo(c) PROVE SurroundTypes'
  BY <1>10 DEF GetInfo, Ready, Fails, Abandon, Goto, trVars, envVars
<1>11. ASSUME NEW c \in Calls, SetConfig(c) PROVE SurroundTypes'
  BY <1>11 DEF SetConfig, Ready, Fails, Abandon, Goto, trVars, envVars
<1>12. ASSUME NEW c \in Calls, Cancel(c) PROVE SurroundTypes'
  BY <1>12 DEF Cancel, Abandon, Goto, envVars
<1>13. ASSUME NEW c \in Calls, Close(c) PROVE SurroundTypes'
  BY <1>13 DEF Close, Goto, trVars, envVars
<1>14. ASSUME NEW c \in Calls, DropDongle(c) PROVE SurroundTypes'
  BY <1>14 DEF DropDongle, Goto, envVars
<1>15. ASSUME NEW c \in Calls, ReaderEnds(c) PROVE SurroundTypes'
  BY <1>15 DEF ReaderEnds, envVars
<1>16. ASSUME NEW x \in Places, Appear(x) \/ Vanish(x) PROVE SurroundTypes'
  BY <1>16, PortsAssumption DEF Appear, Vanish, trVars, envVars, Unix
<1>17. ASSUME UNCHANGED vars PROVE SurroundTypes'
  BY <1>17 DEF vars, trVars, envVars
<1> QED
  BY <1>1, <1>2, <1>3, <1>4, <1>5, <1>6, <1>7, <1>8, <1>9, <1>10, <1>11, <1>12, <1>13, <1>14, <1>15, <1>16, <1>17 DEF Next, CallStep

\* A Dongle is returned for the place where its transport leads.
LEMMA ReadyTypes ==
  ASSUME CallTypes, TransportTypes, NEW c \in Calls, pc[c] \in Probing, Ready(c)
  PROVE  CallTypes'
<1>1. place[c] \in Places
  BY DEF TransportTypes, SomewhereInv
<1>2. winner' \in Unix \cup Tcp \cup {Nil}
  BY <1>1 DEF Ready, CallTypes, Places
<1>3. pc' \in [Calls -> {"idle"} \cup Dialing \cup Returned] /\ call' \in [Calls -> CallRecords \cup {Nil}]
  BY DEF Ready, Goto, CallTypes, Returned
<1> QED
  BY <1>2, <1>3 DEF CallTypes

\* The label of a call that ends without a Dongle.
LEMMA FailsTypes ==
  ASSUME CallTypes, NEW c \in Calls, Abandon(c), UNCHANGED winner
  PROVE  CallTypes'
  BY DEF Abandon, Goto, CallTypes, Returned

\* A call that is to open a place is at that place, and probes nothing yet.
LEMMA DialTypes ==
  ASSUME TransportTypes, CallTypes, NEW c \in Calls, NEW x \in Places, Dial(c, x), UNCHANGED <<writer, reader, link>>
  PROVE  TransportTypes'
  BY PlaceAssumption DEF Dial, Goto, TransportTypes, SomewhereInv, Probing, CallTypes

\* An open transport leads to the place that was opened.
LEMMA SpawnTypes ==
  ASSUME TransportTypes, CallTypes, NEW c \in Calls, NEW x \in Places, Spawn(c, x)
  PROVE  TransportTypes'
  BY PlaceAssumption DEF Spawn, Goto, TransportTypes, SomewhereInv, Probing, CallTypes

\* A call that ends leaves its place to the reader task, if there is one.
LEMMA AbandonTypes ==
  ASSUME TransportTypes, CallTypes, NEW c \in Calls, Abandon(c)
  PROVE  TransportTypes'
  BY PlaceAssumption DEF Abandon, Goto, TransportTypes, SomewhereInv, Probing, CallTypes

\* A call that probes goes on with the transport it has.
LEMMA ProbesOn ==
  ASSUME TransportTypes, CallTypes, NEW c \in Calls, pc[c] \in Probing,
         Goto(c, "info") \/ Goto(c, "prepared") \/ Goto(c, "ready"), UNCHANGED trVars
  PROVE  TransportTypes'
  BY DEF Goto, TransportTypes, SomewhereInv, Probing, CallTypes, trVars

\* A call goes from label to label, and only a mux wins.
LEMMA CallTypesStep ==
  ASSUME SurroundTypes, CallTypes, TransportTypes, [Next]_vars
  PROVE  CallTypes'
<1> USE DEF SurroundTypes, CallTypes, Dialing, Returned, CallRecords
<1>1. ASSUME NEW c \in Calls, BeginNamed(c) PROVE CallTypes'
  <2>1. \E e \in Entries : call' = [call EXCEPT ![c] = [entry |-> e, sticky |-> used_mux, named |-> TRUE, after |-> winner]]
    BY <1>1, EntriesAssumption DEF BeginNamed, Start
  <2>2. pc' = [pc EXCEPT ![c] = "dial"] /\ UNCHANGED winner
    BY <1>1 DEF BeginNamed, Start, Dial, Goto
  <2> QED
    BY <2>1, <2>2
<1>2. ASSUME NEW c \in Calls, BeginAuto(c) PROVE CallTypes'
  BY <1>2, EntriesAssumption DEF BeginAuto, Start, Goto, envVars
<1>3. ASSUME NEW c \in Calls, TryTcpEnv(c) PROVE CallTypes'
  BY <1>3 DEF TryTcpEnv, Spawn, MarkMux, Goto, trVars, envVars
<1>4. ASSUME NEW c \in Calls, FindMux(c) PROVE CallTypes'
  BY <1>4 DEF FindMux, Dial, Abandon, Goto, trVars, envVars
<1>5. ASSUME NEW c \in Calls, StickyPoll(c) PROVE CallTypes'
  BY <1>5 DEF StickyPoll, Dial, Goto, envVars
<1>6. ASSUME NEW c \in Calls, Scan(c) PROVE CallTypes'
  BY <1>6 DEF Scan, Dial, Abandon, Goto, trVars, envVars
<1>7. ASSUME NEW c \in Calls, WaitForDevice(c) PROVE CallTypes'
  BY <1>7 DEF WaitForDevice, Dial, Goto, envVars
<1>8. ASSUME NEW c \in Calls, Open(c) PROVE CallTypes'
  BY <1>8 DEF Open, Spawn, MarkMux, CanOpen, Abandon, Goto, envVars
<1>9. ASSUME NEW c \in Calls, Ping(c) PROVE CallTypes'
  BY <1>9 DEF Ping, Fails, Abandon, Goto, trVars, envVars
<1>10. ASSUME NEW c \in Calls, GetInfo(c) PROVE CallTypes'
  <2>1. CASE Ready(c)
    BY <1>10, <2>1, ReadyTypes DEF GetInfo, Probing
  <2>2. CASE Abandon(c) /\ UNCHANGED winner
    BY <2>2, FailsTypes
  <2>3. CASE Goto(c, "prepared") /\ UNCHANGED <<call, winner>>
    BY <2>3 DEF Goto
  <2> QED
    BY <1>10, <2>1, <2>2, <2>3 DEF GetInfo, Fails
<1>11. ASSUME NEW c \in Calls, SetConfig(c) PROVE CallTypes'
  <2>1. CASE Ready(c)
    BY <1>11, <2>1, ReadyTypes DEF SetConfig, Probing
  <2>2. CASE Abandon(c) /\ UNCHANGED winner
    BY <2>2, FailsTypes
  <2> QED
    BY <1>11, <2>1, <2>2 DEF SetConfig, Fails
<1>12. ASSUME NEW c \in Calls, Cancel(c) PROVE CallTypes'
  BY <1>12 DEF Cancel, Abandon, Goto, envVars
<1>13. ASSUME NEW c \in Calls, Close(c) PROVE CallTypes'
  BY <1>13 DEF Close, Goto, trVars, envVars
<1>14. ASSUME NEW c \in Calls, DropDongle(c) PROVE CallTypes'
  BY <1>14 DEF DropDongle, Goto, envVars
<1>15. ASSUME NEW c \in Calls, ReaderEnds(c) PROVE CallTypes'
  BY <1>15 DEF ReaderEnds, envVars
<1>16. ASSUME NEW x \in Places, Appear(x) \/ Vanish(x) PROVE CallTypes'
  BY <1>16 DEF Appear, Vanish, trVars, envVars
<1>17. ASSUME UNCHANGED vars PROVE CallTypes'
  BY <1>17 DEF vars, trVars, envVars
<1> QED
  BY <1>1, <1>2, <1>3, <1>4, <1>5, <1>6, <1>7, <1>8, <1>9, <1>10, <1>11, <1>12, <1>13, <1>14, <1>15, <1>16, <1>17 DEF Next, CallStep

\* A transport leads to a place, also when only the reader task is left of it.
LEMMA TransportStep ==
  ASSUME SurroundTypes, CallTypes, TransportTypes, [Next]_vars
  PROVE  TransportTypes'
<1> USE DEF SurroundTypes, CallTypes, TransportTypes, SomewhereInv, Probing
<1>1. ASSUME NEW c \in Calls, BeginNamed(c) PROVE TransportTypes'
  <2>1. \E x \in Places : Dial(c, x)
    BY <1>1 DEF BeginNamed, Places
  <2>2. UNCHANGED <<writer, reader, link>>
    BY <1>1 DEF BeginNamed, Start
  <2> QED
    BY <2>1, <2>2, DialTypes
<1>2. ASSUME NEW c \in Calls, BeginAuto(c) PROVE TransportTypes'
  BY <1>2 DEF BeginAuto, Start, Goto, envVars
<1>3. ASSUME NEW c \in Calls, TryTcpEnv(c) PROVE TransportTypes'
  <2>1. CASE \E x \in up : Spawn(c, x)
    BY <2>1, SpawnTypes
  <2>2. CASE UNCHANGED trVars
    <3>1. pc' = [pc EXCEPT ![c] = IF call[c].entry = "connect_with" /\ call[c].sticky THEN "poll" ELSE "find"] \/ Spawn(c, <<"tcp", TcpEndpoint>>)
      BY <1>3 DEF TryTcpEnv, Goto
    <3> QED
      BY <2>2, <3>1 DEF trVars, Spawn, Goto
  <2> QED
    BY <1>3, <2>1, <2>2 DEF TryTcpEnv
<1>4. ASSUME NEW c \in Calls, FindMux(c) PROVE TransportTypes'
  <2>1. CASE find_mux_socket # Nil
    BY <1>4, <2>1, LooksForPlaces, DialTypes DEF FindMux
  <2>2. CASE Abandon(c)
    BY <2>2, AbandonTypes
  <2>3. CASE Goto(c, "scan") /\ UNCHANGED trVars
    BY <2>3 DEF Goto, trVars
  <2> QED
    BY <1>4, <2>1, <2>2, <2>3 DEF FindMux
<1>5. ASSUME NEW c \in Calls, StickyPoll(c) PROVE TransportTypes'
  BY <1>5, LooksForPlaces DEF StickyPoll, Dial, Goto, envVars
<1>6. ASSUME NEW c \in Calls, Scan(c) PROVE TransportTypes'
  <2>1. CASE \E p \in find_port : Dial(c, <<"serial", p>>) /\ UNCHANGED <<writer, reader, link>>
    BY <2>1, LooksForPlaces, DialTypes
  <2>2. CASE Abandon(c)
    BY <2>2, AbandonTypes
  <2>3. CASE Goto(c, "wait") /\ UNCHANGED trVars
    BY <2>3 DEF Goto, trVars
  <2> QED
    BY <1>6, <2>1, <2>2, <2>3 DEF Scan
<1>7. ASSUME NEW c \in Calls, WaitForDevice(c) PROVE TransportTypes'
  BY <1>7, LooksForPlaces DEF WaitForDevice, Dial, Goto, envVars
<1>8. ASSUME NEW c \in Calls, Open(c) PROVE TransportTypes'
  <2>1. CASE CanOpen(place[c]) /\ Spawn(c, place[c])
    BY <2>1, SpawnTypes DEF CanOpen
  <2>2. CASE Abandon(c)
    BY <2>2, AbandonTypes
  <2> QED
    BY <1>8, <2>1, <2>2 DEF Open
<1>9. ASSUME NEW c \in Calls, Ping(c) PROVE TransportTypes'
  <2>1. CASE Goto(c, "info") /\ UNCHANGED trVars
    BY <1>9, <2>1, ProbesOn DEF Ping, Probing
  <2>2. CASE Abandon(c)
    BY <2>2, AbandonTypes
  <2> QED
    BY <1>9, <2>1, <2>2 DEF Ping, Fails
<1>10. ASSUME NEW c \in Calls, GetInfo(c) PROVE TransportTypes'
  <2>1. CASE (Goto(c, "prepared") \/ Goto(c, "ready")) /\ UNCHANGED trVars
    BY <1>10, <2>1, ProbesOn DEF GetInfo, Probing
  <2>2. CASE Abandon(c)
    BY <2>2, AbandonTypes
  <2> QED
    BY <1>10, <2>1, <2>2 DEF GetInfo, Ready, Fails
<1>11. ASSUME NEW c \in Calls, SetConfig(c) PROVE TransportTypes'
  <2>1. CASE Goto(c, "ready") /\ UNCHANGED trVars
    BY <1>11, <2>1, ProbesOn DEF SetConfig, Probing
  <2>2. CASE Abandon(c)
    BY <2>2, AbandonTypes
  <2> QED
    BY <1>11, <2>1, <2>2 DEF SetConfig, Ready, Fails
<1>12. ASSUME NEW c \in Calls, Cancel(c) PROVE TransportTypes'
  BY <1>12, AbandonTypes DEF Cancel
<1>13. ASSUME NEW c \in Calls, Close(c) PROVE TransportTypes'
  BY <1>13 DEF Close, Goto, trVars, envVars
<1>14. ASSUME NEW c \in Calls, DropDongle(c) PROVE TransportTypes'
  BY <1>14 DEF DropDongle, Goto, envVars
<1>15. ASSUME NEW c \in Calls, ReaderEnds(c) PROVE TransportTypes'
  BY <1>15 DEF ReaderEnds, envVars
<1>16. ASSUME NEW x \in Places, Appear(x) \/ Vanish(x) PROVE TransportTypes'
  BY <1>16, LooksForPlaces DEF Appear, Vanish, trVars, envVars
<1>17. ASSUME UNCHANGED vars PROVE TransportTypes'
  BY <1>17 DEF vars, trVars, envVars
<1> QED
  BY <1>1, <1>2, <1>3, <1>4, <1>5, <1>6, <1>7, <1>8, <1>9, <1>10, <1>11, <1>12, <1>13, <1>14, <1>15, <1>16, <1>17 DEF Next, CallStep

\* A Session comes with an open transport, and goes when its call fails or its Dongle is
\* dropped.
LEMMA SessionStep ==
  ASSUME CallTypes, TransportTypes, SessionInv, [Next]_vars
  PROVE  SessionInv'
<1>0. pc \in [Calls -> {"idle"} \cup Dialing \cup Returned] /\ writer \in [Calls -> BOOLEAN]
  BY DEF CallTypes, TransportTypes
<1> USE <1>0 DEF SessionInv, HasSession
<1>1. ASSUME NEW c \in Calls, BeginNamed(c) PROVE SessionInv'
  BY <1>1 DEF BeginNamed, Start, Dial, Goto
<1>2. ASSUME NEW c \in Calls, BeginAuto(c) PROVE SessionInv'
  BY <1>2 DEF BeginAuto, Start, Goto
<1>3. ASSUME NEW c \in Calls, TryTcpEnv(c) PROVE SessionInv'
  BY <1>3 DEF TryTcpEnv, Spawn, Goto, trVars
<1>4. ASSUME NEW c \in Calls, FindMux(c) PROVE SessionInv'
  BY <1>4 DEF FindMux, Dial, Abandon, Goto, trVars
<1>5. ASSUME NEW c \in Calls, StickyPoll(c) PROVE SessionInv'
  BY <1>5 DEF StickyPoll, Dial, Goto
<1>6. ASSUME NEW c \in Calls, Scan(c) PROVE SessionInv'
  BY <1>6 DEF Scan, Dial, Abandon, Goto, trVars
<1>7. ASSUME NEW c \in Calls, WaitForDevice(c) PROVE SessionInv'
  BY <1>7 DEF WaitForDevice, Dial, Goto
<1>8. ASSUME NEW c \in Calls, Open(c) PROVE SessionInv'
  BY <1>8 DEF Open, Spawn, Abandon, Goto
<1>9. ASSUME NEW c \in Calls, Ping(c) PROVE SessionInv'
  BY <1>9 DEF Ping, Fails, Abandon, Goto, trVars
<1>10. ASSUME NEW c \in Calls, GetInfo(c) PROVE SessionInv'
  BY <1>10 DEF GetInfo, Ready, Fails, Abandon, Goto, trVars
<1>11. ASSUME NEW c \in Calls, SetConfig(c) PROVE SessionInv'
  BY <1>11 DEF SetConfig, Ready, Fails, Abandon, Goto, trVars
<1>12. ASSUME NEW c \in Calls, Cancel(c) PROVE SessionInv'
  BY <1>12 DEF Cancel, Abandon, Goto
<1>13. ASSUME NEW c \in Calls, Close(c) PROVE SessionInv'
  BY <1>13 DEF Close, Goto, trVars
<1>14. ASSUME NEW c \in Calls, DropDongle(c) PROVE SessionInv'
  BY <1>14 DEF DropDongle, Goto
<1>15. ASSUME NEW c \in Calls, ReaderEnds(c) PROVE SessionInv'
  BY <1>15 DEF ReaderEnds
<1>16. ASSUME NEW x \in Places, Appear(x) \/ Vanish(x) PROVE SessionInv'
  BY <1>16 DEF Appear, Vanish, trVars
<1>17. ASSUME UNCHANGED vars PROVE SessionInv'
  BY <1>17 DEF vars, trVars
<1> QED
  BY <1>1, <1>2, <1>3, <1>4, <1>5, <1>6, <1>7, <1>8, <1>9, <1>10, <1>11, <1>12, <1>13, <1>14, <1>15, <1>16, <1>17 DEF Next, CallStep

\* Every reachable state is well typed: in particular a reader task that outlives its call
\* holds a transport to some place, a Session exists just as long as a call probes with it or
\* a Dongle has it, and only a mux is ever the winner.
THEOREM ConnectTypes == Spec => []TypeOK
<1> DEFINE T == SurroundTypes /\ CallTypes /\ TransportTypes /\ SessionInv
<1>1. Init => T
  <2> SUFFICES ASSUME Init PROVE T
    OBVIOUS
  <2>1. SurroundTypes
    <3>1. up \subseteq Places /\ used_mux \in BOOLEAN /\ environ \in Environs
      BY PlaceAssumption DEF Init
    <3>2. files \subseteq SocketPaths
      BY DEF Init
    <3>3. flips \in 0 .. MaxFlips
      BY PortsAssumption DEF Init
    <3> QED
      BY <3>1, <3>2, <3>3 DEF SurroundTypes
  <2>2. CallTypes
    BY DEF Init, CallTypes
  <2>3. TransportTypes
    BY DEF Init, TransportTypes, SomewhereInv, Probing
  <2>4. SessionInv
    BY DEF Init, SessionInv, HasSession
  <2> QED
    BY <2>1, <2>2, <2>3, <2>4
<1>2. T /\ [Next]_vars => T'
  BY SurroundStep, CallTypesStep, TransportStep, SessionStep
<1>3. T /\ PrepInv => TypeOK
  BY DEF SurroundTypes, CallTypes, TransportTypes, SessionInv, PrepInv, TypeOK
<1> QED
  BY <1>1, <1>2, <1>3, ConnectInvariant, PTL DEF Spec

\* USED_MUX: once a Dongle was returned for a mux, no connect that begins later opens
\* a serial port its caller did not name.
THEOREM ProcessStaysOnMux == Spec => []StaysOnMux
<1>1. AfterInv /\ StickyInv => StaysOnMux
  BY DEF AfterInv, StickyInv, StaysOnMux
<1> QED
  BY <1>1, ConnectInvariant, PTL

\* finalize: what prepare_config made of a request is right for the device at hand.
THEOREM SentConfigFits == Spec => []ConfigFits
<1>1. PrepInv => ConfigFits
  BY PrepareIsRight, InfoAssumption DEF PrepInv, ConfigFits
<1> QED
  BY <1>1, ConnectInvariant, PTL

=============================================================================
