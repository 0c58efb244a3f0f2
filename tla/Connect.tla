------------------------------- MODULE Connect -------------------------------
(****************************************************************************)
(* The connect functions of src/src/connect.rs with the USB scan of         *)
(* src/src/discovery.rs, the opening of a transport                         *)
(* (src/src/transport.rs), and what holds a transport open until the Dongle *)
(* is closed and dropped.                                                   *)
(*                                                                          *)
(* A member of Calls is one call of a connect function and the Dongle it    *)
(* may return.  connect, try_connect and connect_mux_auto are the _with     *)
(* functions with default options.  A place is where a transport leads: a   *)
(* serial port, a mux on a Unix socket, or a mux on a TCP endpoint.         *)
(*                                                                          *)
(* Session calls (PING, GET_INFO, SET_CONFIG) are one step each: they       *)
(* succeed while the peer is there, and may fail (module Session).          *)
(* Sleeps take any time.  Unix targets only, as tested by the repository.   *)
(*                                                                          *)
(* Muxes, sockets and USB devices are not under src/: they come and go.     *)
(****************************************************************************)
EXTENDS PrepareConfig, Sequences

CONSTANTS
  Calls,        \* calls of connect functions
  EntryKinds,   \* the functions they may be of
  Ports,        \* serial ports with a known VID:PID
  Native,       \* those with USB_VID:USB_PID; the others are bridge chips
  Environs,     \* possible process environments (see IsEnviron)
  Endpoints,    \* TCP endpoints a mux may listen on: <<host, port>>
  Infos,        \* what GET_INFO may report
  Modulations,  \* configurations a caller may ask for
  UpAtStart,    \* sets of places that may be up at the start
  MaxFlips,     \* bound on the changes of the environment
  Env,          \* what else may happen: a subset of EnvEvents
  Nil

Entries == {"connect_with", "try_connect_with", "connect_mux_auto_with",
            "mux_unix_connect", "mux_tcp_connect"}

\* "fail": what can be done fails all the same, or takes too long.  "cancel": the future of
\* a connect is dropped.  "port": callers name a serial port in their options.
EnvEvents == {"fail", "cancel", "port"}

SocketPaths == {"DONGLORA_MUX", "XDG_RUNTIME_DIR", "/tmp"}

\* The process environment: the set variables among those that name a socket, and
\* the value of DONGLORA_MUX_TCP.  A value without a host ("7000", ":7000") has the
\* host ""; one whose port is not a u16 has a port outside 0 .. 65535.
IsEnviron(e) ==
  /\ e.set \subseteq {"DONGLORA_MUX", "XDG_RUNTIME_DIR"}
  /\ e.tcp = Nil \/ (e.tcp.host \in STRING /\ e.tcp.port \in Int)

Serial == {<<"serial", p>> : p \in Ports}
Unix   == {<<"unix", p>> : p \in SocketPaths}
Tcp    == {<<"tcp", e>> : e \in Endpoints}
Places == Serial \cup Unix \cup Tcp

ASSUME EntriesAssumption == EntryKinds \subseteq Entries /\ Env \subseteq EnvEvents
ASSUME PortsAssumption   == Native \subseteq Ports /\ MaxFlips \in Nat
ASSUME EnvironAssumption == \A e \in Environs : IsEnviron(e)
ASSUME InfoAssumption    == (\A i \in Infos : IsInfo(i)) /\ (\A m \in Modulations : IsModulation(m))
ASSUME PlaceAssumption   == UpAtStart \subseteq SUBSET Places /\ Nil \notin Places

VARIABLES
  used_mux,  \* USED_MUX
  environ,   \* the process environment
  pc,        \* per call: where it is
  call,      \* per call under way: its function, what it read from USED_MUX, and,
             \* for the properties, whether it named its place and the winner so far
  place,     \* per call: where its transport leads, or is to lead (TransportKind)
  prep,      \* per call: the configuration check under way
  writer,    \* per call: the Session, with the write half of the transport, exists
  reader,    \* per call: the reader task, with the read half, exists
  link,      \* per call: the peer it is connected to is still there
  up,        \* places where a device is plugged in or a mux listens
  files,     \* socket paths that exist
  flips,     \* changes of the environment so far
  winner     \* history: the place of the first mux a Dongle was returned for

trVars  == <<place, writer, reader, link>>
envVars == <<environ, up, files, flips>>

vars == <<pc, call, prep, trVars, envVars, used_mux, winner>>

Dialing    == {"tcp", "find", "scan", "wait", "poll", "dial", "ping", "info", "prepared"}
HasSession == {"ping", "info", "prepared", "ready", "closed"}
Returned   == {"ready", "closed", "dropped", "gone", "failed"}

CallRecords == [entry : Entries, sticky : BOOLEAN, named : BOOLEAN, after : Unix \cup Tcp \cup {Nil}]

TypeOK ==
  /\ used_mux \in BOOLEAN /\ environ \in Environs
  /\ pc \in [Calls -> {"idle"} \cup Dialing \cup Returned]
  /\ call \in [Calls -> CallRecords \cup {Nil}]
  /\ {writer, reader, link} \subseteq [Calls -> BOOLEAN] /\ \A c \in Calls : writer[c] <=> pc[c] \in HasSession
  /\ place \in [Calls -> Places \cup {Nil}] /\ \A c \in Calls : reader[c] => place[c] # Nil
  /\ \A c \in Calls : prep[c] # Nil => prep[c].info \in Infos /\ prep[c].asked \in Modulations
  /\ up \subseteq Places /\ files \subseteq SocketPaths /\ flips \in 0 .. MaxFlips
  /\ winner \in Unix \cup Tcp \cup {Nil}

\* A mux that is up has its socket file; another file was left by one that crashed.
Init ==
  /\ used_mux = FALSE /\ environ \in Environs
  /\ pc = [c \in Calls |-> "idle"] /\ call = [c \in Calls |-> Nil]
  /\ place = [c \in Calls |-> Nil] /\ prep = [c \in Calls |-> Nil]
  /\ writer = [c \in Calls |-> FALSE] /\ reader = [c \in Calls |-> FALSE]
  /\ link = [c \in Calls |-> FALSE]
  /\ up \in UpAtStart
  /\ files = {p \in SocketPaths : <<"unix", p>> \in up} /\ flips = 0
  /\ winner = Nil

(****************************************************************************)
(* Where to look                                                            *)
(****************************************************************************)

default_socket_path ==
  IF "DONGLORA_MUX" \in environ.set THEN "DONGLORA_MUX"
  ELSE IF "XDG_RUNTIME_DIR" \in environ.set THEN "XDG_RUNTIME_DIR" ELSE "/tmp"

\* A path that exists is taken for a live socket.
find_mux_socket ==
  LET candidates == IF "DONGLORA_MUX" \in environ.set THEN <<"DONGLORA_MUX">>
                    ELSE IF "XDG_RUNTIME_DIR" \in environ.set THEN <<"XDG_RUNTIME_DIR", "/tmp">>
                    ELSE <<"/tmp">>
      present    == {i \in DOMAIN candidates : candidates[i] \in files}
  IN IF present = {} THEN Nil ELSE candidates[CHOOSE i \in present : \A j \in present : i <= j]

parse_tcp_endpoint(v) ==
  IF v.port \in 0 .. 65535
  THEN <<IF v.host = "" THEN "localhost" ELSE v.host, v.port>>
  ELSE Nil

\* The endpoint of try_tcp_env, if the variable is set and parses.
TcpEndpoint == IF environ.tcp = Nil THEN Nil ELSE parse_tcp_endpoint(environ.tcp)

Usb == {p \in Ports : <<"serial", p>> \in up}

\* Mutant of find_port: bridge chips are not looked for.
FindNative == Usb \cap Native

\* The ports find_port may return: the order of the scan is the system's.
find_port == IF Usb \cap Native # {} THEN Usb \cap Native ELSE Usb

\* It returns None; also when the ports cannot be listed.
NoPort == find_port = {} \/ "fail" \in Env

(****************************************************************************)
(* Transports                                                               *)
(****************************************************************************)

Holds(c) == writer[c] \/ reader[c]

\* A serial port is opened exclusively; the file of a mux that is gone refuses.
CanOpen(x) ==
  x \in up /\ (x \in Serial => \A c \in Calls : Holds(c) => place[c] # x)

Goto(c, l)  == pc' = [pc EXCEPT ![c] = l]
Dial(c, x)  == place' = [place EXCEPT ![c] = x] /\ Goto(c, "dial")

\* Mutant of MarkMux: an explicit mux connect leaves the flag alone.
MarkAuto(c, x) == used_mux' = (used_mux \/ (x \notin Serial /\ ~call[c].named))

\* USED_MUX.store(true), once the transport to a mux is open.
MarkMux(c, x) == used_mux' = (used_mux \/ x \notin Serial)

\* The transport to x is open: Session::spawn splits it.
Spawn(c, x) ==
  /\ place' = [place EXCEPT ![c] = x] /\ Goto(c, "ping")
  /\ writer' = [writer EXCEPT ![c] = TRUE] /\ reader' = [reader EXCEPT ![c] = TRUE]
  /\ link' = [link EXCEPT ![c] = TRUE]
  /\ MarkMux(c, x)
  /\ UNCHANGED <<call, prep>>

\* The call ends without a Dongle.  A Session it had is dropped, and with it the
\* write half; its reader task is detached, not stopped.
Abandon(c) ==
  /\ Goto(c, "failed")
  /\ call' = [call EXCEPT ![c] = Nil] /\ prep' = [prep EXCEPT ![c] = Nil]
  /\ place' = [place EXCEPT ![c] = IF reader[c] THEN @ ELSE Nil]
  /\ writer' = [writer EXCEPT ![c] = FALSE]
  /\ UNCHANGED <<reader, link>>

(****************************************************************************)
(* The connect functions                                                    *)
(****************************************************************************)

Start(c, e, isNamed) ==
  /\ pc[c] = "idle" /\ e \in EntryKinds
  /\ call' = [call EXCEPT ![c] = [entry |-> e, sticky |-> used_mux, named |-> isNamed, after |-> winner]]
  /\ UNCHANGED <<prep, writer, reader, link, envVars, used_mux, winner>>

\* An explicit serial port in the options, or an explicit mux.
BeginNamed(c) ==
  \/ /\ "port" \in Env
     /\ \E e \in {"connect_with", "try_connect_with"}, x \in Serial : Start(c, e, TRUE) /\ Dial(c, x)
  \/ \E x \in Unix : Start(c, "mux_unix_connect", TRUE) /\ Dial(c, x)
  \/ \E x \in Tcp : Start(c, "mux_tcp_connect", TRUE) /\ Dial(c, x)

\* try_connect_with, when sticky, does not try TCP; connect_mux_auto_with does not
\* ask whether it is sticky.
BeginAuto(c) ==
  \E e \in {"connect_with", "try_connect_with", "connect_mux_auto_with"} :
    /\ Start(c, e, FALSE)
    /\ Goto(c, IF e = "try_connect_with" /\ used_mux THEN "find" ELSE "tcp")
    /\ UNCHANGED place

TryTcpEnv(c) ==
  /\ pc[c] = "tcp"
  /\ LET x == <<"tcp", TcpEndpoint>> IN
     \/ TcpEndpoint # Nil /\ x \in up /\ Spawn(c, x)
     \/ /\ TcpEndpoint = Nil \/ x \notin up \/ "fail" \in Env
        /\ Goto(c, IF call[c].entry = "connect_with" /\ call[c].sticky THEN "poll" ELSE "find")
        /\ UNCHANGED <<call, prep, trVars, used_mux>>
  /\ UNCHANGED <<envVars, winner>>

FindMux(c) ==
  /\ pc[c] = "find"
  /\ IF find_mux_socket # Nil
     THEN Dial(c, <<"unix", find_mux_socket>>) /\ UNCHANGED <<call, prep, writer, reader, link>>
     ELSE IF \/ call[c].entry = "connect_mux_auto_with"
             \/ call[c].entry = "try_connect_with" /\ call[c].sticky
          THEN Abandon(c)
          ELSE Goto(c, "scan") /\ UNCHANGED <<call, prep, trVars>>
  /\ UNCHANGED <<envVars, used_mux, winner>>

\* connect_mux_sticky's loop: one path, looked at again and again.
StickyPoll(c) ==
  /\ pc[c] = "poll" /\ default_socket_path \in files
  /\ Dial(c, <<"unix", default_socket_path>>)
  /\ UNCHANGED <<call, prep, writer, reader, link, envVars, used_mux, winner>>

Scan(c) ==
  /\ pc[c] = "scan"
  /\ \/ \E p \in find_port : Dial(c, <<"serial", p>>) /\ UNCHANGED <<call, prep, writer, reader, link>>
     \/ NoPort /\ call[c].entry = "try_connect_with" /\ Abandon(c)
     \/ /\ NoPort /\ call[c].entry = "connect_with" /\ Goto(c, "wait")
        /\ UNCHANGED <<call, prep, trVars>>
  /\ UNCHANGED <<envVars, used_mux, winner>>

\* The device may be gone again when the settle time is over.
WaitForDevice(c) ==
  /\ pc[c] = "wait"
  /\ \E p \in find_port : Dial(c, <<"serial", p>>)
  /\ UNCHANGED <<call, prep, writer, reader, link, envVars, used_mux, winner>>

Open(c) ==
  /\ pc[c] = "dial"
  /\ \/ CanOpen(place[c]) /\ Spawn(c, place[c])
     \/ (~CanOpen(place[c]) \/ "fail" \in Env) /\ Abandon(c) /\ UNCHANGED used_mux
  /\ UNCHANGED <<envVars, winner>>

(****************************************************************************)
(* finalize                                                                 *)
(****************************************************************************)

\* ConnectOptions, as far as finalize reads them.
NewOptions            == [config |-> Nil, auto_configure |-> FALSE]
config(o, m)          == [o EXCEPT !.config = m, !.auto_configure = TRUE]
auto_configure(o, on) == [o EXCEPT !.auto_configure = on]

\* What a caller may have built; an explicit mux connect passes ConnectOptions::new().
OptionsOf(e) ==
  IF e \in {"mux_unix_connect", "mux_tcp_connect"} THEN {NewOptions}
  ELSE LET configured == {config(NewOptions, m) : m \in Modulations}
       IN {auto_configure(o, on) : o \in configured \cup {NewOptions}, on \in BOOLEAN} \cup configured

\* The Dongle is returned.
Ready(c) ==
  /\ Goto(c, "ready")
  /\ call' = [call EXCEPT ![c] = Nil] /\ prep' = [prep EXCEPT ![c] = Nil]
  /\ winner' = IF winner = Nil /\ place[c] \notin Serial THEN place[c] ELSE winner
  /\ UNCHANGED trVars

\* A session call fails, and with it the connect.
Fails(c) == (~link[c] \/ "fail" \in Env) /\ Abandon(c) /\ UNCHANGED winner

Ping(c) ==
  /\ pc[c] = "ping"
  /\ \/ link[c] /\ Goto(c, "info") /\ UNCHANGED <<call, prep, trVars, winner>>
     \/ Fails(c)
  /\ UNCHANGED <<envVars, used_mux>>

\* GET_INFO, and prepare_config if the options want it.  They are chosen where they
\* are first read.
GetInfo(c) ==
  /\ pc[c] = "info"
  /\ \/ /\ link[c]
        /\ \E i \in Infos, o \in OptionsOf(call[c].entry) :
             IF o.auto_configure /\ o.config # Nil
             THEN /\ prep' = [prep EXCEPT ![c] = [info |-> i, asked |-> o.config,
                                                 out |-> prepare_config(i, o.config)]]
                  /\ Goto(c, "prepared") /\ UNCHANGED <<call, trVars, winner>>
             ELSE Ready(c)
     \/ Fails(c)
  /\ UNCHANGED <<envVars, used_mux>>

\* SET_CONFIG with what prepare_config returned, or the error (or panic) it ended in.
SetConfig(c) ==
  /\ pc[c] = "prepared"
  /\ \/ prep[c].out # {} /\ ((link[c] /\ Ready(c)) \/ Fails(c))
     \/ /\ prep[c].out = {} \/ PrepareMayPanic(prep[c].info, prep[c].asked)
        /\ Abandon(c) /\ UNCHANGED winner
  /\ UNCHANGED <<envVars, used_mux>>

(****************************************************************************)
(* What becomes of the transport                                            *)
(****************************************************************************)

\* The caller drops the future, as one that wraps it in a timeout does.
Cancel(c) ==
  /\ "cancel" \in Env /\ pc[c] \in Dialing
  /\ Abandon(c)
  /\ UNCHANGED <<envVars, used_mux, winner>>

\* Dongle::close aborts the reader task; the Session stays.
Close(c) ==
  /\ pc[c] = "ready" /\ Goto(c, "closed")
  /\ UNCHANGED <<call, prep, trVars, envVars, used_mux, winner>>

\* Mutant of DropDongle: the keepalive task is not aborted and holds on to the Session.
DropDongleHeld(c) ==
  /\ pc[c] \in {"ready", "closed"}
  /\ Goto(c, IF pc[c] = "ready" THEN "dropped" ELSE "gone")
  /\ UNCHANGED <<call, prep, trVars, envVars, used_mux, winner>>

\* Drop for Dongle aborts the keepalive; the last reference to the Session goes.
DropDongle(c) ==
  /\ pc[c] \in {"ready", "closed"}
  /\ Goto(c, IF pc[c] = "ready" THEN "dropped" ELSE "gone")
  /\ writer' = [writer EXCEPT ![c] = FALSE]
  /\ UNCHANGED <<call, prep, place, reader, link, envVars, used_mux, winner>>

\* The reader task ends at the end of its input, or when close aborted it.
ReaderEnds(c) ==
  /\ reader[c] /\ (~link[c] \/ pc[c] \in {"closed", "gone"})
  /\ reader' = [reader EXCEPT ![c] = FALSE]
  /\ UNCHANGED <<pc, call, prep, place, writer, link, envVars, used_mux, winner>>

(****************************************************************************)
(* Devices and muxes come and go                                            *)
(****************************************************************************)

Appear(x) ==
  /\ flips < MaxFlips /\ flips' = flips + 1
  /\ x \notin up /\ up' = up \cup {x}
  /\ files' = files \cup IF x \in Unix THEN {x[2]} ELSE {}
  /\ UNCHANGED <<pc, call, prep, trVars, environ, used_mux, winner>>

\* A mux that exits removes its socket file; one that crashes leaves it.
Vanish(x) ==
  /\ flips < MaxFlips /\ flips' = flips + 1
  /\ x \in up /\ up' = up \ {x}
  /\ \/ UNCHANGED files
     \/ x \in Unix /\ files' = files \ {x[2]}
  /\ link' = [c \in Calls |-> link[c] /\ place[c] # x]
  /\ UNCHANGED <<pc, call, prep, place, writer, reader, environ, used_mux, winner>>

(****************************************************************************)
(* The specification                                                        *)
(****************************************************************************)

CallStep(c) ==
  \/ TryTcpEnv(c) \/ FindMux(c) \/ StickyPoll(c) \/ Scan(c) \/ WaitForDevice(c) \/ Open(c)
  \/ Ping(c) \/ GetInfo(c) \/ SetConfig(c)

Next ==
  \/ \E c \in Calls : \/ BeginNamed(c) \/ BeginAuto(c) \/ CallStep(c) \/ Cancel(c)
                      \/ Close(c) \/ DropDongle(c) \/ ReaderEnds(c)
  \/ \E x \in Places : Appear(x) \/ Vanish(x)

Spec == Init /\ [][Next]_vars

\* Tasks are polled and deadlines pass; nobody has to call, close or plug in.
FairSpec == Spec /\ \A c \in Calls : WF_vars(CallStep(c))

(****************************************************************************)
(* Properties                                                               *)
(****************************************************************************)

\* USED_MUX: once a Dongle was returned for a mux, by whichever function, no connect
\* that begins later opens a serial port, unless its caller named the port.
StaysOnMux ==
  \A c \in Calls :
    call[c] # Nil => (call[c].after # Nil /\ ~call[c].named => place[c] \notin Serial)

\* prepare_config in finalize: what goes out is right for the device at hand, unless
\* the spreading factor is beyond the bits of a u16.
ConfigFits ==
  \A c \in Calls :
    prep[c] # Nil /\ prep[c].asked.id = "LoRa" /\ ~ShlPanics(prep[c].asked.sf)
      => PreparedRight(prep[c].info, prep[c].asked, prep[c].out)

\* Every connect function returns, or is one of the two that wait and has nothing
\* to go for: connect_with without a device on USB, or, sticky, without a socket at
\* default_socket_path (the mux may be back elsewhere).
OnlyWaitsForNothing ==
  \A c \in Calls :
    pc[c] \in Dialing ~> \/ pc[c] \in Returned
                         \/ pc[c] = "wait" /\ Usb = {}
                         \/ pc[c] = "poll" /\ default_socket_path \notin files

=============================================================================
