------------------------------ MODULE MCConnect ------------------------------
(* Instances of Connect for TLC. *)
EXTENDS Connect

Localhost == <<"localhost", 7000>>

Value(h, p) == [host |-> h, port |-> p]

\* A socket path, with a TCP endpoint whose port is none; XDG, with one without a host.
SomeEnvirons ==
  {[set |-> {"DONGLORA_MUX"}, tcp |-> Value("elsewhere", 65536)],
   [set |-> {"XDG_RUNTIME_DIR"}, tcp |-> Value("", 7000)]}
LocalEndpoint == {Localhost}

\* Nothing; or a device and a mux.
SomeUp == {{}, {<<"serial", "native">>, <<"unix", "/tmp">>}}

\* Capabilities with the edges of every range within the requests, and an SF and a BW
\* that are not supported.
SomeInfos == {[freq_min_hz |-> 863, freq_max_hz |-> 928, supported_sf_bitmap |-> {7, 12},
               supported_bw_bitmap |-> {0, 9}, tx_power_min_dbm |-> -1, tx_power_max_dbm |-> 1]}
LoRa(f, s, b, p) == [id |-> "LoRa", freq_hz |-> f, sf |-> s, bw |-> b, tx_power_dbm |-> p]
SomeModulations ==
  {LoRa(928, 7, 9, 2), LoRa(863, 12, 0, -2), LoRa(929, 7, 9, 0), LoRa(928, 23, 9, 0),
   LoRa(928, 8, 9, 0), LoRa(928, 7, 5, 0),
   [LoRa(50, 0, 1, 30) EXCEPT !.id = "Other"]}
=============================================================================
