---------------------------- MODULE PrepareConfig ----------------------------
(****************************************************************************)
(* prepare_config of src/src/connect.rs: what the client does to a          *)
(* requested modulation, given the capabilities GET_INFO reported, before   *)
(* it sends SET_CONFIG.                                                     *)
(*                                                                          *)
(* The two u16 bitmaps of Info are the sets of their bits.  Of a LoRaConfig *)
(* the fields are kept that prepare_lora_config reads.                      *)
(****************************************************************************)
EXTENDS Integers

\* Info, as reported by a device.
IsInfo(info) ==
  /\ {info.freq_min_hz, info.freq_max_hz} \subseteq Nat
  /\ info.supported_sf_bitmap \subseteq 0 .. 15 /\ info.supported_bw_bitmap \subseteq 0 .. 15
  /\ info.tx_power_min_dbm \in Int /\ info.tx_power_max_dbm \in Int
  /\ info.tx_power_min_dbm <= info.tx_power_max_dbm

\* A Modulation: LoRa, or one of the others, which nobody looks into.
IsModulation(m) ==
  m \in [id : {"LoRa", "Other"}, freq_hz : Nat, sf : 0 .. 255, bw : 0 .. 15, tx_power_dbm : Int]

\* 1u16 << n, as the number of the bit that is set.  Without overflow checks the
\* shift amount is taken modulo 16; with them, a larger one panics.
shl16(n)    == n % 16
ShlPanics(n) == n > 15

\* Mutant of clamp: only the upper limit is looked at.
ClampAbove(p, info) == IF p > info.tx_power_max_dbm THEN info.tx_power_max_dbm ELSE p

clamp(p, info) ==
  IF p > info.tx_power_max_dbm THEN info.tx_power_max_dbm
  ELSE IF p < info.tx_power_min_dbm THEN info.tx_power_min_dbm ELSE p

\* The three checks that end in ConfigNotSupported.
Accepted(info, cfg) ==
  /\ ~(cfg.freq_hz < info.freq_min_hz \/ cfg.freq_hz > info.freq_max_hz)
  /\ shl16(cfg.sf) \in info.supported_sf_bitmap
  /\ shl16(cfg.bw) \in info.supported_bw_bitmap

\* The configuration it returns, as a set with one member; empty for an error.
prepare_lora_config(info, cfg) ==
  IF Accepted(info, cfg)
  THEN {[cfg EXCEPT !.tx_power_dbm = clamp(@, info)]}
  ELSE {}

prepare_config(info, m) ==
  IF m.id = "LoRa" THEN prepare_lora_config(info, m) ELSE {m}

\* A build with overflow checks stops here instead.
PrepareMayPanic(info, m) ==
  /\ m.id = "LoRa" /\ ShlPanics(m.sf)
  /\ ~(m.freq_hz < info.freq_min_hz \/ m.freq_hz > info.freq_max_hz)

(****************************************************************************)
(* What it is for                                                           *)
(****************************************************************************)

\* A device with these capabilities can take the configuration as it is.
Supports(info, m) ==
  /\ m.freq_hz \in info.freq_min_hz .. info.freq_max_hz
  /\ m.sf \in info.supported_sf_bitmap
  /\ m.bw \in info.supported_bw_bitmap
  /\ m.tx_power_dbm \in info.tx_power_min_dbm .. info.tx_power_max_dbm

Distance(a, b) == IF a < b THEN b - a ELSE a - b

\* The answer to a request a u16 can hold the bits of: a configuration the device
\* supports, which differs from the request in nothing but the power, and in that
\* as little as possible; an error only if no power would do.
PreparedRight(info, asked, out) ==
  /\ \A m \in out :
       /\ Supports(info, m)
       /\ m = [asked EXCEPT !.tx_power_dbm = m.tx_power_dbm]
       /\ \A p \in info.tx_power_min_dbm .. info.tx_power_max_dbm :
            Distance(asked.tx_power_dbm, m.tx_power_dbm) <= Distance(asked.tx_power_dbm, p)
  /\ out = {} => \A p \in info.tx_power_min_dbm .. info.tx_power_max_dbm :
                   ~Supports(info, [asked EXCEPT !.tx_power_dbm = p])

=============================================================================
