------------------------- MODULE PrepareConfigProofs -------------------------
(* That the configuration check does what it is for. *)
EXTENDS PrepareConfig, TLAPS

\* A shift amount within a u16 picks its own bit.
LEMMA ShlSmall ==
  ASSUME NEW n \in 0 .. 255, ~ShlPanics(n)
  PROVE  shl16(n) = n
<1>1. n \in 0 .. 15
  BY DEF ShlPanics
<1>2. n = 16 * 0 + n /\ 0 <= n /\ n < 16
  BY <1>1
<1> QED
  BY <1>1, <1>2 DEF shl16

\* The clamp is within the limits, and no number within them is closer.
LEMMA ClampNearest ==
  ASSUME NEW info, IsInfo(info), NEW p \in Int
  PROVE  /\ clamp(p, info) \in info.tx_power_min_dbm .. info.tx_power_max_dbm
         /\ \A q \in info.tx_power_min_dbm .. info.tx_power_max_dbm :
              Distance(p, clamp(p, info)) <= Distance(p, q)
<1> DEFINE lo == info.tx_power_min_dbm
           hi == info.tx_power_max_dbm
<1>1. lo \in Int /\ hi \in Int /\ lo <= hi
  BY DEF IsInfo
<1> HIDE DEF lo, hi
<1>2. clamp(p, info) = IF p > hi THEN hi ELSE IF p < lo THEN lo ELSE p
  BY DEF clamp, lo, hi
<1>3. clamp(p, info) \in lo .. hi
  BY <1>1, <1>2
<1>4. \A q \in lo .. hi : Distance(p, clamp(p, info)) <= Distance(p, q)
  BY <1>1, <1>2 DEF Distance
<1> QED
  BY <1>3, <1>4 DEF lo, hi

\* prepare_config, for every device and every LoRa request whose spreading factor is
\* below 16: what it returns is right.
THEOREM PrepareIsRight ==
  ASSUME NEW info, IsInfo(info), NEW m, IsModulation(m), m.id = "LoRa", ~ShlPanics(m.sf)
  PROVE  PreparedRight(info, m, prepare_config(info, m))
<1> DEFINE lo  == info.tx_power_min_dbm
           hi  == info.tx_power_max_dbm
           pow == clamp(m.tx_power_dbm, info)
           out == [m EXCEPT !.tx_power_dbm = pow]
<1>1. m.sf \in 0 .. 255 /\ m.bw \in 0 .. 15 /\ m.tx_power_dbm \in Int /\ m.freq_hz \in Nat
  BY DEF IsModulation
<1>2. shl16(m.sf) = m.sf
  BY <1>1, ShlSmall
<1>3. shl16(m.bw) = m.bw
  <2>1. m.bw \in 0 .. 255 /\ ~ShlPanics(m.bw)
    BY <1>1 DEF ShlPanics
  <2> QED
    BY <2>1, ShlSmall
<1>4. /\ pow \in lo .. hi
      /\ \A q \in lo .. hi : Distance(m.tx_power_dbm, pow) <= Distance(m.tx_power_dbm, q)
  BY <1>1, ClampNearest
<1>5. info.freq_min_hz \in Nat /\ info.freq_max_hz \in Nat /\ lo \in Int /\ hi \in Int /\ lo <= hi
  BY DEF IsInfo
<1>6. \A p \in Int : Supports(info, [m EXCEPT !.tx_power_dbm = p]) <=> Accepted(info, m) /\ p \in lo .. hi
  <2> TAKE p \in Int
  <2> DEFINE x == [m EXCEPT !.tx_power_dbm = p]
  <2>1. x.freq_hz = m.freq_hz /\ x.sf = m.sf /\ x.bw = m.bw /\ x.tx_power_dbm = p
    BY DEF IsModulation
  <2> HIDE DEF x
  <2>2. Supports(info, x) <=> Accepted(info, m) /\ p \in lo .. hi
    BY <1>1, <1>2, <1>3, <1>5, <2>1 DEF Supports, Accepted
  <2> QED
    BY <2>2 DEF x
<1>7. CASE Accepted(info, m)
  <2>1. prepare_config(info, m) = {out}
    BY <1>7 DEF prepare_config, prepare_lora_config
  <2>2. pow \in Int
    BY <1>4, <1>5
  <2>3. Supports(info, out)
    BY <1>4, <1>6, <1>7, <2>2
  <2>4. out.tx_power_dbm = pow
    BY DEF IsModulation
  <2> HIDE DEF pow
  <2>5. out = [m EXCEPT !.tx_power_dbm = out.tx_power_dbm]
    BY <2>4
  <2> HIDE DEF out
  <2> QED
    BY <1>4, <2>1, <2>3, <2>4, <2>5 DEF PreparedRight
<1>8. CASE ~Accepted(info, m)
  <2>1. prepare_config(info, m) = {}
    BY <1>8 DEF prepare_config, prepare_lora_config
  <2>2. \A p \in lo .. hi : p \in Int
    BY <1>5
  <2>3. \A p \in lo .. hi : ~Supports(info, [m EXCEPT !.tx_power_dbm = p])
    BY <1>6, <1>8, <2>2
  <2> QED
    BY <2>1, <2>3 DEF PreparedRight
<1> QED
  BY <1>7, <1>8

=============================================================================
