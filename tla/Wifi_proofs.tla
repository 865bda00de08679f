----------------------------- MODULE Wifi_proofs -----------------------------
(* Theorems about Wifi, for every size of packet and number of results.    *)
EXTENDS Wifi, TLAPS

\* A packet of the entries that fit is not longer than its buffer, and every
\* result that fits is an entry of it.
LEMMA EntriesFit ==
  ASSUME NEW n \in Nat
  PROVE  /\ Entries(n) \in 0 .. n
         /\ 1 + 7 * Entries(n) <= PacketSize
         /\ \A i \in 1 .. n : 7 * i < PacketSize =>
               i <= Entries(n) /\ i <= (PacketSize - 1) \div 7
<1> DEFINE fit == (PacketSize - 1) \div 7
<1>1. fit \in Nat /\ 7 * fit <= PacketSize - 1
  BY WifiConstants
<1>2. \A i \in Nat : 7 * i < PacketSize => i <= fit
  BY WifiConstants
<1>3. Entries(n) = IF fit < n THEN fit ELSE n
  BY DEF Entries
<1> HIDE DEF fit
<1>4. Entries(n) \in 0 .. n /\ Entries(n) <= fit
  BY <1>1, <1>3
<1>5. 1 + 7 * Entries(n) <= PacketSize
  BY <1>1, <1>4, WifiConstants
<1>6. \A i \in 1 .. n : 7 * i < PacketSize => i <= Entries(n) /\ i <= fit
  BY <1>1, <1>2, <1>3
<1> QED BY <1>4, <1>5, <1>6 DEF fit

LEMMA ScanTypes == Spec => []TypeOK
<1>1. Init => TypeOK
  <2>1. <<>> \in Seq(APs) /\ {} \subseteq Events
    OBVIOUS
  <2>2. Init => wifi_ready \in BOOLEAN /\ mw \in {"off", "idle", "scanning"}
    BY DEF Init
  <2>3. Init => /\ power_consumption_uah \in Nat /\ nb_scans_sent \in Nat
                /\ wifi_nb_scan_sent \in Nat /\ wifi_scan_charge_uAh \in Nat
                /\ uplinks \in Nat /\ scans \in Nat /\ found \in Nat /\ consumed \in Nat
    BY DEF Init
  <2>4. Init => pending \subseteq Events /\ results \in Seq(APs)
    BY <2>1 DEF Init
  <2> QED BY <2>2, <2>3, <2>4 DEF TypeOK
<1>2. TypeOK /\ [Next]_vars => TypeOK'
  <2> SUFFICES ASSUME TypeOK, [Next]_vars
               PROVE  TypeOK'
    OBVIOUS
  <2> USE DEF TypeOK
  <2>1. CASE wifi_init
    BY <2>1 DEF wifi_init, mwData, tracker, measured
  <2>2. CASE wifi_scan_start
    BY <2>2 DEF wifi_scan_start, mwData, tracker, measured
  <2>3. CASE on_wifi_event
    <3>1. uplinks' \in Nat /\ wifi_scan_charge_uAh' \in Nat
      BY <2>3 DEF on_wifi_event, ScanDone
    <3>2. wifi_nb_scan_sent' \in Nat
      BY <2>3 DEF on_wifi_event, Terminated
    <3>3. pending' \subseteq Events
      BY <2>3 DEF on_wifi_event, Cleared
    <3> QED BY <2>3, <3>1, <3>2, <3>3 DEF on_wifi_event, mwData, measured
  <2>4. CASE Measures
    <3>1. results' \in Seq(APs)
      BY <2>4, WifiConstants DEF Measures, Results
    <3>2. power_consumption_uah' \in Nat
      BY <2>4, WifiConstants DEF Measures
    <3>3. found' \in Nat /\ scans' \in Nat /\ consumed' \in Nat
      <4>1. found' = found \/ found' = found + 1
        BY <2>4 DEF Measures
      <4>2. scans' = scans + 1 /\ consumed' = consumed + power_consumption_uah'
        BY <2>4 DEF Measures
      <4>3. found' \in Nat
        BY <4>1
      <4>4. scans \in Nat /\ consumed \in Nat
        OBVIOUS
      <4>5. scans' \in Nat
        BY <4>2, <4>4
      <4>6. consumed' \in Nat
        <5>1. consumed' = consumed + power_consumption_uah'
          BY <4>2
        <5>2. \A charge \in Nat : consumed + charge \in Nat
          BY <4>4
        <5> QED BY <5>1, <5>2, <3>2
      <4> QED BY <4>3, <4>5, <4>6
    <3>4. pending' \subseteq Events
      BY <2>4 DEF Measures, Raise, Events
    <3> QED BY <2>4, <3>1, <3>2, <3>3, <3>4 DEF Measures, tracker
  <2>5. CASE Ends
    <3>1. pending' \subseteq Events
      BY <2>5 DEF Ends, Raise, Events
    <3>2. nb_scans_sent' \in Nat
      BY <2>5 DEF Ends
    <3> QED BY <2>5, <3>1, <3>2 DEF Ends, tracker, measured
  <2>6. CASE UNCHANGED vars
    BY <2>6 DEF vars, mwData, tracker, measured
  <2> QED BY <2>1, <2>2, <2>3, <2>4, <2>5, <2>6 DEF Next
<1> QED BY <1>1, <1>2, PTL DEF Spec

(* No scan is charged or sent twice or forgotten, whatever the order in    *)
(* which its events are raised and handled.                                *)
THEOREM ScansCountOnce == Spec => []EveryScanCountsOnce
<1>1. Init => EveryScanCountsOnce
  BY DEF Init, EveryScanCountsOnce, Unhandled
<1>2. TypeOK /\ EveryScanCountsOnce /\ [Next]_vars => EveryScanCountsOnce'
  <2> SUFFICES ASSUME TypeOK, EveryScanCountsOnce, [Next]_vars
               PROVE  EveryScanCountsOnce'
    OBVIOUS
  <2> USE DEF EveryScanCountsOnce, Unhandled
  <2>1. CASE wifi_init
    BY <2>1 DEF wifi_init, mwData, tracker, measured
  <2>2. CASE wifi_scan_start
    BY <2>2 DEF wifi_scan_start, mwData, tracker, measured
  <2>3. CASE on_wifi_event
    <3>1. "SCAN_DONE" \notin pending' /\ UNCHANGED measured
      BY <2>3 DEF on_wifi_event, Cleared
    <3>2. CASE "SCAN_DONE" \in pending
      <4>1. wifi_scan_charge_uAh' = wifi_scan_charge_uAh + power_consumption_uah
        BY <2>3, <3>2 DEF on_wifi_event, ScanDone
      <4>2. uplinks' = uplinks + (IF results # <<>> THEN 1 ELSE 0)
        BY <2>3, <3>2 DEF on_wifi_event, ScanDone, TypeOK
      <4> QED BY <3>1, <3>2, <4>1, <4>2 DEF measured, TypeOK
    <3>3. CASE "SCAN_DONE" \notin pending
      <4>1. UNCHANGED <<wifi_scan_charge_uAh, uplinks>>
        BY <2>3, <3>3 DEF on_wifi_event, ScanDone
      <4> QED BY <3>1, <3>3, <4>1 DEF measured, TypeOK
    <3> QED BY <3>2, <3>3
  <2>4. CASE Measures
    <3>1. "SCAN_DONE" \notin pending /\ "SCAN_DONE" \in pending'
      BY <2>4 DEF Measures, Raise
    <3>2. power_consumption_uah' \in Nat
      BY <2>4, WifiConstants DEF Measures
    <3>3. consumed' = consumed + power_consumption_uah'
          /\ wifi_scan_charge_uAh' = wifi_scan_charge_uAh
      BY <2>4 DEF Measures, tracker
    <3>4. found' = found + (IF results' # <<>> THEN 1 ELSE 0) /\ uplinks' = uplinks
      BY <2>4 DEF Measures, tracker, TypeOK
    <3> QED BY <3>1, <3>2, <3>3, <3>4 DEF TypeOK
  <2>5. CASE Ends
    <3>1. "SCAN_DONE" \in pending' <=> "SCAN_DONE" \in pending
      BY <2>5 DEF Ends, Raise
    <3> QED BY <2>5, <3>1 DEF Ends, tracker, measured
  <2>6. CASE UNCHANGED vars
    BY <2>6 DEF vars, mwData, tracker, measured
  <2> QED BY <2>1, <2>2, <2>3, <2>4, <2>5, <2>6 DEF Next
<1> QED BY <1>1, <1>2, ScanTypes, PTL DEF Spec

(* The packet of 64 bytes, or of any size, is never overrun, and carries   *)
(* what the scan found first until the next scan is measured.              *)
THEOREM PacketIsTheScans == Spec => []PacketCarriesTheScan
<1>1. Init => PacketCarriesTheScan
  BY WifiConstants DEF Init, PacketCarriesTheScan
<1>2. TypeOK /\ PacketCarriesTheScan /\ [Next]_vars => PacketCarriesTheScan'
  <2> SUFFICES ASSUME TypeOK, PacketCarriesTheScan, [Next]_vars
               PROVE  PacketCarriesTheScan'
    OBVIOUS
  <2> USE DEF PacketCarriesTheScan
  <2>1. CASE wifi_init
    BY <2>1 DEF wifi_init, mwData, tracker
  <2>2. CASE wifi_scan_start
    BY <2>2 DEF wifi_scan_start, mwData, tracker
  <2>3. CASE on_wifi_event
    <3>1. results' = results
      BY <2>3 DEF on_wifi_event, mwData
    <3>2. CASE "SCAN_DONE" \in pending /\ results # <<>>
      <4>1. PICK stack \in Stacks : packet' = create_wifi_location_packet(stack, results)
        BY <2>3, <3>2 DEF on_wifi_event, ScanDone
      <4>2. Len(results) \in Nat
        BY DEF TypeOK
      <4>3. packet'.size = 1 + 7 * Entries(Len(results))
        BY <4>1 DEF create_wifi_location_packet
      <4>4. DOMAIN stack = 1 .. (PacketSize - 1) \div 7
        BY DEF Stacks
      <4>5. ASSUME NEW i \in 1 .. Len(results), 7 * i < PacketSize
            PROVE  packet'.slots[i] = results[i]
        <5>1. i <= Entries(Len(results)) /\ i <= (PacketSize - 1) \div 7
          BY <4>2, <4>5, EntriesFit
        <5>2. i \in DOMAIN stack
          BY <4>2, <4>4, <5>1, WifiConstants
        <5> QED BY <4>1, <5>1, <5>2 DEF create_wifi_location_packet
      <4> QED BY <3>1, <4>2, <4>3, <4>5, EntriesFit
    <3>3. CASE "SCAN_DONE" \notin pending \/ results = <<>>
      <4>1. packet' = packet
        BY <2>3, <3>3 DEF on_wifi_event, ScanDone
      <4> QED BY <3>1, <3>3, <4>1
    <3> QED BY <3>2, <3>3
  <2>4. CASE Measures
    BY <2>4 DEF Measures, Raise, tracker
  <2>5. CASE Ends
    BY <2>5 DEF Ends, Raise, tracker
  <2>6. CASE UNCHANGED vars
    BY <2>6 DEF vars, mwData, tracker
  <2> QED BY <2>1, <2>2, <2>3, <2>4, <2>5, <2>6 DEF Next
<1> QED BY <1>1, <1>2, ScanTypes, PTL DEF Spec

=============================================================================
