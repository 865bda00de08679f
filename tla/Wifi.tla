-------------------------------- MODULE Wifi --------------------------------
(***************************************************************************)
(* src/src/wifi.c: scans for access points and the handler of the Wi-Fi    *)
(* middleware's events.  The middleware and the tracker application that   *)
(* calls this file are not in the repository: the middleware scans when it *)
(* is told to, raises its events one by one, and calls on_wifi_event with  *)
(* those it has raised since the last call.  Handler and middleware run on *)
(* one thread, so that nothing is raised during a call, and nothing is     *)
(* measured before the last call has cleared the events.                   *)
(***************************************************************************)
EXTENDS Integers, Sequences

CONSTANTS
    APs,         \* access points, with their signal's strength
    Junk,        \* seven bytes of the stack that are no access point
    PacketSize,  \* sizeof(wifi_data) (64)
    MaxResults,  \* results of a scan at most (the middleware's array)
    Charges,     \* what a scan may consume
    MaxScans     \* bound of the instance

ASSUME WifiConstants ==
    /\ Junk \notin APs
    /\ PacketSize \in Nat \ {0}
    /\ MaxResults \in Nat
    /\ Charges \subseteq Nat
    /\ MaxScans \in Nat

VARIABLES
    wifi_ready,
    mw,          \* the middleware: "off", "idle" or "scanning"
    pending,     \* the events it has raised
    results, power_consumption_uah,    \* its data of SCAN_DONE
    nb_scans_sent,                     \* its data of TERMINATED
    wifi_nb_scan_sent, wifi_scan_charge_uAh,   \* of tracker_ctx
    packet,      \* what was last requested as uplink on port 197
    uplinks,     \* how often
    no_results,  \* the handler last came to "No scan results good enough"
    scans, found, consumed  \* history: scans, those with results, their charge

mwData   == <<results, power_consumption_uah, nb_scans_sent>>
tracker  == <<wifi_nb_scan_sent, wifi_scan_charge_uAh, packet, uplinks, no_results>>
measured == <<scans, found, consumed>>
vars     == <<wifi_ready, mw, pending, mwData, tracker, measured>>

Events == {"SCAN_DONE", "TERMINATED", "SCAN_CANCELLED", "ERROR_UNKNOWN"}

Results == UNION {[1 .. n -> APs] : n \in 0 .. MaxResults}

Init == /\ wifi_ready = FALSE
        /\ mw = "off"
        /\ pending = {}
        /\ results = <<>> /\ power_consumption_uah = 0 /\ nb_scans_sent = 0
        /\ wifi_nb_scan_sent = 0 /\ wifi_scan_charge_uAh = 0
        /\ packet = [size |-> 0, slots |-> <<>>] /\ uplinks = 0
        /\ no_results = FALSE
        /\ scans = 0 /\ found = 0 /\ consumed = 0

-----------------------------------------------------------------------------
(* wifi.c                                                                  *)

(* The link check may be refused; nothing changes then, and Wi-Fi that was *)
(* never ready is not used until the application tries again.  A           *)
(* middleware that runs is assumed to keep its scan and its events when it *)
(* is initialised again.                                                   *)
wifi_init ==
    /\ \/ wifi_ready' = TRUE /\ mw' = IF mw = "off" THEN "idle" ELSE mw
       \/ UNCHANGED <<wifi_ready, mw>>
    /\ UNCHANGED <<pending, mwData, tracker, measured>>

wifi_scan_start ==
    /\ IF wifi_ready /\ mw = "idle" THEN mw' = "scanning" ELSE UNCHANGED mw
    /\ scans < MaxScans
    /\ UNCHANGED <<wifi_ready, pending, mwData, tracker, measured>>

\* Entries that forget the byte before them.
Entries_NoHeader(n) ==
    LET fit == PacketSize \div 7 IN IF fit < n THEN fit ELSE n

\* How many of n results are packed: a byte for the kind of packet, then seven
\* for each.
Entries(n) ==
    LET fit == (PacketSize - 1) \div 7 IN IF fit < n THEN fit ELSE n

(* The buffer is sent whole: behind the entries it shows what the stack    *)
(* held, which may be entries of an earlier packet.                        *)
create_wifi_location_packet(stack, wsr) ==
    [size  |-> 1 + 7 * Entries(Len(wsr)),
     slots |-> [i \in DOMAIN stack |-> IF i <= Entries(Len(wsr)) THEN wsr[i] ELSE stack[i]]]

Stacks == [1 .. (PacketSize - 1) \div 7 -> APs \cup {Junk}]

ScanDone ==
    IF "SCAN_DONE" \in pending
    THEN /\ IF results # <<>>
            THEN /\ \E stack \in Stacks :
                       packet' = create_wifi_location_packet(stack, results)
                 /\ uplinks' = uplinks + 1
            ELSE UNCHANGED <<packet, uplinks>>
         /\ wifi_scan_charge_uAh' = wifi_scan_charge_uAh + power_consumption_uah
    ELSE UNCHANGED <<packet, uplinks, wifi_scan_charge_uAh>>

\* With an error alone the count is that of an earlier TERMINATED.
Terminated ==
    /\ wifi_nb_scan_sent' =
          IF "TERMINATED" \in pending THEN nb_scans_sent ELSE wifi_nb_scan_sent
    /\ no_results' = IF pending \cap {"TERMINATED", "ERROR_UNKNOWN"} # {}
                     THEN wifi_nb_scan_sent' = 0 ELSE no_results

\* A handler that would clear the event that ends a scan only.
Cleared_Forgotten == pending \ {"TERMINATED"}

\* wifi_mw_clear_pending_events
Cleared == {}

on_wifi_event ==
    /\ pending # {}
    /\ ScanDone
    /\ Terminated
    /\ pending' = Cleared
    /\ UNCHANGED <<wifi_ready, mw, mwData, measured>>

-----------------------------------------------------------------------------
(* The middleware                                                          *)

Raise(event) == event \notin pending /\ pending' = pending \cup {event}

Measures ==
    /\ mw = "scanning" /\ pending = {} /\ scans < MaxScans
    /\ Raise("SCAN_DONE")
    /\ results' \in Results /\ power_consumption_uah' \in Charges
    /\ scans' = scans + 1
    /\ found' = IF results' # <<>> THEN found + 1 ELSE found
    /\ consumed' = consumed + power_consumption_uah'
    /\ UNCHANGED <<wifi_ready, mw, nb_scans_sent, tracker>>

\* It sends what it found, or gives up: the last event of a scan.
Ends ==
    /\ mw = "scanning"
    /\ \/ Raise("TERMINATED") /\ nb_scans_sent' \in {0, 1}
       \/ \E e \in {"SCAN_CANCELLED", "ERROR_UNKNOWN"} : Raise(e) /\ UNCHANGED nb_scans_sent
    /\ mw' = "idle"
    /\ UNCHANGED <<wifi_ready, results, power_consumption_uah, tracker, measured>>

Next == wifi_init \/ wifi_scan_start \/ on_wifi_event \/ Measures \/ Ends

Spec == Init /\ [][Next]_vars

-----------------------------------------------------------------------------
(* Properties                                                              *)

TypeOK ==
    /\ wifi_ready \in BOOLEAN /\ mw \in {"off", "idle", "scanning"}
    /\ pending \subseteq Events
    /\ results \in Seq(APs) /\ power_consumption_uah \in Nat
    /\ nb_scans_sent \in Nat /\ wifi_nb_scan_sent \in Nat
    /\ wifi_scan_charge_uAh \in Nat /\ uplinks \in Nat
    /\ scans \in Nat /\ found \in Nat /\ consumed \in Nat

Unhandled(n) == IF "SCAN_DONE" \in pending THEN n ELSE 0

(* Every scan is accounted for exactly once, whether its events come       *)
(* together or one by one, with an error or a cancellation, or next to a   *)
(* later scan's: its charge is added up, and there is an uplink for it if  *)
(* it found anything.                                                      *)
EveryScanCountsOnce ==
    /\ consumed = wifi_scan_charge_uAh + Unhandled(power_consumption_uah)
    /\ found = uplinks + Unhandled(IF results # <<>> THEN 1 ELSE 0)

(* Until the next scan is measured, the packet starts with the access      *)
(* points that the scan found first, as many as fit, and was written       *)
(* within its buffer.                                                      *)
PacketCarriesTheScan ==
    /\ packet.size <= PacketSize
    /\ "SCAN_DONE" \notin pending /\ results # <<>> =>
          \A i \in 1 .. Len(results) :
             7 * i < PacketSize => packet.slots[i] = results[i]

=============================================================================
