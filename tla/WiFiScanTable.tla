---------------------------- MODULE WiFiScanTable ----------------------------
(***************************************************************************)
(* The networks a scan of the mock WiFi lists (WiFi.cpp, WiFi.h), and the  *)
(* accessors that read the list by index: MockWiFi has when a scan is over,*)
(* this module what it then says.  The number of networks is an int8_t and *)
(* an index a uint8_t, which take the values below Limit and twice that    *)
(* (128 and 256 in the code).  The data of a network but its name,         *)
(* encryption and whether it is hidden (signal, channel, BSSID) goes by    *)
(* its name.                                                               *)
(***************************************************************************)
EXTENDS Integers, Sequences, FiniteSets

CONSTANTS
    Defaults,   \* the networks of the mock, EPX_OK to EPX_WPA3 in this order:
                \* records [ssid, auth, hidden]
    Mocked,     \* networks a test adds
    Blank,      \* the empty name
    Limit,      \* one more than the greatest int8_t
    MaxRows     \* bound: length of _scanResults

VARIABLES
    results,    \* _scanResults
    view,       \* _scanView
    count,      \* _scanResultCount
    phase,      \* "none", "running" (_scanInProgress) or "done" (_scanHasResult)
    scratch,    \* _bssidScratch: the network it is of
    asked,      \* the request of the scan accepted last, and the networks then
    tampered    \* the list changed since, by a call of the test

vars == <<results, view, count, phase, scratch, asked, tampered>>

Running == -1
Failed == -2
Int8(n) == ((n + Limit) % (2 * Limit)) - Limit
Indices == 0..2 * Limit - 1

Init ==
    /\ results = Defaults /\ view = Defaults
    /\ count = 0 /\ phase = "none" /\ scratch = Blank
    /\ asked = [all |-> FALSE, of |-> <<>>] /\ tampered = FALSE

(* Which of the networks a scan is to list, and the list it makes of them, *)
(* in their order.                                                         *)
Due(rows, showHidden) == {i \in DOMAIN rows : ~rows[i].hidden \/ showHidden}
Nth(S, n) == CHOOSE i \in S : Cardinality({j \in S : j <= i}) = n
View(rows, showHidden) ==
    [n \in 1..Cardinality(Due(rows, showHidden)) |-> rows[Nth(Due(rows, showHidden), n)]]

(* scanNetworks(): refused while one runs.                                 *)
ScanNetworks(async, showHidden) ==
    /\ phase # "running"
    /\ view' = View(results, showHidden)
    /\ count' = Int8(Len(view'))
    /\ phase' = IF async THEN "running" ELSE "done"
    /\ asked' = [all |-> showHidden, of |-> results] /\ tampered' = FALSE
    /\ UNCHANGED <<results, scratch>>

ServiceAsyncScan ==
    /\ phase = "running" /\ phase' = "done"
    /\ UNCHANGED <<results, view, count, scratch, asked, tampered>>

(* scanDelete() and mockReset() bring the mock's own networks back, in the *)
(* list too, where the hidden one was never asked for.                     *)
ScanDelete ==
    /\ phase' = "none" /\ count' = 0
    /\ results' = Defaults /\ view' = Defaults /\ tampered' = TRUE
    /\ UNCHANGED <<scratch, asked>>

(* mockSetScanResults(), mockAddScanResult(): the list is the new one at   *)
(* once, the number is not.                                                *)
MockSetScanResults(rows) ==
    /\ results' = rows /\ view' = rows /\ tampered' = TRUE
    /\ UNCHANGED <<count, phase, scratch, asked>>
MockAddScanResult(e) == Len(results) < MaxRows /\ MockSetScanResults(Append(results, e))

-----------------------------------------------------------------------------
(* The accessors: out of range gives the empty value.                      *)
Listed(item) == item < Len(view)
SSID(item) == IF Listed(item) THEN view[item + 1].ssid ELSE Blank
EncryptionType(item) == IF Listed(item) THEN view[item + 1].auth ELSE "none"
IsHidden(item) == Listed(item) /\ view[item + 1].hidden
GetNetworkInfo(item) == Listed(item)
ScanComplete ==
    CASE phase = "running" -> Running [] phase = "done" -> count [] phase = "none" -> Failed

(* BSSID(), getNetworkInfo(): what they give points into the one buffer.   *)
BSSID(item) ==
    /\ scratch' = SSID(item)
    /\ UNCHANGED <<results, view, count, phase, asked, tampered>>

Next ==
    \/ \E async, showHidden \in BOOLEAN : ScanNetworks(async, showHidden)
    \/ ServiceAsyncScan \/ ScanDelete
    \/ MockSetScanResults(<<>>)
    \/ \E e \in Mocked : MockAddScanResult(e)
    \/ \E item \in Indices : BSSID(item)

Spec == Init /\ [][Next]_vars

-----------------------------------------------------------------------------
(* What a scan announces is what the accessors give: every network it was  *)
(* to list at one index, nothing at the others, a hidden one only where it *)
(* was asked for, unless the test changed the list meanwhile, and as far   *)
(* as an index goes.  The number of networks is right as long as it fits;  *)
(* beyond, it is negative, an answer that may mean a scan that runs or has *)
(* failed.                                                                 *)
ScanReadable ==
    LET due == {i \in DOMAIN asked.of : asked.of[i].hidden => asked.all}
        at(item) == [ssid |-> SSID(item), auth |-> EncryptionType(item),
                     hidden |-> IsHidden(item)]
        found == {item \in Indices : GetNetworkInfo(item)}
    IN  /\ phase # "none" /\ ~tampered =>
            /\ found = {item \in Indices : item < Cardinality(due)}
            /\ \A item \in found : \E i \in due : at(item) = asked.of[i]
            /\ Cardinality(due) <= 2 * Limit =>
                  \A i \in due : \E item \in found : at(item) = asked.of[i]
            /\ \A item \in Indices \ found : SSID(item) = Blank
        /\ phase = "done" =>
            /\ Cardinality(due) < Limit => ScanComplete = Cardinality(due)
            /\ Cardinality(due) \in Limit..2 * Limit - 1 => ScanComplete < 0
=============================================================================
