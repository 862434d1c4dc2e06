------------------------------ MODULE MdnsQuery ------------------------------
(***************************************************************************)
(* Synchronous queries, in libraries/EpoxymDNS/ESPmDNS.cpp: queryService() *)
(* collects mock services and what Avahi reports into _queryResults, where *)
(* the accessors find it by its index until the next query.  The call fills*)
(* the sketch's time, so that nothing comes between its steps; Avahi calls *)
(* back within them.  MdnsResponder has the other side, advertising.       *)
(***************************************************************************)
EXTENDS Integers, Sequences, FiniteSets

CONSTANTS
    Types,      \* service type and protocol, "_http._tcp"
    KeyOrder,   \* the TXT keys, in the order of a std::map
    Hosts,      \* hosts that offer a service
    Nothing,    \* no such thing
    MaxMocks,   \* bound: mock services per type
    MaxReports  \* bound: reports to one query

VARIABLES
    client,     \* _avahi_client
    mocks,      \* _mockServices
    asked,      \* the type of the last query
    results,    \* _queryResults
    browsing    \* _browseService() in progress: the resolvers at work, and the
                \* reports yet to come; or Nothing

vars == <<client, mocks, asked, results, browsing>>

TxtKeys == {KeyOrder[i] : i \in DOMAIN KeyOrder}
NoAddress == 0                  \* 0.0.0.0
Addresses == {NoAddress, 1}
Service(type, host, ip, txt) == [type |-> type, host |-> host, ip |-> ip, txt |-> txt]
FirstOf(S) == CHOOSE i \in S : \A j \in S : i <= j

Init ==
    /\ client = FALSE /\ mocks = [t \in Types |-> <<>>]
    /\ asked = Nothing /\ results = <<>> /\ browsing = Nothing

(* _initAvahi(), from begin() or from a call that needs a client; it may   *)
(* fail, and then there is none.                                           *)
InitAvahi ==
    /\ browsing = Nothing /\ ~client /\ client' = TRUE
    /\ UNCHANGED <<mocks, asked, results, browsing>>

End ==
    /\ browsing = Nothing /\ client' = FALSE /\ results' = <<>>
    /\ UNCHANGED <<mocks, asked, browsing>>

AddMockService(type, host, ip) ==
    /\ browsing = Nothing /\ Len(mocks[type]) < MaxMocks
    /\ mocks' = [mocks EXCEPT ![type] = Append(@, Service(type, host, ip, {}))]
    /\ UNCHANGED <<client, asked, results, browsing>>

AddMockServiceTxt(type, host, key) ==
    LET S == {i \in DOMAIN mocks[type] : mocks[type][i].host = host}
    IN  /\ browsing = Nothing /\ S # {}
        /\ mocks' = [mocks EXCEPT ![type][FirstOf(S)].txt = @ \cup {key}]
        /\ UNCHANGED <<client, asked, results, browsing>>

ClearMockServices ==
    /\ browsing = Nothing
    /\ mocks' = [t \in Types |-> <<>>] /\ results' = <<>>
    /\ UNCHANGED <<client, asked, browsing>>

(* queryService(): the mock services of that type; then, if there is a     *)
(* client and Avahi gives the query one of its own and a browser, two      *)
(* seconds of what is reported.  Mock services are found without the       *)
(* underscores of a type, services of the network are not.                 *)
QueryService(type, underscores) ==
    /\ browsing = Nothing /\ asked' = type /\ results' = mocks[type]
    /\ \/ browsing' = Nothing
       \/ client /\ underscores /\ browsing' = [resolving |-> {}, toCome |-> 1..MaxReports]
    /\ UNCHANGED <<client, mocks>>

(* browse_callback(): a resolver for each report, if it can be had.        *)
BrowseNew ==
    /\ browsing # Nothing
    /\ \E r \in browsing.toCome :
        browsing' = [resolving |-> browsing.resolving \cup {r},
                     toCome |-> browsing.toCome \ {r}]
    /\ UNCHANGED <<client, mocks, asked, results>>

(* resolve_callback(): what it found is one more result, even if it was    *)
(* there before, or has no address that is IPv4.                           *)
Resolved ==
    /\ browsing # Nothing
    /\ \E r \in browsing.resolving :
        /\ browsing' = [browsing EXCEPT !.resolving = @ \ {r}]
        /\ \/ \E host \in Hosts, ip \in Addresses, txt \in SUBSET TxtKeys :
                results' = Append(results, Service(asked, host, ip, txt))
           \/ UNCHANGED results
    /\ UNCHANGED <<client, mocks, asked>>

(* The time is over: browser and client are freed, resolvers with them.    *)
QueryReturn ==
    /\ browsing # Nothing /\ browsing' = Nothing
    /\ UNCHANGED <<client, mocks, asked, results>>

(* The n-th of a set of places.                                            *)
Nth(S, n) == CHOOSE i \in S : Cardinality({j \in S : j <= i}) = n

(* The accessors, and queryHost(), which asks nobody: it looks at the mock *)
(* services, of all types, and at the last results.  An index out of range *)
(* gives the empty value.                                                  *)
InRange(idx) == idx >= 0 /\ idx < Len(results)
Result(idx) == results[idx + 1]
HostName(idx) == IF InRange(idx) THEN Result(idx).host ELSE Nothing
IP(idx) == IF InRange(idx) THEN Result(idx).ip ELSE NoAddress
NumTxt(idx) == IF InRange(idx) THEN Cardinality(Result(idx).txt) ELSE 0
HasTxt(idx, key) == InRange(idx) /\ key \in Result(idx).txt
(* Mutant: the n-th key of all, whether the result has it or not.          *)
TxtKeyOfAll(idx, n) ==
    IF InRange(idx) /\ n \in 0..NumTxt(idx) - 1 THEN KeyOrder[n + 1] ELSE Nothing
TxtKey(idx, n) ==
    IF InRange(idx) /\ n \in 0..NumTxt(idx) - 1
    THEN KeyOrder[Nth({i \in DOMAIN KeyOrder : HasTxt(idx, KeyOrder[i])}, n + 1)]
    ELSE Nothing
QueryHost(host) ==
    LET mocked == UNION {{m \in {mocks[t][i] : i \in DOMAIN mocks[t]} : m.host = host}
                          : t \in Types}
        heard == {i \in DOMAIN results : results[i].host = host}
    IN  IF mocked # {} THEN {m.ip : m \in mocked}
        ELSE IF heard # {} THEN {results[FirstOf(heard)].ip} ELSE {NoAddress}

Next ==
    \/ InitAvahi \/ End \/ ClearMockServices \/ BrowseNew \/ Resolved \/ QueryReturn
    \/ \E t \in Types :
        \/ \E h \in Hosts : \/ \E ip \in Addresses : AddMockService(t, h, ip)
                            \/ \E k \in TxtKeys : AddMockServiceTxt(t, h, k)
        \/ \E underscores \in BOOLEAN : QueryService(t, underscores)

Spec == Init /\ [][Next]_vars

-----------------------------------------------------------------------------
(* Results never mix two queries, so that an index means one thing until   *)
(* the next query: they are of the type asked for, the mock services of a  *)
(* type, and no more than was reported.                                    *)
ResultsOfLastQuery ==
    /\ \A i \in DOMAIN results : results[i].type = asked
    /\ Len(results) <= MaxMocks + MaxReports

(* The accessors agree on a result: its keys by number are those it has by *)
(* name, each once; and queryHost() has an address for its host, unless    *)
(* the first service of that host, a mock service before all, has none.    *)
ResultsReadable ==
    \A idx \in -1..Len(results) :
        LET keys == {TxtKey(idx, n) : n \in 0..NumTxt(idx) - 1}
        IN  /\ keys = {k \in TxtKeys : HasTxt(idx, k)} /\ Cardinality(keys) = NumTxt(idx)
            /\ IP(idx) # NoAddress /\ QueryHost(HostName(idx)) = {NoAddress}
               => \/ \E earlier \in 0..idx - 1 : HostName(earlier) = HostName(idx)
                  \/ \E t \in Types, i \in 1..MaxMocks :
                        i \in DOMAIN mocks[t] /\ mocks[t][i].host = HostName(idx)

QueryConsistent == ResultsOfLastQuery /\ ResultsReadable
=============================================================================
