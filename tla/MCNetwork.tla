------------------------------ MODULE MCNetwork ------------------------------
(***************************************************************************)
(* One run for the network libraries: the mock WiFi, what its scans list,  *)
(* the asynchronous mDNS searches, the result lists they give, the         *)
(* synchronous queries, and advertising (the scan list's module repeats    *)
(* when a scan is over, the result list's when a search is).  They share no*)
(* state (the yield service of each calls its own library only), so a      *)
(* behaviour exercises one of them and leaves the others at their initial  *)
(* states.                                                                 *)
(***************************************************************************)
EXTENDS MockWiFi

CONSTANTS Handles, None, Options, Budgets,
          Types, Http, Ports, OtaPort, Keys, Hosts, Nothing, MaxAdverts, MaxMocks, MaxReports,
          KeyOrder, Preset, Mocked, Blank, Limit, MaxRows,
          Lists, Services, MaxFound, Null, Garbage

VARIABLES
  part,       \* the library in use: "wifi", "list", "search", "given", "query", "responder"
  searchClient, service, search, daemon, orphans, stray, stack, fresh, found,
  notified, answered,
  networks, listed, number, phase, scratch, wanted, tampered,
  reported, deleted, list, heap, copied, lost, broken,
  queryClient, mocks, queried, results, browsing,
  client, instance, group, published, adverts, task, stale

\* A service that reports its TXT record and its address separately, another one,
\* and a second query, without timeout or notifier, of which nothing is heard.
MCReport(name, address, txt) == [id |-> name, ip |-> address, txt |-> txt]
MCQuery(reports, max) ==
  [reports |-> reports, timeout |-> 1, max |-> max, notifier |-> TRUE]
MCTwice == {MCReport("a", 0, {"k"}), MCReport("a", 1, {})}
MCOther == {MCReport("a", 0, {"k"}), MCReport("b", 2, {})}
MCOptions ==
  << {MCQuery(MCTwice, 0), MCQuery(MCOther, 1)},
     {[reports |-> {}, timeout |-> 0, max |-> 0, notifier |-> FALSE]} >>

MCKeyOrder == << "auth", "service" >>

S == INSTANCE MdnsSearch WITH
  client <- searchClient, calls <- notified
\* Networks of the mock, the hidden one among them, and two that a test adds.
MCNetwork(name, auth, hidden) == [ssid |-> name, auth |-> auth, hidden |-> hidden]
MCPreset == << MCNetwork("OK", "wpa2", FALSE), MCNetwork("HIDDEN", "wpa2", TRUE),
                 MCNetwork("OPEN", "open", FALSE) >>
MCMocked == {MCNetwork("x", "wep", FALSE), MCNetwork("y", "wpa", TRUE)}

L == INSTANCE WiFiScanTable WITH
  Defaults <- Preset, results <- networks, view <- listed, count <- number, asked <- wanted
Q == INSTANCE MdnsQuery WITH
  client <- queryClient, asked <- queried
R == INSTANCE MdnsResponder

\* A service with a name and a TXT record, and one with neither.
MCServices == {[named |-> TRUE, txt |-> 1], [named |-> FALSE, txt |-> 0]}
G == INSTANCE MdnsResultList WITH found <- reported

(* Of one service there may be several reports, with addresses or without, *)
(* and a query has finitely many; what stands for "no such thing" is none  *)
(* of the things it stands in for, and a block of memory is not garbage.   *)
(* A map has each of its keys once.                                        *)
ASSUME OptionsAssumption ==
  \A h \in Handles : \A o \in Options[h] :
    o \in S!Queries /\ IsFiniteSet(o.reports) /\ o.reports \subseteq S!Entries
ASSUME BudgetsAssumption == Budgets \subseteq Nat
ASSUME NoneAssumption == None \notin S!Searches
ASSUME LimitsAssumption == MaxMocks \in Nat /\ MaxReports \in Nat
ASSUME KeyOrderAssumption ==
  /\ KeyOrder \in Seq(STRING)
  /\ \A i, j \in DOMAIN KeyOrder : KeyOrder[i] = KeyOrder[j] => i = j
ASSUME NetworksAssumption ==
  /\ Limit \in Nat \ {0} /\ Preset \in Seq(Mocked \cup {Preset[i] : i \in DOMAIN Preset})
  /\ \A e \in Mocked \cup {Preset[i] : i \in DOMAIN Preset} :
       e = [ssid |-> e.ssid, auth |-> e.auth, hidden |-> e.hidden] /\ e.hidden \in BOOLEAN
ASSUME NullAssumption ==
  Null \notin Seq(G!Results) /\ {Null, Garbage} \cap G!AllBlocks = {} /\ Null # Garbage

searchVars == <<searchClient, service, search, daemon, orphans, stray, stack, fresh,
                found, notified, answered>>
listVars == <<networks, listed, number, phase, scratch, wanted, tampered>>
givenVars == <<reported, deleted, list, heap, copied, lost, broken>>
queryVars == <<queryClient, mocks, queried, results, browsing>>
responderVars == <<client, instance, group, published, adverts, task, stale>>
networkVars == <<part, vars, listVars, searchVars, givenVars, queryVars,
                 responderVars>>

NetworkInit ==
  /\ part \in {"wifi", "list", "search", "given", "query", "responder"}
  /\ Init /\ L!Init /\ S!Init /\ G!Init /\ Q!Init /\ R!Init

WiFiStep(action) ==
  /\ part = "wifi" /\ action
  /\ UNCHANGED <<part, listVars, searchVars, givenVars, queryVars, responderVars>>
ListStep(action) ==
  /\ part = "list" /\ action
  /\ UNCHANGED <<part, vars, searchVars, givenVars, queryVars, responderVars>>
SearchStep(action) ==
  /\ part = "search" /\ action
  /\ UNCHANGED <<part, vars, listVars, givenVars, queryVars, responderVars>>
GivenStep(action) ==
  /\ part = "given" /\ action
  /\ UNCHANGED <<part, vars, listVars, searchVars, queryVars, responderVars>>
QueryStep(action) ==
  /\ part = "query" /\ action
  /\ UNCHANGED <<part, vars, listVars, searchVars, givenVars, responderVars>>
ResponderStep(action) ==
  /\ part = "responder" /\ action
  /\ UNCHANGED <<part, vars, listVars, searchVars, givenVars, queryVars>>

NetworkNext ==
  \/ WiFiStep(Next) \/ ListStep(L!Next) \/ SearchStep(S!Next)
  \/ GivenStep(G!Next) \/ QueryStep(Q!Next) \/ ResponderStep(R!Next)

\* The fairness of the modules, each for its own steps.
NetworkSpec ==
  /\ NetworkInit /\ [][NetworkNext]_networkVars
  /\ WF_networkVars(WiFiStep(YieldService)) /\ WF_networkVars(WiFiStep(Tick))
  /\ WF_networkVars(SearchStep(S!Proceed)) /\ WF_networkVars(SearchStep(S!Tick))
  /\ SF_networkVars(SearchStep(S!NotifyReturn))
  /\ SF_networkVars(SearchStep(S!ServiceBegin))

-----------------------------------------------------------------------------
(* The properties are those of the modules.                                 *)

\* What the mDNS library keeps is what happened: no answer of a search is lost or
\* counted twice, a result list is the sketch's own until it gives it back, results
\* never mix two queries, and what the network sees has the TXT records asked for.
MdnsExact ==
  S!SearchExact /\ G!ResultsOwned /\ Q!ResultsOfLastQuery /\ R!PublishedTxt

\* The notifier of a search with a timeout is called, and only once.
NotifiedExactlyOnce == S!NotifiedExactlyOnce

\* The accessors, by index and by name, give what a query or a scan found.
AnswersConsistent == Q!ResultsReadable /\ L!ScanReadable
=============================================================================
