----------------------------- MODULE MdnsSearch -----------------------------
(***************************************************************************)
(* The asynchronous mDNS queries of libraries/EpoxymDNS/ESPmDNS.cpp.       *)
(*                                                                         *)
(* A sketch begins a query, polls it or waits for its notifier, and        *)
(* deletes it.  There is one thread: Avahi's callbacks run only inside     *)
(* avahi_simple_poll_iterate(), which the yield service and                *)
(* getAsyncQueryResults() call, and the notifier runs only inside those    *)
(* two functions.  The calls in progress are therefore a stack of frames,  *)
(* the innermost first:                                                    *)
(*   [fn |-> "service", at, left]  serviceAsyncQueries(), pumping or       *)
(*                                 looping over the searches in left       *)
(*   [fn |-> "get", at, h, left]   getAsyncQueryResults(h), left = what    *)
(*                                 remains of its time budget              *)
(*   [fn |-> "notify", h]          the sketch's notifier for search h      *)
(*                                                                         *)
(* daemon, orphans are Avahi's side; found, calls and answered record what *)
(* happened, for the properties.  A resolver that reports to a search that *)
(* was freed has no defined effect: the model stops there (stray).         *)
(***************************************************************************)
EXTENDS Integers, Sequences, FiniteSets

CONSTANTS
    Handles,   \* addresses the allocator hands out for queries
    None,      \* no query has this handle
    Options,   \* per handle, how its query is begun: a set of records
               \* [reports, timeout, max, notifier], where
               \* reports is what there is to find for the queried type, records
               \* [id, ip, txt] with ip = 0 where there is no IPv4 address
    Budgets    \* the timeouts getAsyncQueryResults() is called with

VARIABLES
    client,    \* _avahi_client and its poll exist
    service,   \* the yield service: "none", "registered" or "full"
    search,    \* _activeAsyncQueries
    daemon,    \* per query: reports to come, and resolvers at work
    orphans,   \* resolvers at work for queries that were deleted
    stray,     \* a resolver called back with a query that was deleted
    stack,     \* the calls in progress
    fresh,     \* the handles not used yet: a bound, each is used for one query
    found,     \* per query: every report its resolvers delivered
    calls,     \* per query: how often its notifier was called
    answered   \* per query: getAsyncQueryResults() returned true

vars == <<client, service, search, daemon, orphans, stray, stack, fresh, found, calls, answered>>
history == <<fresh, found, calls, answered>>

(* What reports, results and searches are made of.                         *)
Reports == UNION {o.reports : o \in UNION {Options[h] : h \in Handles}}
Entries == [id : {r.id : r \in Reports}, ip : {0} \cup {r.ip : r \in Reports},
            txt : SUBSET UNION {r.txt : r \in Reports}]
Queries == [reports : SUBSET Reports, timeout : Nat, max : Nat, notifier : BOOLEAN]
Searches == [allForNow : BOOLEAN, outstanding : Nat, notified : BOOLEAN, age : Nat,
             results : Seq(Entries), opt : Queries]

Live == {h \in Handles : search[h] # None}
Push(f) == <<f>> \o stack
Pop == Tail(stack)
In(fn) == stack # <<>> /\ Head(stack).fn = fn
Pumping == ~stray /\ (In("service") \/ In("get")) /\ Head(stack).at = "pump" /\ client
SketchRuns == ~stray /\ (stack = <<>> \/ In("notify"))
InUse(h) == \E i \in DOMAIN stack : stack[i].fn # "service" /\ stack[i].h = h

(* The completion test: natural, the result ceiling, or the timeout.       *)
IsSearchComplete(s) ==
    \/ s.allForNow /\ s.outstanding <= 0
    \/ s.opt.max > 0 /\ Len(s.results) >= s.opt.max /\ s.outstanding <= 0
    \/ s.opt.timeout > 0 /\ s.age >= s.opt.timeout

(* One entry per service: a repeated report only fills in what is missing. *)
AddResult(s, r) ==
    LET same == {i \in DOMAIN s.results : s.results[i].id = r.id}
        merged == [i \in DOMAIN s.results |->
            IF i \notin same THEN s.results[i]
            ELSE [s.results[i] EXCEPT !.ip = IF @ = 0 THEN r.ip ELSE @,
                                      !.txt = @ \cup r.txt]]
    IN  IF same # {} THEN merged
        ELSE IF s.opt.max > 0 /\ Len(s.results) >= s.opt.max THEN s.results
        ELSE Append(s.results, r)

Init ==
    /\ client = FALSE
    /\ service = "none"
    /\ search = [h \in Handles |-> None]
    /\ daemon = [h \in Handles |-> [unseen |-> {}, resolving |-> {}]]
    /\ orphans = {}
    /\ stray = FALSE
    /\ stack = <<>>
    /\ fresh = Handles
    /\ found = [h \in Handles |-> {}]
    /\ calls = [h \in Handles |-> 0]
    /\ answered = [h \in Handles |-> FALSE]

-----------------------------------------------------------------------------
(* The yield service is registered once, unless the callback table is full;*)
(* the next search tries again.                                            *)
RegisterYieldService ==
    \E table \in {"registered", "full"} :
        service' = IF service = "registered" THEN service ELSE table

(* beginAsyncQuery(): the search is stored even when Avahi refuses the     *)
(* browser.  A notifier may begin a search too; the pass that called it    *)
(* may or may not still reach the new map entry.                           *)
BeginAsyncQuery(h, opt) ==
    /\ SketchRuns /\ h \in fresh
    /\ client' = TRUE
    /\ fresh' = fresh \ {h}
    /\ RegisterYieldService
    /\ \E browser, visited \in BOOLEAN :
        /\ search' = [search EXCEPT ![h] =
            [allForNow |-> ~browser, outstanding |-> 0, notified |-> FALSE,
             age |-> 0, results |-> <<>>, opt |-> opt]]
        /\ daemon' = [daemon EXCEPT ![h].unseen = IF browser THEN opt.reports ELSE {}]
        /\ stack' = [i \in DOMAIN stack |->
            IF stack[i].fn = "service" /\ visited
            THEN [stack[i] EXCEPT !.left = @ \cup {h}] ELSE stack[i]]
    /\ UNCHANGED <<orphans, stray, found, calls, answered>>

(* deleteAsyncQuery(), called once the query was answered (mdns.h) and     *)
(* never from under a call that still uses it.  The browser is freed, the  *)
(* resolvers are not: they belong to the client.                           *)
DeleteAsyncQuery(h) ==
    /\ SketchRuns /\ search[h] # None /\ answered[h] /\ ~InUse(h)
    /\ search' = [search EXCEPT ![h] = None]
    /\ orphans' = orphans \cup {<<h, r>> : r \in daemon[h].resolving}
    /\ daemon' = [daemon EXCEPT ![h] = [unseen |-> {}, resolving |-> {}]]
    /\ stack' = [i \in DOMAIN stack |->
        IF stack[i].fn = "service" THEN [stack[i] EXCEPT !.left = @ \ {h}] ELSE stack[i]]
    /\ UNCHANGED <<client, service, stray, history>>

(* end(): every search goes before the client, and the client takes its    *)
(* resolvers with it.  The yield service stays registered.                 *)
End ==
    /\ ~stray /\ stack = <<>> /\ client
    /\ client' = FALSE
    /\ search' = [h \in Handles |-> None]
    /\ daemon' = [h \in Handles |-> [unseen |-> {}, resolving |-> {}]]
    /\ orphans' = {}
    /\ UNCHANGED <<service, stray, stack, history>>

-----------------------------------------------------------------------------
(* What avahi_simple_poll_iterate() may dispatch.  A report whose resolver *)
(* cannot be created leaves no trace: it is one that never comes.          *)
BrowserNew(h) ==
    /\ Pumping /\ search[h] # None
    /\ \E r \in daemon[h].unseen :
        daemon' = [daemon EXCEPT ![h].unseen = @ \ {r}, ![h].resolving = @ \cup {r}]
    /\ search' = [search EXCEPT ![h].outstanding = @ + 1]
    /\ UNCHANGED <<client, service, orphans, stray, stack, history>>

BrowserAllForNow(h) ==
    /\ Pumping /\ search[h] # None /\ ~search[h].allForNow
    /\ search' = [search EXCEPT ![h].allForNow = TRUE]
    /\ UNCHANGED <<client, service, daemon, orphans, stray, stack, history>>

(* The browser is dead: nothing more is reported.  (The code also sets     *)
(* failed, which nothing reads.)                                           *)
BrowserFailure(h) ==
    /\ Pumping /\ search[h] # None
    /\ ~search[h].allForNow \/ daemon[h].unseen # {}
    /\ search' = [search EXCEPT ![h].allForNow = TRUE]
    /\ daemon' = [daemon EXCEPT ![h].unseen = {}]
    /\ UNCHANGED <<client, service, orphans, stray, stack, history>>

\* Mutant: a resolver that fails is not counted off.
ResolverDoneUncounted(h) ==
    /\ Pumping /\ search[h] # None
    /\ \E r \in daemon[h].resolving, ok \in BOOLEAN :
        /\ search' = [search EXCEPT
            ![h].results = IF ok THEN AddResult(search[h], r) ELSE @,
            ![h].outstanding = IF ok THEN @ - 1 ELSE @]
        /\ found' = [found EXCEPT ![h] = IF ok THEN @ \cup {r} ELSE @]
        /\ daemon' = [daemon EXCEPT ![h].resolving = @ \ {r}]
    /\ UNCHANGED <<client, service, orphans, stray, stack, fresh, calls, answered>>

ResolverDone(h) ==
    /\ Pumping /\ search[h] # None
    /\ \E r \in daemon[h].resolving, ok \in BOOLEAN :
        /\ search' = [search EXCEPT
            ![h].results = IF ok THEN AddResult(search[h], r) ELSE @,
            ![h].outstanding = IF @ > 0 THEN @ - 1 ELSE @]
        /\ found' = [found EXCEPT ![h] = IF ok THEN @ \cup {r} ELSE @]
        /\ daemon' = [daemon EXCEPT ![h].resolving = @ \ {r}]
    /\ UNCHANGED <<client, service, orphans, stray, stack, fresh, calls, answered>>

(* The resolver of a deleted query: its userdata is freed memory.          *)
StrayResolver ==
    /\ Pumping /\ orphans # {}
    /\ stray' = TRUE
    /\ UNCHANGED <<client, service, search, daemon, orphans, stack, history>>

-----------------------------------------------------------------------------
\* Mutant: that it was notified is not remembered.
NotifyUnmarked(h, rest) ==
    /\ UNCHANGED search
    /\ IF search[h].opt.notifier
       THEN /\ stack' = <<[fn |-> "notify", h |-> h]>> \o rest
            /\ calls' = [calls EXCEPT ![h] = @ + 1]
       ELSE stack' = rest /\ UNCHANGED calls

(* The search h is complete: its notifier is called unless it was before.  *)
Notify(h, rest) ==
    /\ search' = [search EXCEPT ![h].notified = TRUE]
    /\ IF ~search[h].notified /\ search[h].opt.notifier
       THEN /\ stack' = <<[fn |-> "notify", h |-> h]>> \o rest
            /\ calls' = [calls EXCEPT ![h] = @ + 1]
       ELSE stack' = rest /\ UNCHANGED calls

(* serviceAsyncQueries(), from yield() or from a test: pump, then one step *)
(* per search of the map.  A yield() inside a notifier that a pass called  *)
(* does not come back here, the yield services are not re-entered.         *)
ServiceBegin ==
    /\ SketchRuns /\ service = "registered" /\ Live # {}
    /\ \A i \in DOMAIN stack : stack[i].fn # "service"
    /\ stack' = Push([fn |-> "service", at |-> "pump", left |-> {}])
    /\ UNCHANGED <<client, service, search, daemon, orphans, stray, history>>

ServicePumped ==
    /\ ~stray /\ In("service") /\ Head(stack).at = "pump"
    /\ stack' = <<[Head(stack) EXCEPT !.at = "loop", !.left = Live]>> \o Pop
    /\ UNCHANGED <<client, service, search, daemon, orphans, stray, history>>

ServiceVisit ==
    /\ ~stray /\ In("service") /\ Head(stack).at = "loop"
    /\ \E h \in Head(stack).left :
        LET rest == <<[Head(stack) EXCEPT !.left = @ \ {h}]>> \o Pop
        IN  IF ~search[h].notified /\ IsSearchComplete(search[h])
            THEN Notify(h, rest)
            ELSE stack' = rest /\ UNCHANGED <<search, calls>>
    /\ UNCHANGED <<client, service, daemon, orphans, stray, fresh, found, answered>>

ServiceEnd ==
    /\ ~stray /\ In("service") /\ Head(stack).at = "loop" /\ Head(stack).left = {}
    /\ stack' = Pop
    /\ UNCHANGED <<client, service, search, daemon, orphans, stray, history>>

NotifyReturn ==
    /\ ~stray /\ In("notify")
    /\ stack' = Pop
    /\ UNCHANGED <<client, service, search, daemon, orphans, stray, history>>

(* getAsyncQueryResults(): pump and test until the search is complete or   *)
(* the budget is spent; a complete search is notified before its results   *)
(* are converted.                                                          *)
GetBegin(h, budget) ==
    /\ SketchRuns /\ search[h] # None
    /\ stack' = Push([fn |-> "get", at |-> "pump", h |-> h, left |-> budget])
    /\ UNCHANGED <<client, service, search, daemon, orphans, stray, history>>

GetComplete ==
    /\ ~stray /\ In("get") /\ Head(stack).at = "pump"
    /\ IsSearchComplete(search[Head(stack).h])
    /\ Notify(Head(stack).h, <<[Head(stack) EXCEPT !.at = "answer"]>> \o Pop)
    /\ UNCHANGED <<client, service, daemon, orphans, stray, fresh, found, answered>>

GetAnswer ==
    /\ ~stray /\ In("get") /\ Head(stack).at = "answer"
    /\ stack' = Pop
    /\ answered' = [answered EXCEPT ![Head(stack).h] = TRUE]
    /\ UNCHANGED <<client, service, search, daemon, orphans, stray, fresh, found, calls>>

GetPending ==
    /\ ~stray /\ In("get") /\ Head(stack).at = "pump" /\ Head(stack).left = 0
    /\ ~IsSearchComplete(search[Head(stack).h])
    /\ stack' = Pop
    /\ UNCHANGED <<client, service, search, daemon, orphans, stray, history>>

(* millis() moves on: the searches age and the innermost wait runs down.   *)
Tick ==
    /\ ~stray
    /\ search' = [h \in Handles |->
        IF search[h] # None /\ search[h].age < search[h].opt.timeout
        THEN [search[h] EXCEPT !.age = @ + 1] ELSE search[h]]
    /\ stack' = IF In("get") /\ Head(stack).left > 0
                THEN <<[Head(stack) EXCEPT !.left = @ - 1]>> \o Pop ELSE stack
    /\ <<search, stack>>' # <<search, stack>>
    /\ UNCHANGED <<client, service, daemon, orphans, stray, history>>

(* The call in progress goes on.                                           *)
Proceed ==
    \/ ServicePumped \/ ServiceVisit \/ ServiceEnd
    \/ GetComplete \/ GetAnswer \/ GetPending

Next ==
    \/ \E h \in Handles : \/ \E o \in Options[h] : BeginAsyncQuery(h, o)
                          \/ \E b \in Budgets : GetBegin(h, b)
                          \/ DeleteAsyncQuery(h)
                          \/ BrowserNew(h) \/ BrowserAllForNow(h)
                          \/ BrowserFailure(h) \/ ResolverDone(h)
    \/ End \/ StrayResolver
    \/ ServiceBegin \/ NotifyReturn \/ Proceed
    \/ Tick

(* Calls go on and return (a notifier too), time passes, and loop() yields *)
(* again and again; nothing is assumed of Avahi.                           *)
Fairness ==
    /\ WF_vars(Proceed) /\ SF_vars(NotifyReturn)
    /\ WF_vars(Tick) /\ SF_vars(ServiceBegin)

Spec == Init /\ [][Next]_vars
FairSpec == Spec /\ Fairness

-----------------------------------------------------------------------------
(* The code's counter of resolvers at work never differs from Avahi's own: *)
(* were it too low, a search would be reported complete before its last    *)
(* answers; were it too high, never.                                       *)
OutstandingExact ==
    \A h \in Live : search[h].outstanding = Cardinality(daemon[h].resolving)

(* Whatever the order of the duplicate reports: one entry per service,     *)
(* never more than asked for, an address if any report had one, and every  *)
(* TXT key; below the ceiling no service that was found is missing.        *)
ResultsMerged ==
    \A h \in Live :
        LET res == search[h].results
            of(i) == {r \in found[h] : r.id = res[i].id}
        IN  /\ \A i, j \in DOMAIN res : res[i].id = res[j].id => i = j
            /\ search[h].opt.max > 0 => Len(res) <= search[h].opt.max
            /\ \A i \in DOMAIN res :
                /\ res[i].txt = UNION {r.txt : r \in of(i)}
                /\ res[i].ip \in {r.ip : r \in of(i)}
                /\ res[i].ip = 0 => \A r \in of(i) : r.ip = 0
            /\ search[h].opt.max = 0 \/ Len(res) < search[h].opt.max
               => {r.id : r \in found[h]} = {res[i].id : i \in DOMAIN res}

(* Every answer of a search is accounted for: the code's count of resolvers*)
(* is Avahi's, and the results are what they reported, merged.             *)
SearchExact == OutstandingExact /\ ResultsMerged

(* A notifier is called at most once for its search, by whichever of the   *)
(* yield service and a poll sees the completion first, and not before it.  *)
NotifiedOnce ==
    [][\A h \in Handles : calls'[h] > calls[h] =>
            /\ calls[h] = 0 /\ search[h] # None
            /\ IsSearchComplete(search[h])]_vars

(* A search with a timeout is reported to its notifier even if Avahi never *)
(* says another word, unless it is deleted or its service has no slot.     *)
SearchEnds ==
    \A h \in Handles :
        (search[h] # None /\ search[h].opt.timeout > 0 /\ service = "registered")
            ~> (stray \/ search[h] = None \/ search[h].notified)

(* The notifier of a search with a timeout is called exactly once.         *)
NotifiedExactlyOnce == NotifiedOnce /\ SearchEnds

(* "Frees the Avahi browser too, so an abandoned query stops generating    *)
(* callbacks" (deleteAsyncQuery): no callback for a query deleted after    *)
(* its answer.                                                             *)
NoStrayCallback == ~stray
=============================================================================
