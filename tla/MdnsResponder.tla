--------------------------- MODULE MdnsResponder ---------------------------
(***************************************************************************)
(* Advertising, in libraries/EpoxymDNS/ESPmDNS.cpp.  The responder keeps a *)
(* list of the services it was told to advertise and ONE Avahi entry group,*)
(* so that the network sees one service at a time: the one published last. *)
(* The daemon's behaviour is a choice of each call: see Publish.  A call   *)
(* that adds several TXT records publishes the service again for each, and *)
(* nothing comes between.                                                  *)
(***************************************************************************)
EXTENDS Integers, Sequences, FiniteSets

CONSTANTS
    Types,      \* service type and protocol, "_http._tcp"
    Http,       \* the type enableArduino() publishes
    Ports,      \* ports other than 0
    OtaPort,    \* 3232, which disableArduino() removes
    Keys,       \* TXT keys
    Nothing,    \* nothing is published, no call is in progress
    MaxAdverts  \* bound: length of _advertisedServices

VARIABLES
    client,     \* _avahi_client
    instance,   \* _instanceName is not empty
    group,      \* _avahi_entry_group
    published,  \* what the committed entry group offers
    adverts,    \* _advertisedServices
    task,       \* TXT records that the call in progress still has to add
    stale       \* a publication failed or a service was removed since the
                \* last publication that succeeded

vars == <<client, instance, group, published, adverts, task, stale>>
avahi == <<client, group, published, stale>>

FirstOf(ads, S) == CHOOSE i \in S : \A j \in S : i <= j
Matching(ads, type) == {i \in DOMAIN ads : ads[i].type = type}
MatchingPort(ads, type, port) == {i \in Matching(ads, type) : ads[i].port = port}
TxtOf(ads, type, port) ==
    LET S == MatchingPort(ads, type, port)
    IN  IF S = {} THEN {} ELSE ads[FirstOf(ads, S)].txt

Init ==
    /\ client = FALSE /\ instance = FALSE /\ group = FALSE /\ published = Nothing
    /\ adverts = <<>> /\ task = Nothing /\ stale = FALSE

(* _publishService() with the list ads: no client and none to be had; a    *)
(* client that does not get to run; no entry group; the service refused,   *)
(* as one without a name is, which frees the group; a commit that fails    *)
(* after the group was emptied; or success.  ok is what the caller is told.*)
Publish(named, type, port, ads, ok) ==
    \/ ok = FALSE /\ stale' = TRUE /\ client' \in {client, TRUE}
       /\ UNCHANGED <<group, published>>
    \/ ok = FALSE /\ stale' = TRUE /\ client' = TRUE
       /\ group' \in BOOLEAN /\ published' = Nothing
    \/ ok = TRUE /\ named /\ stale' = FALSE /\ client' = TRUE /\ group' = TRUE
       /\ published' = [type |-> type, port |-> port, txt |-> TxtOf(ads, type, port)]

Idle == task = Nothing

-----------------------------------------------------------------------------
(* begin(), mdns_hostname_set(): the host's name becomes the name of what  *)
(* is added from now on, unless one was given.                             *)
Begin ==
    /\ Idle /\ client' \in {client, TRUE} /\ instance' = TRUE
    /\ UNCHANGED <<group, published, adverts, task, stale>>

SetInstanceName(given) ==
    /\ Idle /\ instance' = given
    /\ UNCHANGED <<avahi, adverts, task>>

(* end() takes everything back, but for the name.                          *)
End ==
    /\ Idle
    /\ client' = FALSE /\ group' = FALSE /\ published' = Nothing
    /\ adverts' = <<>>
    /\ UNCHANGED <<instance, task, stale>>

(* addService(); enableArduino() and mdns_service_add() go on to add TXT   *)
(* records, the latter only if the service was published.                  *)
AddService(type, port, txt, needsOk) ==
    /\ Idle /\ Len(adverts) < MaxAdverts
    /\ LET ads == Append(adverts, [named |-> instance, type |-> type,
                                       port |-> port, txt |-> {}])
       IN  /\ adverts' = ads
           /\ \E ok \in BOOLEAN :
                /\ Publish(instance, type, port, ads, ok)
                /\ task' = IF txt = {} \/ (needsOk /\ ~ok) THEN Nothing
                           ELSE [type |-> type, port |-> port, txt |-> txt]
    /\ UNCHANGED instance

EnableArduino(port) == AddService(Http, port, {"service"}, FALSE)

\* Mutant: the service is published before it has its new record.
SetTxtLate(type, key) ==
    LET S == Matching(adverts, type)
        i == FirstOf(adverts, S)
    IN  IF S = {} THEN UNCHANGED <<avahi, adverts>>
        ELSE /\ adverts' = [adverts EXCEPT ![i].txt = @ \cup {key}]
             /\ \E ok \in BOOLEAN : Publish(adverts[i].named, type, adverts[i].port, adverts, ok)

(* addServiceTxt(): the first service of that type gets the record, and is *)
(* the one published again; whether that succeeds is not reported.         *)
SetTxt(type, key) ==
    LET S == Matching(adverts, type)
        i == FirstOf(adverts, S)
    IN  IF S = {} THEN UNCHANGED <<avahi, adverts>>
        ELSE /\ adverts' = [adverts EXCEPT ![i].txt = @ \cup {key}]
             /\ \E ok \in BOOLEAN : Publish(adverts[i].named, type, adverts[i].port, adverts', ok)

AddServiceTxt(type, key) ==             \* also mdns_service_txt_set()
    /\ Idle /\ SetTxt(type, key)
    /\ UNCHANGED <<instance, task>>

TaskTxt ==
    /\ task # Nothing
    /\ \E key \in task.txt :
        /\ SetTxt(task.type, key)
        /\ task' = IF task.txt = {key} THEN Nothing
                   ELSE [task EXCEPT !.txt = @ \ {key}]
    /\ UNCHANGED instance

(* removeService() forgets the service but does not withdraw it.           *)
(* mdns_service_remove() asks for port 0, which none has.                  *)
RemoveService(type, port) ==
    /\ Idle /\ MatchingPort(adverts, type, port) # {}
    /\ LET k == FirstOf(adverts, MatchingPort(adverts, type, port))
       IN  adverts' = [i \in 1..Len(adverts) - 1 |->
                         IF i < k THEN adverts[i] ELSE adverts[i + 1]]
    /\ stale' = TRUE
    /\ UNCHANGED <<client, instance, group, published, task>>

DisableArduino == RemoveService(Http, OtaPort)

(* The private publishService() and unpublishService().                    *)
PublishService(type, port) ==
    /\ Idle /\ \E ok \in BOOLEAN : Publish(TRUE, type, port, adverts, ok)
    /\ UNCHANGED <<instance, adverts, task>>

UnpublishService ==
    /\ Idle /\ published' = Nothing
    /\ UNCHANGED <<client, instance, group, adverts, task, stale>>

Next ==
    \/ Begin \/ End \/ \E given \in BOOLEAN : SetInstanceName(given)
    \/ TaskTxt \/ UnpublishService \/ DisableArduino
    \/ \E t \in Types :
        \/ \E k \in Keys : AddServiceTxt(t, k)
        \/ \E p \in Ports : \/ RemoveService(t, p) \/ PublishService(t, p)
                            \/ AddService(t, p, {}, FALSE)
                            \/ AddService(t, p, Keys, TRUE)
    \/ \E p \in Ports : EnableArduino(p)

Spec == Init /\ [][Next]_vars

-----------------------------------------------------------------------------
(* Through any order of calls and failures, what the network sees carries  *)
(* the TXT records the sketch asked for: the published TXT are those of the*)
(* first service of that type and port, unless a publication failed or the *)
(* list lost a service meanwhile.  A service is out only while the entry   *)
(* group and its client are there.                                         *)
PublishedTxt ==
    published # Nothing =>
        /\ group /\ client
        /\ ~stale => published.txt = TxtOf(adverts, published.type, published.port)

(* "Publish Arduino OTA update service" (enableArduino): once the call has *)
(* run to its end, the service the network sees, if any, is the added one. *)
AddedIsPublished ==
    [][task # Nothing /\ task' = Nothing /\ ~stale'
        => published'.port = task.port]_vars
=============================================================================
