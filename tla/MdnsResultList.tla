---------------------------- MODULE MdnsResultList ----------------------------
(***************************************************************************)
(* The result lists of libraries/EpoxymDNS/ESPmDNS.cpp:                    *)
(* getAsyncQueryResults() copies what a complete search has found into a   *)
(* list of its own, block by block, and the sketch gives the list back to  *)
(* mdns_query_results_free(), in any order, before or after the query is   *)
(* deleted.  malloc() may fail.  A block is <<list, number of the result,  *)
(* field>>; a field is <<name, index>>, the index that of a TXT record.    *)
(***************************************************************************)
EXTENDS Integers, Sequences, FiniteSets

CONSTANTS
    Lists,      \* the sketch's result pointers
    Services,   \* what may be found: records [named |-> the instance name is
                \* not empty, txt |-> number of TXT records]
    MaxFound,   \* bound: results of the search
    Null,       \* a pointer that malloc() did not give, or that was freed
    Garbage     \* a pointer that was never written: txt is not cleared

VARIABLES
    found,      \* results of the search
    deleted,    \* deleteAsyncQuery() was called
    list,       \* per pointer: the list, a sequence of results, or Null
    heap,       \* the blocks allocated
    copied,     \* per pointer: found when the list was made
    lost,       \* names of the fields whose malloc() failed
    broken      \* a null or unwritten pointer was used, or a block freed twice

vars == <<found, deleted, list, heap, copied, lost, broken>>

Records(service, name) == {<<name, k>> : k \in 1..service.txt}
Fields(service) ==
    {<<"hostname", 0>>, <<"addr", 0>>}
    \cup (IF service.named THEN {<<"instance", 0>>} ELSE {})
    \cup (IF service.txt = 0 THEN {} ELSE {<<"txt", 0>>, <<"lens", 0>>})
    \cup Records(service, "key") \cup Records(service, "value")

(* What there is to allocate, and what a result may point to.              *)
AllFields == {<<"result", 0>>} \cup UNION {Fields(s) : s \in Services}
AllBlocks == Lists \X Nat \X AllFields
Results == UNION {[Fields(s) -> AllBlocks \cup {Null, Garbage}] : s \in Services}

Init ==
    /\ found = <<>> /\ deleted = FALSE
    /\ list = [l \in Lists |-> Null] /\ heap = {}
    /\ copied = [l \in Lists |-> <<>>] /\ lost = {} /\ broken = FALSE

(* A search that is complete by its timeout may still be told of services. *)
AddResult(service) ==
    /\ ~deleted /\ Len(found) < MaxFound
    /\ found' = Append(found, service)
    /\ UNCHANGED <<deleted, list, heap, copied, lost, broken>>

DeleteAsyncQuery ==
    /\ ~deleted /\ deleted' = TRUE /\ found' = <<>>
    /\ UNCHANGED <<list, heap, copied, lost, broken>>

(* One result; the TXT records' pointers are the only ones not null before *)
(* they are written.                                                       *)
Result(l, i, fails) ==
    [f \in Fields(found[i]) |->
        IF <<i, f>> \notin fails THEN <<l, i, f>>
        ELSE IF f[1] \in {"key", "value"} THEN Garbage ELSE Null]

(* What the results of list l point to, and where they are themselves.     *)
Pointers(results) == UNION {{results[i][f] : f \in DOMAIN results[i]} : i \in DOMAIN results}
Nodes(l, results) == {<<l, i, <<"result", 0>>>> : i \in DOMAIN results}
Blocks(l, results) == (Pointers(results) \ {Null, Garbage}) \cup Nodes(l, results)

(* fails is what malloc() refuses: nothing, a result, which ends the list, *)
(* or a field of one; without txt or txt_value_len the copy writes to null.*)
GetAsyncQueryResults(l, fails) ==
    LET short == {i \in DOMAIN found : <<i, <<"result", 0>>>> \in fails}
        n == IF short = {} THEN Len(found) ELSE (CHOOSE i \in short : TRUE) - 1
        made == [i \in 1..n |-> Result(l, i, fails)]
    IN  /\ ~deleted /\ list[l] = Null
        /\ list' = [list EXCEPT ![l] = IF n = 0 THEN Null ELSE made]
        /\ heap' = heap \cup Blocks(l, made)
        /\ copied' = [copied EXCEPT ![l] = found]
        /\ lost' = lost \cup {p[2][1] : p \in fails}
        /\ broken' = \E p \in fails : p[2][1] \in {"txt", "lens"}
        /\ UNCHANGED <<found, deleted>>

\* Mutant: the lengths of the TXT values are kept.
FreeAllButLengths(l) ==
    LET lengths == {<<l, i, <<"lens", 0>>>> : i \in DOMAIN list[l]}
        freed == (Pointers(list[l]) \cup Nodes(l, list[l])) \ ({Null} \cup lengths)
    IN  /\ list[l] # Null
        /\ heap' = heap \ freed /\ broken' = (freed \ heap # {})
        /\ list' = [list EXCEPT ![l] = Null]
        /\ UNCHANGED <<found, deleted, copied, lost>>

(* mdns_query_results_free()                                               *)
FreeResults(l) ==
    LET freed == (Pointers(list[l]) \ {Null}) \cup Nodes(l, list[l])
    IN  /\ list[l] # Null
        /\ heap' = heap \ freed /\ broken' = (freed \ heap # {})
        /\ list' = [list EXCEPT ![l] = Null]
        /\ UNCHANGED <<found, deleted, copied, lost>>

(* A bound: one malloc() in all is refused.                                *)
Refused ==
    {{}} \cup (IF lost = {} THEN {{<<i, f>>} : i \in DOMAIN found,
                                  f \in {<<"result", 0>>} \cup UNION {Fields(s) : s \in Services}}
               ELSE {})

Next ==
    /\ ~broken
    /\ \/ \E s \in Services : AddResult(s)
       \/ DeleteAsyncQuery
       \/ \E l \in Lists :
            \/ \E fails \in Refused :
                /\ \A p \in fails : p[2] \in Fields(found[p[1]]) \cup {<<"result", 0>>}
                /\ GetAsyncQueryResults(l, fails)
            \/ FreeResults(l)

Spec == Init /\ [][Next]_vars

-----------------------------------------------------------------------------
(* Every block belongs to one list the sketch still has, so that nothing   *)
(* leaks and nothing is freed that another list uses; each list stays the  *)
(* copy of what had been found, up to a result that could not be           *)
(* allocated, whatever became of the query; and no pointer is used that is *)
(* not there, except where the memory for a TXT record was refused.        *)
ResultsOwned ==
    LET held == {l \in Lists : list[l] # Null}
    IN  /\ ~broken => heap = UNION {Blocks(l, list[l]) : l \in held}
        /\ \A l \in held :
            /\ Len(list[l]) <= Len(copied[l])
            /\ "result" \notin lost => Len(list[l]) = Len(copied[l])
            /\ \A i \in DOMAIN list[l] : DOMAIN list[l][i] = Fields(copied[l][i])
        /\ broken => lost \cap {"txt", "lens", "key", "value"} # {}
=============================================================================
