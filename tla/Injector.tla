------------------------------- MODULE Injector -------------------------------
(***************************************************************************)
(* The event injector of the EpoxyDuino test support                       *)
(* (cores/epoxy/epoxy_test): a thread that raises timed events, and        *)
(* through them changes pins, while the main thread runs the sketch.  In   *)
(* simulated time it is also the thread that moves the clock: a delay of   *)
(* the main thread is handed over in time_forward_us and spun on.          *)
(*                                                                         *)
(* One action per section between two points where the other thread can    *)
(* observe or change what the section uses.  events_mutex is held by the   *)
(* injector thread from IBegin until it is back at "top".                  *)
(***************************************************************************)
EXTENDS Integers, SequencesExt

CONSTANTS
  Ids,         \* the Event objects
  NoEvent,     \* a null unique_ptr<Event>
  Step,        \* the clock advances by at most this much per turn (10 us)
  MaxTime,     \* bound: the times of events and the clock stay in 0 .. MaxTime
  EventTimes,  \* bound: the times that events are built for or rescheduled to
  Budget,      \* bound: how many events are built or rescheduled in all, by a
               \* test that ends and scripts that have finitely many commands
  ResetOrder,  \* the order of the reset callbacks: a std::set of function
               \* pointers, so whatever order their addresses have
  HoldsEvents  \* TRUE iff reset() may be called while the test owns an event
               \* that it has not handed to addEvent() yet

ASSUME StepAssumption == Step \in Nat \ {0}
ASSUME MaxTimeAssumption == MaxTime \in Nat
ASSUME EventTimesAssumption == EventTimes \subseteq 0 .. MaxTime
ASSUME BudgetAssumption == Budget \in Nat
ASSUME IdsAssumption == NoEvent \notin Ids
ASSUME ResetOrderAssumption == ResetOrder \in Seq({"time", "stop", "pins"})
ASSUME HoldsEventsAssumption == HoldsEvents \in BOOLEAN

VARIABLES
  mpc,       \* main thread: "run", "delay", "reset" or "join"
  resetAt,   \* the reset callback to call next
  ipc,       \* injector thread: "off" (injector == nullptr), "top", "raise",
             \* "clock", "store" or "exited"
  run,       \* Injector::run
  events,    \* the multimap, in key order: entries [key, ev]
  at,        \* the loop's iterator while a batch is raised
  toInsert,  \* to_insert
  owner,     \* who owns an event: nobody (it does not exist), the test, or
             \* the queue
  key,       \* Event::us_, or the time the event was rescheduled to
  budget,    \* what is left of Budget
  realTime,  \* epoxy_real_time
  clock,     \* micros(): epoxy_micros in simulated time, otherwise the time
             \* since epoxy_start_time
  forward,   \* time_forward_us
  inc,       \* what the clock was advanced by, not yet taken off forward
  pin,       \* a pin DigitalInjector events set
  target,    \* history: what the clock has to read when delay_us() returns
  due        \* history: when a queued event should be raised: its key, or when
             \* it was queued or the clock was set, if that is later

mainVars     == <<mpc, resetAt>>
injectorVars == <<ipc, run, at, toInsert, inc>>
eventVars    == <<events, owner, key, budget, due>>
timeVars     == <<realTime, clock, forward, target>>
vars == <<mainVars, injectorVars, eventVars, timeVars, pin>>

Times == 0 .. MaxTime
Owners == {"none", "test", "queue"}

Max2(a, b) == IF a >= b THEN a ELSE b

\* events_mutex is free.
Unlocked == ipc \in {"off", "top", "exited"}

\* Events alive: Event::count.
Alive == {e \in Ids : owner[e] # "none"}

\* multimap::insert: behind the last entry with a key that is not greater.
UpperBound(queue, k) ==
  CHOOSE p \in 0 .. Len(queue) :
    /\ p = 0 \/ queue[p].key <= k
    /\ \A i \in p + 1 .. Len(queue) : queue[i].key > k

Insert(queue, entry) == InsertAt(queue, UpperBound(queue, entry.key) + 1, entry)

InsertAll(queue, entries) ==
  LET inserted[n \in 0 .. Len(entries)] ==
        IF n = 0 THEN queue ELSE Insert(inserted[n - 1], entries[n])
  IN inserted[Len(entries)]

InQueue(queue) == {queue[i].ev : i \in 1 .. Len(queue)} \ {NoEvent}

Queued == InQueue(events)

Init ==
  /\ mpc = "run" /\ resetAt = 1
  /\ ipc = "off" /\ run = FALSE /\ at = 1 /\ toInsert = <<>> /\ inc = 0
  /\ events = <<>>
  /\ owner = [e \in Ids |-> "none"]
  /\ key = [e \in Ids |-> 0]
  /\ budget = Budget
  /\ due = [e \in Ids |-> 0]
  /\ realTime = TRUE /\ clock = 0 /\ forward = 0 /\ target = 0
  /\ pin = "LOW"

-----------------------------------------------------------------------------
(* The main thread.                                                         *)

\* Event::Event(): the first event alive starts the injector thread.  start()
\* returns when the thread has set run, before which it does nothing.
NewEvent(e, k) ==
  /\ mpc = "run"
  /\ owner[e] = "none"
  /\ budget > 0
  /\ budget' = budget - 1
  /\ owner' = [owner EXCEPT ![e] = "test"]
  /\ key' = [key EXCEPT ![e] = k]
  /\ IF Alive = {} /\ ipc = "off"
       THEN ipc' = "top" /\ run' = TRUE
       ELSE UNCHANGED <<ipc, run>>
  /\ UNCHANGED <<mainVars, at, toInsert, inc, events, due, timeVars, pin>>

AddEvent(e) ==
  /\ mpc = "run"
  /\ owner[e] = "test"
  /\ Unlocked
  /\ events' = Insert(events, [key |-> key[e], ev |-> e])
  /\ owner' = [owner EXCEPT ![e] = "queue"]
  /\ due' = [due EXCEPT ![e] = Max2(key[e], clock)]
  /\ UNCHANGED <<mainVars, injectorVars, key, budget, timeVars, pin>>

WritePin(v) ==
  /\ mpc = "run"
  /\ pin # v
  /\ pin' = v
  /\ UNCHANGED <<mainVars, injectorVars, eventVars, timeVars>>

\* set_micros() and the like: any jump of the clock, and simulated time from
\* here on.
SetMicros(t) ==
  /\ mpc = "run"
  /\ clock' = t
  /\ realTime' = FALSE
  /\ due' = [e \in Ids |-> IF e \in Queued THEN Max2(key[e], t) ELSE due[e]]
  /\ UNCHANGED <<mainVars, injectorVars, events, owner, key, budget, forward,
                 target, pin>>

\* delay_us() without an injector thread.
DelayAlone(us) ==
  /\ mpc = "run"
  /\ ~realTime
  /\ ipc = "off"
  /\ clock + us <= MaxTime
  /\ clock' = clock + us
  /\ UNCHANGED <<mainVars, injectorVars, eventVars, realTime, forward, target, pin>>

\* delay_us() with one: hand the time over, and spin until all of it is used.
DelayBegin(us) ==
  /\ mpc = "run"
  /\ ~realTime
  /\ ipc # "off"
  /\ clock + us <= MaxTime
  /\ forward' = forward + us
  /\ mpc' = "delay"
  /\ target' = clock + us
  /\ UNCHANGED <<resetAt, injectorVars, eventVars, realTime, clock, pin>>

DelayEnd ==
  /\ mpc = "delay"
  /\ forward = 0
  /\ mpc' = "run"
  /\ target' = 0
  /\ UNCHANGED <<resetAt, injectorVars, eventVars, realTime, clock, forward, pin>>

-----------------------------------------------------------------------------
(* EpoxyTest::reset().                                                      *)

ResetBegin ==
  /\ mpc = "run"
  /\ HoldsEvents \/ \A e \in Ids : owner[e] # "test"
  /\ mpc' = "reset"
  /\ resetAt' = 1
  /\ UNCHANGED <<injectorVars, eventVars, timeVars, pin>>

ResetCalls(callback) ==
  /\ mpc = "reset"
  /\ resetAt <= Len(ResetOrder)
  /\ ResetOrder[resetAt] = callback

ResetTime ==
  /\ ResetCalls("time")
  /\ clock' = IF realTime THEN 0 ELSE clock
  /\ resetAt' = resetAt + 1
  /\ UNCHANGED <<mpc, injectorVars, eventVars, realTime, forward, target, pin>>

ResetPins ==
  /\ ResetCalls("pins")
  /\ pin' = "LOW"
  /\ resetAt' = resetAt + 1
  /\ UNCHANGED <<mpc, injectorVars, eventVars, timeVars>>

\* Mutant: strong_stop() returns without looking at the queue.
ResetUnstopped ==
  /\ ResetCalls("stop")
  /\ resetAt' = resetAt + 1
  /\ UNCHANGED <<mpc, injectorVars, eventVars, timeVars, pin>>

\* strong_stop() goes on only when the queue is empty.
ResetStopped ==
  /\ ResetCalls("stop")
  /\ Unlocked
  /\ events = <<>>
  /\ resetAt' = resetAt + 1
  /\ UNCHANGED <<mpc, injectorVars, eventVars, timeVars, pin>>

\* Otherwise it calls stop(), again and again when there is no thread to stop.
ResetStop ==
  /\ ResetCalls("stop")
  /\ Unlocked
  /\ events # <<>>
  /\ ipc # "off"
  /\ run' = FALSE
  /\ mpc' = "join"
  /\ UNCHANGED <<resetAt, ipc, at, toInsert, inc, eventVars, timeVars, pin>>

\* Mutant: the destructor leaves the queue as it is.
JoinKeeping ==
  /\ mpc = "join"
  /\ ipc = "exited"
  /\ ipc' = "off"
  /\ mpc' = "reset"
  /\ UNCHANGED <<resetAt, run, at, toInsert, inc, eventVars, timeVars, pin>>

\* ~Injector(), after the thread has left its loop.
Join ==
  /\ mpc = "join"
  /\ ipc = "exited"
  /\ events' = <<>>
  /\ owner' = [e \in Ids |-> IF e \in Queued THEN "none" ELSE owner[e]]
  /\ key' = [e \in Ids |-> IF e \in Queued THEN 0 ELSE key[e]]
  /\ due' = [e \in Ids |-> 0]
  /\ clock' = clock + forward
  /\ forward' = 0
  /\ ipc' = "off"
  /\ mpc' = "reset"
  /\ UNCHANGED <<resetAt, run, at, toInsert, inc, budget, realTime, target, pin>>

ResetEnd ==
  /\ mpc = "reset"
  /\ resetAt > Len(ResetOrder)
  /\ clock' = IF realTime THEN clock ELSE 0
  /\ realTime' = TRUE
  /\ mpc' = "run"
  /\ resetAt' = 1
  /\ UNCHANGED <<injectorVars, eventVars, forward, target, pin>>

-----------------------------------------------------------------------------
(* The injector thread: Injector::loop().                                   *)

DropNulls(queue) ==
  LET first == SelectInSeq(queue, LAMBDA x : x.ev # NoEvent)
  IN IF first = 0 THEN <<>> ELSE SubSeq(queue, first, Len(queue))

\* Mutant: an event is raised only after its time.
IBeginLate ==
  /\ ipc = "top"
  /\ run
  /\ events' = DropNulls(events)
  /\ IF events' # <<>> /\ clock > events'[1].key
       THEN ipc' = "raise"
       ELSE ipc' = "clock"
  /\ at' = 1
  /\ UNCHANGED <<mainVars, run, toInsert, inc, owner, key, budget, due, timeVars,
                 pin>>

\* Take the mutex, erase what earlier turns raised, and look at the first event.
IBegin ==
  /\ ipc = "top"
  /\ run
  /\ events' = DropNulls(events)
  /\ IF events' # <<>> /\ clock >= events'[1].key
       THEN ipc' = "raise"
       ELSE ipc' = "clock"
  /\ at' = 1
  /\ UNCHANGED <<mainVars, run, toInsert, inc, owner, key, budget, due, timeVars,
                 pin>>

IExit ==
  /\ ipc = "top"
  /\ ~run
  /\ ipc' = "exited"
  /\ UNCHANGED <<mainVars, run, at, toInsert, inc, eventVars, timeVars, pin>>

\* Mutant: the event stays in the queue as well.
Keep(queue, i) == queue

\* The entry stays in the queue, without its event: it->second.reset().
Release(queue, i) == [queue EXCEPT ![i].ev = NoEvent]

InBatch == at <= Len(events) /\ events[at].key = events[1].key

\* raise() of the event under the iterator: it may set the pin, build the next
\* event of its script, which it is chained to (to), and ask to be rescheduled
\* (sched # 0).  What comes of it is put aside until the batch is done.
Entry(e, k) == IF e = NoEvent THEN <<>> ELSE <<[key |-> k, ev |-> e]>>

Raise(e, sched, to, k) ==
  /\ sched # 0 \/ to # NoEvent => budget > 0
  /\ budget' = IF sched # 0 \/ to # NoEvent THEN budget - 1 ELSE budget
  /\ toInsert' = InsertAll(toInsert,
                   Entry(to, k) \o Entry(IF sched = 0 THEN NoEvent ELSE e, sched))
  /\ owner' = [x \in Ids |-> IF x = to THEN "queue"
                             ELSE IF x = e /\ sched = 0 THEN "none"
                             ELSE owner[x]]
  /\ key' = [x \in Ids |-> IF x = to THEN k ELSE IF x = e THEN sched ELSE key[x]]

IRaise ==
  /\ ipc = "raise"
  /\ InBatch
  /\ LET e == events[at].ev IN
       IF e = NoEvent
         THEN UNCHANGED <<toInsert, owner, key, budget, pin>>
         ELSE /\ pin' \in {pin, "HIGH"}
              /\ \E sched \in EventTimes \cup {0}, k \in EventTimes,
                   to \in {x \in Ids : owner[x] = "none"} \cup {NoEvent} :
                   Raise(e, sched, to, k)
  /\ events' = Release(events, at)
  /\ due' = [x \in Ids |-> IF x = events[at].ev THEN 0 ELSE due[x]]
  /\ at' = at + 1
  /\ UNCHANGED <<mainVars, ipc, run, inc, timeVars>>

IInsert ==
  /\ ipc = "raise"
  /\ ~InBatch
  /\ events' = InsertAll(events, toInsert)
  /\ due' = [e \in Ids |-> IF e \in InQueue(toInsert)
                             THEN Max2(key[e], clock) ELSE due[e]]
  /\ toInsert' = <<>>
  /\ at' = 1
  /\ ipc' = "clock"
  /\ UNCHANGED <<mainVars, run, inc, owner, key, budget, timeVars, pin>>

\* Mutants: no look at the events that are left; no look at their time.
NeverDue == FALSE
AnyLeft  == \E i \in 1 .. Len(events) : events[i].ev # NoEvent

\* The first event that is left is due: simulated time has to wait for it.
EventDue ==
  \E i \in 1 .. Len(events) :
    /\ events[i].ev # NoEvent
    /\ \A j \in 1 .. i - 1 : events[j].ev = NoEvent
    /\ events[i].key <= clock

INoAdvance ==
  /\ ipc = "clock"
  /\ forward = 0 \/ EventDue
  /\ ipc' = "top"
  /\ UNCHANGED <<mainVars, run, at, toInsert, inc, eventVars, timeVars, pin>>

IAdvance ==
  /\ ipc = "clock"
  /\ forward > 0
  /\ ~EventDue
  /\ inc' = IF Step > forward THEN forward ELSE Step
  /\ clock' = clock + inc'
  /\ ipc' = "store"
  /\ UNCHANGED <<mainVars, run, at, toInsert, eventVars, realTime, forward,
                 target, pin>>

\* Mutant: every turn ends the delay.
IStoreZero ==
  /\ ipc = "store"
  /\ forward' = 0
  /\ inc' = 0
  /\ ipc' = "top"
  /\ UNCHANGED <<mainVars, run, at, toInsert, eventVars, realTime, clock, target,
                 pin>>

IStore ==
  /\ ipc = "store"
  /\ forward' = forward - inc
  /\ inc' = 0
  /\ ipc' = "top"
  /\ UNCHANGED <<mainVars, run, at, toInsert, eventVars, realTime, clock, target,
                 pin>>

-----------------------------------------------------------------------------

\* Real time passes.
Tick ==
  /\ realTime
  /\ clock < MaxTime
  /\ clock' = clock + 1
  /\ UNCHANGED <<mainVars, injectorVars, eventVars, realTime, forward, target, pin>>

Test ==
  \/ \E e \in Ids, k \in EventTimes : NewEvent(e, k)
  \/ \E e \in Ids : AddEvent(e)
  \/ \E v \in {"LOW", "HIGH"} : WritePin(v)
  \/ \E t \in Times : SetMicros(t) \/ DelayAlone(t) \/ DelayBegin(t)
  \/ ResetBegin

\* Main-thread steps that follow from a call that was made.
Library ==
  \/ DelayEnd
  \/ ResetTime \/ ResetPins \/ ResetStopped \/ ResetStop \/ Join \/ ResetEnd

Loop ==
  \/ IBegin \/ IExit \/ IRaise \/ IInsert \/ INoAdvance \/ IAdvance \/ IStore

Next == Test \/ Library \/ Loop \/ Tick

Spec == Init /\ [][Next]_vars

\* The operating system schedules both threads, and lets the main thread have
\* the mutex some time although the injector thread takes it again at once.
\* What the test does is its own affair.
FairSpec == Spec /\ SF_vars(Library) /\ WF_vars(Loop) /\ WF_vars(Tick)

-----------------------------------------------------------------------------

\* The type of the state.
EntryOK(x) == x.key \in Times /\ x.ev \in Ids \cup {NoEvent}

TypeOK ==
  /\ mpc \in {"run", "delay", "reset", "join"}
  /\ resetAt \in 1 .. Len(ResetOrder) + 1
  /\ ipc \in {"off", "top", "raise", "clock", "store", "exited"}
  /\ run \in BOOLEAN
  /\ \A i \in 1 .. Len(events) : EntryOK(events[i])
  /\ \A i \in 1 .. Len(toInsert) : EntryOK(toInsert[i])
  /\ at \in 1 .. Len(events) + 1
  /\ owner \in [Ids -> Owners]
  /\ key \in [Ids -> Times]
  /\ budget \in 0 .. Budget
  /\ due \in [Ids -> Times]
  /\ realTime \in BOOLEAN
  /\ {clock, forward, target} \subseteq Times
  /\ inc \in 0 .. Step
  /\ pin \in {"LOW", "HIGH"}

\* Every event alive has one owner: it is in the queue (or on its way back into
\* it) exactly once, or still the test's.
Places(e) ==
  {<<"queue", i>> : i \in {j \in 1 .. Len(events) : events[j].ev = e}}
  \cup {<<"insert", i>> : i \in {j \in 1 .. Len(toInsert) : toInsert[j].ev = e}}

OwnedOnce ==
  \A e \in Ids : Cardinality(Places(e)) = IF owner[e] = "queue" THEN 1 ELSE 0

\* When a simulated delay returns, the clock has moved by exactly the time that
\* was asked for ("the slices must sum to exactly us"), however the injector
\* thread split it around the events it raised.
DelayExact ==
  mpc = "delay" /\ forward = 0 => clock = target

\* While the main thread waits the clock never runs past where it has to stop.
ClockWithinDelay ==
  mpc = "delay" => clock <= target

\* Simulated time waits for the events: it moves on at most one turn past the
\* moment an event should be raised, however many events are due at once.
TimeWaitsForEvents ==
  ~realTime => \A e \in Queued : clock < due[e] + Step

\* After reset() every pin reads low: no event that was still queued acts on
\* the pins behind its back.
PinsLowAfterReset ==
  [][mpc = "reset" /\ mpc' = "run" => pin = "LOW"]_vars

\* After reset() no event is queued any more, not even one that was being
\* raised or rescheduled when reset() was called.
QueueEmptyAfterReset ==
  [][mpc = "reset" /\ mpc' = "run" => events = <<>> /\ toInsert = <<>>]_vars

\* A simulated delay returns: the thread uses up the time it was given.
DelayReturns == mpc = "delay" ~> mpc = "run"

\* reset() returns, and with it the queue was emptied.
ResetReturns == mpc = "reset" ~> mpc = "run"

\* No call of the main thread spins for ever on the injector thread.
CallsReturn == DelayReturns /\ ResetReturns

\* A queued event whose time has come is raised.
EventDueNow(e) == e \in Queued /\ key[e] <= clock

DueEventRaised == \A e \in Ids : EventDueNow(e) ~> ~EventDueNow(e)
=============================================================================
