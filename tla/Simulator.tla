----------------------------- MODULE Simulator ------------------------------
(***************************************************************************)
(* DefaultSimulatorImpl: the event loop, the main thread that schedules,   *)
(* cancels, removes and runs events, and the other threads, which hand     *)
(* events over through ScheduleWithContext.                                *)
(*                                                                         *)
(* An event, and the EventId that names it, is its time and its uid; the   *)
(* event list is the set of them (MapScheduler keeps it in a std::map; the *)
(* other schedulers are in EventSchedulers).  Variables are named as the   *)
(* members they stand for; the others are                                  *)
(*                                                                         *)
(*   merging    the list ProcessEventsWithContext has swapped out          *)
(*   mutex      the thread that holds m_eventsWithContextMutex             *)
(*   pc, then   where the main thread is, and what comes after merging     *)
(*   issued     EventIds the program has                                   *)
(*   cancelled  uids of the events whose cancel bit is set                 *)
(*   destroys   destroy events: how many, those run, those called off      *)
(*                                                                         *)
(* A thread pushes and clears the flag under the mutex, in two steps, for  *)
(* the main thread reads the flag without it.  m_uid is 32 bits wide; its  *)
(* bound MaxUid keeps it from wrapping.                                    *)
(***************************************************************************)
EXTENDS Integers, Sequences, FiniteSets

CONSTANTS
    Threads,      \* threads other than the main one
    Delays,       \* delays an event is scheduled with
    MaxUid,       \* bound on m_uid
    MaxPushes,    \* bound on what each thread hands over
    MaxDestroys   \* bound on the destroy events

\* The value of mutex when no thread has it.
None == "none"

ASSUME SimulatorAssumption ==
    /\ Delays \subseteq Nat /\ None \notin Threads
    /\ MaxUid \in Nat /\ MaxPushes \in Nat /\ MaxDestroys \in Nat

VARIABLES
    events, uid, currentTs, currentUid, unscheduledEvents, eventCount, stop,
    eventsWithContext, eventsWithContextEmpty, mutex, merging,
    pc, then, issued, cancelled, destroyEvents, destroys, pushes

list == <<events, uid, unscheduledEvents>>
clock == <<currentTs, currentUid, eventCount>>
foreign == <<eventsWithContext, eventsWithContextEmpty, mutex, pushes>>
ids == <<issued, cancelled>>
ends == <<destroyEvents, destroys>>
vars == <<list, clock, stop, foreign, merging, pc, then, ids, ends>>

INVALID == 0
VALID == 4

Less(a, b) == a.ts < b.ts \/ (a.ts = b.ts /\ a.uid < b.uid)

Init ==
    /\ events = {} /\ uid = VALID /\ unscheduledEvents = 0
    /\ currentTs = 0 /\ currentUid = INVALID /\ eventCount = 0
    /\ stop = FALSE
    /\ eventsWithContext = <<>> /\ eventsWithContextEmpty = TRUE
    /\ mutex = None /\ pushes = [t \in Threads |-> 0]
    /\ merging = <<>> /\ pc = "out" /\ then = "run"
    /\ issued = {} /\ cancelled = {}
    /\ destroyEvents = <<>>
    /\ destroys = [scheduled |-> 0, run |-> {}, off |-> {}]

-----------------------------------------------------------------------------
(***************************************************************************)
(* What the program calls on the main thread: outside Run, in an event, or *)
(* in a destroy event.                                                     *)
(***************************************************************************)
Calls == pc \in {"out", "event", "destroying"}

InsertAt(ts) ==
    /\ uid < MaxUid
    /\ events' = events \union {[ts |-> ts, uid |-> uid]}
    /\ uid' = uid + 1
    /\ unscheduledEvents' = unscheduledEvents + 1

\* Schedule and ScheduleNow return the EventId, ScheduleWithContext does not.
Schedule(delay) ==
    /\ Calls
    /\ InsertAt(currentTs + delay)
    /\ issued' \in {issued, issued \union {[ts |-> currentTs + delay, uid |-> uid]}}
    /\ UNCHANGED <<clock, stop, foreign, merging, pc, then, cancelled, ends>>

\* Mutant: an event is expired only once time has moved on.
IsExpired_TimeOnly(id) == id.ts < currentTs \/ id.uid \in cancelled

IsExpired(id) ==
    \/ id.ts < currentTs
    \/ id.ts = currentTs /\ id.uid <= currentUid
    \/ id.uid \in cancelled

Cancel(id) ==
    /\ Calls /\ id \in issued
    /\ cancelled' = IF IsExpired(id) THEN cancelled ELSE cancelled \union {id.uid}
    /\ UNCHANGED <<list, clock, stop, foreign, merging, pc, then, issued, ends>>

\* On an expired event it does nothing.
Remove(id) ==
    /\ Calls /\ id \in issued /\ ~IsExpired(id)
    /\ events' = events \ {id}
    /\ cancelled' = cancelled \union {id.uid}
    /\ unscheduledEvents' = unscheduledEvents - 1
    /\ UNCHANGED <<uid, clock, stop, foreign, merging, pc, then, issued, ends>>

Stop ==
    /\ Calls /\ stop' = TRUE
    /\ UNCHANGED <<list, clock, foreign, merging, pc, then, ids, ends>>

\* Destroy events are numbered in the order they are scheduled in.
ScheduleDestroy ==
    /\ Calls /\ destroys.scheduled < MaxDestroys /\ uid < MaxUid
    /\ destroyEvents' = Append(destroyEvents, destroys.scheduled + 1)
    /\ destroys' = [destroys EXCEPT !.scheduled = @ + 1]
    /\ uid' = uid + 1
    /\ UNCHANGED <<events, unscheduledEvents, clock, stop, foreign, merging, pc, then, ids>>

Listed(n) == \E i \in DOMAIN destroyEvents : destroyEvents[i] = n

CancelDestroy(n) ==
    /\ Calls /\ Listed(n)
    /\ destroys' = [destroys EXCEPT !.off = @ \union {n}]
    /\ UNCHANGED <<list, clock, stop, foreign, merging, pc, then, ids, destroyEvents>>

RemoveDestroy(n) ==
    /\ Calls
    /\ \E i \in DOMAIN destroyEvents :
          /\ destroyEvents[i] = n
          /\ destroyEvents' = SubSeq(destroyEvents, 1, i - 1)
                               \o SubSeq(destroyEvents, i + 1, Len(destroyEvents))
    /\ destroys' = [destroys EXCEPT !.off = @ \union {n}]
    /\ UNCHANGED <<list, clock, stop, foreign, merging, pc, then, ids>>

-----------------------------------------------------------------------------
(***************************************************************************)
(* Other threads: ScheduleWithContext.                                     *)
(***************************************************************************)
\* Events whose callback has returned; what is handed over notes how many there
\* were when the thread let go of the mutex.
Finished == IF pc = "event" THEN eventCount - 1 ELSE eventCount

Push(t, delay) ==
    /\ mutex = None /\ pushes[t] < MaxPushes /\ pc # "gone"
    /\ mutex' = t
    /\ eventsWithContext' =
           Append(eventsWithContext, [delay |-> delay, finished |-> 0])
    /\ pushes' = [pushes EXCEPT ![t] = @ + 1]
    /\ UNCHANGED <<eventsWithContextEmpty, list, clock, stop, merging, pc, then, ids, ends>>

Unlock(t) ==
    /\ mutex = t
    /\ mutex' = None
    /\ eventsWithContextEmpty' = FALSE
    /\ eventsWithContext' =
           [eventsWithContext EXCEPT ![Len(eventsWithContext)].finished = Finished]
    /\ UNCHANGED <<pushes, list, clock, stop, merging, pc, then, ids, ends>>

-----------------------------------------------------------------------------
(***************************************************************************)
(* ProcessEventsWithContext, on the main thread: at the start of Run,      *)
(* after each event, and when the simulator is disposed of.                *)
(***************************************************************************)
\* What follows it; the last case drops what is in the list.
Continue ==
    /\ stop' = IF then = "run" THEN FALSE ELSE stop
    /\ events' = IF then = "dispose" THEN {} ELSE events
    /\ pc' = IF then = "dispose" THEN "gone" ELSE "loop"

ReadFlag ==
    /\ pc = "read"
    /\ IF eventsWithContextEmpty THEN Continue
       ELSE pc' = "swap" /\ UNCHANGED <<stop, events>>
    /\ UNCHANGED <<uid, unscheduledEvents, clock, foreign, merging, then, ids, ends>>

Swap ==
    /\ pc = "swap" /\ mutex = None
    /\ merging' = eventsWithContext
    /\ eventsWithContext' = <<>>
    /\ eventsWithContextEmpty' = TRUE
    /\ pc' = "merge"
    /\ UNCHANGED <<mutex, pushes, list, clock, stop, then, ids, ends>>

\* Mutant: the time of an event handed over is taken as it is.
MergeOne_Absolute ==
    /\ pc = "merge" /\ merging # <<>>
    /\ InsertAt(Head(merging).delay)
    /\ merging' = Tail(merging)
    /\ UNCHANGED <<clock, stop, foreign, pc, then, ids, ends>>

\* Mutant: the event is due a tick early.
MergeOne_Early ==
    /\ pc = "merge" /\ merging # <<>>
    /\ InsertAt(currentTs + Head(merging).delay - 1)
    /\ merging' = Tail(merging)
    /\ UNCHANGED <<clock, stop, foreign, pc, then, ids, ends>>

MergeOne ==
    /\ pc = "merge" /\ merging # <<>>
    /\ InsertAt(currentTs + Head(merging).delay)
    /\ merging' = Tail(merging)
    /\ UNCHANGED <<clock, stop, foreign, pc, then, ids, ends>>

\* Mutant: the flag is set once the events are merged.
Merged_SetsFlag ==
    /\ pc = "merge" /\ merging = <<>>
    /\ Continue
    /\ eventsWithContextEmpty' = TRUE
    /\ UNCHANGED <<uid, unscheduledEvents, clock, eventsWithContext, mutex, pushes,
                   merging, then, ids, ends>>

Merged ==
    /\ pc = "merge" /\ merging = <<>>
    /\ Continue
    /\ UNCHANGED <<uid, unscheduledEvents, clock, foreign, merging, then, ids, ends>>

-----------------------------------------------------------------------------
(***************************************************************************)
(* Run and Destroy.                                                        *)
(***************************************************************************)
Run ==
    /\ pc = "out"
    /\ pc' = "read" /\ then' = "run"
    /\ UNCHANGED <<list, clock, stop, foreign, merging, ids, ends>>

\* A cancelled event is taken from the list and not invoked.
ProcessOneEvent(next) ==
    /\ pc = "loop" /\ ~stop
    /\ next \in events /\ \A e \in events \ {next} : Less(next, e)
    /\ events' = events \ {next}
    /\ unscheduledEvents' = unscheduledEvents - 1
    /\ eventCount' = eventCount + 1
    /\ currentTs' = next.ts /\ currentUid' = next.uid
    /\ pc' = IF next.uid \in cancelled THEN "read" ELSE "event"
    /\ then' = "loop"
    /\ UNCHANGED <<uid, stop, foreign, merging, ids, ends>>

\* Mutant: no look at what has been handed over meanwhile.
EventReturns_Unmerged ==
    /\ pc = "event" /\ pc' = "loop"
    /\ UNCHANGED <<list, clock, stop, foreign, merging, then, ids, ends>>

EventReturns ==
    /\ pc = "event" /\ pc' = "read"
    /\ UNCHANGED <<list, clock, stop, foreign, merging, then, ids, ends>>

RunReturns ==
    /\ pc = "loop" /\ (events = {} \/ stop)
    /\ pc' = "out"
    /\ UNCHANGED <<list, clock, stop, foreign, merging, then, ids, ends>>

Destroy ==
    /\ pc = "out" /\ pc' = "destroy"
    /\ UNCHANGED <<list, clock, stop, foreign, merging, then, ids, ends>>

\* Mutant: a cancelled destroy event ends the loop.
DestroyNext_Break ==
    /\ pc = "destroy" /\ destroyEvents # <<>>
    /\ destroyEvents' = Tail(destroyEvents)
    /\ IF Head(destroyEvents) \in destroys.off
       THEN pc' = "read" /\ then' = "dispose" /\ UNCHANGED destroys
       ELSE /\ pc' = "destroying"
            /\ destroys' = [destroys EXCEPT !.run = @ \union {Head(destroyEvents)}]
            /\ UNCHANGED then
    /\ UNCHANGED <<list, clock, stop, foreign, merging, ids>>

DestroyNext ==
    /\ pc = "destroy" /\ destroyEvents # <<>>
    /\ destroyEvents' = Tail(destroyEvents)
    /\ IF Head(destroyEvents) \in destroys.off
       THEN UNCHANGED <<pc, destroys>>
       ELSE /\ pc' = "destroying"
            /\ destroys' = [destroys EXCEPT !.run = @ \union {Head(destroyEvents)}]
    /\ UNCHANGED <<list, clock, stop, foreign, merging, then, ids>>

DestroyReturns ==
    /\ pc = "destroying" /\ pc' = "destroy"
    /\ UNCHANGED <<list, clock, stop, foreign, merging, then, ids, ends>>

DoDispose ==
    /\ pc = "destroy" /\ destroyEvents = <<>>
    /\ pc' = "read" /\ then' = "dispose"
    /\ UNCHANGED <<list, clock, stop, foreign, merging, ids, ends>>

Program ==
    \/ \E delay \in Delays : Schedule(delay)
    \/ \E id \in issued : Cancel(id) \/ Remove(id)
    \/ Stop
    \/ ScheduleDestroy
    \/ \E n \in 1 .. MaxDestroys : CancelDestroy(n) \/ RemoveDestroy(n)
    \/ Run
    \/ Destroy

Loop ==
    \/ ReadFlag \/ Swap \/ MergeOne \/ Merged
    \/ \E next \in events : ProcessOneEvent(next)
    \/ EventReturns \/ RunReturns
    \/ DestroyNext \/ DestroyReturns \/ DoDispose

Others == \E t \in Threads : Unlock(t) \/ \E delay \in Delays : Push(t, delay)

Next == Program \/ Loop \/ Others

Spec == Init /\ [][Next]_vars

-----------------------------------------------------------------------------
(***************************************************************************)
(* Properties.                                                             *)
(***************************************************************************)
Event == [ts : Nat, uid : Nat]
Handed == [delay : Nat, finished : Nat]
Places == {"out", "read", "swap", "merge", "loop", "event", "destroy", "destroying", "gone"}

\* Types of the members.
TypeOK ==
    /\ events \subseteq Event /\ IsFiniteSet(events) /\ issued \subseteq Event
    /\ uid \in Nat /\ currentTs \in Nat /\ currentUid \in Nat
    /\ unscheduledEvents \in Nat /\ eventCount \in Nat /\ stop \in BOOLEAN
    /\ eventsWithContext \in Seq(Handed) /\ merging \in Seq(Handed)
    /\ eventsWithContextEmpty \in BOOLEAN
    /\ pc \in Places /\ then \in {"run", "loop", "dispose"}

Current == [ts |-> currentTs, uid |-> currentUid]

\* Events run in the order of their times, and in the order they were scheduled
\* in within one time (simulator.h:59), those of other threads included: time
\* never goes back, whatever is scheduled, removed or handed over meanwhile.
InOrder == [][Current' # Current => Less(Current, Current')]_vars

\* IsExpired, which only compares times and uids, says that an event has gone
\* from the list or is cancelled, at every point where the program can ask, and
\* so Remove finds what it looks for.
ExpiredExactly ==
    pc # "gone" =>
        \A id \in issued : IsExpired(id) <=> id \notin events \/ id.uid \in cancelled

\* The simulator implements an event list in which the present is the event
\* taken last: one event is inserted, taken or removed at a time, what is inserted
\* comes after the present, by whichever thread, and what runs is the earliest.
List == INSTANCE EventList WITH last <- Current

ListUsed == List!Spec

\* The count that Run's consistency check relies on is that of the list.
Counted == pc # "gone" => unscheduledEvents = Cardinality(events)

\* The flag the main thread reads without the mutex tells whether something has
\* been handed over, except while a thread is between its push and its unlock.
FlagTrue == mutex = None => (eventsWithContextEmpty <=> eventsWithContext = <<>>)

\* When Run returns, what it leaves behind was handed over after the callback of
\* the last event returned.
NoneLeft ==
    pc = "out" /\ mutex = None =>
        \A i \in DOMAIN eventsWithContext : eventsWithContext[i].finished >= eventCount

\* Each destroy event runs once the simulator is destroyed, also one that
\* another of them schedules, unless it is cancelled or removed; and members
\* keep their types.
DestroyAllRun ==
    /\ TypeOK
    /\ pc = "gone" => destroys.run \union destroys.off = 1 .. destroys.scheduled
                      /\ destroys.run \intersect destroys.off = {}
=============================================================================
