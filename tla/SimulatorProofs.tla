-------------------------- MODULE SimulatorProofs ---------------------------
(***************************************************************************)
(* What holds of the event loop for any threads, delays and bounds.        *)
(*                                                                         *)
(* The invariant has three parts.  ListInv is of the list and the clock:   *)
(* each pending event comes after the current one, each EventId is of an   *)
(* event that is pending, cancelled or not later than the current one, and *)
(* the list is counted.  QueueInv is about what other threads hand over:   *)
(* the flag is true of the list, and what waits while the loop runs on has *)
(* come too late for the last merge.  They meet in MergeOne, whose delay   *)
(* is typed by QueueInv, and in the count of events.  DestroyInv accounts  *)
(* for the destroy events: each is listed once, has run or is called off;  *)
(* it needs nothing of the other two.                                      *)
(***************************************************************************)
EXTENDS Simulator, FiniteSetTheorems, SequenceTheorems, TLAPS

Later == \A e \in events : Less(Current, e)

Fresh == \A e \in events : e.uid < uid

Tracked ==
    pc # "gone" =>
        \A id \in issued : id \in events \/ id.uid \in cancelled \/ ~Less(Current, id)

ListType ==
    /\ events \subseteq Event /\ IsFiniteSet(events) /\ issued \subseteq Event
    /\ uid \in Nat /\ currentTs \in Nat /\ currentUid \in Nat
    /\ unscheduledEvents \in Nat /\ eventCount \in Nat

ListInv == ListType /\ currentUid < uid /\ Later /\ Fresh /\ Tracked /\ Counted

QueueType ==
    /\ eventsWithContext \in Seq(Handed) /\ merging \in Seq(Handed)
    /\ eventsWithContextEmpty \in BOOLEAN /\ stop \in BOOLEAN
    /\ mutex \in Threads \union {None}
    /\ pc \in Places /\ then \in {"run", "loop", "dispose"}

\* While a thread is between its push and its unlock.
Holding ==
    mutex # None =>
        /\ eventsWithContext # <<>>
        /\ eventsWithContextEmpty => Len(eventsWithContext) = 1

LeftLate ==
    pc \in {"merge", "loop", "out"} =>
        \A i \in 1 .. Len(eventsWithContext) :
            \/ eventsWithContext[i].finished >= eventCount
            \/ mutex # None /\ i = Len(eventsWithContext)

QueueInv ==
    /\ QueueType /\ FlagTrue /\ Holding /\ LeftLate
    /\ pc = "event" => eventCount >= 1

Inv == ListInv /\ QueueInv

-----------------------------------------------------------------------------
(***************************************************************************)
(* The order of events.                                                    *)
(***************************************************************************)
\* Less is transitive, as std::map needs it (scheduler.h:262).
LEMMA LessTransitive ==
    ASSUME NEW a \in Event, NEW b \in Event, NEW c \in Event,
           Less(a, b), Less(b, c)
    PROVE  Less(a, c)
BY DEF Event, Less

LEMMA CurrentType == ListType => Current \in Event
BY DEF ListType, Current, Event

\* IsExpired compares an event with the current one.
LEMMA ExpiredMeansNotLater ==
    ASSUME ListType, NEW id \in Event
    PROVE  IsExpired(id) <=> ~Less(Current, id) \/ id.uid \in cancelled
BY DEF ListType, Event, IsExpired, Less, Current

-----------------------------------------------------------------------------
(***************************************************************************)
(* Steps of the list and the clock.                                        *)
(***************************************************************************)
LEMMA ListInit == Init => ListInv
<1>1. ASSUME Init PROVE ListInv
  BY <1>1, FS_EmptySet DEF Init, ListInv, ListType, Later, Fresh, Tracked, Counted,
                           VALID, INVALID
<1> QED BY <1>1

\* A step that leaves list, clock and EventIds as they are.
LEMMA ListQuiet ==
    ASSUME ListInv, UNCHANGED <<list, clock, ids>>, pc = "gone" => pc' = "gone"
    PROVE  ListInv'
BY DEF ListInv, ListType, Later, Fresh, Tracked, Counted, Current, Less,
       list, clock, ids

\* Schedule and MergeOne put in an event that is not before the current one.
LEMMA InsertStep ==
    ASSUME ListInv, NEW delay \in Nat, InsertAt(currentTs + delay),
           UNCHANGED <<clock, pc, cancelled>>,
           issued' \in {issued, issued \union {[ts |-> currentTs + delay, uid |-> uid]}}
    PROVE  ListInv'
<1> DEFINE e == [ts |-> currentTs + delay, uid |-> uid]
<1>1. e \in Event /\ e \notin events /\ Less(Current, e)
  BY DEF ListInv, ListType, Fresh, Event, Less, Current
<1>2. events' = events \union {e} /\ uid' = uid + 1 /\ unscheduledEvents' = unscheduledEvents + 1
  BY DEF InsertAt
<1>3. Current' = Current
  BY DEF Current, clock
<1>4. IsFiniteSet(events') /\ Cardinality(events') = Cardinality(events) + 1
  BY <1>1, <1>2, FS_AddElement DEF ListInv, ListType
<1>5. e.uid = uid
  OBVIOUS
<1>6. issued' \subseteq issued \union {e}
  OBVIOUS
<1> HIDE DEF e
<1>7. ListType'
  BY <1>1, <1>2, <1>4, <1>6 DEF ListInv, ListType, clock
<1>8. Later'
  BY <1>1, <1>2, <1>3 DEF ListInv, Later, Less
<1>9. Fresh'
  BY <1>2, <1>5, <1>7 DEF ListInv, ListType, Fresh, Event
<1>10. Tracked'
  BY <1>2, <1>3, <1>6 DEF ListInv, Tracked, Less
<1>11. Counted'
  BY <1>2, <1>4 DEF ListInv, Counted
<1>12. (currentUid < uid)'
  BY <1>2 DEF ListInv, ListType, clock
<1> QED BY <1>7, <1>8, <1>9, <1>10, <1>11, <1>12 DEF ListInv

LEMMA CancelStep == ASSUME ListInv, NEW id, Cancel(id) PROVE ListInv'
<1>1. cancelled \subseteq cancelled' /\ UNCHANGED <<list, clock, issued, pc>>
  BY DEF Cancel
<1> QED
  BY <1>1 DEF ListInv, ListType, Later, Fresh, Tracked, Counted, Current, Less, list, clock

\* What Remove takes out is in the list: the EventId is tracked.
LEMMA RemoveStep == ASSUME ListInv, NEW id, Remove(id) PROVE ListInv'
<1>1. /\ events' = events \ {id} /\ unscheduledEvents' = unscheduledEvents - 1
      /\ cancelled' = cancelled \union {id.uid}
      /\ UNCHANGED <<uid, clock, issued, pc>> /\ id \in issued /\ pc # "gone"
  BY DEF Remove, Calls
<1>2. Less(Current, id) /\ id.uid \notin cancelled
  BY <1>1, ExpiredMeansNotLater DEF Remove, ListInv, ListType
<1>3. id \in events
  BY <1>1, <1>2 DEF ListInv, Tracked
<1>4. IsFiniteSet(events') /\ Cardinality(events') = Cardinality(events) - 1
  BY <1>1, <1>3, FS_RemoveElement DEF ListInv, ListType
<1>5. unscheduledEvents' = Cardinality(events') /\ unscheduledEvents' \in Nat
  BY <1>1, <1>4, FS_CardinalityType DEF ListInv, Counted
<1>6. Current' = Current
  BY <1>1 DEF Current, clock
<1>7. ListType'
  BY <1>1, <1>4, <1>5 DEF ListInv, ListType, clock
<1>8. Later' /\ Fresh'
  BY <1>1, <1>6 DEF ListInv, Later, Fresh, Less
<1>9. Tracked'
  BY <1>1, <1>6 DEF ListInv, Tracked, Less
<1>10. Counted' /\ (currentUid < uid)'
  BY <1>1, <1>5 DEF ListInv, Counted, clock
<1> QED BY <1>7, <1>8, <1>9, <1>10 DEF ListInv

\* The event that runs becomes the current one; no pending one comes before it.
LEMMA ProcessOneEventStep ==
    ASSUME ListInv, NEW next, ProcessOneEvent(next)
    PROVE  ListInv' /\ Less(Current, Current')
<1>1. /\ events' = events \ {next} /\ unscheduledEvents' = unscheduledEvents - 1
      /\ UNCHANGED <<uid, issued, cancelled>> /\ next \in events /\ pc # "gone"
      /\ \A e \in events \ {next} : Less(next, e)
      /\ currentTs' = next.ts /\ currentUid' = next.uid /\ eventCount' = eventCount + 1
  BY DEF ProcessOneEvent, ids
<1>2. next \in Event /\ Less(Current, next)
  BY <1>1 DEF ListInv, ListType, Later
<1>3. Current' = next
  BY <1>1, <1>2 DEF Current, Event
<1>4. IsFiniteSet(events') /\ Cardinality(events') = Cardinality(events) - 1
  BY <1>1, FS_RemoveElement DEF ListInv, ListType
<1>5. unscheduledEvents' = Cardinality(events') /\ unscheduledEvents' \in Nat
  BY <1>1, <1>4, FS_CardinalityType DEF ListInv, Counted
<1>6. ListType'
  BY <1>1, <1>2, <1>4, <1>5 DEF ListInv, ListType, Event
<1>7. Later'
  BY <1>1, <1>3 DEF Later
<1>8. Fresh' /\ (currentUid < uid)'
  BY <1>1 DEF ListInv, Fresh
<1>9. ASSUME NEW id \in issued, id \notin events \ {next}, id.uid \notin cancelled
      PROVE  ~Less(next, id)
  <2>1. CASE id = next
    BY <2>1, <1>2 DEF Less, Event
  <2>2. CASE id # next
    <3>1. ~Less(Current, id)
      BY <2>2, <1>1, <1>9 DEF ListInv, Tracked
    <3>2. id \in Event /\ Current \in Event
      BY CurrentType DEF ListInv, ListType
    <3> QED BY <3>1, <3>2, <1>2, LessTransitive
  <2> QED BY <2>1, <2>2
<1>10. Tracked'
  BY <1>1, <1>3, <1>9 DEF Tracked
<1>11. Counted'
  BY <1>5 DEF Counted
<1> QED BY <1>2, <1>3, <1>6, <1>7, <1>8, <1>10, <1>11 DEF ListInv

\* Merging ends, and the list is dropped if the simulator is disposed of.
LEMMA ContinueStep ==
    ASSUME ListInv, Continue, UNCHANGED <<uid, unscheduledEvents, clock, ids>>, pc # "gone"
    PROVE  ListInv'
<1>1. CASE then = "dispose"
  <2>1. events' = {} /\ pc' = "gone"
    BY <1>1 DEF Continue
  <2> QED
    BY <2>1, FS_EmptySet DEF ListInv, ListType, Later, Fresh, Tracked, Counted, clock, ids
<1>2. CASE then # "dispose"
  BY <1>2, ListQuiet DEF Continue, list
<1> QED BY <1>1, <1>2

-----------------------------------------------------------------------------
(***************************************************************************)
(* Steps of what is handed over.                                           *)
(***************************************************************************)
LEMMA QueueInit == Init => QueueInv
<1>1. ASSUME Init PROVE QueueInv
  <2>0. eventsWithContext \in Seq(Handed) /\ merging \in Seq(Handed)
    BY <1>1, EmptySeq DEF Init
  <2>1. QueueType
    BY <1>1, <2>0 DEF Init, QueueType, Places
  <2>2. FlagTrue /\ Holding /\ LeftLate /\ (pc = "event" => eventCount >= 1)
    BY <1>1 DEF Init, FlagTrue, Holding, LeftLate
  <2> QED BY <2>1, <2>2 DEF QueueInv
<1> QED BY <1>1

\* A step of the main thread that leaves the queue alone, and does not enter the
\* end of the loop or an event.
LEMMA QueueQuiet ==
    ASSUME QueueInv, UNCHANGED <<foreign, merging, eventCount>>,
           stop' \in BOOLEAN, then' \in {"run", "loop", "dispose"}, pc' \in Places,
           pc' \in {"merge", "loop", "out"} => pc \in {"merge", "loop", "out"},
           pc' = "event" => pc = "event"
    PROVE  QueueInv'
BY DEF QueueInv, QueueType, FlagTrue, Holding, LeftLate, foreign

LEMMA PushStep ==
    ASSUME Inv, NEW t \in Threads, NEW delay \in Delays, Push(t, delay)
    PROVE  QueueInv'
<1> DEFINE item == [delay |-> delay, finished |-> 0]
<1>1. /\ mutex = None /\ mutex' = t
      /\ eventsWithContext' = Append(eventsWithContext, item)
      /\ UNCHANGED <<eventsWithContextEmpty, merging, eventCount, stop, pc, then>>
  BY DEF Push, clock
<1>2. item \in Handed /\ t # None
  BY SimulatorAssumption DEF Handed
<1>3. eventsWithContext \in Seq(Handed)
  BY DEF Inv, QueueInv, QueueType
<1> HIDE DEF item
<1>4. /\ eventsWithContext' \in Seq(Handed) /\ eventsWithContext' # <<>>
      /\ Len(eventsWithContext') = Len(eventsWithContext) + 1
      /\ \A i \in 1 .. Len(eventsWithContext) : eventsWithContext'[i] = eventsWithContext[i]
  BY <1>1, <1>2, <1>3, AppendProperties
<1>5. QueueType' /\ FlagTrue'
  BY <1>1, <1>2, <1>4 DEF Inv, QueueInv, QueueType, FlagTrue
<1>6. Holding'
  BY <1>1, <1>4 DEF Inv, QueueInv, FlagTrue, Holding
<1>7. Len(eventsWithContext) \in Nat
  BY <1>3, LenProperties
<1>8. LeftLate'
  BY <1>1, <1>2, <1>4, <1>7 DEF Inv, QueueInv, LeftLate
<1> QED BY <1>1, <1>5, <1>6, <1>8 DEF Inv, QueueInv

LEMMA UnlockStep ==
    ASSUME Inv, NEW t \in Threads, Unlock(t)
    PROVE  QueueInv'
<1> DEFINE n == Len(eventsWithContext)
           item == [eventsWithContext[n] EXCEPT !.finished = Finished]
<1>1. /\ mutex = t /\ mutex' = None /\ eventsWithContextEmpty' = FALSE
      /\ eventsWithContext' = [eventsWithContext EXCEPT ![n] = item]
      /\ UNCHANGED <<merging, eventCount, stop, pc, then>>
  BY DEF Unlock, clock
<1>2. t # None
  BY SimulatorAssumption
<1>3. eventsWithContext \in Seq(Handed) /\ eventsWithContext # <<>>
  BY <1>1, <1>2 DEF Inv, QueueInv, QueueType, Holding
<1>4. n \in 1 .. Len(eventsWithContext) /\ eventsWithContext[n] \in Handed
  BY <1>3, EmptySeq, LenProperties
<1>5. Finished \in Nat /\ (pc # "event" => Finished = eventCount)
  BY DEF Finished, Inv, QueueInv, ListInv, ListType
<1>6. item \in Handed /\ item.finished = Finished
  BY <1>4, <1>5 DEF Handed
<1> HIDE DEF n, item
<1>7. /\ eventsWithContext' \in Seq(Handed) /\ Len(eventsWithContext') = Len(eventsWithContext)
      /\ \A i \in 1 .. Len(eventsWithContext) :
             eventsWithContext'[i] = IF i = n THEN item ELSE eventsWithContext[i]
  BY <1>1, <1>3, <1>4, <1>6, ExceptSeq
<1>8. eventsWithContext' # <<>>
  BY <1>4, <1>7, EmptySeq DEF n
<1>9. QueueType' /\ FlagTrue' /\ Holding'
  BY <1>1, <1>7, <1>8 DEF Inv, QueueInv, QueueType, FlagTrue, Holding
<1>10. ASSUME pc \in {"merge", "loop", "out"}, NEW i \in 1 .. Len(eventsWithContext)
       PROVE  eventsWithContext'[i].finished >= eventCount
  <2>1. CASE i = n
    BY <2>1, <1>5, <1>6, <1>7, <1>10 DEF Inv, ListInv, ListType
  <2>2. CASE i # n
    BY <2>2, <1>7, <1>10 DEF Inv, QueueInv, LeftLate, n
  <2> QED BY <2>1, <2>2
<1>11. LeftLate'
  BY <1>1, <1>7, <1>10 DEF LeftLate
<1> QED BY <1>1, <1>9, <1>11 DEF Inv, QueueInv

\* What ProcessEventsWithContext finds when it reads the flag decides whether
\* what waits has come in time.
LEMMA ReadFlagStep == ASSUME Inv, ReadFlag PROVE QueueInv'
<1>1. /\ pc = "read" /\ UNCHANGED <<foreign, merging, eventCount, then>>
      /\ eventsWithContextEmpty => Continue
      /\ ~eventsWithContextEmpty => pc' = "swap" /\ stop' = stop
  BY DEF ReadFlag, clock
<1>2. CASE ~eventsWithContextEmpty
  BY <1>1, <1>2, QueueQuiet DEF Inv, QueueInv, QueueType, Places
<1>3. CASE eventsWithContextEmpty
  <2>1. pc' \in {"loop", "gone"} /\ stop' \in BOOLEAN
    BY <1>1, <1>3 DEF Continue, Inv, QueueInv, QueueType
  <2>2. QueueType' /\ FlagTrue' /\ Holding'
    BY <1>1, <2>1 DEF Inv, QueueInv, QueueType, Places, FlagTrue, Holding, foreign
  <2>3. ASSUME NEW i \in 1 .. Len(eventsWithContext)
        PROVE  mutex # None /\ i = Len(eventsWithContext)
    <3>1. CASE mutex = None
      BY <3>1, <1>3, EmptySeq DEF Inv, QueueInv, FlagTrue
    <3>2. CASE mutex # None
      <4>1. Len(eventsWithContext) = 1
        BY <3>2, <1>3, Zenon DEF Inv, QueueInv, Holding
      <4> QED BY <4>1, <3>2
    <3> QED BY <3>1, <3>2
  <2>4. LeftLate'
    BY <1>1, <2>3 DEF LeftLate, foreign
  <2> QED BY <2>1, <2>2, <2>4 DEF QueueInv
<1> QED BY <1>2, <1>3

LEMMA SwapStep == ASSUME Inv, Swap PROVE QueueInv'
<1>1. /\ mutex = None /\ mutex' = None
      /\ merging' = eventsWithContext /\ eventsWithContext' = <<>>
      /\ eventsWithContextEmpty' = TRUE /\ pc' = "merge"
      /\ UNCHANGED <<stop, then>>
  BY DEF Swap
<1>2. eventsWithContext' \in Seq(Handed) /\ Len(eventsWithContext') = 0
  BY <1>1, EmptySeq
<1> QED
  BY <1>1, <1>2 DEF Inv, QueueInv, QueueType, Places, FlagTrue, Holding, LeftLate

LEMMA MergeOneStep == ASSUME Inv, MergeOne PROVE Inv'
<1>1. merging \in Seq(Handed) /\ merging # <<>>
  BY DEF MergeOne, Inv, QueueInv, QueueType
<1>2. Head(merging) \in Handed /\ Tail(merging) \in Seq(Handed)
  BY <1>1, HeadTailProperties
<1>3. ListInv'
  BY <1>2, InsertStep DEF MergeOne, Inv, ids, Handed
<1>4. QueueInv'
  BY <1>2 DEF MergeOne, Inv, QueueInv, QueueType, FlagTrue, Holding, LeftLate,
              foreign, clock
<1> QED BY <1>3, <1>4 DEF Inv

LEMMA MergedStep == ASSUME Inv, Merged PROVE Inv'
<1>1. pc = "merge" /\ Continue
      /\ UNCHANGED <<uid, unscheduledEvents, clock, foreign, merging, then, ids>>
  BY DEF Merged
<1>2. ListInv'
  BY <1>1, ContinueStep DEF Inv
<1>3. pc' \in {"loop", "gone"} /\ stop' \in BOOLEAN /\ eventCount' = eventCount
  BY <1>1 DEF Continue, Inv, QueueInv, QueueType, clock
<1>4. QueueInv'
  BY <1>1, <1>3, QueueQuiet DEF Inv, QueueInv, QueueType, Places
<1> QED BY <1>2, <1>4 DEF Inv

-----------------------------------------------------------------------------
(***************************************************************************)
(* Every step.                                                             *)
(***************************************************************************)
\* Steps that only move the main thread or touch the destroy events.
Moves ==
    \/ Stop \/ \E n \in 1 .. MaxDestroys : CancelDestroy(n) \/ RemoveDestroy(n)
    \/ Run \/ Destroy \/ EventReturns \/ RunReturns
    \/ DestroyNext \/ DestroyReturns \/ DoDispose

LEMMA MovesStep == ASSUME Inv, Moves PROVE Inv' /\ UNCHANGED <<list, clock>>
<1>1. /\ UNCHANGED <<list, clock, ids>> /\ UNCHANGED <<foreign, merging>>
      /\ stop' \in BOOLEAN /\ then' \in {"run", "loop", "dispose"} /\ pc' \in Places
      /\ pc' \in {"merge", "loop", "out"} => pc \in {"merge", "loop", "out"}
      /\ pc' = "event" => pc = "event"
      /\ pc = "gone" => pc' = "gone"
  BY DEF Moves, Stop, CancelDestroy, RemoveDestroy, Run, Destroy, EventReturns,
         RunReturns, DestroyNext, DestroyReturns, DoDispose, Calls,
         Inv, QueueInv, QueueType, Places
<1>2. ListInv'
  BY <1>1, ListQuiet DEF Inv
<1>3. QueueInv'
  BY <1>1, QueueQuiet DEF Inv, clock
<1> QED BY <1>1, <1>2, <1>3 DEF Inv

LEMMA NextStep ==
    ASSUME Inv, Next
    PROVE  Inv' /\ (Current' # Current => Less(Current, Current'))
<1> USE DEF Inv
<1>1. CASE \E delay \in Delays : Schedule(delay)
  <2>1. PICK delay \in Delays : Schedule(delay)
    BY <1>1
  <2>2. ListInv'
    BY <2>1, InsertStep, SimulatorAssumption DEF Schedule
  <2>3. QueueInv'
    BY <2>1, QueueQuiet DEF Schedule, QueueInv, QueueType, clock
  <2> QED BY <2>1, <2>2, <2>3 DEF Schedule, clock, Current
<1>2. CASE \E id \in issued : Cancel(id)
  <2>1. PICK id \in issued : Cancel(id)
    BY <1>2
  <2>2. ListInv'
    BY <2>1, CancelStep
  <2>3. QueueInv'
    BY <2>1, QueueQuiet DEF Cancel, QueueInv, QueueType, clock
  <2> QED BY <2>1, <2>2, <2>3 DEF Cancel, clock, Current
<1>3. CASE \E id \in issued : Remove(id)
  <2>1. PICK id \in issued : Remove(id)
    BY <1>3
  <2>2. ListInv'
    BY <2>1, RemoveStep
  <2>3. QueueInv'
    BY <2>1, QueueQuiet DEF Remove, QueueInv, QueueType, clock
  <2> QED BY <2>1, <2>2, <2>3 DEF Remove, clock, Current
<1>4. CASE ScheduleDestroy
  <2>1. /\ uid' = uid + 1 /\ UNCHANGED <<events, unscheduledEvents, clock, ids, pc>>
        /\ UNCHANGED <<foreign, merging, stop, then>>
    BY <1>4 DEF ScheduleDestroy
  <2>2. ListInv'
    BY <2>1 DEF ListInv, ListType, Later, Fresh, Tracked, Counted, Current, Less,
                clock, ids, Event
  <2>3. QueueInv'
    BY <2>1, QueueQuiet DEF QueueInv, QueueType, clock
  <2> QED BY <2>1, <2>2, <2>3 DEF clock, Current
<1>5. CASE Moves
  BY <1>5, MovesStep DEF clock, Current
<1>6. CASE ReadFlag
  <2>1. /\ pc = "read" /\ UNCHANGED <<uid, unscheduledEvents, clock, ids>>
        /\ Continue \/ (pc' = "swap" /\ UNCHANGED events)
    BY <1>6 DEF ReadFlag
  <2>2. ListInv'
    BY <2>1, ContinueStep, ListQuiet DEF list
  <2> QED BY <1>6, <2>1, <2>2, ReadFlagStep DEF clock, Current
<1>7. CASE Swap
  <2>1. ListInv'
    BY <1>7, ListQuiet DEF Swap
  <2> QED BY <1>7, <2>1, SwapStep DEF Swap, clock, Current
<1>8. CASE MergeOne
  BY <1>8, MergeOneStep DEF MergeOne, clock, Current
<1>9. CASE Merged
  BY <1>9, MergedStep DEF Merged, clock, Current
<1>10. CASE \E next \in events : ProcessOneEvent(next)
  <2>1. PICK next \in events : ProcessOneEvent(next)
    BY <1>10
  <2>2. ListInv' /\ Less(Current, Current')
    BY <2>1, ProcessOneEventStep
  <2>3. /\ pc' \in {"read", "event"} /\ then' = "loop" /\ eventCount' = eventCount + 1
        /\ UNCHANGED <<stop, foreign, merging>>
    BY <2>1 DEF ProcessOneEvent
  <2>4. QueueInv'
    BY <2>3 DEF QueueInv, QueueType, Places, FlagTrue, Holding, LeftLate, foreign,
                ListInv, ListType
  <2> QED BY <2>2, <2>4
<1>11. CASE \E t \in Threads : Unlock(t)
  <2>1. PICK t \in Threads : Unlock(t)
    BY <1>11
  <2>2. ListInv'
    BY <2>1, ListQuiet DEF Unlock
  <2> QED BY <2>1, <2>2, UnlockStep DEF Unlock, clock, Current
<1>12. CASE \E t \in Threads, delay \in Delays : Push(t, delay)
  <2>1. PICK t \in Threads, delay \in Delays : Push(t, delay)
    BY <1>12
  <2>2. ListInv'
    BY <2>1, ListQuiet DEF Push
  <2> QED BY <2>1, <2>2, PushStep DEF Push, clock, Current
<1> QED
  BY <1>1, <1>2, <1>3, <1>4, <1>5, <1>6, <1>7, <1>8, <1>9, <1>10, <1>11, <1>12
  DEF Next, Program, Loop, Others, Moves

LEMMA StutterStep == ASSUME Inv, UNCHANGED vars PROVE Inv' /\ Current' = Current
<1>1. ListInv' /\ Current' = Current
  BY ListQuiet DEF Inv, vars, clock, Current
<1>2. QueueInv'
  BY QueueQuiet DEF Inv, QueueInv, QueueType, vars, clock
<1> QED BY <1>1, <1>2 DEF Inv

-----------------------------------------------------------------------------
(***************************************************************************)
(* Destroy events.                                                         *)
(***************************************************************************)
Members(q) == {q[i] : i \in 1 .. Len(q)}
Distinct(q) == \A i, j \in 1 .. Len(q) : q[i] = q[j] => i = j

\* Each destroy event is in the list once, has run, or has been called off; from
\* DoDispose on the list is empty.
DestroyInv ==
    /\ destroyEvents \in Seq(Nat) /\ Distinct(destroyEvents)
    /\ destroys.scheduled \in Nat
    /\ destroys = [scheduled |-> destroys.scheduled, run |-> destroys.run,
                   off |-> destroys.off]
    /\ destroys.run \union destroys.off \union Members(destroyEvents)
         = 1 .. destroys.scheduled
    /\ destroys.run \intersect destroys.off = {}
    /\ destroys.run \intersect Members(destroyEvents) = {}
    /\ pc = "gone" => then = "dispose"
    /\ then = "dispose" => pc \in {"read", "swap", "merge", "gone"} /\ destroyEvents = <<>>

LEMMA AppendDistinct ==
    ASSUME NEW q \in Seq(Nat), Distinct(q), NEW n \in Nat, n \notin Members(q)
    PROVE  /\ Append(q, n) \in Seq(Nat) /\ Distinct(Append(q, n))
           /\ Members(Append(q, n)) = Members(q) \union {n}
<1>1. /\ Len(q) \in Nat /\ Len(Append(q, n)) = Len(q) + 1 /\ Append(q, n)[Len(q) + 1] = n
      /\ \A i \in 1 .. Len(q) : Append(q, n)[i] = q[i]
  BY LenProperties, AppendProperties
<1>2. Append(q, n) \in Seq(Nat)
  BY AppendProperties
<1> HIDE DEF Distinct
<1>3. Distinct(Append(q, n))
  <2>1. ASSUME NEW i \in 1 .. Len(q) + 1, NEW j \in 1 .. Len(q) + 1,
               Append(q, n)[i] = Append(q, n)[j]
        PROVE  i = j
    <3>1. CASE i = Len(q) + 1 /\ j # i
      BY <3>1, <2>1, <1>1 DEF Members
    <3>2. CASE j = Len(q) + 1 /\ j # i
      BY <3>2, <2>1, <1>1 DEF Members
    <3>3. CASE i # Len(q) + 1 /\ j # Len(q) + 1
      BY <3>3, <2>1, <1>1 DEF Distinct
    <3> QED BY <3>1, <3>2, <3>3
  <2> QED BY <2>1, <1>1 DEF Distinct
<1>4. Members(Append(q, n)) = Members(q) \union {n}
  BY <1>1 DEF Members
<1> QED BY <1>2, <1>3, <1>4

\* Without its i-th place, what comes after moves up.
LEMMA JoinedElements ==
    ASSUME NEW q \in Seq(Nat), NEW i \in 1 .. Len(q),
           NEW before \in Seq(Nat), NEW after \in Seq(Nat),
           Len(before) = i - 1, \A k \in 1 .. i - 1 : before[k] = q[k],
           Len(after) = Len(q) - i, \A k \in 1 .. Len(q) - i : after[k] = q[k + i],
           NEW k \in 1 .. Len(q) - 1
    PROVE  (before \o after)[k] = q[IF k < i THEN k ELSE k + 1]
<1>0. Len(q) \in Nat /\ i \in Nat
  BY LenProperties
<1>1. k \in 1 .. Len(before) + Len(after)
  BY <1>0
<1>2. (before \o after)[k] = IF k <= Len(before) THEN before[k] ELSE after[k - Len(before)]
  BY <1>1, ConcatProperties
<1> DEFINE x == (before \o after)[k]
           j == IF k < i THEN k ELSE k + 1
<1>3. CASE k < i
  <2>1. j = k /\ k <= Len(before) /\ k \in 1 .. i - 1
    BY <1>3, <1>0
  <2>2. x = before[k] /\ before[k] = q[k]
    BY <2>1, <1>2
  <2> HIDE DEF x, j
  <2>3. x = q[j]
    BY <2>1, <2>2
  <2> QED BY <2>3 DEF x, j
<1>4. CASE k >= i
  <2>1. k - Len(before) \in 1 .. Len(q) - i /\ k - Len(before) + i = k + 1 /\ ~(k <= Len(before))
    BY <1>0, <1>4
  <2>2. (before \o after)[k] = after[k - Len(before)]
    BY <1>2, <2>1
  <2>3. after[k - Len(before)] = q[k - Len(before) + i]
    BY <2>1
  <2>4. j = k + 1
    BY <1>4, <1>0
  <2>5. x = q[k - Len(before) + i]
    BY <2>2, <2>3
  <2> HIDE DEF x, j
  <2>6. x = q[j]
    BY <2>1, <2>4, <2>5
  <2> QED BY <2>6 DEF x, j
<1>5. k < i \/ k >= i
  BY <1>0
<1> QED BY <1>3, <1>4, <1>5

LEMMA WithoutElements ==
    ASSUME NEW q \in Seq(Nat), NEW i \in 1 .. Len(q)
    PROVE  LET t == SubSeq(q, 1, i - 1) \o SubSeq(q, i + 1, Len(q))
           IN  /\ t \in Seq(Nat) /\ Len(t) = Len(q) - 1
               /\ \A k \in 1 .. Len(q) - 1 : t[k] = q[IF k < i THEN k ELSE k + 1]
<1> DEFINE before == SubSeq(q, 1, i - 1)
           after == SubSeq(q, i + 1, Len(q))
<1>0. Len(q) \in Nat /\ i \in Nat /\ \A k \in 1 .. Len(q) : q[k] \in Nat
  BY LenProperties
<1>1. before \in Seq(Nat) /\ Len(before) = i - 1
      /\ \A k \in 1 .. i - 1 : before[k] = q[k]
  <2>1. \A k \in 1 .. i - 1 : q[k] \in Nat
    BY <1>0
  <2>2. /\ before \in Seq(Nat) /\ Len(before) = IF 1 <= i - 1 THEN i - 1 - 1 + 1 ELSE 0
        /\ \A k \in 1 .. i - 1 - 1 + 1 : before[k] = q[1 + k - 1]
    BY <1>0, <2>1, SubSeqProperties
  <2> QED BY <2>2, <1>0
<1>2. after \in Seq(Nat) /\ Len(after) = Len(q) - i
      /\ \A k \in 1 .. Len(q) - i : after[k] = q[k + i]
  <2>1. \A k \in i + 1 .. Len(q) : q[k] \in Nat
    BY <1>0
  <2>2. /\ after \in Seq(Nat)
        /\ Len(after) = IF i + 1 <= Len(q) THEN Len(q) - (i + 1) + 1 ELSE 0
        /\ \A k \in 1 .. Len(q) - (i + 1) + 1 : after[k] = q[i + 1 + k - 1]
    BY <1>0, <2>1, SubSeqProperties
  <2> QED BY <2>2, <1>0
<1> HIDE DEF before, after
<1>3. before \o after \in Seq(Nat) /\ Len(before \o after) = Len(q) - 1
  <2>1. before \o after \in Seq(Nat) /\ Len(before \o after) = Len(before) + Len(after)
    BY <1>1, <1>2, ConcatProperties
  <2> QED BY <2>1, <1>0, <1>1, <1>2
<1>4. \A k \in 1 .. Len(q) - 1 : (before \o after)[k] = q[IF k < i THEN k ELSE k + 1]
  BY <1>1, <1>2, JoinedElements
<1> QED BY <1>3, <1>4 DEF before, after

LEMMA OneLessDistinct ==
    ASSUME NEW q \in Seq(Nat), Distinct(q), NEW i \in 1 .. Len(q), NEW t \in Seq(Nat),
           Len(t) = Len(q) - 1,
           \A k \in 1 .. Len(q) - 1 : t[k] = q[IF k < i THEN k ELSE k + 1]
    PROVE  Distinct(t) /\ Members(t) = Members(q) \ {q[i]}
<1> DEFINE Old(k) == IF k < i THEN k ELSE k + 1
<1>0. Len(q) \in Nat /\ i \in Nat
  BY LenProperties
<1>1. /\ \A k \in 1 .. Len(t) : Old(k) \in 1 .. Len(q) /\ Old(k) # i /\ t[k] = q[Old(k)]
      /\ \A k, l \in 1 .. Len(t) : Old(k) = Old(l) => k = l
      /\ \A k \in 1 .. Len(q) : k # i => \E l \in 1 .. Len(t) : Old(l) = k
  <2>1. ASSUME NEW k \in 1 .. Len(q), k # i
        PROVE  \E l \in 1 .. Len(t) : Old(l) = k
    <3>1. CASE k < i
      <4>1. k \in 1 .. Len(t) /\ Old(k) = k
        BY <3>1, <1>0
      <4> QED BY <4>1
    <3>2. CASE k > i
      <4>1. k - 1 \in 1 .. Len(t) /\ Old(k - 1) = k
        BY <3>2, <1>0
      <4> QED BY <4>1
    <3> QED BY <3>1, <3>2, <2>1, <1>0
  <2> QED BY <2>1, <1>0
<1> HIDE DEF Old
<1>2. Distinct(t)
  <2>1. ASSUME NEW k \in 1 .. Len(t), NEW l \in 1 .. Len(t), t[k] = t[l]
        PROVE  k = l
    <3>1. q[Old(k)] = q[Old(l)] /\ Old(k) \in 1 .. Len(q) /\ Old(l) \in 1 .. Len(q)
      BY <2>1, <1>1
    <3>2. Old(k) = Old(l)
      BY <3>1 DEF Distinct
    <3> QED BY <3>2, <1>1
  <2> QED BY <2>1 DEF Distinct
<1>3. ASSUME NEW x PROVE x \in Members(t) <=> x \in Members(q) \ {q[i]}
  <2>1. ASSUME x \in Members(t) PROVE x \in Members(q) \ {q[i]}
    <3>1. PICK k \in 1 .. Len(t) : x = t[k]
      BY <2>1 DEF Members
    <3>2. x = q[Old(k)] /\ Old(k) \in 1 .. Len(q) /\ Old(k) # i
      BY <3>1, <1>1
    <3>3. q[Old(k)] # q[i]
      BY <3>2 DEF Distinct
    <3> QED BY <3>2, <3>3 DEF Members
  <2>2. ASSUME x \in Members(q) \ {q[i]} PROVE x \in Members(t)
    <3>1. PICK k \in 1 .. Len(q) : x = q[k] /\ k # i
      BY <2>2 DEF Members
    <3>2. PICK l \in 1 .. Len(t) : Old(l) = k
      BY <3>1, <1>1
    <3>3. t[l] = x
      BY <3>1, <3>2, <1>1
    <3> QED BY <3>3 DEF Members
  <2> QED BY <2>1, <2>2
<1> QED BY <1>2, <1>3

\* What is left of a list without one of its places.
LEMMA WithoutDistinct ==
    ASSUME NEW q \in Seq(Nat), Distinct(q), NEW i \in 1 .. Len(q)
    PROVE  LET t == SubSeq(q, 1, i - 1) \o SubSeq(q, i + 1, Len(q))
           IN  t \in Seq(Nat) /\ Distinct(t) /\ Members(t) = Members(q) \ {q[i]}
BY WithoutElements, OneLessDistinct

LEMMA TailDistinct ==
    ASSUME NEW q \in Seq(Nat), Distinct(q), q # <<>>
    PROVE  /\ Tail(q) \in Seq(Nat) /\ Distinct(Tail(q))
           /\ Head(q) \in Members(q) /\ Members(Tail(q)) = Members(q) \ {Head(q)}
<1>1. /\ Len(q) \in Nat /\ Len(q) > 0 /\ Head(q) = q[1] /\ Tail(q) \in Seq(Nat)
      /\ Len(Tail(q)) = Len(q) - 1
      /\ \A k \in 1 .. Len(q) - 1 : Tail(q)[k] = q[k + 1]
  BY LenProperties, EmptySeq, HeadTailProperties
<1>2. Distinct(Tail(q))
  BY <1>1 DEF Distinct
<1>3. Head(q) \in Members(q)
  BY <1>1 DEF Members
<1>4. ASSUME NEW x PROVE x \in Members(Tail(q)) <=> x \in Members(q) \ {Head(q)}
  <2>1. ASSUME x \in Members(Tail(q)) PROVE x \in Members(q) \ {Head(q)}
    BY <2>1, <1>1 DEF Members, Distinct
  <2>2. ASSUME x \in Members(q) \ {Head(q)} PROVE x \in Members(Tail(q))
    <3>1. PICK k \in 1 .. Len(q) : x = q[k] /\ k # 1
      BY <2>2, <1>1 DEF Members
    <3>2. k - 1 \in 1 .. Len(Tail(q)) /\ Tail(q)[k - 1] = x
      BY <3>1, <1>1
    <3> QED BY <3>2 DEF Members
  <2> QED BY <2>1, <2>2
<1> QED BY <1>1, <1>2, <1>3, <1>4

\* A step that leaves the destroy events alone.
LEMMA DestroyQuiet ==
    ASSUME DestroyInv, UNCHANGED <<ends, then>>,
           pc' = "gone" => pc = "gone" \/ then = "dispose",
           pc \in {"read", "swap", "merge", "gone"} /\ then = "dispose"
              => pc' \in {"read", "swap", "merge", "gone"}
    PROVE  DestroyInv'
BY DEF DestroyInv, ends, Members, Distinct

LEMMA DestroyInit == Init => DestroyInv
<1>1. ASSUME Init PROVE DestroyInv
  <2>1. destroyEvents \in Seq(Nat) /\ Len(destroyEvents) = 0
    BY <1>1, EmptySeq DEF Init
  <2>2. Members(destroyEvents) = {} /\ Distinct(destroyEvents)
    BY <2>1 DEF Members, Distinct
  <2> QED BY <1>1, <2>1, <2>2 DEF Init, DestroyInv
<1> QED BY <1>1

LEMMA ScheduleDestroyStep ==
    ASSUME DestroyInv, ScheduleDestroy
    PROVE  DestroyInv'
<1> DEFINE n == destroys.scheduled + 1
<1>1. /\ destroyEvents' = Append(destroyEvents, n) /\ pc' = pc /\ then' = then
      /\ destroys' = [scheduled |-> n, run |-> destroys.run, off |-> destroys.off]
      /\ pc \in {"out", "event", "destroying"}
  BY DEF ScheduleDestroy, DestroyInv, Calls
<1>2. n \in Nat /\ n \notin Members(destroyEvents) /\ n \notin destroys.run
      /\ 1 .. n = (1 .. destroys.scheduled) \union {n}
  BY DEF DestroyInv
<1> HIDE DEF n
<1>3. /\ destroyEvents' \in Seq(Nat) /\ Distinct(destroyEvents')
      /\ Members(destroyEvents') = Members(destroyEvents) \union {n}
  BY <1>1, <1>2, AppendDistinct DEF DestroyInv
<1> QED BY <1>1, <1>2, <1>3, Zenon DEF DestroyInv

\* What is cancelled or removed has not run: it is still in the list.
LEMMA CancelDestroyStep ==
    ASSUME DestroyInv, NEW n, CancelDestroy(n) \/ RemoveDestroy(n)
    PROVE  DestroyInv'
<1>1. /\ destroys' = [scheduled |-> destroys.scheduled, run |-> destroys.run,
                      off |-> destroys.off \union {n}]
      /\ pc' = pc /\ then' = then /\ pc \in {"out", "event", "destroying"}
  BY DEF CancelDestroy, RemoveDestroy, DestroyInv, Calls
<1>2. \E i \in DOMAIN destroyEvents : destroyEvents[i] = n
  BY DEF CancelDestroy, RemoveDestroy, Listed
<1>3. DOMAIN destroyEvents = 1 .. Len(destroyEvents)
  BY LenProperties DEF DestroyInv
<1>4. n \in Members(destroyEvents)
  BY <1>2, <1>3 DEF Members
<1>5. /\ destroyEvents' \in Seq(Nat) /\ Distinct(destroyEvents')
      /\ Members(destroyEvents') \in {Members(destroyEvents), Members(destroyEvents) \ {n}}
  <2>1. CASE CancelDestroy(n)
    BY <2>1 DEF CancelDestroy, DestroyInv
  <2>2. CASE RemoveDestroy(n)
    <3>1. PICK i \in 1 .. Len(destroyEvents) :
             /\ destroyEvents[i] = n
             /\ destroyEvents' = SubSeq(destroyEvents, 1, i - 1)
                                   \o SubSeq(destroyEvents, i + 1, Len(destroyEvents))
      BY <2>2, <1>3 DEF RemoveDestroy
    <3> QED BY <3>1, WithoutDistinct DEF DestroyInv
  <2> QED BY <2>1, <2>2
<1> QED BY <1>1, <1>4, <1>5 DEF DestroyInv

LEMMA DestroyNextStep ==
    ASSUME DestroyInv, DestroyNext
    PROVE  DestroyInv'
<1> DEFINE n == Head(destroyEvents)
<1>1. /\ pc = "destroy" /\ destroyEvents # <<>> /\ destroyEvents' = Tail(destroyEvents)
      /\ pc' \in {"destroy", "destroying"} /\ then' = then
      /\ \/ n \in destroys.off /\ destroys' = destroys
         \/ /\ n \notin destroys.off
            /\ destroys' = [scheduled |-> destroys.scheduled,
                            run |-> destroys.run \union {n}, off |-> destroys.off]
  BY DEF DestroyNext, DestroyInv
<1>2. /\ destroyEvents' \in Seq(Nat) /\ Distinct(destroyEvents')
      /\ n \in Members(destroyEvents) /\ Members(destroyEvents') = Members(destroyEvents) \ {n}
  BY <1>1, TailDistinct DEF DestroyInv
<1> HIDE DEF n
<1>3. then # "dispose"
  BY <1>1 DEF DestroyInv
<1> QED BY <1>1, <1>2, <1>3 DEF DestroyInv

LEMMA DestroyStep ==
    ASSUME DestroyInv, [Next]_vars
    PROVE  DestroyInv'
<1>1. CASE ScheduleDestroy
  BY <1>1, ScheduleDestroyStep
<1>2. CASE \E n \in 1 .. MaxDestroys : CancelDestroy(n) \/ RemoveDestroy(n)
  BY <1>2, CancelDestroyStep
<1>3. CASE DestroyNext
  BY <1>3, DestroyNextStep
<1>4. CASE Run \/ DoDispose \/ \E next \in events : ProcessOneEvent(next)
  <2>1. /\ UNCHANGED ends /\ pc' # "gone" /\ pc \in {"out", "destroy", "loop"}
        /\ then' # "dispose" \/ (pc' = "read" /\ destroyEvents = <<>>)
    BY <1>4 DEF Run, DoDispose, ProcessOneEvent
  <2> QED BY <2>1 DEF DestroyInv, ends, Members, Distinct
<1>5. CASE ReadFlag \/ Merged \/ Swap \/ MergeOne
  BY <1>5, DestroyQuiet DEF ReadFlag, Merged, Continue, Swap, MergeOne
<1>6. CASE EventReturns \/ RunReturns \/ DestroyReturns \/ Destroy
  BY <1>6, DestroyQuiet DEF EventReturns, RunReturns, DestroyReturns, Destroy
<1>7. CASE UNCHANGED <<pc, then, ends>>
  BY <1>7, DestroyQuiet
<1>8. ASSUME \/ \E delay \in Delays : Schedule(delay)
             \/ \E id \in issued : Cancel(id) \/ Remove(id)
             \/ Stop \/ Others \/ UNCHANGED vars
      PROVE  UNCHANGED <<pc, then, ends>>
  BY <1>8 DEF Schedule, Cancel, Remove, Stop, Others, Unlock, Push, vars
<1> QED BY <1>1, <1>2, <1>3, <1>4, <1>5, <1>6, <1>7, <1>8 DEF Next, Program, Loop

-----------------------------------------------------------------------------
\* The invariant, for any threads, delays and bounds.
THEOREM Invariance == Spec => []Inv
<1>1. Init => Inv
  BY ListInit, QueueInit DEF Inv
<1>2. Inv /\ [Next]_vars => Inv'
  BY NextStep, StutterStep
<1> QED BY <1>1, <1>2, PTL DEF Spec

\* The members have their types; in particular no count goes below zero.
THEOREM TypeCorrect == Spec => []TypeOK
<1>1. Inv => TypeOK
  BY DEF Inv, ListInv, ListType, QueueInv, QueueType, TypeOK
<1> QED BY <1>1, Invariance, PTL

\* Each destroy event runs once, unless it is cancelled or removed.
THEOREM DestroyEventsRun == Spec => []DestroyAllRun
<1>1. Init => DestroyInv
  BY DestroyInit
<1>2. DestroyInv /\ [Next]_vars => DestroyInv'
  BY DestroyStep
<1>3. DestroyInv /\ TypeOK => DestroyAllRun
  <2>1. ASSUME DestroyInv, TypeOK, pc = "gone"
        PROVE  /\ destroys.run \union destroys.off = 1 .. destroys.scheduled
               /\ destroys.run \intersect destroys.off = {}
    <3>1. Len(destroyEvents) = 0
      BY <2>1, EmptySeq DEF DestroyInv
    <3>2. Members(destroyEvents) = {}
      BY <3>1 DEF Members
    <3> QED BY <2>1, <3>2 DEF DestroyInv
  <2> QED BY <2>1 DEF DestroyAllRun
<1> QED BY <1>1, <1>2, <1>3, TypeCorrect, PTL DEF Spec

\* Events run in order.
THEOREM TimeNeverGoesBack == Spec => InOrder
<1>1. Inv /\ [Next]_vars => [Current' # Current => Less(Current, Current')]_vars
  BY NextStep, StutterStep
<1> QED BY <1>1, Invariance, PTL DEF Spec, InOrder

\* IsExpired is exact, and Remove finds what it looks for.
THEOREM IsExpiredIsExact == Spec => []ExpiredExactly
<1>1. ASSUME Inv PROVE ExpiredExactly
  <2>1. ASSUME pc # "gone", NEW id \in issued
        PROVE  IsExpired(id) <=> id \notin events \/ id.uid \in cancelled
    <3>1. IsExpired(id) <=> ~Less(Current, id) \/ id.uid \in cancelled
      BY <1>1, ExpiredMeansNotLater DEF Inv, ListInv, ListType
    <3>2. id \in events => Less(Current, id)
      BY <1>1 DEF Inv, ListInv, Later
    <3>3. id \in events \/ id.uid \in cancelled \/ ~Less(Current, id)
      BY <1>1, <2>1 DEF Inv, ListInv, Tracked
    <3> QED BY <3>1, <3>2, <3>3
  <2> QED BY <2>1 DEF ExpiredExactly
<1> QED BY <1>1, Invariance, PTL

-----------------------------------------------------------------------------
(***************************************************************************)
(* The event list.                                                         *)
(***************************************************************************)
LEMMA InsertIsInsert ==
    ASSUME ListInv, NEW delay \in Nat, InsertAt(currentTs + delay), UNCHANGED clock
    PROVE  List!Next
<1> DEFINE e == [ts |-> currentTs + delay, uid |-> uid]
<1>1. e \notin events
  BY DEF ListInv, ListType, Fresh
<1>2. events' = events \union {e} /\ Current' = Current
  BY DEF InsertAt, clock, Current
<1>3. List!Earlier(Current, e)
  BY DEF List!Earlier, Current, ListInv, ListType
<1>4. List!Insert(e) /\ e \in events' \ events
  BY <1>1, <1>2, <1>3 DEF List!Insert
<1> QED BY <1>4 DEF List!Next

LEMMA ProcessIsRemoveNext ==
    ASSUME ListInv, NEW next, ProcessOneEvent(next)
    PROVE  List!Next
<1>1. /\ next \in events /\ events' = events \ {next} /\ \A e \in events \ {next} : Less(next, e)
      /\ currentTs' = next.ts /\ currentUid' = next.uid
  BY DEF ProcessOneEvent
<1>2. Current' = next
  BY <1>1 DEF Current, Event, ListInv, ListType
<1>3. List!RemoveNext(next) /\ next \in events \ events'
  BY <1>1, <1>2 DEF List!RemoveNext, List!Earlier, Less
<1> QED BY <1>3 DEF List!Next

LEMMA RemoveIsRemove ==
    ASSUME NEW id, Remove(id)
    PROVE  List!Next \/ UNCHANGED <<events, Current>>
<1>1. events' = events \ {id} /\ Current' = Current
  BY DEF Remove, clock, Current
<1>2. CASE id \in events
  <2>1. List!Remove(id) /\ id \in events \ events'
    BY <1>1, <1>2 DEF List!Remove
  <2> QED BY <2>1 DEF List!Next
<1>3. CASE id \notin events
  BY <1>1, <1>3
<1> QED BY <1>2, <1>3

\* What follows a merge leaves the list as it is, or disposes of it.
LEMMA ContinueIsDispose ==
    ASSUME Continue, UNCHANGED clock
    PROVE  List!Next \/ UNCHANGED <<events, Current>>
<1>1. Current' = Current
  BY DEF clock, Current
<1>2. CASE then = "dispose"
  BY <1>1, <1>2 DEF Continue, List!Dispose, List!Next
<1>3. CASE then # "dispose"
  BY <1>1, <1>3 DEF Continue
<1> QED BY <1>2, <1>3

\* Every step of the simulator is a step of the event list, or leaves it alone.
LEMMA StepImplements ==
    ASSUME Inv, [Next]_vars
    PROVE  [List!Next]_<<events, Current>>
<1> USE DEF Inv
<1>1. CASE UNCHANGED vars
  BY <1>1 DEF vars, list, clock, Current
<1>2. CASE \E delay \in Delays : Schedule(delay)
  BY <1>2, InsertIsInsert, SimulatorAssumption DEF Schedule
<1>3. CASE \E id \in issued : Remove(id)
  BY <1>3, RemoveIsRemove
<1>4. CASE MergeOne
  <2>1. Head(merging) \in Handed
    BY <1>4 DEF MergeOne, QueueInv, QueueType
  <2>2. Head(merging).delay \in Nat
    BY <2>1 DEF Handed
  <2> QED BY <1>4, <2>2, InsertIsInsert DEF MergeOne
<1>5. CASE \E next \in events : ProcessOneEvent(next)
  BY <1>5, ProcessIsRemoveNext
<1>6. CASE ReadFlag \/ Merged
  <2>1. UNCHANGED clock /\ (Continue \/ UNCHANGED events)
    BY <1>6 DEF ReadFlag, Merged
  <2> QED BY <2>1, ContinueIsDispose DEF clock, Current
<1>7. CASE UNCHANGED <<events, clock>>
  BY <1>7 DEF clock, Current
<1>8. ASSUME Moves \/ Swap \/ ScheduleDestroy \/ (\E id \in issued : Cancel(id))
             \/ (\E t \in Threads : Unlock(t))
             \/ (\E t \in Threads, delay \in Delays : Push(t, delay))
      PROVE  UNCHANGED <<events, clock>>
  <2>1. CASE Moves
    BY <2>1, MovesStep DEF list
  <2> QED BY <1>8, <2>1 DEF Swap, ScheduleDestroy, Cancel, Unlock, Push, list
<1> QED
  BY <1>1, <1>2, <1>3, <1>4, <1>5, <1>6, <1>7, <1>8
  DEF Next, Program, Loop, Others, Moves

\* The simulator implements the event list.
THEOREM ImplementsEventList == Spec => ListUsed
<1>1. Init => List!Init
  BY DEF Init, List!Init, Current, INVALID
<1>2. Inv /\ [Next]_vars => [List!Next]_<<events, Current>>
  BY StepImplements
<1> QED BY <1>1, <1>2, Invariance, PTL DEF Spec, ListUsed, List!Spec

\* The consistency check of Run holds at any time.
THEOREM CountIsRight == Spec => []Counted
<1>1. Inv => Counted
  BY DEF Inv, ListInv
<1> QED BY <1>1, Invariance, PTL

\* The flag read without the mutex can be trusted.
THEOREM FlagIsTrue == Spec => []FlagTrue
<1>1. Inv => FlagTrue
  BY DEF Inv, QueueInv
<1> QED BY <1>1, Invariance, PTL

\* Run leaves nothing behind that was handed over in time.
THEOREM NothingLeftBehind == Spec => []NoneLeft
<1>1. ASSUME Inv PROVE NoneLeft
  <2>1. DOMAIN eventsWithContext = 1 .. Len(eventsWithContext)
    BY <1>1, LenProperties DEF Inv, QueueInv, QueueType
  <2> QED BY <1>1, <2>1 DEF Inv, QueueInv, LeftLate, NoneLeft
<1> QED BY <1>1, Invariance, PTL
=============================================================================
