-------------------------- MODULE EventSchedulers ---------------------------
(***************************************************************************)
(* The schedulers an event list can be kept in: ListScheduler,             *)
(* HeapScheduler and CalendarScheduler, side by side under the calls       *)
(* DefaultSimulatorImpl makes of them.  MapScheduler and                   *)
(* PriorityQueueScheduler leave the work to containers of the library; the *)
(* set events stands for what they hold.                                   *)
(*                                                                         *)
(* An event is its key, a time and a uid; uids grow with each Insert, and  *)
(* nothing is inserted before the present.  Buckets of the calendar are    *)
(* kept in chronological order (Reverse is off by default).                *)
(***************************************************************************)
EXTENDS HeapScheduler, FiniteSetsExt

CONSTANTS
    MaxTs,       \* bound on the time of an event
    MaxUid       \* bound on the uids

ASSUME BoundAssumption == MaxTs \in Nat /\ MaxUid \in Nat

VARIABLES
    events,      \* the events of the list
    list,        \* ListScheduler::m_events
    heap,        \* HeapScheduler::m_heap, without the item it wastes
    calendar,    \* the members of CalendarScheduler
    uid, now,    \* m_uid and m_currentTs of the simulator
    removed,     \* Remove has been called since the scheduler was made
    taken        \* what RemoveNext returned last, per scheduler

vars == <<events, list, heap, calendar, uid, now, removed, taken>>

Keys == [ts : 0 .. MaxTs, uid : 1 .. MaxUid]

-----------------------------------------------------------------------------
(***************************************************************************)
(* A sorted list: ListScheduler, and each bucket of the calendar.          *)
(***************************************************************************)
\* Mutant: among events of one time the newest comes first.
InsertSorted_Lifo(s, e) ==
    LET later == {i \in DOMAIN s : e.ts <= s[i].ts}
    IN  IF later = {} THEN Append(s, e) ELSE InsertAt(s, Min(later), e)

InsertSorted(s, e) ==
    LET later == {i \in DOMAIN s : Less(e, s[i])}
    IN  IF later = {} THEN Append(s, e) ELSE InsertAt(s, Min(later), e)

\* The first one with the uid of e, if there is one.
Erase(s, e) ==
    LET same == {i \in DOMAIN s : s[i].uid = e.uid}
    IN  IF same = {} THEN s ELSE RemoveAt(s, Min(same))

-----------------------------------------------------------------------------
(***************************************************************************)
(* CalendarScheduler.                                                      *)
(***************************************************************************)
Calendar(nBuckets, width, startPrio) ==
    [buckets |-> [i \in 0 .. nBuckets - 1 |-> <<>>], nBuckets |-> nBuckets,
     width |-> width, lastPrio |-> startPrio,
     lastBucket |-> (startPrio \div width) % nBuckets,
     bucketTop |-> (startPrio \div width + 1) * width, qSize |-> 0]

Hash(c, ts) == (ts \div c.width) % c.nBuckets

DoInsert(c, e) == [c EXCEPT !.buckets[Hash(c, e.ts)] = InsertSorted(@, e)]

Stored(c) == UNION {ToSet(c.buckets[i]) : i \in DOMAIN c.buckets}

\* Bucket k steps after the last one, and the end of its time span this year.
Bucket(c, k) == (c.lastBucket + k) % c.nBuckets
Top(c, k) == c.bucketTop + k * c.width

\* Mutant: any event at the head of a bucket is due.
Due_AnyYear(c, k) == c.buckets[Bucket(c, k)] # <<>>

Due(c, k) ==
    /\ c.buckets[Bucket(c, k)] # <<>>
    /\ Head(c.buckets[Bucket(c, k)]).ts < Top(c, k)

Heads(c) == {Head(c.buckets[i]) : i \in {j \in DOMAIN c.buckets : c.buckets[j] # <<>>}}

\* The event DoRemoveNext takes: the first that is due this year, or else the
\* earliest of all.
NextEvent(c) ==
    LET due == {k \in 0 .. c.nBuckets - 1 : Due(c, k)}
    IN  IF due # {} THEN Head(c.buckets[Bucket(c, Min(due))])
        ELSE CHOOSE e \in Heads(c) : \A f \in Heads(c) \ {e} : Less(e, f)

\* Where it leaves the calendar.
DoRemoveNext(c) ==
    LET due == {k \in 0 .. c.nBuckets - 1 : Due(c, k)}
        next == NextEvent(c)
    IN  [c EXCEPT !.buckets[Hash(c, next.ts)] = Tail(@),
                  !.lastPrio = next.ts,
                  !.lastBucket = IF due # {} THEN Bucket(c, Min(due)) ELSE Hash(c, next.ts),
                  !.bucketTop = IF due # {} THEN Top(c, Min(due))
                                ELSE (next.ts \div c.width + 1) * c.width]

\* The times of the next n events.  They are taken out and put back.
Samples(c, n) ==
    LET after[k \in 0 .. n] == IF k = 0 THEN c ELSE DoRemoveNext(after[k - 1])
    IN  [k \in 1 .. n |-> NextEvent(after[k - 1]).ts]

\* Three times the average gap between them, gaps over twice the average left
\* out; the sum in the code is not divided.
GapSum(s, limit) ==
    MapThenSumSet(LAMBDA i : s[i + 1] - s[i],
                  {i \in 1 .. Len(s) - 1 : s[i + 1] - s[i] <= limit})

SampleSize(c) ==
    IF c.qSize <= 5 THEN c.qSize ELSE Min({5 + c.qSize \div 10, 25})

CalculateNewWidth(c) ==
    IF c.qSize < 2 THEN 1
    ELSE LET s == Samples(c, SampleSize(c))
             average == (s[Len(s)] - s[1]) \div (Len(s) - 1)
         IN  Max({3 * GapSum(s, 2 * average), 1})

\* Mutant: the new calendar starts at time zero, in the middle of a year.
Resize_KeepsPlace(c, newSize) ==
    [FoldSet(LAMBDA e, d : DoInsert(d, e),
             Calendar(newSize, CalculateNewWidth(c), c.lastPrio), Stored(c))
     EXCEPT !.qSize = c.qSize, !.lastBucket = c.lastBucket % newSize,
            !.bucketTop = c.bucketTop]

Resize(c, newSize) ==
    [FoldSet(LAMBDA e, d : DoInsert(d, e),
             Calendar(newSize, CalculateNewWidth(c), c.lastPrio), Stored(c))
     EXCEPT !.qSize = c.qSize]

ResizeUp(c) ==
    IF c.qSize > c.nBuckets * 2 /\ c.nBuckets < 32768 THEN Resize(c, c.nBuckets * 2) ELSE c

ResizeDown(c) ==
    IF c.qSize < c.nBuckets \div 2 THEN Resize(c, c.nBuckets \div 2) ELSE c

CalendarInsert(c, e) == ResizeUp([DoInsert(c, e) EXCEPT !.qSize = @ + 1])

CalendarRemoveNext(c) == ResizeDown([DoRemoveNext(c) EXCEPT !.qSize = @ - 1])

CalendarRemove(c, e) ==
    ResizeDown([c EXCEPT !.buckets[Hash(c, e.ts)] = Erase(@, e), !.qSize = @ - 1])

-----------------------------------------------------------------------------
(***************************************************************************)
(* The calls of the simulator.                                             *)
(***************************************************************************)
NewCalendar == Calendar(2, 1, 0)

None == [ts |-> 0, uid |-> 0]

Init ==
    /\ events = {} /\ list = <<>> /\ heap = <<>> /\ calendar = NewCalendar
    /\ uid = 1 /\ now = 0 /\ removed = FALSE
    /\ taken = [map |-> None, list |-> None, heap |-> None, calendar |-> None]

Insert(ts) ==
    LET e == [ts |-> ts, uid |-> uid]
    IN  /\ uid <= MaxUid
        /\ uid' = uid + 1
        /\ events' = events \union {e}
        /\ list' = InsertSorted(list, e)
        /\ heap' = HeapInsert(heap, e)
        /\ calendar' = CalendarInsert(calendar, e)
        /\ UNCHANGED <<now, removed, taken>>

RemoveNext(next) ==
    /\ next \in events /\ \A e \in events \ {next} : Less(next, e)
    /\ taken' = [map |-> next, list |-> Head(list), heap |-> Head(heap),
                 calendar |-> NextEvent(calendar)]
    /\ events' = events \ {next}
    /\ list' = Tail(list)
    /\ heap' = HeapTake(heap, 1)
    /\ calendar' = CalendarRemoveNext(calendar)
    /\ now' = next.ts
    /\ UNCHANGED <<uid, removed>>

RemoveEvent(e) ==
    /\ e \in events
    /\ events' = events \ {e}
    /\ list' = Erase(list, e)
    /\ heap' = HeapRemove(heap, e)
    /\ calendar' = CalendarRemove(calendar, e)
    /\ removed' = TRUE
    /\ UNCHANGED <<uid, now, taken>>

Latest(S) == CHOOSE e \in S : \A f \in S \ {e} : Less(f, e)

\* The events, inserted one by one in their order.
Moved(insert(_, _), empty) ==
    MapThenFoldSet(LAMBDA e, s : insert(s, e), empty, LAMBDA e : e, Latest, events)

\* A change of scheduler, from a MapScheduler: what is in the list moves over in
\* its order, and what a heap returned before is forgotten.
SetScheduler ==
    /\ list' = Moved(InsertSorted, <<>>)
    /\ heap' = Moved(HeapInsert, <<>>)
    /\ calendar' = Moved(CalendarInsert, NewCalendar)
    /\ removed' = FALSE
    /\ taken' = [taken EXCEPT !.heap = taken.map]
    /\ UNCHANGED <<events, uid, now>>

Next ==
    \/ \E ts \in now .. MaxTs : Insert(ts)
    \/ \E e \in events : RemoveNext(e) \/ RemoveEvent(e)
    \/ SetScheduler

Spec == Init /\ [][Next]_vars

-----------------------------------------------------------------------------
(***************************************************************************)
(* Properties.                                                             *)
(***************************************************************************)
\* Types of the schedulers' members.
TypeOK ==
    /\ events \subseteq Keys /\ uid \in 1 .. MaxUid + 1 /\ now \in 0 .. MaxTs
    /\ list \in Seq(Keys) /\ heap \in Seq(Keys)
    /\ calendar.width \in Nat \ {0} /\ calendar.nBuckets \in Nat \ {0}
    /\ calendar.qSize \in Nat /\ removed \in BOOLEAN

\* What the interface promises, of the sorted list ...
ListImplements ==
    INSTANCE EventList WITH events <- ToSet(list), last <- taken.list

\* ... and of the calendar.
CalendarImplements ==
    INSTANCE EventList WITH events <- Stored(calendar), last <- taken.calendar

\* List and calendar implement the event list: the calendar through every change
\* of its size and width, with events a year or more ahead and buckets emptied
\* by Remove.
EventListKept == ListImplements!Spec /\ CalendarImplements!Spec

\* Every event is in the bucket of its time, the buckets are counted, and the
\* search starts no later than the first event; members keep their types.
CalendarFits ==
    /\ TypeOK
    /\ \A i \in DOMAIN calendar.buckets :
        \A e \in ToSet(calendar.buckets[i]) : Hash(calendar, e.ts) = i
    /\ calendar.qSize = Cardinality(Stored(calendar))
    /\ \A e \in Stored(calendar) : e.ts >= calendar.bucketTop - calendar.width

\* The heap returns the earliest event as long as Remove is not used.
HeapTakesEarliest == ~removed => taken.heap = taken.map /\ ToSet(heap) = events

=============================================================================
