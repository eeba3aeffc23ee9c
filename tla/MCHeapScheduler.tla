-------------------------- MODULE MCHeapScheduler ---------------------------
(***************************************************************************)
(* HeapScheduler on its own: a program that schedules what it has to, then *)
(* runs it, and removes some events before and while they run.             *)
(***************************************************************************)
EXTENDS HeapScheduler

CONSTANTS
    MaxTs,     \* bound on the time of an event
    MaxUid     \* bound on the events

VARIABLES
    heap,      \* HeapScheduler::m_heap
    uid,       \* m_uid of the simulator
    now        \* m_currentTs of the simulator

vars == <<heap, uid, now>>

Init == heap = <<>> /\ uid = 1 /\ now = 0

Insert(ts) ==
    /\ uid <= MaxUid
    /\ heap' = HeapInsert(heap, [ts |-> ts, uid |-> uid])
    /\ uid' = uid + 1
    /\ UNCHANGED now

RemoveNext ==
    /\ uid > MaxUid /\ heap # <<>>
    /\ now' = Head(heap).ts
    /\ heap' = HeapTake(heap, 1)
    /\ UNCHANGED uid

RemoveEvent(e) ==
    /\ heap' = HeapRemove(heap, e)
    /\ UNCHANGED <<uid, now>>

Next ==
    \/ \E ts \in 0 .. MaxTs : Insert(ts)
    \/ RemoveNext
    \/ \E e \in ToSet(heap) : RemoveEvent(e)

Spec == Init /\ [][Next]_vars

\* default-simulator-impl.cc:136: "NS_ASSERT(next.key.m_ts >= m_currentTs);"
NotBeforeNow == [][now' >= now]_vars
=============================================================================
