----------------------------- MODULE EventList ------------------------------
(***************************************************************************)
(* The interface Scheduler (scheduler.h), a set of events, and how the     *)
(* simulator uses it.  A scheduler promises that RemoveNext takes the      *)
(* earliest event and that nothing else comes or goes; its user, that an   *)
(* event it inserts is later than the one it took last.  A user that has   *)
(* done with the list empties it.                                          *)
(***************************************************************************)
EXTENDS Integers

VARIABLES
    events,   \* the events in the list: their times and uids
    last      \* the event RemoveNext returned last

Earlier(a, b) == a.ts < b.ts \/ (a.ts = b.ts /\ a.uid < b.uid)

Init == events = {} /\ last = [ts |-> 0, uid |-> 0]

Insert(e) ==
    /\ Earlier(last, e)
    /\ events' = events \union {e}
    /\ UNCHANGED last

RemoveNext(e) ==
    /\ \A f \in events \ {e} : Earlier(e, f)
    /\ events' = events \ {e}
    /\ last' = e

Remove(e) ==
    /\ events' = events \ {e}
    /\ UNCHANGED last

Dispose == events' = {} /\ UNCHANGED last

Next ==
    \/ \E e \in events' \ events : Insert(e)
    \/ \E e \in events \ events' : RemoveNext(e) \/ Remove(e)
    \/ Dispose

Spec == Init /\ [][Next]_<<events, last>>
=============================================================================
