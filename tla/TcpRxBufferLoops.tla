-------------------------- MODULE TcpRxBufferLoops --------------------------
(***************************************************************************)
(* Add, UpdateSackList and Extract of tcp-rx-buffer.cc as the code has     *)
(* them, one fragment or block at a time.  A run compares them with the    *)
(* closed forms of TcpRxBuffer in every reachable buffer.                  *)
(***************************************************************************)
EXTENDS TcpRxBuffer

Without(data, heads) == [h \in DOMAIN data \ heads |-> data[h]]

\* The while loop of Add: r holds data, size, head and tail.
RECURSIVE Overlap(_, _)
Overlap(r, todo) ==
    IF todo = {} \/ Min(todo) > r.tail THEN r
    ELSE LET i    == Min(todo)
             last == EndOf(r.data, i)
         IN  Overlap(
                IF last <= r.head THEN r
                ELSE IF i > r.head /\ last < r.tail
                THEN [r EXCEPT !.data = Without(@, {i}), !.size = @ - (last - i)]
                ELSE [r EXCEPT !.head = IF i <= @ THEN last ELSE @,
                               !.tail = IF last >= @ THEN i ELSE @],
                todo \ {i})

\* The for loop that moves m_nextRxSeq over the fragments.
RECURSIVE CatchUp(_, _)
CatchUp(rx, todo) ==
    IF todo = {} \/ Min(todo) > rx.next THEN rx
    ELSE LET i == Min(todo)
         IN  CatchUp(IF i < rx.next THEN rx
                     ELSE [rx EXCEPT !.next = EndOf(rx.data, i),
                                     !.avail = @ + EndOf(rx.data, i) - i,
                                     !.sack = ClearSackList(@, EndOf(rx.data, i))],
                     todo \ {i})

\* The while loop of UpdateSackList: a merge starts it again.
RECURSIVE Merge(_, _)
Merge(list, i) ==
    IF i > Len(list) THEN list
    ELSE LET front == list[1]
             block == list[i]
             rest  == RemoveAt(Tail(list), i - 1)
         IN  IF front[1] = block[2] THEN Merge(<<<<block[1], front[2]>>>> \o rest, 2)
             ELSE IF front[2] = block[1] THEN Merge(<<<<front[1], block[2]>>>> \o rest, 2)
             ELSE Merge(list, i + 1)

UpdateSackLoop(list, head, tail) ==
    LET merged == Merge(<<<<head, tail>>>> \o list, 2)
    IN  IF Len(merged) > SackListMax THEN Front(merged) ELSE merged

AddLoop(rx, seq, p) ==
    LET head == MaxOf(seq, rx.next)
        tail == seq + Len(p)
        limit == IF rx.data = <<>> THEN tail ELSE MinOf(Begin(rx.data) + MaxBuffer, tail)
        r == Overlap([data |-> rx.data, size |-> rx.size, tail |-> limit,
                      head |-> IF rx.data # <<>> /\ limit < head THEN limit ELSE head],
                     DOMAIN rx.data)
        data == [h \in DOMAIN r.data \union {r.head} |->
                    IF h = r.head THEN Fragment(p, r.head - seq, r.tail - r.head)
                    ELSE r.data[h]]
        stored == CatchUp(
            [rx EXCEPT !.data = data, !.size = r.size + r.tail - r.head,
                       !.sack = IF r.head > rx.next
                                THEN UpdateSackLoop(@, r.head, r.tail) ELSE @],
            DOMAIN data)
    IN  IF r.head >= r.tail THEN [rx EXCEPT !.data = r.data, !.size = r.size]
        ELSE IF stored.gotFin /\ stored.next = stored.fin
        THEN [stored EXCEPT !.next = @ + 1] ELSE stored

\* The while loop of Extract: n bytes still to take.
RECURSIVE Take(_, _, _)
Take(rx, out, n) ==
    IF n = 0 THEN [rx |-> rx, out |-> out]
    ELSE LET i    == Begin(rx.data)
             size == Len(rx.data[i])
             k    == MinOf(size, n)
             rest == Fragment(rx.data[i], k, size - k)
             data == IF k = size THEN Without(rx.data, {i})
                     ELSE [h \in (DOMAIN rx.data \ {i}) \union {i + k} |->
                            IF h = i + k THEN rest ELSE rx.data[h]]
         IN  Take([rx EXCEPT !.data = data, !.size = @ - k, !.avail = @ - k],
                  out \o Fragment(rx.data[i], 0, k), n - k)

ExtractLoop(rx, maxSize) == Take(rx, <<>>, MinOf(maxSize, rx.avail))
=============================================================================
