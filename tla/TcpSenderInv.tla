----------------------------- MODULE TcpSenderInv -----------------------------
(***************************************************************************)
(* The inductive invariant of TcpSender (SenderInv, the last part), and    *)
(* the relations that its operations establish on the way, for the proofs. *)
(*                                                                         *)
(* Of the buffer (TxOk): the items tile what was sent, no item is both     *)
(* SACKed and lost, and each counter is the number of bytes so marked. Of  *)
(* the socket between two steps (Rest): its marks are justified (Board),   *)
(* the congestion state agrees with the recovery point and the duplicates  *)
(* counted (Cong, Counts), and when something is out a timer runs, or the  *)
(* sender stopped after a timeout and the application is yet to write      *)
(* (Timer). Of the network (Net, AckOk): what the peer holds was sent,     *)
(* what is SACKed or acknowledged it holds, and an ACK takes back no       *)
(* window.                                                                 *)
(***************************************************************************)
EXTENDS TcpSender

\* Items, buffers and sockets.
Item == [seq : Nat \ {0}, len : Nat \ {0},
         sacked : BOOLEAN, lost : BOOLEAN, retrans : BOOLEAN]

Buffers == [first : Nat \ {0}, sent : Seq(Item), app : Nat, sackedOut : Nat,
            lostOut : Nat, retransOut : Nat, high : Nat]

\* The bytes of the items at some places, and of those that carry a flag.
BytesAt(list, places) == UNION {SentBytes(list[i]) : i \in places}

With(list, flag) == {i \in DOMAIN list : list[i][flag]}

Marked(list, flag) == BytesAt(list, With(list, flag))

\* Where SACKed items begin.
Starts(list) == {list[i].seq : i \in With(list, "sacked")}

\* Each item begins where the one before it ends.
Chained(list) == \A i \in DOMAIN list : i > 1 => list[i].seq = EndOf(list[i - 1])

\* The counters are those of the items, which tile what was sent.
TxOk(tx) ==
    /\ tx \in Buffers
    /\ tx.sent # <<>> => tx.sent[1].seq = tx.first
    /\ Chained(tx.sent)
    /\ \A i \in DOMAIN tx.sent :
          tx.sent[i].len <= SegmentSize /\ ~(tx.sent[i].lost /\ tx.sent[i].sacked)
    /\ tx.sackedOut = Cardinality(Marked(tx.sent, "sacked"))
    /\ tx.lostOut = Cardinality(Marked(tx.sent, "lost"))
    /\ tx.retransOut = Cardinality(Marked(tx.sent, "retrans"))

-----------------------------------------------------------------------------
\* What marking, cutting and joining items change.

\* Items apart from each other, in their order; some may be empty.
Spans(list) ==
    /\ IsFiniteSet(DOMAIN list) /\ DOMAIN list \subseteq Nat
    /\ \A i \in DOMAIN list : list[i].seq \in Nat /\ list[i].len \in Nat
    /\ \A i, j \in DOMAIN list : i < j => EndOf(list[i]) <= list[j].seq

Sacked(tx) == Marked(tx.sent, "sacked")

Lost(tx) == Marked(tx.sent, "lost")

Resent(tx) == Marked(tx.sent, "retrans")

\* What is out, and what a set of marked bytes may be.
Out(tx) == tx.first .. HighData(tx) - 1

\* Buffers whose counters are any numbers.
Counting == [first : Nat \ {0}, sent : Seq(Item), app : Nat, sackedOut : Int,
             lostOut : Int, retransOut : Int, high : Nat]

\* L has the items of list, perhaps with other flags.
SameItems(list, L) ==
    /\ DOMAIN L = DOMAIN list
    /\ \A i \in DOMAIN list : L[i].seq = list[i].seq /\ L[i].len = list[i].len

\* Extent is that of tx.
SameExtent(tx, t) ==
    /\ t.first = tx.first /\ t.app = tx.app /\ DOMAIN t.sent = DOMAIN tx.sent
    /\ HighData(t) = HighData(tx) /\ Out(t) = Out(tx)
    /\ t.sent = <<>> <=> tx.sent = <<>>
    /\ \A i \in DOMAIN tx.sent : /\ t.sent[i].seq = tx.sent[i].seq
                                 /\ t.sent[i].len = tx.sent[i].len
                                 /\ EndOf(t.sent[i]) = EndOf(tx.sent[i])
                                 /\ SentBytes(t.sent[i]) = SentBytes(tx.sent[i])

\* What a counter becomes when the flag of one item changes.
Counted(count, now, before, len) ==
    CASE now /\ ~before -> count + len
      [] ~now /\ before -> count - len
      [] now = before -> count

\* The bytes marked when the flag of one item changes.
MarkedNow(marked, now, item) ==
    IF now THEN marked \union SentBytes(item) ELSE marked \ SentBytes(item)

Flags == {"sacked", "lost", "retrans"}

One(x) == <<x>>

Pair(x, y) == <<x, y>>

\* L has the bytes of list with their flags, in other items.
Retiled(list, L) ==
    /\ L \in Seq(Item) /\ Chained(L) /\ L # <<>>
    /\ L[1].seq = list[1].seq /\ EndOf(L[Len(L)]) = EndOf(list[Len(list)])
    /\ \A flag \in Flags : Marked(L, flag) = Marked(list, flag)
    /\ Starts(L) = Starts(list)

Three(A, M, B) == (A \o M) \o B

\* The items of K are those of three lists.
Drawn(K, A, N, B) ==
    \A k \in DOMAIN K : \/ \E j \in DOMAIN A : K[k] = A[j]
                        \/ \E j \in DOMAIN N : K[k] = N[j]
                        \/ \E j \in DOMAIN B : K[k] = B[j]

\* An item is marked as sent again, or no more.
Reflag(tx, i, v) ==
    [tx EXCEPT !.sent = [tx.sent EXCEPT ![i] = [tx.sent[i] EXCEPT !.retrans = v]],
               !.retransOut = Counted(tx.retransOut, v, tx.sent[i].retrans, tx.sent[i].len)]

\* What a merge does to the flags that say what was sent again.
MergedCount(tx, a, b) ==
    CASE a.retrans /\ ~b.retrans -> tx.retransOut - a.len
      [] b.retrans /\ ~a.retrans -> tx.retransOut - b.len
      [] OTHER -> tx.retransOut

-----------------------------------------------------------------------------
\* What sending from the buffer and the handlers change in it.

HeadEnd(tx) == EndOf(tx.sent[1])

\* Item i is sent again: what is marked stays, and item i may be longer.
Again(tx, t, i) ==
    /\ t.first = tx.first /\ t.app = tx.app /\ t.high = tx.high
    /\ HighData(t) = HighData(tx)
    /\ Sacked(t) = Sacked(tx) /\ Lost(t) = Lost(tx) /\ Starts(t.sent) = Starts(tx.sent)
    /\ t.sent # <<>> /\ i \in DOMAIN t.sent /\ t.sent[i].seq = tx.sent[i].seq
    /\ ~t.sent[i].sacked /\ HeadEnd(tx) <= HeadEnd(t)

\* The list with m in place of items i and i + 1, cut at b.
Cutting(list, i, m, b) ==
    SplitItems(Three(SubSeq(list, 1, i - 1), One(m), SubSeq(list, i + 2, Len(list))), b)

\* Item i of K goes to b; the others are as before, or what is left of two.
Joined(list, K, i, b) ==
    /\ Retiled(list, K) /\ i \in DOMAIN K
    /\ K[i].seq = list[i].seq /\ EndOf(K[i]) = b /\ ~K[i].sacked
    /\ EndOf(list[1]) <= EndOf(K[1])
    /\ \A k \in DOMAIN K :
          \/ \E j \in DOMAIN list : K[k] = list[j]
          \/ ~K[k].sacked /\ K[k].len <= MaxOf(b - list[i].seq, list[i + 1].len)

\* What a buffer with another list is.
Relisted(tx, list, resent) == [tx EXCEPT !.sent = list, !.retransOut = resent]

\* What sending leaves alone, and what it lets grow.
Grown(tx, t) ==
    /\ t.first = tx.first /\ t.high = tx.high
    /\ HighData(tx) <= HighData(t) /\ TailSequence(t) = TailSequence(tx)
    /\ Sacked(t) = Sacked(tx) /\ Lost(t) = Lost(tx) /\ Starts(t.sent) = Starts(tx.sent)
    /\ t.sent # <<>> /\ (tx.sent # <<>> => HeadEnd(tx) <= HeadEnd(t))

\* The item sent.
Packet(t, seq) ==
    /\ ItemAt(t, seq) \in DOMAIN t.sent
    /\ t.sent[ItemAt(t, seq)].seq = seq /\ ~t.sent[ItemAt(t, seq)].sacked

\* Item i becomes x, and the counters follow.
MarkItem(tx, i, x, high) ==
    [first |-> tx.first, sent |-> [tx.sent EXCEPT ![i] = x], app |-> tx.app,
     sackedOut |-> Counted(tx.sackedOut, x.sacked, tx.sent[i].sacked, x.len),
     lostOut |-> Counted(tx.lostOut, x.lost, tx.sent[i].lost, x.len),
     retransOut |-> Counted(tx.retransOut, x.retrans, tx.sent[i].retrans, x.len),
     high |-> high]

\* The bytes of the head.
HeadBytes(tx) == tx.first .. HeadEnd(tx) - 1

\* All that is not SACKed is lost; the SACKs are kept or not.
AllMarked(tx, list, keep) ==
    [first |-> tx.first, sent |-> list, app |-> tx.app,
     sackedOut |-> IF keep THEN tx.sackedOut ELSE 0,
     lostOut |-> IF keep THEN Flagged(list, "lost") ELSE SentSize(tx),
     retransOut |-> 0, high |-> IF keep THEN tx.high ELSE 0]

\* The list without what ack covers, and what it covers.
Kept(list, ack) ==
    LET below == {i \in DOMAIN list : EndOf(list[i]) <= ack}
        kept == SubSeq(list, Cardinality(below) + 1, Len(list))
    IN  [i \in DOMAIN kept |-> Above(kept[i], ack)]

Gone(list, ack) == [i \in DOMAIN list |-> Below(list[i], ack)]

\* L begins at ack.
Trimmed(list, L, ack) ==
    /\ L \in Seq(Item) /\ Chained(L) /\ (L # <<>> => L[1].seq = ack)
    /\ \A flag \in Flags : Marked(L, flag) = {b \in Marked(list, flag) : b >= ack}
    /\ (ack \notin Marked(list, "sacked") => Starts(L) = {x \in Starts(list) : x >= ack})
    /\ \A k \in DOMAIN L : \E i \in DOMAIN list :
          L[k].len <= list[i].len /\ \A flag \in Flags : L[k][flag] = list[i][flag]
    /\ (L = <<>> <=> EndOf(list[Len(list)]) <= ack)
    /\ (L # <<>> => /\ EndOf(L[Len(L)]) = EndOf(list[Len(list)])
                    /\ EndOf(list[1]) <= EndOf(L[1]))

\* What of a set is left from ack on.
From(S, ack) == {b \in S : b >= ack}

\* What an ACK lets go of, without and with duplicates counted for SACKs.
Discards(tx, t, ack) ==
    /\ TxOk(t) /\ t.first = ack /\ HighData(t) = HighData(tx) /\ t.app = tx.app
    /\ t.sent # <<>> => HeadEnd(tx) <= HeadEnd(t)
    /\ ack \notin Sacked(t)

-----------------------------------------------------------------------------
\* The scoreboard.

HighOk(tx) == tx.high = 0 \/ tx.high \in Starts(tx.sent)

\* What a scoreboard becomes by SACKs of bytes in G.
Sacks(tx, t, G) ==
    /\ TxOk(t) /\ SameExtent(tx, t) /\ Resent(t) = Resent(tx)
    /\ Sacked(tx) \subseteq Sacked(t) /\ Sacked(t) \subseteq Sacked(tx) \union G
    /\ Lost(t) \subseteq Lost(tx) /\ Lost(tx) \subseteq Lost(t) \union Sacked(t)
    /\ Starts(tx.sent) \subseteq Starts(t.sent)
    /\ HighOk(t) /\ (t.high = 0 => Sacked(t) = Sacked(tx))

Range2(block) == block[1] .. block[2] - 1

\* Enough SACKed items begin behind byte b.
Behind(tx, b) == {x \in Starts(tx.sent) : x > b}

Enough(tx, b) == Cardinality(Behind(tx, b)) >= ReTxThreshold

\* SACKed items behind item i.
LaterSacked(tx, i) == {k \in i .. Len(tx.sent) : tx.sent[k].sacked}

\* A buffer some of whose items are lost from now on.
LostToo(t, list, n) ==
    [first |-> t.first, sent |-> list, app |-> t.app, sackedOut |-> t.sackedOut,
     lostOut |-> n, retransOut |-> t.retransOut, high |-> t.high]

NowLost(list, places) ==
    [i \in DOMAIN list |-> [list[i] EXCEPT !.lost = @ \/ i \in places]]

BlocksOk(blocks, G) ==
    \E n \in Nat : /\ DOMAIN blocks = 1 .. n
                   /\ \A i \in 1 .. n : /\ blocks[i][1] \in Int /\ blocks[i][2] \in Int
                                        /\ Range2(blocks[i]) \subseteq G

\* What an ACK with blocks makes of the scoreboard.
Updates(tx, t, G) ==
    /\ TxOk(t) /\ SameExtent(tx, t) /\ Resent(t) = Resent(tx)
    /\ Sacked(tx) \subseteq Sacked(t) /\ Sacked(t) \subseteq Sacked(tx) \union G
    /\ Starts(tx.sent) \subseteq Starts(t.sent) /\ HighOk(t)
    /\ Lost(tx) \subseteq Lost(t) \union Sacked(t)
    /\ \A b \in Lost(t) : b \in Lost(tx) \/ Enough(t, b)
    /\ t.sackedOut > tx.sackedOut => Sacked(t) # Sacked(tx)

-----------------------------------------------------------------------------
\* The socket, and what sending makes of it.

Fields == {"tx", "state", "congState", "nextTx", "highTx", "highRxAck", "dupAcks", "recover",
           "recoverActive", "firstPartial", "alg", "cWnd", "ssThresh", "flight", "prr",
           "notProcessed", "rWnd", "retries", "retx", "persist", "pending", "sackEnabled",
           "noDelay", "out"}

\* A socket with other values at some fields.
Same(s, t, F) == DOMAIN t = Fields /\ \A f \in Fields \ F : t[f] = s[f]

Prr == [delivered : Int, out : Nat, flightSize : Nat]

Types(s) ==
    /\ DOMAIN s = Fields /\ TxOk(s.tx)
    /\ s.state \in {"ESTABLISHED", "DROPPED", "NULL_ITEM"}
    /\ s.congState \in {"OPEN", "DISORDER", "RECOVERY", "LOSS"}
    /\ s.nextTx \in Nat /\ s.highTx \in Nat /\ s.highRxAck \in Nat
    /\ s.dupAcks \in Nat /\ s.recover \in Nat
    /\ s.recoverActive \in BOOLEAN /\ s.firstPartial \in BOOLEAN
    /\ s.alg \in {"any", "classic", "prr"}
    /\ s.cWnd \in Nat /\ s.ssThresh \in Nat \ {0} /\ s.flight \in Nat
    /\ s.prr \in Prr /\ s.notProcessed \in Nat /\ s.rWnd \in Nat
    /\ s.retries \in 0 .. DataRetries
    /\ s.retx \in BOOLEAN /\ s.persist \in BOOLEAN /\ s.pending \in BOOLEAN
    /\ s.sackEnabled \in BOOLEAN /\ s.noDelay \in BOOLEAN

\* What a handler has sent so far is not SACKed.
SentOk(seg, s) ==
    /\ seg[1] \in Nat /\ seg[2] \in Nat /\ seg[1] >= 1 /\ seg[2] >= 1
    /\ seg[1] + seg[2] <= s.highTx
    /\ Bytes(seg) \intersect Sacked(s.tx) = {}

OutOk(s) == \A seg \in s.out : SentOk(seg, s)

\* What sending starts from and keeps.
Ready(s) ==
    /\ Types(s) /\ OutOk(s)
    /\ s.highTx = HighData(s.tx) /\ s.highTx <= s.highRxAck + s.rWnd /\ s.nextTx <= s.highTx
    /\ s.tx.first <= s.highRxAck

\* A buffer from which something may have been sent.
Further(tx, u) ==
    /\ u.first = tx.first /\ u.high = tx.high /\ TailSequence(u) = TailSequence(tx)
    /\ HighData(tx) <= HighData(u)
    /\ Sacked(u) = Sacked(tx) /\ Lost(u) = Lost(tx) /\ Starts(u.sent) = Starts(tx.sent)
    /\ tx.sent # <<>> => u.sent # <<>> /\ HeadEnd(tx) <= HeadEnd(u)

Sending == {"tx", "nextTx", "highTx", "retx", "prr", "out", "state"}

\* What becomes of a socket that sends.
Sends(s, t) ==
    /\ Ready(t) /\ Same(s, t, Sending) /\ Further(s.tx, t.tx)
    /\ t.prr.flightSize = s.prr.flightSize
    /\ t.state = s.state \/ t.state = "NULL_ITEM"
    /\ s.retx => t.retx
    /\ t.tx.sent = <<>> => t.nextTx = s.nextTx

\* A range that may be sent: an item that is not SACKed and all of which is asked
\* for, or new data within the window.
Sendable(s, seq, n) ==
    /\ n \in Nat /\ n <= SegmentSize
    /\ \/ \E i \in DOMAIN s.tx.sent :
             /\ ~s.tx.sent[i].sacked /\ seq = s.tx.sent[i].seq
             /\ s.tx.sent[i].len <= n \/ TailSequence(s.tx) - seq <= n
       \/ seq = HighData(s.tx) /\ seq + n <= s.highRxAck + s.rWnd

\* What NextSeg may return.
SegOk(tx, seg, rWnd) ==
    \/ \E i \in DOMAIN tx.sent :
          ~tx.sent[i].sacked /\ seg[1] = tx.sent[i].seq /\ seg[2] = SegmentSize
    \/ /\ seg[1] = HighData(tx) /\ SentSize(tx) <= rWnd
       /\ seg[2] = MinOf(SegmentSize, rWnd - SentSize(tx))

\* A timer runs, or the program has ended.
Watched(t) == t.retx \/ t.state = "NULL_ITEM"

\* What has been sent so far.
SentSoFar(s, t, k) ==
    /\ Sends(s, t)
    /\ SendsMore(s) /\ k > 0 => Watched(t)
    /\ ~SendsMore(s) => t = s

-----------------------------------------------------------------------------
\* What congestion control and the recovery algorithm change.

\* What is known of an ACK has the types that the algorithm reads.
COk(s, c) ==
    /\ s.alg = "any" => c.window \in Nat \ {0}
    /\ s.alg = "prr" => c.delivered \in Int /\ c.rtxAcked \in BOOLEAN

Tunes(s, t) ==
    /\ Same(s, t, {"cWnd", "ssThresh", "prr"})
    /\ t.cWnd \in Nat /\ t.ssThresh \in Nat \ {0} /\ t.prr \in Prr

-----------------------------------------------------------------------------
\* What a handler keeps, the ACK being processed.

\* Behind the head, a byte is taken for lost after a timeout, or when enough items
\* behind it are SACKed.
LostOk(s, b) ==
    \/ b < HeadEnd(s.tx)
    \/ s.congState = "LOSS" /\ b < s.recover
    \/ s.sackEnabled /\ Enough(s.tx, b)

Board(s) ==
    /\ s.tx.first \notin Sacked(s.tx)
    /\ \A b \in Lost(s.tx) : LostOk(s, b)
    /\ s.sackEnabled => HighOk(s.tx)
    /\ ~s.sackEnabled /\ s.congState = "LOSS" => Sacked(s.tx) = {}

\* The congestion state and what is kept beside it.
Cong(s) ==
    /\ s.recoverActive <=> s.congState \in {"RECOVERY", "LOSS"}
    /\ ~s.recoverActive => s.recover <= s.highRxAck
    /\ s.recover <= s.highTx
    /\ s.congState = "RECOVERY" /\ s.alg = "prr" => s.prr.flightSize > 0
    /\ s.cWnd = 0 => s.congState = "RECOVERY"

\* Duplicates counted.
Counts(s) ==
    /\ s.congState \in {"OPEN", "LOSS"} => s.dupAcks = 0
    /\ s.congState = "DISORDER" => s.dupAcks > 0 /\ s.dupAcks < ReTxThreshold

Calm(s) ==
    Ready(s) /\ Board(s) /\ Cong(s) /\ TailSequence(s.tx) <= StreamLength + 1

\* What the handling of an ACK may change once the buffer has let go of what it
\* acknowledges.
Working == {"tx", "state", "congState", "nextTx", "highTx", "dupAcks", "recover",
            "recoverActive", "firstPartial", "cWnd", "ssThresh", "flight", "prr",
            "notProcessed", "retries", "retx", "out"}

Keeps(s, t) ==
    /\ Same(s, t, Working)
    /\ t.tx.first = s.tx.first
    /\ s.highTx <= t.highTx
    /\ s.tx.sent # <<>> => t.tx.sent # <<>>
    /\ s.sackEnabled => Sacked(t.tx) = Sacked(s.tx)
    /\ t.state = s.state \/ t.state = "NULL_ITEM"

\* Fields that have nothing to do with the buffer or the congestion state.
Plain == {"dupAcks", "nextTx", "retries", "retx", "firstPartial", "notProcessed", "flight",
          "cWnd", "ssThresh", "prr"}

\* Recovery begins: the head is sent again, and everything out so far is what is to
\* be recovered.
Entering(s, tx) ==
    [s EXCEPT !.tx = tx, !.congState = "RECOVERY", !.flight = BytesInFlight(tx),
              !.recover = s.highTx, !.recoverActive = TRUE]

\* The duplicates counted when an ACK of new data is handled.
Counted2(s, isDupack) ==
    \/ isDupack /\ Counts(s) /\ (s.congState = "DISORDER" => s.tx.sent # <<>>)
    \/ ~isDupack /\ s.dupAcks = 0

\* Recovery is over, or there was none.
Ending(s, ack, isDupack) ==
    [s EXCEPT
        !.congState = IF @ = "DISORDER" /\ isDupack THEN @ ELSE "OPEN",
        !.firstPartial = @ \/ s.congState \in {"RECOVERY", "LOSS"},
        !.dupAcks = IF s.congState = "RECOVERY" THEN 0 ELSE @,
        !.recoverActive = @ /\ ack < s.recover]

\* What becomes of the socket then.
Ended(s, t, ack, isDupack) ==
    /\ Types(t) /\ Same(s, t, {"congState", "firstPartial", "dupAcks", "recoverActive"})
    /\ t.congState = IF s.congState = "DISORDER" /\ isDupack THEN "DISORDER" ELSE "OPEN"
    /\ t.recoverActive = FALSE /\ t.recover <= t.highRxAck
    /\ Counts(t) /\ Board(t)

\* What the handling of an ACK keeps.
Processed(s, t, ack, old) ==
    /\ Calm(t) /\ Counts(t) /\ Keeps(s, t)
    /\ t.congState = "RECOVERY" => s.congState # "LOSS" /\ ack < t.recover
    /\ t.tx.sent = <<>> => t.nextTx = t.highTx
    /\ s.tx.sent = <<>> => t.tx.sent = <<>>
    /\ t.tx.sent # <<>> /\ (Watched(s) \/ (s.congState = "LOSS" /\ ack # old)) => Watched(t)
    /\ s.congState = "LOSS" /\ ack = old => t = s

\* All is lost that is not SACKed, and nothing is sent again so far.
AllLostTx(tx) == Out(tx) \subseteq Sacked(tx) \union Lost(tx) /\ Resent(tx) = {}

\* The buffer once it has let go of what the ACK covers, SACKs of bytes of G read.
LetGo(s, tx, a, G) ==
    /\ TxOk(tx) /\ tx.first = a.ack /\ HighData(tx) = HighData(s.tx) /\ tx.app = s.tx.app
    /\ a.ack \notin Sacked(tx)
    /\ \A b \in Lost(tx) : \/ b < HeadEnd(tx)
                           \/ s.congState = "LOSS" /\ b < s.recover
                           \/ s.sackEnabled /\ Enough(tx, b)
    /\ s.sackEnabled => HighOk(tx) /\ Sacked(tx) \subseteq Sacked(s.tx) \union G
    /\ ~s.sackEnabled /\ s.congState = "LOSS" => Sacked(tx) = {}
    /\ a.ack = s.tx.first /\ s.congState = "LOSS" /\ AllLostTx(s.tx) => AllLostTx(tx)
    /\ IsDupack(s, Scoreboard(s, a), a.ack) => a.ack < s.highTx

\* What the sender needs to know of an ACK, whose blocks name bytes of G.
AckFits(s, a, G) ==
    /\ a.ack \in Nat /\ s.tx.first <= a.ack /\ a.ack <= s.highTx /\ a.ack <= s.highRxAck
    /\ s.sackEnabled => /\ a.ack \notin Sacked(s.tx) /\ BlocksOk(a.sack, G)
                        /\ \A g \in G : g > a.ack

\* The socket with such a buffer.
Released(s, u, a, G) ==
    Same(s, u, {"tx", "flight"}) /\ LetGo(s, u.tx, a, G) /\ Calm(u)

-----------------------------------------------------------------------------
\* The socket between two steps.

\* After a timeout nothing of what was out is in flight any more.
Stalled(s) == s.congState = "LOSS" /\ AllLostTx(s.tx)

\* Recovery lasts while something below its point is unacknowledged; nothing is out
\* when there is no window, and then the next byte is the first.
Body(s) ==
    /\ Calm(s) /\ Counts(s)
    /\ s.congState = "RECOVERY" => s.tx.first < s.recover
    /\ s.rWnd = 0 => s.tx.sent = <<>>
    /\ s.tx.sent = <<>> => s.nextTx = s.highTx

\* No timer runs only after a timeout whose retransmission was held back.
Timer(s) ==
    s.state = "ESTABLISHED" /\ s.tx.sent # <<>> /\ ~s.retx
        => Stalled(s) /\ (s.pending \/ HoldsBack(s, Size(s.tx)))

Rest(s) == Body(s) /\ Timer(s) /\ (s.persist => s.rWnd = 0)

\* Before it sends, the timer runs, or the head is what will be sent.
Loose(s) ==
    Body(s) /\ (s.state = "ESTABLISHED" /\ s.tx.sent # <<>> /\ ~s.retx => Stalled(s))

\* The socket when an ACK is about to be processed, its window known.
Heard(e, a) ==
    /\ Calm(e) /\ Counts(e)
    /\ e.congState = "RECOVERY" => e.tx.first < e.recover
    /\ e.tx.sent = <<>> => e.nextTx = e.highTx
    /\ e.rWnd = 0 => e.tx.sent = <<>> \/ a.ack = e.highTx
    /\ e.state = "ESTABLISHED" /\ e.tx.sent # <<>> /\ ~e.retx /\ e.rWnd # 0 => Stalled(e)

\* From one step to the next, with SACKs of bytes of G.
Advanced(s, t, G) ==
    /\ s.tx.first <= t.tx.first /\ s.highTx <= t.highTx
    /\ t.sackEnabled = s.sackEnabled /\ t.alg = s.alg
    /\ s.sackEnabled => Sacked(t.tx) \subseteq Sacked(s.tx) \union G
    /\ t.congState = "RECOVERY" => s.congState # "LOSS"

\* What the handling of an ACK does not touch.
SameWindow(s, t) ==
    t.rWnd = s.rWnd /\ t.highRxAck = s.highRxAck /\ t.persist = s.persist

\* Fields about the peer's window and the timers.
Outer == {"rWnd", "highRxAck", "retx", "persist", "pending", "flight", "out"}

\* What the sender needs to know of an ACK that comes in.
AckIn(s, a, G) ==
    /\ a.ack \in Nat /\ a.wnd \in Nat
    /\ a.ack > s.highRxAck => s.highRxAck + s.rWnd <= a.ack + a.wnd
    /\ s.tx.sent # <<>> => a.ack <= s.highTx
    /\ s.sackEnabled => /\ BlocksOk(a.sack, G) /\ \A g \in G : g > a.ack
                        /\ s.tx.first <= a.ack => a.ack \notin Sacked(s.tx)

\* The socket once the window is known, and the persist timer runs if there is none.
Listening(s, e, a) ==
    /\ Heard(e, a) /\ Same(s, e, Outer) /\ e.out = {}
    /\ e.tx = s.tx /\ e.congState = s.congState /\ e.sackEnabled = s.sackEnabled
    /\ e.alg = s.alg /\ e.highTx = s.highTx /\ e.highRxAck = MaxOf(s.highRxAck, a.ack)
    /\ a.ack <= e.highRxAck
    /\ \/ e.highRxAck = s.highRxAck /\ e.rWnd = s.rWnd
       \/ e.highRxAck = a.ack /\ e.rWnd = a.wnd
    /\ a.ack < e.tx.first \/ a.ack > e.highTx => Body(e) /\ Timer(e)

-----------------------------------------------------------------------------
\* The steps, the network and the inductive invariant.

\* A step of the sender by itself.
Settles(s, t) ==
    /\ Rest(t) /\ Advanced(s, t, {})
    /\ t.rWnd = s.rWnd /\ t.highRxAck = s.highRxAck

\* How far the sender's bytes may have come: a probe is one byte beyond what is out.
Reach(s) == s.highTx + (IF s.tx.sent = <<>> THEN 1 ELSE 0)

\* The segments W sent so far, the bytes H held and the receiver's right edge e.
Net(s, W, H, e) ==
    /\ \A seg \in W : /\ seg[1] \in Nat /\ seg[2] \in Nat /\ seg[1] >= 1 /\ seg[2] >= 1
                      /\ seg[1] + seg[2] <= StreamLength + 1 /\ seg[1] + seg[2] <= Reach(s)
    /\ \A b \in H : \E seg \in W : b \in Bytes(seg)
    /\ e \in Nat /\ e >= 1 /\ \A b \in H : b < e
    /\ 1 .. s.highRxAck - 1 \subseteq H /\ s.highRxAck + s.rWnd <= e
    /\ s.sackEnabled => Sacked(s.tx) \subseteq H

\* An ACK acknowledges what is held, and takes back no window.
AckOk(s, a, H, e) ==
    /\ a.ack \in Nat /\ a.ack >= 1 /\ a.wnd \in Nat /\ a.ack + a.wnd <= e
    /\ 1 .. a.ack - 1 \subseteq H
    /\ BlocksOk(a.sack, {x \in H : x > a.ack})
    /\ a.ack > s.highRxAck => s.highRxAck + s.rWnd <= a.ack + a.wnd
    /\ s.sackEnabled /\ s.tx.first <= a.ack => a.ack \notin Sacked(s.tx)

\* What is held beyond a byte.
Beyond(H, k) == {x \in H : x > k}

SenderInv ==
    /\ DOMAIN sock = Fields
    /\ Rest(Quiet)
    /\ Net(Quiet, wire, held, edge)
    /\ late # NoAck => AckOk(Quiet, late, held, edge)

\* What a step does besides.
Stepped ==
    /\ OutOk(sock') \/ (PersistTimeout /\ sock'.tx.sent = <<>>)
    /\ sock.highRxAck <= sock'.highRxAck
    /\ sock'.congState = "RECOVERY" => sock.congState # "LOSS"

\* The fields that the network and the properties see.
SameView(s, t) ==
    /\ t.tx = s.tx /\ t.state = s.state /\ t.congState = s.congState
    /\ t.highTx = s.highTx /\ t.highRxAck = s.highRxAck /\ t.rWnd = s.rWnd
    /\ t.sackEnabled = s.sackEnabled /\ t.alg = s.alg

==============================================================================
