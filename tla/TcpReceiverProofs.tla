-------------------------- MODULE TcpReceiverProofs ---------------------------
(***************************************************************************)
(* The receiver implements ReceiveStream, and its end of file is complete, *)
(* for every length of the stream, segment size, buffer, window scale and  *)
(* delayed-ACK count.                                                      *)
(*                                                                         *)
(* Good is what every handler preserves, whatever handler calls it: the    *)
(* buffer is in order (InOrderBuffer), the bytes read are the first of the *)
(* stream, no acknowledgment is ahead of m_nextRxSeq, and every right edge *)
(* an ACK has advertised lies in the buffer and within the window last     *)
(* advertised (Offered).  That is what makes a FIN safe: it is only sent   *)
(* when the end of the stream lies below such an edge, so the segment with *)
(* it is never cut at the buffer's limit.  Keeps adds what every handler   *)
(* does: it gives up no byte, unreads none and takes no ACK back.          *)
(*                                                                         *)
(* The first half says what the operators of TcpRxBuffer do to a buffer    *)
(* that is in order, for any length n of the peer's stream, any segment    *)
(* and any read: each byte is where it belongs (Placed) and no two         *)
(* fragments overlap (Apart); r bytes have been read, the next avail are   *)
(* there, the one after them is missing, and m_nextRxSeq points at it or,  *)
(* the FIN being counted, past the stream (InOrderBuffer).                 *)
(***************************************************************************)
EXTENDS TcpReceiver, InductionFacts, SequenceTheorems, FiniteSetTheorems

Placed(data, n) ==
    \A h \in DOMAIN data :
        /\ h \in Nat /\ data[h] \in Seq(0 .. n - 1) /\ Len(data[h]) > 0
        /\ \A i \in 1 .. Len(data[h]) : data[h][i] = h + i - 1

Apart(data) == \A h, k \in DOMAIN data : h < k => EndOf(data, h) <= k

Fields == {"data", "next", "gotFin", "fin", "size", "avail", "sack"}

InOrderBuffer(rx, r, n) ==
    /\ DOMAIN rx = Fields /\ rx.avail \in Nat /\ r \in Nat
    /\ Placed(rx.data, n) /\ Apart(rx.data)
    /\ \A b \in BytesOf(rx.data) : r <= b
    /\ \A b \in r .. r + rx.avail - 1 : b \in BytesOf(rx.data)
    /\ r + rx.avail \notin BytesOf(rx.data) /\ r + rx.avail <= n
    /\ rx.next = r + rx.avail \/ (rx.gotFin /\ rx.next = n + 1 /\ r + rx.avail = n)
    /\ rx.gotFin \in BOOLEAN /\ rx.fin \in 0 .. n
    /\ rx.gotFin => \A b \in rx.fin .. n - 1 : b < r \/ b \in BytesOf(rx.data)

\* The len bytes of the stream from seq on.
Slice(seq, len) == [i \in 1 .. len |-> seq + i - 1]

-----------------------------------------------------------------------------
(***************************************************************************)
(* Least and greatest elements.                                            *)
(***************************************************************************)
LEMMA MinIsLeast ==
    ASSUME NEW T, T \subseteq Nat, T # {}
    PROVE  Min(T) \in T /\ \A y \in T : Min(T) <= y
BY LeastExists DEF Min

LEMMA MaxIsGreatest ==
    ASSUME NEW T, T \subseteq Int, T # {}, NEW b \in Int, \A x \in T : x <= b
    PROVE  Max(T) \in T /\ \A y \in T : y <= Max(T)
<1> DEFINE U == {b - x : x \in T}
<1>1. U \subseteq Nat /\ U # {}
  <2>1. ASSUME NEW x \in T PROVE b - x \in Nat
    <3>1. x \in Int /\ x <= b
      OBVIOUS
    <3> QED BY <3>1
  <2> QED BY <2>1
<1>2. PICK u \in U : \A v \in U : u <= v
  BY <1>1, LeastExists
<1>3. PICK m \in T : u = b - m
  BY <1>2
<1>4. \A y \in T : m >= y
  BY <1>2, <1>3
<1> QED BY <1>3, <1>4 DEF Max

-----------------------------------------------------------------------------
(***************************************************************************)
(* The bytes of a buffer.                                                  *)
(***************************************************************************)
LEMMA BytesType ==
    ASSUME NEW n \in Nat, NEW data, Placed(data, n)
    PROVE  /\ \A h \in DOMAIN data : EndOf(data, h) \in Nat /\ h < EndOf(data, h)
                                     /\ EndOf(data, h) <= n
           /\ \A b : b \in BytesOf(data) <=>
                  b \in Nat /\ \E h \in DOMAIN data : h <= b /\ b < EndOf(data, h)
           /\ BytesOf(data) \subseteq 0 .. n - 1
           /\ DOMAIN data \subseteq BytesOf(data)
<1>1. ASSUME NEW h \in DOMAIN data
      PROVE  h \in Nat /\ EndOf(data, h) \in Nat /\ h < EndOf(data, h) /\ EndOf(data, h) <= n
  <2>1. h \in Nat /\ Len(data[h]) \in Nat /\ Len(data[h]) > 0
    BY LenProperties DEF Placed
  <2>2. data[h][Len(data[h])] = h + Len(data[h]) - 1
    BY <2>1 DEF Placed
  <2>3. data[h][Len(data[h])] \in 0 .. n - 1
    BY <2>1, ElementOfSeq DEF Placed
  <2> QED BY <2>1, <2>2, <2>3 DEF EndOf
<1>2. ASSUME NEW b
      PROVE  b \in BytesOf(data) <=>
                 b \in Nat /\ \E h \in DOMAIN data : h <= b /\ b < EndOf(data, h)
  <2>1. b \in BytesOf(data) <=> \E h \in DOMAIN data : b \in h .. EndOf(data, h) - 1
    BY DEF BytesOf
  <2>2. \A h \in DOMAIN data :
            b \in h .. EndOf(data, h) - 1 <=> b \in Nat /\ h <= b /\ b < EndOf(data, h)
    BY <1>1
  <2> QED BY <2>1, <2>2
<1>3. BytesOf(data) \subseteq 0 .. n - 1
  BY <1>1, <1>2
<1>4. DOMAIN data \subseteq BytesOf(data)
  BY <1>1, <1>2
<1> QED BY <1>1, <1>2, <1>3, <1>4

\* Fragments hold the bytes their places say.
LEMMA BytesAreHeld ==
    ASSUME NEW n \in Nat, NEW data, Placed(data, n)
    PROVE  UNION {Range(data[h]) : h \in DOMAIN data} = BytesOf(data)
<1>1. ASSUME NEW h \in DOMAIN data
      PROVE  Range(data[h]) = h .. EndOf(data, h) - 1
  <2>1. h \in Nat /\ Len(data[h]) \in Nat /\ DOMAIN data[h] = 1 .. Len(data[h])
    BY LenProperties DEF Placed
  <2>2. Range(data[h]) = {data[h][i] : i \in 1 .. Len(data[h])}
    BY <2>1 DEF Range
  <2>3. \A i \in 1 .. Len(data[h]) : data[h][i] = h + i - 1
    BY DEF Placed
  <2>4. ASSUME NEW b \in h .. EndOf(data, h) - 1 PROVE b \in Range(data[h])
    <3>1. b - h + 1 \in 1 .. Len(data[h]) /\ h + (b - h + 1) - 1 = b
      BY <2>1 DEF EndOf
    <3> QED BY <3>1, <2>2, <2>3
  <2>5. ASSUME NEW b \in Range(data[h]) PROVE b \in h .. EndOf(data, h) - 1
    <3>1. PICK i \in 1 .. Len(data[h]) : b = data[h][i]
      BY <2>2
    <3> QED BY <3>1, <2>1, <2>3 DEF EndOf
  <2> QED BY <2>4, <2>5
<1>2. {Range(data[h]) : h \in DOMAIN data} = {h .. EndOf(data, h) - 1 : h \in DOMAIN data}
  BY <1>1
<1> QED BY <1>2 DEF BytesOf

LEMMA FirstMissingIs ==
    ASSUME NEW n \in Nat, NEW data, Placed(data, n), NEW b \in Nat
    PROVE  /\ FirstMissing(data, b) \in Nat /\ FirstMissing(data, b) >= b
           /\ FirstMissing(data, b) \notin BytesOf(data)
           /\ \A y \in b .. FirstMissing(data, b) - 1 : y \in BytesOf(data)
<1> DEFINE Missing == {x \in Nat : x >= b /\ x \notin BytesOf(data)}
           Ends == {e \in {b} \union {EndOf(data, h) : h \in DOMAIN data} :
                        e >= b /\ e \notin BytesOf(data)}
<1>0. IF b >= n THEN b \in Missing ELSE n \in Missing
  BY BytesType
<1>1. PICK x \in Missing : \A y \in Missing : x <= y
  <2>1. Missing \subseteq Nat /\ Missing # {}
    BY <1>0
  <2> HIDE DEF Missing
  <2> QED BY <2>1, LeastExists
<1>2. \A y \in b .. x - 1 : y \in BytesOf(data)
  BY <1>1
<1>3. x \in Ends
  <2>1. CASE x = b
    BY <2>1, <1>1
  <2>2. CASE x > b
    <3>1. x - 1 \in BytesOf(data)
      BY <1>1, <1>2, <2>2
    <3>2. PICK h \in DOMAIN data : h <= x - 1 /\ x - 1 < EndOf(data, h)
      BY <3>1, BytesType
    <3>3. ~(h <= x /\ x < EndOf(data, h))
      BY <1>1, BytesType
    <3>4. x \in Nat /\ h \in Nat /\ EndOf(data, h) \in Nat
      BY <1>1, BytesType DEF Placed
    <3>5. x = EndOf(data, h)
      BY <3>2, <3>3, <3>4
    <3> QED BY <3>5, <1>1
  <2> QED BY <1>1, <2>1, <2>2
<1>4. Ends \subseteq Missing
  BY BytesType
<1>5. \A y \in Ends : x <= y
  BY <1>1, <1>4
<1>6. Min(Ends) = x
  <2>1. Ends \subseteq Nat /\ Ends # {}
    BY <1>3, <1>4
  <2> HIDE DEF Ends
  <2>2. Min(Ends) \in Ends /\ \A y \in Ends : Min(Ends) <= y
    BY <2>1, MinIsLeast
  <2>3. Min(Ends) \in Nat /\ x \in Nat /\ x <= Min(Ends) /\ Min(Ends) <= x
    BY <2>1, <2>2, <1>3, <1>5
  <2> QED BY <2>3
<1>7. FirstMissing(data, b) = x
  BY <1>6 DEF FirstMissing
<1> QED BY <1>1, <1>2, <1>7

-----------------------------------------------------------------------------
(***************************************************************************)
(* Add.                                                                    *)
(***************************************************************************)
\* Where the first fragment begins.
LEMMA BeginIs ==
    ASSUME NEW n \in Nat, NEW data, Placed(data, n), DOMAIN data # {}
    PROVE  Begin(data) \in DOMAIN data /\ Begin(data) \in Nat
           /\ \A h \in DOMAIN data : Begin(data) <= h
<1>1. DOMAIN data \subseteq Nat
  BY DEF Placed
<1> QED BY <1>1, MinIsLeast DEF Begin

LEMMA WithinBufferIs ==
    ASSUME NEW n \in Nat, NEW rx, Placed(rx.data, n), NEW tail \in Nat
    PROVE  /\ WithinBuffer(rx, tail) \in Nat /\ WithinBuffer(rx, tail) <= tail
           /\ \A r \in Nat : tail <= r + MaxBuffer /\ (\A h \in DOMAIN rx.data : r <= h)
                  => WithinBuffer(rx, tail) = tail
<1>1. CASE DOMAIN rx.data = {}
  BY <1>1 DEF WithinBuffer
<1>2. CASE DOMAIN rx.data # {}
  <2>1. Begin(rx.data) \in DOMAIN rx.data /\ Begin(rx.data) \in Nat
    BY <1>2, BeginIs
  <2>2. WithinBuffer(rx, tail) = MinOf(tail, Begin(rx.data) + MaxBuffer)
    BY <1>2 DEF WithinBuffer
  <2> HIDE DEF WithinBuffer
  <2> QED BY <2>1, <2>2, RxBufferAssumption DEF MinOf
<1> QED BY <1>1, <1>2

\* What is left of a packet begins with a byte that is missing, and ends where a
\* fragment begins that reaches beyond it.
LEMMA TailCutIs ==
    ASSUME NEW n \in Nat, NEW data, Placed(data, n), Apart(data),
           NEW head \in Nat, NEW end \in Nat
    PROVE  /\ TailCut(data, head, end) \in Nat /\ TailCut(data, head, end) <= end
           /\ head < end => head < TailCut(data, head, end)
           /\ \A h \in DOMAIN data : head < h =>
                  EndOf(data, h) <= TailCut(data, head, end) \/ TailCut(data, head, end) <= h
           /\ \A b \in TailCut(data, head, end) .. end - 1 : b \in BytesOf(data)
<1> DEFINE Cuts == {end} \union {h \in DOMAIN data : head < h /\ end <= EndOf(data, h)}
           tail == TailCut(data, head, end)
<1>1. \A h \in DOMAIN data : h \in Nat /\ EndOf(data, h) \in Nat /\ h < EndOf(data, h)
  BY BytesType DEF Placed
<1>2. Cuts \subseteq Nat /\ Cuts # {}
  BY <1>1
<1>3. tail = Min(Cuts)
  BY DEF TailCut
<1>4. tail \in Cuts /\ \A y \in Cuts : tail <= y
  <2> HIDE DEF Cuts, tail
  <2> QED BY <1>2, <1>3, MinIsLeast
<1>5. tail \in Nat /\ tail <= end /\ (head < end => head < tail)
  BY <1>1, <1>4
<1>6. ASSUME NEW h \in DOMAIN data, head < h
      PROVE  EndOf(data, h) <= tail \/ tail <= h
  <2>1. CASE end <= EndOf(data, h)
    BY <2>1, <1>4, <1>6
  <2>2. CASE EndOf(data, h) < end
    <3>1. CASE tail = end
      BY <2>2, <3>1, <1>1
    <3>2. CASE tail # end
      <4>1. tail \in DOMAIN data /\ head < tail /\ end <= EndOf(data, tail)
        BY <3>2, <1>4
      <4>2. h # tail
        BY <4>1, <2>2, <1>1
      <4>3. CASE h < tail
        BY <4>1, <4>3 DEF Apart
      <4>4. CASE tail < h
        BY <4>4, <1>1, <4>1
      <4> HIDE DEF tail
      <4> QED BY <4>1, <4>2, <4>3, <4>4, <1>1
    <3> QED BY <3>1, <3>2
  <2> QED BY <2>1, <2>2, <1>1, <1>5
<1>7. ASSUME NEW b \in tail .. end - 1
      PROVE  b \in BytesOf(data)
  <2>1. tail # end /\ b \in Nat /\ tail <= b /\ b < end
    BY <1>5
  <2>2. tail \in DOMAIN data /\ end <= EndOf(data, tail)
    BY <2>1, <1>4
  <2>3. b < EndOf(data, tail)
    BY <2>1, <2>2, <1>1
  <2> QED BY <2>1, <2>2, <2>3, BytesType
<1> QED BY <1>5, <1>6, <1>7

LEMMA InsertIs ==
    ASSUME NEW n \in Nat, NEW data, Placed(data, n), Apart(data),
           NEW seq \in Nat, NEW len \in Nat, seq + len <= n,
           NEW head \in Nat, NEW tail \in Nat,
           seq <= head, head < tail, tail <= seq + len, head \notin BytesOf(data),
           \A h \in DOMAIN data : head < h => EndOf(data, h) <= tail \/ tail <= h
    PROVE  /\ Placed(Insert(data, seq, Slice(seq, len), head, tail), n)
           /\ Apart(Insert(data, seq, Slice(seq, len), head, tail))
           /\ BytesOf(Insert(data, seq, Slice(seq, len), head, tail))
                = BytesOf(data) \union (head .. tail - 1)
           /\ head \in DOMAIN Insert(data, seq, Slice(seq, len), head, tail)
<1> DEFINE d == Insert(data, seq, Slice(seq, len), head, tail)
           f == Fragment(Slice(seq, len), head - seq, tail - head)
           gone == Embedded(data, head, tail)
<1>1. /\ f \in Seq(0 .. n - 1) /\ Len(f) = tail - head
      /\ \A i \in 1 .. Len(f) : f[i] = head + i - 1
  <2>1. f = SubSeq(Slice(seq, len), head - seq + 1, tail - seq)
    BY DEF Fragment
  <2>2. \A i \in head - seq + 1 .. tail - seq :
            Slice(seq, len)[i] = seq + i - 1 /\ Slice(seq, len)[i] \in 0 .. n - 1
    BY DEF Slice
  <2>3. head - seq + 1 \in Int /\ tail - seq \in Int
    OBVIOUS
  <2> HIDE DEF f
  <2>4. /\ f \in Seq(0 .. n - 1)
        /\ Len(f) = IF head - seq + 1 <= tail - seq
                     THEN (tail - seq) - (head - seq + 1) + 1 ELSE 0
        /\ \A i \in 1 .. (tail - seq) - (head - seq + 1) + 1 :
               f[i] = Slice(seq, len)[(head - seq + 1) + i - 1]
    BY <2>1, <2>2, <2>3, SubSeqProperties
  <2>5. Len(f) = tail - head
    BY <2>4
  <2>6. ASSUME NEW i \in 1 .. Len(f) PROVE f[i] = head + i - 1
    <3>1. (head - seq + 1) + i - 1 \in head - seq + 1 .. tail - seq
      BY <2>5
    <3> QED BY <3>1, <2>2, <2>4, <2>5
  <2> QED BY <2>4, <2>5, <2>6
<1>2. /\ DOMAIN d = (DOMAIN data \ gone) \union {head}
      /\ d[head] = f /\ \A h \in DOMAIN d : h # head => d[h] = data[h]
  BY DEF Insert
<1>3. \A h \in DOMAIN data : h \in Nat /\ EndOf(data, h) \in Nat /\ h < EndOf(data, h)
  BY BytesType DEF Placed
<1>4. \A h : h \in gone <=> h \in DOMAIN data /\ head < h /\ EndOf(data, h) <= tail
  BY DEF Embedded
<1> HIDE DEF d, f, gone
<1>5. EndOf(d, head) = tail /\ \A h \in DOMAIN d : h # head => EndOf(d, h) = EndOf(data, h)
  BY <1>1, <1>2 DEF EndOf
<1>6. head \notin DOMAIN data
  BY BytesType
<1>7. Placed(d, n)
  <2>1. ASSUME NEW h \in DOMAIN d
        PROVE  /\ h \in Nat /\ d[h] \in Seq(0 .. n - 1) /\ Len(d[h]) > 0
               /\ \A i \in 1 .. Len(d[h]) : d[h][i] = h + i - 1
    <3>1. CASE h = head
      BY <3>1, <1>1, <1>2
    <3>2. CASE h # head
      BY <3>2, <1>2 DEF Placed
    <3> QED BY <3>1, <3>2
  <2> QED BY <2>1 DEF Placed
<1>8. ASSUME NEW h \in DOMAIN data, h \notin gone
      PROVE  EndOf(data, h) <= head \/ tail <= h
  <2>1. ~(h <= head /\ head < EndOf(data, h))
    BY BytesType
  <2> QED BY <2>1, <1>3, <1>4, <1>8
<1>9. Apart(d)
  <2>1. ASSUME NEW h \in DOMAIN d, NEW k \in DOMAIN d, h < k
        PROVE  EndOf(d, h) <= k
    <3>1. CASE h = head
      BY <3>1, <2>1, <1>2, <1>3, <1>5, <1>8
    <3>2. CASE h # head /\ k = head
      BY <3>2, <2>1, <1>2, <1>3, <1>5, <1>8
    <3>3. CASE h # head /\ k # head
      BY <3>3, <2>1, <1>2, <1>5 DEF Apart
    <3> QED BY <3>1, <3>2, <3>3
  <2> QED BY <2>1 DEF Apart
<1>10. ASSUME NEW b
       PROVE  b \in BytesOf(d) <=> b \in BytesOf(data) \union (head .. tail - 1)
  <2>1. b \in BytesOf(d) <=> b \in Nat /\ \E h \in DOMAIN d : h <= b /\ b < EndOf(d, h)
    BY <1>7, BytesType
  <2>2. b \in BytesOf(data) <=>
            b \in Nat /\ \E h \in DOMAIN data : h <= b /\ b < EndOf(data, h)
    BY BytesType
  <2>3. CASE b \in BytesOf(d)
    <3>1. PICK h \in DOMAIN d : h <= b /\ b < EndOf(d, h)
      BY <2>1, <2>3
    <3> QED BY <3>1, <2>1, <2>2, <2>3, <1>2, <1>5
  <2>4. CASE b \in head .. tail - 1
    BY <2>1, <2>4, <1>2, <1>5
  <2>5. CASE b \in BytesOf(data)
    <3>1. PICK h \in DOMAIN data : h <= b /\ b < EndOf(data, h)
      BY <2>2, <2>5
    <3>2. CASE h \in gone
      <4>1. b \in head .. tail - 1
        BY <3>1, <3>2, <2>2, <2>5, <1>3, <1>4
      <4> QED BY <4>1, <2>4
    <3>3. CASE h \notin gone
      BY <3>1, <3>3, <2>1, <2>2, <2>5, <1>2, <1>5, <1>6
    <3> QED BY <3>2, <3>3
  <2> QED BY <2>3, <2>4, <2>5
<1>11. BytesOf(d) = BytesOf(data) \union (head .. tail - 1)
  BY <1>10
<1> QED BY <1>2, <1>7, <1>9, <1>11 DEF d

\* What advancing m_nextRxSeq does to a buffer into which the bytes from head on
\* have been inserted.
Advancing(t, r, n) ==
    /\ DOMAIN t = Fields /\ r \in Nat /\ t.avail \in Nat
    /\ Placed(t.data, n) /\ Apart(t.data)
    /\ \A b \in BytesOf(t.data) : r <= b
    /\ \A b \in r .. r + t.avail - 1 : b \in BytesOf(t.data)
    /\ t.next = r + t.avail /\ t.next <= n
    /\ t.next \in BytesOf(t.data) => t.next \in DOMAIN t.data
    /\ t.gotFin \in BOOLEAN /\ t.fin \in 0 .. n
    /\ t.gotFin => \A b \in t.fin .. n - 1 : b < r \/ b \in BytesOf(t.data)

LEMMA AdvanceIs ==
    ASSUME NEW n \in Nat, NEW r, NEW t, Advancing(t, r, n)
    PROVE  /\ InOrderBuffer(Advance(t), r, n)
           /\ Advance(t).data = t.data /\ t.next <= Advance(t).next
           /\ Advance(t).gotFin = t.gotFin /\ Advance(t).fin = t.fin
<1> DEFINE c == Contiguous(t)
           v == Advance(t)
<1> USE DEF Advancing
<1>1. c \in Nat /\ t.next <= c /\ c \notin BytesOf(t.data)
      /\ \A y \in t.next .. c - 1 : y \in BytesOf(t.data)
  <2>1. t.next \in Nat
    OBVIOUS
  <2>2. CASE t.next \in DOMAIN t.data
    <3>1. c = FirstMissing(t.data, t.next)
      BY <2>2 DEF Contiguous
    <3> HIDE DEF c
    <3> QED BY <3>1, <2>1, FirstMissingIs
  <2>3. CASE t.next \notin DOMAIN t.data
    BY <2>1, <2>3 DEF Contiguous
  <2> QED BY <2>2, <2>3
<1>2. v.data = t.data /\ v.gotFin = t.gotFin /\ v.fin = t.fin /\ DOMAIN v = Fields
  BY DEF Advance, AdvanceTo, Fields
<1>3. v.next = IF t.gotFin /\ c = t.fin THEN c + 1 ELSE c
  BY DEF Advance, AdvanceTo, Fields
<1>4. v.avail = t.avail + c - t.next
  BY DEF Advance, AdvanceTo, Fields
<1> HIDE DEF c, v
<1>5. v.avail \in Nat /\ r + v.avail = c
  BY <1>1, <1>4
<1>6. c <= n
  <2>1. CASE c = t.next
    BY <2>1
  <2>2. CASE c > t.next
    <3>1. c - 1 \in BytesOf(t.data)
      BY <1>1, <2>2
    <3> QED BY <3>1, <1>1, BytesType
  <2> QED BY <2>1, <2>2, <1>1
<1>7. \A b \in r .. r + v.avail - 1 : b \in BytesOf(t.data)
  BY <1>1, <1>5
<1>8. v.next = c \/ (v.gotFin /\ v.next = n + 1 /\ c = n)
  <2>1. t.gotFin /\ c = t.fin => c = n
    BY <1>1, <1>6
  <2> QED BY <2>1, <1>2, <1>3
<1>9. InOrderBuffer(v, r, n)
  BY <1>1, <1>2, <1>5, <1>6, <1>7, <1>8 DEF InOrderBuffer
<1>10. t.next <= v.next
  BY <1>1, <1>3
<1> QED BY <1>2, <1>9, <1>10 DEF v

\* What is left of a segment starts at a missing byte and cuts no fragment at its end.
Storable(rx, seq, len, head, tail) ==
    /\ seq <= head /\ rx.next <= head /\ head < tail /\ tail <= seq + len
    /\ head \notin BytesOf(rx.data)
    /\ \A h \in DOMAIN rx.data : head < h => EndOf(rx.data, h) <= tail \/ tail <= h

\* What storing it does: t is the buffer with the bytes from head to tail.
Stored(rx, r, n, head, tail, t) ==
    /\ InOrderBuffer(t, r, n)
    /\ BytesOf(t.data) = BytesOf(rx.data) \union (head .. tail - 1)
    /\ rx.next <= t.next
    /\ t.gotFin = rx.gotFin /\ t.fin = rx.fin

LEMMA StoreIs ==
    ASSUME NEW n \in Nat, NEW r, NEW rx, InOrderBuffer(rx, r, n),
           NEW seq \in Nat, NEW len \in Nat, seq + len <= n,
           NEW head \in Nat, NEW tail \in Nat,
           Storable(rx, seq, len, head, tail)
    PROVE  Stored(rx, r, n, head, tail,
                  Advance(Store(rx, seq, Slice(seq, len), head, tail)))
<1>0. /\ seq <= head /\ rx.next <= head /\ head < tail /\ tail <= seq + len
      /\ head \notin BytesOf(rx.data)
      /\ \A h \in DOMAIN rx.data : head < h => EndOf(rx.data, h) <= tail \/ tail <= h
  BY DEF Storable
<1> USE <1>0
<1> DEFINE t == Store(rx, seq, Slice(seq, len), head, tail)
<1>1. /\ DOMAIN t = Fields /\ t.data = Insert(rx.data, seq, Slice(seq, len), head, tail)
      /\ t.next = rx.next /\ t.avail = rx.avail /\ t.gotFin = rx.gotFin /\ t.fin = rx.fin
  BY DEF Store, InOrderBuffer, Fields
<1> HIDE DEF t
<1>2. Placed(rx.data, n) /\ Apart(rx.data)
  BY DEF InOrderBuffer
<1>3. /\ Placed(t.data, n) /\ Apart(t.data)
      /\ BytesOf(t.data) = BytesOf(rx.data) \union (head .. tail - 1)
      /\ head \in DOMAIN t.data
  BY <1>1, <1>2, InsertIs
<1>4. r \in Nat /\ rx.avail \in Nat /\ rx.next = r + rx.avail /\ rx.next <= n
  <2>1. /\ r \in Nat /\ rx.avail \in Nat /\ r + rx.avail <= n
        /\ rx.next = r + rx.avail \/ rx.next = n + 1
    BY DEF InOrderBuffer
  <2>2. rx.next < n + 1
    BY <2>1
  <2> QED BY <2>1, <2>2
<1>5. /\ \A b \in BytesOf(t.data) : r <= b
      /\ \A b \in r .. r + t.avail - 1 : b \in BytesOf(t.data)
  <2>1. \A b \in BytesOf(rx.data) : b \in Nat /\ r <= b
    BY <1>2, BytesType DEF InOrderBuffer
  <2>2. \A b \in r .. r + rx.avail - 1 : b \in BytesOf(rx.data)
    BY DEF InOrderBuffer
  <2> QED BY <2>1, <2>2, <1>1, <1>3, <1>4
<1>6. t.next \in BytesOf(t.data) => t.next \in DOMAIN t.data
  <2>1. rx.next \notin BytesOf(rx.data)
    BY <1>4 DEF InOrderBuffer
  <2> QED BY <2>1, <1>1, <1>3, <1>4
<1>7. /\ t.gotFin \in BOOLEAN /\ t.fin \in 0 .. n
      /\ t.gotFin => \A b \in t.fin .. n - 1 : b < r \/ b \in BytesOf(t.data)
  BY <1>1, <1>3 DEF InOrderBuffer
<1>8. /\ InOrderBuffer(Advance(t), r, n)
      /\ Advance(t).data = t.data /\ t.next <= Advance(t).next
      /\ Advance(t).gotFin = t.gotFin /\ Advance(t).fin = t.fin
  <2>1. Advancing(t, r, n)
    BY <1>1, <1>3, <1>4, <1>5, <1>6, <1>7 DEF Advancing
  <2> QED BY <2>1, AdvanceIs
<1> DEFINE v == Advance(t)
<1>9. /\ InOrderBuffer(v, r, n) /\ BytesOf(v.data) = BytesOf(rx.data) \union (head .. tail - 1)
      /\ rx.next <= v.next /\ v.gotFin = rx.gotFin /\ v.fin = rx.fin
  BY <1>1, <1>3, <1>8
<1>10. Stored(rx, r, n, head, tail, v)
  <2> HIDE DEF v
  <2> QED BY <1>9 DEF Stored
<1> QED BY <1>10 DEF t

\* The range [head, tail) that is left of a packet: it begins with a byte that is
\* missing, meets no fragment in part, and leaves out only bytes that are there
\* or, at the end, beyond the buffer.
Remains(rx, r, n, seq, len, head, tail) ==
    /\ head \in Nat /\ seq <= head /\ rx.next <= head /\ head \notin BytesOf(rx.data)
    /\ \A y \in MaxOf(seq, rx.next) .. head - 1 : y \in BytesOf(rx.data)
    /\ tail \in Nat /\ tail <= seq + len
    /\ tail <= WithinBuffer(rx, seq + len)
    /\ \A h \in DOMAIN rx.data : head < h => EndOf(rx.data, h) <= tail \/ tail <= h
    /\ \A b \in tail .. WithinBuffer(rx, seq + len) - 1 : b \in BytesOf(rx.data)

LEMMA TrimmedIs ==
    ASSUME NEW n \in Nat, NEW r, NEW rx, InOrderBuffer(rx, r, n),
           NEW seq \in Nat, NEW len \in Nat, seq + len <= n
    PROVE  Remains(rx, r, n, seq, len, Trimmed(rx, seq, Slice(seq, len))[1],
                  Trimmed(rx, seq, Slice(seq, len))[2])
<1> DEFINE from == MaxOf(seq, rx.next)
           within == WithinBuffer(rx, seq + len)
           range == Trimmed(rx, seq, Slice(seq, len))
           head == range[1]
           tail == range[2]
<1>1. /\ Placed(rx.data, n) /\ Apart(rx.data) /\ rx.next \in Nat /\ r \in Nat
  BY DEF InOrderBuffer
<1>2. Len(Slice(seq, len)) = len
  BY DEF Slice
<1>3. from \in Nat /\ seq <= from /\ rx.next <= from
  BY <1>1 DEF MaxOf
<1>4. head = FirstMissing(rx.data, from) /\ tail = TailCut(rx.data, head, within)
  BY <1>2 DEF Trimmed
<1>7. within \in Nat /\ within <= seq + len
  <2>1. seq + len \in Nat
    OBVIOUS
  <2> QED BY <1>1, <2>1, WithinBufferIs
<1> HIDE DEF head, tail, range, from, within
<1>6. /\ head \in Nat /\ seq <= head /\ rx.next <= head /\ head \notin BytesOf(rx.data)
      /\ \A y \in from .. head - 1 : y \in BytesOf(rx.data)
  <2>1. /\ head \in Nat /\ head >= from /\ head \notin BytesOf(rx.data)
        /\ \A y \in from .. head - 1 : y \in BytesOf(rx.data)
    BY <1>1, <1>3, <1>4, FirstMissingIs
  <2> QED BY <2>1, <1>1, <1>3
<1>8. /\ tail \in Nat /\ tail <= within /\ tail <= seq + len
      /\ \A h \in DOMAIN rx.data : head < h => EndOf(rx.data, h) <= tail \/ tail <= h
      /\ \A b \in tail .. within - 1 : b \in BytesOf(rx.data)
  <2>1. /\ tail \in Nat /\ tail <= within
        /\ \A h \in DOMAIN rx.data : head < h => EndOf(rx.data, h) <= tail \/ tail <= h
        /\ \A b \in tail .. within - 1 : b \in BytesOf(rx.data)
    BY <1>1, <1>4, <1>6, <1>7, TailCutIs
  <2> QED BY <2>1, <1>7
<1> QED BY <1>6, <1>8 DEF Remains, head, tail, range, from, within

\* A packet of the stream leaves the buffer in order and nothing in it is lost;
\* a packet that fits into the buffer is there afterwards, all of it.
Added(rx, r, n, seq, len, t) ==
    /\ InOrderBuffer(t, r, n)
    /\ BytesOf(rx.data) \subseteq BytesOf(t.data) /\ rx.next <= t.next
    /\ t.gotFin = rx.gotFin /\ t.fin = rx.fin
    /\ seq + len <= r + MaxBuffer =>
           \A b \in seq .. seq + len - 1 : b < r \/ b \in BytesOf(t.data)

LEMMA AddIs ==
    ASSUME NEW n \in Nat, NEW r, NEW rx, InOrderBuffer(rx, r, n),
           NEW seq \in Nat, NEW len \in Nat, seq + len <= n
    PROVE  Added(rx, r, n, seq, len, Add(rx, seq, Slice(seq, len)))
<1> DEFINE from == MaxOf(seq, rx.next)
           within == WithinBuffer(rx, seq + len)
           range == Trimmed(rx, seq, Slice(seq, len))
           head == range[1]
           tail == range[2]
           t == Add(rx, seq, Slice(seq, len))
<1>1. /\ Placed(rx.data, n) /\ rx.next \in Nat /\ r \in Nat
      /\ \A h \in DOMAIN rx.data : r <= h
  BY BytesType DEF InOrderBuffer
<1>3. from \in Nat /\ seq <= from /\ rx.next <= from /\ (rx.next <= seq => from = seq)
  BY <1>1 DEF MaxOf
<1>5. t = IF head < tail THEN Advance(Store(rx, seq, Slice(seq, len), head, tail)) ELSE rx
  BY DEF Add, AddRange, Stores
<1>7. /\ within \in Nat /\ within <= seq + len
      /\ seq + len <= r + MaxBuffer => within = seq + len
  <2>1. seq + len \in Nat
    OBVIOUS
  <2> QED BY <1>1, <2>1, WithinBufferIs
<1>2. Remains(rx, r, n, seq, len, head, tail)
  BY TrimmedIs
<1> HIDE DEF head, tail, t, range, from, within
<1>6. /\ head \in Nat /\ seq <= head /\ rx.next <= head /\ head \notin BytesOf(rx.data)
      /\ \A y \in from .. head - 1 : y \in BytesOf(rx.data)
  BY <1>2 DEF Remains, from
<1>8. /\ tail \in Nat /\ tail <= within /\ tail <= seq + len
      /\ \A h \in DOMAIN rx.data : head < h => EndOf(rx.data, h) <= tail \/ tail <= h
      /\ \A b \in tail .. within - 1 : b \in BytesOf(rx.data)
  BY <1>2 DEF Remains, within
<1>9. /\ InOrderBuffer(t, r, n) /\ rx.next <= t.next
      /\ t.gotFin = rx.gotFin /\ t.fin = rx.fin
      /\ BytesOf(t.data) = BytesOf(rx.data) \union (IF head < tail THEN head .. tail - 1 ELSE {})
  <2>1. CASE head < tail
    <3> DEFINE u == Advance(Store(rx, seq, Slice(seq, len), head, tail))
    <3>1. /\ InOrderBuffer(u, r, n)
          /\ BytesOf(u.data) = BytesOf(rx.data) \union (head .. tail - 1)
          /\ rx.next <= u.next
          /\ u.gotFin = rx.gotFin /\ u.fin = rx.fin
      <4>1. Storable(rx, seq, len, head, tail) /\ head \in Nat /\ tail \in Nat
        BY <2>1, <1>6, <1>8 DEF Storable
      <4>2. Stored(rx, r, n, head, tail, u)
        BY <4>1, StoreIs
      <4> HIDE DEF u
      <4> QED BY <4>2 DEF Stored
    <3>2. t = u
      BY <2>1, <1>5
    <3> HIDE DEF u
    <3> QED BY <2>1, <3>1, <3>2
  <2>2. CASE ~(head < tail)
    BY <2>2, <1>1, <1>5
  <2> QED BY <2>1, <2>2
<1>10. ASSUME seq + len <= r + MaxBuffer, NEW b \in seq .. seq + len - 1,
              ~(b < r), b \notin BytesOf(rx.data)
       PROVE  b \in BytesOf(t.data)
  <2>1. b \in Nat /\ r <= b /\ b < within
    BY <1>1, <1>7, <1>10
  <2>2. rx.next <= b
    <3>1. b <= n - 1 /\ ~(b \in r .. r + rx.avail - 1)
      BY <1>10 DEF InOrderBuffer
    <3> QED BY <3>1, <2>1 DEF InOrderBuffer
  <2>3. from <= b
    BY <2>1, <2>2, <1>10 DEF from, MaxOf
  <2>4. head <= b
    BY <2>1, <2>3, <1>3, <1>6, <1>10
  <2>5. b < tail
    BY <2>1, <1>7, <1>8, <1>10
  <2> QED BY <2>1, <2>4, <2>5, <1>6, <1>8, <1>9
<1> QED BY <1>9, <1>10 DEF t, Added

-----------------------------------------------------------------------------
(***************************************************************************)
(* SetFinSequence.                                                         *)
(***************************************************************************)
\* A FIN leaves the buffer in order if no byte from its place on is missing; only
\* at the end of the stream does it move m_nextRxSeq.
LEMMA SetFinSequenceIs ==
    ASSUME NEW n \in Nat, NEW r, NEW rx, InOrderBuffer(rx, r, n),
           NEW s \in 0 .. n, \A b \in s .. n - 1 : b < r \/ b \in BytesOf(rx.data)
    PROVE  /\ InOrderBuffer(SetFinSequence(rx, s), r, n)
           /\ SetFinSequence(rx, s).data = rx.data
           /\ rx.next <= SetFinSequence(rx, s).next
           /\ SetFinSequence(rx, s).gotFin /\ SetFinSequence(rx, s).fin = s
<1> DEFINE t == SetFinSequence(rx, s)
<1>1. /\ DOMAIN t = Fields /\ t.data = rx.data /\ t.avail = rx.avail
      /\ t.gotFin = TRUE /\ t.fin = s
      /\ t.next = IF rx.next = s THEN rx.next + 1 ELSE rx.next
  BY DEF SetFinSequence, InOrderBuffer, Fields
<1> HIDE DEF t
<1>2. /\ r \in Nat /\ rx.avail \in Nat /\ r + rx.avail <= n
      /\ rx.next = r + rx.avail \/ (rx.next = n + 1 /\ r + rx.avail = n)
      /\ r + rx.avail \notin BytesOf(rx.data)
  BY DEF InOrderBuffer
<1>3. rx.next = s => s = n /\ r + rx.avail = n
  BY <1>2
<1>4. t.next = r + rx.avail \/ (t.next = n + 1 /\ r + rx.avail = n)
  BY <1>1, <1>2, <1>3
<1>5. rx.next <= t.next
  BY <1>1, <1>2
<1>6. InOrderBuffer(t, r, n)
  BY <1>1, <1>4 DEF InOrderBuffer
<1> QED BY <1>1, <1>5, <1>6 DEF t

-----------------------------------------------------------------------------
(***************************************************************************)
(* Extract.                                                                *)
(***************************************************************************)
LEMMA ByteAtIs ==
    ASSUME NEW n \in Nat, NEW data, Placed(data, n), NEW b \in BytesOf(data)
    PROVE  ByteAt(data, b) = b
<1> DEFINE At(h) == h \in DOMAIN data /\ h <= b /\ b < EndOf(data, h)
           g == CHOOSE h \in DOMAIN data : h <= b /\ b < EndOf(data, h)
<1>1. b \in Nat /\ \E h \in DOMAIN data : h <= b /\ b < EndOf(data, h)
  BY BytesType
<1>2. g \in DOMAIN data /\ g <= b /\ b < EndOf(data, g)
  BY <1>1
<1>3. ByteAt(data, b) = data[g][b - g + 1]
  BY DEF ByteAt
<1> HIDE DEF g
<1>4. g \in Nat /\ Len(data[g]) \in Nat
  BY <1>2, LenProperties DEF Placed
<1>5. b - g + 1 \in 1 .. Len(data[g])
  BY <1>1, <1>2, <1>4 DEF EndOf
<1>6. data[g][b - g + 1] = g + (b - g + 1) - 1
  BY <1>2, <1>5 DEF Placed
<1> QED BY <1>1, <1>3, <1>4, <1>6

\* At most one fragment holds a byte.
LEMMA OneHolds ==
    ASSUME NEW n \in Nat, NEW data, Placed(data, n), Apart(data), NEW b \in Nat,
           NEW g \in DOMAIN data, g <= b, b < EndOf(data, g),
           NEW h \in DOMAIN data, h <= b, b < EndOf(data, h)
    PROVE  g = h
<1>1. g \in Nat /\ h \in Nat /\ EndOf(data, g) \in Nat /\ EndOf(data, h) \in Nat
  BY BytesType DEF Placed
<1>2. ~(g < h) /\ ~(h < g)
  BY <1>1 DEF Apart
<1> QED BY <1>1, <1>2

LEMMA FragmentIs ==
    ASSUME NEW S, NEW p \in Seq(S), NEW start \in Nat, NEW length \in Nat,
           start + length <= Len(p)
    PROVE  /\ Fragment(p, start, length) \in Seq(S)
           /\ Len(Fragment(p, start, length)) = length
           /\ \A i \in 1 .. length : Fragment(p, start, length)[i] = p[start + i]
<1> DEFINE f == Fragment(p, start, length)
           lo == start + 1
           hi == start + length
<1>1. f = SubSeq(p, lo, hi)
  BY DEF Fragment
<1>2. Len(p) \in Nat /\ lo \in Int /\ hi \in Int /\ hi - lo + 1 = length
  BY LenProperties
<1>3. \A i \in lo .. hi : p[i] \in S
  BY <1>2, ElementOfSeq
<1>4. /\ f \in Seq(S)
      /\ Len(f) = IF lo <= hi THEN hi - lo + 1 ELSE 0
      /\ \A i \in 1 .. hi - lo + 1 : f[i] = p[lo + i - 1]
  <2> HIDE DEF f, lo, hi
  <2> QED BY <1>1, <1>2, <1>3, SubSeqProperties
<1>5. Len(f) = length
  BY <1>4
<1>6. \A i \in 1 .. length : f[i] = p[start + i]
  BY <1>4
<1> QED BY <1>4, <1>5, <1>6 DEF f

\* Dropping what lies below b.
LEMMA FromIs ==
    ASSUME NEW n \in Nat, NEW data, Placed(data, n), Apart(data), NEW b \in Nat
    PROVE  /\ Placed(From(data, b), n) /\ Apart(From(data, b))
           /\ \A x : x \in BytesOf(From(data, b)) <=> x \in BytesOf(data) /\ b <= x
<1> DEFINE Kept == {i \in DOMAIN data : EndOf(data, i) > b}
           d == From(data, b)
<1>1. \A h \in DOMAIN data :
          /\ h \in Nat /\ EndOf(data, h) \in Nat /\ h < EndOf(data, h)
          /\ EndOf(data, h) = h + Len(data[h]) /\ Len(data[h]) \in Nat
          /\ data[h] \in Seq(0 .. n - 1)
          /\ \A i \in 1 .. Len(data[h]) : data[h][i] = h + i - 1
  BY BytesType, LenProperties DEF Placed, EndOf
<1>2. DOMAIN d = {MaxOf(h, b) : h \in Kept}
  BY DEF From
<1>3. ASSUME NEW g \in Kept
      PROVE  LET k == MaxOf(g, b)
             IN  /\ k \in DOMAIN d /\ k \in Nat /\ g <= k /\ b <= k
                 /\ k < EndOf(data, g) /\ EndOf(d, k) = EndOf(data, g)
                 /\ d[k] \in Seq(0 .. n - 1) /\ Len(d[k]) > 0
                 /\ \A i \in 1 .. Len(d[k]) : d[k][i] = k + i - 1
  <2> DEFINE k == MaxOf(g, b)
  <2>1. k \in DOMAIN d
    BY <1>2
  <2>2. k \in Nat /\ g <= k /\ b <= k /\ k < EndOf(data, g) /\ (k = g \/ (k = b /\ g < b))
    BY <1>1 DEF MaxOf
  <2>3. d[k] = IF k \in DOMAIN data THEN data[k]
               ELSE LET h == CHOOSE h \in DOMAIN data : h < k /\ k < EndOf(data, h)
                    IN  Fragment(data[h], k - h, EndOf(data, h) - k)
    BY <2>1, <1>2 DEF From
  <2> HIDE DEF k, d
  <2>4. CASE k \in DOMAIN data
    <3>1. k = g
      BY <2>2, <2>4, <1>1, OneHolds
    <3> QED BY <3>1, <2>1, <2>2, <2>3, <2>4, <1>1 DEF k, EndOf
  <2>5. CASE k \notin DOMAIN data
    <3> DEFINE h == CHOOSE h \in DOMAIN data : h < k /\ k < EndOf(data, h)
    <3>1. g < k
      BY <2>2, <2>5, <1>1
    <3>2. h \in DOMAIN data /\ h < k /\ k < EndOf(data, h)
      BY <3>1, <2>2
    <3>3. d[k] = Fragment(data[h], k - h, EndOf(data, h) - k)
      BY <2>3, <2>5
    <3> HIDE DEF h
    <3>4. h = g
      <4>1. h <= k /\ g <= k
        BY <3>1, <3>2, <2>2, <1>1
      <4> QED BY <4>1, <3>2, <2>2, OneHolds
    <3> DEFINE start == k - g
               length == EndOf(data, g) - k
    <3>5. /\ start \in Nat /\ length \in Nat /\ start + length <= Len(data[g])
          /\ g \in Nat /\ k = g + start /\ data[g] \in Seq(0 .. n - 1)
          /\ EndOf(data, g) = k + length /\ length > 0 /\ Len(data[g]) \in Nat
      <4>1. /\ g \in Nat /\ EndOf(data, g) \in Nat /\ Len(data[g]) \in Nat
            /\ EndOf(data, g) = g + Len(data[g]) /\ data[g] \in Seq(0 .. n - 1)
        BY <1>1
      <4>2. k \in Nat /\ g <= k /\ k < EndOf(data, g)
        BY <2>2
      <4>3. /\ start \in Nat /\ length \in Nat /\ k = g + start
            /\ EndOf(data, g) = k + length /\ length > 0
        BY <4>1, <4>2
      <4> HIDE DEF start, length
      <4> QED BY <4>1, <4>2, <4>3
    <3> HIDE DEF start, length
    <3>6. /\ d[k] \in Seq(0 .. n - 1) /\ Len(d[k]) = length
          /\ \A i \in 1 .. length : d[k][i] = data[g][start + i]
      <4>1. d[k] = Fragment(data[g], start, length)
        BY <3>3, <3>4 DEF start, length
      <4> QED BY <4>1, <3>5, FragmentIs
    <3>7. EndOf(d, k) = EndOf(data, g)
      BY <3>5, <3>6 DEF EndOf
    <3>8. ASSUME NEW i \in 1 .. Len(d[k]) PROVE d[k][i] = k + i - 1
      <4>1. start + i \in 1 .. Len(data[g])
        BY <3>5, <3>6
      <4>2. data[g][start + i] = g + (start + i) - 1
        BY <4>1, <1>1
      <4> QED BY <4>2, <3>5, <3>6
    <3>9. Len(d[k]) > 0
      BY <3>5, <3>6
    <3> QED BY <2>1, <2>2, <3>6, <3>7, <3>8, <3>9 DEF k
  <2> QED BY <2>4, <2>5
<1> HIDE DEF d
<1>4. \A k \in DOMAIN d : \E g \in Kept : k = MaxOf(g, b)
  BY <1>2
<1>5. Placed(d, n)
  BY <1>3, <1>4 DEF Placed
<1>6. ASSUME NEW k \in DOMAIN d, NEW l \in DOMAIN d, k < l
      PROVE  EndOf(d, k) <= l
  <2>1. PICK g \in Kept : k = MaxOf(g, b)
    BY <1>4
  <2>2. PICK h \in Kept : l = MaxOf(h, b)
    BY <1>4
  <2>3. g < h /\ h \in Nat /\ g \in Nat /\ l \in Nat /\ h <= l
    BY <2>1, <2>2, <1>1, <1>6 DEF MaxOf
  <2>4. EndOf(data, g) <= h
    BY <2>3 DEF Apart
  <2>5. EndOf(d, k) = EndOf(data, g) /\ EndOf(data, g) \in Nat
    BY <2>1, <1>1, <1>3
  <2> QED BY <2>3, <2>4, <2>5
<1>7. ASSUME NEW x
      PROVE  x \in BytesOf(d) <=> x \in BytesOf(data) /\ b <= x
  <2>1. x \in BytesOf(d) <=> x \in Nat /\ \E k \in DOMAIN d : k <= x /\ x < EndOf(d, k)
    BY <1>5, BytesType
  <2>2. x \in BytesOf(data) <=>
            x \in Nat /\ \E h \in DOMAIN data : h <= x /\ x < EndOf(data, h)
    BY BytesType
  <2>3. ASSUME x \in BytesOf(d) PROVE x \in BytesOf(data) /\ b <= x
    <3>1. PICK k \in DOMAIN d : k <= x /\ x < EndOf(d, k)
      BY <2>1, <2>3
    <3>2. PICK g \in Kept : k = MaxOf(g, b)
      BY <1>4
    <3>3. k \in Nat /\ g <= k /\ b <= k /\ EndOf(d, k) = EndOf(data, g) /\ g \in Nat
      BY <3>2, <1>1, <1>3
    <3>4. x \in Nat
      BY <2>1, <2>3
    <3> QED BY <3>1, <3>3, <3>4, <2>2
  <2>4. ASSUME x \in BytesOf(data), b <= x PROVE x \in BytesOf(d)
    <3>1. PICK g \in DOMAIN data : g <= x /\ x < EndOf(data, g)
      BY <2>2, <2>4
    <3>2. x \in Nat
      BY <2>2, <2>4
    <3>3. g \in Kept
      BY <3>1, <3>2, <2>4, <1>1
    <3>4. MaxOf(g, b) \in DOMAIN d /\ EndOf(d, MaxOf(g, b)) = EndOf(data, g)
      BY <3>3, <1>3
    <3>5. MaxOf(g, b) <= x
      BY <3>1, <3>2, <2>4, <1>1 DEF MaxOf
    <3> QED BY <3>1, <3>2, <3>4, <3>5, <2>1
  <2> QED BY <2>3, <2>4
<1>8. Apart(d)
  BY <1>6 DEF Apart
<1> QED BY <1>5, <1>7, <1>8 DEF d

\* A read takes the next k bytes of the stream, no others, and leaves the buffer
\* in order.
Taken(rx, r, n, k, e, t) ==
    /\ k \in Nat /\ r + k <= n /\ k <= rx.avail
    /\ e = Slice(r, k)
    /\ InOrderBuffer(t, r + k, n)
    /\ \A x : x \in BytesOf(t.data) <=> x \in BytesOf(rx.data) /\ r + k <= x
    /\ t.next = rx.next /\ t.gotFin = rx.gotFin /\ t.fin = rx.fin

LEMMA ExtractIs ==
    ASSUME NEW n \in Nat, NEW r, NEW rx, InOrderBuffer(rx, r, n), NEW m \in Nat
    PROVE  Taken(rx, r, n, ExtractSize(rx, m), Extracted(rx, m), Extract(rx, m))
<1> DEFINE k == ExtractSize(rx, m)
           t == Extract(rx, m)
<1>1. /\ Placed(rx.data, n) /\ Apart(rx.data) /\ r \in Nat /\ rx.avail \in Nat
      /\ r + rx.avail <= n
      /\ \A b \in BytesOf(rx.data) : r <= b
      /\ \A b \in r .. r + rx.avail - 1 : b \in BytesOf(rx.data)
  BY DEF InOrderBuffer
<1>2. k \in Nat /\ k <= rx.avail /\ r + k <= n
  BY <1>1 DEF ExtractSize, MinOf
<1>3. \A b \in BytesOf(rx.data) : b \in Nat
  BY <1>1, BytesType
<1>4. k > 0 => Begin(rx.data) = r
  <2>1. SUFFICES ASSUME k > 0 PROVE Begin(rx.data) = r
    OBVIOUS
  <2>2. r \in BytesOf(rx.data)
    BY <2>1, <1>1, <1>2
  <2>3. PICK h \in DOMAIN rx.data : h <= r /\ r < EndOf(rx.data, h)
    BY <2>2, <1>1, BytesType
  <2>4. \A i \in DOMAIN rx.data : i \in Nat /\ r <= i
    BY <1>1, <1>3, BytesType
  <2>5. Begin(rx.data) \in DOMAIN rx.data /\ Begin(rx.data) <= h
    BY <2>3, <1>1, BeginIs
  <2> QED BY <2>3, <2>4, <2>5, <1>1
<1>5. /\ t.data = IF k = 0 THEN rx.data ELSE From(rx.data, r + k)
      /\ DOMAIN t = Fields /\ t.avail = rx.avail - k
      /\ t.next = rx.next /\ t.gotFin = rx.gotFin /\ t.fin = rx.fin
  <2>1. DOMAIN rx = Fields
    BY DEF InOrderBuffer
  <2>2. CASE k = 0
    <3>1. t = rx
      BY <2>2 DEF Extract
    <3> HIDE DEF t
    <3> QED BY <3>1, <2>1, <2>2, <1>1
  <2>3. CASE k # 0
    <3>1. Begin(rx.data) = r
      BY <2>3, <1>2, <1>4
    <3>2. t = [rx EXCEPT !.data = From(rx.data, r + k),
                         !.size = rx.size - k, !.avail = rx.avail - k]
      BY <2>3, <3>1 DEF Extract
    <3> HIDE DEF t, k
    <3> QED BY <3>2, <2>1, <2>3 DEF Fields
  <2> QED BY <2>2, <2>3
<1>6. Extracted(rx, m) = Slice(r, k)
  <2>1. Extracted(rx, m) = [i \in 1 .. k |-> ByteAt(rx.data, Begin(rx.data) + i - 1)]
    BY DEF Extracted
  <2> HIDE DEF k
  <2>2. ASSUME NEW i \in 1 .. k
        PROVE  ByteAt(rx.data, Begin(rx.data) + i - 1) = r + i - 1
    <3>1. Begin(rx.data) = r
      BY <1>2, <1>4
    <3>2. r + i - 1 \in BytesOf(rx.data)
      BY <1>1, <1>2
    <3> QED BY <3>1, <3>2, <1>1, ByteAtIs
  <2> QED BY <2>1, <2>2 DEF Slice
<1> HIDE DEF k, t
<1>7. /\ Placed(t.data, n) /\ Apart(t.data)
      /\ \A x : x \in BytesOf(t.data) <=> x \in BytesOf(rx.data) /\ r + k <= x
  <2>1. CASE k = 0
    BY <2>1, <1>1, <1>5
  <2>2. CASE k # 0
    <3>1. r + k \in Nat
      BY <1>1, <1>2
    <3> QED BY <3>1, <2>2, <1>1, <1>5, FromIs
  <2> QED BY <2>1, <2>2
<1>8. InOrderBuffer(t, r + k, n)
  <2>1. r + k \in Nat /\ t.avail \in Nat /\ (r + k) + t.avail = r + rx.avail
    BY <1>1, <1>2, <1>5
  <2>2. \A b \in BytesOf(t.data) : r + k <= b
    BY <1>7
  <2>3. \A b \in r + k .. r + k + t.avail - 1 : b \in BytesOf(t.data)
    BY <2>1, <1>1, <1>2, <1>7
  <2>4. r + rx.avail \notin BytesOf(t.data)
    BY <1>7 DEF InOrderBuffer
  <2>5. /\ t.gotFin \in BOOLEAN /\ t.fin \in 0 .. n
        /\ t.gotFin => \A b \in t.fin .. n - 1 : b < r + k \/ b \in BytesOf(t.data)
    <3>1. /\ t.gotFin \in BOOLEAN /\ t.fin \in 0 .. n
          /\ t.gotFin => \A b \in t.fin .. n - 1 : b < r \/ b \in BytesOf(rx.data)
      BY <1>5 DEF InOrderBuffer
    <3> QED BY <3>1, <1>1, <1>2, <1>7
  <2>6. /\ r + rx.avail <= n
        /\ t.next = r + rx.avail \/ (t.gotFin /\ t.next = n + 1 /\ r + rx.avail = n)
    BY <1>5 DEF InOrderBuffer
  <2> QED BY <1>5, <1>7, <2>1, <2>2, <2>3, <2>4, <2>5, <2>6 DEF InOrderBuffer
<1> QED BY <1>2, <1>5, <1>6, <1>7, <1>8 DEF k, t, Taken

-----------------------------------------------------------------------------
(***************************************************************************)
(* The SACK list.                                                          *)
(***************************************************************************)
SackBlock == {b \in Nat \X Nat : b[1] < b[2]}

InBlock(b, block) == block[1] <= b /\ b < block[2]

\* Some block of the list reports byte b.
Reports(list, b) == \E i \in DOMAIN list : InBlock(b, list[i])

LEMMA RemoveAtIs ==
    ASSUME NEW S, NEW list \in Seq(S), NEW i \in 1 .. Len(list)
    PROVE  /\ RemoveAt(list, i) \in Seq(S) /\ Len(RemoveAt(list, i)) = Len(list) - 1
           /\ \A j \in 1 .. Len(list) - 1 :
                  RemoveAt(list, i)[j] = IF j < i THEN list[j] ELSE list[j + 1]
<1> DEFINE n == Len(list)
           a == SubSeq(list, 1, i - 1)
           z == SubSeq(list, i + 1, n)
<1>1. n \in Nat /\ \A j \in 1 .. n : list[j] \in S
  BY LenProperties
<1>2. /\ a \in Seq(S) /\ Len(a) = i - 1
      /\ \A j \in 1 .. i - 1 : a[j] = list[j]
  <2>1. \A j \in 1 .. i - 1 : list[j] \in S
    BY <1>1
  <2>2. 1 \in Int /\ i - 1 \in Int
    OBVIOUS
  <2>3. /\ a \in Seq(S) /\ Len(a) = IF 1 <= i - 1 THEN i - 1 - 1 + 1 ELSE 0
        /\ \A j \in 1 .. i - 1 - 1 + 1 : a[j] = list[1 + j - 1]
    BY <2>1, <2>2, SubSeqProperties
  <2> HIDE DEF a
  <2> QED BY <2>3
<1>3. /\ z \in Seq(S) /\ Len(z) = n - i
      /\ \A j \in 1 .. n - i : z[j] = list[i + j]
  <2>1. \A j \in i + 1 .. n : list[j] \in S
    BY <1>1
  <2>2. i + 1 \in Int /\ n \in Int
    BY <1>1
  <2> HIDE DEF n
  <2>3. /\ z \in Seq(S) /\ Len(z) = IF i + 1 <= n THEN n - (i + 1) + 1 ELSE 0
        /\ \A j \in 1 .. n - (i + 1) + 1 : z[j] = list[(i + 1) + j - 1]
    BY <2>1, <2>2, SubSeqProperties
  <2>4. i <= n
    BY DEF n
  <2> HIDE DEF z
  <2>5. Len(z) = n - i
    BY <2>3, <2>4, <1>1
  <2>6. ASSUME NEW j \in 1 .. n - i PROVE z[j] = list[i + j]
    <3>1. j \in 1 .. n - (i + 1) + 1 /\ (i + 1) + j - 1 = i + j
      BY <1>1
    <3> QED BY <3>1, <2>3
  <2> QED BY <2>3, <2>5, <2>6
<1>4. RemoveAt(list, i) = a \o z
  BY DEF RemoveAt
<1> HIDE DEF a, z
<1>5. /\ a \o z \in Seq(S) /\ Len(a \o z) = Len(a) + Len(z)
      /\ \A j \in 1 .. Len(a) + Len(z) : (a \o z)[j] = IF j <= Len(a) THEN a[j] ELSE z[j - Len(a)]
  BY <1>2, <1>3, ConcatProperties
<1>6. i <= n /\ Len(a) + Len(z) = n - 1
  BY <1>1, <1>2, <1>3
<1> HIDE DEF n
<1>7. ASSUME NEW j \in 1 .. n - 1
      PROVE  (a \o z)[j] = IF j < i THEN list[j] ELSE list[j + 1]
  <2>1. CASE j < i
    BY <2>1, <1>1, <1>2, <1>5, <1>6
  <2>2. CASE ~(j < i)
    <3>1. j - (i - 1) \in 1 .. n - i /\ i + (j - (i - 1)) = j + 1 /\ ~(j <= i - 1)
      BY <2>2, <1>1, <1>6
    <3> QED BY <3>1, <2>2, <1>2, <1>3, <1>5, <1>6
  <2> QED BY <2>1, <2>2
<1> QED BY <1>4, <1>5, <1>6, <1>7 DEF n

\* A front block and the other blocks, between two merges: they report byte b.
Accumulator == SackBlock \X Seq(SackBlock)
Tells(acc, b) == InBlock(b, acc[1]) \/ Reports(acc[2], b)

\* A merge loses nothing and adds nothing to what is reported.
LEMMA MergeOneIs ==
    ASSUME NEW front \in SackBlock, NEW rest \in Seq(SackBlock),
           Touching(front, rest) # {}
    PROVE  /\ MergeOne(front, rest) \in Accumulator
           /\ Len(MergeOne(front, rest)[2]) = Len(rest) - 1
           /\ \A b \in Nat : Tells(MergeOne(front, rest), b)
                                <=> InBlock(b, front) \/ Reports(rest, b)
<1> DEFINE i == Min(Touching(front, rest))
           block == rest[i]
           left == block[2] = front[1]
           new == IF left THEN <<block[1], front[2]>> ELSE <<front[1], block[2]>>
           less == RemoveAt(rest, i)
<1>1. /\ Len(rest) \in Nat /\ DOMAIN rest = 1 .. Len(rest)
      /\ \A j \in 1 .. Len(rest) : rest[j] \in SackBlock
  BY LenProperties
<1>2. i \in Touching(front, rest)
  <2>1. Touching(front, rest) \subseteq Nat
    BY <1>1 DEF Touching
  <2> QED BY <2>1, MinIsLeast
<1>3. /\ i \in 1 .. Len(rest) /\ block \in SackBlock
      /\ block[2] = front[1] \/ front[2] = block[1]
  BY <1>1, <1>2 DEF Touching
<1>4. /\ less \in Seq(SackBlock) /\ Len(less) = Len(rest) - 1
      /\ \A j \in 1 .. Len(rest) - 1 : less[j] = IF j < i THEN rest[j] ELSE rest[j + 1]
  <2> HIDE DEF i
  <2> QED BY <1>3, RemoveAtIs
<1>5. MergeOne(front, rest) = <<new, less>>
  BY DEF MergeOne
<1> HIDE DEF less
<1>6. /\ new \in SackBlock
      /\ \A b \in Nat : InBlock(b, new) <=> InBlock(b, front) \/ InBlock(b, block)
  <2> HIDE DEF block
  <2>1. /\ front[1] \in Nat /\ front[2] \in Nat /\ front[1] < front[2]
        /\ block[1] \in Nat /\ block[2] \in Nat /\ block[1] < block[2]
    BY <1>3 DEF SackBlock
  <2>2. CASE left
    <3>1. new = <<block[1], front[2]>>
      BY <2>2
    <3>2. new[1] = block[1] /\ new[2] = front[2] /\ new \in Nat \X Nat
      BY <3>1, <2>1
    <3> HIDE DEF new
    <3> QED BY <2>1, <2>2, <3>2 DEF SackBlock, InBlock
  <2>3. CASE ~left
    <3>1. new = <<front[1], block[2]>>
      BY <2>3
    <3>2. new[1] = front[1] /\ new[2] = block[2] /\ new \in Nat \X Nat
      BY <3>1, <2>1
    <3> HIDE DEF new
    <3> QED BY <2>1, <2>3, <1>3, <3>2 DEF SackBlock, InBlock
  <2> QED BY <2>2, <2>3
<1> HIDE DEF new
<1>7. ASSUME NEW b \in Nat
      PROVE  Reports(rest, b) <=> InBlock(b, block) \/ Reports(less, b)
  <2>0. DOMAIN less = 1 .. Len(rest) - 1
    BY <1>4, LenProperties
  <2>1. ASSUME NEW j \in 1 .. Len(rest), InBlock(b, rest[j])
        PROVE  InBlock(b, block) \/ Reports(less, b)
    <3>1. CASE j = i
      BY <3>1, <2>1
    <3>2. CASE j < i
      <4>1. j \in 1 .. Len(rest) - 1 /\ less[j] = rest[j]
        BY <3>2, <1>1, <1>3, <1>4
      <4> QED BY <4>1, <2>0, <2>1 DEF Reports
    <3>3. CASE j > i
      <4>1. j - 1 \in 1 .. Len(rest) - 1 /\ less[j - 1] = rest[j]
        <5>1. j - 1 \in 1 .. Len(rest) - 1 /\ ~(j - 1 < i) /\ (j - 1) + 1 = j
          BY <3>3, <1>1, <1>3
        <5> HIDE DEF i
        <5>2. less[j - 1] = rest[(j - 1) + 1]
          BY <5>1, <1>4
        <5> QED BY <5>1, <5>2
      <4> QED BY <4>1, <2>0, <2>1 DEF Reports
    <3> QED BY <3>1, <3>2, <3>3, <1>3
  <2>2. ASSUME NEW j \in 1 .. Len(rest) - 1, InBlock(b, less[j])
        PROVE  Reports(rest, b)
    <3>1. j \in 1 .. Len(rest) /\ j + 1 \in 1 .. Len(rest)
      BY <1>1
    <3>2. less[j] = rest[j] \/ less[j] = rest[j + 1]
      BY <1>4
    <3> QED BY <3>1, <3>2, <2>2, <1>1 DEF Reports
  <2>3. InBlock(b, block) => Reports(rest, b)
    BY <1>1, <1>3 DEF Reports
  <2> QED BY <2>0, <2>1, <2>2, <2>3, <1>1 DEF Reports
<1> HIDE DEF block, i
<1>8. <<new, less>> \in Accumulator /\ <<new, less>>[1] = new /\ <<new, less>>[2] = less
  BY <1>4, <1>6 DEF Accumulator
<1>9. \A b \in Nat : Tells(<<new, less>>, b) <=> InBlock(b, front) \/ Reports(rest, b)
  BY <1>6, <1>7, <1>8 DEF Tells
<1> QED BY <1>4, <1>5, <1>8, <1>9

LEMMA MergeAnyIs ==
    ASSUME NEW acc \in Accumulator
    PROVE  /\ MergeAny(acc) \in Accumulator
           /\ Len(MergeAny(acc)[2]) <= Len(acc[2])
           /\ \A b \in Nat : Tells(MergeAny(acc), b) <=> Tells(acc, b)
<1>1. acc[1] \in SackBlock /\ acc[2] \in Seq(SackBlock)
  BY DEF Accumulator
<1>2. Len(acc[2]) \in Nat
  BY <1>1, LenProperties
<1>3. CASE Touching(acc[1], acc[2]) = {}
  <2>1. MergeAny(acc) = acc
    BY <1>3 DEF MergeAny
  <2> QED BY <2>1, <1>2
<1>4. CASE Touching(acc[1], acc[2]) # {}
  <2>1. MergeAny(acc) = MergeOne(acc[1], acc[2])
    BY <1>4 DEF MergeAny
  <2>2. /\ MergeOne(acc[1], acc[2]) \in Accumulator
        /\ Len(MergeOne(acc[1], acc[2])[2]) = Len(acc[2]) - 1
        /\ \A b \in Nat : Tells(MergeOne(acc[1], acc[2]), b)
                             <=> InBlock(b, acc[1]) \/ Reports(acc[2], b)
    BY <1>1, <1>4, MergeOneIs
  <2> QED BY <1>2, <2>1, <2>2 DEF Tells
<1> QED BY <1>3, <1>4

\* All the merges of UpdateSackList.
Merging(f, list, head, tail) ==
    f = [n \in 0 .. Len(list) |->
            IF n = 0 THEN <<<<head, tail>>, list>> ELSE MergeAny(f[n - 1])]

LEMMA MergingExists ==
    ASSUME NEW list \in Seq(SackBlock), NEW head, NEW tail, <<head, tail>> \in SackBlock
    PROVE  \E f : Merging(f, list, head, tail)
<1> DEFINE n == Len(list)
           first == <<<<head, tail>>, list>>
           M == [acc \in Accumulator |-> MergeAny(acc)]
           F == [k \in 1 .. n |-> M]
<1>1. n \in Nat
  BY LenProperties
<1>2. first \in Accumulator
  BY DEF Accumulator
<1>3. M \in [Accumulator -> Accumulator]
  BY MergeAnyIs
<1>4. StepsIn(F, Accumulator, n)
  <2> HIDE DEF M
  <2> QED BY <1>3 DEF StepsIn
<1>5a. \E f : Follows(f, F, Accumulator, first, n)
  <2> HIDE DEF first, F, n, M
  <2> QED BY <1>1, <1>2, <1>4, Recursion
<1>5. PICK f \in [0 .. n -> Accumulator] :
          f[0] = first /\ \A k \in 1 .. n : f[k] = F[k][f[k - 1]]
  <2> HIDE DEF first, F, n, M
  <2> QED BY <1>5a DEF Follows
<1>6. ASSUME NEW k \in 0 .. n
      PROVE  f[k] = IF k = 0 THEN first ELSE MergeAny(f[k - 1])
  <2>1. CASE k = 0
    BY <2>1, <1>5
  <2>2. CASE k # 0
    <3>1. k \in 1 .. n /\ k - 1 \in 0 .. n
      BY <2>2, <1>1
    <3>2. f[k - 1] \in Accumulator
      BY <3>1, <1>5
    <3>3. f[k] = F[k][f[k - 1]]
      BY <3>1, <1>5
    <3>4. F[k] = M
      BY <3>1
    <3>5. M[f[k - 1]] = MergeAny(f[k - 1])
      BY <3>2
    <3> QED BY <2>2, <3>3, <3>4, <3>5
  <2> QED BY <2>1, <2>2
<1>7. f = [k \in 0 .. n |-> f[k]]
  BY <1>5
<1>8. f = [k \in 0 .. n |-> IF k = 0 THEN first ELSE MergeAny(f[k - 1])]
  <2> HIDE DEF first
  <2> QED BY <1>6, <1>7
<1> QED BY <1>8 DEF Merging

\* A new block joins the list: the list keeps what it reported and reports the
\* block, unless it was full, and never reports anything else.
Updated(list, head, tail, new) ==
    /\ new \in Seq(SackBlock) /\ Len(new) <= SackListMax
    /\ \A b \in Nat : Reports(new, b) => Reports(list, b) \/ (head <= b /\ b < tail)
    /\ Len(list) < SackListMax =>
           \A b \in Nat : Reports(list, b) \/ (head <= b /\ b < tail) => Reports(new, b)

LEMMA UpdateSackListIs ==
    ASSUME NEW list \in Seq(SackBlock), NEW head \in Nat, NEW tail \in Nat, head < tail
    PROVE  Updated(list, head, tail, UpdateSackList(list, head, tail))
<1> DEFINE n == Len(list)
           first == <<<<head, tail>>, list>>
           f == CHOOSE f : Merging(f, list, head, tail)
           acc == f[n]
           whole == <<acc[1]>> \o acc[2]
           new == UpdateSackList(list, head, tail)
<1>1. n \in Nat /\ SackListMax \in Nat /\ SackListMax > 0
  BY LenProperties, RxBufferAssumption
<1>2. <<head, tail>> \in SackBlock /\ first \in Accumulator
  BY DEF SackBlock, Accumulator
<1>3. Merging(f, list, head, tail)
  BY <1>2, MergingExists
<1>4. new = Shortened(whole)
  BY DEF UpdateSackList, Merging
<1> DEFINE Fine(a) == /\ a \in Accumulator /\ Len(a[2]) <= n
                      /\ \A b \in Nat : Tells(a, b)
                                <=> Reports(list, b) \/ (head <= b /\ b < tail)
           T == {k \in Nat : k <= n => Fine(f[k])}
<1> HIDE DEF f
<1>5. 0 \in T
  <2>1. f[0] = first
    BY <1>1, <1>3 DEF Merging
  <2>2. first[1] = <<head, tail>> /\ first[2] = list
    OBVIOUS
  <2>3. \A b : InBlock(b, <<head, tail>>) <=> head <= b /\ b < tail
    BY DEF InBlock
  <2>4. \A b \in Nat : Tells(first, b) <=> Reports(list, b) \/ (head <= b /\ b < tail)
    BY <2>2, <2>3 DEF Tells
  <2>5. Fine(first)
    <3> HIDE DEF first
    <3> QED BY <2>2, <2>4, <1>1, <1>2
  <2> QED BY <2>1, <2>5
<1>6. ASSUME NEW k \in Nat, k \in T PROVE k + 1 \in T
  <2>1. ASSUME k + 1 <= n PROVE Fine(f[k + 1])
    <3>1. Fine(f[k])
      BY <2>1, <1>1, <1>6
    <3>2. k + 1 \in 0 .. n /\ k + 1 # 0 /\ (k + 1) - 1 = k
      BY <2>1, <1>1
    <3>3. f[k + 1] = MergeAny(f[k])
      BY <3>2, <1>3 DEF Merging
    <3>4. /\ MergeAny(f[k]) \in Accumulator /\ Len(MergeAny(f[k])[2]) <= Len(f[k][2])
          /\ \A b \in Nat : Tells(MergeAny(f[k]), b) <=> Tells(f[k], b)
      BY <3>1, MergeAnyIs
    <3>5. MergeAny(f[k])[2] \in Seq(SackBlock) /\ f[k][2] \in Seq(SackBlock)
      BY <3>1, <3>4 DEF Accumulator
    <3>6. Len(MergeAny(f[k])[2]) \in Nat /\ Len(f[k][2]) \in Nat
      BY <3>5, LenProperties
    <3> QED BY <3>1, <3>3, <3>4, <3>6, <1>1
  <2> HIDE DEF Fine
  <2> QED BY <2>1
<1>7. Fine(acc)
  <2>1. n \in T
    <3> HIDE DEF T
    <3> QED BY <1>1, <1>5, <1>6, Induction
  <2> HIDE DEF Fine
  <2> QED BY <2>1, <1>1
<1>8. /\ acc[1] \in SackBlock /\ acc[2] \in Seq(SackBlock) /\ Len(acc[2]) <= n
      /\ \A b \in Nat : InBlock(b, acc[1]) \/ Reports(acc[2], b)
                            <=> Reports(list, b) \/ (head <= b /\ b < tail)
  BY <1>7 DEF Accumulator, Tells
<1> HIDE DEF Fine, T
<1>9. /\ whole \in Seq(SackBlock) /\ Len(whole) = Len(acc[2]) + 1
      /\ whole[1] = acc[1] /\ \A j \in 1 .. Len(acc[2]) : whole[j + 1] = acc[2][j]
      /\ Len(acc[2]) \in Nat
  <2> DEFINE front == <<acc[1]>>
             rest == acc[2]
  <2>1. front \in Seq(SackBlock) /\ Len(front) = 1 /\ front[1] = acc[1]
    BY <1>8
  <2>2. rest \in Seq(SackBlock) /\ Len(rest) \in Nat
    BY <1>8, LenProperties
  <2>3. whole = front \o rest
    OBVIOUS
  <2> HIDE DEF front, rest, whole
  <2>4. /\ whole \in Seq(SackBlock) /\ Len(whole) = 1 + Len(rest)
        /\ \A i \in 1 .. 1 + Len(rest) : whole[i] = IF i <= 1 THEN front[i] ELSE rest[i - 1]
    <3>1. /\ front \o rest \in Seq(SackBlock) /\ Len(front \o rest) = Len(front) + Len(rest)
          /\ \A i \in 1 .. Len(front) + Len(rest) :
                 (front \o rest)[i] = IF i <= Len(front) THEN front[i] ELSE rest[i - Len(front)]
      BY <2>1, <2>2, ConcatProperties
    <3> QED BY <3>1, <2>1, <2>3
  <2>5. ASSUME NEW j \in 1 .. Len(rest) PROVE whole[j + 1] = rest[j]
    <3>1. j + 1 \in 1 .. 1 + Len(rest) /\ ~(j + 1 <= 1) /\ (j + 1) - 1 = j
      BY <2>2
    <3> QED BY <3>1, <2>4
  <2>6. whole[1] = acc[1]
    BY <2>1, <2>2, <2>4
  <2> QED BY <2>2, <2>4, <2>5, <2>6 DEF rest
<1> HIDE DEF whole, acc, new
<1>10. DOMAIN whole = 1 .. Len(acc[2]) + 1 /\ DOMAIN acc[2] = 1 .. Len(acc[2])
  BY <1>8, <1>9, LenProperties
<1>11. ASSUME NEW b \in Nat
       PROVE  Reports(whole, b) <=> Reports(list, b) \/ (head <= b /\ b < tail)
  <2>1. Reports(whole, b) => InBlock(b, acc[1]) \/ Reports(acc[2], b)
    <3> SUFFICES ASSUME NEW i \in 1 .. Len(acc[2]) + 1, InBlock(b, whole[i]), i # 1
                 PROVE  Reports(acc[2], b)
      BY <1>9, <1>10 DEF Reports
    <3>1. i - 1 \in 1 .. Len(acc[2]) /\ (i - 1) + 1 = i
      BY <1>9
    <3>2. whole[i] = acc[2][i - 1]
      BY <3>1, <1>9
    <3> QED BY <3>1, <3>2, <1>10 DEF Reports
  <2>2. InBlock(b, acc[1]) => Reports(whole, b)
    <3>1. 1 \in DOMAIN whole
      BY <1>9, <1>10
    <3> QED BY <3>1, <1>9 DEF Reports
  <2>3. Reports(acc[2], b) => Reports(whole, b)
    <3> SUFFICES ASSUME NEW j \in 1 .. Len(acc[2]), InBlock(b, acc[2][j])
                 PROVE  Reports(whole, b)
      BY <1>10 DEF Reports
    <3>1. j + 1 \in DOMAIN whole /\ whole[j + 1] = acc[2][j]
      BY <1>9, <1>10
    <3> QED BY <3>1 DEF Reports
  <2> QED BY <2>1, <2>2, <2>3, <1>8
<1> DEFINE m == MinOf(Len(whole), SackListMax)
<1>12. /\ m \in Nat /\ 1 <= m /\ m <= Len(whole) /\ m <= SackListMax
       /\ n < SackListMax => m = Len(whole)
  BY <1>1, <1>8, <1>9 DEF MinOf
<1>13. /\ new \in Seq(SackBlock) /\ Len(new) = m
       /\ \A i \in 1 .. m : new[i] = whole[i]
  <2>1. new = SubSeq(whole, 1, m)
    BY <1>4 DEF Shortened
  <2> HIDE DEF m
  <2>2. \A i \in 1 .. m : whole[i] \in SackBlock
    BY <1>9, <1>12, LenProperties
  <2>3. 1 \in Int /\ m \in Int /\ m - 1 + 1 = m /\ 1 <= m
    BY <1>12
  <2>4. /\ SubSeq(whole, 1, m) \in Seq(SackBlock)
        /\ Len(SubSeq(whole, 1, m)) = IF 1 <= m THEN m - 1 + 1 ELSE 0
        /\ \A i \in 1 .. m - 1 + 1 : SubSeq(whole, 1, m)[i] = whole[1 + i - 1]
    BY <2>2, <2>3, SubSeqProperties
  <2>5. ASSUME NEW i \in 1 .. m PROVE SubSeq(whole, 1, m)[i] = whole[i]
    <3>1. i \in 1 .. m - 1 + 1 /\ 1 + i - 1 = i
      BY <2>3
    <3> QED BY <3>1, <2>4
  <2> QED BY <2>1, <2>3, <2>4, <2>5
<1> HIDE DEF m
<1>14. DOMAIN new = 1 .. m /\ DOMAIN whole = 1 .. Len(whole)
  BY <1>9, <1>13, LenProperties
<1>15. \A b : Reports(new, b) => Reports(whole, b)
  BY <1>9, <1>12, <1>13, <1>14 DEF Reports
<1>16. n < SackListMax => \A b : Reports(whole, b) => Reports(new, b)
  BY <1>12, <1>13, <1>14 DEF Reports
<1>17. /\ \A b \in Nat : Reports(new, b) => Reports(list, b) \/ (head <= b /\ b < tail)
       /\ n < SackListMax =>
           \A b \in Nat : Reports(list, b) \/ (head <= b /\ b < tail) => Reports(new, b)
  BY <1>11, <1>15, <1>16
<1> QED BY <1>12, <1>13, <1>17 DEF Updated, new

\* One more block at the end.
LEMMA AppendReports ==
    ASSUME NEW list \in Seq(SackBlock), NEW block \in SackBlock
    PROVE  /\ Append(list, block) \in Seq(SackBlock)
           /\ Len(Append(list, block)) = Len(list) + 1
           /\ \A b : Reports(Append(list, block), b) <=> Reports(list, b) \/ InBlock(b, block)
<1> DEFINE t == Append(list, block)
<1>1. /\ t \in Seq(SackBlock) /\ Len(t) = Len(list) + 1
      /\ \A i \in 1 .. Len(list) : t[i] = list[i]
      /\ t[Len(list) + 1] = block
  BY AppendProperties
<1> HIDE DEF t
<1>2. Len(list) \in Nat /\ DOMAIN list = 1 .. Len(list) /\ DOMAIN t = 1 .. Len(list) + 1
  BY <1>1, LenProperties
<1>3. ASSUME NEW b PROVE Reports(t, b) <=> Reports(list, b) \/ InBlock(b, block)
  <2>1. ASSUME Reports(t, b) PROVE Reports(list, b) \/ InBlock(b, block)
    <3>1. PICK i \in 1 .. Len(list) + 1 : InBlock(b, t[i])
      BY <2>1, <1>2 DEF Reports
    <3>2. CASE i = Len(list) + 1
      BY <3>1, <3>2, <1>1
    <3>3. CASE i # Len(list) + 1
      <4>1. i \in 1 .. Len(list)
        BY <3>3, <1>2
      <4> QED BY <4>1, <3>1, <1>1, <1>2 DEF Reports
    <3> QED BY <3>2, <3>3
  <2>2. ASSUME Reports(list, b) PROVE Reports(t, b)
    <3>1. PICK i \in 1 .. Len(list) : InBlock(b, list[i])
      BY <2>2, <1>2 DEF Reports
    <3>2. i \in DOMAIN t /\ t[i] = list[i]
      BY <1>1, <1>2
    <3> QED BY <3>1, <3>2 DEF Reports
  <2>3. ASSUME InBlock(b, block) PROVE Reports(t, b)
    <3>1. Len(list) + 1 \in DOMAIN t
      BY <1>2
    <3> QED BY <3>1, <2>3, <1>1 DEF Reports
  <2> QED BY <2>1, <2>2, <2>3
<1> QED BY <1>1, <1>3 DEF t

\* The blocks ClearSackList has kept of the first n.
Keeping(f, list, seq) ==
    f = [n \in 0 .. Len(list) |->
            IF n = 0 THEN <<>>
            ELSE IF list[n][2] > seq THEN Append(f[n - 1], list[n]) ELSE f[n - 1]]

LEMMA KeepingExists ==
    ASSUME NEW list \in Seq(SackBlock), NEW seq
    PROVE  \E f : Keeping(f, list, seq)
<1> DEFINE n == Len(list)
           S == Seq(SackBlock)
           M(k) == [q \in S |-> IF list[k][2] > seq THEN Append(q, list[k]) ELSE q]
           F == [k \in 1 .. n |-> M(k)]
<1>1. n \in Nat /\ \A k \in 1 .. n : list[k] \in SackBlock
  BY LenProperties
<1>2. <<>> \in S
  BY EmptySeq
<1>3. ASSUME NEW k \in 1 .. n PROVE M(k) \in [S -> S]
  <2>1. \A q \in S : Append(q, list[k]) \in S
    BY <1>1, AppendProperties
  <2> QED BY <2>1
<1>4. StepsIn(F, S, n)
  <2> HIDE DEF M, n
  <2> QED BY <1>3 DEF StepsIn
<1>5. \E f : Follows(f, F, S, <<>>, n)
  <2> HIDE DEF F, n, M, S
  <2> QED BY <1>1, <1>2, <1>4, Recursion
<1>6. PICK f \in [0 .. n -> S] :
          f[0] = <<>> /\ \A k \in 1 .. n : f[k] = F[k][f[k - 1]]
  <2> HIDE DEF F, n, M, S
  <2> QED BY <1>5 DEF Follows
<1>7. ASSUME NEW k \in 0 .. n
      PROVE  f[k] = IF k = 0 THEN <<>>
                    ELSE IF list[k][2] > seq THEN Append(f[k - 1], list[k]) ELSE f[k - 1]
  <2>1. CASE k = 0
    BY <2>1, <1>6
  <2>2. CASE k # 0
    <3>1. k \in 1 .. n /\ k - 1 \in 0 .. n
      BY <2>2, <1>1
    <3>2. f[k - 1] \in S
      <4> HIDE DEF S
      <4> QED BY <3>1, <1>6
    <3>3. f[k] = F[k][f[k - 1]]
      BY <3>1, <1>6
    <3>4. F[k] = M(k)
      <4> HIDE DEF M
      <4> QED BY <3>1
    <3>5. M(k)[f[k - 1]] = IF list[k][2] > seq THEN Append(f[k - 1], list[k]) ELSE f[k - 1]
      <4> HIDE DEF S
      <4> QED BY <3>2
    <3> HIDE DEF M, F
    <3> QED BY <2>2, <3>3, <3>4, <3>5
  <2> QED BY <2>1, <2>2
<1>8. f = [k \in 0 .. n |-> f[k]]
  <2> HIDE DEF S, F
  <2> QED BY <1>6
<1>9. f = [k \in 0 .. n |->
              IF k = 0 THEN <<>>
              ELSE IF list[k][2] > seq THEN Append(f[k - 1], list[k]) ELSE f[k - 1]]
  <2> HIDE DEF n, S, F
  <2> QED BY <1>7, <1>8
<1> QED BY <1>9 DEF Keeping

\* The list that is left reports what the blocks that end beyond seq reported.
Cleared(list, seq, new) ==
    /\ new \in Seq(SackBlock) /\ Len(new) <= Len(list)
    /\ \A b \in Nat : Reports(new, b)
           <=> \E i \in DOMAIN list : list[i][2] > seq /\ InBlock(b, list[i])

LEMMA ClearSackListIs ==
    ASSUME NEW list \in Seq(SackBlock), NEW seq
    PROVE  Cleared(list, seq, ClearSackList(list, seq))
<1> DEFINE n == Len(list)
           f == CHOOSE f : Keeping(f, list, seq)
           Rest(b, k) == \E i \in 1 .. k : list[i][2] > seq /\ InBlock(b, list[i])
           Fine(q, k) == /\ q \in Seq(SackBlock) /\ Len(q) <= k
                         /\ \A b \in Nat : Reports(q, b) <=> Rest(b, k)
           T == {k \in Nat : k <= n => Fine(f[k], k)}
<1>1. n \in Nat /\ DOMAIN list = 1 .. n /\ \A k \in 1 .. n : list[k] \in SackBlock
  BY LenProperties
<1>2. Keeping(f, list, seq)
  BY KeepingExists
<1>3. ClearSackList(list, seq) = f[n]
  BY DEF ClearSackList, Keeping
<1> HIDE DEF f
<1>4. 0 \in T
  <2>1. f[0] = <<>>
    BY <1>1, <1>2 DEF Keeping
  <2>2. <<>> \in Seq(SackBlock) /\ Len(<<>>) <= 0 /\ DOMAIN <<>> = {}
    OBVIOUS
  <2>3. \A b : ~Reports(<<>>, b) /\ ~Rest(b, 0)
    BY <2>2 DEF Reports
  <2>4. Fine(<<>>, 0)
    <3> HIDE DEF Rest
    <3> QED BY <2>2, <2>3
  <2> HIDE DEF Fine
  <2> QED BY <2>1, <2>4
<1>5. ASSUME NEW k \in Nat, k \in T PROVE k + 1 \in T
  <2>1. ASSUME k + 1 <= n PROVE Fine(f[k + 1], k + 1)
    <3> DEFINE j == k + 1
    <3>1. Fine(f[k], k)
      BY <2>1, <1>1, <1>5
    <3>2. j \in 1 .. n /\ j # 0 /\ j - 1 = k /\ j \in 0 .. n /\ list[j] \in SackBlock
      BY <2>1, <1>1
    <3>3. f[j] = IF list[j][2] > seq THEN Append(f[k], list[j]) ELSE f[k]
      BY <3>2, <1>2 DEF Keeping
    <3>4. \A b : Rest(b, j) <=> Rest(b, k) \/ (list[j][2] > seq /\ InBlock(b, list[j]))
      <4>1. 1 .. j = (1 .. k) \union {j}
        OBVIOUS
      <4> HIDE DEF j
      <4> QED BY <4>1
    <3>5. f[k] \in Seq(SackBlock) /\ Len(f[k]) <= k /\ Len(f[k]) \in Nat
          /\ \A b \in Nat : Reports(f[k], b) <=> Rest(b, k)
      <4> HIDE DEF Rest
      <4> QED BY <3>1, LenProperties
    <3> HIDE DEF Rest
    <3>6. CASE list[j][2] > seq
      <4>1. /\ f[j] \in Seq(SackBlock) /\ Len(f[j]) = Len(f[k]) + 1
            /\ \A b : Reports(f[j], b) <=> Reports(f[k], b) \/ InBlock(b, list[j])
        BY <3>2, <3>3, <3>5, <3>6, AppendReports
      <4>2. Len(f[j]) <= j
        BY <4>1, <3>5
      <4> HIDE DEF j
      <4>3. \A b \in Nat : Reports(f[j], b) <=> Rest(b, j)
        BY <4>1, <3>4, <3>5, <3>6
      <4>4. Fine(f[j], j)
        BY <4>1, <4>2, <4>3
      <4> QED BY <4>4 DEF j
    <3>7. CASE ~(list[j][2] > seq)
      <4>1. f[j] = f[k]
        BY <3>3, <3>7
      <4>2. Len(f[j]) <= j
        BY <4>1, <3>5
      <4> HIDE DEF j
      <4>3. \A b \in Nat : Reports(f[j], b) <=> Rest(b, j)
        BY <4>1, <3>4, <3>5, <3>7
      <4>4. Fine(f[j], j)
        BY <4>1, <4>2, <4>3, <3>5
      <4> QED BY <4>4 DEF j
    <3> QED BY <3>6, <3>7
  <2> HIDE DEF Fine
  <2> QED BY <2>1
<1>6. Fine(f[n], n)
  <2>1. n \in T
    <3> HIDE DEF T
    <3> QED BY <1>1, <1>4, <1>5, Induction
  <2> HIDE DEF Fine
  <2> QED BY <2>1, <1>1
<1> QED BY <1>1, <1>3, <1>6 DEF Cleared

-----------------------------------------------------------------------------
(***************************************************************************)
(* How much is stored.                                                     *)
(***************************************************************************)
LEMMA IntervalSize ==
    ASSUME NEW a \in Nat, NEW k \in Nat
    PROVE  IsFiniteSet(a .. a + k - 1) /\ Cardinality(a .. a + k - 1) = k
<1> DEFINE b == a + k - 1
<1>1. a \in Int /\ b \in Int /\ (a > b <=> k = 0) /\ b - a + 1 = k
  OBVIOUS
<1> HIDE DEF b
<1>2. IsFiniteSet(a .. b) /\ Cardinality(a .. b) = IF a > b THEN 0 ELSE b - a + 1
  BY <1>1, FS_Interval
<1> QED BY <1>1, <1>2 DEF b

\* The bytes of some of the fragments.
BytesIn(data, heads) == UNION {h .. EndOf(data, h) - 1 : h \in heads}

Summing(f, data, heads) ==
    f = [s \in SUBSET heads |->
            IF s = {} THEN 0
            ELSE LET x == CHOOSE x \in s : TRUE IN Len(data[x]) + f[s \ {x}]]

\* Taking a fragment away takes its length away.
LEMMA OneFragmentLess ==
    ASSUME NEW n \in Nat, NEW data, Placed(data, n), Apart(data),
           NEW s \in SUBSET DOMAIN data, NEW x \in s
    PROVE  /\ IsFiniteSet(BytesIn(data, s))
           /\ Cardinality(BytesIn(data, s))
                = Len(data[x]) + Cardinality(BytesIn(data, s \ {x}))
           /\ Cardinality(BytesIn(data, s \ {x})) \in Nat /\ Len(data[x]) \in Nat
<1> DEFINE one == x .. EndOf(data, x) - 1
           rest == BytesIn(data, s \ {x})
<1>1. \A h \in DOMAIN data : /\ h \in Nat /\ EndOf(data, h) \in Nat
                             /\ h < EndOf(data, h) /\ EndOf(data, h) <= n
  BY BytesType DEF Placed
<1>2. Len(data[x]) \in Nat /\ EndOf(data, x) = x + Len(data[x])
  BY LenProperties DEF Placed, EndOf
<1>3. BytesIn(data, s) = one \union rest
  BY DEF BytesIn
<1>4. one \intersect rest = {}
  <2> SUFFICES ASSUME NEW b \in one, NEW h \in s \ {x}, b \in h .. EndOf(data, h) - 1
               PROVE  FALSE
    BY DEF BytesIn
  <2>1. h \in DOMAIN data /\ x \in DOMAIN data /\ h # x
    OBVIOUS
  <2>2. h < x \/ x < h
    BY <1>1, <2>1
  <2>3. EndOf(data, h) <= x \/ EndOf(data, x) <= h
    BY <2>1, <2>2 DEF Apart
  <2> QED BY <1>1, <2>1, <2>3
<1>5. IsFiniteSet(rest)
  <2>1. rest \subseteq 0 .. n
    BY <1>1 DEF BytesIn
  <2>2. IsFiniteSet(0 .. n)
    BY FS_Interval
  <2> HIDE DEF rest
  <2> QED BY <2>1, <2>2, FS_Subset
<1>6. IsFiniteSet(one) /\ Cardinality(one) = Len(data[x])
  <2>1. x \in Nat /\ Len(data[x]) \in Nat /\ EndOf(data, x) - 1 = x + Len(data[x]) - 1
    BY <1>1, <1>2 DEF EndOf
  <2> QED BY <2>1, IntervalSize
<1> HIDE DEF one, rest
<1>7. Cardinality({}) = 0 /\ Cardinality(rest) \in Nat
  BY <1>5, FS_EmptySet, FS_CardinalityType
<1>8. /\ IsFiniteSet(one \union rest)
      /\ Cardinality(one \union rest)
            = Cardinality(one) + Cardinality(rest) - Cardinality(one \intersect rest)
  BY <1>5, <1>6, FS_Union
<1>9. Cardinality(one \union rest) = Len(data[x]) + Cardinality(rest)
  <2>1. Cardinality(one \intersect rest) = 0
    BY <1>4, <1>7
  <2> DEFINE both == Cardinality(one \union rest)
             common == Cardinality(one \intersect rest)
  <2>2. both = Cardinality(one) + Cardinality(rest) - common
    BY <1>8
  <2>3. common = 0
    BY <2>1
  <2> HIDE DEF both, common
  <2>4. both = Len(data[x]) + Cardinality(rest)
    BY <2>2, <2>3, <1>2, <1>6, <1>7
  <2> QED BY <2>4 DEF both
<1> QED BY <1>2, <1>3, <1>7, <1>8, <1>9 DEF rest

\* The sum of the sizes of fragments is the number of their bytes.
LEMMA SumSizesIs ==
    ASSUME NEW n \in Nat, NEW data, Placed(data, n), Apart(data),
           NEW heads \in SUBSET DOMAIN data
    PROVE  SumSizes(data, heads) = Cardinality(BytesIn(data, heads))
<1> DEFINE g == [s \in SUBSET heads |-> Cardinality(BytesIn(data, s))]
           f == CHOOSE f : Summing(f, data, heads)
           T == {k \in Nat : \A s \in SUBSET heads : Cardinality(s) = k => f[s] = g[s]}
<1>1. ASSUME NEW s \in SUBSET heads
      PROVE  g[s] = IF s = {} THEN 0
                    ELSE LET x == CHOOSE x \in s : TRUE IN Len(data[x]) + g[s \ {x}]
  <2>1. CASE s = {}
    <3>1. BytesIn(data, {}) = {}
      BY DEF BytesIn
    <3> QED BY <2>1, <3>1, FS_EmptySet
  <2>2. CASE s # {}
    <3> DEFINE x == CHOOSE x \in s : TRUE
    <3>1. x \in s /\ s \in SUBSET DOMAIN data /\ s \ {x} \in SUBSET heads
      BY <2>2
    <3>2. g[s] = Cardinality(BytesIn(data, s))
          /\ g[s \ {x}] = Cardinality(BytesIn(data, s \ {x}))
      BY <3>1
    <3> HIDE DEF x, g
    <3>3. g[s] = Len(data[x]) + g[s \ {x}]
      BY <3>1, <3>2, OneFragmentLess
    <3> QED BY <2>2, <3>3 DEF x
  <2> QED BY <2>1, <2>2
<1>2. Summing(g, data, heads)
  <2>1. g = [s \in SUBSET heads |-> g[s]]
    OBVIOUS
  <2> HIDE DEF g
  <2>2. g = [s \in SUBSET heads |->
                IF s = {} THEN 0
                ELSE LET x == CHOOSE x \in s : TRUE IN Len(data[x]) + g[s \ {x}]]
    BY <1>1, <2>1
  <2> QED BY <2>2 DEF Summing
<1>3. Summing(f, data, heads)
  BY <1>2
<1>4. SumSizes(data, heads) = f[heads]
  BY DEF SumSizes, MapThenSumSet, MapThenFoldSet, Summing
<1> HIDE DEF f, g
<1>5. ASSUME NEW s \in SUBSET heads
      PROVE  f[s] = IF s = {} THEN 0
                    ELSE LET x == CHOOSE x \in s : TRUE IN Len(data[x]) + f[s \ {x}]
  BY <1>3 DEF Summing
<1>6. IsFiniteSet(heads) /\ \A s \in SUBSET heads : IsFiniteSet(s) /\ Cardinality(s) \in Nat
  <2>1. heads \subseteq 0 .. n
    BY BytesType DEF Placed
  <2>4. IsFiniteSet(0 .. n)
    BY FS_Interval
  <2>2. IsFiniteSet(heads)
    BY <2>1, <2>4, FS_Subset
  <2>3. ASSUME NEW s \in SUBSET heads PROVE IsFiniteSet(s)
    BY <2>2, FS_Subset
  <2> QED BY <2>2, <2>3, FS_CardinalityType
<1>7. 0 \in T
  <2>1. ASSUME NEW s \in SUBSET heads, Cardinality(s) = 0 PROVE f[s] = g[s]
    <3>1. s = {}
      BY <2>1, <1>6, FS_EmptySet
    <3> QED BY <3>1, <1>1, <1>5
  <2> QED BY <2>1
<1>8. ASSUME NEW k \in Nat, k \in T PROVE k + 1 \in T
  <2>1. ASSUME NEW s \in SUBSET heads, Cardinality(s) = k + 1 PROVE f[s] = g[s]
    <3> DEFINE x == CHOOSE x \in s : TRUE
    <3>1. s # {}
      BY <2>1, FS_EmptySet
    <3>2. x \in s /\ s \ {x} \in SUBSET heads
      BY <3>1
    <3>3. Cardinality(s \ {x}) = k
      <4>1. IsFiniteSet(s)
        BY <1>6
      <4> HIDE DEF x
      <4>2. Cardinality(s \ {x}) = Cardinality(s) - 1
        BY <3>2, <4>1, FS_RemoveElement
      <4> QED BY <4>2, <2>1
    <3>4. f[s \ {x}] = g[s \ {x}]
      <4> HIDE DEF x
      <4> QED BY <3>2, <3>3, <1>8
    <3>5. f[s] = Len(data[x]) + f[s \ {x}] /\ g[s] = Len(data[x]) + g[s \ {x}]
      BY <3>1, <1>1, <1>5
    <3> HIDE DEF x
    <3> QED BY <3>4, <3>5
  <2> QED BY <2>1
<1>9. f[heads] = g[heads]
  <2> HIDE DEF T
  <2>1. Cardinality(heads) \in T
    BY <1>6, <1>7, <1>8, Induction
  <2> QED BY <2>1 DEF T
<1> QED BY <1>4, <1>9 DEF g

-----------------------------------------------------------------------------
(***************************************************************************)
(* The counters and the SACK list of a buffer.                             *)
(***************************************************************************)
\* m_size counts what is stored, all of it less than m_maxBuffer beyond what has
\* been read, and the SACK list reports nothing but bytes beyond a gap.
Counted(rx, r) ==
    /\ rx.size = Cardinality(BytesOf(rx.data))
    /\ \A b \in BytesOf(rx.data) : b < r + MaxBuffer
    /\ rx.sack \in Seq(SackBlock) /\ Len(rx.sack) <= SackListMax
    /\ \A b \in Nat : Reports(rx.sack, b) => b \in BytesOf(rx.data) /\ b > rx.next

\* The SACK list reports every byte beyond a gap.
AllReported(rx) == \A b \in BytesOf(rx.data) : b > rx.next => Reports(rx.sack, b)

LEMMA BytesFinite ==
    ASSUME NEW n \in Nat, NEW data, Placed(data, n)
    PROVE  IsFiniteSet(BytesOf(data)) /\ Cardinality(BytesOf(data)) \in Nat
<1>1. BytesOf(data) \subseteq 0 .. n - 1
  BY BytesType
<1>2. 0 \in Int /\ n - 1 \in Int
  OBVIOUS
<1>3. IsFiniteSet(0 .. n - 1)
  BY <1>2, FS_Interval
<1>4. IsFiniteSet(BytesOf(data))
  BY <1>1, <1>3, FS_Subset
<1> QED BY <1>4, FS_CardinalityType

\* The fragments that Add drops hold what is stored between head and tail.
LEMMA EmbeddedBytes ==
    ASSUME NEW n \in Nat, NEW data, Placed(data, n),
           NEW head \in Nat, NEW tail \in Nat, head \notin BytesOf(data),
           \A h \in DOMAIN data : head < h => EndOf(data, h) <= tail \/ tail <= h
    PROVE  BytesIn(data, Embedded(data, head, tail))
             = BytesOf(data) \intersect (head .. tail - 1)
<1>1. \A h \in DOMAIN data : h \in Nat /\ EndOf(data, h) \in Nat
  BY BytesType DEF Placed
<1>2. \A b : b \in BytesOf(data) <=>
          b \in Nat /\ \E h \in DOMAIN data : h <= b /\ b < EndOf(data, h)
  BY BytesType
<1>3. ASSUME NEW b \in BytesIn(data, Embedded(data, head, tail))
      PROVE  b \in BytesOf(data) /\ b \in head .. tail - 1
  <2>1. PICK h \in DOMAIN data : head < h /\ EndOf(data, h) <= tail
                                 /\ b \in h .. EndOf(data, h) - 1
    BY <1>3 DEF BytesIn, Embedded
  <2>2. b \in Nat /\ h <= b /\ b < EndOf(data, h)
    BY <2>1, <1>1
  <2> QED BY <2>1, <2>2, <1>1, <1>2
<1>4. ASSUME NEW b \in BytesOf(data), b \in head .. tail - 1
      PROVE  b \in BytesIn(data, Embedded(data, head, tail))
  <2>1. b \in Nat /\ head <= b /\ b < tail
    BY <1>4
  <2>2. PICK h \in DOMAIN data : h <= b /\ b < EndOf(data, h)
    BY <1>2, <1>4
  <2>3. head < h
    <3>1. ~(h <= head)
      <4> SUFFICES ASSUME h <= head PROVE FALSE
        OBVIOUS
      <4>1. head < EndOf(data, h)
        BY <1>1, <2>1, <2>2
      <4> QED BY <4>1, <1>2
    <3> QED BY <3>1, <1>1
  <2>4. EndOf(data, h) <= tail
    BY <1>1, <2>1, <2>2, <2>3
  <2>5. h \in Embedded(data, head, tail) /\ b \in h .. EndOf(data, h) - 1
    BY <1>1, <2>1, <2>2, <2>3, <2>4 DEF Embedded
  <2> QED BY <2>5 DEF BytesIn
<1> QED BY <1>3, <1>4

LEMMA StoreSize ==
    ASSUME NEW n \in Nat, NEW data, Placed(data, n), Apart(data),
           NEW head \in Nat, NEW tail \in Nat, head < tail, head \notin BytesOf(data),
           \A h \in DOMAIN data : head < h => EndOf(data, h) <= tail \/ tail <= h
    PROVE  Cardinality(BytesOf(data) \union (head .. tail - 1))
             = Cardinality(BytesOf(data)) + tail - head
                 - SumSizes(data, Embedded(data, head, tail))
<1> DEFINE I == head .. tail - 1
           B == BytesOf(data)
           common == Cardinality(B \intersect I)
           size == Cardinality(B)
           both == Cardinality(B \union I)
           dropped == SumSizes(data, Embedded(data, head, tail))
<1>1. IsFiniteSet(B) /\ size \in Nat
  BY BytesFinite
<1>2. IsFiniteSet(I) /\ Cardinality(I) = tail - head
  <2> DEFINE k == tail - head
  <2>1. k \in Nat /\ head + k - 1 = tail - 1
    OBVIOUS
  <2> HIDE DEF k
  <2>2. IsFiniteSet(head .. head + k - 1) /\ Cardinality(head .. head + k - 1) = k
    BY <2>1, IntervalSize
  <2> QED BY <2>1, <2>2 DEF k
<1>3. common = dropped
  <2>1. Embedded(data, head, tail) \in SUBSET DOMAIN data
    BY DEF Embedded
  <2>2. SumSizes(data, Embedded(data, head, tail))
          = Cardinality(BytesIn(data, Embedded(data, head, tail)))
    BY <2>1, SumSizesIs
  <2>3. BytesIn(data, Embedded(data, head, tail)) = B \intersect I
    BY EmbeddedBytes
  <2> QED BY <2>2, <2>3
<1>4. common \in Nat
  <2> HIDE DEF B, I
  <2>1. IsFiniteSet(B \intersect I)
    BY <1>1, FS_Intersection
  <2> QED BY <2>1, FS_CardinalityType
<1>5. both = size + Cardinality(I) - common
  <2> HIDE DEF B, I
  <2> QED BY <1>1, <1>2, FS_Union
<1>6. both = size + tail - head - dropped
  <2> HIDE DEF both, size, common, dropped
  <2> QED BY <1>1, <1>2, <1>3, <1>4, <1>5
<1> QED BY <1>6

\* When m_nextRxSeq has moved on, what lies beyond it is still reported, and
\* nothing else.
LEMMA AdvanceCounts ==
    ASSUME NEW n \in Nat, NEW r \in Nat, NEW u, Counted(u, r), DOMAIN u = Fields,
           u.avail \in Nat, u.next = r + u.avail, u.next <= n,
           InOrderBuffer(Advance(u), r, n), u.next <= Advance(u).next
    PROVE  /\ Counted(Advance(u), r)
           /\ \A b \in BytesOf(u.data) :
                  b > Advance(u).next /\ Reports(u.sack, b) => Reports(Advance(u).sack, b)
<1> DEFINE t == Advance(u)
           c == Contiguous(u)
           B == BytesOf(u.data)
<1>1. /\ t.data = u.data /\ t.size = u.size /\ t.avail = u.avail + c - u.next
      /\ t.sack = IF c > u.next THEN ClearSackList(u.sack, c) ELSE u.sack
  BY DEF Advance, AdvanceTo, Fields
<1>2. /\ t.next = IF u.gotFin /\ c = u.fin THEN c + 1 ELSE c
  BY DEF Advance, AdvanceTo, Fields
<1>3. t.avail \in Nat /\ Placed(u.data, n) /\ r + t.avail \notin B /\ r + t.avail <= n
      /\ (t.next = r + t.avail \/ (t.next = n + 1 /\ r + t.avail = n))
  BY <1>1 DEF InOrderBuffer
<1>4. B \subseteq 0 .. n - 1
  BY <1>3, BytesType
<1> HIDE DEF t, c
<1>5. c = r + t.avail
  <2>1. c \in Int
    <3>1. CASE u.next \in DOMAIN u.data
      <4>1. u.next \in Nat
        OBVIOUS
      <4>2. FirstMissing(u.data, u.next) \in Nat
        BY <4>1, <1>3, FirstMissingIs
      <4> QED BY <3>1, <4>2 DEF c, Contiguous
    <3>2. CASE u.next \notin DOMAIN u.data
      BY <3>2 DEF c, Contiguous
    <3> QED BY <3>1, <3>2
  <2> QED BY <2>1, <1>1, <1>3
<1>6. c \in Nat /\ u.next <= c /\ c \notin B
      /\ (t.next = c \/ (t.next = c + 1 /\ c = n))
  <2>1. u.next <= t.next
    BY DEF t
  <2> QED BY <2>1, <1>3, <1>5
<1>7. \A b \in B : b \in Nat /\ (b > c => b > t.next)
  BY <1>4, <1>6
<1>8. /\ u.sack \in Seq(SackBlock) /\ Len(u.sack) <= SackListMax
      /\ \A b \in Nat : Reports(u.sack, b) => b \in B /\ b > u.next
      /\ u.size = Cardinality(B) /\ \A b \in B : b < r + MaxBuffer
  BY DEF Counted
<1> HIDE DEF B
<1>9. CASE c > u.next
  <2>1. Cleared(u.sack, c, t.sack)
    BY <1>1, <1>8, <1>9, ClearSackListIs
  <2>2. Len(u.sack) \in Nat /\ DOMAIN u.sack = 1 .. Len(u.sack)
        /\ \A i \in DOMAIN u.sack : u.sack[i] \in SackBlock
    BY <1>8, LenProperties
  <2>3. t.sack \in Seq(SackBlock) /\ Len(t.sack) <= SackListMax
    <3>1. t.sack \in Seq(SackBlock) /\ Len(t.sack) <= Len(u.sack)
      BY <2>1 DEF Cleared
    <3>2. Len(t.sack) \in Nat /\ SackListMax \in Nat
      BY <3>1, LenProperties, RxBufferAssumption
    <3> QED BY <3>1, <3>2, <2>2, <1>8
  <2>4. ASSUME NEW b \in Nat, Reports(t.sack, b) PROVE b \in B /\ b > t.next
    <3>1. PICK i \in DOMAIN u.sack : u.sack[i][2] > c /\ InBlock(b, u.sack[i])
      BY <2>1, <2>4 DEF Cleared
    <3>2. b \in B
      BY <3>1, <1>8 DEF Reports
    <3>3. u.sack[i][1] \in Nat /\ u.sack[i][2] \in Nat
      BY <2>2 DEF SackBlock
    <3>4. ~(u.sack[i][1] <= c)
      <4> SUFFICES ASSUME u.sack[i][1] <= c PROVE FALSE
        OBVIOUS
      <4>1. InBlock(c, u.sack[i])
        BY <3>1, <3>3, <1>6 DEF InBlock
      <4>2. Reports(u.sack, c)
        BY <4>1 DEF Reports
      <4> QED BY <4>2, <1>6, <1>8
    <3>5. b > c
      BY <3>1, <3>3, <3>4, <1>6 DEF InBlock
    <3> QED BY <3>2, <3>5, <1>7
  <2>5. ASSUME NEW b \in B, b > t.next, Reports(u.sack, b) PROVE Reports(t.sack, b)
    <3>1. PICK i \in DOMAIN u.sack : InBlock(b, u.sack[i])
      BY <2>5 DEF Reports
    <3>2. b \in Nat /\ b > c
      BY <2>5, <1>6, <1>7
    <3>3. u.sack[i][2] > c
      <4>1. u.sack[i][2] \in Nat
        BY <2>2 DEF SackBlock
      <4> QED BY <4>1, <3>1, <3>2, <1>6 DEF InBlock
    <3> QED BY <3>1, <3>2, <3>3, <2>1 DEF Cleared
  <2> QED BY <2>3, <2>4, <2>5, <1>1, <1>8 DEF Counted, t, B
<1>10. CASE ~(c > u.next)
  <2>1. t.sack = u.sack /\ c = u.next
    BY <1>1, <1>6, <1>10
  <2>2. ASSUME NEW b \in Nat, Reports(t.sack, b) PROVE b \in B /\ b > t.next
    BY <2>1, <2>2, <1>7, <1>8
  <2> QED BY <2>1, <2>2, <1>1, <1>8 DEF Counted, t, B
<1> QED BY <1>9, <1>10

LEMMA StoreCounts ==
    ASSUME NEW n \in Nat, NEW r, NEW rx, InOrderBuffer(rx, r, n), Counted(rx, r),
           NEW seq \in Nat, NEW len \in Nat, seq + len <= n,
           NEW head \in Nat, NEW tail \in Nat,
           Storable(rx, seq, len, head, tail), tail <= r + MaxBuffer
    PROVE  LET t == Advance(Store(rx, seq, Slice(seq, len), head, tail))
           IN  /\ Counted(t, r)
               /\ AllReported(rx) /\ Len(rx.sack) < SackListMax => AllReported(t)
<1>0. /\ seq <= head /\ rx.next <= head /\ head < tail /\ tail <= seq + len
      /\ head \notin BytesOf(rx.data)
      /\ \A h \in DOMAIN rx.data : head < h => EndOf(rx.data, h) <= tail \/ tail <= h
  BY DEF Storable
<1> DEFINE u == Store(rx, seq, Slice(seq, len), head, tail)
           t == Advance(u)
           B == BytesOf(rx.data)
           dropped == SumSizes(rx.data, Embedded(rx.data, head, tail))
<1>1. /\ DOMAIN u = Fields /\ u.data = Insert(rx.data, seq, Slice(seq, len), head, tail)
      /\ u.next = rx.next /\ u.avail = rx.avail /\ u.size = rx.size + tail - head - dropped
      /\ u.sack = IF head > rx.next THEN UpdateSackList(rx.sack, head, tail) ELSE rx.sack
  BY DEF Store, InOrderBuffer, Fields
<1>2. /\ InOrderBuffer(t, r, n) /\ BytesOf(t.data) = B \union (head .. tail - 1)
      /\ rx.next <= t.next
  <2> DEFINE v == Advance(Store(rx, seq, Slice(seq, len), head, tail))
  <2>1. /\ InOrderBuffer(v, r, n)
        /\ BytesOf(v.data) = BytesOf(rx.data) \union (head .. tail - 1)
        /\ rx.next <= v.next
        /\ v.gotFin = rx.gotFin /\ v.fin = rx.fin
    <3>1. Stored(rx, r, n, head, tail, v)
      BY StoreIs
    <3> HIDE DEF v
    <3> QED BY <3>1 DEF Stored
  <2> QED BY <2>1
<1> USE <1>0
<1>3. t.data = u.data
  BY <1>1 DEF Advance, AdvanceTo, Fields
<1>4. Placed(rx.data, n) /\ Apart(rx.data) /\ r \in Nat /\ rx.avail \in Nat
  BY DEF InOrderBuffer
<1>5. rx.next = r + rx.avail /\ rx.next <= n
  <2>1. r + rx.avail <= n /\ (rx.next = r + rx.avail \/ rx.next = n + 1)
    BY DEF InOrderBuffer
  <2>2. rx.next < n + 1
    BY <1>4, <2>1
  <2> QED BY <1>4, <2>1, <2>2
<1>6. BytesOf(u.data) = B \union (head .. tail - 1)
  BY <1>2, <1>3
<1>7. u.size = Cardinality(BytesOf(u.data))
  <2>1. Cardinality(B \union (head .. tail - 1)) = Cardinality(B) + tail - head - dropped
    BY <1>4, StoreSize
  <2>2. rx.size = Cardinality(B)
    BY DEF Counted
  <2> HIDE DEF dropped
  <2> QED BY <2>1, <2>2, <1>1, <1>6
<1>8. /\ rx.sack \in Seq(SackBlock) /\ Len(rx.sack) <= SackListMax
      /\ \A b \in Nat : Reports(rx.sack, b) => b \in B /\ b > rx.next
      /\ \A b \in B : b < r + MaxBuffer
  BY DEF Counted
<1>9. \A b \in B : b \in Nat
  BY <1>4, BytesType
<1> HIDE DEF t, B
<1>10. /\ u.sack \in Seq(SackBlock) /\ Len(u.sack) <= SackListMax
       /\ \A b \in Nat : Reports(u.sack, b) => b \in BytesOf(u.data) /\ b > u.next
       /\ Len(rx.sack) < SackListMax =>
              \A b \in Nat : /\ Reports(rx.sack, b) => Reports(u.sack, b)
                             /\ head <= b /\ b < tail /\ head > rx.next => Reports(u.sack, b)
  <2>1. CASE head > rx.next
    <3>1. Updated(rx.sack, head, tail, u.sack)
      BY <1>1, <1>8, <2>1, UpdateSackListIs
    <3> HIDE DEF u
    <3>2. /\ u.sack \in Seq(SackBlock) /\ Len(u.sack) <= SackListMax
          /\ \A b \in Nat : Reports(u.sack, b) => Reports(rx.sack, b) \/ (head <= b /\ b < tail)
          /\ Len(rx.sack) < SackListMax =>
                 \A b \in Nat : Reports(rx.sack, b) \/ (head <= b /\ b < tail)
                                    => Reports(u.sack, b)
      BY <3>1 DEF Updated
    <3>3. ASSUME NEW b \in Nat, Reports(u.sack, b) PROVE b \in BytesOf(u.data) /\ b > u.next
      <4>1. CASE Reports(rx.sack, b)
        BY <4>1, <1>1, <1>6, <1>8
      <4>2. CASE head <= b /\ b < tail
        BY <4>2, <2>1, <1>1, <1>4, <1>5, <1>6
      <4> QED BY <4>1, <4>2, <3>2, <3>3
    <3> QED BY <3>2, <3>3
  <2>2. CASE ~(head > rx.next)
    <3>1. u.sack = rx.sack
      BY <1>1, <2>2
    <3> HIDE DEF u
    <3> QED BY <3>1, <1>1, <1>6, <1>8, <2>2
  <2> QED BY <2>1, <2>2
<1>11. \A b \in BytesOf(u.data) : b < r + MaxBuffer
  <2>1. MaxBuffer \in Nat
    BY RxBufferAssumption
  <2> QED BY <2>1, <1>4, <1>6, <1>8
<1>12. Counted(u, r)
  <2> HIDE DEF u
  <2> QED BY <1>7, <1>10, <1>11 DEF Counted
<1>13. /\ Counted(t, r)
       /\ \A b \in BytesOf(u.data) : b > t.next /\ Reports(u.sack, b) => Reports(t.sack, b)
  <2>1. u.avail \in Nat /\ u.next = r + u.avail /\ u.next <= n /\ DOMAIN u = Fields
    BY <1>1, <1>4, <1>5
  <2>2. InOrderBuffer(Advance(u), r, n) /\ u.next <= Advance(u).next
    BY <1>1, <1>2 DEF t
  <2>3. t = Advance(u)
    BY DEF t
  <2> HIDE DEF u
  <2> QED BY <2>1, <2>2, <2>3, <1>4, <1>12, AdvanceCounts
<1>14. ASSUME AllReported(rx), Len(rx.sack) < SackListMax,
              NEW b \in BytesOf(t.data), b > t.next
       PROVE  Reports(t.sack, b)
  <2>1. b \in BytesOf(u.data)
    BY <1>3, <1>14
  <2>2. b \in Nat /\ b > rx.next
    <3>1. b \in Nat
      BY <2>1, <1>6, <1>9
    <3>2. t.next \in Nat
      BY <1>2, <1>4 DEF InOrderBuffer
    <3> QED BY <3>1, <3>2, <1>2, <1>4, <1>5, <1>14
  <2>3. CASE b \in B
    <3>1. Reports(rx.sack, b)
      BY <2>2, <2>3, <1>14 DEF AllReported, B
    <3>2. Reports(u.sack, b)
      BY <3>1, <2>2, <1>10, <1>14
    <3> QED BY <3>2, <2>1, <1>13, <1>14
  <2>4. CASE b \notin B
    <3>1. head <= b /\ b < tail
      BY <2>1, <2>4, <1>6
    <3>2. CASE head > rx.next
      <4>1. Reports(u.sack, b)
        BY <3>1, <3>2, <2>2, <1>10, <1>14
      <4> QED BY <4>1, <2>1, <1>13, <1>14
    <3>3. CASE ~(head > rx.next)
      <4> DEFINE c == r + t.avail
      <4>1. /\ t.avail \in Nat /\ c \notin BytesOf(t.data)
            /\ (t.next = c \/ (t.next = n + 1 /\ c = n))
        BY <1>2 DEF InOrderBuffer
      <4>2. rx.next = head /\ rx.next <= c
        BY <3>3, <4>1, <1>2, <1>4, <1>5
      <4>3. c >= tail
        <5>1. ~(c \in head .. tail - 1)
          BY <4>1, <1>2
        <5> HIDE DEF c
        <5>2. c \in Nat
          BY <4>1, <1>4 DEF c
        <5> QED BY <5>1, <5>2, <4>2
      <4> QED BY <4>1, <4>3, <3>1, <2>2, <1>4, <1>14
    <3> QED BY <3>2, <3>3
  <2> QED BY <2>3, <2>4
<1> QED BY <1>13, <1>14 DEF AllReported, t

\* A segment that ends inside the buffer, or comes when it is full to the brim
\* with what can be read.
Fits(rx, r, seq, len) ==
    seq + len <= r + MaxBuffer \/ (DOMAIN rx.data # {} /\ Begin(rx.data) = r)

LEMMA AddCounts ==
    ASSUME NEW n \in Nat, NEW r, NEW rx, InOrderBuffer(rx, r, n), Counted(rx, r),
           NEW seq \in Nat, NEW len \in Nat, seq + len <= n, Fits(rx, r, seq, len)
    PROVE  LET t == Add(rx, seq, Slice(seq, len))
           IN  /\ Counted(t, r)
               /\ AllReported(rx) /\ Len(rx.sack) < SackListMax => AllReported(t)
<1> DEFINE range == Trimmed(rx, seq, Slice(seq, len))
           head == range[1]
           tail == range[2]
           t == Add(rx, seq, Slice(seq, len))
<1>1. Placed(rx.data, n) /\ r \in Nat /\ MaxBuffer \in Nat
  BY RxBufferAssumption DEF InOrderBuffer
<1>2. Remains(rx, r, n, seq, len, head, tail)
  BY TrimmedIs
<1>3. t = IF head < tail THEN Advance(Store(rx, seq, Slice(seq, len), head, tail)) ELSE rx
  BY DEF Add, AddRange, Stores
<1> HIDE DEF head, tail, t, range
<1>4. /\ head \in Nat /\ seq <= head /\ rx.next <= head /\ head \notin BytesOf(rx.data)
      /\ tail \in Nat /\ tail <= seq + len /\ tail <= WithinBuffer(rx, seq + len)
      /\ \A h \in DOMAIN rx.data : head < h => EndOf(rx.data, h) <= tail \/ tail <= h
  BY <1>2 DEF Remains
<1>5. tail <= r + MaxBuffer
  <2>1. CASE seq + len <= r + MaxBuffer
    BY <2>1, <1>1, <1>4
  <2>2. CASE DOMAIN rx.data # {} /\ Begin(rx.data) = r
    <3>1. WithinBuffer(rx, seq + len) = MinOf(seq + len, r + MaxBuffer)
      BY <2>2 DEF WithinBuffer
    <3> QED BY <3>1, <1>1, <1>4 DEF MinOf
  <2> QED BY <2>1, <2>2 DEF Fits
<1>6. CASE head < tail
  <2> DEFINE v == Advance(Store(rx, seq, Slice(seq, len), head, tail))
  <2>1. /\ Counted(v, r)
        /\ AllReported(rx) /\ Len(rx.sack) < SackListMax => AllReported(v)
    <3>1. Storable(rx, seq, len, head, tail)
      BY <1>4, <1>6 DEF Storable
    <3> QED BY <3>1, <1>4, <1>5, StoreCounts
  <2>2. t = v
    BY <1>3, <1>6
  <2> HIDE DEF v
  <2> QED BY <2>1, <2>2 DEF t
<1>7. CASE ~(head < tail)
  <2>1. t = rx
    BY <1>3, <1>7
  <2> QED BY <2>1 DEF t
<1> QED BY <1>6, <1>7

LEMMA SetFinSequenceCounts ==
    ASSUME NEW n \in Nat, NEW r, NEW rx, InOrderBuffer(rx, r, n), Counted(rx, r),
           NEW s \in 0 .. n, \A b \in s .. n - 1 : b < r \/ b \in BytesOf(rx.data)
    PROVE  LET t == SetFinSequence(rx, s)
           IN  /\ Counted(t, r) /\ t.sack = rx.sack
               /\ AllReported(rx) => AllReported(t)
<1> DEFINE t == SetFinSequence(rx, s)
<1>1. /\ t.data = rx.data /\ t.size = rx.size /\ t.sack = rx.sack
      /\ t.next = IF rx.next = s THEN rx.next + 1 ELSE rx.next
  BY DEF SetFinSequence, InOrderBuffer, Fields
<1> HIDE DEF t
<1>2. /\ r \in Nat /\ rx.avail \in Nat /\ r + rx.avail <= n /\ Placed(rx.data, n)
      /\ rx.next = r + rx.avail \/ (rx.next = n + 1 /\ r + rx.avail = n)
      /\ r + rx.avail \notin BytesOf(rx.data)
  BY DEF InOrderBuffer
<1>3. \A b \in BytesOf(rx.data) : b \in Nat /\ b < n
  BY <1>2, BytesType
<1>4. rx.next = s => rx.next = n
  BY <1>2
<1>5. \A b \in BytesOf(rx.data) : b > t.next <=> b > rx.next
  BY <1>1, <1>2, <1>3, <1>4
<1> QED BY <1>1, <1>5 DEF Counted, AllReported, t

LEMMA ExtractCounts ==
    ASSUME NEW n \in Nat, NEW r, NEW rx, InOrderBuffer(rx, r, n), Counted(rx, r), NEW m \in Nat
    PROVE  LET t == Extract(rx, m)
           IN  /\ Counted(t, r + ExtractSize(rx, m)) /\ t.sack = rx.sack
               /\ AllReported(rx) => AllReported(t)
<1> DEFINE k == ExtractSize(rx, m)
           t == Extract(rx, m)
           B == BytesOf(rx.data)
           C == BytesOf(t.data)
<1>1. Taken(rx, r, n, k, Extracted(rx, m), t)
  BY ExtractIs
<1>2. t.size = rx.size - k /\ t.sack = rx.sack
  <2>1. DOMAIN rx = Fields
    BY DEF InOrderBuffer
  <2>2. CASE k = 0
    <3>1. t = rx
      BY <2>2 DEF Extract
    <3>2. rx.size \in Nat
      BY BytesFinite DEF Counted, InOrderBuffer
    <3> HIDE DEF t, k
    <3> QED BY <2>2, <3>1, <3>2
  <2>3. CASE k # 0
    <3>1. t = [rx EXCEPT !.data = From(rx.data, Begin(rx.data) + k),
                         !.size = rx.size - k, !.avail = rx.avail - k]
      BY <2>3 DEF Extract
    <3> HIDE DEF t, k
    <3> QED BY <3>1, <2>1 DEF Fields
  <2> QED BY <2>2, <2>3
<1> HIDE DEF k, t
<1>3. /\ k \in Nat /\ k <= rx.avail /\ t.next = rx.next
      /\ \A x : x \in C <=> x \in B /\ r + k <= x
      /\ InOrderBuffer(t, r + k, n)
  BY <1>1 DEF Taken
<1>4. /\ r \in Nat /\ rx.avail \in Nat /\ Placed(rx.data, n)
      /\ \A b \in r .. r + rx.avail - 1 : b \in B
      /\ \A b \in B : r <= b
      /\ rx.next >= r + rx.avail
  <2>1. rx.next = r + rx.avail \/ (rx.next = n + 1 /\ r + rx.avail = n)
    BY DEF InOrderBuffer
  <2>2. r \in Nat /\ rx.avail \in Nat
    BY DEF InOrderBuffer
  <2>3. rx.next >= r + rx.avail
    BY <2>1, <2>2
  <2> QED BY <2>3 DEF InOrderBuffer
<1>5. MaxBuffer \in Nat /\ \A b \in B : b \in Nat
  BY <1>4, BytesType, RxBufferAssumption
<1>6. IsFiniteSet(C) /\ Cardinality(C) \in Nat
  BY <1>3, BytesFinite DEF InOrderBuffer
<1>7. rx.size = Cardinality(B) /\ \A b \in B : b < r + MaxBuffer
  BY DEF Counted
<1>8. t.size = Cardinality(C)
  <2> DEFINE I == r .. r + k - 1
  <2>1. B = I \union C /\ I \intersect C = {}
    <3> HIDE DEF B, C
    <3>1. \A x \in I : x \in B /\ x \notin C
      BY <1>3, <1>4
    <3>2. ASSUME NEW x \in B PROVE x \in I \/ x \in C
      BY <1>3, <1>4, <1>5
    <3> HIDE DEF I
    <3> QED BY <3>1, <3>2, <1>3
  <2>2. IsFiniteSet(I) /\ Cardinality(I) = k
    BY <1>3, <1>4, IntervalSize
  <2> HIDE DEF I, B, C
  <2>3. Cardinality(I \union C) = Cardinality(I) + Cardinality(C) - Cardinality(I \intersect C)
    BY <2>2, <1>6, FS_Union
  <2>4. Cardinality(I \intersect C) = 0
    BY <2>1, FS_EmptySet
  <2> DEFINE x == Cardinality(I \union C)
             y == Cardinality(I \intersect C)
             z == Cardinality(C)
  <2>5. rx.size = x /\ y = 0 /\ z \in Nat
    BY <2>1, <2>4, <1>6, <1>7
  <2>6. x = k + z - y
    BY <2>2, <2>3
  <2> HIDE DEF x, y, z
  <2>7. t.size = z
    BY <2>5, <2>6, <1>2, <1>3
  <2> QED BY <2>7 DEF z
<1>9. \A b \in C : b < (r + k) + MaxBuffer
  BY <1>3, <1>4, <1>5, <1>7
<1>10. /\ t.sack \in Seq(SackBlock) /\ Len(t.sack) <= SackListMax
       /\ \A b \in Nat : Reports(t.sack, b) => b \in C /\ b > t.next
  <2>1. /\ rx.sack \in Seq(SackBlock) /\ Len(rx.sack) <= SackListMax
        /\ \A b \in Nat : Reports(rx.sack, b) => b \in B /\ b > rx.next
    BY DEF Counted
  <2>2. \A b \in B : b > rx.next => r + k <= b
    <3>1. rx.next \in Nat
      BY <1>4 DEF InOrderBuffer
    <3> QED BY <3>1, <1>3, <1>4, <1>5
  <2> QED BY <2>1, <2>2, <1>2, <1>3
<1>11. AllReported(rx) => AllReported(t)
  BY <1>2, <1>3 DEF AllReported
<1> QED BY <1>2, <1>8, <1>9, <1>10, <1>11 DEF Counted, t, k
-----------------------------------------------------------------------------
(***************************************************************************)
(* The receiver.                                                           *)
(***************************************************************************)

SockFields == {"rx", "state", "finSent", "shutdownSend", "delAckCount", "delAckTimer",
               "highTxAck", "advWnd", "read", "replies"}

\* An ACK may have advertised the right edge e: the window last advertised reaches
\* it from the next expected byte, and without a FIN it lies in the buffer.
Offered(s, e) ==
    /\ e \in Int /\ e <= s.rx.next + s.advWnd
    /\ ~s.rx.gotFin => e <= Len(s.read) + MaxBuffer

RightEdge(m) == m.ack + m.wnd

\* No reply falls short of e by more than the window scale loses.
Reach(q, e) == \A m \in Range(q) : RightEdge(m) + WindUnit > e

Good(s) ==
    LET r == Len(s.read)
    IN  /\ DOMAIN s = SockFields
        /\ InOrderBuffer(s.rx, r, StreamLength)
        /\ s.read \in Seq(Nat) /\ s.read = [i \in 1 .. r |-> i - 1]
        /\ s.highTxAck \in Nat /\ s.highTxAck <= s.rx.next
        /\ s.advWnd \in Int /\ s.advWnd <= MaxBuffer
        /\ s.rx.gotFin => StreamLength <= r + MaxBuffer
        /\ s.replies \in Seq(Range(s.replies))
        /\ \A m \in Range(s.replies) : Offered(s, RightEdge(m))

\* Byte b has been received.
Has(s, b) == b < Len(s.read) \/ b \in BytesOf(s.rx.data)

Grows(s, t) ==
    /\ Len(s.read) <= Len(t.read)
    /\ s.highTxAck <= t.highTxAck
    /\ \A b \in 0 .. StreamLength - 1 : Has(s, b) => Has(t, b)
    /\ \A e : Offered(s, e) => /\ Offered(t, e)
                               /\ Reach(s.replies, e) => Reach(t.replies, e)

Keeps(s, t) == Good(t) /\ Grows(s, t)

-----------------------------------------------------------------------------
(***************************************************************************)
(* The parts of Good.                                                      *)
(***************************************************************************)
LEMMA GoodTypes ==
    ASSUME NEW s, Good(s)
    PROVE  /\ Len(s.read) \in Nat /\ Len(s.read) <= StreamLength
           /\ s.rx.next \in Nat /\ Len(s.read) <= s.rx.next
           /\ s.rx.next <= StreamLength + 1
           /\ s.highTxAck \in Nat
<1>1. s.read \in Seq(Nat) /\ InOrderBuffer(s.rx, Len(s.read), StreamLength)
      /\ s.highTxAck \in Nat
  BY DEF Good
<1>2. Len(s.read) \in Nat
  BY <1>1, LenProperties
<1> QED BY <1>1, <1>2, ReceiverAssumption DEF InOrderBuffer

LEMMA GrowsTransitive ==
    ASSUME NEW s, Good(s), NEW t, Keeps(s, t), NEW u, Keeps(t, u)
    PROVE  Keeps(s, u)
<1>1. Len(s.read) \in Nat /\ Len(t.read) \in Nat /\ Len(u.read) \in Nat
  BY GoodTypes DEF Keeps
<1>2. s.highTxAck \in Nat /\ t.highTxAck \in Nat /\ u.highTxAck \in Nat
  BY GoodTypes DEF Keeps
<1> QED BY <1>1, <1>2 DEF Keeps, Grows

\* The other fields do not matter.
LEMMA OtherFields ==
    ASSUME NEW s, Good(s), NEW t, DOMAIN t = SockFields,
           t.rx = s.rx, t.read = s.read, t.highTxAck = s.highTxAck,
           t.advWnd = s.advWnd, t.replies = s.replies
    PROVE  Keeps(s, t)
<1>1. \A e : Offered(s, e) => Offered(t, e)
  BY DEF Offered
<1>2. Good(t)
  BY <1>1 DEF Good
<1>3. Len(s.read) <= Len(t.read) /\ s.highTxAck <= t.highTxAck
  BY GoodTypes
<1>4. \A b : Has(s, b) => Has(t, b)
  BY DEF Has
<1> QED BY <1>1, <1>2, <1>3, <1>4 DEF Keeps, Grows

LEMMA NoReplies == <<>> \in Seq(Range(<<>>)) /\ Range(<<>>) = {}
<1>1. Range(<<>>) = {}
  BY DEF Range
<1> QED BY <1>1, EmptySeq

LEMMA OneMoreReply ==
    ASSUME NEW q, q \in Seq(Range(q)), NEW m
    PROVE  /\ Append(q, m) \in Seq(Range(Append(q, m)))
           /\ Range(Append(q, m)) = Range(q) \union {m}
<1> DEFINE S == Range(q) \union {m}
           a == Append(q, m)
<1>1. q \in Seq(S) /\ m \in S
  BY SeqMonotonic
<1>2. /\ a \in Seq(S) /\ Len(a) = Len(q) + 1 /\ Len(q) \in Nat
      /\ DOMAIN q = 1 .. Len(q) /\ DOMAIN a = 1 .. Len(a)
      /\ \A i \in 1 .. Len(q) : a[i] = q[i]
      /\ a[Len(q) + 1] = m
  <2> HIDE DEF S
  <2> QED BY <1>1, AppendProperties, LenProperties
<1> HIDE DEF a
<1>3. Range(a) = S
  <2>1. \A x : x \in Range(a) <=> \E i \in DOMAIN a : x = a[i]
    BY DEF Range
  <2>2. \A x : x \in Range(q) <=> \E i \in DOMAIN q : x = q[i]
    BY DEF Range
  <2>3. \A i \in DOMAIN a : a[i] \in S
    BY <1>2
  <2>4. \A i \in DOMAIN q : q[i] \in Range(a)
    BY <1>2, <2>1
  <2>5. m \in Range(a)
    BY <1>2, <2>1
  <2> QED BY <2>1, <2>2, <2>3, <2>4, <2>5
<1> QED BY <1>2, <1>3 DEF a

-----------------------------------------------------------------------------
(***************************************************************************)
(* Sending an ACK.                                                         *)
(***************************************************************************)
LEMMA ScaledIs ==
    ASSUME NEW w \in Int
    PROVE  Scaled(w) \in Int /\ Scaled(w) <= w /\ w < Scaled(w) + WindUnit
<1>1. WindUnit \in Nat /\ WindUnit > 0
  BY ReceiverAssumption
<1> QED BY <1>1 DEF Scaled

\* Without a FIN the window ends m_maxBuffer beyond what has been read.
LEMMA MaxRxSequenceIs ==
    ASSUME NEW n \in Nat, NEW r, NEW rx, InOrderBuffer(rx, r, n), ~rx.gotFin
    PROVE  MaxRxSequence(rx) = r + MaxBuffer
<1>1. /\ Placed(rx.data, n) /\ r \in Nat /\ rx.avail \in Nat /\ rx.next \in Nat
      /\ \A b \in BytesOf(rx.data) : r <= b
      /\ \A b \in r .. r + rx.avail - 1 : b \in BytesOf(rx.data)
      /\ rx.next = r + rx.avail
  BY DEF InOrderBuffer
<1>2. \A b \in BytesOf(rx.data) : b \in Nat /\ b < n
  BY <1>1, BytesType
<1>3. \A h \in DOMAIN rx.data : h \in Nat /\ r <= h /\ h < n
  BY <1>1, <1>2, BytesType
<1>4. MaxBuffer \in Nat
  BY RxBufferAssumption
<1>5. CASE rx.avail = 0
  <2>1. CASE DOMAIN rx.data # {} /\ rx.next > Begin(rx.data)
    <3>1. Begin(rx.data) \in DOMAIN rx.data
      BY <2>1, <1>1, BeginIs
    <3> QED BY <3>1, <2>1, <1>1, <1>3, <1>5
  <2>2. CASE ~(DOMAIN rx.data # {} /\ rx.next > Begin(rx.data))
    <3>1. MaxRxSequence(rx) = rx.next + MaxBuffer
      BY <2>2 DEF MaxRxSequence
    <3> QED BY <3>1, <1>1, <1>4, <1>5
  <2> QED BY <2>1, <2>2
<1>6. CASE rx.avail > 0
  <2>1. r \in BytesOf(rx.data)
    BY <1>1, <1>6
  <2>2. PICK h \in DOMAIN rx.data : h <= r /\ r < EndOf(rx.data, h)
    BY <2>1, <1>1, BytesType
  <2>3. Begin(rx.data) \in DOMAIN rx.data /\ Begin(rx.data) <= h
    BY <2>2, <1>1, BeginIs
  <2>4. Begin(rx.data) = r
    BY <2>2, <2>3, <1>1, <1>3
  <2>5. rx.next > Begin(rx.data)
    BY <2>4, <1>1, <1>6
  <2>6. MaxRxSequence(rx) = r + MaxBuffer
    BY <2>2, <2>4, <2>5 DEF MaxRxSequence
  <2> QED BY <2>6, <1>1, <1>4
<1> QED BY <1>1, <1>5, <1>6

LEMMA WindowIs ==
    ASSUME NEW s, Good(s)
    PROVE  LET w == AdvertisedWindowSize(s)
           IN  /\ w \in Int /\ w <= MaxBuffer
               /\ \A e : Offered(s, e) => e <= s.rx.next + w
               /\ ~s.rx.gotFin => s.rx.next + w = Len(s.read) + MaxBuffer
<1> DEFINE r == Len(s.read)
           w == AdvertisedWindowSize(s)
<1>1. /\ r \in Nat /\ s.rx.next \in Nat /\ r <= s.rx.next
      /\ MaxBuffer \in Nat /\ StreamLength \in Nat
  BY GoodTypes, RxBufferAssumption, ReceiverAssumption
<1>2. CASE s.rx.gotFin
  <2>1. w = s.advWnd
    BY <1>2 DEF AdvertisedWindowSize
  <2> QED BY <1>2, <2>1 DEF Good, Offered
<1>3. CASE ~s.rx.gotFin
  <2>1. w = MaxRxSequence(s.rx) - s.rx.next
    BY <1>3 DEF AdvertisedWindowSize
  <2>2. InOrderBuffer(s.rx, r, StreamLength)
    BY DEF Good
  <2>3. MaxRxSequence(s.rx) = r + MaxBuffer
    BY <2>2, <1>1, <1>3, MaxRxSequenceIs
  <2>4. \A e : Offered(s, e) => e <= r + MaxBuffer
    BY <1>3 DEF Offered
  <2> HIDE DEF w, r
  <2>5. w \in Int /\ w <= MaxBuffer /\ s.rx.next + w = r + MaxBuffer
    BY <2>1, <2>3, <1>1
  <2> QED BY <2>4, <2>5 DEF w, r
<1> QED BY <1>2, <1>3

LEMMA SendEmptyPacketIs ==
    ASSUME NEW s, Good(s)
    PROVE  Keeps(s, SendEmptyPacket(s))
<1> DEFINE t == SendEmptyPacket(s)
           w == AdvertisedWindowSize(s)
           m == [ack |-> s.rx.next, sack |-> s.rx.sack, wnd |-> Scaled(w)]
<1>1. /\ DOMAIN t = SockFields /\ t.rx = s.rx /\ t.read = s.read
      /\ t.highTxAck = MaxOf(s.highTxAck, s.rx.next)
      /\ t.advWnd = w /\ t.replies = Append(s.replies, m)
  BY DEF SendEmptyPacket, Good, SockFields
<1>2. RightEdge(m) = s.rx.next + Scaled(w)
  BY DEF RightEdge
<1>3. /\ w \in Int /\ w <= MaxBuffer
      /\ \A e : Offered(s, e) => e <= s.rx.next + w
      /\ ~s.rx.gotFin => s.rx.next + w = Len(s.read) + MaxBuffer
  BY WindowIs
<1> HIDE DEF t, m, w
<1>4. s.rx.next \in Nat /\ Len(s.read) \in Nat /\ MaxBuffer \in Nat /\ WindUnit \in Nat
  BY GoodTypes, RxBufferAssumption, ReceiverAssumption
<1>5. Scaled(w) \in Int /\ Scaled(w) <= w /\ w < Scaled(w) + WindUnit
  BY <1>3, ScaledIs
<1>6. \A e : Offered(s, e) => Offered(t, e)
  BY <1>1, <1>3 DEF Offered
<1>7. Offered(t, RightEdge(m))
  BY <1>1, <1>2, <1>3, <1>4, <1>5 DEF Offered
<1>8. /\ t.replies \in Seq(Range(t.replies))
      /\ Range(t.replies) = Range(s.replies) \union {m}
  BY <1>1, OneMoreReply DEF Good
<1>9. t.highTxAck \in Nat /\ s.highTxAck <= t.highTxAck /\ t.highTxAck <= t.rx.next
  BY <1>1, GoodTypes DEF MaxOf, Good
<1>10. Good(t)
  <2>1. \A i \in Range(s.replies) : Offered(t, RightEdge(i))
    BY <1>6 DEF Good
  <2>2. \A i \in Range(t.replies) : Offered(t, RightEdge(i))
    BY <2>1, <1>7, <1>8
  <2> QED BY <1>1, <1>3, <1>8, <1>9, <2>2 DEF Good
<1>11. Len(s.read) <= Len(t.read) /\ \A b : Has(s, b) => Has(t, b)
  BY <1>1, <1>4 DEF Has
<1>12. ASSUME NEW e, Offered(s, e), Reach(s.replies, e) PROVE Reach(t.replies, e)
  <2>1. e \in Int /\ e <= s.rx.next + w
    BY <1>3, <1>12 DEF Offered
  <2>2. RightEdge(m) + WindUnit > e
    BY <2>1, <1>2, <1>3, <1>4, <1>5
  <2> QED BY <2>2, <1>8, <1>12 DEF Reach
<1> QED BY <1>6, <1>9, <1>10, <1>11, <1>12 DEF Keeps, Grows, t

-----------------------------------------------------------------------------
(***************************************************************************)
(* Closing.                                                                *)
(***************************************************************************)
LEMMA DoCloseIs ==
    ASSUME NEW s, Good(s)
    PROVE  Keeps(s, DoClose(s))
<1> DEFINE a == SendEmptyPacket(s)
           t == DoClose(s)
<1>1. CASE s.state \in {"ESTABLISHED", "CLOSE_WAIT"}
  <2>1. Keeps(s, a)
    BY SendEmptyPacketIs
  <2>2. DOMAIN a = SockFields /\ Good(a)
    BY <2>1 DEF Keeps, Good
  <2>3. t = [a EXCEPT !.finSent = TRUE,
                      !.state = IF a.state = "ESTABLISHED" THEN "FIN_WAIT_1" ELSE "LAST_ACK"]
    BY <1>1 DEF DoClose
  <2> HIDE DEF a, t
  <2>4. /\ DOMAIN t = SockFields /\ t.rx = a.rx /\ t.read = a.read
        /\ t.highTxAck = a.highTxAck /\ t.advWnd = a.advWnd /\ t.replies = a.replies
    BY <2>2, <2>3 DEF SockFields
  <2>5. Keeps(a, t)
    BY <2>2, <2>4, OtherFields
  <2>6. Keeps(s, t)
    BY <2>1, <2>5, GrowsTransitive
  <2> QED BY <2>6 DEF t
<1>2. CASE s.state \notin {"ESTABLISHED", "CLOSE_WAIT"}
  <2>1. DoClose(s) = s
    BY <1>2 DEF DoClose
  <2>2. Keeps(s, s)
    BY OtherFields DEF Good
  <2> QED BY <2>1, <2>2
<1> QED BY <1>1, <1>2

LEMMA SendRSTIs ==
    ASSUME NEW s, Good(s)
    PROVE  Keeps(s, SendRST(s))
<1> DEFINE t == SendRST(s)
<1>1. /\ DOMAIN t = SockFields /\ t.rx = s.rx /\ t.read = s.read
      /\ t.highTxAck = s.highTxAck /\ t.advWnd = s.advWnd /\ t.replies = s.replies
  BY DEF SendRST, Good, SockFields
<1> HIDE DEF t
<1>2. Keeps(s, t)
  BY <1>1, OtherFields
<1> QED BY <1>2 DEF t

LEMMA CloseSocketIs ==
    ASSUME NEW s, Good(s)
    PROVE  Keeps(s, CloseSocket(s))
BY SendRSTIs, DoCloseIs DEF CloseSocket

LEMMA DoPeerCloseIs ==
    ASSUME NEW s, Good(s)
    PROVE  Keeps(s, DoPeerClose(s))
<1> DEFINE t == [s EXCEPT !.state = "CLOSE_WAIT"]
<1>1. /\ DOMAIN t = SockFields /\ t.rx = s.rx /\ t.read = s.read
      /\ t.highTxAck = s.highTxAck /\ t.advWnd = s.advWnd /\ t.replies = s.replies
  BY DEF Good, SockFields
<1>2. DoPeerClose(s) = IF s.shutdownSend THEN CloseSocket(t) ELSE SendEmptyPacket(t)
  BY DEF DoPeerClose
<1> HIDE DEF t
<1>3. Keeps(s, t) /\ Good(t)
  BY <1>1, OtherFields DEF Keeps
<1>4. Keeps(t, CloseSocket(t)) /\ Keeps(t, SendEmptyPacket(t))
  BY <1>3, CloseSocketIs, SendEmptyPacketIs
<1>5. Keeps(s, CloseSocket(t)) /\ Keeps(s, SendEmptyPacket(t))
  BY <1>3, <1>4, GrowsTransitive
<1> QED BY <1>2, <1>5

-----------------------------------------------------------------------------
(***************************************************************************)
(* Receiving.                                                              *)
(***************************************************************************)
LEMMA RecvIs ==
    ASSUME NEW s, Good(s), NEW n \in Nat
    PROVE  Keeps(s, Recv(s, n))
<1> DEFINE t == Recv(s, n)
           r == Len(s.read)
           k == ExtractSize(s.rx, n)
           x == Extract(s.rx, n)
           e == Extracted(s.rx, n)
<1>1. /\ DOMAIN t = SockFields /\ t.rx = x /\ t.read = s.read \o e
      /\ t.highTxAck = s.highTxAck /\ t.advWnd = s.advWnd /\ t.replies = s.replies
  BY DEF Recv, Good, SockFields
<1>2. /\ InOrderBuffer(s.rx, r, StreamLength) /\ StreamLength \in Nat
      /\ s.read \in Seq(Nat) /\ s.read = [i \in 1 .. r |-> i - 1]
  BY ReceiverAssumption DEF Good
<1>3. /\ k \in Nat /\ e = Slice(r, k)
      /\ InOrderBuffer(x, r + k, StreamLength)
      /\ \A b : b \in BytesOf(x.data) <=> b \in BytesOf(s.rx.data) /\ r + k <= b
      /\ x.next = s.rx.next /\ x.gotFin = s.rx.gotFin
  <2>1. InOrderBuffer(s.rx, Len(s.read), StreamLength) /\ StreamLength \in Nat
    BY <1>2
  <2>2. Taken(s.rx, r, StreamLength, k, e, x)
    BY <2>1, ExtractIs
  <2> HIDE DEF r, k, x, e
  <2> QED BY <2>2 DEF Taken
<1>4. r \in Nat
  BY GoodTypes
<1> HIDE DEF t, r, k, x, e
<1>5. Len(t.read) = r + k /\ t.read \in Seq(Nat) /\ t.read = [i \in 1 .. r + k |-> i - 1]
  <2>1. e \in Seq(Nat) /\ Len(e) = k
    BY <1>3, <1>4 DEF Slice
  <2>2. Len(s.read) = r
    BY DEF r
  <2>3. /\ t.read \in Seq(Nat) /\ Len(t.read) = r + k
        /\ \A i \in 1 .. r + k :
               t.read[i] = IF i <= r THEN s.read[i] ELSE e[i - r]
    <3>1. /\ s.read \o e \in Seq(Nat) /\ Len(s.read \o e) = Len(s.read) + Len(e)
          /\ \A i \in 1 .. Len(s.read) + Len(e) :
                 (s.read \o e)[i] = IF i <= Len(s.read) THEN s.read[i] ELSE e[i - Len(s.read)]
      BY <1>2, <2>1, ConcatProperties
    <3> QED BY <3>1, <1>1, <2>1, <2>2
  <2>4. ASSUME NEW i \in 1 .. r + k PROVE t.read[i] = i - 1
    <3>1. CASE i <= r
      BY <3>1, <2>3, <1>2, <1>4
    <3>2. CASE ~(i <= r)
      <4>1. i - r \in 1 .. k
        BY <3>2, <1>3, <1>4
      <4>2. e[i - r] = r + (i - r) - 1
        BY <4>1, <1>3 DEF Slice
      <4> QED BY <4>2, <3>2, <2>3, <1>4
    <3> QED BY <3>1, <3>2
  <2>5. t.read = [i \in 1 .. Len(t.read) |-> t.read[i]]
    BY <2>3
  <2> QED BY <2>3, <2>4, <2>5
<1>6. s.rx.gotFin => StreamLength <= r + k + MaxBuffer
  <2>1. s.rx.gotFin => StreamLength <= r + MaxBuffer
    BY DEF Good, r
  <2>2. MaxBuffer \in Nat
    BY RxBufferAssumption
  <2> QED BY <2>1, <2>2, <1>2, <1>3, <1>4
<1>7. /\ t.replies = s.replies
      /\ \A a : Offered(s, a) => Offered(t, a)
  <2>1. s.advWnd \in Int /\ Len(s.read) = r /\ MaxBuffer \in Nat
    BY RxBufferAssumption DEF Good, r
  <2>2. ASSUME NEW a, Offered(s, a) PROVE Offered(t, a)
    <3>1. /\ a \in Int /\ a <= s.rx.next + s.advWnd
          /\ ~s.rx.gotFin => a <= r + MaxBuffer
      BY <2>1, <2>2 DEF Offered
    <3>2. ~s.rx.gotFin => a <= r + k + MaxBuffer
      BY <2>1, <3>1, <1>3, <1>4
    <3> QED BY <3>1, <3>2, <1>1, <1>3, <1>5 DEF Offered
  <2> QED BY <2>2, <1>1
<1>8. Good(t)
  <2>1. /\ s.highTxAck \in Nat /\ s.highTxAck <= s.rx.next
        /\ s.advWnd \in Int /\ s.advWnd <= MaxBuffer
        /\ s.replies \in Seq(Range(s.replies))
        /\ \A m \in Range(s.replies) : Offered(s, RightEdge(m))
    BY DEF Good
  <2> QED BY <2>1, <1>1, <1>3, <1>5, <1>6, <1>7 DEF Good
<1>9. ASSUME NEW b \in 0 .. StreamLength - 1, Has(s, b) PROVE Has(t, b)
  <2>1. b < r \/ b \in BytesOf(s.rx.data)
    BY <1>9 DEF Has, r
  <2> QED BY <2>1, <1>1, <1>2, <1>3, <1>4, <1>5 DEF Has
<1>10. r <= Len(t.read) /\ s.highTxAck <= t.highTxAck
  <2>1. s.highTxAck \in Nat
    BY GoodTypes
  <2> QED BY <2>1, <1>1, <1>3, <1>4, <1>5
<1> QED BY <1>7, <1>8, <1>9, <1>10 DEF Keeps, Grows, t, r

LEMMA DelayIs ==
    ASSUME NEW s, Good(s)
    PROVE  Keeps(s, Delay(s))
<1> DEFINE t == Delay(s)
<1>1. /\ DOMAIN t = SockFields /\ t.rx = s.rx /\ t.read = s.read
      /\ t.highTxAck = s.highTxAck /\ t.advWnd = s.advWnd /\ t.replies = s.replies
  BY DEF Delay, Good, SockFields
<1> HIDE DEF t
<1>2. Keeps(s, t)
  BY <1>1, OtherFields
<1> QED BY <1>2 DEF t

LEMMA AckStoredIs ==
    ASSUME NEW s, NEW seg, NEW t, Good(t)
    PROVE  Keeps(t, AckStored(s, seg, t))
<1>1. AckStored(s, seg, t) \in {DoPeerClose(t), SendEmptyPacket(t), Delay(t)}
  BY DEF AckStored
<1> QED BY <1>1, DoPeerCloseIs, SendEmptyPacketIs, DelayIs

LEMMA NotifiedIs ==
    ASSUME NEW s, NEW t, Good(t), NEW n \in Nat
    PROVE  Keeps(t, Notified(s, t, n))
<1>1. Keeps(t, t)
  BY OtherFields DEF Good
<1> QED BY <1>1, RecvIs DEF Notified

\* What the peer sends: bytes of its stream; the FIN comes at the end, and only
\* when the end fits into the buffer.
SegFine(seg, r) ==
    /\ seg.seq \in Nat /\ seg.len \in Nat /\ seg.seq + seg.len <= StreamLength
    /\ "FIN" \in seg.flags =>
           seg.seq + seg.len = StreamLength /\ StreamLength <= r + MaxBuffer

\* Storing a segment's bytes keeps the socket good.
LEMMA AddedIsGood ==
    ASSUME NEW s, Good(s), NEW seg, SegFine(seg, Len(s.read))
    PROVE  LET a == [s EXCEPT !.rx = Add(@, seg.seq, Packet(seg))]
           IN  /\ Keeps(s, a)
               /\ seg.seq + seg.len <= Len(s.read) + MaxBuffer =>
                      \A b \in seg.seq .. seg.seq + seg.len - 1 :
                          b \in 0 .. StreamLength - 1 /\ Has(a, b)
<1> DEFINE a == [s EXCEPT !.rx = Add(@, seg.seq, Packet(seg))]
           r == Len(s.read)
<1>1. /\ seg.seq \in Nat /\ seg.len \in Nat /\ seg.seq + seg.len <= StreamLength
      /\ StreamLength \in Nat /\ InOrderBuffer(s.rx, r, StreamLength)
  BY ReceiverAssumption DEF Good, SegFine
<1>2. Packet(seg) = Slice(seg.seq, seg.len)
  BY DEF Packet, Slice
<1>3. Added(s.rx, r, StreamLength, seg.seq, seg.len, Add(s.rx, seg.seq, Packet(seg)))
  <2> HIDE DEF r
  <2> QED BY <1>1, <1>2, AddIs
<1>4. /\ DOMAIN a = SockFields /\ a.rx = Add(s.rx, seg.seq, Packet(seg))
      /\ a.read = s.read /\ a.highTxAck = s.highTxAck
      /\ a.advWnd = s.advWnd /\ a.replies = s.replies
  BY DEF Good, SockFields
<1> HIDE DEF a
<1>5. Keeps(s, a)
  <2>1. s.highTxAck <= a.rx.next
    <3>1. s.highTxAck \in Nat /\ s.highTxAck <= s.rx.next /\ s.rx.next \in Nat
      BY GoodTypes DEF Good
    <3>2. s.rx.next <= a.rx.next /\ a.rx.next \in Nat
      BY <1>1, <1>3, <1>4 DEF Added, InOrderBuffer
    <3> QED BY <3>1, <3>2
  <2>5. ASSUME NEW e, Offered(s, e) PROVE Offered(a, e)
    <3>1. /\ s.rx.next \in Nat /\ s.advWnd \in Int /\ a.rx.next \in Nat
          /\ s.rx.next <= a.rx.next /\ a.rx.gotFin = s.rx.gotFin
      <4>1. s.rx.next \in Nat /\ s.advWnd \in Int
        BY GoodTypes DEF Good
      <4>2. s.rx.next <= a.rx.next /\ a.rx.gotFin = s.rx.gotFin
        BY <1>3, <1>4 DEF Added
      <4>3. a.rx.next \in Nat
        BY <1>1, <1>3, <1>4 DEF Added, InOrderBuffer
      <4> QED BY <4>1, <4>2, <4>3
    <3> QED BY <3>1, <2>5, <1>4 DEF Offered
  <2>2. Good(a)
    BY <1>3, <1>4, <2>1, <2>5 DEF Added, Good
  <2>3. \A b : Has(s, b) => Has(a, b)
    BY <1>3, <1>4 DEF Added, Has
  <2>4. Len(s.read) <= Len(a.read) /\ s.highTxAck <= a.highTxAck
    BY <1>4, GoodTypes
  <2> QED BY <2>2, <2>3, <2>4, <2>5, <1>4 DEF Keeps, Grows
<1>6. seg.seq + seg.len <= r + MaxBuffer =>
           \A b \in seg.seq .. seg.seq + seg.len - 1 : b \in 0 .. StreamLength - 1 /\ Has(a, b)
  BY <1>1, <1>3, <1>4 DEF Added, Has
<1> QED BY <1>5, <1>6 DEF a, r

LEMMA ReceivedDataIs ==
    ASSUME NEW s, Good(s), NEW seg, SegFine(seg, Len(s.read)), NEW n \in Nat
    PROVE  /\ Keeps(s, ReceivedData(s, seg, n))
           /\ seg.seq + seg.len <= Len(s.read) + MaxBuffer =>
                  \A b \in seg.seq .. seg.seq + seg.len - 1 : Has(ReceivedData(s, seg, n), b)
<1> DEFINE a == [s EXCEPT !.rx = Add(@, seg.seq, Packet(seg))]
           u == Notified(s, a, n)
           t == ReceivedData(s, seg, n)
           r == Len(s.read)
<1>1. /\ Keeps(s, a)
      /\ seg.seq + seg.len <= r + MaxBuffer =>
             \A b \in seg.seq .. seg.seq + seg.len - 1 : b \in 0 .. StreamLength - 1 /\ Has(a, b)
  BY AddedIsGood
<1>2. t = IF Stores(Trimmed(s.rx, seg.seq, Packet(seg)))
          THEN AckStored(s, seg, u) ELSE SendEmptyPacket(s)
  BY DEF ReceivedData
<1>3. /\ ~Stores(Trimmed(s.rx, seg.seq, Packet(seg))) => a.rx = s.rx
      /\ a.read = s.read
  BY DEF Good, SockFields, Add, AddRange
<1> HIDE DEF a, t
<1>4. Good(a)
  BY <1>1 DEF Keeps
<1>5. Keeps(a, AckStored(s, seg, u))
  <2>1. Keeps(a, u)
    BY <1>4, NotifiedIs
  <2> HIDE DEF u
  <2>2. Keeps(u, AckStored(s, seg, u))
    BY <2>1, AckStoredIs DEF Keeps
  <2> QED BY <1>4, <2>1, <2>2, GrowsTransitive
<1> HIDE DEF u
<1>6. CASE Stores(Trimmed(s.rx, seg.seq, Packet(seg)))
  <2>1. t = AckStored(s, seg, u)
    BY <1>2, <1>6
  <2>2. Keeps(s, t)
    BY <2>1, <1>1, <1>5, GrowsTransitive
  <2>3. \A b \in 0 .. StreamLength - 1 : Has(a, b) => Has(t, b)
    BY <2>1, <1>5 DEF Keeps, Grows
  <2> QED BY <2>2, <2>3, <1>1 DEF t
<1>7. CASE ~Stores(Trimmed(s.rx, seg.seq, Packet(seg)))
  <2>1. t = SendEmptyPacket(s)
    BY <1>2, <1>7
  <2>2. Keeps(s, t)
    BY <2>1, SendEmptyPacketIs
  <2>3. \A b : Has(a, b) => Has(s, b)
    BY <1>3, <1>7 DEF Has
  <2>4. \A b \in 0 .. StreamLength - 1 : Has(a, b) => Has(t, b)
    BY <2>2, <2>3 DEF Keeps, Grows
  <2> QED BY <2>2, <2>4, <1>1 DEF t
<1> QED BY <1>6, <1>7

LEMMA IfDataIs ==
    ASSUME NEW s, Good(s), NEW seg, SegFine(seg, Len(s.read)), NEW n \in Nat
    PROVE  /\ Keeps(s, IfData(s, seg, n))
           /\ seg.seq + seg.len <= Len(s.read) + MaxBuffer =>
                  \A b \in seg.seq .. seg.seq + seg.len - 1 : Has(IfData(s, seg, n), b)
<1>1. CASE seg.len > 0
  <2>1. IfData(s, seg, n) = ReceivedData(s, seg, n)
    BY <1>1 DEF IfData
  <2> QED BY <2>1, ReceivedDataIs
<1>2. CASE ~(seg.len > 0)
  <2>1. IfData(s, seg, n) = s
    BY <1>2 DEF IfData
  <2>2. seg.seq \in Nat /\ seg.len = 0
    BY <1>2 DEF SegFine
  <2>3. seg.seq .. seg.seq + seg.len - 1 = {}
    BY <2>2
  <2>4. Keeps(s, s)
    BY OtherFields DEF Good
  <2> QED BY <2>1, <2>3, <2>4
<1> QED BY <1>1, <1>2

\* The place of a FIN is recorded: no byte from there on is missing.
LEMMA FinIs ==
    ASSUME NEW s, Good(s), NEW f \in 0 .. StreamLength,
           \A b \in f .. StreamLength - 1 : Has(s, b),
           StreamLength <= Len(s.read) + MaxBuffer
    PROVE  Keeps(s, [s EXCEPT !.rx = SetFinSequence(@, f)])
<1> DEFINE t == [s EXCEPT !.rx = SetFinSequence(@, f)]
           r == Len(s.read)
           x == SetFinSequence(s.rx, f)
<1>1. /\ InOrderBuffer(s.rx, r, StreamLength) /\ StreamLength \in Nat
      /\ \A b \in f .. StreamLength - 1 : b < r \/ b \in BytesOf(s.rx.data)
  BY ReceiverAssumption DEF Good, Has
<1>2. /\ InOrderBuffer(x, r, StreamLength) /\ x.data = s.rx.data
      /\ s.rx.next <= x.next /\ x.gotFin
  <2> HIDE DEF r
  <2> QED BY <1>1, SetFinSequenceIs
<1>3. /\ DOMAIN t = SockFields /\ t.rx = x
      /\ t.read = s.read /\ t.highTxAck = s.highTxAck
      /\ t.advWnd = s.advWnd /\ t.replies = s.replies
  BY DEF Good, SockFields
<1> HIDE DEF t, x
<1>4. s.highTxAck <= x.next
  <2>1. s.highTxAck \in Nat /\ s.highTxAck <= s.rx.next /\ s.rx.next \in Nat
    BY GoodTypes DEF Good
  <2>2. x.next \in Nat
    BY <1>1, <1>2 DEF InOrderBuffer
  <2> QED BY <2>1, <2>2, <1>2
<1>5. ASSUME NEW e, Offered(s, e) PROVE Offered(t, e)
  <2>1. /\ s.rx.next \in Nat /\ s.advWnd \in Int /\ x.next \in Nat
        /\ s.rx.next <= x.next
    BY <1>1, <1>2, GoodTypes DEF Good, InOrderBuffer
  <2> QED BY <2>1, <1>2, <1>3, <1>5 DEF Offered
<1>6. Good(t)
  BY <1>2, <1>3, <1>4, <1>5 DEF Good
<1>7. \A b : Has(s, b) => Has(t, b)
  BY <1>2, <1>3 DEF Has
<1>8. Len(s.read) <= Len(t.read) /\ s.highTxAck <= t.highTxAck
  BY <1>3, GoodTypes
<1> QED BY <1>3, <1>5, <1>6, <1>7, <1>8 DEF Keeps, Grows, t

LEMMA SegFineLater ==
    ASSUME NEW seg, NEW s, Good(s), NEW t, Keeps(s, t), SegFine(seg, Len(s.read))
    PROVE  SegFine(seg, Len(t.read))
<1>1. /\ Len(s.read) \in Nat /\ Len(t.read) \in Nat /\ Len(s.read) <= Len(t.read)
      /\ MaxBuffer \in Nat /\ StreamLength \in Nat
  BY GoodTypes, RxBufferAssumption, ReceiverAssumption DEF Keeps, Grows
<1> QED BY <1>1 DEF SegFine

LEMMA ProcessEstablishedIs ==
    ASSUME NEW s, Good(s), NEW seg, SegFine(seg, Len(s.read)), NEW n \in Nat
    PROVE  Keeps(s, ProcessEstablished(s, seg, n))
<1> DEFINE a == [s EXCEPT !.rx = SetFinSequence(@, FinPlace(seg))]
           d == IfData(a, seg, n)
<1>0. Keeps(s, s)
  BY OtherFields DEF Good
<1>1. CASE "FIN" \notin seg.flags
  <2>1. ProcessEstablished(s, seg, n) = IfData(s, seg, n)
    BY <1>1 DEF ProcessEstablished
  <2> QED BY <2>1, IfDataIs
<1>2. CASE "FIN" \in seg.flags
  <2>1. ProcessEstablished(s, seg, n) = s \/ ProcessEstablished(s, seg, n) = IfFinished(d)
    BY <1>2 DEF ProcessEstablished, PeerClose
  <2>2. FinPlace(seg) = StreamLength /\ StreamLength <= Len(s.read) + MaxBuffer
    BY <1>2 DEF FinPlace, SegFine
  <2>3. Keeps(s, a)
    <3>1. StreamLength \in 0 .. StreamLength /\ StreamLength .. StreamLength - 1 = {}
      BY ReceiverAssumption
    <3>2. a = [s EXCEPT !.rx = SetFinSequence(@, StreamLength)]
      BY <2>2
    <3> HIDE DEF a
    <3> QED BY <2>2, <3>1, <3>2, FinIs
  <2> HIDE DEF a
  <2>4. Keeps(a, d)
    <3>1. SegFine(seg, Len(a.read)) /\ Good(a)
      BY <2>3, SegFineLater DEF Keeps
    <3> QED BY <3>1, IfDataIs
  <2> HIDE DEF d
  <2>5. Keeps(s, d)
    BY <2>3, <2>4, GrowsTransitive
  <2>6. Keeps(s, DoPeerClose(d))
    BY <2>5, DoPeerCloseIs, GrowsTransitive DEF Keeps
  <2> QED BY <2>1, <2>5, <2>6, <1>0 DEF IfFinished
<1> QED BY <1>1, <1>2

LEMMA AckOrFinIs ==
    ASSUME NEW s, Good(s), NEW seg, SegFine(seg, Len(s.read)),
           "FIN" \in seg.flags => \A b \in seg.seq .. StreamLength - 1 : Has(s, b)
    PROVE  Keeps(s, AckOrFin(s, seg))
<1>1. CASE "FIN" \in seg.flags
  <2>1. AckOrFin(s, seg) = [s EXCEPT !.rx = SetFinSequence(@, seg.seq)]
    BY <1>1 DEF AckOrFin
  <2>2. seg.seq \in 0 .. StreamLength /\ StreamLength <= Len(s.read) + MaxBuffer
    <3>1. StreamLength \in Nat
      BY ReceiverAssumption
    <3> QED BY <1>1, <3>1 DEF SegFine
  <2> QED BY <1>1, <2>1, <2>2, FinIs
<1>2. CASE "FIN" \notin seg.flags
  <2> DEFINE t == [s EXCEPT !.state = "FIN_WAIT_2"]
  <2>1. AckOrFin(s, seg) = s \/ AckOrFin(s, seg) = t
    BY <1>2 DEF AckOrFin
  <2>2. /\ DOMAIN t = SockFields /\ t.rx = s.rx /\ t.read = s.read
        /\ t.highTxAck = s.highTxAck /\ t.advWnd = s.advWnd /\ t.replies = s.replies
    BY DEF Good, SockFields
  <2> HIDE DEF t
  <2>3. Keeps(s, s) /\ Keeps(s, t)
    BY <2>2, OtherFields DEF Good
  <2> QED BY <2>1, <2>3
<1> QED BY <1>1, <1>2

LEMMA BothClosedIs ==
    ASSUME NEW s, Good(s), NEW seg
    PROVE  Keeps(s, BothClosed(s, seg))
<1> DEFINE u == TimeWait(s)
           v == [s EXCEPT !.state = "CLOSING"]
<1>1. BothClosed(s, seg) \in {s, SendEmptyPacket(u), SendEmptyPacket(v)}
  BY DEF BothClosed
<1>2. /\ DOMAIN u = SockFields /\ u.rx = s.rx /\ u.read = s.read
      /\ u.highTxAck = s.highTxAck /\ u.advWnd = s.advWnd /\ u.replies = s.replies
  BY DEF TimeWait, Good, SockFields
<1>3. /\ DOMAIN v = SockFields /\ v.rx = s.rx /\ v.read = s.read
      /\ v.highTxAck = s.highTxAck /\ v.advWnd = s.advWnd /\ v.replies = s.replies
  BY DEF Good, SockFields
<1> HIDE DEF u, v
<1>4. Keeps(s, s) /\ Keeps(s, u) /\ Keeps(s, v)
  BY <1>2, <1>3, OtherFields DEF Good
<1>5. Keeps(s, SendEmptyPacket(u)) /\ Keeps(s, SendEmptyPacket(v))
  BY <1>4, SendEmptyPacketIs, GrowsTransitive DEF Keeps
<1> QED BY <1>1, <1>4, <1>5

LEMMA ProcessWaitIs ==
    ASSUME NEW s, Good(s), NEW seg, SegFine(seg, Len(s.read)), NEW n \in Nat
    PROVE  Keeps(s, ProcessWait(s, seg, n))
<1> DEFINE d == IfData(s, seg, n)
           f == AckOrFin(d, seg)
<1>1. /\ Keeps(s, d)
      /\ seg.seq + seg.len <= Len(s.read) + MaxBuffer =>
             \A b \in seg.seq .. seg.seq + seg.len - 1 : Has(d, b)
  BY IfDataIs
<1>2. ProcessWait(s, seg, n) = BothClosed(f, seg)
  BY DEF ProcessWait
<1> HIDE DEF d
<1>3. Good(d) /\ SegFine(seg, Len(d.read))
  BY <1>1, SegFineLater DEF Keeps
<1>4. "FIN" \in seg.flags => \A b \in seg.seq .. StreamLength - 1 : Has(d, b)
  BY <1>1 DEF SegFine
<1>5. Keeps(d, f)
  BY <1>3, <1>4, AckOrFinIs
<1> HIDE DEF f
<1>6. Keeps(f, BothClosed(f, seg))
  BY <1>5, BothClosedIs DEF Keeps
<1>7. Keeps(s, f)
  BY <1>1, <1>5, GrowsTransitive
<1> QED BY <1>2, <1>6, <1>7, GrowsTransitive

LEMMA ForwardUpIs ==
    ASSUME NEW s, Good(s), NEW seg, SegFine(seg, Len(s.read)), NEW n \in Nat
    PROVE  Keeps(s, ForwardUp(s, seg, n))
<1>1. ForwardUp(s, seg, n) \in {SendEmptyPacket(s), s, ProcessEstablished(s, seg, n),
                                ProcessWait(s, seg, n)}
  BY DEF ForwardUp
<1>2. Keeps(s, s)
  BY OtherFields DEF Good
<1> QED BY <1>1, <1>2, SendEmptyPacketIs, ProcessEstablishedIs, ProcessWaitIs

-----------------------------------------------------------------------------
(***************************************************************************)
(* The counters and the SACK list.                                         *)
(***************************************************************************)
\* A delayed ACK has not yet waited for DelAckMax segments.
DelayOK(s) ==
    /\ s.delAckCount \in 0 .. DelAckMax
    /\ s.delAckTimer => s.delAckCount < DelAckMax

\* What the handlers keep beyond Good: the buffer's counters and its SACK list
\* are right, and so is the delayed ACK.
Sound(s) ==
    /\ Counted(s.rx, Len(s.read))
    /\ DelayOK(s)
    /\ s.state \in Open \union {"CLOSING", "LAST_ACK", "RESET"}

\* A step that stores nothing does not change the SACK list.
Leaves(s, t) ==
    /\ Sound(t) /\ t.rx.sack = s.rx.sack
    /\ AllReported(s.rx) => AllReported(t.rx)

\* One that stores a segment adds it, if there is room.
Files(s, t) ==
    /\ Sound(t)
    /\ AllReported(s.rx) /\ Len(s.rx.sack) < SackListMax => AllReported(t.rx)

\* At most one segment is stored, and anything may come before and after.
LEMMA LeavesAndFiles ==
    ASSUME NEW s, NEW t, NEW u
    PROVE  /\ Leaves(s, t) /\ Leaves(t, u) => Leaves(s, u)
           /\ Leaves(s, t) /\ Files(t, u) => Files(s, u)
           /\ Files(s, t) /\ Leaves(t, u) => Files(s, u)
           /\ Leaves(s, t) => Files(s, t)
BY DEF Leaves, Files

\* The buffer is not touched.
LEMMA LeavesBuffer ==
    ASSUME NEW s, Sound(s), NEW t, t.rx = s.rx, t.read = s.read,
           \/ t.delAckCount = 0
           \/ t.delAckCount = s.delAckCount /\ (t.delAckTimer => s.delAckTimer),
           t.state \in Open \union {"CLOSING", "LAST_ACK", "RESET"}
    PROVE  Leaves(s, t)
<1>1. CASE t.delAckCount = 0
  BY <1>1, ReceiverAssumption DEF Sound, DelayOK, Leaves
<1>2. CASE t.delAckCount = s.delAckCount /\ (t.delAckTimer => s.delAckTimer)
  <2>1. DelayOK(t)
    BY <1>2 DEF Sound, DelayOK
  <2> QED BY <2>1 DEF Sound, Leaves
<1> QED BY <1>1, <1>2

LEMMA SendEmptyPacketLeaves ==
    ASSUME NEW s, Good(s), Sound(s)
    PROVE  Leaves(s, SendEmptyPacket(s))
<1> DEFINE t == SendEmptyPacket(s)
<1>1. t.rx = s.rx /\ t.read = s.read /\ t.delAckCount = 0 /\ t.state = s.state
  BY DEF SendEmptyPacket, Good, SockFields
<1> HIDE DEF t
<1>2. Leaves(s, t)
  BY <1>1, LeavesBuffer DEF Sound
<1> QED BY <1>2 DEF t

LEMMA DoCloseLeaves ==
    ASSUME NEW s, Good(s), Sound(s)
    PROVE  Leaves(s, DoClose(s))
<1> DEFINE a == SendEmptyPacket(s)
           t == DoClose(s)
<1>1. CASE s.state \in {"ESTABLISHED", "CLOSE_WAIT"}
  <2>1. Leaves(s, a) /\ DOMAIN a = SockFields
    BY SendEmptyPacketIs, SendEmptyPacketLeaves DEF Keeps, Good
  <2>2. t = [a EXCEPT !.finSent = TRUE,
                      !.state = IF a.state = "ESTABLISHED" THEN "FIN_WAIT_1" ELSE "LAST_ACK"]
    BY <1>1 DEF DoClose
  <2> HIDE DEF a, t
  <2>3. /\ t.rx = a.rx /\ t.read = a.read /\ t.delAckCount = a.delAckCount
        /\ t.delAckTimer = a.delAckTimer /\ t.state \in {"FIN_WAIT_1", "LAST_ACK"}
    BY <2>1, <2>2 DEF SockFields
  <2>4. Leaves(a, t)
    BY <2>1, <2>3, LeavesBuffer DEF Leaves, Open
  <2>5. Leaves(s, t)
    BY <2>1, <2>4, LeavesAndFiles
  <2> QED BY <2>5 DEF t
<1>2. CASE s.state \notin {"ESTABLISHED", "CLOSE_WAIT"}
  <2>1. DoClose(s) = s
    BY <1>2 DEF DoClose
  <2> QED BY <2>1 DEF Leaves
<1> QED BY <1>1, <1>2

LEMMA CloseSocketLeaves ==
    ASSUME NEW s, Good(s), Sound(s)
    PROVE  Leaves(s, CloseSocket(s))
<1> DEFINE t == SendRST(s)
<1>1. /\ t.rx = s.rx /\ t.read = s.read /\ t.delAckCount = s.delAckCount
      /\ t.delAckTimer = FALSE /\ t.state = "RESET"
  BY DEF SendRST, Good, SockFields
<1>2. CloseSocket(s) = t \/ CloseSocket(s) = DoClose(s)
  BY DEF CloseSocket
<1> HIDE DEF t
<1>3. Leaves(s, t)
  BY <1>1, LeavesBuffer
<1> QED BY <1>2, <1>3, DoCloseLeaves

LEMMA DoPeerCloseLeaves ==
    ASSUME NEW s, Good(s), Sound(s)
    PROVE  Leaves(s, DoPeerClose(s))
<1> DEFINE t == [s EXCEPT !.state = "CLOSE_WAIT"]
<1>1. /\ DOMAIN t = SockFields /\ t.rx = s.rx /\ t.read = s.read
      /\ t.highTxAck = s.highTxAck /\ t.advWnd = s.advWnd /\ t.replies = s.replies
      /\ t.delAckCount = s.delAckCount /\ t.delAckTimer = s.delAckTimer
      /\ t.state = "CLOSE_WAIT"
  BY DEF Good, SockFields
<1>2. DoPeerClose(s) = CloseSocket(t) \/ DoPeerClose(s) = SendEmptyPacket(t)
  BY DEF DoPeerClose
<1> HIDE DEF t
<1>3. Good(t)
  BY <1>1, OtherFields DEF Keeps
<1>4. Leaves(s, t)
  BY <1>1, LeavesBuffer DEF Open
<1>5. Sound(t)
  BY <1>4 DEF Leaves
<1>6. Leaves(t, CloseSocket(t)) /\ Leaves(t, SendEmptyPacket(t))
  BY <1>3, <1>5, CloseSocketLeaves, SendEmptyPacketLeaves
<1>7. Leaves(s, CloseSocket(t)) /\ Leaves(s, SendEmptyPacket(t))
  BY <1>4, <1>6, LeavesAndFiles
<1> QED BY <1>2, <1>7

LEMMA RecvLeaves ==
    ASSUME NEW s, Good(s), Sound(s), NEW n \in Nat
    PROVE  Leaves(s, Recv(s, n))
<1> DEFINE t == Recv(s, n)
           r == Len(s.read)
           k == ExtractSize(s.rx, n)
           x == Extract(s.rx, n)
           e == Extracted(s.rx, n)
<1>1. /\ t.rx = x /\ t.read = s.read \o e
      /\ t.delAckCount = s.delAckCount /\ t.delAckTimer = s.delAckTimer
      /\ t.state = s.state
  BY DEF Recv, Good, SockFields
<1>2. /\ InOrderBuffer(s.rx, r, StreamLength) /\ StreamLength \in Nat
      /\ s.read \in Seq(Nat) /\ Counted(s.rx, r) /\ r \in Nat
  BY GoodTypes, ReceiverAssumption DEF Good, Sound
<1>3. Taken(s.rx, r, StreamLength, k, e, x)
  <2> HIDE DEF r, k, e, x
  <2>1. Taken(s.rx, r, StreamLength, ExtractSize(s.rx, n), Extracted(s.rx, n), Extract(s.rx, n))
    BY <1>2, ExtractIs
  <2> QED BY <2>1 DEF k, e, x
<1>4. /\ Counted(x, r + k) /\ x.sack = s.rx.sack
      /\ AllReported(s.rx) => AllReported(x)
  <2> HIDE DEF r
  <2> QED BY <1>2, ExtractCounts
<1> HIDE DEF t, k, x, e
<1>5. Len(t.read) = r + k
  <2>1. k \in Nat /\ e = Slice(r, k)
    BY <1>3 DEF Taken
  <2> HIDE DEF r
  <2>2. e \in Seq(Nat) /\ Len(e) = k
    BY <2>1, <1>2 DEF Slice
  <2>3. Len(s.read \o e) = Len(s.read) + Len(e)
    BY <2>2, <1>2, ConcatProperties
  <2> QED BY <2>2, <2>3, <1>1 DEF r
<1> HIDE DEF r
<1> QED BY <1>1, <1>4, <1>5 DEF Leaves, Sound, DelayOK, t

LEMMA DelayLeaves ==
    ASSUME NEW s, Good(s), Sound(s), ~AckDue(s)
    PROVE  Leaves(s, Delay(s))
<1> DEFINE t == Delay(s)
<1>1. /\ t.rx = s.rx /\ t.read = s.read /\ t.delAckCount = s.delAckCount + 1
      /\ t.state = s.state
  BY DEF Delay, Good, SockFields
<1> HIDE DEF t
<1>2. DelayOK(t)
  BY <1>1, ReceiverAssumption DEF Sound, AckDue, DelayOK
<1> QED BY <1>1, <1>2 DEF Leaves, Sound, t

LEMMA AckStoredLeaves ==
    ASSUME NEW s, NEW seg, NEW t, Good(t), Sound(t)
    PROVE  Leaves(t, AckStored(s, seg, t))
<1>1. \/ AckStored(s, seg, t) \in {DoPeerClose(t), SendEmptyPacket(t)}
      \/ AckStored(s, seg, t) = Delay(t) /\ ~AckDue(t)
  BY DEF AckStored
<1> QED BY <1>1, DoPeerCloseLeaves, SendEmptyPacketLeaves, DelayLeaves

\* The segment ends inside the buffer, or the buffer is full of what can be read.
SegFits(s, seg) == Fits(s.rx, Len(s.read), seg.seq, seg.len)

LEMMA ReceivedDataFiles ==
    ASSUME NEW s, Good(s), Sound(s), NEW seg, SegFine(seg, Len(s.read)), SegFits(s, seg),
           NEW n \in Nat
    PROVE  Files(s, ReceivedData(s, seg, n))
<1> DEFINE x == Add(s.rx, seg.seq, Packet(seg))
           a == [s EXCEPT !.rx = x]
           u == Notified(s, a, n)
           t == ReceivedData(s, seg, n)
           r == Len(s.read)
<1>1. t = AckStored(s, seg, u) \/ t = SendEmptyPacket(s)
  BY DEF ReceivedData
<1>2. /\ DOMAIN a = SockFields /\ a.rx = x /\ a.read = s.read /\ a.highTxAck = s.highTxAck
      /\ a.advWnd = s.advWnd /\ a.replies = s.replies
      /\ a.delAckCount = s.delAckCount /\ a.delAckTimer = s.delAckTimer
      /\ a.state = s.state
  BY DEF Good, SockFields
<1>3. /\ seg.seq \in Nat /\ seg.len \in Nat /\ seg.seq + seg.len <= StreamLength
      /\ StreamLength \in Nat /\ InOrderBuffer(s.rx, r, StreamLength) /\ Counted(s.rx, r)
      /\ Fits(s.rx, r, seg.seq, seg.len)
  BY ReceiverAssumption DEF Good, SegFine, Sound, SegFits
<1>4. /\ Counted(x, r)
      /\ AllReported(s.rx) /\ Len(s.rx.sack) < SackListMax => AllReported(x)
  <2>1. Packet(seg) = Slice(seg.seq, seg.len)
    BY DEF Packet, Slice
  <2> HIDE DEF r
  <2> QED BY <2>1, <1>3, AddCounts
<1>5. Good(a)
  BY AddedIsGood DEF Keeps
<1> HIDE DEF t, a, x
<1>6. Files(s, a)
  BY <1>2, <1>4 DEF Files, Sound, DelayOK
<1>7. Leaves(a, u) /\ Good(u)
  <2>1. Sound(a)
    BY <1>6 DEF Files
  <2>2. u = Recv(a, n) \/ u = a
    BY DEF Notified
  <2>3. Good(u)
    BY <1>5, NotifiedIs DEF Keeps
  <2>4. Leaves(a, a)
    BY <2>1 DEF Leaves
  <2> QED BY <2>1, <2>2, <2>3, <2>4, <1>5, RecvLeaves
<1> HIDE DEF u
<1>8. Leaves(u, AckStored(s, seg, u))
  BY <1>7, AckStoredLeaves DEF Leaves
<1>9. Files(s, AckStored(s, seg, u))
  BY <1>6, <1>7, <1>8, LeavesAndFiles
<1>10. Files(s, SendEmptyPacket(s))
  BY SendEmptyPacketLeaves, LeavesAndFiles
<1> QED BY <1>1, <1>9, <1>10 DEF t

LEMMA IfDataFiles ==
    ASSUME NEW s, Good(s), Sound(s), NEW seg, SegFine(seg, Len(s.read)), SegFits(s, seg),
           NEW n \in Nat
    PROVE  Files(s, IfData(s, seg, n))
<1>1. Files(s, s)
  BY DEF Files
<1> QED BY <1>1, ReceivedDataFiles DEF IfData

LEMMA FinLeaves ==
    ASSUME NEW s, Good(s), Sound(s), NEW f \in 0 .. StreamLength,
           \A b \in f .. StreamLength - 1 : Has(s, b)
    PROVE  LET t == [s EXCEPT !.rx = SetFinSequence(@, f)]
           IN  Leaves(s, t) /\ t.rx.data = s.rx.data /\ t.read = s.read
<1> DEFINE r == Len(s.read)
           x == SetFinSequence(s.rx, f)
           t == [s EXCEPT !.rx = SetFinSequence(@, f)]
<1>1. /\ InOrderBuffer(s.rx, r, StreamLength) /\ StreamLength \in Nat /\ Counted(s.rx, r)
      /\ \A b \in f .. StreamLength - 1 : b < r \/ b \in BytesOf(s.rx.data)
  BY ReceiverAssumption DEF Good, Has, Sound
<1>2. /\ Counted(x, r) /\ x.sack = s.rx.sack
      /\ AllReported(s.rx) => AllReported(x)
  <2> HIDE DEF r
  <2> QED BY <1>1, SetFinSequenceCounts
<1>3. x.data = s.rx.data
  BY <1>1 DEF SetFinSequence, InOrderBuffer, Fields
<1>4. /\ t.rx = x /\ t.read = s.read /\ t.delAckCount = s.delAckCount
      /\ t.delAckTimer = s.delAckTimer /\ t.state = s.state
  BY DEF Good, SockFields
<1> HIDE DEF t, x
<1> QED BY <1>2, <1>3, <1>4 DEF Leaves, Sound, DelayOK, t

LEMMA ProcessEstablishedFiles ==
    ASSUME NEW s, Good(s), Sound(s), NEW seg, SegFine(seg, Len(s.read)), SegFits(s, seg),
           NEW n \in Nat
    PROVE  Files(s, ProcessEstablished(s, seg, n))
<1> DEFINE a == [s EXCEPT !.rx = SetFinSequence(@, FinPlace(seg))]
           d == IfData(a, seg, n)
<1>0. Files(s, s)
  BY DEF Files
<1>1. CASE "FIN" \notin seg.flags
  <2>1. ProcessEstablished(s, seg, n) = IfData(s, seg, n)
    BY <1>1 DEF ProcessEstablished
  <2> QED BY <2>1, IfDataFiles
<1>2. CASE "FIN" \in seg.flags
  <2>1. ProcessEstablished(s, seg, n) = s \/ ProcessEstablished(s, seg, n) = IfFinished(d)
    BY <1>2 DEF ProcessEstablished, PeerClose
  <2>2. FinPlace(seg) = StreamLength /\ StreamLength <= Len(s.read) + MaxBuffer
    BY <1>2 DEF FinPlace, SegFine
  <2>3. a = [s EXCEPT !.rx = SetFinSequence(@, StreamLength)]
    BY <2>2
  <2>4. StreamLength \in 0 .. StreamLength /\ StreamLength .. StreamLength - 1 = {}
    BY ReceiverAssumption
  <2> HIDE DEF a
  <2>5. Keeps(s, a)
    BY <2>2, <2>3, <2>4, FinIs
  <2>6. Leaves(s, a) /\ a.rx.data = s.rx.data /\ a.read = s.read
    BY <2>3, <2>4, FinLeaves
  <2>7. Good(a) /\ Sound(a) /\ SegFine(seg, Len(a.read)) /\ SegFits(a, seg)
    BY <2>5, <2>6 DEF Keeps, Leaves, SegFits, Fits
  <2>8. Files(a, d) /\ Keeps(a, d)
    BY <2>7, IfDataFiles, IfDataIs
  <2> HIDE DEF d
  <2>9. Files(s, d) /\ Good(d) /\ Sound(d)
    BY <2>6, <2>8, LeavesAndFiles DEF Files, Keeps
  <2>10. Files(s, DoPeerClose(d))
    BY <2>9, DoPeerCloseLeaves, LeavesAndFiles
  <2> QED BY <2>1, <2>9, <2>10, <1>0 DEF IfFinished
<1> QED BY <1>1, <1>2

LEMMA AckOrFinLeaves ==
    ASSUME NEW s, Good(s), Sound(s), NEW seg, SegFine(seg, Len(s.read)),
           "FIN" \in seg.flags => \A b \in seg.seq .. StreamLength - 1 : Has(s, b)
    PROVE  Leaves(s, AckOrFin(s, seg))
<1>1. CASE "FIN" \in seg.flags
  <2>1. AckOrFin(s, seg) = [s EXCEPT !.rx = SetFinSequence(@, seg.seq)]
    BY <1>1 DEF AckOrFin
  <2>2. seg.seq \in 0 .. StreamLength
    BY <1>1, ReceiverAssumption DEF SegFine
  <2> QED BY <1>1, <2>1, <2>2, FinLeaves
<1>2. CASE "FIN" \notin seg.flags
  <2> DEFINE t == [s EXCEPT !.state = "FIN_WAIT_2"]
  <2>1. AckOrFin(s, seg) = s \/ AckOrFin(s, seg) = t
    BY <1>2 DEF AckOrFin
  <2>2. /\ t.rx = s.rx /\ t.read = s.read /\ t.delAckCount = s.delAckCount
        /\ t.delAckTimer = s.delAckTimer /\ t.state = "FIN_WAIT_2"
    BY DEF Good, SockFields
  <2> HIDE DEF t
  <2>3. Leaves(s, t)
    BY <2>2, LeavesBuffer DEF Open
  <2>4. Leaves(s, s)
    BY DEF Leaves
  <2> QED BY <2>1, <2>3, <2>4
<1> QED BY <1>1, <1>2

LEMMA BothClosedLeaves ==
    ASSUME NEW s, Good(s), Sound(s), NEW seg
    PROVE  Leaves(s, BothClosed(s, seg))
<1> DEFINE u == TimeWait(s)
           v == [s EXCEPT !.state = "CLOSING"]
<1>1. BothClosed(s, seg) \in {s, SendEmptyPacket(u), SendEmptyPacket(v)}
  BY DEF BothClosed
<1>2. /\ DOMAIN u = SockFields /\ u.rx = s.rx /\ u.read = s.read
      /\ u.highTxAck = s.highTxAck /\ u.advWnd = s.advWnd /\ u.replies = s.replies
      /\ u.delAckCount = s.delAckCount /\ u.delAckTimer = FALSE /\ u.state = "TIME_WAIT"
  BY DEF TimeWait, Good, SockFields
<1>3. /\ DOMAIN v = SockFields /\ v.rx = s.rx /\ v.read = s.read
      /\ v.highTxAck = s.highTxAck /\ v.advWnd = s.advWnd /\ v.replies = s.replies
      /\ v.delAckCount = s.delAckCount /\ v.delAckTimer = s.delAckTimer /\ v.state = "CLOSING"
  BY DEF Good, SockFields
<1> HIDE DEF u, v
<1>4. Good(u) /\ Good(v)
  BY <1>2, <1>3, OtherFields DEF Keeps
<1>5. Leaves(s, u) /\ Leaves(s, v) /\ Leaves(s, s)
  <2>1. Leaves(s, u)
    BY <1>2, LeavesBuffer DEF Open
  <2>2. Leaves(s, v)
    BY <1>3, LeavesBuffer
  <2> QED BY <2>1, <2>2 DEF Leaves
<1>6. Leaves(u, SendEmptyPacket(u)) /\ Leaves(v, SendEmptyPacket(v))
  BY <1>4, <1>5, SendEmptyPacketLeaves DEF Leaves
<1>7. Leaves(s, SendEmptyPacket(u)) /\ Leaves(s, SendEmptyPacket(v))
  BY <1>5, <1>6, LeavesAndFiles
<1> QED BY <1>1, <1>5, <1>7

LEMMA ProcessWaitFiles ==
    ASSUME NEW s, Good(s), Sound(s), NEW seg, SegFine(seg, Len(s.read)), SegFits(s, seg),
           NEW n \in Nat
    PROVE  Files(s, ProcessWait(s, seg, n))
<1> DEFINE d == IfData(s, seg, n)
           f == AckOrFin(d, seg)
<1>1. /\ Keeps(s, d) /\ Files(s, d)
      /\ seg.seq + seg.len <= Len(s.read) + MaxBuffer =>
             \A b \in seg.seq .. seg.seq + seg.len - 1 : Has(d, b)
  BY IfDataIs, IfDataFiles
<1>2. ProcessWait(s, seg, n) = BothClosed(f, seg)
  BY DEF ProcessWait
<1> HIDE DEF d
<1>3. Good(d) /\ Sound(d) /\ SegFine(seg, Len(d.read))
  BY <1>1, SegFineLater DEF Keeps, Files
<1>4. "FIN" \in seg.flags => \A b \in seg.seq .. StreamLength - 1 : Has(d, b)
  BY <1>1 DEF SegFine
<1>5. Keeps(d, f) /\ Leaves(d, f)
  BY <1>3, <1>4, AckOrFinIs, AckOrFinLeaves
<1> HIDE DEF f
<1>6. Leaves(f, BothClosed(f, seg))
  BY <1>5, BothClosedLeaves DEF Keeps, Leaves
<1> QED BY <1>1, <1>2, <1>5, <1>6, LeavesAndFiles

LEMMA ForwardUpFiles ==
    ASSUME NEW s, Good(s), Sound(s), NEW seg, SegFine(seg, Len(s.read)), SegFits(s, seg),
           NEW n \in Nat
    PROVE  Files(s, ForwardUp(s, seg, n))
<1>1. ForwardUp(s, seg, n) \in {SendEmptyPacket(s), s, ProcessEstablished(s, seg, n),
                                ProcessWait(s, seg, n)}
  BY DEF ForwardUp
<1>2. Files(s, s) /\ Files(s, SendEmptyPacket(s))
  BY SendEmptyPacketLeaves, LeavesAndFiles DEF Files
<1> QED BY <1>1, <1>2, ProcessEstablishedFiles, ProcessWaitFiles

-----------------------------------------------------------------------------
(***************************************************************************)
(* The system.                                                             *)
(***************************************************************************)
\* The inductive invariant; edge is the highest edge the peer was ever offered.
IInv == Good(sock) /\ Offered(sock, edge) /\ MaxBuffer <= edge

LEMMA InitiallyGood == Init => IInv
<1> SUFFICES ASSUME Init PROVE IInv
  OBVIOUS
<1>1. MaxBuffer \in Nat /\ StreamLength \in Nat /\ StreamLength > 0
  BY RxBufferAssumption, ReceiverAssumption
<1>2. /\ DOMAIN sock = SockFields /\ sock.rx = RxBuffer /\ sock.highTxAck = 0
      /\ sock.advWnd = MaxBuffer /\ sock.read = <<>> /\ sock.replies = <<>>
      /\ edge = MaxBuffer
  BY DEF Init, SockFields
<1>3. InOrderBuffer(RxBuffer, 0, StreamLength)
  <2>1. /\ DOMAIN RxBuffer = Fields /\ DOMAIN RxBuffer.data = {} /\ RxBuffer.avail = 0
        /\ RxBuffer.next = 0 /\ RxBuffer.gotFin = FALSE /\ RxBuffer.fin = 0
    BY DEF RxBuffer, Fields
  <2>2. BytesOf(RxBuffer.data) = {}
    BY <2>1 DEF BytesOf
  <2>3. Placed(RxBuffer.data, StreamLength) /\ Apart(RxBuffer.data)
    BY <2>1 DEF Placed, Apart
  <2>4. /\ 0 .. 0 + RxBuffer.avail - 1 = {} /\ 0 + RxBuffer.avail = 0
        /\ RxBuffer.next = 0 + RxBuffer.avail /\ 0 <= StreamLength
        /\ RxBuffer.fin \in 0 .. StreamLength /\ RxBuffer.avail \in Nat
    BY <1>1, <2>1
  <2>5. ~RxBuffer.gotFin /\ RxBuffer.gotFin \in BOOLEAN
    BY <2>1
  <2> QED BY <2>1, <2>2, <2>3, <2>4, <2>5 DEF InOrderBuffer
<1>4. sock.read \in Seq(Nat) /\ Len(sock.read) = 0 /\ sock.read = [i \in 1 .. 0 |-> i - 1]
  <2>1. sock.read \in Seq(Nat) /\ Len(sock.read) = 0
    BY <1>2
  <2> QED BY <2>1
<1>5. RxBuffer.gotFin = FALSE /\ RxBuffer.next = 0
  BY DEF RxBuffer
<1>6. Good(sock)
  BY <1>1, <1>2, <1>3, <1>4, <1>5, NoReplies DEF Good
<1>7. Offered(sock, edge)
  BY <1>1, <1>2, <1>4, <1>5 DEF Offered
<1> QED BY <1>1, <1>2, <1>6, <1>7 DEF IInv

\* What the peer sends while the invariant holds.
LEMMA SegmentsFine ==
    ASSUME IInv, NEW seg \in Segments \union Probes
    PROVE  SegFine(seg, Len(sock.read))
<1>1. StreamLength \in Nat /\ MaxBuffer \in Nat /\ Len(sock.read) \in Nat
      /\ sock.highTxAck \in Nat
  BY RxBufferAssumption, ReceiverAssumption, GoodTypes DEF IInv
<1>2. /\ edge \in Int
      /\ StreamLength <= Len(sock.read) + MaxBuffer \/ edge <= Len(sock.read) + MaxBuffer
  BY <1>1 DEF IInv, Good, Offered
<1>3. CASE seg \in Segments
  <2>1. /\ seg.seq \in Nat /\ seg.len \in Nat
        /\ seg.seq + seg.len <= MinOf(edge, StreamLength)
        /\ "FIN" \in seg.flags => seg.seq + seg.len = StreamLength
    BY <1>3, ReceiverAssumption DEF Segments
  <2>2. seg.seq + seg.len <= StreamLength /\ seg.seq + seg.len <= edge
    BY <1>1, <1>2, <2>1 DEF MinOf
  <2> QED BY <1>1, <1>2, <2>1, <2>2 DEF SegFine
<1>4. CASE seg \in Probes
  <2>1. /\ seg = [seq |-> edge, len |-> 1, flags |-> {}, acksFin |-> FALSE]
        /\ edge = sock.highTxAck /\ edge < StreamLength
    BY <1>4 DEF Probes
  <2>2. seg.seq = edge /\ seg.len = 1 /\ seg.flags = {}
    BY <2>1
  <2> QED BY <1>1, <2>1, <2>2 DEF SegFine
<1> QED BY <1>3, <1>4

LEMMA QuietIs ==
    ASSUME Good(sock)
    PROVE  /\ Keeps(sock, Quiet) /\ Quiet.read = sock.read
           /\ \A e : Reach(Quiet.replies, e) /\ (Offered(sock, e) => Offered(Quiet, e))
<1>1. /\ DOMAIN Quiet = SockFields /\ Quiet.rx = sock.rx /\ Quiet.read = sock.read
      /\ Quiet.highTxAck = sock.highTxAck /\ Quiet.advWnd = sock.advWnd
      /\ Quiet.replies = <<>>
  BY DEF Quiet, Good, SockFields
<1>2. Good(Quiet)
  BY <1>1, NoReplies DEF Good
<1>5. \A e : Offered(sock, e) => Offered(Quiet, e)
  BY <1>1 DEF Offered
<1>6. \A e : Reach(Quiet.replies, e)
  BY <1>1, NoReplies DEF Reach
<1>3. \A b : Has(sock, b) => Has(Quiet, b)
  BY <1>1 DEF Has
<1>4. Len(sock.read) <= Len(Quiet.read) /\ sock.highTxAck <= Quiet.highTxAck
  BY <1>1, GoodTypes
<1> QED BY <1>1, <1>2, <1>3, <1>4, <1>5, <1>6 DEF Keeps, Grows

\* A handler that keeps the socket good keeps the invariant.
LEMMA HandleIs ==
    ASSUME IInv, NEW t, Keeps(Quiet, t), Handle(t)
    PROVE  IInv' /\ Keeps(sock, sock') /\ Reach(sock'.replies, edge)
<1>1. sock' = t /\ Keeps(sock, t) /\ Good(t)
  BY QuietIs, GrowsTransitive DEF IInv, Handle, Keeps
<1> DEFINE T == {edge} \union {m.ack + m.wnd : m \in Range(t.replies)}
<1>2. Offered(t, edge) /\ Reach(t.replies, edge)
  BY QuietIs DEF IInv, Keeps, Grows
<1>3. \A e \in T : Offered(t, e)
  BY <1>1, <1>2 DEF Good, RightEdge
<1>4. edge' = Max(T) /\ T # {}
  BY DEF Handle
<1>5. t.rx.next + t.advWnd \in Int
  BY <1>1, GoodTypes DEF Good
<1> HIDE DEF T
<1>6. T \subseteq Int /\ \A e \in T : e <= t.rx.next + t.advWnd
  BY <1>3 DEF Offered
<1>7. edge' \in T /\ \A e \in T : e <= edge'
  BY <1>4, <1>5, <1>6, MaxIsGreatest
<1>8. MaxBuffer <= edge'
  <2>1. edge \in T
    BY DEF T
  <2>2. MaxBuffer \in Nat /\ MaxBuffer <= edge
    BY RxBufferAssumption DEF IInv
  <2> QED BY <2>1, <2>2, <1>6, <1>7
<1> QED BY <1>1, <1>2, <1>3, <1>7, <1>8 DEF IInv

LEMMA ActionKeeps ==
    ASSUME IInv, Next
    PROVE  IInv' /\ Keeps(sock, sock') /\ Reach(sock'.replies, edge)
<1>1. Good(Quiet) /\ Quiet.read = sock.read /\ Good(sock)
  BY QuietIs DEF IInv, Keeps
<1>2. ASSUME NEW seg \in Segments \union Probes, NEW n \in {0, MaxBuffer}, Arrive(seg, n)
      PROVE  IInv' /\ Keeps(sock, sock') /\ Reach(sock'.replies, edge)
  <2>1. SegFine(seg, Len(Quiet.read)) /\ n \in Nat
    BY <1>1, SegmentsFine, RxBufferAssumption
  <2>2. Keeps(Quiet, ForwardUp(Quiet, seg, n))
    BY <1>1, <2>1, ForwardUpIs
  <2>3. Handle(ForwardUp(Quiet, seg, n))
    BY <1>2 DEF Arrive
  <2> QED BY <2>2, <2>3, HandleIs
<1>3. ASSUME DelAckTimeout
      PROVE  IInv' /\ Keeps(sock, sock') /\ Reach(sock'.replies, edge)
  <2>1. Keeps(Quiet, SendEmptyPacket(Quiet))
    BY <1>1, SendEmptyPacketIs
  <2> QED BY <1>3, <2>1, HandleIs DEF DelAckTimeout
<1>4. ASSUME NEW n \in {1, MaxBuffer}, Read(n)
      PROVE  IInv' /\ Keeps(sock, sock') /\ Reach(sock'.replies, edge)
  <2>1. Keeps(Quiet, Recv(Quiet, n))
    BY <1>1, RecvIs, RxBufferAssumption
  <2> QED BY <1>4, <2>1, HandleIs DEF Read
<1>5. ASSUME Close
      PROVE  IInv' /\ Keeps(sock, sock') /\ Reach(sock'.replies, edge)
  <2>1. Keeps(Quiet, CloseSocket(Quiet))
    BY <1>1, CloseSocketIs
  <2> QED BY <1>5, <2>1, HandleIs DEF Close
<1>6. ASSUME ShutdownSend
      PROVE  IInv' /\ Keeps(sock, sock') /\ Reach(sock'.replies, edge)
  <2> DEFINE a == [Quiet EXCEPT !.shutdownSend = TRUE]
  <2>1. /\ DOMAIN a = SockFields /\ a.rx = Quiet.rx /\ a.read = Quiet.read
        /\ a.highTxAck = Quiet.highTxAck /\ a.advWnd = Quiet.advWnd
        /\ a.replies = Quiet.replies
    BY <1>1 DEF Good, SockFields
  <2>2. Handle(DoClose(a))
    BY <1>6 DEF ShutdownSend
  <2> HIDE DEF a
  <2>3. Keeps(Quiet, a)
    BY <1>1, <2>1, OtherFields
  <2>4. Keeps(Quiet, DoClose(a))
    BY <1>1, <2>3, DoCloseIs, GrowsTransitive DEF Keeps
  <2> QED BY <2>2, <2>4, HandleIs
<1> QED BY <1>2, <1>3, <1>4, <1>5, <1>6 DEF Next

LEMMA StepKeeps ==
    ASSUME IInv, [Next]_vars
    PROVE  IInv' /\ Keeps(sock, sock')
<1>1. CASE UNCHANGED vars
  <2>1. Keeps(sock, sock)
    BY OtherFields DEF Good, IInv
  <2> QED BY <1>1, <2>1 DEF vars, IInv
<1> QED BY <1>1, ActionKeeps

\* What the peer sends fits: a probe of a zero window is the byte after a buffer
\* full of what can be read.
LEMMA SegmentsFit ==
    ASSUME IInv, NEW seg \in Segments \union Probes
    PROVE  SegFits(sock, seg)
<1> DEFINE r == Len(sock.read)
<1>1. /\ StreamLength \in Nat /\ MaxBuffer \in Nat /\ MaxBuffer > 0 /\ r \in Nat
      /\ sock.highTxAck \in Nat /\ sock.highTxAck <= sock.rx.next
      /\ InOrderBuffer(sock.rx, r, StreamLength)
  BY RxBufferAssumption, ReceiverAssumption, GoodTypes DEF IInv, Good
<1>2. /\ edge \in Int
      /\ StreamLength <= r + MaxBuffer \/ edge <= r + MaxBuffer
  <2>1. sock.rx.gotFin => StreamLength <= r + MaxBuffer
    BY DEF IInv, Good
  <2>2. edge \in Int /\ (~sock.rx.gotFin => edge <= r + MaxBuffer)
    BY DEF IInv, Offered
  <2> QED BY <2>1, <2>2
<1>3. CASE seg \in Segments
  <2>1. /\ seg.seq \in Nat /\ seg.len \in Nat
        /\ seg.seq + seg.len <= MinOf(edge, StreamLength)
    BY <1>3, ReceiverAssumption DEF Segments
  <2> HIDE DEF r
  <2>2. seg.seq + seg.len <= r + MaxBuffer
    BY <1>1, <1>2, <2>1 DEF MinOf
  <2> QED BY <2>2 DEF SegFits, Fits, r
<1>4. CASE seg \in Probes
  <2>1. /\ seg = [seq |-> edge, len |-> 1, flags |-> {}, acksFin |-> FALSE]
        /\ edge = sock.highTxAck /\ edge < StreamLength
    BY <1>4 DEF Probes
  <2>2. seg.seq = edge /\ seg.len = 1
    BY <2>1
  <2>3. CASE edge < r + MaxBuffer
    <3>1. seg.seq + seg.len <= r + MaxBuffer
      BY <1>1, <1>2, <2>2, <2>3
    <3> QED BY <3>1 DEF SegFits, Fits
  <2>4. CASE ~(edge < r + MaxBuffer)
    <3> DEFINE rx == sock.rx
    <3>1. rx.avail \in Nat /\ r + rx.avail <= StreamLength
          /\ (rx.next = r + rx.avail \/ (rx.next = StreamLength + 1 /\ r + rx.avail = StreamLength))
      BY <1>1 DEF InOrderBuffer
    <3>2. rx.avail > 0
      BY <1>1, <1>2, <2>1, <2>4, <3>1
    <3>3. /\ Placed(rx.data, StreamLength) /\ \A b \in BytesOf(rx.data) : r <= b
          /\ \A b \in r .. r + rx.avail - 1 : b \in BytesOf(rx.data)
      BY <1>1 DEF InOrderBuffer
    <3>4. r \in BytesOf(rx.data)
      BY <1>1, <3>1, <3>2, <3>3
    <3> HIDE DEF r, rx
    <3>5. PICK h \in DOMAIN rx.data : h <= r /\ r < EndOf(rx.data, h)
      BY <1>1, <3>3, <3>4, BytesType
    <3>6. Begin(rx.data) \in DOMAIN rx.data /\ Begin(rx.data) <= h
      BY <1>1, <3>3, <3>5, BeginIs
    <3>7. h \in Nat /\ Begin(rx.data) \in Nat /\ Begin(rx.data) \in BytesOf(rx.data)
      BY <1>1, <3>3, <3>6, BytesType DEF Placed
    <3>8. Begin(rx.data) = r
      BY <1>1, <3>3, <3>5, <3>6, <3>7
    <3> QED BY <3>6, <3>8 DEF SegFits, Fits, r, rx
  <2> QED BY <2>3, <2>4
<1> QED BY <1>3, <1>4

LEMMA StepFiles ==
    ASSUME IInv, Sound(sock), [Next]_vars
    PROVE  Files(sock, sock')
<1>1. Good(Quiet) /\ Good(sock)
  BY QuietIs DEF IInv, Keeps
<1>2. /\ DOMAIN Quiet = SockFields /\ Quiet.rx = sock.rx /\ Quiet.read = sock.read
      /\ Quiet.delAckCount = sock.delAckCount /\ Quiet.delAckTimer = sock.delAckTimer
      /\ Quiet.state = sock.state
  BY <1>1 DEF Quiet, Good, SockFields
<1>3. Leaves(sock, Quiet) /\ Sound(Quiet)
  BY <1>2 DEF Leaves, Sound, DelayOK
<1> DEFINE q == Quiet
<1> HIDE DEF q
<1>4. ASSUME NEW seg \in Segments \union Probes, NEW n \in {0, MaxBuffer}, Arrive(seg, n)
      PROVE  Files(sock, sock')
  <2>1. SegFine(seg, Len(Quiet.read)) /\ SegFits(Quiet, seg) /\ n \in Nat
    BY <1>2, SegmentsFine, SegmentsFit, RxBufferAssumption DEF SegFits
  <2>2. Files(Quiet, ForwardUp(Quiet, seg, n))
    BY <1>1, <1>3, <2>1, ForwardUpFiles
  <2>3. sock' = ForwardUp(Quiet, seg, n)
    BY <1>4 DEF Arrive, Handle
  <2> QED BY <1>3, <2>2, <2>3, LeavesAndFiles
<1>5. ASSUME DelAckTimeout PROVE Files(sock, sock')
  <2>1. Leaves(Quiet, SendEmptyPacket(Quiet)) /\ sock' = SendEmptyPacket(Quiet)
    BY <1>1, <1>3, <1>5, SendEmptyPacketLeaves DEF DelAckTimeout, Handle
  <2> QED BY <1>3, <2>1, LeavesAndFiles
<1>6. ASSUME NEW n \in {1, MaxBuffer}, Read(n) PROVE Files(sock, sock')
  <2>1. Leaves(Quiet, Recv(Quiet, n)) /\ sock' = Recv(Quiet, n)
    BY <1>1, <1>3, <1>6, RecvLeaves, RxBufferAssumption DEF Read, Handle
  <2> QED BY <1>3, <2>1, LeavesAndFiles
<1>7. ASSUME Close PROVE Files(sock, sock')
  <2>1. Leaves(Quiet, CloseSocket(Quiet)) /\ sock' = CloseSocket(Quiet)
    BY <1>1, <1>3, <1>7, CloseSocketLeaves DEF Close, Handle
  <2> QED BY <1>3, <2>1, LeavesAndFiles
<1>8. ASSUME ShutdownSend PROVE Files(sock, sock')
  <2> DEFINE a == [Quiet EXCEPT !.shutdownSend = TRUE]
  <2>1. /\ DOMAIN a = SockFields /\ a.rx = Quiet.rx /\ a.read = Quiet.read
        /\ a.highTxAck = Quiet.highTxAck /\ a.advWnd = Quiet.advWnd
        /\ a.replies = Quiet.replies
        /\ a.delAckCount = Quiet.delAckCount /\ a.delAckTimer = Quiet.delAckTimer
        /\ a.state = Quiet.state
    BY <1>2 DEF SockFields
  <2>2. sock' = DoClose(a)
    BY <1>8 DEF ShutdownSend, Handle
  <2> HIDE DEF a
  <2>3. Good(a)
    BY <1>1, <2>1, OtherFields DEF Keeps
  <2>4. Leaves(Quiet, a) /\ Sound(a)
    BY <1>3, <2>1 DEF Leaves, Sound, DelayOK
  <2>5. Leaves(a, DoClose(a))
    BY <2>3, <2>4, DoCloseLeaves
  <2> QED BY <1>3, <2>2, <2>4, <2>5, LeavesAndFiles
<1>9. CASE UNCHANGED vars
  BY <1>9 DEF vars, Files
<1> QED BY <1>4, <1>5, <1>6, <1>7, <1>8, <1>9 DEF Next

LEMMA InitiallySound == Init => Sound(sock)
<1> SUFFICES ASSUME Init PROVE Sound(sock)
  OBVIOUS
<1>1. /\ sock.rx = RxBuffer /\ sock.read = <<>> /\ sock.delAckCount = DelAckMax
      /\ sock.delAckTimer = FALSE /\ sock.state = "ESTABLISHED"
  BY DEF Init
<1>2. DOMAIN RxBuffer.data = {} /\ RxBuffer.size = 0 /\ RxBuffer.sack = <<>>
  BY DEF RxBuffer
<1>3. BytesOf(RxBuffer.data) = {}
  BY <1>2 DEF BytesOf
<1>4. RxBuffer.size = Cardinality(BytesOf(RxBuffer.data))
  BY <1>2, <1>3, FS_EmptySet
<1>5. /\ RxBuffer.sack \in Seq(SackBlock) /\ Len(RxBuffer.sack) <= SackListMax
      /\ \A b : ~Reports(RxBuffer.sack, b)
  BY <1>2, RxBufferAssumption DEF Reports
<1>6. Counted(RxBuffer, Len(sock.read))
  BY <1>3, <1>4, <1>5 DEF Counted
<1>7. DelayOK(sock)
  BY <1>1, ReceiverAssumption DEF DelayOK
<1> QED BY <1>1, <1>6, <1>7 DEF Sound, Open

\* Reported, of any list.
LEMMA ReportsIs ==
    ASSUME NEW list \in Seq(SackBlock)
    PROVE  \A b : b \in UNION {Covered(block) : block \in Range(list)}
                      <=> b \in Nat /\ Reports(list, b)
<1>1. \A i \in DOMAIN list : list[i] \in SackBlock
  BY ElementOfSeq, LenProperties
<1>2. \A i \in DOMAIN list : list[i][1] \in Nat /\ list[i][2] \in Nat
  BY <1>1 DEF SackBlock
<1>3. \A b : b \in UNION {Covered(block) : block \in Range(list)}
                 <=> \E i \in DOMAIN list : b \in Covered(list[i])
  BY DEF Range
<1>4. \A i \in DOMAIN list : \A b :
          b \in Covered(list[i]) <=> b \in Nat /\ InBlock(b, list[i])
  BY <1>2 DEF Covered, InBlock
<1> QED BY <1>3, <1>4 DEF Reports

\* Held, of any socket.
HeldBy(s) == (UNION {Range(s.rx.data[h]) : h \in DOMAIN s.rx.data}) \union Range(s.read)

\* The bytes received, in the terms of the invariant.
LEMMA HeldIs ==
    ASSUME NEW s, Good(s)
    PROVE  \A b : b \in HeldBy(s) <=> b \in Stream /\ Has(s, b)
<1> DEFINE r == Len(s.read)
           A == UNION {Range(s.rx.data[h]) : h \in DOMAIN s.rx.data}
<1>1. /\ Placed(s.rx.data, StreamLength) /\ r \in Nat /\ r <= StreamLength
      /\ StreamLength \in Nat /\ s.read = [i \in 1 .. r |-> i - 1]
  BY GoodTypes, ReceiverAssumption DEF Good, InOrderBuffer
<1> HIDE DEF r
<1>2. A = BytesOf(s.rx.data) /\ BytesOf(s.rx.data) \subseteq 0 .. StreamLength - 1
  BY <1>1, BytesAreHeld, BytesType
<1>3. \A b : b \in Range(s.read) <=> b \in 0 .. r - 1
  <2>1. Range(s.read) = {i - 1 : i \in 1 .. r}
    BY <1>1 DEF Range
  <2>2. ASSUME NEW b \in 0 .. r - 1 PROVE b \in {i - 1 : i \in 1 .. r}
    <3>1. b + 1 \in 1 .. r /\ b = (b + 1) - 1
      BY <1>1
    <3> QED BY <3>1
  <2>3. ASSUME NEW b \in {i - 1 : i \in 1 .. r} PROVE b \in 0 .. r - 1
    BY <1>1
  <2> QED BY <2>1, <2>2, <2>3
<1>4. HeldBy(s) = A \union Range(s.read)
  BY DEF HeldBy
<1> HIDE DEF A
<1>5. \A b : b \in HeldBy(s) <=> b \in BytesOf(s.rx.data) \/ b \in 0 .. r - 1
  BY <1>2, <1>3, <1>4
<1>6. \A b : Has(s, b) <=> b < r \/ b \in BytesOf(s.rx.data)
  BY DEF Has, r
<1> QED BY <1>1, <1>2, <1>5, <1>6 DEF Stream

\* How much of the stream is here without a gap.
InOrderBy(s) == Len(s.read) + s.rx.avail

LEMMA InOrderIs ==
    ASSUME NEW s, Good(s)
    PROVE  /\ Min({b \in 0 .. StreamLength : b \notin HeldBy(s)}) = InOrderBy(s)
           /\ InOrderBy(s) \in Nat /\ InOrderBy(s) <= StreamLength
           /\ Len(s.read) <= InOrderBy(s)
           /\ s.rx.next = InOrderBy(s)
              \/ (s.rx.next = StreamLength + 1 /\ InOrderBy(s) = StreamLength)
<1> DEFINE r == Len(s.read)
           c == r + s.rx.avail
           T == {b \in 0 .. StreamLength : b \notin HeldBy(s)}
<1>1. /\ r \in Nat /\ s.rx.avail \in Nat /\ c <= StreamLength /\ StreamLength \in Nat
      /\ \A b \in r .. c - 1 : b \in BytesOf(s.rx.data)
      /\ c \notin BytesOf(s.rx.data)
      /\ s.rx.next = c \/ (s.rx.next = StreamLength + 1 /\ c = StreamLength)
  BY ReceiverAssumption DEF Good, InOrderBuffer
<1>2. \A b : b \in HeldBy(s) <=>
              b \in 0 .. StreamLength - 1 /\ (b < r \/ b \in BytesOf(s.rx.data))
  BY HeldIs DEF Has, Stream
<1> HIDE DEF r
<1>3. c \in T /\ \A b \in T : c <= b
  BY <1>1, <1>2
<1>4. c \in Nat /\ r <= c
  BY <1>1
<1>5. T \subseteq Nat /\ T # {}
  BY <1>1, <1>3
<1> HIDE DEF T, c
<1>6. Min(T) = c
  <2>1. Min(T) \in T /\ \A y \in T : Min(T) <= y
    BY <1>5, MinIsLeast
  <2>2. Min(T) \in Nat
    BY <2>1, <1>5
  <2> QED BY <2>1, <2>2, <1>3, <1>4
<1> QED BY <1>1, <1>4, <1>6 DEF c, r, T, InOrderBy

-----------------------------------------------------------------------------
(***************************************************************************)
(* The theorems.                                                           *)
(***************************************************************************)
Safe == Init /\ [][Next]_vars

\* Fairness plays no part in what follows.
LEMMA SpecIsSafe == Spec => Safe
BY PTL DEF Spec, Safe

\* Every reachable socket is good.
THEOREM Invariance == Spec => []IInv
<1>1. IInv /\ [Next]_vars => IInv'
  BY StepKeeps
<1> QED BY <1>1, SpecIsSafe, InitiallyGood, PTL DEF Safe

\* The peer's FIN counts only once the whole stream is here, whatever overlaps,
\* is read or arrives out of order.
THEOREM EndOfFileIsComplete == Spec => []EofComplete
<1>1. IInv => EofComplete
  <2> SUFFICES ASSUME IInv, Finished(sock.rx) PROVE Held = Stream
    BY DEF EofComplete
  <2> DEFINE r == Len(sock.read)
             c == r + sock.rx.avail
  <2>1. /\ r \in Nat /\ sock.rx.avail \in Nat /\ c <= StreamLength /\ StreamLength \in Nat
        /\ \A b \in r .. c - 1 : b \in BytesOf(sock.rx.data)
        /\ c \notin BytesOf(sock.rx.data)
        /\ sock.rx.next = c \/ (sock.rx.next = StreamLength + 1 /\ c = StreamLength)
        /\ sock.rx.fin \in 0 .. StreamLength
        /\ \A b \in sock.rx.fin .. StreamLength - 1 : b < r \/ b \in BytesOf(sock.rx.data)
        /\ sock.rx.fin < sock.rx.next
    BY ReceiverAssumption DEF IInv, Good, InOrderBuffer, Finished
  <2>2. \A b : b \in Held <=> b \in 0 .. StreamLength - 1 /\ (b < r \/ b \in BytesOf(sock.rx.data))
    <3>1. Held = HeldBy(sock)
      BY DEF Held, HeldBy
    <3> QED BY <3>1, HeldIs DEF Has, Stream, IInv
  <2> HIDE DEF r
  <2>3. c = StreamLength
    BY <2>1
  <2>4. \A b \in 0 .. StreamLength - 1 : b < r \/ b \in BytesOf(sock.rx.data)
    BY <2>1, <2>3
  <2> QED BY <2>2, <2>4 DEF Stream
<1> QED BY <1>1, Invariance, PTL

\* The counters of the buffer and the SACK list say what the fragments hold.
LEMMA SoundIsConsistent ==
    ASSUME IInv, Sound(sock)
    PROVE  Consistent
<1> DEFINE rx == sock.rx
           r == Len(sock.read)
           B == BytesOf(rx.data)
<1>1. /\ InOrderBuffer(rx, r, StreamLength) /\ Counted(rx, r)
      /\ StreamLength \in Nat /\ MaxBuffer \in Nat /\ r \in Nat /\ r <= StreamLength
      /\ rx.next \in 0 .. StreamLength + 1 /\ sock.highTxAck \in 0 .. StreamLength + 1
  <2>1. Good(sock) /\ StreamLength \in Nat /\ MaxBuffer \in Nat
    BY RxBufferAssumption, ReceiverAssumption DEF IInv
  <2>2. InOrderBuffer(rx, r, StreamLength) /\ Counted(rx, r) /\ sock.highTxAck <= rx.next
    BY <2>1 DEF Good, Sound
  <2>3. /\ r \in Nat /\ r <= StreamLength /\ rx.next \in Nat
        /\ rx.next <= StreamLength + 1 /\ sock.highTxAck \in Nat
    BY <2>1, GoodTypes
  <2> HIDE DEF rx, r
  <2> QED BY <2>1, <2>2, <2>3
<1>2. edge \in MaxBuffer .. StreamLength + 1 + MaxBuffer
  <2>1. sock.advWnd \in Int /\ sock.advWnd <= MaxBuffer
        /\ edge \in Int /\ edge <= rx.next + sock.advWnd /\ MaxBuffer <= edge
    BY DEF IInv, Good, Offered
  <2> QED BY <2>1, <1>1
<1> HIDE DEF rx, r
<1>3. /\ Placed(rx.data, StreamLength) /\ Apart(rx.data) /\ rx.avail \in Nat
      /\ \A b \in B : r <= b
      /\ \A b \in r .. r + rx.avail - 1 : b \in B
      /\ r + rx.avail \notin B /\ r + rx.avail <= StreamLength
      /\ rx.next = r + rx.avail
         \/ (rx.gotFin /\ rx.next = StreamLength + 1 /\ r + rx.avail = StreamLength)
      /\ rx.gotFin \in BOOLEAN /\ rx.fin \in 0 .. StreamLength
  BY <1>1 DEF InOrderBuffer
<1>4. /\ rx.size = Cardinality(B) /\ \A b \in B : b < r + MaxBuffer
      /\ rx.sack \in Seq(SackBlock) /\ Len(rx.sack) <= SackListMax
      /\ \A b \in Nat : Reports(rx.sack, b) => b \in B /\ b > rx.next
  BY <1>1 DEF Counted
<1>5. B \subseteq 0 .. StreamLength - 1
  BY <1>1, <1>3, BytesType
<1>6. rx.size \in Nat /\ rx.size <= MaxBuffer
  <2> DEFINE I == r .. r + MaxBuffer - 1
  <2>1. B \subseteq I
    <3> HIDE DEF B
    <3> QED BY <1>1, <1>3, <1>4, <1>5
  <2>2. IsFiniteSet(I) /\ Cardinality(I) = MaxBuffer
    BY <1>1, IntervalSize
  <2> HIDE DEF I, B
  <2>5. IsFiniteSet(B) /\ Cardinality(B) <= Cardinality(I)
    BY <2>1, <2>2, FS_Subset
  <2>6. Cardinality(B) \in Nat
    BY <2>5, FS_CardinalityType
  <2> QED BY <2>2, <2>5, <2>6, <1>1, <1>4
<1>7. \A h \in DOMAIN rx.data : h \in Stream /\ rx.data[h] \in Seq(Stream) \ {<<>>}
  <2> SUFFICES ASSUME NEW h \in DOMAIN rx.data
               PROVE  h \in Stream /\ rx.data[h] \in Seq(Stream) \ {<<>>}
    OBVIOUS
  <2>1. h \in B
    BY <1>1, <1>3, BytesType
  <2>2. rx.data[h] \in Seq(Stream) /\ Len(rx.data[h]) > 0
    BY <1>3 DEF Placed, Stream
  <2>3. rx.data[h] # <<>>
    BY <2>2, EmptySeq
  <2> QED BY <2>1, <2>2, <2>3, <1>5 DEF Stream
<1>8. \A b : b \in Reported <=> b \in Nat /\ Reports(rx.sack, b)
  BY <1>4, ReportsIs DEF Reported, Blocks, rx
<1>9. Reported \subseteq BeyondGap
  BY <1>4, <1>8 DEF BeyondGap, rx
<1>10. Blocks \subseteq Stream \X (1 .. StreamLength)
  <2> SUFFICES ASSUME NEW i \in DOMAIN rx.sack
               PROVE  rx.sack[i] \in Stream \X (1 .. StreamLength)
    BY DEF Blocks, Range, rx
  <2>1. rx.sack[i] \in Nat \X Nat /\ rx.sack[i][1] < rx.sack[i][2]
    BY <1>4, ElementOfSeq, LenProperties DEF SackBlock
  <2> DEFINE x == rx.sack[i][1]
             y == rx.sack[i][2]
  <2>2. x \in Nat /\ y \in Nat /\ x < y
    BY <2>1
  <2>3. rx.sack[i] = <<x, y>>
    BY <2>1
  <2>4. Reports(rx.sack, x) /\ Reports(rx.sack, y - 1)
    <3>1. InBlock(x, rx.sack[i]) /\ InBlock(y - 1, rx.sack[i])
      BY <2>2 DEF InBlock
    <3> QED BY <3>1 DEF Reports
  <2> HIDE DEF x, y
  <2>5. y - 1 \in Nat
    BY <2>2
  <2>6. x \in B /\ y - 1 \in B
    BY <2>2, <2>4, <2>5, <1>4
  <2>7. x \in Stream /\ y \in 1 .. StreamLength
    BY <2>2, <2>6, <1>1, <1>5 DEF Stream
  <2> QED BY <2>3, <2>7
<1>11. TypeOK
  <2>1. /\ sock.delAckCount \in 0 .. DelAckMax
        /\ sock.delAckTimer => sock.delAckCount < DelAckMax
        /\ sock.state \in Open \union {"CLOSING", "LAST_ACK", "RESET"}
    BY DEF Sound, DelayOK
  <2> QED BY <2>1, <1>1, <1>2, <1>3, <1>4, <1>6, <1>7, <1>10 DEF TypeOK, rx
<1> DEFINE end == IF Finished(rx) /\ rx.next = StreamLength + 1 THEN StreamLength ELSE rx.next
<1>12. end = r + rx.avail
  BY <1>1, <1>3 DEF Finished
<1> HIDE DEF end, B
<1>13. B \intersect (0 .. end) = r .. r + rx.avail - 1
  BY <1>1, <1>3, <1>5, <1>12
<1>14. \A h, k \in DOMAIN rx.data : h < k => EndOf(rx.data, h) <= k
  BY <1>3 DEF Apart
<1> QED BY <1>4, <1>6, <1>9, <1>11, <1>12, <1>13, <1>14 DEF Consistent, rx, r, B, end

\* The counters of the buffer are right whatever segments overlap and whatever is
\* read meanwhile: fragments do not overlap, m_size counts what they hold and stays
\* within m_maxBuffer, m_availBytes counts what can be read, and no SACK block
\* reports a byte that is not stored or is already in order.
THEOREM BufferIsConsistent == Spec => []Consistent
<1>1. IInv /\ Sound(sock) /\ [Next]_vars => Sound(sock)'
  BY StepFiles DEF Files
<1>2. IInv /\ Sound(sock) => Consistent
  BY SoundIsConsistent
<1> QED BY <1>1, <1>2, InitiallySound, Invariance, SpecIsSafe, PTL DEF Safe

\* A SACK list that reports all that is stored beyond a gap goes on to do so,
\* unless it is full.
THEOREM SackListStaysComplete == Spec => SackComplete
<1>1. IInv /\ Sound(sock) /\ [Next]_vars => Sound(sock)'
  BY StepFiles DEF Files
<1>2. IInv /\ Sound(sock) /\ [Next]_vars
          => [BeyondGap \subseteq Reported /\ Len(sock.rx.sack) < SackListMax
                 => BeyondGap' \subseteq Reported']_vars
  <2> SUFFICES ASSUME IInv, Sound(sock), [Next]_vars,
                      BeyondGap \subseteq Reported, Len(sock.rx.sack) < SackListMax
               PROVE  BeyondGap' \subseteq Reported'
    OBVIOUS
  <2>1. Files(sock, sock') /\ Good(sock')
    BY StepFiles, StepKeeps DEF Keeps
  <2>2. sock.rx.sack \in Seq(SackBlock) /\ sock'.rx.sack \in Seq(SackBlock)
    BY <2>1 DEF Files, Sound, Counted
  <2>3. \A b : b \in Reported <=> b \in Nat /\ Reports(sock.rx.sack, b)
    BY <2>2, ReportsIs DEF Reported, Blocks
  <2>4. \A b : b \in Reported' <=> b \in Nat /\ Reports(sock'.rx.sack, b)
    BY <2>2, ReportsIs DEF Reported, Blocks, Covered
  <2>5. AllReported(sock.rx)
    BY <2>3 DEF AllReported, BeyondGap
  <2>6. AllReported(sock'.rx)
    BY <2>1, <2>5 DEF Files
  <2>7. \A b \in BytesOf(sock'.rx.data) : b \in Nat
    BY <2>1, BytesType, ReceiverAssumption DEF Good, InOrderBuffer
  <2> QED BY <2>4, <2>6, <2>7 DEF AllReported, BeyondGap
<1> QED BY <1>1, <1>2, InitiallySound, Invariance, SpecIsSafe, PTL DEF Safe, SackComplete

\* No ACK takes back what an earlier one offered, but for what the window scale
\* cannot express: a FIN freezes the window, a read moves it on, and neither can
\* make the edge of an ACK fall behind.
THEOREM EdgeNeverMovesBack == Spec => EdgeStable
<1>1. ASSUME IInv, Next
      PROVE  \A r \in Range(sock'.replies) : r.ack + r.wnd + WindUnit > edge
  BY <1>1, ActionKeeps DEF Reach, RightEdge
<1>2. IInv /\ [Next]_vars =>
          [\A r \in Range(sock'.replies) : r.ack + r.wnd + WindUnit > edge]_vars
  BY <1>1
<1> QED BY <1>2, SpecIsSafe, Invariance, PTL DEF Safe, EdgeStable

\* The receiver implements ReceiveStream: the application reads the stream in
\* order and without gaps, a byte received is never given up, and nothing is
\* acknowledged before everything up to it is here.
THEOREM ImplementsReceiveStream == Spec => ReceivesStream
<1>1. Init => Receiving!Init
  <2> SUFFICES ASSUME Init PROVE Receiving!Init
    OBVIOUS
  <2>1. /\ sock.read = <<>> /\ sock.highTxAck = 0 /\ sock.state = "ESTABLISHED"
        /\ sock.rx.data = <<>>
    BY DEF Init, RxBuffer
  <2>2. Held = {}
    BY <2>1 DEF Held, Range
  <2> QED BY <2>1, <2>2 DEF Receiving!Init
<1>2. IInv /\ [Next]_vars => [Receiving!Next]_(Receiving!vars)
  <2> SUFFICES ASSUME IInv, [Next]_vars PROVE [Receiving!Next]_(Receiving!vars)
    OBVIOUS
  <2>1. IInv' /\ Good(sock') /\ Grows(sock, sock') /\ Good(sock)
    BY StepKeeps DEF IInv, Keeps
  <2>2. Held = HeldBy(sock) /\ Held' = HeldBy(sock')
    BY DEF Held, HeldBy
  <2>3. Receiving!Receive
    <3>1. \A b : b \in Held <=> b \in Stream /\ Has(sock, b)
      BY <2>1, <2>2, HeldIs
    <3>2. \A b : b \in Held' <=> b \in Stream /\ Has(sock', b)
      BY <2>1, <2>2, HeldIs
    <3>3. \A b \in Stream : Has(sock, b) => Has(sock', b)
      BY <2>1 DEF Grows, Stream
    <3> QED BY <3>1, <3>2, <3>3 DEF Receiving!Receive, Receiving!Stream, Stream
  <2>4. Receiving!InOrder(Held') = InOrderBy(sock')
    BY <2>1, <2>2, InOrderIs DEF Receiving!InOrder, Receiving!Min, Min
  <2>5. Receiving!Deliver
    <3> DEFINE q == sock.read
               w == sock'.read
    <3>1. /\ q \in Seq(Nat) /\ q = [i \in 1 .. Len(q) |-> i - 1] /\ Len(q) \in Nat
          /\ w \in Seq(Nat) /\ w = [i \in 1 .. Len(w) |-> i - 1] /\ Len(w) \in Nat
          /\ Len(q) <= Len(w)
      BY <2>1, GoodTypes DEF Good, Grows
    <3>2. Len(w) <= InOrderBy(sock')
      BY <2>1, InOrderIs
    <3> HIDE DEF q, w
    <3>3. SubSeq(q, 1, Len(q)) = SubSeq(w, 1, Len(q))
      BY <3>1
    <3>4. Receiving!IsPrefix(q, w)
      BY <3>1, <3>3 DEF Receiving!IsPrefix
    <3> QED BY <2>4, <3>1, <3>2, <3>4 DEF Receiving!Deliver, q, w
  <2>6. Receiving!Acknowledge
    <3>1. /\ sock'.highTxAck \in Nat /\ sock'.highTxAck <= sock'.rx.next
          /\ sock.highTxAck <= sock'.highTxAck
      BY <2>1 DEF Good, Grows
    <3>2. /\ sock'.rx.next = InOrderBy(sock')
             \/ (sock'.rx.next = StreamLength + 1 /\ InOrderBy(sock') = StreamLength)
          /\ InOrderBy(sock') \in Nat /\ StreamLength \in Nat
      BY <2>1, InOrderIs, ReceiverAssumption
    <3>3. Receiving!Sendable(Held') = IF InOrderBy(sock') = StreamLength
                                      THEN StreamLength + 1 ELSE InOrderBy(sock')
      BY <2>4 DEF Receiving!Sendable
    <3> QED BY <3>1, <3>2, <3>3 DEF Receiving!Acknowledge
  <2>7. sock.state = "RESET" => sock'.state = "RESET"
    <3>1. /\ DOMAIN Quiet = SockFields /\ Quiet.state = sock.state
          /\ DOMAIN sock = SockFields
      BY <2>1 DEF Quiet, Good, SockFields
    <3>2. SendEmptyPacket(Quiet).state = Quiet.state
      BY <3>1 DEF SendEmptyPacket, SockFields
    <3>3. \A n : Recv(Quiet, n).state = Quiet.state
      BY <3>1 DEF Recv, SockFields
    <3>4. Next => sock.state # "RESET" \/ DelAckTimeout \/ \E n : Read(n)
      BY DEF Next, Arrive, Close, ShutdownSend, Open
    <3> QED BY <3>1, <3>2, <3>3, <3>4 DEF DelAckTimeout, Read, Handle, vars
  <2> QED BY <2>3, <2>5, <2>6, <2>7 DEF Receiving!Next
<1> QED BY <1>1, <1>2, SpecIsSafe, Invariance, PTL DEF Safe, ReceivesStream
=============================================================================
