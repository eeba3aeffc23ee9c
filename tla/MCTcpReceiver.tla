---------------------------- MODULE MCTcpReceiver ----------------------------
(***************************************************************************)
(* TcpReceiver with the loops of the buffer beside it, for model checking. *)
(***************************************************************************)
EXTENDS TcpReceiver, TcpRxBufferLoops

\* In every buffer that can be reached, and for everything that can arrive or
\* be read there, the loops of Add and Extract compute what the closed forms
\* say: fragments, counters, SACK list and bytes.
LoopsAgree ==
    /\ \A seg \in Segments \union Probes :
        seg.len > 0 => Add(sock.rx, seg.seq, Packet(seg))
                        = AddLoop(sock.rx, seg.seq, Packet(seg))
    /\ \A n \in 0 .. MaxBuffer :
        [rx |-> Extract(sock.rx, n), out |-> Extracted(sock.rx, n)]
            = ExtractLoop(sock.rx, n)
=============================================================================
