--------------------------- MODULE MCEbpfCapture ---------------------------
(* Instances of EbpfCapture for TLC. *)
EXTENDS EbpfCapture

MCTid == {5, 6}
MCProgram == <<7>>
MCArgs == <<<<8, 9>>, <<>>>>

Rec(seq, tid, kind) == [seq |-> seq, event |-> [tid |-> tid, kind |-> kind, payload |-> <<4>>]]
File(cells, records, ends) == [cells |-> cells, written |-> records, ends |-> ends]

V1 == <<MAGIC, 1, 3>> \o Frame(<<0, 1, 4>>) \o Frame(<<3, 2, 4>>)
V3 == write_header(<<>>) \o Frame(<<0, 5, 9, 4>>) \o Frame(<<1, 5, 12, 4>>)
V3Records == <<Rec(0, 5, from_u16(9)), Rec(1, 5, from_u16(12))>>
Start == 3
FrameLen == 8

\* Every damage to one cell of a body or of a checksum of V3.
Damaged ==
    {File([V3 EXCEPT ![Start + f * FrameLen + i] = v], SubSeq(V3Records, 1, f), "ChecksumMismatch") :
        f \in 0..1, i \in 3..FrameLen, v \in {0, 2, 11}}
Undamaged == {f \in Damaged : f.cells = V3}

MCGiven ==
    (Damaged \ Undamaged) \cup
    { File(V1, <<Rec(0, None, from_u16(1)), Rec(3, None, from_u16(2))>>, "open"),
      File(V3, V3Records, "open"),
      File(<<MAGIC, 1, 5, 16, 16>> \o Frame(<<0, 1, 4>>), <<Rec(0, None, from_u16(1))>>, "open"),
      File(V3 \o Frame(<<1, 5, 12, 4>>), V3Records, "NonMonotonicSequence"),
      File(V3 \o Frame(<<0, 5, 9, 4>>), V3Records, "NonMonotonicSequence"),
      File(V3 \o Frame([i \in 1..(MAX_BODY_LEN + 1) |-> 2]), V3Records, "BodyTooLarge"),
      File(V3 \o Frame(<<2, 5>>), V3Records, "Truncated"),
      File(<<MAGIC, 4, 3>> \o Frame(<<0, 5, 9, 4>>), <<>>, "UnsupportedVersion"),
      File(<<2, 3, 3>> \o Frame(<<0, 5, 9, 4>>), <<>>, "BadMagic"),
      File(<<MAGIC, 3, 5, 1, 7>>, <<>>, "MalformedHeader"),
      File(<<MAGIC, 3, 6, 1, 7, 1>>, <<>>, "MalformedHeader"),
      File(<<MAGIC, 3, 6, 1, NotUtf8, 0>>, <<>>, "MalformedHeader"),
      File(<<MAGIC, 2, 9, 1, 7, 0>>, <<>>, "Truncated"),
      File(<<MAGIC, 2, 2>>, <<>>, "open") }
=============================================================================
