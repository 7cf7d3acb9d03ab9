----------------------------- MODULE TraceFile -----------------------------
(***************************************************************************)
(* The trace file (crates/recorder/src/trace): what TraceWriter writes and *)
(* how TraceReader reads it back.  A file is a sequence of cells, each one *)
(* of Base values; a field of several bytes that can be cut in the middle  *)
(* has two.  Lengths are counted in cells.                                 *)
(***************************************************************************)
EXTENDS Naturals, Sequences

CONSTANTS
    None,
    Base,           \* values of a cell; header_len has one cell, so it wraps at Base
    MAX_BODY_LEN,
    Program, Args   \* the recorded command line, each string a sequence of cells

\* The checksum tells any two bodies apart that differ in one cell, so Base is a
\* prime above every body length.
ASSUME FormatAssumption ==
    /\ None \notin Nat
    /\ Base \in Nat /\ MAX_BODY_LEN \in 5..(Base - 1)
    /\ \A d \in 2..(Base - 1) : Base % d # 0

Cell == 0..(Base - 1)
MAGIC == 1
FORMAT_VERSION == 3
BASE_HEADER_LEN == 3
CMDLINE_MIN_VERSION == 2
TID_MIN_VERSION == 3
NotUtf8 == Base - 1     \* a cell no string contains

\* EventKind: a discriminant this version does not know is kept as it is.
KindNames == <<"SyscallEnter", "SyscallExit", "SchedSwitch", "Signal", "SyncAcquire",
               "SyncRelease", "Fork", "Checkpoint", "ThreadSpawn", "ThreadExit">>
to_u16(kind) ==
    IF kind.name = "Unknown" THEN kind.raw
    ELSE CHOOSE i \in DOMAIN KindNames : KindNames[i] = kind.name
from_u16(raw) ==
    IF raw \in DOMAIN KindNames THEN [name |-> KindNames[raw], raw |-> 0]
    ELSE [name |-> "Unknown", raw |-> raw]

-----------------------------------------------------------------------------
(* writer.rs                                                               *)

push_str(s) == <<Len(s)>> \o s

\* The arguments from the i-th on.
ArgsFrom(args) ==
    LET from[i \in 1..(Len(args) + 1)] ==
            IF i > Len(args) THEN <<>> ELSE push_str(args[i]) \o from[i + 1]
    IN  from

encode_cmdline(program, args) == push_str(program) \o <<Len(args)>> \o ArgsFrom(args)[1]

write_header(cmdline) ==
    <<MAGIC, FORMAT_VERSION, (BASE_HEADER_LEN + Len(cmdline)) % Base>> \o cmdline

\* The command line is made of strings, and the header's length is below its limit
\* (write_header wraps a longer one).  An Option's None is no command line.
ASSUME CommandAssumption ==
    /\ Program \in Seq(0..(Base - 2)) /\ Args \in Seq(Seq(0..(Base - 2)))
    /\ None # [program |-> Program, args |-> Args]
    /\ BASE_HEADER_LEN + Len(encode_cmdline(Program, Args)) < Base

Header == write_header(encode_cmdline(Program, Args))

\* seq | tid | kind | payload; an event of no thread is given tid 0.
encode_body(seq, event) ==
    <<seq, IF event.tid = None THEN 0 ELSE event.tid, to_u16(event.kind)>> \o event.payload

\* A weighted sum, as a checksum that notices any one changed cell.
Crc(body) ==
    LET sum[i \in 0..Len(body)] == IF i = 0 THEN 0 ELSE (sum[i - 1] + i * body[i]) % Base
    IN  sum[Len(body)]

\* The three writes of append.
FrameParts(body) == << <<Len(body) % Base, Len(body) \div Base>>, body, <<Crc(body), 0>> >>

Frame(body) == FrameParts(body)[1] \o FrameParts(body)[2] \o FrameParts(body)[3]

-----------------------------------------------------------------------------
(* reader.rs                                                               *)

\* The position after the string that starts after position p, or None.
StrEnd(buf, p) ==
    IF p = None \/ p = Len(buf) THEN None
    ELSE LET end == p + 1 + buf[p + 1]
         IN  IF end > Len(buf) \/ \E i \in (p + 2)..end : buf[i] = NotUtf8 THEN None ELSE end

\* The positions after the strings that follow position start.
StrEnds(buf, start) ==
    LET ends[i \in Nat] == IF i = 0 THEN start ELSE StrEnd(buf, ends[i - 1])
    IN  ends

\* None if it is malformed.  Cells after the last argument belong to headers of later versions.
decode_cmdline(buf) ==
    LET program == StrEnd(buf, 0)
        count == IF program = None \/ program = Len(buf) THEN None ELSE buf[program + 1]
        ends == StrEnds(buf, program + 1)
    IN  IF count = None \/ ends[count] = None THEN None
        ELSE [program |-> SubSeq(buf, 2, program),
              args |-> [i \in 1..count |-> SubSeq(buf, ends[i - 1] + 2, ends[i])]]

Opened(version, cmdline, pos) ==
    [state |-> "open", version |-> version, cmdline |-> cmdline, pos |-> pos, last_seq |-> None]

Failed(err) == [state |-> err, version |-> 0, cmdline |-> None, pos |-> 0, last_seq |-> None]

open(file) ==
    LET extra == IF file[3] < BASE_HEADER_LEN THEN 0 ELSE file[3] - BASE_HEADER_LEN
        cmdline == decode_cmdline(SubSeq(file, 4, 3 + extra))
    IN  CASE Len(file) < BASE_HEADER_LEN \/ file[1] # MAGIC -> Failed("BadMagic")
          [] Len(file) >= BASE_HEADER_LEN /\ file[1] = MAGIC /\ file[2] > FORMAT_VERSION ->
               Failed("UnsupportedVersion")
          [] OTHER ->
               IF Len(file) < BASE_HEADER_LEN + extra THEN Failed("Truncated")
               ELSE IF file[2] < CMDLINE_MIN_VERSION \/ extra = 0 THEN Opened(file[2], None, 3 + extra)
               ELSE IF cmdline = None THEN Failed("MalformedHeader")
               ELSE Opened(file[2], cmdline, 3 + extra)

min_body_len(version) == IF version >= TID_MIN_VERSION THEN 3 ELSE 2

decode_body(version, body) ==
    LET n == min_body_len(version)
    IN  [seq |-> body[1],
         event |-> [tid |-> IF version >= TID_MIN_VERSION THEN body[2] ELSE None,
                    kind |-> from_u16(body[n]), payload |-> SubSeq(body, n + 1, Len(body))]]

Mutant_NoChecksum(body, crc) == TRUE

ChecksumOk(body, crc) == <<Crc(body), 0>> = crc

check_monotonic(last_seq, seq) == last_seq = None \/ seq > last_seq

Mutant_PartialIsEof(file, rd) ==
    LET left == Len(file) - rd.pos IN IF left < 2 THEN "eof" ELSE "full"

\* A clean end, a frame cut in its length field, or a length to go on with.
read_exact_or_eof(file, rd) ==
    LET left == Len(file) - rd.pos
    IN  IF left = 0 THEN "eof" ELSE IF left < 2 THEN "partial" ELSE "full"

\* One call of read_record: a record, "eof", or an error.
read_record(file, rd) ==
    LET body_len == file[rd.pos + 1] + Base * file[rd.pos + 2]
        body == SubSeq(file, rd.pos + 3, rd.pos + 2 + body_len)
        crc == SubSeq(file, rd.pos + 3 + body_len, rd.pos + 4 + body_len)
        record == decode_body(rd.version, body)
        outcome == read_exact_or_eof(file, rd)
        result(tag, r) == [tag |-> tag, record |-> r]
    IN  IF outcome = "eof" THEN result("eof", None)
        ELSE IF outcome = "partial" THEN result("Truncated", None)
        ELSE IF body_len < min_body_len(rd.version) THEN result("Truncated", None)
        ELSE IF body_len > MAX_BODY_LEN THEN result("BodyTooLarge", None)
        ELSE IF Len(file) < rd.pos + 4 + body_len THEN result("Truncated", None)
        ELSE IF ~ChecksumOk(body, crc) THEN result("ChecksumMismatch", None)
        ELSE IF ~check_monotonic(rd.last_seq, record.seq) THEN result("NonMonotonicSequence", None)
        ELSE result("record", record)

\* TraceReader::next: after an error there is nothing more to read.
Advanced(file, rd) ==
    LET r == read_record(file, rd)
        body_len == file[rd.pos + 1] + Base * file[rd.pos + 2]
    IN  CASE r.tag = "record" -> [rd EXCEPT !.pos = @ + 4 + body_len, !.last_seq = r.record.seq]
          [] r.tag = "eof" -> rd
          [] OTHER -> [rd EXCEPT !.state = r.tag]
=============================================================================
