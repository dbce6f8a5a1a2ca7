----------------------------- MODULE FcgiDecoder -----------------------------
(***************************************************************************)
(* The decoder of FastCGI responses (ats_fcgi_client.h/.cc): one response  *)
(* arrives in blocks of any size, and fcgiDecodeRecordChunk turns each     *)
(* block into output while the state of the record in progress, rec, stays *)
(* from block to block.                                                    *)
(*                                                                         *)
(* A step is one pass through the loop of fcgiProcessBuffer, or, within a  *)
(* record header, one byte. beg and end are beg_buf and end_buf as         *)
(* positions in wire, all that the application sends.                      *)
(***************************************************************************)
EXTENDS Integers, Sequences, SequencesExt

CONSTANTS Streams,      \* the responses: sequences of [type, content, pad]
          BlockSizes    \* the sizes of buffer blocks

Records == [type : Nat, content : Seq(Nat), pad : Nat]

ASSUME DecoderAssumption ==
  /\ Streams \subseteq Seq(Records)
  /\ BlockSizes \subseteq Nat \ {0}

\* fcgi_protocol.h
FCGI_HEADER_LEN == 8
FCGI_END_REQUEST == 3
FCGI_STDOUT == 6
FCGI_STDERR == 7

\* What the decoder adds to the output of the application: a status line, and
\* one that says 500. END_OF_HEADER stands for an empty line in the content.
STATUS == -1
SERVER_ERROR == -2
END_OF_HEADER == 256

\* How the application encodes a record.
Encode(r) ==
  << 1, r.type, 0, 1, Len(r.content) \div 256, Len(r.content) % 256, r.pad, 0 >>
    \o r.content \o [k \in 1 .. r.pad |-> 0]

VARIABLES stream,       \* the response
          wire,         \* its bytes
          beg, end,     \* beg_buf and end_buf
          pc,           \* "wait" for a block, "decode", or "overrun"
          rec,          \* _headerRecord
          first_chunk,  \* no record is complete yet
          output,       \* what writeResponseChunkToATS has got
          status        \* what fcgiDecodeRecordChunk returned last

vars == <<stream, wire, beg, end, pc, rec, first_chunk, output, status>>

\* FCGIRecordList. The bytes of the header are kept in order; they tell the
\* type, the length of the content and that of the padding. content_begin and
\* content_proc differ in the allocation of the content only.
NewRecord == [state |-> "header", header |-> <<>>, content |-> <<>>, offset |-> 0]

Type(r) == r.header[2]

\* Mutant: the high byte of the length is ignored.
ContentLenLowByte(r) == r.header[6]

fcgiHeaderGetContentLen(r) == r.header[5] * 256 + r.header[6]

PaddingLength(r) == r.header[7]

Init ==
  /\ stream \in Streams
  /\ wire = FlattenSeq([k \in DOMAIN stream |-> Encode(stream[k])])
  /\ beg = 0 /\ end = 0
  /\ pc = "wait"
  /\ rec = NewRecord
  /\ first_chunk = TRUE
  /\ output = <<>>
  /\ status = FALSE

-----------------------------------------------------------------------------

\* interceptTransferData hands over the next block: the bytes up to the end of
\* what has arrived. The block begins where the previous one ended.
Block(n) ==
  /\ pc = "wait"
  /\ end < Len(wire)
  /\ end' = IF end + n <= Len(wire) THEN end + n ELSE Len(wire)
  /\ beg' = end
  /\ pc' = "decode"
  /\ UNCHANGED <<stream, wire, rec, first_chunk, output, status>>

\* Mutant: the reserved byte is not counted.
ProcessHeaderLong ==
  /\ pc = "decode"
  /\ rec.state = "header"
  /\ rec' = [rec EXCEPT !.header = Append(@, wire[beg + 1]),
                        !.state = IF Len(rec.header) = FCGI_HEADER_LEN
                                  THEN "content" ELSE @]
  /\ beg' = beg + 1
  /\ pc' = IF beg' = end THEN "wait" ELSE "decode"
  /\ status' = (status /\ beg' # end)
  /\ UNCHANGED <<stream, wire, end, first_chunk, output>>

\* fcgiProcessHeader: a byte of the header.
ProcessHeader ==
  /\ pc = "decode"
  /\ rec.state = "header"
  /\ rec' = [rec EXCEPT !.header = Append(@, wire[beg + 1]),
                        !.state = IF Len(rec.header) = FCGI_HEADER_LEN - 1
                                  THEN "content" ELSE @]
  /\ beg' = beg + 1
  /\ pc' = IF beg' = end THEN "wait" ELSE "decode"
  /\ status' = (status /\ beg' # end)
  /\ UNCHANGED <<stream, wire, end, first_chunk, output>>

\* The status line that the first record gives rise to. Whether there is one
\* for a record without the end of the response header is up to the parser; a
\* header that is there to its end is taken for one that parses, otherwise there
\* is no status line (TS_PARSE_ERROR or TS_PARSE_CONT).
StatusLine(content) ==
  IF \E k \in DOMAIN content : content[k] = END_OF_HEADER
  THEN {<<STATUS>>} ELSE {<<STATUS>>, <<>>}

\* What a complete record adds to the output.
Delivered(type, content) ==
  CASE type = FCGI_STDOUT -> content
    [] type = FCGI_STDERR -> <<SERVER_ERROR>> \o content
    [] OTHER -> <<>>

\* The end of a pass of fcgiProcessBuffer in which the record was completed
\* and beg_buf moved to next.
RecordDone(content, next) ==
  LET type == Type(rec)
      last == type \in {FCGI_STDERR, FCGI_END_REQUEST}
  IN  /\ \E line \in IF first_chunk THEN StatusLine(content) ELSE {<<>>} :
           output' = output \o line \o Delivered(type, content)
      /\ first_chunk' = FALSE
      /\ rec' = NewRecord
      /\ beg' = next
      /\ pc' = CASE last \/ next = end -> "wait"
                 [] ~last /\ next > end -> "overrun"
                 [] OTHER -> "decode"
      /\ status' = IF pc' = "wait" THEN last ELSE status
      /\ UNCHANGED <<stream, wire, end>>

\* The end of a pass in which the block ended first.
RecordAgain(r) ==
  /\ rec' = r
  /\ beg' = end
  /\ pc' = "wait"
  /\ status' = FALSE
  /\ UNCHANGED <<stream, wire, end, first_chunk, output>>

\* fcgiProcessContent in the content of a record.
ProcessContent ==
  /\ pc = "decode"
  /\ rec.state = "content"
  /\ LET nb      == end - beg
         con_len == fcgiHeaderGetContentLen(rec) - rec.offset
         tot_len == con_len + PaddingLength(rec)
         cpy_len == IF con_len <= nb THEN con_len ELSE nb
         content == rec.content \o SubSeq(wire, beg + 1, beg + cpy_len)
     IN  \/ /\ tot_len <= nb
            /\ RecordDone(content, beg + tot_len)
         \/ /\ tot_len > nb
            /\ RecordAgain([rec EXCEPT
                 !.state   = IF con_len <= nb THEN "padding" ELSE @,
                 !.content = content,
                 !.offset  = @ + nb])

\* Mutants: the record is skipped as if none of it had come; padding is not
\* skipped.
SkipWholeRecord ==
  /\ pc = "decode"
  /\ rec.state = "padding"
  /\ RecordDone(rec.content,
       beg + fcgiHeaderGetContentLen(rec) + PaddingLength(rec))

SkipNoPadding ==
  /\ pc = "decode"
  /\ rec.state = "padding"
  /\ RecordDone(rec.content, beg)

\* fcgiProcessContent in the padding: all that is left of it is skipped.
SkipPadding ==
  /\ pc = "decode"
  /\ rec.state = "padding"
  /\ RecordDone(rec.content,
       beg + fcgiHeaderGetContentLen(rec) - rec.offset + PaddingLength(rec))

Next ==
  \/ \E n \in BlockSizes : Block(n)
  \/ ProcessHeader
  \/ ProcessContent
  \/ SkipPadding

Spec == Init /\ [][Next]_vars

-----------------------------------------------------------------------------

\* Where the k-th record starts.
Starts(k) ==
  Len(FlattenSeq([m \in 1 .. k - 1 |-> Encode(stream[m])]))

\* The record in progress and the position in the block.
TypeOK ==
  /\ 0 <= beg /\ 0 <= end /\ end <= Len(wire)
  /\ pc \in {"wait", "decode", "overrun"}
  /\ rec.state \in {"header", "content", "padding"}
  /\ rec.header \in Seq(Nat) /\ Len(rec.header) <= FCGI_HEADER_LEN
  /\ rec.offset \in Nat
  /\ first_chunk \in BOOLEAN
  /\ status \in BOOLEAN

\* fcgiProcessBuffer does not read beyond the block it was given. It relies on
\* beg_buf meeting end_buf, so passing end_buf once is enough to be lost.
WithinBlock == pc # "overrun"

\* fcgiProcessRecord: wherever the blocks end, a record is taken to start where
\* the application started one.
InSync ==
  pc # "overrun" /\ rec = NewRecord =>
    \E k \in 1 .. Len(stream) + 1 : beg = Starts(k)

\* What the whole response should come to, after the status line.
Reference ==
  FlattenSeq([k \in DOMAIN stream |->
                Delivered(stream[k].type, stream[k].content)])

\* fcgiDecodeRecordChunk: wherever the blocks end, the output is the content of
\* the output records so far, in order, after at most one status line; and the
\* end of the response is reported with its last byte and not before.
DecodesStream ==
  \E line \in StatusLine(stream[1].content) :
    /\ IsPrefix(output, line \o Reference)
    /\ pc = "wait" => (status <=> end = Len(wire))
    /\ status => output = line \o Reference

=============================================================================
