--------------------------- MODULE MCFcgiDecoder ---------------------------
(***************************************************************************)
(* Responses for TLC: an output record, possibly a second record of output *)
(* or of a type the decoder ignores, and the end of the request; or output *)
(* and an error message. Records are empty, short, or longer than the low  *)
(* byte of a length can tell. The header of the response may end in the    *)
(* first record or not.                                                    *)
(***************************************************************************)
EXTENDS FcgiDecoder

CONSTANTS Lengths, MaxPad

FCGI_UNKNOWN_TYPE == 11

\* n bytes of content of the k-th record.
Content(k, n) == [m \in 1 .. n |-> 10 * k + (m % 10)]

Record(type, k, n, pad) == [type |-> type, content |-> Content(k, n), pad |-> pad]

\* The first record, with or without the end of the response header.
First(n, pad) ==
  {Record(FCGI_STDOUT, 1, n, pad),
   [Record(FCGI_STDOUT, 1, n, pad) EXCEPT !.content = Append(@, END_OF_HEADER)]}

MCStreams ==
  UNION {{<<first, Record(FCGI_END_REQUEST, 2, 8, p)>>,
          <<first, Record(FCGI_STDERR, 2, n + 1, p)>>,
          <<first, Record(FCGI_STDOUT, 2, n, p), Record(FCGI_END_REQUEST, 3, 8, 0)>>,
          <<first, Record(FCGI_UNKNOWN_TYPE, 2, n, p), Record(FCGI_END_REQUEST, 3, 8, 0)>>} :
           first \in UNION {First(m, q) : m \in Lengths, q \in 0 .. MaxPad},
           n \in Lengths, p \in 0 .. MaxPad}

=============================================================================
