---------------------------- MODULE FcgiEncoder ----------------------------
(***************************************************************************)
(* FCGIClientRequest (ats_fcgi_client.cc), the half that encodes a request *)
(* for the FastCGI application: the parameters made from the client's      *)
(* request, and the records written to the connection.                     *)
(*                                                                         *)
(* Strings are sequences of parts. A buffer is a sequence of items, each   *)
(* so many bytes long: the 8 bytes of a record header, the 8 bytes of the  *)
(* body of FCGI_BEGIN_REQUEST, a byte of a length, or a string.            *)
(***************************************************************************)
EXTENDS Integers, FiniteSetsExt, SequencesExt

CONSTANTS NULL,
          Requests,   \* client requests: method, path, fields, length, chunks
          RequestIds, \* the ids they may get
          LongParts   \* the lengths of parts that are only named

VARIABLES request,  \* the client's request, and the id it was given
          params,   \* requestHeaders
          capacity, \* bytes allocated for buff
          buff,     \* what is in buff up to pBuffInc
          written,  \* the furthest byte of buff that was written
          sent,     \* what was handed to phpWrite
          streamed, \* chunks of the body that were passed on
          pc

vars == <<request, params, capacity, buff, written, sent, streamed, pc>>

BUF_SIZE == 5000

FCGI_BEGIN_REQUEST == 1
FCGI_PARAMS        == 4
FCGI_STDIN         == 5
FCGI_RESPONDER     == 1
FCGI_KEEP_CONN     == 1

\* Mutant: the higher bytes are not masked off.
BYTE_1_Unmasked(n) == n \div 256

BYTE_0(n) == n % 256
BYTE_1(n) == (n \div 256) % 256
BYTE_2(n) == (n \div 65536) % 256
BYTE_3(n) == 128 + ((n \div 16777216) % 128)

-----------------------------------------------------------------------------
(***************************************************************************)
(* Strings and items.                                                      *)
(***************************************************************************)

PartLen(part) == IF part \in DOMAIN LongParts THEN LongParts[part] ELSE Len(part)

StrLen(string) == FoldLeft(LAMBDA sum, part : sum + PartLen(part), 0, string)

Byte(b) == [kind |-> "byte", byte |-> b]

Data(string) == IF StrLen(string) = 0 THEN <<>>
                ELSE <<[kind |-> "data", data |-> string]>>

Size(item) ==
  CASE item.kind = "byte" -> 1
    [] item.kind = "data" -> StrLen(item.data)
    [] item.kind \in {"header", "begin"} -> 8

Bytes(items) == FoldLeft(LAMBDA sum, item : sum + Size(item), 0, items)

-----------------------------------------------------------------------------
(***************************************************************************)
(* The parameters.                                                         *)
(***************************************************************************)

\* The map that a record stands for.
Map(record) == [name \in {<<key>> : key \in DOMAIN record} |-> record[name[1]]]

\* The parameters in set are assigned to those of map with the same names.
Assign(map, set) ==
  [name \in DOMAIN map \cup DOMAIN set |->
     IF name \in DOMAIN set THEN set[name] ELSE map[name]]

\* The fields in their order: of two fields whose names differ in case only,
\* or not at all, the second replaces the first.
HttpParams(fields) ==
  LET http(k) == <<"HTTP_", fields[k].name>>
  IN  [name \in {http(k) : k \in DOMAIN fields} |->
         fields[Max({k \in DOMAIN fields : http(k) = name})].value]

GenerateFcgiRequestHeaders(r) ==
  LET script == IF r.slash THEN <<r.path, "index.php">> ELSE <<r.path>>
  IN  Assign(HttpParams(r.fields),
             Map([DOCUMENT_ROOT     |-> <<"/var/www/">>,
                  SCRIPT_FILENAME   |-> <<"/var/www/">> \o script,
                  GATEWAY_INTERFACE |-> <<"FastCGI/1.1">>,
                  REQUEST_METHOD    |-> <<r.method>>,
                  SCRIPT_NAME       |-> <<"/">> \o script,
                  QUERY_STRING      |-> r.query,
                  REQUEST_URI       |-> <<"/">> \o script,
                  SERVER_SOFTWARE   |-> <<"ATS 7.1.1">>,
                  REMOTE_ADDR       |-> <<"127.0.0.1">>,
                  REMOTE_PORT       |-> <<"8090">>,
                  SERVER_ADDR       |-> <<"127.0.0.1">>,
                  SERVER_PORT       |-> <<"60000">>,
                  SERVER_NAME       |-> <<"ATS 7.1.1">>,
                  SERVER_PROTOCOL   |-> <<"HTTP/1.1">>,
                  FCGI_ROLE         |-> <<"RESPONDER">>]))

\* For POST, Content-Length and Content-type also become parameters;
\* CONTENT_LENGTH is there, empty, even without the field.
PostParams(r) ==
  LET length == IF r.length = NULL THEN <<>> ELSE <<ToString(r.length)>>
      post   == Assign(IF r.type = NULL THEN <<>> ELSE Map([CONTENT_TYPE |-> r.type]),
                       Map([CONTENT_LENGTH |-> length]))
  IN  Assign(GenerateFcgiRequestHeaders(r), IF r.method = "POST" THEN post ELSE <<>>)

\* Every string has a length, no parameter is without a name, and the only
\* string of length 0 is the one without parts.
ASSUME EncoderAssumption ==
  /\ RequestIds \subseteq Nat
  /\ \A r \in Requests :
       /\ r.length = NULL \/ r.length \in Nat
       /\ r.fields \in Seq([name : STRING, value : Seq(STRING)])
       /\ r.chunks \in Seq(STRING)
       /\ \A k \in DOMAIN r.chunks : StrLen(<<r.chunks[k]>>) \in Nat
       /\ \A name \in DOMAIN PostParams(r) :
            LET value == PostParams(r)[name]
            IN  /\ StrLen(name) \in Nat \ {0} /\ name # NULL
                /\ StrLen(value) \in Nat /\ (StrLen(value) = 0 => value = <<>>)

-----------------------------------------------------------------------------
(***************************************************************************)
(* Records.                                                                *)
(***************************************************************************)

\* createHeader, fcgiHeaderSetRequestId and the two bytes of the length.
createHeader(type, id, len) ==
  [kind |-> "header", type |-> type, idB1 |-> BYTE_1(id), idB0 |-> BYTE_0(id),
   lenB1 |-> BYTE_1(len), lenB0 |-> BYTE_0(len)]

BeginBody == [kind |-> "begin", role |-> FCGI_RESPONDER, flags |-> FCGI_KEEP_CONN]

\* Mutant: a length of 128 is still written as one byte.
LengthUpTo128(n) ==
  IF n <= 128 THEN <<Byte(BYTE_0(n))>>
  ELSE <<Byte(BYTE_3(n)), Byte(BYTE_2(n)), Byte(BYTE_1(n)), Byte(BYTE_0(n))>>

Length(n) ==
  IF n < 128 THEN <<Byte(BYTE_0(n))>>
  ELSE <<Byte(BYTE_3(n)), Byte(BYTE_2(n)), Byte(BYTE_1(n)), Byte(BYTE_0(n))>>

serializeNameValue(name, value) ==
  Length(StrLen(name)) \o Length(StrLen(value)) \o Data(name) \o Data(value)

\* The second loop of createBeginRequest over the map.
Content(map) ==
  FoldSet(LAMBDA name, items : items \o serializeNameValue(name, map[name]),
          <<>>, DOMAIN map)

\* The first loop only measures: each pair is written over the one before.
LongestPair(map) ==
  Max({Bytes(serializeNameValue(name, map[name])) : name \in DOMAIN map})

-----------------------------------------------------------------------------
(***************************************************************************)
(* The operations, in the order in which Server calls them: the            *)
(* constructor, writeRequestHeader, writeRequestBody for each chunk of the *)
(* body and writeRequestBodyComplete.                                      *)
(***************************************************************************)

Init ==
  /\ request \in [client: Requests, id: RequestIds]
  /\ params = <<>>
  /\ capacity = 0
  /\ buff = <<>>
  /\ written = 0
  /\ sent = <<>>
  /\ streamed = 0
  /\ pc = "new"

\* Mutant: the buffer has no room for the body.
ConstructSmall ==
  /\ pc = "new"
  /\ params' = PostParams(request.client)
  /\ capacity' = BUF_SIZE
  /\ pc' = "constructed"
  /\ UNCHANGED <<request, buff, written, sent, streamed>>

\* FCGIClientRequest::FCGIClientRequest
Construct ==
  /\ pc = "new"
  /\ params' = PostParams(request.client)
  /\ capacity' = IF request.client.method = "POST" /\ request.client.length # NULL
                 THEN BUF_SIZE + request.client.length ELSE BUF_SIZE
  /\ pc' = "constructed"
  /\ UNCHANGED <<request, buff, written, sent, streamed>>

\* buff holds these items up to pBuffInc, and phpWrite gets them.
Write(items, furthest) ==
  /\ buff' = items
  /\ written' = Max({written, furthest, Bytes(items)})
  /\ sent' = sent \o items

\* writeRequestHeader: createBeginRequest, addClientRequest, phpWrite
WriteHeader ==
  /\ pc = "constructed"
  /\ LET begin == <<createHeader(FCGI_BEGIN_REQUEST, request.id, 8), BeginBody>>
     IN  Write(begin \o <<createHeader(FCGI_PARAMS, request.id, Bytes(Content(params)))>>
                 \o Content(params) \o <<createHeader(FCGI_PARAMS, request.id, 0)>>,
               Bytes(begin) + LongestPair(params))
  /\ pc' = "header"
  /\ UNCHANGED <<request, params, capacity, streamed>>

\* writeRequestBody: postBodyChunk, addClientRequest, phpWrite
WriteBody ==
  /\ pc = "header"
  /\ streamed < Len(request.client.chunks)
  /\ LET chunk == <<request.client.chunks[streamed + 1]>>
     IN  Write(<<createHeader(FCGI_STDIN, request.id, StrLen(chunk))>>
                 \o Data(chunk) \o <<createHeader(FCGI_STDIN, request.id, 0)>>, 0)
  /\ streamed' = streamed + 1
  /\ UNCHANGED <<request, params, capacity, pc>>

\* Mutant: the input is ended for every method.
WriteBodyCompleteTwice ==
  /\ pc = "header"
  /\ streamed = Len(request.client.chunks)
  /\ Write(<<createHeader(FCGI_STDIN, request.id, 0)>>, 0)
  /\ pc' = "complete"
  /\ UNCHANGED <<request, params, capacity, streamed>>

\* writeRequestBodyComplete: emptyParam, addClientRequest, phpWrite
WriteBodyComplete ==
  /\ pc = "header"
  /\ streamed = Len(request.client.chunks)
  /\ Write(IF request.client.method = "POST" THEN <<>>
           ELSE <<createHeader(FCGI_STDIN, request.id, 0)>>, 0)
  /\ pc' = "complete"
  /\ UNCHANGED <<request, params, capacity, streamed>>

Next == Construct \/ WriteHeader \/ WriteBody \/ WriteBodyComplete

Spec == Init /\ [][Next]_vars

-----------------------------------------------------------------------------
(***************************************************************************)
(* The application's side: what the records say to a FastCGI peer. It      *)
(* finds the next header by the length of the content and the end of a     *)
(* stream by an empty record.                                              *)
(***************************************************************************)

Streams == {FCGI_BEGIN_REQUEST, FCGI_PARAMS, FCGI_STDIN}

Silence == [ids |-> {}, type |-> 0, left |-> 0, garbled |-> FALSE,
            content |-> [t \in Streams |-> <<>>],
            ends    |-> [t \in Streams |-> 0]]

ReceiveHeader(peer, item) ==
  LET len == item.lenB1 * 256 + item.lenB0
  IN  [peer EXCEPT !.ids = @ \cup {item.idB1 * 256 + item.idB0},
                   !.type = item.type,
                   !.left = len,
                   !.ends[item.type] = IF len = 0 THEN @ + 1 ELSE @]

\* Content that comes after the end of its stream is not taken.
ReceiveContent(peer, item) ==
  [peer EXCEPT !.left = @ - Size(item),
               !.content[peer.type] =
                  IF peer.ends[peer.type] = 0 THEN Append(@, item) ELSE @]

Due(peer, item) ==
  IF item.kind = "header" THEN peer.left = 0 ELSE Size(item) <= peer.left

Receive(peer, item) ==
  IF peer.garbled \/ ~Due(peer, item) THEN [peer EXCEPT !.garbled = TRUE]
  ELSE IF item.kind = "header" THEN ReceiveHeader(peer, item)
  ELSE ReceiveContent(peer, item)

Parse(items) == FoldLeft(Receive, Silence, items)

Peer == Parse(sent)

\* Name-value pairs: two lengths of one or four bytes, then the strings.
NoPair == [bytes |-> <<>>, lens |-> <<>>, name |-> NULL]

NumberOf(bytes) ==
  IF Len(bytes) = 1 THEN bytes[1]
  ELSE (bytes[1] % 128) * 16777216 + bytes[2] * 65536 + bytes[3] * 256 + bytes[4]

DecodeByte(d, b) ==
  LET bytes == Append(d.pair.bytes, b)
  IN  IF bytes[1] < 128 \/ Len(bytes) = 4
      THEN [d EXCEPT !.pair.bytes = <<>>, !.pair.lens = Append(@, NumberOf(bytes))]
      ELSE [d EXCEPT !.pair.bytes = bytes]

Decoded(d, name, value) ==
  [d EXCEPT !.map = Assign(@, [string \in {name} |-> value]), !.pair = NoPair]

DecodeData(d, string) ==
  IF d.pair.name = NULL
  THEN IF d.pair.lens[2] = 0 THEN Decoded(d, string, <<>>)
       ELSE [d EXCEPT !.pair.name = string]
  ELSE Decoded(d, d.pair.name, string)

\* The string that is due next is as long as the item.
FitsPair(pair, item) ==
  IF item.kind = "byte" THEN Len(pair.lens) < 2
  ELSE /\ Len(pair.lens) = 2
       /\ Size(item) = pair.lens[IF pair.name = NULL THEN 1 ELSE 2]

Decode(d, item) ==
  IF d.garbled \/ ~FitsPair(d.pair, item) THEN [d EXCEPT !.garbled = TRUE]
  ELSE IF item.kind = "byte" THEN DecodeByte(d, item.byte)
  ELSE DecodeData(d, item.data)

ParsePairs(items) ==
  FoldLeft(Decode, [map |-> <<>>, pair |-> NoPair, garbled |-> FALSE], items)

PeerParams == ParsePairs(Peer.content[FCGI_PARAMS])

-----------------------------------------------------------------------------

Uchar == 0 .. 255

\* The shapes; what is written to the connection are bytes.
TypeOK ==
  /\ pc \in {"new", "constructed", "header", "complete"}
  /\ streamed \in 0 .. Len(request.client.chunks)
  /\ written \in Nat /\ capacity \in Nat
  /\ \A item \in ToSet(sent) :
       /\ item.kind = "byte" => item.byte \in Uchar
       /\ item.kind = "header" =>
            {item.idB1, item.idB0, item.lenB1, item.lenB0} \subseteq Uchar

\* createBeginRequest, fcgiHeaderSetRequestId and serializeNameValue: the
\* application finds all the records of a request, under one id, its number
\* modulo 65536, and in them every parameter with its value, whatever the
\* lengths of names and values.
RequestArrives ==
  pc \in {"header", "complete"} =>
    /\ ~Peer.garbled
    /\ Peer.ids = {request.id % 65536}
    /\ Peer.content[FCGI_BEGIN_REQUEST] = <<BeginBody>>
    /\ Peer.ends[FCGI_PARAMS] = 1
    /\ ~PeerParams.garbled
    /\ PeerParams.pair = NoPair
    /\ PeerParams.map = params

\* postBodyChunk and emptyParam: the application gets the body of the request,
\* all of it, and its end once.
BodyArrives ==
  pc = "complete" =>
    /\ Peer.content[FCGI_STDIN] =
         FlattenSeq([n \in DOMAIN request.client.chunks |->
                       Data(<<request.client.chunks[n]>>)])
    /\ Peer.ends[FCGI_STDIN] = 1

\* The constructor allocates BUF_SIZE and, for POST, Content-Length bytes: that
\* holds every request whose parameters take at most BUF_SIZE - 32 bytes and
\* whose chunks are no longer than the length it states.
WithinBuffer == written <= capacity

=============================================================================
