--------------------------- MODULE MCFcgiEncoder ---------------------------
EXTENDS FcgiEncoder

\* Names and values around the lengths where the encoding changes: 123 is a
\* name of 128 with HTTP_, and Rest fills the buffer to its last byte.
Lengths ==
  [name122 |-> 122, name123 |-> 123, value127 |-> 127, value128 |-> 128,
   value300 |-> 300, rest |-> 4616,
   chunk1 |-> 1, chunk2 |-> 255, chunk3 |-> 256, chunk4 |-> 65535]

Field(name, value) == [name |-> name, value |-> <<value>>]

Fields ==
  { <<>>,
    <<Field("HOST", "h")>>,
    <<Field("name122", "value127"), Field("name123", "value128")>>,
    <<Field("name123", "value300"), Field("HOST", "h")>>,
    <<Field("COOKIE", "a"), Field("HOST", "h"), Field("COOKIE", "value300")>>,
    <<Field("REST", "rest")>> }

Client(method, slash, query, fields, length, type, chunks) ==
  [method |-> method, path |-> IF slash THEN "wiki/" ELSE "test.php",
   slash |-> slash, query |-> query, fields |-> fields, length |-> length,
   type |-> type, chunks |-> chunks]

Gets == {Client("GET", slash, query, fields, NULL, NULL, <<>>) :
           slash \in BOOLEAN, query \in {<<>>, <<"value128">>}, fields \in Fields \ {<<Field("REST", "rest")>>}}
        \cup {Client("HEAD", FALSE, <<>>, fields, NULL, NULL, <<>>) : fields \in Fields}

Posts == {Client("POST", FALSE, <<>>, <<Field("HOST", "h")>>, LongParts[chunk], type, <<chunk>>) :
            chunk \in {"chunk1", "chunk2", "chunk3", "chunk4"},
            type \in {NULL, <<"value127">>}}

OneChunk == Gets \cup Posts

\* A body that arrives in two buffer blocks.
TwoChunks == {Client("POST", FALSE, <<>>, <<>>, 511, NULL, <<"chunk2", "chunk3">>)}

SomeIds == {1, 255, 256, 65535, 65537}

=============================================================================
