---------------------------- MODULE MCPluginInit ----------------------------
EXTENDS PluginInit

Line(word, name, type, value) ==
  [word |-> word, name |-> name, type |-> type, value |-> value]

Five    == Text("5", 5)
Six     == Text("6", 6)
Two     == Text("2", 2)
Minus   == Text("-6", -6)
NoText  == Text("NULL", 0)
Other   == Text("10.0.0.7", 10)

MaxConn == <<"host", "max", "connections">>

\* Lines with the documented names, and lines that are not settings.
GoodLines ==
  { Line(<<"CONFIG">>, MaxConn, "INT", Five),
    Line(<<"CONFIG">>, MaxConn, "INT", Six),
    Line(<<"CONFIG">>, MaxConn, "INT", Minus),
    Line(<<"CONFIG">>, <<"host", "hostname">>, "STRING", Other),
    Line(<<"CONFIG">>, <<"host", "server", "ip">>, "STRING", NoText),
    Line(<<"CONFIG">>, <<"host", "include">>, "STRING", Text("params", 0)),
    Line(<<"CONFIG">>, <<"host", "include">>, "STRING", Text("missing", 0)),
    Line(<<"CONFIG">>, MaxConn, "STRING", Two),
    Line(<<"CONFIG">>, MaxConn, "INT", NULL),
    Line(<<"CONFIG">>, <<"host", "max", "threads">>, "INT", Two),
    Line(<<"#">>, MaxConn, "INT", Two) }

\* And a line that ends after its first word.
GoodOrNameless == GoodLines \cup {Line(<<"CONFIG">>, NULL, NULL, NULL)}

URI    == <<"DOCUMENT", "URI">>
Server == <<"SERVER", "NAME">>

GoodParams ==
  { Line(<<"fastcgi_param">>, URI, "STRING", Other),
    Line(<<"fastcgi_param">>, URI, "STRING", Two),
    Line(<<"fastcgi_param">>, URI, "STRING", NoText),
    Line(<<"fastcgi_param">>, Server, "STRING", Other),
    Line(<<"fastcgi_param">>, Server, "INT", Two),
    Line(<<>>, NULL, NULL, NULL),
    Line(<<"fastcgi_param">>, <<"SERVER", "ADMIN">>, "STRING", Two),
    Line(<<"fastcgi_param">>, NULL, NULL, NULL),
    Line(<<"fastcgi_pass">>, Server, "STRING", Two) }

\* An earlier load of the plugin left one of its statistics behind.
SomeStats == <<"proxy.process.one", "respCountBeg">>

AllArgs == {NULL, "0", "1", "?", "missing", "fcgi.config"}

MissingFile == {"missing"}

=============================================================================
