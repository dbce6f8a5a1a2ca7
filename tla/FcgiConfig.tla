----------------------------- MODULE FcgiConfig -----------------------------
(***************************************************************************)
(* FcgiPluginConfig::initConfig (fcgi_config.cc): the plugin's argument,   *)
(* the configuration file it may name and the parameter files that this    *)
(* file includes, read line by line.                                       *)
(*                                                                         *)
(* A line is what strtok_r makes of it: the first word, the name, the type *)
(* and the value, with <<>> for a first word and NULL for anything else    *)
(* that is not there. Words and names are sequences of their parts, so     *)
(* that one may begin another: <<"host", "max">> stands for the name       *)
(* proxy.config.http.fcgi.host.max, without the common stem. A text        *)
(* carries the number its leading digits denote, 0 if it has none.         *)
(***************************************************************************)
EXTENDS Integers, Sequences, FiniteSetsExt, SequencesExt

CONSTANTS NULL,
          Args,        \* the arguments the plugin may be loaded with
          ConfigLines, \* the lines a configuration file may have
          ParamLines,  \* the lines an included file may have
          Unreadable,  \* the files that cannot be opened
          MaxLines     \* bound on the lines of all files together

VARIABLES config,  \* the FcgiPluginConfig that initConfig fills in
          reading, \* where initConfig is
          lines,   \* the lines of the configuration file read so far
          included \* the lines of included files read so far

configVars == <<config, reading, lines, included>>

Text(text, number) == [text |-> text, number |-> number]

\* The settings, in the order in which fcgiHttpTxnConfigFind tries them.
Setting(key, name, type) == [key |-> key, name |-> name, type |-> type]

ConfigTable ==
  << Setting("enabled",            <<"enabled">>,                     "INT"),
     Setting("hostname",           <<"host", "hostname">>,            "STRING"),
     Setting("server_ip",          <<"host", "server", "ip">>,        "STRING"),
     Setting("server_port",        <<"host", "server", "port">>,      "STRING"),
     Setting("include",            <<"host", "include">>,             "STRING"),
     Setting("document_root",      <<"host", "document", "root">>,    "STRING"),
     Setting("html",               <<"host", "html">>,                "STRING"),
     Setting("min_connections",    <<"host", "min", "connections">>,  "INT"),
     Setting("max_connections",    <<"host", "max", "connections">>,  "INT"),
     Setting("max_requests",       <<"host", "max", "requests">>,     "INT"),
     Setting("request_queue_size", <<"host", "request", "queue", "size">>, "INT") >>

\* The parameters, in the order in which fcgiParamConfigFind tries them.
ParamNames ==
  << <<"GATEWAY", "INTERFACE">>, <<"SERVER", "SOFTWARE">>,
     <<"QUERY", "STRING">>, <<"REQUEST", "METHOD">>, <<"CONTENT", "TYPE">>,
     <<"CONTENT", "LENGTH">>, <<"SCRIPT", "FILENAME">>, <<"SCRIPT", "NAME">>,
     <<"REQUEST", "URI">>, <<"DOCUMENT", "URI">>, <<"DOCUMENT", "ROOT">>,
     <<"SERVER", "PROTOCOL">>, <<"REMOTE", "ADDR">>, <<"REMOTE", "PORT">>,
     <<"SERVER", "ADDR">>, <<"SERVER", "PORT">>, <<"SERVER", "NAME">> >>

ParamTable ==
  [n \in DOMAIN ParamNames |-> Setting(ParamNames[n], ParamNames[n], "STRING")]

\* The lines there may be.
Texts == [text : STRING, number : Int]

ReadLines == [word  : Seq(STRING),
              name  : Seq(STRING) \cup {NULL},
              type  : STRING \cup {NULL},
              value : Texts \cup {NULL}]

Keys == {s.key : s \in ToSet(ConfigTable)}

IntKeys == {"min_connections", "max_connections", "max_requests",
            "request_queue_size"}

\* The settings whose value is kept as a string, or NULL.
StringKeys == Keys \ (IntKeys \cup {"enabled"})

\* DEFAULT_HOSTNAME ... DEFAULT_REQUEST_QUEUE_SIZE
Defaults ==
  [enabled            |-> TRUE,
   hostname           |-> Text("localhost", 0),
   server_ip          |-> Text("127.0.0.1", 127),
   server_port        |-> Text("60000", 60000),
   include            |-> Text("fastcgi.config", 0),
   document_root      |-> Text("/var/www/html/", 0),
   html               |-> Text("index.php", 0),
   min_connections    |-> 4,
   max_connections    |-> 10,
   max_requests       |-> 1000,
   request_queue_size |-> 250,
   params             |-> [p \in ToSet(ParamNames) |-> NULL]]

\* A null pointer is none of the texts, names and settings that are there.
ASSUME ConfigAssumption ==
  /\ NULL \notin {"INT", "STRING"} /\ NULL # Text("", 0)
  /\ \A k \in StringKeys : NULL # Defaults[k]
  /\ \A s \in ToSet(ConfigTable) \cup ToSet(ParamTable) : NULL \notin {s, s.name}
  /\ ConfigLines \cup ParamLines \subseteq ReadLines

-----------------------------------------------------------------------------
(***************************************************************************)
(* One line.                                                               *)
(***************************************************************************)

\* strncmp(name, setting, strlen(name)): the first setting that the name
\* begins.
FirstMatch(table, name) ==
  LET hits == {n \in DOMAIN table : IsPrefix(name, table[n].name)}
  IN  IF hits = {} THEN NULL ELSE table[Min(hits)]

fcgiHttpTxnConfigFind(name) == FirstMatch(ConfigTable, name)

fcgiParamConfigFind(name) == FirstMatch(ParamTable, name)

str_to_datatype(type) == IF type \in {"INT", "STRING"} THEN type ELSE NULL

\* A blank line or a comment.
Skipped(line) == line.word = <<>> \/ Head(line.word) = "#"

\* strncmp(tok, "CONFIG", 6)
IsDirective(line, directive) == ~Skipped(line) /\ IsPrefix(<<directive>>, line.word)

\* strlen of the missing name
Nameless(line, directive) == IsDirective(line, directive) /\ line.name = NULL

\* The checks on a line between its first word and the switch that stores it.
Complete(line, directive, setting) ==
  /\ IsDirective(line, directive)
  /\ setting # NULL
  /\ str_to_datatype(line.type) = setting.type
  /\ line.value # NULL

\* config->enabled = tok, strtoll, TSstrdup
Converted(key, value) ==
  CASE key = "enabled"    -> TRUE
    [] key \in IntKeys    -> value.number
    [] key \in StringKeys -> IF value.text = "NULL" THEN NULL ELSE value

\* Mutant: a break is missing, so that the host name is also the address.
StoredThrough(cfg, key, value) ==
  LET c1 == [cfg EXCEPT ![key] = Converted(key, value)]
  IN  IF key = "hostname" THEN [c1 EXCEPT !["server_ip"] = c1.hostname] ELSE c1

Stored(cfg, key, value) == [cfg EXCEPT ![key] = Converted(key, value)]

\* Mutant: a parameter is overwritten, as with params[name] = value.
ParamOverwritten(params, key, value) == [params EXCEPT ![key] = value]

\* fcgiParams->insert: a parameter that is already there stays.
ParamInserted(params, key, value) ==
  [params EXCEPT ![key] =
     IF @ # NULL THEN @ ELSE IF value.text = "NULL" THEN Text("", 0) ELSE value]

-----------------------------------------------------------------------------
(***************************************************************************)
(* initConfig and initFcgiParam. reading is "argument", then "config" in   *)
(* the loop over the configuration file, "params" in the loop over a file  *)
(* it includes, and "done" or "crashed".                                   *)
(***************************************************************************)

ConfigInit ==
  /\ config = Defaults
  /\ reading = "argument"
  /\ lines = <<>>
  /\ included = <<>>

\* A one character argument switches the plugin, any other names a file.
ReadArgument(fn) ==
  /\ reading = "argument"
  /\ config' = [config EXCEPT !.enabled = fn # "0"]
  /\ reading' = IF fn \in {NULL, "0", "1", "?"} \cup Unreadable
                THEN "done" ELSE "config"
  /\ UNCHANGED <<lines, included>>

MayRead == Len(lines) + Len(included) < MaxLines

\* The next line of the configuration file is one that stores nothing.
IgnoreConfigLine(line) ==
  /\ reading = "config" /\ MayRead
  /\ ~Nameless(line, "CONFIG")
  /\ ~Complete(line, "CONFIG", fcgiHttpTxnConfigFind(line.name))
  /\ lines' = Append(lines, line)
  /\ UNCHANGED <<config, reading, included>>

CrashAtConfigLine(line) ==
  /\ reading = "config" /\ MayRead
  /\ Nameless(line, "CONFIG")
  /\ lines' = Append(lines, line)
  /\ reading' = "crashed"
  /\ UNCHANGED <<config, included>>

\* The line is stored; an include opens the file it names at once.
StoreConfigLine(line) ==
  /\ reading = "config" /\ MayRead
  /\ ~Nameless(line, "CONFIG")
  /\ LET setting == fcgiHttpTxnConfigFind(line.name)
         opens   == /\ setting.key = "include"
                    /\ line.value.text \notin {"NULL"} \cup Unreadable
     IN  /\ Complete(line, "CONFIG", setting)
         /\ config' = Stored(config, setting.key, line.value)
         /\ reading' = IF opens THEN "params" ELSE "config"
  /\ lines' = Append(lines, line)
  /\ UNCHANGED included

IgnoreParamLine(line) ==
  /\ reading = "params" /\ MayRead
  /\ ~Nameless(line, "fastcgi_param")
  /\ ~Complete(line, "fastcgi_param", fcgiParamConfigFind(line.name))
  /\ included' = Append(included, line)
  /\ UNCHANGED <<config, reading, lines>>

CrashAtParamLine(line) ==
  /\ reading = "params" /\ MayRead
  /\ Nameless(line, "fastcgi_param")
  /\ included' = Append(included, line)
  /\ reading' = "crashed"
  /\ UNCHANGED <<config, lines>>

StoreParamLine(line) ==
  /\ reading = "params" /\ MayRead
  /\ ~Nameless(line, "fastcgi_param")
  /\ LET setting == fcgiParamConfigFind(line.name)
     IN  /\ Complete(line, "fastcgi_param", setting)
         /\ config' = [config EXCEPT !.params =
                         ParamInserted(@, setting.key, line.value)]
  /\ included' = Append(included, line)
  /\ UNCHANGED <<reading, lines>>

\* TSfgets returns nullptr: back to the configuration file, or done.
EndOfFile ==
  /\ reading \in {"config", "params"}
  /\ reading' = IF reading = "params" THEN "config" ELSE "done"
  /\ UNCHANGED <<config, lines, included>>

ConfigNext ==
  \/ \E fn \in Args : ReadArgument(fn)
  \/ \E line \in ConfigLines :
       \/ IgnoreConfigLine(line)
       \/ CrashAtConfigLine(line)
       \/ StoreConfigLine(line)
  \/ \E line \in ParamLines :
       \/ IgnoreParamLine(line)
       \/ CrashAtParamLine(line)
       \/ StoreParamLine(line)
  \/ EndOfFile

-----------------------------------------------------------------------------
(***************************************************************************)
(* What the files say, by the documented names, types and values alone.    *)
(***************************************************************************)

NamesSetting(line, directive, setting) ==
  /\ line.word = <<directive>>
  /\ line.name = setting.name
  /\ line.type = setting.type
  /\ line.value # NULL

LinesFor(file, directive, setting) ==
  {n \in DOMAIN file : NamesSetting(file[n], directive, setting)}

\* initConfig: after any line, every setting but `enabled` (which the plugin's
\* argument switches too) has the value of the last line that names it with its
\* type and a value, or its default. Lines for other settings, comments,
\* misspelt names, wrong types and missing values leave it alone.
LastWins ==
  \A s \in ToSet(ConfigTable) :
    LET said == LinesFor(lines, "CONFIG", s)
    IN  s.key # "enabled" =>
          config[s.key] = IF said = {} THEN Defaults[s.key]
                          ELSE Converted(s.key, lines[Max(said)].value)

\* initFcgiParam: a parameter has the value of the first line that gives it,
\* over all files that were included, in the order of their inclusion.
FirstWins ==
  \A s \in ToSet(ParamTable) :
    LET said  == LinesFor(included, "fastcgi_param", s)
        first == included[Min(said)].value
    IN  config.params[s.key] =
          IF said = {} THEN NULL
          ELSE IF first.text = "NULL" THEN Text("", 0) ELSE first

=============================================================================
