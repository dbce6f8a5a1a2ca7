---------------------------- MODULE ConfigProofs ----------------------------
(***************************************************************************)
(* Proofs about FcgiConfig and PluginInit, for files of any lines.         *)
(*                                                                         *)
(* A file grows by one line at a time, and the last (or the first) line    *)
(* that names a setting changes only if the new line names it. That the    *)
(* code finds the setting a line names, and no other, rests on the line    *)
(* having its name whole: Documented says so, because the code compares no *)
(* more of a name than the line has. InitInv carries the types of the      *)
(* settings and the statistic that each registered counter has.            *)
(***************************************************************************)
EXTENDS PluginInit, ListProofs

-----------------------------------------------------------------------------
(***************************************************************************)
(* The first and the last line of a set of lines.                          *)
(***************************************************************************)

\* The first of the lines.
LEMMA MinProp ==
  ASSUME NEW S, S \subseteq Nat, S # {}
  PROVE  Min(S) \in S /\ \A x \in S : Min(S) <= x
BY LeastNumber DEF Min

\* The last of the lines.
LEMMA MaxProp ==
  ASSUME NEW n \in Nat, NEW S, S \subseteq 1 .. n, S # {}
  PROVE  Max(S) \in S /\ \A x \in S : Max(S) >= x
<1> DEFINE T == {n - x : x \in S}
<1>1. T \subseteq Nat /\ T # {}
  <2>1. \A x \in S : n - x \in Nat
    OBVIOUS
  <2> QED BY <2>1
<1>2. PICK t \in T : \A u \in T : t <= u
  BY <1>1, LeastNumber
<1>3. PICK x \in S : t = n - x
  BY <1>2
<1>4. \A y \in S : x >= y
  <2> SUFFICES ASSUME NEW y \in S
               PROVE  x >= y
    OBVIOUS
  <2>1. n - y \in T
    OBVIOUS
  <2> QED BY <1>2, <1>3, <2>1
<1> QED BY <1>4 DEF Max

-----------------------------------------------------------------------------
(***************************************************************************)
(* The tables.                                                             *)
(***************************************************************************)

\* The settings of initConfig have keys of their own.
LEMMA ConfigTableFacts ==
  /\ DOMAIN ConfigTable = 1 .. 11
  /\ \A n \in 1 .. 11 : /\ ConfigTable[n].type \in {"INT", "STRING"}
                        /\ ConfigTable[n].key \in DOMAIN Defaults \ {"params"}
  /\ \A m, n \in 1 .. 11 : ConfigTable[m].key = ConfigTable[n].key => m = n
<1>1. DOMAIN ConfigTable = 1 .. 11
  BY DEF ConfigTable, Setting
<1>2. \A n \in 1 .. 11 : ConfigTable[n].type \in {"INT", "STRING"}
  BY DEF ConfigTable, Setting
<1>3. \A n \in 1 .. 11 : ConfigTable[n].key \in DOMAIN Defaults \ {"params"}
  <2>1. DOMAIN Defaults =
          {"enabled", "hostname", "server_ip", "server_port", "include",
           "document_root", "html", "min_connections", "max_connections",
           "max_requests", "request_queue_size", "params"}
    BY DEF Defaults
  <2>2. \A n \in 1 .. 11 : ConfigTable[n].key \in
          {"enabled", "hostname", "server_ip", "server_port", "include",
           "document_root", "html", "min_connections", "max_connections",
           "max_requests", "request_queue_size"}
    BY DEF ConfigTable, Setting
  <2> QED BY <2>1, <2>2
<1>4. \A m, n \in 1 .. 11 : ConfigTable[m].key = ConfigTable[n].key => m = n
  BY DEF ConfigTable, Setting
<1> QED BY <1>1, <1>2, <1>3, <1>4

\* No two of them have the same name.
LEMMA ConfigNamesDiffer ==
  ASSUME NEW m \in 1 .. 11, NEW n \in 1 .. 11,
         ConfigTable[m].name = ConfigTable[n].name
  PROVE  m = n
BY DEF ConfigTable, Setting

\* The parameters of initFcgiParam have keys of their own.
LEMMA ParamTableFacts ==
  /\ DOMAIN ParamTable = 1 .. 17
  /\ \A n \in 1 .. 17 : /\ ParamTable[n].type \in {"INT", "STRING"}
                        /\ ParamTable[n].key = ParamNames[n]
                        /\ ParamTable[n].name = ParamNames[n]
                        /\ ParamNames[n] \in DOMAIN Defaults.params
<1>1. DOMAIN ParamNames = 1 .. 17
  BY DEF ParamNames
<1>2. DOMAIN ParamTable = 1 .. 17
  BY <1>1 DEF ParamTable
<1>3. \A n \in 1 .. 17 : /\ ParamTable[n].type = "STRING"
                         /\ ParamTable[n].key = ParamNames[n]
                         /\ ParamTable[n].name = ParamNames[n]
  BY <1>1 DEF ParamTable, Setting
<1>4. \A n \in 1 .. 17 : ParamNames[n] \in DOMAIN Defaults.params
  BY <1>1 DEF Defaults, ToSet
<1> QED BY <1>2, <1>3, <1>4

\* No two of them have the same name.
LEMMA ParamNamesDiffer ==
  ASSUME NEW m \in 1 .. 17, NEW n \in 1 .. 17, ParamNames[m] = ParamNames[n]
  PROVE  m = n
BY DEF ParamNames

\* The lines of a file are written with the names of the documentation: a first
\* word that begins like the directive is the directive, and a name that
\* begins like that of a setting is the name of that setting.
Documented(file, directive, table) ==
  \A line \in file : IsDirective(line, directive) =>
    /\ line.word = <<directive>>
    /\ \A s \in ToSet(table) :
         line.name # NULL /\ IsPrefix(line.name, s.name) => line.name = s.name

\* A line that names a setting is stored, and under that setting.
LEMMA NamedIsComplete ==
  ASSUME NEW table, NEW size \in Nat, DOMAIN table = 1 .. size,
         \A m, n \in 1 .. size : table[m].name = table[n].name => m = n,
         \A n \in 1 .. size : /\ NULL \notin {table[n], table[n].name}
                              /\ table[n].type \in {"INT", "STRING"},
         NEW file, file \subseteq ReadLines, NEW directive \in {"CONFIG", "fastcgi_param"},
         Documented(file, directive, table),
         NEW line \in file, NEW m \in 1 .. size,
         NamesSetting(line, directive, table[m])
  PROVE  /\ ~Nameless(line, directive)
         /\ FirstMatch(table, line.name) = table[m]
         /\ Complete(line, directive, table[m])
<1>1. /\ line.word = <<directive>> /\ line.name = table[m].name
      /\ line.type = table[m].type /\ line.value # NULL /\ line.name # NULL
  BY DEF NamesSetting
<1>2. line.name \in Seq(STRING)
  BY <1>1 DEF ReadLines
<1>3. IsDirective(line, directive)
  <2>1. line.word # <<>> /\ Head(line.word) = directive /\ directive # "#"
    BY <1>1
  <2>2. IsPrefix(<<directive>>, line.word)
    <3>1. Len(<<directive>>) = 1
      OBVIOUS
    <3> QED BY <1>1, <3>1 DEF IsPrefix
  <2> QED BY <2>1, <2>2 DEF IsDirective, Skipped
<1>4. {n \in DOMAIN table : IsPrefix(line.name, table[n].name)} = {m}
  <2>1. IsPrefix(line.name, table[m].name)
    <3>1. Len(line.name) \in Nat
      BY <1>2
    <3> QED BY <1>1, <3>1 DEF IsPrefix
  <2>2. ASSUME NEW n \in DOMAIN table, IsPrefix(line.name, table[n].name)
        PROVE  n = m
    <3>1. table[n] \in ToSet(table)
      BY DEF ToSet
    <3>2. line.name = table[n].name
      BY <1>1, <1>3, <2>2, <3>1 DEF Documented
    <3> QED BY <1>1, <3>2
  <2> QED BY <2>1, <2>2
<1>5. FirstMatch(table, line.name) = table[m]
  <2>1. Min({m}) = m
    BY MinProp
  <2> QED BY <1>4, <2>1 DEF FirstMatch
<1>6. Complete(line, directive, table[m])
  BY <1>1, <1>3 DEF Complete, str_to_datatype
<1> QED BY <1>1, <1>5, <1>6 DEF Nameless

\* A line that is stored names the setting it is stored under.
LEMMA CompleteIsNamed ==
  ASSUME NEW table, NEW size \in Nat, DOMAIN table = 1 .. size,
         \A n \in 1 .. size : table[n].type \in {"INT", "STRING"},
         NEW file, NEW directive, Documented(file, directive, table),
         NEW line \in file, ~Nameless(line, directive),
         Complete(line, directive, FirstMatch(table, line.name))
  PROVE  \E n \in 1 .. size : /\ FirstMatch(table, line.name) = table[n]
                              /\ NamesSetting(line, directive, table[n])
<1> DEFINE hits == {n \in DOMAIN table : IsPrefix(line.name, table[n].name)}
<1>1. /\ IsDirective(line, directive) /\ FirstMatch(table, line.name) # NULL
      /\ str_to_datatype(line.type) = FirstMatch(table, line.name).type
      /\ line.value # NULL
  BY DEF Complete
<1>2. hits # {} /\ FirstMatch(table, line.name) = table[Min(hits)]
  BY <1>1 DEF FirstMatch
<1>3. Min(hits) \in hits
  <2>1. hits \subseteq Nat
    OBVIOUS
  <2> HIDE DEF hits
  <2> QED BY <1>2, <2>1, MinProp
<1> DEFINE n == Min(hits)
<1>4. n \in 1 .. size /\ IsPrefix(line.name, table[n].name) /\ table[n] \in ToSet(table)
  BY <1>3 DEF ToSet
<1> HIDE DEF n
<1>5. line.name # NULL
  BY <1>1 DEF Nameless
<1>6. line.word = <<directive>> /\ line.name = table[n].name
  BY <1>1, <1>4, <1>5 DEF Documented
<1>7. line.type = table[n].type
  <2>1. NULL \notin {"INT", "STRING"}
    BY ConfigAssumption
  <2> QED BY <1>1, <1>2, <1>4, <2>1 DEF n, str_to_datatype
<1> QED BY <1>1, <1>2, <1>4, <1>6, <1>7 DEF n, NamesSetting

-----------------------------------------------------------------------------
(***************************************************************************)
(* What another line adds to what a file says.                             *)
(***************************************************************************)

\* A line more is one more for the setting it names, if any.
LEMMA LinesForAppended ==
  ASSUME NEW L, NEW file \in Seq(L), NEW line \in L, NEW directive, NEW setting
  PROVE  /\ LinesFor(file, directive, setting) \subseteq 1 .. Len(file)
         /\ LinesFor(Append(file, line), directive, setting) =
              LinesFor(file, directive, setting) \cup
                {n \in {Len(file) + 1} : NamesSetting(line, directive, setting)}
<1>1. /\ DOMAIN file = 1 .. Len(file) /\ Len(file) \in Nat
      /\ DOMAIN Append(file, line) = 1 .. Len(file) + 1
      /\ \A n \in 1 .. Len(file) : Append(file, line)[n] = file[n]
      /\ Append(file, line)[Len(file) + 1] = line
  OBVIOUS
<1>2. \A n \in DOMAIN Append(file, line) : n \in 1 .. Len(file) \/ n = Len(file) + 1
  BY <1>1
<1>3. 1 .. Len(file) \subseteq DOMAIN Append(file, line)
      /\ Len(file) + 1 \in DOMAIN Append(file, line)
  BY <1>1
<1> QED BY <1>1, <1>2, <1>3, Zenon DEF LinesFor

\* What a setting has after the lines of file.
LastValue(file, s) ==
  LET said == LinesFor(file, "CONFIG", s)
  IN  IF said = {} THEN Defaults[s.key] ELSE Converted(s.key, file[Max(said)].value)

FirstValue(file, s) ==
  LET said  == LinesFor(file, "fastcgi_param", s)
      text  == file[Min(said)].value
  IN  IF said = {} THEN NULL ELSE IF text.text = "NULL" THEN Text("", 0) ELSE text

\* The last line for a setting, when a line is read.
LEMMA LastAppended ==
  ASSUME NEW L, NEW file \in Seq(L), NEW line \in L, NEW s
  PROVE  LastValue(Append(file, line), s) =
           IF NamesSetting(line, "CONFIG", s) THEN Converted(s.key, line.value)
           ELSE LastValue(file, s)
<1> DEFINE said == LinesFor(file, "CONFIG", s)
           now == LinesFor(Append(file, line), "CONFIG", s)
           last == Len(file) + 1
<1>1. /\ said \subseteq 1 .. Len(file) /\ Len(file) \in Nat
      /\ \A n \in 1 .. Len(file) : Append(file, line)[n] = file[n]
      /\ Append(file, line)[last] = line
  BY LinesForAppended
<1>2. CASE NamesSetting(line, "CONFIG", s)
  <2>1. now = said \cup {last}
    BY <1>2, LinesForAppended
  <2>2. now \subseteq 1 .. last /\ now # {} /\ last \in Nat
    BY <1>1, <2>1
  <2>3. Max(now) \in now /\ Max(now) >= last
    <3> HIDE DEF now, last
    <3> QED BY <2>1, <2>2, MaxProp
  <2>4. Max(now) = last
    BY <2>2, <2>3
  <2> QED BY <1>1, <1>2, <2>2, <2>4 DEF LastValue
<1>3. CASE ~NamesSetting(line, "CONFIG", s)
  <2>1. now = said
    <3>1. {n \in {last} : NamesSetting(line, "CONFIG", s)} = {}
      BY <1>3
    <3>2. now = said \cup {n \in {last} : NamesSetting(line, "CONFIG", s)}
      BY LinesForAppended
    <3> HIDE DEF now, said
    <3> QED BY <3>1, <3>2
  <2>2. said # {} => Max(said) \in said
    <3> HIDE DEF said
    <3> QED BY <1>1, MaxProp
  <2>3. said # {} => Append(file, line)[Max(said)] = file[Max(said)]
    BY <1>1, <2>2
  <2> QED BY <1>3, <2>1, <2>3 DEF LastValue
<1> QED BY <1>2, <1>3

\* The first line for a parameter, when a line is read.
LEMMA FirstAppended ==
  ASSUME NEW L, NEW file \in Seq(L), NEW line \in L, NEW s
  PROVE  FirstValue(Append(file, line), s) =
           IF LinesFor(file, "fastcgi_param", s) # {} THEN FirstValue(file, s)
           ELSE IF ~NamesSetting(line, "fastcgi_param", s) THEN NULL
           ELSE IF line.value.text = "NULL" THEN Text("", 0) ELSE line.value
<1> DEFINE said == LinesFor(file, "fastcgi_param", s)
           now == LinesFor(Append(file, line), "fastcgi_param", s)
           last == Len(file) + 1
<1>1. /\ said \subseteq 1 .. Len(file) /\ Len(file) \in Nat
      /\ \A n \in 1 .. Len(file) : Append(file, line)[n] = file[n]
      /\ Append(file, line)[last] = line
      /\ now \subseteq said \cup {last} /\ said \subseteq now
  BY LinesForAppended
<1>2. CASE said # {}
  <2>1. now \subseteq Nat /\ now # {} /\ said \subseteq Nat
    BY <1>1, <1>2
  <2>2. Min(now) \in now /\ (\A n \in now : Min(now) <= n)
    <3> HIDE DEF now
    <3> QED BY <2>1, MinProp
  <2>3. Min(said) \in said /\ (\A n \in said : Min(said) <= n)
    <3> HIDE DEF said
    <3> QED BY <1>2, <2>1, MinProp
  <2>4. Min(now) = Min(said)
    <3> HIDE DEF said, now
    <3>1. Min(now) \in said
      <4>1. Min(now) <= Min(said)
        BY <1>1, <2>2, <2>3
      <4>2. Min(said) \in 1 .. Len(file) /\ Min(now) \in Nat
        BY <1>1, <2>1, <2>2, <2>3
      <4> QED BY <1>1, <2>2, <4>1, <4>2
    <3>2. Min(said) <= Min(now) /\ Min(now) <= Min(said)
      BY <1>1, <2>2, <2>3, <3>1
    <3>3. Min(said) \in Nat /\ Min(now) \in Nat
      BY <2>1, <2>2, <2>3
    <3> QED BY <3>2, <3>3
  <2>5. Append(file, line)[Min(said)] = file[Min(said)]
    BY <1>1, <2>3
  <2> QED BY <1>2, <2>1, <2>4, <2>5 DEF FirstValue
<1>3. CASE said = {} /\ NamesSetting(line, "fastcgi_param", s)
  <2>1. now = {last}
    BY <1>3, LinesForAppended
  <2>2. Min(now) = last
    <3>1. now \subseteq Nat /\ now # {}
      <4>1. last \in Nat
        BY <1>1
      <4> HIDE DEF now, last
      <4> QED BY <2>1, <4>1
    <3>2. Min(now) \in now
      <4> HIDE DEF now
      <4> QED BY <3>1, MinProp
    <3> QED BY <2>1, <3>2
  <2> QED BY <1>1, <1>3, <2>1, <2>2 DEF FirstValue
<1>4. CASE said = {} /\ ~NamesSetting(line, "fastcgi_param", s)
  <2>1. now = {}
    BY <1>4, LinesForAppended
  <2> QED BY <1>4, <2>1 DEF FirstValue
<1> QED BY <1>2, <1>3, <1>4

-----------------------------------------------------------------------------
(***************************************************************************)
(* initConfig.                                                             *)
(***************************************************************************)

ConfigTyped ==
  /\ lines \in Seq(ConfigLines)
  /\ included \in Seq(ParamLines)
  /\ DOMAIN config = Keys \cup {"params"}
  /\ config.enabled \in BOOLEAN
  /\ \A k \in IntKeys : IntSetting(config[k])
  /\ \A k \in StringKeys : StringSetting(config[k])
  /\ DOMAIN config.params = ToSet(ParamNames)
  /\ \A p \in ToSet(ParamNames) : StringSetting(config.params[p])
  /\ reading \in {"argument", "config", "params", "done", "crashed"}

\* FirstMatch for a line that is stored, and for one that names a setting.
LEMMA ConfigMatch ==
  ASSUME Documented(ConfigLines, "CONFIG", ConfigTable), NEW line \in ConfigLines
  PROVE  LET setting == fcgiHttpTxnConfigFind(line.name)
         IN  /\ ~Nameless(line, "CONFIG") /\ Complete(line, "CONFIG", setting) =>
                  /\ setting \in ToSet(ConfigTable)
                  /\ NamesSetting(line, "CONFIG", setting)
             /\ \A s \in ToSet(ConfigTable) : NamesSetting(line, "CONFIG", s) =>
                  /\ ~Nameless(line, "CONFIG")
                  /\ Complete(line, "CONFIG", setting)
                  /\ setting = s
<1>1. /\ DOMAIN ConfigTable = 1 .. 11 /\ 11 \in Nat
      /\ \A m, n \in 1 .. 11 : ConfigTable[m].name = ConfigTable[n].name => m = n
      /\ \A n \in 1 .. 11 : ConfigTable[n].type \in {"INT", "STRING"}
  BY ConfigTableFacts, ConfigNamesDiffer
<1>2. ToSet(ConfigTable) = {ConfigTable[n] : n \in 1 .. 11}
  BY <1>1 DEF ToSet
<1>3. \A n \in 1 .. 11 : NULL \notin {ConfigTable[n], ConfigTable[n].name}
  BY <1>2, ConfigAssumption
<1>4. ConfigLines \subseteq ReadLines
  BY ConfigAssumption
<1>5. ASSUME ~Nameless(line, "CONFIG"),
             Complete(line, "CONFIG", FirstMatch(ConfigTable, line.name))
      PROVE  \E n \in 1 .. 11 :
               /\ FirstMatch(ConfigTable, line.name) = ConfigTable[n]
               /\ NamesSetting(line, "CONFIG", ConfigTable[n])
  BY <1>1, <1>5, CompleteIsNamed
<1>6. ASSUME NEW n \in 1 .. 11, NamesSetting(line, "CONFIG", ConfigTable[n])
      PROVE  /\ ~Nameless(line, "CONFIG")
             /\ FirstMatch(ConfigTable, line.name) = ConfigTable[n]
             /\ Complete(line, "CONFIG", ConfigTable[n])
  BY <1>1, <1>3, <1>4, <1>6, NamedIsComplete
<1> QED BY <1>2, <1>5, <1>6, Zenon DEF fcgiHttpTxnConfigFind

\* The same of the parameters: the code finds the one a line names.
LEMMA ParamMatch ==
  ASSUME Documented(ParamLines, "fastcgi_param", ParamTable), NEW line \in ParamLines
  PROVE  LET setting == fcgiParamConfigFind(line.name)
         IN  /\ /\ ~Nameless(line, "fastcgi_param")
                /\ Complete(line, "fastcgi_param", setting)
                => /\ setting \in ToSet(ParamTable)
                   /\ NamesSetting(line, "fastcgi_param", setting)
             /\ \A s \in ToSet(ParamTable) : NamesSetting(line, "fastcgi_param", s) =>
                  /\ ~Nameless(line, "fastcgi_param")
                  /\ Complete(line, "fastcgi_param", setting)
                  /\ setting = s
<1>1. /\ DOMAIN ParamTable = 1 .. 17 /\ 17 \in Nat
      /\ \A m, n \in 1 .. 17 : ParamTable[m].name = ParamTable[n].name => m = n
      /\ \A n \in 1 .. 17 : ParamTable[n].type \in {"INT", "STRING"}
  BY ParamTableFacts, ParamNamesDiffer
<1>2. ToSet(ParamTable) = {ParamTable[n] : n \in 1 .. 17}
  BY <1>1 DEF ToSet
<1>3. \A n \in 1 .. 17 : NULL \notin {ParamTable[n], ParamTable[n].name}
  BY <1>2, ConfigAssumption
<1>4. ParamLines \subseteq ReadLines
  BY ConfigAssumption
<1>5. ASSUME ~Nameless(line, "fastcgi_param"),
             Complete(line, "fastcgi_param", FirstMatch(ParamTable, line.name))
      PROVE  \E n \in 1 .. 17 :
               /\ FirstMatch(ParamTable, line.name) = ParamTable[n]
               /\ NamesSetting(line, "fastcgi_param", ParamTable[n])
  BY <1>1, <1>5, CompleteIsNamed
<1>6. ASSUME NEW n \in 1 .. 17, NamesSetting(line, "fastcgi_param", ParamTable[n])
      PROVE  /\ ~Nameless(line, "fastcgi_param")
             /\ FirstMatch(ParamTable, line.name) = ParamTable[n]
             /\ Complete(line, "fastcgi_param", ParamTable[n])
  BY <1>1, <1>3, <1>4, <1>6, NamedIsComplete
<1> QED BY <1>2, <1>5, <1>6, Zenon DEF fcgiParamConfigFind

\* A match is in the table.
LEMMA MatchInTable ==
  ASSUME NEW table, NEW size \in Nat, DOMAIN table = 1 .. size, NEW name,
         FirstMatch(table, name) # NULL
  PROVE  FirstMatch(table, name) \in ToSet(table)
<1> DEFINE hits == {n \in DOMAIN table : IsPrefix(name, table[n].name)}
<1>1. hits # {} /\ FirstMatch(table, name) = table[Min(hits)] /\ hits \subseteq Nat
  BY DEF FirstMatch
<1>2. Min(hits) \in hits
  <2> HIDE DEF hits
  <2> QED BY <1>1, MinProp
<1> QED BY <1>1, <1>2 DEF ToSet

\* The keys of the settings, by their types.
LEMMA KeysFacts ==
  /\ Keys = {"enabled", "hostname", "server_ip", "server_port", "include",
             "document_root", "html", "min_connections", "max_connections",
             "max_requests", "request_queue_size"}
  /\ StringKeys = {"hostname", "server_ip", "server_port", "include",
                   "document_root", "html"}
  /\ Keys = IntKeys \cup StringKeys \cup {"enabled"}
  /\ IntKeys \cap StringKeys = {} /\ "enabled" \notin IntKeys \cup StringKeys
  /\ "params" \notin Keys
<1>1. Keys = {ConfigTable[n].key : n \in 1 .. 11}
  BY ConfigTableFacts DEF Keys, ToSet
<1>2. {ConfigTable[n].key : n \in 1 .. 11} =
        {"enabled", "hostname", "server_ip", "server_port", "include",
         "document_root", "html", "min_connections", "max_connections",
         "max_requests", "request_queue_size"}
  BY DEF ConfigTable, Setting
<1>3. Keys = {"enabled", "hostname", "server_ip", "server_port", "include",
              "document_root", "html", "min_connections", "max_connections",
              "max_requests", "request_queue_size"}
  BY <1>1, <1>2, Zenon
<1> QED BY <1>3 DEF StringKeys, IntKeys

\* The defaults have the types of the settings.
LEMMA TypedInit == ConfigInit => ConfigTyped
<1> SUFFICES ASSUME ConfigInit
             PROVE  ConfigTyped
  OBVIOUS
<1>1. /\ lines = <<>> /\ included = <<>> /\ config = Defaults
      /\ reading = "argument"
  BY DEF ConfigInit
<1>2. lines \in Seq(ConfigLines) /\ included \in Seq(ParamLines)
  BY <1>1
<1>3. DOMAIN config = Keys \cup {"params"}
  BY <1>1, KeysFacts DEF Defaults
<1>4. config.enabled \in BOOLEAN
  BY <1>1 DEF Defaults
<1>5. \A k \in IntKeys : IntSetting(config[k])
  BY <1>1 DEF Defaults, IntKeys, IntSetting
<1>6. \A k \in StringKeys : StringSetting(config[k])
  BY <1>1, KeysFacts DEF Defaults, StringSetting, Text
<1>7. config.params = [p \in ToSet(ParamNames) |-> NULL]
  BY <1>1 DEF Defaults
<1>8. /\ DOMAIN config.params = ToSet(ParamNames)
      /\ \A p \in ToSet(ParamNames) : StringSetting(config.params[p])
  BY <1>7 DEF StringSetting
<1> QED BY <1>1, <1>2, <1>3, <1>4, <1>5, <1>6, <1>8 DEF ConfigTyped

\* The shapes of what a line stores.
LEMMA ConvertedType ==
  ASSUME NEW value \in Texts, NEW key \in Keys
  PROVE  /\ key = "enabled" => Converted(key, value) = TRUE
         /\ key \in IntKeys => IntSetting(Converted(key, value))
         /\ key \in StringKeys => StringSetting(Converted(key, value))
<1>1. value.number \in Int /\ DOMAIN value = {"text", "number"}
  BY DEF Texts
<1>2. CASE key = "enabled"
  BY <1>2, KeysFacts DEF Converted
<1>3. CASE key \in IntKeys
  <2>1. Converted(key, value) = value.number
    BY <1>3, KeysFacts DEF Converted
  <2> QED BY <1>1, <1>3, <2>1, KeysFacts DEF IntSetting
<1>4. CASE key \in StringKeys
  <2>1. Converted(key, value) = IF value.text = "NULL" THEN NULL ELSE value
    BY <1>4, KeysFacts DEF Converted
  <2> QED BY <1>1, <1>4, <2>1, KeysFacts DEF StringSetting
<1> QED BY <1>2, <1>3, <1>4, KeysFacts

\* A line keeps them.
LEMMA TypedStep ==
  ASSUME ConfigTyped, ConfigNext
  PROVE  ConfigTyped'
<1> USE DEF ConfigTyped
<1>1. ConfigLines \subseteq ReadLines /\ ParamLines \subseteq ReadLines
  BY ConfigAssumption
<1>2. ASSUME NEW fn \in Args, ReadArgument(fn)
      PROVE  ConfigTyped'
  <2>1. /\ config' = [config EXCEPT !.enabled = fn # "0"]
        /\ lines' = lines /\ included' = included
        /\ reading' \in {"done", "config"}
    BY <1>2 DEF ReadArgument
  <2>2. /\ DOMAIN config' = DOMAIN config
        /\ config'.enabled \in BOOLEAN
        /\ \A k \in DOMAIN config : k # "enabled" => config'[k] = config[k]
    BY <2>1, KeysFacts
  <2>3. config'.params = config.params
    BY <2>2
  <2> QED BY <2>1, <2>2, <2>3, KeysFacts
<1>3. ASSUME NEW line \in ConfigLines,
             IgnoreConfigLine(line) \/ CrashAtConfigLine(line)
      PROVE  ConfigTyped'
  <2>1. /\ config' = config /\ included' = included
        /\ lines' = Append(lines, line)
        /\ reading' = reading \/ reading' = "crashed"
    BY <1>3 DEF IgnoreConfigLine, CrashAtConfigLine
  <2>2. lines' \in Seq(ConfigLines)
    BY <2>1
  <2> QED BY <2>1, <2>2
<1>4. ASSUME NEW line \in ConfigLines, StoreConfigLine(line)
      PROVE  ConfigTyped'
  <2> DEFINE setting == fcgiHttpTxnConfigFind(line.name)
             key == setting.key
             stored == Converted(key, line.value)
  <2>1. /\ Complete(line, "CONFIG", setting)
        /\ config' = Stored(config, key, line.value)
        /\ lines' = Append(lines, line) /\ included' = included
        /\ reading' \in {"params", "config"}
    BY <1>4 DEF StoreConfigLine
  <2>2. setting \in ToSet(ConfigTable)
    BY <2>1, MatchInTable, ConfigTableFacts DEF Complete, fcgiHttpTxnConfigFind
  <2>3. key \in Keys
    BY <2>2 DEF Keys
  <2>4. line.value \in Texts
    BY <1>1, <2>1 DEF Complete, ReadLines
  <2>5. /\ key = "enabled" => stored = TRUE
        /\ key \in IntKeys => IntSetting(stored)
        /\ key \in StringKeys => StringSetting(stored)
    <3> HIDE DEF key
    <3> QED BY <2>3, <2>4, ConvertedType
  <2>6. config' = [config EXCEPT ![key] = stored]
    BY <2>1 DEF Stored
  <2> HIDE DEF stored, key
  <2>7. /\ DOMAIN config' = DOMAIN config
        /\ \A k \in DOMAIN config : config'[k] = IF k = key THEN stored ELSE config[k]
    BY <2>6
  <2>8. config'.params = config.params
    BY <2>3, <2>7, KeysFacts
  <2>9. config'.enabled \in BOOLEAN
    BY <2>5, <2>7, KeysFacts
  <2>10. \A k \in IntKeys : IntSetting(config'[k])
    BY <2>5, <2>7, KeysFacts
  <2>11. \A k \in StringKeys : StringSetting(config'[k])
    BY <2>5, <2>7, KeysFacts
  <2>12. lines' \in Seq(ConfigLines)
    BY <2>1
  <2> QED BY <2>1, <2>7, <2>8, <2>9, <2>10, <2>11, <2>12
<1>5. ASSUME NEW line \in ParamLines,
             IgnoreParamLine(line) \/ CrashAtParamLine(line)
      PROVE  ConfigTyped'
  <2>1. /\ config' = config /\ lines' = lines
        /\ included' = Append(included, line)
        /\ reading' = reading \/ reading' = "crashed"
    BY <1>5 DEF IgnoreParamLine, CrashAtParamLine
  <2>2. included' \in Seq(ParamLines)
    BY <2>1
  <2> QED BY <2>1, <2>2
<1>6. ASSUME NEW line \in ParamLines, StoreParamLine(line)
      PROVE  ConfigTyped'
  <2> DEFINE setting == fcgiParamConfigFind(line.name)
             key == setting.key
  <2>1. /\ Complete(line, "fastcgi_param", setting)
        /\ config' = [config EXCEPT !.params =
                        ParamInserted(config.params, key, line.value)]
        /\ included' = Append(included, line) /\ lines' = lines
        /\ reading' = reading
    BY <1>6 DEF StoreParamLine
  <2>2. setting \in ToSet(ParamTable)
    BY <2>1, MatchInTable, ParamTableFacts DEF Complete, fcgiParamConfigFind
  <2>3. line.value \in Texts
    BY <1>1, <2>1 DEF Complete, ReadLines
  <2>4. StringSetting(line.value) /\ StringSetting(Text("", 0))
    BY <2>3 DEF StringSetting, Texts, Text
  <2> HIDE DEF key
  <2>5. /\ DOMAIN config' = DOMAIN config
        /\ \A k \in Keys : config'[k] = config[k]
        /\ config'.params = ParamInserted(config.params, key, line.value)
    BY <2>1, KeysFacts
  <2>6. /\ DOMAIN config'.params = ToSet(ParamNames)
        /\ \A p \in ToSet(ParamNames) : StringSetting(config'.params[p])
    BY <2>4, <2>5 DEF ParamInserted
  <2>7. included' \in Seq(ParamLines)
    BY <2>1
  <2> QED BY <2>1, <2>5, <2>6, <2>7, KeysFacts
<1>7. ASSUME EndOfFile
      PROVE  ConfigTyped'
  BY <1>7 DEF EndOfFile
<1> QED BY <1>2, <1>3, <1>4, <1>5, <1>6, <1>7 DEF ConfigNext

\* LastWins and FirstWins, setting by setting.
LEMMA WinsByValue ==
  /\ LastWins <=> \A s \in ToSet(ConfigTable) :
                    s.key # "enabled" => config[s.key] = LastValue(lines, s)
  /\ FirstWins <=> \A s \in ToSet(ParamTable) :
                     config.params[s.key] = FirstValue(included, s)
BY Zenon DEF LastWins, FirstWins, LastValue, FirstValue

\* initConfig: a line assigns to the setting it names, and to no other.
LEMMA LastStep ==
  ASSUME Documented(ConfigLines, "CONFIG", ConfigTable),
         ConfigTyped, LastWins, ConfigNext
  PROVE  LastWins'
<1> DEFINE Given(s) == s.key # "enabled" => config[s.key] = LastValue(lines, s)
<1>1. \A s \in ToSet(ConfigTable) : Given(s)
  BY WinsByValue
<1>2. \A s \in ToSet(ConfigTable) : s.key \in DOMAIN config /\ s.key # "params"
  BY KeysFacts DEF Keys, ConfigTyped
<1> SUFFICES ASSUME NEW s \in ToSet(ConfigTable), s.key # "enabled"
             PROVE  config'[s.key] = LastValue(lines', s)
  <2>1. \A t \in ToSet(ConfigTable) :
          t.key # "enabled" => config'[t.key] = LastValue(lines', t)
    OBVIOUS
  <2>2. LastWins' <=> \A t \in ToSet(ConfigTable) :
          t.key # "enabled" => config'[t.key] = LastValue(lines', t)
    BY Zenon DEF LastWins, LastValue
  <2> QED BY <2>1, <2>2
<1>3. config[s.key] = LastValue(lines, s)
  BY <1>1
<1>4. lines \in Seq(ConfigLines)
  BY DEF ConfigTyped
<1>5. ASSUME config'[s.key] = config[s.key], lines' = lines
      PROVE  config'[s.key] = LastValue(lines', s)
  BY <1>3, <1>5
<1>6. ASSUME NEW fn \in Args, ReadArgument(fn)
      PROVE  config'[s.key] = LastValue(lines', s)
  <2>1. config' = [config EXCEPT !.enabled = fn # "0"] /\ lines' = lines
    BY <1>6 DEF ReadArgument
  <2>2. config'[s.key] = config[s.key]
    BY <1>2, <2>1
  <2> QED BY <1>5, <2>1, <2>2
<1>7. ASSUME NEW line \in ConfigLines,
             IgnoreConfigLine(line) \/ CrashAtConfigLine(line)
      PROVE  config'[s.key] = LastValue(lines', s)
  <2>1. lines' = Append(lines, line) /\ config' = config
    BY <1>7 DEF IgnoreConfigLine, CrashAtConfigLine
  <2>2. \/ Nameless(line, "CONFIG")
        \/ ~Complete(line, "CONFIG", fcgiHttpTxnConfigFind(line.name))
    BY <1>7 DEF IgnoreConfigLine, CrashAtConfigLine
  <2>3. ~NamesSetting(line, "CONFIG", s)
    BY <2>2, ConfigMatch
  <2>4. LastValue(Append(lines, line), s) = LastValue(lines, s)
    BY <1>4, <2>3, LastAppended
  <2> QED BY <1>3, <2>1, <2>4
<1>8. ASSUME NEW line \in ConfigLines, StoreConfigLine(line)
      PROVE  config'[s.key] = LastValue(lines', s)
  <2> DEFINE setting == fcgiHttpTxnConfigFind(line.name)
  <2>1. /\ ~Nameless(line, "CONFIG") /\ Complete(line, "CONFIG", setting)
        /\ config' = Stored(config, setting.key, line.value)
        /\ lines' = Append(lines, line)
    BY <1>8 DEF StoreConfigLine
  <2>2. setting \in ToSet(ConfigTable) /\ NamesSetting(line, "CONFIG", setting)
    BY <2>1, ConfigMatch
  <2>3. NamesSetting(line, "CONFIG", s) => setting = s
    BY ConfigMatch
  <2>4. LastValue(lines', s) = IF NamesSetting(line, "CONFIG", s)
                               THEN Converted(s.key, line.value)
                               ELSE LastValue(lines, s)
    BY <1>4, <2>1, LastAppended
  <2> HIDE DEF setting
  <2>5. config' = [config EXCEPT ![setting.key] = Converted(setting.key, line.value)]
    BY <2>1 DEF Stored
  <2>6. CASE setting = s
    BY <1>2, <2>2, <2>4, <2>5, <2>6
  <2>7. CASE setting # s
    <3>1. setting.key # s.key
      <4>1. PICK m \in 1 .. 11, n \in 1 .. 11 :
              setting = ConfigTable[m] /\ s = ConfigTable[n]
        BY <2>2, ConfigTableFacts DEF ToSet
      <4> QED BY <2>7, <4>1, ConfigTableFacts
    <3>2. config'[s.key] = config[s.key]
      BY <1>2, <2>5, <3>1
    <3> QED BY <1>3, <2>3, <2>4, <2>7, <3>2
  <2> QED BY <2>6, <2>7
<1>9. ASSUME NEW line \in ParamLines,
             IgnoreParamLine(line) \/ CrashAtParamLine(line) \/ StoreParamLine(line)
      PROVE  config'[s.key] = LastValue(lines', s)
  <2>1. lines' = lines
    BY <1>9 DEF IgnoreParamLine, CrashAtParamLine, StoreParamLine
  <2>2. config'[s.key] = config[s.key]
    BY <1>2, <1>9 DEF IgnoreParamLine, CrashAtParamLine, StoreParamLine
  <2> QED BY <1>5, <2>1, <2>2
<1>10. ASSUME EndOfFile
       PROVE  config'[s.key] = LastValue(lines', s)
  BY <1>5, <1>10 DEF EndOfFile
<1> QED BY <1>6, <1>7, <1>8, <1>9, <1>10 DEF ConfigNext

\* initFcgiParam: a line assigns to the parameter it names unless one has.
LEMMA FirstStep ==
  ASSUME Documented(ParamLines, "fastcgi_param", ParamTable),
         ConfigTyped, FirstWins, ConfigNext
  PROVE  FirstWins'
<1>1. \A s \in ToSet(ParamTable) : config.params[s.key] = FirstValue(included, s)
  BY WinsByValue
<1>2. /\ "params" \in DOMAIN config
      /\ \A s \in ToSet(ParamTable) : s.key \in DOMAIN config.params
  <2>1. \A n \in 1 .. 17 : ParamTable[n].key \in ToSet(ParamNames)
    <3>1. DOMAIN ParamNames = 1 .. 17
      BY DEF ParamNames
    <3> QED BY <3>1, ParamTableFacts DEF ToSet
  <2>2. \A s \in ToSet(ParamTable) : s.key \in ToSet(ParamNames)
    BY <2>1, ParamTableFacts DEF ToSet
  <2> QED BY <2>2 DEF ConfigTyped
<1> SUFFICES ASSUME NEW s \in ToSet(ParamTable)
             PROVE  config'.params[s.key] = FirstValue(included', s)
  <2>1. \A t \in ToSet(ParamTable) : config'.params[t.key] = FirstValue(included', t)
    OBVIOUS
  <2>2. FirstWins' <=> \A t \in ToSet(ParamTable) :
                         config'.params[t.key] = FirstValue(included', t)
    BY Zenon DEF FirstWins, FirstValue
  <2> QED BY <2>1, <2>2
<1>3. config.params[s.key] = FirstValue(included, s)
  BY <1>1
<1>4. included \in Seq(ParamLines)
  BY DEF ConfigTyped
<1>5. ASSUME config'.params = config.params, included' = included
      PROVE  config'.params[s.key] = FirstValue(included', s)
  BY <1>3, <1>5
<1>6. ASSUME NEW fn \in Args, ReadArgument(fn)
      PROVE  config'.params[s.key] = FirstValue(included', s)
  <2>1. config' = [config EXCEPT !.enabled = fn # "0"] /\ included' = included
    BY <1>6 DEF ReadArgument
  <2>2. config'.params = config.params
    BY <1>2, <2>1
  <2> QED BY <1>5, <2>1, <2>2
<1>7. ASSUME NEW line \in ConfigLines,
             IgnoreConfigLine(line) \/ CrashAtConfigLine(line) \/ StoreConfigLine(line)
      PROVE  config'.params[s.key] = FirstValue(included', s)
  <2>1. included' = included
    BY <1>7 DEF IgnoreConfigLine, CrashAtConfigLine, StoreConfigLine
  <2>2. CASE IgnoreConfigLine(line) \/ CrashAtConfigLine(line)
    BY <1>5, <2>1, <2>2 DEF IgnoreConfigLine, CrashAtConfigLine
  <2>3. CASE StoreConfigLine(line)
    <3> DEFINE setting == fcgiHttpTxnConfigFind(line.name)
    <3>1. /\ Complete(line, "CONFIG", setting)
          /\ config' = Stored(config, setting.key, line.value)
      BY <2>3 DEF StoreConfigLine
    <3>2. setting \in ToSet(ConfigTable)
      BY <3>1, MatchInTable, ConfigTableFacts DEF Complete, fcgiHttpTxnConfigFind
    <3> HIDE DEF setting
    <3>3. setting.key # "params"
      BY <3>2, KeysFacts DEF Keys
    <3>4. config'.params = config.params
      BY <1>2, <3>1, <3>3 DEF Stored
    <3> QED BY <1>5, <2>1, <3>4
  <2> QED BY <1>7, <2>2, <2>3
<1>8. ASSUME NEW line \in ParamLines,
             IgnoreParamLine(line) \/ CrashAtParamLine(line)
      PROVE  config'.params[s.key] = FirstValue(included', s)
  <2>1. included' = Append(included, line) /\ config' = config
    BY <1>8 DEF IgnoreParamLine, CrashAtParamLine
  <2>2. \/ Nameless(line, "fastcgi_param")
        \/ ~Complete(line, "fastcgi_param", fcgiParamConfigFind(line.name))
    BY <1>8 DEF IgnoreParamLine, CrashAtParamLine
  <2>3. ~NamesSetting(line, "fastcgi_param", s)
    BY <2>2, ParamMatch
  <2>4. FirstValue(Append(included, line), s) = FirstValue(included, s)
    <3>1. LinesFor(included, "fastcgi_param", s) = {} => FirstValue(included, s) = NULL
      BY DEF FirstValue
    <3> QED BY <1>4, <2>3, <3>1, FirstAppended
  <2> QED BY <1>3, <2>1, <2>4
<1>9. ASSUME NEW line \in ParamLines, StoreParamLine(line)
      PROVE  config'.params[s.key] = FirstValue(included', s)
  <2> DEFINE setting == fcgiParamConfigFind(line.name)
             given == LinesFor(included, "fastcgi_param", s)
             text == IF line.value.text = "NULL" THEN Text("", 0) ELSE line.value
  <2>1. /\ ~Nameless(line, "fastcgi_param")
        /\ Complete(line, "fastcgi_param", setting)
        /\ config' = [config EXCEPT !.params =
                        ParamInserted(config.params, setting.key, line.value)]
        /\ included' = Append(included, line)
    BY <1>9 DEF StoreParamLine
  <2>2. setting \in ToSet(ParamTable) /\ NamesSetting(line, "fastcgi_param", setting)
    BY <2>1, ParamMatch
  <2>3. NamesSetting(line, "fastcgi_param", s) => setting = s
    BY ParamMatch
  <2>4. FirstValue(included', s) =
          IF given # {} THEN FirstValue(included, s)
          ELSE IF ~NamesSetting(line, "fastcgi_param", s) THEN NULL
          ELSE text
    BY <1>4, <2>1, FirstAppended
  <2>5. given # {} <=> config.params[s.key] # NULL
    <3>1. ASSUME given # {}
          PROVE  FirstValue(included, s) # NULL
      <4>1. given \subseteq Nat
        BY <1>4, LinesForAppended DEF LinesFor
      <4>2. Min(given) \in given
        <5> HIDE DEF given
        <5> QED BY <3>1, <4>1, MinProp
      <4>3. included[Min(given)].value # NULL
        BY <4>2 DEF LinesFor, NamesSetting
      <4>4. Text("", 0) # NULL
        BY ConfigAssumption
      <4> QED BY <3>1, <4>3, <4>4 DEF FirstValue
    <3> QED BY <1>3, <3>1 DEF FirstValue
  <2> HIDE DEF setting, given
  <2>6. config'.params = [config.params EXCEPT ![setting.key] =
                            IF config.params[setting.key] # NULL
                            THEN config.params[setting.key] ELSE text]
    BY <1>2, <2>1 DEF ParamInserted
  <2> HIDE DEF text
  <2>7. CASE setting = s
    <3>1. config'.params[s.key] = IF config.params[s.key] # NULL
                                  THEN config.params[s.key] ELSE text
      BY <1>2, <2>6, <2>7
    <3> QED BY <1>3, <2>2, <2>4, <2>5, <2>7, <3>1
  <2>8. CASE setting # s
    <3>1. setting.key # s.key
      <4>1. PICK m \in 1 .. 17, n \in 1 .. 17 :
              setting = ParamTable[m] /\ s = ParamTable[n]
        BY <2>2, ParamTableFacts DEF ToSet
      <4> QED BY <2>8, <4>1, ParamTableFacts, ParamNamesDiffer
    <3>2. config'.params[s.key] = config.params[s.key]
      BY <1>2, <2>2, <2>6, <3>1
    <3>3. given = {} => config.params[s.key] = NULL
      BY <2>5
    <3> QED BY <1>3, <2>3, <2>4, <2>8, <3>2, <3>3
  <2> QED BY <2>7, <2>8
<1>10. ASSUME EndOfFile
       PROVE  config'.params[s.key] = FirstValue(included', s)
  BY <1>5, <1>10 DEF EndOfFile
<1> QED BY <1>6, <1>7, <1>8, <1>9, <1>10 DEF ConfigNext

-----------------------------------------------------------------------------
(***************************************************************************)
(* TSPluginInit.                                                           *)
(***************************************************************************)

\* The six counters have names of their own.
LEMMA StatNamesFacts ==
  /\ Counters = 1 .. 6 /\ Len(StatNames) = 6
  /\ \A m, n \in 1 .. 6 : StatNames[m] = StatNames[n] => m = n
  /\ ToSet(StatNames) = {StatNames[n] : n \in 1 .. 6}
<1>1. DOMAIN StatNames = 1 .. 6 /\ Len(StatNames) = 6
  BY DEF StatNames
<1>2. \A m, n \in 1 .. 6 : StatNames[m] = StatNames[n] => m = n
  BY DEF StatNames
<1> QED BY <1>1, <1>2 DEF Counters, ToSet

\* The steps of TSPluginInit: only initConfig, before it, changes the
\* configuration, and the copy that is kept is of its end.
Kept ==
  /\ pc = "config" => globalConfig = NULL /\ first = NULL
  /\ pc # "config" => globalConfig = config

\* Counter n has a statistic of its name.
Assigned(n) == ids[n] \in Ids /\ names[ids[n] + 1] = StatNames[n]

\* The counters registered so far are assigned; as long as no request has
\* come, nothing is counted; a statistic with another name keeps its value.
StatsOK ==
  /\ names \in Seq(STRING \cup ToSet(StatNames))
  /\ stats \in Seq(Nat) /\ Len(stats) = Len(names)
  /\ pc \in {"stats", "running"} => \A n \in 1 .. registered : Assigned(n)
  /\ pc \in {"config", "off"} => registered = 0
  /\ pc = "running" => registered = 6
  /\ pc \in {"config", "off", "stats"} => \A n \in Counters : counted[n] = 0
  /\ pc # "failed" =>
       \A m \in DOMAIN stats : names[m] \notin ToSet(StatNames) => stats[m] = 1

InitInv ==
  /\ ConfigTyped
  /\ TypeOK
  /\ Kept
  /\ StatsOK
  /\ CountsOwn

\* Before the plugin starts nothing is registered or counted.
LEMMA InitInvInit == Init => InitInv
<1> SUFFICES ASSUME Init
             PROVE  InitInv
  OBVIOUS
<1>1. /\ ConfigInit /\ globalConfig = NULL /\ hook = FALSE /\ pc = "config"
      /\ registered = 0 /\ ids = [n \in Counters |-> 0] /\ names = HostStats
      /\ stats = [n \in DOMAIN HostStats |-> 1]
      /\ counted = [n \in Counters |-> 0] /\ first = NULL
  BY DEF Init
<1>2. ConfigTyped
  BY <1>1, TypedInit
<1>3. TypeOK
  <2>1. ids \in [Counters -> Nat \cup {TS_ERROR}] /\ counted \in [Counters -> Nat]
    BY <1>1, Zenon
  <2>2. DOMAIN stats = DOMAIN names
    BY <1>1
  <2>3. registered \in 0 .. Len(StatNames)
    BY <1>1, StatNamesFacts
  <2>4. /\ globalConfig = NULL \/ globalConfig = config
        /\ hook \in BOOLEAN
        /\ pc \in {"config", "off", "stats", "failed", "running"}
        /\ first \in {NULL, "served", "queued", "dropped", "crashed"}
    BY <1>1
  <2> QED BY <1>2, <2>1, <2>2, <2>3, <2>4, Zenon DEF TypeOK, ConfigTyped
<1>4. Kept
  BY <1>1 DEF Kept
<1>5. StatsOK
  <2>1. HostStats \in Seq(STRING \cup ToSet(StatNames)) /\ Len(HostStats) \in Nat
    BY InitAssumption, SeqMonotonic
  <2>2. stats \in Seq(Nat) /\ Len(stats) = Len(HostStats)
    <3>1. DOMAIN HostStats = 1 .. Len(HostStats)
      BY <2>1
    <3> QED BY <1>1, <2>1, <3>1
  <2> QED BY <1>1, <2>1, <2>2 DEF StatsOK
<1>6. CountsOwn
  BY <1>1 DEF CountsOwn
<1> QED BY <1>2, <1>3, <1>4, <1>5, <1>6 DEF InitInv

\* A counter gets the statistic of its name, a new one or the host's.
LEMMA RegisterStep ==
  ASSUME InitInv, RegisterStat
  PROVE  /\ ids' \in [Counters -> Nat \cup {TS_ERROR}]
         /\ DOMAIN stats' = DOMAIN names'
         /\ pc' \in {"stats", "failed"}
         /\ StatsOK'
<1> DEFINE k == registered + 1
<1>1. /\ pc = "stats" /\ registered < 6 /\ registered \in 0 .. 6
      /\ registered' = k /\ counted' = counted /\ k \in 1 .. 6
      /\ FindStat(k) \/ CreateStat(k) \/ CreateStatFails(k)
      /\ ids \in [1 .. 6 -> Nat \cup {TS_ERROR}]
      /\ DOMAIN stats = DOMAIN names
  BY StatNamesFacts DEF RegisterStat, InitInv, TypeOK
<1>2. /\ names \in Seq(STRING \cup ToSet(StatNames)) /\ stats \in Seq(Nat)
      /\ DOMAIN names = 1 .. Len(names) /\ Len(names) \in Nat
      /\ Len(stats) = Len(names)
      /\ \A n \in 1 .. registered : Assigned(n)
      /\ \A n \in Counters : counted[n] = 0
      /\ \A m \in DOMAIN stats : names[m] \notin ToSet(StatNames) => stats[m] = 1
  BY <1>1 DEF InitInv, StatsOK
<1>3. Ids = 0 .. Len(names) - 1
  <2>1. \A m \in 0 .. Len(names) - 1 : m = (m + 1) - 1 /\ m + 1 \in DOMAIN names
    BY <1>2
  <2>2. \A i \in Ids : i \in 0 .. Len(names) - 1
    BY <1>2 DEF Ids
  <2>3. \A i \in 0 .. Len(names) - 1 : i \in Ids
    BY <2>1 DEF Ids
  <2> QED BY <2>2, <2>3
<1> HIDE DEF k
<1>4. CASE FindStat(k)
  <2>1. PICK m \in DOMAIN names : names[m] = StatNames[k]
    BY <1>4 DEF FindStat, ToSet
  <2>2. m - 1 \in Ids /\ names[(m - 1) + 1] = StatNames[k]
    BY <1>2, <2>1 DEF Ids
  <2>3. PICK i \in Ids : /\ names[i + 1] = StatNames[k]
                         /\ ids' = [ids EXCEPT ![k] = i]
    BY <1>4, <2>2 DEF FindStat
  <2>4. /\ pc' = pc /\ names' = names /\ stats' = stats /\ Ids' = Ids
    BY <1>4 DEF FindStat, Ids
  <2>5. \A n \in 1 .. 6 : ids'[n] = IF n = k THEN i ELSE ids[n]
    BY <1>1, <2>3
  <2>6. ASSUME NEW n \in 1 .. k
        PROVE  Assigned(n)'
    <3>1. CASE n = k
      BY <1>1, <2>3, <2>4, <2>5, <3>1 DEF Assigned
    <3>2. CASE n # k
      <4>1. n \in 1 .. registered /\ n \in 1 .. 6
        BY <1>1, <3>2 DEF k
      <4>2. ids'[n] = ids[n]
        BY <2>5, <3>2, <4>1
      <4> QED BY <1>2, <2>4, <4>1, <4>2 DEF Assigned
    <3> QED BY <3>1, <3>2
  <2>7. i \in Nat
    BY <1>3
  <2> QED BY <1>1, <1>2, <2>3, <2>4, <2>6, <2>7, StatNamesFacts DEF StatsOK
<1>5. CASE CreateStat(k)
  <2>1. /\ pc' = pc /\ names' = Append(names, StatNames[k])
        /\ stats' = Append(stats, 0) /\ ids' = [ids EXCEPT ![k] = Len(names)]
    BY <1>5 DEF CreateStat
  <2>2. StatNames[k] \in ToSet(StatNames)
    BY <1>1, StatNamesFacts
  <2>3. /\ names' \in Seq(STRING \cup ToSet(StatNames)) /\ stats' \in Seq(Nat)
        /\ Len(names') = Len(names) + 1 /\ Len(stats') = Len(names) + 1
        /\ DOMAIN names' = 1 .. Len(names) + 1 /\ DOMAIN stats' = 1 .. Len(names) + 1
        /\ \A m \in 1 .. Len(names) : names'[m] = names[m] /\ stats'[m] = stats[m]
        /\ names'[Len(names) + 1] = StatNames[k]
    BY <1>2, <2>1, <2>2
  <2>4. \A m \in 0 .. Len(names) : m \in Ids'
    <3>1. \A m \in 0 .. Len(names) : m = (m + 1) - 1 /\ m + 1 \in DOMAIN names'
      BY <1>2, <2>3
    <3> QED BY <3>1 DEF Ids
  <2>5. \A n \in 1 .. 6 : ids'[n] = IF n = k THEN Len(names) ELSE ids[n]
    BY <1>1, <2>1
  <2>6. ASSUME NEW n \in 1 .. k
        PROVE  Assigned(n)'
    <3>1. CASE n = k
      BY <1>1, <1>2, <2>3, <2>4, <2>5, <3>1 DEF Assigned
    <3>2. CASE n # k
      <4>1. n \in 1 .. registered
        BY <1>1, <3>2 DEF k
      <4>2. ids[n] \in 0 .. Len(names) - 1 /\ names[ids[n] + 1] = StatNames[n]
        BY <1>2, <1>3, <4>1 DEF Assigned
      <4>3. ids'[n] = ids[n]
        BY <1>1, <2>5, <3>2
      <4> QED BY <1>2, <2>3, <2>4, <4>2, <4>3 DEF Assigned
    <3> QED BY <3>1, <3>2
  <2>7. ids' \in [Counters -> Nat \cup {TS_ERROR}]
    BY <1>1, <1>2, <2>1, StatNamesFacts
  <2>8. \A m \in DOMAIN stats' : names'[m] \notin ToSet(StatNames) => stats'[m] = 1
    <3>1. DOMAIN stats = 1 .. Len(names)
      BY <1>1, <1>2
    <3> QED BY <1>2, <2>2, <2>3, <3>1
  <2> QED BY <1>1, <1>2, <2>1, <2>3, <2>6, <2>7, <2>8 DEF StatsOK
<1>6. CASE CreateStatFails(k)
  <2>1. /\ pc' = "failed" /\ names' = names /\ stats' = stats
        /\ ids' = [ids EXCEPT ![k] = TS_ERROR]
    BY <1>6 DEF CreateStatFails
  <2>2. ids' \in [Counters -> Nat \cup {TS_ERROR}]
    BY <1>1, <2>1, StatNamesFacts
  <2> QED BY <1>1, <1>2, <2>1, <2>2 DEF StatsOK
<1> QED BY <1>1, <1>4, <1>5, <1>6

\* The counters start from 0.
LEMMA ResetStep ==
  ASSUME InitInv, ResetStats
  PROVE  /\ DOMAIN stats' = DOMAIN names'
         /\ StatsOK'
         /\ CountsOwn'
<1>1. /\ pc = "stats" /\ registered = 6 /\ pc' = "running"
      /\ stats' = [m \in DOMAIN stats |->
                     IF \E n \in Counters : ids[n] + 1 = m THEN 0 ELSE stats[m]]
      /\ UNCHANGED <<registered, ids, names, counted>>
  BY StatNamesFacts DEF ResetStats
<1>2. /\ names \in Seq(STRING \cup ToSet(StatNames)) /\ stats \in Seq(Nat)
      /\ Len(stats) = Len(names) /\ DOMAIN stats = DOMAIN names
      /\ \A n \in 1 .. 6 : Assigned(n)
      /\ \A n \in Counters : counted[n] = 0
      /\ \A m \in DOMAIN stats : names[m] \notin ToSet(StatNames) => stats[m] = 1
  BY <1>1 DEF InitInv, StatsOK, TypeOK
<1>3. \A n \in 1 .. 6 : /\ ids[n] + 1 \in DOMAIN stats
                        /\ names[ids[n] + 1] = StatNames[n]
                        /\ StatNames[n] \in ToSet(StatNames)
  <2>1. \A i \in Ids : i + 1 \in DOMAIN names
    BY <1>2 DEF Ids
  <2> QED BY <1>2, <2>1, StatNamesFacts DEF Assigned
<1>4. stats' \in Seq(Nat) /\ Len(stats') = Len(names) /\ DOMAIN stats' = DOMAIN stats
  <2>1. DOMAIN stats = 1 .. Len(stats) /\ Len(stats) \in Nat
        /\ \A m \in DOMAIN stats : stats[m] \in Nat
    BY <1>2
  <2> QED BY <1>1, <1>2, <2>1
<1>5. \A n \in Counters : stats'[ids[n] + 1] = counted[n]
  BY <1>1, <1>2, <1>3, StatNamesFacts
<1>6. \A m \in DOMAIN stats : names[m] \notin ToSet(StatNames) => stats'[m] = 1
  <2> SUFFICES ASSUME NEW m \in DOMAIN stats, names[m] \notin ToSet(StatNames)
               PROVE  stats'[m] = 1
    OBVIOUS
  <2>1. \A n \in 1 .. 6 : ids[n] + 1 # m
    BY <1>3
  <2>2. stats'[m] = stats[m]
    BY <1>1, <2>1, StatNamesFacts
  <2> QED BY <1>2, <2>2
<1>7. \A n \in 1 .. 6 : Assigned(n)'
  BY <1>1, <1>2 DEF Assigned, Ids
<1>8. StatsOK'
  BY <1>1, <1>2, <1>4, <1>6, <1>7 DEF StatsOK
<1>9. CountsOwn'
  BY <1>1, <1>4, <1>5, <1>6 DEF CountsOwn
<1> QED BY <1>1, <1>2, <1>4, <1>8, <1>9

\* A counter adds to its own statistic.
LEMMA CountStep ==
  ASSUME InitInv, NEW n \in Counters, Count(n)
  PROVE  /\ DOMAIN stats' = DOMAIN names'
         /\ counted' \in [Counters -> Nat]
         /\ StatsOK'
         /\ CountsOwn'
<1>1. /\ pc \in {"running", "failed"} /\ ids[n] \in Ids
      /\ stats' = [stats EXCEPT ![ids[n] + 1] = stats[ids[n] + 1] + 1]
      /\ counted' = [counted EXCEPT ![n] = counted[n] + 1]
      /\ UNCHANGED <<pc, registered, ids, names>>
  BY DEF Count
<1>2. /\ names \in Seq(STRING \cup ToSet(StatNames)) /\ stats \in Seq(Nat)
      /\ Len(stats) = Len(names) /\ DOMAIN stats = DOMAIN names
      /\ counted \in [1 .. 6 -> Nat] /\ n \in 1 .. 6
  BY StatNamesFacts DEF InitInv, StatsOK, TypeOK
<1>3. ids[n] + 1 \in 1 .. Len(stats) /\ Len(stats) \in Nat /\ DOMAIN stats = 1 .. Len(stats)
  <2>1. \A i \in Ids : i + 1 \in DOMAIN names
    BY <1>2 DEF Ids
  <2> QED BY <1>1, <1>2, <2>1
<1>4. counted' \in [Counters -> Nat]
  BY <1>1, <1>2, StatNamesFacts
<1>5. /\ stats' \in Seq(Nat) /\ Len(stats') = Len(names) /\ DOMAIN stats' = DOMAIN stats
      /\ \A m \in DOMAIN stats :
           stats'[m] = IF m = ids[n] + 1 THEN stats[m] + 1 ELSE stats[m]
  <2> DEFINE k == ids[n] + 1
             v == stats[k] + 1
  <2>1. stats[k] \in Nat /\ v \in Nat /\ k \in 1 .. Len(stats)
    <3>1. \A m \in 1 .. Len(stats) : stats[m] \in Nat
      BY <1>2
    <3>2. k \in 1 .. Len(stats)
      BY <1>3
    <3> HIDE DEF k
    <3> QED BY <3>1, <3>2
  <2>2. stats' = [stats EXCEPT ![k] = v]
    BY <1>1
  <2> HIDE DEF k, v
  <2>3. /\ stats' \in Seq(Nat) /\ Len(stats') = Len(stats)
        /\ \A m \in 1 .. Len(stats) : stats'[m] = IF m = k THEN v ELSE stats[m]
    <3>1. stats \in Seq(Nat) /\ k \in 1 .. Len(stats) /\ v \in Nat
      BY <1>2, <2>1
    <3>2. /\ [stats EXCEPT ![k] = v] \in Seq(Nat)
          /\ Len([stats EXCEPT ![k] = v]) = Len(stats)
          /\ \A j \in 1 .. Len(stats) :
               [stats EXCEPT ![k] = v][j] = IF j = k THEN v ELSE stats[j]
      BY <3>1, ExceptSeq
    <3> QED BY <2>2, <3>2
  <2>4. DOMAIN stats' = DOMAIN stats
    BY <1>2, <2>3
  <2> QED BY <1>2, <1>3, <2>3, <2>4 DEF k, v
<1>6. CASE pc = "failed"
  <2>1. StatsOK'
    BY <1>1, <1>2, <1>5, <1>6 DEF StatsOK
  <2>2. CountsOwn'
    BY <1>1, <1>6 DEF CountsOwn
  <2> QED BY <1>1, <1>2, <1>4, <1>5, <2>1, <2>2
<1>7. CASE pc = "running"
  <2>1. /\ registered = 6 /\ \A m \in 1 .. 6 : Assigned(m)
        /\ \A m \in 1 .. 6 : stats[ids[m] + 1] = counted[m]
        /\ \A m \in DOMAIN stats : names[m] \notin ToSet(StatNames) => stats[m] = 1
    BY <1>7, StatNamesFacts DEF InitInv, StatsOK, CountsOwn
  <2>2. \A m \in 1 .. 6 : /\ ids[m] + 1 \in DOMAIN stats
                          /\ names[ids[m] + 1] = StatNames[m]
                          /\ StatNames[m] \in ToSet(StatNames)
    <3>1. \A i \in Ids : i + 1 \in DOMAIN names
      BY <1>2 DEF Ids
    <3> QED BY <1>2, <2>1, <3>1, StatNamesFacts DEF Assigned
  <2>3. \A m \in 1 .. 6 : ids[m] + 1 = ids[n] + 1 => m = n
    <3> SUFFICES ASSUME NEW m \in 1 .. 6, ids[m] + 1 = ids[n] + 1
                 PROVE  m = n
      OBVIOUS
    <3>1. StatNames[m] = StatNames[n]
      BY <1>2, <2>2
    <3> QED BY <1>2, <3>1, StatNamesFacts
  <2>4. \A m \in 1 .. 6 : counted'[m] = IF m = n THEN counted[m] + 1 ELSE counted[m]
    BY <1>1, <1>2
  <2>5. \A m \in 1 .. 6 : stats'[ids[m] + 1] = counted'[m]
    <3> SUFFICES ASSUME NEW m \in 1 .. 6
                 PROVE  stats'[ids[m] + 1] = counted'[m]
      OBVIOUS
    <3>1. stats[ids[m] + 1] = counted[m] /\ ids[m] + 1 \in DOMAIN stats
      BY <2>1, <2>2
    <3>2. CASE m = n
      BY <1>5, <2>4, <3>1, <3>2
    <3>3. CASE m # n
      BY <1>5, <2>3, <2>4, <3>1, <3>3
    <3> QED BY <3>2, <3>3
  <2>6. \A m \in DOMAIN stats : names[m] \notin ToSet(StatNames) => stats'[m] = 1
    BY <1>2, <1>5, <2>1, <2>2
  <2>7. \A m \in 1 .. 6 : Assigned(m)'
    BY <1>1, <2>1 DEF Assigned, Ids
  <2>8. StatsOK'
    BY <1>1, <1>2, <1>5, <1>7, <2>1, <2>6, <2>7 DEF StatsOK
  <2>9. CountsOwn'
    BY <1>1, <1>5, <2>5, <2>6, StatNamesFacts DEF CountsOwn
  <2> QED BY <1>1, <1>2, <1>4, <1>5, <2>8, <2>9
<1> QED BY <1>1, <1>6, <1>7

\* The limits are those of an unsigned number.
LEMMA LimitTypes ==
  ASSUME InitInv, pc # "config"
  PROVE  /\ Value("max_connections") = config["max_connections"]
         /\ config["max_connections"] \in Int
         /\ PoolLimit \in Nat /\ QueueLimit \in Nat
<1>1. /\ globalConfig = config /\ config["max_connections"] \in Int
      /\ config["request_queue_size"] \in Int
  BY DEF InitInv, Kept, TypeOK, IntKeys, IntSetting
<1>2. \A n \in Int : Uint(n) \in Nat
  BY InitAssumption DEF Uint
<1>3. \A n \in Int : Quotient(n, 6) \in Int
  BY DEF Quotient
<1> QED BY <1>1, <1>2, <1>3 DEF Value, PoolLimit, QueueLimit

\* Every step keeps the invariant.
LEMMA InitInvStep == InitInv /\ [Next]_vars => InitInv'
<1> SUFFICES ASSUME InitInv, [Next]_vars
             PROVE  InitInv'
  OBVIOUS
<1> USE DEF InitInv
<1>1. CASE ReadConfig
  <2>1. ConfigTyped' /\ pc = "config" /\ UNCHANGED initVars
    BY <1>1, TypedStep DEF ReadConfig
  <2>2. /\ UNCHANGED <<globalConfig, hook, pc, registered, ids, names, stats, counted, first>>
        /\ globalConfig = NULL
    BY <2>1 DEF initVars, Kept
  <2>3. TypeOK'
    BY <2>1, <2>2, Zenon DEF TypeOK, ConfigTyped
  <2>4. Kept' /\ CountsOwn'
    BY <2>1, <2>2 DEF Kept, CountsOwn
  <2>5. StatsOK'
    BY <2>2 DEF StatsOK, Assigned, Ids
  <2> QED BY <2>1, <2>3, <2>4, <2>5
<1>2. CASE StartPlugin
  <2>1. /\ pc = "config" /\ globalConfig' = config /\ hook' = config.enabled
        /\ pc' \in {"stats", "off"}
        /\ UNCHANGED <<config, reading, lines, included>>
        /\ UNCHANGED <<registered, ids, names, stats, counted, first>>
    BY <1>2 DEF StartPlugin, configVars
  <2>2. ConfigTyped'
    BY <2>1 DEF ConfigTyped
  <2>3. TypeOK'
    BY <2>1 DEF TypeOK
  <2>4. Kept' /\ CountsOwn'
    BY <2>1 DEF Kept, CountsOwn
  <2>5. StatsOK'
    BY <2>1 DEF StatsOK
  <2> QED BY <2>2, <2>3, <2>4, <2>5
<1>3. CASE RegisterStat
  <2>1. /\ UNCHANGED <<configVars, globalConfig, hook, counted, first>>
        /\ pc = "stats" /\ registered' \in 0 .. Len(StatNames)
    BY <1>3, StatNamesFacts DEF RegisterStat, TypeOK
  <2>2. UNCHANGED <<config, reading, lines, included, globalConfig, hook, counted, first>>
    BY <2>1 DEF configVars
  <2>3. /\ ids' \in [Counters -> Nat \cup {TS_ERROR}]
        /\ DOMAIN stats' = DOMAIN names'
        /\ pc' \in {"stats", "failed"}
        /\ StatsOK'
    BY <1>3, RegisterStep
  <2>4. ConfigTyped'
    BY <2>2 DEF ConfigTyped
  <2>5. TypeOK'
    BY <2>1, <2>2, <2>3, StatNamesFacts DEF TypeOK
  <2>6. Kept' /\ CountsOwn'
    BY <2>1, <2>2, <2>3 DEF Kept, CountsOwn
  <2> QED BY <2>3, <2>4, <2>5, <2>6
<1>4. CASE ResetStats
  <2>1. /\ UNCHANGED <<configVars, globalConfig, hook, registered, ids, names, counted,
                       first>>
        /\ pc = "stats" /\ pc' = "running"
    BY <1>4 DEF ResetStats
  <2>2. UNCHANGED <<config, reading, lines, included>>
    BY <2>1 DEF configVars
  <2>3. DOMAIN stats' = DOMAIN names' /\ StatsOK' /\ CountsOwn'
    BY <1>4, ResetStep
  <2>4. ConfigTyped'
    BY <2>2 DEF ConfigTyped
  <2>5. TypeOK'
    BY <2>1, <2>2, <2>3 DEF TypeOK
  <2>6. Kept'
    BY <2>1, <2>2 DEF Kept
  <2> QED BY <2>3, <2>4, <2>5, <2>6
<1>5. ASSUME NEW n \in Counters, Count(n)
      PROVE  InitInv'
  <2>1. UNCHANGED <<configVars, globalConfig, hook, pc, registered, ids, names, first>>
    BY <1>5 DEF Count
  <2>2. UNCHANGED <<config, reading, lines, included>>
    BY <2>1 DEF configVars
  <2>3. /\ DOMAIN stats' = DOMAIN names' /\ counted' \in [Counters -> Nat]
        /\ StatsOK' /\ CountsOwn'
    BY <1>5, CountStep
  <2>4. ConfigTyped'
    BY <2>2 DEF ConfigTyped
  <2>5. TypeOK'
    BY <2>1, <2>2, <2>3 DEF TypeOK
  <2>6. Kept'
    BY <2>1, <2>2 DEF Kept
  <2> QED BY <2>3, <2>4, <2>5, <2>6
<1>6. ASSUME NEW slash \in BOOLEAN, FirstRequest(slash)
      PROVE  InitInv'
  <2>1. /\ UNCHANGED <<configVars, globalConfig, hook, pc, registered, ids, names,
                       stats, counted>>
        /\ pc # "config"
    BY <1>6 DEF FirstRequest
  <2>2. UNCHANGED <<config, reading, lines, included>>
    BY <2>1 DEF configVars
  <2>3. first' \in {"served", "queued", "dropped", "crashed"}
    <3>1. PoolLimit \in Nat /\ QueueLimit \in Nat
      BY <2>1, LimitTypes
    <3>2. \/ PoolLimit = 0 /\ QueueLimit = 0
          \/ PoolLimit = 0 /\ QueueLimit > 0
          \/ PoolLimit > 0
      BY <3>1
    <3> QED BY <1>6, <3>2 DEF FirstRequest
  <2>4. ConfigTyped' /\ TypeOK'
    BY <2>1, <2>2, <2>3 DEF ConfigTyped, TypeOK
  <2>5. Kept' /\ CountsOwn'
    BY <2>1, <2>2 DEF Kept, CountsOwn
  <2>6. StatsOK'
    BY <2>1 DEF StatsOK, Assigned, Ids
  <2> QED BY <2>4, <2>5, <2>6
<1>7. CASE UNCHANGED vars
  BY <1>7 DEF vars, configVars, initVars, ConfigTyped, TypeOK, Kept, CountsOwn,
              StatsOK, Assigned, Ids
<1> QED BY <1>1, <1>2, <1>3, <1>4, <1>5, <1>6, <1>7 DEF Next

\* The invariant holds throughout.
LEMMA InitInvariance == Spec => []InitInv
BY InitInvInit, InitInvStep, PTL DEF Spec

-----------------------------------------------------------------------------
(***************************************************************************)
(* The theorems.                                                           *)
(***************************************************************************)

\* initConfig, TSPluginInit: whatever lines the files have, the settings keep
\* the types with which they are declared, numbers the integer settings and
\* texts or nothing the others, and the settings in use are those read.
THEOREM InitTypes == Spec => []TypeOK
BY InitInvariance, PTL DEF InitInv

\* TSPluginInit: whatever statistics the host has, and in whatever order,
\* including some of the plugin's, no two counters share one and the plugin
\* changes no other.
THEOREM CountersAreOwn == Spec => []CountsOwn
BY InitInvariance, PTL DEF InitInv

\* With no line read, every setting has its default.
LEMMA WinsInit == ConfigInit => LastWins /\ FirstWins
<1> SUFFICES ASSUME ConfigInit
             PROVE  LastWins /\ FirstWins
  OBVIOUS
<1>1. config = Defaults /\ lines = <<>> /\ included = <<>>
  BY DEF ConfigInit
<1>2. \A directive, s : /\ LinesFor(<<>>, directive, s) = {}
  BY DEF LinesFor
<1>3. LastWins
  BY <1>1, <1>2, WinsByValue DEF LastValue
<1>4. \A s \in ToSet(ParamTable) : s.key \in ToSet(ParamNames)
  <2>1. DOMAIN ParamNames = 1 .. 17
    BY DEF ParamNames
  <2>2. \A n \in 1 .. 17 : ParamTable[n].key \in ToSet(ParamNames)
    BY <2>1, ParamTableFacts DEF ToSet
  <2> QED BY <2>2, ParamTableFacts DEF ToSet
<1>5. Defaults.params = [p \in ToSet(ParamNames) |-> NULL]
  BY DEF Defaults
<1>6. FirstWins
  BY <1>1, <1>2, <1>4, <1>5, WinsByValue DEF FirstValue
<1> QED BY <1>3, <1>6

\* initConfig: whatever lines the configuration file has, in any number and
\* order and with any mistakes but a name cut short, every setting has what the
\* last line says that is meant for it.
THEOREM LastLineWins ==
  ASSUME Documented(ConfigLines, "CONFIG", ConfigTable)
  PROVE  Spec => []LastWins
<1>1. Init => LastWins
  BY WinsInit DEF Init
<1>2. InitInv /\ LastWins /\ [Next]_vars => LastWins'
  <2> SUFFICES ASSUME InitInv, LastWins, [Next]_vars
               PROVE  LastWins'
    OBVIOUS
  <2>1. CASE ReadConfig
    BY <2>1, LastStep DEF ReadConfig, InitInv
  <2>2. CASE UNCHANGED configVars
    BY <2>2 DEF configVars, LastWins
  <2> QED BY <2>1, <2>2 DEF Next, StartPlugin, RegisterStat, ResetStats, Count,
                            FirstRequest, vars
<1> QED BY <1>1, <1>2, InitInvariance, PTL DEF Spec

\* initFcgiParam: the same for the parameters of the included files, of which
\* the first line counts.
THEOREM FirstLineWins ==
  ASSUME Documented(ParamLines, "fastcgi_param", ParamTable)
  PROVE  Spec => []FirstWins
<1>1. Init => FirstWins
  BY WinsInit DEF Init
<1>2. InitInv /\ FirstWins /\ [Next]_vars => FirstWins'
  <2> SUFFICES ASSUME InitInv, FirstWins, [Next]_vars
               PROVE  FirstWins'
    OBVIOUS
  <2>1. CASE ReadConfig
    BY <2>1, FirstStep DEF ReadConfig, InitInv
  <2>2. CASE UNCHANGED configVars
    BY <2>2 DEF configVars, FirstWins
  <2> QED BY <2>1, <2>2 DEF Next, StartPlugin, RegisterStat, ResetStats, Count,
                            FirstRequest, vars
<1> QED BY <1>1, <1>2, InitInvariance, PTL DEF Spec

\* The lines the configuration file has had are enough for a first request.
Serving ==
  LET said == LinesFor(lines, "CONFIG", ConfigTable[9])
  IN  /\ said # {} => lines[Max(said)].value.number >= 6
      /\ \A n \in DOMAIN lines :
           lines[n].value # NULL => lines[n].value.text # "NULL"

\* The settings that such lines leave.
LEMMA ServingSettings ==
  ASSUME \A line \in ConfigLines :
           line.value # NULL => line.value.number < 6 * UintRange,
         InitInv, LastWins, Serving
  PROVE  /\ config["max_connections"] \in 6 .. 6 * UintRange - 1
         /\ \A key \in StringKeys : config[key] # NULL
<1> DEFINE said(s) == LinesFor(lines, "CONFIG", s)
<1>1. lines \in Seq(ConfigLines) /\ UintRange \in Nat \ {0, 1}
  BY InitAssumption DEF InitInv, ConfigTyped
<1>2. ASSUME NEW s, said(s) # {}
      PROVE  LET line == lines[Max(said(s))]
             IN  /\ line \in ConfigLines /\ line.value \in Texts /\ line.value # NULL
                 /\ Max(said(s)) \in DOMAIN lines
  <2>1. said(s) \subseteq 1 .. Len(lines) /\ Len(lines) \in Nat
    BY <1>1 DEF LinesFor
  <2>2. Max(said(s)) \in said(s)
    <3> HIDE DEF said
    <3> QED BY <1>2, <2>1, MaxProp
  <2>3. /\ Max(said(s)) \in DOMAIN lines
        /\ lines[Max(said(s))].value # NULL
    BY <2>2 DEF LinesFor, NamesSetting
  <2>4. lines[Max(said(s))] \in ConfigLines
    BY <1>1, <2>3
  <2>5. lines[Max(said(s))].value \in Texts
    BY <2>3, <2>4, ConfigAssumption DEF ReadLines
  <2> QED BY <2>3, <2>4, <2>5
<1>3. config["max_connections"] \in 6 .. 6 * UintRange - 1
  <2> DEFINE s == ConfigTable[9]
  <2>1. s.key = "max_connections" /\ s \in ToSet(ConfigTable)
    <3>1. s.key = "max_connections"
      BY DEF ConfigTable, Setting
    <3> QED BY <3>1, ConfigTableFacts DEF ToSet
  <2>2. config["max_connections"] = LastValue(lines, s)
    BY <2>1, WinsByValue
  <2>3. CASE said(s) = {}
    <3>1. config["max_connections"] = Defaults["max_connections"]
      BY <2>1, <2>2, <2>3 DEF LastValue
    <3>2. Defaults["max_connections"] = 10
      BY DEF Defaults
    <3> QED BY <1>1, <3>1, <3>2
  <2>4. CASE said(s) # {}
    <3> DEFINE value == lines[Max(said(s))].value
    <3>1. /\ value.number >= 6 /\ value.number < 6 * UintRange
          /\ value \in Texts
      BY <1>2, <2>4 DEF Serving
    <3>2. config["max_connections"] = Converted("max_connections", value)
      BY <2>1, <2>2, <2>4 DEF LastValue
    <3>3. Converted("max_connections", value) = value.number
      BY KeysFacts DEF Converted, IntKeys
    <3>4. value.number \in Int
      BY <3>1 DEF Texts
    <3> QED BY <1>1, <3>1, <3>2, <3>3, <3>4
  <2> QED BY <2>3, <2>4
<1>4. ASSUME NEW key \in StringKeys
      PROVE  config[key] # NULL
  <2>1. PICK s \in ToSet(ConfigTable) : s.key = key
    BY DEF StringKeys, Keys
  <2>2. config[key] = LastValue(lines, s)
    BY <2>1, KeysFacts, WinsByValue
  <2>3. CASE said(s) = {}
    <3>1. config[key] = Defaults[key]
      BY <2>1, <2>2, <2>3 DEF LastValue
    <3> QED BY <3>1, ConfigAssumption
  <2>4. CASE said(s) # {}
    <3> DEFINE value == lines[Max(said(s))].value
    <3>1. value # NULL /\ value.text # "NULL"
      BY <1>2, <2>4 DEF Serving
    <3>2. config[key] = Converted(key, value)
      BY <2>1, <2>2, <2>4 DEF LastValue
    <3>3. Converted(key, value) = value
      BY <3>1, KeysFacts DEF Converted
    <3> QED BY <3>1, <3>2, <3>3
  <2> QED BY <2>3, <2>4
<1> QED BY <1>3, <1>4

\* With such settings the first request finds a connection.
LEMMA ServedStep ==
  ASSUME \A line \in ConfigLines :
           line.value # NULL => line.value.number < 6 * UintRange,
         InitInv, LastWins, Serving, NEW slash \in BOOLEAN, FirstRequest(slash)
  PROVE  first' = "served"
<1> DEFINE limit == config["max_connections"]
<1>1. /\ limit \in 6 .. 6 * UintRange - 1 /\ UintRange \in Nat \ {0, 1}
      /\ \A key \in StringKeys : config[key] # NULL
  BY ServingSettings, InitAssumption
<1>2. globalConfig = config /\ Value("max_connections") = limit
  BY LimitTypes DEF FirstRequest, InitInv, Kept
<1> HIDE DEF limit
<1>3. PoolLimit > 0
  <2>1. limit \in Int /\ limit >= 0
    BY <1>1
  <2>2. Quotient(limit, 6) = limit \div 6
    BY <2>1 DEF Quotient
  <2>3. limit \div 6 \in 1 .. UintRange - 1
    BY <1>1
  <2>4. (limit \div 6) % UintRange = limit \div 6
    BY <1>1, <2>3
  <2> QED BY <1>2, <2>2, <2>3, <2>4 DEF PoolLimit, Uint
<1>4. ~ \E key \in StringsRead(slash) : Value(key) = NULL
  <2>1. StringsRead(slash) \subseteq StringKeys
    BY KeysFacts DEF StringsRead
  <2> QED BY <1>1, <1>2, <2>1 DEF Value
<1>5. ~(PoolLimit = 0)
  BY <1>3
<1> QED BY <1>3, <1>4, <1>5 DEF FirstRequest

\* initConfig, createConnection: with any such configuration file the plugin
\* serves the first request on a thread. A number of connections of 6 times the
\* range of an unsigned number or more would wrap around.
THEOREM FirstIsServed ==
  ASSUME Documented(ConfigLines, "CONFIG", ConfigTable),
         \A line \in ConfigLines :
           line.value # NULL => line.value.number < 6 * UintRange
  PROVE  Spec => []FirstServed
<1>1. FirstServed <=> (first # NULL /\ Serving => first = "served")
  BY DEF FirstServed, Serving
<1>2. Init => FirstServed
  BY <1>1 DEF Init
<1>3. InitInv /\ LastWins /\ FirstServed /\ [Next]_vars => FirstServed'
  <2> SUFFICES ASSUME InitInv, LastWins, FirstServed, [Next]_vars
               PROVE  FirstServed'
    OBVIOUS
  <2>1. CASE ReadConfig
    <3>1. first' = NULL
      BY <2>1 DEF ReadConfig, initVars, InitInv, Kept
    <3> QED BY <3>1 DEF FirstServed
  <2>2. CASE UNCHANGED <<lines, first>>
    BY <2>2 DEF FirstServed
  <2>3. ASSUME NEW slash \in BOOLEAN, FirstRequest(slash)
        PROVE  FirstServed'
    <3>1. UNCHANGED lines
      BY <2>3 DEF FirstRequest, configVars
    <3>2. Serving => first' = "served"
      BY <2>3, ServedStep
    <3> QED BY <3>1, <3>2 DEF FirstServed, Serving
  <2> QED BY <2>1, <2>2, <2>3 DEF Next, StartPlugin, RegisterStat, ResetStats, Count,
                                  vars, initVars, configVars
<1> QED BY <1>2, <1>3, InitInvariance, LastLineWins, PTL DEF Spec

=============================================================================
