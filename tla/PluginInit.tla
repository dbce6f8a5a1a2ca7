----------------------------- MODULE PluginInit -----------------------------
(***************************************************************************)
(* TSPluginInit (ats_fastcgi.cc): the configuration is read, the hook and  *)
(* the server are made, and the six statistics are found or created. The   *)
(* hook is on before the statistics are, and a statistic that cannot be    *)
(* created ends the initialisation there.                                  *)
(***************************************************************************)
EXTENDS FcgiConfig

CONSTANTS HostStats, \* the names of the host's statistics; their ids are 0, 1 ...
          MaxCount,  \* bound on what the counters count together
          UintRange  \* the number of values of a uint

ASSUME InitAssumption ==
  /\ HostStats \in Seq(STRING)
  /\ UintRange \in Nat \ {0, 1}

VARIABLES globalConfig, \* InterceptPluginData::global_config
          hook,         \* the plugin is registered for cache lookups
          pc,           \* where TSPluginInit is
          registered,   \* how many counters have been registered
          ids,          \* reqBegId ... phpConnCount
          names,        \* the names of the host's statistics
          stats,        \* the values of the host's statistics
          counted,      \* how often each counter was incremented
          first         \* what became of the first request

initVars == <<globalConfig, hook, pc, registered, ids, names, stats, counted,
              first>>

vars == <<configVars, initVars>>

TS_ERROR == -1

\* reqBegName ... phpConnName, in the order of their registration.
StatNames == <<"reqCountBeg", "reqCountEnd", "respCountBeg", "respCountEnd",
               "threadCount", "phpConnCount">>

Counters == DOMAIN StatNames

\* An id is the position in names, less 1.
Ids == {n - 1 : n \in DOMAIN names}

Init ==
  /\ ConfigInit
  /\ globalConfig = NULL
  /\ hook = FALSE
  /\ pc = "config"
  /\ registered = 0
  /\ ids = [n \in Counters |-> 0]
  /\ names = HostStats
  /\ stats = [n \in DOMAIN HostStats |-> 1]
  /\ counted = [n \in Counters |-> 0]
  /\ first = NULL

\* The steps of initConfig.
ReadConfig ==
  /\ pc = "config"
  /\ ConfigNext
  /\ UNCHANGED initVars

\* Mutant: the object initConfig is called on is kept, not the one it returns.
StartPluginUnread ==
  /\ pc = "config"
  /\ reading = "done"
  /\ globalConfig' = Defaults
  /\ hook' = config.enabled
  /\ pc' = IF config.enabled THEN "stats" ELSE "off"
  /\ UNCHANGED <<configVars, registered, ids, names, stats, counted, first>>

\* setGlobalConfigObj; the constructor of InterceptGlobalPlugin hooks in.
StartPlugin ==
  /\ pc = "config"
  /\ reading = "done"
  /\ globalConfig' = config
  /\ hook' = config.enabled
  /\ pc' = IF config.enabled THEN "stats" ELSE "off"
  /\ UNCHANGED <<configVars, registered, ids, names, stats, counted,
                 first>>

\* TSStatFindName
FindStat(n) ==
  /\ StatNames[n] \in ToSet(names)
  /\ ids' = [ids EXCEPT ![n] = CHOOSE m \in Ids : names[m + 1] = StatNames[n]]
  /\ UNCHANGED <<pc, names, stats>>

\* TSStatCreate
CreateStat(n) ==
  /\ StatNames[n] \notin ToSet(names)
  /\ ids' = [ids EXCEPT ![n] = Len(names)]
  /\ names' = Append(names, StatNames[n])
  /\ stats' = Append(stats, 0)
  /\ UNCHANGED pc

\* The host has no room for another statistic: TSPluginInit returns.
CreateStatFails(n) ==
  /\ StatNames[n] \notin ToSet(names)
  /\ ids' = [ids EXCEPT ![n] = TS_ERROR]
  /\ pc' = "failed"
  /\ UNCHANGED <<names, stats>>

RegisterStat ==
  /\ pc = "stats"
  /\ registered < Len(StatNames)
  /\ LET n == registered + 1
     IN  FindStat(n) \/ CreateStat(n) \/ CreateStatFails(n)
  /\ registered' = registered + 1
  /\ UNCHANGED <<configVars, globalConfig, hook, counted, first>>

\* Mutant: the statistics are not reset.
NotReset ==
  /\ pc = "stats"
  /\ registered = Len(StatNames)
  /\ pc' = "running"
  /\ UNCHANGED <<configVars, globalConfig, hook, registered, ids, names, stats,
                 counted, first>>

\* TSStatIntSet(..., 0) for all of them.
ResetStats ==
  /\ pc = "stats"
  /\ registered = Len(StatNames)
  /\ stats' = [m \in DOMAIN stats |->
                 IF \E n \in Counters : ids[n] + 1 = m THEN 0 ELSE stats[m]]
  /\ pc' = "running"
  /\ UNCHANGED <<configVars, globalConfig, hook, registered, ids, names, counted,
                 first>>

\* TSStatIntIncrement on counter n by a request; requests come once the
\* initialisation is over, if the plugin is hooked in. An id of TS_ERROR is
\* refused by the host.
Count(n) ==
  /\ pc \in {"running", "failed"}
  /\ hook
  /\ ids[n] \in Ids
  /\ MapThenSumSet(LAMBDA m : counted[m], Counters) < MaxCount
  /\ stats' = [stats EXCEPT ![ids[n] + 1] = @ + 1]
  /\ counted' = [counted EXCEPT ![n] = @ + 1]
  /\ UNCHANGED <<configVars, globalConfig, hook, pc, registered, ids, names,
                 first>>

-----------------------------------------------------------------------------
(***************************************************************************)
(* The first request on a thread meets the configuration.                  *)
(***************************************************************************)

\* The getters of FcgiPluginConfig.
Value(key) == globalConfig[key]

\* Division of a TSMgmtInt rounds towards 0; the result becomes a uint.
Quotient(n, d) == IF n >= 0 THEN n \div d ELSE -((-n) \div d)

Uint(n) == n % UintRange

\* Mutant: the pool is made for twelve threads.
PoolLimitOfTwelve == Uint(Quotient(Value("max_connections"), 12))

\* _maxConn of a new ConnectionPool, max_queue_size of a new RequestQueue.
PoolLimit == Uint(Quotient(Value("max_connections"), 6))

QueueLimit == Uint(Value("request_queue_size"))

\* What createConnection and GenerateFcgiRequestHeaders read as strings.
StringsRead(slash) ==
  {"server_ip", "server_port", "document_root"} \cup
    (IF slash THEN {"html"} ELSE {})

\* The thread's pool and queue are made and the request is connected: it gets a
\* new connection, or waits for one, or there is no room. slash tells whether
\* its path ends with one.
FirstRequest(slash) ==
  /\ hook
  /\ pc \in {"running", "failed"}
  /\ first = NULL
  /\ first' = CASE PoolLimit = 0 /\ QueueLimit = 0 -> "dropped"
                [] PoolLimit = 0 /\ QueueLimit > 0 -> "queued"
                [] PoolLimit > 0 ->
                     IF \E key \in StringsRead(slash) : Value(key) = NULL
                     THEN "crashed" ELSE "served"
  /\ UNCHANGED <<configVars, globalConfig, hook, pc, registered, ids, names,
                 stats, counted>>

Next ==
  \/ ReadConfig
  \/ StartPlugin
  \/ RegisterStat
  \/ ResetStats
  \/ \E n \in Counters : Count(n)
  \/ \E slash \in BOOLEAN : FirstRequest(slash)

Spec == Init /\ [][Next]_vars

-----------------------------------------------------------------------------

IntSetting(v) == v \in Int

StringSetting(v) == v = NULL \/ DOMAIN v = {"text", "number"}

\* The shapes of the settings, and that the settings in use are those read.
TypeOK ==
  /\ DOMAIN config = Keys \cup {"params"}
  /\ config.enabled \in BOOLEAN
  /\ \A k \in IntKeys : IntSetting(config[k])
  /\ \A k \in StringKeys : StringSetting(config[k])
  /\ DOMAIN config.params = ToSet(ParamNames)
  /\ \A p \in ToSet(ParamNames) : StringSetting(config.params[p])
  /\ reading \in {"argument", "config", "params", "done", "crashed"}
  /\ globalConfig = NULL \/ globalConfig = config
  /\ hook \in BOOLEAN
  /\ pc \in {"config", "off", "stats", "failed", "running"}
  /\ registered \in 0 .. Len(StatNames)
  /\ ids \in [Counters -> Nat \cup {TS_ERROR}]
  /\ DOMAIN stats = DOMAIN names
  /\ counted \in [Counters -> Nat]
  /\ first \in {NULL, "served", "queued", "dropped", "crashed"}

\* TSPluginInit: once it has run to its end, each counter of the plugin counts
\* what it was incremented by and nothing else, also in a statistic that was
\* there before, and the statistics of others keep their values.
CountsOwn ==
  pc = "running" =>
    /\ \A n \in Counters : stats[ids[n] + 1] = counted[n]
    /\ \A m \in DOMAIN stats :
         names[m] \notin ToSet(StatNames) => stats[m] = 1

\* max_connections is for all threads and a thread gets a sixth of it, rounded
\* down: for the first request to be served, whatever lines the file has, it is
\* enough that the file's last word on max_connections, if any, is a number
\* that is at least 6 and that it says NULL of no setting.
FirstServed ==
  LET said   == LinesFor(lines, "CONFIG", ConfigTable[9])
      enough == said # {} => lines[Max(said)].value.number >= 6
      noNull == \A n \in DOMAIN lines :
                  lines[n].value # NULL => lines[n].value.text # "NULL"
  IN  first # NULL /\ enough /\ noNull => first = "served"

=============================================================================
