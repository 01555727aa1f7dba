------------------------------- MODULE Settings -------------------------------
(* The settings of cmd/canon-proxy/main.go and internal/db/setting.go: rows    *)
(* that are seeded from the configuration file, loaded into the running        *)
(* process, and changed by two kinds of HTTP request (server.go) which update  *)
(* the rows and the process in separate steps.  Three keys are live in the     *)
(* process (whether the poller is enabled, its interval, the log level); the   *)
(* fourth stands for the credentials of the backends.                          *)
EXTENDS Naturals, FiniteSets

CONSTANTS Savers,     \* requests that change settings, served at once
          Intervals, Levels, Secrets,
          NoValue,    \* a key that has no row, or that a request does not name
          MaxNamed    \* bound: keys that one PUT names

ASSUME NoValueAssumption ==
  NoValue \notin Intervals \cup Levels \cup Secrets \cup {"on", "off", "empty", "redacted"}

LiveKeys == {"enabled", "interval", "level"}
Keys == LiveKeys \cup {"secret"}

\* What a row of each key can hold; a request may also send a placeholder.
Stored(k) == CASE k = "enabled" -> {"on", "off"}
               [] k = "interval" -> Intervals
               [] k = "level" -> Levels
               [] k = "secret" -> Secrets \cup {"empty"}

Value == Intervals \cup Levels \cup Secrets \cup {"on", "off", "empty", "redacted", NoValue}

VARIABLES
  rows,      \* the table of settings
  live,      \* what the process works with
  defaults,  \* what the configuration file and the environment say
  seedTodo,  \* keys that SeedDefaults has still to look at
  boot,      \* down, seed, or up
  saver,     \* request -> where its handler is, and the keys that it sets
  agreed     \* ghost: keys last set by one request at a time, with success

settingsVars == <<rows, live, defaults, seedTodo, boot, saver, agreed>>

\* alone: ghost, no other request has been served in the meantime.
Saver == [pc : {"idle", "interval", "persist", "save", "apply"}, kv : [Keys -> Value],
          alone : BOOLEAN]

NoSave == [pc |-> "idle", kv |-> [k \in Keys |-> NoValue], alone |-> TRUE]

Named(kv) == {k \in Keys : kv[k] # NoValue}

\* Rows, process and requests have their types; no row holds a placeholder, and
\* once the process is up every key has a row (main.go:59-72).
SettingsTypeOK ==
  /\ \A k \in Keys : rows[k] \in Stored(k) \cup {NoValue}
  /\ \A k \in LiveKeys : live[k] \in Stored(k)
  /\ seedTodo \subseteq Keys
  /\ boot \in {"down", "seed", "up"}
  /\ boot = "up" => \A k \in Keys : rows[k] # NoValue
  /\ saver \in [Savers -> Saver]
  /\ agreed \subseteq LiveKeys

Defaults == {d \in [Keys -> Value] : /\ \A k \in Keys : d[k] \in Stored(k)
                                     /\ d["enabled"] = "on" /\ d["level"] = "info"}

SettingsInit ==
  /\ rows = [k \in Keys |-> NoValue]
  /\ defaults \in Defaults
  /\ live = [k \in LiveKeys |-> defaults[k]]
  /\ seedTodo = {}
  /\ boot = "down"
  /\ saver = [h \in Savers |-> NoSave]
  /\ agreed = {}

-----------------------------------------------------------------------------
(* Start-up and crash.                                                       *)

\* The file or the environment may have changed since the last start.
StartUp ==
  /\ boot = "down"
  /\ defaults' \in Defaults
  /\ boot' = "seed"
  /\ seedTodo' = Keys
  /\ UNCHANGED <<rows, live, saver, agreed>>

\* Faulty variant of SeedKey: the row is replaced.
SeedOver(k) ==
  /\ boot = "seed" /\ k \in seedTodo
  /\ seedTodo' = seedTodo \ {k}
  /\ rows' = [rows EXCEPT ![k] = defaults[k]]
  /\ UNCHANGED <<live, defaults, boot, saver, agreed>>

\* SeedDefaults inserts one key after the other, in the order of a Go map, and
\* leaves a row alone that is there.
SeedKey(k) ==
  /\ boot = "seed" /\ k \in seedTodo
  /\ seedTodo' = seedTodo \ {k}
  /\ rows' = [rows EXCEPT ![k] = IF @ = NoValue THEN defaults[k] ELSE @]
  /\ UNCHANGED <<live, defaults, boot, saver, agreed>>

\* Faulty variant of LoadSettings: a poller starts enabled.
LoadEnabled ==
  /\ boot = "seed" /\ seedTodo = {}
  /\ live' = [k \in LiveKeys |-> IF k = "enabled" THEN "on" ELSE rows[k]]
  /\ boot' = "up"
  /\ agreed' = LiveKeys
  /\ UNCHANGED <<rows, defaults, seedTodo, saver>>

LoadSettings ==
  /\ boot = "seed" /\ seedTodo = {}
  /\ live' = [k \in LiveKeys |-> rows[k]]
  /\ boot' = "up"
  /\ agreed' = LiveKeys
  /\ UNCHANGED <<rows, defaults, seedTodo, saver>>

ProcessEnds ==
  /\ boot # "down"
  /\ boot' = "down"
  /\ seedTodo' = {}
  /\ saver' = [h \in Savers |-> NoSave]
  /\ agreed' = {}
  /\ UNCHANGED <<rows, live, defaults>>

-----------------------------------------------------------------------------
(* The requests.                                                             *)

Busy == {h \in Savers : saver[h].pc # "idle"}

\* A request begins: nobody else is alone any more.
Begin(h, pc, kv) ==
  /\ boot = "up"
  /\ saver[h].pc = "idle"
  /\ saver' = [i \in Savers |->
                 IF i = h THEN [pc |-> pc, kv |-> kv, alone |-> Busy = {}]
                 ELSE [saver[i] EXCEPT !.alone = @ /\ i \notin Busy]]

\* SetMany upserts all keys in one statement.
SetMany(kv) == rows' = [k \in Keys |-> IF kv[k] = NoValue THEN rows[k] ELSE kv[k]]

Ended(h) == saver' = [saver EXCEPT ![h] = NoSave]

\* Of the keys that h names those that it has also made live agree from now on,
\* if it was alone.
Agree(h, applied) ==
  agreed' = IF saver[h].alone THEN agreed \cup (Named(saver[h].kv) \cap applied) ELSE agreed

\* POST /api/camera/poll/settings: SetEnabled comes first.  An interval of zero
\* is as good as none.
PostPollSettings(h) ==
  \E on \in Stored("enabled"), interval \in Intervals \cup {NoValue} :
    LET kv == [k \in Keys |-> CASE k = "enabled" -> on [] k = "interval" -> interval
                                [] OTHER -> NoValue]
    IN /\ Begin(h, "interval", kv)
       /\ live' = [live EXCEPT !["enabled"] = on]
       /\ agreed' = agreed \ Named(kv)
       /\ UNCHANGED <<rows, defaults, seedTodo, boot>>

SetInterval(h) ==
  /\ saver[h].pc = "interval"
  /\ live' = [live EXCEPT !["interval"] = IF saver[h].kv["interval"] = NoValue THEN @
                                          ELSE saver[h].kv["interval"]]
  /\ saver' = [saver EXCEPT ![h].pc = "persist"]
  /\ UNCHANGED <<rows, defaults, seedTodo, boot, agreed>>

PersistPoll(h) ==
  /\ saver[h].pc = "persist"
  /\ SetMany(saver[h].kv)
  /\ Agree(h, {"enabled", "interval"})
  /\ Ended(h)
  /\ UNCHANGED <<live, defaults, seedTodo, boot>>

\* A database error is logged, and the request succeeds all the same.
PersistFails(h) ==
  /\ saver[h].pc = "persist"
  /\ Ended(h)
  /\ UNCHANGED <<rows, live, defaults, seedTodo, boot, agreed>>

\* Faulty variant of Filtered: only an empty value is dropped.
FilteredEmpty(kv) == [kv EXCEPT !["secret"] = IF @ = "empty" THEN NoValue ELSE @]

\* A secret that is empty, or the placeholder that GET shows, is dropped.
Filtered(kv) == [kv EXCEPT !["secret"] = IF @ \in {"empty", "redacted"} THEN NoValue ELSE @]

\* PUT /api/settings, of any keys, the secret perhaps as a placeholder; of the
\* settings of the poller it changes the rows only.
PutSettings(h) ==
  /\ \E on \in Stored("enabled") \cup {NoValue}, interval \in Intervals \cup {NoValue},
        level \in Levels \cup {NoValue}, secret \in Stored("secret") \cup {"redacted", NoValue} :
       LET kv == [k \in Keys |-> CASE k = "enabled" -> on [] k = "interval" -> interval
                                   [] k = "level" -> level [] k = "secret" -> secret]
       IN /\ Cardinality(Named(kv)) <= MaxNamed
          /\ Begin(h, "save", Filtered(kv))
  /\ UNCHANGED <<rows, live, defaults, seedTodo, boot, agreed>>

SaveSettings(h) ==
  /\ saver[h].pc = "save"
  /\ \/ /\ SetMany(saver[h].kv)
        /\ saver' = [saver EXCEPT ![h].pc = "apply"]
        /\ agreed' = agreed \ Named(saver[h].kv)
     \/ /\ Ended(h)
        /\ UNCHANGED <<rows, agreed>>
  /\ UNCHANGED <<live, defaults, seedTodo, boot>>

\* OnSettingsChanged: the log level is the only key that takes effect at once.
ApplySettings(h) ==
  /\ saver[h].pc = "apply"
  /\ live' = [live EXCEPT !["level"] = IF saver[h].kv["level"] = NoValue THEN @
                                       ELSE saver[h].kv["level"]]
  /\ Agree(h, {"level"})
  /\ Ended(h)
  /\ UNCHANGED <<rows, defaults, seedTodo, boot>>

SettingsNext ==
  \/ StartUp \/ LoadSettings \/ ProcessEnds
  \/ \E k \in Keys : SeedKey(k)
  \/ \E h \in Savers : \/ PostPollSettings(h) \/ SetInterval(h) \/ PersistPoll(h) \/ PersistFails(h)
                       \/ PutSettings(h) \/ SaveSettings(h) \/ ApplySettings(h)

SettingsSpec == SettingsInit /\ [][SettingsNext]_settingsVars

-----------------------------------------------------------------------------
(* Properties.                                                               *)

\* What the process works with is what the next start will load, for each key
\* that was last set by a request that ran alone and whose row could be written:
\* both requests update two places in separate steps (server.go:332-346,
\* 739-747), in opposite orders.
SettingsSurviveRestart == boot = "up" => \A k \in agreed : live[k] = rows[k]

\* A row is changed only by a request, never by a start with another file or
\* environment, even one that ends half-way; and a stored secret is replaced by
\* another secret only, though the page sends back what it was shown
\* (setting.go:69-78, server.go:727-738).
StoredValuesKept ==
  [][\A k \in Keys : (rows[k] # NoValue /\ rows'[k] # rows[k]) =>
       boot = "up" /\ (k = "secret" => rows'[k] \in Secrets)]_settingsVars
=============================================================================
