-------------------------- MODULE SchemaMigration ---------------------------
(***************************************************************************)
(* Opening the database: refusing one of a later version, copying one of   *)
(* an earlier version aside, and bringing it up to date one version at a   *)
(* time, each in a transaction of its own.  A database that is created     *)
(* gets version 14 at once.  A schema is its set of columns <<table,       *)
(* column>>: those a table was created with stand as one, "base".  The     *)
(* process may die anywhere, in the middle of a copy too.                  *)
(***************************************************************************)
EXTENDS Integers, FiniteSets, FiniteSetsExt

CONSTANTS Found,      \* versions the database may have
          LastSecond, \* bound of the clock
          Kills       \* bound

VARIABLES base,    \* the database file: version (-1: no file), columns
          backups, \* second -> version of the copy made then, Partial
          second,  \* the clock
          opening, \* where Database::open is, and the version it found
          kills
schemaVars == <<base, backups, second, opening, kills>>

Latest == 15    \* SCHEMA_VERSION
Kept == 3       \* prune_backups
NoFile == -1
Partial == -2
AnyVersion == NoFile..(Latest + 1)
ASSUME SchemaConstants == Found \subseteq AnyVersion

Table(name, columns) == {<<name, c>> : c \in columns}
Settings(keys) == Table("settings", keys)
FirstTables == {"providers", "provider_secrets", "client_state", "settings", "operations", "encryption_keys"}
UsageTables == {"usage_events", "usage_sync_cursors", "usage_routes", "usage_meta"}
RollupTables == {"usage_hourly", "usage_rollup_dirty", "model_prices"}
ImageColumns == {"scope", "codex_image_enabled", "codex_image_models", "codex_image_preferred_model"}
Bases(tables) == {<<t, "base">> : t \in tables}
FirstSchema == Bases(FirstTables) \cup {<<"providers", "unique(client,name)">>}

\* What the script for a new database creates.
Created ==
  Bases(FirstTables \cup UsageTables \cup RollupTables
        \cup {"codex_image_state", "protected_values", "usage_quota_readings"})
  \cup Table("providers", {"description", "model", "official", "claude_model_mapping", "codex_config_name",
                           "network_proxy", "codex_tuning", "unique(client,scope,name)"} \cup ImageColumns)
  \cup Table("usage_sync_cursors", {"parser_state"})
  \cup Table("usage_quota_readings", {"account", "session_provider", "client_share"})
  \cup Settings({"proxy_enabled", "upstream_proxy"})

\* A table made anew has these columns only.
Rebuilt(columns, table, now) == {c \in columns : c[1] # table} \cup Table(table, now)

\* The schema after the step that leaves version v.
Migrated(columns, v) ==
  CASE v = 1 -> columns \cup Table("providers", {"description", "model"})
    [] v = 2 -> Rebuilt(columns, "providers", {"base", "description", "model", "official", "unique(client,name)"})
                \cup Settings({"proxy_enabled"})
    [] v = 3 -> columns \cup Bases({"protected_values"})
    [] v = 4 -> columns \cup Table("providers", {"claude_model_mapping"})
    [] v = 5 -> columns \cup Table("providers", {"codex_config_name"})
    [] v = 6 -> Rebuilt(columns, "providers",
                        {"base", "description", "model", "official", "claude_model_mapping", "codex_config_name",
                         "unique(client,scope,name)"} \cup ImageColumns)
                \cup Bases({"codex_image_state"})
    [] v = 7 -> columns \cup Table("providers", {"network_proxy"}) \cup Settings({"upstream_proxy"})
    [] v = 8 -> columns \cup Bases(UsageTables)
    [] v = 9 -> columns \cup Table("providers", {"codex_tuning"})
    [] v = 10 -> columns \cup Bases(RollupTables)
    [] v = 11 -> columns \cup Table("usage_sync_cursors", {"parser_state"}) \cup Bases({"usage_quota_readings"})
    [] v = 12 -> columns \cup Table("usage_quota_readings", {"account", "session_provider"})
    [] v = 13 -> columns \cup Table("usage_quota_readings", {"client_share"})
    [] OTHER -> columns \cup Bases({"official_accounts"})

\* A database of version v made by the releases before this one.
SchemaOf[v \in AnyVersion] ==
  CASE v <= 0 -> {} [] v = 1 -> FirstSchema [] OTHER -> Migrated(SchemaOf[v - 1], v - 1)

NotOpen == [at |-> "closed", found |-> NoFile]
SchemaInit ==
  /\ \E v \in Found : base = [version |-> v, columns |-> SchemaOf[v]]
  /\ backups = <<>> /\ second = 1 /\ opening = NotOpen /\ kills = 0

Passes == second' \in {second, second + 1} /\ second' <= LastSecond
Goes(at) == opening' = [opening EXCEPT !.at = at]

\* Database::open
Open ==
  /\ opening.at = "closed" /\ Passes
  /\ opening' = [found |-> base.version,
                 at |-> CASE base.version > Latest -> "refused" [] base.version \in 0..(Latest - 1) -> "backup"
                          [] OTHER -> "migrate"]
  /\ UNCHANGED <<base, backups, kills>>

\* backup_before_migration: a copy of the same second is written over.
Named(version) == [s \in DOMAIN backups \cup {second} |-> IF s = second THEN version ELSE backups[s]]
Backup ==
  /\ opening.at = "backup" /\ backups' = Named(Partial) /\ Goes("copy")
  /\ UNCHANGED <<base, second, kills>>
Copied ==
  /\ opening.at = "copy" /\ backups' = Named(base.version) /\ Goes("prune")
  /\ UNCHANGED <<base, second, kills>>

\* Mutant: the newest backups are removed.
Prune_Newest ==
  /\ opening.at = "prune"
  /\ IF Cardinality(DOMAIN backups) > Kept
     THEN backups' = [s \in DOMAIN backups \ {Max(DOMAIN backups)} |-> backups[s]] /\ UNCHANGED opening
     ELSE Goes("migrate") /\ UNCHANGED backups
  /\ UNCHANGED <<base, second, kills>>

\* prune_backups: one file at a time, the oldest names first.
Prune ==
  /\ opening.at = "prune"
  /\ IF Cardinality(DOMAIN backups) > Kept
     THEN backups' = [s \in DOMAIN backups \ {Min(DOMAIN backups)} |-> backups[s]] /\ UNCHANGED opening
     ELSE Goes("migrate") /\ UNCHANGED backups
  /\ UNCHANGED <<base, second, kills>>

\* migrate: one transaction.  Opening creates the file.
Migrate ==
  /\ opening.at = "migrate"
  /\ CASE base.version >= Latest -> Goes("open") /\ UNCHANGED base
       [] base.version = NoFile -> base' = [base EXCEPT !.version = 0] /\ UNCHANGED opening
       [] base.version = 0 -> base' = [version |-> Latest - 1, columns |-> Created] /\ UNCHANGED opening
       [] OTHER -> base' = [version |-> base.version + 1, columns |-> Migrated(base.columns, base.version)]
                   /\ UNCHANGED opening
  /\ UNCHANGED <<backups, second, kills>>

Killed ==
  /\ opening.at \notin {"closed", "refused"} /\ kills < Kills /\ kills' = kills + 1
  /\ opening' = NotOpen /\ UNCHANGED <<base, backups, second>>

SchemaNext == Open \/ Backup \/ Copied \/ Prune \/ Migrate \/ Killed
-----------------------------------------------------------------------------
\* However old the database was, however often the daemon died while it was brought
\* up to date, what is opened is what a new installation has.
OpenedIsCurrent == opening.at = "open" => base.columns = SchemaOf[Latest] /\ base.columns = Migrated(Created, Latest - 1)

\* A database that was changed since this start found it has a whole copy of what it
\* was then.
ChangedHasACopy ==
  opening.found \in 1..Latest /\ base.version # opening.found =>
    \E s \in DOMAIN backups : backups[s] = opening.found
=============================================================================
