------------------------------ MODULE MCClient ------------------------------
(***************************************************************************)
(* Small instances for TLC of what the user has in front: the pages of the *)
(* terminal client and its worker, the files of the clients that are       *)
(* configured, the providers a form can describe, and the daemon's         *)
(* installation and database.  They share no state in these models: each   *)
(* is checked while the others rest.                                       *)
(***************************************************************************)
EXTENDS ClientSettings, ClientStats, ClientHome, ClientScreen, ClientForm,
        ClaudeMapping, SettingsText, CodexText, ClientFiles, ProviderDrafts,
        ServiceInstall, SchemaMigration, TLC

VARIABLES part, \* the one that runs
          given \* what its call is given
pageVars == <<settingsVars, statsVars, homeVars, screenVars, formVars>>
vars == <<pageVars, mapVars, draftVars, serviceVars, schemaVars, part, given>>

TwoClients == <<"codex", "claude">>
\* One provider of each kind, and two ways to search.
List == <<"official", "saved", "codex", "both", "image", "claude">>
KindsOf == [id \in {List[i] : i \in DOMAIN List} |-> id]
Searches == {{"claude", "both"}, {"saved"}}

Mapped(model, label, late) ==
  [k \in Keys |-> CASE k = "model" -> model [] k = "label" -> label [] OTHER -> late]
TwoMappings == {Mapped("h1", "h2", Unset), Mapped("h3", Unset, "h4")}

\* Drafts: the fields that are trimmed, left out or out of range.
Url(host, path) == [host |-> host, path |-> path]
NoImage == [enabled |-> FALSE, models |-> <<>>, preferred |-> Unfilled]
Images == {NoImage} \cup [enabled : BOOLEAN, models : {<<"m">>, <<" m", "m">>, <<" ">>},
                          preferred : {Unfilled, "m", " m", "n", " "}]
NoMap == [enabled |-> TRUE, default |-> Unfilled, long |-> FALSE, fable |-> Unfilled, opus |-> Unfilled,
          sonnet |-> Unfilled, haiku |-> Unfilled]
Maps == {Unfilled, NoMap} \cup {[NoMap EXCEPT !.default = d, !.long = l, !.opus = o] :
           d \in {Unfilled, " ", "m"}, l \in BOOLEAN, o \in {Unfilled, " ", " m"}}
ProxiesOf(modes) ==
  [mode : modes, host : {"h", "bad"}, port : {1}, username : {"", "m"}, password : {FALSE}]
AllProxies == ProxiesOf({"inherit", "direct", "manual"})
PlainDraft(c) ==
  [client |-> c, scope |-> "primary", name |-> "m", url |-> Url("h", ""), scheme |-> "bearer",
   model |-> Unfilled, codexName |-> Unfilled, mapping |-> Unfilled, image |-> NoImage, tuning |-> NoTuning,
   proxy |-> [mode |-> "inherit", host |-> "h", port |-> 1, username |-> "", password |-> FALSE]]
FieldValues ==
  ("name" :> {"", " m", "long"}) @@ ("url" :> {Url(h, p) : h \in {"h", "bad"}, p \in {"/", "/v1/", "#fragment"}})
  @@ ("model" :> {" m", " "}) @@ ("codexName" :> {" m", " "}) @@ ("image" :> Images) @@ ("mapping" :> Maps)
  @@ ("proxy" :> AllProxies) @@ ("tuning" :> {[context |-> c, effort |-> Unfilled] : c \in {0, 1}})
AllPatches == UNION {{f :> v : v \in FieldValues[f]} : f \in DOMAIN FieldValues}
AllDrafts ==
  {PlainDraft(c) : c \in HomeClients}
  \cup {[PlainDraft(c) EXCEPT !.name = n] : c \in HomeClients, n \in FieldValues["name"]}
  \cup {[PlainDraft(c) EXCEPT !.image = i, !.scope = s] : c \in HomeClients, i \in Images, s \in {"primary", "image"}}
  \cup {[PlainDraft(c) EXCEPT !.proxy = p] : c \in HomeClients, p \in AllProxies}
  \cup {[PlainDraft(c) EXCEPT !.mapping = m] : c \in HomeClients, m \in Maps}
Urls == {Url("h", p) : p \in {"", "/", "/v1", "/v1/", "/api", "/api/v1"}}

\* Forms: new ones, a copied one, and those of providers with a proxy, image models
\* and a mapping.
NewForm ==
  [client |-> "codex", scope |-> "primary", existing |-> FALSE, secret |-> "none", copied |-> FALSE,
   context |-> FALSE, limit |-> Unfilled, mode |-> "inherit", username |-> "", configured |-> FALSE,
   password |-> FALSE, clear |-> FALSE, image |-> NoImages, mapping |-> Unfilled]
FormOfOne == [NewForm EXCEPT !.existing = TRUE, !.context = TRUE, !.limit = 1, !.mode = "manual",
                             !.username = "m", !.configured = TRUE]
TwoImages == [enabled |-> TRUE, models |-> <<"i2", "m1">>, preferred |-> "m1"]
SomeForms ==
  {[NewForm EXCEPT !.copied = TRUE], [NewForm EXCEPT !.scope = "image", !.image.enabled = TRUE],
   [NewForm EXCEPT !.client = "claude"], FormOfOne, [FormOfOne EXCEPT !.image = TwoImages],
   [NewForm EXCEPT !.client = "claude", !.existing = TRUE, !.mapping = [NoRows EXCEPT !.enabled = TRUE, !.opus = "m1"]]}
SomeProviders == {[FormOfOne EXCEPT !.image = i] : i \in {NoImages, TwoImages, [TwoImages EXCEPT !.enabled = FALSE]}}
SomeLists == {<<>>, <<"m1", "i1">>}
KnownImages == <<"i1">>

\* A settings file of Claude Code: an object with "env" in it, laid out in many ways.
Before == {<<>>, <<"_">>, <<"n", "_">>, <<"n", "n", "_">>, <<"n", "_", "/*", "_">>}
End == {<<>>, <<"n">>, <<",", "n">>, <<"_", "//", "n">>, <<"n", "_", "//", "n", "_">>}
Field(name, v) == {a \o <<name, ":", "_", v>> : a \in Before}
Comma == {<<",">>, <<"n", "_", ",">>, <<"_", "/*", ",">>}
Between(fields) == {<<"{">> \o f \o e \o <<"}">> : f \in fields, e \in End}
Env == {<<"{", "}">>} \cup Between(Field("k", "old"))
       \cup Between({a \o s \o b : a \in Field("k", "old"), s \in Comma, b \in Field("u", "mine")})
       \cup Between({a \o s \o b : a \in Field("u", "mine"), s \in Comma, b \in Field("k", "old")})
Texts == {<<"{">> \o a \o <<"env", ":">> \o e \o b \o <<"}">> :
            a \in {<<"n", "_">>}, e \in Env, b \in {<<"n">>, <<",", "n", "_", "z", ":", "y", "n">>}}
         \cup {<<"{">> \o e \o <<"}">> : e \in End \ {<<",", "n">>}}

\* A configuration of Codex: keys, then tables; hsin's in one, two or none.
Tops ==
  {<<>>, <<Note("c1")>>, <<KeyLine("model_provider", "keep"), Note("c1")>>,
   <<KeyLine("u", "mine"), KeyLine("model_provider", "hsin"), KeyLine("window", "9")>>,
   <<KeyLine("model_provider", "openai"), Blank, KeyLine("effort", "low"), KeyLine("model", "m0")>>,
   <<KeyLine("model_providers", "x")>>, <<KeyLine("model_providers.hsin.name", "x")>>}
Other == <<Note("c2"), Header("keep"), KeyLine("u", "mine"), Blank>>
Hsin == <<Header("hsin"), KeyLine("a", "1"), KeyLine("b", "2"), Blank>>
Auth == <<Header("hsin.auth"), KeyLine("c", "3")>>
Parents == <<Header("model_providers"), KeyLine("z", "9")>>
Rests ==
  {<<>>, Other, Hsin, Hsin \o Auth, Hsin \o Other \o Auth, Auth \o Other \o Hsin, Other \o Hsin \o Auth,
   Parents \o <<KeyLine("hsin", "inline")>> \o Other, <<Header("model_providers")>> \o Other \o Hsin,
   <<Blank>> \o Hsin \o <<Blank>> \o Auth \o Other, Parents}
CodexPatches ==
  [model : {NoValue, "m1"},
   entry : [keys : {<<KeyLine("a", "1")>>}, auth : {<<>>, <<KeyLine("command", "x")>>}],
   tuning : [context : BOOLEAN, window : {NoValue, "5"}, compact : {NoValue}, effort : {NoValue, "max"}]]

CodexNames == {"model", "model_provider", "window", "compact", "effort", "hsin"}

\* The calls that are checked on their own.
Calls ==
  [text |-> [t : Texts, v : {Absent, "new"}], codex |-> [top : Tops, rest : Rests, p : CodexPatches],
   files |-> UNION {[f : NativeFiles(c), t : Targets(c)] : c \in HomeClients},
   switches |-> [s : {x \in [disable : BOOLEAN, preserve : BOOLEAN] : ~(x.disable /\ x.preserve)},
                 d : {"keep", "on", "off"}, p : {"keep", "on", "off"}],
   urls |-> Urls]
Machines == {"settings", "stats", "home", "screen", "form", "mapping", "drafts", "service", "schema"}

Releases == ("c1" :> 1) @@ ("c2" :> 2)
Requests == ("c1" :> {"use", "install", "stop", "uninstall"}) @@ ("c2" :> {"use", "import"})
OneProtocol == <<1, 1>>

MappingRests == names /\ mapping = Inert /\ \A k \in Keys : mine[k] = Unset
ServiceRests == scope = "user" /\ database.schema = 0
SchemaRests == base.version = NoFile

InitOf(parts) ==
  /\ part \in parts /\ given \in (IF part \in Machines THEN {Absent} ELSE Calls[part])
  /\ SettingsInit /\ StatsInit /\ HomeInit /\ DraftsInit /\ FormInit
  /\ ScreenInit /\ (part = "screen" \/ ~foreign)
  /\ MappingInit /\ (part = "mapping" \/ MappingRests)
  /\ ServiceInit /\ (part = "service" \/ ServiceRests)
  /\ SchemaInit /\ (part = "schema" \/ SchemaRests)

Outside == <<formVars, mapVars, draftVars, serviceVars, schemaVars, part, given>>
Next ==
  \/ part = "settings" /\ SettingsNext /\ UNCHANGED <<statsVars, homeVars, screenVars, Outside>>
  \/ part = "stats" /\ StatsNext /\ UNCHANGED <<settingsVars, homeVars, screenVars, Outside>>
  \/ part = "home" /\ HomeNext /\ UNCHANGED <<settingsVars, statsVars, screenVars, Outside>>
  \/ part = "screen" /\ ScreenNext /\ UNCHANGED <<settingsVars, statsVars, homeVars, Outside>>
  \/ part = "form" /\ FormNext
     /\ UNCHANGED <<settingsVars, statsVars, homeVars, screenVars, mapVars, draftVars, serviceVars, schemaVars, part, given>>
  \/ part = "mapping" /\ MappingNext /\ UNCHANGED <<pageVars, draftVars, serviceVars, schemaVars, part, given>>
  \/ part = "drafts" /\ DraftsNext /\ UNCHANGED <<pageVars, mapVars, serviceVars, schemaVars, part, given>>
  \/ part = "service" /\ ServiceNext /\ UNCHANGED <<pageVars, mapVars, draftVars, schemaVars, part, given>>
  \/ part = "schema" /\ SchemaNext /\ UNCHANGED <<pageVars, mapVars, draftVars, serviceVars, part, given>>

ClientSpec == InitOf(Machines \cup DOMAIN Calls) /\ [][Next]_vars
TextSpec == InitOf({"text"}) /\ [][Next]_vars
HomeSpec == InitOf({"home"}) /\ [][Next]_vars
ServiceSpec == InitOf({"service"}) /\ [][Next]_vars

\* What the pages show agrees with itself and with the daemon: the client settings
\* that are sent are ones the daemon takes, a statistics page that waits for nothing
\* shows what was asked for last, and the cursor is on a provider that is listed.
PagesAgree == SettingsTypeOK /\ SentClientsAreValid /\ SettledScreenIsTrue /\ CursorIsOnARow

\* The worker does what the user chose: it cancels the logins nobody waits for, and
\* takes over only the configuration the user was asked about.
WorkerObeys == LoginsAreCancelled /\ TakeoverIsChosen

\* No key does what it did not say: a second key deletes what the first one armed, an
\* edit does not overwrite a revision the user has not seen, and a form is not lost.
KeysAreMeant == DeletesWhatWasArmed /\ NothingUnseenIsOverwritten /\ FormIsKept

\* What hsind writes into the files of the clients changes what it owns, to what it
\* should be, and nothing else; and hsind recognises what it wrote.
EditsAreExact ==
  /\ part = "text" => /\ EditIsExact(given.t, "env", "k", given.v, {"u", "mine", "z", "y"})
                      /\ RootEditIsExact(given.t, "z", given.v, {"env", "k", "old", "u", "mine"})
  /\ part = "codex" => /\ PatchIsExact(given.top \o given.rest, given.p, CodexNames)
                       /\ \A saved \in BOOLEAN :
                            OfficialIsExact(given.top \o given.rest, saved, given.p.tuning, CodexNames)
  /\ part = "files" => /\ ManagedIsRecognised(given.f, given.t) /\ WriteStaysInScope(given.f, given.t)
                       /\ OfficialIsABaseline(given.f, given.t)
  /\ part = "switches" => PreserveWins(given.s, given.d, given.p)

\* A provider that was stored can be stored again, what a form discovers is what the
\* provider will do, the address copied to the other client is settled, and what a
\* form sends in the end is what was entered.
DraftsSettle ==
  StoredStaysEditable /\ DiscoveryIsRepresentative /\ SentIsMeant /\ (part = "urls" => UrlsSettle(given))

\* However installing and upgrading are interrupted: a registered service can start, a
\* command that ends well did what it was asked for, an opened database is up to date
\* and one that was changed has a copy of what it was.
DeploymentIsWhole ==
  [](DefinitionIsRunnable /\ OpenedIsCurrent /\ ChangedHasACopy) /\ CommandsDeliver

\* No edit of a valid settings file is refused.
EditsSucceed == part = "text" => EditSucceeds(given.t, "env", "k", given.v)
=============================================================================
