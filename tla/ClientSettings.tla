--------------------------- MODULE ClientSettings ---------------------------
(* The settings pages of the terminal client: what a page holds while it is  *)
(* edited, the change it sends, and what becomes of the page when the answer *)
(* of the daemon, or of an earlier request, arrives.                         *)
(*                                                                           *)
(* Moving the cursor through a menu and pressing Enter is one step that picks*)
(* any entry; the cursor is kept where a later key depends on it, that is in *)
(* the list of presets and in the order of the clients.  Text is a member of *)
(* a small set: the daemon's value, a good one, or one that does not parse.  *)
EXTENDS Integers, Sequences, FiniteSets

CONSTANTS
  Clients,      \* the supported clients
  Hosts,        \* texts a host field can hold
  BadHosts,     \* those of them that are not an address
  MaxTokens,    \* presets are 1..MaxTokens tokens
  MaxKeys,      \* bound on the keys that change something
  MaxElsewhere  \* bound on the changes another client makes

ASSUME SettingsConstants ==
  /\ BadHosts \subseteq Hosts
  /\ IsFiniteSet(Clients) /\ Clients # {}
  /\ MaxTokens \in Nat \ {0} /\ {MaxKeys, MaxElsewhere} \subseteq Nat

VARIABLES
  current,        \* the settings page on the screen
  shown,       \* the settings of the last answer
  daemon,      \* the settings the daemon holds
  requests,    \* changes sent and not answered, oldest first
  busy,        \* State::loading
  keysLeft, elsewhereLeft

settingsVars == <<current, shown, daemon, requests, busy, keysLeft, elsewhereLeft>>

Modes == {"system", "manual", "direct"}
Displays == {"email", "name", "both"}
Kinds == {"maximum", "compact"}
Orders == {order \in [1..Cardinality(Clients) -> Clients] :
             \A client \in Clients : \E i \in DOMAIN order : order[i] = client}

(* ClientSettings::is_valid, as the daemon checks it before it stores them. *)
ValidClients(settings) ==
  /\ settings.order \in Orders
  /\ settings.visible # {}
  /\ settings.visible \subseteq Clients
  /\ \A kind \in Kinds : settings.presets[kind] \subseteq 1..MaxTokens

DefaultSettings ==
  [enabled |-> TRUE, host |-> "local", language |-> "system",
   mode |-> "system", proxyHost |-> "local", password |-> FALSE,
   customAuth |-> [client \in Clients |-> FALSE],
   display |-> [client \in Clients |-> "email"],
   order |-> CHOOSE order \in Orders : TRUE, visible |-> Clients,
   presets |-> [kind \in Kinds |-> {1, MaxTokens}]]

Root == [at |-> "root"]

SettingsInit ==
  /\ current = Root
  /\ shown = DefaultSettings
  /\ daemon = DefaultSettings
  /\ requests = <<>>
  /\ busy = FALSE
  /\ keysLeft = MaxKeys
  /\ elsewhereLeft = MaxElsewhere

SettingsKey == keysLeft > 0 /\ keysLeft' = keysLeft - 1
At(where) == current.at = where
Stay == UNCHANGED current
Send(request) ==
  /\ requests' = Append(requests, request)
  /\ busy' = TRUE
Silent == UNCHANGED <<requests, busy>>
Local == UNCHANGED <<shown, daemon, elsewhereLeft>>

(***************************************************************************)
(* The menus.                                                              *)
(***************************************************************************)
OpenFromRoot ==
  /\ At("root") /\ SettingsKey /\ Silent /\ Local
  /\ current' \in
       { [at |-> "proxy", host |-> shown.host, editing |-> FALSE],
         [at |-> "upstream", mode |-> shown.mode, host |-> shown.proxyHost,
          typed |-> FALSE, clear |-> FALSE, dirty |-> FALSE, saving |-> FALSE],
         [at |-> "clients"], [at |-> "language"] }

OpenFromClients ==
  /\ At("clients") /\ SettingsKey /\ Silent /\ Local
  /\ current' \in
       {[at |-> "client", client |-> client] : client \in Clients}
         \cup { [at |-> "visibility"],
                [at |-> "order", order |-> shown.order, row |-> 1, moving |-> FALSE] }

OpenPresets ==
  /\ At("client") /\ SettingsKey /\ Silent /\ Local
  /\ \E kind \in Kinds :
       current' = [at |-> "presets", kind |-> kind, row |-> 1, armed |-> 0,
                original |-> 0, editing |-> FALSE, back |-> current.client]

(* Esc climbs one page; the edited pages decide for themselves. *)
Climb ==
  /\ SettingsKey /\ Silent /\ Local
  /\ \/ At("clients") \/ At("language") \/ (At("proxy") /\ ~current.editing)
     \/ At("client") \/ At("visibility") \/ (At("order") /\ ~current.moving)
  /\ current' = IF current.at \in {"client", "visibility", "order"}
             THEN [at |-> "clients"] ELSE Root

(***************************************************************************)
(* The proxy page: one field is edited at a time, and only an address that *)
(* parses and differs from the shown one is sent.                          *)
(***************************************************************************)
ToggleProxy ==
  /\ At("proxy") /\ ~current.editing /\ SettingsKey /\ Stay /\ Local
  /\ Send([change |-> "enabled", to |-> ~shown.enabled])

EditHost ==
  /\ At("proxy") /\ SettingsKey /\ Silent /\ Local
  /\ IF current.editing
     THEN \E text \in Hosts : current' = [current EXCEPT !.host = text]
     ELSE current' = [current EXCEPT !.editing = TRUE]

CancelHost ==
  /\ At("proxy") /\ current.editing /\ SettingsKey /\ Silent /\ Local
  /\ current' = [current EXCEPT !.host = shown.host, !.editing = FALSE]

CommitHost ==
  /\ At("proxy") /\ current.editing /\ SettingsKey /\ Local
  /\ current.host \notin BadHosts
  /\ current' = [current EXCEPT !.editing = FALSE]
  /\ IF current.host # shown.host
     THEN Send([change |-> "host", to |-> current.host]) ELSE Silent

(***************************************************************************)
(* The upstream proxy page is edited as a whole.  Leaving it with an edit  *)
(* sends the edit and keeps the page, deaf, until an answer arrives.       *)
(***************************************************************************)
EditUpstream ==
  /\ At("upstream") /\ ~current.saving /\ SettingsKey /\ Silent /\ Local
  /\ \/ \E mode \in Modes : current' = [current EXCEPT !.mode = mode, !.dirty = TRUE]
     \/ /\ current.mode = "manual"
        /\ \/ \E text \in Hosts : current' = [current EXCEPT !.host = text, !.dirty = TRUE]
           \/ current' = [current EXCEPT !.typed = TRUE, !.clear = FALSE, !.dirty = TRUE]
           \/ current' = [current EXCEPT !.typed = FALSE, !.clear = TRUE, !.dirty = TRUE]

LeaveUpstream ==
  /\ At("upstream") /\ ~current.saving /\ ~current.dirty /\ SettingsKey /\ Silent /\ Local
  /\ current' = Root

(* prepare_upstream_proxy_effect: the host counts only in manual mode; the *)
(* password is cleared, replaced or preserved.                             *)
UpstreamIsValid == current.mode = "manual" => current.host \notin BadHosts
PasswordUpdate ==
  IF current.clear THEN "clear" ELSE IF current.typed THEN "replace" ELSE "preserve"

CommitUpstream ==
  /\ At("upstream") /\ ~current.saving /\ current.dirty /\ SettingsKey /\ Local
  /\ IF UpstreamIsValid
     THEN /\ current' = [current EXCEPT !.dirty = FALSE, !.saving = TRUE]
          /\ Send([change |-> "upstream", mode |-> current.mode, host |-> current.host,
                   password |-> PasswordUpdate])
     ELSE Stay /\ Silent

(***************************************************************************)
(* Language, client options, visibility and order.                         *)
(***************************************************************************)
PickLanguage ==
  /\ At("language") /\ SettingsKey /\ Local
  /\ current' = Root
  /\ \E language \in {"system", "en", "zh"} :
       Send([change |-> "language", to |-> language])

ToggleClientOption ==
  /\ At("client") /\ SettingsKey /\ Stay /\ Local
  /\ \/ Send([change |-> "auth", client |-> current.client,
              to |-> ~shown.customAuth[current.client]])
     \/ \E display \in Displays \ {shown.display[current.client]} :
          Send([change |-> "display", client |-> current.client, to |-> display])

(* What the three list pages send is the whole client settings, built from *)
(* the settings on the screen.                                             *)
ClientsOf(settings) ==
  [order |-> settings.order, visible |-> settings.visible, presets |-> settings.presets]
SendClients(clients) == Send([change |-> "clients", to |-> clients])

ToggleVisible ==
  /\ At("visibility") /\ SettingsKey /\ Stay /\ Local
  /\ \E client \in Clients :
       IF client \notin shown.visible
       THEN SendClients([ClientsOf(shown) EXCEPT !.visible = @ \cup {client}])
       ELSE IF Cardinality(shown.visible) = 1
            THEN Silent
            ELSE SendClients([ClientsOf(shown) EXCEPT !.visible = @ \ {client}])

Grab ==
  /\ At("order") /\ ~current.moving /\ SettingsKey /\ Silent /\ Local
  /\ \E row \in DOMAIN current.order : current' = [current EXCEPT !.row = row, !.moving = TRUE]

MoveClient ==
  /\ At("order") /\ current.moving /\ SettingsKey /\ Silent /\ Local
  /\ \E row \in DOMAIN current.order \ {current.row} :
       /\ row - current.row \in {-1, 1}
       /\ current' = [current EXCEPT !.row = row,
                     !.order = [@ EXCEPT ![row] = current.order[current.row],
                                         ![current.row] = current.order[row]]]

DropClient ==
  /\ At("order") /\ current.moving /\ SettingsKey /\ Local
  /\ current' = [current EXCEPT !.moving = FALSE]
  /\ IF current.order # shown.order
     THEN SendClients([ClientsOf(shown) EXCEPT !.order = current.order]) ELSE Silent

PutBack ==
  /\ At("order") /\ current.moving /\ SettingsKey /\ Silent /\ Local
  /\ current' = [current EXCEPT !.moving = FALSE, !.order = shown.order]

(***************************************************************************)
(* Context presets: a sorted list.  Every key is ignored while a request   *)
(* is out.  The second `d` deletes, if it names the preset that the first  *)
(* one armed and the confirmation has not lapsed.                          *)
(***************************************************************************)
PresetsHere == shown.presets[current.kind]
RowsUpTo(tokens) == Cardinality({t \in PresetsHere : t <= tokens})
RowIsThere == \E t \in PresetsHere : RowsUpTo(t) = current.row
PresetHere == CHOOSE t \in PresetsHere : RowsUpTo(t) = current.row
PresetKey == At("presets") /\ ~busy /\ SettingsKey /\ Local

MovePreset ==
  /\ PresetKey /\ Silent /\ ~current.editing
  /\ \E row \in 1..(Cardinality(PresetsHere) + 1) :
       /\ row <= Cardinality(PresetsHere) \/ row = 1
       /\ current' = [current EXCEPT !.row = row, !.armed = 0]

EditPreset ==
  /\ PresetKey /\ Silent /\ ~current.editing
  /\ \/ current' = [current EXCEPT !.editing = TRUE, !.original = 0, !.armed = 0]
     \/ RowIsThere
        /\ current' = [current EXCEPT !.editing = TRUE, !.original = PresetHere,
                                !.armed = 0]

CommitPreset ==
  /\ PresetKey /\ current.editing
  /\ \E tokens \in 1..MaxTokens :
       IF tokens = current.original
       THEN current' = [current EXCEPT !.editing = FALSE] /\ Silent
       ELSE IF tokens \in PresetsHere
       THEN Stay /\ Silent
       ELSE LET presets == (PresetsHere \ {current.original}) \cup {tokens} IN
              /\ current' = [current EXCEPT !.editing = FALSE,
                            !.row = Cardinality({t \in presets : t <= tokens})]
              /\ SendClients([ClientsOf(shown) EXCEPT !.presets[current.kind] = presets])

DeletePreset ==
  /\ PresetKey /\ ~current.editing /\ RowIsThere
  /\ IF current.armed = PresetHere
     THEN LET presets == PresetsHere \ {PresetHere} IN
            /\ current' = [current EXCEPT !.armed = 0,
                          !.row = IF @ > Cardinality(presets) /\ @ > 1 THEN @ - 1 ELSE @]
            /\ SendClients([ClientsOf(shown) EXCEPT !.presets[current.kind] = presets])
     ELSE current' = [current EXCEPT !.armed = PresetHere] /\ Silent

LeavePresets ==
  /\ PresetKey /\ Silent
  /\ current' = IF current.editing THEN [current EXCEPT !.editing = FALSE]
             ELSE [at |-> "client", client |-> current.back]

(* Action::Tick: an armed deletion lapses. *)
Lapse ==
  /\ At("presets") /\ current.armed # 0
  /\ current' = [current EXCEPT !.armed = 0]
  /\ UNCHANGED <<shown, daemon, requests, busy, keysLeft, elsewhereLeft>>

(***************************************************************************)
(* The daemon answers the oldest request.  Settings::set stores the part   *)
(* that the request names and leaves the rest.                             *)
(***************************************************************************)
Stored(settings, request) ==
  CASE request.change = "enabled" -> [settings EXCEPT !.enabled = request.to]
    [] request.change = "host" -> [settings EXCEPT !.host = request.to]
    [] request.change = "language" -> [settings EXCEPT !.language = request.to]
    [] request.change = "auth" -> [settings EXCEPT !.customAuth[request.client] = request.to]
    [] request.change = "display" -> [settings EXCEPT !.display[request.client] = request.to]
    [] request.change = "upstream" ->
         [settings EXCEPT !.mode = request.mode, !.proxyHost = request.host,
            !.password = CASE request.password = "clear" -> FALSE
                           [] request.password = "replace" -> TRUE
                           [] OTHER -> @]
    [] request.change = "clients" ->
         [settings EXCEPT !.order = request.to.order, !.visible = request.to.visible,
                          !.presets = request.to.presets]

(* apply_loaded: what the pages keep of their own when settings arrive. *)
PageAfter(settings) ==
  CASE At("upstream") -> IF current.saving THEN Root ELSE current
    [] At("proxy") -> IF current.editing THEN current ELSE [current EXCEPT !.host = settings.host]
    [] At("order") -> IF current.moving THEN current ELSE [current EXCEPT !.order = settings.order]
    [] OTHER -> current

Loaded(settings) ==
  /\ shown' = settings
  /\ current' = PageAfter(settings)
  /\ busy' = FALSE

Answer ==
  /\ requests # <<>>
  /\ requests' = Tail(requests)
  /\ UNCHANGED <<keysLeft, elsewhereLeft>>
  /\ LET request == Head(requests)
         stored == Stored(daemon, request) IN
       IF request.change = "clients" /\ ~ValidClients(request.to)
       THEN daemon' = daemon /\ Loaded(daemon)
       ELSE daemon' = stored /\ Loaded(stored)

(* Action::ConfigurationFailed, then Action::Failed: the change was refused *)
(* and the page that waits for it can be edited again.                      *)
Fail ==
  /\ requests # <<>>
  /\ requests' = Tail(requests)
  /\ current' = IF At("upstream") THEN [current EXCEPT !.saving = FALSE, !.dirty = TRUE] ELSE current
  /\ busy' = FALSE
  /\ UNCHANGED <<shown, daemon, keysLeft, elsewhereLeft>>

(* A refresh the user asked for before the settings were opened, or another *)
(* client's change, which this one sees at its next answer.                 *)
ChangedElsewhere ==
  /\ elsewhereLeft > 0
  /\ elsewhereLeft' = elsewhereLeft - 1
  /\ \/ \E tokens \in 1..MaxTokens, kind \in Kinds :
          daemon' = [daemon EXCEPT !.presets[kind] =
                       IF tokens \in @ THEN @ \ {tokens} ELSE @ \cup {tokens}]
     \/ \E visible \in (SUBSET Clients) \ {{}} : daemon' = [daemon EXCEPT !.visible = visible]
  /\ UNCHANGED <<current, shown, requests, busy, keysLeft>>

SettingsNext ==
  \/ OpenFromRoot \/ OpenFromClients \/ OpenPresets \/ Climb
  \/ ToggleProxy \/ EditHost \/ CancelHost \/ CommitHost
  \/ EditUpstream \/ LeaveUpstream \/ CommitUpstream
  \/ PickLanguage \/ ToggleClientOption \/ ToggleVisible
  \/ Grab \/ MoveClient \/ DropClient \/ PutBack
  \/ MovePreset \/ EditPreset \/ CommitPreset \/ DeletePreset \/ LeavePresets \/ Lapse
  \/ Answer \/ Fail \/ ChangedElsewhere

(***************************************************************************)
(* Properties.                                                             *)
(***************************************************************************)
SettingsTypeOK ==
  /\ ValidClients(shown) /\ ValidClients(daemon)
  /\ busy \in BOOLEAN
  /\ keysLeft \in 0..MaxKeys /\ elsewhereLeft \in 0..MaxElsewhere

(* However stale the settings on the screen are when a list page builds its *)
(* request, what is sent is a value the daemon accepts: no client order is   *)
(* torn and the last client is never hidden.                                 *)
SentClientsAreValid ==
  \A i \in DOMAIN requests :
    requests[i].change = "clients" => ValidClients(requests[i].to)

(* A deletion takes exactly the preset that was armed, even if the list       *)
(* changed between the two keys.                                              *)
DeletesWhatWasArmed ==
  [][ (/\ At("presets") /\ current.at' = "presets" /\ current.armed # 0
       /\ Len(requests') > Len(requests))
      => shown.presets[current.kind] \ requests'[Len(requests')].to.presets[current.kind] = {current.armed}
    ]_settingsVars
=============================================================================
