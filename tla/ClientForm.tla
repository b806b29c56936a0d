----------------------------- MODULE ClientForm -----------------------------
(***************************************************************************)
(* The provider form of the terminal client and the pages it goes through: *)
(* the fields, the models of a Codex provider, the models of the image     *)
(* tool, the model mapping of Claude and the list it is filled from, until *)
(* the daemon is asked to save.  A page moves its form into the next one   *)
(* and into the request, leaving an empty one behind; a refused request    *)
(* brings it back.  There is one form here; several of them, and the       *)
(* takeover dialog, are in ClientScreen.  Searching a list only narrows    *)
(* what can be chosen, and the focused row is any row of the form.         *)
(***************************************************************************)
EXTENDS ProviderDrafts

CONSTANTS
  OpenedForms,  \* forms: new ones and those of providers
  Imported,    \* Codex providers whose image models can be chosen directly
  ModelLists,  \* what a provider answers when it is asked for its models
  ImageRank,   \* the known image models, the default one first
  PresetsMax,  \* presets of a context limit are 1..n, n at most this
  FormKeys     \* bound on the keys

NoSheet == [at |-> "list"]
NoRequest == [do |-> "none"]
Panicked == [at |-> "panicked"]

VARIABLES
  sheet,    \* InputMode, with the form it owns
  leaf,     \* State::config_origin
  request,  \* what the daemon is asked, with the form that was taken
  presets,  \* how many presets the client settings have
  intent,   \* ghost: what the user entered last
  dropped,  \* ghost: moving the caret in the password box took a clearing back
  formKeys
formVars == <<sheet, leaf, request, presets, intent, dropped, formKeys>>

PrimaryCodex(form) == form.client = "codex" /\ form.scope = "primary"
Manual(form) == form.mode = "manual"

(* The rows of the mapping dialog when there is no mapping.                *)
NoRows == [enabled |-> FALSE, default |-> Unfilled, long |-> FALSE, fable |-> Unfilled,
           opus |-> Unfilled, sonnet |-> Unfilled, haiku |-> Unfilled]

(* form_auth_field and its neighbours: the rows that are shown.            *)
FormRows(form) ==
  {"url", "secret", "name", "mode", "description", "scheme"}
  \cup (IF PrimaryCodex(form) THEN {"codexName", "context", "effort", "image"} ELSE {})
  \cup (IF PrimaryCodex(form) /\ form.context THEN {"limit"} ELSE {})
  \cup (IF Manual(form) THEN {"username", "password"} ELSE {})

FormKey == formKeys > 0 /\ formKeys' = formKeys - 1
AtPage(page) == FormKey /\ sheet.at = page
PageOnly == UNCHANGED <<leaf, request, presets, dropped>>
Means(part, what) == intent' = [intent EXCEPT ![part] = what]
AsBefore == UNCHANGED intent

OnForm(row) ==
  /\ AtPage("form") /\ ~sheet.busy /\ row \in FormRows(sheet.form)
  /\ UNCHANGED <<leaf, request, presets>>
FormBecomes(form) == sheet' = [sheet EXCEPT !.form = form]
Form(form) == [at |-> "form", form |-> form, busy |-> FALSE]

(* A key that is typed, or else the one of the provider that was copied.    *)
Secret(form) == IF form.secret = "none" /\ form.copied THEN "copied" ELSE form.secret
Intended(form) ==
  [secret |-> Secret(form), password |-> "keep", had |-> form.configured, limit |-> form.limit,
   model |-> "preserve", tool |-> form.image.enabled, image |-> ToSet(form.image.models),
   mapping |-> IF form.mapping = Unfilled THEN NoRows ELSE form.mapping]

ShowForm ==
  /\ AtPage("list") /\ request = NoRequest /\ PageOnly
  /\ \E form \in OpenedForms : sheet' = Form(form) /\ intent' = Intended(form)
LeaveForm ==
  /\ AtPage(sheet.at) /\ PageOnly /\ AsBefore
  /\ sheet.at \in {"models", "images", "mapping"} \/ (sheet.at = "form" /\ ~sheet.busy)
  /\ sheet' = NoSheet

TypeSecret ==
  /\ OnForm("secret") /\ UNCHANGED dropped
  /\ LET form == [sheet.form EXCEPT !.secret = IF @ = "none" THEN "typed" ELSE "none"]
     IN FormBecomes(form) /\ Means("secret", Secret(form))

EditRows ==
  /\ UNCHANGED dropped /\ AsBefore
  /\ \/ /\ OnForm("mode")
        /\ \E mode \in {"inherit", "direct", "manual"} : FormBecomes([sheet.form EXCEPT !.mode = mode])
     \/ /\ OnForm("username")
        /\ \E name \in {"", "m"} : FormBecomes([sheet.form EXCEPT !.username = name])
     \/ OnForm("context") /\ FormBecomes([sheet.form EXCEPT !.context = ~@])

TypeLimit ==
  /\ OnForm("limit") /\ UNCHANGED dropped
  /\ FormBecomes([sheet.form EXCEPT !.limit = 0]) /\ Means("limit", 0)

ToggleImage ==
  /\ OnForm("image") /\ UNCHANGED dropped
  /\ FormBecomes([sheet.form EXCEPT !.image.enabled = ~@])
  /\ Means("tool", ~sheet.form.image.enabled)

(* The password box: Ctrl+U clears what is stored; any other key, one that  *)
(* only moves the caret too, takes that back.                               *)
EditPassword ==
  /\ OnForm("password")
  /\ \/ /\ FormBecomes([sheet.form EXCEPT !.password = TRUE, !.clear = FALSE])
        /\ Means("password", "new") /\ UNCHANGED dropped
     \/ /\ FormBecomes([sheet.form EXCEPT !.password = FALSE, !.clear = TRUE])
        /\ Means("password", "clear") /\ UNCHANGED dropped
     \/ /\ FormBecomes([sheet.form EXCEPT !.clear = FALSE])
        /\ AsBefore /\ dropped' = (dropped \/ sheet.form.clear)

(* Tab on a limit: none, or a preset.  The cursor stays where the list was  *)
(* longer if the settings are reloaded meanwhile.                           *)
ListPresets ==
  /\ OnForm("limit") /\ UNCHANGED dropped /\ AsBefore
  /\ sheet' = [at |-> "presets", form |-> sheet.form, cursors |-> presets]
ChoosePreset ==
  /\ AtPage("presets") /\ PageOnly
  /\ \E n \in 0..sheet.cursors :
       LET limit == IF n = 0 THEN Unfilled ELSE n
       IN IF n > presets THEN sheet' = Panicked /\ AsBefore
          ELSE sheet' = Form([sheet.form EXCEPT !.limit = limit]) /\ Means("limit", limit)
ClosePresets == AtPage("presets") /\ PageOnly /\ sheet' = Form(sheet.form) /\ AsBefore

(***************************************************************************)
(* Enter in the form.                                                      *)
(***************************************************************************)
WillHavePassword(form) ==
  IF Manual(form) THEN ~form.clear /\ (form.password \/ (form.existing /\ form.configured))
  ELSE form.configured
ProxyOf(form) ==
  [mode |-> form.mode, host |-> "h", port |-> 1, username |-> form.username,
   password |-> WillHavePassword(form)]

(* take_form_submission: what is wrong with the form, or a submission that  *)
(* takes the secrets out of it.  Limits are read even if they are hidden.   *)
FormFits(form) ==
  /\ PrimaryCodex(form) => form.limit # 0
  /\ ProxyFits(ProxyOf(form))
  /\ form.existing \/ Secret(form) # "none"
Submission(form) ==
  [client |-> form.client, scope |-> form.scope, existing |-> form.existing, secret |-> Secret(form),
   context |-> form.context, limit |-> form.limit, mode |-> form.mode, username |-> form.username,
   configured |-> WillHavePassword(form), password |-> form.password, clear |-> form.clear,
   image |-> form.image, model |-> "preserve", mapping |-> Unfilled, skip |-> FALSE]
NoImages == [enabled |-> FALSE, models |-> <<>>, preferred |-> Unfilled]
Emptied(s) == [s EXCEPT !.secret = "none", !.password = FALSE, !.model = "preserve",
                        !.mapping = Unfilled, !.image = NoImages]
Taken(form) == [form EXCEPT !.secret = "none", !.copied = FALSE, !.password = FALSE]

MappingPage(s, rows) == [at |-> "mapping", s |-> s, rows |-> rows]

SubmitFields ==
  /\ AtPage("form") /\ ~sheet.busy /\ FormFits(sheet.form)
  /\ UNCHANGED <<leaf, presets, dropped>> /\ AsBefore
  /\ IF sheet.form.client = "codex"
     THEN /\ request' = [do |-> "discover", s |-> Submission(sheet.form)]
          /\ sheet' = [sheet EXCEPT !.form = Taken(@), !.busy = TRUE]
     ELSE /\ UNCHANGED request
          /\ sheet' = MappingPage(Submission(sheet.form),
                                 IF sheet.form.mapping = Unfilled THEN NoRows ELSE sheet.form.mapping)

(***************************************************************************)
(* The answer to a discovery, with models or without: the model page, or   *)
(* the page of the image models, the known ones first and the saved ones   *)
(* with them; without any saved, the first known one is checked.           *)
(***************************************************************************)
Rank(model) ==
  IF Contains(ImageRank, model) THEN CHOOSE i \in DOMAIN ImageRank : ImageRank[i] = model
  ELSE Len(ImageRank) + 1
Ranked(list) == FlattenSeq([r \in 1..(Len(ImageRank) + 1) |-> SelectSeq(list, LAMBDA m : Rank(m) = r)])
Suggested(list) == IF list # <<>> /\ Contains(ImageRank, list[1]) THEN {list[1]} ELSE {}
ImagePage(s, answer) ==
  LET saved == s.image.models
      list == Ranked(answer) \o SelectSeq(saved, LAMBDA m : ~Contains(answer, m))
      checked == IF saved # <<>> THEN ToSet(saved) ELSE Suggested(list)
  IN [at |-> "images", s |-> s, list |-> list, checked |-> checked,
      preferred |-> IF saved # <<>> \/ checked = {} THEN s.image.preferred ELSE list[1]]
ModelPage(s, answer) == [at |-> "models", s |-> s, list |-> answer]

Opens(page) ==
  /\ sheet' = page
  /\ IF page.at = "images" THEN Means("image", page.checked) ELSE AsBefore

Discovered ==
  /\ request.do = "discover"
  /\ \E answer \in ModelLists :
       Opens(IF request.s.scope = "image" \/ request.s.skip THEN ImagePage(request.s, answer)
             ELSE ModelPage(request.s, answer))
  /\ request' = NoRequest /\ UNCHANGED <<leaf, presets, dropped, formKeys>>

(* The page is kept, without what was moved into the request.              *)
Save(s) ==
  /\ request' = [do |-> "save", s |-> s]
  /\ leaf' = [sheet EXCEPT !.s = Emptied(s)]
  /\ sheet' = NoSheet /\ UNCHANGED <<presets, dropped>>

(* No model, a listed one or one that is typed.                            *)
ChooseModel ==
  /\ AtPage("models")
  /\ \E model \in ToSet(sheet.list) \cup {"clear", "typed"} :
       LET s == [sheet.s EXCEPT !.model = model]
           next == ImagePage(s, sheet.list)
       IN /\ intent' = [intent EXCEPT !.model = model, !.image = IF s.image.enabled THEN next.checked ELSE @]
          /\ IF s.image.enabled THEN sheet' = next /\ PageOnly ELSE Save(s)

OnImages == AtPage("images") /\ PageOnly
CheckImage ==
  /\ OnImages
  /\ \E model \in ToSet(sheet.list) :
       LET checked == IF model \in sheet.checked THEN sheet.checked \ {model} ELSE sheet.checked \cup {model}
       IN /\ sheet' = [sheet EXCEPT !.checked = checked,
                                    !.preferred = IF @ = model /\ model \notin checked THEN Unfilled ELSE @]
          /\ Means("image", checked)
PreferImage ==
  /\ OnImages /\ AsBefore
  /\ \E model \in sheet.checked : sheet' = [sheet EXCEPT !.preferred = model]
TypeImage ==
  /\ OnImages
  /\ sheet' = [sheet EXCEPT !.list = IF Contains(@, "typed") THEN @ ELSE Append(@, "typed"),
                            !.checked = @ \cup {"typed"}, !.preferred = IF @ = Unfilled THEN "typed" ELSE @]
  /\ Means("image", sheet.checked \cup {"typed"})
SaveImages ==
  /\ AtPage("images") /\ sheet.checked # {} /\ AsBefore
  /\ LET models == SelectSeq(sheet.list, LAMBDA m : m \in sheet.checked)
         preferred == IF sheet.preferred \in sheet.checked THEN sheet.preferred ELSE models[1]
     IN Save([sheet.s EXCEPT !.image = [enabled |-> TRUE, models |-> models, preferred |-> preferred]])

(***************************************************************************)
(* The mapping of Claude.                                                  *)
(***************************************************************************)
TextRows == {"default", "opus"}
RowsBecome(rows) == sheet' = [sheet EXCEPT !.rows = rows] /\ Means("mapping", rows)
OnMapping == AtPage("mapping") /\ PageOnly

ToggleMapping == OnMapping /\ RowsBecome([sheet.rows EXCEPT !.enabled = ~@])
(* Right on an empty row of a tier fills in its default, other keys type.  *)
TypeRow ==
  /\ OnMapping /\ sheet.rows.enabled
  /\ \E row \in TextRows, text \in {Unfilled, " ", "m"} : RowsBecome([sheet.rows EXCEPT ![row] = text])
QuickFill ==
  /\ OnMapping /\ sheet.rows.enabled /\ sheet.rows.opus \in {Unfilled, " "}
  /\ RowsBecome([sheet.rows EXCEPT !.opus = "tier"])
LongContext == OnMapping /\ sheet.rows.enabled /\ RowsBecome([sheet.rows EXCEPT !.long = ~@])

(* Tab on a row: the dialog with the models is deaf until they are there.  *)
ListRow ==
  /\ AtPage("mapping") /\ sheet.rows.enabled /\ AsBefore /\ UNCHANGED <<leaf, presets, dropped>>
  /\ \E row \in TextRows :
       sheet' = [at |-> "listing", s |-> sheet.s, rows |-> sheet.rows, row |-> row,
                 list |-> <<>>, busy |-> TRUE]
  /\ request' = [do |-> "list", s |-> sheet.s]
Listed ==
  /\ request.do = "list" /\ request' = NoRequest
  /\ \E answer \in ModelLists : sheet' = [sheet EXCEPT !.list = answer, !.busy = FALSE]
  /\ UNCHANGED <<leaf, presets, intent, dropped, formKeys>>
OnListing == AtPage("listing") /\ ~sheet.busy /\ PageOnly
PickRow ==
  /\ OnListing
  /\ \E model \in ToSet(sheet.list) \cup {"typed"} :
       LET rows == [sheet.rows EXCEPT ![sheet.row] = model]
       IN sheet' = MappingPage(sheet.s, rows) /\ Means("mapping", rows)
CloseListing == OnListing /\ AsBefore /\ sheet' = MappingPage(sheet.s, sheet.rows)

(* ModelMappingForm::mapping: blank rows are none, and an inert mapping is *)
(* not kept, as that of a provider that never had one.                     *)
Row(text) == IF text = Unfilled \/ Trim(text) = "" THEN Unfilled ELSE Trim(text)
MappingSent(rows) ==
  LET mapping == [rows EXCEPT !.default = Row(@), !.opus = Row(@),
                              !.long = @ /\ Row(rows.default) # Unfilled]
  IN IF MappingIsInert(mapping) THEN Unfilled ELSE mapping
SaveMapping == AtPage("mapping") /\ AsBefore /\ Save([sheet.s EXCEPT !.mapping = MappingSent(sheet.rows)])

(***************************************************************************)
(* The end of a request, and what else arrives.                            *)
(***************************************************************************)
SaveDone ==
  /\ request.do = "save" /\ request' = NoRequest /\ leaf' = NoSheet
  /\ UNCHANGED <<sheet, presets, intent, dropped, formKeys>>

(* form_from_submission: when the page is gone the form itself comes back. *)
FormOf(s) ==
  [client |-> s.client, scope |-> s.scope, existing |-> s.existing, secret |-> s.secret, copied |-> FALSE,
   context |-> s.context, limit |-> s.limit, mode |-> s.mode, username |-> s.username,
   configured |-> s.configured, password |-> s.password, clear |-> s.clear, image |-> s.image,
   mapping |-> s.mapping]

(* restore_configuration_operation                                         *)
Refused ==
  /\ request.do = "save" /\ FormKey
  /\ request' = NoRequest /\ leaf' = NoSheet
  /\ sheet' = IF leaf # NoSheet THEN [leaf EXCEPT !.s = request.s]
              ELSE IF request.s.skip THEN NoSheet ELSE Form(FormOf(request.s))
  /\ UNCHANGED <<presets, intent, dropped>>

(* An earlier request reloads the settings and forgets the page.           *)
Reloaded ==
  /\ FormKey /\ leaf' = NoSheet
  /\ \E n \in 0..PresetsMax : presets' = n
  /\ UNCHANGED <<sheet, request, intent, dropped>>

(* image_edit_submission: the image models of a provider, without its form; *)
(* switching them off needs no page.                                        *)
ImageEdit(form, enabled) == [Submission(form) EXCEPT !.image.enabled = enabled, !.skip = TRUE]
EditImages ==
  /\ AtPage("list") /\ request = NoRequest /\ UNCHANGED <<sheet, leaf, presets, dropped>>
  /\ \E form \in Imported, enabled \in BOOLEAN :
       /\ form.image.enabled # enabled
       /\ request' = [do |-> IF enabled THEN "discover" ELSE "save", s |-> ImageEdit(form, enabled)]
       /\ intent' = [Intended(form) EXCEPT !.tool = enabled]

FormInit ==
  /\ sheet = NoSheet /\ leaf = NoSheet /\ request = NoRequest
  /\ presets = PresetsMax /\ dropped = FALSE /\ formKeys = FormKeys
  /\ intent = [had |-> FALSE]
FormNext ==
  \/ ShowForm \/ LeaveForm \/ EditImages
  \/ TypeSecret \/ EditRows \/ TypeLimit \/ ToggleImage \/ EditPassword
  \/ ListPresets \/ ChoosePreset \/ ClosePresets
  \/ SubmitFields \/ Discovered \/ ChooseModel \/ CheckImage \/ PreferImage \/ TypeImage \/ SaveImages
  \/ ToggleMapping \/ TypeRow \/ QuickFill \/ LongContext \/ ListRow \/ Listed \/ PickRow \/ CloseListing
  \/ SaveMapping \/ SaveDone \/ Refused \/ Reloaded
-----------------------------------------------------------------------------
\* proxy_password_input: nothing is there to preserve for a new provider.
PasswordInput(s) ==
  CASE s.clear -> "clear" [] ~s.clear /\ s.password -> "new"
    [] ~s.clear /\ ~s.password -> IF s.existing THEN "preserve" ELSE "clear"

\* Whatever pages it went through, and however often it was refused and brought back,
\* what is sent is what the user entered: the key, the password of the proxy, the
\* limit, the model, the image models and the mapping; nothing moved out of a page is
\* missing, and nothing hsind would refuse in these fields is sent.
SentIsMeant ==
  request.do = "save" =>
    LET s == request.s
        given == PasswordInput(s)
    IN /\ s.secret = intent.secret /\ s.limit = intent.limit
       /\ s.model = intent.model \/ s.scope = "image" \/ s.client = "claude"
       /\ \/ dropped \/ given = intent.password
          \/ given \in {"clear", "preserve"} /\ intent.password = "keep"
       /\ s.image.enabled = intent.tool
       /\ s.image.enabled => ToSet(s.image.models) = intent.image
       /\ s.client = "claude" => s.mapping = MappingSent(intent.mapping) /\ MappingFits("claude", s.mapping)
       /\ ImageFits(s.image) /\ s.limit # 0
       /\ ProxyFits([ProxyOf(s) EXCEPT !.password = PasswordAfter(given, intent.had)])
=============================================================================
