----------------------------- MODULE ClientHome -----------------------------
(* The home screen of the terminal client: sections, the list of providers   *)
(* and its cursor, the search filter, the armed deletion, and the requests   *)
(* these keys send, while answers and other clients change the list under    *)
(* the cursor.  A query is the set of the providers it matches.              *)
EXTENDS Integers, Sequences, FiniteSets

CONSTANTS
  Catalogue,     \* the providers there can be, in the order of the list
  KindOf,        \* codex, claude, image, both, official or saved
  Queries,       \* filters: sets of providers
  Nobody,        \* no provider
  HomeKeys,      \* bound on the keys
  HomeElsewhere  \* bound on the changes of another client

Ids == {Catalogue[i] : i \in DOMAIN Catalogue}
HomeClients == {"codex", "claude"}
Everything == Ids

ASSUME HomeConstants ==
  /\ Catalogue \in Seq(Ids)
  /\ KindOf \in [Ids -> {"codex", "claude", "image", "both", "official", "saved"}]
  /\ Queries \subseteq SUBSET Ids
  /\ Nobody \notin Ids
  /\ {HomeKeys, HomeElsewhere} \subseteq Nat

VARIABLES
  list,      \* State::providers: provider -> revision, of those there are
  active,    \* the active provider of each section
  visible,   \* the visible clients
  section,   \* "codex", "claude" or "image"
  row,       \* State::selected, from 1
  parked,    \* the row left behind in each section, 0 if none
  search,    \* the committed filter
  input,     \* the input mode
  clipboard, \* the copied provider
  store,     \* what the daemon holds: [list, active, visible]
  sent,      \* requests not answered, oldest first
  strayed,   \* ghost: a model list opened over the search that was being typed, and the
             \* cursor was not placed since
  homeKeys, homeElsewhere

homeVars == <<list, active, visible, section, row, parked, search, input, clipboard,
              store, sent, strayed, homeKeys, homeElsewhere>>

Sections == {"codex", "image", "claude"}
ClientOf(where) == IF where = "claude" THEN "claude" ELSE "codex"
Browsing == [mode |-> "normal"]

(* saved_official_account, and the providers a section lists.              *)
Saved(id) == id # Nobody /\ KindOf[id] = "saved"
Belongs(id, where) ==
  CASE where = "image" -> KindOf[id] \in {"image", "both"}
    [] where = "claude" -> KindOf[id] = "claude"
    [] where = "codex" -> KindOf[id] \in {"codex", "both", "official", "saved"}

(* active_query: the draft while it is typed, else the committed filter.   *)
ActiveQuery == IF input.mode = "search" THEN input.query ELSE search

(* visible_providers, as the places in the catalogue that are listed; the    *)
(* row of a place counts those listed before it.                             *)
Matching(there, where, query) ==
  {i \in DOMAIN Catalogue : /\ Catalogue[i] \in DOMAIN there \cap query
                            /\ Belongs(Catalogue[i], where)}
RowAt(rows, i) == Cardinality({j \in rows : j <= i})
Rows == Matching(list, section, ActiveQuery)
Selected ==
  IF \E i \in Rows : RowAt(Rows, i) = row
  THEN Catalogue[CHOOSE i \in Rows : RowAt(Rows, i) = row] ELSE Nobody

(* The row of a provider in a list, 0 if it is not there.                  *)
RowOf(rows, id) ==
  IF \E i \in rows : Catalogue[i] = id
  THEN RowAt(rows, CHOOSE i \in rows : Catalogue[i] = id) ELSE 0

\* Mutant: the cursor stays where it was when the list gets shorter.
Clamped_Kept(r, rows) == r

Clamped(r, rows) ==
  IF rows = {} THEN 1 ELSE IF r > Cardinality(rows) THEN Cardinality(rows) ELSE r

(* visible_sections: the image section follows Codex.                      *)
Ring ==
  (IF "codex" \in visible THEN <<"codex", "image">> ELSE <<>>)
    \o (IF "claude" \in visible THEN <<"claude">> ELSE <<>>)

HomeInit ==
  /\ store \in [list : {[id \in Ids |-> 1]}, visible : {HomeClients},
                active : {[s \in Sections |-> Nobody]}]
  /\ list = store.list /\ active = store.active /\ visible = store.visible
  /\ section = "codex" /\ row = 1
  /\ parked = [s \in Sections |-> 0]
  /\ search = Everything /\ input = Browsing /\ clipboard = Nobody
  /\ sent = <<>> /\ strayed = FALSE
  /\ homeKeys = HomeKeys /\ homeElsewhere = HomeElsewhere

HomeKey == homeKeys > 0 /\ homeKeys' = homeKeys - 1
In(mode) == input.mode = mode
Shown == UNCHANGED <<list, active, visible, store, homeElsewhere>>
Place == UNCHANGED <<section, parked>>
Queue(request) == sent' = Append(sent, request)
NothingSent == UNCHANGED sent
Placed == strayed' = FALSE

(***************************************************************************)
(* Moving about.                                                           *)
(***************************************************************************)
(* Up, Down, the wheel, or a click on a row, which replays them. *)
MoveRow ==
  /\ In("normal") /\ HomeKey
  /\ \E i \in Rows : row' = RowAt(Rows, i)
  /\ Placed /\ Shown /\ Place /\ NothingSent /\ UNCHANGED <<search, input, clipboard>>

(* switch_section: the row left behind is parked; a section not visited yet *)
(* opens on its active provider.                                            *)
SwitchSection ==
  /\ In("normal") /\ HomeKey
  /\ \E i \in DOMAIN Ring, step \in {1, -1} :
       /\ \/ Ring[i] = section
          \/ i = 1 /\ \A j \in DOMAIN Ring : Ring[j] # section
       /\ section' = Ring[((i - 1 + step) % Len(Ring)) + 1]
  /\ section' # section
  /\ parked' = [parked EXCEPT ![section] = row]
  /\ LET rows == Matching(list, section', search)
         there == RowOf(rows, active[section']) IN
       row' = Clamped(IF parked[section'] # 0 THEN parked[section']
                      ELSE IF section' # "image" /\ there # 0 THEN there ELSE 1, rows)
  /\ Placed /\ Shown /\ NothingSent /\ UNCHANGED <<search, input, clipboard>>

OpenSearch ==
  /\ In("normal") /\ HomeKey
  /\ input' = [mode |-> "search", query |-> search]
  /\ Shown /\ Place /\ NothingSent /\ UNCHANGED <<row, search, clipboard, strayed>>

TypeSearch ==
  /\ In("search") /\ HomeKey
  /\ \E query \in Queries \cup {Everything} : input' = [mode |-> "search", query |-> query]
  /\ row' = 1
  /\ Placed /\ Shown /\ Place /\ NothingSent /\ UNCHANGED <<search, clipboard>>

(* Enter commits the draft, Esc drops it; Esc on the list clears the filter. *)
EndSearch ==
  /\ HomeKey
  /\ \/ In("search") /\ search' \in {input.query, search}
     \/ In("normal") /\ search # Everything /\ search' = Everything
  /\ input' = Browsing /\ row' = 1
  /\ Placed /\ Shown /\ Place /\ NothingSent /\ UNCHANGED clipboard

(***************************************************************************)
(* What the keys on a provider do.                                         *)
(***************************************************************************)
OnProvider == In("normal") /\ Selected # Nobody /\ HomeKey
Same == Shown /\ Place /\ UNCHANGED <<row, search, strayed>>
(* seen is the revision whose values the dialog was filled with. *)
Request(what, id) == Queue([what |-> what, section |-> section, id |-> id,
                            revision |-> list[id], seen |-> list[id]])

Refresh ==
  /\ In("normal") /\ HomeKey
  /\ Queue([what |-> "refresh"])
  /\ Same /\ UNCHANGED <<input, clipboard>>

(* `p`: a client without an active provider has no mode to change. *)
ToggleMode ==
  /\ In("normal") /\ HomeKey
  /\ section # "image" /\ active[section] # Nobody
  /\ Queue([what |-> "mode", section |-> section])
  /\ Same /\ UNCHANGED <<input, clipboard>>

(* Enter: entering or leaving a saved account asks first. *)
Choose ==
  /\ OnProvider
  /\ IF Saved(Selected) \/ (section # "image" /\ Saved(active[section]))
     THEN input' = [mode |-> "switch", section |-> section, id |-> Selected] /\ NothingSent
     ELSE Request("switch", Selected) /\ UNCHANGED input
  /\ Same /\ UNCHANGED clipboard

ConfirmSwitch ==
  /\ In("switch") /\ HomeKey
  /\ Queue([what |-> "switch", section |-> input.section, id |-> input.id, revision |-> 0])
  /\ input' = Browsing
  /\ Same /\ UNCHANGED clipboard

(* `e`: a saved account can only be renamed, a built-in one not at all; an  *)
(* image row of a primary provider edits its image models.                  *)
EditSelected ==
  /\ OnProvider /\ KindOf[Selected] # "official"
  /\ IF section = "image" /\ KindOf[Selected] = "both"
     THEN Request("discover", Selected) /\ UNCHANGED input
     ELSE /\ input' = [mode |-> IF Saved(Selected) THEN "rename" ELSE "form",
                       id |-> Selected, revision |-> list[Selected],
                       seen |-> list[Selected]]
          /\ NothingSent
  /\ Same /\ UNCHANGED clipboard

\* Mutant: the edit is sent for the revision that is listed now.
SubmitEdit_Listed ==
  /\ input.mode \in {"rename", "form"} /\ HomeKey
  /\ Queue([what |-> "edit", id |-> input.id, revision |-> IF input.id \in DOMAIN list THEN list[input.id] ELSE 0, seen |-> input.seen])
  /\ input' = Browsing
  /\ Same /\ UNCHANGED clipboard

(* The form or the new name is submitted under the revision it was opened on. *)
SubmitEdit ==
  /\ input.mode \in {"rename", "form"} /\ HomeKey
  /\ Queue([what |-> "edit", id |-> input.id, revision |-> input.revision,
            seen |-> input.seen])
  /\ input' = Browsing
  /\ Same /\ UNCHANGED clipboard

Escape ==
  /\ input.mode \in {"rename", "form", "switch"} /\ HomeKey
  /\ input' = Browsing
  /\ Same /\ NothingSent /\ UNCHANGED clipboard

(* `d`: what may be deleted is armed first; an image row of a primary        *)
(* provider is switched off instead.                                         *)
Deletable(id) ==
  /\ KindOf[id] # "official"
  /\ Saved(id) => active[section] # id
  /\ KindOf[id] = "both" => section = "image"

ArmDelete ==
  /\ OnProvider /\ Deletable(Selected)
  /\ IF KindOf[Selected] = "both"
     THEN Request("edit", Selected) /\ UNCHANGED input
     ELSE /\ input' = [mode |-> "delete", id |-> Selected, revision |-> list[Selected],
                       seen |-> list[Selected], lapsed |-> FALSE]
          /\ NothingSent
  /\ Same /\ UNCHANGED clipboard

(* Any other key disarms; so does the deadline, checked again on the key     *)
(* because the tick that retires the confirmation may be late.               *)
SecondKey ==
  /\ In("delete") /\ HomeKey
  /\ \/ ~input.lapsed
        /\ Queue([what |-> "remove", id |-> input.id, revision |-> input.revision,
                  seen |-> input.seen])
     \/ NothingSent
  /\ input' = Browsing
  /\ Same /\ UNCHANGED clipboard

Deadline ==
  /\ In("delete")
  /\ input' \in {Browsing, [input EXCEPT !.lapsed = TRUE]}
  /\ Shown /\ Place /\ NothingSent /\ UNCHANGED <<row, search, clipboard, strayed, homeKeys>>

(* `c` and `v`: the credential is fetched for the copy, the paste is a form. *)
Copy ==
  /\ OnProvider /\ section # "image" /\ KindOf[Selected] \in {"codex", "claude", "both"}
  /\ Request("copy", Selected)
  /\ Same /\ UNCHANGED <<input, clipboard>>

(***************************************************************************)
(* The daemon and the other clients.                                       *)
(***************************************************************************)
Acceptable(request) ==
  request.id \in DOMAIN store.list /\ store.list[request.id] = request.revision

Applied(request) ==
  CASE request.what \in {"refresh", "mode", "discover", "copy"} -> store
    [] request.what = "switch" ->
         IF request.id \in DOMAIN store.list
         THEN [store EXCEPT !.active[request.section] = request.id] ELSE store
    [] request.what = "edit" ->
         IF Acceptable(request) THEN [store EXCEPT !.list[request.id] = @ + 1] ELSE store
    [] request.what = "remove" ->
         IF Acceptable(request)
         THEN [store EXCEPT !.list = [id \in DOMAIN store.list \ {request.id} |-> @[id]],
                            !.active = [s \in Sections |->
                               IF @[s] = request.id THEN Nobody ELSE @[s]]]
         ELSE store

(* apply_loaded: a hidden section is left, the cursor goes to the active row. *)
LoadedSection(shown) ==
  IF section = "image" /\ "codex" \notin shown
  THEN CHOOSE c \in HomeClients : c \in shown
  ELSE IF ClientOf(section) \in shown THEN section ELSE CHOOSE c \in HomeClients : c \in shown

HomeLoaded(state) ==
  /\ list' = state.list /\ active' = state.active /\ visible' = state.visible
  /\ section' = LoadedSection(state.visible)
  /\ LET rows == Matching(state.list, section', ActiveQuery)
         there == RowOf(rows, state.active[section']) IN
       row' = IF there # 0 THEN there ELSE Clamped(row, rows)
  /\ Placed

HomeAnswer ==
  /\ sent # <<>>
  /\ sent' = Tail(sent)
  /\ LET request == Head(sent) IN
       /\ store' = Applied(request)
       /\ IF request.what = "copy"
          THEN /\ clipboard' = IF Acceptable(request) THEN request.id ELSE clipboard
               /\ UNCHANGED <<list, active, visible, section, row, strayed>>
          ELSE IF request.what = "discover"
          THEN /\ strayed' = (strayed \/ In("search"))
               /\ UNCHANGED <<clipboard, list, active, visible, section, row>>
          ELSE HomeLoaded(store') /\ UNCHANGED clipboard
       (* A model list opens its picker over whatever is on the screen. *)
       /\ input' = IF request.what = "discover"
                   THEN [mode |-> "form", id |-> request.id, revision |-> request.revision,
                         seen |-> request.seen]
                   ELSE input
  /\ UNCHANGED <<search, parked, homeKeys, homeElsewhere>>

OtherClient ==
  /\ homeElsewhere > 0 /\ homeElsewhere' = homeElsewhere - 1
  /\ \/ \E id \in DOMAIN store.list :
          \/ store' = [store EXCEPT !.list[id] = @ + 1]
          \/ /\ \A s \in Sections : store.active[s] # id
             /\ store' = [store EXCEPT !.list =
                            [other \in DOMAIN store.list \ {id} |-> @[other]]]
          \/ store' = [store EXCEPT !.active["codex"] = id] /\ Belongs(id, "codex")
     \/ \E some \in (SUBSET HomeClients) \ {{}} : store' = [store EXCEPT !.visible = some]
  /\ UNCHANGED <<list, active, visible, section, row, parked, search, input, clipboard,
                 sent, strayed, homeKeys>>

HomeNext ==
  \/ MoveRow \/ SwitchSection \/ OpenSearch \/ TypeSearch \/ EndSearch
  \/ Refresh \/ ToggleMode \/ Choose \/ ConfirmSwitch
  \/ EditSelected \/ SubmitEdit \/ Escape \/ ArmDelete \/ SecondKey \/ Deadline \/ Copy
  \/ HomeAnswer \/ OtherClient

(***************************************************************************)
(* Properties.                                                             *)
(***************************************************************************)
(* Whatever the filter, the section and the answers did to the list, the     *)
(* cursor is on a row as long as there is one, and the section is visible;   *)
(* but for a model list that opens over the search, whose filter then counts *)
(* no more while the cursor stays.                                           *)
RowIsListed == Rows # {} => row \in 1..Cardinality(Rows)
CursorIsOnARow == (~strayed => RowIsListed) /\ ClientOf(section) \in visible

(* An edit or a removal that the daemon performs was made on the values the   *)
(* user saw: a change another client made since the dialog was opened is       *)
(* neither overwritten nor removed unseen.                                     *)
NothingUnseenIsOverwritten ==
  [][ \A id \in DOMAIN store.list :
        (/\ sent # <<>> /\ sent' = Tail(sent)
         /\ id \notin DOMAIN store'.list \/ store'.list[id] # store.list[id])
        => Head(sent).id = id /\ Head(sent).seen = store.list[id] ]_homeVars
=============================================================================
