---------------------------- MODULE ClientScreen ----------------------------
(* The terminal client as two tasks: the screen, which turns keys and answers*)
(* into its next state, and the worker, which performs one effect after the  *)
(* other against the daemon.  Two bounded channels join them.  The model is  *)
(* about what outlives a key: the dialog that is up when an answer arrives,  *)
(* the form an operation was built from, the takeover it needs, the login it *)
(* started.  What the pages contain is in ClientForm, ClientHome,            *)
(* ClientSettings and ClientStats.                                           *)
EXTENDS Integers, Sequences, FiniteSets

CONSTANTS
  Forms,          \* the provider forms the user fills in
  ByDiscovery,    \* those for Codex: a model list is fetched before submitting
  MaxLogins,      \* official logins the daemon may start
  Channel,        \* capacity of the two channels
  ScreenKeys,     \* bound on the keys
  ScreenFaults,   \* bound on refused, conflicting and unanswered calls
  ForeignAtStart  \* may another instance own the configuration at start-up

NoForm == "no form"

ASSUME ScreenConstants ==
  /\ ByDiscovery \subseteq Forms /\ NoForm \notin Forms
  /\ {MaxLogins, Channel, ScreenKeys, ScreenFaults} \subseteq Nat
  /\ ForeignAtStart \in BOOLEAN

NoId == 0
Logins == 1..MaxLogins
Going == {"starting", "waiting"}

VARIABLES
  page,      \* InputMode, with the form or the login it holds
  held,      \* the effect the screen is sending, a sequence of at most one
  effects,   \* channel from the screen to the worker
  actions,   \* channel from the worker to the screen
  out,       \* answers the worker has still to deliver
  worker,    \* "working", "cancelling", "ended" or "aborted"
  jobs,      \* official_login_jobs of the worker
  takeover,  \* ConfigTakeoverDialog, or none
  origin,    \* State::config_origin: the page that submitted a form
  checked,   \* startup_config_checked
  quit,      \* the screen's loop has ended
  logins,    \* the daemon's logins
  foreign,   \* another instance owns the configuration
  applied,   \* forms the daemon stored
  consent,   \* ghost: the operation the user last moved to "take over" for
  hurried,   \* ghost: the user went on without waiting for an answer
  screenKeys, faults

screenVars == <<page, held, effects, actions, out, worker, jobs, takeover, origin,
                checked, quit, logins, foreign, applied, consent, hurried, screenKeys, faults>>

ListPage == [at |-> "normal"]
NoTakeover == [up |-> FALSE]
NoOrigin == [at |-> "none"]
Op(what, form) == [what |-> what, form |-> form]
RefreshOp == Op("refresh", NoForm)
NoConsent == Op("none", NoForm)

(* The page a form is submitted from: the model list or the mapping.       *)
PageOf(form) == [at |-> IF form \in ByDiscovery THEN "models" ELSE "mapping", form |-> form]

ScreenInit ==
  /\ page = ListPage
  /\ held = <<>> /\ effects = <<[do |-> "operate", op |-> RefreshOp]>>
  /\ actions = <<>> /\ out = <<>>
  /\ worker = "working" /\ jobs = {}
  /\ takeover = NoTakeover /\ origin = NoOrigin /\ checked = FALSE
  /\ quit = FALSE
  /\ logins = [id \in Logins |-> "none"]
  /\ foreign \in {FALSE, ForeignAtStart}
  /\ applied = {} /\ consent = NoConsent /\ hurried = FALSE
  /\ screenKeys = ScreenKeys /\ faults = ScreenFaults

(***************************************************************************)
(* Keys.  The loop reads the next event only after it handed over the      *)
(* effect of the last one, and a takeover dialog takes every key.          *)
(***************************************************************************)
InFlight == held # <<>> \/ effects # <<>> \/ out # <<>> \/ actions # <<>>

KeyPressed ==
  /\ ~quit /\ held = <<>> /\ screenKeys > 0
  /\ screenKeys' = screenKeys - 1
PageKey == KeyPressed /\ ~takeover.up
Perform(effect) == held' = <<effect>>
NoEffect == UNCHANGED held
Hurry == hurried' = (hurried \/ InFlight)
Elsewhere == UNCHANGED <<effects, actions, out, worker, jobs, checked, logins, foreign,
                         applied, faults>>
NoDialog == Elsewhere /\ UNCHANGED <<takeover, quit, consent>>

(* `r`, Enter on a provider, a setting: an operation without a form. *)
Operate ==
  /\ PageKey /\ page = ListPage
  /\ \E what \in {"refresh", "change"} :
       Perform([do |-> "operate", op |-> Op(what, NoForm)])
  /\ Hurry /\ NoDialog /\ UNCHANGED <<page, origin>>

OpenForm ==
  /\ PageKey /\ page = ListPage
  /\ \E form \in Forms \ applied : page' = [at |-> "form", form |-> form, busy |-> FALSE]
  /\ Hurry /\ NoEffect /\ NoDialog /\ UNCHANGED origin

(* Enter in a form: Codex asks the provider for its models, and the form is *)
(* deaf until they come; Claude goes on to the mapping.                     *)
SubmitForm ==
  /\ PageKey /\ page.at = "form" /\ ~page.busy
  /\ IF page.form \in ByDiscovery
     THEN /\ page' = [page EXCEPT !.busy = TRUE]
          /\ Perform([do |-> "discover", form |-> page.form])
     ELSE page' = PageOf(page.form) /\ NoEffect
  /\ Hurry /\ NoDialog /\ UNCHANGED origin

(* Tab on a mapping row: the list dialog ignores keys until it is filled. *)
ListModels ==
  /\ PageKey /\ page.at = "mapping"
  /\ page' = [at |-> "list", form |-> page.form, busy |-> TRUE]
  /\ Perform([do |-> "list", form |-> page.form])
  /\ Hurry /\ NoDialog /\ UNCHANGED origin

CloseList ==
  /\ PageKey /\ page.at = "list" /\ ~page.busy
  /\ page' = PageOf(page.form)
  /\ Hurry /\ NoEffect /\ NoDialog /\ UNCHANGED origin

(* Enter on the models or the mapping: the page moves into config_origin.  *)
SubmitPage ==
  /\ PageKey /\ page.at \in {"models", "mapping"}
  /\ Perform([do |-> "operate", op |-> Op("save", page.form)])
  /\ origin' = page
  /\ page' = ListPage
  /\ Hurry /\ NoDialog

LeavePage ==
  /\ PageKey
  /\ page.at \in {"models", "mapping"} \/ (page.at = "form" /\ ~page.busy)
  /\ page' = ListPage
  /\ hurried' = TRUE
  /\ NoEffect /\ NoDialog /\ UNCHANGED origin

(***************************************************************************)
(* The takeover dialog.  Cancel is selected first.                         *)
(***************************************************************************)
TakeoverKey == KeyPressed /\ takeover.up /\ ~takeover.sent

ChooseTakeover ==
  /\ TakeoverKey
  /\ takeover' = [takeover EXCEPT !.accept = ~@]
  /\ consent' = IF takeover.accept THEN NoConsent ELSE takeover.op
  /\ Hurry /\ NoEffect /\ Elsewhere /\ UNCHANGED <<page, origin, quit>>

(* restore_configuration_operation: a form comes back to the page it came  *)
(* from, or to a plain form when that page is gone.                        *)
Restored(op) ==
  IF op.form = NoForm THEN page
  ELSE IF origin = NoOrigin THEN [at |-> "form", form |-> op.form, busy |-> FALSE]
  ELSE [origin EXCEPT !.form = op.form]
Restore(op) ==
  /\ page' = Restored(op)
  /\ origin' = IF op.form = NoForm THEN origin ELSE NoOrigin

CancelTakeover ==
  /\ TakeoverKey
  /\ takeover' = NoTakeover
  /\ consent' = NoConsent
  /\ Restore(takeover.op)
  /\ Hurry /\ NoEffect /\ Elsewhere /\ UNCHANGED quit

ApproveTakeover ==
  /\ TakeoverKey /\ takeover.accept
  /\ takeover' = [takeover EXCEPT !.sent = TRUE]
  /\ Perform([do |-> "take over", op |-> takeover.op])
  /\ Hurry /\ Elsewhere /\ UNCHANGED <<page, origin, quit, consent>>

(***************************************************************************)
(* The login dialog.                                                       *)
(***************************************************************************)
LoginPage(id, state, asking, cancelling) ==
  [at |-> "login", id |-> id, state |-> state, asking |-> asking, cancelling |-> cancelling]

OpenLogin ==
  /\ PageKey /\ page = ListPage
  /\ page' = LoginPage(NoId, "starting", TRUE, FALSE)
  /\ Perform([do |-> "start"])
  /\ Hurry /\ NoDialog /\ UNCHANGED origin

(* Esc asks for the cancellation; without an id it waits for the one that  *)
(* the start will return.                                                  *)
EscapeLogin ==
  /\ PageKey /\ page.at = "login"
  /\ IF page.id # NoId
     THEN /\ page' = [page EXCEPT !.cancelling = TRUE, !.asking = TRUE]
          /\ Perform([do |-> "cancel", id |-> page.id])
     ELSE /\ page' = IF page.asking THEN [page EXCEPT !.cancelling = TRUE] ELSE ListPage
          /\ NoEffect
  /\ Hurry /\ NoDialog /\ UNCHANGED origin

SubmitCode ==
  /\ PageKey /\ page.at = "login" /\ page.id # NoId /\ ~page.asking /\ ~page.cancelling
  /\ page' = [page EXCEPT !.asking = TRUE]
  /\ Perform([do |-> "submit", id |-> page.id])
  /\ Hurry /\ NoDialog /\ UNCHANGED origin

(* Action::Tick polls a login that goes on, one question at a time. *)
Poll ==
  /\ ~quit /\ held = <<>>
  /\ page.at = "login" /\ page.id # NoId /\ ~page.asking /\ page.state \in Going
  /\ page' = [page EXCEPT !.asking = TRUE]
  /\ Perform([do |-> "status", id |-> page.id])
  /\ NoDialog /\ UNCHANGED <<origin, hurried, screenKeys>>

(***************************************************************************)
(* Handing over, and the end.                                              *)
(***************************************************************************)
HandOver ==
  /\ held # <<>> /\ Len(effects) < Channel
  /\ effects' = effects \o held
  /\ held' = <<>>
  /\ UNCHANGED <<page, actions, out, worker, jobs, takeover, origin, checked, quit, logins,
                 foreign, applied, consent, hurried, screenKeys, faults>>

(* The screen drops both of its channel ends and waits for the worker.     *)
Quit ==
  /\ KeyPressed /\ ~takeover.up /\ page = ListPage
  /\ quit' = TRUE
  /\ Hurry /\ NoEffect /\ Elsewhere /\ UNCHANGED <<page, takeover, origin, consent>>

(* tui::run waits 25 seconds for the worker, then drops it.                *)
Abort ==
  /\ quit /\ worker \in {"working", "cancelling"} /\ faults > 0
  /\ faults' = faults - 1
  /\ worker' = "aborted"
  /\ UNCHANGED <<page, held, effects, actions, out, jobs, takeover, origin, checked, quit,
                 logins, foreign, applied, consent, hurried, screenKeys>>

(***************************************************************************)
(* The worker.                                                             *)
(***************************************************************************)
ScreenSide == UNCHANGED <<page, held, actions, takeover, origin, checked, quit, consent,
                          hurried, screenKeys>>
Next1 == worker = "working" /\ out = <<>> /\ effects # <<>> /\ ~quit
Take(kinds) == Next1 /\ Head(effects).do \in kinds /\ effects' = Tail(effects)
Fault == faults > 0 /\ faults' = faults - 1
NoFault == UNCHANGED faults

(* Any operation: performed and everything reloaded, refused because another *)
(* instance owns the configuration, or failed.                               *)
LoadedAnswer == [answer |-> "loaded"]
Performed(op) ==
  /\ applied' = IF op.what = "save" THEN applied \cup {op.form} ELSE applied
  /\ \/ out' = <<[answer |-> "notice"], LoadedAnswer>> /\ NoFault
     \/ out' = <<[answer |-> "notice"], [answer |-> "failed"]>> /\ Fault
Declined(op) ==
  /\ Fault /\ UNCHANGED applied
  /\ out' = <<[answer |-> "not configured", op |-> op]>>
Conflicting(op) ==
  /\ UNCHANGED applied
  /\ out' = <<[answer |-> "conflict", op |-> op]>>

WorkOperation ==
  /\ Take({"operate"})
  /\ LET op == Head(effects).op IN
       IF op.what = "refresh"
       THEN /\ UNCHANGED <<applied, foreign>>
            /\ \/ out' = <<LoadedAnswer>> /\ NoFault
               \/ out' = <<[answer |-> "not configured", op |-> op]>> /\ Fault
       ELSE IF foreign
       THEN Conflicting(op) /\ NoFault /\ UNCHANGED foreign
       ELSE \/ (Performed(op) \/ Declined(op)) /\ UNCHANGED foreign
            \/ foreign' = TRUE /\ Fault /\ Conflicting(op)
  /\ ScreenSide /\ UNCHANGED <<worker, jobs, logins>>

WorkTakeover ==
  /\ Take({"take over"})
  /\ LET op == Head(effects).op IN
       \/ foreign' = FALSE /\ (Performed(op) \/ Declined(op))
       \/ Declined(op) /\ UNCHANGED foreign
       \/ Conflicting(op) /\ Fault /\ UNCHANGED foreign
  /\ ScreenSide /\ UNCHANGED <<worker, jobs, logins>>

WorkDiscovery ==
  /\ Take({"discover", "list"})
  /\ out' = <<[answer |-> IF Head(effects).do = "list" THEN "listed" ELSE "discovered",
               form |-> Head(effects).form]>>
  /\ ScreenSide /\ NoFault /\ UNCHANGED <<worker, jobs, logins, foreign, applied>>

(* One active login per client; a failed call leaves the job in the set.   *)
Reported(id, state) ==
  /\ jobs' = IF state \in Going THEN jobs \cup {id} ELSE jobs \ {id}
  /\ out' = <<[answer |-> "login", id |-> id, state |-> state]>>
LoginFailed ==
  /\ out' = <<[answer |-> "login failed"]>>
  /\ UNCHANGED jobs

WorkLogin ==
  /\ Take({"start", "status", "submit", "cancel"})
  /\ LET effect == Head(effects) IN
       \/ /\ effect.do = "start"
          /\ IF \E id \in Logins : logins[id] \in Going
             THEN LoginFailed /\ UNCHANGED logins
             ELSE \E id \in Logins :
                    /\ logins[id] = "none"
                    /\ \A other \in 1..(id - 1) : logins[other] # "none"
                    /\ logins' = [logins EXCEPT ![id] = "starting"]
                    /\ Reported(id, "starting")
          /\ NoFault
       \/ /\ effect.do \in {"status", "submit"}
          /\ Reported(effect.id, logins[effect.id])
          /\ NoFault /\ UNCHANGED logins
       \/ /\ effect.do = "cancel"
          /\ logins' = [logins EXCEPT ![effect.id] = IF @ \in Going THEN "cancelled" ELSE @]
          /\ Reported(effect.id, logins'[effect.id])
          /\ NoFault
       \/ Fault /\ LoginFailed /\ UNCHANGED logins
  /\ ScreenSide /\ UNCHANGED <<worker, foreign, applied>>

Deliver ==
  /\ worker = "working" /\ out # <<>>
  /\ quit \/ Len(actions) < Channel
  /\ actions' = IF quit THEN actions ELSE Append(actions, Head(out))
  /\ out' = Tail(out)
  /\ UNCHANGED <<page, held, effects, worker, jobs, takeover, origin, checked, quit, logins,
                 foreign, applied, consent, hurried, screenKeys, faults>>

(* The screen is gone: what is queued is dropped and every login that was   *)
(* still going when it was last heard of is cancelled.                      *)
StopWorking ==
  /\ worker = "working" /\ quit /\ out = <<>>
  /\ worker' = "cancelling"
  /\ effects' = <<>>
  /\ ScreenSide /\ NoFault /\ UNCHANGED <<out, jobs, logins, foreign, applied>>

CancelJob ==
  /\ worker = "cancelling"
  /\ \E id \in jobs :
       /\ jobs' = jobs \ {id}
       /\ logins' = [logins EXCEPT ![id] = IF @ \in Going THEN "cancelled" ELSE @]
  /\ ScreenSide /\ NoFault /\ UNCHANGED <<effects, out, worker, foreign, applied>>

EndWorker ==
  /\ worker = "cancelling" /\ jobs = {}
  /\ worker' = "ended"
  /\ ScreenSide /\ NoFault /\ UNCHANGED <<effects, out, jobs, logins, foreign, applied>>

(* The daemon's side of a login. *)
LoginMoves ==
  /\ \E id \in Logins :
       /\ logins[id] \in Going
       /\ logins' = [logins EXCEPT ![id] =
            CHOOSE s \in {"waiting", "completed"} :
              s = IF @ = "starting" THEN "waiting" ELSE "completed"]
  /\ UNCHANGED <<effects, out, worker, jobs, foreign, applied, faults>> /\ ScreenSide

LoginDies ==
  /\ Fault
  /\ \E id \in Logins :
       logins[id] \in Going /\ logins' = [logins EXCEPT ![id] = "failed"]
  /\ UNCHANGED <<effects, out, worker, jobs, foreign, applied>> /\ ScreenSide

(***************************************************************************)
(* Answers reach the screen.                                               *)
(***************************************************************************)
Receive(kinds) ==
  /\ ~quit /\ held = <<>> /\ actions # <<>>
  /\ Head(actions).answer \in kinds
  /\ actions' = Tail(actions)
  /\ UNCHANGED <<effects, out, worker, jobs, quit, logins, foreign, applied, hurried,
                 screenKeys, faults>>

(* apply_loaded: the first load may ask for a takeover at once. *)
StartupTakeover == [up |-> TRUE, op |-> RefreshOp, accept |-> FALSE, sent |-> FALSE]
OnLoaded ==
  /\ Receive({"loaded"})
  /\ takeover' = IF ~checked /\ foreign THEN StartupTakeover ELSE NoTakeover
  /\ checked' = TRUE
  /\ origin' = NoOrigin
  /\ consent' = NoConsent
  /\ UNCHANGED <<page, held>>

OnNotice ==
  /\ Receive({"notice"})
  /\ takeover' = NoTakeover /\ origin' = NoOrigin /\ consent' = NoConsent
  /\ UNCHANGED <<page, held, checked>>

OnFailed ==
  /\ Receive({"failed"})
  /\ UNCHANGED <<page, held, takeover, origin, checked, consent>>

\* Mutant: a takeover that was accepted before is accepted for this conflict.
OnConflict_KeepsAccept ==
  /\ Receive({"conflict"})
  /\ takeover' = [up |-> TRUE, op |-> Head(actions).op, accept |-> takeover.up /\ takeover.accept, sent |-> FALSE]
  /\ consent' = NoConsent
  /\ UNCHANGED <<page, held, origin, checked>>

(* A conflict raises the dialog; Cancel is selected whatever was before.   *)
OnConflict ==
  /\ Receive({"conflict"})
  /\ takeover' = [up |-> TRUE, op |-> Head(actions).op, accept |-> FALSE, sent |-> FALSE]
  /\ consent' = NoConsent
  /\ UNCHANGED <<page, held, origin, checked>>

OnNotConfigured ==
  /\ Receive({"not configured"})
  /\ takeover' = NoTakeover /\ consent' = NoConsent
  /\ Restore(Head(actions).op)
  /\ UNCHANGED <<held, checked>>

(* The models of a provider open their page over whatever is up. *)
OnDiscovered ==
  /\ Receive({"discovered"})
  /\ page' = PageOf(Head(actions).form)
  /\ UNCHANGED <<held, takeover, origin, checked, consent>>

OnListed ==
  /\ Receive({"listed"})
  /\ page' = IF page.at = "list" THEN [page EXCEPT !.busy = FALSE] ELSE page
  /\ UNCHANGED <<held, takeover, origin, checked, consent>>

(* apply_official_login. *)
LoginAnswered(id, state) ==
  IF page.at # "login" \/ (page.id # NoId /\ page.id # id)
  THEN UNCHANGED <<page, held>>
  ELSE IF page.cancelling /\ state \in Going
  THEN /\ page' = [page EXCEPT !.id = id, !.asking = TRUE]
       /\ held' = <<[do |-> "cancel", id |-> id]>>
  ELSE CASE state = "completed" ->
              page' = ListPage /\ held' = <<[do |-> "operate", op |-> RefreshOp]>>
         [] state = "cancelled" -> page' = ListPage /\ UNCHANGED held
         [] OTHER -> /\ page' = LoginPage(id, state, FALSE, page.cancelling)
                     /\ UNCHANGED held

OnLogin ==
  /\ Receive({"login"})
  /\ LoginAnswered(Head(actions).id, Head(actions).state)
  /\ UNCHANGED <<takeover, origin, checked, consent>>

OnLoginFailed ==
  /\ Receive({"login failed"})
  /\ page' = IF page.at # "login" THEN page
             ELSE IF page.cancelling /\ page.id = NoId THEN ListPage
             ELSE [page EXCEPT !.asking = FALSE, !.state = "failed"]
  /\ UNCHANGED <<held, takeover, origin, checked, consent>>

ScreenNext ==
  \/ Operate \/ OpenForm \/ SubmitForm \/ ListModels \/ CloseList \/ SubmitPage \/ LeavePage
  \/ ChooseTakeover \/ CancelTakeover \/ ApproveTakeover
  \/ OpenLogin \/ EscapeLogin \/ SubmitCode \/ Poll
  \/ HandOver \/ Quit \/ Abort
  \/ WorkOperation \/ WorkTakeover \/ WorkDiscovery \/ WorkLogin \/ Deliver
  \/ StopWorking \/ CancelJob \/ EndWorker \/ LoginMoves \/ LoginDies
  \/ OnLoaded \/ OnNotice \/ OnFailed \/ OnConflict \/ OnNotConfigured
  \/ OnDiscovered \/ OnListed \/ OnLogin \/ OnLoginFailed

(***************************************************************************)
(* Properties.                                                             *)
(***************************************************************************)
(* When the worker has ended, no login it learned of is still going in the   *)
(* daemon, even one whose answer came after the screen was gone.             *)
LoginsAreCancelled ==
  worker = "ended" => \A id \in Logins : logins[id] \notin Going

(* A takeover leaves only for the operation in front of which the user moved *)
(* to "take over": a dialog that replaces another one, or a key held down,   *)
(* never turns into an approval.                                             *)
TakeoverIsChosen ==
  /\ takeover.up /\ (takeover.accept \/ takeover.sent) => consent = takeover.op
  /\ held # <<>> /\ held[1].do = "take over" => consent = held[1].op

(* A user who waits for the answers never loses a form: until it is stored,  *)
(* it is on the screen, on its way, or in the takeover dialog.               *)
Opened(form) ==
  \/ form \in applied
  \/ page.at \in {"form", "models", "mapping", "list"} /\ page.form = form
  \/ takeover.up /\ takeover.op.form = form
  \/ \E queue \in {held, effects} : \E i \in DOMAIN queue :
       queue[i].do \in {"operate", "take over"} /\ queue[i].op.form = form
  \/ \E queue \in {out, actions} : \E i \in DOMAIN queue :
       queue[i].answer \in {"conflict", "not configured"} /\ queue[i].op.form = form
FormIsKept ==
  [][ \A form \in Forms :
        Opened(form) /\ ~hurried' /\ ~quit' => Opened(form)' ]_screenVars

(* What the line of help under a login promises, "esc cancel": once nothing  *)
(* is on its way any more, a dialog the user escaped from is gone.           *)
EscapeClosesLogin ==
  page.at = "login" /\ page.cancelling => page.asking \/ InFlight
=============================================================================
