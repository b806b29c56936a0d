---------------------------- MODULE ClientProofs ----------------------------
(***************************************************************************)
(* Proofs about what the user has in front: the worker of the terminal     *)
(* client and its pages, the model variables hsind writes, the service and *)
(* the database, for any forms, logins, providers, mappings, callers,      *)
(* versions and budgets.                                                   *)
(***************************************************************************)
EXTENDS MCClient, FiniteSetTheorems, NaturalsInduction, TLAPS

-----------------------------------------------------------------------------
(* The machines share no variable: a step of one leaves the others alone.  *)

LEMMA EachActs ==
  ASSUME [Next]_vars
  PROVE  /\ [SettingsNext]_settingsVars /\ [StatsNext]_statsVars /\ [HomeNext]_homeVars
         /\ [ScreenNext]_screenVars /\ [FormNext]_formVars /\ [MappingNext]_mapVars
         /\ [DraftsNext]_draftVars /\ [ServiceNext]_serviceVars /\ [SchemaNext]_schemaVars
  BY DEF Next, vars, pageVars, Outside

LEMMA EachStarts ==
  ASSUME NEW parts, InitOf(parts)
  PROVE  /\ SettingsInit /\ StatsInit /\ HomeInit /\ DraftsInit /\ FormInit /\ ScreenInit
         /\ MappingInit /\ ServiceInit /\ SchemaInit
  BY DEF InitOf

-----------------------------------------------------------------------------
(* The worker.                                                             *)

LoginStates == {"none", "starting", "waiting", "completed", "cancelled", "failed"}

(* While the worker lives it knows every login that goes on: the answer that *)
(* brought it also put it into the jobs, and only its end takes it out.      *)
GoingIsKnown ==
  worker \in {"working", "cancelling"} => \A id \in Logins : logins[id] \in Going => id \in jobs

(* A dialog that is up has an operation and two flags; what is sent waits    *)
(* alone.                                                                    *)
DialogsAreShaped ==
  /\ takeover.up => /\ takeover = [up |-> TRUE, op |-> takeover.op, accept |-> takeover.accept,
                                   sent |-> takeover.sent]
                    /\ takeover.accept \in BOOLEAN
  /\ held # <<>> => \E e : held = <<e>>

WorkerInv ==
  /\ logins \in [Logins -> LoginStates]
  /\ GoingIsKnown /\ DialogsAreShaped
  /\ LoginsAreCancelled /\ TakeoverIsChosen

LEMMA WorkerStarts == ScreenInit => WorkerInv
<1> SUFFICES ASSUME ScreenInit PROVE WorkerInv
  OBVIOUS
<1>1. logins \in [Logins -> LoginStates]
  BY DEF ScreenInit, LoginStates
<1>2. GoingIsKnown /\ LoginsAreCancelled
  BY DEF ScreenInit, GoingIsKnown, LoginsAreCancelled, Going
<1>3. DialogsAreShaped /\ TakeoverIsChosen
  BY DEF ScreenInit, DialogsAreShaped, TakeoverIsChosen, NoTakeover
<1>. QED BY <1>1, <1>2, <1>3 DEF WorkerInv

(* The steps that concern the logins. *)
LoginParts == logins \in [Logins -> LoginStates] /\ GoingIsKnown /\ LoginsAreCancelled
LoginFrame == <<logins, worker, jobs>>

LEMMA LoginStepsKeep ==
  ASSUME LoginParts,
         WorkLogin \/ Abort \/ StopWorking \/ CancelJob \/ EndWorker \/ LoginMoves \/ LoginDies
         \/ UNCHANGED LoginFrame
  PROVE  LoginParts'
<1> USE DEF LoginParts
<1>1. CASE WorkLogin
  <2> DEFINE effect == Head(effects)
  <2>1. worker = "working" /\ worker' = "working"
    BY <1>1 DEF WorkLogin, Take, Next1
  <2>2. CASE LoginFailed /\ UNCHANGED logins
    BY <2>1, <2>2 DEF LoginFailed, GoingIsKnown, LoginsAreCancelled
  <2>3. CASE \E id \in Logins : /\ logins' = [logins EXCEPT ![id] = "starting"]
                                /\ Reported(id, "starting")
    BY <2>1, <2>3 DEF Reported, GoingIsKnown, LoginsAreCancelled, Going, LoginStates
  <2>4. CASE Reported(effect.id, logins[effect.id]) /\ UNCHANGED logins
    <3> HIDE DEF effect
    <3>. QED BY <2>1, <2>4 DEF Reported, GoingIsKnown, LoginsAreCancelled
  <2>5. CASE /\ logins' = [logins EXCEPT ![effect.id] = IF @ \in Going THEN "cancelled" ELSE @]
             /\ Reported(effect.id, logins'[effect.id])
    <3> HIDE DEF effect
    <3>1. logins' \in [Logins -> LoginStates]
      BY <2>5 DEF LoginStates
    <3>2. \A id \in Logins : logins'[id] \in Going => logins[id] \in Going /\ id # effect.id
      BY <2>5 DEF Going, LoginStates
    <3>3. \A id \in Logins : id # effect.id /\ id \in jobs => id \in jobs'
      BY <2>5 DEF Reported
    <3>. QED BY <2>1, <3>1, <3>2, <3>3 DEF GoingIsKnown, LoginsAreCancelled
  <2>. QED BY <1>1, <2>2, <2>3, <2>4, <2>5 DEF WorkLogin
<1>2. CASE Abort \/ StopWorking
  BY <1>2 DEF Abort, StopWorking, ScreenSide, GoingIsKnown, LoginsAreCancelled
<1>3. CASE CancelJob
  <2>1. PICK id \in jobs :
          /\ jobs' = jobs \ {id}
          /\ logins' = [logins EXCEPT ![id] = IF @ \in Going THEN "cancelled" ELSE @]
    BY <1>3 DEF CancelJob
  <2>2. logins' \in [Logins -> LoginStates]
    BY <2>1 DEF LoginStates
  <2>3. \A other \in Logins : logins'[other] \in Going => logins[other] \in Going /\ other # id
    BY <2>1 DEF Going, LoginStates
  <2>. QED BY <1>3, <2>1, <2>2, <2>3 DEF CancelJob, GoingIsKnown, LoginsAreCancelled
<1>4. CASE EndWorker
  BY <1>4 DEF EndWorker, GoingIsKnown, LoginsAreCancelled
<1>5. CASE LoginMoves \/ LoginDies
  <2>1. PICK id \in Logins, s \in LoginStates :
          logins[id] \in Going /\ logins' = [logins EXCEPT ![id] = s]
    <3>1. CASE LoginMoves
      BY <3>1 DEF LoginMoves, LoginStates
    <3>2. CASE LoginDies
      BY <3>2 DEF LoginDies, LoginStates
    <3>. QED BY <1>5, <3>1, <3>2
  <2>2. UNCHANGED <<jobs, worker>>
    BY <1>5 DEF LoginMoves, LoginDies
  <2>. QED BY <2>1, <2>2 DEF GoingIsKnown, LoginsAreCancelled
<1>6. CASE UNCHANGED LoginFrame
  BY <1>6 DEF LoginFrame, GoingIsKnown, LoginsAreCancelled
<1>. QED BY <1>1, <1>2, <1>3, <1>4, <1>5, <1>6


(* The steps that concern the dialog.  Most leave it and the consent alone,  *)
(* and send nothing, or what is no takeover.                                 *)
DialogParts == DialogsAreShaped /\ TakeoverIsChosen
DialogRests ==
  /\ UNCHANGED <<takeover, consent>>
  /\ \/ held' = held \/ held' = <<>>
     \/ \E e : held' = <<e>> /\ e.do # "take over"

LEMMA RestingKeeps ==
  ASSUME DialogParts, DialogRests
  PROVE  DialogParts'
<1>1. CASE held' = held \/ held' = <<>>
  BY <1>1 DEF DialogParts, DialogRests, DialogsAreShaped, TakeoverIsChosen
<1>2. CASE \E e : held' = <<e>> /\ e.do # "take over"
  <2>1. PICK e : held' = <<e>> /\ e.do # "take over"
    BY <1>2
  <2>2. held'[1] = e
    BY <2>1
  <2>3. DialogsAreShaped'
    BY <2>1 DEF DialogParts, DialogRests, DialogsAreShaped
  <2>. QED BY <2>1, <2>2, <2>3 DEF DialogParts, DialogRests, TakeoverIsChosen
<1>. QED BY <1>1, <1>2 DEF DialogRests

LEMMA PerformRests ==
  ASSUME NEW e, Perform(e), e.do # "take over", UNCHANGED <<takeover, consent>>
  PROVE  DialogRests
BY DEF Perform, DialogRests

LEMMA DialogRestsHere ==
  ASSUME \/ Operate \/ OpenForm \/ SubmitForm \/ ListModels \/ CloseList \/ SubmitPage \/ LeavePage
         \/ OpenLogin \/ EscapeLogin \/ SubmitCode \/ Poll \/ HandOver \/ Quit \/ Abort
         \/ WorkOperation \/ WorkTakeover \/ WorkDiscovery \/ WorkLogin \/ Deliver
         \/ StopWorking \/ CancelJob \/ EndWorker \/ LoginMoves \/ LoginDies
         \/ OnFailed \/ OnDiscovered \/ OnListed \/ OnLogin \/ OnLoginFailed
         \/ UNCHANGED screenVars
  PROVE  DialogRests
<1> USE DEF DialogRests
<1>1. CASE Operate \/ OpenForm \/ SubmitForm \/ ListModels \/ CloseList \/ SubmitPage \/ LeavePage
  <2>1. UNCHANGED <<takeover, consent>>
    BY <1>1 DEF Operate, OpenForm, SubmitForm, ListModels, CloseList, SubmitPage, LeavePage, NoDialog
  <2>2. ASSUME NEW what, Perform([do |-> "operate", op |-> what]) PROVE DialogRests
    BY <2>1, <2>2, PerformRests
  <2>3. ASSUME NEW form, NEW do \in {"discover", "list"}, Perform([do |-> do, form |-> form])
        PROVE  DialogRests
    BY <2>1, <2>3, PerformRests
  <2>4. CASE Operate \/ SubmitPage
    BY <2>2, <2>4 DEF Operate, SubmitPage
  <2>5. CASE SubmitForm \/ ListModels
    BY <2>1, <2>3, <2>5 DEF SubmitForm, ListModels, NoEffect
  <2>6. CASE OpenForm \/ CloseList \/ LeavePage
    BY <2>1, <2>6 DEF OpenForm, CloseList, LeavePage, NoEffect
  <2>. QED BY <1>1, <2>4, <2>5, <2>6
<1>2. CASE OpenLogin \/ EscapeLogin \/ SubmitCode \/ Poll
  <2>1. UNCHANGED <<takeover, consent>>
    BY <1>2 DEF OpenLogin, EscapeLogin, SubmitCode, Poll, NoDialog
  <2>2. Perform([do |-> "start"]) => DialogRests
    BY <2>1, PerformRests
  <2>3. ASSUME NEW id, NEW do \in {"cancel", "submit", "status"}, Perform([do |-> do, id |-> id])
        PROVE  DialogRests
    BY <2>1, <2>3, PerformRests
  <2>4. CASE OpenLogin
    BY <2>2, <2>4 DEF OpenLogin
  <2>5. CASE EscapeLogin \/ SubmitCode \/ Poll
    BY <2>1, <2>3, <2>5 DEF EscapeLogin, SubmitCode, Poll, NoEffect
  <2>. QED BY <1>2, <2>4, <2>5
<1>3. CASE HandOver \/ Quit \/ Abort
  BY <1>3 DEF HandOver, Quit, Abort, NoEffect
<1>4. CASE WorkOperation \/ WorkTakeover \/ WorkDiscovery \/ WorkLogin \/ Deliver
  BY <1>4 DEF WorkOperation, WorkTakeover, WorkDiscovery, WorkLogin, Deliver, ScreenSide
<1>5. CASE StopWorking \/ CancelJob \/ EndWorker \/ LoginMoves \/ LoginDies
  BY <1>5 DEF StopWorking, CancelJob, EndWorker, LoginMoves, LoginDies, ScreenSide
<1>6. CASE OnFailed \/ OnDiscovered \/ OnListed \/ OnLoginFailed
  BY <1>6 DEF OnFailed, OnDiscovered, OnListed, OnLoginFailed
<1>7. CASE OnLogin
  <2>1. UNCHANGED <<takeover, consent>>
    BY <1>7 DEF OnLogin
  <2>2. ASSUME NEW id, held' = <<[do |-> "cancel", id |-> id]>> PROVE DialogRests
    BY <2>1, <2>2, PerformRests DEF Perform
  <2>3. held' = <<[do |-> "operate", op |-> RefreshOp]>> => DialogRests
    BY <2>1, PerformRests DEF Perform
  <2>4. held' = held => DialogRests
    BY <2>1
  <2>. QED BY <1>7, <2>2, <2>3, <2>4 DEF OnLogin, LoginAnswered
<1>8. CASE UNCHANGED screenVars
  BY <1>8 DEF screenVars
<1>. QED BY <1>1, <1>2, <1>3, <1>4, <1>5, <1>6, <1>7, <1>8

LEMMA DialogStepsKeep ==
  ASSUME DialogParts, [ScreenNext]_screenVars
  PROVE  DialogParts'
<1> USE DEF DialogParts, DialogsAreShaped, TakeoverIsChosen
<1>1. CASE ChooseTakeover
  <2>1. held = <<>> /\ held' = held /\ takeover.up /\ ~takeover.sent
    BY <1>1 DEF ChooseTakeover, TakeoverKey, KeyPressed, NoEffect
  <2>2. /\ takeover' = [takeover EXCEPT !.accept = ~@]
        /\ consent' = IF takeover.accept THEN NoConsent ELSE takeover.op
    BY <1>1 DEF ChooseTakeover
  <2>3. takeover' = [up |-> TRUE, op |-> takeover.op, accept |-> ~takeover.accept,
                     sent |-> takeover.sent]
    BY <2>1, <2>2
  <2>. QED BY <2>1, <2>2, <2>3
<1>2. CASE CancelTakeover
  BY <1>2 DEF CancelTakeover, TakeoverKey, KeyPressed, NoTakeover, NoEffect
<1>3. CASE ApproveTakeover
  <2>1. /\ takeover.up /\ takeover.accept /\ consent' = consent
        /\ takeover' = [takeover EXCEPT !.sent = TRUE]
        /\ held' = <<[do |-> "take over", op |-> takeover.op]>>
    BY <1>3 DEF ApproveTakeover, TakeoverKey, Perform
  <2>2. takeover' = [up |-> TRUE, op |-> takeover.op, accept |-> takeover.accept, sent |-> TRUE]
    BY <2>1
  <2>. QED BY <2>1, <2>2
<1>4. CASE OnLoaded \/ OnNotice \/ OnNotConfigured
  <2>1. held = <<>> /\ held' = held
    BY <1>4 DEF OnLoaded, OnNotice, OnNotConfigured, Receive
  <2>2. takeover' \in {StartupTakeover, NoTakeover}
    BY <1>4 DEF OnLoaded, OnNotice, OnNotConfigured
  <2>3. CASE takeover' = StartupTakeover
    <3>1. /\ takeover'.op = RefreshOp /\ takeover'.accept = FALSE /\ takeover'.sent = FALSE
          /\ takeover'.up = TRUE
      BY <2>3 DEF StartupTakeover
    <3>. QED BY <2>1, <2>3, <3>1 DEF StartupTakeover
  <2>4. CASE takeover' = NoTakeover
    <3>1. takeover'.up = FALSE
      BY <2>4 DEF NoTakeover
    <3>. QED BY <2>1, <3>1
  <2>. QED BY <2>2, <2>3, <2>4
<1>5. CASE OnConflict
  BY <1>5 DEF OnConflict, Receive
<1>6. CASE DialogRests
  BY <1>6, RestingKeeps
<1>. QED BY <1>1, <1>2, <1>3, <1>4, <1>5, <1>6, DialogRestsHere DEF ScreenNext

LEMMA LoginFrameHere ==
  ASSUME [ScreenNext]_screenVars
  PROVE  WorkLogin \/ Abort \/ StopWorking \/ CancelJob \/ EndWorker \/ LoginMoves \/ LoginDies
         \/ UNCHANGED LoginFrame
<1> USE DEF LoginFrame
<1>1. CASE Operate \/ OpenForm \/ SubmitForm \/ ListModels \/ CloseList \/ SubmitPage \/ LeavePage
           \/ OpenLogin \/ EscapeLogin \/ SubmitCode \/ Poll
  BY <1>1 DEF Operate, OpenForm, SubmitForm, ListModels, CloseList, SubmitPage, LeavePage,
              OpenLogin, EscapeLogin, SubmitCode, Poll, NoDialog, Elsewhere
<1>2. CASE ChooseTakeover \/ CancelTakeover \/ ApproveTakeover \/ HandOver \/ Quit
  BY <1>2 DEF ChooseTakeover, CancelTakeover, ApproveTakeover, HandOver, Quit, Elsewhere
<1>3. CASE WorkOperation \/ WorkTakeover \/ WorkDiscovery \/ Deliver
  BY <1>3 DEF WorkOperation, WorkTakeover, WorkDiscovery, Deliver
<1>4. CASE OnLoaded \/ OnNotice \/ OnFailed \/ OnConflict \/ OnNotConfigured
           \/ OnDiscovered \/ OnListed \/ OnLogin \/ OnLoginFailed
  BY <1>4 DEF OnLoaded, OnNotice, OnFailed, OnConflict, OnNotConfigured, OnDiscovered,
              OnListed, OnLogin, OnLoginFailed, Receive
<1>5. CASE UNCHANGED screenVars
  BY <1>5 DEF screenVars
<1>. QED BY <1>1, <1>2, <1>3, <1>4, <1>5 DEF ScreenNext

(* However keys, answers, failures and the end of the screen are ordered,    *)
(* the worker leaves no login it learned of going in the daemon, and a       *)
(* takeover is sent only for the operation the user moved to "take over"     *)
(* for.                                                                      *)
THEOREM WorkerStaysObedient == ClientSpec => []WorkerObeys
<1>1. ASSUME InitOf(Machines \cup DOMAIN Calls) PROVE WorkerInv
  BY <1>1, EachStarts, WorkerStarts
<1>2. ASSUME WorkerInv, [Next]_vars PROVE WorkerInv'
  <2>1. [ScreenNext]_screenVars
    BY <1>2, EachActs
  <2>2. LoginParts'
    BY <1>2, <2>1, LoginFrameHere, LoginStepsKeep DEF WorkerInv, LoginParts
  <2>3. DialogParts'
    BY <1>2, <2>1, DialogStepsKeep DEF WorkerInv, DialogParts
  <2>. QED BY <2>2, <2>3 DEF WorkerInv, LoginParts, DialogParts
<1>3. WorkerInv => WorkerObeys
  BY DEF WorkerInv, WorkerObeys
<1>. QED BY <1>1, <1>2, <1>3, PTL DEF ClientSpec

-----------------------------------------------------------------------------
(* Queues of any entries.                                                  *)

IsSeq(s) == \E S : s \in Seq(S)

LEMMA QueueAppends ==
  ASSUME NEW s, IsSeq(s), NEW e
  PROVE  /\ IsSeq(Append(s, e)) /\ Len(s) \in Nat /\ DOMAIN s = 1..Len(s)
         /\ Len(Append(s, e)) = Len(s) + 1 /\ DOMAIN Append(s, e) = 1..(Len(s) + 1)
         /\ \A i \in 1..Len(s) : Append(s, e)[i] = s[i]
         /\ Append(s, e)[Len(s) + 1] = e
<1>1. PICK S : s \in Seq(S)
  BY DEF IsSeq
<1>2. s \in Seq(S \cup {e}) /\ e \in S \cup {e}
  BY <1>1
<1>3. Append(s, e) \in Seq(S \cup {e})
  BY <1>2
<1>. QED BY <1>2, <1>3 DEF IsSeq

LEMMA QueueAdvances ==
  ASSUME NEW s, IsSeq(s), s # <<>>
  PROVE  /\ IsSeq(Tail(s)) /\ Len(s) \in Nat \ {0} /\ DOMAIN s = 1..Len(s)
         /\ Len(Tail(s)) = Len(s) - 1 /\ DOMAIN Tail(s) = 1..(Len(s) - 1)
         /\ \A i \in 1..(Len(s) - 1) : Tail(s)[i] = s[i + 1]
         /\ Head(s) = s[1]
<1>1. PICK S : s \in Seq(S)
  BY DEF IsSeq
<1>2. Tail(s) \in Seq(S)
  BY <1>1
<1>. QED BY <1>1, <1>2 DEF IsSeq

-----------------------------------------------------------------------------
(* The settings pages.                                                     *)

PresetSets == [Kinds -> SUBSET (1..MaxTokens)]
SettingsFields ==
  {"enabled", "host", "language", "mode", "proxyHost", "password", "customAuth", "display",
   "order", "visible", "presets"}
Whole(settings) ==
  DOMAIN settings = SettingsFields /\ settings.presets \in PresetSets /\ ValidClients(settings)
Changes == {"enabled", "host", "language", "auth", "display", "upstream", "clients"}

(* A change of the client settings is one the daemon takes.                *)
SendsWhole(r) ==
  /\ r.change \in Changes
  /\ r.change = "clients" => ValidClients(r.to) /\ r.to.presets \in PresetSets
RequestsAreWhole == IsSeq(requests) /\ \A i \in DOMAIN requests : SendsWhole(requests[i])

(* The two pages whose contents are sent: the order is one at every moment   *)
(* of a move, and a preset that is edited is not armed.                      *)
OrderPage(p) ==
  /\ {"order", "row", "moving"} \subseteq DOMAIN p
  /\ p.order \in Orders /\ p.row \in DOMAIN p.order
PresetPage(p) ==
  /\ {"kind", "row", "armed", "original", "editing", "back"} \subseteq DOMAIN p
  /\ p.kind \in Kinds /\ (p.editing => p.armed = 0) /\ p.editing \in BOOLEAN
WholePage(p) ==
  "at" \in DOMAIN p /\ (p.at = "order" => OrderPage(p)) /\ (p.at = "presets" => PresetPage(p))

SettingsInv ==
  /\ Whole(shown) /\ Whole(daemon) /\ RequestsAreWhole /\ WholePage(current)
  /\ busy \in BOOLEAN /\ keysLeft \in 0..MaxKeys /\ elsewhereLeft \in 0..MaxElsewhere

LEMMA OrdersExist == Cardinality(Clients) \in Nat \ {0} /\ Orders # {}
<1>1. IsFiniteSet(Clients) /\ Clients # {}
  BY SettingsConstants
<1>2. Cardinality(Clients) \in Nat /\ ExistsBijection(1..Cardinality(Clients), Clients)
  BY <1>1, FS_CardinalityType
<1>3. Cardinality(Clients) # 0
  BY <1>1, FS_EmptySet
<1>4. PICK order : order \in Surjection(1..Cardinality(Clients), Clients)
  BY <1>2 DEF ExistsBijection, Bijection
<1>5. order \in Orders
  BY <1>4 DEF Surjection, Orders
<1>. QED BY <1>2, <1>3, <1>5

LEMMA SwapsKeepOrders ==
  ASSUME NEW order \in Orders, NEW r \in DOMAIN order, NEW s \in DOMAIN order
  PROVE  [order EXCEPT ![r] = order[s], ![s] = order[r]] \in Orders
<1> DEFINE swapped == [order EXCEPT ![r] = order[s], ![s] = order[r]]
<1>1. order \in [1..Cardinality(Clients) -> Clients]
  BY DEF Orders
<1>2. swapped \in [1..Cardinality(Clients) -> Clients]
  BY <1>1
<1>3. ASSUME NEW c \in Clients PROVE \E i \in DOMAIN swapped : swapped[i] = c
  <2>1. PICK i \in DOMAIN order : order[i] = c
    BY DEF Orders
  <2>2. CASE i = r
    BY <1>1, <2>1, <2>2
  <2>3. CASE i = s
    BY <1>1, <2>1, <2>3
  <2>4. CASE i \notin {r, s}
    BY <1>1, <2>1, <2>4
  <2>. QED BY <2>2, <2>3, <2>4
<1>. QED BY <1>2, <1>3 DEF Orders

LEMMA SettingsStart == SettingsInit => SettingsInv
<1> SUFFICES ASSUME SettingsInit PROVE SettingsInv
  OBVIOUS
<1>1. DefaultSettings.order \in Orders
  BY OrdersExist DEF DefaultSettings
<1>2. DefaultSettings.presets \in PresetSets
  BY SettingsConstants DEF DefaultSettings, PresetSets
<1>3. DefaultSettings.visible = Clients /\ DOMAIN DefaultSettings = SettingsFields
  BY DEF DefaultSettings, SettingsFields
<1>4. Whole(DefaultSettings)
  BY <1>1, <1>2, <1>3, SettingsConstants DEF Whole, ValidClients, PresetSets
<1>5. RequestsAreWhole
  <2>1. requests \in Seq({})
    BY DEF SettingsInit
  <2>. QED BY <2>1 DEF RequestsAreWhole, IsSeq, SettingsInit
<1>6. WholePage(current)
  BY DEF SettingsInit, Root, WholePage
<1>7. busy \in BOOLEAN /\ keysLeft \in 0..MaxKeys /\ elsewhereLeft \in 0..MaxElsewhere
  <2>1. MaxKeys \in Nat /\ MaxElsewhere \in Nat
    BY SettingsConstants
  <2>2. keysLeft = MaxKeys /\ elsewhereLeft = MaxElsewhere
    BY DEF SettingsInit
  <2>3. busy = FALSE
    BY DEF SettingsInit
  <2>4. MaxKeys \in 0..MaxKeys /\ MaxElsewhere \in 0..MaxElsewhere
    BY <2>1
  <2>. QED BY <2>2, <2>3, <2>4
<1>8. Whole(shown) /\ Whole(daemon)
  BY <1>4 DEF SettingsInit
<1>. QED BY <1>5, <1>6, <1>7, <1>8 DEF SettingsInv

(* What a key leaves: the settings, and what it counts down.               *)
LEMMA KeysLeaveSettings ==
  ASSUME SettingsInv, SettingsKey, Local
  PROVE  /\ Whole(shown)' /\ Whole(daemon)' /\ keysLeft' \in 0..MaxKeys
         /\ elsewhereLeft' \in 0..MaxElsewhere
<1>1. Whole(shown)' /\ Whole(daemon)'
  BY DEF SettingsInv, Local, Whole, ValidClients
<1>2. keysLeft' \in 0..MaxKeys
  BY SettingsConstants DEF SettingsInv, SettingsKey
<1>. QED BY <1>1, <1>2 DEF SettingsInv, Local

LEMMA SendsKeep ==
  ASSUME RequestsAreWhole, NEW r, SendsWhole(r), Send(r)
  PROVE  RequestsAreWhole' /\ busy' \in BOOLEAN
<1>1. requests' = Append(requests, r)
  BY DEF Send
<1>2. IsSeq(requests)
  BY DEF RequestsAreWhole
<1>3. /\ IsSeq(requests') /\ Len(requests) \in Nat /\ DOMAIN requests = 1..Len(requests)
      /\ DOMAIN requests' = 1..(Len(requests) + 1)
      /\ \A i \in 1..Len(requests) : requests'[i] = requests[i]
      /\ requests'[Len(requests) + 1] = r
  BY <1>1, <1>2, QueueAppends
<1>4. ASSUME NEW i \in DOMAIN requests' PROVE SendsWhole(requests'[i])
  <2>1. CASE i = Len(requests) + 1
    BY <1>3, <2>1
  <2>2. CASE i \in 1..Len(requests)
    BY <1>3, <2>2 DEF RequestsAreWhole
  <2>. QED BY <1>3, <2>1, <2>2
<1>. QED BY <1>3, <1>4 DEF Send, RequestsAreWhole

LEMMA SilenceKeeps ==
  ASSUME RequestsAreWhole, busy \in BOOLEAN, Silent
  PROVE  RequestsAreWhole' /\ busy' \in BOOLEAN
BY DEF RequestsAreWhole, Silent

LEMMA ChangesAreWhole ==
  ASSUME NEW r, r.change \in Changes \ {"clients"}
  PROVE  SendsWhole(r)
BY DEF SendsWhole, Changes

(* A key that does not touch the two list pages, or leaves them.           *)
PlainPage(p) == "at" \in DOMAIN p /\ p.at \notin {"order", "presets"}
LEMMA PlainIsWhole == \A p : PlainPage(p) => WholePage(p)
BY DEF PlainPage, WholePage

Navigates == OpenFromRoot \/ Climb \/ EditHost \/ CancelHost \/ EditUpstream \/ LeaveUpstream

LEMMA NavigationIsPlain ==
  ASSUME WholePage(current), Navigates
  PROVE  PlainPage(current)' /\ SettingsKey /\ Silent /\ Local
<1> USE DEF PlainPage
<1>0. "at" \in DOMAIN current
  BY DEF WholePage
<1>1. CASE OpenFromRoot
  BY <1>1 DEF OpenFromRoot
<1>2. CASE Climb
  BY <1>2 DEF Climb, Root
<1>3. CASE EditHost
  BY <1>0, <1>3 DEF EditHost, At
<1>4. CASE CancelHost
  BY <1>0, <1>4 DEF CancelHost, At
<1>5. CASE EditUpstream
  <2>1. /\ current.at = "upstream" /\ SettingsKey /\ Silent /\ Local
        /\ \/ \E mode \in Modes : current' = [current EXCEPT !.mode = mode, !.dirty = TRUE]
           \/ \E text \in Hosts : current' = [current EXCEPT !.host = text, !.dirty = TRUE]
           \/ current' = [current EXCEPT !.typed = TRUE, !.clear = FALSE, !.dirty = TRUE]
           \/ current' = [current EXCEPT !.typed = FALSE, !.clear = TRUE, !.dirty = TRUE]
    BY <1>5 DEF EditUpstream, At
  <2>. QED BY <1>0, <2>1
<1>6. CASE LeaveUpstream
  BY <1>6 DEF LeaveUpstream, Root
<1>. QED BY <1>1, <1>2, <1>3, <1>4, <1>5, <1>6 DEF Navigates

(* A key that sends one setting.                                           *)
Submits ==
  ToggleProxy \/ CommitHost \/ CommitUpstream \/ PickLanguage \/ ToggleClientOption

LEMMA SubmissionsKeep ==
  ASSUME SettingsInv, Submits
  PROVE  /\ WholePage(current)' /\ SettingsKey /\ Local
         /\ RequestsAreWhole' /\ busy' \in BOOLEAN
<1>0. "at" \in DOMAIN current /\ WholePage(current) /\ RequestsAreWhole /\ busy \in BOOLEAN
  BY DEF SettingsInv, WholePage
<1>1. ASSUME NEW r, r.change \in Changes \ {"clients"}, Send(r)
      PROVE  RequestsAreWhole' /\ busy' \in BOOLEAN
  BY <1>0, <1>1, SendsKeep, ChangesAreWhole
<1>2. Silent => RequestsAreWhole' /\ busy' \in BOOLEAN
  BY <1>0, SilenceKeeps
<1>3. Stay => WholePage(current)'
  BY <1>0 DEF Stay
<1>4. CASE ToggleProxy
  BY <1>1, <1>3, <1>4 DEF ToggleProxy, Changes
<1>5. CASE CommitHost
  <2>1. PlainPage(current)'
    BY <1>0, <1>5 DEF CommitHost, At, PlainPage
  <2>. QED BY <1>1, <1>2, <1>5, <2>1, PlainIsWhole DEF CommitHost, Changes
<1>6. CASE CommitUpstream
  <2>1. CASE UpstreamIsValid
    <3>1. PlainPage(current)'
      BY <1>0, <1>6, <2>1 DEF CommitUpstream, At, PlainPage
    <3>. QED BY <1>1, <1>6, <2>1, <3>1, PlainIsWhole DEF CommitUpstream, Changes
  <2>2. CASE ~UpstreamIsValid
    BY <1>2, <1>3, <1>6, <2>2 DEF CommitUpstream
  <2>. QED BY <2>1, <2>2
<1>7. CASE PickLanguage
  <2>1. PlainPage(current)'
    BY <1>7 DEF PickLanguage, Root, PlainPage
  <2>. QED BY <1>1, <1>7, <2>1, PlainIsWhole DEF PickLanguage, Changes
<1>8. CASE ToggleClientOption
  BY <1>1, <1>3, <1>8 DEF ToggleClientOption, Changes
<1>. QED BY <1>4, <1>5, <1>6, <1>7, <1>8 DEF Submits

(* The list pages.                                                         *)
LEMMA ClientsAreWhole ==
  ASSUME Whole(shown)
  PROVE  /\ ClientsOf(shown).order \in Orders /\ ClientsOf(shown).presets \in PresetSets
         /\ ClientsOf(shown).visible # {} /\ ClientsOf(shown).visible \subseteq Clients
         /\ ClientsOf(shown) = [order |-> shown.order, visible |-> shown.visible,
                                presets |-> shown.presets]
BY DEF Whole, ValidClients, ClientsOf

LEMMA WholeClientsAreSent ==
  ASSUME NEW order \in Orders, NEW seen \in SUBSET Clients, seen # {}, NEW limits \in PresetSets
  PROVE  SendsWhole([change |-> "clients",
                     to |-> [order |-> order, visible |-> seen, presets |-> limits]])
BY DEF SendsWhole, Changes, ValidClients, PresetSets

LEMMA VisibilityKeeps ==
  ASSUME SettingsInv, ToggleVisible
  PROVE  /\ WholePage(current)' /\ SettingsKey /\ Local
         /\ RequestsAreWhole' /\ busy' \in BOOLEAN
<1>0. /\ Whole(shown) /\ WholePage(current) /\ RequestsAreWhole /\ busy \in BOOLEAN
      /\ Stay /\ SettingsKey /\ Local
  BY DEF SettingsInv, ToggleVisible
<1>1. WholePage(current)'
  BY <1>0 DEF Stay
<1>2. PICK c \in Clients :
        IF c \notin shown.visible
        THEN SendClients([ClientsOf(shown) EXCEPT !.visible = @ \cup {c}])
        ELSE IF Cardinality(shown.visible) = 1
             THEN Silent
             ELSE SendClients([ClientsOf(shown) EXCEPT !.visible = @ \ {c}])
  BY DEF ToggleVisible
<1>3. shown.order \in Orders /\ shown.presets \in PresetSets /\ shown.visible \subseteq Clients
  BY <1>0 DEF Whole, ValidClients
<1>4. ASSUME NEW seen \in SUBSET Clients, seen # {},
             SendClients([order |-> shown.order, visible |-> seen, presets |-> shown.presets])
      PROVE  RequestsAreWhole' /\ busy' \in BOOLEAN
  BY <1>0, <1>3, <1>4, WholeClientsAreSent, SendsKeep DEF SendClients
<1>5. CASE c \notin shown.visible
  <2>1. [ClientsOf(shown) EXCEPT !.visible = @ \cup {c}]
          = [order |-> shown.order, visible |-> shown.visible \cup {c}, presets |-> shown.presets]
    BY DEF ClientsOf
  <2>2. shown.visible \cup {c} \in SUBSET Clients /\ shown.visible \cup {c} # {}
    BY <1>3
  <2>. QED BY <1>0, <1>1, <1>2, <1>4, <1>5, <2>1, <2>2
<1>6. CASE c \in shown.visible /\ Cardinality(shown.visible) = 1
  BY <1>0, <1>1, <1>2, <1>6, SilenceKeeps
<1>7. CASE c \in shown.visible /\ Cardinality(shown.visible) # 1
  <2>1. [ClientsOf(shown) EXCEPT !.visible = @ \ {c}]
          = [order |-> shown.order, visible |-> shown.visible \ {c}, presets |-> shown.presets]
    BY DEF ClientsOf
  <2>2. shown.visible \ {c} # {}
    <3>1. SUFFICES ASSUME shown.visible \ {c} = {} PROVE FALSE
      OBVIOUS
    <3>2. shown.visible = {c}
      BY <1>7, <3>1
    <3>. QED BY <1>7, <3>2, FS_Singleton
  <2>. QED BY <1>0, <1>1, <1>2, <1>3, <1>4, <1>7, <2>1, <2>2
<1>. QED BY <1>5, <1>6, <1>7

(* The order: a grabbed client is carried from row to row.                 *)
Arranges == OpenFromClients \/ Grab \/ MoveClient \/ PutBack \/ DropClient

LEMMA ArrangingKeeps ==
  ASSUME SettingsInv, Arranges
  PROVE  /\ WholePage(current)' /\ SettingsKey /\ Local
         /\ RequestsAreWhole' /\ busy' \in BOOLEAN
<1>0. /\ Whole(shown) /\ WholePage(current) /\ RequestsAreWhole /\ busy \in BOOLEAN
      /\ "at" \in DOMAIN current
  BY DEF SettingsInv, WholePage
<1>1. Silent => RequestsAreWhole' /\ busy' \in BOOLEAN
  BY <1>0, SilenceKeeps
<1>2. SettingsKey /\ Local
  BY DEF Arranges, OpenFromClients, Grab, MoveClient, PutBack, DropClient
<1>3. shown.order \in Orders /\ \A order \in Orders : DOMAIN order = 1..Cardinality(Clients)
  BY <1>0 DEF Whole, ValidClients, Orders
<1>4. 1 \in 1..Cardinality(Clients)
  BY OrdersExist
<1>5. CASE OpenFromClients
  <2>1. ASSUME current' = [at |-> "order", order |-> shown.order, row |-> 1, moving |-> FALSE]
        PROVE  WholePage(current)'
    <3>1. /\ DOMAIN current' = {"at", "order", "row", "moving"}
          /\ current'.at = "order" /\ current'.order = shown.order /\ current'.row = 1
      BY <2>1
    <3>. QED BY <1>3, <1>4, <3>1 DEF WholePage, OrderPage
  <2>2. ASSUME current' \in {[at |-> "client", client |-> c] : c \in Clients} \cup {[at |-> "visibility"]}
        PROVE  WholePage(current)'
    <3>1. PlainPage(current)'
      BY <2>2 DEF PlainPage
    <3>. QED BY <3>1, PlainIsWhole
  <2>. QED BY <1>1, <1>2, <1>5, <2>1, <2>2 DEF OpenFromClients
<1>6. At("order") => OrderPage(current)
  BY <1>0 DEF At, WholePage
<1>7. CASE Grab
  BY <1>0, <1>1, <1>2, <1>3, <1>6, <1>7 DEF Grab, WholePage, OrderPage, At
<1>8. CASE MoveClient
  <2>1. PICK r \in DOMAIN current.order \ {current.row} :
          current' = [current EXCEPT !.row = r,
                     !.order = [@ EXCEPT ![r] = current.order[current.row],
                                         ![current.row] = current.order[r]]]
    BY <1>8 DEF MoveClient
  <2>2. [current.order EXCEPT ![r] = current.order[current.row], ![current.row] = current.order[r]]
          \in Orders
    BY <1>6, <1>8, SwapsKeepOrders DEF MoveClient, OrderPage
  <2>3. /\ current'.at = "order" /\ "at" \in DOMAIN current' /\ current'.row = r
        /\ {"order", "row", "moving"} \subseteq DOMAIN current'
        /\ current'.order = [current.order EXCEPT ![r] = current.order[current.row],
                                                  ![current.row] = current.order[r]]
    BY <1>0, <1>6, <1>8, <2>1 DEF MoveClient, OrderPage, At
  <2>4. WholePage(current)'
    BY <1>3, <1>6, <1>8, <2>2, <2>3 DEF WholePage, OrderPage, MoveClient
  <2>. QED BY <1>1, <1>2, <1>8, <2>4 DEF MoveClient
<1>9. CASE PutBack
  BY <1>0, <1>1, <1>2, <1>3, <1>6, <1>9 DEF PutBack, WholePage, OrderPage, At
<1>10. CASE DropClient
  <2>1. WholePage(current)'
    BY <1>0, <1>3, <1>6, <1>10 DEF DropClient, WholePage, OrderPage, At
  <2>2. current.order \in Orders /\ shown.visible \in SUBSET Clients /\ shown.visible # {}
        /\ shown.presets \in PresetSets
    BY <1>0, <1>6, <1>10 DEF DropClient, OrderPage, Whole, ValidClients
  <2>3. [ClientsOf(shown) EXCEPT !.order = current.order]
          = [order |-> current.order, visible |-> shown.visible, presets |-> shown.presets]
    BY DEF ClientsOf
  <2>4. SendClients([ClientsOf(shown) EXCEPT !.order = current.order])
          => RequestsAreWhole' /\ busy' \in BOOLEAN
    BY <1>0, <2>2, <2>3, WholeClientsAreSent, SendsKeep DEF SendClients
  <2>. QED BY <1>1, <1>2, <1>10, <2>1, <2>4 DEF DropClient
<1>. QED BY <1>5, <1>7, <1>8, <1>9, <1>10 DEF Arranges

(* The presets.                                                            *)
LEMMA PresetsSent ==
  ASSUME Whole(shown), RequestsAreWhole, NEW kind \in Kinds, NEW limits \in SUBSET (1..MaxTokens),
         SendClients([ClientsOf(shown) EXCEPT !.presets[kind] = limits])
  PROVE  /\ RequestsAreWhole' /\ busy' \in BOOLEAN
         /\ requests' = Append(requests, [change |-> "clients",
              to |-> [ClientsOf(shown) EXCEPT !.presets[kind] = limits]])
         /\ [ClientsOf(shown) EXCEPT !.presets[kind] = limits].presets[kind] = limits
<1> DEFINE all == [shown.presets EXCEPT ![kind] = limits]
<1>1. shown.presets \in PresetSets /\ shown.order \in Orders /\ shown.visible \in SUBSET Clients
      /\ shown.visible # {}
  BY DEF Whole, ValidClients
<1>2. all \in PresetSets /\ all[kind] = limits
  BY <1>1 DEF PresetSets
<1>3. [ClientsOf(shown) EXCEPT !.presets[kind] = limits]
        = [order |-> shown.order, visible |-> shown.visible, presets |-> all]
  BY DEF ClientsOf
<1> HIDE DEF all
<1>4. SendsWhole([change |-> "clients",
                  to |-> [order |-> shown.order, visible |-> shown.visible, presets |-> all]])
  BY <1>1, <1>2, WholeClientsAreSent
<1>. QED BY <1>2, <1>3, <1>4, SendsKeep DEF SendClients, Send

LEMMA PresetHereIsThere ==
  ASSUME RowIsThere
  PROVE  PresetHere \in PresetsHere
BY DEF RowIsThere, PresetHere

EditsPresets == OpenPresets \/ MovePreset \/ EditPreset \/ CommitPreset \/ DeletePreset \/ LeavePresets

LEMMA PresetsKeep ==
  ASSUME SettingsInv, EditsPresets
  PROVE  /\ WholePage(current)' /\ SettingsKey /\ Local
         /\ RequestsAreWhole' /\ busy' \in BOOLEAN
<1>0. /\ Whole(shown) /\ WholePage(current) /\ RequestsAreWhole /\ busy \in BOOLEAN
      /\ "at" \in DOMAIN current
  BY DEF SettingsInv, WholePage
<1>1. Silent => RequestsAreWhole' /\ busy' \in BOOLEAN
  BY <1>0, SilenceKeeps
<1>2. SettingsKey /\ Local
  BY DEF EditsPresets, OpenPresets, MovePreset, EditPreset, CommitPreset, DeletePreset, LeavePresets,
         PresetKey
<1>3. At("presets") => PresetPage(current)
  BY <1>0 DEF At, WholePage
<1>4. ASSUME At("presets"), "at" \in DOMAIN current', current'.at = "presets", PresetPage(current)'
      PROVE  WholePage(current)'
  BY <1>4 DEF WholePage
<1>5. CASE OpenPresets
  <2>1. PICK kind \in Kinds :
          current' = [at |-> "presets", kind |-> kind, row |-> 1, armed |-> 0,
                      original |-> 0, editing |-> FALSE, back |-> current.client]
    BY <1>5 DEF OpenPresets
  <2>2. WholePage(current)'
    BY <2>1 DEF WholePage, PresetPage
  <2>. QED BY <1>1, <1>2, <1>5, <2>2 DEF OpenPresets
<1>6. CASE MovePreset
  <2>1. PICK r : current' = [current EXCEPT !.row = r, !.armed = 0]
    BY <1>6 DEF MovePreset
  <2>2. WholePage(current)'
    BY <1>0, <1>3, <1>6, <2>1 DEF MovePreset, PresetKey, At, WholePage, PresetPage
  <2>. QED BY <1>1, <1>2, <1>6, <2>2 DEF MovePreset
<1>7. CASE EditPreset
  <2>1. PICK t : current' = [current EXCEPT !.editing = TRUE, !.original = t, !.armed = 0]
    BY <1>7 DEF EditPreset
  <2>2. WholePage(current)'
    BY <1>0, <1>3, <1>7, <2>1 DEF EditPreset, PresetKey, At, WholePage, PresetPage
  <2>. QED BY <1>1, <1>2, <1>7, <2>2 DEF EditPreset
<1>8. CASE LeavePresets
  <2>1. CASE current.editing
    <3>1. WholePage(current)'
      BY <1>0, <1>3, <1>8, <2>1 DEF LeavePresets, PresetKey, At, WholePage, PresetPage
    <3>. QED BY <1>1, <1>2, <1>8, <3>1 DEF LeavePresets
  <2>2. CASE ~current.editing
    <3>1. WholePage(current)'
      BY <1>8, <2>2 DEF LeavePresets, WholePage
    <3>. QED BY <1>1, <1>2, <1>8, <3>1 DEF LeavePresets
  <2>. QED BY <2>1, <2>2
<1>9. CASE CommitPreset
  <2>1. PICK tokens \in 1..MaxTokens :
          IF tokens = current.original
          THEN current' = [current EXCEPT !.editing = FALSE] /\ Silent
          ELSE IF tokens \in PresetsHere
          THEN Stay /\ Silent
          ELSE LET limits == (PresetsHere \ {current.original}) \cup {tokens} IN
                 /\ current' = [current EXCEPT !.editing = FALSE,
                               !.row = Cardinality({t \in limits : t <= tokens})]
                 /\ SendClients([ClientsOf(shown) EXCEPT !.presets[current.kind] = limits])
    BY <1>9 DEF CommitPreset
  <2> DEFINE limits == (PresetsHere \ {current.original}) \cup {tokens}
  <2>2. At("presets") /\ current.at = "presets" /\ PresetPage(current)
    BY <1>3, <1>9 DEF CommitPreset, PresetKey, At
  <2>3. CASE current' = [current EXCEPT !.editing = FALSE] /\ Silent
    <3>1. WholePage(current)'
      BY <1>0, <2>2, <2>3 DEF WholePage, PresetPage
    <3>. QED BY <1>1, <1>2, <2>3, <3>1
  <2>4. CASE Stay /\ Silent
    <3>1. WholePage(current)'
      BY <1>0, <2>4 DEF Stay
    <3>. QED BY <1>1, <1>2, <2>4, <3>1
  <2>5. ASSUME NEW r, current' = [current EXCEPT !.editing = FALSE, !.row = r],
               SendClients([ClientsOf(shown) EXCEPT !.presets[current.kind] = limits])
        PROVE  WholePage(current)' /\ RequestsAreWhole' /\ busy' \in BOOLEAN
    <3>1. WholePage(current)'
      BY <1>0, <2>2, <2>5 DEF WholePage, PresetPage
    <3>2. limits \in SUBSET (1..MaxTokens) /\ current.kind \in Kinds
      BY <1>0, <2>2 DEF PresetPage, PresetsHere, Whole, PresetSets
    <3> HIDE DEF limits
    <3>. QED BY <1>0, <2>5, <3>1, <3>2, PresetsSent
  <2>. QED BY <1>2, <2>1, <2>3, <2>4, <2>5
<1>10. CASE DeletePreset
  <2>1. At("presets") /\ current.at = "presets" /\ PresetPage(current) /\ RowIsThere /\ ~current.editing
    BY <1>3, <1>10 DEF DeletePreset, PresetKey, At
  <2> DEFINE limits == PresetsHere \ {PresetHere}
  <2>2. limits \in SUBSET (1..MaxTokens) /\ current.kind \in Kinds
    BY <1>0, <2>1 DEF PresetPage, PresetsHere, Whole, PresetSets
  <2>3. CASE current.armed = PresetHere
    <3>1. PICK r : /\ current' = [current EXCEPT !.armed = 0, !.row = r]
                   /\ SendClients([ClientsOf(shown) EXCEPT !.presets[current.kind] = limits])
      BY <1>10, <2>3 DEF DeletePreset
    <3>2. WholePage(current)'
      BY <1>0, <2>1, <3>1 DEF WholePage, PresetPage
    <3> HIDE DEF limits
    <3>. QED BY <1>0, <1>2, <2>2, <3>1, <3>2, PresetsSent
  <2>4. CASE current.armed # PresetHere
    <3>1. current' = [current EXCEPT !.armed = PresetHere] /\ Silent
      BY <1>10, <2>4 DEF DeletePreset
    <3>2. WholePage(current)'
      BY <1>0, <2>1, <3>1 DEF WholePage, PresetPage
    <3>. QED BY <1>1, <1>2, <3>1, <3>2
  <2>. QED BY <2>3, <2>4
<1>. QED BY <1>5, <1>6, <1>7, <1>8, <1>9, <1>10 DEF EditsPresets

(* The answers.                                                            *)
LEMMA StoredIsWhole ==
  ASSUME Whole(daemon), NEW r, SendsWhole(r)
  PROVE  Whole(Stored(daemon, r))
<1> DEFINE after == Stored(daemon, r)
<1> SUFFICES Whole(after)
  OBVIOUS
<1>1. /\ DOMAIN daemon = SettingsFields /\ daemon.presets \in PresetSets /\ daemon.order \in Orders
      /\ daemon.visible # {} /\ daemon.visible \subseteq Clients
  BY DEF Whole, ValidClients
<1>2. CASE r.change = "clients"
  <2>1. after = [daemon EXCEPT !.order = r.to.order, !.visible = r.to.visible,
                                !.presets = r.to.presets]
    BY <1>2 DEF Stored
  <2>2. /\ DOMAIN after = SettingsFields /\ after.presets = r.to.presets
        /\ after.order = r.to.order /\ after.visible = r.to.visible
    BY <1>1, <2>1 DEF SettingsFields
  <2> HIDE DEF after
  <2>. QED BY <1>2, <2>2 DEF Whole, ValidClients, SendsWhole
<1>3. CASE r.change \in Changes \ {"clients"}
  <2>1. /\ DOMAIN after = SettingsFields /\ after.presets = daemon.presets
        /\ after.order = daemon.order /\ after.visible = daemon.visible
    <3>1. CASE r.change \in {"enabled", "host", "language"}
      BY <1>1, <3>1 DEF Stored, SettingsFields
    <3>2. CASE r.change \in {"auth", "display"}
      BY <1>1, <3>2 DEF Stored, SettingsFields
    <3>3. CASE r.change = "upstream"
      BY <1>1, <3>3 DEF Stored, SettingsFields
    <3>. QED BY <1>3, <3>1, <3>2, <3>3 DEF Changes
  <2> HIDE DEF after
  <2>. QED BY <2>1 DEF Whole, ValidClients
<1>. QED BY <1>2, <1>3 DEF SendsWhole

LEMMA PageAfterIsWhole ==
  ASSUME WholePage(current), NEW settings, settings.order \in Orders
  PROVE  WholePage(PageAfter(settings))
<1>0. "at" \in DOMAIN current
  BY DEF WholePage
<1>1. CASE At("upstream")
  <2>1. PageAfter(settings) \in {Root, current}
    BY <1>1 DEF PageAfter, At
  <2>2. WholePage(Root)
    BY DEF Root, WholePage
  <2>. QED BY <2>1, <2>2
<1>2. CASE At("proxy")
  BY <1>0, <1>2 DEF PageAfter, At, WholePage
<1>3. CASE At("order")
  <2>1. DOMAIN settings.order = DOMAIN current.order
    BY <1>3 DEF At, WholePage, OrderPage, Orders
  <2>. QED BY <1>0, <1>3, <2>1 DEF PageAfter, At, WholePage, OrderPage
<1>4. CASE ~At("upstream") /\ ~At("proxy") /\ ~At("order")
  BY <1>4 DEF PageAfter
<1>. QED BY <1>1, <1>2, <1>3, <1>4

LEMMA AdvancesKeep ==
  ASSUME RequestsAreWhole, requests # <<>>, requests' = Tail(requests)
  PROVE  RequestsAreWhole' /\ SendsWhole(Head(requests))
<1>1. IsSeq(requests)
  BY DEF RequestsAreWhole
<1>2. /\ IsSeq(requests') /\ Len(requests) \in Nat \ {0} /\ DOMAIN requests = 1..Len(requests)
      /\ DOMAIN requests' = 1..(Len(requests) - 1)
      /\ \A i \in 1..(Len(requests) - 1) : requests'[i] = requests[i + 1]
      /\ Head(requests) = requests[1]
  BY <1>1, QueueAdvances
<1>3. \A i \in 1..(Len(requests) - 1) : i + 1 \in DOMAIN requests
  BY <1>2
<1>. QED BY <1>2, <1>3 DEF RequestsAreWhole

LEMMA SettingsAnswersKeep ==
  ASSUME SettingsInv, Answer \/ Fail
  PROVE  SettingsInv'
<1>0. /\ Whole(shown) /\ Whole(daemon) /\ RequestsAreWhole /\ WholePage(current)
      /\ "at" \in DOMAIN current
  BY DEF SettingsInv, WholePage
<1>1. RequestsAreWhole' /\ SendsWhole(Head(requests))
  BY <1>0, AdvancesKeep DEF Answer, Fail
<1>2. keysLeft' \in 0..MaxKeys /\ elsewhereLeft' \in 0..MaxElsewhere /\ busy' \in BOOLEAN
  BY DEF Answer, Fail, Loaded, SettingsInv
<1>3. CASE Answer
  <2>1. PICK settings : Whole(settings) /\ daemon' = settings /\ shown' = settings
                        /\ current' = PageAfter(settings)
    BY <1>0, <1>1, <1>3, StoredIsWhole DEF Answer, Loaded
  <2>2. WholePage(current)'
    BY <1>0, <2>1, PageAfterIsWhole DEF Whole, ValidClients
  <2>3. Whole(daemon)' /\ Whole(shown)'
    BY <2>1
  <2>. QED BY <1>1, <1>2, <2>2, <2>3 DEF SettingsInv
<1>4. CASE Fail
  <2>1. WholePage(current)'
    BY <1>0, <1>4 DEF Fail, At, WholePage
  <2>2. Whole(daemon)' /\ Whole(shown)'
    BY <1>0, <1>4 DEF Fail
  <2>. QED BY <1>1, <1>2, <2>1, <2>2 DEF SettingsInv
<1>. QED BY <1>3, <1>4

LEMMA ElsewhereKeeps ==
  ASSUME SettingsInv, ChangedElsewhere
  PROVE  SettingsInv'
<1>1. /\ DOMAIN daemon = SettingsFields /\ daemon.presets \in PresetSets /\ daemon.order \in Orders
      /\ daemon.visible # {} /\ daemon.visible \subseteq Clients
  BY DEF SettingsInv, Whole, ValidClients
<1>2. Whole(daemon)'
  <2>1. CASE \E seen \in (SUBSET Clients) \ {{}} : daemon' = [daemon EXCEPT !.visible = seen]
    <3>1. PICK seen \in (SUBSET Clients) \ {{}} : daemon' = [daemon EXCEPT !.visible = seen]
      BY <2>1
    <3>2. /\ DOMAIN daemon' = SettingsFields /\ daemon'.presets = daemon.presets
          /\ daemon'.order = daemon.order /\ daemon'.visible = seen
      BY <1>1, <3>1 DEF SettingsFields
    <3>3. daemon'.presets \in PresetSets /\ \A kind \in Kinds : daemon'.presets[kind] \subseteq 1..MaxTokens
      BY <1>1, <3>2 DEF PresetSets
    <3>4. seen # {} /\ seen \subseteq Clients
      BY <3>1
    <3>5. daemon'.order \in Orders /\ daemon'.visible # {} /\ daemon'.visible \subseteq Clients
      BY <1>1, <3>2, <3>4
    <3>. QED BY <3>2, <3>3, <3>5 DEF Whole, ValidClients
  <2>2. CASE \E tokens \in 1..MaxTokens, kind \in Kinds :
               daemon' = [daemon EXCEPT !.presets[kind] =
                            IF tokens \in @ THEN @ \ {tokens} ELSE @ \cup {tokens}]
    <3>1. PICK tokens \in 1..MaxTokens, kind \in Kinds :
               daemon' = [daemon EXCEPT !.presets[kind] =
                            IF tokens \in @ THEN @ \ {tokens} ELSE @ \cup {tokens}]
      BY <2>2
    <3>2. /\ DOMAIN daemon' = SettingsFields /\ daemon'.visible = daemon.visible
          /\ daemon'.order = daemon.order
          /\ daemon'.presets = [daemon.presets EXCEPT ![kind] =
                                  IF tokens \in @ THEN @ \ {tokens} ELSE @ \cup {tokens}]
      BY <1>1, <3>1 DEF SettingsFields
    <3>3. daemon'.presets \in PresetSets
      BY <1>1, <3>1, <3>2 DEF PresetSets
    <3>. QED BY <1>1, <3>2, <3>3 DEF Whole, ValidClients, PresetSets
  <2>. QED BY <2>1, <2>2 DEF ChangedElsewhere
<1>3. elsewhereLeft' \in 0..MaxElsewhere
  BY SettingsConstants DEF SettingsInv, ChangedElsewhere
<1>. QED BY <1>2, <1>3 DEF SettingsInv, ChangedElsewhere, Whole, ValidClients, RequestsAreWhole

LEMMA LapseKeeps ==
  ASSUME SettingsInv, Lapse
  PROVE  SettingsInv'
<1>1. At("presets") /\ WholePage(current) /\ "at" \in DOMAIN current
      /\ current' = [current EXCEPT !.armed = 0]
  BY DEF SettingsInv, Lapse, WholePage
<1>2. WholePage(current)'
  BY <1>1 DEF At, WholePage, PresetPage
<1>. QED BY <1>2 DEF SettingsInv, Lapse, Whole, ValidClients, RequestsAreWhole

LEMMA SettingsStep ==
  ASSUME SettingsInv, [SettingsNext]_settingsVars
  PROVE  SettingsInv'
<1>1. ASSUME WholePage(current)', SettingsKey, Local, RequestsAreWhole', busy' \in BOOLEAN
      PROVE  SettingsInv'
  BY <1>1, KeysLeaveSettings DEF SettingsInv
<1>2. CASE Navigates
  <2>1. PlainPage(current)' /\ SettingsKey /\ Silent /\ Local
    BY <1>2, NavigationIsPlain DEF SettingsInv
  <2>2. RequestsAreWhole' /\ busy' \in BOOLEAN
    BY <2>1, SilenceKeeps DEF SettingsInv
  <2>. QED BY <1>1, <2>1, <2>2, PlainIsWhole
<1>3. CASE Submits \/ ToggleVisible \/ Arranges \/ EditsPresets
  BY <1>1, <1>3, SubmissionsKeep, VisibilityKeeps, ArrangingKeeps, PresetsKeep
<1>4. CASE Answer \/ Fail \/ ChangedElsewhere \/ Lapse
  BY <1>4, SettingsAnswersKeep, ElsewhereKeeps, LapseKeeps
<1>5. CASE UNCHANGED settingsVars
  BY <1>5 DEF settingsVars, SettingsInv, Whole, ValidClients, RequestsAreWhole, WholePage,
              OrderPage, PresetPage
<1>. QED BY <1>2, <1>3, <1>4, <1>5 DEF SettingsNext, Navigates, Submits, Arranges, EditsPresets

LEMMA SettingsMean == SettingsInv => SettingsTypeOK /\ SentClientsAreValid
BY DEF SettingsInv, Whole, SettingsTypeOK, SentClientsAreValid, RequestsAreWhole, SendsWhole

(* What leaves the list of presets.                                        *)
LEMMA DeletionsAreArmed ==
  ASSUME SettingsInv, [SettingsNext]_settingsVars, At("presets"), current.armed # 0,
         Len(requests') > Len(requests), NEW kind, kind = current.kind, NEW token, token = current.armed
  PROVE  shown.presets[kind] \ requests'[Len(requests')].to.presets[kind] = {token}
<1>0. /\ Whole(shown) /\ RequestsAreWhole /\ PresetPage(current) /\ current.at = "presets"
  BY DEF SettingsInv, WholePage, At
<1>1. Len(requests) \in Nat
  BY <1>0, QueueAppends DEF RequestsAreWhole
<1>2. requests' # requests
  BY <1>1
<1>3. ~Silent
  BY <1>2 DEF Silent
<1>4. CASE DeletePreset
  <2>1. RowIsThere /\ current.armed = PresetHere
    BY <1>3, <1>4 DEF DeletePreset
  <2> DEFINE limits == PresetsHere \ {PresetHere}
  <2>2. SendClients([ClientsOf(shown) EXCEPT !.presets[kind] = limits])
    BY <1>4, <2>1 DEF DeletePreset
  <2>3. limits \in SUBSET (1..MaxTokens) /\ kind \in Kinds
    BY <1>0 DEF PresetPage, PresetsHere, Whole, PresetSets
  <2> HIDE DEF limits
  <2>4. /\ requests' = Append(requests, [change |-> "clients",
              to |-> [ClientsOf(shown) EXCEPT !.presets[kind] = limits]])
        /\ [ClientsOf(shown) EXCEPT !.presets[kind] = limits].presets[kind] = limits
    BY <1>0, <2>2, <2>3, PresetsSent
  <2>5. PICK last : last = [change |-> "clients",
                            to |-> [ClientsOf(shown) EXCEPT !.presets[kind] = limits]]
    OBVIOUS
  <2>6. requests'[Len(requests')] = last
    <3>1. IsSeq(requests) /\ requests' = Append(requests, last)
      BY <1>0, <2>4, <2>5 DEF RequestsAreWhole
    <3>2. Len(Append(requests, last)) = Len(requests) + 1 /\ Append(requests, last)[Len(requests) + 1] = last
      BY <3>1, QueueAppends
    <3>. QED BY <3>1, <3>2
  <2>7. requests'[Len(requests')].to.presets[kind] = limits
    BY <2>4, <2>5, <2>6
  <2>8. PresetHere \in shown.presets[kind] /\ limits = shown.presets[kind] \ {token}
    BY <2>1, PresetHereIsThere DEF PresetsHere, limits
  <2>. QED BY <2>1, <2>7, <2>8
<1>5. CASE CommitPreset
  BY <1>0, <1>5 DEF CommitPreset, PresetPage
<1>6. CASE Answer \/ Fail
  <2>1. Len(Tail(requests)) = Len(requests) - 1
    BY <1>0, <1>6, QueueAdvances DEF Answer, Fail, RequestsAreWhole
  <2>. QED BY <1>1, <1>6, <2>1 DEF Answer, Fail
<1>7. CASE \/ OpenFromRoot \/ OpenFromClients \/ OpenPresets \/ Climb
           \/ EditHost \/ CancelHost \/ EditUpstream \/ LeaveUpstream
           \/ Grab \/ MoveClient \/ PutBack \/ MovePreset \/ EditPreset \/ LeavePresets
  BY <1>3, <1>7 DEF OpenFromRoot, OpenFromClients, OpenPresets, Climb, EditHost, CancelHost,
     EditUpstream, LeaveUpstream, Grab, MoveClient, PutBack, MovePreset, EditPreset, LeavePresets
<1>8. CASE Lapse \/ ChangedElsewhere \/ UNCHANGED settingsVars
  BY <1>2, <1>8 DEF Lapse, ChangedElsewhere, settingsVars
<1>9. CASE \/ ToggleProxy \/ CommitHost \/ CommitUpstream \/ PickLanguage
           \/ ToggleClientOption \/ ToggleVisible \/ DropClient
  BY <1>0, <1>9 DEF ToggleProxy, CommitHost, CommitUpstream, PickLanguage, ToggleClientOption,
     ToggleVisible, DropClient, At
<1>. QED BY <1>4, <1>5, <1>6, <1>7, <1>8, <1>9 DEF SettingsNext

-----------------------------------------------------------------------------
(* The statistics page.                                                    *)

(* The last question of a kind that waits decides what the page will show.  *)
Waits(kind) == \E i \in DOMAIN asked : asked[i].kind = kind
LastAsks(kind, q) ==
  \E i \in DOMAIN asked :
    /\ asked[i].kind = kind /\ asked[i].query = q
    /\ \A j \in DOMAIN asked : j > i => asked[j].kind # kind

(* The page shows, or waits for, the report it names; an open day waits for *)
(* the report of that day, or shows it; the style is the daemon's unless a  *)
(* change of it waits.                                                      *)
ReportIsComing ==
  screen.open /\ ~wrongRange =>
    \A q : q = StatsQuery(client, screen) =>
      IF Waits("report") THEN LastAsks("report", q) ELSE "report" \in refused \/ screen.report = q
DayIsComing ==
  screen.open /\ screen.detail # NoDetail =>
    \A q : q = DayQuery(client, screen, screen.detail.day) =>
      IF Waits("day") THEN LastAsks("day", q) ELSE "day" \in refused \/ screen.detail.report = q
StyleIsComing == Waits("style") \/ "style" \in refused \/ style = savedStyle

ScreenFields ==
  {"open", "page", "report", "from", "to", "all", "provider", "model", "quota", "filter", "detail"}
StatsTypes ==
  /\ IsSeq(asked)
  /\ \A i \in DOMAIN asked :
       /\ asked[i].kind \in {"report", "day", "style"}
       /\ asked[i].kind = "day" => asked[i].query.from \in 1..Today
  /\ "open" \in DOMAIN screen
  /\ screen.open => DOMAIN screen = ScreenFields
  /\ screen.open /\ screen.detail # NoDetail =>
       DOMAIN screen.detail = {"day", "report"} /\ screen.detail.day \in 1..Today

StatsInv == StatsTypes /\ ReportIsComing /\ DayIsComing /\ StyleIsComing

LEMMA StatsStart == StatsInit => StatsInv
<1> SUFFICES ASSUME StatsInit PROVE StatsInv
  OBVIOUS
<1>1. asked \in Seq({}) /\ asked = <<>>
  BY DEF StatsInit
<1>. QED BY <1>1 DEF StatsInit, StatsInv, StatsTypes, IsSeq, ReportIsComing, DayIsComing,
                     StyleIsComing, Closed

(* A question at the end of the queue is the last of its kind.             *)
LEMMA AskedLast ==
  ASSUME IsSeq(asked), NEW kind, NEW q, Ask(kind, q)
  PROVE  /\ IsSeq(asked)' /\ Waits(kind)' /\ LastAsks(kind, q)'
         /\ \A other : other # kind =>
              /\ Waits(other) <=> Waits(other)'
              /\ \A p : LastAsks(other, p) => LastAsks(other, p)'
         /\ \A i \in DOMAIN asked' :
              asked'[i] = [kind |-> kind, query |-> q] \/ (i \in DOMAIN asked /\ asked'[i] = asked[i])
<1>1. asked' = Append(asked, [kind |-> kind, query |-> q])
  BY DEF Ask
<1>2. /\ IsSeq(asked') /\ Len(asked) \in Nat /\ DOMAIN asked = 1..Len(asked)
      /\ DOMAIN asked' = 1..(Len(asked) + 1)
      /\ \A i \in 1..Len(asked) : asked'[i] = asked[i]
      /\ asked'[Len(asked) + 1] = [kind |-> kind, query |-> q]
  BY <1>1, QueueAppends
<1>3. asked'[Len(asked) + 1].kind = kind /\ asked'[Len(asked) + 1].query = q
  BY <1>2
<1>4. Waits(kind)' /\ LastAsks(kind, q)'
  BY <1>2, <1>3 DEF Waits, LastAsks
<1>5. ASSUME NEW other, other # kind
      PROVE  /\ Waits(other) <=> Waits(other)'
             /\ \A p : LastAsks(other, p) => LastAsks(other, p)'
  <2>1. Waits(other) <=> Waits(other)'
    BY <1>2, <1>3, <1>5 DEF Waits
  <2>2. ASSUME NEW p, LastAsks(other, p) PROVE LastAsks(other, p)'
    <3>1. PICK i \in DOMAIN asked :
            /\ asked[i].kind = other /\ asked[i].query = p
            /\ \A j \in DOMAIN asked : j > i => asked[j].kind # other
      BY <2>2 DEF LastAsks
    <3>2. \A j \in DOMAIN asked' : j > i => asked'[j].kind # other
      BY <1>2, <1>3, <1>5, <3>1
    <3>3. i \in DOMAIN asked' /\ asked'[i] = asked[i]
      BY <1>2
    <3>. QED BY <3>1, <3>2, <3>3 DEF LastAsks
  <2>. QED BY <2>1, <2>2
<1>6. \A i \in DOMAIN asked' :
        asked'[i] = [kind |-> kind, query |-> q] \/ (i \in DOMAIN asked /\ asked'[i] = asked[i])
  BY <1>2
<1>. QED BY <1>2, <1>4, <1>5, <1>6

(* The first question leaves: if it was the last of its kind, it was the    *)
(* one that counts.                                                         *)
LEMMA AskedFirst ==
  ASSUME IsSeq(asked), asked # <<>>, asked' = Tail(asked)
  PROVE  /\ IsSeq(asked)'
         /\ \A kind : kind # Head(asked).kind => (Waits(kind) <=> Waits(kind)')
         /\ \A kind : Waits(kind)' => Waits(kind)
         /\ Waits(Head(asked).kind)
         /\ \A kind, p : LastAsks(kind, p) /\ Waits(kind)' => LastAsks(kind, p)'
         /\ \A kind, p : LastAsks(kind, p) /\ ~Waits(kind)' =>
              kind = Head(asked).kind /\ Head(asked).query = p
         /\ 1 \in DOMAIN asked /\ Head(asked) = asked[1]
         /\ \A i \in DOMAIN asked' : i + 1 \in DOMAIN asked /\ asked'[i] = asked[i + 1]
<1>1. /\ IsSeq(asked') /\ Len(asked) \in Nat \ {0} /\ DOMAIN asked = 1..Len(asked)
      /\ DOMAIN asked' = 1..(Len(asked) - 1)
      /\ \A i \in 1..(Len(asked) - 1) : asked'[i] = asked[i + 1]
      /\ Head(asked) = asked[1]
  BY QueueAdvances
<1>2. \A i \in DOMAIN asked' : i + 1 \in DOMAIN asked /\ asked'[i] = asked[i + 1]
  BY <1>1
<1>3. \A i \in DOMAIN asked : i # 1 => i - 1 \in DOMAIN asked' /\ asked'[i - 1] = asked[i]
  BY <1>1
<1>4. 1 \in DOMAIN asked
  BY <1>1
<1>5. Waits(Head(asked).kind)
  BY <1>1, <1>4 DEF Waits
<1>6. ASSUME NEW kind PROVE Waits(kind)' => Waits(kind)
  BY <1>2 DEF Waits
<1>7. ASSUME NEW kind, kind # Head(asked).kind, Waits(kind) PROVE Waits(kind)'
  BY <1>1, <1>3, <1>7 DEF Waits
<1>8. ASSUME NEW kind, NEW p, LastAsks(kind, p), Waits(kind)' PROVE LastAsks(kind, p)'
  <2>1. PICK i \in DOMAIN asked :
          /\ asked[i].kind = kind /\ asked[i].query = p
          /\ \A j \in DOMAIN asked : j > i => asked[j].kind # kind
    BY <1>8 DEF LastAsks
  <2>2. PICK k \in DOMAIN asked' : asked'[k].kind = kind
    BY <1>8 DEF Waits
  <2>3. i # 1
    BY <1>1, <1>2, <2>1, <2>2
  <2>4. i - 1 \in DOMAIN asked' /\ asked'[i - 1] = asked[i]
    BY <1>3, <2>3
  <2>5. \A j \in DOMAIN asked' : j > i - 1 => asked'[j].kind # kind
    BY <1>1, <1>2, <2>1
  <2>. QED BY <2>1, <2>4, <2>5 DEF LastAsks
<1>9. ASSUME NEW kind, NEW p, LastAsks(kind, p), ~Waits(kind)'
      PROVE  kind = Head(asked).kind /\ Head(asked).query = p
  <2>1. PICK i \in DOMAIN asked : asked[i].kind = kind /\ asked[i].query = p
    BY <1>9 DEF LastAsks
  <2>2. i = 1
    BY <1>3, <1>9, <2>1 DEF Waits
  <2>. QED BY <1>1, <2>1, <2>2
<1>. QED BY <1>1, <1>2, <1>4, <1>5, <1>6, <1>7, <1>8, <1>9

(* Which steps ask, and what a step that does not ask leaves alone.        *)
StatsNames == <<screen.open, screen.from, screen.to, screen.all, screen.provider, screen.model>>

LEMMA SameQuery ==
  ASSUME NEW s, NEW t, NEW who,
         s.from = t.from, s.to = t.to, s.all = t.all, s.provider = t.provider, s.model = t.model
  PROVE  StatsQuery(who, s) = StatsQuery(who, t)
BY DEF StatsQuery

LEMMA DayQueryIs ==
  ASSUME NEW s, DOMAIN s = ScreenFields, NEW who, NEW day
  PROVE  DayQuery(who, s, day) = [client |-> who, provider |-> s.provider, model |-> s.model,
                                  from |-> day, to |-> day]
<1> DEFINE t == [s EXCEPT !.all = FALSE, !.from = day, !.to = day]
<1>1. t.all = FALSE /\ t.from = day /\ t.to = day /\ t.provider = s.provider /\ t.model = s.model
  BY DEF ScreenFields
<1>2. DayQuery(who, s, day) = StatsQuery(who, t)
  BY DEF DayQuery
<1> HIDE DEF t
<1>. QED BY <1>1, <1>2 DEF StatsQuery

(* What each part needs of the page.                                       *)
TypesAgree ==
  /\ "open" \in DOMAIN screen'
  /\ screen'.open => DOMAIN screen' = ScreenFields
  /\ screen'.open /\ screen'.detail # NoDetail =>
       DOMAIN screen'.detail = {"day", "report"} /\ screen'.detail.day \in 1..Today
DayStays ==
  screen'.open /\ screen'.detail # NoDetail =>
    screen.open /\ screen'.detail = screen.detail
    /\ \A day : DayQuery(client', screen', day) = DayQuery(client, screen, day)
NameStays ==
  screen'.open /\ ~wrongRange' =>
    /\ screen.open /\ ~wrongRange /\ screen'.report = screen.report
    /\ StatsQuery(client', screen') = StatsQuery(client, screen)
StyleStays == style' = style /\ savedStyle' = savedStyle

LEMMA QuietKeeps ==
  ASSUME StatsInv, Quiet, UNCHANGED refused, TypesAgree, DayStays, NameStays, StyleStays
  PROVE  StatsInv'
<1>1. asked' = asked /\ refused' = refused
  BY DEF Quiet
<1>2. StatsTypes'
  BY <1>1 DEF StatsInv, StatsTypes, TypesAgree
<1>3. \A kind : Waits(kind)' <=> Waits(kind)
  BY <1>1 DEF Waits
<1>4. \A kind, q : LastAsks(kind, q)' <=> LastAsks(kind, q)
  BY <1>1 DEF LastAsks
<1>5. ReportIsComing'
  BY <1>1, <1>3, <1>4 DEF NameStays, StatsInv, ReportIsComing
<1>6. DayIsComing'
  BY <1>1, <1>3, <1>4 DEF DayStays, StatsInv, DayIsComing
<1>7. StyleIsComing'
  BY <1>1, <1>3 DEF StyleStays, StatsInv, StyleIsComing
<1>. QED BY <1>2, <1>5, <1>6, <1>7 DEF StatsInv

LEMMA AsksKeepTypes ==
  ASSUME StatsInv, NEW kind \in {"report", "day", "style"}, NEW q, Ask(kind, q), TypesAgree,
         kind = "day" => q.from \in 1..Today
  PROVE  StatsTypes'
<1>1. /\ IsSeq(asked)'
      /\ \A i \in DOMAIN asked' :
           asked'[i] = [kind |-> kind, query |-> q] \/ (i \in DOMAIN asked /\ asked'[i] = asked[i])
  BY AskedLast DEF StatsInv, StatsTypes
<1>2. ASSUME NEW i \in DOMAIN asked'
      PROVE  /\ asked'[i].kind \in {"report", "day", "style"}
             /\ asked'[i].kind = "day" => asked'[i].query.from \in 1..Today
  BY <1>1 DEF StatsInv, StatsTypes
<1>. QED BY <1>1, <1>2 DEF StatsTypes, TypesAgree

LEMMA ReportAskedKeeps ==
  ASSUME StatsInv, NEW q, Ask("report", q), q = StatsQuery(client', screen'), UNCHANGED refused,
         TypesAgree, screen'.open => screen'.detail = NoDetail, StyleStays
  PROVE  StatsInv'
<1>1. /\ Waits("report")' /\ LastAsks("report", q)' /\ (Waits("style") <=> Waits("style")')
  BY AskedLast DEF StatsInv, StatsTypes
<1>2. StatsTypes'
  BY AsksKeepTypes
<1>3. ReportIsComing'
  BY <1>1 DEF ReportIsComing
<1>4. DayIsComing'
  BY DEF DayIsComing
<1>5. StyleIsComing'
  BY <1>1 DEF StyleStays, StatsInv, StyleIsComing
<1>. QED BY <1>2, <1>3, <1>4, <1>5 DEF StatsInv

LEMMA DayAskedKeeps ==
  ASSUME StatsInv, NEW day \in 1..Today, NEW q, Ask("day", q), UNCHANGED refused,
         q = DayQuery(client', screen', day), q.from = day,
         screen'.detail = [day |-> day, report |-> NoReport],
         TypesAgree, NameStays, StyleStays
  PROVE  StatsInv'
<1>1. /\ Waits("day")' /\ LastAsks("day", q)'
      /\ (Waits("style") <=> Waits("style")') /\ (Waits("report") <=> Waits("report")')
      /\ \A p : LastAsks("report", p) => LastAsks("report", p)'
  BY AskedLast DEF StatsInv, StatsTypes
<1>2. StatsTypes'
  BY AsksKeepTypes
<1>3. ReportIsComing'
  BY <1>1 DEF NameStays, StatsInv, ReportIsComing
<1>4. DayIsComing'
  BY <1>1 DEF DayIsComing
<1>5. StyleIsComing'
  BY <1>1 DEF StyleStays, StatsInv, StyleIsComing
<1>. QED BY <1>2, <1>3, <1>4, <1>5 DEF StatsInv

LEMMA StyleAskedKeeps ==
  ASSUME StatsInv, NEW q, Ask("style", q), UNCHANGED <<client, screen, wrongRange, refused>>
  PROVE  StatsInv'
<1>1. /\ Waits("style")'
      /\ \A kind : kind # "style" => /\ Waits(kind) <=> Waits(kind)'
                                     /\ \A p : LastAsks(kind, p) => LastAsks(kind, p)'
  BY AskedLast DEF StatsInv, StatsTypes
<1>2. StatsTypes'
  BY AsksKeepTypes DEF StatsInv, StatsTypes, TypesAgree
<1>3. ReportIsComing'
  BY <1>1 DEF StatsInv, ReportIsComing
<1>4. DayIsComing'
  BY <1>1 DEF StatsInv, DayIsComing
<1>5. StyleIsComing'
  BY <1>1 DEF StyleIsComing
<1>. QED BY <1>2, <1>3, <1>4, <1>5 DEF StatsInv

(* Questions are answered or fail in their order.                          *)
LEMMA AnswersKeepTypes ==
  ASSUME StatsInv, asked # <<>>, asked' = Tail(asked), TypesAgree
  PROVE  StatsTypes'
<1>1. /\ IsSeq(asked)'
      /\ \A i \in DOMAIN asked' : i + 1 \in DOMAIN asked /\ asked'[i] = asked[i + 1]
  BY AskedFirst DEF StatsInv, StatsTypes
<1>. QED BY <1>1 DEF StatsInv, StatsTypes, TypesAgree

LEMMA FailuresKeep ==
  ASSUME StatsInv, StatsFail
  PROVE  StatsInv'
<1>0. /\ asked # <<>> /\ asked' = Tail(asked) /\ refused' = refused \cup {Head(asked).kind}
      /\ UNCHANGED <<client, screen, style, savedStyle, wrongRange>>
  BY DEF StatsFail
<1>1. PICK head : head = Head(asked)
  OBVIOUS
<1>2. /\ \A kind : kind # head.kind => (Waits(kind) <=> Waits(kind)')
      /\ \A kind : Waits(kind)' => Waits(kind)
      /\ \A kind, p : LastAsks(kind, p) /\ Waits(kind)' => LastAsks(kind, p)'
  BY <1>0, <1>1, AskedFirst DEF StatsInv, StatsTypes
<1>3. StatsTypes'
  BY <1>0, AnswersKeepTypes DEF StatsInv, StatsTypes, TypesAgree
<1>4. refused' = refused \cup {head.kind}
  BY <1>0, <1>1
<1>5. ReportIsComing'
  BY <1>0, <1>2, <1>4 DEF StatsInv, ReportIsComing
<1>6. DayIsComing'
  BY <1>0, <1>2, <1>4 DEF StatsInv, DayIsComing
<1>7. StyleIsComing'
  BY <1>0, <1>2, <1>4 DEF StatsInv, StyleIsComing
<1>. QED BY <1>3, <1>5, <1>6, <1>7 DEF StatsInv

LEMMA SameDayQuery ==
  ASSUME NEW s, NEW t, DOMAIN s = ScreenFields, DOMAIN t = ScreenFields,
         s.provider = t.provider, s.model = t.model, NEW who
  PROVE  \A day : DayQuery(who, s, day) = DayQuery(who, t, day)
<1>1. ASSUME NEW day PROVE DayQuery(who, s, day) = DayQuery(who, t, day)
  <2>1. DayQuery(who, s, day) = [client |-> who, provider |-> s.provider, model |-> s.model,
                                 from |-> day, to |-> day]
    BY DayQueryIs
  <2>2. DayQuery(who, t, day) = [client |-> who, provider |-> t.provider, model |-> t.model,
                                 from |-> day, to |-> day]
    BY DayQueryIs
  <2>. QED BY <2>1, <2>2
<1>. QED BY <1>1

LEMMA ReportAnswered ==
  ASSUME StatsInv, asked # <<>>, asked' = Tail(asked), Head(asked).kind = "report",
         NEW q, q = Head(asked).query, ReportLoaded(q), UNCHANGED <<client, wrongRange>>
  PROVE  StatsInv'
<1>1. /\ Waits("report") /\ (Waits("day") <=> Waits("day")') /\ (Waits("style") <=> Waits("style")')
      /\ \A p : LastAsks("report", p) /\ Waits("report")' => LastAsks("report", p)'
      /\ \A p : LastAsks("day", p) /\ Waits("day")' => LastAsks("day", p)'
      /\ \A p : LastAsks("report", p) /\ ~Waits("report")' => q = p
  BY AskedFirst DEF StatsInv, StatsTypes
<1>2. /\ StatsTypes /\ ReportIsComing /\ DayIsComing /\ StyleIsComing
  BY DEF StatsInv
<1>3. UNCHANGED <<style, savedStyle, client, wrongRange>>
  BY DEF ReportLoaded
<1>4. CASE ~screen.open
  <2>1. UNCHANGED <<screen, refused>>
    BY <1>4 DEF ReportLoaded
  <2>2. TypesAgree
    BY <2>1, <1>2 DEF TypesAgree, StatsTypes
  <2>. QED BY <2>1, <2>2, <1>1, <1>2, <1>3, <1>4, AnswersKeepTypes
           DEF StatsInv, ReportIsComing, DayIsComing, StyleIsComing
<1>5. CASE screen.open
  <2>1. /\ screen' = [screen EXCEPT !.report = q] /\ refused' = refused \ {"report"}
        /\ DOMAIN screen = ScreenFields
    BY <1>5, <1>2 DEF ReportLoaded, StatsTypes
  <2>2. /\ screen'.open /\ screen'.report = q /\ screen'.detail = screen.detail
        /\ screen'.from = screen.from /\ screen'.to = screen.to /\ screen'.all = screen.all
        /\ screen'.provider = screen.provider /\ screen'.model = screen.model
        /\ DOMAIN screen' = ScreenFields
    BY <1>5, <2>1 DEF ScreenFields
  <2>3. StatsQuery(client', screen') = StatsQuery(client, screen)
    BY <2>2, <1>3, SameQuery
  <2>4. \A day : DayQuery(client', screen', day) = DayQuery(client, screen, day)
    <3>1. PICK s, t : s = screen /\ t = screen'
      OBVIOUS
    <3>2. /\ DOMAIN s = ScreenFields /\ DOMAIN t = ScreenFields
          /\ t.provider = s.provider /\ t.model = s.model
      BY <3>1, <2>1, <2>2
    <3>3. \A day : DayQuery(client, t, day) = DayQuery(client, s, day)
      BY <3>2, SameDayQuery
    <3>. QED BY <3>1, <3>3, <1>3
  <2>5. TypesAgree
    BY <2>2, <1>2, <1>5 DEF TypesAgree, StatsTypes, ScreenFields
  <2>6. ReportIsComing'
    BY <1>1, <1>2, <1>3, <1>5, <2>2, <2>3 DEF ReportIsComing
  <2>7. DayIsComing'
    BY <1>1, <1>2, <1>3, <1>5, <2>1, <2>2, <2>4 DEF DayIsComing
  <2>8. StyleIsComing'
    BY <1>1, <1>2, <1>3, <2>1 DEF StyleIsComing
  <2>. QED BY <2>5, <2>6, <2>7, <2>8, AnswersKeepTypes DEF StatsInv
<1>. QED BY <1>4, <1>5

LEMMA DayAnswered ==
  ASSUME StatsInv, asked # <<>>, asked' = Tail(asked), Head(asked).kind = "day",
         NEW q, q = Head(asked).query, DayLoaded(q), UNCHANGED <<client, wrongRange>>
  PROVE  StatsInv'
<1>1. /\ Waits("day") /\ (Waits("report") <=> Waits("report")') /\ (Waits("style") <=> Waits("style")')
      /\ \A p : LastAsks("report", p) /\ Waits("report")' => LastAsks("report", p)'
      /\ \A p : LastAsks("day", p) /\ Waits("day")' => LastAsks("day", p)'
      /\ \A p : LastAsks("day", p) /\ ~Waits("day")' => q = p
      /\ 1 \in DOMAIN asked /\ Head(asked) = asked[1]
  BY AskedFirst DEF StatsInv, StatsTypes
<1>2. /\ StatsTypes /\ ReportIsComing /\ DayIsComing /\ StyleIsComing
  BY DEF StatsInv
<1>3. /\ UNCHANGED <<style, savedStyle, client, wrongRange>> /\ refused' = refused \ {"day"}
  BY DEF DayLoaded
<1>4. q.from \in 1..Today
  BY <1>1, <1>2 DEF StatsTypes
<1>5. StyleIsComing'
  BY <1>1, <1>2, <1>3 DEF StyleIsComing
<1>6. CASE ~(screen.open /\ screen.detail.day = q.from)
  <2>1. UNCHANGED screen
    BY <1>6 DEF DayLoaded
  <2>2. TypesAgree
    BY <2>1, <1>2 DEF TypesAgree, StatsTypes
  <2>3. ReportIsComing'
    BY <2>1, <1>1, <1>2, <1>3 DEF ReportIsComing
  <2>4. ASSUME screen.open, screen.detail # NoDetail, NEW p,
               p = DayQuery(client, screen, screen.detail.day)
        PROVE  q # p
    <3>1. DayQuery(client, screen, screen.detail.day).from = screen.detail.day
      BY <2>4, <1>2, DayQueryIs DEF StatsTypes
    <3>. QED BY <3>1, <2>4, <1>6
  <2>5. DayIsComing'
    BY <2>1, <2>4, <1>1, <1>2, <1>3 DEF DayIsComing
  <2>. QED BY <2>2, <2>3, <2>5, <1>5, AnswersKeepTypes DEF StatsInv
<1>7. CASE screen.open /\ screen.detail.day = q.from
  <2>1. /\ screen' = [screen EXCEPT !.detail.report = q] /\ DOMAIN screen = ScreenFields
    BY <1>7, <1>2 DEF DayLoaded, StatsTypes
  <2>2. screen.detail # NoDetail
    BY <1>4, <1>7 DEF NoDetail, StatsConstants
  <2>3. DOMAIN screen.detail = {"day", "report"} /\ screen.detail.day \in 1..Today
    BY <1>2, <1>7, <2>2 DEF StatsTypes
  <2>4. /\ screen'.open /\ screen'.report = screen.report
        /\ screen'.from = screen.from /\ screen'.to = screen.to /\ screen'.all = screen.all
        /\ screen'.provider = screen.provider /\ screen'.model = screen.model
        /\ DOMAIN screen' = ScreenFields
        /\ screen'.detail = [screen.detail EXCEPT !.report = q]
    BY <1>7, <2>1 DEF ScreenFields
  <2>5. /\ screen'.detail.day = screen.detail.day /\ screen'.detail.report = q
        /\ DOMAIN screen'.detail = {"day", "report"}
    BY <2>3, <2>4
  <2>6. StatsQuery(client', screen') = StatsQuery(client, screen)
    BY <2>4, <1>3, SameQuery
  <2>7. \A day : DayQuery(client', screen', day) = DayQuery(client, screen, day)
    <3>1. PICK s, t : s = screen /\ t = screen'
      OBVIOUS
    <3>2. /\ DOMAIN s = ScreenFields /\ DOMAIN t = ScreenFields
          /\ t.provider = s.provider /\ t.model = s.model
      BY <3>1, <2>1, <2>4
    <3>3. \A day : DayQuery(client, t, day) = DayQuery(client, s, day)
      BY <3>2, SameDayQuery
    <3>. QED BY <3>1, <3>3, <1>3
  <2>8. TypesAgree
    BY <2>3, <2>4, <2>5 DEF TypesAgree, ScreenFields
  <2>9. ReportIsComing'
    BY <1>1, <1>2, <1>3, <1>7, <2>4, <2>6 DEF ReportIsComing
  <2>10. DayIsComing'
    BY <1>1, <1>2, <1>3, <1>7, <2>2, <2>5, <2>7 DEF DayIsComing
  <2>. QED BY <2>8, <2>9, <2>10, <1>5, AnswersKeepTypes DEF StatsInv
<1>. QED BY <1>6, <1>7

LEMMA StyleAnswered ==
  ASSUME StatsInv, asked # <<>>, asked' = Tail(asked), Head(asked).kind = "style",
         NEW q, StyleSaved(q), UNCHANGED <<client, wrongRange>>
  PROVE  StatsInv'
<1>1. /\ (Waits("day") <=> Waits("day")') /\ (Waits("report") <=> Waits("report")')
      /\ \A p : LastAsks("report", p) /\ Waits("report")' => LastAsks("report", p)'
      /\ \A p : LastAsks("day", p) /\ Waits("day")' => LastAsks("day", p)'
  BY AskedFirst DEF StatsInv, StatsTypes
<1>2. /\ UNCHANGED <<screen, client, wrongRange>> /\ refused' = refused \ {"style"}
      /\ savedStyle' = style'
  BY DEF StyleSaved
<1>3. TypesAgree
  BY <1>2 DEF TypesAgree, StatsInv, StatsTypes
<1>4. ReportIsComing'
  BY <1>1, <1>2 DEF StatsInv, ReportIsComing
<1>5. DayIsComing'
  BY <1>1, <1>2 DEF StatsInv, DayIsComing
<1>6. StyleIsComing'
  BY <1>2 DEF StyleIsComing
<1>. QED BY <1>3, <1>4, <1>5, <1>6, AnswersKeepTypes DEF StatsInv

LEMMA StatsAnswersKeep ==
  ASSUME StatsInv, StatsAnswer
  PROVE  StatsInv'
<1>1. asked # <<>> /\ asked' = Tail(asked) /\ UNCHANGED <<client, wrongRange>>
  BY DEF StatsAnswer
<1>2. PICK answer : answer = Head(asked)
  OBVIOUS
<1>3. answer.kind \in {"report", "day", "style"}
  BY <1>1, <1>2, AskedFirst DEF StatsInv, StatsTypes
<1>4. CASE answer.kind = "report"
  <2>1. ReportLoaded(answer.query)
    BY <1>2, <1>4 DEF StatsAnswer
  <2>. QED BY <1>1, <1>2, <1>4, <2>1, ReportAnswered
<1>5. CASE answer.kind = "day"
  <2>1. DayLoaded(answer.query)
    BY <1>2, <1>5 DEF StatsAnswer
  <2>. QED BY <1>1, <1>2, <1>5, <2>1, DayAnswered
<1>6. CASE answer.kind = "style"
  <2>1. StyleSaved(answer.query)
    BY <1>2, <1>6 DEF StatsAnswer
  <2>. QED BY <1>1, <1>2, <1>6, <2>1, StyleAnswered
<1>. QED BY <1>3, <1>4, <1>5, <1>6

(* The keys of the page.                                                   *)
LEMMA RangesKeepFields ==
  ASSUME NEW s, DOMAIN s = ScreenFields, NEW range
  PROVE  /\ DOMAIN WithRange(s, range) = ScreenFields
         /\ WithRange(s, range).open = s.open /\ WithRange(s, range).detail = s.detail
BY DEF WithRange, ScreenFields

LEMMA AskingKeys ==
  ASSUME StatsInv,
         OpenStats \/ NextClient \/ CycleRange \/ Again \/ PickFilter \/ NarrowToDay
  PROVE  StatsInv'
<1>1. ("open" \in DOMAIN screen) /\ (screen.open => DOMAIN screen = ScreenFields)
  BY DEF StatsInv, StatsTypes
<1>2. UNCHANGED refused /\ StyleStays
  BY DEF OpenStats, NextClient, CycleRange, Again, PickFilter, NarrowToDay, Rest, KeepStyle, StyleStays
<1>3. /\ Ask("report", StatsQuery(client', screen'))
      /\ DOMAIN screen' = ScreenFields /\ screen'.open /\ screen'.detail = NoDetail
  <2>1. CASE OpenStats
    BY <2>1 DEF OpenStats, FreshScreen, ScreenFields
  <2>2. CASE NextClient
    BY <1>1, <2>2 DEF NextClient, Plain, ScreenFields
  <2>3. CASE CycleRange
    BY <1>1, <2>3, RangesKeepFields DEF CycleRange, Plain
  <2>4. CASE Again
    BY <1>1, <2>4 DEF Again, Plain
  <2>5. CASE PickFilter
    BY <1>1, <2>5 DEF PickFilter, Filtering, ScreenFields
  <2>6. CASE NarrowToDay
    BY <1>1, <2>6 DEF NarrowToDay, ScreenFields
  <2>. QED BY <2>1, <2>2, <2>3, <2>4, <2>5, <2>6
<1>4. TypesAgree
  BY <1>3 DEF TypesAgree, ScreenFields
<1>. QED BY <1>2, <1>3, <1>4, ReportAskedKeeps

LEMMA QuietKeys ==
  ASSUME StatsInv,
         \/ CloseStats \/ TurnPage \/ OpenFilter \/ CloseFilter \/ EditDates \/ PickPlan \/ CloseDay
  PROVE  StatsInv'
<1>1. ("open" \in DOMAIN screen) /\ (screen.open => DOMAIN screen = ScreenFields)
  BY DEF StatsInv, StatsTypes
<1>2. UNCHANGED <<client, refused>> /\ StyleStays /\ Quiet
  BY DEF CloseStats, TurnPage, OpenFilter, CloseFilter, EditDates, PickPlan, CloseDay,
         Rest, KeepStyle, StyleStays
<1>3. /\ "open" \in DOMAIN screen'
      /\ screen'.open => DOMAIN screen' = ScreenFields /\ screen'.detail = NoDetail
      /\ screen'.open /\ ~wrongRange' =>
           /\ screen.open /\ ~wrongRange /\ screen'.report = screen.report
           /\ screen'.from = screen.from /\ screen'.to = screen.to /\ screen'.all = screen.all
           /\ screen'.provider = screen.provider /\ screen'.model = screen.model
  <2>1. CASE CloseStats
    BY <2>1 DEF CloseStats, Closed
  <2>2. CASE TurnPage
    BY <1>1, <2>2 DEF TurnPage, Plain, ScreenFields
  <2>3. CASE OpenFilter
    BY <1>1, <2>3 DEF OpenFilter, Plain, ScreenFields
  <2>4. CASE CloseFilter
    BY <1>1, <2>4 DEF CloseFilter, ScreenFields
  <2>5. CASE EditDates
    BY <1>1, <2>5 DEF EditDates, Filtering, QueryRange, ScreenFields
  <2>6. CASE PickPlan
    BY <1>1, <2>6 DEF PickPlan, Filtering, ScreenFields
  <2>7. CASE CloseDay
    BY <1>1, <2>7 DEF CloseDay, ScreenFields
  <2>. QED BY <2>1, <2>2, <2>3, <2>4, <2>5, <2>6, <2>7
<1>4. TypesAgree
  BY <1>3 DEF TypesAgree
<1>5. DayStays
  BY <1>3 DEF DayStays
<1>6. NameStays
  BY <1>2, <1>3, SameQuery DEF NameStays
<1>. QED BY <1>2, <1>4, <1>5, <1>6, QuietKeeps

LEMMA RangePicked ==
  ASSUME StatsInv, PickRange
  PROVE  StatsInv'
<1>1. screen.open /\ screen.detail = NoDetail /\ DOMAIN screen = ScreenFields
  BY DEF PickRange, Filtering, StatsInv, StatsTypes
<1>2. UNCHANGED <<client, refused>> /\ StyleStays
  BY DEF PickRange, Rest, KeepStyle, StyleStays
<1>3. /\ DOMAIN screen' = ScreenFields /\ screen'.open /\ screen'.detail = NoDetail
      /\ \/ Ask("report", StatsQuery(client', screen'))
         \/ Quiet /\ wrongRange'
  <2>1. CASE \E range \in ChipDays \cup {AllTime} :
               screen' = [WithRange(screen, range) EXCEPT !.filter = NoFilter]
    <3>1. PICK range : screen' = [WithRange(screen, range) EXCEPT !.filter = NoFilter]
      BY <2>1
    <3>2. PICK s : s = WithRange(screen, range)
      OBVIOUS
    <3>3. DOMAIN s = ScreenFields /\ s.open /\ s.detail = NoDetail
      BY <1>1, <3>2, RangesKeepFields
    <3>4. screen' = [s EXCEPT !.filter = NoFilter]
      BY <3>1, <3>2
    <3>5. DOMAIN screen' = ScreenFields /\ screen'.open /\ screen'.detail = NoDetail
      BY <3>3, <3>4 DEF ScreenFields
    <3>6. Ask("report", StatsQuery(client', screen')) \/ (Quiet /\ wrongRange')
      BY <1>2 DEF PickRange, QueryRange
    <3>. QED BY <3>5, <3>6
  <2>2. CASE screen' = [screen EXCEPT !.all = FALSE, !.filter = NoFilter]
    BY <1>1, <1>2, <2>2 DEF PickRange, QueryRange, ScreenFields
  <2>3. CASE screen' = [screen EXCEPT !.all = FALSE]
    BY <1>1, <1>2, <2>3 DEF PickRange, QueryRange, ScreenFields
  <2>. QED BY <2>1, <2>2, <2>3 DEF PickRange
<1>4. TypesAgree
  BY <1>3 DEF TypesAgree, ScreenFields
<1>5. CASE Ask("report", StatsQuery(client', screen'))
  BY <1>2, <1>3, <1>4, <1>5, ReportAskedKeeps
<1>6. CASE Quiet /\ wrongRange'
  <2>1. DayStays
    BY <1>3 DEF DayStays
  <2>2. NameStays
    BY <1>6 DEF NameStays
  <2>. QED BY <1>2, <1>4, <1>6, <2>1, <2>2, QuietKeeps
<1>. QED BY <1>3, <1>5, <1>6

LEMMA DayOpened ==
  ASSUME StatsInv, OpenDay
  PROVE  StatsInv'
<1>1. screen.open /\ DOMAIN screen = ScreenFields
  BY DEF OpenDay, StatsInv, StatsTypes
<1>2. UNCHANGED <<client, refused, wrongRange>> /\ StyleStays
  BY DEF OpenDay, Rest, KeepStyle, StyleStays
<1>3. PICK day \in 1..Today :
        /\ screen' = [screen EXCEPT !.detail = [day |-> day, report |-> NoReport]]
        /\ Ask("day", DayQuery(client, screen, day))
  BY DEF OpenDay
<1>4. /\ DOMAIN screen' = ScreenFields /\ screen'.open /\ screen'.report = screen.report
      /\ screen'.from = screen.from /\ screen'.to = screen.to /\ screen'.all = screen.all
      /\ screen'.provider = screen.provider /\ screen'.model = screen.model
      /\ screen'.detail = [day |-> day, report |-> NoReport]
  BY <1>1, <1>3 DEF ScreenFields
<1>5. TypesAgree
  BY <1>4 DEF TypesAgree, ScreenFields
<1>6. NameStays
  BY <1>1, <1>2, <1>4, SameQuery DEF NameStays
<1>7. PICK q : q = DayQuery(client, screen, day)
  OBVIOUS
<1>8. q = DayQuery(client', screen', day)
  BY <1>1, <1>2, <1>4, <1>7, SameDayQuery
<1>9. q.from = day
  BY <1>1, <1>7, DayQueryIs
<1>10. Ask("day", q)
  BY <1>3, <1>7
<1>. QED BY <1>2, <1>4, <1>5, <1>6, <1>8, <1>9, <1>10, DayAskedKeeps

LEMMA StatsStep ==
  ASSUME StatsInv, [StatsNext]_statsVars
  PROVE  StatsInv'
<1>1. CASE OpenStats \/ NextClient \/ CycleRange \/ Again \/ PickFilter \/ NarrowToDay
  BY <1>1, AskingKeys
<1>2. CASE CloseStats \/ TurnPage \/ OpenFilter \/ CloseFilter \/ EditDates \/ PickPlan \/ CloseDay
  BY <1>2, QuietKeys
<1>3. CASE PickRange
  BY <1>3, RangePicked
<1>4. CASE OpenDay
  BY <1>4, DayOpened
<1>5. CASE ToggleStyle
  BY <1>5, StyleAskedKeeps DEF ToggleStyle, Rest
<1>6. CASE StatsAnswer
  BY <1>6, StatsAnswersKeep
<1>7. CASE StatsFail
  BY <1>7, FailuresKeep
<1>8. CASE UNCHANGED statsVars
  <2>1. UNCHANGED <<asked, screen, client, refused, wrongRange, style, savedStyle>>
    BY <1>8 DEF statsVars
  <2>2. TypesAgree /\ DayStays /\ NameStays /\ StyleStays
    BY <2>1 DEF StatsInv, StatsTypes, TypesAgree, DayStays, NameStays, StyleStays
  <2>. QED BY <2>1, <2>2, QuietKeeps DEF Quiet
<1>. QED BY <1>1, <1>2, <1>3, <1>4, <1>5, <1>6, <1>7, <1>8 DEF StatsNext

LEMMA StatsMean == StatsInv => SettledScreenIsTrue
<1> SUFFICES ASSUME StatsInv, asked = <<>> PROVE SettledScreenIsTrue
  BY DEF SettledScreenIsTrue
<1>1. \A kind : ~Waits(kind)
  BY DEF Waits
<1>. QED BY <1>1 DEF StatsInv, ReportIsComing, DayIsComing, StyleIsComing, SettledScreenIsTrue

-----------------------------------------------------------------------------
(* The home page.                                                          *)

(* A list, a section or a filter changes under the cursor; what an edit or a *)
(* removal says it saw is the revision it is made for, in the dialogs, in   *)
(* the queue and in the model lists that open a form.                       *)
VisibleSets == (SUBSET HomeClients) \ {{}}
Said(from) == from.seen = from.revision
HomeRequests == {"refresh", "mode", "discover", "copy", "switch", "edit", "remove"}
GoodRequest(r) ==
  /\ r.what \in HomeRequests
  /\ r.what \in {"edit", "remove", "discover"} => Said(r)

CursorInv ==
  /\ section \in Sections /\ ClientOf(section) \in visible
  /\ row \in Nat \ {0} /\ DOMAIN parked = Sections /\ (\A s \in Sections : parked[s] \in Nat)
  /\ ~strayed => RowIsListed
StoreInv ==
  /\ visible \in VisibleSets
  /\ DOMAIN store = {"list", "active", "visible"} /\ store.visible \in VisibleSets
DialogInv ==
  /\ "mode" \in DOMAIN input
  /\ input.mode \in {"rename", "form", "delete"} =>
       Said(input) /\ {"revision", "seen"} \subseteq DOMAIN input
SentInv == IsSeq(sent) /\ \A i \in DOMAIN sent : GoodRequest(sent[i])
HomeInv == CursorInv /\ StoreInv /\ DialogInv /\ SentInv

LEMMA RowsAreCounted ==
  ASSUME NEW rows \in SUBSET DOMAIN Catalogue
  PROVE  /\ Cardinality(rows) \in Nat
         /\ rows # {} => Cardinality(rows) > 0
         /\ \A i \in rows : RowAt(rows, i) \in 1..Cardinality(rows)
<1>1. IsFiniteSet(DOMAIN Catalogue)
  <2>1. DOMAIN Catalogue = 1..Len(Catalogue) /\ Len(Catalogue) \in Nat
    BY HomeConstants
  <2>. QED BY <2>1, FS_Interval
<1>2. IsFiniteSet(rows) /\ Cardinality(rows) \in Nat
  BY <1>1, FS_Subset, FS_CardinalityType
<1>3. rows # {} => Cardinality(rows) > 0
  BY <1>2, FS_EmptySet
<1>4. ASSUME NEW i \in rows PROVE RowAt(rows, i) \in 1..Cardinality(rows)
  <2> DEFINE before == {j \in rows : j <= i}
  <2>1. before \in SUBSET rows /\ i \in before
    <3>1. i \in Nat
      BY HomeConstants
    <3>. QED BY <3>1
  <2>2. /\ IsFiniteSet(before) /\ Cardinality(before) \in Nat
        /\ Cardinality(before) <= Cardinality(rows)
    BY <2>1, <1>2, FS_Subset, FS_CardinalityType
  <2>3. Cardinality(before) # 0
    BY <2>1, <2>2, FS_EmptySet
  <2>4. RowAt(rows, i) = Cardinality(before)
    BY DEF RowAt
  <2> HIDE DEF before
  <2>. QED BY <1>2, <2>2, <2>3, <2>4
<1>. QED BY <1>2, <1>3, <1>4

LEMMA RowsArePlaces == \A there, where, query : Matching(there, where, query) \in SUBSET DOMAIN Catalogue
BY DEF Matching

LEMMA RowsOfProviders ==
  ASSUME NEW rows \in SUBSET DOMAIN Catalogue, NEW id
  PROVE  RowOf(rows, id) \in 0..Cardinality(rows) /\ Cardinality(rows) \in Nat
<1>1. CASE \E i \in rows : Catalogue[i] = id
  <2>1. PICK i \in rows : i = CHOOSE j \in rows : Catalogue[j] = id
    BY <1>1
  <2>2. RowOf(rows, id) = RowAt(rows, i)
    BY <1>1, <2>1 DEF RowOf
  <2>. QED BY <2>2, RowsAreCounted
<1>2. CASE ~(\E i \in rows : Catalogue[i] = id)
  BY <1>2, RowsAreCounted DEF RowOf
<1>. QED BY <1>1, <1>2

LEMMA ClampedIsARow ==
  ASSUME NEW rows \in SUBSET DOMAIN Catalogue, NEW r \in Nat \ {0}
  PROVE  /\ Clamped(r, rows) \in Nat \ {0}
         /\ rows # {} => Clamped(r, rows) \in 1..Cardinality(rows)
<1>1. Cardinality(rows) \in Nat /\ (rows # {} => Cardinality(rows) > 0)
  BY RowsAreCounted
<1>. QED BY <1>1 DEF Clamped

LEMMA FirstIsListed ==
  ASSUME NEW rows \in SUBSET DOMAIN Catalogue, rows # {}
  PROVE  1 \in 1..Cardinality(rows)
BY RowsAreCounted

LEMMA HomeStart == HomeInit => HomeInv
<1> SUFFICES ASSUME HomeInit PROVE HomeInv
  OBVIOUS
<1>1. sent \in Seq({}) /\ sent = <<>>
  BY DEF HomeInit
<1>2. visible = HomeClients /\ store.visible = HomeClients /\ DOMAIN store = {"list", "active", "visible"}
  BY DEF HomeInit
<1>3. RowIsListed
  BY RowsArePlaces, FirstIsListed DEF RowIsListed, Rows, HomeInit
<1>4. CursorInv
  BY <1>2, <1>3 DEF HomeInit, CursorInv, Sections, ClientOf, HomeClients
<1>5. StoreInv
  BY <1>2 DEF StoreInv, VisibleSets, HomeClients
<1>6. DialogInv
  BY DEF HomeInit, DialogInv, Browsing
<1>. QED BY <1>1, <1>4, <1>5, <1>6 DEF HomeInv, SentInv, IsSeq

(* What is sent and what is asked.                                         *)
LEMMA GoodRequestsKeep ==
  ASSUME SentInv, NEW r, Queue(r), GoodRequest(r)
  PROVE  SentInv'
<1>1. /\ IsSeq(sent') /\ Len(sent) \in Nat /\ DOMAIN sent = 1..Len(sent)
      /\ DOMAIN sent' = 1..(Len(sent) + 1)
      /\ \A i \in 1..Len(sent) : sent'[i] = sent[i]
      /\ sent'[Len(sent) + 1] = r
  BY QueueAppends DEF SentInv, Queue
<1>2. ASSUME NEW i \in DOMAIN sent' PROVE GoodRequest(sent'[i])
  <2>1. CASE i \in 1..Len(sent)
    BY <1>1, <2>1 DEF SentInv
  <2>2. CASE i = Len(sent) + 1
    BY <1>1, <2>2
  <2>. QED BY <1>1, <2>1, <2>2
<1>. QED BY <1>1, <1>2 DEF SentInv

LEMMA SilentHome ==
  ASSUME SentInv, NothingSent
  PROVE  SentInv'
BY DEF SentInv, NothingSent

LEMMA AnsweredHome ==
  ASSUME SentInv, sent # <<>>, sent' = Tail(sent)
  PROVE  SentInv' /\ GoodRequest(Head(sent))
<1>1. /\ IsSeq(sent') /\ Len(sent) \in Nat \ {0} /\ DOMAIN sent = 1..Len(sent)
      /\ DOMAIN sent' = 1..(Len(sent) - 1)
      /\ \A i \in 1..(Len(sent) - 1) : sent'[i] = sent[i + 1]
      /\ Head(sent) = sent[1]
  BY QueueAdvances DEF SentInv
<1>2. ASSUME NEW i \in DOMAIN sent' PROVE GoodRequest(sent'[i])
  BY <1>1 DEF SentInv
<1>. QED BY <1>1, <1>2 DEF SentInv

LEMMA CursorStays ==
  ASSUME CursorInv, UNCHANGED <<list, visible, section, row, parked, strayed>>,
         ActiveQuery' = ActiveQuery
  PROVE  CursorInv'
<1>1. Rows' = Rows
  BY DEF Rows
<1>2. RowIsListed' <=> RowIsListed
  BY <1>1 DEF RowIsListed
<1>. QED BY <1>2 DEF CursorInv

LEMMA StoreStays == StoreInv /\ Shown => StoreInv'
BY DEF StoreInv, Shown

LEMMA PlacedCursor ==
  ASSUME section' \in Sections, ClientOf(section') \in visible',
         DOMAIN parked' = Sections, \A s \in Sections : parked'[s] \in Nat,
         row' \in Nat \ {0},
         \A rows : rows = Rows' /\ rows # {} => row' \in 1..Cardinality(rows)
  PROVE  CursorInv'
<1>1. RowIsListed'
  BY DEF RowIsListed
<1>. QED BY <1>1 DEF CursorInv

(* The keys that move the cursor or the section.                           *)
LEMMA MoveRowKeeps ==
  ASSUME HomeInv, MoveRow
  PROVE  HomeInv'
<1>1. PICK rows : rows = Rows
  OBVIOUS
<1>2. rows \in SUBSET DOMAIN Catalogue
  BY <1>1, RowsArePlaces DEF Rows
<1>3. PICK i \in rows : row' = RowAt(rows, i)
  BY <1>1 DEF MoveRow
<1>4. Rows' = rows
  BY <1>1 DEF MoveRow, Rows, ActiveQuery, Shown, Place
<1>5. row' \in 1..Cardinality(rows) /\ Cardinality(rows) \in Nat
  BY <1>2, <1>3, RowsAreCounted
<1>6. CursorInv'
  BY <1>4, <1>5, PlacedCursor DEF MoveRow, Shown, Place, HomeInv, CursorInv
<1>7. DialogInv'
  BY DEF MoveRow, HomeInv, DialogInv
<1>. QED BY <1>6, <1>7, StoreStays, SilentHome DEF MoveRow, HomeInv

LEMMA RingIsVisible ==
  /\ Ring \in Seq({s \in Sections : ClientOf(s) \in visible})
  /\ \A i \in DOMAIN Ring : Ring[i] \in Sections /\ ClientOf(Ring[i]) \in visible
<1> DEFINE S == {s \in Sections : ClientOf(s) \in visible}
           a == IF "codex" \in visible THEN <<"codex", "image">> ELSE <<>>
           b == IF "claude" \in visible THEN <<"claude">> ELSE <<>>
<1>1. a \in Seq(S)
  <2>1. CASE "codex" \in visible
    <3>1. "codex" \in S /\ "image" \in S
      BY <2>1 DEF Sections, ClientOf
    <3> HIDE DEF S
    <3>. QED BY <2>1, <3>1
  <2>2. CASE "codex" \notin visible
    BY <2>2
  <2>. QED BY <2>1, <2>2
<1>2. b \in Seq(S)
  <2>1. CASE "claude" \in visible
    <3>1. "claude" \in S
      BY <2>1 DEF Sections, ClientOf
    <3> HIDE DEF S
    <3>. QED BY <2>1, <3>1
  <2>2. CASE "claude" \notin visible
    BY <2>2
  <2>. QED BY <2>1, <2>2
<1>3. Ring = a \o b
  BY DEF Ring
<1> HIDE DEF a, b
<1>4. Ring \in Seq(S)
  <2> HIDE DEF S
  <2>. QED BY <1>1, <1>2, <1>3
<1>5. \A i \in DOMAIN Ring : Ring[i] \in S
  <2> HIDE DEF S
  <2>. QED BY <1>4
<1>. QED BY <1>4, <1>5

LEMMA SwitchSectionKeeps ==
  ASSUME HomeInv, SwitchSection
  PROVE  HomeInv'
<1>0. /\ In("normal") /\ Placed /\ Shown /\ NothingSent /\ UNCHANGED <<search, input, clipboard>>
      /\ parked' = [parked EXCEPT ![section] = row]
  BY DEF SwitchSection
<1>1. section' \in Sections /\ ClientOf(section') \in visible
  <2>1. PICK i \in DOMAIN Ring, step \in {1, -1} :
          section' = Ring[((i - 1 + step) % Len(Ring)) + 1]
    BY DEF SwitchSection
  <2>2. PICK ring : ring = Ring
    OBVIOUS
  <2>3. PICK S : ring \in Seq(S)
    <3>1. Ring \in Seq({s \in Sections : ClientOf(s) \in visible})
      BY RingIsVisible
    <3>. QED BY <2>2, <3>1
  <2>4. Len(ring) \in Nat \ {0} /\ DOMAIN ring = 1..Len(ring)
    BY <2>1, <2>2, <2>3
  <2>5. i - 1 + step \in Int
    BY <2>1, <2>2, <2>4
  <2>6. ((i - 1 + step) % Len(ring)) + 1 \in DOMAIN ring
    BY <2>4, <2>5
  <2>. QED BY <2>1, <2>2, <2>6, RingIsVisible
<1>2. PICK rows : rows = Matching(list, section', search)
  OBVIOUS
<1>3. rows \in SUBSET DOMAIN Catalogue
  BY <1>2, RowsArePlaces
<1>4. Rows' = rows
  BY <1>0, <1>2 DEF Rows, ActiveQuery, In, Shown
<1>5. PICK there : there = RowOf(rows, active[section'])
  OBVIOUS
<1>6. there \in Nat
  BY <1>3, <1>5, RowsOfProviders
<1>7. PICK r : r = IF parked[section'] # 0 THEN parked[section']
                   ELSE IF section' # "image" /\ there # 0 THEN there ELSE 1
  OBVIOUS
<1>8. r \in Nat \ {0}
  BY <1>1, <1>6, <1>7 DEF HomeInv, CursorInv
<1>9. row' = Clamped(r, rows)
  BY <1>2, <1>5, <1>7 DEF SwitchSection
<1>10. row' \in Nat \ {0} /\ (rows # {} => row' \in 1..Cardinality(rows))
  BY <1>3, <1>8, <1>9, ClampedIsARow
<1>11. DOMAIN parked' = Sections /\ (\A s \in Sections : parked'[s] \in Nat)
  BY <1>0 DEF HomeInv, CursorInv
<1>12. CursorInv'
  BY <1>0, <1>1, <1>4, <1>10, <1>11, PlacedCursor DEF Shown
<1>13. DialogInv'
  BY <1>0 DEF HomeInv, DialogInv
<1>. QED BY <1>0, <1>12, <1>13, StoreStays, SilentHome DEF HomeInv

LEMMA SearchKeeps ==
  ASSUME HomeInv, TypeSearch \/ EndSearch
  PROVE  HomeInv'
<1>0. /\ Shown /\ Place /\ NothingSent /\ row' = 1
      /\ input' = Browsing \/ \E query : input' = [mode |-> "search", query |-> query]
  BY DEF TypeSearch, EndSearch
<1>1. PICK rows : rows = Rows'
  OBVIOUS
<1>2. rows \in SUBSET DOMAIN Catalogue
  BY <1>1, RowsArePlaces DEF Rows
<1>3. rows # {} => row' \in 1..Cardinality(rows)
  BY <1>0, <1>2, FirstIsListed
<1>4. CursorInv'
  BY <1>0, <1>1, <1>3, PlacedCursor DEF Shown, Place, HomeInv, CursorInv
<1>5. DialogInv'
  BY <1>0 DEF DialogInv, Browsing
<1>. QED BY <1>0, <1>4, <1>5, StoreStays, SilentHome DEF HomeInv

(* The keys that open, answer or leave a dialog.                           *)
LEMMA DialogKeeps ==
  ASSUME HomeInv, Shown, Place, UNCHANGED <<row, search, strayed>>,
         ActiveQuery' = ActiveQuery, DialogInv', SentInv'
  PROVE  HomeInv'
<1>1. CursorInv'
  BY CursorStays DEF HomeInv, Shown, Place
<1>. QED BY <1>1, StoreStays DEF HomeInv

LEMMA OpenSearchKeeps == HomeInv /\ OpenSearch => HomeInv'
<1> SUFFICES ASSUME HomeInv, OpenSearch PROVE HomeInv'
  OBVIOUS
<1>1. /\ input' = [mode |-> "search", query |-> search] /\ input.mode = "normal"
      /\ Shown /\ Place /\ NothingSent /\ UNCHANGED <<row, search, strayed>>
  BY DEF OpenSearch, In
<1>2. ActiveQuery' = ActiveQuery /\ DialogInv'
  BY <1>1 DEF ActiveQuery, DialogInv
<1>3. SentInv'
  BY <1>1, SilentHome DEF HomeInv
<1>. QED BY <1>1, <1>2, <1>3, DialogKeeps

(* Only a filter that is typed counts instead of the committed one.        *)
LEMMA QueryStays ==
  ASSUME input.mode # "search", input'.mode # "search", UNCHANGED search
  PROVE  ActiveQuery' = ActiveQuery
BY DEF ActiveQuery

LEMMA AskKeeps ==
  ASSUME HomeInv, Same, input.mode # "search", input'.mode # "search", "mode" \in DOMAIN input',
         input' = input \/ (input'.mode \in {"rename", "form", "delete"} =>
                              Said(input') /\ {"revision", "seen"} \subseteq DOMAIN input'),
         NothingSent \/ \E r : Queue(r) /\ GoodRequest(r)
  PROVE  HomeInv'
<1>1. Shown /\ Place /\ UNCHANGED <<row, search, strayed>>
  BY DEF Same
<1>2. ActiveQuery' = ActiveQuery
  BY <1>1, QueryStays
<1>3. DialogInv'
  BY DEF HomeInv, DialogInv
<1>4. SentInv'
  BY SilentHome, GoodRequestsKeep DEF HomeInv
<1>. QED BY <1>1, <1>2, <1>3, <1>4, DialogKeeps

LEMMA RequestsAreGood ==
  ASSUME NEW what \in HomeRequests, NEW id, Request(what, id)
  PROVE  \E r : Queue(r) /\ GoodRequest(r)
BY DEF Request, GoodRequest, Said

LEMMA PlainRequestsKeep ==
  ASSUME HomeInv, Refresh \/ ToggleMode \/ Copy
  PROVE  HomeInv'
<1>1. Same /\ input' = input /\ input.mode = "normal"
  BY DEF Refresh, ToggleMode, Copy, OnProvider, In
<1>2. \E r : Queue(r) /\ GoodRequest(r)
  <2>1. CASE Refresh
    <3>1. GoodRequest([what |-> "refresh"])
      BY DEF GoodRequest, HomeRequests
    <3>. QED BY <2>1, <3>1 DEF Refresh
  <2>2. CASE ToggleMode
    <3>1. GoodRequest([what |-> "mode", section |-> section])
      BY DEF GoodRequest, HomeRequests
    <3>. QED BY <2>2, <3>1 DEF ToggleMode
  <2>3. CASE Copy
    BY <2>3, RequestsAreGood DEF Copy, HomeRequests
  <2>. QED BY <2>1, <2>2, <2>3
<1>3. "mode" \in DOMAIN input
  BY DEF HomeInv, DialogInv
<1>. QED BY <1>1, <1>2, <1>3, AskKeeps

LEMMA ChooseKeeps ==
  ASSUME HomeInv, Choose
  PROVE  HomeInv'
<1>1. Same /\ input.mode = "normal" /\ "mode" \in DOMAIN input
  BY DEF Choose, OnProvider, In, HomeInv, DialogInv
<1>2. CASE input' = [mode |-> "switch", section |-> section, id |-> Selected] /\ NothingSent
  <2>1. input'.mode = "switch" /\ "mode" \in DOMAIN input'
    BY <1>2
  <2>. QED BY <1>1, <1>2, <2>1, AskKeeps
<1>3. CASE Request("switch", Selected) /\ UNCHANGED input
  <2>1. \E r : Queue(r) /\ GoodRequest(r)
    BY <1>3, RequestsAreGood DEF HomeRequests
  <2>. QED BY <1>1, <1>3, <2>1, AskKeeps
<1>. QED BY <1>2, <1>3 DEF Choose

LEMMA ConfirmSwitchKeeps ==
  ASSUME HomeInv, ConfirmSwitch
  PROVE  HomeInv'
<1>1. Same /\ input.mode = "switch" /\ input'.mode = "normal" /\ "mode" \in DOMAIN input'
  BY DEF ConfirmSwitch, In, Browsing
<1>2. GoodRequest([what |-> "switch", section |-> input.section, id |-> input.id, revision |-> 0])
  BY DEF GoodRequest, HomeRequests
<1>. QED BY <1>1, <1>2, AskKeeps DEF ConfirmSwitch

LEMMA EditSelectedKeeps ==
  ASSUME HomeInv, EditSelected
  PROVE  HomeInv'
<1>1. Same /\ input.mode = "normal" /\ "mode" \in DOMAIN input
  BY DEF EditSelected, OnProvider, In, HomeInv, DialogInv
<1>2. CASE Request("discover", Selected) /\ UNCHANGED input
  <2>1. \E r : Queue(r) /\ GoodRequest(r)
    BY <1>2, RequestsAreGood DEF HomeRequests
  <2>. QED BY <1>1, <1>2, <2>1, AskKeeps
<1>3. CASE /\ input' = [mode |-> IF Saved(Selected) THEN "rename" ELSE "form", id |-> Selected,
                        revision |-> list[Selected], seen |-> list[Selected]]
           /\ NothingSent
  <2>1. input'.mode \in {"rename", "form"} /\ DOMAIN input' = {"mode", "id", "revision", "seen"}
    BY <1>3
  <2>2. Said(input')
    BY <1>3 DEF Said
  <2>. QED BY <1>1, <1>3, <2>1, <2>2, AskKeeps
<1>. QED BY <1>2, <1>3 DEF EditSelected

LEMMA SubmitEditKeeps ==
  ASSUME HomeInv, SubmitEdit
  PROVE  HomeInv'
<1>1. /\ Same /\ input.mode \in {"rename", "form"}
      /\ input'.mode = "normal" /\ "mode" \in DOMAIN input'
  BY DEF SubmitEdit, Browsing
<1>2. GoodRequest([what |-> "edit", id |-> input.id, revision |-> input.revision, seen |-> input.seen])
  BY <1>1 DEF GoodRequest, HomeRequests, Said, HomeInv, DialogInv
<1>. QED BY <1>1, <1>2, AskKeeps DEF SubmitEdit

LEMMA EscapeKeeps ==
  ASSUME HomeInv, Escape
  PROVE  HomeInv'
<1>1. /\ Same /\ input.mode \in {"rename", "form", "switch"}
      /\ input'.mode = "normal" /\ "mode" \in DOMAIN input'
  BY DEF Escape, Browsing
<1>. QED BY <1>1, AskKeeps DEF Escape

LEMMA ArmDeleteKeeps ==
  ASSUME HomeInv, ArmDelete
  PROVE  HomeInv'
<1>1. Same /\ input.mode = "normal" /\ "mode" \in DOMAIN input
  BY DEF ArmDelete, OnProvider, In, HomeInv, DialogInv
<1>2. CASE Request("edit", Selected) /\ UNCHANGED input
  <2>1. \E r : Queue(r) /\ GoodRequest(r)
    BY <1>2, RequestsAreGood DEF HomeRequests
  <2>. QED BY <1>1, <1>2, <2>1, AskKeeps
<1>3. CASE /\ input' = [mode |-> "delete", id |-> Selected, revision |-> list[Selected],
                        seen |-> list[Selected], lapsed |-> FALSE]
           /\ NothingSent
  <2>1. input'.mode = "delete" /\ DOMAIN input' = {"mode", "id", "revision", "seen", "lapsed"}
    BY <1>3
  <2>2. Said(input')
    BY <1>3 DEF Said
  <2>. QED BY <1>1, <1>3, <2>1, <2>2, AskKeeps
<1>. QED BY <1>2, <1>3 DEF ArmDelete

LEMMA SecondKeyKeeps ==
  ASSUME HomeInv, SecondKey
  PROVE  HomeInv'
<1>1. /\ Same /\ input.mode = "delete" /\ input'.mode = "normal" /\ "mode" \in DOMAIN input'
  BY DEF SecondKey, Browsing, In
<1>2. GoodRequest([what |-> "remove", id |-> input.id, revision |-> input.revision, seen |-> input.seen])
  BY <1>1 DEF GoodRequest, HomeRequests, Said, HomeInv, DialogInv
<1>. QED BY <1>1, <1>2, AskKeeps DEF SecondKey

LEMMA DeadlineKeeps ==
  ASSUME HomeInv, Deadline
  PROVE  HomeInv'
<1>1. input.mode = "delete" /\ Shown /\ Place /\ NothingSent /\ UNCHANGED <<row, search, strayed>>
  BY DEF Deadline, In
<1>2. /\ "mode" \in DOMAIN input' /\ input'.mode \in {"normal", "delete"}
      /\ input'.mode = "delete" =>
           Said(input') /\ {"revision", "seen"} \subseteq DOMAIN input'
  <2>1. CASE input' = Browsing
    BY <2>1 DEF Browsing
  <2>2. CASE input' = [input EXCEPT !.lapsed = TRUE]
    <3>1. {"mode", "revision", "seen"} \subseteq DOMAIN input /\ Said(input)
      BY <1>1 DEF HomeInv, DialogInv
    <3>2. /\ input'.mode = input.mode /\ input'.revision = input.revision
          /\ input'.seen = input.seen /\ {"mode", "revision", "seen"} \subseteq DOMAIN input'
      BY <2>2, <3>1
    <3>. QED BY <1>1, <3>1, <3>2 DEF Said
  <2>. QED BY <2>1, <2>2 DEF Deadline
<1>3. Same
  BY <1>1 DEF Same
<1>. QED BY <1>1, <1>2, <1>3, AskKeeps

(* What the daemon makes of a request.                                     *)
LEMMA AppliedIsAStore ==
  ASSUME StoreInv, NEW r, GoodRequest(r)
  PROVE  /\ Applied(r).visible = store.visible
         /\ DOMAIN Applied(r) = {"list", "active", "visible"}
         /\ \A id \in DOMAIN store.list :
              id \notin DOMAIN Applied(r).list \/ Applied(r).list[id] # store.list[id]
                => r.id = id /\ r.seen = store.list[id]
<1>0. /\ DOMAIN store = {"list", "active", "visible"} /\ r.what \in HomeRequests
      /\ r.what \in {"edit", "remove"} => r.seen = r.revision
  BY DEF StoreInv, GoodRequest, Said
<1>1. CASE Applied(r) = store
  BY <1>0, <1>1
<1>2. CASE r.what = "switch" /\ r.id \in DOMAIN store.list
  <2>1. Applied(r) = [store EXCEPT !.active[r.section] = r.id]
    BY <1>2 DEF Applied
  <2>2. /\ DOMAIN Applied(r) = {"list", "active", "visible"}
        /\ Applied(r).visible = store.visible /\ Applied(r).list = store.list
    BY <1>0, <2>1
  <2>. QED BY <2>2
<1>3. CASE r.what = "edit" /\ Acceptable(r)
  <2>1. Applied(r) = [store EXCEPT !.list[r.id] = @ + 1]
    BY <1>3 DEF Applied
  <2>2. /\ DOMAIN Applied(r) = {"list", "active", "visible"}
        /\ Applied(r).visible = store.visible
        /\ Applied(r).list = [store.list EXCEPT ![r.id] = @ + 1]
    BY <1>0, <2>1
  <2>3. \A id \in DOMAIN store.list :
          id \in DOMAIN Applied(r).list /\ (id # r.id => Applied(r).list[id] = store.list[id])
    BY <2>2
  <2>. QED BY <1>0, <1>3, <2>2, <2>3 DEF Acceptable
<1>4. CASE r.what = "remove" /\ Acceptable(r)
  <2> DEFINE left == [id \in DOMAIN store.list \ {r.id} |-> store.list[id]]
             now == [s \in Sections |-> IF store.active[s] = r.id THEN Nobody ELSE store.active[s]]
  <2>1. Applied(r) = [store EXCEPT !.list = left, !.active = now]
    BY <1>4 DEF Applied
  <2>2. DOMAIN left = DOMAIN store.list \ {r.id} /\ \A id \in DOMAIN left : left[id] = store.list[id]
    OBVIOUS
  <2> HIDE DEF left, now
  <2>3. /\ DOMAIN Applied(r) = {"list", "active", "visible"}
        /\ Applied(r).visible = store.visible /\ Applied(r).list = left
    BY <1>0, <2>1
  <2>. QED BY <1>0, <1>4, <2>2, <2>3 DEF Acceptable
<1>. QED BY <1>0, <1>1, <1>2, <1>3, <1>4 DEF Applied, HomeRequests

LEMMA LoadedSections ==
  ASSUME NEW shownNow \in VisibleSets, section \in Sections
  PROVE  LoadedSection(shownNow) \in Sections /\ ClientOf(LoadedSection(shownNow)) \in shownNow
<1>1. PICK c \in HomeClients : c = CHOOSE d \in HomeClients : d \in shownNow
  BY DEF VisibleSets
<1>2. c \in shownNow
  BY <1>1 DEF VisibleSets
<1>3. c \in Sections /\ ClientOf(c) = c
  BY DEF HomeClients, Sections, ClientOf
<1>. QED BY <1>1, <1>2, <1>3 DEF LoadedSection, Sections, ClientOf

LEMMA LoadingPlaces ==
  ASSUME CursorInv, NEW state, HomeLoaded(state), state.visible \in VisibleSets,
         UNCHANGED <<parked, search, input>>
  PROVE  CursorInv' /\ visible' \in VisibleSets
<1>1. section' \in Sections /\ ClientOf(section') \in visible' /\ visible' \in VisibleSets
  BY LoadedSections DEF HomeLoaded, CursorInv
<1>2. PICK rows : rows = Matching(state.list, section', ActiveQuery)
  OBVIOUS
<1>3. rows \in SUBSET DOMAIN Catalogue
  BY <1>2, RowsArePlaces
<1>4. Rows' = rows
  BY <1>2 DEF Rows, ActiveQuery, HomeLoaded
<1>5. PICK there : there = RowOf(rows, state.active[section'])
  OBVIOUS
<1>6. there \in 0..Cardinality(rows) /\ Cardinality(rows) \in Nat
  BY <1>3, <1>5, RowsOfProviders
<1>7. row' = IF there # 0 THEN there ELSE Clamped(row, rows)
  BY <1>2, <1>5 DEF HomeLoaded
<1>8. /\ Clamped(row, rows) \in Nat \ {0}
      /\ rows # {} => Clamped(row, rows) \in 1..Cardinality(rows)
  BY <1>3, ClampedIsARow DEF CursorInv
<1>9. row' \in Nat \ {0} /\ (rows # {} => row' \in 1..Cardinality(rows))
  BY <1>6, <1>7, <1>8
<1>10. CursorInv'
  BY <1>1, <1>4, <1>9, PlacedCursor DEF CursorInv
<1>. QED BY <1>1, <1>10

LEMMA HomeAnswerKeeps ==
  ASSUME HomeInv, HomeAnswer
  PROVE  HomeInv'
<1>0. sent # <<>> /\ sent' = Tail(sent) /\ UNCHANGED <<search, parked>>
  BY DEF HomeAnswer
<1>1. PICK r : r = Head(sent)
  OBVIOUS
<1>2. SentInv' /\ GoodRequest(r)
  BY <1>0, <1>1, AnsweredHome DEF HomeInv
<1>3. /\ store' = Applied(r)
      /\ r.what = "copy" => UNCHANGED <<list, active, visible, section, row, strayed>>
      /\ r.what = "discover" => /\ strayed' = (strayed \/ In("search"))
                                /\ UNCHANGED <<list, active, visible, section, row>>
      /\ r.what \notin {"copy", "discover"} => HomeLoaded(store')
      /\ r.what = "discover" => input' = [mode |-> "form", id |-> r.id, revision |-> r.revision,
                                          seen |-> r.seen]
      /\ r.what # "discover" => input' = input
  BY <1>1 DEF HomeAnswer
<1>4. DOMAIN store' = {"list", "active", "visible"} /\ store'.visible \in VisibleSets
  BY <1>2, <1>3, AppliedIsAStore DEF HomeInv, StoreInv
<1>5. CASE r.what = "copy"
  <2>1. CursorInv'
    BY <1>0, <1>3, <1>5, CursorStays DEF HomeInv, ActiveQuery
  <2>2. StoreInv' /\ DialogInv'
    BY <1>3, <1>4, <1>5 DEF HomeInv, StoreInv, DialogInv
  <2>. QED BY <1>2, <2>1, <2>2 DEF HomeInv
<1>6. CASE r.what = "discover"
  <2>1. Said(r)
    BY <1>2, <1>6 DEF GoodRequest
  <2>2. StoreInv' /\ DialogInv'
    BY <1>3, <1>4, <1>6, <2>1 DEF HomeInv, StoreInv, DialogInv, Said
  <2>0. /\ section' \in Sections /\ ClientOf(section') \in visible' /\ row' \in Nat \ {0}
        /\ DOMAIN parked' = Sections /\ (\A s \in Sections : parked'[s] \in Nat)
    BY <1>0, <1>3, <1>6 DEF HomeInv, CursorInv
  <2>3. CASE In("search")
    <3>1. strayed'
      BY <1>3, <1>6, <2>3
    <3>2. CursorInv'
      BY <2>0, <3>1 DEF CursorInv
    <3>. QED BY <1>2, <2>2, <3>2 DEF HomeInv
  <2>4. CASE ~In("search") /\ strayed
    <3>1. strayed'
      BY <1>3, <1>6, <2>4
    <3>2. CursorInv'
      BY <2>0, <3>1 DEF CursorInv
    <3>. QED BY <1>2, <2>2, <3>2 DEF HomeInv
  <2>5. CASE ~In("search") /\ ~strayed
    <3>1. ActiveQuery' = ActiveQuery
      BY <1>0, <1>3, <1>6, <2>5, QueryStays DEF In
    <3>2. Rows' = Rows
      BY <1>3, <1>6, <3>1 DEF Rows
    <3>3. RowIsListed'
      BY <1>3, <1>6, <2>5, <3>2 DEF RowIsListed, HomeInv, CursorInv
    <3>4. CursorInv'
      BY <2>0, <3>3 DEF CursorInv
    <3>. QED BY <1>2, <2>2, <3>4 DEF HomeInv
  <2>. QED BY <2>3, <2>4, <2>5
<1>7. CASE r.what \notin {"copy", "discover"}
  <2>1. PICK state : state = store'
    OBVIOUS
  <2>2. HomeLoaded(state) /\ state.visible \in VisibleSets
    BY <1>3, <1>4, <1>7, <2>1
  <2>3. CursorInv' /\ visible' \in VisibleSets
    BY <1>0, <1>3, <1>7, <2>2, LoadingPlaces DEF HomeInv
  <2>4. StoreInv' /\ DialogInv'
    BY <1>3, <1>4, <1>7, <2>3 DEF HomeInv, StoreInv, DialogInv
  <2>. QED BY <1>2, <2>3, <2>4 DEF HomeInv
<1>. QED BY <1>5, <1>6, <1>7

LEMMA OtherClientKeeps ==
  ASSUME HomeInv, OtherClient
  PROVE  HomeInv'
<1>0. UNCHANGED <<list, active, visible, section, row, parked, search, input, sent, strayed>>
  BY DEF OtherClient
<1>1. DOMAIN store' = {"list", "active", "visible"} /\ store'.visible \in VisibleSets
  <2>1. DOMAIN store = {"list", "active", "visible"} /\ store.visible \in VisibleSets
    BY DEF HomeInv, StoreInv
  <2>2. ASSUME NEW id, NEW v, store' = [store EXCEPT !.list[id] = v] \/ store' = [store EXCEPT !.list = v]
                              \/ store' = [store EXCEPT !.active["codex"] = v]
        PROVE  DOMAIN store' = {"list", "active", "visible"} /\ store'.visible \in VisibleSets
    BY <2>1, <2>2
  <2>3. ASSUME NEW some \in VisibleSets, store' = [store EXCEPT !.visible = some]
        PROVE  DOMAIN store' = {"list", "active", "visible"} /\ store'.visible \in VisibleSets
    BY <2>1, <2>3
  <2>. QED BY <2>2, <2>3 DEF OtherClient, VisibleSets
<1>2. CursorInv'
  BY <1>0, CursorStays DEF HomeInv, ActiveQuery
<1>3. StoreInv' /\ DialogInv' /\ SentInv'
  BY <1>0, <1>1 DEF HomeInv, StoreInv, DialogInv, SentInv
<1>. QED BY <1>2, <1>3 DEF HomeInv

LEMMA HomeStep ==
  ASSUME HomeInv, [HomeNext]_homeVars
  PROVE  HomeInv'
<1>1. CASE UNCHANGED homeVars
  <2>1. UNCHANGED <<list, active, visible, section, row, parked, search, input, store, sent, strayed>>
    BY <1>1 DEF homeVars
  <2>2. CursorInv'
    BY <2>1, CursorStays DEF HomeInv, ActiveQuery
  <2>. QED BY <2>1, <2>2 DEF HomeInv, StoreInv, DialogInv, SentInv
<1>2. CASE HomeNext
  BY <1>2, MoveRowKeeps, SwitchSectionKeeps, OpenSearchKeeps, SearchKeeps, PlainRequestsKeep,
     ChooseKeeps, ConfirmSwitchKeeps, EditSelectedKeeps, SubmitEditKeeps, EscapeKeeps,
     ArmDeleteKeeps, SecondKeyKeeps, DeadlineKeeps, HomeAnswerKeeps, OtherClientKeeps
     DEF HomeNext
<1>. QED BY <1>1, <1>2

LEMMA HomeMeans == HomeInv => CursorIsOnARow
BY DEF HomeInv, CursorInv, CursorIsOnARow

(* What a step of the page makes the daemon change.                        *)
LEMMA OnlyAnswersChange ==
  ASSUME [HomeNext]_homeVars, ~HomeAnswer, ~OtherClient
  PROVE  UNCHANGED store
<1>1. CASE MoveRow \/ SwitchSection \/ OpenSearch \/ TypeSearch \/ EndSearch \/ Deadline
  BY <1>1 DEF MoveRow, SwitchSection, OpenSearch, TypeSearch, EndSearch, Deadline, Shown
<1>2. CASE Refresh \/ ToggleMode \/ Choose \/ ConfirmSwitch \/ EditSelected \/ SubmitEdit \/ Escape
           \/ ArmDelete \/ SecondKey \/ Copy
  BY <1>2 DEF Refresh, ToggleMode, Choose, ConfirmSwitch, EditSelected, SubmitEdit, Escape,
              ArmDelete, SecondKey, Copy, Same, Shown
<1>3. CASE UNCHANGED homeVars
  BY <1>3 DEF homeVars
<1>. QED BY <1>1, <1>2, <1>3 DEF HomeNext

LEMMA ChangesWereSeen ==
  ASSUME HomeInv, [HomeNext]_homeVars, NEW id \in DOMAIN store.list,
         sent # <<>>, sent' = Tail(sent),
         id \notin DOMAIN store'.list \/ store'.list[id] # store.list[id],
         NEW r, r = Head(sent)
  PROVE  r.id = id /\ r.seen = store.list[id]
<1>1. ~OtherClient
  <2>1. PICK rest, n : rest = Tail(sent) /\ n = Len(sent)
    OBVIOUS
  <2>2. n \in Nat /\ Len(rest) = n - 1
    BY <2>1, QueueAdvances DEF HomeInv, SentInv
  <2>3. OtherClient => sent' = sent
    BY DEF OtherClient
  <2>4. rest # sent
    BY <2>1, <2>2
  <2>. QED BY <2>1, <2>3, <2>4
<1>2. CASE HomeAnswer
  <2>1. store' = Applied(r) /\ GoodRequest(r)
    BY <1>2, AnsweredHome DEF HomeAnswer, HomeInv
  <2>. QED BY <2>1, AppliedIsAStore DEF HomeInv
<1>3. CASE ~HomeAnswer
  BY <1>1, <1>3, OnlyAnswersChange
<1>. QED BY <1>2, <1>3

-----------------------------------------------------------------------------
(* The forms.                                                              *)

(* While the user waits for the answers, one thing at a time is on its way: *)
(* an effect, its answer, or a notice and the answer after it.             *)
NothingComes == held = <<>> /\ effects = <<>> /\ out = <<>> /\ actions = <<>>
Underway(e) ==
  /\ out = <<>> /\ actions = <<>>
  /\ \/ held = <<e>> /\ effects = <<>>
     \/ held = <<>> /\ effects = <<e>>
Coming(a) ==
  /\ held = <<>> /\ effects = <<>>
  /\ \/ out = <<a>> /\ actions = <<>>
     \/ out = <<>> /\ actions = <<a>>
ComingTwo(n, a) ==
  /\ held = <<>> /\ effects = <<>>
  /\ \/ out = <<n, a>> /\ actions = <<>>
     \/ out = <<a>> /\ actions = <<n>>
     \/ out = <<>> /\ actions = <<n, a>>

(* Only a save carries a form, and only the list page sends operations; the *)
(* form of a takeover dialog is stored, or that of the operation.          *)
OpFits(op) == op.form = NoForm \/ op.what = "save"
DialogFits(form) == takeover.up => takeover.op.form \in applied \cup {NoForm, form}
ListWaits(form) == page = ListPage /\ DialogFits(form)
PageWaits(at) == page.at = at /\ ~takeover.up

LoginEffects == {"start", "status", "submit", "cancel"}
EffectFits(e) ==
  /\ e.do \in {"operate", "take over", "discover", "list"} \cup LoginEffects
  /\ e.do \in {"operate", "take over"} => OpFits(e.op) /\ ListWaits(e.op.form)
  /\ e.do = "discover" => PageWaits("form") /\ page.form = e.form
  /\ e.do = "list" => PageWaits("list")
  /\ e.do \in LoginEffects => PageWaits("login") /\ page.asking
AnswerFits(a) ==
  /\ a.answer \in {"conflict", "not configured", "loaded", "failed", "discovered", "listed",
                   "login", "login failed"}
  /\ a.answer \in {"conflict", "not configured"} => OpFits(a.op) /\ ListWaits(a.op.form)
  /\ a.answer \in {"loaded", "failed"} => ListWaits(NoForm)
  /\ a.answer = "discovered" => PageWaits("form") /\ page.form = a.form
  /\ a.answer = "listed" => PageWaits("list")
  /\ a.answer \in {"login", "login failed"} => PageWaits("login") /\ page.asking
Quietly == takeover.up => page = ListPage
OneAtATime ==
  \/ NothingComes /\ Quietly
  \/ \E e : Underway(e) /\ EffectFits(e)
  \/ \E a : Coming(a) /\ AnswerFits(a)
  \/ \E n, a : ComingTwo(n, a) /\ n.answer = "notice" /\ AnswerFits(a) /\ a.answer \in {"loaded", "failed"}

(* What the page, its origin and the dialog are made of.                   *)
FormPages == {"form", "models", "mapping", "list"}
PageParts ==
  /\ "at" \in DOMAIN page /\ page.at \in FormPages \cup {"normal", "login"}
  /\ page.at \in FormPages => "form" \in DOMAIN page
  /\ page.at \in {"form", "list"} => "busy" \in DOMAIN page
  /\ page.at \in {"models", "mapping"} => DOMAIN page = {"at", "form"}
  /\ page.at = "login" => DOMAIN page = {"at", "id", "state", "asking", "cancelling"}
  /\ page.at = "normal" => page = ListPage
OriginParts == origin = NoOrigin \/ (DOMAIN origin = {"at", "form"} /\ origin.at \in {"models", "mapping"})
TakeoverParts ==
  takeover.up => OpFits(takeover.op) /\ {"up", "op"} \subseteq DOMAIN takeover
PatientInv ==
  ~hurried /\ ~quit => OneAtATime /\ PageParts /\ OriginParts /\ TakeoverParts

Patient == OneAtATime /\ PageParts /\ OriginParts /\ TakeoverParts
FormsStay == \A form \in Forms : Opened(form) => Opened(form)'

(* Queues of one or two entries.                                           *)
LEMMA TwoAppended ==
  ASSUME NEW a, NEW b
  PROVE  Append(<<>>, a) = <<a>> /\ Append(<<a>>, b) = <<a, b>>
<1> DEFINE s == Append(<<a>>, b)
<1>1. <<a>> \in Seq({a, b}) /\ b \in {a, b} /\ <<a, b>> \in Seq({a,b})
  OBVIOUS
<1>2. s \in Seq({a, b}) /\ Len(s) = 2 /\ s[1] = a /\ s[2] = b
  BY <1>1
<1>3. Len(<<a,b>>) = 2
  OBVIOUS
<1> HIDE DEF s
<1>4. s \in [1..2 -> {a, b}]
  BY <1>2
<1>5. <<a, b>> \in [1..2 -> {a, b}]
  OBVIOUS
<1>6. \A i \in 1..2 : s[i] = <<a, b>>[i]
  <2>1. \A i \in 1..2 : i = 1 \/ i = 2
    OBVIOUS
  <2>. QED BY <1>2, <2>1
<1>7. s = <<a, b>>
  BY <1>4, <1>5, <1>6
<1>8. Append(<<>>, a) = <<a>>
  OBVIOUS
<1>. QED BY <1>7, <1>8 DEF s

LEMMA ShortQueues ==
  ASSUME NEW a, NEW b
  PROVE  /\ <<a>> # <<>> /\ <<a, b>> # <<>> /\ Head(<<a>>) = a /\ Head(<<a, b>>) = a
         /\ Tail(<<a>>) = <<>> /\ Tail(<<a, b>>) = <<b>>
         /\ <<>> \o <<a>> = <<a>> /\ Append(<<>>, a) = <<a>> /\ Append(<<a>>, b) = <<a, b>>
         /\ <<a>>[1] = a /\ DOMAIN <<a>> = {1} /\ <<a, b>>[1] = a /\ <<a, b>>[2] = b
         /\ DOMAIN <<a, b>> = {1, 2} /\ DOMAIN <<>> = {}
<1>1. <<a>> \in Seq({a, b}) /\ <<a, b>> \in Seq({a, b}) /\ <<>> \in Seq({a, b})
  OBVIOUS
<1>2. Len(<<a>>) = 1 /\ Len(<<a, b>>) = 2 /\ Len(<<>>) = 0
  OBVIOUS
<1>3. Head(<<a>>) = a /\ Head(<<a, b>>) = a
  OBVIOUS
<1>4. Tail(<<a>>) = <<>>
  BY <1>1, <1>2
<1>5. Tail(<<a, b>>) = <<b>>
  OBVIOUS
<1>6. <<>> \o <<a>> = <<a>>
  BY <1>1
<1>7. Append(<<>>, a) = <<a>> /\ Append(<<a>>, b) = <<a, b>>
  BY TwoAppended
<1>8. <<a>> # <<>> /\ <<a, b>> # <<>>
  BY <1>2
<1>. QED BY <1>2, <1>3, <1>4, <1>5, <1>6, <1>7, <1>8

(* Where a form can be.                                                    *)
Holds(form) ==
  \/ form \in applied
  \/ page.at \in FormPages /\ page.form = form
  \/ takeover.up /\ takeover.op.form = form
CallHolds(e, form) == e.do \in {"operate", "take over"} /\ e.op.form = form
AnswerHolds(a, form) == a.answer \in {"conflict", "not configured"} /\ a.op.form = form

InEffects(queue, form) == \E i \in DOMAIN queue : CallHolds(queue[i], form)
InAnswers(queue, form) == \E i \in DOMAIN queue : AnswerHolds(queue[i], form)

LEMMA HeldInQueues ==
  ASSUME NEW a, NEW b, NEW form
  PROVE  /\ ~InEffects(<<>>, form) /\ (InEffects(<<a>>, form) <=> CallHolds(a, form))
         /\ ~InAnswers(<<>>, form) /\ (InAnswers(<<a>>, form) <=> AnswerHolds(a, form))
         /\ InAnswers(<<a, b>>, form) <=> AnswerHolds(a, form) \/ AnswerHolds(b, form)
<1>1. /\ ~InEffects(<<>>, form) /\ (InEffects(<<a>>, form) <=> CallHolds(a, form))
      /\ ~InAnswers(<<>>, form) /\ (InAnswers(<<a>>, form) <=> AnswerHolds(a, form))
  BY ShortQueues DEF InEffects, InAnswers
<1>2. InAnswers(<<a, b>>, form) <=> AnswerHolds(a, form) \/ AnswerHolds(b, form)
  BY ShortQueues DEF InAnswers
<1>. QED BY <1>1, <1>2

LEMMA OpenedIs ==
  ASSUME NEW form
  PROVE  /\ Opened(form) <=> \/ Holds(form) \/ InEffects(held, form) \/ InEffects(effects, form)
                             \/ InAnswers(out, form) \/ InAnswers(actions, form)
         /\ Opened(form)' <=> \/ Holds(form)' \/ InEffects(held', form) \/ InEffects(effects', form)
                              \/ InAnswers(out', form) \/ InAnswers(actions', form)
BY DEF Opened, Holds, InEffects, InAnswers, CallHolds, AnswerHolds, FormPages

LEMMA OpenedNow ==
  ASSUME NEW form
  PROVE  /\ NothingComes => (Opened(form) <=> Holds(form))
         /\ \A e : Underway(e) => (Opened(form) <=> (Holds(form) \/ CallHolds(e, form)))
         /\ \A a : Coming(a) => (Opened(form) <=> (Holds(form) \/ AnswerHolds(a, form)))
         /\ \A n, a : ComingTwo(n, a) =>
              (Opened(form) <=> (Holds(form) \/ AnswerHolds(n, form) \/ AnswerHolds(a, form)))
BY OpenedIs, HeldInQueues DEF NothingComes, Underway, Coming, ComingTwo

LEMMA OpenedThen ==
  ASSUME NEW form
  PROVE  /\ NothingComes' => (Opened(form)' <=> Holds(form)')
         /\ \A e : Underway(e)' => (Opened(form)' <=> (Holds(form)' \/ CallHolds(e, form)))
         /\ \A a : Coming(a)' => (Opened(form)' <=> (Holds(form)' \/ AnswerHolds(a, form)))
         /\ \A n, a : ComingTwo(n, a)' =>
              (Opened(form)' <=> (Holds(form)' \/ AnswerHolds(n, form) \/ AnswerHolds(a, form)))
BY OpenedIs, HeldInQueues DEF NothingComes, Underway, Coming, ComingTwo

(* The keys.  A user who waits presses one only when nothing is on its way. *)
LEMMA KeysWait ==
  ASSUME Patient, Hurry, ~hurried'
  PROVE  ~hurried /\ NothingComes /\ Quietly
<1>1. ~hurried /\ NothingComes
  BY DEF Hurry, InFlight, NothingComes
<1>2. \A e : ~Underway(e) /\ ~Coming(e)
  BY <1>1, ShortQueues DEF NothingComes, Underway, Coming
<1>3. \A n, a : ~ComingTwo(n, a)
  BY <1>1, ShortQueues DEF NothingComes, ComingTwo
<1>. QED BY <1>1, <1>2, <1>3 DEF Patient, OneAtATime

Queues == <<effects, out, actions>>
LEMMA NothingAsked ==
  ASSUME NothingComes, UNCHANGED <<held, Queues>>
  PROVE  NothingComes'
BY DEF NothingComes, Queues

LEMMA OneAsked ==
  ASSUME NothingComes, NEW e, Perform(e), UNCHANGED Queues
  PROVE  Underway(e)'
BY DEF NothingComes, Queues, Perform, Underway

(* A key without an effect, and one with.                                  *)
LEMMA StillQuiet ==
  ASSUME NothingComes, UNCHANGED <<held, Queues>>,
         takeover'.up => page' = ListPage,
         PageParts', OriginParts', TakeoverParts', \A form \in Forms : Holds(form) => Holds(form)'
  PROVE  Patient' /\ FormsStay
<1>1. NothingComes'
  BY NothingAsked
<1>2. OneAtATime'
  BY <1>1 DEF OneAtATime, Quietly
<1>3. FormsStay
  BY <1>1, OpenedNow, OpenedThen DEF FormsStay
<1>. QED BY <1>2, <1>3 DEF Patient

LEMMA NowUnderway ==
  ASSUME NothingComes, NEW e, Perform(e), UNCHANGED Queues,
         EffectFits(e)', PageParts', OriginParts', TakeoverParts',
         \A form \in Forms : Holds(form) => Holds(form)' \/ CallHolds(e, form)
  PROVE  Patient' /\ FormsStay
<1>1. Underway(e)'
  BY OneAsked
<1>2. OneAtATime'
  BY <1>1 DEF OneAtATime
<1>3. FormsStay
  BY <1>1, OpenedNow, OpenedThen DEF FormsStay
<1>. QED BY <1>2, <1>3 DEF Patient

LEMMA DialogStays == NoDialog \/ Elsewhere => UNCHANGED <<Queues, applied>>
BY DEF NoDialog, Elsewhere, Queues

LEMMA OperateKeeps ==
  ASSUME Patient, Operate, ~hurried'
  PROVE  Patient' /\ FormsStay
<1>1. NothingComes
  BY KeysWait DEF Operate
<1>2. PICK what \in {"refresh", "change"} : Perform([do |-> "operate", op |-> Op(what, NoForm)])
  BY DEF Operate
<1>3. PICK e : e = [do |-> "operate", op |-> Op(what, NoForm)]
  OBVIOUS
<1>4. UNCHANGED <<Queues, applied, page, takeover, origin>> /\ page = ListPage /\ ~takeover.up
  BY DialogStays DEF Operate, NoDialog, PageKey
<1>5. e.do = "operate" /\ e.op.form = NoForm
  BY <1>3 DEF Op
<1>6. EffectFits(e)'
  BY <1>4, <1>5 DEF EffectFits, LoginEffects, OpFits, ListWaits, DialogFits
<1>7. PageParts' /\ OriginParts' /\ TakeoverParts'
  BY <1>4 DEF Patient, PageParts, OriginParts, TakeoverParts
<1>8. \A form : Holds(form) => Holds(form)'
  BY <1>4 DEF Holds
<1>. QED BY <1>1, <1>2, <1>3, <1>4, <1>6, <1>7, <1>8, NowUnderway

LEMMA OpenFormKeeps ==
  ASSUME Patient, OpenForm, ~hurried'
  PROVE  Patient' /\ FormsStay
<1>1. NothingComes
  BY KeysWait DEF OpenForm
<1>2. PICK form : page' = [at |-> "form", form |-> form, busy |-> FALSE]
  BY DEF OpenForm
<1>3. /\ UNCHANGED <<held, Queues, applied, takeover, origin>> /\ page = ListPage /\ ~takeover.up
  BY DialogStays DEF OpenForm, NoDialog, NoEffect, PageKey
<1>4. PageParts' /\ OriginParts' /\ TakeoverParts'
  BY <1>2, <1>3 DEF Patient, PageParts, OriginParts, TakeoverParts, FormPages
<1>5. \A f : Holds(f) => Holds(f)'
  BY <1>3 DEF Holds, ListPage, FormPages
<1>. QED BY <1>1, <1>3, <1>4, <1>5, StillQuiet

LEMMA PagesOfForms ==
  ASSUME NEW form
  PROVE  /\ PageOf(form).at \in {"models", "mapping"} /\ PageOf(form).form = form
         /\ DOMAIN PageOf(form) = {"at", "form"}
BY DEF PageOf

LEMMA SubmitFormKeeps ==
  ASSUME Patient, SubmitForm, ~hurried'
  PROVE  Patient' /\ FormsStay
<1>1. NothingComes
  BY KeysWait DEF SubmitForm
<1>2. UNCHANGED <<Queues, applied, takeover, origin>> /\ page.at = "form" /\ ~takeover.up
  BY DialogStays DEF SubmitForm, NoDialog, PageKey
<1>3. {"at", "form", "busy"} \subseteq DOMAIN page
  BY <1>2 DEF Patient, PageParts, FormPages
<1>4. OriginParts' /\ TakeoverParts'
  BY <1>2 DEF Patient, OriginParts, TakeoverParts
<1>5. CASE page' = PageOf(page.form) /\ NoEffect
  <2>1. page'.at \in {"models", "mapping"} /\ page'.form = page.form /\ DOMAIN page' = {"at", "form"}
    BY <1>5, PagesOfForms
  <2>2. PageParts'
    BY <2>1 DEF PageParts, FormPages
  <2>3. \A f : Holds(f) => Holds(f)'
    BY <1>2, <2>1 DEF Holds, FormPages
  <2>. QED BY <1>1, <1>2, <1>4, <1>5, <2>2, <2>3, StillQuiet DEF NoEffect
<1>6. CASE page' = [page EXCEPT !.busy = TRUE] /\ Perform([do |-> "discover", form |-> page.form])
  <2>1. page'.at = "form" /\ page'.form = page.form /\ DOMAIN page' = DOMAIN page
    BY <1>2, <1>3, <1>6
  <2>2. PageParts'
    BY <1>3, <2>1 DEF PageParts, FormPages
  <2>3. \A f : Holds(f) => Holds(f)'
    BY <1>2, <2>1 DEF Holds, FormPages
  <2>4. PICK e : e = [do |-> "discover", form |-> page.form]
    OBVIOUS
  <2>5. e.do = "discover" /\ e.form = page.form
    BY <2>4
  <2>6. EffectFits(e)'
    BY <1>2, <2>1, <2>5 DEF EffectFits, LoginEffects, PageWaits
  <2>. QED BY <1>1, <1>2, <1>4, <1>6, <2>2, <2>3, <2>4, <2>6, NowUnderway
<1>. QED BY <1>5, <1>6 DEF SubmitForm

LEMMA ListModelsKeeps ==
  ASSUME Patient, ListModels, ~hurried'
  PROVE  Patient' /\ FormsStay
<1>1. NothingComes
  BY KeysWait DEF ListModels
<1>2. /\ UNCHANGED <<Queues, applied, takeover, origin>> /\ page.at = "mapping" /\ ~takeover.up
      /\ page' = [at |-> "list", form |-> page.form, busy |-> TRUE]
  BY DialogStays DEF ListModels, NoDialog, PageKey
<1>3. PageParts' /\ OriginParts' /\ TakeoverParts'
  BY <1>2 DEF Patient, PageParts, OriginParts, TakeoverParts, FormPages
<1>4. PICK e : e = [do |-> "list", form |-> page.form]
  OBVIOUS
<1>5. EffectFits(e)'
  BY <1>2, <1>4 DEF EffectFits, LoginEffects, PageWaits
<1>6. \A f : Holds(f) => Holds(f)'
  BY <1>2 DEF Holds, FormPages
<1>. QED BY <1>1, <1>2, <1>3, <1>4, <1>5, <1>6, NowUnderway DEF ListModels

LEMMA CloseListKeeps ==
  ASSUME Patient, CloseList, ~hurried'
  PROVE  Patient' /\ FormsStay
<1>1. NothingComes
  BY KeysWait DEF CloseList
<1>2. UNCHANGED <<held, Queues, applied, takeover, origin>> /\ page.at = "list" /\ ~takeover.up
  BY DialogStays DEF CloseList, NoDialog, NoEffect, PageKey
<1>3. page'.at \in {"models", "mapping"} /\ page'.form = page.form /\ DOMAIN page' = {"at", "form"}
  BY PagesOfForms DEF CloseList
<1>4. PageParts' /\ OriginParts' /\ TakeoverParts'
  BY <1>2, <1>3 DEF Patient, PageParts, OriginParts, TakeoverParts, FormPages
<1>5. \A f : Holds(f) => Holds(f)'
  BY <1>2, <1>3 DEF Holds, FormPages
<1>. QED BY <1>1, <1>2, <1>4, <1>5, StillQuiet

LEMMA SubmitPageKeeps ==
  ASSUME Patient, SubmitPage, ~hurried'
  PROVE  Patient' /\ FormsStay
<1>1. NothingComes
  BY KeysWait DEF SubmitPage
<1>2. /\ UNCHANGED <<Queues, applied, takeover>> /\ page.at \in {"models", "mapping"} /\ ~takeover.up
      /\ page' = ListPage /\ origin' = page
  BY DialogStays DEF SubmitPage, NoDialog, PageKey
<1>3. PageParts' /\ OriginParts' /\ TakeoverParts'
  BY <1>2 DEF Patient, PageParts, OriginParts, TakeoverParts, FormPages, ListPage
<1>4. PICK e : e = [do |-> "operate", op |-> Op("save", page.form)]
  OBVIOUS
<1>5. e.do = "operate" /\ e.op.what = "save" /\ e.op.form = page.form
  BY <1>4 DEF Op
<1>6. EffectFits(e)'
  BY <1>2, <1>5 DEF EffectFits, LoginEffects, OpFits, ListWaits, DialogFits
<1>7. \A f : Holds(f) => Holds(f)' \/ CallHolds(e, f)
  BY <1>2, <1>5 DEF Holds, CallHolds
<1>. QED BY <1>1, <1>2, <1>3, <1>4, <1>6, <1>7, NowUnderway DEF SubmitPage

LEMMA ChooseTakeoverKeeps ==
  ASSUME Patient, ChooseTakeover, ~hurried'
  PROVE  Patient' /\ FormsStay
<1>1. NothingComes /\ Quietly
  BY KeysWait DEF ChooseTakeover
<1>2. /\ UNCHANGED <<held, Queues, applied, page, origin>> /\ takeover.up
      /\ takeover' = [takeover EXCEPT !.accept = ~@]
  BY DialogStays DEF ChooseTakeover, NoEffect, TakeoverKey
<1>3. {"up", "op"} \subseteq DOMAIN takeover /\ OpFits(takeover.op)
  BY <1>2 DEF Patient, TakeoverParts
<1>4. takeover'.up /\ takeover'.op = takeover.op /\ {"up", "op"} \subseteq DOMAIN takeover'
  BY <1>2, <1>3
<1>5. PageParts' /\ OriginParts' /\ TakeoverParts'
  BY <1>2, <1>3, <1>4 DEF Patient, PageParts, OriginParts, TakeoverParts
<1>6. \A f : Holds(f) => Holds(f)'
  BY <1>2, <1>4 DEF Holds
<1>. QED BY <1>1, <1>2, <1>5, <1>6, StillQuiet DEF Quietly

(* A form that is restored is on the page.                                 *)
LEMMA RestoresForms ==
  ASSUME Patient, page = ListPage, NEW op, Restore(op)
  PROVE  /\ PageParts' /\ OriginParts'
         /\ op.form # NoForm => page'.at \in FormPages /\ page'.form = op.form
         /\ op.form = NoForm => page' = page
<1>1. CASE op.form = NoForm
  <2>1. page' = page /\ origin' = origin
    BY <1>1 DEF Restore, Restored
  <2>. QED BY <1>1, <2>1 DEF Patient, PageParts, OriginParts
<1>2. CASE op.form # NoForm /\ origin = NoOrigin
  <2>1. page' = [at |-> "form", form |-> op.form, busy |-> FALSE] /\ origin' = NoOrigin
    BY <1>2 DEF Restore, Restored
  <2>. QED BY <1>2, <2>1 DEF PageParts, OriginParts, FormPages
<1>3. CASE op.form # NoForm /\ origin # NoOrigin
  <2>1. page' = [origin EXCEPT !.form = op.form] /\ origin' = NoOrigin
    BY <1>3 DEF Restore, Restored
  <2>2. DOMAIN origin = {"at", "form"} /\ origin.at \in {"models", "mapping"}
    BY <1>3 DEF Patient, OriginParts
  <2>3. DOMAIN page' = {"at", "form"} /\ page'.at = origin.at /\ page'.form = op.form
    BY <2>1, <2>2
  <2>. QED BY <1>3, <2>1, <2>2, <2>3 DEF PageParts, OriginParts, FormPages
<1>. QED BY <1>1, <1>2, <1>3

LEMMA CancelTakeoverKeeps ==
  ASSUME Patient, CancelTakeover, ~hurried'
  PROVE  Patient' /\ FormsStay
<1>1. NothingComes /\ Quietly
  BY KeysWait DEF CancelTakeover
<1>2. /\ UNCHANGED <<held, Queues, applied>> /\ takeover.up /\ takeover' = NoTakeover
      /\ Restore(takeover.op)
  BY DialogStays DEF CancelTakeover, NoEffect, TakeoverKey
<1>3. page = ListPage
  BY <1>1, <1>2 DEF Quietly
<1>4. PICK op : op = takeover.op /\ Restore(op)
  BY <1>2
<1>5. /\ PageParts' /\ OriginParts'
      /\ op.form # NoForm => page'.at \in FormPages /\ page'.form = op.form
  BY <1>3, <1>4, RestoresForms
<1>6. ~takeover'.up /\ TakeoverParts'
  BY <1>2 DEF NoTakeover, TakeoverParts
<1>7. \A f \in Forms : Holds(f) => Holds(f)'
  BY <1>2, <1>3, <1>4, <1>5, ScreenConstants DEF Holds, ListPage, FormPages
<1>. QED BY <1>1, <1>2, <1>5, <1>6, <1>7, StillQuiet

LEMMA ApproveTakeoverKeeps ==
  ASSUME Patient, ApproveTakeover, ~hurried'
  PROVE  Patient' /\ FormsStay
<1>1. NothingComes /\ Quietly
  BY KeysWait DEF ApproveTakeover
<1>2. /\ UNCHANGED <<Queues, applied, page, origin>> /\ takeover.up
      /\ takeover' = [takeover EXCEPT !.sent = TRUE]
  BY DialogStays DEF ApproveTakeover, TakeoverKey
<1>3. {"up", "op"} \subseteq DOMAIN takeover /\ OpFits(takeover.op) /\ page = ListPage
  BY <1>1, <1>2 DEF Patient, TakeoverParts, Quietly
<1>4. takeover'.up /\ takeover'.op = takeover.op /\ {"up", "op"} \subseteq DOMAIN takeover'
  BY <1>2, <1>3
<1>5. PageParts' /\ OriginParts' /\ TakeoverParts'
  BY <1>2, <1>3, <1>4 DEF Patient, PageParts, OriginParts, TakeoverParts
<1>6. PICK e : e = [do |-> "take over", op |-> takeover.op]
  OBVIOUS
<1>7. e.do = "take over" /\ e.op = takeover.op
  BY <1>6
<1>8. EffectFits(e)'
  BY <1>2, <1>3, <1>4, <1>7 DEF EffectFits, LoginEffects, OpFits, ListWaits, DialogFits
<1>9. \A f : Holds(f) => Holds(f)'
  BY <1>2, <1>4 DEF Holds
<1>. QED BY <1>1, <1>2, <1>5, <1>6, <1>8, <1>9, NowUnderway DEF ApproveTakeover

(* The login dialog holds no form.                                         *)
LEMMA LoginPages ==
  ASSUME NEW id, NEW state, NEW asking, NEW cancelling
  PROVE  /\ DOMAIN LoginPage(id, state, asking, cancelling) = {"at", "id", "state", "asking", "cancelling"}
         /\ LoginPage(id, state, asking, cancelling).at = "login"
         /\ LoginPage(id, state, asking, cancelling).asking = asking
BY DEF LoginPage

LEMMA LoginAsks ==
  ASSUME Patient, NothingComes, NEW e, Perform(e), e.do \in LoginEffects,
         UNCHANGED <<Queues, applied, takeover, origin>>, page.at \in {"normal", "login"}, ~takeover.up,
         DOMAIN page' = {"at", "id", "state", "asking", "cancelling"}, page'.at = "login", page'.asking
  PROVE  Patient' /\ FormsStay
<1>1. PageParts' /\ OriginParts' /\ TakeoverParts'
  BY DEF Patient, PageParts, OriginParts, TakeoverParts, FormPages
<1>2. EffectFits(e)'
  BY DEF EffectFits, LoginEffects, PageWaits
<1>3. \A f : Holds(f) => Holds(f)'
  BY DEF Holds, FormPages
<1>. QED BY <1>1, <1>2, <1>3, NowUnderway

LEMMA OpenLoginKeeps ==
  ASSUME Patient, OpenLogin, ~hurried'
  PROVE  Patient' /\ FormsStay
<1>1. NothingComes
  BY KeysWait DEF OpenLogin
<1>2. /\ UNCHANGED <<Queues, applied, takeover, origin>> /\ page = ListPage /\ ~takeover.up
      /\ page' = LoginPage(NoId, "starting", TRUE, FALSE)
  BY DialogStays DEF OpenLogin, NoDialog, PageKey
<1>3. page'.at = "login" /\ page'.asking /\ DOMAIN page' = {"at", "id", "state", "asking", "cancelling"}
  BY <1>2 DEF LoginPage
<1>4. PICK e : e = [do |-> "start"]
  OBVIOUS
<1>6. e.do \in LoginEffects
  BY <1>4 DEF LoginEffects
<1>5. page.at \in {"normal", "login"}
  BY <1>2 DEF ListPage
<1>. QED BY <1>1, <1>2, <1>3, <1>4, <1>5, <1>6, LoginAsks DEF OpenLogin

LEMMA EscapeLoginKeeps ==
  ASSUME Patient, EscapeLogin, ~hurried'
  PROVE  Patient' /\ FormsStay
<1>1. NothingComes
  BY KeysWait DEF EscapeLogin
<1>2. UNCHANGED <<Queues, applied, takeover, origin>> /\ page.at = "login" /\ ~takeover.up
  BY DialogStays DEF EscapeLogin, NoDialog, PageKey
<1>3. DOMAIN page = {"at", "id", "state", "asking", "cancelling"}
  BY <1>2 DEF Patient, PageParts
<1>4. CASE page.id # NoId
  <2>1. page' = [page EXCEPT !.cancelling = TRUE, !.asking = TRUE]
        /\ Perform([do |-> "cancel", id |-> page.id])
    BY <1>4 DEF EscapeLogin
  <2>2. page'.at = "login" /\ page'.asking /\ DOMAIN page' = {"at", "id", "state", "asking", "cancelling"}
    BY <1>2, <1>3, <2>1
  <2>3. PICK e : e = [do |-> "cancel", id |-> page.id]
    OBVIOUS
  <2>4. e.do \in LoginEffects
    BY <2>3 DEF LoginEffects
  <2>. QED BY <1>1, <1>2, <2>1, <2>2, <2>3, <2>4, LoginAsks
<1>5. CASE page.id = NoId
  <2>1. page' \in {[page EXCEPT !.cancelling = TRUE], ListPage} /\ UNCHANGED held
    BY <1>5 DEF EscapeLogin, NoEffect
  <2>2. PageParts'
    BY <1>2, <1>3, <2>1 DEF PageParts, ListPage, FormPages
  <2>3. OriginParts' /\ TakeoverParts'
    BY <1>2 DEF Patient, OriginParts, TakeoverParts
  <2>4. \A f : Holds(f) => Holds(f)'
    BY <1>2 DEF Holds, FormPages
  <2>. QED BY <1>1, <1>2, <2>1, <2>2, <2>3, <2>4, StillQuiet
<1>. QED BY <1>4, <1>5

LEMMA SubmitCodeKeeps ==
  ASSUME Patient, SubmitCode, ~hurried'
  PROVE  Patient' /\ FormsStay
<1>1. NothingComes
  BY KeysWait DEF SubmitCode
<1>2. /\ UNCHANGED <<Queues, applied, takeover, origin>> /\ page.at = "login" /\ ~takeover.up
      /\ page' = [page EXCEPT !.asking = TRUE]
  BY DialogStays DEF SubmitCode, NoDialog, PageKey
<1>3. DOMAIN page = {"at", "id", "state", "asking", "cancelling"}
  BY <1>2 DEF Patient, PageParts
<1>4. page'.at = "login" /\ page'.asking /\ DOMAIN page' = {"at", "id", "state", "asking", "cancelling"}
  BY <1>2, <1>3
<1>5. PICK e : e = [do |-> "submit", id |-> page.id]
  OBVIOUS
<1>6. e.do \in LoginEffects
  BY <1>5 DEF LoginEffects
<1>. QED BY <1>1, <1>2, <1>4, <1>5, <1>6, LoginAsks DEF SubmitCode

(* A poll is no key, but it comes only when the dialog has asked nothing.  *)
LEMMA PollKeeps ==
  ASSUME Patient, Poll
  PROVE  Patient' /\ FormsStay
<1>1. /\ UNCHANGED <<Queues, applied, takeover, origin>> /\ page.at = "login" /\ ~page.asking
      /\ page' = [page EXCEPT !.asking = TRUE]
  BY DialogStays DEF Poll, NoDialog
<1>2. \A form : ~ListWaits(form)
  BY <1>1 DEF ListWaits, ListPage
<1>3. \A e : ~EffectFits(e)
  BY <1>1, <1>2 DEF EffectFits, PageWaits
<1>4. \A a : ~AnswerFits(a)
  BY <1>1, <1>2 DEF AnswerFits, PageWaits
<1>5. NothingComes /\ ~takeover.up
  BY <1>1, <1>3, <1>4 DEF Patient, OneAtATime, Quietly, ListPage
<1>6. DOMAIN page = {"at", "id", "state", "asking", "cancelling"}
  BY <1>1 DEF Patient, PageParts
<1>7. page'.at = "login" /\ page'.asking /\ DOMAIN page' = {"at", "id", "state", "asking", "cancelling"}
  BY <1>1, <1>6
<1>8. PICK e : e = [do |-> "status", id |-> page.id]
  OBVIOUS
<1>9. e.do \in LoginEffects
  BY <1>8 DEF LoginEffects
<1>. QED BY <1>1, <1>5, <1>7, <1>8, <1>9, LoginAsks DEF Poll

(* Effects and answers on their way.                                       *)
LEMMA HeldIsUnderway ==
  ASSUME Patient, held # <<>> \/ effects # <<>>
  PROVE  \E e : Underway(e) /\ EffectFits(e)
BY DEF Patient, OneAtATime, NothingComes, Coming, ComingTwo

LEMMA AnswersAreComing ==
  ASSUME Patient, out # <<>> \/ actions # <<>>
  PROVE  \/ \E a : Coming(a) /\ AnswerFits(a)
         \/ \E n, a : ComingTwo(n, a) /\ n.answer = "notice" /\ AnswerFits(a)
                      /\ a.answer \in {"loaded", "failed"}
BY DEF Patient, OneAtATime, NothingComes, Underway

LEMMA HandOverKeeps ==
  ASSUME Patient, HandOver
  PROVE  Patient' /\ FormsStay
<1>1. /\ held # <<>> /\ effects' = effects \o held /\ held' = <<>>
      /\ UNCHANGED <<page, actions, out, takeover, origin, applied>>
  BY DEF HandOver
<1>2. PICK e : Underway(e) /\ EffectFits(e)
  BY <1>1, HeldIsUnderway
<1>3. held = <<e>> /\ effects = <<>> /\ out = <<>> /\ actions = <<>>
  BY <1>1, <1>2 DEF Underway
<1>4. Underway(e)'
  BY <1>1, <1>3, ShortQueues DEF Underway
<1>5. EffectFits(e)'
  BY <1>1, <1>2 DEF EffectFits, ListWaits, DialogFits, PageWaits
<1>6. PageParts' /\ OriginParts' /\ TakeoverParts'
  BY <1>1 DEF Patient, PageParts, OriginParts, TakeoverParts
<1>7. OneAtATime'
  BY <1>4, <1>5 DEF OneAtATime
<1>8. FormsStay
  BY <1>1, <1>2, <1>4, OpenedNow, OpenedThen DEF FormsStay, Holds
<1>. QED BY <1>6, <1>7, <1>8 DEF Patient

(* The worker takes the effect and has an answer, or a notice before it.   *)
LEMMA WorkTakes ==
  ASSUME Patient, NEW kinds, Take(kinds), ScreenSide
  PROVE  /\ UNCHANGED <<page, held, actions, takeover, origin>>
         /\ \E e : /\ e = Head(effects) /\ e.do \in kinds /\ Underway(e) /\ EffectFits(e)
                   /\ \A a : out' = <<a>> => Coming(a)'
                   /\ \A n, a : out' = <<n, a>> => ComingTwo(n, a)'
<1>1. UNCHANGED <<page, held, actions, takeover, origin>>
  BY DEF ScreenSide
<1>2. effects # <<>> /\ effects' = Tail(effects) /\ Head(effects).do \in kinds
  BY DEF Take, Next1
<1>3. PICK e : Underway(e) /\ EffectFits(e)
  BY <1>2, HeldIsUnderway
<1>4. held = <<>> /\ effects = <<e>> /\ out = <<>> /\ actions = <<>>
  BY <1>2, <1>3 DEF Underway
<1>5. Head(effects) = e /\ effects' = <<>> /\ held' = <<>> /\ actions' = <<>>
  BY <1>1, <1>2, <1>4, ShortQueues
<1>. QED BY <1>1, <1>2, <1>3, <1>5 DEF Coming, ComingTwo

LEMMA PagesKept ==
  ASSUME Patient, UNCHANGED <<page, takeover, origin>>
  PROVE  PageParts' /\ OriginParts' /\ TakeoverParts'
BY DEF Patient, PageParts, OriginParts, TakeoverParts

LEMMA WorkDiscoveryKeeps ==
  ASSUME Patient, WorkDiscovery
  PROVE  Patient' /\ FormsStay
<1>0. ScreenSide /\ UNCHANGED applied
  BY DEF WorkDiscovery
<1>1. UNCHANGED <<page, held, actions, takeover, origin>>
  BY <1>0 DEF ScreenSide
<1>2. PICK e : /\ e = Head(effects) /\ e.do \in {"discover", "list"} /\ Underway(e) /\ EffectFits(e)
               /\ \A a : out' = <<a>> => Coming(a)'
  BY <1>0, WorkTakes DEF WorkDiscovery
<1>3. PICK a : a = [answer |-> IF e.do = "list" THEN "listed" ELSE "discovered", form |-> e.form]
  OBVIOUS
<1>4. Coming(a)'
  BY <1>2, <1>3 DEF WorkDiscovery
<1>5. /\ a.form = e.form
      /\ \/ a.answer = "listed" /\ e.do = "list"
         \/ a.answer = "discovered" /\ e.do = "discover"
  BY <1>2, <1>3
<1>6. AnswerFits(a)'
  BY <1>1, <1>2, <1>5 DEF AnswerFits, EffectFits, PageWaits
<1>7. OneAtATime'
  BY <1>4, <1>6 DEF OneAtATime
<1>8. FormsStay
  BY <1>0, <1>1, <1>2, <1>4, OpenedNow, OpenedThen DEF FormsStay, Holds, CallHolds
<1>. QED BY <1>1, <1>7, <1>8, PagesKept DEF Patient

LEMMA WorkLoginKeeps ==
  ASSUME Patient, WorkLogin
  PROVE  Patient' /\ FormsStay
<1>0. ScreenSide /\ UNCHANGED applied
  BY DEF WorkLogin
<1>1. UNCHANGED <<page, held, actions, takeover, origin>>
  BY <1>0 DEF ScreenSide
<1>2. PICK e : /\ e.do \in LoginEffects /\ Underway(e) /\ EffectFits(e)
               /\ \A a : out' = <<a>> => Coming(a)'
  BY <1>0, WorkTakes DEF WorkLogin, LoginEffects
<1>3. PICK a : out' = <<a>> /\ a.answer \in {"login", "login failed"}
  <2>1. CASE LoginFailed
    <3>1. [answer |-> "login failed"].answer = "login failed"
      OBVIOUS
    <3>. QED BY <2>1, <3>1 DEF LoginFailed
  <2>2. CASE \E id, state : Reported(id, state)
    <3>1. PICK id, state : out' = <<[answer |-> "login", id |-> id, state |-> state]>>
      BY <2>2 DEF Reported
    <3>2. PICK a : a = [answer |-> "login", id |-> id, state |-> state]
      OBVIOUS
    <3>3. a.answer = "login"
      BY <3>2
    <3>. QED BY <3>1, <3>2, <3>3
  <2>. QED BY <2>1, <2>2 DEF WorkLogin
<1>4. Coming(a)'
  BY <1>2, <1>3
<1>5. AnswerFits(a)'
  BY <1>1, <1>2, <1>3 DEF AnswerFits, EffectFits, PageWaits, LoginEffects
<1>6. OneAtATime'
  BY <1>4, <1>5 DEF OneAtATime
<1>7. FormsStay
  BY <1>0, <1>1, <1>2, <1>4, OpenedNow, OpenedThen DEF FormsStay, Holds, CallHolds, LoginEffects
<1>. QED BY <1>1, <1>6, <1>7, PagesKept DEF Patient

(* An operation is stored, or comes back with its form.                    *)
LEMMA OperationAnswered ==
  ASSUME Patient, NEW e, Underway(e), EffectFits(e), e.do \in {"operate", "take over"},
         NEW op, op = e.op,
         \A a : out' = <<a>> => Coming(a)', \A n, a : out' = <<n, a>> => ComingTwo(n, a)',
         UNCHANGED <<page, held, actions, takeover, origin>>,
         \/ Performed(op) \/ Declined(op) \/ Conflicting(op)
         \/ op.what = "refresh" /\ UNCHANGED applied /\ out' = <<LoadedAnswer>>
  PROVE  Patient' /\ FormsStay
<1>1. OpFits(op) /\ ListWaits(op.form)
  BY DEF EffectFits
<1>2. page' = ListPage /\ page = ListPage
  BY <1>1 DEF ListWaits
<1>3. ASSUME NEW form \in Forms, Opened(form)
      PROVE  Holds(form) \/ op.form = form
  BY <1>3, OpenedNow DEF CallHolds
<1>4. ASSUME applied \subseteq applied', NEW form, Holds(form)
      PROVE  Holds(form)'
  BY <1>4 DEF Holds
<1>5. CASE Declined(op) \/ Conflicting(op)
  <2>1. PICK a : out' = <<a>> /\ a.op = op /\ a.answer \in {"conflict", "not configured"}
                 /\ UNCHANGED applied
    <3>1. CASE Declined(op)
      <4>1. PICK a : a = [answer |-> "not configured", op |-> op]
        OBVIOUS
      <4>. QED BY <3>1, <4>1 DEF Declined
    <3>2. CASE Conflicting(op)
      <4>1. PICK a : a = [answer |-> "conflict", op |-> op]
        OBVIOUS
      <4>. QED BY <3>2, <4>1 DEF Conflicting
    <3>. QED BY <1>5, <3>1, <3>2
  <2>2. Coming(a)'
    BY <2>1
  <2>3. AnswerFits(a)'
    BY <1>1, <2>1 DEF AnswerFits, OpFits, ListWaits, DialogFits
  <2>4. OneAtATime'
    BY <2>2, <2>3 DEF OneAtATime
  <2>5. FormsStay
    BY <1>3, <1>4, <2>1, <2>2, OpenedThen DEF FormsStay, AnswerHolds
  <2>. QED BY <2>4, <2>5, PagesKept DEF Patient
<1>6. CASE Performed(op)
  <2>1. applied' = IF op.what = "save" THEN applied \cup {op.form} ELSE applied
    BY <1>6 DEF Performed
  <2>2. applied \subseteq applied' /\ (op.form # NoForm => op.form \in applied')
    BY <1>1, <2>1 DEF OpFits
  <2>3. PICK n, a : out' = <<n, a>> /\ n.answer = "notice" /\ a.answer \in {"loaded", "failed"}
    <3>1. PICK n, a, b : n = [answer |-> "notice"] /\ a = LoadedAnswer /\ b = [answer |-> "failed"]
      OBVIOUS
    <3>2. n.answer = "notice" /\ a.answer = "loaded" /\ b.answer = "failed"
      BY <3>1 DEF LoadedAnswer
    <3>. QED BY <1>6, <3>1, <3>2 DEF Performed
  <2>4. ComingTwo(n, a)'
    BY <2>3
  <2>5. AnswerFits(a)'
    BY <1>1, <1>2, <2>2, <2>3 DEF AnswerFits, ListWaits, DialogFits
  <2>6. OneAtATime'
    BY <2>3, <2>4, <2>5 DEF OneAtATime
  <2>7. FormsStay
    <3>1. ASSUME NEW form \in Forms, Opened(form) PROVE Holds(form)'
      BY <1>3, <1>4, <2>2, <3>1, ScreenConstants DEF Holds
    <3>. QED BY <2>4, <3>1, OpenedThen DEF FormsStay
  <2>. QED BY <2>6, <2>7, PagesKept DEF Patient
<1>7. CASE op.what = "refresh" /\ UNCHANGED applied /\ out' = <<LoadedAnswer>>
  <2>1. op.form = NoForm
    BY <1>1, <1>7 DEF OpFits
  <2>2. PICK a : a = LoadedAnswer /\ a.answer = "loaded"
    <3>1. LoadedAnswer.answer = "loaded"
      BY DEF LoadedAnswer
    <3>. QED BY <3>1
  <2>3. Coming(a)'
    BY <1>7, <2>2
  <2>4. AnswerFits(a)'
    BY <1>1, <1>2, <1>7, <2>1, <2>2 DEF AnswerFits, ListWaits, DialogFits
  <2>5. OneAtATime'
    BY <2>3, <2>4 DEF OneAtATime
  <2>6. FormsStay
    <3>1. ASSUME NEW form \in Forms, Opened(form) PROVE Holds(form)'
      BY <1>3, <1>4, <1>7, <2>1, <3>1, ScreenConstants
    <3>. QED BY <2>3, <3>1, OpenedThen DEF FormsStay
  <2>. QED BY <2>5, <2>6, PagesKept DEF Patient
<1>. QED BY <1>5, <1>6, <1>7

LEMMA WorkKeeps ==
  ASSUME Patient, WorkOperation \/ WorkTakeover
  PROVE  Patient' /\ FormsStay
<1>0. ScreenSide
  BY DEF WorkOperation, WorkTakeover
<1>1. UNCHANGED <<page, held, actions, takeover, origin>>
  BY <1>0 DEF ScreenSide
<1>2. PICK e : /\ e = Head(effects) /\ e.do \in {"operate", "take over"} /\ Underway(e) /\ EffectFits(e)
               /\ \A a : out' = <<a>> => Coming(a)'
               /\ \A n, a : out' = <<n, a>> => ComingTwo(n, a)'
  BY <1>0, WorkTakes DEF WorkOperation, WorkTakeover
<1>3. PICK op : op = e.op
  OBVIOUS
<1>4. \/ Performed(op) \/ Declined(op) \/ Conflicting(op)
      \/ op.what = "refresh" /\ UNCHANGED applied /\ out' = <<LoadedAnswer>>
  <2>1. CASE WorkTakeover
    BY <1>2, <1>3, <2>1 DEF WorkTakeover
  <2>2. CASE WorkOperation /\ op.what # "refresh"
    BY <1>2, <1>3, <2>2 DEF WorkOperation
  <2>3. CASE WorkOperation /\ op.what = "refresh"
    <3>1. /\ UNCHANGED applied
          /\ \/ out' = <<LoadedAnswer>>
             \/ out' = <<[answer |-> "not configured", op |-> op]>> /\ Fault
      BY <1>2, <1>3, <2>3 DEF WorkOperation
    <3>. QED BY <2>3, <3>1 DEF Declined
  <2>. QED BY <2>1, <2>2, <2>3
<1>. QED BY <1>1, <1>2, <1>3, <1>4, OperationAnswered

LEMMA DeliverKeeps ==
  ASSUME Patient, Deliver, ~quit
  PROVE  Patient' /\ FormsStay
<1>1. /\ out # <<>> /\ actions' = Append(actions, Head(out)) /\ out' = Tail(out)
      /\ UNCHANGED <<page, held, effects, takeover, origin, applied>>
  BY DEF Deliver
<1>2. \A form : Holds(form)' <=> Holds(form)
  BY <1>1 DEF Holds
<1>3. \A a : AnswerFits(a) => AnswerFits(a)'
  BY <1>1 DEF AnswerFits, ListWaits, DialogFits, PageWaits
<1>4. ASSUME NEW a, Coming(a), AnswerFits(a) PROVE OneAtATime' /\ FormsStay
  <2>1. out = <<a>> /\ actions = <<>> /\ held = <<>> /\ effects = <<>>
    BY <1>1, <1>4 DEF Coming
  <2>2. out' = <<>> /\ actions' = <<a>>
    BY <1>1, <2>1, ShortQueues
  <2>3. Coming(a)'
    BY <1>1, <2>1, <2>2 DEF Coming
  <2>4. FormsStay
    BY <1>2, <1>4, <2>3, OpenedNow, OpenedThen DEF FormsStay
  <2>. QED BY <1>3, <1>4, <2>3, <2>4 DEF OneAtATime
<1>5. ASSUME NEW n, NEW a, ComingTwo(n, a), n.answer = "notice", AnswerFits(a),
             a.answer \in {"loaded", "failed"}
      PROVE  OneAtATime' /\ FormsStay
  <2>1. /\ held = <<>> /\ effects = <<>>
        /\ \/ out = <<n, a>> /\ actions = <<>>
           \/ out = <<a>> /\ actions = <<n>>
    BY <1>1, <1>5 DEF ComingTwo
  <2>0. /\ Head(<<n, a>>) = n /\ Tail(<<n, a>>) = <<a>> /\ Append(<<>>, n) = <<n>>
        /\ Head(<<a>>) = a /\ Tail(<<a>>) = <<>> /\ Append(<<n>>, a) = <<n, a>>
    BY ShortQueues
  <2>2. \/ out' = <<a>> /\ actions' = <<n>>
        \/ out' = <<>> /\ actions' = <<n, a>>
    <3>1. CASE out = <<n, a>> /\ actions = <<>>
      BY <1>1, <2>0, <3>1
    <3>2. CASE out = <<a>> /\ actions = <<n>>
      BY <1>1, <2>0, <3>2
    <3>. QED BY <2>1, <3>1, <3>2
  <2>3. ComingTwo(n, a)'
    BY <1>1, <2>1, <2>2 DEF ComingTwo
  <2>4. FormsStay
    BY <1>2, <1>5, <2>3, OpenedNow, OpenedThen DEF FormsStay
  <2>. QED BY <1>3, <1>5, <2>3, <2>4 DEF OneAtATime
<1>. QED BY <1>1, <1>4, <1>5, AnswersAreComing, PagesKept DEF Patient

(* Answers that reach the screen.                                          *)
LEMMA Received ==
  ASSUME Patient, NEW kinds, Receive(kinds)
  PROVE  /\ UNCHANGED <<effects, out, applied>>
         /\ \/ \E a : /\ a = Head(actions) /\ a.answer \in kinds /\ Coming(a) /\ AnswerFits(a)
                      /\ effects' = <<>> /\ out' = <<>> /\ actions' = <<>> /\ held = <<>>
            \/ \E n, a : /\ n = Head(actions) /\ "notice" \in kinds /\ n.answer = "notice"
                         /\ ComingTwo(n, a) /\ AnswerFits(a) /\ a.answer \in {"loaded", "failed"}
                         /\ held' = held => Coming(a)'
<1>1. /\ actions # <<>> /\ Head(actions).answer \in kinds /\ actions' = Tail(actions)
      /\ UNCHANGED <<effects, out, applied>> /\ held = <<>>
  BY DEF Receive
<1>2. ASSUME NEW a, Coming(a), AnswerFits(a)
      PROVE  /\ a = Head(actions) /\ effects' = <<>> /\ out' = <<>> /\ actions' = <<>>
  <2>1. out = <<>> /\ actions = <<a>> /\ effects = <<>>
    BY <1>1, <1>2 DEF Coming
  <2>. QED BY <1>1, <2>1, ShortQueues
<1>3. ASSUME NEW n, NEW a, ComingTwo(n, a), n.answer = "notice"
      PROVE  /\ n = Head(actions)
             /\ \/ out' = <<a>> /\ actions' = <<>>
                \/ out' = <<>> /\ actions' = <<a>>
             /\ effects' = <<>>
  <2>1. effects = <<>> /\ \/ out = <<a>> /\ actions = <<n>>
                          \/ out = <<>> /\ actions = <<n, a>>
    BY <1>1, <1>3 DEF ComingTwo
  <2>2. /\ Head(<<n>>) = n /\ Tail(<<n>>) = <<>> /\ Head(<<n, a>>) = n /\ Tail(<<n, a>>) = <<a>>
    BY ShortQueues
  <2>3. CASE out = <<a>> /\ actions = <<n>>
    BY <1>1, <2>1, <2>2, <2>3
  <2>4. CASE out = <<>> /\ actions = <<n, a>>
    BY <1>1, <2>1, <2>2, <2>4
  <2>. QED BY <2>1, <2>3, <2>4
<1>4. CASE \E a : Coming(a) /\ AnswerFits(a)
  BY <1>1, <1>2, <1>4
<1>5. CASE \E n, a : ComingTwo(n, a) /\ n.answer = "notice" /\ AnswerFits(a)
                     /\ a.answer \in {"loaded", "failed"}
  <2>1. PICK n, a : ComingTwo(n, a) /\ n.answer = "notice" /\ AnswerFits(a)
                     /\ a.answer \in {"loaded", "failed"}
    BY <1>5
  <2>2. /\ n = Head(actions) /\ effects' = <<>>
        /\ \/ out' = <<a>> /\ actions' = <<>>
           \/ out' = <<>> /\ actions' = <<a>>
    BY <1>3, <2>1
  <2>3. held' = held => Coming(a)'
    BY <1>1, <2>2 DEF Coming
  <2>. QED BY <1>1, <2>1, <2>2, <2>3
<1>. QED BY <1>1, <1>4, <1>5, AnswersAreComing

LEMMA AnswerTaken ==
  ASSUME Patient, NEW kinds, Receive(kinds), "notice" \notin kinds
  PROVE  /\ UNCHANGED applied
         /\ \E a : /\ a = Head(actions) /\ a.answer \in kinds /\ Coming(a) /\ AnswerFits(a)
                   /\ held' = held => NothingComes'
                   /\ \A e : Perform(e) => Underway(e)'
<1>1. UNCHANGED <<effects, out, applied>>
  BY Received
<1>2. PICK a : /\ a = Head(actions) /\ a.answer \in kinds /\ Coming(a) /\ AnswerFits(a)
               /\ effects' = <<>> /\ out' = <<>> /\ actions' = <<>> /\ held = <<>>
  BY Received
<1>. QED BY <1>1, <1>2 DEF NothingComes, Underway, Perform

(* An answer after which nothing is on its way, and one that is followed by *)
(* an effect.                                                              *)
LEMMA Settles ==
  ASSUME NEW a, Coming(a), NothingComes', Quietly', PageParts', OriginParts', TakeoverParts',
         \A form \in Forms : Holds(form) \/ AnswerHolds(a, form) => Holds(form)'
  PROVE  Patient' /\ FormsStay
<1>1. OneAtATime'
  BY DEF OneAtATime
<1>2. FormsStay
  BY OpenedNow, OpenedThen DEF FormsStay
<1>. QED BY <1>1, <1>2 DEF Patient

LEMMA GoesOn ==
  ASSUME NEW a, Coming(a), NEW e, Underway(e)', EffectFits(e)',
         PageParts', OriginParts', TakeoverParts',
         \A form \in Forms : Holds(form) \/ AnswerHolds(a, form) => Holds(form)'
  PROVE  Patient' /\ FormsStay
<1>1. OneAtATime'
  BY DEF OneAtATime
<1>2. FormsStay
  BY OpenedNow, OpenedThen DEF FormsStay
<1>. QED BY <1>1, <1>2 DEF Patient

LEMMA OnLoadedKeeps ==
  ASSUME Patient, OnLoaded
  PROVE  Patient' /\ FormsStay
<1>1. /\ Receive({"loaded"}) /\ takeover' \in {StartupTakeover, NoTakeover} /\ origin' = NoOrigin
      /\ UNCHANGED <<page, held>>
  BY DEF OnLoaded
<1>2. PICK a : a.answer \in {"loaded"} /\ Coming(a) /\ AnswerFits(a) /\ NothingComes'
  BY <1>1, AnswerTaken
<1>3. UNCHANGED applied
  BY <1>1, AnswerTaken
<1>4. page = ListPage /\ DialogFits(NoForm)
  BY <1>2 DEF AnswerFits, ListWaits
<1>5. TakeoverParts' /\ Quietly'
  BY <1>1, <1>4 DEF TakeoverParts, Quietly, StartupTakeover, NoTakeover, OpFits, RefreshOp, Op
<1>6. PageParts' /\ OriginParts'
  BY <1>1 DEF Patient, PageParts, OriginParts
<1>7. ASSUME NEW form \in Forms, Holds(form) \/ AnswerHolds(a, form)
      PROVE  Holds(form)'
  <2>1. form # NoForm /\ ~AnswerHolds(a, form)
    BY <1>2, ScreenConstants DEF AnswerHolds
  <2>. QED BY <1>1, <1>3, <1>4, <1>7, <2>1 DEF Holds, DialogFits, FormPages, ListPage
<1>. QED BY <1>2, <1>5, <1>6, <1>7, Settles

LEMMA OnNoticeKeeps ==
  ASSUME Patient, OnNotice
  PROVE  Patient' /\ FormsStay
<1>1. /\ Receive({"notice"}) /\ takeover' = NoTakeover /\ origin' = NoOrigin
      /\ UNCHANGED <<page, held>>
  BY DEF OnNotice
<1>2. UNCHANGED applied
  BY <1>1, Received
<1>3. PICK n, a : /\ n.answer = "notice" /\ ComingTwo(n, a) /\ AnswerFits(a)
                  /\ a.answer \in {"loaded", "failed"} /\ Coming(a)'
  <2>1. ASSUME NEW a, a.answer \in {"notice"}, AnswerFits(a) PROVE FALSE
    BY <2>1 DEF AnswerFits
  <2>2. PICK n, a : /\ n.answer = "notice" /\ ComingTwo(n, a) /\ AnswerFits(a)
                    /\ a.answer \in {"loaded", "failed"} /\ (held' = held => Coming(a)')
    BY <1>1, <2>1, Received
  <2>. QED BY <1>1, <2>2
<1>4. page = ListPage /\ DialogFits(NoForm)
  BY <1>3 DEF AnswerFits, ListWaits
<1>5. PageParts' /\ OriginParts' /\ TakeoverParts' /\ ~takeover'.up
  BY <1>1 DEF Patient, PageParts, OriginParts, TakeoverParts, NoTakeover
<1>6. AnswerFits(a)'
  BY <1>1, <1>3, <1>4, <1>5 DEF AnswerFits, ListWaits, DialogFits
<1>7. OneAtATime'
  BY <1>3, <1>6 DEF OneAtATime
<1>8. ASSUME NEW form \in Forms, Opened(form)
      PROVE  Opened(form)'
  <2>1. form # NoForm /\ ~AnswerHolds(n, form) /\ ~AnswerHolds(a, form)
    BY <1>3, ScreenConstants DEF AnswerHolds
  <2>2. Holds(form)
    BY <1>3, <1>8, <2>1, OpenedNow
  <2>3. Holds(form)'
    BY <1>1, <1>2, <1>4, <2>1, <2>2 DEF Holds, DialogFits, FormPages, ListPage
  <2>. QED BY <1>3, <2>3, OpenedThen
<1>. QED BY <1>5, <1>7, <1>8 DEF Patient, FormsStay

LEMMA OnFailedKeeps ==
  ASSUME Patient, OnFailed
  PROVE  Patient' /\ FormsStay
<1>1. Receive({"failed"}) /\ UNCHANGED <<page, held, takeover, origin>>
  BY DEF OnFailed
<1>2. PICK a : a.answer \in {"failed"} /\ Coming(a) /\ AnswerFits(a) /\ NothingComes'
  BY <1>1, AnswerTaken
<1>3. UNCHANGED applied
  BY <1>1, AnswerTaken
<1>4. Quietly'
  BY <1>1, <1>2 DEF AnswerFits, ListWaits, Quietly
<1>5. \A form : Holds(form) \/ AnswerHolds(a, form) => Holds(form)'
  BY <1>1, <1>2, <1>3 DEF Holds, AnswerHolds
<1>. QED BY <1>1, <1>2, <1>4, <1>5, PagesKept, Settles

LEMMA OnConflictKeeps ==
  ASSUME Patient, OnConflict
  PROVE  Patient' /\ FormsStay
<1>1. /\ Receive({"conflict"}) /\ UNCHANGED <<page, held, origin>>
      /\ takeover' = [up |-> TRUE, op |-> Head(actions).op, accept |-> FALSE, sent |-> FALSE]
  BY DEF OnConflict
<1>2. PICK a : /\ a = Head(actions) /\ a.answer \in {"conflict"} /\ Coming(a) /\ AnswerFits(a)
               /\ NothingComes'
  BY <1>1, AnswerTaken
<1>3. UNCHANGED applied
  BY <1>1, AnswerTaken
<1>4. takeover'.up /\ takeover'.op = a.op /\ {"up", "op"} \subseteq DOMAIN takeover'
  BY <1>1, <1>2
<1>5. page = ListPage /\ DialogFits(a.op.form) /\ OpFits(a.op)
  BY <1>2 DEF AnswerFits, ListWaits
<1>6. PageParts' /\ OriginParts' /\ TakeoverParts' /\ Quietly'
  BY <1>1, <1>4, <1>5 DEF Patient, PageParts, OriginParts, TakeoverParts, Quietly, OpFits
<1>7. ASSUME NEW form \in Forms, Holds(form) \/ AnswerHolds(a, form)
      PROVE  Holds(form)'
  <2>1. form # NoForm
    BY ScreenConstants
  <2>. QED BY <1>3, <1>4, <1>5, <1>7, <2>1 DEF Holds, AnswerHolds, DialogFits, FormPages, ListPage
<1>. QED BY <1>2, <1>6, <1>7, Settles

LEMMA OnNotConfiguredKeeps ==
  ASSUME Patient, OnNotConfigured
  PROVE  Patient' /\ FormsStay
<1>1. /\ Receive({"not configured"}) /\ UNCHANGED held /\ takeover' = NoTakeover
      /\ Restore(Head(actions).op)
  BY DEF OnNotConfigured
<1>2. PICK a : /\ a = Head(actions) /\ a.answer \in {"not configured"} /\ Coming(a) /\ AnswerFits(a)
               /\ NothingComes'
  BY <1>1, AnswerTaken
<1>3. UNCHANGED applied
  BY <1>1, AnswerTaken
<1>4. ~takeover'.up /\ TakeoverParts' /\ Quietly'
  BY <1>1 DEF NoTakeover, TakeoverParts, Quietly
<1>5. page = ListPage /\ DialogFits(a.op.form)
  BY <1>2 DEF AnswerFits, ListWaits
<1>6. PICK op : op = a.op
  OBVIOUS
<1>7. /\ PageParts' /\ OriginParts'
      /\ op.form # NoForm => page'.at \in FormPages /\ page'.form = op.form
  BY <1>1, <1>2, <1>5, <1>6, RestoresForms
<1>8. ASSUME NEW form \in Forms, Holds(form) \/ AnswerHolds(a, form)
      PROVE  Holds(form)'
  <2>1. form # NoForm
    BY ScreenConstants
  <2>2. form \in applied \/ form = op.form
    BY <1>5, <1>6, <1>8, <2>1 DEF Holds, AnswerHolds, DialogFits, FormPages, ListPage
  <2>. QED BY <1>3, <1>7, <2>1, <2>2 DEF Holds
<1>. QED BY <1>2, <1>4, <1>7, <1>8, Settles

LEMMA OnDiscoveredKeeps ==
  ASSUME Patient, OnDiscovered
  PROVE  Patient' /\ FormsStay
<1>1. /\ Receive({"discovered"}) /\ UNCHANGED <<held, takeover, origin>>
      /\ page' = PageOf(Head(actions).form)
  BY DEF OnDiscovered
<1>2. PICK a : /\ a = Head(actions) /\ a.answer \in {"discovered"} /\ Coming(a) /\ AnswerFits(a)
               /\ NothingComes'
  BY <1>1, AnswerTaken
<1>3. UNCHANGED applied
  BY <1>1, AnswerTaken
<1>4. page.at = "form" /\ page.form = a.form /\ ~takeover.up
  BY <1>2 DEF AnswerFits, PageWaits
<1>5. page'.at \in {"models", "mapping"} /\ page'.form = a.form /\ DOMAIN page' = {"at", "form"}
  BY <1>1, <1>2, PagesOfForms
<1>6. PageParts' /\ OriginParts' /\ TakeoverParts' /\ Quietly'
  BY <1>1, <1>4, <1>5 DEF Patient, PageParts, OriginParts, TakeoverParts, Quietly, FormPages
<1>7. \A form : Holds(form) \/ AnswerHolds(a, form) => Holds(form)'
  BY <1>2, <1>3, <1>4, <1>5 DEF Holds, AnswerHolds, FormPages
<1>. QED BY <1>2, <1>6, <1>7, Settles

LEMMA OnListedKeeps ==
  ASSUME Patient, OnListed
  PROVE  Patient' /\ FormsStay
<1>1. /\ Receive({"listed"}) /\ UNCHANGED <<held, takeover, origin>>
      /\ page' = IF page.at = "list" THEN [page EXCEPT !.busy = FALSE] ELSE page
  BY DEF OnListed
<1>2. PICK a : a.answer \in {"listed"} /\ Coming(a) /\ AnswerFits(a) /\ NothingComes'
  BY <1>1, AnswerTaken
<1>3. UNCHANGED applied
  BY <1>1, AnswerTaken
<1>4. page.at = "list" /\ ~takeover.up
  BY <1>2 DEF AnswerFits, PageWaits
<1>5. {"at", "form", "busy"} \subseteq DOMAIN page
  BY <1>4 DEF Patient, PageParts, FormPages
<1>6. page'.at = "list" /\ page'.form = page.form /\ DOMAIN page' = DOMAIN page
  BY <1>1, <1>4, <1>5
<1>7. PageParts' /\ OriginParts' /\ TakeoverParts' /\ Quietly'
  BY <1>1, <1>4, <1>5, <1>6 DEF Patient, PageParts, OriginParts, TakeoverParts, Quietly, FormPages
<1>8. \A form : Holds(form) \/ AnswerHolds(a, form) => Holds(form)'
  BY <1>1, <1>2, <1>3, <1>4, <1>6 DEF Holds, AnswerHolds, FormPages
<1>. QED BY <1>2, <1>7, <1>8, Settles

(* A login dialog holds no form; a new page is its own or the list.        *)
LEMMA LoginPageChanges ==
  ASSUME Patient, page.at = "login", ~takeover.up, UNCHANGED <<takeover, origin>>,
         page' = ListPage \/ (page'.at = "login" /\ DOMAIN page' = DOMAIN page)
  PROVE  PageParts' /\ OriginParts' /\ TakeoverParts' /\ Quietly'
<1>1. OriginParts' /\ TakeoverParts' /\ Quietly'
  BY DEF Patient, OriginParts, TakeoverParts, Quietly
<1>2. CASE page' = ListPage
  <2>1. PageParts'
    BY <1>2 DEF PageParts, FormPages, ListPage
  <2>. QED BY <1>1, <2>1
<1>3. CASE page'.at = "login" /\ DOMAIN page' = DOMAIN page
  <2>1. PageParts'
    BY <1>3 DEF Patient, PageParts, FormPages
  <2>. QED BY <1>1, <2>1
<1>. QED BY <1>2, <1>3

LEMMA OnLoginFailedKeeps ==
  ASSUME Patient, OnLoginFailed
  PROVE  Patient' /\ FormsStay
<1>1. /\ Receive({"login failed"}) /\ UNCHANGED <<held, takeover, origin>>
      /\ \/ page.at # "login"
         \/ page' = ListPage
         \/ page' = [page EXCEPT !.asking = FALSE, !.state = "failed"]
  BY DEF OnLoginFailed
<1>2. PICK a : a.answer \in {"login failed"} /\ Coming(a) /\ AnswerFits(a) /\ NothingComes'
  BY <1>1, AnswerTaken
<1>3. UNCHANGED applied
  BY <1>1, AnswerTaken
<1>4. page.at = "login" /\ ~takeover.up
  BY <1>2 DEF AnswerFits, PageWaits
<1>5. DOMAIN page = {"at", "id", "state", "asking", "cancelling"}
  BY <1>4 DEF Patient, PageParts
<1>6. page' = ListPage \/ (page'.at = "login" /\ DOMAIN page' = DOMAIN page)
  BY <1>1, <1>4, <1>5
<1>7. PageParts' /\ OriginParts' /\ TakeoverParts' /\ Quietly'
  BY <1>1, <1>4, <1>6, LoginPageChanges
<1>8. \A form : Holds(form) \/ AnswerHolds(a, form) => Holds(form)'
  <2>1. a.answer \in {"login", "login failed"} /\ takeover' = takeover /\ applied' = applied
    BY <1>1, <1>2, <1>3
  <2>. QED BY <1>4, <2>1 DEF Holds, AnswerHolds, FormPages
<1>. QED BY <1>2, <1>7, <1>8, Settles

LEMMA OnLoginKeeps ==
  ASSUME Patient, OnLogin
  PROVE  Patient' /\ FormsStay
<1>1. Receive({"login"}) /\ UNCHANGED <<takeover, origin>>
  BY DEF OnLogin
<1>2. PICK a : /\ a = Head(actions) /\ a.answer \in {"login"} /\ Coming(a) /\ AnswerFits(a)
               /\ (held' = held => NothingComes') /\ \A e : Perform(e) => Underway(e)'
  BY <1>1, AnswerTaken
<1>3. UNCHANGED applied
  BY <1>1, AnswerTaken
<1>4. page.at = "login" /\ ~takeover.up
  BY <1>2 DEF AnswerFits, PageWaits
<1>5. DOMAIN page = {"at", "id", "state", "asking", "cancelling"}
  BY <1>4 DEF Patient, PageParts
<1>6. PICK id, state : LoginAnswered(id, state)
  BY DEF OnLogin
<1>7. \A form : Holds(form) \/ AnswerHolds(a, form) => Holds(form)'
  <2>1. a.answer \in {"login", "login failed"} /\ takeover' = takeover /\ applied' = applied
    BY <1>1, <1>2, <1>3
  <2>. QED BY <1>4, <2>1 DEF Holds, AnswerHolds, FormPages
<1>8. CASE held' = held /\ (page' = ListPage \/ (page'.at = "login" /\ DOMAIN page' = DOMAIN page))
  <2>1. PageParts' /\ OriginParts' /\ TakeoverParts' /\ Quietly'
    BY <1>1, <1>4, <1>8, LoginPageChanges
  <2>. QED BY <1>2, <1>8, <1>7, <2>1, Settles
<1>9. CASE /\ page' = [page EXCEPT !.id = id, !.asking = TRUE]
           /\ held' = <<[do |-> "cancel", id |-> id]>>
  <2>1. PICK e : e = [do |-> "cancel", id |-> id]
    OBVIOUS
  <2>2. e.do = "cancel" /\ Underway(e)'
    BY <1>2, <1>9, <2>1 DEF Perform
  <2>3. page'.at = "login" /\ page'.asking /\ DOMAIN page' = DOMAIN page
    BY <1>4, <1>5, <1>9
  <2>4. EffectFits(e)'
    BY <1>1, <1>4, <2>2, <2>3 DEF EffectFits, LoginEffects, PageWaits
  <2>5. PageParts' /\ OriginParts' /\ TakeoverParts'
    BY <1>1, <1>4, <2>3, LoginPageChanges
  <2>. QED BY <1>2, <1>7, <2>2, <2>4, <2>5, GoesOn
<1>10. CASE page' = ListPage /\ held' = <<[do |-> "operate", op |-> RefreshOp]>>
  <2>1. PICK e : e = [do |-> "operate", op |-> RefreshOp]
    OBVIOUS
  <2>2. e.do = "operate" /\ e.op.form = NoForm /\ Underway(e)'
    BY <1>2, <1>10, <2>1 DEF Perform, RefreshOp, Op
  <2>3. EffectFits(e)'
    BY <1>1, <1>4, <1>10, <2>2 DEF EffectFits, LoginEffects, OpFits, ListWaits, DialogFits
  <2>4. PageParts' /\ OriginParts' /\ TakeoverParts'
    BY <1>1, <1>4, <1>10, LoginPageChanges
  <2>. QED BY <1>2, <1>7, <2>2, <2>3, <2>4, GoesOn
<1>11. \/ held' = held /\ (page' = ListPage \/ (page'.at = "login" /\ DOMAIN page' = DOMAIN page))
       \/ /\ page' = [page EXCEPT !.id = id, !.asking = TRUE]
          /\ held' = <<[do |-> "cancel", id |-> id]>>
       \/ page' = ListPage /\ held' = <<[do |-> "operate", op |-> RefreshOp]>>
  <2>1. CASE page.id # NoId /\ page.id # id
    BY <1>4, <1>6, <2>1 DEF LoginAnswered
  <2>2. CASE ~(page.id # NoId /\ page.id # id) /\ page.cancelling /\ state \in Going
    BY <1>4, <1>6, <2>2 DEF LoginAnswered
  <2>3. CASE ~(page.id # NoId /\ page.id # id) /\ ~(page.cancelling /\ state \in Going)
    <3>1. \A c : LoginPage(id, state, FALSE, c).at = "login"
                 /\ DOMAIN LoginPage(id, state, FALSE, c) = {"at", "id", "state", "asking", "cancelling"}
      BY DEF LoginPage
    <3>2. \/ page' = ListPage /\ held' = <<[do |-> "operate", op |-> RefreshOp]>>
          \/ page' = ListPage /\ held' = held
          \/ page' = LoginPage(id, state, FALSE, page.cancelling) /\ held' = held
      BY <1>4, <1>6, <2>3 DEF LoginAnswered
    <3>. QED BY <1>5, <3>1, <3>2
  <2>. QED BY <2>1, <2>2, <2>3
<1>. QED BY <1>8, <1>9, <1>10, <1>11

(* Who is patient after a step was patient before it.                      *)
LEMMA PatienceEnds ==
  ASSUME [ScreenNext]_screenVars, ~hurried', ~quit'
  PROVE  ~hurried /\ ~quit
<1>1. CASE Operate \/ OpenForm \/ SubmitForm \/ ListModels \/ CloseList \/ SubmitPage \/ OpenLogin
           \/ EscapeLogin \/ SubmitCode \/ ChooseTakeover \/ CancelTakeover \/ ApproveTakeover
  <2>1. Hurry
    BY <1>1 DEF Operate, OpenForm, SubmitForm, ListModels, CloseList, SubmitPage, OpenLogin,
                EscapeLogin, SubmitCode, ChooseTakeover, CancelTakeover, ApproveTakeover
  <2>2. UNCHANGED quit
    BY <1>1 DEF Operate, OpenForm, SubmitForm, ListModels, CloseList, SubmitPage, OpenLogin,
                EscapeLogin, SubmitCode, ChooseTakeover, CancelTakeover, ApproveTakeover, NoDialog
  <2>. QED BY <2>1, <2>2 DEF Hurry
<1>2. CASE Poll
  BY <1>2 DEF Poll, NoDialog
<1>3. ~LeavePage /\ ~Quit
  BY DEF LeavePage, Quit
<1>4. CASE HandOver \/ Abort \/ Deliver
  BY <1>4 DEF HandOver, Abort, Deliver
<1>5. CASE WorkOperation \/ WorkTakeover \/ WorkDiscovery \/ WorkLogin \/ StopWorking
           \/ CancelJob \/ EndWorker \/ LoginMoves \/ LoginDies
  <2>1. ScreenSide
    BY <1>5 DEF WorkOperation, WorkTakeover, WorkDiscovery, WorkLogin, StopWorking, CancelJob,
                EndWorker, LoginMoves, LoginDies
  <2>. QED BY <2>1 DEF ScreenSide
<1>6. CASE OnLoaded \/ OnNotice \/ OnFailed \/ OnConflict \/ OnNotConfigured \/ OnDiscovered
           \/ OnListed \/ OnLogin \/ OnLoginFailed
  <2>1. \E kinds : Receive(kinds)
    BY <1>6 DEF OnLoaded, OnNotice, OnFailed, OnConflict, OnNotConfigured, OnDiscovered, OnListed,
                OnLogin, OnLoginFailed
  <2>. QED BY <2>1 DEF Receive
<1>7. CASE UNCHANGED screenVars
  BY <1>7 DEF screenVars
<1>. QED BY <1>1, <1>2, <1>3, <1>4, <1>5, <1>6, <1>7 DEF ScreenNext

(* What neither the page nor a message takes part in.                      *)
LEMMA RestKeeps ==
  ASSUME Patient, UNCHANGED <<page, held, Queues, takeover, origin, applied>>
  PROVE  Patient' /\ FormsStay
<1>1. PageParts' /\ OriginParts' /\ TakeoverParts'
  BY PagesKept
<1>2. NothingComes => NothingComes'
  BY DEF NothingComes, Queues
<1>3. \A e : Underway(e) /\ EffectFits(e) => Underway(e)' /\ EffectFits(e)'
  BY DEF Underway, Queues, EffectFits, ListWaits, DialogFits, PageWaits
<1>4. \A a : AnswerFits(a) => AnswerFits(a)'
  BY DEF AnswerFits, ListWaits, DialogFits, PageWaits
<1>5. \A a : Coming(a) => Coming(a)'
  BY DEF Coming, Queues
<1>6. \A n, a : ComingTwo(n, a) => ComingTwo(n, a)'
  BY DEF ComingTwo, Queues
<1>7. Quietly => Quietly'
  BY DEF Quietly
<1>8. OneAtATime'
  BY <1>2, <1>3, <1>4, <1>5, <1>6, <1>7 DEF Patient, OneAtATime
<1>9. FormsStay
  BY DEF FormsStay, Opened, Queues
<1>. QED BY <1>1, <1>8, <1>9 DEF Patient

LEMMA PatientActs ==
  ASSUME Patient, [ScreenNext]_screenVars, ~hurried', ~quit'
  PROVE  Patient' /\ FormsStay
<1>0. ~quit
  BY PatienceEnds
<1>1. CASE Operate \/ OpenForm \/ SubmitForm \/ ListModels \/ CloseList \/ SubmitPage \/ OpenLogin
           \/ EscapeLogin \/ SubmitCode
  BY <1>1, OperateKeeps, OpenFormKeeps, SubmitFormKeeps, ListModelsKeeps, CloseListKeeps,
     SubmitPageKeeps, OpenLoginKeeps, EscapeLoginKeeps, SubmitCodeKeeps
<1>2. CASE ChooseTakeover \/ CancelTakeover \/ ApproveTakeover \/ Poll
  BY <1>2, ChooseTakeoverKeeps, CancelTakeoverKeeps, ApproveTakeoverKeeps, PollKeeps
<1>3. ~LeavePage /\ ~Quit /\ ~Abort /\ ~StopWorking
  BY <1>0 DEF LeavePage, Quit, Abort, StopWorking
<1>4. CASE HandOver \/ Deliver
  BY <1>0, <1>4, HandOverKeeps, DeliverKeeps
<1>5. CASE WorkOperation \/ WorkTakeover \/ WorkDiscovery \/ WorkLogin
  BY <1>5, WorkKeeps, WorkDiscoveryKeeps, WorkLoginKeeps
<1>6. CASE CancelJob \/ EndWorker \/ LoginMoves \/ LoginDies \/ UNCHANGED screenVars
  <2>1. UNCHANGED <<page, held, Queues, takeover, origin, applied>>
    BY <1>6 DEF CancelJob, EndWorker, LoginMoves, LoginDies, ScreenSide, screenVars, Queues
  <2>. QED BY <2>1, RestKeeps
<1>7. CASE OnLoaded \/ OnNotice \/ OnFailed \/ OnConflict \/ OnNotConfigured \/ OnDiscovered
           \/ OnListed \/ OnLogin \/ OnLoginFailed
  BY <1>7, OnLoadedKeeps, OnNoticeKeeps, OnFailedKeeps, OnConflictKeeps, OnNotConfiguredKeeps,
     OnDiscoveredKeeps, OnListedKeeps, OnLoginKeeps, OnLoginFailedKeeps
<1>. QED BY <1>1, <1>2, <1>3, <1>4, <1>5, <1>6, <1>7 DEF ScreenNext

LEMMA ScreenStep ==
  ASSUME PatientInv, [ScreenNext]_screenVars
  PROVE  PatientInv' /\ (~hurried' /\ ~quit' => FormsStay)
<1>1. ASSUME ~hurried', ~quit' PROVE Patient' /\ FormsStay
  <2>1. Patient
    BY <1>1, PatienceEnds DEF PatientInv, Patient
  <2>. QED BY <1>1, <2>1, PatientActs
<1>. QED BY <1>1 DEF PatientInv, Patient

LEMMA ScreenStart == ScreenInit => PatientInv
<1> SUFFICES ASSUME ScreenInit PROVE PatientInv
  OBVIOUS
<1>1. PICK e : e = [do |-> "operate", op |-> RefreshOp]
  OBVIOUS
<1>2. e.do = "operate" /\ e.op.form = NoForm
  BY <1>1 DEF RefreshOp, Op
<1>3. /\ Underway(e) /\ page = ListPage /\ ~takeover.up /\ origin = NoOrigin
  BY <1>1 DEF ScreenInit, Underway, NoTakeover
<1>4. EffectFits(e)
  BY <1>2, <1>3 DEF EffectFits, LoginEffects, OpFits, ListWaits, DialogFits
<1>5. OneAtATime
  BY <1>3, <1>4 DEF OneAtATime
<1>6. PageParts /\ OriginParts /\ TakeoverParts
  BY <1>3 DEF PageParts, OriginParts, TakeoverParts, ListPage, FormPages
<1>. QED BY <1>5, <1>6 DEF PatientInv

-----------------------------------------------------------------------------
(* The model variables.                                                    *)

(* Who wrote a value: what hsin may have written is what a mapping says, in *)
(* a variable whose former value is kept; the labels only while they are    *)
(* hsin's to write.                                                         *)
WrittenFor(m, n) ==
  \A k \in Keys : env[k] \in Written =>
    /\ m # Inert /\ m[k] = env[k] /\ (k \in NameKeys => n)
    /\ kept # NoSnapshot /\ k \in kept.covered
OnlyUsers(s) == s # NoSnapshot => \A k \in Keys : s.values[k] \notin Written

(* What a target says of the state it is for: it gives back what is kept,   *)
(* and a change of the labels is one of the mapping that is active.         *)
TargetFits(t) ==
  /\ t \in WriteTargets /\ OnlyUsers(t.before)
  /\ t.before = NoSnapshot => t.mapping = Inert /\ mapping = Inert
  /\ t.mapping # Inert => kept # NoSnapshot /\ kept.covered = Keys
  /\ t.update = "keep" => (t.names <=> names)
  /\ t.update = "on" => t.names
  /\ t.update = "off" => ~t.names
  /\ t.update # "keep" => t.mapping = mapping
(* The write of t was made: writing it again changes nothing, but for       *)
(* variables that are the user's again.                                     *)
Took(t) ==
  /\ WrittenFor(t.mapping, t.names) /\ inScope = HeldAfter(t)
  /\ t.mapping # Inert /\ t.update # "off" => Patched(env, t) = env

Writing == {"prepared", "begun", "written", "active", "named", "released"}
Made == {"written", "active", "named", "released"}
MapTypes ==
  /\ env \in [Keys -> EnvValues] /\ inScope \subseteq Keys
  /\ kept \in EnvSnapshots \cup {NoSnapshot} /\ OnlyUsers(kept)
  /\ mapping \in Mappings \cup {Inert} /\ names \in BOOLEAN
  /\ DOMAIN work = {"pc", "target", "seen"} /\ work.pc \in Writing \cup {"idle", "down"}
JobIsTrue ==
  /\ work.pc \in {"idle", "prepared"} => pending = NoTarget
  /\ work.pc \in {"idle", "prepared", "begun"} => WrittenFor(mapping, names)
  /\ work.pc \in Writing => TargetFits(work.target)
  /\ work.pc \in Made \cup {"begun"} => pending = work.target
  /\ work.pc \in Made => Took(work.target)
  /\ work.pc \in Made \ {"written"} => mapping = work.target.mapping
  /\ work.pc \in {"named", "released"} => (names <=> work.target.names)
DeadIsKnown ==
  work.pc = "down" =>
    \/ pending = NoTarget /\ WrittenFor(mapping, names)
    \/ TargetFits(pending) /\ (WrittenFor(mapping, names) \/ Took(pending))
MapInv == MapTypes /\ JobIsTrue /\ DeadIsKnown

LEMMA UsersAreNotWritten == \A v \in UserValues \cup {Unset} : v \notin Written /\ v \in EnvValues
<1>1. Unset \notin Written
  BY DEF Written
<1>2. \A v \in UserValues : v \notin Written
  BY MappingConstants
<1>. QED BY <1>1, <1>2 DEF EnvValues

LEMMA MappedIsWritten ==
  ASSUME NEW m \in Mappings, NEW k \in Keys
  PROVE  m[k] \in EnvValues
<1>1. m[k] \in {m[j] : j \in Keys}
  OBVIOUS
<1>2. m[k] \in UNION {{n[j] : j \in Keys} : n \in Mappings}
  BY <1>1
<1>. QED BY <1>2 DEF Written, EnvValues

LEMMA SnapshotsAreSome ==
  ASSUME NEW s \in EnvSnapshots
  PROVE  s # NoSnapshot /\ s.covered \subseteq Keys /\ s.values \in [Keys -> EnvValues]
BY MappingConstants DEF EnvSnapshots

LEMMA TargetParts ==
  ASSUME NEW t \in WriteTargets
  PROVE  /\ t # NoTarget /\ t.mapping \in Mappings \cup {Inert} /\ t.names \in BOOLEAN
         /\ t.before \in EnvSnapshots \cup {NoSnapshot} /\ t.update \in {"keep", "on", "off"}
BY MappingConstants DEF WriteTargets

(* What a write makes of each variable: it leaves it, sets it, or gives it  *)
(* back.                                                                    *)
Leaves(t, k) == k \in NameKeys /\ ~t.names /\ t.update # "off"
Sets(t, k) == t.mapping # Inert /\ (k \in NameKeys => t.names) /\ t.mapping[k] # Unset
Given(t, k) == IF t.before = NoSnapshot THEN Unset ELSE t.before.values[k]
NothingToDo(t) == t.mapping = Inert /\ t.before = NoSnapshot

LEMMA PatchedIs ==
  ASSUME NEW e, NEW t, ~NothingToDo(t), NEW p, p = Patched(e, t)
  PROVE  /\ p = [k \in Keys |-> p[k]]
         /\ \A k \in Keys :
              \/ Leaves(t, k) /\ p[k] = e[k]
              \/ ~Leaves(t, k) /\ Sets(t, k) /\ p[k] = t.mapping[k]
              \/ ~Leaves(t, k) /\ ~Sets(t, k) /\ p[k] = Given(t, k)
<1>1. p = [k \in Keys |-> CASE Leaves(t, k) -> e[k]
                            [] ~Leaves(t, k) /\ Sets(t, k) -> t.mapping[k]
                            [] OTHER -> Given(t, k)]
  BY DEF Patched, NothingToDo, Leaves, Sets, Given
<1>2. p = [k \in Keys |-> p[k]]
  BY <1>1
<1>3. ASSUME NEW k \in Keys
      PROVE  \/ Leaves(t, k) /\ p[k] = e[k]
             \/ ~Leaves(t, k) /\ Sets(t, k) /\ p[k] = t.mapping[k]
             \/ ~Leaves(t, k) /\ ~Sets(t, k) /\ p[k] = Given(t, k)
  BY <1>1
<1>. QED BY <1>2, <1>3

LEMMA PatchedTypes ==
  ASSUME NEW e \in [Keys -> EnvValues], NEW t \in WriteTargets, NEW p, p = Patched(e, t)
  PROVE  p \in [Keys -> EnvValues]
<1>1. CASE NothingToDo(t)
  BY <1>1 DEF Patched, NothingToDo
<1>2. CASE ~NothingToDo(t)
  <2>1. ASSUME NEW k \in Keys PROVE p[k] \in EnvValues
    <3>1. Given(t, k) \in EnvValues
      BY TargetParts, SnapshotsAreSome, UsersAreNotWritten DEF Given
    <3>2. Sets(t, k) => t.mapping[k] \in EnvValues
      BY TargetParts, MappedIsWritten DEF Sets
    <3>. QED BY <1>2, <3>1, <3>2, PatchedIs
  <2>. QED BY <1>2, <2>1, PatchedIs
<1>. QED BY <1>1, <1>2

LEMMA PatchedAgain ==
  ASSUME NEW e \in [Keys -> EnvValues], NEW t \in WriteTargets, NEW p, p = Patched(e, t)
  PROVE  Patched(p, t) = p
<1>1. CASE NothingToDo(t)
  BY <1>1 DEF Patched, NothingToDo
<1>2. CASE ~NothingToDo(t)
  <2>1. PICK q : q = Patched(p, t)
    OBVIOUS
  <2>2. p \in [Keys -> EnvValues]
    BY PatchedTypes
  <2>3. q \in [Keys -> EnvValues]
    BY <2>1, <2>2, PatchedTypes
  <2>4. ASSUME NEW k \in Keys PROVE q[k] = p[k]
    <3>1. \/ Leaves(t, k) /\ p[k] = e[k]
          \/ ~Leaves(t, k) /\ Sets(t, k) /\ p[k] = t.mapping[k]
          \/ ~Leaves(t, k) /\ ~Sets(t, k) /\ p[k] = Given(t, k)
      BY <1>2, PatchedIs
    <3>2. \/ Leaves(t, k) /\ q[k] = p[k]
          \/ ~Leaves(t, k) /\ Sets(t, k) /\ q[k] = t.mapping[k]
          \/ ~Leaves(t, k) /\ ~Sets(t, k) /\ q[k] = Given(t, k)
      BY <1>2, <2>1, PatchedIs
    <3>. QED BY <3>1, <3>2
  <2>. QED BY <2>1, <2>2, <2>3, <2>4
<1>. QED BY <1>1, <1>2

(* A write leaves only what its mapping says, and what is the user's.       *)
LEMMA WriteFits ==
  ASSUME MapTypes, NEW t, TargetFits(t),
         WrittenFor(mapping, names) \/ WrittenFor(t.mapping, t.names),
         NEW p, p = Patched(env, t), NEW k \in Keys, p[k] \in Written
  PROVE  t.mapping # Inert /\ t.mapping[k] = p[k] /\ (k \in NameKeys => t.names)
<1>0. t \in WriteTargets
  BY DEF TargetFits
<1>1. CASE NothingToDo(t)
  <2>1. p = env /\ mapping = Inert /\ t.mapping = Inert
    BY <1>1 DEF Patched, NothingToDo, TargetFits
  <2>. QED BY <2>1 DEF WrittenFor
<1>2. CASE Leaves(t, k) /\ ~NothingToDo(t)
  <2>1. p[k] = env[k]
    BY <1>2, PatchedIs
  <2>2. k \in NameKeys /\ ~t.names /\ ~names
    BY <1>0, <1>2, TargetParts DEF Leaves, TargetFits
  <2>. QED BY <2>1, <2>2 DEF WrittenFor
<1>3. CASE Sets(t, k) /\ ~Leaves(t, k) /\ ~NothingToDo(t)
  BY <1>3, PatchedIs DEF Sets
<1>4. CASE ~Sets(t, k) /\ ~Leaves(t, k) /\ ~NothingToDo(t)
  <2>1. p[k] = Given(t, k)
    BY <1>4, PatchedIs
  <2>2. Given(t, k) \notin Written
    BY UsersAreNotWritten DEF Given, TargetFits, OnlyUsers
  <2>. QED BY <2>1, <2>2
<1>. QED BY <1>1, <1>2, <1>3, <1>4

(* A snapshot that is taken or extended holds what is the user's.           *)
LEMMA ExtensionsAreUsers ==
  ASSUME MapTypes, WrittenFor(mapping, names), NEW refresh \in BOOLEAN, refresh => ~names,
         NEW s, s = Extended(kept, env, refresh)
  PROVE  s \in EnvSnapshots /\ s.covered = Keys /\ OnlyUsers(s)
<1> DEFINE known == IF kept = NoSnapshot THEN {} ELSE kept.covered
           fresh == (Keys \ known) \cup (IF refresh THEN NameKeys ELSE {})
<1>1. s = [covered |-> Keys, values |-> [k \in Keys |-> IF k \in fresh THEN env[k] ELSE kept.values[k]]]
  BY DEF Extended
<1>2. ASSUME NEW k \in Keys, k \in fresh PROVE env[k] \in EnvValues /\ env[k] \notin Written
  BY <1>2 DEF MapTypes, WrittenFor
<1>3. ASSUME NEW k \in Keys, k \notin fresh
      PROVE  kept.values[k] \in EnvValues /\ kept.values[k] \notin Written
  <2>1. kept # NoSnapshot
    BY <1>3
  <2>2. kept \in EnvSnapshots /\ OnlyUsers(kept)
    BY <2>1 DEF MapTypes
  <2>. QED BY <2>1, <2>2, SnapshotsAreSome DEF OnlyUsers
<1> HIDE DEF fresh
<1>4. \A k \in Keys : s.values[k] \in EnvValues /\ s.values[k] \notin Written
  BY <1>1, <1>2, <1>3
<1>5. s.covered = Keys /\ s.values \in [Keys -> EnvValues]
  BY <1>1, <1>4
<1>6. s \in EnvSnapshots
  BY <1>1, <1>5 DEF EnvSnapshots
<1>. QED BY <1>4, <1>5, <1>6 DEF OnlyUsers

LEMMA MapStart == MappingInit => MapInv
<1> SUFFICES ASSUME MappingInit PROVE MapInv
  OBVIOUS
<1>1. /\ mine \in [Keys -> UserValues \cup {Unset}] /\ names \in BOOLEAN
      /\ pending = NoTarget /\ work = Resting
  BY DEF MappingInit, OfUser
<1>2. DOMAIN work = {"pc", "target", "seen"} /\ work.pc = "idle"
  BY <1>1 DEF Resting
<1>3. \A k \in Keys : mine[k] \in EnvValues /\ mine[k] \notin Written
  BY <1>1, UsersAreNotWritten
<1>4. Unset \in EnvValues /\ Unset \notin Written
  BY UsersAreNotWritten
<1>5. CASE env = mine /\ inScope = {} /\ kept = NoSnapshot /\ mapping = Inert
  BY <1>1, <1>2, <1>3, <1>5
     DEF MapInv, MapTypes, JobIsTrue, DeadIsKnown, OnlyUsers, WrittenFor, Writing, Made
<1>6. CASE /\ mapping \in Mappings /\ inScope = LegacyKeys /\ names
           /\ env = [k \in Keys |-> IF k \in LegacyKeys THEN mapping[k] ELSE mine[k]]
           /\ kept = [covered |-> LegacyKeys,
                      values |-> [k \in Keys |-> IF k \in LegacyKeys THEN mine[k] ELSE Unset]]
  <2>1. LegacyKeys \subseteq Keys /\ mapping # Inert
    BY <1>6, MappingConstants DEF Keys
  <2>2. kept.covered = LegacyKeys /\ \A k \in Keys : kept.values[k] \in EnvValues /\ kept.values[k] \notin Written
    BY <1>3, <1>4, <1>6
  <2>3. kept \in EnvSnapshots
    BY <1>3, <1>4, <1>6, <2>1 DEF EnvSnapshots
  <2>4. env \in [Keys -> EnvValues]
    BY <1>3, <1>6, MappedIsWritten
  <2>5. MapTypes
    BY <1>1, <1>2, <1>6, <2>1, <2>2, <2>3, <2>4 DEF MapTypes, OnlyUsers
  <2>6. WrittenFor(mapping, names)
    BY <1>3, <1>6, <2>1, <2>2, <2>3, SnapshotsAreSome DEF WrittenFor
  <2>. QED BY <1>1, <1>2, <2>5, <2>6 DEF MapInv, JobIsTrue, DeadIsKnown, Writing, Made
<1>. QED BY <1>5, <1>6 DEF MappingInit

(* The steps.  Where the job rests, and what a step that leaves the file and *)
(* the snapshot alone keeps.                                                 *)
LEMMA RestIsShaped ==
  /\ DOMAIN Resting = {"pc", "target", "seen"} /\ Resting.pc = "idle"
BY DEF Resting

LEMMA StepsAreShaped ==
  ASSUME NEW pc, Step(pc), MapTypes
  PROVE  /\ DOMAIN work' = {"pc", "target", "seen"} /\ work'.pc = pc
         /\ work'.target = work.target /\ work'.seen = work.seen
BY DEF Step, MapTypes

LEMMA SameIsWritten ==
  ASSUME NEW m, NEW n, WrittenFor(m, n), UNCHANGED <<env, kept>>
  PROVE  WrittenFor(m, n)'
BY DEF WrittenFor

LEMMA SameTook ==
  ASSUME NEW t, Took(t), UNCHANGED <<env, kept, inScope>>
  PROVE  Took(t)'
<1>1. PICK e, s : e = env /\ s = kept
  OBVIOUS
<1>. QED BY DEF Took, WrittenFor

LEMMA SameFits ==
  ASSUME NEW t, TargetFits(t), UNCHANGED <<kept, names, mapping>>
  PROVE  TargetFits(t)'
BY DEF TargetFits

LEMMA SnapshotTaken ==
  ASSUME MapTypes, WrittenFor(mapping, names), NEW refresh \in BOOLEAN, refresh => ~names,
         NEW s, s = (IF kept = NoSnapshot \/ kept.covered # Keys \/ refresh
                     THEN Extended(kept, env, refresh) ELSE kept)
  PROVE  s \in EnvSnapshots /\ s.covered = Keys /\ OnlyUsers(s) /\ s # NoSnapshot
<1>1. CASE kept = NoSnapshot \/ kept.covered # Keys \/ refresh
  BY <1>1, ExtensionsAreUsers, SnapshotsAreSome
<1>2. CASE ~(kept = NoSnapshot \/ kept.covered # Keys \/ refresh)
  BY <1>2 DEF MapTypes
<1>. QED BY <1>1, <1>2

LEMMA PrepareKeeps ==
  ASSUME MapInv, work.pc = "idle", NEW m \in Mappings \cup {Inert},
         NEW update \in {"keep", "on", "off"},
         update # "keep" => m = mapping /\ mapping # Inert,
         update = "on" => ~names,
         Prepare(m, update), UNCHANGED <<env, inScope, names, mapping, pending>>
  PROVE  MapInv'
<1> DEFINE refresh == update = "on" /\ ~names
<1>1. MapTypes /\ WrittenFor(mapping, names) /\ pending = NoTarget
  BY DEF MapInv, JobIsTrue
<1>2. PICK s : s = (IF kept = NoSnapshot \/ kept.covered # Keys \/ refresh
                    THEN Extended(kept, env, refresh) ELSE kept)
  OBVIOUS
<1>3. s \in EnvSnapshots /\ s.covered = Keys /\ OnlyUsers(s) /\ s # NoSnapshot
  BY <1>1, <1>2, SnapshotTaken
<1>4. PICK b : b = (IF Transition(m) THEN s ELSE NoSnapshot)
  OBVIOUS
<1>5. PICK n : n = (IF update = "keep" THEN names ELSE update = "on")
  OBVIOUS
<1>6. PICK t : t = [mapping |-> m, before |-> b, update |-> update, names |-> n]
  OBVIOUS
<1>7. /\ kept' = (IF Transition(m) THEN s ELSE kept)
      /\ work' = [Resting EXCEPT !.pc = "prepared", !.target = t]
  BY <1>2, <1>4, <1>5, <1>6 DEF Prepare
<1>8. DOMAIN work' = {"pc", "target", "seen"} /\ work'.pc = "prepared" /\ work'.target = t
  BY <1>7, RestIsShaped
<1>9. /\ t.mapping = m /\ t.before = b /\ t.update = update /\ t.names = n
  BY <1>6
<1>10. /\ n \in BOOLEAN /\ (update = "keep" => (n <=> names))
       /\ (update = "on" => n) /\ (update = "off" => ~n)
  <2>1. names \in BOOLEAN
    BY <1>1 DEF MapTypes
  <2>2. CASE update = "keep"
    BY <1>5, <2>1, <2>2
  <2>3. CASE update = "on"
    BY <1>5, <2>3
  <2>4. CASE update = "off"
    BY <1>5, <2>4
  <2>. QED BY <2>2, <2>3, <2>4
<1>11. b \in EnvSnapshots \cup {NoSnapshot} /\ (b = NoSnapshot <=> ~Transition(m)) /\ OnlyUsers(b)
  BY <1>3, <1>4 DEF OnlyUsers
<1>12. t \in WriteTargets
  BY <1>6, <1>10, <1>11 DEF WriteTargets
<1>13. TargetFits(t)'
  <2>1. b = NoSnapshot => m = Inert /\ mapping = Inert
    BY <1>11 DEF Transition
  <2>2. m # Inert => kept' = s
    BY <1>7 DEF Transition
  <2>3. OnlyUsers(t.before)'
    BY <1>9, <1>11 DEF OnlyUsers
  <2>4. (t.update = "keep" => (t.names <=> names))'
    BY <1>9, <1>10
  <2>5. (t.update = "on" => t.names) /\ (t.update = "off" => ~t.names)
    BY <1>9, <1>10
  <2>6. t.before = NoSnapshot => t.mapping = Inert /\ mapping' = Inert
    BY <1>9, <2>1
  <2>7. t.mapping # Inert => kept' # NoSnapshot /\ kept'.covered = Keys
    BY <1>3, <1>9, <2>2
  <2>8. t.update # "keep" => t.mapping = mapping'
    BY <1>9
  <2>. QED BY <1>12, <2>3, <2>4, <2>5, <2>6, <2>7, <2>8 DEF TargetFits
<1>14. WrittenFor(mapping, names)'
  <2>1. CASE Transition(m)
    BY <1>1, <1>3, <1>7, <2>1 DEF WrittenFor
  <2>2. CASE ~Transition(m)
    BY <1>1, <1>7, <2>2 DEF WrittenFor
  <2>. QED BY <2>1, <2>2
<1>15. MapTypes'
  BY <1>1, <1>3, <1>7, <1>8 DEF MapTypes, OnlyUsers, Writing
<1>16. JobIsTrue'
  BY <1>1, <1>8, <1>13, <1>14 DEF JobIsTrue, Made
<1>. QED BY <1>8, <1>15, <1>16 DEF MapInv, DeadIsKnown

LEMMA SwitchMappingKeeps ==
  ASSUME MapInv, NEW m \in Mappings \cup {Inert}, SwitchMapping(m)
  PROVE  MapInv'
<1>1. Prepare(m, "keep") /\ work.pc = "idle" /\ UNCHANGED <<env, inScope, names, mapping, pending>>
  BY DEF SwitchMapping, Idle
<1>2. PICK update : update = "keep"
  OBVIOUS
<1>3. Prepare(m, update)
  BY <1>1, <1>2
<1>. QED BY <1>1, <1>2, <1>3, PrepareKeeps

LEMMA SwitchNamesKeeps ==
  ASSUME MapInv, SwitchNames
  PROVE  MapInv'
<1>1. work.pc = "idle" /\ UNCHANGED <<env, inScope, mapping, pending>> /\ MapTypes
  BY DEF SwitchNames, Idle, MapInv
<1>2. CASE mapping = Inert
  <2>1. names' = ~names /\ UNCHANGED <<kept, work>>
    BY <1>2 DEF SwitchNames
  <2>2. WrittenFor(mapping, names) /\ pending = NoTarget
    BY <1>1 DEF MapInv, JobIsTrue
  <2>3. WrittenFor(mapping, names)'
    BY <1>1, <1>2, <2>1, <2>2 DEF WrittenFor
  <2>4. MapTypes'
    BY <1>1, <2>1 DEF MapTypes, OnlyUsers
  <2>. QED BY <1>1, <2>1, <2>2, <2>3, <2>4 DEF MapInv, JobIsTrue, DeadIsKnown, Writing, Made
<1>3. CASE mapping # Inert
  <2>1. PICK update : update = (IF names THEN "off" ELSE "on")
    OBVIOUS
  <2>2. Prepare(mapping, update) /\ UNCHANGED names
    BY <1>3, <2>1 DEF SwitchNames
  <2>3. PICK m : m = mapping
    OBVIOUS
  <2>4. Prepare(m, update)
    BY <2>2, <2>3
  <2>5. m \in Mappings \cup {Inert}
    BY <1>1, <2>3 DEF MapTypes
  <2>6. update \in {"on", "off"} /\ (update = "on" => ~names)
    BY <2>1
  <2>. QED BY <1>1, <1>3, <2>2, <2>3, <2>4, <2>5, <2>6, PrepareKeeps
<1>. QED BY <1>2, <1>3

LEMMA BeginWriteKeeps ==
  ASSUME MapInv, BeginWrite
  PROVE  MapInv'
<1>1. /\ work.pc = "prepared" /\ work' = [work EXCEPT !.pc = "begun", !.seen = env]
      /\ pending' = work.target /\ UNCHANGED <<env, inScope, kept, names, mapping>>
      /\ MapTypes
  BY DEF BeginWrite, MapInv
<1>2. /\ DOMAIN work' = {"pc", "target", "seen"} /\ work'.pc = "begun" /\ work'.target = work.target
  BY <1>1 DEF MapTypes
<1>3. PICK t : t = work.target
  OBVIOUS
<1>4. WrittenFor(mapping, names) /\ TargetFits(t)
  BY <1>1, <1>3 DEF MapInv, JobIsTrue, Writing
<1>5. TargetFits(t)'
  BY <1>1, <1>4, SameFits
<1>6. WrittenFor(mapping, names)'
  BY <1>1, <1>4 DEF WrittenFor
<1>7. MapTypes'
  BY <1>1, <1>2 DEF MapTypes, OnlyUsers, Writing
<1>. QED BY <1>1, <1>2, <1>3, <1>5, <1>6, <1>7 DEF MapInv, JobIsTrue, DeadIsKnown, Made

(* The job ends with the file as the setting and the active mapping say. *)
LEMMA RestKeepsMapping ==
  ASSUME MapTypes', work' = Resting, pending' = NoTarget, WrittenFor(mapping, names)'
  PROVE  MapInv'
<1>1. work'.pc = "idle"
  BY RestIsShaped
<1>. QED BY <1>1 DEF MapInv, JobIsTrue, DeadIsKnown, Writing, Made

LEMMA RefusalKeeps ==
  ASSUME MapInv, RefuseWrite \/ WriteRefused
  PROVE  MapInv'
<1>1. /\ work.pc \in {"prepared", "begun"} /\ work' = Resting
      /\ UNCHANGED <<env, inScope, kept, names, mapping>>
  BY DEF RefuseWrite, WriteRefused
<1>2. pending' = NoTarget
  BY DEF RefuseWrite, WriteRefused, MapInv, JobIsTrue
<1>3. WrittenFor(mapping, names)'
  BY <1>1 DEF MapInv, JobIsTrue, WrittenFor
<1>4. MapTypes'
  BY <1>1, RestIsShaped DEF MapInv, MapTypes, OnlyUsers
<1>. QED BY <1>1, <1>2, <1>3, <1>4, RestKeepsMapping

LEMMA WriteVariablesKeeps ==
  ASSUME MapInv, WriteVariables
  PROVE  MapInv'
<1>1. PICK t : t = work.target
  OBVIOUS
<1>2. /\ work.pc = "begun" /\ env' = Patched(env, t) /\ inScope' = HeldAfter(t)
      /\ Step("written") /\ UNCHANGED <<kept, names, mapping, pending>> /\ MapTypes
  BY <1>1 DEF WriteVariables, MapInv
<1>3. TargetFits(t) /\ WrittenFor(mapping, names) /\ pending = t
  BY <1>1, <1>2 DEF MapInv, JobIsTrue, Writing
<1>4. /\ DOMAIN work' = {"pc", "target", "seen"} /\ work'.pc = "written" /\ work'.target = t
  BY <1>1, <1>2, StepsAreShaped
<1>5. PICK p : p = Patched(env, t)
  OBVIOUS
<1>6. p \in [Keys -> EnvValues] /\ Patched(p, t) = p
  BY <1>2, <1>3, <1>5, PatchedTypes, PatchedAgain DEF MapTypes, TargetFits
<1>7. \A k \in Keys : p[k] \in Written =>
        t.mapping # Inert /\ t.mapping[k] = p[k] /\ (k \in NameKeys => t.names)
  BY <1>2, <1>3, <1>5, WriteFits
<1>8. WrittenFor(t.mapping, t.names)'
  BY <1>2, <1>3, <1>5, <1>7 DEF WrittenFor, TargetFits
<1>9. (Patched(env, t) = env)'
  BY <1>2, <1>5, <1>6
<1>10. Took(t)'
  BY <1>2, <1>8, <1>9 DEF Took
<1>11. TargetFits(t)'
  BY <1>2, <1>3, SameFits
<1>12. MapTypes'
  BY <1>2, <1>4, <1>5, <1>6 DEF MapTypes, OnlyUsers, HeldAfter, Writing
<1>. QED BY <1>2, <1>3, <1>4, <1>10, <1>11, <1>12 DEF MapInv, JobIsTrue, DeadIsKnown, Made

(* The steps after the write. *)
LEMMA ActivateMappingKeeps ==
  ASSUME MapInv, ActivateMapping
  PROVE  MapInv'
<1>1. PICK t : t = work.target
  OBVIOUS
<1>2. /\ work.pc = "written" /\ mapping' = t.mapping
      /\ Step("active") /\ UNCHANGED <<env, inScope, kept, names, pending>> /\ MapTypes
  BY <1>1 DEF ActivateMapping, MapInv
<1>3. TargetFits(t) /\ Took(t) /\ pending = t
  BY <1>1, <1>2 DEF MapInv, JobIsTrue, Writing, Made
<1>4. /\ DOMAIN work' = {"pc", "target", "seen"} /\ work'.pc = "active" /\ work'.target = t
  BY <1>1, <1>2, StepsAreShaped
<1>5. Took(t)'
  BY <1>2, <1>3, SameTook
<1>6. TargetFits(t)'
  BY <1>2, <1>3 DEF TargetFits
<1>7. MapTypes'
  BY <1>2, <1>3, <1>4, TargetParts DEF MapTypes, OnlyUsers, Writing, TargetFits
<1>. QED BY <1>2, <1>3, <1>4, <1>5, <1>6, <1>7 DEF MapInv, JobIsTrue, DeadIsKnown, Made

LEMMA KeepNamesKeeps ==
  ASSUME MapInv, KeepNames
  PROVE  MapInv'
<1>1. PICK t : t = work.target
  OBVIOUS
<1>2. /\ work.pc = "active" /\ names' = t.names
      /\ Step("named") /\ UNCHANGED <<env, inScope, kept, mapping, pending>> /\ MapTypes
  BY <1>1 DEF KeepNames, MapInv
<1>3. TargetFits(t) /\ Took(t) /\ pending = t /\ mapping = t.mapping
  BY <1>1, <1>2 DEF MapInv, JobIsTrue, Writing, Made
<1>4. /\ DOMAIN work' = {"pc", "target", "seen"} /\ work'.pc = "named" /\ work'.target = t
  BY <1>1, <1>2, StepsAreShaped
<1>5. Took(t)'
  BY <1>2, <1>3, SameTook
<1>6. t.names \in BOOLEAN
  BY <1>3, TargetParts DEF TargetFits
<1>7. TargetFits(t)'
  BY <1>2, <1>3 DEF TargetFits
<1>8. MapTypes'
  BY <1>2, <1>4, <1>6 DEF MapTypes, OnlyUsers, Writing
<1>. QED BY <1>2, <1>3, <1>4, <1>5, <1>7, <1>8 DEF MapInv, JobIsTrue, DeadIsKnown, Made

LEMMA ReleaseSnapshotKeeps ==
  ASSUME MapInv, ReleaseSnapshot
  PROVE  MapInv'
<1>1. PICK t : t = work.target
  OBVIOUS
<1>2. /\ work.pc = "named" /\ kept' = Released(t)
      /\ Step("released") /\ UNCHANGED <<env, inScope, names, mapping, pending>> /\ MapTypes
  BY <1>1 DEF ReleaseSnapshot, MapInv
<1>3. TargetFits(t) /\ Took(t) /\ pending = t /\ mapping = t.mapping /\ (names <=> t.names)
  BY <1>1, <1>2 DEF MapInv, JobIsTrue, Writing, Made
<1>4. /\ DOMAIN work' = {"pc", "target", "seen"} /\ work'.pc = "released" /\ work'.target = t
  BY <1>1, <1>2, StepsAreShaped
<1>5. t.mapping # Inert => kept' = kept
  BY <1>2 DEF Released
<1>6. WrittenFor(t.mapping, t.names)'
  BY <1>2, <1>3, <1>5 DEF Took, WrittenFor
<1>7. Took(t)'
  BY <1>2, <1>3, <1>6 DEF Took
<1>8. TargetFits(t)'
  BY <1>2, <1>3, <1>5 DEF TargetFits
<1>9. MapTypes'
  BY <1>2, <1>4 DEF MapTypes, OnlyUsers, Writing, Released
<1>. QED BY <1>2, <1>3, <1>4, <1>7, <1>8, <1>9 DEF MapInv, JobIsTrue, DeadIsKnown, Made

LEMMA FinishWriteKeeps ==
  ASSUME MapInv, FinishWrite
  PROVE  MapInv'
<1>1. PICK t : t = work.target
  OBVIOUS
<1>2. /\ work.pc = "released" /\ pending' = NoTarget /\ work' = Resting
      /\ UNCHANGED <<env, inScope, kept, names, mapping>> /\ MapTypes
  BY DEF FinishWrite, MapInv
<1>3. Took(t) /\ mapping = t.mapping /\ (names <=> t.names)
  BY <1>1, <1>2 DEF MapInv, JobIsTrue, Made
<1>4. WrittenFor(mapping, names)'
  BY <1>2, <1>3 DEF Took, WrittenFor
<1>5. MapTypes'
  BY <1>2, RestIsShaped DEF MapTypes, OnlyUsers
<1>. QED BY <1>2, <1>4, <1>5, RestKeepsMapping

LEMMA CrashKeeps ==
  ASSUME MapInv, work.pc \notin {"idle", "down"},
         work' = [Resting EXCEPT !.pc = "down", !.seen = work.seen],
         UNCHANGED <<env, inScope, kept, names, mapping, pending>>
  PROVE  MapInv'
<1>1. DOMAIN work' = {"pc", "target", "seen"} /\ work'.pc = "down"
  BY RestIsShaped
<1>2. PICK t : t = pending
  OBVIOUS
<1>3. ASSUME work.pc = "prepared"
      PROVE  (pending = NoTarget /\ WrittenFor(mapping, names))'
  <2>1. pending = NoTarget /\ WrittenFor(mapping, names)
    BY <1>3 DEF MapInv, JobIsTrue
  <2>2. (pending = NoTarget /\ WrittenFor(mapping, names))'
    BY <2>1 DEF WrittenFor
  <2>. QED BY <2>2
<1>4. ASSUME work.pc = "begun"
      PROVE  (TargetFits(pending) /\ WrittenFor(mapping, names))'
  <2>1. TargetFits(t) /\ WrittenFor(mapping, names)
    BY <1>2, <1>4 DEF MapInv, JobIsTrue, Writing
  <2>2. TargetFits(t)'
    BY <2>1, SameFits
  <2>3. WrittenFor(mapping, names)'
    BY <2>1 DEF WrittenFor
  <2>4. TargetFits(pending)'
    BY <1>2, <2>2
  <2>. QED BY <2>3, <2>4
<1>5. ASSUME work.pc \in Made
      PROVE  (TargetFits(pending) /\ Took(pending))'
  <2>1. TargetFits(t) /\ Took(t)
    BY <1>2, <1>5 DEF MapInv, JobIsTrue, Writing, Made
  <2>2. TargetFits(t)' /\ Took(t)'
    BY <2>1, SameFits, SameTook
  <2>3. (TargetFits(pending) /\ Took(pending))'
    BY <1>2, <2>2
  <2>. QED BY <2>3
<1>6. DeadIsKnown'
  <2>1. work.pc \in {"prepared", "begun"} \cup Made
    BY DEF MapInv, MapTypes, Writing, Made
  <2>2. \/ (pending = NoTarget /\ WrittenFor(mapping, names))'
        \/ (TargetFits(pending) /\ WrittenFor(mapping, names))'
        \/ (TargetFits(pending) /\ Took(pending))'
    BY <1>3, <1>4, <1>5, <2>1
  <2>. QED BY <2>2 DEF DeadIsKnown
<1>7. MapTypes'
  BY <1>1 DEF MapInv, MapTypes, OnlyUsers
<1>8. JobIsTrue'
  BY <1>1 DEF JobIsTrue, Writing, Made
<1>. QED BY <1>6, <1>7, <1>8 DEF MapInv

LEMMA RecoverWriteKeeps ==
  ASSUME MapInv, RecoverWrite
  PROVE  MapInv'
<1>1. PICK t : t = pending
  OBVIOUS
<1>2. work.pc = "down" /\ work' = Resting /\ pending' = NoTarget /\ MapTypes
  BY DEF RecoverWrite, MapInv
<1>3. \/ t = NoTarget /\ WrittenFor(mapping, names)
      \/ TargetFits(t) /\ (WrittenFor(mapping, names) \/ Took(t))
  BY <1>1, <1>2 DEF MapInv, DeadIsKnown
<1>4. CASE t = NoTarget \/ (env # work.seen /\ Patched(env, t) # env)
  <2>1. UNCHANGED <<env, inScope, kept, names, mapping>>
    BY <1>1, <1>4 DEF RecoverWrite
  <2>2. WrittenFor(mapping, names)
    <3>1. CASE WrittenFor(mapping, names)
      BY <3>1
    <3>2. CASE TargetFits(t) /\ Took(t)
      <4>1. Patched(env, t) # env
        BY <1>4, <3>2, TargetParts DEF TargetFits
      <4>2. CASE t.mapping = Inert
        BY <3>2, <4>2 DEF Took, WrittenFor
      <4>3. CASE t.mapping # Inert /\ t.update = "off"
        BY <3>2, <4>3 DEF Took, WrittenFor, TargetFits
      <4>. QED BY <3>2, <4>1, <4>2, <4>3 DEF Took
    <3>. QED BY <1>3, <3>1, <3>2
  <2>3. WrittenFor(mapping, names)'
    BY <2>1, <2>2 DEF WrittenFor
  <2>4. MapTypes'
    BY <1>2, <2>1, RestIsShaped DEF MapTypes, OnlyUsers
  <2>. QED BY <1>2, <2>3, <2>4, RestKeepsMapping
<1>5. CASE ~(t = NoTarget \/ (env # work.seen /\ Patched(env, t) # env))
  <2>1. /\ env' = Patched(env, t) /\ inScope' = HeldAfter(t) /\ mapping' = t.mapping
        /\ names' = (IF t.update = "keep" THEN names ELSE t.names) /\ kept' = Released(t)
    BY <1>1, <1>5 DEF RecoverWrite
  <2>2. TargetFits(t) /\ (WrittenFor(mapping, names) \/ WrittenFor(t.mapping, t.names))
    BY <1>3, <1>5 DEF Took
  <2>3. t \in WriteTargets /\ t.mapping \in Mappings \cup {Inert} /\ t.names \in BOOLEAN
    BY <2>2, TargetParts DEF TargetFits
  <2>4. names' \in BOOLEAN /\ (names' <=> t.names)
    <3>1. CASE t.update = "keep"
      BY <1>2, <2>1, <2>2, <3>1 DEF TargetFits, MapTypes
    <3>2. CASE t.update # "keep"
      BY <2>1, <2>3, <3>2
    <3>. QED BY <3>1, <3>2
  <2>5. PICK p : p = Patched(env, t)
    OBVIOUS
  <2>6. p \in [Keys -> EnvValues]
    BY <1>2, <2>3, <2>5, PatchedTypes DEF MapTypes
  <2>7. \A k \in Keys : p[k] \in Written =>
          t.mapping # Inert /\ t.mapping[k] = p[k] /\ (k \in NameKeys => t.names)
    BY <1>2, <2>2, <2>5, WriteFits
  <2>8. t.mapping # Inert => kept' # NoSnapshot /\ kept'.covered = Keys
    BY <2>1, <2>2 DEF Released, TargetFits
  <2>9. WrittenFor(mapping, names)'
    BY <2>1, <2>4, <2>5, <2>7, <2>8 DEF WrittenFor
  <2>10. kept' \in EnvSnapshots \cup {NoSnapshot} /\ OnlyUsers(kept)'
    BY <1>2, <2>1 DEF MapTypes, OnlyUsers, Released
  <2>11. MapTypes'
    BY <1>2, <2>1, <2>3, <2>4, <2>5, <2>6, <2>10, RestIsShaped DEF MapTypes, HeldAfter
  <2>. QED BY <1>2, <2>9, <2>11, RestKeepsMapping
<1>. QED BY <1>4, <1>5

(* The user sets a variable: what is written is what was, without it. *)
LEMMA EditIsWritten ==
  ASSUME NEW m, NEW n, WrittenFor(m, n), MapTypes, NEW k \in Keys,
         NEW v \in UserValues \cup {Unset}, env' = [env EXCEPT ![k] = v], UNCHANGED kept
  PROVE  WrittenFor(m, n)'
<1>1. v \notin Written
  BY UsersAreNotWritten
<1>2. \A j \in Keys : env'[j] \in Written => env'[j] = env[j]
  BY <1>1 DEF MapTypes
<1>. QED BY <1>2 DEF WrittenFor

LEMMA EditTook ==
  ASSUME NEW t \in WriteTargets, Took(t), MapTypes, NEW k \in Keys \ inScope,
         NEW v \in UserValues \cup {Unset}, env' = [env EXCEPT ![k] = v], UNCHANGED <<kept, inScope>>
  PROVE  Took(t)'
<1>1. WrittenFor(t.mapping, t.names)'
  BY EditIsWritten DEF Took
<1>2. ASSUME t.mapping # Inert, t.update # "off" PROVE Patched(env', t) = env'
  <2>1. PICK e, d, p, q : e = env /\ d = env' /\ p = Patched(e, t) /\ q = Patched(d, t)
    OBVIOUS
  <2>2. e = p /\ e \in [Keys -> EnvValues] /\ inScope = HeldAfter(t)
    BY <1>2, <2>1 DEF Took, MapTypes
  <2>3. ~NothingToDo(t) /\ p = Patched(e, t) /\ q = Patched(d, t)
    BY <1>2, <2>1 DEF NothingToDo
  <2>4. d = [e EXCEPT ![k] = v] /\ v \in EnvValues
    BY <2>1, UsersAreNotWritten
  <2>5. Leaves(t, k)
    BY <1>2, <2>2 DEF HeldAfter, Leaves
  <2>6. ASSUME NEW j \in Keys PROVE q[j] = d[j]
    <3>1. \/ Leaves(t, j) /\ q[j] = d[j]
          \/ ~Leaves(t, j) /\ Sets(t, j) /\ q[j] = t.mapping[j]
          \/ ~Leaves(t, j) /\ ~Sets(t, j) /\ q[j] = Given(t, j)
      BY <2>3, PatchedIs
    <3>2. \/ Leaves(t, j) /\ p[j] = e[j]
          \/ ~Leaves(t, j) /\ Sets(t, j) /\ p[j] = t.mapping[j]
          \/ ~Leaves(t, j) /\ ~Sets(t, j) /\ p[j] = Given(t, j)
      BY <2>3, PatchedIs
    <3>3. j # k => d[j] = e[j]
      BY <2>2, <2>4
    <3>. QED BY <2>2, <2>5, <3>1, <3>2, <3>3
  <2>7. d \in [Keys -> EnvValues]
    BY <2>2, <2>4
  <2>8. q \in [Keys -> EnvValues]
    BY <2>1, <2>7, PatchedTypes
  <2>9. q = d
    BY <2>6, <2>7, <2>8
  <2>. QED BY <2>1, <2>9
<1>. QED BY <1>1, <1>2 DEF Took

LEMMA UserSetsKeeps ==
  ASSUME MapInv, UserSets
  PROVE  MapInv'
<1>1. PICK k \in Keys \ inScope, v \in UserValues \cup {Unset} : env' = [env EXCEPT ![k] = v]
  BY DEF UserSets
<1>2. UNCHANGED <<inScope, kept, names, mapping, pending, work>> /\ MapTypes
  BY DEF UserSets, MapInv
<1>3. PICK m, n, t, g : m = mapping /\ n = names /\ t = work.target /\ g = pending
  OBVIOUS
<1>4. MapTypes'
  BY <1>1, <1>2, UsersAreNotWritten DEF MapTypes, OnlyUsers
<1>5. WrittenFor(m, n) => WrittenFor(m, n)'
  BY <1>1, <1>2, EditIsWritten
<1>6. WrittenFor(mapping, names) => WrittenFor(mapping, names)'
  BY <1>2, <1>3, <1>5 DEF WrittenFor
<1>7. TargetFits(t) => TargetFits(t)'
  BY <1>2, SameFits
<1>8. TargetFits(g) => TargetFits(g)'
  BY <1>2, SameFits
<1>9. TargetFits(t) /\ Took(t) => Took(t)'
  BY <1>1, <1>2, EditTook DEF TargetFits
<1>10. TargetFits(g) /\ Took(g) => Took(g)'
  BY <1>1, <1>2, EditTook DEF TargetFits
<1>11. JobIsTrue'
  <2>1. work.pc \in Writing => TargetFits(t)
    BY <1>3 DEF MapInv, JobIsTrue
  <2>2. work.pc \in Made => Took(t)
    BY <1>3 DEF MapInv, JobIsTrue
  <2>3. (work.pc \in Writing => TargetFits(work.target))'
    BY <1>2, <1>3, <1>7, <2>1
  <2>4. (work.pc \in Made => Took(work.target))'
    BY <1>2, <1>3, <1>9, <2>1, <2>2 DEF Made, Writing
  <2>. QED BY <1>2, <1>6, <2>3, <2>4 DEF MapInv, JobIsTrue
<1>12. DeadIsKnown'
  <2>1. (TargetFits(pending) => TargetFits(pending)') /\ (TargetFits(pending) /\ Took(pending) => Took(pending)')
    BY <1>2, <1>3, <1>8, <1>10
  <2>. QED BY <1>2, <1>6, <2>1 DEF MapInv, DeadIsKnown
<1>. QED BY <1>4, <1>11, <1>12 DEF MapInv

LEMMA MapStep ==
  ASSUME MapInv, [MappingNext]_mapVars
  PROVE  MapInv'
<1>1. ASSUME NEW m \in Mappings \cup {Inert}, SwitchMapping(m) PROVE MapInv'
  BY <1>1, SwitchMappingKeeps
<1>2. CASE Crash
  BY <1>2, CrashKeeps DEF Crash
<1>3. CASE UNCHANGED mapVars
  <2>1. UNCHANGED <<env, inScope, kept, names, mapping, pending, work>>
    BY <1>3 DEF mapVars
  <2>2. PICK t, g : t = work.target /\ g = pending
    OBVIOUS
  <2>3. MapTypes' /\ (WrittenFor(mapping, names) => WrittenFor(mapping, names)')
    BY <2>1 DEF MapInv, MapTypes, OnlyUsers, WrittenFor
  <2>4. (TargetFits(t) => TargetFits(t)') /\ (TargetFits(g) => TargetFits(g)')
    BY <2>1, SameFits
  <2>5. (Took(t) => Took(t)') /\ (Took(g) => Took(g)')
    BY <2>1, SameTook
  <2>6. /\ TargetFits(work.target) => TargetFits(work.target)'
        /\ Took(work.target) => Took(work.target)'
        /\ TargetFits(pending) => TargetFits(pending)'
        /\ Took(pending) => Took(pending)'
    BY <2>1, <2>2, <2>4, <2>5
  <2>7. JobIsTrue'
    BY <2>1, <2>3, <2>6 DEF MapInv, JobIsTrue
  <2>8. DeadIsKnown'
    BY <2>1, <2>3, <2>6 DEF MapInv, DeadIsKnown
  <2>. QED BY <2>3, <2>7, <2>8 DEF MapInv
<1>4. CASE \/ SwitchNames \/ BeginWrite \/ RefuseWrite \/ WriteVariables \/ WriteRefused
           \/ ActivateMapping \/ KeepNames \/ ReleaseSnapshot \/ FinishWrite
           \/ RecoverWrite \/ UserSets
  BY <1>4, SwitchNamesKeeps, BeginWriteKeeps, RefusalKeeps, WriteVariablesKeeps,
     ActivateMappingKeeps, KeepNamesKeeps, ReleaseSnapshotKeeps, FinishWriteKeeps,
     RecoverWriteKeeps, UserSetsKeeps
<1>. QED BY <1>1, <1>2, <1>3, <1>4 DEF MappingNext

-----------------------------------------------------------------------------
(* The service.                                                            *)

(* Where a command is; one that asks for the lock is where it goes on.     *)
Asks == {"ask", "unlock"}
UsePlaces == {"connect", "bootstrap", "running?", "ready?"}
InstallPlaces == {"copy", "define", "start", "started"}
UninstallPlaces == {"undefine", "delete"}
WorkPlaces == {"stop", "stopped"} \cup UsePlaces \cup InstallPlaces \cup UninstallPlaces
CallPlaces == {"idle", "done", "failed"} \cup Asks \cup WorkPlaces
CallOps == {"use", "install", "stop", "uninstall", "import"}
CallRecords == [pc : CallPlaces, op : CallOps, after : WorkPlaces \cup {"idle"}, polls : Nat,
                alone : BOOLEAN, told : {0, 1}]
ProcessRecords ==
  [state : {"none", "failed", "forked", "starting", "ready"}, release : Nat, key : Nat]
Where(call) == IF call.pc \in Asks THEN call.after ELSE call.pc

ServiceTypes ==
  /\ bin \in Nat /\ definition \in Nat
  /\ process \in ProcessRecords
  /\ calls \in [Callers -> CallRecords]

(* What a command does is what it was asked for. *)
PlacesFit(call) ==
  /\ call.pc \in Asks => call.after # "idle"
  /\ Where(call) \in UsePlaces => call.op = "use"
  /\ Where(call) \in InstallPlaces => call.op \in {"use", "install", "import"}
  /\ Where(call) \in UninstallPlaces => call.op = "uninstall"
(* The binary is there before the definition, and goes after it. *)
FilesFit(w) == /\ w = "define" => bin # Missing
               /\ w = "delete" => definition = Missing
(* What a command that is alone has done so far. *)
WorkFits(c, w) ==
  /\ w \in {"stopped", "undefine", "delete", "copy", "define"} => process.state = "none"
  /\ w \in {"define", "start", "started"} => bin = Release[c]
  /\ w \in {"start", "started"} => definition # Missing
AloneFits(c) ==
  Under(c) /\ calls[c].alone =>
    (\A x \in Callers \ {c} : ~Under(x)) /\ WorkFits(c, Where(calls[c]))
UninstallsAlone ==
  \A c \in Callers, x \in Callers : c # x /\ Under(c) /\ Under(x) => calls[c].op # "uninstall"
LockIsADaemons == DaemonHolds => process.state \in {"starting", "ready"}
ServiceInv ==
  /\ ServiceTypes /\ UninstallsAlone /\ LockIsADaemons /\ DefinitionIsRunnable
  /\ \A c \in Callers : PlacesFit(calls[c]) /\ FilesFit(Where(calls[c])) /\ AloneFits(c)

LEMMA ReleasesAre == \A c \in Callers : Release[c] \in Nat /\ Release[c] # Missing
BY ServiceConstants DEF Missing

LEMMA ServiceStarts == ServiceInit => ServiceInv
<1> SUFFICES ASSUME ServiceInit PROVE ServiceInv
  OBVIOUS
<1>1. NewCall \in CallRecords /\ NewCall.pc = "idle"
  BY DEF NewCall, CallRecords, CallPlaces, CallOps
<1>2. \A c \in Callers : calls[c] = NewCall
  BY DEF ServiceInit
<1>3. ServiceTypes
  BY <1>1 DEF ServiceInit, ServiceTypes, ProcessRecords, NoProcess, Missing
<1>4. \A c \in Callers : ~Under(c) /\ Where(calls[c]) = "idle"
  BY <1>1, <1>2 DEF Under, Where, Asks
<1>5. LockIsADaemons /\ DefinitionIsRunnable
  BY ServiceConstants DEF ServiceInit, LockIsADaemons, DaemonHolds, DefinitionIsRunnable
<1>6. \A c \in Callers : PlacesFit(calls[c])
  BY <1>1, <1>2, <1>4 DEF PlacesFit, Asks, UsePlaces, InstallPlaces, UninstallPlaces
<1>. QED BY <1>3, <1>4, <1>5, <1>6 DEF ServiceInv, UninstallsAlone, FilesFit, AloneFits

(* A step of a command: the others go on where they are, and are alone no   *)
(* longer.                                                                  *)
LEMMA NowIs ==
  ASSUME ServiceTypes, NEW c \in Callers, NEW call \in CallRecords, Now(c, call)
  PROVE  /\ calls' \in [Callers -> CallRecords] /\ calls'[c] = call
         /\ \A x \in Callers \ {c} :
              /\ calls'[x].pc = calls[x].pc /\ calls'[x].op = calls[x].op
              /\ Where(calls[x])' = Where(calls[x]) /\ (PlacesFit(calls[x]) => PlacesFit(calls[x])')
              /\ Under(x)' = Under(x) /\ (Under(x) => ~calls'[x].alone)
<1>1. calls \in [Callers -> CallRecords]
  BY DEF ServiceTypes
<1>2. calls' = [x \in Callers |-> IF x = c THEN call
                  ELSE IF Under(x) THEN [calls[x] EXCEPT !.alone = FALSE] ELSE calls[x]]
  BY DEF Now
<1>3. ASSUME NEW x \in Callers \ {c}
      PROVE  /\ calls'[x] \in CallRecords /\ calls'[x].pc = calls[x].pc /\ calls'[x].op = calls[x].op
             /\ calls'[x].after = calls[x].after /\ (Under(x) => ~calls'[x].alone)
  <2>1. calls[x] \in CallRecords
    BY <1>1
  <2>2. [calls[x] EXCEPT !.alone = FALSE] \in CallRecords
    BY <2>1 DEF CallRecords
  <2>3. CASE Under(x)
    BY <1>2, <2>1, <2>2, <2>3 DEF CallRecords
  <2>4. CASE ~Under(x)
    BY <1>2, <2>1, <2>4
  <2>. QED BY <2>3, <2>4
<1>4. calls'[c] = call
  BY <1>2
<1>5. calls' \in [Callers -> CallRecords]
  BY <1>2, <1>3, <1>4
<1>6. ASSUME NEW x \in Callers \ {c}
      PROVE  /\ Where(calls[x])' = Where(calls[x]) /\ (PlacesFit(calls[x]) => PlacesFit(calls[x])')
             /\ Under(x)' = Under(x)
  <2>1. Where(calls[x])' = Where(calls[x])
    BY <1>3 DEF Where
  <2>2. PlacesFit(calls[x]) => PlacesFit(calls[x])'
    BY <1>3, <2>1 DEF PlacesFit
  <2>3. Under(x)' = Under(x)
    BY <1>3 DEF Under
  <2>. QED BY <2>1, <2>2, <2>3
<1>. QED BY <1>3, <1>4, <1>5, <1>6

LEMMA PlacesUnder ==
  ASSUME NEW c \in Callers, calls[c] \in CallRecords, PlacesFit(calls[c])
  PROVE  Where(calls[c]) \in WorkPlaces <=> Under(c)
BY DEF PlacesFit, Where, Under, CallRecords, CallPlaces, Asks, WorkPlaces, UsePlaces, InstallPlaces,
       UninstallPlaces

(* A command goes on: what it leaves must fit what it does next, and what   *)
(* the others do.                                                           *)
LEMMA CallGoesOn ==
  ASSUME ServiceInv, NEW c \in Callers, Under(c), NEW call \in CallRecords, Now(c, call),
         call.op = calls[c].op, call.alone = calls[c].alone, PlacesFit(call),
         NEW w, w = Where(call), FilesFit(w)', calls[c].alone => WorkFits(c, w)',
         bin' \in Nat, definition' \in Nat, process' = process \/ process' \in ProcessRecords,
         DaemonHolds' => DaemonHolds /\ process' = process, DefinitionIsRunnable',
         \/ bin' = bin /\ definition' = definition
         \/ bin' # Missing /\ definition' = definition
         \/ bin' = bin /\ bin # Missing /\ \A x \in Callers : Under(x) => calls[x].op # "uninstall"
         \/ \A x \in Callers \ {c} : ~Under(x)
  PROVE  ServiceInv'
<1>1. ServiceTypes
  BY DEF ServiceInv
<1>2. /\ calls' \in [Callers -> CallRecords] /\ calls'[c] = call
      /\ \A x \in Callers \ {c} :
           /\ calls'[x].pc = calls[x].pc /\ calls'[x].op = calls[x].op
           /\ Where(calls[x])' = Where(calls[x]) /\ (PlacesFit(calls[x]) => PlacesFit(calls[x])')
           /\ Under(x)' = Under(x) /\ (Under(x) => ~calls'[x].alone)
  BY <1>1, NowIs
<1>3. ServiceTypes'
  BY <1>1, <1>2 DEF ServiceTypes
<1>4. UninstallsAlone'
  <2> SUFFICES ASSUME NEW y \in Callers, NEW x \in Callers, y # x, Under(y)', Under(x)'
               PROVE  calls'[y].op # "uninstall"
    BY DEF UninstallsAlone
  <2>1. Under(y) /\ Under(x)
    BY <1>2
  <2>2. calls'[y].op = calls[y].op
    BY <1>2
  <2>. QED BY <2>1, <2>2 DEF ServiceInv, UninstallsAlone
<1>5. LockIsADaemons'
  BY DEF ServiceInv, LockIsADaemons
<1>6. ASSUME NEW x \in Callers PROVE PlacesFit(calls[x])'
  <2>1. CASE x = c
    BY <1>2, <2>1 DEF PlacesFit, Where
  <2>2. CASE x # c
    BY <1>2, <2>2 DEF ServiceInv
  <2>. QED BY <2>1, <2>2
<1>7. ASSUME NEW x \in Callers PROVE FilesFit(Where(calls[x]))'
  <2>1. CASE x = c
    BY <1>2, <2>1 DEF FilesFit, Where
  <2>2. CASE x # c
    <3>1. PICK v : v = Where(calls[x])
      OBVIOUS
    <3>2. Where(calls'[x]) = v
      BY <1>2, <2>2, <3>1 DEF Where
    <3>3. FilesFit(v) /\ PlacesFit(calls[x]) /\ calls[x] \in CallRecords
      BY <3>1 DEF ServiceInv, ServiceTypes
    <3>4. v \in WorkPlaces => Under(x)
      BY <3>1, <3>3, PlacesUnder
    <3>5. v = "delete" => calls[x].op = "uninstall"
      BY <3>1, <3>3 DEF PlacesFit, UninstallPlaces
    <3>6. FilesFit(v)'
      BY <2>2, <3>3, <3>4, <3>5 DEF FilesFit, WorkPlaces, InstallPlaces, UninstallPlaces
    <3>. QED BY <3>2, <3>6 DEF FilesFit
  <2>. QED BY <2>1, <2>2
<1>8. ASSUME NEW x \in Callers PROVE AloneFits(x)'
  <2>1. CASE x = c
    <3>1. ASSUME calls'[c].alone PROVE /\ \A y \in Callers \ {c} : ~Under(y)'
                                      /\ WorkFits(c, w)'
      BY <1>2, <3>1 DEF ServiceInv, AloneFits
    <3>2. Where(calls'[c]) = w
      BY <1>2
    <3>. QED BY <2>1, <3>1, <3>2 DEF AloneFits, WorkFits, Where
  <2>2. CASE x # c
    BY <1>2, <2>2 DEF AloneFits
  <2>. QED BY <2>1, <2>2
<1>. QED BY <1>3, <1>4, <1>5, <1>6, <1>7, <1>8 DEF ServiceInv

LEMMA CallMoves ==
  ASSUME ServiceInv, NEW c \in Callers, Under(c), NEW call \in CallRecords, Now(c, call),
         call.op = calls[c].op, call.alone = calls[c].alone, PlacesFit(call),
         NEW w, w = Where(call), FilesFit(w), calls[c].alone => WorkFits(c, w),
         UNCHANGED <<bin, definition, sealed, process>>, DaemonHolds' => DaemonHolds
  PROVE  ServiceInv'
<1>1. FilesFit(w)' /\ (calls[c].alone => WorkFits(c, w)')
  BY DEF FilesFit, WorkFits
<1>2. bin \in Nat /\ definition \in Nat /\ DefinitionIsRunnable'
  BY DEF ServiceInv, ServiceTypes, DefinitionIsRunnable
<1>. QED BY <1>1, <1>2, CallGoesOn

(* What a command knows where it is. *)
LEMMA HereFits ==
  ASSUME ServiceInv, NEW c \in Callers, Under(c)
  PROVE  /\ calls[c] \in CallRecords /\ PlacesFit(calls[c]) /\ FilesFit(Where(calls[c]))
         /\ calls[c].alone => WorkFits(c, Where(calls[c])) /\ \A x \in Callers \ {c} : ~Under(x)
         /\ calls[c].pc \notin Asks => Where(calls[c]) = calls[c].pc
BY DEF ServiceInv, ServiceTypes, AloneFits, Where

LEMMA PlacesAreNotRest ==
  ASSUME NEW c \in Callers, calls[c].pc \in Asks \cup WorkPlaces
  PROVE  Under(c)
BY DEF Under, Asks, WorkPlaces, UsePlaces, InstallPlaces, UninstallPlaces

LEMMA GoesTo ==
  ASSUME NEW old \in CallRecords, NEW pc \in CallPlaces, NEW call, call = [old EXCEPT !.pc = pc]
  PROVE  /\ call \in CallRecords /\ call.pc = pc /\ call.op = old.op /\ call.alone = old.alone
         /\ call.after = old.after /\ (pc \notin Asks => Where(call) = pc)
<1>1. call \in CallRecords
  BY DEF CallRecords
<1>2. call.pc = pc /\ call.op = old.op /\ call.alone = old.alone /\ call.after = old.after
  BY DEF CallRecords
<1>. QED BY <1>1, <1>2 DEF Where

LEMMA AsksFor ==
  ASSUME NEW old \in CallRecords, NEW after \in WorkPlaces, NEW call, call = Asking(old, after)
  PROVE  /\ call \in CallRecords /\ call.op = old.op /\ call.alone = old.alone
         /\ call.pc = "ask" /\ call.after = after /\ Where(call) = after
<1>1. call = [old EXCEPT !.pc = "ask", !.after = after]
  BY DEF Asking
<1>2. call \in CallRecords
  BY <1>1 DEF CallRecords, CallPlaces, Asks
<1>3. call.op = old.op /\ call.alone = old.alone /\ call.pc = "ask" /\ call.after = after
  BY <1>1 DEF CallRecords
<1>. QED BY <1>2, <1>3 DEF Where, Asks

LEMMA Counts ==
  ASSUME NEW old \in CallRecords, NEW n \in Nat, NEW call, call = [old EXCEPT !.polls = n]
  PROVE  /\ call \in CallRecords /\ call.op = old.op /\ call.alone = old.alone
         /\ call.pc = old.pc /\ call.after = old.after
BY DEF CallRecords

ProcessFrame == <<bin, definition, sealed, process>>

(* A command only goes somewhere, or asks for the lock on its way there.    *)
AskedFor(op, w) ==
  /\ w \in UsePlaces => op = "use"
  /\ w \in InstallPlaces => op \in {"use", "install", "import"}
  /\ w \in UninstallPlaces => op = "uninstall"

LEMMA ContinueMoves ==
  ASSUME ServiceInv, NEW c \in Callers, Under(c), NEW w \in CallPlaces \ Asks, Continue(c, w),
         AskedFor(calls[c].op, w), FilesFit(w), calls[c].alone => WorkFits(c, w),
         UNCHANGED ProcessFrame, DaemonHolds' => DaemonHolds
  PROVE  ServiceInv'
<1>1. PICK call : call = [calls[c] EXCEPT !.pc = w]
  OBVIOUS
<1>2. Now(c, call) /\ calls[c] \in CallRecords
  BY <1>1, HereFits DEF Continue
<1>3. /\ call \in CallRecords /\ call.pc = w /\ call.op = calls[c].op
      /\ call.alone = calls[c].alone /\ w = Where(call)
  BY <1>1, <1>2, GoesTo
<1>4. PlacesFit(call)
  BY <1>3 DEF PlacesFit, AskedFor
<1>. QED BY <1>2, <1>3, <1>4, CallMoves DEF ProcessFrame

LEMMA AskingMoves ==
  ASSUME ServiceInv, NEW c \in Callers, Under(c), NEW w \in WorkPlaces, NEW old \in CallRecords,
         old.op = calls[c].op, old.alone = calls[c].alone, Now(c, Asking(old, w)),
         AskedFor(calls[c].op, w), FilesFit(w), calls[c].alone => WorkFits(c, w),
         UNCHANGED ProcessFrame, DaemonHolds' => DaemonHolds
  PROVE  ServiceInv'
<1>1. PICK call : call = Asking(old, w)
  OBVIOUS
<1>2. /\ call \in CallRecords /\ call.op = old.op /\ call.alone = old.alone
      /\ call.pc = "ask" /\ call.after = w /\ w = Where(call)
  BY <1>1, AsksFor
<1>3. Now(c, call)
  BY <1>1
<1>4. w # "idle"
  BY DEF WorkPlaces, UsePlaces, InstallPlaces, UninstallPlaces
<1>5. PlacesFit(call)
  BY <1>2, <1>4 DEF PlacesFit, AskedFor
<1>. QED BY <1>2, <1>3, <1>5, CallMoves DEF ProcessFrame

LEMMA ProbeKeeps ==
  ASSUME ServiceInv, NEW c \in Callers, Probe(c) \/ ProbeEnds(c)
  PROVE  ServiceInv'
<1>1. calls[c].pc \in Asks /\ UNCHANGED ProcessFrame
  BY DEF Probe, ProbeEnds, Asks, ProcessFrame, Files
<1>2. Under(c)
  BY <1>1, PlacesAreNotRest
<1>3. /\ calls[c] \in CallRecords /\ PlacesFit(calls[c]) /\ FilesFit(Where(calls[c]))
      /\ calls[c].alone => WorkFits(c, Where(calls[c]))
  BY <1>2, HereFits
<1>4. DaemonHolds' => DaemonHolds
  BY ServiceConstants DEF Probe, ProbeEnds, DaemonHolds
<1>5. PICK w : w = calls[c].after
  OBVIOUS
<1>6. w = Where(calls[c]) /\ w \in WorkPlaces
  BY <1>1, <1>3, <1>5 DEF Where, PlacesFit, CallRecords
<1>7. w \notin Asks /\ w \in CallPlaces
  BY <1>6 DEF WorkPlaces, Asks, UsePlaces, InstallPlaces, UninstallPlaces, CallPlaces
<1>8. ASSUME NEW told \in {0, 1}, NEW call, call = [calls[c] EXCEPT !.pc = calls[c].after, !.told = told],
             Now(c, call)
      PROVE  ServiceInv'
  <2>1. call \in CallRecords
    BY <1>3, <1>5, <1>7, <1>8 DEF CallRecords
  <2>2. call.pc = w /\ call.op = calls[c].op /\ call.alone = calls[c].alone
    BY <1>3, <1>5, <1>8 DEF CallRecords
  <2>3. w = Where(call)
    BY <1>7, <2>2 DEF Where
  <2>4. PlacesFit(call)
    BY <1>3, <1>6, <1>7, <2>2, <2>3 DEF PlacesFit
  <2>. QED BY <1>1, <1>2, <1>3, <1>4, <1>6, <1>8, <2>1, <2>2, <2>3, <2>4, CallMoves DEF ProcessFrame
<1>9. CASE Probe(c) /\ instance = Free
  <2>1. PICK call : call = [calls[c] EXCEPT !.pc = "unlock"]
    OBVIOUS
  <2>2. Now(c, call)
    BY <1>9, <2>1 DEF Probe, Continue
  <2>3. "unlock" \in CallPlaces /\ "unlock" \in Asks
    BY DEF CallPlaces, Asks
  <2>4. /\ call \in CallRecords /\ call.pc = "unlock" /\ call.op = calls[c].op
        /\ call.alone = calls[c].alone /\ call.after = w
    BY <1>3, <1>5, <2>1, <2>3, GoesTo
  <2>5. w = Where(call)
    BY <2>3, <2>4 DEF Where
  <2>6. PlacesFit(call)
    BY <1>1, <1>3, <1>5, <1>6, <2>4, <2>5 DEF PlacesFit
  <2>. QED BY <1>1, <1>2, <1>3, <1>4, <1>6, <2>2, <2>4, <2>5, <2>6, CallMoves DEF ProcessFrame
<1>10. CASE Probe(c) /\ instance # Free
  BY <1>8, <1>10 DEF Probe
<1>11. CASE ProbeEnds(c)
  BY <1>8, <1>11 DEF ProbeEnds
<1>. QED BY <1>9, <1>10, <1>11

LEMMA StopKeeps ==
  ASSUME ServiceInv, NEW c \in Callers, Stop(c)
  PROVE  ServiceInv'
<1>1. /\ calls[c].pc = "stop" /\ UNCHANGED <<bin, definition, sealed>> /\ process' = NoProcess
      /\ instance' = (IF DaemonHolds THEN Free ELSE instance)
  BY DEF Stop, Files
<1>2. PICK w, old, call : /\ w = "stopped" /\ old = [calls[c] EXCEPT !.polls = 0]
                          /\ call = Asking(old, w)
  OBVIOUS
<1>3. Now(c, call)
  BY <1>2 DEF Stop
<1>4. Under(c) /\ w \in WorkPlaces
  BY <1>1, <1>2, PlacesAreNotRest DEF WorkPlaces
<1>5. calls[c] \in CallRecords
  BY <1>4, HereFits
<1>6. /\ old \in CallRecords /\ old.op = calls[c].op /\ old.alone = calls[c].alone
      /\ call = Asking(old, w)
  BY <1>2, <1>5, Counts
<1>7. /\ call \in CallRecords /\ call.op = calls[c].op /\ call.alone = calls[c].alone
      /\ call.pc = "ask" /\ call.after = w /\ w = Where(call)
  BY <1>4, <1>6, AsksFor
<1>8. PlacesFit(call)
  BY <1>2, <1>7 DEF PlacesFit, UsePlaces, InstallPlaces, UninstallPlaces
<1>9. FilesFit(w)' /\ WorkFits(c, w)'
  BY <1>1, <1>2 DEF FilesFit, WorkFits, NoProcess
<1>10. ~DaemonHolds' /\ process' \in ProcessRecords
  BY <1>1, ServiceConstants DEF DaemonHolds, NoProcess, ProcessRecords
<1>11. bin \in Nat /\ definition \in Nat /\ DefinitionIsRunnable'
  BY <1>1 DEF ServiceInv, ServiceTypes, DefinitionIsRunnable
<1>. QED BY <1>1, <1>3, <1>4, <1>7, <1>8, <1>9, <1>10, <1>11, CallGoesOn

LEMMA StoppedKeeps ==
  ASSUME ServiceInv, NEW c \in Callers, Stopped(c)
  PROVE  ServiceInv'
<1>1. calls[c].pc = "stopped" /\ UNCHANGED ProcessFrame /\ (DaemonHolds' => DaemonHolds)
  BY DEF Stopped, ProcessFrame, Files, DaemonHolds
<1>2. Under(c)
  BY <1>1, PlacesAreNotRest DEF WorkPlaces
<1>3. calls[c] \in CallRecords /\ (calls[c].alone => WorkFits(c, "stopped"))
  BY <1>1, <1>2, HereFits DEF Asks
<1>4. calls[c].op \in CallOps /\ calls[c].polls \in Nat
  BY <1>3 DEF CallRecords
<1>5. ASSUME NEW w \in {"done", "failed", "undefine", "copy"}, Continue(c, w),
             w = "undefine" => calls[c].op = "uninstall",
             w = "copy" => calls[c].op \in {"use", "install", "import"}
      PROVE  ServiceInv'
  <2>1. w \in CallPlaces \ Asks
    BY <1>5 DEF CallPlaces, Asks, WorkPlaces, InstallPlaces, UninstallPlaces
  <2>2. AskedFor(calls[c].op, w)
    BY <1>5 DEF AskedFor, UsePlaces, InstallPlaces, UninstallPlaces
  <2>3. FilesFit(w) /\ (calls[c].alone => WorkFits(c, w))
    BY <1>3 DEF FilesFit, WorkFits
  <2>. QED BY <1>1, <1>2, <1>5, <2>1, <2>2, <2>3, ContinueMoves
<1>6. CASE calls[c].told = 0
  <2>1. Continue(c, CASE calls[c].op = "stop" -> "done" [] calls[c].op = "uninstall" -> "undefine" [] OTHER -> "copy")
    BY <1>6 DEF Stopped
  <2>2. CASE calls[c].op = "stop"
    BY <1>5, <2>1, <2>2
  <2>3. CASE calls[c].op = "uninstall"
    BY <1>5, <2>1, <2>3
  <2>4. CASE calls[c].op \in {"use", "install", "import"}
    BY <1>5, <2>1, <2>4
  <2>. QED BY <1>4, <2>2, <2>3, <2>4 DEF CallOps
<1>7. CASE calls[c].told # 0 /\ calls[c].polls = Polls
  BY <1>5, <1>7 DEF Stopped
<1>8. CASE calls[c].told # 0 /\ calls[c].polls # Polls
  <2>1. PICK n, old : n = calls[c].polls + 1 /\ old = [calls[c] EXCEPT !.polls = n]
    OBVIOUS
  <2>2. Now(c, Asking(old, "stopped"))
    BY <1>8, <2>1 DEF Stopped
  <2>3. n \in Nat /\ old = [calls[c] EXCEPT !.polls = n]
    BY <1>4, <2>1
  <2>4. old \in CallRecords /\ old.op = calls[c].op /\ old.alone = calls[c].alone
    BY <1>3, <2>3, Counts
  <2>5. "stopped" \in WorkPlaces /\ AskedFor(calls[c].op, "stopped") /\ FilesFit("stopped")
    BY DEF WorkPlaces, AskedFor, FilesFit, UsePlaces, InstallPlaces, UninstallPlaces
  <2>. QED BY <1>1, <1>2, <1>3, <2>2, <2>4, <2>5, AskingMoves
<1>. QED BY <1>6, <1>7, <1>8

(* The files change. *)
LEMMA PutBinaryKeeps ==
  ASSUME ServiceInv, NEW c \in Callers, PutBinary(c)
  PROVE  ServiceInv'
<1>1. /\ calls[c].pc = "copy" /\ bin' = Release[c]
      /\ UNCHANGED <<definition, sealed, process, instance>>
  BY DEF PutBinary
<1>2. PICK w, call : w = "define" /\ call = [calls[c] EXCEPT !.pc = w]
  OBVIOUS
<1>3. Under(c) /\ Now(c, call) /\ w \in CallPlaces /\ w \notin Asks
  BY <1>1, <1>2, PlacesAreNotRest
     DEF PutBinary, Continue, CallPlaces, WorkPlaces, InstallPlaces, Asks
<1>4. /\ calls[c] \in CallRecords /\ PlacesFit(calls[c])
      /\ calls[c].alone => WorkFits(c, "copy")
  BY <1>1, <1>3, HereFits DEF Asks, WorkPlaces
<1>5. call = [calls[c] EXCEPT !.pc = w]
  BY <1>2
<1>6. /\ call \in CallRecords /\ call.pc = w /\ call.op = calls[c].op
      /\ call.alone = calls[c].alone /\ w = Where(call)
  BY <1>3, <1>4, <1>5, GoesTo
<1>7. calls[c].op \in {"use", "install", "import"}
  BY <1>1, <1>4 DEF PlacesFit, Where, Asks, InstallPlaces
<1>8. PlacesFit(call)
  BY <1>2, <1>6, <1>7 DEF PlacesFit, Asks, UsePlaces, UninstallPlaces
<1>9. bin' \in Nat /\ bin' # Missing /\ definition \in Nat
  BY <1>1, ReleasesAre DEF ServiceInv, ServiceTypes
<1>10. FilesFit(w)' /\ (calls[c].alone => WorkFits(c, w)')
  BY <1>1, <1>2, <1>4, <1>9 DEF FilesFit, WorkFits
<1>11. DefinitionIsRunnable'
  BY <1>1, <1>9 DEF ServiceInv, DefinitionIsRunnable
<1>12. DaemonHolds' => DaemonHolds
  BY <1>1 DEF DaemonHolds
<1>. QED BY <1>1, <1>3, <1>6, <1>8, <1>9, <1>10, <1>11, <1>12, CallGoesOn

LEMMA DefineKeeps ==
  ASSUME ServiceInv, NEW c \in Callers, Define(c)
  PROVE  ServiceInv'
<1>1. calls[c].pc = "define" /\ UNCHANGED <<bin, process, instance>>
  BY DEF Define
<1>2. Under(c)
  BY <1>1, PlacesAreNotRest DEF WorkPlaces, InstallPlaces
<1>3. /\ calls[c] \in CallRecords /\ PlacesFit(calls[c]) /\ FilesFit("define")
      /\ calls[c].alone => WorkFits(c, "define")
  BY <1>1, <1>2, HereFits DEF Asks
<1>4. calls[c].op \in {"use", "install", "import"}
  BY <1>1, <1>3 DEF PlacesFit, Where, Asks, InstallPlaces
<1>5. DaemonHolds' => DaemonHolds
  BY <1>1 DEF DaemonHolds
<1>6. CASE calls[c].op = "import" /\ KeyVersion(c) \in sealed
  <2>1. Continue(c, "failed") /\ UNCHANGED ProcessFrame
    BY <1>1, <1>6 DEF Define, ProcessFrame
  <2>2. "failed" \in CallPlaces \ Asks /\ AskedFor(calls[c].op, "failed")
    BY DEF CallPlaces, Asks, AskedFor, UsePlaces, InstallPlaces, UninstallPlaces
  <2>3. FilesFit("failed") /\ WorkFits(c, "failed")
    BY DEF FilesFit, WorkFits
  <2>. QED BY <1>2, <1>5, <2>1, <2>2, <2>3, ContinueMoves
<1>7. CASE ~(calls[c].op = "import" /\ KeyVersion(c) \in sealed)
  <2>1. PICK w, call : w = "start" /\ call = Asking(calls[c], w)
    OBVIOUS
  <2>2. Now(c, call) /\ sealed' = sealed \cup {KeyVersion(c)} /\ definition' = KeyVersion(c)
    BY <1>7, <2>1 DEF Define
  <2>3. w \in WorkPlaces /\ call = Asking(calls[c], w)
    BY <2>1 DEF WorkPlaces, InstallPlaces
  <2>4. /\ call \in CallRecords /\ call.op = calls[c].op /\ call.alone = calls[c].alone
        /\ call.pc = "ask" /\ call.after = w /\ w = Where(call)
    BY <1>3, <2>3, AsksFor
  <2>5. PlacesFit(call)
    BY <1>4, <2>1, <2>4 DEF PlacesFit, UsePlaces, UninstallPlaces
  <2>6. definition' \in Nat /\ definition' # Missing /\ definition' \in sealed'
    BY <2>2 DEF KeyVersion, RestoredKey, Missing
  <2>7. bin # Missing /\ bin \in Nat
    BY <1>3 DEF FilesFit, ServiceInv, ServiceTypes
  <2>8. FilesFit(w)' /\ (calls[c].alone => WorkFits(c, w)')
    BY <1>1, <1>3, <2>1, <2>6 DEF FilesFit, WorkFits
  <2>9. DefinitionIsRunnable'
    BY <1>1, <2>6, <2>7 DEF DefinitionIsRunnable
  <2>10. \A x \in Callers : Under(x) => calls[x].op # "uninstall"
    BY <1>2, <1>4 DEF ServiceInv, UninstallsAlone
  <2>11. bin' = bin
    BY <1>1
  <2>. QED BY <1>1, <1>2, <1>5, <2>2, <2>4, <2>5, <2>6, <2>7, <2>8, <2>9, <2>10, <2>11, CallGoesOn
<1>. QED BY <1>6, <1>7

LEMMA RemovalKeeps ==
  ASSUME ServiceInv, NEW c \in Callers, Undefine(c) \/ Delete(c)
  PROVE  ServiceInv'
<1>1. /\ calls[c].pc \in {"undefine", "delete"} /\ UNCHANGED <<sealed, process, instance>>
      /\ definition' = Missing
  <2>1. CASE Undefine(c)
    BY <2>1 DEF Undefine
  <2>2. CASE Delete(c)
    <3>1. calls[c].pc = "delete"
      BY <2>2 DEF Delete
    <3>2. FilesFit("delete")
      BY <3>1 DEF ServiceInv, Where, Asks
    <3>. QED BY <2>2, <3>2 DEF Delete, FilesFit
  <2>. QED BY <2>1, <2>2
<1>2. Under(c)
  BY <1>1, PlacesAreNotRest DEF WorkPlaces, UninstallPlaces
<1>3. /\ calls[c] \in CallRecords /\ PlacesFit(calls[c])
      /\ calls[c].alone => WorkFits(c, calls[c].pc)
  BY <1>1, <1>2, HereFits DEF Asks
<1>4. calls[c].op = "uninstall"
  BY <1>1, <1>3 DEF PlacesFit, Where, Asks, UninstallPlaces
<1>5. PICK w : w = (IF calls[c].pc = "undefine" THEN "delete" ELSE "done")
  OBVIOUS
<1>6. Continue(c, w) /\ bin' \in Nat
  BY <1>1, <1>5 DEF Undefine, Delete, ServiceInv, ServiceTypes, Missing
<1>7. PICK call : call = [calls[c] EXCEPT !.pc = w]
  OBVIOUS
<1>8. Now(c, call) /\ w \in CallPlaces /\ w \notin Asks
  BY <1>5, <1>6, <1>7 DEF Continue, CallPlaces, WorkPlaces, UninstallPlaces, Asks
<1>9. /\ call \in CallRecords /\ call.pc = w /\ call.op = calls[c].op
      /\ call.alone = calls[c].alone /\ w = Where(call)
  BY <1>3, <1>7, <1>8, GoesTo
<1>10. PlacesFit(call)
  BY <1>4, <1>5, <1>9 DEF PlacesFit, Asks, UsePlaces, InstallPlaces
<1>11. FilesFit(w)' /\ (calls[c].alone => WorkFits(c, w)')
  BY <1>1, <1>3, <1>5 DEF FilesFit, WorkFits
<1>12. DefinitionIsRunnable' /\ definition' \in Nat
  BY <1>1 DEF DefinitionIsRunnable, Missing
<1>13. \A x \in Callers \ {c} : ~Under(x)
  BY <1>2, <1>4 DEF ServiceInv, UninstallsAlone
<1>14. DaemonHolds' => DaemonHolds
  BY <1>1 DEF DaemonHolds
<1>. QED BY <1>1, <1>2, <1>6, <1>8, <1>9, <1>10, <1>11, <1>12, <1>13, <1>14, CallGoesOn

(* Starting it, and waiting for it. *)
LEMMA StartedKeeps ==
  ASSUME ServiceInv, NEW c \in Callers, Started(c)
  PROVE  ServiceInv'
<1>1. calls[c].pc = "started" /\ UNCHANGED ProcessFrame /\ (DaemonHolds' => DaemonHolds)
  BY DEF Started, ProcessFrame, Files, DaemonHolds
<1>2. Under(c)
  BY <1>1, PlacesAreNotRest DEF WorkPlaces, InstallPlaces
<1>3. calls[c] \in CallRecords /\ PlacesFit(calls[c]) /\ (calls[c].alone => WorkFits(c, "started"))
  BY <1>1, <1>2, HereFits DEF Asks
<1>4. calls[c].op \in {"use", "install", "import"} /\ calls[c].polls \in Nat
  BY <1>1, <1>3 DEF PlacesFit, Where, Asks, InstallPlaces, CallRecords
<1>5. CASE calls[c].told = 1
  <2>1. PICK w, call : /\ w = (IF calls[c].op = "use" THEN "ready?" ELSE "done")
                       /\ call = [calls[c] EXCEPT !.pc = w, !.polls = 0]
    OBVIOUS
  <2>2. Now(c, call) /\ w \in CallPlaces /\ w \notin Asks
    BY <1>5, <2>1 DEF Started, CallPlaces, WorkPlaces, UsePlaces, Asks
  <2>3. /\ call \in CallRecords /\ call.pc = w /\ call.op = calls[c].op /\ call.alone = calls[c].alone
    BY <1>3, <2>1, <2>2 DEF CallRecords
  <2>4. w = Where(call)
    BY <2>2, <2>3 DEF Where
  <2>5. PlacesFit(call) /\ FilesFit(w) /\ WorkFits(c, w)
    BY <1>4, <2>1, <2>2, <2>3, <2>4
       DEF PlacesFit, FilesFit, WorkFits, UsePlaces, InstallPlaces, UninstallPlaces
  <2>. QED BY <1>1, <1>2, <2>2, <2>3, <2>4, <2>5, CallMoves DEF ProcessFrame
<1>6. CASE calls[c].told # 1 /\ calls[c].polls = Polls
  <2>1. Continue(c, "failed")
    BY <1>6 DEF Started
  <2>2. "failed" \in CallPlaces \ Asks /\ AskedFor(calls[c].op, "failed")
    BY DEF CallPlaces, Asks, AskedFor, UsePlaces, InstallPlaces, UninstallPlaces
  <2>3. FilesFit("failed") /\ WorkFits(c, "failed")
    BY DEF FilesFit, WorkFits
  <2>. QED BY <1>1, <1>2, <2>1, <2>2, <2>3, ContinueMoves
<1>7. CASE calls[c].told # 1 /\ calls[c].polls # Polls
  <2>1. PICK n, old : n = calls[c].polls + 1 /\ old = [calls[c] EXCEPT !.polls = n]
    OBVIOUS
  <2>2. Now(c, Asking(old, "started"))
    BY <1>7, <2>1 DEF Started
  <2>3. n \in Nat /\ old = [calls[c] EXCEPT !.polls = n]
    BY <1>4, <2>1
  <2>4. old \in CallRecords /\ old.op = calls[c].op /\ old.alone = calls[c].alone
    BY <1>3, <2>3, Counts
  <2>5. "started" \in WorkPlaces /\ AskedFor(calls[c].op, "started") /\ FilesFit("started")
    BY <1>4 DEF WorkPlaces, AskedFor, FilesFit, UsePlaces, InstallPlaces, UninstallPlaces
  <2>. QED BY <1>1, <1>2, <1>3, <2>2, <2>4, <2>5, AskingMoves
<1>. QED BY <1>5, <1>6, <1>7

LEMMA StartDaemonKeeps ==
  ASSUME ServiceInv, NEW c \in Callers, StartDaemon(c)
  PROVE  ServiceInv'
<1>1. calls[c].pc = "start" /\ UNCHANGED <<bin, definition, sealed, instance>>
  BY DEF StartDaemon, Files
<1>2. Under(c)
  BY <1>1, PlacesAreNotRest DEF WorkPlaces, InstallPlaces
<1>3. calls[c] \in CallRecords /\ PlacesFit(calls[c]) /\ (calls[c].alone => WorkFits(c, "start"))
  BY <1>1, <1>2, HereFits DEF Asks
<1>4. calls[c].op \in {"use", "install", "import"}
  BY <1>1, <1>3 DEF PlacesFit, Where, Asks, InstallPlaces
<1>5. CASE calls[c].told = 1
  <2>1. PICK w : w = (IF calls[c].op = "use" THEN "ready?" ELSE "done")
    OBVIOUS
  <2>2. Continue(c, w) /\ UNCHANGED ProcessFrame /\ (DaemonHolds' => DaemonHolds)
    BY <1>1, <1>5, <2>1 DEF StartDaemon, ProcessFrame, DaemonHolds
  <2>3. w \in CallPlaces \ Asks /\ AskedFor(calls[c].op, w) /\ FilesFit(w) /\ WorkFits(c, w)
    BY <2>1 DEF CallPlaces, WorkPlaces, Asks, AskedFor, FilesFit, WorkFits, UsePlaces, InstallPlaces,
                UninstallPlaces
  <2>. QED BY <1>2, <2>2, <2>3, ContinueMoves
<1>6. CASE calls[c].told # 1
  <2>1. PICK w, old, call : /\ w = "started" /\ old = [calls[c] EXCEPT !.polls = 0]
                            /\ call = Asking(old, w)
    OBVIOUS
  <2>2. /\ Now(c, call)
        /\ process' = IF bin = Missing \/ process.state \notin {"none", "failed"} THEN process
                      ELSE [state |-> "forked", release |-> bin, key |-> definition]
    BY <1>6, <2>1 DEF StartDaemon
  <2>3. /\ old \in CallRecords /\ old.op = calls[c].op /\ old.alone = calls[c].alone
        /\ call = Asking(old, w)
    BY <1>3, <2>1, Counts
  <2>4. w \in WorkPlaces
    BY <2>1 DEF WorkPlaces, InstallPlaces
  <2>5. /\ call \in CallRecords /\ call.op = calls[c].op /\ call.alone = calls[c].alone
        /\ call.pc = "ask" /\ call.after = w /\ w = Where(call)
    BY <2>3, <2>4, AsksFor
  <2>6. PlacesFit(call)
    BY <1>4, <2>1, <2>5 DEF PlacesFit, UsePlaces, InstallPlaces, UninstallPlaces
  <2>7. bin \in Nat /\ definition \in Nat /\ DefinitionIsRunnable'
    BY <1>1 DEF ServiceInv, ServiceTypes, DefinitionIsRunnable
  <2>8. FilesFit(w)' /\ (calls[c].alone => WorkFits(c, w)')
    BY <1>1, <1>3, <2>1 DEF FilesFit, WorkFits
  <2>9. process' = process \/ process' \in ProcessRecords
    BY <2>2, <2>7 DEF ProcessRecords
  <2>10. DaemonHolds' => DaemonHolds /\ process' = process
    BY <1>1, <2>2 DEF ServiceInv, LockIsADaemons, DaemonHolds
  <2>. QED BY <1>1, <1>2, <2>2, <2>5, <2>6, <2>7, <2>8, <2>9, <2>10, CallGoesOn
<1>. QED BY <1>5, <1>6

LEMMA InstallKeeps ==
  ASSUME ServiceInv, NEW c \in Callers, Under(c), calls[c].op = "use", Install(c),
         UNCHANGED ProcessFrame, DaemonHolds' => DaemonHolds
  PROVE  ServiceInv'
<1>1. CASE scope = "system" /\ definition # Missing
  <2>1. Continue(c, "failed")
    BY <1>1 DEF Install
  <2>2. "failed" \in CallPlaces \ Asks /\ AskedFor(calls[c].op, "failed")
    BY DEF CallPlaces, Asks, AskedFor, UsePlaces, InstallPlaces, UninstallPlaces
  <2>3. FilesFit("failed") /\ WorkFits(c, "failed")
    BY DEF FilesFit, WorkFits
  <2>. QED BY <2>1, <2>2, <2>3, ContinueMoves
<1>2. CASE ~(scope = "system" /\ definition # Missing)
  <2>1. Now(c, Asking(calls[c], "stop"))
    BY <1>2 DEF Install
  <2>2. "stop" \in WorkPlaces /\ AskedFor(calls[c].op, "stop") /\ FilesFit("stop") /\ WorkFits(c, "stop")
    BY DEF WorkPlaces, AskedFor, FilesFit, WorkFits, UsePlaces, InstallPlaces, UninstallPlaces
  <2>3. calls[c] \in CallRecords
    BY HereFits
  <2>. QED BY <2>1, <2>2, <2>3, AskingMoves
<1>. QED BY <1>1, <1>2

LEMMA UseKeeps ==
  ASSUME ServiceInv, NEW c \in Callers, Connect(c) \/ Bootstrap(c) \/ WaitFor(c)
  PROVE  ServiceInv'
<1>1. /\ calls[c].pc \in UsePlaces /\ UNCHANGED ProcessFrame /\ (DaemonHolds' => DaemonHolds)
  BY DEF Connect, Bootstrap, WaitFor, UsePlaces, ProcessFrame, Files, DaemonHolds
<1>2. Under(c)
  BY <1>1, PlacesAreNotRest DEF WorkPlaces
<1>3. calls[c] \in CallRecords /\ PlacesFit(calls[c])
  BY <1>2, HereFits
<1>4. calls[c].op = "use" /\ calls[c].polls \in Nat
  BY <1>1, <1>3 DEF PlacesFit, Where, Asks, UsePlaces, CallRecords
<1>5. ASSUME NEW w \in {"done", "failed"}, Continue(c, w) PROVE ServiceInv'
  <2>1. w \in CallPlaces \ Asks /\ AskedFor(calls[c].op, w) /\ FilesFit(w) /\ WorkFits(c, w)
    BY <1>5 DEF CallPlaces, Asks, AskedFor, FilesFit, WorkFits, UsePlaces, InstallPlaces, UninstallPlaces
  <2>. QED BY <1>1, <1>2, <1>5, <2>1, ContinueMoves
<1>6. CASE Connect(c)
  <2>1. CASE Serves /\ Compatible(c) /\ process.release = Release[c]
    BY <1>5, <1>6, <2>1 DEF Connect
  <2>2. CASE Serves /\ (~Compatible(c) \/ process.release # Release[c])
    <3>1. Install(c)
      BY <1>6, <2>2 DEF Connect
    <3>. QED BY <1>1, <1>2, <1>4, <3>1, InstallKeeps
  <2>3. CASE ~Serves
    <3>1. Now(c, Asking(calls[c], "bootstrap"))
      BY <1>6, <2>3 DEF Connect
    <3>2. /\ "bootstrap" \in WorkPlaces /\ AskedFor(calls[c].op, "bootstrap") /\ FilesFit("bootstrap")
          /\ WorkFits(c, "bootstrap")
      BY <1>4 DEF WorkPlaces, AskedFor, FilesFit, WorkFits, UsePlaces, InstallPlaces, UninstallPlaces
    <3>. QED BY <1>1, <1>2, <1>3, <3>1, <3>2, AskingMoves
  <2>. QED BY <2>1, <2>2, <2>3
<1>7. ASSUME NEW w \in {"running?"} \cup {calls[c].pc}, NEW n \in Nat, NEW call,
             w \in UsePlaces, call = [calls[c] EXCEPT !.pc = w, !.polls = n], Now(c, call)
      PROVE  ServiceInv'
  <2>1. w \in CallPlaces /\ w \notin Asks
    BY <1>7 DEF CallPlaces, WorkPlaces, UsePlaces, Asks
  <2>2. /\ call \in CallRecords /\ call.pc = w /\ call.op = calls[c].op /\ call.alone = calls[c].alone
    BY <1>3, <1>7, <2>1 DEF CallRecords
  <2>3. w = Where(call)
    BY <2>1, <2>2 DEF Where
  <2>4. PlacesFit(call) /\ FilesFit(w) /\ WorkFits(c, w)
    BY <1>4, <1>7, <2>1, <2>2, <2>3
       DEF PlacesFit, FilesFit, WorkFits, UsePlaces, InstallPlaces, UninstallPlaces
  <2>. QED BY <1>1, <1>2, <1>7, <2>2, <2>3, <2>4, CallMoves DEF ProcessFrame
<1>8. CASE Bootstrap(c)
  <2>1. CASE calls[c].told = 1
    <3>1. PICK w, n, call : /\ w = "running?" /\ n = 0
                            /\ call = [calls[c] EXCEPT !.pc = w, !.polls = n]
      OBVIOUS
    <3>2. Now(c, call)
      BY <1>8, <2>1, <3>1 DEF Bootstrap
    <3>3. w \in {"running?"} \cup {calls[c].pc} /\ n \in Nat /\ w \in UsePlaces
      BY <3>1 DEF UsePlaces
    <3>4. call = [calls[c] EXCEPT !.pc = w, !.polls = n]
      BY <3>1
    <3>. QED BY <1>7, <3>2, <3>3, <3>4
  <2>2. CASE calls[c].told # 1
    <3>1. Install(c)
      BY <1>8, <2>2 DEF Bootstrap
    <3>. QED BY <1>1, <1>2, <1>4, <3>1, InstallKeeps
  <2>. QED BY <2>1, <2>2
<1>9. CASE WaitFor(c)
  <2>1. CASE Serves /\ Compatible(c)
    BY <1>5, <1>9, <2>1 DEF WaitFor
  <2>2. CASE Serves /\ ~Compatible(c) /\ calls[c].pc = "running?"
    <3>1. Install(c)
      BY <1>9, <2>2 DEF WaitFor
    <3>. QED BY <1>1, <1>2, <1>4, <3>1, InstallKeeps
  <2>3. CASE ~(Serves /\ Compatible(c)) /\ ~(Serves /\ ~Compatible(c) /\ calls[c].pc = "running?")
    <3>1. IF calls[c].polls = Polls THEN Continue(c, "failed")
          ELSE Now(c, [calls[c] EXCEPT !.polls = @ + 1])
      BY <1>9, <2>3 DEF WaitFor
    <3>2. CASE calls[c].polls = Polls
      BY <1>5, <3>1, <3>2
    <3>3. CASE calls[c].polls # Polls
      <4>1. PICK n, w, call : /\ n = calls[c].polls + 1 /\ w = calls[c].pc
                              /\ call = [calls[c] EXCEPT !.pc = w, !.polls = n]
        OBVIOUS
      <4>2. n \in Nat /\ w \in UsePlaces
        BY <1>1, <1>4, <4>1
      <4>3. [calls[c] EXCEPT !.polls = @ + 1] = call
        BY <1>3, <4>1 DEF CallRecords
      <4>4. Now(c, call)
        BY <3>1, <3>3, <4>3
      <4>. QED BY <1>7, <4>1, <4>2, <4>4
    <3>. QED BY <3>2, <3>3
  <2>. QED BY <2>1, <2>2, <2>3
<1>. QED BY <1>6, <1>8, <1>9

LEMMA InterruptKeeps ==
  ASSUME ServiceInv, NEW c \in Callers, Interrupt(c)
  PROVE  ServiceInv'
<1>1. Under(c) /\ Continue(c, "idle") /\ UNCHANGED ProcessFrame
  BY DEF Interrupt, ProcessFrame, Files
<1>2. DaemonHolds' => DaemonHolds
  BY ServiceConstants DEF Interrupt, DaemonHolds
<1>3. "idle" \in CallPlaces \ Asks /\ AskedFor(calls[c].op, "idle")
  BY DEF CallPlaces, Asks, AskedFor, UsePlaces, InstallPlaces, UninstallPlaces
<1>4. FilesFit("idle") /\ WorkFits(c, "idle")
  BY DEF FilesFit, WorkFits
<1>. QED BY <1>1, <1>2, <1>3, <1>4, ContinueMoves

LEMMA BeginKeeps ==
  ASSUME ServiceInv, NEW c \in Callers, NEW op \in CallOps, Begin(c, op)
  PROVE  ServiceInv'
<1>1. /\ ~Under(c) /\ UNCHANGED ProcessFrame /\ (DaemonHolds' => DaemonHolds)
      /\ \A x \in Callers \ {c} : Under(x) => op # "uninstall" /\ calls[x].op # "uninstall"
  BY DEF Begin, ProcessFrame, Files, DaemonHolds
<1>2. PICK alone, fresh, call :
        /\ alone = (\A x \in Callers \ {c} : ~Under(x))
        /\ fresh = [NewCall EXCEPT !.op = op, !.alone = alone]
        /\ call = CASE op = "use" -> [fresh EXCEPT !.pc = "connect"]
                    [] op \in {"install", "import"} -> Asking(fresh, "stop")
                    [] OTHER -> [fresh EXCEPT !.pc = "stop"]
  OBVIOUS
<1>3. Now(c, call)
  BY <1>2 DEF Begin
<1>4. alone \in BOOLEAN /\ (alone => \A x \in Callers \ {c} : ~Under(x))
  BY <1>2
<1>5. fresh = [NewCall EXCEPT !.op = op, !.alone = alone]
  BY <1>2
<1>6. fresh \in CallRecords /\ fresh.op = op /\ fresh.alone = alone
  BY <1>4, <1>5 DEF NewCall, CallRecords, CallPlaces
<1>7. /\ call \in CallRecords /\ call.op = op /\ call.alone = alone
      /\ Where(call) \in {"connect", "stop"} /\ (Where(call) = "connect" => op = "use")
      /\ call.pc \in Asks => call.after = "stop"
  <2>1. CASE op = "use"
    <3>1. PICK w : w = "connect"
      OBVIOUS
    <3>2. w \in CallPlaces /\ w \notin Asks /\ call = [fresh EXCEPT !.pc = w]
      BY <1>2, <2>1, <3>1 DEF CallPlaces, WorkPlaces, UsePlaces, Asks
    <3>3. /\ call \in CallRecords /\ call.pc = w /\ call.op = fresh.op /\ call.alone = fresh.alone
          /\ Where(call) = w
      BY <1>6, <3>2, GoesTo
    <3>. QED BY <1>6, <2>1, <3>1, <3>2, <3>3
  <2>2. CASE op \in {"install", "import"}
    <3>1. PICK w : w = "stop"
      OBVIOUS
    <3>2. w \in WorkPlaces /\ call = Asking(fresh, w)
      BY <1>2, <2>2, <3>1 DEF WorkPlaces
    <3>3. /\ call \in CallRecords /\ call.op = fresh.op /\ call.alone = fresh.alone
          /\ call.after = w /\ Where(call) = w
      BY <1>6, <3>2, AsksFor
    <3>. QED BY <1>6, <3>1, <3>3
  <2>3. CASE op \notin {"use", "install", "import"}
    <3>1. PICK w : w = "stop"
      OBVIOUS
    <3>2. w \in CallPlaces /\ w \notin Asks /\ call = [fresh EXCEPT !.pc = w]
      BY <1>2, <2>3, <3>1 DEF CallPlaces, WorkPlaces, Asks
    <3>3. /\ call \in CallRecords /\ call.pc = w /\ call.op = fresh.op /\ call.alone = fresh.alone
          /\ Where(call) = w
      BY <1>6, <3>2, GoesTo
    <3>. QED BY <1>6, <3>1, <3>2, <3>3
  <2>. QED BY <2>1, <2>2, <2>3
<1>8. ServiceTypes
  BY DEF ServiceInv
<1>9. /\ calls' \in [Callers -> CallRecords] /\ calls'[c] = call
      /\ \A x \in Callers \ {c} :
           /\ calls'[x].pc = calls[x].pc /\ calls'[x].op = calls[x].op
           /\ Where(calls[x])' = Where(calls[x]) /\ (PlacesFit(calls[x]) => PlacesFit(calls[x])')
           /\ Under(x)' = Under(x) /\ (Under(x) => ~calls'[x].alone)
  BY <1>3, <1>7, <1>8, NowIs
<1>10. UninstallsAlone'
  <2> SUFFICES ASSUME NEW y \in Callers, NEW x \in Callers, y # x, Under(y)', Under(x)'
               PROVE  calls'[y].op # "uninstall"
    BY DEF UninstallsAlone
  <2>1. CASE y = c
    BY <1>1, <1>7, <1>9, <2>1
  <2>2. CASE x = c
    BY <1>1, <1>9, <2>2
  <2>3. CASE y # c /\ x # c
    BY <1>9, <2>3 DEF ServiceInv, UninstallsAlone
  <2>. QED BY <2>1, <2>2, <2>3
<1>11. Where(calls[c])' \in {"connect", "stop"}
  BY <1>7, <1>9 DEF Where
<1>12. ASSUME NEW x \in Callers PROVE PlacesFit(calls[x])' /\ FilesFit(Where(calls[x]))' /\ AloneFits(x)'
  <2>1. CASE x = c
    <3>1. PlacesFit(call)
      BY <1>7 DEF PlacesFit, UsePlaces, InstallPlaces, UninstallPlaces
    <3>2. PlacesFit(calls[c])'
      BY <1>9, <3>1 DEF PlacesFit, Where
    <3>3. FilesFit(Where(calls[c]))'
      BY <1>11 DEF FilesFit
    <3>4. WorkFits(c, Where(calls[c]))'
      BY <1>11 DEF WorkFits
    <3>5. calls'[c].alone => \A y \in Callers \ {c} : ~Under(y)'
      BY <1>4, <1>7, <1>9
    <3>. QED BY <2>1, <3>2, <3>3, <3>4, <3>5 DEF AloneFits
  <2>2. CASE x # c
    <3>1. FilesFit(Where(calls[x])) /\ PlacesFit(calls[x])
      BY DEF ServiceInv
    <3>2. Where(calls[x])' = Where(calls[x])
      BY <1>9, <2>2
    <3>3. FilesFit(Where(calls[x]))'
      BY <1>1, <3>1, <3>2 DEF FilesFit, ProcessFrame
    <3>. QED BY <1>9, <2>2, <3>1, <3>3 DEF AloneFits
  <2>. QED BY <2>1, <2>2
<1>13. ServiceTypes' /\ LockIsADaemons' /\ DefinitionIsRunnable'
  BY <1>1, <1>9 DEF ServiceInv, ServiceTypes, LockIsADaemons, DefinitionIsRunnable, ProcessFrame
<1>. QED BY <1>10, <1>12, <1>13 DEF ServiceInv

(* The daemon. *)
LEMMA DaemonKeeps ==
  ASSUME ServiceInv, Acquire \/ Serve \/ Restart \/ DaemonDies
  PROVE  ServiceInv'
<1>1. UNCHANGED <<bin, definition, sealed, calls>> /\ ServiceTypes
  BY DEF Acquire, Serve, Restart, DaemonDies, Files, ServiceInv
<1>2. DaemonHolds => process.state \in {"starting", "ready"}
  BY DEF ServiceInv, LockIsADaemons
<1>3. Ends => process' = FailedProcess /\ ~DaemonHolds'
  BY ServiceConstants DEF Ends, DaemonHolds
<1>4. FailedProcess \in ProcessRecords
  BY DEF FailedProcess, NoProcess, ProcessRecords
<1>5. /\ process' \in ProcessRecords /\ process.state # "none"
      /\ DaemonHolds' => process'.state \in {"starting", "ready"}
  <2>1. CASE Acquire
    <3>1. CASE instance = Free
      <4>1. process.state = "forked" /\ process' = [process EXCEPT !.state = "starting"]
        BY <2>1, <3>1 DEF Acquire
      <4>. QED BY <1>1, <4>1 DEF ServiceTypes, ProcessRecords
    <3>2. CASE instance # Free
      BY <1>3, <1>4, <2>1, <3>2 DEF Acquire
    <3>. QED BY <3>1, <3>2
  <2>2. CASE Serve
    <3>1. process.state = "starting"
      BY <2>2 DEF Serve
    <3>2. CASE process.release < database.schema
      BY <1>3, <1>4, <2>2, <3>1, <3>2 DEF Serve
    <3>3. CASE ~(process.release < database.schema)
      <4>1. process' = [process EXCEPT !.state = "ready"]
        BY <2>2, <3>3 DEF Serve
      <4>. QED BY <1>1, <3>1, <4>1 DEF ServiceTypes, ProcessRecords
    <3>. QED BY <3>2, <3>3
  <2>3. CASE Restart
    <3>1. /\ process.state = "failed" /\ UNCHANGED instance
          /\ process' = [state |-> "forked", release |-> bin, key |-> definition]
      BY <2>3 DEF Restart
    <3>. QED BY <1>1, <1>2, <3>1 DEF ServiceTypes, ProcessRecords, DaemonHolds
  <2>4. CASE DaemonDies
    BY <1>3, <1>4, <2>4 DEF DaemonDies
  <2>. QED BY <2>1, <2>2, <2>3, <2>4
<1>6. ASSUME NEW c \in Callers PROVE PlacesFit(calls[c])' /\ FilesFit(Where(calls[c]))' /\ AloneFits(c)'
  <2>1. PlacesFit(calls[c]) /\ FilesFit(Where(calls[c])) /\ AloneFits(c)
    BY DEF ServiceInv
  <2>2. Where(calls[c])' = Where(calls[c]) /\ \A x \in Callers : Under(x)' = Under(x)
    BY <1>1 DEF Where, Under
  <2>3. WorkFits(c, Where(calls[c])) => WorkFits(c, Where(calls[c]))'
    BY <1>1, <1>5, <2>2 DEF WorkFits
  <2>4. PlacesFit(calls[c])' /\ FilesFit(Where(calls[c]))'
    BY <1>1, <2>1, <2>2 DEF PlacesFit, FilesFit
  <2>5. AloneFits(c)'
    BY <1>1, <2>1, <2>2, <2>3 DEF AloneFits
  <2>. QED BY <2>4, <2>5
<1>7. ServiceTypes' /\ DefinitionIsRunnable' /\ LockIsADaemons'
  BY <1>1, <1>5 DEF ServiceInv, ServiceTypes, DefinitionIsRunnable, LockIsADaemons
<1>8. UninstallsAlone'
  BY <1>1 DEF ServiceInv, UninstallsAlone, Under
<1>. QED BY <1>6, <1>7, <1>8 DEF ServiceInv

LEMMA CommandKeeps ==
  ASSUME ServiceInv, NEW c \in Callers, Command(c)
  PROVE  ServiceInv'
<1>1. ASSUME NEW op \in Does[c], Begin(c, op) PROVE ServiceInv'
  <2>1. op \in CallOps
    BY ServiceConstants DEF CallOps
  <2>. QED BY <1>1, <2>1, BeginKeeps
<1>. QED
  BY <1>1, ProbeKeeps, StopKeeps, StoppedKeeps, PutBinaryKeeps, DefineKeeps, StartDaemonKeeps,
     StartedKeeps, RemovalKeeps, UseKeeps, InterruptKeeps DEF Command

LEMMA ServiceStep ==
  ASSUME ServiceInv, [ServiceNext]_serviceVars
  PROVE  ServiceInv'
<1>1. CASE UNCHANGED serviceVars
  <2>1. UNCHANGED <<bin, definition, sealed, process, instance, calls>>
    BY <1>1 DEF serviceVars
  <2>2. \A x \in Callers : Under(x)' = Under(x) /\ Where(calls[x])' = Where(calls[x])
    BY <2>1 DEF Under, Where
  <2>3. ASSUME NEW c \in Callers PROVE PlacesFit(calls[c])' /\ FilesFit(Where(calls[c]))' /\ AloneFits(c)'
    <3>1. PlacesFit(calls[c]) /\ FilesFit(Where(calls[c])) /\ AloneFits(c)
      BY DEF ServiceInv
    <3>2. WorkFits(c, Where(calls[c])) => WorkFits(c, Where(calls[c]))'
      BY <2>1, <2>2 DEF WorkFits
    <3>3. PlacesFit(calls[c])' /\ FilesFit(Where(calls[c]))'
      BY <2>1, <2>2, <3>1 DEF PlacesFit, FilesFit
    <3>4. AloneFits(c)'
      BY <2>1, <2>2, <3>1, <3>2 DEF AloneFits
    <3>. QED BY <3>3, <3>4
  <2>4. ServiceTypes' /\ DefinitionIsRunnable' /\ LockIsADaemons' /\ UninstallsAlone'
    BY <2>1, <2>2 DEF ServiceInv, ServiceTypes, DefinitionIsRunnable, LockIsADaemons, DaemonHolds, UninstallsAlone
  <2>. QED BY <2>3, <2>4 DEF ServiceInv
<1>. QED BY <1>1, CommandKeeps, DaemonKeeps DEF ServiceNext

(* A command that ends well. *)
Delivered(c) ==
  CASE calls[c].op = "uninstall" -> definition' = Missing /\ bin' = Missing /\ ~DaemonHolds'
    [] calls[c].op \in {"install", "import"} -> definition' # Missing /\ bin' = Release[c]
    [] calls[c].op = "stop" -> ~DaemonHolds'
    [] OTHER -> Serves' /\ Compatible(c)'

LEMMA DeliveredIs ==
  ASSUME NEW c \in Callers,
         \/ calls[c].op = "uninstall" /\ definition' = Missing /\ bin' = Missing /\ ~DaemonHolds'
         \/ calls[c].op \in {"install", "import"} /\ definition' # Missing /\ bin' = Release[c]
         \/ calls[c].op = "stop" /\ ~DaemonHolds'
         \/ calls[c].op = "use" /\ Serves' /\ Compatible(c)'
  PROVE  Delivered(c)
<1>1. CASE calls[c].op = "uninstall"
  BY <1>1 DEF Delivered
<1>2. CASE calls[c].op \in {"install", "import"}
  BY <1>2 DEF Delivered
<1>3. CASE calls[c].op = "stop"
  BY <1>3 DEF Delivered
<1>4. CASE calls[c].op = "use"
  BY <1>4 DEF Delivered
<1>. QED BY <1>1, <1>2, <1>3, <1>4

LEMMA NowAt ==
  ASSUME NEW c \in Callers, NEW call, Now(c, call)
  PROVE  calls'[c] = call
BY DEF Now

LEMMA ContinuesAt ==
  ASSUME NEW c \in Callers, calls[c] \in CallRecords, NEW w, Continue(c, w)
  PROVE  calls'[c].pc = w /\ calls'[c].alone = calls[c].alone
<1>1. calls'[c] = [calls[c] EXCEPT !.pc = w]
  BY NowAt DEF Continue
<1>. QED BY <1>1 DEF CallRecords

LEMMA AsksAt ==
  ASSUME NEW c \in Callers, NEW old \in CallRecords, NEW w, Now(c, Asking(old, w))
  PROVE  calls'[c].pc = "ask"
<1>1. calls'[c] = [old EXCEPT !.pc = "ask", !.after = w]
  BY NowAt DEF Asking
<1>. QED BY <1>1 DEF CallRecords

LEMMA InstallAt ==
  ASSUME NEW c \in Callers, calls[c] \in CallRecords, Install(c)
  PROVE  calls'[c].pc # "done"
<1>1. CASE scope = "system" /\ definition # Missing
  BY <1>1, ContinuesAt DEF Install
<1>2. CASE ~(scope = "system" /\ definition # Missing)
  BY <1>2, AsksAt DEF Install
<1>. QED BY <1>1, <1>2

LEMMA NoneHolds ==
  ASSUME ServiceInv, process.state = "none", UNCHANGED instance
  PROVE  ~DaemonHolds'
BY DEF ServiceInv, LockIsADaemons, DaemonHolds

LEMMA StopsWell ==
  ASSUME ServiceInv, NEW c \in Callers, Stopped(c) \/ Delete(c), calls'[c].pc = "done", calls'[c].alone
  PROVE  Delivered(c)
<1>1. calls[c].pc \in {"stopped", "delete"} /\ UNCHANGED <<process, instance>>
  BY DEF Stopped, Delete
<1>2. Under(c)
  BY <1>1, PlacesAreNotRest DEF WorkPlaces, UninstallPlaces
<1>3. /\ calls[c] \in CallRecords /\ PlacesFit(calls[c]) /\ FilesFit(calls[c].pc)
      /\ calls[c].alone => WorkFits(c, calls[c].pc)
  BY <1>1, <1>2, HereFits DEF Asks
<1>4. CASE Delete(c)
  <2>1. calls[c].pc = "delete" /\ Continue(c, "done") /\ bin' = Missing /\ definition' = definition
    BY <1>4 DEF Delete
  <2>2. calls[c].alone
    BY <1>3, <2>1, ContinuesAt
  <2>3. ~DaemonHolds'
    BY <1>1, <1>3, <2>1, <2>2, NoneHolds DEF WorkFits
  <2>4. calls[c].op = "uninstall"
    BY <1>3, <2>1 DEF PlacesFit, Where, Asks, UninstallPlaces
  <2>5. definition = Missing
    BY <1>3, <2>1 DEF FilesFit
  <2>. QED BY <2>1, <2>3, <2>4, <2>5, DeliveredIs
<1>5. CASE Stopped(c)
  <2>1. calls[c].pc = "stopped"
    BY <1>5 DEF Stopped
  <2>2. CASE calls[c].told = 0
    <3>1. Continue(c, CASE calls[c].op = "stop" -> "done" [] calls[c].op = "uninstall" -> "undefine" [] OTHER -> "copy")
      BY <1>5, <2>2 DEF Stopped
    <3>2. CASE calls[c].op = "stop"
      <4>1. Continue(c, "done")
        BY <3>1, <3>2
      <4>2. calls[c].alone
        BY <1>3, <4>1, ContinuesAt
      <4>3. ~DaemonHolds'
        BY <1>1, <1>3, <2>1, <4>2, NoneHolds DEF WorkFits
      <4>. QED BY <3>2, <4>3, DeliveredIs
    <3>3. CASE calls[c].op = "uninstall"
      <4>1. Continue(c, "undefine")
        BY <3>1, <3>3
      <4>. QED BY <1>3, <4>1, ContinuesAt
    <3>4. CASE calls[c].op \notin {"stop", "uninstall"}
      <4>1. Continue(c, "copy")
        BY <3>1, <3>4
      <4>. QED BY <1>3, <4>1, ContinuesAt
    <3>. QED BY <3>2, <3>3, <3>4
  <2>3. CASE calls[c].told # 0 /\ calls[c].polls = Polls
    <3>1. Continue(c, "failed")
      BY <1>5, <2>3 DEF Stopped
    <3>. QED BY <1>3, <3>1, ContinuesAt
  <2>4. CASE calls[c].told # 0 /\ calls[c].polls # Polls
    <3>1. calls[c].polls \in Nat
      BY <1>3 DEF CallRecords
    <3>2. PICK n, old : n = calls[c].polls + 1 /\ old = [calls[c] EXCEPT !.polls = n]
      OBVIOUS
    <3>3. Now(c, Asking(old, "stopped"))
      BY <1>5, <2>4, <3>2 DEF Stopped
    <3>4. n \in Nat /\ old = [calls[c] EXCEPT !.polls = n]
      BY <3>1, <3>2
    <3>5. old \in CallRecords
      BY <1>3, <3>4, Counts
    <3>. QED BY <3>3, <3>5, AsksAt
  <2>. QED BY <2>2, <2>3, <2>4
<1>. QED BY <1>4, <1>5

LEMMA StartsWell ==
  ASSUME ServiceInv, NEW c \in Callers, StartDaemon(c) \/ Started(c), calls'[c].pc = "done",
         calls'[c].alone
  PROVE  Delivered(c)
<1>1. calls[c].pc \in {"start", "started"} /\ UNCHANGED <<bin, definition>>
  BY DEF StartDaemon, Started, Files
<1>2. Under(c)
  BY <1>1, PlacesAreNotRest DEF WorkPlaces, InstallPlaces
<1>3. /\ calls[c] \in CallRecords /\ PlacesFit(calls[c])
      /\ calls[c].alone => WorkFits(c, calls[c].pc)
  BY <1>1, <1>2, HereFits DEF Asks
<1>4. calls[c].op \in {"use", "install", "import"} /\ calls[c].polls \in Nat
  BY <1>1, <1>3 DEF PlacesFit, Where, Asks, InstallPlaces, CallRecords
<1>5. calls[c].alone => bin' = Release[c] /\ definition' # Missing
  BY <1>1, <1>3 DEF WorkFits
<1>6. calls[c].told = 1 /\ calls[c].alone /\ calls[c].op # "use"
  <2>1. CASE StartDaemon(c) /\ calls[c].told = 1
    <3>1. Continue(c, IF calls[c].op = "use" THEN "ready?" ELSE "done")
      BY <2>1 DEF StartDaemon
    <3>. QED BY <1>3, <2>1, <3>1, ContinuesAt
  <2>2. CASE StartDaemon(c) /\ calls[c].told # 1
    <3>1. PICK old : old = [calls[c] EXCEPT !.polls = 0]
      OBVIOUS
    <3>2. Now(c, Asking(old, "started")) /\ old \in CallRecords
      BY <1>3, <2>2, <3>1, Counts DEF StartDaemon
    <3>. QED BY <3>2, AsksAt
  <2>3. CASE Started(c) /\ calls[c].told = 1
    <3>1. calls'[c] = [calls[c] EXCEPT !.pc = IF calls[c].op = "use" THEN "ready?" ELSE "done", !.polls = 0]
      BY <2>3, NowAt DEF Started
    <3>. QED BY <1>3, <2>3, <3>1 DEF CallRecords
  <2>4. CASE Started(c) /\ calls[c].told # 1 /\ calls[c].polls = Polls
    <3>1. Continue(c, "failed")
      BY <2>4 DEF Started
    <3>. QED BY <1>3, <3>1, ContinuesAt
  <2>5. CASE Started(c) /\ calls[c].told # 1 /\ calls[c].polls # Polls
    <3>1. PICK n, old : n = calls[c].polls + 1 /\ old = [calls[c] EXCEPT !.polls = n]
      OBVIOUS
    <3>2. Now(c, Asking(old, "started"))
      BY <2>5, <3>1 DEF Started
    <3>3. n \in Nat /\ old = [calls[c] EXCEPT !.polls = n]
      BY <1>4, <3>1
    <3>4. old \in CallRecords
      BY <1>3, <3>3, Counts
    <3>. QED BY <3>2, <3>4, AsksAt
  <2>. QED BY <2>1, <2>2, <2>3, <2>4, <2>5
<1>. QED BY <1>4, <1>5, <1>6, DeliveredIs

LEMMA UsesWell ==
  ASSUME ServiceInv, NEW c \in Callers, Connect(c) \/ Bootstrap(c) \/ WaitFor(c), calls'[c].pc = "done"
  PROVE  Delivered(c)
<1>1. calls[c].pc \in UsePlaces /\ UNCHANGED process
  BY DEF Connect, Bootstrap, WaitFor, UsePlaces
<1>2. Under(c)
  BY <1>1, PlacesAreNotRest DEF WorkPlaces
<1>3. calls[c] \in CallRecords /\ PlacesFit(calls[c])
  BY <1>2, HereFits
<1>4. calls[c].op = "use" /\ calls[c].pc # "done"
  BY <1>1, <1>3 DEF PlacesFit, Where, Asks, UsePlaces
<1>5. Serves /\ Compatible(c)
  <2>1. CASE Connect(c) /\ Serves /\ ~(Compatible(c) /\ process.release = Release[c])
    <3>1. Install(c)
      BY <2>1 DEF Connect
    <3>. QED BY <1>3, <3>1, InstallAt
  <2>2. CASE Connect(c) /\ ~Serves
    <3>1. Now(c, Asking(calls[c], "bootstrap"))
      BY <2>2 DEF Connect
    <3>. QED BY <1>3, <3>1, AsksAt
  <2>3. CASE Bootstrap(c)
    <3>1. CASE calls[c].told = 1
      <4>1. calls'[c] = [calls[c] EXCEPT !.pc = "running?", !.polls = 0]
        BY <2>3, <3>1, NowAt DEF Bootstrap
      <4>. QED BY <1>3, <4>1 DEF CallRecords
    <3>2. CASE calls[c].told # 1
      <4>1. Install(c)
        BY <2>3, <3>2 DEF Bootstrap
      <4>. QED BY <1>3, <4>1, InstallAt
    <3>. QED BY <3>1, <3>2
  <2>4. CASE WaitFor(c) /\ ~(Serves /\ Compatible(c))
    <3>1. CASE Serves /\ ~Compatible(c) /\ calls[c].pc = "running?"
      <4>1. Install(c)
        BY <2>4, <3>1 DEF WaitFor
      <4>. QED BY <1>3, <4>1, InstallAt
    <3>2. CASE ~(Serves /\ ~Compatible(c) /\ calls[c].pc = "running?")
      <4>1. IF calls[c].polls = Polls THEN Continue(c, "failed")
            ELSE Now(c, [calls[c] EXCEPT !.polls = @ + 1])
        BY <2>4, <3>2 DEF WaitFor
      <4>2. CASE calls[c].polls = Polls
        BY <1>3, <4>1, <4>2, ContinuesAt
      <4>3. CASE calls[c].polls # Polls
        <5>1. calls'[c] = [calls[c] EXCEPT !.polls = @ + 1]
          BY <4>1, <4>3, NowAt
        <5>. QED BY <1>3, <1>4, <5>1 DEF CallRecords
      <4>. QED BY <4>2, <4>3
    <3>. QED BY <3>1, <3>2
  <2>. QED BY <2>1, <2>2, <2>3, <2>4
<1>6. Serves' /\ Compatible(c)'
  BY <1>1, <1>5 DEF Serves, Compatible
<1>. QED BY <1>4, <1>6, DeliveredIs

LEMMA OthersGoOn ==
  ASSUME ServiceInv, NEW c \in Callers,
         \/ \E op \in Does[c] : Begin(c, op)
         \/ Probe(c) \/ ProbeEnds(c) \/ Stop(c) \/ PutBinary(c) \/ Define(c) \/ Undefine(c) \/ Interrupt(c)
  PROVE  calls'[c].pc # "done"
<1>0. calls[c] \in CallRecords
  BY DEF ServiceInv, ServiceTypes
<1>1. ASSUME NEW op \in Does[c], Begin(c, op) PROVE calls'[c].pc # "done"
  <2>1. PICK alone, fresh : /\ alone = (\A x \in Callers \ {c} : ~Under(x))
                            /\ fresh = [NewCall EXCEPT !.op = op, !.alone = alone]
    OBVIOUS
  <2>2. Now(c, CASE op = "use" -> [fresh EXCEPT !.pc = "connect"]
                 [] op \in {"install", "import"} -> Asking(fresh, "stop")
                 [] OTHER -> [fresh EXCEPT !.pc = "stop"])
    BY <1>1, <2>1 DEF Begin
  <2>3. DOMAIN fresh = {"pc", "op", "after", "polls", "alone", "told"}
    BY <2>1 DEF NewCall
  <2>4. calls'[c] = CASE op = "use" -> [fresh EXCEPT !.pc = "connect"]
                      [] op \in {"install", "import"} -> Asking(fresh, "stop")
                      [] OTHER -> [fresh EXCEPT !.pc = "stop"]
    BY <2>2, NowAt
  <2>5. CASE op = "use"
    BY <2>3, <2>4, <2>5
  <2>6. CASE op \in {"install", "import"}
    BY <2>3, <2>4, <2>6 DEF Asking
  <2>7. CASE op \notin {"use", "install", "import"}
    BY <2>3, <2>4, <2>7
  <2>. QED BY <2>5, <2>6, <2>7
<1>2. CASE Probe(c) \/ ProbeEnds(c)
  <2>1. calls[c].pc \in Asks
    BY <1>2 DEF Probe, ProbeEnds, Asks
  <2>2. calls[c].after \in WorkPlaces
    BY <1>0, <2>1 DEF ServiceInv, PlacesFit, CallRecords
  <2>3. calls[c].after # "done"
    BY <2>2 DEF WorkPlaces, UsePlaces, InstallPlaces, UninstallPlaces
  <2>4. CASE Probe(c) /\ instance = Free
    <3>1. Continue(c, "unlock")
      BY <2>4 DEF Probe
    <3>. QED BY <1>0, <3>1, ContinuesAt
  <2>5. CASE Probe(c) /\ instance # Free
    <3>1. calls'[c] = [calls[c] EXCEPT !.pc = calls[c].after, !.told = 1]
      BY <2>5, NowAt DEF Probe
    <3>. QED BY <1>0, <2>3, <3>1 DEF CallRecords
  <2>6. CASE ProbeEnds(c)
    <3>1. calls'[c] = [calls[c] EXCEPT !.pc = calls[c].after, !.told = 0]
      BY <2>6, NowAt DEF ProbeEnds
    <3>. QED BY <1>0, <2>3, <3>1 DEF CallRecords
  <2>. QED BY <1>2, <2>4, <2>5, <2>6
<1>3. CASE Stop(c)
  <2>1. PICK old : old = [calls[c] EXCEPT !.polls = 0]
    OBVIOUS
  <2>2. Now(c, Asking(old, "stopped")) /\ old \in CallRecords
    BY <1>0, <1>3, <2>1, Counts DEF Stop
  <2>. QED BY <2>2, AsksAt
<1>4. CASE PutBinary(c) \/ Undefine(c) \/ Interrupt(c)
  <2>1. PICK w \in {"define", "delete", "idle"} : Continue(c, w)
    BY <1>4 DEF PutBinary, Undefine, Interrupt
  <2>. QED BY <1>0, <2>1, ContinuesAt
<1>5. CASE Define(c)
  <2>1. Continue(c, "failed") \/ Now(c, Asking(calls[c], "start"))
    BY <1>5 DEF Define
  <2>. QED BY <1>0, <2>1, ContinuesAt, AsksAt
<1>. QED BY <1>1, <1>2, <1>3, <1>4, <1>5

LEMMA CommandsEndWell ==
  ASSUME ServiceInv, [ServiceNext]_serviceVars, NEW c \in Callers,
         calls[c].pc # "done", calls'[c].pc = "done", calls'[c].alone
  PROVE  Delivered(c)
<1>1. calls' # calls
  OBVIOUS
<1>2. PICK x \in Callers : Command(x)
  BY <1>1 DEF ServiceNext, serviceVars, Acquire, Serve, Restart, DaemonDies
<1>3. PICK call : Now(x, call)
  BY <1>2 DEF Command, Begin, Probe, ProbeEnds, Stop, Stopped, PutBinary, Define, StartDaemon, Started,
              Undefine, Delete, Connect, Bootstrap, WaitFor, Interrupt, Continue, Install
<1>4. x = c
  <2> SUFFICES ASSUME x # c PROVE FALSE
    OBVIOUS
  <2>1. calls'[c] = IF Under(c) THEN [calls[c] EXCEPT !.alone = FALSE] ELSE calls[c]
    BY <1>3 DEF Now
  <2>2. calls[c] \in CallRecords
    BY DEF ServiceInv, ServiceTypes
  <2>3. calls'[c].pc = calls[c].pc
    BY <2>1, <2>2 DEF CallRecords
  <2>. QED BY <2>3
<1>. QED BY <1>2, <1>4, StopsWell, StartsWell, UsesWell, OthersGoOn DEF Command

-----------------------------------------------------------------------------
(* The database.                                                           *)

(* The file has the columns of its version.                                *)
ColumnsFit ==
  /\ base.version \in AnyVersion /\ base = [version |-> base.version, columns |-> base.columns]
  /\ base.columns = SchemaOf[base.version]
(* What an opening has found, and that it has copied it before it changes  *)
(* anything.                                                               *)
OpeningFits ==
  /\ opening = [at |-> opening.at, found |-> opening.found]
  /\ opening.at \in {"closed", "refused", "backup", "copy", "prune", "migrate", "open"}
  /\ opening.at = "closed" => opening.found = NoFile
  /\ opening.at \notin {"closed", "refused"} => base.version <= Latest /\ opening.found <= Latest
  /\ opening.at \in {"refused", "backup", "copy", "prune"} => base.version = opening.found
  /\ opening.at \in {"migrate", "open"} /\ opening.found = Latest => base.version = Latest
  /\ opening.at = "open" => base.version = Latest
  /\ opening.at \in {"prune", "migrate", "open"} /\ opening.found \in 1 .. (Latest - 1) =>
       second \in DOMAIN backups /\ backups[second] = opening.found
CopiesFit ==
  /\ second \in Nat /\ IsFiniteSet(DOMAIN backups)
  /\ \A s \in DOMAIN backups : s \in Nat /\ s <= second
SchemaInv == ColumnsFit /\ OpeningFits /\ CopiesFit

LEMMA LeastOfAll ==
  ASSUME NEW T \in SUBSET Nat, T # {}
  PROVE  \E x \in T : \A y \in T : x <= y
<1> DEFINE R == OpToRel(<, Nat)
<1>1. PICK x \in T : \A y \in T : ~(<<y, x>> \in R)
  <2>1. IsWellFoundedOn(R, Nat)
    BY NatLessThanWellFounded
  <2> HIDE DEF R
  <2>. QED BY <2>1, WFMin
<1>2. \A a \in Nat, b \in Nat : a < b => <<a, b>> \in R
  BY DEF OpToRel
<1> HIDE DEF R
<1>3. ASSUME NEW y \in T PROVE x <= y
  <2>1. ~(<<y, x>> \in R)
    BY <1>1
  <2>2. x \in Nat /\ y \in Nat
    OBVIOUS
  <2>3. ~(y < x)
    BY <1>2, <2>1, <2>2
  <2>. QED BY <2>2, <2>3
<1>. QED BY <1>3

(* What the recursive definition of a schema says. *)
LEMMA SchemasAre ==
  \A v \in AnyVersion :
    SchemaOf[v] = CASE v <= 0 -> {} [] v = 1 -> FirstSchema [] OTHER -> Migrated(SchemaOf[v - 1], v - 1)
<1> DEFINE SchemaAt(f, v) == CASE v <= 0 -> {} [] v = 1 -> FirstSchema [] OTHER -> Migrated(f[v - 1], v - 1)
<1>1. \E f : f = [v \in AnyVersion |-> SchemaAt(f, v)]
  <2>1. PICK a2, a3, a4, a5, a6, a7, a8, a9 :
          /\ a2 = Migrated(FirstSchema, 1) /\ a3 = Migrated(a2, 2) /\ a4 = Migrated(a3, 3)
          /\ a5 = Migrated(a4, 4) /\ a6 = Migrated(a5, 5) /\ a7 = Migrated(a6, 6)
          /\ a8 = Migrated(a7, 7) /\ a9 = Migrated(a8, 8)
    OBVIOUS
  <2>2. PICK b0, b1, b2, b3, b4, b5, b6 :
          /\ b0 = Migrated(a9, 9) /\ b1 = Migrated(b0, 10) /\ b2 = Migrated(b1, 11)
          /\ b3 = Migrated(b2, 12) /\ b4 = Migrated(b3, 13) /\ b5 = Migrated(b4, 14)
          /\ b6 = Migrated(b5, 15)
    OBVIOUS
  <2>3. PICK s : s = <<FirstSchema, a2, a3, a4, a5, a6, a7, a8, a9, b0, b1, b2, b3, b4, b5, b6>>
    OBVIOUS
  <2>4. PICK f : f = [v \in AnyVersion |-> IF v <= 0 THEN {} ELSE s[v]]
    OBVIOUS
  <2>5. ASSUME NEW v \in AnyVersion PROVE f[v] = SchemaAt(f, v)
    <3>1. v \in -1 .. 16
      BY DEF AnyVersion, NoFile, Latest
    <3>2. CASE v <= 0
      BY <2>4, <3>2
    <3>3. CASE v = 1
      BY <2>3, <2>4, <3>3
    <3>4. CASE v > 1
      <4>1. f[v] = s[v] /\ f[v - 1] = s[v - 1]
        BY <2>4, <3>1, <3>4 DEF AnyVersion, NoFile, Latest
      <4>2. s[v] = Migrated(s[v - 1], v - 1)
        <5>1. /\ s[2] = Migrated(s[1], 1) /\ s[3] = Migrated(s[2], 2) /\ s[4] = Migrated(s[3], 3)
              /\ s[5] = Migrated(s[4], 4) /\ s[6] = Migrated(s[5], 5) /\ s[7] = Migrated(s[6], 6)
              /\ s[8] = Migrated(s[7], 7) /\ s[9] = Migrated(s[8], 8)
          BY <2>1, <2>3
        <5>2. /\ s[10] = Migrated(s[9], 9) /\ s[11] = Migrated(s[10], 10)
              /\ s[12] = Migrated(s[11], 11) /\ s[13] = Migrated(s[12], 12)
              /\ s[14] = Migrated(s[13], 13) /\ s[15] = Migrated(s[14], 14)
              /\ s[16] = Migrated(s[15], 15)
          BY <2>2, <2>3
        <5>3. v \in {2, 3, 4, 5, 6, 7, 8, 9, 10, 11, 12, 13, 14, 15, 16}
          BY <3>1, <3>4
        <5>. QED BY <5>1, <5>2, <5>3
      <4>. QED BY <3>1, <3>4, <4>1, <4>2
    <3>. QED BY <3>1, <3>2, <3>3, <3>4
  <2>6. f = [v \in AnyVersion |-> f[v]]
    BY <2>4
  <2>7. f = [v \in AnyVersion |-> SchemaAt(f, v)]
    BY <2>5, <2>6
  <2>. QED BY <2>7
<1>2. SchemaOf = CHOOSE f : f = [v \in AnyVersion |-> SchemaAt(f, v)]
  BY DEF SchemaOf
<1>3. SchemaOf = [v \in AnyVersion |-> SchemaAt(SchemaOf, v)]
  BY <1>1, <1>2
<1>. QED BY <1>3

(* The steps one by one. *)
LEMMA MigrationsAre ==
  ASSUME NEW s
  PROVE  /\ Migrated(s, 1) = s \cup Table("providers", {"description", "model"})
         /\ Migrated(s, 2) =
              Rebuilt(s, "providers", {"base", "description", "model", "official", "unique(client,name)"})
              \cup Settings({"proxy_enabled"})
         /\ Migrated(s, 3) = s \cup Bases({"protected_values"})
         /\ Migrated(s, 4) = s \cup Table("providers", {"claude_model_mapping"})
         /\ Migrated(s, 5) = s \cup Table("providers", {"codex_config_name"})
         /\ Migrated(s, 6) =
              Rebuilt(s, "providers",
                      {"base", "description", "model", "official", "claude_model_mapping", "codex_config_name",
                       "unique(client,scope,name)"} \cup ImageColumns)
              \cup Bases({"codex_image_state"})
         /\ Migrated(s, 7) = s \cup Table("providers", {"network_proxy"}) \cup Settings({"upstream_proxy"})
         /\ Migrated(s, 8) = s \cup Bases(UsageTables)
         /\ Migrated(s, 9) = s \cup Table("providers", {"codex_tuning"})
         /\ Migrated(s, 10) = s \cup Bases(RollupTables)
         /\ Migrated(s, 11) = s \cup Table("usage_sync_cursors", {"parser_state"})
                                \cup Bases({"usage_quota_readings"})
         /\ Migrated(s, 12) = s \cup Table("usage_quota_readings", {"account", "session_provider"})
         /\ Migrated(s, 13) = s \cup Table("usage_quota_readings", {"client_share"})
<1>1. Migrated(s, 1) = s \cup Table("providers", {"description", "model"})
  BY DEF Migrated
<1>2. Migrated(s, 2) =
           Rebuilt(s, "providers", {"base", "description", "model", "official", "unique(client,name)"})
           \cup Settings({"proxy_enabled"})
  BY DEF Migrated
<1>3. Migrated(s, 3) = s \cup Bases({"protected_values"})
  BY DEF Migrated
<1>4. Migrated(s, 4) = s \cup Table("providers", {"claude_model_mapping"})
  BY DEF Migrated
<1>5. Migrated(s, 5) = s \cup Table("providers", {"codex_config_name"})
  BY DEF Migrated
<1>6. Migrated(s, 6) =
           Rebuilt(s, "providers",
                   {"base", "description", "model", "official", "claude_model_mapping", "codex_config_name",
                    "unique(client,scope,name)"} \cup ImageColumns)
           \cup Bases({"codex_image_state"})
  BY DEF Migrated
<1>7. Migrated(s, 7) = s \cup Table("providers", {"network_proxy"}) \cup Settings({"upstream_proxy"})
  BY DEF Migrated
<1>8. Migrated(s, 8) = s \cup Bases(UsageTables)
  BY DEF Migrated
<1>9. Migrated(s, 9) = s \cup Table("providers", {"codex_tuning"})
  BY DEF Migrated
<1>10. Migrated(s, 10) = s \cup Bases(RollupTables)
  BY DEF Migrated
<1>11. Migrated(s, 11) = s \cup Table("usage_sync_cursors", {"parser_state"})
                             \cup Bases({"usage_quota_readings"})
  BY DEF Migrated
<1>12. Migrated(s, 12) = s \cup Table("usage_quota_readings", {"account", "session_provider"})
  BY DEF Migrated
<1>13. Migrated(s, 13) = s \cup Table("usage_quota_readings", {"client_share"})
  BY DEF Migrated
<1>. QED BY <1>1, <1>2, <1>3, <1>4, <1>5, <1>6, <1>7, <1>8, <1>9, <1>10, <1>11, <1>12, <1>13

(* A schema is a set of pairs: what it has of every table says which it is. *)
Pairs(s) == \A x \in s : x = <<x[1], x[2]>>

LEMMA PairsAreEqual ==
  ASSUME NEW r, NEW s, Pairs(r), Pairs(s), \A t, c : <<t, c>> \in r <=> <<t, c>> \in s
  PROVE  r = s
<1>1. ASSUME NEW x, x \in r PROVE x \in s
  BY <1>1 DEF Pairs
<1>2. ASSUME NEW x, x \in s PROVE x \in r
  BY <1>2 DEF Pairs
<1>. QED BY <1>1, <1>2

LEMMA TableHas ==
  ASSUME NEW name, NEW columns
  PROVE  /\ Pairs(Table(name, columns))
         /\ \A t, c : <<t, c>> \in Table(name, columns) <=> t = name /\ c \in columns
<1>1. ASSUME NEW x \in Table(name, columns) PROVE x = <<x[1], x[2]>>
  BY <1>1 DEF Table
<1>. QED BY <1>1 DEF Table, Pairs

LEMMA BasesHave ==
  ASSUME NEW tables
  PROVE  /\ Pairs(Bases(tables))
         /\ \A t, c : <<t, c>> \in Bases(tables) <=> t \in tables /\ c = "base"
<1>1. ASSUME NEW x \in Bases(tables) PROVE x = <<x[1], x[2]>>
  BY <1>1 DEF Bases
<1>. QED BY <1>1 DEF Bases, Pairs

LEMMA RebuiltHas ==
  ASSUME NEW s, NEW name, NEW columns, Pairs(s)
  PROVE  /\ Pairs(Rebuilt(s, name, columns))
         /\ \A t, c : <<t, c>> \in Rebuilt(s, name, columns) <=>
              (<<t, c>> \in s /\ t # name) \/ (t = name /\ c \in columns)
<1>1. ASSUME NEW x \in Rebuilt(s, name, columns) PROVE x = <<x[1], x[2]>>
  BY <1>1, TableHas DEF Rebuilt, Pairs
<1>2. \A t, c : <<t, c>> \in {x \in s : x[1] # name} <=> <<t, c>> \in s /\ t # name
  OBVIOUS
<1>3. \A t, c : <<t, c>> \in Rebuilt(s, name, columns) <=>
        (<<t, c>> \in s /\ t # name) \/ (t = name /\ c \in columns)
  BY <1>2, TableHas DEF Rebuilt
<1>. QED BY <1>1, <1>3 DEF Pairs

LEMMA SettingsHave ==
  ASSUME NEW keys
  PROVE  /\ Pairs(Settings(keys))
         /\ \A t, c : <<t, c>> \in Settings(keys) <=> t = "settings" /\ c \in keys
BY TableHas DEF Settings

LEMMA UnionsArePairs ==
  ASSUME NEW r, NEW s, Pairs(r), Pairs(s)
  PROVE  Pairs(r \cup s)
BY DEF Pairs

LEMMA TableAdded ==
  ASSUME NEW r, NEW s, NEW name, NEW columns, Pairs(s), r = s \cup Table(name, columns)
  PROVE  Pairs(r) /\ \A t, c : <<t, c>> \in r <=> <<t, c>> \in s \/ (t = name /\ c \in columns)
<1>1. \A t, c : <<t, c>> \in Table(name, columns) <=> t = name /\ c \in columns
  BY TableHas
<1>2. Pairs(Table(name, columns))
  BY TableHas
<1>. QED BY <1>1, <1>2, UnionsArePairs

LEMMA BasesAdded ==
  ASSUME NEW r, NEW s, NEW tables, Pairs(s), r = s \cup Bases(tables)
  PROVE  Pairs(r) /\ \A t, c : <<t, c>> \in r <=> <<t, c>> \in s \/ (t \in tables /\ c = "base")
<1>1. \A t, c : <<t, c>> \in Bases(tables) <=> t \in tables /\ c = "base"
  BY BasesHave
<1>2. Pairs(Bases(tables))
  BY BasesHave
<1>. QED BY <1>1, <1>2, UnionsArePairs

LEMMA SettingsAdded ==
  ASSUME NEW r, NEW s, NEW keys, Pairs(s), r = s \cup Settings(keys)
  PROVE  Pairs(r) /\ \A t, c : <<t, c>> \in r <=> <<t, c>> \in s \/ (t = "settings" /\ c \in keys)
BY TableAdded DEF Settings

(* What a database made by the releases before this one has of every table. *)
LEMMA SchemasStep ==
  /\ SchemaOf[1] = FirstSchema
  /\ \A u, v \in 1 .. Latest : v = u + 1 => SchemaOf[v] = Migrated(SchemaOf[u], u)
<1>1. SchemaOf[1] = FirstSchema
  <2>1. 1 \in AnyVersion
    BY DEF AnyVersion, NoFile, Latest
  <2>. QED BY <2>1, SchemasAre
<1>2. ASSUME NEW u \in 1 .. 15, NEW v \in 1 .. 15, v = u + 1 PROVE SchemaOf[v] = Migrated(SchemaOf[u], u)
  <2>1. v \in AnyVersion /\ ~(v <= 0) /\ v # 1 /\ v - 1 = u
    BY <1>2 DEF AnyVersion, NoFile, Latest
  <2>. QED BY <2>1, SchemasAre
<1>. QED BY <1>1, <1>2 DEF Latest

LEMMA SchemaChain ==
  \E s1, s2, s3, s4, s5, s6, s7 :
    /\ s1 = FirstSchema /\ s2 = Migrated(s1, 1) /\ s3 = Migrated(s2, 2) /\ s4 = Migrated(s3, 3)
    /\ s5 = Migrated(s4, 4) /\ s6 = Migrated(s5, 5) /\ s7 = Migrated(s6, 6) /\ s7 = SchemaOf[7]
<1>1. /\ SchemaOf[2] = Migrated(SchemaOf[1], 1) /\ SchemaOf[3] = Migrated(SchemaOf[2], 2)
      /\ SchemaOf[4] = Migrated(SchemaOf[3], 3) /\ SchemaOf[5] = Migrated(SchemaOf[4], 4)
      /\ SchemaOf[6] = Migrated(SchemaOf[5], 5) /\ SchemaOf[7] = Migrated(SchemaOf[6], 6)
  BY SchemasStep DEF Latest
<1>. QED BY <1>1, SchemasStep

LEMMA SchemaOfSeven ==
  /\ Pairs(SchemaOf[7])
  /\ \A t, c : <<t, c>> \in SchemaOf[7] <=>
       \/ t \in FirstTables \cup {"protected_values", "codex_image_state"} /\ c = "base"
       \/ t = "settings" /\ c = "proxy_enabled"
       \/ t = "providers" /\ c \in {"description", "model", "official", "claude_model_mapping", "codex_config_name",
                                    "unique(client,scope,name)"} \cup ImageColumns
<1>1. PICK s1, s2, s3, s4, s5, s6, s7 :
        /\ s1 = FirstSchema /\ s2 = Migrated(s1, 1) /\ s3 = Migrated(s2, 2) /\ s4 = Migrated(s3, 3)
        /\ s5 = Migrated(s4, 4) /\ s6 = Migrated(s5, 5) /\ s7 = Migrated(s6, 6) /\ s7 = SchemaOf[7]
  BY SchemaChain
<1>2. PICK first, again :
        /\ first = {"base", "description", "model", "official", "unique(client,name)"}
        /\ again = {"base", "description", "model", "official", "claude_model_mapping", "codex_config_name",
                      "unique(client,scope,name)"} \cup ImageColumns
  OBVIOUS
<1>3. PICK r3, r7 : r3 = Rebuilt(s2, "providers", first) /\ r7 = Rebuilt(s6, "providers", again)
  OBVIOUS
<1>4. /\ s1 = Bases(FirstTables) \cup {<<"providers", "unique(client,name)">>}
      /\ s2 = s1 \cup Table("providers", {"description", "model"})
      /\ s3 = r3 \cup Settings({"proxy_enabled"})
  BY <1>1, <1>2, <1>3, MigrationsAre DEF FirstSchema
<1>5. /\ s4 = s3 \cup Bases({"protected_values"})
      /\ s5 = s4 \cup Table("providers", {"claude_model_mapping"})
      /\ s6 = s5 \cup Table("providers", {"codex_config_name"})
  BY <1>1, MigrationsAre
<1>6. s7 = r7 \cup Bases({"codex_image_state"})
  BY <1>1, <1>2, <1>3, MigrationsAre
<1>7. Pairs(s1) /\ \A t, c : <<t, c>> \in s1 /\ t # "providers" <=> t \in FirstTables \ {"providers"} /\ c = "base"
  <2>1. s1 = Bases(FirstTables) \cup {<<"providers", "unique(client,name)">>}
    BY <1>4
  <2>2. Pairs(Bases(FirstTables))
    BY BasesHave
  <2>3. \A t, c : <<t, c>> \in Bases(FirstTables) <=> t \in FirstTables /\ c = "base"
    BY BasesHave
  <2>4. PICK p : p = <<"providers", "unique(client,name)">>
    OBVIOUS
  <2>5. p = <<p[1], p[2]>> /\ s1 = Bases(FirstTables) \cup {p}
    BY <2>1, <2>4
  <2>6. Pairs(s1)
    BY <2>2, <2>5 DEF Pairs
  <2>. QED BY <2>1, <2>3, <2>6
<1>8. Pairs(s2) /\ \A t, c : <<t, c>> \in s2 <=>
        <<t, c>> \in s1 \/ (t = "providers" /\ c \in {"description", "model"})
  <2>1. s2 = s1 \cup Table("providers", {"description", "model"})
    BY <1>4
  <2>2. Pairs(s1)
    BY <1>7
  <2>. QED BY <2>1, <2>2, TableAdded
<1>9. Pairs(r3) /\ \A t, c : <<t, c>> \in r3 <=>
        (<<t, c>> \in s2 /\ t # "providers") \/ (t = "providers" /\ c \in first)
  BY <1>3, <1>8, RebuiltHas
<1>10. Pairs(s3) /\ \A t, c : <<t, c>> \in s3 <=>
         <<t, c>> \in r3 \/ (t = "settings" /\ c \in {"proxy_enabled"})
  <2>1. s3 = r3 \cup Settings({"proxy_enabled"})
    BY <1>4
  <2>2. Pairs(r3)
    BY <1>9
  <2>3. PICK k : k = {"proxy_enabled"}
    OBVIOUS
  <2>4. s3 = r3 \cup Settings(k)
    BY <2>1, <2>3
  <2>5. Pairs(s3) /\ \A t, c : <<t, c>> \in s3 <=>
           <<t, c>> \in r3 \/ (t = "settings" /\ c \in k)
    BY <2>2, <2>4, SettingsAdded
  <2>. QED BY <2>3, <2>5
<1>11. Pairs(s4) /\ \A t, c : <<t, c>> \in s4 <=>
         <<t, c>> \in s3 \/ (t \in {"protected_values"} /\ c = "base")
  <2>1. s4 = s3 \cup Bases({"protected_values"})
    BY <1>5
  <2>2. Pairs(s3)
    BY <1>10
  <2>3. PICK k : k = {"protected_values"}
    OBVIOUS
  <2>4. s4 = s3 \cup Bases(k)
    BY <2>1, <2>3
  <2>5. Pairs(s4) /\ \A t, c : <<t, c>> \in s4 <=>
           <<t, c>> \in s3 \/ (t \in k /\ c = "base")
    BY <2>2, <2>4, BasesAdded
  <2>. QED BY <2>3, <2>5
<1>12. Pairs(s5) /\ \A t, c : <<t, c>> \in s5 <=>
         <<t, c>> \in s4 \/ (t = "providers" /\ c \in {"claude_model_mapping"})
  BY <1>5, <1>11, TableAdded
<1>13. Pairs(s6) /\ \A t, c : <<t, c>> \in s6 <=>
         <<t, c>> \in s5 \/ (t = "providers" /\ c \in {"codex_config_name"})
  BY <1>5, <1>12, TableAdded
<1>14. Pairs(r7) /\ \A t, c : <<t, c>> \in r7 <=>
         (<<t, c>> \in s6 /\ t # "providers") \/ (t = "providers" /\ c \in again)
  BY <1>3, <1>13, RebuiltHas
<1>15. Pairs(s7) /\ \A t, c : <<t, c>> \in s7 <=>
         <<t, c>> \in r7 \/ (t \in {"codex_image_state"} /\ c = "base")
  <2>1. s7 = r7 \cup Bases({"codex_image_state"})
    BY <1>6
  <2>2. Pairs(r7)
    BY <1>14
  <2>. QED BY <2>1, <2>2, BasesAdded
<1>16. ASSUME NEW t, NEW c, t = "providers"
       PROVE  <<t, c>> \in s7 <=> c \in again
  BY <1>14, <1>15, <1>16
<1>17. ASSUME NEW t, NEW c, t # "providers"
       PROVE  <<t, c>> \in s7 <=>
                \/ t \in FirstTables \cup {"protected_values", "codex_image_state"} /\ c = "base"
                \/ t = "settings" /\ c = "proxy_enabled"
  <2>1. <<t, c>> \in s2 <=> t \in FirstTables /\ c = "base"
    BY <1>7, <1>8, <1>17
  <2>2. <<t, c>> \in s3 <=> (t \in FirstTables /\ c = "base") \/ (t = "settings" /\ c = "proxy_enabled")
    BY <1>9, <1>10, <1>17, <2>1
  <2>3. <<t, c>> \in s6 <=> <<t, c>> \in s3 \/ (t = "protected_values" /\ c = "base")
    BY <1>11, <1>12, <1>13, <1>17
  <2>4. <<t, c>> \in s7 <=> <<t, c>> \in s6 \/ (t = "codex_image_state" /\ c = "base")
    BY <1>14, <1>15, <1>17
  <2>. QED BY <2>2, <2>3, <2>4
<1>18. ASSUME NEW t, NEW c
       PROVE  <<t, c>> \in s7 <=>
                \/ t \in FirstTables \cup {"protected_values", "codex_image_state"} /\ c = "base"
                \/ t = "settings" /\ c = "proxy_enabled"
                \/ t = "providers" /\ c \in {"description", "model", "official", "claude_model_mapping",
                                             "codex_config_name", "unique(client,scope,name)"} \cup ImageColumns
  <2>1. "providers" \in FirstTables
    BY DEF FirstTables
  <2>2. CASE t = "providers"
    BY <1>2, <1>16, <2>1, <2>2
  <2>3. CASE t # "providers"
    BY <1>17, <2>3
  <2>. QED BY <2>2, <2>3
<1>. QED BY <1>1, <1>15, <1>18

LEMMA SchemaChainOn ==
  \E s7, s8, s9, s10, s11, s12, s13, s14 :
    /\ s7 = SchemaOf[7] /\ s8 = Migrated(s7, 7) /\ s9 = Migrated(s8, 8) /\ s10 = Migrated(s9, 9)
    /\ s11 = Migrated(s10, 10) /\ s12 = Migrated(s11, 11) /\ s13 = Migrated(s12, 12)
    /\ s14 = Migrated(s13, 13) /\ s14 = SchemaOf[14]
<1>1. /\ SchemaOf[8] = Migrated(SchemaOf[7], 7) /\ SchemaOf[9] = Migrated(SchemaOf[8], 8)
      /\ SchemaOf[10] = Migrated(SchemaOf[9], 9) /\ SchemaOf[11] = Migrated(SchemaOf[10], 10)
      /\ SchemaOf[12] = Migrated(SchemaOf[11], 11) /\ SchemaOf[13] = Migrated(SchemaOf[12], 12)
      /\ SchemaOf[14] = Migrated(SchemaOf[13], 13)
  BY SchemasStep DEF Latest
<1>. QED BY <1>1

(* A database brought up from the first version has what a new one is      *)
(* created with.                                                           *)
LEMMA CreatedHas ==
  /\ Pairs(Created)
  /\ \A t, c : <<t, c>> \in Created <=>
       \/ t \in FirstTables \cup UsageTables \cup RollupTables
               \cup {"codex_image_state", "protected_values", "usage_quota_readings"} /\ c = "base"
       \/ t = "providers" /\ c \in {"description", "model", "official", "claude_model_mapping", "codex_config_name",
                                    "network_proxy", "codex_tuning", "unique(client,scope,name)"} \cup ImageColumns
       \/ t = "usage_sync_cursors" /\ c = "parser_state"
       \/ t = "usage_quota_readings" /\ c \in {"account", "session_provider", "client_share"}
       \/ t = "settings" /\ c \in {"proxy_enabled", "upstream_proxy"}
<1>1. PICK tables, columns :
        /\ tables = FirstTables \cup UsageTables \cup RollupTables
                     \cup {"codex_image_state", "protected_values", "usage_quota_readings"}
        /\ columns = {"description", "model", "official", "claude_model_mapping", "codex_config_name",
                      "network_proxy", "codex_tuning", "unique(client,scope,name)"} \cup ImageColumns
  OBVIOUS
<1>2. PICK a, b, d, e :
        /\ a = Bases(tables) /\ b = a \cup Table("providers", columns)
        /\ d = b \cup Table("usage_sync_cursors", {"parser_state"})
        /\ e = d \cup Table("usage_quota_readings", {"account", "session_provider", "client_share"})
  OBVIOUS
<1>3. Created = e \cup Settings({"proxy_enabled", "upstream_proxy"})
  BY <1>1, <1>2 DEF Created
<1>4. Pairs(a) /\ \A t, c : <<t, c>> \in a <=> t \in tables /\ c = "base"
  BY <1>2, BasesHave
<1>5. Pairs(b) /\ \A t, c : <<t, c>> \in b <=> <<t, c>> \in a \/ (t = "providers" /\ c \in columns)
  <2>1. PICK n : n = "providers"
    OBVIOUS
  <2>2. b = a \cup Table(n, columns)
    BY <1>2, <2>1
  <2>3. Pairs(a)
    BY <1>4
  <2>4. Pairs(Table(n, columns)) /\ \A t, c : <<t, c>> \in Table(n, columns) <=> t = n /\ c \in columns
    BY TableHas
  <2>5. Pairs(b)
    BY <2>2, <2>3, <2>4, UnionsArePairs
  <2>. QED BY <2>1, <2>2, <2>4, <2>5
<1>6. Pairs(d) /\ \A t, c : <<t, c>> \in d <=>
        <<t, c>> \in b \/ (t = "usage_sync_cursors" /\ c \in {"parser_state"})
  <2>1. d = b \cup Table("usage_sync_cursors", {"parser_state"})
    BY <1>2
  <2>2. Pairs(b)
    BY <1>5
  <2>3. PICK k : k = {"parser_state"}
    OBVIOUS
  <2>4. d = b \cup Table("usage_sync_cursors", k)
    BY <2>1, <2>3
  <2>5. Pairs(d) /\ \A t, c : <<t, c>> \in d <=>
          <<t, c>> \in b \/ (t = "usage_sync_cursors" /\ c \in k)
    BY <2>2, <2>4, TableAdded
  <2>. QED BY <2>3, <2>5
<1>7. Pairs(e) /\ \A t, c : <<t, c>> \in e <=>
        <<t, c>> \in d \/ (t = "usage_quota_readings" /\ c \in {"account", "session_provider", "client_share"})
  <2>1. e = d \cup Table("usage_quota_readings", {"account", "session_provider", "client_share"})
    BY <1>2
  <2>2. Pairs(d)
    BY <1>6
  <2>. QED BY <2>1, <2>2, TableAdded
<1>8. Pairs(Created) /\ \A t, c : <<t, c>> \in Created <=>
        <<t, c>> \in e \/ (t = "settings" /\ c \in {"proxy_enabled", "upstream_proxy"})
  BY <1>3, <1>7, SettingsAdded
<1>9. ASSUME NEW t, NEW c
      PROVE  <<t, c>> \in Created <=>
               \/ t \in tables /\ c = "base"
               \/ t = "providers" /\ c \in columns
               \/ t = "usage_sync_cursors" /\ c = "parser_state"
               \/ t = "usage_quota_readings" /\ c \in {"account", "session_provider", "client_share"}
               \/ t = "settings" /\ c \in {"proxy_enabled", "upstream_proxy"}
  BY <1>4, <1>5, <1>6, <1>7, <1>8
<1>. QED BY <1>1, <1>8, <1>9

LEMMA ForerunnerIsCreated == SchemaOf[Latest - 1] = Created
<1>1. PICK s7, s8, s9, s10, s11, s12, s13, s14 :
        /\ s7 = SchemaOf[7] /\ s8 = Migrated(s7, 7) /\ s9 = Migrated(s8, 8) /\ s10 = Migrated(s9, 9)
        /\ s11 = Migrated(s10, 10) /\ s12 = Migrated(s11, 11) /\ s13 = Migrated(s12, 12)
        /\ s14 = Migrated(s13, 13) /\ s14 = SchemaOf[14]
  BY SchemaChainOn
<1>2. PICK a, b : /\ a = s7 \cup Table("providers", {"network_proxy"})
                  /\ b = s11 \cup Table("usage_sync_cursors", {"parser_state"})
  OBVIOUS
<1>3. /\ s8 = a \cup Settings({"upstream_proxy"})
      /\ s9 = s8 \cup Bases(UsageTables)
      /\ s10 = s9 \cup Table("providers", {"codex_tuning"})
      /\ s11 = s10 \cup Bases(RollupTables)
  BY <1>1, <1>2, MigrationsAre
<1>4. /\ s12 = b \cup Bases({"usage_quota_readings"})
      /\ s13 = s12 \cup Table("usage_quota_readings", {"account", "session_provider"})
      /\ s14 = s13 \cup Table("usage_quota_readings", {"client_share"})
  BY <1>1, <1>2, MigrationsAre
<1>5. Pairs(s7)
  BY <1>1, SchemaOfSeven
<1>6. Pairs(a) /\ \A t, c : <<t, c>> \in a <=> <<t, c>> \in s7 \/ (t = "providers" /\ c \in {"network_proxy"})
  <2>1. a = s7 \cup Table("providers", {"network_proxy"})
    BY <1>2
  <2>2. Pairs(s7)
    BY <1>5
  <2>3. PICK k : k = {"network_proxy"}
    OBVIOUS
  <2>4. a = s7 \cup Table("providers", k)
    BY <2>1, <2>3
  <2>5. Pairs(a) /\ \A t, c : <<t, c>> \in a <=> <<t, c>> \in s7 \/ (t = "providers" /\ c \in k)
    BY <2>2, <2>4, TableAdded
  <2>. QED BY <2>3, <2>5
<1>7. Pairs(s8) /\ \A t, c : <<t, c>> \in s8 <=> <<t, c>> \in a \/ (t = "settings" /\ c \in {"upstream_proxy"})
  BY <1>3, <1>6, SettingsAdded
<1>8. Pairs(s9) /\ \A t, c : <<t, c>> \in s9 <=> <<t, c>> \in s8 \/ (t \in UsageTables /\ c = "base")
  BY <1>3, <1>7, BasesAdded
<1>9. Pairs(s10) /\ \A t, c : <<t, c>> \in s10 <=> <<t, c>> \in s9 \/ (t = "providers" /\ c \in {"codex_tuning"})
  BY <1>3, <1>8, TableAdded
<1>10. Pairs(s11) /\ \A t, c : <<t, c>> \in s11 <=> <<t, c>> \in s10 \/ (t \in RollupTables /\ c = "base")
  BY <1>3, <1>9, BasesAdded
<1>11. Pairs(b) /\ \A t, c : <<t, c>> \in b <=>
         <<t, c>> \in s11 \/ (t = "usage_sync_cursors" /\ c \in {"parser_state"})
  BY <1>2, <1>10, TableAdded
<1>12. Pairs(s12) /\ \A t, c : <<t, c>> \in s12 <=>
         <<t, c>> \in b \/ (t \in {"usage_quota_readings"} /\ c = "base")
  <2>1. s12 = b \cup Bases({"usage_quota_readings"})
    BY <1>4
  <2>2. Pairs(b)
    BY <1>11
  <2>3. PICK k : k = {"usage_quota_readings"}
    OBVIOUS
  <2>4. s12 = b \cup Bases(k)
    BY <2>1, <2>3
  <2>5. Pairs(s12) /\ \A t, c : <<t, c>> \in s12 <=>
           <<t, c>> \in b \/ (t \in k /\ c = "base")
    BY <2>2, <2>4, BasesAdded
  <2>. QED BY <2>3, <2>5
<1>13. Pairs(s13) /\ \A t, c : <<t, c>> \in s13 <=>
         <<t, c>> \in s12 \/ (t = "usage_quota_readings" /\ c \in {"account", "session_provider"})
  BY <1>4, <1>12, TableAdded
<1>14. Pairs(s14) /\ \A t, c : <<t, c>> \in s14 <=>
         <<t, c>> \in s13 \/ (t = "usage_quota_readings" /\ c \in {"client_share"})
  BY <1>4, <1>13, TableAdded
<1>15. ASSUME NEW t, NEW c PROVE <<t, c>> \in s14 <=> <<t, c>> \in Created
  <2>1. <<t, c>> \in s9 <=>
          \/ <<t, c>> \in s7
          \/ t = "providers" /\ c = "network_proxy"
          \/ t = "settings" /\ c = "upstream_proxy"
          \/ t \in UsageTables /\ c = "base"
    BY <1>6, <1>7, <1>8
  <2>2. <<t, c>> \in s11 <=>
          \/ <<t, c>> \in s9
          \/ t = "providers" /\ c = "codex_tuning"
          \/ t \in RollupTables /\ c = "base"
    BY <1>9, <1>10
  <2>3. <<t, c>> \in s14 <=>
          \/ <<t, c>> \in s11
          \/ t = "usage_sync_cursors" /\ c = "parser_state"
          \/ t = "usage_quota_readings" /\ c = "base"
          \/ t = "usage_quota_readings" /\ c \in {"account", "session_provider", "client_share"}
    BY <1>11, <1>12, <1>13, <1>14
  <2>4. <<t, c>> \in s7 <=>
          \/ t \in FirstTables \cup {"protected_values", "codex_image_state"} /\ c = "base"
          \/ t = "settings" /\ c = "proxy_enabled"
          \/ t = "providers" /\ c \in {"description", "model", "official", "claude_model_mapping",
                                       "codex_config_name", "unique(client,scope,name)"} \cup ImageColumns
    BY <1>1, SchemaOfSeven
  <2>5. <<t, c>> \in s14 <=>
          \/ t \in FirstTables \cup UsageTables \cup RollupTables
                  \cup {"codex_image_state", "protected_values", "usage_quota_readings"} /\ c = "base"
          \/ t = "providers" /\ c \in {"description", "model", "official", "claude_model_mapping",
                                       "codex_config_name", "network_proxy", "codex_tuning",
                                       "unique(client,scope,name)"} \cup ImageColumns
          \/ t = "usage_sync_cursors" /\ c = "parser_state"
          \/ t = "usage_quota_readings" /\ c \in {"account", "session_provider", "client_share"}
          \/ t = "settings" /\ c \in {"proxy_enabled", "upstream_proxy"}
    BY <2>1, <2>2, <2>3, <2>4
  <2>. QED BY <2>5, CreatedHas
<1>16. SchemaOf[14] = Created
  BY <1>1, <1>14, <1>15, CreatedHas, PairsAreEqual
<1>. QED BY <1>16 DEF Latest

(* What the migration of an old database leaves.                           *)
LEMMA MigrationKeepsFit ==
  ASSUME NEW v \in 1 .. (Latest - 1)
  PROVE  v + 1 \in AnyVersion /\ Migrated(SchemaOf[v], v) = SchemaOf[v + 1]
<1>1. v \in 1 .. Latest /\ v + 1 \in 1 .. Latest /\ v + 1 \in AnyVersion
  BY DEF Latest, AnyVersion, NoFile
<1>. QED BY <1>1, SchemasStep

LEMMA SchemasUpToNew ==
  /\ SchemaOf[NoFile] = {} /\ SchemaOf[0] = {}
  /\ SchemaOf[Latest] = Migrated(Created, Latest - 1)
<1>1. NoFile \in AnyVersion /\ 0 \in AnyVersion /\ NoFile <= 0
  BY DEF AnyVersion, NoFile, Latest
<1>2. SchemaOf[NoFile] = {} /\ SchemaOf[0] = {}
  <2>1. ASSUME NEW v \in AnyVersion, v <= 0 PROVE SchemaOf[v] = {}
    BY <2>1, SchemasAre
  <2>. QED BY <1>1, <2>1
<1>3. Latest - 1 \in 1 .. Latest /\ Latest \in 1 .. Latest /\ Latest = (Latest - 1) + 1
  BY DEF Latest
<1>4. SchemaOf[Latest] = Migrated(SchemaOf[Latest - 1], Latest - 1)
  BY <1>3, SchemasStep
<1>. QED BY <1>2, <1>4, ForerunnerIsCreated

(* The oldest copy is not the one just made, when there are more.          *)
LEMMA OldestIsOther ==
  ASSUME CopiesFit, Cardinality(DOMAIN backups) > Kept
  PROVE  Min(DOMAIN backups) # second
<1>1. IsFiniteSet(DOMAIN backups) /\ DOMAIN backups \subseteq Nat /\ second \in Nat
  BY DEF CopiesFit
<1>2. \E s \in DOMAIN backups : s # second
  <2>1. SUFFICES ASSUME DOMAIN backups \subseteq {second} PROVE FALSE
    OBVIOUS
  <2>2. IsFiniteSet({second}) /\ Cardinality({second}) = 1
    BY FS_Singleton
  <2>3. Cardinality(DOMAIN backups) <= 1
    BY <2>1, <2>2, FS_Subset
  <2>4. Cardinality(DOMAIN backups) \in Nat
    BY <1>1, FS_CardinalityType
  <2>. QED BY <2>3, <2>4 DEF Kept
<1>3. PICK other \in DOMAIN backups : other # second
  BY <1>2
<1>4. PICK least \in DOMAIN backups : \A y \in DOMAIN backups : least <= y
  BY <1>1, <1>3, LeastOfAll
<1>5. Min(DOMAIN backups) \in DOMAIN backups /\ \A y \in DOMAIN backups : Min(DOMAIN backups) <= y
  <2>1. Min(DOMAIN backups) = CHOOSE x \in DOMAIN backups : \A y \in DOMAIN backups : x <= y
    BY DEF Min
  <2>. QED BY <1>4, <2>1
<1>6. other \in Nat /\ other <= second
  BY <1>3 DEF CopiesFit
<1>7. Min(DOMAIN backups) <= other
  BY <1>5, <1>3
<1>8. Min(DOMAIN backups) \in Nat
  BY <1>1, <1>5
<1>. QED BY <1>1, <1>3, <1>6, <1>7, <1>8

LEMMA SchemaStarts == SchemaInit => SchemaInv
<1> SUFFICES ASSUME SchemaInit PROVE SchemaInv
  OBVIOUS
<1>1. PICK v \in Found : base = [version |-> v, columns |-> SchemaOf[v]]
  BY DEF SchemaInit
<1>2. v \in AnyVersion
  BY SchemaConstants
<1>3. ColumnsFit
  BY <1>1, <1>2 DEF ColumnsFit
<1>4. OpeningFits
  BY DEF SchemaInit, NotOpen, OpeningFits, NoFile
<1>5. CopiesFit
  <2>1. backups = <<>> /\ second = 1
    BY DEF SchemaInit
  <2>2. DOMAIN backups = {}
    BY <2>1
  <2>3. IsFiniteSet(DOMAIN backups)
    BY <2>2, FS_EmptySet
  <2>. QED BY <2>1, <2>2, <2>3 DEF CopiesFit
<1>. QED BY <1>3, <1>4, <1>5 DEF SchemaInv

LEMMA OpenFits ==
  ASSUME SchemaInv, Open
  PROVE  SchemaInv'
<1>1. ColumnsFit'
  BY DEF SchemaInv, Open, ColumnsFit
<1>2. second' \in Nat /\ second <= second'
  BY DEF SchemaInv, CopiesFit, Open, Passes
<1>3. CopiesFit'
  BY <1>2 DEF SchemaInv, CopiesFit, Open
<1>4. PICK at : opening' = [found |-> base.version, at |-> at]
               /\ at = CASE base.version > Latest -> "refused" [] base.version \in 0..(Latest - 1) -> "backup"
                         [] OTHER -> "migrate"
  BY DEF Open
<1>5. opening'.at = at /\ opening'.found = base.version /\ opening' = [at |-> opening'.at, found |-> opening'.found]
  BY <1>4
<1>6. base' = base /\ base.version \in -1 .. 16
  BY DEF Open, SchemaInv, ColumnsFit, AnyVersion, NoFile, Latest
<1>7. CASE base.version = 16
  <2>1. at = "refused"
    BY <1>4, <1>7 DEF Latest
  <2>. QED BY <1>1, <1>3, <1>5, <1>6, <1>7, <2>1 DEF SchemaInv, OpeningFits
<1>8. CASE base.version \in 0 .. 14
  <2>1. ~(base.version > Latest) /\ base.version \in 0 .. (Latest - 1) /\ base.version <= Latest
    BY <1>8 DEF Latest
  <2>2. at = "backup"
    BY <1>4, <2>1
  <2>. QED BY <1>1, <1>3, <1>5, <1>6, <2>1, <2>2 DEF SchemaInv, OpeningFits
<1>9. CASE base.version \in {-1, 15}
  <2>1. ~(base.version > Latest) /\ base.version \notin 0 .. (Latest - 1) /\ base.version <= Latest
        /\ base.version \notin 1 .. (Latest - 1)
    BY <1>9 DEF Latest
  <2>2. at = "migrate"
    BY <1>4, <2>1
  <2>. QED BY <1>1, <1>3, <1>5, <1>6, <2>1, <2>2 DEF SchemaInv, OpeningFits
<1>. QED BY <1>6, <1>7, <1>8, <1>9

LEMMA NamedFits ==
  ASSUME SchemaInv, NEW version, backups' = Named(version), second' = second, base' = base
  PROVE  /\ CopiesFit' /\ ColumnsFit'
         /\ second \in DOMAIN backups' /\ backups'[second] = version
<1>1. DOMAIN backups' = DOMAIN backups \cup {second} /\ backups'[second] = version
  BY DEF Named
<1>2. IsFiniteSet(DOMAIN backups')
  BY <1>1, FS_AddElement DEF SchemaInv, CopiesFit
<1>3. CopiesFit'
  BY <1>1, <1>2 DEF SchemaInv, CopiesFit
<1>. QED BY <1>1, <1>3 DEF SchemaInv, ColumnsFit

LEMMA BackupFits ==
  ASSUME SchemaInv, Backup
  PROVE  SchemaInv'
<1>1. CopiesFit' /\ ColumnsFit'
  BY NamedFits DEF Backup
<1>2. opening' = [opening EXCEPT !.at = "copy"] /\ opening.at = "backup" /\ base' = base
  BY DEF Backup, Goes
<1>3. opening' = [at |-> opening'.at, found |-> opening'.found] /\ opening'.at = "copy"
      /\ opening'.found = opening.found
  BY <1>2 DEF SchemaInv, OpeningFits
<1>. QED BY <1>1, <1>2, <1>3 DEF SchemaInv, OpeningFits

LEMMA CopiedFits ==
  ASSUME SchemaInv, Copied
  PROVE  SchemaInv'
<1>1. CopiesFit' /\ ColumnsFit' /\ second \in DOMAIN backups' /\ backups'[second] = base.version
  BY NamedFits DEF Copied
<1>2. opening' = [opening EXCEPT !.at = "prune"] /\ opening.at = "copy" /\ base' = base /\ second' = second
  BY DEF Copied, Goes
<1>3. opening' = [at |-> opening'.at, found |-> opening'.found] /\ opening'.at = "prune"
      /\ opening'.found = opening.found
  BY <1>2 DEF SchemaInv, OpeningFits
<1>. QED BY <1>1, <1>2, <1>3 DEF SchemaInv, OpeningFits

LEMMA PruneFits ==
  ASSUME SchemaInv, Prune
  PROVE  SchemaInv'
<1>1. opening.at = "prune" /\ base' = base /\ second' = second
  BY DEF Prune
<1>2. ColumnsFit'
  BY <1>1 DEF SchemaInv, ColumnsFit
<1>3. CASE Cardinality(DOMAIN backups) > Kept
  <2>1. backups' = [s \in DOMAIN backups \ {Min(DOMAIN backups)} |-> backups[s]] /\ opening' = opening
    BY <1>3 DEF Prune
  <2>2. Min(DOMAIN backups) # second
    BY <1>3, OldestIsOther DEF SchemaInv
  <2>3. DOMAIN backups' \subseteq DOMAIN backups
    BY <2>1
  <2>4. IsFiniteSet(DOMAIN backups')
    BY <2>3, FS_Subset DEF SchemaInv, CopiesFit
  <2>5. CopiesFit'
    BY <1>1, <2>3, <2>4 DEF SchemaInv, CopiesFit
  <2>6. second \in DOMAIN backups => second \in DOMAIN backups' /\ backups'[second] = backups[second]
    BY <2>1, <2>2
  <2>7. OpeningFits'
    BY <1>1, <2>1, <2>6 DEF SchemaInv, OpeningFits
  <2>. QED BY <1>2, <2>5, <2>7 DEF SchemaInv
<1>4. CASE ~(Cardinality(DOMAIN backups) > Kept)
  <2>1. opening' = [opening EXCEPT !.at = "migrate"] /\ backups' = backups
    BY <1>4 DEF Prune, Goes
  <2>2. opening' = [at |-> opening'.at, found |-> opening'.found] /\ opening'.at = "migrate"
        /\ opening'.found = opening.found
    BY <2>1 DEF SchemaInv, OpeningFits
  <2>3. CopiesFit'
    BY <1>1, <2>1 DEF SchemaInv, CopiesFit
  <2>4. base.version = opening.found /\ base.version <= Latest /\ opening.found <= Latest
    BY <1>1 DEF SchemaInv, OpeningFits
  <2>5. OpeningFits'
    BY <1>1, <2>1, <2>2, <2>4 DEF SchemaInv, OpeningFits
  <2>. QED BY <1>2, <2>3, <2>5 DEF SchemaInv
<1>. QED BY <1>3, <1>4

(* One transaction of a migration leaves the columns of its version.       *)
LEMMA MigrateGivesItsVersion ==
  ASSUME SchemaInv, Migrate, base.version < Latest
  PROVE  /\ ColumnsFit' /\ opening' = opening
         /\ base'.version > base.version /\ base'.version <= Latest
<1>1. base.version \in -1 .. 14 /\ opening.at = "migrate"
  BY DEF SchemaInv, ColumnsFit, AnyVersion, NoFile, Latest, Migrate
<1>2. base = [version |-> base.version, columns |-> base.columns] /\ base.columns = SchemaOf[base.version]
  BY DEF SchemaInv, ColumnsFit
<1>3. CASE base.version = -1
  <2>1. base' = [base EXCEPT !.version = 0] /\ opening' = opening
    BY <1>3 DEF Migrate, NoFile, Latest
  <2>2. base'.version = 0 /\ base'.columns = base.columns /\ base' = [version |-> base'.version, columns |-> base'.columns]
    BY <1>2, <2>1
  <2>3. base.columns = {}
    BY <1>2, <1>3, SchemasUpToNew DEF NoFile
  <2>4. base'.columns = SchemaOf[base'.version]
    BY <2>2, <2>3, SchemasUpToNew
  <2>5. base'.version \in AnyVersion
    BY <2>2 DEF AnyVersion, NoFile, Latest
  <2>. QED BY <1>3, <2>1, <2>2, <2>4, <2>5 DEF ColumnsFit, Latest
<1>4. CASE base.version = 0
  <2>1. base' = [version |-> Latest - 1, columns |-> Created] /\ opening' = opening
    BY <1>4 DEF Migrate, NoFile, Latest
  <2>2. base'.version = Latest - 1 /\ base'.columns = Created
        /\ base' = [version |-> base'.version, columns |-> base'.columns]
    BY <2>1
  <2>3. base'.columns = SchemaOf[base'.version]
    BY <2>2, ForerunnerIsCreated
  <2>4. base'.version \in AnyVersion
    BY <2>2 DEF AnyVersion, NoFile, Latest
  <2>. QED BY <1>4, <2>1, <2>2, <2>3, <2>4 DEF ColumnsFit, Latest
<1>5. CASE base.version \in 1 .. 14
  <2>1. ~(base.version >= Latest) /\ base.version # NoFile /\ base.version # 0 /\ base.version \in 1 .. (Latest - 1)
    BY <1>5 DEF NoFile, Latest
  <2>2. base' = [version |-> base.version + 1, columns |-> Migrated(base.columns, base.version)] /\ opening' = opening
    BY <2>1 DEF Migrate
  <2>3. base'.version = base.version + 1 /\ base'.columns = Migrated(base.columns, base.version)
        /\ base' = [version |-> base'.version, columns |-> base'.columns]
    BY <2>2
  <2>4. base.version + 1 \in AnyVersion /\ Migrated(SchemaOf[base.version], base.version) = SchemaOf[base.version + 1]
    BY <2>1, MigrationKeepsFit
  <2>5. base'.columns = SchemaOf[base'.version] /\ base'.version \in AnyVersion
    BY <1>2, <2>3, <2>4
  <2>6. base'.version > base.version /\ base'.version <= Latest
    BY <1>5, <2>3 DEF Latest
  <2>. QED BY <2>2, <2>3, <2>5, <2>6 DEF ColumnsFit
<1>. QED BY <1>1, <1>3, <1>4, <1>5

LEMMA MigrateFits ==
  ASSUME SchemaInv, Migrate
  PROVE  SchemaInv'
<1>1. backups' = backups /\ second' = second /\ opening.at = "migrate"
  BY DEF Migrate
<1>2. CopiesFit'
  BY <1>1 DEF SchemaInv, CopiesFit
<1>3. base.version \in -1 .. 16 /\ base.version <= Latest /\ opening.found <= Latest
  BY <1>1 DEF SchemaInv, ColumnsFit, OpeningFits, AnyVersion, NoFile, Latest
<1>4. CASE base.version = Latest
  <2>1. base.version >= Latest /\ base.version # NoFile /\ base.version # 0
    BY <1>3, <1>4 DEF NoFile, Latest
  <2>2. opening' = [opening EXCEPT !.at = "open"] /\ base' = base
    BY <2>1 DEF Migrate, Goes
  <2>3. opening' = [at |-> opening'.at, found |-> opening'.found] /\ opening'.at = "open"
        /\ opening'.found = opening.found
    BY <2>2 DEF SchemaInv, OpeningFits
  <2>4. ColumnsFit'
    BY <2>2 DEF SchemaInv, ColumnsFit
  <2>5. OpeningFits'
    BY <1>1, <1>3, <1>4, <2>2, <2>3 DEF SchemaInv, OpeningFits
  <2>. QED BY <1>2, <2>4, <2>5 DEF SchemaInv
<1>5. CASE base.version < Latest
  <2>1. ColumnsFit' /\ opening' = opening /\ base'.version > base.version /\ base'.version <= Latest
    BY <1>5, MigrateGivesItsVersion
  <2>2. opening.found # Latest
    BY <1>1, <1>3, <1>5 DEF SchemaInv, OpeningFits, Latest
  <2>3. OpeningFits'
    BY <1>1, <1>3, <2>1, <2>2 DEF SchemaInv, OpeningFits
  <2>. QED BY <1>2, <2>1, <2>3 DEF SchemaInv
<1>. QED BY <1>3, <1>4, <1>5 DEF Latest

LEMMA KilledFits ==
  ASSUME SchemaInv, Killed
  PROVE  SchemaInv'
<1>1. base' = base /\ backups' = backups /\ second' = second /\ opening' = NotOpen
  BY DEF Killed
<1>2. ColumnsFit' /\ CopiesFit'
  BY <1>1 DEF SchemaInv, ColumnsFit, CopiesFit
<1>3. OpeningFits'
  BY <1>1 DEF OpeningFits, NotOpen, NoFile
<1>. QED BY <1>2, <1>3 DEF SchemaInv

LEMMA SchemaSteps ==
  ASSUME SchemaInv, SchemaNext \/ UNCHANGED schemaVars
  PROVE  SchemaInv'
<1>1. CASE UNCHANGED schemaVars
  BY <1>1 DEF schemaVars, SchemaInv, ColumnsFit, OpeningFits, CopiesFit
<1>. QED BY <1>1, OpenFits, BackupFits, CopiedFits, PruneFits, MigrateFits, KilledFits DEF SchemaNext

LEMMA WhatIsOpenedIsCurrent ==
  ASSUME SchemaInv
  PROVE  OpenedIsCurrent /\ ChangedHasACopy
<1>1. OpenedIsCurrent
  BY SchemasUpToNew DEF SchemaInv, ColumnsFit, OpeningFits, OpenedIsCurrent
<1>2. ASSUME opening.found \in 1 .. Latest, base.version # opening.found
      PROVE  \E s \in DOMAIN backups : backups[s] = opening.found
  <2>1. opening.at \notin {"closed", "refused", "backup", "copy", "prune"}
    BY <1>2 DEF SchemaInv, OpeningFits, NoFile, Latest
  <2>2. opening.at \in {"migrate", "open"}
    BY <2>1 DEF SchemaInv, OpeningFits
  <2>3. opening.found # Latest
    BY <1>2, <2>2 DEF SchemaInv, OpeningFits
  <2>4. opening.found \in 1 .. (Latest - 1)
    BY <1>2, <2>3 DEF Latest
  <2>5. second \in DOMAIN backups /\ backups[second] = opening.found
    BY <2>2, <2>4 DEF SchemaInv, OpeningFits
  <2>. QED BY <2>5
<1>. QED BY <1>1, <1>2 DEF ChangedHasACopy

-----------------------------------------------------------------------------
(* What a page shows agrees with itself and with the daemon: the statistics  *)
(* belong to what was asked for last, the settings that are sent are valid   *)
(* for the client they are for, the cursor is on a row (state.rs 941-965,    *)
(* 3404-3441; settings.rs, stats.rs of the terminal client).                 *)
THEOREM PagesStayTrue == ClientSpec => []PagesAgree
<1>1. ASSUME InitOf(Machines \cup DOMAIN Calls)
      PROVE  SettingsInv /\ StatsInv /\ HomeInv
  BY <1>1, EachStarts, SettingsStart, StatsStart, HomeStart
<1>2. ASSUME SettingsInv, StatsInv, HomeInv, [Next]_vars
      PROVE  SettingsInv' /\ StatsInv' /\ HomeInv'
  BY <1>2, EachActs, SettingsStep, StatsStep, HomeStep
<1>3. SettingsInv /\ StatsInv /\ HomeInv => PagesAgree
  BY SettingsMean, StatsMean, HomeMeans DEF PagesAgree
<1>. QED BY <1>1, <1>2, <1>3, PTL DEF ClientSpec

(* No key does more than it says: a second key deletes the preset the first  *)
(* one armed, an edit of a provider overwrites only what the user has seen,  *)
(* and a form that is open stays somewhere until it is stored, as long as    *)
(* the user waits for the answers (app.rs and state.rs of the client).       *)
THEOREM KeysStayMeant == ClientSpec => KeysAreMeant
<1>1. ASSUME InitOf(Machines \cup DOMAIN Calls)
      PROVE  SettingsInv /\ HomeInv /\ PatientInv
  BY <1>1, EachStarts, SettingsStart, HomeStart, ScreenStart
<1>2. ASSUME SettingsInv, HomeInv, PatientInv, [Next]_vars
      PROVE  SettingsInv' /\ HomeInv' /\ PatientInv'
  BY <1>2, EachActs, SettingsStep, HomeStep, ScreenStep
<1>3. ASSUME SettingsInv, [Next]_vars, At("presets"), current.at' = "presets", current.armed # 0,
             Len(requests') > Len(requests)
      PROVE  shown.presets[current.kind] \ requests'[Len(requests')].to.presets[current.kind]
               = {current.armed}
  <2>1. PICK kind, token : kind = current.kind /\ token = current.armed
    OBVIOUS
  <2>2. shown.presets[kind] \ requests'[Len(requests')].to.presets[kind] = {token}
    BY <1>3, <2>1, EachActs, DeletionsAreArmed
  <2>. QED BY <2>1, <2>2
<1>4. ASSUME HomeInv, [Next]_vars, NEW id \in DOMAIN store.list, sent # <<>>, sent' = Tail(sent),
             id \notin DOMAIN store'.list \/ store'.list[id] # store.list[id]
      PROVE  Head(sent).id = id /\ Head(sent).seen = store.list[id]
  <2>1. PICK r : r = Head(sent)
    OBVIOUS
  <2>2. r.id = id /\ r.seen = store.list[id]
    BY <1>4, <2>1, EachActs, ChangesWereSeen
  <2>. QED BY <2>1, <2>2
<1>5. ASSUME PatientInv, [Next]_vars
      PROVE  \A form \in Forms : Opened(form) /\ ~hurried' /\ ~quit' => Opened(form)'
  BY <1>5, EachActs, ScreenStep DEF FormsStay
<1>6. ASSUME SettingsInv, [Next]_vars
      PROVE  [ (/\ At("presets") /\ current.at' = "presets" /\ current.armed # 0
                /\ Len(requests') > Len(requests))
               => shown.presets[current.kind] \ requests'[Len(requests')].to.presets[current.kind]
                    = {current.armed} ]_settingsVars
  BY <1>3, <1>6
<1>7. ASSUME HomeInv, [Next]_vars
      PROVE  [ \A id \in DOMAIN store.list :
                 (/\ sent # <<>> /\ sent' = Tail(sent)
                  /\ id \notin DOMAIN store'.list \/ store'.list[id] # store.list[id])
                 => Head(sent).id = id /\ Head(sent).seen = store.list[id] ]_homeVars
  BY <1>4, <1>7
<1>. QED
  BY <1>1, <1>2, <1>5, <1>6, <1>7, PTL
     DEF ClientSpec, KeysAreMeant, DeletesWhatWasArmed, NothingUnseenIsOverwritten, FormIsKept

(* What hsind wrote into settings.json of Claude Code is never taken for the *)
(* user's: no snapshot holds it, and while no write is under way a variable  *)
(* holds it only if the active mapping says so, whatever was interrupted,    *)
(* refused or edited meanwhile (app.rs claude_model_env_snapshot, config.rs  *)
(* patch_claude_model_mapping).                                              *)
THEOREM ModelsStayHsins == ClientSpec => []HsinIsNotTheUser
<1>1. ASSUME InitOf(Machines \cup DOMAIN Calls) PROVE MapInv
  BY <1>1, EachStarts, MapStart
<1>2. ASSUME MapInv, [Next]_vars PROVE MapInv'
  BY <1>2, EachActs, MapStep
<1>3. ASSUME MapInv PROVE HsinIsNotTheUser
  <2>1. kept # NoSnapshot => \A k \in Keys : kept.values[k] \notin Written
    BY <1>3 DEF MapInv, MapTypes, OnlyUsers
  <2>2. work.pc = "idle" => WrittenFor(mapping, names)
    BY <1>3 DEF MapInv, JobIsTrue
  <2>. QED BY <2>1, <2>2 DEF HsinIsNotTheUser, WrittenFor
<1>. QED BY <1>1, <1>2, <1>3, PTL DEF ClientSpec

(* However installing and upgrading are interrupted, a registered service    *)
(* can start, a command that ends well with no other beside it did what it   *)
(* was asked for, an opened database has the columns of a new one, and one   *)
(* that was changed has a copy of what it was (service.rs, bootstrap.rs and  *)
(* db.rs migrate, backup_before_migration, prune_backups).                   *)
THEOREM DeploymentStaysWhole == ClientSpec => DeploymentIsWhole
<1>1. ASSUME InitOf(Machines \cup DOMAIN Calls)
      PROVE  ServiceInv /\ SchemaInv
  BY <1>1, EachStarts, ServiceStarts, SchemaStarts
<1>2. ASSUME ServiceInv, SchemaInv, [Next]_vars
      PROVE  ServiceInv' /\ SchemaInv'
  <2>1. [ServiceNext]_serviceVars /\ (SchemaNext \/ UNCHANGED schemaVars)
    BY <1>2, EachActs
  <2>. QED BY <1>2, <2>1, ServiceStep, SchemaSteps
<1>3. ASSUME ServiceInv, SchemaInv
      PROVE  DefinitionIsRunnable /\ OpenedIsCurrent /\ ChangedHasACopy
  BY <1>3, WhatIsOpenedIsCurrent DEF ServiceInv
<1>4. ASSUME ServiceInv, [Next]_vars, NEW c \in Callers,
             calls[c].pc # "done" /\ calls'[c].pc = "done" /\ calls'[c].alone
      PROVE  CASE calls[c].op = "uninstall" -> definition' = Missing /\ bin' = Missing /\ ~DaemonHolds'
               [] calls[c].op \in {"install", "import"} -> definition' # Missing /\ bin' = Release[c]
               [] calls[c].op = "stop" -> ~DaemonHolds'
               [] OTHER -> Serves' /\ Compatible(c)'
  <2>1. Delivered(c)
    BY <1>4, EachActs, CommandsEndWell
  <2>. QED BY <2>1 DEF Delivered
<1>5. ASSUME ServiceInv, [Next]_vars
      PROVE  [ \A c \in Callers : calls[c].pc # "done" /\ calls'[c].pc = "done" /\ calls'[c].alone =>
                 CASE calls[c].op = "uninstall" -> definition' = Missing /\ bin' = Missing /\ ~DaemonHolds'
                   [] calls[c].op \in {"install", "import"} -> definition' # Missing /\ bin' = Release[c]
                   [] calls[c].op = "stop" -> ~DaemonHolds'
                   [] OTHER -> Serves' /\ Compatible(c)' ]_serviceVars
  BY <1>4, <1>5
<1>. QED BY <1>1, <1>2, <1>3, <1>5, PTL DEF ClientSpec, DeploymentIsWhole, CommandsDeliver
=============================================================================
