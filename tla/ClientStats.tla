---------------------------- MODULE ClientStats ----------------------------
(* The statistics screen of the terminal client.  Every change of client,    *)
(* range or filter asks the daemon for a new report, the answers come back in*)
(* the order of the questions, and an answer does not say which question the *)
(* screen still asks.  Dates are days 1..Today; scrolling, the chart under   *)
(* the pointer and the layout are left out.                                  *)
EXTENDS Integers, Sequences, FiniteSets

CONSTANTS
  StatsClients,   \* the visible clients, in order
  StatsProviders, \* providers a report can be filtered by
  StatsModels,    \* models a report can be filtered by
  StatsPlans,     \* plans whose quota a report can carry
  Today,          \* the day of the last row of the heatmap
  ChipDays,       \* lengths of the quick ranges besides "all"
  StatsKeys,      \* bound on the keys
  StatsFailures   \* bound on the queries that fail

ASSUME StatsConstants ==
  /\ ChipDays \subseteq 1..Today
  /\ {Today, StatsKeys, StatsFailures} \subseteq Nat

VARIABLES
  client,    \* State::client
  screen,    \* StatsScreen, or Closed
  asked,     \* questions sent and not answered, oldest first
  style,     \* State::stats_chart_style
  savedStyle,\* the daemon's
  wrongRange,\* the shown dates were edited and the edit was abandoned
  refused,   \* kinds of question whose last answer was a failure
  statsKeys, failures

statsVars ==
  <<client, screen, asked, style, savedStyle, wrongRange, refused, statsKeys, failures>>

All == "all"
AllTime == 0         \* a quick range is a number of days
Custom == Today + 1
NoFilter == "none"
NoReport == [client |-> NoFilter]
NoDetail == [day |-> 0, report |-> NoReport]
Closed == [open |-> FALSE]
Styles == {"bars", "lines"}

(* default_stats_screen. *)
FreshScreen ==
  [open |-> TRUE, page |-> "overview", report |-> NoReport, from |-> 1, to |-> Today,
   all |-> TRUE, provider |-> All, model |-> All, quota |-> "recent",
   filter |-> NoFilter, detail |-> NoDetail]

(* stats_query: a whole-time query ignores the dates of a custom range.    *)
StatsQuery(who, s) ==
  [client |-> who, provider |-> s.provider, model |-> s.model,
   from |-> IF s.all THEN 0 ELSE s.from, to |-> IF s.all THEN Today ELSE s.to]
DayQuery(who, s, day) ==
  StatsQuery(who, [s EXCEPT !.all = FALSE, !.from = day, !.to = day])

(* apply_range: a preset ends today. *)
WithRange(s, range) ==
  IF range = AllTime THEN [s EXCEPT !.all = TRUE]
  ELSE [s EXCEPT !.all = FALSE, !.from = Today - range + 1, !.to = Today]

(* current_time_preset. *)
CurrentRange(s) ==
  IF s.all THEN AllTime
  ELSE IF s.to = Today /\ (Today - s.from + 1) \in ChipDays THEN Today - s.from + 1
  ELSE Custom

StatsInit ==
  /\ client = StatsClients[1]
  /\ screen = Closed
  /\ asked = <<>>
  /\ style = "bars" /\ savedStyle = "bars"
  /\ wrongRange = FALSE /\ refused = {}
  /\ statsKeys = StatsKeys /\ failures = StatsFailures

StatsKey == statsKeys > 0 /\ statsKeys' = statsKeys - 1
Ask(kind, query) == asked' = Append(asked, [kind |-> kind, query |-> query])
Quiet == UNCHANGED asked
QueryRange(value) == wrongRange' = value
KeepStyle == UNCHANGED <<style, savedStyle>>
Rest == UNCHANGED <<refused, failures>>
Plain == screen.open /\ screen.detail = NoDetail /\ screen.filter = NoFilter
Filtering(filter) == screen.open /\ screen.detail = NoDetail /\ screen.filter = filter

(* `s` on the home screen. *)
OpenStats ==
  /\ ~screen.open /\ StatsKey
  /\ screen' = FreshScreen
  /\ Ask("report", StatsQuery(client, FreshScreen))
  /\ QueryRange(FALSE) /\ KeepStyle /\ Rest /\ UNCHANGED client

CloseStats ==
  /\ Plain /\ StatsKey
  /\ screen' = Closed
  /\ Quiet /\ QueryRange(FALSE) /\ KeepStyle /\ Rest /\ UNCHANGED client

TurnPage ==
  /\ Plain /\ StatsKey
  /\ screen' \in {[screen EXCEPT !.page = page] : page \in {"overview", "models"}}
  /\ Quiet /\ KeepStyle /\ Rest /\ UNCHANGED <<client, wrongRange>>

(* Tab and its reverse: the filters belong to the client left behind. *)
NextClient ==
  /\ Plain /\ StatsKey
  /\ \E step \in {1, -1}, i \in DOMAIN StatsClients :
       /\ StatsClients[i] = client
       /\ client' = StatsClients[((i - 1 + step) % Len(StatsClients)) + 1]
  /\ screen' = [screen EXCEPT !.provider = All, !.model = All, !.report = NoReport]
  /\ Ask("report", StatsQuery(client', screen'))
  /\ QueryRange(FALSE) /\ KeepStyle /\ Rest

(* `d` and the range chips: a quick range, from the keyboard or the mouse. *)
CycleRange ==
  /\ Plain /\ StatsKey
  /\ \E range \in (ChipDays \cup {AllTime}) \ {CurrentRange(screen)} :
       screen' = WithRange(screen, range)
  /\ Ask("report", StatsQuery(client, screen'))
  /\ QueryRange(FALSE) /\ KeepStyle /\ Rest /\ UNCHANGED client

Again ==
  /\ Plain /\ StatsKey
  /\ Ask("report", StatsQuery(client, screen))
  /\ QueryRange(FALSE) /\ KeepStyle /\ Rest /\ UNCHANGED <<client, screen>>

(***************************************************************************)
(* The filter popups.                                                      *)
(***************************************************************************)
OpenFilter ==
  /\ Plain /\ StatsKey
  /\ \E filter \in {"time", "provider", "model", "quota"} :
       /\ filter = "quota" => screen.report # NoReport
       /\ screen' = [screen EXCEPT !.filter = filter]
  /\ Quiet /\ KeepStyle /\ Rest /\ UNCHANGED <<client, wrongRange>>

CloseFilter ==
  /\ screen.open /\ screen.detail = NoDetail /\ screen.filter # NoFilter /\ StatsKey
  /\ screen' = [screen EXCEPT !.filter = NoFilter]
  /\ Quiet /\ KeepStyle /\ Rest /\ UNCHANGED <<client, wrongRange>>

(* The dates of a custom range are edited in place: the screen keeps them    *)
(* when the popup is abandoned.                                              *)
EditDates ==
  /\ Filtering("time") /\ StatsKey
  /\ \E day \in 1..Today :
       screen' \in {[screen EXCEPT !.from = day], [screen EXCEPT !.to = day]}
  /\ QueryRange(TRUE)
  /\ Quiet /\ KeepStyle /\ Rest /\ UNCHANGED client

(* apply_time_preset: a custom range must not end before it starts; the flag *)
(* of the whole time is dropped before that is checked.                      *)
PickRange ==
  /\ Filtering("time") /\ StatsKey
  /\ \/ /\ \E range \in ChipDays \cup {AllTime} :
             screen' = [WithRange(screen, range) EXCEPT !.filter = NoFilter]
        /\ Ask("report", StatsQuery(client, screen')) /\ QueryRange(FALSE)
     \/ /\ screen.from <= screen.to
        /\ screen' = [screen EXCEPT !.all = FALSE, !.filter = NoFilter]
        /\ Ask("report", StatsQuery(client, screen')) /\ QueryRange(FALSE)
     \/ /\ screen.from > screen.to
        /\ screen' = [screen EXCEPT !.all = FALSE]
        /\ Quiet /\ QueryRange(TRUE)
  /\ KeepStyle /\ Rest /\ UNCHANGED client

(* A row names a provider of the report that is on the screen when Enter is *)
(* pressed; a row the report no longer has means all of them.               *)
Offered(values) == IF screen.report = NoReport THEN {All} ELSE values \cup {All}

PickFilter ==
  /\ StatsKey
  /\ \/ /\ Filtering("provider")
        /\ \E provider \in Offered(StatsProviders) :
             screen' = [screen EXCEPT !.provider = provider, !.filter = NoFilter]
     \/ /\ Filtering("model")
        /\ \E model \in Offered(StatsModels) :
             screen' = [screen EXCEPT !.model = model, !.filter = NoFilter]
  /\ Ask("report", StatsQuery(client, screen')) /\ QueryRange(FALSE)
  /\ KeepStyle /\ Rest /\ UNCHANGED client

(* The report carries every plan: no question is asked. *)
PickPlan ==
  /\ Filtering("quota") /\ StatsKey
  /\ \E quota \in {"recent", All} \cup StatsPlans :
       screen' = [screen EXCEPT !.quota = quota, !.filter = NoFilter]
  /\ Quiet /\ KeepStyle /\ Rest /\ UNCHANGED <<client, wrongRange>>

(***************************************************************************)
(* The popup of one day of the heatmap.                                    *)
(***************************************************************************)
OpenDay ==
  /\ screen.open /\ screen.filter = NoFilter /\ StatsKey
  /\ \E day \in 1..Today :
       /\ screen' = [screen EXCEPT !.detail = [day |-> day, report |-> NoReport]]
       /\ Ask("day", DayQuery(client, screen, day))
  /\ KeepStyle /\ Rest /\ UNCHANGED <<client, wrongRange>>

CloseDay ==
  /\ screen.open /\ screen.detail # NoDetail /\ StatsKey
  /\ screen' = [screen EXCEPT !.detail = NoDetail]
  /\ Quiet /\ KeepStyle /\ Rest /\ UNCHANGED <<client, wrongRange>>

(* Enter narrows the whole screen to the day on show. *)
NarrowToDay ==
  /\ screen.open /\ screen.detail # NoDetail /\ StatsKey
  /\ screen' = [screen EXCEPT !.from = screen.detail.day, !.to = screen.detail.day,
                              !.all = FALSE, !.detail = NoDetail]
  /\ Ask("report", StatsQuery(client, screen'))
  /\ QueryRange(FALSE) /\ KeepStyle /\ Rest /\ UNCHANGED client

(* `v` turns the chart at once and asks the daemon to remember it. *)
ToggleStyle ==
  /\ screen.open /\ StatsKey
  /\ screen.filter = NoFilter
  /\ screen.page = "models" \/ screen.detail # NoDetail
  /\ style' \in Styles \ {style}
  /\ Ask("style", style')
  /\ Rest /\ UNCHANGED <<client, screen, savedStyle, wrongRange>>

(***************************************************************************)
(* Answers.                                                                *)
(***************************************************************************)
(* Action::UsageLoaded: any report lands on the screen. *)
ReportLoaded(query) ==
  /\ screen' = IF screen.open THEN [screen EXCEPT !.report = query] ELSE screen
  /\ refused' = IF screen.open THEN refused \ {"report"} ELSE refused
  /\ UNCHANGED <<style, savedStyle>>

(* Action::DayUsageLoaded: a report of another day is dropped. *)
DayLoaded(query) ==
  /\ screen' = IF screen.open /\ screen.detail.day = query.from
               THEN [screen EXCEPT !.detail.report = query] ELSE screen
  /\ refused' = refused \ {"day"}
  /\ UNCHANGED <<style, savedStyle>>

(* The settings are loaded again after a change of them. *)
StyleSaved(saved) ==
  /\ savedStyle' = saved /\ style' = saved
  /\ refused' = refused \ {"style"}
  /\ UNCHANGED screen

(* UsageStore::query refuses a range that ends before it starts. *)
Answerable(question) ==
  question.kind # "style" => question.query.from <= question.query.to

StatsAnswer ==
  /\ asked # <<>> /\ Answerable(Head(asked))
  /\ asked' = Tail(asked)
  /\ LET answer == Head(asked) IN
       CASE answer.kind = "report" -> ReportLoaded(answer.query)
         [] answer.kind = "day" -> DayLoaded(answer.query)
         [] answer.kind = "style" -> StyleSaved(answer.query)
  /\ UNCHANGED <<client, wrongRange, statsKeys, failures>>

(* Action::Failed leaves the screen as it is. *)
StatsFail ==
  /\ asked # <<>>
  /\ IF Answerable(Head(asked))
     THEN failures > 0 /\ failures' = failures - 1
     ELSE UNCHANGED failures
  /\ asked' = Tail(asked)
  /\ refused' = refused \cup {Head(asked).kind}
  /\ UNCHANGED <<client, screen, style, savedStyle, wrongRange, statsKeys>>

StatsNext ==
  \/ OpenStats \/ CloseStats \/ TurnPage \/ NextClient \/ CycleRange \/ Again
  \/ OpenFilter \/ CloseFilter \/ EditDates \/ PickRange \/ PickFilter \/ PickPlan
  \/ OpenDay \/ CloseDay \/ NarrowToDay \/ ToggleStyle
  \/ StatsAnswer \/ StatsFail

(***************************************************************************)
(* Properties.                                                             *)
(***************************************************************************)
(* Reports may pass by that belong to an earlier client or filter, but once  *)
(* every question is answered the screen shows the report of the client,     *)
(* range and filters it names, the open day popup shows its own day, and the *)
(* chart has the style the daemon stored, unless that very question failed.  *)
SettledScreenIsTrue ==
  asked = <<>> =>
    /\ "style" \notin refused => style = savedStyle
    /\ screen.open =>
         /\ ("report" \notin refused /\ ~wrongRange) =>
              screen.report = StatsQuery(client, screen)
         /\ ("day" \notin refused /\ screen.detail # NoDetail) =>
              screen.detail.report = DayQuery(client, screen, screen.detail.day)
=============================================================================
