------------------------------- MODULE Usage -------------------------------
(***************************************************************************)
(* How hsind counts what a client spends (usage.rs): session logs are read *)
(* from a saved cursor, proxied answers are observed as they pass, both    *)
(* become events under a deduplication key, and hourly rollups outlive the *)
(* events.  One client and one session log; a request is its tokens.       *)
(***************************************************************************)
EXTENDS Integers, Sequences, FiniteSets, SequencesExt

CONSTANTS Requests,   \* what the client may ask, told apart by its tokens
          Models, Unknown, Nothing,
          First,      \* the one that was logged before hsind started
          ModelOf,    \* the model each one is for
          Proxied,    \* those that pass the local proxy
          MaxLines, MaxTime, MaxFaults, MaxOut,
          DayLength,  \* units of time in a day; one unit is 120 seconds
          Retained,   \* days whose events are kept
          Straddles   \* may one message be logged on two days?

LogPaths == {"sessions", "archived_sessions"}
Tasks == {"start", "sync", "repair", "query"}

ASSUME UsageConstants ==
  /\ {MaxTime, MaxFaults} \subseteq Nat
  /\ MaxLines \in Nat \ {0, 1} /\ MaxOut \in Nat \ {0}
  /\ ModelOf \in [Requests -> Models] /\ First \in Requests /\ Proxied \subseteq Requests
  /\ DayLength \in Nat \ {0} /\ Retained \in Nat \ {0}
  /\ Straddles \in BOOLEAN /\ Unknown \notin Models
  /\ Nothing \notin Requests \cup Tasks

VARIABLES
  client, log,    \* the session log: its path and its lines, the last one unfinished?
  now, faults,
  events, dirty, hourly, cursor, meta,       \* the database (not meta.unread: did the
                                             \* repair leave the log unread?)
  answer,         \* what the proxy observed of each request
  up, lock, pc, reader, days                 \* the daemon: its tasks and the session reader

envVars == <<client, log, now, faults>>
usageDbVars == <<events, dirty, hourly, cursor, meta>>
taskVars == <<up, lock, pc, reader, days>>
usageVars == <<envVars, usageDbVars, answer, taskVars>>

Day(t) == t \div DayLength
Days == 0..Day(MaxTime)
\* The first day whose events are kept.
OldestDay == Day(now) - (Retained - 1)

\* A line: a turn's model (Codex), or what a request has spent; no two are
\* the same, for each carries an identifier.
Line(n, r, m, out) == [id |-> n, req |-> r, model |-> m, out |-> out, at |-> now]
\* Only the lines that end in a newline are read.
Whole == IF log.cut THEN Len(log.lines) - 1 ELSE Len(log.lines)
\* The fingerprint of what precedes an offset.
TailPrint(n) == IF n = 0 THEN Nothing ELSE log.lines[n]

\* What the parser knows after a line, and after the first `n` of them.
Known(m, line) == IF line.req = Nothing THEN line.model ELSE m
LastTurn(i, n) ==
  i \in 1..n /\ log.lines[i].req = Nothing /\ \A j \in i + 1 .. n : log.lines[j].req # Nothing
KnownAt(n) == IF client = "claude" \/ (\A i \in 1..n : log.lines[i].req # Nothing) THEN Unknown
              ELSE log.lines[CHOOSE i \in 1..n : LastTurn(i, n)].model

\* A Claude message names itself and its model in every line; a Codex count
\* is told apart by the model in force, its tokens and its time.
SessionKey(line, m) ==
  IF client = "claude" THEN <<line.req>> ELSE <<line.req, m, line.at>>
\* The proxy reads a Claude message's identifier from a stream alone; the rest
\* has a key of its own.
ProxyKey(r) == IF client = "claude" /\ ~answer[r].whole THEN <<r>> ELSE <<r, "proxy">>

SessionEvent(line, m) ==
  [key |-> SessionKey(line, m), source |-> "session", req |-> line.req,
   model |-> IF client = "claude" THEN line.model ELSE m, at |-> line.at, out |-> line.out]
ProxyEvent(r) ==
  [key |-> ProxyKey(r), source |-> "proxy", req |-> r,
   model |-> ModelOf[r], at |-> answer[r].at, out |-> MaxOut]

\* What a rollup keeps of a day's events.
Summary(es) == {[req |-> e.req, model |-> e.model, out |-> e.out, source |-> e.source] : e \in es}
OnDay(es, d) == {e \in es : Day(e.at) = d}

NoCursor == [at |-> 0, print |-> Nothing, knows |-> Unknown, set |-> FALSE]
NoReader == [at |-> 0, knows |-> Unknown, path |-> "sessions", saved |-> FALSE]
NoAnswer == [step |-> "none", at |-> 0, whole |-> FALSE]
NoDays == [left |-> {}, oldest |-> 0]

\* A fresh install beside an existing log, or one an earlier version kept:
\* its cursor forgot the model, and its rollups may not exist yet.
UsageInit ==
  /\ client \in {"claude", "codex"}
  /\ now = 0 /\ faults = 0
  /\ answer = [r \in Requests |-> NoAnswer]
  /\ up = "down" /\ lock = Nothing /\ reader = NoReader
  /\ pc = [t \in Tasks |-> "idle"] /\ days = [t \in Tasks |-> NoDays]
  /\ \E legacy, rolled \in BOOLEAN, n \in 1..2 :
       LET model == ModelOf[First]
           spent == Line(0, First, IF client = "claude" THEN model ELSE Unknown, 1)
           lines == IF client = "claude" THEN <<spent>> ELSE <<Line(0, Nothing, model, 0), spent>> IN
       /\ legacy => client = "codex"
       /\ ~legacy => ~rolled /\ n = 1
       /\ log = [path |-> "sessions", cut |-> FALSE, count |-> 0, lines |-> lines]
       /\ events = IF legacy /\ n = 2 THEN {SessionEvent(spent, Unknown)} ELSE {}
       /\ hourly = [d \in Days |-> IF rolled THEN Summary(OnDay(events, d)) ELSE {}]
       /\ dirty = {}
       /\ meta = [started |-> IF legacy THEN 0 ELSE -1, repaired |-> client = "claude",
                  rolled |-> rolled, cleaned |-> 0, unread |-> FALSE]
       /\ cursor = [p \in LogPaths |-> IF legacy /\ p = "sessions"
                    THEN [at |-> n, print |-> lines[n], knows |-> Unknown, set |-> TRUE]
                    ELSE NoCursor]

-----------------------------------------------------------------------------
(* The client, the clock and the proxy. *)

\* When a request was dated, by a line that may be gone, too, or by the proxy.
Dates(r) == {log.lines[i].at : i \in {j \in DOMAIN log.lines : log.lines[j].req = r}}
            \cup {e.at : e \in {x \in events : x.req = r}}
            \cup (IF answer[r].step = "none" THEN {} ELSE {answer[r].at})
\* A Claude message is dated on one day, unless it may straddle midnight.
MayDate(r) == client = "codex" \/ Straddles \/ \A t \in Dates(r) : Day(t) = Day(now)

Write(r, m, out) ==
  /\ ~log.cut /\ Len(log.lines) < MaxLines
  /\ \E cut \in BOOLEAN :
       log' = [log EXCEPT !.lines = Append(@, Line(log.count + 1, r, m, out)),
                          !.count = @ + 1, !.cut = cut]

LogTurn ==
  /\ client = "codex"
  /\ \E m \in Models : KnownAt(Len(log.lines)) # m /\ Write(Nothing, m, 0)
  /\ UNCHANGED <<client, now, faults, usageDbVars, answer, taskVars>>

\* Codex counts a request once; Claude repeats a message as it grows.
LogSpent(r) ==
  LET seen == {log.lines[i].out : i \in {j \in DOMAIN log.lines : log.lines[j].req = r}} IN
  /\ MayDate(r)
  /\ IF client = "codex"
     THEN seen = {} /\ KnownAt(Len(log.lines)) = ModelOf[r] /\ Write(r, Unknown, 1)
     ELSE \E out \in 1..MaxOut : /\ \A o \in seen : o <= out
                                 /\ Write(r, ModelOf[r], out)
  /\ UNCHANGED <<client, now, faults, usageDbVars, answer, taskVars>>

EndLine ==
  /\ log.cut /\ log' = [log EXCEPT !.cut = FALSE]
  /\ UNCHANGED <<client, now, faults, usageDbVars, answer, taskVars>>

\* Codex archives a session; Claude may rewrite one without its first line.
Archive ==
  /\ client = "codex" /\ log.path = "sessions" /\ faults < MaxFaults
  /\ log' = [log EXCEPT !.path = "archived_sessions"] /\ faults' = faults + 1
  /\ UNCHANGED <<client, now, usageDbVars, answer, taskVars>>

Rewrite ==
  /\ client = "claude" /\ faults < MaxFaults /\ Len(log.lines) > 1 /\ ~log.cut
  /\ pc["sync"] \notin {"read", "save"} /\ pc["start"] # "save"
  /\ log' = [log EXCEPT !.lines = Tail(@)] /\ faults' = faults + 1
  /\ UNCHANGED <<client, now, usageDbVars, answer, taskVars>>

\* The day that leaves the retention was rolled up long before.
Tick ==
  /\ now < MaxTime /\ now' = now + 1
  /\ Day(now') # Day(now) => /\ \A d \in dirty : d # OldestDay
                             /\ \A t \in Tasks : OldestDay \notin days[t].left
  /\ UNCHANGED <<client, log, faults, usageDbVars, answer, taskVars>>

\* An answer is a stream, or one whole message.
Observe(r) ==
  /\ up = "up" /\ answer[r].step = "none" /\ MayDate(r)
  /\ \E whole \in BOOLEAN :
       /\ whole => client = "claude"
       /\ answer' = [answer EXCEPT ![r] = [step |-> "open", at |-> now, whole |-> whole]]
  /\ UNCHANGED <<envVars, usageDbVars, taskVars>>

-----------------------------------------------------------------------------
(* Events: one transaction stores an event and marks the days it changed. *)

\* The session's copy of a proxied request, within 120 seconds of it: Claude's
\* is found by its identifier, Codex's by its model and tokens.
Copy(e) == IF e.source # "proxy" THEN {}
           ELSE {x \in events : /\ x.source = "session" /\ x.req = e.req /\ x.model = e.model
                                /\ client = "claude" => x.key = e.key
                                /\ x.at - e.at \in -1..1}

\* A conflict keeps the time of the event that is there, the greater output
\* and the proxy's attribution.
Merged(x, e) == [x EXCEPT !.out = IF e.out > @ THEN e.out ELSE @,
                          !.source = IF e.source = "proxy" THEN "proxy" ELSE @]

InsertEvent(e) ==
  LET others == events \ Copy(e)
      same == {x \in others : x.key = e.key} IN
  /\ events' = (others \ same) \cup
               (IF same = {} THEN {e} ELSE {Merged(x, e) : x \in same})
  /\ dirty' = dirty \cup {Day(e.at)}
              \cup (IF Copy(e) = {} THEN {} ELSE {Day(e.at + 1), Day(IF e.at = 0 THEN 0 ELSE e.at - 1)})

\* The observer has seen the whole answer: another thread stores the event.
Record(r) ==
  /\ up = "up" /\ answer[r].step = "open"
  /\ InsertEvent(ProxyEvent(r))
  /\ answer' = [answer EXCEPT ![r].step = "done"]
  /\ UNCHANGED <<envVars, hourly, cursor, meta, taskVars>>

Clean(es) == {e \in es : Day(e.at) >= OldestDay}

-----------------------------------------------------------------------------
(* Synchronization reads the log from its cursor. *)

Proceed(t, step) == pc' = [pc EXCEPT ![t] = step]

\* Mutant: the bytes before the cursor are not compared.
Resume_Trusting(c) == IF c.at > Whole THEN 0 ELSE c.at

\* The cursor no longer fits a file that shrank or was replaced.
Resume(c) == IF c.at > Whole \/ (c.at > 0 /\ TailPrint(c.at) # c.print) THEN 0 ELSE c.at

BeginSync ==
  LET c == cursor[log.path] IN
  /\ up = "up" /\ pc["sync"] = "idle" /\ lock = Nothing
  /\ lock' = "sync"
  /\ reader' = [at |-> Resume(c), path |-> log.path, saved |-> c.set,
                knows |-> IF Resume(c) = 0 THEN Unknown ELSE c.knows]
  /\ Proceed("sync", "read")
  /\ UNCHANGED <<envVars, usageDbVars, answer, up, days>>

NextLine == log.lines[reader.at + 1]
Step == reader' = [reader EXCEPT !.at = @ + 1,
                     !.knows = IF client = "claude" THEN Unknown ELSE Known(@, NextLine)]

ReadLine ==
  /\ pc["sync"] = "read" /\ reader.at < Whole
  /\ Step
  /\ IF \/ NextLine.req = Nothing
        \/ NextLine.at < meta.started \/ Day(NextLine.at) < OldestDay
     THEN UNCHANGED <<events, dirty>>
     ELSE InsertEvent(SessionEvent(NextLine, reader.knows))
  /\ UNCHANGED <<envVars, hourly, cursor, meta, answer, up, lock, pc, days>>

\* A file that was moved meanwhile fails here, and its cursor stays.
SaveCursor ==
  /\ pc["sync"] = "read" /\ reader.at = Whole
  /\ IF reader.path # log.path THEN UNCHANGED cursor
     ELSE cursor' = [cursor EXCEPT ![log.path] = [at |-> reader.at, print |-> TailPrint(reader.at),
                                                  knows |-> reader.knows, set |-> TRUE]]
  /\ Proceed("sync", "clean") /\ reader' = NoReader
  /\ UNCHANGED <<envVars, events, dirty, hourly, meta, answer, up, lock, days>>

\* At startup always, in a synchronization once a day.
CleanUp(t) ==
  /\ t \in {"start", "sync"} /\ pc[t] = "clean"
  /\ IF t = "start" \/ now - meta.cleaned >= DayLength
     THEN events' = Clean(events) /\ meta' = [meta EXCEPT !.cleaned = now]
     ELSE UNCHANGED <<events, meta>>
  /\ Proceed(t, IF t = "start" THEN "backfill" ELSE "collect")
  /\ UNCHANGED <<envVars, dirty, hourly, cursor, answer, up, lock, reader, days>>

-----------------------------------------------------------------------------
(* Rollups: collect the marked days, then rebuild each in a transaction.   *)

Collects(t) ==
  days' = [days EXCEPT ![t] = [left |-> dirty, oldest |-> OldestDay]] /\ Proceed(t, "roll")

Collect(t) ==
  /\ pc[t] = "collect" /\ Collects(t)
  /\ UNCHANGED <<envVars, usageDbVars, answer, up, lock, reader>>

\* A query refreshes the rollups first.
Query ==
  /\ up = "up" /\ pc["query"] = "idle" /\ dirty # {} /\ Collects("query")
  /\ UNCHANGED <<envVars, usageDbVars, answer, up, lock, reader>>

\* Mutant: a day whose events are gone is rolled up, too.
RollUp_AnyDay(t, d) ==
  /\ pc[t] = "roll" /\ d \in days[t].left
  /\ hourly' = IF d \notin Days THEN hourly ELSE [hourly EXCEPT ![d] = Summary(OnDay(events, d))]
  /\ dirty' = dirty \ {d} /\ days' = [days EXCEPT ![t].left = @ \ {d}]
  /\ UNCHANGED <<envVars, events, cursor, meta, answer, up, lock, pc, reader>>

RollUp(t, d) ==
  /\ pc[t] = "roll" /\ d \in days[t].left
  /\ hourly' = IF d \notin Days \/ d < days[t].oldest THEN hourly
               ELSE [hourly EXCEPT ![d] = Summary(OnDay(events, d))]
  /\ dirty' = dirty \ {d}
  /\ days' = [days EXCEPT ![t].left = @ \ {d}]
  /\ UNCHANGED <<envVars, events, cursor, meta, answer, up, lock, pc, reader>>

Refreshed(t) ==
  /\ pc[t] = "roll" /\ days[t].left = {}
  /\ Proceed(t, "idle") /\ days' = [days EXCEPT ![t] = NoDays]
  /\ lock' = IF t \in {"start", "sync"} THEN Nothing ELSE lock
  /\ up' = IF t = "start" THEN "up" ELSE up
  /\ meta' = CASE t = "start" -> [meta EXCEPT !.rolled = TRUE]
               [] t = "repair" -> [meta EXCEPT !.repaired = TRUE]
               [] OTHER -> meta
  /\ UNCHANGED <<envVars, events, dirty, hourly, cursor, answer, reader>>

-----------------------------------------------------------------------------
(* Startup, the one-time repair, crashes. *)

Start ==
  /\ up = "down" /\ up' = "starting" /\ lock' = "start"
  /\ IF meta.started = -1
     THEN /\ meta' = [meta EXCEPT !.started = now] /\ Proceed("start", "save")
          /\ reader' = [at |-> Whole, knows |-> KnownAt(Whole), path |-> log.path, saved |-> FALSE]
     ELSE UNCHANGED <<meta, reader>> /\ Proceed("start", "clean")
  /\ UNCHANGED <<envVars, events, dirty, hourly, cursor, answer, days>>

\* The first start skips what was logged before.
SaveFirst ==
  /\ pc["start"] = "save"
  /\ cursor' = [cursor EXCEPT ![reader.path] = [at |-> reader.at, print |-> TailPrint(reader.at),
                                                knows |-> reader.knows, set |-> TRUE]]
  /\ reader' = NoReader /\ Proceed("start", "clean")
  /\ UNCHANGED <<envVars, events, dirty, hourly, meta, answer, up, lock, days>>

Backfill ==
  /\ pc["start"] = "backfill"
  /\ IF meta.rolled THEN dirty' = dirty /\ up' = "up" /\ lock' = Nothing /\ Proceed("start", "idle")
     ELSE /\ dirty' = dirty \cup {Day(e.at) : e \in events} /\ Proceed("start", "collect")
          /\ UNCHANGED <<up, lock>>
  /\ UNCHANGED <<envVars, events, hourly, cursor, meta, answer, reader, days>>

\* The repair rereads a Codex log from its first line.
BeginRepair ==
  /\ up = "up" /\ pc["repair"] = "idle" /\ ~meta.repaired /\ lock = Nothing
  /\ IF client = "codex"
     THEN /\ lock' = "repair" /\ Proceed("repair", "read")
          /\ reader' = [NoReader EXCEPT !.path = log.path]
     ELSE UNCHANGED <<lock, reader>> /\ Proceed("repair", "collect")
  /\ meta' = [meta EXCEPT !.unread = FALSE]
  /\ UNCHANGED <<envVars, events, dirty, hourly, cursor, answer, up, days>>

\* The log was moved since the files were listed, or it looked too old: the
\* repair passes over it, and is done all the same.
SkipRepair ==
  /\ client = "codex" /\ up = "up" /\ pc["repair"] = "idle" /\ ~meta.repaired
  /\ Proceed("repair", "collect") /\ meta' = [meta EXCEPT !.unread = TRUE]
  /\ UNCHANGED <<envVars, events, dirty, hourly, cursor, answer, up, lock, reader, days>>

\* One file's error is dropped: the rest of it stays unread.
FailFile(t) ==
  /\ t \in {"sync", "repair"} /\ pc[t] = "read" /\ reader' = NoReader
  /\ faults < MaxFaults /\ faults' = faults + 1
  /\ Proceed(t, IF t = "sync" THEN "clean" ELSE "collect")
  /\ lock' = IF t = "sync" THEN lock ELSE Nothing
  /\ meta' = IF t = "sync" THEN meta ELSE [meta EXCEPT !.unread = TRUE]
  /\ UNCHANGED <<client, log, now, events, dirty, hourly, cursor, answer, up, days>>

\* Mutant: the day of an event that moves to its model is not rolled up again.
Relabel_Unmarked(line, m) ==
  LET wrong == {x \in events : x.key = SessionKey(line, Unknown)} IN
  /\ events' = (events \ wrong) \cup
       {[x EXCEPT !.model = m, !.key = SessionKey(line, m)] : x \in wrong}
  /\ UNCHANGED dirty

\* An event filed under `unknown` moves to its model, or goes if it is there.
Relabel(line, m) ==
  LET wrong == {x \in events : x.key = SessionKey(line, Unknown)}
      right == {x \in events : x.key = SessionKey(line, m)} IN
  IF wrong = {} THEN UNCHANGED <<events, dirty>>
  ELSE /\ dirty' = dirty \cup {Day(line.at)}
       /\ events' = (events \ wrong) \cup
            (IF right # {} THEN {} ELSE {[x EXCEPT !.model = m, !.key = SessionKey(line, m)] : x \in wrong})

RepairLine ==
  /\ pc["repair"] = "read" /\ reader.at < Whole
  /\ Step
  /\ IF NextLine.req = Nothing \/ reader.knows = Unknown THEN UNCHANGED <<events, dirty>>
     ELSE Relabel(NextLine, reader.knows)
  /\ UNCHANGED <<envVars, hourly, cursor, meta, answer, up, lock, pc, days>>

\* The cursor learns what the parser knew where it stands.
EndRepair ==
  LET c == cursor[reader.path] IN
  /\ pc["repair"] = "read" /\ reader.at = Whole
  /\ cursor' = IF c.set /\ c.at <= reader.at
               THEN [cursor EXCEPT ![reader.path].knows = KnownAt(c.at)] ELSE cursor
  /\ lock' = Nothing /\ reader' = NoReader /\ Proceed("repair", "collect")
  /\ UNCHANGED <<envVars, events, dirty, hourly, meta, answer, up, days>>

Crash ==
  /\ up # "down" /\ faults < MaxFaults /\ faults' = faults + 1
  /\ up' = "down" /\ lock' = Nothing /\ reader' = NoReader
  /\ pc' = [t \in Tasks |-> "idle"] /\ days' = [t \in Tasks |-> NoDays]
  /\ answer' = [r \in Requests |-> IF answer[r].step = "open" THEN [answer[r] EXCEPT !.step = "lost"] ELSE answer[r]]
  /\ UNCHANGED <<client, log, now, usageDbVars>>

UsageNext ==
  \/ LogTurn \/ EndLine \/ Archive \/ Rewrite \/ Tick
  \/ \E r \in Requests : LogSpent(r)
  \/ \E r \in Proxied : Observe(r) \/ Record(r)
  \/ BeginSync \/ ReadLine \/ SaveCursor \/ Query
  \/ \E t \in Tasks : CleanUp(t) \/ Collect(t) \/ Refreshed(t) \/ \E d \in days[t].left : RollUp(t, d)
  \/ Start \/ SaveFirst \/ Backfill \/ BeginRepair \/ SkipRepair \/ RepairLine \/ EndRepair
  \/ \E t \in Tasks : FailFile(t)
  \/ Crash

UsageSpec == UsageInit /\ [][UsageNext]_usageVars

-----------------------------------------------------------------------------
UsageTypeOK ==
  /\ up \in {"down", "starting", "up"} /\ lock \in Tasks \cup {Nothing}
  /\ \A e \in events : e.req \in Requests /\ e.at \in 0..now
  /\ \A p \in LogPaths : cursor[p].at \in 0..MaxLines

\* Whatever is read again after a crash, a failed file, a rewrite, an archival or
\* the repair: what the log or the proxy says of a request is one event under its
\* model, and one more at most under none. Once the repair has read the log, a
\* request is one event, unless it passed the proxy and the two keys cannot
\* agree: all of Codex's, and Claude's that were not streamed.
CountedOnce ==
  \A r \in Requests :
    LET counted == {e \in events : e.req = r} IN
    /\ \A source \in {"session", "proxy"}, known \in BOOLEAN :
         Cardinality({e \in counted : e.source = source /\ (e.model # Unknown) = known}) <= 1
    /\ /\ meta.repaired /\ ~meta.unread
       /\ answer[r].step # "done" \/ (client = "claude" /\ ~answer[r].whole)
       => Cardinality(counted) <= 1

\* The proxy's exact event replaces the session's: not a Codex one that is read
\* later, nor a Claude one of an answer that was not streamed.  No run claims it.
ProxyTakesPrecedence ==
  \A r \in Requests : answer[r].step = "done" => Cardinality({e \in events : e.req = r}) <= 1

\* What the cursor has passed was counted, if it is still kept: an answer
\* that passed the proxy is kept by the proxy's date.
NothingIsMissed ==
  \A p \in LogPaths : p = log.path /\ cursor[p].set /\ Resume(cursor[p]) = cursor[p].at =>
    \A i \in 1..cursor[p].at :
      LET l == log.lines[i] IN
        /\ l.req # Nothing /\ l.at > meta.started /\ Day(l.at) >= OldestDay
        /\ answer[l.req].step # "done" \/ Day(answer[l.req].at) >= OldestDay
      => \E e \in events : e.req = l.req /\ e.out >= l.out

\* Once the repair has read the log, no event whose model the log names is filed
\* as unknown, nor will be by a cursor that forgot it.
RepairedKnowsModels ==
  meta.repaired /\ ~meta.unread => \A e \in events : e.model # Unknown

\* A day that is kept and not marked is rolled up as its events are.
RollupsAgree ==
  meta.rolled => \A d \in Days : d >= OldestDay /\ d \notin dirty => hourly[d] = Summary(OnDay(events, d))

\* The rollup of a day whose events are gone never changes again.
HistoryIsKept ==
  [][\A d \in Days : d < OldestDay /\ meta.rolled => hourly'[d] = hourly[d]]_usageVars

\* Every request is counted, once for each source that reports it under a key of its
\* own, however the collection was interrupted, and a repair that has read the log
\* finds its model.
UsageIsCounted == UsageTypeOK /\ CountedOnce /\ NothingIsMissed /\ RepairedKnowsModels
=============================================================================
