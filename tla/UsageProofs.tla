---------------------------- MODULE UsageProofs ----------------------------
(***************************************************************************)
(* What a client spent is counted once for each source that has a key of   *)
(* its own (UsageStaysUnique), and, unless one message is dated on two     *)
(* days, what a cursor has passed was counted (UsageStaysCounted); the     *)
(* rollups agree with the events                                           *)
(* (RollupsStayTrue) and outlive them (HistoryStaysKept).  UsageInv is     *)
(* about one moment: what lines, events, cursors and readers say of each   *)
(* other; CoverInv about what was passed, ListsAreKept and DaysAgree about *)
(* the rollups.                                                            *)
(***************************************************************************)
EXTENDS Usage, FiniteSetTheorems, TLAPS

-----------------------------------------------------------------------------
(* What a client spent: the log, the events, the cursors.                   *)

LogLines == [id : Nat, req : Requests \cup {Nothing}, model : Models \cup {Unknown},
             out : Nat, at : Nat]
EventKeys == {<<r>> : r \in Requests} \cup {<<r, "proxy">> : r \in Requests}
             \cup (Requests \X (Models \cup {Unknown}) \X Nat)
UsageEvents == [key : EventKeys, source : {"session", "proxy"}, req : Requests,
                model : Models \cup {Unknown}, at : Nat, out : Nat]
Cursors == [at : Nat, print : LogLines \cup {Nothing}, knows : Models \cup {Unknown}, set : BOOLEAN]
Readers == [at : Nat, knows : Models \cup {Unknown}, path : LogPaths, saved : BOOLEAN]
LogStates == [path : LogPaths, cut : BOOLEAN, count : Nat, lines : Seq(LogLines)]
Answers == [step : {"none", "open", "done", "lost"}, at : Nat, whole : BOOLEAN]
Lists == [left : SUBSET Int, oldest : Int]
Metas == [started : Int, repaired : BOOLEAN, rolled : BOOLEAN, cleaned : Nat, unread : BOOLEAN]
Rollups == [req : Requests, model : Models \cup {Unknown}, out : Nat, source : {"session", "proxy"}]
UsageSteps == {"idle", "save", "clean", "backfill", "collect", "roll", "read"}

UsageTypes ==
  /\ client \in {"claude", "codex"} /\ now \in Nat
  /\ log \in LogStates /\ answer \in [Requests -> Answers]
  /\ up \in {"down", "starting", "up"} /\ lock \in Tasks \cup {Nothing}
  /\ pc \in [Tasks -> UsageSteps] /\ reader \in Readers /\ days \in [Tasks -> Lists]
  /\ events \in SUBSET UsageEvents /\ dirty \in SUBSET Int
  /\ hourly \in [Days -> SUBSET Rollups]
  /\ cursor \in [LogPaths -> Cursors] /\ meta \in Metas

\* The last line before another that names a model, and the model in force there.
LastIn(ls, i, n) ==
  i \in 1..n /\ ls[i].req = Nothing /\ \A j \in i + 1 .. n : ls[j].req # Nothing
KnownIn(c, ls, n) ==
  IF c = "claude" \/ (\A i \in 1..n : ls[i].req # Nothing) THEN Unknown
  ELSE ls[CHOOSE i \in 1..n : LastIn(ls, i, n)].model
HasLast(ls, n) == (\E i \in 1..n : ls[i].req = Nothing) => \E i \in 1..n : LastIn(ls, i, n)

\* What the log is: a Codex request is one line under the model that was named
\* last, a Claude line names both and no two lines are the same.
LineIsWhole(l, who, count, time) ==
  /\ l.id <= count /\ l.at <= time
  /\ l.req = Nothing => who = "codex" /\ l.model \in Models
  /\ l.req # Nothing => /\ l.out \in 1 .. MaxOut
                        /\ IF who = "claude" THEN l.model = ModelOf[l.req] ELSE l.out = 1
LogIsWhole ==
  /\ Len(log.lines) <= MaxLines /\ (log.cut => Len(log.lines) > 0)
  /\ \A i \in 1 .. Len(log.lines) : LineIsWhole(log.lines[i], client, log.count, now)
  /\ client = "claude" =>
       \A i, j \in 1 .. Len(log.lines) : i < j => log.lines[i].id < log.lines[j].id
  /\ client = "codex" =>
       /\ \A i, j \in 1 .. Len(log.lines) :
            log.lines[i].req # Nothing /\ log.lines[i].req = log.lines[j].req => i = j
       /\ \A n \in 0 .. Len(log.lines) : HasLast(log.lines, n)
       /\ \A i \in 1 .. Len(log.lines) :
            log.lines[i].req # Nothing => KnownAt(i - 1) = ModelOf[log.lines[i].req]

\* An event and its key; a session's event has its line.
EventIsWhole(e) ==
  /\ e.at <= now /\ e.out > 0
  /\ e.source = "proxy" => answer[e.req].step = "done"
  /\ IF client = "claude"
     THEN /\ e.model = ModelOf[e.req]
          /\ e.key = IF e.source = "proxy" THEN ProxyKey(e.req) ELSE <<e.req>>
     ELSE IF e.source = "proxy"
     THEN e.key = <<e.req, "proxy">> /\ e.model = ModelOf[e.req]
     ELSE /\ e.key = <<e.req, e.model, e.at>> /\ e.model \in {ModelOf[e.req], Unknown}
          /\ \E i \in 1 .. Whole : log.lines[i].req = e.req /\ log.lines[i].at = e.at
EventsAreWhole ==
  /\ \A e \in events : EventIsWhole(e)
  /\ \A x, y \in events : x.key = y.key => x = y
  /\ \A r \in Requests : answer[r].at <= now

\* The tasks: who holds the lock, and who may read.
TasksExclude ==
  /\ pc["start"] # "idle" => up = "starting" /\ lock = "start"
  /\ up = "starting" => pc["start"] # "idle"
  /\ pc["start"] # "read" /\ pc["sync"] \in {"idle", "read", "clean", "collect", "roll"}
  /\ pc["sync"] # "idle" => up = "up" /\ lock = "sync"
  /\ pc["repair"] \in {"idle", "read", "collect", "roll"} /\ pc["query"] \in {"idle", "roll"}
  /\ pc["repair"] # "idle" => up = "up" /\ ~meta.repaired
  /\ pc["repair"] = "read" => lock = "repair" /\ client = "codex"
  /\ client = "claude" => meta.repaired

\* Who reads knows the model in force, unless an older version wrote the cursor;
\* the repair ends that, unless it left the log unread.
Repaired == (meta.repaired \/ pc["repair"] \in {"collect", "roll"}) /\ ~meta.unread
Reads == pc["sync"] = "read" \/ pc["repair"] = "read" \/ pc["start"] = "save"
Knows(c) == c.knows = KnownIn(client, log.lines, c.at)
ReaderKnows ==
  /\ log.path = "sessions" => reader.path = "sessions"
  /\ Reads => reader.at <= Whole /\ (Knows(reader) \/ reader.knows = Unknown)
  /\ pc["repair"] = "read" \/ pc["start"] = "save" => Knows(reader)
  /\ pc["sync"] = "read" /\ (Repaired \/ reader.path = "archived_sessions") => Knows(reader)
CursorsKnow ==
  /\ \A p \in LogPaths :
       /\ client = "codex" => cursor[p].at <= Whole
       /\ Knows(cursor[p]) \/ cursor[p].knows = Unknown
       /\ ~cursor[p].set => cursor[p].at = 0
       /\ cursor[p].at <= MaxLines
  /\ Knows(cursor["archived_sessions"])
  /\ Repaired /\ log.path = "sessions" => Knows(cursor["sessions"])
EventsKnow ==
  /\ Repaired => \A e \in events : e.model # Unknown
  /\ pc["repair"] = "read" =>
       \A e \in events, i \in 1 .. reader.at : log.lines[i].req = e.req => e.model # Unknown

UsageInv ==
  /\ UsageTypes /\ LogIsWhole /\ EventsAreWhole /\ TasksExclude
  /\ ReaderKnows /\ CursorsKnow /\ EventsKnow

\* The dates of one Claude message are of one day.
OneDay ==
  client = "claude" => \A r \in Requests : \A t, u \in Dates(r) : Day(t) = Day(u)

\* The line is counted by an event that will be kept as long as it must be.
Stands(e, l) ==
  /\ e.req = l.req /\ e.out >= l.out
  /\ Day(e.at) = Day(l.at) \/ (answer[l.req].step = "done" /\ e.at = answer[l.req].at)
Covered(l) ==
  /\ l.req # Nothing /\ l.at > meta.started /\ Day(l.at) >= OldestDay
  /\ answer[l.req].step # "done" \/ Day(answer[l.req].at) >= OldestDay
  => \E e \in events : Stands(e, l)
FitsLog(c) == c.at <= Whole /\ (c.at = 0 \/ TailPrint(c.at) = c.print)
CursorsCover ==
  /\ \A p \in LogPaths : cursor[p].set /\ FitsLog(cursor[p]) =>
       \A i \in 1 .. cursor[p].at : Covered(log.lines[i])
  /\ pc["sync"] = "read" => \A i \in 1 .. reader.at : Covered(log.lines[i])
  /\ pc["start"] = "save" => \A i \in 1 .. reader.at : log.lines[i].at <= meta.started
  /\ client = "claude" => \A p \in LogPaths : cursor[p].at > 0 =>
       /\ cursor[p].print \in LogLines /\ cursor[p].print.id <= log.count
       /\ \A i \in 1 .. Len(log.lines) : log.lines[i].id = cursor[p].print.id => i <= cursor[p].at /\ i <= Whole
CoverInv == OneDay /\ CursorsCover

\* A day that left the retention is in nobody's list; a day that is kept and not
\* marked agrees, or was never rolled up.
ListsAreKept ==
  \A t \in Tasks :
    /\ days[t].left = {} \/ days[t].oldest <= OldestDay
    /\ \A d \in days[t].left : d >= days[t].oldest => d >= OldestDay
DaysAgree ==
  \A d \in Days : d >= OldestDay /\ d \notin dirty =>
    \/ hourly[d] = Summary(OnDay(events, d))
    \/ ~meta.rolled /\ pc["start"] \notin {"collect", "roll"} /\ hourly[d] = {}

-----------------------------------------------------------------------------
\* What the assumptions say of the constants.
LEMMA UsageBasics ==
  /\ MaxLines \in Nat /\ MaxOut \in Nat /\ MaxOut > 0 /\ MaxTime \in Nat
  /\ DayLength \in Nat /\ DayLength > 0 /\ Retained \in Nat
  /\ NoReader \in Readers /\ NoCursor \in Cursors
  /\ NoDays \in Lists
  /\ LogPaths = {"sessions", "archived_sessions"} /\ Tasks = {"start", "sync", "repair", "query"}
  /\ Nothing \notin Requests /\ Nothing \notin Tasks /\ Unknown \notin Models
  /\ \A r \in Requests : ModelOf[r] \in Models
BY UsageConstants
DEF NoReader, NoCursor, NoDays, Readers, Cursors, Lists, LogPaths, Tasks

\* Days are whole numbers, in the order of time, and each begins where the last one ends.
LEMMA DayFacts ==
  /\ \A t \in Int : Day(t) \in Int
  /\ \A t \in Nat : Day(t) \in Nat
  /\ \A t, u \in Nat : t <= u => Day(t) <= Day(u)
  /\ \A t \in Nat : Day(t) <= Day(t + 1) /\ Day(t + 1) <= Day(t) + 1
BY UsageConstants DEF Day

\* One field of a record is written.
LEMMA FieldsAreWritten ==
  /\ \A a \in Answers, s \in {"none", "open", "done", "lost"} : [a EXCEPT !.step = s] \in Answers
  /\ \A m \in Metas, t \in Int : [m EXCEPT !.started = t] \in Metas
  /\ \A m \in Metas, b \in BOOLEAN :
       /\ [m EXCEPT !.rolled = b] \in Metas /\ [m EXCEPT !.repaired = b] \in Metas
       /\ [m EXCEPT !.unread = b] \in Metas
  /\ \A m \in Metas, t \in Nat : [m EXCEPT !.cleaned = t] \in Metas
  /\ \A c \in Cursors, k \in Models \cup {Unknown} : [c EXCEPT !.knows = k] \in Cursors
  /\ \A d \in Lists, s \in SUBSET Int : [d EXCEPT !.left = s] \in Lists
  /\ \A l \in LogStates, p \in LogPaths, b \in BOOLEAN :
       [l EXCEPT !.path = p] \in LogStates /\ [l EXCEPT !.cut = b] \in LogStates
  /\ \A l \in LogStates, s \in Seq(LogLines) : [l EXCEPT !.lines = s] \in LogStates
<1>1. \A a \in Answers, s \in {"none", "open", "done", "lost"} : [a EXCEPT !.step = s] \in Answers
  BY DEF Answers
<1>2. \A m \in Metas, t \in Int : [m EXCEPT !.started = t] \in Metas
  BY DEF Metas
<1>3. \A m \in Metas, b \in BOOLEAN :
        /\ [m EXCEPT !.rolled = b] \in Metas /\ [m EXCEPT !.repaired = b] \in Metas
        /\ [m EXCEPT !.unread = b] \in Metas
  BY DEF Metas
<1>4. \A m \in Metas, t \in Nat : [m EXCEPT !.cleaned = t] \in Metas
  BY DEF Metas
<1>5. \A c \in Cursors, k \in Models \cup {Unknown} : [c EXCEPT !.knows = k] \in Cursors
  BY DEF Cursors
<1>6. \A d \in Lists, s \in SUBSET Int : [d EXCEPT !.left = s] \in Lists
  BY DEF Lists
<1>7. \A l \in LogStates, p \in LogPaths, b \in BOOLEAN :
        [l EXCEPT !.path = p] \in LogStates /\ [l EXCEPT !.cut = b] \in LogStates
  BY DEF LogStates
<1>8. \A l \in LogStates, s \in Seq(LogLines) : [l EXCEPT !.lines = s] \in LogStates
  BY DEF LogStates
<1> QED
  BY <1>1, <1>2, <1>3, <1>4, <1>5, <1>6, <1>7, <1>8

-----------------------------------------------------------------------------
\* An event that is stored is one of the events, whatever it replaces.
LEMMA InsertedIs ==
  ASSUME UsageTypes, NEW e \in UsageEvents, InsertEvent(e)
  PROVE  events' \in SUBSET UsageEvents /\ dirty' \in SUBSET Int
<1>1. \A x \in UsageEvents : Merged(x, e) \in UsageEvents
  <2> SUFFICES ASSUME NEW x \in UsageEvents PROVE Merged(x, e) \in UsageEvents
    OBVIOUS
  <2>1. /\ (IF e.out > x.out THEN e.out ELSE x.out) \in Nat
        /\ (IF e.source = "proxy" THEN "proxy" ELSE x.source) \in {"session", "proxy"}
    BY DEF UsageEvents
  <2> QED
    BY <2>1 DEF Merged, UsageEvents
<1>2. e.at \in Nat /\ Day(e.at) \in Int /\ Day(e.at + 1) \in Int
      /\ Day(IF e.at = 0 THEN 0 ELSE e.at - 1) \in Int
  BY DayFacts DEF UsageEvents
<1> QED
  BY <1>1, <1>2 DEF InsertEvent, UsageTypes

\* The event of a line is an event under a key.
LEMMA SessionEventIs ==
  ASSUME NEW l \in LogLines, l.req # Nothing, NEW m \in Models \cup {Unknown}
  PROVE  SessionEvent(l, m) \in UsageEvents /\ SessionKey(l, m) \in EventKeys
<1>1. l.req \in Requests /\ l.at \in Nat /\ l.model \in Models \cup {Unknown} /\ l.out \in Nat
  BY DEF LogLines
<1>2. SessionKey(l, m) \in EventKeys
  BY <1>1 DEF SessionKey, EventKeys
<1>3. (IF client = "claude" THEN l.model ELSE m) \in Models \cup {Unknown}
  BY <1>1
<1> QED
  BY <1>1, <1>2, <1>3 DEF SessionEvent, UsageEvents

\* The event of an answer is an event.
LEMMA ProxyEventIs ==
  ASSUME UsageTypes, NEW r \in Requests
  PROVE  ProxyEvent(r) \in UsageEvents
<1>1. ProxyKey(r) \in EventKeys
  BY DEF ProxyKey, EventKeys
<1>2. answer[r].at \in Nat
  BY DEF UsageTypes, Answers
<1> QED
  BY <1>1, <1>2, UsageBasics DEF ProxyEvent, UsageEvents

\* What was read of the log, and what is read next.
LEMMA LogReads ==
  ASSUME UsageTypes
  PROVE  /\ Len(log.lines) \in Nat /\ DOMAIN log.lines = 1 .. Len(log.lines)
         /\ \A i \in 1 .. Len(log.lines) : log.lines[i] \in LogLines
         /\ Whole \in Int /\ Whole <= Len(log.lines) /\ Whole >= Len(log.lines) - 1
         /\ Len(log.lines) > 0 => Whole \in Nat
         /\ log \in LogStates
         /\ reader.at \in Nat /\ reader.at + 1 \in Nat
BY DEF UsageTypes, LogStates, Whole, Readers

\* The model in force is a model, or unknown.
LEMMA KnownIs ==
  ASSUME UsageTypes, LogIsWhole, NEW n \in 0 .. Len(log.lines)
  PROVE  KnownAt(n) \in Models \cup {Unknown}
<1>1. CASE client = "claude" \/ \A i \in 1..n : log.lines[i].req # Nothing
  BY <1>1 DEF KnownAt
<1>2. CASE ~(client = "claude" \/ \A i \in 1..n : log.lines[i].req # Nothing)
  <2>1. client = "codex" /\ \E i \in 1 .. n : log.lines[i].req = Nothing
    BY <1>2 DEF UsageTypes
  <2>2. \E i \in 1 .. n : LastTurn(i, n)
    BY <2>1, LogReads DEF LogIsWhole, HasLast, LastIn, LastTurn
  <2>3. (CHOOSE i \in 1..n : LastTurn(i, n)) \in 1 .. n
    BY <2>2
  <2>4. log.lines[CHOOSE i \in 1..n : LastTurn(i, n)] \in LogLines
    BY <2>3, LogReads
  <2> QED
    BY <1>2, <2>4 DEF KnownAt, LogLines
<1> QED
  BY <1>1, <1>2

\* What the repair does to the events of a line: those under `unknown` move to
\* the model, unless it is there.
LEMMA RelabelIs ==
  ASSUME NEW l, NEW m, Relabel(l, m)
  PROVE  /\ \A y \in events' :
              \/ y \in events /\ y.key # SessionKey(l, Unknown)
              \/ \E x \in events : /\ x.key = SessionKey(l, Unknown)
                                   /\ y = [x EXCEPT !.model = m, !.key = SessionKey(l, m)]
                                   /\ \A z \in events : z.key # SessionKey(l, m)
         /\ \A x \in events : x.key # SessionKey(l, Unknown) => x \in events'
         /\ \A x \in events : x.key = SessionKey(l, Unknown) =>
              \/ [x EXCEPT !.model = m, !.key = SessionKey(l, m)] \in events'
              \/ \E z \in events : z.key = SessionKey(l, m)
         /\ dirty' = dirty \/ dirty' = dirty \cup {Day(l.at)}
         /\ (\E x \in events : x.key = SessionKey(l, Unknown)) => dirty' = dirty \cup {Day(l.at)}
<1> DEFINE k0 == SessionKey(l, Unknown)  k == SessionKey(l, m)
           wrong == {x \in events : x.key = k0}  right == {x \in events : x.key = k}
           moved == {[x EXCEPT !.model = m, !.key = k] : x \in wrong}
<1>1. IF wrong = {} THEN UNCHANGED <<events, dirty>>
      ELSE /\ dirty' = dirty \cup {Day(l.at)}
           /\ events' = (events \ wrong) \cup (IF right # {} THEN {} ELSE moved)
  BY DEF Relabel
<1> HIDE DEF k0, k
<1>2. CASE wrong = {}
  <2>1. events' = events /\ dirty' = dirty /\ \A x \in events : x.key # k0
    BY <1>1, <1>2
  <2> QED
    BY <2>1 DEF k0, k
<1>3. CASE wrong # {} /\ right # {}
  <2>1. events' = events \ wrong /\ dirty' = dirty \cup {Day(l.at)} /\ \E z \in events : z.key = k
    BY <1>1, <1>3
  <2>2. \A x \in events : x \in events' <=> x.key # k0
    BY <2>1
  <2>3. \A y \in events' : y \in events
    BY <2>1
  <2> QED
    BY <2>1, <2>2, <2>3 DEF k0, k
<1>4. CASE wrong # {} /\ right = {}
  <2>1. events' = (events \ wrong) \cup moved /\ dirty' = dirty \cup {Day(l.at)}
    BY <1>1, <1>4
  <2>2. \A z \in events : z.key # k
    BY <1>4
  <2>3. \A x \in events : x.key # k0 => x \in events'
    BY <2>1
  <2>4. \A x \in events : x.key = k0 => [x EXCEPT !.model = m, !.key = k] \in events'
    BY <2>1
  <2>5. \A y \in events' : (y \in events /\ y.key # k0)
            \/ \E x \in events : x.key = k0 /\ y = [x EXCEPT !.model = m, !.key = k]
    BY <2>1
  <2> QED
    BY <2>1, <2>2, <2>3, <2>4, <2>5 DEF k0, k
<1> QED
  BY <1>2, <1>3, <1>4

\* An event that is stored replaces the session's copies of a proxied one, and
\* is merged with the event that has its key.
LEMMA InsertIs ==
  ASSUME NEW e, InsertEvent(e)
  PROVE  /\ \A y \in events' :
              \/ y \in events /\ y \notin Copy(e) /\ y.key # e.key
              \/ y = e /\ \A x \in events \ Copy(e) : x.key # e.key
              \/ \E x \in events \ Copy(e) : x.key = e.key /\ y = Merged(x, e)
         /\ \A x \in events \ Copy(e) : x.key # e.key => x \in events'
         /\ \A x \in events \ Copy(e) : x.key = e.key => Merged(x, e) \in events'
         /\ (\A x \in events \ Copy(e) : x.key # e.key) => e \in events'
         /\ dirty \subseteq dirty' /\ Day(e.at) \in dirty'
         /\ Copy(e) # {} => Day(e.at + 1) \in dirty' /\ Day(IF e.at = 0 THEN 0 ELSE e.at - 1) \in dirty'
<1> DEFINE others == events \ Copy(e)
           same == {x \in others : x.key = e.key}
           merged == {Merged(x, e) : x \in same}
<1>1. events' = (others \ same) \cup (IF same = {} THEN {e} ELSE merged)
  BY DEF InsertEvent
<1>2. dirty' = dirty \cup {Day(e.at)}
               \cup (IF Copy(e) = {} THEN {} ELSE {Day(e.at + 1), Day(IF e.at = 0 THEN 0 ELSE e.at - 1)})
  BY DEF InsertEvent
<1>3. CASE same = {}
  <2>1. events' = others \cup {e} /\ \A x \in others : x.key # e.key
    BY <1>1, <1>3
  <2> QED
    BY <2>1, <1>2
<1>4. CASE same # {}
  <2>1. events' = (others \ same) \cup merged /\ ~\A x \in others : x.key # e.key
    BY <1>1, <1>4
  <2>2. \A y \in events' : (y \in others /\ y.key # e.key) \/ \E x \in others : x.key = e.key /\ y = Merged(x, e)
    BY <2>1
  <2>3. \A x \in others : x.key # e.key => x \in events'
    BY <2>1
  <2>4. \A x \in others : x.key = e.key => Merged(x, e) \in events'
    BY <2>1
  <2> QED
    BY <2>1, <2>2, <2>3, <2>4, <1>2
<1> QED
  BY <1>3, <1>4

-----------------------------------------------------------------------------
(* What a step does to the log, whoever takes it.                           *)

\* What a client writes is one line more.
LEMMA WriteIs ==
  ASSUME UsageTypes, NEW r \in Requests \cup {Nothing}, NEW m \in Models \cup {Unknown},
         NEW out \in Nat, Write(r, m, out)
  PROVE  /\ log' \in LogStates
         /\ Line(log.count + 1, r, m, out) \in LogLines
         /\ ~log.cut /\ Len(log.lines) < MaxLines
         /\ log'.path = log.path /\ log'.count = log.count + 1
         /\ log'.lines = Append(log.lines, Line(log.count + 1, r, m, out))
<1>1. Line(log.count + 1, r, m, out) \in LogLines
  BY DEF UsageTypes, LogStates, Line, LogLines
<1>2. Append(log.lines, Line(log.count + 1, r, m, out)) \in Seq(LogLines)
  BY <1>1 DEF UsageTypes, LogStates
<1> HIDE DEF LogLines
<1>3. PICK cut \in BOOLEAN : log' = [log EXCEPT !.lines = Append(@, Line(log.count + 1, r, m, out)),
                                                 !.count = @ + 1, !.cut = cut]
  BY DEF Write
<1> DEFINE l == Line(log.count + 1, r, m, out)  ls == Append(log.lines, l)  n == log.count + 1
<1>4. n \in Nat /\ ls \in Seq(LogLines) /\ l \in LogLines
  BY <1>1, <1>2 DEF UsageTypes, LogStates
<1>5. /\ log' = [log EXCEPT !.lines = ls, !.count = n, !.cut = cut]
      /\ log \in LogStates
  BY <1>3 DEF UsageTypes
<1>6. ~log.cut /\ Len(log.lines) < MaxLines
  BY DEF Write
<1> HIDE DEF l, ls, n
<1>7. /\ log' \in LogStates
      /\ log'.path = log.path /\ log'.count = n /\ log'.lines = ls
  BY <1>4, <1>5 DEF LogStates
<1> QED
  BY <1>4, <1>6, <1>7 DEF l, ls, n

\* Every step keeps the types.
LEMMA UsageTypesStep == UsageInv /\ [UsageNext]_usageVars => UsageTypes'
<1> SUFFICES ASSUME UsageInv, [UsageNext]_usageVars PROVE UsageTypes'
  OBVIOUS
<1>0. UsageTypes /\ LogIsWhole
  BY DEF UsageInv
<1> USE <1>0, UsageBasics, FieldsAreWritten
<1>a. /\ client \in {"claude", "codex"} /\ now \in Nat
      /\ log \in LogStates
      /\ answer \in [Requests -> Answers]
      /\ up \in {"down", "starting", "up"} /\ lock \in Tasks \cup {Nothing}
      /\ pc \in [Tasks -> UsageSteps] /\ reader \in Readers
      /\ days \in [Tasks -> Lists]
      /\ events \in SUBSET UsageEvents /\ dirty \in SUBSET Int
      /\ cursor \in [LogPaths -> Cursors]
      /\ meta \in Metas
  BY DEF UsageTypes
<1>e. log.path \in LogPaths /\ log.cut \in BOOLEAN /\ log.lines \in Seq(LogLines)
  BY <1>a DEF LogStates
<1>b. OldestDay \in Int
  BY <1>a, DayFacts DEF OldestDay
<1>p. \A t \in Tasks, s \in UsageSteps : Proceed(t, s) => pc' \in [Tasks -> UsageSteps]
  BY DEF Proceed, UsageTypes
<1>1. CASE LogTurn
  <2>1. /\ UNCHANGED <<client, now, faults, usageDbVars, answer, taskVars>>
        /\ \E m \in Models : Write(Nothing, m, 0)
    BY <1>1 DEF LogTurn
  <2>2. log' \in LogStates
    BY <2>1, WriteIs
  <2> QED
    BY <2>1, <2>2 DEF UsageTypes, usageDbVars, taskVars
<1>2. CASE EndLine
  BY <1>2 DEF EndLine, UsageTypes, usageDbVars, taskVars
<1>3. CASE Archive
  BY <1>3 DEF Archive, UsageTypes, usageDbVars, taskVars
<1>4. CASE Rewrite
  <2>1. Tail(log.lines) \in Seq(LogLines)
    BY <1>4, <1>e DEF Rewrite
  <2> QED
    BY <1>4, <2>1 DEF Rewrite, UsageTypes, usageDbVars, taskVars
<1>5. CASE Tick
  BY <1>5 DEF Tick, UsageTypes, usageDbVars, taskVars
<1>6. ASSUME NEW r \in Requests, LogSpent(r) PROVE UsageTypes'
  <2>1. UNCHANGED <<client, now, faults, usageDbVars, answer, taskVars>>
    BY <1>6 DEF LogSpent
  <2>2. \E m \in Models \cup {Unknown}, out \in Nat : Write(r, m, out)
    BY <1>6 DEF LogSpent
  <2>3. log' \in LogStates
    BY <2>2, WriteIs
  <2> QED
    BY <2>1, <2>3 DEF UsageTypes, usageDbVars, taskVars
<1>7. ASSUME NEW r \in Proxied, Observe(r) PROVE UsageTypes'
  <2>1. answer' \in [Requests -> Answers]
    <3>1. \A whole \in BOOLEAN : [step |-> "open", at |-> now, whole |-> whole] \in Answers
      BY <1>a DEF Answers
    <3> QED
      BY <1>7, <3>1, <1>a DEF Observe
  <2> QED
    BY <1>7, <2>1 DEF Observe, UsageTypes, envVars, usageDbVars, taskVars
<1>8. ASSUME NEW r \in Proxied, Record(r) PROVE UsageTypes'
  <2>1. answer' \in [Requests -> Answers]
    <3>1. r \in Requests /\ [answer[r] EXCEPT !.step = "done"] \in Answers
      BY <1>a, UsageConstants
    <3> QED
      BY <1>8, <3>1, <1>a DEF Record
  <2>2. r \in Requests
    BY UsageConstants
  <2>3. events' \in SUBSET UsageEvents /\ dirty' \in SUBSET Int
    BY <1>8, <2>2, InsertedIs, ProxyEventIs DEF Record
  <2> QED
    BY <1>8, <2>1, <2>3 DEF Record, UsageTypes, envVars, taskVars
<1>9. CASE BeginSync
  <2>1. log.path \in LogPaths /\ cursor[log.path] \in Cursors
    BY <1>a, <1>e
  <2> DEFINE c == cursor[log.path]
  <2>2. Resume(c) \in Nat /\ (IF Resume(c) = 0 THEN Unknown ELSE c.knows) \in Models \cup {Unknown}
        /\ c.set \in BOOLEAN
    BY <2>1 DEF Resume, Cursors
  <2> HIDE DEF c
  <2>3. reader' = [at |-> Resume(c), path |-> log.path, saved |-> c.set,
                   knows |-> IF Resume(c) = 0 THEN Unknown ELSE c.knows]
    BY <1>9 DEF BeginSync, c
  <2>4. reader' \in Readers
    BY <2>1, <2>2, <2>3 DEF Readers
  <2>5. pc' \in [Tasks -> UsageSteps]
    BY <1>9, <1>p DEF BeginSync, UsageSteps
  <2> QED
    BY <1>9, <2>4, <2>5 DEF BeginSync, UsageTypes, envVars, usageDbVars
<1>s. ASSUME Step, reader.at < Whole PROVE reader' \in Readers
  <2>1. NextLine \in LogLines
    BY <1>s, LogReads DEF NextLine
  <2>2. (IF client = "claude" THEN Unknown ELSE Known(reader.knows, NextLine)) \in Models \cup {Unknown}
    BY <2>1, <1>a DEF Known, LogLines, Readers
  <2> DEFINE m == IF client = "claude" THEN Unknown ELSE Known(reader.knows, NextLine)
  <2>3. reader' = [reader EXCEPT !.at = reader.at + 1, !.knows = m]
    BY <1>s, <1>a DEF Step, Readers
  <2>4. m \in Models \cup {Unknown} /\ reader.at + 1 \in Nat
    BY <2>2, LogReads
  <2> HIDE DEF m
  <2> QED
    BY <2>3, <2>4, <1>a DEF Readers
<1>10. CASE ReadLine
  <2>1. reader' \in Readers
    BY <1>10, <1>s DEF ReadLine
  <2>2. NextLine \in LogLines /\ reader.knows \in Models \cup {Unknown}
    BY <1>10, <1>a, LogReads DEF ReadLine, NextLine, Readers
  <2>3. events' \in SUBSET UsageEvents /\ dirty' \in SUBSET Int
    <3>1. CASE UNCHANGED <<events, dirty>>
      BY <3>1, <1>a
    <3>2. CASE NextLine.req # Nothing /\ InsertEvent(SessionEvent(NextLine, reader.knows))
      BY <3>2, <2>2, SessionEventIs, InsertedIs
    <3> QED
      BY <1>10, <3>1, <3>2 DEF ReadLine
  <2> QED
    BY <1>10, <2>1, <2>3 DEF ReadLine, UsageTypes, envVars
<1>t. ASSUME NEW n \in 0 .. Len(log.lines), n = 0 \/ n <= Whole
      PROVE  TailPrint(n) \in LogLines \cup {Nothing}
  BY <1>t, LogReads DEF TailPrint
<1>11. CASE SaveCursor
  <2>1. TailPrint(reader.at) \in LogLines \cup {Nothing}
    BY <1>11, <1>t, LogReads DEF SaveCursor
  <2>2. [at |-> reader.at, print |-> TailPrint(reader.at), knows |-> reader.knows, set |-> TRUE] \in Cursors
    BY <2>1, <1>a DEF Cursors, Readers
  <2>3. cursor' \in [LogPaths -> Cursors]
    BY <1>11, <2>2, <1>a DEF SaveCursor
  <2>4. pc' \in [Tasks -> UsageSteps]
    BY <1>11, <1>p DEF SaveCursor, UsageSteps
  <2> QED
    BY <1>11, <2>3, <2>4 DEF SaveCursor, UsageTypes, envVars
<1>12. ASSUME NEW t \in Tasks, CleanUp(t) PROVE UsageTypes'
  <2>1. pc' \in [Tasks -> UsageSteps]
    BY <1>12, <1>p DEF CleanUp, UsageSteps
  <2>2. events' \in SUBSET UsageEvents
        /\ meta' \in Metas
    BY <1>12, <1>a DEF CleanUp, Clean
  <2> QED
    BY <1>12, <2>1, <2>2 DEF CleanUp, UsageTypes, envVars
<1>c. ASSUME NEW t \in Tasks, Collects(t)
      PROVE  pc' \in [Tasks -> UsageSteps] /\ days' \in [Tasks -> Lists]
  <2>1. [left |-> dirty, oldest |-> OldestDay] \in Lists
    BY <1>a, <1>b DEF Lists
  <2>2. "roll" \in UsageSteps
    BY DEF UsageSteps
  <2> QED
    BY <1>c, <1>a, <2>1, <2>2, <1>p DEF Collects
<1>13. ASSUME NEW t \in Tasks, Collect(t) PROVE UsageTypes'
  BY <1>13, <1>c DEF Collect, UsageTypes, envVars, usageDbVars
<1>14. CASE Query
  BY <1>14, <1>c DEF Query, UsageTypes, envVars, usageDbVars
<1>15. ASSUME NEW t \in Tasks, NEW d \in days[t].left, RollUp(t, d) PROVE UsageTypes'
  <2>1. hourly \in [Days -> SUBSET Rollups]
    BY DEF UsageTypes
  <2>2. Summary(OnDay(events, d)) \in SUBSET Rollups
    BY <1>a DEF Summary, OnDay, UsageEvents, Rollups
  <2>3. hourly' \in [Days -> SUBSET Rollups]
    BY <1>15, <2>1, <2>2 DEF RollUp
  <2>4. days' \in [Tasks -> Lists]
    <3>1. days[t].left \ {d} \in SUBSET Int /\ days[t] \in Lists
      BY <1>a DEF Lists
    <3>2. days' = [days EXCEPT ![t] = [days[t] EXCEPT !.left = days[t].left \ {d}]]
      BY <1>15, <1>a DEF RollUp
    <3> QED
      BY <3>1, <3>2, <1>a
  <2>5. dirty' \in SUBSET Int
    BY <1>15, <1>a DEF RollUp
  <2> QED
    BY <1>15, <2>3, <2>4, <2>5 DEF RollUp, UsageTypes, envVars
<1>16. ASSUME NEW t \in Tasks, Refreshed(t) PROVE UsageTypes'
  <2>1. pc' \in [Tasks -> UsageSteps]
    BY <1>16, <1>p DEF Refreshed, UsageSteps
  <2>2. days' \in [Tasks -> Lists]
    BY <1>16, <1>a DEF Refreshed
  <2>3. meta' \in Metas
    <3>1. CASE t = "start"
      BY <1>16, <3>1, <1>a DEF Refreshed
    <3>2. CASE t = "repair"
      BY <1>16, <3>2, <1>a DEF Refreshed
    <3>3. CASE t # "start" /\ t # "repair"
      BY <1>16, <3>3, <1>a DEF Refreshed
    <3> QED
      BY <3>1, <3>2, <3>3
  <2>4. up' \in {"down", "starting", "up"} /\ lock' \in Tasks \cup {Nothing}
    BY <1>16, <1>a DEF Refreshed
  <2> QED
    BY <1>16, <2>1, <2>2, <2>3, <2>4 DEF Refreshed, UsageTypes, envVars
<1>17. CASE Start
  <2>1. pc' \in [Tasks -> UsageSteps]
    BY <1>17, <1>p DEF Start, UsageSteps
  <2>2. meta' \in Metas
    <3>1. meta' = meta \/ meta' = [meta EXCEPT !.started = now]
      BY <1>17 DEF Start
    <3> QED
      BY <3>1, <1>a
  <2>3. Whole \in 0 .. Len(log.lines)
    BY <1>0, LogReads DEF Whole, LogIsWhole
  <2>4. reader' \in Readers
    <3>1. KnownAt(Whole) \in Models \cup {Unknown} /\ Whole \in Nat /\ log.path \in LogPaths
      BY <2>3, <1>e, KnownIs, LogReads
    <3>2. [at |-> Whole, knows |-> KnownAt(Whole), path |-> log.path, saved |-> FALSE] \in Readers
      BY <3>1 DEF Readers
    <3>3. reader' = reader \/ reader' = [at |-> Whole, knows |-> KnownAt(Whole), path |-> log.path, saved |-> FALSE]
      BY <1>17 DEF Start
    <3> QED
      BY <3>2, <3>3, <1>a
  <2> QED
    BY <1>17, <2>1, <2>2, <2>4 DEF Start, UsageTypes, envVars
<1>18. CASE SaveFirst
  <2>1. reader.at \in 0 .. Len(log.lines) /\ reader.at <= Whole
    BY <1>18, LogReads, <1>a DEF UsageInv, ReaderKnows, Reads, SaveFirst, Readers
  <2>2. TailPrint(reader.at) \in LogLines \cup {Nothing}
    BY <2>1, <1>t
  <2>3. [at |-> reader.at, print |-> TailPrint(reader.at), knows |-> reader.knows, set |-> TRUE] \in Cursors
    BY <2>2, <1>a DEF Cursors, Readers
  <2>4. cursor' \in [LogPaths -> Cursors] /\ reader' \in Readers
    BY <1>18, <2>3, <1>a DEF SaveFirst
  <2>5. pc' \in [Tasks -> UsageSteps]
    BY <1>18, <1>p DEF SaveFirst, UsageSteps
  <2> QED
    BY <1>18, <2>4, <2>5 DEF SaveFirst, UsageTypes, envVars
<1>19. CASE Backfill
  <2>1. pc' \in [Tasks -> UsageSteps]
    BY <1>19, <1>p DEF Backfill, UsageSteps
  <2>2. dirty' \in SUBSET Int
    <3>1. \A e \in events : Day(e.at) \in Int
      BY <1>a, DayFacts DEF UsageEvents
    <3>2. dirty' = dirty \/ dirty' = dirty \cup {Day(e.at) : e \in events}
      BY <1>19 DEF Backfill
    <3> QED
      BY <3>1, <3>2, <1>a
  <2>3. up' \in {"down", "starting", "up"} /\ lock' \in Tasks \cup {Nothing}
    BY <1>19, <1>a DEF Backfill
  <2> QED
    BY <1>19, <2>1, <2>2, <2>3 DEF Backfill, UsageTypes, envVars
<1>20. CASE BeginRepair
  <2>1. pc' \in [Tasks -> UsageSteps]
    BY <1>20, <1>p DEF BeginRepair, UsageSteps
  <2>2. reader' \in Readers
    <3>1. [NoReader EXCEPT !.path = log.path] \in Readers
      BY <1>e DEF Readers, NoReader
    <3>2. reader' = reader \/ reader' = [NoReader EXCEPT !.path = log.path]
      BY <1>20 DEF BeginRepair
    <3> QED
      BY <3>1, <3>2, <1>a
  <2>3. meta' \in Metas
    BY <1>20, <1>a DEF BeginRepair
  <2> QED
    BY <1>20, <2>1, <2>2, <2>3 DEF BeginRepair, UsageTypes, envVars
<1>21. CASE RepairLine
  <2>1. reader' \in Readers
    BY <1>21, <1>s DEF RepairLine
  <2>2. NextLine \in LogLines /\ reader.knows \in Models \cup {Unknown}
    BY <1>21, <1>a, LogReads DEF RepairLine, NextLine, Readers
  <2>3. events' \in SUBSET UsageEvents /\ dirty' \in SUBSET Int
    <3>1. CASE UNCHANGED <<events, dirty>>
      BY <3>1, <1>a
    <3>2. CASE NextLine.req # Nothing /\ Relabel(NextLine, reader.knows)
      <4> DEFINE k == SessionKey(NextLine, reader.knows)  m == reader.knows
      <4>1. k \in EventKeys /\ m \in Models \cup {Unknown}
        BY <2>2, <3>2, SessionEventIs
      <4>2. Day(NextLine.at) \in Int
        BY <2>2, DayFacts DEF LogLines
      <4>3. \A x \in UsageEvents : [x EXCEPT !.model = m, !.key = k] \in UsageEvents
        <5> HIDE DEF k, m
        <5> QED
          BY <4>1 DEF UsageEvents
      <4>4. \A y \in events' : y \in events \/ \E x \in events : y = [x EXCEPT !.model = m, !.key = k]
        <5>1. \A y \in events' :
              \/ y \in events /\ y.key # SessionKey(NextLine, Unknown)
              \/ \E x \in events : /\ x.key = SessionKey(NextLine, Unknown)
                                   /\ y = [x EXCEPT !.model = reader.knows, !.key = SessionKey(NextLine, reader.knows)]
                                   /\ \A z \in events : z.key # SessionKey(NextLine, reader.knows)
          BY ONLY <3>2, RelabelIs
        <5> QED
          BY <5>1
      <4>5. dirty' = dirty \/ dirty' = dirty \cup {Day(NextLine.at)}
        BY <3>2, RelabelIs
      <4> HIDE DEF k, m
      <4>6. events' \in SUBSET UsageEvents
        <5> SUFFICES ASSUME NEW y \in events' PROVE y \in UsageEvents
          OBVIOUS
        <5>1. CASE y \in events
          BY <5>1, <1>a
        <5>2. ASSUME NEW x \in events, y = [x EXCEPT !.model = m, !.key = k] PROVE y \in UsageEvents
          <6>1. x \in UsageEvents
            BY <1>a
          <6> QED
            BY <4>3, <5>2, <6>1
        <5> QED
          BY <4>4, <5>1, <5>2
      <4> QED
        BY <4>2, <4>5, <4>6, <1>a
    <3> QED
      BY <1>21, <3>1, <3>2 DEF RepairLine
  <2> QED
    BY <1>21, <2>1, <2>3 DEF RepairLine, UsageTypes, envVars
<1>22. CASE EndRepair
  <2>1. pc' \in [Tasks -> UsageSteps]
    BY <1>22, <1>p DEF EndRepair, UsageSteps
  <2> DEFINE c == cursor[reader.path]
  <2>2. reader.path \in LogPaths /\ c \in Cursors
    BY <1>a DEF Readers
  <2>3. cursor' \in [LogPaths -> Cursors]
    <3>1. CASE c.at <= reader.at
      <4>1. reader.at <= Len(log.lines)
        BY <1>22, LogReads DEF EndRepair
      <4>2. c.at \in 0 .. Len(log.lines)
        <5>1. c.at \in Nat /\ reader.at \in Nat /\ Len(log.lines) \in Nat
          BY <2>2, <1>a, LogReads DEF Cursors, Readers
        <5> HIDE DEF c
        <5> QED
          BY <3>1, <4>1, <5>1
      <4>3. KnownAt(c.at) \in Models \cup {Unknown}
        BY <4>2, KnownIs
      <4>4. [c EXCEPT !.knows = KnownAt(c.at)] \in Cursors
        <5> HIDE DEF c
        <5> QED
          BY <2>2, <4>3 DEF Cursors
      <4>5. cursor' = cursor \/ cursor' = [cursor EXCEPT ![reader.path] = [c EXCEPT !.knows = KnownAt(c.at)]]
        BY <1>22, <2>2, <1>a DEF EndRepair
      <4> HIDE DEF c
      <4> QED
        BY <4>4, <4>5, <1>a
    <3>2. CASE ~(c.at <= reader.at)
      BY <1>22, <3>2, <1>a DEF EndRepair
    <3> QED
      BY <3>1, <3>2
  <2> QED
    BY <1>22, <2>1, <2>3 DEF EndRepair, UsageTypes, envVars
<1>23. CASE Crash
  <2>1. answer' \in [Requests -> Answers]
    <3>1. \A r \in Requests : [answer[r] EXCEPT !.step = "lost"] \in Answers
      BY <1>a
    <3> QED
      BY <1>23, <3>1, <1>a DEF Crash
  <2>2. pc' \in [Tasks -> UsageSteps] /\ days' \in [Tasks -> Lists]
    BY <1>23 DEF Crash, UsageSteps
  <2> QED
    BY <1>23, <2>1, <2>2 DEF Crash, UsageTypes, usageDbVars
<1>24. CASE UNCHANGED usageVars
  BY <1>24 DEF UsageTypes, usageVars, envVars, usageDbVars, taskVars
<1>25. CASE SkipRepair
  <2>1. pc' \in [Tasks -> UsageSteps] /\ meta' \in Metas
    BY <1>25, <1>p, <1>a DEF SkipRepair, UsageSteps
  <2> QED
    BY <1>25, <2>1 DEF SkipRepair, UsageTypes, envVars
<1>26. ASSUME NEW t \in Tasks, FailFile(t) PROVE UsageTypes'
  <2>1. pc' \in [Tasks -> UsageSteps] /\ meta' \in Metas /\ lock' \in Tasks \cup {Nothing}
    BY <1>26, <1>p, <1>a DEF FailFile, UsageSteps
  <2> QED
    BY <1>26, <2>1 DEF FailFile, UsageTypes
<1> QED
  BY <1>1, <1>2, <1>3, <1>4, <1>5, <1>6, <1>7, <1>8, <1>9, <1>10, <1>11, <1>12, <1>13, <1>14, <1>15,
     <1>16, <1>17, <1>18, <1>19, <1>20, <1>21, <1>22, <1>23, <1>24, <1>25, <1>26 DEF UsageNext

\* The tasks exclude each other.
LEMMA TasksStep == UsageInv /\ [UsageNext]_usageVars => TasksExclude'
<1> SUFFICES ASSUME UsageInv, [UsageNext]_usageVars PROVE TasksExclude'
  OBVIOUS
<1>0. /\ TasksExclude /\ pc \in [Tasks -> UsageSteps] /\ client \in {"claude", "codex"}
      /\ meta \in Metas
  BY DEF UsageInv, UsageTypes
<1>m. /\ \A t \in Int : [meta EXCEPT !.started = t].repaired = meta.repaired
      /\ \A t \in Int : [meta EXCEPT !.cleaned = t].repaired = meta.repaired
      /\ [meta EXCEPT !.rolled = TRUE].repaired = meta.repaired
      /\ [meta EXCEPT !.repaired = TRUE].repaired = TRUE
      /\ \A b \in BOOLEAN : [meta EXCEPT !.unread = b].repaired = meta.repaired
  BY <1>0 DEF Metas
<1>p. \A t \in Tasks, s \in UsageSteps : Proceed(t, s) =>
        pc'[t] = s /\ \A u \in Tasks : u # t => pc'[u] = pc[u]
  BY <1>0 DEF Proceed
<1>t. Tasks = {"start", "sync", "repair", "query"}
  BY DEF Tasks
<1>u. UsageSteps = {"idle", "save", "clean", "backfill", "collect", "roll", "read"}
  BY DEF UsageSteps
<1>v. now \in Int
  BY DEF UsageInv, UsageTypes
<1> USE DEF TasksExclude
<1>1. CASE LogTurn \/ EndLine \/ Archive \/ Rewrite \/ Tick \/ (\E r \in Requests : LogSpent(r))
           \/ (\E r \in Proxied : Observe(r) \/ Record(r)) \/ UNCHANGED usageVars
  <2>1. UNCHANGED <<client, pc, up, lock, meta>>
    BY <1>1 DEF LogTurn, EndLine, Archive, Rewrite, Tick, LogSpent, Observe, Record, usageVars,
                envVars, usageDbVars, taskVars
  <2> QED
    BY <2>1, <1>0
<1>2. CASE BeginSync
  <2>1. UNCHANGED <<client, meta, up>> /\ pc["sync"] = "idle" /\ lock = Nothing /\ up = "up"
        /\ lock' = "sync" /\ Proceed("sync", "read")
    BY <1>2 DEF BeginSync, envVars, usageDbVars
  <2> QED
    BY <2>1, <1>0, <1>p, <1>t, <1>u, UsageBasics
<1>3. CASE ReadLine \/ RepairLine
  <2>1. UNCHANGED <<client, pc, up, lock, meta>>
    BY <1>3 DEF ReadLine, RepairLine, envVars
  <2> QED
    BY <2>1, <1>0
<1>4. CASE SaveCursor
  <2>1. UNCHANGED <<client, meta, up, lock>> /\ pc["sync"] = "read" /\ Proceed("sync", "clean")
    BY <1>4 DEF SaveCursor, envVars
  <2> QED
    BY <2>1, <1>0, <1>p, <1>t, <1>u
<1>5. CASE Query
  <2>1. UNCHANGED <<client, meta, up, lock>> /\ pc["query"] = "idle" /\ Proceed("query", "roll")
    BY <1>5 DEF Query, Collects, envVars, usageDbVars
  <2> QED
    BY <2>1, <1>0, <1>p, <1>t, <1>u
<1>6. ASSUME NEW t \in Tasks, CleanUp(t) PROVE TasksExclude'
  <2>1. UNCHANGED <<client, up, lock>> /\ pc[t] = "clean" /\ t \in {"start", "sync"}
        /\ meta'.repaired = meta.repaired
        /\ Proceed(t, IF t = "start" THEN "backfill" ELSE "collect")
    BY <1>6, <1>m, <1>v DEF CleanUp, envVars
  <2>2. CASE t = "start"
    BY <2>1, <2>2, <1>0, <1>p, <1>t, <1>u
  <2>3. CASE t = "sync"
    BY <2>1, <2>3, <1>0, <1>p, <1>t, <1>u
  <2> QED
    BY <2>1, <2>2, <2>3
<1>7. ASSUME NEW t \in Tasks, Collect(t) PROVE TasksExclude'
  <2>1. UNCHANGED <<client, meta, up, lock>> /\ pc[t] = "collect" /\ Proceed(t, "roll")
    BY <1>7 DEF Collect, Collects, envVars, usageDbVars
  <2> QED
    BY <2>1, <1>0, <1>p, <1>t, <1>u
<1>8. ASSUME NEW t \in Tasks, Refreshed(t) PROVE TasksExclude'
  <2>1. /\ client' = client /\ pc[t] = "roll" /\ Proceed(t, "idle")
        /\ lock' = IF t \in {"start", "sync"} THEN Nothing ELSE lock
        /\ up' = IF t = "start" THEN "up" ELSE up
    BY <1>8 DEF Refreshed, envVars
  <2>2. CASE t = "start"
    <3>1. meta' = [meta EXCEPT !.rolled = TRUE]
      BY <1>8, <2>2 DEF Refreshed
    <3> QED
      BY <2>1, <2>2, <3>1, <1>0, <1>m, <1>p, <1>t, <1>u, UsageBasics
  <2>3. CASE t = "repair"
    <3>1. meta' = [meta EXCEPT !.repaired = TRUE]
      BY <1>8, <2>3 DEF Refreshed
    <3> QED
      BY <2>1, <2>3, <3>1, <1>0, <1>m, <1>p, <1>t, <1>u
  <2>4. CASE t = "sync" \/ t = "query"
    <3>1. meta' = meta
      BY <1>8, <2>4 DEF Refreshed
    <3> QED
      BY <2>1, <2>4, <3>1, <1>0, <1>p, <1>t, <1>u, UsageBasics
  <2> QED
    BY <2>2, <2>3, <2>4, <1>t
<1>9. ASSUME NEW t \in Tasks, NEW d \in days[t].left, RollUp(t, d) PROVE TasksExclude'
  <2>1. UNCHANGED <<client, pc, up, lock, meta>>
    BY <1>9 DEF RollUp, envVars
  <2> QED
    BY <2>1, <1>0
<1>10. CASE Start
  <2>1. /\ client' = client /\ up = "down" /\ up' = "starting" /\ lock' = "start"
        /\ meta'.repaired = meta.repaired
        /\ Proceed("start", "save") \/ Proceed("start", "clean")
    BY <1>10, <1>m, <1>v DEF Start, envVars
  <2> QED
    BY <2>1, <1>0, <1>p, <1>t, <1>u
<1>11. CASE SaveFirst
  <2>1. UNCHANGED <<client, meta, up, lock>> /\ pc["start"] = "save" /\ Proceed("start", "clean")
    BY <1>11 DEF SaveFirst, envVars
  <2> QED
    BY <2>1, <1>0, <1>p, <1>t, <1>u
<1>12. CASE Backfill
  <2>1. /\ UNCHANGED <<client, meta>> /\ pc["start"] = "backfill"
        /\ \/ up' = "up" /\ lock' = Nothing /\ Proceed("start", "idle")
           \/ UNCHANGED <<up, lock>> /\ Proceed("start", "collect")
    BY <1>12 DEF Backfill, envVars
  <2> QED
    BY <2>1, <1>0, <1>p, <1>t, <1>u
<1>13. CASE BeginRepair
  <2>1. /\ UNCHANGED <<client, up>> /\ up = "up" /\ pc["repair"] = "idle" /\ ~meta.repaired
        /\ meta'.repaired = meta.repaired /\ lock = Nothing
        /\ \/ client = "codex" /\ lock' = "repair" /\ Proceed("repair", "read")
           \/ lock' = lock /\ Proceed("repair", "collect")
    BY <1>13, <1>m DEF BeginRepair, envVars
  <2> QED
    BY <2>1, <1>0, <1>p, <1>t, <1>u, UsageBasics
<1>14. CASE EndRepair
  <2>1. UNCHANGED <<client, meta, up>> /\ lock' = Nothing /\ pc["repair"] = "read" /\ Proceed("repair", "collect")
    BY <1>14 DEF EndRepair, envVars
  <2> QED
    BY <2>1, <1>0, <1>p, <1>t, <1>u, UsageBasics
<1>15. CASE Crash
  <2>1. /\ UNCHANGED <<client, meta>> /\ up' = "down" /\ lock' = Nothing
        /\ pc' = [t \in Tasks |-> "idle"]
    BY <1>15 DEF Crash, usageDbVars
  <2> QED
    BY <2>1, <1>0, <1>t
<1>16. CASE SkipRepair
  <2>1. /\ UNCHANGED <<client, up, lock>> /\ up = "up" /\ pc["repair"] = "idle" /\ ~meta.repaired
        /\ meta'.repaired = meta.repaired /\ Proceed("repair", "collect")
    BY <1>16, <1>m DEF SkipRepair, envVars
  <2> QED
    BY <2>1, <1>0, <1>p, <1>t, <1>u
<1>17. ASSUME NEW t \in Tasks, FailFile(t) PROVE TasksExclude'
  <2>1. /\ UNCHANGED <<client, up>> /\ t \in {"sync", "repair"} /\ pc[t] = "read"
        /\ meta'.repaired = meta.repaired
        /\ Proceed(t, IF t = "sync" THEN "clean" ELSE "collect")
        /\ lock' = IF t = "sync" THEN lock ELSE Nothing
    BY <1>17, <1>m DEF FailFile
  <2>2. CASE t = "sync"
    BY <2>1, <2>2, <1>0, <1>p, <1>t, <1>u
  <2>3. CASE t = "repair"
    BY <2>1, <2>3, <1>0, <1>p, <1>t, <1>u, UsageBasics
  <2> QED
    BY <2>1, <2>2, <2>3
<1> QED
  BY <1>1, <1>2, <1>3, <1>4, <1>5, <1>6, <1>7, <1>8, <1>9, <1>10, <1>11, <1>12, <1>13, <1>14, <1>15,
     <1>16, <1>17 DEF UsageNext

-----------------------------------------------------------------------------
(* The model in force after some lines.                                     *)

\* The model in force, as an operator of the client and the lines.
LEMMA KnownAtIs ==
  /\ \A n : KnownAt(n) = KnownIn(client, log.lines, n)
  /\ \A n : KnownAt(n)' = KnownIn(client', log'.lines, n)
BY DEF KnownAt, KnownIn, LastTurn, LastIn

\* The model in force is that of the last line that names one.
LEMMA KnownLast ==
  ASSUME NEW c, c # "claude", NEW ls, NEW n \in Nat, NEW i \in 1..n, LastIn(ls, i, n)
  PROVE  KnownIn(c, ls, n) = ls[i].model
<1>1. LastIn(ls, CHOOSE k \in 1..n : LastIn(ls, k, n), n)
  OBVIOUS
<1>2. \A j, k \in 1..n : LastIn(ls, j, n) /\ LastIn(ls, k, n) => j = k
  <2> SUFFICES ASSUME NEW j \in 1..n, NEW k \in 1..n, LastIn(ls, j, n), LastIn(ls, k, n), j < k PROVE FALSE
    OBVIOUS
  <2>1. k \in j + 1 .. n
    OBVIOUS
  <2> QED
    BY <2>1 DEF LastIn
<1>3. (CHOOSE k \in 1..n : LastIn(ls, k, n)) = i
  BY <1>1, <1>2
<1>4. ~(\A j \in 1..n : ls[j].req # Nothing)
  BY DEF LastIn
<1> QED
  BY <1>3, <1>4 DEF KnownIn

\* Where no line names a model, none is in force.
LEMMA KnownNothing ==
  /\ \A ls, n : KnownIn("claude", ls, n) = Unknown
  /\ \A c, ls, n : (\A i \in 1..n : ls[i].req # Nothing) => KnownIn(c, ls, n) = Unknown
  /\ \A c, ls : KnownIn(c, ls, 0) = Unknown
BY DEF KnownIn

\* It is the model of the lines up to there.
LEMMA KnownOfPrefix ==
  ASSUME NEW c, NEW ls, NEW ks, NEW n \in Nat, \A i \in 1..n : ls[i] = ks[i], c # "claude" => HasLast(ls, n)
  PROVE  KnownIn(c, ks, n) = KnownIn(c, ls, n) /\ (c # "claude" => HasLast(ks, n))
<1>1. CASE c = "claude"
  BY <1>1, KnownNothing
<1>2. CASE c # "claude" /\ \A i \in 1..n : ls[i].req # Nothing
  <2>1. \A i \in 1..n : ks[i].req # Nothing
    BY <1>2
  <2> QED
    BY <1>2, <2>1, KnownNothing DEF HasLast
<1>3. CASE c # "claude" /\ ~\A i \in 1..n : ls[i].req # Nothing
  <2>1. PICK i \in 1..n : LastIn(ls, i, n)
    BY <1>3 DEF HasLast
  <2>2. LastIn(ks, i, n)
    <3>1. \A j \in i + 1 .. n : j \in 1..n
      OBVIOUS
    <3> QED
      BY <2>1, <3>1 DEF LastIn
  <2>3. KnownIn(c, ls, n) = ls[i].model /\ KnownIn(c, ks, n) = ks[i].model
    BY <1>3, <2>1, <2>2, KnownLast
  <2> QED
    BY <2>2, <2>3 DEF HasLast
<1> QED
  BY <1>1, <1>2, <1>3

\* One line further, it is what the parser knows.
LEMMA KnownNext ==
  ASSUME NEW c, c # "claude", NEW ls, NEW n \in Nat, HasLast(ls, n)
  PROVE  /\ KnownIn(c, ls, n + 1) = Known(KnownIn(c, ls, n), ls[n + 1])
         /\ HasLast(ls, n + 1)
<1>1. CASE ls[n + 1].req = Nothing
  <2>1. LastIn(ls, n + 1, n + 1) /\ n + 1 \in 1 .. n + 1
    BY <1>1 DEF LastIn
  <2>2. KnownIn(c, ls, n + 1) = ls[n + 1].model
    BY <2>1, KnownLast
  <2> QED
    BY <1>1, <2>1, <2>2 DEF Known, HasLast
<1>2. CASE ls[n + 1].req # Nothing /\ \A i \in 1..n : ls[i].req # Nothing
  <2>1. \A i \in 1 .. n + 1 : i = n + 1 \/ i \in 1..n
    OBVIOUS
  <2>2. \A i \in 1 .. n + 1 : ls[i].req # Nothing
    BY <1>2, <2>1
  <2> QED
    BY <1>2, <2>2, KnownNothing DEF Known, HasLast
<1>3. CASE ls[n + 1].req # Nothing /\ ~\A i \in 1..n : ls[i].req # Nothing
  <2>1. PICK i \in 1..n : LastIn(ls, i, n)
    BY <1>3 DEF HasLast
  <2>2. i \in 1 .. n + 1 /\ LastIn(ls, i, n + 1)
    <3>1. \A j \in i + 1 .. n + 1 : j = n + 1 \/ j \in i + 1 .. n
      OBVIOUS
    <3> QED
      BY <1>3, <2>1, <3>1 DEF LastIn
  <2>3. KnownIn(c, ls, n) = ls[i].model /\ KnownIn(c, ls, n + 1) = ls[i].model
    BY <2>1, <2>2, KnownLast
  <2> QED
    BY <1>3, <2>2, <2>3 DEF Known, HasLast
<1> QED
  BY <1>1, <1>2, <1>3

-----------------------------------------------------------------------------
(* What a step does to the log.                                             *)

LogOnly == UNCHANGED <<client, now, usageDbVars, answer, taskVars>>
LogAppends(l) ==
  /\ LogOnly /\ ~log.cut /\ Len(log.lines) < MaxLines
  /\ l.id = log.count + 1 /\ l.at = now
  /\ log'.path = log.path /\ log'.count = log.count + 1 /\ log'.lines = Append(log.lines, l)
  /\ l.req = Nothing => client = "codex" /\ l.model \in Models
  /\ l.req # Nothing => l.req \in Requests /\ l.out \in 1 .. MaxOut /\ MayDate(l.req)
  /\ l.req # Nothing /\ client = "claude" => l.model = ModelOf[l.req]
  /\ l.req # Nothing /\ client = "codex" =>
       /\ l.out = 1 /\ KnownAt(Len(log.lines)) = ModelOf[l.req]
       /\ \A i \in 1 .. Len(log.lines) : log.lines[i].req # l.req
LogEnds ==
  /\ LogOnly /\ log.cut /\ ~log'.cut
  /\ log'.lines = log.lines /\ log'.count = log.count /\ log'.path = log.path
LogMoves ==
  /\ LogOnly /\ client = "codex" /\ log'.path = "archived_sessions"
  /\ log'.lines = log.lines /\ log'.count = log.count /\ log'.cut = log.cut
LogShrinks ==
  /\ LogOnly /\ client = "claude" /\ Len(log.lines) > 1 /\ ~log.cut /\ ~log'.cut
  /\ pc["sync"] # "read" /\ pc["start"] # "save"
  /\ log'.lines = Tail(log.lines) /\ log'.count = log.count /\ log'.path = log.path

\* A step leaves the log, appends a line, ends one, moves the file or drops its first line.
LEMMA LogSteps ==
  ASSUME UsageTypes, [UsageNext]_usageVars
  PROVE  /\ client' = client
         /\ log' = log \/ (\E l \in LogLines : LogAppends(l)) \/ LogEnds \/ LogMoves \/ LogShrinks
<1>0. log \in LogStates /\ client \in {"claude", "codex"} /\ Len(log.lines) \in Nat
      /\ DOMAIN log.lines = 1 .. Len(log.lines)
  BY LogReads DEF UsageTypes
<1>1. CASE LogTurn
  <2>1. PICK m \in Models : Write(Nothing, m, 0)
    BY <1>1 DEF LogTurn
  <2> DEFINE l == Line(log.count + 1, Nothing, m, 0)
  <2>2. l \in LogLines /\ ~log.cut /\ Len(log.lines) < MaxLines /\ log'.path = log.path
        /\ log'.count = log.count + 1 /\ log'.lines = Append(log.lines, l)
    BY <2>1, WriteIs
  <2>3. l.id = log.count + 1 /\ l.at = now /\ l.req = Nothing /\ l.model = m
    BY DEF Line
  <2> HIDE DEF l
  <2>4. client = "codex" /\ LogOnly
    BY <1>1 DEF LogTurn, LogOnly
  <2>5. LogAppends(l)
    BY <2>2, <2>3, <2>4 DEF LogAppends
  <2> QED
    BY <2>2, <2>4, <2>5 DEF LogOnly
<1>2. ASSUME NEW r \in Requests, LogSpent(r)
      PROVE  client' = client /\ \E l \in LogLines : LogAppends(l)
  <2> DEFINE seen == {log.lines[i].out : i \in {j \in DOMAIN log.lines : log.lines[j].req = r}}
  <2>0. LogOnly
    BY <1>2 DEF LogSpent, LogOnly
  <2>1. CASE client = "codex"
    <3> DEFINE l == Line(log.count + 1, r, Unknown, 1)
    <3>1. seen = {} /\ KnownAt(Len(log.lines)) = ModelOf[r] /\ Write(r, Unknown, 1)
      BY <1>2, <2>1 DEF LogSpent
    <3>2. \A i \in 1 .. Len(log.lines) : log.lines[i].req # r
      BY <3>1, <1>0
    <3>3. l \in LogLines /\ ~log.cut /\ Len(log.lines) < MaxLines /\ log'.path = log.path
          /\ log'.count = log.count + 1 /\ log'.lines = Append(log.lines, l)
      BY <3>1, WriteIs
    <3>4. l.id = log.count + 1 /\ l.at = now /\ l.req = r /\ l.out = 1
      BY DEF Line
    <3>5. 1 \in 1 .. MaxOut /\ r # Nothing /\ client # "claude" /\ MayDate(r)
      BY <1>2, <2>1, UsageBasics DEF LogSpent
    <3> HIDE DEF l
    <3>6. LogAppends(l)
      BY <2>0, <2>1, <3>1, <3>2, <3>3, <3>4, <3>5 DEF LogAppends
    <3> QED
      BY <2>0, <3>3, <3>6 DEF LogOnly
  <2>2. CASE client = "claude"
    <3>1. PICK out \in 1 .. MaxOut : Write(r, ModelOf[r], out)
      BY <1>2, <2>2 DEF LogSpent
    <3> DEFINE l == Line(log.count + 1, r, ModelOf[r], out)
    <3>3. l \in LogLines /\ ~log.cut /\ Len(log.lines) < MaxLines /\ log'.path = log.path
          /\ log'.count = log.count + 1 /\ log'.lines = Append(log.lines, l)
      BY <3>1, WriteIs, UsageBasics
    <3>4. l.id = log.count + 1 /\ l.at = now /\ l.req = r /\ l.out = out /\ l.model = ModelOf[r]
      BY DEF Line
    <3>5. r # Nothing /\ client # "codex" /\ MayDate(r)
      BY <1>2, <2>2, UsageBasics DEF LogSpent
    <3> HIDE DEF l
    <3>6. LogAppends(l)
      BY <2>0, <2>2, <3>3, <3>4, <3>5 DEF LogAppends
    <3> QED
      BY <2>0, <3>3, <3>6 DEF LogOnly
  <2> QED
    BY <1>0, <2>1, <2>2
<1>3. CASE EndLine
  BY <1>3, <1>0 DEF EndLine, LogEnds, LogOnly, LogStates
<1>4. CASE Archive
  BY <1>4, <1>0 DEF Archive, LogMoves, LogOnly, LogStates
<1>5. CASE Rewrite
  BY <1>5, <1>0 DEF Rewrite, LogShrinks, LogOnly, LogStates
<1>6. CASE Tick \/ (\E r \in Proxied : Observe(r) \/ Record(r)) \/ BeginSync \/ ReadLine
           \/ SaveCursor \/ Query \/ Start \/ SaveFirst \/ Backfill \/ BeginRepair \/ SkipRepair
           \/ RepairLine \/ EndRepair \/ Crash \/ UNCHANGED usageVars
  BY <1>6 DEF Tick, Observe, Record, BeginSync, ReadLine, SaveCursor, Query, Start, SaveFirst,
              Backfill, BeginRepair, SkipRepair, RepairLine, EndRepair, Crash, usageVars, envVars
<1>7. ASSUME NEW t \in Tasks,
             CleanUp(t) \/ Collect(t) \/ Refreshed(t) \/ FailFile(t) \/ \E d \in days[t].left : RollUp(t, d)
      PROVE  client' = client /\ log' = log
  BY <1>7 DEF CleanUp, Collect, Refreshed, FailFile, RollUp, envVars
<1> QED
  BY <1>1, <1>2, <1>3, <1>4, <1>5, <1>6, <1>7 DEF UsageNext, LogOnly

\* Time never goes back, and passes in Tick alone.
LEMMA TimeGrows ==
  ASSUME UsageTypes, [UsageNext]_usageVars
  PROVE  now' \in Nat /\ now <= now' /\ (now' # now => Tick)
<1>0. now \in Nat
  BY DEF UsageTypes
<1>1. CASE LogTurn \/ EndLine \/ Archive \/ Rewrite \/ (\E r \in Requests : LogSpent(r))
           \/ (\E r \in Proxied : Observe(r) \/ Record(r)) \/ BeginSync \/ ReadLine
           \/ SaveCursor \/ Query \/ Start \/ SaveFirst \/ Backfill \/ BeginRepair \/ SkipRepair
           \/ RepairLine \/ EndRepair \/ Crash \/ UNCHANGED usageVars
  <2>1. now' = now
    BY <1>1 DEF LogTurn, EndLine, Archive, Rewrite, LogSpent, Observe, Record, BeginSync, ReadLine,
              SaveCursor, Query, Start, SaveFirst, Backfill, BeginRepair, SkipRepair, RepairLine, EndRepair,
              Crash, usageVars, envVars
  <2> QED
    BY <1>0, <2>1
<1>2. ASSUME NEW t \in Tasks,
             CleanUp(t) \/ Collect(t) \/ Refreshed(t) \/ FailFile(t) \/ \E d \in days[t].left : RollUp(t, d)
      PROVE  now' = now
  BY <1>2 DEF CleanUp, Collect, Refreshed, FailFile, RollUp, envVars
<1>3. CASE Tick
  BY <1>0, <1>3 DEF Tick
<1> QED
  BY <1>0, <1>1, <1>2, <1>3 DEF UsageNext

\* A line stays whole while lines and time are added.
LEMMA LineStays ==
  ASSUME NEW l \in LogLines, NEW who, NEW count \in Nat, NEW more \in Nat, count <= more,
         NEW time \in Nat, NEW later \in Nat, time <= later, LineIsWhole(l, who, count, time)
  PROVE  LineIsWhole(l, who, more, later) /\ l.id \in Nat /\ l.id <= count
BY DEF LineIsWhole, LogLines

\* Every step keeps the log whole.
LEMMA LogStep == UsageInv /\ [UsageNext]_usageVars => LogIsWhole'
<1> SUFFICES ASSUME UsageInv, [UsageNext]_usageVars PROVE LogIsWhole'
  OBVIOUS
<1> DEFINE n == Len(log.lines)
<1>0. UsageTypes /\ LogIsWhole
  BY DEF UsageInv
<1>t. now \in Nat /\ now' \in Nat /\ now <= now' /\ client' = client /\ client \in {"claude", "codex"}
  BY <1>0, TimeGrows, LogSteps DEF UsageTypes
<1>l. /\ n \in Nat /\ \A i \in 1 .. n : log.lines[i] \in LogLines
      /\ log \in LogStates /\ log.count \in Nat /\ log.lines \in Seq(LogLines)
  BY <1>0, LogReads DEF LogStates
<1>a. /\ n <= MaxLines /\ (log.cut => n > 0)
      /\ \A i \in 1 .. n : LineIsWhole(log.lines[i], client, log.count, now)
      /\ client = "claude" => \A i, j \in 1 .. n : i < j => log.lines[i].id < log.lines[j].id
      /\ client = "codex" =>
           /\ \A i, j \in 1 .. n : log.lines[i].req # Nothing /\ log.lines[i].req = log.lines[j].req => i = j
           /\ \A k \in 0 .. n : HasLast(log.lines, k)
           /\ \A i \in 1 .. n : log.lines[i].req # Nothing => KnownAt(i - 1) = ModelOf[log.lines[i].req]
  BY <1>0 DEF LogIsWhole
<1>w. ASSUME NEW l \in LogLines, LineIsWhole(l, client, log.count, now), log'.count \in Nat, log'.count >= log.count
      PROVE  LineIsWhole(l, client', log'.count, now')
  BY <1>w, <1>t, <1>l, LineStays
<1>1. CASE log'.lines = log.lines /\ log'.count = log.count /\ (log'.cut => log.cut)
  <2>1. \A i \in 1 .. n : LineIsWhole(log.lines[i], client', log'.count, now')
    BY <1>a, <1>w, <1>1, <1>l
  <2>2. \A k : KnownAt(k)' = KnownAt(k)
    BY <1>1, <1>t, KnownAtIs
  <2> QED
    BY <1>a, <1>1, <1>t, <2>1, <2>2 DEF LogIsWhole
<1>2. ASSUME NEW l \in LogLines, LogAppends(l) PROVE LogIsWhole'
  <2>1. /\ ~log.cut /\ n < MaxLines /\ l.id = log.count + 1 /\ l.at = now
        /\ log'.count = log.count + 1 /\ log'.lines = Append(log.lines, l)
        /\ l.req = Nothing => client = "codex" /\ l.model \in Models
        /\ l.req # Nothing => l.out \in 1 .. MaxOut
        /\ l.req # Nothing /\ client = "claude" => l.model = ModelOf[l.req]
        /\ l.req # Nothing /\ client = "codex" =>
             /\ l.out = 1 /\ KnownAt(n) = ModelOf[l.req]
             /\ \A i \in 1 .. n : log.lines[i].req # l.req
    BY <1>2 DEF LogAppends
  <2>2. /\ Len(log'.lines) = n + 1 /\ log'.lines[n + 1] = l
        /\ \A i \in 1 .. n : log'.lines[i] = log.lines[i]
        /\ \A i \in 1 .. n + 1 : i = n + 1 \/ i \in 1 .. n
    BY <2>1, <1>l
  <2>3. \A i \in 1 .. n : LineIsWhole(log'.lines[i], client', log'.count, now')
    <3> SUFFICES ASSUME NEW i \in 1 .. n PROVE LineIsWhole(log'.lines[i], client', log'.count, now')
      OBVIOUS
    <3>1. log.lines[i] \in LogLines /\ LineIsWhole(log.lines[i], client, log.count, now) /\ log'.lines[i] = log.lines[i]
      BY <1>a, <1>l, <2>2
    <3> QED
      BY <3>1, <2>1, <1>l, <1>t, <1>w
  <2>4. LineIsWhole(log'.lines[n + 1], client', log'.count, now')
    BY <2>1, <2>2, <1>t, <1>l DEF LineIsWhole, LogLines
  <2>5. \A i \in 1 .. Len(log'.lines) : LineIsWhole(log'.lines[i], client', log'.count, now')
    BY <2>2, <2>3, <2>4
  <2>6. client' = "claude" =>
          \A i, j \in 1 .. Len(log'.lines) : i < j => log'.lines[i].id < log'.lines[j].id
    <3> SUFFICES ASSUME client = "claude", NEW i \in 1 .. n + 1, NEW j \in 1 .. n + 1, i < j
                 PROVE  log'.lines[i].id < log'.lines[j].id
      BY <2>2, <1>t
    <3>0. i \in 1 .. n /\ log'.lines[i] = log.lines[i]
      BY <1>l, <2>2
    <3>1. i \in 1 .. n /\ log'.lines[i] = log.lines[i] /\ log.lines[i].id <= log.count
          /\ log.lines[i].id \in Nat
      BY <3>0, <1>l, <1>a, <1>t, LineStays
    <3>2. CASE j = n + 1
      BY <3>1, <3>2, <2>1, <2>2, <1>l
    <3>3. CASE j \in 1 .. n
      BY <3>1, <3>3, <2>2, <1>a
    <3> QED
      BY <3>2, <3>3, <2>2
  <2>7. client' = "codex" =>
          \A i, j \in 1 .. Len(log'.lines) :
            log'.lines[i].req # Nothing /\ log'.lines[i].req = log'.lines[j].req => i = j
    <3> SUFFICES ASSUME client = "codex", NEW i \in 1 .. n + 1, NEW j \in 1 .. n + 1,
                        log'.lines[i].req # Nothing, log'.lines[i].req = log'.lines[j].req
                 PROVE  i = j
      BY <2>2, <1>t
    <3>1. CASE i \in 1 .. n /\ j \in 1 .. n
      BY <3>1, <2>2, <1>a
    <3>2. CASE i = n + 1 /\ j \in 1 .. n
      BY <3>2, <2>1, <2>2
    <3>3. CASE i \in 1 .. n /\ j = n + 1
      BY <3>3, <2>1, <2>2
    <3> QED
      BY <3>1, <3>2, <3>3, <2>2
  <2>8. client # "claude" => \A k \in 0 .. n : HasLast(log'.lines, k) /\ KnownAt(k)' = KnownAt(k)
    <3> SUFFICES ASSUME client # "claude", NEW k \in 0 .. n
                 PROVE  HasLast(log'.lines, k) /\ KnownAt(k)' = KnownAt(k)
      OBVIOUS
    <3>1. \A i \in 1 .. k : log'.lines[i] = log.lines[i]
      BY <2>2, <1>l
    <3>2. HasLast(log.lines, k) /\ k \in Nat
      BY <1>a, <1>t, <1>l
    <3>3. KnownIn(client, log'.lines, k) = KnownIn(client, log.lines, k) /\ HasLast(log'.lines, k)
      <4> DEFINE ks == log'.lines  ls == log.lines
      <4> HIDE DEF ks, ls
      <4>1. \A i \in 1 .. k : ls[i] = ks[i]
        BY <3>1 DEF ks, ls
      <4>2. KnownIn(client, ks, k) = KnownIn(client, ls, k) /\ HasLast(ks, k)
        BY <4>1, <3>2, KnownOfPrefix DEF ls
      <4> QED
        BY <4>2 DEF ks, ls
    <3> QED
      BY <3>3, <1>t, KnownAtIs
  <2>9. client' = "codex" => \A k \in 0 .. Len(log'.lines) : HasLast(log'.lines, k)
    <3> SUFFICES ASSUME client = "codex" PROVE \A k \in 0 .. n + 1 : HasLast(log'.lines, k)
      BY <1>t, <2>2
    <3>1. HasLast(log'.lines, n) /\ client # "claude"
      BY <2>8, <1>l
    <3>2. HasLast(log'.lines, n + 1)
      BY <3>1, <1>l, KnownNext
    <3>3. \A k \in 0 .. n + 1 : k = n + 1 \/ k \in 0 .. n
      BY <1>l
    <3> QED
      BY <3>1, <3>2, <3>3, <2>8
  <2>10. client' = "codex" => \A i \in 1 .. Len(log'.lines) :
           log'.lines[i].req # Nothing => KnownAt(i - 1)' = ModelOf[log'.lines[i].req]
    <3> SUFFICES ASSUME client = "codex", NEW i \in 1 .. n + 1, log'.lines[i].req # Nothing
                 PROVE  KnownAt(i - 1)' = ModelOf[log'.lines[i].req]
      BY <1>t, <2>2
    <3>1. i - 1 \in 0 .. n /\ client # "claude"
      BY <1>l
    <3>2. KnownAt(i - 1)' = KnownAt(i - 1)
      BY <3>1, <2>8
    <3> QED
      BY <3>2, <2>1, <2>2, <1>a
  <2>11. Len(log'.lines) <= MaxLines /\ Len(log'.lines) > 0
    BY <2>1, <2>2, <1>l, UsageBasics
  <2> QED
    BY <2>5, <2>6, <2>7, <2>9, <2>10, <2>11 DEF LogIsWhole
<1>3. CASE LogShrinks
  <2>1. /\ client = "claude" /\ n > 1 /\ log'.lines = Tail(log.lines) /\ log'.count = log.count
        /\ ~log'.cut
    BY <1>3 DEF LogShrinks
  <2>2. Len(log'.lines) = n - 1 /\ \A i \in 1 .. n - 1 : i + 1 \in 1 .. n /\ log'.lines[i] = log.lines[i + 1]
    BY <2>1, <1>l
  <2>3. \A i \in 1 .. n - 1 : LineIsWhole(log'.lines[i], client', log'.count, now')
    <3> SUFFICES ASSUME NEW i \in 1 .. n - 1 PROVE LineIsWhole(log'.lines[i], client', log'.count, now')
      OBVIOUS
    <3>1. /\ log.lines[i + 1] \in LogLines /\ LineIsWhole(log.lines[i + 1], client, log.count, now)
          /\ log'.lines[i] = log.lines[i + 1]
      BY <1>a, <1>l, <2>2
    <3> QED
      BY <3>1, <2>1, <1>l, <1>t, <1>w
  <2>4. \A i, j \in 1 .. n - 1 : i < j => log'.lines[i].id < log'.lines[j].id
    <3> SUFFICES ASSUME NEW i \in 1 .. n - 1, NEW j \in 1 .. n - 1, i < j
                 PROVE  log'.lines[i].id < log'.lines[j].id
      OBVIOUS
    <3>1. i + 1 \in 1 .. n /\ j + 1 \in 1 .. n /\ i + 1 < j + 1
      BY <1>l
    <3> QED
      BY <3>1, <2>1, <2>2, <1>a
  <2>5. client' # "codex" /\ Len(log'.lines) <= MaxLines
    BY <2>1, <2>2, <1>t, <1>a, <1>l, UsageBasics
  <2> QED
    BY <2>1, <2>2, <2>3, <2>4, <2>5 DEF LogIsWhole
<1> QED
  <2>1. CASE log' = log
    BY <1>1, <2>1
  <2>2. CASE LogEnds
    BY <1>1, <2>2 DEF LogEnds
  <2>3. CASE LogMoves
    BY <1>1, <2>3 DEF LogMoves
  <2> QED
    BY <1>0, <1>2, <1>3, <2>1, <2>2, <2>3, LogSteps

-----------------------------------------------------------------------------
(* What a step leaves of the log, of the answers and of the events.         *)

\* Unless its first line is dropped, a log keeps its lines and the model in force at each.
LEMMA LogKeeps ==
  ASSUME UsageTypes, LogIsWhole, [UsageNext]_usageVars
  PROVE  \/ LogShrinks
         \/ /\ Len(log'.lines) \in Nat /\ Len(log.lines) <= Len(log'.lines)
            /\ Whole \in Nat /\ Whole' \in Nat /\ Whole <= Whole'
            /\ \A i \in 1 .. Len(log.lines) : log'.lines[i] = log.lines[i]
            /\ \A k \in 0 .. Len(log.lines) : KnownAt(k)' = KnownAt(k)
<1> DEFINE n == Len(log.lines)
<1>0. /\ client' = client /\ client \in {"claude", "codex"} /\ n \in Nat
      /\ log.lines \in Seq(LogLines) /\ (log.cut => n > 0)
  BY LogSteps, LogReads DEF UsageTypes, LogStates, LogIsWhole
<1>1. CASE log'.lines = log.lines /\ (log'.cut => log.cut)
  <2>1. \A k : KnownAt(k)' = KnownAt(k)
    BY <1>0, <1>1, KnownAtIs
  <2> QED
    BY <1>0, <1>1, <2>1 DEF Whole
<1>2. ASSUME NEW l \in LogLines, LogAppends(l)
      PROVE  /\ Len(log'.lines) = n + 1
             /\ Whole \in Nat /\ Whole' \in Nat /\ Whole <= Whole'
             /\ \A i \in 1 .. n : log'.lines[i] = log.lines[i]
             /\ \A k \in 0 .. n : KnownAt(k)' = KnownAt(k)
  <2>1. ~log.cut /\ log'.lines = Append(log.lines, l)
    BY <1>2 DEF LogAppends
  <2>2. Len(log'.lines) = n + 1 /\ \A i \in 1 .. n : log'.lines[i] = log.lines[i]
    BY <2>1, <1>0
  <2>3. Whole = n /\ Whole' \in {n, n + 1}
    BY <2>1, <2>2, <1>0 DEF Whole
  <2>4. ASSUME NEW k \in 0 .. n PROVE KnownAt(k)' = KnownAt(k)
    <3> DEFINE ks == log'.lines  ls == log.lines
    <3>1. client # "claude" => HasLast(ls, k)
      BY <1>0, <2>4 DEF LogIsWhole
    <3>2. \A i \in 1 .. k : ls[i] = ks[i]
      BY <2>2, <2>4, <1>0
    <3>3. KnownAt(k)' = KnownIn(client, ks, k) /\ KnownAt(k) = KnownIn(client, ls, k)
      BY <1>0, KnownAtIs
    <3> HIDE DEF ks, ls
    <3> QED
      BY <3>1, <3>2, <3>3, <2>4, KnownOfPrefix
  <2> QED
    BY <2>2, <2>3, <2>4, <1>0
<1> QED
  <2>1. CASE log' = log \/ LogEnds \/ LogMoves
    BY <1>1, <2>1, <1>0 DEF LogEnds, LogMoves
  <2> QED
    BY <1>0, <1>2, <2>1, LogSteps

\* An answer that was seen keeps its date, one that is recorded stays recorded.
LEMMA AnswersKeep ==
  ASSUME UsageTypes, [UsageNext]_usageVars
  PROVE  /\ \A r \in Requests : answer[r].step = "done" => answer'[r] = answer[r]
         /\ \A r \in Requests : answer'[r].step = "done" =>
              answer[r].step = "done" \/ (Record(r) /\ answer'[r].at = answer[r].at)
         /\ \A r \in Requests : answer[r].step # "none" => answer'[r].at = answer[r].at /\ answer'[r].step # "none"
         /\ \A r \in Requests : answer[r].step = "none" =>
              answer'[r] = answer[r] \/ (answer'[r].at = now /\ Observe(r))
<1>0. answer \in [Requests -> Answers] /\ Proxied \subseteq Requests
  BY UsageConstants DEF UsageTypes
<1>1. CASE answer' = answer
  BY <1>1
<1>2. ASSUME NEW r \in Proxied, Observe(r)
      PROVE  /\ answer[r].step = "none"
             /\ \E whole \in BOOLEAN : answer' = [answer EXCEPT ![r] = [step |-> "open", at |-> now, whole |-> whole]]
  BY <1>2 DEF Observe
<1>3. ASSUME NEW r \in Proxied, Record(r)
      PROVE  answer[r].step = "open" /\ answer'[r].step = "done" /\ answer'[r].at = answer[r].at
             /\ \A k \in Requests : k # r => answer'[k] = answer[k]
  BY <1>3, <1>0 DEF Record, Answers
<1>4. CASE Crash
  <2>1. \A r \in Requests : answer'[r] =
          IF answer[r].step = "open" THEN [answer[r] EXCEPT !.step = "lost"] ELSE answer[r]
    BY <1>4 DEF Crash
  <2>2. \A r \in Requests : [answer[r] EXCEPT !.step = "lost"].at = answer[r].at
          /\ [answer[r] EXCEPT !.step = "lost"].step = "lost"
    BY <1>0 DEF Answers
  <2> QED
    BY <2>1, <2>2
<1>5. CASE \E r \in Proxied : Observe(r)
  <2>1. PICK r \in Proxied : Observe(r)
    BY <1>5
  <2>2. r \in Requests /\ answer[r].step = "none" /\ answer'[r].step = "open" /\ answer'[r].at = now
        /\ \A k \in Requests : k # r => answer'[k] = answer[k]
    BY <1>0, <1>2, <2>1
  <2> QED
    BY <2>1, <2>2
<1>6. CASE \E r \in Proxied : Record(r)
  <2>1. PICK r \in Proxied : Record(r)
    BY <1>6
  <2> QED
    BY <2>1, <1>0, <1>3
<1>7. CASE \/ LogTurn \/ EndLine \/ Archive \/ Rewrite \/ (\E r \in Requests : LogSpent(r)) \/ Tick
           \/ BeginSync \/ ReadLine
           \/ SaveCursor \/ Query \/ Start \/ SaveFirst \/ Backfill \/ BeginRepair \/ SkipRepair
           \/ RepairLine \/ EndRepair \/ UNCHANGED usageVars
  <2>1. answer' = answer
    BY <1>7 DEF LogTurn, EndLine, Archive, Rewrite, LogSpent, Tick, BeginSync, ReadLine,
              SaveCursor, Query, Start, SaveFirst, Backfill, BeginRepair, SkipRepair, RepairLine, EndRepair,
              usageVars
  <2> QED
    BY <1>1, <2>1
<1>8. ASSUME NEW t \in Tasks,
             CleanUp(t) \/ Collect(t) \/ Refreshed(t) \/ FailFile(t) \/ \E d \in days[t].left : RollUp(t, d)
      PROVE  answer' = answer
  BY <1>8 DEF CleanUp, Collect, Refreshed, FailFile, RollUp
<1> QED
  BY <1>1, <1>4, <1>5, <1>6, <1>7, <1>8 DEF UsageNext

Inserts(e) ==
  /\ ReadLine /\ NextLine.req # Nothing /\ NextLine.at >= meta.started /\ Day(NextLine.at) >= OldestDay
  /\ e = SessionEvent(NextLine, reader.knows) /\ InsertEvent(e)
Relabels ==
  RepairLine /\ NextLine.req # Nothing /\ reader.knows # Unknown /\ Relabel(NextLine, reader.knows)

\* A step cleans the events, inserts one of a line or of an answer, moves one to its model, or leaves them.
LEMMA EventSteps ==
  ASSUME UsageTypes, [UsageNext]_usageVars
  PROVE  \/ events' = events
         \/ \E t \in Tasks : CleanUp(t) /\ events' = Clean(events)
         \/ \E e \in UsageEvents : Inserts(e)
         \/ \E r \in Requests : Record(r) /\ InsertEvent(ProxyEvent(r))
         \/ Relabels
<1>1. CASE \/ LogTurn \/ EndLine \/ Archive \/ Rewrite \/ (\E r \in Requests : LogSpent(r)) \/ Tick
           \/ (\E r \in Proxied : Observe(r)) \/ BeginSync
           \/ SaveCursor \/ Query \/ Start \/ SaveFirst \/ Backfill \/ BeginRepair \/ SkipRepair
           \/ EndRepair \/ Crash \/ UNCHANGED usageVars
  BY <1>1 DEF LogTurn, EndLine, Archive, Rewrite, LogSpent, Tick, Observe, BeginSync,
              SaveCursor, Query, Start, SaveFirst, Backfill, BeginRepair, SkipRepair, EndRepair, Crash,
              usageVars, usageDbVars
<1>2. ASSUME NEW t \in Tasks,
             Collect(t) \/ Refreshed(t) \/ FailFile(t) \/ \E d \in days[t].left : RollUp(t, d)
      PROVE  events' = events
  BY <1>2 DEF Collect, Refreshed, FailFile, RollUp, usageDbVars
<1>3. ASSUME NEW t \in Tasks, CleanUp(t) PROVE events' = events \/ events' = Clean(events)
  BY <1>3 DEF CleanUp
<1>4. CASE ReadLine
  <2>1. CASE NextLine.req = Nothing \/ NextLine.at < meta.started \/ Day(NextLine.at) < OldestDay
    BY <1>4, <2>1 DEF ReadLine
  <2>2. CASE ~(NextLine.req = Nothing \/ NextLine.at < meta.started \/ Day(NextLine.at) < OldestDay)
    <3>1. InsertEvent(SessionEvent(NextLine, reader.knows))
      BY <1>4, <2>2 DEF ReadLine
    <3>2. NextLine \in LogLines /\ reader.knows \in Models \cup {Unknown}
      BY <1>4, LogReads DEF ReadLine, NextLine, UsageTypes, Readers
    <3>3. SessionEvent(NextLine, reader.knows) \in UsageEvents
      BY <2>2, <3>2, SessionEventIs
    <3>4. NextLine.at \in Int /\ meta.started \in Int /\ Day(NextLine.at) \in Int /\ OldestDay \in Int
      BY <3>2, DayFacts, UsageBasics DEF LogLines, UsageTypes, Metas, OldestDay
    <3> QED
      BY <1>4, <2>2, <3>1, <3>3, <3>4 DEF Inserts
  <2> QED
    BY <2>1, <2>2
<1>5. CASE RepairLine
  <2>1. CASE NextLine.req = Nothing \/ reader.knows = Unknown
    BY <1>5, <2>1 DEF RepairLine
  <2> QED
    BY <1>5, <2>1 DEF RepairLine, Relabels
<1>6. ASSUME NEW r \in Proxied, Record(r) PROVE r \in Requests /\ InsertEvent(ProxyEvent(r))
  BY <1>6, UsageConstants DEF Record
<1> QED
  BY <1>1, <1>2, <1>3, <1>4, <1>5, <1>6 DEF UsageNext

-----------------------------------------------------------------------------
(* Events and their keys.                                                   *)

\* An event that joins another keeps the key and the date of the one that was there.
LEMMA MergedIs ==
  ASSUME NEW x \in UsageEvents, NEW e \in UsageEvents
  PROVE  /\ Merged(x, e) \in UsageEvents
         /\ Merged(x, e).key = x.key /\ Merged(x, e).at = x.at /\ Merged(x, e).req = x.req
         /\ Merged(x, e).model = x.model
         /\ Merged(x, e).out >= x.out /\ Merged(x, e).out >= e.out
         /\ Merged(x, e).source = (IF e.source = "proxy" THEN "proxy" ELSE x.source)
<1>1. /\ (IF e.out > x.out THEN e.out ELSE x.out) \in Nat /\ x.out \in Nat /\ e.out \in Nat
      /\ (IF e.source = "proxy" THEN "proxy" ELSE x.source) \in {"session", "proxy"}
  BY DEF UsageEvents
<1> DEFINE o == IF e.out > x.out THEN e.out ELSE x.out
           s == IF e.source = "proxy" THEN "proxy" ELSE x.source
<1>2. Merged(x, e) = [x EXCEPT !.out = o, !.source = s]
  BY DEF Merged, UsageEvents
<1>3. o \in Nat /\ o >= x.out /\ o >= e.out /\ s \in {"session", "proxy"}
  BY <1>1
<1>4. s = IF e.source = "proxy" THEN "proxy" ELSE x.source
  OBVIOUS
<1> HIDE DEF o, s
<1> DEFINE y == [x EXCEPT !.out = o, !.source = s]
<1>5. y \in UsageEvents
  BY <1>3 DEF UsageEvents
<1>6. /\ y.key = x.key /\ y.at = x.at /\ y.req = x.req /\ y.model = x.model /\ y.out = o
      /\ y.source = s
  BY DEF UsageEvents
<1> HIDE DEF y
<1>7. Merged(x, e) = y
  BY <1>2 DEF y
<1> QED
  BY <1>3, <1>4, <1>5, <1>6, <1>7

\* An event that moves to its model keeps its date and its tokens.
LEMMA RelabelledIs ==
  ASSUME NEW x \in UsageEvents, NEW m, NEW k
  PROVE  LET y == [x EXCEPT !.model = m, !.key = k] IN
         /\ y.key = k /\ y.model = m /\ y.at = x.at /\ y.req = x.req /\ y.out = x.out
         /\ y.source = x.source
BY DEF UsageEvents

\* Keys of different kinds, requests, models or times are different.
LEMMA KeysDiffer ==
  /\ \A r, s : <<r>> = <<s>> => r = s
  /\ \A r, s : <<r, "proxy">> = <<s, "proxy">> => r = s
  /\ \A r, m, t, s, n, u : <<r, m, t>> = <<s, n, u>> => r = s /\ m = n /\ t = u
  /\ \A r, m, t, s : <<r, m, t>> # <<s, "proxy">> /\ <<r>> # <<s, "proxy">>
OBVIOUS

\* What the keys of Claude's events name.
LEMMA ClaudeKeyIs ==
  ASSUME client = "claude", NEW x \in UsageEvents, EventIsWhole(x)
  PROVE  x.key = <<x.req>> \/ x.key = <<x.req, "proxy">>
BY DEF EventIsWhole, ProxyKey

\* A whole event stays whole.
LEMMA EventStays ==
  ASSUME UsageTypes, LogIsWhole, [UsageNext]_usageVars, NEW e \in UsageEvents, EventIsWhole(e)
  PROVE  EventIsWhole(e)'
<1>0. now' \in Nat /\ now <= now' /\ client' = client /\ e.at \in Nat /\ e.req \in Requests /\ now \in Nat
      /\ client \in {"claude", "codex"}
  BY TimeGrows, LogSteps DEF UsageEvents, UsageTypes
<1>1. e.at <= now' /\ e.out > 0
  BY <1>0 DEF EventIsWhole
<1>5. e.source = "proxy" => answer[e.req].step = "done" /\ answer'[e.req] = answer[e.req]
  BY <1>0, AnswersKeep DEF EventIsWhole
<1>2. CASE client = "claude"
  BY <1>0, <1>1, <1>2, <1>5 DEF EventIsWhole, ProxyKey
<1>3. CASE client = "codex" /\ e.source = "proxy"
  BY <1>0, <1>1, <1>3, <1>5 DEF EventIsWhole
<1>4. CASE client = "codex" /\ e.source # "proxy"
  <2>1. PICK i \in 1 .. Whole : log.lines[i].req = e.req /\ log.lines[i].at = e.at
    BY <1>4 DEF EventIsWhole
  <2>2. i \in 1 .. Whole' /\ log'.lines[i] = log.lines[i]
    <3>1. ~LogShrinks
      BY <1>4 DEF LogShrinks
    <3>2. Whole <= Len(log.lines) /\ Len(log.lines) \in Nat
      BY LogReads
    <3> QED
      BY <3>1, <3>2, LogKeeps
  <2> QED
    BY <1>0, <1>1, <1>4, <2>1, <2>2 DEF EventIsWhole
<1> QED
  BY <1>0, <1>2, <1>3, <1>4

\* An event that is like one that is whole, but for its output.
LEMMA EventsAlike ==
  ASSUME NEW x \in UsageEvents, NEW y \in UsageEvents, EventIsWhole(x),
         y.key = x.key, y.at = x.at, y.req = x.req, y.model = x.model, y.out > 0,
         y.source = x.source
  PROVE  EventIsWhole(y)
<1>1. CASE client = "claude"
  BY <1>1 DEF EventIsWhole
<1>2. CASE client # "claude" /\ x.source = "proxy"
  BY <1>2 DEF EventIsWhole
<1>3. CASE client # "claude" /\ x.source # "proxy"
  BY <1>3 DEF EventIsWhole
<1> QED
  BY <1>1, <1>2, <1>3

\* The fields of the event of a line.
LEMMA SessionEventHas ==
  ASSUME NEW l, NEW m
  PROVE  LET e == SessionEvent(l, m) IN
         /\ e.source = "session" /\ e.req = l.req /\ e.at = l.at /\ e.out = l.out
         /\ client = "claude" => e.key = <<l.req>> /\ e.model = l.model
         /\ client # "claude" => e.key = <<l.req, m, l.at>> /\ e.model = m
BY DEF SessionEvent, SessionKey

\* The next line that names a request, read by who may not know its model.
LEMMA NextLineIs ==
  ASSUME UsageTypes, LogIsWhole, ReaderKnows, Reads, reader.at < Whole, NextLine.req # Nothing
  PROVE  /\ NextLine \in LogLines /\ NextLine.req \in Requests /\ reader.at + 1 \in 1 .. Whole
         /\ NextLine.at <= now /\ NextLine.out > 0
         /\ client = "claude" => NextLine.model = ModelOf[NextLine.req]
         /\ client = "codex" => /\ NextLine.out = 1
                                /\ KnownAt(reader.at) = ModelOf[NextLine.req]
                                /\ reader.knows \in {ModelOf[NextLine.req], Unknown}
<1> DEFINE i == reader.at + 1
<1>1. i \in 1 .. Whole /\ i \in 1 .. Len(log.lines) /\ i - 1 = reader.at
  BY LogReads
<1>2. /\ log.lines[i] \in LogLines /\ LineIsWhole(log.lines[i], client, log.count, now)
      /\ client = "codex" => KnownAt(i - 1) = ModelOf[NextLine.req]
  BY <1>1, LogReads DEF LogIsWhole, NextLine
<1>3. NextLine = log.lines[i] /\ NextLine.req \in Requests
  BY <1>2 DEF NextLine, LogLines
<1>4. NextLine.out \in 1 .. MaxOut /\ NextLine.at <= now
      /\ (IF client = "claude" THEN NextLine.model = ModelOf[NextLine.req] ELSE NextLine.out = 1)
  BY <1>2, <1>3 DEF LineIsWhole
<1>5. reader.knows = KnownAt(reader.at) \/ reader.knows = Unknown
  BY KnownAtIs DEF ReaderKnows, Knows
<1> HIDE DEF i
<1>6. client = "codex" => KnownAt(reader.at) = ModelOf[NextLine.req]
  BY <1>1, <1>2
<1>7. NextLine.out > 0
  BY <1>4, UsageBasics
<1> QED
  BY <1>1, <1>2, <1>3, <1>4, <1>5, <1>6, <1>7

\* The events that are there with the key of one that is stored: in a Codex log
\* they are of the session and of its time, and the proxy's is not there yet.
LEMMA SameKey ==
  ASSUME UsageTypes, EventsAreWhole, NEW x \in events, NEW e \in UsageEvents, x.key = e.key,
         \/ \E l \in LogLines, m \in Models \cup {Unknown} : l.req # Nothing /\ e = SessionEvent(l, m)
         \/ \E r \in Requests : answer[r].step = "open" /\ e = ProxyEvent(r)
  PROVE  /\ x.req = e.req
         /\ client = "codex" => x.source = "session" /\ e.source = "session" /\ x.at = e.at
<1>0. x \in UsageEvents /\ EventIsWhole(x) /\ client \in {"claude", "codex"}
      /\ x.source \in {"session", "proxy"}
  BY DEF EventsAreWhole, UsageTypes, UsageEvents
<1>1. CASE \E l \in LogLines, m \in Models \cup {Unknown} : l.req # Nothing /\ e = SessionEvent(l, m)
  <2>1. PICK l \in LogLines, m \in Models \cup {Unknown} : l.req # Nothing /\ e = SessionEvent(l, m)
    BY <1>1
  <2>2. /\ e.source = "session" /\ e.req = l.req /\ e.at = l.at
        /\ client = "claude" => e.key = <<l.req>>
        /\ client # "claude" => e.key = <<l.req, m, l.at>>
    BY <2>1, SessionEventHas
  <2>3. CASE client = "claude"
    <3>1. x.key = <<x.req>> \/ x.key = <<x.req, "proxy">>
      BY <1>0, <2>3, ClaudeKeyIs
    <3> QED
      BY <2>2, <2>3, <3>1, KeysDiffer
  <2>4. CASE client = "codex"
    <3>1. x.source # "proxy"
      <4>1. SUFFICES ASSUME x.source = "proxy" PROVE FALSE
        OBVIOUS
      <4>2. x.key = <<x.req, "proxy">>
        BY <1>0, <2>4, <4>1 DEF EventIsWhole
      <4> QED
        BY <2>2, <2>4, <4>2, KeysDiffer
    <3>2. x.key = <<x.req, x.model, x.at>>
      BY <1>0, <2>4, <3>1 DEF EventIsWhole
    <3> QED
      BY <1>0, <2>2, <2>4, <3>1, <3>2, KeysDiffer
  <2> QED
    BY <1>0, <2>3, <2>4
<1>2. CASE \E r \in Requests : answer[r].step = "open" /\ e = ProxyEvent(r)
  <2>1. PICK r \in Requests : answer[r].step = "open" /\ e = ProxyEvent(r)
    BY <1>2
  <2>2. /\ e.req = r /\ e.key \in {<<r>>, <<r, "proxy">>}
        /\ client # "claude" => e.key = <<r, "proxy">>
    BY <2>1 DEF ProxyEvent, ProxyKey
  <2>3. CASE client = "claude"
    <3>1. x.key = <<x.req>> \/ x.key = <<x.req, "proxy">>
      BY <1>0, <2>3, ClaudeKeyIs
    <3> QED
      BY <2>2, <2>3, <3>1, KeysDiffer
  <2>4. CASE client = "codex"
    <3>1. CASE x.source = "proxy"
      <4>1. x.key = <<x.req, "proxy">> /\ answer[x.req].step = "done"
        BY <1>0, <2>4, <3>1 DEF EventIsWhole
      <4> QED
        BY <2>1, <2>2, <2>4, <4>1, KeysDiffer
    <3>2. CASE x.source # "proxy"
      <4>1. x.key = <<x.req, x.model, x.at>>
        BY <1>0, <2>4, <3>2 DEF EventIsWhole
      <4> QED
        BY <2>2, <2>4, <4>1, KeysDiffer
    <3> QED
      BY <3>1, <3>2
  <2> QED
    BY <1>0, <2>3, <2>4
<1> QED
  BY <1>1, <1>2

\* No two events have the same key after one is stored, either.
LEMMA InsertedDiffer ==
  ASSUME NEW e \in UsageEvents, InsertEvent(e), events \subseteq UsageEvents,
         \A x, y \in events : x.key = y.key => x = y
  PROVE  \A x, y \in events' : x.key = y.key => x = y
<1> SUFFICES ASSUME NEW x \in events', NEW y \in events', x.key = y.key PROVE x = y
  OBVIOUS
<1> DEFINE others == events \ Copy(e)
           Old(z) == z \in events /\ z \notin Copy(e) /\ z.key # e.key
           New(z) == z = e /\ \A u \in others : u.key # e.key
           Both(z) == \E u \in others : u.key = e.key /\ z = Merged(u, e)
<1>1. \A z \in events' : Old(z) \/ New(z) \/ Both(z)
  BY InsertIs
<1>2. \A z : Both(z) => z.key = e.key /\ \E u \in others : u.key = e.key /\ z = Merged(u, e)
  BY MergedIs
<1>3. CASE Old(x)
  <2>1. Old(y)
    BY <1>1, <1>2, <1>3
  <2> QED
    BY <1>3, <2>1
<1>4. CASE New(x)
  <2>1. New(y) \/ Both(y)
    BY <1>1, <1>4
  <2>2. ~Both(y)
    BY <1>4
  <2> QED
    BY <1>4, <2>1, <2>2
<1>5. CASE Both(x)
  <2>1. PICK u \in others : u.key = e.key /\ x = Merged(u, e)
    BY <1>5
  <2>2. Both(y)
    <3>1. ~Old(y)
      BY <1>2, <1>5
    <3>2. ~New(y)
      BY <1>5
    <3> QED
      BY <1>1, <3>1, <3>2
  <2>3. PICK v \in others : v.key = e.key /\ y = Merged(v, e)
    BY <2>2
  <2>4. u = v
    BY <2>1, <2>3
  <2> QED
    BY <2>1, <2>3, <2>4
<1> QED
  BY <1>1, <1>3, <1>4, <1>5

\* Every step keeps the events whole and their keys apart.
LEMMA EventsStep == UsageInv /\ [UsageNext]_usageVars => EventsAreWhole'
<1> SUFFICES ASSUME UsageInv, [UsageNext]_usageVars PROVE EventsAreWhole'
  OBVIOUS
<1>0. UsageTypes /\ LogIsWhole /\ EventsAreWhole /\ ReaderKnows /\ TasksExclude
  BY DEF UsageInv
<1>1. /\ events \subseteq UsageEvents /\ client \in {"claude", "codex"} /\ client' = client
      /\ now \in Nat /\ now' \in Nat /\ now <= now' /\ answer \in [Requests -> Answers]
  BY <1>0, LogSteps, TimeGrows DEF UsageTypes
<1>2. \A e \in UsageEvents : EventIsWhole(e) => EventIsWhole(e)'
  BY <1>0, EventStays
<1>3. \A e \in events : EventIsWhole(e)
  BY <1>0 DEF EventsAreWhole
<1>4. \A x, y \in events : x.key = y.key => x = y
  BY <1>0 DEF EventsAreWhole
<1>5. \A r \in Requests : answer'[r].at <= now'
  <2> SUFFICES ASSUME NEW r \in Requests PROVE answer'[r].at <= now'
    OBVIOUS
  <2>1. answer'[r].at = answer[r].at \/ answer'[r].at = now
    BY <1>0, AnswersKeep
  <2>2. answer[r].at <= now /\ answer[r].at \in Nat
    BY <1>0, <1>1 DEF EventsAreWhole, Answers
  <2> QED
    BY <1>1, <2>1, <2>2
<1>6. CASE events' \subseteq events
  BY <1>1, <1>2, <1>3, <1>4, <1>5, <1>6 DEF EventsAreWhole
<1>7. ASSUME NEW e \in UsageEvents, InsertEvent(e), EventIsWhole(e)',
             \A x \in events : x.key = e.key =>
               /\ x.req = e.req
               /\ client = "codex" => x.source = "session" /\ e.source = "session"
      PROVE  EventsAreWhole'
  <2>1. \A y \in events' : EventIsWhole(y)'
    <3> SUFFICES ASSUME NEW y \in events' PROVE EventIsWhole(y)'
      OBVIOUS
    <3>1. CASE y \in events \/ y = e
      BY <1>1, <1>2, <1>3, <1>7, <3>1
    <3>2. ASSUME NEW x \in events, x.key = e.key, y = Merged(x, e) PROVE EventIsWhole(y)'
      <4>1. x \in UsageEvents /\ EventIsWhole(x)
        BY <1>1, <1>3
      <4>2. /\ y \in UsageEvents /\ y.key = x.key /\ y.at = x.at /\ y.req = x.req /\ y.model = x.model
            /\ y.out >= x.out /\ y.source = (IF e.source = "proxy" THEN "proxy" ELSE x.source)
            /\ y.out \in Nat /\ x.out \in Nat
        BY <3>2, <4>1, MergedIs DEF UsageEvents
      <4>3. y.out > 0
        BY <4>1, <4>2 DEF EventIsWhole
      <4>4. CASE y.source = x.source
        <5>1. EventIsWhole(y)
          BY <4>1, <4>2, <4>3, <4>4, EventsAlike
        <5> QED
          BY <1>2, <4>2, <5>1
      <4>5. CASE y.source # x.source
        <5>1. client = "claude" /\ e.source = "proxy" /\ y.source = "proxy" /\ y.req = e.req /\ y.key = e.key
          BY <1>1, <1>7, <3>2, <4>2, <4>5
        <5>2. y.at <= now' /\ y.model = ModelOf[y.req]
          <6>1. x.at <= now /\ x.at \in Nat /\ x.model = ModelOf[x.req]
            BY <4>1, <5>1 DEF EventIsWhole, UsageEvents
          <6> QED
            BY <6>1, <4>2, <1>1
        <5>3. answer'[e.req].step = "done" /\ e.key = ProxyKey(e.req)'
          BY <1>1, <1>7, <5>1 DEF EventIsWhole
        <5>4. y.key = ProxyKey(y.req)'
          BY <5>1, <5>3 DEF ProxyKey
        <5> QED
          BY <1>1, <4>3, <5>1, <5>2, <5>3, <5>4 DEF EventIsWhole
      <4> QED
        BY <4>4, <4>5
    <3> QED
      BY <3>1, <3>2, <1>7, InsertIs
  <2>2. \A x, y \in events' : x.key = y.key => x = y
    BY <1>1, <1>4, <1>7, InsertedDiffer
  <2> QED
    BY <1>5, <2>1, <2>2 DEF EventsAreWhole
<1>8. ASSUME NEW e \in UsageEvents, Inserts(e) PROVE EventsAreWhole'
  <2>1. /\ Reads /\ reader.at < Whole /\ NextLine.req # Nothing /\ e = SessionEvent(NextLine, reader.knows)
        /\ InsertEvent(e)
    BY <1>8 DEF Inserts, ReadLine, Reads
  <2>2. /\ NextLine \in LogLines /\ NextLine.req \in Requests /\ reader.at + 1 \in 1 .. Whole
        /\ NextLine.at <= now /\ NextLine.out > 0
        /\ client = "claude" => NextLine.model = ModelOf[NextLine.req]
        /\ client = "codex" => reader.knows \in {ModelOf[NextLine.req], Unknown}
    BY <1>0, <2>1, NextLineIs
  <2>3. EventIsWhole(e)
    <3>1. /\ e.source = "session" /\ e.req = NextLine.req /\ e.at = NextLine.at /\ e.out = NextLine.out
          /\ client = "claude" => e.key = <<NextLine.req>> /\ e.model = NextLine.model
          /\ client # "claude" => e.key = <<NextLine.req, reader.knows, NextLine.at>> /\ e.model = reader.knows
      BY <2>1, SessionEventHas
    <3>2. CASE client = "claude"
      BY <2>2, <3>1, <3>2 DEF EventIsWhole
    <3>3. CASE client = "codex"
      <4>1. \E i \in 1 .. Whole : log.lines[i].req = e.req /\ log.lines[i].at = e.at
        BY <2>2, <3>1 DEF NextLine
      <4> QED
        BY <2>2, <3>1, <3>3, <4>1 DEF EventIsWhole
    <3> QED
      BY <1>1, <3>2, <3>3
  <2>4. \A x \in events : x.key = e.key =>
          /\ x.req = e.req
          /\ client = "codex" => x.source = "session" /\ e.source = "session"
    <3>1. reader.knows \in Models \cup {Unknown}
      BY <1>0 DEF UsageTypes, Readers
    <3> QED
      BY <1>0, <1>8, <2>1, <2>2, <3>1, SameKey
  <2> QED
    BY <1>2, <1>7, <2>1, <2>3, <2>4
<1>9. ASSUME NEW r \in Requests, Record(r), InsertEvent(ProxyEvent(r)) PROVE EventsAreWhole'
  <2>0. PICK e \in UsageEvents : e = ProxyEvent(r)
    BY <1>0, ProxyEventIs
  <2>1. e \in UsageEvents /\ answer[r].step = "open"
    BY <1>9 DEF Record
  <2>2. \A x \in events : x.key = e.key =>
          /\ x.req = e.req
          /\ client = "codex" => x.source = "session" /\ e.source = "session"
    BY <1>0, <2>0, <2>1, SameKey
  <2>3. /\ e.req = r /\ e.at = answer[r].at /\ e.out = MaxOut /\ e.model = ModelOf[r]
        /\ e.source = "proxy" /\ e.key = ProxyKey(r)
        /\ client # "claude" => e.key = <<r, "proxy">>
    BY <2>0 DEF ProxyEvent, ProxyKey
  <2>4. answer'[r].step = "done" /\ ProxyKey(r)' = ProxyKey(r)
    <3>1. answer'[r].step = "done" /\ answer'[r].whole = answer[r].whole
      BY <1>1, <1>9 DEF Record, Answers
    <3> QED
      BY <3>1, <1>1 DEF ProxyKey
  <2>5. e.at <= now' /\ e.out > 0
    <3>1. answer[r].at <= now /\ answer[r].at \in Nat
      BY <1>0, <1>1 DEF EventsAreWhole, Answers
    <3> QED
      BY <2>3, <3>1, <1>1, UsageBasics
  <2>6. EventIsWhole(e)'
    BY <1>1, <2>3, <2>4, <2>5 DEF EventIsWhole
  <2>7. InsertEvent(e)
    BY <1>9, <2>0
  <2> QED
    BY <1>7, <2>1, <2>2, <2>6, <2>7
<1>10. CASE Relabels
  <2> DEFINE l == NextLine  m == reader.knows  k == SessionKey(NextLine, reader.knows)
  <2>1. /\ RepairLine /\ l.req # Nothing /\ m # Unknown /\ pc["repair"] = "read"
        /\ Reads /\ reader.at < Whole
    BY <1>10 DEF Relabels, RepairLine, Reads
  <2>2. client = "codex" /\ m = ModelOf[l.req] /\ l.req \in Requests /\ reader.at + 1 \in 1 .. Whole
    BY <1>0, <2>1, NextLineIs DEF TasksExclude
  <2>3. k = <<l.req, m, l.at>> /\ SessionKey(NextLine, Unknown) = <<l.req, Unknown, l.at>>
    BY <2>2 DEF SessionKey
  <2>4. /\ \A y \in events' :
             \/ y \in events
             \/ \E x \in events : /\ x.key = SessionKey(NextLine, Unknown)
                                  /\ y = [x EXCEPT !.model = m, !.key = k]
                                  /\ \A z \in events : z.key # k
    <3>1. Relabel(NextLine, reader.knows)
      BY <1>10 DEF Relabels
    <3> QED
      BY ONLY <3>1, RelabelIs
  <2>5. ASSUME NEW x \in events, x.key = SessionKey(NextLine, Unknown)
        PROVE  EventIsWhole([x EXCEPT !.model = m, !.key = k])
               /\ [x EXCEPT !.model = m, !.key = k].key = k /\ [x EXCEPT !.model = m, !.key = k] \in UsageEvents
    <3> DEFINE y == [x EXCEPT !.model = m, !.key = k]
    <3>1. x \in UsageEvents /\ EventIsWhole(x)
      BY <1>1, <1>3
    <3>2. y.key = k /\ y.model = m /\ y.at = x.at /\ y.req = x.req /\ y.out = x.out /\ y.source = x.source
      <4> HIDE DEF m, k
      <4> QED
        BY <3>1, RelabelledIs
    <3>3. x.source # "proxy"
      <4>1. SUFFICES ASSUME x.source = "proxy" PROVE FALSE
        OBVIOUS
      <4>2. x.key = <<x.req, "proxy">>
        BY <2>2, <3>1, <4>1 DEF EventIsWhole
      <4> QED
        BY <2>3, <2>5, <4>2, KeysDiffer
    <3>4. x.key = <<x.req, x.model, x.at>> /\ x.out > 0 /\ x.at <= now
          /\ \E i \in 1 .. Whole : log.lines[i].req = x.req /\ log.lines[i].at = x.at
      BY <2>2, <3>1, <3>3 DEF EventIsWhole
    <3>5. x.req = l.req /\ x.at = l.at
      BY <2>3, <2>5, <3>4, KeysDiffer
    <3>6. m \in Models \cup {Unknown} /\ k \in EventKeys
      <4>1. l \in LogLines /\ reader.knows \in Models \cup {Unknown}
        BY <1>0, <2>1, NextLineIs DEF UsageTypes, Readers
      <4> QED
        BY <4>1, <2>1, SessionEventIs
    <3>7. y \in UsageEvents
      <4> HIDE DEF m, k
      <4> QED
        BY <3>1, <3>6 DEF UsageEvents
    <3> HIDE DEF y
    <3>8. EventIsWhole(y)
      <4>1. y.key = <<y.req, y.model, y.at>> /\ y.model \in {ModelOf[y.req], Unknown} /\ y.out > 0 /\ y.at <= now
        BY <2>2, <2>3, <3>2, <3>4, <3>5
      <4>2. \E i \in 1 .. Whole : log.lines[i].req = y.req /\ log.lines[i].at = y.at
        BY <3>2, <3>4
      <4>3. y.source # "proxy" /\ client # "claude"
        BY <3>2, <3>3, <2>2
      <4> QED
        BY <4>1, <4>2, <4>3 DEF EventIsWhole
    <3> QED
      BY <3>2, <3>7, <3>8 DEF y
  <2> HIDE DEF l, m, k
  <2>6. ASSUME NEW y \in events' PROVE EventIsWhole(y)'
    <3>1. CASE y \in events
      BY <1>1, <1>2, <1>3, <3>1
    <3>2. ASSUME NEW x \in events, x.key = SessionKey(NextLine, Unknown), y = [x EXCEPT !.model = m, !.key = k]
          PROVE  EventIsWhole(y)'
      <4>1. EventIsWhole(y) /\ y \in UsageEvents
        BY <2>5, <3>2
      <4> QED
        BY <1>2, <4>1
    <3> QED
      BY <2>4, <3>1, <3>2
  <2>7. ASSUME NEW y \in events', NEW z \in events', y.key = z.key PROVE y = z
    <3>1. CASE y \in events /\ z \in events
      BY <1>4, <2>7, <3>1
    <3>2. CASE y \in events /\ z \notin events
      BY <2>4, <2>5, <2>7, <3>2
    <3>3. CASE y \notin events /\ z \in events
      BY <2>4, <2>5, <2>7, <3>3
    <3>4. CASE y \notin events /\ z \notin events
      <4>1. PICK u \in events : u.key = SessionKey(NextLine, Unknown) /\ y = [u EXCEPT !.model = m, !.key = k]
        BY <2>4, <3>4
      <4>2. PICK v \in events : v.key = SessionKey(NextLine, Unknown) /\ z = [v EXCEPT !.model = m, !.key = k]
        BY <2>4, <3>4
      <4> QED
        BY <1>4, <4>1, <4>2
    <3> QED
      BY <3>1, <3>2, <3>3, <3>4
  <2> QED
    BY <1>5, <2>6, <2>7 DEF EventsAreWhole
<1>11. Clean(events) \subseteq events
  BY DEF Clean
<1> QED
  BY <1>0, <1>6, <1>8, <1>9, <1>10, <1>11, EventSteps

-----------------------------------------------------------------------------
(* Who reads, and what the readers know.                                    *)

\* The model in force at a line never changes.
LEMMA KnownStays ==
  ASSUME UsageTypes, LogIsWhole, [UsageNext]_usageVars, NEW k \in 0 .. Len(log.lines)
  PROVE  KnownIn(client', log'.lines, k) = KnownIn(client, log.lines, k)
<1>1. client' = client
  BY LogSteps
<1>2. CASE LogShrinks
  BY <1>1, <1>2, KnownNothing DEF LogShrinks
<1>3. CASE ~LogShrinks
  <2>1. KnownAt(k)' = KnownAt(k)
    BY <1>3, LogKeeps
  <2> QED
    BY <2>1, KnownAtIs
<1> QED
  BY <1>2, <1>3

\* The steps that leave reader, cursors and the repair where they are.
Stays ==
  /\ reader' = reader /\ cursor' = cursor /\ Repaired' = Repaired
  /\ (pc'["sync"] = "read" <=> pc["sync"] = "read") /\ (pc'["repair"] = "read" <=> pc["repair"] = "read")
  /\ (pc'["start"] = "save" <=> pc["start"] = "save")

\* The steps that touch reader, cursors or repair.
LEMMA ReadingSteps ==
  ASSUME UsageInv, [UsageNext]_usageVars
  PROVE  \/ Stays \/ BeginSync \/ ReadLine \/ SaveCursor \/ SaveFirst \/ BeginRepair \/ RepairLine
         \/ EndRepair \/ Crash \/ (Start /\ meta.started = -1) \/ \E t \in Tasks : FailFile(t)
<1>0. pc \in [Tasks -> UsageSteps] /\ meta \in Metas /\ now \in Nat /\ Tasks = {"start", "sync", "repair", "query"}
  BY UsageBasics DEF UsageInv, UsageTypes
<1>m. /\ [meta EXCEPT !.cleaned = now].repaired = meta.repaired
      /\ [meta EXCEPT !.rolled = TRUE].repaired = meta.repaired
      /\ [meta EXCEPT !.repaired = TRUE].repaired = TRUE /\ meta.repaired \in BOOLEAN
      /\ [meta EXCEPT !.unread = TRUE].unread = TRUE /\ meta.unread \in BOOLEAN
      /\ [meta EXCEPT !.cleaned = now].unread = meta.unread
      /\ [meta EXCEPT !.rolled = TRUE].unread = meta.unread
      /\ [meta EXCEPT !.repaired = TRUE].unread = meta.unread
  BY <1>0 DEF Metas
<1>p. \A t \in Tasks, s \in UsageSteps : Proceed(t, s) =>
        pc'[t] = s /\ \A u \in Tasks : u # t => pc'[u] = pc[u]
  BY <1>0 DEF Proceed
<1>1. CASE UNCHANGED <<reader, cursor, meta, pc>>
  BY <1>1 DEF Stays, Repaired
<1>2. CASE \/ LogTurn \/ EndLine \/ Archive \/ Rewrite \/ (\E r \in Requests : LogSpent(r)) \/ Tick
           \/ (\E r \in Proxied : Observe(r) \/ Record(r)) \/ UNCHANGED usageVars
  <2>1. UNCHANGED <<reader, cursor, meta, pc>>
    BY <1>2 DEF LogTurn, EndLine, Archive, Rewrite, LogSpent, Tick, Observe, Record, usageVars,
                usageDbVars, taskVars
  <2> QED
    BY <1>1, <2>1
<1>3. ASSUME NEW t \in Tasks, NEW d \in days[t].left, RollUp(t, d) PROVE Stays
  <2>1. UNCHANGED <<reader, cursor, meta, pc>>
    BY <1>3 DEF RollUp
  <2> QED
    BY <1>1, <2>1 DEF Stays, Repaired
<1>4. ASSUME NEW t \in Tasks, NEW s \in UsageSteps, Proceed(t, s), s \notin {"read", "save"},
             pc[t] \notin {"read", "save"}, reader' = reader, cursor' = cursor,
             meta'.repaired = meta.repaired, meta'.unread = meta.unread,
             t = "repair" => (pc[t] \in {"collect", "roll"} <=> s \in {"collect", "roll"})
      PROVE  Stays
  <2>1. pc'[t] = s /\ \A u \in Tasks : u # t => pc'[u] = pc[u]
    BY <1>4, <1>p
  <2>2. Repaired' = Repaired
    BY <1>0, <1>4, <2>1, <1>m DEF Repaired
  <2> QED
    BY <1>0, <1>4, <2>1, <2>2 DEF Stays
<1>5. ASSUME NEW t \in Tasks, CleanUp(t) PROVE Stays
  <2>1. /\ t \in {"start", "sync"} /\ pc[t] = "clean" /\ reader' = reader /\ cursor' = cursor
        /\ Proceed(t, IF t = "start" THEN "backfill" ELSE "collect")
        /\ meta' = meta \/ meta' = [meta EXCEPT !.cleaned = now]
    BY <1>5 DEF CleanUp
  <2>2. (IF t = "start" THEN "backfill" ELSE "collect") \in UsageSteps \ {"read", "save"}
    BY DEF UsageSteps
  <2>3. meta'.repaired = meta.repaired /\ meta'.unread = meta.unread
    BY <2>1, <1>m, <1>0
  <2> QED
    BY <1>4, <2>1, <2>2, <2>3
<1>6. ASSUME NEW t \in Tasks, Collect(t) PROVE Stays
  <2>1. pc[t] = "collect" /\ reader' = reader /\ cursor' = cursor /\ meta' = meta /\ Proceed(t, "roll")
    BY <1>6 DEF Collect, Collects, usageDbVars
  <2> QED
    BY <1>4, <2>1 DEF UsageSteps
<1>7. CASE Query
  <2>1. pc["query"] = "idle" /\ reader' = reader /\ cursor' = cursor /\ meta' = meta /\ Proceed("query", "roll")
    BY <1>7 DEF Query, Collects, usageDbVars
  <2>2. "query" \in Tasks /\ "roll" \in UsageSteps
    BY <1>0 DEF UsageSteps
  <2> QED
    BY <1>4, <2>1, <2>2
<1>8. ASSUME NEW t \in Tasks, Refreshed(t) PROVE Stays
  <2>1. pc[t] = "roll" /\ reader' = reader /\ cursor' = cursor /\ Proceed(t, "idle")
    BY <1>8 DEF Refreshed
  <2>2. CASE t # "repair"
    <3>1. meta' = meta \/ meta' = [meta EXCEPT !.rolled = TRUE]
      BY <1>8, <2>2 DEF Refreshed
    <3>2. meta'.repaired = meta.repaired /\ meta'.unread = meta.unread
      BY <3>1, <1>m
    <3> QED
      BY <1>4, <2>1, <2>2, <3>2 DEF UsageSteps
  <2>3. CASE t = "repair"
    <3>1. meta' = [meta EXCEPT !.repaired = TRUE]
      BY <1>8, <2>3 DEF Refreshed
    <3>2. meta'.repaired = TRUE /\ meta'.unread = meta.unread
      BY <3>1, <1>m
    <3>3. pc'["repair"] = "idle" /\ \A u \in Tasks : u # "repair" => pc'[u] = pc[u]
      BY <2>1, <2>3, <1>0, <1>p DEF UsageSteps
    <3>4. Repaired' = Repaired
      BY <2>1, <2>3, <3>2, <1>m DEF Repaired
    <3> QED
      BY <1>0, <2>1, <2>3, <3>3, <3>4 DEF Stays
  <2> QED
    BY <2>2, <2>3
<1>9. CASE Backfill
  <2>1. /\ pc["start"] = "backfill" /\ reader' = reader /\ cursor' = cursor /\ meta' = meta
        /\ Proceed("start", "idle") \/ Proceed("start", "collect")
    BY <1>9 DEF Backfill
  <2>2. "start" \in Tasks /\ "idle" \in UsageSteps /\ "collect" \in UsageSteps
    BY <1>0 DEF UsageSteps
  <2> QED
    BY <1>4, <2>1, <2>2
<1>10. CASE Start /\ meta.started # -1
  <2>1. /\ reader' = reader /\ cursor' = cursor /\ meta' = meta /\ Proceed("start", "clean")
    BY <1>10 DEF Start
  <2>2. "start" \in Tasks /\ "clean" \in UsageSteps
    BY <1>0 DEF UsageSteps
  <2>3. pc["start"] = "idle"
    BY <1>10 DEF UsageInv, TasksExclude, Start
  <2> QED
    BY <1>4, <2>1, <2>2, <2>3
<1>11. CASE SkipRepair
  <2>1. /\ pc["repair"] = "idle" /\ ~meta.repaired /\ Proceed("repair", "collect")
        /\ reader' = reader /\ cursor' = cursor /\ meta' = [meta EXCEPT !.unread = TRUE]
    BY <1>11 DEF SkipRepair
  <2>2. pc'["repair"] = "collect" /\ \A u \in Tasks : u # "repair" => pc'[u] = pc[u]
    BY <2>1, <1>0, <1>p DEF UsageSteps
  <2>3. Repaired' = Repaired
    BY <2>1, <2>2, <1>m DEF Repaired
  <2> QED
    BY <1>0, <2>1, <2>2, <2>3 DEF Stays
<1> QED
  BY <1>2, <1>3, <1>5, <1>6, <1>7, <1>8, <1>9, <1>10, <1>11 DEF UsageNext

\* Another task never reads while one does.
LEMMA ReadersExclude ==
  ASSUME TasksExclude, pc \in [Tasks -> UsageSteps]
  PROVE  /\ pc["sync"] = "read" => pc["repair"] # "read" /\ pc["start"] # "save"
         /\ pc["repair"] = "read" => pc["start"] # "save" /\ ~Repaired /\ client = "codex"
         /\ up # "up" => pc["sync"] # "read" /\ pc["repair"] = "idle"
         /\ lock = Nothing => pc["sync"] = "idle" /\ pc["repair"] # "read" /\ pc["start"] = "idle"
<1>1. Nothing \notin {"start", "sync", "repair", "query"}
  BY UsageBasics
<1> QED
  BY <1>1 DEF TasksExclude, Repaired

\* Every step keeps what the reader knows true.
LEMMA ReaderStep == UsageInv /\ [UsageNext]_usageVars => ReaderKnows'
<1> SUFFICES ASSUME UsageInv, [UsageNext]_usageVars PROVE ReaderKnows'
  OBVIOUS
<1>0. UsageTypes /\ LogIsWhole /\ TasksExclude /\ ReaderKnows /\ CursorsKnow
  BY DEF UsageInv
<1>1. /\ pc \in [Tasks -> UsageSteps] /\ Tasks = {"start", "sync", "repair", "query"}
      /\ client' = client /\ client \in {"claude", "codex"} /\ reader \in Readers
      /\ cursor \in [LogPaths -> Cursors] /\ log.path \in LogPaths
      /\ LogPaths = {"sessions", "archived_sessions"}
  BY <1>0, UsageBasics, LogSteps DEF UsageTypes, LogStates
<1>p. \A t \in Tasks, s \in UsageSteps : Proceed(t, s) =>
        pc'[t] = s /\ \A u \in Tasks : u # t => pc'[u] = pc[u]
  BY <1>1 DEF Proceed
<1>x. /\ pc["sync"] = "read" => pc["repair"] # "read" /\ pc["start"] # "save"
      /\ pc["repair"] = "read" => pc["start"] # "save" /\ ~Repaired /\ client = "codex"
      /\ up # "up" => pc["sync"] # "read" /\ pc["repair"] = "idle"
      /\ lock = Nothing => pc["sync"] = "idle" /\ pc["repair"] # "read" /\ pc["start"] = "idle"
  BY <1>0, <1>1, ReadersExclude
<1>u. UsageSteps = {"idle", "save", "clean", "backfill", "collect", "roll", "read"}
  BY DEF UsageSteps
<1>h. /\ log.path = "sessions" => reader.path = "sessions"
      /\ Reads => reader.at <= Whole /\ (Knows(reader) \/ reader.knows = Unknown)
      /\ pc["repair"] = "read" \/ pc["start"] = "save" => Knows(reader)
      /\ pc["sync"] = "read" /\ (Repaired \/ reader.path = "archived_sessions") => Knows(reader)
  BY <1>0 DEF ReaderKnows
<1>n. Len(log.lines) \in Nat /\ Whole \in Int /\ Whole <= Len(log.lines) /\ reader.at \in Nat
  BY <1>0, LogReads
<1>w. Whole \in 0 .. Len(log.lines) /\ KnownIn(client, log.lines, 0) = Unknown
  BY <1>0, <1>n, KnownNothing DEF LogIsWhole, Whole
<1>q. log'.path = "sessions" => log.path = "sessions"
  <2>1. log'.path = log.path \/ log'.path = "archived_sessions"
    BY <1>0, LogSteps DEF LogAppends, LogEnds, LogMoves, LogShrinks
  <2> QED
    BY <2>1
<1>s. ASSUME Step, reader.at < Whole, Knows(reader) \/ reader.knows = Unknown, log' = log
      PROVE  /\ reader'.path = reader.path /\ reader'.at = reader.at + 1 /\ reader'.at <= Whole'
             /\ Knows(reader)' \/ reader'.knows = Unknown
             /\ Knows(reader) => Knows(reader)'
  <2> DEFINE k == IF client = "claude" THEN Unknown ELSE Known(reader.knows, NextLine)
  <2>1. reader' = [reader EXCEPT !.at = reader.at + 1, !.knows = k]
    BY <1>s, <1>1 DEF Step, Readers
  <2>2. reader'.path = reader.path /\ reader'.at = reader.at + 1 /\ reader'.knows = k
    <3> HIDE DEF k
    <3> QED
      BY <2>1, <1>1 DEF Readers
  <2>3. Whole' = Whole
    BY <1>s DEF Whole
  <2>4. CASE client = "claude"
    <3>1. \A i : KnownIn(client, log.lines, i) = Unknown
      BY <2>4, KnownNothing
    <3> QED
      BY <1>s, <1>1, <1>n, <2>2, <2>3, <2>4, <3>1 DEF Knows
  <2>5. CASE client = "codex"
    <3>1. reader.at \in 0 .. Len(log.lines) /\ client # "claude"
      BY <1>s, <1>n, <2>5
    <3>2. HasLast(log.lines, reader.at)
      BY <1>0, <2>5, <3>1 DEF LogIsWhole
    <3>3. KnownIn(client, log.lines, reader.at + 1)
            = Known(KnownIn(client, log.lines, reader.at), log.lines[reader.at + 1])
      BY <1>n, <3>1, <3>2, KnownNext
    <3>4. k = Known(reader.knows, log.lines[reader.at + 1])
      BY <3>1 DEF NextLine
    <3> HIDE DEF k
    <3>5. reader.knows = Unknown => k = Unknown \/ k = KnownIn(client, log.lines, reader.at + 1)
      BY <3>3, <3>4 DEF Known
    <3>6. Knows(reader) => k = KnownIn(client, log.lines, reader.at + 1)
      BY <3>3, <3>4 DEF Knows
    <3>7. Knows(reader)' <=> k = KnownIn(client, log.lines, reader.at + 1)
      BY <1>s, <1>1, <2>2 DEF Knows
    <3> QED
      BY <1>s, <1>n, <2>2, <2>3, <3>5, <3>6, <3>7
  <2> QED
    BY <1>1, <2>4, <2>5
<1>2. CASE Stays
  <2>1. /\ reader' = reader /\ Repaired' = Repaired /\ Reads' = Reads
        /\ (pc'["sync"] = "read" <=> pc["sync"] = "read")
        /\ (pc'["repair"] = "read" \/ pc'["start"] = "save" <=> pc["repair"] = "read" \/ pc["start"] = "save")
    BY <1>2 DEF Stays, Reads
  <2>2. ASSUME Reads PROVE reader.at <= Whole' /\ (Knows(reader)' <=> Knows(reader))
    <3>1. ~LogShrinks
      BY <1>x, <2>2 DEF LogShrinks, Reads
    <3>2. Whole <= Whole' /\ Whole' \in Nat
      BY <1>0, <3>1, LogKeeps
    <3>3. reader.at <= Whole /\ reader.at \in 0 .. Len(log.lines)
      BY <1>h, <1>n, <2>2
    <3>4. KnownIn(client', log'.lines, reader.at) = KnownIn(client, log.lines, reader.at)
      BY <1>0, <3>3, KnownStays
    <3> QED
      BY <1>n, <2>1, <3>2, <3>3, <3>4 DEF Knows
  <2>3. Reads => reader'.at <= Whole' /\ (Knows(reader)' \/ reader'.knows = Unknown)
    BY <1>h, <2>1, <2>2
  <2>4. pc["repair"] = "read" \/ pc["start"] = "save" => Knows(reader)'
    BY <1>h, <2>2 DEF Reads
  <2>5. pc["sync"] = "read" /\ (Repaired \/ reader.path = "archived_sessions") => Knows(reader)'
    BY <1>h, <2>2 DEF Reads
  <2> QED
    BY <1>h, <1>q, <2>1, <2>3, <2>4, <2>5 DEF ReaderKnows
<1>r. ASSUME reader' = NoReader, ~Reads' PROVE ReaderKnows'
  <2>1. reader'.path = "sessions"
    BY <1>r DEF NoReader
  <2> QED
    BY <1>r, <2>1 DEF ReaderKnows, Reads
<1>3. CASE BeginSync
  <2> DEFINE c == cursor[log.path]
  <2>0. lock = Nothing /\ UNCHANGED <<log, meta>> /\ Proceed("sync", "read")
    BY <1>3 DEF BeginSync, envVars, usageDbVars
  <2>1. /\ reader'.at = Resume(c) /\ reader'.path = log.path
        /\ reader'.knows = IF Resume(c) = 0 THEN Unknown ELSE c.knows
    BY <1>3 DEF BeginSync
  <2>2. pc["repair"] # "read" /\ pc["start"] = "idle" /\ pc'["repair"] = pc["repair"] /\ pc'["start"] = pc["start"]
    BY <1>1, <1>p, <1>u, <1>x, <2>0
  <2>3. Whole' = Whole /\ (Repaired' => Repaired)
    BY <2>0, <2>2 DEF Whole, Repaired
  <2>4. c \in Cursors /\ c.at \in Nat
    BY <1>1 DEF Cursors
  <2>5. Resume(c) = 0 \/ (Resume(c) = c.at /\ c.at <= Whole)
    BY <1>n, <2>4 DEF Resume
  <2>6. /\ Knows(c) \/ c.knows = Unknown
        /\ Repaired \/ log.path = "archived_sessions" => Knows(c)
    BY <1>0, <1>1 DEF CursorsKnow
  <2>7. Knows(c) <=> c.knows = KnownIn(client, log.lines, c.at)
    BY DEF Knows
  <2>8. Knows(reader)' <=> reader'.knows = KnownIn(client, log.lines, reader'.at)
    BY <1>1, <2>0 DEF Knows
  <2> HIDE DEF c
  <2>9. reader'.at <= Whole' /\ (Knows(reader)' \/ reader'.knows = Unknown)
    BY <1>w, <2>1, <2>3, <2>5, <2>6, <2>7, <2>8
  <2>10. Repaired' \/ reader'.path = "archived_sessions" => Knows(reader)'
    BY <1>w, <2>1, <2>3, <2>5, <2>6, <2>7, <2>8
  <2> QED
    BY <2>0, <2>1, <2>2, <2>9, <2>10 DEF ReaderKnows
<1>4. CASE ReadLine
  <2>1. Step /\ reader.at < Whole /\ log' = log /\ pc' = pc /\ meta' = meta /\ pc["sync"] = "read"
    BY <1>4 DEF ReadLine, envVars
  <2>2. Knows(reader) \/ reader.knows = Unknown
    BY <1>h, <2>1 DEF Reads
  <2>3. Repaired' = Repaired
    BY <2>1 DEF Repaired
  <2>4. /\ reader'.path = reader.path /\ reader'.at <= Whole'
        /\ Knows(reader)' \/ reader'.knows = Unknown
        /\ Knows(reader) => Knows(reader)'
    BY <1>s, <2>1, <2>2
  <2>5. pc["repair"] # "read" /\ pc["start"] # "save"
    BY <1>x, <2>1
  <2> QED
    BY <1>h, <2>1, <2>3, <2>4, <2>5 DEF ReaderKnows
<1>5. CASE SaveCursor
  <2>1. reader' = NoReader /\ pc["sync"] = "read" /\ Proceed("sync", "clean")
    BY <1>5 DEF SaveCursor
  <2>2. ~Reads'
    BY <1>1, <1>p, <1>u, <1>x, <2>1 DEF Reads
  <2> QED
    BY <1>r, <2>1, <2>2
<1>6. CASE SaveFirst
  <2>1. reader' = NoReader /\ pc["start"] = "save" /\ Proceed("start", "clean")
    BY <1>6 DEF SaveFirst
  <2>2. ~Reads'
    BY <1>1, <1>p, <1>u, <1>x, <2>1 DEF Reads
  <2> QED
    BY <1>r, <2>1, <2>2
<1>7. CASE BeginRepair
  <2>1. client = "codex" /\ lock = Nothing
    BY <1>0, <1>1, <1>7 DEF BeginRepair, TasksExclude
  <2>2. log' = log /\ reader' = [NoReader EXCEPT !.path = log.path] /\ Proceed("repair", "read")
    BY <1>7, <2>1 DEF BeginRepair, envVars
  <2>3. reader'.at = 0 /\ reader'.path = log.path /\ reader'.knows = Unknown
    BY <2>2 DEF NoReader
  <2>4. pc'["sync"] = "idle" /\ pc'["start"] = "idle" /\ pc'["repair"] = "read"
    BY <1>1, <1>p, <1>u, <1>x, <2>1, <2>2
  <2>5. Knows(reader)'
    BY <1>1, <1>w, <2>2, <2>3 DEF Knows
  <2>6. reader'.at <= Whole'
    BY <1>w, <2>2, <2>3 DEF Whole
  <2> QED
    BY <2>2, <2>3, <2>4, <2>5, <2>6 DEF ReaderKnows
<1>8. CASE RepairLine
  <2>1. Step /\ reader.at < Whole /\ log' = log /\ pc' = pc /\ pc["repair"] = "read"
    BY <1>8 DEF RepairLine, envVars
  <2>2. Knows(reader)
    BY <1>h, <2>1
  <2>3. reader'.path = reader.path /\ reader'.at <= Whole' /\ Knows(reader)'
    BY <1>s, <2>1, <2>2
  <2> QED
    BY <1>h, <2>1, <2>3 DEF ReaderKnows
<1>9. CASE EndRepair
  <2>1. reader' = NoReader /\ pc["repair"] = "read" /\ Proceed("repair", "collect")
    BY <1>9 DEF EndRepair
  <2>2. ~Reads'
    BY <1>1, <1>p, <1>u, <1>x, <2>1 DEF Reads
  <2> QED
    BY <1>r, <2>1, <2>2
<1>10. CASE Crash
  <2>1. reader' = NoReader /\ ~Reads'
    BY <1>10, <1>1 DEF Crash, Reads
  <2> QED
    BY <1>r, <2>1
<1>11. CASE Start /\ meta.started = -1
  <2>1. /\ reader' = [at |-> Whole, knows |-> KnownAt(Whole), path |-> log.path, saved |-> FALSE]
        /\ log' = log /\ up = "down" /\ Proceed("start", "save")
    BY <1>11 DEF Start, envVars
  <2>2. pc'["sync"] # "read" /\ pc'["repair"] # "read"
    BY <1>1, <1>p, <1>u, <1>x, <2>1
  <2>3. Knows(reader)' /\ reader'.at <= Whole' /\ reader'.path = log.path
    BY <1>1, <1>w, <2>1, KnownAtIs DEF Knows, Whole
  <2> QED
    BY <2>1, <2>2, <2>3 DEF ReaderKnows
<1>12. ASSUME NEW t \in Tasks, FailFile(t) PROVE ReaderKnows'
  <2>1. /\ reader' = NoReader /\ t \in {"sync", "repair"} /\ pc[t] = "read"
        /\ Proceed(t, IF t = "sync" THEN "clean" ELSE "collect")
    BY <1>12 DEF FailFile
  <2>2. ~Reads'
    BY <1>1, <1>p, <1>u, <1>x, <2>1 DEF Reads
  <2> QED
    BY <1>r, <2>1, <2>2
<1> QED
  BY <1>2, <1>3, <1>4, <1>5, <1>6, <1>7, <1>8, <1>9, <1>10, <1>11, <1>12, ReadingSteps

\* The repair is over when its reading is, and at no other step.
LEMMA RepairSteps ==
  ASSUME UsageInv, [UsageNext]_usageVars
  PROVE  /\ Repaired' => Repaired \/ EndRepair
         /\ pc'["repair"] = "read" => \/ BeginRepair \/ RepairLine
                                      \/ (pc["repair"] = "read" /\ reader' = reader /\ Stays)
         /\ cursor' = cursor \/ SaveCursor \/ SaveFirst \/ EndRepair
<1>1. /\ pc \in [Tasks -> UsageSteps] /\ meta \in Metas /\ now \in Nat
      /\ Tasks = {"start", "sync", "repair", "query"} /\ TasksExclude /\ client \in {"claude", "codex"}
  BY UsageBasics DEF UsageInv, UsageTypes
<1>p. \A t \in Tasks, s \in UsageSteps : Proceed(t, s) =>
        pc'[t] = s /\ \A u \in Tasks : u # t => pc'[u] = pc[u]
  BY <1>1 DEF Proceed
<1>u. UsageSteps = {"idle", "save", "clean", "backfill", "collect", "roll", "read"}
  BY DEF UsageSteps
<1>x. /\ pc["sync"] = "read" => pc["repair"] # "read" /\ pc["start"] # "save"
      /\ pc["repair"] = "read" => pc["start"] # "save" /\ ~Repaired /\ client = "codex"
      /\ up # "up" => pc["sync"] # "read" /\ pc["repair"] = "idle"
      /\ lock = Nothing => pc["sync"] = "idle" /\ pc["repair"] # "read" /\ pc["start"] = "idle"
  BY <1>1, ReadersExclude
<1>2. CASE Stays
  BY <1>2 DEF Stays
<1>3. ASSUME NEW t \in Tasks \ {"repair"}, NEW s \in UsageSteps, Proceed(t, s),
             meta'.repaired = meta.repaired, meta'.unread = meta.unread
      PROVE  Repaired' = Repaired /\ pc'["repair"] = pc["repair"]
  BY <1>1, <1>3, <1>p DEF Repaired
<1>4. CASE BeginSync
  <2>1. lock = Nothing /\ meta' = meta /\ cursor' = cursor /\ Proceed("sync", "read")
    BY <1>4 DEF BeginSync, usageDbVars
  <2> QED
    BY <1>1, <1>3, <1>u, <1>x, <2>1
<1>5. CASE ReadLine
  <2>1. pc["sync"] = "read" /\ meta' = meta /\ cursor' = cursor /\ pc' = pc
    BY <1>5 DEF ReadLine
  <2> QED
    BY <1>x, <2>1 DEF Repaired
<1>6. CASE SaveCursor
  <2>1. pc["sync"] = "read" /\ meta' = meta /\ Proceed("sync", "clean")
    BY <1>6 DEF SaveCursor
  <2> QED
    BY <1>1, <1>3, <1>6, <1>u, <1>x, <2>1
<1>7. CASE SaveFirst
  <2>1. pc["start"] = "save" /\ meta' = meta /\ Proceed("start", "clean")
    BY <1>7 DEF SaveFirst
  <2> QED
    BY <1>1, <1>3, <1>7, <1>u, <1>x, <2>1
<1>8. CASE BeginRepair
  <2>1. client = "codex"
    BY <1>1, <1>8 DEF BeginRepair, TasksExclude
  <2>2. /\ ~meta.repaired /\ meta' = [meta EXCEPT !.unread = FALSE] /\ cursor' = cursor
        /\ Proceed("repair", "read")
    BY <1>8, <2>1 DEF BeginRepair
  <2>3. pc'["repair"] = "read" /\ ~meta'.repaired
    BY <1>1, <1>p, <1>u, <2>2 DEF Metas
  <2> QED
    BY <1>8, <2>2, <2>3 DEF Repaired
<1>9. CASE RepairLine
  <2>1. meta' = meta /\ cursor' = cursor /\ pc' = pc
    BY <1>9 DEF RepairLine
  <2> QED
    BY <1>9, <2>1 DEF Repaired
<1>10. CASE EndRepair
  <2>1. Proceed("repair", "collect")
    BY <1>10 DEF EndRepair
  <2> QED
    BY <1>1, <1>10, <1>p, <1>u, <2>1
<1>11. CASE Crash
  <2>1. meta' = meta /\ cursor' = cursor /\ pc'["repair"] = "idle"
    BY <1>1, <1>11 DEF Crash, usageDbVars
  <2> QED
    BY <2>1 DEF Repaired
<1>12. CASE Start /\ meta.started = -1
  <2>1. up = "down" /\ meta' = [meta EXCEPT !.started = now] /\ cursor' = cursor /\ Proceed("start", "save")
    BY <1>12 DEF Start
  <2>2. meta'.repaired = meta.repaired /\ meta'.unread = meta.unread
    BY <1>1, <2>1 DEF Metas
  <2> QED
    BY <1>1, <1>3, <1>u, <1>x, <2>1, <2>2
<1>13. ASSUME NEW t \in Tasks, FailFile(t)
       PROVE  (Repaired' => Repaired) /\ pc'["repair"] # "read" /\ cursor' = cursor
  <2>1. /\ t \in {"sync", "repair"} /\ pc[t] = "read" /\ cursor' = cursor
        /\ Proceed(t, IF t = "sync" THEN "clean" ELSE "collect")
        /\ meta' = IF t = "sync" THEN meta ELSE [meta EXCEPT !.unread = TRUE]
    BY <1>13 DEF FailFile
  <2>2. CASE t = "sync"
    BY <1>1, <1>3, <1>u, <1>x, <2>1, <2>2
  <2>3. CASE t = "repair"
    <3>1. meta'.unread = TRUE /\ pc'["repair"] = "collect"
      BY <1>1, <1>p, <1>u, <2>1, <2>3 DEF Metas
    <3> QED
      BY <2>1, <3>1 DEF Repaired
  <2> QED
    BY <2>1, <2>2, <2>3
<1> QED
  BY <1>2, <1>4, <1>5, <1>6, <1>7, <1>8, <1>9, <1>10, <1>11, <1>12, <1>13, ReadingSteps

CursorIsWhole(c) ==
  /\ client = "codex" => c.at <= Whole
  /\ Knows(c) \/ c.knows = Unknown
  /\ ~c.set => c.at = 0
  /\ c.at <= MaxLines

\* A cursor that is whole stays whole.
LEMMA CursorStays ==
  ASSUME UsageInv, [UsageNext]_usageVars, NEW c \in Cursors, CursorIsWhole(c)
  PROVE  CursorIsWhole(c)' /\ (Knows(c)' <=> Knows(c))
<1>0. /\ UsageTypes /\ LogIsWhole /\ client' = client /\ client \in {"claude", "codex"} /\ c.at \in Nat
      /\ Len(log.lines) \in Nat /\ Whole \in Int /\ Whole <= Len(log.lines)
  BY LogSteps, LogReads DEF UsageInv, UsageTypes, Cursors
<1>1. CASE client = "claude"
  BY <1>0, <1>1, KnownNothing DEF CursorIsWhole, Knows
<1>2. CASE client = "codex"
  <2>1. ~LogShrinks
    BY <1>2 DEF LogShrinks
  <2>2. Whole <= Whole' /\ Whole' \in Nat
    BY <1>0, <2>1, LogKeeps
  <2>3. c.at <= Whole' /\ c.at \in 0 .. Len(log.lines)
    BY <1>0, <1>2, <2>2 DEF CursorIsWhole
  <2>4. KnownIn(client', log'.lines, c.at) = KnownIn(client, log.lines, c.at)
    BY <1>0, <2>3, KnownStays
  <2> QED
    BY <1>0, <1>2, <2>3, <2>4 DEF CursorIsWhole, Knows
<1> QED
  BY <1>0, <1>1, <1>2

\* Every step keeps what the cursors know true.
LEMMA CursorsStep == UsageInv /\ [UsageNext]_usageVars => CursorsKnow'
<1> SUFFICES ASSUME UsageInv, [UsageNext]_usageVars PROVE CursorsKnow'
  OBVIOUS
<1>0. UsageTypes /\ LogIsWhole /\ TasksExclude /\ ReaderKnows /\ CursorsKnow
  BY DEF UsageInv
<1>1. /\ cursor \in [LogPaths -> Cursors] /\ LogPaths = {"sessions", "archived_sessions"}
      /\ client' = client /\ client \in {"claude", "codex"} /\ reader \in Readers
      /\ log.path \in LogPaths
  BY <1>0, UsageBasics, LogSteps DEF UsageTypes, LogStates
<1>2. /\ \A p \in LogPaths : CursorIsWhole(cursor[p])
      /\ Knows(cursor["archived_sessions"])
      /\ Repaired /\ log.path = "sessions" => Knows(cursor["sessions"])
  BY <1>0 DEF CursorsKnow, CursorIsWhole
<1>n. Len(log.lines) \in Nat /\ Whole \in Int /\ Whole <= Len(log.lines) /\ reader.at \in Nat
      /\ Len(log.lines) <= MaxLines
  BY <1>0, LogReads DEF LogIsWhole
<1>q. log'.path = "sessions" => log.path = "sessions"
  <2>1. log'.path = log.path \/ log'.path = "archived_sessions"
    BY <1>0, LogSteps DEF LogAppends, LogEnds, LogMoves, LogShrinks
  <2> QED
    BY <2>1
<1>3. \A c \in Cursors : CursorIsWhole(c) => CursorIsWhole(c)' /\ (Knows(c)' <=> Knows(c))
  BY CursorStays
<1>4. ASSUME NEW f \in [LogPaths -> Cursors], cursor' = f, \A p \in LogPaths : CursorIsWhole(f[p])',
             Knows(f["archived_sessions"])',
             Repaired' /\ log.path = "sessions" => Knows(f["sessions"])'
      PROVE  CursorsKnow'
  BY <1>q, <1>4 DEF CursorsKnow, CursorIsWhole, Knows
<1>k. /\ \A p \in LogPaths : cursor[p] \in Cursors
      /\ "archived_sessions" \in LogPaths /\ "sessions" \in LogPaths
  BY <1>1
<1>5. ASSUME cursor' = cursor, Repaired' => Repaired PROVE CursorsKnow'
  <2>1. PICK f \in [LogPaths -> Cursors] : f = cursor
    BY <1>1
  <2>2. \A p \in LogPaths : CursorIsWhole(f[p])'
    BY <1>2, <1>3, <1>k, <2>1
  <2>3. Knows(f["archived_sessions"])'
    BY <1>2, <1>3, <1>k, <2>1
  <2>4. Repaired' /\ log.path = "sessions" => Knows(f["sessions"])'
    BY <1>2, <1>3, <1>k, <1>5, <2>1
  <2> QED
    BY <1>4, <1>5, <2>1, <2>2, <2>3, <2>4
\* One cursor is written.
<1>6. ASSUME NEW p \in LogPaths, NEW c \in Cursors, cursor' = [cursor EXCEPT ![p] = c],
             CursorIsWhole(c), p = "archived_sessions" => Knows(c),
             Repaired' /\ log.path = "sessions" =>
               IF p = "sessions" THEN Knows(c) ELSE Knows(cursor["sessions"])
      PROVE  CursorsKnow'
  <2>1. PICK f \in [LogPaths -> Cursors] : f = [cursor EXCEPT ![p] = c]
    BY <1>1
  <2>2. f[p] = c /\ \A q \in LogPaths : q # p => f[q] = cursor[q]
    BY <1>1, <2>1
  <2>3. \A q \in LogPaths : CursorIsWhole(f[q])
    BY <1>2, <1>6, <2>2
  <2>4. \A q \in LogPaths : f[q] \in Cursors /\ CursorIsWhole(f[q])' /\ (Knows(f[q])' <=> Knows(f[q]))
    BY <1>3, <2>1, <2>3
  <2>5. Knows(f["archived_sessions"])
    BY <1>2, <1>6, <1>k, <2>2
  <2>6. Repaired' /\ log.path = "sessions" => Knows(f["sessions"])
    BY <1>6, <1>k, <2>2
  <2> QED
    BY <1>4, <1>6, <1>k, <2>1, <2>4, <2>5, <2>6
<1>7. CASE cursor' = cursor /\ ~EndRepair
  BY <1>5, <1>7, RepairSteps
\* What a reader writes.
<1>8. ASSUME NEW p \in LogPaths, Reads, reader.at <= Whole, p = reader.path,
             p = "archived_sessions" => Knows(reader),
             Repaired /\ log.path = "sessions" => Knows(reader),
             ~EndRepair,
             cursor' = [cursor EXCEPT ![p] = [at |-> reader.at, print |-> TailPrint(reader.at),
                                              knows |-> reader.knows, set |-> TRUE]]
      PROVE  CursorsKnow'
  <2>1. PICK c : c = [at |-> reader.at, print |-> TailPrint(reader.at), knows |-> reader.knows, set |-> TRUE]
    OBVIOUS
  <2>2. TailPrint(reader.at) \in LogLines \cup {Nothing}
    BY <1>0, <1>8, <1>n, LogReads DEF TailPrint
  <2>3. c \in Cursors /\ c.at = reader.at /\ c.knows = reader.knows /\ c.set
    BY <1>1, <2>1, <2>2 DEF Cursors, Readers
  <2>4. Knows(reader) \/ reader.knows = Unknown
    BY <1>0, <1>8 DEF ReaderKnows
  <2>5. Knows(c) <=> Knows(reader)
    BY <2>3 DEF Knows
  <2>6. CursorIsWhole(c)
    BY <1>8, <1>n, <2>3, <2>4, <2>5, UsageBasics DEF CursorIsWhole
  <2>7. Repaired' => Repaired
    BY <1>8, RepairSteps
  <2>8. p # "sessions" /\ Repaired /\ log.path = "sessions" => Knows(cursor["sessions"])
    BY <1>2
  <2>9. Repaired' /\ log.path = "sessions" =>
          IF p = "sessions" THEN Knows(c) ELSE Knows(cursor["sessions"])
    BY <1>8, <2>5, <2>7, <2>8
  <2> QED
    BY <1>6, <1>8, <2>1, <2>3, <2>5, <2>6, <2>9
<1>9. CASE SaveCursor
  <2>1. pc["sync"] = "read" /\ reader.at = Whole /\ Reads
    BY <1>9 DEF SaveCursor, Reads
  <2>2. ~EndRepair
    BY <1>0, <2>1, ReadersExclude DEF EndRepair, UsageTypes
  <2>3. CASE reader.path # log.path
    BY <1>7, <1>9, <2>2, <2>3 DEF SaveCursor
  <2>4. CASE reader.path = log.path
    <3>1. cursor' = [cursor EXCEPT ![reader.path] = [at |-> reader.at, print |-> TailPrint(reader.at),
                                                    knows |-> reader.knows, set |-> TRUE]]
      BY <1>9, <2>4 DEF SaveCursor
    <3>2. Repaired \/ reader.path = "archived_sessions" => Knows(reader)
      BY <1>0, <2>1 DEF ReaderKnows
    <3>3. reader.path \in LogPaths /\ reader.at <= Whole
      BY <1>1, <1>n, <2>1, <2>4
    <3>4. PICK p \in LogPaths : p = reader.path
      BY <3>3
    <3> QED
      BY <1>8, <2>1, <2>2, <3>1, <3>2, <3>3, <3>4
  <2> QED
    BY <2>3, <2>4
<1>10. CASE SaveFirst
  <2>1. pc["start"] = "save" /\ Reads
    BY <1>10 DEF SaveFirst, Reads
  <2>2. ~EndRepair
    BY <1>0, <2>1, ReadersExclude DEF EndRepair, UsageTypes
  <2>3. Knows(reader) /\ reader.at <= Whole /\ reader.path \in LogPaths
    BY <1>0, <1>1, <2>1 DEF ReaderKnows, Readers
  <2>4. cursor' = [cursor EXCEPT ![reader.path] = [at |-> reader.at, print |-> TailPrint(reader.at),
                                                  knows |-> reader.knows, set |-> TRUE]]
    BY <1>10 DEF SaveFirst
  <2>5. PICK p \in LogPaths : p = reader.path
    BY <2>3
  <2> QED
    BY <1>8, <2>1, <2>2, <2>3, <2>4, <2>5
<1>11. CASE EndRepair
  <2>1. pc["repair"] = "read" /\ reader.at = Whole /\ client = "codex" /\ log' = log
    BY <1>0, <1>11 DEF EndRepair, TasksExclude, envVars
  <2>2. PICK p \in LogPaths : p = reader.path
    BY <1>1 DEF Readers
  <2>3. cursor[p] \in Cursors /\ CursorIsWhole(cursor[p])
    BY <1>2, <1>k
  <2>4. p # "sessions" => log.path # "sessions"
    BY <1>0, <2>2 DEF ReaderKnows
  <2>5. PICK d \in Cursors : d = cursor[p]
    BY <2>3
  <2>6. cursor' = IF d.set /\ d.at <= reader.at THEN [cursor EXCEPT ![p].knows = KnownAt(d.at)] ELSE cursor
    BY <1>11, <2>2, <2>5 DEF EndRepair
  <2>7. CASE d.set
    <3>1. d.at <= reader.at /\ d.at \in 0 .. Len(log.lines)
      BY <1>n, <2>1, <2>3, <2>5 DEF CursorIsWhole, Cursors
    <3>2. PICK c : c = [d EXCEPT !.knows = KnownAt(d.at)]
      OBVIOUS
    <3>3. KnownAt(d.at) \in Models \cup {Unknown} /\ KnownAt(d.at) = KnownIn(client, log.lines, d.at)
      BY <1>0, <3>1, KnownIs, KnownAtIs
    <3>4. c \in Cursors
      BY <3>2, <3>3, FieldsAreWritten
    <3>5. c.knows = KnownAt(d.at) /\ c.at = d.at /\ c.set = d.set
      BY <3>2 DEF Cursors
    <3>6. Knows(c)
      BY <3>3, <3>5 DEF Knows
    <3>7. CursorIsWhole(c)
      BY <2>3, <2>5, <3>5, <3>6 DEF CursorIsWhole
    <3>8. cursor' = [cursor EXCEPT ![p] = c]
      <4>1. cursor' = [cursor EXCEPT ![p].knows = KnownAt(d.at)]
        BY <2>6, <2>7, <3>1
      <4>2. [cursor EXCEPT ![p].knows = KnownAt(d.at)] = [cursor EXCEPT ![p] = [cursor[p] EXCEPT !.knows = KnownAt(d.at)]]
        OBVIOUS
      <4> QED
        BY <2>5, <3>2, <4>1, <4>2
    <3> QED
      BY <1>6, <2>4, <3>4, <3>6, <3>7, <3>8
  <2>8. CASE ~d.set
    <3>1. cursor' = [cursor EXCEPT ![p] = d]
      BY <1>1, <2>5, <2>6, <2>8
    <3>2. d.at = 0 /\ KnownIn(client, log.lines, 0) = Unknown
      BY <2>3, <2>5, <2>8, KnownNothing DEF CursorIsWhole
    <3>3. Knows(d)
      BY <2>3, <2>5, <3>2 DEF CursorIsWhole, Knows
    <3> QED
      BY <1>6, <2>3, <2>4, <2>5, <3>1, <3>3
  <2> QED
    BY <2>7, <2>8
<1> QED
  BY <1>7, <1>9, <1>10, <1>11, RepairSteps

\* Every step keeps the models that a repair has found.
LEMMA KnowledgeStep == UsageInv /\ [UsageNext]_usageVars => EventsKnow'
<1> SUFFICES ASSUME UsageInv, [UsageNext]_usageVars PROVE EventsKnow'
  OBVIOUS
<1>0. UsageTypes /\ LogIsWhole /\ TasksExclude /\ ReaderKnows /\ EventsKnow /\ EventsAreWhole
  BY DEF UsageInv
<1>1. /\ client' = client /\ client \in {"claude", "codex"} /\ reader \in Readers /\ events \subseteq UsageEvents
      /\ pc \in [Tasks -> UsageSteps] /\ \A r \in Requests : ModelOf[r] # Unknown
  BY <1>0, UsageBasics, LogSteps DEF UsageTypes
<1>n. Len(log.lines) \in Nat /\ Whole \in Int /\ Whole <= Len(log.lines) /\ reader.at \in Nat
  BY <1>0, LogReads
<1>x. /\ pc["sync"] = "read" => pc["repair"] # "read" /\ pc["start"] # "save"
      /\ pc["repair"] = "read" => pc["start"] # "save" /\ ~Repaired /\ client = "codex"
  BY <1>0, <1>1, ReadersExclude
<1>2. /\ Repaired => \A e \in events : e.model # Unknown
      /\ pc["repair"] = "read" =>
           \A e \in events, i \in 1 .. reader.at : log.lines[i].req = e.req => e.model # Unknown
  BY <1>0 DEF EventsKnow
<1>e. \A e \in events : EventIsWhole(e) /\ e.req \in Requests
  BY <1>0, <1>1 DEF EventsAreWhole, UsageEvents
\* An event of a Codex log that is filed as unknown has its line.
<1>u. ASSUME NEW e \in events, client = "codex", e.model = Unknown
      PROVE  /\ e.key = <<e.req, Unknown, e.at>>
             /\ \E i \in 1 .. Whole : log.lines[i].req = e.req /\ log.lines[i].at = e.at
  <2>1. EventIsWhole(e) /\ ModelOf[e.req] # Unknown
    BY <1>1, <1>e
  <2> QED
    BY <1>u, <2>1 DEF EventIsWhole
<1>3. CASE EndRepair
  <2>1. events' = events /\ pc["repair"] = "read" /\ reader.at = Whole /\ client = "codex"
        /\ Proceed("repair", "collect")
    BY <1>0, <1>3 DEF EndRepair, TasksExclude
  <2>2. \A e \in events : e.model # Unknown
    BY <1>2, <1>u, <2>1
  <2>3. pc'["repair"] # "read"
    BY <1>1, <2>1, UsageBasics DEF Proceed
  <2> QED
    BY <2>1, <2>2, <2>3 DEF EventsKnow
<1>4. CASE RepairLine
  <2> DEFINE l == NextLine  k0 == <<l.req, Unknown, l.at>>
  <2>1. /\ pc["repair"] = "read" /\ Reads /\ reader.at < Whole /\ log' = log /\ meta' = meta /\ pc' = pc
        /\ Step /\ client = "codex"
    BY <1>4, <1>x DEF RepairLine, Reads, envVars
  <2>2. reader'.at = reader.at + 1
    BY <1>1, <2>1 DEF Step, Readers
  <2>3. ~Repaired'
    BY <1>x, <2>1 DEF Repaired
  <2>4. ASSUME \A e \in events' : e.model = Unknown => e \in events /\ e.req # l.req
        PROVE  EventsKnow'
    <3>1. ASSUME NEW e \in events', NEW i \in 1 .. reader.at + 1, log.lines[i].req = e.req, e.model = Unknown
          PROVE  FALSE
      <4>1. e \in events /\ e.req # l.req
        BY <2>4, <3>1
      <4>2. i \in 1 .. reader.at
        BY <1>n, <3>1, <4>1 DEF NextLine
      <4> QED
        BY <1>2, <2>1, <3>1, <4>1, <4>2
    <3> QED
      BY <2>1, <2>2, <2>3, <3>1 DEF EventsKnow
  <2>5. CASE l.req = Nothing
    <3>1. events' = events /\ \A e \in events : e.req # l.req
      BY <1>4, <1>e, <2>5, UsageBasics DEF RepairLine
    <3> QED
      BY <2>4, <3>1
  <2>6. CASE l.req # Nothing
    <3>1. /\ l.req \in Requests /\ reader.at + 1 \in 1 .. Whole /\ KnownAt(reader.at) = ModelOf[l.req]
      BY <1>0, <2>1, <2>6, NextLineIs
    <3>2. reader.knows = ModelOf[l.req] /\ reader.knows # Unknown
      BY <1>0, <1>1, <2>1, <3>1, KnownAtIs DEF ReaderKnows, Knows
    <3>3. Relabel(l, reader.knows)
      BY <1>4, <2>6, <3>2 DEF RepairLine
    <3>4. SessionKey(l, Unknown) = k0
      BY <2>1 DEF SessionKey
    <3>5. \A y \in events' :
             \/ y \in events /\ y.key # SessionKey(l, Unknown)
             \/ \E x \in events : y = [x EXCEPT !.model = reader.knows, !.key = SessionKey(l, reader.knows)]
      BY ONLY <3>3, RelabelIs
    <3>6. \A x \in events : [x EXCEPT !.model = reader.knows, !.key = SessionKey(l, reader.knows)].model # Unknown
      <4> DEFINE m == reader.knows  k == SessionKey(l, reader.knows)
      <4>1. m # Unknown
        BY <3>2
      <4> HIDE DEF m, k
      <4>2. \A x \in events : [x EXCEPT !.model = m, !.key = k].model = m
        BY <1>1, RelabelledIs
      <4> QED
        BY <4>1, <4>2 DEF m, k
    <3>7. ASSUME NEW e \in events', e.model = Unknown PROVE e \in events /\ e.req # l.req
      <4>1. e \in events /\ e.key # k0
        BY <3>4, <3>5, <3>6, <3>7
      <4>2. SUFFICES ASSUME e.req = l.req PROVE FALSE
        BY <4>1
      <4>3. PICK i \in 1 .. Whole : log.lines[i].req = e.req /\ log.lines[i].at = e.at
        BY <1>u, <2>1, <3>7, <4>1
      <4>4. i = reader.at + 1
        <5>1. i \in 1 .. Len(log.lines) /\ reader.at + 1 \in 1 .. Len(log.lines)
          BY <1>n, <3>1
        <5> QED
          BY <1>0, <2>1, <2>6, <4>2, <4>3, <5>1 DEF LogIsWhole, NextLine
      <4>5. e.at = l.at /\ e.key = <<e.req, Unknown, e.at>>
        BY <1>u, <2>1, <3>7, <4>1, <4>3, <4>4 DEF NextLine
      <4> QED
        BY <4>1, <4>2, <4>5
    <3> QED
      BY <2>4, <3>7
  <2> QED
    BY <2>5, <2>6
<1>5. CASE ~EndRepair /\ ~RepairLine
  <2>1. Repaired' => Repaired
    BY <1>5, RepairSteps
  \* What was to know a model does, after any step that leaves the events be.
  <2>2. ASSUME pc'["repair"] = "read", NEW e, NEW i \in 1 .. reader'.at, log'.lines[i].req = e.req
        PROVE  /\ pc["repair"] = "read" /\ i \in 1 .. reader.at /\ log.lines[i].req = e.req
               /\ i \in 1 .. Whole
    <3>1. ~BeginRepair
      <4>1. SUFFICES ASSUME BeginRepair PROVE FALSE
        OBVIOUS
      <4>2. client = "codex"
        BY <1>0, <4>1 DEF BeginRepair, TasksExclude, UsageTypes
      <4>3. reader'.at = 0
        BY <4>1, <4>2 DEF BeginRepair, NoReader
      <4> QED
        BY <2>2, <4>3
    <3>2. pc["repair"] = "read" /\ reader' = reader
      BY <1>5, <2>2, <3>1, RepairSteps
    <3>3. reader.at <= Whole /\ ~LogShrinks
      BY <1>0, <1>x, <3>2 DEF ReaderKnows, Reads, LogShrinks
    <3>4. i \in 1 .. reader.at /\ i \in 1 .. Whole /\ i \in 1 .. Len(log.lines)
      BY <1>n, <2>2, <3>2, <3>3
    <3>5. log'.lines[i] = log.lines[i]
      BY <1>0, <3>3, <3>4, LogKeeps
    <3> QED
      BY <2>2, <3>2, <3>4, <3>5
  <2>3. ASSUME NEW e, e.model # Unknown,
               \A y \in events' : \/ y \in events \/ y.model = e.model
                                  \/ \E x \in events : y.req = x.req /\ y.model = x.model
        PROVE  EventsKnow'
    <3>1. ASSUME Repaired', NEW y \in events' PROVE y.model # Unknown
      BY <1>2, <2>1, <2>3, <3>1
    <3>2. ASSUME pc'["repair"] = "read", NEW y \in events', NEW i \in 1 .. reader'.at, log'.lines[i].req = y.req
          PROVE  y.model # Unknown
      <4>1. pc["repair"] = "read" /\ i \in 1 .. reader.at /\ log.lines[i].req = y.req
        BY <2>2, <3>2
      <4> QED
        BY <1>2, <2>3, <4>1
    <3> QED
      BY <3>1, <3>2 DEF EventsKnow
  <2>4. CASE events' \subseteq events
    <3>1. ASSUME Repaired', NEW y \in events' PROVE y.model # Unknown
      BY <1>2, <2>1, <2>4, <3>1
    <3>2. ASSUME pc'["repair"] = "read", NEW y \in events', NEW i \in 1 .. reader'.at, log'.lines[i].req = y.req
          PROVE  y.model # Unknown
      <4>1. pc["repair"] = "read" /\ i \in 1 .. reader.at /\ log.lines[i].req = y.req
        BY <2>2, <3>2
      <4> QED
        BY <1>2, <2>4, <3>2, <4>1
    <3> QED
      BY <3>1, <3>2 DEF EventsKnow
  <2>i. ASSUME NEW e \in UsageEvents, InsertEvent(e), NEW y \in events'
        PROVE  y \in events \/ y.model = e.model \/ \E x \in events : y.req = x.req /\ y.model = x.model
    <3>1. y \in events \/ y = e \/ \E x \in events : y = Merged(x, e)
      BY <2>i, InsertIs
    <3>2. \A x \in events : Merged(x, e).req = x.req /\ Merged(x, e).model = x.model
      BY <1>1, MergedIs
    <3> QED
      BY <3>1, <3>2
  <2>5. ASSUME NEW e \in UsageEvents, Inserts(e) PROVE EventsKnow'
    <3>1. /\ Reads /\ reader.at < Whole /\ NextLine.req # Nothing /\ e = SessionEvent(NextLine, reader.knows)
          /\ InsertEvent(e) /\ pc["sync"] = "read" /\ pc' = pc /\ meta' = meta
      BY <2>5 DEF Inserts, ReadLine, Reads
    <3>2. /\ NextLine.req \in Requests
          /\ client = "claude" => NextLine.model = ModelOf[NextLine.req]
          /\ client = "codex" => KnownAt(reader.at) = ModelOf[NextLine.req]
      BY <1>0, <3>1, NextLineIs
    <3>3. /\ client = "claude" => e.model = NextLine.model
          /\ client # "claude" => e.model = reader.knows
      BY <3>1, SessionEventHas
    <3>4. Repaired => e.model # Unknown
      <4>1. Repaired => reader.knows = KnownAt(reader.at)
        BY <1>0, <3>1, KnownAtIs DEF ReaderKnows, Knows
      <4> QED
        BY <1>1, <3>2, <3>3, <4>1
    <3>5. ASSUME Repaired', NEW y \in events' PROVE y.model # Unknown
      BY <1>2, <2>1, <2>i, <3>1, <3>4, <3>5
    <3>6. pc'["repair"] # "read"
      BY <1>x, <3>1
    <3> QED
      BY <3>5, <3>6 DEF EventsKnow
  <2>6. ASSUME NEW r \in Requests, Record(r), InsertEvent(ProxyEvent(r)) PROVE EventsKnow'
    <3>1. PICK e \in UsageEvents : e = ProxyEvent(r)
      BY <1>0, ProxyEventIs
    <3>2. e.model # Unknown
      BY <1>1, <3>1 DEF ProxyEvent
    <3>3. InsertEvent(e)
      BY <2>6, <3>1
    <3> QED
      BY <2>3, <2>i, <3>2, <3>3
  <2>7. ~Relabels /\ Clean(events) \subseteq events
    BY <1>5 DEF Relabels, Clean
  <2> QED
    BY <1>0, <2>4, <2>5, <2>6, <2>7, EventSteps
<1> QED
  BY <1>3, <1>4, <1>5

-----------------------------------------------------------------------------
(* The first state, and what follows from the invariant.                    *)

\* A fresh install and one that an earlier version kept satisfy the invariant.
LEMMA InitUsageInv == UsageInit => UsageInv
<1> SUFFICES ASSUME UsageInit PROVE UsageInv
  OBVIOUS
<1>0. /\ now = 0 /\ client \in {"claude", "codex"} /\ up = "down" /\ lock = Nothing /\ dirty = {}
      /\ answer = [r \in Requests |-> NoAnswer] /\ reader = NoReader
      /\ pc = [t \in Tasks |-> "idle"] /\ days = [t \in Tasks |-> NoDays]
  BY DEF UsageInit
<1> DEFINE spent == Line(0, First, IF client = "claude" THEN ModelOf[First] ELSE Unknown, 1)
           turn == Line(0, Nothing, ModelOf[First], 0)
           lines == IF client = "claude" THEN <<spent>> ELSE <<turn, spent>>
<1>1. PICK legacy \in BOOLEAN, rolled \in BOOLEAN, n \in 1..2 :
        /\ legacy => client = "codex"
        /\ ~legacy => ~rolled /\ n = 1
        /\ log = [path |-> "sessions", cut |-> FALSE, count |-> 0, lines |-> lines]
        /\ events = IF legacy /\ n = 2 THEN {SessionEvent(spent, Unknown)} ELSE {}
        /\ hourly = [d \in Days |-> IF rolled THEN Summary(OnDay(events, d)) ELSE {}]
        /\ dirty = {}
        /\ meta = [started |-> IF legacy THEN 0 ELSE -1, repaired |-> client = "claude",
                   rolled |-> rolled, cleaned |-> 0, unread |-> FALSE]
        /\ cursor = [p \in LogPaths |-> IF legacy /\ p = "sessions"
                     THEN [at |-> n, print |-> lines[n], knows |-> Unknown, set |-> TRUE]
                     ELSE NoCursor]
  BY <1>0, Zenon DEF UsageInit
<1>2. /\ spent \in LogLines /\ turn \in LogLines /\ First \in Requests /\ ModelOf[First] \in Models
      /\ spent.req = First /\ spent.at = 0 /\ spent.out = 1 /\ spent.id = 0
      /\ spent.model = IF client = "claude" THEN ModelOf[First] ELSE Unknown
      /\ turn.req = Nothing /\ turn.at = 0 /\ turn.id = 0 /\ turn.model = ModelOf[First]
      /\ Nothing \notin Requests
  BY <1>0, <1>1, UsageConstants DEF Line, LogLines
<1>3. /\ client = "claude" => lines = <<spent>> /\ Len(lines) = 1 /\ lines[1] = spent
      /\ client = "codex" => /\ lines = <<turn, spent>> /\ Len(lines) = 2
                             /\ lines[1] = turn /\ lines[2] = spent
      /\ lines \in Seq(LogLines)
  BY <1>0, <1>2
<1>4. log.path = "sessions" /\ ~log.cut /\ log.count = 0 /\ log.lines = lines /\ log \in LogStates
      /\ Whole = Len(lines)
  BY <1>1, <1>3, UsageBasics DEF LogStates, Whole
<1>e. SessionEvent(spent, Unknown) \in UsageEvents
  BY <1>2, SessionEventIs
<1>m. /\ meta \in Metas /\ meta.repaired = (client = "claude")
  BY <1>1 DEF Metas
<1>h. hourly \in [Days -> SUBSET Rollups]
  <2>1. \A d : Summary(OnDay(events, d)) \subseteq Rollups
    BY <1>1, <1>e DEF Summary, OnDay, UsageEvents, Rollups
  <2> QED
    BY <1>1, <2>1
<1>c. /\ cursor \in [LogPaths -> Cursors] /\ cursor["archived_sessions"] = NoCursor
      /\ \A p \in LogPaths :
           \/ cursor[p] = NoCursor
           \/ /\ legacy /\ client = "codex" /\ p = "sessions" /\ cursor[p].at = n
              /\ cursor[p].knows = Unknown /\ cursor[p].set
  <2> DEFINE c == [at |-> n, print |-> lines[n], knows |-> Unknown, set |-> TRUE]
  <2>1. legacy => client = "codex" /\ lines[n] \in LogLines
    BY <1>1, <1>2, <1>3
  <2>2. legacy => c \in Cursors
    BY <2>1 DEF Cursors
  <2>3. cursor = [p \in LogPaths |-> IF legacy /\ p = "sessions" THEN c ELSE NoCursor]
    BY <1>1
  <2>4. c.at = n /\ c.knows = Unknown /\ c.set
    OBVIOUS
  <2> HIDE DEF c
  <2> QED
    BY <2>1, <2>2, <2>3, <2>4, UsageBasics
<1>5. UsageTypes
  <2>1. answer \in [Requests -> Answers]
    BY <1>0 DEF NoAnswer, Answers
  <2>2. pc \in [Tasks -> UsageSteps] /\ days \in [Tasks -> Lists]
    BY <1>0, UsageBasics DEF UsageSteps
  <2> QED
    BY <1>0, <1>1, <1>4, <1>c, <1>e, <1>h, <1>m, <2>1, <2>2, UsageBasics DEF UsageTypes
<1>6. LogIsWhole
  <2>1. \A i \in 1 .. Len(lines) : LineIsWhole(lines[i], client, 0, 0)
    BY <1>0, <1>2, <1>3, UsageBasics DEF LineIsWhole
  <2>2. Len(lines) <= MaxLines
    BY <1>0, <1>3, UsageConstants
  <2>3. ASSUME client = "codex"
        PROVE  /\ \A k \in 0 .. Len(lines) : HasLast(lines, k)
               /\ \A i \in 1 .. Len(lines) : lines[i].req # Nothing => KnownAt(i - 1) = ModelOf[lines[i].req]
    <3>1. ASSUME NEW k \in 1 .. 2 PROVE LastIn(lines, 1, k)
      BY <1>2, <1>3, <2>3, <3>1 DEF LastIn
    <3>2. \A k \in 0 .. 2 : HasLast(lines, k)
      BY <3>1 DEF HasLast
    <3>3. KnownIn(client, lines, 1) = ModelOf[First]
      <4>1. LastIn(lines, 1, 1)
        BY <3>1
      <4> HIDE DEF lines
      <4>2. KnownIn(client, lines, 1) = lines[1].model
        BY <2>3, <4>1, KnownLast
      <4> QED
        BY <1>2, <1>3, <2>3, <4>2
    <3>4. KnownAt(1) = ModelOf[First]
      BY <1>4, <3>3, KnownAtIs
    <3>5. ASSUME NEW i \in 1 .. 2, lines[i].req # Nothing PROVE i = 2 /\ i - 1 = 1 /\ lines[i].req = First
      BY <1>2, <1>3, <2>3, <3>5
    <3>6. Len(lines) = 2
      BY <1>3, <2>3
    <3> HIDE DEF lines
    <3>7. \A i \in 1 .. 2 : lines[i].req # Nothing => KnownAt(i - 1) = ModelOf[lines[i].req]
      BY <3>4, <3>5
    <3> QED
      BY <3>2, <3>6, <3>7
  <2>4. client = "claude" => \A i, j \in 1 .. Len(lines) : i < j => lines[i].id < lines[j].id
    BY <1>3
  <2>5. client = "codex" => \A i, j \in 1 .. Len(lines) :
          lines[i].req # Nothing /\ lines[i].req = lines[j].req => i = j
    BY <1>2, <1>3
  <2> HIDE DEF lines
  <2> QED
    BY <1>0, <1>4, <2>1, <2>2, <2>3, <2>4, <2>5 DEF LogIsWhole
<1>7. EventsAreWhole
  <2>1. ASSUME NEW e \in events PROVE EventIsWhole(e)
    <3>1. e = SessionEvent(spent, Unknown) /\ client = "codex"
      BY <1>1, <2>1
    <3>2. /\ e.source = "session" /\ e.req = First /\ e.at = 0 /\ e.out = 1
          /\ e.key = <<e.req, e.model, e.at>> /\ e.model = Unknown
      BY <1>2, <3>1, SessionEventHas
    <3>3. 2 \in 1 .. Whole /\ log.lines[2].req = e.req /\ log.lines[2].at = e.at
      BY <1>2, <1>3, <1>4, <3>1, <3>2
    <3> QED
      BY <1>0, <3>1, <3>2, <3>3 DEF EventIsWhole
  <2>2. \A x, y \in events : x = y
    BY <1>1
  <2>3. \A r \in Requests : answer[r].at <= now
    BY <1>0 DEF NoAnswer
  <2> QED
    BY <2>1, <2>2, <2>3 DEF EventsAreWhole
<1>8. TasksExclude
  BY <1>0, <1>m, UsageBasics DEF TasksExclude
<1>9. ReaderKnows
  BY <1>0, UsageBasics DEF ReaderKnows, NoReader, Reads
<1>10. CursorsKnow
  <2>1. NoCursor.at = 0 /\ NoCursor.knows = Unknown /\ ~NoCursor.set
    BY DEF NoCursor
  <2>2. Knows(NoCursor)
    BY <2>1, KnownNothing DEF Knows
  <2>3. Repaired => client = "claude"
    BY <1>0, <1>m, UsageBasics DEF Repaired
  <2>4. \A p \in LogPaths : cursor[p].knows = Unknown
    BY <1>c, <2>1
  <2>5. client = "claude" => \A c : c.knows = Unknown => Knows(c)
    BY KnownNothing DEF Knows
  <2>6. \A p \in LogPaths :
          /\ client = "codex" => cursor[p].at <= Whole
          /\ ~cursor[p].set => cursor[p].at = 0
          /\ cursor[p].at <= MaxLines
    BY <1>3, <1>4, <1>c, <2>1, UsageConstants
  <2> QED
    BY <1>c, <2>2, <2>3, <2>4, <2>5, <2>6, UsageBasics DEF CursorsKnow
<1>11. EventsKnow
  <2>1. client = "claude" => events = {}
    BY <1>1
  <2> QED
    BY <1>0, <1>m, <2>1, UsageBasics DEF EventsKnow, Repaired
<1> QED
  BY <1>5, <1>6, <1>7, <1>8, <1>9, <1>10, <1>11 DEF UsageInv

\* The invariant is inductive.
LEMMA UsageInvStep == UsageInv /\ [UsageNext]_usageVars => UsageInv'
  BY UsageTypesStep, LogStep, EventsStep, TasksStep, ReaderStep, CursorsStep, KnowledgeStep DEF UsageInv

\* The invariant holds in every state.
LEMMA UsageInvHolds == UsageSpec => []UsageInv
  BY InitUsageInv, UsageInvStep, PTL DEF UsageSpec

\* The invariant implies the type invariant.
LEMMA InvTypes == UsageInv => UsageTypeOK
<1> SUFFICES ASSUME UsageInv PROVE UsageTypeOK
  OBVIOUS
<1>1. \A e \in events : e.req \in Requests /\ e.at \in Nat /\ e.at <= now
  BY DEF UsageInv, UsageTypes, UsageEvents, EventsAreWhole, EventIsWhole
<1>2. \A p \in LogPaths : cursor[p].at \in Nat /\ cursor[p].at <= MaxLines
  BY DEF UsageInv, UsageTypes, Cursors, CursorsKnow
<1> QED
  BY <1>1, <1>2, UsageBasics DEF UsageInv, UsageTypes, UsageTypeOK

\* A set without two elements has one at most.
LEMMA OneAtMost ==
  ASSUME NEW S, \A x, y \in S : x = y
  PROVE  Cardinality(S) <= 1
<1>1. CASE S = {}
  BY <1>1, FS_EmptySet
<1>2. ASSUME NEW x \in S PROVE Cardinality(S) <= 1
  <2>1. S = {x}
    BY <1>2
  <2>2. Cardinality({x}) = 1
    BY FS_Singleton
  <2> QED
    BY <2>1, <2>2
<1> QED
  BY <1>1, <1>2

\* Two events of one request are of two sources, or filed under its model and
\* under none.
LEMMA SourcesDiffer ==
  ASSUME UsageInv, NEW x \in events, NEW y \in events, x.req = y.req, x.source = y.source,
         x.model # Unknown <=> y.model # Unknown
  PROVE  x = y
<1>0. EventsAreWhole /\ LogIsWhole /\ events \subseteq UsageEvents /\ client \in {"claude", "codex"}
  BY DEF UsageInv, UsageTypes
<1>1. EventIsWhole(x) /\ EventIsWhole(y)
  BY <1>0 DEF EventsAreWhole
<1>2. CASE client = "claude"
  BY <1>0, <1>1, <1>2 DEF EventsAreWhole, EventIsWhole
<1>3. CASE client = "codex" /\ x.source = "proxy"
  BY <1>0, <1>1, <1>3 DEF EventsAreWhole, EventIsWhole
<1>4. CASE client = "codex" /\ x.source # "proxy"
  <2>1. ASSUME NEW e \in {x, y}
        PROVE  /\ e.key = <<e.req, e.model, e.at>> /\ e.model \in {ModelOf[e.req], Unknown}
               /\ \E i \in 1 .. Whole : log.lines[i].req = e.req /\ log.lines[i].at = e.at
    BY <1>1, <1>4, <2>1 DEF EventIsWhole
  <2>2. PICK i \in 1 .. Whole : log.lines[i].req = x.req /\ log.lines[i].at = x.at
    BY <2>1
  <2>3. PICK j \in 1 .. Whole : log.lines[j].req = y.req /\ log.lines[j].at = y.at
    BY <2>1
  <2>4. i \in 1 .. Len(log.lines) /\ j \in 1 .. Len(log.lines) /\ x.req # Nothing
    BY <1>0, LogReads, UsageBasics DEF UsageInv, UsageEvents
  <2>5. i = j
    BY <1>0, <1>4, <2>2, <2>3, <2>4 DEF LogIsWhole
  <2>6. x.model = y.model /\ x.at = y.at
    BY <2>1, <2>2, <2>3, <2>5
  <2> QED
    BY <1>0, <2>1, <2>6 DEF EventsAreWhole
<1> QED
  BY <1>0, <1>2, <1>3, <1>4

\* What may be two events is a request the proxy recorded under a key of its own,
\* or whose model is not known.
LEMMA InvCounts == UsageInv => CountedOnce
<1> SUFFICES ASSUME UsageInv, NEW r \in Requests PROVE
    LET counted == {e \in events : e.req = r} IN
    /\ \A source \in {"session", "proxy"}, known \in BOOLEAN :
         Cardinality({e \in counted : e.source = source /\ (e.model # Unknown) = known}) <= 1
    /\ /\ meta.repaired /\ ~meta.unread
       /\ answer[r].step # "done" \/ (client = "claude" /\ ~answer[r].whole)
       => Cardinality(counted) <= 1
  BY DEF CountedOnce
<1> DEFINE counted == {e \in events : e.req = r}
<1>1. ASSUME NEW source \in {"session", "proxy"}, NEW known \in BOOLEAN
      PROVE  Cardinality({e \in counted : e.source = source /\ (e.model # Unknown) = known}) <= 1
  BY OneAtMost, SourcesDiffer
<1>2. ASSUME meta.repaired, ~meta.unread,
             answer[r].step # "done" \/ (client = "claude" /\ ~answer[r].whole)
      PROVE  Cardinality(counted) <= 1
  <2>1. ASSUME NEW x \in counted, NEW y \in counted PROVE x = y
    <3>1. /\ EventIsWhole(x) /\ EventIsWhole(y) /\ x.model # Unknown /\ y.model # Unknown
          /\ x \in UsageEvents /\ y \in UsageEvents
      BY <1>2 DEF UsageInv, UsageTypes, EventsAreWhole, EventsKnow, Repaired
    <3>2. CASE answer[r].step # "done"
      <4>1. x.source = "session" /\ y.source = "session"
        BY <3>1, <3>2 DEF EventIsWhole, UsageEvents
      <4> QED
        BY <3>1, <4>1, SourcesDiffer
    <3>3. CASE client = "claude" /\ ~answer[r].whole
      <4>1. x.key = <<r>> /\ y.key = <<r>>
        BY <3>1, <3>3 DEF EventIsWhole, ProxyKey
      <4> QED
        BY <4>1 DEF UsageInv, EventsAreWhole
    <3> QED
      BY <1>2, <3>2, <3>3
  <2> HIDE DEF counted
  <2> QED
    BY <2>1, OneAtMost
<1> QED
  BY <1>1, <1>2

\* The invariant says that a repair has found every model.
LEMMA InvRepaired == UsageInv => RepairedKnowsModels
  BY DEF UsageInv, EventsKnow, Repaired, RepairedKnowsModels

-----------------------------------------------------------------------------
(* Where messages are dated: one Claude message is of one day, unless it    *)
(* straddles midnight.                                                      *)

\* A request is dated by its lines, by its events and by its answer.
LEMMA DatesAre ==
  ASSUME NEW r, NEW t, DOMAIN log.lines = 1 .. Len(log.lines)
  PROVE  t \in Dates(r) <=>
           \/ \E i \in 1 .. Len(log.lines) : log.lines[i].req = r /\ log.lines[i].at = t
           \/ \E e \in events : e.req = r /\ e.at = t
           \/ answer[r].step # "none" /\ t = answer[r].at
<1>1. t \in {log.lines[i].at : i \in {j \in DOMAIN log.lines : log.lines[j].req = r}} <=>
        \E i \in 1 .. Len(log.lines) : log.lines[i].req = r /\ log.lines[i].at = t
  OBVIOUS
<1>2. t \in {e.at : e \in {x \in events : x.req = r}} <=> \E e \in events : e.req = r /\ e.at = t
  OBVIOUS
<1>3. t \in (IF answer[r].step = "none" THEN {} ELSE {answer[r].at}) <=>
        answer[r].step # "none" /\ t = answer[r].at
  OBVIOUS
<1> QED
  BY <1>1, <1>2, <1>3 DEF Dates

\* A step dates a request anew only now, and only when it may.
LEMMA DatesStep ==
  ASSUME UsageInv, [UsageNext]_usageVars, NEW r \in Requests, NEW t \in Dates(r)'
  PROVE  t \in Dates(r) \/ (t = now /\ MayDate(r))
<1>0. UsageTypes /\ LogIsWhole /\ ReaderKnows /\ events \subseteq UsageEvents /\ UsageTypes'
  BY UsageTypesStep DEF UsageInv, UsageTypes
<1>1. DOMAIN log.lines = 1 .. Len(log.lines) /\ Len(log.lines) \in Nat /\ log.lines \in Seq(LogLines)
  BY <1>0, LogReads DEF UsageTypes, LogStates
<1>2. DOMAIN log'.lines = 1 .. Len(log'.lines)
  BY <1>0 DEF UsageTypes, LogStates
<1>3. \/ \E i \in 1 .. Len(log'.lines) : log'.lines[i].req = r /\ log'.lines[i].at = t
      \/ \E e \in events' : e.req = r /\ e.at = t
      \/ answer'[r].step # "none" /\ t = answer'[r].at
  <2>1. t \in {log'.lines[i].at : i \in {j \in DOMAIN log'.lines : log'.lines[j].req = r}}
        \/ t \in {e.at : e \in {x \in events' : x.req = r}}
        \/ t \in (IF answer'[r].step = "none" THEN {} ELSE {answer'[r].at})
    BY DEF Dates
  <2> QED
    BY <1>2, <2>1
<1>d. \A u : u \in Dates(r) <=>
           \/ \E i \in 1 .. Len(log.lines) : log.lines[i].req = r /\ log.lines[i].at = u
           \/ \E e \in events : e.req = r /\ e.at = u
           \/ answer[r].step # "none" /\ u = answer[r].at
  BY <1>1, DatesAre
<1>4. ASSUME NEW i \in 1 .. Len(log'.lines), log'.lines[i].req = r, log'.lines[i].at = t
      PROVE  t \in Dates(r) \/ (t = now /\ MayDate(r))
  <2>1. CASE log'.lines = log.lines
    BY <1>4, <1>d, <2>1
  <2>2. ASSUME NEW l \in LogLines, LogAppends(l)
        PROVE  t \in Dates(r) \/ (t = now /\ MayDate(r))
    <3>1. log'.lines = Append(log.lines, l)
      BY <2>2 DEF LogAppends
    <3>2. (i \in 1 .. Len(log.lines) /\ log'.lines[i] = log.lines[i]) \/ log'.lines[i] = l
      BY <1>1, <1>4, <3>1
    <3>3. log'.lines[i] = l => t = now /\ MayDate(r)
      BY <1>4, <2>2, UsageBasics DEF LogAppends
    <3> QED
      BY <1>4, <1>d, <3>2, <3>3
  <2>3. CASE LogShrinks
    <3>1. log'.lines = Tail(log.lines) /\ Len(log.lines) > 1
      BY <2>3 DEF LogShrinks
    <3>2. i + 1 \in 1 .. Len(log.lines) /\ log'.lines[i] = log.lines[i + 1]
      BY <1>1, <1>4, <3>1
    <3> QED
      BY <1>4, <1>d, <3>2
  <2> QED
    BY <1>0, <2>1, <2>2, <2>3, LogSteps DEF LogEnds, LogMoves
<1>5. ASSUME NEW y \in events', y.req = r, y.at = t
      PROVE  t \in Dates(r)
  <2>1. ASSUME NEW x \in events, x.req = r, x.at = t PROVE t \in Dates(r)
    BY <1>d, <2>1
  <2>2. ASSUME NEW e \in UsageEvents, InsertEvent(e), e.req = r => e.at \in Dates(r)
        PROVE  t \in Dates(r)
    <3>1. y \in events \/ y = e \/ \E x \in events : y = Merged(x, e)
      BY <1>5, <2>2, InsertIs
    <3>2. \A x \in events : Merged(x, e).req = x.req /\ Merged(x, e).at = x.at
      BY <1>0, MergedIs
    <3> QED
      BY <1>5, <2>1, <2>2, <3>1, <3>2
  <2>3. CASE events' = events
    BY <1>5, <2>1, <2>3
  <2>4. CASE \E w \in Tasks : CleanUp(w) /\ events' = Clean(events)
    BY <1>5, <2>1, <2>4 DEF Clean
  <2>5. ASSUME NEW e \in UsageEvents, Inserts(e) PROVE t \in Dates(r)
    <3>1. /\ Reads /\ reader.at < Whole /\ NextLine.req # Nothing /\ e = SessionEvent(NextLine, reader.knows)
          /\ InsertEvent(e)
      BY <2>5 DEF Inserts, ReadLine, Reads
    <3>2. reader.at + 1 \in 1 .. Len(log.lines)
      <4>1. reader.at + 1 \in 1 .. Whole
        BY <1>0, <3>1, NextLineIs
      <4> QED
        BY <1>0, <4>1, LogReads
    <3>3. e.req = NextLine.req /\ e.at = NextLine.at
      BY <3>1, SessionEventHas
    <3>4. e.req = r => e.at \in Dates(r)
      BY <1>d, <3>2, <3>3 DEF NextLine
    <3> QED
      BY <2>2, <3>1, <3>4
  <2>6. ASSUME NEW k \in Requests, Record(k), InsertEvent(ProxyEvent(k)) PROVE t \in Dates(r)
    <3>1. PICK e \in UsageEvents : e = ProxyEvent(k)
      BY <1>0, ProxyEventIs
    <3>2. e.req = k /\ e.at = answer[k].at /\ answer[k].step = "open"
      BY <2>6, <3>1 DEF ProxyEvent, Record
    <3>3. e.req = r => e.at \in Dates(r)
      BY <1>d, <3>2
    <3> QED
      BY <2>2, <2>6, <3>1, <3>3
  <2>7. CASE Relabels
    <3>1. Relabel(NextLine, reader.knows)
      BY <2>7 DEF Relabels
    <3>r. \A z \in events' :
             \/ z \in events /\ z.key # SessionKey(NextLine, Unknown)
             \/ \E x \in events : z = [x EXCEPT !.model = reader.knows, !.key = SessionKey(NextLine, reader.knows)]
      BY ONLY <3>1, RelabelIs
    <3> DEFINE m == reader.knows  k == SessionKey(NextLine, m)
    <3>2. y \in events \/ \E x \in events : y = [x EXCEPT !.model = m, !.key = k]
      BY <1>5, <3>r
    <3> HIDE DEF m, k
    <3>3. \A x \in events : [x EXCEPT !.model = m, !.key = k].req = x.req
                            /\ [x EXCEPT !.model = m, !.key = k].at = x.at
      BY <1>0, RelabelledIs
    <3> QED
      BY <1>5, <2>1, <3>2, <3>3
  <2> QED
    BY <1>0, <2>3, <2>4, <2>5, <2>6, <2>7, EventSteps
<1>6. ASSUME answer'[r].step # "none", t = answer'[r].at
      PROVE  t \in Dates(r) \/ (t = now /\ MayDate(r))
  <2>1. CASE answer[r].step # "none"
    BY <1>0, <1>6, <1>d, <2>1, AnswersKeep
  <2>2. CASE answer[r].step = "none"
    BY <1>0, <1>6, <2>2, AnswersKeep DEF Observe
  <2> QED
    BY <2>1, <2>2
<1> QED
  BY <1>3, <1>4, <1>5, <1>6

\* Unless messages straddle midnight, every step keeps the dates of one on one day.
LEMMA OneDayStep == ~Straddles /\ UsageInv /\ OneDay /\ [UsageNext]_usageVars => OneDay'
<1> SUFFICES ASSUME ~Straddles, UsageInv, OneDay, [UsageNext]_usageVars, client' = "claude",
                    NEW r \in Requests, NEW t \in Dates(r)', NEW u \in Dates(r)'
             PROVE  Day(t) = Day(u)
  BY DEF OneDay
<1>1. client = "claude"
  BY LogSteps DEF UsageInv
<1>2. /\ t \in Dates(r) \/ (t = now /\ MayDate(r))
      /\ u \in Dates(r) \/ (u = now /\ MayDate(r))
  BY DatesStep
<1>3. MayDate(r) => \A d \in Dates(r) : Day(d) = Day(now)
  BY <1>1 DEF MayDate
<1> QED
  BY <1>1, <1>2, <1>3 DEF OneDay

-----------------------------------------------------------------------------
(* A line that is counted stays counted.                                    *)

\* The time of the first start is kept, or is now.
LEMMA StartedKeeps ==
  ASSUME UsageTypes, [UsageNext]_usageVars
  PROVE  meta'.started = meta.started \/ meta'.started = now
<1>0. meta \in Metas /\ now \in Nat
  BY DEF UsageTypes
<1>m. /\ [meta EXCEPT !.cleaned = now].started = meta.started
      /\ [meta EXCEPT !.rolled = TRUE].started = meta.started
      /\ [meta EXCEPT !.repaired = TRUE].started = meta.started
      /\ [meta EXCEPT !.started = now].started = now
      /\ [meta EXCEPT !.unread = TRUE].started = meta.started
      /\ [meta EXCEPT !.unread = FALSE].started = meta.started
  BY <1>0 DEF Metas
<1>1. CASE \/ LogTurn \/ EndLine \/ Archive \/ Rewrite \/ (\E r \in Requests : LogSpent(r)) \/ Tick
           \/ (\E r \in Proxied : Observe(r) \/ Record(r)) \/ BeginSync \/ ReadLine
           \/ SaveCursor \/ Query \/ SaveFirst \/ Backfill \/ RepairLine
           \/ EndRepair \/ Crash \/ UNCHANGED usageVars
  BY <1>1 DEF LogTurn, EndLine, Archive, Rewrite, LogSpent, Tick, Observe, Record, BeginSync, ReadLine,
              SaveCursor, Query, SaveFirst, Backfill, RepairLine, EndRepair, Crash,
              usageVars, usageDbVars
<1>2. ASSUME NEW t \in Tasks, Collect(t) \/ \E d \in days[t].left : RollUp(t, d)
      PROVE  meta' = meta
  BY <1>2 DEF Collect, RollUp, usageDbVars
<1>3. ASSUME NEW t \in Tasks, CleanUp(t)
      PROVE  meta'.started = meta.started
  BY <1>3, <1>m DEF CleanUp
<1>4. ASSUME NEW t \in Tasks, Refreshed(t)
      PROVE  meta'.started = meta.started
  <2>1. \/ meta' = meta \/ meta' = [meta EXCEPT !.rolled = TRUE] \/ meta' = [meta EXCEPT !.repaired = TRUE]
    BY <1>4 DEF Refreshed
  <2> QED
    BY <1>m, <2>1
<1>5. CASE Start
  BY <1>5, <1>m DEF Start
<1>6. CASE BeginRepair \/ SkipRepair
  BY <1>6, <1>m DEF BeginRepair, SkipRepair
<1>7. ASSUME NEW t \in Tasks, FailFile(t) PROVE meta'.started = meta.started
  BY <1>7, <1>m DEF FailFile
<1> QED
  BY <1>1, <1>2, <1>3, <1>4, <1>5, <1>6, <1>7 DEF UsageNext

\* The fields of a line of the log.
LEMMA LineFacts ==
  ASSUME UsageTypes, LogIsWhole, NEW i \in 1 .. Len(log.lines)
  PROVE  /\ log.lines[i] \in LogLines /\ log.lines[i].at \in Nat /\ log.lines[i].at <= now
         /\ log.lines[i].id \in Nat /\ log.lines[i].id <= log.count /\ log.count \in Nat
         /\ log.lines[i].req # Nothing =>
              /\ log.lines[i].req \in Requests /\ log.lines[i].out <= MaxOut
              /\ log.lines[i].out \in Nat
              /\ client = "codex" => log.lines[i].out = 1
<1>1. log.lines[i] \in LogLines /\ LineIsWhole(log.lines[i], client, log.count, now) /\ log \in LogStates
  BY LogReads DEF LogIsWhole
<1> QED
  BY <1>1, UsageBasics DEF LogLines, LineIsWhole, LogStates

\* What takes the place of an event stands for the same line.
LEMMA StandsStays ==
  ASSUME UsageInv, OneDay, [UsageNext]_usageVars,
         NEW l \in LogLines, NEW i \in 1 .. Len(log.lines), l = log.lines[i],
         l.req # Nothing, NEW e \in events, Stands(e, l), Day(l.at) >= OldestDay',
         answer'[l.req].step # "done" \/ Day(answer'[l.req].at) >= OldestDay'
  PROVE  \E f \in events' : Stands(f, l)'
<1>0. /\ UsageTypes /\ LogIsWhole /\ ReaderKnows /\ EventsAreWhole /\ events \subseteq UsageEvents
      /\ client \in {"claude", "codex"} /\ answer \in [Requests -> Answers]
  BY DEF UsageInv, UsageTypes
<1>1. l.req \in Requests /\ l.out <= MaxOut /\ l.out \in Nat /\ l.at \in Nat /\ (client = "codex" => l.out = 1)
  BY <1>0, LineFacts
<1>2. /\ e.req = l.req /\ e.out >= l.out
      /\ Day(e.at) = Day(l.at) \/ (answer[l.req].step = "done" /\ e.at = answer[l.req].at)
  BY DEF Stands
<1>e. \A x \in events : x \in UsageEvents /\ x.out \in Nat /\ x.at \in Nat /\ x.req \in Requests /\ EventIsWhole(x)
  BY <1>0 DEF EventsAreWhole, UsageEvents
<1>a. answer[l.req].step = "done" => answer'[l.req] = answer[l.req]
  BY <1>0, <1>1, AnswersKeep
<1>d. UNCHANGED now => OldestDay' = OldestDay
  BY DEF OldestDay, Day
\* In a Claude log every date of the message is of the line's day.
<1>o. ASSUME client = "claude", NEW x \in events, x.req = l.req PROVE Day(x.at) = Day(l.at)
  <2>1. DOMAIN log.lines = 1 .. Len(log.lines)
    BY <1>0, LogReads
  <2>2. l.at \in Dates(l.req) /\ x.at \in Dates(l.req)
    BY <1>o, <2>1, DatesAre
  <2> QED
    BY <1>1, <1>o, <2>2 DEF OneDay
<1>q. ASSUME NEW f \in events', f.req = l.req, f.out >= l.out,
             Day(f.at) = Day(l.at) \/ (answer'[l.req].step = "done" /\ f.at = answer'[l.req].at)
      PROVE  \E g \in events' : Stands(g, l)'
  BY <1>q DEF Stands, Day
\* What keeps the event's date stands where the event stood.
<1>s. ASSUME NEW f \in events', f.req = e.req, f.at = e.at, f.out >= e.out, f.out \in Nat
      PROVE  \E g \in events' : Stands(g, l)'
  <2>1. f.out >= l.out
    BY <1>1, <1>2, <1>e, <1>s
  <2> QED
    BY <1>2, <1>a, <1>q, <1>s, <2>1
<1>3. CASE events' = events
  BY <1>3, <1>e, <1>s
<1>4. CASE \E w \in Tasks : CleanUp(w) /\ events' = Clean(events)
  <2>1. now' = now /\ answer' = answer
    BY <1>4 DEF CleanUp, envVars
  <2>2. Day(e.at) >= OldestDay
    BY <1>2, <1>d, <2>1
  <2> QED
    BY <1>4, <1>e, <1>s, <2>2 DEF Clean
\* An event that is inserted leaves the others, or joins the one that has its key.
<1>5. ASSUME NEW s \in UsageEvents, InsertEvent(s), e \notin Copy(s) PROVE \E g \in events' : Stands(g, l)'
  <2>1. e \in events' \/ Merged(e, s) \in events'
    BY <1>5, InsertIs
  <2>2. /\ Merged(e, s).req = e.req /\ Merged(e, s).at = e.at /\ Merged(e, s).out >= e.out
        /\ Merged(e, s).out \in Nat
    BY <1>5, <1>e, MergedIs DEF UsageEvents
  <2> QED
    BY <1>e, <1>s, <2>1, <2>2
<1>6. ASSUME NEW s \in UsageEvents, Inserts(s) PROVE \E g \in events' : Stands(g, l)'
  <2>1. InsertEvent(s) /\ s.source = "session"
    BY <1>6, SessionEventHas DEF Inserts
  <2>2. Copy(s) = {}
    BY <2>1 DEF Copy
  <2> QED
    BY <1>5, <2>1, <2>2
<1>7. ASSUME NEW r \in Requests, Record(r), InsertEvent(ProxyEvent(r)) PROVE \E g \in events' : Stands(g, l)'
  <2>1. PICK s \in UsageEvents : s = ProxyEvent(r)
    BY <1>0, ProxyEventIs
  <2>2. InsertEvent(s) /\ s.source = "proxy" /\ s.req = r /\ s.at = answer[r].at /\ s.out = MaxOut
        /\ s.model = ModelOf[r]
    BY <1>7, <2>1 DEF ProxyEvent
  <2>3. answer[r].step = "open" /\ answer'[r].step = "done" /\ answer'[r].at = answer[r].at
    BY <1>0, <1>7 DEF Record, Answers
  <2>4. CASE e \notin Copy(s)
    BY <1>5, <2>2, <2>4
  <2>5. CASE e \in Copy(s)
    <3>1. r = l.req
      BY <1>2, <2>2, <2>5 DEF Copy
    <3>2. s \in events' \/ \E x \in events \ Copy(s) : x.key = s.key /\ Merged(x, s) \in events'
      BY <2>2, InsertIs
    <3>3. CASE s \in events'
      <4>1. s.req = l.req /\ s.out >= l.out /\ answer'[l.req].step = "done" /\ s.at = answer'[l.req].at
        BY <1>1, <2>2, <2>3, <3>1
      <4> QED
        BY <1>q, <3>3, <4>1
    <3>4. ASSUME NEW x \in events \ Copy(s), x.key = s.key, Merged(x, s) \in events'
          PROVE  \E g \in events' : Stands(g, l)'
      <4>1. x.req = s.req /\ (client = "codex" => s.source = "session")
        BY <1>0, <2>1, <2>3, <3>4, SameKey
      <4>2. client = "claude" /\ x.req = l.req
        BY <1>0, <2>2, <3>1, <4>1
      <4>3. Day(x.at) = Day(l.at)
        BY <1>o, <4>2
      <4>4. Merged(x, s).req = x.req /\ Merged(x, s).at = x.at /\ Merged(x, s).out >= s.out
            /\ Merged(x, s).out \in Nat
        BY <1>e, MergedIs DEF UsageEvents
      <4>5. Merged(x, s).out >= l.out
        BY <1>1, <2>2, <4>4, UsageBasics
      <4> QED
        BY <1>q, <3>4, <4>2, <4>3, <4>4, <4>5
    <3> QED
      BY <3>2, <3>3, <3>4
  <2> QED
    BY <2>4, <2>5
<1>8. CASE Relabels
  <2>1. pc["repair"] = "read" /\ Reads /\ NextLine.req # Nothing /\ reader.at < Whole /\ client = "codex"
        /\ reader.knows # Unknown
    BY <1>8 DEF Relabels, RepairLine, Reads, UsageInv, TasksExclude
  <2> DEFINE m == reader.knows  k == SessionKey(NextLine, m)  k0 == SessionKey(NextLine, Unknown)
  <2>2. \A x \in events : x.key # k0 => x \in events'
    BY <1>8, RelabelIs DEF Relabels
  <2>3. \A x \in events : x.key = k0 =>
          [x EXCEPT !.model = m, !.key = k] \in events' \/ \E z \in events : z.key = k
    BY <1>8, RelabelIs DEF Relabels
  <2>4. k = <<NextLine.req, m, NextLine.at>> /\ k0 = <<NextLine.req, Unknown, NextLine.at>>
    BY <2>1 DEF SessionKey
  <2>5. NextLine.req \in Requests
    BY <1>0, <2>1, NextLineIs
  <2>6. ASSUME NEW x \in events, x.key = k \/ x.key = k0 PROVE x.req = NextLine.req /\ x.at = NextLine.at
    <3>1. EventIsWhole(x) /\ client # "claude"
      BY <1>e, <2>1
    <3>2. x.source # "proxy"
      <4>1. x.source = "proxy" => x.key = <<x.req, "proxy">>
        BY <3>1 DEF EventIsWhole
      <4>2. /\ <<NextLine.req, m, NextLine.at>> # <<x.req, "proxy">>
            /\ <<NextLine.req, Unknown, NextLine.at>> # <<x.req, "proxy">>
        BY KeysDiffer
      <4>3. x.key # <<x.req, "proxy">>
        <5> HIDE DEF m, k, k0
        <5> QED
          BY <2>4, <2>6, <4>2
      <4> QED
        BY <4>1, <4>3
    <3>3. x.key = <<x.req, x.model, x.at>>
      BY <3>1, <3>2 DEF EventIsWhole
    <3> QED
      BY <2>4, <2>6, <3>3, KeysDiffer
  <2>7. CASE e.key # k0
    BY <1>e, <1>s, <2>2, <2>7
  <2>8. CASE e.key = k0
    <3>1. CASE [e EXCEPT !.model = m, !.key = k] \in events'
      <4> HIDE DEF m, k
      <4>1. PICK y : y = [e EXCEPT !.model = m, !.key = k]
        OBVIOUS
      <4>2. y.req = e.req /\ y.at = e.at /\ y.out = e.out
        BY <1>e, <4>1, RelabelledIs
      <4>3. y \in events' /\ e.out \in Nat
        BY <1>e, <3>1, <4>1
      <4>4. y.out >= e.out /\ y.out \in Nat
        BY <4>2, <4>3
      <4> QED
        BY <1>s, <4>2, <4>3, <4>4
    <3>2. ASSUME NEW z \in events, z.key = k PROVE \E g \in events' : Stands(g, l)'
      <4>1. z.key # k0
        BY <2>1, <2>4, <3>2, KeysDiffer
      <4>2. z \in events' /\ z.req = e.req /\ z.at = e.at
        BY <2>2, <2>6, <2>8, <3>2, <4>1
      <4>3. z.out >= e.out \/ z.out >= l.out
        <5>1. z.out > 0 /\ z.out \in Nat
          BY <1>e DEF EventIsWhole
        <5> QED
          BY <1>1, <2>1, <5>1
      <4>4. z.out >= l.out
        BY <1>1, <1>2, <1>e, <4>3
      <4> QED
        BY <1>2, <1>a, <1>q, <4>2, <4>4
    <3> QED
      BY <2>3, <2>8, <3>1, <3>2
  <2> QED
    BY <2>7, <2>8
<1> QED
  BY <1>0, <1>3, <1>4, <1>6, <1>7, <1>8, EventSteps

\* A line that is covered stays covered.
LEMMA CoveredStays ==
  ASSUME UsageInv, OneDay, [UsageNext]_usageVars,
         NEW l \in LogLines, NEW i \in 1 .. Len(log.lines), l = log.lines[i], Covered(l)
  PROVE  Covered(l)'
<1> SUFFICES ASSUME l.req # Nothing, l.at > meta'.started, Day(l.at) >= OldestDay',
                    answer'[l.req].step # "done" \/ Day(answer'[l.req].at) >= OldestDay'
             PROVE  \E f \in events' : Stands(f, l)'
  BY DEF Covered, Day
<1>0. /\ UsageTypes /\ LogIsWhole /\ answer \in [Requests -> Answers] /\ meta \in Metas
  BY DEF UsageInv, UsageTypes
<1>1. /\ l.req \in Requests /\ l.at \in Nat /\ l.at <= now /\ now \in Nat
  BY <1>0, LineFacts DEF UsageTypes
<1>2. meta'.started = meta.started
  BY <1>0, <1>1, StartedKeeps
<1>3. now' \in Nat /\ now <= now'
  BY <1>0, TimeGrows
<1>4. OldestDay <= OldestDay' /\ OldestDay \in Int /\ OldestDay' \in Int
  <2>1. Day(now) <= Day(now') /\ Day(now) \in Int /\ Day(now') \in Int
    BY <1>1, <1>3, DayFacts
  <2>2. OldestDay' = Day(now') - (Retained - 1)
    BY DEF OldestDay, Day
  <2> QED
    BY <2>1, <2>2, UsageBasics DEF OldestDay
<1>5. Day(l.at) >= OldestDay /\ Day(l.at) \in Int
  <2>1. Day(l.at) \in Int
    <3>1. l.at \in Int
      BY <1>1
    <3> QED
      BY ONLY <3>1, DayFacts
  <2> QED
    BY <1>4, <2>1
<1>6. answer[l.req].step # "done" \/ Day(answer[l.req].at) >= OldestDay
  <2>1. answer[l.req].step = "done" => answer'[l.req] = answer[l.req]
    BY <1>0, <1>1, AnswersKeep
  <2>2. Day(answer[l.req].at) \in Int
    <3>1. answer[l.req].at \in Int
      BY <1>0, <1>1 DEF Answers
    <3> QED
      BY <3>1, DayFacts
  <2> QED
    BY <1>4, <2>1, <2>2
<1>7. PICK e \in events : Stands(e, l)
  BY <1>2, <1>5, <1>6 DEF Covered
<1> QED
  BY <1>7, StandsStays

-----------------------------------------------------------------------------
(* Nothing is missed: what a cursor that fits has passed is covered.        *)

\* So do the first lines of a log.
LEMMA CoveredPrefix ==
  ASSUME UsageInv, OneDay, [UsageNext]_usageVars, ~LogShrinks, NEW n \in 0 .. Len(log.lines),
         \A i \in 1 .. n : Covered(log.lines[i])
  PROVE  \A i \in 1 .. n : Covered(log.lines[i])'
<1>0. UsageTypes /\ LogIsWhole /\ Len(log.lines) \in Nat
  BY LogReads DEF UsageInv
<1> SUFFICES ASSUME NEW i \in 1 .. n PROVE Covered(log.lines[i])'
  OBVIOUS
<1>1. i \in 1 .. Len(log.lines)
  BY <1>0
<1>2. PICK l \in LogLines : l = log.lines[i]
  BY <1>0, <1>1, LogReads
<1>3. Covered(l)'
  BY <1>1, <1>2, CoveredStays
<1>4. log'.lines[i] = l
  BY <1>0, <1>1, <1>2, LogKeeps
<1> QED
  BY <1>3, <1>4

CursorCovers(c) ==
  /\ c.set /\ FitsLog(c) => \A i \in 1 .. c.at : Covered(log.lines[i])
  /\ client = "claude" /\ c.at > 0 =>
       /\ c.print \in LogLines /\ c.print.id <= log.count
       /\ \A i \in 1 .. Len(log.lines) : log.lines[i].id = c.print.id => i <= c.at /\ i <= Whole

\* What a cursor has passed stays covered, and a rewritten file does not fit it.
LEMMA CursorCoversStays ==
  ASSUME UsageInv, OneDay, [UsageNext]_usageVars, NEW c \in Cursors, CursorIsWhole(c), CursorCovers(c)
  PROVE  CursorCovers(c)'
<1>0. /\ UsageTypes /\ LogIsWhole /\ client' = client /\ client \in {"claude", "codex"} /\ UsageTypes'
      /\ log \in LogStates /\ log.count \in Nat /\ log.lines \in Seq(LogLines)
  BY LogSteps, UsageTypesStep DEF UsageInv, UsageTypes, LogStates
<1>1. /\ Len(log.lines) \in Nat /\ Whole \in Int /\ Whole <= Len(log.lines) /\ c.at \in Nat
      /\ Whole >= Len(log.lines) - 1
      /\ Len(log'.lines) \in Nat /\ Whole' \in Int /\ Whole' <= Len(log'.lines)
      /\ Whole' >= Len(log'.lines) - 1 /\ (~log'.cut => Whole' = Len(log'.lines))
      /\ (~log.cut => Whole = Len(log.lines))
  <2>1. c.at \in Nat
    BY DEF Cursors
  <2>2. log' \in LogStates
    BY <1>0 DEF UsageTypes
  <2> QED
    BY <1>0, <2>1, <2>2 DEF Whole, LogStates
\* The lines, and what their identifiers say of the cursor.
<1>2. CASE client = "claude" /\ c.at > 0
  <2>1. /\ c.print \in LogLines /\ c.print.id <= log.count /\ c.print.id \in Nat
        /\ \A i \in 1 .. Len(log.lines) : log.lines[i].id = c.print.id => i <= c.at /\ i <= Whole
    BY <1>2 DEF CursorCovers, LogLines
  <2>2. ASSUME log'.lines = log.lines, log'.count = log.count, Whole <= Whole'
        PROVE  /\ c.print.id <= log'.count
               /\ \A i \in 1 .. Len(log'.lines) : log'.lines[i].id = c.print.id => i <= c.at /\ i <= Whole'
               /\ FitsLog(c)' => FitsLog(c) /\ ~LogShrinks
    <3>1. \A i \in 1 .. Len(log.lines) : log.lines[i].id = c.print.id => i <= c.at /\ i <= Whole'
      BY <1>1, <2>1, <2>2
    <3>2. ASSUME FitsLog(c)' PROVE FitsLog(c)
      <4>1. c.at \in 1 .. Len(log.lines) /\ log.lines[c.at] = c.print
        BY <1>1, <1>2, <2>2, <3>2 DEF FitsLog, TailPrint
      <4>2. c.at <= Whole
        BY <2>1, <4>1
      <4> QED
        BY <1>1, <1>2, <4>1, <4>2 DEF FitsLog, TailPrint
    <3>3. ~LogShrinks
      <4>1. LogShrinks => Len(log'.lines) = Len(log.lines) - 1
        BY <1>0 DEF LogShrinks
      <4> QED
        BY <1>1, <2>2, <4>1
    <3> QED
      BY <2>1, <2>2, <3>1, <3>2, <3>3
  <2>3. ASSUME NEW l \in LogLines, LogAppends(l)
        PROVE  /\ c.print.id <= log'.count
               /\ \A i \in 1 .. Len(log'.lines) : log'.lines[i].id = c.print.id => i <= c.at /\ i <= Whole'
               /\ FitsLog(c)' => FitsLog(c) /\ ~LogShrinks
    <3>1. /\ log'.lines = Append(log.lines, l) /\ log'.count = log.count + 1 /\ l.id = log.count + 1
          /\ ~log.cut
      BY <2>3 DEF LogAppends
    <3>2. Len(log'.lines) = Len(log.lines) + 1 /\ log'.lines[Len(log.lines) + 1] = l
          /\ \A i \in 1 .. Len(log.lines) : log'.lines[i] = log.lines[i]
      BY <1>0, <3>1
    <3>3. ASSUME NEW i \in 1 .. Len(log'.lines), log'.lines[i].id = c.print.id
          PROVE  i \in 1 .. Len(log.lines) /\ log'.lines[i] = log.lines[i]
      BY <1>0, <1>1, <2>1, <3>1, <3>2, <3>3
    <3>4. \A i \in 1 .. Len(log'.lines) : log'.lines[i].id = c.print.id => i <= c.at /\ i <= Whole'
      BY <1>1, <2>1, <3>2, <3>3
    <3>5. ASSUME FitsLog(c)' PROVE FitsLog(c)
      <4>1. c.at \in 1 .. Len(log'.lines) /\ log'.lines[c.at] = c.print
        BY <1>1, <1>2, <3>5 DEF FitsLog, TailPrint
      <4>2. c.at \in 1 .. Len(log.lines) /\ log.lines[c.at] = c.print
        BY <3>3, <4>1
      <4>3. c.at <= Whole
        BY <2>1, <4>2
      <4> QED
        BY <1>1, <1>2, <4>2, <4>3 DEF FitsLog, TailPrint
    <3>6. ~LogShrinks
      <4>1. LogShrinks => Len(log'.lines) = Len(log.lines) - 1
        BY <1>0 DEF LogShrinks
      <4> QED
        BY <1>1, <3>2, <4>1
    <3> QED
      BY <1>0, <2>1, <3>1, <3>4, <3>5, <3>6
  <2>4. ASSUME LogShrinks
        PROVE  /\ c.print.id <= log'.count
               /\ \A i \in 1 .. Len(log'.lines) : log'.lines[i].id = c.print.id => i <= c.at /\ i <= Whole'
               /\ ~FitsLog(c)'
    <3>1. /\ log'.lines = Tail(log.lines) /\ log'.count = log.count /\ Len(log.lines) > 1
          /\ ~log'.cut
      BY <2>4 DEF LogShrinks
    <3>2. Len(log'.lines) = Len(log.lines) - 1
          /\ \A i \in 1 .. Len(log'.lines) : log'.lines[i] = log.lines[i + 1] /\ i + 1 \in 1 .. Len(log.lines)
      BY <1>0, <3>1
    <3>3. ASSUME NEW i \in 1 .. Len(log'.lines), log'.lines[i].id = c.print.id
          PROVE  i + 1 <= c.at /\ i + 1 <= Whole
      BY <2>1, <3>2, <3>3
    <3>4. ASSUME NEW i \in 1 .. Len(log'.lines), log'.lines[i].id = c.print.id
          PROVE  i <= c.at /\ i <= Whole'
      <4>1. Whole' = Len(log'.lines) /\ i + 1 <= c.at
        BY <1>1, <3>1, <3>3, <3>4
      <4> QED
        BY <1>1, <4>1
    <3>5. ~FitsLog(c)'
      <4>1. SUFFICES ASSUME FitsLog(c)' PROVE FALSE
        OBVIOUS
      <4>2. c.at \in 1 .. Len(log'.lines) /\ log'.lines[c.at] = c.print
        BY <1>1, <1>2, <4>1 DEF FitsLog, TailPrint
      <4> QED
        BY <1>1, <3>3, <4>2
    <3> QED
      BY <2>1, <3>1, <3>4, <3>5
  <2>5. /\ c.print.id <= log'.count
        /\ \A i \in 1 .. Len(log'.lines) : log'.lines[i].id = c.print.id => i <= c.at /\ i <= Whole'
        /\ FitsLog(c)' => FitsLog(c) /\ ~LogShrinks
    <3>1. CASE log' = log
      BY <1>1, <2>2, <3>1 DEF Whole
    <3>2. CASE LogEnds
      <4>1. Whole <= Whole'
        BY <1>1, <3>2 DEF LogEnds
      <4> QED
        BY <2>2, <3>2, <4>1 DEF LogEnds
    <3>3. ~LogMoves
      BY <1>2 DEF LogMoves
    <3> QED
      BY <1>0, <2>3, <2>4, <3>1, <3>2, <3>3, LogSteps
  <2>6. ASSUME c.set, FitsLog(c)' PROVE \A i \in 1 .. c.at : Covered(log.lines[i])'
    <3>1. FitsLog(c) /\ ~LogShrinks /\ \A i \in 1 .. c.at : Covered(log.lines[i])
      BY <2>5, <2>6 DEF CursorCovers
    <3>2. c.at \in 0 .. Len(log.lines)
      BY <1>1, <3>1 DEF FitsLog
    <3> QED
      BY <3>1, <3>2, CoveredPrefix
  <2> QED
    BY <1>0, <2>1, <2>5, <2>6 DEF CursorCovers
<1>3. CASE client = "codex" /\ c.at > 0
  <2>1. ~LogShrinks /\ c.at <= Whole
    BY <1>3 DEF LogShrinks, CursorIsWhole
  <2>2. c.at \in 1 .. Len(log.lines)
    BY <1>1, <1>3, <2>1
  <2>3. log'.lines[c.at] = log.lines[c.at]
    BY <1>0, <2>1, <2>2, LogKeeps
  <2>4. FitsLog(c)' => FitsLog(c)
    BY <1>1, <1>3, <2>1, <2>3 DEF FitsLog, TailPrint
  <2>5. ASSUME c.set, FitsLog(c)' PROVE \A i \in 1 .. c.at : Covered(log.lines[i])'
    <3>1. \A i \in 1 .. c.at : Covered(log.lines[i])
      BY <2>4, <2>5 DEF CursorCovers
    <3>2. c.at \in 0 .. Len(log.lines)
      BY <1>1, <2>2
    <3> QED
      BY <2>1, <3>1, <3>2, CoveredPrefix
  <2> QED
    BY <1>0, <1>3, <2>5 DEF CursorCovers
<1>4. CASE c.at = 0
  BY <1>1, <1>4 DEF CursorCovers
<1> QED
  BY <1>0, <1>1, <1>2, <1>3, <1>4

\* Every step keeps what cursors and reader have passed covered.
LEMMA CursorsCoverStep == UsageInv /\ CoverInv /\ [UsageNext]_usageVars => CursorsCover'
<1> SUFFICES ASSUME UsageInv, OneDay, CursorsCover, [UsageNext]_usageVars PROVE CursorsCover'
  BY DEF CoverInv
<1>0. /\ UsageTypes /\ LogIsWhole /\ TasksExclude /\ ReaderKnows /\ CursorsKnow /\ EventsAreWhole
      /\ client' = client /\ client \in {"claude", "codex"}
      /\ pc \in [Tasks -> UsageSteps] /\ reader \in Readers /\ cursor \in [LogPaths -> Cursors]
      /\ log.path \in LogPaths /\ now \in Nat
  BY LogSteps DEF UsageInv, UsageTypes, LogStates
<1>n. /\ Len(log.lines) \in Nat /\ Whole \in Int /\ Whole <= Len(log.lines) /\ reader.at \in Nat
      /\ log.lines \in Seq(LogLines)
  BY <1>0, LogReads DEF UsageTypes, LogStates
<1>x. /\ pc["sync"] = "read" => pc["repair"] # "read" /\ pc["start"] # "save"
      /\ pc["repair"] = "read" => pc["start"] # "save" /\ client = "codex"
      /\ up # "up" => pc["sync"] # "read"
      /\ lock = Nothing => pc["sync"] = "idle" /\ pc["start"] = "idle"
  BY <1>0, ReadersExclude
<1>p. \A t \in Tasks, s \in UsageSteps : Proceed(t, s) =>
        pc'[t] = s /\ \A u \in Tasks : u # t => pc'[u] = pc[u]
  BY <1>0 DEF Proceed
<1>u. UsageSteps = {"idle", "save", "clean", "backfill", "collect", "roll", "read"}
      /\ {"start", "sync", "repair"} \subseteq Tasks
  BY UsageBasics DEF UsageSteps
<1>c. /\ \A p \in LogPaths : cursor[p] \in Cursors /\ CursorIsWhole(cursor[p]) /\ CursorCovers(cursor[p])
      /\ pc["sync"] = "read" => \A i \in 1 .. reader.at : Covered(log.lines[i])
      /\ pc["start"] = "save" => \A i \in 1 .. reader.at : log.lines[i].at <= meta.started
  <2>1. \A p \in LogPaths : cursor[p] \in Cursors /\ CursorIsWhole(cursor[p])
    BY <1>0 DEF CursorsKnow, CursorIsWhole
  <2>2. \A p \in LogPaths : CursorCovers(cursor[p])
    BY <1>0 DEF CursorsCover, CursorCovers
  <2> QED
    BY <2>1, <2>2 DEF CursorsCover
<1>s. \A c \in Cursors : CursorIsWhole(c) /\ CursorCovers(c) => CursorCovers(c)'
  BY CursorCoversStays
<1>l. log' = log => ~LogShrinks
  <2> SUFFICES ASSUME log' = log, LogShrinks PROVE FALSE
    OBVIOUS
  <2>1. log.lines = Tail(log.lines) /\ Len(log.lines) > 1
    BY DEF LogShrinks
  <2>2. Len(Tail(log.lines)) = Len(log.lines) - 1
    BY <1>n, <2>1
  <2>3. Len(log.lines) = Len(log.lines) - 1
    BY <2>1, <2>2
  <2> QED
    BY <1>n, <2>3
\* The cursors.
<1>f. ASSUME NEW f \in [LogPaths -> Cursors], cursor' = f,
             \A p \in LogPaths : CursorIsWhole(f[p]) /\ CursorCovers(f[p])
      PROVE  \A p \in LogPaths : CursorCovers(cursor[p])'
  <2>1. \A p \in LogPaths : f[p] \in Cursors
    BY <1>f
  <2>2. \A p \in LogPaths : CursorCovers(f[p])'
    BY <1>f, <1>s, <2>1
  <2> QED
    BY <1>f, <2>2
<1>w. ASSUME NEW p \in LogPaths, NEW c \in Cursors, cursor' = [cursor EXCEPT ![p] = c],
             CursorIsWhole(c), CursorCovers(c)
      PROVE  \A q \in LogPaths : CursorCovers(cursor[q])'
  <2>1. PICK f \in [LogPaths -> Cursors] : f = [cursor EXCEPT ![p] = c]
    BY <1>0
  <2>2. f[p] = c /\ \A q \in LogPaths : q # p => f[q] = cursor[q]
    BY <1>0, <2>1
  <2>3. \A q \in LogPaths : CursorIsWhole(f[q]) /\ CursorCovers(f[q])
    BY <1>c, <1>w, <2>2
  <2> QED
    BY <1>f, <1>w, <2>1, <2>3
<1>k. ASSUME cursor' = cursor PROVE \A p \in LogPaths : CursorCovers(cursor[p])'
  <2>1. PICK f \in [LogPaths -> Cursors] : f = cursor
    BY <1>0
  <2> QED
    BY <1>c, <1>f, <1>k, <2>1
\* What a reader saves.
<1>r. ASSUME NEW p \in LogPaths, Reads, reader.at <= Whole, \A i \in 1 .. reader.at : Covered(log.lines[i]),
             cursor' = [cursor EXCEPT ![p] = [at |-> reader.at, print |-> TailPrint(reader.at),
                                              knows |-> reader.knows, set |-> TRUE]]
      PROVE  \A q \in LogPaths : CursorCovers(cursor[q])'
  <2>1. PICK c : c = [at |-> reader.at, print |-> TailPrint(reader.at), knows |-> reader.knows, set |-> TRUE]
    OBVIOUS
  <2>2. TailPrint(reader.at) \in LogLines \cup {Nothing}
    BY <1>0, <1>r, <1>n, LogReads DEF TailPrint
  <2>3. c \in Cursors /\ c.at = reader.at /\ c.knows = reader.knows /\ c.set /\ c.print = TailPrint(reader.at)
    BY <1>0, <2>1, <2>2 DEF Cursors, Readers
  <2>4. Knows(c) \/ c.knows = Unknown
    BY <1>0, <1>r, <2>3 DEF ReaderKnows, Knows
  <2>5. CursorIsWhole(c)
    BY <1>0, <1>n, <1>r, <2>3, <2>4, UsageBasics DEF CursorIsWhole, LogIsWhole
  <2>6. ASSUME client = "claude", c.at > 0
        PROVE  /\ c.print \in LogLines /\ c.print.id <= log.count
               /\ \A i \in 1 .. Len(log.lines) : log.lines[i].id = c.print.id => i <= c.at /\ i <= Whole
    <3>1. c.at \in 1 .. Len(log.lines) /\ c.print = log.lines[c.at]
      BY <1>n, <1>r, <2>3, <2>6 DEF TailPrint
    <3>2. c.print \in LogLines /\ c.print.id <= log.count /\ c.print.id \in Nat
      BY <1>0, <3>1, LineFacts
    <3>3. ASSUME NEW i \in 1 .. Len(log.lines), log.lines[i].id = c.print.id PROVE i = c.at
      <4>1. log.lines[i].id \in Nat
        BY <1>0, <3>3, LineFacts
      <4>2. (i < c.at => log.lines[i].id < log.lines[c.at].id) /\ (c.at < i => log.lines[c.at].id < log.lines[i].id)
        BY <1>0, <2>6, <3>1, <3>3 DEF LogIsWhole
      <4> QED
        BY <3>1, <3>2, <3>3, <4>1, <4>2
    <3> QED
      BY <1>r, <2>3, <3>1, <3>2, <3>3
  <2>7. CursorCovers(c)
    BY <1>r, <2>3, <2>6 DEF CursorCovers
  <2> QED
    BY <1>r, <1>w, <2>1, <2>3, <2>5, <2>7
<1>1. \A p \in LogPaths : CursorCovers(cursor[p])'
  <2>1. CASE cursor' = cursor
    BY <1>k, <2>1
  <2>2. CASE SaveCursor /\ cursor' # cursor
    <3>1. pc["sync"] = "read" /\ reader.at = Whole /\ Reads /\ reader.path = log.path
      BY <2>2 DEF SaveCursor, Reads
    <3>2. cursor' = [cursor EXCEPT ![log.path] = [at |-> reader.at, print |-> TailPrint(reader.at),
                                                 knows |-> reader.knows, set |-> TRUE]]
      BY <2>2, <3>1 DEF SaveCursor
    <3>3. PICK p \in LogPaths : p = log.path
      BY <1>0
    <3>4. reader.at <= Whole
      BY <1>n, <3>1
    <3> QED
      BY <1>c, <1>r, <3>1, <3>2, <3>3, <3>4
  <2>3. CASE SaveFirst
    <3>1. /\ pc["start"] = "save" /\ Reads /\ reader.at <= Whole
          /\ cursor' = [cursor EXCEPT ![reader.path] = [at |-> reader.at, print |-> TailPrint(reader.at),
                                                       knows |-> reader.knows, set |-> TRUE]]
      BY <1>0, <2>3 DEF SaveFirst, Reads, ReaderKnows
    <3>2. PICK p \in LogPaths : p = reader.path
      BY <1>0 DEF Readers
    <3>3. ASSUME NEW i \in 1 .. reader.at PROVE Covered(log.lines[i])
      <4>1. i \in 1 .. Len(log.lines) /\ log.lines[i].at <= meta.started
        BY <1>c, <1>n, <3>1, <3>3
      <4>2. log.lines[i].at \in Nat /\ meta.started \in Int
        BY <1>0, <4>1, LineFacts DEF UsageTypes, Metas
      <4> QED
        BY <4>1, <4>2 DEF Covered
    <3> QED
      BY <1>r, <3>1, <3>2, <3>3
  <2>4. CASE EndRepair /\ cursor' # cursor
    <3>1. PICK p \in LogPaths : p = reader.path
      BY <1>0 DEF Readers
    <3>2. PICK d \in Cursors : d = cursor[p] /\ CursorIsWhole(d) /\ CursorCovers(d)
      BY <1>c
    <3>3. /\ pc["repair"] = "read" /\ client = "codex" /\ reader.at = Whole /\ d.at <= Whole
          /\ cursor' = [cursor EXCEPT ![p].knows = KnownAt(d.at)]
      BY <1>x, <2>4, <3>1, <3>2 DEF EndRepair, CursorIsWhole
    <3>4. d.at \in 0 .. Len(log.lines)
      BY <1>n, <3>3 DEF Cursors
    <3>5. KnownAt(d.at) \in Models \cup {Unknown} /\ KnownAt(d.at) = KnownIn(client, log.lines, d.at)
      BY <1>0, <3>4, KnownIs, KnownAtIs
    <3>6. PICK c : c = [d EXCEPT !.knows = KnownAt(d.at)]
      OBVIOUS
    <3>7. c \in Cursors
      BY <3>5, <3>6, FieldsAreWritten
    <3>8. c.knows = KnownAt(d.at) /\ c.at = d.at /\ c.set = d.set /\ c.print = d.print
      BY <3>6 DEF Cursors
    <3>9. CursorIsWhole(c)
      BY <3>2, <3>5, <3>8 DEF CursorIsWhole, Knows
    <3>10. CursorCovers(c)
      BY <3>2, <3>8 DEF CursorCovers, FitsLog
    <3>11. cursor' = [cursor EXCEPT ![p] = c]
      <4>1. [cursor EXCEPT ![p].knows = KnownAt(d.at)] = [cursor EXCEPT ![p] = [cursor[p] EXCEPT !.knows = KnownAt(d.at)]]
        OBVIOUS
      <4> QED
        BY <3>2, <3>3, <3>6, <4>1
    <3> QED
      BY <1>w, <3>7, <3>9, <3>10, <3>11
  <2> QED
    BY <2>1, <2>2, <2>3, <2>4, RepairSteps
\* The reader of a synchronization.
<1>b. ASSUME ~LogShrinks, NEW n \in 0 .. Len(log.lines), reader'.at = n,
             \A i \in 1 .. n : Covered(log.lines[i])
      PROVE  (\A i \in 1 .. reader.at : Covered(log.lines[i]))'
  <2>1. \A i \in 1 .. n : Covered(log.lines[i])'
    BY <1>b, CoveredPrefix
  <2> QED
    BY <1>b, <2>1
<1>2. pc'["sync"] = "read" => (\A i \in 1 .. reader.at : Covered(log.lines[i]))'
  <2> SUFFICES ASSUME pc'["sync"] = "read" PROVE (\A i \in 1 .. reader.at : Covered(log.lines[i]))'
    OBVIOUS
  <2>1. CASE Stays
    <3>1. pc["sync"] = "read" /\ reader' = reader /\ Reads /\ ~LogShrinks
      BY <2>1 DEF Stays, Reads, LogShrinks
    <3>2. reader.at \in 0 .. Len(log.lines)
      BY <1>0, <1>n, <3>1 DEF ReaderKnows
    <3>3. PICK n \in 0 .. Len(log.lines) : n = reader.at
      BY <3>2
    <3> QED
      BY <1>b, <1>c, <3>1, <3>3
  <2>2. CASE BeginSync
    <3>1. /\ reader'.at = Resume(cursor[log.path]) /\ ~LogShrinks
      <4>1. log' = log
        BY <2>2 DEF BeginSync, envVars
      <4> QED
        BY <1>l, <2>2, <4>1 DEF BeginSync
    <3>2. PICK c \in Cursors : c = cursor[log.path] /\ CursorIsWhole(c) /\ CursorCovers(c)
      BY <1>0, <1>c
    <3>3. PICK n : n = Resume(c)
      OBVIOUS
    <3>4. n \in 0 .. Len(log.lines) /\ \A i \in 1 .. n : Covered(log.lines[i])
      <4>1. n = 0 \/ (n = c.at /\ c.at > 0 /\ FitsLog(c))
        BY <1>n, <3>3 DEF Resume, FitsLog, Cursors
      <4>2. n = c.at /\ c.at > 0 => c.set
        BY <3>2 DEF CursorIsWhole
      <4> QED
        BY <1>n, <3>2, <4>1, <4>2 DEF CursorCovers, FitsLog, Cursors
    <3> QED
      BY <1>b, <3>1, <3>2, <3>3, <3>4
  <2>3. CASE ReadLine
    <3>1. pc["sync"] = "read" /\ Reads /\ reader.at < Whole /\ log' = log /\ now' = now /\ answer' = answer
          /\ meta' = meta /\ Step
      BY <2>3 DEF ReadLine, Reads, envVars
    <3>2. reader'.at = reader.at + 1
      BY <1>0, <3>1 DEF Step, Readers
    <3>3. PICK n : n = reader.at + 1
      OBVIOUS
    <3>4. n \in 1 .. Len(log.lines) /\ reader.at \in 0 .. Len(log.lines)
      BY <1>n, <3>1, <3>3
    <3>5. PICK k \in 0 .. Len(log.lines) : k = reader.at
      BY <3>4
    <3>6. ~LogShrinks
      BY <1>n, <3>1 DEF LogShrinks
    <3>7. \A i \in 1 .. k : Covered(log.lines[i])'
      BY <1>c, <3>1, <3>5, <3>6, CoveredPrefix
    <3>8. PICK l \in LogLines : l = log.lines[n] /\ l = NextLine
      BY <1>0, <3>3, <3>4, LogReads DEF NextLine
    <3>9. Covered(l)'
      <4>1. SUFFICES ASSUME l.req # Nothing, l.at > meta.started, Day(l.at) >= OldestDay
                     PROVE  \E f \in events' : Stands(f, l)'
        BY <3>1 DEF Covered, Day, OldestDay
      <4>2. l.at \in Int /\ meta.started \in Int /\ Day(l.at) \in Int /\ OldestDay \in Int
        <5>1. l.at \in Int /\ meta.started \in Int /\ now \in Int /\ Retained \in Int
          BY <1>0, UsageBasics DEF UsageTypes, Metas, LogLines
        <5>2. Day(l.at) \in Int /\ Day(now) \in Int
          BY ONLY <5>1, DayFacts
        <5> QED
          BY <5>1, <5>2 DEF OldestDay
      <4>3. InsertEvent(SessionEvent(l, reader.knows))
        BY <2>3, <3>8, <4>1, <4>2 DEF ReadLine
      <4>4. reader.knows \in Models \cup {Unknown}
        BY <1>0 DEF Readers
      <4>5. PICK s \in UsageEvents : s = SessionEvent(l, reader.knows)
        BY <4>1, <4>4, SessionEventIs
      <4>6. s.source = "session" /\ s.req = l.req /\ s.at = l.at /\ s.out = l.out /\ Copy(s) = {}
        BY <4>5, SessionEventHas DEF Copy
      <4>7. s \in events' \/ \E x \in events : x.key = s.key /\ Merged(x, s) \in events'
        BY <4>3, <4>5, InsertIs
      <4>8. CASE s \in events'
        <5>1. s.out \in Nat
          BY DEF UsageEvents
        <5> QED
          BY <4>6, <4>8, <5>1 DEF Stands, Day
      <4>9. ASSUME NEW x \in events, x.key = s.key, Merged(x, s) \in events'
            PROVE  \E f \in events' : Stands(f, l)'
        <5>1. x \in UsageEvents
          BY <1>0 DEF UsageTypes
        <5>2. x.req = s.req /\ (client = "codex" => x.at = s.at)
          BY <1>0, <4>1, <4>4, <4>5, <4>9, SameKey
        <5>3. Day(x.at) = Day(l.at)
          <6>1. CASE client = "codex"
            BY <4>6, <5>2, <6>1
          <6>2. CASE client = "claude"
            <7>1. DOMAIN log.lines = 1 .. Len(log.lines)
              BY <1>0, LogReads
            <7>2. l.at \in Dates(l.req) /\ x.at \in Dates(l.req)
              BY <3>4, <3>8, <4>6, <5>2, <7>1, DatesAre
            <7>3. l.req \in Requests
              BY <4>1, <3>8 DEF LogLines
            <7> QED
              BY <6>2, <7>2, <7>3 DEF OneDay
          <6> QED
            BY <1>0, <6>1, <6>2
        <5>4. Merged(x, s).req = x.req /\ Merged(x, s).at = x.at /\ Merged(x, s).out >= s.out
          BY <5>1, MergedIs
        <5>5. PICK f : f = Merged(x, s)
          OBVIOUS
        <5>6. f \in events' /\ f.req = l.req /\ Day(f.at) = Day(l.at) /\ f.out >= l.out
          BY <4>6, <4>9, <5>2, <5>3, <5>4, <5>5
        <5> QED
          BY <5>6 DEF Stands, Day
      <4> QED
        BY <4>7, <4>8, <4>9
    <3>10. \A i \in 1 .. n : Covered(log.lines[i])'
      <4>1. log'.lines[n] = l
        BY <3>1, <3>8
      <4>2. Covered(log.lines[n])'
        BY <3>9, <4>1
      <4>3. \A i \in 1 .. n : i = n \/ i \in 1 .. k
        BY <1>n, <3>3, <3>5
      <4> QED
        BY <3>7, <4>2, <4>3
    <3> QED
      BY <3>2, <3>3, <3>10
  <2>4. CASE SaveCursor
    BY <1>0, <1>p, <1>u, <2>4 DEF SaveCursor
  <2>5. CASE SaveFirst \/ BeginRepair \/ RepairLine \/ EndRepair \/ Crash \/ Start
    <3>1. Crash \/ pc["sync"] # "read"
      BY <1>x, <2>5 DEF SaveFirst, BeginRepair, RepairLine, EndRepair, Start
    <3>2. pc'["sync"] = pc["sync"] \/ (Crash /\ pc'["sync"] = "idle")
      BY <1>p, <1>u, <2>5 DEF SaveFirst, BeginRepair, RepairLine, EndRepair, Crash, Start
    <3>3. Crash => pc'["sync"] = "idle"
      BY <1>u DEF Crash
    <3> QED
      BY <3>1, <3>2, <3>3
  <2>6. ASSUME NEW t \in Tasks, FailFile(t) PROVE FALSE
    <3>1. t = "sync" => pc'["sync"] = "clean"
      BY <1>p, <1>u, <2>6 DEF FailFile
    <3>2. t = "repair" => pc["sync"] # "read" /\ pc'["sync"] = pc["sync"]
      BY <1>p, <1>u, <1>x, <2>6 DEF FailFile
    <3> QED
      BY <2>6, <3>1, <3>2 DEF FailFile
  <2> QED
    BY <2>1, <2>2, <2>3, <2>4, <2>5, <2>6, ReadingSteps
\* The first start.
<1>3. pc'["start"] = "save" => (\A i \in 1 .. reader.at : log.lines[i].at <= meta.started)'
  <2> SUFFICES ASSUME pc'["start"] = "save"
               PROVE  \A i \in 1 .. reader'.at : log'.lines[i].at <= meta'.started
    OBVIOUS
  <2>1. CASE Stays
    <3>1. pc["start"] = "save" /\ reader' = reader /\ Reads /\ ~LogShrinks
      BY <2>1 DEF Stays, Reads, LogShrinks
    <3>2. reader.at <= Whole
      BY <1>0, <3>1 DEF ReaderKnows
    <3> TAKE i \in 1 .. reader'.at
    <3>3. i \in 1 .. Len(log.lines) /\ i \in 1 .. reader.at
      BY <1>n, <3>1, <3>2
    <3>4. log'.lines[i] = log.lines[i] /\ log.lines[i].at <= now /\ log.lines[i].at <= meta.started
      BY <1>0, <1>c, <3>1, <3>3, LogKeeps, LineFacts
    <3> QED
      BY <1>0, <3>4, StartedKeeps
  <2>2. CASE Start /\ meta.started = -1
    <3>1. up = "down" /\ pc["start"] = "idle"
      BY <1>0, <2>2, <1>u DEF Start, TasksExclude
    <3>2. /\ meta' = [meta EXCEPT !.started = now] /\ reader'.at = Whole /\ log' = log
      BY <2>2 DEF Start, envVars
    <3>3. meta'.started = now
      BY <1>0, <3>2 DEF UsageTypes, Metas
    <3> TAKE i \in 1 .. reader'.at
    <3>4. i \in 1 .. Len(log.lines)
      BY <1>n, <3>2
    <3> QED
      BY <1>0, <3>2, <3>3, <3>4, LineFacts
  <2>3. CASE SaveFirst
    BY <1>0, <1>p, <1>u, <2>3 DEF SaveFirst
  <2>4. CASE BeginSync \/ ReadLine \/ SaveCursor \/ BeginRepair \/ RepairLine \/ EndRepair \/ Crash
    <3>1. pc["start"] # "save" \/ Crash
      BY <1>x, <2>4 DEF BeginSync, ReadLine, SaveCursor, BeginRepair, RepairLine, EndRepair
    <3>2. pc'["start"] = pc["start"] \/ pc'["start"] = "idle"
      BY <1>p, <1>u, <2>4 DEF BeginSync, ReadLine, SaveCursor, BeginRepair, RepairLine, EndRepair, Crash
    <3>3. Crash => pc'["start"] = "idle"
      BY <1>u DEF Crash
    <3> QED
      BY <3>1, <3>2, <3>3
  <2>5. ASSUME NEW t \in Tasks, FailFile(t) PROVE FALSE
    <3>1. pc["start"] # "save"
      BY <1>x, <2>5 DEF FailFile
    <3>2. pc'["start"] = pc["start"]
      BY <1>p, <1>u, <2>5 DEF FailFile
    <3> QED
      BY <3>1, <3>2
  <2> QED
    BY <2>1, <2>2, <2>3, <2>4, <2>5, ReadingSteps
<1> QED
  BY <1>0, <1>1, <1>2, <1>3 DEF CursorsCover, CursorCovers

\* At first nothing that counts was passed.
LEMMA InitCoverInv == UsageInit => CoverInv
<1> SUFFICES ASSUME UsageInit PROVE CoverInv
  OBVIOUS
<1>0. UsageInv
  BY InitUsageInv
<1>1. /\ now = 0 /\ client \in {"claude", "codex"} /\ reader = NoReader /\ pc = [t \in Tasks |-> "idle"]
      /\ answer = [r \in Requests |-> NoAnswer]
  BY DEF UsageInit
<1>2. \A i \in 1 .. Len(log.lines) : log.lines[i].at = 0
  <2> TAKE i \in 1 .. Len(log.lines)
  <2>1. log.lines[i].at \in Nat /\ log.lines[i].at <= now
    BY <1>0, LineFacts DEF UsageInv
  <2> QED
    BY <1>1, <2>1
<1>3. OneDay
  <2> SUFFICES ASSUME NEW r \in Requests, NEW t \in Dates(r), NEW u \in Dates(r) PROVE t = u
    BY DEF OneDay
  <2>1. \A e \in events : e.at = 0
    <3> TAKE e \in events
    <3>1. e.at \in Nat /\ e.at <= now
      BY <1>0 DEF UsageInv, UsageTypes, UsageEvents, EventsAreWhole, EventIsWhole
    <3> QED
      BY <1>1, <3>1
  <2>2. answer[r].step = "none"
    BY <1>1 DEF NoAnswer
  <2>3. DOMAIN log.lines = 1 .. Len(log.lines)
    BY <1>0, LogReads DEF UsageInv
  <2>4. \A d \in Dates(r) : d = 0
    BY <1>2, <2>1, <2>2, <2>3, DatesAre
  <2> QED
    BY <2>4
<1>4. \A p \in LogPaths : cursor[p].set => meta.started = 0 /\ client = "codex"
  BY DEF UsageInit, NoCursor
<1>5. \A l : l.at = 0 /\ meta.started = 0 => Covered(l)
  BY DEF Covered
<1>6. ASSUME NEW p \in LogPaths, cursor[p].set, FitsLog(cursor[p]), NEW i \in 1 .. cursor[p].at
      PROVE  Covered(log.lines[i])
  <2>1. i \in 1 .. Len(log.lines)
    <3>1. Len(log.lines) \in Nat /\ Whole \in Int /\ Whole <= Len(log.lines) /\ cursor[p].at \in Nat
      BY <1>0, LogReads DEF UsageInv, UsageTypes, Cursors
    <3> QED
      BY <1>6, <3>1 DEF FitsLog
  <2> QED
    BY <1>2, <1>4, <1>5, <1>6, <2>1
<1>7. ASSUME NEW p \in LogPaths, cursor[p].at > 0 PROVE client # "claude"
  <2>1. ~cursor[p].set => cursor[p].at = 0
    BY <1>0 DEF UsageInv, CursorsKnow
  <2> QED
    BY <1>4, <1>7, <2>1
<1>8. pc["sync"] # "read" /\ pc["start"] # "save"
  BY <1>1, UsageBasics
<1> QED
  BY <1>3, <1>6, <1>7, <1>8 DEF CoverInv, CursorsCover

\* The invariant says that nothing is missed.
LEMMA InvCovers == UsageInv /\ CoverInv => NothingIsMissed
<1> SUFFICES ASSUME UsageInv, CoverInv, NEW p \in LogPaths, p = log.path, cursor[p].set,
                    Resume(cursor[p]) = cursor[p].at, NEW i \in 1 .. cursor[p].at,
                    log.lines[i].req # Nothing, log.lines[i].at > meta.started,
                    Day(log.lines[i].at) >= OldestDay,
                    \/ answer[log.lines[i].req].step # "done"
                    \/ Day(answer[log.lines[i].req].at) >= OldestDay
             PROVE  \E e \in events : e.req = log.lines[i].req /\ e.out >= log.lines[i].out
  BY DEF NothingIsMissed
<1>1. cursor[p].at \in Nat /\ cursor[p].at > 0 /\ Whole \in Int
  BY LogReads DEF UsageInv, UsageTypes, Cursors
<1>2. FitsLog(cursor[p])
  BY <1>1 DEF Resume, FitsLog
<1>3. Covered(log.lines[i])
  BY <1>2 DEF CoverInv, CursorsCover
<1> QED
  BY <1>3 DEF Covered, Stands

\* What is counted stays counted once for each key the sources give it, what a
\* cursor has passed was counted, and a repair that read the log leaves no event
\* without its model (read_session_file, record_*, repair_codex_models).
THEOREM UsageStaysCounted == ~Straddles => (UsageSpec => []UsageIsCounted)
<1> SUFFICES ASSUME ~Straddles PROVE UsageSpec => []UsageIsCounted
  OBVIOUS
<1>1. UsageInit => UsageInv /\ CoverInv
  BY InitUsageInv, InitCoverInv
<1>2. UsageInv /\ CoverInv /\ [UsageNext]_usageVars => (UsageInv /\ CoverInv)'
  BY UsageInvStep, OneDayStep, CursorsCoverStep DEF CoverInv
<1>3. UsageInv /\ CoverInv => UsageIsCounted
  BY InvTypes, InvCounts, InvRepaired, InvCovers DEF UsageIsCounted
<1> QED
  BY <1>1, <1>2, <1>3, PTL DEF UsageSpec

\* Whatever a message's dates are, no source counts it twice under one model; after
\* a repair that read the log it has one event, or one of each source where the
\* proxy's key cannot meet the session's, and its model is known.
THEOREM UsageStaysUnique == UsageSpec => [](UsageTypeOK /\ CountedOnce /\ RepairedKnowsModels)
<1>1. UsageInv => UsageTypeOK /\ CountedOnce /\ RepairedKnowsModels
  BY InvTypes, InvCounts, InvRepaired
<1> QED
  BY <1>1, UsageInvHolds, PTL

-----------------------------------------------------------------------------
(* The rollups: which steps touch the lists, the marks and the rollups.     *)

\* The oldest day that is kept moves on by one, and only when nobody still has it to roll up.
LEMMA OldestMoves ==
  ASSUME UsageTypes, [UsageNext]_usageVars
  PROVE  /\ OldestDay \in Int /\ OldestDay' \in Int /\ OldestDay <= OldestDay'
         /\ OldestDay' # OldestDay =>
              /\ Tick /\ OldestDay' = OldestDay + 1
              /\ \A t \in Tasks : OldestDay \notin days[t].left
<1>1. now \in Nat /\ now' \in Nat /\ now <= now' /\ (now' # now => Tick) /\ Retained \in Int
  BY TimeGrows, UsageBasics DEF UsageTypes
<1>2. Day(now) \in Int /\ Day(now') \in Int /\ Day(now) <= Day(now')
  <2>1. now \in Int /\ now' \in Int
    BY <1>1
  <2>2. Day(now) \in Int /\ Day(now') \in Int
    BY ONLY <2>1, DayFacts
  <2>3. Day(now) <= Day(now')
    BY ONLY <1>1, DayFacts
  <2> QED
    BY <2>2, <2>3
<1>3. OldestDay = Day(now) - (Retained - 1) /\ OldestDay' = Day(now') - (Retained - 1)
  BY DEF OldestDay, Day
<1>4. ASSUME OldestDay' # OldestDay
      PROVE  /\ Tick /\ OldestDay' = OldestDay + 1
             /\ \A t \in Tasks : OldestDay \notin days[t].left
  <2>1. Day(now') # Day(now)
    BY <1>3, <1>4
  <2>2. Tick
    BY <1>1, <2>1
  <2>3. now' = now + 1 /\ Day(now') = Day(now) + 1
    <3>1. now' = now + 1
      BY <2>2 DEF Tick
    <3>2. Day(now + 1) <= Day(now) + 1
      BY ONLY <1>1, DayFacts
    <3> QED
      BY <1>2, <2>1, <3>1, <3>2
  <2>4. \A t \in Tasks : OldestDay \notin days[t].left
    BY <2>1, <2>2 DEF Tick
  <2> QED
    BY <1>1, <1>2, <1>3, <2>2, <2>3, <2>4
<1> QED
  BY <1>1, <1>2, <1>3, <1>4

\* The lists are written when they are collected, one day at a time when they
\* are rolled up, and thrown away.
LEMMA ListSteps ==
  ASSUME UsageTypes, [UsageNext]_usageVars
  PROVE  /\ \/ days' = days
            \/ \E t \in Tasks : Collects(t)
            \/ \E t \in Tasks : \E d \in days[t].left : RollUp(t, d)
            \/ \E t \in Tasks : days' = [days EXCEPT ![t] = NoDays]
            \/ days' = [t \in Tasks |-> NoDays]
         /\ \/ hourly' = hourly
            \/ \E t \in Tasks : \E d \in days[t].left : RollUp(t, d)
         /\ \/ dirty \subseteq dirty'
            \/ \E t \in Tasks : \E d \in days[t].left : RollUp(t, d)
<1>1. CASE \/ LogTurn \/ EndLine \/ Archive \/ Rewrite \/ (\E r \in Requests : LogSpent(r)) \/ Tick
           \/ (\E r \in Proxied : Observe(r)) \/ BeginSync
           \/ SaveCursor \/ Start \/ SaveFirst \/ BeginRepair \/ SkipRepair
           \/ EndRepair \/ (\E t \in Tasks : FailFile(t)) \/ UNCHANGED usageVars
  BY <1>1 DEF LogTurn, EndLine, Archive, Rewrite, LogSpent, Tick, Observe, BeginSync,
              SaveCursor, Start, SaveFirst, BeginRepair, SkipRepair, EndRepair, FailFile,
              usageVars, usageDbVars, taskVars
<1>2. CASE Backfill
  BY <1>2 DEF Backfill
<1>3. CASE Query
  <2>1. "query" \in Tasks
    BY UsageBasics
  <2> QED
    BY <1>3, <2>1 DEF Query, usageDbVars
<1>4. ASSUME NEW t \in Tasks, Collect(t) PROVE Collects(t) /\ hourly' = hourly /\ dirty' = dirty
  BY <1>4 DEF Collect, usageDbVars
<1>5. ASSUME NEW t \in Tasks, CleanUp(t) PROVE days' = days /\ hourly' = hourly /\ dirty' = dirty
  BY <1>5 DEF CleanUp
<1>6. ASSUME NEW t \in Tasks, Refreshed(t)
      PROVE  days' = [days EXCEPT ![t] = NoDays] /\ hourly' = hourly /\ dirty' = dirty
  BY <1>6 DEF Refreshed
<1>7. CASE Crash
  BY <1>7 DEF Crash, usageDbVars
<1>8. ASSUME NEW e, InsertEvent(e) PROVE dirty \subseteq dirty'
  BY <1>8 DEF InsertEvent
<1>9. CASE ReadLine
  <2>1. days' = days /\ hourly' = hourly
    BY <1>9 DEF ReadLine
  <2>2. dirty' = dirty \/ InsertEvent(SessionEvent(NextLine, reader.knows))
    BY <1>9 DEF ReadLine
  <2> QED
    BY <1>8, <2>1, <2>2
<1>10. ASSUME NEW r \in Proxied, Record(r) PROVE days' = days /\ hourly' = hourly /\ dirty \subseteq dirty'
  <2>1. days' = days /\ hourly' = hourly /\ InsertEvent(ProxyEvent(r))
    BY <1>10 DEF Record, taskVars
  <2> QED
    BY <1>8, <2>1
<1>11. CASE RepairLine
  <2>1. days' = days /\ hourly' = hourly
    BY <1>11 DEF RepairLine
  <2>2. dirty' = dirty \/ Relabel(NextLine, reader.knows)
    BY <1>11 DEF RepairLine
  <2>3. dirty \subseteq dirty'
    BY <2>2 DEF Relabel
  <2> QED
    BY <2>1, <2>3
<1> QED
  BY <1>1, <1>2, <1>3, <1>4, <1>5, <1>6, <1>7, <1>9, <1>10, <1>11 DEF UsageNext

\* A list is as old as its owner, and no older day of it is kept.
ListIsKept(l) ==
  /\ l.left = {} \/ l.oldest <= OldestDay
  /\ \A d \in l.left : d >= l.oldest => d >= OldestDay

\* Every step keeps the lists of days as they should be.
LEMMA ListsStep == UsageInv /\ ListsAreKept /\ [UsageNext]_usageVars => ListsAreKept'
<1> SUFFICES ASSUME UsageInv, ListsAreKept, [UsageNext]_usageVars PROVE ListsAreKept'
  OBVIOUS
<1>0. UsageTypes /\ days \in [Tasks -> Lists] /\ \A t \in Tasks : ListIsKept(days[t])
  BY DEF UsageInv, UsageTypes, ListsAreKept, ListIsKept
<1>1. /\ OldestDay \in Int /\ OldestDay' \in Int /\ OldestDay <= OldestDay'
      /\ OldestDay' # OldestDay =>
           /\ Tick /\ OldestDay' = OldestDay + 1
           /\ \A t \in Tasks : OldestDay \notin days[t].left
  BY <1>0, OldestMoves
\* A list no day of which leaves the retention.
<1>2. ASSUME NEW l \in Lists, ListIsKept(l), OldestDay' = OldestDay \/ OldestDay \notin l.left
      PROVE  ListIsKept(l)'
  <2>1. l.left \subseteq Int /\ l.oldest \in Int
    BY DEF Lists
  <2>2. l.left = {} \/ l.oldest <= OldestDay'
    BY <1>1, <1>2, <2>1 DEF ListIsKept
  <2>3. ASSUME NEW d \in l.left, d >= l.oldest PROVE d >= OldestDay'
    <3>1. d >= OldestDay /\ d \in Int
      BY <1>2, <2>1, <2>3 DEF ListIsKept
    <3>2. OldestDay' = OldestDay \/ (OldestDay' = OldestDay + 1 /\ d # OldestDay)
      BY <1>1, <1>2
    <3> QED
      BY <1>1, <3>1, <3>2
  <2>4. ListIsKept(l)' <=> /\ l.left = {} \/ l.oldest <= OldestDay'
                           /\ \A d \in l.left : d >= l.oldest => d >= OldestDay'
    BY DEF ListIsKept
  <2> QED
    BY <2>2, <2>3, <2>4
<1>3. ASSUME NEW f \in [Tasks -> Lists], days' = f, \A t \in Tasks : ListIsKept(f[t])' PROVE ListsAreKept'
  BY <1>3 DEF ListsAreKept, ListIsKept
<1>4. ASSUME NEW f \in [Tasks -> Lists], days' = f,
             \A t \in Tasks : ListIsKept(f[t]) /\ (OldestDay' = OldestDay \/ OldestDay \notin f[t].left)
      PROVE  ListsAreKept'
  BY <1>2, <1>3, <1>4
<1>5. ListIsKept(NoDays) /\ OldestDay \notin NoDays.left /\ NoDays \in Lists
  BY UsageBasics DEF ListIsKept, NoDays
<1>6. CASE days' = days
  <2>1. PICK f \in [Tasks -> Lists] : f = days
    BY <1>0
  <2> QED
    BY <1>0, <1>1, <1>4, <1>6, <2>1
<1>7. ASSUME NEW t \in Tasks, NEW l \in Lists, days' = [days EXCEPT ![t] = l], ListIsKept(l),
             OldestDay' = OldestDay \/ OldestDay \notin l.left
      PROVE  ListsAreKept'
  <2>1. PICK f \in [Tasks -> Lists] : f = [days EXCEPT ![t] = l]
    BY <1>0
  <2>2. f[t] = l /\ \A u \in Tasks : u # t => f[u] = days[u]
    BY <1>0, <2>1
  <2> QED
    BY <1>0, <1>1, <1>4, <1>7, <2>1, <2>2
<1>8. ASSUME NEW t \in Tasks, Collects(t) PROVE ListsAreKept'
  <2>1. PICK l : l = [left |-> dirty, oldest |-> OldestDay]
    OBVIOUS
  <2>2. l \in Lists /\ l.left = dirty /\ l.oldest = OldestDay
    BY <1>0, <1>1, <2>1 DEF Lists, UsageTypes
  <2>3. days' = [days EXCEPT ![t] = l]
    BY <1>8, <2>1 DEF Collects
  <2>4. ListIsKept(l)
    BY <1>1, <2>2 DEF ListIsKept
  <2>5. OldestDay' = OldestDay \/ OldestDay \notin l.left
    <3>1. Tick => days' = days
      BY DEF Tick, taskVars
    <3>2. days' = days => days[t] = l
      BY <1>0, <2>3
    <3> QED
      BY <1>1, <3>1, <3>2
  <2> QED
    BY <1>1, <1>7, <2>2, <2>3, <2>4, <2>5
<1>9. ASSUME NEW t \in Tasks, NEW d \in days[t].left, RollUp(t, d) PROVE ListsAreKept'
  <2>1. PICK l \in Lists : l = days[t]
    BY <1>0
  <2>2. PICK k : k = [l EXCEPT !.left = @ \ {d}]
    OBVIOUS
  <2>3. k \in Lists /\ k.left = l.left \ {d} /\ k.oldest = l.oldest
    BY <2>2 DEF Lists
  <2>4. days' = [days EXCEPT ![t] = k]
    BY <1>9, <2>1, <2>2 DEF RollUp
  <2>5. ListIsKept(k)
    BY <1>0, <2>1, <2>3 DEF ListIsKept
  <2>6. OldestDay' = OldestDay
    BY <1>9 DEF RollUp, envVars, OldestDay, Day
  <2> QED
    BY <1>7, <2>3, <2>4, <2>5, <2>6
<1>10. CASE days' = [t \in Tasks |-> NoDays]
  <2>1. PICK f \in [Tasks -> Lists] : f = [t \in Tasks |-> NoDays]
    BY <1>5
  <2> QED
    BY <1>4, <1>5, <1>10, <2>1
<1> QED
  BY <1>0, <1>5, <1>6, <1>7, <1>8, <1>9, <1>10, ListSteps

\* A rollup that is written is of a day that is kept.
LEMMA RollUpStep ==
  UsageInv /\ ListsAreKept /\ [UsageNext]_usageVars =>
    \A d \in Days : d < OldestDay /\ meta.rolled => hourly'[d] = hourly[d]
<1> SUFFICES ASSUME UsageInv, ListsAreKept, [UsageNext]_usageVars, NEW d \in Days, d < OldestDay
             PROVE  hourly'[d] = hourly[d]
  OBVIOUS
<1>0. UsageTypes /\ days \in [Tasks -> Lists] /\ hourly \in [Days -> SUBSET Rollups]
  BY DEF UsageInv, UsageTypes
<1>1. d \in Int
  BY UsageBasics, DayFacts DEF Days
<1>2. CASE hourly' = hourly
  BY <1>2
<1>3. ASSUME NEW t \in Tasks, NEW k \in days[t].left, RollUp(t, k) PROVE hourly'[d] = hourly[d]
  <2>1. k \in Int /\ days[t].oldest \in Int /\ OldestDay \in Int
    BY <1>0, OldestMoves DEF Lists
  <2>2. CASE k \notin Days \/ k < days[t].oldest
    BY <1>3, <2>2 DEF RollUp
  <2>3. CASE ~(k \notin Days \/ k < days[t].oldest)
    <3>1. k >= OldestDay
      BY <2>1, <2>3 DEF ListsAreKept
    <3>2. k # d /\ hourly' = [hourly EXCEPT ![k] = Summary(OnDay(events, k))]
      BY <1>1, <1>3, <2>1, <2>3, <3>1 DEF RollUp
    <3> QED
      BY <1>0, <3>2
  <2> QED
    BY <2>2, <2>3
<1> QED
  BY <1>0, <1>2, <1>3, ListSteps

\* The rollup of a day whose events are gone is history: it is never written again.
THEOREM HistoryStaysKept == UsageSpec => HistoryIsKept
<1>1. UsageInit => ListsAreKept
  BY UsageBasics DEF UsageInit, ListsAreKept, NoDays
<1>2. UsageInv /\ ListsAreKept /\ [UsageNext]_usageVars => (UsageInv /\ ListsAreKept)'
  BY UsageInvStep, ListsStep
<1>3. UsageInv /\ ListsAreKept /\ [UsageNext]_usageVars =>
        [\A d \in Days : d < OldestDay /\ meta.rolled => hourly'[d] = hourly[d]]_usageVars
  BY RollUpStep
<1> QED
  BY InitUsageInv, <1>1, <1>2, <1>3, PTL DEF UsageSpec, HistoryIsKept

\* The events of a day that is kept and not marked are those it had.
LEMMA DayStays ==
  ASSUME UsageInv, OneDay, [UsageNext]_usageVars, NEW d \in Int, d \notin dirty', d >= OldestDay
  PROVE  OnDay(events', d) = OnDay(events, d)
<1>0. /\ UsageTypes /\ LogIsWhole /\ ReaderKnows /\ EventsAreWhole /\ events \subseteq UsageEvents
      /\ client \in {"claude", "codex"} /\ reader \in Readers
  BY DEF UsageInv, UsageTypes
<1>1. CASE events' = events
  BY <1>1
<1>2. CASE events' = Clean(events)
  BY <1>2 DEF Clean, OnDay
<1>3. ASSUME NEW s \in UsageEvents, InsertEvent(s),
             \A x \in events \ Copy(s) : x.key = s.key => Day(x.at) = Day(s.at)
      PROVE  OnDay(events', d) = OnDay(events, d)
  <2>1. Day(s.at) # d
    BY <1>3, InsertIs
  <2>2. ASSUME NEW x \in Copy(s) PROVE Day(x.at) # d
    <3>1. x.at \in Nat /\ s.at \in Nat /\ x.at - s.at \in -1 .. 1
      BY <1>0, <2>2 DEF Copy, UsageEvents
    <3>2. x.at = s.at \/ x.at = s.at + 1 \/ x.at = (IF s.at = 0 THEN 0 ELSE s.at - 1)
      BY <3>1
    <3>3. Day(s.at + 1) # d /\ Day(IF s.at = 0 THEN 0 ELSE s.at - 1) # d
      BY <1>3, <2>2, InsertIs
    <3> QED
      BY <2>1, <3>2, <3>3
  <2>3. \A x \in events : Merged(x, s).at = x.at
    BY <1>0, MergedIs
  <2>4. ASSUME NEW y \in events', Day(y.at) = d PROVE y \in events
    <3>1. y \in events \/ y = s \/ \E x \in events \ Copy(s) : x.key = s.key /\ y = Merged(x, s)
      BY <1>3, InsertIs
    <3> QED
      BY <1>3, <2>1, <2>3, <2>4, <3>1
  <2>5. ASSUME NEW x \in events, Day(x.at) = d PROVE x \in events'
    <3>1. x \notin Copy(s) /\ x.key # s.key
      BY <1>3, <2>1, <2>2, <2>5
    <3> QED
      BY <1>3, <3>1, InsertIs
  <2> QED
    BY <2>4, <2>5 DEF OnDay
<1>o. ASSUME client = "claude", NEW r \in Requests, NEW t \in Dates(r), NEW u \in Dates(r) PROVE Day(t) = Day(u)
  BY <1>o DEF OneDay
<1>4. ASSUME NEW s \in UsageEvents, Inserts(s) PROVE OnDay(events', d) = OnDay(events, d)
  <2>1. /\ InsertEvent(s) /\ s = SessionEvent(NextLine, reader.knows) /\ NextLine.req # Nothing
        /\ Reads /\ reader.at < Whole
    BY <1>4 DEF Inserts, ReadLine, Reads
  <2>2. NextLine \in LogLines /\ NextLine.req \in Requests /\ reader.at + 1 \in 1 .. Whole
    BY <1>0, <2>1, NextLineIs
  <2>3. s.req = NextLine.req /\ s.at = NextLine.at /\ reader.knows \in Models \cup {Unknown}
    BY <1>0, <2>1, SessionEventHas DEF Readers
  <2>4. ASSUME NEW x \in events, x.key = s.key PROVE Day(x.at) = Day(s.at)
    <3>1. x.req = s.req /\ (client = "codex" => x.at = s.at)
      BY <1>0, <2>1, <2>2, <2>3, <2>4, SameKey
    <3>2. CASE client = "claude"
      <4>1. DOMAIN log.lines = 1 .. Len(log.lines) /\ reader.at + 1 \in 1 .. Len(log.lines)
        BY <1>0, <2>2, LogReads
      <4>2. s.at \in Dates(s.req) /\ x.at \in Dates(s.req)
        BY <2>3, <3>1, <4>1, DatesAre DEF NextLine
      <4> QED
        BY <1>o, <2>2, <2>3, <3>2, <4>2
    <3> QED
      BY <1>0, <3>1, <3>2
  <2> QED
    BY <1>3, <2>1, <2>4
<1>5. ASSUME NEW r \in Requests, Record(r), InsertEvent(ProxyEvent(r)) PROVE OnDay(events', d) = OnDay(events, d)
  <2>1. PICK s \in UsageEvents : s = ProxyEvent(r)
    BY <1>0, ProxyEventIs
  <2>2. InsertEvent(s) /\ s.source = "proxy" /\ s.req = r /\ s.at = answer[r].at /\ answer[r].step = "open"
    BY <1>5, <2>1 DEF ProxyEvent, Record
  <2>3. ASSUME NEW x \in events, x.key = s.key PROVE Day(x.at) = Day(s.at)
    <3>1. x.req = s.req /\ client = "claude"
      BY <1>0, <2>1, <2>2, <2>3, SameKey
    <3>2. DOMAIN log.lines = 1 .. Len(log.lines)
      BY <1>0, LogReads
    <3>3. s.at \in Dates(r) /\ x.at \in Dates(r)
      BY <2>2, <3>1, <3>2, DatesAre
    <3> QED
      BY <1>o, <3>1, <3>3
  <2> QED
    BY <1>3, <2>2, <2>3
<1>6. CASE Relabels
  <2>1. pc["repair"] = "read" /\ Reads /\ NextLine.req # Nothing /\ reader.at < Whole /\ client = "codex"
    BY <1>6 DEF Relabels, RepairLine, Reads, UsageInv, TasksExclude
  <2> DEFINE m == reader.knows  k == SessionKey(NextLine, m)  k0 == SessionKey(NextLine, Unknown)
  <2>2. /\ \A y \in events' :
             \/ y \in events /\ y.key # k0
             \/ \E x \in events : x.key = k0 /\ y = [x EXCEPT !.model = m, !.key = k]
                                  /\ \A z \in events : z.key # k
        /\ \A x \in events : x.key # k0 => x \in events'
        /\ (\E x \in events : x.key = k0) => dirty' = dirty \cup {Day(NextLine.at)}
    <3>1. Relabel(NextLine, reader.knows)
      BY <1>6 DEF Relabels
    <3>2. /\ \A y \in events' :
                \/ y \in events /\ y.key # SessionKey(NextLine, Unknown)
                \/ \E x \in events : /\ x.key = SessionKey(NextLine, Unknown)
                                     /\ y = [x EXCEPT !.model = reader.knows, !.key = SessionKey(NextLine, reader.knows)]
                                     /\ \A z \in events : z.key # SessionKey(NextLine, reader.knows)
          /\ \A x \in events : x.key # SessionKey(NextLine, Unknown) => x \in events'
          /\ (\E x \in events : x.key = SessionKey(NextLine, Unknown)) => dirty' = dirty \cup {Day(NextLine.at)}
      BY ONLY <3>1, RelabelIs
    <3> QED
      BY ONLY <3>2
  <2>3. k0 = <<NextLine.req, Unknown, NextLine.at>>
    BY <2>1 DEF SessionKey
  <2>4. ASSUME NEW x \in events, x.key = k0 PROVE Day(x.at) # d
    <3>1. EventIsWhole(x) /\ client # "claude"
      BY <1>0, <2>1 DEF EventsAreWhole
    <3>2. x.source # "proxy"
      <4>1. x.source = "proxy" => x.key = <<x.req, "proxy">>
        BY <3>1 DEF EventIsWhole
      <4>2. <<NextLine.req, Unknown, NextLine.at>> # <<x.req, "proxy">>
        BY KeysDiffer
      <4> QED
        BY <2>3, <2>4, <4>1, <4>2
    <3>3. x.key = <<x.req, x.model, x.at>>
      BY <3>1, <3>2 DEF EventIsWhole
    <3>4. x.at = NextLine.at
      BY <2>3, <2>4, <3>3, KeysDiffer
    <3> QED
      BY <2>2, <2>4, <3>4
  <2> HIDE DEF m, k, k0
  <2>5. \A x \in events : [x EXCEPT !.model = m, !.key = k].at = x.at
    BY <1>0, RelabelledIs
  <2>6. ASSUME NEW y \in events', Day(y.at) = d PROVE y \in events
    <3>1. ASSUME NEW x \in events, x.key = k0, y = [x EXCEPT !.model = m, !.key = k] PROVE FALSE
      BY <2>4, <2>5, <2>6, <3>1
    <3> QED
      BY <2>2, <3>1
  <2>7. \A x \in events : Day(x.at) = d => x \in events'
    BY <2>2, <2>4
  <2> QED
    BY <2>6, <2>7 DEF OnDay
<1> QED
  BY <1>0, <1>1, <1>2, <1>4, <1>5, <1>6, EventSteps

\* The backfill of a start ends with rollups, and nothing else makes them whole.
LEMMA RolledSteps ==
  ASSUME UsageInv, [UsageNext]_usageVars
  PROVE  \/ Backfill /\ ~meta.rolled
         \/ Refreshed("start")
         \/ /\ meta'.rolled = meta.rolled
            /\ pc'["start"] \in {"collect", "roll"} => pc["start"] \in {"collect", "roll"}
<1>0. pc \in [Tasks -> UsageSteps] /\ meta \in Metas /\ now \in Nat /\ Tasks = {"start", "sync", "repair", "query"}
  BY UsageBasics DEF UsageInv, UsageTypes
<1>m. /\ [meta EXCEPT !.cleaned = now].rolled = meta.rolled
      /\ [meta EXCEPT !.repaired = TRUE].rolled = meta.rolled
      /\ [meta EXCEPT !.started = now].rolled = meta.rolled
      /\ [meta EXCEPT !.unread = TRUE].rolled = meta.rolled
      /\ [meta EXCEPT !.unread = FALSE].rolled = meta.rolled
  BY <1>0 DEF Metas
<1>p. \A t \in Tasks, s \in UsageSteps : Proceed(t, s) =>
        pc'[t] = s /\ \A u \in Tasks : u # t => pc'[u] = pc[u]
  BY <1>0 DEF Proceed
<1>u. UsageSteps = {"idle", "save", "clean", "backfill", "collect", "roll", "read"}
  BY DEF UsageSteps
<1> DEFINE Same == /\ meta'.rolled = meta.rolled
                   /\ pc'["start"] \in {"collect", "roll"} => pc["start"] \in {"collect", "roll"}
<1>1. CASE \/ LogTurn \/ EndLine \/ Archive \/ Rewrite \/ (\E r \in Requests : LogSpent(r)) \/ Tick
           \/ (\E r \in Proxied : Observe(r) \/ Record(r)) \/ ReadLine \/ RepairLine \/ UNCHANGED usageVars
  <2>1. UNCHANGED <<meta, pc>>
    BY <1>1 DEF LogTurn, EndLine, Archive, Rewrite, LogSpent, Tick, Observe, Record, ReadLine, RepairLine,
                usageVars, usageDbVars, taskVars
  <2> QED
    BY <2>1
<1>2. ASSUME NEW t \in Tasks, NEW d \in days[t].left, RollUp(t, d) PROVE Same
  BY <1>2 DEF RollUp
<1>3. ASSUME NEW t \in Tasks \ {"start"}, NEW s \in UsageSteps, Proceed(t, s), meta'.rolled = meta.rolled
      PROVE  Same
  BY <1>0, <1>3, <1>p
<1>4. CASE BeginSync
  <2>1. Proceed("sync", "read") /\ meta' = meta
    BY <1>4 DEF BeginSync, usageDbVars
  <2> QED
    BY <1>0, <1>3, <1>u, <2>1
<1>5. CASE SaveCursor
  <2>1. Proceed("sync", "clean") /\ meta' = meta
    BY <1>5 DEF SaveCursor
  <2> QED
    BY <1>0, <1>3, <1>u, <2>1
<1>6. CASE Query
  <2>1. Proceed("query", "roll") /\ meta' = meta
    BY <1>6 DEF Query, Collects, usageDbVars
  <2> QED
    BY <1>0, <1>3, <1>u, <2>1
<1>7. ASSUME NEW t \in Tasks, CleanUp(t) PROVE Same
  <2>1. meta'.rolled = meta.rolled
    BY <1>7, <1>m DEF CleanUp
  <2>2. Proceed(t, IF t = "start" THEN "backfill" ELSE "collect")
    BY <1>7 DEF CleanUp
  <2>3. pc'["start"] = (IF t = "start" THEN "backfill" ELSE pc["start"])
    BY <1>0, <1>p, <1>u, <2>2
  <2> QED
    BY <2>1, <2>3
<1>8. ASSUME NEW t \in Tasks, Collect(t) PROVE Same
  <2>1. pc[t] = "collect" /\ Proceed(t, "roll") /\ meta' = meta
    BY <1>8 DEF Collect, Collects, usageDbVars
  <2>2. pc'["start"] = (IF t = "start" THEN "roll" ELSE pc["start"])
    BY <1>0, <1>p, <1>u, <2>1
  <2> QED
    BY <2>1, <2>2
<1>9. ASSUME NEW t \in Tasks, Refreshed(t) PROVE Refreshed("start") \/ Same
  <2>1. CASE t = "start"
    BY <1>9, <2>1
  <2>2. CASE t # "start"
    <3>1. Proceed(t, "idle") /\ (meta' = meta \/ meta' = [meta EXCEPT !.repaired = TRUE])
      BY <1>9, <2>2 DEF Refreshed
    <3> QED
      BY <1>3, <1>m, <1>u, <2>2, <3>1
  <2> QED
    BY <2>1, <2>2
<1>10. CASE Start
  <2>1. /\ meta'.rolled = meta.rolled
        /\ Proceed("start", "save") \/ Proceed("start", "clean")
    BY <1>10, <1>m DEF Start
  <2>2. pc'["start"] \in {"save", "clean"}
    BY <1>0, <1>p, <1>u, <2>1
  <2> QED
    BY <2>1, <2>2
<1>11. CASE SaveFirst
  <2>1. Proceed("start", "clean") /\ meta' = meta
    BY <1>11 DEF SaveFirst
  <2>2. pc'["start"] = "clean"
    BY <1>0, <1>p, <1>u, <2>1
  <2> QED
    BY <2>1, <2>2
<1>12. CASE Backfill /\ meta.rolled
  <2>1. Proceed("start", "idle") /\ meta' = meta
    BY <1>12 DEF Backfill
  <2>2. pc'["start"] = "idle"
    BY <1>0, <1>p, <1>u, <2>1
  <2> QED
    BY <2>1, <2>2
<1>13. CASE BeginRepair \/ SkipRepair
  <2>1. /\ Proceed("repair", "read") \/ Proceed("repair", "collect")
        /\ meta'.rolled = meta.rolled
    BY <1>13, <1>m DEF BeginRepair, SkipRepair
  <2> QED
    BY <1>0, <1>3, <1>u, <2>1
<1>14. CASE EndRepair
  <2>1. Proceed("repair", "collect") /\ meta' = meta
    BY <1>14 DEF EndRepair
  <2> QED
    BY <1>0, <1>3, <1>u, <2>1
<1>15. CASE Crash
  <2>1. meta' = meta /\ pc'["start"] = "idle"
    BY <1>0, <1>15 DEF Crash, usageDbVars
  <2> QED
    BY <2>1
<1>16. ASSUME NEW t \in Tasks, FailFile(t) PROVE Same
  <2>1. /\ t # "start" /\ Proceed(t, IF t = "sync" THEN "clean" ELSE "collect")
        /\ meta'.rolled = meta.rolled
    BY <1>16, <1>m DEF FailFile
  <2> QED
    BY <1>3, <1>u, <2>1
<1> QED
  BY <1>1, <1>2, <1>4, <1>5, <1>6, <1>7, <1>8, <1>9, <1>10, <1>11, <1>12, <1>13, <1>14, <1>15, <1>16 DEF UsageNext

\* Every step keeps the rollups of the days that are not marked.
LEMMA DaysAgreeStep ==
  UsageInv /\ OneDay /\ ListsAreKept /\ DaysAgree /\ [UsageNext]_usageVars => DaysAgree'
<1> SUFFICES ASSUME UsageInv, OneDay, ListsAreKept, DaysAgree, [UsageNext]_usageVars,
                    NEW d \in Days, d >= OldestDay', d \notin dirty'
             PROVE  \/ hourly'[d] = Summary(OnDay(events', d))
                    \/ ~meta'.rolled /\ pc'["start"] \notin {"collect", "roll"} /\ hourly'[d] = {}
  BY DEF DaysAgree, Days, Day, Summary, OnDay
<1>0. UsageTypes /\ days \in [Tasks -> Lists] /\ hourly \in [Days -> SUBSET Rollups] /\ dirty \in SUBSET Int
  BY DEF UsageInv, UsageTypes
<1>1. d \in Int /\ OldestDay \in Int /\ d >= OldestDay
  <2>1. d \in Int
    BY DEF Days
  <2> QED
    BY <1>0, <2>1, OldestMoves
<1>2. OnDay(events', d) = OnDay(events, d)
  BY <1>1, DayStays
<1>3. ASSUME d \notin dirty
      PROVE  \/ hourly[d] = Summary(OnDay(events, d))
             \/ ~meta.rolled /\ pc["start"] \notin {"collect", "roll"} /\ hourly[d] = {}
  BY <1>1, <1>3 DEF DaysAgree
<1>4. ASSUME NEW t \in Tasks, NEW k \in days[t].left, RollUp(t, k)
      PROVE  \/ hourly'[d] = Summary(OnDay(events', d))
             \/ ~meta'.rolled /\ pc'["start"] \notin {"collect", "roll"} /\ hourly'[d] = {}
  <2>1. meta' = meta /\ pc' = pc /\ dirty' = dirty \ {k}
    BY <1>4 DEF RollUp
  <2>2. k \in Int /\ days[t].oldest \in Int
    BY <1>0 DEF Lists
  <2>3. CASE k = d
    <3>1. ~(d < days[t].oldest)
      BY <1>1, <1>4, <2>2 DEF ListsAreKept
    <3>2. hourly' = [hourly EXCEPT ![d] = Summary(OnDay(events, d))]
      BY <1>4, <2>3, <3>1 DEF RollUp
    <3> QED
      BY <1>0, <1>2, <3>2
  <2>4. CASE k # d
    <3>1. hourly'[d] = hourly[d]
      BY <1>0, <1>4, <2>4 DEF RollUp
    <3>2. d \notin dirty
      BY <2>1, <2>4
    <3> QED
      BY <1>2, <1>3, <2>1, <3>1, <3>2
  <2> QED
    BY <2>3, <2>4
<1>5. CASE hourly' = hourly /\ dirty \subseteq dirty'
  <2>1. \/ hourly[d] = Summary(OnDay(events, d))
        \/ ~meta.rolled /\ pc["start"] \notin {"collect", "roll"} /\ hourly[d] = {}
    BY <1>3, <1>5
  <2>2. CASE Backfill /\ ~meta.rolled
    <3>1. dirty' = dirty \cup {Day(e.at) : e \in events}
      BY <2>2 DEF Backfill
    <3>2. OnDay(events, d) = {}
      BY <3>1 DEF OnDay
    <3>3. Summary(OnDay(events, d)) = {}
      BY <3>2 DEF Summary
    <3> QED
      BY <1>2, <1>5, <2>1, <3>3
  <2>3. CASE Refreshed("start")
    <3>1. pc["start"] = "roll"
      BY <2>3 DEF Refreshed
    <3> QED
      BY <1>2, <1>5, <2>1, <3>1
  <2>4. CASE /\ meta'.rolled = meta.rolled
             /\ pc'["start"] \in {"collect", "roll"} => pc["start"] \in {"collect", "roll"}
    BY <1>2, <1>5, <2>1, <2>4
  <2> QED
    BY <2>2, <2>3, <2>4, RolledSteps
<1> QED
  BY <1>0, <1>4, <1>5, ListSteps

\* At first nobody rolls up, and the rollups are complete or do not exist.
LEMMA InitDaysAgree == UsageInit => ListsAreKept /\ DaysAgree
<1> SUFFICES ASSUME UsageInit PROVE ListsAreKept /\ DaysAgree
  OBVIOUS
<1>1. ListsAreKept
  BY UsageBasics DEF UsageInit, ListsAreKept, NoDays
<1>2. /\ pc["start"] = "idle"
      /\ \/ ~meta.rolled /\ \A d \in Days : hourly[d] = {}
         \/ \A d \in Days : hourly[d] = Summary(OnDay(events, d))
  BY UsageBasics DEF UsageInit
<1> QED
  BY <1>1, <1>2 DEF DaysAgree

\* A day that is kept and not marked is rolled up as its events are.
THEOREM RollupsStayTrue == ~Straddles => (UsageSpec => []RollupsAgree)
<1> SUFFICES ASSUME ~Straddles PROVE UsageSpec => []RollupsAgree
  OBVIOUS
<1> DEFINE RollInv == UsageInv /\ OneDay /\ ListsAreKept /\ DaysAgree
<1>1. UsageInit => RollInv
  BY InitUsageInv, InitCoverInv, InitDaysAgree DEF CoverInv
<1>2. RollInv /\ [UsageNext]_usageVars => RollInv'
  BY UsageInvStep, OneDayStep, ListsStep, DaysAgreeStep
<1>3. RollInv => RollupsAgree
  BY DEF DaysAgree, RollupsAgree
<1> QED
  BY <1>1, <1>2, <1>3, PTL DEF UsageSpec
=============================================================================
