----------------------------- MODULE UsageQuota -----------------------------
(***************************************************************************)
(* The allowance of a plan, estimated from the readings of its meter       *)
(* (usage.rs, estimate_quota and what prepares its rows).  A row is        *)
(*   [at, resets, used (percent), usage (tokens since the last reading),   *)
(*    share (percent of the movement that is the client's),                *)
(*    account, source, plan, window, minutes].                             *)
(***************************************************************************)
EXTENDS Integers, Sequences, FiniteSets, SequencesExt

CONSTANTS Tolerance,    \* QUOTA_CYCLE_TOLERANCE_SECONDS
          CyclesShown,  \* QUOTA_CYCLES_SHOWN
          Recent,       \* an estimate this old is no longer current
          Unnamed       \* the account of a client that does not name it

ASSUME QuotaConstants == {Tolerance, CyclesShown, Recent} \subseteq Nat

Near(a, b) == a - b \in -Tolerance..Tolerance
Rounded(a, b) == (2 * a + b) \div (2 * b)

\* A percentage that is finite, within range and of a window that lasts.
ValidReading(r) == r.used \in 0..100 /\ r.minutes > 0 /\ r.resets # -1

\* The readings a Codex line makes: one for each window it names in full, its
\* reset given as a time or as the seconds until it.
CodexReadings(line, at) ==
  {w \in {[l EXCEPT !.resets = IF @ # -1 THEN @ ELSE IF l.seconds # -1 THEN at + l.seconds ELSE -1]
            : l \in line.limits} : ValidReading(w)}

\* Readings without an account belong to the one account known for their
\* provider and plan, if there is exactly one.
Named(rows) ==
  LET known(r) == {x.account : x \in {y \in ToSet(rows) : y.source = r.source /\ y.plan = r.plan}} \ {Unnamed} IN
  [i \in DOMAIN rows |->
     IF rows[i].account = Unnamed /\ Cardinality(known(rows[i])) = 1
     THEN [rows[i] EXCEPT !.account = CHOOSE a \in known(rows[i]) : TRUE] ELSE rows[i]]

Series(r) == <<r.account, r.source, r.plan, r.window, r.minutes>>
Groups(rows) == {SelectSeq(rows, LAMBDA r : Series(r) = s) : s \in {Series(r) : r \in ToSet(rows)}}

Sum(f, S) == FoldSet(LAMBDA x, t : f[x] + t, 0, S)

\* A Claude reading is credited with the official requests since the one
\* before it in its account and window.
WithClaudeUsage(rows, requests) ==
  [i \in DOMAIN rows |->
     LET before == {j \in 1..(i - 1) : rows[j].account = rows[i].account /\ rows[j].window = rows[i].window}
         since == IF before = {} THEN rows[i].at ELSE rows[CHOOSE j \in before : \A k \in before : k <= j].at
         mine == {j \in DOMAIN requests : requests[j].at > since /\ requests[j].at <= rows[i].at} IN
     [rows[i] EXCEPT !.usage = IF before = {} THEN @
                               ELSE Sum([j \in mine |-> requests[j].tokens], mine)]]

\* A cycle is every reading that names the same reset time.
AddToCycle(cycles, row) ==
  LET same == {i \in DOMAIN cycles : Near(cycles[i][1].resets, row.resets)} IN
  IF same = {} THEN Append(cycles, <<row>>)
  ELSE LET i == CHOOSE j \in same : \A k \in same : j <= k IN [cycles EXCEPT ![i] = Append(@, row)]
Cycles(rows) == FoldLeft(AddToCycle, <<>>, rows)

\* Usage counts up to the last rise of the running peak: what follows it has
\* not moved the meter yet.
Follow(m, row) ==
  LET pending == m.pending + row.usage IN
  IF row.used > m.peak THEN [peak |-> row.used, settled |-> m.settled + pending, pending |-> 0]
  ELSE [m EXCEPT !.pending = pending]
Movement(cycle) ==
  FoldLeft(Follow, [peak |-> cycle[1].used, settled |-> 0, pending |-> 0], Tail(cycle))

\* In hundredths of a percent of the meter.
Share(cycle) == LET s == Last(cycle).share IN IF s < 5 THEN 5 ELSE s
Moved(cycle) == (Movement(cycle).peak - cycle[1].used) * Share(cycle)
MovesMeter(cycle) == Movement(cycle).peak - cycle[1].used >= 1

EstimateQuota(rows, now) ==
  LET latest == Last(rows)
      cycles == Cycles(rows)
      counted == {i \in DOMAIN cycles : MovesMeter(cycles[i])}
      movement == Sum([i \in counted |-> Moved(cycles[i])], counted)
      tokens == Sum([i \in counted |-> Movement(cycles[i]).settled], counted)
      slack == 100 * Cardinality(counted)
      near == {i \in DOMAIN cycles : Near(cycles[i][1].resets, latest.resets)}
      current == CHOOSE i \in near : \A k \in near : k <= i
      used == IF now >= latest.resets THEN 0 ELSE Movement(cycles[current]).peak IN
  [used |-> used, movement |-> movement, cycles |-> Cardinality(counted),
   known |-> movement >= 100,
   tokens |-> IF movement >= 100 THEN Rounded(tokens * 10000, movement) ELSE 0,
   low |-> IF movement >= 100 THEN Rounded(tokens * 10000, movement + slack) ELSE 0,
   \* the range is open above when the movement is within its uncertainty
   high |-> IF movement > slack THEN Rounded(tokens * 10000, movement - slack) ELSE -1,
   remaining |-> IF movement >= 100
                 THEN Rounded(Rounded(tokens * 10000, movement) * (100 - used), 100) ELSE -1,
   shown |-> IF Len(cycles) < CyclesShown THEN Len(cycles) ELSE CyclesShown,
   at |-> latest.at]

\* One estimate for each series; what the client no longer reports has no
\* remaining share.
QuotaEstimates(rows, now) ==
  LET groups == Groups(Named(rows))
      newest == CHOOSE t \in {Last(g).at : g \in groups} : \A g \in groups : Last(g).at <= t IN
  {LET e == EstimateQuota(g, now) IN
   [e EXCEPT !.remaining = IF e.at >= newest - Recent THEN @ ELSE -1] : g \in groups}

-----------------------------------------------------------------------------
\* A meter of a plan that allows `allowance` tokens a cycle shows whole
\* percents of what was spent; `lag` names readings that show what the
\* previous one did, as those of a concurrent session may.  A request beyond the
\* allowance is refused and spends nothing.
MeterRows(allowance, spent, lag) ==
  LET row(rows, used) ==
        LET i == Len(rows) + 1
            sum == used + Sum([j \in 1..(i - 1) |-> rows[j].usage], 1..(i - 1))
            shown == IF i \in lag /\ i > 1 THEN rows[i - 1].used ELSE (100 * sum) \div allowance
            line == [limits |-> {[used |-> shown, minutes |-> 300, resets |-> -1, seconds |-> 1000 - i],
                                 [used |-> shown, minutes |-> 0, resets |-> 1000, seconds |-> -1]}]
            readings == CodexReadings(line, i)
            reading == CHOOSE r \in readings : TRUE IN
        IF readings = {} THEN rows
        ELSE Append(rows, [at |-> i, resets |-> reading.resets, used |-> reading.used, usage |-> used,
                           share |-> 100, account |-> Unnamed, source |-> "openai", plan |-> "plus",
                           window |-> "primary", minutes |-> reading.minutes])
  IN FoldLeft(row, <<>>, spent)

\* The same meter read from Claude, which tells no usage: its requests do.
WithoutUsage(rows) == [i \in DOMAIN rows |-> IF i = 1 THEN rows[i] ELSE [rows[i] EXCEPT !.usage = 0]]
RequestsOf(rows) == [i \in DOMAIN rows |-> [at |-> rows[i].at, tokens |-> rows[i].usage]]

\* The last reading names the account, and another account was used long before.
OfTwoAccounts(rows) ==
  <<[rows[1] EXCEPT !.at = -(Recent + 1), !.account = "former", !.plan = "free"]>>
  \o [rows EXCEPT ![Len(rows)].account = "current"]

Ranges(estimates, allowance) ==
  /\ Cardinality(estimates) = 2
  /\ \A e \in estimates :
       IF e.at < 0 THEN e.remaining = -1
       ELSE e.known => e.low <= allowance /\ (e.high = -1 \/ allowance <= e.high)
Estimated(rows, allowance) ==
  rows # <<>> => /\ WithClaudeUsage(WithoutUsage(rows), RequestsOf(rows)) = rows
                 /\ Ranges(QuotaEstimates(OfTwoAccounts(rows), 500), allowance)

\* The allowance lies in the range that is shown for it, also when the client did not
\* name its account at first; only what the client still reports has a remaining share.
AllowanceIsInRange(allowance, spent, lag) == Estimated(MeterRows(allowance, spent, lag), allowance)
=============================================================================
