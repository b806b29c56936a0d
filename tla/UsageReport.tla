----------------------------- MODULE UsageReport -----------------------------
(***************************************************************************)
(* What a usage query answers from the rollups (usage.rs, query) and what  *)
(* it costs (pricing.rs, hsin-core).  A rollup row is                      *)
(*   [day, hour, provider, model, tokens, requests, inferred],             *)
(* its tokens a record of four counts.                                     *)
(***************************************************************************)
EXTENDS Integers, Sequences, FiniteSets, SequencesExt

CONSTANTS MaxQueryDays,  \* MAX_QUERY_DAYS
          SeriesDays,    \* USAGE_MODEL_SERIES_DAYS
          CalendarDays,  \* USAGE_CALENDAR_DAYS
          Unset            \* no filter, no provider, no price

ASSUME ReportConstants == {MaxQueryDays, SeriesDays, CalendarDays} \subseteq Nat \ {0}

-----------------------------------------------------------------------------
(* Tokens. *)

Counts == {"input", "write", "read", "output"}
Zero == [c \in Counts |-> 0]
AddTokens(a, b) == [c \in Counts |-> a[c] + b[c]]
TotalTokens(t) == t["input"] + t["write"] + t["read"] + t["output"]
Saturating(n) == IF n < 0 THEN 0 ELSE n

\* An OpenAI answer counts what the cache read and wrote within its input.
OpenAiTokens(u) ==
  [c \in Counts |-> CASE c = "input" -> Saturating(Saturating(u.total - u.cached) - u.written)
                      [] c = "write" -> u.written
                      [] c = "read" -> u.cached
                      [] OTHER -> u.out]
\* Mutant: a total that starts again is counted from what it was.
SubtractTokens_Saturating(current, previous) == [c \in Counts |-> Saturating(current[c] - previous[c])]

\* What was added to a running total: all of it when a count went back.
SubtractTokens(current, previous) ==
  IF \E c \in Counts : current[c] < previous[c] THEN current
  ELSE [c \in Counts |-> current[c] - previous[c]]
\* A session that tells totals only is counted by their differences.
Differences(totals) ==
  [i \in DOMAIN totals |-> IF i = 1 THEN totals[1] ELSE SubtractTokens(totals[i], totals[i - 1])]

SumTokens(rows) == FoldLeft(LAMBDA t, r : AddTokens(t, r.tokens), Zero, rows)

-----------------------------------------------------------------------------
(* Prices: a rule is [pattern, provider, source, price, currency]; `fits`  *)
(* says how long a prefix of the model its pattern is, or that it is it.   *)

Exact == 1000
SourceRank == [builtin |-> 0, remote |-> 1, user |-> 2]

\* Higher is closer; <<>> when the rule does not apply.
Specificity(rule, provider, fits) ==
  IF (rule.provider # Unset /\ rule.provider # provider) \/ fits[rule.pattern] = -1 THEN <<>>
  ELSE <<IF rule.provider = Unset THEN 0 ELSE 1, SourceRank[rule.source], fits[rule.pattern]>>
Below(a, b) == \E i \in 1..3 : a[i] < b[i] /\ \A j \in 1..(i - 1) : a[j] = b[j]

BestPrice(rules, provider, fits) ==
  LET apply == {r \in rules : Specificity(r, provider, fits) # <<>>} IN
  IF apply = {} THEN Unset
  ELSE CHOOSE r \in apply : \A x \in apply :
         ~Below(Specificity(r, provider, fits), Specificity(x, provider, fits))

\* Missing cache prices fall back to the input price.
Cost(rule, t) ==
  t["input"] * rule.price.input + t["output"] * rule.price.output
  + t["write"] * (IF rule.price.write = Unset THEN rule.price.input ELSE rule.price.write)
  + t["read"] * (IF rule.price.read = Unset THEN rule.price.input ELSE rule.price.read)

\* Amounts of different currencies are never added.
AddCost(costs, currency, amount) ==
  IF currency \in DOMAIN costs THEN [costs EXCEPT ![currency] = @ + amount]
  ELSE [c \in DOMAIN costs \cup {currency} |-> IF c = currency THEN amount ELSE costs[c]]
NoCost == [c \in {} |-> 0]

\* A fetch replaces the fetched rules and no others; an edit names a user's.
StoreRemote(rules, fetched) == {r \in rules : r.source # "remote"} \cup fetched
MayEdit(rules, rule) == rule \in rules /\ rule.source = "user"
SetUserPrice(rules, old, new) ==
  IF old = Unset THEN rules \cup {[new EXCEPT !.source = "user"]}
  ELSE IF MayEdit(rules, old) THEN (rules \ {old}) \cup {[new EXCEPT !.source = "user"]} ELSE rules
RemoveUserPrice(rules, old) == IF MayEdit(rules, old) THEN rules \ {old} ELSE rules

-----------------------------------------------------------------------------
(* The report. *)

Matches(query, r) == (query.provider = Unset \/ r.provider = query.provider)
                     /\ (query.model = Unset \/ r.model = query.model)

ValidQuery(query) == query.from < query.to

\* Days before the first recorded one carry nothing: the series starts there.
FirstDay(rows, since, today) ==
  LET days == {r.day : r \in ToSet(rows)} \cup {since}
      first == CHOOSE d \in days : \A x \in days : d <= x IN
  IF first > today THEN today ELSE first
QueryDays(rows, query, since, today) ==
  LET start == FirstDay(rows, since, today)
      from == IF query.from > start THEN query.from ELSE start
      to == IF query.to - 1 > from + MaxQueryDays THEN from + MaxQueryDays ELSE query.to - 1 IN
  from..to

Within(rows, days) == SelectSeq(rows, LAMBDA r : r.day \in days)
By(rows, Key(_)) == [k \in {Key(r) : r \in ToSet(rows)} |->
                       SumTokens(SelectSeq(rows, LAMBDA r : Key(r) = k))]

\* The offered filters are of all rows of the range, not of those that match.
FilterOptions(rows) ==
  [models |-> {r.model : r \in ToSet(rows)},
   providers |-> {[id |-> r.provider,
                   inferred |-> \E x \in ToSet(rows) : x.provider = r.provider /\ x.inferred > 0]
                    : r \in {y \in ToSet(rows) : y.provider # Unset}}]

IsActive(t) == TotalTokens(t) > 0
\* The longest run of active days, and the one that ends today or yesterday.
LongestStreak(days, daily) ==
  LET runs == {<<a, b>> \in days \X days : a <= b /\ \A d \in a..b : d \in DOMAIN daily /\ IsActive(daily[d])} IN
  IF runs = {} THEN 0 ELSE LET r == CHOOSE x \in runs : \A y \in runs : y[2] - y[1] <= x[2] - x[1] IN r[2] - r[1] + 1
CurrentStreak(calendar, today) ==
  LET active(d) == d \in DOMAIN calendar /\ IsActive(calendar[d])
      last == IF active(today) THEN today ELSE today - 1
      gaps == {d \in (last - CalendarDays)..last : ~active(d)} IN
  last - (CHOOSE d \in gaps : \A x \in gaps : x <= d)

\* The greatest of a function's keys, by value; ties go to the least key.
Peak(f) == IF DOMAIN f = {} THEN Unset
           ELSE CHOOSE k \in DOMAIN f : \A x \in DOMAIN f :
                  f[x] < f[k] \/ (f[x] = f[k] /\ k <= x)

Report(rows, query, rules, fits, since, today) ==
  LET days == QueryDays(rows, query, since, today)
      all == Within(rows, days)
      mine == SelectSeq(all, LAMBDA r : Matches(query, r))
      daily == By(mine, LAMBDA r : r.day)
      dated == Within(SelectSeq(rows, LAMBDA r : Matches(query, r)), (today - CalendarDays + 1)..today)
      price(r) == BestPrice(rules, r.provider, fits[r.model]) IN
  [days |-> days, summary |-> SumTokens(mine),
   daily |-> [d \in days |-> IF d \in DOMAIN daily THEN daily[d] ELSE Zero],
   hourly |-> By(mine, LAMBDA r : r.hour),
   providers |-> By(mine, LAMBDA r : r.provider),
   models |-> By(mine, LAMBDA r : r.model),
   \* each model's series is cut to the last days, so that it fits a frame
   series |-> By(SelectSeq(mine, LAMBDA r : \A d \in days : d - r.day < SeriesDays), LAMBDA r : <<r.model, r.day>>),
   cost |-> FoldLeft(LAMBDA c, r : IF price(r) = Unset THEN c
                       ELSE AddCost(c, price(r).currency, Cost(price(r), r.tokens)), NoCost, mine),
   unpriced |-> TotalTokens(SumTokens(SelectSeq(mine, LAMBDA r : price(r) = Unset))),
   filters |-> FilterOptions(all),
   longest |-> LongestStreak(days, daily),
   current |-> CurrentStreak(By(dated, LAMBDA r : r.day), today),
   calendar |-> By(dated, LAMBDA r : r.day),
   \* the hour of the day with the most tokens
   peakHour |-> LET hours == By(mine, LAMBDA r : r.hour) IN
                Peak([h \in {x \in DOMAIN hours : IsActive(hours[x])} |-> TotalTokens(hours[h])]),
   busiest |-> Peak([d \in {x \in DOMAIN daily : IsActive(daily[x])} |-> TotalTokens(daily[d])])]

-----------------------------------------------------------------------------
SumOf(f) == FoldSet(LAMBDA k, t : AddTokens(f[k], t), Zero, DOMAIN f)

AddsUp(r, rows, query, today) ==
  /\ \A f \in {r.daily, r.hourly, r.providers, r.models} : SumOf(f) = r.summary
  /\ r.unpriced <= TotalTokens(r.summary)
  /\ query.from <= 0 /\ query.to > today => r.current <= r.longest
  /\ r.busiest # Unset => TotalTokens(r.daily[r.busiest]) * Cardinality(r.days) >= TotalTokens(r.summary)
  /\ rows # <<>> /\ query = [from |-> 0, to |-> today + 1, provider |-> Unset, model |-> Unset]
       /\ Cardinality(r.days) <= MaxQueryDays => r.summary = SumTokens(rows)

\* Every breakdown of a report adds up to its summary, and a streak that is
\* still running is no longer than the longest one of a range that holds it.
ReportAddsUp(rows, query, rules, fits, since, today) ==
  ValidQuery(query) => AddsUp(Report(rows, query, rules, fits, since, today), rows, query, today)

\* A rule of the user's that applies wins over those that came with the
\* release or were fetched, and survives every fetch.
Users(rules) == {r \in rules : r.source = "user"}
UserPriceWins(rules, fetched, provider, fits) ==
  LET kept == StoreRemote(rules, fetched)
      users == {r \in Users(rules) : Specificity(r, provider, fits) # <<>>} IN
  users # {} => BestPrice(kept, provider, fits) \in users

\* Whatever rule an edit or a removal names, the rules that came with the release or
\* were fetched stay; a rule that was edited is the user's and in effect.
EditsKeepTheRest(rules, old, new, provider, fits) ==
  LET set == SetUserPrice(rules, old, new)
      mine == [new EXCEPT !.source = "user"] IN
  /\ rules \ Users(rules) = set \ Users(set)
  /\ rules \ RemoveUserPrice(rules, old) \subseteq {old} \cap Users(rules)
  /\ set # rules /\ Specificity(mine, provider, fits) # <<>>
       => BestPrice(set, provider, fits) \in Users(set)

\* No token of an answer is counted twice: what the cache read and wrote is within the
\* input, unless the answer counts more there than it has.
AnswerIsCountedOnce(u) ==
  TotalTokens(OpenAiTokens(u))
    = u.out + (IF u.total > u.cached + u.written THEN u.total ELSE u.cached + u.written)

\* The differences of a session's totals add up to what it spent, however
\* often its count starts again.
DifferencesAddUp(totals) ==
  LET resets == {i \in 1..(Len(totals) - 1) : \E c \in Counts : totals[i + 1][c] < totals[i][c]} IN
  FoldLeft(AddTokens, Zero, Differences(totals))
    = FoldSet(LAMBDA i, t : AddTokens(totals[i], t), Zero,
              IF totals = <<>> THEN {} ELSE resets \cup {Len(totals)})
=============================================================================
