------------------------------ MODULE MCStores ------------------------------
(***************************************************************************)
(* Small instances for TLC of what the daemon keeps: official accounts and *)
(* their switch, the adoption of a legacy configuration, and what the      *)
(* clients spent.                                                          *)
(* They share no state in these models: each is checked while the others   *)
(* rest.  What is computed by one call is compared, for every input of a   *)
(* small set, with what it should be.                                      *)
(***************************************************************************)
EXTENDS OfficialSwitch, LegacyClaim,
        Usage, UsageObserver, UsageQuota, UsageReport, TLC

CONSTANTS s1, s2, s3, alice, bob, r1, r2, m1, m2, p1

VARIABLES part,  \* the one that runs
          input  \* what its call is given
accountVars == <<switchVars, legacyVars>>
vars == <<accountVars, usageVars, part, input>>

\* Alice may log in twice.
Owners == (s1 :> alice) @@ (s2 :> bob) @@ (s3 :> alice)

\* Every event once, four of them in one history.
MixedBudget == [switch |-> 2, restart |-> 1, fail |-> 1, login |-> 1,
                explicit |-> 1, remove |-> 1, any |-> 4]

\* No crash and no failure: one login, then switches to and fro.
QuietBudget == [switch |-> 3, restart |-> 0, fail |-> 0, login |-> 0,
                explicit |-> 1, remove |-> 0, any |-> 4]

\* The first request was logged before hsind started; the second one passes
\* the proxy, and is for another model.
ModelsOf == (r1 :> m1) @@ (r2 :> m2)

Frame(type, i, o, stop) == [type |-> type, tokens |-> [input |-> i, output |-> o], stop |-> stop]
Frames == {Frame("message_start", 2, 0, FALSE), Frame("message_delta", 0, 1, FALSE),
           Frame("message_delta", 0, 2, TRUE), Frame("message_stop", 0, 0, FALSE),
           Frame("response.completed", 1, 1, FALSE), Frame("[DONE]", 0, 0, FALSE),
           Frame("other", 0, 0, FALSE)}
Streams == [client : {"claude", "codex"}, sse : BOOLEAN, frames : SeqOf(Frames, 3), cuts : SUBSET {1, 2, 4}]

Meters == [allowance : {3, 7, 40, 90, 130}, spent : UNION {[1..n -> {0, 1, 9}] : n \in 2..4},
           lag : SUBSET {2, 3, 4}]

Tokens(i, r, o) == [c \in Counts |-> CASE c = "input" -> i [] c = "read" -> r [] c = "output" -> o [] OTHER -> 0]
Row(d, h, p, m) == [day |-> d, hour |-> h, provider |-> p, model |-> m,
                    tokens |-> Tokens(d, h, 1), inferred |-> h]
Rows == {Row(d, d % 2, p, m) : d \in 1..3, p \in {Unset, p1}, m \in {m1, m2}}
Rule(pattern, provider, source, cost) ==
  [pattern |-> pattern, provider |-> provider, source |-> source, currency |-> IF cost = 1 THEN "USD" ELSE "CNY",
   price |-> [input |-> cost, output |-> 2 * cost, write |-> Unset, read |-> 1]]
Rules == {Rule("all*", Unset, "builtin", 1), Rule("m1", Unset, "builtin", 2), Rule("m1", Unset, "remote", 1),
          Rule("all*", Unset, "user", 2), Rule("all*", p1, "user", 1)}
Fits == (m1 :> [x \in {"all*", "m1"} |-> IF x = "m1" THEN Exact ELSE 3])
        @@ (m2 :> [x \in {"all*", "m1"} |-> IF x = "m1" THEN -1 ELSE 3])
Queries == [rows : SeqOf(Rows, 2),
            query : [from : 0..2, to : {1, 4}, provider : {Unset, p1}, model : {Unset, m2}],
            rules : {{}, Rules}]
Prices == [rules : SUBSET Rules, fetched : {{}, {Rule("m1", Unset, "remote", 2)}},
           provider : {Unset, p1}, model : {m1, m2}]
NewRules == {Rule(m, p, "remote", 2) : m \in {"all*", "m1"}, p \in {Unset, p1}}
Totals == UNION {[1..n -> {Tokens(i, r, 0) : i, r \in 0..2}] : n \in 0..4}

Inputs == [switch |-> {Unset}, legacy |-> {Unset}, usage |-> {Unset},
           observer |-> Streams, quota |-> Meters, report |-> Queries, prices |-> Prices,
           totals |-> Totals, answers |-> [total : 0..3, cached : 0..3, written : 0..3, out : 0..1]]

LegacyRests ==
  /\ legacy = [client |-> "claude", journal |-> FALSE, matches |-> FALSE,
               pendingOp |-> FALSE, snapshot |-> TRUE, unlocked |-> TRUE,
               manages |-> FALSE]
  /\ files = [config |-> "native", auth |-> "other"] /\ backup = "none"
SwitchRests == backend = "codex_file" /\ disk.file = NoCred

UsageRests == client = "claude" /\ meta.started = -1

InitOf(parts) ==
  /\ part \in parts
  /\ LegacyInit /\ (part = "legacy" \/ LegacyRests)
  /\ SwitchInit /\ (part = "switch" \/ SwitchRests)
  /\ UsageInit /\ (part = "usage" \/ UsageRests)
  /\ input \in Inputs[part]

Next ==
  \/ /\ part = "switch" /\ SwitchNext
     /\ UNCHANGED <<legacyVars, usageVars, part, input>>
  \/ /\ part = "legacy" /\ LegacyNext
     /\ UNCHANGED <<switchVars, usageVars, part, input>>
  \/ part = "usage" /\ UsageNext /\ UNCHANGED <<accountVars, part, input>>

StoresSpec == InitOf(DOMAIN Inputs) /\ [][Next]_vars
SwitchSpec == InitOf({"switch"}) /\ [][Next]_vars
CollectionSpec == InitOf({"usage"}) /\ [][Next]_vars

\* A stream is counted once however it was cut.
StreamsAreCounted ==
  part = "observer" => CountedHoweverCut(input.client, input.sse, input.frames, input.cuts)

\* The allowance of a plan lies within the range shown for it.
AllowancesAreInRange ==
  part = "quota" => AllowanceIsInRange(input.allowance, input.spent, input.lag)

\* What a report shows adds up, at the user's prices, totals that start again are
\* counted in full, and an answer once.
ReportsAddUp ==
  /\ part = "report" => ReportAddsUp(input.rows, input.query, input.rules, Fits, 1, 3)
  /\ part = "prices" =>
       /\ UserPriceWins(input.rules, input.fetched, input.provider, Fits[input.model])
       /\ \A old \in Rules \cup {Unset}, new \in NewRules :
            EditsKeepTheRest(input.rules, old, new, input.provider, Fits[input.model])
  /\ part = "answers" => AnswerIsCountedOnce(input)
  /\ part = "totals" => DifferencesAddUp(input)

\* No step replaces what somebody else wrote: a switch what is recorded as its own
\* before or after, a claim the record of another instance.
NothingForeignIsReplaced == PeerRecordIsKept /\ ReplacesOnlyRecorded

\* What is computed from the counts agrees with them.
UsageAddsUp == StreamsAreCounted /\ AllowancesAreInRange /\ ReportsAddUp
=============================================================================
