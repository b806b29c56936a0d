--------------------------- MODULE ClaudeMapping ---------------------------
(***************************************************************************)
(* The model variables of Claude Code's settings.  A provider may map the  *)
(* tiers of Claude Code to its own models: hsind then writes variables of  *)
(* settings.json that the user may have set, keeps what they held in a     *)
(* setting of its own, and gives it back when the mapping is left.  The    *)
(* labels shown for the models can be left to the user on their own.  A    *)
(* write is a job of several steps, recovered after a crash.               *)
(***************************************************************************)
EXTENDS Naturals, FiniteSets

CONSTANTS RouteKeys, NameKeys, \* the variables that route; those that label
          LegacyKeys,          \* those an older hsin knew
          UserValues, Unset,
          Mappings,            \* [Keys -> values of the provider's models]
          Inert,               \* a provider that maps nothing
          NoSnapshot, NoTarget,
          MapJobs, MapEdits, MapFaults \* bounds

Keys == RouteKeys \cup NameKeys
\* What hsin may have written, and what a variable may hold.
Written == (UNION {{m[k] : k \in Keys} : m \in Mappings}) \ {Unset}
OfUser == [Keys -> UserValues \cup {Unset}]
EnvValues == UserValues \cup Written \cup {Unset}

\* ClaudeModelEnvSnapshot, and the target of a write.
EnvSnapshots == [covered : SUBSET Keys, values : [Keys -> EnvValues]]
WriteTargets == [mapping : Mappings \cup {Inert}, before : EnvSnapshots \cup {NoSnapshot},
                 update : {"keep", "on", "off"}, names : BOOLEAN]

\* A value tells who wrote it: the user's are none of the providers' models.
ASSUME MappingConstants ==
  /\ LegacyKeys \subseteq RouteKeys /\ Inert \notin Mappings
  /\ UserValues \cap Written = {}
  /\ NoSnapshot \notin EnvSnapshots /\ NoTarget \notin WriteTargets

VARIABLES env,      \* the variables of settings.json
          mine,     \* ghost: what the user last wanted of each
          inScope,     \* the variables in hsind's scope (ManagedScope)
          kept,     \* the snapshot of the user's values (claude_model_env_before)
          names,    \* the setting: hsind writes the labels
          mapping,  \* of the active provider
          pending,  \* the target of the operation in the journal
          work,     \* the job: its step, and the variables it compared
          mapBudget
mapVars == <<env, mine, inScope, kept, names, mapping, pending, work, mapBudget>>

Resting == [pc |-> "idle", target |-> NoTarget, seen |-> [k \in Keys |-> Unset]]

\* What hsind finds: nothing of its own, or a mapping an older hsin wrote, whose
\* snapshot covers the variables that one knew.
MappingInit ==
  /\ mine \in OfUser /\ names \in BOOLEAN
  /\ \/ env = mine /\ inScope = {} /\ kept = NoSnapshot /\ mapping = Inert
     \/ /\ mapping \in Mappings /\ inScope = LegacyKeys /\ names
        /\ env = [k \in Keys |-> IF k \in LegacyKeys THEN mapping[k] ELSE mine[k]]
        /\ kept = [covered |-> LegacyKeys,
                   values |-> [k \in Keys |-> IF k \in LegacyKeys THEN mine[k] ELSE Unset]]
  /\ pending = NoTarget /\ work = Resting
  /\ mapBudget = [jobs |-> MapJobs, edits |-> MapEdits, faults |-> MapFaults]

\* Mutant: every snapshot is taken anew, with what hsind itself wrote.
Extended_Anew(s, e, refresh) == [covered |-> Keys, values |-> [k \in Keys |-> e[k]]]

\* claude_model_env_snapshot: the variables it does not cover yet are still the
\* user's; the labels are, too, when hsind takes them back.
Extended(s, e, refresh) ==
  LET known == IF s = NoSnapshot THEN {} ELSE s.covered
      fresh == (Keys \ known) \cup (IF refresh THEN NameKeys ELSE {})
  IN [covered |-> Keys, values |-> [k \in Keys |-> IF k \in fresh THEN e[k] ELSE s.values[k]]]

\* claude_model_mapping_transition
Transition(m) == m # Inert \/ kept # NoSnapshot \/ mapping # Inert

\* patch_claude_model_mapping: a variable the mapping does not set is given back.
Patched(e, t) ==
  LET Leaves(k) == k \in NameKeys /\ ~t.names /\ t.update # "off"
      Set(k) == IF t.mapping = Inert \/ (k \in NameKeys /\ ~t.names) THEN Unset ELSE t.mapping[k]
      Kept(k) == IF t.before = NoSnapshot THEN Unset ELSE t.before.values[k]
  IN IF t.mapping = Inert /\ t.before = NoSnapshot THEN e
     ELSE [k \in Keys |-> CASE Leaves(k) -> e[k]
                            [] ~Leaves(k) /\ Set(k) # Unset -> Set(k)
                            [] OTHER -> Kept(k)]

Idle == work.pc = "idle"
Step(pc) == work' = [work EXCEPT !.pc = pc]
Spend(b) == mapBudget[b] > 0 /\ mapBudget' = [mapBudget EXCEPT ![b] = @ - 1]

\* config_target: the snapshot is taken, and stored, before the write is begun.
Prepare(m, update) ==
  LET refresh == update = "on" /\ ~names
      snapshot == IF kept = NoSnapshot \/ kept.covered # Keys \/ refresh
                  THEN Extended(kept, env, refresh) ELSE kept
      before == IF Transition(m) THEN snapshot ELSE NoSnapshot
  IN /\ kept' = IF Transition(m) THEN snapshot ELSE kept
     /\ work' = [Resting EXCEPT !.pc = "prepared",
                   !.target = [mapping |-> m, before |-> before, update |-> update,
                               names |-> IF update = "keep" THEN names ELSE update = "on"]]

\* switch, edit_provider: another mapping becomes the active provider's.
SwitchMapping(m) ==
  /\ Idle /\ Spend("jobs") /\ Prepare(m, "keep")
  /\ UNCHANGED <<env, mine, inScope, names, mapping, pending>>

\* update_settings: who writes the labels changes; without an active mapping
\* nothing is written.
SwitchNames ==
  /\ Idle /\ Spend("jobs")
  /\ IF mapping = Inert
     THEN names' = ~names /\ UNCHANGED <<kept, work>>
     ELSE Prepare(mapping, IF names THEN "off" ELSE "on") /\ UNCHANGED names
  /\ UNCHANGED <<env, mine, inScope, mapping, pending>>

\* The file is compared, the operation enters the journal; or the credential
\* cannot be had, and the job ends before that.
BeginWrite ==
  /\ work.pc = "prepared"
  /\ work' = [work EXCEPT !.pc = "begun", !.seen = env] /\ pending' = work.target
  /\ UNCHANGED <<env, mine, inScope, kept, names, mapping, mapBudget>>
RefuseWrite ==
  /\ work.pc = "prepared" /\ Spend("faults")
  /\ work' = Resting
  /\ UNCHANGED <<env, mine, inScope, kept, names, mapping, pending>>

\* managed_scope: the variables a write of t leaves in hsind's hands.
HeldAfter(t) == IF t.mapping = Inert THEN {} ELSE {k \in Keys : k \in NameKeys => t.names}

WriteVariables ==
  /\ work.pc = "begun" /\ env = work.seen
  /\ env' = Patched(env, work.target) /\ inScope' = HeldAfter(work.target)
  /\ Step("written")
  /\ UNCHANGED <<mine, kept, names, mapping, pending, mapBudget>>
\* A conflict, or the file cannot be written.
WriteRefused ==
  /\ work.pc = "begun"
  /\ IF env = work.seen THEN Spend("faults") ELSE UNCHANGED mapBudget
  /\ work' = Resting /\ pending' = NoTarget
  /\ UNCHANGED <<env, mine, inScope, kept, names, mapping>>

\* set_active, then the setting of the labels, then the snapshot is released.
ActivateMapping ==
  /\ work.pc = "written" /\ mapping' = work.target.mapping /\ Step("active")
  /\ UNCHANGED <<env, mine, inScope, kept, names, pending, mapBudget>>
KeepNames ==
  /\ work.pc = "active" /\ names' = work.target.names /\ Step("named")
  /\ UNCHANGED <<env, mine, inScope, kept, mapping, pending, mapBudget>>
Released(t) == IF t.before # NoSnapshot /\ t.mapping = Inert THEN NoSnapshot ELSE kept
ReleaseSnapshot ==
  /\ work.pc = "named" /\ kept' = Released(work.target) /\ Step("released")
  /\ UNCHANGED <<env, mine, inScope, names, mapping, pending, mapBudget>>
FinishWrite ==
  /\ work.pc = "released" /\ pending' = NoTarget /\ work' = Resting
  /\ UNCHANGED <<env, mine, inScope, kept, names, mapping, mapBudget>>

Crash ==
  /\ work.pc \notin {"idle", "down"} /\ Spend("faults")
  /\ work' = [Resting EXCEPT !.pc = "down", !.seen = work.seen]
  /\ UNCHANGED <<env, mine, inScope, kept, names, mapping, pending>>

\* recover_operation: nothing was begun, or the file is neither the one before
\* nor patched already, or the write is completed.
RecoverWrite ==
  /\ work.pc = "down" /\ work' = Resting /\ pending' = NoTarget
  /\ IF pending = NoTarget \/ (env # work.seen /\ Patched(env, pending) # env)
     THEN UNCHANGED <<env, inScope, kept, names, mapping>>
     ELSE /\ env' = Patched(env, pending) /\ inScope' = HeldAfter(pending)
          /\ mapping' = pending.mapping
          /\ names' = IF pending.update = "keep" THEN names ELSE pending.names
          /\ kept' = Released(pending)
  /\ UNCHANGED <<mine, mapBudget>>

\* The user sets a variable that is not in hsind's hands (one that is, is found
\* by the ownership check).
UserSets ==
  /\ Spend("edits")
  /\ \E k \in Keys \ inScope, v \in UserValues \cup {Unset} :
       /\ env[k] # v
       /\ env' = [env EXCEPT ![k] = v] /\ mine' = [mine EXCEPT ![k] = v]
  /\ UNCHANGED <<inScope, kept, names, mapping, pending, work>>

MappingNext ==
  \/ \E m \in Mappings \cup {Inert} : SwitchMapping(m)
  \/ SwitchNames \/ BeginWrite \/ RefuseWrite \/ WriteVariables \/ WriteRefused
  \/ ActivateMapping \/ KeepNames \/ ReleaseSnapshot \/ FinishWrite
  \/ Crash \/ RecoverWrite \/ UserSets
-----------------------------------------------------------------------------
\* What hsind wrote is never taken for the user's: not in the snapshot, and not
\* left behind in a variable that nothing active sets.
HsinIsNotTheUser ==
  /\ kept # NoSnapshot => \A k \in Keys : kept.values[k] \notin Written
  /\ work.pc = "idle" =>
       \A k \in Keys : env[k] \in Written => mapping # Inert /\ mapping[k] = env[k]

\* A variable hsind does not hold has the value the user gave it last.
UserValuesReturn == work.pc = "idle" => \A k \in Keys \ inScope : env[k] = mine[k]
=============================================================================
