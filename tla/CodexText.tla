------------------------------ MODULE CodexText ------------------------------
(***************************************************************************)
(* How hsind edits Codex's config.toml in place.  A text is a sequence of  *)
(* lines: a key with its value, the header of a table, a comment or a      *)
(* blank line.  hsin owns the selector model_provider, the table           *)
(* model_providers.hsin with what is below it, and the keys a provider     *)
(* tunes; every other line stays where it is.                              *)
(***************************************************************************)
EXTENDS Naturals, Sequences, SequencesExt, FiniteSetsExt

CONSTANTS HsinTables, \* the paths of the hsin table and of the tables below it
          NoText     \* no text: the edit is an error

KeyLine(name, value) == [kind |-> "key", name |-> name, value |-> value]
Header(path) == [kind |-> "table", name |-> path, value |-> path]
Note(text) == [kind |-> "note", name |-> text, value |-> text]
Blank == [kind |-> "blank", name |-> "", value |-> ""]

Headers(t) == {i \in DOMAIN t : t[i].kind = "table"}
HeaderOf(t, i) == Max({0} \cup {h \in Headers(t) : h <= i})
\* The place of a key of the document itself (0: none), or of a table.
PlaceOf(t, name, path) ==
  Max({0} \cup {i \in DOMAIN t : /\ t[i].kind = "key" /\ t[i].name = name
                                 /\ IF path = "" THEN HeaderOf(t, i) = 0
                                    ELSE HeaderOf(t, i) > 0 /\ t[HeaderOf(t, i)].name = path})
Replace(t, i, line) == [t EXCEPT ![i] = line]
Cut(t, S) == LET Keep(i) == i \notin S IN [k \in 1..Cardinality({i \in DOMAIN t : Keep(i)}) |->
               t[CHOOSE i \in DOMAIN t : Keep(i) /\ Cardinality({j \in 1..i : Keep(j)}) = k]]

\* top_level_property_insertion: before the first table.
InsertTop(t, line) ==
  LET at == Min({Len(t) + 1} \cup Headers(t))
  IN SubSeq(t, 1, at - 1) \o <<line>> \o SubSeq(t, at, Len(t))

\* patch_codex_top_level
NoValue == "none"
SetTop(t, name, value) ==
  LET i == PlaceOf(t, name, "")
  IN CASE i > 0 /\ value # NoValue -> Replace(t, i, KeyLine(name, value))
       [] i > 0 /\ value = NoValue -> Cut(t, {i})
       [] i = 0 /\ value # NoValue -> InsertTop(t, KeyLine(name, value))
       [] OTHER -> t

\* patch_codex_tuning: an enabled context writes both limits, an empty one removes
\* its key; an effort that is not to be modified leaves its key.
Tuned(t, tuning) ==
  LET limits == IF tuning.context
                THEN SetTop(SetTop(t, "window", tuning.window), "compact", tuning.compact) ELSE t
  IN IF tuning.effort = NoValue THEN limits ELSE SetTop(limits, "effort", tuning.effort)

\* collect_explicit_table_ranges: a table reaches to its last key.
TableEnd(t, h) == Max({h} \cup {i \in DOMAIN t : HeaderOf(t, i) = h /\ t[i].kind = "key"})
Owned(t) == {h \in Headers(t) : t[h].name \in HsinTables}
\* Mutant: whatever stands between two of hsin's tables goes with them.
Lines_Between(t) ==
  LET own == UNION {h..TableEnd(t, h) : h \in Owned(t)}
  IN {i \in DOMAIN t : \E a, b \in own : a <= i /\ i <= b}

\* merge_whitespace_separated_ranges: blank lines between two ranges go with them.
Lines(t) ==
  LET own == UNION {h..TableEnd(t, h) : h \in Owned(t)}
  IN own \cup {i \in DOMAIN t : \E a, b \in own : a < i /\ i < b /\ \A j \in (a + 1)..(b - 1) : t[j] = Blank}

\* append_toml_table: after a blank line.
Append_(t, block) == t \o (IF t = <<>> \/ Last(t) = Blank THEN <<>> ELSE <<Blank>>) \o block

\* codex_provider_block, codex_provider_inline: entry holds the fields of the table.
Block(entry) ==
  <<Header("hsin")>> \o entry.keys
  \o (IF entry.auth = <<>> THEN <<>> ELSE <<Blank, Header("hsin.auth")>> \o entry.auth)

\* The forms of model_providers: tables, keys with dots, a value of one line.
InlineAll(t) == PlaceOf(t, "model_providers", "") > 0
Dotted(t) == PlaceOf(t, "model_providers.hsin.name", "") > 0
InlineHsin(t) == PlaceOf(t, "hsin", "model_providers")

PatchProvider(t, entry) ==
  LET gone == Cut(t, Lines(t))
      first == Min(Lines(t))
  IN CASE InlineAll(t) \/ Dotted(t) -> NoText
       [] InlineHsin(t) > 0 -> Replace(t, InlineHsin(t), KeyLine("hsin", entry))
       [] Owned(t) # {} -> SubSeq(gone, 1, first - 1) \o Block(entry) \o SubSeq(gone, first, Len(gone))
       [] OTHER -> Append_(t, Block(entry))

\* patch_codex_with_credential of a provider
PatchCodex(t, p) ==
  LET model == IF p.model = NoValue THEN t ELSE SetTop(t, "model", p.model)
      provider == PatchProvider(SetTop(model, "model_provider", "hsin"), p.entry)
  IN IF provider = NoText THEN NoText ELSE Tuned(provider, p.tuning)

\* remove_codex_hsin_configuration; a saved account also selects Codex's own provider.
RemoveHsin(t) ==
  LET selector == PlaceOf(t, "model_provider", "")
      ours == IF selector > 0 /\ t[selector].value = "hsin" THEN {selector} ELSE {}
      inline == IF InlineHsin(t) > 0 THEN {InlineHsin(t)} ELSE {}
  IN Cut(t, ours \cup inline \cup Lines(t))
PatchOfficial(t, saved, tuning) ==
  LET native == RemoveHsin(t)
      selector == PlaceOf(native, "model_provider", "")
  IN Tuned(IF saved /\ selector > 0 THEN Replace(native, selector, KeyLine("model_provider", "openai"))
           ELSE native, tuning)
-----------------------------------------------------------------------------
\* What a text says: the keys of the document and of each table.
TableNames(t) == {t[h].name : h \in Headers(t)}
KeysIn(t, path) ==
  [k \in {t[i].name : i \in {j \in DOMAIN t : t[j].kind = "key"
                                /\ PlaceOf(t, t[j].name, path) > 0}} |-> t[PlaceOf(t, k, path)].value]
With(f, k, v) ==
  [x \in (IF v = NoValue THEN DOMAIN f \ {k} ELSE DOMAIN f \cup {k}) |-> IF x = k THEN v ELSE f[x]]
TopAfter(t, p) ==
  LET model == IF p.model = NoValue THEN KeysIn(t, "") ELSE With(KeysIn(t, ""), "model", p.model)
      selected == With(model, "model_provider", "hsin")
      limits == IF p.tuning.context
                THEN With(With(selected, "window", p.tuning.window), "compact", p.tuning.compact)
                ELSE selected
  IN IF p.tuning.effort = NoValue THEN limits ELSE With(limits, "effort", p.tuning.effort)

\* What is the user's: the lines that are not hsin's, but for blank ones.
Theirs(t, names) ==
  SelectSeq(Cut(t, Lines(t)), LAMBDA l : l # Blank /\ ~(l.kind = "key" /\ l.name \in names))

\* What the patched text says, and what is left when hsin's lines are removed from it.
Left(t, native, names) ==
  /\ Owned(native) = {} /\ InlineHsin(native) = 0 /\ PlaceOf(native, "model_provider", "") = 0
  /\ Theirs(native, names) = Theirs(t, names)
ExactPatch(t, after, p, names) ==
  after # NoText =>
    /\ KeysIn(after, "") = TopAfter(t, p)
    /\ \A path \in TableNames(t) \ (HsinTables \cup {"model_providers"}) :
         KeysIn(after, path) = KeysIn(t, path)
    /\ Theirs(after, names) = Theirs(t, names)
    /\ PatchCodex(after, p) = after
    /\ Left(t, RemoveHsin(after), names)

\* Selecting a provider says what the provider asks for and nothing else, keeps every
\* line of the user and its place among the others, and changes nothing when repeated;
\* leaving it takes hsin's lines away again.
PatchIsExact(t, p, names) == ExactPatch(t, PatchCodex(t, p), p, names)

\* Selecting the official provider takes hsin's lines away and the selector of any
\* other provider where the account is a saved one; it leaves the user's lines alone,
\* and changes nothing when repeated.
OfficialIsExact(t, saved, tuning, names) ==
  LET native == PatchOfficial(t, saved, tuning)
      selected == PlaceOf(native, "model_provider", "")
  IN /\ Owned(native) = {} /\ InlineHsin(native) = 0
     /\ selected > 0 => native[selected].value # "hsin" /\ (saved => native[selected].value = "openai")
     /\ Theirs(native, names) = Theirs(t, names)
     /\ PatchOfficial(native, saved, tuning) = native
=============================================================================
