---------------------------- MODULE SettingsText ----------------------------
(***************************************************************************)
(* How hsind edits a JSON file with comments in place: Claude Code's       *)
(* settings.json and Codex's auth.json.  A text is a sequence of tokens:   *)
(* brackets, separators, strings, runs of blanks ("_"), line ends ("n"),   *)
(* block comments ("/*") and line comments ("//", up to the line end).     *)
(* The editor works on positions and never rewrites what it does not own.  *)
(***************************************************************************)
EXTENDS Naturals, Sequences, SequencesExt, FiniteSetsExt

CONSTANTS Strings, Absent \* the string tokens; no property

Blanks == {"_"}
Whitespace == {"_", "n"}
Comments == {"/*", "//"}
Trivia == Whitespace \cup Comments

TokenAt(t, i) == IF i \in DOMAIN t THEN t[i] ELSE "end"
Upto(t, i) == SubSeq(t, 1, i - 1)
From(t, i) == SubSeq(t, i, Len(t))
First(t, i, Holds(_)) == Min({j \in i..Len(t) + 1 : j = Len(t) + 1 \/ Holds(t[j])})
SkipTrivia(t, i) == First(t, i, LAMBDA c : c \notin Trivia)
SkipBlanks(t, i) == First(t, i, LAMBDA c : c \notin Blanks)
\* The position after the whitespace that ends before i, but not before low.
BackOverSpace(t, low, i) ==
  Max({low} \cup {j \in low..i : j > 1 /\ t[j - 1] \notin Whitespace})
LineStart(t, i) == Max({1} \cup {j + 1 : j \in {k \in 1..(i - 1) : t[k] = "n"}})
AllIn(t, a, b, S) == \A j \in a..(b - 1) : t[j] \in S
Count(t, a, b, c) == Cardinality({j \in a..b : t[j] = c})

\* find_matching, read_value_end: the end of a value is the position after it.
Depth(t, a, b) == Count(t, a, b, "{") - Count(t, a, b, "}")
Closing(t, a) == Min({j \in a..Len(t) : Depth(t, a, j) = 0})
ValueEnd(t, i) == IF TokenAt(t, i) = "{" THEN Closing(t, i) + 1 ELSE i + 1

\* An object is the positions of its brackets.
Object(t, i) == [start |-> i, end |-> Closing(t, i)]
RootOf(t) == Object(t, SkipTrivia(t, 1))

\* find_direct_property, object_tail: the properties of an object itself, in order.
NamesIn(t, r) ==
  {p \in r.start + 1 .. r.end - 1 :
     t[p] \in Strings /\ Depth(t, r.start, p) = 1 /\ TokenAt(t, SkipTrivia(t, p + 1)) = ":"}
Property(t, p) ==
  LET v == SkipTrivia(t, SkipTrivia(t, p + 1) + 1)
  IN [start |-> p, value |-> v, end |-> ValueEnd(t, v)]
Has(t, r, name) == \E p \in NamesIn(t, r) : t[p] = name
Find(t, r, name) == Property(t, Min({p \in NamesIn(t, r) : t[p] = name}))

\* child_indent: what stands before the first property of the object on its line,
\* else the parent's with one blank more.
ChildIndent(t, r) ==
  LET first == SkipTrivia(t, r.start + 1)
      line == LineStart(t, first)
  IN IF first < r.end /\ line > r.start THEN SubSeq(t, line, first - 1)
     ELSE SubSeq(t, LineStart(t, r.start), r.start - 1) \o <<"_">>
ParentIndent(indent) ==
  IF indent # <<>> /\ Last(indent) = "_" THEN Front(indent) ELSE <<>>

\* repair_owned_property_layout: blank lines before a first property go, and so
\* does a line end before its comma.
Repair(t, start, name) ==
  LET Tidy(x) ==
        LET r == Object(x, start)
            p == Find(x, r, name)
            between == SubSeq(x, start + 1, p.start - 1)
        IN IF AllIn(x, start + 1, p.start, Whitespace) /\ Count(x, start + 1, p.start - 1, "n") > 1
           THEN Upto(x, start + 1) \o <<"n">> \o ChildIndent(x, r) \o From(x, p.start) ELSE x
      Join(x) ==
        LET r == Object(x, start)
            p == Find(x, r, name)
            comma == First(x, p.end, LAMBDA c : c \notin Whitespace)
            next == First(x, comma + 1, LAMBDA c : c \notin Whitespace)
            line == LineStart(x, next)
            indent == IF AllIn(x, line, next, Blanks) THEN SubSeq(x, line, next - 1) ELSE ChildIndent(x, r)
        IN IF Count(x, p.end, comma - 1, "n") > 0 /\ TokenAt(x, comma) = "," /\ TokenAt(x, next) \in Strings
           THEN Upto(x, p.end) \o <<",", "n">> \o indent \o From(x, next) ELSE x
      Close(x) ==
        LET r == Object(x, start)
        IN IF Find(x, r, name).end = r.end /\ Count(x, start, r.end - 1, "n") > 0
           THEN Upto(x, r.end) \o <<"n">> \o ParentIndent(ChildIndent(x, r)) \o From(x, r.end) ELSE x
  IN Close(Join(Tidy(t)))

\* remove_property: with its line when it has one of its own, and with one comma.
RemoveProperty(t, r, p) ==
  LET line == LineStart(t, p.start)
      stop == SkipBlanks(t, p.end)
      comma == TokenAt(t, stop) = ","
      after == IF comma THEN SkipBlanks(t, stop + 1) ELSE stop
      own == line > r.start /\ AllIn(t, line, p.start, Blanks) /\ TokenAt(t, after) = "n"
      back == BackOverSpace(t, r.start + 1, IF own THEN line ELSE p.start)
      precedes == back > r.start + 1 /\ t[back - 1] = ","
      next == SkipTrivia(t, p.end)
  IN CASE own /\ (comma \/ ~precedes) -> Upto(t, line) \o From(t, after + 1)
       [] own /\ ~comma /\ precedes ->
            Upto(t, back - 1) \o SubSeq(t, back, line - 1) \o From(t, after + 1)
       [] ~own /\ precedes -> Upto(t, back - 1) \o From(t, p.end)
       [] OTHER -> Upto(t, p.start) \o From(t, IF TokenAt(t, next) = "," THEN next + 1 ELSE next)

\* set_object_raw: a property is replaced where it stands, or added last.
AddLast(t, r, name, raw) ==
  LET indent == ChildIndent(t, r)
      line == <<name, ":", "_">> \o raw
      closing == LineStart(t, r.end)
      ownLine == closing > r.start /\ AllIn(t, closing, r.end, Blanks)
      offset == IF ownLine THEN closing ELSE r.end
      insertion == IF ownLine THEN indent \o line \o <<"n">>
                   ELSE <<"n">> \o indent \o line \o <<"n">> \o ParentIndent(indent)
      tail == Property(t, Max(NamesIn(t, r))).end
      comma == IF TokenAt(t, SkipTrivia(t, tail)) = "," THEN <<>> ELSE <<",">>
  IN IF AllIn(t, r.start + 1, r.end, Whitespace)
     THEN Upto(t, r.start + 1) \o <<"n">> \o indent \o line \o <<"n">> \o ParentIndent(indent) \o From(t, r.end)
     ELSE IF NamesIn(t, r) = {} THEN Upto(t, offset) \o insertion \o From(t, offset)
     ELSE Upto(t, tail) \o comma \o SubSeq(t, tail, offset - 1) \o insertion \o From(t, offset)

SetIn(t, r, name, raw) ==
  IF Has(t, r, name)
  THEN LET p == Find(t, r, name)
       IN IF raw = Absent THEN RemoveProperty(t, r, p)
          ELSE Repair(Upto(t, p.value) \o raw \o From(t, p.end), r.start, name)
  ELSE IF raw = Absent THEN t ELSE AddLast(t, r, name, raw)

Quoted(v) == IF v = Absent THEN Absent ELSE <<v>>
SetRoot(t, name, v) == SetIn(t, RootOf(t), name, Quoted(v))
\* set_nested_string
SetNested(t, object, name, v) ==
  IF Has(t, RootOf(t), object)
  THEN SetIn(t, Object(t, Find(t, RootOf(t), object).value), name, Quoted(v))
  ELSE IF v = Absent THEN t
  ELSE SetIn(t, RootOf(t), object, <<"{", "n", "_", "_", name, ":", "_", v, "n", "_", "}">>)
-----------------------------------------------------------------------------
(***************************************************************************)
(* What a text says, and what must become of it.                           *)
(***************************************************************************)

\* validate_jsonc: each token that means something may follow the one before it.
Meaning(t) == SelectSeq(t, LAMBDA c : c \notin Trivia)
Follows(m, i) ==
  LET Key(j) == m[j] \in Strings /\ TokenAt(m, j + 1) = ":"
      Ends(j) == m[j] = "}" \/ (m[j] \in Strings /\ ~Key(j))
  IN CASE m[i] = "{" -> Key(i + 1) \/ m[i + 1] = "}"
       [] m[i] = ":" -> m[i + 1] = "{" \/ (m[i + 1] \in Strings /\ ~Key(i + 1))
       [] m[i] = "," -> Key(i + 1) \/ m[i + 1] = "}"
       [] Ends(i) -> m[i + 1] \in {",", "}"}
       [] OTHER -> m[i + 1] = ":"
Valid(t) ==
  LET m == Meaning(t)
  IN /\ Len(m) > 1 /\ m[1] = "{" /\ m[Len(m)] = "}"
     /\ Depth(m, 1, Len(m)) = 0 /\ \A i \in 1..Len(m) - 1 : Depth(m, 1, i) > 0 /\ Follows(m, i)

\* The members of an object: a string, or the members of an object in it.
Says(t, r) ==
  [name \in {t[p] : p \in NamesIn(t, r)} |->
     LET v == Find(t, r, name).value IN IF t[v] = "{" THEN "{}" ELSE t[v]]
Members(t) == Says(t, RootOf(t))
Inner(t, object) ==
  IF Has(t, RootOf(t), object) THEN Says(t, Object(t, Find(t, RootOf(t), object).value)) ELSE <<>>
Updated(f, name, v) ==
  [x \in (IF v = Absent THEN DOMAIN f \ {name} ELSE DOMAIN f \cup {name}) |->
     IF x = name THEN v ELSE f[x]]
Order(t, without) == SelectSeq(Meaning(t), LAMBDA c : c \in without)

\* A line that starts with a comma.
CommaFirst(t) == \E j \in DOMAIN t : t[j] = "," /\ AllIn(t, LineStart(t, j), j, Blanks) /\ LineStart(t, j) > 1

\* No property, or the first one does not start a line.
Hanging(t, r) ==
  LET first == SkipTrivia(t, r.start + 1) IN first >= r.end \/ LineStart(t, first) <= r.start

\* What the edited text says, and what it says when it is edited again.
ExactEdit(t, after, object, name, v, others) ==
  /\ Inner(after, object) = (IF Has(t, RootOf(t), object) \/ v # Absent
                             THEN Updated(Inner(t, object), name, v) ELSE <<>>)
  /\ \A x \in DOMAIN Members(t) : Members(after)[x] = Members(t)[x]
  /\ Order(after, others) = Order(t, others)
  /\ SetNested(after, object, name, v) = after
RefusedEdit(t, object, v) ==
  \/ CommaFirst(t)
  \/ v # Absent /\ Has(t, RootOf(t), object) /\ Hanging(t, Object(t, Find(t, RootOf(t), object).value))
ExactOrRefused(t, after, object, name, v, others) ==
  IF Valid(after) THEN ExactEdit(t, after, object, name, v, others) ELSE RefusedEdit(t, object, v)

\* Setting or removing one property of the nested object changes that property,
\* nothing else, and not the order of what is not hsin's; doing it again changes
\* nothing.  The edit is refused (validate_jsonc) at most where a comma starts a line
\* or the object has no property that starts on a line of its own.
EditIsExact(t, object, name, v, others) ==
  ExactOrRefused(t, SetNested(t, object, name, v), object, name, v, others)

\* The same for a property of the whole document.
RootEditIsExact(t, name, v, others) ==
  LET after == SetRoot(t, name, v)
  IN IF Valid(after)
     THEN /\ Members(after) = Updated(Members(t), name, v)
          /\ Order(after, others) = Order(t, others)
          /\ SetRoot(after, name, v) = after
     ELSE CommaFirst(t) \/ (v # Absent /\ Hanging(t, RootOf(t)))

\* A text that is valid stays valid: no change of one property of ours is refused.
EditSucceeds(t, object, name, v) == Valid(t) => Valid(SetNested(t, object, name, v))
=============================================================================
