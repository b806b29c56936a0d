---------------------------- MODULE ClientFiles ----------------------------
(***************************************************************************)
(* What hsind writes into the clients' own files for a target (a provider, *)
(* a mode and the authentication settings), and what it reads back from    *)
(* them: the provider in use, whether hsin managed the file, whether it is *)
(* the user's own again, and the projection it fingerprints.  Fields that  *)
(* are not set are None.                                                   *)
(***************************************************************************)
EXTENDS Naturals, FiniteSets

CONSTANT None
Managed == "HSIN_MANAGED_KEY"
RealKey == "key"  \* the provider's secret

\* config_target_with_overrides: how a Codex client authenticates, from the
\* settings and from what a request changes.
Authentication(settings, disable, preserve) ==
  LET d == IF disable = "keep" THEN settings.disable ELSE disable = "on"
      p == IF preserve = "keep" THEN settings.preserve ELSE preserve = "on"
  IN CASE preserve = "on" -> [disable |-> FALSE, preserve |-> p]
       [] preserve # "on" /\ disable = "on" -> [disable |-> d, preserve |-> FALSE]
       [] OTHER -> [disable |-> d /\ ~p, preserve |-> p]

\* switch_provider's check: which schemes a client takes without the proxy.
SchemeFits(t) ==
  IF t.mode = "proxy" THEN t.scheme # "oauth"
  ELSE t.scheme \in (IF t.client = "codex" THEN {"bearer", "oauth"} ELSE {"x_api_key", "oauth"})

ConfiguredKey(t) == IF t.mode = "proxy" THEN Managed ELSE RealKey
BaseUrl(t) == IF t.mode = "proxy" THEN "proxy" ELSE "upstream"

\* patch_claude_credentials
ClaudePatched(f, t) ==
  LET direct == t.mode = "direct"
  IN CASE t.official ->
            [f EXCEPT !.base = None, !.key = None, !.token = None, !.helper = None]
       [] ~t.official /\ t.disable ->
            [f EXCEPT !.base = BaseUrl(t), !.helper = None,
                      !.key = IF direct /\ t.scheme # "x_api_key" THEN None ELSE ConfiguredKey(t),
                      !.token = IF direct /\ t.scheme = "bearer" THEN ConfiguredKey(t) ELSE None]
       [] OTHER -> [f EXCEPT !.base = BaseUrl(t), !.key = None, !.token = None, !.helper = "hsin"]

\* codex_provider_table
CodexTable(t) ==
  LET disabled == t.disable /\ ~t.preserve
      image == t.mode = "proxy" /\ t.image
      native == disabled /\ ~image
  IN [base |-> BaseUrl(t), native |-> native,
      bearer |-> IF disabled /\ image THEN Managed ELSE None,
      command |-> ~disabled, header |-> image /\ ~native]

\* patch_codex_tuning
Tuning(f, t) ==
  LET limits == IF t.context THEN [f EXCEPT !.window = t.window, !.compact = None] ELSE f
  IN IF t.effort = None THEN limits ELSE [limits EXCEPT !.effort = t.effort]

\* patch_codex_with_credential, and what becomes of auth.json: the keys of a
\* managed target (patch_codex_auth_text), else the preserved ones
\* (restore_codex_auth_text).
CodexPatched(f, t) ==
  LET selector == CASE ~t.official -> "hsin"
                    [] t.official /\ f.selector = "hsin" -> None
                    [] t.official /\ f.selector # "hsin" /\ t.saved /\ f.selector # None -> "openai"
                    [] OTHER -> f.selector
      config == [f EXCEPT !.selector = selector,
                          !.hsin = IF t.official THEN None ELSE CodexTable(t),
                          !.model = IF t.official \/ t.model = None THEN @ ELSE t.model]
  IN Tuning(config, t)
ManagesAuth(t) == t.client = "codex" /\ ~t.official /\ ~t.preserve
AuthKey(t) == IF t.disable /\ t.mode = "direct" THEN RealKey ELSE Managed
AuthPatched(f, t, backup) ==
  IF ManagesAuth(t) THEN [f EXCEPT !.authMode = "apikey", !.authKey = AuthKey(t)]
  ELSE IF backup = None THEN f
  ELSE [f EXCEPT !.authMode = backup.authMode, !.authKey = backup.authKey]

FilesAfter(f, t, backup) ==
  IF t.client = "claude" THEN ClaudePatched(f, t) ELSE AuthPatched(CodexPatched(f, t), t, backup)

\* detect_codex, detect_claude: the provider a file refers to.  A secret of
\* hsin's own is not imported.
Importable(s) == IF s \in {None, Managed} THEN None ELSE s
FirstOf(a, b) == IF a # None THEN a ELSE b
OfficialFound == [official |-> TRUE, secret |-> None, scheme |-> "oauth"]
DetectedCodex(f) ==
  LET url == IF f.selector = "hsin" THEN f.hsin.base ELSE f.openaiUrl
  IN CASE f.selector \in {None, "openai"} ->
            IF f.openaiUrl \in {None, "official"} THEN OfficialFound
            ELSE [official |-> FALSE, secret |-> f.environment, scheme |-> "bearer"]
       [] f.selector = "hsin" /\ url = "official" /\ f.hsin.native -> OfficialFound
       [] OTHER ->
            [official |-> FALSE, scheme |-> "bearer",
             secret |-> FirstOf(Importable(f.hsin.bearer),
                                IF f.hsin.native THEN Importable(f.authKey) ELSE None)]
DetectedClaude(f) ==
  IF f.base \in {None, "official"} /\ f.token = None /\ f.key = None /\ f.helper = None THEN OfficialFound
  ELSE [official |-> FALSE, scheme |-> IF f.token # None THEN "bearer" ELSE "x_api_key",
        secret |-> FirstOf(Importable(f.token), Importable(f.key))]
Detected(client, f) == IF client = "claude" THEN DetectedClaude(f) ELSE DetectedCodex(f)

\* has_legacy_hsin_configuration
HasHsin(client, f) ==
  IF client = "claude" THEN f.helper = "hsin" \/ Managed \in {f.key, f.token}
  ELSE f.selector = "hsin" \/ f.hsin # None \/ f.authKey = Managed
\* is_native_recovery_baseline
Baseline(client, f) ==
  /\ ~HasHsin(client, f)
  /\ IF client = "claude" THEN DetectedClaude(f).official ELSE f.authKey = None

\* managed_scope, codex_managed_keys, and the projection of ownership_fingerprints:
\* what hsin always owns, and what the target adds.
TunedKeys(t) ==
  IF t.official THEN {}
  ELSE (IF t.model # None THEN {"model"} ELSE {})
       \cup (IF t.context THEN {"window", "compact"} ELSE {})
       \cup (IF t.effort # None THEN {"effort"} ELSE {})
Scope(t) ==
  IF t.client = "claude" THEN {"base", "key", "token", "helper"}
  ELSE {"selector", "hsin"} \cup TunedKeys(t) \cup (IF ManagesAuth(t) THEN {"authMode", "authKey"} ELSE {})
-----------------------------------------------------------------------------
\* What the targets and the files of a client can be.  A provider hsin validates
\* has no tuning when it is Claude's or official.
Targets(client) ==
  {t \in [client : {client}, mode : {"direct", "proxy"}, official : BOOLEAN, saved : BOOLEAN,
          scheme : {"bearer", "x_api_key", "oauth"}, disable : BOOLEAN, preserve : BOOLEAN,
          image : BOOLEAN, model : {None, "m"}, context : BOOLEAN, window : {None, "9"},
          effort : {None, "high"}] :
     /\ SchemeFits(t) /\ (t.official <=> t.scheme = "oauth") /\ (t.saved => t.official)
     /\ (client = "claude" \/ t.official) => t.model = None /\ ~t.context /\ t.effort = None
     /\ client = "claude" => ~t.preserve /\ ~t.image
     /\ t.context \/ t.window = None}
NativeFiles(client) ==
  IF client = "claude"
  THEN [base : {None, "theirs", "official"}, key : {None, "users"}, token : {None, "users"},
        helper : {None, "users"}]
  ELSE {[selector |-> s, hsin |-> None, openaiUrl |-> u, environment |-> None,
         model |-> IF tuned THEN "old" ELSE None, window |-> IF tuned THEN "5" ELSE None,
         compact |-> IF tuned THEN "4" ELSE None, effort |-> IF tuned THEN "low" ELSE None,
         authMode |-> IF k = None THEN "chatgpt" ELSE None, authKey |-> k] :
          s \in {None, "openai", "keep"}, u \in {None, "theirs"}, tuned \in BOOLEAN, k \in {None, "users"}}

\* A file hsin manages for a provider is never taken for the user's own, its
\* placeholder is never imported as a secret, and the provider's key is written
\* only where the client is to hold it itself.
ManagedIsRecognised(f, t) ==
  LET after == FilesAfter(f, t, None)
  IN ~t.official =>
       /\ ~Baseline(t.client, after)
       /\ Detected(t.client, after).secret # Managed
       /\ (\E x \in DOMAIN after \ {"hsin"} : after[x] = RealKey) => t.disable /\ ~t.preserve /\ t.mode = "direct"

\* A write changes nothing outside the scope its fingerprint covers.
WriteStaysInScope(f, t) ==
  \A x \in DOMAIN f : FilesAfter(f, t, None)[x] # f[x] => x \in Scope(t)

\* Going through a provider and back to the official one returns the user's
\* authentication, and leaves a file a new instance may start from.
OfficialIsABaseline(f, t) ==
  LET official == [t EXCEPT !.official = TRUE, !.scheme = "oauth", !.mode = "direct", !.model = None,
                            !.context = FALSE, !.effort = None]
      after == FilesAfter(FilesAfter(f, t, None), official, f)
  IN t.client = "codex" /\ ~t.official =>
       /\ after.authKey = f.authKey /\ after.authMode = f.authMode
       /\ f.authKey = None => Baseline("codex", after)

\* Codex's own login is kept whatever a request changes, while it is to be kept.
PreserveWins(settings, disable, preserve) ==
  LET a == Authentication(settings, disable, preserve)
  IN /\ ~(a.disable /\ a.preserve)
     /\ preserve = "on" => a.preserve
     /\ disable = "on" /\ preserve # "on" => a.disable
=============================================================================
