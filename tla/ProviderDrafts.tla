--------------------------- MODULE ProviderDrafts ---------------------------
(***************************************************************************)
(* What hsind accepts as a provider.  A draft is normalized and validated  *)
(* when it is added, a patch is merged with what is stored and the whole   *)
(* is validated again, and the manual proxies have a password that is kept *)
(* apart from them.  Texts are small: one with a blank in front stands for *)
(* everything that trimming changes, "long" for what is too long.  A URL   *)
(* is a host with a path.  A provider stays what it was added as: a client *)
(* and a scope.                                                            *)
(***************************************************************************)
EXTENDS Naturals, Sequences, SequencesExt, FiniteSets

CONSTANTS Drafts,     \* what can be added
          Patches,    \* functions from some fields to new values
          SharedProxies, \* outbound proxies for the whole daemon
          Unfilled,   \* a field that is not there
          DraftSteps  \* bound on the calls

NoProvider == [client |-> "nobody"]

VARIABLES stored,    \* the provider
          password,  \* its proxy password is in the database
          shared,    \* the daemon's outbound proxy
          sharedPassword,
          draftSteps
draftVars == <<stored, password, shared, sharedPassword, draftSteps>>

Trim(text) == CASE text = " m" -> "m" [] text = " " -> "" [] OTHER -> text
TextFits(text) == Trim(text) # "" /\ text # "long"

\* CodexImageConfig::normalized
Trimmed(models) == FoldSeq(LAMBDA m, seen : IF Contains(seen, Trim(m)) THEN seen ELSE Append(seen, Trim(m)),
                           <<>>, models)
NormalizedImage(image) ==
  [enabled |-> image.enabled, models |-> Trimmed(image.models),
   preferred |-> IF Trim(image.preferred) \in {Unfilled, ""} THEN Unfilled ELSE Trim(image.preferred)]
ImageFits(image) ==
  LET normal == NormalizedImage(image)
  IN /\ \A i \in DOMAIN image.models : TextFits(image.models[i])
     /\ image.enabled => normal.models # <<>> /\ normal.preferred # Unfilled
     /\ normal.preferred = Unfilled \/ Contains(normal.models, normal.preferred)
ImageIsInert(image) == ~image.enabled /\ image.models = <<>> /\ image.preferred = Unfilled

\* ClaudeModelMapping: a tier is a model with or without the long context.
Tiers == {"fable", "opus", "sonnet", "haiku"}
TierKeys == Tiers \X {"model", "name", "description"}
DefaultModel(mapping) == IF Trim(mapping.default) = "" THEN Unfilled ELSE Trim(mapping.default)
MappingIsInert(mapping) ==
  \/ ~mapping.enabled
  \/ DefaultModel(mapping) = Unfilled /\ \A tier \in Tiers : mapping[tier] = Unfilled
MappingFits(client, mapping) ==
  mapping # Unfilled =>
    /\ client = "claude"
    /\ mapping.default = Unfilled \/ TextFits(mapping.default)
    /\ mapping.long => DefaultModel(mapping) # Unfilled
    /\ \A tier \in Tiers : mapping[tier] = Unfilled \/ TextFits(mapping[tier])
\* env_value: what the variables of settings.json are set to.
EnvValue(mapping, key) ==
  CASE key = "default" -> DefaultModel(mapping)
    [] key # "default" ->
         IF mapping[key[1]] = Unfilled \/ Trim(mapping[key[1]]) = "" THEN Unfilled ELSE Trim(mapping[key[1]])

\* ManualProxyConfig::validate; only the manual mode is validated.
ManualFits(proxy) ==
  /\ Trim(proxy.host) # "" /\ proxy.host # "bad" /\ proxy.port # 0 /\ proxy.username # "long"
  /\ proxy.password => Trim(proxy.username) # ""
ProxyFits(proxy) == proxy.mode = "manual" => ManualFits(proxy)

\* CodexTuningSettings: a limit of 0 tokens is no limit.
NoTuning == [context |-> Unfilled, effort |-> Unfilled]
TuningFits(p) ==
  /\ p.tuning.context # 0
  /\ p.client # "codex" \/ p.scope # "primary" => p.tuning = NoTuning

\* normalize_codex_config_name
CodexName(p) == IF p.client = "claude" THEN Unfilled
                ELSE IF p.codexName = Unfilled THEN "OpenAI" ELSE Trim(p.codexName)
CodexNameFits(p) == IF p.client = "claude" THEN p.codexName = Unfilled ELSE TextFits(CodexName(p))

\* provider_name_from_url, normalized_name: without a name, the host's.
UrlFits(url) == url.host \notin {"", "bad"} /\ url.path # "#fragment"
NameOf(p) == IF Trim(p.name) = "" THEN p.url.host ELSE Trim(p.name)

\* ProviderInput::validate, ProviderDraft::validate.
Accepts(p) ==
  /\ TextFits(NameOf(p)) /\ UrlFits(p.url)
  /\ p.model = Unfilled \/ TextFits(p.model)
  /\ CodexNameFits(p) /\ MappingFits(p.client, p.mapping)
  /\ ImageFits(p.image) /\ TuningFits(p) /\ ProxyFits(p.proxy)
  /\ p.client = "claude" => p.scope = "primary" /\ ImageIsInert(NormalizedImage(p.image))
  /\ p.scope = "image" => p.image.enabled

\* trim_end_matches('/')
Bare(path) == CASE path = "/v1/" -> "/v1" [] path = "/" -> "" [] OTHER -> path

\* Database::new_provider, edit_provider: what is stored of what is accepted.
Normal(p) ==
  [p EXCEPT !.name = NameOf(p), !.url.path = IF @ = "/v1/" THEN "/v1" ELSE IF @ = "/" THEN "" ELSE @,
            !.model = IF @ = Unfilled THEN @ ELSE Trim(@), !.codexName = CodexName(p),
            !.image = NormalizedImage(@)]

\* SecretInput: an empty password is none.  New and edited passwords.
Flagged(p, configured) == [p EXCEPT !.proxy.password = configured]
PasswordAfter(given, current) == CASE given = "preserve" -> current [] given = "new" -> TRUE [] OTHER -> FALSE

DraftStep == draftSteps < DraftSteps /\ draftSteps' = draftSteps + 1

\* add_provider: nothing is there to preserve.
AddDraft ==
  \E draft \in Drafts, given \in {"preserve", "new", "clear"} :
    LET p == Flagged(draft, given = "new")
    IN /\ stored = NoProvider /\ draft.scheme # "oauth" /\ Accepts(p) /\ DraftStep
       /\ stored' = Normal(p) /\ password' = (given = "new")
       /\ UNCHANGED <<shared, sharedPassword>>

\* edit_provider
Merged(current, patch, given) ==
  Flagged([x \in DOMAIN current |-> IF x \in DOMAIN patch THEN patch[x] ELSE current[x]],
          PasswordAfter(given, current.proxy.password))
EditDraft ==
  \E patch \in Patches, given \in {"preserve", "new", "clear"} :
    /\ stored # NoProvider /\ DraftStep
    /\ LET p == Merged(stored, patch, given)
       IN Accepts(p) /\ stored' = Normal(p)
    /\ password' = PasswordAfter(given, password)
    /\ UNCHANGED <<shared, sharedPassword>>

\* Database::remove_provider: the image capability is to be left first.
RemoveDraft ==
  /\ stored # NoProvider /\ DraftStep
  /\ stored.scope = "primary" => ~stored.image.enabled
  /\ stored' = NoProvider /\ password' = FALSE
  /\ UNCHANGED <<shared, sharedPassword>>

\* update_upstream_proxy_setting
ShareProxy ==
  \E proxy \in SharedProxies, given \in {"preserve", "new", "clear"} :
    LET new == [proxy EXCEPT !.password = PasswordAfter(given, sharedPassword)]
    IN /\ DraftStep /\ ProxyFits(new) /\ (new.password => Trim(new.username) # "")
       /\ shared' = [new EXCEPT !.password = FALSE] /\ sharedPassword' = new.password
       /\ UNCHANGED <<stored, password>>

DraftsInit ==
  /\ stored = NoProvider /\ password = FALSE /\ sharedPassword = FALSE /\ draftSteps = 0
  /\ shared = [mode |-> "direct", host |-> "h", port |-> 1, username |-> "", password |-> FALSE]
DraftsNext == AddDraft \/ EditDraft \/ RemoveDraft \/ ShareProxy
-----------------------------------------------------------------------------
\* upstream_proxy_config, effective_network_proxy: the proxy of a request, and the
\* password it uses.
SharedConfig == [shared EXCEPT !.password = sharedPassword]
Outbound(proxy, hasPassword) ==
  CASE proxy.mode = "inherit" -> [proxy |-> SharedConfig, password |-> sharedPassword]
    [] proxy.mode = "direct" -> [proxy |-> "direct", password |-> FALSE]
    [] proxy.mode = "system" -> [proxy |-> "system", password |-> FALSE]
    [] proxy.mode = "manual" -> [proxy |-> [proxy EXCEPT !.password = FALSE], password |-> proxy.password /\ hasPassword]
\* Mutant: the password of the form is not looked at.
Discovery_Saved(proxy, given) == Outbound(proxy, password)

\* discovery_network_proxy: of a form, before it is saved.
Discovery(proxy, given) ==
  IF proxy.mode # "manual" THEN Outbound(proxy, FALSE)
  ELSE Outbound([proxy EXCEPT !.password = TRUE],
                given = "new" \/ (given = "preserve" /\ proxy.password /\ password))

\* convert_provider_base_url: a copy for the other client.
WithV1(path) == IF path \in {"/api", "/api/"} THEN "/api/v1" ELSE IF path = "/api/v1" THEN path ELSE "/v1"
CopiedUrl(url, from, to) ==
  CASE from = "codex" /\ to = "claude" -> [url EXCEPT !.path = CASE @ \in {"/v1", "/v1/"} -> "" [] @ = "/api/v1" -> "/api" [] OTHER -> @]
    [] from = "claude" /\ to = "codex" ->
         [url EXCEPT !.path = WithV1(@)]
    [] OTHER -> url
\* discover_models: the second attempt, unless the path already ends with it.
Attempts(url) ==
  IF url.path \in {"/v1", "/v1/", "/api/v1"} THEN <<url>> ELSE <<url, [url EXCEPT !.path = WithV1(@)]>>

\* What is stored can be edited again without being changed, its password is in
\* the database exactly when it says so and is gone with it, and an enabled
\* mapping writes what it maps, nothing of a tier that is not mapped.
StoredStaysEditable ==
  /\ stored # NoProvider =>
       /\ Accepts(stored) /\ Normal(stored) = stored /\ stored.proxy.password = password
       /\ stored.mapping # Unfilled =>
            /\ ~MappingIsInert(stored.mapping) =>
                 \E key \in {"default"} \cup TierKeys : EnvValue(stored.mapping, key) # Unfilled
            /\ \A key \in TierKeys :
                 EnvValue(stored.mapping, key) # "" /\ (EnvValue(stored.mapping, key) # Unfilled => stored.mapping[key[1]] # Unfilled)
  /\ stored = NoProvider => ~password
  /\ ProxyFits(SharedConfig)

\* The models of a form are fetched through the proxy that its requests will use
\* once it is saved.
DiscoveryIsRepresentative ==
  stored # NoProvider =>
    \A patch \in Patches, given \in {"preserve", "new", "clear"} :
      LET form == [Merged(stored, patch, given).proxy EXCEPT !.password = stored.proxy.password]
          saved == Merged(stored, patch, given)
      IN Accepts(saved) => Discovery(form, given) = Outbound(saved.proxy, PasswordAfter(given, password))

\* A copy for the other client and back asks for the same paths, and the address
\* found by discovery is not extended again.
UrlsSettle(url) ==
  LET there == CopiedUrl(url, "codex", "claude")
      back == CopiedUrl(there, "claude", "codex")
  IN /\ Bare(CopiedUrl(back, "codex", "claude").path) = Bare(there.path)
     /\ \A i \in DOMAIN Attempts(url) : i = 2 => Len(Attempts(Attempts(url)[i])) = 1
=============================================================================
