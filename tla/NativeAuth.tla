----------------------------- MODULE NativeAuth -----------------------------
(***************************************************************************)
(* The credential store of an official client, as native_auth.rs reads,    *)
(* compares and writes it.  Its text is reduced to the projection on the   *)
(* keys hsin owns: which login session's tokens it holds, and which of     *)
(* that session's refreshes.  The OAuth server accepts only the newest.    *)
(***************************************************************************)
EXTENDS Integers, FiniteSets

CONSTANTS
  Sessions,   \* login sessions the OAuth server may open
  AccountOf,  \* the account each session belongs to
  NoCred,     \* no owned key in the file or keyring entry
  NoAccount,  \* no account
  MaxGen      \* bound on refreshes of a session

Accounts == {AccountOf[s] : s \in Sessions}
MaybeAccount == Accounts \cup {NoAccount}
ASSUME AccountsAssumption == NoAccount \notin Accounts
ASSUME GenAssumption == MaxGen \in Nat

Creds == [sess : Sessions, gen : 0 .. MaxGen]
ASSUME CredAssumption == NoCred \notin Creds
AnyCred == Creds \cup {NoCred}
AccountIn(c) == IF c = NoCred THEN NoAccount ELSE AccountOf[c.sess]

(***************************************************************************)
(* with_credentials picks one of five layouts from the client, its         *)
(* cli_auth_credentials_store setting and the platform.                    *)
(***************************************************************************)
Backends == {"codex_file", "codex_keyring", "codex_auto", "claude_file",
             "claude_keychain"}
IsClaude(b) == b \in {"claude_file", "claude_keychain"}
FileOnly(b) == b \in {"codex_file", "claude_file"}

\* secure: the keyring entry (or the encrypted secrets file); file: auth.json
\* or .credentials.json; meta: oauthAccount of .claude.json.
Disks == [secure : AnyCred, file : AnyCred, meta : MaybeAccount,
          reachable : BOOLEAN]

NeedsKeyring(b) == b \in {"codex_keyring", "claude_keychain"}
Readable(b, d) == NeedsKeyring(b) => d.reachable

SourceOf(b, d) ==
  IF FileOnly(b) \/ (b = "codex_auto" /\ (~d.reachable \/ d.secure = NoCred))
    THEN "file" ELSE "keyring"

\* read_state: the active credential, the metadata beside it and the inactive
\* fallback file, which only Codex has.
RawState(b, d) ==
  LET src == SourceOf(b, d) IN
  [source |-> src,
   auth |-> IF src = "file" THEN d.file ELSE d.secure,
   meta |-> IF IsClaude(b) THEN d.meta ELSE NoAccount,
   fallback |-> IF b \in {"codex_keyring", "codex_auto"} THEN d.file ELSE NoCred,
   reachable |-> d.reachable /\ ~FileOnly(b)]

Snapshot(raw) == [auth |-> raw.auth, meta |-> raw.meta]
AnySnapshot == [auth : AnyCred, meta : MaybeAccount]

\* native_identity: Codex takes it from the tokens, Claude from the metadata.
Identity(b, snap) ==
  IF snap.auth = NoCred THEN NoAccount
  ELSE IF IsClaude(b) THEN snap.meta ELSE AccountIn(snap.auth)

Writable(b, raw) == b = "codex_auto" => raw.reachable

(***************************************************************************)
(* state_fingerprint is a digest of everything above, so it is modelled by *)
(* what it digests.  projected_fingerprint rebuilds the digest a prepared  *)
(* switch took, from the journalled snapshot and the current fallback.     *)
(***************************************************************************)
Projected(src, reachable, snap, fallback) ==
  [source |-> src, auth |-> snap.auth, meta |-> snap.meta,
   fallback |-> fallback, reachable |-> reachable]

KnownAuth(cur, before, after) == cur.auth \in {before.auth, after.auth}
KnownMeta(cur, before, after) == cur.meta \in {before.meta, after.meta}

OriginalFallback(b, src, before, raw) ==
  IF b = "codex_auto" /\ src = "file" THEN before.auth ELSE raw.fallback

\* recover_apply: the switch has nothing left to write.
ApplyCompleted(raw, after) ==
  /\ Snapshot(raw) = after
  /\ raw.source = "file" \/ raw.fallback = NoCred

\* recover_apply: what is there is a prefix of this very switch.
ApplyMayResume(b, raw, before, after, prepared) ==
  \/ /\ KnownAuth(raw, before, after) /\ KnownMeta(raw, before, after)
     /\ prepared = Projected(raw.source, raw.reachable, before,
                             OriginalFallback(b, raw.source, before, raw))
  \/ /\ KnownMeta(raw, before, after) /\ raw.source = "file"
     /\ after.auth = NoCred /\ b = "codex_auto"
     /\ prepared = Projected("keyring", raw.reachable, before, raw.fallback)

\* recover_rollback: the keyring entry was deleted, which exposed the file.
SecureDeleted(b, raw, after, source) ==
  /\ source # "file" /\ raw.source = "file"
  /\ b = "codex_auto" /\ after.auth = NoCred

RollbackDone(raw, before, source) ==
  /\ Snapshot(raw) = before /\ raw.source = source
  /\ source = "file" \/ raw.fallback = NoCred

RollbackMayStart(b, raw, before, after, prepared, source) ==
  LET deleted == SecureDeleted(b, raw, after, source)
      matches == prepared = Projected(source, raw.reachable, before,
                                      OriginalFallback(b, source, before, raw))
      known == KnownAuth(raw, before, after)
  IN /\ source = raw.source \/ deleted
     /\ KnownMeta(raw, before, after)
     /\ known \/ (deleted /\ matches)
     /\ matches \/ (known /\ source # "file" /\ raw.fallback = NoCred)

(***************************************************************************)
(* write_auth and the two writes after it.  Each compares what it is about *)
(* to replace with what apply_state read, and refuses to replace anything  *)
(* else; `observed` is that first read, with the source to write to.       *)
(***************************************************************************)
ForSource(raw, source) ==
  IF source = raw.source THEN raw
  ELSE [raw EXCEPT !.source = source, !.auth = NoCred]

AuthMatches(d, observed) ==
  IF observed.source = "file" THEN d.file = observed.auth
  ELSE d.reachable /\ d.secure = observed.auth
WriteAuth(d, observed, snap) ==
  IF observed.source = "file" THEN [d EXCEPT !.file = snap.auth]
  ELSE [d EXCEPT !.secure = snap.auth]

ClearsFallback(b, observed) ==
  ~IsClaude(b) /\ observed.source # "file" /\ observed.fallback # NoCred
FallbackMatches(d, observed) == d.file = observed.fallback
ClearFallback(d) == [d EXCEPT !.file = NoCred]

MetaMatches(d, observed) == d.meta = observed.meta
WriteMeta(d, snap) == [d EXCEPT !.meta = snap.meta]

Verified(b, d, snap) == Readable(b, d) /\ Snapshot(RawState(b, d)) = snap
=============================================================================
