----------------------------- MODULE Providers -----------------------------
(***************************************************************************)
(* The provider rows of one client and what refers to them: the active     *)
(* provider, the image provider and the binding (provider and revision)    *)
(* written into the client's configuration.  A handler holds the mutation  *)
(* lock, so it is one job, step by step; a crash may fall between two of   *)
(* them.  The configuration saga itself is ConfigWrite's.                  *)
(***************************************************************************)
EXTENDS Naturals, FiniteSets, Sequences

CONSTANTS Ids, Official,  \* provider ids; the built-in one
          Gone, Nobody,   \* a row that is not there; no provider
          MaxRev,         \* bound: edits of one provider
          Handlers,       \* bound: requests that change something
          JobFaults, JobCrashes, UserEdits \* bounds

VARIABLES kind,    \* the client: "codex" or "claude"
          rows,    \* the providers table
          client,  \* client_state: active provider, mode, status
          image,   \* codex_image_state: the provider of images
          file,    \* the client's configuration, as far as it refers to providers
          journal, \* pending operations, oldest first
          job,     \* the handler that holds the mutation lock
          owed,    \* ghost: an image change whose configuration write failed
          assumed, \* ghost: called synchronized although the last write had failed
          quota    \* budget left of requests, faults, crashes and user edits
providerVars == <<kind, rows, client, image, file, journal, job, owed, assumed, quota>>

\* direct: the client accepts the authentication scheme without the proxy.
Rows == [rev : 1..MaxRev, image : BOOLEAN, primary : BOOLEAN, direct : BOOLEAN]
OfficialRow == [rev |-> 1, image |-> FALSE, primary |-> TRUE, direct |-> TRUE]

ASSUME ProvidersConstants ==
  /\ Official \in Ids /\ Nobody \notin Ids
  /\ {Handlers, JobFaults, JobCrashes, UserEdits} \subseteq Nat
  /\ MaxRev \in Nat \ {0} /\ Gone \notin Rows

Native(n) == [by |-> "user", id |-> Nobody, rev |-> 0, mode |-> "direct", image |-> FALSE,
              edits |-> n]
NoTarget == [id |-> Nobody, row |-> Gone, mode |-> "direct", image |-> FALSE]
Idle == [pc |-> "idle", target |-> NoTarget, row |-> Gone, id |-> Nobody,
         before |-> Native(0), had |-> FALSE, then |-> "idle"]

ProvidersInit ==
  /\ kind \in {"codex", "claude"}
  /\ rows = [i \in Ids |-> Gone] /\ image = Nobody
  /\ client = [active |-> Nobody, mode |-> "direct", status |-> "unmanaged"]
  /\ file = Native(0) /\ journal = <<>> /\ owed = FALSE /\ assumed = FALSE
  /\ job = [Idle EXCEPT !.pc = "down"]
  /\ quota = [handler |-> Handlers, fault |-> JobFaults, crash |-> JobCrashes, user |-> UserEdits]

Present(i) == rows[i] # Gone
Available == image # Nobody
JobFault == quota.fault > 0 /\ quota' = [quota EXCEPT !.fault = @ - 1]
Goto(pc) == job' = [job EXCEPT !.pc = pc]
Done == job' = Idle
WriteJob(t, then) == [Idle EXCEPT !.pc = "write", !.target = t, !.before = file, !.then = then]
Stays(s) == UNCHANGED s

\* config_target: what the client is to refer to.  Claude's proxy helper is unbound.
Target(i, row, mode) ==
  [id |-> i, row |-> row, mode |-> mode,
   image |-> kind = "codex" /\ mode = "proxy" /\ Available]
Patched(f, t) ==
  IF t.id = Official
  THEN [f EXCEPT !.by = "user", !.id = Nobody, !.rev = 0, !.mode = "direct", !.image = FALSE]
  ELSE IF kind = "claude" /\ t.mode = "proxy"
  THEN [f EXCEPT !.by = "hsin", !.id = Nobody, !.rev = 0, !.mode = "proxy", !.image = FALSE]
  ELSE [f EXCEPT !.by = "hsin", !.id = t.id, !.rev = t.row.rev, !.mode = t.mode,
                 !.image = t.image]

---------------------------------------------------------------------------
(* The transactions of db.rs                                               *)

ImageAfterInsert(i, row) == IF row.image /\ image = Nobody THEN i ELSE image
\* Mutant: a provider that no longer offers images stays selected for them.
ImageAfterUpdate_Kept(i, row) == ImageAfterInsert(i, row)

ImageAfterUpdate(i, row) ==
  IF row.image THEN ImageAfterInsert(i, row) ELSE IF image = i THEN Nobody ELSE image

InsertRow(i, row) ==
  /\ rows' = [rows EXCEPT ![i] = row]
  /\ image' = ImageAfterInsert(i, row)
UpdateRow(i, row) ==
  /\ rows' = [rows EXCEPT ![i] = row]
  /\ image' = ImageAfterUpdate(i, row)
Removable(i) ==
  /\ client.active # i
  /\ ~(rows[i].primary /\ rows[i].image)
RemoveRow(i) ==
  /\ rows' = [rows EXCEPT ![i] = Gone]
  /\ image' = IF image = i THEN Nobody ELSE image
ImageSelectable(i) == kind = "codex" /\ i # Official /\ rows[i].image

---------------------------------------------------------------------------
(* Handlers: the first step checks and journals, or refuses                *)

Free == /\ job.pc = "idle" /\ quota.handler > 0
        /\ quota' = [quota EXCEPT !.handler = @ - 1]
Applicable(i, row, mode) ==
  IF i = Official THEN mode = "direct" ELSE mode = "proxy" \/ row.direct
Journaled(t) == Append(journal, [target |-> t, before |-> file])

Add(i) ==
  /\ Free /\ i # Official /\ ~Present(i)
  /\ \E row \in Rows :
       /\ row.rev = 1 /\ (row.image => kind = "codex") /\ (~row.primary => row.image)
       /\ InsertRow(i, row)
       /\ job' = [Idle EXCEPT !.pc = "image", !.had = Available]
  /\ Stays(<<kind, client, file, journal, owed, assumed>>)

\* The editor saw this very revision, else it is refused.  What a write of the
\* active provider needs is journaled before the row changes.
EditProvider(i) ==
  /\ Free /\ Present(i) /\ i # Official /\ rows[i].rev < MaxRev
  /\ \E row \in Rows, mapping \in BOOLEAN :
       /\ row.rev = rows[i].rev + 1 /\ row.primary = rows[i].primary
       /\ (row.image => kind = "codex") /\ (~row.primary => row.image)
       /\ mapping => kind = "claude"
       /\ LET active == row.primary /\ client.active = i
              direct == active /\ client.mode = "direct"
              writes == active /\ (direct \/ mapping \/ kind = "codex")
              t == IF writes THEN Target(i, row, client.mode) ELSE NoTarget IN
          /\ direct => row.direct
          /\ journal' = IF writes THEN Journaled(t) ELSE journal
          /\ job' = [Idle EXCEPT !.pc = "commit", !.target = t, !.row = row, !.id = i,
                       !.before = file, !.had = Available, !.then = "image"]
  /\ Stays(<<kind, rows, client, image, file, owed, assumed>>)

Remove(i) ==
  /\ Free /\ Present(i) /\ i # Official /\ Removable(i)
  /\ RemoveRow(i)
  /\ job' = [Idle EXCEPT !.pc = "image", !.had = Available]
  /\ Stays(<<kind, client, file, journal, owed, assumed>>)

SwitchImage(i) ==
  /\ Free /\ Present(i) /\ ImageSelectable(i)
  /\ image' = i /\ job' = [Idle EXCEPT !.pc = "image", !.had = Available]
  /\ Stays(<<kind, rows, client, file, journal, owed, assumed>>)

\* A proxied Claude client is not rewritten unless its model mapping changes.
Switch(i) ==
  /\ Free /\ Present(i) /\ rows[i].primary
  /\ LET mode == IF i = Official THEN "direct" ELSE client.mode IN
     /\ Applicable(i, rows[i], mode)
     /\ \/ /\ mode = "proxy" /\ kind = "claude"
           /\ client' = [client EXCEPT !.active = i, !.status = "synchronized"]
           /\ assumed' = (assumed \/ client.status # "synchronized")
           /\ Stays(<<job, journal>>)
        \/ /\ journal' = Journaled(Target(i, rows[i], mode))
           /\ job' = WriteJob(Target(i, rows[i], mode), "idle")
           /\ Stays(<<client, assumed>>)
  /\ Stays(<<kind, rows, image, file, owed>>)

ChangeMode(mode) ==
  /\ Free /\ client.active # Nobody
  /\ LET i == client.active
         t == Target(i, rows[i], mode) IN
     /\ Applicable(i, rows[i], mode)
     /\ journal' = Journaled(t)
     /\ job' = WriteJob(t, "idle")
  /\ Stays(<<kind, rows, client, image, file, owed, assumed>>)

\* import_current: the client's own configuration becomes the active provider.
Import(i) ==
  /\ Free /\ file.by = "user"
  /\ \/ /\ i = Official /\ Present(i) /\ Stays(rows)
     \/ /\ i # Official /\ ~Present(i)
        /\ rows' = [rows EXCEPT ![i] = [OfficialRow EXCEPT !.direct = TRUE]]
     \/ /\ i # Official /\ Present(i) /\ rows[i].direct /\ rows[i].primary /\ Stays(rows)
  /\ client' = [active |-> i, mode |-> "direct", status |-> "synchronized"]
  /\ Stays(<<kind, image, file, journal, job, owed, assumed>>)

---------------------------------------------------------------------------
(* The steps of a job                                                      *)

HasTarget == job.target # NoTarget
\* The write at the end of an image change, and the two of a start, are not the
\* end of the job; a start goes on after one that failed.
ImageChange == job.then = "image_written"
After(ok) ==
  IF job.then = "image" /\ ok THEN [job EXCEPT !.pc = "image"]
  ELSE IF job.then = "sync_proxy" THEN [Idle EXCEPT !.pc = "sync_proxy"] ELSE Idle
DropLast == SubSeq(journal, 1, Len(journal) - 1)

Commit ==
  /\ job.pc = "commit"
  /\ UpdateRow(job.id, job.row)
  /\ Goto(IF HasTarget THEN "write" ELSE "image")
  /\ Stays(<<kind, client, file, journal, owed, assumed, quota>>)

\* apply_with_credential replaces the file only if it still is what was read.
\* The row an edit committed stays, whatever the write does.
WriteFile ==
  /\ job.pc = "write"
  /\ \/ /\ file = job.before
        /\ file' = Patched(file, job.target) /\ Goto("auth")
        /\ Stays(<<journal, client, owed, quota>>)
     \/ /\ \/ file # job.before /\ Stays(quota)
              /\ client' = [client EXCEPT !.status = "conflict"]
           \/ JobFault /\ client' = [client EXCEPT !.status = "unavailable"]
        /\ journal' = DropLast /\ owed' = (owed \/ ImageChange)
        /\ job' = After(FALSE) /\ Stays(file)
  /\ Stays(<<kind, rows, image, assumed>>)

\* A failed apply_codex_auth_target leaves its operation to the next start.
WriteClientAuth ==
  /\ job.pc = "auth"
  /\ \/ Goto("activate") /\ Stays(<<client, owed, quota>>)
     \/ /\ kind = "codex" /\ JobFault
        /\ client' = [client EXCEPT !.status = "unavailable"]
        /\ owed' = (owed \/ ImageChange) /\ job' = After(FALSE)
  /\ Stays(<<kind, rows, image, file, journal, assumed>>)

Activate ==
  /\ job.pc = "activate"
  /\ client' = [client EXCEPT !.active = job.target.id, !.status = "synchronized"]
  /\ Goto("mode")
  /\ Stays(<<kind, rows, image, file, journal, owed, assumed, quota>>)

StoreMode ==
  /\ job.pc = "mode"
  /\ client' = [client EXCEPT !.mode = job.target.mode] /\ Goto("finish")
  /\ Stays(<<kind, rows, image, file, journal, owed, assumed, quota>>)

FinishJob ==
  /\ job.pc = "finish"
  /\ journal' = DropLast
  /\ owed' = FALSE /\ assumed' = FALSE
  /\ job' = After(TRUE)
  /\ Stays(<<kind, rows, client, image, file, quota>>)

\* reconcile_codex_image_capability: only if availability changed, and only a
\* proxied client; its preparation may fail before anything is journaled.
ReconcileImage ==
  /\ job.pc = "image"
  /\ IF kind # "codex" \/ job.had = Available \/ client.mode # "proxy" \/ client.active = Nobody
     THEN Done /\ Stays(<<journal, owed, quota>>)
     ELSE LET t == Target(client.active, rows[client.active], "proxy") IN
          \/ /\ journal' = Journaled(t)
             /\ job' = WriteJob(t, "image_written")
             /\ Stays(<<owed, quota>>)
          \/ JobFault /\ owed' = TRUE /\ Done /\ Stays(journal)
  /\ Stays(<<kind, rows, client, image, file, assumed>>)

---------------------------------------------------------------------------
(* Crash, start, and the user                                              *)

Crash ==
  /\ job.pc # "down" /\ quota.crash > 0
  /\ quota' = [quota EXCEPT !.crash = @ - 1]
  /\ job' = [Idle EXCEPT !.pc = "down"]
  /\ Stays(<<kind, rows, client, image, file, journal, owed, assumed>>)

\* recover_operation.  An edit whose row was not committed is aborted; one whose
\* provider changed since, or is gone, cannot be completed.
Settles(op) ==
  LET t == op.target IN
  IF ~Present(t.id) THEN "unavailable"
  ELSE IF rows[t.id].rev < t.row.rev THEN "aborted"
  ELSE IF rows[t.id] # t.row THEN "conflict"
  ELSE IF file # op.before /\ Patched(file, t) # file THEN "conflict"
  ELSE "complete"

Recover ==
  /\ job.pc = "down" /\ journal # <<>>
  /\ LET op == Head(journal)
         t == op.target IN
     \/ /\ Settles(op) = "complete"
        /\ file' = Patched(file, t)
        /\ client' = [active |-> t.id, mode |-> t.mode, status |-> "synchronized"]
        /\ assumed' = FALSE /\ Stays(quota)
     \/ /\ Settles(op) = "aborted" /\ Stays(<<file, client, assumed, quota>>)
     \/ /\ Settles(op) \in {"conflict", "unavailable"}
        /\ client' = [client EXCEPT !.status = Settles(op)] /\ Stays(<<file, assumed, quota>>)
     \/ /\ JobFault /\ client' = [client EXCEPT !.status = "conflict"] /\ Stays(<<file, assumed>>)
  /\ journal' = SubSeq(journal, 2, Len(journal))
  /\ Stays(<<kind, rows, image, job, owed>>)

\* initialize_providers, once: the official row, and what the client uses now.
Initialize ==
  /\ job.pc = "down" /\ journal = <<>>
  /\ IF client.active # Nobody THEN Stays(<<rows, client>>)
     ELSE \/ /\ rows' = [rows EXCEPT ![Official] = OfficialRow]
             /\ \E status \in {"conflict", "unmanaged", "synchronized"} :
                  client' = [active |-> Official, mode |-> "direct", status |-> status]
          \/ \E i \in Ids \ {Official} :
               /\ rows' = [rows EXCEPT ![Official] = OfficialRow, ![i] = OfficialRow]
               /\ client' = [active |-> i, mode |-> "direct", status |-> "synchronized"]
  /\ Goto("sync_auth")
  /\ Stays(<<kind, image, file, journal, owed, assumed, quota>>)

\* reconcile_client_auth_configuration (Codex), reconcile_proxy_configurations.
\* Both write the active provider again in its mode; OAuth cannot be proxied,
\* and that error is not one a start tolerates.
Reconcile(pc, then, needed) ==
  LET i == client.active
      t == Target(i, rows[i], client.mode) IN
  /\ job.pc = pc
  /\ \/ ~needed /\ Goto(then) /\ Stays(<<journal, client, quota>>)
     \/ /\ needed
        /\ \/ /\ ~Applicable(i, rows[i], client.mode)
              /\ Goto("stuck") /\ Stays(<<journal, client, quota>>)
           \/ /\ Applicable(i, rows[i], client.mode)
              /\ journal' = Journaled(t)
              /\ job' = WriteJob(t, IF then = "idle" THEN "serve" ELSE then)
              /\ Stays(<<client, quota>>)
           \/ /\ JobFault /\ client' = [client EXCEPT !.status = "unavailable"]
              /\ Goto(then) /\ Stays(journal)
  /\ Stays(<<kind, rows, image, file, owed, assumed>>)
ReconcileAuth ==
  Reconcile("sync_auth", "sync_proxy", kind = "codex" /\ client.active # Official)
ReconcileProxy == Reconcile("sync_proxy", "idle", client.mode = "proxy")

UserEdit ==
  /\ quota.user > 0 /\ quota' = [quota EXCEPT !.user = @ - 1]
  /\ file' = Native(file.edits + 1)
  /\ Stays(<<kind, rows, client, image, journal, job, owed, assumed>>)

JobSteps ==
  \/ Commit \/ WriteFile \/ WriteClientAuth \/ Activate \/ StoreMode \/ FinishJob \/ ReconcileImage
ProvidersNext ==
  \/ \E i \in Ids : Add(i) \/ EditProvider(i) \/ Remove(i) \/ SwitchImage(i) \/ Switch(i) \/ Import(i)
  \/ \E mode \in {"direct", "proxy"} : ChangeMode(mode)
  \/ JobSteps
  \/ Crash \/ Recover \/ Initialize \/ ReconcileAuth \/ ReconcileProxy \/ UserEdit

---------------------------------------------------------------------------
(* Properties                                                              *)

Settled == job.pc = "idle" /\ journal = <<>>
Reported == Settled /\ client.status = "synchronized" /\ file.by = "hsin"
Resolves(f) == \* the credential handler, asked by the client's helper
  /\ Present(f.id) /\ rows[f.id].rev = f.rev
  /\ f.mode = "proxy" => client.active = f.id /\ client.mode = "proxy"

ProvidersTypeOK ==
  /\ rows \in [Ids -> Rows \cup {Gone}] /\ image \in Ids \cup {Nobody}
  /\ client.active \in Ids \cup {Nobody} /\ owed \in BOOLEAN
  /\ Len(journal) <= JobFaults + JobCrashes + 1

\* Whatever is added, edited, removed or switched: the active provider exists and
\* serves the client, the image provider exists and has images enabled.
ReferencesResolve ==
  /\ client.active # Nobody => Present(client.active) /\ rows[client.active].primary
  /\ image # Nobody => Present(image) /\ rows[image].image

\* While a client is reported synchronized and nothing is under way or left to
\* recover, the provider and revision its configuration names are the ones the
\* credential handler answers for: no edit, crash or recovery leaves a client
\* with a helper command that is refused, unless a switch assumed the file was right.
SynchronizedResolves ==
  Reported /\ ~assumed /\ file.id # Nobody => Resolves(file) /\ file.id = client.active

\* A proxied Codex configuration offers images exactly if an image provider is
\* active, except after a change that was answered with an error.
ImageAdvertised ==
  Reported /\ kind = "codex" /\ client.mode = "proxy" /\ ~owed => file.image = Available

\* The configuration's mode and the stored mode agree while synchronized.
ModeAgrees == Reported /\ ~assumed => file.mode = client.mode

\* The same without the exception: it does not hold.
SynchronizedIsChecked == Reported => file.mode = client.mode

\* An edit that reached its row is not undone by a later recovery: revisions only
\* grow until the row is removed.
RevisionsGrow ==
  [][\A i \in Ids : Present(i) /\ rows'[i] # Gone => rows'[i].rev >= rows[i].rev]_rows

\* Neither a bad client configuration nor a crash keeps the daemon from starting.
StartupSurvives == job.pc # "stuck"
=============================================================================
