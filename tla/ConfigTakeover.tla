--------------------------- MODULE ConfigTakeover ---------------------------
(***************************************************************************)
(* takeover_configuration at the requesting instance: prepare the target   *)
(* and record the request, ask the owner to release it while no local lock *)
(* is held, then claim the reservation under the mutation and directory    *)
(* locks.  call[r] is the coroutine of request r: idle, rpc (sent), served *)
(* (running at the owner), claim (answered), finish (claimed).             *)
(***************************************************************************)
EXTENDS OwnershipState

\* The record as a new instance sees it.
Seen == [gen |-> record.gen, owner |-> record.owner]

\* Mutant: a reservation counts only for the request that made it.
ReservedFor_SameRequest(i, r, expected) ==
  /\ record.pending.kind = "takeover"
  /\ record.pending.by = i
  /\ record.pending.req = r /\ expected = Seen

\* The reservation is this instance's: of this request, or of an earlier one
\* of its own that the record still shows as this request expected it.
ReservedFor(i, r, expected) ==
  /\ record.pending.kind = "takeover"
  /\ record.pending.by = i
  /\ record.pending.req = r \/ expected = Seen

\* This request's own claim, whose completion was not recorded.
Completed(i, r) ==
  record.owner = i /\ ask[r].receipt # 0 /\ ask[r].receipt = record.gen

Releasing(i, r) ==
  record.pending.kind = "release" /\ record.pending.req = r
    /\ record.pending.by = i

Unchanged == Live(record.scope) = record.fp

\* prepare_takeover_targets.
CanPrepare(i, r, expected) ==
  /\ ReservedFor(i, r, expected) \/ Completed(i, r) \/ expected = Seen
  /\ ReservedFor(i, r, expected) => Unchanged
  /\ ReservedFor(i, r, expected) \/ Releasing(i, r) \/ ~Problem

\* The next thing the coroutine does: ask the owner, or claim.
Prepared(i) == IF record.owner \in {NoInst, i} THEN "claim" ELSE "rpc"

Expected(r) == [gen |-> ask[r].gen, owner |-> ask[r].owner]

\* A user asks for the target as status shows it.
RequestTakeover(i, r) ==
  /\ Idle(i) /\ Requester[r] = i /\ call[r] = "idle" /\ ~ask[r].posed
  /\ CanPrepare(i, r, Seen)
  /\ ask' = [ask EXCEPT ![r].posed = TRUE, ![r].gen = record.gen,
                        ![r].owner = record.owner]
  /\ call' = [call EXCEPT ![r] = Prepared(i)]
  /\ UNCHANGED <<config, auth, record, lock, db, proc, budget, outside, stray>>

\* The same request again, after an error or a crash.
RetryTakeover(i, r) ==
  /\ Idle(i) /\ Requester[r] = i /\ call[r] = "idle"
  /\ ask[r].posed /\ ~ask[r].finished
  /\ CanPrepare(i, r, Expected(r))
  /\ call' = [call EXCEPT ![r] = Prepared(i)]
  /\ UNCHANGED <<config, auth, record, lock, db, ask, proc, budget, outside, stray>>

\* The owner's endpoint does not answer: the takeover returns an error.
Unreachable(i, r) ==
  /\ Requester[r] = i /\ call[r] = "rpc"
  /\ proc[ask[r].owner].phase # "ready"
  /\ call' = [call EXCEPT ![r] = "idle"]
  /\ UNCHANGED <<config, auth, record, lock, db, ask, proc, budget, outside, stray>>

\* The connection breaks: the owner carries on, and may still be about to
\* read the call.
LoseCall(r) ==
  /\ call[r] \in {"rpc", "served"}
  /\ Spend("fail")
  /\ call' = [call EXCEPT ![r] = "idle"]
  /\ \/ UNCHANGED stray
     \/ call[r] = "rpc" /\ stray' = stray \cup {r}
  /\ UNCHANGED <<config, auth, record, lock, db, ask, proc, outside>>

-----------------------------------------------------------------------------
\* Mutant: what was checked before the call is not checked again.
CanClaim_Unchecked(i, r) == lock = NoInst /\ ~Problem

\* What the claim checks again under both locks.
CanClaim(i, r) ==
  LET reserved == ReservedFor(i, r, Expected(r))
      own == record.owner = i
  IN  /\ lock = NoInst
      /\ \/ reserved \/ own
         \/ record.owner = NoInst /\ record.gen = ask[r].gen
      /\ reserved => Unchanged
      /\ reserved \/ own \/ ~Problem

\* The claim becomes durable, still marked as a takeover.
Claim(i, r) ==
  /\ Idle(i) /\ Requester[r] = i /\ call[r] = "claim"
  /\ \/ /\ CanClaim(i, r)
        /\ lock' = i
        /\ record' =
             [gen |-> record.gen + (IF record.owner = i THEN 0 ELSE 1),
              owner |-> i, scope |-> record.scope, fp |-> Live(record.scope),
              pending |-> [kind |-> "takeover", req |-> r, by |-> i]]
        /\ proc' = [proc EXCEPT ![i] =
             [IdleProc EXCEPT !.mode = "takeover", !.pc = "tlease", !.req = r]]
        /\ UNCHANGED call
     \/ /\ ~CanClaim(i, r)
        /\ call' = [call EXCEPT ![r] = "idle"]
        /\ UNCHANGED <<record, lock, proc>>
  /\ UNCHANGED <<config, auth, db, ask, budget, outside, stray>>

TakeLease(i) ==
  /\ At(i, "tlease")
  /\ db' = [db EXCEPT ![i].lease = record.gen]
  /\ Goto(i, "treceipt")
  /\ UNCHANGED <<config, auth, record, lock, ask, call, budget, outside, stray>>

TakeReceipt(i) ==
  /\ At(i, "treceipt")
  /\ ask' = [ask EXCEPT ![proc[i].req].receipt = record.gen]
  /\ db' = [db EXCEPT ![i].status = "unmanaged"]
  /\ Goto(i, "tclear")
  /\ UNCHANGED <<config, auth, record, lock, call, budget, outside, stray>>

ClearTakeover(i) ==
  /\ At(i, "tclear")
  /\ record' = [record EXCEPT !.pending = NoPending]
  /\ call' = [call EXCEPT ![proc[i].req] = "finish"]
  /\ Return(i)
  /\ UNCHANGED <<config, auth, db, ask, budget, outside, stray>>

FinishTakeover(i, r) ==
  /\ Idle(i) /\ Requester[r] = i /\ call[r] = "finish"
  /\ ask' = [ask EXCEPT ![r].finished = TRUE]
  /\ call' = [call EXCEPT ![r] = "idle"]
  /\ UNCHANGED <<config, auth, record, lock, db, proc, budget, outside, stray>>

TakeoverStep(i) ==
  \/ TakeLease(i) \/ TakeReceipt(i) \/ ClearTakeover(i)
  \/ \E r \in Requests :
       Unreachable(i, r) \/ Claim(i, r) \/ FinishTakeover(i, r)
=============================================================================
