--------------------------- MODULE DirectoryLease ---------------------------
(***************************************************************************)
(* What the ownership protocol promises about a shared client directory,   *)
(* without locks, databases, messages or crashes: at most one instance     *)
(* owns it; only the owner puts its own configuration there; an owner      *)
(* leaves only by naming an heir, after taking its configuration out; only *)
(* the heir follows; and every change of hands has a new generation.       *)
(***************************************************************************)
EXTENDS Integers

CONSTANTS Instances, NoInst

VARIABLES
  owner,       \* the owning instance
  heir,        \* the instance the directory is reserved for
  generation,  \* of the last change of hands
  tenant       \* the instance whose configuration is in the directory

leaseVars == <<owner, heir, generation, tenant>>

Init ==
  /\ owner = NoInst
  /\ heir = NoInst
  /\ generation = 0
  /\ tenant = NoInst

\* Nobody has ever owned the directory.
Found(i) ==
  /\ generation = 0
  /\ owner' = i
  /\ generation' = 1
  /\ UNCHANGED <<heir, tenant>>

\* The owner's configuration is put in.
Occupy(i) ==
  /\ owner = i
  /\ tenant' = i
  /\ UNCHANGED <<owner, heir, generation>>

\* It is taken out, by the owner or by the client's user.
Vacate ==
  /\ tenant' = NoInst
  /\ UNCHANGED <<owner, heir, generation>>

Bequeath(i, j) ==
  /\ owner = i /\ i # j /\ tenant = NoInst
  /\ owner' = NoInst
  /\ heir' = j
  /\ generation' = generation + 1
  /\ UNCHANGED tenant

Inherit(j) ==
  /\ owner = NoInst /\ heir = j
  /\ owner' = j
  /\ heir' = NoInst
  /\ generation' = generation + 1
  /\ UNCHANGED tenant

Next ==
  \/ Vacate
  \/ \E i \in Instances : Found(i) \/ Occupy(i) \/ Inherit(i)
  \/ \E i, j \in Instances : Bequeath(i, j)

Spec == Init /\ [][Next]_leaseVars
=============================================================================
