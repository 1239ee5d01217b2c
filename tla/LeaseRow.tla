-------------------------------- MODULE LeaseRow --------------------------------
(***************************************************************************)
(* A row of context.db that names its holder and expires: the row of       *)
(* compartment_state_lease, and the wrapup_in_progress_state blob.         *)
(*                                                                         *)
(* A holder id is a fresh UUID per run, so a row names either the current  *)
(* run of a process or an id nobody will ever present again (Orphan).      *)
(* expires_at is kept as the remaining validity in clock ticks: the row is *)
(* live while expires_at > now, that is while ttl > 0.                     *)
(***************************************************************************)
EXTENDS Naturals

CONSTANTS Nobody,   \* no row
          Orphan    \* the id of a run whose process died

NoRow == [holder |-> Nobody, ttl |-> 0]

\* acquireCompartmentLease and acquireWrapupInProgress write a whole row.
Acquired(p, ttl) == [holder |-> p, ttl |-> ttl]

\* Variant: an expired row still blocks.
IsFreeOnlyWhenMissing(row) == row.holder = Nobody

\* The conflict clause of acquireCompartmentLease.  A fresh id never equals
\* the stored one, so only a missing or an expired row yields.
IsFree(row) == row.holder = Nobody \/ row.ttl = 0

\* Variant: any live row will do.
IsHeldByAnyone(row, p) == row.ttl > 0

\* isCompartmentLeaseHeld, and the same test in the two renewals.
IsHeldBy(row, p) == row.holder = p /\ row.ttl > 0

\* releaseCompartmentLease and releaseWrapupInProgress delete only an own row.
Released(row, p) == IF row.holder = p THEN NoRow ELSE row

\* Variant: an expired row is counted on below zero.
OlderWraps(row) == [row EXCEPT !.ttl = @ - 1]

\* One tick of the clock.
Older(row) == [row EXCEPT !.ttl = IF @ > 0 THEN @ - 1 ELSE 0]

\* The process behind the row's id dies; the row stays.
Abandoned(row, p) == IF row.holder = p THEN [row EXCEPT !.holder = Orphan] ELSE row

=============================================================================
