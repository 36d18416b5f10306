---------------------------- MODULE UploadQuota ----------------------------
(***************************************************************************)
(* What the upload endpoint promises about quota and storage, with no      *)
(* awaits, no messages and no error paths: an upload of image i for name n *)
(* is admitted in one atomic step, only when the pair is admissible (an    *)
(* existing account signed those bytes, and the bytes pass the payload     *)
(* checks) and only while the name's admissions in its current window     *)
(* cost no more than the budget; an admitted image is then written or not; *)
(* a name's window ends on its own; a restart ends every window and drops  *)
(* the uploads in flight, some of whose bytes may still land in the store. *)
(*                                                                         *)
(* ImageUpload implements this specification: see Quota and Refinement    *)
(* there for the mapping.                                                  *)
(***************************************************************************)
EXTENDS Naturals

CONSTANTS
    Names,       \* identities quotas are kept for
    Images,      \* contents that can be uploaded
    Admissible,  \* pairs <<n, i>> an authentic, well-formed upload can carry
    Points,      \* the budget of one window
    Cost         \* what one admission costs

VARIABLES
    grants,   \* grants[n]: admissions of n in its current window
    pending,  \* images admitted whose write has not settled
    store     \* images held by the content store

qvars == <<grants, pending, store>>

QInit ==
    /\ grants = [n \in Names |-> 0]
    /\ pending = {}
    /\ store = {}

\* Check and charge are one step: no two admissions can both take the last
\* part of the budget.
Admit(n, i) ==
    /\ <<n, i>> \in Admissible
    /\ Cost * (grants[n] + 1) <= Points
    /\ grants' = [grants EXCEPT ![n] = @ + 1]
    /\ pending' = pending \cup {i}
    /\ UNCHANGED store

\* The write of an admitted image settles; a failed write may still have
\* reached the store.  Another admission of the same image may still be
\* pending, so the image may stay in pending.
Settle(i) ==
    /\ i \in pending
    /\ pending' \in {pending, pending \ {i}}
    /\ store' \in {store, store \cup {i}}
    /\ UNCHANGED grants

Expire(n) ==
    /\ grants' = [grants EXCEPT ![n] = 0]
    /\ UNCHANGED <<pending, store>>

Restart ==
    /\ grants' = [n \in Names |-> 0]
    /\ pending' = {}
    /\ \E landed \in SUBSET pending : store' = store \cup landed

QNext ==
    \/ \E n \in Names, i \in Images : Admit(n, i)
    \/ \E i \in Images : Settle(i)
    \/ \E n \in Names : Expire(n)
    \/ Restart

QSpec == QInit /\ [][QNext]_qvars

=============================================================================
