----------------------- MODULE UploadRefinementProofs -----------------------
(***************************************************************************)
(* Proof that the upload handler of index.js implements the atomic quota   *)
(* ledger UploadQuota under the refinement mapping Quota of ImageUpload,   *)
(* for every value of the constants.  Each step of the handler is an       *)
(* admission (the grant of LookupReply), the settling of a write           *)
(* (StoreReply), the end of a window (WindowEnds), a restart (RootCrash),  *)
(* or leaves the ledger as it was (everything before consume, and every    *)
(* rejection).                                                             *)
(***************************************************************************)
EXTENDS ImageUploadProofs

USE ConstAssumption

\* A request parked at getAccountsAsync passed every check of lines 41-96.
LookupClean ==
    \A r \in Requests : req[r].pc = "lookup" => ReceiveError(req[r]) = "none"

LEMMA InitLookupClean == Init => LookupClean
BY DEF Init, IdleRequest, LookupClean

LEMMA NextLookupClean == TypeOK /\ LookupClean /\ [Next]_vars => LookupClean'
<1>. SUFFICES ASSUME TypeOK, LookupClean, [Next]_vars PROVE LookupClean'
  OBVIOUS
<1>1. ASSUME NEW r \in Requests, Receive(r) PROVE LookupClean'
  <2>1. PICK m \in Arrivals :
          req' = [req EXCEPT ![r] =
                    [name |-> m.name, env |-> m.env, sig |-> m.sig,
                     origin |-> m.origin, granted |-> FALSE, epoch |-> 0,
                     pc |-> IF ReceiveError(m) = "none" THEN "lookup" ELSE "done",
                     resp |-> IF ReceiveError(m) = "none" THEN "none"
                              ELSE ReceiveError(m)]]
    BY <1>1 DEF Receive
  <2>2. req'[r].name = m.name /\ req'[r].env = m.env
    BY <2>1 DEF TypeOK
  <2>3. ReceiveError(req'[r]) = ReceiveError(m)
    BY <2>2 DEF ReceiveError
  <2>. QED BY <2>1, <2>3 DEF LookupClean, TypeOK
<1>2. ASSUME NEW r \in Requests, LookupReply(r) PROVE LookupClean'
  <2>1. req'[r].pc # "lookup" /\ \A q \in Requests \ {r} : req'[q] = req[q]
    <3>1. CASE \E s : req' = [req EXCEPT ![r].pc = "done", ![r].resp = s]
      <4>1. PICK s : req' = [req EXCEPT ![r].pc = "done", ![r].resp = s]
        BY <3>1
      <4>. QED BY <4>1 DEF TypeOK
    <3>2. CASE req' = [req EXCEPT ![r].pc = "store", ![r].granted = TRUE,
                                  ![r].epoch = epoch[req[r].name]]
      BY <3>2 DEF TypeOK
    <3>. QED BY <1>2, <3>1, <3>2 DEF LookupReply
  <2>. QED BY <2>1 DEF LookupClean
<1>3. ASSUME NEW r \in Requests, StoreReply(r) PROVE LookupClean'
  <2>1. PICK s : req' = [req EXCEPT ![r].pc = "done", ![r].resp = s]
    BY <1>3 DEF StoreReply
  <2>2. req'[r].pc = "done" /\ \A q \in Requests \ {r} : req'[q] = req[q]
    BY <2>1 DEF TypeOK
  <2>. QED BY <2>2 DEF LookupClean
<1>4. ASSUME NEW n \in Names, WindowEnds(n) PROVE LookupClean'
  BY <1>4 DEF WindowEnds, LookupClean
<1>5. ASSUME RootCrash PROVE LookupClean'
  BY <1>5 DEF RootCrash, LookupClean, TypeOK
<1>6. CASE UNCHANGED vars
  BY <1>6 DEF vars, LookupClean
<1>. QED BY <1>1, <1>2, <1>3, <1>4, <1>5, <1>6 DEF Next

-----------------------------------------------------------------------------
(* The mapping, step by step.                                              *)

\* The ledger's admissions are the grants of the current windows.
LEMMA InitRefined == Init => Quota!QInit
<1>. SUFFICES ASSUME Init PROVE Quota!QInit
  OBVIOUS
<1>1. \A n \in Names : GrantedInWindow(n) = {}
  BY DEF Init, IdleRequest, GrantedInWindow
<1>2. \A n \in Names : Cardinality(GrantedInWindow(n)) = 0
  BY <1>1, FS_EmptySet
<1>3. PendingImages = {}
  BY DEF Init, IdleRequest, PendingImages
<1>. QED BY <1>2, <1>3 DEF Init, Quota!QInit

\* The ledger's admissions, as the mapping computes them.
grantsBar == [n \in Names |-> Cardinality(GrantedInWindow(n))]

LEMMA GrantsBarUnchanged ==
    ASSUME \A n \in Names : GrantedInWindow(n)' = GrantedInWindow(n)
    PROVE  grantsBar' = grantsBar
BY DEF grantsBar

\* A step that moves no request to or from ipfs.add leaves the pending
\* writes as they were.
LEMMA PendingUnchanged ==
    ASSUME \A q \in Requests : /\ (req'[q].pc = "store") = (req[q].pc = "store")
                               /\ req[q].pc = "store" => req'[q].env = req[q].env
    PROVE  PendingImages' = PendingImages
BY DEF PendingImages

\* A step that changes no grant, no window and no pending write, and writes
\* nothing, is a stuttering step of the ledger.
LEMMA LedgerStutter ==
    ASSUME \A n \in Names : GrantedInWindow(n)' = GrantedInWindow(n),
           PendingImages' = PendingImages,
           store' = store
    PROVE  [Quota!QNext]_Quota!qvars
<1>1. grantsBar' = grantsBar
  BY GrantsBarUnchanged
<1>. QED BY <1>1 DEF grantsBar, Quota!qvars

\* Every step of the handler is a step of the ledger or leaves it as it was.
LEMMA NextRefined ==
    ASSUME QuotaInv, QuotaInv', LookupClean, [Next]_vars
    PROVE  [Quota!QNext]_Quota!qvars
<1>0. TypeOK /\ TypeOK'
  BY DEF QuotaInv
<1>1. ASSUME NEW r \in Requests, Receive(r) PROVE [Quota!QNext]_Quota!qvars
  <2>1. PICK m \in Arrivals :
          req' = [req EXCEPT ![r] =
                    [name |-> m.name, env |-> m.env, sig |-> m.sig,
                     origin |-> m.origin, granted |-> FALSE, epoch |-> 0,
                     pc |-> IF ReceiveError(m) = "none" THEN "lookup" ELSE "done",
                     resp |-> IF ReceiveError(m) = "none" THEN "none"
                              ELSE ReceiveError(m)]]
    BY <1>1 DEF Receive
  <2>2. /\ req[r].pc = "idle" /\ req[r].granted = FALSE
        /\ req'[r].pc # "store" /\ req'[r].granted = FALSE
        /\ \A q \in Requests \ {r} : req'[q] = req[q]
    BY <1>0, <1>1, <2>1 DEF Receive, QuotaInv, TypeOK
  <2>3. \A n \in Names : GrantedInWindow(n)' = GrantedInWindow(n)
    <3>1. \A q \in Requests :
             /\ req'[q].granted = req[q].granted
             /\ req[q].granted => /\ req'[q].name = req[q].name
                                 /\ req'[q].epoch = req[q].epoch
      BY <2>2
    <3>2. epoch' = epoch
      BY <1>1 DEF Receive
    <3>. QED BY <3>1, <3>2, GrantedUnchanged
  <2>4. PendingImages' = PendingImages
    BY <2>2, PendingUnchanged
  <2>. QED BY <1>1, <2>3, <2>4, LedgerStutter DEF Receive
<1>2. ASSUME NEW r \in Requests, LookupReply(r) PROVE [Quota!QNext]_Quota!qvars
  <2>. DEFINE n == req[r].name
              i == req[r].env.img
              c == consumed[n] + Cost
  <2>0. /\ n \in Names /\ i \in Images /\ consumed[n] \in Nat
        /\ req[r].pc = "lookup" /\ ~req[r].granted
        /\ epoch' = epoch /\ store' = store
    BY <1>0, <1>2 DEF LookupReply, QuotaInv, TypeOK, Request, Envelope
  <2>1. ASSUME NEW s, req' = [req EXCEPT ![r].pc = "done", ![r].resp = s]
        PROVE  [Quota!QNext]_Quota!qvars
    <3>1. /\ req'[r].pc = "done"
          /\ req'[r].granted = req[r].granted
          /\ \A q \in Requests \ {r} : req'[q] = req[q]
      BY <1>0, <2>1 DEF TypeOK
    <3>2. \A k \in Names : GrantedInWindow(k)' = GrantedInWindow(k)
      BY <2>0, <3>1, GrantedUnchanged
    <3>3. PendingImages' = PendingImages
      BY <2>0, <3>1, PendingUnchanged
    <3>. QED BY <2>0, <3>2, <3>3, LedgerStutter
  <2>2. CASE /\ SignatureError(req[r]) = "none"
             /\ consumed' = [consumed EXCEPT ![n] = c]
             /\ ~OverBudget(c)
             /\ req' = [req EXCEPT ![r].pc = "store", ![r].granted = TRUE,
                                   ![r].epoch = epoch[n]]
    <3>1. /\ req'[r].pc = "store" /\ req'[r].granted /\ req'[r].epoch = epoch[n]
          /\ req'[r].name = n /\ req'[r].env = req[r].env
          /\ \A q \in Requests \ {r} : req'[q] = req[q]
      BY <1>0, <2>2 DEF TypeOK
    \* The pair is admissible: the request passed every check.
    <3>2. <<n, i>> \in AdmissiblePairs
      <4>. DEFINE m == [name |-> n, env |-> req[r].env, sig |-> req[r].sig]
      <4>1. m \in [name : Names, env : Envelopes, sig : Sigs]
        BY <1>0, <2>0 DEF TypeOK, Request
      <4>2. ReceiveError(m) = ReceiveError(req[r])
        BY DEF ReceiveError
      <4>3. SignatureError(m) = SignatureError(req[r])
        BY DEF SignatureError
      <4>4. ReceiveError(req[r]) = "none"
        BY <2>0 DEF LookupClean
      <4>. QED BY <2>2, <4>1, <4>2, <4>3, <4>4 DEF AdmissiblePairs
    \* One more grant of n in its current window, within the budget.
    <3>3. GrantedInWindow(n)' = GrantedInWindow(n) \cup {r}
      BY <2>0, <3>1 DEF GrantedInWindow
    <3>4. r \notin GrantedInWindow(n)
      BY <2>0 DEF GrantedInWindow
    <3>5. Cardinality(GrantedInWindow(n)') = Cardinality(GrantedInWindow(n)) + 1
      BY <3>3, <3>4, GrantedFinite, FS_AddElement
    <3>6. \A k \in Names \ {n} : GrantedInWindow(k)' = GrantedInWindow(k)
      BY <2>0, <3>1 DEF GrantedInWindow
    <3>7. grantsBar' = [grantsBar EXCEPT ![n] = @ + 1]
      <4>1. grantsBar' = [k \in Names |-> Cardinality(GrantedInWindow(k)')]
        BY DEF grantsBar
      <4>2. \A k \in Names : Cardinality(GrantedInWindow(k)') =
                                IF k = n THEN grantsBar[n] + 1 ELSE grantsBar[k]
        BY <2>0, <3>1, <3>5, <3>6 DEF grantsBar
      <4>. QED BY <2>0, <4>1, <4>2 DEF grantsBar
    <3>8. Cost * (grantsBar[n] + 1) <= Points
      <4>1. grantsBar[n] + 1 = Cardinality(GrantedInWindow(n)')
        BY <2>0, <3>5 DEF grantsBar
      <4>2. QuotaRespected'
        BY DEF QuotaInv
      <4>3. Cost * Cardinality(GrantedInWindow(n)') <= Points
        BY <2>0, <3>1, <4>2 DEF QuotaRespected
      <4>. QED BY <4>1, <4>3
    <3>9. PendingImages' = PendingImages \cup {i}
      BY <2>0, <3>1 DEF PendingImages
    <3>10. Quota!Admit(n, i)
      BY <2>0, <3>2, <3>7, <3>8, <3>9 DEF Quota!Admit, grantsBar
    <3>. QED BY <2>0, <3>10 DEF Quota!QNext
  <2>. QED BY <1>2, <2>1, <2>2 DEF LookupReply
<1>3. ASSUME NEW r \in Requests, StoreReply(r) PROVE [Quota!QNext]_Quota!qvars
  <2>. DEFINE i == req[r].env.img
  <2>1. PICK s : req' = [req EXCEPT ![r].pc = "done", ![r].resp = s]
    BY <1>3 DEF StoreReply
  <2>2. /\ req[r].pc = "store" /\ req'[r].pc = "done"
        /\ req'[r].granted = req[r].granted
        /\ \A q \in Requests \ {r} : req'[q] = req[q]
        /\ i \in Images /\ epoch' = epoch
        /\ store' \in {store, store \cup {i}}
    BY <1>0, <1>3, <2>1 DEF StoreReply, TypeOK, Request, Envelope
  <2>3. \A k \in Names : GrantedInWindow(k)' = GrantedInWindow(k)
    <3>1. \A q \in Requests :
             /\ req'[q].granted = req[q].granted
             /\ req[q].granted => /\ req'[q].name = req[q].name
                                 /\ req'[q].epoch = req[q].epoch
      BY <1>0, <2>1, <2>2 DEF TypeOK
    <3>. QED BY <2>2, <3>1, GrantedUnchanged
  <2>4. i \in PendingImages
    BY <2>2 DEF PendingImages
  <2>5. PendingImages' \in {PendingImages, PendingImages \ {i}}
    <3>. DEFINE Others == {q \in Requests \ {r} : req[q].pc = "store"}
    <3>1. PendingImages' = {req[q].env.img : q \in Others}
      BY <2>2 DEF PendingImages
    <3>2. PendingImages = {req[q].env.img : q \in Others} \cup {i}
      BY <2>2 DEF PendingImages
    <3>. QED BY <3>1, <3>2
  <2>6. grantsBar' = grantsBar
    BY <2>3, GrantsBarUnchanged
  <2>7. Quota!Settle(i)
    BY <2>2, <2>4, <2>5, <2>6 DEF Quota!Settle, grantsBar
  <2>. QED BY <2>2, <2>7 DEF Quota!QNext
<1>4. ASSUME NEW n \in Names, WindowEnds(n) PROVE [Quota!QNext]_Quota!qvars
  <2>0. /\ \A q \in Requests :
             /\ req'[q].granted = req[q].granted
             /\ req[q].granted => /\ req'[q].name = req[q].name
                                 /\ req'[q].epoch = req[q].epoch
        /\ epoch'[n] = epoch[n] + 1
        /\ \A k \in Names \ {n} : epoch'[k] = epoch[k]
        /\ req' = req /\ store' = store
    BY <1>0, <1>4 DEF WindowEnds, TypeOK
  <2>1. GrantedInWindow(n)' = {}
    BY <2>0, GrantedEmptied
  <2>2. \A k \in Names \ {n} : GrantedInWindow(k)' = GrantedInWindow(k)
    BY <2>0, GrantedUnchanged
  <2>3. grantsBar' = [grantsBar EXCEPT ![n] = 0]
    BY <2>1, <2>2, FS_EmptySet DEF grantsBar
  <2>4. PendingImages' = PendingImages
    BY <2>0 DEF PendingImages
  <2>5. Quota!Expire(n)
    BY <2>0, <2>3, <2>4 DEF Quota!Expire, grantsBar
  <2>. QED BY <2>5 DEF Quota!QNext
<1>5. ASSUME RootCrash PROVE [Quota!QNext]_Quota!qvars
  <2>0. \A q \in Requests : /\ req'[q].granted = req[q].granted
                            /\ req'[q].name = req[q].name
                            /\ req'[q].epoch = req[q].epoch
                            /\ req'[q].pc # "store"
    BY <1>0, <1>5 DEF RootCrash, TypeOK
  <2>1. \A k \in Names : GrantedInWindow(k)' = {}
    <3>1. \A k \in Names : epoch'[k] = epoch[k] + 1
      BY <1>5 DEF RootCrash
    <3>. QED BY <2>0, <3>1, GrantedEmptied
  <2>2. grantsBar' = [k \in Names |-> 0]
    BY <2>1, FS_EmptySet DEF grantsBar
  <2>3. PendingImages' = {}
    BY <2>0 DEF PendingImages
  <2>4. \E landed \in SUBSET PendingImages : store' = store \cup landed
    BY <1>5 DEF RootCrash, PendingImages
  <2>5. Quota!Restart
    BY <2>2, <2>3, <2>4 DEF Quota!Restart, grantsBar
  <2>. QED BY <2>5 DEF Quota!QNext
<1>6. CASE UNCHANGED vars
  <2>1. \A k \in Names : GrantedInWindow(k)' = GrantedInWindow(k)
    BY <1>6 DEF vars, GrantedInWindow
  <2>2. PendingImages' = PendingImages
    BY <1>6 DEF vars, PendingImages
  <2>. QED BY <1>6, <2>1, <2>2, LedgerStutter DEF vars
<1>. QED BY <1>1, <1>2, <1>3, <1>4, <1>5, <1>6 DEF Next

-----------------------------------------------------------------------------

\* The invariant the refinement rests on: the quota invariant of QuotaSafe
\* and the checks passed by every request parked at the ledger lookup.
RefInv == QuotaInv /\ LookupClean

LEMMA InitRefInv == Init => RefInv
BY InitQuotaInv, InitLookupClean DEF RefInv

LEMMA NextRefInv == RefInv /\ [Next]_vars => RefInv'
BY NextQuotaInv, NextLookupClean DEF RefInv, QuotaInv

\* For every value of the constants, the upload handler implements the
\* atomic quota ledger: with its three awaits, concurrent requests, window
\* expiry and GET / restarts, every step of hdl_upload_s3 is an admission
\* of an authentic upload within the budget, the settling of an admitted
\* write, the end of a window, a restart, or no change to the ledger.
THEOREM Refines == Spec => Refinement
<1>1. Spec => []RefInv
  BY InitRefInv, NextRefInv, PTL DEF Spec
<1>2. RefInv /\ RefInv' /\ [Next]_vars => [Quota!QNext]_Quota!qvars
  BY NextRefined DEF RefInv
<1>. QED BY <1>1, <1>2, InitRefined, PTL DEF Spec, Refinement, Quota!QSpec

=============================================================================
