------------------------- MODULE ImageUploadProofs -------------------------
(***************************************************************************)
(* Proofs about ImageUpload for every value of its constants: the type     *)
(* invariant, and that the rate limiter never lets a name's uploads in one *)
(* window cost more than the budget, however requests interleave across   *)
(* the awaits of hdl_upload_s3, windows end and GET / restarts the process.*)
(***************************************************************************)
EXTENDS ImageUpload, FiniteSetTheorems, TLAPS

USE ConstAssumption

-----------------------------------------------------------------------------
(* Type correctness.                                                       *)

\* Every arrival, fresh or replayed, is built from values of the right sets.
LEMMA ArrivalType ==
    ASSUME TypeOK, NEW m \in Arrivals
    PROVE  /\ m.name \in Names /\ m.env \in Envelopes /\ m.sig \in Sigs
           /\ m.origin \in {"fresh", "replay"}
BY DEF Arrivals, TypeOK, Request

LEMMA ReceiveErrorType ==
    ASSUME NEW m PROVE ReceiveError(m) \in Errors \cup {"none"}
BY DEF ReceiveError, Errors

LEMMA SignatureErrorType ==
    ASSUME NEW m PROVE SignatureError(m) \in Errors \cup {"none"}
BY DEF SignatureError, Errors

\* A handler that answers, or parks at ipfs.add after a grant, keeps the
\* request table well typed.
LEMMA SetDone ==
    ASSUME TypeOK, NEW r \in Requests, NEW s \in Errors \cup {"ok"}
    PROVE  [req EXCEPT ![r].pc = "done", ![r].resp = s] \in [Requests -> Request]
<1>1. req[r] \in Request
  BY DEF TypeOK
<1>2. [req[r] EXCEPT !.pc = "done", !.resp = s] \in Request
  BY <1>1 DEF Request, PCs, Responses
<1>3. [req EXCEPT ![r].pc = "done", ![r].resp = s]
        = [req EXCEPT ![r] = [req[r] EXCEPT !.pc = "done", !.resp = s]]
  OBVIOUS
<1>. QED BY <1>2, <1>3 DEF TypeOK

LEMMA SetGranted ==
    ASSUME TypeOK, NEW r \in Requests, NEW e \in Nat
    PROVE  [req EXCEPT ![r].pc = "store", ![r].granted = TRUE, ![r].epoch = e]
             \in [Requests -> Request]
<1>1. req[r] \in Request
  BY DEF TypeOK
<1>2. [req[r] EXCEPT !.pc = "store", !.granted = TRUE, !.epoch = e] \in Request
  BY <1>1 DEF Request, PCs
<1>3. [req EXCEPT ![r].pc = "store", ![r].granted = TRUE, ![r].epoch = e]
        = [req EXCEPT ![r] = [req[r] EXCEPT !.pc = "store", !.granted = TRUE,
                                            !.epoch = e]]
  OBVIOUS
<1>. QED BY <1>2, <1>3 DEF TypeOK

LEMMA InitTypeOK == Init => TypeOK
<1>1. IdleRequest \in Request
  <2>1. /\ (CHOOSE n \in Names : TRUE) \in Names
        /\ (CHOOSE e \in Envelopes : TRUE) \in Envelopes
        /\ (CHOOSE s \in Sigs : TRUE) \in Sigs
    OBVIOUS
  <2>. QED BY <2>1 DEF IdleRequest, Request, PCs, Responses
<1>. QED BY <1>1 DEF Init, TypeOK

LEMMA NextTypeOK == TypeOK /\ [Next]_vars => TypeOK'
<1>. SUFFICES ASSUME TypeOK, [Next]_vars PROVE TypeOK'
  OBVIOUS
<1>1. ASSUME NEW r \in Requests, Receive(r) PROVE TypeOK'
  <2>1. PICK m \in Arrivals :
          req' = [req EXCEPT ![r] =
                    [name |-> m.name, env |-> m.env, sig |-> m.sig,
                     origin |-> m.origin, granted |-> FALSE, epoch |-> 0,
                     pc |-> IF ReceiveError(m) = "none" THEN "lookup" ELSE "done",
                     resp |-> IF ReceiveError(m) = "none" THEN "none"
                              ELSE ReceiveError(m)]]
    BY <1>1 DEF Receive
  <2>2. /\ m.name \in Names /\ m.env \in Envelopes /\ m.sig \in Sigs
        /\ m.origin \in {"fresh", "replay"}
    BY ArrivalType
  <2>3. ReceiveError(m) \in Errors \cup {"none"}
    BY ReceiveErrorType
  <2>. QED BY <1>1, <2>1, <2>2, <2>3 DEF Receive, TypeOK, Request, PCs, Responses
<1>2. ASSUME NEW r \in Requests, LookupReply(r) PROVE TypeOK'
  <2>. DEFINE n == req[r].name
              c == consumed[n] + Cost
  <2>1. n \in Names /\ c \in Nat /\ epoch[n] \in Nat
    BY DEF TypeOK, Request
  <2>2. SignatureError(req[r]) \in Errors \cup {"none"}
    BY SignatureErrorType
  <2>3. CASE req' = [req EXCEPT ![r].pc = "done", ![r].resp = "LookupFailed"]
             /\ UNCHANGED consumed
    BY <1>2, <2>3, SetDone DEF LookupReply, TypeOK, Errors
  <2>4. CASE /\ SignatureError(req[r]) # "none"
             /\ req' = [req EXCEPT ![r].pc = "done",
                                   ![r].resp = SignatureError(req[r])]
             /\ UNCHANGED consumed
    BY <1>2, <2>2, <2>4, SetDone DEF LookupReply, TypeOK
  <2>5. CASE /\ SignatureError(req[r]) = "none"
             /\ consumed' = [consumed EXCEPT ![n] = c]
             /\ req' = IF OverBudget(c)
                       THEN [req EXCEPT ![r].pc = "done",
                                        ![r].resp = "RateLimitExceeded"]
                       ELSE [req EXCEPT ![r].pc = "store", ![r].granted = TRUE,
                                        ![r].epoch = epoch[n]]
    <3>1. req' \in [Requests -> Request]
      BY <2>1, <2>5, SetDone, SetGranted DEF Errors
    <3>. QED BY <1>2, <2>1, <2>5, <3>1 DEF LookupReply, TypeOK
  <2>. QED BY <1>2, <2>3, <2>4, <2>5 DEF LookupReply
<1>3. ASSUME NEW r \in Requests, StoreReply(r) PROVE TypeOK'
  <2>. DEFINE i == req[r].env.img
  <2>1. i \in Images
    BY DEF TypeOK, Request, Envelope
  <2>2. CASE /\ store' = store \cup {i}
             /\ req' = [req EXCEPT ![r].pc = "done", ![r].resp = "ok"]
    BY <1>3, <2>1, <2>2, SetDone DEF StoreReply, TypeOK
  <2>3. CASE /\ store' \in {store, store \cup {i}}
             /\ req' = [req EXCEPT ![r].pc = "done",
                                   ![r].resp = "StoreUnavailable"]
    BY <1>3, <2>1, <2>3, SetDone DEF StoreReply, TypeOK, Errors
  <2>. QED BY <1>3, <2>2, <2>3 DEF StoreReply
<1>4. ASSUME NEW n \in Names, WindowEnds(n) PROVE TypeOK'
  BY <1>4 DEF WindowEnds, TypeOK
<1>5. ASSUME RootCrash PROVE TypeOK'
  <2>1. req' \in [Requests -> Request]
    <3>1. ASSUME NEW q \in Requests PROVE [req[q] EXCEPT !.pc = "lost"] \in Request
      BY DEF TypeOK, Request, PCs
    <3>. QED BY <1>5, <3>1 DEF RootCrash, TypeOK
  <2>2. store' \subseteq Images
    BY <1>5 DEF RootCrash, TypeOK, Request, Envelope
  <2>. QED BY <1>5, <2>1, <2>2 DEF RootCrash, TypeOK
<1>6. CASE UNCHANGED vars
  BY <1>6 DEF vars, TypeOK
<1>. QED BY <1>1, <1>2, <1>3, <1>4, <1>5, <1>6 DEF Next

\* The type invariant of ImageUpload holds in every reachable state.
THEOREM TypeCorrect == Spec => []TypeOK
BY InitTypeOK, NextTypeOK, PTL DEF Spec

-----------------------------------------------------------------------------
(* The rate limiter's budget.                                              *)

LEMMA GrantedFinite ==
    ASSUME NEW n PROVE IsFiniteSet(GrantedInWindow(n))
<1>1. GrantedInWindow(n) \subseteq Requests
  BY DEF GrantedInWindow
<1>. QED BY <1>1, FS_Subset

LEMMA GrantedCardinality ==
    ASSUME NEW n PROVE Cardinality(GrantedInWindow(n)) \in Nat
BY GrantedFinite, FS_CardinalityType

\* A step that grants nothing new and starts no window leaves every name's
\* grants of the current window as they were.
LEMMA GrantedUnchanged ==
    ASSUME NEW n,
           \A q \in Requests :
               /\ req'[q].granted = req[q].granted
               /\ req[q].granted => /\ req'[q].name = req[q].name
                                   /\ req'[q].epoch = req[q].epoch,
           epoch'[n] = epoch[n]
    PROVE  GrantedInWindow(n)' = GrantedInWindow(n)
BY DEF GrantedInWindow

\* A step that starts a new window for n leaves n with no grants in it.
LEMMA GrantedEmptied ==
    ASSUME QuotaInv, NEW n \in Names,
           epoch'[n] = epoch[n] + 1,
           \A q \in Requests :
               /\ req'[q].granted = req[q].granted
               /\ req[q].granted => /\ req'[q].name = req[q].name
                                   /\ req'[q].epoch = req[q].epoch
    PROVE  GrantedInWindow(n)' = {}
BY DEF QuotaInv, TypeOK, GrantedInWindow

LEMMA InitQuotaInv == Init => QuotaInv
<1>. SUFFICES ASSUME Init PROVE QuotaInv
  OBVIOUS
<1>1. TypeOK
  BY InitTypeOK
<1>2. \A n \in Names : GrantedInWindow(n) = {}
  BY DEF Init, IdleRequest, GrantedInWindow
<1>3. \A n \in Names : Cost * Cardinality(GrantedInWindow(n)) = 0
  <2>1. Cardinality({}) = 0
    BY FS_EmptySet
  <2>2. \A n \in Names : Cardinality(GrantedInWindow(n)) = 0
    BY <1>2, <2>1
  <2>3. Cost \in Nat
    OBVIOUS
  <2>. QED BY <2>2, <2>3
<1>4. \A r \in Requests : req[r].pc = "idle" /\ ~req[r].granted
  BY DEF Init, IdleRequest
<1>5. \A n \in Names : consumed[n] = 0
  BY DEF Init
<1>. QED BY <1>1, <1>3, <1>4, <1>5 DEF QuotaInv, QuotaRespected

\* A handler that answers keeps the invariant, whatever it does to the
\* counters as long as it does not lower them.
LEMMA AnswerKeepsQuotaInv ==
    ASSUME QuotaInv, TypeOK', NEW r \in Requests, NEW s,
           req' = [req EXCEPT ![r].pc = "done", ![r].resp = s],
           epoch' = epoch,
           \A n \in Names : consumed[n] <= consumed'[n]
    PROVE  QuotaInv'
<1>1. \A q \in Requests : /\ req'[q].granted = req[q].granted
                          /\ req'[q].name = req[q].name
                          /\ req'[q].epoch = req[q].epoch
  BY DEF QuotaInv, TypeOK
<1>2. \A n \in Names : GrantedInWindow(n)' = GrantedInWindow(n)
  BY <1>1, GrantedUnchanged
<1>3. \A q \in Requests : req'[q].pc \in {"idle", "lookup"} => ~req'[q].granted
  BY <1>1 DEF QuotaInv, TypeOK
<1>4. \A q \in Requests : req'[q].granted => req'[q].epoch <= epoch'[req'[q].name]
  BY <1>1 DEF QuotaInv
<1>5. \A n \in Names : Cost * Cardinality(GrantedInWindow(n)') <= consumed'[n]
  <2>. SUFFICES ASSUME NEW n \in Names
                PROVE  Cost * Cardinality(GrantedInWindow(n)) <= consumed'[n]
    BY <1>2
  <2>1. Cardinality(GrantedInWindow(n)) \in Nat
    BY GrantedCardinality
  <2>2. consumed[n] \in Nat /\ consumed'[n] \in Nat
    BY DEF QuotaInv, TypeOK
  <2>. QED BY <2>1, <2>2 DEF QuotaInv
<1>6. QuotaRespected'
  BY <1>2 DEF QuotaInv, QuotaRespected
<1>. QED BY <1>3, <1>4, <1>5, <1>6 DEF QuotaInv

LEMMA NextQuotaInv == QuotaInv /\ [Next]_vars => QuotaInv'
<1>. SUFFICES ASSUME QuotaInv, [Next]_vars PROVE QuotaInv'
  OBVIOUS
<1>0. TypeOK /\ TypeOK'
  BY NextTypeOK DEF QuotaInv
<1>1. ASSUME NEW r \in Requests, Receive(r) PROVE QuotaInv'
  <2>1. PICK m \in Arrivals :
          req' = [req EXCEPT ![r] =
                    [name |-> m.name, env |-> m.env, sig |-> m.sig,
                     origin |-> m.origin, granted |-> FALSE, epoch |-> 0,
                     pc |-> IF ReceiveError(m) = "none" THEN "lookup" ELSE "done",
                     resp |-> IF ReceiveError(m) = "none" THEN "none"
                              ELSE ReceiveError(m)]]
    BY <1>1 DEF Receive
  <2>2. req[r].granted = FALSE /\ req'[r].granted = FALSE
    BY <1>1, <2>1 DEF Receive, QuotaInv, TypeOK, Request
  <2>3. \A q \in Requests \ {r} : req'[q] = req[q]
    BY <2>1 DEF QuotaInv, TypeOK
  <2>4. \A q \in Requests :
           /\ req'[q].granted = req[q].granted
           /\ req[q].granted => /\ req'[q].name = req[q].name
                               /\ req'[q].epoch = req[q].epoch
    BY <2>2, <2>3
  <2>5. \A n \in Names : GrantedInWindow(n)' = GrantedInWindow(n)
    BY <1>1, <2>4, GrantedUnchanged DEF Receive
  <2>. QED BY <1>0, <1>1, <2>2, <2>3, <2>5 DEF Receive, QuotaInv, QuotaRespected
<1>2. ASSUME NEW r \in Requests, LookupReply(r) PROVE QuotaInv'
  <2>. DEFINE n == req[r].name
              c == consumed[n] + Cost
  <2>0. n \in Names /\ consumed[n] \in Nat /\ req[r].pc = "lookup"
        /\ epoch' = epoch
    BY <1>2 DEF LookupReply, QuotaInv, TypeOK, Request
  <2>1. ASSUME NEW s,
               req' = [req EXCEPT ![r].pc = "done", ![r].resp = s],
               UNCHANGED consumed
        PROVE  QuotaInv'
    <3>1. \A k \in Names : consumed[k] <= consumed'[k]
      BY <2>1 DEF QuotaInv, TypeOK
    <3>. QED BY <1>0, <2>0, <2>1, <3>1, AnswerKeepsQuotaInv
  <2>2. CASE /\ SignatureError(req[r]) = "none"
             /\ consumed' = [consumed EXCEPT ![n] = c]
             /\ OverBudget(c)
             /\ req' = [req EXCEPT ![r].pc = "done",
                                   ![r].resp = "RateLimitExceeded"]
    <3>1. \A k \in Names : consumed[k] <= consumed'[k]
      BY <2>0, <2>2 DEF QuotaInv, TypeOK
    <3>. QED BY <1>0, <2>0, <2>2, <3>1, AnswerKeepsQuotaInv
  <2>3. CASE /\ SignatureError(req[r]) = "none"
             /\ consumed' = [consumed EXCEPT ![n] = c]
             /\ ~OverBudget(c)
             /\ req' = [req EXCEPT ![r].pc = "store", ![r].granted = TRUE,
                                   ![r].epoch = epoch[n]]
    <3>. DEFINE X == Cardinality(GrantedInWindow(n))
    <3>0. req'[r].name = n
      BY <2>0, <2>3 DEF QuotaInv, TypeOK
    <3>1. req[r].granted = FALSE
      BY <2>0 DEF QuotaInv, TypeOK, Request
    <3>2. GrantedInWindow(n)' = GrantedInWindow(n) \cup {r}
      BY <2>0, <2>3 DEF GrantedInWindow, QuotaInv, TypeOK
    <3>3. r \notin GrantedInWindow(n)
      BY <3>1 DEF GrantedInWindow
    <3>4. Cardinality(GrantedInWindow(n)') = X + 1
      BY <3>2, <3>3, GrantedFinite, FS_AddElement
    <3>5. \A k \in Names \ {n} : GrantedInWindow(k)' = GrantedInWindow(k)
      BY <2>0, <2>3 DEF GrantedInWindow, QuotaInv, TypeOK
    <3>6. Cost * Cardinality(GrantedInWindow(n)') <= c /\ c <= Points
      <4>1. X \in Nat
        BY GrantedCardinality
      <4>2. Cost * X <= consumed[n]
        BY <2>0 DEF QuotaInv
      <4>3. Cost * (X + 1) = Cost * X + Cost
        BY <4>1
      <4>. QED BY <2>0, <2>3, <3>4, <4>1, <4>2, <4>3 DEF OverBudget
    <3>7. \A k \in Names : Cost * Cardinality(GrantedInWindow(k)') <= consumed'[k]
      <4>. SUFFICES ASSUME NEW k \in Names
                    PROVE  Cost * Cardinality(GrantedInWindow(k)') <= consumed'[k]
        OBVIOUS
      <4>1. CASE k = n
        BY <2>3, <3>6, <4>1 DEF QuotaInv, TypeOK
      <4>2. CASE k # n
        BY <2>3, <3>5, <4>2 DEF QuotaInv, TypeOK
      <4>. QED BY <4>1, <4>2
    <3>8. QuotaRespected'
      <4>. SUFFICES ASSUME NEW k \in Names
                    PROVE  Cost * Cardinality(GrantedInWindow(k)') <= Points
        BY DEF QuotaRespected
      <4>1. CASE k = n
        <5>1. X \in Nat
          BY GrantedCardinality
        <5>. QED BY <2>0, <3>0, <3>4, <3>6, <4>1, <5>1
      <4>2. CASE k # n
        <5>1. GrantedInWindow(k)' = GrantedInWindow(k)
          BY <3>5, <4>2
        <5>2. Cost * Cardinality(GrantedInWindow(k)) <= Points
          BY DEF QuotaInv, QuotaRespected
        <5>. QED BY <5>1, <5>2
      <4>. QED BY <4>1, <4>2
    <3>9. \A q \in Requests : req'[q].pc \in {"idle", "lookup"} => ~req'[q].granted
      BY <2>3 DEF QuotaInv, TypeOK
    <3>10. \A q \in Requests : req'[q].granted => req'[q].epoch <= epoch'[req'[q].name]
      BY <2>0, <2>3 DEF QuotaInv, TypeOK
    <3>. QED BY <1>0, <3>7, <3>8, <3>9, <3>10 DEF QuotaInv
  <2>. QED BY <1>2, <2>1, <2>2, <2>3 DEF LookupReply
<1>3. ASSUME NEW r \in Requests, StoreReply(r) PROVE QuotaInv'
  <2>1. \A k \in Names : consumed[k] <= consumed'[k]
    BY <1>3 DEF StoreReply, QuotaInv, TypeOK
  <2>2. epoch' = epoch
    BY <1>3 DEF StoreReply
  <2>3. \E s : req' = [req EXCEPT ![r].pc = "done", ![r].resp = s]
    BY <1>3 DEF StoreReply
  <2>. QED BY <1>0, <2>1, <2>2, <2>3, AnswerKeepsQuotaInv
<1>4. ASSUME NEW n \in Names, WindowEnds(n) PROVE QuotaInv'
  <2>0. \A q \in Requests :
           /\ req'[q].granted = req[q].granted
           /\ req[q].granted => /\ req'[q].name = req[q].name
                               /\ req'[q].epoch = req[q].epoch
    BY <1>4 DEF WindowEnds
  <2>1. GrantedInWindow(n)' = {}
    <3>1. epoch'[n] = epoch[n] + 1
      BY <1>4 DEF WindowEnds, QuotaInv, TypeOK
    <3>. QED BY <2>0, <3>1, GrantedEmptied
  <2>2. \A k \in Names \ {n} : GrantedInWindow(k)' = GrantedInWindow(k)
    <3>1. \A k \in Names \ {n} : epoch'[k] = epoch[k]
      BY <1>4 DEF WindowEnds, QuotaInv, TypeOK
    <3>. QED BY <2>0, <3>1, GrantedUnchanged
  <2>3. Cost * Cardinality(GrantedInWindow(n)') = 0
    <3>1. Cardinality({}) = 0
      BY FS_EmptySet
    <3>. QED BY <2>1, <3>1
  <2>4. \A k \in Names : Cost * Cardinality(GrantedInWindow(k)') <= consumed'[k]
    BY <1>4, <2>2, <2>3 DEF WindowEnds, QuotaInv, TypeOK
  <2>5. QuotaRespected'
    BY <2>2, <2>3 DEF QuotaInv, QuotaRespected
  <2>6. \A q \in Requests : req'[q].granted => req'[q].epoch <= epoch'[req'[q].name]
    BY <1>4 DEF WindowEnds, QuotaInv, TypeOK, Request
  <2>. QED BY <1>0, <1>4, <2>4, <2>5, <2>6 DEF WindowEnds, QuotaInv
<1>5. ASSUME RootCrash PROVE QuotaInv'
  <2>1. \A q \in Requests : /\ req'[q].granted = req[q].granted
                            /\ req'[q].name = req[q].name
                            /\ req'[q].epoch = req[q].epoch
                            /\ req'[q].pc \in {req[q].pc, "lost"}
    BY <1>5 DEF RootCrash, QuotaInv, TypeOK
  <2>2. \A k \in Names : GrantedInWindow(k)' = {}
    <3>1. \A k \in Names : epoch'[k] = epoch[k] + 1
      BY <1>5 DEF RootCrash
    <3>. QED BY <2>1, <3>1, GrantedEmptied
  <2>3. \A k \in Names : Cardinality(GrantedInWindow(k)') = 0
    <3>1. Cardinality({}) = 0
      BY FS_EmptySet
    <3>. QED BY <2>2, <3>1
  <2>4. \A k \in Names : consumed'[k] = 0
    BY <1>5 DEF RootCrash
  <2>5. \A q \in Requests : req'[q].pc \in {"idle", "lookup"} => ~req'[q].granted
    BY <2>1 DEF QuotaInv
  <2>6. \A q \in Requests : req'[q].granted => req'[q].epoch <= epoch'[req'[q].name]
    BY <1>5, <2>1 DEF RootCrash, QuotaInv, TypeOK, Request
  <2>. QED BY <1>0, <2>3, <2>4, <2>5, <2>6 DEF QuotaInv, QuotaRespected
<1>6. CASE UNCHANGED vars
  BY <1>6 DEF vars, QuotaInv, QuotaRespected, TypeOK, GrantedInWindow
<1>. QED BY <1>1, <1>2, <1>3, <1>4, <1>5, <1>6 DEF Next

\* However requests interleave, windows end and GET / restarts the process,
\* the uploads the rate limiter lets through in a name's window never cost
\* more than its budget.
THEOREM QuotaSafe == Spec => []QuotaRespected
<1>1. QuotaInv => QuotaRespected
  BY DEF QuotaInv
<1>. QED BY InitQuotaInv, NextQuotaInv, <1>1, PTL DEF Spec

=============================================================================
