-------------------------- MODULE UploadAuthProofs --------------------------
(***************************************************************************)
(* Proofs that the upload server of index.js answers "ok" only for an      *)
(* authentic, well-formed, charged and stored upload, and that the IPFS    *)
(* daemon only receives bytes of a charged request, for every choice of    *)
(* names, accounts, keys, images, limits and budget, with any number of    *)
(* concurrent requests, window expiries and GET / restarts.               *)
(***************************************************************************)
EXTENDS ImageUploadProofs

USE ConstAssumption

\* What AuthInv says of one request x, against the store st.
ReqOK(x, st) ==
    /\ x.pc \in {"lookup", "store"} => x.resp = "none"
    /\ x.pc = "lookup" => ReceiveError(x) = "none"
    /\ x.pc = "store" \/ x.resp = "ok" =>
          /\ ReceiveError(x) = "none"
          /\ SignatureError(x) = "none"
          /\ x.granted
    /\ x.resp = "ok" => x.env.img \in st

LEMMA AuthInvByRequest ==
    AuthInv = (TypeOK /\ \A r \in Requests : ReqOK(req[r], store))
BY DEF AuthInv, ReqOK

\* The store only grows under a request's feet.
LEMMA ReqOKStore ==
    ASSUME NEW x, NEW st, NEW st2, ReqOK(x, st), st \subseteq st2
    PROVE  ReqOK(x, st2)
BY DEF ReqOK

\* A request answered with an error says nothing.
LEMMA ReqOKAnswered ==
    ASSUME NEW x, NEW st, x.pc \notin {"lookup", "store"}, x.resp # "ok"
    PROVE  ReqOK(x, st)
BY DEF ReqOK

\* The checks of lines 46-126, passed, mean what OkImpliesAuthentic asks:
\* a key of the account signed exactly these bytes (a signature over other
\* bytes recovers a key nobody holds), and the payload is well formed.
LEMMA ChecksAuthentic ==
    ASSUME NEW m, m.sig \in Sigs,
           ReceiveError(m) = "none", SignatureError(m) = "none"
    PROVE  /\ m.name \in Accounts
           /\ m.sig # Malformed
           /\ m.sig.msg = m.env.img
           /\ m.sig.signer \in AccountKeys(m.name)
           /\ m.env.type \in AllowedTypes
           /\ ~Exceeds(ImgSize[m.env.img], MaxImageSize)
<1>1. /\ m.name \in Accounts /\ m.sig # Malformed
      /\ Recover(m.sig, m.env.img) \in AccountKeys(m.name)
  BY DEF SignatureError
<1>2. m.env.type \in AllowedTypes /\ ~Exceeds(ImgSize[m.env.img], MaxImageSize)
  BY DEF ReceiveError
<1>3. AccountKeys(m.name) \subseteq Keys
  BY <1>1 DEF AccountKeys
<1>4. m.sig.msg = m.env.img
  BY <1>1, <1>3 DEF Recover
<1>5. m.sig.signer \in AccountKeys(m.name)
  BY <1>1, <1>4 DEF Recover
<1>. QED BY <1>1, <1>2, <1>4, <1>5

LEMMA InitAuthInv == Init => AuthInv
<1>. SUFFICES ASSUME Init PROVE AuthInv
  OBVIOUS
<1>1. \A r \in Requests : req[r].pc = "idle" /\ req[r].resp = "none"
  BY DEF Init, IdleRequest
<1>. QED BY <1>1, InitTypeOK, AuthInvByRequest DEF ReqOK

LEMMA NextAuthInv == AuthInv /\ [Next]_vars => AuthInv'
<1>. SUFFICES ASSUME AuthInv, [Next]_vars PROVE AuthInv'
  OBVIOUS
<1>0. /\ TypeOK /\ TypeOK'
      /\ \A r \in Requests : ReqOK(req[r], store)
  BY NextTypeOK, AuthInvByRequest
<1>. SUFFICES \A q \in Requests : ReqOK(req'[q], store')
  BY <1>0 DEF AuthInv, ReqOK
<1>1. ASSUME NEW r \in Requests, Receive(r) PROVE \A q \in Requests : ReqOK(req'[q], store')
  <2>1. PICK m \in Arrivals :
          req' = [req EXCEPT ![r] =
                    [name |-> m.name, env |-> m.env, sig |-> m.sig,
                     origin |-> m.origin, granted |-> FALSE, epoch |-> 0,
                     pc |-> IF ReceiveError(m) = "none" THEN "lookup" ELSE "done",
                     resp |-> IF ReceiveError(m) = "none" THEN "none"
                              ELSE ReceiveError(m)]]
    BY <1>1 DEF Receive
  <2>2. /\ req'[r].name = m.name /\ req'[r].env = m.env
        /\ req'[r].pc = IF ReceiveError(m) = "none" THEN "lookup" ELSE "done"
        /\ req'[r].resp = IF ReceiveError(m) = "none" THEN "none" ELSE ReceiveError(m)
        /\ \A q \in Requests \ {r} : req'[q] = req[q]
    BY <1>0, <2>1 DEF TypeOK
  <2>3. ReceiveError(req'[r]) = ReceiveError(m)
    BY <2>2 DEF ReceiveError
  <2>4. ReceiveError(m) \in Errors
        => req'[r].pc = "done" /\ req'[r].resp # "ok"
    BY <2>2 DEF Errors
  <2>5. ReqOK(req'[r], store')
    BY <2>2, <2>3, <2>4, ReceiveErrorType DEF ReqOK
  <2>. QED BY <1>0, <1>1, <2>2, <2>5 DEF Receive
<1>2. ASSUME NEW r \in Requests, LookupReply(r) PROVE \A q \in Requests : ReqOK(req'[q], store')
  <2>. DEFINE n == req[r].name
              c == consumed[n] + Cost
  <2>0. /\ req[r].pc = "lookup" /\ req[r].resp = "none"
        /\ ReceiveError(req[r]) = "none"
        /\ UNCHANGED store
    BY <1>0, <1>2 DEF LookupReply, ReqOK
  \* An answer with an error.
  <2>1. ASSUME NEW s \in Errors, req' = [req EXCEPT ![r].pc = "done", ![r].resp = s]
        PROVE  \A q \in Requests : ReqOK(req'[q], store')
    <3>1. req'[r].pc = "done" /\ req'[r].resp = s
          /\ \A q \in Requests \ {r} : req'[q] = req[q]
      BY <1>0, <2>1 DEF TypeOK
    <3>2. ReqOK(req'[r], store')
      BY <3>1, ReqOKAnswered DEF Errors
    <3>. QED BY <1>0, <2>0, <3>1, <3>2
  \* The grant: the request parks at ipfs.add with a point.
  <2>2. ASSUME SignatureError(req[r]) = "none",
               req' = [req EXCEPT ![r].pc = "store", ![r].granted = TRUE,
                                  ![r].epoch = epoch[n]]
        PROVE  \A q \in Requests : ReqOK(req'[q], store')
    <3>1. /\ req'[r].pc = "store" /\ req'[r].granted
          /\ req'[r].resp = req[r].resp
          /\ req'[r].name = req[r].name /\ req'[r].env = req[r].env
          /\ req'[r].sig = req[r].sig
          /\ \A q \in Requests \ {r} : req'[q] = req[q]
      BY <1>0, <2>2 DEF TypeOK, Request
    <3>2. /\ ReceiveError(req'[r]) = ReceiveError(req[r])
          /\ SignatureError(req'[r]) = SignatureError(req[r])
      BY <3>1 DEF ReceiveError, SignatureError
    <3>3. ReqOK(req'[r], store')
      BY <2>0, <2>2, <3>1, <3>2 DEF ReqOK
    <3>. QED BY <1>0, <2>0, <3>1, <3>3
  <2>3. SignatureError(req[r]) # "none" => SignatureError(req[r]) \in Errors
    BY SignatureErrorType
  <2>. QED BY <1>2, <2>1, <2>2, <2>3 DEF LookupReply, Errors
<1>3. ASSUME NEW r \in Requests, StoreReply(r) PROVE \A q \in Requests : ReqOK(req'[q], store')
  <2>. DEFINE i == req[r].env.img
  <2>0. /\ req[r].pc = "store"
        /\ ReceiveError(req[r]) = "none" /\ SignatureError(req[r]) = "none"
        /\ req[r].granted
    BY <1>0, <1>3 DEF StoreReply, ReqOK
  <2>1. PICK s \in {"ok", "StoreUnavailable"} :
          /\ req' = [req EXCEPT ![r].pc = "done", ![r].resp = s]
          /\ store \subseteq store'
          /\ s = "ok" => i \in store'
    BY <1>3 DEF StoreReply
  <2>2. /\ req'[r].pc = "done" /\ req'[r].resp = s
        /\ req'[r].name = req[r].name /\ req'[r].env = req[r].env
        /\ req'[r].sig = req[r].sig /\ req'[r].granted = req[r].granted
        /\ \A q \in Requests \ {r} : req'[q] = req[q]
    BY <1>0, <2>1 DEF TypeOK, Request
  <2>3. /\ ReceiveError(req'[r]) = ReceiveError(req[r])
        /\ SignatureError(req'[r]) = SignatureError(req[r])
    BY <2>2 DEF ReceiveError, SignatureError
  <2>4. ReqOK(req'[r], store')
    BY <2>0, <2>1, <2>2, <2>3 DEF ReqOK
  <2>. QED BY <1>0, <2>1, <2>2, <2>4, ReqOKStore
<1>4. ASSUME NEW n \in Names, WindowEnds(n) PROVE \A q \in Requests : ReqOK(req'[q], store')
  BY <1>0, <1>4 DEF WindowEnds
\* A restart: the parked handlers are lost, unanswered; stored bytes stay.
<1>5. ASSUME RootCrash PROVE \A q \in Requests : ReqOK(req'[q], store')
  <2>1. store \subseteq store'
    BY <1>5 DEF RootCrash
  <2>2. ASSUME NEW q \in Requests PROVE ReqOK(req'[q], store')
    <3>1. CASE req[q].pc \in {"lookup", "store"}
      <4>1. req'[q].pc = "lost" /\ req'[q].resp = req[q].resp
        BY <1>0, <1>5, <3>1 DEF RootCrash, TypeOK, Request
      <4>2. req[q].resp = "none"
        BY <1>0, <3>1 DEF ReqOK
      <4>. QED BY <4>1, <4>2, ReqOKAnswered
    <3>2. CASE req[q].pc \notin {"lookup", "store"}
      <4>1. req'[q] = req[q]
        BY <1>5, <3>2 DEF RootCrash
      <4>. QED BY <1>0, <2>1, <4>1, ReqOKStore
    <3>. QED BY <3>1, <3>2
  <2>. QED BY <2>2
<1>6. CASE UNCHANGED vars
  BY <1>0, <1>6 DEF vars
<1>. QED BY <1>1, <1>2, <1>3, <1>4, <1>5, <1>6 DEF Next

LEMMA AuthInvInvariant == Spec => []AuthInv
BY InitAuthInv, NextAuthInv, PTL DEF Spec

\* However the segments of concurrent requests interleave with window
\* expiries and GET / restarts, hdl_upload_s3 answers with a URL only for
\* an existing account whose posting, active or owner key signed exactly
\* the uploaded bytes, an allowed type within the size limits, a request
\* charged a point, and bytes the IPFS daemon holds.
THEOREM AuthenticOnly == Spec => []OkImpliesAuthentic
<1>1. AuthInv => OkImpliesAuthentic
  <2>. SUFFICES ASSUME AuthInv, NEW r \in Requests, req[r].resp = "ok"
                PROVE  LET m == req[r] IN
                       /\ m.name \in Accounts
                       /\ m.sig # Malformed
                       /\ m.sig.msg = m.env.img
                       /\ m.sig.signer \in AccountKeys(m.name)
                       /\ m.env.type \in AllowedTypes
                       /\ ~Exceeds(ImgSize[m.env.img], MaxImageSize)
                       /\ m.granted
                       /\ m.env.img \in store
    BY DEF OkImpliesAuthentic
  <2>1. /\ ReqOK(req[r], store) /\ req[r].sig \in Sigs
    BY AuthInvByRequest DEF TypeOK, Request
  <2>2. /\ ReceiveError(req[r]) = "none" /\ SignatureError(req[r]) = "none"
        /\ req[r].granted /\ req[r].env.img \in store
    BY <2>1 DEF ReqOK
  <2>. QED BY <2>1, <2>2, ChecksAuthentic
<1>. QED BY <1>1, AuthInvInvariant, PTL

\* A step that adds bytes to the IPFS daemon's content, StoreReply or the
\* completion of a lost ipfs.add at a restart, adds only the image of a
\* request parked at ipfs.add holding a point: ipfs.add is never reached
\* before rateLimiter.consume granted the request.
THEOREM ChargedBeforeWrite == Spec => NoWriteWithoutCharge
<1>1. AuthInv /\ [Next]_vars => [WriteCharged]_vars
  <2>. SUFFICES ASSUME AuthInv, [Next]_vars, NEW i \in store' \ store
                PROVE  \E r \in Requests : /\ req[r].pc = "store"
                                           /\ req[r].granted
                                           /\ req[r].env.img = i
    BY DEF WriteCharged
  <2>0. \A r \in Requests : req[r].pc = "store" => req[r].granted
    BY AuthInvByRequest DEF ReqOK
  <2>1. ASSUME NEW r \in Requests, StoreReply(r)
        PROVE  \E q \in Requests : /\ req[q].pc = "store"
                                   /\ req[q].granted
                                   /\ req[q].env.img = i
    <3>1. store' \subseteq store \cup {req[r].env.img} /\ req[r].pc = "store"
      BY <2>1 DEF StoreReply
    <3>. QED BY <2>0, <3>1
  <2>2. ASSUME RootCrash
        PROVE  \E q \in Requests : /\ req[q].pc = "store"
                                   /\ req[q].granted
                                   /\ req[q].env.img = i
    <3>1. PICK sent \in SUBSET {req[q].env.img : q \in {q \in Requests :
                                                   req[q].pc = "store"}} :
            store' = store \cup sent
      BY <2>2 DEF RootCrash
    <3>. QED BY <2>0, <3>1
  <2>3. ASSUME NEW r \in Requests, Receive(r) \/ LookupReply(r) PROVE FALSE
    BY <2>3 DEF Receive, LookupReply
  <2>4. ASSUME NEW n \in Names, WindowEnds(n) PROVE FALSE
    BY <2>4 DEF WindowEnds
  <2>5. CASE UNCHANGED vars
    BY <2>5 DEF vars
  <2>. QED BY <2>1, <2>2, <2>3, <2>4, <2>5 DEF Next
<1>2. []AuthInv /\ [][Next]_vars => [][WriteCharged]_vars
  BY <1>1, PTL
<1>. QED BY <1>2, AuthInvInvariant, PTL DEF Spec, NoWriteWithoutCharge

=============================================================================
