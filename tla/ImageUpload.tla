---------------------------- MODULE ImageUpload ----------------------------
(***************************************************************************)
(* The image-upload server of src/storage/imageupload/src/index.js: the    *)
(* POST /:username/:sig handler hdl_upload_s3, the process-wide            *)
(* RateLimiterMemory it consumes from, the IPFS daemon it adds content to, *)
(* and the GET / handler whose unbound res.send takes the process down.    *)
(*                                                                         *)
(* Node runs one handler segment at a time.  hdl_upload_s3 yields at three *)
(* awaits: getAccountsAsync (line 98), rateLimiter.consume (line 129) and   *)
(* ipfs.add (line 131).  consume settles synchronously inside the call, so  *)
(* its await resumes in the same microtask checkpoint and no other request  *)
(* runs in between; the model therefore has one action per segment         *)
(* between two I/O awaits:                                                  *)
(*   Receive      lines 41-98   arrival, decoding, name syntax, RPC issued  *)
(*   LookupReply  lines 98-131  signature checks, consume, ipfs.add issued  *)
(*   StoreReply   lines 131-141 URL built and the response sent             *)
(* Each request is a record in req; its pc says which await it is parked   *)
(* at.  Data is abstract: an image is a model value with a size, a         *)
(* signature is the pair (signing key, signed image).                      *)
(***************************************************************************)
EXTENDS Naturals, FiniteSets

CONSTANTS
    Requests,      \* identities of the HTTP requests the model lets arrive
    Names,         \* strings a client can put in the :username path segment
    ValidNames,    \* names chainLib.utils.validateAccountName accepts
    Accounts,      \* names getAccountsAsync finds on chain
    Keys,          \* public keys
    AuthKey,       \* AuthKey[a][role]: key_auths[0][0] of that authority
    BogusKey,      \* the key recovered from a signature over other bytes
    Images,        \* decoded image contents (buffer)
    ImgSize,       \* ImgSize[i] = buffer.length
    Types,         \* media types a data: URL may declare
    Envelopes,     \* jsonBody.data values clients send (see Envelope)
    Sigs,          \* :sig values clients send (see Signature)
    Malformed,     \* a :sig that Signature.fromBuffer rejects
    Unset,         \* value of an environment variable that is not set
    MaxJsonBody,   \* process.env.MAX_JSON_BODY_IN_BYTES
    MaxImageSize,  \* process.env.MAX_IMAGE_SIZE_IN_BYTES
    Points,        \* rate_limit_opts.points
    Cost,          \* points consumed per upload (line 129)
    MaxEpoch       \* bound on rate-limit windows started per name

Roles == {"posting", "active", "owner"}

\* The allow-list of lines 73-77.
AllowedTypes == {"jpeg", "jpg", "png", "gif", "webp"}

\* A data URL: the declared type, whether a comma sits at index 21, 22 or
\* 23 (lines 57-66), and the bytes its base64 part decodes to.
Envelope == [type : Types, comma : BOOLEAN, img : Images]

\* A well-formed signature: who signed which bytes.
Signature == [signer : Keys, msg : Images]

ASSUME ConstAssumption ==
    /\ IsFiniteSet(Requests)
    /\ Names # {} /\ Envelopes # {} /\ Sigs # {}
    /\ ValidNames \subseteq Names
    /\ Accounts \subseteq ValidNames
    /\ AuthKey \in [Accounts -> [Roles -> Keys]]
    /\ BogusKey \notin Keys
    /\ ImgSize \in [Images -> Nat]
    /\ AllowedTypes \cap Types # {}
    /\ Envelopes \subseteq Envelope
    /\ Malformed \notin Signature
    /\ Sigs \subseteq Signature \cup {Malformed}
    /\ Unset \notin Nat
    /\ MaxJsonBody \in Nat \cup {Unset}
    /\ MaxImageSize \in Nat \cup {Unset}
    /\ Points \in Nat
    /\ Cost \in Nat \ {0}
    /\ MaxEpoch \in Nat

VARIABLES
    req,       \* req[r]: request r and where its handler is parked
    consumed,  \* consumed[n]: consumedPoints of RateLimiterMemory key n
    epoch,     \* epoch[n]: how many windows of key n have ended (history)
    store      \* the contents the IPFS daemon holds

vars == <<req, consumed, epoch, store>>

PCs == {"idle", "lookup", "store", "done", "lost"}

Errors == {"PayloadTooLarge", "MalformedPayload", "InvalidAccountName",
           "LookupFailed", "UnknownAccount", "MalformedSignature",
           "SignatureKeyMismatch", "InvalidSignature", "RateLimitExceeded",
           "StoreUnavailable"}

Responses == {"none", "ok"} \cup Errors

Request == [name : Names, env : Envelopes, sig : Sigs,
            origin : {"fresh", "replay"}, pc : PCs, resp : Responses,
            granted : BOOLEAN, epoch : Nat]

-----------------------------------------------------------------------------
(* Conversions and library calls the handler makes.                        *)

\* `x > process.env.V`: a missing variable compares as NaN, never greater.
Exceeds(n, limit) == limit # Unset /\ n > limit

\* jsonBody.data.length: the prefix up to the comma, then 4 base64
\* characters for every started group of 3 bytes.
DataLength(e) == 23 + 4 * ((ImgSize[e.img] + 2) \div 3)

\* The keys lines 106-108 read: the first key of each authority.
AccountKeys(a) == {AuthKey[a][role] : role \in Roles}

\* recoverPublicKeyFromBuffer: the signer's key when the signature is over
\* these bytes, an unrelated key otherwise.
Recover(s, i) == IF s.msg = i THEN s.signer ELSE BogusKey

\* verifyBuffer(buffer, key).
Verify(s, i, k) == s.msg = i /\ s.signer = k

\* The throw of lines 46-96 a request meets before the RPC, or "none".
ReceiveError(m) ==
    IF Exceeds(DataLength(m.env), MaxJsonBody) THEN "PayloadTooLarge"
    ELSE IF ~m.env.comma THEN "MalformedPayload"
    ELSE IF m.env.type \notin AllowedTypes THEN "MalformedPayload"
    ELSE IF Exceeds(ImgSize[m.env.img], MaxImageSize) THEN "PayloadTooLarge"
    ELSE IF m.name \notin ValidNames THEN "InvalidAccountName"
    ELSE "none"

\* Seeded fault for OkImpliesAuthentic: the switch on the recovered key
\* of lines 110-118 left out.
SignatureErrorNoKeyMatch(m) ==
    IF m.name \notin Accounts THEN "UnknownAccount"
    ELSE IF m.sig = Malformed THEN "MalformedSignature"
    ELSE IF ~Verify(m.sig, m.env.img, Recover(m.sig, m.env.img))
         THEN "InvalidSignature"
    ELSE "none"

\* The throw of lines 99-126 once the account lookup succeeded, or "none".
SignatureError(m) ==
    IF m.name \notin Accounts THEN "UnknownAccount"
    ELSE IF m.sig = Malformed THEN "MalformedSignature"
    ELSE IF Recover(m.sig, m.env.img) \notin AccountKeys(m.name)
         THEN "SignatureKeyMismatch"
    ELSE IF ~Verify(m.sig, m.env.img, Recover(m.sig, m.env.img))
         THEN "InvalidSignature"
    ELSE "none"

\* Seeded fault for QuotaRespected: the budget tested against the count
\* before this request's points are added.
OverBudgetBeforeIncrement(c) == c - Cost > Points

\* RateLimiterMemory.consume rejects when the incremented count is over
\* the budget.
OverBudget(c) == c > Points

-----------------------------------------------------------------------------

IdleRequest ==
    [name |-> CHOOSE n \in Names : TRUE, env |-> CHOOSE e \in Envelopes : TRUE,
     sig |-> CHOOSE s \in Sigs : TRUE, origin |-> "fresh", pc |-> "idle",
     resp |-> "none", granted |-> FALSE, epoch |-> 0]

Init ==
    /\ req = [r \in Requests |-> IdleRequest]
    /\ consumed = [n \in Names |-> 0]
    /\ epoch = [n \in Names |-> 0]
    /\ store = {}

\* What may arrive: any client-built request, or a verbatim copy of a
\* request already sent (its path and body are visible to intermediaries).
Arrivals ==
    {[name |-> n, env |-> e, sig |-> s, origin |-> "fresh"] :
        n \in Names, e \in Envelopes, s \in Sigs}
    \cup
    {[name |-> req[q].name, env |-> req[q].env, sig |-> req[q].sig,
      origin |-> "replay"] : q \in {q \in Requests : req[q].pc # "idle"}}

\* hdl_upload_s3 from its start to the getAccountsAsync call.
Receive(r) ==
    /\ req[r].pc = "idle"
    /\ \E m \in Arrivals :
          LET err == ReceiveError(m) IN
          req' = [req EXCEPT ![r] =
                    [name |-> m.name, env |-> m.env, sig |-> m.sig,
                     origin |-> m.origin, granted |-> FALSE, epoch |-> 0,
                     pc |-> IF err = "none" THEN "lookup" ELSE "done",
                     resp |-> IF err = "none" THEN "none" ELSE err]]
    /\ UNCHANGED <<consumed, epoch, store>>

\* Seeded fault for NoWriteWithoutCharge: ipfs.add called before consume,
\* so a rate-limited request has already handed its bytes to the daemon.
LookupReplyAddFirst(r) ==
    LET m == req[r]
        n == m.name
        c == consumed[n] + Cost
    IN
    /\ m.pc = "lookup"
    /\ \/ /\ req' = [req EXCEPT ![r].pc = "done", ![r].resp = "LookupFailed"]
          /\ UNCHANGED <<consumed, store>>
       \/ /\ SignatureError(m) # "none"
          /\ req' = [req EXCEPT ![r].pc = "done",
                                ![r].resp = SignatureError(m)]
          /\ UNCHANGED <<consumed, store>>
       \/ /\ SignatureError(m) = "none"
          /\ consumed' = [consumed EXCEPT ![n] = c]
          /\ IF OverBudget(c)
             THEN /\ req' = [req EXCEPT ![r].pc = "done",
                                        ![r].resp = "RateLimitExceeded"]
                  /\ store' \in {store, store \cup {m.env.img}}
             ELSE /\ req' = [req EXCEPT ![r].pc = "store", ![r].granted = TRUE,
                                        ![r].epoch = epoch[n]]
                  /\ UNCHANGED store
    /\ UNCHANGED epoch

\* getAccountsAsync settles (or rejects); the signature is checked, a point
\* is consumed and, when granted, ipfs.add is called.
LookupReply(r) ==
    LET m == req[r]
        n == m.name
        c == consumed[n] + Cost
    IN
    /\ m.pc = "lookup"
    /\ \/ /\ req' = [req EXCEPT ![r].pc = "done", ![r].resp = "LookupFailed"]
          /\ UNCHANGED consumed
       \/ /\ SignatureError(m) # "none"
          /\ req' = [req EXCEPT ![r].pc = "done",
                                ![r].resp = SignatureError(m)]
          /\ UNCHANGED consumed
       \/ /\ SignatureError(m) = "none"
          /\ consumed' = [consumed EXCEPT ![n] = c]
          /\ req' = IF OverBudget(c)
                    THEN [req EXCEPT ![r].pc = "done",
                                     ![r].resp = "RateLimitExceeded"]
                    ELSE [req EXCEPT ![r].pc = "store", ![r].granted = TRUE,
                                     ![r].epoch = epoch[n]]
    /\ UNCHANGED <<epoch, store>>

\* Seeded fault for TypeOK: a point given back when ipfs.add fails, even
\* if the window it was taken from has ended meanwhile.
StoreReplyRefund(r) ==
    LET i == req[r].env.img
        n == req[r].name
    IN
    /\ req[r].pc = "store"
    /\ \/ /\ store' = store \cup {i}
          /\ req' = [req EXCEPT ![r].pc = "done", ![r].resp = "ok"]
          /\ UNCHANGED consumed
       \/ /\ store' \in {store, store \cup {i}}
          /\ req' = [req EXCEPT ![r].pc = "done",
                                ![r].resp = "StoreUnavailable"]
          /\ consumed' = [consumed EXCEPT ![n] = @ - Cost]
    /\ UNCHANGED epoch

\* ipfs.add settles.  A rejection may come after the daemon took the bytes.
StoreReply(r) ==
    LET i == req[r].env.img IN
    /\ req[r].pc = "store"
    /\ \/ /\ store' = store \cup {i}
          /\ req' = [req EXCEPT ![r].pc = "done", ![r].resp = "ok"]
       \/ /\ store' \in {store, store \cup {i}}
          /\ req' = [req EXCEPT ![r].pc = "done",
                                ![r].resp = "StoreUnavailable"]
    /\ UNCHANGED <<consumed, epoch>>

\* Seeded fault for Refinement: the expiry of one key clears the counts
\* of every key, as a table-wide reset would.
WindowEndsAll(n) ==
    /\ consumed[n] > 0
    /\ epoch[n] < MaxEpoch
    /\ consumed' = [k \in Names |-> 0]
    /\ epoch' = [k \in Names |-> epoch[k] + 1]
    /\ UNCHANGED <<req, store>>

\* The memory storage record of key n times out: its count is dropped.
WindowEnds(n) ==
    /\ consumed[n] > 0
    /\ epoch[n] < MaxEpoch
    /\ consumed' = [consumed EXCEPT ![n] = 0]
    /\ epoch' = [epoch EXCEPT ![n] = @ + 1]
    /\ UNCHANGED <<req, store>>

\* GET /: peers().then(res.send) calls res.send unbound, the TypeError is an
\* unhandled rejection and the process exits.  A supervisor restarts it with
\* an empty rate-limit table; every parked handler is gone, while ipfs.add
\* calls already sent may still be completed by the daemon.
RootCrash ==
    /\ \A n \in Names : epoch[n] < MaxEpoch
    /\ req' = [r \in Requests |->
                 IF req[r].pc \in {"lookup", "store"}
                 THEN [req[r] EXCEPT !.pc = "lost"] ELSE req[r]]
    /\ consumed' = [n \in Names |-> 0]
    /\ epoch' = [n \in Names |-> epoch[n] + 1]
    /\ \E sent \in SUBSET {req[r].env.img : r \in {r \in Requests :
                                                   req[r].pc = "store"}} :
          store' = store \cup sent

Next ==
    \/ \E r \in Requests : Receive(r) \/ LookupReply(r) \/ StoreReply(r)
    \/ \E n \in Names : WindowEnds(n)
    \/ RootCrash

Spec == Init /\ [][Next]_vars

-----------------------------------------------------------------------------
(* Properties.                                                             *)

TypeOK ==
    /\ req \in [Requests -> Request]
    /\ consumed \in [Names -> Nat]
    /\ epoch \in [Names -> Nat]
    /\ store \subseteq Images

\* The requests of name n granted a point in n's current window.
GrantedInWindow(n) ==
    {r \in Requests : req[r].name = n /\ req[r].granted
                      /\ req[r].epoch = epoch[n]}

-----------------------------------------------------------------------------
(* Refinement of UploadQuota.  A grant of the current window is an         *)
(* admission, the images of requests parked at ipfs.add are the pending    *)
(* writes, and the admissible pairs are those of the requests that pass    *)
(* every check of lines 41-126.                                             *)

AdmissiblePairs ==
    {<<m.name, m.env.img>> :
        m \in {m \in [name : Names, env : Envelopes, sig : Sigs] :
                 ReceiveError(m) = "none" /\ SignatureError(m) = "none"}}

PendingImages == {req[r].env.img : r \in {r \in Requests : req[r].pc = "store"}}

Quota == INSTANCE UploadQuota WITH
    Admissible <- AdmissiblePairs,
    grants <- [n \in Names |-> Cardinality(GrantedInWindow(n))],
    pending <- PendingImages

\* The handler, with its three awaits, concurrent requests, per-name window
\* expiry and GET / restarts, behaves as the atomic quota ledger: consume
\* checks and charges in one step, only authentic well-formed uploads are
\* admitted, and ipfs.add only writes admitted images.
Refinement == Quota!QSpec

\* However requests of one name interleave across the awaits, the uploads
\* rateLimiter.consume lets through in one window cost at most the budget
\* (spec 4.3: two concurrent requests at the last token do not both pass).
QuotaRespected ==
    \A n \in Names : Cost * Cardinality(GrantedInWindow(n)) <= Points

\* QuotaRespected strengthened so that one step preserves it: only requests
\* past consume hold a grant, a grant belongs to a window of its name that
\* has started, and the grants of the current window cost no more than the
\* points RateLimiterMemory has counted for the name.
QuotaInv ==
    /\ TypeOK
    /\ \A r \in Requests : req[r].pc \in {"idle", "lookup"} => ~req[r].granted
    /\ \A r \in Requests : req[r].granted => req[r].epoch <= epoch[req[r].name]
    /\ \A n \in Names : Cost * Cardinality(GrantedInWindow(n)) <= consumed[n]
    /\ QuotaRespected

\* A success response is only sent for an existing account, a signature of
\* the uploaded bytes by one of that account's keys, an allowed type within
\* the size limits, a request charged to the rate limiter, and bytes the
\* IPFS daemon holds.
OkImpliesAuthentic ==
    \A r \in Requests : req[r].resp = "ok" =>
        LET m == req[r] IN
        /\ m.name \in Accounts
        /\ m.sig # Malformed
        /\ m.sig.msg = m.env.img
        /\ m.sig.signer \in AccountKeys(m.name)
        /\ m.env.type \in AllowedTypes
        /\ ~Exceeds(ImgSize[m.env.img], MaxImageSize)
        /\ m.granted
        /\ m.env.img \in store

\* OkImpliesAuthentic strengthened so that one step preserves it: a handler
\* parked at an await has not answered; one parked at getAccountsAsync
\* passed the checks of lines 46-96; one parked at ipfs.add, or answered
\* "ok", also passed those of lines 99-126 and holds a point; and the bytes
\* of an "ok" answer are in the store, which never shrinks.
AuthInv ==
    /\ TypeOK
    /\ \A r \in Requests : req[r].pc \in {"lookup", "store"} => req[r].resp = "none"
    /\ \A r \in Requests : req[r].pc = "lookup" => ReceiveError(req[r]) = "none"
    /\ \A r \in Requests : req[r].pc = "store" \/ req[r].resp = "ok" =>
          /\ ReceiveError(req[r]) = "none"
          /\ SignatureError(req[r]) = "none"
          /\ req[r].granted
    /\ \A r \in Requests : req[r].resp = "ok" => req[r].env.img \in store

\* A step's new bytes in the daemon each belong to a request parked at
\* ipfs.add that holds a point.
WriteCharged ==
    \A i \in store' \ store :
        \E r \in Requests : /\ req[r].pc = "store"
                             /\ req[r].granted
                             /\ req[r].env.img = i

\* Bytes only reach the IPFS daemon from a request parked at ipfs.add after
\* the rate limiter charged it (ipfs.add is never called before consume
\* succeeded), whether the daemon's answer is delivered or lost in a crash.
NoWriteWithoutCharge == [][WriteCharged]_vars

-----------------------------------------------------------------------------
(* What the spec and the source's comments say, checked against the code.  *)

\* Spec 7: StoreUnavailable is safe to retry because nothing is committed
\* before a successful store write; so a request that ipfs.add failed for
\* holds no point of its name's current window.
StoreFailureNotCharged ==
    \A r \in Requests :
        req[r].resp = "StoreUnavailable" =>
            ~(req[r].granted /\ req[r].epoch = epoch[req[r].name])

\* Spec 5 keeps a name's quota for the life of the process: a name's
\* consumed points are only ever cleared by the end of its own window, not
\* by a request to another endpoint (GET /, lines 155-158).
QuotaClearedOnlyByExpiry ==
    [][\A n \in Names : consumed'[n] < consumed[n] => WindowEnds(n)]_vars

\* Spec 4.3 charges the quota of the identity that uploads: a point is only
\* ever taken for a request its signer built, never for a copy of an
\* earlier request replayed verbatim by someone else.
ReplayNeverCharged ==
    \A r \in Requests : req[r].granted => req[r].origin = "fresh"

\* Spec 8: a well-formed signature by one of the account's keys over other
\* bytes is rejected as InvalidSignature; SignatureKeyMismatch is kept for
\* a signer that holds none of the account's keys.
MutatedBytesNotKeyMismatch ==
    \A r \in Requests :
        req[r].resp = "SignatureKeyMismatch" =>
            req[r].sig.signer \notin AccountKeys(req[r].name)

=============================================================================
