------------------------- MODULE ImageUploadClient -------------------------
(***************************************************************************)
(* The mobile client's image upload flow, ImageUploadContainer.tsx: the    *)
(* user opens the picker or the camera, _uploadPhoto checks the login,     *)
(* awaits signImage, and sends the bytes with uploadImage; the promise's   *)
(* then/catch callbacks set the spinner flag, the toast and the image      *)
(* handed to the parent.  Several pick-and-upload flows may be in flight   *)
(* at once: nothing in the container stops a second pick while an upload  *)
(* is pending.  The upload server (ImageUpload) is reduced to the kinds    *)
(* of reply it can give a request.                                         *)
(***************************************************************************)
EXTENDS Naturals, FiniteSets

CONSTANTS
    Calls,        \* slots for concurrent _uploadPhoto invocations
    Photos,       \* images the picker can return
    NoPhoto,      \* initial value of uploadedImage (null)
    Replies,      \* kinds of settlement of uploadImage the server can produce
    SignResults   \* what awaiting signImage can give

\* Settlements of uploadImage that the container tells apart: a resolved
\* response whose data has a url, a resolved response without one (the
\* server's {status: "error"} body), and rejections whose message carries
\* HTTP status 413, 429, 400 or anything else.
ReplyKinds == {"url", "errorBody", "http413", "http429", "http400", "other"}

\* signImage resolves to a signature, to a falsy value, or rejects.
SignKinds == {"sig", "falsy", "throws"}

ASSUME ClientAssumption ==
    /\ IsFiniteSet(Calls)
    /\ NoPhoto \notin Photos
    /\ Replies \subseteq ReplyKinds
    /\ SignResults \subseteq SignKinds
    /\ Photos # {} /\ SignResults # {}

VARIABLES
    uploading,         \* the uploading state of the container
    closeActionSheet,  \* the closeActionSheet state
    uploadedImage,     \* the uploadedImage state
    toast,             \* the last setToastMessage argument
    delivered,         \* images passed to props.getImageURL
    sent,              \* upload requests handed to uploadImage
    call               \* call[c]: the progress of one pick-and-upload flow

vars == <<uploading, closeActionSheet, uploadedImage, toast, delivered,
          sent, call>>

Toasts == {"none", "sign_failed", "upload_success", "payload_too_large",
           "quota_exceeded", "invalid_image", "failed"}

\* An upload request as the server sees it: the photo, whether a user was
\* logged in when its credentials were read, and whether a signature was sent.
Upload == [photo : Photos, loggedIn : BOOLEAN, signed : BOOLEAN]

CallPCs == {"idle", "picking", "signing", "sent", "done"}

Call == [pc : CallPCs, photo : Photos \cup {NoPhoto}, loggedIn : BOOLEAN,
         sign : SignKinds \cup {"none"}]

\* The toast the catch callback picks from the error message.
ErrorToast(k) ==
    CASE k = "http413" -> "payload_too_large"
      [] k = "http429" -> "quota_exceeded"
      [] k = "http400" -> "invalid_image"
      [] OTHER         -> "failed"

\* The replies the upload server can give request u: it answers a request
\* without a valid signature (the path holds "null" or "false", or the
\* user name is undefined) with an error body, never with a URL.
ReplyFor(u) ==
    IF u.signed /\ u.loggedIn THEN Replies ELSE Replies \ {"url"}

\* What awaiting signImage can give in a flow that read credentials while
\* logged in (li) or logged out: without a password no signature is made.
SignOutcomes(li) ==
    IF li THEN SignResults ELSE {"falsy"} \cup (SignResults \cap {"throws"})

-----------------------------------------------------------------------------

Init ==
    /\ uploading = FALSE
    /\ closeActionSheet = FALSE
    /\ uploadedImage = NoPhoto
    /\ toast = "none"
    /\ delivered = {}
    /\ sent = {}
    /\ call = [c \in Calls |->
                 [pc |-> "idle", photo |-> NoPhoto, loggedIn |-> FALSE,
                  sign |-> "none"]]

\* _handlePhotoUpload / _handleCameraUpload: the action sheet flag is reset
\* and the native picker opens.  The picker is modal: one at a time.
OpenPicker(c) ==
    /\ call[c].pc = "idle"
    /\ \A d \in Calls : call[d].pc # "picking"
    /\ closeActionSheet' = FALSE
    /\ call' = [call EXCEPT ![c].pc = "picking"]
    /\ UNCHANGED <<uploading, uploadedImage, toast, delivered, sent>>

\* The picker promise rejects (cancelled): _handleSelectionFailure.
PickerFails(c) ==
    /\ call[c].pc = "picking"
    /\ closeActionSheet' = TRUE
    /\ call' = [call EXCEPT ![c].pc = "done"]
    /\ UNCHANGED <<uploading, uploadedImage, toast, delivered, sent>>

\* The picker resolves and _uploadPhoto runs up to the signImage await.
\* The login check clears the spinner but does not return.
PickerResolves(c) ==
    /\ call[c].pc = "picking"
    /\ \E p \in Photos, li \in BOOLEAN :
          /\ call' = [call EXCEPT ![c] = [pc |-> "signing", photo |-> p,
                                          loggedIn |-> li, sign |-> "none"]]
          /\ uploading' = li
    /\ closeActionSheet' = TRUE
    /\ UNCHANGED <<uploadedImage, toast, delivered, sent>>

\* signImage settles.  A rejection escapes _uploadPhoto (nobody awaits it);
\* a falsy result clears the spinner and toasts, but the upload is still
\* sent; otherwise uploadImage is called.  Without credentials no
\* signature can be made.
SignReply(c) ==
    LET f == call[c] IN
    /\ f.pc = "signing"
    /\ \E s \in SignOutcomes(f.loggedIn) :
          IF s = "throws"
          THEN /\ call' = [call EXCEPT ![c].pc = "done", ![c].sign = s]
               /\ UNCHANGED <<uploading, toast, sent>>
          ELSE /\ call' = [call EXCEPT ![c].pc = "sent", ![c].sign = s]
               /\ sent' = sent \cup
                    {[photo |-> f.photo, loggedIn |-> f.loggedIn,
                      signed |-> s = "sig"]}
               /\ IF s = "falsy"
                  THEN uploading' = FALSE /\ toast' = "sign_failed"
                  ELSE UNCHANGED <<uploading, toast>>
    /\ UNCHANGED <<closeActionSheet, uploadedImage, delivered>>

\* Seeded fault for TypeOK: the image state set from the response kind
\* rather than from the uploaded image's data.
UploadReplyKeepsBody(c) ==
    /\ call[c].pc = "sent"
    /\ call' = [call EXCEPT ![c].pc = "done"]
    /\ \E k \in ReplyFor([photo |-> call[c].photo, loggedIn |-> call[c].loggedIn,
                           signed |-> call[c].sign = "sig"]) :
          /\ uploading' = FALSE
          /\ uploadedImage' = k
          /\ UNCHANGED <<toast, delivered>>
    /\ UNCHANGED <<closeActionSheet, sent>>

\* The uploadImage promise settles: the then callback acts only on a
\* response with data.url; the catch callback toasts by status code and
\* clears the spinner.
UploadReply(c) ==
    LET f == call[c]
        u == [photo |-> f.photo, loggedIn |-> f.loggedIn,
              signed |-> f.sign = "sig"]
    IN
    /\ f.pc = "sent"
    /\ call' = [call EXCEPT ![c].pc = "done"]
    /\ \E k \in ReplyFor(u) :
          \/ /\ k = "url"
             /\ uploading' = FALSE
             /\ toast' = "upload_success"
             /\ uploadedImage' = f.photo
             /\ delivered' = delivered \cup {f.photo}
          \/ /\ k = "errorBody"
             /\ UNCHANGED <<uploading, toast, uploadedImage, delivered>>
          \/ /\ k \notin {"url", "errorBody"}
             /\ uploading' = FALSE
             /\ toast' = ErrorToast(k)
             /\ UNCHANGED <<uploadedImage, delivered>>
    /\ UNCHANGED <<closeActionSheet, sent>>

Next ==
    \E c \in Calls :
        \/ OpenPicker(c) \/ PickerFails(c) \/ PickerResolves(c)
        \/ SignReply(c) \/ UploadReply(c)

Spec == Init /\ [][Next]_vars

\* The collaborators answer: signImage and uploadImage eventually settle.
Fairness ==
    \A c \in Calls : WF_vars(SignReply(c)) /\ WF_vars(UploadReply(c))

FairSpec == Spec /\ Fairness

-----------------------------------------------------------------------------
(* Properties.                                                             *)

TypeOK ==
    /\ uploading \in BOOLEAN
    /\ closeActionSheet \in BOOLEAN
    /\ uploadedImage \in Photos \cup {NoPhoto}
    /\ toast \in Toasts
    /\ delivered \subseteq Photos
    /\ sent \subseteq Upload
    /\ call \in [Calls -> Call]

\* The sanity checks of _uploadPhoto (not logged in, signing failed) are
\* meant to stop the flow: no upload is sent without a user and a signature.
NoUnsignedUpload ==
    \A u \in sent : u.loggedIn /\ u.signed

\* Once the spinner is shown it is eventually cleared, provided signImage
\* and uploadImage always settle.
SpinnerClears == uploading ~> ~uploading

=============================================================================
