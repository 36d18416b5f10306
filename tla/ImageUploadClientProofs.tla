---------------------- MODULE ImageUploadClientProofs ----------------------
(***************************************************************************)
(* Proofs about the client upload flow of ImageUploadContainer.tsx for any *)
(* number of overlapping flows, photos and server replies: the state stays *)
(* well typed.                                                             *)
(***************************************************************************)
EXTENDS ImageUploadClient, TLAPS

USE ClientAssumption

\* The upload a flow parked at uploadImage has sent.
SentUpload(f) ==
    [photo |-> f.photo, loggedIn |-> f.loggedIn, signed |-> f.sign = "sig"]

\* TypeOK strengthened so that one step preserves it: a flow past the
\* picker holds a picked photo, which the then callback hands to
\* setUploadedImage.
ClientInv ==
    /\ TypeOK
    /\ \A c \in Calls : call[c].pc \in {"signing", "sent"} => call[c].photo \in Photos

LEMMA InitClientInv == Init => ClientInv
<1>. SUFFICES ASSUME Init PROVE ClientInv
  OBVIOUS
<1>1. TypeOK
  BY DEF Init, TypeOK, Call, CallPCs, Toasts
<1>2. \A c \in Calls : call[c].pc = "idle"
  BY DEF Init
<1>. QED BY <1>1, <1>2 DEF Init, ClientInv

LEMMA NextClientInv == ClientInv /\ [Next]_vars => ClientInv'
<1>. SUFFICES ASSUME ClientInv, [Next]_vars PROVE ClientInv'
  OBVIOUS
<1>0. TypeOK
  BY DEF ClientInv
<1>1. ASSUME NEW c \in Calls, OpenPicker(c) PROVE ClientInv'
  <2>1. call' \in [Calls -> Call]
    BY <1>0, <1>1 DEF OpenPicker, TypeOK, Call, CallPCs
  <2>2. call'[c].pc = "picking" /\ \A d \in Calls \ {c} : call'[d] = call[d]
    BY <1>0, <1>1 DEF OpenPicker, TypeOK
  <2>. QED BY <1>0, <1>1, <2>1, <2>2 DEF OpenPicker, ClientInv, TypeOK
<1>2. ASSUME NEW c \in Calls, PickerFails(c) PROVE ClientInv'
  <2>1. call' \in [Calls -> Call]
    BY <1>0, <1>2 DEF PickerFails, TypeOK, Call, CallPCs
  <2>2. call'[c].pc = "done" /\ \A d \in Calls \ {c} : call'[d] = call[d]
    BY <1>0, <1>2 DEF PickerFails, TypeOK
  <2>. QED BY <1>0, <1>2, <2>1, <2>2 DEF PickerFails, ClientInv, TypeOK
<1>3. ASSUME NEW c \in Calls, PickerResolves(c) PROVE ClientInv'
  <2>1. PICK p \in Photos, li \in BOOLEAN :
          /\ call' = [call EXCEPT ![c] = [pc |-> "signing", photo |-> p,
                                          loggedIn |-> li, sign |-> "none"]]
          /\ uploading' = li
    BY <1>3 DEF PickerResolves
  <2>2. call' \in [Calls -> Call] /\ call'[c].photo \in Photos /\ call'[c].pc = "signing"
    BY <1>0, <2>1 DEF TypeOK, Call, CallPCs
  <2>3. \A d \in Calls \ {c} : call'[d] = call[d]
    BY <1>0, <2>1 DEF TypeOK
  <2>. QED BY <1>0, <1>3, <2>1, <2>2, <2>3 DEF PickerResolves, ClientInv, TypeOK
<1>4. ASSUME NEW c \in Calls, SignReply(c) PROVE ClientInv'
  <2>. DEFINE f == call[c]
  <2>0. f \in Call /\ f.pc = "signing" /\ f.photo \in Photos
    BY <1>0, <1>4 DEF SignReply, ClientInv, TypeOK
  <2>1. PICK s \in SignOutcomes(f.loggedIn) :
          IF s = "throws"
          THEN /\ call' = [call EXCEPT ![c].pc = "done", ![c].sign = s]
               /\ UNCHANGED <<uploading, toast, sent>>
          ELSE /\ call' = [call EXCEPT ![c].pc = "sent", ![c].sign = s]
               /\ sent' = sent \cup
                    {[photo |-> f.photo, loggedIn |-> f.loggedIn,
                      signed |-> s = "sig"]}
               /\ IF s = "falsy"
                  THEN uploading' = FALSE /\ toast' = "sign_failed"
                  ELSE UNCHANGED <<uploading, toast>>
    BY <1>4 DEF SignReply
  <2>2. s \in SignKinds
    BY DEF SignOutcomes, SignKinds
  <2>3. \A d \in Calls \ {c} : call'[d] = call[d]
    BY <1>0, <2>1 DEF TypeOK
  <2>4. CASE s = "throws"
    <3>1. call' \in [Calls -> Call] /\ call'[c].pc = "done"
      BY <1>0, <2>1, <2>2, <2>4 DEF TypeOK, Call, CallPCs
    <3>. QED BY <1>0, <1>4, <2>1, <2>3, <2>4, <3>1
             DEF SignReply, ClientInv, TypeOK
  <2>5. CASE s # "throws"
    <3>1. call' \in [Calls -> Call]
      BY <1>0, <2>1, <2>2, <2>5 DEF TypeOK, Call, CallPCs
    <3>2. /\ call'[c].pc = "sent" /\ call'[c].photo = f.photo
          /\ call'[c].loggedIn = f.loggedIn /\ call'[c].sign = s
      BY <1>0, <2>0, <2>1, <2>2, <2>5 DEF TypeOK, Call, CallPCs
    <3>3. sent' = sent \cup {SentUpload(call'[c])}
      BY <2>1, <2>5, <3>2 DEF SentUpload
    <3>4. SentUpload(call'[c]) \in Upload
      BY <2>0, <3>2 DEF SentUpload, Upload, Call
    <3>5. toast' \in Toasts /\ uploading' \in BOOLEAN
      BY <1>0, <2>1, <2>5 DEF TypeOK, Toasts
    <3>7. \A d \in Calls : call'[d].pc \in {"signing", "sent"} => call'[d].photo \in Photos
      BY <2>0, <2>3, <3>2 DEF ClientInv
    <3>. QED BY <1>0, <1>4, <3>1, <3>3, <3>4, <3>5, <3>7
             DEF SignReply, ClientInv, TypeOK
  <2>. QED BY <2>4, <2>5
<1>5. ASSUME NEW c \in Calls, UploadReply(c) PROVE ClientInv'
  <2>. DEFINE f == call[c]
              u == [photo |-> f.photo, loggedIn |-> f.loggedIn,
                    signed |-> f.sign = "sig"]
  <2>0. f \in Call /\ f.pc = "sent" /\ f.photo \in Photos
    BY <1>0, <1>5 DEF UploadReply, ClientInv, TypeOK
  <2>1. call' \in [Calls -> Call] /\ call'[c].pc = "done"
        /\ \A d \in Calls \ {c} : call'[d] = call[d]
    BY <1>0, <1>5, <2>0 DEF UploadReply, TypeOK, Call, CallPCs
  <2>2. PICK k \in ReplyFor(u) :
          \/ /\ k = "url"
             /\ uploading' = FALSE
             /\ toast' = "upload_success"
             /\ uploadedImage' = f.photo
             /\ delivered' = delivered \cup {f.photo}
          \/ /\ k = "errorBody"
             /\ UNCHANGED <<uploading, toast, uploadedImage, delivered>>
          \/ /\ k \notin {"url", "errorBody"}
             /\ uploading' = FALSE
             /\ toast' = ErrorToast(k)
             /\ UNCHANGED <<uploadedImage, delivered>>
    BY <1>5 DEF UploadReply
  <2>5. TypeOK'
    <3>1. toast' \in Toasts
      BY <1>0, <2>2 DEF TypeOK, Toasts, ErrorToast
    <3>. QED BY <1>0, <1>5, <2>0, <2>1, <2>2, <3>1 DEF UploadReply, TypeOK
  <2>. QED BY <1>5, <2>0, <2>1, <2>5 DEF UploadReply, ClientInv
<1>6. CASE UNCHANGED vars
  BY <1>6 DEF vars, ClientInv, TypeOK, SentUpload
<1>. QED BY <1>1, <1>2, <1>3, <1>4, <1>5, <1>6 DEF Next

\* The client's state is well typed in every reachable state.
THEOREM ClientTypeCorrect == Spec => []TypeOK
<1>1. ClientInv => TypeOK
  BY DEF ClientInv
<1>. QED BY InitClientInv, NextClientInv, <1>1, PTL DEF Spec

=============================================================================
