-------------------------- MODULE CommentContainer --------------------------
(***************************************************************************)
(* The comment component of the mobile app, CommentContainer.tsx: its     *)
(* React state, the handlers CommentView and the two Editors call, and the *)
(* two promises a handler awaits (submitPost and the translationRequest    *)
(* cloud function).  CommentView is rendered when editMode is off, the     *)
(* edit Editor when it is on, and the reply Editor whenever showReply is   *)
(* set; both Editors are given the same _handleSubmitComment.  Several     *)
(* submissions and translation requests may be in flight at once: nothing *)
(* in the container disables a button while one is pending.  Texts are     *)
(* abstract: the comment's html body, its markdown source, and their       *)
(* translations.                                                           *)
(***************************************************************************)
EXTENDS Naturals

CONSTANTS
    Submits,       \* slots for concurrent _handleSubmitComment invocations
    Translations,  \* slots for concurrent _handlePressTranslation requests
    None           \* null

\* The texts the component handles: props.comment.body, comment.markdownBody
\* and what the translation function returns for each.
Sources == {"html", "markdown"}
Translate == [x \in Sources |-> IF x = "html" THEN "tr_html" ELSE "tr_markdown"]
Texts == Sources \cup {Translate[x] : x \in Sources}

Editors == {"edit", "reply"}

Toasts == {"none", "need_login", "translation_error"}

Submission == [pc : {"idle", "posting", "done"}, from : Editors,
               kind : {"edit", "reply"}]

Request == [pc : {"idle", "waiting", "done"}, text : Texts]

VARIABLES
    loggedIn,           \* authState.loggedIn
    submitting,         \* the submitting state
    showReply,          \* the showReply state
    editMode,           \* the editMode state
    body,               \* the body state
    showOriginal,       \* the showOriginal state
    translatedBody,     \* the translatedBody state (None for null)
    commentBody,        \* comment.body of the comment state given to CommentView
    showChildComments,  \* the showChildComments state
    toast,              \* the last setToastMessage argument
    submit,             \* submit[s]: one _handleSubmitComment call
    translation,        \* translation[t]: one awaited translationRequest
    posted              \* the postings submitPost broadcast: editor and kind

vars == <<loggedIn, submitting, showReply, editMode, body, showOriginal,
          translatedBody, commentBody, showChildComments, toast, submit,
          translation, posted>>

Init ==
    /\ loggedIn \in BOOLEAN
    /\ submitting = FALSE
    /\ showReply = FALSE
    /\ editMode = FALSE
    /\ body = "html"
    /\ showOriginal = TRUE
    /\ translatedBody = None
    /\ commentBody = "html"
    /\ showChildComments = FALSE
    /\ toast = "none"
    /\ submit = [s \in Submits |-> [pc |-> "idle", from |-> "reply", kind |-> "reply"]]
    /\ translation = [t \in Translations |-> [pc |-> "idle", text |-> "html"]]
    /\ posted = {}

-----------------------------------------------------------------------------
(* Handlers.  The CommentView buttons exist only while editMode is off.    *)

\* _handlePressReply: toggle the reply Editor.
PressReply ==
    /\ ~editMode
    /\ showReply' = ~showReply
    /\ UNCHANGED <<loggedIn, submitting, editMode, body, showOriginal,
                   translatedBody, commentBody, showChildComments, toast,
                   submit, translation, posted>>

\* _handlePressEditComment: the edit Editor replaces CommentView and is
\* given the markdown source.  The reply Editor, if open, stays open.
PressEditComment ==
    /\ ~editMode
    /\ editMode' = TRUE
    /\ body' = "markdown"
    /\ UNCHANGED <<loggedIn, submitting, showReply, showOriginal,
                   translatedBody, commentBody, showChildComments, toast,
                   submit, translation, posted>>

\* _handlePressTranslation up to its await: logged out, a toast; else the
\* toggle flips, and the original, the cached translation, or a new request
\* for the current body follows.
PressTranslation ==
    /\ ~editMode
    /\ \/ /\ ~loggedIn
          /\ toast' = "need_login"
          /\ UNCHANGED <<showOriginal, body, translation>>
       \/ /\ loggedIn
          /\ showOriginal' = ~showOriginal
          /\ UNCHANGED toast
          /\ \/ /\ ~showOriginal
                /\ body' = "html"
                /\ UNCHANGED translation
             \/ /\ showOriginal /\ translatedBody # None
                /\ body' = translatedBody
                /\ UNCHANGED translation
             \/ /\ showOriginal /\ translatedBody = None
                /\ \E t \in Translations :
                      /\ translation[t].pc = "idle"
                      /\ translation' = [translation EXCEPT ![t] =
                                           [pc |-> "waiting", text |-> body]]
                /\ UNCHANGED body
    /\ UNCHANGED <<loggedIn, submitting, showReply, editMode, translatedBody,
                   commentBody, showChildComments, submit, posted>>

\* The translation request settles: with data, without data (the body it
\* was asked for is kept as the "translation"), or by throwing.  The answer
\* is applied whatever the toggle says by now.
TranslationReturns(t) ==
    LET x == translation[t].text IN
    /\ translation[t].pc = "waiting"
    /\ translation' = [translation EXCEPT ![t].pc = "done"]
    /\ \/ \E tb \in {IF x \in Sources THEN Translate[x] ELSE x, x} :
             /\ body' = tb
             /\ translatedBody' = tb
             /\ commentBody' = tb
             /\ UNCHANGED toast
       \/ /\ toast' = "translation_error"
          /\ UNCHANGED <<body, translatedBody, commentBody>>
    /\ UNCHANGED <<loggedIn, submitting, showReply, editMode, showOriginal,
                   showChildComments, submit, posted>>

\* _handlePressChildren.
PressChildren ==
    /\ ~editMode
    /\ showChildComments' = ~showChildComments
    /\ UNCHANGED <<loggedIn, submitting, showReply, editMode, body,
                   showOriginal, translatedBody, commentBody, toast, submit,
                   translation, posted>>

\* _closeEditor, from either Editor: both are closed.
CloseEditor ==
    /\ editMode \/ showReply
    /\ showReply' = FALSE
    /\ editMode' = FALSE
    /\ UNCHANGED <<loggedIn, submitting, body, showOriginal, translatedBody,
                   commentBody, showChildComments, toast, submit, translation,
                   posted>>

\* _handleSubmitComment with a non-empty text (an empty one returns at
\* once), called from the Editor e on screen, up to the submitPost await.
\* Whether the posting is an edit of this comment (its own permlink and
\* parent) or a new reply is decided by editMode, not by the Editor.
SubmitComment(s, e) ==
    /\ submit[s].pc = "idle"
    /\ IF e = "edit" THEN editMode ELSE showReply
    /\ submitting' = TRUE
    /\ submit' = [submit EXCEPT ![s] =
                    [pc |-> "posting", from |-> e,
                     kind |-> IF editMode THEN "edit" ELSE "reply"]]
    /\ UNCHANGED <<loggedIn, showReply, editMode, body, showOriginal,
                   translatedBody, commentBody, showChildComments, toast,
                   translation, posted>>

\* submitPost settles (broadcast or not); the comments are refetched by
\* the parent, and the flag and both Editors are cleared.
SubmitReturns(s) ==
    /\ submit[s].pc = "posting"
    /\ submit' = [submit EXCEPT ![s].pc = "done"]
    /\ posted' \in {posted, posted \cup {[from |-> submit[s].from,
                                          kind |-> submit[s].kind]}}
    /\ submitting' = FALSE
    /\ showReply' = FALSE
    /\ editMode' = FALSE
    /\ UNCHANGED <<loggedIn, body, showOriginal, translatedBody, commentBody,
                   showChildComments, toast, translation>>

Next ==
    \/ PressReply \/ PressEditComment \/ PressTranslation \/ PressChildren
    \/ CloseEditor
    \/ \E t \in Translations : TranslationReturns(t)
    \/ \E s \in Submits, e \in Editors : SubmitComment(s, e)
    \/ \E s \in Submits : SubmitReturns(s)

Spec == Init /\ [][Next]_vars

-----------------------------------------------------------------------------
(* Properties.                                                             *)

TypeOK ==
    /\ loggedIn \in BOOLEAN
    /\ submitting \in BOOLEAN
    /\ showReply \in BOOLEAN
    /\ editMode \in BOOLEAN
    /\ body \in Texts
    /\ showOriginal \in BOOLEAN
    /\ translatedBody \in Texts \cup {None}
    /\ commentBody \in Texts
    /\ showChildComments \in BOOLEAN
    /\ toast \in Toasts
    /\ submit \in [Submits -> Submission]
    /\ translation \in [Translations -> Request]
    /\ posted \subseteq [from : Editors, kind : {"edit", "reply"}]

\* The reply Editor writes a reply: a text submitted from it is broadcast
\* as a new comment under this one, never as an edit that replaces this
\* comment's body (the "edit mode" branch of _handleSubmitComment is meant
\* for the edit Editor).
ReplyNeverEdits ==
    \A p \in posted : p.from = "reply" => p.kind = "reply"

=============================================================================
