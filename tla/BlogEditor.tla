------------------------------ MODULE BlogEditor ------------------------------
(***************************************************************************)
(* features/blog/BlogEditorView.vue with upload/runtime/                   *)
(* markdownImageRuntime.ts: one author who writes a post or edits one, the *)
(* draft of it in localStorage, and the publishing of it.  A text is the   *)
(* edits it holds and the images in it that are blob URLs of a page; the   *)
(* files of those are in the blobFileMap of that page only.                *)
(***************************************************************************)
EXTENDS Naturals

CONSTANTS
    Edits,         \* changes of the text, each made once
    Images,        \* the edits of the body that insert an image file
    Fields,        \* the edits of the title, summary, cover, tags and pin
    Submits,       \* clicks on the publish button
    MaxVisits      \* bound: times the page is opened

VARIABLES
    editor,      \* the page
    draft,       \* the draft in localStorage
    submit,      \* the calls of handleSubmit, which outlive the page
    posts,       \* what the backend has stored
    visits,      \* times the page was opened
    overrun      \* history: edits taken away by a call of handleSubmit without them

editorVars == <<editor, draft, submit, posts, visits, overrun>>

Text == [edits : SUBSET Edits, blobs : SUBSET Images]
Blank == [edits |-> {}, blobs |-> {}]
NoDraft == [edits |-> {"no draft"}, blobs |-> {}]
NotYet == [at |-> "unused", text |-> Blank, files |-> {}, visit |-> 0]

EditorTypeOK ==
    /\ editor \in [open : BOOLEAN, isEdit : BOOLEAN, text : Text,
                   blobFileMap : SUBSET Images, hasUnsavedChanges : BOOLEAN,
                   autoSaveTimer : BOOLEAN, showDraftRestore : BOOLEAN,
                   fetching : BOOLEAN, loading : BOOLEAN, autoSaveEnabled : BOOLEAN]
    /\ draft \in Text \cup {NoDraft}
    /\ submit \in [Submits -> [at : {"unused", "uploading", "sent", "stored", "over"},
                               text : Text, files : SUBSET Images, visit : 0..MaxVisits]]
    /\ posts \subseteq Text
    /\ visits \in 0..MaxVisits
    /\ overrun \subseteq Edits

Closed(isEdit) ==
    [open |-> FALSE, isEdit |-> isEdit, text |-> Blank, blobFileMap |-> {},
     hasUnsavedChanges |-> FALSE, autoSaveTimer |-> FALSE,
     showDraftRestore |-> FALSE, fetching |-> FALSE, loading |-> FALSE,
     autoSaveEnabled |-> TRUE]

EditorInit ==
    /\ \E isEdit \in BOOLEAN :
          /\ editor = Closed(isEdit)
          /\ posts = IF isEdit THEN {Blank} ELSE {}
    /\ draft = NoDraft
    /\ submit = [s \in Submits |-> NotYet]
    /\ visits = 0
    /\ overrun = {}

\* The call was made on the page that is open now.
OfPage(s) == editor.open /\ submit[s].visit = visits

UnderWay(s) == submit[s].at \in {"uploading", "sent", "stored"}

-----------------------------------------------------------------------------
(* The page *)

\* The watcher of the fields: unsaved, and the debounce starts again.
Changed(e, text) ==
    [e EXCEPT !.text = text, !.hasUnsavedChanges = TRUE,
              !.autoSaveTimer = @ \/ e.autoSaveEnabled]

\* onMounted.  The draft of a new post is restored, that of an existing one
\* asked about; without one the existing post is fetched.
Open ==
    /\ ~editor.open /\ visits < MaxVisits
    /\ visits' = visits + 1
    /\ LET page == [Closed(editor.isEdit) EXCEPT !.open = TRUE] IN
       editor' = CASE draft # NoDraft /\ editor.isEdit -> [page EXCEPT !.showDraftRestore = TRUE]
                   [] draft # NoDraft /\ ~editor.isEdit -> Changed(page, draft)
                   [] draft = NoDraft /\ editor.isEdit ->
                         [page EXCEPT !.fetching = TRUE, !.loading = TRUE]
                   [] OTHER -> page
    /\ UNCHANGED <<draft, submit, posts, overrun>>

\* fetchPost is answered: what it sets is a change like any other.
Fetched ==
    /\ editor.open /\ editor.fetching
    /\ LET page == [editor EXCEPT !.fetching = FALSE, !.loading = FALSE] IN
       \/ \E post \in posts : editor' = Changed(page, post)
       \/ editor' = page
    /\ UNCHANGED <<draft, submit, posts, visits, overrun>>

adoptDraft ==
    /\ editor.open /\ editor.showDraftRestore /\ ~editor.loading
    /\ editor' = IF draft = NoDraft THEN [editor EXCEPT !.showDraftRestore = FALSE]
                 ELSE Changed([editor EXCEPT !.showDraftRestore = FALSE], draft)
    /\ UNCHANGED <<draft, submit, posts, visits, overrun>>

\* The form goes while the post is fetched, and with it the files of its images.
discardDraftAndLoadServer ==
    /\ editor.open /\ editor.showDraftRestore /\ ~editor.loading
    /\ editor' = [editor EXCEPT !.showDraftRestore = FALSE, !.fetching = TRUE,
                                !.loading = TRUE, !.blobFileMap = {}]
    /\ UNCHANGED <<draft, submit, posts, visits, overrun>>

\* The form of an existing post is taken away while something loads; that of a
\* new one stays, and none of its fields is disabled.
FormShown == editor.open /\ ~(editor.loading /\ editor.isEdit)

\* An edit; addImageFile registers the file of an image.
Edit(e) ==
    /\ FormShown
    /\ e \notin editor.text.edits \cup draft.edits /\ \A p \in posts : e \notin p.edits
    /\ LET image == {e} \cap Images IN
       editor' = [Changed(editor, [edits |-> editor.text.edits \cup {e},
                                   blobs |-> editor.text.blobs \cup image])
                  EXCEPT !.blobFileMap = @ \cup image]
    /\ UNCHANGED <<draft, submit, posts, visits, overrun>>

\* saveDraft: three seconds after the last change, or by hand at any time.
saveDraft ==
    /\ editor.open
    /\ \E byTimer \in BOOLEAN :
          /\ byTimer => editor.autoSaveTimer
          /\ editor' = [editor EXCEPT !.hasUnsavedChanges = FALSE,
                                      !.autoSaveTimer = IF byTimer THEN FALSE ELSE @]
    /\ draft' = editor.text
    /\ UNCHANGED <<submit, posts, visits, overrun>>

\* The switch beside it, which leaves a timer that runs.
toggleAutoSave ==
    /\ editor.open
    /\ editor' = [editor EXCEPT !.autoSaveEnabled = ~@]
    /\ UNCHANGED <<draft, submit, posts, visits, overrun>>

\* The text with the fields that the form has now.
WithFields(text) ==
    [text EXCEPT !.edits = (@ \ Fields) \cup (editor.text.edits \cap Fields)]

\* onBeforeUnmount clears the timer, and the image runtime is disposed of.  An
\* upload goes on, and will find the fields as they are now.
LeavePage ==
    /\ editor.open
    /\ editor' = Closed(editor.isEdit)
    /\ submit' = [s \in Submits |->
                    IF OfPage(s) /\ submit[s].at = "uploading"
                    THEN [submit[s] EXCEPT !.text = WithFields(@)] ELSE submit[s]]
    /\ UNCHANGED <<draft, posts, visits, overrun>>

\* The browser reloads or closes the page: its calls are never answered.
Reload ==
    /\ editor.open
    /\ editor' = Closed(editor.isEdit)
    /\ submit' = [s \in Submits |-> IF UnderWay(s) THEN [submit[s] EXCEPT !.at = "over"] ELSE submit[s]]
    /\ UNCHANGED <<draft, posts, visits, overrun>>

-----------------------------------------------------------------------------
(* handleSubmit *)

Goes(s, at) == submit' = [submit EXCEPT ![s].at = at]

\* The payload goes out with the URLs of the files that were uploaded; the
\* others stay what they are.  The map is emptied, the text on the page kept.
Sending(page) == [page EXCEPT !.blobFileMap = {}, !.loading = TRUE]

\* A click: getContentForPublish begins with the body and the files of the
\* moment; the fields are read when it is done.  The button is disabled while
\* loading, not while files go up.
handleSubmit(s) ==
    /\ editor.open /\ ~editor.loading /\ editor.text.edits # {}
    /\ submit[s] = NotYet
    /\ \/ /\ editor.blobFileMap = {}
          /\ submit' = [submit EXCEPT ![s] =
                [at |-> "sent", text |-> editor.text, files |-> {}, visit |-> visits]]
          /\ editor' = Sending(editor)
       \/ /\ editor.blobFileMap # {}
          /\ submit' = [submit EXCEPT ![s] =
                [at |-> "uploading", text |-> editor.text,
                 files |-> editor.blobFileMap, visit |-> visits]]
          /\ UNCHANGED editor
    /\ UNCHANGED <<draft, posts, visits, overrun>>

\* The body of the click with its files uploaded, and the fields of now.
Payload(s) ==
    [(IF OfPage(s) THEN WithFields(submit[s].text) ELSE submit[s].text)
        EXCEPT !.blobs = @ \ submit[s].files]

\* Promise.all of the uploads.
Uploaded(s) ==
    /\ submit[s].at = "uploading"
    /\ submit' = [submit EXCEPT ![s].at = "sent", ![s].text = Payload(s)]
    /\ editor' = IF OfPage(s) THEN Sending(editor) ELSE editor
    /\ UNCHANGED <<draft, posts, visits, overrun>>

UploadFails(s) ==
    /\ submit[s].at = "uploading"
    /\ Goes(s, "over")
    /\ UNCHANGED <<editor, draft, posts, visits, overrun>>

\* The backend: a post is created, or replaced.
PostStored(s) ==
    /\ submit[s].at = "sent"
    /\ Goes(s, "stored")
    /\ posts' = IF editor.isEdit THEN {submit[s].text} ELSE posts \cup {submit[s].text}
    /\ overrun' = overrun \cup ((UNION {p.edits : p \in posts \ posts'}) \ submit[s].text.edits)
    /\ UNCHANGED <<editor, draft, visits>>

Ended(s) == IF OfPage(s) THEN [editor EXCEPT !.loading = FALSE] ELSE editor

\* Success: the draft goes, and then the page (router.back, whatever page is
\* open by now).
Published(s) ==
    /\ submit[s].at = "stored"
    /\ Goes(s, "over")
    /\ draft' = NoDraft
    /\ overrun' = overrun \cup ((draft.edits \cap Edits) \ submit[s].text.edits)
    /\ editor' = Ended(s)
    /\ UNCHANGED <<posts, visits>>

\* Mutant: a draft is cleared whether or not its post was stored.
FailsAndClears(s) ==
    /\ submit[s].at \in {"sent", "stored"}
    /\ Goes(s, "over")
    /\ draft' = NoDraft
    /\ editor' = Ended(s)
    /\ UNCHANGED <<posts, visits, overrun>>

\* An error, before or after the backend has stored the post.
Fails(s) ==
    /\ submit[s].at \in {"sent", "stored"}
    /\ Goes(s, "over")
    /\ editor' = Ended(s)
    /\ UNCHANGED <<draft, posts, visits, overrun>>

-----------------------------------------------------------------------------
EditorNext ==
    \/ Open \/ Fetched \/ adoptDraft \/ discardDraftAndLoadServer
    \/ \E e \in Edits : Edit(e)
    \/ saveDraft \/ toggleAutoSave \/ LeavePage \/ Reload
    \/ \E s \in Submits :
          handleSubmit(s) \/ Uploaded(s) \/ UploadFails(s) \/ PostStored(s) \/ Published(s) \/ Fails(s)

EditorSpec == EditorInit /\ [][EditorNext]_editorVars

-----------------------------------------------------------------------------
(* Properties *)

\* A page that would be closed without a warning (hasUnsavedChanges is false)
\* has nothing only on it: its text is in the draft or in a stored post,
\* whatever calls of handleSubmit failed, overlapped or came back late - but
\* for what one that succeeded took away without having it.
NothingOnlyOnThePage ==
    editor.open /\ ~editor.hasUnsavedChanges =>
        \A e \in editor.text.edits \ overrun :
            e \in draft.edits \/ \E p \in posts : e \in p.edits
=============================================================================
