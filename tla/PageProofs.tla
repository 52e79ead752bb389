------------------------------ MODULE PageProofs ------------------------------
(***************************************************************************)
(* Theorems about the pages, for any number of calls that overlap, any     *)
(* bound on ticks and visits, any tabs, devices, limits and losses, any    *)
(* pictures, saves and updates.                                            *)
(***************************************************************************)
EXTENDS CoursePage, Session, BlogEditor, FishingMap, Gallery, FiniteSetTheorems, TLAPS

-----------------------------------------------------------------------------
(* The course page *)

Page ==
    [is : {"list", "lesson"}, mounted : BOOLEAN, submitting : BOOLEAN,
     advancing : BOOLEAN, error : BOOLEAN, course : BOOLEAN,
     status : {"none", "ready", "failed"}, timer : Runs \cup {"null"},
     intervals : SUBSET Runs]

\* OneInterval, of a page that is not yet the variable.
Tidy(p) == p \in Page /\ p.intervals \subseteq {p.timer}

LEMMA StoppedTidy ==
    ASSUME NEW p, Tidy(p)
    PROVE  Tidy(Stopped(p)) /\ Stopped(p).intervals = {}
BY DEF Tidy, Stopped, Page

LEMMA PollingTidy ==
    ASSUME NEW p, Tidy(p), p.intervals = {}, NEW i \in Runs
    PROVE  Tidy(Polling(p, i))
BY DEF Tidy, Polling, Page

\* What writes the refs leaves the timer and the intervals alone.
LEMMA WritesTidy ==
    ASSUME NEW p, Tidy(p)
    PROVE  Tidy(WithError(p)) /\ Tidy(WithCourse(p)) /\ Tidy(WithFailure(p))
BY DEF Tidy, WithError, WithCourse, WithFailure, Page

LEMMA LeftTidy ==
    ASSUME NEW p, Tidy(p), NEW fn
    PROVE  Tidy(Left(p, fn))
BY DEF Tidy, Left, Page

LEMMA SettleTidy ==
    ASSUME NEW p, Tidy(p), NEW i
    PROVE  Tidy(Settle(i, p))
BY LeftTidy DEF Settle

\* The functions begin: what they set of the page keeps it tidy.
LEMMA CallsTidy ==
    ASSUME Tidy(page), NEW i \in Runs,
           submitTopic(i) \/ loadCourse(i) \/ onAdvance(i) \/ onMarkSessionDone(i)
    PROVE  Tidy(page')
<1> DEFINE q == Stopped(page)
<1>1. Tidy(q)
  BY StoppedTidy
<1> HIDE DEF q
<1>2. CASE submitTopic(i)
  <2>1. page' = [q EXCEPT !.submitting = TRUE, !.error = FALSE, !.course = FALSE,
                          !.status = "none"]
    BY <1>2 DEF submitTopic, Launch, q
  <2> QED
    BY <1>1, <2>1 DEF Tidy, Page
<1>3. CASE loadCourse(i)
  <2>1. page' = [q EXCEPT !.error = FALSE]
    BY <1>3 DEF loadCourse, Launch, q
  <2> QED
    BY <1>1, <2>1 DEF Tidy, Page
<1>4. CASE onAdvance(i) \/ onMarkSessionDone(i)
  BY <1>4 DEF onAdvance, onMarkSessionDone, Launch, Tidy, Page
<1> QED
  BY <1>2, <1>3, <1>4

\* A poll is begun on a page whose timer was stopped.
LEMMA PollTidy ==
    ASSUME Tidy(page), NEW i \in Runs, pollUntilSettled(i) \/ pollForLesson(i)
    PROVE  Tidy(page')
<1> DEFINE q == Stopped(page)
<1>1. Tidy(q) /\ q.intervals = {}
  BY StoppedTidy
<1> HIDE DEF q
<1>2. page' = Polling(q, i)
  BY DEF pollUntilSettled, pollForLesson, StartPoll, q
<1> QED
  BY <1>1, <1>2, PollingTidy

LEMMA AnswersTidy ==
    ASSUME Tidy(page), NEW i \in Runs,
           Created(i) \/ Got(i) \/ Posted(i) \/ Patched(i) \/ Tick(i) \/ TickAnswered(i)
    PROVE  Tidy(page')
<1> DEFINE q == Stopped(page)
           r == [q EXCEPT !.error = FALSE]
<1>q. Tidy(q)
  BY StoppedTidy
<1>r. Tidy(r)
  <2> HIDE DEF q
  <2> QED
    BY <1>q DEF Tidy, Page
<1> HIDE DEF q, r
<1>1. CASE Created(i)
  BY <1>1, WritesTidy, LeftTidy DEF Created, Go, Finish
<1>2. CASE Got(i)
  <2> DEFINE now == IF run[i].fn = "submit" THEN q ELSE page
  <2>1. Tidy(now)
    BY <1>q
  <2>2. \/ page' = Left(WithCourse(now), run[i].fn)
        \/ page' = Left(WithFailure(now), run[i].fn)
        \/ page' = Left(WithError(page), run[i].fn)
        \/ page' = Left(page, run[i].fn)
        \/ pollUntilSettled(i)
    BY <1>2 DEF Got, Go, Finish, q
  <2> HIDE DEF now
  <2> QED
    BY <2>1, <2>2, WritesTidy, LeftTidy, PollTidy
<1>3. CASE Posted(i)
  <2>1. \/ pollForLesson(i) \/ page' = r
        \/ page' = Left(page, run[i].fn) \/ page' = Left(WithError(page), run[i].fn)
    BY <1>3 DEF Posted, Go, Finish, r, q
  <2> QED
    BY <1>r, <2>1, WritesTidy, LeftTidy, PollTidy
<1>4. CASE Patched(i)
  BY <1>4, WritesTidy, LeftTidy DEF Patched, Go, Finish
<1>5. CASE Tick(i)
  <2>1. \/ page' = page
        \/ page' = Settle(i, WithFailure(q)) \/ page' = Settle(i, WithError(q))
    BY <1>5 DEF Tick, TimedOut, q
  <2> QED
    BY <1>q, <2>1, WritesTidy, SettleTidy
<1>6. CASE TickAnswered(i)
  <2>1. \/ page' = page \/ page' = WithCourse(page)
        \/ page' = Settle(i, WithCourse(q)) \/ page' = Settle(i, WithError(q))
        \/ page' = Settle(i, WithFailure(q))
    BY <1>6 DEF TickAnswered, q
  <2> QED
    BY <1>q, <2>1, WritesTidy, SettleTidy
<1> QED
  BY <1>1, <1>2, <1>3, <1>4, <1>5, <1>6

\* CoursePage: every interval that runs is the one in pollTimer, however many
\* calls overlap and in whatever order they are answered, so that stopPolling
\* always reaches it.
THEOREM OneIntervalOnly == CoursePageSpec => []OneInterval
<1>1. CoursePageInit => Tidy(page)
  BY DEF CoursePageInit, Tidy, Page
<1>2. Tidy(page) /\ [CoursePageNext]_courseVars => Tidy(page)'
  <2> SUFFICES ASSUME Tidy(page), [CoursePageNext]_courseVars PROVE Tidy(page')
    OBVIOUS
  <2>1. CASE UNCHANGED courseVars
    BY <2>1 DEF courseVars
  <2>2. CASE onUnmounted
    <3> DEFINE q == Stopped(page)
    <3>1. Tidy(q) /\ page' = [q EXCEPT !.mounted = FALSE]
      BY <2>2, StoppedTidy DEF onUnmounted
    <3> HIDE DEF q
    <3> QED
      BY <3>1 DEF Tidy, Page
  <2> QED
    BY <2>1, <2>2, CallsTidy, AnswersTidy DEF CoursePageNext
<1>3. Tidy(page) => OneInterval
  BY DEF Tidy, OneInterval
<1> QED
  BY <1>1, <1>2, <1>3, PTL DEF CoursePageSpec

-----------------------------------------------------------------------------
(* The blog editor *)

EditorPage ==
    [open : BOOLEAN, isEdit : BOOLEAN, text : Text, blobFileMap : SUBSET Images,
     hasUnsavedChanges : BOOLEAN, autoSaveTimer : BOOLEAN, showDraftRestore : BOOLEAN,
     fetching : BOOLEAN, loading : BOOLEAN, autoSaveEnabled : BOOLEAN]

SubmitCall ==
    [at : {"unused", "uploading", "sent", "stored", "over"},
     text : Text, files : SUBSET Images, visit : Nat]

\* EditorTypeOK without the bound on the visits.
EditorFits ==
    /\ editor \in EditorPage
    /\ draft \in Text \cup {NoDraft}
    /\ submit \in [Submits -> SubmitCall]
    /\ posts \subseteq Text
    /\ visits \in Nat

Posted1(e) == \E p \in posts : e \in p.edits

\* What a call that was answered with success has sent is in the posts.
StoredKept ==
    \A s \in Submits : submit[s].at = "stored" =>
        \A e \in submit[s].text.edits \ overrun : Posted1(e)

EditorInv == EditorFits /\ StoredKept /\ NothingOnlyOnThePage

\* Whoever sets the fields of a page sets the flag with them.
LEMMA ChangedPage ==
    ASSUME NEW e \in EditorPage, NEW text \in Text
    PROVE  /\ Changed(e, text) \in EditorPage
           /\ Changed(e, text).hasUnsavedChanges = TRUE
BY DEF Changed, EditorPage

\* A page that was just opened or is closed shows nothing.
LEMMA ClosedPage ==
    ASSUME NEW isEdit \in BOOLEAN
    PROVE  /\ Closed(isEdit) \in EditorPage /\ Closed(isEdit).open = FALSE
           /\ Closed(isEdit).text.edits = {}
BY DEF Closed, EditorPage, Text, Blank

\* A step that leaves the text of the page, the draft and the posts alone.
LEMMA SamePage ==
    ASSUME EditorInv, EditorFits', StoredKept', draft' = draft, posts' = posts,
           overrun' = overrun,
           \/ ~editor'.open
           \/ editor'.hasUnsavedChanges
           \/ editor'.text.edits = {}
           \/ /\ editor'.open = editor.open /\ editor'.text = editor.text
              /\ editor'.hasUnsavedChanges = editor.hasUnsavedChanges
    PROVE  EditorInv'
BY DEF EditorInv, NothingOnlyOnThePage

\* A step of the page leaves the calls of handleSubmit alone.
LEMMA SameCalls ==
    ASSUME EditorInv, submit' = submit, posts' = posts, overrun' = overrun
    PROVE  StoredKept'
BY DEF EditorInv, StoredKept, Posted1

LEMMA PageSteps ==
    ASSUME EditorInv,
           Open \/ Fetched \/ adoptDraft \/ discardDraftAndLoadServer
           \/ (\E e \in Edits : Edit(e)) \/ saveDraft \/ toggleAutoSave
    PROVE  EditorInv'
<1>1. /\ editor \in EditorPage /\ draft \in Text \cup {NoDraft} /\ posts \subseteq Text
      /\ editor.isEdit \in BOOLEAN /\ editor.text \in Text /\ editor.text.edits \subseteq Edits
  BY DEF EditorInv, EditorFits, EditorPage, Text
<1>2. submit' = submit /\ posts' = posts /\ overrun' = overrun
  BY DEF Open, Fetched, adoptDraft, discardDraftAndLoadServer, Edit, saveDraft,
         toggleAutoSave
<1>3. StoredKept'
  BY <1>2, SameCalls
<1>4. ASSUME editor' \in EditorPage, draft' \in Text \cup {NoDraft}, visits' \in Nat
      PROVE  EditorFits'
  BY <1>2, <1>4 DEF EditorInv, EditorFits
<1>5. visits' \in Nat
  <2>1. visits \in Nat
    BY DEF EditorInv, EditorFits
  <2>2. CASE Open
    BY <2>1, <2>2 DEF Open
  <2>3. CASE ~Open
    BY <2>1, <2>3 DEF Fetched, adoptDraft, discardDraftAndLoadServer, Edit, saveDraft,
                      toggleAutoSave
  <2> QED
    BY <2>2, <2>3
<1>6. CASE Open
  <2> DEFINE form == [Closed(editor.isEdit) EXCEPT !.open = TRUE]
  <2>1. form \in EditorPage /\ form.text.edits = {}
    BY <1>1, ClosedPage DEF EditorPage
  <2>2. \/ editor' = [form EXCEPT !.showDraftRestore = TRUE]
        \/ draft # NoDraft /\ editor' = Changed(form, draft)
        \/ editor' = [form EXCEPT !.fetching = TRUE, !.loading = TRUE]
        \/ editor' = form
    BY <1>1, <1>6 DEF Open
  <2> HIDE DEF form
  <2>3. editor' \in EditorPage /\ (editor'.text.edits = {} \/ editor'.hasUnsavedChanges)
    <3>1. CASE draft # NoDraft /\ editor' = Changed(form, draft)
      BY <1>1, <2>1, <3>1, ChangedPage
    <3>2. CASE editor' = [form EXCEPT !.showDraftRestore = TRUE]
      BY <2>1, <3>2 DEF EditorPage
    <3>3. CASE editor' = [form EXCEPT !.fetching = TRUE, !.loading = TRUE]
      BY <2>1, <3>3 DEF EditorPage
    <3> QED
      BY <2>1, <2>2, <3>1, <3>2, <3>3
  <2>4. draft' = draft
    BY <1>6 DEF Open
  <2> QED
    BY <1>1, <1>2, <1>3, <1>4, <1>5, <2>3, <2>4, SamePage
<1>7. CASE Fetched
  <2> DEFINE form == [editor EXCEPT !.fetching = FALSE, !.loading = FALSE]
  <2>1. /\ form \in EditorPage /\ form.open = editor.open /\ form.text = editor.text
        /\ form.hasUnsavedChanges = editor.hasUnsavedChanges
    BY <1>1 DEF EditorPage
  <2>2. draft' = draft /\ ((\E post \in posts : editor' = Changed(form, post)) \/ editor' = form)
    BY <1>7 DEF Fetched
  <2> HIDE DEF form
  <2>3. CASE \E post \in posts : editor' = Changed(form, post)
    BY <1>1, <1>2, <1>3, <1>4, <1>5, <2>1, <2>2, <2>3, ChangedPage, SamePage
  <2> QED
    BY <1>1, <1>2, <1>3, <1>4, <1>5, <2>1, <2>2, <2>3, SamePage
<1>8. CASE adoptDraft
  <2> DEFINE form == [editor EXCEPT !.showDraftRestore = FALSE]
  <2>1. /\ form \in EditorPage /\ form.open = editor.open /\ form.text = editor.text
        /\ form.hasUnsavedChanges = editor.hasUnsavedChanges
    BY <1>1 DEF EditorPage
  <2>2. draft' = draft /\ ((draft # NoDraft /\ editor' = Changed(form, draft)) \/ editor' = form)
    BY <1>8 DEF adoptDraft
  <2> HIDE DEF form
  <2>3. CASE draft # NoDraft /\ editor' = Changed(form, draft)
    BY <1>1, <1>2, <1>3, <1>4, <1>5, <2>1, <2>2, <2>3, ChangedPage, SamePage
  <2> QED
    BY <1>1, <1>2, <1>3, <1>4, <1>5, <2>1, <2>2, <2>3, SamePage
<1>9. CASE discardDraftAndLoadServer
  <2>1. /\ editor' \in EditorPage /\ editor'.open = editor.open /\ editor'.text = editor.text
        /\ editor'.hasUnsavedChanges = editor.hasUnsavedChanges /\ draft' = draft
    BY <1>1, <1>9 DEF discardDraftAndLoadServer, EditorPage
  <2> QED
    BY <1>1, <1>2, <1>3, <1>4, <1>5, <2>1, SamePage
<1>10. ASSUME NEW e \in Edits, Edit(e) PROVE EditorInv'
  <2> DEFINE text == [edits |-> editor.text.edits \cup {e},
                      blobs |-> editor.text.blobs \cup ({e} \cap Images)]
             form == Changed(editor, text)
  <2>1. text \in Text
    BY <1>1 DEF Text
  <2>2. editor' = [form EXCEPT !.blobFileMap = form.blobFileMap \cup ({e} \cap Images)]
        /\ draft' = draft
    BY <1>10 DEF Edit
  <2>3. form \in EditorPage /\ form.hasUnsavedChanges = TRUE
    BY <1>1, <2>1, ChangedPage
  <2> HIDE DEF form
  <2>4. editor' \in EditorPage /\ editor'.hasUnsavedChanges = TRUE
    BY <2>2, <2>3 DEF EditorPage
  <2> QED
    BY <1>1, <1>2, <1>3, <1>4, <1>5, <2>2, <2>4, SamePage
<1>11. CASE saveDraft
  <2>1. /\ draft' = editor.text /\ editor' \in EditorPage /\ editor'.text = editor.text
    BY <1>1, <1>11 DEF saveDraft, EditorPage
  <2>2. EditorFits' /\ NothingOnlyOnThePage'
    BY <1>1, <1>4, <1>5, <2>1 DEF NothingOnlyOnThePage
  <2> QED
    BY <1>3, <2>2 DEF EditorInv
<1>12. CASE toggleAutoSave
  <2>1. /\ editor' \in EditorPage /\ editor'.open = editor.open /\ editor'.text = editor.text
        /\ editor'.hasUnsavedChanges = editor.hasUnsavedChanges /\ draft' = draft
    BY <1>1, <1>12 DEF toggleAutoSave, EditorPage
  <2> QED
    BY <1>1, <1>2, <1>3, <1>4, <1>5, <2>1, SamePage
<1> QED
  BY <1>6, <1>7, <1>8, <1>9, <1>10, <1>11, <1>12

\* Sending a post, and the end of a call, leave the text of a page alone.
LEMMA SubmitPage ==
    ASSUME NEW form \in EditorPage, NEW new,
           \/ new = form \/ new = Sending(form) \/ new = [form EXCEPT !.loading = FALSE]
    PROVE  /\ new \in EditorPage /\ new.open = form.open /\ new.text = form.text
           /\ new.hasUnsavedChanges = form.hasUnsavedChanges
BY DEF EditorPage, Sending

\* What is sent is a text, whichever page its fields come from.
LEMMA PayloadText ==
    ASSUME NEW s, submit[s] \in SubmitCall, editor.text \in Text
    PROVE  Payload(s) \in Text
<1> DEFINE text == IF OfPage(s) THEN WithFields(submit[s].text) ELSE submit[s].text
<1>1. submit[s].text \in Text
  BY DEF SubmitCall
<1>2. WithFields(submit[s].text) \in Text
  BY <1>1 DEF WithFields, Text
<1>3. text \in Text /\ Payload(s) = [text EXCEPT !.blobs = @ \ submit[s].files]
  BY <1>1, <1>2 DEF Payload
<1> HIDE DEF text
<1> QED
  BY <1>3 DEF Text

\* The calls, as far as they store nothing.
LEMMA QuietCalls ==
    ASSUME EditorInv, NEW s \in Submits, handleSubmit(s) \/ Uploaded(s) \/ UploadFails(s) \/ Fails(s)
    PROVE  EditorInv'
<1>1. /\ editor \in EditorPage /\ submit \in [Submits -> SubmitCall] /\ visits \in Nat
      /\ editor.text \in Text /\ editor.blobFileMap \subseteq Images
  BY DEF EditorInv, EditorFits, EditorPage
<1>2. draft' = draft /\ posts' = posts /\ overrun' = overrun /\ visits' = visits
  BY DEF handleSubmit, Uploaded, UploadFails, Fails
<1>3. \/ editor' = editor \/ editor' = Sending(editor) \/ editor' = [editor EXCEPT !.loading = FALSE]
  BY DEF handleSubmit, Uploaded, UploadFails, Fails, Ended
<1>4. /\ editor' \in EditorPage /\ editor'.open = editor.open /\ editor'.text = editor.text
      /\ editor'.hasUnsavedChanges = editor.hasUnsavedChanges
  BY <1>1, <1>3, SubmitPage
<1>5. submit' \in [Submits -> SubmitCall] /\ submit'[s].at # "stored"
      /\ \A t \in Submits \ {s} : submit'[t] = submit[t]
  <2>1. CASE handleSubmit(s)
    <3>1. \E c \in SubmitCall : c.at # "stored" /\ submit' = [submit EXCEPT ![s] = c]
      <4>1. [at |-> "sent", text |-> editor.text, files |-> {}, visit |-> visits] \in SubmitCall
        BY <1>1 DEF SubmitCall
      <4>2. [at |-> "uploading", text |-> editor.text, files |-> editor.blobFileMap,
             visit |-> visits] \in SubmitCall
        BY <1>1 DEF SubmitCall
      <4> QED
        BY <2>1, <4>1, <4>2 DEF handleSubmit
    <3> QED
      BY <1>1, <3>1
  <2>2. CASE Uploaded(s)
    <3> DEFINE c == [submit[s] EXCEPT !.at = "sent", !.text = Payload(s)]
    <3>1. submit' = [submit EXCEPT ![s] = c]
      BY <2>2 DEF Uploaded
    <3>2. submit[s] \in SubmitCall /\ Payload(s) \in Text
      BY <1>1, PayloadText DEF SubmitCall
    <3>3. c \in SubmitCall /\ c.at = "sent"
      BY <3>2 DEF SubmitCall
    <3> HIDE DEF c
    <3> QED
      BY <1>1, <3>1, <3>3
  <2>3. CASE UploadFails(s) \/ Fails(s)
    <3> DEFINE c == [submit[s] EXCEPT !.at = "over"]
    <3>1. submit' = [submit EXCEPT ![s] = c]
      BY <2>3 DEF UploadFails, Fails, Goes
    <3>2. c \in SubmitCall /\ c.at = "over"
      BY <1>1 DEF SubmitCall
    <3> HIDE DEF c
    <3> QED
      BY <1>1, <3>1, <3>2
  <2> QED
    BY <2>1, <2>2, <2>3
<1>6. EditorFits' /\ StoredKept'
  BY <1>2, <1>4, <1>5 DEF EditorInv, EditorFits, StoredKept, Posted1
<1> QED
  BY <1>2, <1>4, <1>6, SamePage

\* A post that is stored takes the place of another, which is on record.
LEMMA StoreStep ==
    ASSUME EditorInv, NEW s \in Submits, PostStored(s) PROVE EditorInv'
<1> DEFINE c == [submit[s] EXCEPT !.at = "stored"]
           sent == submit[s].text
           gone == UNION {p.edits : p \in posts \ posts'}
<1>1. /\ submit \in [Submits -> SubmitCall] /\ sent \in Text /\ posts \subseteq Text
      /\ c \in SubmitCall /\ c.text = sent
  BY DEF EditorInv, EditorFits, SubmitCall
<1>2. /\ submit' = [submit EXCEPT ![s] = c] /\ editor' = editor /\ draft' = draft
      /\ visits' = visits /\ (posts' = {sent} \/ posts' = posts \cup {sent})
      /\ overrun' = overrun \cup (gone \ sent.edits)
  BY DEF PostStored, Goes
<1> HIDE DEF c, sent
<1>3. EditorFits'
  BY <1>1, <1>2 DEF EditorInv, EditorFits
<1>4. ASSUME NEW e, Posted1(e), e \notin overrun' PROVE Posted1(e)'
  <2>1. PICK p \in posts : e \in p.edits
    BY <1>4 DEF Posted1
  <2>2. CASE p \in posts'
    BY <2>1, <2>2 DEF Posted1
  <2>3. CASE p \notin posts'
    <3>1. e \in gone
      BY <2>1, <2>3
    <3> HIDE DEF gone
    <3>2. e \in sent.edits
      BY <1>2, <1>4, <3>1
    <3>3. sent \in posts'
      BY <1>2
    <3> QED
      BY <3>2, <3>3 DEF Posted1
  <2> QED
    BY <2>2, <2>3
<1>5. StoredKept'
  <2>1. \A e \in sent.edits : Posted1(e)'
    BY <1>2 DEF Posted1
  <2>2. submit'[s].text = sent /\ \A t \in Submits \ {s} : submit'[t] = submit[t]
    BY <1>1, <1>2
  <2> QED
    BY <1>2, <1>4, <2>1, <2>2 DEF EditorInv, StoredKept
<1>6. NothingOnlyOnThePage'
  BY <1>2, <1>4 DEF EditorInv, NothingOnlyOnThePage, Posted1
<1> QED
  BY <1>3, <1>5, <1>6 DEF EditorInv

\* The draft is cleared when what it holds is in a post, or is on record.
LEMMA PublishStep ==
    ASSUME EditorInv, NEW s \in Submits, Published(s) PROVE EditorInv'
<1> DEFINE c == [submit[s] EXCEPT !.at = "over"]
<1>1. /\ submit \in [Submits -> SubmitCall] /\ editor \in EditorPage
      /\ editor.text.edits \subseteq Edits /\ c \in SubmitCall /\ c.at = "over"
  BY DEF EditorInv, EditorFits, SubmitCall, EditorPage, Text
<1>2. /\ submit[s].at = "stored" /\ submit' = [submit EXCEPT ![s] = c]
      /\ draft' = NoDraft /\ posts' = posts /\ visits' = visits
      /\ overrun' = overrun \cup ((draft.edits \cap Edits) \ submit[s].text.edits)
      /\ editor' = editor \/ editor' = [editor EXCEPT !.loading = FALSE]
  BY DEF Published, Goes, Ended
<1> HIDE DEF c
<1>3. /\ editor' \in EditorPage /\ editor'.open = editor.open /\ editor'.text = editor.text
      /\ editor'.hasUnsavedChanges = editor.hasUnsavedChanges
  BY <1>1, <1>2, SubmitPage
<1>4. EditorFits'
  BY <1>1, <1>2, <1>3 DEF EditorInv, EditorFits
<1>5. StoredKept'
  BY <1>1, <1>2 DEF EditorInv, StoredKept, Posted1
<1>6. NothingOnlyOnThePage'
  BY <1>1, <1>2, <1>3 DEF EditorInv, StoredKept, NothingOnlyOnThePage, Posted1
<1> QED
  BY <1>4, <1>5, <1>6 DEF EditorInv

\* A page that is reloaded is closed, and its calls are over.
LEMMA ReloadStep ==
    ASSUME EditorInv, Reload PROVE EditorInv'
<1>1. editor.isEdit \in BOOLEAN /\ submit \in [Submits -> SubmitCall]
  BY DEF EditorInv, EditorFits, EditorPage
<1>2. /\ editor' = Closed(editor.isEdit) /\ draft' = draft /\ posts' = posts
      /\ visits' = visits /\ overrun' = overrun
      /\ submit' = [s \in Submits |-> IF UnderWay(s) THEN [submit[s] EXCEPT !.at = "over"]
                                      ELSE submit[s]]
  BY DEF Reload
<1>3. \A s \in Submits : submit'[s] \in SubmitCall /\ submit'[s].at # "stored"
  <2> SUFFICES ASSUME NEW s \in Submits
               PROVE  submit'[s] \in SubmitCall /\ submit'[s].at # "stored"
    OBVIOUS
  <2>1. submit[s] \in SubmitCall
    BY <1>1
  <2>2. CASE UnderWay(s)
    BY <1>2, <2>1, <2>2 DEF SubmitCall
  <2>3. CASE ~UnderWay(s)
    BY <1>2, <2>1, <2>3 DEF UnderWay
  <2> QED
    BY <2>2, <2>3
<1>4. submit' \in [Submits -> SubmitCall]
  BY <1>2, <1>3
<1>5. EditorFits' /\ StoredKept'
  BY <1>1, <1>2, <1>3, <1>4, ClosedPage DEF EditorInv, EditorFits, StoredKept
<1> QED
  BY <1>1, <1>2, <1>5, ClosedPage, SamePage

\* A page that is left is closed; its uploads go on with the fields it had.
LEMMA LeaveStep ==
    ASSUME EditorInv, LeavePage PROVE EditorInv'
<1>1. /\ editor.isEdit \in BOOLEAN /\ editor.text \in Text
      /\ submit \in [Submits -> SubmitCall]
  BY DEF EditorInv, EditorFits, EditorPage
<1>2. /\ editor' = Closed(editor.isEdit) /\ draft' = draft /\ posts' = posts
      /\ visits' = visits /\ overrun' = overrun
      /\ submit' = [s \in Submits |->
            IF OfPage(s) /\ submit[s].at = "uploading"
            THEN [submit[s] EXCEPT !.text = WithFields(submit[s].text)] ELSE submit[s]]
  BY DEF LeavePage
<1>3. ASSUME NEW s \in Submits
      PROVE  submit'[s] \in SubmitCall /\ (submit'[s].at = "stored" => submit'[s] = submit[s])
  <2>1. submit[s] \in SubmitCall
    BY <1>1
  <2>2. WithFields(submit[s].text) \in Text
    BY <1>1, <2>1 DEF WithFields, Text, SubmitCall
  <2>3. CASE OfPage(s) /\ submit[s].at = "uploading"
    BY <1>2, <2>1, <2>2, <2>3 DEF SubmitCall
  <2>4. CASE ~(OfPage(s) /\ submit[s].at = "uploading")
    BY <1>2, <2>1, <2>4
  <2> QED
    BY <2>3, <2>4
<1>4. submit' \in [Submits -> SubmitCall]
  BY <1>2, <1>3
<1>5. EditorFits' /\ StoredKept'
  BY <1>1, <1>2, <1>3, <1>4, ClosedPage DEF EditorInv, EditorFits, StoredKept, Posted1
<1> QED
  BY <1>1, <1>2, <1>5, ClosedPage, SamePage

\* BlogEditor: a page that may be left without a warning holds nothing that is
\* not in the draft or in a stored post, whatever number of calls of
\* handleSubmit fail, overlap, or come back to another page, but for what a
\* successful one took away.
THEOREM NothingIsLost == EditorSpec => []NothingOnlyOnThePage
<1>1. EditorInit => EditorInv
  <2> SUFFICES ASSUME EditorInit PROVE EditorInv
    OBVIOUS
  <2>1. PICK isEdit \in BOOLEAN : editor = Closed(isEdit) /\ posts = IF isEdit THEN {Blank} ELSE {}
    BY DEF EditorInit
  <2>2. NotYet \in SubmitCall /\ NotYet.at = "unused" /\ Blank \in Text
    BY DEF NotYet, SubmitCall, Text, Blank
  <2>3. EditorFits /\ StoredKept
    BY <2>1, <2>2, ClosedPage DEF EditorInit, EditorFits, StoredKept
  <2>4. NothingOnlyOnThePage
    BY <2>1, ClosedPage DEF NothingOnlyOnThePage
  <2> QED
    BY <2>3, <2>4 DEF EditorInv
<1>2. EditorInv /\ [EditorNext]_editorVars => EditorInv'
  <2> SUFFICES ASSUME EditorInv, [EditorNext]_editorVars PROVE EditorInv'
    OBVIOUS
  <2>1. CASE UNCHANGED editorVars
    BY <2>1 DEF editorVars, EditorInv, EditorFits, StoredKept, Posted1, NothingOnlyOnThePage
  <2> QED
    BY <2>1, PageSteps, LeaveStep, ReloadStep, QuietCalls, StoreStep, PublishStep DEF EditorNext
<1>3. EditorInv => NothingOnlyOnThePage
  BY DEF EditorInv
<1> QED
  BY <1>1, <1>2, <1>3, PTL DEF EditorSpec

-----------------------------------------------------------------------------
(* The fishing map *)

Panel == [data : 0..Fetches, error : 0..Fetches, loading : BOOLEAN]

\* A call has been begun when its number is not above seq.
FetchesNumbered ==
    /\ seq \in 0..Fetches
    /\ fetch \in [1..Fetches -> {"unused", "asked", "over"}]
    /\ \A f \in 1..Fetches : fetch[f] # "unused" <=> f <= seq

MapInv == panel \in Panel /\ FetchesNumbered /\ LatestWins

\* What a call writes into the panel.
LEMMA CallType ==
    ASSUME NEW p \in Panel, NEW f \in 0..Fetches
    PROVE  /\ [p EXCEPT !.error = f, !.loading = TRUE] \in Panel
           /\ [p EXCEPT !.error = f, !.loading = TRUE].loading = TRUE
BY DEF Panel

\* What an answer writes into it.
LEMMA AnswerType ==
    ASSUME NEW p \in Panel, NEW f \in 0..Fetches,
           NEW q, q = [p EXCEPT !.data = f] \/ q = [p EXCEPT !.error = f]
    PROVE  /\ [q EXCEPT !.loading = FALSE] \in Panel
           /\ [q EXCEPT !.loading = FALSE].loading = FALSE
           /\ \/ [q EXCEPT !.loading = FALSE].data = f
              \/ [q EXCEPT !.loading = FALSE].error = f
BY DEF Panel

\* FishingMap: the guarded store ends with the outcome of the last fetch and is
\* loading exactly until that one is answered, in whatever order any number of
\* fetches are answered and whichever of them fail.
THEOREM LatestFetchWins ==
    ASSUME Fetches \in Nat
    PROVE  MapSpec => []LatestWins
<1>1. MapInit => MapInv
  <2>1. ASSUME MapInit PROVE FetchesNumbered /\ LatestWins
    BY <2>1 DEF MapInit, FetchesNumbered, LatestWins
  <2>2. ASSUME MapInit PROVE panel \in Panel
    BY <2>2 DEF MapInit, Panel, NoFetch
  <2> QED
    BY <2>1, <2>2 DEF MapInv
<1>2. MapInv /\ [MapNext]_mapVars => MapInv'
  <2> SUFFICES ASSUME MapInv, [MapNext]_mapVars PROVE MapInv'
    OBVIOUS
  <2>1. CASE UNCHANGED mapVars
    BY <2>1 DEF mapVars, MapInv, FetchesNumbered, LatestWins
  <2>2. CASE fetchWeatherAndFishing
    <3>1. /\ seq \in Nat /\ seq' = seq + 1 /\ seq' \in 1..Fetches /\ store' = store
      BY <2>2 DEF fetchWeatherAndFishing, MapInv, FetchesNumbered
    <3>2. /\ fetch' \in [1..Fetches -> {"unused", "asked", "over"}]
          /\ fetch'[seq'] = "asked"
          /\ \A f \in 1..Fetches : f # seq' => fetch'[f] = fetch[f]
      BY <2>2, <3>1 DEF fetchWeatherAndFishing, MapInv, FetchesNumbered
    <3>3. panel' \in Panel /\ panel'.loading = TRUE
      <4>1. panel' = [panel EXCEPT !.error = 0, !.loading = TRUE]
        BY <2>2 DEF fetchWeatherAndFishing, NoFetch
      <4>2. panel \in Panel /\ 0 \in 0..Fetches
        BY DEF MapInv
      <4> QED
        BY <4>1, <4>2, CallType
    <3>4. FetchesNumbered'
      BY <3>1, <3>2 DEF MapInv, FetchesNumbered
    <3> QED
      BY <3>1, <3>2, <3>3, <3>4 DEF MapInv, LatestWins
  <2>3. ASSUME NEW f \in 1..Fetches, FetchAnswered(f) PROVE MapInv'
    <3>1. /\ fetch' \in [1..Fetches -> {"unused", "asked", "over"}]
          /\ fetch[f] = "asked" /\ fetch'[f] = "over"
          /\ \A g \in 1..Fetches : g # f => fetch'[g] = fetch[g]
          /\ seq' = seq /\ store' = store /\ f <= seq
      BY <2>3 DEF FetchAnswered, MapInv, FetchesNumbered
    <3>2. FetchesNumbered'
      BY <3>1 DEF MapInv, FetchesNumbered
    <3>3. CASE store = "bare" \/ f = seq
      <4>1. panel' \in Panel /\ panel'.loading = FALSE
               /\ (panel'.data = f \/ panel'.error = f)
        <5>1. PICK q \in {[panel EXCEPT !.data = f], [panel EXCEPT !.error = f]} :
                 panel' = [q EXCEPT !.loading = FALSE]
          BY <2>3, <3>3 DEF FetchAnswered, isActive
        <5>2. panel \in Panel /\ f \in 0..Fetches
          BY DEF MapInv
        <5>3. /\ [q EXCEPT !.loading = FALSE] \in Panel
              /\ [q EXCEPT !.loading = FALSE].loading = FALSE
              /\ \/ [q EXCEPT !.loading = FALSE].data = f
                 \/ [q EXCEPT !.loading = FALSE].error = f
          BY <5>2, AnswerType
        <5> QED
          BY <5>1, <5>3
      <4> QED
        BY <3>1, <3>2, <3>3, <4>1 DEF MapInv, LatestWins
    <3>4. CASE store # "bare" /\ f # seq
      <4>1. panel' = panel
        BY <2>3, <3>4 DEF FetchAnswered, isActive
      <4>2. seq > 0 => seq \in 1..Fetches
        BY DEF MapInv, FetchesNumbered
      <4> QED
        BY <3>1, <3>2, <3>4, <4>1, <4>2 DEF MapInv, LatestWins
    <3> QED
      BY <3>3, <3>4
  <2> QED
    BY <2>1, <2>2, <2>3 DEF MapNext
<1>3. MapInv => LatestWins
  BY DEF MapInv
<1> QED
  BY <1>1, <1>2, <1>3, PTL DEF MapSpec

-----------------------------------------------------------------------------
(* The login of a browser *)

Reqs == Tabs \cup Others

Request ==
    [is : {"none", "refresh", "login", "over"},
     at : {"idle", "sent", "found", "stored", "evicting", "kept", "done", "refused"},
     old : Nat, new : Nat, out : SUBSET Nat]

CallState ==
    [at : {"new", "sent", "waiting", "leaving", "left", "done", "failed"}, old : Nat]

\* The types, and that no number above issued is anywhere.
SessionTyped ==
    /\ issued \in Nat /\ issued >= 1
    /\ stored \subseteq 1..issued
    /\ cookie \in 0..issued
    /\ lost \in Nat
    /\ req \in [Reqs -> Request]
    /\ call \in [Calls -> CallState]
    /\ \A r \in Reqs : req[r].old <= issued /\ req[r].new <= issued
    /\ \A c \in Calls : call[c].old <= issued

\* What is under way: a request that is not one is idle, only tabs refresh, and
\* only a logout leaves.
Shape ==
    /\ \A r \in Reqs : req[r].is \notin {"refresh", "login"} => req[r].at = "idle"
    /\ \A d \in Others : req[d].is # "refresh"
    /\ \A c \in Calls : call[c].at \in {"leaving", "left"} => c \in Logouts

Holds(r) == req[r].at \in {"stored", "evicting", "kept", "done"}

\* A token that was issued and not yet delivered is stored, or taken by the
\* device limit, and no cookie, request or logout has seen it.
Undelivered ==
    \A r \in Reqs : Holds(r) =>
        /\ req[r].new >= 1
        /\ req[r].new \in stored \cup evicted
        /\ req[r].new # cookie
        /\ \A q \in Reqs : /\ req[q].old # req[r].new
                           /\ q # r /\ Holds(q) => req[q].new # req[r].new
        /\ \A c \in Calls : call[c].old # req[r].new

SessionInv == SessionTyped /\ Shape /\ Undelivered /\ CookieAlive

-----------------------------------------------------------------------------
(* The service.  A step for one request changes that request, and what it      *)
(* takes out of the hash is accounted for.                                     *)

\* Only request r changes, and in nothing but at and out.
Advances(r) ==
    /\ req' \in [Reqs -> Request]
    /\ req'[r].is = req[r].is /\ req'[r].old = req[r].old /\ req'[r].new = req[r].new
    /\ \A q \in Reqs : q # r => req'[q] = req[q]

LEMMA ServeKeeps ==
    ASSUME Setting, SessionInv, NEW r \in Reqs, Advances(r),
           UNCHANGED <<issued, cookie, lost, call>>,
           req[r].at \notin {"idle", "done"}, Holds(r)' => Holds(r),
           stored' \subseteq stored, evicted \subseteq evicted',
           \A k \in stored \ stored' :
              k \in evicted' \/ (r \in Tabs /\ k = req[r].old /\ req'[r].at = "done")
    PROVE  SessionInv'
<1> USE DEF Advances
<1>1. SessionTyped'
  BY DEF SessionInv, SessionTyped
<1>2. Shape'
  BY DEF SessionInv, Shape, Reqs
<1>3. Undelivered'
  <2> SUFFICES ASSUME NEW q \in Reqs, Holds(q)'
               PROVE  /\ req'[q].new >= 1
                      /\ req'[q].new \in stored' \cup evicted'
                      /\ req'[q].new # cookie'
                      /\ \A p \in Reqs : /\ req'[p].old # req'[q].new
                                         /\ p # q /\ Holds(p)' => req'[p].new # req'[q].new
                      /\ \A c \in Calls : call'[c].old # req'[q].new
    BY DEF Undelivered, Holds
  <2>1. Holds(q) /\ req'[q].new = req[q].new
    BY DEF Holds
  <2>2. \A p \in Reqs : /\ req'[p].old = req[p].old /\ req'[p].new = req[p].new
                        /\ Holds(p)' => Holds(p)
    BY DEF Holds
  <2> QED
    BY <2>1, <2>2 DEF SessionInv, Undelivered
<1>4. CookieAlive'
  BY DEF SessionInv, CookieAlive, Reqs
<1> QED
  BY <1>1, <1>2, <1>3, <1>4 DEF SessionInv

\* The two fields that Survey and Evict write.
LEMMA AtAndOut ==
    ASSUME SessionInv, NEW r \in Reqs, NEW out \in SUBSET Nat,
           NEW at, at \in {"evicting", "kept"},
           \/ req' = [req EXCEPT ![r].at = at, ![r].out = out]
           \/ req' = [req EXCEPT ![r].out = out, ![r].at = at]
    PROVE  Advances(r) /\ req'[r].at = at /\ req'[r].out = out
<1> DEFINE new == [req[r] EXCEPT !.at = at, !.out = out]
<1>1. req \in [Reqs -> Request] /\ req[r] \in Request
  BY DEF SessionInv, SessionTyped
<1>2. /\ new \in Request
      /\ new.is = req[r].is /\ new.old = req[r].old /\ new.new = req[r].new
      /\ new.at = at /\ new.out = out
  BY <1>1 DEF Request
<1>3. req' = [req EXCEPT ![r] = new]
  BY <1>1 DEF Request
<1> HIDE DEF new
<1> QED
  BY <1>1, <1>2, <1>3 DEF Advances

LEMMA LookKeeps ==
    ASSUME Setting, SessionInv, NEW r \in Reqs, Look(r)
    PROVE  SessionInv'
<1>1. Advances(r) /\ req[r].at = "sent" /\ req'[r].at \in {"found", "refused"}
  BY DEF Look, Step, SessionInv, SessionTyped, Request, Advances
<1>2. UNCHANGED <<issued, stored, evicted, cookie, lost, call>>
  BY DEF Look, Browser, service
<1> QED
  BY <1>1, <1>2, ServeKeeps DEF Holds

LEMMA SurveyKeeps ==
    ASSUME Setting, SessionInv, NEW r \in Reqs, Survey(r)
    PROVE  SessionInv'
<1>1. Oldest(stored) \in SUBSET Nat
  <2>1. Oldest(stored) \subseteq stored
    BY Zenon DEF Oldest
  <2>2. stored \subseteq Nat
    BY DEF SessionInv, SessionTyped
  <2> QED
    BY <2>1, <2>2
<1>2. Advances(r) /\ req[r].at = "stored"
  <2>1. req' = [req EXCEPT ![r].at = IF Oldest(stored) = {} THEN "kept" ELSE "evicting",
                           ![r].out = Oldest(stored)]
    BY DEF Survey
  <2> QED
    BY <1>1, <2>1, AtAndOut DEF Survey
<1>3. UNCHANGED <<issued, stored, evicted, cookie, lost, call>>
  BY DEF Survey, Browser, service
<1> QED
  BY <1>2, <1>3, ServeKeeps DEF Holds

LEMMA PastOne ==
    ASSUME SessionInv, NEW r \in Reqs, NEW k, Past(r, k)
    PROVE  /\ Advances(r) /\ req[r].at = "evicting" /\ req'[r].out = req[r].out \ {k}
           /\ req'[r].at \in {"evicting", "kept"}
           /\ req[r].out # {k} => req'[r].at = "evicting"
<1>1. req[r].at = "evicting" /\ req[r].out \ {k} \in SUBSET Nat /\ req \in [Reqs -> Request]
  BY DEF Past, SessionInv, SessionTyped, Request
<1>2. req' = [req EXCEPT ![r].out = req[r].out \ {k},
                         ![r].at = IF req[r].out = {k} THEN "kept" ELSE "evicting"]
  BY <1>1 DEF Past, Request
<1> QED
  BY <1>1, <1>2, AtAndOut

LEMMA EvictKeeps ==
    ASSUME Setting, SessionInv, NEW r \in Reqs, Evict(r)
    PROVE  SessionInv'
<1>1. PICK k \in req[r].out :
         /\ Past(r, k)
         /\ stored' = stored \ {k}
         /\ evicted' = evicted \cup {k}
  BY DEF Evict
<1>2. Advances(r) /\ req[r].at = "evicting"
  BY <1>1, PastOne
<1>3. UNCHANGED <<issued, cookie, lost, call>>
  BY DEF Evict, Browser
<1> QED
  BY <1>1, <1>2, <1>3, ServeKeeps DEF Holds

LEMMA RotateKeeps ==
    ASSUME Setting, SessionInv, NEW r \in Reqs, Rotate(r)
    PROVE  SessionInv'
<1>1. Advances(r) /\ req[r].at = "kept" /\ req'[r].at = "done"
  BY DEF Rotate, Step, SessionInv, SessionTyped, Request, Advances
<1>2. UNCHANGED <<issued, evicted, cookie, lost, call>>
  BY DEF Rotate, Browser
<1>3. req[r].is = "refresh" => r \in Tabs
  BY DEF SessionInv, Shape, Reqs
<1>4. stored' = IF req[r].is = "refresh" THEN stored \ {req[r].old} ELSE stored
  BY DEF Rotate
<1> QED
  BY <1>1, <1>2, <1>3, <1>4, ServeKeeps DEF Holds

\* The new token is above every number there is.
LEMMA IssuedKeeps ==
    ASSUME Setting, SessionInv, NEW r \in Reqs,
           req' \in [Reqs -> Request],
           req[r].at \in {"sent", "found"},
           \/ req'[r].at = "stored" /\ req'[r].new = issued + 1
           \/ req'[r].at = "refused" /\ req'[r].new = req[r].new,
           req'[r].is = req[r].is, req'[r].old = req[r].old,
           \A q \in Reqs : q # r => req'[q] = req[q],
           issued' = issued + 1, stored' = stored \cup {issued + 1},
           UNCHANGED <<evicted, cookie, lost, call>>
    PROVE  SessionInv'
<1>1. /\ req' \in [Reqs -> Request]
      /\ req[r].at \in {"sent", "found"} /\ req'[r].at \in {"stored", "refused"}
      /\ req'[r].at = "stored" => req'[r].new = issued + 1
      /\ req'[r].is = req[r].is /\ req'[r].old = req[r].old
      /\ req'[r].new \in {issued + 1, req[r].new}
      /\ \A q \in Reqs : q # r => req'[q] = req[q]
  OBVIOUS
<1>2. /\ issued' = issued + 1 /\ stored' = stored \cup {issued + 1}
      /\ UNCHANGED <<evicted, cookie, lost, call>>
  OBVIOUS
<1>3. SessionTyped'
  <2>1. ASSUME NEW q \in Reqs PROVE req'[q].old <= issued + 1 /\ req'[q].new <= issued + 1
    <3>1. /\ issued \in Nat /\ req[q].old \in Nat /\ req[q].new \in Nat
          /\ req[q].old <= issued /\ req[q].new <= issued
      BY DEF SessionInv, SessionTyped, Request
    <3> QED
      BY <1>1, <3>1
  <2>2. ASSUME NEW c \in Calls PROVE call[c].old <= issued + 1
    BY DEF SessionInv, SessionTyped, CallState
  <2>3. /\ issued + 1 \in Nat /\ issued + 1 >= 1
        /\ stored \cup {issued + 1} \subseteq 1..(issued + 1)
        /\ cookie \in 0..(issued + 1)
    BY DEF SessionInv, SessionTyped
  <2> QED
    BY <1>1, <1>2, <2>1, <2>2, <2>3 DEF SessionInv, SessionTyped
<1>4. Shape'
  BY <1>1, <1>2 DEF SessionInv, Shape, Reqs
<1>5. Undelivered'
  <2>1. ASSUME NEW q \in Reqs, q # r, Holds(q)'
        PROVE  /\ Holds(q) /\ req'[q].new = req[q].new /\ req[q].new <= issued
               /\ req'[q].new # issued + 1
    BY <1>1, <2>1 DEF Holds, SessionInv, SessionTyped, Request
  <2>2. \A q \in Reqs : req'[q].old = req[q].old /\ req'[q].old # issued + 1
    BY <1>1 DEF SessionInv, SessionTyped, Request
  <2>3. cookie' # issued + 1 /\ \A c \in Calls : call'[c].old # issued + 1
    BY <1>2 DEF SessionInv, SessionTyped, CallState
  <2>4. issued + 1 >= 1
    BY DEF SessionInv, SessionTyped
  <2> QED
    BY <1>1, <1>2, <2>1, <2>2, <2>3, <2>4 DEF SessionInv, Undelivered, Holds
<1>6. CookieAlive'
  BY <1>1, <1>2 DEF SessionInv, CookieAlive, Reqs
<1> QED
  BY <1>3, <1>4, <1>5, <1>6 DEF SessionInv

LEMMA StoreKeeps ==
    ASSUME Setting, SessionInv, NEW r \in Reqs, Store(r)
    PROVE  SessionInv'
<1>1. /\ req' \in [Reqs -> Request]
      /\ req[r].at \in {"sent", "found"} /\ req'[r].at = "stored"
      /\ req'[r].is = req[r].is /\ req'[r].old = req[r].old /\ req'[r].new = issued + 1
      /\ \A q \in Reqs : q # r => req'[q] = req[q]
  BY DEF Store, HSet, SessionInv, SessionTyped, Request
<1>2. /\ issued' = issued + 1 /\ stored' = stored \cup {issued + 1}
      /\ UNCHANGED <<evicted, cookie, lost, call>>
  BY DEF Store, HSet, Browser
<1> QED
  BY <1>1, <1>2, IssuedKeeps

\* What Redis fails leaves the hash as it was, or stores a token nobody has.
LEMMA FailsKeeps ==
    ASSUME Setting, SessionInv, NEW r \in Reqs, RedisFails(r)
    PROVE  SessionInv'
<1>0. UNCHANGED <<evicted, cookie, lost, call>> /\ req \in [Reqs -> Request]
  BY DEF RedisFails, Browser, SessionInv, SessionTyped
<1>1. ASSUME NEW from \in {"sent", "found", "stored", "kept"},
             NEW to \in {"refused", "kept", "done"}, Step(r, from, to),
             to = "refused" \/ from \in {"stored", "kept"}, UNCHANGED <<issued, stored>>
      PROVE  SessionInv'
  <2>1. /\ Advances(r) /\ req[r].at = from /\ req'[r].at = to
    BY <1>0, <1>1 DEF Step, Request, Advances
  <2> QED
    BY <1>0, <1>1, <2>1, ServeKeeps DEF Holds
<1>2. ASSUME HSet(r), req' = [req EXCEPT ![r].at = "refused"] PROVE SessionInv'
  <2>1. /\ req' \in [Reqs -> Request]
        /\ req[r].at \in {"sent", "found"} /\ req'[r].at = "refused"
        /\ req'[r].is = req[r].is /\ req'[r].old = req[r].old /\ req'[r].new = req[r].new
        /\ \A q \in Reqs : q # r => req'[q] = req[q]
    BY <1>0, <1>2 DEF HSet, Request
  <2>2. issued' = issued + 1 /\ stored' = stored \cup {issued + 1}
    BY <1>2 DEF HSet
  <2> QED
    BY <1>0, <2>1, <2>2, IssuedKeeps
<1>3. ASSUME NEW k \in req[r].out, Past(r, k), UNCHANGED <<issued, stored>> PROVE SessionInv'
  BY <1>0, <1>3, PastOne, ServeKeeps DEF Holds
<1> QED
  BY <1>1, <1>2, <1>3 DEF RedisFails

-----------------------------------------------------------------------------
(* The tabs and the other devices.                                             *)

\* What a request that is not under way leaves to CookieAlive.
LEMMA SendKeeps ==
    ASSUME Setting, SessionInv, NEW r \in Reqs, req[r].at = "idle",
           NEW is, is \in {"refresh", "login"}, r \in Others => is = "login",
           NEW old, old = cookie \/ old = 0,
           req' = [req EXCEPT ![r] = [Idle EXCEPT !.is = is, !.at = "sent", !.old = old]],
           UNCHANGED <<issued, stored, evicted, cookie, lost>>,
           call' \in [Calls -> CallState],
           \A c \in Calls : call'[c].old = call[c].old,
           \A c \in Calls : \/ call'[c] = call[c]
                            \/ call[c].at = "sent" /\ call'[c].at = "waiting"
    PROVE  SessionInv'
<1> DEFINE new == [Idle EXCEPT !.is = is, !.at = "sent", !.old = old]
<1>0. /\ old \in Nat /\ old <= issued /\ issued \in Nat /\ issued >= 1
      /\ req \in [Reqs -> Request]
  BY DEF SessionInv, SessionTyped
<1>1. /\ new \in Request
      /\ new.is = is /\ new.at = "sent" /\ new.old = old /\ new.new = 0
  BY <1>0 DEF Request, Idle, None
<1>2. /\ req' \in [Reqs -> Request]
      /\ req'[r].is = is /\ req'[r].at = "sent" /\ req'[r].old = old /\ req'[r].new = 0
      /\ \A q \in Reqs : q # r => req'[q] = req[q]
  BY <1>0, <1>1
<1> HIDE DEF new
<1>3. SessionTyped'
  BY <1>0, <1>2 DEF SessionInv, SessionTyped
<1>4. Shape'
  BY <1>2 DEF SessionInv, Shape, Reqs
<1>5. Undelivered'
  <2>1. ASSUME NEW q \in Reqs, Holds(q)' PROVE q # r /\ Holds(q) /\ req'[q] = req[q]
    BY <1>2, <2>1 DEF Holds
  <2>2. ASSUME NEW q \in Reqs, Holds(q) PROVE req[q].new # old
    BY <2>2 DEF SessionInv, Undelivered
  <2> QED
    BY <1>2, <2>1, <2>2 DEF SessionInv, Undelivered
<1>6. CookieAlive'
  BY <1>2 DEF SessionInv, CookieAlive, Reqs, Setting
<1> QED
  BY <1>3, <1>4, <1>5, <1>6 DEF SessionInv

\* Calls that advance without a token being issued, delivered or revoked.
LEMMA CallKeeps ==
    ASSUME Setting, SessionInv, UNCHANGED <<issued, stored, evicted, cookie, lost, req>>,
           call' \in [Calls -> CallState],
           \A c \in Calls : \/ call'[c].old = call[c].old
                            \/ call'[c].old = cookie,
           \A c \in Calls : call[c].at = "left" => call'[c] = call[c],
           \A c \in Calls : call'[c].at \in {"leaving", "left"} => c \in Logouts
    PROVE  SessionInv'
<1>1. SessionTyped'
  BY DEF SessionInv, SessionTyped
<1>2. Shape'
  BY DEF SessionInv, Shape
<1>3. Undelivered'
  BY DEF SessionInv, Undelivered, Holds
<1>4. CookieAlive'
  BY DEF SessionInv, CookieAlive, Setting
<1> QED
  BY <1>1, <1>2, <1>3, <1>4 DEF SessionInv

\* Only a request that is under way is not idle.
LEMMA IdleRequest ==
    ASSUME SessionInv, NEW t \in Tabs, req[t].is \notin {"refresh", "login"}
    PROVE  req[t].at = "idle"
BY DEF SessionInv, Shape, Reqs

\* Refresh begins a refresh, or joins the one under way.
LEMMA RefreshKeeps ==
    ASSUME Setting, SessionInv, NEW t \in Tabs, req[t].is # "login", Refresh(t),
           UNCHANGED <<issued, stored, evicted, cookie, lost>>,
           \/ call' = call
           \/ \E c \in Calls : call[c].at = "sent" /\ CallIs(c, "waiting")
    PROVE  SessionInv'
<1>1. /\ call' \in [Calls -> CallState]
      /\ \A c \in Calls : call'[c].old = call[c].old
      /\ \A c \in Calls : \/ call'[c] = call[c]
                          \/ call[c].at = "sent" /\ call'[c].at = "waiting"
  BY DEF SessionInv, SessionTyped, CallState, CallIs
<1>2. CASE Refreshing(t)
  <2>1. req' = req
    BY <1>2 DEF Refresh
  <2>2. \A c \in Calls : call[c].at = "left" => call'[c] = call[c]
    BY <1>1
  <2>3. \A c \in Calls : call'[c].at \in {"leaving", "left"} => c \in Logouts
    BY <1>1 DEF SessionInv, Shape
  <2> QED
    BY <1>1, <2>1, <2>2, <2>3, CallKeeps
<1>3. CASE ~Refreshing(t)
  <2>1. req[t].at = "idle"
    BY <1>3, IdleRequest DEF Refreshing, SessionInv, SessionTyped, Request, Reqs
  <2>2. req' = [req EXCEPT ![t] = [Idle EXCEPT !.is = "refresh", !.at = "sent",
                                                !.old = cookie]]
    BY <1>3 DEF Refresh, SendAuth
  <2>3. t \in Reqs /\ t \notin Others
    BY DEF Reqs, Setting
  <2> QED
    BY <1>1, <2>1, <2>2, <2>3, SendKeeps
<1> QED
  BY <1>2, <1>3

LEMMA LoginsKeep ==
    ASSUME Setting, SessionInv,
           (\E t \in Tabs : hydrateAuth(t) \/ login(t)) \/ (\E d \in Others : LoginElsewhere(d))
    PROVE  SessionInv'
<1>0. call \in [Calls -> CallState]
  BY DEF SessionInv, SessionTyped
<1>1. ASSUME NEW t \in Tabs, hydrateAuth(t) PROVE SessionInv'
  BY <1>1, RefreshKeeps DEF hydrateAuth, service, Idle
<1>2. ASSUME NEW t \in Tabs, login(t) PROVE SessionInv'
  <2>1. /\ req[t].at = "idle" /\ t \in Reqs /\ t \notin Others
        /\ UNCHANGED <<issued, stored, evicted, cookie, lost, call>>
    BY <1>2 DEF login, service, Idle, Reqs, Setting
  <2>2. req' = [req EXCEPT ![t] = [Idle EXCEPT !.is = "login", !.at = "sent",
                                                !.old = cookie]]
    BY <1>2 DEF login, SendAuth
  <2> QED
    BY <1>0, <2>1, <2>2, SendKeeps
<1>3. ASSUME NEW d \in Others, LoginElsewhere(d) PROVE SessionInv'
  <2>1. /\ req[d].at = "idle" /\ d \in Reqs
        /\ UNCHANGED <<issued, stored, evicted, cookie, lost, call>>
    BY <1>3 DEF LoginElsewhere, Browser, service, Idle, Reqs
  <2>2. req' = [req EXCEPT ![d] = [Idle EXCEPT !.is = "login", !.at = "sent", !.old = 0]]
    BY <1>3 DEF LoginElsewhere, SendAuth, None
  <2> QED
    BY <1>0, <2>1, <2>2, SendKeeps
<1> QED
  BY <1>1, <1>2, <1>3

LEMMA BeginKeeps ==
    ASSUME Setting, SessionInv, NEW c \in Calls, Begin(c)
    PROVE  SessionInv'
<1>0. /\ call[c].at = "new" /\ call \in [Calls -> CallState] /\ cookie \in Nat
      /\ UNCHANGED <<issued, stored, evicted, cookie, lost, req>>
  BY DEF Begin, service, SessionInv, SessionTyped
<1>1. \/ call' = [call EXCEPT ![c] = [at |-> "leaving", old |-> cookie]] /\ c \in Logouts
      \/ call' = [call EXCEPT ![c] = [at |-> "done", old |-> call[c].old]]
      \/ call' = [call EXCEPT ![c].at = "sent"]
      \/ call' = [call EXCEPT ![c] = [at |-> "failed", old |-> cookie]]
  BY <1>0 DEF Begin, Accepted, CallIs
<1>2. /\ call' \in [Calls -> CallState]
      /\ call'[c].old \in {call[c].old, cookie}
      /\ call'[c].at \in {"leaving", "left"} => c \in Logouts
      /\ \A k \in Calls : k # c => call'[k] = call[k]
  BY <1>0, <1>1 DEF CallState
<1>3. \A k \in Calls : call'[k].at \in {"leaving", "left"} => k \in Logouts
  BY <1>2 DEF SessionInv, Shape
<1> QED
  BY <1>0, <1>2, <1>3, CallKeeps

LEMMA RefusedKeeps ==
    ASSUME Setting, SessionInv, NEW c \in Calls, Refused(c)
    PROVE  SessionInv'
<1>0. /\ call[c].at = "sent" /\ TabOf[c] \in Tabs /\ call \in [Calls -> CallState]
      /\ UNCHANGED <<issued, stored, evicted, cookie, lost>>
  BY DEF Refused, service, SessionInv, SessionTyped, Setting
<1>1. CASE req[TabOf[c]].is # "login" /\ CallIs(c, "waiting") /\ Refresh(TabOf[c])
  BY <1>0, <1>1, RefreshKeeps
<1>2. CASE CallIs(c, "failed") /\ req' = req
  <2>1. /\ call' \in [Calls -> CallState]
        /\ call'[c].old = call[c].old /\ call'[c].at = "failed"
        /\ \A k \in Calls : k # c => call'[k] = call[k]
    BY <1>0, <1>2 DEF CallIs, CallState
  <2>2. \A k \in Calls : call'[k].at \in {"leaving", "left"} => k \in Logouts
    BY <2>1 DEF SessionInv, Shape
  <2> QED
    BY <1>0, <1>2, <2>1, <2>2, CallKeeps
<1> QED
  BY <1>1, <1>2 DEF Refused

\* HDEL of the token of a logout, which was the cookie's when it was sent.
LEMMA RevokeKeeps ==
    ASSUME Setting, SessionInv, NEW c \in Calls, Revoke(c)
    PROVE  SessionInv'
<1>0. /\ call[c].at = "leaving" /\ c \in Logouts
      /\ call \in [Calls -> CallState] /\ stored' = stored \ {call[c].old}
      /\ UNCHANGED <<issued, evicted, cookie, lost, req>>
  BY DEF Revoke, Browser, SessionInv, SessionTyped, Shape
<1>1. /\ call' \in [Calls -> CallState]
      /\ call'[c].at = "left" /\ call'[c].old = call[c].old
      /\ \A k \in Calls : k # c => call'[k] = call[k]
  BY <1>0 DEF Revoke, CallIs, CallState
<1>2. SessionTyped'
  BY <1>0, <1>1 DEF SessionInv, SessionTyped
<1>3. Shape'
  BY <1>0, <1>1 DEF SessionInv, Shape
<1>4. Undelivered'
  BY <1>0, <1>1 DEF SessionInv, Undelivered, Holds
<1>5. CookieAlive'
  BY <1>0, <1>1 DEF SessionInv, CookieAlive, Setting
<1> QED
  BY <1>2, <1>3, <1>4, <1>5 DEF SessionInv

LEMMA RevokeFailsKeeps ==
    ASSUME Setting, SessionInv, NEW c \in Calls, RevokeFails(c)
    PROVE  SessionInv'
<1>1. /\ UNCHANGED <<issued, stored, evicted, cookie, lost, req>>
      /\ call \in [Calls -> CallState] /\ call[c].at = "leaving"
      /\ call' = [call EXCEPT ![c].at = "left"]
  BY DEF RevokeFails, CallIs, Browser, SessionInv, SessionTyped
<1>2. /\ call' \in [Calls -> CallState]
      /\ \A d \in Calls : call'[d].old = call[d].old
      /\ \A d \in Calls : d # c => call'[d] = call[d]
  BY <1>1 DEF CallState
<1>3. \A d \in Calls : call'[d].at \in {"leaving", "left"} => d \in Logouts
  BY <1>1, <1>2 DEF SessionInv, Shape
<1> QED
  BY <1>1, <1>2, <1>3, CallKeeps

\* A logout is answered: without a cookie there is nothing to keep.
LEMMA LeavesKeeps ==
    ASSUME Setting, SessionInv, NEW c \in Calls, Leaves(c)
    PROVE  SessionInv'
<1>0. /\ cookie' = 0 /\ call \in [Calls -> CallState]
      /\ UNCHANGED <<issued, stored, evicted, lost, req>>
  BY DEF Leaves, service, None, SessionInv, SessionTyped
<1>1. /\ call' \in [Calls -> CallState]
      /\ call'[c].at = "done" /\ call'[c].old = call[c].old
      /\ \A k \in Calls : k # c => call'[k] = call[k]
  BY <1>0 DEF Leaves, CallIs, CallState
<1>2. SessionTyped'
  BY <1>0, <1>1 DEF SessionInv, SessionTyped
<1>3. Shape'
  BY <1>0, <1>1 DEF SessionInv, Shape
<1>4. Undelivered'
  <2>1. \A r \in Reqs : Holds(r) => req[r].new # 0
    BY DEF SessionInv, Undelivered
  <2> QED
    BY <1>0, <1>1, <2>1 DEF SessionInv, Undelivered, Holds
<1>5. CookieAlive'
  BY <1>0 DEF CookieAlive, None
<1> QED
  BY <1>2, <1>3, <1>4, <1>5 DEF SessionInv

\* The answer of a refresh or a login: its request is over, and the cookie is
\* its token, or the answer is lost, or it was a refusal.
LEMMA AnsweredKeeps ==
    ASSUME Setting, SessionInv, NEW t \in Tabs, Answered(t)
    PROVE  SessionInv'
<1>0. /\ req \in [Reqs -> Request] /\ call \in [Calls -> CallState] /\ t \in Reqs
      /\ lost \in Nat /\ cookie \in Nat /\ UNCHANGED <<issued, stored, evicted>>
  BY DEF Answered, service, SessionInv, SessionTyped, Reqs
<1>1. /\ req' \in [Reqs -> Request]
      /\ req'[t] = Idle /\ Idle.at = "idle" /\ Idle.old = 0 /\ Idle.new = 0
      /\ Idle.is = "none"
      /\ \A q \in Reqs : q # t => req'[q] = req[q]
  <2>1. Idle \in Request /\ Idle.at = "idle" /\ Idle.old = 0 /\ Idle.new = 0 /\ Idle.is = "none"
    BY DEF Idle, Request, None
  <2> QED
    BY <1>0, <2>1 DEF Answered
<1>2. Shape'
  <2>1. \A c \in Calls : call'[c].at \in {"leaving", "left"} => c \in Logouts
    BY <1>0 DEF Answered, Accepted, WaitingCalls, SessionInv, Shape, CallState
  <2> QED
    BY <1>1, <2>1 DEF SessionInv, Shape, Reqs
<1>3. CASE /\ req[t].at = "done" /\ cookie' = req[t].new /\ lost' = lost
           /\ call' = [c \in Calls |-> IF c \in WaitingCalls(t)
                                       THEN Accepted(c, call[c], cookie') ELSE call[c]]
  <2>1. /\ cookie' \in Nat /\ cookie' >= 1 /\ cookie' <= issued
        /\ cookie' \in stored \cup evicted
    BY <1>0, <1>3 DEF SessionInv, SessionTyped, Undelivered, Holds, Request
  <2>2. /\ call' \in [Calls -> CallState]
        /\ \A c \in Calls : call'[c].old \in {call[c].old, cookie'}
    BY <1>0, <1>3, <2>1 DEF Accepted, CallState
  <2>3. SessionTyped'
    BY <1>0, <1>1, <1>3, <2>1, <2>2 DEF SessionInv, SessionTyped
  <2>4. Undelivered'
    <3>1. ASSUME NEW q \in Reqs, Holds(q)'
          PROVE  q # t /\ Holds(q) /\ req'[q] = req[q] /\ req[q].new # cookie'
      <4>1. q # t /\ Holds(q) /\ req'[q] = req[q] /\ Holds(t)
        BY <1>1, <1>3, <3>1 DEF Holds
      <4> QED
        BY <1>0, <1>3, <4>1 DEF SessionInv, Undelivered
    <3>2. \A q \in Reqs : Holds(q) => req[q].new >= 1 /\ req[q].new # 0
      BY DEF SessionInv, Undelivered
    <3>3. \A q \in Reqs : req'[q].old \in {req[q].old, 0}
      BY <1>1
    <3> QED
      BY <1>0, <1>1, <2>2, <3>1, <3>2, <3>3 DEF SessionInv, Undelivered
  <2>5. CookieAlive'
    BY <1>0, <2>1 DEF CookieAlive
  <2> QED
    BY <1>2, <2>3, <2>4, <2>5 DEF SessionInv
<1>4. CASE /\ req[t].at \in {"done", "refused"} /\ cookie' = cookie
           /\ lost' = IF req[t].at = "done" THEN lost + 1 ELSE lost
           /\ call' = [c \in Calls |-> IF c \in WaitingCalls(t)
                                       THEN [call[c] EXCEPT !.at = "failed"] ELSE call[c]]
  <2>2. /\ call' \in [Calls -> CallState]
        /\ \A c \in Calls : call'[c].old = call[c].old
        /\ \A c \in Calls : call[c].at = "left" => call'[c].at = "left"
    BY <1>0, <1>4 DEF CallState, WaitingCalls
  <2>3. SessionTyped'
    BY <1>0, <1>1, <1>4, <2>2 DEF SessionInv, SessionTyped
  <2>4. Undelivered'
    <3>1. ASSUME NEW q \in Reqs, Holds(q)'
          PROVE  q # t /\ Holds(q) /\ req'[q] = req[q]
      BY <1>1, <3>1 DEF Holds
    <3>2. \A q \in Reqs : Holds(q) => req[q].new >= 1 /\ req[q].new # 0
      BY DEF SessionInv, Undelivered
    <3>3. \A q \in Reqs : req'[q].old \in {req[q].old, 0}
      BY <1>1
    <3> QED
      BY <1>0, <1>1, <1>4, <2>2, <3>1, <3>2, <3>3 DEF SessionInv, Undelivered
  <2>5. CookieAlive'
    <3>1. CASE req[t].at = "done"
      BY <1>0, <1>4, <3>1 DEF CookieAlive
    <3>2. CASE req[t].at = "refused"
      BY <1>0, <1>1, <1>4, <2>2, <3>2 DEF SessionInv, CookieAlive, Setting, Reqs
    <3> QED
      BY <1>4, <3>1, <3>2
  <2> QED
    BY <1>2, <2>3, <2>4, <2>5 DEF SessionInv
<1> QED
  BY <1>3, <1>4 DEF Answered

-----------------------------------------------------------------------------

LEMMA SessionStarts == Setting /\ SessionInit => SessionInv
<1> SUFFICES ASSUME Setting, SessionInit PROVE SessionInv
  OBVIOUS
<1>1. Idle \in Request /\ Idle.at = "idle" /\ Idle.old = 0 /\ Idle.new = 0 /\ Idle.is = "none"
  BY DEF Idle, Request, None
<1>2. /\ req \in [Reqs -> Request] /\ \A r \in Reqs : req[r] = Idle
      /\ call \in [Calls -> CallState]
      /\ \A c \in Calls : call[c].at = "new" /\ call[c].old = 0
      /\ issued = 1 /\ stored = {1} /\ cookie = 1 /\ lost = 0
  BY <1>1 DEF SessionInit, Reqs, CallState, None
<1>3. SessionTyped
  BY <1>1, <1>2 DEF SessionTyped
<1>4. Shape
  BY <1>1, <1>2 DEF Shape, Reqs
<1>5. Undelivered
  BY <1>1, <1>2 DEF Undelivered, Holds
<1>6. CookieAlive
  BY <1>2 DEF CookieAlive
<1> QED
  BY <1>3, <1>4, <1>5, <1>6 DEF SessionInv

LEMMA SessionSteps == Setting /\ SessionInv /\ [SessionNext]_sessionVars => SessionInv'
<1> SUFFICES ASSUME Setting, SessionInv, [SessionNext]_sessionVars PROVE SessionInv'
  OBVIOUS
<1>1. CASE UNCHANGED <<service, cookie, lost, req, call>>
  BY <1>1 DEF service, SessionInv, SessionTyped, Shape, Undelivered, Holds, CookieAlive
<1>2. ASSUME NEW r \in Tabs \cup Others, Serve(r) PROVE SessionInv'
  BY <1>2, LookKeeps, StoreKeeps, SurveyKeeps, EvictKeeps, RotateKeeps, FailsKeeps
     DEF Serve, Reqs
<1>3. ASSUME NEW c \in Calls, Begin(c) \/ Refused(c) \/ Revoke(c) \/ RevokeFails(c) \/ Leaves(c)
      PROVE  SessionInv'
  BY <1>3, BeginKeeps, RefusedKeeps, RevokeKeeps, RevokeFailsKeeps, LeavesKeeps
<1>4. ASSUME NEW t \in Tabs, Cool(t) \/ AccessExpires(t) PROVE SessionInv'
  BY <1>1, <1>4 DEF Cool, AccessExpires
<1> QED
  BY <1>1, <1>2, <1>3, <1>4, LoginsKeep, AnsweredKeeps
     DEF SessionNext, sessionVars, service, trouble

\* Session: a browser that holds a cookie can refresh with it, however many tabs
\* refresh, log in and log out at once and however the commands of the service
\* interleave - unless an answer was lost, the device limit took the token, or
\* its rotation or its logout is still to be answered.
THEOREM CookieStaysAlive == SessionSpec => []CookieAlive
<1>1. SessionInit => SessionInv
  BY SessionAssumption, SessionStarts
<1>2. SessionInv /\ [SessionNext]_sessionVars => SessionInv'
  BY SessionAssumption, SessionSteps
<1>3. SessionInv => CookieAlive
  BY DEF SessionInv
<1> QED
  BY <1>1, <1>2, <1>3, PTL DEF SessionSpec

-----------------------------------------------------------------------------
(* The device limit.                                                           *)

\* Tokens whose request has still to look at the limit, or is taking them out.
Going ==
    {k \in stored : \E r \in Reqs : \/ req[r].at = "stored" /\ req[r].new = k
                                    \/ req[r].at = "evicting" /\ k \in req[r].out}

\* Whatever else is under way, what stays is within the limit, but for the
\* tokens that a failed command has spared.
Staying == stored \ (Going \cup spared)

StaysInLimit == Cardinality(Staying) <= MaxDevices

\* Each of the tokens that an eviction leaves has fewer younger ones than the
\* limit, and no two of them have the same number of those.
LEMMA YoungestFit ==
    ASSUME Setting, NEW S \in SUBSET Nat, IsFiniteSet(S)
    PROVE  Cardinality(S \ Oldest(S)) <= MaxDevices
<1> DEFINE younger(k) == {n \in S : n > k}
           T == S \ Oldest(S)
           f == [k \in T |-> Cardinality(younger(k))]
           M == 0..(MaxDevices - 1)
<1>1. \A k \in S : IsFiniteSet(younger(k)) /\ Cardinality(younger(k)) \in Nat
  BY FS_Subset, FS_CardinalityType
<1>2. \A k \in T : k \in S /\ ~(Cardinality(younger(k)) >= MaxDevices)
  BY DEF Oldest
<1>3. f \in [T -> M]
  <2>1. MaxDevices \in Nat
    BY DEF Setting
  <2>2. ASSUME NEW k \in T PROVE Cardinality(younger(k)) \in M
    <3>1. Cardinality(younger(k)) \in Nat /\ ~(Cardinality(younger(k)) >= MaxDevices)
      BY <1>1, <1>2
    <3> HIDE DEF younger
    <3> QED
      BY <2>1, <3>1
  <2> HIDE DEF younger, T, M
  <2> QED
    BY <2>2
<1>4. IsFiniteSet(T) /\ Cardinality(T) \in Nat
  BY FS_Subset, FS_CardinalityType
<1>5. IsFiniteSet(M) /\ Cardinality(M) = MaxDevices
  BY FS_Interval DEF Setting
<1>6. ASSUME NEW x \in T, NEW y \in T, x < y PROVE f[x] # f[y]
  <2>1. x \in S /\ y \in S
    BY <1>2
  <2>2. younger(y) \in SUBSET younger(x) /\ y \in younger(x) /\ y \notin younger(y)
    <3>1. x \in Nat /\ y \in Nat /\ x < y
      BY <1>6, <2>1
    <3>2. \A n \in S : n \in Nat /\ (n > y => n > x)
      BY <3>1
    <3>3. younger(y) \in SUBSET younger(x)
      BY <3>2
    <3>4. y > x /\ ~(y > y)
      BY <3>1
    <3>5. y \in younger(x) /\ y \notin younger(y)
      BY <2>1, <3>4
    <3> QED
      BY <3>3, <3>5
  <2>3. Cardinality(younger(x)) # Cardinality(younger(y))
    <3> HIDE DEF younger
    <3> QED
      BY <1>1, <2>1, <2>2, FS_Subset
  <2> QED
    BY <2>3
<1>7. ASSUME NEW x \in T, NEW y \in T, x # y PROVE f[x] # f[y]
  <2>1. x \in Nat /\ y \in Nat /\ (x < y \/ y < x)
    BY <1>2, <1>7
  <2> HIDE DEF f, T
  <2> QED
    BY <1>6, <2>1
<1> HIDE DEF f, M, T
<1>8. ~(Cardinality(M) < Cardinality(T))
  BY <1>3, <1>4, <1>5, <1>7, FS_PigeonHole
<1> QED
  BY <1>4, <1>5, <1>8 DEF Setting, T

\* What is out of the hash, or going, stays so; the rest may only shrink.
LEMMA LimitShrinks ==
    ASSUME Setting, SessionInv, StaysInLimit, Staying' \subseteq Staying
    PROVE  StaysInLimit'
<1>1. IsFiniteSet(Staying)
  <2>1. IsFiniteSet(1..issued) /\ stored \subseteq 1..issued
    BY FS_Interval DEF SessionInv, SessionTyped
  <2> QED
    BY <2>1, FS_Subset DEF Staying
<1>2. Cardinality(Staying') <= Cardinality(Staying)
  BY <1>1, FS_Subset
<1>3. /\ Cardinality(Staying') \in Nat /\ Cardinality(Staying) \in Nat
      /\ MaxDevices \in Nat
  BY <1>1, FS_Subset, FS_CardinalityType DEF Setting
<1> QED
  BY <1>2, <1>3 DEF StaysInLimit

\* A request is replaced, or moved on, outside the two states that Going is about.
LEMMA LimitKeeps ==
    ASSUME Setting, SessionInv, StaysInLimit, stored' \subseteq stored, spared \subseteq spared',
           \A r \in Reqs : req[r].at \in {"stored", "evicting"} => req'[r] = req[r]
    PROVE  StaysInLimit'
<1>1. ASSUME NEW k \in Staying' PROVE k \in Staying
  BY <1>1 DEF Going, Staying
<1> QED
  BY <1>1, LimitShrinks

\* A token that was to go, and stays because of a failure, is spared.
LEMMA FailsInLimit ==
    ASSUME Setting, SessionInv, StaysInLimit, NEW r \in Reqs, RedisFails(r)
    PROVE  StaysInLimit'
<1>0. req \in [Reqs -> Request] /\ spared \subseteq spared'
  BY DEF SessionInv, SessionTyped, RedisFails
<1>1. ASSUME NEW from \in {"sent", "found", "kept"}, NEW to, Step(r, from, to), stored' = stored
      PROVE  StaysInLimit'
  BY <1>0, <1>1, LimitKeeps DEF Step
<1>2. ASSUME HSet(r), req' = [req EXCEPT ![r].at = "refused"], spared' = spared \cup {issued'}
      PROVE  StaysInLimit'
  <2>1. /\ req[r].at \in {"sent", "found"} /\ \A q \in Reqs : q # r => req'[q] = req[q]
        /\ stored' = stored \cup {issued'}
    BY <1>0, <1>2 DEF HSet
  <2>2. ASSUME NEW k \in Staying' PROVE k \in Staying
    BY <1>2, <2>1, <2>2 DEF Going, Staying
  <2> QED
    BY <2>2, LimitShrinks
<1>3. ASSUME Step(r, "stored", "kept"), spared' = spared \cup {req[r].new}, stored' = stored
      PROVE  StaysInLimit'
  <2>1. req[r].at = "stored" /\ \A q \in Reqs : q # r => req'[q] = req[q]
    BY <1>0, <1>3 DEF Step
  <2>2. ASSUME NEW k \in Staying' PROVE k \in Staying
    BY <1>3, <2>1, <2>2 DEF Going, Staying
  <2> QED
    BY <2>2, LimitShrinks
<1>4. ASSUME NEW k \in req[r].out, Past(r, k), spared' = spared \cup {k}, stored' = stored
      PROVE  StaysInLimit'
  <2>1. ASSUME NEW n \in Staying' PROVE n \in Staying
    BY <1>4, <2>1, PastOne DEF Going, Advances, Staying
  <2> QED
    BY <2>1, LimitShrinks
<1> QED
  BY <1>1, <1>2, <1>3, <1>4 DEF RedisFails

LEMMA LimitSteps ==
    ASSUME Setting, SessionInv, StaysInLimit, SessionNext
    PROVE  StaysInLimit'
<1>0. req \in [Reqs -> Request] /\ stored \subseteq 1..issued /\ issued \in Nat
  BY DEF SessionInv, SessionTyped
<1>n. stored \in SUBSET Nat /\ IsFiniteSet(stored)
  <2>1. 1..issued \subseteq Nat /\ IsFiniteSet(1..issued)
    BY <1>0, FS_Interval
  <2> QED
    BY <1>0, <2>1, FS_Subset
<1>1. ASSUME NEW r \in Reqs, Look(r) PROVE StaysInLimit'
  BY <1>0, <1>1, LimitKeeps DEF Look, Step, service, trouble
<1>2. ASSUME NEW r \in Reqs, Store(r) PROVE StaysInLimit'
  <2>1. /\ req[r].at \in {"sent", "found"} /\ issued' = issued + 1
        /\ req'[r].at = "stored" /\ req'[r].new = issued'
        /\ \A q \in Reqs : q # r => req'[q] = req[q]
        /\ stored' = stored \cup {issued'} /\ spared' = spared
    BY <1>0, <1>2 DEF Store, HSet, Request, trouble
  <2>2. ASSUME NEW k \in Staying' PROVE k \in Staying
    BY <2>1, <2>2 DEF Going, Staying
  <2> QED
    BY <2>2, LimitShrinks
<1>3. ASSUME NEW r \in Reqs, Survey(r) PROVE StaysInLimit'
  <2>1. stored' = stored /\ spared' = spared /\ \A q \in Reqs : q # r => req'[q] = req[q]
    BY <1>0, <1>3 DEF Survey, service, trouble
  <2>2. Oldest(stored) \subseteq Going'
    <3>1. CASE Oldest(stored) = {}
      BY <3>1
    <3>2. CASE Oldest(stored) # {}
      <4>1. Oldest(stored) \subseteq stored
        BY Zenon DEF Oldest
      <4>2. req' = [req EXCEPT ![r].at = "evicting", ![r].out = Oldest(stored)]
        BY <1>3, <3>2 DEF Survey
      <4>3. Oldest(stored) \in SUBSET Nat
        BY <1>n, <4>1
      <4>4. req'[r].at = "evicting" /\ req'[r].out = Oldest(stored)
        BY <4>2, <4>3, AtAndOut
      <4> QED
        BY <2>1, <4>1, <4>4 DEF Going
    <3> QED
      BY <3>1, <3>2
  <2>4. /\ Cardinality(stored \ Oldest(stored)) <= MaxDevices
        /\ IsFiniteSet(stored \ Oldest(stored))
    BY <1>n, YoungestFit, FS_Subset
  <2>5. Staying' \in SUBSET (stored \ Oldest(stored))
    BY <2>1, <2>2 DEF Staying
  <2>6. Cardinality(Staying') <= Cardinality(stored \ Oldest(stored))
    BY <2>4, <2>5, FS_Subset
  <2>7. /\ Cardinality(Staying') \in Nat
        /\ Cardinality(stored \ Oldest(stored)) \in Nat /\ MaxDevices \in Nat
    BY <2>4, <2>5, FS_Subset, FS_CardinalityType DEF Setting
  <2> QED
    BY <2>4, <2>6, <2>7 DEF StaysInLimit
<1>4. ASSUME NEW r \in Reqs, Evict(r) PROVE StaysInLimit'
  <2>1. PICK k \in req[r].out : Past(r, k) /\ stored' = stored \ {k}
    BY <1>4 DEF Evict
  <2>2. spared' = spared
    BY <1>4 DEF Evict, trouble
  <2>3. ASSUME NEW n \in Staying' PROVE n \in Staying
    BY <2>1, <2>2, <2>3, PastOne DEF Going, Advances, Staying
  <2> QED
    BY <2>3, LimitShrinks
<1>5. ASSUME NEW r \in Reqs, Rotate(r) PROVE StaysInLimit'
  BY <1>0, <1>5, LimitKeeps DEF Rotate, Step, trouble
<1>6. ASSUME NEW c \in Calls, Begin(c) \/ Revoke(c) \/ RevokeFails(c) \/ Leaves(c)
      PROVE  StaysInLimit'
  BY <1>6, LimitKeeps DEF Begin, Revoke, RevokeFails, Leaves, service, trouble
<1>7. ASSUME NEW t \in Tabs, req[t].is # "login", Refresh(t)
      PROVE  \A r \in Reqs : req[r].at \in {"stored", "evicting"} => req'[r] = req[r]
  <2>1. req' = req \/ (req[t].at = "idle" /\ \A r \in Reqs : r # t => req'[r] = req[r])
    BY <1>0, <1>7, IdleRequest DEF Refresh, Refreshing, SendAuth
  <2> QED
    BY <2>1
<1>8. ASSUME NEW c \in Calls, Refused(c) PROVE StaysInLimit'
  BY <1>7, <1>8, LimitKeeps DEF Refused, service, trouble, Setting
<1>9. ASSUME NEW t \in Tabs, hydrateAuth(t) PROVE StaysInLimit'
  BY <1>7, <1>9, LimitKeeps DEF hydrateAuth, service, trouble, Idle
<1>a. ASSUME NEW t \in Tabs, login(t) PROVE StaysInLimit'
  BY <1>0, <1>a, LimitKeeps DEF login, SendAuth, service, trouble, Idle
<1>b. ASSUME NEW d \in Others, LoginElsewhere(d) PROVE StaysInLimit'
  BY <1>0, <1>b, LimitKeeps DEF LoginElsewhere, SendAuth, service, trouble, Idle
<1>c. ASSUME NEW t \in Tabs, Answered(t) \/ Cool(t) \/ AccessExpires(t) PROVE StaysInLimit'
  BY <1>0, <1>c, LimitKeeps DEF Answered, Cool, AccessExpires, service, trouble
<1>d. ASSUME NEW r \in Reqs, RedisFails(r) PROVE StaysInLimit'
  BY <1>d, FailsInLimit
<1> QED
  BY <1>1, <1>2, <1>3, <1>4, <1>5, <1>6, <1>8, <1>9, <1>a, <1>b, <1>c, <1>d
     DEF SessionNext, Serve, Reqs

\* Session: two evictions at once, each from its own look at the hash, and tokens
\* that are issued, rotated and revoked meanwhile, never leave the user with more
\* devices than the limit once nothing is being issued, but for one token for
\* each command of the eviction that failed.
THEOREM DevicesWithinLimit == SessionSpec => []DeviceLimit
<1>1. SessionInit => SessionInv /\ StaysInLimit
  <2> SUFFICES ASSUME SessionInit PROVE SessionInv /\ StaysInLimit
    OBVIOUS
  <2>1. SessionInv
    BY SessionAssumption, SessionStarts
  <2>2. stored = {1} /\ \A r \in Reqs : req[r].at = "idle"
    BY DEF SessionInit, Reqs, Idle
  <2>3. Staying = {1}
    BY <2>2 DEF Going, Staying, SessionInit
  <2>4. Cardinality({1}) = 1
    BY FS_Singleton
  <2> QED
    BY <2>1, <2>3, <2>4, SessionAssumption DEF StaysInLimit, Setting
<1>2. SessionInv /\ StaysInLimit /\ [SessionNext]_sessionVars => (SessionInv /\ StaysInLimit)'
  <2> SUFFICES ASSUME SessionInv, StaysInLimit, [SessionNext]_sessionVars
               PROVE  SessionInv' /\ StaysInLimit'
    OBVIOUS
  <2>1. SessionInv'
    BY SessionAssumption, SessionSteps
  <2>2. CASE UNCHANGED sessionVars
    BY <2>1, <2>2, SessionAssumption, LimitKeeps DEF sessionVars
  <2>3. CASE SessionNext
    BY <2>1, <2>3, SessionAssumption, LimitSteps
  <2> QED
    BY <2>1, <2>2, <2>3
<1>3. SessionInv /\ StaysInLimit => DeviceLimit
  <2> SUFFICES ASSUME StaysInLimit,
                      \A r \in Tabs \cup Others : req[r].at \notin {"stored", "evicting"}
               PROVE  Cardinality(stored \ spared) <= MaxDevices
    BY DEF DeviceLimit
  <2>1. Staying = stored \ spared
    BY DEF Going, Reqs, Staying
  <2> QED
    BY <2>1 DEF StaysInLimit
<1> QED
  BY <1>1, <1>2, <1>3, PTL DEF SessionSpec

-----------------------------------------------------------------------------
(* The picture wall *)

Steps == {"unused", "sent", "waiting", "deleting", "written", "committed", "failed"}

SaveState ==
    [txn : Steps, told : BOOLEAN, page : Pages \cup {"none"},
     list : SUBSET Entry, gone : SUBSET Nat, new : SUBSET Entry]

UpdateState ==
    [at : {"unused", "sent", "found", "stored", "refused", "over"},
     page : Pages \cup {"none"}, id : Nat, pic : Pictures \cup {"none"},
     was : Updates \cup {NoCaption}]

GalleryTyped ==
    /\ wall \in [Pages -> [fetching : BOOLEAN, images : SUBSET Entry]]
    /\ save \in [Saves -> SaveState]
    /\ upd \in [Updates -> UpdateState]
    /\ rows \in SUBSET Entry
    /\ nextId \in Nat \ {Local}

\* Lists are finite, so that they can be numbered.
Finite ==
    /\ IsFiniteSet(rows)
    /\ \A p \in Pages : IsFiniteSet(wall[p].images)
    /\ \A s \in Saves : IsFiniteSet(save[s].list) /\ IsFiniteSet(save[s].new)

\* Every entry there is: in the table, on a page, on its way.
Held == rows \cup (UNION {wall[p].images : p \in Pages})
             \cup (UNION {save[s].list \cup save[s].new : s \in Saves})

\* An id that the table has given belongs to one picture, for ever, whatever
\* has become of its row.
OneId ==
    /\ \A e \in Held : e.id < nextId
    /\ \A e, g \in Held : e.id = g.id /\ e.id # Local => e.pic = g.pic
    /\ \A u \in Updates :
          /\ upd[u].id < nextId
          /\ \A e \in Held : e.id = upd[u].id /\ e.id # Local => e.pic = upd[u].pic

\* Rows have ids of the table, and an update that found its row had one too.
Given ==
    /\ \A e \in rows : e.id # Local
    /\ \A s \in Saves : \A e \in save[s].new : e.id # Local
    /\ \A u \in Updates : upd[u].at \in {"found", "stored"} => upd[u].id # Local

Written(text, pic) == upd[text].at # "unused" /\ upd[text].pic = pic

\* A caption was written for its picture, and so was the one that a page puts
\* back when an update fails.
OwnText ==
    /\ \A e \in Held : e.text # NoCaption => Written(e.text, e.pic)
    /\ \A u \in Updates : upd[u].was # NoCaption => Written(upd[u].was, upd[u].pic)

GalleryInv == GalleryTyped /\ Finite /\ OneId /\ Given /\ OwnText

-----------------------------------------------------------------------------
(* Finite lists                                                                *)

\* What is numbered is finite, has the pictures and the texts of the list, and
\* new ids, each for one entry.
LEMMA NumberedList ==
    ASSUME NEW list \in SUBSET Entry, IsFiniteSet(list), NEW n \in Nat \ {Local},
           NEW new \in Numbered(list, n)
    PROVE  /\ new \in SUBSET Entry
           /\ IsFiniteSet(new)
           /\ \A e \in new : /\ e.id >= n /\ e.id < n + Cardinality(list)
                             /\ \E g \in list : g.pic = e.pic /\ g.text = e.text
           /\ \A e, g \in new : e.id = g.id => e = g
<1>1. Cardinality(list) \in Nat
  BY FS_CardinalityType
<1>2. PICK f \in Injection(list, n .. n + Cardinality(list) - 1) :
          new = {[id |-> f[e], pic |-> e.pic, text |-> e.text] : e \in list}
  BY DEF Numbered
<1>3. /\ f \in [list -> n .. n + Cardinality(list) - 1]
      /\ \A a, b \in list : f[a] = f[b] => a = b
  BY <1>2 DEF Injection, IsInjective
<1>4. \A e \in list : f[e] \in Nat /\ f[e] >= n /\ f[e] < n + Cardinality(list)
  BY <1>1, <1>3
<1>5. new \in SUBSET Entry
  BY <1>2, <1>4 DEF Entry
<1>6. IsFiniteSet(new)
  <2> DEFINE h == [e \in list |-> [id |-> f[e], pic |-> e.pic, text |-> e.text]]
  <2>1. h \in Surjection(list, new)
    BY <1>2 DEF Surjection
  <2> QED
    BY <2>1, FS_Surjection
<1> QED
  BY <1>2, <1>3, <1>4, <1>5, <1>6

\* A list stays finite, and its entries keep id and picture, when captions are
\* written.
LEMMA CaptionedList ==
    ASSUME NEW list \in SUBSET Entry, IsFiniteSet(list),
           NEW chosen, NEW text \in Updates \cup {NoCaption}
    PROVE  /\ Captioned(list, chosen, text) \in SUBSET Entry
           /\ IsFiniteSet(Captioned(list, chosen, text))
           /\ \A e \in Captioned(list, chosen, text) :
                 \/ e \in list
                 \/ e.text = text /\ \E g \in list \cap chosen : g.id = e.id /\ g.pic = e.pic
<1> DEFINE put(e) == IF e \in chosen THEN [e EXCEPT !.text = text] ELSE e
           h == [e \in list |-> put(e)]
<1>1. h \in Surjection(list, Captioned(list, chosen, text))
  BY DEF Surjection, Captioned
<1>2. IsFiniteSet(Captioned(list, chosen, text))
  BY <1>1, FS_Surjection
<1>3. \A e \in list : /\ put(e) \in Entry
                      /\ put(e).id = e.id /\ put(e).pic = e.pic
                      /\ e \in chosen => put(e).text = text
  BY DEF Entry
<1> QED
  BY <1>2, <1>3 DEF Captioned
-----------------------------------------------------------------------------
(* The rules on ids and captions                                               *)

\* Whatever is held is an entry.
LEMMA HeldEntries == GalleryTyped => Held \subseteq Entry
<1> SUFFICES ASSUME GalleryTyped PROVE Held \subseteq Entry
  OBVIOUS
<1>1. \A p \in Pages : wall[p].images \subseteq Entry
  BY DEF GalleryTyped
<1>2. \A s \in Saves : save[s].list \cup save[s].new \subseteq Entry
  BY DEF GalleryTyped, SaveState
<1>3. UNION {wall[p].images : p \in Pages} \subseteq Entry
  BY <1>1
<1>4. UNION {save[s].list \cup save[s].new : s \in Saves} \subseteq Entry
  BY <1>2
<1>5. rows \subseteq Entry
  BY DEF GalleryTyped
<1> QED
  BY <1>3, <1>4, <1>5 DEF Held

\* An update keeps what it is about; one that begins is about an entry there is.
UpdatesKept ==
    \A u \in Updates :
       /\ upd[u].at # "unused" => upd'[u].at # "unused"
       /\ \/ /\ upd'[u].id = upd[u].id /\ upd'[u].pic = upd[u].pic
             /\ upd'[u].was = upd[u].was
          \/ /\ upd[u].at = "unused"
             /\ \E g \in Held : /\ g.id = upd'[u].id /\ g.pic = upd'[u].pic
                                /\ g.text = upd'[u].was

\* An update that has begun is about the same picture for ever.
LEMMA WrittenStays ==
    ASSUME GalleryTyped, UpdatesKept, NEW u \in Updates, NEW pic, Written(u, pic)
    PROVE  Written(u, pic)'
BY DEF UpdatesKept, Written

\* The pages, the saves and the updates change, and every entry that there is
\* then has the id and the picture of one there was, or is a picture
\* that was just uploaded.
LEMMA Derived ==
    ASSUME GalleryInv, GalleryTyped', nextId' = nextId,
           UpdatesKept,
           \A e \in Held' :
              /\ e.id = Local \/ \E g \in Held : g.id = e.id /\ g.pic = e.pic
              /\ e.text # NoCaption => Written(e.text, e.pic)'
    PROVE  OneId' /\ OwnText'
<1> USE DEF GalleryInv
<1>1. nextId \in Nat /\ Local < nextId
  BY DEF GalleryTyped, Local
<1>2. \A e \in Held' : e.id < nextId
  BY <1>1 DEF OneId
<1>3. \A e, g \in Held' : e.id = g.id /\ e.id # Local => e.pic = g.pic
  <2> SUFFICES ASSUME NEW e \in Held', NEW g \in Held', e.id = g.id, e.id # Local
               PROVE  e.pic = g.pic
    OBVIOUS
  <2>1. PICK d \in Held : d.id = e.id /\ d.pic = e.pic
    OBVIOUS
  <2>2. PICK h \in Held : h.id = g.id /\ h.pic = g.pic
    OBVIOUS
  <2> QED
    BY <2>1, <2>2 DEF OneId
<1>4. \A u \in Updates :
         /\ upd'[u].id < nextId
         /\ \A e \in Held' : e.id = upd'[u].id /\ e.id # Local => e.pic = upd'[u].pic
  <2> SUFFICES ASSUME NEW u \in Updates
               PROVE  /\ upd'[u].id < nextId
                      /\ \A e \in Held' :
                            e.id = upd'[u].id /\ e.id # Local => e.pic = upd'[u].pic
    OBVIOUS
  <2>1. /\ upd'[u].id < nextId
        /\ \A g \in Held : g.id = upd'[u].id /\ g.id # Local => g.pic = upd'[u].pic
    BY DEF OneId, UpdatesKept
  <2> QED
    BY <2>1
<1>5. \A u \in Updates : upd'[u].was # NoCaption => Written(upd[u].was, upd[u].pic)'
  <2> SUFFICES ASSUME NEW u \in Updates, upd'[u].was # NoCaption
               PROVE  Written(upd[u].was, upd[u].pic)'
    OBVIOUS
  <2>1. upd'[u].was \in Updates
    BY DEF GalleryTyped, UpdateState
  <2>2. Written(upd'[u].was, upd'[u].pic)
    BY DEF OwnText, UpdatesKept
  <2> QED
    BY <2>1, <2>2, WrittenStays DEF Written
<1> QED
  BY <1>2, <1>3, <1>4, <1>5 DEF OneId, OwnText

\* Nothing new is held, and no update begins.
LEMMA NothingNew ==
    ASSUME GalleryInv, GalleryTyped', nextId' = nextId,
           UpdatesKept,
           Held' \subseteq Held
    PROVE  OneId' /\ OwnText'
<1>1. \A e \in Held' : e.text # NoCaption => Written(e.text, e.pic)'
  <2> SUFFICES ASSUME NEW e \in Held', e.text # NoCaption
               PROVE  Written(e.text, e.pic)'
    OBVIOUS
  <2>1. e \in Held /\ e.text \in Updates
    BY HeldEntries DEF GalleryInv, Entry
  <2>2. Written(e.text, e.pic)
    BY <2>1 DEF GalleryInv, OwnText
  <2> QED
    BY <2>1, <2>2, WrittenStays DEF GalleryInv
<1> QED
  BY <1>1, Derived
-----------------------------------------------------------------------------
(* Types                                                                       *)

\* What a page is made to show is typed and finite.
LEMMA ShowsTyped ==
    ASSUME GalleryTyped, Finite, NEW p, NEW images \in SUBSET Entry, IsFiniteSet(images),
           wall' = Shows(p, images)
    PROVE  /\ wall' \in [Pages -> [fetching : BOOLEAN, images : SUBSET Entry]]
           /\ \A q \in Pages : IsFiniteSet(wall'[q].images)
<1>1. wall' \in [Pages -> [fetching : BOOLEAN, images : SUBSET Entry]]
  BY DEF GalleryTyped, Shows
<1>2. \A q \in Pages : wall'[q].images = IF q = p THEN images ELSE wall[q].images
  BY DEF GalleryTyped, Shows
<1> QED
  BY <1>1, <1>2 DEF Finite

\* A save changes and its lists stay typed and finite.
LEMMA SaveTyped ==
    ASSUME GalleryTyped, Finite, Given, NEW s \in Saves, NEW rec \in SaveState,
           save' = [save EXCEPT ![s] = rec], IsFiniteSet(rec.list), IsFiniteSet(rec.new),
           \A e \in rec.new : e.id # Local
    PROVE  /\ save' \in [Saves -> SaveState]
           /\ \A t \in Saves : /\ IsFiniteSet(save'[t].list) /\ IsFiniteSet(save'[t].new)
                               /\ \A e \in save'[t].new : e.id # Local
<1>1. \A t \in Saves : save'[t] = IF t = s THEN rec ELSE save[t]
  BY DEF GalleryTyped
<1>2. save' \in [Saves -> SaveState]
  BY DEF GalleryTyped
<1> QED
  BY <1>1, <1>2 DEF Finite, Given

\* The same of a save of which only how far it is, or what it deletes, changes.
LEMMA SaveGoesOn ==
    ASSUME GalleryTyped, Finite, Given, save' \in [Saves -> SaveState],
           \A t \in Saves : save'[t].list = save[t].list /\ save'[t].new = save[t].new
    PROVE  \A t \in Saves : /\ IsFiniteSet(save'[t].list) /\ IsFiniteSet(save'[t].new)
                            /\ \A e \in save'[t].new : e.id # Local
BY DEF Finite, Given

\* A save that goes on in another step, told or not, deleting these rows or
\* others: its page and its lists are as they were.
GoesOn(s) ==
    \E txn \in Steps,
       told \in BOOLEAN, gone \in SUBSET Nat :
          save' = [save EXCEPT ![s].txn = txn, ![s].told = told, ![s].gone = gone]

\* What such a step leaves as it was.
LEMMA GoesOnKeeps ==
    ASSUME GalleryTyped, NEW s \in Saves, GoesOn(s)
    PROVE  /\ save' \in [Saves -> SaveState]
           /\ \A t \in Saves : save'[t].list = save[t].list /\ save'[t].new = save[t].new
<1>1. PICK txn \in Steps,
           told \in BOOLEAN, gone \in SUBSET Nat :
              save' = [save EXCEPT ![s].txn = txn, ![s].told = told, ![s].gone = gone]
  BY DEF GoesOn
<1>2. save[s] \in SaveState
  BY DEF GalleryTyped
<1>3. \A t \in Saves : save'[t] = IF t = s THEN [save[s] EXCEPT !.txn = txn, !.told = told,
                                                            !.gone = gone]
                               ELSE save[t]
  BY <1>1 DEF GalleryTyped
<1>4. [save[s] EXCEPT !.txn = txn, !.told = told, !.gone = gone] \in SaveState
  BY <1>2 DEF SaveState
<1>5. save' \in [Saves -> SaveState]
  <2>1. \A t \in Saves : save'[t] \in SaveState
    BY <1>3, <1>4 DEF GalleryTyped
  <2>2. save' = [t \in Saves |-> save'[t]]
    BY <1>1 DEF GalleryTyped
  <2> QED
    BY <2>1, <2>2
<1> QED
  BY <1>2, <1>3, <1>5 DEF SaveState

\* The actions that move a save on are such steps.
LEMMA MovesOn ==
    ASSUME GalleryTyped, NEW s \in Saves,
           \/ SaveFails(s) \/ DeleteAll(s) \/ Wakes(s) \/ Commit(s) \/ Rollback(s) \/ Saved(s)
    PROVE  GoesOn(s)
<1>1. save[s] \in SaveState
  BY DEF GalleryTyped
<1>2. ASSUME NEW txn, NEW told, NEW gone,
             save' = [save EXCEPT ![s].txn = txn, ![s].told = told, ![s].gone = gone],
             txn \in Steps,
             told \in BOOLEAN, gone \in SUBSET Nat
      PROVE  GoesOn(s)
  BY <1>2 DEF GoesOn
<1>3. IdsOf(rows) \in SUBSET Nat
  BY DEF GalleryTyped, IdsOf, Entry
<1>4. CASE DeleteAll(s)
  <2> DEFINE txn == IF Locked(s, IdsOf(rows)) THEN "waiting" ELSE "deleting"
  <2>1. save' = [save EXCEPT ![s].txn = txn, ![s].told = save[s].told, ![s].gone = IdsOf(rows)]
    BY <1>4 DEF DeleteAll, GalleryTyped, SaveState
  <2> QED
    BY <1>1, <1>2, <1>3, <2>1 DEF SaveState, Steps
<1>5. CASE SaveFails(s) \/ Saved(s)
  <2>1. save' = [save EXCEPT ![s].txn = save[s].txn, ![s].told = TRUE, ![s].gone = save[s].gone]
    BY <1>5 DEF SaveFails, Saved, GalleryTyped, SaveState
  <2> QED
    BY <1>1, <1>2, <2>1 DEF SaveState
<1>6. ASSUME NEW from, NEW to \in Steps, SaveGoes(s, from, to)
      PROVE  GoesOn(s)
  <2>1. save' = [save EXCEPT ![s].txn = to, ![s].told = save[s].told, ![s].gone = save[s].gone]
    BY <1>6 DEF SaveGoes, GalleryTyped, SaveState
  <2> QED
    BY <1>1, <1>2, <2>1 DEF SaveState
<1>7. CASE Wakes(s) \/ Commit(s)
  BY <1>6, <1>7 DEF Wakes, Commit, Steps
<1>8. CASE Rollback(s)
  <2>1. PICK step : SaveGoes(s, step, "failed")
    BY <1>8 DEF Rollback
  <2> QED
    BY <1>6, <2>1 DEF Steps
<1> QED
  BY <1>4, <1>5, <1>7, <1>8
-----------------------------------------------------------------------------
(* The pages                                                                   *)

\* The table, the pages and the saves hold nothing else.
LEMMA HeldParts ==
    /\ rows \subseteq Held
    /\ \A p \in Pages : wall[p].images \subseteq Held
    /\ \A s \in Saves : save[s].list \subseteq Held /\ save[s].new \subseteq Held
BY DEF Held

\* Where what is held next can be.
LEMMA HeldNext ==
    ASSUME NEW S, rows' \subseteq S, \A p \in Pages : wall'[p].images \subseteq S,
           \A s \in Saves : save'[s].list \subseteq S /\ save'[s].new \subseteq S
    PROVE  Held' \subseteq S
<1>1. UNION {wall'[p].images : p \in Pages} \subseteq S
  OBVIOUS
<1>2. UNION {save'[s].list \cup save'[s].new : s \in Saves} \subseteq S
  OBVIOUS
<1> QED
  BY <1>1, <1>2 DEF Held

\* Updates that are not touched are about what they were about.
LEMMA SameUpdates == ASSUME upd' = upd PROVE UpdatesKept
BY DEF UpdatesKept

\* fetchGalleryImages shows the rows, nothing or what was shown.
LEMMA FetchedStep ==
    ASSUME GalleryInv, NEW p \in Pages, GalleryFetched(p)
    PROVE  GalleryInv'
<1> USE DEF GalleryInv
<1>1. PICK images \in {rows, {}, wall[p].images} :
          wall' = [wall EXCEPT ![p].images = images, ![p].fetching = FALSE]
  BY DEF GalleryFetched
<1>2. images \in SUBSET Entry /\ IsFiniteSet(images) /\ images \subseteq Held
  BY FS_EmptySet, HeldParts DEF GalleryTyped, Finite
<1>3. \A q \in Pages : wall'[q].images = IF q = p THEN images ELSE wall[q].images
  BY <1>1 DEF GalleryTyped
<1>4. GalleryTyped'
  BY <1>1, <1>2 DEF GalleryTyped, GalleryFetched
<1>5. Finite' /\ Given'
  BY <1>2, <1>3 DEF Finite, Given, GalleryFetched
<1>6. Held' \subseteq Held
  <2>1. \A q \in Pages : wall'[q].images \subseteq Held
    BY <1>2, <1>3, HeldParts
  <2> QED
    BY <2>1, HeldParts, HeldNext DEF GalleryFetched
<1> QED
  BY <1>4, <1>5, <1>6, SameUpdates, NothingNew DEF GalleryFetched

\* A list is sent that has the entries there are, and a new one.
LEMMA SaveStep ==
    ASSUME GalleryInv, NEW p \in Pages, NEW s \in Saves, NEW list \in SUBSET Entry,
           IsFiniteSet(list), Save(p, s, list),
           \A e \in list : e \in Held \/ (e.id = Local /\ e.text = NoCaption)
    PROVE  GalleryInv'
<1> USE DEF GalleryInv
<1> DEFINE rec == [NoSave EXCEPT !.txn = "sent", !.page = p, !.list = list]
           S == Held \cup {e \in Entry : e.id = Local /\ e.text = NoCaption}
<1>1. /\ rec \in SaveState /\ rec.list = list /\ rec.new = {}
  BY DEF NoSave, SaveState, Steps
<1>2. /\ save' \in [Saves -> SaveState]
      /\ \A t \in Saves : /\ IsFiniteSet(save'[t].list) /\ IsFiniteSet(save'[t].new)
                          /\ \A e \in save'[t].new : e.id # Local
  <2>1. save' = [save EXCEPT ![s] = rec]
    BY DEF Save
  <2>2. IsFiniteSet(rec.list) /\ IsFiniteSet(rec.new) /\ \A e \in rec.new : e.id # Local
    BY <1>1, FS_EmptySet
  <2>3. GalleryTyped /\ Finite /\ Given
    OBVIOUS
  <2> HIDE DEF rec, GalleryInv
  <2> QED
    BY <1>1, <2>1, <2>2, <2>3, SaveTyped
<1>3. \A t \in Saves : save'[t] = IF t = s THEN rec ELSE save[t]
  BY DEF Save, GalleryTyped
<1>4. /\ wall' \in [Pages -> [fetching : BOOLEAN, images : SUBSET Entry]]
      /\ \A q \in Pages : IsFiniteSet(wall'[q].images)
  BY ShowsTyped DEF Save, GalleryTyped, Finite
<1>5. \A q \in Pages : wall'[q].images \subseteq wall[q].images \cup list
  BY DEF Save, Shows, GalleryTyped
<1>6. GalleryTyped' /\ Finite' /\ Given'
  BY <1>2, <1>4 DEF GalleryTyped, Finite, Given, Save
<1>7. Held' \subseteq S
  <2>1. list \subseteq S
    OBVIOUS
  <2>2. \A q \in Pages : wall'[q].images \subseteq S
    BY <1>5, <2>1, HeldParts
  <2>3. \A t \in Saves : save'[t].list \subseteq S /\ save'[t].new \subseteq S
    BY <1>1, <1>3, <2>1, HeldParts
  <2>4. rows' \subseteq S
    BY HeldParts DEF Save
  <2> HIDE DEF S
  <2> QED
    BY <2>2, <2>3, <2>4, HeldNext
<1>8. \A e \in Held' : e.text # NoCaption => Written(e.text, e.pic)'
  BY <1>7 DEF OwnText, Written, Save
<1> QED
  BY <1>6, <1>7, <1>8, SameUpdates, Derived DEF Save

\* An upload sends what the page shows and a new picture.
LEMMA UploadStep ==
    ASSUME GalleryInv, NEW p \in Pages, NEW s \in Saves, NEW pic \in New, Upload(p, s, pic)
    PROVE  GalleryInv'
<1> DEFINE entry == [id |-> Local, pic |-> pic, text |-> NoCaption]
<1>1. wall[p].images \in SUBSET Entry /\ IsFiniteSet(wall[p].images)
  BY DEF GalleryInv, GalleryTyped, Finite
<1>2. entry \in Entry
  BY DEF Entry, Pictures, Local
<1>3. wall[p].images \cup {entry} \in SUBSET Entry
  BY <1>1, <1>2
<1>4. IsFiniteSet(wall[p].images \cup {entry})
  BY <1>1, FS_AddElement
<1> QED
  BY <1>3, <1>4, HeldParts, SaveStep DEF Upload

\* A deletion sends what the page shows but one.
LEMMA DeleteStep ==
    ASSUME GalleryInv, NEW p \in Pages, NEW s \in Saves, NEW e, deleteImage(p, s, e)
    PROVE  GalleryInv'
<1>1. wall[p].images \in SUBSET Entry /\ IsFiniteSet(wall[p].images)
  BY DEF GalleryInv, GalleryTyped, Finite
<1>2. wall[p].images \ {e} \in SUBSET Entry /\ IsFiniteSet(wall[p].images \ {e})
  BY <1>1, FS_RemoveElement
<1> QED
  BY <1>2, HeldParts, SaveStep DEF deleteImage

-----------------------------------------------------------------------------
(* The transactions                                                            *)

\* A save moves on, a page may show its list, and the rows may become older
\* ones and those it has inserted.
LEMMA GoesOnStep ==
    ASSUME GalleryInv, NEW s \in Saves, GoesOn(s), UNCHANGED <<upd, nextId>>,
           wall' = wall \/ \E p : wall' = Shows(p, save[s].list),
           rows' \subseteq rows \cup save[s].new
    PROVE  GalleryInv'
<1> USE DEF GalleryInv
<1>1. /\ save' \in [Saves -> SaveState]
      /\ \A t \in Saves : save'[t].list = save[t].list /\ save'[t].new = save[t].new
  BY GoesOnKeeps
<1>2. \A t \in Saves : /\ IsFiniteSet(save'[t].list) /\ IsFiniteSet(save'[t].new)
                       /\ \A e \in save'[t].new : e.id # Local
  BY <1>1, SaveGoesOn
<1>3. save[s].list \in SUBSET Entry /\ save[s].new \in SUBSET Entry
  BY DEF GalleryTyped, SaveState
<1>4. /\ wall' \in [Pages -> [fetching : BOOLEAN, images : SUBSET Entry]]
      /\ \A q \in Pages : IsFiniteSet(wall'[q].images)
  BY <1>3, ShowsTyped DEF GalleryTyped, Finite
<1>5. \A q \in Pages : wall'[q].images \subseteq wall[q].images \cup save[s].list
  BY DEF Shows, GalleryTyped
<1>6. rows' \in SUBSET Entry /\ IsFiniteSet(rows') /\ \A e \in rows' : e.id # Local
  <2>1. IsFiniteSet(rows \cup save[s].new)
    BY FS_Union DEF Finite
  <2>2. IsFiniteSet(rows')
    BY <2>1, FS_Subset
  <2> QED
    BY <1>3, <2>2 DEF GalleryTyped, Given
<1>7. GalleryTyped' /\ Finite' /\ Given'
  BY <1>1, <1>2, <1>4, <1>6 DEF GalleryTyped, Finite, Given
<1>8. Held' \subseteq Held
  <2>1. \A q \in Pages : wall'[q].images \subseteq Held
    BY <1>5, HeldParts
  <2>2. rows' \subseteq Held
    BY HeldParts
  <2> QED
    BY <1>1, <2>1, <2>2, HeldParts, HeldNext
<1> QED
  BY <1>7, <1>8, SameUpdates, NothingNew

\* Every step of a save but the insertion.
LEMMA SavesStep ==
    ASSUME GalleryInv, NEW s \in Saves,
           \/ SaveFails(s) \/ DeleteAll(s) \/ Wakes(s) \/ Commit(s) \/ Rollback(s) \/ Saved(s)
    PROVE  GalleryInv'
<1>1. GoesOn(s)
  BY MovesOn DEF GalleryInv
<1>2. UNCHANGED <<upd, nextId>>
  BY DEF SaveFails, DeleteAll, Wakes, Commit, Rollback, Saved
<1>3. wall' = wall \/ \E p : wall' = Shows(p, save[s].list)
  BY DEF SaveFails, DeleteAll, Wakes, Commit, Rollback, Saved
<1>4. rows' \subseteq rows \cup save[s].new
  BY DEF SaveFails, DeleteAll, Wakes, Commit, Rollback, Saved
<1> QED
  BY <1>1, <1>2, <1>3, <1>4, GoesOnStep

\* New rows have ids that nothing has had.
LEMMA InsertsStep ==
    ASSUME GalleryInv, NEW s \in Saves, Inserts(s)
    PROVE  GalleryInv'
<1> USE DEF GalleryInv
<1> DEFINE list == save[s].list
<1>1. PICK new \in Numbered(list, nextId) :
          save' = [save EXCEPT ![s].txn = "written", ![s].new = new]
  BY DEF Inserts
<1>2. list \in SUBSET Entry /\ IsFiniteSet(list) /\ nextId \in Nat \ {Local}
  BY DEF GalleryTyped, Finite, SaveState
<1>3. /\ new \in SUBSET Entry
      /\ IsFiniteSet(new)
      /\ \A e \in new : /\ e.id >= nextId /\ e.id < nextId + Cardinality(list)
                        /\ \E g \in list : g.pic = e.pic /\ g.text = e.text
      /\ \A e, g \in new : e.id = g.id => e = g
  BY <1>1, <1>2, NumberedList
<1>4. /\ Cardinality(list) \in Nat
      /\ nextId' = nextId + Cardinality(list)
      /\ nextId' \in Nat \ {Local}
      /\ nextId' >= nextId
  BY <1>2, FS_CardinalityType DEF Inserts, Local
<1>5. \A e \in new : e.id # Local
  BY <1>2, <1>3 DEF Local, Entry
<1> DEFINE rec == [save[s] EXCEPT !.txn = "written", !.new = new]
<1>6. rec \in SaveState /\ rec.list = list /\ rec.new = new
  BY <1>3 DEF GalleryTyped, SaveState, Steps
<1>7. \A t \in Saves : save'[t] = IF t = s THEN rec ELSE save[t]
  BY <1>1 DEF GalleryTyped
<1>8. /\ save' \in [Saves -> SaveState]
      /\ \A t \in Saves : /\ IsFiniteSet(save'[t].list) /\ IsFiniteSet(save'[t].new)
                          /\ \A e \in save'[t].new : e.id # Local
  <2>1. save' = [save EXCEPT ![s] = rec]
    BY <1>1 DEF GalleryTyped
  <2>2. GalleryTyped /\ Finite /\ Given /\ IsFiniteSet(rec.list) /\ IsFiniteSet(rec.new)
        /\ \A e \in rec.new : e.id # Local
    BY <1>2, <1>3, <1>5, <1>6
  <2> HIDE DEF rec, GalleryInv
  <2> QED
    BY <1>6, <2>1, <2>2, SaveTyped
<1>9. GalleryTyped' /\ Finite' /\ Given'
  BY <1>4, <1>8 DEF GalleryTyped, Finite, Given, Inserts
<1>10. Held' \subseteq Held \cup new
  <2>1. \A t \in Saves : save'[t].list \subseteq Held \cup new /\ save'[t].new \subseteq Held \cup new
    BY <1>6, <1>7, HeldParts
  <2> QED
    BY <2>1, HeldParts, HeldNext DEF Inserts
<1>11. Held \subseteq Entry /\ new \subseteq Entry
  BY <1>3, HeldEntries
<1>12. \A e \in Held : e.id < nextId /\ ~\E g \in new : g.id = e.id
  BY <1>2, <1>3, <1>11 DEF OneId, Entry
<1>13. \A u \in Updates : upd[u].id < nextId /\ ~\E g \in new : g.id = upd[u].id
  BY <1>2, <1>3, <1>11 DEF OneId, Entry, GalleryTyped, UpdateState
<1>14. OneId'
  <2>1. \A e \in Held' : e.id < nextId'
    BY <1>2, <1>3, <1>4, <1>10, <1>11, <1>12 DEF Entry
  <2>2. \A e, g \in Held' : e.id = g.id /\ e.id # Local => e.pic = g.pic
    BY <1>3, <1>10, <1>12 DEF OneId
  <2>3. \A u \in Updates : upd[u].id < nextId'
    BY <1>2, <1>4, <1>13 DEF GalleryTyped, UpdateState
  <2>4. \A u \in Updates : \A e \in Held' : e.id = upd[u].id /\ e.id # Local => e.pic = upd[u].pic
    BY <1>10, <1>13 DEF OneId
  <2> QED
    BY <2>1, <2>2, <2>3, <2>4 DEF OneId, Inserts
<1>15. OwnText'
  <2>1. \A e \in new : e.text # NoCaption => Written(e.text, e.pic)
    BY <1>3, HeldParts DEF OwnText
  <2> QED
    BY <1>10, <2>1 DEF OwnText, Written, Inserts
<1> QED
  BY <1>9, <1>14, <1>15

-----------------------------------------------------------------------------
(* The updates                                                                 *)

\* An update moves on, and captions may be written: on pictures they were
\* written for.
LEMMA CaptionStep ==
    ASSUME GalleryInv, UNCHANGED <<save, nextId>>, UpdatesKept, upd' \in [Updates -> UpdateState],
           \A u \in Updates : upd'[u].at \in {"found", "stored"} => upd'[u].id # Local,
           NEW list \in SUBSET Held, IsFiniteSet(list), NEW chosen,
           NEW text \in Updates \cup {NoCaption},
           \A e \in list \cap chosen : text # NoCaption => Written(text, e.pic)',
           NEW p,
           wall' = wall \/ wall' = Shows(p, Captioned(list, chosen, text)),
           rows' = rows \/ (rows' = Captioned(list, chosen, text) /\ list = rows)
    PROVE  GalleryInv'
<1> USE DEF GalleryInv
<1> DEFINE new == Captioned(list, chosen, text)
           Root(e) == e \in Held \/ (e.text = text /\ \E g \in list \cap chosen :
                                                      g.id = e.id /\ g.pic = e.pic)
           S == {e \in Entry : Root(e)}
<1>1. list \in SUBSET Entry /\ Held \subseteq Entry
  BY HeldEntries
<1>2. /\ new \in SUBSET Entry /\ IsFiniteSet(new)
      /\ \A e \in new : e \in list \/ (e.text = text /\ \E g \in list \cap chosen :
                                                         g.id = e.id /\ g.pic = e.pic)
  BY <1>1, CaptionedList
<1>3. new \subseteq S /\ Held \subseteq S
  BY <1>1, <1>2
<1>4. /\ wall' \in [Pages -> [fetching : BOOLEAN, images : SUBSET Entry]]
      /\ \A q \in Pages : IsFiniteSet(wall'[q].images)
  <2>1. GalleryTyped /\ Finite
    OBVIOUS
  <2>2. CASE wall' = wall
    BY <2>1, <2>2 DEF GalleryTyped, Finite
  <2>3. CASE wall' = Shows(p, new)
    <3> HIDE DEF new, GalleryInv
    <3> QED
      BY <1>2, <2>1, <2>3, ShowsTyped
  <2> QED
    BY <2>2, <2>3
<1>5. \A q \in Pages : wall'[q].images \subseteq wall[q].images \cup new
  BY DEF Shows, GalleryTyped
<1>6. rows' \in SUBSET Entry /\ IsFiniteSet(rows') /\ rows' \subseteq S
  BY <1>2, <1>3, HeldParts DEF GalleryTyped, Finite
<1>7. \A e \in rows' : e.id # Local
  BY <1>2 DEF Given
<1>8. GalleryTyped' /\ Finite' /\ Given'
  BY <1>4, <1>6, <1>7 DEF GalleryTyped, Finite, Given
<1>9. Held' \subseteq S
  <2>1. \A q \in Pages : wall'[q].images \subseteq S
    BY <1>3, <1>5, HeldParts
  <2>2. \A s \in Saves : save'[s].list \subseteq S /\ save'[s].new \subseteq S
    BY <1>3, HeldParts
  <2> HIDE DEF S
  <2> QED
    BY <1>6, <2>1, <2>2, HeldNext
<1>10. \A e \in Held' : e.text # NoCaption => Written(e.text, e.pic)'
  <2> SUFFICES ASSUME NEW e \in Held', e.text # NoCaption
               PROVE  Written(e.text, e.pic)'
    OBVIOUS
  <2>1. CASE e \in Held
    <3>1. e.text \in Updates /\ Written(e.text, e.pic)
      BY <1>1, <2>1 DEF OwnText, Entry
    <3> QED
      BY <3>1, WrittenStays
  <2>2. CASE e.text = text /\ \E g \in list \cap chosen : g.id = e.id /\ g.pic = e.pic
    <3>1. PICK g \in list \cap chosen : g.pic = e.pic
      BY <2>2
    <3>2. Written(text, g.pic)'
      BY <2>2, <3>1
    <3> QED
      BY <2>2, <3>1, <3>2 DEF Written
  <2> QED
    BY <1>9, <2>1, <2>2
<1>11. \A e \in Held' : e.id = Local \/ \E g \in Held : g.id = e.id /\ g.pic = e.pic
  BY <1>9
<1> QED
  BY <1>8, <1>10, <1>11, Derived

\* An update that moves on is about what it was about.
LEMMA AtKeeps ==
    ASSUME GalleryTyped, NEW u \in Updates,
           NEW to \in {"sent", "found", "stored", "refused", "over"},
           upd' = [upd EXCEPT ![u].at = to]
    PROVE  /\ upd' \in [Updates -> UpdateState]
           /\ UpdatesKept
           /\ \A w \in Updates : /\ upd'[w].id = upd[w].id
                                 /\ upd'[w].at = IF w = u THEN to ELSE upd[w].at
           /\ \A pic : Written(u, pic) => Written(u, pic)'
<1>1. \A w \in Updates : upd'[w] = IF w = u THEN [upd[u] EXCEPT !.at = to] ELSE upd[w]
  BY DEF GalleryTyped
<1>2. upd[u] \in UpdateState /\ [upd[u] EXCEPT !.at = to] \in UpdateState
  BY DEF GalleryTyped, UpdateState
<1>3. upd' \in [Updates -> UpdateState]
  BY <1>2 DEF GalleryTyped
<1>4. \A w \in Updates : /\ upd'[w].id = upd[w].id /\ upd'[w].pic = upd[w].pic
                         /\ upd'[w].was = upd[w].was
                         /\ upd'[w].at = IF w = u THEN to ELSE upd[w].at
  BY <1>1, <1>2 DEF UpdateState
<1>5. UpdatesKept
  BY <1>4 DEF UpdatesKept
<1> QED
  BY <1>3, <1>4, <1>5 DEF Written

\* An update that moves on and writes nothing.
LEMMA NothingWritten ==
    ASSUME GalleryInv, NEW u \in Updates, NEW to \in {"sent", "found", "stored", "refused", "over"},
           upd' = [upd EXCEPT ![u].at = to], to \in {"found", "stored"} => upd[u].id # Local,
           UNCHANGED <<wall, save, rows, nextId>>
    PROVE  GalleryInv'
<1>1. \A w \in Updates : upd'[w].at \in {"found", "stored"} => upd'[w].id # Local
  BY AtKeeps DEF GalleryInv, Given
<1>2. upd' \in [Updates -> UpdateState] /\ UpdatesKept
  BY AtKeeps DEF GalleryInv
<1>3. {} \in SUBSET Held /\ IsFiniteSet({}) /\ NoCaption \in Updates \cup {NoCaption}
  BY FS_EmptySet
<1> QED
  BY <1>1, <1>2, <1>3, CaptionStep

\* An update that moves on and writes a caption on a page, or on its row.
LEMMA SomethingWritten ==
    ASSUME GalleryInv, NEW u \in Updates, NEW to \in {"sent", "found", "stored", "refused", "over"},
           upd' = [upd EXCEPT ![u].at = to], to \in {"found", "stored"} => upd[u].id # Local,
           UNCHANGED <<save, nextId>>,
           NEW list \in SUBSET Held, IsFiniteSet(list), NEW chosen,
           NEW text \in Updates \cup {NoCaption},
           \A e \in list \cap chosen : text # NoCaption => Written(text, e.pic),
           NEW p,
           wall' = wall \/ wall' = Shows(p, Captioned(list, chosen, text)),
           rows' = rows \/ (rows' = Captioned(list, chosen, text) /\ list = rows)
    PROVE  GalleryInv'
<1>1. \A w \in Updates : upd'[w].at \in {"found", "stored"} => upd'[w].id # Local
  BY AtKeeps DEF GalleryInv, Given
<1>2. upd' \in [Updates -> UpdateState] /\ UpdatesKept
  BY AtKeeps DEF GalleryInv
<1>3. \A e \in list \cap chosen : text # NoCaption => Written(text, e.pic)'
  BY <1>2, WrittenStays DEF GalleryInv
<1> QED
  BY <1>1, <1>2, <1>3, CaptionStep

\* updateImage: the caption is of the entry that was chosen.
LEMMA UpdateStep ==
    ASSUME GalleryInv, NEW p \in Pages, NEW u \in Updates, NEW e, updateImage(p, u, e)
    PROVE  GalleryInv'
<1> USE DEF GalleryInv
<1> DEFINE rec == [at |-> "sent", page |-> p, id |-> e.id, pic |-> e.pic, was |-> e.text]
<1>1. e \in wall[p].images /\ e \in Entry /\ e \in Held
  BY HeldParts, HeldEntries DEF updateImage
<1>2. rec \in UpdateState
  BY <1>1 DEF UpdateState, Entry
<1>3. \A w \in Updates : upd'[w] = IF w = u THEN rec ELSE upd[w]
  BY DEF updateImage, GalleryTyped
<1>4. upd' \in [Updates -> UpdateState]
  BY <1>2 DEF updateImage, GalleryTyped
<1>5. upd[u].at = "unused"
  BY DEF updateImage, NoUpdate
<1>6. UpdatesKept
  BY <1>1, <1>3, <1>5 DEF UpdatesKept
<1>7. \A w \in Updates : upd'[w].at \in {"found", "stored"} => upd'[w].id # Local
  BY <1>3 DEF Given
<1>8. Written(u, e.pic)'
  BY <1>3 DEF Written
<1>9. wall[p].images \in SUBSET Held /\ IsFiniteSet(wall[p].images)
  BY HeldParts DEF Finite
<1>10. wall' = wall \/ wall' = Shows(p, Captioned(wall[p].images, {e}, u))
  BY DEF updateImage
<1>11. \A g \in wall[p].images \cap {e} : u # NoCaption => Written(u, g.pic)'
  BY <1>8
<1>12. UNCHANGED <<save, rows, nextId>>
  BY DEF updateImage
<1> HIDE DEF GalleryInv
<1> QED
  BY <1>4, <1>6, <1>7, <1>9, <1>10, <1>11, <1>12, CaptionStep

\* The React page writes by id when the answer comes: an id of the table is
\* still of the picture it was, if it is there at all.
LEMMA UpdatedStep ==
    ASSUME GalleryInv, NEW u \in Updates, Updated(u)
    PROVE  GalleryInv'
<1> DEFINE p == upd[u].page
           images == wall[p].images
           chosen == OfId(images, upd[u].id)
<1>1. /\ upd[u].at = "stored" /\ upd' = [upd EXCEPT ![u].at = "over"]
      /\ UNCHANGED <<save, rows, nextId>>
      /\ wall' = wall \/ wall' = Shows(p, Captioned(images, chosen, u))
  BY DEF Updated
<1>2. upd[u].id # Local
  BY <1>1 DEF GalleryInv, Given
<1>3. CASE p \in Pages
  <2>1. images \in SUBSET Held /\ IsFiniteSet(images)
    BY <1>3, HeldParts DEF GalleryInv, Finite
  <2>2. \A e \in images \cap chosen : u # NoCaption => Written(u, e.pic)
    BY <1>1, <1>2, <2>1 DEF GalleryInv, OneId, Written, OfId
  <2> HIDE DEF images, chosen, p
  <2> QED
    BY <1>1, <2>1, <2>2, SomethingWritten
<1>4. CASE p \notin Pages
  <2>1. wall' = wall
    BY <1>1, <1>4 DEF Shows, GalleryInv, GalleryTyped
  <2> QED
    BY <1>1, <2>1, NothingWritten
<1> QED
  BY <1>3, <1>4

\* The Vue page puts back what the picture's record had.
LEMMA UpdateFailsStep ==
    ASSUME GalleryInv, NEW u \in Updates, UpdateFails(u)
    PROVE  GalleryInv'
<1> DEFINE p == upd[u].page
           images == wall[p].images
           chosen == {e \in images : e.id = upd[u].id /\ e.pic = upd[u].pic}
           was == upd[u].was
<1>1. /\ upd' = [upd EXCEPT ![u].at = "over"]
      /\ UNCHANGED <<save, rows, nextId>>
      /\ wall' = wall \/ wall' = Shows(p, Captioned(images, chosen, was))
  BY DEF UpdateFails
<1>2. CASE p \in Pages
  <2>1. images \in SUBSET Held /\ IsFiniteSet(images)
    BY <1>2, HeldParts DEF GalleryInv, Finite
  <2>2. was \in Updates \cup {NoCaption}
    BY DEF GalleryInv, GalleryTyped, UpdateState
  <2>3. \A e \in images \cap chosen : was # NoCaption => Written(was, e.pic)
    BY DEF GalleryInv, OwnText
  <2> HIDE DEF images, chosen, was, p
  <2> QED
    BY <1>1, <2>1, <2>2, <2>3, SomethingWritten
<1>3. CASE p \notin Pages
  <2>1. wall' = wall
    BY <1>1, <1>3 DEF Shows, GalleryInv, GalleryTyped
  <2> QED
    BY <1>1, <2>1, NothingWritten
<1> QED
  BY <1>2, <1>3

\* update_image looks for its row, or the request fails.
LEMMA FindStep ==
    ASSUME GalleryInv, NEW u \in Updates, Find(u) \/ UpdateRefused(u)
    PROVE  GalleryInv'
<1>1. CASE Find(u) /\ upd[u].id \in IdsOf(rows)
  <2>1. upd[u].id # Local
    BY <1>1 DEF IdsOf, GalleryInv, Given
  <2>2. upd' = [upd EXCEPT ![u].at = "found"] /\ UNCHANGED <<wall, save, rows, nextId>>
    BY <1>1 DEF Find, At
  <2> QED
    BY <2>1, <2>2, NothingWritten
<1>2. CASE (Find(u) /\ upd[u].id \notin IdsOf(rows)) \/ UpdateRefused(u)
  <2>1. upd' = [upd EXCEPT ![u].at = "refused"] /\ UNCHANGED <<wall, save, rows, nextId>>
    BY <1>2 DEF Find, UpdateRefused, At
  <2> QED
    BY <2>1, NothingWritten
<1> QED
  BY <1>1, <1>2

\* update_image writes by id, after the row may have been replaced.
LEMMA WriteStep ==
    ASSUME GalleryInv, NEW u \in Updates, WriteCaption(u)
    PROVE  GalleryInv'
<1> DEFINE chosen == OfId(rows, upd[u].id)
<1>1. upd[u].at = "found" /\ upd[u].id # Local /\ UNCHANGED <<wall, save, nextId>>
  BY DEF WriteCaption, At, GalleryInv, Given
<1>2. CASE upd' = [upd EXCEPT ![u].at = "stored"] /\ rows' = Captioned(rows, chosen, u)
  <2>1. rows \in SUBSET Held /\ IsFiniteSet(rows)
    BY HeldParts DEF GalleryInv, Finite
  <2>2. \A e \in rows \cap chosen : u # NoCaption => Written(u, e.pic)
    BY <1>1, <2>1 DEF GalleryInv, OneId, Written, OfId
  <2> HIDE DEF chosen
  <2> QED
    BY <1>1, <1>2, <2>1, <2>2, SomethingWritten
<1>3. CASE upd' = [upd EXCEPT ![u].at = "refused"] /\ rows' = rows
  BY <1>1, <1>3, NothingWritten
<1> QED
  BY <1>2, <1>3 DEF WriteCaption, At

-----------------------------------------------------------------------------
(* The theorem                                                                 *)

\* The first rows are numbered, and nothing is under way.
LEMMA InitInv ==
    ASSUME OldGiven, GalleryInit
    PROVE  GalleryInv
<1> DEFINE list == [id : {Local}, pic : Old, text : {NoCaption}]
           f == [o \in Old |-> [id |-> Local, pic |-> o, text |-> NoCaption]]
<1>1. f \in Surjection(Old, list)
  <2>1. f \in [Old -> list]
    OBVIOUS
  <2>2. \A e \in list : e.pic \in Old /\ f[e.pic] = e
    OBVIOUS
  <2> HIDE DEF f, list
  <2> QED
    BY <2>1, <2>2 DEF Surjection
<1>2. IsFiniteSet(list) /\ Cardinality(list) <= Cardinality(Old)
  <2> HIDE DEF f, list
  <2> QED
    BY <1>1, FS_Surjection DEF OldGiven
<1>3. /\ Cardinality(list) \in Nat /\ Cardinality(Old) \in Nat
      /\ nextId = Cardinality(Old) + 1
  BY <1>2, FS_CardinalityType DEF OldGiven, GalleryInit
<1>4. list \in SUBSET Entry /\ 1 \in Nat \ {Local} /\ rows \in Numbered(list, 1)
  BY DEF Entry, Pictures, Local, GalleryInit
<1>5. /\ rows \in SUBSET Entry /\ IsFiniteSet(rows)
      /\ \A e \in rows : /\ e.id >= 1 /\ e.id < 1 + Cardinality(list)
                         /\ \E g \in list : g.pic = e.pic /\ g.text = e.text
      /\ \A e, g \in rows : e.id = g.id => e = g
  <2> HIDE DEF list
  <2> QED
    BY <1>2, <1>4, NumberedList
<1>6. \A e \in rows : e.id \in Nat /\ e.id < nextId /\ e.id # Local /\ e.text = NoCaption
  <2> SUFFICES ASSUME NEW e \in rows
               PROVE  e.id \in Nat /\ e.id < nextId /\ e.id # Local /\ e.text = NoCaption
    OBVIOUS
  <2>1. e.id \in Nat
    BY <1>5 DEF Entry
  <2>2. PICK g \in list : g.text = e.text
    BY <1>5
  <2>3. e.id >= 1 /\ e.id < 1 + Cardinality(list)
    BY <1>5
  <2>4. e.text = NoCaption
    BY <2>2
  <2> HIDE DEF list
  <2> QED
    BY <1>2, <1>3, <2>1, <2>3, <2>4 DEF Local
<1>7. /\ \A p \in Pages : wall[p].images = {}
      /\ \A s \in Saves : save[s].list = {} /\ save[s].new = {}
      /\ \A u \in Updates : upd[u].id = Local /\ upd[u].at = "unused" /\ upd[u].was = NoCaption
  BY DEF GalleryInit, NoSave, NoUpdate
<1>8. Held = rows
  BY <1>7 DEF Held
<1>9. nextId \in Nat \ {Local} /\ Local < nextId
  BY <1>3 DEF Local
<1>10. GalleryTyped
  <2>1. NoSave \in SaveState /\ NoUpdate \in UpdateState
    BY DEF NoSave, NoUpdate, SaveState, UpdateState, Steps, Local
  <2> QED
    BY <1>5, <1>9, <2>1 DEF GalleryTyped, GalleryInit
<1>11. Finite
  BY <1>5, <1>7, FS_EmptySet DEF Finite
<1>12. OneId
  <2>1. \A e, g \in Held : e.id = g.id /\ e.id # Local => e.pic = g.pic
    BY <1>5, <1>8
  <2>2. \A u \in Updates : /\ upd[u].id < nextId
                           /\ \A e \in Held : e.id = upd[u].id /\ e.id # Local => e.pic = upd[u].pic
    BY <1>7, <1>9
  <2> QED
    BY <1>6, <1>8, <2>1, <2>2 DEF OneId
<1>13. Given /\ OwnText
  BY <1>6, <1>7, <1>8 DEF Given, OwnText
<1> QED
  BY <1>10, <1>11, <1>12, <1>13 DEF GalleryInv

\* Every action keeps the invariant.
LEMMA NextInv ==
    ASSUME GalleryInv, [GalleryNext]_galleryVars
    PROVE  GalleryInv'
<1>1. ASSUME NEW p \in Pages, GalleryFetched(p) PROVE GalleryInv'
  BY <1>1, FetchedStep
<1>2. ASSUME NEW p \in Pages, NEW s \in Saves, NEW pic \in New, Upload(p, s, pic) PROVE GalleryInv'
  BY <1>2, UploadStep
<1>3. ASSUME NEW p \in Pages, NEW s \in Saves, NEW e, deleteImage(p, s, e) PROVE GalleryInv'
  BY <1>3, DeleteStep
<1>4. ASSUME NEW p \in Pages, NEW u \in Updates, NEW e, updateImage(p, u, e) PROVE GalleryInv'
  BY <1>4, UpdateStep
<1>5. ASSUME NEW s \in Saves,
             \/ SaveFails(s) \/ DeleteAll(s) \/ Wakes(s) \/ Commit(s) \/ Rollback(s) \/ Saved(s)
      PROVE  GalleryInv'
  BY <1>5, SavesStep
<1>6. ASSUME NEW s \in Saves, Inserts(s) PROVE GalleryInv'
  BY <1>6, InsertsStep
<1>7. ASSUME NEW u \in Updates, Updated(u) PROVE GalleryInv'
  BY <1>7, UpdatedStep
<1>8. ASSUME NEW u \in Updates, UpdateFails(u) PROVE GalleryInv'
  BY <1>8, UpdateFailsStep
<1>9. ASSUME NEW u \in Updates, Find(u) \/ UpdateRefused(u) PROVE GalleryInv'
  BY <1>9, FindStep
<1>10. ASSUME NEW u \in Updates, WriteCaption(u) PROVE GalleryInv'
  BY <1>10, WriteStep
<1>11. CASE UNCHANGED galleryVars
  BY <1>11 DEF galleryVars, GalleryInv, GalleryTyped, Finite, OneId, Given, OwnText, Held, Written
<1> QED
  BY <1>1, <1>2, <1>3, <1>4, <1>5, <1>6, <1>7, <1>8, <1>9, <1>10, <1>11 DEF GalleryNext

\* Gallery: with any number of pages of both applications, saves that overlap,
\* fail or are answered before they commit, and updates by ids that saves have
\* made stale, a caption is only ever on the picture it was written for, in the
\* table and on every page.
THEOREM OwnCaptions == GallerySpec => []OwnCaption
<1>1. GalleryInit => GalleryInv
  BY GalleryAssumption, InitInv
<1>2. GalleryInv /\ [GalleryNext]_galleryVars => GalleryInv'
  BY NextInv
<1>3. GalleryInv => OwnCaption
  <2> SUFFICES ASSUME GalleryInv,
                      NEW e \in rows \cup UNION {wall[p].images : p \in Pages},
                      e.text # NoCaption
               PROVE  upd[e.text].pic = e.pic
    BY DEF OwnCaption
  <2>1. e \in Held
    BY DEF Held
  <2> QED
    BY <2>1 DEF GalleryInv, OwnText, Written
<1> QED
  BY <1>1, <1>2, <1>3, PTL DEF GallerySpec

-----------------------------------------------------------------------------
(* What saves leave stored                                                     *)

Inserted == {"written", "committed"}

\* What a save has inserted are the pictures of its list.
InsertedFits ==
    \A s \in Saves : save[s].txn \in Inserted => Pics(save[s].list) \subseteq Pics(save[s].new)

\* A picture that was stored once, and that no save leaves out.
WasStored(pic) ==
    pic \in Old \/ \E s \in Saves : save[s].txn = "committed" /\ pic \in Pics(save[s].list)

NoneDrops(pic) == \A s \in Saves : save[s] # NoSave => pic \in Pics(save[s].list)

\* A list that is numbered keeps its pictures,
LEMMA NumberedPics ==
    ASSUME NEW list, NEW n, NEW new \in Numbered(list, n) PROVE Pics(list) \subseteq Pics(new)
<1>1. PICK f : new = {[id |-> f[e], pic |-> e.pic, text |-> e.text] : e \in list}
  BY DEF Numbered
<1>2. ASSUME NEW e \in list PROVE e.pic \in Pics(new)
  <2>1. [id |-> f[e], pic |-> e.pic, text |-> e.text] \in new
    BY <1>1
  <2> QED
    BY <2>1 DEF Pics
<1> QED
  BY <1>2 DEF Pics

\* and so does one with other captions.
LEMMA CaptionedPics ==
    ASSUME NEW list \in SUBSET Entry, NEW chosen, NEW text
    PROVE  Pics(list) \subseteq Pics(Captioned(list, chosen, text))
<1>1. ASSUME NEW e \in list PROVE e.pic \in Pics(Captioned(list, chosen, text))
  <2>1. [e EXCEPT !.text = text].pic = e.pic
    BY DEF Entry
  <2> QED
    BY <2>1 DEF Captioned, Pics
<1> QED
  BY <1>1 DEF Pics

\* How far a save may go in a step: it keeps its list, is committed by Commit
\* alone and inserts its list by Inserts.
SaveGoesFar(s) ==
    /\ save[s] # NoSave => save'[s] # NoSave /\ save'[s].list = save[s].list
    /\ save'[s].txn = "committed" => save[s].txn = "committed" \/ Commit(s)
    /\ save'[s].txn \in Inserted =>
          \/ save[s].txn \in Inserted /\ save'[s].new = save[s].new /\ save'[s].list = save[s].list
          \/ Inserts(s)

LEMMA SavesGoFar ==
    ASSUME GalleryTyped, [GalleryNext]_galleryVars, NEW s \in Saves PROVE SaveGoesFar(s)
<1> USE DEF SaveGoesFar, Inserted
<1>1. CASE save'[s] = save[s]
  BY <1>1
<1>2. save[s] \in SaveState /\ NoSave.txn = "unused" /\ ~NoSave.told
  BY DEF GalleryTyped, NoSave
<1>3. ASSUME NEW t \in Saves, NEW rec, save' = [save EXCEPT ![t] = rec], t # s
      PROVE  save'[s] = save[s]
  BY <1>3 DEF GalleryTyped
<1>4. ASSUME NEW from, NEW to, SaveGoes(s, from, to)
      PROVE  /\ save[s].txn = from /\ save'[s].txn = to
             /\ save'[s].list = save[s].list /\ save'[s].new = save[s].new
             /\ to # "unused" => save'[s] # NoSave
  BY <1>2, <1>4 DEF SaveGoes, GalleryTyped, SaveState
<1>5. ASSUME NEW p, NEW list, Save(p, s, list) PROVE SaveGoesFar(s)
  BY <1>5 DEF Save, GalleryTyped, NoSave
<1>6. CASE Saved(s) \/ SaveFails(s)
  BY <1>2, <1>6 DEF Saved, SaveFails, GalleryTyped, SaveState
<1>7. CASE DeleteAll(s)
  BY <1>2, <1>7 DEF DeleteAll, GalleryTyped, SaveState
<1>8. CASE Wakes(s) \/ Rollback(s)
  <2>1. PICK from : SaveGoes(s, from, "deleting") \/ SaveGoes(s, from, "failed")
    BY <1>8 DEF Wakes, Rollback
  <2> QED
    BY <1>4, <2>1
<1>9. CASE Commit(s)
  <2>1. SaveGoes(s, "written", "committed")
    BY <1>9 DEF Commit
  <2> QED
    BY <1>4, <1>9, <2>1
<1>10. CASE Inserts(s)
  <2>1. PICK new : save' = [save EXCEPT ![s].txn = "written", ![s].new = new]
    BY <1>10 DEF Inserts
  <2>2. save'[s].list = save[s].list /\ save'[s].txn = "written"
    BY <1>2, <2>1 DEF GalleryTyped, SaveState
  <2> QED
    BY <1>2, <1>10, <2>2
<1>11. ASSUME save'[s] # save[s]
       PROVE  \/ \E p, list : Save(p, s, list)
              \/ Saved(s) \/ SaveFails(s) \/ DeleteAll(s) \/ Wakes(s) \/ Rollback(s)
              \/ Commit(s) \/ Inserts(s)
  <2>1. ASSUME NEW p, NEW t \in Saves, NEW list, Save(p, t, list) PROVE t = s
    BY <1>11, <2>1 DEF Save, GalleryTyped
  <2>2. ASSUME NEW t \in Saves,
               \/ Saved(t) \/ SaveFails(t) \/ DeleteAll(t) \/ Wakes(t) \/ Rollback(t)
               \/ Commit(t) \/ Inserts(t)
        PROVE  t = s
    BY <1>11, <2>2 DEF Saved, SaveFails, DeleteAll, Wakes, Rollback, Commit, Inserts, SaveGoes,
                      GalleryTyped
  <2>3. save' # save
    BY <1>11
  <2> QED
    BY <2>1, <2>2, <2>3
       DEF GalleryNext, galleryVars, GalleryFetched, updateImage, Updated, UpdateFails, Find,
           WriteCaption, UpdateRefused, Upload, deleteImage
<1> QED
  BY <1>1, <1>5, <1>6, <1>7, <1>8, <1>9, <1>10, <1>11

LEMMA NextInserted ==
    ASSUME GalleryTyped, InsertedFits, [GalleryNext]_galleryVars PROVE InsertedFits'
<1> SUFFICES ASSUME NEW s \in Saves, save'[s].txn \in Inserted
             PROVE  Pics(save'[s].list) \subseteq Pics(save'[s].new)
  BY DEF InsertedFits, Pics
<1>1. CASE Inserts(s)
  <2>1. PICK new \in Numbered(save[s].list, nextId) :
            save' = [save EXCEPT ![s].txn = "written", ![s].new = new]
    BY <1>1 DEF Inserts
  <2>2. save'[s].list = save[s].list /\ save'[s].new = new
    BY <2>1 DEF GalleryTyped, SaveState
  <2> QED
    BY <2>2, NumberedPics
<1>2. CASE ~Inserts(s)
  BY <1>2, SavesGoFar DEF SaveGoesFar, InsertedFits
<1> QED
  BY <1>1, <1>2

\* A commit puts the pictures of its list into the table, and nothing else
\* takes any out of it.
LEMMA NextStored ==
    ASSUME GalleryTyped, InsertedFits, KeptBySaves, [GalleryNext]_galleryVars PROVE KeptBySaves'
<1> SUFFICES ASSUME NEW pic \in Pictures, WasStored(pic)', NoneDrops(pic)'
             PROVE  pic \in Pics(rows')
  BY DEF KeptBySaves, WasStored, NoneDrops, Pics
<1>1. NoneDrops(pic)
  BY SavesGoFar DEF SaveGoesFar, NoneDrops
<1>2. ASSUME NEW s \in Saves, Commit(s) PROVE pic \in Pics(rows')
  <2>1. save[s].txn = "written" /\ save[s] # NoSave /\ save[s].new \subseteq rows'
    BY <1>2 DEF Commit, SaveGoes, NoSave
  <2>2. pic \in Pics(save[s].new)
    BY <1>1, <2>1 DEF NoneDrops, InsertedFits, Inserted
  <2> QED
    BY <2>1, <2>2 DEF Pics
<1>3. ASSUME \A s \in Saves : ~Commit(s) PROVE pic \in Pics(rows')
  <2>1. WasStored(pic)
    <3>1. ASSUME NEW s \in Saves, save'[s].txn = "committed"
          PROVE  save[s].txn = "committed" /\ save'[s].list = save[s].list
      BY <1>3, <3>1, SavesGoFar DEF SaveGoesFar, NoSave
    <3> QED
      BY <3>1 DEF WasStored
  <2>2. pic \in Pics(rows)
    BY <1>1, <2>1 DEF KeptBySaves, WasStored, NoneDrops
  <2>3. rows' = rows \/ \E u : rows' = Captioned(rows, OfId(rows, upd[u].id), u)
    BY <1>3 DEF GalleryNext, galleryVars, GalleryFetched, Save, Saved, SaveFails, DeleteAll, Wakes,
                Rollback, Inserts, updateImage, Updated, UpdateFails, Find, WriteCaption, UpdateRefused,
                Upload, deleteImage
  <2> QED
    BY <2>2, <2>3, CaptionedPics DEF GalleryTyped
<1> QED
  BY <1>2, <1>3

\* gallery_service.py, gallery_repo.py: the rows are deleted and inserted in one
\* transaction.  Whichever saves fail, overlap, wait for each other or are
\* answered before they commit, a picture that was stored and is in the list of
\* every save is stored.
THEOREM SavesKeep == GallerySpec => []KeptBySaves
<1>1. GalleryInit => GalleryInv /\ InsertedFits /\ KeptBySaves
  <2> SUFFICES ASSUME GalleryInit PROVE GalleryInv /\ InsertedFits /\ KeptBySaves
    OBVIOUS
  <2>1. \A s \in Saves : save[s].txn = "unused"
    BY DEF GalleryInit, NoSave
  <2>2. InsertedFits
    BY <2>1 DEF InsertedFits, Inserted
  <2>3. ASSUME NEW pic \in Old PROVE pic \in Pics(rows)
    <3> DEFINE list == [id : {Local}, pic : Old, text : {NoCaption}]
    <3>1. pic \in Pics(list)
      <4>1. [id |-> Local, pic |-> pic, text |-> NoCaption] \in list
        OBVIOUS
      <4> HIDE DEF list
      <4> QED
        BY <4>1 DEF Pics
    <3>2. rows \in Numbered(list, 1)
      BY DEF GalleryInit
    <3> HIDE DEF list
    <3> QED
      BY <3>1, <3>2, NumberedPics
  <2> QED
    BY <2>1, <2>2, <2>3, GalleryAssumption, InitInv DEF KeptBySaves
<1>2. GalleryInv /\ InsertedFits /\ KeptBySaves /\ [GalleryNext]_galleryVars
      => (GalleryInv /\ InsertedFits /\ KeptBySaves)'
  BY NextInv, NextInserted, NextStored DEF GalleryInv
<1> QED
  BY <1>1, <1>2, PTL DEF GallerySpec
=============================================================================
