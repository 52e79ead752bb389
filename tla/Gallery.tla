-------------------------------- MODULE Gallery --------------------------------
(***************************************************************************)
(* The picture wall: pages of administrators, of the Vue application       *)
(* (features/pic/composables/useGallery.ts) or the React one               *)
(* (PicGalleryView.tsx), and the rows the backend keeps.  An upload or a   *)
(* deletion sends the whole list, which replaces all rows in a transaction *)
(* (gallery_repo.py); an edited caption is a PATCH of one row, by its id.  *)
(* PostgreSQL runs at READ COMMITTED, and the session commits after the    *)
(* answer is sent.                                                         *)
(***************************************************************************)
EXTENDS Naturals, FiniteSets, Functions

CONSTANTS
    Pages,       \* pages of administrators
    AppOf,       \* the application each is of: "vue", "react"
    Old,         \* pictures stored at the beginning
    New,         \* pictures to be uploaded, each once
    Saves,       \* calls of saveGallery
    Updates      \* calls of updateImage; each writes a caption of its own

OldGiven == IsFiniteSet(Old)

ASSUME GalleryAssumption == OldGiven

VARIABLES
    wall,        \* the pages
    save,        \* the saves under way, and the transaction of each
    upd,         \* the updates under way
    rows,        \* the committed rows of gallery_image
    nextId       \* its sequence

galleryVars == <<wall, save, upd, rows, nextId>>

Local == 0           \* stands for the ids newPictureId makes up
NoCaption == "none"
Pictures == Old \cup New
Entry == [id : Nat, pic : Pictures, text : Updates \cup {NoCaption}]
IdsOf(entries) == {e.id : e \in entries}
Pics(entries) == {e.pic : e \in entries}

NoSave == [txn |-> "unused", told |-> FALSE, page |-> "none", list |-> {}, gone |-> {}, new |-> {}]
NoUpdate == [at |-> "unused", page |-> "none", id |-> Local, pic |-> "none", was |-> NoCaption]

GalleryTypeOK ==
    /\ \A p \in Pages :
          /\ wall[p].fetching \in BOOLEAN
          /\ wall[p].images \subseteq Entry
    /\ \A s \in Saves : save[s] = NoSave \/
          /\ save[s].txn \in {"sent", "waiting", "deleting", "written", "committed", "failed"}
          /\ save[s].told \in BOOLEAN /\ save[s].page \in Pages
          /\ save[s].list \subseteq Entry /\ save[s].gone \subseteq Nat
          /\ save[s].new \subseteq Entry
    /\ \A u \in Updates : upd[u] = NoUpdate \/
          /\ upd[u].at \in {"sent", "found", "stored", "refused", "over"}
          /\ upd[u].page \in Pages /\ upd[u].id \in Nat /\ upd[u].pic \in Pictures
          /\ upd[u].was \in Updates \cup {NoCaption}
    /\ rows \subseteq Entry
    /\ nextId \in Nat \ {Local}

\* Rows of the entries of a list, numbered from n on in some order.
Numbered(list, n) ==
    {{[id |-> f[e], pic |-> e.pic, text |-> e.text] : e \in list} :
        f \in Injection(list, n .. n + Cardinality(list) - 1)}

GalleryInit ==
    /\ wall = [p \in Pages |-> [fetching |-> TRUE, images |-> {}]]
    /\ save = [s \in Saves |-> NoSave]
    /\ upd = [u \in Updates |-> NoUpdate]
    /\ rows \in Numbered([id : {Local}, pic : Old, text : {NoCaption}], 1)
    /\ nextId = Cardinality(Old) + 1

-----------------------------------------------------------------------------
(* The page *)

Shows(p, images) == [wall EXCEPT ![p].images = images]

\* fetchGalleryImages: an error leaves the page as it is, a database error is
\* answered with an empty list.
GalleryFetched(p) ==
    /\ wall[p].fetching
    /\ \E images \in {rows, {}, wall[p].images} :
          wall' = [wall EXCEPT ![p].images = images, ![p].fetching = FALSE]
    /\ UNCHANGED <<save, upd, rows, nextId>>

\* saveGallery of a list.  The Vue page has changed already, the React page
\* waits for the answer.
Save(p, s, list) ==
    /\ save[s] = NoSave
    /\ save' = [save EXCEPT ![s] = [NoSave EXCEPT !.txn = "sent", !.page = p, !.list = list]]
    /\ wall' = IF AppOf[p] = "vue" THEN Shows(p, list) ELSE wall
    /\ UNCHANGED <<upd, rows, nextId>>

\* onImageUploaded, uploadImage
Upload(p, s, pic) ==
    /\ \A q \in Pages : pic \notin Pics(wall[q].images)
    /\ \A t \in Saves : pic \notin Pics(save[t].list)
    /\ Save(p, s, wall[p].images \cup {[id |-> Local, pic |-> pic, text |-> NoCaption]})

deleteImage(p, s, e) ==
    e \in wall[p].images /\ Save(p, s, wall[p].images \ {e})

\* A save is answered once its rows are written; the React page then shows the
\* list it has sent.
Saved(s) ==
    /\ save[s].txn \in {"written", "committed"} /\ ~save[s].told
    /\ save' = [save EXCEPT ![s].told = TRUE]
    /\ LET p == save[s].page IN
       wall' = IF AppOf[p] = "react" THEN Shows(p, save[s].list) ELSE wall
    /\ UNCHANGED <<upd, rows, nextId>>

\* An error is shown, or the answer never comes.
SaveFails(s) ==
    /\ save[s] # NoSave /\ ~save[s].told
    /\ save' = [save EXCEPT ![s].told = TRUE]
    /\ UNCHANGED <<wall, upd, rows, nextId>>

Captioned(entries, chosen, text) ==
    {IF e \in chosen THEN [e EXCEPT !.text = text] ELSE e : e \in entries}

OfId(entries, id) == {e \in entries : e.id = id}

\* updateImage: the Vue page writes the caption at once.
updateImage(p, u, e) ==
    /\ upd[u] = NoUpdate
    /\ e \in wall[p].images
    /\ upd' = [upd EXCEPT ![u] =
                  [at |-> "sent", page |-> p, id |-> e.id, pic |-> e.pic, was |-> e.text]]
    /\ wall' = IF AppOf[p] = "vue" THEN Shows(p, Captioned(wall[p].images, {e}, u)) ELSE wall
    /\ UNCHANGED <<save, rows, nextId>>

\* The React page writes it when the answer comes,
Updated(u) ==
    LET p == upd[u].page IN
    /\ upd[u].at = "stored"
    /\ upd' = [upd EXCEPT ![u].at = "over"]
    /\ wall' = IF AppOf[p] = "react"
               THEN Shows(p, Captioned(wall[p].images, OfId(wall[p].images, upd[u].id), u))
               ELSE wall
    /\ UNCHANGED <<save, rows, nextId>>

\* and the Vue page puts the record back as it was.
UpdateFails(u) ==
    LET p == upd[u].page
        target == {e \in wall[p].images : e.id = upd[u].id /\ e.pic = upd[u].pic} IN
    /\ upd[u].at \in {"stored", "refused"}
    /\ upd' = [upd EXCEPT ![u].at = "over"]
    /\ wall' = IF AppOf[p] = "vue"
               THEN Shows(p, Captioned(wall[p].images, target, upd[u].was)) ELSE wall
    /\ UNCHANGED <<save, rows, nextId>>

-----------------------------------------------------------------------------
(* The backend *)

SaveGoes(s, from, to) == save[s].txn = from /\ save' = [save EXCEPT ![s].txn = to]

\* A row that a transaction in progress has deleted is locked.
LockedBy(t) == IF save[t].txn \in {"deleting", "written"} THEN save[t].gone ELSE {}
Locked(s, ids) == \E t \in Saves \ {s} : LockedBy(t) \cap ids # {}

\* Mutant: the DELETE is committed on its own.
DeleteCommits(s) ==
    /\ save[s].txn = "sent"
    /\ save' = [save EXCEPT ![s].txn = "deleting", ![s].gone = {}]
    /\ rows' = {}
    /\ UNCHANGED <<wall, upd, nextId>>

\* save_images, delete_all: DELETE takes the rows it sees when it begins, and
\* waits for those that another transaction is deleting.
DeleteAll(s) ==
    /\ save[s].txn = "sent"
    /\ save' = [save EXCEPT ![s].txn = IF Locked(s, IdsOf(rows)) THEN "waiting" ELSE "deleting",
                            ![s].gone = IdsOf(rows)]
    /\ UNCHANGED <<wall, upd, rows, nextId>>

\* The other transaction has ended: what is left is deleted.
Wakes(s) ==
    /\ ~Locked(s, save[s].gone \cap IdsOf(rows))
    /\ SaveGoes(s, "waiting", "deleting")
    /\ UNCHANGED <<wall, upd, rows, nextId>>

\* Mutant: ids start again with the table.
InsertsRestarted(s) ==
    /\ save[s].txn = "deleting"
    /\ \E new \in Numbered(save[s].list, 1) :
          save' = [save EXCEPT ![s].txn = "written", ![s].new = new]
    /\ UNCHANGED <<wall, upd, rows, nextId>>

\* The flush inserts the list, with ids of the sequence.
Inserts(s) ==
    /\ save[s].txn = "deleting"
    /\ \E new \in Numbered(save[s].list, nextId) :
          save' = [save EXCEPT ![s].txn = "written", ![s].new = new]
    /\ nextId' = nextId + Cardinality(save[s].list)
    /\ UNCHANGED <<wall, upd, rows>>

\* get_session commits when the handler is done,
Commit(s) ==
    /\ SaveGoes(s, "written", "committed")
    /\ rows' = {r \in rows : r.id \notin save[s].gone} \cup save[s].new
    /\ UNCHANGED <<wall, upd, nextId>>

\* or rolls back, after an error at any step.
Rollback(s) ==
    /\ \E step \in {"sent", "waiting", "deleting", "written"} : SaveGoes(s, step, "failed")
    /\ UNCHANGED <<wall, upd, rows, nextId>>

At(u, from, to) == upd[u].at = from /\ upd' = [upd EXCEPT ![u].at = to]

\* update_image: SELECT by id.  The ids of uploaded pictures are none of the
\* table's.
Find(u) ==
    /\ At(u, "sent", IF upd[u].id \in IdsOf(rows) THEN "found" ELSE "refused")
    /\ UNCHANGED <<wall, save, rows, nextId>>

\* UPDATE by id, which waits for a DELETE in progress and may find no row.
WriteCaption(u) ==
    /\ ~\E s \in Saves : upd[u].id \in LockedBy(s)
    /\ \/ /\ upd[u].id \in IdsOf(rows)
          /\ At(u, "found", "stored")
          /\ rows' = Captioned(rows, OfId(rows, upd[u].id), u)
       \/ /\ upd[u].id \notin IdsOf(rows)
          /\ At(u, "found", "refused")
          /\ UNCHANGED rows
    /\ UNCHANGED <<wall, save, nextId>>

\* The request, or the backend, fails.
UpdateRefused(u) ==
    /\ At(u, "sent", "refused")
    /\ UNCHANGED <<wall, save, rows, nextId>>

-----------------------------------------------------------------------------
GalleryNext ==
    \/ \E p \in Pages :
          \/ GalleryFetched(p)
          \/ \E s \in Saves, pic \in New : Upload(p, s, pic)
          \/ \E s \in Saves, e \in wall[p].images : deleteImage(p, s, e)
          \/ \E u \in Updates, e \in wall[p].images : updateImage(p, u, e)
    \/ \E s \in Saves :
          \/ Saved(s) \/ SaveFails(s)
          \/ DeleteAll(s) \/ Wakes(s) \/ Inserts(s) \/ Commit(s) \/ Rollback(s)
    \/ \E u \in Updates :
          Updated(u) \/ UpdateFails(u) \/ Find(u) \/ WriteCaption(u) \/ UpdateRefused(u)

GallerySpec == GalleryInit /\ [][GalleryNext]_galleryVars

-----------------------------------------------------------------------------
(* Properties *)

\* A caption is on the picture it was written for, in the table and on every
\* page, although the saves of others give all rows new ids and the pages go
\* on with the old ones.
OwnCaption ==
    \A e \in rows \cup UNION {wall[p].images : p \in Pages} :
        e.text # NoCaption => upd[e.text].pic = e.pic

\* A picture that was stored and is in the list of every save is stored,
\* whichever of them fail, overlap or are answered before they commit: a save
\* that does not go through costs nobody's pictures.
KeptBySaves ==
    \A pic \in Pictures :
        /\ pic \in Old \/ \E s \in Saves : save[s].txn = "committed" /\ pic \in Pics(save[s].list)
        /\ \A s \in Saves : save[s] # NoSave => pic \in Pics(save[s].list)
        => pic \in Pics(rows)

\* gallery_repo.py:28: a save replaces all pictures; when all have ended, the
\* rows are those of one of them.
SavesReplace ==
    LET stored == {s \in Saves : save[s].txn = "committed"} IN
    /\ stored # {}
    /\ \A s \in Saves : save[s].txn \in {"unused", "committed", "failed"}
    => \E s \in stored : IdsOf(rows) = IdsOf(save[s].new)
=============================================================================
