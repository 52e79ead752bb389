-------------------------------- MODULE MCPages --------------------------------
(***************************************************************************)
(* What the pages of the web applications keep: the course page, the blog  *)
(* editor, the fishing map and the picture wall.  They share no state and  *)
(* are checked one at a time: part is chosen once, and only that part      *)
(* moves.                                                                  *)
(***************************************************************************)
EXTENDS CoursePage, BlogEditor, FishingMap, Gallery, TLC

VARIABLE part

\* A page of each application.
AppOfPages == "p1" :> "vue" @@ "p2" :> "react"

pagesVars == <<courseVars, editorVars, mapVars, galleryVars>>

\* A part at rest is in one of its initial states.
PagesRest ==
    /\ CoursePageInit /\ EditorInit /\ MapInit /\ GalleryInit
    /\ part # "course" => page.is = "list"
    /\ part # "blog" => ~editor.isEdit
    /\ part # "fishing" => store = "bare"

PagesInit == part \in {"course", "blog", "fishing", "gallery"} /\ PagesRest

Moves(p) == part = p /\ UNCHANGED part

PagesNext ==
    \/ Moves("course") /\ CoursePageNext /\ UNCHANGED <<editorVars, mapVars, galleryVars>>
    \/ Moves("blog") /\ EditorNext /\ UNCHANGED <<courseVars, mapVars, galleryVars>>
    \/ Moves("fishing") /\ MapNext /\ UNCHANGED <<courseVars, editorVars, galleryVars>>
    \/ Moves("gallery") /\ GalleryNext /\ UNCHANGED <<courseVars, editorVars, mapVars>>

PagesSpec == PagesInit /\ [][PagesNext]_<<part, pagesVars>>
=============================================================================
