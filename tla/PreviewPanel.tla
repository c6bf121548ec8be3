------------------------------ MODULE PreviewPanel ------------------------------
(***************************************************************************)
(* The one panel of the preview extension (extension.js), what it shows    *)
(* and the preview it is about.  Preview has the steps that change it.     *)
(***************************************************************************)
EXTENDS Naturals

VARIABLES
    panel,  \* the number of the panel, 0 when there is none
    active, \* activePreview: [object, document, preview], a new object each time, or None
    html    \* what the panel shows: [kind, build, object], for which activePreview

Shows(kind, build, object) == [kind |-> kind, build |-> build, object |-> object]

(* An answer counts for the panel and the activePreview it was asked for.  *)
(* Mutant: for the panel only.                                             *)
Current_Panel(b) == panel # 0 /\ b.panel = panel
Current(b) == panel # 0 /\ b.panel = panel /\ active.object = b.active
Put(b, kind) == html' = IF Current(b) THEN Shows(kind, b.build, b.active) ELSE html

(* Whatever the panel shows, its loading and its errors included, is about *)
(* the preview that was opened, reloaded or saved last, in whichever order *)
(* the builds end and although panels close and open in between.           *)
ShownIsActive == html.kind # "none" => panel # 0 /\ html.object = active.object
===============================================================================
