--------------------------------- MODULE Preview ---------------------------------
(***************************************************************************)
(* The preview extension of VS Code (extension.js, previewCompiler.js,     *)
(* previewParser.js): the directives of a document, the one panel, the     *)
(* preview it is about, and the builds under way for it.                   *)
(* The panel itself is in PreviewPanel.                                    *)
(*                                                                         *)
(* A text places its valid directives at offsets.  A request is one call of*)
(* refreshPreview; what it awaits are the start of the compiler, the build *)
(* and the processing of the styles, in which builds may overtake.         *)
(***************************************************************************)
EXTENDS Naturals, Sequences, FiniteSets, SequencesExt, PreviewPanel

CONSTANTS Documents, Directives, None,
          MaxOffset, MaxEdits, MaxRequests, MaxPanels, MaxFailures \* bounds

ASSUME PreviewAssumption ==
    /\ {MaxOffset, MaxEdits, MaxRequests, MaxPanels, MaxFailures} \subseteq Nat
    /\ None \notin Documents \cup Directives

VARIABLES
    text,     \* document -> directive -> its offset, or None: not there, or in error
    picking,  \* the list the user is to choose from: <<document, previews>>, or None
    panels, edits, failures, \* so far
    compiler, \* "off", "starting", "on"
    waiting,  \* requests that wait for the compiler, in their order
    builds,   \* [build, panel, active, at]: "esbuild", "styles"
    buildNumber, requests, objects

counters == <<panels, edits, failures>>
vars == <<text, picking, panel, counters, active, html, compiler, waiting, builds, buildNumber, requests, objects>>

Offsets == 0..MaxOffset
Blank == [d \in Directives |-> None]

Init ==
    /\ text = [f \in Documents |-> Blank] /\ picking = None
    /\ panel = 0 /\ panels = 0 /\ edits = 0 /\ failures = 0
    /\ active = None /\ html = Shows("none", 0, 0) /\ compiler = "off"
    /\ waiting = <<>> /\ builds = {} /\ buildNumber = 0 /\ requests = 0 /\ objects = 0

-------------------------------------------------------------------------------
(* previewParser.js: comments in the order of the text; a preview is known *)
(* by the offset its comment begins at.                                    *)
CollectComments(t) ==
    SetToSortSeq({d \in Directives : t[d] # None}, LAMBDA d, e : t[d] < t[e])
ParseDeclaration(t, d) == [directive |-> d, id |-> t[d]]
ParsePreviews(t) == [n \in DOMAIN CollectComments(t) |-> ParseDeclaration(t, CollectComments(t)[n])]

(* The preview with an id; failing that, the one whose index it would be.  *)
WithId(previews, id) == {p \in Range(previews) : p.id = id}
ChoosePreview(previews, id) ==
    IF WithId(previews, id) # {} THEN WithId(previews, id)
    ELSE {previews[n] : n \in {m \in DOMAIN previews : m - 1 = id}}

-------------------------------------------------------------------------------
(* refreshPreview and the start of buildPreview, with the panel and the    *)
(* activePreview of the moment.                                            *)
Request(k) == [panel |-> panel', active |-> active'.object, request |-> k]
Started(rs, n) == {[panel |-> rs[i].panel, active |-> rs[i].active, build |-> n + i, at |-> "esbuild"]
                      : i \in DOMAIN rs}
RefreshPreview ==
    /\ requests < MaxRequests /\ requests' = requests + 1 /\ html' = Shows("loading", 0, active'.object)
    /\ IF compiler = "on"
       THEN /\ buildNumber' = buildNumber + 1
            /\ builds' = builds \cup Started(<<Request(requests')>>, buildNumber)
            /\ UNCHANGED <<waiting, compiler>>
       ELSE /\ waiting' = Append(waiting, Request(requests')) /\ compiler' = "starting"
            /\ UNCHANGED <<builds, buildNumber>>
NoRefresh == UNCHANGED <<requests, html, buildNumber, builds, waiting, compiler>>

SetActive(f, p) ==
    /\ objects' = objects + 1 /\ active' = [object |-> objects', document |-> f, preview |-> p]

(* openPreview, from a lens whose text may have changed since, or by the   *)
(* command, which asks when there is more than one.                        *)
Open(f, p) ==
    /\ SetActive(f, p) /\ picking' = None
    /\ IF panel = 0 THEN panels < MaxPanels /\ panels' = panels + 1 /\ panel' = panels'
       ELSE UNCHANGED <<panel, panels>>
    /\ RefreshPreview /\ UNCHANGED <<text, edits, failures>>
OpenLens == \E f \in Documents, id \in Offsets : \E p \in ChoosePreview(ParsePreviews(text[f]), id) : Open(f, p)
OpenOnly == \E f \in Documents : Len(ParsePreviews(text[f])) = 1 /\ Open(f, ParsePreviews(text[f])[1])
Ask ==
    /\ \E f \in Documents : Len(ParsePreviews(text[f])) > 1 /\ picking' = <<f, ParsePreviews(text[f])>>
    /\ UNCHANGED <<text, panel, counters, active, objects>> /\ NoRefresh
Pick == picking # None /\ \E p \in Range(picking[2]) : Open(picking[1], p)
PickNothing ==
    /\ picking # None /\ picking' = None
    /\ UNCHANGED <<text, panel, counters, active, objects>> /\ NoRefresh
OpenPreview == OpenLens \/ OpenOnly \/ Ask \/ Pick \/ PickNothing

(* The button and the command.                                             *)
Reload ==
    /\ panel # 0 /\ active.preview # None
    /\ UNCHANGED <<active, panel>> /\ RefreshPreview /\ UNCHANGED <<text, picking, counters, objects>>
OnDidDispose ==
    /\ panel # 0 /\ panel' = 0 /\ active' = None /\ html' = Shows("none", 0, 0)
    /\ UNCHANGED <<text, picking, counters, compiler, waiting, builds, buildNumber, requests, objects>>

-------------------------------------------------------------------------------
(* The user edits a document: directives move, go and come.                *)
Edit ==
    /\ edits < MaxEdits /\ edits' = edits + 1
    /\ \E f \in Documents, t \in [Directives -> Offsets \cup {None}] :
          /\ \A d, e \in Directives : t[d] = t[e] /\ t[d] # None => d = e
          /\ text' = [text EXCEPT ![f] = t]
    /\ UNCHANGED <<picking, panel, panels, failures, active, objects>> /\ NoRefresh

(* refreshActivePreviewAfterSave: the preview with the id, or the first.   *)
Saved(previews) ==
    LET same == IF active.preview = None THEN {} ELSE WithId(previews, active.preview.id)
    IN  IF same # {} THEN CHOOSE p \in same : TRUE ELSE previews[1]
AfterSave(f) ==
    LET previews == ParsePreviews(text[f])
    IN  IF previews = <<>>
        THEN /\ SetActive(f, None) /\ html' = Shows("error", 0, objects')
             /\ UNCHANGED <<requests, buildNumber, builds, waiting, compiler>>
        ELSE SetActive(f, Saved(previews)) /\ RefreshPreview
Save ==
    /\ active # None /\ objects < 2 * MaxRequests /\ UNCHANGED panel /\ AfterSave(active.document)
    /\ UNCHANGED <<text, picking, counters>>

-------------------------------------------------------------------------------
InitializeEsbuild ==
    /\ compiler = "starting" /\ compiler' = "on" /\ waiting' = <<>>
    /\ builds' = builds \cup Started(waiting, buildNumber) /\ buildNumber' = buildNumber + Len(waiting)
    /\ UNCHANGED <<text, picking, panel, counters, active, html, requests, objects>>
InitializeFails ==
    /\ compiler = "starting" /\ compiler' = "off" /\ waiting' = <<>>
    /\ failures < MaxFailures /\ failures' = failures + 1
    /\ html' = IF \E b \in Range(waiting) : Current(b) THEN Shows("error", 0, active.object) ELSE html
    /\ UNCHANGED <<text, picking, panel, panels, edits, active, builds, buildNumber, requests, objects>>

Leaves(b) ==
    /\ b \in builds /\ builds' = builds \ {b}
    /\ UNCHANGED <<text, picking, panel, panels, edits, active, compiler, waiting, buildNumber, requests, objects>>
(* buildPreview after the build: null when there is a later one, otherwise *)
(* the content, after the styles when they are to be processed.  Mutant:   *)
(* the number of a build is that of the one before.                        *)
Superseded_PostIncrement(b) == b.build - 1 # buildNumber
Superseded(b) == b.build # buildNumber
Drops(b) == b.at = "esbuild" /\ Superseded(b) /\ Leaves(b) /\ UNCHANGED <<html, failures>>
Finishes(b) ==
    /\ b.at = "styles" \/ ~Superseded(b)
    /\ Leaves(b) /\ Put(b, "content") /\ UNCHANGED failures
ProcessProjectStyles(b) ==
    /\ b \in builds /\ b.at = "esbuild" /\ ~Superseded(b)
    /\ builds' = (builds \ {b}) \cup {[b EXCEPT !.at = "styles"]}
    /\ UNCHANGED <<text, picking, panel, counters, active, html, compiler, waiting, buildNumber, requests, objects>>
BuildFails(b) ==
    /\ failures < MaxFailures /\ failures' = failures + 1 /\ Leaves(b) /\ Put(b, "error")

Build(b) == Drops(b) \/ Finishes(b) \/ ProcessProjectStyles(b) \/ BuildFails(b)
Next ==
    \/ OpenPreview \/ Reload \/ OnDidDispose \/ Edit \/ Save
    \/ InitializeEsbuild \/ InitializeFails \/ \E b \in builds : Build(b)

(* The compiler starts or fails, and every build ends.                     *)
Fairness ==
    /\ WF_vars(InitializeEsbuild \/ InitializeFails)
    /\ \A n \in 1..MaxRequests : WF_vars(\E b \in builds : b.build = n /\ Build(b))
Spec == Init /\ [][Next]_vars
FairSpec == Spec /\ Fairness

-------------------------------------------------------------------------------
(* The panel does not stay at "building" when the builds that were asked   *)
(* for end: the one that supersedes the others is one that counts.         *)
LoadingEnds == html.kind = "loading" ~> html.kind # "loading"

(* What is shown is never replaced by an older build.  Does not hold: two  *)
(* builds of one preview may both process their styles, and an error of a  *)
(* superseded build is shown.                                              *)
NeverGoesBack == [][html'.build # 0 => html'.build >= html.build]_html

(* A save rebuilds the preview that is open while its directive is there.  *)
(* Does not hold: the preview is found by the offset of its directive,     *)
(* which an edit above it moves.                                           *)
SaveKeepsPreview ==
    active # None /\ active.preview # None
       /\ text[active.document][active.preview.directive] # None
       => Saved(ParsePreviews(text[active.document])).directive = active.preview.directive
===============================================================================
