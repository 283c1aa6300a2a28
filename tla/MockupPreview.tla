--------------------------- MODULE MockupPreview ---------------------------
(***************************************************************************)
(* The development server with its plugin and one preview page, composed:  *)
(* the page imports the list the plugin writes, and its request for a      *)
(* module that is gone makes the plugin scan again.                        *)
(***************************************************************************)
EXTENDS Naturals, Sequences

CONSTANTS Files, Tsx, Hidden, MaxEdits, MaxCrashes, Exports, MaxRuns

VARIABLES disk, generated, source, inFlight, queued, unseen, found, phase,
          watching, known, unreported, edits, crashes,
          path, modules, due, runs, Component, error,
          told,      \* has the page heard of every change of the list?
          blinked    \* history: files with a change chokidar did not report

Plugin == INSTANCE PreviewPlugin

Page == INSTANCE PreviewRenderer

ASSUME MockupPreviewAssumption ==
    /\ Plugin!PreviewPluginAssumption
    /\ Page!PreviewRendererAssumption

pluginVars == <<disk, generated, source, inFlight, queued, unseen, found, phase,
                watching, known, unreported, edits, crashes>>

links == <<told, blinked>>

pageVars == <<path, modules, due, runs, Component, error>>

vars == <<pluginVars, pageVars, links>>

TypeOK ==
    /\ Plugin!PluginTypeOK
    /\ Page!PageTypeOK
    /\ told \in BOOLEAN
    /\ blinked \subseteq Files

Init ==
    /\ Plugin!PluginInit
    /\ Page!PageInit
    /\ told = TRUE
    /\ blinked = {}

-----------------------------------------------------------------------------

\* App passes the list the server serves.
OpenPage(f) ==
    /\ phase = "serving"
    /\ Page!Open(f, generated)
    /\ told' = TRUE
    /\ UNCHANGED <<pluginVars, blinked>>

\* Vite sees that the generated file was written and updates the page, whose
\* list is then a new object; a page whose server went away reloads.
Update ==
    /\ phase = "serving"
    /\ ~told
    /\ Page!HotReload(generated)
    /\ told' = TRUE
    /\ UNCHANGED <<pluginVars, blinked>>

Import(r) ==
    /\ phase = "serving"
    /\ \/ path \in disk /\ Page!Fetch(r, TRUE) /\ UNCHANGED pluginVars
       \/ path \notin disk /\ Page!Fetch(r, FALSE) /\ Plugin!shouldAutoRescan
    /\ UNCHANGED links

\* A request the server is not there to answer fails.
ImportRefused(r) ==
    /\ phase = "off"
    /\ Page!Fetch(r, FALSE)
    /\ UNCHANGED <<pluginVars, links>>

\* A step of the plugin, its files and its server, which the page may not notice.
PluginDoes(A) ==
    /\ A
    /\ told' = (told /\ source' = source /\ phase' # "off")
    /\ blinked' = blinked \union {f \in unreported' : (f \in disk) # (f \in disk')}
    /\ UNCHANGED pageVars

PageOnly ==
    /\ Page!loadComponent \/ \E r \in 1 .. MaxRuns : Page!Settle(r)
    /\ UNCHANGED <<pluginVars, links>>

Next ==
    \/ PluginDoes(Plugin!PluginStep)
    \/ PageOnly
    \/ Update
    \/ \E f \in Plugin!Targets(Files) : OpenPage(f)
    \/ \E r \in 1 .. MaxRuns : Import(r) \/ ImportRefused(r)

\* The callbacks of Node and of the browser run, chokidar reports, the server
\* is restarted, Vite's hot reload arrives.  Nobody need edit or open a page.
Fairness ==
    /\ WF_vars(PluginDoes(\E f \in Files : Plugin!discoverComponents(f)))
    /\ WF_vars(PluginDoes(\E f \in Files : Plugin!onAdd(f) \/ Plugin!onUnlink(f)))
    /\ WF_vars(PluginDoes(Plugin!writeGenerated))
    /\ WF_vars(PluginDoes(Plugin!Boot \/ Plugin!buildStart))
    /\ WF_vars(PluginDoes(Plugin!WatcherReady))
    /\ WF_vars(PageOnly)
    /\ WF_vars(Update)
    /\ WF_vars(\E r \in 1 .. MaxRuns : Import(r))

Spec == Init /\ [][Next]_vars /\ Fairness

-----------------------------------------------------------------------------

\* PreviewPlugin: with nothing in progress the list is exactly what can be
\* previewed, and a list that is wrong is on its way to be corrected.
ListPromise == TypeOK /\ Plugin!QuietMeansCurrent /\ Plugin!WrongIsPending

\* What the page of a mockup that exists and has a component should show.
ShowsMockup ==
    LET comp == Page!_resolveComponent(Exports[path], path)
    IN Page!Rendered.what = IF comp # "none" THEN comp ELSE "no export"

\* From the disk to the screen: an open page whose mockup exists does not stay
\* blank or on "No component found", and one whose mockup is gone ends on an
\* error, through every edit before, server restarts and rescans, unless a change
\* of the file is one that chokidar does not report.  A failed load may stay on
\* the screen after the file has come back: if it went and came within one scan
\* the list does not change, and nothing makes the page load again.
PageSettles ==
    <>[](path # Page!NoPath /\ path \notin blinked /\ Len(runs) < MaxRuns) =>
        <>[](/\ path \in disk => ShowsMockup \/ Page!Rendered.what = "failed"
             /\ path \notin disk => Page!Rendered.what \in {"not listed", "failed"})

\* PreviewRenderer: no answer of an earlier load is ever shown, and the page
\* ends on what is there.
PagePromise == []Page!ShownIsCurrent /\ PageSettles

=============================================================================
