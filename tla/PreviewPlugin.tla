--------------------------- MODULE PreviewPlugin ---------------------------
(***************************************************************************)
(* The Vite plugin of the mockup sandbox (mockupPreviewPlugin.ts): it      *)
(* keeps src/.generated/mockup-components.ts, the list of the components  *)
(* that can be previewed, in step with the files under                     *)
(* src/components/mockups, while files come and go.                        *)
(*                                                                         *)
(* The scan of the directory (glob) is not atomic: other events run        *)
(* between the looks at two files.  Everything else a handler does up to   *)
(* its next await is one step.  chokidar and Vite are external: chokidar   *)
(* reports, later and in any order, each file on which the disk differs    *)
(* from what it reported last.                                             *)
(***************************************************************************)
EXTENDS Naturals

CONSTANTS
    Files,       \* paths below src/components/mockups
    Tsx,         \* those whose name ends in .tsx
    Hidden,      \* those with a path segment that starts with an underscore
    MaxEdits,    \* bound: how often a file is created or deleted
    MaxCrashes   \* bound: how often the server process ends

PreviewPluginAssumption ==
    /\ Tsx \subseteq Files
    /\ Hidden \subseteq Files
    /\ "none" \notin Files
    /\ MaxEdits \in Nat
    /\ MaxCrashes \in Nat

VARIABLES
    disk,        \* the files that exist
    generated,   \* the files listed in .generated/mockup-components.ts
    source,      \* currentSource: the list last written by this process
    inFlight,    \* refreshInFlight
    queued,      \* refreshQueued
    unseen,      \* the files the running scan has yet to look at
    found,       \* the files the running scan has found
    phase,       \* where Vite is in starting the server
    watching,    \* has chokidar finished its initial scan?
    known,       \* what chokidar has reported
    unreported,  \* history: the files changed since the last scan began of
                 \* which chokidar will say nothing
    edits,       \* bounded counter
    crashes      \* bounded counter

scan == <<inFlight, queued, unseen, found>>

list == <<generated, source>>

server == <<phase, crashes>>

watcher == <<watching, known>>

world == <<disk, edits>>

pluginVars == <<scan, list, server, watcher, world, unreported>>

NoSource == {"none"}

Phases == {"off", "config", "configured", "build", "serving"}

PluginTypeOK ==
    /\ {disk, known, unseen, unreported} \subseteq SUBSET Files
    /\ {generated, found} \subseteq SUBSET (Tsx \ Hidden)
    /\ source \in (SUBSET (Tsx \ Hidden)) \union {NoSource}
    /\ {inFlight, queued, watching} \subseteq BOOLEAN
    /\ phase \in Phases
    /\ edits \in 0 .. MaxEdits
    /\ crashes \in 0 .. MaxCrashes
    /\ queued => inFlight
    /\ phase = "off" => ~inFlight /\ ~watching

isMockupFile(f) == f \in Tsx

isPreviewTarget(f) == f \notin Hidden

\* What glob returns, over the whole disk.
Targets(files) == {f \in files : isMockupFile(f) /\ isPreviewTarget(f)}

\* A list of an earlier session may be left on the disk.
PluginInit ==
    /\ disk \in SUBSET Files
    /\ generated \in SUBSET Targets(Files)
    /\ source = NoSource
    /\ inFlight = FALSE /\ queued = FALSE
    /\ unseen = {} /\ found = {}
    /\ phase = "off" /\ crashes = 0
    /\ watching = FALSE /\ known = {}
    /\ unreported = {} /\ edits = 0

-----------------------------------------------------------------------------
(* refresh()                                                               *)

StartScan ==
    /\ inFlight' = TRUE
    /\ queued' = FALSE
    /\ unseen' = Files
    /\ found' = {}
    /\ unreported' = {}

\* Deviation: a call during a scan is dropped, not remembered.
refresh_drop ==
    IF inFlight THEN UNCHANGED <<scan, unreported>> ELSE StartScan

refresh ==
    IF inFlight
    THEN queued' = TRUE /\ UNCHANGED <<inFlight, unseen, found, unreported>>
    ELSE StartScan

discoverComponents(f) ==
    /\ f \in unseen
    /\ unseen' = unseen \ {f}
    /\ found' = found \union Targets({f} \intersect disk)
    /\ UNCHANGED <<inFlight, queued, list, server, watcher, world, unreported>>

\* The scan has ended: write the list if it changed, then either go round
\* again for a call that came meanwhile, or return to the caller.
writeGenerated ==
    /\ inFlight
    /\ unseen = {}
    /\ source' = found
    /\ generated' = IF found # source THEN found ELSE generated
    /\ IF queued
       THEN StartScan /\ UNCHANGED phase
       ELSE /\ inFlight' = FALSE
            /\ phase' = CASE phase = "config" -> "configured"
                          [] phase = "build" -> "serving"
                          [] OTHER -> phase
            /\ UNCHANGED <<queued, unseen, found, unreported>>
    /\ UNCHANGED <<crashes, watcher, world>>

-----------------------------------------------------------------------------
(* The server's life                                                       *)

\* vite.config.ts: without a PORT and a BASE_PATH there is no configuration.
ConfigAccepted(port, basePath) ==
    /\ port \in Nat \ {0}
    /\ basePath # "unset"

\* configureServer, up to the await of its refresh.
Boot ==
    /\ phase = "off"
    /\ \E port \in {0, 5173}, basePath \in {"unset", "mockup"} : ConfigAccepted(port, basePath)
    /\ phase' = "config"
    /\ source' = NoSource
    /\ StartScan
    /\ UNCHANGED <<generated, crashes, watcher, world>>

\* The rest of configureServer has asked chokidar to watch; buildStart then
\* awaits a refresh of its own (which returns at once if one is running).
buildStart ==
    /\ phase = "configured"
    /\ phase' = IF inFlight THEN "serving" ELSE "build"
    /\ refresh
    /\ UNCHANGED <<list, crashes, watcher, world>>

\* chokidar's initial scan reports nothing (ignoreInitial).
WatcherReady ==
    /\ phase \in {"configured", "build", "serving"}
    /\ ~watching
    /\ watching' = TRUE
    /\ known' = disk
    /\ UNCHANGED <<scan, list, server, world, unreported>>

\* The process ends: stopped, or by the unhandled rejection of a refresh whose
\* glob, mkdir or write failed (the rejection of an awaited one ends Vite too).
Crash ==
    /\ phase # "off"
    /\ crashes < MaxCrashes
    /\ crashes' = crashes + 1
    /\ phase' = "off"
    /\ inFlight' = FALSE /\ queued' = FALSE
    /\ unseen' = {} /\ found' = {}
    /\ watching' = FALSE /\ known' = {}
    /\ UNCHANGED <<list, world, unreported>>

-----------------------------------------------------------------------------
(* Files change, chokidar tells, pages ask for what is gone                *)

\* A change is not reported if it comes before chokidar watches, or undoes one
\* that chokidar has not reported yet.
Edit(f) ==
    /\ edits < MaxEdits
    /\ edits' = edits + 1
    /\ disk' = IF f \in disk THEN disk \ {f} ELSE disk \union {f}
    /\ unreported' = IF ~watching \/ (f \in known) # (f \in disk)
                     THEN unreported \union {f} ELSE unreported
    /\ UNCHANGED <<scan, list, server, watcher>>

onAdd(f) ==
    /\ watching
    /\ f \in disk \ known
    /\ known' = known \union {f}
    /\ IF isMockupFile(f) /\ isPreviewTarget(f) THEN refresh ELSE UNCHANGED <<scan, unreported>>
    /\ UNCHANGED <<list, server, watching, world>>

onUnlink(f) ==
    /\ watching
    /\ f \in known \ disk
    /\ known' = known \ {f}
    /\ IF isMockupFile(f) THEN refresh ELSE UNCHANGED <<scan, unreported>>
    /\ UNCHANGED <<list, server, watching, world>>

\* The middleware wrapped around res.end: a 404 on a mockup's URL.
shouldAutoRescan ==
    /\ phase = "serving"
    /\ refresh
    /\ UNCHANGED <<list, server, watcher, world>>

PluginStep ==
    \/ \E f \in Files : Edit(f) \/ discoverComponents(f) \/ onAdd(f) \/ onUnlink(f)
    \/ writeGenerated \/ Boot \/ buildStart \/ WatcherReady \/ Crash

-----------------------------------------------------------------------------

\* When nothing is left to report and no scan runs, the list on the disk names
\* exactly the previewable files, whatever came and went during the scans
\* before: one remembered call is enough.  Excepted are files whose change
\* after the last scan began nobody reports.
QuietMeansCurrent ==
    watching /\ phase = "serving" /\ ~inFlight /\ known = disk =>
        \A f \in Files \ unreported : (f \in generated) = (f \in Targets(disk))

\* Where a file stands in the running scan is no longer what will be written.
Superseded(f) == queued \/ f \in unseen \/ (f \in found) = (f \in Targets(disk))

\* At any time, a listed file that is gone, or one that is there and not
\* listed, is on its way to be corrected: chokidar has yet to report it, or a
\* scan is running that will be repeated, has yet to look at it, or has seen it
\* as it is.  And a running scan that has seen it as it is not is excused too.
WrongIsPending ==
    watching => \A f \in Files \ unreported : known \intersect {f} = disk \intersect {f} =>
        IF inFlight THEN Superseded(f)
        ELSE (f \in generated) = (f \in Targets(disk))

=============================================================================
