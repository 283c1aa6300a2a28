------------------------- MODULE MockupPreviewProofs -------------------------
(***************************************************************************)
(* Proofs about the mockup preview: first that the plugin's list follows   *)
(* the files whatever order its refreshes and the watcher's events come    *)
(* in, then that a page never shows what an abandoned run has loaded.      *)
(***************************************************************************)
EXTENDS MockupPreview, SequenceTheorems, TLAPS

(***************************************************************************)
(* One step of the whole is a step of the plugin or leaves it alone, and   *)
(* likewise for the page.                                                  *)
(***************************************************************************)
LEMMA WholeStep ==
    ASSUME [Next]_vars
    PROVE  /\ Plugin!PluginStep \/ Plugin!shouldAutoRescan \/ UNCHANGED pluginVars
           /\ \/ \E f \in Plugin!Targets(Files) : Page!Open(f, generated)
              \/ Page!HotReload(generated)
              \/ Page!loadComponent
              \/ \E r \in 1 .. MaxRuns : Page!Fetch(r, TRUE) \/ Page!Fetch(r, FALSE) \/ Page!Settle(r)
              \/ UNCHANGED pageVars
<1>1. CASE UNCHANGED vars
  BY <1>1 DEF vars
<1>2. CASE Next
  BY <1>2 DEF Next, PluginDoes, PageOnly, Update, OpenPage, Import, ImportRefused
<1>3. QED
  BY <1>1, <1>2

-----------------------------------------------------------------------------
(* The plugin *)

\* Nothing keeps the watcher from knowing the file as it is.
Known(f) == watching => known \intersect {f} = disk \intersect {f}

\* The list is right about the file, or about to be.
Right(f) ==
    IF inFlight THEN Plugin!Superseded(f)
    ELSE (f \in generated) = (f \in Plugin!Targets(disk))

\* Before chokidar watches, what changes counts as unreported; so from the start
\* of the first scan on, the list is or will be right about every other file that
\* chokidar knows as it is.
PluginInv ==
    /\ Plugin!PluginTypeOK
    /\ unseen # {} => inFlight
    /\ unseen \intersect found = {}
    /\ source # Plugin!NoSource => generated = source
    /\ phase # "off" => \A f \in Files \ unreported : Known(f) => Right(f)

\* The types, one by one.
LEMMA PluginTypes ==
    Plugin!PluginTypeOK <=>
        /\ disk \subseteq Files /\ known \subseteq Files
        /\ unseen \subseteq Files /\ unreported \subseteq Files
        /\ generated \subseteq Tsx \ Hidden /\ found \subseteq Tsx \ Hidden
        /\ source \in (SUBSET (Tsx \ Hidden)) \union {Plugin!NoSource}
        /\ inFlight \in BOOLEAN /\ queued \in BOOLEAN /\ watching \in BOOLEAN
        /\ phase \in Plugin!Phases
        /\ edits \in 0 .. MaxEdits /\ crashes \in 0 .. MaxCrashes
        /\ queued => inFlight
        /\ phase = "off" => ~inFlight /\ ~watching
BY DEF Plugin!PluginTypeOK

LEMMA PluginTypesNext ==
    ASSUME disk' \subseteq Files, known' \subseteq Files,
           unseen' \subseteq Files, unreported' \subseteq Files,
           generated' \subseteq Tsx \ Hidden, found' \subseteq Tsx \ Hidden,
           source' \in (SUBSET (Tsx \ Hidden)) \union {Plugin!NoSource},
           inFlight' \in BOOLEAN, queued' \in BOOLEAN, watching' \in BOOLEAN,
           phase' \in Plugin!Phases,
           edits' \in 0 .. MaxEdits, crashes' \in 0 .. MaxCrashes,
           queued' => inFlight',
           phase' = "off" => ~inFlight' /\ ~watching'
    PROVE  Plugin!PluginTypeOK'
BY DEF Plugin!PluginTypeOK

\* After a call of refresh a scan runs that will look at every file, or be repeated.
LEMMA RefreshLooksAtAll ==
    ASSUME PluginInv, Plugin!refresh \/ Plugin!StartScan
    PROVE  /\ inFlight' = TRUE /\ queued' \in BOOLEAN
           /\ unseen' \subseteq Files /\ found' \subseteq Tsx \ Hidden
           /\ unreported' \subseteq unreported
           /\ unseen' \intersect found' = {}
           /\ \A f \in Files : queued' \/ f \in unseen'
<1>0. /\ unseen \subseteq Files /\ found \subseteq Tsx \ Hidden /\ unseen \intersect found = {}
      /\ inFlight \in BOOLEAN
  BY PluginTypes DEF PluginInv
<1>1. CASE inFlight /\ Plugin!refresh
  BY <1>0, <1>1 DEF Plugin!refresh
<1>2. CASE Plugin!StartScan
  BY <1>2 DEF Plugin!StartScan
<1>3. QED
  BY <1>1, <1>2 DEF Plugin!refresh

\* Then nothing is left to be right about.
LEMMA RefreshIsRight ==
    ASSUME inFlight' = TRUE, \A f \in Files : queued' \/ f \in unseen'
    PROVE  \A f \in Files : Right(f)'
BY DEF Right, Plugin!Superseded

LEMMA PluginInductive ==
    ASSUME PluginInv, Plugin!PluginStep \/ Plugin!shouldAutoRescan \/ UNCHANGED pluginVars
    PROVE  PluginInv'
<1>0. /\ Tsx \subseteq Files /\ Hidden \subseteq Files /\ "none" \notin Files
      /\ MaxEdits \in Nat /\ MaxCrashes \in Nat
  BY MockupPreviewAssumption DEF Plugin!PreviewPluginAssumption
<1>t. /\ disk \subseteq Files /\ known \subseteq Files
      /\ unseen \subseteq Files /\ unreported \subseteq Files
      /\ generated \subseteq Tsx \ Hidden /\ found \subseteq Tsx \ Hidden
      /\ source \in (SUBSET (Tsx \ Hidden)) \union {Plugin!NoSource}
      /\ inFlight \in BOOLEAN /\ queued \in BOOLEAN /\ watching \in BOOLEAN
      /\ phase \in Plugin!Phases
      /\ edits \in 0 .. MaxEdits /\ crashes \in 0 .. MaxCrashes
      /\ queued => inFlight
      /\ phase = "off" => ~inFlight /\ ~watching
  BY PluginTypes DEF PluginInv
<1> USE DEF Plugin!scan, Plugin!list, Plugin!server, Plugin!watcher, Plugin!world
<1>1. CASE UNCHANGED pluginVars
  BY <1>1 DEF pluginVars, PluginInv, Plugin!PluginTypeOK, Known, Right, Plugin!Superseded, Plugin!Targets
<1>2. ASSUME NEW f \in Files, Plugin!Edit(f)
      PROVE  PluginInv'
  <2>1. /\ disk' \subseteq Files /\ unreported' \subseteq Files /\ edits' \in 0 .. MaxEdits
        /\ UNCHANGED <<inFlight, queued, unseen, found, generated, source, phase, crashes,
                       watching, known>>
    BY <1>0, <1>t, <1>2 DEF Plugin!Edit
  <2>2. Plugin!PluginTypeOK'
    BY <1>t, <2>1, PluginTypesNext
  <2>3. ASSUME NEW g \in Files \ unreported', phase' # "off", Known(g)'
        PROVE  Right(g)'
    <3>1. g \in Files \ unreported
      BY <1>2, <2>3 DEF Plugin!Edit
    <3>2. g # f
      <4>1. SUFFICES ASSUME g = f PROVE FALSE
        OBVIOUS
      <4>2. watching /\ (f \in known) = (f \in disk)
        BY <1>2, <2>3, <4>1 DEF Plugin!Edit
      <4>3. (f \in disk') # (f \in disk)
        BY <1>2 DEF Plugin!Edit
      <4>4. QED
        BY <2>1, <2>3, <4>1, <4>2, <4>3 DEF Known
    <3>3. (g \in disk') = (g \in disk)
      BY <1>2, <3>2 DEF Plugin!Edit
    <3>4. Known(g)
      BY <2>1, <2>3, <3>3 DEF Known
    <3>5. Right(g)
      BY <2>1, <2>3, <3>1, <3>4 DEF PluginInv
    <3>6. QED
      BY <2>1, <3>3, <3>5 DEF Right, Plugin!Superseded, Plugin!Targets
  <2>4. QED
    BY <2>1, <2>2, <2>3 DEF PluginInv
<1>3. ASSUME NEW f \in Files, Plugin!discoverComponents(f)
      PROVE  PluginInv'
  <2>1. /\ f \in unseen /\ unseen' = unseen \ {f}
        /\ found' = found \union Plugin!Targets({f} \intersect disk)
        /\ UNCHANGED <<inFlight, queued, generated, source, phase, crashes, watching, known,
                       disk, edits, unreported>>
    BY <1>3 DEF Plugin!discoverComponents
  <2>2. Plugin!Targets({f} \intersect disk) = {f} \intersect Plugin!Targets(disk)
    BY DEF Plugin!Targets
  <2>3. Plugin!Targets(disk) \subseteq Tsx \ Hidden
    BY DEF Plugin!Targets, Plugin!isMockupFile, Plugin!isPreviewTarget
  <2>4. unseen' \subseteq Files /\ found' \subseteq Tsx \ Hidden
    BY <1>t, <2>1, <2>2, <2>3
  <2>5. Plugin!PluginTypeOK'
    BY <1>t, <2>1, <2>4, PluginTypesNext
  <2>6. unseen' \intersect found' = {} /\ inFlight
    BY <2>1, <2>2 DEF PluginInv
  <2>7. f \notin found
    BY <2>1 DEF PluginInv
  <2>8. ASSUME NEW g \in Files \ unreported', phase' # "off", Known(g)'
        PROVE  Right(g)'
    <3>1. CASE g = f
      <4>1. (f \in found') = (f \in Plugin!Targets(disk))
        BY <2>1, <2>2, <2>7
      <4>2. QED
        BY <2>1, <2>6, <3>1, <4>1 DEF Right, Plugin!Superseded, Plugin!Targets
    <3>2. CASE g # f
      <4>1. Right(g)
        BY <2>1, <2>8 DEF PluginInv, Known
      <4>2. (g \in found') = (g \in found) /\ (g \in unseen') = (g \in unseen)
        BY <2>1, <2>2, <3>2
      <4>3. QED
        BY <2>1, <4>1, <4>2 DEF Right, Plugin!Superseded, Plugin!Targets
    <3>3. QED
      BY <3>1, <3>2
  <2>9. QED
    BY <2>1, <2>5, <2>6, <2>8 DEF PluginInv
\* A call of refresh by a handler that changes neither the files nor the list.
<1>4. ASSUME Plugin!refresh \/ Plugin!StartScan, UNCHANGED <<generated, crashes, disk, edits>>,
             source' \in {source, Plugin!NoSource}, phase' \in Plugin!Phases \ {"off"},
             watching' \in BOOLEAN, known' \subseteq Files
      PROVE  PluginInv'
  <2>1. /\ inFlight' = TRUE /\ queued' \in BOOLEAN
        /\ unseen' \subseteq Files /\ found' \subseteq Tsx \ Hidden
        /\ unreported' \subseteq unreported
        /\ unseen' \intersect found' = {}
        /\ \A f \in Files : queued' \/ f \in unseen'
    BY <1>4, RefreshLooksAtAll
  <2>2. source' \in (SUBSET (Tsx \ Hidden)) \union {Plugin!NoSource}
    <3>1. source' = source \/ source' = Plugin!NoSource
      BY <1>4
    <3>2. CASE source' = source
      BY <1>t, <3>2
    <3>3. CASE source' = Plugin!NoSource
      BY <3>3
    <3>4. QED
      BY <3>1, <3>2, <3>3
  <2>3. inFlight' \in BOOLEAN /\ unreported' \subseteq Files
    BY <1>t, <2>1
  <2>4. Plugin!PluginTypeOK'
    BY <1>t, <1>4, <2>1, <2>2, <2>3, PluginTypesNext
  <2>5. \A f \in Files : Right(f)'
    BY <2>1, RefreshIsRight
  <2>6. source' # Plugin!NoSource' => generated' = source'
    BY <1>4 DEF PluginInv, Plugin!NoSource
  <2>7. QED
    BY <2>1, <2>4, <2>5, <2>6 DEF PluginInv
\* A report that calls for nothing.
<1>5. ASSUME NEW f \in Files, UNCHANGED <<inFlight, queued, unseen, found, unreported>>,
             UNCHANGED <<generated, source, phase, crashes, watching, disk, edits>>,
             known' \subseteq Files, f \notin Tsx \ Hidden,
             \A g \in Files : g # f => (g \in known') = (g \in known)
      PROVE  PluginInv'
  <2>1. Plugin!PluginTypeOK'
    BY <1>t, <1>5, PluginTypesNext
  <2>2. ASSUME NEW g \in Files \ unreported', phase' # "off", Known(g)'
        PROVE  Right(g)'
    <3>1. CASE g = f
      <4>1. f \notin Plugin!Targets(disk) /\ f \notin generated /\ f \notin found
        BY <1>t, <1>5 DEF Plugin!Targets, Plugin!isMockupFile, Plugin!isPreviewTarget
      <4>2. QED
        BY <1>5, <3>1, <4>1 DEF Right, Plugin!Superseded, Plugin!Targets
    <3>2. CASE g # f
      <4>1. (g \in known') = (g \in known)
        BY <1>5, <3>2
      <4>2. Known(g)
        BY <1>5, <2>2, <4>1 DEF Known
      <4>3. Right(g)
        BY <1>5, <2>2, <4>2 DEF PluginInv
      <4>4. QED
        BY <1>5, <4>3 DEF Right, Plugin!Superseded, Plugin!Targets
    <3>3. QED
      BY <3>1, <3>2
  <2>3. QED
    BY <1>5, <2>1, <2>2 DEF PluginInv
<1>6. ASSUME NEW f \in Files, Plugin!onAdd(f)
      PROVE  PluginInv'
  <2>1. /\ known' = known \union {f} /\ f \in disk /\ phase \in Plugin!Phases \ {"off"}
        /\ UNCHANGED <<generated, source, phase, crashes, watching, disk, edits>>
    BY <1>t, <1>6 DEF Plugin!onAdd
  <2>2. CASE f \in Tsx \ Hidden
    <3>1. Plugin!refresh
      BY <1>6, <2>2 DEF Plugin!onAdd, Plugin!isMockupFile, Plugin!isPreviewTarget
    <3>2. known' \subseteq Files /\ source' \in {source, Plugin!NoSource}
      BY <1>t, <2>1
    <3>3. QED
      BY <1>4, <1>t, <2>1, <3>1, <3>2
  <2>3. CASE f \notin Tsx \ Hidden
    <3>1. UNCHANGED <<inFlight, queued, unseen, found, unreported>>
      BY <1>6, <2>3 DEF Plugin!onAdd, Plugin!isMockupFile, Plugin!isPreviewTarget
    <3>2. known' \subseteq Files /\ \A g \in Files : g # f => (g \in known') = (g \in known)
      BY <1>t, <2>1
    <3>3. QED
      BY <1>5, <2>1, <2>3, <3>1, <3>2
  <2>4. QED
    BY <2>2, <2>3
<1>7. ASSUME NEW f \in Files, Plugin!onUnlink(f)
      PROVE  PluginInv'
  <2>1. /\ known' = known \ {f} /\ phase \in Plugin!Phases \ {"off"}
        /\ UNCHANGED <<generated, source, phase, crashes, watching, disk, edits>>
    BY <1>t, <1>7 DEF Plugin!onUnlink
  <2>2. CASE f \in Tsx
    <3>1. Plugin!refresh
      BY <1>7, <2>2 DEF Plugin!onUnlink, Plugin!isMockupFile
    <3>2. known' \subseteq Files /\ source' \in {source, Plugin!NoSource}
      BY <1>t, <2>1
    <3>3. QED
      BY <1>4, <1>t, <2>1, <3>1, <3>2
  <2>3. CASE f \notin Tsx
    <3>1. UNCHANGED <<inFlight, queued, unseen, found, unreported>>
      BY <1>7, <2>3 DEF Plugin!onUnlink, Plugin!isMockupFile
    <3>2. known' \subseteq Files /\ \A g \in Files : g # f => (g \in known') = (g \in known)
      BY <1>t, <2>1
    <3>3. QED
      BY <1>5, <2>1, <2>3, <3>1, <3>2
  <2>4. QED
    BY <2>2, <2>3
<1>8. CASE Plugin!Boot
  <2>1. Plugin!StartScan /\ source' = Plugin!NoSource /\ phase' = "config"
    BY <1>8 DEF Plugin!Boot
  <2>2. UNCHANGED <<generated, crashes, disk, edits, watching, known>>
    BY <1>8 DEF Plugin!Boot
  <2>3. phase' \in Plugin!Phases \ {"off"}
    BY <2>1 DEF Plugin!Phases
  <2>4. QED
    BY <1>4, <1>t, <2>1, <2>2, <2>3
<1>9. CASE Plugin!buildStart
  <2>1. Plugin!refresh /\ phase' \in Plugin!Phases \ {"off"}
    BY <1>9 DEF Plugin!buildStart, Plugin!Phases
  <2>2. UNCHANGED <<generated, source, crashes, disk, edits, watching, known>>
    BY <1>9 DEF Plugin!buildStart
  <2>3. QED
    BY <1>4, <1>t, <2>1, <2>2
<1>10. CASE Plugin!shouldAutoRescan
  <2>1. Plugin!refresh /\ phase = "serving"
    BY <1>10 DEF Plugin!shouldAutoRescan
  <2>2. UNCHANGED <<generated, source, crashes, phase, disk, edits, watching, known>>
    BY <1>10 DEF Plugin!shouldAutoRescan
  <2>3. phase' \in Plugin!Phases \ {"off"}
    BY <1>t, <2>1, <2>2
  <2>4. QED
    BY <1>4, <1>t, <2>1, <2>2, <2>3
<1>11. CASE Plugin!WatcherReady
  <2>1. /\ watching' = TRUE /\ known' = disk /\ ~watching /\ phase # "off"
        /\ UNCHANGED <<inFlight, queued, unseen, found, generated, source, phase, crashes,
                       disk, edits, unreported>>
    BY <1>11 DEF Plugin!WatcherReady
  <2>2. watching' \in BOOLEAN /\ known' \subseteq Files
    BY <1>t, <2>1
  <2>3. Plugin!PluginTypeOK'
    BY <1>t, <2>1, <2>2, PluginTypesNext
  <2>4. \A g \in Files \ unreported : Right(g)
    BY <2>1 DEF PluginInv, Known
  <2>5. \A g \in Files \ unreported' : Right(g)'
    BY <2>1, <2>4 DEF Right, Plugin!Superseded, Plugin!Targets
  <2>6. QED
    BY <2>1, <2>3, <2>5 DEF PluginInv
<1>12. CASE Plugin!Crash
  <2>1. /\ phase' = "off" /\ inFlight' = FALSE /\ queued' = FALSE /\ watching' = FALSE
        /\ unseen' = {} /\ found' = {} /\ known' = {} /\ crashes' \in 0 .. MaxCrashes
        /\ UNCHANGED <<generated, source, disk, edits, unreported>>
    BY <1>0, <1>t, <1>12 DEF Plugin!Crash
  <2>2. /\ inFlight' \in BOOLEAN /\ queued' \in BOOLEAN /\ watching' \in BOOLEAN
        /\ phase' \in Plugin!Phases
    BY <2>1 DEF Plugin!Phases
  <2>3. Plugin!PluginTypeOK'
    BY <1>t, <2>1, <2>2, PluginTypesNext
  <2>4. QED
    BY <2>1, <2>3 DEF PluginInv
<1>13. CASE Plugin!writeGenerated
  <2>1. /\ inFlight /\ unseen = {} /\ source' = found
        /\ generated' = IF found # source THEN found ELSE generated
        /\ UNCHANGED <<crashes, watching, known, disk, edits>>
    BY <1>13 DEF Plugin!writeGenerated
  <2>2. found # Plugin!NoSource
    BY <1>0, <1>t DEF Plugin!NoSource
  <2>3. generated' = found
    BY <2>1, <2>2 DEF PluginInv
  <2>4. CASE queued
    <3>1. Plugin!StartScan /\ UNCHANGED phase
      BY <1>13, <2>4 DEF Plugin!writeGenerated
    <3>2. /\ inFlight' = TRUE /\ queued' \in BOOLEAN
          /\ unseen' \subseteq Files /\ found' \subseteq Tsx \ Hidden
          /\ unreported' \subseteq unreported
          /\ unseen' \intersect found' = {}
          /\ \A f \in Files : queued' \/ f \in unseen'
      BY <3>1, RefreshLooksAtAll
    <3>3. \A f \in Files : Right(f)'
      BY <3>2, RefreshIsRight
    <3>4. inFlight' \in BOOLEAN /\ unreported' \subseteq Files /\ phase # "off"
      BY <1>t, <2>1, <3>2
    <3>5. Plugin!PluginTypeOK'
      BY <1>t, <2>1, <2>3, <3>1, <3>2, <3>4, PluginTypesNext
    <3>6. QED
      BY <2>1, <2>3, <3>2, <3>3, <3>5 DEF PluginInv
  <2>5. CASE ~queued
    <3>1. /\ inFlight' = FALSE
          /\ phase' = CASE phase = "config" -> "configured"
                        [] phase = "build" -> "serving"
                        [] OTHER -> phase
          /\ UNCHANGED <<queued, unseen, found, unreported>>
      BY <1>13, <2>5 DEF Plugin!writeGenerated
    <3>2. phase # "off" /\ inFlight' \in BOOLEAN
      BY <1>t, <2>1, <3>1
    <3>3. phase' \in Plugin!Phases /\ phase' # "off"
      BY <1>t, <3>1, <3>2 DEF Plugin!Phases
    <3>4. Plugin!PluginTypeOK'
      BY <1>t, <2>1, <2>3, <2>5, <3>1, <3>2, <3>3, PluginTypesNext
    <3>5. ASSUME NEW g \in Files \ unreported', Known(g)'
          PROVE  Right(g)'
      <4>1. Known(g)
        BY <2>1, <3>5 DEF Known
      <4>2. Plugin!Superseded(g)
        BY <2>1, <3>1, <3>2, <4>1 DEF PluginInv, Right
      <4>3. (g \in found) = (g \in Plugin!Targets(disk))
        BY <2>1, <2>5, <4>2 DEF Plugin!Superseded
      <4>4. QED
        BY <2>1, <2>3, <3>1, <4>3 DEF Right, Plugin!Targets
    <3>6. QED
      BY <2>1, <2>3, <3>1, <3>4, <3>5 DEF PluginInv
  <2>6. QED
    BY <1>t, <2>4, <2>5
<1>14. QED
  BY <1>1, <1>2, <1>3, <1>6, <1>7, <1>8, <1>9, <1>10, <1>11, <1>12, <1>13 DEF Plugin!PluginStep

LEMMA PluginInit ==
    ASSUME Init
    PROVE  PluginInv
<1>0. Tsx \subseteq Files /\ Hidden \subseteq Files /\ MaxEdits \in Nat /\ MaxCrashes \in Nat
  BY MockupPreviewAssumption DEF Plugin!PreviewPluginAssumption
<1>1. Plugin!Targets(Files) \subseteq Tsx \ Hidden
  BY DEF Plugin!Targets, Plugin!isMockupFile, Plugin!isPreviewTarget
<1>2. /\ disk \subseteq Files /\ generated \subseteq Tsx \ Hidden /\ source = Plugin!NoSource
      /\ inFlight = FALSE /\ queued = FALSE /\ watching = FALSE /\ phase = "off"
      /\ unseen = {} /\ found = {} /\ known = {} /\ unreported = {}
      /\ edits = 0 /\ crashes = 0
  BY <1>1 DEF Init, Plugin!PluginInit
<1>3. inFlight \in BOOLEAN /\ queued \in BOOLEAN /\ watching \in BOOLEAN /\ phase \in Plugin!Phases
  BY <1>2 DEF Plugin!Phases
<1>4. Plugin!PluginTypeOK
  <2>1. edits \in 0 .. MaxEdits /\ crashes \in 0 .. MaxCrashes
    BY <1>0, <1>2
  <2>2. /\ known \subseteq Files /\ unseen \subseteq Files /\ unreported \subseteq Files
        /\ found \subseteq Tsx \ Hidden
        /\ source \in (SUBSET (Tsx \ Hidden)) \union {Plugin!NoSource}
    BY <1>2
  <2>3. (queued => inFlight) /\ (phase = "off" => ~inFlight /\ ~watching)
    BY <1>2
  <2>4. QED
    BY <1>2, <1>3, <2>1, <2>2, <2>3, PluginTypes
<1>5. QED
  BY <1>2, <1>4 DEF PluginInv

-----------------------------------------------------------------------------
(* The page *)

Run == [cancelled : BOOLEAN, load : Page!Loads]

\* What is shown was found by the latest run; all runs before it are cancelled,
\* and as long as its load is under way it has shown nothing.
PageInv ==
    /\ Page!PageTypeOK
    /\ runs \in Seq(Run)
    /\ Component.run \in Nat /\ error.run \in Nat
    /\ \A r \in 1 .. Len(runs) : r < Len(runs) => runs[r].cancelled
    /\ Component = Page!Nothing \/ error = Page!Nothing
    /\ \A x \in {Component, error} : x # Page!Nothing => x.run = Len(runs)
    /\ runs # <<>> /\ runs[Len(runs)].load # "done" =>
           Component = Page!Nothing /\ error = Page!Nothing

LEMMA ResultIsOf ==
    ASSUME NEW r \in Nat, NEW what
    PROVE  Page!Result(r, what).run = r
BY DEF Page!Result

LEMMA NothingIsOf == Page!Nothing.run = 0
BY DEF Page!Nothing

\* A run ends its load: the list of runs afterwards.
LEMMA LoadOf ==
    ASSUME runs \in Seq(Run), NEW r \in 1 .. Len(runs), NEW l \in Page!Loads,
           runs' = [runs EXCEPT ![r].load = l]
    PROVE  /\ runs' \in Seq(Run) /\ Len(runs') = Len(runs)
           /\ runs'[r].load = l /\ runs'[r].cancelled = runs[r].cancelled
           /\ \A s \in 1 .. Len(runs) : s # r => runs'[s] = runs[s]
<1> DEFINE x == [runs[r] EXCEPT !.load = l]
<1>1. runs[r] \in Run
  OBVIOUS
<1>2. x \in Run /\ x.load = l /\ x.cancelled = runs[r].cancelled
  BY <1>1 DEF Run
<1>3. runs' = [runs EXCEPT ![r] = x]
  OBVIOUS
<1> HIDE DEF x
<1>4. QED
  BY <1>2, <1>3

LEMMA PageInductive ==
    ASSUME PageInv, generated \subseteq Files,
           \/ \E f \in Plugin!Targets(Files) : Page!Open(f, generated)
           \/ Page!HotReload(generated)
           \/ Page!loadComponent
           \/ \E r \in 1 .. MaxRuns : Page!Fetch(r, TRUE) \/ Page!Fetch(r, FALSE) \/ Page!Settle(r)
           \/ UNCHANGED pageVars
    PROVE  PageInv'
<1> DEFINE n == Len(runs)
<1>0. /\ MaxRuns \in Nat /\ n \in Nat /\ n <= MaxRuns /\ DOMAIN runs = 1 .. n
      /\ runs \in Seq(Run) /\ Len(runs) = n
      /\ \A r \in 1 .. n : runs[r] \in Run
  BY MockupPreviewAssumption DEF PageInv, Page!PageTypeOK, Page!PreviewRendererAssumption
<1> HIDE DEF n
<1>1. CASE UNCHANGED pageVars
  BY <1>1 DEF pageVars, PageInv, Page!PageTypeOK
<1>2. ASSUME NEW f \in Plugin!Targets(Files), Page!Open(f, generated)
      PROVE  PageInv'
  <2>1. path' \in Files /\ modules' \subseteq Files /\ due' \in BOOLEAN
    BY <1>2 DEF Page!Open, Plugin!Targets
  <2>2. QED
    BY <1>2, <2>1 DEF Page!Open, PageInv, Page!PageTypeOK
<1>3. CASE Page!HotReload(generated)
  <2>1. modules' \subseteq Files /\ due' \in BOOLEAN
    BY <1>3 DEF Page!HotReload
  <2>2. QED
    BY <1>3, <2>1 DEF Page!HotReload, PageInv, Page!PageTypeOK
<1>4. CASE Page!loadComponent
  <2> DEFINE old == Page!Cancelled(runs)
             new == [cancelled |-> FALSE, load |-> IF path \in modules THEN "fetching" ELSE "done"]
  <2>1. /\ due' = FALSE /\ runs' = Append(old, new) /\ Component' = Page!Nothing
        /\ error' = IF path \in modules THEN Page!Nothing ELSE Page!Result(n + 1, "not listed")
        /\ UNCHANGED <<path, modules>> /\ n < MaxRuns
    BY <1>0, <1>4 DEF Page!loadComponent, n
  <2>2. \A r \in 1 .. n : [runs[r] EXCEPT !.cancelled = TRUE] \in Run
    BY <1>0 DEF Run
  <2>3. old = [r \in 1 .. n |-> [runs[r] EXCEPT !.cancelled = TRUE]]
    BY <1>0 DEF Page!Cancelled
  <2>4. old \in Seq(Run) /\ Len(old) = n
    BY <1>0, <2>2, <2>3
  <2>5. \A r \in 1 .. n : old[r].cancelled
    BY <1>0, <2>3 DEF Run
  <2>6. new \in Run /\ new.cancelled = FALSE /\ (path \in modules \/ new.load = "done")
    BY DEF Run, Page!Loads
  <2> HIDE DEF old, new
  <2>7. /\ runs' \in Seq(Run) /\ Len(runs') = n + 1 /\ runs'[n + 1] = new
        /\ \A r \in 1 .. n : runs'[r] = old[r]
    <3>1. /\ Append(old, new) \in Seq(Run) /\ Len(Append(old, new)) = Len(old) + 1
          /\ \A r \in 1 .. Len(old) : Append(old, new)[r] = old[r]
          /\ Append(old, new)[Len(old) + 1] = new
      BY <2>4, <2>6, AppendProperties
    <3>2. QED
      BY <2>1, <2>4, <3>1
  <2>8. \A r \in 1 .. n + 1 : r < n + 1 => runs'[r].cancelled
    BY <1>0, <2>5, <2>7
  <2>9. /\ error'.run \in 0 .. n + 1 /\ Component'.run = 0
        /\ error' # Page!Nothing => error'.run = n + 1
        /\ path \in modules => error' = Page!Nothing
    <3>1. n + 1 \in Nat /\ n + 1 \in 0 .. n + 1 /\ 0 \in 0 .. n + 1
      BY <1>0
    <3>2. CASE path \in modules
      BY <2>1, <3>1, <3>2, NothingIsOf
    <3>3. CASE path \notin modules
      <4>1. error' = Page!Result(n + 1, "not listed")
        BY <2>1, <3>3
      <4>2. QED
        BY <2>1, <3>1, <3>3, <4>1, ResultIsOf, NothingIsOf
    <3>4. QED
      BY <3>2, <3>3
  <2>10. \A r \in 1 .. n + 1 : runs'[r].cancelled \in BOOLEAN /\ runs'[r].load \in Page!Loads
    <3>1. \A r \in 1 .. n + 1 : runs'[r] \in Run
      BY <1>0, <2>7
    <3>2. QED
      BY <3>1 DEF Run
  <2>11. Page!PageTypeOK'
    <3>1. path' \in Files \union {Page!NoPath} /\ modules' \subseteq Files /\ due' \in BOOLEAN
      BY <2>1 DEF PageInv, Page!PageTypeOK
    <3>2. n + 1 <= MaxRuns
      <4>1. n \in Nat /\ n < MaxRuns
        BY <1>0, <2>1
      <4>2. QED
        BY <1>0, <4>1
    <3>3. \A x \in {Component', error'} : x.run \in 0 .. n + 1
      BY <1>0, <2>9
    <3>4. QED
      BY <2>7, <2>10, <3>1, <3>2, <3>3 DEF Page!PageTypeOK
  <2>12. QED
    <3>1. Component'.run \in Nat /\ error'.run \in Nat
      BY <1>0, <2>9
    <3>2. \A x \in {Component', error'} : x # Page!Nothing => x.run = Len(runs')
      BY <2>1, <2>7, <2>9
    <3>3. runs'[Len(runs')].load # "done" => Component' = Page!Nothing /\ error' = Page!Nothing
      BY <2>1, <2>6, <2>7, <2>9
    <3>4. QED
      BY <2>1, <2>7, <2>8, <2>11, <3>1, <3>2, <3>3 DEF PageInv
\* What the list of runs is once a load went on, or ended.
<1>5. ASSUME NEW r \in 1 .. n, NEW l \in Page!Loads, runs' = [runs EXCEPT ![r].load = l],
             UNCHANGED <<path, modules, due>>,
             Component'.run \in 0 .. n, error'.run \in 0 .. n,
             Component' = Page!Nothing \/ error' = Page!Nothing,
             \A x \in {Component', error'} : x # Page!Nothing => x.run = n,
             (IF r = n THEN l ELSE runs[n].load) # "done" =>
                 Component' = Page!Nothing /\ error' = Page!Nothing
      PROVE  PageInv'
  <2>1. /\ runs' \in Seq(Run) /\ Len(runs') = n
        /\ runs'[r].load = l /\ runs'[r].cancelled = runs[r].cancelled
        /\ \A s \in 1 .. n : s # r => runs'[s] = runs[s]
    BY <1>0, <1>5, LoadOf
  <2>2. \A s \in 1 .. n : runs'[s].cancelled = runs[s].cancelled
    BY <2>1
  <2>3. \A s \in 1 .. n : runs'[s].cancelled \in BOOLEAN /\ runs'[s].load \in Page!Loads
    <3>1. \A s \in 1 .. n : runs'[s] \in Run
      BY <2>1
    <3>2. QED
      BY <3>1 DEF Run
  <2>4. \A x \in {Component', error'} : x.run \in 0 .. n
    BY <1>5
  <2>5. Page!PageTypeOK'
    BY <1>5, <2>1, <2>3, <2>4 DEF PageInv, Page!PageTypeOK
  <2>6. \A s \in 1 .. n : s < n => runs'[s].cancelled
    BY <1>0, <2>2 DEF PageInv
  <2>7. n \in 1 .. n /\ runs'[n].load = IF r = n THEN l ELSE runs[n].load
    BY <1>0, <2>1
  <2>8. Component'.run \in Nat /\ error'.run \in Nat
    BY <1>0, <1>5
  <2>9. QED
    BY <1>5, <2>1, <2>5, <2>6, <2>7, <2>8 DEF PageInv
<1>6. ASSUME NEW r \in 1 .. MaxRuns, NEW exists \in BOOLEAN, Page!Fetch(r, exists)
      PROVE  PageInv'
  <2>1. /\ r \in 1 .. n /\ runs[r].load = "fetching"
        /\ runs' = [runs EXCEPT ![r].load = IF exists THEN "fetched" ELSE "missing"]
        /\ UNCHANGED <<path, modules, due, Component, error>>
    BY <1>0, <1>6 DEF Page!Fetch
  <2>2. (IF exists THEN "fetched" ELSE "missing") \in Page!Loads
    BY DEF Page!Loads
  <2>3. /\ Component'.run \in 0 .. n /\ error'.run \in 0 .. n
        /\ Component' = Page!Nothing \/ error' = Page!Nothing
        /\ \A x \in {Component', error'} : x # Page!Nothing => x.run = n
    BY <1>0, <2>1 DEF PageInv, Page!PageTypeOK
  <2>4. runs[n].load # "done" => Component' = Page!Nothing /\ error' = Page!Nothing
    BY <1>0, <2>1 DEF PageInv
  <2>5. (IF r = n THEN (IF exists THEN "fetched" ELSE "missing") ELSE runs[n].load) # "done" =>
            Component' = Page!Nothing /\ error' = Page!Nothing
    BY <2>1, <2>4
  <2>6. QED
    BY <1>5, <2>1, <2>2, <2>3, <2>5
<1>7. ASSUME NEW r \in 1 .. MaxRuns, Page!Settle(r)
      PROVE  PageInv'
  <2>1. /\ r \in 1 .. n /\ runs[r].load \in {"fetched", "missing"}
        /\ runs' = [runs EXCEPT ![r].load = "done"]
        /\ UNCHANGED <<path, modules, due>>
    BY <1>0, <1>7 DEF Page!Settle
  <2>2. "done" \in Page!Loads
    BY DEF Page!Loads
  <2>3. /\ Component.run \in 0 .. n /\ error.run \in 0 .. n
        /\ Component = Page!Nothing \/ error = Page!Nothing
        /\ \A x \in {Component, error} : x # Page!Nothing => x.run = n
        /\ runs[n].load # "done" => Component = Page!Nothing /\ error = Page!Nothing
    BY <1>0, <2>1 DEF PageInv, Page!PageTypeOK
  <2>4. CASE runs[r].cancelled /\ UNCHANGED <<Component, error>>
    BY <1>5, <2>1, <2>2, <2>3, <2>4
  <2>5. CASE ~runs[r].cancelled
    <3>1. r = n
      BY <1>0, <2>1, <2>5 DEF PageInv
    <3>2. Component = Page!Nothing /\ error = Page!Nothing
      BY <2>1, <2>3, <3>1
    <3>3. PICK what : \/ Component' = Page!Result(r, what) /\ UNCHANGED error
                      \/ error' = Page!Result(r, what) /\ UNCHANGED Component
      BY <1>7, <2>5 DEF Page!Settle
    <3>4. /\ Component'.run \in 0 .. n /\ error'.run \in 0 .. n
          /\ Component' = Page!Nothing \/ error' = Page!Nothing
          /\ \A x \in {Component', error'} : x # Page!Nothing => x.run = n
      <4>1. Page!Result(r, what).run = n /\ n \in 0 .. n /\ 0 \in 0 .. n
        BY <1>0, <2>1, <3>1, ResultIsOf
      <4>2. QED
        BY <3>2, <3>3, <4>1, NothingIsOf
    <3>5. QED
      BY <1>5, <2>1, <2>2, <3>1, <3>4
  <2>6. QED
    BY <1>7, <2>4, <2>5 DEF Page!Settle
<1>8. QED
  BY <1>1, <1>2, <1>3, <1>4, <1>6, <1>7

-----------------------------------------------------------------------------
(* The whole *)

IInv == PluginInv /\ PageInv /\ told \in BOOLEAN /\ blinked \subseteq Files

LEMMA Inductive ==
    ASSUME IInv, [Next]_vars
    PROVE  IInv'
<1>1. PluginInv'
  BY WholeStep, PluginInductive DEF IInv
<1>2. generated \subseteq Files
  BY MockupPreviewAssumption, PluginTypes DEF IInv, PluginInv, Plugin!PreviewPluginAssumption
<1>3. PageInv'
  BY <1>2, WholeStep, PageInductive DEF IInv
<1>4. unreported' \subseteq Files
  BY <1>1 DEF PluginInv, Plugin!PluginTypeOK
<1>5. told' \in BOOLEAN /\ blinked' \subseteq Files
  <2>1. CASE PluginDoes(Plugin!PluginStep)
    <3>1. (told /\ source' = source /\ phase' # "off") \in BOOLEAN
      BY DEF IInv
    <3>2. told' \in BOOLEAN
      BY <2>1, <3>1, Zenon DEF PluginDoes
    <3>3. blinked' \subseteq Files
      BY <1>4, <2>1 DEF PluginDoes, IInv
    <3>4. QED
      BY <3>2, <3>3
  <2>2. CASE ~PluginDoes(Plugin!PluginStep)
    BY <2>2 DEF Next, PageOnly, Update, OpenPage, Import, ImportRefused, links, vars, IInv
  <2>3. QED
    BY <2>1, <2>2
<1>6. QED
  BY <1>1, <1>3, <1>5 DEF IInv

LEMMA Initial ==
    ASSUME Init
    PROVE  IInv
<1>1. PluginInv
  BY PluginInit
<1>2. PageInv
  <2>1. /\ path = Page!NoPath /\ modules = {} /\ due = FALSE /\ runs = <<>>
        /\ Component = Page!Nothing /\ error = Page!Nothing
    BY DEF Init, Page!PageInit
  <2>2. due \in BOOLEAN /\ runs \in Seq(Run) /\ Len(runs) = 0 /\ MaxRuns \in Nat
    <3>1. runs \in Seq(Run) /\ Len(runs) = 0
      BY <2>1
    <3>2. MaxRuns \in Nat
      BY MockupPreviewAssumption DEF Page!PreviewRendererAssumption
    <3>3. QED
      BY <2>1, <3>1, <3>2
  <2>3. QED
    BY <2>1, <2>2, NothingIsOf DEF PageInv, Page!PageTypeOK
<1>3. told \in BOOLEAN /\ blinked \subseteq Files
  BY DEF Init
<1>4. QED
  BY <1>1, <1>2, <1>3 DEF IInv

\* PreviewPlugin: for any files, edits and crashes, and whatever the page asks for:
\* with nothing in progress the list is exactly what can be previewed, and a list
\* that is wrong is on its way to be corrected.
THEOREM ListIsCurrent == Spec => []ListPromise
<1>1. IInv => ListPromise
  <2> SUFFICES ASSUME IInv PROVE ListPromise
    OBVIOUS
  <2>1. TypeOK
    BY DEF IInv, PluginInv, PageInv, TypeOK
  <2>2. Plugin!WrongIsPending
    <3> SUFFICES ASSUME watching, NEW f \in Files \ unreported,
                        known \intersect {f} = disk \intersect {f}
                 PROVE  IF inFlight THEN Plugin!Superseded(f)
                        ELSE (f \in generated) = (f \in Plugin!Targets(disk))
      BY DEF Plugin!WrongIsPending
    <3>1. phase # "off"
      BY PluginTypes DEF IInv, PluginInv
    <3>2. QED
      BY <3>1 DEF IInv, PluginInv, Known, Right
  <2>3. Plugin!QuietMeansCurrent
    BY <2>2 DEF Plugin!QuietMeansCurrent, Plugin!WrongIsPending
  <2>4. QED
    BY <2>1, <2>2, <2>3 DEF ListPromise
<1>2. QED
  BY <1>1, Initial, Inductive, PTL DEF Spec

\* PreviewRenderer: however loads of earlier runs overtake each other, the page
\* never shows an answer but that of the latest run, nor hides it.
THEOREM PageShowsItsOwnRun == Spec => []Page!ShownIsCurrent
<1>1. IInv => Page!ShownIsCurrent
  BY DEF IInv, PageInv, Page!ShownIsCurrent
<1>2. QED
  BY <1>1, Initial, Inductive, PTL DEF Spec


=============================================================================
