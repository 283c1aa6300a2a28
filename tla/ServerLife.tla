----------------------------- MODULE ServerLife -----------------------------
(***************************************************************************)
(* Building and starting the API server: build.mjs removes dist and        *)
(* bundles the sources into it, one awaited call after the other, and      *)
(* `pnpm run start` starts what is in dist, by hand or, in `pnpm run dev`, *)
(* after a build that succeeded; index.ts checks PORT and listens.         *)
(* Sources change while a build runs; esbuild reads them at some moment.   *)
(* One build runs at a time; it may fail, or be killed, at each await.     *)
(***************************************************************************)
EXTENDS Naturals

CONSTANTS
    MaxEdits,   \* bound on the versions of the sources
    MaxRounds   \* bound on the builds

ServerLifeAssumption == {MaxEdits, MaxRounds} \subseteq Nat

VARIABLES
    sources,    \* the version of the sources
    broken,     \* do they fail to compile?
    dist,       \* the version that is bundled; NoBundle: there is no dist
    builder,    \* "idle", or which await the build is at, or how it ended
    wanted,     \* history: the sources' version when dist was last removed
    server,     \* "down", "starting" or "listening"
    running,    \* the version the server runs
    portTaken,  \* does another process listen on PORT?
    rounds      \* bounded counter

lifeVars == <<sources, broken, dist, builder, wanted, server, running, portTaken, rounds>>

NoBundle == 0

LifeTypeOK ==
    /\ {sources, wanted} \subseteq 0 .. MaxEdits + 1
    /\ {dist, running} \subseteq 0 .. MaxEdits + 1
    /\ {broken, portTaken} \subseteq BOOLEAN
    /\ builder \in {"idle", "removing", "cleaned", "built", "failed"}
    /\ server \in {"down", "starting", "listening"}
    /\ rounds \in 0 .. MaxRounds
    /\ server # "down" => running # NoBundle

\* A bundle of an earlier day may lie there.
LifeInit ==
    /\ sources = 1 /\ broken = FALSE
    /\ dist \in {NoBundle, 1}
    /\ builder = "idle" /\ wanted = 0
    /\ server = "down" /\ running = NoBundle
    /\ portTaken \in BOOLEAN
    /\ rounds = 0

EditSources ==
    /\ sources <= MaxEdits
    /\ sources' = sources + 1
    /\ broken' \in BOOLEAN
    /\ UNCHANGED <<dist, builder, wanted, server, running, portTaken, rounds>>

\* Deviation: the old bundle stays until the new one is written.
Removed_keep(old) == old

\* rm(distDir, { recursive, force })
Removed(old) == NoBundle

\* The build begins, and awaits the removal.
buildAll ==
    /\ builder \notin {"removing", "cleaned"}
    /\ rounds < MaxRounds
    /\ rounds' = rounds + 1
    /\ builder' = "removing"
    /\ UNCHANGED <<sources, broken, dist, wanted, server, running, portTaken>>

\* rm resolves; or it rejects, or the build is killed, and the bundle may be
\* among what is left.
RemoveDist ==
    /\ builder = "removing"
    /\ \/ builder' = "cleaned" /\ dist' = Removed(dist) /\ wanted' = sources
       \/ builder' = "failed" /\ dist' \in {dist, NoBundle} /\ UNCHANGED wanted
    /\ UNCHANGED <<sources, broken, server, running, portTaken, rounds>>

\* The bundle is written; or the build rejects and exits with 1, or is killed.
esbuild ==
    /\ builder = "cleaned"
    /\ \/ ~broken /\ builder' = "built" /\ dist' = sources
       \/ builder' = "failed" /\ UNCHANGED dist
    /\ UNCHANGED <<sources, broken, wanted, server, running, portTaken, rounds>>

\* `pnpm run start`, by itself or after a build: node finds the bundle, or not.
Start ==
    /\ server = "down"
    /\ dist # NoBundle
    /\ server' = "starting"
    /\ running' = dist
    /\ UNCHANGED <<sources, broken, dist, builder, wanted, portTaken, rounds>>

\* index.ts: no PORT, or one that is no positive number, throws.
ValidPort(port) == port \in Nat \ {0}

\* listen() succeeds, or reports an error and the process exits with 1.
Listen ==
    /\ server = "starting"
    /\ \E port \in {0, 8080} :
        IF ValidPort(port) /\ ~portTaken THEN server' = "listening" /\ UNCHANGED running
        ELSE server' = "down" /\ running' = NoBundle
    /\ UNCHANGED <<sources, broken, dist, builder, wanted, portTaken, rounds>>

Stop ==
    /\ server = "listening"
    /\ server' = "down"
    /\ running' = NoBundle
    /\ UNCHANGED <<sources, broken, dist, builder, wanted, portTaken, rounds>>

LifeStep == EditSources \/ buildAll \/ RemoveDist \/ esbuild \/ Start \/ Listen \/ Stop

-----------------------------------------------------------------------------

\* A server that starts runs nothing older than the sources were when a build
\* last removed dist: what esbuild does, rejects or is killed in, and what is
\* edited meanwhile, never brings an older bundle back.  While rm is awaited,
\* and after one that failed, the bundle before may still be started.
StartsWhatWasBuilt ==
    server = "down" /\ server' = "starting" => running' >= wanted

=============================================================================
