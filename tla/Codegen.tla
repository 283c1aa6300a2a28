------------------------------ MODULE Codegen ------------------------------
(***************************************************************************)
(* `pnpm run codegen` (api-spec/package.json, orval.config.ts): orval      *)
(* makes the client's api.ts and the server's zod schemas from             *)
(* openapi.yaml, each project reading the file for itself, and the type    *)
(* check follows.  The specification may be edited at any moment.          *)
(*                                                                         *)
(* Orval is external: it cleans a project's output before it writes, goes  *)
(* on with the next project if one fails, and then exits with 1.  It names *)
(* the generated file after the specification's title.                     *)
(***************************************************************************)
EXTENDS Naturals

CONSTANTS
    MaxEdits,    \* bound on the versions of the specification
    MaxRounds    \* bound on the runs of codegen

CodegenAssumption == {MaxEdits, MaxRounds} \subseteq Nat

VARIABLES
    spec,       \* openapi.yaml: its version, its title, and is it in order?
    generated,  \* per project: the version and file name of its output, or Cleaned
    step,       \* of codegen
    failed,     \* has a project of this run failed?
    began,      \* history: the specification when this run began
    spoiled,    \* history: was a specification read that was not in order?
    runs        \* bounded counter

codegenVars == <<spec, generated, step, failed, began, spoiled, runs>>

Projects == {"api-client-react", "zod"}

Titles == {"Api", "Dirt32"}

Cleaned == [version |-> 0, file |-> "none"]

Steps == {"idle", "api-client-react", "zod", "typecheck", "succeeded", "failed"}

CodegenTypeOK ==
    /\ spec.version \in 1 .. MaxEdits + 1 /\ began \in 0 .. MaxEdits + 1
    /\ spec.title \in Titles /\ {spec.sound, failed, spoiled} \subseteq BOOLEAN
    /\ DOMAIN generated = Projects
    /\ \A p \in Projects : generated[p].version \in 0 .. spec.version
    /\ step \in Steps /\ runs \in 0 .. MaxRounds

CodegenInit ==
    /\ spec \in [version : {1}, title : Titles, sound : {TRUE}]
    /\ generated = [p \in Projects |-> [version |-> 1, file |-> "Api"]]
    /\ step = "idle" /\ failed = FALSE /\ spoiled = FALSE
    /\ began = 0 /\ runs = 0

EditSpec ==
    /\ spec.version <= MaxEdits
    /\ spec' \in [version : {spec.version + 1}, title : Titles, sound : BOOLEAN]
    /\ UNCHANGED <<generated, step, failed, began, spoiled, runs>>

codegen ==
    /\ step \in {"idle", "succeeded", "failed"}
    /\ runs < MaxRounds
    /\ runs' = runs + 1
    /\ step' = "api-client-react"
    /\ failed' = FALSE /\ spoiled' = FALSE
    /\ began' = spec.version
    /\ UNCHANGED <<spec, generated>>

\* Deviation: the title is left as it is.
titleTransformer_same(title) == title

titleTransformer(title) == "Api"

\* A project: its output is that of the specification of this moment.  It fails
\* on one that is not in order, before or after it has cleaned.
Generate(project, next) ==
    /\ step = project
    /\ IF spec.sound
       THEN /\ generated' = [generated EXCEPT ![project] =
                   [version |-> spec.version, file |-> titleTransformer(spec.title)]]
            /\ UNCHANGED <<failed, spoiled>>
       ELSE /\ generated' \in {generated, [generated EXCEPT ![project] = Cleaned]}
            /\ failed' = TRUE /\ spoiled' = TRUE
    /\ step' = next
    /\ UNCHANGED <<spec, began, runs>>

api_client_react == Generate("api-client-react", "zod")

zod == Generate("zod", "typecheck")

\* `&& pnpm -w run typecheck:libs`: index.ts exports from "./generated/api".
typecheck ==
    /\ step = "typecheck"
    /\ step' = IF ~failed /\ \A p \in Projects : generated[p].file = "Api"
               THEN "succeeded" ELSE "failed"
    /\ UNCHANGED <<spec, generated, failed, began, spoiled, runs>>

CodegenStep == EditSpec \/ codegen \/ api_client_react \/ zod \/ typecheck

-----------------------------------------------------------------------------

\* A codegen that succeeds leaves client and server with code no older than the
\* specification it began with, and of the same version if that has not been
\* edited since; and it fails only over a specification that is not in order,
\* whatever its title.  (An edit between the two projects makes client and
\* server differ although codegen succeeds; one that fails may have replaced,
\* or removed, the code of one of them.)
CodegenExplained ==
    /\ step = "succeeded" =>
         /\ \A p \in Projects : generated[p].version >= began
         /\ spec.version = began => \A p \in Projects : generated[p].version = began
    /\ step = "failed" => spoiled

=============================================================================
