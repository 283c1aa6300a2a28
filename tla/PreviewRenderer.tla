-------------------------- MODULE PreviewRenderer --------------------------
(***************************************************************************)
(* The preview page of the mockup sandbox (App.tsx): PreviewRenderer loads *)
(* the module of the component named in the URL and shows it, or an error. *)
(* A change of the generated list (hot reload) runs its effect again while *)
(* loads of earlier runs are still under way.                              *)
(*                                                                         *)
(* React is external: it commits a render, runs the cleanup of the old     *)
(* effect and the new effect in one later step, and batches state changes. *)
(***************************************************************************)
EXTENDS Naturals, Sequences

CONSTANTS
    Files,      \* the components a URL can name
    Exports,    \* what the module of each file exports, in order:
                \* a sequence of [name, fn], fn telling functions from the rest
    MaxRuns     \* bound: how often the effect runs

PreviewRendererAssumption ==
    /\ MaxRuns \in Nat \ {0}
    /\ \A f \in Files : \A i \in 1 .. Len(Exports[f]) : Exports[f][i].fn \in BOOLEAN

VARIABLES
    path,       \* the component the page's URL names; NoPath: the gallery
    modules,    \* the prop of the last committed render: the files listed
    due,        \* has the effect of that render yet to run?
    runs,       \* one record per run of the effect: cancelled, and its load
    Component,  \* state: what is rendered, or Nothing
    error       \* state: the message, or Nothing

pageVars == <<path, modules, due, runs, Component, error>>

NoPath == "gallery"

Nothing == [run |-> 0, what |-> "none"]

\* A result carries the run that set it; the page does not see the tag.
Result(r, what) == [run |-> r, what |-> what]

Loads == {"none", "fetching", "fetched", "missing", "done"}

PageTypeOK ==
    /\ path \in Files \union {NoPath}
    /\ modules \subseteq Files
    /\ due \in BOOLEAN
    /\ Len(runs) <= MaxRuns
    /\ \A r \in 1 .. Len(runs) : runs[r].cancelled \in BOOLEAN /\ runs[r].load \in Loads
    /\ \A x \in {Component, error} : x.run \in 0 .. Len(runs)

\* _resolveComponent: the export that is shown, by the order of preference;
\* only the last alternative looks at whether it is a function.
_resolveComponent(mod, name) ==
    LET Named(n) == \E i \in 1 .. Len(mod) : mod[i].name = n
        Functions == {i \in 1 .. Len(mod) : mod[i].fn}
        Preferred == {n \in {"default", "Preview", name} : Named(n)}
    IN CASE "default" \in Preferred -> "default"
         [] "Preview" \in Preferred -> "Preview"
         [] name \in Preferred -> name
         [] Preferred = {} /\ Functions # {} ->
                mod[CHOOSE i \in Functions : \A j \in Functions : j <= i].name
         [] OTHER -> "none"

PageInit ==
    /\ path = NoPath
    /\ modules = {}
    /\ due = FALSE
    /\ runs = <<>>
    /\ Component = Nothing
    /\ error = Nothing

-----------------------------------------------------------------------------

\* A page is opened at /preview/<f>: App mounts PreviewRenderer.
Open(f, listed) ==
    /\ path = NoPath
    /\ path' = f
    /\ modules' = listed
    /\ due' = TRUE
    /\ UNCHANGED <<runs, Component, error>>

\* Deviation: the effect does not depend on the list.
HotReload_nodeps(listed) ==
    /\ path # NoPath
    /\ Len(runs) < MaxRuns
    /\ modules' = listed
    /\ UNCHANGED <<path, due, runs, Component, error>>

\* Hot reload has replaced the generated module: App renders again, and its
\* list is another object also if it names the same files.
HotReload(listed) ==
    /\ path # NoPath
    /\ Len(runs) < MaxRuns
    /\ modules' = listed
    /\ due' = TRUE
    /\ UNCHANGED <<path, runs, Component, error>>

\* The previous run's cleanup, the two resets, and loadComponent up to its
\* await (which a missing loader never reaches).
Cancelled(old) == [r \in DOMAIN old |-> [old[r] EXCEPT !.cancelled = TRUE]]

loadComponent ==
    /\ due
    /\ Len(runs) < MaxRuns
    /\ due' = FALSE
    /\ LET r == Len(runs) + 1 IN
       /\ runs' = Append(Cancelled(runs),
                         [cancelled |-> FALSE,
                          load |-> IF path \in modules THEN "fetching" ELSE "done"])
       /\ Component' = Nothing
       /\ error' = IF path \in modules THEN Nothing ELSE Result(r, "not listed")
    /\ UNCHANGED <<path, modules>>

\* The browser asks the server for the module; it exists, or not.
Fetch(r, exists) ==
    /\ r \in DOMAIN runs
    /\ runs[r].load = "fetching"
    /\ runs' = [runs EXCEPT ![r].load = IF exists THEN "fetched" ELSE "missing"]
    /\ UNCHANGED <<path, modules, due, Component, error>>

\* The await in loadComponent is over: cancelled runs change nothing.
Settle(r) ==
    /\ r \in DOMAIN runs
    /\ runs[r].load \in {"fetched", "missing"}
    /\ runs' = [runs EXCEPT ![r].load = "done"]
    /\ LET comp == _resolveComponent(Exports[path], path)
       IN \/ runs[r].cancelled /\ UNCHANGED <<Component, error>>
          \/ /\ ~runs[r].cancelled
             /\ runs[r].load = "fetched" /\ comp # "none"
             /\ Component' = Result(r, comp)
             /\ UNCHANGED error
          \/ /\ ~runs[r].cancelled
             /\ ~(runs[r].load = "fetched" /\ comp # "none")
             /\ error' = Result(r, IF runs[r].load = "fetched" THEN "no export" ELSE "failed")
             /\ UNCHANGED Component
    /\ UNCHANGED <<path, modules, due>>

\* What the user sees: an error hides the component.
Rendered == IF error # Nothing THEN error ELSE Component

-----------------------------------------------------------------------------

\* Once the effect of the last render has run, what the page shows was found
\* by that run: the answer of an earlier load, however late, never replaces or
\* hides it, and a component never lies hidden under an error.
ShownIsCurrent ==
    ~due => /\ Component = Nothing \/ error = Nothing
            /\ \A x \in {Component, error} : x # Nothing => x.run = Len(runs)

=============================================================================
