------------------------------- MODULE Toasts -------------------------------
(***************************************************************************)
(* The toasts of the mockup sandbox (use-toast.ts, toaster.tsx): a store   *)
(* outside React with a list of listeners, removal timers, and components  *)
(* that mirror it in their own state.                                      *)
(*                                                                         *)
(* React is external.  A component's first render copies the store; its    *)
(* effect, a step later, subscribes it.  When its state changes the effect *)
(* runs again: the cleanups of all such components, then their new         *)
(* subscriptions one after the other, and in between only the effects of   *)
(* other components run (which may call toast).                            *)
(***************************************************************************)
EXTENDS Naturals, Sequences

CONSTANTS
    Viewers,    \* components that call useToast
    TOAST_LIMIT,
    MaxToasts   \* bound on the number of toasts

ToastsAssumption ==
    /\ TOAST_LIMIT \in Nat \ {0}
    /\ MaxToasts \in Nat

VARIABLES
    count,          \* of genId
    memoryState,    \* the toasts, newest first: [id, open]
    toastTimeouts,  \* the ids with a timer
    listeners,      \* per viewer: how often its setState is in the array
    mounted,        \* per viewer: "no", "rendered", "subscribed" or "between"
    state,          \* per viewer: what it shows
    due,            \* the subscribed viewers whose effect has to run again
    dismissed,      \* history: the ids somebody dismissed while they were shown
    missed          \* history: the mounted viewers that were not subscribed
                    \* when the last dispatch came
toastVars == <<count, memoryState, toastTimeouts, listeners, mounted, state, due,
               dismissed, missed>>

store == <<count, memoryState, toastTimeouts, dismissed>>

Ids(toasts) == {toasts[i].id : i \in DOMAIN toasts}

ToastTypeOK ==
    /\ count \in 0 .. MaxToasts
    /\ Len(memoryState) <= TOAST_LIMIT
    /\ Ids(memoryState) \union toastTimeouts \union dismissed \subseteq 1 .. count
    /\ \A i, j \in DOMAIN memoryState : memoryState[i].id = memoryState[j].id => i = j
    /\ listeners \in [Viewers -> Nat]
    /\ mounted \in [Viewers -> {"no", "rendered", "subscribed", "between"}]
    /\ due \union missed \subseteq Viewers

ToastInit ==
    /\ count = 0
    /\ memoryState = <<>>
    /\ toastTimeouts = {}
    /\ listeners = [v \in Viewers |-> 0]
    /\ mounted = [v \in Viewers |-> "no"]
    /\ state = [v \in Viewers |-> <<>>]
    /\ due = {}
    /\ dismissed = {}
    /\ missed = {}

-----------------------------------------------------------------------------
(* The store                                                               *)

\* In which order makes no difference.
Told == {v \in Viewers : listeners[v] > 0}

\* The listeners are told the new state, an object of its own also if it says
\* the same: each of them renders and has its effect run again.
dispatch(new) ==
    /\ memoryState' = new
    /\ state' = [v \in Viewers |-> IF v \in Told THEN new ELSE state[v]]
    /\ due' = due \union Told
    /\ missed' = {v \in Viewers : mounted[v] \in {"rendered", "between"} /\ new # state[v]}
    /\ UNCHANGED <<listeners, mounted>>

\* What falls off the end of the list is gone without a timer.
Trimmed(toasts) ==
    SubSeq(toasts, 1, IF Len(toasts) < TOAST_LIMIT THEN Len(toasts) ELSE TOAST_LIMIT)

\* ADD_TOAST
toast ==
    /\ count < MaxToasts
    /\ count' = count + 1
    /\ dispatch(Trimmed(<<[id |-> count', open |-> TRUE]>> \o memoryState))
    /\ UNCHANGED <<toastTimeouts, dismissed>>

\* Deviation: an update of a toast that is no longer there brings it back.
Updated_upsert(toasts, id, open) ==
    IF id \in Ids(toasts)
    THEN [i \in DOMAIN toasts |->
            IF toasts[i].id = id THEN [toasts[i] EXCEPT !.open = open] ELSE toasts[i]]
    ELSE <<[id |-> id, open |-> open]>>

\* UPDATE_TOAST, through a handle kept since toast(); open may be among what
\* is updated.
Updated(toasts, id, open) ==
    [i \in DOMAIN toasts |->
        IF toasts[i].id = id THEN [toasts[i] EXCEPT !.open = open] ELSE toasts[i]]

update(id, open) ==
    /\ dispatch(Updated(memoryState, id, open))
    /\ UNCHANGED <<count, toastTimeouts, dismissed>>

\* A toast has one timer at most, and dismissing it again does not restart it.
addToRemoveQueue(ids) == toastTimeouts' = toastTimeouts \union ids

\* DISMISS_TOAST for one id (a handle, the close button, a swipe or Radix'
\* own time-out through onOpenChange), or for all.
dismiss(ids) ==
    /\ addToRemoveQueue(ids)
    /\ dismissed' = dismissed \union (ids \intersect Ids(memoryState))
    /\ dispatch([i \in DOMAIN memoryState |->
            IF memoryState[i].id \in ids THEN [memoryState[i] EXCEPT !.open = FALSE]
                                         ELSE memoryState[i]])
    /\ UNCHANGED count

\* React is running effects.
Flushing == \E v \in Viewers : mounted[v] = "between"

\* REMOVE_TOAST: kept[i] is what filter keeps of the first i toasts.
Removed(toasts, id) ==
    LET kept[i \in 0 .. Len(toasts)] ==
          IF i = 0 THEN <<>>
          ELSE IF toasts[i].id # id THEN Append(kept[i - 1], toasts[i])
          ELSE kept[i - 1]
    IN kept[Len(toasts)]

\* The timer's callback.
Expire(id) ==
    /\ id \in toastTimeouts
    /\ ~Flushing
    /\ toastTimeouts' = toastTimeouts \ {id}
    /\ dispatch(Removed(memoryState, id))
    /\ UNCHANGED <<count, dismissed>>

-----------------------------------------------------------------------------
(* useToast                                                                *)

Mount(v) ==
    /\ ~Flushing
    /\ mounted[v] = "no"
    /\ mounted' = [mounted EXCEPT ![v] = "rendered"]
    /\ state' = [state EXCEPT ![v] = memoryState]
    /\ UNCHANGED <<store, listeners, due, missed>>

Subscribe(v) ==
    /\ mounted[v] = "between" \/ (mounted[v] = "rendered" /\ ~Flushing)
    /\ mounted' = [mounted EXCEPT ![v] = "subscribed"]
    /\ listeners' = [listeners EXCEPT ![v] = @ + 1]
    /\ UNCHANGED <<store, state, due, missed>>

\* indexOf, and splice if there is an index.
Without(gone) ==
    [v \in Viewers |-> IF v \in gone /\ listeners[v] > 0 THEN listeners[v] - 1 ELSE listeners[v]]

\* The cleanups of the components whose state has changed.
Cleanup ==
    /\ due # {}
    /\ ~Flushing
    /\ due' = {}
    /\ mounted' = [v \in Viewers |-> IF v \in due THEN "between" ELSE mounted[v]]
    /\ listeners' = Without(due)
    /\ UNCHANGED <<store, state, missed>>

Unmount(v) ==
    /\ ~Flushing
    /\ mounted[v] = "subscribed"
    /\ mounted' = [mounted EXCEPT ![v] = "no"]
    /\ listeners' = Without({v})
    /\ state' = [state EXCEPT ![v] = <<>>]
    /\ due' = due \ {v}
    /\ missed' = missed \ {v}
    /\ UNCHANGED store

ViewerStep == Cleanup \/ \E v \in Viewers : Mount(v) \/ Subscribe(v) \/ Unmount(v)

ToastStep ==
    \/ toast
    \/ \E id \in 1 .. count, open \in BOOLEAN : update(id, open)
    \/ \E id \in 1 .. count : dismiss({id}) \/ Expire(id)
    \/ dismiss(Ids(memoryState))
    \/ ViewerStep

-----------------------------------------------------------------------------

\* A toast that was removed or pushed out does not come back, whatever its
\* handle, its close button or its timer still does to it.
GoneForGood ==
    \A id \in 1 .. count : id \notin Ids(memoryState) => id \notin Ids(memoryState')

\* Exactly the mounted components listen, each once, through every order of
\* renders, effects and dispatches: no update is shown twice or sent to a
\* component that is gone.
ListenersAreMounted ==
    \A v \in Viewers :
        listeners[v] = IF mounted[v] = "subscribed" THEN 1 ELSE 0

\* Every mounted component shows the store, except for one that missed the last
\* dispatch because it came before its subscription or in between two.
ViewIsCurrent ==
    \A v \in Viewers : mounted[v] # "no" /\ v \notin missed => state[v] = memoryState

\* A toast that was dismissed on the screen is gone some day, also if it was
\* updated, or reopened, since.
DismissedGoes ==
    \A id \in 1 .. MaxToasts : (id \in dismissed) ~> (id \notin Ids(memoryState))

=============================================================================
