----------------------------- MODULE EventFeed -----------------------------
(***************************************************************************)
(* The live feed of the gateway's web page: EventFeed (web.py) keeps the   *)
(* last events in a ring, GET /gw/events answers those after `since`, and  *)
(* the page's tick (static/index.html) asks every three seconds with the   *)
(* time of the last event it has seen.                                     *)
(*                                                                         *)
(* Ticks overlap when an answer is slow, and their answers may come in any *)
(* order.  time.time() is a counter that every push and every reading of   *)
(* the clock advances: no two of them see the same time, and the system's  *)
(* clock is not set back.                                                  *)
(***************************************************************************)
EXTENDS Naturals, FiniteSets, FiniteSetsExt, Sequences, SequencesExt

CONSTANTS
    Cap,         \* the deque's maxlen
    MaxTicks,    \* bound: how often the page asks
    MaxPushes    \* bound: how many events are pushed

EventFeedAssumption ==
    /\ Cap \in Nat \ {0}
    /\ MaxTicks \in Nat
    /\ MaxPushes \in Nat

VARIABLES
    clock,
    buf,       \* the ring: the times of the events in it, which name them
    pushed,    \* history: the times of all events
    polls,     \* per tick: where its request is, `since`, its answer
    shown,     \* the events the page has shown
    lastEvt,   \* the page's lastEvt
    unseen     \* history: events that the page cannot hear of any more

feedVars == <<clock, buf, pushed, polls, shown, lastEvt, unseen>>

Ticks == 1 .. MaxTicks

Idle == [at |-> "idle", since |-> 0, events |-> {}, now |-> 0]

FeedTypeOK ==
    /\ clock \in Nat /\ lastEvt \in 0 .. clock
    /\ Len(buf) <= Cap
    /\ ToSet(buf) \subseteq pushed /\ pushed \subseteq 1 .. clock
    /\ shown \subseteq pushed /\ unseen \subseteq pushed
    /\ \A t \in Ticks : polls[t].at \in {"idle", "asked", "read", "answered", "done"}

FeedInit ==
    /\ clock = 0 /\ buf = <<>> /\ pushed = {}
    /\ polls = [t \in Ticks |-> Idle]
    /\ shown = {} /\ lastEvt = 0 /\ unseen = {}

Keep(s) == SubSeq(s, Len(s) - Cap + 1, Len(s))

\* push: a full deque lets go of its oldest event.
push ==
    /\ Cardinality(pushed) < MaxPushes
    /\ clock' = clock + 1
    /\ pushed' = pushed \union {clock'}
    /\ LET s == Append(buf, clock') IN
       /\ buf' = IF Len(s) > Cap THEN Keep(s) ELSE s
       /\ unseen' = unseen \union (ToSet(s) \ ToSet(buf'))
    /\ UNCHANGED <<polls, shown, lastEvt>>

\* setInterval(tick), whether or not the tick before has ended.
Ask(t) ==
    /\ polls[t].at = "idle" /\ \A before \in 1 .. t - 1 : polls[before].at # "idle"
    /\ polls' = [polls EXCEPT ![t].at = "asked", ![t].since = lastEvt]
    /\ UNCHANGED <<clock, buf, pushed, shown, lastEvt, unseen>>

since(s) == {e \in ToSet(buf) : e > s}

ReadEvents(t) ==
    /\ polls[t].at = "asked"
    /\ polls' = [polls EXCEPT ![t].at = "read", ![t].events = since(polls[t].since)]
    /\ UNCHANGED <<clock, buf, pushed, shown, lastEvt, unseen>>

\* `now` is read after the lock of the ring was given back.
Answer(t) ==
    /\ polls[t].at = "read"
    /\ clock' = clock + 1
    /\ polls' = [polls EXCEPT ![t].at = "answered", ![t].now = clock']
    /\ UNCHANGED <<buf, pushed, shown, lastEvt, unseen>>

\* Deviation: the page goes on from the answer's `now`.
NextSince_now(p) == p.now

\* lastEvt after an answer: the latest event known, or its `now` if none is.
NextSince(p) ==
    LET latest == Max({lastEvt} \union p.events)
    IN IF latest = 0 THEN p.now ELSE latest

\* An event pushed before the first `now` that its answer does not carry is
\* one the page will not ask for.
Show(t) ==
    LET p == polls[t] IN
    /\ p.at = "answered"
    /\ polls' = [polls EXCEPT ![t].at = "done"]
    /\ shown' = shown \union p.events
    /\ lastEvt' = NextSince(p)
    /\ unseen' = IF lastEvt = 0 /\ p.events = {}
                 THEN unseen \union {e \in pushed : e < p.now} ELSE unseen
    /\ UNCHANGED <<clock, buf, pushed>>

Fail(t) ==
    /\ polls[t].at \in {"asked", "answered"}
    /\ polls' = [polls EXCEPT ![t].at = "done"]
    /\ UNCHANGED <<clock, buf, pushed, shown, lastEvt, unseen>>

FeedNext == push \/ \E t \in Ticks : Ask(t) \/ ReadEvents(t) \/ Answer(t) \/ Show(t) \/ Fail(t)

-----------------------------------------------------------------------------

\* However ticks overlap, fail or are overtaken, the page never goes past an
\* event without having shown it, but for events that the ring let go of and
\* those before the `now` of a first, empty answer.  (An event may be shown
\* twice, as two overlapping ticks ask with the same `since`; how often is not
\* counted here.)
NothingSkipped ==
    \A e \in pushed : e <= lastEvt => e \in shown \union unseen

=============================================================================
