------------------------------ MODULE Carousel ------------------------------
(***************************************************************************)
(* The carousel of the component library (carousel.tsx) around Embla,      *)
(* which is external: an api object that knows the slides as of its last   *)
(* (re)initialisation and emits "select" and "reInit".  The component      *)
(* copies what the api says into the state its buttons are disabled by.    *)
(***************************************************************************)
EXTENDS Naturals

CONSTANTS
    MaxSlides,   \* bound on the number of slides
    MaxApis      \* bound: how often the viewport is mounted

CarouselAssumption == {MaxSlides, MaxApis} \subseteq Nat

VARIABLES
    loop,        \* opts.loop
    optsAxis,    \* opts.axis, or "absent"
    orientation, \* the property, or "absent"
    slides,      \* the slides in the page
    api,         \* which api there is; 0: none yet
    known,       \* the slides the api knows
    selected,    \* its selected slide, from 0
    subscribed,  \* the events onSelect hears, with the api they come from
    given,       \* the api setApi was called with
    canScrollPrev,
    canScrollNext

carouselVars == <<loop, optsAxis, orientation, slides, api, known, selected, subscribed,
                  given, canScrollPrev, canScrollNext>>

opts == <<loop, optsAxis, orientation>>

buttons == <<canScrollPrev, canScrollNext>>

embla == <<opts, slides, api, known, selected>>

CarouselTypeOK ==
    /\ slides \in 1 .. MaxSlides /\ known \in 1 .. MaxSlides
    /\ {api, given} \subseteq 0 .. MaxApis
    /\ selected < known
    /\ subscribed \subseteq {"select", "reInit"} \X (1 .. MaxApis)
    /\ {loop, canScrollPrev, canScrollNext} \subseteq BOOLEAN
    /\ optsAxis \in {"x", "y", "absent"}
    /\ orientation \in {"horizontal", "vertical", "absent"}

\* External: what the api answers.
CanPrev(n, s) == IF loop THEN n > 1 ELSE s > 0

CanNext(n, s) == IF loop THEN n > 1 ELSE s < n - 1

CarouselInit ==
    /\ loop \in BOOLEAN
    /\ optsAxis \in {"x", "y", "absent"}
    /\ orientation \in {"horizontal", "vertical", "absent"}
    /\ slides \in 1 .. MaxSlides
    /\ known = slides
    /\ api = 0 /\ given = 0 /\ selected = 0
    /\ subscribed = {}
    /\ canScrollPrev = FALSE /\ canScrollNext = FALSE

\* The property, which is horizontal by default.
Orientation == IF orientation = "absent" THEN "horizontal" ELSE orientation

\* Embla scrolls as the property says: axis is set after the options are spread.
EmblaAxis == IF Orientation = "horizontal" THEN "x" ELSE "y"

OptsOrientation == IF optsAxis = "y" THEN "vertical" ELSE "horizontal"

\* What the context hands down: the property, or, were it empty, what opts.axis
\* says, although Embla would then scroll along y.
ContextOrientation == IF Orientation # "" THEN Orientation ELSE OptsOrientation

\* CarouselContent and CarouselItem: slides side by side, or one below another.
Layout == IF ContextOrientation = "horizontal" THEN "row" ELSE "column"

\* The buttons' state for an api that knows n slides and has s selected.
onSelect(n, s) ==
    /\ canScrollPrev' = CanPrev(n, s)
    /\ canScrollNext' = CanNext(n, s)

\* The api emits an event.
Emit(event, n, s) ==
    IF <<event, api>> \in subscribed THEN onSelect(n, s)
    ELSE UNCHANGED buttons

\* Embla attaches to a viewport, the first or another one; the api before it is
\* destroyed and says nothing any more.
Attach ==
    /\ api < MaxApis
    /\ api' = api + 1
    /\ known' = slides
    /\ selected' = 0
    /\ UNCHANGED <<opts, slides, subscribed, given, buttons>>

\* What the effect leaves behind of the last api: "reInit" is never unsubscribed.
Unsubscribed == subscribed \ {<<"select", a>> : a \in 1 .. MaxApis}

\* Deviation: the effect does not listen to re-initialisations.
Subscriptions_select(a) == {<<"select", a>>}

Subscriptions(a) == {<<"reInit", a>>, <<"select", a>>}

\* The two effects: hand the api out, look at it and subscribe.
Effects ==
    /\ api # given
    /\ given' = api
    /\ onSelect(known, selected)
    /\ subscribed' = Unsubscribed \union Subscriptions(api)
    /\ UNCHANGED embla

\* The parent renders another number of slides; Embla's observer follows.
SetSlides(n) ==
    /\ n # slides
    /\ slides' = n
    /\ UNCHANGED <<opts, api, known, selected, subscribed, given, buttons>>

ReInit ==
    /\ api # 0
    /\ known # slides
    /\ known' = slides
    /\ selected' = IF selected < slides THEN selected ELSE slides - 1
    /\ Emit("reInit", known', selected')
    /\ UNCHANGED <<opts, slides, api, subscribed, given>>

Select(s) ==
    /\ selected' = s
    /\ Emit("select", known, s)
    /\ UNCHANGED <<opts, slides, api, known, subscribed, given>>

scrollPrev ==
    /\ api # 0 /\ CanPrev(known, selected)
    /\ Select(IF selected = 0 THEN known - 1 ELSE selected - 1)

scrollNext ==
    /\ api # 0 /\ CanNext(known, selected)
    /\ Select(IF selected = known - 1 THEN 0 ELSE selected + 1)

\* A click on CarouselPrevious; the arrow key calls scrollPrev whatever the
\* button looks like.
CarouselPrevious == canScrollPrev /\ scrollPrev

CarouselNext == canScrollNext /\ scrollNext

handleKeyDown == scrollPrev \/ scrollNext

CarouselStep ==
    \/ Attach \/ Effects \/ ReInit
    \/ CarouselPrevious \/ CarouselNext \/ handleKeyDown
    \/ \E n \in 1 .. MaxSlides : SetSlides(n)

-----------------------------------------------------------------------------

\* Once the effects of the last api have run and Embla has seen the slides, the
\* buttons say what there is: each is enabled exactly if there is a slide in its
\* direction, so that every slide can be reached by clicks and no click is lost.
ButtonsTellTheTruth ==
    given = api /\ api # 0 /\ known = slides =>
        /\ canScrollPrev = CanPrev(slides, selected)
        /\ canScrollNext = CanNext(slides, selected)

\* The slides lie along the axis that Embla scrolls, although the context falls
\* back on opts.axis and Embla's own option does not: the property's default
\* keeps the fallback from being reached.
SlidesFollowAxis == (Layout = "row") = (EmblaAxis = "x")

=============================================================================
