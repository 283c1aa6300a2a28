---------------------------- MODULE ClientParts ----------------------------
(***************************************************************************)
(* The parts of the two clients that keep state of their own and share     *)
(* none: toasts, sidebar, carousel, chart and form of the mockup sandbox,  *)
(* customFetch of the API client called directly, and the build and start  *)
(* of the API server.  A behaviour is one of a single part; the others     *)
(* stay as they begin, so that each is explored by itself in one run.      *)
(***************************************************************************)
EXTENDS Naturals, Sequences

CONSTANTS
    Viewers, TOAST_LIMIT, MaxToasts,
    Widths, MOBILE_BREAKPOINT,
    MaxSlides, MaxApis,
    Items, Configs, Labels, LabelKeys,
    Fields, Messages, MaxIds,
    Months, DaysPerMonth,
    Charts, GivenIds, Palettes,
    MaxEdits, MaxRounds,
    Calls, Runtimes, Accounts,
    Requests, Responses   \* what callers ask and what servers say

VARIABLES
    part,   \* the part that runs
    count, memoryState, toastTimeouts, listeners, mounted, state, due, dismissed, missed,
    width, matched, isMobile, committed, closure, effectDue, parent, open, openMobile,
    cookie, collapsible,
    loop, optsAxis, orientation, slides, api, known, selected, subscribed, given,
    canScrollPrev, canScrollNext,
    config, item, label, labelKey, hideLabel, active, memo,
    errors, items, hinted, help, lastId,
    sources, broken, dist, builder, wanted, server, running, portTaken, rounds,
    charts, dark, lastUid,
    controlled, month, focusedDay, focus, dueDays,
    spec, generated, step, failed, began, spoiled, runs,
    runtime, account, calls

T == INSTANCE Toasts
S == INSTANCE Sidebar
C == INSTANCE Carousel
G == INSTANCE Chart
F == INSTANCE FormField
Y == INSTANCE ChartStyles
K == INSTANCE Calendar WITH due <- dueDays
L == INSTANCE ServerLife
O == INSTANCE Codegen
H == INSTANCE CustomFetch

ASSUME ClientPartsAssumption ==
    /\ T!ToastsAssumption
    /\ S!SidebarAssumption
    /\ C!CarouselAssumption
    /\ F!FormFieldAssumption
    /\ Y!ChartStylesAssumption
    /\ K!CalendarAssumption
    /\ L!ServerLifeAssumption
    /\ O!CodegenAssumption
    /\ H!CustomFetchAssumption

\* What the parser tells apart in a body; of an object it keeps the fields that
\* can make a message.
ASSUME FetchInputs ==
    /\ \A request \in Requests : request.responseType \in H!ResponseTypes
    /\ \A response \in Responses :
        /\ DOMAIN response = DOMAIN H!NoResponse
        /\ response.form \in H!Forms
        /\ response.form = "garbage" => response.value # H!null
        /\ response.value.fields \subseteq H!MessageFields

toastVars == <<count, memoryState, toastTimeouts, listeners, mounted, state, due,
               dismissed, missed>>

sidebarVars == <<width, matched, isMobile, committed, closure, effectDue, parent, open,
                 openMobile, cookie, collapsible>>

carouselVars == <<loop, optsAxis, orientation, slides, api, known, selected, subscribed,
                  given, canScrollPrev, canScrollNext>>

chartVars == <<config, item, label, labelKey, hideLabel, active, memo>>

formVars == <<errors, items, hinted, help, lastId>>

lifeVars == <<sources, broken, dist, builder, wanted, server, running, portTaken, rounds>>

styleVars == <<charts, dark, lastUid>>

calendarVars == <<controlled, month, focusedDay, focus, dueDays>>

codegenVars == <<spec, generated, step, failed, began, spoiled, runs>>

fetchVars == <<runtime, account, calls>>

vars == <<part, toastVars, sidebarVars, carouselVars, chartVars, formVars, styleVars, lifeVars,
          calendarVars, codegenVars, fetchVars>>

Parts == {"toasts", "sidebar", "carousel", "chart", "form", "styles", "life", "calendar",
          "codegen", "fetch"}

\* A part that does not run begins in one of its initial states.
Init ==
    /\ part \in Parts
    /\ T!ToastInit
    /\ S!SidebarInit
    /\ part # "sidebar" =>
         /\ width = (CHOOSE w \in Widths : TRUE)
         /\ parent = "none" /\ open /\ collapsible = "offcanvas"
    /\ C!CarouselInit
    /\ part # "carousel" =>
         ~loop /\ optsAxis = "absent" /\ orientation = "absent" /\ slides = 1
    /\ G!ChartInit
    /\ part # "chart" =>
         /\ config = (CHOOSE c \in Configs : TRUE) /\ item = (CHOOSE i \in Items : TRUE)
         /\ label = "" /\ labelKey = "" /\ hideLabel
    /\ F!FormInit
    /\ part # "form" => hinted = {} /\ help = {}
    /\ Y!StyleInit
    /\ K!CalendarInit
    /\ part # "calendar" => controlled
    /\ L!LifeInit
    /\ part # "life" => dist = 1 /\ portTaken
    /\ O!CodegenInit
    /\ part # "codegen" => spec.title = "Api"
    /\ H!FetchInit
    /\ part # "fetch" => runtime = "browser" /\ account = "none"

-----------------------------------------------------------------------------

FetchStep ==
    \/ \E a \in Accounts \union {H!Nobody} : H!Configure(a)
    \/ \E c \in Calls :
        \/ H!TokenArrives(c) \/ H!FetchRejects(c) \/ H!Finish(c) \/ H!Release(c)
        \/ \E request \in Requests : H!customFetch(c, request)
        \/ \E response \in Responses : H!Receive(c, response)

Toasts ==
    /\ part = "toasts" /\ T!ToastStep
    /\ UNCHANGED <<part, sidebarVars, carouselVars, chartVars, formVars, styleVars,
                   lifeVars, calendarVars, codegenVars, fetchVars>>

Sidebar ==
    /\ part = "sidebar" /\ S!SidebarStep
    /\ UNCHANGED <<part, toastVars, carouselVars, chartVars, formVars, styleVars,
                   lifeVars, calendarVars, codegenVars, fetchVars>>

Carousel ==
    /\ part = "carousel" /\ C!CarouselStep
    /\ UNCHANGED <<part, toastVars, sidebarVars, chartVars, formVars, styleVars,
                   lifeVars, calendarVars, codegenVars, fetchVars>>

Chart ==
    /\ part = "chart" /\ G!ChartStep
    /\ UNCHANGED <<part, toastVars, sidebarVars, carouselVars, formVars, styleVars,
                   lifeVars, calendarVars, codegenVars, fetchVars>>

FormField ==
    /\ part = "form" /\ F!FormStep
    /\ UNCHANGED <<part, toastVars, sidebarVars, carouselVars, chartVars, styleVars,
                   lifeVars, calendarVars, codegenVars, fetchVars>>

ChartStyles ==
    /\ part = "styles" /\ Y!StyleStep
    /\ UNCHANGED <<part, toastVars, sidebarVars, carouselVars, chartVars, formVars,
                   lifeVars, calendarVars, codegenVars, fetchVars>>

ServerLife ==
    /\ part = "life" /\ L!LifeStep
    /\ UNCHANGED <<part, toastVars, sidebarVars, carouselVars, chartVars, formVars,
                   styleVars, calendarVars, codegenVars, fetchVars>>

Calendar ==
    /\ part = "calendar" /\ K!CalendarStep
    /\ UNCHANGED <<part, toastVars, sidebarVars, carouselVars, chartVars, formVars,
                   styleVars, lifeVars, codegenVars, fetchVars>>

Codegen ==
    /\ part = "codegen" /\ O!CodegenStep
    /\ UNCHANGED <<part, toastVars, sidebarVars, carouselVars, chartVars, formVars,
                   styleVars, lifeVars, calendarVars, fetchVars>>

CustomFetch ==
    /\ part = "fetch" /\ FetchStep
    /\ UNCHANGED <<part, toastVars, sidebarVars, carouselVars, chartVars, formVars,
                   styleVars, lifeVars, calendarVars, codegenVars>>

Next ==
    \/ Toasts \/ Sidebar \/ Carousel \/ Chart \/ FormField \/ ChartStyles
    \/ Calendar \/ ServerLife \/ Codegen \/ CustomFetch

\* React runs the effects it has begun to run, and the event loop runs a timer
\* that has expired although tasks keep coming.
Fairness ==
    /\ \A v \in Viewers : WF_vars(T!Subscribe(v) /\ Toasts)
    /\ \A id \in 1 .. MaxToasts : SF_vars(T!Expire(id) /\ Toasts)

Spec == Init /\ [][Next]_vars /\ Fairness

-----------------------------------------------------------------------------

\* Toasts: exactly the mounted components listen, and each shows the store
\* unless its subscription is still to come; what is removed or pushed out stays
\* away; a dismissed toast goes.
ToastsPromise ==
    /\ [](T!ToastTypeOK /\ T!ListenersAreMounted /\ T!ViewIsCurrent)
    /\ [][T!GoneForGood]_vars
    /\ T!DismissedGoes

\* Sidebar: click and key act on the sidebar on the screen; the cookie restores
\* what there is; the layout is the one for the width; an icon alone has a
\* tooltip.
SidebarPromise ==
    /\ [](S!SidebarTypeOK /\ S!CookieIsState /\ S!LayoutFitsWidth /\ S!IconsAreNamed)
    /\ [][S!TogglesWhatIsSeen]_vars

\* Carousel: the buttons say what there is to scroll to, and layout and
\* scrolling have one direction.
CarouselPromise == C!CarouselTypeOK /\ C!ButtonsTellTheTruth /\ C!SlidesFollowAxis

\* Chart and ChartStyles: the tooltip's heading is not an old one, tooltip and
\* legend use the same name, and a chart has the colors of its own configuration.
ChartsPromise ==
    /\ G!ChartTypeOK /\ G!LabelIsFresh /\ G!TooltipAgreesWithLegend
    /\ Y!StyleTypeOK /\ Y!ColorIsItsOwn

\* FormField: a control is described by its own field, and FieldError and
\* FormMessage say the same.
FieldPromise == F!FormTypeOK /\ F!DescribedByItsOwn /\ F!MessagesAgree

\* Calendar: a render does not throw the focus out.
FocusIsKept == K!CalendarTypeOK /\ K!FocusIsKept

\* Codegen: a success is one for client and server, a failure has its reason.
CodegenExplained == O!CodegenTypeOK /\ O!CodegenExplained

\* ServerLife: no bundle from before the last removal of dist is started.
StartsWhatWasBuilt == []L!LifeTypeOK /\ [][L!StartsWhatWasBuilt]_vars

\* CustomFetch: a request for a path carries its token to the server that gave
\* it out (one for an absolute URL, to the host the caller named), the caller's
\* headers are the ones that are sent, and what the server said reaches the
\* caller, whatever the runtime makes of an empty body.
FetchPromise ==
    /\ H!FetchTypeOK
    /\ H!TokenMatchesServer /\ H!HeadersAreTheCallers /\ H!PayloadDelivered

=============================================================================
