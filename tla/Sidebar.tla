------------------------------ MODULE Sidebar ------------------------------
(***************************************************************************)
(* The sidebar of the component library (sidebar.tsx, use-mobile.tsx): one *)
(* state for the desktop, one for the mobile sheet, a cookie, a keyboard   *)
(* shortcut, and the width of the window that decides which of them        *)
(* counts.                                                                 *)
(*                                                                         *)
(* React is external.  Handlers are closures over the last commit; what a  *)
(* click or a key changes is committed, effects included, before the next  *)
(* one.  What a media query changes is committed a step later, and its     *)
(* effects run another step later, or before the next render.              *)
(***************************************************************************)
EXTENDS Naturals, FiniteSets

CONSTANTS
    Widths,             \* widths of the window, in pixels
    MOBILE_BREAKPOINT

SidebarAssumption == Widths \subseteq Nat /\ MOBILE_BREAKPOINT \in Nat \ {0}

VARIABLES
    width,      \* innerWidth
    matched,    \* what the media query said last
    isMobile,   \* useIsMobile's state; FALSE also while undefined
    committed,  \* the isMobile of the last commit
    closure,    \* the isMobile in the closure of the key listener, or "none"
    effectDue,  \* has the effect of that commit yet to run?
    parent,     \* "none", or who owns `open`: a parent that "obeys" or "refuses"
    open,       \* the desktop's state: _open, or the parent's
    openMobile,
    cookie,     \* sidebar_state: "unset", or what was last written
    collapsible \* the Sidebar's prop

sidebarVars == <<width, matched, isMobile, committed, closure, effectDue, parent, open,
                 openMobile, cookie, collapsible>>

props == <<parent, collapsible>>

desktop == <<open, cookie>>

listener == <<closure, effectDue>>

SidebarTypeOK ==
    /\ width \in Widths
    /\ {matched, isMobile, committed, effectDue, open, openMobile} \subseteq BOOLEAN
    /\ closure \in {"none", "mobile", "desktop"}
    /\ cookie \in {"unset", "true", "false"}
    /\ parent \in {"none", "obeys", "refuses"}
    /\ collapsible \in {"offcanvas", "icon", "none"}

\* (max-width: 767px), for a width in whole pixels.
MediaQuery(w) == w <= MOBILE_BREAKPOINT - 1

\* The first render, before the effects.
SidebarInit ==
    /\ width \in Widths
    /\ matched = MediaQuery(width)
    /\ isMobile = FALSE /\ committed = FALSE
    /\ closure = "none" /\ effectDue = FALSE
    /\ parent \in {"none", "obeys", "refuses"}
    /\ open \in BOOLEAN
    /\ openMobile = FALSE
    /\ cookie = "unset"
    /\ collapsible \in {"offcanvas", "icon", "none"}

Device(mobile) == IF mobile THEN "mobile" ELSE "desktop"

\* The first effects: useIsMobile looks at the width, SidebarProvider listens.
MountEffects ==
    /\ closure = "none"
    /\ isMobile' = (width < MOBILE_BREAKPOINT)
    /\ matched' = MediaQuery(width)
    /\ closure' = Device(committed)
    /\ UNCHANGED <<width, committed, effectDue, props, desktop, openMobile>>

Resize(w) ==
    /\ w # width
    /\ width' = w
    /\ UNCHANGED <<matched, isMobile, committed, listener, props, desktop, openMobile>>

\* The media query's change event: onChange of useIsMobile.
onChange ==
    /\ closure # "none"
    /\ MediaQuery(width) # matched
    /\ matched' = MediaQuery(width)
    /\ isMobile' = (width < MOBILE_BREAKPOINT)
    /\ UNCHANGED <<width, committed, listener, props, desktop, openMobile>>

Commit ==
    /\ closure # "none"
    /\ isMobile # committed
    /\ committed' = isMobile
    /\ effectDue' = TRUE
    /\ UNCHANGED <<width, matched, isMobile, closure, props, desktop, openMobile>>

\* Deviation: the effect has no dependencies and keeps its first closure.
Rebind_once ==
    /\ effectDue' = FALSE
    /\ closure' = closure

\* The effect of SidebarProvider runs again: toggleSidebar is another function.
Rebind ==
    /\ effectDue' = FALSE
    /\ closure' = Device(committed)

RunEffect ==
    /\ effectDue
    /\ Rebind
    /\ UNCHANGED <<width, matched, isMobile, committed, props, desktop, openMobile>>

\* A handler that changed something made the provider render, and the effects
\* of the commit before ran first.
Rendering ==
    IF effectDue /\ (open' # open \/ openMobile' # openMobile) THEN Rebind
    ELSE UNCHANGED listener

\* The state and the cookie; a parent may decline, the cookie is written all
\* the same.
setOpen(value) ==
    /\ open' = IF parent = "refuses" THEN open ELSE value
    /\ cookie' = IF value THEN "true" ELSE "false"

\* toggleSidebar, called from a closure of the given device.
toggleSidebar(device) ==
    IF device = "mobile"
    THEN openMobile' = ~openMobile /\ UNCHANGED desktop
    ELSE setOpen(~open) /\ UNCHANGED openMobile

\* handleKeyDown: Ctrl+B or Cmd+B.
handleKeyDown ==
    /\ closure # "none"
    /\ toggleSidebar(closure)
    /\ Rendering
    /\ UNCHANGED <<width, matched, isMobile, committed, props>>

\* The trigger and the rail.
onClick ==
    /\ toggleSidebar(Device(committed))
    /\ Rendering
    /\ UNCHANGED <<width, matched, isMobile, committed, props>>

\* The sheet closes itself (a click outside, Escape).
CloseSheet ==
    /\ committed /\ collapsible # "none" /\ openMobile
    /\ openMobile' = FALSE
    /\ UNCHANGED desktop
    /\ Rendering
    /\ UNCHANGED <<width, matched, isMobile, committed, props>>

SidebarStep ==
    \/ MountEffects \/ onChange \/ Commit \/ RunEffect \/ handleKeyDown \/ onClick \/ CloseSheet
    \/ \E w \in Widths : Resize(w)

-----------------------------------------------------------------------------
(* What is rendered                                                        *)

\* The style sheet shows the desktop's sidebar from this width (md:block).
MdBreakpoint == 768

dataCollapsible == IF open THEN "" ELSE collapsible

\* Sidebar: fixed in the page, a sheet, or the desktop's with its data-state.
Rendered ==
    CASE collapsible = "none" -> "fixed"
      [] collapsible # "none" /\ committed -> IF openMobile THEN "sheet" ELSE "hidden"
      [] OTHER -> IF width < MdBreakpoint \/ dataCollapsible = "offcanvas" THEN "hidden"
                  ELSE IF dataCollapsible = "icon" THEN "icons" ELSE "full"

\* The parts inside that group-data-[collapsible=icon] hides; a sheet and a
\* fixed sidebar are not in such a group.
GroupParts == IF Rendered = "icons" THEN {} ELSE {"group-label", "group-action"}

MenuParts == IF Rendered = "icons" THEN {} ELSE {"menu-action", "menu-badge"}

SubParts == IF Rendered = "icons" THEN {} ELSE {"menu-sub", "menu-sub-button"}

\* SidebarMenuButton: its tooltip is hidden unless the state is collapsed on a
\* desktop.
TooltipOffered == ~open /\ ~committed

-----------------------------------------------------------------------------

\* Click and shortcut act on the sidebar that is on the screen, never on the
\* one for the other kind of device, also while a change of the width is on its
\* way; the sheet's state is not remembered in the cookie.  Only a key pressed
\* between the commit of another layout and its effect may act on the old one.
TogglesWhatIsSeen ==
    (handleKeyDown /\ ~effectDue) \/ onClick =>
        IF committed THEN openMobile' # openMobile /\ desktop' = desktop
        ELSE openMobile' = openMobile /\ (open' # open \/ parent = "refuses")

\* The cookie, once written, is the state a reload should restore, unless a
\* parent refused what the user asked for.
CookieIsState ==
    cookie # "unset" /\ parent # "refuses" => cookie = IF open THEN "true" ELSE "false"

\* With nothing on its way, the layout is the one for the window's width, and a
\* sidebar that is open is on the screen: the breakpoints of the media query,
\* of the test of innerWidth and of the style sheet agree.
LayoutFitsWidth ==
    closure # "none" /\ matched = MediaQuery(width) /\ committed = isMobile =>
        /\ committed = (width < MOBILE_BREAKPOINT)
        /\ (IF committed THEN openMobile ELSE open) => Rendered # "hidden"

\* A menu button of which only the icon is left has a tooltip to say what it
\* is, and nothing beside it that would not fit; a sheet and an open sidebar
\* have all their parts, and no tooltip doubles their labels.
IconsAreNamed ==
    LET parts == GroupParts \union MenuParts \union SubParts
    IN /\ parts = {} => TooltipOffered
       /\ TooltipOffered => Rendered \notin {"sheet", "full"}
       /\ Rendered \in {"sheet", "full"} => Cardinality(parts) = 6

=============================================================================
