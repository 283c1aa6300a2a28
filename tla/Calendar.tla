------------------------------ MODULE Calendar ------------------------------
(***************************************************************************)
(* The keyboard focus in a calendar (calendar.tsx): react-day-picker knows *)
(* the day that has the focus, and CalendarDayButton moves the focus of    *)
(* the page to that day's button in an effect.                             *)
(*                                                                         *)
(* Calendar makes its Root anew whenever it renders, so React replaces the *)
(* whole grid when the caller renders it, which a caller that controls the *)
(* selection does after every choice.  React reports no blur for a button  *)
(* it removes.  Keyboard, mouse and react-day-picker are external.         *)
(***************************************************************************)
EXTENDS Naturals

CONSTANTS Months, DaysPerMonth   \* bounds on the months and days there are

CalendarAssumption == {Months, DaysPerMonth} \subseteq Nat \ {0}

VARIABLES
    controlled,   \* does the caller control the selection?
    month,        \* the month on the screen
    focusedDay,   \* react-day-picker's; NoDay if it has seen the focus leave
    focus,        \* the day whose button has the focus; NoDay: somewhere else
    due           \* the days whose effect is to run

calendarVars == <<controlled, month, focusedDay, focus, due>>

NoDay == 0

Days == 1 .. Months * DaysPerMonth

MonthOf(day) == (day - 1) \div DaysPerMonth + 1

Shown(m) == {day \in Days : MonthOf(day) = m}

CalendarTypeOK ==
    /\ controlled \in BOOLEAN
    /\ month \in 1 .. Months
    /\ {focusedDay, focus} \subseteq Days \union {NoDay}
    /\ focus \in Shown(month) \union {NoDay}
    /\ due \subseteq Shown(month)

CalendarInit ==
    /\ controlled \in BOOLEAN
    /\ month = 1
    /\ focusedDay = NoDay /\ focus = NoDay
    /\ due = Shown(1)

-----------------------------------------------------------------------------

\* Deviation: the effect does not run when a button is mounted.
Effects_changes(kept, m, day) == {d \in Shown(m) : (d = day) # (d = focusedDay)}

\* The effects of a render: those of the buttons that are new, and those whose
\* modifiers.focused has changed.
Effects(kept, m, day) ==
    {d \in Shown(m) : d \notin kept \/ (d = day) # (d = focusedDay)}

\* A render to month m with the given day focused, of which the buttons in kept
\* were there before.  A button that goes takes the focus with it.
Render(kept, m, day, at) ==
    /\ month' = m
    /\ focusedDay' = day
    /\ focus' = IF at \in kept \intersect Shown(m) THEN at ELSE NoDay
    /\ due' = Effects(kept, m, day) \union (due \intersect kept \intersect Shown(m))
    /\ UNCHANGED controlled

\* The caller renders, and the Root of components is another component.
Root == Render({}, month, focusedDay, focus)

\* useEffect of CalendarDayButton: the page's focus goes to the focused day.
CalendarDayButton ==
    /\ due # {}
    /\ due' = {}
    /\ focus' = IF focusedDay \in due THEN focusedDay ELSE focus
    /\ UNCHANGED <<controlled, month, focusedDay>>

\* The user tabs to a day or presses the mouse on it ...
FocusDay(day) ==
    /\ day \in Shown(month)
    /\ Render(Shown(month), month, day, day)

\* ... chooses it, on which a caller that controls the selection renders ...
Choose ==
    /\ focus # NoDay
    /\ Render(IF controlled THEN {} ELSE Shown(month), month, focusedDay, focus)

\* ... goes on to a neighbour with the arrow keys, perhaps into another month ...
ArrowKey(day) ==
    /\ focus # NoDay /\ focusedDay # NoDay
    /\ day \in Days /\ (day = focusedDay + 1 \/ focusedDay = day + 1)
    /\ Render(Shown(month), MonthOf(day), day, focus)

\* ... leaves the days, perhaps for the buttons that turn over the month.
Leave(m) ==
    /\ m \in 1 .. Months
    /\ Render(Shown(month), m, IF focus # NoDay THEN NoDay ELSE focusedDay, NoDay)

CalendarStep ==
    \/ CalendarDayButton \/ Root \/ Choose
    \/ \E day \in Days : FocusDay(day) \/ ArrowKey(day)
    \/ \E m \in 1 .. Months : Leave(m)

-----------------------------------------------------------------------------

\* However the grid is replaced and the month changes, once the effects have run
\* the focus is on the button of the day react-day-picker takes for the focused
\* one, if that day is shown: who walks through the days is not thrown out of the
\* calendar by a render.  (Between a render and its effects the focus is nowhere,
\* and who puts it elsewhere at that moment has it taken back.)
FocusIsKept ==
    due = {} /\ focusedDay \in Shown(month) => focus = focusedDay

=============================================================================
