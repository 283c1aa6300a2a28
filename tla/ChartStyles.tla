---------------------------- MODULE ChartStyles ----------------------------
(***************************************************************************)
(* The colors of the charts on a page (ChartContainer and ChartStyle of    *)
(* chart.tsx): each chart puts a style sheet into the page, in which the   *)
(* entries of its configuration become variables of the elements that      *)
(* carry its id, once for the light theme and once for the dark one.       *)
(*                                                                         *)
(* The style sheets of all charts are one cascade.  Colors are strings, "" *)
(* for absent; an entry has a color for both themes, or one for each.      *)
(***************************************************************************)
EXTENDS Naturals

CONSTANTS
    Charts,     \* places on the page, in its order: 1 .. n
    GivenIds,   \* values of the property id; "" for none
    Palettes,   \* configurations: functions from keys to [color, light, dark]
    MaxIds      \* bound on the ids given out

\* The property id is optional, and the type of a configuration (ChartConfig)
\* knows one color or one for each theme, never one for a single theme.
ChartStylesAssumption ==
    /\ Charts \subseteq Nat /\ MaxIds \in Nat
    /\ "" \in GivenIds /\ Palettes # {}
    /\ \A palette \in Palettes : \A key \in DOMAIN palette :
         palette[key].light = "" <=> palette[key].dark = ""

VARIABLES
    charts,   \* per place: the chart's useId (0: no chart), id and configuration
    dark,     \* is the page in the dark theme?
    lastUid   \* of useId

styleVars == <<charts, dark, lastUid>>

NoChart == [uid |-> 0, id |-> "", palette |-> CHOOSE p \in Palettes : TRUE]

Mounted == {c \in Charts : charts[c].uid # 0}

StyleTypeOK ==
    /\ \A c \in Charts : charts[c].uid \in 0 .. lastUid /\ charts[c].id \in GivenIds
    /\ \A c \in Charts : charts[c].palette \in Palettes
    /\ dark \in BOOLEAN /\ lastUid \in 0 .. MaxIds

StyleInit ==
    /\ charts = [c \in Charts |-> NoChart]
    /\ dark = FALSE /\ lastUid = 0

\* Deviation: without the property every chart has the same id.
chartId_fixed(chart) == <<"chart", chart.id>>

\* The property, or else what useId gave.
chartId(chart) == IF chart.id # "" THEN <<"chart", chart.id>> ELSE <<"uid", chart.uid>>

ChartContainer(c, id, palette) ==
    /\ c \notin Mounted /\ lastUid < MaxIds
    /\ lastUid' = lastUid + 1
    /\ charts' = [charts EXCEPT ![c] = [uid |-> lastUid', id |-> id, palette |-> palette]]
    /\ UNCHANGED dark

\* Another configuration or id for a chart that is there.
Rerender(c, id, palette) ==
    /\ c \in Mounted
    /\ charts' = [charts EXCEPT ![c].id = id, ![c].palette = palette]
    /\ UNCHANGED <<dark, lastUid>>

Unmount(c) ==
    /\ c \in Mounted
    /\ charts' = [charts EXCEPT ![c] = NoChart]
    /\ UNCHANGED <<dark, lastUid>>

ToggleTheme ==
    /\ dark' = ~dark
    /\ UNCHANGED <<charts, lastUid>>

StyleStep ==
    \/ ToggleTheme
    \/ \E c \in Charts :
        \/ Unmount(c)
        \/ \E id \in GivenIds, palette \in Palettes :
             ChartContainer(c, id, palette) \/ Rerender(c, id, palette)

-----------------------------------------------------------------------------

Or(a, b) == IF a # "" THEN a ELSE b

OfTheme(entry, theme) == Or(IF theme = "dark" THEN entry.dark ELSE entry.light, entry.color)

\* ChartStyle: the rules of a chart.
ChartStyle(c) ==
    LET palette == charts[c].palette
    IN {[from |-> c, of |-> chartId(charts[c]), theme |-> theme, key |-> key,
         color |-> OfTheme(palette[key], theme)] :
            theme \in {"light", "dark"}, key \in DOMAIN palette}

\* External: of the rules that match, those under .dark are more specific, and
\* of two alike the later one in the page wins.
Resolved(c, key) ==
    LET matching == {r \in UNION {ChartStyle(d) : d \in Mounted} :
                       /\ r.of = chartId(charts[c]) /\ r.key = key /\ r.color # ""
                       /\ r.theme = "dark" => dark}
        Wins(r) == \A s \in matching :
                       \/ r.theme = "dark" /\ s.theme = "light"
                       \/ r.theme = s.theme /\ r.from >= s.from
    IN IF matching = {} THEN "" ELSE (CHOOSE r \in matching : Wins(r)).color

\* Charts come and go, in either theme, and each has the colors its own
\* configuration gives it, unless another chart was given the same id.
ColorIsItsOwn ==
    \A c \in Mounted : \A key \in DOMAIN charts[c].palette :
        (\A d \in Mounted \ {c} : charts[c].id # "" => charts[d].id # charts[c].id)
            => Resolved(c, key) =
                 OfTheme(charts[c].palette[key], IF dark THEN "dark" ELSE "light")

=============================================================================
