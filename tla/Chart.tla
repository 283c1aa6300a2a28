------------------------------- MODULE Chart -------------------------------
(***************************************************************************)
(* The chart parts of the component library (chart.tsx): how tooltip and   *)
(* legend find the entry of the configuration that names an item, and the  *)
(* memoised label of the tooltip while its properties change from render   *)
(* to render.                                                              *)
(*                                                                         *)
(* Names are strings, "" being what JavaScript takes for absent.  An item  *)
(* is [dataKey, name, fields], fields being the string properties of the   *)
(* item and of its data row.  Recharts is external.                        *)
(***************************************************************************)
EXTENDS Naturals, FiniteSets

CONSTANTS
    Items,       \* items the chart may hand to the tooltip
    Configs,     \* configurations: a function from keys to [label]
    Labels,      \* labels of the axis
    LabelKeys    \* values of the property labelKey

VARIABLES
    config, item, label, labelKey, hideLabel,   \* the properties
    active,    \* is the tooltip shown?
    memo       \* of tooltipLabel: the dependencies and the value

chartVars == <<config, item, label, labelKey, hideLabel, active, memo>>

Absent == ""

\* JavaScript's ||
Or(a, b) == IF a # Absent THEN a ELSE b

Entry(cfg, key) == IF key \in DOMAIN cfg THEN cfg[key].label ELSE Absent

\* getPayloadConfigFromPayload: the key may be the name of a property that
\* holds the configuration's key.
ConfigKey(cfg, it, key) ==
    LET indirect == IF key \in DOMAIN it.fields THEN it.fields[key] ELSE key
    IN IF indirect \in DOMAIN cfg THEN indirect ELSE key

\* The label is the axis' own unless a labelKey says otherwise.
LabelValue(cfg, it, lab, labKey, hide) ==
    LET key == Or(labKey, Or(it.dataKey, Or(it.name, "value")))
    IN IF hide THEN Absent
       ELSE IF labKey = Absent /\ lab # Absent THEN Or(Entry(cfg, lab), lab)
       ELSE Entry(cfg, ConfigKey(cfg, it, key))

\* useMemo's dependencies.
Dependencies(cfg, it, lab, labKey, hide) == <<lab, it, hide, cfg, labKey>>

Recompute(cfg, it, lab, labKey, hide) ==
    LET deps == Dependencies(cfg, it, lab, labKey, hide)
    IN memo' = IF memo.deps = deps THEN memo
               ELSE [deps |-> deps, value |-> LabelValue(cfg, it, lab, labKey, hide)]

ChartTypeOK ==
    /\ config \in Configs /\ item \in Items
    /\ label \in Labels /\ labelKey \in LabelKeys
    /\ {hideLabel, active} \subseteq BOOLEAN
    /\ DOMAIN memo = {"deps", "value"}

ChartInit ==
    /\ config \in Configs /\ item \in Items
    /\ label \in Labels /\ labelKey \in LabelKeys
    /\ hideLabel \in BOOLEAN /\ active = FALSE
    /\ memo = [deps |-> Dependencies(config, item, label, labelKey, hideLabel),
               value |-> LabelValue(config, item, label, labelKey, hideLabel)]

\* A render with one property changed: the pointer moves to another item or
\* leaves, or the parent passes something else.  The memo is a hook: it runs
\* whether the tooltip is shown or not.
Render(cfg, it, lab, labKey, hide, act) ==
    /\ config' = cfg /\ item' = it /\ label' = lab /\ labelKey' = labKey
    /\ hideLabel' = hide /\ active' = act
    /\ Recompute(cfg, it, lab, labKey, hide)

ChartStep ==
    \/ \E cfg \in Configs \ {config} : Render(cfg, item, label, labelKey, hideLabel, active)
    \/ \E it \in Items \ {item}, lab \in Labels :
         Render(config, it, lab, labelKey, hideLabel, TRUE)
    \/ \E labKey \in LabelKeys \ {labelKey} :
         Render(config, item, label, labKey, hideLabel, active)
    \/ Render(config, item, label, labelKey, ~hideLabel, active)
    \/ active /\ Render(config, item, label, labelKey, hideLabel, FALSE)

-----------------------------------------------------------------------------
(* What is shown of the item                                               *)

\* A row of the tooltip: the configuration's name for the item, or its own.
TooltipRow(nameKey) ==
    Or(Entry(config, ConfigKey(config, item, Or(nameKey, Or(item.name, Or(item.dataKey, "value"))))),
       item.name)

LegendRow(nameKey) ==
    Entry(config, ConfigKey(config, item, Or(nameKey, Or(item.dataKey, "value"))))

-----------------------------------------------------------------------------

\* The tooltip's heading is the one for the properties it is rendered with,
\* never one remembered from an earlier render.
LabelIsFresh ==
    active => memo.value = LabelValue(config, item, label, labelKey, hideLabel)

\* Tooltip and legend call an item by the same name, whether the name is found
\* under a key or through a property of the data, provided the item's own name
\* is its data key or absent (otherwise the tooltip looks under the name first).
TooltipAgreesWithLegend ==
    item.name \in {item.dataKey, Absent} =>
        \A nameKey \in LabelKeys :
            LegendRow(nameKey) # Absent => TooltipRow(nameKey) = LegendRow(nameKey)

=============================================================================
