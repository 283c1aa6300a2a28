----------------------------- MODULE FormField -----------------------------
(***************************************************************************)
(* The form parts of the component library (form.tsx, and FieldError of    *)
(* field.tsx, the newer way to show an error): FormField and FormItem give *)
(* their children a name and an id, from which the label, the control, the *)
(* description and the message make the ids that tie them together for a   *)
(* screen reader.                                                          *)
(*                                                                         *)
(* React Hook Form is external: the errors of the form change whenever a   *)
(* validation ends.  Items mount and unmount (a field shown on a           *)
(* condition), and useId never gives the same id twice.                    *)
(***************************************************************************)
EXTENDS Naturals, FiniteSets, Sequences, SequencesExt

CONSTANTS
    Fields,     \* names of fields
    Messages,   \* messages of errors; "" is an error without one
    MaxIds      \* bound on the ids given out

\* "none" and "hint" stand for no error and for a description.
FormFieldAssumption ==
    /\ MaxIds \in Nat
    /\ IsFiniteSet(Fields)
    /\ {"none", "hint"} \intersect Messages = {}

VARIABLES
    errors,      \* per field: "none", or the message of its error
    items,       \* per field: the id of its mounted FormItem; 0: not mounted
    hinted,      \* the fields whose item has a FormDescription
    help,        \* the fields whose FormMessage has children of its own
    lastId       \* of useId

formVars == <<errors, items, hinted, help, lastId>>

Mounted == {f \in Fields : items[f] # 0}

FormTypeOK ==
    /\ errors \in [Fields -> Messages \union {"none"}]
    /\ items \in [Fields -> 0 .. lastId]
    /\ hinted \union help \subseteq Fields
    /\ lastId \in 0 .. MaxIds

FormInit ==
    /\ errors = [f \in Fields |-> "none"]
    /\ items = [f \in Fields |-> 0]
    /\ hinted \in SUBSET Fields
    /\ help \in SUBSET Fields
    /\ lastId = 0

\* Deviation: the id is made from the number of items there are.
useId_count(f) ==
    /\ lastId < MaxIds
    /\ lastId' = lastId + 1
    /\ items' = [items EXCEPT ![f] = Cardinality(Mounted) + 1]

\* FormItem mounts.
useId(f) ==
    /\ lastId < MaxIds
    /\ lastId' = lastId + 1
    /\ items' = [items EXCEPT ![f] = lastId']

FormItem(f) ==
    /\ f \notin Mounted
    /\ useId(f)
    /\ UNCHANGED <<errors, hinted, help>>

UnmountItem(f) ==
    /\ f \in Mounted
    /\ items' = [items EXCEPT ![f] = 0]
    /\ UNCHANGED <<errors, hinted, help, lastId>>

Validate(f, message) ==
    /\ message # errors[f]
    /\ errors' = [errors EXCEPT ![f] = message]
    /\ UNCHANGED <<items, hinted, help, lastId>>

FormStep ==
    \E f \in Fields :
        \/ FormItem(f) \/ UnmountItem(f)
        \/ \E message \in Messages \union {"none"} : Validate(f, message)

-----------------------------------------------------------------------------
(* What is rendered.  The id of a part is [of, part].                      *)

useFormField(f) ==
    [formItemId |-> <<items[f], "form-item">>,
     formDescriptionId |-> <<items[f], "form-item-description">>,
     formMessageId |-> <<items[f], "form-item-message">>,
     error |-> errors[f] # "none"]

\* FormLabel: htmlFor.
FormLabel(f) == useFormField(f).formItemId

\* FormControl: its id, and what it says it is described by.
FormControl(f) ==
    LET field == useFormField(f)
    IN [id |-> field.formItemId,
        describedBy |-> IF field.error THEN {field.formDescriptionId, field.formMessageId}
                                       ELSE {field.formDescriptionId},
        invalid |-> field.error]

\* FormDescription and FormMessage: the elements there are.
FormDescription(f) ==
    IF f \in hinted THEN {[id |-> useFormField(f).formDescriptionId, says |-> "hint"]} ELSE {}

FormMessage(f) ==
    LET body == IF useFormField(f).error THEN errors[f]
                ELSE IF f \in help THEN "help" ELSE ""
    IN IF body = "" THEN {} ELSE {[id |-> useFormField(f).formMessageId, says |-> body]}

\* FieldError: the texts in its alert, given whether it has children of its own
\* and a list of errors, "" being one without a message, or undefined.
FieldError(children, errs) ==
    CASE children -> {"help"}
      [] ~children /\ Len(errs) = 1 /\ errs[1] # "" -> {errs[1]}
      [] OTHER -> {errs[i] : i \in DOMAIN errs} \ {""}

Message(f) == IF errors[f] = "none" THEN "" ELSE errors[f]

Elements == UNION {FormDescription(f) \union FormMessage(f) : f \in Mounted}

-----------------------------------------------------------------------------

\* A control that is described by an element gets the texts of its own field
\* and of no other, its error among them if that has a message; it says
\* "invalid" exactly if it has an error; and its label points at it and at
\* nothing else.
DescribedByItsOwn ==
    \A f \in Mounted :
        LET said == {e.says : e \in {e \in Elements : e.id \in FormControl(f).describedBy}}
        IN /\ said \subseteq {"hint", errors[f]}
           /\ ("hint" \in said) = (f \in hinted)
           /\ (errors[f] \in Messages \ {""}) => errors[f] \in said
           /\ FormControl(f).invalid = (errors[f] # "none")
           /\ {g \in Mounted : FormControl(g).id = FormLabel(f)} = {f}

\* The two ways to show an error agree: FieldError, given the error of a field,
\* says what its FormMessage says; given those of the form, all that its
\* FormMessages say.  (FieldError is there, with an empty list in it, also when
\* none of the errors it is given has a message.)
MessagesAgree ==
    /\ \A f \in Mounted :
         errors[f] # "none" =>
            FieldError(FALSE, <<Message(f)>>) = {e.says : e \in FormMessage(f)}
    /\ LET invalid == {f \in Mounted : errors[f] # "none"}
           summary == SetToSeq(Mounted)
       IN FieldError(FALSE, [i \in DOMAIN summary |-> Message(summary[i])]) =
            {e.says : e \in UNION {FormMessage(f) : f \in invalid}}

=============================================================================
