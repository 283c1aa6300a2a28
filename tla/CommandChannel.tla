--------------------------- MODULE CommandChannel ---------------------------
(***************************************************************************)
(* What the downlink promises: a sequence number names one command, and a  *)
(* node acts on commands that were sent, each at most once, in the order   *)
(* of their numbers, skipping those it did not hear.                       *)
(***************************************************************************)
EXTENDS Integers, Sequences, SequencesExt

CONSTANT Frames

VARIABLES sent,     \* frames handed to the radio link
          effects   \* frames the node has acted on, in order

chanVars == <<sent, effects>>

Init == sent = {} /\ effects = <<>>

Transmit(f) ==
    /\ \A g \in sent : g.seq = f.seq => g = f
    /\ sent' = sent \union {f}
    /\ UNCHANGED effects

ActOn(f) ==
    /\ f \in sent
    /\ \A g \in ToSet(effects) : g.seq < f.seq
    /\ effects' = Append(effects, f)
    /\ UNCHANGED sent

Next == \E f \in Frames : Transmit(f) \/ ActOn(f)

Spec == Init /\ [][Next]_chanVars

=============================================================================
