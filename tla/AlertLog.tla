----------------------------- MODULE AlertLog ------------------------------
(***************************************************************************)
(* What the uplink promises, whatever the radio, the retransmissions and   *)
(* the daemon's restarts do: a row of the database is a frame the gateway  *)
(* verified, there is at most one row for each frame, and a node whose     *)
(* loop is closed (ack_enable) is told "ACKED" only of an alert the        *)
(* gateway verified.                                                       *)
(***************************************************************************)
EXTENDS Sequences, SequencesExt

CONSTANT Frames

VARIABLES raised,     \* frames a node has sealed
          verified,   \* frames the gateway authenticated as new
          rows,       \* the rows of the alerts and heartbeats tables, in order
          acked       \* alerts whose sender, listening for it, was told ACKED

logVars == <<raised, verified, rows, acked>>

Init == raised = {} /\ verified = {} /\ rows = <<>> /\ acked = {}

Raise(f) ==
    /\ f \notin raised
    /\ raised' = raised \union {f}
    /\ UNCHANGED <<verified, rows, acked>>

Verify(f) ==
    /\ f \in raised
    /\ verified' = verified \union {f}
    /\ UNCHANGED <<raised, rows, acked>>

Store(f) ==
    /\ f \in verified
    /\ f \notin ToSet(rows)
    /\ rows' = Append(rows, f)
    /\ UNCHANGED <<raised, verified, acked>>

Acknowledge(f) ==
    /\ f \in verified
    /\ acked' = acked \union {f}
    /\ UNCHANGED <<raised, verified, rows>>

Next == \E f \in Frames : Raise(f) \/ Verify(f) \/ Store(f) \/ Acknowledge(f)

Spec == Init /\ [][Next]_logVars

=============================================================================
