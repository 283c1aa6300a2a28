---------------------------- MODULE RelayDedupe ----------------------------
(***************************************************************************)
(* sps_dedupe_seen (sps_proto.c), by which a relay is to forward a frame   *)
(* once: a ring of the last (node, seq) pairs.  The relay that calls it is *)
(* not in the repository; here it may hear any frame at any time, its own  *)
(* and its neighbours' transmissions among them.                           *)
(***************************************************************************)
EXTENDS Naturals, Sequences

CONSTANTS
    Slots,       \* SPS_DEDUPE_SLOTS
    SeqCount,    \* how many sequence numbers there are (2^24)
    Nodes,       \* the node ids frames are heard of
    MaxForwards  \* bound: how many frames are forwarded

RelayDedupeAssumption ==
    /\ Slots \in Nat \ {0}
    /\ SeqCount \in Nat \ {0}
    /\ Nodes \subseteq 0 .. SeqCount - 1
    /\ MaxForwards \in Nat

VARIABLES
    slot,       \* the ring
    head,       \* the slot to be overwritten next
    forwarded,  \* history: the frames forwarded, in order
    refused     \* history: the last frame that was not, or NoFrame

dedupeVars == <<slot, head, forwarded, refused>>

NoFrame == <<>>

Frames == Nodes \X (0 .. SeqCount - 1)

\* UINT64_MAX: larger than every pair's tag.
Empty == SeqCount * SeqCount

DedupeTypeOK ==
    /\ slot \in [0 .. Slots - 1 -> Nat]
    /\ head \in 0 .. Slots - 1
    /\ forwarded \in Seq(Frames)
    /\ refused \in Frames \union {NoFrame}

\* sps_dedupe_init
DedupeInit ==
    /\ slot = [i \in 0 .. Slots - 1 |-> Empty]
    /\ head = 0
    /\ forwarded = <<>>
    /\ refused = NoFrame

\* Deviation: the sequence number overlaps the node id.
tag_narrow(f) == f[1] * (SeqCount - 1) + f[2]

tag(f) == f[1] * SeqCount + f[2]

sps_dedupe_seen(f) ==
    IF \E i \in DOMAIN slot : slot[i] = tag(f)
    THEN refused' = f /\ UNCHANGED <<slot, head, forwarded>>
    ELSE /\ Len(forwarded) < MaxForwards
         /\ slot' = [slot EXCEPT ![head] = tag(f)]
         /\ head' = (head + 1) % Slots
         /\ forwarded' = Append(forwarded, f)
         /\ refused' = NoFrame

DedupeNext == \E f \in Frames : sps_dedupe_seen(f)

DedupeSpec == DedupeInit /\ [][DedupeNext]_dedupeVars

-----------------------------------------------------------------------------

\* A frame goes out again only when Slots other frames have gone out since; and
\* none is refused that is not among the last Slots that went out.
RingIsRecent ==
    /\ \A i, j \in DOMAIN forwarded :
           i < j /\ forwarded[i] = forwarded[j] => j - i > Slots
    /\ refused # NoFrame =>
           \E i \in DOMAIN forwarded : i > Len(forwarded) - Slots /\ forwarded[i] = refused

=============================================================================
