----------------------------- MODULE StatusMqtt -----------------------------
(***************************************************************************)
(* The color of a node on its way to those who subscribe to                *)
(* dirt32/status/<node_id>: classify (status.py), publish_status with its  *)
(* cache (ingest.py), run by the serial thread after a heartbeat and every *)
(* hour by the main thread (main.py), and the connection to the broker     *)
(* (mqtt.py).  One node; the broker is external.                           *)
(***************************************************************************)
EXTENDS Naturals

CONSTANTS
    MaxChanges,  \* bound: heartbeats and silences
    MaxDrops     \* bound: how often the broker ends or refuses a connection

StatusMqttAssumption == MaxChanges \in Nat /\ MaxDrops \in Nat

VARIABLES
    tamper,    \* the flags of the node's row: was tampering reported?
    silent,    \* has it not been heard for half a day?
    cached,    \* _last_status
    pc, key,   \* per thread: where it is in publish_status, and its color
    sock,      \* the connection: none, up, or ended by the broker unnoticed
    retained,  \* the message the broker keeps for the topic
    changes,   \* bounded counter
    drops      \* bounded counter

row == <<tamper, silent>>

threads == <<pc, key>>

statusVars == <<row, cached, threads, sock, retained, changes, drops>>

Threads == {"serial", "main"}

Colors == {"none", "green", "yellow", "red"}

StatusTypeOK ==
    /\ {tamper, silent} \subseteq BOOLEAN
    /\ pc \in [Threads -> {"idle", "heartbeat", "classify", "compare", "cache", "publish"}]
    /\ key \in [Threads -> Colors]
    /\ {cached, retained} \subseteq Colors
    /\ sock \in {"none", "up", "ended"}
    /\ changes \in 0 .. MaxChanges /\ drops \in 0 .. MaxDrops

StatusInit ==
    /\ tamper = FALSE /\ silent = TRUE
    /\ cached = "none" /\ retained = "none"
    /\ pc = [t \in Threads |-> "idle"] /\ key = [t \in Threads |-> "none"]
    /\ sock = "none" /\ changes = 0 /\ drops = 0

\* classify, with one reason for each color.
classify ==
    CASE tamper -> "red"
      [] ~tamper /\ silent -> "yellow"
      [] OTHER -> "green"

Go(t, place) == pc' = [pc EXCEPT ![t] = place]

\* MqttPublisher.publish: what becomes of the connection, and whether the
\* broker gets the message.  connect is not tried within five seconds of the
\* last time, and may fail; what is written to an ended connection is lost, and
\* only the write after it need fail.
publish(sent) ==
    \/ sock \in {"none", "up"} /\ sock' = "up" /\ sent /\ UNCHANGED drops
    \/ /\ sock = "none" /\ drops < MaxDrops
       /\ drops' = drops + 1
       /\ UNCHANGED <<sock, retained>>
    \/ /\ sock = "ended" /\ sock' \in {"ended", "none"}
       /\ UNCHANGED <<retained, drops>>

-----------------------------------------------------------------------------

\* A heartbeat's row is written, then the heartbeat itself is published.
OnHeartbeat(flag) ==
    /\ pc["serial"] = "idle" /\ changes < MaxChanges
    /\ changes' = changes + 1
    /\ tamper' = flag /\ silent' = FALSE
    /\ Go("serial", "heartbeat")
    /\ UNCHANGED <<cached, key, sock, retained, drops>>

PublishHeartbeat ==
    /\ pc["serial"] = "heartbeat"
    /\ publish(UNCHANGED retained)
    /\ Go("serial", "classify")
    /\ UNCHANGED <<row, cached, key, changes>>

\* Half a day goes by.
FallSilent ==
    /\ ~silent /\ changes < MaxChanges
    /\ changes' = changes + 1
    /\ silent' = TRUE
    /\ UNCHANGED <<tamper, cached, threads, sock, retained, drops>>

\* Deviation: the main thread keeps the connection alive and no more.
Hour_pingOnly ==
    /\ pc["main"] = "idle"
    /\ sock' \in IF sock = "ended" THEN {"ended", "none"} ELSE {sock}
    /\ UNCHANGED <<row, cached, threads, retained, changes, drops>>

\* ping_if_due, then publish_all_status.
Hour ==
    /\ pc["main"] = "idle"
    /\ sock' \in IF sock = "ended" THEN {"ended", "none"} ELSE {sock}
    /\ Go("main", "classify")
    /\ UNCHANGED <<row, cached, key, retained, changes, drops>>

Classify(t) ==
    /\ pc[t] = "classify"
    /\ key' = [key EXCEPT ![t] = classify]
    /\ Go(t, "compare")
    /\ UNCHANGED <<row, cached, sock, retained, changes, drops>>

Compare(t) ==
    /\ pc[t] = "compare"
    /\ Go(t, IF cached = key[t] THEN "idle" ELSE "cache")
    /\ UNCHANGED <<row, cached, key, sock, retained, changes, drops>>

Cache(t) ==
    /\ pc[t] = "cache"
    /\ cached' = key[t]
    /\ Go(t, "publish")
    /\ UNCHANGED <<row, key, sock, retained, changes, drops>>

PublishStatus(t) ==
    /\ pc[t] = "publish"
    /\ publish(retained' = key[t])
    /\ Go(t, "idle")
    /\ UNCHANGED <<row, cached, key, changes>>

\* No packet for one and a half keepalives (the PING comes hourly), or a
\* restart of the broker.
BrokerEnds ==
    /\ sock = "up" /\ drops < MaxDrops
    /\ drops' = drops + 1
    /\ sock' = "ended"
    /\ UNCHANGED <<row, cached, threads, retained, changes>>

Round(t) == Classify(t) \/ Compare(t) \/ Cache(t) \/ PublishStatus(t)

StatusNext ==
    \/ \E flag \in BOOLEAN : OnHeartbeat(flag)
    \/ FallSilent \/ BrokerEnds \/ Hour \/ PublishHeartbeat
    \/ \E t \in Threads : Round(t)

\* The hour comes, and a thread goes on with what it has begun.
StatusFairness ==
    /\ WF_statusVars(Hour) /\ WF_statusVars(PublishHeartbeat)
    /\ \A t \in Threads : WF_statusVars(Round(t))

StatusSpec == StatusInit /\ [][StatusNext]_statusVars /\ StatusFairness

-----------------------------------------------------------------------------

\* When the node's state no longer changes, the last color that was handed to
\* the broker is the right one, also when no heartbeat comes to say so and when
\* the two threads overlapped.
CacheCatchesUp == <>[](cached = classify)

\* mqtt.py:11: "dirt32/status/<node_id>   retained: current color + reasons".
RetainedIsCurrent == <>[](retained = classify)

=============================================================================
