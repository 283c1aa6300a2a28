----------------------------- MODULE GatewayApi -----------------------------
(***************************************************************************)
(* The API server's gateway routes (api-server/src/routes/gateway.ts), in  *)
(* front of the gateway daemon's read endpoints (web.py): validate the     *)
(* query, ask the daemon, convert its rows, filter, validate the answer.   *)
(*                                                                         *)
(* An alert is its event class as stored; the table is a sequence in the   *)
(* order of received_at.  The nodes are one node, of which last_seen is    *)
(* kept, 0 for NULL.  Numbers in a query are counted in halves, so that 3  *)
(* stands for the 1.5 which zod's coerced number lets through.             *)
(* There is no timeout: a daemon that accepts the connection and says      *)
(* nothing leaves the request open.                                        *)
(***************************************************************************)
EXTENDS Naturals, Sequences, SequencesExt

CONSTANTS
    Calls,        \* identities of the requests
    StoredClasses,\* values of the event_class column
    LimitMax,     \* listGatewayAlertsQueryLimitMax
    DefaultLimit, \* of the route
    MaxReceived,  \* bound on the alerts and heartbeats the daemon receives
    MaxOutages    \* bound: how often the daemon goes down

GatewayApiAssumption ==
    /\ LimitMax \in Nat \ {0}
    /\ DefaultLimit \in 1 .. LimitMax
    /\ {MaxReceived, MaxOutages} \subseteq Nat

VARIABLES
    stored,    \* the alerts table
    lastSeen,  \* of the node
    daemonUp,  \* is the gateway daemon there?
    outages,   \* bounded counter
    served     \* per request: its stage, query and answer

gatewayVars == <<stored, lastSeen, daemonUp, outages>>

apiVars == <<gatewayVars, served>>

\* EV_NAMES, and what any other number becomes.
EventClasses == {"unknown", "footstep", "vehicle", "multiple", "wifi_presence"}

EV_NAMES(class) ==
    CASE class = 1 -> "footstep"
      [] class = 2 -> "vehicle"
      [] class = 3 -> "multiple"
      [] class = 4 -> "wifi_presence"
      [] OTHER -> "unknown"

\* Query parameters that are not there.
NoLimit == 0

NoClass == "absent"

NoAnswer == [status |-> 0, list |-> <<>>]

NotServed == [stage |-> "none",
              query |-> [path |-> "healthz", limit |-> NoLimit, eventClass |-> NoClass],
              answer |-> NoAnswer]

ApiTypeOK ==
    /\ stored \in Seq(StoredClasses) /\ Len(stored) <= MaxReceived
    /\ lastSeen \in 0 .. MaxReceived
    /\ daemonUp \in BOOLEAN /\ outages \in 0 .. MaxOutages
    /\ \A c \in Calls :
        /\ served[c].stage \in {"none", "asked", "answered"}
        /\ served[c].answer.status \in {0, 200, 400, 502}
        /\ served[c].query.path = "alerts" =>
             \A i \in DOMAIN served[c].answer.list :
                served[c].answer.list[i].eventClass \in EventClasses

ApiInit ==
    /\ stored = <<>>
    /\ lastSeen = 0
    /\ daemonUp = TRUE /\ outages = 0
    /\ served = [c \in Calls |-> NotServed]

-----------------------------------------------------------------------------
(* The routes                                                              *)

\* ListGatewayAlertsQueryParams.safeParse; the other routes take no query.
ValidQuery(q) ==
    /\ q.limit # NoLimit => q.limit \in 2 .. 2 * LimitMax
    /\ q.eventClass # NoClass => q.eventClass \in EventClasses

\* ListGatewayNodesResponse.parse: what it throws on becomes a 502.
ListGatewayNodesResponse(nodes) == \A i \in DOMAIN nodes : nodes[i].lastSeen \in Nat

SensingChannels == {"seismic", "rf"}

\* ListGatewayAlertsResponse.parse: one row that does not fit fails the list.
ListGatewayAlertsResponse(alerts) ==
    \A i \in DOMAIN alerts :
        alerts[i].eventClass \in EventClasses /\ alerts[i].channel \in SensingChannels

\* HealthCheckResponse.parse({ status: "ok" }).
HealthCheckResponse == [status |-> 200, list |-> <<>>]

LimitOf(q) == IF q.limit = NoLimit THEN 2 * DefaultLimit ELSE q.limit

\* Deviation: a query that is refused is left without an answer.
Arrive_noreply(c, q) ==
    /\ served[c].stage = "none"
    /\ ValidQuery(q)
    /\ served' = [served EXCEPT ![c] =
            IF q.path = "healthz"
            THEN [NotServed EXCEPT !.stage = "answered", !.query = q, !.answer = HealthCheckResponse]
            ELSE [NotServed EXCEPT !.stage = "asked", !.query = q]]
    /\ UNCHANGED gatewayVars

\* app.use("/api", router): a request is answered at once, or the daemon is
\* asked for what it needs.
Arrive(c, q) ==
    /\ served[c].stage = "none"
    /\ served' = [served EXCEPT ![c] =
            CASE q.path = "healthz" ->
                    [NotServed EXCEPT !.stage = "answered", !.query = q, !.answer = HealthCheckResponse]
              [] q.path # "healthz" /\ ~ValidQuery(q) ->
                    [NotServed EXCEPT !.stage = "answered", !.query = q, !.answer.status = 400]
              [] OTHER -> [NotServed EXCEPT !.stage = "asked", !.query = q]]
    /\ UNCHANGED gatewayVars

\* The daemon's ORDER BY received_at DESC LIMIT ?
recent_alerts(n) == Reverse(IF n >= Len(stored) THEN stored
                            ELSE SubSeq(stored, Len(stored) - n + 1, Len(stored)))

toAlert(class) ==
    [eventClass |-> EV_NAMES(class),
     channel |-> IF EV_NAMES(class) = "wifi_presence" THEN "rf" ELSE "seismic"]

\* Array.prototype.filter: kept[i] is what it keeps of the first i alerts.
OfClass(alerts, class) ==
    LET kept[i \in 0 .. Len(alerts)] ==
          IF i = 0 THEN <<>>
          ELSE IF alerts[i].eventClass = class THEN Append(kept[i - 1], alerts[i])
          ELSE kept[i - 1]
    IN kept[Len(alerts)]

\* The rows as alerts, filtered after the limit has been applied.
AlertList(rows, q) ==
    LET alerts == [i \in DOMAIN rows |-> toAlert(rows[i])]
    IN IF q.eventClass = NoClass THEN alerts ELSE OfClass(alerts, q.eventClass)

NodeList == <<[lastSeen |-> lastSeen]>>

Answer(c, status, list) ==
    /\ served' = [served EXCEPT ![c].stage = "answered",
                                ![c].answer = [status |-> status, list |-> list]]
    /\ UNCHANGED gatewayVars

\* gwFetch resolves: the rows of this moment are converted and sent.
listGatewayNodes(c) ==
    /\ served[c].stage = "asked" /\ served[c].query.path = "nodes"
    /\ daemonUp
    /\ IF ListGatewayNodesResponse(NodeList) THEN Answer(c, 200, NodeList)
                                             ELSE Answer(c, 502, <<>>)

\* int() of a limit that is no integer raises in the daemon, and the connection
\* closes without an answer.
listGatewayAlerts(c) ==
    LET q == served[c].query
    IN /\ served[c].stage = "asked" /\ q.path = "alerts"
       /\ daemonUp
       /\ LET alerts == AlertList(recent_alerts(LimitOf(q) \div 2), q)
          IN IF LimitOf(q) % 2 = 0 /\ ListGatewayAlertsResponse(alerts)
             THEN Answer(c, 200, alerts)
             ELSE Answer(c, 502, <<>>)

\* gwFetch rejects: no connection, a connection cut, a status that is not ok.
gwFetchRejects(c) ==
    /\ served[c].stage = "asked"
    /\ ~daemonUp
    /\ Answer(c, 502, <<>>)

\* The connection to the client is gone, or the answer delivered.
Forget(c) == served' = [served EXCEPT ![c] = NotServed]

-----------------------------------------------------------------------------
(* The daemon's own life                                                   *)

Store(class) ==
    /\ daemonUp
    /\ Len(stored) + lastSeen < MaxReceived
    /\ stored' = Append(stored, class)
    /\ UNCHANGED <<lastSeen, daemonUp, outages, served>>

Heartbeat ==
    /\ daemonUp
    /\ Len(stored) + lastSeen < MaxReceived
    /\ lastSeen' = lastSeen + 1
    /\ UNCHANGED <<stored, daemonUp, outages, served>>

DaemonDown ==
    /\ daemonUp
    /\ outages < MaxOutages
    /\ outages' = outages + 1
    /\ daemonUp' = FALSE
    /\ UNCHANGED <<stored, lastSeen, served>>

DaemonUp ==
    /\ ~daemonUp
    /\ daemonUp' = TRUE
    /\ UNCHANGED <<stored, lastSeen, outages, served>>

-----------------------------------------------------------------------------

\* What a caller may rely on in a list of alerts: there is a moment at which the
\* table's newest `limit` rows, newest first, restricted to the class asked
\* for, are exactly the list.  No alert is skipped between two that are listed,
\* and a row of a class nobody knows is listed as "unknown", not lost.
HonestAlerts(list, q) ==
    \E now \in 0 .. Len(stored) :
        LET n == LimitOf(q) \div 2
            oldest == IF n >= now THEN 1 ELSE now - n + 1
            wanted == {i \in oldest .. now :
                         q.eventClass = NoClass \/ EV_NAMES(stored[i]) = q.eventClass}
        IN /\ Len(list) = Cardinality(wanted)
           /\ \A i \in wanted :
                EV_NAMES(stored[i]) =
                  list[Cardinality({j \in wanted : j >= i})].eventClass

Honest(list, q) ==
    CASE q.path = "alerts" -> HonestAlerts(list, q)
      [] q.path = "nodes" -> Len(list) = 1 /\ list[1].lastSeen \in 0 .. lastSeen
      [] OTHER -> list = <<>>

\* 502 says the gateway is at fault; it also follows a limit the daemon cannot
\* read.  A limit out of bounds never reaches the daemon, and the health check
\* does not depend on it.
AnswersExplained ==
    \A c \in Calls :
        LET a == served[c].answer
            q == served[c].query
        IN /\ a.status = 200 => /\ Honest(a.list, q)
                                /\ q.path = "alerts" => ValidQuery(q) /\ LimitOf(q) % 2 = 0
           /\ a.status = 502 => /\ q.path # "healthz"
                                /\ outages > 0 \/ LimitOf(q) % 2 = 1
           /\ a.status = 400 => q.limit # NoLimit \/ q.eventClass # NoClass

=============================================================================
