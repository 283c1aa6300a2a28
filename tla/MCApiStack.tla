----------------------------- MODULE MCApiStack -----------------------------
(* Two calls, alerts of a named and an unnamed class, and queries that are *)
(* accepted, refused by the server and refused by the daemon.              *)
EXTENDS ApiStack

Alerts(limit, class) == [path |-> "alerts", limit |-> limit, eventClass |-> class]

MCQueries ==
    {Alerts(0, "absent"), Alerts(2, "wifi_presence"), Alerts(3, "absent"), Alerts(7, "absent"),
     getListGatewayNodesUrl, getHealthCheckUrl}

=============================================================================
