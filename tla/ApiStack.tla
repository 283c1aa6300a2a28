---------------------------- MODULE ApiStack ----------------------------
(***************************************************************************)
(* A screen that shows alerts, nodes or the server's health, from the      *)
(* generated hooks to the gateway daemon: useListGatewayAlerts and the     *)
(* like (api-client-react/src/generated/api.ts) over customFetch over the  *)
(* API server's routes over the daemon.                                    *)
(*                                                                         *)
(* TanStack Query is external, modelled as the generated code uses it: one *)
(* cache entry and at most one fetch per query key; a fetch that nobody    *)
(* observes any more is aborted, because the query function takes the      *)
(* signal.                                                                 *)
(*                                                                         *)
(* Nothing in the repository calls setBaseUrl or setAuthTokenGetter (the   *)
(* package re-exports them), so here the account is nobody's and no call   *)
(* awaits a token.  A getter that never answered would keep its call open. *)
(***************************************************************************)
EXTENDS Naturals, Sequences, FiniteSets

CONSTANTS Calls, Runtimes, Accounts, StoredClasses, LimitMax, DefaultLimit, MaxReceived,
    MaxOutages,
    Queries,    \* the hooks with their parameters that a screen may use
    MaxSwaps    \* bound: how often the screen changes

VARIABLES runtime, account, calls, stored, lastSeen, daemonUp, outages, served,
          params,    \* the query the screen shows, or Unmounted
          key,       \* per call: the key of the query it fetches for, or Nothing
          cache,     \* the data of each query key that has some
          swaps      \* bounded counter

Fetch == INSTANCE CustomFetch

Api == INSTANCE GatewayApi

ASSUME ApiStackAssumption ==
    /\ Fetch!CustomFetchAssumption
    /\ Api!GatewayApiAssumption
    /\ MaxSwaps \in Nat

fetchVars == <<runtime, account, calls>>

apiVars == <<stored, lastSeen, daemonUp, outages, served>>

screenVars == <<params, key, cache, swaps>>

vars == <<fetchVars, apiVars, screenVars>>

Unmounted == Fetch!NoQuery

Nothing == <<"nothing">>

\* Where a query goes.  Absent parameters are in neither the URL nor, once
\* hashed, the key; only the alerts have parameters.
getHealthCheckUrl == [path |-> "healthz", limit |-> 0, eventClass |-> "absent"]

getListGatewayNodesUrl == [path |-> "nodes", limit |-> 0, eventClass |-> "absent"]

getListGatewayAlertsUrl(p) == p

getUrl(p) ==
    CASE p.path = "healthz" -> getHealthCheckUrl
      [] p.path = "nodes" -> getListGatewayNodesUrl
      [] OTHER -> getListGatewayAlertsUrl(p)

\* Deviation: the key leaves the parameters out.
getQueryKey_path(p) == <<p.path>>

\* The path, and the parameters if there are any.
getQueryKey(p) == IF p.path = "alerts" THEN <<p.path, p>> ELSE <<p.path>>

Keys == {getQueryKey(p) : p \in Queries}

TypeOK ==
    /\ Fetch!FetchTypeOK
    /\ Api!ApiTypeOK
    /\ params \in Queries \union {Unmounted}
    /\ \A c \in Calls : key[c] \in Keys \union {Nothing}
    /\ DOMAIN cache \subseteq Keys
    /\ swaps \in 0 .. MaxSwaps
    \* one fetch per key
    /\ \A c, d \in Calls : key[c] = key[d] /\ key[c] # Nothing => c = d

\* A screen has just been opened.
Init ==
    /\ Fetch!FetchInit /\ account = Fetch!Nobody
    /\ Api!ApiInit
    /\ params \in Queries
    /\ key = [c \in Calls |-> Nothing]
    /\ cache = [k \in {} |-> <<>>]
    /\ swaps = 0

-----------------------------------------------------------------------------
(* The hooks                                                               *)

\* GET on the URL, whatever the options say.
healthCheck(c) ==
    /\ params.path = "healthz"
    /\ Fetch!customFetch(c, [Fetch!NoRequest EXCEPT !.query = getHealthCheckUrl])

listGatewayNodes(c) ==
    /\ params.path = "nodes"
    /\ Fetch!customFetch(c, [Fetch!NoRequest EXCEPT !.query = getListGatewayNodesUrl])

listGatewayAlerts(c) ==
    /\ params.path = "alerts"
    /\ Fetch!customFetch(c, [Fetch!NoRequest EXCEPT !.query = getListGatewayAlertsUrl(params)])

\* The screen closes, passes other parameters to its hook or gives way to one
\* with another hook: the fetch of the query it leaves loses its observer.
SwitchTo(p) ==
    /\ p # params
    /\ swaps < MaxSwaps
    /\ swaps' = swaps + 1
    /\ params' = p
    /\ key' = [c \in Calls |-> Nothing]
    /\ UNCHANGED <<fetchVars, apiVars, cache>>

\* queryFn runs, under any identity that is free: on mount, and when TanStack
\* refetches.
queryFn(c) ==
    /\ params # Unmounted
    /\ calls[c].stage = "idle" /\ c = CHOOSE d \in Calls : calls[d].stage = "idle"
    /\ LET k == getQueryKey(params)
       IN /\ \A d \in Calls : key[d] # k
          /\ key' = [key EXCEPT ![c] = k]
    /\ healthCheck(c) \/ listGatewayNodes(c) \/ listGatewayAlerts(c)
    /\ UNCHANGED <<apiVars, params, cache, swaps>>

\* A call whose query is no longer observed has an aborted signal.
Aborted(c) == calls[c].stage # "idle" /\ key[c] = Nothing

\* The promise settles: a value becomes the data of the call's key; an error
\* leaves the data.
Settle(c) ==
    /\ Fetch!Release(c)
    /\ cache' = IF calls[c].outcome.kind = "value"
                THEN [k \in DOMAIN cache \union {key[c]} |->
                        IF k = key[c] THEN calls[c].outcome.value ELSE cache[k]]
                ELSE cache
    /\ key' = [key EXCEPT ![c] = Nothing]
    /\ UNCHANGED <<apiVars, params, swaps>>

-----------------------------------------------------------------------------
(* The network                                                             *)

\* A request on its way reaches the server.
Arrive(c) ==
    /\ calls[c].stage = "sent"
    /\ Api!Arrive(c, calls[c].request.query)
    /\ UNCHANGED <<fetchVars, screenVars>>

\* The server's answer as a response: JSON in every case.
JsonResponse(answer) ==
    [Fetch!NoResponse EXCEPT
        !.status = answer.status, !.media = "json", !.form = "json",
        !.value = IF answer.status = 200
                  THEN [text |-> "data", list |-> answer.list, fields |-> {}]
                  ELSE [text |-> "error", list |-> <<>>, fields |-> {"error"}]]

Deliver(c) ==
    /\ served[c].stage = "answered"
    /\ Fetch!Receive(c, JsonResponse(served[c].answer))
    /\ Api!Forget(c) /\ UNCHANGED <<stored, lastSeen, daemonUp, outages>>
    /\ UNCHANGED screenVars

\* The aborted fetch rejects, and TanStack drops the result, also one that was
\* there already.
Drop(c) ==
    /\ Aborted(c)
    /\ Fetch!Abort(c)
    /\ Api!Forget(c) /\ UNCHANGED <<stored, lastSeen, daemonUp, outages>>
    /\ UNCHANGED screenVars

\* No connection, or one that is cut.
Reject(c) ==
    /\ ~Aborted(c)
    /\ calls[c].stage = "sent"
    /\ Fetch!FetchRejects(c)
    /\ Api!Forget(c) /\ UNCHANGED <<stored, lastSeen, daemonUp, outages>>
    /\ UNCHANGED screenVars

Read(c) == Fetch!Finish(c) /\ UNCHANGED <<apiVars, screenVars>>

ServerStep(c) ==
    /\ Api!listGatewayAlerts(c) \/ Api!listGatewayNodes(c) \/ Api!gwFetchRejects(c)
    /\ UNCHANGED <<fetchVars, screenVars>>

DaemonStep ==
    /\ \/ Api!DaemonDown \/ Api!DaemonUp \/ Api!Heartbeat
       \/ \E class \in StoredClasses : Api!Store(class)
    /\ UNCHANGED <<fetchVars, screenVars>>

CallStep(c) ==
    \/ ServerStep(c)
    \/ ~Aborted(c) /\ (Arrive(c) \/ Deliver(c) \/ Read(c) \/ Settle(c))

Next ==
    \/ \E p \in Queries \union {Unmounted} : SwitchTo(p)
    \/ \E c \in Calls :
        \/ CallStep(c)
        \/ queryFn(c)
        \/ Reject(c)
        \/ Drop(c)
    \/ DaemonStep

\* Promises settle, the server runs, an aborted fetch rejects.
\* Nothing obliges the screen to fetch, the daemon to be up or alerts to come.
Fairness ==
    \A c \in Calls :
        /\ WF_vars(CallStep(c))
        /\ WF_vars(Drop(c))

Spec == Init /\ [][Next]_vars /\ Fairness

-----------------------------------------------------------------------------

\* What the hook shows for its parameters is an honest answer to these
\* parameters, whatever was shown before, whichever answers come late and
\* whatever is still under way for other parameters.
ShownMatchesParams ==
    LET k == getQueryKey(params)
    IN k \in DOMAIN cache => cache[k].text = "data" /\ Api!Honest(cache[k].list, params)

\* Every call ends, with a value or an error, and every answer is the one its
\* query calls for: each path through the server's routes answers, whether the
\* query is refused, the daemon is up or down or its answer is no use, and each
\* path of customFetch settles.
CallsAnswered ==
    /\ [](TypeOK /\ Api!AnswersExplained)
    /\ \A c \in Calls : (calls[c].stage # "idle") ~> (calls[c].stage = "idle")

=============================================================================
