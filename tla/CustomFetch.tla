---------------------------- MODULE CustomFetch ----------------------------
(***************************************************************************)
(* customFetch (custom-fetch.ts), the function below every generated       *)
(* client call: it forms the request from the module's configuration,      *)
(* waits for a token, fetches, and turns the response into a value or an   *)
(* error.                                                                  *)
(*                                                                         *)
(* A step is what runs between two awaits; calls interleave there, and the *)
(* configuration may change.  Text is abstracted to what the parser does   *)
(* with it: a body has a form and a value.  The network and the Response   *)
(* object are external; runtime tells whether Response has a body stream   *)
(* (browsers) or leaves `body` undefined (React Native).                   *)
(***************************************************************************)
EXTENDS Naturals, Sequences

CONSTANTS
    Calls,      \* identities of the calls
    Runtimes,   \* "browser": Response has a body stream; "native": it has none
    Accounts    \* a server with the tokens it gives out

CustomFetchAssumption == "none" \notin Accounts

VARIABLES
    runtime,   \* the one the program runs in
    account,   \* _baseUrl and _authTokenGetter, set together; "none": null
    calls      \* per call: stage, request, what was sent, response, outcome

fetchVars == <<runtime, account, calls>>

Nobody == "none"

ResponseTypes == {"auto", "json", "text", "blob"}

\* The query of a request, for the server to look at.
NoQuery == [path |-> "none", limit |-> 0, eventClass |-> "none"]

NoHeaders == <<>>

\* own: the headers of a Request object; given: those of the options.
NoRequest == [method |-> "GET", body |-> "none", responseType |-> "auto", absolute |-> FALSE,
              own |-> NoHeaders, given |-> NoHeaders, query |-> NoQuery]

\* What a body says: some text, a list, or an object with string fields, of
\* which only the names matter.
Text(t) == [text |-> t, list |-> <<>>, fields |-> {}]

null == Text("null")

\* "bom" is JSON after a byte order mark, "garbage" any text that is not JSON.
Forms == {"blank", "json", "bom", "garbage"}

\* The fields that may tell what an error is about.
MessageFields == {"title", "detail", "message", "error_description", "error"}

NoResponse == [status |-> 0, media |-> "none", length0 |-> FALSE, stream |-> "null",
               form |-> "blank", value |-> null]

\* message: what an error's message adds to the status line.
Outcome(kind, value) == [kind |-> kind, value |-> value, message |-> {}]

Pending == Outcome("pending", null)

NoCall == [stage |-> "idle", request |-> NoRequest, base |-> Nobody, getter |-> Nobody,
           auth |-> Nobody, headers |-> NoHeaders, response |-> NoResponse,
           outcome |-> Pending]

Stages == {"idle", "token", "sent", "received", "done"}

FetchTypeOK ==
    /\ runtime \in Runtimes
    /\ account \in Accounts \union {Nobody}
    /\ \A c \in Calls :
        /\ calls[c].stage \in Stages
        /\ {calls[c].base, calls[c].auth, calls[c].getter} \subseteq Accounts \union {Nobody}
        /\ (calls[c].outcome = Pending) = (calls[c].stage # "done")

FetchInit ==
    /\ runtime \in Runtimes
    /\ account \in Accounts \union {Nobody}
    /\ calls = [c \in Calls |-> NoCall]

-----------------------------------------------------------------------------
(* The response                                                            *)

\* The media types are "json" (also +json), "text" (text/, +xml, forms),
\* "binary" (any other) and "none" (no content-type).
isJsonMediaType(media) == media = "json"

isTextMediaType(media) == media = "text"

NO_BODY_STATUS == {204, 205, 304}

hasNoBody(response, method) ==
    \/ method = "HEAD"
    \/ response.status \in NO_BODY_STATUS
    \/ response.length0
    \/ response.stream = "null"

\* A byte order mark that text() has left in place is dropped.
stripBom(form) == IF form = "bom" THEN "json" ELSE form

parseJsonBody(response) ==
    CASE response.form = "blank" -> Outcome("value", null)
      [] stripBom(response.form) = "json" -> Outcome("value", response.value)
      [] OTHER -> Outcome("ResponseParseError", response.value)

inferResponseType(response) ==
    CASE isJsonMediaType(response.media) -> "json"
      [] isTextMediaType(response.media) \/ response.media = "none" -> "text"
      [] OTHER -> "blob"

\* Text arrives as it is; blob() is there in browsers only.
parseSuccessBody(response, responseType, method) ==
    LET type == IF responseType = "auto" THEN inferResponseType(response) ELSE responseType
    IN CASE hasNoBody(response, method) -> Outcome("value", null)
         [] ~hasNoBody(response, method) /\ type = "json" -> parseJsonBody(response)
         [] ~hasNoBody(response, method) /\ type = "text" ->
                Outcome("value", IF response.form = "blank" THEN null ELSE response.value)
         [] ~hasNoBody(response, method) /\ type = "blob" ->
                IF runtime = "browser" THEN Outcome("value", response.value)
                                       ELSE Outcome("TypeError", null)

\* An error's data: a body that cannot be parsed is kept as text.
parseErrorBody(response, method) ==
    IF hasNoBody(response, method) \/ (response.form = "blank" /\ response.media # "binary")
    THEN null
    ELSE response.value

\* The fields of the data that make the message, or the text itself.
buildErrorMessage(response, data) ==
    LET Has(f) == f \in data.fields
        object == stripBom(response.form) = "json"
    IN CASE data = null \/ response.media = "binary" -> {}
         [] data # null /\ response.media # "binary" /\ ~object -> {"text"}
         [] OTHER ->
              CASE Has("detail") -> {"title", "detail"} \intersect data.fields
                [] ~Has("detail") /\ Has("message") -> {"message"}
                [] ~Has("detail") /\ ~Has("message") /\ Has("error_description") ->
                        {"error_description"}
                [] OTHER -> IF Has("error") THEN {"error"} ELSE {"title"} \intersect data.fields

ApiError(response, method) ==
    LET data == parseErrorBody(response, method)
    IN [kind |-> "ApiError", value |-> data, message |-> buildErrorMessage(response, data)]

-----------------------------------------------------------------------------
(* A call                                                                  *)

\* setBaseUrl and setAuthTokenGetter, called one after the other.
Configure(a) ==
    /\ account' = a
    /\ UNCHANGED <<runtime, calls>>

\* The base is prepended to paths; an absolute URL is left alone.
applyBaseUrl(request) == IF request.absolute THEN Nobody ELSE account

\* Later sources go over earlier ones.
mergeHeaders(own, given) ==
    [h \in DOMAIN own \union DOMAIN given |-> IF h \in DOMAIN given THEN given[h] ELSE own[h]]

\* Bodies are "none", "json text" or "other text".
looksLikeJson(body) == body = "json text"

Default(headers, name, value, wanted) ==
    IF wanted THEN mergeHeaders([h \in {name} |-> value], headers) ELSE headers

\* The headers but for a token: the content type a body seems to have, and what
\* a call for JSON accepts.
HeadersOf(request) ==
    Default(Default(mergeHeaders(request.own, request.given),
                    "content-type", "json", looksLikeJson(request.body)),
            "accept", "json", request.responseType = "json")

\* Up to the await of the token, or, where no getter is asked, of the response,
\* in the caller's own step.
customFetch(c, request) ==
    /\ calls[c].stage = "idle"
    /\ LET call == [NoCall EXCEPT
             !.request = request,
             !.base = applyBaseUrl(request),
             !.getter = account,
             !.headers = HeadersOf(request)]
       IN calls' = [calls EXCEPT ![c] =
            CASE request.body # "none" /\ request.method \in {"GET", "HEAD"} ->
                    [call EXCEPT !.stage = "done", !.outcome = Outcome("TypeError", null)]
              [] ~(request.body # "none" /\ request.method \in {"GET", "HEAD"}) ->
                    [call EXCEPT !.stage = IF account = Nobody \/ "authorization" \in DOMAIN call.headers
                                           THEN "sent" ELSE "token"]]
    /\ UNCHANGED <<runtime, account>>

\* Deviation: the base is read after the token, not with its getter.
TokenArrives_latebase(c) ==
    /\ calls[c].stage = "token"
    /\ calls' = [calls EXCEPT ![c].stage = "sent", ![c].auth = calls[c].getter,
                              ![c].base = applyBaseUrl(calls[c].request),
                              ![c].headers = Default(@, "authorization", calls[c].getter,
                                                     TRUE)]
    /\ UNCHANGED <<runtime, account>>

\* The getter's promise resolves to its account's token, or to no token
\* (null, or the empty string), and the request goes out; or it rejects.
TokenArrives(c) ==
    /\ calls[c].stage = "token"
    /\ \/ \E auth \in {calls[c].getter, Nobody} :
            calls' = [calls EXCEPT
                ![c].stage = "sent", ![c].auth = auth,
                ![c].headers = Default(@, "authorization", auth, auth # Nobody)]
       \/ calls' = [calls EXCEPT ![c].stage = "done",
                                 ![c].outcome = Outcome("rejected", null)]
    /\ UNCHANGED <<runtime, account>>

\* External: headers arrive; the stream is there as the runtime has it.
Receive(c, response) ==
    /\ calls[c].stage = "sent"
    /\ calls' = [calls EXCEPT
            ![c].stage = "received",
            ![c].response = [response EXCEPT !.stream =
                IF runtime = "native" THEN "undefined"
                ELSE IF response.status \in NO_BODY_STATUS \/ calls[c].request.method = "HEAD"
                     THEN "null" ELSE "stream"]]
    /\ UNCHANGED <<runtime, account>>

\* External: no connection, or one that is cut.
FetchRejects(c) ==
    /\ calls[c].stage \in {"sent", "received"}
    /\ calls' = [calls EXCEPT ![c].stage = "done", ![c].outcome = Outcome("rejected", null)]
    /\ UNCHANGED <<runtime, account>>

\* The caller's signal aborts the call, wherever it is, and the caller looks at
\* its rejection no more.
Abort(c) ==
    /\ calls[c].stage # "idle"
    /\ calls' = [calls EXCEPT ![c] = NoCall]
    /\ UNCHANGED <<runtime, account>>

\* The body has been read.
Finish(c) ==
    /\ calls[c].stage = "received"
    /\ LET response == calls[c].response
           method == calls[c].request.method
       IN calls' = [calls EXCEPT
            ![c].stage = "done",
            ![c].outcome = IF response.status \notin 200 .. 299
                           THEN ApiError(response, method)
                           ELSE parseSuccessBody(response, calls[c].request.responseType, method)]
    /\ UNCHANGED <<runtime, account>>

Release(c) ==
    /\ calls[c].stage = "done"
    /\ calls' = [calls EXCEPT ![c] = NoCall]
    /\ UNCHANGED <<runtime, account>>

-----------------------------------------------------------------------------

\* A token goes out with the request it was asked for, whatever is configured
\* while the getter takes its time: for a path, to the server whose account
\* gave it out; for an absolute URL, to whatever host the caller named, for
\* the code does not compare that host with the base URL.
TokenMatchesServer ==
    \A c \in Calls :
        calls[c].stage \in {"sent", "received"} /\ calls[c].auth # Nobody =>
            /\ calls[c].auth = calls[c].getter
            /\ calls[c].base = IF calls[c].request.absolute THEN Nobody ELSE calls[c].auth

\* The server sees the headers the caller chose, the options before those of the
\* Request, whatever defaults and tokens there are; and it is told of JSON, in a
\* body or wanted, unless the caller says otherwise.
HeadersAreTheCallers ==
    \A c \in Calls : calls[c].stage \in {"sent", "received"} =>
        LET request == calls[c].request
            headers == calls[c].headers
        IN /\ \A h \in DOMAIN request.given : headers[h] = request.given[h]
           /\ \A h \in DOMAIN request.own \ DOMAIN request.given : headers[h] = request.own[h]
           /\ request.body = "json text" => "content-type" \in DOMAIN headers
           /\ "content-type" \in DOMAIN headers
                 /\ headers["content-type"] = "json" /\ request.body # "json text"
                => "content-type" \in DOMAIN request.given \union DOMAIN request.own
           /\ calls[c].auth # Nobody => headers["authorization"] = calls[c].auth

\* What the server said reaches the caller in every runtime: a response with
\* something in it, to a request and with a status that allow a body, is never
\* turned into null, and JSON never into an error, mark or not.
PayloadDelivered ==
    \A c \in Calls :
        LET response == calls[c].response
            outcome == calls[c].outcome
        IN  /\ outcome.kind \in {"value", "ApiError", "ResponseParseError"}
            /\ calls[c].request.method # "HEAD"
            /\ response.status \notin NO_BODY_STATUS
            /\ ~response.length0 /\ response.form # "blank"
            => /\ outcome.value = response.value
               /\ response.form # "garbage" => outcome.kind # "ResponseParseError"
               \* an error says more than its status if the server did
               /\ outcome.kind = "ApiError" /\ response.media # "binary"
                     /\ (response.form = "garbage" \/ response.value.fields # {})
                    => outcome.message # {}

=============================================================================
