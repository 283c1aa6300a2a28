--------------------------- MODULE MCClientParts ---------------------------
(* Small instances of the parts; the responses hold every combination the  *)
(* parser tells apart: no body, blank, JSON with and without a mark, other *)
(* text, binary, for a success and for an error.                           *)
EXTENDS ClientParts

MCWidths == {500, 767, 768, 1024}

\* A row names its series directly, by dataKey, or through a property.
I(dataKey, name, fields) == [dataKey |-> dataKey, name |-> name, fields |-> fields]

MCItems ==
    {I("visits", "visits", [month |-> "jan"]),
     I("visits", "", [browser |-> "chrome", month |-> "feb"]),
     I("share", "chrome", [browser |-> "chrome"])}

MCConfigs ==
    {[k \in {"visits", "chrome"} |-> [label |-> IF k = "visits" THEN "Visits" ELSE "Chrome"]],
     [k \in {"chrome", "jan"} |-> [label |-> IF k = "jan" THEN "January" ELSE ""]]}

MCLabels == {"", "jan"}

MCLabelKeys == {"", "browser", "month"}

Color(color, light, night) == [color |-> color, light |-> light, dark |-> night]

\* One color, one for each theme, and none.
MCPalettes ==
    {[k \in {"visits"} |-> Color("red", "", "")],
     [k \in {"visits", "share"} |-> IF k = "share" THEN Color("", "", "")
                                                   ELSE Color("", "sky", "navy")]}

R(method, body, type) ==
    [H!NoRequest EXCEPT !.method = method, !.body = body, !.responseType = type]

MCRequests ==
    {R("GET", "none", "auto"), R("GET", "json text", "auto"), R("HEAD", "none", "auto"),
     R("POST", "json text", "json"),
     [R("GET", "none", "text") EXCEPT !.absolute = TRUE],
     \* the caller's own headers, in the options and in a Request
     [R("PUT", "json text", "json") EXCEPT
        !.own = [h \in {"content-type", "accept"} |-> "text"],
        !.given = [h \in {"content-type"} |-> "other"]],
     [R("GET", "none", "text") EXCEPT !.given = [h \in {"authorization"} |-> "mine"]]}

A(status, media, length0, form, value) ==
    [H!NoResponse EXCEPT !.status = status, !.media = media, !.length0 = length0,
                         !.form = form, !.value = H!Text(value)]

Problem(fields) ==
    [H!NoResponse EXCEPT !.status = 502, !.media = "json", !.form = "json",
                         !.value = [H!Text("why") EXCEPT !.fields = fields]]

MCResponses ==
    {A(204, "none", FALSE, "blank", "null"), A(200, "json", TRUE, "blank", "null"),
     A(200, "json", FALSE, "blank", "null"), A(200, "json", FALSE, "json", "data"),
     A(200, "json", FALSE, "bom", "data"), A(200, "json", FALSE, "garbage", "data"),
     A(200, "none", FALSE, "garbage", "data"), A(200, "binary", FALSE, "garbage", "data"),
     Problem({"error"}), Problem({"title", "detail"}), Problem({"title", "message"}), A(502, "text", FALSE, "garbage", "why"),
     A(502, "binary", FALSE, "garbage", "why")}

=============================================================================
