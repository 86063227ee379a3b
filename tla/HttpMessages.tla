----------------------------- MODULE HttpMessages -----------------------------
(***************************************************************************)
(* One HTTP exchange of fuerte's HTTP driver (src/src/HttpConnection.cpp): *)
(* the request header that createRequestItem serialises, and the response  *)
(* headers and body that the http_parser callbacks on_header_field,        *)
(* on_header_value, on_headers_complete, on_body and on_message_complete   *)
(* accumulate into the RequestItem.                                        *)
(*                                                                         *)
(* A header is a sequence of tokens: literal pieces are strings, user      *)
(* data are model-level values, and urlEncode and base64 are injective     *)
(* tags around what they encode.  Response field names, values and the     *)
(* body are short sequences of characters, because the parser hands them  *)
(* over in fragments that depend on how TCP segments the response: every   *)
(* fragmentation of the response is an initial state.                      *)
(***************************************************************************)
EXTENDS Naturals, Sequences, SequencesExt

CONSTANTS
    Verbs,        \* rest verbs, "Get" among them
    Databases,    \* database names; "" is "no database"
    Paths,        \* request paths (each starts with '/')
    Params,       \* query parameter lists: sequences of <<key, value>>
    AuthTypes,    \* subset of {"None", "Basic"}
    Host,         \* _configuration._host
    Credentials,  \* _configuration._user + ":" + _configuration._password
    ResponseHeaders,  \* header lists the server may send: Seq of [name, value]
    ResponseBodies    \* bodies the server may send

ASSUME /\ "Get" \in Verbs
       /\ AuthTypes \subseteq {"None", "Basic"}

VARIABLES
    request,        \* the Request handed to sendRequest
    requestHeader,  \* RequestItem::_requestHeader, <<>> until it is built
    sent,           \* the response the server sends: [headers, body]
    events,         \* parser callbacks still to come, in order
    lastHeaderField,          \* RequestItem::lastHeaderField
    lastHeaderValue,          \* RequestItem::lastHeaderValue
    last_header_was_a_value,  \* RequestItem::last_header_was_a_value
    meta,           \* _response->header.meta (a std::map: key -> value)
    responseBuffer, \* RequestItem::_responseBuffer
    message_complete

vars == <<request, requestHeader, sent, events, lastHeaderField,
          lastHeaderValue, last_header_was_a_value, meta, responseBuffer,
          message_complete>>

-----------------------------------------------------------------------------
(* Conversions.                                                            *)

UrlEncode(x) == [urlEncoded |-> x]
Base64(x) == [base64 |-> x]

Requests == [verb : Verbs, database : Databases, path : Paths,
             parameters : Params, payloadSize : {0, 1},
             auth : AuthTypes]   \* auth: _configuration._authenticationType

\* The request target as createRequestItem builds it: "/_db/<db>" if a
\* database is set; the path only when there are no parameters, because
\* with parameters the path and query go into a local string that is never
\* appended to the header.
RequestTarget(r) ==
    (IF r.database # "" THEN <<"/_db/", UrlEncode(r.database)>> ELSE <<>>)
        \o (IF r.parameters = <<>> THEN <<r.path>> ELSE <<>>)

\* createRequestItem: request line, Host, Connection, authorisation, and
\* Content-Length unless the verb is GET (user meta headers are omitted:
\* they are copied verbatim and no property tells them apart)
CreateRequestHeader(r) ==
    <<r.verb, " ">> \o RequestTarget(r)
        \o <<" HTTP/1.1\r\n", "Host: ", Host, "\r\n",
             "Connection: Keep-Alive\r\n">>
        \o (IF r.auth = "Basic"
            THEN <<"Authorization: Basic ", Base64(Credentials), "\r\n">>
            ELSE <<>>)
        \o (IF r.verb # "Get"
            THEN <<"Content-Length: ", r.payloadSize, "\r\n\r\n">>
            ELSE <<"\r\n">>)

-----------------------------------------------------------------------------
(* The fragmentations of a response into parser callbacks.                 *)

\* all ways to cut the non-empty sequence s into non-empty fragments
RECURSIVE Splits(_)
Splits(s) ==
    {<<s>>} \cup
        UNION {{<<SubSeq(s, 1, k)>> \o rest : rest \in Splits(SubSeq(s, k + 1, Len(s)))}
                : k \in 1..(Len(s) - 1)}

Callbacks(cb, frags) == [i \in 1..Len(frags) |-> [cb |-> cb, data |-> frags[i]]]

\* on_header_field fragments of a name, then on_header_value fragments of
\* its value, for every header in order
RECURSIVE HeaderCallbacks(_)
HeaderCallbacks(hs) ==
    IF hs = <<>> THEN {<<>>}
    ELSE {Callbacks("field", f) \o Callbacks("value", v) \o rest :
            f \in Splits(Head(hs).name),
            v \in Splits(Head(hs).value),
            rest \in HeaderCallbacks(Tail(hs))}

BodyCallbacks(b) == IF b = <<>> THEN {<<>>} ELSE {Callbacks("body", f) : f \in Splits(b)}

ParserCallbacks(resp) ==
    {h \o <<[cb |-> "headers_complete", data |-> <<>>]>> \o b
       \o <<[cb |-> "message_complete", data |-> <<>>]>> :
        h \in HeaderCallbacks(resp.headers), b \in BodyCallbacks(resp.body)}

-----------------------------------------------------------------------------
(* The parser callbacks.                                                   *)

\* std::map::emplace: inserts only if the key is not present yet
Emplace(m, k, v) ==
    IF k \in DOMAIN m THEN m
    ELSE [x \in DOMAIN m \cup {k} |-> IF x = k THEN v ELSE m[x]]

Callback(cb) == events # <<>> /\ Head(events).cb = cb
Data == Head(events).data

\* sendRequest: the header is built before anything is written
CreateRequestItem ==
    /\ requestHeader = <<>>
    /\ requestHeader' = CreateRequestHeader(request)
    /\ UNCHANGED <<request, sent, events, lastHeaderField, lastHeaderValue,
                   last_header_was_a_value, meta, responseBuffer,
                   message_complete>>

Built == requestHeader # <<>>

\* a defective on_header_field that assigns every name fragment
OnHeaderFieldAssigns ==
    /\ Built /\ Callback("field")
    /\ IF last_header_was_a_value
       THEN /\ meta' = Emplace(meta, lastHeaderField, lastHeaderValue)
            /\ lastHeaderValue' = <<>>
       ELSE UNCHANGED <<meta, lastHeaderValue>>
    /\ lastHeaderField' = Data
    /\ last_header_was_a_value' = FALSE
    /\ events' = Tail(events)
    /\ UNCHANGED <<request, requestHeader, sent, responseBuffer, message_complete>>

\* on_header_field: after a value, store the finished pair and start a new
\* name; after a name fragment, extend the name
OnHeaderField ==
    /\ Built /\ Callback("field")
    /\ IF last_header_was_a_value
       THEN /\ meta' = Emplace(meta, lastHeaderField, lastHeaderValue)
            /\ lastHeaderField' = Data
            /\ lastHeaderValue' = <<>>      \* moved from
       ELSE /\ lastHeaderField' = lastHeaderField \o Data
            /\ UNCHANGED <<meta, lastHeaderValue>>
    /\ last_header_was_a_value' = FALSE
    /\ events' = Tail(events)
    /\ UNCHANGED <<request, requestHeader, sent, responseBuffer, message_complete>>

\* on_header_value: extend the value after a value fragment, else start it
OnHeaderValue ==
    /\ Built /\ Callback("value")
    /\ lastHeaderValue' = IF last_header_was_a_value
                          THEN lastHeaderValue \o Data ELSE Data
    /\ last_header_was_a_value' = TRUE
    /\ events' = Tail(events)
    /\ UNCHANGED <<request, requestHeader, sent, lastHeaderField, meta,
                   responseBuffer, message_complete>>

\* on_header_complete: store the pending pair if a name was seen
OnHeadersComplete ==
    /\ Built /\ Callback("headers_complete")
    /\ IF lastHeaderField # <<>>
       THEN /\ meta' = Emplace(meta, lastHeaderField, lastHeaderValue)
            /\ lastHeaderField' = <<>>      \* moved from
            /\ lastHeaderValue' = <<>>
       ELSE UNCHANGED <<meta, lastHeaderField, lastHeaderValue>>
    /\ events' = Tail(events)
    /\ UNCHANGED <<request, requestHeader, sent, last_header_was_a_value,
                   responseBuffer, message_complete>>

OnBody ==
    /\ Built /\ Callback("body")
    /\ responseBuffer' = responseBuffer \o Data
    /\ events' = Tail(events)
    /\ UNCHANGED <<request, requestHeader, sent, lastHeaderField,
                   lastHeaderValue, last_header_was_a_value, meta,
                   message_complete>>

OnMessageComplete ==
    /\ Built /\ Callback("message_complete")
    /\ message_complete' = TRUE
    /\ events' = Tail(events)
    /\ UNCHANGED <<request, requestHeader, sent, lastHeaderField,
                   lastHeaderValue, last_header_was_a_value, meta,
                   responseBuffer>>

\* the exchange is over
Finished ==
    /\ message_complete
    /\ UNCHANGED vars

-----------------------------------------------------------------------------
Init ==
    /\ request \in Requests
    /\ requestHeader = <<>>
    /\ sent \in [headers : ResponseHeaders, body : ResponseBodies]
    /\ events \in ParserCallbacks(sent)
    /\ lastHeaderField = <<>>
    /\ lastHeaderValue = <<>>
    /\ last_header_was_a_value = FALSE
    /\ meta = <<>>
    /\ responseBuffer = <<>>
    /\ message_complete = FALSE

Next ==
    \/ CreateRequestItem
    \/ OnHeaderField
    \/ OnHeaderValue
    \/ OnHeadersComplete
    \/ OnBody
    \/ OnMessageComplete
    \/ Finished

Spec == Init /\ [][Next]_vars

-----------------------------------------------------------------------------
(* What the specification says (spec 4.4, 5).                             *)

\* "?k1=v1&k2=v2" with keys and values percent-encoded
QueryString(ps) ==
    <<"?">> \o FlattenSeq([i \in 1..Len(ps) |->
                  (IF i > 1 THEN <<"&">> ELSE <<>>)
                      \o <<UrlEncode(ps[i][1]), "=", UrlEncode(ps[i][2])>>])

\* the request header of spec 4.4: target = db prefix + path + query
SpecRequestHeader(r) ==
    <<r.verb, " ">>
        \o (IF r.database # "" THEN <<"/_db/", UrlEncode(r.database)>> ELSE <<>>)
        \o <<r.path>>
        \o (IF r.parameters = <<>> THEN <<>> ELSE QueryString(r.parameters))
        \o <<" HTTP/1.1\r\n", "Host: ", Host, "\r\n",
             "Connection: Keep-Alive\r\n">>
        \o (IF r.auth = "Basic"
            THEN <<"Authorization: Basic ", Base64(Credentials), "\r\n">>
            ELSE <<>>)
        \o (IF r.verb # "Get"
            THEN <<"Content-Length: ", r.payloadSize, "\r\n\r\n">>
            ELSE <<"\r\n">>)

\* the header map the server sent: each name with its value
SentMeta(hs) == [n \in {hs[i].name : i \in 1..Len(hs)} |->
                    hs[CHOOSE i \in 1..Len(hs) : hs[i].name = n].value]

-----------------------------------------------------------------------------
(* Properties.                                                             *)

\* Once on_message_complete has fired, the response the parser callbacks
\* accumulated (the meta map flushed by on_header_field/on_header_complete
\* and the body appended by on_body) is exactly the response the server
\* sent, however TCP fragmented its names, values and body.
ResponseAsSent ==
    message_complete =>
        /\ meta = SentMeta(sent.headers)
        /\ responseBuffer = sent.body

\* The header createRequestItem builds is the one spec 4.4 prescribes: the
\* request target carries the path and the encoded query parameters.
RequestHeaderAsSpecified ==
    Built => requestHeader = SpecRequestHeader(request)
====
