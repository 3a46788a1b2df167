-------------------------------- MODULE Upgrade --------------------------------
(***************************************************************************)
(* The handshake that comes before a connection: the functions of          *)
(* src/src/http.rs, the clients that call upgrade_request and              *)
(* check_upgrade_response, and the echo server that calls                  *)
(* is_upgrade_request and upgrade_response or serves a page.  Between them *)
(* proxies change headers, and hand a response to the wrong client.        *)
(*                                                                         *)
(* A header is the sequence of its values, of which `get` takes the first. *)
(* A value of Connection is the sequence of its tokens; the case of        *)
(* letters is left out where the code ignores it.  The key of a client is  *)
(* the client, for nonces are different, and so are their digests.         *)
(***************************************************************************)
EXTENDS Naturals, Sequences

CONSTANTS Clients,
          MaxChanges    \* bound: what the proxies do

ASSUME UpgradeAssumption == MaxChanges \in Nat

VARIABLES
    client,     \* by client: "new", "waiting", "open", or "refused"
    server,     \* what the server did with its request: "none", "upgraded" or "page"
    request,    \* by client: its request as it is on its way
    response,   \* by client: the response on its way to it
    touched,    \* the clients whose response a proxy changed or took from another
    changes     \* how much the proxies did

vars == <<client, server, request, response, touched, changes>>

Absent   == <<>>
Names    == {"Connection", "Upgrade", "Version", "Key", "Accept"}
NoHeader == [name \in Names |-> Absent]
Get(headers, name) == Head(headers[name])
Methods  == {"GET", "HEAD"}     \* two of those that a request can have

Signed == {<<c>> : c \in Clients}

TypeOK ==
    /\ client \in [Clients -> {"new", "waiting", "open", "refused"}]
    /\ server \in [Clients -> {"none", "upgraded", "page"}]
    /\ DOMAIN request = Clients /\ DOMAIN response = Clients
    /\ \A c \in Clients : /\ DOMAIN request[c] = {"method", "headers"}
                          /\ request[c].method \in Methods \cup {"none"}
                          /\ DOMAIN request[c].headers = Names
                          /\ request[c].headers.Key \in {Absent, <<c>>}
                          /\ DOMAIN response[c] = {"status", "headers"}
                          /\ response[c].status \in {"none", "101", "200"}
                          /\ DOMAIN response[c].headers = Names
                          /\ response[c].headers.Accept \in Signed \cup {Absent}
    /\ touched \subseteq Clients /\ changes \in 0..MaxChanges
------------------------------------------------------------------------------
(* http.rs *)

UpgradeHeaders == [NoHeader EXCEPT !.Connection = <<<<"upgrade">>>>, !.Upgrade = <<"websocket">>]

upgrade_request(c) ==
    [method  |-> "GET",
     headers |-> [UpgradeHeaders EXCEPT !.Version = <<"13">>, !.Key = <<c>>]]

\* The tokens of the first Connection header; the others hold one.
has_upgrade_headers(h) ==
    /\ h.Connection # Absent /\ \E i \in DOMAIN Get(h, "Connection") : Get(h, "Connection")[i] = "upgrade"
    /\ h.Upgrade # Absent /\ Get(h, "Upgrade") = "websocket"
    /\ h.Version # Absent /\ Get(h, "Version") = "13"
    /\ h.Key # Absent

is_upgrade_request(r) == r.method = "GET" /\ has_upgrade_headers(r.headers)

\* The digest of the key: here, the key.
upgrade_challenge_response_fixed(key) == "digest"    \* mutant: the key is not digested
upgrade_challenge_response(key) == key

\* mutant: answers without the digest of the key
upgrade_response_unsigned(r) == [status |-> "101", headers |-> UpgradeHeaders]

upgrade_response(r) ==
    [status  |-> "101",
     headers |-> [UpgradeHeaders EXCEPT !.Accept = <<upgrade_challenge_response(Get(r.headers, "Key"))>>]]

\* The response has to name exactly this token.
same_challenge_any(sent, r) == r.headers.Accept # Absent    \* mutant: any digest is taken
same_challenge(sent, r) ==
    r.headers.Accept # Absent /\ Get(r.headers, "Accept") = upgrade_challenge_response(Get(sent.headers, "Key"))

check_upgrade_response(sent, r) ==
    /\ is_upgrade_request(sent)
    /\ r.status = "101"
    /\ r.headers.Connection # Absent /\ Get(r.headers, "Connection") = <<"upgrade">>
    /\ r.headers.Upgrade # Absent /\ Get(r.headers, "Upgrade") = "websocket"
    /\ same_challenge(sent, r)
------------------------------------------------------------------------------
(* Clients, server and proxies *)

NoRequest  == [method |-> "none", headers |-> NoHeader]
NoResponse == [status |-> "none", headers |-> NoHeader]
Page == [status |-> "200", headers |-> [NoHeader EXCEPT !.Connection = <<<<"close">>>>]]

Init ==
    /\ client = [c \in Clients |-> "new"] /\ server = [c \in Clients |-> "none"]
    /\ request = [c \in Clients |-> NoRequest] /\ response = [c \in Clients |-> NoResponse]
    /\ touched = {} /\ changes = 0

\* upgrade_request returns a Builder, whose method the client can set once more.
Asks(c) ==
    /\ client[c] = "new"
    /\ client' = [client EXCEPT ![c] = "waiting"]
    /\ \E method \in Methods :
          request' = [request EXCEPT ![c] = [upgrade_request(c) EXCEPT !.method = method]]
    /\ UNCHANGED <<server, response, touched, changes>>

\* main, ws_handler and serve_html of the echo server.
Serves(c) ==
    /\ client[c] # "new" /\ server[c] = "none"
    /\ IF is_upgrade_request(request[c])
       THEN /\ server' = [server EXCEPT ![c] = "upgraded"]
            /\ response' = [response EXCEPT ![c] = upgrade_response(request[c])]
       ELSE /\ server' = [server EXCEPT ![c] = "page"]
            /\ response' = [response EXCEPT ![c] = Page]
    /\ UNCHANGED <<client, request, touched, changes>>

\* The client checks the request that it sent; the method is still that.
Checks(c) ==
    /\ client[c] = "waiting" /\ response[c] # NoResponse
    /\ LET sent == [upgrade_request(c) EXCEPT !.method = request[c].method]
       IN  client' = [client EXCEPT ![c] = IF check_upgrade_response(sent, response[c]) THEN "open" ELSE "refused"]
    /\ UNCHANGED <<server, request, response, touched, changes>>

\* What proxies do to the headers of a message: a token before or after those of Connection,
\* a Connection header before it, a header less.
Changed(headers) ==
    {[headers EXCEPT !.Connection = <<<<"keep-alive">> \o Get(headers, "Connection")>>],
     [headers EXCEPT !.Connection = <<Get(headers, "Connection") \o <<"keep-alive">>>>],
     [headers EXCEPT !.Connection = <<<<"keep-alive">>>> \o @],
     [headers EXCEPT !.Connection = @ \o <<<<"keep-alive">>>>]}
      \cup {[headers EXCEPT ![name] = Absent] : name \in Names \ {"Connection"}}

Touches(c) ==
    /\ client[c] = "waiting" /\ changes < MaxChanges
    /\ changes' = changes + 1
    /\ UNCHANGED <<client, server>>

ChangesRequest(c) ==
    /\ server[c] = "none"
    /\ Touches(c)
    /\ \E headers \in Changed(request[c].headers) : request' = [request EXCEPT ![c].headers = headers]
    /\ UNCHANGED <<response, touched>>

ChangesResponse(c) ==
    /\ response[c] # NoResponse
    /\ Touches(c)
    /\ touched' = touched \cup {c}
    /\ \E headers \in Changed(response[c].headers) :
          response' = [response EXCEPT ![c].headers = headers]
    /\ UNCHANGED request

\* A response out of a cache, or on the wrong connection.
Misroutes(c, other) ==
    /\ c # other /\ response[other] # NoResponse
    /\ Touches(c)
    /\ touched' = touched \cup {c}
    /\ response' = [response EXCEPT ![c] = response[other]]
    /\ UNCHANGED request

Stopped == (\A c \in Clients : client[c] \in {"open", "refused"}) /\ UNCHANGED vars

Next ==
    \/ \E c \in Clients : \/ Asks(c) \/ Serves(c) \/ Checks(c)
                          \/ ChangesRequest(c) \/ ChangesResponse(c)
                          \/ \E other \in Clients : Misroutes(c, other)
    \/ Stopped

Spec == Init /\ [][Next]_vars
------------------------------------------------------------------------------
(* Correctness *)

\* check_upgrade_response opens a connection only if the server upgraded this very request,
\* whoever's response was handed to the client.
OpenIsUpgraded == \A c \in Clients : client[c] = "open" => server[c] = "upgraded"

\* A server that upgraded is left alone, by upgrade_response and check_upgrade_response, only
\* if the response was changed on its way; what was done to the request does not come between
\* the two, for either both sides go by the request or neither does.
UpgradedIsOpen ==
    \A c \in Clients : server[c] = "upgraded" /\ c \notin touched => client[c] # "refused"
==============================================================================
