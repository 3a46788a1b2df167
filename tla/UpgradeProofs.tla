---------------------------- MODULE UpgradeProofs ----------------------------
(***************************************************************************)
(* The two theorems about the handshake of Upgrade, for any number of      *)
(* clients and however often proxies change and misroute the messages.     *)
(***************************************************************************)
EXTENDS Upgrade, TLAPS

\* A digest on its way to anybody is of a request that the server upgraded.
Vouched ==
    \A c, d \in Clients : response[c].headers.Accept = <<d>> => server[d] = "upgraded"

\* The request as its client sent it.
Sent(c) == [upgrade_request(c) EXCEPT !.method = request[c].method]

\* A response that nobody touched is the server's own, to a GET.
Genuine(c) ==
    CASE server[c] = "none"     -> response[c] = NoResponse
      [] server[c] = "upgraded" -> /\ request[c].method = "GET"
                                   /\ response[c].status = "101"
                                   /\ response[c].headers.Connection = <<<<"upgrade">>>>
                                   /\ response[c].headers.Upgrade = <<"websocket">>
                                   /\ response[c].headers.Accept = <<c>>
      [] OTHER                  -> TRUE

\* What the server does, it does for a client that asked.
Asked == \A c \in Clients : client[c] = "new" => server[c] = "none"

IInv ==
    /\ TypeOK
    /\ Vouched
    /\ Asked
    /\ OpenIsUpgraded
    /\ \A c \in Clients \ touched :
          /\ Genuine(c)
          /\ server[c] \in {"none", "upgraded"} => client[c] # "refused"

LEMMA OwnRequest ==
    ASSUME NEW c, NEW sent, NEW method, sent = [upgrade_request(c) EXCEPT !.method = method]
    PROVE  /\ is_upgrade_request(sent) <=> method = "GET"
           /\ sent.headers = upgrade_request(c).headers /\ Get(sent.headers, "Key") = c
           /\ DOMAIN sent = {"method", "headers"} /\ sent.method = method
           /\ DOMAIN sent.headers = Names /\ sent.headers.Key = <<c>>
<1>1. /\ DOMAIN UpgradeHeaders = Names
      /\ UpgradeHeaders.Connection = <<<<"upgrade">>>> /\ UpgradeHeaders.Upgrade = <<"websocket">>
    BY DEF UpgradeHeaders, NoHeader, Names
<1>2. upgrade_request(c)
        = [method |-> "GET", headers |-> [UpgradeHeaders EXCEPT !.Version = <<"13">>, !.Key = <<c>>]]
    BY DEF upgrade_request
<1>3. /\ DOMAIN sent = {"method", "headers"} /\ sent.method = method
      /\ sent.headers = upgrade_request(c).headers
    BY <1>2
<1>4. /\ DOMAIN sent.headers = Names /\ sent.headers.Connection = <<<<"upgrade">>>>
      /\ sent.headers.Upgrade = <<"websocket">> /\ sent.headers.Version = <<"13">>
      /\ sent.headers.Key = <<c>>
  <2>1. sent.headers = [UpgradeHeaders EXCEPT !.Version = <<"13">>, !.Key = <<c>>]
      BY <1>2, <1>3
  <2>2. QED
      BY <1>1, <2>1 DEF Names
<1>5. has_upgrade_headers(sent.headers)
    BY <1>4 DEF has_upgrade_headers, Get, Absent
<1>6. QED
    BY <1>3, <1>4, <1>5 DEF is_upgrade_request, Get

\* What check_upgrade_response asks of a response, in terms of its first values.
LEMMA Checked ==
    ASSUME NEW c, NEW r
    PROVE  check_upgrade_response(Sent(c), r)
             <=> /\ request[c].method = "GET" /\ r.status = "101"
                 /\ r.headers.Connection # Absent /\ Head(r.headers.Connection) = <<"upgrade">>
                 /\ r.headers.Upgrade # Absent /\ Head(r.headers.Upgrade) = "websocket"
                 /\ r.headers.Accept # Absent /\ Head(r.headers.Accept) = c
<1>1. Get(Sent(c).headers, "Key") = c /\ (is_upgrade_request(Sent(c)) <=> request[c].method = "GET")
    BY OwnRequest DEF Sent
<1>2. QED
    BY <1>1 DEF check_upgrade_response, same_challenge, upgrade_challenge_response, Get

\* What proxies change keeps the key and the digest, or takes it away.
LEMMA ChangedHeaders ==
    ASSUME NEW old, DOMAIN old = Names, NEW new \in Changed(old)
    PROVE  /\ DOMAIN new = Names
           /\ new.Key \in {Absent, old.Key} /\ new.Accept \in {Absent, old.Accept}
BY DEF Changed, Names

LEMMA InitIInv == Init => IInv
<1> SUFFICES ASSUME Init PROVE IInv
    OBVIOUS
<1>1. TypeOK
    BY UpgradeAssumption
    DEF UpgradeAssumption, Init, TypeOK, NoRequest, NoResponse, NoHeader, Names, Absent
<1>2. \A c, d \in Clients : response[c].headers.Accept # <<d>>
    BY DEF Init, NoResponse, NoHeader, Names, Absent
<1>3. \A c \in Clients : Genuine(c) /\ client[c] = "new"
    BY DEF Init, Genuine
<1>4. QED
    BY <1>1, <1>2, <1>3 DEF IInv, Vouched, Asked, OpenIsUpgraded, Init

------------------------------------------------------------------------------
(* The steps: what each leaves of a client other than its own is unchanged. *)

LEMMA AsksIInv == ASSUME IInv, NEW c \in Clients, Asks(c) PROVE IInv'
<1>1. PICK method \in Methods :
          request' = [request EXCEPT ![c] = [upgrade_request(c) EXCEPT !.method = method]]
    BY DEF Asks
<1>2. PICK sent : sent = [upgrade_request(c) EXCEPT !.method = method]
    OBVIOUS
<1>3. /\ DOMAIN sent = {"method", "headers"} /\ sent.method \in Methods
      /\ DOMAIN sent.headers = Names /\ sent.headers.Key = <<c>>
    BY <1>2, OwnRequest
<1>4. /\ client[c] = "new" /\ client' = [client EXCEPT ![c] = "waiting"]
      /\ request' = [request EXCEPT ![c] = sent]
      /\ UNCHANGED <<server, response, touched, changes>>
    BY <1>1, <1>2 DEF Asks
<1>5. TypeOK'
    BY <1>3, <1>4 DEF IInv, TypeOK
<1>6. Vouched'
    BY <1>4 DEF IInv, Vouched
<1>7. OpenIsUpgraded'
    BY <1>4 DEF IInv, TypeOK, OpenIsUpgraded
<1>8. ASSUME NEW d \in Clients \ touched
      PROVE  Genuine(d)' /\ (server[d] \in {"none", "upgraded"} => client[d] # "refused")'
  <2>1. server[c] = "none"
      BY <1>4 DEF IInv, Asked
  <2>2. QED
      BY <1>4, <1>8, <2>1 DEF IInv, TypeOK, Genuine
<1>9. Asked'
    BY <1>4 DEF IInv, TypeOK, Asked
<1>10. QED
    BY <1>4, <1>5, <1>6, <1>7, <1>8, <1>9 DEF IInv

LEMMA ServesIInv == ASSUME IInv, NEW c \in Clients, Serves(c) PROVE IInv'
<1>1. CASE is_upgrade_request(request[c])
  <2>1. request[c].headers.Key = <<c>> /\ request[c].method = "GET"
      BY <1>1 DEF IInv, TypeOK, is_upgrade_request, has_upgrade_headers
  <2>2. /\ server' = [server EXCEPT ![c] = "upgraded"]
        /\ response' = [response EXCEPT ![c] = upgrade_response(request[c])]
        /\ UNCHANGED <<client, request, touched, changes>>
        /\ server[c] = "none" /\ client[c] # "new"
      BY <1>1 DEF Serves
  <2>3. /\ upgrade_response(request[c]).status = "101"
        /\ upgrade_response(request[c]).headers.Connection = <<<<"upgrade">>>>
        /\ upgrade_response(request[c]).headers.Upgrade = <<"websocket">>
        /\ upgrade_response(request[c]).headers.Accept = <<c>>
        /\ DOMAIN upgrade_response(request[c]) = {"status", "headers"}
        /\ DOMAIN upgrade_response(request[c]).headers = Names
    <3>1. Get(request[c].headers, "Key") = c
        BY <2>1 DEF Get
    <3>2. upgrade_response(request[c])
            = [status |-> "101", headers |-> [UpgradeHeaders EXCEPT !.Accept = <<c>>]]
        BY <3>1 DEF upgrade_response, upgrade_challenge_response
    <3>3. /\ DOMAIN UpgradeHeaders = Names
          /\ UpgradeHeaders.Connection = <<<<"upgrade">>>> /\ UpgradeHeaders.Upgrade = <<"websocket">>
        BY DEF UpgradeHeaders, NoHeader, Names
    <3>4. QED
        BY <3>2, <3>3 DEF Names
  <2>4. TypeOK'
      BY <2>2, <2>3 DEF IInv, TypeOK, Signed
  <2>5. Vouched'
    <3>1. ASSUME NEW d \in Clients, NEW e \in Clients, (response[d].headers.Accept = <<e>>)'
          PROVE  server'[e] = "upgraded"
      <4>1. CASE d = c
          BY <2>2, <2>3, <3>1, <4>1 DEF IInv, TypeOK
      <4>2. CASE d # c
          BY <2>2, <3>1, <4>2 DEF IInv, TypeOK, Vouched
      <4>3. QED
          BY <4>1, <4>2
    <3>2. QED
        BY <3>1 DEF Vouched
  <2>6. OpenIsUpgraded'
      BY <2>2 DEF IInv, TypeOK, OpenIsUpgraded
  <2>7. ASSUME NEW d \in Clients \ touched
        PROVE  Genuine(d)' /\ (server[d] \in {"none", "upgraded"} => client[d] # "refused")'
    <3>1. CASE d = c
      <4>1. /\ server'[d] = "upgraded" /\ response'[d] = upgrade_response(request[c])
            /\ request'[d].method = "GET" /\ client'[d] = client[d] /\ client[d] # "refused"
          BY <2>1, <2>2, <2>7, <3>1 DEF IInv, TypeOK
      <4>2. QED
          BY <2>3, <3>1, <4>1 DEF Genuine
    <3>2. CASE d # c
        BY <2>2, <2>7, <3>2 DEF IInv, TypeOK, Genuine
    <3>3. QED
        BY <3>1, <3>2
  <2>8. Asked'
      BY <2>2 DEF IInv, TypeOK, Asked
  <2>9. QED
      BY <2>2, <2>4, <2>5, <2>6, <2>7, <2>8 DEF IInv
<1>2. CASE ~is_upgrade_request(request[c])
  <2>1. /\ server' = [server EXCEPT ![c] = "page"]
        /\ response' = [response EXCEPT ![c] = Page]
        /\ UNCHANGED <<client, request, touched, changes>>
        /\ server[c] = "none" /\ client[c] # "new"
      BY <1>2 DEF Serves
  <2>2. /\ Page.status = "200" /\ Page.headers.Accept = Absent
        /\ DOMAIN Page = {"status", "headers"} /\ DOMAIN Page.headers = Names
      BY DEF Page, NoHeader, Names
  <2>3. TypeOK'
      BY <2>1, <2>2 DEF IInv, TypeOK
  <2>4. Vouched'
    <3>1. ASSUME NEW d \in Clients, NEW e \in Clients, (response[d].headers.Accept = <<e>>)'
          PROVE  server'[e] = "upgraded"
      <4>1. CASE d = c
        <5>1. response'[d] = Page
            BY <2>1, <4>1 DEF IInv, TypeOK
        <5>2. Absent = <<e>>
            BY <2>2, <3>1, <5>1
        <5>3. QED
            BY <5>2 DEF Absent
      <4>2. CASE d # c
          BY <2>1, <3>1, <4>2 DEF IInv, TypeOK, Vouched
      <4>3. QED
          BY <4>1, <4>2
    <3>2. QED
        BY <3>1 DEF Vouched
  <2>5. OpenIsUpgraded'
      BY <2>1 DEF IInv, TypeOK, OpenIsUpgraded
  <2>6. ASSUME NEW d \in Clients \ touched
        PROVE  Genuine(d)' /\ (server[d] \in {"none", "upgraded"} => client[d] # "refused")'
      BY <2>1, <2>6 DEF IInv, TypeOK, Genuine
  <2>7. Asked'
      BY <2>1 DEF IInv, TypeOK, Asked
  <2>8. QED
      BY <2>1, <2>3, <2>4, <2>5, <2>6, <2>7 DEF IInv
<1>3. QED
    BY <1>1, <1>2

LEMMA ChecksIInv == ASSUME IInv, NEW c \in Clients, Checks(c) PROVE IInv'
<1> DEFINE passes == check_upgrade_response(Sent(c), response[c])
<1>1. /\ client[c] = "waiting" /\ client' = [client EXCEPT ![c] = IF passes THEN "open" ELSE "refused"]
      /\ UNCHANGED <<server, request, response, touched, changes>>
      /\ response[c] # NoResponse
    BY DEF Checks, Sent
<1>2. ASSUME passes PROVE server[c] = "upgraded"
  <2>1. response[c].headers.Accept # Absent /\ Head(response[c].headers.Accept) = c
      BY <1>2, Checked
  <2>2. response[c].headers.Accept \in Signed
      BY <2>1 DEF IInv, TypeOK
  <2>3. response[c].headers.Accept = <<c>>
      BY <2>1, <2>2 DEF Signed
  <2>4. QED
      BY <2>3 DEF IInv, Vouched
<1>3. ASSUME c \notin touched, server[c] \in {"none", "upgraded"} PROVE passes
  <2>1. Genuine(c)
      BY <1>3 DEF IInv
  <2>2. server[c] = "upgraded"
      BY <1>1, <1>3, <2>1 DEF Genuine
  <2>3. /\ request[c].method = "GET" /\ response[c].status = "101"
        /\ response[c].headers.Connection = <<<<"upgrade">>>>
        /\ response[c].headers.Upgrade = <<"websocket">>
        /\ response[c].headers.Accept = <<c>>
      BY <2>1, <2>2 DEF Genuine
  <2>4. QED
      BY <2>3, Checked DEF Absent
<1> HIDE DEF passes
<1>4. TypeOK'
    BY <1>1 DEF IInv, TypeOK
<1>5. Vouched'
    BY <1>1 DEF IInv, Vouched
<1>6. OpenIsUpgraded'
    BY <1>1, <1>2 DEF IInv, TypeOK, OpenIsUpgraded
<1>7. ASSUME NEW d \in Clients \ touched
      PROVE  Genuine(d)' /\ (server[d] \in {"none", "upgraded"} => client[d] # "refused")'
    BY <1>1, <1>3, <1>7 DEF IInv, TypeOK, Genuine
<1>8. Asked'
    BY <1>1 DEF IInv, TypeOK, Asked
<1>9. QED
    BY <1>1, <1>4, <1>5, <1>6, <1>7, <1>8 DEF IInv

LEMMA ChangesRequestIInv == ASSUME IInv, NEW c \in Clients, ChangesRequest(c) PROVE IInv'
<1>1. PICK headers \in Changed(request[c].headers) : request' = [request EXCEPT ![c].headers = headers]
    BY DEF ChangesRequest
<1>2. UNCHANGED <<client, server, response, touched>> /\ changes \in Nat /\ changes' = changes + 1
      /\ changes < MaxChanges
    BY UpgradeAssumption DEF ChangesRequest, Touches, IInv, TypeOK, UpgradeAssumption
<1>3. DOMAIN headers = Names /\ headers.Key \in {Absent, <<c>>}
    BY ChangedHeaders DEF IInv, TypeOK
<1>4. changes' \in 0..MaxChanges
    BY <1>2, UpgradeAssumption DEF UpgradeAssumption
<1>5. /\ \A d \in Clients : request'[d].method = request[d].method
      /\ request'[c].headers = headers /\ \A d \in Clients \ {c} : request'[d] = request[d]
      /\ DOMAIN request'[c] = {"method", "headers"} /\ DOMAIN request' = Clients
    BY <1>1 DEF IInv, TypeOK
<1>6. TypeOK'
    BY <1>2, <1>3, <1>4, <1>5 DEF IInv, TypeOK
<1>7. Vouched' /\ OpenIsUpgraded' /\ Asked'
    BY <1>2 DEF IInv, Vouched, OpenIsUpgraded, Asked
<1>8. ASSUME NEW d \in Clients \ touched
      PROVE  Genuine(d)' /\ (server[d] \in {"none", "upgraded"} => client[d] # "refused")'
    BY <1>2, <1>5, <1>8 DEF IInv, Genuine
<1>9. QED
    BY <1>2, <1>6, <1>7, <1>8 DEF IInv

\* A response that changes, to headers with the same digest or none or to another client's.
LEMMA TouchedIInv ==
    ASSUME IInv, NEW c \in Clients, Touches(c), touched' = touched \cup {c}, request' = request,
           NEW r, response' = [response EXCEPT ![c] = r],
           DOMAIN r = {"status", "headers"}, r.status \in {"none", "101", "200"},
           DOMAIN r.headers = Names,
           \/ r.headers.Accept = Absent
           \/ \E d \in Clients : r.headers.Accept = response[d].headers.Accept
    PROVE  IInv'
<1>1. UNCHANGED <<client, server>> /\ changes \in Nat /\ changes' = changes + 1
      /\ changes < MaxChanges
    BY UpgradeAssumption DEF Touches, IInv, TypeOK, UpgradeAssumption
<1>2. changes' \in 0..MaxChanges
    BY <1>1, UpgradeAssumption DEF UpgradeAssumption
<1>3. r.headers.Accept \in Signed \cup {Absent}
    BY DEF IInv, TypeOK
<1>4. TypeOK'
    BY <1>1, <1>2, <1>3 DEF IInv, TypeOK
<1>5. Vouched'
  <2>1. ASSUME NEW d \in Clients, NEW e \in Clients, (response[d].headers.Accept = <<e>>)'
        PROVE  server[e] = "upgraded"
    <3>1. CASE d # c
        BY <2>1, <3>1 DEF IInv, TypeOK, Vouched
    <3>2. CASE d = c
      <4>1. r.headers.Accept = <<e>>
          BY <2>1, <3>2 DEF IInv, TypeOK
      <4>2. Absent # <<e>>
          BY DEF Absent
      <4>3. QED
          BY <4>1, <4>2 DEF IInv, Vouched
    <3>3. QED
        BY <3>1, <3>2
  <2>2. QED
      BY <1>1, <2>1 DEF Vouched
<1>6. OpenIsUpgraded'
    BY <1>1 DEF IInv, OpenIsUpgraded
<1>7. ASSUME NEW d \in Clients \ touched'
      PROVE  Genuine(d)' /\ (server[d] \in {"none", "upgraded"} => client[d] # "refused")'
    BY <1>1, <1>7 DEF IInv, TypeOK, Genuine
<1>8. Asked'
    BY <1>1 DEF IInv, Asked
<1>9. QED
    BY <1>4, <1>5, <1>6, <1>7, <1>8 DEF IInv

LEMMA NextIInv == ASSUME IInv, [Next]_vars PROVE IInv'
<1>1. ASSUME NEW c \in Clients, ChangesResponse(c) PROVE IInv'
  <2>1. PICK headers \in Changed(response[c].headers) :
            response' = [response EXCEPT ![c].headers = headers]
      BY <1>1 DEF ChangesResponse
  <2>2. DOMAIN headers = Names /\ headers.Accept \in {Absent, response[c].headers.Accept}
      BY ChangedHeaders DEF IInv, TypeOK
  <2>3. Touches(c) /\ touched' = touched \cup {c} /\ request' = request
      BY <1>1 DEF ChangesResponse
  <2> DEFINE r == [response[c] EXCEPT !.headers = headers]
  <2>4. response' = [response EXCEPT ![c] = r]
      BY <2>1
  <2>5. /\ DOMAIN r = {"status", "headers"} /\ r.status = response[c].status
        /\ r.headers = headers
      BY DEF IInv, TypeOK
  <2>6. r.status \in {"none", "101", "200"}
      BY <2>5 DEF IInv, TypeOK
  <2>7. QED
    <3> HIDE DEF r
    <3>1. QED
        BY <2>2, <2>3, <2>4, <2>5, <2>6, TouchedIInv
<1>2. ASSUME NEW c \in Clients, NEW other \in Clients, Misroutes(c, other) PROVE IInv'
  <2>1. /\ Touches(c) /\ touched' = touched \cup {c} /\ request' = request
        /\ response' = [response EXCEPT ![c] = response[other]]
      BY <1>2 DEF Misroutes
  <2>2. /\ DOMAIN response[other] = {"status", "headers"}
        /\ response[other].status \in {"none", "101", "200"}
        /\ DOMAIN response[other].headers = Names
      BY DEF IInv, TypeOK
  <2>3. QED
      BY <2>1, <2>2, TouchedIInv
<1>3. CASE UNCHANGED vars
    BY <1>3 DEF vars, IInv, TypeOK, Vouched, Asked, OpenIsUpgraded, Genuine
<1>4. QED
    BY <1>1, <1>2, <1>3, AsksIInv, ServesIInv, ChecksIInv, ChangesRequestIInv DEF Next, Stopped

LEMMA Invariant == Spec => []IInv
BY InitIInv, NextIInv, PTL DEF Spec

\* Requests keep the four headers, keys and digests are a client's or none, and nothing but
\* the two statuses of the server reaches a client, whatever proxies change.
THEOREM TypeCorrect == Spec => []TypeOK
<1>1. IInv => TypeOK
    BY DEF IInv
<1>2. QED
    BY <1>1, Invariant, PTL

\* No response can open a connection on a request that the server did not upgrade
\* (check_upgrade_response), for any number of clients and of misrouted responses.
THEOREM OnlyUpgradedOpen == Spec => []OpenIsUpgraded
<1>1. IInv => OpenIsUpgraded
    BY DEF IInv
<1>2. QED
    BY <1>1, Invariant, PTL

\* Every upgrade_response that reaches its client as it was made passes its
\* check_upgrade_response, whatever proxies did to the request it answers.
THEOREM UpgradedOpens == Spec => []UpgradedIsOpen
<1>1. IInv => UpgradedIsOpen
    BY DEF IInv, UpgradedIsOpen
<1>2. QED
    BY <1>1, Invariant, PTL
==============================================================================
