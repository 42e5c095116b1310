----------------------------- MODULE DhcpServer -----------------------------
(***************************************************************************)
(* The DHCP server of the soft AP (func/lwip_intf/dhcpd/dhcp-server.c)     *)
(* and the stations that ask it for addresses.                             *)
(*                                                                         *)
(* One thread runs the server, so process_dhcp_message is one step here:   *)
(* nothing else writes the structure dhcps while the server is up.  The    *)
(* stations are not part of the SDK: they are RFC 2131 clients, modelled   *)
(* from the messages the server parses.  Messages are lost, delayed and    *)
(* reordered at will; every reply is sent up to four times, so a reply may *)
(* be read more than once.                                                 *)
(*                                                                         *)
(* An address is its host part, 0 .. Size-1, as the network part is the    *)
(* AP's own; Outside stands for all addresses of other networks.  A        *)
(* behaviour is one session of the server: dhcp_server_init clears the     *)
(* registrations, and a station that lived through an earlier session      *)
(* enters this one remembering an address.  Two outputs that nothing here   *)
(* reads are left out: the indication APM_GOT_IP_IND to the application,   *)
(* and the default network interface, which a broadcast switches.          *)
(***************************************************************************)
EXTENDS Integers, Sequences, FiniteSets

CONSTANTS Macs,        \* the stations
          StaMax,      \* CFG_STA_MAX: stations associated at one time
          CacheSize,   \* MAC_IP_CACHE_SIZE
          Size,        \* addresses in the subnet, ~netmask + 1
          MyHost,      \* the AP's own host part
          Remembered,  \* what a station may remember from earlier sessions
          Fickle       \* the stations that may decline or give up

Hosts == 0 .. Size - 1
NoIp == -1             \* CLIENT_IP_NOT_FOUND, or an option that is absent
Outside == Size
Addresses == Hosts \cup {Outside}

ASSUME SubnetAssumption ==
  /\ Size \in Nat \ {0}
  /\ MyHost \in Hosts
  /\ Remembered \subseteq Addresses \cup {NoIp}
ASSUME CacheAssumption == CacheSize \in Nat \ {0} /\ StaMax \in Nat \ {0}
ASSUME StationAssumption == IsFiniteSet(Macs) /\ Fickle \subseteq Macs

VARIABLES
  cache,     \* dhcps.ip_mac_mapping[0 .. count_clients-1]
  current,   \* dhcps.current_ip
  hung,      \* the thread is in the loop of next_yiaddr for ever
  st,        \* what each station is doing
  ip,        \* the address each station remembers, asks for or uses
  requests,  \* messages on their way to the server
  replies    \* replies a station would still accept

serverVars == <<cache, current, hung>>
vars == <<cache, current, hung, st, ip, requests, replies>>

Entry == [mac : Macs, ip : Hosts]
Request == [type : {"DISCOVER", "REQUEST", "DECLINE", "RELEASE"}, mac : Macs,
            ip : Addresses \cup {NoIp}, fresh : BOOLEAN]
Reply == [type : {"OFFER", "ACK", "NAK"}, mac : Macs, ip : Addresses \cup {NoIp}]
StationState == {"away", "init", "selecting", "requesting", "bound", "renewing"}

TypeOK ==
  /\ cache \in Seq(Entry) /\ Len(cache) <= CacheSize
  /\ current \in Hosts
  /\ hung \in BOOLEAN
  /\ st \in [Macs -> StationState]
  /\ ip \in [Macs -> Addresses \cup {NoIp}]
  /\ requests \subseteq Request
  /\ replies \subseteq Reply

-----------------------------------------------------------------------------
(* The registrations.  c is an array of registrations.                     *)

Indices(c) == 1 .. Len(c)
ac_not_full(c) == Len(c) < CacheSize
Known(c, m) == \E i \in Indices(c) : c[i].mac = m
Registered(c, m, a) == \E i \in Indices(c) : c[i].mac = m /\ c[i].ip = a

\* ac_add stores nothing when the array is full.
ac_add(c, m, a) == IF ac_not_full(c) THEN Append(c, [mac |-> m, ip |-> a]) ELSE c

\* The first entry of m.
ac_lookup_mac(c, m) ==
  IF Known(c, m)
  THEN c[CHOOSE i \in Indices(c) :
           c[i].mac = m /\ \A j \in 1 .. i - 1 : c[j].mac # m].ip
  ELSE NoIp

\* Mutant: the array is not looked at.
ac_valid_ip_ThreeOnly(c, a) == a \notin {MyHost, 0, Size - 1}

\* The AP's own address, the network address and the broadcast address are
\* never handed out, nor is an address of the array.
Unusable == {MyHost, 0, Size - 1}
ac_valid_ip(c, a) == a \notin Unusable /\ \A i \in Indices(c) : c[i].ip # a

\* Mutant: the loop looks at the same address for ever.
Exhausted_FirstOnly(c) == ~ac_valid_ip(c, (current + 1) % Size)

\* next_yiaddr walks cyclically through the subnet from the address after cur
\* to the first valid one.  The walk never ends when there is none.
Exhausted(c) == \A a \in Hosts : ~ac_valid_ip(c, a)
\* Mutant: the walk leaves the subnet at its end.
After_NoWrap(cur, k) == cur + k
After(cur, k) == (cur + k) % Size
next_host(c, cur) ==
  LET k == CHOOSE n \in 1 .. Size :
             /\ ac_valid_ip(c, After(cur, n))
             /\ \A j \in 1 .. n - 1 : ~ac_valid_ip(c, After(cur, j))
  IN After(cur, k)

\* Mutants of the block: a station that is known may be registered again; it may
\* change its address; nothing is registered; a known station is refused.
Claim_KnownToo(c, m, a) == IF a \in Hosts /\ ac_valid_ip(c, a) THEN ac_add(c, m, a) ELSE c
Claim_Moves(c, m, a) ==
  IF a \in Hosts /\ ac_valid_ip(c, a)
  THEN [i \in Indices(c) |-> IF c[i].mac = m THEN [mac |-> m, ip |-> a] ELSE c[i]]
  ELSE c
Claim_Forgets(c, m, a) == c
Granted_NewOnly(c, m, a) == a \in Hosts /\ ac_valid_ip(c, a)

\* The block `if (got_client_ip)` of process_dhcp_message, for a station m that
\* asks for a: the address is registered for a new station ...
Claim(c, m, a) ==
  IF a \in Hosts /\ ~Known(c, m) /\ ac_valid_ip(c, a) THEN ac_add(c, m, a) ELSE c
\* ... and got_ip says whether the station may go on with it.  The block runs
\* once for every option after the address: the later runs find the entry the
\* first one made, or a full array, and change neither result.
Granted(c, m, a) ==
  a \in Hosts /\ IF Known(c, m) THEN ac_lookup_mac(c, m) = a ELSE ac_valid_ip(c, a)

-----------------------------------------------------------------------------
(* The server.                                                             *)

\* make_response and the one unicast and three broadcast calls of send_response
\* that carry it; that any of them fails is a reply that is lost.  A station ignores
\* the reply to a request it has given up (its xid is old).
Respond(q, type, a) ==
  replies' = IF q.fresh
             THEN replies \cup {[type |-> type, mac |-> q.mac, ip |-> a]}
             ELSE replies

Receive(q) == ~hung /\ q \in requests /\ requests' = requests \ {q}

\* An unknown station is offered, and registered with, the address that
\* next_yiaddr comes to; with no valid address the thread stays in its loop.
OfferNext(q, c) ==
  /\ hung' = Exhausted(c)
  /\ IF Exhausted(c)
     THEN cache' = c /\ UNCHANGED <<current, replies>>
     ELSE /\ current' = next_host(c, current)
          /\ cache' = ac_add(c, q.mac, current')
          /\ Respond(q, "OFFER", current')

\* A DISCOVER is answered with the station's registered address, the one it
\* asked for if it could have it, or the next free one.
ServeDiscover(q) ==
  LET claimed == Claim(cache, q.mac, q.ip)
  IN /\ q.type = "DISCOVER"
     /\ Receive(q)
     /\ \/ /\ Known(claimed, q.mac)
           /\ cache' = claimed
           /\ Respond(q, "OFFER", ac_lookup_mac(claimed, q.mac))
           /\ UNCHANGED <<current, hung>>
        \/ ~Known(claimed, q.mac) /\ OfferNext(q, claimed)
     /\ UNCHANGED <<st, ip>>

\* A REQUEST is acknowledged or refused.
ServeRequest(q) ==
  /\ q.type = "REQUEST"
  /\ Receive(q)
  /\ cache' = Claim(cache, q.mac, q.ip)
  /\ IF Granted(cache, q.mac, q.ip) THEN Respond(q, "ACK", q.ip)
                                    ELSE Respond(q, "NAK", NoIp)
  /\ UNCHANGED <<current, hung, st, ip>>

\* Every other type is ignored, after its options have been parsed: the address
\* a DECLINE names is registered like any other.
ServeOther(q) ==
  /\ q.type \in {"DECLINE", "RELEASE"}
  /\ Receive(q)
  /\ cache' = Claim(cache, q.mac, q.ip)
  /\ UNCHANGED <<current, hung, replies, st, ip>>

-----------------------------------------------------------------------------
(* The stations.                                                           *)

Send(m, type, a) ==
  requests' = requests \cup {[type |-> type, mac |-> m, ip |-> a, fresh |-> TRUE]}

\* A new transaction: a new xid, for which the replies to the old one, and those
\* the server has still to send, mean nothing.
Dated == [m \in Macs |-> {[q EXCEPT !.fresh = FALSE] : q \in {r \in requests : r.mac = m}}]
Begin(m, type, a) ==
  /\ requests' = {q \in requests : q.mac # m} \cup Dated[m]
                 \cup {[type |-> type, mac |-> m, ip |-> a, fresh |-> TRUE]}
  /\ replies' = {r \in replies : r.mac # m}

Become(m, state, a) == st' = [st EXCEPT ![m] = state] /\ ip' = [ip EXCEPT ![m] = a]

Join(m) ==
  /\ st[m] = "away"
  /\ Cardinality({n \in Macs : st[n] # "away"}) < StaMax
  /\ Become(m, "init", ip[m])
  /\ UNCHANGED <<serverVars, requests, replies>>

\* The station leaves the cell, whatever it was doing; it remembers its address.
Leave(m) ==
  /\ st[m] # "away"
  /\ Become(m, "away", ip[m])
  /\ replies' = {r \in replies : r.mac # m}
  /\ requests' = {q \in requests : q.mac # m} \cup Dated[m]
  /\ UNCHANGED serverVars

\* With or without the requested-address option.
Discover(m) ==
  /\ st[m] = "init"
  /\ \E a \in {ip[m], NoIp} : Begin(m, "DISCOVER", a)
  /\ Become(m, "selecting", ip[m])
  /\ UNCHANGED serverVars

Reboot(m) ==
  /\ st[m] = "init" /\ ip[m] # NoIp
  /\ Begin(m, "REQUEST", ip[m])
  /\ Become(m, "requesting", ip[m])
  /\ UNCHANGED serverVars

\* The address is in ciaddr instead of an option.
Renew(m) ==
  /\ st[m] = "bound"
  /\ Begin(m, "REQUEST", ip[m])
  /\ Become(m, "renewing", ip[m])
  /\ UNCHANGED serverVars

Retry(m) ==
  /\ \/ st[m] = "selecting" /\ \E a \in {ip[m], NoIp} : Send(m, "DISCOVER", a)
     \/ st[m] \in {"requesting", "renewing"} /\ Send(m, "REQUEST", ip[m])
  /\ UNCHANGED <<serverVars, replies, st, ip>>

TakeOffer(m) ==
  /\ st[m] = "selecting"
  /\ \E r \in replies :
       /\ r.mac = m /\ r.type = "OFFER"
       /\ Send(m, "REQUEST", r.ip)
       /\ Become(m, "requesting", r.ip)
  /\ UNCHANGED <<serverVars, replies>>

Acked(m) == \E r \in replies : r.mac = m /\ r.type = "ACK" /\ r.ip = ip[m]

Bind(m) ==
  /\ st[m] \in {"requesting", "renewing"} /\ Acked(m)
  /\ Become(m, "bound", ip[m])
  /\ UNCHANGED <<serverVars, requests, replies>>

Refused(m) ==
  /\ st[m] \in {"requesting", "renewing"}
  /\ \E r \in replies : r.mac = m /\ r.type = "NAK"
  /\ Become(m, "init", NoIp)
  /\ UNCHANGED <<serverVars, requests, replies>>

\* The station finds its new address in use.
Decline(m) ==
  /\ m \in Fickle
  /\ st[m] = "requesting" /\ Acked(m)
  /\ Begin(m, "DECLINE", ip[m])
  /\ Become(m, "init", NoIp)
  /\ UNCHANGED serverVars

Release(m) ==
  /\ st[m] = "bound"
  /\ Begin(m, "RELEASE", NoIp)
  /\ Become(m, "init", ip[m])
  /\ UNCHANGED serverVars

GiveUp(m) ==
  /\ m \in Fickle
  /\ st[m] \in {"selecting", "requesting", "renewing"}
  /\ Become(m, "init", ip[m])
  /\ UNCHANGED <<serverVars, requests, replies>>

Lose ==
  /\ \/ /\ \E q \in requests : requests' = requests \ {q}
        /\ UNCHANGED replies
     \/ /\ \E r \in replies : replies' = replies \ {r}
        /\ UNCHANGED requests
  /\ UNCHANGED <<serverVars, st, ip>>

-----------------------------------------------------------------------------
Init ==
  /\ cache = <<>>
  /\ current = 99 % Size
  /\ hung = FALSE
  /\ st = [m \in Macs |-> "away"]
  /\ ip \in [Macs -> Remembered]
  /\ requests = {} /\ replies = {}

ServerStep == \E q \in requests : ServeDiscover(q) \/ ServeRequest(q) \/ ServeOther(q)

StationStep(m) ==
  \/ Join(m) \/ Leave(m)
  \/ Discover(m) \/ Reboot(m) \/ Renew(m) \/ Retry(m)
  \/ TakeOffer(m) \/ Bind(m) \/ Refused(m)
  \/ Decline(m) \/ Release(m) \/ GiveUp(m)

Next == ServerStep \/ (\E m \in Macs : StationStep(m)) \/ Lose

Spec == Init /\ [][Next]_vars

\* The server thread keeps running, stations keep retrying, and what is sent for
\* ever is received now and then.
Serve(m, type) ==
  \E q \in requests : /\ q.mac = m /\ q.type = type /\ q.fresh
                      /\ ServeDiscover(q) \/ ServeRequest(q)
Fairness ==
  \A m \in Macs :
    /\ SF_vars(Serve(m, "DISCOVER")) /\ SF_vars(Serve(m, "REQUEST"))
    /\ WF_vars(Discover(m) \/ Reboot(m)) /\ WF_vars(Retry(m))
    /\ SF_vars(TakeOffer(m)) /\ SF_vars(Bind(m)) /\ SF_vars(Refused(m))
FairSpec == Spec /\ Fairness

-----------------------------------------------------------------------------
(* What the server promises.                                               *)

\* No station and no address is registered twice, and no registered address is
\* the AP's own, the network's or the broadcast address (ac_add is called from
\* two places, next_yiaddr and the requested-address block, each with checks of
\* its own).
Exclusive(c) ==
  /\ \A i, j \in Indices(c) : i # j => c[i].mac # c[j].mac /\ c[i].ip # c[j].ip
  /\ \A i \in Indices(c) : c[i].ip \notin Unusable
RegistrationsExclusive == Exclusive(cache)

\* "if device requesting for ip address is already registered, if yes, assign
\* previous ip address to it": while the server is up a station's address never
\* changes, whatever the station asks for.
RegistrationStable ==
  [][\A m \in Macs, a \in Hosts : Registered(cache, m, a) => Registered(cache', m, a)]_vars

Using(m) == st[m] \in {"bound", "renewing"}

\* A registered station using its registered address shares it with nobody, also
\* not with a station that was acknowledged without being recorded.
RegisteredLeaseExclusive ==
  \A m, n \in Macs :
    m # n /\ Using(m) /\ Using(n) /\ Registered(cache, n, ip[n]) => ip[m] # ip[n]

\* No two stations use one address: an address is acknowledged to a station when
\* it is "not assigned to any other client" (dhcp-server.c:447).  The code looks at
\* the registrations only, so it takes an array with room for every station of
\* the session (DhcpSession); without it, two unregistered stations may share one.
LeasesExclusive == \A m, n \in Macs : m # n /\ Using(m) /\ Using(n) => ip[m] # ip[n]

\* What a station was offered is what it will be acknowledged: an offer or an
\* acknowledgement on its way names the address registered for that station, so
\* no station that follows the protocol is sent back to the start by a NAK.
OffersBacked ==
  \A r \in replies : r.type \in {"OFFER", "ACK"} => Registered(cache, r.mac, r.ip)

\* A station that asks for, or renews, the address registered for it is not
\* refused, however late the refusal of an earlier request is delivered.
RefusalsDeserved ==
  \A r \in replies : r.type = "NAK" /\ st[r.mac] \in {"requesting", "renewing"}
                    => ~Registered(cache, r.mac, ip[r.mac])

\* The server thread does not spin in next_yiaddr for ever.
NeverHung == ~hung

\* A station that asks for an address and stays gets one.
EveryStationServed ==
  \A m \in Macs : (st[m] = "selecting") ~> (st[m] \in {"bound", "away"})
=============================================================================
