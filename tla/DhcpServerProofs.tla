-------------------------- MODULE DhcpServerProofs --------------------------
(***************************************************************************)
(* Theorems about DhcpServer, for every number of stations, every size of  *)
(* the array and of the subnet, and whatever the stations remember.        *)
(*                                                                         *)
(* The argument: a promise (an offer or an acknowledgement on its way, or  *)
(* an address in use) is backed either by the registration of the station  *)
(* or by a full array that has neither the station nor the address.  Since *)
(* registrations are only added, and none is added to a full array, what   *)
(* backs a promise backs it for ever.  Refusals have an invariant of their *)
(* own: a refusal names no address, so it is told from what the station has*)
(* asked since it began anew.                                              *)
(***************************************************************************)
EXTENDS DhcpServer, TLAPS, FiniteSetTheorems, WellFoundedInduction

Backed(c, m, a) ==
  \/ Registered(c, m, a)
  \/ ~ac_not_full(c) /\ ~Known(c, m) /\ ac_valid_ip(c, a)

Promises ==
  \A r \in replies : r.type \in {"OFFER", "ACK"} => r.ip \in Hosts /\ Backed(cache, r.mac, r.ip)
Leases == \A m \in Macs : Using(m) => ip[m] \in Hosts /\ Backed(cache, m, ip[m])

IInv == TypeOK /\ RegistrationsExclusive /\ Promises /\ Leases

\* An array of registrations within its bound.
Array(c) == c \in Seq(Entry) /\ Len(c) <= CacheSize

\* Registrations are kept and what was backed stays backed.
Grows(c, d) ==
  \A n \in Macs, b \in Hosts :
    /\ Registered(c, n, b) => Registered(d, n, b)
    /\ Backed(c, n, b) => Backed(d, n, b)

-----------------------------------------------------------------------------
(* Registrations                                                           *)

\* ac_add of a station and an address that are both new.
LEMMA AddLemma ==
  ASSUME NEW c, Array(c), Exclusive(c), NEW m \in Macs, NEW a \in Hosts,
         ~Known(c, m), ac_valid_ip(c, a)
  PROVE  /\ Array(ac_add(c, m, a))
         /\ Exclusive(ac_add(c, m, a))
         /\ Grows(c, ac_add(c, m, a))
         /\ Backed(ac_add(c, m, a), m, a)
<1> DEFINE e == [mac |-> m, ip |-> a]
           d == Append(c, e)
<1>0. c \in Seq(Entry) /\ e \in Entry /\ CacheSize \in Nat
  BY CacheAssumption DEF Array, Entry
<1>1. CASE ~ac_not_full(c)
  <2>1. ac_add(c, m, a) = c
    BY <1>1 DEF ac_add
  <2> QED
    BY <2>1, <1>1 DEF Grows, Backed
<1>2. CASE ac_not_full(c)
  <2>1. ac_add(c, m, a) = d
    BY <1>2 DEF ac_add
  <2>2. /\ d \in Seq(Entry) /\ Len(d) = Len(c) + 1 /\ Len(c) \in Nat
        /\ \A i \in 1 .. Len(c) : d[i] = c[i]
        /\ d[Len(c) + 1] = e
    BY <1>0
  <2>3. Array(d)
    BY <2>2, <1>0, <1>2 DEF Array, ac_not_full
  <2>4. Exclusive(d)
    BY <2>2, <1>0 DEF Exclusive, Known, ac_valid_ip, Indices
  <2>5. \A n \in Macs, b \in Hosts : Registered(c, n, b) => Registered(d, n, b)
    BY <2>2 DEF Registered, Indices
  <2>6. Grows(c, d)
    BY <2>5, <1>2 DEF Grows, Backed
  <2>7. Registered(d, m, a)
    BY <2>2 DEF Registered, Indices
  <2> QED
    BY <2>1, <2>3, <2>4, <2>6, <2>7 DEF Backed
<1> QED
  BY <1>1, <1>2

\* The entry ac_lookup_mac finds is a registration of the station, and the only one.
LEMMA LookupLemma ==
  ASSUME NEW c, Array(c), Exclusive(c), NEW m \in Macs, Known(c, m)
  PROVE  /\ ac_lookup_mac(c, m) \in Hosts
         /\ Registered(c, m, ac_lookup_mac(c, m))
<1> DEFINE First(i) == c[i].mac = m /\ \A j \in 1 .. i - 1 : c[j].mac # m
<1>1. PICK i \in Indices(c) : c[i].mac = m
  BY DEF Known
<1>2. First(i)
  BY <1>1 DEF Exclusive, Indices, Array
<1> DEFINE k == CHOOSE n \in Indices(c) : First(n)
<1>3. k \in Indices(c) /\ First(k)
  BY <1>2
<1>4. ac_lookup_mac(c, m) = c[k].ip
  BY DEF ac_lookup_mac
<1>5. c[k] \in Entry
  BY <1>3 DEF Array, Indices
<1> QED
  BY <1>3, <1>4, <1>5 DEF Registered, Entry

\* The block that looks at a requested address: it only adds a registration, and
\* what it grants is backed.
LEMMA ClaimLemma ==
  ASSUME NEW c, Array(c), Exclusive(c), NEW m \in Macs, NEW a \in Addresses \cup {NoIp}
  PROVE  /\ Array(Claim(c, m, a))
         /\ Exclusive(Claim(c, m, a))
         /\ Grows(c, Claim(c, m, a))
         /\ Granted(c, m, a) => a \in Hosts /\ Backed(Claim(c, m, a), m, a)
<1>1. CASE a \in Hosts /\ ~Known(c, m) /\ ac_valid_ip(c, a)
  BY <1>1, AddLemma DEF Claim
<1>2. CASE ~(a \in Hosts /\ ~Known(c, m) /\ ac_valid_ip(c, a))
  <2>1. Claim(c, m, a) = c
    BY <1>2 DEF Claim
  <2>2. Granted(c, m, a) => a \in Hosts /\ Registered(c, m, a)
    BY <1>2, LookupLemma DEF Granted
  <2> QED
    BY <2>1, <2>2 DEF Grows, Backed
<1> QED
  BY <1>1, <1>2

\* The walk of next_yiaddr ends at a valid address when there is one.
LEMMA NextLemma ==
  ASSUME NEW c, NEW cur \in Hosts, ~Exhausted(c)
  PROVE  next_host(c, cur) \in Hosts /\ ac_valid_ip(c, next_host(c, cur))
<1> DEFINE Steps == {n \in 1 .. Size : ac_valid_ip(c, After(cur, n))}
           R == OpToRel(<, Nat)
           Best(n) == /\ ac_valid_ip(c, After(cur, n))
                      /\ \A j \in 1 .. n - 1 : ~ac_valid_ip(c, After(cur, j))
<1>0. Size \in Nat \ {0}
  BY SubnetAssumption
<1>1. PICK a \in Hosts : ac_valid_ip(c, a)
  BY DEF Exhausted
<1> DEFINE n0 == IF a > cur THEN a - cur ELSE a - cur + Size
<1>2. n0 \in 1 .. Size
  BY <1>0 DEF Hosts
<1>3. After(cur, n0) = a
  <2>1. CASE a > cur
    BY <2>1, <1>0 DEF Hosts, After
  <2>2. CASE ~(a > cur)
    <3>1. cur + n0 = a + Size
      BY <2>2, <1>0 DEF Hosts
    <3>2. (a + Size) % Size = a
      BY <1>0 DEF Hosts
    <3> QED
      BY <3>1, <3>2 DEF After
  <2> QED
    BY <2>1, <2>2
<1>4. Steps # {} /\ Steps \subseteq Nat
  BY <1>1, <1>2, <1>3
<1>5. PICK n \in Steps : \A y \in Steps : ~(<<y, n>> \in R)
  <2> HIDE DEF R, Steps
  <2> QED
    BY <1>4, NatLessThanWellFounded, WFMin DEF R
<1>6. \A y \in Steps : ~(y < n)
  <2>1. \A x, y \in Nat : x < y => <<x, y>> \in R
    BY DEF OpToRel
  <2> QED
    BY <1>4, <1>5, <2>1
<1>7. n \in 1 .. Size /\ Best(n)
  BY <1>6, <1>0
<1> DEFINE k == CHOOSE x \in 1 .. Size : Best(x)
<1>8. k \in 1 .. Size /\ Best(k)
  <2> HIDE DEF Best
  <2> QED
    BY <1>7
<1>9. next_host(c, cur) = After(cur, k)
  BY DEF next_host
<1>10. \A x \in 1 .. Size : After(cur, x) \in Hosts
  <2> SUFFICES ASSUME NEW x \in 1 .. Size PROVE (cur + x) % Size \in 0 .. Size - 1
    BY DEF After, Hosts
  <2>1. cur + x \in Int
    BY <1>0 DEF Hosts
  <2> QED
    BY <1>0, <2>1
<1> QED
  BY <1>8, <1>9, <1>10

\* With room for every station, a station that is not registered finds room.
LEMMA RoomLemma ==
  ASSUME Cardinality(Macs) <= CacheSize,
         NEW c, Array(c), Exclusive(c), NEW m \in Macs, ~Known(c, m)
  PROVE  ac_not_full(c)
<1> SUFFICES ASSUME ~ac_not_full(c) PROVE FALSE
  OBVIOUS
<1> DEFINE others == Macs \ {m}
           f == [i \in Indices(c) |-> c[i].mac]
<1>1. Len(c) = CacheSize /\ CacheSize \in Nat
  BY CacheAssumption DEF Array, ac_not_full
<1>2. \A i \in Indices(c) : c[i].mac \in others
  <2>1. \A i \in Indices(c) : c[i] \in Entry
    BY DEF Array, Indices
  <2> QED
    BY <2>1 DEF Known, Entry
<1>3. IsFiniteSet(Indices(c)) /\ Cardinality(Indices(c)) = CacheSize
  BY <1>1, FS_Interval DEF Indices
<1>4. IsFiniteSet(others) /\ Cardinality(others) = Cardinality(Macs) - 1
      /\ Cardinality(Macs) \in Nat
  BY StationAssumption, FS_RemoveElement, FS_CardinalityType
<1>5. f \in [Indices(c) -> others]
  BY <1>2
<1>6. PICK i, j \in Indices(c) : i # j /\ f[i] = f[j]
  <2> HIDE DEF f, others
  <2>1. Cardinality(others) < Cardinality(Indices(c))
    BY <1>1, <1>3, <1>4
  <2> QED
    BY <2>1, <1>3, <1>4, <1>5, FS_PigeonHole
<1> QED
  BY <1>6 DEF Exclusive

\* A subnet larger than the array and the three addresses that are never handed
\* out always has a free address.
LEMMA FreeAddressLemma ==
  ASSUME CacheSize + 3 < Size, NEW c, Array(c)
  PROVE  ~Exhausted(c)
<1> SUFFICES ASSUME Exhausted(c) PROVE FALSE
  OBVIOUS
<1> DEFINE usable == Hosts \ Unusable
           f == [a \in usable |-> CHOOSE i \in Indices(c) : c[i].ip = a]
<1>0. Size \in Nat /\ CacheSize \in Nat /\ Len(c) \in Nat /\ Len(c) <= CacheSize
  BY SubnetAssumption, CacheAssumption DEF Array
<1>1. \A a \in usable : \E i \in Indices(c) : c[i].ip = a
  BY DEF Exhausted, ac_valid_ip
<1>2. f \in [usable -> Indices(c)] /\ \A a \in usable : c[f[a]].ip = a
  BY <1>1
<1>3. IsFiniteSet(Hosts) /\ Cardinality(Hosts) = Size
  <2>1. PICK n \in Nat : n = Size - 1
    BY <1>0, SubnetAssumption
  <2>2. /\ IsFiniteSet(0 .. n)
        /\ Cardinality(0 .. n) = IF 0 > n THEN 0 ELSE n - 0 + 1
    <3>1. 0 \in Int /\ n \in Int
      OBVIOUS
    <3> QED
      BY <3>1, FS_Interval
  <2>3. Cardinality(0 .. n) = n + 1 /\ n + 1 = Size
    BY <2>1, <2>2, <1>0
  <2> QED
    BY <2>1, <2>2, <2>3 DEF Hosts
<1>4. IsFiniteSet(Indices(c)) /\ Cardinality(Indices(c)) = Len(c)
  <2>1. /\ IsFiniteSet(1 .. Len(c))
        /\ Cardinality(1 .. Len(c)) = IF 1 > Len(c) THEN 0 ELSE Len(c) - 1 + 1
    <3>1. 1 \in Int /\ Len(c) \in Int
      BY <1>0
    <3> QED
      BY <3>1, FS_Interval
  <2>2. Cardinality(1 .. Len(c)) = Len(c)
    BY <2>1, <1>0
  <2> QED
    BY <2>1, <2>2 DEF Indices
<1>5. IsFiniteSet(Unusable) /\ Cardinality(Unusable) \in Nat /\ Cardinality(Unusable) <= 3
  <2>1. IsFiniteSet({MyHost}) /\ Cardinality({MyHost}) = 1
    BY FS_Singleton
  <2>2. IsFiniteSet({MyHost} \cup {0}) /\ Cardinality({MyHost} \cup {0}) <= 2
    BY <2>1, FS_AddElement
  <2>3. IsFiniteSet(({MyHost} \cup {0}) \cup {Size - 1})
        /\ Cardinality(({MyHost} \cup {0}) \cup {Size - 1}) <= 3
    <3>1. Cardinality({MyHost} \cup {0}) \in Nat
      BY <2>2, FS_CardinalityType
    <3> QED
      BY <2>2, <3>1, FS_AddElement
  <2>4. Unusable = ({MyHost} \cup {0}) \cup {Size - 1}
    BY DEF Unusable
  <2> QED
    BY <2>3, <2>4, FS_CardinalityType
<1>6. IsFiniteSet(usable) /\ Cardinality(usable) >= Size - 3
  <2>1. Cardinality(usable) = Cardinality(Hosts) - Cardinality(Hosts \cap Unusable)
        /\ IsFiniteSet(usable)
    BY <1>3, FS_Difference
  <2>2. Cardinality(Hosts \cap Unusable) <= Cardinality(Unusable)
        /\ IsFiniteSet(Hosts \cap Unusable)
    BY <1>5, FS_Intersection
  <2>3. Cardinality(Hosts \cap Unusable) \in Nat
    BY <2>2, FS_CardinalityType
  <2> HIDE DEF usable
  <2> QED
    BY <2>1, <2>2, <2>3, <1>0, <1>3, <1>5
<1>7. PICK a, b \in usable : a # b /\ f[a] = f[b]
  <2> HIDE DEF usable, f
  <2>1. Cardinality(usable) \in Nat
    BY <1>6, FS_CardinalityType
  <2>2. Cardinality(Indices(c)) < Cardinality(usable)
    BY <2>1, <1>0, <1>4, <1>6
  <2> QED
    BY <2>2, <1>2, <1>4, <1>6, FS_PigeonHole
<1> HIDE DEF f, usable
<1> QED
  BY <1>2, <1>7

-----------------------------------------------------------------------------
(* The inductive invariant                                                 *)

\* The initial states satisfy it.
LEMMA InitInv == Init => IInv
<1> SUFFICES ASSUME Init PROVE IInv
  OBVIOUS
<1>1. cache = <<>> /\ Len(cache) = 0
  BY DEF Init
<1>2. 99 % Size \in 0 .. Size - 1
  BY SubnetAssumption
<1>3. TypeOK
  <2>1. cache \in Seq(Entry) /\ Len(cache) <= CacheSize
    BY <1>1, CacheAssumption
  <2>2. current \in Hosts
    BY <1>2 DEF Init, Hosts
  <2>3. ip \in [Macs -> Addresses \cup {NoIp}] /\ st \in [Macs -> StationState]
    BY SubnetAssumption DEF Init, StationState
  <2> QED
    BY <2>1, <2>2, <2>3 DEF Init, TypeOK
<1>4. RegistrationsExclusive
  BY <1>1 DEF RegistrationsExclusive, Exclusive, Indices
<1>5. Promises /\ Leases
  BY DEF Init, Promises, Leases, Using
<1> QED
  BY <1>3, <1>4, <1>5 DEF IInv

\* What a step of the server does to the registrations, and what it replies.
ServerEffect ==
  /\ Array(cache') /\ Exclusive(cache') /\ Grows(cache, cache')
  /\ \A r \in replies' \ replies :
       /\ r \in Reply
       /\ r.type \in {"OFFER", "ACK"} => r.ip \in Hosts /\ Backed(cache', r.mac, r.ip)
  /\ TypeOK'
  /\ UNCHANGED <<st, ip>>

LEMMA ArrayLemma == IInv => Array(cache) /\ Exclusive(cache)
BY DEF IInv, TypeOK, Array, RegistrationsExclusive

\* A reply with an address of the right kind.
LEMMA RespondLemma ==
  ASSUME TypeOK, NEW q \in Request, NEW type \in {"OFFER", "ACK", "NAK"},
         NEW a \in Addresses \cup {NoIp}, Respond(q, type, a)
  PROVE  /\ \A r \in replies' \ replies : r = [type |-> type, mac |-> q.mac, ip |-> a]
         /\ replies' \subseteq Reply
<1>1. [type |-> type, mac |-> q.mac, ip |-> a] \in Reply
  BY DEF Request, Reply
<1> QED
  BY <1>1, StationAssumption DEF Respond, TypeOK

LEMMA DiscoverLemma ==
  ASSUME IInv, NEW q \in requests, ServeDiscover(q)
  PROVE  ServerEffect
<1> DEFINE claimed == Claim(cache, q.mac, q.ip)
<1>0. q \in Request /\ q.mac \in Macs /\ q.ip \in Addresses \cup {NoIp} /\ TypeOK
  BY DEF IInv, TypeOK, Request
<1>1. Array(claimed) /\ Exclusive(claimed) /\ Grows(cache, claimed)
  BY <1>0, ArrayLemma, ClaimLemma
<1>2. /\ requests' \subseteq requests /\ UNCHANGED <<st, ip>>
  BY <1>0 DEF ServeDiscover, Receive
<1>3. CASE Known(claimed, q.mac)
  <2>1. /\ cache' = claimed /\ current' = current /\ hung' = hung
        /\ Respond(q, "OFFER", ac_lookup_mac(claimed, q.mac))
    BY <1>3 DEF ServeDiscover
  <2>2. /\ ac_lookup_mac(claimed, q.mac) \in Hosts
        /\ Backed(claimed, q.mac, ac_lookup_mac(claimed, q.mac))
    BY <1>0, <1>1, <1>3, LookupLemma DEF Backed
  <2>3. /\ \A r \in replies' \ replies :
              r = [type |-> "OFFER", mac |-> q.mac, ip |-> ac_lookup_mac(claimed, q.mac)]
        /\ replies' \subseteq Reply
    BY <1>0, <2>1, <2>2, RespondLemma DEF Addresses
  <2> HIDE DEF claimed
  <2>4. TypeOK'
    BY <1>0, <1>1, <1>2, <2>1, <2>3 DEF TypeOK, Array
  <2> QED
    BY <1>1, <1>2, <2>1, <2>2, <2>3, <2>4 DEF ServerEffect
<1>4. CASE ~Known(claimed, q.mac) /\ ~Exhausted(claimed)
  <2>1. /\ current' = next_host(claimed, current) /\ hung' = hung
        /\ cache' = ac_add(claimed, q.mac, current')
        /\ Respond(q, "OFFER", current')
    <3>1. hung = FALSE
      BY <1>0 DEF ServeDiscover, Receive, TypeOK
    <3> QED
      BY <1>4, <3>1 DEF ServeDiscover, OfferNext, Exhausted
  <2>2. current' \in Hosts /\ ac_valid_ip(claimed, current')
    BY <1>0, <1>4, <2>1, NextLemma DEF TypeOK
  <2>3. /\ Array(cache') /\ Exclusive(cache') /\ Grows(claimed, cache')
        /\ Backed(cache', q.mac, current')
    BY <1>0, <1>1, <1>4, <2>1, <2>2, AddLemma
  <2>4. Grows(cache, cache')
    BY <1>1, <2>3 DEF Grows
  <2>5. /\ \A r \in replies' \ replies :
              r = [type |-> "OFFER", mac |-> q.mac, ip |-> current']
        /\ replies' \subseteq Reply
    BY <1>0, <2>1, <2>2, RespondLemma DEF Addresses
  <2>6. TypeOK'
    BY <1>0, <1>2, <2>1, <2>2, <2>3, <2>5 DEF TypeOK, Array
  <2> QED
    BY <1>2, <2>2, <2>3, <2>4, <2>5, <2>6 DEF ServerEffect
<1>5. CASE ~Known(claimed, q.mac) /\ Exhausted(claimed)
  <2>1. cache' = claimed /\ hung' = TRUE /\ UNCHANGED <<current, replies>>
    BY <1>5 DEF ServeDiscover, OfferNext, Exhausted
  <2> HIDE DEF claimed
  <2>2. TypeOK'
    BY <1>0, <1>1, <1>2, <2>1 DEF TypeOK, Array
  <2> QED
    BY <1>1, <1>2, <2>1, <2>2 DEF ServerEffect
<1> QED
  BY <1>3, <1>4, <1>5

LEMMA RequestLemma ==
  ASSUME IInv, NEW q \in requests, ServeRequest(q)
  PROVE  ServerEffect
<1> DEFINE claimed == Claim(cache, q.mac, q.ip)
<1>0. q \in Request /\ q.mac \in Macs /\ q.ip \in Addresses \cup {NoIp} /\ TypeOK
  BY DEF IInv, TypeOK, Request
<1>1. /\ Array(claimed) /\ Exclusive(claimed) /\ Grows(cache, claimed)
      /\ Granted(cache, q.mac, q.ip) => q.ip \in Hosts /\ Backed(claimed, q.mac, q.ip)
  BY <1>0, ArrayLemma, ClaimLemma
<1>2. /\ requests' \subseteq requests /\ UNCHANGED <<current, hung, st, ip>>
      /\ cache' = claimed
  BY <1>0 DEF ServeRequest, Receive
<1> HIDE DEF claimed
<1>3. /\ replies' \subseteq Reply
      /\ \A r \in replies' \ replies :
            r.type \in {"OFFER", "ACK"} => r.ip \in Hosts /\ Backed(claimed, r.mac, r.ip)
  <2>1. CASE Granted(cache, q.mac, q.ip)
    <3>1. Respond(q, "ACK", q.ip)
      BY <2>1 DEF ServeRequest
    <3>2. /\ \A r \in replies' \ replies : r = [type |-> "ACK", mac |-> q.mac, ip |-> q.ip]
          /\ replies' \subseteq Reply
      BY <1>0, <3>1, RespondLemma
    <3> QED
      BY <1>1, <2>1, <3>2
  <2>2. CASE ~Granted(cache, q.mac, q.ip)
    <3>1. Respond(q, "NAK", NoIp)
      BY <2>2 DEF ServeRequest
    <3>2. /\ \A r \in replies' \ replies : r = [type |-> "NAK", mac |-> q.mac, ip |-> NoIp]
          /\ replies' \subseteq Reply
      BY <1>0, <3>1, RespondLemma
    <3> QED
      BY <3>2
  <2> QED
    BY <2>1, <2>2
<1>4. TypeOK'
  BY <1>0, <1>1, <1>2, <1>3 DEF TypeOK, Array
<1> QED
  BY <1>1, <1>2, <1>3, <1>4 DEF ServerEffect

LEMMA OtherLemma ==
  ASSUME IInv, NEW q \in requests, ServeOther(q)
  PROVE  ServerEffect
<1> DEFINE claimed == Claim(cache, q.mac, q.ip)
<1>0. q \in Request /\ q.mac \in Macs /\ q.ip \in Addresses \cup {NoIp} /\ TypeOK
  BY DEF IInv, TypeOK, Request
<1>1. Array(claimed) /\ Exclusive(claimed) /\ Grows(cache, claimed)
  BY <1>0, ArrayLemma, ClaimLemma
<1>2. /\ requests' \subseteq requests
      /\ UNCHANGED <<current, hung, replies, st, ip>>
      /\ cache' = claimed
  BY <1>0 DEF ServeOther, Receive
<1> HIDE DEF claimed
<1>3. TypeOK'
  BY <1>0, <1>1, <1>2 DEF TypeOK, Array
<1> QED
  BY <1>1, <1>2, <1>3 DEF ServerEffect

\* The step of the server keeps the invariant.
LEMMA ServerKeeps ==
  ASSUME IInv, ServerEffect
  PROVE  IInv'
<1>1. Promises'
  BY DEF Promises, ServerEffect, IInv, Grows, TypeOK, Reply
<1>2. Leases'
  BY DEF Leases, ServerEffect, IInv, Grows, Using
<1> QED
  BY <1>1, <1>2 DEF IInv, ServerEffect, RegistrationsExclusive

\* A station only takes replies away, and uses an address it was using or one it
\* has an acknowledgement for.
StationEffect ==
  /\ UNCHANGED cache
  /\ replies' \subseteq replies
  /\ \A m \in Macs : Using(m)' =>
        \/ Using(m) /\ ip'[m] = ip[m]
        \/ \E r \in replies : r.type = "ACK" /\ r.mac = m /\ r.ip = ip'[m]
  /\ TypeOK'

LEMMA StationKeeps ==
  ASSUME IInv, StationEffect
  PROVE  IInv'
<1>1. Promises'
  BY DEF Promises, StationEffect, IInv
<1>2. Leases'
  <2> SUFFICES ASSUME NEW m \in Macs, Using(m)'
               PROVE  ip'[m] \in Hosts /\ Backed(cache, m, ip'[m])
    BY DEF Leases, StationEffect
  <2>1. CASE Using(m) /\ ip'[m] = ip[m]
    BY <2>1 DEF Leases, IInv
  <2>2. CASE \E r \in replies : r.type = "ACK" /\ r.mac = m /\ r.ip = ip'[m]
    BY <2>2 DEF Promises, IInv
  <2> QED
    BY <2>1, <2>2 DEF StationEffect
<1> QED
  BY <1>1, <1>2 DEF IInv, StationEffect, RegistrationsExclusive

\* A message of the right kind; the messages of an old transaction stay messages.
LEMMA MessageLemma ==
  ASSUME TypeOK, NEW m \in Macs, NEW a \in Addresses \cup {NoIp},
         NEW type \in {"DISCOVER", "REQUEST", "DECLINE", "RELEASE"}
  PROVE  /\ Send(m, type, a) => requests' \subseteq Request
         /\ Begin(m, type, a) => requests' \subseteq Request /\ replies' \subseteq replies
         /\ Dated[m] \subseteq Request
<1>1. [type |-> type, mac |-> m, ip |-> a, fresh |-> TRUE] \in Request
  BY DEF Request
<1>2. \A q \in requests : [q EXCEPT !.fresh = FALSE] \in Request
  BY DEF TypeOK, Request
<1>3. Dated[m] \subseteq Request
  BY <1>2 DEF Dated
<1> QED
  BY <1>1, <1>3 DEF Send, Begin, TypeOK

LEMMA StationLemma ==
  ASSUME IInv, NEW m \in Macs, StationStep(m)
  PROVE  StationEffect
<1> USE DEF Become, StationState, Using
<1>0. /\ TypeOK /\ ip[m] \in Addresses \cup {NoIp} /\ NoIp \in Addresses \cup {NoIp}
      /\ st \in [Macs -> StationState] /\ ip \in [Macs -> Addresses \cup {NoIp}]
      /\ Dated[m] \subseteq Request
  <2>1. TypeOK /\ ip[m] \in Addresses \cup {NoIp}
    BY DEF IInv, TypeOK
  <2> QED
    BY <2>1, MessageLemma DEF TypeOK
<1>1. CASE Join(m)
  BY <1>1, <1>0 DEF Join, serverVars, StationEffect, TypeOK
<1>2. CASE Leave(m)
  BY <1>2, <1>0 DEF Leave, serverVars, StationEffect, TypeOK
<1>3. CASE Discover(m)
  <2>1. requests' \subseteq Request /\ replies' \subseteq replies
    BY <1>3, <1>0, MessageLemma DEF Discover
  <2> QED
    BY <2>1, <1>3, <1>0 DEF Discover, serverVars, StationEffect, TypeOK
<1>4. CASE Reboot(m)
  <2>1. requests' \subseteq Request /\ replies' \subseteq replies
    BY <1>4, <1>0, MessageLemma DEF Reboot
  <2> QED
    BY <2>1, <1>4, <1>0 DEF Reboot, serverVars, StationEffect, TypeOK
<1>5. CASE Renew(m)
  <2>1. requests' \subseteq Request /\ replies' \subseteq replies
    BY <1>5, <1>0, MessageLemma DEF Renew
  <2> QED
    BY <2>1, <1>5, <1>0 DEF Renew, serverVars, StationEffect, TypeOK
<1>6. CASE Retry(m)
  <2>1. requests' \subseteq Request
    BY <1>6, <1>0, MessageLemma DEF Retry
  <2> QED
    BY <2>1, <1>6, <1>0 DEF Retry, serverVars, StationEffect, TypeOK
<1>7. CASE TakeOffer(m)
  <2>1. PICK r \in replies : Send(m, "REQUEST", r.ip) /\ Become(m, "requesting", r.ip)
    BY <1>7 DEF TakeOffer
  <2>2. r.ip \in Addresses \cup {NoIp}
    BY <1>0 DEF TypeOK, Reply
  <2>3. requests' \subseteq Request
    BY <2>1, <2>2, <1>0, MessageLemma
  <2> QED
    BY <2>1, <2>2, <2>3, <1>7, <1>0 DEF TakeOffer, serverVars, StationEffect, TypeOK
<1>8. CASE Bind(m)
  BY <1>8, <1>0 DEF Bind, Acked, serverVars, StationEffect, TypeOK
<1>9. CASE Refused(m)
  BY <1>9, <1>0 DEF Refused, serverVars, StationEffect, TypeOK
<1>10. CASE Decline(m)
  <2>1. requests' \subseteq Request /\ replies' \subseteq replies
    BY <1>10, <1>0, MessageLemma DEF Decline
  <2> QED
    BY <2>1, <1>10, <1>0 DEF Decline, serverVars, StationEffect, TypeOK
<1>11. CASE Release(m)
  <2>1. requests' \subseteq Request /\ replies' \subseteq replies
    BY <1>11, <1>0, MessageLemma DEF Release
  <2> QED
    BY <2>1, <1>11, <1>0 DEF Release, serverVars, StationEffect, TypeOK
<1>12. CASE GiveUp(m)
  BY <1>12, <1>0 DEF GiveUp, serverVars, StationEffect, TypeOK
<1> QED
  BY <1>1, <1>2, <1>3, <1>4, <1>5, <1>6, <1>7, <1>8, <1>9, <1>10, <1>11, <1>12
  DEF StationStep

\* Every step keeps the invariant.
LEMMA StepInv == IInv /\ [Next]_vars => IInv'
<1> SUFFICES ASSUME IInv, [Next]_vars PROVE IInv'
  OBVIOUS
<1>1. CASE ServerStep
  <2>1. PICK q \in requests : ServeDiscover(q) \/ ServeRequest(q) \/ ServeOther(q)
    BY <1>1 DEF ServerStep
  <2> QED
    BY <2>1, DiscoverLemma, RequestLemma, OtherLemma, ServerKeeps
<1>2. CASE \E m \in Macs : StationStep(m)
  BY <1>2, StationLemma, StationKeeps
<1>3. CASE Lose
  <2>1. StationEffect
    BY <1>3 DEF Lose, serverVars, StationEffect, IInv, TypeOK, Using
  <2> QED
    BY <2>1, StationKeeps
<1>4. CASE UNCHANGED vars
  <2>1. StationEffect
    BY <1>4 DEF vars, StationEffect, IInv, TypeOK, Using
  <2> QED
    BY <2>1, StationKeeps
<1> QED
  BY <1>1, <1>2, <1>3, <1>4 DEF Next

-----------------------------------------------------------------------------
(* The theorems                                                            *)

\* The invariant holds throughout.
THEOREM Invariant == Spec => []IInv
BY InitInv, StepInv, PTL DEF Spec

\* Every variable keeps its type: the array never overflows and the server never
\* leaves the subnet.
THEOREM TypeCorrect == Spec => []TypeOK
BY Invariant, PTL DEF IInv

\* No station and no address is registered twice, and no address that must not be
\* handed out is registered: ac_add is safe where next_yiaddr and the
\* requested-address block call it.
THEOREM ExclusiveRegistrations == Spec => []RegistrationsExclusive
BY Invariant, PTL DEF IInv

\* A station that uses the address registered for it shares it with nobody.
THEOREM RegisteredLeases == Spec => []RegisteredLeaseExclusive
<1>1. IInv => RegisteredLeaseExclusive
  <2> SUFFICES ASSUME IInv, NEW m \in Macs, NEW n \in Macs, m # n, Using(m), Using(n),
                      Registered(cache, n, ip[n])
               PROVE  ip[m] # ip[n]
    BY DEF RegisteredLeaseExclusive
  <2>1. Backed(cache, m, ip[m]) /\ Exclusive(cache)
    BY DEF IInv, Leases, RegistrationsExclusive
  <2>2. PICK j \in Indices(cache) : cache[j].mac = n /\ cache[j].ip = ip[n]
    BY DEF Registered
  <2>3. CASE Registered(cache, m, ip[m])
    <3>1. PICK i \in Indices(cache) : cache[i].mac = m /\ cache[i].ip = ip[m]
      BY <2>3 DEF Registered
    <3> QED
      BY <2>1, <2>2, <3>1 DEF Exclusive
  <2>4. CASE ac_valid_ip(cache, ip[m])
    BY <2>2, <2>4 DEF ac_valid_ip
  <2> QED
    BY <2>1, <2>3, <2>4 DEF Backed
<1> QED
  BY <1>1, Invariant, PTL

\* With room for every station, what is backed is registered.
LEMMA RoomyBacked ==
  ASSUME Cardinality(Macs) <= CacheSize, IInv, NEW m \in Macs, NEW a, Backed(cache, m, a)
  PROVE  Registered(cache, m, a)
<1>1. Array(cache) /\ Exclusive(cache)
  BY ArrayLemma
<1> QED
  BY <1>1, RoomLemma DEF Backed

\* With room in the array for every station no two stations use one address.
THEOREM ExclusiveLeases == Cardinality(Macs) <= CacheSize /\ Spec => []LeasesExclusive
<1> SUFFICES ASSUME Cardinality(Macs) <= CacheSize PROVE Spec => []LeasesExclusive
  OBVIOUS
<1>1. IInv => RegisteredLeaseExclusive /\ LeasesExclusive
  <2> SUFFICES ASSUME IInv, NEW m \in Macs, NEW n \in Macs, m # n, Using(m), Using(n)
               PROVE  ip[m] # ip[n]
    BY DEF LeasesExclusive, RegisteredLeaseExclusive
  <2>1. Registered(cache, m, ip[m]) /\ Registered(cache, n, ip[n])
    BY RoomyBacked DEF IInv, Leases
  <2>2. Exclusive(cache)
    BY DEF IInv, RegistrationsExclusive
  <2> QED
    BY <2>1, <2>2 DEF Registered, Exclusive
<1> QED
  BY <1>1, Invariant, PTL

\* With room in the array for every station every offer and acknowledgement names
\* the address registered for its station.
THEOREM BackedOffers == Cardinality(Macs) <= CacheSize /\ Spec => []OffersBacked
<1> SUFFICES ASSUME Cardinality(Macs) <= CacheSize PROVE Spec => []OffersBacked
  OBVIOUS
<1>1. IInv => OffersBacked
  BY RoomyBacked DEF IInv, Promises, OffersBacked, TypeOK, Reply
<1> QED
  BY <1>1, Invariant, PTL

\* A registration is never changed or dropped while the server is up.
THEOREM StableRegistrations == Spec => RegistrationStable
<1> DEFINE Stable == \A m \in Macs, a \in Hosts :
                       Registered(cache, m, a) => Registered(cache', m, a)
<1>1. IInv /\ [Next]_vars => [Stable]_vars
  <2> SUFFICES ASSUME IInv, [Next]_vars PROVE Stable
    OBVIOUS
  <2>1. CASE ServerStep
    <3>1. PICK q \in requests : ServeDiscover(q) \/ ServeRequest(q) \/ ServeOther(q)
      BY <2>1 DEF ServerStep
    <3>2. ServerEffect
      BY <3>1, DiscoverLemma, RequestLemma, OtherLemma
    <3> QED
      BY <3>2 DEF ServerEffect, Grows
  <2>2. CASE \E m \in Macs : StationStep(m)
    BY <2>2, StationLemma DEF StationEffect
  <2>3. CASE Lose \/ UNCHANGED vars
    BY <2>3 DEF Lose, serverVars, vars
  <2> QED
    BY <2>1, <2>2, <2>3 DEF Next
<1> HIDE DEF Stable
<1>2. Spec => [][Stable]_vars
  BY <1>1, Invariant, PTL DEF Spec
<1> QED
  BY <1>2 DEF RegistrationStable, Stable

\* In a subnet with more usable addresses than the array has room for, next_yiaddr
\* always returns.  (A /24 network has 253 and the array 8.)
THEOREM NextYiaddrReturns == CacheSize + 3 < Size /\ Spec => []NeverHung
<1> SUFFICES ASSUME CacheSize + 3 < Size PROVE Spec => []NeverHung
  OBVIOUS
<1>1. Init => NeverHung
  BY DEF Init, NeverHung
<1>2. IInv /\ NeverHung /\ [Next]_vars => NeverHung'
  <2> SUFFICES ASSUME IInv, ~hung, [Next]_vars PROVE ~hung'
    BY DEF NeverHung
  <2>1. ASSUME NEW q \in requests, ServeDiscover(q) PROVE ~hung'
    <3> DEFINE claimed == Claim(cache, q.mac, q.ip)
    <3>1. q.mac \in Macs /\ q.ip \in Addresses \cup {NoIp}
      BY DEF IInv, TypeOK, Request
    <3>2. ~Exhausted(claimed)
      BY <3>1, ArrayLemma, ClaimLemma, FreeAddressLemma
    <3> QED
      BY <2>1, <3>2 DEF ServeDiscover, OfferNext
  <2>2. ASSUME NEW q \in requests, ServeRequest(q) \/ ServeOther(q) PROVE ~hung'
    BY <2>2 DEF ServeRequest, ServeOther
  <2>3. CASE ServerStep
    BY <2>1, <2>2, <2>3 DEF ServerStep
  <2>4. CASE \E m \in Macs : StationStep(m)
    BY <2>4 DEF StationStep, Join, Leave, Discover, Reboot, Renew, Retry, TakeOffer, Bind,
                Refused, Decline, Release, GiveUp, serverVars
  <2>5. CASE Lose \/ UNCHANGED vars
    BY <2>5 DEF Lose, serverVars, vars
  <2> QED
    BY <2>3, <2>4, <2>5 DEF Next
<1> QED
  BY <1>1, <1>2, Invariant, PTL DEF Spec

-----------------------------------------------------------------------------
(* Refusals                                                                *)

Asking == {"requesting", "renewing"}

\* m can never have a: it has another address, somebody else has this one, or it is
\* none to be had.
Barred(c, m, a) ==
  ~Registered(c, m, a) /\ (Known(c, m) \/ a \notin Hosts \/ ~ac_valid_ip(c, a))

\* A request that is not out of date is for the address that the station wants now.
Asked ==
  \A q \in requests :
    q.fresh /\ q.type = "REQUEST" /\ st[q.mac] \in Asking => q.ip = ip[q.mac]

\* A station that waits for offers has asked for no address, nor been refused one.
NotYetAsked ==
  \A m \in Macs : st[m] = "selecting" =>
    /\ \A q \in requests : q.mac = m /\ q.fresh => q.type # "REQUEST"
    /\ \A r \in replies : r.mac = m => r.type # "NAK"

Refusals ==
  \A r \in replies : r.type = "NAK" /\ st[r.mac] \in Asking => Barred(cache, r.mac, ip[r.mac])

RInv == IInv /\ Asked /\ NotYetAsked /\ Refusals

\* Who can never have an address cannot have it later, as registrations stay.
LEMMA BarredLemma ==
  ASSUME NEW c, NEW d, Array(c), Exclusive(c), Array(d), Exclusive(d), Grows(c, d),
         NEW m \in Macs, NEW a, Barred(c, m, a)
  PROVE  Barred(d, m, a)
<1>1. /\ \A i \in Indices(c) : c[i] \in Entry /\ Registered(c, c[i].mac, c[i].ip)
      /\ \A i \in Indices(d) : d[i] \in Entry
  BY DEF Array, Indices, Registered
<1>2. \A i \in Indices(c) : Registered(d, c[i].mac, c[i].ip)
  BY <1>1 DEF Grows, Entry
<1>3. CASE Known(c, m)
  <2>1. PICK i \in Indices(c) : c[i].mac = m /\ c[i].ip # a
    BY <1>3 DEF Known, Barred, Registered
  <2>2. Registered(d, m, c[i].ip)
    BY <1>2, <2>1
  <2>3. Known(d, m) /\ ~Registered(d, m, a)
    BY <2>1, <2>2 DEF Registered, Known, Exclusive
  <2> QED
    BY <2>3 DEF Barred
<1>4. CASE a \notin Hosts
  BY <1>1, <1>4 DEF Barred, Registered, Entry
<1>5. CASE a \in Unusable
  BY <1>5 DEF Barred, Registered, Exclusive, ac_valid_ip
<1>6. CASE \E i \in Indices(c) : c[i].ip = a
  <2>1. PICK i \in Indices(c) : c[i].ip = a
    BY <1>6
  <2>2. c[i].mac # m /\ Registered(d, c[i].mac, a)
    BY <1>2, <2>1 DEF Barred, Registered
  <2>3. ~Registered(d, m, a) /\ ~ac_valid_ip(d, a)
    BY <2>2 DEF Registered, Exclusive, ac_valid_ip
  <2> QED
    BY <2>3 DEF Barred
<1> QED
  BY <1>3, <1>4, <1>5, <1>6 DEF Barred, ac_valid_ip

\* A step of the server: only what it can never have is refused to a station.
LEMMA ServerRefuses ==
  ASSUME RInv, NEW q \in requests, ServeDiscover(q) \/ ServeRequest(q) \/ ServeOther(q)
  PROVE  RInv'
<1>1. ServerEffect /\ Array(cache) /\ Exclusive(cache) /\ q \in Request
  BY DiscoverLemma, RequestLemma, OtherLemma, ArrayLemma DEF RInv, IInv, TypeOK
<1>2. IInv'
  BY <1>1, ServerKeeps DEF RInv
<1>3. requests' \subseteq requests /\ UNCHANGED <<st, ip>>
  BY DEF ServeDiscover, ServeRequest, ServeOther, Receive
<1>4. ASSUME NEW r \in replies' \ replies, r.type = "NAK"
      PROVE  /\ r.mac = q.mac /\ q.fresh /\ q.type = "REQUEST"
             /\ Barred(cache, q.mac, q.ip)
  <2>1. ServeRequest(q) /\ ~Granted(cache, q.mac, q.ip) /\ Respond(q, "NAK", NoIp)
    <3>1. \A type, a : Respond(q, type, a) => r.type = type
      BY <1>4 DEF Respond
    <3>2. ~ServeDiscover(q)
      BY <1>4, <3>1 DEF ServeDiscover, OfferNext
    <3>3. ~ServeOther(q)
      BY <1>4 DEF ServeOther
    <3>4. ServeRequest(q)
      BY <3>2, <3>3
    <3> QED
      BY <1>4, <3>1, <3>4 DEF ServeRequest
  <2>2. r.mac = q.mac /\ q.fresh /\ q.type = "REQUEST"
    BY <1>4, <2>1 DEF Respond, ServeRequest
  <2>3. q.mac \in Macs
    BY <1>1 DEF Request
  <2>4. CASE Known(cache, q.mac)
    <3>1. /\ Registered(cache, q.mac, ac_lookup_mac(cache, q.mac))
          /\ ac_lookup_mac(cache, q.mac) \in Hosts
      BY <1>1, <2>3, <2>4, LookupLemma
    <3>2. ac_lookup_mac(cache, q.mac) # q.ip
      BY <2>1, <2>4, <3>1 DEF Granted
    <3>3. ~Registered(cache, q.mac, q.ip)
      BY <1>1, <3>1, <3>2 DEF Registered, Exclusive
    <3> QED
      BY <2>2, <2>4, <3>3 DEF Barred
  <2>5. CASE ~Known(cache, q.mac)
    BY <2>1, <2>2, <2>5 DEF Granted, Barred, Known, Registered
  <2> QED
    BY <2>4, <2>5
<1>5. Asked'
  BY <1>3 DEF RInv, Asked
<1>6. NotYetAsked'
  <2> SUFFICES ASSUME NEW m \in Macs, st[m] = "selecting"
               PROVE  /\ \A p \in requests' : p.mac = m /\ p.fresh => p.type # "REQUEST"
                      /\ \A r \in replies' : r.mac = m => r.type # "NAK"
    BY <1>3 DEF NotYetAsked
  <2> QED
    BY <1>3, <1>4 DEF RInv, NotYetAsked
<1>7. Refusals'
  <2> SUFFICES ASSUME NEW r \in replies', r.type = "NAK", st[r.mac] \in Asking
               PROVE  Barred(cache', r.mac, ip[r.mac])
    BY <1>3 DEF Refusals
  <2>1. r.mac \in Macs
    BY <1>2 DEF IInv, TypeOK, Reply
  <2>2. Barred(cache, r.mac, ip[r.mac])
    BY <1>4 DEF RInv, Refusals, Asked
  <2> QED
    BY <1>1, <2>1, <2>2, BarredLemma DEF ServerEffect
<1> QED
  BY <1>2, <1>5, <1>6, <1>7 DEF RInv

\* A step of a station: it goes on as before, waits for no answer, takes up an offer,
\* or begins anew, which makes what is on its way out of date.
Transaction(m) ==
  /\ UNCHANGED cache /\ replies' \subseteq replies
  /\ \A n \in Macs : n # m => st'[n] = st[n] /\ ip'[n] = ip[n]
  /\ \A q \in requests' : q.fresh /\ q \notin requests =>
        q.mac = m /\ (q.type = "REQUEST" => st'[m] \in Asking /\ q.ip = ip'[m])
  /\ \/ st'[m] = st[m] /\ ip'[m] = ip[m]
     \/ st'[m] \notin Asking \cup {"selecting"}
     \/ st[m] = "selecting" /\ st'[m] \in Asking
     \/ /\ \A r \in replies' : r.mac # m
        /\ \A q \in requests' : q.fresh /\ q.mac = m /\ q.type = "REQUEST" =>
              st'[m] \in Asking /\ q.ip = ip'[m]

LEMMA TransactionKeeps ==
  ASSUME RInv, IInv', NEW m \in Macs, Transaction(m)
  PROVE  RInv'
<1>1. /\ \A q \in requests' : q.mac \in Macs
      /\ \A r \in replies' : r.mac \in Macs
  BY DEF IInv, TypeOK, Request, Reply
<1>2. Asked'
  BY <1>1 DEF RInv, Asked, NotYetAsked, Transaction, Asking
<1>3. NotYetAsked'
  BY <1>1 DEF RInv, NotYetAsked, Transaction, Asking
<1>4. Refusals'
  BY <1>1 DEF RInv, NotYetAsked, Refusals, Transaction, Asking
<1> QED
  BY <1>2, <1>3, <1>4 DEF RInv

\* Every step of a station is one of these.
LEMMA StationTransaction ==
  ASSUME IInv, NEW m \in Macs, StationStep(m)
  PROVE  Transaction(m)
<1>1. /\ st \in [Macs -> StationState] /\ ip \in [Macs -> Addresses \cup {NoIp}]
      /\ requests \subseteq Request
  BY DEF IInv, TypeOK
<1>2. \A q \in Dated[m] : ~q.fresh
  BY <1>1 DEF Dated, Request
<1>3. CASE Discover(m) \/ Reboot(m) \/ Renew(m) \/ Decline(m) \/ Release(m)
  BY <1>1, <1>2, <1>3 DEF Discover, Reboot, Renew, Decline, Release, Begin, Become, serverVars,
                          Transaction, Asking
<1>4. CASE Join(m) \/ Leave(m)
  BY <1>1, <1>2, <1>4 DEF Join, Leave, Become, serverVars, Transaction, Asking
<1>5. CASE Retry(m)
  BY <1>1, <1>5 DEF Retry, Send, serverVars, Transaction, Asking
<1>6. CASE TakeOffer(m)
  BY <1>1, <1>6 DEF TakeOffer, Send, Become, serverVars, Transaction, Asking
<1>7. CASE Bind(m) \/ Refused(m) \/ GiveUp(m)
  BY <1>1, <1>7 DEF Bind, Refused, GiveUp, Become, serverVars, Transaction, Asking
<1> QED
  BY <1>3, <1>4, <1>5, <1>6, <1>7 DEF StationStep

\* A station that asks for the address registered for it is not refused, whatever
\* was lost, repeated or late: a refusal names no address, so this rests on what
\* the station has asked since.
THEOREM DeservedRefusals == Spec => []RefusalsDeserved
<1>1. Init => RInv
  BY InitInv DEF Init, RInv, Asked, NotYetAsked, Refusals
<1>2. RInv /\ [Next]_vars => RInv'
  <2> SUFFICES ASSUME RInv, [Next]_vars PROVE RInv'
    OBVIOUS
  <2>1. IInv'
    BY StepInv DEF RInv
  <2>2. CASE ServerStep
    BY <2>2, ServerRefuses DEF ServerStep
  <2>3. CASE \E m \in Macs : StationStep(m)
    BY <2>1, <2>3, StationTransaction, TransactionKeeps DEF RInv
  <2>4. CASE Lose \/ UNCHANGED vars
    <3>1. /\ requests' \subseteq requests /\ replies' \subseteq replies
          /\ UNCHANGED <<cache, st, ip>>
      BY <2>4 DEF Lose, serverVars, vars
    <3> QED
      BY <2>1, <3>1 DEF RInv, Asked, NotYetAsked, Refusals
  <2> QED
    BY <2>2, <2>3, <2>4 DEF Next
<1>3. RInv => RefusalsDeserved
  BY DEF RInv, Refusals, RefusalsDeserved, Barred, Asking
<1> QED
  BY <1>1, <1>2, <1>3, PTL DEF Spec

=============================================================================
