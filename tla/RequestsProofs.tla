--------------------------- MODULE RequestsProofs ---------------------------
(***************************************************************************)
(* The safety of Requests, for every finite set of requests, every set of  *)
(* clients and proxies, every limit, window and pool: type correctness,    *)
(* which says what the one event loop and the pool of connections can rely *)
(* on; what the limiter bounds, and whom it rejects; and what validation   *)
(* stores.                                                                 *)
(***************************************************************************)
EXTENDS Requests, FiniteSetTheorems, TLAPS

OnTheLoop == {"connect", "inspect"}

LimiterOK ==
    /\ hits \in [Addresses -> 0 .. Limit + 1]
    /\ left \in [Addresses -> 0 .. Window]
    /\ since \in [Addresses -> [Ages -> Nat]]

\* The handler that runs is the one the loop is at: there is no second one.
LoopInv ==
    /\ loop \in Slots \cup {Nobody}
    /\ \A s \in Slots : loop = s <=> request[s].pc \in OnTheLoop

\* TypeOK, in parts.
Inv ==
    /\ LimiterOK
    /\ request \in [Slots -> Request]
    /\ LoopInv
    /\ job \in BOOLEAN
    /\ Free >= 0

LEMMA InvTyped == Inv => TypeOK
BY DEF Inv, TypeOK, LimiterOK, LoopInv, OnTheLoop

LEMMA RequestsAre ==
    /\ NoRequest \in Request /\ NoRequest.pc = "none" /\ ~NoRequest.held
    /\ \A k \in Kinds, f, a \in Addresses :
          /\ Ready(k, f, a) \in Request
          /\ Ready(k, f, a).pc = "ready" /\ ~Ready(k, f, a).held
    /\ \A pc \in OnTheLoop, k \in Kinds, h \in BOOLEAN :
          /\ Handling(pc, k, h) \in Request
          /\ Handling(pc, k, h).pc = pc /\ Handling(pc, k, h).held = h
    /\ \A pc \in {"reply", "close"}, h \in BOOLEAN :
          /\ Leaving(pc, h) \in Request
          /\ Leaving(pc, h).pc = pc /\ Leaving(pc, h).held = h
BY DEF Request, NoRequest, Ready, Handling, Leaving, OnTheLoop

-----------------------------------------------------------------------------
(* Connections.                                                            *)

LEMMA HoldersFinite ==
    IsFiniteSet(Holders) /\ Cardinality(Holders) \in Nat
BY RequestsAssumption, FS_Subset, FS_CardinalityType DEF Holders

\* What gives no connection out leaves the pool no emptier.
LEMMA PoolKept ==
    ASSUME Inv, NEW s \in Slots, NEW r \in Request, Becomes(s, r),
           r.held => request[s].held, UNCHANGED job
    PROVE  Free' >= 0
<1>1. Holders' \subseteq Holders
  BY DEF Holders, Becomes, Inv
<1>2. /\ Cardinality(Holders') \in Nat /\ Cardinality(Holders) \in Nat
      /\ Cardinality(Holders') <= Cardinality(Holders)
  BY <1>1, HoldersFinite, FS_Subset, FS_CardinalityType
<1> QED
  BY <1>2, RequestsAssumption DEF Free, Inv

\* A connection is taken only if one is free.
LEMMA PoolTaken ==
    ASSUME Inv, NEW s \in Slots, NEW r \in Request, Becomes(s, r),
           Free > 0, UNCHANGED job
    PROVE  Free' >= 0
<1>1. Holders' \subseteq Holders \cup {s}
  BY DEF Holders, Becomes, Inv
<1>2. /\ IsFiniteSet(Holders \cup {s})
      /\ Cardinality(Holders \cup {s}) <= Cardinality(Holders) + 1
      /\ Cardinality(Holders \cup {s}) \in Nat
  <2>1. IsFiniteSet(Holders)
    BY HoldersFinite
  <2>2. /\ IsFiniteSet(Holders \cup {s})
        /\ Cardinality(Holders \cup {s}) =
              IF s \in Holders THEN Cardinality(Holders) ELSE Cardinality(Holders) + 1
    BY <2>1, FS_AddElement
  <2> QED
    BY <2>2, HoldersFinite
<1>3. /\ Cardinality(Holders') \in Nat /\ Cardinality(Holders) \in Nat
      /\ Cardinality(Holders') <= Cardinality(Holders) + 1
  BY <1>1, <1>2, HoldersFinite, FS_Subset, FS_CardinalityType
<1> QED
  BY <1>3, RequestsAssumption DEF Free, Inv

LEMMA PoolSame ==
    ASSUME Inv, UNCHANGED <<request, job>>
    PROVE  Free' >= 0
BY DEF Inv, Free, Holders

-----------------------------------------------------------------------------
(* The limiter.                                                            *)

LEMMA HitType ==
    ASSUME LimiterOK, NEW a \in Addresses, Hit(a)
    PROVE  hits' \in [Addresses -> 0 .. Limit + 1] /\ left' \in [Addresses -> 0 .. Window]
<1>1. hits[a] + 1 \in Nat /\ Limit + 1 \in Nat /\ Limit + 1 >= 1 /\ hits[a] \in 0 .. Limit + 1
  BY RequestsAssumption DEF LimiterOK
<1>2. Count(a) \in 0 .. Limit + 1
  <2>1. CASE left[a] = 0
    BY <1>1, <2>1 DEF Count
  <2>2. CASE left[a] # 0
    <3>1. \E x \in {hits[a] + 1, Limit + 1} :
             \A y \in {hits[a] + 1, Limit + 1} : x <= y
      BY <1>1
    <3>2. Count(a) \in {hits[a] + 1, Limit + 1} /\ Count(a) <= Limit + 1
      BY <2>2, <3>1 DEF Count, Min
    <3> QED
      BY <1>1, <3>2
  <2> QED
    BY <2>1, <2>2
<1>3. Remaining(a) \in 0 .. Window
  BY RequestsAssumption DEF Remaining, LimiterOK
<1> QED
  BY <1>2, <1>3 DEF Hit, LimiterOK

-----------------------------------------------------------------------------
(* The requests.                                                           *)

\* The first of the header is what the client wrote, if it wrote anything.
LEMMA HeaderOf ==
    ASSUME NEW c \in Clients, NEW route \in Routes, NEW own \in Written,
           NEW f, f = ForwardedFor(c, route, own)
    PROVE  /\ Peer(c, route) \in Addresses
           /\ IF route = <<>> THEN Peer(c, route) = c ELSE Peer(c, route) \in Proxies
           /\ own = <<>> /\ route = <<>> => f = <<>>
           /\ own = <<>> /\ route # <<>> => f # <<>> /\ f[1] = c
           /\ own # <<>> => f # <<>> /\ f[1] \in Addresses
<1>1. PICK n \in 0 .. 2 : route \in [1 .. n -> Proxies]
  BY DEF Routes
<1>2. Len(route) = n /\ route \in Seq(Proxies)
  BY <1>1
<1>3. /\ Peer(c, route) \in Addresses
      /\ IF route = <<>> THEN Peer(c, route) = c ELSE Peer(c, route) \in Proxies
  BY <1>1, <1>2 DEF Peer, Addresses
<1> DEFINE added == IF route = <<>> THEN <<>> ELSE <<c>> \o SubSeq(route, 1, n - 1)
<1>4. added \in Seq(Addresses) /\ (route # <<>> => added # <<>> /\ added[1] = c)
  <2>1. CASE route = <<>>
    BY <2>1
  <2>2. CASE route # <<>>
    <3>1. n \in Nat /\ n # 0 /\ c \in Addresses /\ route \in Seq(Addresses)
      BY <1>1, <1>2, <2>2 DEF Addresses
    <3>2. SubSeq(route, 1, n - 1) \in Seq(Addresses) /\ <<c>> \in Seq(Addresses)
      BY <1>2, <3>1
    <3>3. added = <<c>> \o SubSeq(route, 1, n - 1)
      BY <2>2
    <3> QED
      BY <3>2, <3>3
  <2> QED
    BY <2>1, <2>2
<1>5. f = own \o added
  <2>1. CASE route = <<>>
    BY <2>1 DEF ForwardedFor, Written
  <2>2. CASE route # <<>>
    BY <1>2, <2>2 DEF ForwardedFor, Written, Addresses
  <2> QED
    BY <2>1, <2>2
<1>6. route = <<>> => added = <<>>
  OBVIOUS
<1> HIDE DEF added
<1>7. CASE own = <<>>
  <2>1. f = added
    BY <1>4, <1>5, <1>7
  <2> QED
    BY <1>3, <1>4, <1>6, <1>7, <2>1
<1>8. CASE own # <<>>
  <2>1. PICK a \in Addresses : own = <<a>>
    BY <1>8 DEF Written
  <2>2. f # <<>> /\ f[1] = a
    BY <1>4, <1>5, <2>1
  <2> QED
    BY <1>3, <1>8, <2>1, <2>2
<1> QED
  BY <1>7, <1>8

\* The middleware names an address there is.
LEMMA AddressType ==
    ASSUME NEW c \in Clients, NEW route \in Routes, NEW own \in Written
    PROVE  Address(Peer(c, route), ForwardedFor(c, route, own)) \in Addresses
<1>1. c \in Addresses
  BY DEF Addresses
<1> QED
  BY <1>1, HeaderOf DEF Address

\* What moves one request on, from off the loop to off the loop.
LEMMA OffLoopInv ==
    ASSUME Inv, NEW s \in Slots, NEW r \in Request, Becomes(s, r),
           request[s].pc \notin OnTheLoop, r.pc \notin OnTheLoop,
           r.held => request[s].held, UNCHANGED <<loop, job>>, LimiterOK'
    PROVE  Inv'
<1>1. LoopInv' /\ request' \in [Slots -> Request]
  BY DEF Inv, LoopInv, Becomes
<1> QED
  BY <1>1, PoolKept DEF Inv

\* What a handler does while the loop is at it; ends: it returns.
LEMMA OnLoopInv ==
    ASSUME Inv, NEW s \in Slots, NEW r \in Request, Becomes(s, r), loop = s,
           \/ loop' = s /\ r.pc \in OnTheLoop
           \/ loop' = Nobody /\ r.pc \notin OnTheLoop,
           (r.held => request[s].held) \/ Free > 0,
           UNCHANGED <<limiter, job>>
    PROVE  Inv'
<1>1. request' \in [Slots -> Request] /\ LimiterOK'
  BY DEF Inv, Becomes, LimiterOK, limiter
<1>2. LoopInv'
  BY RequestsAssumption DEF Inv, LoopInv, Becomes
<1> QED
  BY <1>1, <1>2, PoolKept, PoolTaken DEF Inv

LEMMA FieldsOf ==
    ASSUME Inv, NEW s \in Slots
    PROVE  /\ request[s].held \in BOOLEAN
           /\ request[s].pc = "ready" =>
                 /\ request[s].kind \in Kinds
                 /\ request[s].from \in Addresses
                 /\ request[s].addr \in Addresses
<1>1. request[s] \in Request
  BY DEF Inv
<1>2. CASE request[s] = NoRequest
  BY <1>2 DEF NoRequest
<1>3. CASE request[s] \in [pc : {"ready"}, held : {FALSE},
                         kind : Kinds, from : Addresses, addr : Addresses]
  BY <1>3
<1>4. CASE \/ request[s] \in [pc : {"connect", "inspect"}, held : BOOLEAN, kind : Kinds]
           \/ request[s] \in [pc : {"reply", "close"}, held : BOOLEAN]
  BY <1>4
<1> QED
  BY <1>1, <1>2, <1>3, <1>4 DEF Request

LEMMA ArriveInv ==
    ASSUME Inv, NEW s \in Slots, Arrive(s)
    PROVE  Inv'
<1>1. /\ request[s].pc = "none" /\ LimiterOK'
      /\ UNCHANGED <<loop, job>>
  BY DEF Arrive, OnLoop, Inv, LimiterOK, limiter
<1>2. Anyone \in Clients /\ Anyone \in Addresses
  BY RequestsAssumption DEF Anyone, Addresses
<1>3. PICK r : /\ Becomes(s, r)
               /\ \/ \E k \in Kinds, f, a \in Addresses : r = Ready(k, f, a)
                  \/ r = Leaving("reply", FALSE)
  <2>1. CASE \E kind \in {"stats", "health"} : Becomes(s, Ready(kind, Anyone, Anyone))
    BY <1>2, <2>1 DEF Kinds
  <2>2. CASE \E c \in Clients, route \in Routes, own \in Written :
                LET a == Address(Peer(c, route), ForwardedFor(c, route, own))
                IN  Becomes(s, Ready("telemetry", IF own = <<>> THEN c ELSE a, a))
    <3>1. \A c \in Clients : c \in Addresses
      BY DEF Addresses
    <3> QED
      BY <2>2, <3>1, AddressType DEF Kinds
  <2> QED
    BY <2>1, <2>2 DEF Arrive
<1>4. r \in Request /\ ~r.held /\ r.pc \notin OnTheLoop
  BY <1>3, RequestsAre DEF OnTheLoop
<1> QED
  BY <1>1, <1>3, <1>4, OffLoopInv DEF OnTheLoop

LEMMA CallInv ==
    ASSUME Inv, NEW s \in Slots, Call(s)
    PROVE  Inv'
<1> DEFINE r == Handling("connect", request[s].kind, FALSE)
<1>1. /\ request[s].pc = "ready" /\ loop = Nobody /\ loop' = s /\ Becomes(s, r)
      /\ UNCHANGED job
  BY DEF Call, OnLoop
<1>2. r \in Request /\ ~r.held /\ r.pc \in OnTheLoop
  BY <1>1, FieldsOf, RequestsAre DEF OnTheLoop
<1>3. LimiterOK'
  <2>1. CASE request[s].kind = "telemetry"
    <3>1. Hit(request[s].addr) /\ request[s].addr \in Addresses
      BY <1>1, <2>1, FieldsOf DEF Call
    <3>2. since' \in [Addresses -> [Ages -> Nat]]
      <4>1. /\ since \in [Addresses -> [Ages -> Nat]] /\ request[s].from \in Addresses
            /\ since' = [since EXCEPT ![request[s].from] =
                           [age \in Ages |-> @[age] + 1]]
        BY <1>1, <2>1, FieldsOf DEF Call, Inv, LimiterOK
      <4>2. \A age \in Ages : since[request[s].from][age] + 1 \in Nat
        BY <4>1
      <4> QED
        BY <4>1, <4>2
    <3> QED
      BY <3>1, <3>2, HitType DEF LimiterOK, Inv
  <2>2. CASE request[s].kind # "telemetry"
    BY <2>2 DEF Call, limiter, LimiterOK, Inv
  <2> QED
    BY <2>1, <2>2
<1> HIDE DEF r
<1>4. request' \in [Slots -> Request]
  BY <1>1, <1>2 DEF Inv, Becomes
<1>5. LoopInv'
  BY <1>1, <1>2, RequestsAssumption DEF Inv, LoopInv, Becomes
<1> QED
  BY <1>1, <1>2, <1>3, <1>4, <1>5, PoolKept DEF Inv

LEMMA RejectInv ==
    ASSUME Inv, NEW s \in Slots, Reject(s)
    PROVE  Inv'
<1>1. /\ request[s].pc = "ready" /\ Becomes(s, Leaving("reply", FALSE))
      /\ Hit(request[s].addr) /\ UNCHANGED <<since, loop, job>>
  BY DEF Reject, OnLoop
<1>2. LimiterOK'
  BY <1>1, HitType, FieldsOf DEF LimiterOK, Inv
<1>3. /\ Leaving("reply", FALSE) \in Request /\ ~Leaving("reply", FALSE).held
      /\ Leaving("reply", FALSE).pc \notin OnTheLoop
  BY RequestsAre DEF OnTheLoop
<1> QED
  BY <1>1, <1>2, <1>3, OffLoopInv DEF OnTheLoop

LEMMA HandleInv ==
    ASSUME Inv, NEW s \in Slots, Handle(s)
    PROVE  Inv'
<1>1. /\ loop = s /\ request[s].held \in BOOLEAN /\ UNCHANGED <<limiter, job>>
  BY FieldsOf DEF Handle, Connect, ConnectHealth, Inspect, GiveUp
<1>2. \A h \in BOOLEAN :
         /\ Leaving("reply", h) \in Request /\ Leaving("reply", h).held = h
         /\ Leaving("reply", h).pc \notin OnTheLoop
  BY RequestsAre DEF OnTheLoop
<1>3. \A h \in BOOLEAN :
         /\ Handling("inspect", "health", h) \in Request
         /\ Handling("inspect", "health", h).held = h
         /\ Handling("inspect", "health", h).pc \in OnTheLoop
  BY RequestsAre DEF OnTheLoop, Kinds
<1>4. CASE Connect(s)
  <2>1. PICK kept \in BOOLEAN : Becomes(s, Leaving("reply", kept))
    BY <1>4 DEF Connect
  <2> QED
    BY <1>1, <1>2, <1>4, <2>1, OnLoopInv DEF Connect
<1>5. CASE ConnectHealth(s)
  BY <1>1, <1>3, <1>5, OnLoopInv DEF ConnectHealth
<1>6. CASE Inspect(s)
  BY <1>1, <1>2, <1>6, OnLoopInv DEF Inspect
<1>7. CASE GiveUp(s)
  <2>1. CASE request[s].kind = "health" /\ request[s].pc = "connect"
    BY <1>1, <1>3, <1>7, <2>1, OnLoopInv DEF GiveUp
  <2>2. CASE ~(request[s].kind = "health" /\ request[s].pc = "connect")
    BY <1>1, <1>2, <1>7, <2>2, OnLoopInv DEF GiveUp
  <2> QED
    BY <2>1, <2>2
<1> QED
  BY <1>4, <1>5, <1>6, <1>7 DEF Handle

LEMMA LeaveInv ==
    ASSUME Inv, NEW s \in Slots, Reply(s) \/ Close(s)
    PROVE  Inv'
<1>1. LimiterOK' /\ UNCHANGED <<loop, job>> /\ request[s].held \in BOOLEAN
  BY FieldsOf DEF Reply, Close, Inv, LimiterOK, limiter
<1>2. CASE Reply(s)
  <2> DEFINE r == Leaving("close", request[s].held)
  <2>1. r \in Request /\ r.held = request[s].held /\ r.pc \notin OnTheLoop
    BY <1>1, RequestsAre DEF OnTheLoop
  <2>2. Becomes(s, r) /\ request[s].pc \notin OnTheLoop
    BY <1>2 DEF Reply, OnLoop, OnTheLoop
  <2> HIDE DEF r
  <2> QED
    BY <1>1, <2>1, <2>2, OffLoopInv
<1>3. CASE Close(s)
  <2>1. NoRequest \in Request /\ ~NoRequest.held /\ NoRequest.pc \notin OnTheLoop
    BY RequestsAre DEF OnTheLoop
  <2>2. Becomes(s, NoRequest) /\ request[s].pc \notin OnTheLoop
    BY <1>3 DEF Close, OnTheLoop
  <2> QED
    BY <1>1, <2>1, <2>2, OffLoopInv
<1> QED
  BY <1>2, <1>3

\* The job, too, takes a connection only if one is free.
LEMMA JobInv ==
    ASSUME Inv, JobConnect \/ JobReturn
    PROVE  Inv'
<1>1. UNCHANGED <<limiter, request, loop>> /\ job' \in BOOLEAN
  BY DEF JobConnect, JobReturn
<1>2. LimiterOK' /\ LoopInv' /\ Holders' = Holders
  BY <1>1 DEF Inv, LimiterOK, LoopInv, limiter, Holders
<1>3. Free' >= 0
  BY <1>2, HoldersFinite, RequestsAssumption DEF JobConnect, JobReturn, Free, Inv
<1> QED
  BY <1>1, <1>2, <1>3 DEF Inv

LEMMA TickInv ==
    ASSUME Inv, Tick
    PROVE  Inv'
<1>1. LimiterOK'
  <2>1. left' \in [Addresses -> 0 .. Window] /\ hits' \in [Addresses -> 0 .. Limit + 1]
    BY RequestsAssumption DEF Tick, Inv, LimiterOK
  <2>2. since' \in [Addresses -> [Ages -> Nat]]
    <3>1. \A a \in Addresses, age \in Ages :
             (IF age = 0 THEN 0 ELSE since[a][age - 1]) \in Nat
      BY RequestsAssumption DEF Inv, LimiterOK, Ages
    <3> QED
      BY <3>1 DEF Tick
  <2> QED
    BY <2>1, <2>2 DEF LimiterOK
<1>2. UNCHANGED <<request, loop, job>>
  BY DEF Tick
<1> QED
  BY <1>1, <1>2, PoolSame DEF Inv, LoopInv

LEMMA InitInv == Init => Inv
<1> SUFFICES ASSUME Init PROVE Inv
  OBVIOUS
<1>1. LimiterOK
  BY RequestsAssumption DEF Init, LimiterOK
<1>2. /\ NoRequest \in Request /\ NoRequest.pc \notin OnTheLoop /\ ~NoRequest.held
  BY RequestsAre DEF OnTheLoop
<1>3. request \in [Slots -> Request] /\ LoopInv /\ job = FALSE
  BY <1>2, RequestsAssumption DEF Init, LoopInv
<1>4. Holders = {}
  BY <1>2 DEF Init, Holders
<1>5. Free >= 0
  BY <1>3, <1>4, FS_EmptySet, RequestsAssumption DEF Free
<1> QED
  BY <1>1, <1>3, <1>5 DEF Inv

LEMMA NextInv == Inv /\ [Next]_vars => Inv'
<1> SUFFICES ASSUME Inv, [Next]_vars PROVE Inv'
  OBVIOUS
<1>1. ASSUME NEW s \in Slots,
             Arrive(s) \/ Call(s) \/ Reject(s) \/ Handle(s) \/ Reply(s) \/ Close(s)
      PROVE  Inv'
  BY <1>1, ArriveInv, CallInv, RejectInv, HandleInv, LeaveInv
<1>2. CASE UNCHANGED vars
  BY <1>2, PoolSame DEF vars, limiter, Inv, LimiterOK, LoopInv
<1> QED
  BY <1>1, <1>2, JobInv, TickInv DEF Next

-----------------------------------------------------------------------------
\* However many requests there are and whichever fail, time out or are
\* rejected: the loop is at the one handler that runs, and the pool never
\* lends more connections than it has.
THEOREM RequestsTypeCorrect == Spec => []TypeOK
BY InitInv, NextInv, InvTyped, PTL DEF Spec

-----------------------------------------------------------------------------
(* What the limiter bounds, when every proxy is trusted: the setting's     *)
(* default is "*", and README.md:161 asks for the proxy's address.  What   *)
(* a client writes in X-Forwarded-For is not restricted.                   *)

ProxiesTrusted == "*" \in Trusted \/ Proxies \subseteq Trusted

\* Then a request that is ready has the address of whom it comes from.
Own ==
    \A s \in Slots :
        request[s].pc = "ready" => request[s].addr = request[s].from

\* What the window of an address, with n hits and l ticks left, has to do
\* with the admissions S under it.  No window: they are too few to fill
\* the limit, none of them in this tick.  Else the window holds what the
\* limiter counted, the minute up to now one less than the limit before it,
\* and the window's first tick one at least, so that it is less again when
\* that tick has left the minute.
WindowOf(S, n, l) ==
    IF l = 0 THEN S[0] = 0 /\ S[Window - 1] <= Limit - 1
    ELSE /\ n >= 1
         /\ S[Window - l] = (IF n <= Limit THEN n ELSE Limit)
         /\ S[Window - 1] - S[Window - l] <= Limit - 1
         /\ l < Window => S[Window - l - 1] < S[Window - l]

Monotone(S) == \A i, j \in Ages : i <= j => S[i] <= S[j]

Counted ==
    \A a \in Addresses : Monotone(since[a]) /\ WindowOf(since[a], hits[a], left[a])

LimitInv == Inv /\ Own /\ Counted

\* With proxies trusted, who writes nothing in the header has its own address.
LEMMA AddressIsOwn ==
    ASSUME ProxiesTrusted, NEW c \in Clients, NEW route \in Routes
    PROVE  Address(Peer(c, route), ForwardedFor(c, route, <<>>)) = c
<1>1. <<>> \in Written
  BY DEF Written
<1> QED
  BY <1>1, HeaderOf DEF Address, ProxiesTrusted

LEMMA OwnKept ==
    ASSUME LimitInv, NEW s \in Slots, NEW r, Becomes(s, r),
           r.pc = "ready" => r.addr = r.from
    PROVE  Own'
BY DEF LimitInv, Inv, Own, Becomes

LEMMA OwnStep ==
    ASSUME ProxiesTrusted, LimitInv, [Next]_vars
    PROVE  Own'
<1>1. ASSUME NEW s \in Slots, Arrive(s) PROVE Own'
  <2>1. PICK r : /\ Becomes(s, r)
                 /\ \/ \E k \in Kinds, a \in Addresses : r = Ready(k, a, a)
                    \/ r = Leaving("reply", FALSE)
    <3>1. Anyone \in Addresses
      BY RequestsAssumption DEF Anyone, Addresses
    <3>2. CASE \E kind \in {"stats", "health"} :
                  Becomes(s, Ready(kind, Anyone, Anyone))
      BY <3>1, <3>2 DEF Kinds
    <3>3. ASSUME NEW c \in Clients, NEW route \in Routes, NEW own \in Written,
                 NEW a, a = Address(Peer(c, route), ForwardedFor(c, route, own)),
                 Becomes(s, Ready("telemetry", IF own = <<>> THEN c ELSE a, a))
          PROVE  a \in Addresses /\ Becomes(s, Ready("telemetry", a, a))
      BY <3>3, AddressType, AddressIsOwn
    <3> QED
      BY <1>1, <3>2, <3>3 DEF Arrive, Kinds
  <2>2. r.pc = "ready" => r.addr = r.from
    BY <2>1 DEF Ready, Leaving
  <2> QED
    BY <2>1, <2>2, OwnKept
<1>2. ASSUME NEW s \in Slots,
             Call(s) \/ Reject(s) \/ Handle(s) \/ Reply(s) \/ Close(s)
      PROVE  Own'
  <2>1. /\ NoRequest.pc # "ready"
        /\ \A pc, k, h : /\ Handling(pc, k, h).pc = pc
                         /\ Leaving(pc, h).pc = pc
    BY DEF Handling, Leaving, NoRequest
  <2>2. \/ Becomes(s, NoRequest)
        \/ \E pc \in {"connect", "inspect", "reply", "close"} : \E k, h :
              Becomes(s, Handling(pc, k, h)) \/ Becomes(s, Leaving(pc, h))
    <3>1. CASE Call(s) \/ Reject(s) \/ Reply(s) \/ Close(s)
      BY <3>1 DEF Call, Reject, Reply, Close
    <3>2. CASE Connect(s) \/ ConnectHealth(s) \/ Inspect(s)
      BY <3>2 DEF Connect, ConnectHealth, Inspect
    <3>3. CASE GiveUp(s)
      BY <3>3 DEF GiveUp
    <3> QED
      BY <1>2, <3>1, <3>2, <3>3 DEF Handle
  <2>3. PICK r : Becomes(s, r) /\ r.pc # "ready"
    BY <2>1, <2>2
  <2> QED
    BY <2>3, OwnKept
<1>3. CASE JobConnect \/ JobReturn \/ Tick \/ UNCHANGED vars
  BY <1>3 DEF JobConnect, JobReturn, Tick, vars, LimitInv, Own
<1> QED
  BY <1>1, <1>2, <1>3 DEF Next

-----------------------------------------------------------------------------
(* The window of one address: S, n and l as in WindowOf.                   *)

LEMMA Numbers ==
    /\ Limit \in Nat /\ Limit >= 1 /\ Window \in Nat /\ Window >= 1
    /\ 0 \in Ages /\ Window - 1 \in Ages
    /\ \A l \in 1 .. Window : Window - l \in Ages
    /\ \A l \in 1 .. Window - 1 : Window - l - 1 \in Ages
    /\ \A age \in Ages : age # 0 => age - 1 \in Ages
    /\ \A age \in Ages : 0 <= age /\ age <= Window - 1 /\ age \in Nat
BY RequestsAssumption DEF Ages

\* A hit: what the limiter counts.
LEMMA CountIs ==
    ASSUME LimiterOK, NEW a \in Addresses
    PROVE  /\ left[a] = 0 => Count(a) = 1
           /\ left[a] # 0 /\ hits[a] <= Limit => Count(a) = hits[a] + 1
           /\ left[a] # 0 /\ hits[a] > Limit => Count(a) = Limit + 1
           /\ hits[a] \in 0 .. Limit + 1
<1>1. hits[a] \in 0 .. Limit + 1 /\ Limit \in Nat
  BY RequestsAssumption DEF LimiterOK
<1>2. CASE left[a] = 0
  BY <1>1, <1>2 DEF Count
<1>3. CASE left[a] # 0
  <2>1. \E x \in {hits[a] + 1, Limit + 1} :
           \A y \in {hits[a] + 1, Limit + 1} : x <= y
    BY <1>1
  <2>2. /\ Count(a) \in {hits[a] + 1, Limit + 1}
        /\ Count(a) <= hits[a] + 1 /\ Count(a) <= Limit + 1
    BY <1>3, <2>1 DEF Count, Min
  <2> QED
    BY <1>1, <1>3, <2>2
<1> QED
  BY <1>2, <1>3

LEMMA WindowAdmits ==
    ASSUME NEW S \in [Ages -> Nat], NEW n \in 0 .. Limit + 1, NEW l \in 0 .. Window,
           NEW T, T = [age \in Ages |-> S[age] + 1],
           NEW m, m = (IF l = 0 THEN 1 ELSE n + 1), m <= Limit,
           Monotone(S), WindowOf(S, n, l)
    PROVE  Monotone(T) /\ WindowOf(T, m, IF l = 0 THEN Window ELSE l)
<1>1. Monotone(T)
  BY DEF Monotone
<1>2. CASE l = 0
  <2>1. T[0] = 1 /\ T[Window - 1] = S[Window - 1] + 1 /\ Window - Window = 0 /\ S[0] = 0
    BY <1>2, Numbers DEF WindowOf
  <2>2. S[Window - 1] \in Nat /\ S[Window - 1] <= Limit - 1
    BY <1>2, Numbers DEF WindowOf
  <2> QED
    BY <1>1, <1>2, <2>1, <2>2, Numbers DEF WindowOf
<1>3. CASE l # 0
  <2>1. /\ Window - l \in Ages /\ Window - 1 \in Ages
        /\ T[Window - l] = S[Window - l] + 1 /\ T[Window - 1] = S[Window - 1] + 1
        /\ S[Window - l] \in Nat /\ S[Window - 1] \in Nat
    BY <1>3, Numbers
  <2>2. n + 1 <= Limit /\ S[Window - l] = n
    BY <1>3, Numbers DEF WindowOf
  <2>3. l < Window => /\ T[Window - l - 1] = S[Window - l - 1] + 1
                      /\ S[Window - l - 1] \in Nat
    BY <1>3, Numbers
  <2> QED
    BY <1>1, <1>3, <2>1, <2>2, <2>3, Numbers DEF WindowOf
<1> QED
  BY <1>2, <1>3

LEMMA WindowRejects ==
    ASSUME NEW S \in [Ages -> Nat], NEW n \in 0 .. Limit + 1, NEW l \in 1 .. Window,
           NEW m \in 0 .. Limit + 1, n >= Limit, m >= Limit, WindowOf(S, n, l)
    PROVE  WindowOf(S, m, l)
BY Numbers DEF WindowOf

LEMMA WindowTicks ==
    ASSUME NEW S \in [Ages -> Nat], NEW n \in 0 .. Limit + 1, NEW l \in 0 .. Window,
           NEW T, T = [age \in Ages |-> IF age = 0 THEN 0 ELSE S[age - 1]],
           NEW m, m = (IF l <= 1 THEN 0 ELSE n),
           NEW k, k = (IF l = 0 THEN 0 ELSE l - 1),
           Monotone(S), WindowOf(S, n, l)
    PROVE  Monotone(T) /\ WindowOf(T, m, k)
<1>1. T[0] = 0 /\ \A age \in Ages : age # 0 => T[age] = S[age - 1]
  BY Numbers
<1>2. Monotone(T)
  <2> SUFFICES ASSUME NEW i \in Ages, NEW j \in Ages, i <= j
               PROVE  T[i] <= T[j]
    BY DEF Monotone
  <2>1. CASE i = 0
    BY <1>1, <2>1, Numbers
  <2>2. CASE i # 0
    <3>1. /\ j # 0 /\ i - 1 \in Ages /\ j - 1 \in Ages /\ i - 1 <= j - 1
          /\ T[i] = S[i - 1] /\ T[j] = S[j - 1]
      BY <1>1, <2>2, Numbers
    <3> QED
      BY <3>1 DEF Monotone
  <2> QED
    BY <2>1, <2>2
\* No more admissions in the minute than before.
<1>3. T[Window - 1] <= S[Window - 1] /\ T[Window - 1] \in Nat /\ S[Window - 1] \in Nat
  <2>1. CASE Window = 1
    BY <1>1, <2>1, Numbers
  <2>2. CASE Window # 1
    <3>1. /\ Window - 1 # 0 /\ (Window - 1) - 1 \in Ages /\ (Window - 1) - 1 <= Window - 1
          /\ T[Window - 1] = S[(Window - 1) - 1]
      BY <1>1, <2>2, Numbers
    <3> QED
      BY <3>1, Numbers DEF Monotone
  <2> QED
    BY <2>1, <2>2
<1>4. CASE l = 0
  BY <1>1, <1>2, <1>3, <1>4, Numbers DEF WindowOf
\* The window ends: the tick of its first hit leaves the minute.
<1>5. CASE l = 1
  <2>1. k = 0 /\ S[Window - 1] <= Limit /\ n >= 1
    BY <1>5, Numbers DEF WindowOf
  <2>2. CASE Window = 1
    BY <1>1, <1>2, <2>1, <2>2, Numbers DEF WindowOf
  <2>3. CASE Window # 1
    <3>1. T[Window - 1] = S[Window - 1 - 1] /\ S[Window - 1 - 1] < S[Window - 1]
      BY <1>1, <1>5, <2>3, Numbers DEF WindowOf
    <3> QED
      BY <1>1, <1>2, <1>3, <2>1, <3>1, Numbers DEF WindowOf
  <2> QED
    BY <2>2, <2>3
<1>6. CASE l > 1
  <2>1. /\ k = l - 1 /\ m = n /\ k # 0 /\ k < Window /\ n >= 1
        /\ Window - k \in Ages /\ Window - k # 0 /\ (Window - k) - 1 = Window - l
        /\ Window - l \in Ages
    BY <1>6, Numbers DEF WindowOf
  <2>2. T[Window - k] = S[Window - l] /\ S[Window - l] \in Nat
    BY <1>1, <2>1
  <2>3. T[Window - k - 1] < T[Window - k]
    <3>1. CASE l = Window
      BY <1>1, <1>6, <2>1, <2>2, <3>1, Numbers DEF WindowOf
    <3>2. CASE l < Window
      <4>1. Window - l # 0
        BY <3>2, Numbers
      <4>2. T[Window - l] = S[Window - l - 1]
        BY <1>1, <2>1, <4>1
      <4>3. S[Window - l - 1] < S[Window - l]
        BY <1>6, <3>2 DEF WindowOf
      <4> QED
        BY <2>1, <2>2, <4>2, <4>3
    <3> QED
      BY <1>6, <3>1, <3>2, Numbers
  <2>4. /\ S[Window - l] = (IF n <= Limit THEN n ELSE Limit)
        /\ S[Window - 1] - S[Window - l] <= Limit - 1
    BY <1>6 DEF WindowOf
  <2> QED
    BY <1>2, <1>3, <2>1, <2>2, <2>3, <2>4, Numbers DEF WindowOf
<1> QED
  BY <1>4, <1>5, <1>6

-----------------------------------------------------------------------------
(* The steps of the limiter.                                               *)

\* Each address has counts of its own.
LEMMA CountsOf ==
    ASSUME LimitInv, NEW c \in Addresses
    PROVE  /\ since[c] \in [Ages -> Nat]
           /\ hits[c] \in 0 .. Limit + 1 /\ left[c] \in 0 .. Window
           /\ Monotone(since[c]) /\ WindowOf(since[c], hits[c], left[c])
BY DEF LimitInv, Inv, LimiterOK, Counted

\* What a heartbeat that is ready does to the counts of its address, which
\* is whom it comes from: those of another stay.
LEMMA HitOf ==
    ASSUME LimitInv, NEW s \in Slots, request[s].pc = "ready",
           NEW c, c = request[s].from, Hit(request[s].addr)
    PROVE  /\ c \in Addresses /\ request[s].addr = c
           /\ hits'[c] = Count(c) /\ left'[c] = Remaining(c)
           /\ \A d \in Addresses \ {c} : hits'[d] = hits[d] /\ left'[d] = left[d]
<1>1. c \in Addresses /\ request[s].addr = c
  BY FieldsOf DEF LimitInv, Own
<1> QED
  BY <1>1 DEF Hit, LimitInv, Inv, LimiterOK

LEMMA CallCounted ==
    ASSUME LimitInv, NEW s \in Slots, Call(s)
    PROVE  Counted'
<1>1. CASE request[s].kind # "telemetry"
  BY <1>1 DEF Call, limiter, LimitInv, Counted
<1>2. CASE request[s].kind = "telemetry"
  <2> DEFINE c == request[s].from
  <2>1. /\ request[s].pc = "ready" /\ Hit(request[s].addr) /\ Admits(request[s].addr)
        /\ since' = [since EXCEPT ![c] = [age \in Ages |-> @[age] + 1]]
    BY <1>2 DEF Call, OnLoop
  <2>2. /\ c \in Addresses /\ hits'[c] = Count(c) /\ left'[c] = Remaining(c)
        /\ Count(c) <= Limit
        /\ \A d \in Addresses \ {c} : hits'[d] = hits[d] /\ left'[d] = left[d]
    BY <2>1, HitOf DEF Admits
  <2>3. /\ since \in [Addresses -> [Ages -> Nat]]
        /\ since'[c] = [age \in Ages |-> since[c][age] + 1]
        /\ \A d \in Addresses \ {c} : since'[d] = since[d]
    BY <2>1, <2>2 DEF LimitInv, Inv, LimiterOK
  <2> HIDE DEF c
  <2>4. Count(c) = (IF left[c] = 0 THEN 1 ELSE hits[c] + 1)
    BY <2>2, CountsOf, CountIs, Numbers DEF LimitInv, Inv
  <2>5. Monotone(since'[c]) /\ WindowOf(since'[c], hits'[c], left'[c])
    BY <2>2, <2>3, <2>4, CountsOf, WindowAdmits DEF Remaining
  <2>6. \A d \in Addresses \ {c} :
           Monotone(since'[d]) /\ WindowOf(since'[d], hits'[d], left'[d])
    BY <2>2, <2>3, CountsOf
  <2> QED
    BY <2>5, <2>6 DEF Counted
<1> QED
  BY <1>1, <1>2

\* Who is rejected has a window that is full.
LEMMA RejectedInWindow ==
    ASSUME LimitInv, NEW s \in Slots, Reject(s)
    PROVE  /\ request[s].pc = "ready" /\ request[s].from \in Addresses
           /\ left[request[s].from] # 0 /\ hits[request[s].from] >= Limit
           /\ ~Admits(request[s].from) /\ Hit(request[s].addr)
           /\ since' = since
<1>1. /\ request[s].pc = "ready" /\ ~Admits(request[s].addr) /\ Hit(request[s].addr)
      /\ since' = since
  BY DEF Reject, OnLoop
<1> DEFINE c == request[s].from
<1>2. c \in Addresses /\ request[s].addr = c
  BY <1>1, HitOf
<1> HIDE DEF c
<1>3. c \in Addresses /\ LimiterOK
  BY <1>2 DEF Addresses, LimitInv, Inv
<1>4. Count(c) > Limit
  BY <1>1, <1>2, <1>3, CountIs, Numbers DEF Admits
<1>5. left[c] # 0 /\ hits[c] >= Limit
  BY <1>3, <1>4, CountIs, Numbers
<1> QED
  BY <1>1, <1>2, <1>5 DEF c

LEMMA RejectCounted ==
    ASSUME LimitInv, NEW s \in Slots, Reject(s)
    PROVE  Counted'
<1> DEFINE c == request[s].from
<1>1. /\ request[s].pc = "ready" /\ c \in Addresses /\ left[c] # 0 /\ hits[c] >= Limit
      /\ Hit(request[s].addr) /\ since' = since
  BY RejectedInWindow
<1>2. /\ hits'[c] = Count(c) /\ left'[c] = Remaining(c)
      /\ \A d \in Addresses \ {c} : hits'[d] = hits[d] /\ left'[d] = left[d]
  BY <1>1, HitOf
<1> HIDE DEF c
<1>3. /\ left'[c] = left[c] /\ left[c] \in 1 .. Window
      /\ hits'[c] \in 0 .. Limit + 1 /\ hits'[c] >= Limit
  <2>1. left'[c] = left[c] /\ left[c] \in 1 .. Window
    BY <1>1, <1>2, CountsOf, Numbers DEF Remaining
  <2>2. Count(c) \in 0 .. Limit + 1 /\ Count(c) >= Limit
    BY <1>1, CountsOf, CountIs, Numbers DEF LimitInv, Inv
  <2> QED
    BY <1>2, <2>1, <2>2
<1>4. Monotone(since'[c]) /\ WindowOf(since'[c], hits'[c], left'[c])
  BY <1>1, <1>3, CountsOf, WindowRejects
<1>5. \A d \in Addresses \ {c} :
         Monotone(since'[d]) /\ WindowOf(since'[d], hits'[d], left'[d])
  BY <1>1, <1>2, CountsOf
<1> QED
  BY <1>4, <1>5 DEF Counted

LEMMA TickCounted ==
    ASSUME LimitInv, Tick
    PROVE  Counted'
<1> SUFFICES ASSUME NEW c \in Addresses
             PROVE  Monotone(since'[c]) /\ WindowOf(since'[c], hits'[c], left'[c])
  BY DEF Counted
<1>1. /\ since'[c] = [age \in Ages |-> IF age = 0 THEN 0 ELSE since[c][age - 1]]
      /\ hits'[c] = (IF left[c] <= 1 THEN 0 ELSE hits[c])
      /\ left'[c] = (IF left[c] = 0 THEN 0 ELSE left[c] - 1)
  BY DEF Tick
<1> QED
  BY <1>1, CountsOf, WindowTicks

LEMMA CountedStep ==
    ASSUME LimitInv, [Next]_vars
    PROVE  Counted'
<1>1. ASSUME NEW s \in Slots,
             Arrive(s) \/ Call(s) \/ Reject(s) \/ Handle(s) \/ Reply(s) \/ Close(s)
      PROVE  Counted'
  <2>1. CASE Arrive(s) \/ Handle(s) \/ Reply(s) \/ Close(s)
    <3>1. UNCHANGED limiter
      BY <2>1 DEF Arrive, Handle, Connect, ConnectHealth, Inspect, GiveUp, Reply, Close
    <3> QED
      BY <3>1 DEF limiter, LimitInv, Counted
  <2> QED
    BY <1>1, <2>1, CallCounted, RejectCounted
<1>2. CASE JobConnect \/ JobReturn \/ UNCHANGED vars
  BY <1>2 DEF JobConnect, JobReturn, vars, limiter, LimitInv, Counted
<1> QED
  BY <1>1, <1>2, TickCounted DEF Next

LEMMA InitLimit == Init => LimitInv
<1> SUFFICES ASSUME Init PROVE LimitInv
  OBVIOUS
<1>1. Own
  BY RequestsAre DEF Init, Own
<1>2. Counted
  <2> SUFFICES ASSUME NEW c \in Addresses
               PROVE  Monotone(since[c]) /\ WindowOf(since[c], hits[c], left[c])
    BY DEF Counted
  <2>1. left[c] = 0 /\ \A age \in Ages : since[c][age] = 0
    BY DEF Init
  <2> QED
    BY <2>1, Numbers DEF Monotone, WindowOf
<1> QED
  BY <1>1, <1>2, InitInv DEF LimitInv

LEMMA NextLimit == ProxiesTrusted /\ LimitInv /\ [Next]_vars => LimitInv'
BY NextInv, OwnStep, CountedStep DEF LimitInv

LEMMA LimitBounds == LimitInv => RateBound
<1> SUFFICES ASSUME LimitInv, NEW c \in Addresses
             PROVE  InMinute(c) <= 2 * Limit - 1
  BY DEF RateBound
<1>1. CASE left[c] = 0
  BY <1>1, CountsOf, Numbers DEF WindowOf, InMinute
<1>2. CASE left[c] # 0
  <2>1. /\ Window - left[c] \in Ages /\ since[c] \in [Ages -> Nat]
        /\ since[c][Window - left[c]] <= Limit
        /\ since[c][Window - 1] - since[c][Window - left[c]] <= Limit - 1
    BY <1>2, CountsOf, Numbers DEF WindowOf
  <2> QED
    BY <2>1, Numbers DEF InMinute
<1> QED
  BY <1>1, <1>2

LEMMA RejectsOwn ==
    ASSUME LimitInv, [Next]_vars, NEW s \in Slots,
           request[s].pc = "ready", request'[s].pc = "reply"
    PROVE  InMinute(request[s].from) >= Limit
<1>1. Reject(s)
  <2>1. request[s] # request'[s]
    OBVIOUS
  <2>2. ASSUME NEW t \in Slots, NEW r, Becomes(t, r)
        PROVE  t = s /\ r.pc = "reply"
    BY <2>1, <2>2 DEF Becomes, LimitInv, Inv
  <2>3. NoRequest.pc # "reply" /\ \A pc, k, h : Handling(pc, k, h).pc = pc
    BY DEF NoRequest, Handling
  <2>4. ASSUME NEW t \in Slots, Call(t) PROVE FALSE
    BY <2>2, <2>3, <2>4 DEF Call
  <2>5. ASSUME NEW t \in Slots,
               Arrive(t) \/ Handle(t) \/ Reply(t) \/ Close(t)
        PROVE  FALSE
    <3>1. request[t].pc # "ready" /\ \E r : Becomes(t, r)
      BY <2>5 DEF Arrive, Handle, Connect, ConnectHealth, Inspect, GiveUp,
                  Reply, Close, OnLoop
    <3> QED
      BY <2>2, <3>1
  <2>6. ASSUME NEW t \in Slots, Reject(t) PROVE Reject(s)
    BY <2>2, <2>6 DEF Reject
  <2>7. ~(JobConnect \/ JobReturn \/ Tick \/ UNCHANGED vars)
    BY <2>1 DEF JobConnect, JobReturn, Tick, vars
  <2> QED
    BY <2>4, <2>5, <2>6, <2>7 DEF Next
<1> DEFINE c == request[s].from
<1>2. c \in Addresses /\ left[c] # 0 /\ hits[c] >= Limit
  BY <1>1, RejectedInWindow
<1> HIDE DEF c
<1>3. /\ left[c] \in 1 .. Window /\ hits[c] \in 0 .. Limit + 1
      /\ since[c] \in [Ages -> Nat] /\ Monotone(since[c])
      /\ Window - left[c] \in Ages /\ Window - left[c] <= Window - 1
  BY <1>2, CountsOf, Numbers
<1>4. since[c][Window - left[c]] = Limit
  BY <1>2, <1>3, CountsOf, Numbers DEF WindowOf
<1>5. since[c][Window - left[c]] <= since[c][Window - 1]
  BY <1>3, Numbers DEF Monotone
<1>6. since[c][Window - 1] >= Limit
  BY <1>3, <1>4, <1>5, Numbers
<1> QED
  BY <1>6 DEF InMinute, c

\* Whatever clients write in X-Forwarded-For and whenever the windows start:
\* no client that leaves the header alone, and no address that is written in
\* it, is admitted twice as often within a minute as the limit says.
THEOREM LimitHolds ==
    ASSUME ProxiesTrusted
    PROVE  Spec => []RateBound
<1>1. LimitInv /\ [Next]_vars => LimitInv'
  BY NextLimit
<1> QED
  BY <1>1, InitLimit, LimitBounds, PTL DEF Spec

\* However many clients share the proxies, however often they are rejected:
\* a 429 means that whom it answers was admitted as often within the minute
\* as the limit says.
THEOREM RejectsUsedUpOnly ==
    ASSUME ProxiesTrusted
    PROVE  Spec => RejectedWhenUsedUp
<1>1. LimitInv /\ [Next]_vars => LimitInv'
  BY NextLimit
<1>2. LimitInv /\ [Next]_vars =>
         [\A s \in Slots :
             request[s].pc = "ready" /\ request'[s].pc = "reply" =>
                 InMinute(request[s].from) >= Limit]_vars
  BY RejectsOwn
<1> QED
  BY <1>1, <1>2, InitLimit, PTL DEF Spec, RejectedWhenUsedUp

-----------------------------------------------------------------------------
(* Validation: what holds of any table of names, then of the two there     *)
(* are.                                                                    *)

\* No two canonical names differ by case only, and the table does not give
\* the lower case of one to another.
Consistent(names) ==
    /\ \A k \in DOMAIN names : names[k] \in Words
    /\ \A k \in DOMAIN names : lower[names[k]] \in DOMAIN names =>
          names[lower[names[k]]] = names[k]
    /\ \A k, j \in DOMAIN names :
          lower[names[k]] = lower[names[j]] => names[k] = names[j]

\* Then every alias and every canonical name leads to the canonical name,
\* and nothing leads anywhere else.
LEMMA AliasesOf ==
    ASSUME NEW names, Consistent(names),
           NEW aliases, aliases = BuildAliases(names)
    PROVE  /\ \A k \in DOMAIN names :
                 /\ k \in DOMAIN aliases /\ aliases[k] = names[k]
                 /\ lower[names[k]] \in DOMAIN aliases
                 /\ aliases[lower[names[k]]] = names[k]
           /\ \A w \in DOMAIN aliases : \E k \in DOMAIN names : aliases[w] = names[k]
<1> DEFINE canonicals == {names[w] : w \in DOMAIN names}
           added == {lower[c] : c \in canonicals} \ DOMAIN names
<1>1. aliases = [w \in DOMAIN names \cup added |->
                    IF w \in DOMAIN names THEN names[w]
                    ELSE CHOOSE c \in canonicals : lower[c] = w]
  BY DEF BuildAliases
<1>2. \A w \in added : \E k \in DOMAIN names : w = lower[names[k]]
  OBVIOUS
<1>3. \A k \in DOMAIN names : lower[names[k]] \in DOMAIN names \cup added
  OBVIOUS
<1>4. ASSUME NEW k \in DOMAIN names, lower[names[k]] \notin DOMAIN names
      PROVE  (CHOOSE c \in canonicals : lower[c] = lower[names[k]]) = names[k]
  <2>1. names[k] \in canonicals
    OBVIOUS
  <2>2. \A c \in canonicals : lower[c] = lower[names[k]] => c = names[k]
    BY DEF Consistent
  <2> HIDE DEF canonicals
  <2> QED
    BY <2>1, <2>2
<1> HIDE DEF canonicals, added
<1>5. DOMAIN aliases = DOMAIN names \cup added
  BY <1>1
<1>6. \A k \in DOMAIN names : aliases[k] = names[k]
  BY <1>1
<1>7. \A k \in DOMAIN names : aliases[lower[names[k]]] = names[k]
  BY <1>1, <1>3, <1>4 DEF Consistent
<1>8. \A w \in added : \E k \in DOMAIN names : aliases[w] = names[k]
  BY <1>2, <1>7
<1> QED
  BY <1>3, <1>5, <1>6, <1>7, <1>8

LEMMA NormalizeIs ==
    ASSUME NEW names, Consistent(names), NEW t \in Texts
    PROVE  LET n == Normalize(BuildAliases(names), t)
           IN  /\ n \in Texts /\ n.blanks = 0
               /\ Normalize(BuildAliases(names), n) = n
               /\ Labelled(names, t, n)
<1> DEFINE aliases == BuildAliases(names)
           n == Normalize(aliases, t)
<1>1. \A w \in Words : /\ Plain(w) \in Texts /\ Plain(w).word = w
                       /\ Plain(w).blanks = 0
  BY DEF Texts, Plain
<1>2. t.word \in Words
  BY DEF Texts
<1> HIDE DEF aliases
<1>3. CASE lower[t.word] \in DOMAIN aliases
  <2>1. PICK k \in DOMAIN names : aliases[lower[t.word]] = names[k]
    BY <1>3, AliasesOf DEF aliases
  <2>2. n = Plain(names[k]) /\ names[k] \in Words
    BY <1>3, <2>1 DEF Normalize, Consistent
  <2>3. Normalize(aliases, n) = n
    BY <1>1, <2>2, AliasesOf DEF Normalize, aliases
  <2>4. Labelled(names, t, n)
    BY <2>1, <2>2, AliasesOf DEF Labelled, aliases
  <2> QED
    BY <1>1, <2>2, <2>3, <2>4 DEF aliases
<1>4. CASE lower[t.word] \notin DOMAIN aliases
  <2>1. n = Plain(t.word) /\ Normalize(aliases, n) = n
    BY <1>1, <1>2, <1>4 DEF Normalize, Strip
  <2>2. Labelled(names, t, n)
    BY <1>4, AliasesOf DEF Labelled, aliases
  <2> QED
    BY <1>1, <1>2, <2>1, <2>2 DEF aliases
<1> QED
  BY <1>3, <1>4

LEMMA TablesConsistent == Consistent(OsNames) /\ Consistent(ArchNames)
<1>1. DOMAIN Capitals = {"macOS", "Darwin", "Windows", "Linux", "LINUX", "X64",
                         "ARM64", "ARM", "AMD64", "Fedora"}
  BY DEF Capitals
<1>2. /\ Capitals["macOS"] = "macos" /\ Capitals["Windows"] = "windows"
      /\ Capitals["Linux"] = "linux" /\ Capitals["ARM64"] = "arm64"
      /\ Capitals["ARM"] = "arm" /\ Capitals["X64"] = "x64"
  BY DEF Capitals
<1>3. {"macOS", "Windows", "Linux", "ARM64", "ARM", "x64"} \subseteq Words
  BY <1>1, <1>2 DEF Words
<1>4. /\ lower["macOS"] = "macos" /\ lower["Windows"] = "windows"
      /\ lower["Linux"] = "linux" /\ lower["ARM64"] = "arm64"
      /\ lower["ARM"] = "arm" /\ lower["x64"] = "x64"
  BY <1>1, <1>2, <1>3 DEF lower
<1>5. /\ DOMAIN OsNames =
            {"macos", "osx", "darwin", "windows", "win32", "linux", "linux-gnu"}
      /\ \A w \in DOMAIN OsNames : OsNames[w] \in {"macOS", "Windows", "Linux"}
      /\ OsNames["macos"] = "macOS" /\ OsNames["windows"] = "Windows"
      /\ OsNames["linux"] = "Linux"
  BY DEF OsNames
<1>6. /\ DOMAIN ArchNames = {"x86_64", "amd64", "arm64", "aarch64", "arm"}
      /\ \A w \in DOMAIN ArchNames : ArchNames[w] \in {"x64", "ARM64", "ARM"}
      /\ ArchNames["arm64"] = "ARM64" /\ ArchNames["arm"] = "ARM"
  BY DEF ArchNames
<1>7. Consistent(OsNames)
  BY <1>3, <1>4, <1>5 DEF Consistent
<1>8. Consistent(ArchNames)
  BY <1>3, <1>4, <1>6 DEF Consistent
<1> QED
  BY <1>7, <1>8

LEMMA MessagesAre ==
    ASSUME NEW m \in Messages
    PROVE  m \in [installation_id : Texts, os : Texts, architecture : Texts,
                  fault : {"none", "extra field", "version"}]
<1>1. "x64" \in Words /\ "Linux" \in Words
  <2>1. "X64" \in DOMAIN Capitals /\ Capitals["X64"] = "x64" /\ "Linux" \in DOMAIN Capitals
    BY DEF Capitals
  <2> QED
    BY <2>1 DEF Words
<1>2. Plain("x64") \in Texts /\ Plain("Linux") \in Texts
  BY <1>1 DEF Plain, Texts
<1> DEFINE T == [installation_id : Texts, os : Texts, architecture : Texts,
                 fault : {"none", "extra field", "version"}]
<1>3. Message \in T
  BY <1>2 DEF Message
<1>4. \A field \in {"installation_id", "os", "architecture"}, t \in Texts :
         With(field, t) \in T
  BY <1>3 DEF With
<1>5. \A f \in {"extra field", "version"} : With("fault", f) \in T
  BY <1>3 DEF With
<1> HIDE DEF T
<1>6. m \in T
  BY <1>4, <1>5 DEF Messages
<1> QED
  BY <1>6 DEF T

LEMMA ValidatedIs ==
    ASSUME NEW m \in Messages
    PROVE  LET v == Validated(m)
           IN  /\ v = [installation_id |-> Strip(m.installation_id),
                       os |-> Normalize(OsAliases, m.os),
                       architecture |-> Normalize(ArchAliases, m.architecture),
                       fault |-> m.fault]
               /\ Validated(v) =
                     [installation_id |-> Strip(Strip(m.installation_id)),
                      os |-> Normalize(OsAliases, Normalize(OsAliases, m.os)),
                      architecture |-> Normalize(ArchAliases,
                                          Normalize(ArchAliases, m.architecture)),
                      fault |-> m.fault]
<1>1. \A a, b, c, f : Validated([installation_id |-> a, os |-> b,
                                 architecture |-> c, fault |-> f]) =
         [installation_id |-> Strip(a), os |-> Normalize(OsAliases, b),
          architecture |-> Normalize(ArchAliases, c), fault |-> f]
  <2> TAKE a, b, c, f
  <2> DEFINE x == [installation_id |-> a, os |-> b, architecture |-> c, fault |-> f]
  <2>1. Validated(x) = [x EXCEPT !.installation_id = Strip(a),
                                 !.os = Normalize(OsAliases, b),
                                 !.architecture = Normalize(ArchAliases, c)]
    BY DEF Validated
  <2> QED
    BY <2>1
<1>2. m = [installation_id |-> m.installation_id, os |-> m.os,
           architecture |-> m.architecture, fault |-> m.fault]
  BY MessagesAre
<1> DEFINE v == [installation_id |-> Strip(m.installation_id),
                 os |-> Normalize(OsAliases, m.os),
                 architecture |-> Normalize(ArchAliases, m.architecture),
                 fault |-> m.fault]
<1>3. Validated(m) = v
  BY <1>1, <1>2
<1>4. Validated(v) = [installation_id |-> Strip(Strip(m.installation_id)),
                      os |-> Normalize(OsAliases, Normalize(OsAliases, m.os)),
                      architecture |-> Normalize(ArchAliases,
                                          Normalize(ArchAliases, m.architecture)),
                      fault |-> m.fault]
  BY <1>1
<1> QED
  BY <1>3, <1>4

LEMMA SizeIs ==
    ASSUME NEW t, t.blanks \in Nat, NEW max \in Nat, max >= 5
    PROVE  /\ t.blanks = 0 => Size(t, max) \in 0 .. max
           /\ t.blanks = 0 /\ t.word # Empty => Size(t, max) \in 1 .. max
           /\ t.word = Empty => Size(t, max) = t.blanks
<1> DEFINE n == IF t.word = Empty THEN 0 ELSE IF t.word = Long THEN max ELSE 5
<1>1. Size(t, max) = t.blanks + n
  BY DEF Size
<1>2. n \in 0 .. max /\ (t.word # Empty => n >= 1) /\ (t.word = Empty => n = 0)
  <2>1. t.word = Empty => n = 0
    BY Zenon
  <2>2. t.word # Empty => n = max \/ n = 5
    BY Zenon
  <2> HIDE DEF n
  <2> QED
    BY <2>1, <2>2
<1> HIDE DEF n
<1>3. t.blanks = 0 => Size(t, max) = n
  BY <1>1, <1>2
<1> QED
  BY <1>1, <1>2, <1>3

LEMMA AcceptedIsStable ==
    ASSUME NEW m \in Messages, Accepted(m)
    PROVE  Stable(m)
<1>1. /\ m.installation_id \in Texts /\ m.os \in Texts /\ m.architecture \in Texts
  BY MessagesAre
<1> DEFINE id == Strip(m.installation_id)
           os == Normalize(OsAliases, m.os)
           arch == Normalize(ArchAliases, m.architecture)
<1>2. /\ os \in Texts /\ os.blanks = 0 /\ Normalize(OsAliases, os) = os
      /\ arch \in Texts /\ arch.blanks = 0 /\ Normalize(ArchAliases, arch) = arch
  BY <1>1, NormalizeIs, TablesConsistent DEF OsAliases, ArchAliases
<1>3. Strip(id) = id /\ id.word = m.installation_id.word /\ id.blanks = 0
  BY DEF Strip, Plain
<1> HIDE DEF id, os, arch
<1>4. /\ Validated(m) = [installation_id |-> id, os |-> os,
                         architecture |-> arch, fault |-> m.fault]
      /\ Validated(Validated(m)) = Validated(m)
  BY <1>2, <1>3, ValidatedIs DEF id, os, arch
<1>5. CASE m.installation_id.word = Empty
  <2>1. m.installation_id.blanks \in 0 .. 1
    BY <1>1 DEF Texts
  <2>2. m.installation_id.blanks = 1
    BY <1>5, <2>1, SizeIs DEF Accepted, MaxId
  <2>3. m.installation_id = [word |-> Empty, blanks |-> 1]
    BY <1>1, <1>5, <2>2 DEF Texts
  <2> QED
    BY <1>4, <2>3 DEF Stable
<1>6. CASE m.installation_id.word # Empty
  <2>1. /\ Size(id, MaxId) \in 1 .. MaxId
        /\ Size(os, MaxText) <= MaxText /\ Size(arch, MaxText) <= MaxText
    BY <1>2, <1>3, <1>6, SizeIs DEF MaxId, MaxText
  <2>2. m.fault = "none"
    BY DEF Accepted
  <2> QED
    BY <1>4, <2>1, <2>2 DEF Stable, Accepted
<1> QED
  BY <1>5, <1>6

LEMMA AcceptedIsLabelled ==
    ASSUME NEW m \in Messages
    PROVE  /\ Labelled(OsNames, m.os, Validated(m).os)
           /\ Labelled(ArchNames, m.architecture, Validated(m).architecture)
<1>1. m.os \in Texts /\ m.architecture \in Texts
  BY MessagesAre
<1>2. /\ Labelled(OsNames, m.os, Normalize(OsAliases, m.os))
      /\ Labelled(ArchNames, m.architecture, Normalize(ArchAliases, m.architecture))
  BY <1>1, NormalizeIs, TablesConsistent DEF OsAliases, ArchAliases
<1> QED
  BY <1>2, ValidatedIs

\* Whatever a handler stores is stored again unchanged, but for the id of
\* blanks: because no table gives the lower case of one of its names to
\* another.
THEOREM StoredFormIsStable == Spec => []StoredFormStable
<1>1. StoredFormStable
  BY AcceptedIsStable DEF StoredFormStable, Payloads
<1> QED
  BY <1>1, PTL

\* Every spelling of a known system or architecture is stored as its one
\* name.
THEOREM KnownHasOneLabel == Spec => []OneLabelPerSystem
<1>1. OneLabelPerSystem
  BY AcceptedIsLabelled DEF OneLabelPerSystem, Payloads
<1> QED
  BY <1>1, PTL
=============================================================================
