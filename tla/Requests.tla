------------------------------ MODULE Requests ------------------------------
(***************************************************************************)
(* How requests get to their handlers: the proxy middleware, validation,   *)
(* the rate limiter, the one event loop, and the pool of connections that  *)
(* handlers and the retention job share.                                   *)
(*                                                                         *)
(* A handler has no await, so while it waits for a connection the loop     *)
(* stands still, and with it every request that must pass the loop before  *)
(* it can give its connection back; only closes already handed to a thread *)
(* go on.  A session gives its connection back when it commits (POST       *)
(* /api/telemetry, after success) or when it is closed.                    *)
(*                                                                         *)
(* Time is kept relative to now, so neither it nor the number of requests  *)
(* is bounded; the count of a rate limit window stops at Limit + 1.        *)
(*                                                                         *)
(* Operators named Mutant... are wrong variants, as in Ingest.             *)
(***************************************************************************)
EXTENDS Payload, Sequences, FiniteSetsExt

CONSTANTS
    Slots,      \* requests at one time
    Nobody,     \* not a slot
    Clients,    \* addresses of clients
    Proxies,    \* addresses of proxies
    Strangers,  \* what else a client may write in X-Forwarded-For
    Trusted,    \* forwarded_allow_ips: a set of addresses, or {"*"}
    Limit,      \* rate_limit_per_minute
    Window,     \* ticks of a minute
    PoolSize    \* connections of the engine

ASSUME RequestsAssumption ==
    /\ IsFiniteSet(Slots) /\ Nobody \notin Slots
    /\ Clients # {}
    /\ Limit \in Nat \ {0} /\ Window \in Nat \ {0} /\ PoolSize \in Nat \ {0}

VARIABLES
    hits,     \* per address: requests counted in its window
    left,     \* per address: ticks until its window ends
    since,    \* history: heartbeats from whom admitted now or up to age ticks ago
    request,  \* per slot
    loop,     \* the slot whose handler runs, or Nobody
    job       \* does the retention job hold a connection?

limiter == <<hits, left, since>>
vars == <<limiter, request, loop, job>>

Addresses == Clients \cup Proxies \cup Strangers
Ages == 0 .. Window - 1
Kinds == {"telemetry", "stats", "health"}

\* A request that is ready for its endpoint, one in its handler, and one
\* whose response is being sent or whose session is being closed; held: its
\* session has a connection.  from is history: whom the request comes from,
\* which is the client, unless it wrote an X-Forwarded-For of its own.
NoRequest == [pc |-> "none", held |-> FALSE]
Ready(kind, from, a) == [pc |-> "ready", held |-> FALSE,
                         kind |-> kind, from |-> from, addr |-> a]
Handling(pc, kind, held) == [pc |-> pc, held |-> held, kind |-> kind]
Leaving(pc, held) == [pc |-> pc, held |-> held]

Request ==
    {NoRequest}
      \cup [pc : {"ready"}, held : {FALSE},
            kind : Kinds, from : Addresses, addr : Addresses]
      \cup [pc : {"connect", "inspect"}, held : BOOLEAN, kind : Kinds]
      \cup [pc : {"reply", "close"}, held : BOOLEAN]

Holders == {s \in Slots : request[s].held}
Free == PoolSize - Cardinality(Holders) - (IF job THEN 1 ELSE 0)

TypeOK ==
    /\ hits \in [Addresses -> 0 .. Limit + 1]
    /\ left \in [Addresses -> 0 .. Window]
    /\ since \in [Addresses -> [Ages -> Nat]]
    /\ request \in [Slots -> Request]
    /\ loop \in Slots \cup {Nobody}
    /\ \A s \in Slots : loop = s <=> request[s].pc \in {"connect", "inspect"}
    /\ job \in BOOLEAN
    /\ Free >= 0

Init ==
    /\ hits = [a \in Addresses |-> 0] /\ left = [a \in Addresses |-> 0]
    /\ since = [a \in Addresses |-> [age \in Ages |-> 0]]
    /\ request = [s \in Slots |-> NoRequest]
    /\ loop = Nobody /\ job = FALSE

-----------------------------------------------------------------------------
(* The middleware and the limiter                                          *)

\* A request reaches the server through proxies, and each of them has added
\* whom it got it from to X-Forwarded-For: behind what the client itself has
\* written there, which is nothing, an address, or any other text.  (A proxy
\* that replaces what the client wrote is a client that wrote nothing.)
Routes == UNION {[1 .. n -> Proxies] : n \in 0 .. 2}
Peer(c, route) == IF route = <<>> THEN c ELSE route[Len(route)]
Written == {<<>>} \cup {<<a>> : a \in Addresses}
ForwardedFor(c, route, own) ==
    IF route = <<>> THEN own
    ELSE own \o <<c>> \o SubSeq(route, 1, Len(route) - 1)

\* Wrong: the address nearest to the server, which is a proxy's.
MutantAddress(peer, forwarded) ==
    IF ("*" \in Trusted \/ peer \in Trusted) /\ forwarded # <<>>
    THEN forwarded[Len(forwarded)] ELSE peer

Address(peer, forwarded) ==
    IF ("*" \in Trusted \/ peer \in Trusted) /\ forwarded # <<>>
    THEN forwarded[1] ELSE peer

\* The window of an address starts with its first hit and lasts a minute.
Count(a) == IF left[a] = 0 THEN 1 ELSE Min({hits[a] + 1, Limit + 1})

\* Wrong: the hit is compared before it is counted.
MutantAdmits(a) == Count(a) <= Limit + 1

\* The hit is counted whether it is admitted or not.
Admits(a) == Count(a) <= Limit

\* Wrong: every hit, admitted or not, starts the minute anew.
MutantRemaining(a) == Window

Remaining(a) == IF left[a] = 0 THEN Window ELSE left[a]

Hit(a) ==
    /\ hits' = [hits EXCEPT ![a] = Count(a)]
    /\ left' = [left EXCEPT ![a] = Remaining(a)]

-----------------------------------------------------------------------------
(* One request                                                             *)

Anyone == CHOOSE c \in Clients : TRUE

Becomes(s, r) == request' = [request EXCEPT ![s] = r]
OnLoop(s, pc) == loop = Nobody /\ request[s].pc = pc

\* The middleware and the session, which takes no connection yet.  Who asks
\* matters to heartbeats only; a message that is not accepted gets its 422.
Arrive(s) ==
    /\ OnLoop(s, "none")
    /\ \/ \E kind \in {"stats", "health"} :
             Becomes(s, Ready(kind, Anyone, Anyone))
       \/ \E accepted \in {Accepted(m) : m \in Messages} :
             IF accepted
             THEN \E c \in Clients, route \in Routes, own \in Written :
                     LET a == Address(Peer(c, route), ForwardedFor(c, route, own))
                     IN  Becomes(s, Ready("telemetry",
                                          IF own = <<>> THEN c ELSE a, a))
             ELSE Becomes(s, Leaving("reply", FALSE))
    /\ UNCHANGED <<limiter, loop, job>>

\* The endpoint is called: for a heartbeat the limiter first.
Call(s) ==
    /\ OnLoop(s, "ready")
    /\ IF request[s].kind = "telemetry"
       THEN /\ Admits(request[s].addr)
            /\ Hit(request[s].addr)
            /\ since' = [since EXCEPT ![request[s].from] =
                            [age \in Ages |-> @[age] + 1]]
       ELSE UNCHANGED limiter
    /\ Becomes(s, Handling("connect", request[s].kind, FALSE))
    /\ loop' = s
    /\ UNCHANGED job

\* RateLimitExceeded: 429.
Reject(s) ==
    /\ OnLoop(s, "ready") /\ request[s].kind = "telemetry"
    /\ ~Admits(request[s].addr)
    /\ Hit(request[s].addr)
    /\ Becomes(s, Leaving("reply", FALSE))
    /\ UNCHANGED <<since, loop, job>>

\* The handler's first statement takes a connection from the pool, and the
\* handler runs to its end.  A heartbeat that commits gives the connection
\* back; one that fails, and statistics, keep it until the session closes.
Connect(s) ==
    /\ loop = s /\ request[s].pc = "connect" /\ request[s].kind # "health"
    /\ Free > 0
    /\ \E kept \in IF request[s].kind = "telemetry" THEN BOOLEAN ELSE {TRUE} :
          Becomes(s, Leaving("reply", kept))
    /\ loop' = Nobody
    /\ UNCHANGED <<limiter, job>>

\* health.py takes a connection for its session ...
ConnectHealth(s) ==
    /\ loop = s /\ request[s].pc = "connect" /\ request[s].kind = "health"
    /\ Free > 0
    /\ Becomes(s, Handling("inspect", "health", TRUE))
    /\ UNCHANGED <<limiter, loop, job>>

\* Wrong: the handler waits for its response to be sent.
MutantInspect(s) ==
    /\ loop = s /\ request[s].pc = "inspect"
    /\ Free > 0
    /\ Becomes(s, Leaving("reply", request[s].held))
    /\ loop' = s
    /\ UNCHANGED <<limiter, job>>

\* ... and a second one for its inspector, for a moment.
Inspect(s) ==
    /\ loop = s /\ request[s].pc = "inspect"
    /\ Free > 0
    /\ Becomes(s, Leaving("reply", request[s].held))
    /\ loop' = Nobody
    /\ UNCHANGED <<limiter, job>>

\* Wrong: no pool_timeout.
MutantGiveUp(s) == FALSE /\ UNCHANGED vars

\* The pool is empty for thirty seconds: TimeoutError.  health.py catches
\* it and tries its second connection all the same.
GiveUp(s) ==
    /\ loop = s /\ request[s].pc \in {"connect", "inspect"}
    /\ Free = 0
    /\ IF request[s].kind = "health" /\ request[s].pc = "connect"
       THEN Becomes(s, Handling("inspect", "health", FALSE)) /\ UNCHANGED loop
       ELSE Becomes(s, Leaving("reply", request[s].held)) /\ loop' = Nobody
    /\ UNCHANGED <<limiter, job>>

\* The response is sent, and the close of the session handed to a thread.
Reply(s) ==
    /\ OnLoop(s, "reply")
    /\ Becomes(s, Leaving("close", request[s].held))
    /\ UNCHANGED <<limiter, loop, job>>

\* The thread closes the session: whatever the loop does.
Close(s) ==
    /\ request[s].pc = "close"
    /\ Becomes(s, NoRequest)
    /\ UNCHANGED <<limiter, loop, job>>

-----------------------------------------------------------------------------
\* The job's thread; a round that finds the pool empty fails.
JobConnect == ~job /\ Free > 0 /\ job' = TRUE /\ UNCHANGED <<limiter, request, loop>>
JobReturn == job /\ job' = FALSE /\ UNCHANGED <<limiter, request, loop>>

Tick ==
    /\ left' = [a \in Addresses |-> IF left[a] = 0 THEN 0 ELSE left[a] - 1]
    /\ hits' = [a \in Addresses |-> IF left[a] <= 1 THEN 0 ELSE hits[a]]
    /\ since' = [a \in Addresses |-> [age \in Ages |->
                    IF age = 0 THEN 0 ELSE since[a][age - 1]]]
    /\ UNCHANGED <<request, loop, job>>

Handle(s) == Connect(s) \/ ConnectHealth(s) \/ Inspect(s) \/ GiveUp(s)

Next ==
    \/ \E s \in Slots :
          \/ Arrive(s) \/ Call(s) \/ Reject(s)
          \/ Handle(s) \/ Reply(s) \/ Close(s)
    \/ JobConnect \/ JobReturn
    \/ Tick

Spec == Init /\ [][Next]_vars

\* The loop serves what is ready in turn, handlers and threads run on.
FairSpec ==
    /\ Spec
    /\ \A s \in Slots :
          /\ SF_vars(Call(s) \/ Reject(s))
          /\ SF_vars(Reply(s))
          /\ WF_vars(Handle(s))
          /\ WF_vars(Close(s))
    /\ WF_vars(JobReturn)

-----------------------------------------------------------------------------
(* Properties                                                              *)

InMinute(a) == since[a][Window - 1]

\* "Max telemetry requests per IP per minute" (README.md:155), as far as it
\* goes.  The limit holds per window, and windows start when they like: within
\* one minute a client that leaves X-Forwarded-For to the proxies is admitted
\* up to twice as often, less one, never more, whatever way it takes.  One
\* that writes the header is bounded per address it writes, not in all.
RateBound ==
    \A a \in Addresses : InMinute(a) <= 2 * Limit - 1

\* The payloads a handler can have: the state does not hold them, because
\* nothing but what is stored depends on them.
Payloads(s) ==
    IF request[s].pc = "connect" /\ request[s].kind = "telemetry"
    THEN {m \in Messages : Accepted(m)} ELSE {}

\* What a handler stores is clean: an installation that reports its own
\* normalized values, or a backup that is sent again, changes nothing.
StoredFormStable ==
    \A s \in Slots : \A m \in Payloads(s) : Stable(m)

\* "Any casing of a known value resolves to the canonical form"
\* (schemas.py:17), so that the breakdowns count a system under one label.
OneLabelPerSystem ==
    \A s \in Slots : \A m \in Payloads(s) :
        /\ Labelled(OsNames, m.os, Validated(m).os)
        /\ Labelled(ArchNames, m.architecture, Validated(m).architecture)

\* A 429 has a reason within the last minute: the client that gets one was
\* admitted Limit times, itself or in the name of its address by one that
\* wrote that in X-Forwarded-For.  Sharing the proxies with others is none,
\* nor are earlier rejections.
RejectedWhenUsedUp ==
    [][\A s \in Slots :
          request[s].pc = "ready" /\ request'[s].pc = "reply" =>
              InMinute(request[s].from) >= Limit]_vars

\* However the pool runs dry, also when those who hold its connections need
\* the loop that waits for one: every request ends.
RequestEnds ==
    \A s \in Slots : request[s] # NoRequest ~> request[s] = NoRequest
=============================================================================
