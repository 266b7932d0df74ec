------------------------------- MODULE Limits -------------------------------
(***************************************************************************)
(* The rate limit of sign-up and sign-in (RateLimitStore of                *)
(* backend/src/stores.rs, client_ip and enforce_auth_rate_limit of         *)
(* backend/src/routes.rs): a sliding window of request times for every     *)
(* address.  The handler reads the clock before it gets the lock of the    *)
(* store, so the times of an address need not be in order.                 *)
(*                                                                         *)
(* All times are kept as ages: the moment n ticks ago is n.                *)
(***************************************************************************)
EXTENDS Integers, Sequences, SequencesExt, FiniteSets, Requests

CONSTANTS
  Clients,      \* addresses of clients
  Proxies,      \* the trusted proxies in front of the server, TRUST_PROXY of them
  RateWindow,   \* AUTH_RATE_WINDOW_MS, in ticks
  Second,       \* a second, in ticks
  RateLimit,    \* AUTH_RATE_LIMIT
  RateEntries,  \* AUTH_RATE_MAX_ENTRIES
  MaxDelay      \* bound: ticks between reading the clock and getting the lock

ASSUME LimitsAssumption ==
  /\ RateWindow \in Nat \ {0} /\ Second \in Nat \ {0}
  /\ RateLimit \in Nat \ {0} /\ RateEntries \in Nat \ {0} /\ MaxDelay \in Nat
  /\ Clients # {} /\ Proxies \in Seq(Range(Proxies)) /\ IsFiniteSet(Threads)

VARIABLES
  windows,  \* the store: of each address the times in its window, <<>> without an entry
  caller,   \* the client whose request the thread has
  ip,       \* the address client_ip finds for it
  readAt,   \* the clock it read
  wait,     \* the Retry-After of the last refusal, in seconds
  granted   \* admissions per client in the window, since its entry was dropped (a history)

limitVars == <<windows, pc, caller, ip, readAt, wait, granted>>

Addresses == Clients \cup {Proxies[k] : k \in DOMAIN Proxies}
NoClient == CHOOSE c \in Clients : TRUE

LimitsInit ==
  /\ windows = [a \in Addresses |-> <<>>]
  /\ Idle
  /\ caller = [t \in Threads |-> NoClient]
  /\ ip = [t \in Threads |-> NoClient]
  /\ readAt = [t \in Threads |-> 0]
  /\ wait = [t \in Threads |-> 0]
  /\ granted = [c \in Clients |-> {}]

-----------------------------------------------------------------------------
\* The peer, and X-Forwarded-For: whatever the client wrote there, and what each proxy
\* saw; the last proxy is the peer.
Peer(c) == IF Proxies = <<>> THEN c ELSE Proxies[Len(Proxies)]
Forwarded(c, spoofed) ==
  IF Proxies = <<>> THEN spoofed ELSE spoofed \o <<c>> \o SubSeq(Proxies, 1, Len(Proxies) - 1)

\* Mutant: the leftmost entry is the client.
LeftmostIp(c, spoofed) == (Forwarded(c, spoofed) \o <<Peer(c)>>)[1]

\* client_ip: as many entries from the right as there are trusted proxies.
ClientIp(c, spoofed) ==
  LET hops == Len(Proxies)
      chain == Forwarded(c, spoofed)
  IN  IF hops > 0 /\ Len(chain) >= hops THEN chain[Len(chain) - hops + 1] ELSE Peer(c)

\* A sign-up or sign-in arrives; the clock is read.
Approach(t, c) ==
  /\ pc[t] = "idle"
  /\ pc' = [pc EXCEPT ![t] = "limit"]
  /\ caller' = [caller EXCEPT ![t] = c]
  /\ \E spoofed \in BoundedSeq(Clients, 1) : ip' = [ip EXCEPT ![t] = ClientIp(c, spoofed)]
  /\ readAt' = [readAt EXCEPT ![t] = 0]
  /\ wait' = [wait EXCEPT ![t] = 0]
  /\ UNCHANGED <<windows, granted>>

-----------------------------------------------------------------------------
(* RateLimitStore. *)

\* The entries make_room may drop: of a full store, one whose first time is oldest.
Dropped(a) ==
  LET known == {b \in Addresses : windows[b] # <<>>}
  IN  IF a \notin known /\ Cardinality(known) >= RateEntries
      THEN {{b} : b \in {b \in known : \A d \in known : windows[b][1] >= windows[d][1]}}
      ELSE {{}}

\* Of a sequence the entries at some places, in their order.
Picked(seq, places) ==
  [n \in 1 .. Cardinality(places) |->
     seq[CHOOSE k \in places : Cardinality({j \in places : j <= k}) = n]]

\* The times in the window that ends with now.
InWindow(times, now) == Picked(times, {k \in DOMAIN times : times[k] < now + RateWindow})

Full(times) == Len(times) >= RateLimit

\* Mutant: the seconds are cut off.
RetryAfterCut(times, now) ==
  LET s == (now - times[1] + RateWindow) \div Second IN IF s < 1 THEN 1 ELSE s

\* The time the first one has left, in whole seconds.
RetryAfter(times, now) ==
  LET s == (now - times[1] + RateWindow + Second - 1) \div Second IN IF s < 1 THEN 1 ELSE s

\* check_and_record: a request over the limit leaves no time behind.
CheckAndRecord(t) ==
  /\ pc[t] = "limit"
  /\ LET a == ip[t]
         now == readAt[t]
         times == InWindow(windows[a], now)
     IN  \E out \in Dropped(a) :
           /\ windows' = [b \in Addresses |->
                IF b = a THEN (IF Full(times) THEN times ELSE Append(times, now))
                ELSE IF b \in out THEN <<>> ELSE windows[b]]
           /\ wait' = [wait EXCEPT ![t] = IF Full(times) THEN RetryAfter(times, now) ELSE 0]
           /\ granted' = [c \in Clients |->
                IF c \in out THEN {}
                ELSE IF c = caller[t] /\ ~Full(times) THEN OneMore(granted[c])
                ELSE granted[c]]
  /\ pc' = [pc EXCEPT ![t] = "idle"]
  /\ UNCHANGED <<caller, ip, readAt>>

\* RateLimitStore::cleanup, of the janitor: a store over its bound does not happen.
RateCleanup ==
  /\ windows' = [a \in Addresses |-> InWindow(windows[a], 0)]
  /\ UNCHANGED <<pc, caller, ip, readAt, wait, granted>>

\* Ages past the horizon are told apart by nothing.
Older(age) == IF age < RateWindow + MaxDelay THEN age + 1 ELSE age

LimitsTick ==
  /\ \A t \in Threads : pc[t] = "limit" => readAt[t] < MaxDelay
  /\ windows' = [a \in Addresses |-> [k \in DOMAIN windows[a] |-> Older(windows[a][k])]]
  /\ readAt' = [t \in Threads |-> IF pc[t] = "limit" THEN readAt[t] + 1 ELSE readAt[t]]
  /\ granted' = [c \in Clients |-> Aged(granted[c], RateWindow)]
  /\ UNCHANGED <<pc, caller, ip, wait>>

LimitsNext ==
  \/ LimitsTick \/ RateCleanup
  \/ \E t \in Threads : CheckAndRecord(t) \/ \E c \in Clients : Approach(t, c)

LimitsSpec == LimitsInit /\ [][LimitsNext]_limitVars

-----------------------------------------------------------------------------
\* "rotating it would mint a fresh rate-limit [...] bucket per request" (client_ip):
\* whatever a client writes into X-Forwarded-For, and however threads overtake each
\* other between the clock and the lock, no client gets more requests through in a
\* window than the limit and one stale clock of each thread allow, unless its entry
\* was dropped for another address.
AdmissionsBounded == \A c \in Clients : Cardinality(granted[c]) <= RateLimit + Cardinality(Threads)

\* Who is refused and waits as long as he is told finds room then, if nobody used it
\* meanwhile: although the first time of a window need not be its oldest.
RetryAfterIsEnough ==
  [][\A t \in Threads :
       LET then == readAt[t] - wait'[t] * Second
       IN  pc[t] = "limit" /\ wait'[t] > 0 => Len(InWindow(windows'[ip[t]], then)) < RateLimit]_limitVars
==============================================================================
