-------------------------------- MODULE Csrf --------------------------------
(***************************************************************************)
(* The CSRF token of one user (backend/src/routes.rs, stores.rs): the      *)
(* store keeps one token per user, every browser of the user holds a copy  *)
(* in its csrf_token cookie and sends it as a header with each change, and *)
(* a refused request may bring back a new token.                           *)
(*                                                                         *)
(* Tokens are numbered in the order they are minted (random strings never  *)
(* repeat); 0 is no token.  A browser is signed in while it has its JWT    *)
(* cookie, which outlives a CSRF token by weeks.                           *)
(***************************************************************************)
EXTENDS Naturals, Requests

CONSTANTS
  Browsers,   \* the user's browsers
  Nobody,     \* the browser of a free request slot
  Ageing,     \* may a token reach CSRF_TOKEN_EXPIRY_MS?
  MaxEvents   \* bound: sign-ins, restarts, evictions and tokens that expire

ASSUME CsrfAssumption == Nobody \notin Browsers /\ Ageing \in BOOLEAN /\ MaxEvents \in Nat

VARIABLES
  stored,  \* the token in the store
  minted,  \* the number of tokens minted
  aged,    \* the tokens older than 24 hours
  jwt,     \* which browsers are signed in
  cookie,  \* the token each browser holds
  from,    \* the browser it came from
  header,  \* the token it was sent with
  reply,   \* the token its answer sets as cookie, or 0
  ended,   \* the tokens minted before the last sign-out (a history)
  events   \* counter behind the bound

thread == <<pc, from, header, reply>>
csrfVars   == <<stored, minted, aged, jwt, cookie, thread, ended, events>>

CsrfInit ==
  /\ stored = 0 /\ minted = 0 /\ aged = {}
  /\ jwt = [b \in Browsers |-> FALSE]
  /\ cookie = [b \in Browsers |-> 0]
  /\ Idle
  /\ from = [t \in Threads |-> Nobody]
  /\ header = [t \in Threads |-> 0]
  /\ reply = [t \in Threads |-> 0]
  /\ ended = 0 /\ events = 0

Event == events < MaxEvents /\ events' = events + 1

-----------------------------------------------------------------------------
(* The browsers.                                                           *)

\* A request for a change, with the cookie of the moment.
SendChange(t, b, kind) ==
  /\ pc[t] = "idle" /\ jwt[b]
  /\ pc' = [pc EXCEPT ![t] = kind]
  /\ from' = [from EXCEPT ![t] = b]
  /\ header' = [header EXCEPT ![t] = cookie[b]]
  /\ UNCHANGED <<stored, minted, aged, jwt, cookie, reply, ended, events>>

\* Sign-in, or sign-up, needs no token.
SendSignin(t, b) ==
  /\ Event
  /\ pc[t] = "idle"
  /\ pc' = [pc EXCEPT ![t] = "signin"]
  /\ from' = [from EXCEPT ![t] = b]
  /\ UNCHANGED <<stored, minted, aged, jwt, cookie, header, reply, ended>>

\* The answer arrives: its Set-Cookie headers replace what the browser holds.
Receive(t) ==
  /\ pc[t] \in {"accepted", "refused", "signedIn", "signedOut"}
  /\ LET b == from[t]
     IN  /\ cookie' = [cookie EXCEPT ![b] =
                         IF pc[t] = "signedOut" THEN 0
                         ELSE IF reply[t] # 0 THEN reply[t] ELSE @]
         /\ jwt' = [jwt EXCEPT ![b] = IF pc[t] \in {"signedIn", "signedOut"} THEN pc[t] = "signedIn"
                                      ELSE @]
  /\ pc' = [pc EXCEPT ![t] = "idle"]
  /\ from' = [from EXCEPT ![t] = Nobody]
  /\ header' = [header EXCEPT ![t] = 0]
  /\ reply' = [reply EXCEPT ![t] = 0]
  /\ UNCHANGED <<stored, minted, aged, ended, events>>

\* The cookie has the lifetime of the token.
DropCookie(b) ==
  /\ cookie[b] \in aged
  /\ cookie' = [cookie EXCEPT ![b] = 0]
  /\ UNCHANGED <<stored, minted, aged, jwt, thread, ended, events>>

-----------------------------------------------------------------------------
(* The server.                                                             *)

Served == UNCHANGED <<aged, jwt, cookie, events>>

CsrfGoto(t, l) == pc' = [pc EXCEPT ![t] = l] /\ UNCHANGED <<from, header>>

\* CsrfStore::set with a token just generated, which goes into the answer.
Mint(t) ==
  /\ minted' = minted + 1
  /\ stored' = minted'
  /\ reply' = [reply EXCEPT ![t] = minted']

\* signup and signin: set_auth_cookies.
SetAuthCookies(t) ==
  /\ pc[t] = "signin"
  /\ Mint(t)
  /\ CsrfGoto(t, "signedIn")
  /\ UNCHANGED ended /\ Served

\* require_csrf reads the token of the user and compares.
Check(t) ==
  /\ pc[t] \in {"change", "signout"}
  /\ \/ /\ header[t] = 0 \/ (stored # 0 /\ header[t] # stored)
        /\ CsrfGoto(t, "refused")
     \/ /\ header[t] # 0 /\ (stored = 0 \/ (header[t] = stored /\ stored \in aged))
        /\ CsrfGoto(t, "retry")
     \/ /\ header[t] # 0 /\ header[t] = stored /\ stored \notin aged
        /\ CsrfGoto(t, IF pc[t] = "signout" THEN "remove" ELSE "accepted")
  /\ UNCHANGED <<stored, minted, reply, ended>> /\ Served

\* csrf_retry: refused, with a token for the next attempt.
CsrfRetry(t) ==
  /\ pc[t] = "retry"
  /\ Mint(t)
  /\ CsrfGoto(t, "refused")
  /\ UNCHANGED ended /\ Served

\* Mutant: signing out leaves the store alone.
RemoveNothing(t) ==
  /\ pc[t] = "remove"
  /\ ended' = minted
  /\ CsrfGoto(t, "signedOut")
  /\ UNCHANGED <<stored, minted, reply>> /\ Served

\* signout: CsrfStore::remove, and an answer that deletes both cookies.
Signout(t) ==
  /\ pc[t] = "remove"
  /\ stored' = 0
  /\ ended' = minted
  /\ CsrfGoto(t, "signedOut")
  /\ UNCHANGED <<minted, reply>> /\ Served

\* 24 hours pass for a token.
Age(k) ==
  /\ Ageing /\ k \notin aged
  /\ Event
  /\ aged' = aged \cup {k}
  /\ UNCHANGED <<stored, minted, jwt, cookie, thread, ended>>

\* The hourly janitor drops an expired token, or one of too many.
CsrfCleanup ==
  /\ stored # 0
  /\ Event
  /\ stored' = 0
  /\ UNCHANGED <<minted, aged, jwt, cookie, thread, ended>>

\* The store is in memory: a restart empties it, and requests in flight are lost.
CsrfRestart ==
  /\ Event
  /\ stored' = 0
  /\ pc' = [t \in Threads |-> "idle"]
  /\ from' = [t \in Threads |-> Nobody]
  /\ header' = [t \in Threads |-> 0]
  /\ reply' = [t \in Threads |-> 0]
  /\ UNCHANGED <<minted, aged, jwt, cookie, ended>>

Serve(t) == SetAuthCookies(t) \/ Check(t) \/ CsrfRetry(t) \/ Signout(t) \/ Receive(t)

CsrfNext ==
  \/ \E t \in Threads, b \in Browsers :
       SendSignin(t, b) \/ \E kind \in {"change", "signout"} : SendChange(t, b, kind)
  \/ \E t \in Threads : Serve(t)
  \/ \E b \in Browsers : DropCookie(b)
  \/ \E k \in 1 .. minted : Age(k)
  \/ CsrfCleanup \/ CsrfRestart

CsrfSpec == CsrfInit /\ [][CsrfNext]_csrfVars

-----------------------------------------------------------------------------
\* Types.  Every token in use was minted, and a request belongs to a browser.
CsrfTypes ==
  /\ minted \in Nat /\ events \in Nat
  /\ stored \in 0 .. minted /\ ended \in 0 .. minted
  /\ aged \subseteq 1 .. minted
  /\ jwt \in [Browsers -> BOOLEAN]
  /\ cookie \in [Browsers -> 0 .. minted]
  /\ pc \in [Threads -> {"idle", "change", "signout", "signin", "retry", "remove",
                         "accepted", "refused", "signedIn", "signedOut"}]
  /\ from \in [Threads -> Browsers \cup {Nobody}]
  /\ \A t \in Threads : pc[t] # "idle" => from[t] \in Browsers
  /\ header \in [Threads -> 0 .. minted]
  /\ reply \in [Threads -> 0 .. minted]

\* Signing out ends every token there was, in all browsers: none of them is accepted
\* again, however requests, refusals and their new tokens cross it.
SignoutEnds ==
  [][\A t \in Threads : pc[t] = "change" /\ pc'[t] = "accepted" => header[t] > ended]_csrfVars
=============================================================================
