------------------------------ MODULE Accounts ------------------------------
(***************************************************************************)
(* Accounts (backend/src/routes.rs over db.rs, kdf.rs, auth.rs): signing   *)
(* up, signing in with the move of old password hashes to the current one, *)
(* and the checkout and portal sessions of Stripe opened for an account.   *)
(*                                                                         *)
(* The CSRF check, the lockout and the rate limit around these handlers    *)
(* are Csrf, SignIn and Limits; here a request is one they let through.    *)
(* A password is <<head, rest>>: bcrypt sees only its first 72 bytes.      *)
(***************************************************************************)
EXTENDS Naturals, FiniteSets, Requests

CONSTANTS
  Emails,       \* email addresses as people type them
  Normal,       \* the form each is kept in: lower case, without spaces
  Passwords,    \* pairs of a head and a rest
  OldHashes,    \* accounts that are there from the start: <<email, kind of hash, password>>
  Customers,    \* customer ids of Stripe
  MaxAccounts   \* bound: accounts created

ASSUME AccountsAssumption ==
  /\ Normal \in [Emails -> Emails] /\ \A e \in Emails : Normal[Normal[e]] = Normal[e]
  /\ OldHashes \subseteq Emails \X {"bcrypt", "scrypt"} \X Passwords
  /\ MaxAccounts \in Nat

VARIABLES
  users,     \* rows of Users: id, email, customer ("none": no subscription, or a blank id);
             \* and the customers it ever had (a history)
  auths,     \* rows of Auths: email, hash, id
  request,   \* the request of each thread
  row,       \* the row of Auths it read
  first,     \* the rows of Auths as they were inserted (a history)
  opened     \* the session opened last: <<user, customer>> of a portal, <<user, email>> of
             \* a checkout (a history)

accountVars == <<users, auths, pc, request, row, first, opened>>

\* A hash says how it was made: with bcrypt, with scrypt at other costs, or as now.
Hash(kind, pw) == [kind |-> kind, pw |-> pw]
Request(e, pw, id, c) == [email |-> e, pw |-> pw, id |-> id, customer |-> c]
NoRequest == Request("none", <<>>, 0, "none")
NoRow == [email |-> "none", hash |-> Hash("none", <<>>), id |-> 0]

NewUser(id, e) == [id |-> id, email |-> e, customer |-> "none", had |-> {}]

AccountsInit ==
  /\ \/ users = {} /\ auths = {}
     \/ \E old \in OldHashes :
          /\ users = {NewUser(1, Normal[old[1]])}
          /\ auths = {[email |-> Normal[old[1]], hash |-> Hash(old[2], old[3]), id |-> 1]}
  /\ Idle
  /\ request = [t \in Threads |-> NoRequest]
  /\ row = [t \in Threads |-> NoRow]
  /\ first = auths /\ opened = {}

Reply(t) ==
  /\ pc' = [pc EXCEPT ![t] = "idle"]
  /\ request' = [request EXCEPT ![t] = NoRequest]
  /\ row' = [row EXCEPT ![t] = NoRow]

ProceedTo(t, l) == pc' = [pc EXCEPT ![t] = l] /\ UNCHANGED <<request, row>>

-----------------------------------------------------------------------------
\* dispatch, and the email in its normal form.  The bodies that parse_json_body and the
\* validation refuse change nothing and are left out.
SignUpOrIn(t) ==
  /\ pc[t] = "idle"
  /\ \E l \in {"signup", "signin"} : pc' = [pc EXCEPT ![t] = l]
  /\ \E e \in Emails, pw \in Passwords : request' = [request EXCEPT ![t] = Request(Normal[e], pw, 0, "none")]
  /\ UNCHANGED <<users, auths, row, first, opened>>

\* require_auth: the user of the JWT, for as long as it is valid.
WithJwt(t) ==
  /\ pc[t] = "idle"
  /\ \E u \in users :
       \/ /\ pc' = [pc EXCEPT ![t] = "portal"]
          /\ \E c \in Customers \cup {"none"} :
               request' = [request EXCEPT ![t] = Request("none", <<>>, u.id, c)]
       \/ /\ pc' = [pc EXCEPT ![t] = "checkout"]
          /\ \E e \in Emails : request' = [request EXCEPT ![t] = Request(e, <<>>, u.id, "none")]
  /\ UNCHANGED <<users, auths, row, first, opened>>

-----------------------------------------------------------------------------
(* Sign-up. *)

Taken(e) == (\E u \in users : u.email = e) \/ (\E a \in auths : a.email = e)

\* Mutant: the two inserts are statements of their own, and the second fails.
CreateUserOnly(t) ==
  LET e == request[t].email
      id == Cardinality(users) + 1
  IN  users' = users \cup {NewUser(id, e)} /\ UNCHANGED <<auths, first>>

\* create_account: both rows in one transaction.
CreateAccount(t) ==
  LET e == request[t].email
      id == Cardinality(users) + 1
      auth == [email |-> e, hash |-> Hash("current", request[t].pw), id |-> id]
  IN  /\ users' = users \cup {NewUser(id, e)}
      /\ auths' = auths \cup {auth}
      /\ first' = first \cup {auth}

\* signup: hashing or the database may fail, and the unique indexes refuse an email
\* that is taken.  Without a JWT secret, or random bytes for the CSRF token, the
\* account is there and the answer is 500.
SignUp(t) ==
  /\ pc[t] = "signup"
  /\ \/ /\ ~Taken(request[t].email) /\ Cardinality(users) < MaxAccounts
        /\ CreateAccount(t)
     \/ UNCHANGED <<users, auths, first>>
  /\ Reply(t) /\ UNCHANGED opened

-----------------------------------------------------------------------------
(* Sign-in. *)

\* verify_password: scrypt at the costs in the hash, or bcrypt.
VerifyPassword(pw, hash) ==
  IF hash.kind = "bcrypt" THEN pw[1] = hash.pw[1] ELSE pw = hash.pw

\* Mutant: the new hash is written before the password was verified.
VerifiedLater(t) == TRUE

\* Only a password that was verified is hashed anew.
Verified(t) == VerifyPassword(request[t].pw, row[t].hash)

NeedsRehash(hash) == hash.kind # "current"

\* find_auth
FindAuth(t) ==
  /\ pc[t] = "signin"
  /\ \/ /\ \E a \in auths : a.email = request[t].email /\ row' = [row EXCEPT ![t] = a]
        /\ pc' = [pc EXCEPT ![t] = "verify"] /\ UNCHANGED request
     \/ Reply(t)
  /\ UNCHANGED <<users, auths, first, opened>>

\* The slow part, on the row read before.
VerifySignIn(t) ==
  /\ pc[t] = "verify"
  /\ IF Verified(t) THEN ProceedTo(t, IF NeedsRehash(row[t].hash) THEN "rehash" ELSE "find")
                    ELSE Reply(t)
  /\ UNCHANGED <<users, auths, first, opened>>

\* hash_password and update_auth_password, by email: whatever the row holds by then is
\* replaced.  A failure is only logged.
Rehash(t) ==
  /\ pc[t] = "rehash"
  /\ \/ auths' = {IF a.email = request[t].email
                  THEN [a EXCEPT !.hash = Hash("current", request[t].pw)] ELSE a : a \in auths}
     \/ UNCHANGED auths
  /\ ProceedTo(t, "find")
  /\ UNCHANGED <<users, first, opened>>

\* find_user, by email: signed in, if the user is there and a token can be made.
FindSignedIn(t) ==
  /\ pc[t] = "find"
  /\ Reply(t)
  /\ UNCHANGED <<users, auths, first, opened>>

-----------------------------------------------------------------------------
(* Stripe. *)

\* What the webhooks do with a subscription (see Webhook).
Subscribe(u, c) ==
  /\ u.customer # c
  /\ users' = (users \ {u}) \cup {[u EXCEPT !.customer = c, !.had = @ \cup {c}]}
  /\ UNCHANGED <<auths, pc, request, row, first, opened>>

\* Mutant: without a subscription any customer will do.
AuthorizedByDefault(u, c) == u.customer = "none" \/ u.customer = c

\* "The caller may only manage the Stripe customer recorded against their own account".
Authorized(u, c) == u.customer # "none" /\ u.customer = c

\* portal: the row is read, then Stripe is called.
Portal(t) ==
  /\ pc[t] = "portal"
  /\ \/ /\ \E u \in users : u.id = request[t].id /\ Authorized(u, request[t].customer)
        /\ ProceedTo(t, "open")
     \/ Reply(t)
  /\ UNCHANGED <<users, auths, first, opened>>

OpenPortal(t) ==
  /\ pc[t] = "open"
  /\ \/ opened' = {<<request[t].id, request[t].customer>>}
     \/ UNCHANGED opened
  /\ Reply(t)
  /\ UNCHANGED <<users, auths, first>>

\* checkout: a price that is not for sale, or an email that is not the caller's, letter
\* by letter, is refused.
Checkout(t) ==
  /\ pc[t] = "checkout"
  /\ \/ /\ \E u \in users : u.id = request[t].id /\ u.email = request[t].email
        /\ ProceedTo(t, "pay")
     \/ Reply(t)
  /\ UNCHANGED <<users, auths, first, opened>>

\* price_id_for_lookup_key and create_checkout_session: Stripe may not know the price,
\* and either call may fail.
OpenCheckout(t) ==
  /\ pc[t] = "pay"
  /\ \/ opened' = {<<request[t].id, request[t].email>>}
     \/ UNCHANGED opened
  /\ Reply(t)
  /\ UNCHANGED <<users, auths, first>>

\* The process ends: what was committed stays.
AccountsCrash ==
  /\ \E t \in Threads : pc[t] # "idle"
  /\ pc' = [t \in Threads |-> "idle"]
  /\ request' = [t \in Threads |-> NoRequest]
  /\ row' = [t \in Threads |-> NoRow]
  /\ UNCHANGED <<users, auths, first, opened>>

HandleAccount(t) ==
  \/ SignUpOrIn(t) \/ WithJwt(t) \/ SignUp(t) \/ FindAuth(t) \/ VerifySignIn(t) \/ Rehash(t)
  \/ FindSignedIn(t) \/ Portal(t) \/ OpenPortal(t)
  \/ Checkout(t) \/ OpenCheckout(t)

AccountsNext ==
  \/ \E t \in Threads : HandleAccount(t)
  \/ \E u \in users, c \in Customers : Subscribe(u, c)
  \/ AccountsCrash

AccountsSpec == AccountsInit /\ [][AccountsNext]_accountVars

-----------------------------------------------------------------------------
\* "a failure cannot leave a user row with no credentials — an account nobody can sign
\* in to, holding an email address that can never be registered again" (signup); and no
\* email has two accounts, however it is typed.
NoHalfAccounts ==
  /\ \A u \in users : \E a \in auths : a.email = u.email /\ a.id = u.id
  /\ \A a \in auths : \E u \in users : a.email = u.email /\ a.id = u.id
  /\ \A u, v \in users : u.email = v.email => u = v

\* Every account keeps the password it was made with, through failures, crashes, and
\* the requests that move its old hash at the same time.  (Passwords that agree in
\* their first 72 bytes are one to bcrypt: of an account from then, the last of them
\* that was verified against the old hash stays.)
PasswordsKept ==
  \A o \in first :
    /\ \E a \in auths : a.email = o.email /\ a.id = o.id
    /\ \A a \in auths : a.email = o.email => VerifyPassword(a.hash.pw, o.hash)

\* "Defaulting to 'allow' when the account has no subscription would let any signed-in
\* user open a billing portal for an arbitrary customer id" (portal): it is opened for
\* a customer that was the caller's, if perhaps no longer, and for no other; and a
\* checkout for the caller's email only.
PortalsOwn == \A o \in opened : \E u \in users : u.id = o[1] /\ o[2] \in u.had \cup {u.email}
==============================================================================
