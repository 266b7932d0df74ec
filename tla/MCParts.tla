------------------------------- MODULE MCParts -------------------------------
(***************************************************************************)
(* The parts of the server that share no state with one another, side by   *)
(* side: a behaviour picks one part and stays with it.                     *)
(***************************************************************************)
EXTENDS Usage, Csrf, SignIn, Limits, Accounts, StripeClient, GuideAi, Chapters,
        RequestReader, Startup, Settings, Codecs, TLC

CONSTANT Parts

VARIABLE part

\* The variables of each part that takes steps, pc apart, and of the one that takes none.
usageOwn    == <<now, count, resetAt, asked, saw, until, used>>
csrfOwn     == <<stored, minted, aged, jwt, cookie, from, header, reply, ended, events>>
signInOwn   == <<record, key, clock, fails>>
limitsOwn   == <<windows, caller, ip, readAt, wait, granted>>
accountsOwn == <<users, auths, request, row, first, opened>>
samples     == <<sample>>

vars == <<part, pc, usageOwn, csrfOwn, signInOwn, limitsOwn, accountsOwn, clientVars, aiVars,
          readerVars, startupVars, settingsVars, chapterVars, samples>>

Init ==
  /\ part \in Parts
  /\ UsageInit /\ CsrfInit /\ SignInInit /\ LimitsInit /\ AiInit
  /\ IF part \in {"accounts", "portals"} THEN TRUE ELSE users = {}
  /\ AccountsInit
  /\ IF part = "client" THEN TRUE ELSE op = [c \in Calls |-> "lookup"]
  /\ ClientInit
  /\ IF part = "reader" THEN TRUE ELSE sent = <<>>
  /\ ReaderInit
  /\ IF part = "startup" THEN TRUE ELSE has = [n \in DOMAIN Tables |-> Absent]
  /\ StartupInit
  /\ IF part = "settings" THEN TRUE
     ELSE prod = TRUE /\ shell = "none" /\ config = "sqlite"
          /\ files = [f \in {".env", ".env.local", ".env.example"} |-> "absent"]
  /\ SettingsInit
  /\ IF part = "chapters" THEN TRUE ELSE narration = <<>> /\ quotes = <<>>
  /\ ChaptersInit
  /\ IF part = "codecs" THEN CodecsInit ELSE sample = [none |-> 0]

\* All but the variables of part p stay.
Others(p) ==
  /\ part = p
  /\ UNCHANGED <<part, samples>>
  /\ IF p \in {"usage", "csrf", "signin", "limits", "accounts", "portals"} THEN TRUE ELSE UNCHANGED pc
  /\ IF p = "usage" THEN TRUE ELSE UNCHANGED usageOwn
  /\ IF p = "csrf" THEN TRUE ELSE UNCHANGED csrfOwn
  /\ IF p = "signin" THEN TRUE ELSE UNCHANGED signInOwn
  /\ IF p = "limits" THEN TRUE ELSE UNCHANGED limitsOwn
  /\ IF p \in {"accounts", "portals"} THEN TRUE ELSE UNCHANGED accountsOwn
  /\ IF p = "client" THEN TRUE ELSE UNCHANGED clientVars
  /\ IF p = "ai" THEN TRUE ELSE UNCHANGED aiVars
  /\ IF p = "reader" THEN TRUE ELSE UNCHANGED readerVars
  /\ IF p = "startup" THEN TRUE ELSE UNCHANGED startupVars
  /\ IF p = "settings" THEN TRUE ELSE UNCHANGED settingsVars
  /\ IF p = "chapters" THEN TRUE ELSE UNCHANGED chapterVars

\* Accounts is checked twice: with all passwords and no subscriptions; and for what
\* subscribers may open, with one password and nobody who signs in with it.
NoSessions ==
  /\ \A u \in users' : u.customer = "none"
  /\ \A t \in Threads : pc'[t] \notin {"portal", "checkout"}
OnePassword == \A t \in Threads : request'[t].pw \in {<<>>, <<"h", "x">>} /\ pc'[t] # "signin"

Next ==
  \/ part = "usage" /\ UsageNext /\ Others("usage")
  \/ part = "csrf" /\ CsrfNext /\ Others("csrf")
  \/ part = "signin" /\ SignInNext /\ Others("signin")
  \/ part = "limits" /\ LimitsNext /\ Others("limits")
  \/ part = "accounts" /\ AccountsNext /\ NoSessions /\ Others("accounts")
  \/ part = "portals" /\ AccountsNext /\ OnePassword /\ Others("portals")
  \/ part = "client" /\ ClientNext /\ Others("client")
  \/ part = "ai" /\ AiNext /\ Others("ai")
  \/ part = "reader" /\ ReaderNext /\ Others("reader")
  \/ part = "startup" /\ StartupNext /\ Others("startup")
  \/ part = "settings" /\ SettingsNext /\ Others("settings")
  \/ part = "chapters" /\ ChaptersNext /\ Others("chapters")

\* Calls to Stripe go on, and processes that start; time goes on for the calls.
Fairness ==
  /\ WF_vars(part = "client" /\ ClientTick /\ Others("client"))
  /\ \A c \in Calls : WF_vars(part = "client" /\ CallStep(c) /\ Others("client"))
  /\ \A p \in Procs : WF_vars(part = "startup" /\ OpenStep(p) /\ Others("startup"))

Spec == Init /\ [][Next]_vars /\ Fairness

-----------------------------------------------------------------------------
(* The instances. *)

MCClients == {"a", "b"}
MCProxies == <<"p">>

MCEmails == {"a", "A", "b"}
MCNormal == [e \in MCEmails |-> IF e = "b" THEN "b" ELSE "a"]
MCPasswords == {<<"h", "x">>, <<"h", "y">>, <<"g", "x">>}
MCOldHashes == {<<"a", "bcrypt", <<"h", "x">>>>, <<"a", "scrypt", <<"h", "x">>>>}
MCCustomers == {"c1", "c2"}

MCTables == <<"Users", "Guides">>
MCColumns == [t \in {"Users", "Guides"} |-> IF t = "Users" THEN <<"usage_count">> ELSE <<"author", "visibility">>]
MCIndexed == {<<"Guides", "visibility">>}

MCWords == {<<"a">>, <<"b">>, <<"a", "t">>}
MCQuoteTokens == {"a", "b"}

\* A request within the body of another.
Inner == <<Line("HTTP/1.1"), Blank>>
Framed(fields_, body_) ==
  [stray |-> 0, line |-> Line("HTTP/1.1"), fields |-> fields_, body |-> body_, chunks |-> FALSE, trailer |-> <<>>]
InChunks(fields_, body_, trailer_) ==
  [stray |-> 0, line |-> Line("HTTP/1.1"), fields |-> fields_, body |-> body_, chunks |-> TRUE, trailer |-> trailer_]
Bare(l, fields_) == [Framed(fields_, <<>>) EXCEPT !.line = Line(l)]
MCMessages ==
  {[Bare("HTTP/1.1", <<>>) EXCEPT !.stray = 1]}
    \cup {Bare(l, <<>>) : l \in {"HTTP/1.1", "HTTP/1.0", "HTTP/2.0", "shape"}}
    \cup {Bare("HTTP/1.0", <<Field("keep-alive")>>)}
    \cup {Bare("HTTP/1.1", <<Field(f)>>) : f \in {"close", "folded", "long"}}
    \cup {Framed(<<ContentLength(n), ContentLength(2 - n)>>, Inner) : n \in {0, 2}}
    \cup {Framed(<<ContentLength(2), ContentLength(2)>>, Inner)}
    \cup {Framed(<<ContentLength(2)>>, Inner),
          Framed(<<Field("expect"), ContentLength(2)>>, Inner),
          Framed(<<ContentLength(3)>>, Inner \o <<Blank>>)}
    \cup {Framed(<<Field(f)>>, Inner) : f \in {"bad length", "coding", "chunked"}}
    \cup {Framed(<<Field("chunked"), ContentLength(2)>>, b) : b \in {Inner, <<Size(0), Blank>>}}
    \cup {Framed(<<Field("chunked")>>, <<Size(1), Blank, Line("HTTP/1.1")>>)}
    \cup {InChunks(<<Field("chunked")>>, Inner, t) : t \in {<<>>, <<Field("x")>>, <<Field("long")>>}}
    \cup {InChunks(<<Field("chunked")>>, Inner \o <<Blank>>, <<>>),
          InChunks(<<ContentLength(0), Field("chunked")>>, Inner, <<>>),
          InChunks(<<Field("chunked"), Field("coding")>>, Inner, <<>>)}

MCTexts == BoundedSeq({37, 59, 61, 32, 43, 50, 65}, 3)
\* Structure, a key, characters to escape, escapes, halves of pairs, numbers, a literal.
MCPieces ==
  {<<91>>, <<93>>, <<123>>, <<125>>, <<44>>, <<34>>, <<34, 97, 34, 58>>, <<34, 97>>,
   <<92>>, <<92, 34>>, <<92, 117, 48, 48, 49, 102>>, <<92, 117, 100, 56, 48, 48>>, <<92, 117, 68, 67, 48, 49>>,
   <<45>>, <<48>>, <<49, 48>>, <<110, 117, 108, 108>>}
MCJsonTexts ==
  {FlattenSeq(p) : p \in BoundedSeq(MCPieces, 3)}
    \cup {<<o>> \o FlattenSeq(p) \o <<o + 2>> : o \in {91, 123}, p \in [1 .. 3 -> MCPieces]}
    \cup {<<34>> \o FlattenSeq(p) \o <<34>> : p \in [1 .. 3 -> MCPieces]}
MCFile == BoundedSeq({"--", "line end", "name audio", "x"}, 3)
MCAudio == {<<"name audio">>, <<"type audio", "line end", "name audio">>, <<"name audio", "line end", "type other">>}
MCUploads ==
  {<<[headers |-> h, bytes |-> b]>> : h \in MCAudio \cup {<<"x">>}, b \in MCFile}
    \cup {<<[headers |-> <<"x">>, bytes |-> c], [headers |-> <<"name audio">>, bytes |-> b]>> : c, b \in MCFile}
MCRangeSpecs == (-1 .. 5) \X (-1 .. 5)
MCBytes == BoundedSeq({0, 1, 127, 128, 255}, 4)
\* 1967 to 1973, and the years around 1600, 1900, 2000, 2100 and 2400.
MCDays ==
  (-1000 .. 1200)
    \cup UNION {(365 * y + (y \div 4) - 400) .. (365 * y + (y \div 4) + 400) : y \in {-370, -70, 30, 130, 430}}
MCHeaders ==
  BoundedSeq({Timestamp(t) : t \in {-8, -7, 0, 1, 2, 7}}
               \cup {Signature("v1", t, p, "secret") : t \in {-8, 1, 2}, p \in {"ours", "other"}}
               \cup {Signature("v1", 1, "ours", "old"), Signature("v0", 1, "ours", "secret")}, 3)
==============================================================================
