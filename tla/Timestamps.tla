----------------------------- MODULE Timestamps -----------------------------
(***************************************************************************)
(* What the server makes of a point in time: the date of a day, in headers *)
(* and in the answers (civil_from_days, backend/src/http.rs and            *)
(* config.rs), and whether the signature of a webhook is recent            *)
(* (verify_signature, stripe.rs).                                          *)
(*                                                                         *)
(* A state is one sample; there is no step.                                *)
(***************************************************************************)
EXTENDS Integers, Sequences, FiniteSetsExt

CONSTANTS
  Days,      \* days since 1970-01-01
  Headers,   \* Stripe-Signature headers
  Clocks,    \* readings of the clock when one arrives, in seconds
  Tolerance, \* DEFAULT_WEBHOOK_TOLERANCE_SECS
  MaxInt     \* the largest i64

\* What stands between the commas of a header: its scheme, and a time or a signature.
HeaderParts == [scheme : STRING, at : -MaxInt - 1 .. MaxInt, of : STRING, with : STRING]

ASSUME TimestampsAssumption ==
  /\ Days \subseteq Int /\ Headers \subseteq Seq(HeaderParts)
  /\ MaxInt \in Nat /\ Clocks \subseteq 0 .. MaxInt /\ Tolerance \in 0 .. MaxInt - 1

VARIABLE sample

TimestampsInit ==
  \/ \E d \in Days : sample = [day |-> d]
  \/ \E h \in Headers, c \in Clocks : sample = [header |-> h, clock |-> c]

Is(field) == field \in DOMAIN sample

-----------------------------------------------------------------------------
(* Dates. *)

\* Mutant: the years divisible by 100 that have no leap day are forgotten.
CenturyDaysNone(doe) == 0

\* The days of an era before doe that 365 days a year and one more every 4 do not
\* account for.
CenturyDays(doe) == doe \div 36524

\* civil_from_days, of http.rs and of config.rs: year, month and day.
CivilFromDays(z) ==
  LET era == (z + 719468) \div 146097
      doe == (z + 719468) % 146097
      yoe == (doe - (doe \div 1460) + CenturyDays(doe) - (doe \div 146096)) \div 365
      doy == doe - (365 * yoe + (yoe \div 4) - (yoe \div 100))
      mp == (5 * doy + 2) \div 153
      m == IF mp < 10 THEN mp + 3 ELSE mp - 9
      y == yoe + 400 * era
  IN  <<IF m <= 2 THEN y + 1 ELSE y, m, doy - ((153 * mp + 2) \div 5) + 1>>

Leap(y) == y % 4 = 0 /\ (y % 100 # 0 \/ y % 400 = 0)
MonthDays(y, m) == IF m = 2 THEN (IF Leap(y) THEN 29 ELSE 28) ELSE IF m \in {4, 6, 9, 11} THEN 30 ELSE 31

NextDay(d) ==
  IF d[3] < MonthDays(d[1], d[2]) THEN <<d[1], d[2], d[3] + 1>>
  ELSE IF d[2] < 12 THEN <<d[1], d[2] + 1, 1>> ELSE <<d[1] + 1, 1, 1>>

-----------------------------------------------------------------------------
(* The signature of a webhook.  A signature says what was signed and with which secret; *)
(* a payload is "ours" when it is the body the header came with.                        *)

Timestamp(t) == [scheme |-> "t", at |-> t, of |-> "none", with |-> "none"]
Signature(scheme, t, payload, secret) == [scheme |-> scheme, at |-> t, of |-> payload, with |-> secret]

\* parse_sig_header: where a t stands, of which the first counts, and every v1.
Stamps(header) == {k \in DOMAIN header : header[k].scheme = "t"}
V1(header) == {header[k] : k \in {k \in DOMAIN header : header[k].scheme = "v1"}}

\* Mutant: the subtraction wraps around.
AgeWrapped(now, t) == IF now - t > MaxInt THEN now - t - 2 * (MaxInt + 1) ELSE now - t

\* now.saturating_sub(t)
HeaderAge(now, t) == IF now - t > MaxInt THEN MaxInt ELSE now - t

\* verify_signature, with a secret configured.
VerifySignature(header, now) ==
  /\ Stamps(header) # {}
  /\ LET t == header[Min(Stamps(header))].at
     IN  /\ HeaderAge(now, t) \in -Tolerance .. Tolerance
         /\ Signature("v1", t, "ours", "secret") \in V1(header)

-----------------------------------------------------------------------------
\* The day after a date is the date of the day after, over the ends of months, leap
\* years and centuries, before 1970 too.
DatesRight ==
  /\ CivilFromDays(0) = <<1970, 1, 1>>
  /\ Is("day") => CivilFromDays(sample.day + 1) = NextDay(CivilFromDays(sample.day))

\* What is accepted was signed, at a time near now; and what was signed near now, and
\* names no other time, is accepted.
AcceptedIffSigned(header, now) ==
  LET near == (now - Tolerance) .. (now + Tolerance)
      stamps == {header[k].at : k \in Stamps(header)}
      signed(t) == Signature("v1", t, "ours", "secret") \in V1(header)
  IN  /\ VerifySignature(header, now) => \E t \in stamps \cap near : signed(t)
      /\ \A t \in near : stamps = {t} /\ signed(t) => VerifySignature(header, now)

\* "a timestamp outside tolerance (in either direction), or no v1 entry matching"
\* (construct_event): what is accepted was signed, and signed at a time near now, whatever
\* else the header holds; and what Stripe signed now is accepted, whichever other secrets
\* and schemes it names.
SignedRecently == Is("header") => AcceptedIffSigned(sample.header, sample.clock)
==============================================================================
