------------------------------- MODULE MCAuth -------------------------------
(***************************************************************************)
(* Small instances of Auth: half-second ticks, tokens of two seconds by     *)
(* default and of one and a half where the environment says so.             *)
(***************************************************************************)
EXTENDS Auth

CONSTANTS u1, u2

Plain ==
  [JWT_SECRET |-> "s1", JWT_ISSUER |-> "", JWT_AUDIENCE |-> {},
   TELEGRAM_BOT_TOKEN |-> "bot", AUTH_TOKEN_TTL |-> 0,
   SCHEDULED_SCAN_INTERVAL |-> 0, SCHEDULED_SCAN_USER_ID |-> "",
   SCHEDULED_SCAN_MODE |-> ""]

\* A rotated secret and a shorter life; a schedule for a user; a schedule
\* that is not accepted.
Rotated == [Plain EXCEPT !.JWT_SECRET = "s2", !.AUTH_TOKEN_TTL = 3]
ScheduledFor(u) == [Plain EXCEPT !.SCHEDULED_SCAN_INTERVAL = 1,
                                 !.SCHEDULED_SCAN_USER_ID = u]

\* The issuer is set, the audience is not.
OwnIssuer == [Plain EXCEPT !.JWT_ISSUER = "triage.example.com"]

Strings ==
  {"", "s1", "s2", "bot", "dry_run", "email-triage-system", "pg-ops-console",
   "triage.example.com"}

Restarts == {Rotated, ScheduledFor(u1), ScheduledFor("")}
Issuers == {OwnIssuer}

\* At most one user stops to hold one role, any number of times.
OneRoleEnds == Cardinality(DOMAIN heldUntil) <= 1

=============================================================================
