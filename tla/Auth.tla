-------------------------------- MODULE Auth --------------------------------
(***************************************************************************)
(* internal/auth, internal/api/auth.go and router.go: who may use the API.  *)
(* A Telegram login is looked up in the users table and answered with a     *)
(* token; from then on the token alone decides (its role, its expiry): no   *)
(* request but GET /auth/me looks at the table again.  Rows are edited by   *)
(* psql at any time, and the process is restarted with other environment    *)
(* variables, while tokens live.                                            *)
(*                                                                          *)
(* Time counts in fractions of a second, because tokens carry whole ones.   *)
(* Signatures are perfect: the secret that signed a token is a field of it. *)
(***************************************************************************)
EXTENDS Integers, FiniteSets

CONSTANTS
  Users,          \* users.id values
  Accounts,       \* telegram_id values
  Clients,        \* HTTP calls that may be in progress at once
  Runs,           \* scan_runs.id values; bounds the number of scans
  Names,          \* strings that the environment or a token may hold
  Environments,   \* what the process's environment may hold
  Second,         \* clock ticks per second
  DefaultTTL,     \* 24 hours, in ticks
  LongestTTL,     \* no environment gives tokens a longer life
  MaxLogin,       \* ticks from the lookup of a login to its token
  MaxTime,        \* bound: ticks of a behaviour
  MaxTokens       \* bound: tokens issued in a behaviour

VARIABLES
  clock,          \* ticks
  users,          \* table users
  owner,          \* table scan_runs: run -> user_id
  settings,       \* Handler.authConfig and the arguments of the scheduler
  server,         \* the API process: "up" or "down"
  calls,          \* client -> its HTTP call
  tokens,         \* every token ever issued
  heldUntil       \* history: when a user last stopped to hold a role

authVars ==
  <<clock, users, owner, settings, server, calls, tokens, heldUntil>>

-----------------------------------------------------------------------------
(* Configuration *)

Roles == {"user", "admin"}
Modes == {"dry_run", "apply"}

\* An environment.  A variable that is not set is "" or 0, and so is a
\* duration that does not parse; a list is the set of its trimmed parts.
Environment ==
  [JWT_SECRET : Names, JWT_ISSUER : Names, JWT_AUDIENCE : SUBSET Names,
   TELEGRAM_BOT_TOKEN : Names, AUTH_TOKEN_TTL : Int,
   SCHEDULED_SCAN_INTERVAL : Int, SCHEDULED_SCAN_USER_ID : Users \cup {""},
   SCHEDULED_SCAN_MODE : Names]

getEnv(value, fallback) == IF value = "" THEN fallback ELSE value
getEnvDuration(value, fallback) == IF value > 0 THEN value ELSE fallback
getEnvStringSlice(value, fallback) == IF value = {} THEN fallback ELSE value

\* config.Load, and what Normalized makes of it.
Load(env) ==
  [secret   |-> env.JWT_SECRET,
   issuer   |-> getEnv(env.JWT_ISSUER, "email-triage-system"),
   audience |-> getEnvStringSlice(env.JWT_AUDIENCE,
                                  {"email-triage-system", "pg-ops-console"}),
   botToken |-> env.TELEGRAM_BOT_TOKEN,
   ttl      |-> getEnvDuration(env.AUTH_TOKEN_TTL, DefaultTTL),
   interval |-> getEnvDuration(env.SCHEDULED_SCAN_INTERVAL, 0),
   scanUser |-> env.SCHEDULED_SCAN_USER_ID,
   scanMode |-> getEnv(env.SCHEDULED_SCAN_MODE, "dry_run")]

\* Mutant: a schedule without a user.
ScheduleAcceptedWithoutUser(s) == s.interval > 0 => s.scanMode \in Modes

\* StartScheduledScans returns no error.
ScheduleAccepted(s) ==
  s.interval > 0 => s.scanUser # "" /\ s.scanMode \in Modes

ASSUME AuthAssumption ==
  /\ Runs \subseteq Nat
  /\ "" \notin Users
  /\ {"", "dry_run", "email-triage-system", "pg-ops-console"} \subseteq Names
  /\ Second \in Nat \ {0}
  /\ DefaultTTL \in Nat \ {0}
  /\ LongestTTL \in Nat
  /\ MaxLogin \in Nat
  /\ MaxTime \in Nat
  /\ MaxTokens \in Nat
  /\ Environments \subseteq Environment
  /\ \A env \in Environments : Load(env).ttl <= LongestTTL

-----------------------------------------------------------------------------
(* State *)

UserRow == [telegram : Accounts, role : Roles, enabled : BOOLEAN]

Settings == {Load(env) : env \in Environments}

\* The claims, the secret that signed them, and, as history: when the login
\* read the user's row, when the token was issued, and the expires_in of the
\* answer (seconds).
Token ==
  [secret : Names, iss : Names, aud : SUBSET Names, sub : Users,
   role : Roles, exp : Nat, read : Nat, issued : Nat, expiresIn : Nat]

\* A call: a login between lookup and token; a request let in by the
\* middleware with the principal it was given, at a time; a getScan that has
\* passed the ownership check.
Call ==
       [pc : {"issue", "me", "createScan", "getScan"},
        sub : Users, role : Roles, at : Nat]
  \cup [pc : {"viewing"}, sub : Users, role : Roles, at : Nat, run : Runs]

TypeOK ==
  /\ clock \in 0 .. MaxTime
  /\ DOMAIN users \subseteq Users
  /\ users \in [DOMAIN users -> UserRow]
  /\ DOMAIN owner \subseteq Runs
  /\ owner \in [DOMAIN owner -> Users]
  /\ settings \in Settings
  /\ server \in {"up", "down"}
  /\ DOMAIN calls \subseteq Clients
  /\ calls \in [DOMAIN calls -> Call]
  /\ tokens \subseteq Token
  /\ DOMAIN heldUntil \subseteq Users \X Roles
  /\ heldUntil \in [DOMAIN heldUntil -> Nat]

Init ==
  /\ clock = 0
  /\ users = [u \in {} |-> {}]
  /\ owner = [r \in {} |-> {}]
  /\ settings \in Settings
  /\ server = "down"
  /\ calls = [c \in {} |-> {}]
  /\ tokens = {}
  /\ heldUntil = [k \in {} |-> {}]

\* Insert or overwrite, and remove, one entry of a partial function.
With(f, key, value) ==
  [k \in DOMAIN f \cup {key} |-> IF k = key THEN value ELSE f[k]]
Without(f, key) == [k \in DOMAIN f \ {key} |-> f[k]]

-----------------------------------------------------------------------------
(* Time, and the users table: people with psql *)

\* An API process answers a login it has looked up within MaxLogin: nothing
\* but the signature is left to do.
Tick ==
  /\ clock < MaxTime
  /\ \A c \in DOMAIN calls :
       calls[c].pc = "issue" => clock < calls[c].at + MaxLogin
  /\ clock' = clock + 1
  /\ UNCHANGED <<users, owner, settings, server, calls, tokens, heldUntil>>

\* The table's row for u is about to be replaced.
Edit(u, table) ==
  /\ users' = table
  /\ heldUntil' = IF u \in DOMAIN users /\ users[u].enabled
                  THEN With(heldUntil, <<u, users[u].role>>, clock)
                  ELSE heldUntil
  /\ UNCHANGED <<clock, owner, settings, server, calls, tokens>>

\* INSERT: enabled is TRUE by default, telegram_id is unique.
InsertUser(u, account, role) ==
  /\ u \notin DOMAIN users
  /\ \A v \in DOMAIN users : users[v].telegram # account
  /\ Edit(u, With(users, u,
                  [telegram |-> account, role |-> role, enabled |-> TRUE]))

\* UPDATE of role or enabled.
UpdateUser(u, role, enabled) ==
  /\ u \in DOMAIN users
  /\ <<role, enabled>> # <<users[u].role, users[u].enabled>>
  /\ Edit(u, [users EXCEPT ![u].role = role, ![u].enabled = enabled])

\* DELETE: scan_runs.user_id is no foreign key, the user's scans stay.
DeleteUser(u) ==
  /\ u \in DOMAIN users
  /\ Edit(u, Without(users, u))

-----------------------------------------------------------------------------
(* The process *)

\* main: an environment whose schedule is not accepted ends it.
Boot(env) ==
  /\ server = "down"
  /\ ScheduleAccepted(Load(env))
  /\ settings' = Load(env)
  /\ server' = "up"
  /\ UNCHANGED <<clock, users, owner, calls, tokens, heldUntil>>

\* A crash, or SIGTERM: main returns as soon as the listener is closed and
\* the calls in progress end with it.
Stop ==
  /\ server = "up"
  /\ server' = "down"
  /\ calls' = [c \in {} |-> {}]
  /\ UNCHANGED <<clock, users, owner, settings, tokens, heldUntil>>

Idle(c) == server = "up" /\ c \notin DOMAIN calls

\* The call is answered without another effect: it is refused, a statement
\* fails, the client goes away; getScan has counted; or it is me, which reads
\* the user's row again and refuses a user who is gone or disabled.
Respond(c) ==
  /\ c \in DOMAIN calls
  /\ calls' = Without(calls, c)
  /\ UNCHANGED <<clock, users, owner, settings, server, tokens, heldUntil>>

-----------------------------------------------------------------------------
(* POST /auth/telegram *)

\* Mutant: the user's enabled flag is not looked at.
LookUpAnyUser(c, account) ==
  /\ Idle(c)
  /\ settings.botToken # ""
  /\ \E u \in DOMAIN users :
       /\ users[u].telegram = account
       /\ calls' = With(calls, c,
            [pc |-> "issue", sub |-> u, role |-> users[u].role, at |-> clock])
  /\ UNCHANGED <<clock, users, owner, settings, server, tokens, heldUntil>>

\* telegramAuth up to the lookup: the login's hash is right, its account has a
\* row and the row is enabled.  (Any other login is refused and changes
\* nothing.)  How old auth_date is does not matter.
LookUp(c, account) ==
  /\ Idle(c)
  /\ settings.botToken # ""
  /\ \E u \in DOMAIN users :
       /\ users[u].telegram = account
       /\ users[u].enabled
       /\ calls' = With(calls, c,
            [pc |-> "issue", sub |-> u, role |-> users[u].role, at |-> clock])
  /\ UNCHANGED <<clock, users, owner, settings, server, tokens, heldUntil>>

\* Time.Unix.
Unix(t) == t \div Second

\* Mutant: whole seconds are added to the truncated time, one too few.
ExpiryRoundedDown(t) == Unix(t) + Unix(settings.ttl) - 1

\* now.Add(ttl).Unix()
Expiry(t) == Unix(t + settings.ttl)

\* Issue, and the answer with its expires_in.
Issue(c) ==
  /\ c \in DOMAIN calls
  /\ calls[c].pc = "issue"
  /\ settings.secret # ""
  /\ Cardinality(tokens) < MaxTokens
  /\ tokens' = tokens \cup
       {[secret |-> settings.secret, iss |-> settings.issuer,
         aud |-> settings.audience, sub |-> calls[c].sub,
         role |-> calls[c].role, exp |-> Expiry(clock),
         read |-> calls[c].at, issued |-> clock,
         expiresIn |-> Unix(settings.ttl)]}
  /\ calls' = Without(calls, c)
  /\ UNCHANGED <<clock, users, owner, settings, server, heldUntil>>

-----------------------------------------------------------------------------
(* Requests with a token *)

\* Verify, with the audience that requireAuth expects: the issuer.
Verify(token) ==
  /\ settings.secret # ""
  /\ token.secret = settings.secret
  /\ token.iss = settings.issuer
  /\ token.exp > Unix(clock)
  /\ settings.issuer \in token.aud
  /\ token.role \in Roles

\* Middleware lets the request in; what the handler knows of the user is in
\* the token.
Middleware(c, token, handler) ==
  /\ Idle(c)
  /\ Verify(token)
  /\ calls' = With(calls, c, [pc |-> handler, sub |-> token.sub,
                              role |-> token.role, at |-> clock])
  /\ UNCHANGED <<clock, users, owner, settings, server, tokens, heldUntil>>

\* INSERT INTO scan_runs ... RETURNING id
CreateScanRun(r, u) ==
  /\ r \notin DOMAIN owner
  /\ \A q \in Runs : q < r => q \in DOMAIN owner
  /\ owner' = With(owner, r, u)

\* Mutant: the user is taken from the request.
createScanForAnyUser(c, r) ==
  /\ c \in DOMAIN calls
  /\ calls[c].pc = "createScan"
  /\ \E u \in Users : CreateScanRun(r, u)
  /\ calls' = Without(calls, c)
  /\ UNCHANGED <<clock, users, settings, server, tokens, heldUntil>>

\* createScan, once the middleware has let it in.
createScan(c, r) ==
  /\ c \in DOMAIN calls
  /\ calls[c].pc = "createScan"
  /\ CreateScanRun(r, calls[c].sub)
  /\ calls' = Without(calls, c)
  /\ UNCHANGED <<clock, users, settings, server, tokens, heldUntil>>

\* Mutant: only admins are checked for.
MayReadAny(call, r) == TRUE

\* The check of getScan.
MayRead(call, r) == call.role = "admin" \/ owner[r] = call.sub

\* getScan: the run is there and may be read.  (Otherwise: Respond.)
getScan(c, r) ==
  /\ c \in DOMAIN calls
  /\ calls[c].pc = "getScan"
  /\ r \in DOMAIN owner
  /\ MayRead(calls[c], r)
  /\ calls' = With(calls, c,
       [pc |-> "viewing", sub |-> calls[c].sub, role |-> calls[c].role,
        at |-> calls[c].at, run |-> r])
  /\ UNCHANGED <<clock, users, owner, settings, server, tokens, heldUntil>>

\* A tick of StartScheduledScans.
ScheduledScan(r) ==
  /\ server = "up"
  /\ settings.interval > 0
  /\ CreateScanRun(r, settings.scanUser)
  /\ UNCHANGED <<clock, users, settings, server, calls, tokens, heldUntil>>

-----------------------------------------------------------------------------

Next ==
  \/ Tick
  \/ \E u \in Users, role \in Roles :
       \/ \E account \in Accounts : InsertUser(u, account, role)
       \/ \E enabled \in BOOLEAN : UpdateUser(u, role, enabled)
  \/ \E u \in Users : DeleteUser(u)
  \/ \E env \in Environments : Boot(env)
  \/ Stop
  \/ \E c \in Clients :
       \/ \E account \in Accounts : LookUp(c, account)
       \/ Issue(c)
       \/ \E token \in tokens, handler \in {"me", "createScan", "getScan"} :
            Middleware(c, token, handler)
       \/ Respond(c)
       \/ \E r \in Runs : createScan(c, r) \/ getScan(c, r)
  \/ \E r \in Runs : ScheduledScan(r)

Spec == Init /\ [][Next]_authVars

-----------------------------------------------------------------------------
(* Properties *)

Holds(u, role) ==
  u \in DOMAIN users /\ users[u].enabled /\ users[u].role = role

\* The user has held the role, enabled, at some time later than t.
HeldAfter(u, role, t) ==
  \/ Holds(u, role) /\ clock > t
  \/ <<u, role>> \in DOMAIN heldUntil /\ heldUntil[<<u, role>>] > t

\* How long a token can outlive what it says.
Grace == LongestTTL + MaxLogin

\* A request that the middleware has let in acts for a user who had the role
\* in the token, and was enabled, less than one token lifetime and one login
\* ago: disabling, demoting or deleting a user takes effect within that
\* time, whatever logins were under way, whatever tokens are about, and
\* however often the process is restarted with other settings.  (jwt.go does
\* not look at the users table.)
AccessIsRecent ==
  \A c \in DOMAIN calls : calls[c].pc # "issue" =>
    HeldAfter(calls[c].sub, calls[c].role, calls[c].at - Grace)

\* getScan shows a scan to its owner, or to someone who really was an enabled
\* admin less than a token lifetime and a login before the request; scans
\* keep their owner, also when the user is deleted and created again.
ScansAreRead ==
  \A c \in DOMAIN calls : calls[c].pc = "viewing" =>
    \/ owner[calls[c].run] = calls[c].sub
    \/ HeldAfter(calls[c].sub, "admin", calls[c].at - Grace)

\* The user of every scan is the user of the schedule or has been, at some
\* time, an enabled user: createScan takes the user from the token alone and
\* scan_runs.user_id is no foreign key.
ScansHaveUsers ==
  \A r \in DOMAIN owner :
    \/ \E env \in Environments : env.SCHEDULED_SCAN_USER_ID = owner[r]
    \/ \E role \in Roles : HeldAfter(owner[r], role, -1)

\* A client may use a token for the expires_in it was told, less the second
\* that truncation takes: as long as the secret and the issuer are not
\* changed, a running server accepts it, through any number of restarts.
FreshTokensAreAccepted ==
  \A token \in tokens :
    ( /\ server = "up"
      /\ token.secret = settings.secret
      /\ token.iss = settings.issuer
      /\ clock <= token.issued + (token.expiresIn - 1) * Second )
    => Verify(token)

=============================================================================
