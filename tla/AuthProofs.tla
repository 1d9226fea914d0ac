------------------------------ MODULE AuthProofs -----------------------------
(***************************************************************************)
(* What holds of Auth for any number of users, tokens, calls and restarts,  *)
(* any lifetime of a token and any length of a second.                      *)
(***************************************************************************)
EXTENDS Auth, TLAPS

-----------------------------------------------------------------------------
(* Values *)

\* Whole seconds do not run backwards.
LEMMA DivMonotone ==
  ASSUME NEW a \in Nat, NEW b \in Nat, NEW s \in Nat \ {0}, a <= b
  PROVE  a \div s <= b \div s
<1> DEFINE q == a \div s
           p == b \div s
<1>1. q \in Nat /\ p \in Nat
  OBVIOUS
<1>2. a >= s * q /\ b < s * (p + 1)
  OBVIOUS
<1>3. SUFFICES ASSUME p + 1 <= q PROVE FALSE
  BY <1>1
<1>4. s * (p + 1) <= s * q
  BY <1>1, <1>3
<1> QED
  BY <1>1, <1>2, <1>4

LEMMA UnixMonotone ==
  ASSUME NEW a \in Nat, NEW b \in Nat, a <= b
  PROVE  Unix(a) \in Nat /\ Unix(b) \in Nat /\ Unix(a) <= Unix(b)
<1>1. Second \in Nat \ {0}
  BY AuthAssumption
<1>2. a \div Second <= b \div Second
  BY <1>1, DivMonotone
<1>3. a \div Second \in Nat /\ b \div Second \in Nat
  BY <1>1
<1> QED
  BY <1>2, <1>3 DEF Unix

LEMMA LoadTyped ==
  ASSUME NEW s \in Settings
  PROVE  /\ s.secret \in Names
         /\ s.issuer \in Names
         /\ s.audience \in SUBSET Names
         /\ s.ttl \in Nat
         /\ s.ttl <= LongestTTL
         /\ s.interval \in Nat
         /\ s.scanUser \in Users \cup {""}
         /\ \E env \in Environments : env.SCHEDULED_SCAN_USER_ID = s.scanUser
<1>1. PICK env \in Environments : s = Load(env)
  BY DEF Settings
<1>2. /\ env.JWT_SECRET \in Names
      /\ env.JWT_ISSUER \in Names
      /\ env.JWT_AUDIENCE \in SUBSET Names
      /\ env.AUTH_TOKEN_TTL \in Int
      /\ env.SCHEDULED_SCAN_INTERVAL \in Int
      /\ env.SCHEDULED_SCAN_USER_ID \in Users \cup {""}
  BY AuthAssumption DEF Environment
<1>3. /\ s.secret = env.JWT_SECRET
      /\ s.issuer = getEnv(env.JWT_ISSUER, "email-triage-system")
      /\ s.audience = getEnvStringSlice(env.JWT_AUDIENCE,
                        {"email-triage-system", "pg-ops-console"})
      /\ s.ttl = getEnvDuration(env.AUTH_TOKEN_TTL, DefaultTTL)
      /\ s.interval = getEnvDuration(env.SCHEDULED_SCAN_INTERVAL, 0)
      /\ s.scanUser = env.SCHEDULED_SCAN_USER_ID
  BY <1>1 DEF Load
<1>4. s.ttl \in Nat /\ s.interval \in Nat
  <2>1. DefaultTTL \in Nat
    BY AuthAssumption
  <2>2. ASSUME NEW v \in Int, NEW n \in Nat PROVE getEnvDuration(v, n) \in Nat
    BY DEF getEnvDuration
  <2> QED
    BY <1>2, <1>3, <2>1, <2>2
<1>5. s.ttl <= LongestTTL
  BY <1>1, AuthAssumption
<1>6. s.issuer \in Names
  <2>1. "email-triage-system" \in Names
    BY AuthAssumption
  <2> QED
    BY <1>2, <1>3, <2>1 DEF getEnv
<1>7. s.audience \in SUBSET Names
  <2>1. {"email-triage-system", "pg-ops-console"} \in SUBSET Names
    BY AuthAssumption
  <2> QED
    BY <1>2, <1>3, <2>1 DEF getEnvStringSlice
<1> QED
  BY <1>2, <1>3, <1>4, <1>5, <1>6, <1>7

-----------------------------------------------------------------------------
(* Types *)

\* A running server has accepted its schedule: a tick has a user.
ScheduleChecked == server = "up" => ScheduleAccepted(settings)

AuthTypes == TypeOK /\ ScheduleChecked

LEMMA TypesInit == Init => AuthTypes
<1> SUFFICES ASSUME Init PROVE AuthTypes
  OBVIOUS
<1>1. MaxTime \in Nat
  BY AuthAssumption
<1>2. TypeOK
  BY <1>1 DEF Init, TypeOK
<1> QED
  BY <1>2 DEF Init, AuthTypes, ScheduleChecked

LEMMA EditTypes ==
  ASSUME TypeOK, NEW u \in Users, NEW table, Edit(u, table),
         DOMAIN table \subseteq Users, table \in [DOMAIN table -> UserRow]
  PROVE  TypeOK'
<1>1. clock \in Nat
  BY DEF TypeOK
<1>2. /\ DOMAIN heldUntil' \subseteq Users \X Roles
      /\ heldUntil' \in [DOMAIN heldUntil' -> Nat]
  <2>1. CASE u \in DOMAIN users /\ users[u].enabled
    <3>1. users[u].role \in Roles
      BY <2>1 DEF TypeOK, UserRow
    <3> QED
      BY <2>1, <3>1, <1>1 DEF Edit, TypeOK, With
  <2>2. CASE ~(u \in DOMAIN users /\ users[u].enabled)
    BY <2>2 DEF Edit, TypeOK
  <2> QED
    BY <2>1, <2>2
<1> QED
  BY <1>2 DEF Edit, TypeOK

LEMMA CallTypes ==
  ASSUME TypeOK, NEW c \in Clients, NEW call \in Call,
         calls' = With(calls, c, call) \/ calls' = Without(calls, c)
  PROVE  DOMAIN calls' \subseteq Clients /\ calls' \in [DOMAIN calls' -> Call]
BY DEF TypeOK, With, Without

LEMMA CallEnds ==
  ASSUME TypeOK, NEW c \in Clients, calls' = Without(calls, c)
  PROVE  DOMAIN calls' \subseteq Clients /\ calls' \in [DOMAIN calls' -> Call]
BY DEF TypeOK, Without

LEMMA OwnerTypes ==
  ASSUME TypeOK, NEW r \in Runs, NEW u \in Users, CreateScanRun(r, u)
  PROVE  DOMAIN owner' \subseteq Runs /\ owner' \in [DOMAIN owner' -> Users]
BY DEF TypeOK, CreateScanRun, With

LEMMA TypesStep == AuthTypes /\ [Next]_authVars => AuthTypes'
<1> SUFFICES ASSUME AuthTypes, [Next]_authVars PROVE AuthTypes'
  OBVIOUS
<1>0. TypeOK /\ ScheduleChecked /\ clock \in Nat /\ MaxTime \in Nat
  <2>1. MaxTime \in Nat
    BY AuthAssumption
  <2> QED
    BY <2>1 DEF AuthTypes, TypeOK
<1>1. CASE Tick
  BY <1>0, <1>1 DEF Tick, AuthTypes, TypeOK, ScheduleChecked
<1>2. ASSUME NEW u \in Users, NEW account \in Accounts, NEW role \in Roles,
             InsertUser(u, account, role)
      PROVE  AuthTypes'
  <2> DEFINE row == [telegram |-> account, role |-> role, enabled |-> TRUE]
             table == With(users, u, row)
  <2>1. row \in UserRow
    BY DEF UserRow
  <2> HIDE DEF row
  <2>2. DOMAIN table \subseteq Users /\ table \in [DOMAIN table -> UserRow]
    BY <1>0, <2>1 DEF TypeOK, With
  <2>3. Edit(u, table)
    BY <1>2 DEF InsertUser, row
  <2> HIDE DEF table
  <2> QED
    BY <1>0, <2>2, <2>3, EditTypes DEF AuthTypes, ScheduleChecked, Edit
<1>3. ASSUME NEW u \in Users, NEW role \in Roles, NEW enabled \in BOOLEAN,
             UpdateUser(u, role, enabled)
      PROVE  AuthTypes'
  <2> DEFINE table == [users EXCEPT ![u].role = role, ![u].enabled = enabled]
  <2>1. u \in DOMAIN users /\ users[u] \in UserRow
    BY <1>0, <1>3 DEF UpdateUser, TypeOK
  <2>2. DOMAIN table \subseteq Users /\ table \in [DOMAIN table -> UserRow]
    BY <1>0, <2>1 DEF TypeOK, UserRow
  <2>3. Edit(u, table)
    BY <1>3 DEF UpdateUser
  <2> HIDE DEF table
  <2> QED
    BY <1>0, <2>2, <2>3, EditTypes DEF AuthTypes, ScheduleChecked, Edit
<1>4. ASSUME NEW u \in Users, DeleteUser(u) PROVE AuthTypes'
  <2> DEFINE table == Without(users, u)
  <2>1. DOMAIN table \subseteq Users /\ table \in [DOMAIN table -> UserRow]
    BY <1>0 DEF TypeOK, Without
  <2>2. Edit(u, table)
    BY <1>4 DEF DeleteUser
  <2> HIDE DEF table
  <2> QED
    BY <1>0, <2>1, <2>2, EditTypes DEF AuthTypes, ScheduleChecked, Edit
<1>5. ASSUME NEW env \in Environments, Boot(env) PROVE AuthTypes'
  BY <1>0, <1>5 DEF Boot, AuthTypes, TypeOK, ScheduleChecked, Settings
<1>6. CASE Stop
  BY <1>0, <1>6 DEF Stop, AuthTypes, TypeOK, ScheduleChecked
<1>7. ASSUME NEW c \in Clients, NEW account \in Accounts, LookUp(c, account)
      PROVE  AuthTypes'
  <2>1. PICK u \in DOMAIN users :
          calls' = With(calls, c, [pc |-> "issue", sub |-> u,
                                   role |-> users[u].role, at |-> clock])
    BY <1>7 DEF LookUp
  <2>2. u \in Users /\ users[u].role \in Roles
    BY <1>0 DEF TypeOK, UserRow
  <2>3. [pc |-> "issue", sub |-> u, role |-> users[u].role, at |-> clock]
          \in Call
    BY <1>0, <2>2 DEF Call
  <2> QED
    BY <1>0, <1>7, <2>1, <2>3, CallTypes
    DEF LookUp, AuthTypes, TypeOK, ScheduleChecked
<1>8. ASSUME NEW c \in Clients, Issue(c) PROVE AuthTypes'
  <2> DEFINE t == [secret |-> settings.secret, iss |-> settings.issuer,
                   aud |-> settings.audience, sub |-> calls[c].sub,
                   role |-> calls[c].role, exp |-> Expiry(clock),
                   read |-> calls[c].at, issued |-> clock,
                   expiresIn |-> Unix(settings.ttl)]
  <2>1. calls[c] \in Call
    BY <1>0, <1>8 DEF Issue, TypeOK
  <2>2. calls[c].sub \in Users /\ calls[c].role \in Roles /\ calls[c].at \in Nat
    BY <2>1 DEF Call
  <2>3. settings \in Settings
    BY <1>0 DEF TypeOK
  <2>4. /\ settings.secret \in Names
        /\ settings.issuer \in Names
        /\ settings.audience \in SUBSET Names
        /\ settings.ttl \in Nat
    BY <2>3, LoadTyped
  <2>5. clock + settings.ttl \in Nat
    BY <1>0, <2>4
  <2>6. Expiry(clock) \in Nat /\ Unix(settings.ttl) \in Nat
    BY <2>4, <2>5, UnixMonotone DEF Expiry
  <2>7. t \in Token
    BY <1>0, <2>2, <2>4, <2>6 DEF Token
  <2>8. tokens' = tokens \cup {t} /\ calls' = Without(calls, c)
    BY <1>8 DEF Issue
  <2> HIDE DEF t
  <2> QED
    BY <1>0, <1>8, <2>7, <2>8, CallEnds
    DEF Issue, AuthTypes, TypeOK, ScheduleChecked
<1>9. ASSUME NEW c \in Clients, NEW token \in tokens,
             NEW handler \in {"me", "createScan", "getScan"},
             Middleware(c, token, handler)
      PROVE  AuthTypes'
  <2>1. token \in Token
    BY <1>0 DEF TypeOK
  <2>2. [pc |-> handler, sub |-> token.sub, role |-> token.role, at |-> clock]
          \in Call
    BY <1>0, <2>1 DEF Call, Token
  <2> QED
    BY <1>0, <1>9, <2>2, CallTypes
    DEF Middleware, AuthTypes, TypeOK, ScheduleChecked
<1>10. ASSUME NEW c \in Clients, Respond(c) PROVE AuthTypes'
  BY <1>0, <1>10, CallEnds DEF Respond, AuthTypes, TypeOK, ScheduleChecked
<1>11. ASSUME NEW c \in Clients, NEW r \in Runs, createScan(c, r)
       PROVE  AuthTypes'
  <2>1. calls[c] \in Call
    BY <1>0, <1>11 DEF createScan, TypeOK
  <2>2. calls[c].sub \in Users
    BY <2>1 DEF Call
  <2> QED
    BY <1>0, <1>11, <2>2, CallEnds, OwnerTypes
    DEF createScan, AuthTypes, TypeOK, ScheduleChecked
<1>12. ASSUME NEW c \in Clients, NEW r \in Runs, getScan(c, r)
       PROVE  AuthTypes'
  <2>1. calls[c] \in Call
    BY <1>0, <1>12 DEF getScan, TypeOK
  <2>2. [pc |-> "viewing", sub |-> calls[c].sub, role |-> calls[c].role,
         at |-> calls[c].at, run |-> r] \in Call
    BY <2>1 DEF Call
  <2> QED
    BY <1>0, <1>12, <2>2, CallTypes
    DEF getScan, AuthTypes, TypeOK, ScheduleChecked
<1>13. ASSUME NEW r \in Runs, ScheduledScan(r) PROVE AuthTypes'
  <2>1. settings.scanUser \in Users \cup {""} /\ settings.scanUser # ""
    BY <1>0, <1>13, LoadTyped
    DEF ScheduledScan, ScheduleChecked, ScheduleAccepted, TypeOK
  <2> QED
    BY <1>0, <1>13, <2>1, OwnerTypes
    DEF ScheduledScan, AuthTypes, TypeOK, ScheduleChecked
<1>14. CASE UNCHANGED authVars
  BY <1>0, <1>14 DEF authVars, AuthTypes, TypeOK, ScheduleChecked
<1> QED
  BY <1>1, <1>2, <1>3, <1>4, <1>5, <1>6, <1>7, <1>8, <1>9, <1>10, <1>11,
     <1>12, <1>13, <1>14 DEF Next

\* Every variable keeps its type, for every set of environments: a running
\* scheduler has a user, and every expiry is a time.
THEOREM AuthTyped == Spec => []TypeOK
<1>1. AuthTypes => TypeOK
  BY DEF AuthTypes
<1> QED
  BY <1>1, TypesInit, TypesStep, PTL DEF Spec

-----------------------------------------------------------------------------
(* Staleness *)

\* The history is of the past.
HeldPast == \A k \in DOMAIN heldUntil : heldUntil[k] <= clock

\* Who has held a role after t has done so for ever after.
LEMMA HeldStep ==
  ASSUME AuthTypes, HeldPast, [Next]_authVars,
         NEW u, NEW role, NEW t \in Int, HeldAfter(u, role, t)
  PROVE  HeldAfter(u, role, t)'
<1> DEFINE k == <<u, role>>
<1>0. /\ clock \in Nat
      /\ DOMAIN users \subseteq Users
      /\ heldUntil \in [DOMAIN heldUntil -> Nat]
  BY DEF AuthTypes, TypeOK
<1>1. clock > t
  BY <1>0 DEF HeldAfter, HeldPast
<1>2. CASE Tick
  BY <1>0, <1>2 DEF Tick, HeldAfter, Holds
<1>3. ASSUME NEW v, NEW table, Edit(v, table),
             \A w \in DOMAIN users \ {v} : w \in DOMAIN table
                                           /\ table[w] = users[w]
      PROVE  HeldAfter(u, role, t)'
  <2>1. CASE u = v /\ Holds(u, role)
    <3>1. heldUntil' = With(heldUntil, k, clock)
      BY <1>3, <2>1 DEF Edit, Holds
    <3>2. k \in DOMAIN heldUntil' /\ heldUntil'[k] = clock
      BY <3>1 DEF With
    <3> QED
      BY <1>1, <3>2 DEF HeldAfter
  <2>2. CASE u # v /\ Holds(u, role)
    <3>1. Holds(u, role)' /\ clock' = clock
      BY <1>3, <2>2 DEF Edit, Holds
    <3> QED
      BY <1>1, <3>1 DEF HeldAfter
  <2>3. CASE k \in DOMAIN heldUntil /\ heldUntil[k] > t
    <3>1. k \in DOMAIN heldUntil' /\ heldUntil'[k] \in {clock, heldUntil[k]}
      BY <1>3, <2>3 DEF Edit, With
    <3> QED
      BY <1>1, <2>3, <3>1 DEF HeldAfter
  <2> QED
    BY <2>1, <2>2, <2>3 DEF HeldAfter
<1>4. ASSUME NEW v \in Users, NEW account \in Accounts, NEW r \in Roles,
             InsertUser(v, account, r)
      PROVE  HeldAfter(u, role, t)'
  BY <1>3, <1>4 DEF InsertUser, With
<1>5. ASSUME NEW v \in Users, NEW r \in Roles, NEW enabled \in BOOLEAN,
             UpdateUser(v, r, enabled)
      PROVE  HeldAfter(u, role, t)'
  BY <1>3, <1>5 DEF UpdateUser
<1>6. ASSUME NEW v \in Users, DeleteUser(v) PROVE HeldAfter(u, role, t)'
  BY <1>3, <1>6 DEF DeleteUser, Without
<1>7. CASE UNCHANGED <<clock, users, heldUntil>>
  BY <1>7 DEF HeldAfter, Holds
<1> QED
  BY <1>2, <1>4, <1>5, <1>6, <1>7
  DEF Next, Boot, Stop, LookUp, Issue, Middleware, Respond, createScan,
      getScan, ScheduledScan, authVars

LEMMA HeldEarlier ==
  ASSUME TypeOK, NEW u, NEW role, NEW t \in Int, NEW s \in Int, s <= t,
         HeldAfter(u, role, t)
  PROVE  HeldAfter(u, role, s)
BY DEF HeldAfter, TypeOK

LEMMA HeldPastStep ==
  ASSUME AuthTypes, HeldPast, [Next]_authVars
  PROVE  HeldPast'
<1>0. clock \in Nat /\ heldUntil \in [DOMAIN heldUntil -> Nat]
  BY DEF AuthTypes, TypeOK
<1>1. CASE Tick
  BY <1>0, <1>1 DEF Tick, HeldPast
<1>2. ASSUME NEW u, NEW table, Edit(u, table) PROVE HeldPast'
  BY <1>0, <1>2 DEF Edit, HeldPast, With
<1>3. CASE UNCHANGED <<clock, heldUntil>>
  BY <1>3 DEF HeldPast
<1> QED
  BY <1>1, <1>2, <1>3
  DEF Next, InsertUser, UpdateUser, DeleteUser, Boot, Stop, LookUp, Issue,
      Middleware, Respond, createScan, getScan, ScheduledScan, authVars

-----------------------------------------------------------------------------
(* The invariant *)

\* A login under way: the row said so when it was read, less than MaxLogin
\* ago.
LoginIsRecent(call) ==
  /\ HeldAfter(call.sub, call.role, call.at - 1)
  /\ call.at <= clock
  /\ clock <= call.at + MaxLogin

\* A token: its login read the row shortly before it was issued, and it
\* expires a lifetime later.
TokenIsRecent(token) ==
  /\ HeldAfter(token.sub, token.role, token.read - 1)
  /\ token.issued <= token.read + MaxLogin
  /\ token.exp <= Unix(token.issued + LongestTTL)

\* A request that was let in.
RequestIsRecent(call) ==
  /\ HeldAfter(call.sub, call.role, call.at - Grace)
  /\ HeldAfter(call.sub, call.role, -1)

LoginsAreRecent ==
  \A c \in DOMAIN calls : calls[c].pc = "issue" => LoginIsRecent(calls[c])
TokensAreRecent == \A token \in tokens : TokenIsRecent(token)
RequestsAreRecent ==
  \A c \in DOMAIN calls : calls[c].pc # "issue" => RequestIsRecent(calls[c])

\* Whoever views a scan has passed the check, and scans do not change hands.
ViewsAreChecked ==
  \A c \in DOMAIN calls : calls[c].pc = "viewing" =>
    calls[c].run \in DOMAIN owner /\ MayRead(calls[c], calls[c].run)

AccessInv ==
  /\ AuthTypes
  /\ HeldPast
  /\ LoginsAreRecent
  /\ TokensAreRecent
  /\ RequestsAreRecent
  /\ ViewsAreChecked
  /\ ScansHaveUsers

LEMMA AccessInit == Init => AccessInv
<1> SUFFICES ASSUME Init PROVE AccessInv
  OBVIOUS
<1>1. AuthTypes
  BY TypesInit
<1> QED
  BY <1>1 DEF Init, AccessInv, HeldPast, LoginsAreRecent, TokensAreRecent,
              RequestsAreRecent, ViewsAreChecked, ScansHaveUsers

\* What a call keeps while it stays as it is.
LEMMA RequestStays ==
  ASSUME AccessInv, [Next]_authVars, NEW call \in Call, RequestIsRecent(call)
  PROVE  RequestIsRecent(call)'
<1>1. call.at \in Nat
  BY DEF Call
<1>2. Grace \in Int
  <2>1. LongestTTL \in Nat /\ MaxLogin \in Nat
    BY AuthAssumption
  <2> QED
    BY <2>1 DEF Grace
<1>3. call.at - Grace \in Int /\ -1 \in Int
  BY <1>1, <1>2
<1>4. HeldAfter(call.sub, call.role, call.at - Grace)'
  BY <1>3, HeldStep DEF AccessInv, RequestIsRecent
<1>5. HeldAfter(call.sub, call.role, -1)'
  BY <1>3, HeldStep DEF AccessInv, RequestIsRecent
<1> QED
  BY <1>4, <1>5 DEF RequestIsRecent

\* A step only ends calls, or it looks up a login, lets in a request or
\* passes the check of getScan.
LEMMA CallStep ==
  ASSUME [Next]_authVars
  PROVE  \/ \A c \in DOMAIN calls' : c \in DOMAIN calls /\ calls'[c] = calls[c]
         \/ \E c \in Clients, account \in Accounts : LookUp(c, account)
         \/ \E c \in Clients, token \in tokens,
               handler \in {"me", "createScan", "getScan"} :
              Middleware(c, token, handler)
         \/ \E c \in Clients, r \in Runs : getScan(c, r)
<1> DEFINE Ends == \A c \in DOMAIN calls' : c \in DOMAIN calls
                                            /\ calls'[c] = calls[c]
<1>1. UNCHANGED calls => Ends
  OBVIOUS
<1>2. Stop => Ends
  BY DEF Stop
<1>3. ASSUME NEW c \in Clients, calls' = Without(calls, c) PROVE Ends
  BY <1>3 DEF Without
<1>4. Tick \/ UNCHANGED authVars => Ends
  BY <1>1 DEF Tick, authVars
<1>5. ASSUME NEW u \in Users, NEW account \in Accounts, NEW role \in Roles,
             InsertUser(u, account, role)
      PROVE  Ends
  BY <1>1, <1>5 DEF InsertUser, Edit
<1>6. ASSUME NEW u \in Users, NEW role \in Roles, NEW enabled \in BOOLEAN,
             UpdateUser(u, role, enabled)
      PROVE  Ends
  BY <1>1, <1>6 DEF UpdateUser, Edit
<1>7. ASSUME NEW u \in Users, DeleteUser(u) PROVE Ends
  BY <1>1, <1>7 DEF DeleteUser, Edit
<1>8. ASSUME NEW env \in Environments, Boot(env) PROVE Ends
  BY <1>1, <1>8 DEF Boot
<1>9. ASSUME NEW c \in Clients, Issue(c) \/ Respond(c) PROVE Ends
  BY <1>3, <1>9 DEF Issue, Respond
<1>10. ASSUME NEW c \in Clients, NEW r \in Runs, createScan(c, r) PROVE Ends
  BY <1>3, <1>10 DEF createScan
<1>11. ASSUME NEW r \in Runs, ScheduledScan(r) PROVE Ends
  BY <1>1, <1>11 DEF ScheduledScan
<1> HIDE DEF Ends
<1>12. \/ Ends
       \/ \E c \in Clients, account \in Accounts : LookUp(c, account)
       \/ \E c \in Clients, token \in tokens,
             handler \in {"me", "createScan", "getScan"} :
            Middleware(c, token, handler)
       \/ \E c \in Clients, r \in Runs : getScan(c, r)
  BY <1>2, <1>4, <1>5, <1>6, <1>7, <1>8, <1>9, <1>10, <1>11 DEF Next
<1> QED
  BY <1>12 DEF Ends

LEMMA LoginsStep ==
  ASSUME AccessInv, [Next]_authVars
  PROVE  LoginsAreRecent'
<1> SUFFICES ASSUME NEW c \in DOMAIN calls', NEW call, call = calls'[c],
                    call.pc = "issue"
             PROVE  LoginIsRecent(call)'
  BY DEF LoginsAreRecent, LoginIsRecent, HeldAfter, Holds
<1>0. /\ TypeOK /\ AuthTypes /\ HeldPast
      /\ clock \in Nat
      /\ calls \in [DOMAIN calls -> Call]
  BY DEF AccessInv, AuthTypes, TypeOK
<1>1. MaxLogin \in Nat
  BY AuthAssumption
<1>2. CASE c \in DOMAIN calls /\ call = calls[c]
  <2>1. LoginIsRecent(call) /\ call.at \in Nat
    BY <1>0, <1>2 DEF AccessInv, LoginsAreRecent, Call
  <2>2. HeldAfter(call.sub, call.role, call.at - 1)'
    BY <1>0, <2>1, HeldStep DEF LoginIsRecent
  <2>3. clock' = clock \/ (clock' = clock + 1 /\ clock < call.at + MaxLogin)
    BY <1>2
    DEF Next, Tick, InsertUser, UpdateUser, DeleteUser, Edit, Boot, Stop,
        LookUp, Issue, Middleware, Respond, createScan, getScan,
        ScheduledScan, authVars
  <2>4. call.at <= clock' /\ clock' <= call.at + MaxLogin
    BY <1>0, <1>1, <2>1, <2>3 DEF LoginIsRecent
  <2> QED
    BY <1>2, <2>2, <2>4 DEF LoginIsRecent
<1>3. CASE ~(c \in DOMAIN calls /\ call = calls[c])
  <2>1. PICK d \in Clients, account \in Accounts : LookUp(d, account)
    <3>1. ASSUME NEW d \in Clients, NEW token \in tokens,
                 NEW handler \in {"me", "createScan", "getScan"},
                 Middleware(d, token, handler)
          PROVE  FALSE
      <4>1. calls' = With(calls, d, [pc |-> handler, sub |-> token.sub,
                                     role |-> token.role, at |-> clock])
        BY <3>1 DEF Middleware
      <4> QED
        BY <1>3, <4>1 DEF With
    <3>2. ASSUME NEW d \in Clients, NEW r \in Runs, getScan(d, r) PROVE FALSE
      <4>1. calls' = With(calls, d,
              [pc |-> "viewing", sub |-> calls[d].sub, role |-> calls[d].role,
               at |-> calls[d].at, run |-> r])
        BY <3>2 DEF getScan
      <4> QED
        BY <1>3, <4>1 DEF With
    <3> QED
      BY <1>3, <3>1, <3>2, CallStep
  <2>2. PICK u \in DOMAIN users :
          /\ users[u].enabled
          /\ calls' = With(calls, d, [pc |-> "issue", sub |-> u,
                                      role |-> users[u].role, at |-> clock])
    BY <2>1 DEF LookUp
  <2>3. /\ call.sub = u
        /\ call.role = users[u].role
        /\ call.at = clock
    BY <1>3, <2>2 DEF With
  <2>4. UNCHANGED <<clock, users, heldUntil>>
    BY <2>1 DEF LookUp
  <2>5. HeldAfter(u, users[u].role, clock - 1)
    BY <1>0, <2>2 DEF HeldAfter, Holds
  <2>6. HeldAfter(u, users[u].role, clock - 1)'
    BY <2>4, <2>5 DEF HeldAfter, Holds
  <2> QED
    BY <1>0, <1>1, <2>3, <2>4, <2>6 DEF LoginIsRecent
<1> QED
  BY <1>2, <1>3

LEMMA TokensStep ==
  ASSUME AccessInv, [Next]_authVars
  PROVE  TokensAreRecent'
<1> SUFFICES ASSUME NEW token \in tokens' PROVE TokenIsRecent(token)'
  BY DEF TokensAreRecent, TokenIsRecent, HeldAfter, Holds, Unix
<1>0. /\ TypeOK /\ AuthTypes /\ HeldPast
      /\ clock \in Nat
      /\ settings \in Settings
      /\ tokens \subseteq Token
      /\ calls \in [DOMAIN calls -> Call]
  BY DEF AccessInv, AuthTypes, TypeOK
<1>1. CASE token \in tokens
  <2>1. TokenIsRecent(token) /\ token.read \in Nat
    BY <1>0, <1>1 DEF AccessInv, TokensAreRecent, Token
  <2>2. HeldAfter(token.sub, token.role, token.read - 1)'
    BY <1>0, <2>1, HeldStep DEF TokenIsRecent
  <2> QED
    BY <2>1, <2>2 DEF TokenIsRecent
<1>2. CASE token \notin tokens
  <2>1. PICK c \in Clients : Issue(c)
    BY <1>2
    DEF Next, Tick, InsertUser, UpdateUser, DeleteUser, Edit, Boot, Stop,
        LookUp, Middleware, Respond, createScan, getScan, ScheduledScan,
        authVars
  <2> DEFINE call == calls[c]
  <2> DEFINE t == [secret |-> settings.secret, iss |-> settings.issuer,
                   aud |-> settings.audience, sub |-> call.sub,
                   role |-> call.role, exp |-> Expiry(clock),
                   read |-> call.at, issued |-> clock,
                   expiresIn |-> Unix(settings.ttl)]
  <2>2. /\ token.sub = call.sub
        /\ token.role = call.role
        /\ token.read = call.at
        /\ token.issued = clock
        /\ token.exp = Expiry(clock)
    <3>1. tokens' = tokens \cup {t}
      BY <2>1 DEF Issue
    <3>2. /\ t.sub = call.sub /\ t.role = call.role /\ t.read = call.at
          /\ t.issued = clock /\ t.exp = Expiry(clock)
      OBVIOUS
    <3> HIDE DEF t
    <3>3. token = t
      BY <1>2, <3>1
    <3> QED
      BY <3>2, <3>3
  <2>3. LoginIsRecent(call) /\ call.at \in Nat
    BY <1>0, <2>1 DEF Issue, AccessInv, LoginsAreRecent, Call
  <2>4. HeldAfter(token.sub, token.role, token.read - 1)'
    BY <1>0, <2>2, <2>3, HeldStep DEF LoginIsRecent
  <2>5. token.issued <= token.read + MaxLogin
    BY <2>2, <2>3 DEF LoginIsRecent
  <2>6. token.exp <= Unix(token.issued + LongestTTL)
    <3>1. settings.ttl \in Nat /\ settings.ttl <= LongestTTL
      BY <1>0, LoadTyped
    <3>2. LongestTTL \in Nat
      BY AuthAssumption
    <3>3. /\ clock + settings.ttl \in Nat
          /\ clock + LongestTTL \in Nat
          /\ clock + settings.ttl <= clock + LongestTTL
      BY <1>0, <3>1, <3>2
    <3>4. Unix(clock + settings.ttl) <= Unix(clock + LongestTTL)
      BY <3>3, UnixMonotone
    <3> QED
      BY <2>2, <3>4 DEF Expiry
  <2> QED
    BY <2>4, <2>5, <2>6 DEF TokenIsRecent
<1> QED
  BY <1>1, <1>2

\* A token that is not yet expired is younger than the longest lifetime.
LEMMA AcceptedIsYoung ==
  ASSUME TypeOK, NEW token \in tokens, TokenIsRecent(token), Verify(token)
  PROVE  clock < token.issued + LongestTTL
<1>1. clock \in Nat /\ token.issued \in Nat /\ token.exp \in Nat
  BY DEF TypeOK, Token
<1>2. LongestTTL \in Nat
  BY AuthAssumption
<1>3. token.issued + LongestTTL \in Nat
  BY <1>1, <1>2
<1> SUFFICES ASSUME token.issued + LongestTTL <= clock PROVE FALSE
  BY <1>1, <1>3
<1>4. /\ Unix(token.issued + LongestTTL) <= Unix(clock)
      /\ Unix(token.issued + LongestTTL) \in Nat
      /\ Unix(clock) \in Nat
  BY <1>1, <1>3, UnixMonotone
<1>5. token.exp > Unix(clock) /\ token.exp <= Unix(token.issued + LongestTTL)
  BY DEF Verify, TokenIsRecent
<1> QED
  BY <1>1, <1>4, <1>5

LEMMA RequestsStep ==
  ASSUME AccessInv, [Next]_authVars
  PROVE  RequestsAreRecent'
<1> SUFFICES ASSUME NEW c \in DOMAIN calls', NEW call, call = calls'[c],
                    call.pc # "issue"
             PROVE  RequestIsRecent(call)'
  BY DEF RequestsAreRecent, RequestIsRecent, HeldAfter, Holds
<1>0. /\ TypeOK /\ AuthTypes /\ HeldPast
      /\ clock \in Nat
      /\ tokens \subseteq Token
      /\ calls \in [DOMAIN calls -> Call]
  BY DEF AccessInv, AuthTypes, TypeOK
<1>1. CASE c \in DOMAIN calls /\ call = calls[c]
  <2>1. RequestIsRecent(call) /\ call \in Call
    BY <1>0, <1>1 DEF AccessInv, RequestsAreRecent
  <2>2. RequestIsRecent(call)'
    BY <2>1, RequestStays
  <2> QED
    BY <1>1, <2>2 DEF RequestIsRecent
<1>2. ASSUME NEW d \in Clients, NEW token \in tokens,
             NEW handler \in {"me", "createScan", "getScan"},
             Middleware(d, token, handler), c = d
      PROVE  RequestIsRecent(call)'
  <2>1. /\ call.sub = token.sub
        /\ call.role = token.role
        /\ call.at = clock
    BY <1>2 DEF Middleware, With
  <2>2. UNCHANGED <<clock, users, heldUntil>>
    BY <1>2 DEF Middleware
  <2>3. TokenIsRecent(token)
    BY DEF AccessInv, TokensAreRecent
  <2>4. clock < token.issued + LongestTTL
    BY <1>0, <1>2, <2>3, AcceptedIsYoung DEF Middleware
  <2>5. token.issued \in Nat /\ token.read \in Nat
    BY <1>0 DEF Token
  <2>6. LongestTTL \in Nat /\ MaxLogin \in Nat
    BY AuthAssumption
  <2>7. /\ token.read - 1 \in Int
        /\ clock - Grace \in Int
        /\ clock - Grace <= token.read - 1
        /\ -1 <= token.read - 1
    BY <1>0, <2>3, <2>4, <2>5, <2>6 DEF TokenIsRecent, Grace
  <2>8. HeldAfter(token.sub, token.role, clock - Grace)
    BY <1>0, <2>3, <2>7, HeldEarlier DEF TokenIsRecent
  <2>9. HeldAfter(token.sub, token.role, -1)
    BY <1>0, <2>3, <2>7, HeldEarlier DEF TokenIsRecent
  <2> QED
    BY <2>1, <2>2, <2>8, <2>9 DEF RequestIsRecent, HeldAfter, Holds
<1>3. ASSUME NEW d \in Clients, NEW r \in Runs, getScan(d, r), c = d
      PROVE  RequestIsRecent(call)'
  <2>1. /\ call.sub = calls[c].sub
        /\ call.role = calls[c].role
        /\ call.at = calls[c].at
    BY <1>3 DEF getScan, With
  <2>2. UNCHANGED <<clock, users, heldUntil>>
    BY <1>3 DEF getScan
  <2>3. RequestIsRecent(calls[c])
    BY <1>3 DEF getScan, AccessInv, RequestsAreRecent
  <2> QED
    BY <2>1, <2>2, <2>3 DEF RequestIsRecent, HeldAfter, Holds
<1>4. CASE ~(c \in DOMAIN calls /\ call = calls[c])
  <2>1. ASSUME NEW d \in Clients, NEW token \in tokens,
               NEW handler \in {"me", "createScan", "getScan"},
               Middleware(d, token, handler)
        PROVE  c = d
    BY <1>4, <2>1 DEF Middleware, With
  <2>2. ASSUME NEW d \in Clients, NEW r \in Runs, getScan(d, r) PROVE c = d
    BY <1>4, <2>2 DEF getScan, With
  <2>3. ASSUME NEW d \in Clients, NEW account \in Accounts, LookUp(d, account)
        PROVE  FALSE
    <3>1. PICK u \in DOMAIN users :
            calls' = With(calls, d, [pc |-> "issue", sub |-> u,
                                     role |-> users[u].role, at |-> clock])
      BY <2>3 DEF LookUp
    <3> QED
      BY <1>4, <3>1 DEF With
  <2> QED
    BY <1>2, <1>3, <1>4, <2>1, <2>2, <2>3, CallStep
<1> QED
  BY <1>1, <1>4

\* A scan keeps its owner; a new one belongs to the schedule's user or to the
\* user of a request that was let in.
LEMMA OwnerStep ==
  ASSUME AccessInv, [Next]_authVars
  PROVE  /\ \A r \in DOMAIN owner : r \in DOMAIN owner' /\ owner'[r] = owner[r]
         /\ \A r \in DOMAIN owner' \ DOMAIN owner :
              \/ owner'[r] = settings.scanUser
              \/ \E c \in DOMAIN calls :
                   calls[c].pc # "issue" /\ owner'[r] = calls[c].sub
<1>1. CASE UNCHANGED owner
  BY <1>1
<1>2. ASSUME NEW c \in Clients, NEW r \in Runs, createScan(c, r)
      PROVE  /\ c \in DOMAIN calls /\ calls[c].pc # "issue"
             /\ r \notin DOMAIN owner
             /\ owner' = With(owner, r, calls[c].sub)
  BY <1>2 DEF createScan, CreateScanRun
<1>3. ASSUME NEW r \in Runs, ScheduledScan(r)
      PROVE  r \notin DOMAIN owner /\ owner' = With(owner, r, settings.scanUser)
  BY <1>3 DEF ScheduledScan, CreateScanRun
<1>4. \/ UNCHANGED owner
      \/ \E c \in Clients, r \in Runs : createScan(c, r)
      \/ \E r \in Runs : ScheduledScan(r)
  BY DEF Next, Tick, InsertUser, UpdateUser, DeleteUser, Edit, Boot, Stop,
         LookUp, Issue, Middleware, Respond, getScan, authVars
<1>5. ASSUME NEW c \in Clients, NEW r \in Runs, createScan(c, r)
      PROVE  /\ \A q \in DOMAIN owner : q \in DOMAIN owner' /\ owner'[q] = owner[q]
             /\ \A q \in DOMAIN owner' \ DOMAIN owner : owner'[q] = calls[c].sub
  <2>1. r \notin DOMAIN owner /\ owner' = With(owner, r, calls[c].sub)
    BY <1>2, <1>5
  <2> QED
    BY <2>1 DEF With
<1>6. ASSUME NEW r \in Runs, ScheduledScan(r)
      PROVE  /\ \A q \in DOMAIN owner : q \in DOMAIN owner' /\ owner'[q] = owner[q]
             /\ \A q \in DOMAIN owner' \ DOMAIN owner :
                  owner'[q] = settings.scanUser
  BY <1>3, <1>6 DEF With
<1> QED
  BY <1>1, <1>2, <1>4, <1>5, <1>6

LEMMA ViewsStep ==
  ASSUME AccessInv, [Next]_authVars
  PROVE  ViewsAreChecked'
<1> SUFFICES ASSUME NEW c \in DOMAIN calls', NEW call, call = calls'[c],
                    call.pc = "viewing"
             PROVE  /\ call.run \in DOMAIN owner'
                    /\ call.role = "admin" \/ owner'[call.run] = call.sub
  BY DEF ViewsAreChecked, MayRead
<1>1. SUFFICES /\ call.run \in DOMAIN owner
               /\ call.role = "admin" \/ owner[call.run] = call.sub
  BY <1>1, OwnerStep
<1>2. ASSUME c \in DOMAIN calls, call = calls[c]
      PROVE  /\ call.run \in DOMAIN owner
             /\ call.role = "admin" \/ owner[call.run] = call.sub
  BY <1>2 DEF AccessInv, ViewsAreChecked, MayRead
<1>3. ASSUME NEW d \in Clients, NEW token \in tokens,
             NEW handler \in {"me", "createScan", "getScan"},
             Middleware(d, token, handler)
      PROVE  c \in DOMAIN calls /\ call = calls[c]
  <2>1. calls' = With(calls, d, [pc |-> handler, sub |-> token.sub,
                                 role |-> token.role, at |-> clock])
    BY <1>3 DEF Middleware
  <2> QED
    BY <2>1 DEF With
<1>4. ASSUME NEW d \in Clients, NEW account \in Accounts, LookUp(d, account)
      PROVE  c \in DOMAIN calls /\ call = calls[c]
  <2>1. PICK u \in DOMAIN users :
          calls' = With(calls, d, [pc |-> "issue", sub |-> u,
                                   role |-> users[u].role, at |-> clock])
    BY <1>4 DEF LookUp
  <2> QED
    BY <2>1 DEF With
<1>5. ASSUME NEW d \in Clients, NEW r \in Runs, getScan(d, r)
      PROVE  /\ call.run \in DOMAIN owner
             /\ call.role = "admin" \/ owner[call.run] = call.sub
  <2>1. CASE c # d
    <3>1. c \in DOMAIN calls /\ call = calls[c]
      BY <1>5, <2>1 DEF getScan, With
    <3> QED
      BY <1>2, <3>1
  <2>2. CASE c = d
    <3>1. call.run = r /\ call.role = calls[d].role /\ call.sub = calls[d].sub
      BY <1>5, <2>2 DEF getScan, With
    <3> QED
      BY <1>5, <3>1 DEF getScan, MayRead
  <2> QED
    BY <2>1, <2>2
<1> QED
  BY <1>2, <1>3, <1>4, <1>5, CallStep

LEMMA ScansStep ==
  ASSUME AccessInv, [Next]_authVars
  PROVE  ScansHaveUsers'
<1> SUFFICES ASSUME NEW r \in DOMAIN owner', NEW u, u = owner'[r]
             PROVE  \/ \E env \in Environments : env.SCHEDULED_SCAN_USER_ID = u
                    \/ \E role \in Roles : HeldAfter(u, role, -1)'
  BY DEF ScansHaveUsers, HeldAfter, Holds
<1>0. AuthTypes /\ HeldPast /\ -1 \in Int
  BY DEF AccessInv
<1>1. CASE r \in DOMAIN owner
  <2>1. u = owner[r]
    BY <1>1, OwnerStep
  <2>2. \/ \E env \in Environments : env.SCHEDULED_SCAN_USER_ID = u
        \/ \E role \in Roles : HeldAfter(u, role, -1)
    BY <1>1, <2>1 DEF AccessInv, ScansHaveUsers
  <2> QED
    BY <1>0, <2>2, HeldStep
<1>2. CASE r \notin DOMAIN owner
  <2>1. CASE u = settings.scanUser
    <3>1. settings \in Settings
      BY <1>0 DEF AuthTypes, TypeOK
    <3> QED
      BY <2>1, <3>1, LoadTyped
  <2>2. ASSUME NEW c \in DOMAIN calls, calls[c].pc # "issue", u = calls[c].sub
        PROVE  \E role \in Roles : HeldAfter(u, role, -1)'
    <3>1. calls[c] \in Call
      BY <1>0 DEF AuthTypes, TypeOK
    <3>2. calls[c].role \in Roles
      BY <3>1 DEF Call
    <3>3. HeldAfter(u, calls[c].role, -1)
      BY <2>2 DEF AccessInv, RequestsAreRecent, RequestIsRecent
    <3>4. ASSUME NEW role \in Roles, role = calls[c].role
          PROVE  HeldAfter(u, role, -1)'
      BY <1>0, <3>3, <3>4, HeldStep
    <3> QED
      BY <3>2, <3>4
  <2> QED
    BY <1>2, <2>1, <2>2, OwnerStep
<1> QED
  BY <1>1, <1>2

LEMMA AccessStep == AccessInv /\ [Next]_authVars => AccessInv'
<1> SUFFICES ASSUME AccessInv, [Next]_authVars PROVE AccessInv'
  OBVIOUS
<1>1. AuthTypes'
  BY TypesStep DEF AccessInv
<1>2. HeldPast'
  BY HeldPastStep DEF AccessInv
<1> QED
  BY <1>1, <1>2, LoginsStep, TokensStep, RequestsStep, ViewsStep, ScansStep
  DEF AccessInv

THEOREM AccessInvariant == Spec => []AccessInv
BY AccessInit, AccessStep, PTL DEF Spec

\* Disabling, demoting or deleting a user takes effect within one token
\* lifetime and one login, for any number of users, tokens, calls and
\* restarts (jwt.go does not look at the users table).
THEOREM AccessAlwaysRecent == Spec => []AccessIsRecent
<1>1. AccessInv => AccessIsRecent
  BY DEF AccessInv, RequestsAreRecent, RequestIsRecent, AccessIsRecent
<1> QED
  BY <1>1, AccessInvariant, PTL

\* getScan shows a scan to its owner or to a user who was an enabled admin
\* within that time.
THEOREM ScansAlwaysRead == Spec => []ScansAreRead
<1>1. AccessInv => ScansAreRead
  <2> SUFFICES ASSUME AccessInv, NEW c \in DOMAIN calls,
                      calls[c].pc = "viewing", owner[calls[c].run] # calls[c].sub
               PROVE  HeldAfter(calls[c].sub, "admin", calls[c].at - Grace)
    BY DEF ScansAreRead
  <2>1. calls[c].role = "admin"
    BY DEF AccessInv, ViewsAreChecked, MayRead
  <2> QED
    BY <2>1 DEF AccessInv, RequestsAreRecent, RequestIsRecent
<1> QED
  BY <1>1, AccessInvariant, PTL

\* Every scan is of the schedule's user or of somebody who has been an enabled
\* user, although scan_runs.user_id is no foreign key.
THEOREM ScansAlwaysHaveUsers == Spec => []ScansHaveUsers
<1>1. AccessInv => ScansHaveUsers
  BY DEF AccessInv
<1> QED
  BY <1>1, AccessInvariant, PTL

-----------------------------------------------------------------------------
(* What a client may rely on *)

\* Each environment whose issuer is one of its audiences; Audience.cfg has one
\* that is not.
EveryIssuerIsAnAudience ==
  \A env \in Environments : Load(env).issuer \in Load(env).audience

LEMMA DivAdd ==
  ASSUME NEW a \in Nat, NEW b \in Nat, NEW s \in Nat \ {0}
  PROVE  (a \div s) + (b \div s) <= (a + b) \div s
<1> DEFINE q == a \div s
           p == b \div s
           t == (a + b) \div s
<1>1. q \in Nat /\ p \in Nat /\ t \in Nat
  OBVIOUS
<1>2. a >= s * q /\ b >= s * p /\ a + b < s * (t + 1)
  OBVIOUS
<1>3. SUFFICES ASSUME t + 1 <= q + p PROVE FALSE
  BY <1>1
<1> HIDE DEF q, p, t
<1>4. s * (t + 1) <= s * (q + p)
  BY <1>1, <1>3
<1>5. s * (q + p) = s * q + s * p
  BY <1>1
<1> QED
  BY <1>1, <1>2, <1>4, <1>5

LEMMA DivBefore ==
  ASSUME NEW a \in Nat, NEW i \in Nat, NEW n \in Nat, NEW s \in Nat \ {0},
         a <= i + (n - 1) * s
  PROVE  a \div s < (i \div s) + n
<1> DEFINE q == i \div s
           p == a \div s
<1>1. q \in Nat /\ p \in Nat
  OBVIOUS
<1>2. a >= s * p /\ i < s * (q + 1)
  OBVIOUS
<1>3. SUFFICES ASSUME q + n <= p PROVE FALSE
  BY <1>1
<1> HIDE DEF q, p
<1>4. s * (q + n) <= s * p
  BY <1>1, <1>3
<1>5. s * (q + n) = s * (q + 1) + (n - 1) * s
  BY <1>1
<1>6. i + (n - 1) * s < s * (q + 1) + (n - 1) * s
  BY <1>1, <1>2
<1> QED
  BY <1>1, <1>2, <1>4, <1>5, <1>6

\* A token names the audience that will be asked for, and its expiry is the
\* truncated sum, at least the sum of what is truncated.
TokensAreGood ==
  \A token \in tokens :
    /\ token.secret # ""
    /\ token.iss \in token.aud
    /\ Unix(token.issued) + token.expiresIn <= token.exp

LEMMA GoodStep ==
  ASSUME EveryIssuerIsAnAudience, TypeOK, TokensAreGood, [Next]_authVars
  PROVE  TokensAreGood'
<1> SUFFICES ASSUME NEW token \in tokens'
             PROVE  /\ token.secret # ""
                    /\ token.iss \in token.aud
                    /\ Unix(token.issued) + token.expiresIn <= token.exp
  BY DEF TokensAreGood, Unix
<1>1. CASE token \in tokens
  BY <1>1 DEF TokensAreGood
<1>2. CASE token \notin tokens
  <2>1. PICK c \in Clients : Issue(c)
    BY <1>2
    DEF Next, Tick, InsertUser, UpdateUser, DeleteUser, Edit, Boot, Stop,
        LookUp, Middleware, Respond, createScan, getScan, ScheduledScan,
        authVars
  <2> DEFINE t == [secret |-> settings.secret, iss |-> settings.issuer,
                   aud |-> settings.audience, sub |-> calls[c].sub,
                   role |-> calls[c].role, exp |-> Expiry(clock),
                   read |-> calls[c].at, issued |-> clock,
                   expiresIn |-> Unix(settings.ttl)]
  <2>2. settings.secret # "" /\ tokens' = tokens \cup {t}
    BY <2>1 DEF Issue
  <2>3. /\ t.secret = settings.secret /\ t.iss = settings.issuer
        /\ t.aud = settings.audience /\ t.exp = Expiry(clock)
        /\ t.issued = clock /\ t.expiresIn = Unix(settings.ttl)
    OBVIOUS
  <2> HIDE DEF t
  <2>4. token = t
    BY <1>2, <2>2
  <2>5. settings.issuer \in settings.audience
    BY DEF TypeOK, Settings, EveryIssuerIsAnAudience
  <2>6. clock \in Nat /\ settings.ttl \in Nat /\ Second \in Nat \ {0}
    <3>1. settings \in Settings /\ clock \in Nat
      BY DEF TypeOK
    <3>2. Second \in Nat \ {0}
      BY AuthAssumption
    <3> QED
      BY <3>1, <3>2, LoadTyped
  <2>7. Unix(clock) + Unix(settings.ttl) <= Expiry(clock)
    BY <2>6, DivAdd DEF Unix, Expiry
  <2> QED
    BY <2>2, <2>3, <2>4, <2>5, <2>7
<1> QED
  BY <1>1, <1>2

\* If every environment's issuer is one of its audiences, a client may use its
\* token for expires_in less one second, through restarts, as long as secret
\* and issuer stay (jwt.go Issue and Verify, router.go requireAuth).
THEOREM FreshTokensAlwaysAccepted ==
  ASSUME EveryIssuerIsAnAudience
  PROVE  Spec => []FreshTokensAreAccepted
<1>1. Init => TokensAreGood
  BY DEF Init, TokensAreGood
<1>2. TypeOK /\ TokensAreGood /\ [Next]_authVars => TokensAreGood'
  BY GoodStep
<1>3. TypeOK /\ TokensAreGood => FreshTokensAreAccepted
  <2> SUFFICES ASSUME TypeOK, TokensAreGood, NEW token \in tokens,
                      token.secret = settings.secret,
                      token.iss = settings.issuer,
                      clock <= token.issued + (token.expiresIn - 1) * Second
               PROVE  Verify(token)
    BY DEF FreshTokensAreAccepted
  <2>1. /\ token.issued \in Nat /\ token.expiresIn \in Nat
        /\ token.exp \in Nat /\ token.role \in Roles /\ clock \in Nat
    BY DEF TypeOK, Token
  <2>2. Second \in Nat \ {0}
    BY AuthAssumption
  <2>3. Unix(clock) < Unix(token.issued) + token.expiresIn
    BY <2>1, <2>2, DivBefore DEF Unix
  <2>4. Unix(clock) \in Nat /\ Unix(token.issued) \in Nat
    BY <2>1, UnixMonotone
  <2>5. Unix(token.issued) + token.expiresIn <= token.exp
    BY DEF TokensAreGood
  <2>6. token.exp > Unix(clock)
    BY <2>1, <2>3, <2>4, <2>5
  <2> QED
    BY <2>1, <2>6 DEF Verify, TokensAreGood
<1> QED
  BY <1>1, <1>2, <1>3, AuthTyped, PTL DEF Spec

=============================================================================
