------------------------------ MODULE Accounts ------------------------------
(* The accounts of the console: app/auth/routes.py, app/auth/services.py, the *)
(* User and PasswordResetToken rows of app/models.py, load_user and the       *)
(* clean-up commands of app/__init__.py and app/encryption.py.                *)
(*                                                                            *)
(* A browser has one request in hand at a time; the requests of several       *)
(* browsers run at once in several processes.  A request loads rows, decides  *)
(* on what it loaded and commits later, and the ORM then writes the columns   *)
(* the request assigned a new value to, over whatever the row holds by then.  *)
(* Whether a password or a code is right is a free choice; a request that is  *)
(* refused, raises or dies before its commit is Abandon.                      *)
EXTENDS Integers, FiniteSets

CONSTANTS
    Users,       \* ids of rows of user; an id is never drawn twice
    Browsers,
    Tokens,      \* ids of rows of password_reset_token
    Nobody, NoToken,
    MaxChanges,  \* how many times a password is set anew, of each account
    MaxSecrets,  \* how many secrets mfa_setup_start draws
    Keeps        \* if a process may die between the commit of mfa_enable and its
                 \* answer: any of these

ASSUME AccountsAssumption ==
    /\ Nobody \notin Users /\ NoToken \notin Tokens
    /\ IsFiniteSet(Browsers)
    /\ MaxChanges \in Nat /\ MaxSecrets \in Nat
    /\ Keeps \subseteq BOOLEAN

VARIABLES
    state,      \* of a user row: "none" yet, "live" or "gone"
    admin,      \* role = ROLE_ADMIN; no request changes a role
    session,    \* user.session_token, as the number of tokens drawn before it
    secret,     \* user.totp_secret, 0 is NULL
    totp,       \* user.totp_enabled
    status,     \* of a token row: "none" yet, "fresh", "used" (used_at is set) or "gone"
    owner,      \* its user_id
    expired,    \* its expires_at has passed
    logged,     \* the cookie's id:session_token, in two parts
    carries,
    challenge,  \* the cookie's _mfa_user_id
    pending,    \* the cookie's _totp_pending, 0 when there is none
    issued,     \* secrets drawn so far
    pc,         \* where a browser's request stands
    who, held,  \* the account and the token it is about
    seen,       \* the two columns of the second factor as it loaded them
    changes,    \* history from here on: passwords set, of each account
    opened,     \* of the login behind a cookie: passwords set and factors
                \* enabled when it was opened and asked for, and if it gave a code
    ons, asked, \* factors enabled, of each account; when the login in hand was asked for
    sets,       \* passwords set with each token
    overlap,    \* and the other requests that held it the first time
    selfMade,   \* administrators made through the setup page
    waiting,    \* and the other requests in it when the first was made
    clash       \* a write fell on factor columns that had changed since they were loaded

rows     == <<state, admin, session>>
factor   == <<secret, totp>>
tokens   == <<status, owner, expired>>
cookies  == <<logged, carries>>
dialogue == <<challenge, pending, issued>>
request  == <<pc, who, held, seen, asked>>
hlogin   == <<changes, opened, ons>>
hcount   == <<sets, overlap, selfMade, waiting>>
vars     == <<rows, factor, tokens, cookies, dialogue, request, hlogin, hcount, clash>>

NoFactor == [secret |-> 0, totp |-> FALSE]
Unasked  == [at |-> 0, ons |-> 0, coded |-> FALSE]

Init ==
    /\ state = [u \in Users |-> "none"] /\ admin = [u \in Users |-> FALSE]
    /\ session = [u \in Users |-> 0]
    /\ secret = [u \in Users |-> 0] /\ totp = [u \in Users |-> FALSE]
    /\ status = [t \in Tokens |-> "none"] /\ expired = [t \in Tokens |-> FALSE]
    /\ owner = [t \in Tokens |-> Nobody]
    /\ logged = [b \in Browsers |-> Nobody] /\ carries = [b \in Browsers |-> 0]
    /\ challenge = [b \in Browsers |-> Nobody] /\ pending = [b \in Browsers |-> 0]
    /\ issued = 0
    /\ pc = [b \in Browsers |-> "idle"] /\ who = [b \in Browsers |-> Nobody]
    /\ held = [b \in Browsers |-> NoToken] /\ seen = [b \in Browsers |-> NoFactor]
    /\ changes = [u \in Users |-> 0] /\ opened = [b \in Browsers |-> Unasked]
    /\ ons = [u \in Users |-> 0] /\ asked = [b \in Browsers |-> 0]
    /\ sets = [t \in Tokens |-> 0] /\ overlap = [t \in Tokens |-> 0]
    /\ selfMade = 0 /\ waiting = 0
    /\ clash = [u \in Users |-> FALSE]

Live(u)     == state[u] = "live"
AdminExists == \E u \in Users : Live(u) /\ admin[u]

(* load_user: the cookie names a row that is there and bears its session_token. *)
Accepted(b) == logged[b] # Nobody /\ Live(logged[b]) /\ session[logged[b]] = carries[b]

Start(b, step, u, t) ==
    /\ pc[b] = "idle"
    /\ pc' = [pc EXCEPT ![b] = step]
    /\ who' = [who EXCEPT ![b] = u]
    /\ held' = [held EXCEPT ![b] = t]

(* The answer: the request forgets everything. *)
Done(b) ==
    /\ pc' = [pc EXCEPT ![b] = "idle"]
    /\ who' = [who EXCEPT ![b] = Nobody]
    /\ held' = [held EXCEPT ![b] = NoToken]
    /\ seen' = [seen EXCEPT ![b] = NoFactor]
    /\ asked' = [asked EXCEPT ![b] = 0]

Abandon(b) ==
    /\ pc[b] # "idle"
    /\ Done(b)
    /\ UNCHANGED <<rows, factor, tokens, cookies, dialogue, hlogin, hcount, clash>>

-----------------------------------------------------------------------------
(* The setup page, the list of users. *)

SetupOpen == ~AdminExists

SetupBegin(b) ==
    /\ SetupOpen
    /\ Start(b, "setup", Nobody, NoToken)
    /\ UNCHANGED <<rows, factor, tokens, cookies, dialogue, seen, asked, hlogin, hcount, clash>>

InSetup == {b \in Browsers : pc[b] = "setup"}

SetupCommit(b, u) ==
    /\ pc[b] = "setup"
    /\ state[u] = "none"
    /\ state' = [state EXCEPT ![u] = "live"]
    /\ admin' = [admin EXCEPT ![u] = TRUE]
    /\ selfMade' = selfMade + 1
    /\ waiting' = IF selfMade = 0 THEN Cardinality(InSetup \ {b}) ELSE waiting
    /\ Done(b)
    /\ UNCHANGED <<session, factor, tokens, cookies, dialogue, hlogin, sets, overlap, clash>>

(* create_user_post reads nothing another request could change meanwhile. *)
CreateUser(b, u, role) ==
    /\ pc[b] = "idle" /\ Accepted(b) /\ admin[logged[b]]
    /\ state[u] = "none"
    /\ state' = [state EXCEPT ![u] = "live"]
    /\ admin' = [admin EXCEPT ![u] = role]
    /\ UNCHANGED <<session, factor, tokens, cookies, dialogue, request, hlogin, hcount, clash>>

\* Mutant: administrators can be deleted too.
DeletableAny(u) == TRUE

Deletable(u) == ~admin[u]

DeleteBegin(b, u) ==
    /\ Accepted(b) /\ admin[logged[b]]
    /\ Live(u) /\ Deletable(u)
    /\ Start(b, "delete", u, NoToken)
    /\ UNCHANGED <<rows, factor, tokens, cookies, dialogue, seen, asked, hlogin, hcount, clash>>

(* The user's tokens go with it, by the ORM's cascade and the foreign key's. *)
DeleteCommit(b) ==
    /\ pc[b] = "delete"
    /\ state' = [state EXCEPT ![who[b]] = "gone"]
    /\ status' = [t \in Tokens |-> IF owner[t] = who[b] THEN "gone" ELSE status[t]]
    /\ Done(b)
    /\ UNCHANGED <<admin, session, factor, owner, expired, cookies, dialogue, hlogin, hcount, clash>>

-----------------------------------------------------------------------------
(* Login, challenge, logout. *)

\* Mutant: the second step is skipped.
NeedsNothing(u) == FALSE

NeedsCode(u) == totp[u]

(* The password was right. *)
LoginBegin(b, u) ==
    /\ AdminExists /\ Live(u) /\ ~NeedsCode(u)
    /\ Start(b, "login", u, NoToken)
    /\ asked' = [asked EXCEPT ![b] = ons[u]]
    /\ UNCHANGED <<rows, factor, tokens, cookies, dialogue, seen, hlogin, hcount, clash>>

AskForCode(b, u) ==
    /\ pc[b] = "idle"
    /\ AdminExists /\ Live(u) /\ NeedsCode(u)
    /\ challenge' = [challenge EXCEPT ![b] = u]
    /\ UNCHANGED <<rows, factor, tokens, cookies, pending, issued, request, hlogin, hcount, clash>>

(* login_user after the commit of last_login_at: the row is loaded again, so  *)
(* the cookie gets the session_token of this moment.                          *)
OpenSession(b, u, coded) ==
    /\ Live(u)
    /\ logged' = [logged EXCEPT ![b] = u]
    /\ carries' = [carries EXCEPT ![b] = session[u]]
    /\ opened' = [opened EXCEPT ![b] = [at |-> changes[u], ons |-> asked[b], coded |-> coded]]
    /\ Done(b)
    /\ UNCHANGED <<rows, factor, tokens, pending, issued, changes, ons, hcount, clash>>

LoginOpen(b) ==
    /\ pc[b] = "login"
    /\ OpenSession(b, who[b], FALSE)
    /\ UNCHANGED challenge

ChallengeDropped(b) ==
    /\ pc[b] = "idle" /\ challenge[b] # Nobody
    /\ ~ (Live(challenge[b]) /\ totp[challenge[b]])
    /\ challenge' = [challenge EXCEPT ![b] = Nobody]
    /\ UNCHANGED <<rows, factor, tokens, cookies, pending, issued, request, hlogin, hcount, clash>>

(* A code of the secret the row holds; there is none when it holds no secret. *)
ChallengeBegin(b) ==
    /\ challenge[b] # Nobody /\ Live(challenge[b])
    /\ totp[challenge[b]] /\ secret[challenge[b]] # 0
    /\ Start(b, "code", challenge[b], NoToken)
    /\ asked' = [asked EXCEPT ![b] = ons[challenge[b]]]
    /\ UNCHANGED <<rows, factor, tokens, cookies, dialogue, seen, hlogin, hcount, clash>>

ChallengeOpen(b) ==
    /\ pc[b] = "code"
    /\ OpenSession(b, who[b], TRUE)
    /\ challenge' = [challenge EXCEPT ![b] = Nobody]

Logout(b) ==
    /\ pc[b] = "idle" /\ logged[b] # Nobody
    /\ logged' = [logged EXCEPT ![b] = Nobody]
    /\ carries' = [carries EXCEPT ![b] = 0]
    /\ opened' = [opened EXCEPT ![b] = Unasked]
    /\ UNCHANGED <<rows, factor, tokens, dialogue, request, changes, ons, hcount, clash>>

-----------------------------------------------------------------------------
(* Password reset. *)

\* Mutant: used_at is not looked at.
Unexpired(t) == status[t] \in {"fresh", "used"} /\ ~expired[t]

Usable(t) == status[t] = "fresh" /\ ~expired[t]

Expire(t) ==
    /\ status[t] = "fresh" /\ ~expired[t]
    /\ expired' = [expired EXCEPT ![t] = TRUE]
    /\ UNCHANGED <<rows, factor, status, owner, cookies, dialogue, request, hlogin, hcount, clash>>

(* purge_expired_reset_tokens, committed on its own. *)
Purge == status' = [t \in Tokens |->
                       IF status[t] = "used" \/ (status[t] = "fresh" /\ expired[t])
                         THEN "gone" ELSE status[t]]

ReapCommand ==
    /\ Purge
    /\ UNCHANGED <<rows, factor, owner, expired, cookies, dialogue, request, hlogin, hcount, clash>>

ForgotPurge(b, u) ==
    /\ AdminExists /\ Live(u)
    /\ Start(b, "forgot", u, NoToken)
    /\ Purge
    /\ UNCHANGED <<rows, factor, owner, expired, cookies, dialogue, seen, asked, hlogin, hcount, clash>>

(* The foreign key holds: the user is still there. *)
ForgotInsert(b, t) ==
    /\ pc[b] = "forgot" /\ Live(who[b])
    /\ status[t] = "none"
    /\ status' = [status EXCEPT ![t] = "fresh"]
    /\ owner' = [owner EXCEPT ![t] = who[b]]
    /\ Done(b)
    /\ UNCHANGED <<rows, factor, expired, cookies, dialogue, hlogin, hcount, clash>>

ResetFind(b, t) ==
    /\ Usable(t)
    /\ Start(b, "reset", owner[t], t)
    /\ UNCHANGED <<rows, factor, tokens, cookies, dialogue, seen, asked, hlogin, hcount, clash>>

Holders(t) == {b \in Browsers : pc[b] = "reset" /\ held[b] = t}

(* The flush finds a row to update; an UPDATE of no row raises, and the       *)
(* transaction with the new password is rolled back (Abandon).                *)
RowThere(t) == status[t] \in {"fresh", "used"}

\* Mutant: it keeps the old one.
SameSession(u) == session[u]

(* set_password draws a new session_token. *)
NewSession(u) == session[u] + 1

(* consume_password_reset_token: one commit, and used_at is not looked at again. *)
ResetCommit(b) ==
    LET u == who[b]
        t == held[b]
    IN  /\ pc[b] = "reset"
        /\ Live(u) /\ RowThere(t)
        /\ changes[u] < MaxChanges
        /\ session' = [session EXCEPT ![u] = NewSession(u)]
        /\ status' = [status EXCEPT ![t] = "used"]
        /\ changes' = [changes EXCEPT ![u] = @ + 1]
        /\ sets' = [sets EXCEPT ![t] = @ + 1]
        /\ overlap' = [overlap EXCEPT ![t] = IF sets[t] = 0 THEN Cardinality(Holders(t) \ {b}) ELSE @]
        /\ Done(b)
        /\ UNCHANGED <<state, admin, factor, owner, expired, cookies, dialogue, opened, ons,
                       selfMade, waiting, clash>>

-----------------------------------------------------------------------------
(* The second factor. *)

FactorOf(u) == [secret |-> secret[u], totp |-> totp[u]]

SetupFactor(b) ==
    /\ pc[b] = "idle" /\ Accepted(b)
    /\ issued < MaxSecrets
    /\ issued' = issued + 1
    /\ pending' = [pending EXCEPT ![b] = issued + 1]
    /\ UNCHANGED <<rows, factor, tokens, cookies, challenge, request, hlogin, hcount, clash>>

LoadFactor(b, step) ==
    /\ Accepted(b)
    /\ Start(b, step, logged[b], NoToken)
    /\ seen' = [seen EXCEPT ![b] = FactorOf(logged[b])]
    /\ UNCHANGED <<rows, factor, tokens, cookies, dialogue, asked, hlogin, hcount, clash>>

EnableBegin(b)  == pending[b] # 0 /\ LoadFactor(b, "enable")
DisableBegin(b) == LoadFactor(b, "disable")

AfterEnable(b) == [secret |-> pending[b], totp |-> TRUE]

\* Mutant: mfa_disable leaves the switch alone.
AfterDisableHalf(b) == [secret |-> 0, totp |-> seen[b].totp]

AfterDisable(b) == [secret |-> 0, totp |-> FALSE]

(* The columns with a new value go to the row, the others keep what it has; a *)
(* secret is encrypted to another text each time.                             *)
WriteFactor(b, new) ==
    LET u == who[b]
        on == IF new.totp # seen[b].totp THEN new.totp ELSE totp[u]
    IN  /\ Live(u)
        /\ secret' = [secret EXCEPT ![u] = IF new.secret # 0 \/ seen[b].secret # 0 THEN new.secret ELSE @]
        /\ totp' = [totp EXCEPT ![u] = on]
        /\ ons' = [ons EXCEPT ![u] = IF on /\ ~totp[u] THEN @ + 1 ELSE @]
        /\ clash' = [clash EXCEPT ![u] = @ \/ seen[b] # FactorOf(u)]
        /\ Done(b)
        /\ UNCHANGED <<rows, tokens, cookies, challenge, issued, changes, opened, hcount>>

(* The answer takes the secret out of the cookie; a process that dies between *)
(* its commit and its answer leaves it there.                                 *)
EnableCommit(b) ==
    /\ pc[b] = "enable"
    /\ WriteFactor(b, AfterEnable(b))
    /\ \E kept \in Keeps : pending' = IF kept THEN pending ELSE [pending EXCEPT ![b] = 0]

DisableCommit(b) ==
    /\ pc[b] = "disable"
    /\ WriteFactor(b, AfterDisable(b))
    /\ UNCHANGED pending

(* reset_encrypted_secrets: one UPDATE of the rows that hold a secret. *)
ResetFactors ==
    /\ secret' = [u \in Users |-> 0]
    /\ totp' = [u \in Users |-> secret[u] = 0 /\ totp[u]]
    /\ clash' = [u \in Users |-> secret[u] = 0 /\ clash[u]]
    /\ UNCHANGED <<rows, tokens, cookies, dialogue, request, hlogin, hcount>>

-----------------------------------------------------------------------------
Request(b) ==
    \/ Abandon(b) \/ SetupBegin(b) \/ LoginOpen(b) \/ ChallengeDropped(b)
    \/ ChallengeBegin(b) \/ ChallengeOpen(b) \/ Logout(b) \/ DeleteCommit(b)
    \/ ResetCommit(b) \/ SetupFactor(b) \/ EnableBegin(b) \/ DisableBegin(b)
    \/ EnableCommit(b) \/ DisableCommit(b)
    \/ \E u \in Users :
         \/ SetupCommit(b, u) \/ DeleteBegin(b, u) \/ LoginBegin(b, u)
         \/ AskForCode(b, u) \/ ForgotPurge(b, u)
         \/ \E role \in BOOLEAN : CreateUser(b, u, role)
    \/ \E t \in Tokens : ForgotInsert(b, t) \/ ResetFind(b, t)

Next ==
    \/ \E b \in Browsers : Request(b)
    \/ \E t \in Tokens : Expire(t)
    \/ ReapCommand \/ ResetFactors

Spec == Init /\ [][Next]_vars

-----------------------------------------------------------------------------
Steps == {"idle", "setup", "delete", "login", "code", "forgot", "reset", "enable", "disable"}
Factors == [secret : 0..MaxSecrets, totp : BOOLEAN]

TypeOK ==
    /\ state \in [Users -> {"none", "live", "gone"}] /\ admin \in [Users -> BOOLEAN]
    /\ session \in [Users -> Nat]
    /\ secret \in [Users -> 0..MaxSecrets] /\ totp \in [Users -> BOOLEAN]
    /\ status \in [Tokens -> {"none", "fresh", "used", "gone"}]
    /\ owner \in [Tokens -> Users \cup {Nobody}] /\ expired \in [Tokens -> BOOLEAN]
    /\ logged \in [Browsers -> Users \cup {Nobody}] /\ carries \in [Browsers -> Nat]
    /\ challenge \in [Browsers -> Users \cup {Nobody}]
    /\ pending \in [Browsers -> 0..MaxSecrets] /\ issued \in 0..MaxSecrets
    /\ pc \in [Browsers -> Steps]
    /\ who \in [Browsers -> Users \cup {Nobody}] /\ held \in [Browsers -> Tokens \cup {NoToken}]
    /\ seen \in [Browsers -> Factors]
    /\ changes \in [Users -> 0..MaxChanges]
    /\ opened \in [Browsers -> [at : Nat, ons : Nat, coded : BOOLEAN]]
    /\ ons \in [Users -> Nat] /\ asked \in [Browsers -> Nat]
    /\ sets \in [Tokens -> Nat] /\ overlap \in [Tokens -> Nat]
    /\ selfMade \in Nat /\ waiting \in Nat
    /\ clash \in [Users -> BOOLEAN]

(* A token sets one password ("de un solo uso", README.md:345).  The code     *)
(* does not hold to it: two requests find the token unused and both commit.   *)
TokenOnce == \A t \in Tokens : sets[t] <= 1

(* What does hold of find_usable_password_reset_token and                     *)
(* consume_password_reset_token: a token sets a password at most once for     *)
(* each request that held it when it was used for the first time; whoever     *)
(* comes later, or comes back, is refused.                                    *)
TokenBudget == \A t \in Tokens : sets[t] <= 1 + overlap[t]

(* The setup page makes an administrator for each request that was past       *)
(* admin_exists when the first one was made, and never again: no deletion     *)
(* takes the console back to a state without administrators.                  *)
SetupBudget == selfMade <= 1 + waiting

(* set_password ends every session: a cookie that is accepted was opened      *)
(* after the account's last new password.                                     *)
AcceptedSinceChange ==
    \A b \in Browsers : Accepted(b) => opened[b].at = changes[logged[b]]

(* A session that gave no code belongs to an account without second factor,   *)
(* or the factor was enabled after its login was asked for.                   *)
NoCodeNoFactor ==
    \A b \in Browsers :
        (Accepted(b) /\ ~opened[b].coded /\ totp[logged[b]])
          => ons[logged[b]] > opened[b].ons

(* totp_enabled and totp_secret agree, whatever the order of enabling,        *)
(* disabling and the clean-up, as long as no write fell on columns that had   *)
(* changed since it loaded them.                                              *)
FactorWhole == \A u \in Users : ~clash[u] => (totp[u] <=> secret[u] # 0)

(* A password changes in the commit that marks a token of that account used,  *)
(* and never with a token whose row was purged or deleted meanwhile.          *)
PasswordMovesWithToken ==
    [][\A u \in Users :
          session'[u] # session[u] =>
            \E t \in Tokens : /\ owner[t] = u
                              /\ status[t] \in {"fresh", "used"}
                              /\ status'[t] = "used"]_vars
=============================================================================
