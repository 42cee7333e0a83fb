--------------------------- MODULE AccountsProofs ---------------------------
(***************************************************************************)
(* Proofs about Accounts, for every set of users, browsers and tokens and  *)
(* every number of passwords and secrets.                                  *)
(***************************************************************************)
EXTENDS Accounts, FiniteSetTheorems, TLAPS

USE AccountsAssumption

\* What a request does to the locals of all of them.
LEMMA StartTyped ==
  ASSUME TypeOK, NEW b \in Browsers, NEW s \in Steps, NEW u \in Users \cup {Nobody},
         NEW t \in Tokens \cup {NoToken}, Start(b, s, u, t)
  PROVE  /\ pc' \in [Browsers -> Steps] /\ who' \in [Browsers -> Users \cup {Nobody}]
         /\ held' \in [Browsers -> Tokens \cup {NoToken}]
BY DEF Start, TypeOK

LEMMA DoneTyped ==
  ASSUME TypeOK, NEW b \in Browsers, Done(b)
  PROVE  /\ pc' \in [Browsers -> Steps] /\ who' \in [Browsers -> Users \cup {Nobody}]
         /\ held' \in [Browsers -> Tokens \cup {NoToken}] /\ seen' \in [Browsers -> Factors]
         /\ asked' \in [Browsers -> Nat]
<1>1. "idle" \in Steps /\ NoFactor \in Factors
  BY DEF Steps, Factors, NoFactor
<1> QED BY <1>1 DEF Done, TypeOK

\* A count of browsers is a number.
LEMMA BrowsersCounted ==
  \A S \in SUBSET Browsers : IsFiniteSet(S) /\ Cardinality(S) \in Nat
BY FS_Subset, FS_CardinalityType

-----------------------------------------------------------------------------
(* Types, and what a request holds at each of its steps.                    *)

\* A request past its first query is about an account, a reset about a token
\* and the account it belongs to.
InHand ==
  /\ \A b \in Browsers : pc[b] \in Steps \ {"idle", "setup"} => who[b] \in Users
  /\ \A b \in Browsers : pc[b] = "reset" => /\ held[b] \in Tokens
                                            /\ status[held[b]] # "none"
                                            /\ who[b] = owner[held[b]]
  /\ \A b \in Browsers : pc[b] = "enable" => pending[b] # 0

\* A token row that was inserted belongs to an account, any other to none.
Owned ==
  /\ \A t \in Tokens : status[t] = "none" <=> owner[t] = Nobody

Typed == TypeOK /\ InHand /\ Owned

LEMMA TypeInit == Init => Typed
BY DEF Init, Typed, TypeOK, InHand, Owned, Steps, Factors, NoFactor, Unasked

\* Every action of the model keeps the variables in their types.
LEMMA TypeStep == Typed /\ [Next]_vars => TypeOK'
<1> SUFFICES ASSUME Typed, [Next]_vars PROVE TypeOK'
  OBVIOUS
<1> USE DEF Typed, rows, factor, tokens, cookies, dialogue, request, hlogin, hcount
<1>1. ASSUME NEW b \in Browsers, Abandon(b) PROVE TypeOK'
  <2>1. Done(b) /\ UNCHANGED <<rows, factor, tokens, cookies, dialogue, hlogin, hcount, clash>>
    BY <1>1 DEF Abandon
  <2> QED BY <2>1, DoneTyped DEF TypeOK
<1>2. ASSUME NEW b \in Browsers, SetupBegin(b) PROVE TypeOK'
  <2>1. Start(b, "setup", Nobody, NoToken)
    BY <1>2 DEF SetupBegin
  <2>2. pc' \in [Browsers -> Steps] /\ who' \in [Browsers -> Users \cup {Nobody}]
        /\ held' \in [Browsers -> Tokens \cup {NoToken}]
    BY <2>1, StartTyped DEF Steps
  <2> QED BY <1>2, <2>2 DEF SetupBegin, TypeOK
<1>3. ASSUME NEW b \in Browsers, NEW u \in Users, NEW coded \in BOOLEAN, OpenSession(b, u, coded),
             challenge' \in [Browsers -> Users \cup {Nobody}]
      PROVE  TypeOK'
  <2>1. /\ logged' \in [Browsers -> Users \cup {Nobody}] /\ carries' \in [Browsers -> Nat]
        /\ opened' \in [Browsers -> [at : Nat, ons : Nat, coded : BOOLEAN]]
    <3>1. [at |-> changes[u], ons |-> asked[b], coded |-> coded] \in [at : Nat, ons : Nat, coded : BOOLEAN]
      BY DEF TypeOK
    <3> QED BY <1>3, <3>1 DEF OpenSession, TypeOK
  <2>2. Done(b)
    BY <1>3 DEF OpenSession
  <2> QED BY <1>3, <2>1, <2>2, DoneTyped DEF OpenSession, TypeOK
<1>4. ASSUME NEW b \in Browsers, LoginOpen(b) PROVE TypeOK'
  <2>1. who[b] \in Users /\ OpenSession(b, who[b], FALSE) /\ challenge' = challenge
    BY <1>4 DEF LoginOpen, InHand, Steps
  <2> QED BY <1>3, <2>1 DEF TypeOK
<1>5. ASSUME NEW b \in Browsers, ChallengeOpen(b) PROVE TypeOK'
  <2>1. who[b] \in Users /\ OpenSession(b, who[b], TRUE) /\ challenge' = [challenge EXCEPT ![b] = Nobody]
    BY <1>5 DEF ChallengeOpen, InHand, Steps
  <2> QED BY <1>3, <2>1 DEF TypeOK
<1>6. ASSUME NEW b \in Browsers, ChallengeDropped(b) PROVE TypeOK'
  BY <1>6 DEF ChallengeDropped, TypeOK
<1>7. ASSUME NEW b \in Browsers, ChallengeBegin(b) PROVE TypeOK'
  <2>1. challenge[b] \in Users /\ Start(b, "code", challenge[b], NoToken)
    BY <1>7 DEF ChallengeBegin, TypeOK
  <2>2. pc' \in [Browsers -> Steps] /\ who' \in [Browsers -> Users \cup {Nobody}]
        /\ held' \in [Browsers -> Tokens \cup {NoToken}]
    BY <2>1, StartTyped DEF Steps
  <2>3. asked' \in [Browsers -> Nat]
    BY <1>7, <2>1 DEF ChallengeBegin, TypeOK
  <2> QED BY <1>7, <2>2, <2>3 DEF ChallengeBegin, TypeOK
<1>8. ASSUME NEW b \in Browsers, Logout(b) PROVE TypeOK'
  BY <1>8 DEF Logout, Unasked, TypeOK
<1>9. ASSUME NEW b \in Browsers, DeleteCommit(b) PROVE TypeOK'
  <2>1. /\ state' \in [Users -> {"none", "live", "gone"}]
        /\ status' \in [Tokens -> {"none", "fresh", "used", "gone"}]
    BY <1>9 DEF DeleteCommit, TypeOK
  <2>2. Done(b)
    BY <1>9 DEF DeleteCommit
  <2> QED BY <1>9, <2>1, <2>2, DoneTyped DEF DeleteCommit, TypeOK
<1>10. ASSUME NEW b \in Browsers, ResetCommit(b) PROVE TypeOK'
  <2>1. who[b] \in Users /\ held[b] \in Tokens
    BY <1>10 DEF ResetCommit, InHand, Steps
  <2>2. session' \in [Users -> Nat] /\ changes' \in [Users -> 0..MaxChanges]
    BY <1>10, <2>1 DEF ResetCommit, NewSession, TypeOK
  <2>3. status' \in [Tokens -> {"none", "fresh", "used", "gone"}] /\ sets' \in [Tokens -> Nat]
    BY <1>10, <2>1 DEF ResetCommit, TypeOK
  <2>4. overlap' \in [Tokens -> Nat]
    <3>1. Cardinality(Holders(held[b]) \ {b}) \in Nat
      BY BrowsersCounted DEF Holders
    <3> QED BY <1>10, <2>1, <3>1 DEF ResetCommit, TypeOK
  <2>5. Done(b)
    BY <1>10 DEF ResetCommit
  <2> QED BY <1>10, <2>2, <2>3, <2>4, <2>5, DoneTyped DEF ResetCommit, TypeOK
<1>11. ASSUME NEW b \in Browsers, SetupFactor(b) PROVE TypeOK'
  <2>1. issued + 1 \in 0..MaxSecrets
    BY <1>11 DEF SetupFactor, TypeOK
  <2> QED BY <1>11, <2>1 DEF SetupFactor, TypeOK
<1>12. ASSUME NEW b \in Browsers, EnableBegin(b) \/ DisableBegin(b) PROVE TypeOK'
  <2>1. PICK step \in {"enable", "disable"} : LoadFactor(b, step)
    BY <1>12 DEF EnableBegin, DisableBegin
  <2>2. logged[b] \in Users /\ Start(b, step, logged[b], NoToken)
    BY <2>1 DEF LoadFactor, Accepted, TypeOK
  <2>3. pc' \in [Browsers -> Steps] /\ who' \in [Browsers -> Users \cup {Nobody}]
        /\ held' \in [Browsers -> Tokens \cup {NoToken}]
    BY <2>2, StartTyped DEF Steps
  <2>4. FactorOf(logged[b]) \in Factors
    BY <2>2 DEF FactorOf, Factors, TypeOK
  <2>5. seen' \in [Browsers -> Factors]
    BY <2>1, <2>4 DEF LoadFactor, TypeOK
  <2> QED BY <2>1, <2>3, <2>5 DEF LoadFactor, TypeOK
<1>13. ASSUME NEW b \in Browsers, NEW new \in Factors, WriteFactor(b, new), who[b] \in Users,
              pending' \in [Browsers -> 0..MaxSecrets]
       PROVE  TypeOK'
  <2>1. new.secret \in 0..MaxSecrets /\ new.totp \in BOOLEAN
    BY DEF Factors
  <2>2. secret' \in [Users -> 0..MaxSecrets]
    BY <1>13, <2>1 DEF WriteFactor, TypeOK
  <2>3. totp' \in [Users -> BOOLEAN]
    BY <1>13, <2>1 DEF WriteFactor, TypeOK
  <2>4. ons' \in [Users -> Nat]
    BY <1>13 DEF WriteFactor, TypeOK
  <2>5. clash' \in [Users -> BOOLEAN]
    BY <1>13 DEF WriteFactor, TypeOK
  <2>6. Done(b)
    BY <1>13 DEF WriteFactor
  <2>7. UNCHANGED <<rows, tokens, cookies, challenge, issued, changes, opened, hcount>>
    BY <1>13 DEF WriteFactor
  <2> QED BY <1>13, <2>2, <2>3, <2>4, <2>5, <2>6, <2>7, DoneTyped DEF TypeOK
<1>14. ASSUME NEW b \in Browsers, EnableCommit(b) PROVE TypeOK'
  <2>1. AfterEnable(b) \in Factors /\ who[b] \in Users
    BY <1>14 DEF EnableCommit, AfterEnable, Factors, TypeOK, InHand, Steps
  <2>2. pending' \in [Browsers -> 0..MaxSecrets]
    <3>1. pending' = pending \/ pending' = [pending EXCEPT ![b] = 0]
      BY <1>14 DEF EnableCommit
    <3>2. 0 \in 0..MaxSecrets
      BY AccountsAssumption
    <3> QED BY <3>1, <3>2 DEF TypeOK
  <2> QED BY <1>13, <1>14, <2>1, <2>2 DEF EnableCommit
<1>15. ASSUME NEW b \in Browsers, DisableCommit(b) PROVE TypeOK'
  <2>1. AfterDisable(b) \in Factors /\ who[b] \in Users
    BY <1>15 DEF DisableCommit, AfterDisable, Factors, InHand, Steps
  <2>2. pending' \in [Browsers -> 0..MaxSecrets]
    BY <1>15 DEF DisableCommit, TypeOK
  <2> QED BY <1>13, <1>15, <2>1, <2>2 DEF DisableCommit
<1>16. ASSUME NEW b \in Browsers, NEW u \in Users, SetupCommit(b, u) PROVE TypeOK'
  <2>1. state' \in [Users -> {"none", "live", "gone"}] /\ admin' \in [Users -> BOOLEAN]
    BY <1>16 DEF SetupCommit, TypeOK
  <2>2. selfMade' \in Nat /\ waiting' \in Nat
    BY <1>16, BrowsersCounted DEF SetupCommit, InSetup, TypeOK
  <2>3. Done(b)
    BY <1>16 DEF SetupCommit
  <2> QED BY <1>16, <2>1, <2>2, <2>3, DoneTyped DEF SetupCommit, TypeOK
<1>17. ASSUME NEW b \in Browsers, NEW u \in Users, DeleteBegin(b, u) PROVE TypeOK'
  <2>1. Start(b, "delete", u, NoToken)
    BY <1>17 DEF DeleteBegin
  <2>2. pc' \in [Browsers -> Steps] /\ who' \in [Browsers -> Users \cup {Nobody}]
        /\ held' \in [Browsers -> Tokens \cup {NoToken}]
    BY <2>1, StartTyped DEF Steps
  <2> QED BY <1>17, <2>2 DEF DeleteBegin, TypeOK
<1>18. ASSUME NEW b \in Browsers, NEW u \in Users, LoginBegin(b, u) PROVE TypeOK'
  <2>1. Start(b, "login", u, NoToken)
    BY <1>18 DEF LoginBegin
  <2>2. pc' \in [Browsers -> Steps] /\ who' \in [Browsers -> Users \cup {Nobody}]
        /\ held' \in [Browsers -> Tokens \cup {NoToken}]
    BY <2>1, StartTyped DEF Steps
  <2>3. asked' \in [Browsers -> Nat]
    BY <1>18 DEF LoginBegin, TypeOK
  <2> QED BY <1>18, <2>2, <2>3 DEF LoginBegin, TypeOK
<1>19. ASSUME NEW b \in Browsers, NEW u \in Users, AskForCode(b, u) PROVE TypeOK'
  BY <1>19 DEF AskForCode, TypeOK
<1>20. ASSUME NEW b \in Browsers, NEW u \in Users, ForgotPurge(b, u) PROVE TypeOK'
  <2>1. Start(b, "forgot", u, NoToken)
    BY <1>20 DEF ForgotPurge
  <2>2. pc' \in [Browsers -> Steps] /\ who' \in [Browsers -> Users \cup {Nobody}]
        /\ held' \in [Browsers -> Tokens \cup {NoToken}]
    BY <2>1, StartTyped DEF Steps
  <2>3. status' \in [Tokens -> {"none", "fresh", "used", "gone"}]
    BY <1>20 DEF ForgotPurge, Purge, TypeOK
  <2> QED BY <1>20, <2>2, <2>3 DEF ForgotPurge, TypeOK
<1>21. ASSUME NEW b \in Browsers, NEW u \in Users, NEW role \in BOOLEAN, CreateUser(b, u, role)
       PROVE  TypeOK'
  BY <1>21 DEF CreateUser, TypeOK
<1>22. ASSUME NEW b \in Browsers, NEW t \in Tokens, ForgotInsert(b, t) PROVE TypeOK'
  <2>1. /\ status' \in [Tokens -> {"none", "fresh", "used", "gone"}]
        /\ owner' \in [Tokens -> Users \cup {Nobody}]
    BY <1>22 DEF ForgotInsert, TypeOK
  <2>2. Done(b)
    BY <1>22 DEF ForgotInsert
  <2> QED BY <1>22, <2>1, <2>2, DoneTyped DEF ForgotInsert, TypeOK
<1>23. ASSUME NEW b \in Browsers, NEW t \in Tokens, ResetFind(b, t) PROVE TypeOK'
  <2>1. owner[t] \in Users \cup {Nobody} /\ Start(b, "reset", owner[t], t)
    BY <1>23 DEF ResetFind, TypeOK
  <2>2. pc' \in [Browsers -> Steps] /\ who' \in [Browsers -> Users \cup {Nobody}]
        /\ held' \in [Browsers -> Tokens \cup {NoToken}]
    BY <2>1, StartTyped DEF Steps
  <2> QED BY <1>23, <2>2 DEF ResetFind, TypeOK
<1>24. ASSUME NEW t \in Tokens, Expire(t) PROVE TypeOK'
  BY <1>24 DEF Expire, TypeOK
<1>25. CASE ReapCommand
  <2>1. status' \in [Tokens -> {"none", "fresh", "used", "gone"}]
    BY <1>25 DEF ReapCommand, Purge, TypeOK
  <2> QED BY <1>25, <2>1 DEF ReapCommand, TypeOK
<1>26. CASE ResetFactors
  <2>1. /\ secret' \in [Users -> 0..MaxSecrets] /\ totp' \in [Users -> BOOLEAN]
        /\ clash' \in [Users -> BOOLEAN]
    BY <1>26 DEF ResetFactors, TypeOK
  <2> QED BY <1>26, <2>1 DEF ResetFactors, TypeOK
<1>27. CASE UNCHANGED vars
  BY <1>27 DEF vars, TypeOK
<1> QED BY <1>1, <1>2, <1>4, <1>5, <1>6, <1>7, <1>8, <1>9, <1>10, <1>11, <1>12, <1>14, <1>15,
           <1>16, <1>17, <1>18, <1>19, <1>20, <1>21, <1>22, <1>23, <1>24, <1>25, <1>26, <1>27, Zenon
        DEF Next, Request

\* An inserted token row stays one, of the same account.
TokensKept == \A t \in Tokens : status[t] # "none" => status'[t] # "none" /\ owner'[t] = owner[t]

\* Purging, expiring, using and deleting leave token rows where they are; only
\* forgot_password_post adds one.
LEMMA OwnedStep == Typed /\ [Next]_vars => Owned' /\ TokensKept
<1> SUFFICES ASSUME Typed, [Next]_vars PROVE Owned' /\ TokensKept
  OBVIOUS
<1> USE DEF Typed, rows, factor, tokens, cookies, dialogue, request, hlogin, hcount, Owned, TokensKept
<1>0. ASSUME UNCHANGED <<status, owner>> PROVE Owned' /\ TokensKept
  BY <1>0
<1>1. ASSUME NEW b \in Browsers, DeleteCommit(b) PROVE Owned' /\ TokensKept
  <2>1. owner' = owner /\ status' = [t \in Tokens |-> IF owner[t] = who[b] THEN "gone" ELSE status[t]]
    BY <1>1 DEF DeleteCommit
  <2>2. who[b] # Nobody
    BY <1>1 DEF DeleteCommit, InHand, Steps
  <2> QED BY <2>1, <2>2
<1>2. ASSUME NEW b \in Browsers, ResetCommit(b) PROVE Owned' /\ TokensKept
  <2>1. held[b] \in Tokens /\ status[held[b]] # "none"
    BY <1>2 DEF ResetCommit, InHand
  <2>2. owner' = owner /\ status' = [status EXCEPT ![held[b]] = "used"]
    BY <1>2 DEF ResetCommit
  <2> QED BY <2>1, <2>2 DEF TypeOK
<1>3. ASSUME Purge, owner' = owner PROVE Owned' /\ TokensKept
  BY <1>3 DEF Purge
<1>4. ASSUME NEW b \in Browsers, NEW t \in Tokens, ForgotInsert(b, t) PROVE Owned' /\ TokensKept
  <2>1. who[b] \in Users /\ status[t] = "none"
    BY <1>4 DEF ForgotInsert, InHand, Steps
  <2>2. status' = [status EXCEPT ![t] = "fresh"] /\ owner' = [owner EXCEPT ![t] = who[b]]
    BY <1>4 DEF ForgotInsert
  <2> QED BY <2>1, <2>2 DEF TypeOK
<1>5. ASSUME NEW b \in Browsers,
             \/ Abandon(b) \/ SetupBegin(b) \/ LoginOpen(b) \/ ChallengeDropped(b)
             \/ ChallengeBegin(b) \/ ChallengeOpen(b) \/ Logout(b)
      PROVE  UNCHANGED <<status, owner>>
  BY <1>5 DEF Abandon, SetupBegin, LoginOpen, ChallengeDropped, ChallengeBegin, ChallengeOpen,
              Logout, OpenSession
<1>6. ASSUME NEW b \in Browsers,
             \/ SetupFactor(b) \/ EnableBegin(b) \/ DisableBegin(b)
             \/ EnableCommit(b) \/ DisableCommit(b)
      PROVE  UNCHANGED <<status, owner>>
  BY <1>6 DEF SetupFactor, EnableBegin, DisableBegin, EnableCommit, DisableCommit, LoadFactor,
              WriteFactor
<1>7. ASSUME NEW b \in Browsers, NEW u \in Users,
             \/ SetupCommit(b, u) \/ DeleteBegin(b, u) \/ LoginBegin(b, u) \/ AskForCode(b, u)
             \/ \E role \in BOOLEAN : CreateUser(b, u, role)
      PROVE  UNCHANGED <<status, owner>>
  BY <1>7 DEF SetupCommit, DeleteBegin, LoginBegin, AskForCode, CreateUser
<1>8. ASSUME NEW b \in Browsers, NEW u \in Users, ForgotPurge(b, u) PROVE Owned' /\ TokensKept
  BY <1>3, <1>8 DEF ForgotPurge
<1>9. ASSUME NEW b \in Browsers, NEW t \in Tokens, ResetFind(b, t) PROVE UNCHANGED <<status, owner>>
  BY <1>9 DEF ResetFind
<1>10. ASSUME NEW t \in Tokens, Expire(t) PROVE UNCHANGED <<status, owner>>
  BY <1>10 DEF Expire
<1>11. CASE ReapCommand
  BY <1>3, <1>11 DEF ReapCommand
<1>12. CASE ResetFactors \/ UNCHANGED vars
  BY <1>0, <1>12 DEF ResetFactors, vars
<1>13. CASE \E b \in Browsers : Request(b)
  <2>1. PICK b \in Browsers : Request(b)
    BY <1>13
  <2> QED BY <2>1, <1>0, <1>1, <1>2, <1>4, <1>5, <1>6, <1>7, <1>8, <1>9, Zenon DEF Request
<1> QED BY <1>0, <1>10, <1>11, <1>12, <1>13, Zenon DEF Next

LEMMA InHandStep == Typed /\ [Next]_vars => InHand'
<1> SUFFICES ASSUME Typed, [Next]_vars PROVE InHand'
  OBVIOUS
<1>0. TokensKept
  BY OwnedStep
<1> USE DEF Typed, rows, factor, tokens, cookies, dialogue, request, hlogin, hcount
<1>1. ASSUME NEW b \in Browsers, Done(b), \A c \in Browsers \ {b} : pending'[c] = pending[c]
      PROVE  InHand'
  <2>1. pc'[b] = "idle"
    BY <1>1 DEF Done, TypeOK
  <2>2. \A c \in Browsers \ {b} : pc'[c] = pc[c] /\ who'[c] = who[c] /\ held'[c] = held[c]
    BY <1>1 DEF Done, TypeOK
  <2> QED BY <1>0, <1>1, <2>1, <2>2 DEF InHand, TokensKept
<1>2. ASSUME NEW b \in Browsers, NEW s \in Steps, NEW u, NEW t, Start(b, s, u, t),
             s \notin {"idle", "setup"} => u \in Users,
             s = "reset" => t \in Tokens /\ status[t] # "none" /\ u = owner[t],
             s = "enable" => pending[b] # 0, pending' = pending
      PROVE  InHand'
  <2>1. pc'[b] = s /\ who'[b] = u /\ held'[b] = t
    BY <1>2 DEF Start, TypeOK
  <2>2. \A c \in Browsers \ {b} : pc'[c] = pc[c] /\ who'[c] = who[c] /\ held'[c] = held[c]
    BY <1>2 DEF Start, TypeOK
  <2> QED BY <1>0, <1>2, <2>1, <2>2 DEF InHand, TokensKept
<1>3. ASSUME UNCHANGED <<pc, who, held>>, \A c \in Browsers : pc[c] # "idle" => pending'[c] = pending[c]
      PROVE  InHand'
  BY <1>0, <1>3 DEF InHand, TokensKept
<1>4. ASSUME NEW b \in Browsers,
             \/ Abandon(b) \/ LoginOpen(b) \/ ChallengeOpen(b) \/ DeleteCommit(b)
             \/ ResetCommit(b) \/ EnableCommit(b) \/ DisableCommit(b)
             \/ \E u \in Users : SetupCommit(b, u)
             \/ \E t \in Tokens : ForgotInsert(b, t)
      PROVE  InHand'
  <2>1. Done(b)
    BY <1>4 DEF Abandon, LoginOpen, ChallengeOpen, DeleteCommit, ResetCommit, EnableCommit,
                DisableCommit, SetupCommit, ForgotInsert, OpenSession, WriteFactor
  <2>2. pending' = pending \/ pending' = [pending EXCEPT ![b] = 0]
    BY <1>4 DEF Abandon, LoginOpen, ChallengeOpen, DeleteCommit, ResetCommit, EnableCommit,
                DisableCommit, SetupCommit, ForgotInsert, OpenSession, WriteFactor
  <2>3. \A c \in Browsers \ {b} : pending'[c] = pending[c]
    BY <2>2 DEF TypeOK
  <2> QED BY <1>1, <2>1, <2>3
<1>5. ASSUME NEW b \in Browsers, SetupBegin(b) PROVE InHand'
  <2>1. Start(b, "setup", Nobody, NoToken) /\ pending' = pending /\ "setup" \in Steps
    BY <1>5 DEF SetupBegin, Steps
  <2> QED BY <1>2, <2>1
<1>6. ASSUME NEW b \in Browsers, ChallengeBegin(b) PROVE InHand'
  <2>1. Start(b, "code", challenge[b], NoToken) /\ pending' = pending /\ "code" \in Steps
    BY <1>6 DEF ChallengeBegin, Steps
  <2>2. challenge[b] \in Users
    BY <1>6 DEF ChallengeBegin, TypeOK
  <2> QED BY <1>2, <2>1, <2>2
<1>7. ASSUME NEW b \in Browsers, EnableBegin(b) \/ DisableBegin(b) PROVE InHand'
  <2>1. PICK s \in {"enable", "disable"} : /\ Start(b, s, logged[b], NoToken)
                                           /\ s = "enable" => pending[b] # 0
    BY <1>7 DEF EnableBegin, DisableBegin, LoadFactor
  <2>2. logged[b] \in Users /\ pending' = pending /\ s \in Steps
    BY <1>7 DEF EnableBegin, DisableBegin, LoadFactor, Accepted, TypeOK, Steps
  <2> QED BY <1>2, <2>1, <2>2
<1>8. ASSUME NEW b \in Browsers, NEW u \in Users,
             DeleteBegin(b, u) \/ LoginBegin(b, u) \/ ForgotPurge(b, u)
      PROVE  InHand'
  <2>1. PICK s \in {"delete", "login", "forgot"} : Start(b, s, u, NoToken)
    BY <1>8 DEF DeleteBegin, LoginBegin, ForgotPurge
  <2>2. pending' = pending /\ s \in Steps
    BY <1>8 DEF DeleteBegin, LoginBegin, ForgotPurge, Steps
  <2> QED BY <1>2, <2>1, <2>2
<1>9. ASSUME NEW b \in Browsers, NEW t \in Tokens, ResetFind(b, t) PROVE InHand'
  <2>1. Start(b, "reset", owner[t], t) /\ pending' = pending /\ "reset" \in Steps
    BY <1>9 DEF ResetFind, Steps
  <2>2. owner[t] \in Users /\ status[t] # "none"
    BY <1>9 DEF ResetFind, Usable, Owned, TypeOK
  <2> QED BY <1>2, <2>1, <2>2
<1>10. ASSUME NEW b \in Browsers,
              \/ ChallengeDropped(b) \/ Logout(b) \/ SetupFactor(b)
              \/ \E u \in Users : AskForCode(b, u) \/ \E role \in BOOLEAN : CreateUser(b, u, role)
       PROVE  InHand'
  <2>1. UNCHANGED <<pc, who, held>>
    BY <1>10 DEF ChallengeDropped, Logout, SetupFactor, AskForCode, CreateUser
  <2>2. pending' = pending \/ (pc[b] = "idle" /\ \E x : pending' = [pending EXCEPT ![b] = x])
    BY <1>10 DEF ChallengeDropped, Logout, SetupFactor, AskForCode, CreateUser
  <2> QED BY <1>3, <2>1, <2>2 DEF TypeOK
<1>11. ASSUME UNCHANGED <<request, dialogue>> PROVE InHand'
  BY <1>3, <1>11
<1>12. CASE (\E t \in Tokens : Expire(t)) \/ ReapCommand \/ ResetFactors \/ UNCHANGED vars
  <2>1. UNCHANGED <<request, dialogue>>
    BY <1>12 DEF Expire, ReapCommand, ResetFactors, vars
  <2> QED BY <1>11, <2>1
<1>13. CASE \E b \in Browsers : Request(b)
  <2>1. PICK b \in Browsers : Request(b)
    BY <1>13
  <2> QED BY <2>1, <1>4, <1>5, <1>6, <1>7, <1>8, <1>9, <1>10, Zenon DEF Request
<1> QED BY <1>12, <1>13, Zenon DEF Next

\* At every step the variables have their types, and a request in hand knows
\* the account and the token it is about (find_usable_password_reset_token,
\* login_post, mfa_verify).
THEOREM AccountsTypeOK == Spec => []Typed
<1>1. Typed /\ [Next]_vars => Typed'
  BY TypeStep, OwnedStep, InHandStep DEF Typed
<1> QED BY <1>1, TypeInit, PTL DEF Spec

-----------------------------------------------------------------------------
(* Password resets.                                                         *)

\* A token that was used can only be purged.
LEMMA UsedStays ==
  Typed /\ [Next]_vars =>
    \A t \in Tokens : status[t] \in {"used", "gone"} => status'[t] \in {"used", "gone"}
<1> SUFFICES ASSUME Typed, [Next]_vars, NEW t \in Tokens, status[t] \in {"used", "gone"}
             PROVE  status'[t] \in {"used", "gone"}
  OBVIOUS
<1> USE DEF Typed, tokens
<1>1. ASSUME NEW b \in Browsers, DeleteCommit(b) PROVE status'[t] \in {"used", "gone"}
  BY <1>1 DEF DeleteCommit
<1>2. ASSUME NEW b \in Browsers, ResetCommit(b) PROVE status'[t] \in {"used", "gone"}
  <2>1. status' = [status EXCEPT ![held[b]] = "used"]
    BY <1>2 DEF ResetCommit
  <2> QED BY <2>1 DEF TypeOK
<1>3. ASSUME Purge PROVE status'[t] \in {"used", "gone"}
  BY <1>3 DEF Purge
<1>4. ASSUME NEW b \in Browsers, NEW c \in Tokens, ForgotInsert(b, c)
      PROVE  status'[t] \in {"used", "gone"}
  <2>1. status[c] = "none" /\ status' = [status EXCEPT ![c] = "fresh"]
    BY <1>4 DEF ForgotInsert
  <2> QED BY <2>1 DEF TypeOK
<1>5. ASSUME NEW b \in Browsers,
             \/ Abandon(b) \/ SetupBegin(b) \/ LoginOpen(b) \/ ChallengeDropped(b)
             \/ ChallengeBegin(b) \/ ChallengeOpen(b) \/ Logout(b)
      PROVE  status' = status
  BY <1>5 DEF Abandon, SetupBegin, LoginOpen, ChallengeDropped, ChallengeBegin, ChallengeOpen,
              Logout, OpenSession
<1>6. ASSUME NEW b \in Browsers,
             \/ SetupFactor(b) \/ EnableBegin(b) \/ DisableBegin(b)
             \/ EnableCommit(b) \/ DisableCommit(b)
      PROVE  status' = status
  BY <1>6 DEF SetupFactor, EnableBegin, DisableBegin, EnableCommit, DisableCommit, LoadFactor,
              WriteFactor
<1>7. ASSUME NEW b \in Browsers, NEW u \in Users,
             \/ SetupCommit(b, u) \/ DeleteBegin(b, u) \/ LoginBegin(b, u) \/ AskForCode(b, u)
             \/ \E role \in BOOLEAN : CreateUser(b, u, role)
      PROVE  status' = status
  BY <1>7 DEF SetupCommit, DeleteBegin, LoginBegin, AskForCode, CreateUser
<1>8. ASSUME NEW b \in Browsers, NEW c \in Tokens, ResetFind(b, c) PROVE status' = status
  BY <1>8 DEF ResetFind
<1>9. CASE (\E c \in Tokens : Expire(c)) \/ ResetFactors \/ UNCHANGED vars
  BY <1>9 DEF Expire, ResetFactors, vars
<1>10. CASE \E b \in Browsers : Request(b)
  <2>1. PICK b \in Browsers : Request(b)
    BY <1>10
  <2>2. (\E u \in Users : ForgotPurge(b, u)) => Purge
    BY DEF ForgotPurge
  <2> QED BY <2>1, <2>2, <1>1, <1>2, <1>3, <1>4, <1>5, <1>6, <1>7, <1>8, Zenon DEF Request
<1>11. CASE ReapCommand
  BY <1>3, <1>11 DEF ReapCommand
<1> QED BY <1>9, <1>10, <1>11, Zenon DEF Next

\* Once a token has set a password, its holders and the passwords it has set
\* are together no more than those that held it then.
TokenInv ==
  \A t \in Tokens :
    sets[t] > 0 => /\ status[t] \in {"used", "gone"}
                   /\ sets[t] + Cardinality(Holders(t)) <= 1 + overlap[t]

\* A request takes a token in hand only by finding it usable.
LEMMA HoldersShrink ==
  Typed /\ [Next]_vars =>
    \A t \in Tokens : \/ Holders(t)' \subseteq Holders(t)
                      \/ \E b \in Browsers : ResetFind(b, t)
<1> SUFFICES ASSUME Typed, [Next]_vars, NEW t \in Tokens
             PROVE  \/ Holders(t)' \subseteq Holders(t)
                    \/ \E b \in Browsers : ResetFind(b, t)
  OBVIOUS
<1> USE DEF Typed, request
<1>1. ASSUME NEW b \in Browsers, Done(b) PROVE Holders(t)' \subseteq Holders(t)
  BY <1>1 DEF Done, Holders, TypeOK
<1>2. ASSUME NEW b \in Browsers, NEW s, NEW u, NEW c, Start(b, s, u, c), s # "reset" \/ c # t
      PROVE  Holders(t)' \subseteq Holders(t)
  BY <1>2 DEF Start, Holders, TypeOK
<1>3. ASSUME UNCHANGED <<pc, held>> PROVE Holders(t)' \subseteq Holders(t)
  BY <1>3 DEF Holders
<1>4. ASSUME NEW b \in Browsers,
             \/ Abandon(b) \/ LoginOpen(b) \/ ChallengeOpen(b) \/ DeleteCommit(b)
             \/ ResetCommit(b) \/ EnableCommit(b) \/ DisableCommit(b)
             \/ \E u \in Users : SetupCommit(b, u)
             \/ \E c \in Tokens : ForgotInsert(b, c)
      PROVE  Done(b)
  BY <1>4 DEF Abandon, LoginOpen, ChallengeOpen, DeleteCommit, ResetCommit, EnableCommit,
              DisableCommit, SetupCommit, ForgotInsert, OpenSession, WriteFactor
<1>5. ASSUME NEW b \in Browsers,
             \/ SetupBegin(b) \/ ChallengeBegin(b) \/ EnableBegin(b) \/ DisableBegin(b)
             \/ \E u \in Users : DeleteBegin(b, u) \/ LoginBegin(b, u) \/ ForgotPurge(b, u)
      PROVE  \E s, u : s # "reset" /\ Start(b, s, u, NoToken)
  BY <1>5 DEF SetupBegin, ChallengeBegin, EnableBegin, DisableBegin, LoadFactor, DeleteBegin,
              LoginBegin, ForgotPurge
<1>6. ASSUME NEW b \in Browsers,
             \/ ChallengeDropped(b) \/ Logout(b) \/ SetupFactor(b)
             \/ \E u \in Users : AskForCode(b, u) \/ \E role \in BOOLEAN : CreateUser(b, u, role)
      PROVE  UNCHANGED <<pc, held>>
  BY <1>6 DEF ChallengeDropped, Logout, SetupFactor, AskForCode, CreateUser
<1>7. ASSUME NEW b \in Browsers, NEW c \in Tokens, ResetFind(b, c), c # t
      PROVE  Holders(t)' \subseteq Holders(t)
  BY <1>2, <1>7 DEF ResetFind
<1>8. CASE (\E c \in Tokens : Expire(c)) \/ ReapCommand \/ ResetFactors \/ UNCHANGED vars
  <2>1. UNCHANGED <<pc, held>>
    BY <1>8 DEF Expire, ReapCommand, ResetFactors, vars
  <2> QED BY <1>3, <2>1
<1>9. CASE \E b \in Browsers : Request(b)
  <2>1. PICK b \in Browsers : Request(b)
    BY <1>9
  <2>2. CASE \E c \in Tokens : ResetFind(b, c)
    BY <1>7, <2>2
  <2>3. CASE \/ SetupBegin(b) \/ ChallengeBegin(b) \/ EnableBegin(b) \/ DisableBegin(b)
             \/ \E u \in Users : DeleteBegin(b, u) \/ LoginBegin(b, u) \/ ForgotPurge(b, u)
    BY <1>2, <1>5, <2>3
  <2> QED BY <2>1, <2>2, <2>3, <1>1, <1>3, <1>4, <1>6, Zenon DEF Request
<1> QED BY <1>8, <1>9, Zenon DEF Next

\* Only consume_password_reset_token counts, and it counts for one token.
LEMMA SetsMove ==
  Typed /\ [Next]_vars =>
    \/ UNCHANGED <<sets, overlap, session, changes>>
    \/ \E b \in Browsers : ResetCommit(b)
<1> SUFFICES ASSUME Typed, [Next]_vars
             PROVE  \/ UNCHANGED <<sets, overlap, session, changes>>
                    \/ \E b \in Browsers : ResetCommit(b)
  OBVIOUS
<1> USE DEF rows, hlogin, hcount
<1>1. ASSUME NEW b \in Browsers,
             \/ Abandon(b) \/ SetupBegin(b) \/ LoginOpen(b) \/ ChallengeDropped(b)
             \/ ChallengeBegin(b) \/ ChallengeOpen(b) \/ Logout(b) \/ DeleteCommit(b)
      PROVE  UNCHANGED <<sets, overlap, session, changes>>
  BY <1>1 DEF Abandon, SetupBegin, LoginOpen, ChallengeDropped, ChallengeBegin, ChallengeOpen,
              Logout, OpenSession, DeleteCommit
<1>2. ASSUME NEW b \in Browsers,
             \/ SetupFactor(b) \/ EnableBegin(b) \/ DisableBegin(b)
             \/ EnableCommit(b) \/ DisableCommit(b)
      PROVE  UNCHANGED <<sets, overlap, session, changes>>
  BY <1>2 DEF SetupFactor, EnableBegin, DisableBegin, EnableCommit, DisableCommit, LoadFactor,
              WriteFactor
<1>3. ASSUME NEW b \in Browsers, NEW u \in Users,
             \/ SetupCommit(b, u) \/ DeleteBegin(b, u) \/ LoginBegin(b, u) \/ AskForCode(b, u)
             \/ ForgotPurge(b, u) \/ \E role \in BOOLEAN : CreateUser(b, u, role)
      PROVE  UNCHANGED <<sets, overlap, session, changes>>
  BY <1>3 DEF SetupCommit, DeleteBegin, LoginBegin, AskForCode, ForgotPurge, CreateUser
<1>4. ASSUME NEW b \in Browsers, NEW t \in Tokens, ForgotInsert(b, t) \/ ResetFind(b, t)
      PROVE  UNCHANGED <<sets, overlap, session, changes>>
  BY <1>4 DEF ForgotInsert, ResetFind
<1>5. CASE (\E t \in Tokens : Expire(t)) \/ ReapCommand \/ ResetFactors \/ UNCHANGED vars
  BY <1>5 DEF Expire, ReapCommand, ResetFactors, vars
<1>6. CASE \E b \in Browsers : Request(b)
  <2>1. PICK b \in Browsers : Request(b)
    BY <1>6
  <2> QED BY <2>1, <1>1, <1>2, <1>3, <1>4, Zenon DEF Request
<1> QED BY <1>5, <1>6, Zenon DEF Next

LEMMA TokenStep == Typed /\ TokenInv /\ [Next]_vars => TokenInv'
<1> SUFFICES ASSUME Typed, TokenInv, [Next]_vars, NEW t \in Tokens, sets'[t] > 0
             PROVE  /\ status'[t] \in {"used", "gone"}
                    /\ sets'[t] + Cardinality(Holders(t))' <= 1 + overlap'[t]
  BY DEF TokenInv
<1> USE DEF Typed
<1>1. /\ sets[t] \in Nat /\ overlap[t] \in Nat /\ Cardinality(Holders(t)) \in Nat
      /\ Holders(t) \in SUBSET Browsers /\ Holders(t)' \in SUBSET Browsers
  BY BrowsersCounted DEF TypeOK, Holders
<1>2. CASE sets' = sets /\ overlap' = overlap
  <2>1. status[t] \in {"used", "gone"} /\ sets[t] + Cardinality(Holders(t)) <= 1 + overlap[t]
    BY <1>2 DEF TokenInv
  <2>2. Holders(t)' \subseteq Holders(t)
    BY <2>1, HoldersShrink DEF ResetFind, Usable
  <2>3. Cardinality(Holders(t)') \in Nat /\ Cardinality(Holders(t)') <= Cardinality(Holders(t))
    BY <1>1, <2>2, BrowsersCounted, FS_Subset
  <2>4. status'[t] \in {"used", "gone"}
    BY <2>1, UsedStays
  <2> QED BY <1>1, <1>2, <2>1, <2>3, <2>4
<1>3. ASSUME NEW b \in Browsers, ResetCommit(b)
      PROVE  /\ status'[t] \in {"used", "gone"}
             /\ sets'[t] + Cardinality(Holders(t))' <= 1 + overlap'[t]
  <2>1. /\ held[b] \in Tokens /\ pc[b] = "reset" /\ Done(b)
        /\ status' = [status EXCEPT ![held[b]] = "used"]
        /\ sets' = [sets EXCEPT ![held[b]] = @ + 1]
    BY <1>3 DEF ResetCommit, InHand
  <2>2. overlap' = [overlap EXCEPT ![held[b]] =
                      IF sets[held[b]] = 0 THEN Cardinality(Holders(held[b]) \ {b}) ELSE @]
    BY <1>3 DEF ResetCommit
  <2>3. Holders(t)' \subseteq Holders(t) \ {b}
    BY <2>1 DEF Done, Holders, TypeOK
  <2>4. /\ Cardinality(Holders(t) \ {b}) \in Nat /\ Cardinality(Holders(t)') \in Nat
        /\ Cardinality(Holders(t)') <= Cardinality(Holders(t) \ {b})
    BY <1>1, <2>3, BrowsersCounted, FS_Subset
  <2>5. CASE held[b] = t
    <3>1. b \in Holders(t)
      BY <2>1, <2>5 DEF Holders
    <3>2. Cardinality(Holders(t) \ {b}) = Cardinality(Holders(t)) - 1
      BY <1>1, <3>1, BrowsersCounted, FS_RemoveElement
    <3>3. status'[t] = "used" /\ sets'[t] = sets[t] + 1
      BY <2>1, <2>5 DEF TypeOK
    <3>4. CASE sets[t] = 0
      <4>1. overlap'[t] = Cardinality(Holders(t) \ {b})
        BY <2>2, <2>5, <3>4 DEF TypeOK
      <4> QED BY <1>1, <2>4, <3>3, <3>4, <4>1
    <3>5. CASE sets[t] # 0
      <4>1. overlap'[t] = overlap[t]
        BY <2>2, <2>5, <3>5 DEF TypeOK
      <4>2. sets[t] + Cardinality(Holders(t)) <= 1 + overlap[t]
        BY <1>1, <3>5 DEF TokenInv
      <4> QED BY <1>1, <2>4, <3>2, <3>3, <4>1, <4>2
    <3> QED BY <3>4, <3>5
  <2>6. CASE held[b] # t
    <3>1. sets'[t] = sets[t] /\ overlap'[t] = overlap[t]
      BY <2>1, <2>2, <2>6 DEF TypeOK
    <3>2. status[t] \in {"used", "gone"} /\ sets[t] + Cardinality(Holders(t)) <= 1 + overlap[t]
      BY <3>1 DEF TokenInv
    <3>3. Cardinality(Holders(t)') <= Cardinality(Holders(t))
      BY <1>1, <2>3, BrowsersCounted, FS_Subset
    <3>4. status'[t] \in {"used", "gone"}
      BY <3>2, UsedStays
    <3> QED BY <1>1, <2>4, <3>1, <3>2, <3>3, <3>4
  <2> QED BY <2>5, <2>6
<1> QED BY <1>2, <1>3, SetsMove

\* find_usable_password_reset_token and consume_password_reset_token are two
\* steps: a token sets one password, and one more for each other request that
\* held it at the first.
THEOREM AccountsTokenBudget == Spec => []TokenBudget
<1>1. Init => TokenInv
  BY DEF Init, TokenInv
<1>2. Typed /\ TokenInv => TokenBudget
  <2> SUFFICES ASSUME Typed, TokenInv, NEW t \in Tokens PROVE sets[t] <= 1 + overlap[t]
    BY DEF TokenBudget
  <2>1. sets[t] \in Nat /\ overlap[t] \in Nat /\ Cardinality(Holders(t)) \in Nat
    BY BrowsersCounted DEF Typed, TypeOK, Holders
  <2> QED BY <2>1 DEF TokenInv
<1> QED BY <1>1, <1>2, TokenStep, AccountsTypeOK, PTL DEF Spec

\* The new password and used_at go to the database in one commit, or neither
\* does (consume_password_reset_token).
THEOREM AccountsPasswordMovesWithToken == Spec => PasswordMovesWithToken
<1>1. Typed /\ [Next]_vars =>
        [\A u \in Users : session'[u] # session[u] =>
           \E t \in Tokens : /\ owner[t] = u
                             /\ status[t] \in {"fresh", "used"}
                             /\ status'[t] = "used"]_vars
  <2> SUFFICES ASSUME Typed, [Next]_vars, NEW u \in Users, session'[u] # session[u]
               PROVE  \E t \in Tokens : /\ owner[t] = u /\ status[t] \in {"fresh", "used"}
                                         /\ status'[t] = "used"
    OBVIOUS
  <2>1. PICK b \in Browsers : ResetCommit(b)
    BY SetsMove
  <2>2. /\ held[b] \in Tokens /\ who[b] = owner[held[b]]
        /\ session' = [session EXCEPT ![who[b]] = NewSession(who[b])]
        /\ status' = [status EXCEPT ![held[b]] = "used"]
        /\ status[held[b]] \in {"fresh", "used"}
    BY <2>1 DEF ResetCommit, RowThere, InHand, Typed
  <2>3. u = who[b] /\ status'[held[b]] = "used"
    BY <2>2 DEF Typed, TypeOK
  <2> QED BY <2>2, <2>3
<1> QED BY <1>1, AccountsTypeOK, PTL DEF Spec, PasswordMovesWithToken

\* Each password has a session token of its own, and a cookie carries the one
\* of the moment it was opened.
SessionInv ==
  /\ \A u \in Users : session[u] = changes[u]
  /\ \A b \in Browsers : logged[b] # Nobody => carries[b] = opened[b].at

LEMMA SessionStep == Typed /\ SessionInv /\ [Next]_vars => SessionInv'
<1> SUFFICES ASSUME Typed, SessionInv, [Next]_vars PROVE SessionInv'
  OBVIOUS
<1> USE DEF Typed, rows, cookies, hlogin
<1>1. \A u \in Users : session'[u] = changes'[u]
  <2>1. CASE UNCHANGED <<session, changes>>
    BY <2>1 DEF SessionInv
  <2>2. ASSUME NEW b \in Browsers, ResetCommit(b) PROVE \A u \in Users : session'[u] = changes'[u]
    BY <2>2 DEF ResetCommit, NewSession, SessionInv, TypeOK
  <2> QED BY <2>1, <2>2, SetsMove
<1>2. ASSUME UNCHANGED <<logged, carries, opened>> PROVE SessionInv'
  BY <1>1, <1>2 DEF SessionInv
<1>3. ASSUME NEW b \in Browsers, NEW u \in Users, NEW coded \in BOOLEAN, OpenSession(b, u, coded)
      PROVE  SessionInv'
  <2>1. /\ logged' = [logged EXCEPT ![b] = u] /\ carries' = [carries EXCEPT ![b] = session[u]]
        /\ opened' = [opened EXCEPT ![b] = [at |-> changes[u], ons |-> asked[b], coded |-> coded]]
    BY <1>3 DEF OpenSession
  <2>2. ASSUME NEW c \in Browsers, logged'[c] # Nobody PROVE carries'[c] = opened'[c].at
    <3>1. CASE c = b
      BY <2>1, <3>1 DEF SessionInv, TypeOK
    <3>2. CASE c # b
      <4>1. logged'[c] = logged[c] /\ carries'[c] = carries[c] /\ opened'[c] = opened[c]
        BY <2>1, <3>2 DEF TypeOK
      <4> QED BY <2>2, <4>1 DEF SessionInv
    <3> QED BY <3>1, <3>2
  <2> QED BY <1>1, <2>2 DEF SessionInv
<1>4. ASSUME NEW b \in Browsers, LoginOpen(b) \/ ChallengeOpen(b) PROVE SessionInv'
  <2>1. who[b] \in Users /\ \E coded \in BOOLEAN : OpenSession(b, who[b], coded)
    BY <1>4 DEF LoginOpen, ChallengeOpen, InHand, Steps
  <2> QED BY <1>3, <2>1
<1>5. ASSUME NEW b \in Browsers, Logout(b) PROVE SessionInv'
  <2>1. \A c \in Browsers : \/ logged'[c] = Nobody
                            \/ /\ logged'[c] = logged[c] /\ carries'[c] = carries[c]
                               /\ opened'[c] = opened[c]
    BY <1>5 DEF Logout, TypeOK
  <2> QED BY <1>1, <2>1 DEF SessionInv
<1>7. ASSUME NEW b \in Browsers,
             \/ Abandon(b) \/ SetupBegin(b) \/ ChallengeDropped(b) \/ ChallengeBegin(b)
             \/ DeleteCommit(b) \/ ResetCommit(b)
      PROVE  UNCHANGED <<logged, carries, opened>>
  BY <1>7 DEF Abandon, SetupBegin, ChallengeDropped, ChallengeBegin, DeleteCommit, ResetCommit
<1>8. ASSUME NEW b \in Browsers,
             \/ SetupFactor(b) \/ EnableBegin(b) \/ DisableBegin(b)
             \/ EnableCommit(b) \/ DisableCommit(b)
      PROVE  UNCHANGED <<logged, carries, opened>>
  BY <1>8 DEF SetupFactor, EnableBegin, DisableBegin, EnableCommit, DisableCommit, LoadFactor,
              WriteFactor
<1>9. ASSUME NEW b \in Browsers, NEW u \in Users,
             \/ SetupCommit(b, u) \/ DeleteBegin(b, u) \/ LoginBegin(b, u) \/ AskForCode(b, u)
             \/ ForgotPurge(b, u) \/ \E role \in BOOLEAN : CreateUser(b, u, role)
      PROVE  UNCHANGED <<logged, carries, opened>>
  BY <1>9 DEF SetupCommit, DeleteBegin, LoginBegin, AskForCode, ForgotPurge, CreateUser
<1>10. ASSUME NEW b \in Browsers, NEW t \in Tokens, ForgotInsert(b, t) \/ ResetFind(b, t)
       PROVE  UNCHANGED <<logged, carries, opened>>
  BY <1>10 DEF ForgotInsert, ResetFind
<1>11. CASE (\E t \in Tokens : Expire(t)) \/ ReapCommand \/ ResetFactors \/ UNCHANGED vars
  <2>1. UNCHANGED <<logged, carries, opened>>
    BY <1>11 DEF Expire, ReapCommand, ResetFactors, vars
  <2> QED BY <1>2, <2>1
<1>12. CASE \E b \in Browsers : Request(b)
  <2>1. PICK b \in Browsers : Request(b)
    BY <1>12
  <2> QED BY <2>1, <1>2, <1>4, <1>5, <1>7, <1>8, <1>9, <1>10, Zenon DEF Request
<1> QED BY <1>11, <1>12, Zenon DEF Next

\* set_password ends every session: load_user accepts only cookies opened
\* after the account's last password change.
THEOREM AccountsAcceptedSinceChange == Spec => []AcceptedSinceChange
<1>1. Init => SessionInv
  BY DEF Init, SessionInv
<1>2. Typed /\ SessionInv => AcceptedSinceChange
  BY DEF Typed, TypeOK, SessionInv, AcceptedSinceChange, Accepted
<1> QED BY <1>1, <1>2, SessionStep, AccountsTypeOK, PTL DEF Spec

-----------------------------------------------------------------------------
(* The setup page and the list of users.                                    *)

\* A deletion in hand is of an account that was never an administrator's.
DeletesNoAdmin ==
  \A b \in Browsers : pc[b] = "delete" => state[who[b]] # "none" /\ ~admin[who[b]]

SetupInv ==
  /\ DeletesNoAdmin
  /\ selfMade > 0 => AdminExists /\ selfMade + Cardinality(InSetup) <= 1 + waiting

\* What the requests do to the rows of user.
RowsKept ==
  \A u \in Users :
    state[u] # "none" => /\ state'[u] # "none" /\ admin'[u] = admin[u]
                         /\ (admin[u] => state'[u] = state[u])

LEMMA RowsStep == Typed /\ DeletesNoAdmin /\ [Next]_vars => RowsKept
<1> SUFFICES ASSUME Typed, DeletesNoAdmin, [Next]_vars PROVE RowsKept
  OBVIOUS
<1> USE DEF Typed, rows, RowsKept
<1>1. ASSUME UNCHANGED <<state, admin>> PROVE RowsKept
  BY <1>1
<1>2. ASSUME NEW b \in Browsers, DeleteCommit(b) PROVE RowsKept
  <2>1. ~admin[who[b]] /\ admin' = admin /\ state' = [state EXCEPT ![who[b]] = "gone"]
    BY <1>2 DEF DeleteCommit, DeletesNoAdmin
  <2> QED BY <2>1 DEF TypeOK
<1>3. ASSUME NEW b \in Browsers, NEW u \in Users,
             SetupCommit(b, u) \/ \E role \in BOOLEAN : CreateUser(b, u, role)
      PROVE  RowsKept
  <2>1. PICK role : /\ state[u] = "none" /\ state' = [state EXCEPT ![u] = "live"]
                    /\ admin' = [admin EXCEPT ![u] = role]
    BY <1>3 DEF SetupCommit, CreateUser
  <2> QED BY <2>1 DEF TypeOK
<1>4. ASSUME NEW b \in Browsers,
             \/ Abandon(b) \/ SetupBegin(b) \/ LoginOpen(b) \/ ChallengeDropped(b)
             \/ ChallengeBegin(b) \/ ChallengeOpen(b) \/ Logout(b) \/ ResetCommit(b)
      PROVE  UNCHANGED <<state, admin>>
  BY <1>4 DEF Abandon, SetupBegin, LoginOpen, ChallengeDropped, ChallengeBegin, ChallengeOpen,
              Logout, OpenSession, ResetCommit
<1>5. ASSUME NEW b \in Browsers,
             \/ SetupFactor(b) \/ EnableBegin(b) \/ DisableBegin(b)
             \/ EnableCommit(b) \/ DisableCommit(b)
      PROVE  UNCHANGED <<state, admin>>
  BY <1>5 DEF SetupFactor, EnableBegin, DisableBegin, EnableCommit, DisableCommit, LoadFactor,
              WriteFactor
<1>6. ASSUME NEW b \in Browsers, NEW u \in Users,
             DeleteBegin(b, u) \/ LoginBegin(b, u) \/ AskForCode(b, u) \/ ForgotPurge(b, u)
      PROVE  UNCHANGED <<state, admin>>
  BY <1>6 DEF DeleteBegin, LoginBegin, AskForCode, ForgotPurge
<1>7. ASSUME NEW b \in Browsers, NEW t \in Tokens, ForgotInsert(b, t) \/ ResetFind(b, t)
      PROVE  UNCHANGED <<state, admin>>
  BY <1>7 DEF ForgotInsert, ResetFind
<1>8. CASE (\E t \in Tokens : Expire(t)) \/ ReapCommand \/ ResetFactors \/ UNCHANGED vars
  BY <1>1, <1>8 DEF Expire, ReapCommand, ResetFactors, vars
<1>9. CASE \E b \in Browsers : Request(b)
  <2>1. PICK b \in Browsers : Request(b)
    BY <1>9
  <2> QED BY <2>1, <1>1, <1>2, <1>3, <1>4, <1>5, <1>6, <1>7, Zenon DEF Request
<1> QED BY <1>8, <1>9, Zenon DEF Next

\* A request gets to a step only through the action that starts it there.
LEMMA StepsTaken ==
  Typed /\ [Next]_vars =>
    \A c \in Browsers :
      \/ pc'[c] = "idle"
      \/ pc'[c] = pc[c] /\ who'[c] = who[c]
      \/ pc'[c] \notin {"setup", "delete", "login"}
      \/ SetupBegin(c)
      \/ \E u \in Users : /\ DeleteBegin(c, u) \/ LoginBegin(c, u)
                          /\ who'[c] = u
<1> SUFFICES ASSUME Typed, [Next]_vars, NEW c \in Browsers,
                    pc'[c] # "idle", ~ (pc'[c] = pc[c] /\ who'[c] = who[c]),
                    pc'[c] \in {"setup", "delete", "login"}
             PROVE  \/ SetupBegin(c)
                    \/ \E u \in Users : /\ DeleteBegin(c, u) \/ LoginBegin(c, u)
                                        /\ who'[c] = u
  OBVIOUS
<1> USE DEF Typed, request
<1>1. ASSUME NEW b \in Browsers, Done(b) PROVE FALSE
  BY <1>1 DEF Done, TypeOK
<1>2. ASSUME NEW b \in Browsers, NEW s, NEW u, NEW t, Start(b, s, u, t),
             b # c \/ s \notin {"setup", "delete", "login"}
      PROVE  FALSE
  BY <1>2 DEF Start, TypeOK
<1>3. ASSUME UNCHANGED <<pc, who>> PROVE FALSE
  BY <1>3
<1>4. ASSUME NEW b \in Browsers,
             \/ Abandon(b) \/ LoginOpen(b) \/ ChallengeOpen(b) \/ DeleteCommit(b)
             \/ ResetCommit(b) \/ EnableCommit(b) \/ DisableCommit(b)
             \/ \E u \in Users : SetupCommit(b, u)
             \/ \E t \in Tokens : ForgotInsert(b, t)
      PROVE  Done(b)
  BY <1>4 DEF Abandon, LoginOpen, ChallengeOpen, DeleteCommit, ResetCommit, EnableCommit,
              DisableCommit, SetupCommit, ForgotInsert, OpenSession, WriteFactor
<1>5. ASSUME NEW b \in Browsers,
             \/ ChallengeBegin(b) \/ EnableBegin(b) \/ DisableBegin(b)
             \/ \E u \in Users : ForgotPurge(b, u)
             \/ \E t \in Tokens : ResetFind(b, t)
      PROVE  \E s, u, t : s \notin {"setup", "delete", "login"} /\ Start(b, s, u, t)
  BY <1>5 DEF ChallengeBegin, EnableBegin, DisableBegin, LoadFactor, ForgotPurge, ResetFind
<1>6. ASSUME NEW b \in Browsers,
             \/ ChallengeDropped(b) \/ Logout(b) \/ SetupFactor(b)
             \/ \E u \in Users : AskForCode(b, u) \/ \E role \in BOOLEAN : CreateUser(b, u, role)
      PROVE  UNCHANGED <<pc, who>>
  BY <1>6 DEF ChallengeDropped, Logout, SetupFactor, AskForCode, CreateUser
<1>7. ASSUME NEW b \in Browsers, SetupBegin(b) PROVE b = c
  BY <1>2, <1>7 DEF SetupBegin
<1>8. ASSUME NEW b \in Browsers, NEW u \in Users, DeleteBegin(b, u) \/ LoginBegin(b, u)
      PROVE  b = c /\ who'[c] = u
  <2>1. \E s : Start(b, s, u, NoToken)
    BY <1>8 DEF DeleteBegin, LoginBegin
  <2> QED BY <1>2, <2>1 DEF Start, TypeOK
<1>9. CASE (\E t \in Tokens : Expire(t)) \/ ReapCommand \/ ResetFactors \/ UNCHANGED vars
  <2>1. UNCHANGED <<pc, who>>
    BY <1>9 DEF Expire, ReapCommand, ResetFactors, vars
  <2> QED BY <1>3, <2>1
<1>10. CASE \E b \in Browsers : Request(b)
  <2>1. PICK b \in Browsers : Request(b)
    BY <1>10
  <2>2. CASE \/ ChallengeBegin(b) \/ EnableBegin(b) \/ DisableBegin(b)
             \/ \E u \in Users : ForgotPurge(b, u)
             \/ \E t \in Tokens : ResetFind(b, t)
    BY <1>2, <1>5, <2>2
  <2>3. CASE SetupBegin(b) \/ \E u \in Users : DeleteBegin(b, u) \/ LoginBegin(b, u)
    BY <1>7, <1>8, <2>3
  <2> QED BY <2>1, <2>2, <2>3, <1>1, <1>3, <1>4, <1>6, Zenon DEF Request
<1> QED BY <1>9, <1>10, Zenon DEF Next

LEMMA DeletesStep == Typed /\ DeletesNoAdmin /\ [Next]_vars => DeletesNoAdmin'
<1> SUFFICES ASSUME Typed, DeletesNoAdmin, [Next]_vars, NEW c \in Browsers, pc'[c] = "delete"
             PROVE  state'[who'[c]] # "none" /\ ~admin'[who'[c]]
  BY DEF DeletesNoAdmin
<1>1. RowsKept
  BY RowsStep
<1>2. CASE pc'[c] = pc[c] /\ who'[c] = who[c]
  <2>1. who[c] \in Users /\ state[who[c]] # "none" /\ ~admin[who[c]]
    BY <1>2 DEF Typed, InHand, Steps, DeletesNoAdmin
  <2> QED BY <1>1, <1>2, <2>1 DEF RowsKept
<1>3. ASSUME NEW u \in Users, DeleteBegin(c, u), who'[c] = u
      PROVE  state'[who'[c]] # "none" /\ ~admin'[who'[c]]
  BY <1>1, <1>3 DEF DeleteBegin, Live, Deletable, RowsKept
<1>4. ~SetupBegin(c) /\ \A u \in Users : ~LoginBegin(c, u)
  BY DEF SetupBegin, LoginBegin, Start, Typed, TypeOK
<1> QED BY <1>2, <1>3, <1>4, StepsTaken

LEMMA SetupStep == Typed /\ SetupInv /\ [Next]_vars => SetupInv'
<1> SUFFICES ASSUME Typed, SetupInv, [Next]_vars PROVE SetupInv'
  OBVIOUS
<1>0. DeletesNoAdmin' /\ RowsKept
  BY DeletesStep, RowsStep DEF SetupInv
<1>1. /\ selfMade \in Nat /\ waiting \in Nat /\ Cardinality(InSetup) \in Nat
      /\ InSetup \in SUBSET Browsers /\ InSetup' \in SUBSET Browsers /\ Cardinality(InSetup') \in Nat
  BY BrowsersCounted DEF Typed, TypeOK, InSetup
<1>2. AdminExists => AdminExists'
  BY <1>0 DEF AdminExists, Live, RowsKept
<1>3. ASSUME UNCHANGED <<selfMade, waiting>> PROVE SetupInv'
  <2> SUFFICES ASSUME selfMade > 0
               PROVE  AdminExists' /\ selfMade + Cardinality(InSetup') <= 1 + waiting
    BY <1>0, <1>3 DEF SetupInv
  <2>1. AdminExists /\ selfMade + Cardinality(InSetup) <= 1 + waiting
    BY DEF SetupInv
  <2>2. InSetup' \subseteq InSetup
    <3>1. ASSUME NEW c \in Browsers, pc'[c] = "setup" PROVE pc[c] = "setup"
      <4>1. ~SetupBegin(c)
        BY <2>1 DEF SetupBegin, SetupOpen
      <4>2. \A u \in Users : ~DeleteBegin(c, u) /\ ~LoginBegin(c, u)
        BY <3>1 DEF DeleteBegin, LoginBegin, Start, Typed, TypeOK
      <4> QED BY <3>1, <4>1, <4>2, StepsTaken
    <3> QED BY <3>1 DEF InSetup
  <2>3. Cardinality(InSetup') <= Cardinality(InSetup)
    BY <1>1, <2>2, BrowsersCounted, FS_Subset
  <2> QED BY <1>1, <1>2, <2>1, <2>3
<1>4. ASSUME NEW b \in Browsers, NEW u \in Users, SetupCommit(b, u) PROVE SetupInv'
  <2>1. /\ pc[b] = "setup" /\ Done(b) /\ selfMade' = selfMade + 1
        /\ waiting' = IF selfMade = 0 THEN Cardinality(InSetup \ {b}) ELSE waiting
    BY <1>4 DEF SetupCommit
  <2>2. InSetup' = InSetup \ {b} /\ b \in InSetup
    BY <2>1 DEF Done, InSetup, Typed, TypeOK
  <2>3. Cardinality(InSetup') = Cardinality(InSetup) - 1
    BY <1>1, <2>2, BrowsersCounted, FS_RemoveElement
  <2>4. AdminExists'
    BY <1>4 DEF SetupCommit, AdminExists, Live, Typed, TypeOK
  <2>5. CASE selfMade = 0
    BY <1>0, <1>1, <2>1, <2>2, <2>4, <2>5 DEF SetupInv
  <2>6. CASE selfMade > 0
    BY <1>0, <1>1, <2>1, <2>3, <2>4, <2>6 DEF SetupInv
  <2> QED BY <1>1, <2>5, <2>6
<1> USE DEF hcount
<1>5. ASSUME NEW b \in Browsers,
             \/ Abandon(b) \/ SetupBegin(b) \/ LoginOpen(b) \/ ChallengeDropped(b)
             \/ ChallengeBegin(b) \/ ChallengeOpen(b) \/ Logout(b) \/ DeleteCommit(b) \/ ResetCommit(b)
      PROVE  UNCHANGED <<selfMade, waiting>>
  BY <1>5 DEF Abandon, SetupBegin, LoginOpen, ChallengeDropped, ChallengeBegin, ChallengeOpen,
              Logout, OpenSession, DeleteCommit, ResetCommit
<1>6. ASSUME NEW b \in Browsers,
             \/ SetupFactor(b) \/ EnableBegin(b) \/ DisableBegin(b)
             \/ EnableCommit(b) \/ DisableCommit(b)
      PROVE  UNCHANGED <<selfMade, waiting>>
  BY <1>6 DEF SetupFactor, EnableBegin, DisableBegin, EnableCommit, DisableCommit, LoadFactor,
              WriteFactor
<1>7. ASSUME NEW b \in Browsers, NEW u \in Users,
             \/ DeleteBegin(b, u) \/ LoginBegin(b, u) \/ AskForCode(b, u)
             \/ ForgotPurge(b, u) \/ \E role \in BOOLEAN : CreateUser(b, u, role)
      PROVE  UNCHANGED <<selfMade, waiting>>
  BY <1>7 DEF DeleteBegin, LoginBegin, AskForCode, ForgotPurge, CreateUser
<1>8. ASSUME NEW b \in Browsers, NEW t \in Tokens, ForgotInsert(b, t) \/ ResetFind(b, t)
      PROVE  UNCHANGED <<selfMade, waiting>>
  BY <1>8 DEF ForgotInsert, ResetFind
<1>9. CASE (\E t \in Tokens : Expire(t)) \/ ReapCommand \/ ResetFactors \/ UNCHANGED vars
  BY <1>3, <1>9 DEF Expire, ReapCommand, ResetFactors, vars
<1>10. CASE \E b \in Browsers : Request(b)
  <2>1. PICK b \in Browsers : Request(b)
    BY <1>10
  <2> QED BY <2>1, <1>3, <1>4, <1>5, <1>6, <1>7, <1>8, Zenon DEF Request
<1> QED BY <1>9, <1>10, Zenon DEF Next

\* create_initial_admin makes one administrator and one more for each request
\* that was past admin_exists then; delete_user_post never opens the page again.
THEOREM AccountsSetupBudget == Spec => []SetupBudget
<1>1. Init => SetupInv
  BY DEF Init, SetupInv, DeletesNoAdmin
<1>2. Typed /\ SetupInv => SetupBudget
  <2> SUFFICES ASSUME Typed, SetupInv PROVE selfMade <= 1 + waiting
    BY DEF SetupBudget
  <2>1. selfMade \in Nat /\ waiting \in Nat /\ Cardinality(InSetup) \in Nat
    BY BrowsersCounted DEF Typed, TypeOK, InSetup
  <2> QED BY <2>1 DEF SetupInv
<1> QED BY <1>1, <1>2, SetupStep, AccountsTypeOK, PTL DEF Spec

-----------------------------------------------------------------------------
(* The second factor.                                                       *)

FactorVars == <<secret, totp, ons, clash>>

\* Only three actions write the columns of the second factor.
LEMMA FactorCases ==
  Typed /\ [Next]_vars =>
    \/ UNCHANGED FactorVars
    \/ ResetFactors
    \/ \E b \in Browsers : EnableCommit(b) \/ DisableCommit(b)
<1> SUFFICES ASSUME [Next]_vars
             PROVE  \/ UNCHANGED FactorVars \/ ResetFactors
                    \/ \E b \in Browsers : EnableCommit(b) \/ DisableCommit(b)
  OBVIOUS
<1> USE DEF factor, hlogin, FactorVars
<1>1. ASSUME NEW b \in Browsers,
             \/ Abandon(b) \/ SetupBegin(b) \/ LoginOpen(b) \/ ChallengeDropped(b)
             \/ ChallengeBegin(b) \/ ChallengeOpen(b) \/ Logout(b) \/ DeleteCommit(b)
      PROVE  UNCHANGED FactorVars
  BY <1>1 DEF Abandon, SetupBegin, LoginOpen, ChallengeDropped, ChallengeBegin, ChallengeOpen,
              Logout, OpenSession, DeleteCommit
<1>2. ASSUME NEW b \in Browsers,
             ResetCommit(b) \/ SetupFactor(b) \/ EnableBegin(b) \/ DisableBegin(b)
      PROVE  UNCHANGED FactorVars
  BY <1>2 DEF ResetCommit, SetupFactor, EnableBegin, DisableBegin, LoadFactor
<1>3. ASSUME NEW b \in Browsers, NEW u \in Users,
             \/ SetupCommit(b, u) \/ DeleteBegin(b, u) \/ LoginBegin(b, u) \/ AskForCode(b, u)
             \/ ForgotPurge(b, u) \/ \E role \in BOOLEAN : CreateUser(b, u, role)
      PROVE  UNCHANGED FactorVars
  BY <1>3 DEF SetupCommit, DeleteBegin, LoginBegin, AskForCode, ForgotPurge, CreateUser
<1>4. ASSUME NEW b \in Browsers, NEW t \in Tokens, ForgotInsert(b, t) \/ ResetFind(b, t)
      PROVE  UNCHANGED FactorVars
  BY <1>4 DEF ForgotInsert, ResetFind
<1>5. CASE (\E t \in Tokens : Expire(t)) \/ ReapCommand \/ UNCHANGED vars
  BY <1>5 DEF Expire, ReapCommand, vars
<1>6. CASE \E b \in Browsers : Request(b)
  <2>1. PICK b \in Browsers : Request(b)
    BY <1>6
  <2> QED BY <2>1, <1>1, <1>2, <1>3, <1>4, Zenon DEF Request
<1> QED BY <1>5, <1>6, Zenon DEF Next

\* A write counts as an enabling exactly when it turns the switch on.
LEMMA OnsStep ==
  Typed /\ [Next]_vars =>
    \A u \in Users : /\ ons[u] \in Nat /\ ons'[u] \in Nat /\ ons'[u] >= ons[u]
                     /\ totp'[u] /\ ~totp[u] => ons'[u] > ons[u]
<1> SUFFICES ASSUME Typed, [Next]_vars, NEW u \in Users
             PROVE  /\ ons[u] \in Nat /\ ons'[u] \in Nat /\ ons'[u] >= ons[u]
                    /\ totp'[u] /\ ~totp[u] => ons'[u] > ons[u]
  OBVIOUS
<1>1. ons[u] \in Nat
  BY DEF Typed, TypeOK
<1>2. CASE UNCHANGED FactorVars
  BY <1>1, <1>2 DEF FactorVars
<1>3. CASE ResetFactors
  <2>1. ons' = ons
    BY <1>3 DEF ResetFactors, hlogin
  <2>2. totp'[u] => totp[u]
    BY <1>3, Zenon DEF ResetFactors
  <2> QED BY <1>1, <2>1, <2>2
<1>4. ASSUME NEW b \in Browsers, NEW new, WriteFactor(b, new)
      PROVE  /\ ons'[u] \in Nat /\ ons'[u] >= ons[u]
             /\ totp'[u] /\ ~totp[u] => ons'[u] > ons[u]
  <2> DEFINE on == IF new.totp # seen[b].totp THEN new.totp ELSE totp[who[b]]
  <2>1. /\ totp' = [totp EXCEPT ![who[b]] = on]
        /\ ons' = [ons EXCEPT ![who[b]] = IF on /\ ~totp[who[b]] THEN @ + 1 ELSE @]
    BY <1>4 DEF WriteFactor
  <2> HIDE DEF on
  <2>2. CASE u = who[b]
    BY <1>1, <2>1, <2>2 DEF Typed, TypeOK
  <2>3. CASE u # who[b]
    BY <1>1, <2>1, <2>3 DEF Typed, TypeOK
  <2> QED BY <2>2, <2>3
<1>5. (\E b \in Browsers : EnableCommit(b) \/ DisableCommit(b)) =>
        \E b \in Browsers : \E new : WriteFactor(b, new)
  BY DEF EnableCommit, DisableCommit
<1> QED BY <1>1, <1>2, <1>3, <1>4, <1>5, FactorCases

\* A factor that was off after n enablings and now counts more of them if it
\* is on.
OffAt(n, on, count) == n <= count /\ (on => count > n)

FactorInv ==
  /\ \A b \in Browsers : pc[b] = "login" => OffAt(asked[b], totp[who[b]], ons[who[b]])
  /\ \A b \in Browsers : logged[b] # Nobody /\ ~opened[b].coded
                            => OffAt(opened[b].ons, totp[logged[b]], ons[logged[b]])

LEMMA OffStays ==
  ASSUME Typed, [Next]_vars, NEW u \in Users, NEW n \in Nat, OffAt(n, totp[u], ons[u])
  PROVE  OffAt(n, totp'[u], ons'[u])
<1>1. /\ ons[u] \in Nat /\ ons'[u] \in Nat /\ ons'[u] >= ons[u]
      /\ totp'[u] /\ ~totp[u] => ons'[u] > ons[u]
  BY OnsStep
<1>2. n <= ons'[u]
  BY <1>1 DEF OffAt
<1>3. ASSUME totp'[u] PROVE ons'[u] > n
  <2>1. CASE totp[u]
    BY <1>1, <2>1 DEF OffAt
  <2>2. CASE ~totp[u]
    BY <1>1, <1>3, <2>2 DEF OffAt
  <2> QED BY <2>1, <2>2
<1> QED BY <1>2, <1>3 DEF OffAt

\* What a login remembers of the second factor changes when it is asked for,
\* and goes with the answer.
LEMMA AskedStep ==
  Typed /\ [Next]_vars =>
    \A c \in Browsers : \/ asked'[c] = asked[c]
                        \/ pc'[c] \in {"idle", "code"}
                        \/ \E u \in Users : LoginBegin(c, u)
<1> SUFFICES ASSUME Typed, [Next]_vars, NEW c \in Browsers, asked'[c] # asked[c]
             PROVE  pc'[c] \in {"idle", "code"} \/ \E u \in Users : LoginBegin(c, u)
  OBVIOUS
<1> USE DEF request
<1>1. ASSUME NEW b \in Browsers, ChallengeBegin(b) PROVE b = c /\ pc'[c] = "code"
  BY <1>1 DEF ChallengeBegin, Start, Typed, TypeOK
<1>2. ASSUME NEW b \in Browsers, NEW u \in Users, LoginBegin(b, u) PROVE b = c
  BY <1>2 DEF LoginBegin, Typed, TypeOK
<1>3. ASSUME NEW b \in Browsers, Done(b) PROVE b = c /\ pc'[c] = "idle"
  BY <1>3 DEF Done, Typed, TypeOK
<1>4. ASSUME NEW b \in Browsers,
             \/ Abandon(b) \/ LoginOpen(b) \/ ChallengeOpen(b) \/ DeleteCommit(b)
             \/ ResetCommit(b) \/ EnableCommit(b) \/ DisableCommit(b)
             \/ \E u \in Users : SetupCommit(b, u)
             \/ \E t \in Tokens : ForgotInsert(b, t)
      PROVE  Done(b)
  BY <1>4 DEF Abandon, LoginOpen, ChallengeOpen, DeleteCommit, ResetCommit, EnableCommit,
              DisableCommit, SetupCommit, ForgotInsert, OpenSession, WriteFactor
<1>5. ASSUME NEW b \in Browsers,
             \/ SetupBegin(b) \/ ChallengeDropped(b) \/ Logout(b)
             \/ SetupFactor(b) \/ EnableBegin(b) \/ DisableBegin(b)
      PROVE  FALSE
  BY <1>5 DEF SetupBegin, ChallengeDropped, Logout, SetupFactor, EnableBegin, DisableBegin, LoadFactor
<1>6. ASSUME NEW b \in Browsers,
             \/ \E u \in Users : \/ DeleteBegin(b, u) \/ AskForCode(b, u) \/ ForgotPurge(b, u)
                                 \/ \E role \in BOOLEAN : CreateUser(b, u, role)
             \/ \E t \in Tokens : ResetFind(b, t)
      PROVE  FALSE
  BY <1>6 DEF DeleteBegin, AskForCode, ForgotPurge, CreateUser, ResetFind
<1>7. CASE (\E t \in Tokens : Expire(t)) \/ ReapCommand \/ ResetFactors \/ UNCHANGED vars
  BY <1>7 DEF Expire, ReapCommand, ResetFactors, vars
<1>8. CASE \E b \in Browsers : Request(b)
  <2>1. PICK b \in Browsers : Request(b)
    BY <1>8
  <2> QED BY <2>1, <1>1, <1>2, <1>3, <1>4, <1>5, <1>6, Zenon DEF Request
<1> QED BY <1>7, <1>8, Zenon DEF Next

\* A cookie gets a session from login_user, and only logout takes it away.
LEMMA CookieStep ==
  Typed /\ [Next]_vars =>
    \A c \in Browsers :
      \/ logged'[c] = Nobody
      \/ logged'[c] = logged[c] /\ opened'[c] = opened[c]
      \/ pc[c] = "login" /\ logged'[c] = who[c] /\ opened'[c].ons = asked[c]
      \/ opened'[c].coded
<1> SUFFICES ASSUME Typed, [Next]_vars, NEW c \in Browsers,
                    logged'[c] # Nobody, ~ (logged'[c] = logged[c] /\ opened'[c] = opened[c])
             PROVE  \/ pc[c] = "login" /\ logged'[c] = who[c] /\ opened'[c].ons = asked[c]
                    \/ opened'[c].coded
  OBVIOUS
<1> USE DEF cookies, hlogin
<1>1. ASSUME NEW b \in Browsers, NEW u, NEW coded, OpenSession(b, u, coded)
      PROVE  b = c /\ logged'[c] = u /\ opened'[c].ons = asked[c] /\ opened'[c].coded = coded
  <2>1. /\ logged' = [logged EXCEPT ![b] = u]
        /\ opened' = [opened EXCEPT ![b] = [at |-> changes[u], ons |-> asked[b], coded |-> coded]]
    BY <1>1 DEF OpenSession
  <2>2. b = c
    BY <2>1 DEF Typed, TypeOK
  <2> QED BY <2>1, <2>2 DEF Typed, TypeOK
<1>2. ASSUME NEW b \in Browsers, LoginOpen(b)
      PROVE  pc[c] = "login" /\ logged'[c] = who[c] /\ opened'[c].ons = asked[c]
  BY <1>1, <1>2 DEF LoginOpen
<1>3. ASSUME NEW b \in Browsers, ChallengeOpen(b) PROVE opened'[c].coded
  BY <1>1, <1>3 DEF ChallengeOpen
<1>4. ASSUME NEW b \in Browsers, Logout(b) PROVE FALSE
  BY <1>4 DEF Logout, Typed, TypeOK
<1>5. ASSUME UNCHANGED <<logged, opened>> PROVE FALSE
  BY <1>5
<1>6. ASSUME NEW b \in Browsers,
             \/ Abandon(b) \/ SetupBegin(b) \/ ChallengeDropped(b) \/ ChallengeBegin(b)
             \/ DeleteCommit(b) \/ ResetCommit(b)
      PROVE  UNCHANGED <<logged, opened>>
  BY <1>6 DEF Abandon, SetupBegin, ChallengeDropped, ChallengeBegin, DeleteCommit, ResetCommit
<1>7. ASSUME NEW b \in Browsers,
             \/ SetupFactor(b) \/ EnableBegin(b) \/ DisableBegin(b)
             \/ EnableCommit(b) \/ DisableCommit(b)
      PROVE  UNCHANGED <<logged, opened>>
  BY <1>7 DEF SetupFactor, EnableBegin, DisableBegin, EnableCommit, DisableCommit, LoadFactor,
              WriteFactor
<1>8. ASSUME NEW b \in Browsers, NEW u \in Users,
             \/ SetupCommit(b, u) \/ DeleteBegin(b, u) \/ LoginBegin(b, u) \/ AskForCode(b, u)
             \/ ForgotPurge(b, u) \/ \E role \in BOOLEAN : CreateUser(b, u, role)
      PROVE  UNCHANGED <<logged, opened>>
  BY <1>8 DEF SetupCommit, DeleteBegin, LoginBegin, AskForCode, ForgotPurge, CreateUser
<1>9. ASSUME NEW b \in Browsers, NEW t \in Tokens, ForgotInsert(b, t) \/ ResetFind(b, t)
      PROVE  UNCHANGED <<logged, opened>>
  BY <1>9 DEF ForgotInsert, ResetFind
<1>10. CASE (\E t \in Tokens : Expire(t)) \/ ReapCommand \/ ResetFactors \/ UNCHANGED vars
  <2>1. UNCHANGED <<logged, opened>>
    BY <1>10 DEF Expire, ReapCommand, ResetFactors, vars
  <2> QED BY <1>5, <2>1
<1>11. CASE \E b \in Browsers : Request(b)
  <2>1. PICK b \in Browsers : Request(b)
    BY <1>11
  <2> QED BY <2>1, <1>2, <1>3, <1>4, <1>5, <1>6, <1>7, <1>8, <1>9, Zenon DEF Request
<1> QED BY <1>10, <1>11, Zenon DEF Next

LEMMA FactorStep == Typed /\ FactorInv /\ [Next]_vars => FactorInv'
<1> SUFFICES ASSUME Typed, FactorInv, [Next]_vars, NEW c \in Browsers
             PROVE  /\ pc'[c] = "login" => OffAt(asked'[c], totp'[who'[c]], ons'[who'[c]])
                    /\ logged'[c] # Nobody /\ ~opened'[c].coded
                         => OffAt(opened'[c].ons, totp'[logged'[c]], ons'[logged'[c]])
  BY DEF FactorInv, OffAt
<1>1. ASSUME pc'[c] = "login" PROVE OffAt(asked'[c], totp'[who'[c]], ons'[who'[c]])
  <2>1. CASE pc[c] = "login" /\ who'[c] = who[c] /\ asked'[c] = asked[c]
    <3>1. who[c] \in Users /\ asked[c] \in Nat /\ OffAt(asked[c], totp[who[c]], ons[who[c]])
      BY <2>1 DEF FactorInv, Typed, TypeOK, InHand, Steps
    <3>2. OffAt(asked[c], totp'[who[c]], ons'[who[c]])
      BY <3>1, OffStays
    <3> QED BY <2>1, <3>2
  <2>2. ASSUME NEW u \in Users, LoginBegin(c, u) PROVE OffAt(asked'[c], totp'[who'[c]], ons'[who'[c]])
    <3>1. /\ who'[c] = u /\ asked'[c] = ons[u] /\ ~totp[u] /\ ons' = ons /\ totp' = totp
      BY <2>2 DEF LoginBegin, Start, NeedsCode, factor, hlogin, Typed, TypeOK
    <3>2. ons[u] \in Nat
      BY DEF Typed, TypeOK
    <3> QED BY <3>1, <3>2 DEF OffAt
  <2>3. ~SetupBegin(c) /\ \A u \in Users : ~DeleteBegin(c, u)
    BY <1>1 DEF SetupBegin, DeleteBegin, Start, Typed, TypeOK
  <2> QED BY <1>1, <2>1, <2>2, <2>3, StepsTaken, AskedStep
<1>2. ASSUME logged'[c] # Nobody, ~opened'[c].coded
      PROVE  OffAt(opened'[c].ons, totp'[logged'[c]], ons'[logged'[c]])
  <2>1. CASE logged'[c] = logged[c] /\ opened'[c] = opened[c]
    <3>1. logged[c] \in Users /\ opened[c].ons \in Nat /\ OffAt(opened[c].ons, totp[logged[c]], ons[logged[c]])
      BY <1>2, <2>1 DEF FactorInv, Typed, TypeOK
    <3>2. OffAt(opened[c].ons, totp'[logged[c]], ons'[logged[c]])
      BY <3>1, OffStays
    <3> QED BY <2>1, <3>2
  <2>2. CASE pc[c] = "login" /\ logged'[c] = who[c] /\ opened'[c].ons = asked[c]
    <3>1. who[c] \in Users /\ asked[c] \in Nat /\ OffAt(asked[c], totp[who[c]], ons[who[c]])
      BY <2>2 DEF FactorInv, Typed, TypeOK, InHand, Steps
    <3>2. OffAt(asked[c], totp'[who[c]], ons'[who[c]])
      BY <3>1, OffStays
    <3> QED BY <2>2, <3>2
  <2> QED BY <1>2, <2>1, <2>2, CookieStep
<1> QED BY <1>1, <1>2

\* login_post asks for a code when totp_enabled: a session opened without one
\* was asked for before the factor was last enabled, if it is on.
THEOREM AccountsNoCodeNoFactor == Spec => []NoCodeNoFactor
<1>1. Init => FactorInv
  BY DEF Init, FactorInv
<1>2. FactorInv => NoCodeNoFactor
  BY DEF FactorInv, NoCodeNoFactor, Accepted, OffAt
<1> QED BY <1>1, <1>2, FactorStep, AccountsTypeOK, PTL DEF Spec

LEMMA WholeStep == Typed /\ FactorWhole /\ [Next]_vars => FactorWhole'
<1> SUFFICES ASSUME Typed, FactorWhole, [Next]_vars, NEW u \in Users, ~clash'[u]
             PROVE  totp'[u] <=> secret'[u] # 0
  BY DEF FactorWhole
<1>1. CASE UNCHANGED FactorVars
  BY <1>1 DEF FactorVars, FactorWhole
<1>2. CASE ResetFactors
  <2>1. secret'[u] = 0 /\ totp'[u] = (secret[u] = 0 /\ totp[u]) /\ clash'[u] = (secret[u] = 0 /\ clash[u])
    BY <1>2 DEF ResetFactors
  <2> QED BY <2>1 DEF FactorWhole
<1>3. ASSUME NEW b \in Browsers, NEW new \in Factors, WriteFactor(b, new), who[b] \in Users,
             seen[b] \in Factors, new.totp <=> new.secret # 0
      PROVE  totp'[u] <=> secret'[u] # 0
  <2>1. CASE u # who[b]
    <3>1. secret'[u] = secret[u] /\ totp'[u] = totp[u] /\ clash'[u] = clash[u]
      BY <1>3, <2>1 DEF WriteFactor, Typed, TypeOK
    <3> QED BY <3>1 DEF FactorWhole
  <2>2. CASE u = who[b]
    <3>1. /\ secret'[u] = IF new.secret # 0 \/ seen[b].secret # 0 THEN new.secret ELSE secret[u]
          /\ totp'[u] = IF new.totp # seen[b].totp THEN new.totp ELSE totp[u]
      BY <1>3, <2>2 DEF WriteFactor, Typed, TypeOK
    <3>2. clash'[u] = (clash[u] \/ seen[b] # FactorOf(u))
      BY <1>3, <2>2 DEF WriteFactor, Typed, TypeOK
    <3>3. ~clash[u] /\ seen[b] = FactorOf(u)
      BY <3>2
    <3>4. seen[b].secret = secret[u] /\ seen[b].totp = totp[u]
      BY <3>3 DEF FactorOf
    <3>5. secret'[u] = new.secret /\ totp'[u] = new.totp
      BY <3>1, <3>4
    <3> QED BY <1>3, <3>5
  <2> QED BY <2>1, <2>2
<1>4. ASSUME NEW b \in Browsers, EnableCommit(b) PROVE totp'[u] <=> secret'[u] # 0
  <2>1. pending[b] \in 0..MaxSecrets /\ pending[b] # 0 /\ who[b] \in Users /\ seen[b] \in Factors
    BY <1>4 DEF EnableCommit, Typed, TypeOK, InHand, Steps
  <2>2. AfterEnable(b) \in Factors /\ (AfterEnable(b).totp <=> AfterEnable(b).secret # 0)
    BY <2>1 DEF AfterEnable, Factors
  <2> QED BY <1>3, <1>4, <2>1, <2>2 DEF EnableCommit
<1>5. ASSUME NEW b \in Browsers, DisableCommit(b) PROVE totp'[u] <=> secret'[u] # 0
  <2>1. who[b] \in Users /\ seen[b] \in Factors
    BY <1>5 DEF DisableCommit, Typed, TypeOK, InHand, Steps
  <2>2. AfterDisable(b) \in Factors /\ (AfterDisable(b).totp <=> AfterDisable(b).secret # 0)
    BY DEF AfterDisable, Factors
  <2> QED BY <1>3, <1>5, <2>1, <2>2 DEF DisableCommit
<1> QED BY <1>1, <1>2, <1>4, <1>5, FactorCases

\* mfa_enable, mfa_disable and reset_encrypted_secrets leave totp_enabled and
\* totp_secret in agreement unless two of them overlapped on one account.
THEOREM AccountsFactorWhole == Spec => []FactorWhole
<1>1. Init => FactorWhole
  BY DEF Init, FactorWhole
<1> QED BY <1>1, WholeStep, AccountsTypeOK, PTL DEF Spec
=============================================================================
