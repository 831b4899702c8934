-------------------------- MODULE Sessions_proofs --------------------------
(***************************************************************************)
(* What holds of an account, its sessions and the browser for any number   *)
(* of processes, sessions, links and tabs, with whatever topics of theirs  *)
(* meet in one behaviour.                                                  *)
(***************************************************************************)
EXTENDS Sessions, FiniteSetTheorems, TLAPS

----------------------------------------------------------------------------
(* The inductive invariant.                                                *)

Shape ==
  /\ account \in Account /\ factor \in Factor
  /\ session \in [Sessions -> Session]
  /\ reset \in [Resets -> Reset]
  /\ clerk \in [Clerks -> Request \cup {None}]
  /\ issued \in 0..MaxCode /\ challenge \in 0..MaxPassword
  /\ uses \in [1..MaxCode -> Nat]
  /\ proven \in 0..MaxSecret /\ cutoff \in 1..MaxPassword
  /\ blind \in BOOLEAN
  /\ cookie \in Credential \cup {None} /\ token \in Credential \cup {None}
  /\ tab \in [Tabs -> Attempt \cup {None}]
  /\ disturbed \subseteq Sessions

Follow == cutoff <= account.password /\ SessionsFollowAccount

\* A code that can still be given was not used, nor was one not made yet.
CodesFresh ==
  \A code \in 1..MaxCode :
    /\ uses[code] <= 1
    /\ code \in factor.codes => uses[code] = 0 /\ code <= issued
    /\ code > issued => uses[code] = 0

FactorProven == ~blind => IF Verified THEN factor.secret = proven ELSE factor.codes = {}

OneOpen == ~blind => \A x, y \in Open : x = y

\* The session a credential is of.
Of(credential, s) == credential # None /\ credential.session = s

\* Nothing is known of a session that does not exist, ...
NotYet ==
  \A s \in Sessions : session[s].state = "ABSENT" =>
    /\ ~Of(cookie, s) /\ ~Of(token, s)
    /\ \A t \in Tabs : tab[t] # None => ~Of(tab[t].held, s)

\* ... and of one that was never disturbed at most one renewal is under way,
\* with the credential the session will accept, or has answered.
Undisturbed(s) ==
  /\ session[s].state # "REPLAYED"
  /\ \A t, u \in InFlight : Of(tab[t].held, s) /\ Of(tab[u].held, s) => t = u
  /\ \A t \in InFlight : Of(tab[t].held, s) => tab[t].held.gen = session[s].gen
  /\ Of(cookie, s) =>
       \/ cookie.gen = session[s].gen
       \/ \E t \in Tabs : Is(t, "ROTATED") /\ Of(tab[t].held, s)

Answers ==
  \A t \in Tabs :
    /\ Is(t, "DENIED") => tab[t].held = None
    /\ Is(t, "ROTATED") => tab[t].held # None

RenewalInv ==
  /\ NotYet
  /\ Answers
  /\ \A s \in Sessions : s \notin disturbed => Undisturbed(s)

AccountInv == Shape /\ Follow /\ CodesFresh /\ FactorProven /\ OneOpen

----------------------------------------------------------------------------
(* What the steps of a request do to anything but the request itself.      *)

Quiet == UNCHANGED <<account, factor, session, reset, issued, uses, proven, cutoff, blind>>

Spent(code) ==
  Spend(code) /\ UNCHANGED <<account, session, reset, issued, proven, cutoff, blind>>

Effects ==
  \/ Quiet
  \/ \E code \in 0..MaxCode : Spent(code)
  \/ \E s \in Sessions : RevokeSession(s) \/ ExpireSession(s)
  \/ \E status \in {"active", "disabled"} : SetStatus(status)
  \/ IssueTemporaryPassword
  \/ \E c \in Clerks :
       \/ ChangeCommit(c) \/ ResetMail(c)
       \/ EnrolCommit(c) \/ ProveCommit(c) \/ ReplaceCommit(c) \/ DisableCommit(c)
       \/ \E r \in Resets : ResetCommit(c, r)
  \/ \E r \in Resets : CompleteReset(r) \/ ExpireReset(r)

LEMMA RequestEffects == AccountStep => Effects
<1> SUFFICES ASSUME AccountStep PROVE Effects
  OBVIOUS
<1>1. ASSUME NEW c \in Clerks,
             \/ SignInPassword(c) \/ SignInFactor(c) \/ IssueUser(c) \/ IssueFactor(c)
             \/ ChangeLook(c) \/ ResetAsk(c) \/ ResetSweep(c)
             \/ EnrolUser(c) \/ EnrolFactor(c) \/ ProveLook(c) \/ ReplaceLook(c) \/ Fail(c)
             \/ \E code \in 0..MaxCode : DisableLook(c, code)
      PROVE  Quiet
  BY <1>1 DEF SignInPassword, SignInFactor, IssueUser, IssueFactor, ChangeLook, ResetAsk,
              ResetSweep, EnrolUser, EnrolFactor, ProveLook, ReplaceLook, Fail, DisableLook, Quiet
<1>2. ASSUME NEW c \in Clerks, NEW code \in 0..MaxCode, MfaSignIn(c, code) PROVE Spent(code)
  BY <1>2 DEF MfaSignIn, Spent
<1>3. ASSUME NEW code \in 0..MaxCode, StepUp(code) PROVE Spent(code)
  BY <1>3 DEF StepUp, Spent
<1>4. ForgetChallenge => Quiet
  BY DEF ForgetChallenge, Quiet
<1> QED
  BY <1>1, <1>2, <1>3, <1>4 DEF AccountStep, Effects

LEMMA StepEffects ==
  Shape /\ [Next]_vars =>
    \/ Effects
    \/ \E c \in Clerks, s \in Sessions : IssueInsert(c, s)
    \/ \E t \in Tabs : Renew(t)
<1> SUFFICES ASSUME Shape, [Next]_vars
             PROVE  \/ Effects
                    \/ \E c \in Clerks, s \in Sessions : IssueInsert(c, s)
                    \/ \E t \in Tabs : Renew(t)
  OBVIOUS
<1>1. UNCHANGED vars => Quiet
  BY DEF vars, accountVars, Quiet
<1>2. ASSUME NEW t \in Tabs, Refused(t) \/ Reuse(t) \/ Send(t) \/ AnswerArrives(t) \/ CallFails(t)
      PROVE  Quiet
  BY <1>2 DEF Refused, Reuse, Send, AnswerArrives, CallFails, accountVars, Quiet
<1>3. ASSUME SignOut PROVE Effects
  <2>1. RevokeSession(token.session) /\ token.session \in Sessions
    BY <1>3 DEF SignOut, Shape, Credential
  <2> QED
    BY <2>1 DEF Effects
<1>4. ASSUME AccountStep PROVE Effects
  BY <1>4, RequestEffects
<1>5. Quiet => Effects
  BY DEF Effects
<1>6. CASE [Next]_vars
  BY <1>1, <1>2, <1>3, <1>4, <1>5, <1>6 DEF Next, SignIn
<1> QED
  BY <1>6

----------------------------------------------------------------------------
(* Sessions under these effects.                                           *)

OnlyEnds ==
  \A s \in Sessions :
    \/ session'[s] = session[s]
    \/ /\ session[s].state = "LIVE" /\ session'[s].state \in {"REVOKED", "EXPIRED"}
       /\ session'[s].gen = session[s].gen

Ended == \A s \in Sessions : session'[s].state # "LIVE"

LEMMA EndAllEnds ==
  ASSUME Shape, EndAll
  PROVE  session' \in [Sessions -> Session] /\ OnlyEnds /\ Ended
<1>1. ASSUME NEW s \in Sessions
      PROVE  /\ session[s] \in Session /\ session'[s] \in Session
             /\ IF session[s].state = "LIVE"
                THEN session'[s].state = "REVOKED" /\ session'[s].gen = session[s].gen
                ELSE session'[s] = session[s]
  <2>1. session[s] \in Session
    BY DEF Shape
  <2>2. session'[s] = IF session[s].state = "LIVE"
                      THEN [session[s] EXCEPT !.state = "REVOKED"] ELSE session[s]
    BY DEF EndAll
  <2> QED
    BY <2>1, <2>2 DEF Session
<1>2. session' \in [Sessions -> Session]
  BY <1>1 DEF EndAll
<1> QED
  BY <1>1, <1>2 DEF OnlyEnds, Ended

LEMMA OneEnds ==
  ASSUME Shape, NEW s \in Sessions, RevokeSession(s) \/ ExpireSession(s)
  PROVE  session' \in [Sessions -> Session] /\ OnlyEnds
<1>1. PICK state \in {"REVOKED", "EXPIRED"} :
        session[s].state = "LIVE" /\ session' = [session EXCEPT ![s].state = state]
  BY DEF RevokeSession, ExpireSession
<1>2. session \in [Sessions -> Session]
  BY DEF Shape
<1> QED
  BY <1>1, <1>2 DEF OnlyEnds, Session

LEMMA EffectsOnSessions ==
  ASSUME Shape, Effects
  PROVE  session' \in [Sessions -> Session] /\ OnlyEnds
<1>1. CASE UNCHANGED session
  BY <1>1 DEF OnlyEnds, Shape
<1>2. CASE EndAll
  BY <1>2, EndAllEnds
<1>3. CASE \E s \in Sessions : RevokeSession(s) \/ ExpireSession(s)
  BY <1>3, OneEnds
<1>4. UNCHANGED session \/ EndAll \/ \E s \in Sessions : RevokeSession(s) \/ ExpireSession(s)
  BY DEF Effects, Quiet, Spent, SetStatus, IssueTemporaryPassword, ChangeCommit, ResetMail,
         EnrolCommit, ProveCommit, ReplaceCommit, DisableCommit, ResetCommit, CompleteReset,
         ExpireReset
<1> QED
  BY <1>1, <1>2, <1>3, <1>4

----------------------------------------------------------------------------
(* Types.                                                                  *)

Clerked == clerk' \in [Clerks -> Request \cup {None}]

Ops == {"SIGN_IN", "CHANGE", "RESET", "ENROL", "PROVE", "REPLACE", "DISABLE"}

LEMMA RequestFields ==
  ASSUME NEW r \in Request
  PROVE  /\ r.op \in Ops /\ r.step \in Steps /\ r.password \in 1..MaxPassword
         /\ r.factor \in Factor /\ r.level \in Levels /\ r.code \in 0..MaxCode
         /\ r.swept \subseteq Resets /\ r.reset \in Resets \cup {None}
BY DEF Request, Ops

LEMMA TakeType ==
  ASSUME Shape, NEW c \in Clerks, NEW op \in Ops, NEW step \in Steps, Take(c, op, step)
  PROVE  Clerked
<1> DEFINE new == [op |-> op, step |-> step, password |-> account.password, factor |-> factor,
                   level |-> "aal1", code |-> 0, swept |-> {}, reset |-> None]
<1>1. account.password \in 1..MaxPassword /\ factor \in Factor /\ 0 \in 0..MaxCode
  BY AccountConstants DEF Shape, Account
<1>2. new \in Request
  BY <1>1 DEF Request, Ops, Levels
<1>3. clerk' = [clerk EXCEPT ![c] = new] /\ clerk \in [Clerks -> Request \cup {None}]
  BY DEF Take, Shape
<1> QED
  BY <1>2, <1>3 DEF Clerked

LEMMA GoToType ==
  ASSUME Shape, NEW c \in Clerks, clerk[c] # None, NEW step \in Steps, GoTo(c, step)
  PROVE  Clerked
<1>1. clerk[c] \in Request /\ clerk \in [Clerks -> Request \cup {None}]
  BY DEF Shape
<1>2. [clerk[c] EXCEPT !.step = step] \in Request
  BY <1>1 DEF Request
<1> QED
  BY <1>1, <1>2 DEF Clerked, GoTo

LEMMA DoneType ==
  ASSUME Shape, NEW c \in Clerks, Done(c)
  PROVE  Clerked
BY DEF Shape, Clerked, Done

LEMMA StepsAre ==
  /\ {"FACTOR", "USER", "AGAIN", "INSERT", "SWEEP", "SWEPT", "MAIL", "COMMIT"} \subseteq Steps
  /\ {"SIGN_IN", "CHANGE", "RESET", "ENROL", "PROVE", "REPLACE", "DISABLE"} \subseteq Ops
BY DEF Steps, Ops

LEMMA RequestTypes ==
  ASSUME Shape, NEW c \in Clerks,
         \/ SignInPassword(c) \/ SignInFactor(c) \/ IssueUser(c) \/ IssueFactor(c)
         \/ ChangeLook(c) \/ ChangeCommit(c) \/ ResetAsk(c) \/ ResetMail(c)
         \/ EnrolUser(c) \/ EnrolFactor(c) \/ EnrolCommit(c)
         \/ ProveLook(c) \/ ProveCommit(c) \/ ReplaceLook(c) \/ ReplaceCommit(c)
         \/ DisableCommit(c) \/ Fail(c)
  PROVE  Clerked
<1> USE StepsAre
<1>1. ASSUME \/ SignInPassword(c) \/ ChangeLook(c) \/ ResetAsk(c) \/ EnrolUser(c)
             \/ ProveLook(c) \/ ReplaceLook(c)
      PROVE  Clerked
  BY <1>1, TakeType DEF SignInPassword, ChangeLook, ResetAsk, EnrolUser, ProveLook, ReplaceLook
<1>2. ASSUME IssueUser(c) \/ IssueFactor(c) \/ EnrolFactor(c) PROVE Clerked
  BY <1>2, GoToType DEF IssueUser, IssueFactor, EnrolFactor, At
<1>3. ASSUME \/ ChangeCommit(c) \/ ResetMail(c) \/ EnrolCommit(c) \/ ProveCommit(c)
             \/ ReplaceCommit(c) \/ DisableCommit(c) \/ Fail(c)
      PROVE  Clerked
  BY <1>3, DoneType DEF ChangeCommit, ResetMail, EnrolCommit, ProveCommit, ReplaceCommit,
                        DisableCommit, Fail
<1>4. ASSUME SignInFactor(c) PROVE Clerked
  BY <1>4, GoToType, DoneType DEF SignInFactor, At
<1> QED
  BY <1>1, <1>2, <1>3, <1>4

LEMMA SpendType ==
  ASSUME Shape, NEW code \in 0..MaxCode, Spend(code)
  PROVE  factor' \in Factor /\ uses' \in [1..MaxCode -> Nat]
<1>1. factor \in Factor /\ uses \in [1..MaxCode -> Nat] /\ MaxCode \in Nat
  BY AccountConstants DEF Shape
<1>2. factor' \in Factor
  BY <1>1 DEF Spend, Factor
<1>3. CASE code = 0
  BY <1>1, <1>2, <1>3 DEF Spend
<1>4. CASE code # 0
  BY <1>1, <1>2, <1>4 DEF Spend
<1> QED
  BY <1>3, <1>4

LEMMA OtherRequestTypes ==
  ASSUME Shape, NEW c \in Clerks,
         \/ \E code \in 0..MaxCode : MfaSignIn(c, code) \/ DisableLook(c, code)
         \/ ResetSweep(c)
         \/ \E r \in Resets : ResetCommit(c, r)
  PROVE  Clerked
<1>0. /\ clerk \in [Clerks -> Request \cup {None}]
      /\ account.password \in 1..MaxPassword /\ factor \in Factor /\ 0 \in 0..MaxCode
      /\ challenge \in 0..MaxPassword
  BY AccountConstants DEF Shape, Account
<1>1. ASSUME NEW code \in 0..MaxCode, MfaSignIn(c, code) PROVE Clerked
  <2> DEFINE new == [op |-> "SIGN_IN", step |-> "USER", password |-> challenge, factor |-> factor',
                     level |-> "aal2", code |-> 0, swept |-> {}, reset |-> None]
  <2>1. factor' \in Factor
    BY <1>1, SpendType DEF MfaSignIn
  <2>2. challenge \in 1..MaxPassword
    BY <1>0, <1>1 DEF MfaSignIn
  <2>3. new \in Request
    BY <1>0, <2>1, <2>2 DEF Request, Levels, Steps
  <2>4. clerk' = [clerk EXCEPT ![c] = new]
    BY <1>1 DEF MfaSignIn
  <2> QED
    BY <1>0, <2>3, <2>4 DEF Clerked
<1>2. ASSUME NEW code \in 0..MaxCode, DisableLook(c, code) PROVE Clerked
  <2> DEFINE new == [op |-> "DISABLE", step |-> "COMMIT", password |-> account.password,
                     factor |-> factor, level |-> "aal1", code |-> code, swept |-> {},
                     reset |-> None]
  <2>1. new \in Request
    BY <1>0 DEF Request, Levels, Steps
  <2>2. clerk' = [clerk EXCEPT ![c] = new]
    BY <1>2 DEF DisableLook
  <2> QED
    BY <1>0, <2>1, <2>2 DEF Clerked
<1>3. ASSUME ResetSweep(c) PROVE Clerked
  <2>1. clerk[c] \in Request /\ Open \in SUBSET Resets
    BY <1>0, <1>3 DEF ResetSweep, At, Open
  <2>2. [clerk[c] EXCEPT !.step = "SWEPT", !.swept = Open] \in Request
    BY <2>1 DEF Request, Steps
  <2>3. clerk' = [clerk EXCEPT ![c] = [clerk[c] EXCEPT !.step = "SWEPT", !.swept = Open]]
    BY <1>0, <1>3 DEF ResetSweep
  <2> QED
    BY <1>0, <2>2, <2>3 DEF Clerked
<1>4. ASSUME NEW r \in Resets, ResetCommit(c, r) PROVE Clerked
  <2>1. clerk[c] \in Request
    BY <1>0, <1>4 DEF ResetCommit, At
  <2>2. [clerk[c] EXCEPT !.step = "MAIL", !.reset = r] \in Request
    BY <2>1 DEF Request, Steps
  <2>3. clerk' = [clerk EXCEPT ![c] = [clerk[c] EXCEPT !.step = "MAIL", !.reset = r]]
    BY <1>0, <1>4 DEF ResetCommit
  <2> QED
    BY <1>0, <2>2, <2>3 DEF Clerked
<1> QED
  BY <1>1, <1>2, <1>3, <1>4

LEMMA ClerkType ==
  ASSUME Shape, AccountStep
  PROVE  Clerked /\ challenge' \in 0..MaxPassword
<1>1. Clerked
  <2>1. ASSUME UNCHANGED clerk PROVE Clerked
    BY <2>1 DEF Clerked, Shape
  <2>2. ASSUME \/ ForgetChallenge \/ IssueTemporaryPassword
               \/ \E code \in 0..MaxCode : StepUp(code)
               \/ \E s \in Sessions : RevokeSession(s) \/ ExpireSession(s)
               \/ \E status \in {"active", "disabled"} : SetStatus(status)
               \/ \E r \in Resets : CompleteReset(r) \/ ExpireReset(r)
        PROVE  Clerked
    BY <2>1, <2>2 DEF ForgetChallenge, IssueTemporaryPassword, StepUp, RevokeSession,
                      ExpireSession, SetStatus, CompleteReset, ExpireReset
  <2> QED
    BY <2>2, RequestTypes, OtherRequestTypes DEF AccountStep
<1>2. challenge' \in 0..MaxPassword
  <2>1. challenge \in 0..MaxPassword /\ 0 \in 0..MaxPassword
    BY AccountConstants DEF Shape
  <2>2. ASSUME NEW c \in Clerks, SignInFactor(c) PROVE challenge' \in 0..MaxPassword
    <3>1. clerk[c].password \in 1..MaxPassword
      BY <2>2, RequestFields DEF SignInFactor, At, Shape
    <3> QED
      BY <2>1, <2>2, <3>1 DEF SignInFactor
  <2>3. ASSUME UNCHANGED challenge \/ challenge' = 0 PROVE challenge' \in 0..MaxPassword
    BY <2>1, <2>3
  <2>4. ASSUME NEW c \in Clerks,
               \/ SignInPassword(c) \/ IssueUser(c) \/ IssueFactor(c)
               \/ (\E code \in 0..MaxCode : MfaSignIn(c, code) \/ DisableLook(c, code))
               \/ ChangeLook(c) \/ ChangeCommit(c)
               \/ ResetAsk(c) \/ ResetSweep(c) \/ ResetMail(c) \/ (\E r \in Resets : ResetCommit(c, r))
               \/ EnrolUser(c) \/ EnrolFactor(c) \/ EnrolCommit(c)
               \/ ProveLook(c) \/ ProveCommit(c) \/ ReplaceLook(c) \/ ReplaceCommit(c)
               \/ DisableCommit(c) \/ Fail(c)
        PROVE  UNCHANGED challenge
    BY <2>4 DEF SignInPassword, IssueUser, IssueFactor, MfaSignIn, DisableLook, ChangeLook,
                ChangeCommit, ResetAsk, ResetSweep, ResetMail, ResetCommit, EnrolUser, EnrolFactor,
                EnrolCommit, ProveLook, ProveCommit, ReplaceLook, ReplaceCommit, DisableCommit, Fail
  <2>5. ASSUME \/ ForgetChallenge \/ IssueTemporaryPassword
               \/ \E code \in 0..MaxCode : StepUp(code)
               \/ \E s \in Sessions : RevokeSession(s) \/ ExpireSession(s)
               \/ \E status \in {"active", "disabled"} : SetStatus(status)
               \/ \E r \in Resets : CompleteReset(r) \/ ExpireReset(r)
        PROVE  UNCHANGED challenge \/ challenge' = 0
    BY <2>5 DEF ForgetChallenge, IssueTemporaryPassword, StepUp, RevokeSession,
                ExpireSession, SetStatus, CompleteReset, ExpireReset
  <2> QED
    BY <2>2, <2>3, <2>4, <2>5 DEF AccountStep
<1> QED
  BY <1>1, <1>2

\* The types of everything but sessions and requests.
Recorded ==
  /\ account \in Account /\ factor \in Factor
  /\ reset \in [Resets -> Reset]
  /\ issued \in 0..MaxCode
  /\ uses \in [1..MaxCode -> Nat]
  /\ proven \in 0..MaxSecret /\ cutoff \in 1..MaxPassword
  /\ blind \in BOOLEAN

LEMMA EffectTypes == Shape /\ Effects => Recorded'
<1> SUFFICES ASSUME Shape, Effects PROVE Recorded'
  OBVIOUS
<1> USE DEF Recorded
<1>1. /\ Recorded /\ clerk \in [Clerks -> Request \cup {None}]
      /\ {MaxPassword, MaxSecret, MaxCode} \subseteq Nat \ {0}
  BY AccountConstants DEF Shape
<1>2. ASSUME Quiet PROVE Recorded'
  BY <1>1, <1>2 DEF Quiet
<1>3. ASSUME NEW code \in 0..MaxCode, Spent(code) PROVE Recorded'
  BY <1>1, <1>3, SpendType DEF Spent
<1>4. ASSUME NEW s \in Sessions, RevokeSession(s) \/ ExpireSession(s) PROVE Recorded'
  BY <1>1, <1>4 DEF RevokeSession, ExpireSession
<1>5. ASSUME NEW status \in {"active", "disabled"}, SetStatus(status) PROVE Recorded'
  BY <1>1, <1>5 DEF SetStatus, Account
<1>6. ASSUME NewPassword(TRUE) \/ NewPassword(FALSE)
      PROVE  account' \in Account /\ account'.password \in 1..MaxPassword
  <2>1. account.password \in 1..MaxPassword /\ MaxPassword \in Nat
    BY <1>1 DEF Account
  <2>2. account.password < MaxPassword
    BY <1>6 DEF NewPassword
  <2>3. account.password + 1 \in 1..MaxPassword
    BY <2>1, <2>2
  <2>4. \E temporary \in BOOLEAN :
          account' = [status |-> "active", password |-> account.password + 1,
                      temporary |-> temporary]
    BY <1>6 DEF NewPassword
  <2> QED
    BY <2>3, <2>4 DEF Account
<1>7. ASSUME IssueTemporaryPassword PROVE Recorded'
  BY <1>1, <1>6, <1>7 DEF IssueTemporaryPassword
<1>8. ASSUME NEW c \in Clerks, ChangeCommit(c) PROVE Recorded'
  <2>1. account.password \in 1..MaxPassword /\ MaxPassword \in Nat
    BY <1>1 DEF Account
  <2>2. account.password < MaxPassword
    BY <1>8 DEF ChangeCommit
  <2>3. account.password + 1 \in 1..MaxPassword
    BY <2>1, <2>2
  <2>4. account' \in Account
    BY <1>1, <1>8, <2>3 DEF ChangeCommit, Account
  <2> QED
    BY <1>1, <1>8, <2>4 DEF ChangeCommit, Rest
<1>9. ASSUME NEW c \in Clerks, ResetMail(c) PROVE Recorded'
  <2>1. reset' \in [Resets -> Reset]
    BY <1>1, <1>9 DEF ResetMail, Reset
  <2> QED
    BY <1>1, <1>9, <2>1 DEF ResetMail
<1>10. ASSUME NEW c \in Clerks, EnrolCommit(c) PROVE Recorded'
  <2>1. Pending \in Factor
    BY <1>1, <1>10 DEF EnrolCommit, Pending, Factor
  <2> QED
    BY <1>1, <1>10, <2>1 DEF EnrolCommit, Rest
<1>11. ASSUME NewCodes PROVE issued' \in 1..MaxCode /\ issued' = issued + 1
  BY <1>1, <1>11 DEF NewCodes
<1>12. ASSUME NEW c \in Clerks, ProveCommit(c) PROVE Recorded'
  <2>1. issued' \in 1..MaxCode
    BY <1>11, <1>12 DEF ProveCommit
  <2>2. factor' \in Factor
    BY <1>1, <1>12, <2>1 DEF ProveCommit, Factor
  <2>3. clerk[c].factor.secret \in 0..MaxSecret
    BY <1>1, <1>12, RequestFields DEF ProveCommit, At, Factor
  <2> QED
    BY <1>1, <1>12, <2>1, <2>2, <2>3 DEF ProveCommit, Rest
<1>13. ASSUME NEW c \in Clerks, ReplaceCommit(c) PROVE Recorded'
  <2>1. issued' \in 1..MaxCode
    BY <1>11, <1>13 DEF ReplaceCommit
  <2>2. factor' \in Factor
    BY <1>1, <1>13, <2>1 DEF ReplaceCommit, Factor
  <2> QED
    BY <1>1, <1>13, <2>1, <2>2 DEF ReplaceCommit, Rest
<1>14. ASSUME NEW c \in Clerks, DisableCommit(c) PROVE Recorded'
  <2>1. factor' \in Factor
    BY <1>1, <1>14 DEF DisableCommit, Factor
  <2> QED
    BY <1>1, <1>14, <2>1 DEF DisableCommit, Rest
<1>15. ASSUME NEW c \in Clerks, NEW r \in Resets, ResetCommit(c, r) PROVE Recorded'
  <2>1. reset' \in [Resets -> Reset]
    BY <1>1, <1>15 DEF ResetCommit, Swept, Reset
  <2> QED
    BY <1>1, <1>15, <2>1 DEF ResetCommit, Rest
<1>16. ASSUME NEW r \in Resets, CompleteReset(r) \/ ExpireReset(r) PROVE Recorded'
  <2>1. reset' \in [Resets -> Reset]
    BY <1>1, <1>16 DEF CompleteReset, ExpireReset, Reset
  <2> QED
    BY <1>1, <1>6, <1>16, <2>1 DEF CompleteReset, ExpireReset
<1> QED
  BY <1>2, <1>3, <1>4, <1>5, <1>7, <1>8, <1>9, <1>10, <1>12, <1>13, <1>14, <1>15, <1>16
  DEF Effects

----------------------------------------------------------------------------
(* Sessions follow the account.                                            *)

\* Sessions may end, the factor may go, and an outdated look stays recorded.
LEMMA FollowStays ==
  ASSUME Follow, OnlyEnds, UNCHANGED cutoff, account'.password = account.password,
         account'.status = account.status, blind => blind',
         factor'.status = factor.status \/ factor'.status # "VERIFIED"
  PROVE  Follow'
<1>1. ASSUME ~blind', NEW s \in Sessions, session'[s].state = "LIVE"
      PROVE  Active' /\ session'[s].password >= cutoff' /\ (Verified' => session'[s].level = "aal2")
  <2>1. session'[s] = session[s] /\ session[s].state = "LIVE"
    BY <1>1 DEF OnlyEnds
  <2>2. Active /\ session[s].password >= cutoff /\ (Verified => session[s].level = "aal2")
    BY <1>1, <2>1 DEF Follow, SessionsFollowAccount
  <2> QED
    BY <2>1, <2>2 DEF Active, Verified
<1>2. cutoff' <= account'.password
  BY DEF Follow
<1> QED
  BY <1>1, <1>2 DEF Follow, SessionsFollowAccount

LEMMA FollowEnded ==
  ASSUME Ended, cutoff' <= account'.password
  PROVE  Follow'
<1>1. \A s \in Sessions : session'[s].state # "LIVE"
  BY DEF Ended
<1> QED
  BY <1>1 DEF Follow, SessionsFollowAccount

LEMMA EffectsFollow == Shape /\ Follow /\ Effects => Follow'
<1> SUFFICES ASSUME Shape, Follow, Effects PROVE Follow'
  OBVIOUS
<1>1. /\ account \in Account /\ account.password \in 1..MaxPassword /\ cutoff \in 1..MaxPassword
      /\ MaxPassword \in Nat /\ cutoff <= account.password /\ blind \in BOOLEAN
  BY AccountConstants DEF Shape, Follow, Account
<1>2. OnlyEnds
  BY EffectsOnSessions
<1>3. ASSUME Quiet PROVE Follow'
  BY <1>2, <1>3, FollowStays DEF Quiet
<1>4. ASSUME NEW code \in 0..MaxCode, Spent(code) PROVE Follow'
  <2>1. factor'.status = factor.status
    BY <1>4 DEF Spent, Spend, Shape, Factor
  <2> QED
    BY <1>2, <1>4, <2>1, FollowStays DEF Spent
<1>5. ASSUME NEW s \in Sessions, RevokeSession(s) \/ ExpireSession(s) PROVE Follow'
  BY <1>2, <1>5, FollowStays DEF RevokeSession, ExpireSession
<1>6. ASSUME NEW status \in {"active", "disabled"}, SetStatus(status) PROVE Follow'
  <2>1. account'.password = account.password /\ account'.status = status
    BY <1>1, <1>6 DEF SetStatus, Account
  <2>2. CASE status = "disabled"
    BY <1>1, <1>6, <2>1, <2>2, EndAllEnds, FollowEnded DEF SetStatus
  <2>3. CASE status = "active"
    BY <1>1, <1>6, <2>1, <2>3 DEF SetStatus, Follow, SessionsFollowAccount, Active, Verified
  <2> QED
    BY <2>2, <2>3
<1>7. ASSUME NewPassword(TRUE) \/ NewPassword(FALSE), cutoff' = account'.password
      PROVE  cutoff' <= account'.password
  BY <1>1, <1>7 DEF NewPassword
<1>8. ASSUME IssueTemporaryPassword PROVE Follow'
  BY <1>7, <1>8, EndAllEnds, FollowEnded DEF IssueTemporaryPassword
<1>9. ASSUME NEW r \in Resets, CompleteReset(r) PROVE Follow'
  BY <1>7, <1>9, EndAllEnds, FollowEnded DEF CompleteReset
<1>10. ASSUME NEW c \in Clerks, ProveCommit(c) \/ DisableCommit(c) PROVE Follow'
  BY <1>1, <1>10, EndAllEnds, FollowEnded DEF ProveCommit, DisableCommit
<1>11. ASSUME NEW c \in Clerks, ChangeCommit(c) PROVE Follow'
  <2>1. account'.password = account.password + 1 /\ account'.status = account.status
    BY <1>1, <1>11 DEF ChangeCommit, Account
  <2> QED
    BY <1>1, <1>11, <2>1 DEF ChangeCommit, Rest, Follow, SessionsFollowAccount, Active, Verified
<1>12. ASSUME NEW c \in Clerks, EnrolCommit(c) PROVE Follow'
  <2>1. factor'.status = "PENDING"
    BY <1>12 DEF EnrolCommit, Pending
  <2> QED
    BY <1>2, <1>12, <2>1, FollowStays DEF EnrolCommit, Rest
<1>13. ASSUME NEW c \in Clerks, ReplaceCommit(c) PROVE Follow'
  <2>1. factor'.status = factor.status
    BY <1>13 DEF ReplaceCommit, Shape, Factor
  <2> QED
    BY <1>2, <1>13, <2>1, FollowStays DEF ReplaceCommit, Rest
<1>14. ASSUME NEW c \in Clerks, ResetMail(c) PROVE Follow'
  BY <1>2, <1>14, FollowStays DEF ResetMail
<1>15. ASSUME NEW c \in Clerks, NEW r \in Resets, ResetCommit(c, r) PROVE Follow'
  BY <1>2, <1>15, FollowStays DEF ResetCommit, Rest
<1>16. ASSUME NEW r \in Resets, ExpireReset(r) PROVE Follow'
  BY <1>2, <1>16, FollowStays DEF ExpireReset
<1> QED
  BY <1>3, <1>4, <1>5, <1>6, <1>8, <1>9, <1>10, <1>11, <1>12, <1>13, <1>14, <1>15, <1>16
  DEF Effects

\* A new session is in force beside what its request saw, or the request was
\* blind to what changed.
LEMMA InsertFollows ==
  ASSUME Shape, Follow, NEW c \in Clerks, NEW s \in Sessions, IssueInsert(c, s)
  PROVE  Follow' /\ session' \in [Sessions -> Session]
<1> DEFINE new == [state |-> "LIVE", level |-> clerk[c].level, gen |-> 1,
                   password |-> clerk[c].password]
<1>1. clerk[c].level \in Levels /\ clerk[c].password \in 1..MaxPassword
  BY RequestFields DEF Shape, IssueInsert, At
<1>2. session \in [Sessions -> Session] /\ MaxPassword \in Nat /\ account.password \in 1..MaxPassword
  BY AccountConstants DEF Shape, Account
<1>3. new \in Session
  BY <1>1, <1>2 DEF Session
<1>4. session' = [session EXCEPT ![s] = new]
  BY DEF IssueInsert
<1>5. session' \in [Sessions -> Session]
  BY <1>2, <1>3, <1>4
<1>6. ASSUME ~blind', NEW x \in Sessions, session'[x].state = "LIVE"
      PROVE  Active /\ session'[x].password >= cutoff /\ (Verified => session'[x].level = "aal2")
  <2>1. ~blind
    BY <1>6 DEF IssueInsert, Rest
  <2>2. CASE x = s
    <3>1. session'[x] = new
      BY <1>2, <1>4, <2>2
    <3>2. /\ Active /\ clerk[c].password = account.password
          /\ clerk[c].level = "aal1" => ~Verified
      BY <1>6 DEF IssueInsert, Rest
    <3>3. cutoff <= account.password
      BY DEF Follow
    <3> QED
      BY <1>1, <1>2, <3>1, <3>2, <3>3 DEF Levels, Shape
  <2>3. CASE x # s
    BY <1>2, <1>4, <1>6, <2>1, <2>3 DEF Follow, SessionsFollowAccount
  <2> QED
    BY <2>2, <2>3
<1>7. UNCHANGED <<account, factor, cutoff>>
  BY DEF IssueInsert
<1> QED
  BY <1>5, <1>6, <1>7 DEF Follow, SessionsFollowAccount, Active, Verified

\* A renewal replaces a credential, or ends the session.
LEMMA RenewFollows ==
  ASSUME Shape, Follow, NEW t \in Tabs, Renew(t)
  PROVE  /\ Follow' /\ session' \in [Sessions -> Session]
         /\ tab[t] # None /\ tab[t].step = "SENT"
<1> DEFINE sent == tab[t].held
<1>1. tab[t] # None /\ tab[t].step = "SENT" /\ tab[t] \in Attempt
  BY DEF Renew, Is, Shape
<1>2. sent \in Credential \cup {None}
  BY <1>1 DEF Attempt
<1>3. session \in [Sessions -> Session]
  BY DEF Shape
<1>4. ASSUME sent # None
      PROVE  /\ sent.session \in Sessions /\ session[sent.session] \in Session
             /\ session[sent.session].gen \in Nat
  BY <1>2, <1>3, <1>4 DEF Credential, Session
<1>5. /\ session' \in [Sessions -> Session]
      /\ \A s \in Sessions : session'[s].state = "LIVE" =>
           /\ session[s].state = "LIVE" /\ session'[s].level = session[s].level
           /\ session'[s].password = session[s].password
  <2>1. CASE UNCHANGED session
    BY <1>3, <2>1
  <2>2. CASE sent # None /\ session' = [session EXCEPT ![sent.session].gen = @ + 1]
    <3>1. [session[sent.session] EXCEPT !.gen = @ + 1] \in Session
      BY <1>4, <2>2 DEF Session
    <3> QED
      BY <1>3, <1>4, <2>2, <3>1 DEF Session
  <2>3. CASE sent # None /\ session' = [session EXCEPT ![sent.session].state = "REPLAYED"]
    <3>1. [session[sent.session] EXCEPT !.state = "REPLAYED"] \in Session
      BY <1>4, <2>3 DEF Session
    <3> QED
      BY <1>3, <1>4, <2>3, <3>1
  <2> QED
    BY <2>1, <2>2, <2>3 DEF Renew, Current, Superseded
<1>6. UNCHANGED <<account, factor, cutoff, blind>>
  BY DEF Renew
<1> QED
  BY <1>1, <1>5, <1>6 DEF Follow, SessionsFollowAccount, Active, Verified

----------------------------------------------------------------------------
(* Codes, secrets and links.                                               *)

LEMMA SpendKeepsCodes ==
  ASSUME Shape, CodesFresh, NEW code \in 0..MaxCode, Spend(code), UNCHANGED issued
  PROVE  CodesFresh'
<1>1. /\ factor \in Factor /\ uses \in [1..MaxCode -> Nat]
      /\ factor'.codes = factor.codes \ {code}
  BY DEF Shape, Spend, Factor
<1>2. CASE code = 0
  <2>1. uses' = uses
    BY <1>2 DEF Spend
  <2> QED
    BY <1>1, <2>1 DEF CodesFresh
<1>3. CASE code # 0
  <2>1. code \in factor.codes /\ code \in 1..MaxCode /\ uses' = [uses EXCEPT ![code] = @ + 1]
    BY <1>3, AccountConstants DEF Spend
  <2>2. uses[code] = 0 /\ code <= issued /\ issued \in Nat
    BY <2>1 DEF CodesFresh, Shape
  <2>3. ASSUME NEW x \in 1..MaxCode
        PROVE  /\ uses'[x] <= 1
               /\ x \in factor'.codes => uses'[x] = 0 /\ x <= issued
               /\ x > issued => uses'[x] = 0
    <3>1. CASE x = code
      BY <1>1, <2>1, <2>2, <3>1
    <3>2. CASE x # code
      BY <1>1, <2>1, <3>2 DEF CodesFresh
    <3> QED
      BY <3>1, <3>2
  <2> QED
    BY <2>3 DEF CodesFresh
<1> QED
  BY <1>2, <1>3

LEMMA NewCodesAreFresh ==
  ASSUME Shape, CodesFresh, NewCodes, UNCHANGED uses,
         factor'.codes = {issued'} \/ factor'.codes = factor.codes
  PROVE  CodesFresh'
<1>1. issued \in 0..MaxCode /\ issued' = issued + 1 /\ MaxCode \in Nat
  BY AccountConstants DEF Shape, NewCodes
<1>2. ASSUME NEW x \in 1..MaxCode
      PROVE  /\ uses[x] <= 1
             /\ x \in factor'.codes => uses[x] = 0 /\ x <= issued'
             /\ x > issued' => uses[x] = 0
  <2>1. /\ uses[x] <= 1
        /\ x \in factor.codes => uses[x] = 0 /\ x <= issued
        /\ x > issued => uses[x] = 0
    BY DEF CodesFresh
  <2>2. CASE factor'.codes = {issued'}
    BY <1>1, <2>1, <2>2
  <2>3. CASE factor'.codes = factor.codes
    BY <1>1, <2>1, <2>3
  <2> QED
    BY <2>2, <2>3
<1> QED
  BY <1>2 DEF CodesFresh

LEMMA FewerCodes ==
  ASSUME CodesFresh, UNCHANGED <<uses, issued>>, factor'.codes \subseteq factor.codes
  PROVE  CodesFresh'
BY DEF CodesFresh

LEMMA EffectsCodes == Shape /\ CodesFresh /\ Effects => CodesFresh'
<1> SUFFICES ASSUME Shape, CodesFresh, Effects PROVE CodesFresh'
  OBVIOUS
<1>0. factor \in Factor
  BY DEF Shape
<1>1. ASSUME UNCHANGED <<factor, uses, issued>> PROVE CodesFresh'
  BY <1>1, FewerCodes
<1>2. ASSUME NEW code \in 0..MaxCode, Spent(code) PROVE CodesFresh'
  BY <1>2, SpendKeepsCodes DEF Spent
<1>3. ASSUME NEW c \in Clerks, EnrolCommit(c) PROVE CodesFresh'
  BY <1>3, FewerCodes DEF EnrolCommit, Pending
<1>4. ASSUME NEW c \in Clerks, DisableCommit(c) PROVE CodesFresh'
  <2>1. factor'.codes \subseteq factor.codes
    BY <1>0, <1>4 DEF DisableCommit, Factor
  <2> QED
    BY <1>4, <2>1, FewerCodes DEF DisableCommit
<1>5. ASSUME NEW c \in Clerks, ProveCommit(c) \/ ReplaceCommit(c) PROVE CodesFresh'
  <2>1. factor'.codes = {issued'} \/ factor'.codes = factor.codes
    BY <1>0, <1>5 DEF ProveCommit, ReplaceCommit, Factor
  <2> QED
    BY <1>5, <2>1, NewCodesAreFresh DEF ProveCommit, ReplaceCommit
<1>6. ASSUME \/ Quiet
             \/ \E s \in Sessions : RevokeSession(s) \/ ExpireSession(s)
             \/ \E status \in {"active", "disabled"} : SetStatus(status)
             \/ IssueTemporaryPassword
             \/ \E c \in Clerks :
                  \/ ChangeCommit(c) \/ ResetMail(c) \/ \E r \in Resets : ResetCommit(c, r)
             \/ \E r \in Resets : CompleteReset(r) \/ ExpireReset(r)
      PROVE  CodesFresh'
  BY <1>1, <1>6 DEF Quiet, RevokeSession, ExpireSession, SetStatus, IssueTemporaryPassword,
                    ChangeCommit, ResetMail, ResetCommit, CompleteReset, ExpireReset
<1> QED
  BY <1>2, <1>3, <1>4, <1>5, <1>6 DEF Effects

LEMMA EffectsProven == Shape /\ FactorProven /\ Effects => FactorProven'
<1> SUFFICES ASSUME Shape, FactorProven, Effects PROVE FactorProven'
  OBVIOUS
<1>0. factor \in Factor /\ blind \in BOOLEAN
  BY DEF Shape
<1>1. ASSUME UNCHANGED <<factor, proven>>, blind => blind' PROVE FactorProven'
  BY <1>1 DEF FactorProven, Verified
<1>2. ASSUME NEW code \in 0..MaxCode, Spent(code) PROVE FactorProven'
  <2>1. /\ factor'.status = factor.status /\ factor'.secret = factor.secret
        /\ factor'.codes \subseteq factor.codes
    BY <1>0, <1>2 DEF Spent, Spend, Factor
  <2>2. UNCHANGED <<proven, blind>>
    BY <1>2 DEF Spent
  <2> QED
    BY <2>1, <2>2 DEF FactorProven, Verified
<1>3. ASSUME NEW c \in Clerks, EnrolCommit(c) PROVE FactorProven'
  BY <1>3 DEF EnrolCommit, Pending, FactorProven, Verified
<1>4. ASSUME NEW c \in Clerks, DisableCommit(c) PROVE FactorProven'
  <2>1. ~blind' => ~blind /\ factor'.status = "ABSENT" /\ factor'.codes = {}
    BY <1>0, <1>4 DEF DisableCommit, Rest, Factor
  <2> QED
    BY <2>1 DEF FactorProven, Verified
<1>5. ASSUME NEW c \in Clerks, ProveCommit(c) PROVE FactorProven'
  <2>1. proven' = clerk[c].factor.secret
    BY <1>5 DEF ProveCommit
  <2>2. ~blind' => ~blind /\ factor = clerk[c].factor
    BY <1>5 DEF ProveCommit, Rest
  <2>3. CASE SameRow(c)
    <3>1. factor'.status = "VERIFIED" /\ factor'.secret = factor.secret
      BY <1>0, <1>5, <2>3 DEF ProveCommit, Factor
    <3> QED
      BY <2>1, <2>2, <3>1 DEF FactorProven, Verified
  <2>4. CASE ~SameRow(c)
    <3>1. factor' = factor
      BY <1>5, <2>4 DEF ProveCommit
    <3>2. ~blind' => factor.status = "ABSENT"
      BY <2>2, <2>4 DEF SameRow
    <3> QED
      BY <2>2, <3>1, <3>2 DEF FactorProven, Verified
  <2> QED
    BY <2>3, <2>4
<1>6. ASSUME NEW c \in Clerks, ReplaceCommit(c) PROVE FactorProven'
  <2>1. factor'.status = factor.status /\ factor'.secret = factor.secret
    BY <1>0, <1>6 DEF ReplaceCommit, Factor
  <2>2. ~blind' => ~blind /\ Verified
    BY <1>6 DEF ReplaceCommit, Rest
  <2>3. UNCHANGED proven
    BY <1>6 DEF ReplaceCommit
  <2> QED
    BY <2>1, <2>2, <2>3 DEF FactorProven, Verified
<1>7. ASSUME \/ Quiet
             \/ \E s \in Sessions : RevokeSession(s) \/ ExpireSession(s)
             \/ \E status \in {"active", "disabled"} : SetStatus(status)
             \/ IssueTemporaryPassword
             \/ \E c \in Clerks :
                  \/ ChangeCommit(c) \/ ResetMail(c) \/ \E r \in Resets : ResetCommit(c, r)
             \/ \E r \in Resets : CompleteReset(r) \/ ExpireReset(r)
      PROVE  FactorProven'
  <2>1. UNCHANGED <<factor, proven>> /\ (blind => blind')
    BY <1>0, <1>7 DEF Quiet, RevokeSession, ExpireSession, SetStatus, IssueTemporaryPassword,
                      ChangeCommit, ResetMail, ResetCommit, CompleteReset, ExpireReset, Rest
  <2> QED
    BY <1>1, <2>1
<1> QED
  BY <1>2, <1>3, <1>4, <1>5, <1>6, <1>7 DEF Effects

LEMMA FewerOpen ==
  ASSUME OneOpen, blind => blind', Open' \subseteq Open
  PROVE  OneOpen'
BY DEF OneOpen

LEMMA EffectsOpen == Shape /\ OneOpen /\ Effects => OneOpen'
<1> SUFFICES ASSUME Shape, OneOpen, Effects PROVE OneOpen'
  OBVIOUS
<1>0. reset \in [Resets -> Reset] /\ blind \in BOOLEAN
  BY DEF Shape
<1>1. ASSUME UNCHANGED reset, blind => blind' PROVE OneOpen'
  <2>1. Open' = Open
    BY <1>1 DEF Open
  <2> QED
    BY <1>1, <2>1, FewerOpen
<1>2. ASSUME NEW r \in Resets, CompleteReset(r) \/ ExpireReset(r) PROVE OneOpen'
  <2>1. Open' \subseteq Open
    BY <1>0, <1>2 DEF CompleteReset, ExpireReset, Open, Reset
  <2>2. UNCHANGED blind
    BY <1>2 DEF CompleteReset, ExpireReset
  <2> QED
    BY <2>1, <2>2, FewerOpen
<1>3. ASSUME NEW c \in Clerks, ResetMail(c) PROVE OneOpen'
  <2>1. Open' \subseteq Open
    BY <1>0, <1>3 DEF ResetMail, Open, Reset
  <2>2. UNCHANGED blind
    BY <1>3 DEF ResetMail
  <2> QED
    BY <2>1, <2>2, FewerOpen
<1>4. ASSUME NEW c \in Clerks, NEW r \in Resets, ResetCommit(c, r) PROVE OneOpen'
  <2>1. ASSUME ~blind' PROVE Open' \subseteq {r}
    <3>1. Open \subseteq clerk[c].swept
      BY <1>4, <2>1 DEF ResetCommit, Rest
    <3>2. ASSUME NEW x \in Resets, x # r PROVE reset'[x].state # "OPEN"
      <4>1. reset'[x] = IF x \in clerk[c].swept THEN [reset[x] EXCEPT !.state = "USED"] ELSE reset[x]
        BY <1>4, <3>2 DEF ResetCommit, Swept
      <4>2. reset[x] \in Reset
        BY <1>0
      <4>3. reset[x].state = "OPEN" => x \in clerk[c].swept
        BY <3>1 DEF Open
      <4> QED
        BY <4>1, <4>2, <4>3 DEF Reset
    <3> QED
      BY <3>2 DEF Open
  <2> QED
    BY <2>1 DEF OneOpen
<1>5. ASSUME \/ Quiet
             \/ \E code \in 0..MaxCode : Spent(code)
             \/ \E s \in Sessions : RevokeSession(s) \/ ExpireSession(s)
             \/ \E status \in {"active", "disabled"} : SetStatus(status)
             \/ IssueTemporaryPassword
             \/ \E c \in Clerks :
                  ChangeCommit(c) \/ EnrolCommit(c) \/ ProveCommit(c) \/ ReplaceCommit(c) \/ DisableCommit(c)
      PROVE  OneOpen'
  <2>1. UNCHANGED reset /\ (blind => blind')
    BY <1>0, <1>5 DEF Quiet, Spent, RevokeSession, ExpireSession, SetStatus,
                      IssueTemporaryPassword, ChangeCommit, EnrolCommit, ProveCommit,
                      ReplaceCommit, DisableCommit, Rest
  <2> QED
    BY <1>1, <2>1
<1> QED
  BY <1>2, <1>3, <1>4, <1>5 DEF Effects

----------------------------------------------------------------------------
(* The browser.                                                            *)

Browser ==
  /\ cookie \in Credential \cup {None} /\ token \in Credential \cup {None}
  /\ tab \in [Tabs -> Attempt \cup {None}]
  /\ disturbed \subseteq Sessions

LEMMA SetType ==
  ASSUME Shape, NEW t \in Tabs, NEW step \in {"FAILED", "SENT", "ROTATED", "DENIED"},
         NEW held \in Credential \cup {None}, Set(t, step, held)
  PROVE  /\ tab' \in [Tabs -> Attempt \cup {None}]
         /\ tab'[t] # None /\ tab'[t].step = step /\ tab'[t].held = held
         /\ \A u \in Tabs : u # t => tab'[u] = tab[u]
<1> DEFINE new == [step |-> step, held |-> held]
<1>1. new \in Attempt
  BY DEF Attempt
<1>2. new # None
  BY <1>1, NoneIsNothing
<1>3. tab \in [Tabs -> Attempt \cup {None}] /\ tab' = [tab EXCEPT ![t] = new]
  BY DEF Shape, Set
<1>4. tab'[t] = new /\ \A u \in Tabs : u # t => tab'[u] = tab[u]
  BY <1>3
<1>5. new.step = step /\ new.held = held
  OBVIOUS
<1> QED
  BY <1>1, <1>2, <1>3, <1>4, <1>5

LEMMA ClearType ==
  ASSUME Shape, NEW t \in Tabs, tab' = [tab EXCEPT ![t] = None]
  PROVE  /\ tab' \in [Tabs -> Attempt \cup {None}]
         /\ tab'[t] = None /\ \A u \in Tabs : u # t => tab'[u] = tab[u]
BY DEF Shape

LEMMA HeldType ==
  ASSUME Shape, NEW t \in Tabs, tab[t] # None
  PROVE  /\ tab[t] \in Attempt /\ tab[t].held \in Credential \cup {None}
         /\ tab[t].step \in {"FAILED", "SENT", "ROTATED", "DENIED"}
<1>1. tab[t] \in Attempt
  BY DEF Shape
<1> QED
  BY <1>1 DEF Attempt

\* What a renewal sends, it answers with the next credential, or with none.
LEMMA RenewAnswers ==
  ASSUME Shape, NEW t \in Tabs, Renew(t)
  PROVE  /\ tab[t] # None /\ tab[t].step = "SENT"
         /\ \/ /\ tab[t].held # None /\ tab[t].held.session \in Sessions
               /\ tab[t].held.gen = session[tab[t].held.session].gen
               /\ session[tab[t].held.session].gen \in Nat
               /\ session' = [session EXCEPT ![tab[t].held.session].gen = @ + 1]
               /\ Set(t, "ROTATED", [tab[t].held EXCEPT !.gen = @ + 1])
               /\ [tab[t].held EXCEPT !.gen = @ + 1] \in Credential
            \/ /\ Superseded(tab[t].held)
               /\ session' = IF session[tab[t].held.session].state = "REVOKED" THEN session
                             ELSE [session EXCEPT ![tab[t].held.session].state = "REPLAYED"]
               /\ Set(t, "DENIED", None)
            \/ /\ UNCHANGED session
               /\ Set(t, "DENIED", None)
<1>1. tab[t] # None /\ tab[t].step = "SENT"
  BY DEF Renew, Is
<1>2. tab[t].held \in Credential \cup {None}
  BY <1>1, HeldType
<1>3. ASSUME Current(tab[t].held), tab[t].held.gen < MaxGen
      PROVE  /\ tab[t].held # None /\ tab[t].held.session \in Sessions
             /\ tab[t].held.gen = session[tab[t].held.session].gen
             /\ session[tab[t].held.session].gen \in Nat
             /\ [tab[t].held EXCEPT !.gen = @ + 1] \in Credential
  <2>1. tab[t].held # None /\ tab[t].held.gen = session[tab[t].held.session].gen
    BY <1>3 DEF Current
  <2>2. tab[t].held \in Credential /\ tab[t].held.gen \in 1..MaxGen
    BY <1>2, <2>1 DEF Credential
  <2>3. tab[t].held.gen + 1 \in 1..MaxGen
    BY <1>3, <2>2, SessionConstants
  <2> QED
    BY <2>1, <2>2, <2>3 DEF Credential
<1> QED
  BY <1>1, <1>3 DEF Renew

LEMMA BrowserTypes == Shape /\ Answers /\ [Next]_vars => Browser'
<1> SUFFICES ASSUME Shape, Answers, [Next]_vars PROVE Browser'
  OBVIOUS
<1> USE DEF Browser
<1>0. Browser /\ None \in Credential \cup {None}
  BY DEF Shape
<1>1. ASSUME UNCHANGED browserVars PROVE Browser'
  BY <1>0, <1>1 DEF browserVars
<1>2. ASSUME NEW c \in Clerks, NEW s \in Sessions, SignIn(c, s) PROVE Browser'
  <2>1. [session |-> s, gen |-> 1] \in Credential
    BY SessionConstants DEF Credential
  <2> QED
    BY <1>0, <1>2, <2>1 DEF SignIn
<1>3. ASSUME SignOut PROVE Browser'
  BY <1>0, <1>3 DEF SignOut
<1>4. ASSUME NEW t \in Tabs, Refused(t) PROVE Browser'
  BY <1>0, <1>4, SetType DEF Refused
<1>5. ASSUME NEW t \in Tabs, Reuse(t) PROVE Browser'
  BY <1>0, <1>5, ClearType DEF Reuse
<1>6. ASSUME NEW t \in Tabs, Send(t) PROVE Browser'
  BY <1>0, <1>6, SetType DEF Send
<1>7. ASSUME NEW t \in Tabs, Renew(t) PROVE Browser'
  <2>1. tab' \in [Tabs -> Attempt \cup {None}]
    BY <1>0, <1>7, RenewAnswers, SetType
  <2> QED
    BY <1>0, <1>7, <2>1 DEF Renew
<1>8. ASSUME NEW t \in Tabs, AnswerArrives(t) PROVE Browser'
  <2>1. tab[t].held \in Credential \cup {None}
    BY <1>8, HeldType DEF AnswerArrives, Is
  <2> QED
    BY <1>0, <1>8, <2>1, ClearType DEF AnswerArrives, SetCookie
<1>9. ASSUME NEW t \in Tabs, CallFails(t) PROVE Browser'
  <2>1. Is(t, "ROTATED") => tab[t].held.session \in Sessions
    BY HeldType DEF Answers, Is, Credential
  <2>2. disturbed' \subseteq Sessions
    BY <1>0, <1>9, <2>1 DEF CallFails
  <2> QED
    BY <1>0, <1>9, <2>2, ClearType DEF CallFails
<1>10. ASSUME UNCHANGED vars PROVE Browser'
  BY <1>1, <1>10 DEF vars, browserVars
<1> QED
  BY <1>1, <1>2, <1>3, <1>4, <1>5, <1>6, <1>7, <1>8, <1>9, <1>10 DEF Next

----------------------------------------------------------------------------
(* Renewals.                                                               *)

\* A step of the account changes no generation and replays no session.
LEMMA EffectsRenewal ==
  ASSUME Shape, RenewalInv, Effects, UNCHANGED <<tab, disturbed>>,
         UNCHANGED <<cookie, token>> \/ (cookie' = None /\ token' = None)
  PROVE  RenewalInv'
<1>1. ASSUME NEW s \in Sessions
      PROVE  /\ session'[s].gen = session[s].gen
             /\ session'[s].state = "ABSENT" => session[s].state = "ABSENT"
             /\ session'[s].state = "REPLAYED" => session[s].state = "REPLAYED"
  <2>1. OnlyEnds
    BY EffectsOnSessions
  <2> QED
    BY <2>1 DEF OnlyEnds
<1>2. NotYet'
  BY <1>1 DEF RenewalInv, NotYet, Of
<1>3. Answers'
  BY DEF RenewalInv, Answers, Is
<1>4. ASSUME NEW s \in Sessions, s \notin disturbed' PROVE Undisturbed(s)'
  <2>1. Undisturbed(s) /\ InFlight' = InFlight
    BY <1>4 DEF RenewalInv, InFlight, Is
  <2> QED
    BY <1>1, <2>1 DEF Undisturbed, Of, Is
<1> QED
  BY <1>2, <1>3, <1>4 DEF RenewalInv

LEMMA SignInRenewal ==
  ASSUME Shape, RenewalInv, NEW c \in Clerks, NEW s \in Sessions, SignIn(c, s)
  PROVE  RenewalInv'
<1> DEFINE new == [session |-> s, gen |-> 1]
<1>1. /\ session[s].state = "ABSENT" /\ session'[s].state = "LIVE" /\ session'[s].gen = 1
      /\ \A x \in Sessions : x # s => session'[x] = session[x]
  BY DEF SignIn, IssueInsert, Shape
<1>2. /\ UNCHANGED <<tab, disturbed>> /\ InFlight' = InFlight
      /\ (cookie' = new /\ token' = new) \/ UNCHANGED <<cookie, token>>
  BY DEF SignIn, InFlight, Is
<1>3. /\ ~Of(cookie, s) /\ ~Of(token, s)
      /\ \A t \in Tabs : tab[t] # None => ~Of(tab[t].held, s)
  BY <1>1 DEF RenewalInv, NotYet
<1>4. new.session = s /\ new.gen = 1
  OBVIOUS
<1>5. NotYet'
  BY <1>1, <1>2, <1>4 DEF RenewalInv, NotYet, Of
<1>6. Answers'
  BY <1>2 DEF RenewalInv, Answers, Is
<1>7. ASSUME NEW x \in Sessions, x \notin disturbed' PROVE Undisturbed(x)'
  <2>1. Undisturbed(x)
    BY <1>2, <1>7 DEF RenewalInv
  <2>2. CASE x = s
    <3>1. \A t \in InFlight : ~Of(tab[t].held, s)
      BY <1>3 DEF InFlight, Is
    <3>2. Of(cookie', s) => cookie'.gen = 1
      BY <1>2, <1>3, <1>4 DEF Of
    <3> QED
      BY <1>1, <1>2, <2>2, <3>1, <3>2 DEF Undisturbed, Of
  <2>3. CASE x # s
    <3>1. Of(cookie', x) => cookie' = cookie
      BY <1>2, <1>4, <2>3 DEF Of
    <3> QED
      BY <1>1, <1>2, <2>1, <2>3, <3>1 DEF Undisturbed, Of, Is
  <2> QED
    BY <2>2, <2>3
<1> QED
  BY <1>5, <1>6, <1>7 DEF RenewalInv

\* A tab notes a refusal, or finds that another one has renewed.
LEMMA WaitingRenewal ==
  ASSUME Shape, RenewalInv, NEW t \in Tabs, Refused(t) \/ Reuse(t)
  PROVE  RenewalInv'
<1>1. /\ UNCHANGED <<session, cookie, token, disturbed>>
      /\ tab'[t] = None \/ (tab'[t] # None /\ tab'[t].step = "FAILED" /\ tab'[t].held = token)
      /\ \A u \in Tabs : u # t => tab'[u] = tab[u]
      /\ tab[t] = None \/ tab[t].step = "FAILED"
  BY SetType, ClearType DEF Refused, Reuse, Shape, accountVars, Is
<1>2. InFlight' = InFlight
  BY <1>1 DEF InFlight, Is
<1>3. \A u \in InFlight : u \in Tabs /\ u # t /\ tab'[u] = tab[u]
  BY <1>1 DEF InFlight, Is
<1>4. NotYet'
  BY <1>1 DEF RenewalInv, NotYet
<1>5. Answers'
  BY <1>1 DEF RenewalInv, Answers, Is
<1>6. ASSUME NEW s \in Sessions, s \notin disturbed' PROVE Undisturbed(s)'
  <2>1. Undisturbed(s)
    BY <1>1, <1>6 DEF RenewalInv
  <2>2. \A u \in Tabs : Is(u, "ROTATED") => u \in InFlight /\ Is(u, "ROTATED")'
    BY <1>1 DEF InFlight, Is
  <2> QED
    BY <1>1, <1>2, <1>3, <2>1, <2>2 DEF Undisturbed, Of
<1> QED
  BY <1>4, <1>5, <1>6 DEF RenewalInv

LEMMA SendRenewal ==
  ASSUME Shape, RenewalInv, NEW t \in Tabs, Send(t)
  PROVE  RenewalInv'
<1>1. /\ UNCHANGED <<session, cookie, token>>
      /\ tab'[t] # None /\ tab'[t].step = "SENT" /\ tab'[t].held = cookie
      /\ \A u \in Tabs : u # t => tab'[u] = tab[u]
      /\ tab[t] # None /\ tab[t].step = "FAILED"
  BY SetType DEF Send, Shape, accountVars, Is
<1>2. InFlight' = InFlight \cup {t} /\ t \notin InFlight
  BY <1>1 DEF InFlight, Is
<1>3. \A u \in InFlight : u \in Tabs /\ u # t /\ tab'[u] = tab[u]
  BY <1>1 DEF InFlight, Is
<1>4. NotYet'
  BY <1>1 DEF RenewalInv, NotYet
<1>5. Answers'
  BY <1>1 DEF RenewalInv, Answers, Is
<1>6. ASSUME NEW s \in Sessions, s \notin disturbed' PROVE Undisturbed(s)'
  <2>1. Undisturbed(s) /\ (Of(cookie, s) => \A u \in InFlight : ~Of(tab[u].held, s))
    BY <1>6 DEF RenewalInv, Send, Of
  <2>2. \A u \in Tabs : Is(u, "ROTATED") => u \in InFlight /\ Is(u, "ROTATED")'
    BY <1>1 DEF InFlight, Is
  <2>3. Of(cookie, s) => cookie.gen = session[s].gen
    BY <2>1, <2>2 DEF Undisturbed
  <2>4. \A u \in InFlight' : Of(tab'[u].held, s) => tab'[u].held.gen = session[s].gen
    BY <1>1, <1>2, <1>3, <2>1, <2>3 DEF Undisturbed
  <2>5. \A u, v \in InFlight' : Of(tab'[u].held, s) /\ Of(tab'[v].held, s) => u = v
    BY <1>1, <1>2, <1>3, <2>1 DEF Undisturbed
  <2>6. session'[s].state # "REPLAYED"
    BY <1>1, <2>1 DEF Undisturbed
  <2> QED
    BY <1>1, <2>3, <2>4, <2>5, <2>6 DEF Undisturbed, Of
<1> QED
  BY <1>4, <1>5, <1>6 DEF RenewalInv

LEMMA RenewRenewal ==
  ASSUME Shape, RenewalInv, NEW t \in Tabs, Renew(t)
  PROVE  RenewalInv'
<1> DEFINE sent == tab[t].held
           next == [sent EXCEPT !.gen = @ + 1]
<1>1. UNCHANGED <<cookie, token, disturbed>> /\ tab[t] # None /\ tab[t].step = "SENT"
  BY RenewAnswers DEF Renew
<1>2. session \in [Sessions -> Session] /\ sent \in Credential \cup {None}
  BY <1>1, HeldType DEF Shape
<1>3. CASE /\ sent # None /\ sent.session \in Sessions
           /\ sent.gen = session[sent.session].gen
           /\ session[sent.session].gen \in Nat
           /\ session' = [session EXCEPT ![sent.session].gen = @ + 1]
           /\ Set(t, "ROTATED", next) /\ next \in Credential
  <2>1. /\ tab'[t] # None /\ tab'[t].step = "ROTATED" /\ tab'[t].held = next
        /\ \A u \in Tabs : u # t => tab'[u] = tab[u]
    BY <1>3, SetType
  <2>2. /\ InFlight' = InFlight /\ t \in InFlight /\ InFlight \subseteq Tabs
    BY <1>1, <2>1 DEF InFlight, Is
  <2>3. next # None /\ next.session = sent.session /\ next.gen = sent.gen + 1
    <3>1. next # None
      BY <1>3, NoneIsNothing
    <3>2. sent \in Credential
      BY <1>2, <1>3
    <3> QED
      BY <3>1, <3>2 DEF Credential
  <2>4. /\ session'[sent.session].gen = sent.gen + 1
        /\ session'[sent.session].state = session[sent.session].state
        /\ \A s \in Sessions : s # sent.session => session'[s] = session[s]
    BY <1>2, <1>3 DEF Session
  <2>5. \A s \in Sessions : Of(tab'[t].held, s) <=> Of(tab[t].held, s)
    BY <1>3, <2>1, <2>3 DEF Of
  <2>6. NotYet'
    <3>1. \A s \in Sessions : session'[s].state = session[s].state
      BY <2>4
    <3> QED
      BY <1>1, <2>1, <2>5, <3>1 DEF RenewalInv, NotYet
  <2>7. Answers'
    BY <2>1, <2>3 DEF RenewalInv, Answers, Is
  <2>8. ASSUME NEW s \in Sessions, s \notin disturbed' PROVE Undisturbed(s)'
    <3>1. Undisturbed(s)
      BY <1>1, <2>8 DEF RenewalInv
    <3>2. \A u \in InFlight : Of(tab'[u].held, s) <=> Of(tab[u].held, s)
      BY <2>1, <2>2, <2>5
    <3>3. \A u, v \in InFlight' : Of(tab'[u].held, s) /\ Of(tab'[v].held, s) => u = v
      BY <2>2, <3>1, <3>2 DEF Undisturbed
    <3>4. session'[s].state # "REPLAYED"
      BY <2>4, <3>1 DEF Undisturbed
    <3>5. CASE s = sent.session
      <4>1. Of(tab[t].held, s) /\ Of(tab'[t].held, s)
        BY <1>3, <2>5, <3>5 DEF Of
      <4>2. \A u \in InFlight' : Of(tab'[u].held, s) => tab'[u].held.gen = session'[s].gen
        BY <2>1, <2>2, <2>3, <2>4, <3>3, <3>5, <4>1
      <4>3. Is(t, "ROTATED")'
        BY <2>1 DEF Is
      <4> QED
        BY <3>3, <3>4, <4>1, <4>2, <4>3 DEF Undisturbed
    <3>6. CASE s # sent.session
      <4>1. ~Of(tab'[t].held, s) /\ session'[s] = session[s]
        BY <2>4, <2>5, <3>6 DEF Of
      <4>2. \A u \in InFlight' : Of(tab'[u].held, s) => tab'[u].held.gen = session'[s].gen
        BY <2>1, <2>2, <3>1, <4>1 DEF Undisturbed
      <4>3. \A u \in Tabs : Is(u, "ROTATED") => tab'[u] = tab[u]
        BY <1>1, <2>1 DEF Is
      <4>4. Of(cookie', s) =>
              \/ cookie'.gen = session'[s].gen
              \/ \E u \in Tabs : Is(u, "ROTATED")' /\ Of(tab'[u].held, s)
        BY <1>1, <3>1, <4>1, <4>3 DEF Undisturbed, Is
      <4> QED
        BY <3>3, <3>4, <4>2, <4>4 DEF Undisturbed
    <3> QED
      BY <3>5, <3>6
  <2> QED
    BY <2>6, <2>7, <2>8 DEF RenewalInv
<1>4. CASE /\ Set(t, "DENIED", None)
           /\ \/ UNCHANGED session
              \/ /\ Superseded(sent)
                 /\ session' = IF session[sent.session].state = "REVOKED" THEN session
                               ELSE [session EXCEPT ![sent.session].state = "REPLAYED"]
  <2>1. /\ tab'[t] # None /\ tab'[t].step = "DENIED" /\ tab'[t].held = None
        /\ \A u \in Tabs : u # t => tab'[u] = tab[u]
    BY <1>4, SetType
  <2>2. /\ InFlight' = InFlight /\ t \in InFlight /\ InFlight \subseteq Tabs
    BY <1>1, <2>1 DEF InFlight, Is
  <2>3. ASSUME NEW s \in Sessions
        PROVE  /\ session'[s].gen = session[s].gen
               /\ session'[s].state \in {session[s].state, "REPLAYED"}
               /\ session'[s] = session[s] \/ (Superseded(sent) /\ sent.session = s)
    BY <1>2, <1>4 DEF Session
  <2>4. NotYet'
    BY <1>1, <2>1, <2>3 DEF RenewalInv, NotYet, Of
  <2>5. Answers'
    BY <2>1 DEF RenewalInv, Answers, Is
  <2>6. ASSUME NEW s \in Sessions, s \notin disturbed' PROVE Undisturbed(s)'
    <3>1. Undisturbed(s)
      BY <1>1, <2>6 DEF RenewalInv
    <3>2. session'[s] = session[s]
      <4>1. Of(sent, s) => sent.gen = session[s].gen
        BY <2>2, <3>1 DEF Undisturbed
      <4>2. session[s].gen \in Nat
        BY <1>2 DEF Session
      <4>3. ~(Superseded(sent) /\ sent.session = s)
        BY <4>1, <4>2 DEF Superseded, Of
      <4> QED
        BY <2>3, <4>3
    <3>3. \A u \in InFlight' : Of(tab'[u].held, s) => tab'[u] = tab[u] /\ u \in InFlight
      BY <2>1, <2>2 DEF Of
    <3>4. \A u \in Tabs : Is(u, "ROTATED") => tab'[u] = tab[u]
      BY <1>1, <2>1 DEF Is
    <3>5. Of(cookie', s) =>
            \/ cookie'.gen = session'[s].gen
            \/ \E u \in Tabs : Is(u, "ROTATED")' /\ Of(tab'[u].held, s)
      BY <1>1, <3>1, <3>2, <3>4 DEF Undisturbed, Is
    <3> QED
      BY <3>1, <3>2, <3>3, <3>5 DEF Undisturbed
  <2> QED
    BY <2>4, <2>5, <2>6 DEF RenewalInv
<1> QED
  BY <1>3, <1>4, RenewAnswers

\* An answer reaches the browser, or the call is given up.
LEMMA EndRenewal ==
  ASSUME Shape, RenewalInv, NEW t \in Tabs, AnswerArrives(t) \/ CallFails(t)
  PROVE  RenewalInv'
<1>1. /\ UNCHANGED session /\ tab[t] # None /\ t \in InFlight
      /\ tab[t].step \in {"SENT", "ROTATED", "DENIED"}
      /\ tab'[t] = None /\ \A u \in Tabs : u # t => tab'[u] = tab[u]
  BY ClearType DEF AnswerArrives, CallFails, accountVars, InFlight, Is
<1>2. InFlight' = InFlight \ {t} /\ InFlight \subseteq Tabs
  BY <1>1 DEF InFlight, Is
<1>3. Answers'
  BY <1>1 DEF RenewalInv, Answers, Is
<1>4. cookie' \in {cookie, tab[t].held} /\ token' \in {None, tab[t].held}
  BY DEF AnswerArrives, CallFails, SetCookie
<1>5. NotYet'
  BY <1>1, <1>4 DEF RenewalInv, NotYet, Of
<1>6. ASSUME NEW s \in Sessions, s \notin disturbed' PROVE Undisturbed(s)'
  <2>1. Undisturbed(s)
    BY <1>6 DEF RenewalInv, AnswerArrives, CallFails
  <2>2. \A u \in InFlight' : u \in InFlight /\ tab'[u] = tab[u]
    BY <1>1, <1>2
  <2>3. Of(cookie', s) =>
          \/ cookie'.gen = session[s].gen
          \/ \E u \in Tabs : Is(u, "ROTATED")' /\ Of(tab'[u].held, s)
    <3>1. CASE AnswerArrives(t)
      BY <1>1, <2>1, <3>1 DEF AnswerArrives, SetCookie, Undisturbed
    <3>2. CASE CallFails(t)
      <4>1. cookie' = cookie
        BY <3>2 DEF CallFails
      <4>2. \A u \in Tabs : Is(u, "ROTATED") /\ Of(tab[u].held, s) => u # t
        BY <1>6, <3>2 DEF CallFails, Of
      <4> QED
        BY <1>1, <2>1, <4>1, <4>2 DEF Undisturbed, Is
    <3> QED
      BY <3>1, <3>2
  <2> QED
    BY <1>1, <2>1, <2>2, <2>3 DEF Undisturbed
<1> QED
  BY <1>3, <1>5, <1>6 DEF RenewalInv

----------------------------------------------------------------------------
(* The invariant is inductive.                                             *)

IInv == AccountInv /\ RenewalInv

LEMMA Beginning == Init => IInv
<1> SUFFICES ASSUME Init PROVE IInv
  OBVIOUS
<1> USE DEF Init, AccountsInit
<1>1. /\ {MaxPassword, MaxSecret, MaxCode} \subseteq Nat \ {0}
      /\ 1 \in 1..MaxPassword /\ 0 \in 0..MaxPassword /\ 0 \in 0..MaxSecret /\ 0 \in 0..MaxCode
  BY AccountConstants
<1>2. account \in Account /\ factor \in Factor
  BY <1>1 DEF Account, Factor, NoFactor
<1>3. session \in [Sessions -> Session] /\ \A s \in Sessions : session[s].state = "ABSENT"
  BY <1>1 DEF Session, Levels
<1>4. reset \in [Resets -> Reset] /\ \A r \in Resets : reset[r].state = "ABSENT"
  BY DEF Reset
<1>5. Shape
  BY <1>1, <1>2, <1>3, <1>4 DEF Shape
<1>6. Follow
  BY <1>3 DEF Follow, SessionsFollowAccount
<1>7. CodesFresh /\ FactorProven
  BY <1>1 DEF CodesFresh, FactorProven, Verified, NoFactor
<1>8. OneOpen
  BY <1>4 DEF OneOpen, Open
<1>9. RenewalInv
  BY <1>3 DEF RenewalInv, NotYet, Answers, Undisturbed, InFlight, Is, Of
<1> QED
  BY <1>5, <1>6, <1>7, <1>8, <1>9 DEF IInv, AccountInv

LEMMA ClerkNext == Shape /\ [Next]_vars => Clerked /\ challenge' \in 0..MaxPassword
<1> SUFFICES ASSUME Shape, [Next]_vars PROVE Clerked /\ challenge' \in 0..MaxPassword
  OBVIOUS
<1>1. ASSUME UNCHANGED <<clerk, challenge>> PROVE Clerked /\ challenge' \in 0..MaxPassword
  BY <1>1 DEF Shape, Clerked
<1>2. ASSUME NEW c \in Clerks, NEW s \in Sessions, SignIn(c, s)
      PROVE  Clerked /\ challenge' \in 0..MaxPassword
  BY <1>2, DoneType DEF SignIn, IssueInsert, Shape
<1>3. ASSUME \/ UNCHANGED vars \/ SignOut
             \/ \E t \in Tabs :
                  Refused(t) \/ Reuse(t) \/ Send(t) \/ Renew(t) \/ AnswerArrives(t) \/ CallFails(t)
      PROVE  UNCHANGED <<clerk, challenge>>
  BY <1>3 DEF vars, accountVars, SignOut, RevokeSession, Refused, Reuse, Send, Renew,
              AnswerArrives, CallFails
<1> QED
  BY <1>1, <1>2, <1>3, ClerkType DEF Next

LEMMA AccountsKeep == AccountInv /\ Answers /\ [Next]_vars => AccountInv'
<1> SUFFICES ASSUME AccountInv, Answers, [Next]_vars PROVE AccountInv'
  OBVIOUS
<1>0. Shape /\ Follow /\ CodesFresh /\ FactorProven /\ OneOpen
  BY DEF AccountInv
<1> DEFINE Kept == Recorded' /\ session' \in [Sessions -> Session] /\ Follow' /\ CodesFresh'
                   /\ FactorProven' /\ OneOpen'
<1>1. ASSUME Effects PROVE Kept
  BY <1>0, <1>1, EffectTypes, EffectsOnSessions, EffectsFollow, EffectsCodes, EffectsProven,
     EffectsOpen
<1>2. ASSUME UNCHANGED <<account, factor, reset, issued, uses, proven, cutoff>>, blind => blind',
             blind' \in BOOLEAN
      PROVE  Recorded' /\ CodesFresh' /\ FactorProven' /\ OneOpen'
  <2>1. Recorded'
    BY <1>0, <1>2 DEF Shape, Recorded
  <2>2. CodesFresh' /\ FactorProven'
    BY <1>0, <1>2 DEF CodesFresh, FactorProven, Verified
  <2>3. Open' = Open
    BY <1>2 DEF Open
  <2> QED
    BY <1>0, <1>2, <2>1, <2>2, <2>3, FewerOpen
<1>3. ASSUME NEW c \in Clerks, NEW s \in Sessions, IssueInsert(c, s) PROVE Kept
  <2>1. /\ UNCHANGED <<account, factor, reset, issued, uses, proven, cutoff>>
        /\ (blind => blind') /\ blind' \in BOOLEAN
    BY <1>0, <1>3 DEF IssueInsert, Rest, Shape
  <2> QED
    BY <1>0, <1>2, <1>3, <2>1, InsertFollows
<1>4. ASSUME NEW t \in Tabs, Renew(t) PROVE Kept
  <2>1. /\ UNCHANGED <<account, factor, reset, issued, uses, proven, cutoff>>
        /\ (blind => blind') /\ blind' \in BOOLEAN
    BY <1>0, <1>4 DEF Renew, Shape
  <2> QED
    BY <1>0, <1>2, <1>4, <2>1, RenewFollows
<1>5. Kept
  BY <1>0, <1>1, <1>3, <1>4, StepEffects
<1>6. Shape'
  BY <1>0, <1>5, ClerkNext, BrowserTypes DEF Shape, Recorded, Clerked, Browser
<1> QED
  BY <1>5, <1>6 DEF AccountInv

LEMMA RenewalsKeep == AccountInv /\ RenewalInv /\ [Next]_vars => RenewalInv'
<1> SUFFICES ASSUME AccountInv, RenewalInv, [Next]_vars PROVE RenewalInv'
  OBVIOUS
<1>0. Shape
  BY DEF AccountInv
<1>1. ASSUME AccountStep, UNCHANGED browserVars PROVE RenewalInv'
  BY <1>0, <1>1, RequestEffects, EffectsRenewal DEF browserVars
<1>2. ASSUME SignOut PROVE RenewalInv'
  <2>1. token.session \in Sessions
    BY <1>0, <1>2 DEF SignOut, Shape, Credential
  <2>2. Effects
    BY <1>2, <2>1 DEF SignOut, Effects
  <2> QED
    BY <1>0, <1>2, <2>2, EffectsRenewal DEF SignOut
<1>3. ASSUME UNCHANGED vars PROVE RenewalInv'
  <2>1. Effects
    BY <1>3 DEF vars, accountVars, Effects, Quiet
  <2> QED
    BY <1>0, <1>3, <2>1, EffectsRenewal DEF vars, browserVars
<1> QED
  BY <1>0, <1>1, <1>2, <1>3, SignInRenewal, WaitingRenewal, SendRenewal, RenewRenewal, EndRenewal
  DEF Next

LEMMA Always == SessionsSpec => []IInv
<1>1. IInv /\ [Next]_vars => IInv'
  BY AccountsKeep, RenewalsKeep DEF IInv, RenewalInv
<1> QED
  BY Beginning, <1>1, PTL DEF SessionsSpec

----------------------------------------------------------------------------
(* Theorems.                                                               *)

\* Sessions follow the account they rest on: while no commit has rested on an
\* outdated look, a session in force is one of an active user, no older than the
\* last forced change of the password, and opened with the factor if there is one.
THEOREM SessionsAlwaysFollow == SessionsSpec => []SessionsSound
<1>1. IInv => SessionsSound
  BY DEF IInv, AccountInv, Shape, Follow, SessionsSound, SessionsTypeOK, AccountsTypeOK
<1> QED
  BY <1>1, Always, PTL

\* verifyFactorCode never takes a recovery code a second time, however the
\* sign-ins, step-ups, replacements and re-enrolments of an account meet.
THEOREM CodesWorkOnce == SessionsSpec => []CodeOnce
<1>1. IInv => CodeOnce
  BY DEF IInv, AccountInv, CodesFresh, CodeOnce
<1> QED
  BY <1>1, Always, PTL

\* While no commit has rested on an outdated look, the verified secret is the one
\* a code was given for and requestPasswordReset leaves one link open at most.
THEOREM SecretsProvenLinksSingle == SessionsSpec => []SecretProvenOneLink
<1>1. ASSUME IInv, ~blind PROVE Cardinality(Open) <= 1
  <2>1. \A x, y \in Open : x = y
    BY <1>1 DEF IInv, AccountInv, OneOpen
  <2>2. CASE Open = {}
    BY <2>2, FS_EmptySet
  <2>3. CASE Open # {}
    <3>1. PICK r : r \in Open
      BY <2>3
    <3>2. Open = {r}
      BY <2>1, <3>1
    <3> QED
      BY <3>2, FS_Singleton
  <2> QED
    BY <2>2, <2>3
<1>2. IInv => SecretProvenOneLink
  BY <1>1 DEF IInv, AccountInv, FactorProven, SecretProvenOneLink
<1> QED
  BY <1>2, Always, PTL

\* renewSession takes a session for replayed only after two tabs renewed it at
\* once or an answer was lost, and otherwise leaves the browser the credential
\* it will accept next.
THEOREM RenewalsKeepSessions == SessionsSpec => []RenewalKeepsSession
<1>1. ASSUME IInv, NEW s \in Sessions, s \notin disturbed
      PROVE  /\ session[s].state # "REPLAYED"
             /\ cookie # None /\ cookie.session = s /\ InFlight = {} => cookie.gen = session[s].gen
  <2>1. Undisturbed(s)
    BY <1>1 DEF IInv, RenewalInv
  <2>2. InFlight = {} => \A t \in Tabs : ~Is(t, "ROTATED")
    BY DEF InFlight
  <2> QED
    BY <2>1, <2>2 DEF Undisturbed, Of
<1>2. IInv => RenewalKeepsSession
  BY <1>1 DEF RenewalKeepsSession
<1> QED
  BY <1>2, Always, PTL
=============================================================================
