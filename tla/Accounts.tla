------------------------------ MODULE Accounts ------------------------------
(***************************************************************************)
(* One user's account: status and password, the second factor with its     *)
(* recovery codes, reset links, and the sessions that rest on them         *)
(* (server/src/auth.ts, auth-security.ts, auth-step-up.ts and              *)
(* platform-staff.ts).                                                     *)
(*                                                                         *)
(* Hashing a password takes a while and most checks are made outside any   *)
(* transaction or without a lock: a request is a sequence of looks and a   *)
(* commit, with what it saw in clerk[c], and may fail at any point.  What  *)
(* locks the row it decides about is one action.                           *)
(***************************************************************************)
EXTENDS Integers, FiniteSets

CONSTANTS
  Clerks,       \* server processes
  Sessions,     \* sessions that may come to exist
  Resets,       \* reset links that may be asked for
  MaxPassword, MaxSecret, MaxCode,   \* how often each may be replaced
  None

ASSUME AccountConstants ==
  /\ {MaxPassword, MaxSecret, MaxCode} \subseteq Nat \ {0}
  /\ None \notin Resets

VARIABLES
  account,      \* the users row
  factor,       \* the user_mfa_factors row
  session,      \* user_sessions
  reset,        \* password_reset_requests
  clerk,        \* the request every process has in hand
  issued,       \* recovery codes made so far: the codes are 1..issued
  challenge,    \* the challenge that waits for a code: the password it was given for
  uses,         \* history: how often sign-in and step-up took each code
  proven,       \* history: the secret a code was last given for
  cutoff,       \* history: the password all older sessions were ended for
  blind         \* history: a commit has rested on a look that no longer held

accountVars ==
  <<account, factor, session, reset, clerk, issued, challenge, uses, proven, cutoff, blind>>

Levels == {"aal1", "aal2"}

Account == [status : {"active", "disabled"}, password : 1..MaxPassword, temporary : BOOLEAN]

\* row tells a factor from the one set up after it was deleted.
Factor ==
  [status : {"ABSENT", "PENDING", "VERIFIED"}, row : Nat, secret : 0..MaxSecret,
   codes : SUBSET (1..MaxCode)]

\* gen numbers the refresh credentials of a session: gen is the current one and
\* gen - 1 the one kept to recognise a replay.
Session ==
  [state : {"ABSENT", "LIVE", "EXPIRED", "REVOKED", "REPLAYED"}, level : Levels,
   gen : Nat, password : 0..MaxPassword]

Reset == [state : {"ABSENT", "OPEN", "USED", "EXPIRED"}, mailed : BOOLEAN]

Steps == {"FACTOR", "USER", "AGAIN", "INSERT", "SWEEP", "SWEPT", "MAIL", "COMMIT"}

Request ==
  [op : {"SIGN_IN", "CHANGE", "RESET", "ENROL", "PROVE", "REPLACE", "DISABLE"}, step : Steps,
   password : 1..MaxPassword, factor : Factor, level : Levels, code : 0..MaxCode,
   swept : SUBSET Resets, reset : Resets \cup {None}]

AccountsTypeOK ==
  /\ account \in Account /\ factor \in Factor
  /\ session \in [Sessions -> Session]
  /\ reset \in [Resets -> Reset]
  /\ \A c \in Clerks : clerk[c] # None => clerk[c] \in Request
  /\ issued \in 0..MaxCode /\ challenge \in 0..MaxPassword
  /\ uses \in [1..MaxCode -> Nat]
  /\ proven \in 0..MaxSecret /\ cutoff \in 1..MaxPassword
  /\ blind \in BOOLEAN

NoFactor == [status |-> "ABSENT", row |-> 0, secret |-> 0, codes |-> {}]

AccountsInit ==
  /\ account = [status |-> "active", password |-> 1, temporary |-> FALSE]
  /\ factor = NoFactor
  /\ session = [s \in Sessions |->
       [state |-> "ABSENT", level |-> "aal1", gen |-> 0, password |-> 0]]
  /\ reset = [r \in Resets |-> [state |-> "ABSENT", mailed |-> FALSE]]
  /\ clerk = [c \in Clerks |-> None]
  /\ issued = 0 /\ challenge = 0
  /\ uses = [code \in 1..MaxCode |-> 0]
  /\ proven = 0 /\ cutoff = 1 /\ blind = FALSE

----------------------------------------------------------------------------
(* Looks and commits.                                                      *)

Active == account.status = "active"
Verified == factor.status = "VERIFIED"

\* What authenticate admits: a session in force, of an active user, at the
\* level the factor asks for.
Served(s) == session[s].state = "LIVE" /\ Active /\ (Verified => session[s].level = "aal2")

\* requireCompletedPasswordChange, behind authenticate.
SignedIn == \E s \in Sessions : Served(s)
AtWork == SignedIn /\ ~account.temporary

Take(c, op, step) ==
  /\ clerk[c] = None
  /\ clerk' = [clerk EXCEPT ![c] =
       [op |-> op, step |-> step, password |-> account.password, factor |-> factor,
        level |-> "aal1", code |-> 0, swept |-> {}, reset |-> None]]

At(c, op, step) == clerk[c] # None /\ clerk[c].op = op /\ clerk[c].step = step
GoTo(c, step) == clerk' = [clerk EXCEPT ![c].step = step]
Done(c) == clerk' = [clerk EXCEPT ![c] = None]

\* Whether a commit still stands on what was looked at.
Rest(holds) == blind' = (blind \/ ~holds)

\* Faulty variant: sessions opened with the second factor are left alone.
EndUnproven == session' =
  [s \in Sessions |->
     IF session[s].state = "LIVE" /\ session[s].level = "aal1"
     THEN [session[s] EXCEPT !.state = "REVOKED"] ELSE session[s]]

EndAll == session' =
  [s \in Sessions |->
     IF session[s].state = "LIVE" THEN [session[s] EXCEPT !.state = "REVOKED"] ELSE session[s]]

\* A refusal, an error or a crash before the commit.
Fail(c) ==
  /\ clerk[c] # None
  /\ Done(c)
  /\ UNCHANGED <<account, factor, session, reset, issued, challenge, uses, proven, cutoff, blind>>

----------------------------------------------------------------------------
(* Signing in.                                                             *)

\* login finds the active user and compares the password.
SignInPassword(c) ==
  /\ Active
  /\ Take(c, "SIGN_IN", "FACTOR")
  /\ UNCHANGED <<account, factor, session, reset, issued, challenge, uses, proven, cutoff, blind>>

\* ... and asks for a second factor if there is one.
SignInFactor(c) ==
  /\ At(c, "SIGN_IN", "FACTOR")
  /\ IF Verified THEN challenge' = clerk[c].password /\ Done(c) ELSE GoTo(c, "USER") /\ UNCHANGED challenge
  /\ UNCHANGED <<account, factor, session, reset, issued, uses, proven, cutoff, blind>>

\* Faulty variant: the code stays on the list.
SpendKept(code) ==
  /\ code = 0 \/ code \in factor.codes
  /\ UNCHANGED factor
  /\ uses' = IF code = 0 THEN uses ELSE [uses EXCEPT ![code] = @ + 1]

\* verifyFactorCode under the lock of the factor's row: 0 stands for a code of
\* the authenticator, which is not used up.
Spend(code) ==
  /\ code = 0 \/ code \in factor.codes
  /\ factor' = [factor EXCEPT !.codes = @ \ {code}]
  /\ uses' = IF code = 0 THEN uses ELSE [uses EXCEPT ![code] = @ + 1]

\* verifyMfaLogin.  A challenge is good for five minutes, any number of times, and
\* whatever has become of the password it was given for.
MfaSignIn(c, code) ==
  /\ challenge # 0 /\ Verified /\ Active
  /\ Spend(code)
  /\ clerk[c] = None
  /\ clerk' = [clerk EXCEPT ![c] =
       [op |-> "SIGN_IN", step |-> "USER", password |-> challenge, factor |-> factor',
        level |-> "aal2", code |-> 0, swept |-> {}, reset |-> None]]
  /\ UNCHANGED <<account, session, reset, issued, challenge, proven, cutoff, blind>>

ForgetChallenge ==
  /\ challenge # 0 /\ challenge' = 0
  /\ UNCHANGED <<account, factor, session, reset, clerk, issued, uses, proven, cutoff, blind>>

\* issueAuthenticatedSession looks at the user and the factor again ...
IssueUser(c) ==
  /\ At(c, "SIGN_IN", "USER") /\ Active
  /\ GoTo(c, IF clerk[c].level = "aal1" THEN "AGAIN" ELSE "INSERT")
  /\ UNCHANGED <<account, factor, session, reset, issued, challenge, uses, proven, cutoff, blind>>

IssueFactor(c) ==
  /\ At(c, "SIGN_IN", "AGAIN") /\ ~Verified
  /\ GoTo(c, "INSERT")
  /\ UNCHANGED <<account, factor, session, reset, issued, challenge, uses, proven, cutoff, blind>>

\* ... and inserts the session.
IssueInsert(c, s) ==
  /\ At(c, "SIGN_IN", "INSERT")
  /\ session[s].state = "ABSENT"
  /\ session' = [session EXCEPT ![s] =
       [state |-> "LIVE", level |-> clerk[c].level, gen |-> 1, password |-> clerk[c].password]]
  /\ Rest(/\ Active /\ clerk[c].password = account.password
          /\ clerk[c].level = "aal1" => ~Verified
          /\ clerk[c].level = "aal2" => Verified)
  /\ Done(c)
  /\ UNCHANGED <<account, factor, reset, issued, challenge, uses, proven, cutoff>>

\* performStepUp takes a code like a sign-in; the proof it gives grants nothing
\* by itself.
StepUp(code) ==
  /\ SignedIn /\ Verified
  /\ Spend(code)
  /\ UNCHANGED <<account, session, reset, clerk, issued, challenge, proven, cutoff, blind>>

----------------------------------------------------------------------------
(* Ending sessions.                                                        *)

RevokeSession(s) ==
  /\ session[s].state = "LIVE"
  /\ session' = [session EXCEPT ![s].state = "REVOKED"]
  /\ UNCHANGED <<account, factor, reset, clerk, issued, challenge, uses, proven, cutoff, blind>>

\* The idle window or the ninety days pass.
ExpireSession(s) ==
  /\ session[s].state = "LIVE"
  /\ session' = [session EXCEPT ![s].state = "EXPIRED"]
  /\ UNCHANGED <<account, factor, reset, clerk, issued, challenge, uses, proven, cutoff, blind>>

\* setTenantUserStatus and updatePlatformStaff, by somebody else.
SetStatus(status) ==
  /\ account.status # status
  /\ account' = [account EXCEPT !.status = status]
  /\ IF status = "disabled" THEN EndAll ELSE UNCHANGED session
  /\ UNCHANGED <<factor, reset, clerk, issued, challenge, uses, proven, cutoff, blind>>

----------------------------------------------------------------------------
(* Passwords.                                                              *)

NewPassword(temporary) ==
  /\ account.password < MaxPassword
  /\ account' = [status |-> "active", password |-> account.password + 1, temporary |-> temporary]

ChangeLook(c) ==
  /\ SignedIn
  /\ Take(c, "CHANGE", "COMMIT")
  /\ UNCHANGED <<account, factor, session, reset, issued, challenge, uses, proven, cutoff, blind>>

\* changePassword leaves the sessions alone and names the user by id only.
ChangeCommit(c) ==
  /\ At(c, "CHANGE", "COMMIT")
  /\ account.password < MaxPassword
  /\ account' = [account EXCEPT !.password = @ + 1, !.temporary = FALSE]
  /\ Rest(Active /\ clerk[c].password = account.password)
  /\ Done(c)
  /\ UNCHANGED <<factor, session, reset, issued, challenge, uses, proven, cutoff>>

\* issuePlatformStaffTemporaryPassword, by a manager.
IssueTemporaryPassword ==
  /\ NewPassword(TRUE)
  /\ cutoff' = account'.password
  /\ EndAll
  /\ UNCHANGED <<factor, reset, clerk, issued, challenge, uses, proven, blind>>

\* requestPasswordReset: the look for the user, ...
ResetAsk(c) ==
  /\ Active
  /\ Take(c, "RESET", "SWEEP")
  /\ UNCHANGED <<account, factor, session, reset, issued, challenge, uses, proven, cutoff, blind>>

Open == {r \in Resets : reset[r].state = "OPEN"}

\* A link another transaction has marked and not yet committed.
Held(r) == \E c \in Clerks : At(c, "RESET", "SWEPT") /\ r \in clerk[c].swept

\* ... the mark on every open link, which holds their rows, ...
ResetSweep(c) ==
  /\ At(c, "RESET", "SWEEP")
  /\ \A r \in Open : ~Held(r)
  /\ clerk' = [clerk EXCEPT ![c].step = "SWEPT", ![c].swept = Open]
  /\ UNCHANGED <<account, factor, session, reset, issued, challenge, uses, proven, cutoff, blind>>

\* Faulty variant: older links stay good.
SweptKept(c, r) == [reset EXCEPT ![r].state = "OPEN"]

Swept(c, r) ==
  [x \in Resets |->
     IF x = r THEN [reset[r] EXCEPT !.state = "OPEN"]
     ELSE IF x \in clerk[c].swept THEN [reset[x] EXCEPT !.state = "USED"] ELSE reset[x]]

\* ... the new link, ...
ResetCommit(c, r) ==
  /\ At(c, "RESET", "SWEPT")
  /\ reset[r].state = "ABSENT"
  /\ reset' = Swept(c, r)
  /\ clerk' = [clerk EXCEPT ![c].step = "MAIL", ![c].reset = r]
  /\ Rest(Open \subseteq clerk[c].swept)
  /\ UNCHANGED <<account, factor, session, issued, challenge, uses, proven, cutoff>>

\* ... and its mail, which may fail.
ResetMail(c) ==
  /\ At(c, "RESET", "MAIL")
  /\ reset' = [reset EXCEPT ![clerk[c].reset].mailed = TRUE]
  /\ Done(c)
  /\ UNCHANGED <<account, factor, session, issued, challenge, uses, proven, cutoff, blind>>

\* completePasswordReset locks the link.
CompleteReset(r) ==
  /\ reset[r].state = "OPEN" /\ reset[r].mailed /\ ~Held(r)
  /\ Active
  /\ NewPassword(FALSE)
  /\ cutoff' = account'.password
  /\ reset' = [reset EXCEPT ![r].state = "USED"]
  /\ EndAll
  /\ UNCHANGED <<factor, clerk, issued, challenge, uses, proven, blind>>

ExpireReset(r) ==
  /\ reset[r].state = "OPEN" /\ ~Held(r)
  /\ reset' = [reset EXCEPT ![r].state = "EXPIRED"]
  /\ UNCHANGED <<account, factor, session, clerk, issued, challenge, uses, proven, cutoff, blind>>

----------------------------------------------------------------------------
(* The second factor.                                                      *)

\* beginMfaEnrollment: the user, ...
EnrolUser(c) ==
  /\ AtWork
  /\ Take(c, "ENROL", "FACTOR")
  /\ UNCHANGED <<account, factor, session, reset, issued, challenge, uses, proven, cutoff, blind>>

\* ... no verified factor so far, ...
EnrolFactor(c) ==
  /\ At(c, "ENROL", "FACTOR") /\ ~Verified
  /\ GoTo(c, "COMMIT")
  /\ UNCHANGED <<account, factor, session, reset, issued, challenge, uses, proven, cutoff, blind>>

Pending == [status |-> "PENDING", secret |-> factor.secret + 1, codes |-> {},
            row |-> IF factor.status = "ABSENT" THEN factor.row + 1 ELSE factor.row]

\* ... and the upsert, which asks no more.
EnrolCommit(c) ==
  /\ At(c, "ENROL", "COMMIT")
  /\ factor.secret < MaxSecret
  /\ factor' = Pending
  /\ Rest(~Verified)
  /\ Done(c)
  /\ UNCHANGED <<account, session, reset, issued, challenge, uses, proven, cutoff>>

\* The row a request named by its id is still there.
SameRow(c) == factor.status # "ABSENT" /\ factor.row = clerk[c].factor.row

NewCodes == issued < MaxCode /\ issued' = issued + 1

\* verifyMfaEnrollment: the code fits the pending secret ...
ProveLook(c) ==
  /\ AtWork /\ factor.status = "PENDING"
  /\ Take(c, "PROVE", "COMMIT")
  /\ UNCHANGED <<account, factor, session, reset, issued, challenge, uses, proven, cutoff, blind>>

\* ... and the row, whatever it holds by now, is verified.
ProveCommit(c) ==
  /\ At(c, "PROVE", "COMMIT")
  /\ NewCodes
  /\ factor' = IF SameRow(c)
               THEN [factor EXCEPT !.status = "VERIFIED", !.codes = {issued'}] ELSE factor
  /\ proven' = clerk[c].factor.secret
  /\ EndAll
  /\ Rest(factor = clerk[c].factor)
  /\ Done(c)
  /\ UNCHANGED <<account, reset, challenge, uses, cutoff>>

ReplaceLook(c) ==
  /\ AtWork /\ Verified
  /\ Take(c, "REPLACE", "COMMIT")
  /\ UNCHANGED <<account, factor, session, reset, issued, challenge, uses, proven, cutoff, blind>>

ReplaceCommit(c) ==
  /\ At(c, "REPLACE", "COMMIT")
  /\ NewCodes
  /\ factor' = IF SameRow(c) THEN [factor EXCEPT !.codes = {issued'}] ELSE factor
  /\ Rest(Verified /\ SameRow(c) /\ clerk[c].password = account.password)
  /\ Done(c)
  /\ UNCHANGED <<account, session, reset, challenge, uses, proven, cutoff>>

\* disableMfa takes no lock before it checks the code.
DisableLook(c, code) ==
  /\ AtWork /\ Verified
  /\ code = 0 \/ code \in factor.codes
  /\ clerk[c] = None
  /\ clerk' = [clerk EXCEPT ![c] =
       [op |-> "DISABLE", step |-> "COMMIT", password |-> account.password, factor |-> factor,
        level |-> "aal1", code |-> code, swept |-> {}, reset |-> None]]
  /\ UNCHANGED <<account, factor, session, reset, issued, challenge, uses, proven, cutoff, blind>>

DisableCommit(c) ==
  /\ At(c, "DISABLE", "COMMIT")
  /\ factor' = IF SameRow(c) THEN [factor EXCEPT !.status = "ABSENT", !.codes = {}] ELSE factor
  /\ EndAll
  /\ Rest(/\ Verified /\ SameRow(c) /\ clerk[c].password = account.password
          /\ clerk[c].code = 0 \/ clerk[c].code \in factor.codes)
  /\ Done(c)
  /\ UNCHANGED <<account, reset, issued, challenge, uses, proven, cutoff>>

=============================================================================
