------------------------------ MODULE Sessions ------------------------------
(***************************************************************************)
(* The account beside one browser: how its tabs keep a session alive by    *)
(* renewing it (server/src/auth.ts, server/src/routes.ts,                  *)
(* web/src/api.ts and web/src/shell/session-renewal-model.ts).             *)
(*                                                                         *)
(* A credential is a session and the generation it was minted in.  The     *)
(* refresh cookie and the access token belong to the browser, so all tabs  *)
(* share them; the attempt in flight belongs to a tab.                     *)
(***************************************************************************)
EXTENDS Accounts

CONSTANTS Tabs, MaxGen

ASSUME SessionConstants == MaxGen \in Nat \ {0}

VARIABLES
  cookie,      \* the refresh cookie
  token,       \* the access token in the browser's storage
  tab,         \* the renewal every tab has under way
  disturbed    \* history: sessions renewed by two tabs at once, or with an answer lost

browserVars == <<cookie, token, tab, disturbed>>
vars == <<accountVars, browserVars>>

Credential == [session : Sessions, gen : 1..MaxGen]

\* FAILED: a request was refused; SENT: the renewal is on its way; ROTATED and
\* DENIED: its answer is.  held is the token refused, the cookie sent, the
\* credential answered.
Attempt ==
  [step : {"FAILED", "SENT", "ROTATED", "DENIED"}, held : Credential \cup {None}]

ASSUME NoneIsNothing == None \notin Credential \cup Attempt

SessionsTypeOK ==
  /\ AccountsTypeOK
  /\ cookie \in Credential \cup {None} /\ token \in Credential \cup {None}
  /\ \A t \in Tabs : tab[t] # None => tab[t] \in Attempt
  /\ disturbed \subseteq Sessions

Init ==
  /\ AccountsInit
  /\ cookie = None /\ token = None
  /\ tab = [t \in Tabs |-> None]
  /\ disturbed = {}

----------------------------------------------------------------------------
(* The browser.                                                            *)

Is(t, step) == tab[t] # None /\ tab[t].step = step
Set(t, step, held) == tab' = [tab EXCEPT ![t] = [step |-> step, held |-> held]]
InFlight == {t \in Tabs : Is(t, "SENT") \/ Is(t, "ROTATED") \/ Is(t, "DENIED")}

\* deliverSession: the new session lands in this browser if it was signed out,
\* in another one otherwise.
SignIn(c, s) ==
  /\ IssueInsert(c, s)
  /\ LET new == [session |-> s, gen |-> 1]
     IN IF token = None THEN cookie' = new /\ token' = new ELSE UNCHANGED <<cookie, token>>
  /\ UNCHANGED <<tab, disturbed>>

\* /auth/logout with a token that is still good.
SignOut ==
  /\ token # None /\ Served(token.session) /\ session[token.session].gen = token.gen
  /\ RevokeSession(token.session)
  /\ cookie' = None /\ token' = None
  /\ UNCHANGED <<tab, disturbed>>

\* A request comes back with 401: the token ran out or its session is over.
Refused(t) ==
  /\ tab[t] = None /\ token # None
  /\ Set(t, "FAILED", token)
  /\ UNCHANGED <<accountVars, cookie, token, disturbed>>

\* renewAfterAuthFailure: somebody renewed meanwhile, ...
Reuse(t) ==
  /\ Is(t, "FAILED") /\ token \notin {None, tab[t].held}
  /\ tab' = [tab EXCEPT ![t] = None]
  /\ UNCHANGED <<accountVars, cookie, token, disturbed>>

\* ... or this tab does, once for all its requests.
Send(t) ==
  /\ Is(t, "FAILED") /\ token \in {None, tab[t].held}
  /\ Set(t, "SENT", cookie)
  /\ disturbed' = disturbed \cup
       {s \in Sessions : /\ cookie # None /\ cookie.session = s
                         /\ \E u \in InFlight : tab[u].held # None /\ tab[u].held.session = s}
  /\ UNCHANGED <<accountVars, cookie, token>>

\* Faulty variant: the cookie of the answer is not set.
KeepCookie(answer) == UNCHANGED cookie
SetCookie(answer) == cookie' = answer

AnswerArrives(t) ==
  /\ Is(t, "ROTATED") \/ Is(t, "DENIED")
  /\ SetCookie(tab[t].held) /\ token' = tab[t].held
  /\ tab' = [tab EXCEPT ![t] = None]
  /\ UNCHANGED <<accountVars, disturbed>>

\* The request or its answer is lost: the token is forgotten, the cookie stays.
CallFails(t) ==
  /\ t \in InFlight
  /\ token' = None
  /\ tab' = [tab EXCEPT ![t] = None]
  /\ disturbed' =
       IF Is(t, "ROTATED") THEN disturbed \cup {tab[t].held.session} ELSE disturbed
  /\ UNCHANGED <<accountVars, cookie>>

----------------------------------------------------------------------------
(* renewSession, under the lock of the session that holds the credential.  *)

Current(sent) ==
  sent # None /\ sent.gen = session[sent.session].gen /\ Served(sent.session)
Superseded(sent) == sent # None /\ sent.gen = session[sent.session].gen - 1

Renew(t) ==
  /\ Is(t, "SENT")
  /\ LET sent == tab[t].held
     IN \/ /\ Current(sent) /\ sent.gen < MaxGen
           /\ session' = [session EXCEPT ![sent.session].gen = @ + 1]
           /\ Set(t, "ROTATED", [sent EXCEPT !.gen = @ + 1])
        \/ /\ Superseded(sent)
           /\ session' = IF session[sent.session].state = "REVOKED" THEN session
                         ELSE [session EXCEPT ![sent.session].state = "REPLAYED"]
           /\ Set(t, "DENIED", None)
        \/ /\ ~Current(sent) /\ ~Superseded(sent)
           /\ UNCHANGED session
           /\ Set(t, "DENIED", None)
  /\ UNCHANGED <<account, factor, reset, clerk, issued, challenge, uses, proven, cutoff, blind,
                 cookie, token, disturbed>>

----------------------------------------------------------------------------

AccountStep ==
  \/ \E c \in Clerks :
       \/ SignInPassword(c) \/ SignInFactor(c) \/ IssueUser(c) \/ IssueFactor(c)
       \/ \E code \in 0..MaxCode : MfaSignIn(c, code) \/ DisableLook(c, code)
       \/ ChangeLook(c) \/ ChangeCommit(c)
       \/ ResetAsk(c) \/ ResetSweep(c) \/ ResetMail(c) \/ (\E r \in Resets : ResetCommit(c, r))
       \/ EnrolUser(c) \/ EnrolFactor(c) \/ EnrolCommit(c)
       \/ ProveLook(c) \/ ProveCommit(c) \/ ReplaceLook(c) \/ ReplaceCommit(c)
       \/ DisableCommit(c) \/ Fail(c)
  \/ ForgetChallenge \/ IssueTemporaryPassword
  \/ \E code \in 0..MaxCode : StepUp(code)
  \/ \E s \in Sessions : RevokeSession(s) \/ ExpireSession(s)
  \/ \E status \in {"active", "disabled"} : SetStatus(status)
  \/ \E r \in Resets : CompleteReset(r) \/ ExpireReset(r)

Next ==
  \/ AccountStep /\ UNCHANGED browserVars
  \/ \E c \in Clerks, s \in Sessions : SignIn(c, s)
  \/ SignOut
  \/ \E t \in Tabs :
       Refused(t) \/ Reuse(t) \/ Send(t) \/ Renew(t) \/ AnswerArrives(t) \/ CallFails(t)

SessionsSpec == Init /\ [][Next]_vars

----------------------------------------------------------------------------
(* Properties.                                                             *)

\* Whatever order requests come in, as long as none has committed on a look that
\* no longer held: a disabled user has no session in force, a session in force
\* began with a password no older than the last forced change, and beside a
\* verified factor it was opened with the second factor.
SessionsFollowAccount ==
  ~blind => \A s \in Sessions : session[s].state = "LIVE" =>
    /\ Active
    /\ session[s].password >= cutoff
    /\ Verified => session[s].level = "aal2"

\* A recovery code is good for one sign-in or one step-up, although a challenge
\* may be answered any number of times and looks may be outdated.
CodeOnce == \A code \in 1..MaxCode : uses[code] <= 1

\* The verified secret is the one the user has shown to have, a factor that is
\* not verified has no recovery codes, and at most one reset link is open, as
\* long as nothing committed on an outdated look.
SecretProvenOneLink ==
  ~blind =>
    /\ IF Verified THEN factor.secret = proven ELSE factor.codes = {}
    /\ Cardinality(Open) <= 1

\* A session is taken for replayed only if two tabs renewed it at once or an
\* answer was lost on its way; otherwise the browser always has the credential
\* its session will accept next.
RenewalKeepsSession ==
  \A s \in Sessions : s \notin disturbed =>
    /\ session[s].state # "REPLAYED"
    /\ cookie # None /\ cookie.session = s /\ InFlight = {} => cookie.gen = session[s].gen

\* Sessions and the account they rest on, on states of the right types.
SessionsSound == SessionsTypeOK /\ SessionsFollowAccount

=============================================================================
