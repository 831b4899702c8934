----------------------------- MODULE Onboarding -----------------------------
(***************************************************************************)
(* How a company comes to be a tenant (signupTenant and createTenantUser   *)
(* of server/src/auth.ts) and whom it was referred by (server/src/         *)
(* referrals.ts).  A signup is one transaction that looks first and leaves *)
(* the rest to unique indexes, and the sign-in that ends its request comes *)
(* after it.  A review is stamped with the instant its transaction began,  *)
(* and the list shows the decision with the latest stamp.                  *)
(***************************************************************************)
EXTENDS Naturals, Sequences, FiniteSets

CONSTANTS Subdomains, Persons, ReferralCodes, Signups, Reviewers, MaxReviews, Unknown

ASSUME OnboardingConstants == MaxReviews \in Nat /\ Unknown \notin Persons \cup ReferralCodes

VARIABLES
  tenant,   \* tenants with their owner, the other users and the code they came by
  code,     \* referral_codes: the referring user, and whether it still runs
  events,   \* referral_review_events, in the order they were committed
  signup,   \* what every signup has read
  reviewing,\* the review every reviewer has begun
  began     \* transactions begun so far: the clock that stamps them

onboardingVars == <<tenant, code, events, signup, reviewing, began>>

OnboardingInit ==
  /\ tenant = [s \in Subdomains |-> Unknown]
  /\ code = [k \in ReferralCodes |-> Unknown]
  /\ events = <<>>
  /\ signup = [v \in Signups |-> Unknown]
  /\ reviewing = [r \in Reviewers |-> Unknown]
  /\ began = 0

CreateReferralCode(k, p) ==
  /\ code[k] = Unknown
  /\ code' = [code EXCEPT ![k] = [referrer |-> p, open |-> TRUE]]
  /\ UNCHANGED <<tenant, events, signup, reviewing, began>>

ExpireReferralCode(k) ==
  /\ code[k] # Unknown /\ code[k].open
  /\ code' = [code EXCEPT ![k].open = FALSE]
  /\ UNCHANGED <<tenant, events, signup, reviewing, began>>

NotOneself(k, owner) == code[k].referrer # owner

\* The code, when one is given, must run and must not be the owner's own.
SignupLook(v, s, owner, k) ==
  /\ signup[v] = Unknown /\ tenant[s] = Unknown
  /\ k # Unknown => code[k] # Unknown /\ code[k].open /\ NotOneself(k, owner)
  /\ began' = began + 1
  /\ signup' = [signup EXCEPT ![v] =
       [step |-> "COMMIT", at |-> began + 1, subdomain |-> s, owner |-> owner, code |-> k]]
  /\ UNCHANGED <<tenant, code, events, reviewing>>

\* tenants.subdomain is unique.
SubdomainFree(s) == tenant[s] = Unknown

\* Tenant, roles, owner, chart, warehouse, subscription and attribution, or nothing.
SignupCommit(v) ==
  /\ signup[v] # Unknown /\ signup[v].step = "COMMIT"
  /\ LET r == signup[v]
     IN IF SubdomainFree(r.subdomain)
        THEN /\ tenant' = [tenant EXCEPT ![r.subdomain] =
                  [owner |-> r.owner, users |-> {}, disabled |-> {}, code |-> r.code]]
             /\ events' = IF r.code = Unknown THEN events
                          ELSE Append(events, [of |-> r.subdomain, decision |-> "PENDING", at |-> r.at, seen |-> 0])
             /\ signup' = [signup EXCEPT ![v].step = "SIGN IN"]
        ELSE signup' = [signup EXCEPT ![v] = Unknown] /\ UNCHANGED <<tenant, events>>
  /\ UNCHANGED <<code, reviewing, began>>

\* The sign-in, or its failure, ends the request; the tenant stays either way.
SignupSignIn(v) ==
  /\ signup[v] # Unknown /\ signup[v].step = "SIGN IN"
  /\ signup' = [signup EXCEPT ![v] = Unknown]
  /\ UNCHANGED <<tenant, code, events, reviewing, began>>

NewToTenant(s, p) == p # tenant[s].owner /\ p \notin tenant[s].users

CreateTenantUser(s, p) ==
  /\ tenant[s] # Unknown /\ NewToTenant(s, p)
  /\ tenant' = [tenant EXCEPT ![s].users = @ \cup {p}]
  /\ UNCHANGED <<code, events, signup, reviewing, began>>

\* The accountable owner cannot be disabled, nor can anybody disable himself.
Disposable(s, p) == p # tenant[s].owner

SetTenantUserStatus(s, p, status) ==
  /\ tenant[s] # Unknown /\ p \in tenant[s].users \cup {tenant[s].owner} /\ Disposable(s, p)
  /\ tenant' = [tenant EXCEPT ![s].disabled = IF status = "disabled" THEN @ \cup {p} ELSE @ \ {p}]
  /\ UNCHANGED <<code, events, signup, reviewing, began>>

BeginReview(r, s, decision) ==
  /\ reviewing[r] = Unknown /\ tenant[s] # Unknown /\ tenant[s].code # Unknown
  /\ Len(events) < MaxReviews
  /\ began' = began + 1
  /\ reviewing' = [reviewing EXCEPT ![r] =
       [of |-> s, decision |-> decision, at |-> began + 1, seen |-> Len(events)]]
  /\ UNCHANGED <<tenant, code, events, signup>>

RecordReferralReview(r) ==
  /\ reviewing[r] # Unknown
  /\ events' = Append(events, reviewing[r])
  /\ reviewing' = [reviewing EXCEPT ![r] = Unknown]
  /\ UNCHANGED <<tenant, code, signup, began>>

About(s) == {i \in DOMAIN events : events[i].of = s}

\* The event the list of attributions shows.
Latest(s) == CHOOSE i \in About(s) : \A j \in About(s) : events[j].at <= events[i].at

OnboardingNext ==
  \/ \E k \in ReferralCodes : ExpireReferralCode(k) \/ \E p \in Persons : CreateReferralCode(k, p)
  \/ \E v \in Signups :
       \/ SignupCommit(v) \/ SignupSignIn(v)
       \/ \E s \in Subdomains, p \in Persons, k \in ReferralCodes \cup {Unknown} : SignupLook(v, s, p, k)
  \/ \E s \in Subdomains, p \in Persons :
       CreateTenantUser(s, p) \/ \E status \in {"active", "disabled"} : SetTenantUserStatus(s, p, status)
  \/ \E r \in Reviewers :
       \/ RecordReferralReview(r)
       \/ \E s \in Subdomains, decision \in {"QUALIFIED", "REJECTED"} : BeginReview(r, s, decision)

----------------------------------------------------------------------------
(* Properties.                                                             *)

\* Of signups that race for a name one company comes about, with an owner whom nobody can
\* disable.  What a company came by is captured once and is not its owner's own code;
\* it stays pending until a review, and no review shows once another began after it.
OnboardingSound ==
  \A s \in Subdomains : tenant[s] # Unknown =>
    LET t == tenant[s]
        captured == {i \in About(s) : events[i].decision = "PENDING"}
    IN /\ t.owner \notin t.users /\ t.owner \notin t.disabled
       /\ Cardinality(captured) = (IF t.code = Unknown THEN 0 ELSE 1)
       /\ t.code # Unknown =>
            /\ code[t.code].referrer # t.owner
            /\ Latest(s) \in captured <=> About(s) = captured
            /\ \A i \in About(s) : (\E j \in About(s) : events[j].seen >= i) => Latest(s) # i
       /\ Cardinality({v \in Signups : signup[v] # Unknown /\ signup[v].step = "SIGN IN"
                                       /\ signup[v].subdomain = s}) <= 1
=============================================================================
