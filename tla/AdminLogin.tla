------------------------------ MODULE AdminLogin ------------------------------
(***************************************************************************)
(* internal/auth and the handlers in front of it (internal/web/server.go): *)
(* login, logout, and the change of the password by someone logged in.     *)
(* Every request is a goroutine; the throttle, the sessions and the        *)
(* credentials each have a lock of their own, taken for one call at a      *)
(* time.  A user name that is not the administrator's counts as a wrong    *)
(* password.  Hashes are compared as the passwords they are made from.     *)
(***************************************************************************)
EXTENDS Naturals, FiniteSets

CONSTANTS
  Visits,      \* requests in hand at a time
  Passwords,   \* passwords that are tried, or set
  DefaultPassword,
  Tokens,      \* session tokens, no two alike
  Nothing,     \* no token, no session
  SessionTTL,  \* sessionTTL
  Forget,      \* how long a failed login is remembered
  MaxChanges, MaxTime  \* bounds of the instance

ASSUME LoginAssumption ==
  /\ IsFiniteSet(Visits)
  /\ DefaultPassword \in Passwords /\ Nothing \notin Tokens \union Nat
  /\ SessionTTL \in Nat /\ Forget \in Nat
  /\ MaxChanges \in Nat /\ MaxTime \in Nat

VARIABLES
  visit,     \* goroutine |-> the locals of its handler
  sessions,  \* token |-> when it expires, or Nothing
  throttle,  \* failCount and lastFailure
  creds,     \* credentials in memory
  stored,    \* credentials in their file
  changes,   \* history: credentials made so far
  reported,  \* history: the newest of them that was reported as saved
  slipped,   \* history: failures that were not delayed, since failCount was last 0
  login,     \* history: token |-> when it was issued, or Nothing
  ended,     \* history: tokens logged out, or forgotten in a restart
  clock

history == <<changes, reported, slipped, login, ended>>
loginVars == <<visit, sessions, throttle, creds, stored, history, clock>>

-----------------------------------------------------------------------------
\* Credentials, numbered in the order they are made.
Credentials == [password : Passwords, number : 0 .. MaxChanges]
FirstCredentials == [password |-> DefaultPassword, number |-> 0]

\* After three failures the delay is the same for all that matters here.
Failures == 0 .. 3
AtMostThree(n) == IF n > 3 THEN 3 ELSE n

Steps == {"idle", "delay", "sleep", "verify", "failure", "success", "create",
          "revoke", "auth", "set", "write"}

Requests == [at       : Steps,
             page     : {"login", "logout", "account"},
             password : Passwords,                 \* the one given
             new      : Passwords,                 \* the one to be set
             token    : Tokens \union {Nothing},   \* the cookie
             delayed  : BOOLEAN,
             made     : Credentials]               \* what is being written

NoRequest == [at |-> "idle", page |-> "login", password |-> DefaultPassword,
              new |-> DefaultPassword, token |-> Nothing, delayed |-> FALSE,
              made |-> FirstCredentials]

\* Visit v goes on as r; nothing else changes but what the action says.
Goes(v, r) == visit' = [visit EXCEPT ![v] = r]
Leaves(v) == Goes(v, NoRequest)

-----------------------------------------------------------------------------
\* requireAuth comes before the account page, and not before the other two.
Come(v) ==
  /\ visit[v].at = "idle"
  /\ \E p \in Passwords :
       \/ Goes(v, [NoRequest EXCEPT !.at = "delay", !.password = p])
       \/ \E t \in Tokens, n \in Passwords :
            Goes(v, [NoRequest EXCEPT !.at = "auth", !.page = "account",
                                      !.password = p, !.new = n, !.token = t])
       \/ \E t \in Tokens :
            Goes(v, [NoRequest EXCEPT !.at = "revoke", !.page = "logout", !.token = t])
  /\ UNCHANGED <<sessions, throttle, creds, stored, history, clock>>

-----------------------------------------------------------------------------
(* handleLogin. *)

\* failCount when Delay looks at it.
Remembered(n) == IF clock > throttle.last + Forget THEN 0 ELSE n

\* Mutated: one more attempt is free.
SlowFromFour(n) == n > 3

Slow(n) == n > 2

Delay(v) ==
  /\ visit[v].at = "delay"
  /\ LET n == Remembered(throttle.count) IN
     /\ throttle' = [throttle EXCEPT !.count = n]
     /\ slipped' = IF n = 0 THEN 0 ELSE slipped
     /\ \/ Slow(n) /\ Goes(v, [visit[v] EXCEPT !.at = "sleep", !.delayed = TRUE])
        \/ ~Slow(n) /\ Goes(v, [visit[v] EXCEPT !.at = "verify", !.delayed = FALSE])
  /\ UNCHANGED <<sessions, creds, stored, changes, reported, login, ended, clock>>

\* However long it lasts.
Wake(v) ==
  /\ visit[v].at = "sleep"
  /\ Goes(v, [visit[v] EXCEPT !.at = "verify"])
  /\ UNCHANGED <<sessions, throttle, creds, stored, history, clock>>

\* Mutated: the file is written without the lock.
NeverLocked == FALSE

\* SetPassword holds the lock while it writes the file.
Locked == \E v \in Visits : visit[v].at = "write"

\* Verify, for a login and for a change of the password.
Verify(v) ==
  LET r == visit[v]
      right == r.password = creds.password IN
  /\ r.at = "verify" /\ ~Locked
  /\ IF r.page = "login"
       THEN Goes(v, [r EXCEPT !.at = IF right THEN "success" ELSE "failure"])
       ELSE IF right THEN Goes(v, [r EXCEPT !.at = "set"]) ELSE Leaves(v)
  /\ UNCHANGED <<sessions, throttle, creds, stored, history, clock>>

RecordFailure(v) ==
  /\ visit[v].at = "failure"
  /\ throttle' = [count |-> AtMostThree(throttle.count + 1), last |-> clock]
  /\ slipped' = IF visit[v].delayed THEN slipped ELSE slipped + 1
  /\ Leaves(v)
  /\ UNCHANGED <<sessions, creds, stored, changes, reported, login, ended, clock>>

RecordSuccess(v) ==
  /\ visit[v].at = "success"
  /\ throttle' = [throttle EXCEPT !.count = 0]
  /\ slipped' = 0
  /\ Goes(v, [visit[v] EXCEPT !.at = "create"])
  /\ UNCHANGED <<sessions, creds, stored, changes, reported, login, ended, clock>>

Create(v) ==
  /\ visit[v].at = "create"
  /\ \E t \in Tokens :
       /\ login[t] = Nothing
       /\ sessions' = [sessions EXCEPT ![t] = clock + SessionTTL]
       /\ login' = [login EXCEPT ![t] = clock]
  /\ Leaves(v)
  /\ UNCHANGED <<throttle, creds, stored, changes, reported, slipped, ended, clock>>

\* No random bytes: an error page.
CreateFails(v) ==
  /\ visit[v].at = "create"
  /\ Leaves(v)
  /\ UNCHANGED <<sessions, throttle, creds, stored, history, clock>>

-----------------------------------------------------------------------------
(* handleLogout, requireAuth and handleAccountUpdate. *)

Revoke(v) ==
  /\ visit[v].at = "revoke"
  /\ sessions' = [sessions EXCEPT ![visit[v].token] = Nothing]
  /\ ended' = ended \union {t \in {visit[v].token} : login[t] # Nothing}
  /\ Leaves(v)
  /\ UNCHANGED <<throttle, creds, stored, changes, reported, slipped, login, clock>>

\* Mutated: the time of expiry is not looked at.
Known(t) == sessions[t] # Nothing

Valid(t) == sessions[t] # Nothing /\ clock <= sessions[t]

\* A session that has expired is deleted when it is looked at.
Authorize(v) ==
  LET t == visit[v].token IN
  /\ visit[v].at = "auth"
  /\ IF Valid(t) THEN Goes(v, [visit[v] EXCEPT !.at = "verify"]) /\ UNCHANGED sessions
     ELSE Leaves(v) /\ sessions' = [sessions EXCEPT ![t] = Nothing]
  /\ UNCHANGED <<throttle, creds, stored, history, clock>>

\* The new password is too short or not the same twice, or there is no salt.
Refuse(v) ==
  /\ visit[v].at = "set"
  /\ Leaves(v)
  /\ UNCHANGED <<sessions, throttle, creds, stored, history, clock>>

SetPassword(v) ==
  /\ visit[v].at = "set" /\ ~Locked
  /\ changes < MaxChanges
  /\ changes' = changes + 1
  /\ creds' = [password |-> visit[v].new, number |-> changes']
  /\ Goes(v, [visit[v] EXCEPT !.at = "write", !.made = creds'])
  /\ UNCHANGED <<sessions, throttle, stored, reported, slipped, login, ended, clock>>

Later(m, n) == IF m < n THEN n ELSE m

SavePassword(v) ==
  /\ visit[v].at = "write"
  /\ stored' = visit[v].made
  /\ reported' = Later(reported, visit[v].made.number)
  /\ Leaves(v)
  /\ UNCHANGED <<sessions, throttle, creds, changes, slipped, login, ended, clock>>

\* The new password stays in memory.
SaveFailed(v) ==
  /\ visit[v].at = "write"
  /\ Leaves(v)
  /\ UNCHANGED <<sessions, throttle, creds, stored, history, clock>>

-----------------------------------------------------------------------------
\* The process ends, wherever its goroutines are, and is started again.
Restart ==
  /\ visit' = [v \in Visits |-> NoRequest]
  /\ sessions' = [t \in Tokens |-> Nothing]
  /\ throttle' = [count |-> 0, last |-> 0]
  /\ creds' = stored
  /\ ended' = {t \in Tokens : login[t] # Nothing}
  /\ slipped' = 0
  /\ UNCHANGED <<stored, changes, reported, login, clock>>

Passes ==
  /\ clock < MaxTime
  /\ clock' = clock + 1
  /\ UNCHANGED <<visit, sessions, throttle, creds, stored, history>>

\* A first start makes the default credentials.
LoginInit ==
  /\ visit = [v \in Visits |-> NoRequest]
  /\ sessions = [t \in Tokens |-> Nothing]
  /\ throttle = [count |-> 0, last |-> 0]
  /\ creds = FirstCredentials /\ stored = FirstCredentials
  /\ changes = 0 /\ reported = 0 /\ slipped = 0
  /\ login = [t \in Tokens |-> Nothing] /\ ended = {}
  /\ clock = 0

LoginNext ==
  \/ \E v \in Visits :
       \/ Come(v) \/ Delay(v) \/ Wake(v) \/ Verify(v) \/ RecordFailure(v)
       \/ RecordSuccess(v) \/ Create(v) \/ CreateFails(v) \/ Revoke(v)
       \/ Authorize(v) \/ Refuse(v) \/ SetPassword(v) \/ SavePassword(v) \/ SaveFailed(v)
  \/ Restart \/ Passes

LoginSpec == LoginInit /\ [][LoginNext]_loginVars

-----------------------------------------------------------------------------
LoginTypeOK ==
  /\ visit \in [Visits -> Requests]
  /\ \A v \in Visits : /\ visit[v].at = "write" => visit[v].made = creds
                       /\ visit[v].at \in {"revoke", "auth"} => visit[v].token \in Tokens
  /\ sessions \in [Tokens -> Nat \union {Nothing}]
  /\ throttle \in [count : Failures, last : Nat]
  /\ creds \in Credentials /\ stored \in Credentials
  /\ changes \in 0 .. MaxChanges /\ reported \in 0 .. MaxChanges /\ slipped \in Nat
  /\ login \in [Tokens -> Nat \union {Nothing}] /\ ended \subseteq Tokens
  /\ clock \in Nat

(* Since failures were last forgotten, no more than three failed logins have
   gone through without a delay, and one more for each other request that
   was in hand when the third was recorded: Delay is asked before the
   password is checked and the failure recorded after it (session.go:84). *)
SlowedAfterThree == slipped <= 2 + Cardinality(Visits)

(* A change of the password that was reported as saved is in the file and in
   force, now and after every restart, unless a later change took its place:
   changes by several requests reach the file in the order they were made,
   and one that could not be written does not bring an older one back
   (store.go:89). *)
ChangeKept == reported <= stored.number /\ reported <= creds.number

(* A request is let in only with a token that a login was given, until it has
   been logged out or has expired, and never after a restart (session.go:43). *)
AdmittedWhileLoggedIn ==
  [][\A v \in Visits :
       visit[v].at = "auth" /\ visit'[v].at = "verify" =>
         LET t == visit[v].token IN
         /\ login[t] # Nothing /\ t \notin ended
         /\ clock <= login[t] + SessionTTL]_loginVars
=============================================================================
