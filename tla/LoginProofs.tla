----------------------------- MODULE LoginProofs -----------------------------
(***************************************************************************)
(* Proofs about AdminLogin, for any number of requests, passwords and      *)
(* tokens.                                                                 *)
(***************************************************************************)
EXTENDS AdminLogin, FiniteSetTheorems, TLAPS

-----------------------------------------------------------------------------
(* Type correctness. *)

VisitOK ==
  /\ visit \in [Visits -> Requests]
  /\ \A v \in Visits : /\ visit[v].at = "write" => visit[v].made = creds
                       /\ visit[v].at \in {"revoke", "auth"} => visit[v].token \in Tokens

LEMMA NoRequestType == NoRequest \in Requests /\ NoRequest.at = "idle"
BY LoginAssumption
   DEF NoRequest, Requests, Steps, FirstCredentials, Credentials

LEMMA GoesOK ==
  ASSUME VisitOK, NEW v \in Visits, NEW r \in Requests, Goes(v, r), creds' = creds,
         r.at = "write" => r.made = creds,
         r.at \in {"revoke", "auth"} => r.token \in Tokens
  PROVE  VisitOK'
BY DEF VisitOK, Goes

LEMMA LeavesOK ==
  ASSUME VisitOK, NEW v \in Visits, Leaves(v), creds' = creds
  PROVE  VisitOK'
BY NoRequestType, GoesOK DEF Leaves

\* A request goes on to another place, with nothing else in it changed.
LEMMA MovesOK ==
  ASSUME VisitOK, NEW v \in Visits, NEW s \in {"verify", "success", "failure", "set", "create"},
         Goes(v, [visit[v] EXCEPT !.at = s]), creds' = creds
  PROVE  VisitOK'
<1> DEFINE r == [visit[v] EXCEPT !.at = s]
<1>1. r \in Requests /\ r.at = s
  <2>1. visit[v] \in Requests /\ s \in Steps
    BY DEF VisitOK, Steps
  <2>2. QED  BY <2>1 DEF Requests
<1> HIDE DEF r
<1>2. Goes(v, r)
  BY DEF r
<1>3. QED  BY <1>1, <1>2, GoesOK

\* What Come starts with.
LEMMA ComeOK ==
  ASSUME VisitOK, NEW v \in Visits, Come(v)
  PROVE  VisitOK'
<1>0. creds' = creds /\ NoRequest \in Requests
  BY NoRequestType DEF Come
<1>1. CASE \E p \in Passwords : Goes(v, [NoRequest EXCEPT !.at = "delay", !.password = p])
  <2>1. PICK p \in Passwords : Goes(v, [NoRequest EXCEPT !.at = "delay", !.password = p])
    BY <1>1
  <2> DEFINE r == [NoRequest EXCEPT !.at = "delay", !.password = p]
  <2>2. r \in Requests /\ r.at = "delay"
    BY <1>0 DEF Requests, Steps
  <2> HIDE DEF r
  <2>3. Goes(v, r)
    BY <2>1 DEF r
  <2>4. QED  BY <1>0, <2>2, <2>3, GoesOK
<1>2. CASE \E p, n \in Passwords, t \in Tokens :
             Goes(v, [NoRequest EXCEPT !.at = "auth", !.page = "account",
                                       !.password = p, !.new = n, !.token = t])
  <2>1. PICK p \in Passwords, n \in Passwords, t \in Tokens :
             Goes(v, [NoRequest EXCEPT !.at = "auth", !.page = "account",
                                       !.password = p, !.new = n, !.token = t])
    BY <1>2
  <2> DEFINE r == [NoRequest EXCEPT !.at = "auth", !.page = "account",
                                    !.password = p, !.new = n, !.token = t]
  <2>2. r \in Requests /\ r.at = "auth" /\ r.token = t
    BY <1>0 DEF Requests, Steps
  <2> HIDE DEF r
  <2>3. Goes(v, r)
    BY <2>1 DEF r
  <2>4. QED  BY <1>0, <2>2, <2>3, GoesOK
<1>3. CASE \E t \in Tokens :
             Goes(v, [NoRequest EXCEPT !.at = "revoke", !.page = "logout", !.token = t])
  <2>1. PICK t \in Tokens :
             Goes(v, [NoRequest EXCEPT !.at = "revoke", !.page = "logout", !.token = t])
    BY <1>3
  <2> DEFINE r == [NoRequest EXCEPT !.at = "revoke", !.page = "logout", !.token = t]
  <2>2. r \in Requests /\ r.at = "revoke" /\ r.token = t
    BY <1>0 DEF Requests, Steps
  <2> HIDE DEF r
  <2>3. Goes(v, r)
    BY <2>1 DEF r
  <2>4. QED  BY <1>0, <2>2, <2>3, GoesOK
<1>4. QED  BY <1>1, <1>2, <1>3 DEF Come

LEMMA LoginTypeInit == LoginInit => LoginTypeOK
BY LoginAssumption, NoRequestType
   DEF LoginInit, LoginTypeOK, FirstCredentials, Credentials, Failures

LEMMA LoginTypeNext == LoginTypeOK /\ [LoginNext]_loginVars => LoginTypeOK'
<1> SUFFICES ASSUME LoginTypeOK, [LoginNext]_loginVars PROVE LoginTypeOK'
  OBVIOUS
<1> USE DEF LoginTypeOK
<1>0. VisitOK /\ SessionTTL \in Nat
  BY LoginAssumption DEF VisitOK
<1>1. ASSUME NEW v \in Visits, Come(v) PROVE LoginTypeOK'
  BY <1>0, <1>1, ComeOK DEF Come, VisitOK, history
<1>2. ASSUME NEW v \in Visits, Delay(v) PROVE LoginTypeOK'
  <2>1. visit[v] \in Requests
    OBVIOUS
  <2> DEFINE s1 == [visit[v] EXCEPT !.at = "sleep", !.delayed = TRUE]
             s2 == [visit[v] EXCEPT !.at = "verify", !.delayed = FALSE]
  <2>2. s1 \in Requests /\ s2 \in Requests /\ s1.at = "sleep" /\ s2.at = "verify"
    BY <2>1 DEF Requests, Steps
  <2>3. Goes(v, s1) \/ Goes(v, s2)
    BY <1>2 DEF Delay
  <2> HIDE DEF s1, s2
  <2>4. VisitOK'
    BY <1>0, <1>2, <2>2, <2>3, GoesOK DEF Delay
  <2>5. throttle' \in [count : Failures, last : Nat] /\ slipped' \in Nat
    BY <1>2 DEF Delay, Remembered, Failures
  <2>6. QED  BY <1>2, <2>4, <2>5 DEF Delay, VisitOK
<1>3. ASSUME NEW v \in Visits, Wake(v) PROVE LoginTypeOK'
  <2>1. VisitOK'
    BY <1>0, <1>3, MovesOK DEF Wake
  <2>2. QED  BY <1>3, <2>1 DEF Wake, VisitOK, history
<1>4. ASSUME NEW v \in Visits, Verify(v) PROVE LoginTypeOK'
  <2>1. creds' = creds /\ (Leaves(v) \/ \E s \in {"success", "failure", "set"} :
                                          Goes(v, [visit[v] EXCEPT !.at = s]))
    <3>1. CASE visit[v].page = "login"
      BY <1>4, <3>1 DEF Verify
    <3>2. CASE visit[v].page # "login"
      BY <1>4, <3>2 DEF Verify
    <3>3. QED  BY <3>1, <3>2
  <2>2. VisitOK'
    BY <1>0, <2>1, MovesOK, LeavesOK
  <2>3. QED  BY <1>4, <2>2 DEF Verify, VisitOK, history
<1>5. ASSUME NEW v \in Visits, RecordFailure(v) PROVE LoginTypeOK'
  <2>1. VisitOK'
    BY <1>0, <1>5, LeavesOK DEF RecordFailure
  <2>2. throttle' \in [count : Failures, last : Nat] /\ slipped' \in Nat
    BY <1>5 DEF RecordFailure, AtMostThree, Failures
  <2>3. QED  BY <1>5, <2>1, <2>2 DEF RecordFailure, VisitOK
<1>6. ASSUME NEW v \in Visits, RecordSuccess(v) PROVE LoginTypeOK'
  <2>1. VisitOK'
    BY <1>0, <1>6, MovesOK DEF RecordSuccess
  <2>2. throttle' \in [count : Failures, last : Nat]
    BY <1>6 DEF RecordSuccess, Failures
  <2>3. QED  BY <1>6, <2>1, <2>2 DEF RecordSuccess, VisitOK
<1>7. ASSUME NEW v \in Visits, Create(v) PROVE LoginTypeOK'
  <2>1. VisitOK'
    BY <1>0, <1>7, LeavesOK DEF Create
  <2>2. QED  BY <1>0, <1>7, <2>1 DEF Create, VisitOK
<1>8. ASSUME NEW v \in Visits, CreateFails(v) PROVE LoginTypeOK'
  <2>1. VisitOK'
    BY <1>0, <1>8, LeavesOK DEF CreateFails
  <2>2. QED  BY <1>8, <2>1 DEF CreateFails, VisitOK, history
<1>9. ASSUME NEW v \in Visits, Revoke(v) PROVE LoginTypeOK'
  <2>1. VisitOK'
    BY <1>0, <1>9, LeavesOK DEF Revoke
  <2>2. visit[v].token \in Tokens
    BY <1>9 DEF Revoke
  <2>3. QED  BY <1>9, <2>1, <2>2 DEF Revoke, VisitOK
<1>10. ASSUME NEW v \in Visits, Authorize(v) PROVE LoginTypeOK'
  <2>1. creds' = creds /\ (Leaves(v) \/ Goes(v, [visit[v] EXCEPT !.at = "verify"]))
    BY <1>10 DEF Authorize
  <2>2. VisitOK'
    BY <1>0, <2>1, MovesOK, LeavesOK
  <2>3. QED  BY <1>10, <2>2 DEF Authorize, VisitOK, history
<1>11. ASSUME NEW v \in Visits, SetPassword(v) PROVE LoginTypeOK'
  <2> DEFINE s == [visit[v] EXCEPT !.at = "write", !.made = creds']
  <2>1. creds' \in Credentials /\ changes' \in 0 .. MaxChanges
    <3>1. visit[v].new \in Passwords
      BY DEF Requests
    <3>2. QED  BY <1>11, <3>1, LoginAssumption DEF SetPassword, Credentials
  <2>2. s \in Requests /\ s.at = "write" /\ s.made = creds'
    <3>1. visit[v] \in Requests
      OBVIOUS
    <3>2. QED  BY <2>1, <3>1 DEF Requests, Steps
  <2>3. visit' = [visit EXCEPT ![v] = s]
    BY <1>11 DEF SetPassword, Goes
  <2> HIDE DEF s
  <2>4. \A w \in Visits : visit[w].at # "write"
    BY <1>11 DEF SetPassword, Locked
  <2>5. VisitOK'
    BY <1>0, <2>2, <2>3, <2>4 DEF VisitOK
  <2>6. QED  BY <1>11, <2>1, <2>5 DEF SetPassword, VisitOK
<1>12. ASSUME NEW v \in Visits, SavePassword(v) PROVE LoginTypeOK'
  <2>1. VisitOK'
    BY <1>0, <1>12, LeavesOK DEF SavePassword
  <2>2. visit[v].made \in Credentials /\ visit[v].made.number \in 0 .. MaxChanges
    BY DEF Requests, Credentials
  <2>3. QED  BY <1>12, <2>1, <2>2 DEF SavePassword, VisitOK, Later
<1>13. ASSUME NEW v \in Visits, SaveFailed(v) PROVE LoginTypeOK'
  <2>1. VisitOK'
    BY <1>0, <1>13, LeavesOK DEF SaveFailed
  <2>2. QED  BY <1>13, <2>1 DEF SaveFailed, VisitOK, history
<1>14. ASSUME NEW v \in Visits, Refuse(v) PROVE LoginTypeOK'
  <2>1. VisitOK'
    BY <1>0, <1>14, LeavesOK DEF Refuse
  <2>2. QED  BY <1>14, <2>1 DEF Refuse, VisitOK, history
<1>15. CASE Restart
  BY <1>15, NoRequestType DEF Restart, Failures
<1>16. CASE Passes
  BY <1>16 DEF Passes, history
<1>17. CASE UNCHANGED loginVars
  BY <1>17 DEF loginVars, history
<1>18. QED
  BY <1>1, <1>2, <1>3, <1>4, <1>5, <1>6, <1>7, <1>8, <1>9, <1>10, <1>11, <1>12, <1>13,
     <1>14, <1>15, <1>16, <1>17
  DEF LoginNext

(* Every variable keeps to its type; what is being written to the credentials
   file is what is in force (store.go:89). *)
THEOREM LoginTypeCorrect == LoginSpec => []LoginTypeOK
BY LoginTypeInit, LoginTypeNext, PTL DEF LoginSpec

-----------------------------------------------------------------------------
(* Changes of the password. *)

\* Credentials are newer in memory than in the file, never the other way round.
ChangeInv ==
  reported <= stored.number /\ stored.number <= creds.number /\ creds.number <= changes

LEMMA ChangeInit == LoginInit => ChangeInv
BY DEF LoginInit, ChangeInv, FirstCredentials

LEMMA ChangeNext == LoginTypeOK /\ ChangeInv /\ [LoginNext]_loginVars => ChangeInv'
<1> SUFFICES ASSUME LoginTypeOK, ChangeInv, [LoginNext]_loginVars PROVE ChangeInv'
  OBVIOUS
<1>0. /\ reported \in Nat /\ stored.number \in Nat /\ creds.number \in Nat
      /\ changes \in Nat
  BY LoginAssumption DEF LoginTypeOK, Credentials
<1>1. ASSUME NEW v \in Visits, SetPassword(v) PROVE ChangeInv'
  <2>1. creds'.number = changes + 1 /\ changes' = changes + 1
        /\ stored' = stored /\ reported' = reported
    BY <1>1 DEF SetPassword
  <2>2. QED  BY <1>0, <2>1 DEF ChangeInv
<1>2. ASSUME NEW v \in Visits, SavePassword(v) PROVE ChangeInv'
  <2>1. visit[v].made = creds
    BY <1>2 DEF SavePassword, LoginTypeOK
  <2>2. stored' = creds /\ creds' = creds /\ changes' = changes
        /\ reported' = Later(reported, creds.number)
    BY <1>2, <2>1 DEF SavePassword
  <2>3. QED  BY <1>0, <2>2 DEF ChangeInv, Later
<1>3. CASE Restart
  BY <1>0, <1>3 DEF Restart, ChangeInv
<1>4. ASSUME NEW v \in Visits,
             \/ Come(v) \/ Delay(v) \/ Wake(v) \/ Verify(v) \/ RecordFailure(v)
             \/ RecordSuccess(v) \/ Create(v) \/ CreateFails(v) \/ Revoke(v)
             \/ Authorize(v) \/ SaveFailed(v) \/ Refuse(v)
      PROVE  ChangeInv'
  <2>1. UNCHANGED <<creds, stored, changes, reported>>
    BY <1>4 DEF Come, Delay, Wake, Verify, RecordFailure, RecordSuccess, Create,
                CreateFails, Revoke, Authorize, SaveFailed, Refuse, history
  <2>2. QED  BY <2>1 DEF ChangeInv
<1>5. CASE Passes \/ UNCHANGED loginVars
  BY <1>5 DEF Passes, loginVars, history, ChangeInv
<1>6. QED  BY <1>1, <1>2, <1>3, <1>4, <1>5 DEF LoginNext

(* A change of the password that was reported as saved is never undone by an
   older one, not by a write that is late and not by a restart (store.go:89). *)
THEOREM ChangesKept == LoginSpec => []ChangeKept
<1>1. LoginSpec => []ChangeInv
  BY ChangeInit, ChangeNext, LoginTypeCorrect, PTL DEF LoginSpec
<1>2. LoginTypeOK /\ ChangeInv => ChangeKept
  <2>1. LoginTypeOK => /\ reported \in Nat /\ stored.number \in Nat
                       /\ creds.number \in Nat
    BY LoginAssumption DEF LoginTypeOK, Credentials
  <2>2. QED  BY <2>1 DEF ChangeInv, ChangeKept
<1>3. QED  BY <1>1, <1>2, LoginTypeCorrect, PTL

-----------------------------------------------------------------------------
(* Sessions. *)

SessionInv ==
  \A t \in Tokens :
    /\ t \in ended => login[t] # Nothing
    /\ sessions[t] # Nothing => /\ login[t] # Nothing /\ t \notin ended
                                /\ sessions[t] = login[t] + SessionTTL

LEMMA SessionInit == LoginInit => SessionInv
BY DEF LoginInit, SessionInv

LEMMA SessionNext == LoginTypeOK /\ SessionInv /\ [LoginNext]_loginVars => SessionInv'
<1> SUFFICES ASSUME LoginTypeOK, SessionInv, [LoginNext]_loginVars PROVE SessionInv'
  OBVIOUS
<1>0. /\ sessions \in [Tokens -> Nat \union {Nothing}]
      /\ login \in [Tokens -> Nat \union {Nothing}]
      /\ clock \in Nat /\ SessionTTL \in Nat /\ Nothing \notin Nat
  BY LoginAssumption DEF LoginTypeOK
<1>1. ASSUME NEW v \in Visits, Create(v) PROVE SessionInv'
  <2>1. PICK t \in Tokens : /\ login[t] = Nothing
                            /\ sessions' = [sessions EXCEPT ![t] = clock + SessionTTL]
                            /\ login' = [login EXCEPT ![t] = clock]
    BY <1>1 DEF Create
  <2>2. ended' = ended
    BY <1>1 DEF Create
  <2>3. QED  BY <1>0, <2>1, <2>2 DEF SessionInv
<1>2. ASSUME NEW v \in Visits, Revoke(v) PROVE SessionInv'
  <2>1. /\ sessions' = [sessions EXCEPT ![visit[v].token] = Nothing]
        /\ ended' = ended \union {t \in {visit[v].token} : login[t] # Nothing}
        /\ login' = login
    BY <1>2 DEF Revoke
  <2>2. QED  BY <1>0, <2>1 DEF SessionInv
<1>3. ASSUME NEW v \in Visits, Authorize(v) PROVE SessionInv'
  <2>1. /\ sessions' = sessions \/ sessions' = [sessions EXCEPT ![visit[v].token] = Nothing]
        /\ ended' = ended /\ login' = login
    BY <1>3 DEF Authorize, history
  <2>2. QED  BY <1>0, <2>1 DEF SessionInv
<1>4. CASE Restart
  BY <1>4 DEF Restart, SessionInv
<1>5. ASSUME NEW v \in Visits,
             \/ Come(v) \/ Delay(v) \/ Wake(v) \/ Verify(v) \/ RecordFailure(v)
             \/ RecordSuccess(v) \/ CreateFails(v) \/ SetPassword(v)
             \/ SavePassword(v) \/ SaveFailed(v) \/ Refuse(v)
      PROVE  SessionInv'
  <2>1. UNCHANGED <<sessions, login, ended>>
    BY <1>5 DEF Come, Delay, Wake, Verify, RecordFailure, RecordSuccess, CreateFails,
                SetPassword, SavePassword, SaveFailed, Refuse, history
  <2>2. QED  BY <2>1 DEF SessionInv
<1>6. CASE Passes \/ UNCHANGED loginVars
  BY <1>6 DEF Passes, loginVars, history, SessionInv
<1>7. QED  BY <1>1, <1>2, <1>3, <1>4, <1>5, <1>6 DEF LoginNext

\* The step that lets a request in.
Admits ==
  \A v \in Visits :
    visit[v].at = "auth" /\ visit'[v].at = "verify" =>
      LET t == visit[v].token IN
      /\ login[t] # Nothing /\ t \notin ended
      /\ clock <= login[t] + SessionTTL

LEMMA SessionStep == LoginTypeOK /\ SessionInv /\ [LoginNext]_loginVars => Admits
<1> SUFFICES ASSUME LoginTypeOK, SessionInv, [LoginNext]_loginVars,
                    NEW v \in Visits, visit[v].at = "auth", visit'[v].at = "verify"
             PROVE  /\ login[visit[v].token] # Nothing /\ visit[v].token \notin ended
                    /\ clock <= login[visit[v].token] + SessionTTL
  BY DEF Admits
<1>0. visit[v].token \in Tokens /\ visit \in [Visits -> Requests]
      /\ NoRequest.at = "idle"
  BY NoRequestType DEF LoginTypeOK
<1>1. CASE Authorize(v)
  <2>1. CASE Valid(visit[v].token)
    BY <1>0, <2>1 DEF Valid, SessionInv
  <2>2. CASE ~Valid(visit[v].token)
    <3>1. visit'[v] = NoRequest
      BY <1>0, <1>1, <2>2 DEF Authorize, Leaves, Goes
    <3>2. QED  BY <1>0, <3>1
  <2>3. QED  BY <2>1, <2>2
<1>2. CASE ~Authorize(v) /\ ~Restart
  <2>1. visit'[v] = visit[v]
    <3>1. ASSUME NEW w \in Visits,
             \/ Come(w) \/ Delay(w) \/ Wake(w) \/ Verify(w) \/ RecordFailure(w)
             \/ RecordSuccess(w) \/ Create(w) \/ CreateFails(w) \/ Revoke(w)
             \/ SetPassword(w) \/ SavePassword(w) \/ SaveFailed(w) \/ Refuse(w)
          PROVE  visit'[v] = visit[v]
      <4>1. w # v
        BY <3>1 DEF Come, Delay, Wake, Verify, RecordFailure, RecordSuccess, Create,
                    CreateFails, Revoke, SetPassword, SavePassword, SaveFailed, Refuse
      <4>2. \E r : Goes(w, r)
        <5>1. CASE Come(w) \/ Delay(w) \/ Wake(w)
          BY <5>1 DEF Come, Delay, Wake
        <5>2. CASE Verify(w) \/ RecordFailure(w) \/ RecordSuccess(w)
          BY <5>2 DEF Verify, RecordFailure, RecordSuccess, Leaves
        <5>3. CASE Create(w) \/ CreateFails(w) \/ Revoke(w)
          BY <5>3 DEF Create, CreateFails, Revoke, Leaves
        <5>4. CASE SetPassword(w) \/ SavePassword(w) \/ SaveFailed(w) \/ Refuse(w)
          BY <5>4 DEF SetPassword, SavePassword, SaveFailed, Refuse, Leaves
        <5>5. QED  BY <3>1, <5>1, <5>2, <5>3, <5>4
      <4>3. QED  BY <1>0, <4>1, <4>2 DEF Goes
    <3>2. ASSUME NEW w \in Visits, w # v, Authorize(w) PROVE visit'[v] = visit[v]
      <4>1. \E r : Goes(w, r)
        BY <3>2 DEF Authorize, Leaves
      <4>2. QED  BY <1>0, <3>2, <4>1 DEF Goes
    <3>3. CASE Passes \/ UNCHANGED loginVars
      BY <3>3 DEF Passes, loginVars
    <3>4. QED  BY <1>2, <3>1, <3>2, <3>3 DEF LoginNext
  <2>2. QED  BY <2>1
<1>3. CASE Restart
  <2>1. visit'[v] = NoRequest
    BY <1>3 DEF Restart
  <2>2. QED  BY <1>0, <2>1
<1>4. QED  BY <1>1, <1>2, <1>3

(* No one is let in by a session that was logged out, has expired, or was
   opened before the process was last started (session.go:43). *)
THEOREM OnlyLoggedIn == LoginSpec => AdmittedWhileLoggedIn
<1>1. LoginSpec => []SessionInv
  BY SessionInit, SessionNext, LoginTypeCorrect, PTL DEF LoginSpec
<1>2. LoginTypeOK /\ SessionInv /\ [LoginNext]_loginVars => [Admits]_loginVars
  BY SessionStep
<1>3. LoginSpec => [][Admits]_loginVars
  BY <1>1, <1>2, LoginTypeCorrect, PTL DEF LoginSpec
<1>4. QED  BY <1>3 DEF AdmittedWhileLoggedIn, Admits

-----------------------------------------------------------------------------
(* The throttle. *)

\* Logins that were not delayed and may yet fail.
Undelayed ==
  {v \in Visits : /\ \/ visit[v].at = "failure"
                     \/ visit[v].at = "verify" /\ visit[v].page = "login"
                  /\ ~visit[v].delayed}

\* A login wakes up delayed, and only the account page is asked for a session.
Fits(r) == /\ r.at = "sleep" => r.delayed
           /\ r.at = "auth" => r.page = "account"

SlowInv ==
  /\ \A v \in Visits : Fits(visit[v])
  /\ throttle.count < 3 => slipped <= throttle.count
  /\ slipped + Cardinality(Undelayed) <= 2 + Cardinality(Visits)

LEMMA UndelayedFinite ==
  /\ IsFiniteSet(Undelayed) /\ Cardinality(Undelayed) \in Nat
  /\ Cardinality(Visits) \in Nat /\ Cardinality(Undelayed) <= Cardinality(Visits)
BY LoginAssumption, FS_Subset, FS_CardinalityType DEF Undelayed

LEMMA UndelayedLater ==
  /\ IsFiniteSet(Undelayed') /\ Cardinality(Undelayed') \in Nat
  /\ Cardinality(Undelayed') <= Cardinality(Visits)
<1>1. Undelayed' \subseteq Visits
  BY DEF Undelayed
<1>2. QED  BY <1>1, LoginAssumption, FS_Subset, FS_CardinalityType

\* No login joins them, and slipped does not grow.
LEMMA FewerUndelayed ==
  ASSUME LoginTypeOK, SlowInv, Undelayed' \subseteq Undelayed,
         slipped' = slipped \/ slipped' = 0
  PROVE  slipped' + Cardinality(Undelayed') <= 2 + Cardinality(Visits)
<1>1. Cardinality(Undelayed') <= Cardinality(Undelayed)
  BY UndelayedFinite, FS_Subset
<1>2. QED  BY <1>1, UndelayedFinite, UndelayedLater DEF SlowInv, LoginTypeOK

LEMMA SlowInit == LoginInit => SlowInv
<1> SUFFICES ASSUME LoginInit PROVE SlowInv
  OBVIOUS
<1>1. Undelayed = {}
  BY NoRequestType DEF LoginInit, Undelayed
<1>2. QED  BY <1>1, UndelayedFinite, FS_EmptySet, NoRequestType DEF LoginInit, SlowInv, Fits

\* A request that goes on as r is no new undelayed login.
LEMMA UndelayedGoes ==
  ASSUME LoginTypeOK, SlowInv, NEW v \in Visits, NEW r, Goes(v, r), Fits(r),
         r.at \in {"verify", "failure"} =>
           \/ v \in Undelayed
           \/ r.at = "verify" /\ r.page # "login"
           \/ r.delayed
  PROVE  Undelayed' \subseteq Undelayed /\ \A w \in Visits : Fits(visit'[w])
<1>1. Undelayed' \subseteq Undelayed
  BY DEF Goes, Undelayed, LoginTypeOK
<1>2. \A w \in Visits : Fits(visit'[w])
  BY DEF Goes, SlowInv, LoginTypeOK
<1>3. QED  BY <1>1, <1>2

\* And so for each of the other actions.
LEMMA UndelayedOthers ==
  ASSUME LoginTypeOK, SlowInv, NEW v \in Visits,
         \/ Come(v) \/ Wake(v) \/ Verify(v) \/ RecordFailure(v) \/ RecordSuccess(v)
         \/ Create(v) \/ CreateFails(v) \/ Revoke(v) \/ Authorize(v) \/ SetPassword(v)
         \/ SavePassword(v) \/ SaveFailed(v) \/ Refuse(v)
  PROVE  Undelayed' \subseteq Undelayed /\ \A w \in Visits : Fits(visit'[w])
<1>0. visit[v] \in Requests /\ Fits(visit[v]) /\ Fits(NoRequest) /\ NoRequest.at = "idle"
  BY NoRequestType DEF LoginTypeOK, SlowInv, Fits
<1>1. CASE Come(v)
  <2>1. CASE \E p \in Passwords : Goes(v, [NoRequest EXCEPT !.at = "delay", !.password = p])
    <3>1. PICK p \in Passwords : Goes(v, [NoRequest EXCEPT !.at = "delay", !.password = p])
      BY <2>1
    <3> DEFINE r == [NoRequest EXCEPT !.at = "delay", !.password = p]
    <3>2. r.at = "delay"
      BY DEF NoRequest
    <3>3. Goes(v, r)
      BY <3>1
    <3> HIDE DEF r
    <3>4. QED  BY <3>2, <3>3, UndelayedGoes DEF Fits
  <2>2. CASE \E p, n \in Passwords, t \in Tokens :
               Goes(v, [NoRequest EXCEPT !.at = "auth", !.page = "account",
                                         !.password = p, !.new = n, !.token = t])
    <3>1. PICK p \in Passwords, n \in Passwords, t \in Tokens :
               Goes(v, [NoRequest EXCEPT !.at = "auth", !.page = "account",
                                         !.password = p, !.new = n, !.token = t])
      BY <2>2
    <3> DEFINE r == [NoRequest EXCEPT !.at = "auth", !.page = "account",
                                      !.password = p, !.new = n, !.token = t]
    <3>2. r.at = "auth" /\ r.page = "account"
      BY DEF NoRequest
    <3>3. Goes(v, r)
      BY <3>1
    <3> HIDE DEF r
    <3>4. QED  BY <3>2, <3>3, UndelayedGoes DEF Fits
  <2>3. CASE \E t \in Tokens :
               Goes(v, [NoRequest EXCEPT !.at = "revoke", !.page = "logout", !.token = t])
    <3>1. PICK t \in Tokens :
               Goes(v, [NoRequest EXCEPT !.at = "revoke", !.page = "logout", !.token = t])
      BY <2>3
    <3> DEFINE r == [NoRequest EXCEPT !.at = "revoke", !.page = "logout", !.token = t]
    <3>2. r.at = "revoke"
      BY DEF NoRequest
    <3>3. Goes(v, r)
      BY <3>1
    <3> HIDE DEF r
    <3>4. QED  BY <3>2, <3>3, UndelayedGoes DEF Fits
  <2>4. QED  BY <1>1, <2>1, <2>2, <2>3 DEF Come
<1>2. CASE \E s \in {"verify", "success", "failure", "set", "create"} :
             /\ Goes(v, [visit[v] EXCEPT !.at = s])
             /\ s = "verify" => visit[v].delayed \/ visit[v].page = "account"
             /\ s = "failure" => visit[v].at = "verify" /\ visit[v].page = "login"
  <2>1. PICK s \in {"verify", "success", "failure", "set", "create"} :
             /\ Goes(v, [visit[v] EXCEPT !.at = s])
             /\ s = "verify" => visit[v].delayed \/ visit[v].page = "account"
             /\ s = "failure" => visit[v].at = "verify" /\ visit[v].page = "login"
    BY <1>2
  <2> DEFINE r == [visit[v] EXCEPT !.at = s]
  <2>2. Goes(v, r)
    BY <2>1
  <2>3. r.at = s /\ r.page = visit[v].page /\ r.delayed = visit[v].delayed
    BY <1>0 DEF Requests
  <2> HIDE DEF r
  <2>4. s = "failure" => v \in Undelayed \/ visit[v].delayed
    BY <2>1 DEF Undelayed
  <2>5. Fits(r)
    BY <2>1, <2>3 DEF Fits
  <2>6. QED  BY <2>1, <2>2, <2>3, <2>4, <2>5, UndelayedGoes
<1>3. CASE Leaves(v)
  BY <1>0, <1>3, UndelayedGoes DEF Leaves
<1>4. CASE SetPassword(v)
  <2> DEFINE r == [visit[v] EXCEPT !.at = "write", !.made = creds']
  <2>1. Goes(v, r)
    BY <1>4 DEF SetPassword
  <2>2. r.at = "write"
    BY <1>0 DEF Requests
  <2> HIDE DEF r
  <2>3. QED  BY <2>1, <2>2, UndelayedGoes DEF Fits
<1>5. CASE Wake(v)
  BY <1>0, <1>2, <1>5 DEF Wake, Fits
<1>6. CASE Verify(v)
  <2>1. CASE visit[v].page = "login"
    BY <1>2, <1>6, <2>1 DEF Verify
  <2>2. CASE visit[v].page # "login"
    BY <1>2, <1>3, <1>6, <2>2 DEF Verify
  <2>3. QED  BY <2>1, <2>2
<1>7. CASE Authorize(v)
  BY <1>0, <1>2, <1>3, <1>7 DEF Authorize, Fits
<1>8. CASE RecordSuccess(v)
  BY <1>2, <1>8 DEF RecordSuccess
<1>9. CASE \/ RecordFailure(v) \/ Create(v) \/ CreateFails(v) \/ Revoke(v)
           \/ SavePassword(v) \/ SaveFailed(v) \/ Refuse(v)
  BY <1>3, <1>9 DEF RecordFailure, Create, CreateFails, Revoke, SavePassword, SaveFailed, Refuse
<1>10. QED
  BY <1>1, <1>4, <1>5, <1>6, <1>7, <1>8, <1>9

LEMMA SlowNext == LoginTypeOK /\ SlowInv /\ [LoginNext]_loginVars => SlowInv'
<1> SUFFICES ASSUME LoginTypeOK, SlowInv, [LoginNext]_loginVars PROVE SlowInv'
  OBVIOUS
<1>0. /\ throttle \in [count : Failures, last : Nat] /\ slipped \in Nat
      /\ visit \in [Visits -> Requests] /\ NoRequest.at = "idle"
  BY NoRequestType DEF LoginTypeOK
<1>1. ASSUME NEW v \in Visits, Delay(v) PROVE SlowInv'
  <2> DEFINE n == Remembered(throttle.count)
  <2>1. /\ n = throttle.count \/ n = 0
        /\ throttle'.count = n /\ slipped' = IF n = 0 THEN 0 ELSE slipped
    BY <1>0, <1>1 DEF Delay, Remembered
  <2>2. visit[v] \in Requests
    BY <1>0
  <2> HIDE DEF n
  <2>3. throttle'.count < 3 => slipped' <= throttle'.count
    BY <1>0, <2>1 DEF SlowInv, Failures
  <2>4. CASE Slow(n)
    <3> DEFINE s == [visit[v] EXCEPT !.at = "sleep", !.delayed = TRUE]
    <3>1. s.at = "sleep" /\ s.delayed
      BY <2>2 DEF Requests
    <3>2. Goes(v, s)
      BY <1>1, <2>4 DEF Delay, n
    <3> HIDE DEF s
    <3>3. Undelayed' \subseteq Undelayed /\ \A w \in Visits : Fits(visit'[w])
      BY <3>1, <3>2, UndelayedGoes DEF Fits
    <3>4. QED  BY <2>1, <2>3, <3>3, FewerUndelayed DEF SlowInv
  <2>5. CASE ~Slow(n)
    <3>1. slipped' <= 2 /\ slipped' \in Nat
      BY <1>0, <2>1, <2>5 DEF Slow, SlowInv, Failures
    <3> DEFINE s == [visit[v] EXCEPT !.at = "verify", !.delayed = FALSE]
    <3>2. s.at = "verify"
      BY <2>2 DEF Requests
    <3>3. Goes(v, s)
      BY <1>1, <2>5 DEF Delay, n
    <3> HIDE DEF s
    <3>4. \A w \in Visits : Fits(visit'[w])
      BY <1>0, <3>2, <3>3 DEF Goes, Fits, SlowInv
    <3>5. QED  BY <2>3, <3>1, <3>4, UndelayedLater, UndelayedFinite DEF SlowInv
  <2>6. QED  BY <2>4, <2>5
<1>2. ASSUME NEW v \in Visits, RecordFailure(v) PROVE SlowInv'
  <2>1. /\ throttle'.count = AtMostThree(throttle.count + 1)
        /\ visit[v].at = "failure" /\ Goes(v, NoRequest)
        /\ slipped' = IF visit[v].delayed THEN slipped ELSE slipped + 1
    BY <1>2 DEF RecordFailure, Leaves
  <2>2. throttle'.count < 3 => slipped' <= throttle'.count
    BY <1>0, <2>1 DEF SlowInv, AtMostThree, Failures
  <2>3. Undelayed' \subseteq Undelayed /\ \A w \in Visits : Fits(visit'[w])
    BY <1>2, UndelayedOthers
  <2>4. CASE visit[v].delayed
    BY <2>1, <2>2, <2>3, <2>4, FewerUndelayed DEF SlowInv
  <2>5. CASE ~visit[v].delayed
    <3>0. visit[v].at = "failure"
      BY <2>1
    <3>1. v \in Undelayed
      BY <2>5, <3>0 DEF Undelayed
    <3>2. v \notin Undelayed'
      BY <1>0, <2>1 DEF Undelayed, Goes
    <3>3. /\ IsFiniteSet(Undelayed \ {v})
          /\ Cardinality(Undelayed \ {v}) = Cardinality(Undelayed) - 1
      BY <3>1, UndelayedFinite, FS_RemoveElement
    <3>4. Undelayed' \subseteq Undelayed \ {v}
      BY <2>3, <3>2
    <3>5. Cardinality(Undelayed') <= Cardinality(Undelayed) - 1
      BY <3>3, <3>4, FS_Subset
    <3>6. slipped' = slipped + 1
      BY <2>1, <2>5
    <3>7. QED  BY <1>0, <2>2, <2>3, <3>5, <3>6, UndelayedFinite, UndelayedLater DEF SlowInv
  <2>6. QED  BY <2>4, <2>5
<1>3. ASSUME NEW v \in Visits,
             \/ Come(v) \/ Wake(v) \/ Verify(v) \/ RecordSuccess(v) \/ Create(v)
             \/ CreateFails(v) \/ Revoke(v) \/ Authorize(v) \/ SetPassword(v)
             \/ SavePassword(v) \/ SaveFailed(v) \/ Refuse(v)
      PROVE  SlowInv'
  <2>1. \/ throttle' = throttle /\ slipped' = slipped
        \/ throttle'.count = 0 /\ slipped' = 0
    <3>1. CASE RecordSuccess(v)
      BY <1>0, <3>1 DEF RecordSuccess
    <3>2. CASE Come(v) \/ Wake(v) \/ Verify(v) \/ CreateFails(v) \/ SaveFailed(v) \/ Refuse(v)
      BY <3>2 DEF Come, Wake, Verify, CreateFails, SaveFailed, Refuse, history
    <3>3. CASE Create(v) \/ Revoke(v) \/ Authorize(v) \/ SetPassword(v) \/ SavePassword(v)
      BY <3>3 DEF Create, Revoke, Authorize, SetPassword, SavePassword, history
    <3>4. QED  BY <1>3, <3>1, <3>2, <3>3
  <2>2. Undelayed' \subseteq Undelayed /\ \A w \in Visits : Fits(visit'[w])
    BY <1>3, UndelayedOthers
  <2>3. QED  BY <1>0, <2>1, <2>2, FewerUndelayed DEF SlowInv
<1>4. CASE Restart
  <2>1. /\ throttle'.count = 0 /\ slipped' = 0 /\ Undelayed' = {}
        /\ \A w \in Visits : Fits(visit'[w])
    BY <1>0, <1>4 DEF Restart, Undelayed, Fits
  <2>2. QED  BY <1>0, <2>1, FewerUndelayed DEF SlowInv
<1>5. CASE Passes \/ UNCHANGED loginVars
  <2>1. throttle' = throttle /\ slipped' = slipped /\ visit' = visit
    BY <1>5 DEF Passes, loginVars, history
  <2>2. Undelayed' = Undelayed
    BY <2>1 DEF Undelayed
  <2>3. QED  BY <2>1, <2>2 DEF SlowInv
<1>6. QED  BY <1>1, <1>2, <1>3, <1>4, <1>5 DEF LoginNext

(* However many logins are tried at the same time, no more than three and one
   for each other request get by the delay (session.go:84). *)
THEOREM SlowedDown == LoginSpec => []SlowedAfterThree
<1>1. LoginSpec => []SlowInv
  BY SlowInit, SlowNext, LoginTypeCorrect, PTL DEF LoginSpec
<1>2. LoginTypeOK /\ SlowInv => SlowedAfterThree
  BY UndelayedFinite DEF LoginTypeOK, SlowInv, SlowedAfterThree
<1>3. QED  BY <1>1, <1>2, LoginTypeCorrect, PTL

=============================================================================
