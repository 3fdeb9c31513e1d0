--------------------------- MODULE AccountsProofs ---------------------------
(***************************************************************************)
(* Proofs about Sessions and Access: LiveSessionsAreCurrent for any        *)
(* accounts, processes, sessions and days, and ActsAreEntitled for any     *)
(* routes that ask for what they do, any requests, tokens and instants;    *)
(* and about Vault: KeysStayWithinReach for any processes and any keys.    *)
(***************************************************************************)
EXTENDS Sessions, Access, Vault, FiniteSetTheorems, TLAPS

(* What an operation under way says of itself.                             *)
Doing == {NoOp} \cup [kind : {"login"}, account : Accounts, under : Nat]
                \cup [kind : {"disable"}, account : Accounts]

(* A session that nobody ended was opened under the password its account   *)
(* has now, and if the account is disabled somebody is about to end it, or *)
(* would have been.  Whether it has run out, or whether accounts are used  *)
(* at all, does not matter: that is what makes it inductive.               *)
Unrevoked(s) == session[s].revoked = Never /\ ~session[s].late
Current(s) == LET c == credential[session[s].owner]
              IN session[s].under = c.version /\ (c.disabled => BeingDisabled(session[s].owner))

SessionsInv ==
    /\ credential \in [Accounts -> [version : Nat, disabled : BOOLEAN]]
    /\ authOp \in [AuthProcesses -> Doing]
    /\ today \in Nat
    /\ \A s \in DOMAIN session : session[s].owner \in Accounts
    /\ \A s \in DOMAIN session : Unrevoked(s) => Current(s)

(* Ending the sessions of an account leaves none of them unrevoked and the *)
(* others as they were.                                                    *)
LEMMA EndedSessions ==
    ASSUME SessionsInv, NEW a \in Accounts, session' = EndedFor(a)
    PROVE  /\ DOMAIN session' = DOMAIN session
           /\ \A s \in DOMAIN session : session'[s].owner = session[s].owner
           /\ \A s \in DOMAIN session : Unrevoked(s)' =>
                 session[s].owner # a /\ session'[s] = session[s]
  BY DEF EndedFor, SessionsInv, Unrevoked, Never

(* A new password ends the sessions in the same transaction.               *)
LEMMA SettingKeepsInv ==
    ASSUME SessionsInv, NEW a \in Accounts, SetPassword(a)
    PROVE  SessionsInv'
<1>1. /\ credential' \in [Accounts -> [version : Nat, disabled : BOOLEAN]]
      /\ \A b \in Accounts \ {a} : credential'[b] = credential[b]
  BY DEF SetPassword, SessionsInv
<1>2. session' = EndedFor(a) /\ UNCHANGED <<authOp, today, unfinished>>
  BY DEF SetPassword
<1>3. \A s \in DOMAIN session' : Unrevoked(s)' => Current(s)'
  BY <1>1, <1>2, EndedSessions DEF SessionsInv, Unrevoked, Current, BeingDisabled
<1> QED BY <1>1, <1>2, <1>3, EndedSessions DEF SessionsInv

(* Enabling an account opens no session.                                   *)
LEMMA EnablingKeepsInv ==
    ASSUME SessionsInv, NEW a \in Accounts, Enable(a)
    PROVE  SessionsInv'
  BY DEF SessionsInv, Enable, Unrevoked, Current, BeingDisabled

(* A login remembers the password it checked.                              *)
LEMMA LoggingInKeepsInv ==
    ASSUME SessionsInv, NEW p \in AuthProcesses, NEW a \in Accounts, BeginLogin(p, a)
    PROVE  SessionsInv'
<1>1. authOp' \in [AuthProcesses -> Doing]
  BY DEF SessionsInv, BeginLogin, Doing
<1>2. \A b \in Accounts : BeingDisabled(b) => BeingDisabled(b)'
  BY DEF SessionsInv, BeginLogin, BeingDisabled, NoOp
<1> QED BY <1>1, <1>2 DEF SessionsInv, BeginLogin, Unrevoked, Current

(* A session is opened as late, or under the password in force.            *)
LEMMA OpeningKeepsInv ==
    ASSUME SessionsInv, NEW p \in AuthProcesses, NEW s \in SessionIds, OpenSession(p, s)
    PROVE  SessionsInv'
<1>1. authOp[p].account \in Accounts /\ authOp[p].kind = "login"
  BY DEF SessionsInv, OpenSession, Doing, NoOp
<1>2. authOp' \in [AuthProcesses -> Doing]
  BY DEF SessionsInv, OpenSession, Doing
<1>3. \A b \in Accounts : BeingDisabled(b) => BeingDisabled(b)'
  BY <1>1 DEF SessionsInv, OpenSession, BeingDisabled
<1>4. /\ DOMAIN session' = DOMAIN session \cup {s}
      /\ \A t \in DOMAIN session \ {s} : session'[t] = session[t]
      /\ session'[s].owner = authOp[p].account
      /\ session'[s].under = authOp[p].under
      /\ session'[s].late <=> credential[authOp[p].account] # [version |-> authOp[p].under, disabled |-> FALSE]
  BY DEF OpenSession
<1>5. Unrevoked(s)' => Current(s)'
  BY <1>1, <1>4 DEF OpenSession, SessionsInv, Unrevoked, Current
<1>6. \A t \in DOMAIN session \ {s} : Unrevoked(t)' => Current(t)'
  BY <1>3, <1>4 DEF OpenSession, SessionsInv, Unrevoked, Current
<1> QED BY <1>1, <1>2, <1>4, <1>5, <1>6 DEF OpenSession, SessionsInv

(* Logging out only ends a session.                                        *)
LEMMA LoggingOutKeepsInv ==
    ASSUME SessionsInv, NEW s \in SessionIds, Logout(s)
    PROVE  SessionsInv'
  BY DEF SessionsInv, Logout, Unrevoked, Current, BeingDisabled, Never

(* From the flag to the end of the sessions the account is being disabled. *)
LEMMA DisablingKeepsInv ==
    ASSUME SessionsInv, NEW p \in AuthProcesses, NEW a \in Accounts, BeginDisable(p, a)
    PROVE  SessionsInv'
<1>1. authOp' \in [AuthProcesses -> Doing]
  BY DEF SessionsInv, BeginDisable, Doing
<1>2. \A b \in Accounts : b = a \/ BeingDisabled(b) => BeingDisabled(b)'
  BY DEF SessionsInv, BeginDisable, BeingDisabled, NoOp
<1>3. /\ credential' \in [Accounts -> [version : Nat, disabled : BOOLEAN]]
      /\ \A b \in Accounts : credential'[b].version = credential[b].version
      /\ \A b \in Accounts \ {a} : credential'[b] = credential[b]
  BY DEF SessionsInv, BeginDisable
<1>4. \A s \in DOMAIN session : Unrevoked(s)' => Current(s)'
  BY <1>2, <1>3 DEF SessionsInv, BeginDisable, Unrevoked, Current
<1> QED BY <1>1, <1>3, <1>4 DEF SessionsInv, BeginDisable

(* A disabling that comes to its end has ended every session.              *)
LEMMA FinishingKeepsInv ==
    ASSUME SessionsInv, NEW p \in AuthProcesses, FinishDisable(p)
    PROVE  SessionsInv'
<1> DEFINE a == authOp[p].account
<1>1. a \in Accounts
  BY DEF SessionsInv, FinishDisable, Doing, NoOp
<1>2. authOp' \in [AuthProcesses -> Doing]
  BY DEF SessionsInv, FinishDisable, Doing
<1>3. \A b \in Accounts \ {a} : BeingDisabled(b) => BeingDisabled(b)'
  BY DEF SessionsInv, FinishDisable, BeingDisabled
<1>4. session' = EndedFor(a) /\ UNCHANGED <<credential, today>>
  BY DEF FinishDisable
<1>5. \A s \in DOMAIN session' : Unrevoked(s)' => Current(s)'
  BY <1>1, <1>3, <1>4, EndedSessions DEF SessionsInv, Unrevoked, Current
<1> QED BY <1>1, <1>2, <1>4, <1>5, EndedSessions DEF SessionsInv

(* A disabling whose process dies stays unfinished.                        *)
LEMMA DyingKeepsInv ==
    ASSUME SessionsInv, NEW p \in AuthProcesses, AuthDies(p)
    PROVE  SessionsInv'
<1>1. authOp' \in [AuthProcesses -> Doing]
  BY DEF SessionsInv, AuthDies, Doing
<1>2. \A b \in Accounts : BeingDisabled(b) => BeingDisabled(b)'
  BY DEF SessionsInv, AuthDies, BeingDisabled
<1> QED BY <1>1, <1>2 DEF SessionsInv, AuthDies, Unrevoked, Current

(* Pruning removes only sessions.                                          *)
LEMMA PruningKeepsInv ==
    ASSUME SessionsInv, Prune
    PROVE  SessionsInv'
  BY DEF SessionsInv, Prune, Unrevoked, Current, BeingDisabled

(* The invariant holds in every reachable state.                           *)
LEMMA SessionsInvariant == SessionsSpec => []SessionsInv
<1>1. SessionsInit => SessionsInv
  BY DEF SessionsInit, SessionsInv, NoAccount, Doing
<1>2. SessionsInv /\ [SessionsNext]_sessionVars => SessionsInv'
  <2> SUFFICES ASSUME SessionsInv, [SessionsNext]_sessionVars PROVE SessionsInv'
    OBVIOUS
  <2>1. CASE \E a \in Accounts : SetPassword(a) \/ Enable(a)
    BY <2>1, SettingKeepsInv, EnablingKeepsInv
  <2>2. CASE \E p \in AuthProcesses : FinishDisable(p) \/ AuthDies(p)
    BY <2>2, FinishingKeepsInv, DyingKeepsInv
  <2>3. CASE \E p \in AuthProcesses, a \in Accounts : BeginLogin(p, a) \/ BeginDisable(p, a)
    BY <2>3, LoggingInKeepsInv, DisablingKeepsInv
  <2>4. CASE \E p \in AuthProcesses, s \in SessionIds : OpenSession(p, s)
    BY <2>4, OpeningKeepsInv
  <2>5. CASE \E s \in SessionIds : Logout(s)
    BY <2>5, LoggingOutKeepsInv
  <2>6. CASE Prune
    BY <2>6, PruningKeepsInv
  <2>7. CASE NextDay
    BY <2>7 DEF NextDay, SessionsInv, Unrevoked, Current, BeingDisabled
  <2>8. CASE UNCHANGED sessionVars
    BY <2>8 DEF sessionVars, SessionsInv, Unrevoked, Current, BeingDisabled
  <2> QED BY <2>1, <2>2, <2>3, <2>4, <2>5, <2>6, <2>7, <2>8 DEF SessionsNext
<1> QED BY <1>1, <1>2, PTL DEF SessionsSpec

(* A session that still authenticates was opened under the password its    *)
(* account has now, whatever logins, new passwords, disablings, deaths and *)
(* days went by, in whatever order their statements fell.                  *)
THEOREM SessionsEndWithTheirPassword == SessionsSpec => []LiveSessionsAreCurrent
<1>1. SessionsInv => LiveSessionsAreCurrent
  BY DEF SessionsInv, LiveSessionsAreCurrent, Authenticates, Unrevoked, Current
<1> QED BY <1>1, SessionsInvariant, PTL
-----------------------------------------------------------------------------

(* What was done, or waits to be done, for a credential that was let       *)
(* through at an instant.  Tokens are only ever revoked, at the instant it *)
(* is, and accounts only made, so what was true of a request when it came  *)
(* stays true of it.                                                       *)
Entitled(by, effect, came) ==
    /\ (/\ by.kind = "token"
        /\ WorkedAt(by.id, came) /\ WorkedAt(by.id, came + 1)) =>
           Permits(token[by.id].scope, effect)
    /\ (account # Unset /\ account < came) =>
           \/ by.kind = "session"
           \/ by.kind = "token" /\ WorkedAt(by.id, came)

Came(by, effect, public, came) ==
    /\ came \in Nat /\ came <= instant
    /\ by.kind = "token" => by.id \in Tokens
    /\ public \/ Entitled(by, effect, came)

AccessInv ==
    /\ instant \in Nat /\ account \in {Unset} \cup Nat
    /\ DOMAIN request = Requests
    /\ \E n \in Nat : Tokens = 1..n
    /\ \A t \in Tokens : /\ token[t].scope \in Levels
                         /\ DOMAIN token[t] = {"name", "scope", "expires_at", "revoked_at"}
                         /\ token[t].expires_at \in {Unset} \cup Nat
                         /\ token[t].revoked_at \in {Unset} \cup (0..instant)
    /\ \A q \in Requests : request[q] # Nothing =>
          /\ request[q].route \in Routes
          /\ Came(request[q].by, request[q].route.effect, IsPublic(request[q].route), request[q].came)
    /\ act # Nothing => Came(act.by, act.effect, act.public, act.came)

(* How a step may change the tokens and the account.                       *)
Evolves ==
    /\ instant' \in Nat /\ instant <= instant'
    /\ account' = account \/ account' = instant
    /\ \E n \in Nat : Tokens' = 1..n
    /\ \A t \in Tokens :
          /\ t \in Tokens'
          /\ token'[t].scope = token[t].scope
          /\ token'[t].expires_at = token[t].expires_at
          /\ \/ token'[t].revoked_at = token[t].revoked_at
             \/ token[t].revoked_at = Unset /\ token'[t].revoked_at = instant
    /\ \A t \in Tokens' : /\ token'[t].scope \in Levels
                          /\ DOMAIN token'[t] = {"name", "scope", "expires_at", "revoked_at"}
                          /\ token'[t].expires_at \in {Unset} \cup Nat
                          /\ token'[t].revoked_at \in {Unset} \cup (0..instant')

(* What a request was entitled to it stays entitled to.                    *)
LEMMA EntitlementLasts ==
  ASSUME AccessInv, Evolves, NEW by, NEW effect, NEW public, NEW came,
         Came(by, effect, public, came)
  PROVE  Came(by, effect, public, came)'
<1>1. /\ came \in Nat /\ came <= instant /\ instant <= instant' /\ instant \in Nat /\ instant' \in Nat
      /\ Tokens \subseteq Tokens'
      /\ account' = account \/ account' = instant
      /\ by.kind = "token" => by.id \in Tokens
  BY DEF AccessInv, Evolves, Came
<1>2. by.kind = "token" =>
        /\ WorkedAt(by.id, came) => WorkedAt(by.id, came)'
        /\ WorkedAt(by.id, came)' /\ WorkedAt(by.id, came + 1)'
              => WorkedAt(by.id, came) /\ WorkedAt(by.id, came + 1)
        /\ token'[by.id].scope = token[by.id].scope
  <2> SUFFICES ASSUME NEW t \in Tokens
               PROVE  /\ WorkedAt(t, came) => WorkedAt(t, came)'
                      /\ WorkedAt(t, came)' /\ WorkedAt(t, came + 1)'
                            => WorkedAt(t, came) /\ WorkedAt(t, came + 1)
                      /\ token'[t].scope = token[t].scope
    BY <1>1
  <2>1. /\ token'[t].scope = token[t].scope
        /\ token'[t].expires_at = token[t].expires_at
        /\ \/ token'[t].revoked_at = token[t].revoked_at
           \/ token[t].revoked_at = Unset /\ token'[t].revoked_at = instant
    BY DEF Evolves
  <2> QED BY <1>1, <2>1 DEF WorkedAt, Unset
<1>3. ASSUME Entitled(by, effect, came) PROVE Entitled(by, effect, came)'
  <2>1. account' # Unset /\ account' < came => account # Unset /\ account < came
    BY <1>1 DEF AccessInv, Unset
  <2>2. ASSUME by.kind = "token", WorkedAt(by.id, came)', WorkedAt(by.id, came + 1)'
        PROVE  Permits(token'[by.id].scope, effect)
    BY <1>2, <1>3, <2>2 DEF Entitled
  <2>3. ASSUME account' # Unset, account' < came
        PROVE  by.kind = "session" \/ (by.kind = "token" /\ WorkedAt(by.id, came)')
    BY <1>2, <1>3, <2>1, <2>3 DEF Entitled
  <2> QED BY <2>2, <2>3 DEF Entitled, Permits, Rank
<1> QED BY <1>1, <1>3 DEF Came

(* Scopes are ranked, so what a scope permits a higher one permits.        *)
LEMMA RanksCompare ==
  ASSUME NEW has \in Levels, NEW asked \in Levels, NEW effect \in Levels,
         Permits(has, asked), Permits(asked, effect)
  PROVE  Permits(has, effect)
<1>1. \A scope \in Levels : Rank(scope) \in 1..3
  BY DEF Rank, Scopes, Levels
<1> QED BY <1>1 DEF Permits

(* A request that is let through is entitled to what its route does.       *)
LEMMA AdmittedIsEntitled ==
  ASSUME AccessInv, NEW by, NEW route \in Routes, by.kind = "token" => by.id \in Tokens,
         Admitted(by, route)
  PROVE  Came(by, route.effect, IsPublic(route), instant)
<1>1. instant \in Nat /\ account \in {Unset} \cup Nat
  BY DEF AccessInv
<1>2. ASSUME ~IsPublic(route) PROVE Entitled(by, route.effect, instant)
  <2>1. ASSUME by.kind = "token", WorkedAt(by.id, instant), WorkedAt(by.id, instant + 1)
        PROVE  Permits(token[by.id].scope, route.effect)
    <3>1. token[by.id].revoked_at \in {Unset} \cup (0..instant) /\ token[by.id].scope \in Levels
      BY <2>1 DEF AccessInv
    <3>2. Verified(by)
      BY <1>1, <2>1, <3>1 DEF WorkedAt, Verified, Unset
    <3>3. Permits(token[by.id].scope, ScopeFor(route))
      BY <1>2, <3>2 DEF Admitted
    <3>4. ScopeFor(route) \in Levels /\ route.effect \in Levels /\ Permits(ScopeFor(route), route.effect)
      BY <1>2, RoutesAssumption DEF ScopeFor, Levels
    <3> QED BY <3>1, <3>3, <3>4, RanksCompare
  <2>2. ASSUME account # Unset
        PROVE  by.kind = "session" \/ (by.kind = "token" /\ WorkedAt(by.id, instant))
    <3>1. Verified(by) \/ Authenticated(by)
      BY <1>2, <2>2 DEF Admitted, AuthIsOn
    <3> QED BY <3>1 DEF Verified, Authenticated, WorkedAt
  <2> QED BY <2>1, <2>2 DEF Entitled
<1> QED BY <1>1, <1>2 DEF Came

(* What a handler does to the tokens.                                      *)
LEMMA IssuingEvolves ==
  ASSUME AccessInv, NEW name, NEW scope \in Levels, NEW expires \in BOOLEAN,
         Issue(name, scope, expires), UNCHANGED <<instant, account>>
  PROVE  Evolves
<1>1. PICK n \in Nat : Tokens = 1..n
  BY DEF AccessInv
<1>2. Cardinality(Tokens) = n
  BY <1>1, FS_Interval
<1> DEFINE fresh == [name |-> name, scope |-> scope, revoked_at |-> Unset,
                   expires_at |-> IF expires THEN instant + Lifetime ELSE Unset]
<1>3. token' = [u \in Tokens \cup {n + 1} |-> IF u = n + 1 THEN fresh ELSE token[u]]
  BY <1>2 DEF Issue
<1>4. /\ fresh.scope = scope /\ fresh.revoked_at = Unset /\ fresh.expires_at \in {Unset} \cup Nat
      /\ DOMAIN fresh = {"name", "scope", "expires_at", "revoked_at"}
  BY AccessAssumption DEF AccessInv
<1> HIDE DEF fresh
<1>5. /\ Tokens' = 1..(n + 1) /\ token'[n + 1] = fresh
      /\ \A t \in Tokens : t # n + 1 /\ t \in Tokens' /\ token'[t] = token[t]
  BY <1>1, <1>3 DEF Tokens
<1>6. instant \in Nat /\ instant' = instant /\ account' = account
  BY DEF AccessInv
<1>7. \A t \in Tokens' : t \in Tokens \/ t = n + 1
  BY <1>1, <1>5
<1> QED BY <1>1, <1>4, <1>5, <1>6, <1>7 DEF Evolves, AccessInv

(* A step that issues and revokes nothing.                                 *)
LEMMA NothingNewEvolves ==
  ASSUME AccessInv, UNCHANGED token, account' = account \/ account' = instant,
         instant' \in Nat, instant <= instant'
  PROVE  Evolves
<1>1. Tokens' = Tokens /\ token' = token /\ instant \in Nat
  BY DEF Tokens, AccessInv
<1>2. PICK n \in Nat : Tokens = 1..n
  BY DEF AccessInv
<1>3. \A t \in Tokens : token[t].revoked_at \in {Unset} \cup (0..instant')
  BY <1>1 DEF AccessInv
<1> QED BY <1>1, <1>2, <1>3 DEF Evolves, AccessInv

(* A revoked token stops at this instant.                                  *)
LEMMA RevokingEvolves ==
  ASSUME AccessInv, NEW t, Revoke(t), UNCHANGED <<instant, account>>
  PROVE  Evolves
<1>1. instant \in Nat /\ instant' = instant /\ account' = account
  BY DEF AccessInv
<1>2. CASE token' = token
  BY <1>1, <1>2, NothingNewEvolves
<1>3. CASE token[t].revoked_at = Unset /\ token' = [token EXCEPT ![t].revoked_at = instant]
  <2>1. Tokens' = Tokens
    BY <1>3 DEF Tokens
  <2>2. ASSUME NEW u \in Tokens
        PROVE  /\ token'[u].scope = token[u].scope
               /\ token'[u].expires_at = token[u].expires_at
               /\ DOMAIN token'[u] = DOMAIN token[u]
               /\ token'[u].revoked_at = IF u = t THEN instant ELSE token[u].revoked_at
    <3>1. DOMAIN token[u] = {"name", "scope", "expires_at", "revoked_at"}
      BY DEF AccessInv
    <3>2. token'[u] = IF u = t THEN [token[u] EXCEPT !.revoked_at = instant] ELSE token[u]
      BY <1>3 DEF Tokens
    <3> QED BY <3>1, <3>2
  <2> QED BY <1>1, <1>3, <2>1, <2>2 DEF Evolves, AccessInv
<1> QED BY <1>2, <1>3 DEF Revoke

(* A request that is handled may revoke or issue, within its scope.        *)
LEMMA HandlingEvolves ==
  ASSUME AccessInv, NEW by, NEW route, NEW came, Handle(by, route, came),
         UNCHANGED <<instant, account>>
  PROVE  Evolves /\ act' = Done(by, route, came)
<1>1. \/ \E name \in TokenNames, scope \in Levels, expires \in BOOLEAN : Issue(name, scope, expires)
      \/ \E t \in Tokens : Revoke(t)
      \/ UNCHANGED token
  BY DEF Handle
<1>2. Evolves
  BY <1>1, IssuingEvolves, RevokingEvolves, NothingNewEvolves DEF AccessInv
<1> QED BY <1>2 DEF Handle

(* After any step, what was done and what waits is entitled as before,     *)
(* whatever else the step did.                                             *)
LEMMA EvolvingKeeps ==
  ASSUME AccessInv, Evolves, DOMAIN request' = Requests,
         \A q \in Requests : request'[q] # Nothing =>
            \/ request'[q] = request[q]
            \/ \E by : \E route \in Routes :
                  /\ request'[q].by = by /\ request'[q].route = route /\ request'[q].came = instant
                  /\ Came(by, route.effect, IsPublic(route), instant),
         \/ act' = act
         \/ \E by, came : \E route \in Routes :
               act' = Done(by, route, came) /\ Came(by, route.effect, IsPublic(route), came)
  PROVE  AccessInv'
<1>1. /\ instant' \in Nat /\ account' \in {Unset} \cup Nat
      /\ \E n \in Nat : Tokens' = 1..n
      /\ \A t \in Tokens' : /\ token'[t].scope \in Levels
                            /\ DOMAIN token'[t] = {"name", "scope", "expires_at", "revoked_at"}
                            /\ token'[t].expires_at \in {Unset} \cup Nat
                            /\ token'[t].revoked_at \in {Unset} \cup (0..instant')
  BY DEF Evolves, AccessInv
<1>2. ASSUME NEW q \in Requests, request'[q] # Nothing
      PROVE  /\ request'[q].route \in Routes
             /\ Came(request[q].by, request[q].route.effect, IsPublic(request[q].route),
                     request[q].came)'
  <2>1. CASE request'[q] = request[q]
    <3>1. PICK r : r = request[q]
      OBVIOUS
    <3>2. r.route \in Routes /\ Came(r.by, r.route.effect, IsPublic(r.route), r.came)
      BY <1>2, <2>1, <3>1 DEF AccessInv
    <3>3. Came(r.by, r.route.effect, IsPublic(r.route), r.came)'
      BY <3>2, EntitlementLasts
    <3> QED BY <2>1, <3>1, <3>2, <3>3 DEF Came, IsPublic, Entitled
  <2>2. CASE \E by : \E route \in Routes :
                /\ request'[q].by = by /\ request'[q].route = route /\ request'[q].came = instant
                /\ Came(by, route.effect, IsPublic(route), instant)
    <3>1. PICK by, came : \E route \in Routes :
             /\ request'[q].by = by /\ request'[q].route = route /\ request'[q].came = came
             /\ Came(by, route.effect, IsPublic(route), came)
      BY <2>2
    <3>2. PICK route \in Routes :
             /\ request'[q].by = by /\ request'[q].route = route /\ request'[q].came = came
             /\ Came(by, route.effect, IsPublic(route), came)
      BY <3>1
    <3>3. Came(by, route.effect, IsPublic(route), came)'
      BY <3>2, EntitlementLasts
    <3> QED BY <3>2, <3>3 DEF Came, IsPublic, Entitled
  <2> QED BY <1>2, <2>1, <2>2
<1>3. ASSUME act' # Nothing
      PROVE  Came(act.by, act.effect, act.public, act.came)'
  <2>1. CASE act' = act
    <3>1. PICK a : a = act
      OBVIOUS
    <3>2. Came(a.by, a.effect, a.public, a.came)
      BY <1>3, <2>1, <3>1 DEF AccessInv
    <3>3. Came(a.by, a.effect, a.public, a.came)'
      BY <3>2, EntitlementLasts
    <3> QED BY <2>1, <3>1, <3>3 DEF Came, Entitled
  <2>2. CASE \E by, came : \E route \in Routes :
                act' = Done(by, route, came) /\ Came(by, route.effect, IsPublic(route), came)
    <3>1. PICK by, came : \E route \in Routes :
             act' = Done(by, route, came) /\ Came(by, route.effect, IsPublic(route), came)
      BY <2>2
    <3>2. PICK route \in Routes :
             act' = Done(by, route, came) /\ Came(by, route.effect, IsPublic(route), came)
      BY <3>1
    <3>3. Came(by, route.effect, IsPublic(route), came)'
      BY <3>2, EntitlementLasts
    <3>4. /\ act'.by = by /\ act'.effect = route.effect /\ act'.public = IsPublic(route)
          /\ act'.came = came
      BY <3>2 DEF Done
    <3> QED BY <3>3, <3>4 DEF Came, Entitled
  <2> QED BY <2>1, <2>2
<1> QED BY <1>1, <1>2, <1>3 DEF AccessInv

(* Every step keeps acts within what was granted.                          *)
LEMMA AccessSteps == AccessInv /\ [AccessNext]_accessVars => AccessInv'
<1> SUFFICES ASSUME AccessInv, [AccessNext]_accessVars PROVE AccessInv'
  OBVIOUS
<1>1. instant \in Nat /\ DOMAIN request = Requests /\ instant <= instant
  BY DEF AccessInv
<1>2. ASSUME NEW q \in Requests, NEW by \in Credentials, NEW route \in Routes, Admit(q, by, route)
      PROVE  AccessInv'
  <2>1. Came(by, route.effect, IsPublic(route), instant)
    BY <1>2, AdmittedIsEntitled DEF Admit
  <2>2. CASE HasBody(route)
    <3>1. /\ request' = [request EXCEPT ![q] = [kind |-> "waiting", by |-> by,
                                                route |-> route, came |-> instant]]
          /\ UNCHANGED <<token, account, instant, act>>
      BY <1>2, <2>2 DEF Admit
    <3>2. Evolves
      BY <1>1, <3>1, NothingNewEvolves
    <3>3. /\ DOMAIN request' = Requests
          /\ \A r \in Requests \ {q} : request'[r] = request[r]
          /\ request'[q].by = by /\ request'[q].route = route /\ request'[q].came = instant
      BY <1>1, <3>1
    <3> QED BY <2>1, <3>1, <3>2, <3>3, EvolvingKeeps
  <2>3. CASE ~HasBody(route)
    <3>1. /\ Handle(by, route, instant) /\ UNCHANGED <<request, account, instant>>
      BY <1>2, <2>3 DEF Admit
    <3>2. Evolves /\ act' = Done(by, route, instant)
      BY <3>1, HandlingEvolves
    <3> QED BY <1>1, <2>1, <3>1, <3>2, EvolvingKeeps
  <2> QED BY <2>2, <2>3
<1>3. ASSUME NEW q \in Requests, BodyArrives(q) PROVE AccessInv'
  <2>1. PICK r : r = request[q]
    OBVIOUS
  <2>2. /\ r # Nothing /\ Handle(r.by, r.route, r.came) /\ UNCHANGED <<account, instant>>
        /\ request' = [request EXCEPT ![q] = Nothing]
    BY <1>3, <2>1 DEF BodyArrives
  <2>3. r.route \in Routes /\ Came(r.by, r.route.effect, IsPublic(r.route), r.came)
    BY <2>1, <2>2 DEF AccessInv
  <2>4. Evolves /\ act' = Done(r.by, r.route, r.came)
    BY <2>2, HandlingEvolves
  <2>5. /\ DOMAIN request' = Requests
        /\ \A p \in Requests : request'[p] # Nothing => request'[p] = request[p]
    BY <1>1, <2>2
  <2> QED BY <2>3, <2>4, <2>5, EvolvingKeeps
<1>4. ASSUME NEW q \in Requests, BodyFails(q) PROVE AccessInv'
  <2>1. /\ UNCHANGED <<token, account, instant, act>>
        /\ request' = [request EXCEPT ![q] = Nothing]
    BY <1>4 DEF BodyFails
  <2>2. Evolves
    BY <1>1, <2>1, NothingNewEvolves
  <2>3. /\ DOMAIN request' = Requests
        /\ \A p \in Requests : request'[p] # Nothing => request'[p] = request[p]
    BY <1>1, <2>1
  <2> QED BY <2>1, <2>2, <2>3, EvolvingKeeps
<1>5. ASSUME NEW name \in TokenNames,
             \/ RevokeHere(name)
             \/ \E scope \in Levels, expires \in BOOLEAN : IssueHere(name, scope, expires)
      PROVE  AccessInv'
  <2>1. UNCHANGED <<account, request, instant, act>>
    BY <1>5 DEF RevokeHere, IssueHere
  <2>2. Evolves
    BY <1>5, <2>1, RevokingEvolves, IssuingEvolves DEF RevokeHere, IssueHere
  <2> QED BY <1>1, <2>1, <2>2, EvolvingKeeps
<1>6. CASE MakeAccount \/ Pass \/ UNCHANGED accessVars
  <2>1. /\ UNCHANGED <<token, request, act>> /\ instant' \in Nat /\ instant <= instant'
        /\ account' = account \/ account' = instant
    BY <1>1, <1>6 DEF MakeAccount, Pass, accessVars
  <2>2. Evolves
    BY <2>1, NothingNewEvolves
  <2> QED BY <1>1, <2>1, <2>2, EvolvingKeeps
<1> QED BY <1>2, <1>3, <1>4, <1>5, <1>6 DEF AccessNext

(* Whatever came in between while a body was awaited, what a handler did   *)
(* is within the scope of the token shown, and once there is an account it *)
(* was done for a session or for a token that worked.                      *)
THEOREM NobodyExceedsTheirScope == AccessSpec => []ActsAreEntitled
<1>1. AccessInit => AccessInv
  <2> SUFFICES ASSUME AccessInit PROVE AccessInv
    OBVIOUS
  <2>1. Tokens = 1..0
    BY DEF AccessInit, Tokens
  <2>2. \A q \in Requests : request[q] = Nothing
    BY DEF AccessInit
  <2> QED BY <2>1, <2>2 DEF AccessInit, AccessInv
<1>2. AccessInv => ActsAreEntitled
  BY DEF AccessInv, ActsAreEntitled, Came, Entitled
<1> QED BY <1>1, <1>2, AccessSteps, PTL DEF AccessSpec

(***************************************************************************)
(* Vault: what was sealed can be opened.                                   *)
(***************************************************************************)
(* What an operation under way knew when it began still holds as long as   *)
(* nobody wrote over its head: that is what the checks of setApiKey,       *)
(* lockKeys, unlockKeysPermanently and changePassphrase are worth.         *)
Undistorted(p) ==
    /\ op[p].kind = "making" => vault = NoSecret /\ Stored = {}
    /\ op[p].kind = "set" => op[p].under \in DataKeys \cup {SecretInForce}
    /\ op[p].kind = "lock" => Stored \subseteq op[p].keys
    /\ op[p].kind = "remove" => Stored \subseteq op[p].keys
    /\ op[p].kind = "reseal" => op[p].under = SecretInForce
    /\ op[p].kind = "rewrap" => vault = op[p].opened

(* Before the file there is nothing at all.                                *)
Untouched ==
    /\ vault = NoSecret /\ Stored = {}
    /\ \A p \in KeyProcesses : held[p] = NoSecret /\ op[p] = Idle

VaultInv ==
    /\ VaultTypeOK
    /\ \A p \in KeyProcesses : op[p] # Idle => p \in up
    /\ secretFile = "absent" => Untouched
    /\ \A p \in KeyProcesses : p \notin overtaken => Undistorted(p)

(* The secrets that can be in force are told apart.                        *)
LEMMA SecretsDiffer ==
    /\ NoSecret \notin Secrets /\ FileSecret \in Secrets /\ FileSecret \notin DataKeys
    /\ WrittenSecret # EmptySecret
    /\ \A s \in DataKeys : s.id # 0 /\ s # NoSecret
    /\ \A n \in 1..MaxVaults : Secret(n) \in DataKeys
BY MaxVaultsAssumption DEF Secrets, NoSecret, FileSecret, DataKeys, WrittenSecret, EmptySecret, Secret

(* An operation under way is of one kind.                                  *)
LEMMA KindsDiffer ==
    \A o \in Operations :
        /\ o = Idle <=> o.kind = "idle"
        /\ o.kind \in {"idle", "making", "set", "lock", "remove", "reseal", "rewrap"}
        /\ o.kind = "set" => o \in [kind : {"set"}, provider : KeyProviders, under : Secrets]
        /\ o.kind = "lock" => o \in [kind : {"lock"}, keys : SUBSET KeyProviders]
        /\ o.kind = "remove" => o \in [kind : {"remove"}, keys : SUBSET KeyProviders, opened : DataKeys]
        /\ o.kind = "reseal" => o \in [kind : {"reseal"}, keys : SUBSET KeyProviders, under : Secrets,
                                       then : DataKeys \cup {NoSecret}]
        /\ o.kind = "rewrap" => o \in [kind : {"rewrap"}, opened : DataKeys]
<1> SUFFICES ASSUME NEW o \in Operations
             PROVE  /\ o = Idle <=> o.kind = "idle"
                    /\ o.kind \in {"idle", "making", "set", "lock", "remove", "reseal", "rewrap"}
                    /\ o.kind = "set" => o \in [kind : {"set"}, provider : KeyProviders, under : Secrets]
                    /\ o.kind = "lock" => o \in [kind : {"lock"}, keys : SUBSET KeyProviders]
                    /\ o.kind = "remove" => o \in [kind : {"remove"}, keys : SUBSET KeyProviders, opened : DataKeys]
                    /\ o.kind = "reseal" => o \in [kind : {"reseal"}, keys : SUBSET KeyProviders, under : Secrets,
                                                   then : DataKeys \cup {NoSecret}]
                    /\ o.kind = "rewrap" => o \in [kind : {"rewrap"}, opened : DataKeys]
  OBVIOUS
<1>1. CASE o = Idle BY <1>1 DEF Idle
<1>2. CASE o = [kind |-> "making"] BY <1>2 DEF Idle
<1>3. CASE o \in [kind : {"set"}, provider : KeyProviders, under : Secrets] BY <1>3 DEF Idle
<1>4. CASE o \in [kind : {"lock"}, keys : SUBSET KeyProviders] BY <1>4 DEF Idle
<1>5. CASE o \in [kind : {"remove"}, keys : SUBSET KeyProviders, opened : DataKeys] BY <1>5 DEF Idle
<1>6. CASE o \in [kind : {"reseal"}, keys : SUBSET KeyProviders, under : Secrets, then : DataKeys \cup {NoSecret}]
  BY <1>6 DEF Idle
<1>7. CASE o \in [kind : {"rewrap"}, opened : DataKeys] BY <1>7 DEF Idle
<1> QED BY <1>1, <1>2, <1>3, <1>4, <1>5, <1>6, <1>7 DEF Operations

(* Another's step that writes nothing, or writes over its head, is no      *)
(* matter for what an operation knew.                                      *)
LEMMA OthersGoOn ==
  ASSUME VaultInv, NEW p \in KeyProcesses, NEW next \in Operations, Goes(p, next),
         Wrote(p) \/ (Quietly /\ UNCHANGED <<row, vault, secretFile>>)
  PROVE  /\ op' \in [KeyProcesses -> Operations] /\ op'[p] = next
         /\ \A q \in KeyProcesses \ {p} : op'[q] = op[q]
         /\ overtaken' \subseteq {q \in KeyProcesses : op'[q] # Idle}
         /\ \A q \in KeyProcesses \ {p} : q \notin overtaken' => Undistorted(q)'
         /\ p \notin overtaken' => p \notin overtaken \/ next = Idle
<1>1. /\ op \in [KeyProcesses -> Operations] /\ overtaken \subseteq {q \in KeyProcesses : op[q] # Idle}
      /\ op' = [op EXCEPT ![p] = next]
  BY DEF VaultInv, VaultTypeOK, Goes
<1>2. /\ op' \in [KeyProcesses -> Operations] /\ op'[p] = next
      /\ \A q \in KeyProcesses \ {p} : op'[q] = op[q]
  BY <1>1
<1>3. /\ overtaken' \subseteq {q \in KeyProcesses : op'[q] # Idle}
      /\ p \notin overtaken' => p \notin overtaken \/ next = Idle
  BY <1>1, <1>2 DEF Wrote, Quietly
<1>4. ASSUME NEW q \in KeyProcesses \ {p}, q \notin overtaken' PROVE Undistorted(q)'
  <2>1. op'[q] = op[q]
    BY <1>2
  <2>2. CASE op[q] = Idle
    BY <2>1, <2>2 DEF Undistorted, Idle
  <2>3. CASE op[q] # Idle
    <3>1. q \notin overtaken /\ UNCHANGED <<row, vault, secretFile>>
      BY <1>4, <2>1, <2>3 DEF Wrote, Quietly
    <3>2. Undistorted(q) /\ Stored' = Stored /\ SecretInForce' = SecretInForce
      BY <3>1 DEF VaultInv, Stored, SecretInForce, FileSecret
    <3> QED BY <2>1, <3>1, <3>2 DEF Undistorted
  <2> QED BY <2>2, <2>3
<1> QED BY <1>2, <1>3, <1>4

(* Until the file is made nobody does anything with keys.                  *)
LEMMA NothingBeforeTheFile ==
  ASSUME VaultInv, NEW p \in KeyProcesses, VaultStep(p), secretFile = "absent"
  PROVE  Open(p) \/ Die(p) \/ MakeSecret(p)
<1>1. vault = NoSecret /\ Stored = {} /\ held[p] = NoSecret /\ op[p].kind = "idle"
  BY DEF VaultInv, Untouched, Idle
<1> QED BY <1>1 DEF VaultStep, FillSecret, BeginSet, FinishSet, RemoveApiKey, BeginLock, CreateVault,
               Reseal, Resealed, BeginRemove, Destroy, GivesUp, UnlockKeys, RelockKeys, BeginRewrap,
               FinishRewrap, SecretAtHand

(* An operation begins, goes on or ends: what is left to show is that the  *)
(* tables are well formed and that it knows what it should.                *)
LEMMA GoingOn ==
  ASSUME VaultInv, NEW p \in KeyProcesses, NEW next \in Operations, Goes(p, next),
         Wrote(p) \/ (Quietly /\ UNCHANGED <<row, vault, secretFile>>),
         p \in up, up' = up, secretFile' \in {"empty", "written"},
         row' \in [KeyProviders -> Secrets \cup {NoSecret}],
         vault' \in DataKeys \cup {NoSecret}, vaultsMade' \in 0..MaxVaults,
         held' \in [KeyProcesses -> DataKeys \cup {NoSecret}],
         p \notin overtaken => Undistorted(p)'
  PROVE  VaultInv'
<1>1. /\ op' \in [KeyProcesses -> Operations] /\ op'[p] = next
      /\ \A q \in KeyProcesses \ {p} : op'[q] = op[q]
      /\ overtaken' \subseteq {q \in KeyProcesses : op'[q] # Idle}
      /\ \A q \in KeyProcesses \ {p} : q \notin overtaken' => Undistorted(q)'
      /\ p \notin overtaken' => p \notin overtaken \/ next = Idle
  BY OthersGoOn
<1>2. next = Idle => Undistorted(p)'
  BY <1>1 DEF Undistorted, Idle
<1>3. \A q \in KeyProcesses : q \notin overtaken' => Undistorted(q)'
  BY <1>1, <1>2
<1>4. VaultTypeOK'
  BY <1>1 DEF VaultInv, VaultTypeOK
<1>5. \A q \in KeyProcesses : op'[q] # Idle => q \in up'
  BY <1>1 DEF VaultInv
<1> QED BY <1>3, <1>4, <1>5 DEF VaultInv

(* The processes' own secrets change and nothing else.                     *)
LEMMA OnlyHeldChanges ==
  ASSUME VaultInv, UNCHANGED <<row, vault, vaultsMade, secretFile, op, up, overtaken>>,
         held' \in [KeyProcesses -> DataKeys \cup {NoSecret}],
         secretFile # "absent"
  PROVE  VaultInv'
<1>1. \A q \in KeyProcesses : Undistorted(q) <=> Undistorted(q)'
  BY DEF Undistorted, Stored, SecretInForce, FileSecret
<1> QED BY <1>1 DEF VaultInv, VaultTypeOK

(* Nothing is written and no resealing stops: safe keys stay safe.         *)
LEMMA SafeStaysSafe ==
  ASSUME row' = row, SecretInForce' = SecretInForce, up \subseteq up',
         \A q \in KeyProcesses : op[q].kind = "reseal" => op'[q] = op[q],
         up \subseteq KeyProcesses
  PROVE  StayWithinReach
BY DEF StayWithinReach, Safe

(* No keys, no vault and no secret.                                        *)
LEMMA VaultBegins == VaultInit => VaultInv
<1> SUFFICES ASSUME VaultInit PROVE VaultInv
  OBVIOUS
<1>1. VaultTypeOK
  BY MaxVaultsAssumption DEF VaultInit, VaultTypeOK, Operations
<1>2. \A p \in KeyProcesses : Undistorted(p)
  BY DEF VaultInit, Undistorted, Idle
<1> QED BY <1>1, <1>2 DEF VaultInv, VaultInit, Untouched, Stored

(* Beginning an operation writes over nobody's head.                       *)
LEMMA BeginningIsQuiet ==
  ASSUME VaultInv, NEW p \in KeyProcesses, NEW next \in Operations, Goes(p, next),
         op[p] = Idle, overtaken' = overtaken
  PROVE  Quietly
<1>1. /\ op \in [KeyProcesses -> Operations] /\ overtaken \subseteq {q \in KeyProcesses : op[q] # Idle}
      /\ op' = [op EXCEPT ![p] = next]
  BY DEF VaultInv, VaultTypeOK, Goes
<1> QED BY <1>1 DEF Quietly

(* A process opens or dies: what it held is lost, what is stored stands.   *)
LEMMA OpeningAndDying ==
  ASSUME VaultInv, NEW p \in KeyProcesses, Open(p) \/ Die(p)
  PROVE  VaultInv' /\ StayWithinReach
<1>1. CASE Open(p)
  <2>1. /\ p \notin up /\ up' = up \cup {p} /\ held' = [held EXCEPT ![p] = NoSecret]
        /\ UNCHANGED <<row, vault, vaultsMade, secretFile, op, overtaken>>
    BY <1>1 DEF Open
  <2>2. /\ \A q \in KeyProcesses : Undistorted(q) <=> Undistorted(q)'
        /\ SecretInForce' = SecretInForce /\ Stored' = Stored
    BY <2>1 DEF Undistorted, Stored, SecretInForce, FileSecret
  <2>3. VaultTypeOK'
    BY <2>1 DEF VaultInv, VaultTypeOK
  <2>4. \A q \in KeyProcesses : op'[q] # Idle => q \in up'
    BY <2>1 DEF VaultInv
  <2>5. secretFile' = "absent" => Untouched'
    BY <2>1, <2>2, <2>3 DEF VaultInv, VaultTypeOK, Untouched
  <2>6. up \subseteq KeyProcesses
    BY DEF VaultInv, VaultTypeOK
  <2> QED BY <2>1, <2>2, <2>3, <2>4, <2>5, <2>6, SafeStaysSafe DEF VaultInv
<1>2. CASE Die(p)
  <2>1. /\ p \in up /\ up' = up \ {p} /\ held' = [held EXCEPT ![p] = NoSecret]
        /\ UNCHANGED <<row, vault, vaultsMade, secretFile>> /\ Goes(p, Idle) /\ Quietly
    BY <1>2 DEF Die
  <2>2. Idle \in Operations
    BY DEF Operations
  <2>3. /\ op' \in [KeyProcesses -> Operations] /\ op'[p] = Idle
        /\ \A q \in KeyProcesses \ {p} : op'[q] = op[q]
        /\ overtaken' \subseteq {q \in KeyProcesses : op'[q] # Idle}
        /\ \A q \in KeyProcesses \ {p} : q \notin overtaken' => Undistorted(q)'
    BY <2>1, <2>2, OthersGoOn
  <2>4. Undistorted(p)'
    BY <2>3 DEF Undistorted, Idle
  <2>5. VaultTypeOK'
    BY <2>1, <2>3 DEF VaultInv, VaultTypeOK
  <2>6. \A q \in KeyProcesses : op'[q] # Idle => q \in up'
    BY <2>1, <2>3 DEF VaultInv
  <2>7. secretFile' = "absent" => Untouched'
    BY <2>1, <2>3 DEF VaultInv, VaultTypeOK, Untouched, Stored
  <2>8. StayWithinReach
    <3>1. CASE op[p] = Idle
      <4>1. op' = op /\ SecretInForce' = SecretInForce /\ row' = row
        BY <2>1, <3>1 DEF Goes, VaultInv, VaultTypeOK, SecretInForce, FileSecret
      <4>2. \A q : op[q].kind = "reseal" /\ q \in up => q \in up'
        BY <2>1, <3>1 DEF Idle
      <4> QED BY <4>1, <4>2 DEF StayWithinReach, Safe
    <3>2. CASE op[p] # Idle
      <4>1. p \notin up' /\ op'[p] # op[p] /\ row' = row /\ SecretInForce' = SecretInForce
        BY <2>1, <2>3, <3>2 DEF SecretInForce, FileSecret
      <4>2. ASSUME NEW k \in KeyProviders, Safe(k), ~DiesMidway(p, k) PROVE Safe(k)'
        <5>1. CASE row[k] = SecretInForce
          BY <4>1, <5>1 DEF Safe
        <5>2. CASE \E q \in up : op[q].kind = "reseal" /\ k \in op[q].keys
          <6>1. PICK q \in up : op[q].kind = "reseal" /\ k \in op[q].keys
            BY <5>2
          <6>2. q # p /\ q \in up' /\ q \in KeyProcesses
            BY <2>1, <4>1, <4>2, <6>1 DEF DiesMidway, VaultInv, VaultTypeOK
          <6> QED BY <2>3, <6>1, <6>2 DEF Safe
        <5> QED BY <4>2, <5>1, <5>2 DEF Safe
      <4> QED BY <4>1, <4>2 DEF StayWithinReach
    <3> QED BY <3>1, <3>2
  <2> QED BY <2>3, <2>4, <2>5, <2>6, <2>7, <2>8 DEF VaultInv
<1> QED BY <1>1, <1>2

(* The file of the secret is made, then filled.                            *)
LEMMA MakingTheFile ==
  ASSUME VaultInv, NEW p \in KeyProcesses, MakeSecret(p) \/ FillSecret(p)
  PROVE  VaultInv' /\ StayWithinReach
<1>0. /\ VaultTypeOK
      /\ op[p] # Idle => p \in up
  BY DEF VaultInv
<1>1. CASE MakeSecret(p)
  <2> DEFINE next == [kind |-> "making"]
  <2>1. /\ p \in up /\ op[p] = Idle /\ secretFile = "absent" /\ secretFile' = "empty"
        /\ Goes(p, next) /\ Wrote(p) /\ UNCHANGED <<row, vault, vaultsMade, held, up>>
    BY <1>1 DEF MakeSecret, Free
  <2>2. next \in Operations
    BY DEF Operations
  <2>3. vault = NoSecret /\ Stored = {} /\ \A q \in KeyProcesses : op[q] = Idle
    BY <2>1 DEF VaultInv, Untouched
  <2>4. op'[p] = next
    BY <1>0, <2>1 DEF VaultTypeOK, Goes
  <2>5. Undistorted(p)'
    BY <2>1, <2>3, <2>4 DEF Undistorted, Stored
  <2>6. VaultInv'
    BY <1>0, <2>1, <2>2, <2>5, GoingOn DEF VaultTypeOK
  <2>7. StayWithinReach
    BY <2>1, <2>3 DEF StayWithinReach, Stored
  <2> QED BY <2>6, <2>7
<1>2. CASE FillSecret(p)
  <2>1. /\ op[p].kind = "making" /\ secretFile' = "written"
        /\ Goes(p, Idle) /\ Wrote(p) /\ UNCHANGED <<row, vault, vaultsMade, held, up>>
    BY <1>2 DEF FillSecret
  <2>2. Idle \in Operations /\ op[p] # Idle
    BY <2>1 DEF Operations, Idle
  <2>3. op'[p] = Idle
    BY <1>0, <2>1 DEF VaultTypeOK, Goes
  <2>4. Undistorted(p)'
    BY <2>3 DEF Undistorted, Idle
  <2>5. VaultInv'
    BY <1>0, <2>1, <2>2, <2>4, GoingOn DEF VaultTypeOK
  <2>6. StayWithinReach
    <3>1. CASE p \in overtaken
      BY <2>2, <2>3, <3>1 DEF StayWithinReach
    <3>2. CASE p \notin overtaken
      <4>1. Stored = {}
        BY <2>1, <3>2 DEF VaultInv, Undistorted
      <4> QED BY <2>1, <4>1 DEF StayWithinReach, Stored
    <3> QED BY <3>1, <3>2
  <2> QED BY <2>5, <2>6
<1> QED BY <1>1, <1>2

(* A key is stored under the secret that was in force, or removed.         *)
LEMMA StoringKeys ==
  ASSUME VaultInv, NEW p \in KeyProcesses, secretFile # "absent",
         \/ \E k \in KeyProviders : BeginSet(p, k) \/ RemoveApiKey(p, k)
         \/ FinishSet(p)
  PROVE  VaultInv' /\ StayWithinReach
<1>0. /\ VaultTypeOK /\ secretFile \in {"empty", "written"} /\ up \subseteq KeyProcesses
      /\ op[p] # Idle => p \in up
  BY DEF VaultInv, VaultTypeOK
<1>1. ASSUME NEW k \in KeyProviders, BeginSet(p, k) PROVE VaultInv' /\ StayWithinReach
  <2> DEFINE next == [kind |-> "set", provider |-> k, under |-> SecretOf(p)]
  <2>1. /\ p \in up /\ op[p] = Idle /\ Unlocked(p) /\ Goes(p, next)
        /\ UNCHANGED <<row, vault, vaultsMade, secretFile, held, up, overtaken>>
    BY <1>1 DEF BeginSet, Free
  <2>2. held[p] \in DataKeys \cup {NoSecret} /\ vault \in DataKeys \cup {NoSecret}
    BY <1>0 DEF VaultTypeOK
  <2>3. SecretOf(p) \in DataKeys \cup {SecretInForce}
    <3>1. CASE held[p] = NoSecret
      <4>1. vault = NoSecret
        BY <2>1, <2>2, <3>1, SecretsDiffer DEF Unlocked, NoSecret, Secret
      <4> QED BY <3>1, <4>1 DEF SecretOf, SecretInForce
    <3>2. CASE held[p] # NoSecret
      BY <2>2, <3>2 DEF SecretOf
    <3> QED BY <3>1, <3>2
  <2>4. SecretOf(p) \in Secrets
    BY <2>2, SecretsDiffer DEF SecretOf, Secrets
  <2>5. next \in Operations
    BY <2>4 DEF Operations
  <2>6. Quietly /\ op'[p] = next
    BY <1>0, <2>1, <2>5, BeginningIsQuiet DEF VaultTypeOK, Goes
  <2>7. SecretInForce' = SecretInForce
    BY <2>1 DEF SecretInForce, FileSecret
  <2>8. Undistorted(p)'
    BY <2>3, <2>6, <2>7 DEF Undistorted
  <2>9. VaultInv'
    BY <1>0, <2>1, <2>5, <2>6, <2>8, GoingOn DEF VaultTypeOK
  <2>10. StayWithinReach
    <3>1. \A q \in KeyProcesses : op[q].kind = "reseal" => op'[q] = op[q]
      BY <1>0, <2>1 DEF VaultTypeOK, Goes, Idle
    <3> QED BY <1>0, <2>1, <2>7, <3>1, SafeStaysSafe
  <2> QED BY <2>9, <2>10
<1>2. ASSUME NEW k \in KeyProviders, RemoveApiKey(p, k) PROVE VaultInv' /\ StayWithinReach
  <2>1. /\ p \in up /\ op[p] = Idle /\ row' = [row EXCEPT ![k] = NoSecret]
        /\ Wrote(p) /\ UNCHANGED <<vault, vaultsMade, secretFile, held, up, op>>
    BY <1>2 DEF RemoveApiKey, Free
  <2>2. Goes(p, Idle) /\ Idle \in Operations
    BY <1>0, <2>1 DEF VaultTypeOK, Goes, Operations
  <2>3. Undistorted(p)'
    BY <2>1 DEF Undistorted, Idle
  <2>4. row' \in [KeyProviders -> Secrets \cup {NoSecret}]
    BY <1>0, <2>1 DEF VaultTypeOK
  <2>5. VaultInv'
    BY <1>0, <2>1, <2>2, <2>3, <2>4, GoingOn DEF VaultTypeOK
  <2>6. /\ \A l \in KeyProviders : row'[l] = row[l] \/ row'[l] = NoSecret
        /\ SecretInForce' = SecretInForce
    BY <1>0, <2>1 DEF VaultTypeOK, SecretInForce, FileSecret
  <2> QED BY <2>1, <2>5, <2>6 DEF StayWithinReach, Safe
<1>3. CASE FinishSet(p)
  <2>0. PICK k, under : k = op[p].provider /\ under = op[p].under
    OBVIOUS
  <2>1. /\ op[p].kind = "set" /\ row' = [row EXCEPT ![k] = under] /\ Goes(p, Idle)
        /\ Wrote(p) /\ UNCHANGED <<vault, vaultsMade, secretFile, held, up>>
    BY <1>3, <2>0 DEF FinishSet
  <2>2. op[p] \in Operations
    BY <1>0 DEF VaultTypeOK
  <2>3. op[p] # Idle /\ k \in KeyProviders /\ under \in Secrets /\ Idle \in Operations
    BY <2>0, <2>1, <2>2, KindsDiffer DEF Operations
  <2>4. row' \in [KeyProviders -> Secrets \cup {NoSecret}] /\ op'[p] = Idle
        /\ row'[k] = under /\ \A l \in KeyProviders \ {k} : row'[l] = row[l]
    BY <1>0, <2>1, <2>3 DEF VaultTypeOK, Goes
  <2>5. Undistorted(p)'
    BY <2>4 DEF Undistorted, Idle
  <2>6. VaultInv'
    BY <1>0, <2>1, <2>3, <2>4, <2>5, GoingOn DEF VaultTypeOK
  <2>7. StayWithinReach
    <3>1. CASE p \in overtaken \/ Leftover(p)
      BY <2>3, <2>4, <3>1 DEF StayWithinReach
    <3>2. CASE p \notin overtaken /\ ~Leftover(p)
      <4>1. under = SecretInForce
        BY <2>0, <2>1, <3>2 DEF VaultInv, Undistorted, Leftover
      <4>2. SecretInForce' = SecretInForce
        BY <2>1 DEF SecretInForce, FileSecret
      <4>3. Safe(k)'
        BY <2>4, <4>1, <4>2 DEF Safe
      <4>4. \A q \in up : op[q].kind = "reseal" => op'[q] = op[q]
        BY <1>0, <2>1 DEF VaultTypeOK, Goes
      <4>5. ASSUME NEW l \in KeyProviders \ {k}, Safe(l) PROVE Safe(l)'
        BY <2>1, <2>4, <4>2, <4>4, <4>5 DEF Safe
      <4> QED BY <2>4, <4>3, <4>5 DEF StayWithinReach
    <3> QED BY <3>1, <3>2
  <2> QED BY <2>6, <2>7
<1> QED BY <1>1, <1>2, <1>3

(* lockKeys, unlockKeysPermanently and changePassphrase begin by reading   *)
(* everything they will act on.                                            *)
LEMMA ReadingKeys ==
  ASSUME VaultInv, NEW p \in KeyProcesses, secretFile # "absent",
         BeginLock(p) \/ BeginRemove(p) \/ BeginRewrap(p)
  PROVE  VaultInv' /\ StayWithinReach
<1>0. /\ VaultTypeOK /\ secretFile \in {"empty", "written"} /\ up \subseteq KeyProcesses
  BY DEF VaultInv, VaultTypeOK
<1>1. /\ p \in up /\ op[p] = Idle
      /\ UNCHANGED <<row, vault, vaultsMade, secretFile, held, up, overtaken>>
  BY DEF BeginLock, BeginRemove, BeginRewrap, Free
<1>2. /\ Stored \subseteq KeyProviders
      /\ Stored' = Stored /\ SecretInForce' = SecretInForce
      /\ vault # NoSecret => vault \in DataKeys
  BY <1>0, <1>1 DEF Stored, VaultTypeOK, Secrets, SecretInForce, FileSecret
<1>3. PICK next \in Operations :
         /\ Goes(p, next)
         /\ \/ next.kind = "lock" /\ Stored \subseteq next.keys
            \/ next.kind = "remove" /\ Stored \subseteq next.keys
            \/ next.kind = "rewrap" /\ vault = next.opened
  <2>1. CASE BeginLock(p)
    <3>1. [kind |-> "lock", keys |-> Stored] \in Operations
      BY <1>2 DEF Operations
    <3> QED BY <2>1, <3>1 DEF BeginLock
  <2>2. CASE BeginRemove(p)
    <3>1. [kind |-> "remove", keys |-> Stored, opened |-> vault] \in Operations
      BY <1>2, <2>2 DEF Operations, BeginRemove
    <3> QED BY <2>2, <3>1 DEF BeginRemove
  <2>3. CASE BeginRewrap(p)
    <3>1. [kind |-> "rewrap", opened |-> vault] \in Operations
      BY <1>2, <2>3 DEF Operations, BeginRewrap
    <3> QED BY <2>3, <3>1 DEF BeginRewrap
  <2> QED BY <2>1, <2>2, <2>3
<1>4. Quietly /\ op'[p] = next
  BY <1>0, <1>1, <1>3, BeginningIsQuiet DEF VaultTypeOK, Goes
<1>5. Undistorted(p)'
  BY <1>1, <1>2, <1>3, <1>4 DEF Undistorted
<1>6. VaultInv'
  BY <1>0, <1>1, <1>3, <1>4, <1>5, GoingOn DEF VaultTypeOK
<1>7. \A q \in KeyProcesses : op[q].kind = "reseal" => op'[q] = op[q]
  BY <1>0, <1>1, <1>3 DEF VaultTypeOK, Goes, Idle
<1> QED BY <1>0, <1>1, <1>2, <1>6, <1>7, SafeStaysSafe

(* The vault is made, or destroyed, by a process that has read the keys:   *)
(* each of them is still to be sealed again by it.                         *)
LEMMA TurningTheVault ==
  ASSUME VaultInv, NEW p \in KeyProcesses, secretFile # "absent", CreateVault(p) \/ Destroy(p)
  PROVE  VaultInv' /\ StayWithinReach
<1>0. /\ VaultTypeOK /\ secretFile \in {"empty", "written"} /\ up \subseteq KeyProcesses
      /\ op[p] \in Operations /\ (op[p] # Idle => p \in up)
  BY DEF VaultInv, VaultTypeOK
<1>1. /\ op[p].kind \in {"lock", "remove"} /\ UNCHANGED <<row, secretFile, up>> /\ Wrote(p)
      /\ held' = held \/ held' = [held EXCEPT ![p] = NoSecret]
  BY DEF CreateVault, Destroy
<1>2. PICK keys : keys = op[p].keys
  OBVIOUS
<1>3. /\ op[p] # Idle /\ p \in up /\ keys \subseteq KeyProviders
      /\ p \notin overtaken => Stored \subseteq keys
  <2>1. op[p] # Idle /\ keys \subseteq KeyProviders
    BY <1>0, <1>1, <1>2, KindsDiffer DEF Idle
  <2> QED BY <1>0, <1>1, <1>2, <2>1 DEF VaultInv, Undistorted
<1>4. PICK next \in Operations :
         /\ Goes(p, next) /\ next.kind = "reseal" /\ next.keys = keys
         /\ next.under = SecretInForce'
         /\ vault' \in DataKeys \cup {NoSecret} /\ vaultsMade' \in 0..MaxVaults
  <2>1. CASE CreateVault(p)
    <3>1. /\ vaultsMade \in 0..MaxVaults /\ vaultsMade < MaxVaults
          /\ vaultsMade' = vaultsMade + 1 /\ vault' = Secret(vaultsMade + 1)
          /\ Goes(p, [kind |-> "reseal", keys |-> keys, under |-> vault', then |-> vault'])
      BY <1>0, <1>2, <2>1 DEF CreateVault, VaultTypeOK
    <3>2. vaultsMade + 1 \in 1..MaxVaults
      BY <3>1, MaxVaultsAssumption
    <3>3. vault' \in DataKeys /\ vault' # NoSecret /\ vault' \in Secrets
      BY <3>1, <3>2, SecretsDiffer DEF Secrets
    <3>4. SecretInForce' = vault'
      BY <3>3 DEF SecretInForce
    <3>5. [kind |-> "reseal", keys |-> keys, under |-> vault', then |-> vault'] \in Operations
      BY <1>3, <3>3 DEF Operations
    <3> QED BY <3>1, <3>2, <3>3, <3>4, <3>5
  <2>2. CASE Destroy(p)
    <3>1. /\ vault' = NoSecret /\ vaultsMade' = vaultsMade
          /\ Goes(p, [kind |-> "reseal", keys |-> keys, under |-> FileSecret, then |-> NoSecret])
      BY <1>2, <2>2 DEF Destroy
    <3>2. SecretInForce' = FileSecret
      BY <1>1, <3>1 DEF SecretInForce, FileSecret
    <3>3. [kind |-> "reseal", keys |-> keys, under |-> FileSecret, then |-> NoSecret] \in Operations
      BY <1>3, SecretsDiffer DEF Operations
    <3> QED BY <1>0, <3>1, <3>2, <3>3 DEF VaultTypeOK
  <2> QED BY <2>1, <2>2
<1>5. op'[p] = next
  BY <1>0, <1>4 DEF VaultTypeOK, Goes
<1>6. Undistorted(p)'
  BY <1>4, <1>5 DEF Undistorted
<1>7. held' \in [KeyProcesses -> DataKeys \cup {NoSecret}]
  BY <1>0, <1>1 DEF VaultTypeOK
<1>8. VaultInv'
  BY <1>0, <1>1, <1>3, <1>4, <1>6, <1>7, GoingOn DEF VaultTypeOK
<1>9. StayWithinReach
  <2>1. CASE p \in overtaken
    <3>1. op'[p] # op[p]
      BY <1>1, <1>4, <1>5
    <3> QED BY <2>1, <3>1 DEF StayWithinReach
  <2>2. CASE p \notin overtaken
    <3>1. ASSUME NEW k \in KeyProviders, row[k] # NoSecret PROVE Safe(k)'
      <4>1. k \in keys
        BY <1>3, <2>2, <3>1 DEF Stored
      <4> QED BY <1>1, <1>3, <1>4, <1>5, <4>1 DEF Safe
    <3> QED BY <1>1, <3>1 DEF StayWithinReach
  <2> QED BY <2>1, <2>2
<1> QED BY <1>8, <1>9

(* A key is sealed anew while a vault is made or destroyed.                *)
LEMMA ResealingAKey ==
  ASSUME VaultInv, NEW p \in KeyProcesses, NEW k \in KeyProviders, secretFile # "absent", Reseal(p, k)
  PROVE  VaultInv' /\ StayWithinReach
<1>0. /\ VaultTypeOK /\ secretFile \in {"empty", "written"} /\ up \subseteq KeyProcesses
      /\ op[p] \in Operations /\ (op[p] # Idle => p \in up)
  BY DEF VaultInv, VaultTypeOK
<1>1. PICK r, next : r = op[p] /\ next = [op[p] EXCEPT !.keys = @ \ {k}]
  OBVIOUS
<1>2. /\ r.kind = "reseal" /\ k \in r.keys /\ row' = [row EXCEPT ![k] = r.under]
      /\ Goes(p, next) /\ Wrote(p) /\ UNCHANGED <<vault, vaultsMade, secretFile, held, up>>
  BY <1>1 DEF Reseal
<1>3. r \in [kind : {"reseal"}, keys : SUBSET KeyProviders, under : Secrets,
             then : DataKeys \cup {NoSecret}]
  BY <1>0, <1>1, <1>2, KindsDiffer
<1>4. /\ next \in [kind : {"reseal"}, keys : SUBSET KeyProviders, under : Secrets,
                   then : DataKeys \cup {NoSecret}]
      /\ next.kind = "reseal" /\ next.under = r.under /\ next.keys = r.keys \ {k}
  BY <1>1, <1>3
<1>5. next \in Operations /\ r # Idle /\ r # next
  BY <1>2, <1>4 DEF Operations, Idle
<1>6. /\ row' \in [KeyProviders -> Secrets \cup {NoSecret}] /\ op'[p] = next
      /\ row'[k] = r.under /\ \A l \in KeyProviders \ {k} : row'[l] = row[l]
      /\ \A q \in KeyProcesses \ {p} : op'[q] = op[q]
  BY <1>0, <1>2, <1>3 DEF VaultTypeOK, Goes
<1>7. SecretInForce' = SecretInForce
  BY <1>2 DEF SecretInForce, FileSecret
<1>8. p \notin overtaken => r.under = SecretInForce
  BY <1>1, <1>2 DEF VaultInv, Undistorted
<1>9. p \notin overtaken => Undistorted(p)'
  BY <1>4, <1>6, <1>7, <1>8 DEF Undistorted
<1>10. VaultInv'
  BY <1>0, <1>1, <1>2, <1>5, <1>6, <1>9, GoingOn DEF VaultTypeOK
<1>11. StayWithinReach
  <2>1. CASE p \in overtaken
    BY <1>1, <1>5, <1>6, <2>1 DEF StayWithinReach
  <2>2. CASE p \notin overtaken
    <3>1. Safe(k)'
      BY <1>6, <1>7, <1>8, <2>2 DEF Safe
    <3>2. ASSUME NEW l \in KeyProviders \ {k}, Safe(l) PROVE Safe(l)'
      <4>1. CASE row[l] = SecretInForce
        BY <1>6, <1>7, <4>1 DEF Safe
      <4>2. CASE \E q \in up : op[q].kind = "reseal" /\ l \in op[q].keys
        <5>1. PICK q \in up : op[q].kind = "reseal" /\ l \in op[q].keys
          BY <4>2
        <5>2. op'[q].kind = "reseal" /\ l \in op'[q].keys
          BY <1>0, <1>1, <1>4, <1>6, <5>1
        <5> QED BY <1>2, <5>1, <5>2 DEF Safe
      <4> QED BY <3>2, <4>1, <4>2 DEF Safe
    <3> QED BY <1>6, <3>1, <3>2 DEF StayWithinReach
  <2> QED BY <2>1, <2>2
<1> QED BY <1>10, <1>11

(* An operation ends without having anything left to seal.                 *)
LEMMA EndingQuietly ==
  ASSUME VaultInv, NEW p \in KeyProcesses, secretFile # "absent", Resealed(p) \/ GivesUp(p)
  PROVE  VaultInv' /\ StayWithinReach
<1>0. /\ VaultTypeOK /\ secretFile \in {"empty", "written"} /\ up \subseteq KeyProcesses
      /\ op[p] \in Operations /\ (op[p] # Idle => p \in up) /\ Idle \in Operations
  BY DEF VaultInv, VaultTypeOK, Operations
<1>1. /\ Goes(p, Idle) /\ Quietly /\ UNCHANGED <<row, vault, vaultsMade, secretFile, up>>
      /\ op[p].kind \in {"reseal", "lock", "remove"}
      /\ op[p].kind = "reseal" => op[p].keys = {}
  BY DEF Resealed, GivesUp
<1>2. op[p] # Idle /\ op'[p] = Idle /\ \A q \in KeyProcesses \ {p} : op'[q] = op[q]
  BY <1>0, <1>1 DEF VaultTypeOK, Goes, Idle
<1>3. held' \in [KeyProcesses -> DataKeys \cup {NoSecret}]
  <2>1. CASE held' = held
    BY <1>0, <2>1 DEF VaultTypeOK
  <2>2. CASE Resealed(p)
    BY <1>0, <1>1, <2>2, KindsDiffer DEF Resealed, VaultTypeOK
  <2> QED BY <2>1, <2>2 DEF GivesUp
<1>4. Undistorted(p)'
  BY <1>2 DEF Undistorted, Idle
<1>5. VaultInv'
  BY <1>0, <1>1, <1>2, <1>3, <1>4, GoingOn DEF VaultTypeOK
<1>6. SecretInForce' = SecretInForce
  BY <1>1 DEF SecretInForce, FileSecret
<1>7. ASSUME NEW k \in KeyProviders, Safe(k) PROVE Safe(k)'
  <2>1. CASE row[k] = SecretInForce
    BY <1>1, <1>6, <2>1 DEF Safe
  <2>2. CASE \E q \in up : op[q].kind = "reseal" /\ k \in op[q].keys
    <3>1. PICK q \in up : op[q].kind = "reseal" /\ k \in op[q].keys
      BY <2>2
    <3>2. q # p
      BY <1>1, <3>1
    <3>3. op'[q] = op[q]
      BY <1>0, <1>2, <3>1, <3>2
    <3> QED BY <1>1, <3>1, <3>3 DEF Safe
  <2> QED BY <1>7, <2>1, <2>2 DEF Safe
<1>8. StayWithinReach
  BY <1>1, <1>7 DEF StayWithinReach
<1> QED BY <1>5, <1>8

(* A process takes the data key or forgets it.                             *)
LEMMA HoldingTheDataKey ==
  ASSUME VaultInv, NEW p \in KeyProcesses, secretFile # "absent", UnlockKeys(p) \/ RelockKeys(p)
  PROVE  VaultInv' /\ StayWithinReach
<1>1. /\ UNCHANGED <<row, vault, vaultsMade, secretFile, op, up, overtaken>>
      /\ held' = [held EXCEPT ![p] = vault] \/ held' = [held EXCEPT ![p] = NoSecret]
  BY DEF UnlockKeys, RelockKeys
<1>2. held' \in [KeyProcesses -> DataKeys \cup {NoSecret}] /\ up \subseteq KeyProcesses
  BY <1>1 DEF VaultInv, VaultTypeOK
<1>3. SecretInForce' = SecretInForce
  BY <1>1 DEF SecretInForce, FileSecret
<1> QED BY <1>1, <1>2, <1>3, OnlyHeldChanges, SafeStaysSafe

(* The vault changes its passphrase and keeps its data key.                *)
LEMMA RewrappingTheVault ==
  ASSUME VaultInv, NEW p \in KeyProcesses, secretFile # "absent", FinishRewrap(p)
  PROVE  VaultInv' /\ StayWithinReach
<1>0. /\ VaultTypeOK /\ secretFile \in {"empty", "written"} /\ up \subseteq KeyProcesses
      /\ op[p] \in Operations /\ (op[p] # Idle => p \in up) /\ Idle \in Operations
  BY DEF VaultInv, VaultTypeOK, Operations
<1>1. /\ op[p].kind = "rewrap" /\ Goes(p, Idle) /\ Wrote(p)
      /\ vault' = IF vault = NoSecret THEN NoSecret ELSE [vault EXCEPT !.key = op[p].opened.key]
      /\ UNCHANGED <<row, vaultsMade, secretFile, held, up>>
  BY DEF FinishRewrap
<1>2. op[p] # Idle /\ op'[p] = Idle /\ \A q \in KeyProcesses \ {p} : op'[q] = op[q]
  BY <1>0, <1>1 DEF VaultTypeOK, Goes, Idle
<1>3. vault' \in DataKeys \cup {NoSecret}
  <2>1. CASE vault = NoSecret
    BY <1>1, <2>1
  <2>2. CASE vault # NoSecret
    <3>1. op[p].opened \in DataKeys /\ vault \in DataKeys
      BY <1>0, <1>1, <2>2, KindsDiffer DEF VaultTypeOK
    <3>2. vault' = [vault EXCEPT !.key = op[p].opened.key]
      BY <1>1, <2>2
    <3> QED BY <3>1, <3>2 DEF DataKeys
  <2> QED BY <2>1, <2>2
<1>4. Undistorted(p)'
  BY <1>2 DEF Undistorted, Idle
<1>5. VaultInv'
  BY <1>0, <1>1, <1>2, <1>3, <1>4, GoingOn DEF VaultTypeOK
<1>6. StayWithinReach
  <2>1. CASE p \in overtaken
    BY <1>2, <2>1 DEF StayWithinReach
  <2>2. CASE p \notin overtaken
    <3>1. op[p].opened = vault
      BY <1>1, <2>2 DEF VaultInv, Undistorted
    <3>2. vault' = vault
      <4>1. CASE vault = NoSecret
        BY <1>1, <4>1
      <4>2. CASE vault # NoSecret
        <5>1. vault \in DataKeys /\ vault' = [vault EXCEPT !.key = vault.key]
          BY <1>0, <1>1, <3>1, <4>2 DEF VaultTypeOK
        <5> QED BY <5>1 DEF DataKeys
      <4> QED BY <4>1, <4>2
    <3>3. SecretInForce' = SecretInForce
      BY <1>1, <3>2 DEF SecretInForce, FileSecret
    <3>4. \A q \in KeyProcesses : op[q].kind = "reseal" => op'[q] = op[q]
      BY <1>1, <1>2
    <3> QED BY <1>0, <1>1, <3>3, <3>4, SafeStaysSafe
  <2> QED BY <2>1, <2>2
<1> QED BY <1>5, <1>6

(* Every step keeps the invariant, and what was within reach.              *)
LEMMA VaultSteps ==
    VaultInv /\ [VaultNext]_vaultVars => VaultInv' /\ [StayWithinReach]_vaultVars
<1> SUFFICES ASSUME VaultInv, [VaultNext]_vaultVars
             PROVE  VaultInv' /\ [StayWithinReach]_vaultVars
  OBVIOUS
<1>1. CASE UNCHANGED vaultVars
  <2>1. \A p \in KeyProcesses : Undistorted(p) <=> Undistorted(p)'
    BY <1>1 DEF vaultVars, Undistorted, Stored, SecretInForce, FileSecret
  <2>2. VaultTypeOK'
    BY <1>1 DEF VaultInv, VaultTypeOK, vaultVars
  <2>3. secretFile' = "absent" => Untouched'
    BY <1>1 DEF VaultInv, Untouched, vaultVars, Stored
  <2> QED BY <1>1, <2>1, <2>2, <2>3 DEF VaultInv, vaultVars
<1>2. ASSUME NEW p \in KeyProcesses, VaultStep(p) PROVE VaultInv' /\ StayWithinReach
  <2>1. CASE Open(p) \/ Die(p) \/ MakeSecret(p) \/ FillSecret(p)
    BY <2>1, OpeningAndDying, MakingTheFile
  <2>2. CASE ~(Open(p) \/ Die(p) \/ MakeSecret(p) \/ FillSecret(p))
    <3>1. secretFile # "absent"
      BY <1>2, <2>2, NothingBeforeTheFile
    <3> QED BY <1>2, <2>2, <3>1, StoringKeys, ReadingKeys, TurningTheVault, ResealingAKey,
               EndingQuietly, HoldingTheDataKey, RewrappingTheVault DEF VaultStep
  <2> QED BY <2>1, <2>2
<1> QED BY <1>1, <1>2 DEF VaultNext

(* Whatever several processes do with keys, passphrases and the file of    *)
(* the secret, at any moment one of them dies: no step takes a key out of  *)
(* reach except in the three windows.                                      *)
THEOREM KeysStayReadable == VaultSpec => KeysStayWithinReach
BY VaultBegins, VaultSteps, PTL DEF VaultSpec, KeysStayWithinReach

=============================================================================
