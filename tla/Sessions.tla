------------------------------ MODULE Sessions ------------------------------
(***************************************************************************)
(* src/core/auth.js: accounts with a password and the sessions that a      *)
(* login opens.  Authentication is on once a first account exists; from    *)
(* then on src/server/http.js asks authenticate() about every request that *)
(* carries no access token.                                                *)
(*                                                                         *)
(* setPassword is one transaction.  login reads the credential, spends a   *)
(* tenth of a second on the hash and then inserts the session, and         *)
(* setDisabled writes the flag first and ends the sessions after: in both  *)
(* another process may write in between, or this one may die.              *)
(***************************************************************************)
EXTENDS Integers

CONSTANTS Accounts,       \* principals that may get a password
          AuthProcesses,  \* processes that have the store open
          SessionIds,     \* bound: sessions ever opened
          MaxPasswords,   \* bound: passwords an account ever had
          SessionDays,    \* DEFAULT_SESSION_DAYS
          MonthDays,      \* how long prune() keeps what has ended
          MaxDay          \* bound: the last day

ASSUME DaysAssumption == SessionDays \in Nat \ {0} /\ MonthDays \in Nat

VARIABLES credential,  \* table credential: account -> password version and disabled flag
          session,     \* table session, for the ids of its rows
          authOp,      \* process -> what it is in the middle of
          today,       \* the day
          unfinished   \* ghost: accounts whose disabling was cut short

sessionVars == <<credential, session, authOp, today, unfinished>>

NoAccount == [version |-> 0, disabled |-> FALSE]
Never == -1
NoOp == [kind |-> "none"]

SessionRow == [owner : Accounts, under : 1..MaxPasswords, ends : Nat,
               revoked : Int, late : BOOLEAN]

SessionsTypeOK ==
    /\ credential \in [Accounts -> [version : 0..MaxPasswords, disabled : BOOLEAN]]
    /\ DOMAIN session \subseteq SessionIds
    /\ \A s \in DOMAIN session : session[s] \in SessionRow
    /\ authOp \in [AuthProcesses -> {NoOp}
          \cup [kind : {"login"}, account : Accounts, under : 1..MaxPasswords]
          \cup [kind : {"disable"}, account : Accounts]]
    /\ today \in 0..MaxDay
    /\ unfinished \subseteq Accounts

SessionsInit ==
    /\ credential = [a \in Accounts |-> NoAccount]
    /\ session = [s \in {} |-> NoOp]
    /\ authOp = [p \in AuthProcesses |-> NoOp]
    /\ today = 0
    /\ unfinished = {}
-----------------------------------------------------------------------------
HasAccount(a) == credential[a].version > 0
AuthEnabled == \E a \in Accounts : HasAccount(a)

(* authenticate(): a session nobody revoked, before its last moment.  The  *)
(* disabled flag of the account is not looked at.                          *)
Authenticates(s) == AuthEnabled /\ session[s].revoked = Never /\ session[s].ends > today

(* Mutant: a new password leaves the sessions of the old one alone. *)
EndedForNobody(a) == session

(* UPDATE session SET revoked_at ... WHERE principal_id = ? AND revoked_at *)
(* IS NULL.                                                                *)
EndedFor(a) == [s \in DOMAIN session |->
                  IF session[s].owner = a /\ session[s].revoked = Never
                  THEN [session[s] EXCEPT !.revoked = today] ELSE session[s]]

(* A new password does not clear the disabled flag.                        *)
SetPassword(a) ==
    /\ credential[a].version < MaxPasswords
    /\ credential' = [credential EXCEPT ![a].version = @ + 1]
    /\ session' = EndedFor(a)
    /\ UNCHANGED <<authOp, today, unfinished>>

BeginLogin(p, a) ==
    /\ authOp[p] = NoOp /\ HasAccount(a) /\ ~credential[a].disabled
    /\ authOp' = [authOp EXCEPT ![p] = [kind |-> "login", account |-> a,
                                        under |-> credential[a].version]]
    /\ UNCHANGED <<credential, session, today, unfinished>>

(* The ghost "late" marks a session whose password was replaced, or whose  *)
(* account was disabled, while the hash was computed.                      *)
OpenSession(p, s) ==
    /\ authOp[p].kind = "login" /\ s \notin DOMAIN session
    /\ LET o == authOp[p]
           new == [owner |-> o.account, under |-> o.under, ends |-> today + SessionDays,
                   revoked |-> Never,
                   late |-> credential[o.account] # [version |-> o.under, disabled |-> FALSE]]
       IN session' = [t \in DOMAIN session \cup {s} |-> IF t = s THEN new ELSE session[t]]
    /\ authOp' = [authOp EXCEPT ![p] = NoOp]
    /\ UNCHANGED <<credential, today, unfinished>>

Logout(s) ==
    /\ s \in DOMAIN session /\ session[s].revoked = Never
    /\ session' = [session EXCEPT ![s].revoked = today]
    /\ UNCHANGED <<credential, authOp, today, unfinished>>

BeginDisable(p, a) ==
    /\ authOp[p] = NoOp /\ HasAccount(a)
    /\ credential' = [credential EXCEPT ![a].disabled = TRUE]
    /\ authOp' = [authOp EXCEPT ![p] = [kind |-> "disable", account |-> a]]
    /\ UNCHANGED <<session, today, unfinished>>

FinishDisable(p) ==
    /\ authOp[p].kind = "disable"
    /\ session' = EndedFor(authOp[p].account)
    /\ authOp' = [authOp EXCEPT ![p] = NoOp]
    /\ unfinished' = unfinished \ {authOp[p].account}
    /\ UNCHANGED <<credential, today>>

Enable(a) ==
    /\ credential[a].disabled
    /\ credential' = [credential EXCEPT ![a].disabled = FALSE]
    /\ UNCHANGED <<session, authOp, today, unfinished>>

(* Rows that ended more than a month ago are deleted.                      *)
Ended(s) == \/ session[s].ends < today - MonthDays
            \/ session[s].revoked # Never /\ session[s].revoked < today - MonthDays

Prune ==
    /\ \E s \in DOMAIN session : Ended(s)
    /\ session' = [s \in {t \in DOMAIN session : ~Ended(t)} |-> session[s]]
    /\ UNCHANGED <<credential, authOp, today, unfinished>>

(* A process ends; a disabling it was in the middle of is not finished.    *)
AuthDies(p) ==
    /\ authOp[p] # NoOp
    /\ unfinished' = IF authOp[p].kind = "disable" THEN unfinished \cup {authOp[p].account}
                                                   ELSE unfinished
    /\ authOp' = [authOp EXCEPT ![p] = NoOp]
    /\ UNCHANGED <<credential, session, today>>

NextDay == today < MaxDay /\ today' = today + 1 /\ UNCHANGED <<credential, session, authOp, unfinished>>

SessionsNext ==
    \/ \E a \in Accounts : SetPassword(a) \/ Enable(a)
    \/ \E p \in AuthProcesses : FinishDisable(p) \/ AuthDies(p)
    \/ \E p \in AuthProcesses, a \in Accounts : BeginLogin(p, a) \/ BeginDisable(p, a)
    \/ \E p \in AuthProcesses, s \in SessionIds : OpenSession(p, s)
    \/ \E s \in SessionIds : Logout(s)
    \/ Prune \/ NextDay

SessionsSpec == SessionsInit /\ [][SessionsNext]_sessionVars
-----------------------------------------------------------------------------
BeingDisabled(a) == a \in unfinished \/ \E p \in AuthProcesses :
                                          authOp[p] = [kind |-> "disable", account |-> a]

(* "Changing a password ends every existing session", and so does          *)
(* disabling the account: a session that still authenticates was opened    *)
(* under the password its account has now, and the account is not          *)
(* disabled.  Excepted are a login that the change overtook and a          *)
(* disabling that has not come to its second statement.  Sessions opened   *)
(* under an old password stay ended when the account is enabled again.     *)
LiveSessionsAreCurrent ==
    \A s \in DOMAIN session : Authenticates(s) /\ ~session[s].late =>
        LET c == credential[session[s].owner] IN
        /\ session[s].under = c.version
        /\ c.disabled => BeingDisabled(session[s].owner)
=============================================================================
