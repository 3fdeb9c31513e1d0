------------------------------ MODULE Access ------------------------------
(***************************************************************************)
(* src/server/http.js and src/core/tokens.js: what a request needs, what   *)
(* its credential is worth, and the wait for its body between the check    *)
(* and the handler.  An access token narrows: whoever shows one is held to *)
(* its scope even where no login is asked for.                             *)
(*                                                                         *)
(* A route is a method and a path; what its handler does is its effect:    *)
(* it reads memory, writes it, or decides what is lost and who has access  *)
(* (the three levels of Scope in tokens.js).  When a token was last used,  *)
(* which verify() notes and nothing reads back, is left out.  Sessions     *)
(* are those of module Sessions, here only open or closed.  An instant is  *)
(* a tick.                                                                 *)
(***************************************************************************)
EXTENDS Integers, Sequences, FiniteSets

CONSTANTS Requests,     \* connections to the server
          TokenIds,     \* tokens ever issued, numbered as they are
          TokenNames,   \* the programs tokens are issued for
          SessionKeys,  \* sessions of a signed-in person
          Routes,       \* the route table: records of method, path and effect
          Lifetime,     \* ticks until a token that expires does
          MaxInstant    \* bound: the last tick

ASSUME AccessAssumption == /\ TokenIds = 1..Cardinality(TokenIds)
                           /\ MaxInstant \in Nat /\ Lifetime \in Nat \ {0}

VARIABLES token,      \* table access_token, for the ids issued
          account,    \* the instant the first account was made, or Unset
          signedIn,   \* sessions authenticate() accepts
          request,    \* connection -> where its request is
          instant,    \* now()
          act         \* what the handler that ran last did

accessVars == <<token, account, signedIn, request, instant, act>>

Unset == -1
Scopes == <<"read", "write", "admin">>
Levels == {"read", "write", "admin"}
Nothing == [kind |-> "none"]
Tokens == DOMAIN token

TokenRow == [name : TokenNames, scope : Levels, expires_at : Int, revoked_at : Int]

Credentials == {Nothing} \cup [kind : {"token"}, id : TokenIds]
                         \cup [kind : {"session"}, id : SessionKeys]

Act == [by : Credentials, effect : Levels, public : BOOLEAN, came : Nat]

AccessTypeOK ==
    /\ Tokens \subseteq TokenIds /\ \A t \in Tokens : token[t] \in TokenRow
    /\ account \in {Unset} \cup Nat
    /\ signedIn \subseteq SessionKeys
    /\ request \in [Requests -> {Nothing} \cup
                       [kind : {"waiting"}, by : Credentials, route : Routes, came : Nat]]
    /\ instant \in 0..MaxInstant
    /\ act \in {Nothing} \cup Act
-----------------------------------------------------------------------------
(* SCOPE_OVERRIDES: reads that come as POST, and what destroys knowledge   *)
(* or decides who reaches it.                                              *)
ReadsByPost == {"/search", "/ask", "/vector-index/benchmark"}
ForAdmins == {<<"DELETE", "/objects/:id">>, <<"POST", "/policy">>, <<"POST", "/budget">>,
              <<"GET", "/keys">>, <<"POST", "/keys">>, <<"DELETE", "/keys/:provider">>,
              <<"POST", "/keys/lock">>, <<"POST", "/keys/unlock">>, <<"POST", "/keys/relock">>,
              <<"GET", "/tokens">>, <<"POST", "/tokens">>, <<"DELETE", "/tokens/:id">>,
              <<"GET", "/auth/sessions">>, <<"POST", "/auth/logout">>, <<"GET", "/export">>,
              <<"POST", "/import">>, <<"GET", "/sync/changes">>, <<"POST", "/sync/apply">>}

(* Nobody's route is a write unless it is a GET.                           *)
ScopeFor(route) ==
    CASE <<route.method, route.path>> \in ForAdmins -> "admin"
      [] route.method = "POST" /\ route.path \in ReadsByPost -> "read"
      [] route.method = "GET" -> "read"
      [] OTHER -> "write"

IsPublic(route) == route.path \in {"/health", "/auth/status", "/auth/login"}

Rank(scope) == CHOOSE n \in 1..3 : Scopes[n] = scope
Permits(held, required) == Rank(held) >= Rank(required)

(* The table of routes: unless a route is open to anybody, what its        *)
(* handler does is within the scope the route asks for.                    *)
ASSUME RoutesAssumption ==
    \A route \in Routes : /\ route.effect \in Levels
                          /\ IsPublic(route) \/ Permits(ScopeFor(route), route.effect)

(* Mutant: a token is good until it is revoked. *)
VerifiedForever(by) ==
    by.kind = "token" /\ token[by.id].revoked_at = Unset

(* verify(): neither revoked nor past its time.                            *)
Verified(by) ==
    /\ by.kind = "token"
    /\ token[by.id].revoked_at = Unset
    /\ token[by.id].expires_at = Unset \/ token[by.id].expires_at > instant

Authenticated(by) == by.kind = "session" /\ by.id \in signedIn

AuthIsOn == account # Unset

(* The two checks before a body is read.                                   *)
Admitted(by, route) ==
    \/ IsPublic(route)
    \/ Verified(by) /\ Permits(token[by.id].scope, ScopeFor(route))
    \/ ~Verified(by) /\ (AuthIsOn => Authenticated(by))

(* What the handlers do to what this module keeps: tokens are issued and   *)
(* revoked, sessions opened and closed.                                    *)
Issue(name, scope, expires) ==
    /\ Cardinality(Tokens) < Cardinality(TokenIds)
    /\ LET t == Cardinality(Tokens) + 1
           row == [name |-> name, scope |-> scope, revoked_at |-> Unset,
                   expires_at |-> IF expires THEN instant + Lifetime ELSE Unset]
       IN token' = [u \in Tokens \cup {t} |-> IF u = t THEN row ELSE token[u]]

(* revoke() by identifier; by name it prefers one that still works, and of *)
(* those the newest.  The row stays.                                       *)
Revoke(t) == token' = IF token[t].revoked_at = Unset
                      THEN [token EXCEPT ![t].revoked_at = instant] ELSE token

NamedBy(name) ==
    LET named == {t \in Tokens : token[t].name = name}
        working == {t \in named : token[t].revoked_at = Unset}
        Newest(S) == CHOOSE t \in S : \A u \in S : u <= t
    IN IF working # {} THEN Newest(working) ELSE Newest(named)

Done(by, route, came) == [by |-> by, effect |-> route.effect, public |-> IsPublic(route),
                          came |-> came]

(* Whoever signs out closes the session the body names, or else their own: *)
(* anybody's, then, or none if there is no such session.                   *)
Closable == {{}} \cup {{s} : s \in SessionKeys}

(* The handler of a route runs, and act says so.                           *)
Handle(by, route, came) ==
    /\ act' = Done(by, route, came)
    /\ CASE route.path = "/tokens" /\ route.method = "POST" ->
              /\ \/ \E name \in TokenNames, scope \in Levels, expires \in BOOLEAN :
                       Issue(name, scope, expires)
                 \/ Cardinality(Tokens) = Cardinality(TokenIds) /\ UNCHANGED token
              /\ UNCHANGED signedIn
         [] route.path = "/tokens/:id" ->
              /\ \/ \E t \in Tokens : Revoke(t)
                 \/ UNCHANGED token
              /\ UNCHANGED signedIn
         [] route.path = "/auth/login" ->
              /\ \E s \in SessionKeys : signedIn' = signedIn \cup {s}
              /\ AuthIsOn
              /\ UNCHANGED token
         [] route.path = "/auth/logout" ->
              /\ \E closed \in Closable : signedIn' = signedIn \ closed
              /\ UNCHANGED token
         [] OTHER -> UNCHANGED <<token, signedIn>>
-----------------------------------------------------------------------------
(* A body has to be waited for; GET and DELETE have none to read.          *)
HasBody(route) == route.method \notin {"GET", "DELETE"}

(* A request comes in and is let through: its handler runs at once, or     *)
(* when its body is there.  One that is refused changes nothing.  A token  *)
(* that was never issued is as good as none.                               *)
Admit(q, by, route) ==
    /\ request[q] = Nothing
    /\ by.kind = "token" => by.id \in Tokens
    /\ Admitted(by, route)
    /\ IF HasBody(route)
       THEN /\ request' = [request EXCEPT ![q] = [kind |-> "waiting", by |-> by,
                                                 route |-> route, came |-> instant]]
            /\ UNCHANGED <<token, signedIn, act>>
       ELSE Handle(by, route, instant) /\ UNCHANGED request
    /\ UNCHANGED <<account, instant>>

(* Nothing is checked again when the body has come.                        *)
BodyArrives(q) ==
    /\ request[q] # Nothing
    /\ Handle(request[q].by, request[q].route, request[q].came)
    /\ request' = [request EXCEPT ![q] = Nothing]
    /\ UNCHANGED <<account, instant>>

(* Too long, not JSON, or the connection breaks.                           *)
BodyFails(q) ==
    /\ request[q] # Nothing
    /\ request' = [request EXCEPT ![q] = Nothing]
    /\ UNCHANGED <<token, account, signedIn, instant, act>>

(* At the machine itself: the first account, and tokens.                   *)
MakeAccount == /\ ~AuthIsOn
               /\ account' = instant
               /\ UNCHANGED <<token, signedIn, request, instant, act>>

IssueHere(name, scope, expires) ==
    /\ Issue(name, scope, expires)
    /\ UNCHANGED <<account, signedIn, request, instant, act>>

RevokeHere(name) ==
    /\ \E t \in Tokens : token[t].name = name
    /\ Revoke(NamedBy(name))
    /\ UNCHANGED <<account, signedIn, request, instant, act>>

Pass == /\ instant < MaxInstant
        /\ instant' = instant + 1
        /\ UNCHANGED <<token, account, signedIn, request, act>>

AccessInit == /\ token = [t \in {} |-> Nothing]
              /\ account = Unset
              /\ signedIn = {}
              /\ request = [q \in Requests |-> Nothing]
              /\ instant = 0
              /\ act = Nothing

AccessNext ==
    \/ \E q \in Requests, by \in Credentials, route \in Routes : Admit(q, by, route)
    \/ \E q \in Requests : BodyArrives(q) \/ BodyFails(q)
    \/ \E name \in TokenNames : \/ RevokeHere(name)
                              \/ \E scope \in Levels, expires \in BOOLEAN :
                                    IssueHere(name, scope, expires)
    \/ MakeAccount \/ Pass

AccessSpec == AccessInit /\ [][AccessNext]_accessVars
-----------------------------------------------------------------------------
(* Whether a token worked at an instant, by what its row says now.         *)
WorkedAt(t, moment) ==
    /\ token[t].revoked_at = Unset \/ token[t].revoked_at >= moment
    /\ token[t].expires_at = Unset \/ token[t].expires_at > moment

(* "A script that only ever needs to ask questions can hold a credential   *)
(* that cannot erase anything", and "the moment someone creates an         *)
(* account, every route needs one": whatever came in between while a body  *)
(* was awaited, what a handler did is within the scope of the token shown, *)
(* if it still worked when the request came, and once there was an account *)
(* it was done for a session or for a token that worked.                   *)
ActsAreEntitled ==
    (act # Nothing /\ ~act.public) =>
        /\ (/\ act.by.kind = "token"
            /\ WorkedAt(act.by.id, act.came) /\ WorkedAt(act.by.id, act.came + 1)) =>
               Permits(token[act.by.id].scope, act.effect)
        /\ (account # Unset /\ account < act.came) =>
               \/ act.by.kind = "session"
               \/ act.by.kind = "token" /\ WorkedAt(act.by.id, act.came)
=============================================================================
