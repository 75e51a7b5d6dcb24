------------------------------ MODULE Accounts ------------------------------
(***************************************************************************)
(* Accounts, sessions and the rows users own: requests of several browsers *)
(* from registration to logout.  requireAuth resolves the cookie's token   *)
(* in two statements with a look at the clock between them, and only then  *)
(* the handler's own statement runs; other requests run between any two.   *)
(* A user is named by the e-mail address, a session by its token.          *)
(***************************************************************************)
EXTENDS Naturals, FiniteSets

CONSTANTS
  Email, Password, Token, Id,
  Content, Profile,                \* what a holding's row, a profile may say
  Connection, Browser, BrowserOf,  \* a browser may have several connections
  TTL,                             \* config.SessionTTL
  LastClock,                       \* bound of time
  None                             \* no row, no cookie, no answer

Public == {"register", "login"}    \* isPublicRoute

VARIABLES
  clock,
  users,                           \* users: the password of each address, or None
  sessions,                        \* rows [token, user, expires]
  holdings,                        \* rows [id, user, content], of either table
  profiles,                        \* each user's, or None
  jar,                             \* the cookie of each browser: [token, until], or None
  pc, ask,                         \* where a connection's request is; what it asks
  token, found, since,             \* its token; the session read; the time of login
  reply, shown,                    \* the answer's Set-Cookie, and the rows in it
  given,                           \* history: the login each token was given for
  used,                            \* history: ids that some row has had
  dead                             \* history: had the token ended when it was sent?
tables == <<users, sessions, holdings, profiles>>
request == <<ask, token, found, since, reply, shown, dead>>
history == <<given, used>>
vars == <<clock, tables, jar, pc, request, history>>

Session == [token : Token, user : Email, expires : 0..LastClock + TTL]
Holding == [id : Id, user : Email, content : Content]
N == {None}
Request ==
  [kind : Public, email : Email, password : Password, id : N, content : N]
  \cup [kind : {"create"}, email : N, password : N, id : N, content : Content]
  \cup [kind : {"setProfile"}, email : N, password : N, id : N, content : Profile]
  \cup [kind : {"update"}, email : N, password : N, id : Id, content : Content]
  \cup [kind : {"delete"}, email : N, password : N, id : Id, content : N]
  \cup [kind : {"logout", "read"}, email : N, password : N, id : N, content : N]
Cookie == [token : Token, until : 0..LastClock + TTL]
Login == [email : Email, password : Password]

ASSUME AccountsAssumption ==
  /\ BrowserOf \in [Connection -> Browser]
  /\ TTL \in Nat \ {0} /\ LastClock \in Nat
  /\ None \notin Email \cup Password \cup Token \cup Login
  /\ None \notin {"set", "clear"}

SessionsOf(t) == {s \in sessions : s.token = t}
Live(t) == \E s \in SessionsOf(t) : s.expires > clock
HoldingsOf(u) == {h \in holdings : h.user = u}

Init ==
  /\ clock = 0
  /\ users = [e \in Email |-> None] /\ profiles = [e \in Email |-> None]
  /\ sessions = {} /\ holdings = {} /\ used = {}
  /\ jar = [b \in Browser |-> None]
  /\ given = [t \in Token |-> None]
  /\ pc = [c \in Connection |-> "idle"]
  /\ ask = [c \in Connection |-> None] /\ token = [c \in Connection |-> None]
  /\ found = [c \in Connection |-> None] /\ since = [c \in Connection |-> 0]
  /\ reply = [c \in Connection |-> None] /\ shown = [c \in Connection |-> {}]
  /\ dead = [c \in Connection |-> FALSE]

-----------------------------------------------------------------------------
(* The request comes in *)

\* The cookie the browser sends: none after its MaxAge.
CookieToken(c) ==
  LET cookie == jar[BrowserOf[c]]
  IN  IF cookie # None /\ cookie.until > clock THEN cookie.token ELSE None

\* A client knows the id of a row from an answer, so the row exists or did.
Send(c, a) ==
  /\ pc[c] = "idle"
  /\ a.id # None => a.id \in used
  /\ ask' = [ask EXCEPT ![c] = a]
  /\ token' = [token EXCEPT ![c] = CookieToken(c)]
  /\ dead' = [dead EXCEPT ![c] = ~Live(CookieToken(c))]
  /\ pc' = [pc EXCEPT ![c] = CASE a.kind = "register" -> "createUser"
                               [] a.kind = "login"    -> "getUser"
                               [] OTHER               -> "getSession"]
  /\ UNCHANGED <<clock, tables, jar, found, since, reply, shown, history>>

\* The request is answered, with this Set-Cookie header or none, and forgotten.
Ends(c, header) ==
  /\ pc' = [pc EXCEPT ![c] = "reply"]
  /\ reply' = [reply EXCEPT ![c] = header]
  /\ ask' = [ask EXCEPT ![c] = None] /\ found' = [found EXCEPT ![c] = None]
  /\ since' = [since EXCEPT ![c] = 0] /\ dead' = [dead EXCEPT ![c] = FALSE]
GoesOn(c, statement) ==
  /\ pc' = [pc EXCEPT ![c] = statement]
  /\ UNCHANGED <<ask, reply, dead>>

-----------------------------------------------------------------------------
(* Register and Login *)

\* Faulty variant of CreateUser: registering again sets the password.
UpsertUser(c) ==
  /\ pc[c] = "createUser"
  /\ users' = [users EXCEPT ![ask[c].email] = ask[c].password]
  /\ Ends(c, None)
  /\ UNCHANGED <<clock, sessions, holdings, profiles, jar, token, shown, history>>

\* The unique index on users.email decides between registrations.
CreateUser(c) ==
  /\ pc[c] = "createUser"
  /\ \/ /\ users[ask[c].email] = None
        /\ users' = [users EXCEPT ![ask[c].email] = ask[c].password]
     \/ users[ask[c].email] # None /\ UNCHANGED users   \* ErrEmailTaken
  /\ Ends(c, None)
  /\ UNCHANGED <<clock, sessions, holdings, profiles, jar, token, shown, history>>

\* The row by its address, Compare, and the reading the expiry is counted from.
GetUser(c) ==
  /\ pc[c] = "getUser"
  /\ \/ /\ users[ask[c].email] = ask[c].password
        /\ GoesOn(c, "createSession")
        /\ since' = [since EXCEPT ![c] = clock] /\ UNCHANGED found
     \/ users[ask[c].email] # ask[c].password /\ Ends(c, None)
  /\ UNCHANGED <<clock, tables, jar, token, shown, history>>

\* A new random token; the row a previous login made stays.
CreateSession(c) ==
  /\ pc[c] = "createSession"
  /\ \E t \in Token :
       /\ given[t] = None
       /\ sessions' = sessions \cup
            {[token |-> t, user |-> ask[c].email, expires |-> since[c] + TTL]}
       /\ given' = [given EXCEPT ![t] = [email |-> ask[c].email,
                                         password |-> ask[c].password]]
       /\ token' = [token EXCEPT ![c] = t]
  /\ Ends(c, "set")
  /\ UNCHANGED <<clock, users, holdings, profiles, jar, shown, used>>

-----------------------------------------------------------------------------
(* requireAuth, Authenticate *)

GetSession(c) ==
  /\ pc[c] = "getSession"
  /\ \/ \E s \in SessionsOf(token[c]) :
          /\ found' = [found EXCEPT ![c] = s] /\ UNCHANGED since
          /\ GoesOn(c, "check")
     \/ SessionsOf(token[c]) = {} /\ Ends(c, None)
  /\ UNCHANGED <<clock, tables, jar, token, shown, history>>

\* Faulty variant of Authenticated: the instant of expiry still counts.
AuthenticatedUntil(c) ==
  /\ pc[c] = "check" /\ found[c].expires >= clock
  /\ GoesOn(c, "serve")
  /\ UNCHANGED <<clock, tables, jar, token, found, since, shown, history>>

\* ExpiresAt.After(now), then the user's row, which is always there.
Authenticated(c) ==
  /\ pc[c] = "check" /\ found[c].expires > clock
  /\ GoesOn(c, "serve")
  /\ UNCHANGED <<clock, tables, jar, token, found, since, shown, history>>

\* Lazy cleanup, whose own failure is ignored.
Expired(c) ==
  /\ pc[c] = "check" /\ found[c].expires <= clock
  /\ sessions' \in {sessions, sessions \ SessionsOf(token[c])}
  /\ Ends(c, None)
  /\ UNCHANGED <<clock, users, holdings, profiles, jar, token, shown, history>>

-----------------------------------------------------------------------------
(* The handler's statement, scoped by the user of the session that was found *)

User(c) == found[c].user
Asks(c, kind) == pc[c] = "serve" /\ ask[c].kind = kind
Served(c, header) ==
  /\ Ends(c, header)
  /\ UNCHANGED <<clock, users, jar, token, given>>

Create(c) ==
  /\ Asks(c, "create")
  /\ \E id \in Id \ used :
       /\ holdings' = holdings \cup
            {[id |-> id, user |-> User(c), content |-> ask[c].content]}
       /\ used' = used \cup {id}
  /\ Served(c, None) /\ UNCHANGED <<sessions, profiles, shown>>

\* Faulty variant of Target: any user's row.
AnyTarget(c) == {h \in holdings : h.id = ask[c].id}

\* The row of this id, if it is the user's.
Target(c) == {h \in holdings : h.id = ask[c].id /\ h.user = User(c)}

\* Faulty variant of Update: the old row stays.
UpdateByInsert(c) ==
  /\ Asks(c, "update")
  /\ holdings' = holdings \cup {[h EXCEPT !.content = ask[c].content] : h \in Target(c)}
  /\ Served(c, None) /\ UNCHANGED <<sessions, profiles, shown, used>>

Update(c) ==
  /\ Asks(c, "update")
  /\ holdings' = (holdings \ Target(c)) \cup
                   {[h EXCEPT !.content = ask[c].content] : h \in Target(c)}
  /\ Served(c, None)
  /\ UNCHANGED <<sessions, profiles, shown, used>>

Delete(c) ==
  /\ Asks(c, "delete")
  /\ holdings' = holdings \ Target(c)
  /\ Served(c, None)
  /\ UNCHANGED <<sessions, profiles, shown, used>>

Read(c) ==
  /\ Asks(c, "read")
  /\ shown' = [shown EXCEPT ![c] = HoldingsOf(User(c))]
  /\ Served(c, None) /\ UNCHANGED <<sessions, holdings, profiles, used>>

SetProfile(c) ==                   \* an upsert
  /\ Asks(c, "setProfile")
  /\ profiles' = [profiles EXCEPT ![User(c)] = ask[c].content]
  /\ Served(c, None) /\ UNCHANGED <<sessions, holdings, shown, used>>

\* Faulty variant of DeleteSession: every session of the user.
DeleteSessions(c) ==
  /\ Asks(c, "logout")
  /\ sessions' = {s \in sessions : s.user # User(c)}
  /\ Served(c, "clear") /\ UNCHANGED <<holdings, profiles, shown, used>>

DeleteSession(c) ==                \* Logout
  /\ Asks(c, "logout")
  /\ sessions' = sessions \ SessionsOf(token[c])
  /\ Served(c, "clear") /\ UNCHANGED <<holdings, profiles, shown, used>>

-----------------------------------------------------------------------------
(* The answer goes out *)

\* Any statement may fail, be it because the client left.
Fail(c) ==
  /\ pc[c] \notin {"idle", "reply"}
  /\ Ends(c, None)
  /\ UNCHANGED <<clock, tables, jar, token, shown, history>>

\* The connection is free for another request.
Forget(c) ==
  /\ pc[c] = "reply"
  /\ pc' = [pc EXCEPT ![c] = "idle"]
  /\ token' = [token EXCEPT ![c] = None]
  /\ reply' = [reply EXCEPT ![c] = None] /\ shown' = [shown EXCEPT ![c] = {}]
  /\ UNCHANGED <<clock, tables, ask, found, since, dead, history>>

\* The browser receives it: setSessionCookie, clearSessionCookie, or no cookie.
Receive(c) ==
  /\ Forget(c)
  /\ jar' = [jar EXCEPT ![BrowserOf[c]] =
       CASE reply[c] = "set"   -> [token |-> token[c], until |-> clock + TTL]
         [] reply[c] = "clear" -> None
         [] OTHER              -> @]
Lose(c) == reply[c] # None /\ Forget(c) /\ UNCHANGED jar

Tick == /\ clock < LastClock /\ clock' = clock + 1
        /\ UNCHANGED <<tables, jar, pc, request, history>>

Handle(c) == \/ Create(c) \/ Update(c) \/ Delete(c) \/ Read(c)
             \/ SetProfile(c) \/ DeleteSession(c)
Next ==
  \/ \E c \in Connection :
       \/ \E a \in Request : Send(c, a)
       \/ CreateUser(c) \/ GetUser(c) \/ CreateSession(c)
       \/ GetSession(c) \/ Authenticated(c) \/ Expired(c)
       \/ Handle(c) \/ Fail(c) \/ Receive(c) \/ Lose(c)
  \/ Tick
Spec == Init /\ [][Next]_vars

-----------------------------------------------------------------------------
(* Properties *)

\* Whoever got this token had given the password of this user.
EntitledTo(t, u) ==
  t \in Token /\ given[t] # None /\ given[t].email = u /\ given[t].password = users[u]

\* Tables hold one row per key, a connection is at one statement of one request
\* whose token and reading exist, and an idle one keeps nothing.
TypeOK ==
  /\ clock \in 0..LastClock
  /\ users \in [Email -> Password \cup {None}]
  /\ sessions \subseteq Session /\ \A r, s \in sessions : r.token = s.token => r = s
  /\ holdings \subseteq Holding /\ \A g, h \in holdings : g.id = h.id => g = h
  /\ profiles \in [Email -> Profile \cup {None}]
  /\ jar \in [Browser -> Cookie \cup {None}]
  /\ pc \in [Connection -> {"idle", "createUser", "getUser", "createSession",
                            "getSession", "check", "serve", "reply"}]
  /\ ask \in [Connection -> Request \cup {None}]
  /\ token \in [Connection -> Token \cup {None}]
  /\ found \in [Connection -> Session \cup {None}]
  /\ since \in [Connection -> 0..LastClock]
  /\ reply \in [Connection -> {"set", "clear", None}]
  /\ shown \in [Connection -> SUBSET Holding]
  /\ given \in [Token -> Login \cup {None}] /\ used \subseteq Id
  /\ dead \in [Connection -> BOOLEAN]

\* The code behaviour: register, Login, the cookie, requireAuth and the user id in
\* the context.  A request is served, and shown rows, only as the user whose
\* password was given for its token, whoever else registers or logs in meanwhile.
ServedAsOwner ==
  \A c \in Connection :
    /\ pc[c] = "serve" => EntitledTo(token[c], User(c))
    /\ \A h \in shown[c] : EntitledTo(token[c], h.user)

\* The code behaviour: Authenticate, Logout.  A request sent when its session had
\* expired or was logged out does nothing.  (One that was sent before may still be
\* served after.)
DeadSessionsRejected ==
  \A c \in Connection : pc[c] = "serve" => ~dead[c]

\* The code behaviour: DeleteSession, called by Logout and by Authenticate.  A
\* session ends by its own logout or after its time, and with no other session.
SessionsEndForCause ==
  [][\A s \in sessions \ sessions' :
       \/ s.expires <= clock
       \/ \E c \in Connection : /\ Asks(c, "logout") /\ token[c] = s.token
                                /\ EntitledTo(s.token, s.user)]_vars

\* The code behaviour: the statements on holdings and profiles, scoped by user.
\* A user's rows change only by a request whose token that user's password was
\* given for, and which was sent while its session lived.
OnlyOwnersChange ==
  [][\A u \in Email :
       (HoldingsOf(u)' # HoldingsOf(u) \/ profiles'[u] # profiles[u]) =>
         \E c \in Connection : /\ pc[c] = "serve" /\ pc'[c] = "reply"
                               /\ EntitledTo(token[c], u) /\ ~dead[c]]_vars
=============================================================================
