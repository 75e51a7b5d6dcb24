--------------------------- MODULE Accounts_proofs ---------------------------
(***************************************************************************)
(* A request is served only as the user whose password was given for its   *)
(* token and only when its session lived at its start, and the rows of a   *)
(* user change by no other request: for any number of users, connections   *)
(* and browsers.                                                           *)
(***************************************************************************)
EXTENDS Accounts, TLAPS

PublicRequest == [kind : Public, email : Email, password : Password, id : N, content : N]

\* Every session row is of a login that gave its user's password.
Issued == \A s \in sessions : EntitledTo(s.token, s.user)

\* Tokens come from logins, in cookies, requests and answers alike.
TokensGiven ==
  /\ \A b \in Browser : jar[b] # None => given[jar[b].token] # None
  /\ \A c \in Connection :
       /\ token[c] # None => given[token[c]] # None
       /\ pc[c] # "reply" => reply[c] = None
       /\ reply[c] = "set" => token[c] # None

\* What a connection has in hand at each statement.
InHand ==
  \A c \in Connection :
    /\ pc[c] \in {"createUser", "getUser", "createSession"} => ask[c] \in PublicRequest
    /\ pc[c] = "createSession" => users[ask[c].email] = ask[c].password
    /\ pc[c] \in {"getSession", "check", "serve"} => ask[c] \in Request
    /\ pc[c] \in {"check", "serve"} =>
         found[c] \in Session /\ found[c].token = token[c] /\ EntitledTo(token[c], User(c))
    /\ pc[c] \in {"check", "serve"} => \A s \in SessionsOf(token[c]) : s = found[c]
    /\ pc[c] # "reply" => shown[c] = {}
    /\ \A h \in shown[c] : EntitledTo(token[c], h.user)

\* A request sent with a dead session has nothing live to find.
NothingRevives ==
  \A c \in Connection : dead[c] =>
    /\ pc[c] # "serve"
    /\ pc[c] = "getSession" => \A s \in SessionsOf(token[c]) : s.expires <= clock
    /\ pc[c] = "check" => found[c].expires <= clock

IdsUsed == \A h \in holdings : h.id \in used

IndInv == TypeOK /\ Issued /\ TokensGiven /\ InHand /\ NothingRevives /\ IdsUsed

-----------------------------------------------------------------------------

\* Who was entitled to a token stays so: a password and a login are set once.
LEMMA EntitledStays ==
  ASSUME TypeOK, [Next]_vars, NEW t, NEW u, EntitledTo(t, u)
  PROVE  EntitledTo(t, u)'
<1> USE AccountsAssumption DEF TypeOK, EntitledTo, tables, request, history, Login
<1>1. ASSUME NEW c \in Connection, NEW a \in Request, Send(c, a) PROVE EntitledTo(t, u)'
  BY <1>1 DEF Send, CookieToken
<1>2. ASSUME NEW c \in Connection, CreateUser(c) PROVE EntitledTo(t, u)'
  BY <1>2 DEF CreateUser, Ends
<1>3. ASSUME NEW c \in Connection, GetUser(c) PROVE EntitledTo(t, u)'
  BY <1>3 DEF GetUser, GoesOn, Ends
<1>4. ASSUME NEW c \in Connection, CreateSession(c) PROVE EntitledTo(t, u)'
  BY <1>4 DEF CreateSession, Ends
<1>5. ASSUME NEW c \in Connection, GetSession(c) PROVE EntitledTo(t, u)'
  BY <1>5 DEF GetSession, GoesOn, Ends, SessionsOf
<1>6. ASSUME NEW c \in Connection, Authenticated(c) PROVE EntitledTo(t, u)'
  BY <1>6 DEF Authenticated, GoesOn
<1>7. ASSUME NEW c \in Connection, Expired(c) PROVE EntitledTo(t, u)'
  BY <1>7 DEF Expired, Ends, SessionsOf
<1>8. ASSUME NEW c \in Connection, Create(c) PROVE EntitledTo(t, u)'
  BY <1>8 DEF Create, Asks, Served, Ends, User
<1>9. ASSUME NEW c \in Connection, Update(c) PROVE EntitledTo(t, u)'
  BY <1>9 DEF Update, Asks, Served, Ends, Target, User
<1>10. ASSUME NEW c \in Connection, Delete(c) PROVE EntitledTo(t, u)'
  BY <1>10 DEF Delete, Asks, Served, Ends, Target, User
<1>11. ASSUME NEW c \in Connection, Read(c) PROVE EntitledTo(t, u)'
  BY <1>11 DEF Read, Asks, Served, Ends, HoldingsOf, User
<1>12. ASSUME NEW c \in Connection, SetProfile(c) PROVE EntitledTo(t, u)'
  BY <1>12 DEF SetProfile, Asks, Served, Ends, User
<1>13. ASSUME NEW c \in Connection, DeleteSession(c) PROVE EntitledTo(t, u)'
  BY <1>13 DEF DeleteSession, Asks, Served, Ends, SessionsOf
<1>14. ASSUME NEW c \in Connection, Fail(c) PROVE EntitledTo(t, u)'
  BY <1>14 DEF Fail, Ends
<1>15. ASSUME NEW c \in Connection, Receive(c) PROVE EntitledTo(t, u)'
  BY <1>15 DEF Receive, Forget
<1>16. ASSUME NEW c \in Connection, Lose(c) PROVE EntitledTo(t, u)'
  BY <1>16 DEF Lose, Forget
<1>17. CASE Tick
  BY <1>17 DEF Tick
<1>18. CASE UNCHANGED vars
  BY <1>18 DEF vars
<1> QED
  BY <1>1, <1>2, <1>3, <1>4, <1>5, <1>6, <1>7, <1>8, <1>9, <1>10, <1>11,
     <1>12, <1>13, <1>14, <1>15, <1>16, <1>17, <1>18
     DEF Next, Handle

\* What the statements leave in tables and connections is well-formed.
LEMMA TypeStep ==
  ASSUME IndInv, [Next]_vars
  PROVE  TypeOK'
<1> USE AccountsAssumption DEF IndInv, TypeOK, tables, request, history
<1>0. \A c \in Connection : found[c] # None => found[c] \in Session
  OBVIOUS
<1>1. ASSUME NEW c \in Connection, NEW a \in Request, Send(c, a) PROVE TypeOK'
  <2>1. CookieToken(c) \in Token \cup {None}
    BY DEF CookieToken, Cookie
  <2>2. pc'[c] \in {"createUser", "getUser", "getSession"}
    BY <1>1 DEF Send
  <2> QED
    BY <1>1, <2>1, <2>2 DEF Send
<1>2. ASSUME NEW c \in Connection, CreateUser(c) PROVE TypeOK'
  BY <1>2 DEF CreateUser, Ends, InHand, PublicRequest
<1>3. ASSUME NEW c \in Connection, GetUser(c) PROVE TypeOK'
  <2>1. CASE /\ GoesOn(c, "createSession")
             /\ since' = [since EXCEPT ![c] = clock] /\ UNCHANGED found
    BY <1>3, <2>1 DEF GetUser, GoesOn
  <2>2. CASE Ends(c, None)
    BY <1>3, <2>2 DEF GetUser, Ends
  <2> QED
    BY <1>3, <2>1, <2>2 DEF GetUser
<1>4. ASSUME NEW c \in Connection, CreateSession(c) PROVE TypeOK'
  <2>1. ask[c] \in PublicRequest
    BY <1>4 DEF CreateSession, InHand
  <2>2. PICK t \in Token :
          /\ given[t] = None
          /\ sessions' = sessions \cup
               {[token |-> t, user |-> ask[c].email, expires |-> since[c] + TTL]}
          /\ given' = [given EXCEPT ![t] = [email |-> ask[c].email,
                                            password |-> ask[c].password]]
          /\ token' = [token EXCEPT ![c] = t]
    BY <1>4 DEF CreateSession
  <2>3. \A s \in sessions : s.token # t
    BY <2>2 DEF Issued, EntitledTo
  <2>4. [email |-> ask[c].email, password |-> ask[c].password] \in Login
    BY <2>1 DEF PublicRequest, Login
  <2>5. [token |-> t, user |-> ask[c].email, expires |-> since[c] + TTL] \in Session
    BY <2>1 DEF PublicRequest, Session
  <2> QED
    BY <1>4, <2>2, <2>3, <2>4, <2>5 DEF CreateSession, Ends
<1>5. ASSUME NEW c \in Connection, GetSession(c) PROVE TypeOK'
  <2>1. ASSUME NEW s \in SessionsOf(token[c]), found' = [found EXCEPT ![c] = s],
               UNCHANGED since, GoesOn(c, "check")
        PROVE  TypeOK'
    BY <1>5, <2>1 DEF GetSession, GoesOn, SessionsOf
  <2>2. CASE Ends(c, None)
    BY <1>5, <2>2 DEF GetSession, Ends
  <2> QED
    BY <1>5, <2>1, <2>2 DEF GetSession
<1>6. ASSUME NEW c \in Connection, Authenticated(c) PROVE TypeOK'
  BY <1>6 DEF Authenticated, GoesOn
<1>7. ASSUME NEW c \in Connection, Expired(c) PROVE TypeOK'
  BY <1>7 DEF Expired, Ends, SessionsOf
<1>8. ASSUME NEW c \in Connection, Create(c) PROVE TypeOK'
  <2>1. ask[c].content \in Content /\ User(c) \in Email
    BY <1>8 DEF Create, Asks, InHand, Request, User, Session, Public
  <2>2. PICK id \in Id \ used :
          /\ holdings' = holdings \cup
               {[id |-> id, user |-> User(c), content |-> ask[c].content]}
          /\ used' = used \cup {id}
    BY <1>8 DEF Create
  <2>3. [id |-> id, user |-> User(c), content |-> ask[c].content] \in Holding
    BY <2>1, <2>2 DEF Holding
  <2>4. \A h \in holdings : h.id # id
    BY <2>2 DEF IdsUsed
  <2> QED
    BY <1>8, <2>2, <2>3, <2>4 DEF Create, Asks, Served, Ends
<1>9. ASSUME NEW c \in Connection, Update(c) PROVE TypeOK'
  <2>1. ask[c].content \in Content
    BY <1>9 DEF Update, Asks, InHand, Request, Public
  <2> DEFINE New(h) == [h EXCEPT !.content = ask[c].content]
  <2>2. \A h \in Target(c) : h \in holdings /\ New(h) \in Holding /\ New(h).id = h.id
    BY <2>1 DEF Target, Holding
  <2>3. holdings' = (holdings \ Target(c)) \cup {New(h) : h \in Target(c)}
    BY <1>9 DEF Update
  <2> HIDE DEF New
  <2>4. holdings' \subseteq Holding
    BY <2>2, <2>3
  <2>6. \A g \in holdings' : \E g0 \in holdings :
          g0.id = g.id /\ g = IF g0 \in Target(c) THEN New(g0) ELSE g0
    BY <2>2, <2>3
  <2>5. \A g, h \in holdings' : g.id = h.id => g = h
    BY <2>6
  <2> QED
    BY <1>9, <2>4, <2>5 DEF Update, Asks, Served, Ends
<1>10. ASSUME NEW c \in Connection, Delete(c) PROVE TypeOK'
  BY <1>10 DEF Delete, Asks, Served, Ends, Target, User
<1>11. ASSUME NEW c \in Connection, Read(c) PROVE TypeOK'
  BY <1>11 DEF Read, Asks, Served, Ends, HoldingsOf, User
<1>12. ASSUME NEW c \in Connection, SetProfile(c) PROVE TypeOK'
  <2>1. ask[c].content \in Profile /\ User(c) \in Email
    BY <1>12 DEF SetProfile, Asks, InHand, Request, User, Session, Public
  <2> QED
    BY <1>12, <2>1 DEF SetProfile, Asks, Served, Ends
<1>13. ASSUME NEW c \in Connection, DeleteSession(c) PROVE TypeOK'
  BY <1>13 DEF DeleteSession, Asks, Served, Ends, SessionsOf
<1>14. ASSUME NEW c \in Connection, Fail(c) PROVE TypeOK'
  BY <1>14 DEF Fail, Ends
<1>15. ASSUME NEW c \in Connection, Receive(c) PROVE TypeOK'
  <2>1. reply[c] = "set" => [token |-> token[c], until |-> clock + TTL] \in Cookie
    BY DEF TokensGiven, Cookie
  <2> QED
    BY <1>15, <2>1 DEF Receive, Forget
<1>16. ASSUME NEW c \in Connection, Lose(c) PROVE TypeOK'
  BY <1>16 DEF Lose, Forget
<1>17. CASE Tick
  BY <1>17 DEF Tick
<1>18. CASE UNCHANGED vars
  BY <1>18 DEF vars
<1> QED
  BY <1>1, <1>2, <1>3, <1>4, <1>5, <1>6, <1>7, <1>8, <1>9, <1>10, <1>11,
     <1>12, <1>13, <1>14, <1>15, <1>16, <1>17, <1>18
     DEF Next, Handle

\* The one insertion of a session follows Compare.
LEMMA IssuedStep ==
  ASSUME IndInv, TypeOK', [Next]_vars
  PROVE  Issued'
<1> USE AccountsAssumption
    DEF IndInv, TypeOK, Issued, TokensGiven, tables, request, history
<1>0. \A t, u : EntitledTo(t, u) => EntitledTo(t, u)'
  BY EntitledStays
<1>1. ASSUME NEW c \in Connection, NEW a \in Request, Send(c, a) PROVE Issued'
  BY <1>0, <1>1 DEF Send, CookieToken
<1>2. ASSUME NEW c \in Connection, CreateUser(c) PROVE Issued'
  BY <1>0, <1>2 DEF CreateUser, Ends
<1>3. ASSUME NEW c \in Connection, GetUser(c) PROVE Issued'
  BY <1>0, <1>3 DEF GetUser, GoesOn, Ends
<1>4. ASSUME NEW c \in Connection, CreateSession(c) PROVE Issued'
  <2>1. ask[c] \in PublicRequest /\ users[ask[c].email] = ask[c].password
    BY <1>4 DEF CreateSession, InHand
  <2>2. PICK t \in Token :
          /\ sessions' = sessions \cup
               {[token |-> t, user |-> ask[c].email, expires |-> since[c] + TTL]}
          /\ given' = [given EXCEPT ![t] = [email |-> ask[c].email,
                                            password |-> ask[c].password]]
    BY <1>4 DEF CreateSession
  <2>3. given'[t].email = ask[c].email /\ given'[t].password = ask[c].password
    BY <2>2
  <2>5. given'[t] # None
    BY <2>1, <2>2 DEF PublicRequest, Login
  <2>4. \A u : u = ask[c].email => EntitledTo(t, u)'
    BY <1>4, <2>1, <2>2, <2>3, <2>5 DEF CreateSession, EntitledTo, PublicRequest
  <2> QED
    BY <1>0, <2>2, <2>4
<1>5. ASSUME NEW c \in Connection, GetSession(c) PROVE Issued'
  BY <1>0, <1>5 DEF GetSession, GoesOn, Ends, SessionsOf
<1>6. ASSUME NEW c \in Connection, Authenticated(c) PROVE Issued'
  BY <1>0, <1>6 DEF Authenticated, GoesOn
<1>7. ASSUME NEW c \in Connection, Expired(c) PROVE Issued'
  BY <1>0, <1>7 DEF Expired, Ends, SessionsOf
<1>8. ASSUME NEW c \in Connection, Create(c) PROVE Issued'
  BY <1>0, <1>8 DEF Create, Asks, Served, Ends, User
<1>9. ASSUME NEW c \in Connection, Update(c) PROVE Issued'
  BY <1>0, <1>9 DEF Update, Asks, Served, Ends, Target, User
<1>10. ASSUME NEW c \in Connection, Delete(c) PROVE Issued'
  BY <1>0, <1>10 DEF Delete, Asks, Served, Ends, Target, User
<1>11. ASSUME NEW c \in Connection, Read(c) PROVE Issued'
  BY <1>0, <1>11 DEF Read, Asks, Served, Ends, HoldingsOf, User
<1>12. ASSUME NEW c \in Connection, SetProfile(c) PROVE Issued'
  BY <1>0, <1>12 DEF SetProfile, Asks, Served, Ends, User
<1>13. ASSUME NEW c \in Connection, DeleteSession(c) PROVE Issued'
  BY <1>0, <1>13 DEF DeleteSession, Asks, Served, Ends, SessionsOf
<1>14. ASSUME NEW c \in Connection, Fail(c) PROVE Issued'
  BY <1>0, <1>14 DEF Fail, Ends
<1>15. ASSUME NEW c \in Connection, Receive(c) PROVE Issued'
  BY <1>0, <1>15 DEF Receive, Forget
<1>16. ASSUME NEW c \in Connection, Lose(c) PROVE Issued'
  BY <1>0, <1>16 DEF Lose, Forget
<1>17. CASE Tick
  BY <1>0, <1>17 DEF Tick
<1>18. CASE UNCHANGED vars
  BY <1>0, <1>18 DEF vars
<1> QED
  BY <1>0, <1>1, <1>2, <1>3, <1>4, <1>5, <1>6, <1>7, <1>8, <1>9, <1>10, <1>11,
     <1>12, <1>13, <1>14, <1>15, <1>16, <1>17, <1>18
     DEF Next, Handle

\* A token reaches a browser only by the answer to its login.
LEMMA TokensGivenStep ==
  ASSUME IndInv, TypeOK', [Next]_vars
  PROVE  TokensGiven'
<1> USE AccountsAssumption
    DEF IndInv, TypeOK, TokensGiven, Cookie, tables, request, history
<1>1. ASSUME NEW c \in Connection, NEW a \in Request, Send(c, a) PROVE TokensGiven'
  <2>1. CookieToken(c) # None => given[CookieToken(c)] # None
    BY DEF CookieToken
  <2> QED
    BY <1>1, <2>1 DEF Send
<1>2. ASSUME NEW c \in Connection, CreateUser(c) PROVE TokensGiven'
  BY <1>2 DEF CreateUser, Ends
<1>3. ASSUME NEW c \in Connection, GetUser(c) PROVE TokensGiven'
  BY <1>3 DEF GetUser, GoesOn, Ends
<1>4. ASSUME NEW c \in Connection, CreateSession(c) PROVE TokensGiven'
  <2>1. ask[c] \in PublicRequest
    BY <1>4 DEF CreateSession, InHand
  <2>2. PICK t \in Token :
          /\ given' = [given EXCEPT ![t] = [email |-> ask[c].email,
                                            password |-> ask[c].password]]
          /\ token' = [token EXCEPT ![c] = t]
    BY <1>4 DEF CreateSession
  <2>3. given'[t] # None /\ t # None
    BY <2>1, <2>2 DEF PublicRequest, Login
  <2> QED
    BY <1>4, <2>2, <2>3 DEF CreateSession, Ends
<1>5. ASSUME NEW c \in Connection, GetSession(c) PROVE TokensGiven'
  BY <1>5 DEF GetSession, GoesOn, Ends, SessionsOf
<1>6. ASSUME NEW c \in Connection, Authenticated(c) PROVE TokensGiven'
  BY <1>6 DEF Authenticated, GoesOn
<1>7. ASSUME NEW c \in Connection, Expired(c) PROVE TokensGiven'
  BY <1>7 DEF Expired, Ends, SessionsOf
<1>8. ASSUME NEW c \in Connection, Create(c) PROVE TokensGiven'
  BY <1>8 DEF Create, Asks, Served, Ends, User
<1>9. ASSUME NEW c \in Connection, Update(c) PROVE TokensGiven'
  BY <1>9 DEF Update, Asks, Served, Ends, Target, User
<1>10. ASSUME NEW c \in Connection, Delete(c) PROVE TokensGiven'
  BY <1>10 DEF Delete, Asks, Served, Ends, Target, User
<1>11. ASSUME NEW c \in Connection, Read(c) PROVE TokensGiven'
  BY <1>11 DEF Read, Asks, Served, Ends, HoldingsOf, User
<1>12. ASSUME NEW c \in Connection, SetProfile(c) PROVE TokensGiven'
  BY <1>12 DEF SetProfile, Asks, Served, Ends, User
<1>13. ASSUME NEW c \in Connection, DeleteSession(c) PROVE TokensGiven'
  BY <1>13 DEF DeleteSession, Asks, Served, Ends, SessionsOf
<1>14. ASSUME NEW c \in Connection, Fail(c) PROVE TokensGiven'
  BY <1>14 DEF Fail, Ends
<1>15. ASSUME NEW c \in Connection, Receive(c) PROVE TokensGiven'
  BY <1>15 DEF Receive, Forget
<1>16. ASSUME NEW c \in Connection, Lose(c) PROVE TokensGiven'
  BY <1>16 DEF Lose, Forget
<1>17. CASE Tick
  BY <1>17 DEF Tick
<1>18. CASE UNCHANGED vars
  BY <1>18 DEF vars
<1> QED
  BY <1>1, <1>2, <1>3, <1>4, <1>5, <1>6, <1>7, <1>8, <1>9, <1>10, <1>11,
     <1>12, <1>13, <1>14, <1>15, <1>16, <1>17, <1>18
     DEF Next, Handle

\* A connection keeps the row it read while others write.
LEMMA InHandStep ==
  ASSUME IndInv, TypeOK', [Next]_vars
  PROVE  InHand'
<1> USE AccountsAssumption
    DEF IndInv, TypeOK, Issued, TokensGiven, InHand, User, SessionsOf,
        PublicRequest, Public, Request, HoldingsOf, tables, request, history
<1>0. \A t, u : EntitledTo(t, u) => EntitledTo(t, u)'
  BY EntitledStays
<1>1. ASSUME NEW c \in Connection, NEW a \in Request, Send(c, a) PROVE InHand'
  BY <1>0, <1>1 DEF Send, CookieToken
<1>2. ASSUME NEW c \in Connection, CreateUser(c) PROVE InHand'
  BY <1>0, <1>2 DEF CreateUser, Ends
<1>3. ASSUME NEW c \in Connection, GetUser(c) PROVE InHand'
  BY <1>0, <1>3 DEF GetUser, GoesOn, Ends
<1>4. ASSUME NEW c \in Connection, CreateSession(c) PROVE InHand'
  <2>1. \A d \in Connection : pc'[d] \in {"check", "serve"} => d # c /\ pc[d] = pc'[d]
    BY <1>4 DEF CreateSession, Ends
  <2> QED
    BY <1>0, <1>4, <2>1 DEF CreateSession, Ends
<1>5. ASSUME NEW c \in Connection, GetSession(c) PROVE InHand'
  BY <1>0, <1>5 DEF GetSession, GoesOn, Ends, SessionsOf
<1>6. ASSUME NEW c \in Connection, Authenticated(c) PROVE InHand'
  BY <1>0, <1>6 DEF Authenticated, GoesOn
<1>7. ASSUME NEW c \in Connection, Expired(c) PROVE InHand'
  BY <1>0, <1>7 DEF Expired, Ends, SessionsOf
<1>8. ASSUME NEW c \in Connection, Create(c) PROVE InHand'
  BY <1>0, <1>8 DEF Create, Asks, Served, Ends, User
<1>9. ASSUME NEW c \in Connection, Update(c) PROVE InHand'
  BY <1>0, <1>9 DEF Update, Asks, Served, Ends, Target, User
<1>10. ASSUME NEW c \in Connection, Delete(c) PROVE InHand'
  BY <1>0, <1>10 DEF Delete, Asks, Served, Ends, Target, User
<1>11. ASSUME NEW c \in Connection, Read(c) PROVE InHand'
  BY <1>0, <1>11 DEF Read, Asks, Served, Ends, HoldingsOf, User
<1>12. ASSUME NEW c \in Connection, SetProfile(c) PROVE InHand'
  BY <1>0, <1>12 DEF SetProfile, Asks, Served, Ends, User
<1>13. ASSUME NEW c \in Connection, DeleteSession(c) PROVE InHand'
  BY <1>0, <1>13 DEF DeleteSession, Asks, Served, Ends, SessionsOf
<1>14. ASSUME NEW c \in Connection, Fail(c) PROVE InHand'
  BY <1>0, <1>14 DEF Fail, Ends
<1>15. ASSUME NEW c \in Connection, Receive(c) PROVE InHand'
  BY <1>0, <1>15 DEF Receive, Forget
<1>16. ASSUME NEW c \in Connection, Lose(c) PROVE InHand'
  BY <1>0, <1>16 DEF Lose, Forget
<1>17. CASE Tick
  BY <1>0, <1>17 DEF Tick
<1>18. CASE UNCHANGED vars
  BY <1>0, <1>18 DEF vars
<1> QED
  BY <1>0, <1>1, <1>2, <1>3, <1>4, <1>5, <1>6, <1>7, <1>8, <1>9, <1>10, <1>11,
     <1>12, <1>13, <1>14, <1>15, <1>16, <1>17, <1>18
     DEF Next, Handle

\* A new session has a new token, and time goes on.
LEMMA NothingRevivesStep ==
  ASSUME IndInv, TypeOK', [Next]_vars
  PROVE  NothingRevives'
<1> USE AccountsAssumption
    DEF IndInv, TypeOK, Issued, TokensGiven, EntitledTo, InHand, NothingRevives,
        Live, SessionsOf, tables, request, history
<1>1. ASSUME NEW c \in Connection, NEW a \in Request, Send(c, a) PROVE NothingRevives'
  <2>1. dead'[c] = ~Live(token'[c])
    BY <1>1 DEF Send
  <2>2. ~Live(token'[c]) => \A s \in SessionsOf(token'[c]) : s.expires <= clock
    BY DEF Session
  <2>3. pc'[c] \in {"createUser", "getUser", "getSession"}
    BY <1>1 DEF Send
  <2>4. \A d \in Connection \ {c} :
          /\ pc'[d] = pc[d] /\ dead'[d] = dead[d]
          /\ token'[d] = token[d] /\ found'[d] = found[d]
    BY <1>1 DEF Send
  <2>5. UNCHANGED <<sessions, clock>>
    BY <1>1 DEF Send
  <2> QED
    BY <2>1, <2>2, <2>3, <2>4, <2>5
<1>2. ASSUME NEW c \in Connection, CreateUser(c) PROVE NothingRevives'
  BY <1>2 DEF CreateUser, Ends
<1>3. ASSUME NEW c \in Connection, GetUser(c) PROVE NothingRevives'
  BY <1>3 DEF GetUser, GoesOn, Ends
<1>4. ASSUME NEW c \in Connection, CreateSession(c) PROVE NothingRevives'
  BY <1>4 DEF CreateSession, Ends
<1>5. ASSUME NEW c \in Connection, GetSession(c) PROVE NothingRevives'
  BY <1>5 DEF GetSession, GoesOn, Ends, SessionsOf
<1>6. ASSUME NEW c \in Connection, Authenticated(c) PROVE NothingRevives'
  BY <1>6 DEF Authenticated, GoesOn, Session
<1>7. ASSUME NEW c \in Connection, Expired(c) PROVE NothingRevives'
  BY <1>7 DEF Expired, Ends, SessionsOf
<1>8. ASSUME NEW c \in Connection, Create(c) PROVE NothingRevives'
  BY <1>8 DEF Create, Asks, Served, Ends, User
<1>9. ASSUME NEW c \in Connection, Update(c) PROVE NothingRevives'
  BY <1>9 DEF Update, Asks, Served, Ends, Target, User
<1>10. ASSUME NEW c \in Connection, Delete(c) PROVE NothingRevives'
  BY <1>10 DEF Delete, Asks, Served, Ends, Target, User
<1>11. ASSUME NEW c \in Connection, Read(c) PROVE NothingRevives'
  BY <1>11 DEF Read, Asks, Served, Ends, HoldingsOf, User
<1>12. ASSUME NEW c \in Connection, SetProfile(c) PROVE NothingRevives'
  BY <1>12 DEF SetProfile, Asks, Served, Ends, User
<1>13. ASSUME NEW c \in Connection, DeleteSession(c) PROVE NothingRevives'
  BY <1>13 DEF DeleteSession, Asks, Served, Ends, SessionsOf
<1>14. ASSUME NEW c \in Connection, Fail(c) PROVE NothingRevives'
  BY <1>14 DEF Fail, Ends
<1>15. ASSUME NEW c \in Connection, Receive(c) PROVE NothingRevives'
  BY <1>15 DEF Receive, Forget
<1>16. ASSUME NEW c \in Connection, Lose(c) PROVE NothingRevives'
  BY <1>16 DEF Lose, Forget
<1>17. CASE Tick
  <2>1. \A s \in sessions : s.expires <= clock => s.expires <= clock'
    BY <1>17 DEF Tick, Session
  <2>2. \A c \in Connection :
          pc[c] = "check" /\ found[c].expires <= clock => found[c].expires <= clock'
    BY <1>17 DEF Tick, Session
  <2> QED
    BY <1>17, <2>1, <2>2 DEF Tick
<1>18. CASE UNCHANGED vars
  BY <1>18 DEF vars
<1> QED
  BY <1>1, <1>2, <1>3, <1>4, <1>5, <1>6, <1>7, <1>8, <1>9, <1>10, <1>11,
     <1>12, <1>13, <1>14, <1>15, <1>16, <1>17, <1>18
     DEF Next, Handle

\* Only Create adds a row, with a new id.
LEMMA IdsUsedStep ==
  ASSUME IndInv, TypeOK', [Next]_vars
  PROVE  IdsUsed'
<1> USE AccountsAssumption
    DEF IndInv, TypeOK, Issued, TokensGiven, EntitledTo, InHand, IdsUsed, tables,
        request, history
<1>1. ASSUME NEW c \in Connection, NEW a \in Request, Send(c, a) PROVE IdsUsed'
  BY <1>1 DEF Send, CookieToken
<1>2. ASSUME NEW c \in Connection, CreateUser(c) PROVE IdsUsed'
  BY <1>2 DEF CreateUser, Ends
<1>3. ASSUME NEW c \in Connection, GetUser(c) PROVE IdsUsed'
  BY <1>3 DEF GetUser, GoesOn, Ends
<1>4. ASSUME NEW c \in Connection, CreateSession(c) PROVE IdsUsed'
  BY <1>4 DEF CreateSession, Ends
<1>5. ASSUME NEW c \in Connection, GetSession(c) PROVE IdsUsed'
  BY <1>5 DEF GetSession, GoesOn, Ends, SessionsOf
<1>6. ASSUME NEW c \in Connection, Authenticated(c) PROVE IdsUsed'
  BY <1>6 DEF Authenticated, GoesOn
<1>7. ASSUME NEW c \in Connection, Expired(c) PROVE IdsUsed'
  BY <1>7 DEF Expired, Ends, SessionsOf
<1>8. ASSUME NEW c \in Connection, Create(c) PROVE IdsUsed'
  BY <1>8 DEF Create, Asks, Served, Ends, User
<1>9. ASSUME NEW c \in Connection, Update(c) PROVE IdsUsed'
  <2> DEFINE New(h) == [h EXCEPT !.content = ask[c].content]
  <2>1. \A h \in Target(c) : h \in holdings /\ New(h).id = h.id
    BY DEF Target, Holding
  <2>2. holdings' = (holdings \ Target(c)) \cup {New(h) : h \in Target(c)}
    BY <1>9 DEF Update
  <2> HIDE DEF New
  <2>3. used' = used
    BY <1>9 DEF Update
  <2>4. \A g \in holdings' : \E h \in holdings : h.id = g.id
    BY <2>1, <2>2
  <2> QED
    BY <2>3, <2>4
<1>10. ASSUME NEW c \in Connection, Delete(c) PROVE IdsUsed'
  BY <1>10 DEF Delete, Asks, Served, Ends, Target, User
<1>11. ASSUME NEW c \in Connection, Read(c) PROVE IdsUsed'
  BY <1>11 DEF Read, Asks, Served, Ends, HoldingsOf, User
<1>12. ASSUME NEW c \in Connection, SetProfile(c) PROVE IdsUsed'
  BY <1>12 DEF SetProfile, Asks, Served, Ends, User
<1>13. ASSUME NEW c \in Connection, DeleteSession(c) PROVE IdsUsed'
  BY <1>13 DEF DeleteSession, Asks, Served, Ends, SessionsOf
<1>14. ASSUME NEW c \in Connection, Fail(c) PROVE IdsUsed'
  BY <1>14 DEF Fail, Ends
<1>15. ASSUME NEW c \in Connection, Receive(c) PROVE IdsUsed'
  BY <1>15 DEF Receive, Forget
<1>16. ASSUME NEW c \in Connection, Lose(c) PROVE IdsUsed'
  BY <1>16 DEF Lose, Forget
<1>17. CASE Tick
  BY <1>17 DEF Tick
<1>18. CASE UNCHANGED vars
  BY <1>18 DEF vars
<1> QED
  BY <1>1, <1>2, <1>3, <1>4, <1>5, <1>6, <1>7, <1>8, <1>9, <1>10, <1>11,
     <1>12, <1>13, <1>14, <1>15, <1>16, <1>17, <1>18
     DEF Next, Handle

-----------------------------------------------------------------------------

\* The inductive invariant holds throughout.
THEOREM Inductive == Spec => []IndInv
<1>1. Init => IndInv
  BY AccountsAssumption
     DEF Init, IndInv, TypeOK, Issued, TokensGiven, InHand, NothingRevives, IdsUsed
<1>2. IndInv /\ [Next]_vars => IndInv'
  BY TypeStep, IssuedStep, TokensGivenStep, InHandStep, NothingRevivesStep, IdsUsedStep
     DEF IndInv
<1> QED
  BY <1>1, <1>2, PTL DEF Spec

\* Tables keep one row per key and each connection stays at one statement of one
\* request, whatever the requests that run beside it.
THEOREM TypeCorrect == Spec => []TypeOK
<1>1. IndInv => TypeOK
  BY DEF IndInv
<1> QED
  BY <1>1, Inductive, PTL

\* requireAuth hands the handler the user whose password was given for the token,
\* and a read answers with rows of that user only.
THEOREM OwnersServed == Spec => []ServedAsOwner
<1>1. IndInv => ServedAsOwner
  BY DEF IndInv, InHand, ServedAsOwner
<1> QED
  BY <1>1, Inductive, PTL

\* A request sent after the logout or the expiry of its session is never served.
THEOREM DeadRejected == Spec => []DeadSessionsRejected
<1>1. IndInv => DeadSessionsRejected
  BY DEF IndInv, NothingRevives, DeadSessionsRejected
<1> QED
  BY <1>1, Inductive, PTL

\* No session row is deleted but by its own logout or once it has expired.
THEOREM SessionsEnd == Spec => SessionsEndForCause
<1>1. ASSUME IndInv, [Next]_vars, NEW s \in sessions \ sessions'
      PROVE  \/ s.expires <= clock
             \/ \E c \in Connection : /\ Asks(c, "logout") /\ token[c] = s.token
                                      /\ EntitledTo(s.token, s.user)
  <2> USE <1>1
  <2>1. ASSUME NEW c \in Connection, Expired(c) PROVE s.expires <= clock
    <3>1. pc[c] = "check" /\ found[c].expires <= clock /\ s \in SessionsOf(token[c])
      BY <2>1 DEF Expired
    <3> QED
      BY <3>1 DEF IndInv, InHand
  <2>2. ASSUME NEW c \in Connection, DeleteSession(c)
        PROVE  Asks(c, "logout") /\ token[c] = s.token /\ EntitledTo(s.token, s.user)
    BY <2>2 DEF DeleteSession, SessionsOf, IndInv, Issued
  <2>3. ASSUME NEW c \in Connection, NEW a \in Request, Send(c, a) PROVE FALSE
    BY <2>3 DEF Send, tables
  <2>4. ASSUME NEW c \in Connection,
               \/ CreateUser(c) \/ GetUser(c) \/ CreateSession(c) \/ GetSession(c)
               \/ Authenticated(c) \/ Create(c) \/ Update(c) \/ Delete(c) \/ Read(c)
               \/ SetProfile(c) \/ Fail(c) \/ Receive(c) \/ Lose(c)
        PROVE  FALSE
    BY <2>4 DEF CreateUser, GetUser, CreateSession, GetSession, Authenticated, Create,
                Update, Delete, Read, SetProfile, Fail, Receive, Lose, Forget, tables
  <2>5. CASE Tick \/ UNCHANGED vars
    BY <2>5 DEF Tick, vars, tables
  <2> QED
    BY <2>1, <2>2, <2>3, <2>4, <2>5 DEF Next, Handle
<1>2. IndInv /\ [Next]_vars =>
        [\A s \in sessions \ sessions' :
           \/ s.expires <= clock
           \/ \E c \in Connection : /\ Asks(c, "logout") /\ token[c] = s.token
                                    /\ EntitledTo(s.token, s.user)]_vars
  BY <1>1
<1> QED
  BY <1>2, Inductive, PTL DEF Spec, SessionsEndForCause

\* A step that changes a user's holdings or profile is the statement of a request
\* that carries a token this user's password was given for.
LEMMA ChangeStep ==
  ASSUME IndInv, [Next]_vars, NEW u \in Email,
         HoldingsOf(u)' # HoldingsOf(u) \/ profiles'[u] # profiles[u]
  PROVE  \E c \in Connection : /\ pc[c] = "serve" /\ pc'[c] = "reply"
                               /\ EntitledTo(token[c], u) /\ ~dead[c]
<1> USE DEF HoldingsOf
<1>1. ASSUME NEW c \in Connection, pc[c] = "serve", pc'[c] = "reply", User(c) = u
      PROVE  EntitledTo(token[c], u) /\ ~dead[c]
  BY <1>1 DEF IndInv, InHand, NothingRevives
<1>2. ASSUME NEW c \in Connection, Create(c) \/ Update(c) \/ Delete(c) \/ SetProfile(c)
      PROVE  pc[c] = "serve" /\ pc'[c] = "reply"
  BY <1>2 DEF Create, Update, Delete, SetProfile, Asks, Served, Ends, IndInv, TypeOK
<1>3. ASSUME NEW c \in Connection, Create(c) PROVE User(c) = u
  BY <1>3 DEF Create, Served
<1>4. ASSUME NEW c \in Connection, Update(c) PROVE User(c) = u
  <2>1. \A h \in Target(c) : /\ h.user = User(c)
                             /\ [h EXCEPT !.content = ask[c].content].user = h.user
    BY DEF Target, IndInv, TypeOK, Holding
  <2> DEFINE New(h) == [h EXCEPT !.content = ask[c].content]
  <2>2. \A h \in Target(c) : h.user = User(c) /\ New(h).user = User(c)
    BY <2>1
  <2>3. holdings' = (holdings \ Target(c)) \cup {New(h) : h \in Target(c)}
    BY <1>4 DEF Update
  <2> HIDE DEF New
  <2>4. UNCHANGED profiles
    BY <1>4 DEF Update
  <2>5. User(c) # u => HoldingsOf(u)' = HoldingsOf(u)
    BY <2>2, <2>3
  <2> QED
    BY <2>4, <2>5
<1>5. ASSUME NEW c \in Connection, Delete(c) PROVE User(c) = u
  BY <1>5 DEF Delete, Target
<1>6. ASSUME NEW c \in Connection, SetProfile(c) PROVE User(c) = u
  BY <1>6 DEF SetProfile, IndInv, TypeOK
<1>7. ASSUME NEW c \in Connection, NEW a \in Request, Send(c, a) PROVE FALSE
  BY <1>7 DEF Send, tables
<1>8. ASSUME NEW c \in Connection,
             \/ CreateUser(c) \/ GetUser(c) \/ CreateSession(c) \/ GetSession(c)
             \/ Authenticated(c) \/ Expired(c) \/ Read(c) \/ DeleteSession(c)
             \/ Fail(c) \/ Receive(c) \/ Lose(c)
      PROVE  FALSE
  BY <1>8 DEF CreateUser, GetUser, CreateSession, GetSession, Authenticated, Expired,
              Read, DeleteSession, Fail, Receive, Lose, Forget, tables
<1>9. CASE Tick \/ UNCHANGED vars
  BY <1>9 DEF Tick, vars, tables
<1> QED
  BY <1>1, <1>2, <1>3, <1>4, <1>5, <1>6, <1>7, <1>8, <1>9 DEF Next, Handle

\* Holdings and profiles change only for their owner, with a session that was live.
THEOREM OwnersChange == Spec => OnlyOwnersChange
<1>1. IndInv /\ [Next]_vars =>
        [\A u \in Email :
           (HoldingsOf(u)' # HoldingsOf(u) \/ profiles'[u] # profiles[u]) =>
             \E c \in Connection : /\ pc[c] = "serve" /\ pc'[c] = "reply"
                                   /\ EntitledTo(token[c], u) /\ ~dead[c]]_vars
  BY ChangeStep
<1> QED
  BY <1>1, Inductive, PTL DEF Spec, OnlyOwnersChange
=============================================================================
