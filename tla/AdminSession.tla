---------------------------- MODULE AdminSession ----------------------------
(***************************************************************************)
(* The session of one tab of the admin pages.  The dashboard knows it by a *)
(* cookie that scripts cannot read; the tab knows it by the profile it was *)
(* last given and keeps in local storage.  Requests carry the cookie of    *)
(* the moment they are sent, and their answers are taken as they come.     *)
(***************************************************************************)
EXTENDS Naturals

CONSTANTS
  User,    \* who may log in
  NoUser,
  Timeout  \* hours a token is good for

\* The dashboard's default is a single hour.
SessionAssumption == Timeout \in Nat \ {0} /\ NoUser \notin User

VARIABLES
  cookie,    \* the user of the cookie nz-jwt
  age,       \* ticks of the clock since its token was issued
  readable,  \* document.cookie is not empty: another cookie, of custom code
  since,     \* ticks since lastestRefreshTokenAt; Long when longer ago, or never
  refresh,   \* refresh-token requests under way: their user
  profile,   \* the profile of the store
  path,      \* "login" or "pages"
  call,      \* profile requests: of the first rendering, of a login, of the profile page
  crossed    \* history: the cookie changed its user while a request was under way, or
             \* elsewhere, or the profile of a login was not given

vars == <<cookie, age, readable, since, refresh, profile, path, call, crossed>>

Caller == {"mount", "login", "page"}
NoCall == [at |-> "no", user |-> NoUser]
Quiet  == refresh = NoUser /\ \A c \in Caller : call[c].at = "no"

Long == 2

Token(u) == cookie' = u /\ age' = 0

Init ==
  /\ cookie \in User \union {NoUser} /\ age = 0
  /\ readable \in BOOLEAN /\ since = Long /\ refresh = NoUser
  /\ profile \in {NoUser, cookie}
  /\ path = (IF profile = NoUser THEN "login" ELSE "pages")
  /\ call = [c \in Caller |-> IF c = "mount" THEN [at |-> "profile", user |-> cookie] ELSE NoCall]
  /\ crossed = FALSE

-----------------------------------------------------------------------------
(* api.ts *)

\* What every successful answer does: a request to refresh the token, if scripts see
\* a cookie and the last one is more than an hour ago; after one tick it may be.
Fetched ==
  \/ /\ readable /\ since > 0 /\ refresh = NoUser
     /\ since' = 0 /\ refresh' = cookie
  \/ /\ ~(readable /\ since > 1) \/ refresh # NoUser
     /\ UNCHANGED <<since, refresh>>

\* The pages ask for their data.
UsePages ==
  /\ path = "pages" /\ cookie # NoUser
  /\ Fetched
  /\ UNCHANGED <<cookie, age, readable, profile, path, call, crossed>>

\* Set-Cookie of the answer, for the user the request was sent with.
Refreshed ==
  /\ refresh # NoUser
  /\ crossed' = (crossed \/ refresh # cookie)
  /\ Token(refresh)
  /\ refresh' = NoUser
  /\ UNCHANGED <<readable, since, profile, path, call>>

RefreshLost ==
  /\ refresh # NoUser /\ refresh' = NoUser
  /\ UNCHANGED <<cookie, age, readable, since, profile, path, call, crossed>>

\* An hour.  The browser drops the cookie with its Max-Age.
Tick ==
  /\ cookie # NoUser
  /\ IF age + 1 = Timeout THEN cookie' = NoUser /\ age' = 0 ELSE age' = age + 1 /\ UNCHANGED cookie
  /\ since' = IF since < Long THEN since + 1 ELSE since
  /\ UNCHANGED <<readable, refresh, profile, path, call, crossed>>

-----------------------------------------------------------------------------
(* useAuth *)

\* Mutant of Show: the page stays.
ShowStaying(p) == profile' = p /\ UNCHANGED path

Show(p) == profile' = p /\ path' = IF p = NoUser THEN "login" ELSE path

\* The first rendering of a page, or of a page loaded again: what was under way is
\* dropped, the profile is that of the storage.
Reload ==
  /\ call' = [c \in Caller |-> IF c = "mount" THEN [at |-> "profile", user |-> cookie] ELSE NoCall]
  /\ since' = Long /\ refresh' = NoUser
  /\ crossed' = FALSE
  /\ UNCHANGED <<cookie, age, readable, profile, path>>

\* login: the request, its cookie, and the profile asked for with it.
LogIn(u) ==
  /\ path = "login" /\ call["login"].at = "no"
  /\ call' = [call EXCEPT !["login"] = [at |-> "login", user |-> u]]
  /\ UNCHANGED <<cookie, age, readable, since, refresh, profile, path, crossed>>

\* Mutant of LoginTaken: the profile is that of the store.
LoginTakenAtOnce ==
  /\ call["login"].at = "login"
  /\ Token(call["login"].user)
  /\ path' = IF profile = NoUser THEN path ELSE "pages"
  /\ call' = [call EXCEPT !["login"] = NoCall]
  /\ UNCHANGED <<readable, since, refresh, profile, crossed>>

LoginTaken ==
  /\ call["login"].at = "login"
  /\ Token(call["login"].user)
  /\ crossed' = (crossed \/ refresh \notin {NoUser, cookie'}
                  \/ \E c \in {"mount", "page"} : call[c].at # "no" /\ call[c].user # cookie')
  /\ call' = [call EXCEPT !["login"].at = "profile"]
  /\ UNCHANGED <<readable, since, refresh, profile, path>>

\* getProfile of whichever caller is answered: the profile of the user it was sent
\* for; the one of a login goes to the pages.
ProfileAnswered(c) ==
  /\ call[c].at = "profile" /\ call[c].user # NoUser
  /\ profile' = call[c].user
  /\ path' = IF c = "login" THEN "pages" ELSE path
  /\ call' = [call EXCEPT ![c] = NoCall]
  /\ IF cookie = NoUser THEN UNCHANGED <<since, refresh>> ELSE Fetched
  /\ UNCHANGED <<cookie, age, readable, crossed>>

\* It failed: the first rendering's forgets the profile, a login shows a message, the
\* profile page goes on with what it has.
ProfileFailed(c) ==
  /\ call[c].at # "no"
  /\ call' = [call EXCEPT ![c] = NoCall]
  /\ IF c = "mount" THEN Show(NoUser) ELSE UNCHANGED <<profile, path>>
  /\ crossed' = (crossed \/ (c = "login" /\ call[c].at = "profile"))
  /\ UNCHANGED <<cookie, age, readable, since, refresh>>

\* The profile page: after a change of the profile, a binding, or its removal.
AskProfile ==
  /\ path = "pages" /\ call["page"].at = "no" /\ cookie # NoUser
  /\ call' = [call EXCEPT !["page"] = [at |-> "profile", user |-> cookie]]
  /\ UNCHANGED <<cookie, age, readable, since, refresh, profile, path, crossed>>

\* logout: the cookies scripts can read are removed; the session's is none of them.
LogOut ==
  /\ path = "pages" /\ profile # NoUser
  /\ readable' = FALSE
  /\ Show(NoUser)
  /\ UNCHANGED <<cookie, age, since, refresh, call, crossed>>

\* ProtectedRoute lets through who has a profile; a link leads to the login page too.
Navigate(p) ==
  /\ p # path /\ (p = "pages" => profile # NoUser)
  /\ path' = p
  /\ UNCHANGED <<cookie, age, readable, since, refresh, profile, call, crossed>>

\* Another tab logs somebody in: the cookie is shared, the store of this tab is not.
OtherTab(u) ==
  /\ u # cookie
  /\ Token(u) /\ crossed' = TRUE
  /\ UNCHANGED <<readable, since, refresh, profile, path, call>>

Next ==
  \/ UsePages \/ Refreshed \/ RefreshLost \/ Tick \/ Reload \/ LoginTaken \/ AskProfile \/ LogOut
  \/ \E u \in User : LogIn(u) \/ OtherTab(u)
  \/ \E c \in Caller : ProfileAnswered(c) \/ ProfileFailed(c)
  \/ \E p \in {"login", "pages"} : Navigate(p)

Spec == Init /\ [][Next]_vars

-----------------------------------------------------------------------------
TypeOK ==
  /\ {cookie, refresh, profile} \subseteq User \union {NoUser}
  /\ age \in 0..Timeout - 1 /\ since \in 0..Long
  /\ path \in {"login", "pages"} /\ (path = "pages" => profile # NoUser)
  /\ call \in [Caller -> [at : {"no", "login", "profile"}, user : User \union {NoUser}]]
  /\ {readable, crossed} \subseteq BOOLEAN

\* Why they hold.  What is under way was sent with the cookie that is there; a profile
\* of somebody else is about to be replaced, by the login or the first rendering that
\* made it so.
SentWithTheCookie ==
  ~crossed /\ cookie # NoUser =>
    /\ refresh \in {NoUser, cookie}
    /\ \A c \in Caller : call[c].at = "profile" => call[c].user = cookie
    /\ \/ profile \in {NoUser, cookie}
       \/ \E c \in {"login", "mount"} : call[c].at = "profile"
CallsAreWhole ==
  /\ call["mount"].at # "login" /\ call["page"].at # "login"
  /\ call["login"].at # "no" => call["login"].user # NoUser

SessionIInv == TypeOK /\ CallsAreWhole /\ SentWithTheCookie

\* When nothing is under way, the pages are those of the user the dashboard takes
\* the requests for, unless the cookie changed its user while a request was under
\* way, in another tab, or by a login whose profile was not given.
ProfileIsOfTheCookie ==
  Quiet /\ ~crossed /\ cookie # NoUser => profile \in {NoUser, cookie}
=============================================================================
