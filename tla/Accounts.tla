------------------------------- MODULE Accounts -------------------------------
(***************************************************************************)
(* One account: AuthService with its refresh session, the links it mails   *)
(* to reset a password or to verify an address, the queue of these mails,  *)
(* and the pages of the admin client, whose interceptor refreshes an       *)
(* expired access token.  The pages (tabs) of a browser share its          *)
(* localStorage, which holds the tokens; each has a store of its own,      *)
(* which is read from localStorage only when the page is loaded.           *)
(*                                                                         *)
(* The stored hash of a refresh token is that of its first 72 bytes, which *)
(* name the account only: it is modelled as a session that is there or not.*)
(* A request in flight may belong to a page that is still waiting for its  *)
(* answer.                                                                 *)
(***************************************************************************)
EXTENDS Naturals, FiniteSets

CONSTANTS
  Passwords,
  Links,     \* tokens of links, never used twice (bounds them)
  Requests,  \* identities for the requests in flight (bounds them)
  Browsers,
  Tabs,      \* the pages a browser may have open
  Retries,   \* tries of a mail job
  Absent

ASSUME AccountsAssumption ==
  /\ IsFiniteSet(Links)
  /\ IsFiniteSet(Requests)
  /\ Requests # {}
  /\ Retries \in Nat \ {0}
  /\ Absent \notin Passwords \cup Links \cup (Browsers \X Tabs)

VARIABLES
  registered,     \* the User row exists
  password,       \* User.passwordHash
  refreshHash,    \* User.refreshTokenHash is not null
  emailVerified,  \* User.emailVerified
  links,          \* the PasswordReset and EmailVerification rows by token
  mails,          \* the tries left of the mail job of a link
  inbox,          \* links that were delivered
  request,        \* the requests in flight
  storage,        \* the tokens in the localStorage of a browser
  page            \* what a page keeps in memory

accountVars == <<registered, password, refreshHash, emailVerified, links, mails, inbox, request, storage, page>>

Pages == Browsers \X Tabs
Browser(p) == p[1]

Kinds == {"reset", "verification"}

(* Row of a link: "spent" is used, or verified; an "expired" one is of no  *)
(* use, whether or not it is spent too.                                    *)
Link == [kind : Kinds, state : {"none", "open", "spent", "expired"}]

Request == [pc : {"idle", "save_session", "answer", "refused", "end_session", "ended", "change_password",
                  "spend_links", "create_link", "mail_link", "reset_password", "verify_email"},
            page : Pages \cup {Absent},
            kind : {"login", "refresh"} \cup Kinds,
            link : Links \cup {Absent},
            password : Passwords \cup {Absent}]

(* tokens: both tokens are there; fresh: the access token has not expired. *)
Storage == [tokens : BOOLEAN, fresh : BOOLEAN]

(* store: authSlice holds a token, the page shows a signed-in user;        *)
(* leaving: the browser was told to load the login page and has not yet.   *)
PageState == [store : BOOLEAN, leaving : BOOLEAN]

NoLink == [kind |-> "reset", state |-> "none"]
NoRequest == [pc |-> "idle", page |-> Absent, kind |-> "login", link |-> Absent, password |-> Absent]
Emptied == [tokens |-> FALSE, fresh |-> FALSE]

userVars == <<registered, password, refreshHash, emailVerified>>
mailVars == <<mails, inbox>>
clientVars == <<storage, page>>

-----------------------------------------------------------------------------
InState(k, s) == {l \in Links : links[l].kind = k /\ links[l].state = s}

Waits(c, pc) == request[c].pc = pc
Proceed(c, pc) == request' = [request EXCEPT ![c].pc = pc]
Start(c, r) == Waits(c, "idle") /\ request' = [request EXCEPT ![c] = r]
Done(c) == request' = [request EXCEPT ![c] = NoRequest]

(* What the answer of c does to the storage and the store of the page that *)
(* waits for it; Absent is a page that is gone.                            *)
Keep(c, tokens, what) ==
  LET p == request[c].page IN
  IF p = Absent THEN UNCHANGED clientVars
  ELSE storage' = [storage EXCEPT ![Browser(p)] = tokens] /\ page' = [page EXCEPT ![p] = what]

(* The page itself, as the answer of c finds it. *)
PageOf(c) == page[request[c].page]

-----------------------------------------------------------------------------
(* Mutations: bugs the runs must notice; none is part of the specification. *)

(* Only the links that have expired are spent. *)
SpendExpired(c) ==
  /\ Waits(c, "spend_links")
  /\ links' = [l \in Links |-> IF l \in InState(request[c].kind, "expired") THEN [links[l] EXCEPT !.state = "spent"] ELSE links[l]]
  /\ Proceed(c, "create_link")
  /\ UNCHANGED <<userVars, mailVars, clientVars>>

(* The tokens are cleared, the page is not left. *)
ClearTokens(c) ==
  /\ Waits(c, "refused")
  /\ Keep(c, Emptied, PageOf(c))
  /\ Done(c)
  /\ UNCHANGED <<userVars, links, mailVars>>

-----------------------------------------------------------------------------
(* Sessions. *)

(* register: the account, then at the same time the link that verifies the *)
(* address (v, which nobody waits for) and the session.                    *)
RegisterAccount(c, v, p, pw) ==
  /\ ~registered /\ c # v /\ Waits(c, "idle") /\ Waits(v, "idle")
  /\ ~page[p].store
  /\ registered' = TRUE
  /\ password' = pw
  /\ request' = [request EXCEPT
       ![c] = [NoRequest EXCEPT !.pc = "save_session", !.page = p],
       ![v] = [NoRequest EXCEPT !.pc = "create_link", !.kind = "verification"]]
  /\ UNCHANGED <<refreshHash, emailVerified, links, mailVars, clientVars>>

(* login: the password is compared with the row that was read. *)
Login(c, p, pw) ==
  /\ registered /\ password = pw
  /\ ~page[p].store
  /\ Start(c, [NoRequest EXCEPT !.pc = "save_session", !.page = p])
  /\ UNCHANGED <<userVars, links, mailVars, clientVars>>

(* A request of a page is answered 401, as the access token has expired or *)
(* another page removed it, or the page logs in with a wrong password: the *)
(* interceptor refreshes.  (Before there is an account no page has tokens  *)
(* to send or to lose.)                                                    *)
RefreshTokens(c, p) ==
  /\ registered
  /\ page[p].store => ~storage[Browser(p)].fresh
  /\ Start(c, [NoRequest EXCEPT !.pc = IF refreshHash /\ storage[Browser(p)].tokens THEN "save_session" ELSE "refused",
                                !.page = p, !.kind = "refresh"])
  /\ UNCHANGED <<userVars, links, mailVars, clientVars>>

SaveRefreshTokenHash(c) ==
  /\ Waits(c, "save_session")
  /\ refreshHash' = TRUE
  /\ Proceed(c, "answer")
  /\ UNCHANGED <<registered, password, emailVerified, links, mailVars, clientVars>>

(* A login sets tokens and store, a refresh the tokens only. *)
ReceiveTokens(c) ==
  /\ Waits(c, "answer")
  /\ Keep(c, [tokens |-> TRUE, fresh |-> TRUE],
          IF request[c].kind = "login" THEN [PageOf(c) EXCEPT !.store = TRUE] ELSE PageOf(c))
  /\ Done(c)
  /\ UNCHANGED <<userVars, links, mailVars>>

(* The refresh failed: the tokens are removed, for all pages of the        *)
(* browser, and this one is told to load the login page.                   *)
RefreshRefused(c) ==
  /\ Waits(c, "refused")
  /\ Keep(c, Emptied, [PageOf(c) EXCEPT !.leaving = TRUE])
  /\ Done(c)
  /\ UNCHANGED <<userVars, links, mailVars>>

(* With an expired token it comes after a refresh. *)
Logout(c, p) ==
  /\ page[p].store /\ storage[Browser(p)].fresh
  /\ Start(c, [NoRequest EXCEPT !.pc = "end_session", !.page = p])
  /\ UNCHANGED <<userVars, links, mailVars, clientVars>>

EndSession(c) ==
  /\ Waits(c, "end_session")
  /\ refreshHash' = FALSE
  /\ Proceed(c, "ended")
  /\ UNCHANGED <<registered, password, emailVerified, links, mailVars, clientVars>>

(* useAuth, whatever came of it: this page shows no user any more, and no  *)
(* page of the browser has tokens.                                         *)
ClearAuth(c) ==
  /\ Waits(c, "ended")
  /\ Keep(c, Emptied, [PageOf(c) EXCEPT !.store = FALSE])
  /\ Done(c)
  /\ UNCHANGED <<userVars, links, mailVars>>

ChangePassword(c, p, old, new) ==
  /\ page[p].store /\ storage[Browser(p)].fresh /\ password = old
  /\ Start(c, [NoRequest EXCEPT !.pc = "change_password", !.password = new])
  /\ UNCHANGED <<userVars, links, mailVars, clientVars>>

WritePassword(c) ==
  /\ Waits(c, "change_password")
  /\ password' = request[c].password
  /\ refreshHash' = FALSE
  /\ Done(c)
  /\ UNCHANGED <<registered, emailVerified, links, mailVars, clientVars>>

-----------------------------------------------------------------------------
(* Links. *)

ForgotPassword(c) ==
  /\ registered
  /\ Start(c, [NoRequest EXCEPT !.pc = "spend_links", !.kind = "reset"])
  /\ UNCHANGED <<userVars, links, mailVars, clientVars>>

ResendVerification(c) ==
  /\ registered /\ ~emailVerified
  /\ Start(c, [NoRequest EXCEPT !.pc = "spend_links", !.kind = "verification"])
  /\ UNCHANGED <<userVars, links, mailVars, clientVars>>

SpendLinks(c) ==
  LET k == request[c].kind IN
  /\ Waits(c, "spend_links")
  /\ links' = [l \in Links |-> IF l \in InState(k, "open") THEN [links[l] EXCEPT !.state = "spent"] ELSE links[l]]
  /\ Proceed(c, "create_link")
  /\ UNCHANGED <<userVars, mailVars, clientVars>>

CreateLink(c) ==
  /\ Waits(c, "create_link")
  /\ \E l \in Links :
       /\ links[l].state = "none"
       /\ links' = [links EXCEPT ![l] = [kind |-> request[c].kind, state |-> "open"]]
       /\ request' = [request EXCEPT ![c].pc = "mail_link", ![c].link = l]
  /\ UNCHANGED <<userVars, mailVars, clientVars>>

(* The job is queued, or Redis is away, which is logged only. *)
QueueMail(c) ==
  /\ Waits(c, "mail_link")
  /\ mails' \in {mails, [mails EXCEPT ![request[c].link] = Retries]}
  /\ Done(c)
  /\ UNCHANGED <<userVars, links, inbox, clientVars>>

(* The worker sends the mail or fails; a job whose worker stalls after it  *)
(* sent is tried again.                                                    *)
ProcessMail(l) ==
  /\ mails[l] > 0
  /\ \/ mails' = [mails EXCEPT ![l] = 0] /\ inbox' = inbox \cup {l}
     \/ mails' = [mails EXCEPT ![l] = @ - 1] /\ inbox' \in {inbox, inbox \cup {l}}
  /\ UNCHANGED <<userVars, links, request, clientVars>>

Valid(l, k) == l \in inbox /\ l \in InState(k, "open")

ResetPassword(c, l, new) ==
  /\ Valid(l, "reset")
  /\ Start(c, [NoRequest EXCEPT !.pc = "reset_password", !.link = l, !.password = new])
  /\ UNCHANGED <<userVars, links, mailVars, clientVars>>

(* The transaction. *)
WriteReset(c) ==
  /\ Waits(c, "reset_password")
  /\ password' = request[c].password
  /\ refreshHash' = FALSE
  /\ links' = [links EXCEPT ![request[c].link].state = "spent"]
  /\ Done(c)
  /\ UNCHANGED <<registered, emailVerified, mailVars, clientVars>>

VerifyEmail(c, l) ==
  /\ Valid(l, "verification")
  /\ Start(c, [NoRequest EXCEPT !.pc = "verify_email", !.link = l])
  /\ UNCHANGED <<userVars, links, mailVars, clientVars>>

WriteVerified(c) ==
  /\ Waits(c, "verify_email")
  /\ emailVerified' = TRUE
  /\ links' = [links EXCEPT ![request[c].link].state = "spent"]
  /\ Done(c)
  /\ UNCHANGED <<registered, password, refreshHash, mailVars, clientVars>>

-----------------------------------------------------------------------------
(* A request fails on its way, at the server or on its way back: a logout  *)
(* clears the page all the same, a refresh is taken for refused.           *)
RequestFails(c) ==
  LET r == request[c] IN
  /\ r.pc \notin {"idle", "refused", "ended"}
  /\ IF r.page = Absent \/ (r.kind = "login" /\ r.pc # "end_session")
       THEN Done(c)
       ELSE Proceed(c, IF r.kind = "refresh" THEN "refused" ELSE "ended")
  /\ UNCHANGED <<userVars, links, mailVars, clientVars>>

LinkExpires(l) ==
  /\ links[l].state = "open"
  /\ links' = [links EXCEPT ![l].state = "expired"]
  /\ UNCHANGED <<userVars, mailVars, request, clientVars>>

AccessTokenExpires(b) ==
  /\ storage[b].fresh
  /\ storage' = [storage EXCEPT ![b].fresh = FALSE]
  /\ UNCHANGED <<userVars, links, mailVars, request, page>>

(* The browser loads a page, after it was told to or as the user does. *)
Reload(p) ==
  /\ page' = [page EXCEPT ![p] = [store |-> storage[Browser(p)].tokens, leaving |-> FALSE]]
  /\ request' = [c \in Requests |-> IF request[c].page = p THEN [request[c] EXCEPT !.page = Absent] ELSE request[c]]
  /\ UNCHANGED <<userVars, links, mailVars, storage>>

AccountsNext ==
  \/ \E c \in Requests :
       \/ \E v \in Requests, p \in Pages, pw \in Passwords : RegisterAccount(c, v, p, pw)
       \/ \E p \in Pages, pw \in Passwords : Login(c, p, pw)
       \/ \E p \in Pages : RefreshTokens(c, p) \/ Logout(c, p)
       \/ \E p \in Pages, old, new \in Passwords : ChangePassword(c, p, old, new)
       \/ \E l \in Links, new \in Passwords : ResetPassword(c, l, new)
       \/ \E l \in Links : VerifyEmail(c, l)
       \/ ForgotPassword(c) \/ ResendVerification(c)
       \/ SaveRefreshTokenHash(c) \/ ReceiveTokens(c) \/ RefreshRefused(c)
       \/ EndSession(c) \/ ClearAuth(c) \/ WritePassword(c)
       \/ SpendLinks(c) \/ CreateLink(c) \/ QueueMail(c) \/ WriteReset(c) \/ WriteVerified(c)
       \/ RequestFails(c)
  \/ \E l \in Links : ProcessMail(l) \/ LinkExpires(l)
  \/ \E b \in Browsers : AccessTokenExpires(b)
  \/ \E p \in Pages : Reload(p)

AccountsInit ==
  /\ registered = FALSE
  /\ password \in Passwords
  /\ refreshHash = FALSE
  /\ emailVerified = FALSE
  /\ links = [l \in Links |-> NoLink]
  /\ mails = [l \in Links |-> 0]
  /\ inbox = {}
  /\ request = [c \in Requests |-> NoRequest]
  /\ storage = [b \in Browsers |-> Emptied]
  /\ page = [p \in Pages |-> [store |-> FALSE, leaving |-> FALSE]]

AccountsSpec == AccountsInit /\ [][AccountsNext]_accountVars

-----------------------------------------------------------------------------
(* Properties.                                                             *)

(* Type invariant; a request about a link or a password has one. *)
AccountsTypeOK ==
  /\ registered \in BOOLEAN
  /\ password \in Passwords
  /\ refreshHash \in BOOLEAN
  /\ emailVerified \in BOOLEAN
  /\ links \in [Links -> Link]
  /\ mails \in [Links -> 0..Retries]
  /\ inbox \subseteq Links
  /\ request \in [Requests -> Request]
  /\ storage \in [Browsers -> Storage]
  /\ page \in [Pages -> PageState]
  /\ \A c \in Requests :
       /\ request[c].pc \in {"spend_links", "create_link"} => request[c].kind \in Kinds
       /\ request[c].pc \in {"mail_link", "reset_password", "verify_email"} => request[c].link \in Links
       /\ request[c].pc \in {"change_password", "reset_password"} => request[c].password \in Passwords

CreatingLink(k) == {c \in Requests : Waits(c, "create_link") /\ request[c].kind = k}

(* forgotPassword and resendVerification spend the open links and insert   *)
(* the new one in another call: there are never more open links of a kind  *)
(* than requests overlap, so that without overlap only the latest counts.  *)
LinksBounded ==
  \A k \in Kinds :
    Cardinality(InState(k, "open")) + Cardinality(CreatingLink(k)) <= Cardinality(Requests)

(* A link that is queued or was delivered is stored, although mails are    *)
(* sent by another process and tried again.                                *)
MailedLinksStored ==
  /\ \A l \in Links : mails[l] > 0 => links[l].state # "none"
  /\ \A l \in inbox : links[l].state # "none"

(* A page that shows a signed-in user, and is not about to be left, has    *)
(* tokens to send, however refreshes, logouts and their failures overlap,  *)
(* unless another page of its browser signed out or is on its way to the   *)
(* login page: the interceptor removes the tokens but not the store, and   *)
(* relies on the login page being loaded; no page hears of what another    *)
(* does.  So a browser with one page never shows a user without tokens.    *)
SignedInHasTokens ==
  \A p \in Pages :
    page[p].store /\ ~page[p].leaving /\ ~storage[Browser(p)].tokens
      => \E q \in Pages \ {p} : Browser(q) = Browser(p) /\ (~page[q].store \/ page[q].leaving)
===============================================================================
