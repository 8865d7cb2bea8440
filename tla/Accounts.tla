------------------------------- MODULE Accounts ------------------------------
(***************************************************************************)
(* Users and what lets them in: passwords, login sessions, one-time tokens for *)
(* password resets and Telegram links, Google logins, and the panels of the    *)
(* team and of the administrators that switch users off.  A request is handled  *)
(* in steps by one of the API's threads (or a worker, for a Telegram update):   *)
(* what it reads, what it flushes under row locks, its commit.  The era of a    *)
(* user counts the commits that end its sessions.                             *)
(***************************************************************************)
EXTENDS Naturals, FiniteSets

CONSTANTS
    Thread, User, Founder,   \* the founder: the owner create-admin made
    Team,                    \* Founder's workspace members among the users
    Token, Telegram,         \* one-time tokens, Telegram identities
    NoUser, NoToken, NoTelegram,
    Traffic,                 \* sets of operations; a behaviour has the requests of one
    MaxEra                   \* bound: session-ending commits per user

Purpose == {"password_reset", "telegram"}
Role == {"USER", "ADMIN", "SUPER_ADMIN"}

ASSUME AccountsAssumption ==
    /\ Founder \in User /\ Team \subseteq User \ {Founder}
    /\ NoUser \notin User /\ NoToken \notin Token /\ NoTelegram \notin Telegram
    /\ MaxEra \in Nat

VARIABLES
    traffic,            \* the operations of this behaviour
    known, google,      \* registered users; those with a Google identity
    role, active, era,
    sessions,           \* [user, era read at login, late]
    tokenState, tokenUser, purpose,
    link, linkedBy,     \* Telegram identity of a user, and the token that linked it
    oauth,              \* a Google state is stored in Redis
    op, who, token, seen, sawEra, want, tid,   \* the request in each thread
    raced, old, lateLink, uses                 \* history

people == <<traffic, known, google, role, active, era, oauth>>
tokens == <<tokenState, tokenUser, purpose>>
links  == <<link, linkedBy>>
request == <<op, who, token, seen, sawEra, want, tid>>
history == <<raced, old, lateLink, uses>>
vars == <<people, sessions, tokens, links, request, history>>

\* What a request changes of a user ("same" and "keep" leave it), and whether it
\* ends the sessions.
Want == [role : Role \union {"same"}, active : {"keep", "on", "off"}, ends : BOOLEAN]
NoWant == [role |-> "same", active |-> "keep", ends |-> FALSE]
NewPassword == [NoWant EXCEPT !.ends = TRUE]

Init ==
    /\ traffic \in Traffic
    /\ known = {Founder} \union Team /\ google = {}
    /\ role = [u \in User |-> IF u = Founder THEN "SUPER_ADMIN" ELSE "USER"]
    /\ active = [u \in User |-> TRUE] /\ era = [u \in User |-> 0] /\ sessions = {}
    /\ tokenState = [t \in Token |-> "free"]
    /\ tokenUser = [t \in Token |-> NoUser] /\ purpose = [t \in Token |-> "telegram"]
    /\ link = [u \in User |-> NoTelegram] /\ linkedBy = [u \in User |-> NoToken]
    /\ oauth = FALSE
    /\ op = [q \in Thread |-> "idle"] /\ who = [q \in Thread |-> NoUser]
    /\ token = [q \in Thread |-> NoToken] /\ seen = [q \in Thread |-> {}]
    /\ sawEra = [q \in Thread |-> 0] /\ want = [q \in Thread |-> NoWant]
    /\ tid = [q \in Thread |-> NoTelegram]
    /\ raced = {} /\ old = {} /\ lateLink = {} /\ uses = [t \in Token |-> 0]

-----------------------------------------------------------------------------
(* Requests and row locks. *)

Free(q, o) == op[q] = "idle" /\ o \in traffic

\* The thread takes up a request, with the rows it read.
Take(q, o, u, t, ts, w, g) ==
    /\ op' = [op EXCEPT ![q] = o] /\ who' = [who EXCEPT ![q] = u]
    /\ token' = [token EXCEPT ![q] = t] /\ seen' = [seen EXCEPT ![q] = ts]
    /\ sawEra' = [sawEra EXCEPT ![q] = IF u = NoUser THEN 0 ELSE era[u]]
    /\ want' = [want EXCEPT ![q] = w] /\ tid' = [tid EXCEPT ![q] = g]

Done(q) ==
    /\ op' = [op EXCEPT ![q] = "idle"] /\ who' = [who EXCEPT ![q] = NoUser]
    /\ token' = [token EXCEPT ![q] = NoToken] /\ seen' = [seen EXCEPT ![q] = {}]
    /\ sawEra' = [sawEra EXCEPT ![q] = 0] /\ want' = [want EXCEPT ![q] = NoWant]
    /\ tid' = [tid EXCEPT ![q] = NoTelegram]

\* current_user: an unexpired session of an active user.
SignedIn(u) == active[u] /\ \E s \in sessions : s.user = u

\* Bound on the changes of a user, up to the ones in flight.
Bounded(u) == era[u] < MaxEra

\* A flushed change holds the user's row; update_user locks it on reading.
UserLocked(u) == \E q \in Thread : who[q] = u /\ op[q] \in {"flushed", "admin"}
\* Mutant: the token is read without FOR UPDATE.
TokenUnlocked(t) == FALSE

\* consume_token: SELECT ... FOR UPDATE, held to the commit.
TokenLocked(t) == \E q \in Thread : token[q] = t /\ op[q] # "unlink"

LiveTokens(u, p) ==
    {t \in Token : tokenState[t] = "live" /\ tokenUser[t] = u /\ purpose[t] = p}

-----------------------------------------------------------------------------
(* Logging in. *)

\* login, telegram_webapp_auth: the password, or the Telegram link, is checked.
Login(q, u) ==
    /\ Free(q, "login") /\ u \in known /\ active[u]
    /\ Take(q, "login", u, NoToken, {}, NoWant, NoTelegram)
    /\ UNCHANGED <<people, sessions, tokens, links, history>>

WebAppLogin(q, u) ==
    /\ Free(q, "webapp") /\ link[u] # NoTelegram /\ active[u]
    /\ Take(q, "login", u, NoToken, {}, NoWant, NoTelegram)
    /\ UNCHANGED <<people, sessions, tokens, links, history>>

\* A session made while a change of the user was flushed but not committed, or
\* after it, of a user read before it, is late.
Session(q) == [user |-> who[q], era |-> sawEra[q],
               late |-> \/ sawEra[q] # era[who[q]]
                        \/ \E r \in Thread : op[r] = "flushed" /\ who[r] = who[q]]

OpenSession(q) ==
    /\ op[q] = "login" /\ sessions' = sessions \union {Session(q)} /\ Done(q)
    /\ UNCHANGED <<people, tokens, links, history>>

Logout(s) ==
    /\ "login" \in traffic /\ s \in sessions /\ active[s.user]
    /\ sessions' = sessions \ {s}
    /\ UNCHANGED <<people, tokens, links, request, history>>

GoogleStart ==
    /\ "google" \in traffic /\ ~oauth /\ oauth' = TRUE
    /\ UNCHANGED <<traffic, known, google, role, active, era, sessions, tokens, links,
                   request, history>>

\* google_callback: the state is read, and deleted by another call.
GoogleRead(q) ==
    /\ Free(q, "google") /\ oauth
    /\ Take(q, "google", NoUser, NoToken, {}, NoWant, NoTelegram)
    /\ UNCHANGED <<people, sessions, tokens, links, history>>

GoogleFail(q) ==
    /\ op[q] = "google" /\ oauth' = FALSE /\ Done(q)
    /\ UNCHANGED <<traffic, known, google, role, active, era, sessions, tokens, links, history>>

\* The user of the Google identity, or of its e-mail, or a new one; an inactive
\* user is turned away only if the identity was linked before.
GoogleFind(q, u) ==
    /\ op[q] = "google" /\ oauth' = FALSE
    /\ u \in google => active[u]
    /\ Take(q, IF u \in known THEN "google_login" ELSE "google_register", u, NoToken, {},
            NoWant, NoTelegram)
    /\ UNCHANGED <<traffic, known, google, role, active, era, sessions, tokens, links, history>>

\* One commit with the session; a user registered meanwhile fails it.
GoogleCommit(q) ==
    /\ op[q] \in {"google_login", "google_register"}
    /\ IF op[q] = "google_register" /\ who[q] \in known
       THEN UNCHANGED <<known, google, sessions>>
       ELSE /\ known' = known \union {who[q]} /\ google' = google \union {who[q]}
            /\ sessions' = sessions \union {Session(q)}
    /\ Done(q)
    /\ UNCHANGED <<traffic, role, active, era, oauth, tokens, links, history>>

\* register: one commit, refused by the unique user name if the user is known.
Register(u) ==
    /\ "register" \in traffic /\ u \notin known /\ known' = known \union {u}
    /\ UNCHANGED <<traffic, google, role, active, era, oauth, sessions, tokens, links,
                   request, history>>

-----------------------------------------------------------------------------
(* One-time tokens. *)

\* Bound: every request for a token finds one.
TokenLeft == Cardinality({t \in Token : tokenState[t] = "free"})
             > Cardinality({q \in Thread : op[q] \in Purpose})

\* request-reset, manage reset-password, telegram_link, authorize: the live tokens
\* of the purpose are read.
Issue(q, u, p) ==
    /\ Free(q, p) /\ u \in known /\ TokenLeft
    /\ p = "telegram" => SignedIn(u)
    /\ Take(q, p, u, NoToken, LiveTokens(u, p), NoWant, NoTelegram)
    /\ UNCHANGED <<people, sessions, tokens, links, history>>

Void(ts) == [t \in Token |-> IF t \in ts /\ tokenState[t] = "live" THEN "void"
                             ELSE tokenState[t]]

\* Mutant: the tokens issued before stay valid.
CommitTokenOnly(q, t) ==
    /\ op[q] \in Purpose /\ tokenState[t] = "free"
    /\ tokenState' = [tokenState EXCEPT ![t] = "live"]
    /\ tokenUser' = [tokenUser EXCEPT ![t] = who[q]]
    /\ purpose' = [purpose EXCEPT ![t] = op[q]]
    /\ raced' = IF LiveTokens(who[q], op[q]) \subseteq seen[q] THEN raced ELSE raced \union {t}
    /\ Done(q)
    /\ UNCHANGED <<people, sessions, links, old, lateLink, uses>>

\* issue_token: the tokens read become consumed, the new one is added.
CommitToken(q, t) ==
    /\ op[q] \in Purpose /\ tokenState[t] = "free"
    /\ \A s \in seen[q] : ~TokenLocked(s)
    /\ tokenState' = [Void(seen[q]) EXCEPT ![t] = "live"]
    /\ tokenUser' = [tokenUser EXCEPT ![t] = who[q]]
    /\ purpose' = [purpose EXCEPT ![t] = op[q]]
    /\ raced' = IF LiveTokens(who[q], op[q]) \subseteq seen[q] THEN raced ELSE raced \union {t}
    /\ Done(q)
    /\ UNCHANGED <<people, sessions, links, old, lateLink, uses>>

Expire(t) ==
    /\ tokenState[t] = "live" /\ ~TokenLocked(t)
    /\ tokenState' = [tokenState EXCEPT ![t] = "void"]
    /\ UNCHANGED <<people, sessions, tokenUser, purpose, links, request, history>>

Consumable(t, p) == tokenState[t] = "live" /\ purpose[t] = p /\ ~TokenLocked(t)

\* reset-password asks nothing of the user but the token.
ResetPassword(q, t) ==
    /\ Free(q, "password_reset") /\ Consumable(t, "password_reset")
    /\ Bounded(tokenUser[t])
    /\ Take(q, "change", tokenUser[t], t, {}, NewPassword, NoTelegram)
    /\ UNCHANGED <<people, sessions, tokens, links, history>>

\* handle_update "/start": refused, and rolled back, when either side has a link.
StartLink(q, t, g) ==
    LET u == tokenUser[t] IN
    /\ Free(q, "telegram") /\ Consumable(t, "telegram")
    /\ active[u] /\ link[u] = NoTelegram /\ \A v \in User : link[v] # g
    /\ Take(q, "link", u, t, {}, NoWant, g)
    /\ UNCHANGED <<people, sessions, tokens, links, history>>

Use(t) == /\ tokenState' = [tokenState EXCEPT ![t] = "used"]
          /\ uses' = [uses EXCEPT ![t] = @ + 1]

\* The commit of the link; a link made meanwhile fails it, and the token stays.
CommitLink(q) ==
    /\ op[q] = "link" /\ Done(q)
    /\ IF link[who[q]] = NoTelegram /\ \A v \in User : link[v] # tid[q]
       THEN /\ link' = [link EXCEPT ![who[q]] = tid[q]]
            /\ linkedBy' = [linkedBy EXCEPT ![who[q]] = token[q]]
            /\ Use(token[q])
            /\ lateLink' = IF \E r \in Thread : op[r] = "unlink" /\ who[r] = who[q]
                           THEN lateLink \union {token[q]} ELSE lateLink
       ELSE UNCHANGED <<links, tokenState, uses, lateLink>>
    /\ UNCHANGED <<people, sessions, tokenUser, purpose, raced, old>>

\* telegram_unlink: the link and the pending tokens are read, then removed.
Unlink(q, u) ==
    /\ Free(q, "telegram") /\ SignedIn(u)
    /\ Take(q, "unlink", u, linkedBy[u], LiveTokens(u, "telegram"), NoWant, NoTelegram)
    /\ UNCHANGED <<people, sessions, tokens, links, history>>

\* Mutant: only the link is removed.
CommitUnlinkOnly(q) ==
    /\ op[q] = "unlink"
    /\ IF token[q] # NoToken /\ linkedBy[who[q]] = token[q]
       THEN /\ link' = [link EXCEPT ![who[q]] = NoTelegram]
            /\ linkedBy' = [linkedBy EXCEPT ![who[q]] = NoToken]
       ELSE UNCHANGED links
    /\ old' = old \union seen[q]
    /\ Done(q)
    /\ UNCHANGED <<people, sessions, tokens, raced, lateLink, uses>>

CommitUnlink(q) ==
    /\ op[q] = "unlink"
    /\ \A s \in seen[q] : ~TokenLocked(s)
    /\ IF token[q] # NoToken /\ linkedBy[who[q]] = token[q]
       THEN /\ link' = [link EXCEPT ![who[q]] = NoTelegram]
            /\ linkedBy' = [linkedBy EXCEPT ![who[q]] = NoToken]
       ELSE UNCHANGED links
    /\ tokenState' = Void(seen[q])
    /\ old' = old \union seen[q]
    /\ Done(q)
    /\ UNCHANGED <<people, sessions, tokenUser, purpose, raced, lateLink, uses>>

-----------------------------------------------------------------------------
(* Changes of a user, which end its sessions. *)

\* change_password verifies the current one.
ChangePassword(q, u) ==
    /\ Free(q, "change") /\ SignedIn(u) /\ Bounded(u)
    /\ Take(q, "change", u, NoToken, {}, NewPassword, NoTelegram)
    /\ UNCHANGED <<people, sessions, tokens, links, history>>

\* Mutant: peers may be demoted and disabled.
AdminUpdatePeer(q, a, u) ==
    /\ Free(q, "admin") /\ SignedIn(a) /\ role[a] = "SUPER_ADMIN"
    /\ ~UserLocked(u) /\ Bounded(u) /\ u # a
    /\ \E r \in Role, on \in {"on", "off"} :
          Take(q, "admin", u, NoToken, {}, [role |-> r, active |-> on, ends |-> TRUE],
               NoTelegram)
    /\ UNCHANGED <<people, sessions, tokens, links, history>>

\* update_user: never oneself, never another owner, with the row locked.
AdminUpdate(q, a, u) ==
    /\ Free(q, "admin") /\ SignedIn(a) /\ role[a] = "SUPER_ADMIN"
    /\ ~UserLocked(u) /\ Bounded(u) /\ u # a /\ role[u] # "SUPER_ADMIN"
    /\ \E r \in Role, on \in {"on", "off"} :
          Take(q, "admin", u, NoToken, {}, [role |-> r, active |-> on, ends |-> TRUE],
               NoTelegram)
    /\ UNCHANGED <<people, sessions, tokens, links, history>>

\* update_member: the owner of the workspace; an attribute that has its value
\* already is not written, but switching off or a password ends the sessions.
TeamUpdate(q, u) ==
    /\ Free(q, "team") /\ SignedIn(Founder) /\ u \in Team /\ Bounded(u)
    /\ \E on \in BOOLEAN, password \in BOOLEAN :
          Take(q, "team", u, NoToken, {},
               [role |-> "same", ends |-> password \/ ~on,
                active |-> IF active[u] = on THEN "keep" ELSE IF on THEN "on" ELSE "off"],
               NoTelegram)
    /\ UNCHANGED <<people, sessions, tokens, links, history>>

\* Mutant: the sessions stay.
FlushKeepsSessions(q) ==
    /\ op[q] \in {"change", "admin", "team"}
    /\ op[q] # "admin" => ~UserLocked(who[q])
    /\ UNCHANGED sessions
    /\ op' = [op EXCEPT ![q] = "flushed"]
    /\ UNCHANGED <<people, tokens, links, who, token, seen, sawEra, want, tid, history>>

\* The UPDATE of the user, which waits for its row, and the DELETE of its sessions.
Flush(q) ==
    /\ op[q] \in {"change", "admin", "team"}
    /\ op[q] # "admin" => ~UserLocked(who[q])
    /\ sessions' = IF want[q].ends THEN {s \in sessions : s.user # who[q]} ELSE sessions
    /\ op' = [op EXCEPT ![q] = "flushed"]
    /\ UNCHANGED <<people, tokens, links, who, token, seen, sawEra, want, tid, history>>

CommitChange(q) ==
    LET u == who[q] IN
    /\ op[q] = "flushed" /\ Done(q)
    /\ era' = IF want[q].ends THEN [era EXCEPT ![u] = @ + 1] ELSE era
    /\ role' = IF want[q].role = "same" THEN role ELSE [role EXCEPT ![u] = want[q].role]
    /\ active' = IF want[q].active = "keep" THEN active
                 ELSE [active EXCEPT ![u] = want[q].active = "on"]
    /\ IF token[q] = NoToken THEN UNCHANGED <<tokenState, uses>> ELSE Use(token[q])
    /\ UNCHANGED <<traffic, known, google, oauth, sessions, tokenUser, purpose, links,
                   raced, old, lateLink>>

-----------------------------------------------------------------------------
Begin(q) ==
    \/ GoogleRead(q)
    \/ \E u \in User :
          \/ Login(q, u) \/ WebAppLogin(q, u) \/ Unlink(q, u)
          \/ ChangePassword(q, u) \/ TeamUpdate(q, u)
          \/ \E a \in User : AdminUpdate(q, a, u)
          \/ \E p \in Purpose : Issue(q, u, p)
    \/ \E t \in Token :
          \/ ResetPassword(q, t)
          \/ \E g \in Telegram : StartLink(q, t, g)

Proceed(q) ==
    \/ OpenSession(q) \/ GoogleFail(q) \/ GoogleCommit(q)
    \/ \E u \in User : GoogleFind(q, u)
    \/ \E t \in Token : CommitToken(q, t)
    \/ CommitLink(q) \/ CommitUnlink(q) \/ Flush(q) \/ CommitChange(q)

Next ==
    \/ \E q \in Thread : Begin(q) \/ Proceed(q)
    \/ \E s \in sessions : Logout(s)
    \/ \E u \in User : Register(u)
    \/ \E t \in Token : Expire(t)
    \/ GoogleStart

Spec == Init /\ [][Next]_vars

-----------------------------------------------------------------------------
(* Properties. *)

\* A one-time token is used at most once, by however many requests and workers that
\* present it at the same time (security.consume_token).
UsedOnce == \A t \in Token : uses[t] <= 1

\* A user has one live token of a purpose; a second one is left only by two requests
\* for it that overlap, neither of which reads the other's (security.issue_token).
OneLiveToken ==
    \A u \in User, p \in Purpose : \A s, t \in LiveTokens(u, p) :
        s = t \/ s \in raced \/ t \in raced

\* No session survives a password change, a reset, an administrator's update or a
\* switch-off of its user, but one of a login that overlapped it.
SessionsEnd == \A s \in sessions : s.era = era[s.user] \/ s.late

\* After an unlink no pending token links the user again (telegram_unlink: "Invalidate
\* pending links as well as the existing association"), but in a link that overlapped it.
UnlinkHolds ==
    \A u \in User : link[u] # NoTelegram =>
        linkedBy[u] \notin old \/ linkedBy[u] \in lateLink

\* The owner create-admin made stays an active owner, whatever owners he promotes do
\* (update_user: "No administrator can demote or disable a peer owner via the web API").
FounderStays == role[Founder] = "SUPER_ADMIN" /\ active[Founder]
=============================================================================
