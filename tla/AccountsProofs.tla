---------------------------- MODULE AccountsProofs ----------------------------
(***************************************************************************)
(* Proofs about Accounts for every set of threads, users and tokens, and every  *)
(* mix of requests.  The invariants need to know what a request in a thread     *)
(* holds between its read and its commit: a token that is still live and that   *)
(* no other request holds, a change that leaves the founder's role alone, the   *)
(* pending tokens an unlink read, and, once the change of a user is flushed,    *)
(* that all its sessions are late ones.                                         *)
(***************************************************************************)
EXTENDS Accounts, TLAPS

Ops == {"idle", "login", "google", "google_login", "google_register", "password_reset",
        "telegram", "change", "link", "unlink", "admin", "team", "flushed"}

Sessions == [user : User, era : Nat, late : BOOLEAN]

\* The values of the variables.
PeopleTypes ==
    /\ known \subseteq User /\ google \subseteq User
    /\ role \in [User -> Role] /\ active \in [User -> BOOLEAN] /\ era \in [User -> Nat]
    /\ sessions \subseteq Sessions

TokenTypes ==
    /\ tokenState \in [Token -> {"free", "live", "void", "used"}]
    /\ tokenUser \in [Token -> User \union {NoUser}] /\ purpose \in [Token -> Purpose]
    /\ link \in [User -> Telegram \union {NoTelegram}]
    /\ linkedBy \in [User -> Token \union {NoToken}]
    /\ raced \subseteq Token /\ old \subseteq Token /\ lateLink \subseteq Token
    /\ uses \in [Token -> Nat]

RequestTypes ==
    /\ op \in [Thread -> Ops] /\ who \in [Thread -> User \union {NoUser}]
    /\ token \in [Thread -> Token \union {NoToken}] /\ seen \in [Thread -> SUBSET Token]
    /\ sawEra \in [Thread -> Nat] /\ want \in [Thread -> Want]
    /\ tid \in [Thread -> Telegram \union {NoTelegram}]

\* What a request is about.  A change of the founder leaves his role and switch alone.
Changing == {"change", "admin", "team", "flushed"}

RequestFits(q) ==
    /\ op[q] \notin {"idle", "google"} => who[q] \in User
    /\ op[q] = "link" => token[q] \in Token
    /\ op[q] \notin {"change", "flushed", "link", "unlink"} => token[q] = NoToken
    /\ op[q] \in Changing /\ who[q] = Founder =>
          want[q].role = "same" /\ want[q].active = "keep"

\* A request that presents a token holds it, alone, until it is done; an unlink only
\* names the one that made the link.
Holds(q, t) == token[q] = t /\ op[q] # "unlink"

TokenHeld(q, t) ==
    /\ tokenState[t] = "live"
    /\ purpose[t] = IF op[q] = "link" THEN "telegram" ELSE "password_reset"
    /\ op[q] = "link" => tokenUser[t] = who[q]
    /\ \A r \in Thread : Holds(r, t) => r = q

HeldTokens == \A q \in Thread, t \in Token : Holds(q, t) => TokenHeld(q, t)

UsesCounted == \A t \in Token :
    /\ uses[t] = IF tokenState[t] = "used" THEN 1 ELSE 0
    /\ tokenState[t] = "live" => tokenUser[t] \in User

\* The sessions of a user whose change is flushed overlap it.
FlushedAreLate == \A q \in Thread : op[q] = "flushed" /\ want[q].ends =>
    \A s \in sessions : s.user = who[q] => s.late

\* A token that an unlink has voided, or is about to, links nobody but in a link that
\* overlapped the unlink.
Cleared(t) == tokenState[t] = "used" => t \in lateLink

SeenByUnlink == \A q \in Thread : op[q] = "unlink" => \A t \in seen[q] :
    /\ tokenUser[t] = who[q] /\ purpose[t] = "telegram" /\ tokenState[t] # "free"
    /\ Cleared(t)

OldAreCleared == \A t \in old : tokenState[t] \in {"void", "used"} /\ Cleared(t)

LinksAreUsed == \A u \in User :
    /\ link[u] # NoTelegram => linkedBy[u] \in Token
    /\ linkedBy[u] # NoToken => tokenState[linkedBy[u]] = "used"

Types == PeopleTypes /\ TokenTypes /\ RequestTypes

AccountsInv ==
    /\ Types
    /\ \A q \in Thread : RequestFits(q)
    /\ HeldTokens /\ UsesCounted /\ OneLiveToken
    /\ SessionsEnd /\ FlushedAreLate
    /\ SeenByUnlink /\ OldAreCleared /\ LinksAreUsed
    /\ FounderStays

-----------------------------------------------------------------------------
(* Requests: a thread takes one up, or is done with it. *)

\* A thread whose request is not touched.
Same(r) == /\ op'[r] = op[r] /\ who'[r] = who[r] /\ token'[r] = token[r]
           /\ seen'[r] = seen[r] /\ want'[r] = want[r]

\* A request that is done is one to do nothing.
LEMMA DoneIsTake ==
    ASSUME NEW q \in Thread, Done(q)
    PROVE  Take(q, "idle", NoUser, NoToken, {}, NoWant, NoTelegram)
  BY DEF Done, Take

LEMMA NoWants == NoWant \in Want /\ NewPassword \in Want
  BY DEF NoWant, NewPassword, Want, Role

LEMMA Moves ==
    ASSUME Types, NEW q \in Thread, NEW o \in Ops, NEW u \in User \union {NoUser},
           NEW t \in Token \union {NoToken}, NEW ts \in SUBSET Token, NEW w \in Want,
           NEW g \in Telegram \union {NoTelegram}, Take(q, o, u, t, ts, w, g)
    PROVE  /\ RequestTypes'
           /\ op'[q] = o /\ who'[q] = u /\ token'[q] = t /\ seen'[q] = ts /\ want'[q] = w
           /\ \A r \in Thread \ {q} : Same(r)
  <1>1. RequestTypes /\ era \in [User -> Nat]
    BY DEF Types, PeopleTypes
  <1>2. (IF u = NoUser THEN 0 ELSE era[u]) \in Nat
    BY <1>1
  <1>3. RequestTypes'
    BY <1>1, <1>2 DEF Take, RequestTypes
  <1>4. op'[q] = o /\ who'[q] = u /\ token'[q] = t /\ seen'[q] = ts /\ want'[q] = w
    BY <1>1 DEF Take, RequestTypes
  <1>5. \A r \in Thread \ {q} : Same(r)
    BY <1>1 DEF Take, RequestTypes, Same
  <1> QED
    BY <1>3, <1>4, <1>5

LEMMA Finishes ==
    ASSUME Types, NEW q \in Thread, Done(q)
    PROVE  /\ RequestTypes'
           /\ op'[q] = "idle" /\ token'[q] = NoToken
           /\ \A r \in Thread \ {q} : Same(r)
  BY DoneIsTake, NoWants, Moves DEF Ops

\* What a request is about: that of the others stands.
LEMMA FitsKept ==
    ASSUME AccountsInv, NEW q \in Thread, \A r \in Thread \ {q} : Same(r), RequestFits(q)'
    PROVE  \A r \in Thread : RequestFits(r)'
  <1> SUFFICES ASSUME NEW r \in Thread PROVE RequestFits(r)'
    OBVIOUS
  <1>1. CASE r = q
    BY <1>1
  <1>2. CASE r # q
    BY <1>2 DEF AccountsInv, RequestFits, Same
  <1> QED
    BY <1>1, <1>2

\* The tokens that are held stay held if nobody touches those of the others.
LEMMA HeldKept ==
    ASSUME AccountsInv, NEW q \in Thread, \A r \in Thread \ {q} : Same(r),
           \A r \in Thread \ {q}, t \in Token : Holds(r, t) =>
              tokenState'[t] = tokenState[t] /\ tokenUser'[t] = tokenUser[t] /\ purpose'[t] = purpose[t],
           \A t \in Token : Holds(q, t)' =>
              /\ tokenState'[t] = "live"
              /\ purpose'[t] = IF op'[q] = "link" THEN "telegram" ELSE "password_reset"
              /\ op'[q] = "link" => tokenUser'[t] = who'[q]
              /\ \A r \in Thread \ {q} : ~Holds(r, t)
    PROVE  HeldTokens'
  <1>1. \A r \in Thread \ {q}, t \in Token : Holds(r, t)' <=> Holds(r, t)
    BY DEF Same, Holds
  <1>2. ASSUME NEW r \in Thread, NEW t \in Token, Holds(r, t)' PROVE TokenHeld(r, t)'
    <2>1. CASE r = q
      BY <1>1, <1>2, <2>1 DEF TokenHeld
    <2>2. CASE r # q
      <3>1. Holds(r, t) /\ TokenHeld(r, t) /\ Same(r)
        BY <1>1, <1>2, <2>2 DEF AccountsInv, HeldTokens
      <3>2. ~ Holds(q, t)'
        BY <2>2, <3>1
      <3>3. \A x \in Thread : Holds(x, t)' => x = r
        BY <1>1, <3>1, <3>2 DEF TokenHeld
      <3> QED
        BY <2>2, <3>1, <3>3 DEF TokenHeld, Same
    <2> QED
      BY <2>1, <2>2
  <1> QED
    BY <1>2 DEF HeldTokens

\* What an unlink read stays clear if tokens only move on, and those that are used meanwhile
\* are noted.
LEMMA SeenKept ==
    ASSUME AccountsInv, NEW q \in Thread, \A r \in Thread \ {q} : Same(r), RequestTypes',
           op'[q] = "unlink" => \A t \in seen'[q] :
              /\ tokenUser'[t] = who'[q] /\ purpose'[t] = "telegram" /\ tokenState'[t] # "free"
              /\ Cleared(t)',
           \A t \in Token : tokenState[t] # "free" =>
              tokenState'[t] # "free" /\ tokenUser'[t] = tokenUser[t] /\ purpose'[t] = purpose[t],
           lateLink \subseteq lateLink',
           \A r \in Thread \ {q} : op[r] = "unlink" => \A t \in seen[r] :
              tokenState'[t] = "used" => tokenState[t] = "used" \/ t \in lateLink'
    PROVE  SeenByUnlink'
  <1> SUFFICES ASSUME NEW r \in Thread, op'[r] = "unlink", NEW t \in seen'[r]
               PROVE  /\ tokenUser'[t] = who'[r] /\ purpose'[t] = "telegram"
                      /\ tokenState'[t] # "free" /\ Cleared(t)'
    BY DEF SeenByUnlink
  <1>1. CASE r = q
    BY <1>1
  <1>2. CASE r # q
    <2>1. Same(r) /\ op[r] = "unlink" /\ t \in seen[r] /\ t \in Token
      BY <1>2 DEF Same, RequestTypes
    <2>2. /\ tokenUser[t] = who[r] /\ purpose[t] = "telegram" /\ tokenState[t] # "free"
          /\ Cleared(t)
      BY <2>1 DEF AccountsInv, SeenByUnlink
    <2> QED
      BY <1>2, <2>1, <2>2 DEF Cleared, Same
  <1> QED
    BY <1>1, <1>2

\* The sessions of the users whose changes are flushed are late.
LEMMA LateKept ==
    ASSUME AccountsInv, NEW q \in Thread, \A r \in Thread \ {q} : Same(r), op'[q] # "flushed",
           \A s \in sessions' \ sessions : \A r \in Thread :
              op[r] = "flushed" /\ who[r] = s.user => s.late
    PROVE  FlushedAreLate'
  <1> SUFFICES ASSUME NEW r \in Thread, op'[r] = "flushed", want'[r].ends,
                      NEW s \in sessions', s.user = who'[r]
               PROVE  s.late
    BY DEF FlushedAreLate
  <1>1. r # q /\ Same(r)
    OBVIOUS
  <1>2. op[r] = "flushed" /\ want[r].ends /\ s.user = who[r]
    BY <1>1 DEF Same
  <1>3. CASE s \in sessions
    BY <1>2, <1>3 DEF AccountsInv, FlushedAreLate
  <1>4. CASE s \notin sessions
    BY <1>2, <1>4
  <1> QED
    BY <1>3, <1>4

\* What is left when tokens, links and users are: only the request of a thread changes.
LEMMA TokensRest ==
    ASSUME AccountsInv, UNCHANGED <<tokens, links, history>>
    PROVE  UsesCounted' /\ OneLiveToken' /\ OldAreCleared' /\ LinksAreUsed' /\ TokenTypes'
  BY DEF AccountsInv, UsesCounted, OneLiveToken, LiveTokens, OldAreCleared, Cleared, LinksAreUsed,
         Types, TokenTypes, tokens, links, history

\* A thread that takes up a request, or is done with it, with what it may add to the users
\* and sessions.
LEMMA RequestMoves ==
    ASSUME AccountsInv, NEW q \in Thread, NEW o \in Ops \ {"flushed"},
           NEW u \in User \union {NoUser}, NEW t \in Token \union {NoToken},
           NEW ts \in SUBSET Token, NEW w \in Want, NEW g \in Telegram \union {NoTelegram},
           Take(q, o, u, t, ts, w, g),
           UNCHANGED <<role, active, era, tokens, links, history>>,
           known' \subseteq User, google' \subseteq User, sessions' \subseteq Sessions,
           \A s \in sessions' \ sessions :
              /\ s.era = era[s.user] \/ s.late
              /\ \A r \in Thread : op[r] = "flushed" /\ who[r] = s.user => s.late,
           o \notin {"idle", "google"} => u \in User,
           o = "link" => t \in Token,
           o \notin {"change", "link", "unlink"} => t = NoToken,
           o \in Changing /\ u = Founder => w.role = "same" /\ w.active = "keep",
           t \in Token /\ o # "unlink" =>
              /\ tokenState[t] = "live" /\ ~TokenLocked(t)
              /\ purpose[t] = IF o = "link" THEN "telegram" ELSE "password_reset"
              /\ o = "link" => tokenUser[t] = u,
           o = "unlink" => ts \subseteq LiveTokens(u, "telegram")
    PROVE  AccountsInv'
  <1>1. Types
    BY DEF AccountsInv
  <1>2. /\ RequestTypes'
        /\ op'[q] = o /\ who'[q] = u /\ token'[q] = t /\ seen'[q] = ts /\ want'[q] = w
        /\ \A r \in Thread \ {q} : Same(r)
    BY <1>1, Moves
  <1>3. UNCHANGED <<tokens, links, history>> /\ UNCHANGED <<tokenState, tokenUser, purpose>>
        /\ UNCHANGED <<role, active, era>> /\ lateLink' = lateLink
    BY DEF tokens, history
  <1>4. TokenTypes /\ PeopleTypes'
    BY <1>1, <1>3 DEF Types, PeopleTypes
  <1>5. \A r \in Thread : RequestFits(r)'
    <2>1. RequestFits(q)'
      BY <1>2 DEF RequestFits
    <2> QED
      BY <1>2, <2>1, FitsKept
  <1>6. HeldTokens'
    <2>1. ASSUME NEW x \in Token, Holds(q, x)'
          PROVE  /\ tokenState'[x] = "live"
                 /\ purpose'[x] = IF op'[q] = "link" THEN "telegram" ELSE "password_reset"
                 /\ op'[q] = "link" => tokenUser'[x] = who'[q]
                 /\ \A r \in Thread \ {q} : ~Holds(r, x)
      BY <1>2, <1>3, <2>1 DEF Holds, TokenLocked
    <2> QED
      BY <1>2, <1>3, <2>1, HeldKept
  <1>7. FlushedAreLate'
    BY <1>2, LateKept
  <1>8. SeenByUnlink'
    <2>1. op'[q] = "unlink" => \A x \in seen'[q] :
              /\ tokenUser'[x] = who'[q] /\ purpose'[x] = "telegram" /\ tokenState'[x] # "free"
              /\ Cleared(x)'
      BY <1>2, <1>3 DEF LiveTokens, Cleared
    <2> QED
      BY <1>2, <1>3, <2>1, SeenKept
  <1>9. SessionsEnd'
    BY <1>3 DEF AccountsInv, SessionsEnd
  <1>10. FounderStays'
    BY <1>3 DEF AccountsInv, FounderStays
  <1> QED
    BY <1>2, <1>3, <1>4, <1>5, <1>6, <1>7, <1>8, <1>9, <1>10, TokensRest DEF AccountsInv, Types

-----------------------------------------------------------------------------
(* Logging in, and the requests taken up. *)

\* The session a thread makes is of its time, or late.
LEMMA NewSession ==
    ASSUME AccountsInv, NEW q \in Thread, who[q] \in User
    PROVE  /\ Session(q) \in Sessions
           /\ Session(q).era = era[Session(q).user] \/ Session(q).late
           /\ \A r \in Thread : op[r] = "flushed" /\ who[r] = Session(q).user => Session(q).late
  <1>1. sawEra[q] \in Nat
    BY DEF AccountsInv, Types, RequestTypes
  <1>2. /\ Session(q).user = who[q] /\ Session(q).era = sawEra[q]
        /\ Session(q).late <=> \/ sawEra[q] # era[who[q]]
                               \/ \E r \in Thread : op[r] = "flushed" /\ who[r] = who[q]
    BY DEF Session
  <1>3. Session(q) \in Sessions
    BY <1>1 DEF Session, Sessions
  <1> QED
    BY <1>2, <1>3

\* A request taken up, with nothing else changed.
LEMMA Taken ==
    ASSUME AccountsInv, NEW q \in Thread, NEW o \in Ops \ {"flushed", "idle"},
           NEW u \in User \union {NoUser}, NEW t \in Token \union {NoToken},
           NEW ts \in SUBSET Token, NEW w \in Want, NEW g \in Telegram \union {NoTelegram},
           Take(q, o, u, t, ts, w, g),
           UNCHANGED <<people, sessions, tokens, links, history>>,
           o # "google" => u \in User,
           o = "link" => t \in Token,
           o \notin {"change", "link", "unlink"} => t = NoToken,
           o \in Changing /\ u = Founder => w.role = "same" /\ w.active = "keep",
           t \in Token /\ o # "unlink" =>
              /\ tokenState[t] = "live" /\ ~TokenLocked(t)
              /\ purpose[t] = IF o = "link" THEN "telegram" ELSE "password_reset"
              /\ o = "link" => tokenUser[t] = u,
           o = "unlink" => ts \subseteq LiveTokens(u, "telegram")
    PROVE  AccountsInv'
  <1>1. /\ UNCHANGED <<role, active, era, tokens, links, history>>
        /\ known' = known /\ google' = google /\ sessions' = sessions
    BY DEF people
  <1>2. known' \subseteq User /\ google' \subseteq User /\ sessions' \subseteq Sessions
    BY <1>1 DEF AccountsInv, Types, PeopleTypes
  <1> QED
    BY <1>1, <1>2, RequestMoves

LEMMA Logins ==
    ASSUME AccountsInv, NEW q \in Thread, NEW u \in User, Login(q, u) \/ WebAppLogin(q, u)
    PROVE  AccountsInv'
  <1>1. "login" \in Ops \ {"flushed", "idle"} /\ "login" \notin Changing
    BY DEF Ops, Changing
  <1>2. /\ Take(q, "login", u, NoToken, {}, NoWant, NoTelegram)
        /\ UNCHANGED <<people, sessions, tokens, links, history>>
    BY DEF Login, WebAppLogin
  <1> QED
    BY <1>1, <1>2, Taken, NoWants, AccountsAssumption

LEMMA Issues ==
    ASSUME AccountsInv, NEW q \in Thread, NEW u \in User, NEW p \in Purpose, Issue(q, u, p)
    PROVE  AccountsInv'
  <1>1. /\ LiveTokens(u, p) \in SUBSET Token /\ p \in Ops \ {"flushed", "idle"}
        /\ p \notin Changing /\ p \notin {"google", "change", "link", "unlink"}
    BY DEF LiveTokens, Ops, Purpose, Changing
  <1>2. /\ Take(q, p, u, NoToken, LiveTokens(u, p), NoWant, NoTelegram)
        /\ UNCHANGED <<people, sessions, tokens, links, history>>
    BY DEF Issue
  <1> QED
    BY <1>1, <1>2, Taken, NoWants, AccountsAssumption

LEMMA Unlinks ==
    ASSUME AccountsInv, NEW q \in Thread, NEW u \in User, Unlink(q, u) PROVE AccountsInv'
  <1>1. LiveTokens(u, "telegram") \in SUBSET Token /\ "unlink" \in Ops \ {"flushed", "idle"}
        /\ linkedBy[u] \in Token \union {NoToken}
    BY DEF LiveTokens, Ops, AccountsInv, Types, TokenTypes
  <1> QED
    BY <1>1, Taken, NoWants DEF Unlink, Changing

LEMMA PasswordChanges ==
    ASSUME AccountsInv, NEW q \in Thread, NEW u \in User, ChangePassword(q, u) PROVE AccountsInv'
  BY Taken, NoWants, AccountsAssumption DEF ChangePassword, Ops, NewPassword, NoWant

LEMMA Resets ==
    ASSUME AccountsInv, NEW q \in Thread, NEW t \in Token, ResetPassword(q, t) PROVE AccountsInv'
  <1>1. tokenState[t] = "live" /\ purpose[t] = "password_reset" /\ ~TokenLocked(t)
    BY DEF ResetPassword, Consumable
  <1>2. tokenUser[t] \in User
    BY <1>1 DEF AccountsInv, UsesCounted
  <1> QED
    BY <1>1, <1>2, Taken, NoWants DEF ResetPassword, Ops, NewPassword, NoWant

LEMMA LinkStarts ==
    ASSUME AccountsInv, NEW q \in Thread, NEW t \in Token, NEW g \in Telegram, StartLink(q, t, g)
    PROVE  AccountsInv'
  <1>1. tokenState[t] = "live" /\ purpose[t] = "telegram" /\ ~TokenLocked(t)
    BY DEF StartLink, Consumable
  <1>2. tokenUser[t] \in User
    BY <1>1 DEF AccountsInv, UsesCounted
  <1> QED
    BY <1>1, <1>2, Taken, NoWants DEF StartLink, Ops, Changing

\* No change takes the founder's role or switches him off.
LEMMA Updates ==
    ASSUME AccountsInv, NEW q \in Thread, NEW u \in User,
           (\E a \in User : AdminUpdate(q, a, u)) \/ TeamUpdate(q, u)
    PROVE  AccountsInv'
  <1>1. CASE \E a \in User : AdminUpdate(q, a, u)
    <2>1. PICK r \in Role, on \in {"on", "off"} :
             Take(q, "admin", u, NoToken, {}, [role |-> r, active |-> on, ends |-> TRUE], NoTelegram)
      BY <1>1 DEF AdminUpdate
    <2>2. [role |-> r, active |-> on, ends |-> TRUE] \in Want
      BY DEF Want
    <2>3. u # Founder
      BY <1>1 DEF AdminUpdate, AccountsInv, FounderStays
    <2>4. "admin" \in Ops \ {"flushed", "idle"} /\ UNCHANGED <<people, sessions, tokens, links, history>>
      BY <1>1 DEF AdminUpdate, Ops
    <2> QED
      BY <2>1, <2>2, <2>3, <2>4, Taken, AccountsAssumption
  <1>2. CASE TeamUpdate(q, u)
    <2>1. PICK on \in BOOLEAN, password \in BOOLEAN :
             Take(q, "team", u, NoToken, {},
                  [role |-> "same", ends |-> password \/ ~on,
                   active |-> IF active[u] = on THEN "keep" ELSE IF on THEN "on" ELSE "off"],
                  NoTelegram)
      BY <1>2 DEF TeamUpdate
    <2> DEFINE w == [role |-> "same", ends |-> password \/ ~on,
                     active |-> IF active[u] = on THEN "keep" ELSE IF on THEN "on" ELSE "off"]
    <2>2. w \in Want
      BY DEF Want, Role
    <2>3. u # Founder
      BY <1>2, AccountsAssumption DEF TeamUpdate
    <2>4. Take(q, "team", u, NoToken, {}, w, NoTelegram)
      BY <2>1
    <2>5. "team" \in Ops \ {"flushed", "idle"} /\ UNCHANGED <<people, sessions, tokens, links, history>>
      BY <1>2 DEF TeamUpdate, Ops
    <2> HIDE DEF w
    <2> QED
      BY <2>2, <2>3, <2>4, <2>5, Taken, AccountsAssumption
  <1> QED
    BY <1>1, <1>2

\* Steps that leave a session, or nothing, behind.
LEMMA GoogleSteps ==
    ASSUME AccountsInv, NEW q \in Thread,
           GoogleRead(q) \/ GoogleFail(q) \/ \E u \in User : GoogleFind(q, u)
    PROVE  AccountsInv'
  <1>1. /\ UNCHANGED <<role, active, era, tokens, links, history>>
        /\ known' = known /\ google' = google /\ sessions' = sessions
    BY DEF GoogleRead, GoogleFail, GoogleFind, people
  <1>2. known' \subseteq User /\ google' \subseteq User /\ sessions' \subseteq Sessions
    BY <1>1 DEF AccountsInv, Types, PeopleTypes
  <1>3. {"google", "idle", "google_login", "google_register"} \subseteq Ops \ {"flushed"}
    BY DEF Ops
  <1>4. CASE GoogleRead(q)
    <2>1. Take(q, "google", NoUser, NoToken, {}, NoWant, NoTelegram)
      BY <1>4 DEF GoogleRead
    <2> QED
      BY <1>1, <1>2, <1>3, <2>1, RequestMoves, NoWants, AccountsAssumption DEF Changing
  <1>5. CASE GoogleFail(q)
    <2>1. Take(q, "idle", NoUser, NoToken, {}, NoWant, NoTelegram)
      BY <1>5, DoneIsTake DEF GoogleFail
    <2> QED
      BY <1>1, <1>2, <1>3, <2>1, RequestMoves, NoWants, AccountsAssumption DEF Changing
  <1>6. ASSUME NEW u \in User, GoogleFind(q, u) PROVE AccountsInv'
    <2>1. PICK o \in {"google_login", "google_register"} :
             Take(q, o, u, NoToken, {}, NoWant, NoTelegram)
      BY <1>6 DEF GoogleFind
    <2> QED
      BY <1>1, <1>2, <1>3, <2>1, RequestMoves, NoWants, AccountsAssumption DEF Changing
  <1> QED
    BY <1>4, <1>5, <1>6

LEMMA SessionSteps ==
    ASSUME AccountsInv, NEW q \in Thread, OpenSession(q) \/ GoogleCommit(q) PROVE AccountsInv'
  <1>1. UNCHANGED <<role, active, era, tokens, links, history>>
    BY DEF OpenSession, GoogleCommit, people
  <1>2. op[q] \notin {"idle", "google"} /\ who[q] \in User
    BY DEF OpenSession, GoogleCommit, AccountsInv, RequestFits
  <1>3. known \subseteq User /\ google \subseteq User /\ sessions \subseteq Sessions
    BY DEF AccountsInv, Types, PeopleTypes
  <1>4. /\ sessions' \subseteq sessions \union {Session(q)}
        /\ known' \subseteq known \union {who[q]} /\ google' \subseteq google \union {who[q]}
    BY DEF OpenSession, GoogleCommit, people
  <1>5. Take(q, "idle", NoUser, NoToken, {}, NoWant, NoTelegram) /\ "idle" \in Ops \ {"flushed"}
    BY DoneIsTake DEF OpenSession, GoogleCommit, Ops
  <1>6. /\ known' \subseteq User /\ google' \subseteq User /\ sessions' \subseteq Sessions
        /\ \A s \in sessions' \ sessions :
              /\ s.era = era[s.user] \/ s.late
              /\ \A r \in Thread : op[r] = "flushed" /\ who[r] = s.user => s.late
    BY <1>2, <1>3, <1>4, NewSession
  <1> QED
    BY <1>1, <1>5, <1>6, RequestMoves, NoWants, AccountsAssumption DEF Changing

\* Steps of nobody's request.
LEMMA RequestsRest ==
    ASSUME AccountsInv, UNCHANGED request
    PROVE  RequestTypes' /\ \A q \in Thread : RequestFits(q)'
  BY DEF AccountsInv, Types, RequestTypes, RequestFits, request

LEMMA UsersCome ==
    ASSUME AccountsInv, UNCHANGED <<google, role, active, era, tokens, links, request, history>>,
           known' \subseteq User, sessions' \subseteq sessions
    PROVE  AccountsInv'
  <1>1. PeopleTypes' /\ SessionsEnd' /\ FounderStays'
    BY DEF AccountsInv, Types, PeopleTypes, SessionsEnd, FounderStays
  <1>2. FlushedAreLate'
    BY DEF AccountsInv, FlushedAreLate, request
  <1>3. HeldTokens' /\ SeenByUnlink'
    BY DEF AccountsInv, HeldTokens, TokenHeld, Holds, SeenByUnlink, Cleared, request, tokens, history
  <1> QED
    BY <1>1, <1>2, <1>3, RequestsRest, TokensRest DEF AccountsInv, Types

\* A token nobody holds expires.
LEMMA Expires == ASSUME AccountsInv, NEW t \in Token, Expire(t) PROVE AccountsInv'
  <1>1. /\ tokenState[t] = "live" /\ ~TokenLocked(t) /\ tokenState' = [tokenState EXCEPT ![t] = "void"]
        /\ UNCHANGED <<tokenUser, purpose, link, linkedBy, raced, old, lateLink, uses>>
        /\ UNCHANGED <<known, google, role, active, era, sessions>>
        /\ UNCHANGED <<op, who, token, seen, want>> /\ UNCHANGED request
    BY DEF Expire, people, links, history, request
  <1>2. TokenTypes /\ PeopleTypes
    BY DEF AccountsInv, Types
  <1>3. /\ \A x \in Token : tokenState'[x] = IF x = t THEN "void" ELSE tokenState[x]
        /\ TokenTypes'
    BY <1>1, <1>2 DEF TokenTypes
  <1>4. PeopleTypes' /\ SessionsEnd' /\ FounderStays' /\ FlushedAreLate'
    BY <1>1 DEF AccountsInv, Types, PeopleTypes, SessionsEnd, FounderStays, FlushedAreLate
  <1>5. \A q \in Thread, x \in Token : Holds(q, x) => x # t
    BY <1>1 DEF Holds, TokenLocked
  <1>6. HeldTokens'
    BY <1>1, <1>3, <1>5 DEF AccountsInv, HeldTokens, TokenHeld, Holds
  <1>7. UsesCounted' /\ OneLiveToken' /\ OldAreCleared'
    <2>1. \A x \in Token : tokenState'[x] \in {"live", "used"} => tokenState'[x] = tokenState[x]
      BY <1>3
    <2>2. UsesCounted'
      BY <1>1, <1>3 DEF AccountsInv, UsesCounted
    <2>3. \A u \in User, p \in Purpose : LiveTokens(u, p)' \subseteq LiveTokens(u, p)
      BY <1>1, <2>1 DEF LiveTokens
    <2>4. OneLiveToken'
      BY <1>1, <2>3 DEF AccountsInv, OneLiveToken
    <2> QED
      BY <1>1, <1>2, <1>3, <2>2, <2>4 DEF AccountsInv, OldAreCleared, Cleared, TokenTypes
  <1>8. SeenByUnlink'
    BY <1>1, <1>3, RequestsRest DEF AccountsInv, SeenByUnlink, Cleared, RequestTypes
  <1>9. LinksAreUsed'
    BY <1>1, <1>2, <1>3 DEF AccountsInv, LinksAreUsed, TokenTypes
  <1> QED
    BY <1>1, <1>3, <1>4, <1>6, <1>7, <1>8, <1>9, RequestsRest DEF AccountsInv, Types

-----------------------------------------------------------------------------
(* Commits. *)

\* A commit that moves tokens on, and ends the request of its thread.
LEMMA Committed ==
    ASSUME AccountsInv, NEW q \in Thread, Done(q), sessions' = sessions,
           PeopleTypes', SessionsEnd', FounderStays',
           TokenTypes', UsesCounted', OneLiveToken', OldAreCleared', LinksAreUsed',
           \A r \in Thread \ {q}, t \in Token : Holds(r, t) =>
              tokenState'[t] = tokenState[t] /\ tokenUser'[t] = tokenUser[t] /\ purpose'[t] = purpose[t],
           \A t \in Token : tokenState[t] # "free" =>
              tokenState'[t] # "free" /\ tokenUser'[t] = tokenUser[t] /\ purpose'[t] = purpose[t],
           lateLink \subseteq lateLink',
           \A r \in Thread \ {q} : op[r] = "unlink" => \A t \in seen[r] :
              tokenState'[t] = "used" => tokenState[t] = "used" \/ t \in lateLink'
    PROVE  AccountsInv'
  <1>1. RequestTypes' /\ op'[q] = "idle" /\ token'[q] = NoToken /\ \A r \in Thread \ {q} : Same(r)
    BY Finishes DEF AccountsInv
  <1>2. RequestFits(q)'
    BY <1>1 DEF RequestFits, Changing
  <1>3. \A r \in Thread : RequestFits(r)'
    BY <1>1, <1>2, FitsKept
  <1>4. \A t \in Token : ~ Holds(q, t)'
    BY <1>1, AccountsAssumption DEF Holds
  <1>5. HeldTokens'
    BY <1>1, <1>4, HeldKept
  <1>6. FlushedAreLate'
    BY <1>1, LateKept
  <1>7. SeenByUnlink'
    BY <1>1, SeenKept
  <1> QED
    BY <1>1, <1>3, <1>5, <1>6, <1>7 DEF AccountsInv, Types

\* Users and sessions that a commit leaves alone.
LEMMA PeopleRest ==
    ASSUME AccountsInv, UNCHANGED <<people, sessions>>
    PROVE  PeopleTypes' /\ SessionsEnd' /\ FounderStays'
  BY DEF AccountsInv, Types, PeopleTypes, SessionsEnd, FounderStays, people

\* The tokens that are voided and those that are not.
LEMMA Voided ==
    ASSUME NEW ts \in SUBSET Token, NEW t \in Token
    PROVE  Void(ts)[t] = IF t \in ts /\ tokenState[t] = "live" THEN "void" ELSE tokenState[t]
  BY DEF Void

LEMMA TokenCommits ==
    ASSUME AccountsInv, NEW q \in Thread, NEW t \in Token, CommitToken(q, t) PROVE AccountsInv'
  <1>1. /\ op[q] \in Purpose /\ tokenState[t] = "free" /\ \A s \in seen[q] : ~TokenLocked(s)
        /\ Done(q) /\ UNCHANGED <<people, sessions, link, linkedBy, old, lateLink, uses>>
        /\ raced' = IF LiveTokens(who[q], op[q]) \subseteq seen[q] THEN raced ELSE raced \union {t}
    BY DEF CommitToken, links
  <1>2. /\ who[q] \in User /\ seen[q] \in SUBSET Token /\ TokenTypes
        /\ op[q] \in {"password_reset", "telegram"}
    BY <1>1 DEF AccountsInv, RequestFits, Purpose, Types, RequestTypes
  <1>3. \A x \in Token :
          /\ tokenState'[x] = IF x = t THEN "live"
                              ELSE IF x \in seen[q] /\ tokenState[x] = "live" THEN "void"
                              ELSE tokenState[x]
          /\ tokenUser'[x] = IF x = t THEN who[q] ELSE tokenUser[x]
          /\ purpose'[x] = IF x = t THEN op[q] ELSE purpose[x]
    BY <1>2 DEF CommitToken, Void, TokenTypes
  <1>4. TokenTypes'
    <2>1. tokenState' \in [Token -> {"free", "live", "void", "used"}]
      BY <1>2 DEF CommitToken, Void, TokenTypes
    <2>2. tokenUser' \in [Token -> User \union {NoUser}] /\ purpose' \in [Token -> Purpose]
      BY <1>1, <1>2 DEF CommitToken, TokenTypes
    <2> QED
      BY <1>1, <1>2, <2>1, <2>2 DEF TokenTypes
  <1>5. UsesCounted'
    BY <1>1, <1>2, <1>3 DEF AccountsInv, UsesCounted
  <1>6. OneLiveToken'
    <2> SUFFICES ASSUME NEW u \in User, NEW p \in Purpose, NEW x \in LiveTokens(u, p)',
                        NEW y \in LiveTokens(u, p)', x # y
                 PROVE  x \in raced' \/ y \in raced'
      BY DEF OneLiveToken
    <2>1. \A z \in LiveTokens(u, p)' : z = t \/ (z \in LiveTokens(u, p) /\ z \notin seen[q])
      BY <1>3 DEF LiveTokens
    <2>2. CASE x # t /\ y # t
      <3>1. x \in LiveTokens(u, p) /\ y \in LiveTokens(u, p)
        BY <2>1, <2>2
      <3>2. x \in raced \/ y \in raced
        BY <3>1 DEF AccountsInv, OneLiveToken
      <3>3. raced \subseteq raced'
        BY <1>1
      <3> QED
        BY <3>2, <3>3
    <2>3. CASE x = t \/ y = t
      <3>1. t \in LiveTokens(u, p)'
        BY <2>3
      <3>2. u = who[q] /\ p = op[q]
        BY <1>3, <3>1 DEF LiveTokens
      <3>3. ~ (LiveTokens(u, p) \subseteq seen[q])
        BY <2>1, <2>3
      <3> QED
        BY <1>1, <2>3, <3>2, <3>3
    <2> QED
      BY <2>2, <2>3
  <1>7. OldAreCleared'
    <2> SUFFICES ASSUME NEW x \in old PROVE tokenState'[x] \in {"void", "used"} /\ Cleared(x)'
      BY <1>1 DEF OldAreCleared
    <2>1. x \in Token /\ tokenState[x] \in {"void", "used"} /\ Cleared(x)
      BY <1>2 DEF AccountsInv, OldAreCleared, TokenTypes
    <2>2. tokenState'[x] = tokenState[x]
      BY <1>1, <1>3, <2>1
    <2> QED
      BY <1>1, <2>1, <2>2 DEF Cleared
  <1>8. LinksAreUsed'
    BY <1>1, <1>2, <1>3 DEF AccountsInv, LinksAreUsed, TokenTypes
  <1>9. ASSUME NEW r \in Thread \ {q}, NEW x \in Token, Holds(r, x)
        PROVE  x # t /\ x \notin seen[q]
    <2>1. tokenState[x] = "live"
      BY <1>9 DEF AccountsInv, HeldTokens, TokenHeld
    <2> QED
      BY <1>1, <1>9, <2>1 DEF TokenLocked, Holds
  <1>10. \A x \in Token : /\ tokenState[x] # "free" => tokenState'[x] # "free" /\ x # t
                          /\ tokenState'[x] = "used" => tokenState[x] = "used"
    BY <1>1, <1>3
  <1>11. seen \in [Thread -> SUBSET Token]
    BY DEF AccountsInv, Types, RequestTypes
  <1> QED
    BY <1>1, <1>3, <1>4, <1>5, <1>6, <1>7, <1>8, <1>9, <1>10, <1>11, PeopleRest, Committed

\* What using a token does to the counts and to what is live.
LEMMA UseCounts ==
    ASSUME AccountsInv, NEW t \in Token, tokenState[t] = "live", Use(t),
           UNCHANGED <<tokenUser, purpose, raced>>
    PROVE  /\ UsesCounted' /\ OneLiveToken'
           /\ tokenState' \in [Token -> {"free", "live", "void", "used"}] /\ uses' \in [Token -> Nat]
           /\ \A x \in Token : tokenState'[x] = IF x = t THEN "used" ELSE tokenState[x]
  <1>1. TokenTypes
    BY DEF AccountsInv, Types
  <1>2. \A x \in Token : /\ tokenState'[x] = IF x = t THEN "used" ELSE tokenState[x]
                         /\ uses'[x] = IF x = t THEN uses[x] + 1 ELSE uses[x]
    BY <1>1 DEF Use, TokenTypes
  <1>3. uses[t] = 0
    BY DEF AccountsInv, UsesCounted
  <1>4. UsesCounted'
    BY <1>2, <1>3 DEF AccountsInv, UsesCounted
  <1>5. \A u \in User, p \in Purpose : LiveTokens(u, p)' \subseteq LiveTokens(u, p)
    BY <1>2 DEF LiveTokens
  <1>6. OneLiveToken'
    BY <1>5 DEF AccountsInv, OneLiveToken
  <1>7. tokenState' \in [Token -> {"free", "live", "void", "used"}] /\ uses' \in [Token -> Nat]
    BY <1>1 DEF Use, TokenTypes
  <1> QED
    BY <1>2, <1>4, <1>6, <1>7

\* A token that is used was live, so no unlink that is done had voided it.
LEMMA UseClears ==
    ASSUME AccountsInv, NEW t \in Token, tokenState[t] = "live", old' = old,
           lateLink \subseteq lateLink',
           \A x \in Token : tokenState'[x] = IF x = t THEN "used" ELSE tokenState[x]
    PROVE  OldAreCleared'
  <1> SUFFICES ASSUME NEW x \in old PROVE tokenState'[x] \in {"void", "used"} /\ Cleared(x)'
    BY DEF OldAreCleared
  <1>1. x \in Token /\ tokenState[x] \in {"void", "used"} /\ Cleared(x)
    BY DEF AccountsInv, OldAreCleared, Types, TokenTypes
  <1>2. tokenState'[x] = tokenState[x]
    BY <1>1
  <1> QED
    BY <1>1, <1>2 DEF Cleared

LEMMA LinkCommits ==
    ASSUME AccountsInv, NEW q \in Thread, CommitLink(q) PROVE AccountsInv'
  <1> DEFINE t == token[q]
  <1>1. op[q] = "link" /\ t \in Token /\ who[q] \in User /\ tid[q] \in Telegram \union {NoTelegram}
    BY DEF CommitLink, AccountsInv, RequestFits, Types, RequestTypes
  <1>2. tokenState[t] = "live" /\ tokenUser[t] = who[q] /\ purpose[t] = "telegram"
        /\ \A r \in Thread : Holds(r, t) => r = q
    BY <1>1 DEF AccountsInv, HeldTokens, TokenHeld, Holds
  <1>3. /\ Done(q) /\ sessions' = sessions
        /\ UNCHANGED <<people, sessions, tokenUser, purpose, raced, old>>
    BY DEF CommitLink
  <1>4. TokenTypes /\ seen \in [Thread -> SUBSET Token]
    BY DEF AccountsInv, Types, RequestTypes
  <1>5. CASE link[who[q]] = NoTelegram /\ \A v \in User : link[v] # tid[q]
    <2>1. /\ link' = [link EXCEPT ![who[q]] = tid[q]]
          /\ linkedBy' = [linkedBy EXCEPT ![who[q]] = t] /\ Use(t)
          /\ lateLink' = IF \E r \in Thread : op[r] = "unlink" /\ who[r] = who[q]
                         THEN lateLink \union {t} ELSE lateLink
      BY <1>5 DEF CommitLink
    <2>2. /\ UsesCounted' /\ OneLiveToken'
          /\ tokenState' \in [Token -> {"free", "live", "void", "used"}] /\ uses' \in [Token -> Nat]
          /\ \A x \in Token : tokenState'[x] = IF x = t THEN "used" ELSE tokenState[x]
      BY <1>1, <1>2, <1>3, <2>1, UseCounts
    <2>3. lateLink \subseteq lateLink' /\ OldAreCleared'
      BY <1>1, <1>2, <1>3, <2>1, <2>2, UseClears
    <2>4. TokenTypes'
      BY <1>1, <1>3, <1>4, <2>1, <2>2 DEF TokenTypes
    <2>5. LinksAreUsed'
      <3> SUFFICES ASSUME NEW u \in User
                   PROVE  /\ link'[u] # NoTelegram => linkedBy'[u] \in Token
                          /\ linkedBy'[u] # NoToken => tokenState'[linkedBy'[u]] = "used"
        BY DEF LinksAreUsed
      <3>1. CASE u = who[q]
        BY <1>1, <1>4, <2>1, <2>2, <3>1 DEF TokenTypes
      <3>2. CASE u # who[q]
        <4>1. link'[u] = link[u] /\ linkedBy'[u] = linkedBy[u]
          BY <1>1, <1>4, <2>1, <3>2 DEF TokenTypes
        <4>2. linkedBy[u] \in Token \union {NoToken}
          BY <1>4 DEF TokenTypes
        <4> QED
          BY <2>2, <4>1, <4>2 DEF AccountsInv, LinksAreUsed
      <3> QED
        BY <3>1, <3>2
    <2>6. ASSUME NEW r \in Thread \ {q}, op[r] = "unlink", NEW x \in seen[r], tokenState'[x] = "used"
          PROVE  tokenState[x] = "used" \/ x \in lateLink'
      <3>1. x \in Token /\ tokenUser[x] = who[r]
        BY <1>4, <2>6 DEF AccountsInv, SeenByUnlink
      <3>2. CASE x = t
        BY <1>2, <2>1, <2>6, <3>1, <3>2
      <3>3. CASE x # t
        BY <2>2, <2>6, <3>1, <3>3
      <3> QED
        BY <3>2, <3>3
    <2>7. \A r \in Thread \ {q}, x \in Token : Holds(r, x) => x # t
      BY <1>2
    <2>8. /\ \A r \in Thread \ {q}, x \in Token : Holds(r, x) =>
               tokenState'[x] = tokenState[x] /\ tokenUser'[x] = tokenUser[x] /\ purpose'[x] = purpose[x]
          /\ \A x \in Token : tokenState[x] # "free" =>
               tokenState'[x] # "free" /\ tokenUser'[x] = tokenUser[x] /\ purpose'[x] = purpose[x]
      BY <1>3, <2>2, <2>7
    <2> HIDE DEF t
    <2> QED
      BY <1>3, <2>2, <2>3, <2>4, <2>5, <2>6, <2>8, PeopleRest, Committed
  <1>6. CASE ~ (link[who[q]] = NoTelegram /\ \A v \in User : link[v] # tid[q])
    <2>1. UNCHANGED <<tokens, links, history>> /\ UNCHANGED <<tokenState, tokenUser, purpose, lateLink>>
      BY <1>3, <1>6 DEF CommitLink, tokens, history
    <2> QED
      BY <1>3, <2>1, PeopleRest, TokensRest, Committed
  <1> QED
    BY <1>5, <1>6

LEMMA UnlinkCommits ==
    ASSUME AccountsInv, NEW q \in Thread, CommitUnlink(q) PROVE AccountsInv'
  <1>1. /\ op[q] = "unlink" /\ \A s \in seen[q] : ~TokenLocked(s)
        /\ tokenState' = Void(seen[q]) /\ old' = old \union seen[q] /\ Done(q)
        /\ UNCHANGED <<people, sessions, tokenUser, purpose, raced, lateLink, uses>>
    BY DEF CommitUnlink
  <1>2. TokenTypes /\ seen \in [Thread -> SUBSET Token] /\ who[q] \in User
    BY <1>1 DEF AccountsInv, Types, RequestTypes, RequestFits
  <1>3. \A x \in Token : tokenState'[x] = IF x \in seen[q] /\ tokenState[x] = "live" THEN "void"
                                          ELSE tokenState[x]
    BY <1>1, <1>2, Voided
  <1>4. \A u \in User : \/ link'[u] = link[u] /\ linkedBy'[u] = linkedBy[u]
                        \/ link'[u] = NoTelegram /\ linkedBy'[u] = NoToken
    BY <1>1, <1>2 DEF CommitUnlink, links, TokenTypes
  <1>5. TokenTypes'
    <2>1. tokenState' \in [Token -> {"free", "live", "void", "used"}]
      BY <1>1, <1>2 DEF Void, TokenTypes
    <2>2. link' \in [User -> Telegram \union {NoTelegram}] /\ linkedBy' \in [User -> Token \union {NoToken}]
      BY <1>2 DEF CommitUnlink, links, TokenTypes
    <2>3. old' \subseteq Token
      BY <1>1, <1>2 DEF TokenTypes
    <2> QED
      BY <1>1, <1>2, <2>1, <2>2, <2>3 DEF TokenTypes
  <1>6. UsesCounted'
    BY <1>1, <1>3 DEF AccountsInv, UsesCounted
  <1>7. OneLiveToken'
    <2>1. \A u \in User, p \in Purpose : LiveTokens(u, p)' \subseteq LiveTokens(u, p)
      BY <1>1, <1>3 DEF LiveTokens
    <2> QED
      BY <1>1, <2>1 DEF AccountsInv, OneLiveToken
  <1>8. OldAreCleared'
    <2> SUFFICES ASSUME NEW x \in old \union seen[q]
                 PROVE  tokenState'[x] \in {"void", "used"} /\ Cleared(x)'
      BY <1>1 DEF OldAreCleared
    <2>1. CASE x \in old
      <3>1. x \in Token /\ tokenState[x] \in {"void", "used"} /\ Cleared(x)
        BY <1>2, <2>1 DEF AccountsInv, OldAreCleared, TokenTypes
      <3>2. tokenState'[x] = tokenState[x]
        BY <1>3, <3>1
      <3> QED
        BY <1>1, <3>1, <3>2 DEF Cleared
    <2>2. CASE x \in seen[q]
      <3>1. x \in Token /\ tokenState[x] \in {"live", "void", "used"} /\ Cleared(x)
        BY <1>1, <1>2, <2>2 DEF AccountsInv, SeenByUnlink, TokenTypes
      <3>2. tokenState'[x] = IF tokenState[x] = "live" THEN "void" ELSE tokenState[x]
        BY <1>3, <2>2, <3>1
      <3> QED
        BY <1>1, <3>1, <3>2 DEF Cleared
    <2> QED
      BY <2>1, <2>2
  <1>9. LinksAreUsed'
    <2> SUFFICES ASSUME NEW u \in User
                 PROVE  /\ link'[u] # NoTelegram => linkedBy'[u] \in Token
                        /\ linkedBy'[u] # NoToken => tokenState'[linkedBy'[u]] = "used"
      BY DEF LinksAreUsed
    <2>1. linkedBy[u] \in Token \union {NoToken}
      BY <1>2 DEF TokenTypes
    <2> QED
      BY <1>3, <1>4, <2>1 DEF AccountsInv, LinksAreUsed
  <1>10. ASSUME NEW r \in Thread \ {q}, NEW x \in Token, Holds(r, x) PROVE x \notin seen[q]
    BY <1>1, <1>10 DEF TokenLocked, Holds
  <1>11. \A x \in Token : /\ tokenState[x] # "free" => tokenState'[x] # "free"
                          /\ tokenState'[x] = "used" => tokenState[x] = "used"
    BY <1>3
  <1>12. PeopleTypes' /\ SessionsEnd' /\ FounderStays'
    BY <1>1, PeopleRest
  <1> QED
    BY <1>1, <1>2, <1>3, <1>5, <1>6, <1>7, <1>8, <1>9, <1>10, <1>11, <1>12, Committed

\* The UPDATE of a user: its sessions end, and those made from here on are late.
LEMMA Flushes ==
    ASSUME AccountsInv, NEW q \in Thread, Flush(q) PROVE AccountsInv'
  <1>1. /\ op[q] \in {"change", "admin", "team"} /\ op' = [op EXCEPT ![q] = "flushed"]
        /\ UNCHANGED <<people, tokens, links, who, token, seen, sawEra, want, tid, history>>
        /\ sessions' = IF want[q].ends THEN {s \in sessions : s.user # who[q]} ELSE sessions
    BY DEF Flush
  <1>2. /\ UNCHANGED <<tokens, links, history>> /\ UNCHANGED <<tokenState, tokenUser, purpose, lateLink>>
        /\ UNCHANGED <<known, google, role, active, era>> /\ sessions' \subseteq sessions
    BY <1>1 DEF people, tokens, history
  <1>3. RequestTypes /\ PeopleTypes
    BY DEF AccountsInv, Types
  <1>4. op'[q] = "flushed" /\ \A r \in Thread \ {q} : Same(r)
    BY <1>1, <1>3 DEF RequestTypes, Same
  <1>5. RequestTypes' /\ PeopleTypes'
    <2>1. op' \in [Thread -> Ops]
      BY <1>1, <1>3 DEF RequestTypes, Ops
    <2> QED
      BY <1>1, <1>2, <1>3, <2>1 DEF RequestTypes, PeopleTypes
  <1>6. RequestFits(q)'
    BY <1>1, <1>4 DEF AccountsInv, RequestFits, Changing
  <1>7. \A r \in Thread : RequestFits(r)'
    BY <1>4, <1>6, FitsKept
  <1>8. HeldTokens'
    <2>1. \A r \in Thread, x \in Token : Holds(r, x)' <=> Holds(r, x)
      BY <1>1, <1>4 DEF Holds, Same
    <2>2. \A r \in Thread : op'[r] = "link" <=> op[r] = "link"
      BY <1>1, <1>4 DEF Same
    <2> QED
      BY <1>1, <1>2, <2>1, <2>2 DEF AccountsInv, HeldTokens, TokenHeld
  <1>9. FlushedAreLate'
    <2> SUFFICES ASSUME NEW r \in Thread, op'[r] = "flushed", want'[r].ends,
                        NEW s \in sessions', s.user = who'[r]
                 PROVE  s.late
      BY DEF FlushedAreLate
    <2>1. CASE r = q
      BY <1>1, <2>1
    <2>2. CASE r # q
      BY <1>2, <1>4, <2>2 DEF AccountsInv, FlushedAreLate, Same
    <2> QED
      BY <2>1, <2>2
  <1>10. SeenByUnlink'
    BY <1>2, <1>4, <1>5, SeenKept
  <1>11. SessionsEnd' /\ FounderStays'
    BY <1>2 DEF AccountsInv, SessionsEnd, FounderStays
  <1> QED
    BY <1>2, <1>5, <1>7, <1>8, <1>9, <1>10, <1>11, TokensRest DEF AccountsInv, Types

\* The commit of a change: a new era, for a user whose sessions are all late.
LEMMA ChangeCommits ==
    ASSUME AccountsInv, NEW q \in Thread, CommitChange(q) PROVE AccountsInv'
  <1> DEFINE u == who[q]
             t == token[q]
  <1>1. /\ op[q] = "flushed" /\ Done(q)
        /\ era' = IF want[q].ends THEN [era EXCEPT ![u] = @ + 1] ELSE era
        /\ role' = IF want[q].role = "same" THEN role ELSE [role EXCEPT ![u] = want[q].role]
        /\ active' = IF want[q].active = "keep" THEN active
                     ELSE [active EXCEPT ![u] = want[q].active = "on"]
        /\ IF t = NoToken THEN UNCHANGED <<tokenState, uses>> ELSE Use(t)
        /\ UNCHANGED <<traffic, known, google, oauth, sessions, tokenUser, purpose, links,
                       raced, old, lateLink>>
    BY DEF CommitChange
  <1>2. PeopleTypes /\ TokenTypes /\ seen \in [Thread -> SUBSET Token]
    BY DEF AccountsInv, Types, RequestTypes
  <1>3. u \in User /\ t \in Token \union {NoToken} /\ want[q] \in Want
    BY <1>1 DEF AccountsInv, RequestFits, Types, RequestTypes
  <1>4. u = Founder => want[q].role = "same" /\ want[q].active = "keep"
    BY <1>1 DEF AccountsInv, RequestFits, Changing
  <1> HIDE DEF u, t
  <1>5. PeopleTypes'
    <2>1. want[q].role \in Role \union {"same"} /\ (want[q].active = "on") \in BOOLEAN
      BY <1>3 DEF Want
    <2>2. role' \in [User -> Role] /\ era' \in [User -> Nat]
      BY <1>1, <1>2, <1>3, <2>1 DEF PeopleTypes
    <2>3. active' \in [User -> BOOLEAN]
      BY <1>1, <1>2, <1>3, <2>1 DEF PeopleTypes
    <2> QED
      BY <1>1, <1>2, <2>2, <2>3 DEF PeopleTypes
  <1>6. FounderStays'
    <2>1. role[Founder] = "SUPER_ADMIN" /\ active[Founder] /\ Founder \in User
      BY AccountsAssumption DEF AccountsInv, FounderStays
    <2>2. role'[Founder] = role[Founder]
      BY <1>1, <1>2, <1>3, <1>4, <2>1 DEF PeopleTypes
    <2>3. active'[Founder] = active[Founder]
      BY <1>1, <1>2, <1>3, <1>4, <2>1 DEF PeopleTypes
    <2> QED
      BY <2>1, <2>2, <2>3 DEF FounderStays
  <1>7. SessionsEnd'
    <2> SUFFICES ASSUME NEW s \in sessions PROVE s.era = era'[s.user] \/ s.late
      BY <1>1 DEF SessionsEnd
    <2>1. s.user \in User /\ (s.era = era[s.user] \/ s.late)
      BY <1>2 DEF AccountsInv, SessionsEnd, PeopleTypes, Sessions
    <2>2. CASE want[q].ends /\ s.user = u
      BY <1>1, <2>2 DEF AccountsInv, FlushedAreLate, u
    <2>3. CASE ~ (want[q].ends /\ s.user = u)
      BY <1>1, <1>2, <2>1, <2>3 DEF PeopleTypes
    <2> QED
      BY <2>2, <2>3
  <1>8. CASE t = NoToken
    <2>1. UNCHANGED <<tokens, links, history>> /\ UNCHANGED <<tokenState, tokenUser, purpose, lateLink>>
      BY <1>1, <1>8 DEF tokens, links, history
    <2> QED
      BY <1>1, <1>5, <1>6, <1>7, <2>1, TokensRest, Committed
  <1>9. CASE t # NoToken
    <2>1. t \in Token /\ Use(t) /\ lateLink' = lateLink /\ UNCHANGED <<link, linkedBy>>
      BY <1>1, <1>3, <1>9 DEF links
    <2>2. tokenState[t] = "live" /\ purpose[t] = "password_reset"
          /\ \A r \in Thread : Holds(r, t) => r = q
      BY <1>1, <2>1 DEF AccountsInv, HeldTokens, TokenHeld, Holds, t
    <2>3. /\ UsesCounted' /\ OneLiveToken'
          /\ tokenState' \in [Token -> {"free", "live", "void", "used"}] /\ uses' \in [Token -> Nat]
          /\ \A x \in Token : tokenState'[x] = IF x = t THEN "used" ELSE tokenState[x]
      BY <1>1, <2>1, <2>2, UseCounts
    <2>4. OldAreCleared'
      BY <1>1, <2>1, <2>2, <2>3, UseClears
    <2>5. TokenTypes'
      BY <1>1, <1>2, <2>1, <2>3 DEF TokenTypes
    <2>6. LinksAreUsed'
      BY <1>2, <2>1, <2>3 DEF AccountsInv, LinksAreUsed, TokenTypes
    <2>7. ASSUME NEW r \in Thread \ {q}, op[r] = "unlink", NEW x \in seen[r], tokenState'[x] = "used"
          PROVE  tokenState[x] = "used"
      <3>1. x \in Token /\ purpose[x] = "telegram"
        BY <1>2, <2>7 DEF AccountsInv, SeenByUnlink
      <3> QED
        BY <2>2, <2>3, <2>7, <3>1
    <2>8. \A r \in Thread \ {q}, x \in Token : Holds(r, x) => x # t
      BY <2>2
    <2>9. /\ \A r \in Thread \ {q}, x \in Token : Holds(r, x) =>
               tokenState'[x] = tokenState[x] /\ tokenUser'[x] = tokenUser[x] /\ purpose'[x] = purpose[x]
          /\ \A x \in Token : tokenState[x] # "free" =>
               tokenState'[x] # "free" /\ tokenUser'[x] = tokenUser[x] /\ purpose'[x] = purpose[x]
      BY <1>1, <2>3, <2>8
    <2> QED
      BY <1>1, <1>5, <1>6, <1>7, <2>1, <2>3, <2>4, <2>5, <2>6, <2>7, <2>9, Committed
  <1> QED
    BY <1>8, <1>9

-----------------------------------------------------------------------------
(* The theorems. *)

LEMMA AccountsInit == Init => AccountsInv
  <1> SUFFICES ASSUME Init PROVE AccountsInv
    OBVIOUS
  <1>1. PeopleTypes /\ TokenTypes
    BY AccountsAssumption DEF Init, PeopleTypes, TokenTypes, Role, Purpose
  <1>2. RequestTypes
    BY NoWants DEF Init, RequestTypes, Ops
  <1>3. \A q \in Thread : RequestFits(q)
    BY DEF Init, RequestFits, Changing
  <1>4. HeldTokens /\ SeenByUnlink /\ FlushedAreLate
    BY AccountsAssumption DEF Init, HeldTokens, Holds, SeenByUnlink, FlushedAreLate
  <1>5. UsesCounted /\ OneLiveToken /\ SessionsEnd /\ OldAreCleared /\ LinksAreUsed
    BY DEF Init, UsesCounted, OneLiveToken, LiveTokens, SessionsEnd, OldAreCleared, LinksAreUsed
  <1>6. FounderStays
    BY AccountsAssumption DEF Init, FounderStays
  <1> QED
    BY <1>1, <1>2, <1>3, <1>4, <1>5, <1>6 DEF AccountsInv, Types

LEMMA AccountsNext == ASSUME AccountsInv, [Next]_vars PROVE AccountsInv'
  <1>1. known \subseteq User
    BY DEF AccountsInv, Types, PeopleTypes
  <1>2. ASSUME NEW q \in Thread, Begin(q) PROVE AccountsInv'
    BY <1>2, GoogleSteps, Logins, Unlinks, PasswordChanges, Updates, Issues, Resets, LinkStarts
    DEF Begin
  <1>3. ASSUME NEW q \in Thread, Proceed(q) PROVE AccountsInv'
    BY <1>3, GoogleSteps, SessionSteps, TokenCommits, LinkCommits, UnlinkCommits, Flushes,
       ChangeCommits
    DEF Proceed
  <1>4. ASSUME UNCHANGED <<google, role, active, era, tokens, links, request, history>>,
               known' \subseteq User, sessions' \subseteq sessions
        PROVE  AccountsInv'
    BY <1>4, UsersCome
  <1>5. ASSUME NEW s \in sessions, Logout(s) PROVE AccountsInv'
    BY <1>1, <1>4, <1>5 DEF Logout, people
  <1>6. ASSUME NEW u \in User, Register(u) PROVE AccountsInv'
    BY <1>1, <1>4, <1>6 DEF Register
  <1>7. CASE GoogleStart \/ UNCHANGED vars
    BY <1>1, <1>4, <1>7 DEF GoogleStart, vars, people
  <1> QED
    BY <1>2, <1>3, <1>5, <1>6, <1>7, Expires DEF Next

\* What users, sessions, tokens, links and the requests in flight are to each other in
\* every state.
THEOREM AccountsHold == Spec => []AccountsInv
  <1>1. AccountsInv /\ [Next]_vars => AccountsInv'
    BY AccountsNext
  <1> QED
    BY AccountsInit, <1>1, PTL DEF Spec

\* A one-time token is used at most once, by however many requests and workers that
\* present it together (security.consume_token).
THEOREM TokensUsedOnce == Spec => []UsedOnce
  <1>1. AccountsInv => UsedOnce
    BY DEF AccountsInv, UsesCounted, UsedOnce
  <1> QED
    BY AccountsHold, <1>1, PTL

\* A user has one live token of a purpose, unless two requests for it overlapped
\* (security.issue_token).
THEOREM TokensReplaced == Spec => []OneLiveToken
  <1>1. AccountsInv => OneLiveToken
    BY DEF AccountsInv
  <1> QED
    BY AccountsHold, <1>1, PTL

\* No session survives a password change, a reset, an update or a switch-off of its user,
\* unless its login overlapped it.
THEOREM SessionsDoEnd == Spec => []SessionsEnd
  <1>1. AccountsInv => SessionsEnd
    BY DEF AccountsInv
  <1> QED
    BY AccountsHold, <1>1, PTL

\* After an unlink no pending token links the user again, but in a link that overlapped it
\* (telegram_unlink).
THEOREM UnlinksHold == Spec => []UnlinkHolds
  <1>1. AccountsInv => UnlinkHolds
    <2> SUFFICES ASSUME AccountsInv, NEW u \in User, link[u] # NoTelegram, linkedBy[u] \in old
                 PROVE  linkedBy[u] \in lateLink
      BY DEF UnlinkHolds
    <2>1. linkedBy[u] \in Token /\ tokenState[linkedBy[u]] = "used"
      BY AccountsAssumption DEF AccountsInv, LinksAreUsed
    <2> QED
      BY <2>1 DEF AccountsInv, OldAreCleared, Cleared
  <1> QED
    BY AccountsHold, <1>1, PTL

\* The owner create-admin made stays an active owner, whatever the owners he promotes do
\* (update_user).
THEOREM FounderKept == Spec => []FounderStays
  <1>1. AccountsInv => FounderStays
    BY DEF AccountsInv
  <1> QED
    BY AccountsHold, <1>1, PTL
=============================================================================
