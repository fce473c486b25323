------------------------------ MODULE Sessions ------------------------------
(***************************************************************************)
(* Accounts and their sessions.  A session is a family of refresh tokens,  *)
(* numbered by its first token; the table refresh_tokens is a sequence     *)
(* that only grows.  Requests of several browser tabs run side by side.    *)
(* Transactions are READ COMMITTED: an UPDATE finds its rows in a snapshot *)
(* and then takes them one by one, waiting for a row another transaction   *)
(* holds and looking at it again; rows that come later it never sees.      *)
(*                                                                         *)
(* Both cookies are set and cleared together, so a browser is the number   *)
(* of the refresh token it keeps, and its access token names that family.  *)
(***************************************************************************)
EXTENDS Integers, Sequences, FiniteSets

CONSTANTS Requests,   \* slots for requests in flight
          Browsers, Passwords,
          Grace,      \* REFRESH_REUSE_GRACE_SECONDS
          Ttl,        \* refresh_token_expire_days
          MaxFailed,  \* login_max_failed_attempts
          Lockout,    \* login_lockout_minutes
          MaxClock, MaxTokens, MaxSent  \* bounds: ticks, tokens, requests

ASSUME DurationsAssumption == Grace \in Nat /\ Ttl \in Nat \ {0} /\ Lockout \in Nat \ {0}
ASSUME LimitsAssumption == MaxFailed \in Nat \ {0} /\ {MaxClock, MaxTokens, MaxSent} \subseteq Nat

VARIABLES clock,    \* what utcnow() returns
          tokens,   \* refresh_tokens, in the order of their commits
          account,  \* the row of users with this email
          jar,      \* per browser: the refresh token it keeps
          req,      \* the requests in flight
          sent,     \* how many there have been
          ended,    \* families somebody has ended (for properties)
          overlap,  \* families that got a token while somebody was ending them
          late,     \* an answer was lost or took longer than half the grace
          reused,   \* a live session was ended because an old token came back
          reverted  \* a login has written a password that was no longer the last

past == <<ended, overlap, late, reused, reverted>>
vars == <<clock, tokens, account, jar, req, sent, past>>

Null == -1
None == 0
Absent == [role |-> "none", password |-> None, old |-> FALSE, failed |-> 0,
           lockedUntil |-> Null, version |-> 0, lastSet |-> None]
Idle == [op |-> "none", pc |-> "idle", browser |-> None, sent |-> 0, now |-> 0, token |-> None,
         given |-> None, wanted |-> None, seen |-> Absent, todo |-> {}, marked |-> {},
         issued |-> None]

Time == 0..MaxClock
Word == Passwords \cup {None}
TokenRow == [family : Nat \ {0}, auth : Nat, revoked : Time \cup {Null}, expires : Nat]
AccountRow == [role : {"none", "CUSTOMER", "ADMIN"}, password : Word, old : BOOLEAN,
               failed : Nat, lockedUntil : Nat \cup {Null}, version : Nat, lastSet : Word]
Request == [op : {"none", "refresh", "logout", "login", "change", "reset", "register"},
            pc : {"idle", "sent", "waiting", "loaded", "rotating", "revoking", "answered"},
            browser : Browsers \cup {None}, sent : Time, now : Time, token : Nat,
            given : Word, wanted : Word, seen : AccountRow, todo : SUBSET Nat,
            marked : SUBSET Nat, issued : Nat]

\* Every variable keeps to its columns and every request to its steps.
TypeOK ==
  /\ clock \in Time /\ sent \in 0..MaxSent
  /\ tokens \in Seq(TokenRow) /\ Len(tokens) <= MaxTokens
  /\ account \in AccountRow
  /\ jar \in [Browsers -> 0..Len(tokens)]
  /\ req \in [Requests -> Request]
  /\ \A r \in Requests : req[r].todo \cup req[r].marked \subseteq 1..Len(tokens)
  /\ ended \cup overlap \subseteq 1..Len(tokens)
  /\ {late, reused, reverted} \subseteq BOOLEAN

-----------------------------------------------------------------------------
Ids == DOMAIN tokens
Unrevoked(i) == tokens[i].revoked = Null
Alive(i) == Unrevoked(i) /\ tokens[i].expires > clock
IsSessionActive(f) == \E i \in Ids : tokens[i].family = f /\ Alive(i)
UnrevokedOf(f) == {i \in Ids : tokens[i].family = f /\ Unrevoked(i)}
Family(r) == tokens[req[r].token].family
Active == {r \in Requests : req[r].pc # "idle"}
SetsPassword(r) == req[r].op \in {"change", "reset"}

\* Rows of refresh_tokens that a transaction has locked.
Holds(r) == req[r].marked \cup
            IF req[r].op = "refresh" /\ req[r].pc \in {"rotating", "revoking"}
            THEN {req[r].token} ELSE {}
TokenFree(r, i) == \A q \in Requests \ {r} : i \notin Holds(q)
AccountFree(r) == \A q \in Requests \ {r} : ~(SetsPassword(q) /\ req[q].pc = "revoking")

\* The transaction is over.  An answer that sets or clears cookies is under way; any
\* other changes nothing in the browser and the request is forgotten.
Answered(r, id) ==
  [req EXCEPT ![r] = IF id = None /\ @.op # "logout" THEN Idle
                     ELSE [Idle EXCEPT !.op = req[r].op, !.pc = "answered",
                                       !.browser = req[r].browser, !.sent = req[r].sent,
                                       !.issued = id]]

Init ==
  /\ clock = 0 /\ tokens = <<>> /\ sent = 0
  /\ \/ account = Absent
     \/ \E p \in Passwords, old \in BOOLEAN :
          account = [Absent EXCEPT !.role = "ADMIN", !.password = p, !.old = old,
                                   !.lastSet = p]
  /\ jar = [b \in Browsers |-> None]
  /\ req = [r \in Requests |-> Idle]
  /\ ended = {} /\ overlap = {} /\ late = FALSE /\ reused = FALSE /\ reverted = FALSE

\* An account's row as a transaction writes it that had loaded `seen`: a column is part
\* of the UPDATE only when it differs from what was loaded.
Cleared(seen, row) ==
  [row EXCEPT !.failed = IF seen.failed = 0 THEN @ ELSE 0,
              !.lockedUntil = IF seen.lockedUntil = Null THEN @ ELSE Null]
PasswordSet(seen, new) ==
  [Cleared(seen, account) EXCEPT !.password = new, !.old = FALSE,
                                 !.version = @ + 1, !.lastSet = new]
NewToken(f, auth, now) == [family |-> f, auth |-> auth, revoked |-> Null, expires |-> now + Ttl]
StartSession(rows, auth, now) == Append(rows, NewToken(Len(rows) + 1, auth, now))

-----------------------------------------------------------------------------
(* The browsers' side. *)

CanSend(r) == /\ req[r].pc = "idle" /\ sent < MaxSent
              /\ Len(tokens) + Cardinality(Active) < MaxTokens

\* A tab sends the cookie its browser has at that moment.
Send(r) ==
  /\ CanSend(r)
  /\ \E b \in Browsers, op \in {"refresh", "logout"} :
       /\ jar[b] # None
       /\ req' = [req EXCEPT ![r] = [Idle EXCEPT !.op = op, !.pc = "sent", !.browser = b,
                                                 !.sent = clock, !.token = jar[b]]]
  /\ sent' = sent + 1
  /\ UNCHANGED <<clock, tokens, account, jar, past>>

\* The answer arrives and sets or clears the cookies; an error leaves them alone.
Answer(r) ==
  /\ req[r].pc = "answered"
  /\ req' = [req EXCEPT ![r] = Idle]
  /\ jar' = IF req[r].issued # None THEN [jar EXCEPT ![req[r].browser] = req[r].issued]
            ELSE IF req[r].op = "logout" THEN [jar EXCEPT ![req[r].browser] = None]
            ELSE jar
  /\ UNCHANGED <<clock, tokens, account, sent, past>>

LoseAnswer(r) ==
  /\ req[r].pc = "answered"
  /\ req' = [req EXCEPT ![r] = Idle]
  /\ late' = TRUE
  /\ UNCHANGED <<clock, tokens, account, jar, sent, ended, overlap, reused, reverted>>

Tick ==
  /\ clock < MaxClock
  /\ clock' = clock + 1
  /\ late' = (late \/ \E r \in Active : clock + 1 - req[r].sent > Grace \div 2)
  /\ UNCHANGED <<tokens, account, jar, req, sent, ended, overlap, reused, reverted>>

-----------------------------------------------------------------------------
(* Refresh. *)

\* `now` is taken before the row is locked, so the wait for the lock is not in it.
BeginRefresh(r) ==
  /\ req[r].pc = "sent" /\ req[r].op = "refresh"
  /\ req' = [req EXCEPT ![r].pc = "waiting", ![r].now = clock]
  /\ UNCHANGED <<clock, tokens, account, jar, sent, past>>

\* Mutant: the row is read without FOR UPDATE.
ReadsToken(r) == req[r].pc = "waiting"

LocksToken(r) == req[r].pc = "waiting" /\ TokenFree(r, req[r].token)
Replaced(r) == ~Unrevoked(req[r].token)
\* Mutant: the last instant of the grace is left out.
WithinShorterGrace(r) == req[r].now - tokens[req[r].token].revoked < Grace

WithinGrace(r) == req[r].now - tokens[req[r].token].revoked <= Grace

RefuseRefresh(r) ==
  /\ LocksToken(r)
  /\ IF Replaced(r) THEN WithinGrace(r) ELSE tokens[req[r].token].expires <= req[r].now
  /\ req' = Answered(r, None)
  /\ UNCHANGED <<clock, tokens, account, jar, sent, past>>

RotateToken(r) ==
  /\ LocksToken(r)
  /\ ~Replaced(r) /\ tokens[req[r].token].expires > req[r].now
  /\ req' = [req EXCEPT ![r].pc = "rotating"]
  /\ UNCHANGED <<clock, tokens, account, jar, sent, past>>

CommitRotation(r) ==
  LET i == req[r].token
      f == Family(r)
  IN /\ req[r].pc = "rotating"
     /\ tokens' = Append([tokens EXCEPT ![i].revoked = req[r].now],
                         NewToken(f, tokens[i].auth, req[r].now))
     /\ req' = Answered(r, Len(tokens'))
     /\ overlap' = IF \E q \in Requests : i \in req[q].todo THEN overlap \cup {f} ELSE overlap
     /\ UNCHANGED <<clock, account, jar, sent, ended, late, reused, reverted>>

\* A token that was replaced longer ago: the whole family is revoked.
DetectReuse(r) ==
  /\ LocksToken(r)
  /\ Replaced(r) /\ ~WithinGrace(r)
  /\ req' = [req EXCEPT ![r].pc = "revoking", ![r].todo = UnrevokedOf(Family(r))]
  /\ UNCHANGED <<clock, tokens, account, jar, sent, past>>

-----------------------------------------------------------------------------
(* Revoking: the rows an UPDATE found are taken one by one. *)

BeginLogout(r) ==
  /\ req[r].pc = "sent" /\ req[r].op = "logout"
  /\ req' = [req EXCEPT ![r].pc = "revoking", ![r].now = clock,
                        ![r].todo = UnrevokedOf(Family(r))]
  /\ UNCHANGED <<clock, tokens, account, jar, sent, past>>

\* Mutant: the UPDATE does not wait for a row in somebody's hands.
RevokeAnyRow(r) ==
  /\ req[r].pc = "revoking"
  /\ \E i \in req[r].todo :
       req' = [req EXCEPT ![r].todo = @ \ {i},
                          ![r].marked = IF Unrevoked(i) THEN @ \cup {i} ELSE @]
  /\ UNCHANGED <<clock, tokens, account, jar, sent, past>>

RevokeRow(r) ==
  /\ req[r].pc = "revoking"
  /\ \E i \in req[r].todo :
       /\ TokenFree(r, i)
       /\ req' = [req EXCEPT ![r].todo = @ \ {i},
                             ![r].marked = IF Unrevoked(i) THEN @ \cup {i} ELSE @]
  /\ UNCHANGED <<clock, tokens, account, jar, sent, past>>

RevokesAll(r) == req[r].pc = "revoking" /\ req[r].todo = {}
Revoked(r) == [i \in Ids |-> IF i \in req[r].marked
                             THEN [tokens[i] EXCEPT !.revoked = req[r].now] ELSE tokens[i]]

CommitEnd(r) ==
  /\ RevokesAll(r) /\ req[r].op \in {"logout", "refresh"}
  /\ tokens' = Revoked(r)
  /\ req' = Answered(r, None)
  /\ ended' = ended \cup {Family(r)}
  /\ reused' = (reused \/ (req[r].op = "refresh" /\ \E i \in req[r].marked : Alive(i)))
  /\ UNCHANGED <<clock, account, jar, sent, overlap, late, reverted>>

\* A changed password ends every session and starts one; a reset starts none.
CommitPassword(r) ==
  /\ RevokesAll(r) /\ SetsPassword(r)
  /\ account' = PasswordSet(req[r].seen, req[r].wanted)
  /\ tokens' = IF req[r].op = "change" THEN StartSession(Revoked(r), account'.version, clock)
                                       ELSE Revoked(r)
  /\ req' = Answered(r, IF req[r].op = "change" THEN Len(tokens') ELSE None)
  /\ UNCHANGED <<clock, jar, sent, past>>

-----------------------------------------------------------------------------
(* Accounts. *)

\* A request about the account begins by reading its row; everything it decides later it
\* decides from what it read here.  (One that finds no account, no session or no admin is
\* refused and has no effect.)
LoadAccount(r, request) ==
  /\ CanSend(r) /\ account # Absent
  /\ req' = [req EXCEPT ![r] = [request EXCEPT !.pc = "loaded", !.sent = clock, !.now = clock,
                                               !.seen = account]]
  /\ sent' = sent + 1
  /\ UNCHANGED <<clock, tokens, account, jar, past>>

BeginLogin(r) == \E b \in Browsers, given \in Passwords :
  LoadAccount(r, [Idle EXCEPT !.op = "login", !.browser = b, !.given = given])

\* Whoever changes a password is signed in: the session of the access token is active.
BeginChange(r) == \E b \in Browsers, given, wanted \in Passwords :
  /\ jar[b] # None /\ IsSessionActive(tokens[jar[b]].family)
  /\ LoadAccount(r, [Idle EXCEPT !.op = "change", !.browser = b, !.given = given,
                                 !.wanted = wanted])

\* The command line resets the password of an admin.
BeginReset(r) == \E wanted \in Passwords :
  /\ account.role = "ADMIN"
  /\ LoadAccount(r, [Idle EXCEPT !.op = "reset", !.wanted = wanted])

NewUser(role, password) == [Absent EXCEPT !.role = role, !.password = password,
                                          !.lastSet = password]

\* A new account of a customer, who is signed in.
Register(r) ==
  /\ CanSend(r) /\ account = Absent
  /\ \E b \in Browsers, p \in Passwords :
       /\ account' = NewUser("CUSTOMER", p)
       /\ tokens' = StartSession(tokens, 0, clock)
       /\ req' = [req EXCEPT ![r] = [Idle EXCEPT !.op = "register", !.browser = b,
                                     !.pc = "answered", !.sent = clock, !.issued = Len(tokens')]]
  /\ sent' = sent + 1
  /\ UNCHANGED <<clock, jar, past>>

\* The command line creates an admin, who is not.
CreateAdmin(r) ==
  /\ CanSend(r) /\ account = Absent
  /\ \E p \in Passwords : account' = NewUser("ADMIN", p)
  /\ sent' = sent + 1
  /\ UNCHANGED <<clock, tokens, req, jar, past>>

Seen(r) == req[r].seen
Served(r) == Seen(r).lockedUntil # Null /\ Seen(r).lockedUntil <= req[r].now
\* Mutant: the lock is looked at only after a wrong password.
LockedIfWrong(r) == Seen(r).lockedUntil # Null /\ ~Served(r) /\ req[r].given # Seen(r).password

Locked(r) == Seen(r).lockedUntil # Null /\ ~Served(r)
PasswordOk(r) == req[r].given = Seen(r).password

\* While the account is locked a login is refused whatever the password, and not counted.
RefuseLocked(r) ==
  /\ req[r].pc = "loaded" /\ req[r].op = "login" /\ Locked(r)
  /\ req' = Answered(r, None)
  /\ UNCHANGED <<clock, tokens, account, jar, sent, past>>

\* A password too weak to be set: nothing is saved.
RefuseWeak(r) ==
  /\ req[r].pc = "loaded" /\ SetsPassword(r)
  /\ req[r].op = "change" => PasswordOk(r)
  /\ req' = Answered(r, None)
  /\ UNCHANGED <<clock, tokens, account, jar, sent, past>>

\* The count is made by the database; the lock is set from its result.
RegisterFailure(r) ==
  LET row == IF req[r].op = "login" /\ Served(r) THEN Cleared(Seen(r), account) ELSE account
      now == IF req[r].op = "login" THEN req[r].now ELSE clock
  IN /\ req[r].pc = "loaded" /\ AccountFree(r)
     /\ req[r].op \in {"login", "change"} /\ ~PasswordOk(r)
     /\ req[r].op = "login" => ~Locked(r)
     /\ account' = [row EXCEPT !.failed = @ + 1,
          !.lockedUntil = IF row.failed + 1 >= MaxFailed THEN now + Lockout ELSE @]
     /\ req' = Answered(r, None)
     /\ UNCHANGED <<clock, tokens, jar, sent, past>>

\* Mutant: every login writes the hash again.
AlwaysRehash(r) == TRUE

\* A successful login also writes a new hash of the password it verified when the stored
\* hash was made with old parameters.
NeedsRehash(r) == Seen(r).old
Overtaken(r) == Seen(r).version # account.version
Login(r) ==
  /\ req[r].pc = "loaded" /\ req[r].op = "login" /\ AccountFree(r)
  /\ ~Locked(r) /\ PasswordOk(r)
  /\ LET row == Cleared(Seen(r), account)
     IN account' = IF NeedsRehash(r)
                   THEN [row EXCEPT !.password = req[r].given, !.old = FALSE] ELSE row
  /\ tokens' = StartSession(tokens, Seen(r).version, clock)
  /\ req' = Answered(r, Len(tokens'))
  /\ overlap' = IF Overtaken(r) THEN overlap \cup {Len(tokens')} ELSE overlap
  /\ reverted' = (reverted \/ (Seen(r).old /\ Overtaken(r)))
  /\ UNCHANGED <<clock, jar, sent, ended, late, reused>>

\* Mutant: only the requesting browser's own session is ended.
BeginPasswordOwn(r) ==
  /\ req[r].pc = "loaded" /\ SetsPassword(r) /\ AccountFree(r)
  /\ req[r].op = "change" => PasswordOk(r)
  /\ req' = [req EXCEPT ![r].pc = "revoking", ![r].now = clock,
                        ![r].todo = IF req[r].browser = None \/ jar[req[r].browser] = None
                                    THEN {} ELSE UnrevokedOf(tokens[jar[req[r].browser]].family)]
  /\ UNCHANGED <<clock, tokens, account, jar, sent, past>>

\* The new password is written first, which locks the account's row; then the sessions
\* to end are looked up.
BeginPassword(r) ==
  /\ req[r].pc = "loaded" /\ SetsPassword(r) /\ AccountFree(r)
  /\ req[r].op = "change" => PasswordOk(r)
  /\ req' = [req EXCEPT ![r].pc = "revoking", ![r].now = clock,
                        ![r].todo = {i \in Ids : Unrevoked(i)}]
  /\ UNCHANGED <<clock, tokens, account, jar, sent, past>>

-----------------------------------------------------------------------------
Refresh(r) == \/ BeginRefresh(r) \/ RefuseRefresh(r) \/ RotateToken(r) \/ CommitRotation(r)
              \/ DetectReuse(r)
Revoke(r) == BeginLogout(r) \/ RevokeRow(r) \/ CommitEnd(r) \/ CommitPassword(r)
Account(r) == \/ BeginLogin(r) \/ RefuseLocked(r) \/ RegisterFailure(r) \/ Login(r)
              \/ BeginChange(r) \/ BeginReset(r) \/ RefuseWeak(r) \/ BeginPassword(r)
              \/ Register(r) \/ CreateAdmin(r)
Browser(r) == Send(r) \/ Answer(r) \/ LoseAnswer(r)

\* Nothing is left to do: the bounds are used up and every request is over.
Over == Active = {} /\ (sent = MaxSent \/ Len(tokens) = MaxTokens) /\ clock = MaxClock
        /\ UNCHANGED vars

Next == Tick \/ Over \/ \E r \in Requests : Refresh(r) \/ Revoke(r) \/ Account(r) \/ Browser(r)
Spec == Init /\ [][Next]_vars

-----------------------------------------------------------------------------
\* Tabs that refresh at the same instant never split a session in two: a family has one
\* token that can be used (the row lock in rotate_session).
OneLiveToken == \A i, j \in Ids :
  tokens[i].family = tokens[j].family /\ Unrevoked(i) /\ Unrevoked(j) => i = j

\* However refreshes, logouts and password changes overlap, a token that is revoked stays
\* so, from the moment it was (the grace is counted from it: revoke_family leaves out what is
\* revoked already); and a family with no token left gets no other (rotate_session looks at
\* revoked_at under the lock).
NeverRevived ==
  [][/\ \A i \in Ids : ~Unrevoked(i) => tokens'[i].revoked = tokens[i].revoked
     /\ \A f \in Ids : UnrevokedOf(f) = {} => UnrevokedOf(f)' = {}]_vars

\* A logout ends its session, a detected reuse its family, and a new password every session
\* that was opened with an older one.  The exception is a refresh or login under way at
\* that very moment: its token is inserted where the UPDATE does not see it.
EndedStaysEnded == \A i \in Ids :
  Unrevoked(i) /\ (tokens[i].family \in ended \/ tokens[i].auth # account.version)
    => tokens[i].family \in overlap

\* Browsers whose answers all arrive, each within half the grace, never lose a session to
\* the reuse check, however their tabs refresh, retry and queue for the lock.
RetriesKeepTheSession == ~late => ~reused

\* A lockout stands until it is served: only a new password, or a login that had read the
\* account before this lockout was set, takes it away or shortens it.
LockoutStands ==
  [][account.lockedUntil > clock /\ account'.lockedUntil < account.lockedUntil
       => \/ account'.version # account.version
          \/ \E r \in Requests : /\ req[r].pc = "loaded" /\ req'[r] # req[r]
                                 /\ Seen(r).lockedUntil # account.lockedUntil]_vars

\* The password that works is the one set last, unless a login that had to upgrade the
\* hash of an earlier one was under way when it was set.
PasswordIsLastSet == account.password = account.lastSet \/ reverted
=============================================================================
